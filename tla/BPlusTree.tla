----------------------------- MODULE BPlusTree -----------------------------
(***************************************************************************)
(* The B+ tree of src/index: IxNodeHandle, IxIndexHandle and IxScan.       *)
(*                                                                         *)
(* insert_entry and delete_entry hold root_latch_ exclusively.  Their      *)
(* steps are the functions they call: todo is the call that comes next,    *)
(* and every call but the last statement of a function returns before      *)
(* anything else is changed, so that one pending call is enough.           *)
(*                                                                         *)
(* A key is the tuple of its columns.  A node holds its keys and its rids  *)
(* as two sequences: rids of records in a leaf, page numbers in an         *)
(* internal node.  Pages of deleted nodes are taken again; the program     *)
(* takes new numbers, which nothing compares.                              *)
(***************************************************************************)
EXTENDS Naturals, Sequences, FiniteSets, SequencesExt

CONSTANTS Keys,      \* keys, tuples of ColNum column values
          ColNum,    \* IxFileHdr::col_num_
          Order,     \* IxFileHdr::btree_order_
          RidOf,     \* the record that has a key
          Loads,     \* the rows of the table when the index is created
          Queries,   \* what is asked of the index
          Junk,      \* what the memory of key_ may hold before it is written
          MaxOps     \* bound: entries inserted and deleted after that

ASSUME OrderAssumption == Order \in Nat /\ Order > 2
ASSUME ColNumAssumption == ColNum \in Nat \ {0}
ASSUME KeysAssumption == Keys \subseteq [1 .. ColNum -> Nat] /\ Loads \subseteq Seq(Keys)

NoPage == 0          \* IX_NO_PAGE
InitRoot == 1        \* IX_INIT_ROOT_PAGE

VARIABLES node,      \* the pages of the tree
          root_page, first_leaf, last_leaf,    \* IxFileHdr
          todo,      \* the call that insert_entry or delete_entry makes next
          load,      \* what init_tree has still to insert
          ops        \* entries inserted and deleted so far

tree == <<node, root_page, first_leaf, last_leaf>>
vars == <<tree, todo, load, ops>>

Idle == <<"idle">>
-----------------------------------------------------------------------------
(* Keys and the search in a node *)

\* ix_compare on the first pre columns
Less(a, b, pre) ==
  \E i \in 1 .. pre : a[i] < b[i] /\ \A j \in 1 .. i - 1 : a[j] = b[j]

\* The first of the given slots, the node's size if there is none.  Slots count
\* from 0, as in the program: slot i is keys[i + 1].
FirstSlot(keys, slots) == IF slots = {} THEN Len(keys) ELSE Min(slots) - 1

lower_bound(keys, key, pre) ==
  FirstSlot(keys, {i \in 1 .. Len(keys) : ~Less(keys[i], key, pre)})
upper_bound(keys, key, pre) ==
  FirstSlot(keys, {i \in 1 .. Len(keys) : Less(key, keys[i], pre)})

Size(nd, p) == Len(nd[p].keys)
get_min_rid_size == (Order + 1) \div 2
get_max_key_size(n) == IF n.leaf THEN Order ELSE Order - 1
get_min_key_size(n) == IF n.leaf THEN get_min_rid_size ELSE get_min_rid_size - 1
is_root_page(n) == n.parent = NoPage

\* internal_lookup, down to a leaf: every column is compared.
find_leaf_page(key) ==
  LET Down[p \in DOMAIN node] ==
        IF node[p].leaf THEN p
        ELSE Down[node[p].rids[upper_bound(node[p].keys, key, ColNum) + 1]]
  IN Down[root_page]

\* The first key of the leaf that get_min_leafnode finds.
MinLeafKey(nd, p) ==
  LET Down[q \in DOMAIN nd] == IF nd[q].leaf THEN nd[q].keys[1] ELSE Down[nd[q].rids[1]]
  IN Down[p]

find_child(nd, parent, child) ==
  (CHOOSE i \in 1 .. Len(nd[parent].rids) : nd[parent].rids[i] = child) - 1

\* Mutant: the key above is left as it is.
maintain_no_parent(nd, p) == nd

\* The key that separates p's subtree from what is left of it, in the first
\* ancestor in which p's subtree is not the leftmost.
maintain_parent(nd, p) ==
  LET Up[c \in DOMAIN nd] ==
        LET q == nd[c].parent
            rank == find_child(nd, q, c)
        IN IF q = NoPage THEN nd
           ELSE IF rank > 0 THEN [nd EXCEPT ![q].keys[rank] = MinLeafKey(nd, p)]
           ELSE Up[q]
  IN Up[p]

\* maintain_child for each of the pages
maintain_child(nd, p, children) ==
  [q \in DOMAIN nd |-> IF q \in children THEN [nd[q] EXCEPT !.parent = p] ELSE nd[q]]

\* create_node
NewPage == CHOOSE p \in 1 .. Cardinality(DOMAIN node) + 1 : p \notin DOMAIN node

\* Mutant: the way back is forgotten.
RelinkOneWay(nd, p, prev) == nd

\* The next node's link back.
Relink(nd, p, prev) == IF p = NoPage THEN nd ELSE [nd EXCEPT ![p].prev = prev]

-----------------------------------------------------------------------------
(* insert_entry *)

\* IxNodeHandle::insert into the leaf; if the key is there,
\* IndexEntryNotUniqueError and nothing changes.
insert_entry(key) ==
  LET p == find_leaf_page(key)
      n == node[p]
      i == lower_bound(n.keys, key, ColNum)
      grown == [n EXCEPT !.keys = InsertAt(@, i + 1, key), !.rids = InsertAt(@, i + 1, RidOf[key])]
  IN /\ todo = Idle
     /\ ~(i < Len(n.keys) /\ n.keys[i + 1] = key)
     /\ node' = [node EXCEPT ![p] = grown]
     /\ todo' = IF Len(grown.keys) > get_max_key_size(n) THEN <<"overflow", p>> ELSE Idle
     /\ UNCHANGED <<root_page, first_leaf, last_leaf>>

\* The rest of insert_entry: a neighbour with room takes keys, the left one
\* first, whoever its parent is; otherwise the leaf is split.
Overflow(p) ==
  LET n == node[p]
      Room(q) == q # NoPage /\ Size(node, q) < get_max_key_size(node[q])
  IN /\ todo = <<"overflow", p>>
     /\ todo' = IF Room(n.prev) THEN <<"redistribute", n.prev, p>>
                ELSE IF Room(n.next) THEN <<"redistribute", p, n.next>>
                ELSE <<"split", p>>
     /\ UNCHANGED <<tree, load, ops>>

\* Mutants: the key that goes up stays in no node, or in every one.
SkipAlways(n) == 1
SkipNever(n) == 0

\* Between internal nodes the key that goes up leaves its level.
Skip(n) == IF n.leaf THEN 0 ELSE 1

\* split: the upper part of p moves to a new right neighbour.  The first key
\* of that part goes up; a leaf keeps it too.
split(p) ==
  LET n == node[p]
      from == get_min_key_size(n)
      up == n.keys[from + 1]
      skip == Skip(n)
      q == NewPage
      new == [n EXCEPT !.keys = SubSeq(@, from + skip + 1, Len(@)),
                       !.rids = SubSeq(@, from + skip + 1, Len(@)),
                       !.prev = p]
      old == [n EXCEPT !.keys = SubSeq(@, 1, from), !.rids = SubSeq(@, 1, from + skip),
                       !.next = q]
      nd == Relink([x \in DOMAIN node \cup {q} |->
                      IF x = q THEN new ELSE IF x = p THEN old ELSE node[x]], n.next, q)
  IN /\ todo = <<"split", p>>
     /\ node' = IF n.leaf THEN nd ELSE maintain_child(nd, q, ToSet(new.rids))
     /\ last_leaf' = IF n.leaf /\ n.next = NoPage THEN q ELSE last_leaf
     /\ todo' = <<"insert_into_parent", p, up, q>>
     /\ UNCHANGED <<root_page, first_leaf, load, ops>>

insert_into_parent(old, key, new) ==
  /\ todo = <<"insert_into_parent", old, key, new>>
  /\ IF is_root_page(node[old])
     THEN LET r == NewPage
              root == [leaf |-> FALSE, parent |-> NoPage, keys |-> <<key>>, rids |-> <<old, new>>,
                       prev |-> NoPage, next |-> NoPage]
          IN /\ node' = maintain_child([x \in DOMAIN node \cup {r} |->
                                          IF x = r THEN root ELSE node[x]], r, {old, new})
             /\ root_page' = r
             /\ todo' = Idle
     ELSE LET q == node[old].parent
              i == upper_bound(node[q].keys, key, ColNum)
          IN /\ node' = [node EXCEPT ![q].keys = InsertAt(@, i + 1, key),
                                     ![q].rids = InsertAt(@, i + 2, new)]
             /\ todo' = IF Size(node, q) + 1 > get_max_key_size(node[q])
                        THEN <<"split", q>> ELSE Idle
             /\ UNCHANGED root_page
  /\ UNCHANGED <<first_leaf, last_leaf, load, ops>>

-----------------------------------------------------------------------------
(* redistribute: one turn of its loops at a time *)

\* Mutant: an even distribution is not even enough.
HeavierOrEven(p, q) == Size(node, p) >= Size(node, q)

Heavier(p, q) == Size(node, p) > Size(node, q) + 1

\* The right node's first entry moves to the end of the left one.  Between
\* internal nodes its key is dropped, and the least key below the child that
\* moves takes its place.
MoveLeft(l, r) ==
  LET a == node[l]
      b == node[r]
  IN /\ todo = <<"redistribute", l, r>>
     /\ Heavier(r, l)
     /\ node' = IF a.leaf
                THEN [node EXCEPT ![l].keys = Append(@, Head(b.keys)),
                                  ![l].rids = Append(@, Head(b.rids)),
                                  ![r].keys = Tail(@), ![r].rids = Tail(@)]
                ELSE maintain_child([node EXCEPT ![l].keys = Append(@, MinLeafKey(node, r)),
                                                 ![l].rids = Append(@, Head(b.rids)),
                                                 ![r].keys = Tail(@), ![r].rids = Tail(@)],
                                    l, {Head(b.rids)})
     /\ UNCHANGED <<root_page, first_leaf, last_leaf, todo, load, ops>>

MoveRight(l, r) ==
  LET a == node[l]
      b == node[r]
  IN /\ todo = <<"redistribute", l, r>>
     /\ Heavier(l, r)
     /\ node' = IF a.leaf
                THEN [node EXCEPT ![r].keys = <<Last(a.keys)>> \o @, ![r].rids = <<Last(a.rids)>> \o @,
                                  ![l].keys = Front(@), ![l].rids = Front(@)]
                ELSE maintain_child([node EXCEPT ![r].keys = <<MinLeafKey(node, r)>> \o @,
                                                 ![r].rids = <<Last(a.rids)>> \o @,
                                                 ![l].keys = Front(@), ![l].rids = Front(@)],
                                    r, {Last(a.rids)})
     /\ UNCHANGED <<root_page, first_leaf, last_leaf, todo, load, ops>>

\* The loop is over: the key between the two nodes is set anew.
Redistributed(l, r) ==
  /\ todo = <<"redistribute", l, r>>
  /\ ~Heavier(l, r)
  /\ ~Heavier(r, l)
  /\ node' = maintain_parent(node, r)
  /\ todo' = Idle
  /\ UNCHANGED <<root_page, first_leaf, last_leaf, load, ops>>

-----------------------------------------------------------------------------
(* delete_entry *)

\* IxNodeHandle::remove from the leaf; a key that is not there changes nothing.
delete_entry(key) ==
  LET p == find_leaf_page(key)
      n == node[p]
      i == lower_bound(n.keys, key, ColNum)
      small == [n EXCEPT !.keys = RemoveAt(@, i + 1), !.rids = RemoveAt(@, i + 1)]
  IN /\ todo = Idle
     /\ i < Len(n.keys) /\ n.keys[i + 1] = key
     /\ node' = [node EXCEPT ![p] = small]
     /\ todo' = IF ~is_root_page(n) /\ Len(small.keys) < get_min_key_size(n)
                THEN <<"coalesce_or_redistribute", p>> ELSE Idle
     /\ UNCHANGED <<root_page, first_leaf, last_leaf>>

\* Mutant: a node of minimal size is taken to have an entry to spare.
SpareAtMin(q) == Size(node, q) >= get_min_key_size(node[q])

Spare(q) == Size(node, q) > get_min_key_size(node[q])

\* The left neighbour is tried first, whoever its parent is.
coalesce_or_redistribute(p) ==
  LET n == node[p]
  IN /\ todo = <<"coalesce_or_redistribute", p>>
     /\ ~is_root_page(n)
     /\ \/ /\ n.prev # NoPage
           /\ todo' = <<IF Spare(n.prev) THEN "redistribute" ELSE "coalesce", n.prev, p>>
        \/ /\ n.prev = NoPage
           /\ n.next # NoPage
           /\ todo' = <<IF Spare(n.next) THEN "redistribute" ELSE "coalesce", p, n.next>>
     /\ UNCHANGED <<tree, load, ops>>

\* A root without keys is replaced by its only child.
adjust_root(p) ==
  LET child == node[p].rids[1]
  IN /\ todo = <<"coalesce_or_redistribute", p>>
     /\ is_root_page(node[p])
     /\ node' = [x \in DOMAIN node \ {p} |->
                   IF x = child THEN [node[x] EXCEPT !.parent = NoPage] ELSE node[x]]
     /\ root_page' = child
     /\ todo' = Idle
     /\ UNCHANGED <<first_leaf, last_leaf, load, ops>>

\* Everything of the right node moves to the left one.
coalesce(l, r) ==
  LET a == node[l]
      b == node[r]
      sep == IF a.leaf THEN <<>> ELSE <<MinLeafKey(node, r)>>
      nd == Relink([node EXCEPT ![l].keys = @ \o sep \o b.keys, ![l].rids = @ \o b.rids,
                                ![l].next = b.next], b.next, l)
  IN /\ todo = <<"coalesce", l, r>>
     /\ node' = IF a.leaf THEN nd ELSE maintain_child(nd, l, ToSet(b.rids))
     /\ last_leaf' = IF a.leaf /\ b.next = NoPage THEN l ELSE last_leaf
     /\ todo' = <<"update_right_parent", r>>
     /\ UNCHANGED <<root_page, first_leaf, load, ops>>

\* The emptied node leaves its parent, and the parent may be too small now.
update_right_parent(r) ==
  LET q == node[r].parent
      i == find_child(node, q, r)
      cut == [node EXCEPT ![q].keys = RemoveAt(@, IF i = 0 THEN 1 ELSE i),
                          ![q].rids = RemoveAt(@, i + 1)]
      nd == IF i = 0 THEN maintain_parent(cut, q) ELSE cut
      size == Size(nd, q)
  IN /\ todo = <<"update_right_parent", r>>
     /\ node' = Restrict(nd, DOMAIN nd \ {r})
     /\ todo' = IF size < (IF is_root_page(nd[q]) THEN 1 ELSE get_min_key_size(nd[q]))
                THEN <<"coalesce_or_redistribute", q>> ELSE Idle
     /\ UNCHANGED <<root_page, first_leaf, last_leaf, load, ops>>

-----------------------------------------------------------------------------
(* The clients of the tree *)

\* IxManager::create_index: the root is an empty leaf.
Init ==
  /\ node = (InitRoot :> [leaf |-> TRUE, parent |-> NoPage, keys |-> <<>>, rids |-> <<>>,
                          prev |-> NoPage, next |-> NoPage])
  /\ root_page = InitRoot
  /\ first_leaf = InitRoot
  /\ last_leaf = InitRoot
  /\ todo = Idle
  /\ load \in Loads
  /\ ops = 0

\* IxManager::init_tree inserts the rows in the order of the record file.
init_tree ==
  /\ load # <<>>
  /\ insert_entry(Head(load))
  /\ load' = Tail(load)
  /\ UNCHANGED ops

\* The executors and the undo of an abort.
Execute ==
  /\ load = <<>>
  /\ ops < MaxOps
  /\ \E key \in Keys : insert_entry(key) \/ delete_entry(key)
  /\ ops' = ops + 1
  /\ UNCHANGED load

\* What is left to do for an entry, under the same latch.
Rebalance ==
  \/ \E p \in DOMAIN node : Overflow(p)
  \/ \E p \in DOMAIN node : split(p)
  \/ \E p, q \in DOMAIN node, key \in Keys : insert_into_parent(p, key, q)
  \/ \E l, r \in DOMAIN node : MoveLeft(l, r)
  \/ \E l, r \in DOMAIN node : MoveRight(l, r)
  \/ \E l, r \in DOMAIN node : Redistributed(l, r)
  \/ \E p \in DOMAIN node : coalesce_or_redistribute(p)
  \/ \E p \in DOMAIN node : adjust_root(p)
  \/ \E l, r \in DOMAIN node : coalesce(l, r)
  \/ \E r \in DOMAIN node : update_right_parent(r)

Next == init_tree \/ Execute \/ Rebalance

\* The thread that holds the latch keeps running.
Spec == Init /\ [][Next]_vars /\ WF_vars(Rebalance)

-----------------------------------------------------------------------------
(* What readers do, under a shared latch *)

\* is_exist and get_value: the rid of the key, as a set
get_value(key) ==
  LET n == node[find_leaf_page(key)]
      i == lower_bound(n.keys, key, ColNum)
  IN IF i < Len(n.keys) /\ n.keys[i + 1] = key THEN {n.rids[i + 1]} ELSE {}

\* Mutant: the position behind a leaf's last entry is kept.
IidInLeaf(p, slot) == <<p, slot>>

\* IxIndexHandle::lower_bound and upper_bound: behind the last entry of a leaf
\* is the first of the next one.
Iid(p, slot) == IF slot = Size(node, p) /\ node[p].next # NoPage THEN <<node[p].next, 0>>
                                                                 ELSE <<p, slot>>

LowerIid(key, pre) ==
  LET p == find_leaf_page(key) IN Iid(p, lower_bound(node[p].keys, key, pre))
UpperIid(key, pre) ==
  LET p == find_leaf_page(key) IN Iid(p, upper_bound(node[p].keys, key, pre))
leaf_begin == <<first_leaf, 0>>
leaf_end == <<last_leaf, Size(node, last_leaf)>>

\* IxScan: the keys from lower to upper.  The table's shared lock keeps the
\* tree as it is until the scan is over.  A scan that begins behind the last
\* entry and not at upper has no row: it throws.
IxScan(lower, upper) ==
  LET Go[at \in (DOMAIN node) \X Nat] ==
        LET n == node[at[1]]
            key == n.keys[at[2] + 1]
            next == <<at[1], at[2] + 1>>
        IN IF at = upper \/ at[2] = Len(n.keys) THEN <<>>
           ELSE IF next[2] = Len(n.keys)
                THEN IF at[1] = last_leaf THEN <<key>> ELSE <<key>> \o Go[<<n.next, 0>>]
                ELSE <<key>> \o Go[next]
  IN Go[lower]

-----------------------------------------------------------------------------
(* IndexScanExecutor::beginTuple and nextTuple *)

\* A query: values for the first columns, and comparisons of the next one.
Holds(op, a, b) == CASE op = "<" -> a < b [] op = "<=" -> a <= b
                     [] op = ">" -> a > b [] op = ">=" -> a >= b [] op = "<>" -> a # b
Matches(key, q) ==
  /\ \A i \in 1 .. Len(q.eq) : key[i] = q.eq[i]
  /\ \A c \in q.range : Holds(c.op, key[Len(q.eq) + 1], c.val)

\* key_ holds the columns copied so far; the rest is what new left there.
KeyBuffer(cols, junk) == cols \o SubSeq(junk, Len(cols) + 1, ColNum)

ScanBounds(q, junk) ==
  LET n == Len(q.eq)
      lows == {c \in q.range : c.op \in {">", ">="}}
      highs == {c \in q.range : c.op \in {"<", "<="}}
      low == Max({c.val : c \in lows})
      high == Min({c.val : c \in highs})
      be == \A c \in lows : c.val = low => c.op = ">="
      le == \A c \in highs : c.val = high => c.op = "<="
      hasLow == lows # {}
      hasHigh == highs # {}
      key1 == KeyBuffer(IF hasLow THEN Append(q.eq, low) ELSE q.eq, junk)
      key2 == KeyBuffer(IF hasHigh THEN Append(q.eq, high) ELSE q.eq, key1)
      lower == IF hasLow THEN (IF be THEN LowerIid(key1, n + 1) ELSE UpperIid(key1, n + 1))
               ELSE IF n > 0 THEN LowerIid(key1, n) ELSE leaf_begin
      upper == IF hasHigh THEN (IF le THEN UpperIid(key2, n + 1) ELSE LowerIid(key2, n + 1))
               ELSE IF n > 0 THEN UpperIid(key2, n) ELSE leaf_end
      empty == hasLow /\ hasHigh /\ (low > high \/ (low = high /\ ~(be /\ le)))
  IN IF empty THEN <<leaf_begin, leaf_end>> ELSE <<lower, upper>>

\* Every row the scan meets is tested once more.
IndexScan(q, junk) ==
  LET b == ScanBounds(q, junk)
  IN SelectSeq(IxScan(b[1], b[2]), LAMBDA key : Matches(key, q))
-----------------------------------------------------------------------------
(* Properties *)

Leaf(p) == node[p].leaf
Rids == {RidOf[key] : key \in Keys}
entries == UNION {{<<node[p].keys[i], node[p].rids[i]>> : i \in DOMAIN node[p].keys} :
                    p \in {q \in DOMAIN node : Leaf(q)}}

Children(p) == IF Leaf(p) THEN <<>> ELSE node[p].rids

\* The leaves from left to right, as the internal nodes have them and as the
\* links have them.
Leaves ==
  LET Below[p \in DOMAIN node] ==
        IF Leaf(p) THEN <<p>> ELSE FlattenSeq([i \in DOMAIN Children(p) |-> Below[Children(p)[i]]])
  IN Below[root_page]
Chain ==
  LET From[p \in DOMAIN node] ==
        IF node[p].next = NoPage THEN <<p>> ELSE <<p>> \o From[node[p].next]
  IN From[first_leaf]

Depth(p) ==
  LET Up[q \in DOMAIN node] == IF node[q].parent = NoPage THEN 0 ELSE 1 + Up[node[q].parent]
  IN Up[p]

InOrder(keys) ==
  [i \in 1 .. Cardinality(keys) |->
     CHOOSE key \in keys : Cardinality({k \in keys : Less(k, key, ColNum)}) = i - 1]

\* The shape of the state: an internal node has one child more than keys.
TypeOK ==
  /\ {root_page, first_leaf, last_leaf} \subseteq DOMAIN node
  /\ \A p \in DOMAIN node :
       /\ node[p].keys \in Seq(Keys)
       /\ {node[p].parent, node[p].prev, node[p].next} \subseteq DOMAIN node \cup {NoPage}
       /\ IF Leaf(p) THEN node[p].rids \in [DOMAIN node[p].keys -> Rids]
          ELSE node[p].rids \in [1 .. Len(node[p].keys) + 1 -> DOMAIN node]

\* When a call returns, the tree is balanced: every node but the root is at
\* least half full and none has more than its page holds, the leaves are
\* equally deep, and every page is its parent's child exactly once.
Balanced ==
  todo = Idle =>
    /\ \A p \in DOMAIN node :
         LET least == IF p # root_page THEN get_min_key_size(node[p])
                      ELSE IF Leaf(p) THEN 0 ELSE 1
         IN Len(node[p].keys) \in least .. get_max_key_size(node[p])
    /\ \A p, q \in DOMAIN node : Leaf(p) /\ Leaf(q) => Depth(p) = Depth(q)
    /\ \A p \in DOMAIN node \ {root_page} :
         /\ Cardinality({<<q, i>> \in (DOMAIN node) \X (1 .. Order) :
                           i <= Len(Children(q)) /\ Children(q)[i] = p}) = 1
         /\ p \in ToSet(Children(node[p].parent))

\* When a call returns, following the links from first_leaf_ meets the leaves
\* in the order of the tree, with ascending keys, and the way back is the
\* same; last_leaf_ is the last of them.  IxScan walks these links.
LeafChain ==
  todo = Idle =>
    /\ Chain = Leaves
    /\ last_leaf = Last(Chain)
    /\ node[first_leaf].prev = NoPage
    /\ \A i \in 2 .. Len(Chain) : node[Chain[i]].prev = Chain[i - 1]
    /\ LET keys == FlattenSeq([i \in DOMAIN Chain |-> node[Chain[i]].keys])
       IN \A i \in 2 .. Len(keys) : Less(keys[i - 1], keys[i], ColNum)

\* When a call returns, a lookup from the root finds the entry of every key
\* that has one, with its own record, and nothing for the others.
LookupExact ==
  todo = Idle => \A key \in Keys : get_value(key) = {e[2] : e \in {x \in entries : x[1] = key}}

\* A select through the index returns the rows that match, each once and in
\* order: the keys compared are exactly the columns of the conditions.
ScanExact ==
  todo = Idle /\ load = <<>> => \A q \in Queries, junk \in Junk :
    IndexScan(q, junk) = InOrder({e[1] : e \in {x \in entries : Matches(x[1], q)}})

\* Splits, merges and redistributions change no entry: the tree is a set of
\* entries to which insert_entry and delete_entry add and from which they take one.
Abstract == INSTANCE OrderedIndex
ImplementsIndex == Abstract!OrderedSpec

\* Every insert_entry and delete_entry comes to its end and releases the latch.
Returns == []<>(todo = Idle)
=============================================================================
