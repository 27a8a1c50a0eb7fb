---------------------------- MODULE OrderedIndex ----------------------------
(***************************************************************************)
(* What an index promises: a set of entries, at most one for a key.        *)
(***************************************************************************)
CONSTANTS Keys, Rids

VARIABLE entries

OrderedInit == entries = {}

\* IxIndexHandle::insert_entry of a key that is not there
InsertEntry(key, rid) ==
  /\ \A e \in entries : e[1] # key
  /\ entries' = entries \cup {<<key, rid>>}

\* IxIndexHandle::delete_entry
DeleteEntry(key) == entries' = {e \in entries : e[1] # key}

OrderedNext ==
  \/ \E key \in Keys, rid \in Rids : InsertEntry(key, rid)
  \/ \E key \in Keys : DeleteEntry(key)

OrderedSpec == OrderedInit /\ [][OrderedNext]_entries
=============================================================================
