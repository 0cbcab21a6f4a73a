---------------------------- MODULE SearchIndex ----------------------------
(***************************************************************************)
(* What the lazy Solr repository promises its callers, whatever fails: the *)
(* index only ever holds documents that were handed to save, it replaces   *)
(* a document of an id only by a newer one of that id, a delete is the     *)
(* only thing that takes a document out, and searchers see whole           *)
(* snapshots of the index.  It does not promise that every saved document  *)
(* is indexed: LazyRepository says when that is so.                        *)
(***************************************************************************)
EXTENDS Naturals

CONSTANTS Ids,      \* document ids
          None      \* no document; documents of an id are numbered 1, 2, ...

VARIABLES saved,    \* the number of the last document handed to save, per id
          indexed,  \* the document the index holds, per id
          shown     \* the document a search returns, per id

vars == <<saved, indexed, shown>>

Init == /\ saved = [i \in Ids |-> None]
        /\ indexed = [i \in Ids |-> None]
        /\ shown = [i \in Ids |-> None]

Save(i) == /\ saved' = [saved EXCEPT ![i] = @ + 1]
           /\ UNCHANGED <<indexed, shown>>

\* Documents may be skipped, never reordered.
Index(i, d) == /\ d \in 1 .. saved[i]
               /\ indexed[i] <= d
               /\ indexed' = [indexed EXCEPT ![i] = d]
               /\ UNCHANGED <<saved, shown>>

Delete(gone) == /\ indexed' = [i \in Ids |-> IF i \in gone THEN None ELSE indexed[i]]
                /\ UNCHANGED <<saved, shown>>

Refresh == /\ shown' = indexed
           /\ UNCHANGED <<saved, indexed>>

Next == \/ \E i \in Ids : Save(i) \/ \E d \in 1 .. saved[i] : Index(i, d)
        \/ \E gone \in SUBSET Ids : Delete(gone)
        \/ Refresh

Spec == Init /\ [][Next]_vars
=============================================================================
