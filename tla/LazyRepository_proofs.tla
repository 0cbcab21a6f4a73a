----------------------- MODULE LazyRepository_proofs -----------------------
(***************************************************************************)
(* Theorems about the write-behind repository, for any set of ids, any     *)
(* bounds and, unless a theorem says otherwise, any environment.           *)
(***************************************************************************)
EXTENDS LazyRepository, FiniteSetTheorems, TLAPS

-----------------------------------------------------------------------------
(***************************************************************************)
(* Type correctness.  The counter is below CommitEvery unless the batch it *)
(* counts is being committed, which is why it never passes CommitEvery.    *)
(***************************************************************************)
Typed == /\ TypeOK
         /\ pc # "commit" => counter < CommitEvery
         /\ IF pc \in {"store", "remove"} THEN entry.id # NoId ELSE entry = NoEntry

USE IdsAssumption, BoundsAssumption, EnvAssumption
    DEF None, NoId, IdsAssumption, BoundsAssumption, EnvAssumption

\* The value an iterator returns is a document slot.
LEMMA ValueType ==
    ASSUME TypeOK, NEW it \in Iterator, it.node # NoId
    PROVE  ValueOf(it) \in Slot
  BY DEF TypeOK, ValueOf, Iterator

\* Unlinking an entry leaves an iterator an iterator.
LEMMA UnlinkedType ==
    ASSUME TypeOK, NEW it \in Iterator, NEW i \in Ids
    PROVE  Unlinked(it, i) \in Iterator
  BY DEF TypeOK, Unlinked, Iterator

\* Versions of documents compare as numbers.
LEMMA SlotNat == Slot \subseteq Nat
  BY DEF Slot, Docs

\* The values at rest have their types.
LEMMA RestTypes ==
    /\ Empty \in [Ids -> Slot] /\ NoIterator \in Iterator
    /\ NoEntry \in [id : Ids \cup {NoId}, doc : Slot]
  BY DEF Empty, NoIterator, NoEntry, Iterator, Slot

\* The initial state is typed.
LEMMA TypedInit == Init => Typed
<1> SUFFICES ASSUME Init PROVE Typed
  OBVIOUS
<1>1. 0 \in 0 .. CommitEvery /\ 0 < CommitEvery
  OBVIOUS
<1>2. QED
  BY <1>1, RestTypes DEF Init, Typed, TypeOK

\* Every step keeps the types.
LEMMA TypedNext == Typed /\ [Next]_vars => Typed'
<1> SUFFICES ASSUME Typed, [Next]_vars PROVE Typed'
  OBVIOUS
<1> USE DEF Typed, Storing
<1>1. ASSUME NEW i \in Ids, SaveNext(i) PROVE Typed'
  BY <1>1 DEF SaveNext, Save, TypeOK, Slot, Docs, passVars, solrVars, lifeVars
<1>2. ASSUME NEW i \in Ids, DeleteSaved(i) PROVE Typed'
  <2>1. iter' \in Iterator
    BY <1>2, UnlinkedType DEF DeleteSaved, DeleteQueued, TypeOK
  <2>2. QED
    BY <1>2, <2>1 DEF DeleteSaved, DeleteQueued, TypeOK, Slot, solrVars, lifeVars
<1>3. ASSUME NEW i \in Ids, DeleteInSolr(i) PROVE Typed'
  BY <1>3 DEF DeleteInSolr, TypeOK, Slot, passVars, lifeVars, callerVars
<1>4. ASSUME NEW i \in Ids, DeleteFails(i) PROVE Typed'
  BY <1>4 DEF DeleteFails, TypeOK, Slot, passVars, solrVars, lifeVars, callerVars
<1>5. CASE DeleteByQuery
  BY <1>5 DEF DeleteByQuery, TypeOK, Slot, Empty, passVars, lifeVars
<1>6. CASE BeginPass
  BY <1>6 DEF BeginPass, TypeOK, solrVars, lifeVars, callerVars
<1>7. CASE LoadFromTemp
  BY <1>7 DEF LoadFromTemp, Reloaded, TypeOK, Slot, solrVars, lifeVars, callerVars
<1>8. CASE OpenIterator
  BY <1>8 DEF OpenIterator, TypeOK, Iterator, Slot, solrVars, lifeVars, callerVars
<1>9. CASE NextEntry
  <2>1. ValueOf(iter) \in Slot /\ iter.node \in Ids
    BY <1>9, ValueType DEF NextEntry, TypeOK, Iterator
  <2>2. QED
    BY <1>9, <2>1 DEF NextEntry, TypeOK, Iterator, Slot, solrVars, lifeVars, callerVars
<1>10. CASE StoreAccepted
  BY <1>10 DEF StoreAccepted, SolrAccepts, TypeOK, lifeVars, callerVars
<1>11. CASE StoreFails
  BY <1>11 DEF StoreFails, SaveTemp, SolrAccepts, TypeOK, lifeVars, callerVars
<1>12. CASE StoreThrows
  BY <1>12, RestTypes DEF StoreThrows, EndPass, TypeOK, solrVars, lifeVars, callerVars
<1>13. CASE RemoveEntry
  <2>1. Unlinked(destroyer, entry.id) \in Iterator
    BY <1>13, UnlinkedType DEF RemoveEntry, Dequeued, CommitDue, TypeOK
  <2>2. counter < CommitEvery
    BY <1>13 DEF RemoveEntry, Dequeued, CommitDue
  <2>3. saveQueue' \in [Ids -> Slot]
    BY <1>13 DEF RemoveEntry, Dequeued, CommitDue, Slot, TypeOK
  <2>4. counter' \in 0 .. CommitEvery /\ (pc' # "commit" => counter' < CommitEvery)
    BY <1>13, <2>2 DEF RemoveEntry, Dequeued, CommitDue, TypeOK
  <2>5. QED
    BY <1>13, <2>1, <2>3, <2>4, RestTypes DEF RemoveEntry, Dequeued, CommitDue, TypeOK, solrVars, callerVars
<1>14. CASE BatchCommit
  <2>1. searcherDue' \in BOOLEAN
    BY <1>14 DEF BatchCommit, Commit, TypeOK
  <2>2. QED
    BY <1>14, <2>1 DEF BatchCommit, TypeOK, lifeVars, callerVars
<1>15. CASE FinalCommit
  <2>1. searcherDue' \in BOOLEAN
    BY <1>15 DEF FinalCommit, Commit, TypeOK
  <2>2. QED
    BY <1>15, <2>1, RestTypes DEF FinalCommit, EndPass, TypeOK, lifeVars, callerVars
<1>16. CASE OpenSearcher
  BY <1>16 DEF OpenSearcher, TypeOK, passVars, lifeVars, callerVars
<1>17. CASE BeginDestroy
  BY <1>17 DEF BeginDestroy, TypeOK, Iterator, Slot, passVars, solrVars, callerVars
<1>18. CASE DestroyEntry
  <2>1. /\ ValueOf(destroyer) \in Slot /\ destroyer.node \in Ids
        /\ Unlinked(iter, destroyer.node) \in Iterator
    BY <1>18, ValueType, UnlinkedType DEF DestroyEntry, TypeOK, Iterator
  <2>2. QED
    BY <1>18, <2>1 DEF DestroyEntry, SaveTemp, TypeOK, Iterator, Slot, solrVars, callerVars
<1>19. CASE CloseClient
  BY <1>19 DEF CloseClient, TypeOK, passVars, solrVars, callerVars
<1>20. CASE Exit
  BY <1>20, RestTypes DEF Exit, EndPass, TypeOK, solrVars, callerVars
<1>21. CASE Restart
  BY <1>21 DEF Restart, TypeOK, passVars, solrVars, callerVars
<1>22. CASE UNCHANGED vars
  BY <1>22 DEF vars, passVars, solrVars, lifeVars, callerVars, TypeOK
<1>23. QED
  BY <1>1, <1>2, <1>3, <1>4, <1>5, <1>6, <1>7, <1>8, <1>9, <1>10, <1>11, <1>12, <1>13, <1>14,
     <1>15, <1>16, <1>17, <1>18, <1>19, <1>20, <1>21, <1>22
     DEF Next, Calling, Pass, Living

\* Every variable keeps its type, in every environment.
THEOREM TypeCorrect == Spec => []TypeOK
<1>1. Typed => TypeOK
  BY DEF Typed
<1>2. QED
  BY <1>1, TypedInit, TypedNext, PTL DEF Spec

-----------------------------------------------------------------------------
(***************************************************************************)
(* No document is lost, in every environment in which the process stays    *)
(* up, Solr answers each request and callers save an id once.  Then the    *)
(* queue and the scheduler hold no document but the one saved last, an     *)
(* iterator holds a queued node or one a delete has unlinked, and the      *)
(* entry that is about to be removed is the one Solr has accepted.         *)
(***************************************************************************)
SaveOnce == /\ Env \cap {"io", "crash", "shutdown"} = {}
            /\ "update" \notin Env \/ MaxDoc <= 1

GoneSaved   == deleting \subseteq gone /\ \A i \in gone : saved[i] # None
QueueLatest == \A i \in Ids : saveQueue[i] \in {None, saved[i]}
IterLive    == iter.node # NoId =>
                  IF iter.frozen = None THEN saveQueue[iter.node] # None
                                        ELSE iter.node \in gone
EntryLatest == entry.id # NoId => /\ saved[entry.id] # None
                                  /\ entry.id \in gone \/ entry.doc = saved[entry.id]
EntryBehind == entry.id # NoId /\ iter.node # NoId => entry.id < iter.node
Covered(i)  == \/ saved[i] = None \/ i \in gone \/ index[i] = saved[i]
               \/ saveQueue[i] = saved[i] /\ ~(pc = "remove" /\ entry.id = i)

KeptInv == /\ mode = "up"
           /\ GoneSaved /\ QueueLatest /\ IterLive /\ EntryLatest /\ EntryBehind
           /\ \A i \in Ids : Covered(i)

\* Nothing is lost at the start.
LEMMA KeptInit == Init => KeptInv
  BY DEF Init, KeptInv, GoneSaved, QueueLatest, IterLive, EntryLatest, EntryBehind, Covered,
         Empty, NoIterator, NoEntry

\* Where ids are saved once, every step keeps each document in one of its places.
LEMMA KeptNext == SaveOnce /\ Typed /\ KeptInv /\ [Next]_vars => KeptInv'
<1> SUFFICES ASSUME SaveOnce, Typed, KeptInv, [Next]_vars PROVE KeptInv'
  OBVIOUS
<1>0. TypeOK
  BY DEF Typed
<1> USE <1>0 DEF KeptInv, GoneSaved, QueueLatest, IterLive, EntryLatest,
                  EntryBehind, Covered
<1>1. ASSUME NEW i \in Ids, SaveNext(i) PROVE KeptInv'
  <2>1. saved[i] = None
    <3>1. saved[i] \in Nat /\ saved[i] < MaxDoc /\ MaxDoc \in Nat
      BY <1>1 DEF SaveNext, TypeOK, Slot, Docs
    <3>2. CASE MaxDoc <= 1
      BY <3>1, <3>2
    <3>3. CASE "update" \notin Env
      BY <1>1, <3>3 DEF SaveNext
    <3>4. QED
      BY <3>2, <3>3 DEF SaveOnce
  <2>2. iter.node # i \/ iter.frozen # None
    BY <2>1
  <2>3. i \notin gone /\ i \notin deleting
    BY <2>1
  <2>4. saved' = [saved EXCEPT ![i] = 1] /\ saveQueue' = [saveQueue EXCEPT ![i] = 1]
    BY <1>1, <2>1 DEF SaveNext, Save
  <2>5. UNCHANGED <<gone, deleting, mode, iter, entry, pc, index>>
    BY <1>1, <2>3 DEF SaveNext, Save, passVars, solrVars, lifeVars
  <2>6. entry.id # i
    BY <2>1
  <2>7. GoneSaved' /\ QueueLatest' /\ EntryBehind'
    BY <2>3, <2>4, <2>5 DEF TypeOK
  <2>8. IterLive'
    BY <2>2, <2>4, <2>5 DEF TypeOK, Iterator
  <2>9. EntryLatest'
    BY <2>3, <2>4, <2>5, <2>6 DEF TypeOK
  <2>10. ASSUME NEW j \in Ids PROVE Covered(j)'
    BY <2>3, <2>4, <2>5, <2>6 DEF TypeOK, Typed
  <2>11. QED
    BY <2>5, <2>7, <2>8, <2>9, <2>10
<1>2. ASSUME NEW i \in Ids, DeleteSaved(i) PROVE KeptInv'
  BY <1>2 DEF DeleteSaved, DeleteQueued, Unlinked, TypeOK, Iterator, solrVars, lifeVars
<1>3. ASSUME NEW i \in Ids, DeleteInSolr(i) PROVE KeptInv'
  BY <1>3 DEF DeleteInSolr, TypeOK, passVars, lifeVars, callerVars
<1>4. ASSUME NEW i \in Ids, DeleteFails(i) PROVE KeptInv'
  BY <1>4 DEF DeleteFails, TypeOK, passVars, solrVars, lifeVars, callerVars
<1>5. CASE DeleteByQuery
  BY <1>5 DEF DeleteByQuery, TypeOK, Empty, passVars, lifeVars
<1>6. CASE BeginPass
  BY <1>6 DEF BeginPass, TypeOK, solrVars, lifeVars, callerVars
<1>7. CASE LoadFromTemp
  BY <1>7 DEF LoadFromTemp, Reloaded, Storing, TypeOK, solrVars, lifeVars, callerVars
<1>8. CASE OpenIterator
  <2>1. PICK n \in Ids \cup {NoId} : IsNodeAfter(n, NoId) /\ iter' = [node |-> n, frozen |-> None]
    BY <1>8 DEF OpenIterator
  <2>2. iter'.node = n /\ iter'.frozen = None /\ (n # NoId => saveQueue[n] # None)
    BY <2>1 DEF IsNodeAfter, Queued
  <2>3. entry = NoEntry /\ UNCHANGED <<saveQueue, deleting, entry, index, mode, saved, gone>>
    BY <1>8 DEF OpenIterator, Storing, Typed, solrVars, lifeVars, callerVars
  <2>4. QED
    BY <1>8, <2>2, <2>3 DEF OpenIterator, Storing, NoEntry
<1>9. CASE NextEntry
  <2>1. PICK n \in Ids \cup {NoId} :
           IsNodeAfter(n, iter.node) /\ iter' = [node |-> n, frozen |-> None]
    BY <1>9 DEF NextEntry
  <2>2. /\ iter'.node = n /\ iter'.frozen = None
        /\ n # NoId => saveQueue[n] # None /\ iter.node < n
    BY <2>1 DEF IsNodeAfter, Queued
  <2>3. /\ iter.node \in Ids
        /\ entry'.id = iter.node /\ entry'.doc = ValueOf(iter)
    BY <1>9 DEF NextEntry, TypeOK, Iterator
  <2>4. pc' = "store" /\ UNCHANGED <<saveQueue, deleting, index, mode, saved, gone>>
    BY <1>9 DEF NextEntry, solrVars, lifeVars, callerVars
  <2>5. saved[iter.node] # None /\ (iter.node \in gone \/ ValueOf(iter) = saved[iter.node])
    BY <2>3 DEF ValueOf
  <2>6. \A i \in Ids : Covered(i)'
    BY <1>9, <2>4 DEF NextEntry, Storing
  <2>7. QED
    BY <2>2, <2>3, <2>4, <2>5, <2>6
<1>10. CASE StoreAccepted
  BY <1>10 DEF StoreAccepted, SolrAccepts, Storing, Typed, TypeOK, lifeVars, callerVars
<1>11. CASE StoreFails
  BY <1>11 DEF StoreFails, SaveOnce
<1>12. CASE StoreThrows
  BY <1>12 DEF StoreThrows, EndPass, Storing, NoIterator, NoEntry, TypeOK,
               solrVars, lifeVars, callerVars
<1>13. CASE RemoveEntry
  <2>1. /\ saveQueue' = [saveQueue EXCEPT ![entry.id] = None] /\ entry' = NoEntry
        /\ pc = "remove" /\ pc' # "remove" /\ entry.id \in Ids
        /\ UNCHANGED <<deleting, iter, index, mode, saved, gone>>
    BY <1>13 DEF RemoveEntry, Dequeued, CommitDue, Storing, Typed, TypeOK, solrVars, callerVars
  <2>2. IterLive'
    <3>1. iter.node \in Ids \cup {NoId} /\ entry.id \in Nat /\ entry.id # NoId
      BY <2>1 DEF TypeOK, Iterator
    <3>2. iter.node # NoId => iter.node # entry.id
      BY <3>1
    <3>3. QED
      BY <2>1, <3>1, <3>2 DEF TypeOK
  <2>3. ASSUME NEW i \in Ids PROVE Covered(i)'
    BY <2>1 DEF TypeOK
  <2>4. QueueLatest'
    BY <2>1 DEF TypeOK
  <2>5. QED
    BY <2>1, <2>2, <2>3, <2>4 DEF NoEntry
<1>14. CASE BatchCommit
  BY <1>14 DEF BatchCommit, Storing, TypeOK, lifeVars, callerVars
<1>15. CASE FinalCommit
  BY <1>15 DEF FinalCommit, EndPass, Storing, NoIterator, NoEntry, TypeOK,
               lifeVars, callerVars
<1>16. CASE OpenSearcher
  BY <1>16 DEF OpenSearcher, passVars, lifeVars, callerVars
<1>17. CASE Living
  BY <1>17 DEF Living, BeginDestroy, DestroyEntry, CloseClient, Exit, Restart, SaveOnce
<1>18. CASE UNCHANGED vars
  BY <1>18 DEF vars, passVars, solrVars, lifeVars, callerVars
<1>19. QED
  BY <1>1, <1>2, <1>3, <1>4, <1>5, <1>6, <1>7, <1>8, <1>9, <1>10, <1>11, <1>12, <1>13, <1>14,
     <1>15, <1>16, <1>17, <1>18
     DEF Next, Calling, Pass

\* The inductive invariant says that no document is lost.
LEMMA KeptImplies == Typed /\ KeptInv => NoDocLost
  BY DEF Typed, TypeOK, KeptInv, Covered, NoDocLost, Kept, Removing

\* No document is dropped between save and the index: whatever deletes, rejected
\* documents, failed commits and failed deletes occur (LazyRepositoryImpl 97-140).
THEOREM SavedOnceIsKept == ASSUME SaveOnce PROVE Spec => []NoDocLost
<1>1. Typed /\ KeptInv /\ [Next]_vars => Typed' /\ KeptInv'
  BY TypedNext, KeptNext, SaveOnce
<1>2. QED
  BY <1>1, TypedInit, KeptInit, KeptImplies, PTL DEF Spec

-----------------------------------------------------------------------------
(***************************************************************************)
(* The repository implements SearchIndex in every environment.  An index   *)
(* step is in order because whatever can still reach Solr -- the queue, a  *)
(* node the iterator holds, the entry being stored -- is at least as new   *)
(* as what Solr has, and the queue is at least as new as the other two.    *)
(***************************************************************************)
Newer(i, d) == /\ index[i] <= d /\ d <= saved[i]
               /\ saveQueue[i] # None => d <= saveQueue[i]

StoreOrder == \A i \in Ids : /\ index[i] <= saved[i] /\ saveQueue[i] <= saved[i]
                             /\ saveQueue[i] # None => index[i] <= saveQueue[i]
IterOrder  == iter.node # NoId => IF iter.frozen = None THEN saveQueue[iter.node] # None
                                                        ELSE Newer(iter.node, iter.frozen)
EntryOrder == pc = "store" => entry.doc # None /\ Newer(entry.id, entry.doc)

OrderInv == StoreOrder /\ IterOrder /\ EntryOrder /\ EntryBehind

\* The versions are in order at the start.
LEMMA OrderInit == Init => OrderInv
  BY DEF Init, OrderInv, StoreOrder, IterOrder, EntryOrder, EntryBehind, Empty, NoIterator, NoEntry

\* A document that leaves the queue for a caller may still be held by the iterator.
LEMMA UnlinkKeepsOrder ==
    ASSUME Typed, OrderInv, NEW i \in Ids,
           saveQueue' = [saveQueue EXCEPT ![i] = None], iter' = Unlinked(iter, i),
           UNCHANGED <<index, pc, entry, saved>>
    PROVE  OrderInv'
<1>1. /\ iter.node \in Ids \cup {NoId} /\ iter.frozen \in Nat /\ entry.id \in Ids \cup {NoId}
      /\ \A j \in Ids : saveQueue[j] \in Nat /\ index[j] \in Nat /\ saved[j] \in Nat
  BY DEF Typed, TypeOK, Iterator, Slot, Docs
<1>2. /\ saveQueue'[i] = None /\ \A j \in Ids : j # i => saveQueue'[j] = saveQueue[j]
  BY DEF Typed, TypeOK
<1>3. iter'.node = iter.node
  BY DEF Unlinked, Typed, TypeOK, Iterator
<1>4. StoreOrder'
  BY <1>1, <1>2 DEF OrderInv, StoreOrder
<1>5. \A j \in Ids : \A d : Newer(j, d) => /\ index'[j] <= d /\ d <= saved'[j]
                                           /\ saveQueue'[j] # None => d <= saveQueue'[j]
  BY <1>2 DEF Newer
<1>6. IterOrder'
  <2>1. CASE iter.node = i /\ iter.frozen = None
    <3>1. iter'.frozen = saveQueue[i] /\ saveQueue[i] # None
      BY <2>1, <1>1 DEF Unlinked, OrderInv, IterOrder, Typed, TypeOK, Iterator
    <3>2. QED
      BY <2>1, <3>1, <1>1, <1>2, <1>3 DEF OrderInv, IterOrder, StoreOrder, Newer
  <2>2. CASE ~(iter.node = i /\ iter.frozen = None)
    <3>1. iter' = iter
      BY <2>2 DEF Unlinked
    <3>2. QED
      BY <2>2, <3>1, <1>1, <1>2, <1>5 DEF OrderInv, IterOrder, Newer
  <2>3. QED
    BY <2>1, <2>2
<1>7. EntryOrder'
  BY <1>1, <1>5 DEF OrderInv, EntryOrder, Newer, Typed
<1>8. EntryBehind'
  BY <1>3 DEF OrderInv, EntryBehind
<1>9. QED
  BY <1>4, <1>6, <1>7, <1>8 DEF OrderInv

\* A delete in Solr leaves nothing newer there.
LEMMA ForgetKeepsOrder ==
    ASSUME Typed, OrderInv, NEW S \in SUBSET Ids,
           index' = [i \in Ids |-> IF i \in S THEN None ELSE index[i]],
           UNCHANGED <<saveQueue, iter, pc, entry, saved>>
    PROVE  OrderInv'
<1>1. /\ iter.node \in Ids \cup {NoId} /\ iter.frozen \in Nat
      /\ entry.id \in Ids \cup {NoId} /\ entry.doc \in Nat
      /\ \A j \in Ids : saveQueue[j] \in Nat /\ index[j] \in Nat /\ saved[j] \in Nat
  BY DEF Typed, TypeOK, Iterator, Slot, Docs
<1>2. \A j \in Ids : index'[j] \in {None, index[j]}
  OBVIOUS
<1>3. StoreOrder'
  BY <1>1, <1>2 DEF OrderInv, StoreOrder
<1>4. \A j \in Ids : \A d \in Nat : Newer(j, d) => index'[j] <= d
  BY <1>1, <1>2 DEF Newer
<1>5. IterOrder' /\ EntryOrder' /\ EntryBehind'
  BY <1>1, <1>4 DEF OrderInv, IterOrder, EntryOrder, EntryBehind, Newer, Typed
<1>6. QED
  BY <1>3, <1>5 DEF OrderInv

\* Every step keeps the versions of an id in order along its way to a search.
LEMMA OrderNext == Typed /\ OrderInv /\ [Next]_vars => OrderInv'
<1> SUFFICES ASSUME Typed, OrderInv, [Next]_vars PROVE OrderInv'
  OBVIOUS
<1>0. TypeOK
  BY DEF Typed
<1> USE <1>0
<1>1. ASSUME NEW i \in Ids, DeleteSaved(i) PROVE OrderInv'
  <2>1. /\ saveQueue' = [saveQueue EXCEPT ![i] = None] /\ iter' = Unlinked(iter, i)
        /\ UNCHANGED <<index, pc, entry, saved>>
    BY <1>1 DEF DeleteSaved, DeleteQueued, solrVars
  <2>2. QED
    BY <2>1, UnlinkKeepsOrder
<1>2. ASSUME NEW i \in Ids, DeleteInSolr(i) PROVE OrderInv'
  <2>1. index' = [j \in Ids |-> IF j \in {i} THEN None ELSE index[j]]
    BY <1>2 DEF DeleteInSolr, TypeOK
  <2>2. {i} \in SUBSET Ids
    OBVIOUS
  <2>3. QED
    BY <1>2, <2>1, <2>2, ForgetKeepsOrder DEF DeleteInSolr, passVars, callerVars
<1>3. ASSUME NEW i \in Ids, DeleteFails(i) PROVE OrderInv'
  <2>1. PICK S \in {{}, {i}} : index' = [j \in Ids |-> IF j \in S THEN None ELSE index[j]]
    BY <1>3 DEF DeleteFails, TypeOK, solrVars
  <2>2. S \in SUBSET Ids
    BY <2>1
  <2>3. QED
    BY <1>3, <2>1, <2>2, ForgetKeepsOrder DEF DeleteFails, passVars, callerVars
<1>4. CASE DeleteByQuery
  <2>1. index' = [j \in Ids |-> IF j \in Ids THEN None ELSE index[j]]
    BY <1>4 DEF DeleteByQuery, Empty
  <2>2. QED
    BY <1>4, <2>1, ForgetKeepsOrder DEF DeleteByQuery, passVars
<1>5. CASE DestroyEntry
  <2>1. /\ saveQueue' = [saveQueue EXCEPT ![destroyer.node] = None]
        /\ iter' = Unlinked(iter, destroyer.node) /\ destroyer.node \in Ids
        /\ UNCHANGED <<index, pc, entry, saved>>
    BY <1>5 DEF DestroyEntry, solrVars, callerVars, TypeOK, Iterator
  <2>2. QED
    BY <2>1, UnlinkKeepsOrder
<1> USE DEF OrderInv, StoreOrder, IterOrder, EntryOrder, EntryBehind, Newer
<1>6. ASSUME NEW i \in Ids, SaveNext(i) PROVE OrderInv'
  <2>1. /\ saveQueue' = [saveQueue EXCEPT ![i] = saved[i] + 1]
        /\ saved' = [saved EXCEPT ![i] = saved[i] + 1]
        /\ UNCHANGED <<index, iter, pc, entry>>
    BY <1>6 DEF SaveNext, Save, passVars, solrVars
  <2>2. \A j \in Ids : saved[j] \in Nat /\ saveQueue[j] \in Nat /\ index[j] \in Nat
    BY DEF TypeOK, Slot, Docs
  <2>3. iter.node \in Ids \cup {NoId} /\ iter.frozen \in Nat
        /\ entry.id \in Ids \cup {NoId} /\ entry.doc \in Nat
    BY DEF TypeOK, Iterator, Slot, Docs
  <2>4. \A j \in Ids : \A d \in Nat : Newer(j, d) => Newer(j, d)'
    BY <2>1, <2>2 DEF TypeOK
  <2>5. iter.node # NoId => IF iter.frozen = None THEN saveQueue'[iter.node] # None
                                                  ELSE Newer(iter.node, iter.frozen)'
    BY <2>1, <2>2, <2>3, <2>4 DEF TypeOK
  <2>6. pc = "store" => entry.doc # None /\ Newer(entry.id, entry.doc)'
    BY <2>1, <2>3, <2>4 DEF Typed
  <2>7. \A j \in Ids : /\ index'[j] <= saved'[j] /\ saveQueue'[j] <= saved'[j]
                       /\ saveQueue'[j] # None => index'[j] <= saveQueue'[j]
    BY <2>1, <2>2 DEF TypeOK
  <2>8. QED
    BY <2>1, <2>5, <2>6, <2>7
<1>7. CASE BeginPass
  BY <1>7 DEF BeginPass, Storing, solrVars, callerVars
<1>8. CASE LoadFromTemp
  BY <1>8 DEF LoadFromTemp, Reloaded, Storing, solrVars, callerVars
<1>9. CASE OpenIterator
  <2>1. PICK n \in Ids \cup {NoId} : IsNodeAfter(n, NoId) /\ iter' = [node |-> n, frozen |-> None]
    BY <1>9 DEF OpenIterator
  <2>2. iter'.node = n /\ iter'.frozen = None /\ (n # NoId => saveQueue[n] # None)
    BY <2>1 DEF IsNodeAfter, Queued
  <2>3. entry = NoEntry /\ pc' # "store" /\ UNCHANGED <<saveQueue, entry, index, saved>>
    BY <1>9 DEF OpenIterator, Storing, Typed, solrVars, callerVars
  <2>4. QED
    BY <2>2, <2>3 DEF NoEntry
<1>10. CASE NextEntry
  <2>1. PICK n \in Ids \cup {NoId} :
           IsNodeAfter(n, iter.node) /\ iter' = [node |-> n, frozen |-> None]
    BY <1>10 DEF NextEntry
  <2>2. /\ iter'.node = n /\ iter'.frozen = None
        /\ n # NoId => saveQueue[n] # None /\ iter.node < n
    BY <2>1 DEF IsNodeAfter, Queued
  <2>3. /\ iter.node \in Ids
        /\ entry'.id = iter.node /\ entry'.doc = ValueOf(iter)
        /\ UNCHANGED <<saveQueue, index, saved>>
    BY <1>10 DEF NextEntry, TypeOK, Iterator, solrVars, callerVars
  <2>4. ValueOf(iter) # None /\ Newer(iter.node, ValueOf(iter))
    <3>1. CASE iter.frozen = None
      <4>1. ValueOf(iter) = saveQueue[iter.node] /\ saveQueue[iter.node] # None
        BY <2>3, <3>1 DEF ValueOf
      <4>2. saveQueue[iter.node] \in Nat
        BY <2>3, SlotNat DEF TypeOK
      <4>3. StoreOrder => /\ index[iter.node] <= saveQueue[iter.node]
                          /\ saveQueue[iter.node] <= saved[iter.node]
        BY <2>3, <4>1
      <4>4. saveQueue[iter.node] <= saveQueue[iter.node]
        BY <4>2
      <4>5. QED
        BY <4>1, <4>3, <4>4
    <3>2. CASE iter.frozen # None
      BY <2>3, <3>2 DEF ValueOf
    <3>3. QED
      BY <3>1, <3>2
  <2>5. QED
    BY <2>2, <2>3, <2>4
<1>11. ASSUME SolrAccepts, pc = "store", pc' = "remove", UNCHANGED <<saveQueue, iter, entry, saved>>
       PROVE  OrderInv'
  <2>1. entry.id \in Ids /\ entry.id \in Nat /\ entry.id # NoId /\ entry.doc \in Nat
    <3>1. entry.id \in Ids
      BY <1>11 DEF Typed, TypeOK
    <3>2. entry.doc \in Slot
      BY DEF TypeOK
    <3>3. QED
      BY <3>1, <3>2, SlotNat
  <2>2. index' = [index EXCEPT ![entry.id] = entry.doc] /\ Newer(entry.id, entry.doc)
    BY <1>11 DEF SolrAccepts
  <2>3. iter.node # NoId => iter.node \in Ids /\ iter.node # entry.id
    <3>1. iter.node \in Ids \cup {NoId}
      BY DEF TypeOK, Iterator
    <3>2. QED
      BY <2>1, <3>1
  <2>4. QED
    BY <1>11, <2>1, <2>2, <2>3 DEF TypeOK
<1>12. CASE StoreAccepted
  BY <1>11, <1>12 DEF StoreAccepted, Storing, callerVars
<1>13. CASE StoreFails
  BY <1>11, <1>13 DEF StoreFails, Storing, callerVars
<1>14. CASE StoreThrows
  BY <1>14 DEF StoreThrows, EndPass, NoIterator, NoEntry, solrVars, callerVars
<1>15. CASE RemoveEntry
  <2>1. /\ saveQueue' = [saveQueue EXCEPT ![entry.id] = None] /\ entry' = NoEntry
        /\ pc' # "store" /\ entry.id \in Ids
        /\ UNCHANGED <<iter, index, saved>>
    BY <1>15 DEF RemoveEntry, Dequeued, CommitDue, Storing, Typed, TypeOK, solrVars, callerVars
  <2>2. iter.node \in Ids \cup {NoId} /\ entry.id \in Nat /\ entry.id # NoId
    BY <2>1 DEF TypeOK, Iterator
  <2>3. iter.node # NoId => iter.node # entry.id
    BY <2>2
  <2>4. StoreOrder'
    BY <2>1 DEF TypeOK, Slot, Docs
  <2>5. IterOrder'
    BY <2>1, <2>2, <2>3 DEF TypeOK
  <2>6. QED
    BY <2>1, <2>4, <2>5 DEF NoEntry
<1>16. CASE BatchCommit
  BY <1>16 DEF BatchCommit, callerVars
<1>17. CASE FinalCommit
  BY <1>17 DEF FinalCommit, EndPass, NoIterator, NoEntry, callerVars
<1>18. CASE OpenSearcher
  BY <1>18 DEF OpenSearcher, passVars, callerVars
<1>19. CASE BeginDestroy
  BY <1>19 DEF BeginDestroy, passVars, solrVars, callerVars
<1>20. CASE CloseClient
  BY <1>20 DEF CloseClient, passVars, solrVars, callerVars
<1>21. CASE Exit
  BY <1>21 DEF Exit, EndPass, Empty, NoIterator, NoEntry, TypeOK, Slot, Docs,
               solrVars, callerVars
<1>22. CASE Restart
  BY <1>22 DEF Restart, passVars, solrVars, callerVars
<1>23. CASE UNCHANGED vars
  BY <1>23 DEF vars, passVars, solrVars, lifeVars, callerVars
<1>24. QED
  BY <1>6, <1>1, <1>2, <1>3, <1>4, <1>7, <1>8, <1>9, <1>10, <1>12, <1>13, <1>14, <1>15, <1>16,
     <1>17, <1>18, <1>19, <1>5, <1>20, <1>21, <1>22, <1>23
     DEF Next, Calling, Pass, Living

\* One step of the repository is one step of SearchIndex, or none.
LEMMA StepKept == Typed /\ OrderInv /\ [Next]_vars => [Promise!Next]_(Promise!vars)
<1> SUFFICES ASSUME Typed, OrderInv, [Next]_vars PROVE [Promise!Next]_(Promise!vars)
  OBVIOUS
<1>0. TypeOK
  BY DEF Typed
<1> USE <1>0 DEF Promise!vars
<1>1. ASSUME NEW i \in Ids, SaveNext(i) PROVE Promise!Save(i)
  BY <1>1 DEF SaveNext, Save, solrVars, Promise!Save
<1>2. ASSUME NEW S \in SUBSET Ids, UNCHANGED <<saved, visible>>,
             index' = [i \in Ids |-> IF i \in S THEN None ELSE index[i]]
      PROVE  Promise!Next
  BY <1>2 DEF Promise!Delete, Promise!Next
<1>3. ASSUME NEW i \in Ids, DeleteInSolr(i) \/ DeleteFails(i) PROVE [Promise!Next]_(Promise!vars)
  <2>1. UNCHANGED <<saved, visible>> /\ (UNCHANGED index \/ index' = [index EXCEPT ![i] = None])
    BY <1>3 DEF DeleteInSolr, DeleteFails, solrVars, callerVars
  <2>2. CASE UNCHANGED index
    BY <2>1, <2>2
  <2>3. CASE index' = [index EXCEPT ![i] = None]
    <3>1. {i} \in SUBSET Ids /\ index' = [j \in Ids |-> IF j \in {i} THEN None ELSE index[j]]
      BY <2>3 DEF TypeOK
    <3>2. QED
      BY <1>2, <2>1, <3>1
  <2>4. QED
    BY <2>1, <2>2, <2>3
<1>4. CASE DeleteByQuery
  <2>1. index' = [j \in Ids |-> IF j \in Ids THEN None ELSE index[j]]
    BY <1>4 DEF DeleteByQuery, Empty
  <2>2. QED
    BY <1>2, <1>4, <2>1 DEF DeleteByQuery
<1>5. ASSUME SolrAccepts, pc = "store", UNCHANGED <<saved, visible>> PROVE Promise!Next
  <2>1. entry.id \in Ids /\ entry.doc \in Nat
    <3>1. entry.id \in Ids
      BY <1>5 DEF Typed, TypeOK
    <3>2. entry.doc \in Slot
      BY DEF TypeOK
    <3>3. QED
      BY <3>1, <3>2, SlotNat
  <2>2. entry.doc # None /\ index[entry.id] <= entry.doc /\ entry.doc <= saved[entry.id]
    BY <1>5 DEF OrderInv, EntryOrder, Newer
  <2>3. saved[entry.id] \in Nat
    BY <2>1, SlotNat DEF TypeOK
  <2>4. entry.doc \in 1 .. saved[entry.id]
    BY <2>1, <2>2, <2>3
  <2>5. Promise!Index(entry.id, entry.doc)
    BY <1>5, <2>2, <2>4 DEF SolrAccepts, Promise!Index
  <2>6. QED
    BY <2>1, <2>4, <2>5 DEF Promise!Next
<1>6. CASE StoreAccepted
  BY <1>5, <1>6 DEF StoreAccepted, Storing, callerVars
<1>7. CASE StoreFails
  <2>1. UNCHANGED <<saved, visible>> /\ pc = "store" /\ (UNCHANGED index \/ SolrAccepts)
    BY <1>7 DEF StoreFails, Storing, callerVars
  <2>2. QED
    BY <1>5, <2>1
<1>8. CASE OpenSearcher
  BY <1>8 DEF OpenSearcher, callerVars, Promise!Refresh, Promise!Next
<1>9. ASSUME \/ \E i \in Ids : DeleteSaved(i)
             \/ BeginPass \/ LoadFromTemp \/ OpenIterator \/ NextEntry
             \/ StoreThrows \/ RemoveEntry \/ BatchCommit \/ FinalCommit
             \/ Living \/ UNCHANGED vars
      PROVE  UNCHANGED <<saved, index, visible>>
  BY <1>9 DEF DeleteSaved, DeleteQueued, BeginPass, LoadFromTemp, OpenIterator, NextEntry,
              StoreThrows, RemoveEntry, BatchCommit, FinalCommit, Living, BeginDestroy,
              DestroyEntry, CloseClient, Exit, Restart, vars, solrVars, callerVars
<1>10. QED
  BY <1>1, <1>3, <1>4, <1>6, <1>7, <1>8, <1>9 DEF Next, Calling, Pass, Promise!Next

\* The repository implements SearchIndex, whatever its callers do and whatever
\* fails: Solr never goes back to an older document of an id, and holds none that
\* was not handed to save.
THEOREM RepositoryKeepsPromise == Spec => PromiseKept
<1>1. Init => Promise!Init
  BY DEF Init, Empty, Promise!Init
<1>2. Typed /\ OrderInv /\ [Next]_vars => Typed' /\ OrderInv'
  BY TypedNext, OrderNext
<1>3. QED
  BY <1>1, <1>2, TypedInit, OrderInit, StepKept, PTL DEF Spec, PromiseKept, Promise!Spec

-----------------------------------------------------------------------------
(***************************************************************************)
(* While the process is up, the scheduler never holds the only copy of the *)
(* document saved last: until iterator.remove() the queue has it too.  A   *)
(* node that was unlinked under the iterator belongs to a deleted id or is *)
(* older than what has been saved since.  A file is never newer than what  *)
(* is still under way.                                                     *)
(***************************************************************************)
InHand == pc \in {"store", "remove"}

EntryStill == mode = "up" /\ InHand /\ entry.doc = saved[entry.id] /\ entry.id \notin gone
                 => saveQueue[entry.id] = entry.doc
IterStill  == mode = "up" /\ iter.node # NoId /\ iter.frozen # None
                 => iter.node \in gone \/ iter.frozen < saved[iter.node]
HandBound  == pc = "remove" => entry.doc <= saved[entry.id]
EndBound   == destroyer.node # NoId => destroyer.frozen <= saved[destroyer.node]
DownIdle   == mode = "down" => pc = "idle" /\ iter.node = NoId /\ saveQueue = Empty
FileBound  == \A i \in Ids : insertDir[i] <= saved[i]
FileBehind == mode = "up" =>
    /\ \A i \in Ids : saveQueue[i] # None => insertDir[i] <= saveQueue[i]
    /\ iter.node # NoId /\ iter.frozen # None => insertDir[iter.node] <= iter.frozen
    /\ pc = "store" => insertDir[entry.id] <= entry.doc

LossInv == EntryStill /\ IterStill /\ HandBound /\ EndBound /\ DownIdle /\ FileBound /\ FileBehind

\* The numbers the invariant compares.
LEMMA DocNumbers ==
    ASSUME Typed
    PROVE  /\ \A i \in Ids : /\ saveQueue[i] \in Nat /\ insertDir[i] \in Nat
                             /\ index[i] \in Nat /\ saved[i] \in Nat
           /\ entry.id \in Ids \cup {NoId} /\ entry.doc \in Nat
           /\ iter.node \in Ids \cup {NoId} /\ iter.frozen \in Nat
           /\ destroyer.node \in Ids \cup {NoId} /\ destroyer.frozen \in Nat
           /\ entry.id \in Nat /\ iter.node \in Nat /\ destroyer.node \in Nat
           /\ InHand => entry.id \in Ids
<1>1. \A i \in Ids : /\ saveQueue[i] \in Nat /\ insertDir[i] \in Nat
                     /\ index[i] \in Nat /\ saved[i] \in Nat
  BY SlotNat DEF Typed, TypeOK
<1>2. /\ entry.id \in Ids \cup {NoId} /\ entry.doc \in Nat
      /\ iter.node \in Ids \cup {NoId} /\ iter.frozen \in Nat
      /\ destroyer.node \in Ids \cup {NoId} /\ destroyer.frozen \in Nat
  BY SlotNat DEF Typed, TypeOK, Iterator
<1>3. \A i \in Ids \cup {NoId} : i \in Nat
  OBVIOUS
<1>4. InHand => entry.id \in Ids
  BY <1>2 DEF Typed, InHand
<1>5. QED
  BY <1>1, <1>2, <1>3, <1>4

\* Nothing is under way at the start.
LEMMA LossInit == Init => LossInv
  BY DEF Init, LossInv, EntryStill, IterStill, HandBound, EndBound, DownIdle, FileBound,
         FileBehind, InHand, Empty, NoIterator, NoEntry

\* Every step keeps what is under way in order.
LEMMA LossNext == Typed /\ OrderInv /\ LossInv /\ [Next]_vars => LossInv'
<1> SUFFICES ASSUME Typed, OrderInv, LossInv, [Next]_vars PROVE LossInv'
  OBVIOUS
<1>0. TypeOK
  BY DEF Typed
<1>n. /\ \A i \in Ids : /\ saveQueue[i] \in Nat /\ insertDir[i] \in Nat
                        /\ index[i] \in Nat /\ saved[i] \in Nat
      /\ entry.id \in Ids \cup {NoId} /\ entry.doc \in Nat
      /\ iter.node \in Ids \cup {NoId} /\ iter.frozen \in Nat
      /\ destroyer.node \in Ids \cup {NoId} /\ destroyer.frozen \in Nat
      /\ entry.id \in Nat /\ iter.node \in Nat /\ destroyer.node \in Nat
      /\ InHand => entry.id \in Ids
  BY DocNumbers
<1> USE <1>0, <1>n DEF LossInv, EntryStill, IterStill, HandBound, EndBound, DownIdle, FileBound,
                       FileBehind, InHand
<1>1. ASSUME NEW i \in Ids, SaveNext(i) PROVE LossInv'
  <2>1. /\ saveQueue' = [saveQueue EXCEPT ![i] = saved[i] + 1]
        /\ saved' = [saved EXCEPT ![i] = saved[i] + 1]
        /\ gone' = gone \ {i} /\ mode = "up"
        /\ UNCHANGED <<insertDir, iter, pc, entry, mode, destroyer>>
    BY <1>1 DEF SaveNext, Save, passVars, lifeVars
  <2>2. /\ saveQueue'[i] = saved[i] + 1 /\ saved'[i] = saved[i] + 1
        /\ \A j \in Ids : j # i => saveQueue'[j] = saveQueue[j] /\ saved'[j] = saved[j]
    BY <2>1 DEF TypeOK
  <2>3. InHand => entry.doc <= saved[entry.id]
    BY DEF OrderInv, EntryOrder, Newer
  <2>4. iter.node # NoId /\ iter.frozen # None => iter.frozen <= saved[iter.node]
    BY DEF OrderInv, IterOrder, Newer
  <2>5. EntryStill'
    BY <2>1, <2>2, <2>3
  <2>6. IterStill'
    BY <2>1, <2>2, <2>4
  <2>7. HandBound' /\ EndBound' /\ DownIdle' /\ FileBound'
    BY <2>1, <2>2
  <2>8. FileBehind'
    BY <2>1, <2>2
  <2>9. QED
    BY <2>5, <2>6, <2>7, <2>8
<1>2. ASSUME NEW i \in Ids, DeleteSaved(i) PROVE LossInv'
  <2>1. /\ saveQueue' = [saveQueue EXCEPT ![i] = None] /\ iter' = Unlinked(iter, i)
        /\ gone' = gone \cup {i} /\ mode = "up"
        /\ UNCHANGED <<insertDir, pc, entry, mode, destroyer, saved>>
    BY <1>2 DEF DeleteSaved, DeleteQueued, lifeVars
  <2>2. /\ iter'.node = iter.node
        /\ \/ iter'.frozen = iter.frozen
           \/ iter.node = i /\ iter.frozen = None /\ iter'.frozen = saveQueue[i]
    BY <2>1 DEF Unlinked, TypeOK, Iterator
  <2>3. saveQueue'[i] = None /\ \A j \in Ids : j # i => saveQueue'[j] = saveQueue[j]
    BY <2>1 DEF TypeOK
  <2>4. EntryStill' /\ IterStill'
    BY <2>1, <2>2, <2>3
  <2>5. HandBound' /\ EndBound' /\ DownIdle' /\ FileBound' /\ FileBehind'
    BY <2>1, <2>2, <2>3
  <2>6. QED
    BY <2>4, <2>5
<1>3. ASSUME NEW i \in Ids, DeleteInSolr(i) \/ DeleteFails(i) PROVE LossInv'
  BY <1>3 DEF DeleteInSolr, DeleteFails, passVars, lifeVars, callerVars
<1>4. CASE DeleteByQuery
  <2>1. gone' = {i \in Ids : saved[i] # None} /\ mode = "up"
        /\ UNCHANGED <<saveQueue, insertDir, pc, entry, iter, mode, destroyer, saved>>
    BY <1>4 DEF DeleteByQuery, passVars, lifeVars
  <2>2. EntryStill' /\ IterStill'
    <3>1. InHand /\ entry.id \notin gone' => saved[entry.id] = None
      BY <2>1
    <3>2. pc = "store" => entry.doc # None
      BY DEF OrderInv, EntryOrder
    <3>3. \A i \in Ids : saved[i] = None => saveQueue[i] = None
      BY DEF OrderInv, StoreOrder
    <3>4. iter.node # NoId /\ iter.frozen # None => saved[iter.node] # None
      BY DEF OrderInv, IterOrder, Newer
    <3>5. QED
      BY <2>1, <3>1, <3>2, <3>3, <3>4
  <2>3. QED
    BY <2>1, <2>2
<1>5. CASE BeginPass
  BY <1>5 DEF BeginPass, Storing, lifeVars, callerVars
<1>6. CASE LoadFromTemp
  <2>1. /\ saveQueue' = saveQueue /\ \A i \in Ids : insertDir'[i] \in {None, insertDir[i]}
        /\ pc' \in {"idle", "open"} /\ mode # "down"
        /\ UNCHANGED <<entry, iter, mode, destroyer, saved, gone>>
    BY <1>6 DEF LoadFromTemp, Reloaded, Storing, lifeVars, callerVars
  <2>2. \A i \in Ids : insertDir'[i] \in Nat /\ insertDir'[i] <= insertDir[i]
    BY <2>1
  <2>3. FileBound' /\ FileBehind'
    <3>1. FileBound'
      BY <2>1, <2>2
    <3>2. \A i \in Ids : saveQueue[i] # None /\ mode = "up" => insertDir'[i] <= saveQueue[i]
      BY <2>2
    <3>3. iter.node # NoId /\ iter.frozen # None /\ mode = "up" => insertDir'[iter.node] <= iter.frozen
      <4>1. iter.node # NoId => /\ iter.node \in Ids /\ insertDir[iter.node] \in Nat
                                /\ insertDir'[iter.node] \in {None, insertDir[iter.node]}
        BY <2>1
      <4>2. iter.node # NoId /\ iter.frozen # None /\ mode = "up" => insertDir[iter.node] <= iter.frozen
        OBVIOUS
      <4>3. QED
        BY <4>1, <4>2
    <3>4. QED
      BY <2>1, <3>1, <3>2, <3>3
  <2>4. QED
    BY <2>1, <2>3
<1>7. CASE OpenIterator
  <2>1. /\ iter'.frozen = None /\ pc' = "next" /\ mode # "down"
        /\ UNCHANGED <<saveQueue, insertDir, mode, destroyer, saved, gone>>
    BY <1>7 DEF OpenIterator, Storing, lifeVars, callerVars
  <2>2. QED
    BY <2>1
<1>8. CASE NextEntry
  <2>1. /\ iter'.frozen = None /\ pc' = "store" /\ mode # "down" /\ iter.node \in Ids
        /\ entry'.id = iter.node /\ entry'.doc = ValueOf(iter)
        /\ UNCHANGED <<saveQueue, insertDir, mode, destroyer, saved, gone>>
    BY <1>8 DEF NextEntry, Storing, lifeVars, callerVars
  <2>2. ValueOf(iter) = IF iter.frozen # None THEN iter.frozen ELSE saveQueue[iter.node]
    BY DEF ValueOf
  <2>3. iter.frozen = None => saveQueue[iter.node] # None
    BY <2>1 DEF OrderInv, IterOrder
  <2>4. mode = "up" => insertDir[iter.node] <= ValueOf(iter)
    BY <2>1, <2>2, <2>3
  <2>5. EntryStill'
    BY <2>1, <2>2
  <2>6. QED
    BY <2>1, <2>4, <2>5
<1>9. ASSUME pc = "store", pc' = "remove", mode # "down",
             UNCHANGED <<saveQueue, entry, iter, mode, destroyer, saved, gone>>,
             UNCHANGED insertDir \/ insertDir' = [insertDir EXCEPT ![entry.id] = entry.doc]
      PROVE  LossInv'
  <2>1. entry.doc <= saved[entry.id] /\ entry.id \in Ids /\ entry.id # NoId
    BY <1>9 DEF OrderInv, EntryOrder, Newer
  <2>2. saveQueue[entry.id] # None => entry.doc <= saveQueue[entry.id]
    BY <1>9 DEF OrderInv, EntryOrder, Newer
  <2>3. iter.node # NoId => iter.node # entry.id
    <3>1. iter.node # NoId => entry.id < iter.node
      BY <2>1 DEF OrderInv, EntryBehind
    <3>2. QED
      BY <3>1
  <2>4. \A i \in Ids : insertDir'[i] = insertDir[i] \/ (i = entry.id /\ insertDir'[i] = entry.doc)
    BY <1>9, <2>1 DEF TypeOK
  <2>5. FileBound' /\ FileBehind'
    BY <1>9, <2>1, <2>2, <2>3, <2>4
  <2>6. QED
    BY <1>9, <2>1, <2>5
<1>10. CASE StoreAccepted
  BY <1>9, <1>10 DEF StoreAccepted, Storing, lifeVars, callerVars
<1>11. CASE StoreFails
  BY <1>9, <1>11 DEF StoreFails, SaveTemp, Storing, lifeVars, callerVars
<1>12. CASE StoreThrows
  BY <1>12 DEF StoreThrows, EndPass, Storing, NoIterator, lifeVars, callerVars
<1>13. CASE RemoveEntry
  <2>1. /\ saveQueue' = [saveQueue EXCEPT ![entry.id] = None] /\ pc = "remove"
        /\ pc' \in {"commit", "next"} /\ destroyer' = Unlinked(destroyer, entry.id)
        /\ mode # "down" /\ entry.id \in Ids
        /\ UNCHANGED <<insertDir, iter, mode, saved, gone>>
    BY <1>13 DEF RemoveEntry, Dequeued, CommitDue, Storing, callerVars
  <2>2. /\ destroyer'.node = destroyer.node
        /\ \/ destroyer'.frozen = destroyer.frozen
           \/ destroyer.node = entry.id /\ destroyer'.frozen = saveQueue[entry.id]
    BY <2>1 DEF Unlinked, TypeOK, Iterator
  <2>3. EndBound'
    BY <2>1, <2>2 DEF OrderInv, StoreOrder
  <2>4. \A j \in Ids : saveQueue'[j] # None => saveQueue'[j] = saveQueue[j]
    BY <2>1 DEF TypeOK
  <2>5. QED
    BY <2>1, <2>3, <2>4
<1>14. CASE BatchCommit
  BY <1>14 DEF BatchCommit, Storing, lifeVars, callerVars
<1>15. CASE FinalCommit
  BY <1>15 DEF FinalCommit, EndPass, Storing, NoIterator, lifeVars, callerVars
<1>16. CASE OpenSearcher
  BY <1>16 DEF OpenSearcher, passVars, lifeVars, callerVars
<1>17. CASE BeginDestroy
  <2>1. mode' = "closing" /\ destroyer'.frozen = None
        /\ UNCHANGED <<saveQueue, insertDir, pc, entry, saved>>
        /\ \E n \in Ids \cup {NoId} : destroyer'.node = n
    BY <1>17 DEF BeginDestroy, passVars, callerVars
  <2>2. QED
    BY <2>1
<1>18. CASE DestroyEntry
  <2>1. /\ mode = "closing" /\ mode' = "closing" /\ destroyer.node \in Ids
        /\ destroyer'.frozen = None /\ \E n \in Ids \cup {NoId} : destroyer'.node = n
        /\ \/ UNCHANGED insertDir
           \/ insertDir' = [insertDir EXCEPT ![destroyer.node] = ValueOf(destroyer)]
        /\ UNCHANGED <<pc, entry, saved, gone>>
    BY <1>18 DEF DestroyEntry, SaveTemp, callerVars
  <2>2. ValueOf(destroyer) <= saved[destroyer.node]
    BY <2>1 DEF ValueOf, OrderInv, StoreOrder
  <2>3. FileBound'
    BY <2>1, <2>2 DEF TypeOK
  <2>4. EndBound'
    BY <2>1
  <2>5. QED
    BY <2>1, <2>3, <2>4
<1>19. CASE CloseClient
  BY <1>19 DEF CloseClient, passVars, callerVars
<1>20. CASE Exit
  BY <1>20 DEF Exit, EndPass, NoIterator, callerVars
<1>21. CASE Restart
  <2>1. /\ pc = "idle" /\ iter.node = NoId /\ saveQueue = Empty /\ mode' = "up"
        /\ UNCHANGED <<saveQueue, insertDir, pc, entry, iter, destroyer, saved, gone>>
    BY <1>21 DEF Restart, passVars, callerVars
  <2>2. \A i \in Ids : saveQueue[i] = None
    BY <2>1 DEF Empty
  <2>3. QED
    BY <2>1, <2>2
<1>22. CASE UNCHANGED vars
  BY <1>22 DEF vars, passVars, solrVars, lifeVars, callerVars
<1>23. QED
  BY <1>1, <1>2, <1>3, <1>4, <1>5, <1>6, <1>7, <1>8, <1>10, <1>11, <1>12, <1>13, <1>14, <1>15,
     <1>16, <1>17, <1>18, <1>19, <1>20, <1>21, <1>22
     DEF Next, Calling, Pass, Living

\* Kept speaks of these variables only.
LEMMA KeptStays ==
    ASSUME UNCHANGED <<saved, gone, insertDir, index, saveQueue, pc, entry>>
    PROVE  \A i \in Ids : Kept(i) => Kept(i)'
  BY DEF Kept, Removing

\* A step that loses a document is one of the five.
LEMMA LossStep == Typed /\ OrderInv /\ LossInv /\ [Next]_vars =>
    \A i \in Ids : Kept(i) /\ ~Kept(i)' =>
        Overtaken(i) \/ DeletedLate(i) \/ Unwritten(i) \/ ReadBack(i) \/ Stopping
<1> SUFFICES ASSUME Typed, OrderInv, LossInv, [Next]_vars, NEW i \in Ids, Kept(i),
                    ~Overtaken(i), ~DeletedLate(i), ~Unwritten(i), ~ReadBack(i), ~Stopping
             PROVE  Kept(i)'
  OBVIOUS
<1>0. TypeOK
  BY DEF Typed
<1>n. /\ \A j \in Ids : /\ saveQueue[j] \in Nat /\ insertDir[j] \in Nat
                        /\ index[j] \in Nat /\ saved[j] \in Nat
      /\ entry.doc \in Nat /\ (InHand => entry.id \in Ids)
  BY DocNumbers
<1>m. mode = "up" /\ mode' # "down"
  BY DEF Stopping
<1>1. ASSUME NEW j \in Ids, SaveNext(j) PROVE Kept(i)'
  <2>1. /\ saveQueue' = [saveQueue EXCEPT ![j] = saved[j] + 1]
        /\ saved' = [saved EXCEPT ![j] = saved[j] + 1]
        /\ gone' = gone \ {j}
        /\ UNCHANGED <<insertDir, index, pc, entry>>
    BY <1>1 DEF SaveNext, Save, passVars, solrVars
  <2>2. CASE j = i
    <3>1. saveQueue'[i] = saved'[i] /\ saved'[i] = saved[i] + 1
      BY <2>1, <2>2, <1>0 DEF TypeOK
    <3>2. pc = "remove" => entry.doc <= saved[entry.id]
      BY DEF LossInv, HandBound
    <3>3. ~Removing(i)'
      BY <2>1, <3>1, <3>2, <1>n DEF Removing
    <3>4. QED
      BY <3>1, <3>3 DEF Kept
  <2>3. CASE j # i
    <3>1. saveQueue'[i] = saveQueue[i] /\ saved'[i] = saved[i] /\ (i \in gone => i \in gone')
      BY <2>1, <2>3, <1>0 DEF TypeOK
    <3>2. QED
      BY <2>1, <3>1 DEF Kept, Removing
  <2>4. QED
    BY <2>2, <2>3
<1>2. ASSUME NEW j \in Ids, DeleteSaved(j) PROVE Kept(i)'
  <2>1. /\ saveQueue' = [saveQueue EXCEPT ![j] = None] /\ gone' = gone \cup {j}
        /\ UNCHANGED <<insertDir, index, pc, entry, saved>>
    BY <1>2 DEF DeleteSaved, DeleteQueued, solrVars
  <2>2. QED
    BY <2>1, <1>0 DEF Kept, Removing, TypeOK
<1>3. ASSUME NEW j \in Ids, DeleteInSolr(j) \/ DeleteFails(j) PROVE Kept(i)'
  <2>1. j # i
    BY <1>3 DEF DeleteInSolr, DeleteFails, DeletedLate
  <2>2. /\ index'[i] = index[i]
        /\ UNCHANGED <<saveQueue, insertDir, pc, entry, saved, gone>>
    BY <1>3, <2>1, <1>0 DEF DeleteInSolr, DeleteFails, TypeOK, passVars, solrVars, callerVars
  <2>3. QED
    BY <2>2 DEF Kept, Removing
<1>4. CASE DeleteByQuery
  BY <1>4 DEF DeleteByQuery, Kept
<1>5. CASE BeginPass
  BY <1>5 DEF BeginPass, Storing, Kept, Removing, solrVars, callerVars
<1>6. CASE LoadFromTemp
  <2>1. /\ saveQueue' = saveQueue /\ insertDir'[i] \in {None, insertDir[i]}
        /\ pc = "load" /\ pc' \in {"idle", "open"}
        /\ UNCHANGED <<index, saved, gone>>
    BY <1>6 DEF LoadFromTemp, Reloaded, Storing, solrVars, callerVars
  <2>2. QED
    BY <2>1 DEF Kept, Removing, ReadBack
<1>7. CASE OpenIterator
  BY <1>7 DEF OpenIterator, Storing, Kept, Removing, solrVars, callerVars
<1>8. CASE NextEntry
  BY <1>8 DEF NextEntry, Storing, Kept, Removing, solrVars, callerVars
<1>9. ASSUME pc = "store", pc' = "remove", UNCHANGED <<saveQueue, entry, saved, gone>>,
             UNCHANGED index \/ SolrAccepts,
             UNCHANGED insertDir \/ insertDir' = [insertDir EXCEPT ![entry.id] = entry.doc],
             ~UNCHANGED <<index, insertDir>> \/ entry.id # i
      PROVE  Kept(i)'
  <2>1. entry.id \in Ids
    BY <1>9, <1>n DEF InHand
  <2>2. CASE entry.id # i
    <3>1. index'[i] = index[i] /\ insertDir'[i] = insertDir[i]
      BY <1>9, <2>1, <2>2, <1>0 DEF SolrAccepts, TypeOK
    <3>2. QED
      BY <1>9, <2>2, <3>1 DEF Kept, Removing
  <2>3. CASE entry.id = i
    <3>1. index[i] <= entry.doc /\ entry.doc <= saved[i] /\ insertDir[i] <= entry.doc
      BY <1>9, <1>m, <2>3 DEF OrderInv, EntryOrder, Newer, LossInv, FileBehind
    <3>2. /\ index'[i] \in {index[i], entry.doc} /\ insertDir'[i] \in {insertDir[i], entry.doc}
          /\ index'[i] = entry.doc \/ insertDir'[i] = entry.doc
      <4>1. index' = index \/ index' = [index EXCEPT ![i] = entry.doc]
        BY <1>9, <2>3 DEF SolrAccepts
      <4>2. insertDir' = insertDir \/ insertDir' = [insertDir EXCEPT ![i] = entry.doc]
        BY <1>9, <2>3
      <4>3. QED
        BY <1>9, <4>1, <4>2, <2>3, <1>0 DEF TypeOK
    <3>3. CASE entry.doc = saved[i]
      BY <1>9, <3>2, <3>3 DEF Kept
    <3>4. CASE entry.doc # saved[i]
      <4>1. index[i] # saved[i] /\ insertDir[i] # saved[i]
        BY <3>1, <3>4, <1>n
      <4>2. saved[i] = None \/ i \in gone \/ saveQueue[i] = saved[i]
        BY <4>1, <3>4 DEF Kept
      <4>3. QED
        BY <1>9, <4>2, <3>4 DEF Kept, Removing
    <3>5. QED
      BY <3>3, <3>4
  <2>4. QED
    BY <2>2, <2>3
<1>10. CASE StoreAccepted
  <2>1. entry.id = i => ~UNCHANGED <<index, insertDir>> \/ index[i] = entry.doc
    BY <1>10, <1>0 DEF StoreAccepted, SolrAccepts, TypeOK
  <2>2. CASE entry.id = i /\ index[i] = entry.doc
    <3>1. UNCHANGED <<index, insertDir, saveQueue, entry, saved, gone>> /\ pc = "store" /\ pc' = "remove"
      BY <1>10, <2>2, <1>0 DEF StoreAccepted, SolrAccepts, Storing, callerVars, TypeOK
    <3>2. QED
      BY <2>2, <3>1 DEF Kept, Removing
  <2>3. CASE ~(entry.id = i /\ index[i] = entry.doc)
    BY <1>9, <1>10, <2>1, <2>3 DEF StoreAccepted, Storing, callerVars
  <2>4. QED
    BY <2>2, <2>3
<1>11. CASE StoreFails
  <2>1. /\ pc = "store" /\ pc' = "remove" /\ UNCHANGED <<saveQueue, entry, saved, gone>>
        /\ UNCHANGED index \/ SolrAccepts
    BY <1>11 DEF StoreFails, Storing, callerVars
  <2>2. \/ insertDir' = [insertDir EXCEPT ![entry.id] = entry.doc]
        \/ "disk" \in Env /\ UNCHANGED insertDir
    BY <1>11 DEF StoreFails, SaveTemp
  <2>3. CASE entry.id = i /\ UNCHANGED <<index, insertDir>>
    <3>1. insertDir[i] = entry.doc
      BY <1>11, <2>2, <2>3, <1>0 DEF Unwritten, TypeOK
    <3>2. QED
      BY <2>1, <2>3, <3>1 DEF Kept, Removing
  <2>4. CASE ~(entry.id = i /\ UNCHANGED <<index, insertDir>>)
    BY <1>9, <2>1, <2>2, <2>4
  <2>5. QED
    BY <2>3, <2>4
<1>12. CASE StoreThrows
  <2>1. pc = "store" /\ pc' = "idle" /\ UNCHANGED <<saveQueue, insertDir, index, saved, gone>>
    BY <1>12 DEF StoreThrows, Storing, EndPass, solrVars, callerVars
  <2>2. entry.id = i /\ entry.doc = saved[i] /\ i \notin gone => saveQueue[i] = saved[i]
    BY <1>m, <2>1 DEF LossInv, EntryStill, InHand
  <2>3. QED
    BY <2>1, <2>2 DEF Kept, Removing
<1>13. CASE RemoveEntry
  <2>1. /\ saveQueue' = [saveQueue EXCEPT ![entry.id] = None] /\ pc = "remove"
        /\ entry.id \in Ids /\ UNCHANGED <<insertDir, index, saved, gone>>
        /\ pc' \in {"commit", "next"}
    BY <1>13, <1>n DEF RemoveEntry, Dequeued, CommitDue, Storing, InHand, solrVars, callerVars
  <2>2. CASE entry.id # i
    <3>1. saveQueue'[i] = saveQueue[i]
      BY <2>1, <2>2, <1>0 DEF TypeOK
    <3>2. QED
      BY <2>1, <2>2, <3>1 DEF Kept, Removing
  <2>3. CASE entry.id = i
    <3>1. entry.doc <= saved[i] /\ ~(entry.doc < saveQueue[i])
      BY <2>1, <2>3 DEF LossInv, HandBound, Overtaken
    <3>2. saveQueue[i] = saved[i] => entry.doc = saved[i]
      BY <3>1, <2>3, <1>n
    <3>3. QED
      BY <2>1, <2>3, <3>2 DEF Kept, Removing
  <2>4. QED
    BY <2>2, <2>3
<1>14. CASE BatchCommit
  BY <1>14 DEF BatchCommit, Storing, Kept, Removing, callerVars
<1>15. CASE FinalCommit
  BY <1>15 DEF FinalCommit, EndPass, Storing, Kept, Removing, callerVars
<1>16. CASE OpenSearcher
  BY <1>16, KeptStays DEF OpenSearcher, passVars, callerVars
<1>17. CASE Living
  <2>1. BeginDestroy
    BY <1>17, <1>m DEF Living, DestroyEntry, CloseClient, Exit, Restart
  <2>2. QED
    BY <2>1, KeptStays DEF BeginDestroy, passVars, solrVars, callerVars
<1>18. CASE UNCHANGED vars
  BY <1>18, KeptStays DEF vars, passVars, solrVars, callerVars
<1>19. QED
  BY <1>1, <1>2, <1>3, <1>4, <1>5, <1>6, <1>7, <1>8, <1>10, <1>11, <1>12, <1>13, <1>14,
     <1>15, <1>16, <1>17, <1>18
     DEF Next, Calling, Pass

\* In every environment, with any calls and faults, the five ways named in LossWindow
\* are the only ones in which the document saved last is lost.
THEOREM OnlyFiveLosses == Spec => LossWindow
<1>1. Typed /\ OrderInv /\ LossInv /\ [Next]_vars => Typed' /\ OrderInv' /\ LossInv'
  BY TypedNext, OrderNext, LossNext
<1>2. QED
  BY <1>1, TypedInit, OrderInit, LossInit, LossStep, PTL DEF Spec, LossWindow

-----------------------------------------------------------------------------
(***************************************************************************)
(* What waits for a commit, in every environment in which passes are not   *)
(* cut short and commits do not fail: at most as many documents as the     *)
(* pass has counted, and none that the pass has not counted.               *)
(***************************************************************************)
CommitsGoThrough == Env \cap {"commit", "crash", "shutdown"} = {} /\ Poison = {}

Budget     == IF pc = "remove" THEN counter + 1 ELSE counter
UnseenFew  == searcherDue \/ (IsFiniteSet(Unseen) /\ Cardinality(Unseen) <= Budget)
UnseenHeld == \A i \in Ids : \/ index[i] = visible[i] \/ searcherDue \/ counter > 0
                             \/ pc = "remove" /\ entry.id = i

CountInv == mode = "up" /\ UnseenFew /\ UnseenHeld

\* Nothing waits at the start.
LEMMA CountInit == Init => CountInv
<1> SUFFICES ASSUME Init PROVE CountInv
  OBVIOUS
<1>1. Unseen = {} /\ counter = 0 /\ pc = "idle"
  BY DEF Init, Unseen, Empty
<1>2. IsFiniteSet({}) /\ Cardinality({}) = 0
  BY FS_EmptySet
<1>3. UnseenFew
  BY <1>1, <1>2 DEF UnseenFew, Budget
<1>4. UnseenHeld
  BY Zenon DEF Init, UnseenHeld
<1>5. QED
  BY <1>3, <1>4 DEF Init, CountInv

\* A step after which Solr owes a searcher, or which leaves both sides of the count.
LEMMA CountStays ==
    ASSUME CountInv, mode' = "up",
           \/ searcherDue'
           \/ UNCHANGED <<index, visible, searcherDue, counter, entry>> /\ (pc = "remove" <=> pc' = "remove")
           \/ UNCHANGED <<index, visible, searcherDue, counter>> /\ pc # "remove" /\ pc' # "remove"
    PROVE  CountInv'
<1>1. CASE searcherDue'
  BY <1>1, Zenon DEF CountInv, UnseenFew, UnseenHeld
<1>2. ASSUME UNCHANGED <<index, visible, searcherDue, counter>>, pc = "remove" <=> pc' = "remove"
      PROVE  UnseenFew'
  <2>1. Unseen' = Unseen
    BY <1>2 DEF Unseen
  <2>2. Budget' = Budget
    BY <1>2 DEF Budget
  <2>3. QED
    BY <1>2, <2>1, <2>2 DEF CountInv, UnseenFew
<1>3. CASE UNCHANGED <<index, visible, searcherDue, counter, entry>> /\ (pc = "remove" <=> pc' = "remove")
  BY <1>2, <1>3 DEF CountInv, UnseenHeld
<1>4. CASE UNCHANGED <<index, visible, searcherDue, counter>> /\ pc # "remove" /\ pc' # "remove"
  <2>1. UnseenFew'
    BY <1>2, <1>4
  <2>2. UnseenHeld'
    BY <1>4, Zenon DEF CountInv, UnseenHeld
  <2>3. QED
    BY <2>1, <2>2 DEF CountInv
<1>5. QED
  BY <1>1, <1>3, <1>4

\* A document Solr has accepted is one more at most.
LEMMA OneMoreUnseen ==
    ASSUME Typed, CountInv, SolrAccepts, pc = "store", pc' = "remove", mode' = "up",
           UNCHANGED <<visible, searcherDue, counter, entry>>
    PROVE  CountInv'
<1>1. entry.id \in Ids /\ counter \in Nat
  BY DEF Typed, TypeOK
<1>2. index' = [index EXCEPT ![entry.id] = entry.doc] /\ index \in [Ids -> Slot]
  BY DEF SolrAccepts, Typed, TypeOK
<1>3. Unseen' \subseteq Unseen \cup {entry.id}
  BY <1>1, <1>2 DEF Unseen
<1>4. CASE searcherDue
  BY <1>4 DEF CountInv, UnseenFew, UnseenHeld
<1>5. CASE ~searcherDue
  <2>1. IsFiniteSet(Unseen) /\ Cardinality(Unseen) <= counter
    BY <1>5 DEF CountInv, UnseenFew, Budget
  <2>2. /\ IsFiniteSet(Unseen \cup {entry.id}) /\ Cardinality(Unseen) \in Nat
        /\ Cardinality(Unseen \cup {entry.id}) \in {Cardinality(Unseen), Cardinality(Unseen) + 1}
    BY <2>1, FS_AddElement, FS_CardinalityType
  <2>3. /\ IsFiniteSet(Unseen') /\ Cardinality(Unseen') \in Nat
        /\ Cardinality(Unseen') <= Cardinality(Unseen \cup {entry.id})
    BY <1>3, <2>2, FS_Subset, FS_CardinalityType
  <2>4. Cardinality(Unseen') <= counter + 1
    BY <1>1, <2>1, <2>2, <2>3
  <2>5. UnseenFew'
    BY <2>3, <2>4 DEF UnseenFew, Budget
  <2>6. UnseenHeld'
    BY <1>1, <1>2 DEF CountInv, UnseenHeld
  <2>7. QED
    BY <2>5, <2>6 DEF CountInv
<1>6. QED
  BY <1>4, <1>5

\* Every step keeps the count of what waits.
LEMMA CountNext == CommitsGoThrough /\ Typed /\ CountInv /\ [Next]_vars => CountInv'
<1> SUFFICES ASSUME CommitsGoThrough, Typed, CountInv, [Next]_vars PROVE CountInv'
  OBVIOUS
<1>0. TypeOK
  BY DEF Typed
<1>m. mode = "up"
  BY DEF CountInv
<1>1. ASSUME NEW i \in Ids, SaveNext(i) \/ DeleteSaved(i) PROVE CountInv'
  BY <1>1, <1>m, CountStays DEF SaveNext, Save, DeleteSaved, DeleteQueued, passVars, solrVars, lifeVars
<1>2. ASSUME NEW i \in Ids, DeleteInSolr(i) \/ DeleteFails(i) PROVE CountInv'
  BY <1>2, <1>m, CountStays DEF DeleteInSolr, DeleteFails, passVars, solrVars, lifeVars
<1>3. CASE DeleteByQuery
  BY <1>3, <1>m, CountStays DEF DeleteByQuery, lifeVars
<1>4. CASE BeginPass \/ LoadFromTemp \/ OpenIterator \/ NextEntry
  BY <1>4, <1>m, CountStays DEF BeginPass, LoadFromTemp, OpenIterator, NextEntry, Storing,
                                solrVars, lifeVars
<1>5. CASE StoreAccepted
  BY <1>5, <1>m, OneMoreUnseen DEF StoreAccepted, Storing, lifeVars
<1>6. CASE StoreFails
  <2>1. /\ pc = "store" /\ pc' = "remove" /\ mode' = "up"
        /\ UNCHANGED <<visible, searcherDue, counter, entry>> /\ (UNCHANGED index \/ SolrAccepts)
    BY <1>6, <1>m DEF StoreFails, Storing, lifeVars
  <2>2. CASE SolrAccepts
    BY <2>1, <2>2, OneMoreUnseen
  <2>3. CASE UNCHANGED index
    <3>1. Unseen' = Unseen /\ counter \in Nat
      BY <2>1, <2>3, <1>0 DEF Unseen, TypeOK
    <3>2. UnseenFew'
      <4>1. CASE searcherDue
        BY <2>1, <4>1 DEF UnseenFew
      <4>2. CASE ~searcherDue
        <5>1. IsFiniteSet(Unseen) /\ Cardinality(Unseen) <= counter /\ Cardinality(Unseen) \in Nat
          BY <2>1, <4>2, FS_CardinalityType DEF CountInv, UnseenFew, Budget
        <5>2. Cardinality(Unseen) <= counter + 1
          BY <3>1, <5>1
        <5>3. QED
          BY <2>1, <3>1, <5>1, <5>2 DEF UnseenFew, Budget
      <4>3. QED
        BY <4>1, <4>2
    <3>3. QED
      BY <2>1, <2>3, <3>2 DEF CountInv, UnseenHeld
  <2>4. QED
    BY <2>1, <2>2, <2>3
<1>7. CASE StoreThrows
  BY <1>7, <1>m DEF StoreThrows, CommitsGoThrough
<1>8. CASE RemoveEntry
  <2>1. /\ pc = "remove" /\ pc' \in {"commit", "next"} /\ counter' = counter + 1
        /\ mode' = "up" /\ UNCHANGED <<index, visible, searcherDue>> /\ counter \in Nat
    BY <1>8, <1>m, <1>0 DEF RemoveEntry, Storing, TypeOK, solrVars
  <2>2. Unseen' = Unseen /\ Budget' = Budget
    BY <2>1 DEF Unseen, Budget
  <2>3. UnseenFew'
    BY <2>1, <2>2 DEF CountInv, UnseenFew
  <2>4. UnseenHeld'
    <3>1. counter' > 0
      BY <2>1
    <3>2. QED
      BY <3>1, Zenon DEF UnseenHeld
  <2>5. QED
    BY <2>1, <2>3, <2>4 DEF CountInv
<1>9. CASE BatchCommit \/ FinalCommit
  <2>1. searcherDue' = TRUE /\ mode' = "up"
    BY <1>9, <1>m DEF BatchCommit, FinalCommit, Commit, CommitsGoThrough, lifeVars
  <2>2. QED
    BY <2>1, CountStays
<1>10. CASE OpenSearcher
  <2>1. Unseen' = {} /\ index' = visible' /\ mode' = "up" /\ UNCHANGED <<pc, counter>>
    BY <1>10, <1>m DEF OpenSearcher, Unseen, passVars, lifeVars
  <2>2. IsFiniteSet(Unseen') /\ Cardinality(Unseen') = 0 /\ counter \in Nat
    BY <2>1, <1>0, FS_EmptySet DEF TypeOK
  <2>3. UnseenFew'
    BY <2>1, <2>2 DEF UnseenFew, Budget
  <2>4. UnseenHeld'
    BY <2>1, Zenon DEF UnseenHeld
  <2>5. QED
    BY <2>1, <2>3, <2>4 DEF CountInv
<1>11. CASE Living
  BY <1>11, <1>m DEF Living, BeginDestroy, DestroyEntry, CloseClient, Exit, Restart, CommitsGoThrough
<1>12. CASE UNCHANGED vars
  BY <1>12, <1>m, CountStays DEF vars, passVars, solrVars, lifeVars
<1>13. QED
  BY <1>1, <1>2, <1>3, <1>4, <1>5, <1>6, <1>7, <1>8, <1>9, <1>10, <1>11, <1>12
     DEF Next, Calling, Pass

\* Without failing commits, rejected documents and ends of the process, nothing waits
\* for a commit that no pass has counted.
THEOREM CommitAlwaysPending == ASSUME CommitsGoThrough PROVE Spec => []CommitPending
<1>1. Typed /\ CountInv /\ [Next]_vars => Typed' /\ CountInv'
  BY TypedNext, CountNext, CommitsGoThrough
<1>2. CountInv => CommitPending
  BY DEF CountInv, UnseenFew, Budget, CommitPending
<1>3. QED
  BY <1>1, <1>2, TypedInit, CountInit, PTL DEF Spec

\* What each reader of get misses is in Solr, and counted.
LEMMA FindsSaved == Typed /\ KeptInv /\ LossInv /\ CountInv => GetFindsSaved
<1> SUFFICES ASSUME Typed, KeptInv, LossInv, CountInv, NEW i \in Ids, saved[i] # None, i \notin gone
             PROVE  \/ Get(i) = saved[i]
                    \/ index[i] = saved[i] /\ (searcherDue \/ counter > 0)
  BY DEF GetFindsSaved
<1>1. CASE saveQueue[i] = saved[i]
  BY <1>1 DEF Get
<1>2. CASE saveQueue[i] # saved[i]
  <2>1. saveQueue[i] = None /\ index[i] = saved[i]
    BY <1>2 DEF KeptInv, QueueLatest, Covered
  <2>2. ~(pc = "remove" /\ entry.id = i)
    <3>1. SUFFICES ASSUME pc = "remove", entry.id = i PROVE FALSE
      OBVIOUS
    <3>2. entry.doc = saved[i] /\ mode = "up" /\ entry.id # NoId
      BY <3>1 DEF KeptInv, EntryLatest, Typed
    <3>3. saveQueue[i] = saved[i]
      BY <3>1, <3>2 DEF LossInv, EntryStill, InHand
    <3>4. QED
      BY <1>2, <3>3
  <2>3. index[i] = visible[i] \/ searcherDue \/ counter > 0
    BY <2>2 DEF CountInv, UnseenHeld
  <2>4. QED
    BY <2>1, <2>3 DEF Get
<1>3. QED
  BY <1>1, <1>2

\* Where ids are saved once and commits do not fail, get misses a saved document only
\* between iterator.remove() and the searcher of a commit that is due or counted.
THEOREM GetMissesBriefly ==
    ASSUME SaveOnce, CommitsGoThrough PROVE Spec => []GetFindsSaved
<1> DEFINE Inv == Typed /\ OrderInv /\ KeptInv /\ LossInv /\ CountInv
<1>1. Init => Inv
  BY TypedInit, OrderInit, KeptInit, LossInit, CountInit
<1>2. Inv /\ [Next]_vars => Inv'
  BY TypedNext, OrderNext, KeptNext, LossNext, CountNext, SaveOnce, CommitsGoThrough
<1>3. Inv => GetFindsSaved
  BY FindsSaved
<1>4. QED
  BY <1>1, <1>2, <1>3, PTL DEF Spec
=============================================================================
