------------------------- MODULE UpdateQueue_proofs -------------------------
(***************************************************************************)
(* Theorems about the update queue, for any set of ids, any bounds and any *)
(* environment.                                                            *)
(***************************************************************************)
EXTENDS UpdateQueue, LazyRepository_proofs

USE IdsAssumption, BoundsAssumption, EnvAssumption, UpdatesAssumption
    DEF None, NoId, NoUpdate, IdsAssumption, BoundsAssumption, EnvAssumption, UpdatesAssumption

-----------------------------------------------------------------------------
(***************************************************************************)
(* Type correctness.  Numbers of updates are those of calls, and one is in *)
(* hand exactly while it is sent and removed.                              *)
(***************************************************************************)
CallRecord == [id : Ids, action : Actions, time : 1 .. MaxTime, saved : Docs, lazy : BOOLEAN]
Numbers    == 0 .. Len(calls)

UpdateTyped ==
    /\ Typed /\ UpdateTypeOK
    /\ updateQueue \in [Keys -> Numbers] /\ updateDir \in [Keys -> Numbers]
    /\ patches \in [Ids -> SUBSET (1 .. Len(calls))]
    /\ IF upc \in {"send", "remove"} THEN sending.key \in Keys /\ sending.update \in 1 .. Len(calls)
                                     ELSE sending = NotSending
    /\ upc # "commit" => upCounter < CommitEvery

\* What the types say of calls, put pointwise.
LEMMA CallsType ==
    ASSUME UpdateTyped
    PROVE  /\ Len(calls) \in Nat /\ DOMAIN calls = 1 .. Len(calls) /\ Len(calls) <= MaxUpdates
           /\ \A n \in 1 .. Len(calls) :
                 /\ calls[n] \in CallRecord
                 /\ calls[n].id \in Ids /\ calls[n].saved \in Docs /\ Key(n) \in Keys
<1>1. calls \in Seq(CallRecord) /\ Len(calls) <= MaxUpdates
  BY DEF UpdateTyped, UpdateTypeOK, CallRecord
<1>2. Len(calls) \in Nat /\ DOMAIN calls = 1 .. Len(calls)
  BY <1>1
<1>3. ASSUME NEW n \in 1 .. Len(calls)
      PROVE  /\ calls[n] \in CallRecord
             /\ calls[n].id \in Ids /\ calls[n].saved \in Docs /\ Key(n) \in Keys
  <2>1. calls[n] \in CallRecord
    BY <1>1, <1>3
  <2>2. QED
    BY <2>1 DEF CallRecord, Key, Keys
<1>4. QED
  BY <1>1, <1>2, <1>3

\* A call is the last of the calls and leaves the others alone.
LEMMA CallAppends ==
    ASSUME UpdateTyped, NEW i \in Ids, NEW action \in Actions, NEW lazy \in BOOLEAN,
           Call(i, action, lazy), NEW m, m = Len(calls) + 1
    PROVE  /\ calls' \in Seq(CallRecord) /\ Len(calls') = m /\ m <= MaxUpdates /\ m \in Nat
           /\ \A n \in 1 .. Len(calls) : calls'[n] = calls[n] /\ Key(n)' = Key(n)
           /\ calls'[m] = [id |-> i, action |-> action, lazy |-> lazy,
                           time |-> now, saved |-> saved[i]]
           /\ Key(m)' = KeyOf(i, action, now) /\ KeyOf(i, action, now) \in Keys
<1> DEFINE r == [id |-> i, action |-> action, lazy |-> lazy, time |-> now, saved |-> saved[i]]
<1>1. calls \in Seq(CallRecord) /\ now \in 1 .. MaxTime
  BY DEF UpdateTyped, UpdateTypeOK, CallRecord
<1>2. saved[i] \in Docs
  <2>1. TypeOK /\ saved[i] # None
    BY DEF Call, UpdateTyped, UpdateTypeOK
  <2>2. QED
    BY <2>1 DEF TypeOK, Slot
<1>3. r \in CallRecord
  BY <1>1, <1>2 DEF CallRecord
<1>4. calls' = Append(calls, r) /\ Len(calls) < MaxUpdates
  BY DEF Call
<1>5. r.id = i /\ r.action = action /\ r.time = now
  OBVIOUS
<1> HIDE DEF r
<1>6. /\ calls' \in Seq(CallRecord) /\ Len(calls') = m /\ m <= MaxUpdates /\ m \in Nat
      /\ \A n \in 1 .. Len(calls) : calls'[n] = calls[n]
      /\ calls'[m] = r
  BY <1>1, <1>3, <1>4
<1>7. \A n \in 1 .. Len(calls) : Key(n)' = Key(n)
  BY <1>6 DEF Key, KeyOf
<1>8. Key(m)' = KeyOf(i, action, now)
  BY <1>5, <1>6 DEF Key, KeyOf
<1>9. KeyOf(i, action, now) \in Keys
  BY <1>1 DEF Keys
<1>10. QED
  BY <1>6, <1>7, <1>8, <1>9 DEF r

\* The initial state is typed.
LEMMA UpdateTypedInit == UpdateInit => UpdateTyped
<1> SUFFICES ASSUME UpdateInit PROVE UpdateTyped
  OBVIOUS
<1>1. Typed /\ TypeOK
  BY TypedInit DEF UpdateInit, Typed
<1>2. calls = <<>> /\ Len(calls) = 0 /\ calls \in Seq(CallRecord)
  BY DEF UpdateInit
<1>3. updateQueue \in [Keys -> Numbers] /\ updateDir \in [Keys -> Numbers]
  BY <1>2 DEF UpdateInit, NoUpdates, Numbers
<1>4. /\ \A k \in Keys : updateQueue[k] = NoUpdate /\ updateDir[k] = NoUpdate
      /\ \A i \in Ids : patches[i] = {}
  BY DEF UpdateInit, NoUpdates
<1>5. UpdateTypeOK
  BY <1>1, <1>2, <1>4 DEF UpdateInit, UpdateTypeOK, CallRecord
<1>6. QED
  BY <1>1, <1>2, <1>3, <1>5 DEF UpdateInit, UpdateTyped

\* Steps of the documents keep the types, and none of the calls' and updates' changes.
LEMMA DocumentsTyped ==
    ASSUME UpdateTyped, Typed',
           UNCHANGED <<calls, now, updateQueue, updateDir, ahead, sending, upCounter>>,
           upc' = upc \/ (upc = "rest" /\ upc' = "begin"),
           \A i \in Ids : patches'[i] \subseteq patches[i], patches' = [i \in Ids |-> patches'[i]]
    PROVE  UpdateTyped'
<1>1. TypeOK'
  BY DEF Typed
<1>2. patches' \in [Ids -> SUBSET (1 .. Len(calls))]
  BY DEF UpdateTyped
<1>3. \A k : Key(k)' = Key(k)
  BY DEF Key, KeyOf
<1>4. UpdateTypeOK'
  BY <1>1, <1>3 DEF UpdateTyped, UpdateTypeOK
<1>5. QED
  BY <1>2, <1>4 DEF UpdateTyped, Numbers

\* Where Solr patches a document the types are kept.
LEMMA PatchesTyped ==
    ASSUME UpdateTyped, NEW i \in Ids, NEW n, NEW action, SolrPatches(i, n, action)
    PROVE  /\ index' = index /\ visible' = visible /\ searcherDue' \in BOOLEAN /\ index[i] # None
           /\ patches' = [patches EXCEPT ![i] = IF action = "set" THEN {n} ELSE @ \cup {n}]
           /\ \A j \in Ids : j # i => patches'[j] = patches[j]
           /\ patches'[i] = IF action = "set" THEN {n} ELSE patches[i] \cup {n}
  BY DEF SolrPatches, UpdateTyped, Typed, TypeOK

\* Nothing but the searcher changes in what the documents see of an update.
LEMMA AsideTyped ==
    ASSUME Typed, searcherDue' \in BOOLEAN,
           UNCHANGED <<saveQueue, insertDir, deleting, passVars, index, visible, lifeVars, callerVars>>
    PROVE  Typed' /\ TypeOK'
  BY DEF Typed, TypeOK, passVars, lifeVars, callerVars

\* A call of update keeps the types.
LEMMA CallsTyped ==
    ASSUME UpdateTyped, NEW i \in Ids, NEW action \in Actions,
           LazyUpdate(i, action) \/ RealtimeUpdate(i, action)
    PROVE  UpdateTyped'
<1>0. Typed /\ UpdateTypeOK /\ TypeOK
  BY DEF UpdateTyped, Typed
<1>1. PICK lazy \in BOOLEAN : Call(i, action, lazy)
  BY DEF LazyUpdate, RealtimeUpdate
<1>2. PICK m \in Nat : m = Len(calls) + 1
  BY CallsType
<1>3. /\ calls' \in Seq(CallRecord) /\ Len(calls') = m /\ m <= MaxUpdates
      /\ \A n \in 1 .. Len(calls) : calls'[n] = calls[n] /\ Key(n)' = Key(n)
      /\ calls'[m].id = i
      /\ Key(m)' = KeyOf(i, action, now) /\ KeyOf(i, action, now) \in Keys
      /\ Len(calls) \in Nat
  <2>1. /\ calls' \in Seq(CallRecord) /\ Len(calls') = m /\ m <= MaxUpdates
        /\ \A n \in 1 .. Len(calls) : calls'[n] = calls[n] /\ Key(n)' = Key(n)
        /\ calls'[m] = [id |-> i, action |-> action, lazy |-> lazy,
                        time |-> now, saved |-> saved[i]]
        /\ Key(m)' = KeyOf(i, action, now) /\ KeyOf(i, action, now) \in Keys
    BY <1>1, <1>2, CallAppends
  <2>2. calls'[m].id = i
    BY <2>1
  <2>3. QED
    BY <2>1, <2>2, CallsType
<1>4. Numbers \subseteq Numbers' /\ m \in Numbers' /\ m \notin Numbers /\ m # NoUpdate
  BY <1>2, <1>3 DEF Numbers
<1>5. Typed' /\ TypeOK'
  <2>1. CASE LazyUpdate(i, action)
    BY <1>0, <2>1, TypedNext DEF LazyUpdate, Typed
  <2>2. CASE RealtimeUpdate(i, action)
    <3>1. UNCHANGED <<saveQueue, insertDir, deleting, passVars, lifeVars, callerVars, index, visible>>
      BY <2>2, PatchesTyped DEF RealtimeUpdate, solrVars
    <3>2. searcherDue' \in BOOLEAN
      BY <1>0, <2>2, PatchesTyped DEF RealtimeUpdate, solrVars, TypeOK
    <3>3. QED
      BY <1>0, <3>1, <3>2, AsideTyped
  <2>3. QED
    BY <2>1, <2>2
<1>6. /\ updateQueue' \in [Keys -> Numbers']
      /\ \A k \in Keys : \/ updateQueue'[k] = updateQueue[k]
                         \/ updateQueue'[k] = m /\ k = KeyOf(i, action, now)
  <2>1. updateQueue \in [Keys -> Numbers]
    BY DEF UpdateTyped
  <2>2. updateQueue' = updateQueue \/ updateQueue' = [updateQueue EXCEPT ![KeyOf(i, action, now)] = m]
    BY <1>3 DEF LazyUpdate, RealtimeUpdate
  <2>3. QED
    BY <1>3, <1>4, <2>1, <2>2
<1>7. /\ patches' \in [Ids -> SUBSET (1 .. m)]
      /\ \A j \in Ids : \A n \in patches'[j] : n \in patches[j] \/ (n = m /\ j = i)
  <2>1. patches \in [Ids -> SUBSET (1 .. m)] /\ m \in 1 .. m
    BY <1>2, <1>3 DEF UpdateTyped
  <2>2. CASE UNCHANGED patches
    BY <2>1, <2>2
  <2>3. CASE SolrPatches(i, m, action)
    <3>1. patches' = [patches EXCEPT ![i] = IF action = "set" THEN {m} ELSE @ \cup {m}]
      BY <2>3, PatchesTyped
    <3>2. QED
      BY <2>1, <3>1
  <2>4. QED
    BY <1>3, <2>2, <2>3 DEF LazyUpdate, RealtimeUpdate
<1>8. UNCHANGED <<now, updateDir, upc, ahead, sending, upCounter>>
  BY DEF LazyUpdate, RealtimeUpdate
<1>9. UpdateTypeOK'
  <2>1. \A k \in Keys : updateQueue[k] \in Numbers /\ updateDir[k] \in Numbers
    BY DEF UpdateTyped
  <2>2. ASSUME NEW k \in Keys, NEW n, n = updateQueue'[k], n # NoUpdate PROVE Key(n)' = k
    BY <1>0, <1>3, <1>6, <2>1, <2>2 DEF UpdateTypeOK, Numbers
  <2>3. ASSUME NEW k \in Keys, NEW n, n = updateDir'[k], n # NoUpdate PROVE Key(n)' = k
    BY <1>0, <1>3, <1>8, <2>1, <2>3 DEF UpdateTypeOK, Numbers
  <2>4. ASSUME NEW n, n = sending'.update, sending' # NotSending PROVE Key(n)' = sending'.key
    BY <1>0, <1>3, <1>8, <2>4 DEF UpdateTypeOK, UpdateTyped
  <2>5. ASSUME NEW j \in Ids, NEW n \in patches'[j] PROVE calls'[n].id = j
    BY <1>0, <1>3, <1>7 DEF UpdateTypeOK, UpdateTyped
  <2>6. QED
    BY <1>0, <1>3, <1>5, <1>8, <2>2, <2>3, <2>4, <2>5 DEF UpdateTypeOK, CallRecord, Key
<1>10. /\ updateDir' \in [Keys -> Numbers']
       /\ sending.update \in 1 .. Len(calls) => sending.update \in 1 .. m
  <2>1. updateDir \in [Keys -> Numbers]
    BY DEF UpdateTyped
  <2>2. updateDir' \in [Keys -> Numbers']
    BY <1>4, <1>8, <2>1
  <2>3. QED
    BY <1>2, <1>3, <2>2
<1>11. QED
  BY <1>3, <1>5, <1>6, <1>7, <1>8, <1>9, <1>10 DEF UpdateTyped

\* A step of the update pass keeps the types.
LEMMA UpdatePassTyped == ASSUME UpdateTyped, UpdatePass PROVE UpdateTyped'
<1>0. /\ Typed /\ UpdateTypeOK /\ TypeOK
      /\ updateQueue \in [Keys -> Numbers] /\ updateDir \in [Keys -> Numbers]
      /\ patches \in [Ids -> SUBSET (1 .. Len(calls))]
      /\ upCounter \in 0 .. CommitEvery
  BY DEF UpdateTyped, UpdateTypeOK, Typed
<1>1. UNCHANGED <<calls, now>>
  BY DEF UpdatePass, BeginUpdates, LoadUpdates, OpenUpdates, NextUpdate, SendUpdate, UpdateFails,
         RemoveUpdate, CommitUpdates, FinishUpdates
<1>2. Numbers' = Numbers
  BY <1>1 DEF Numbers
<1>3. UNCHANGED vars => Typed' /\ TypeOK'
  BY <1>0, TypedNext DEF Typed
<1>4. NoUpdate \in Numbers
  BY CallsType DEF Numbers
<1> DEFINE
  DocsOK    == Typed' /\ TypeOK'
  QueueOK   == /\ updateQueue' \in [Keys -> Numbers]
               /\ \A k \in Keys : updateQueue'[k] \in {updateQueue[k], NoUpdate}
  FilesOK   == /\ updateDir' \in [Keys -> Numbers]
               /\ \A k \in Keys : \/ updateDir'[k] \in {updateDir[k], NoUpdate}
                                  \/ Key(updateDir'[k]) = k
  PatchesOK == /\ patches' \in [Ids -> SUBSET (1 .. Len(calls))]
               /\ \A i \in Ids : \A n \in patches'[i] : calls[n].id = i
  PlaceOK   == /\ upc' \in {"rest", "load", "open", "next", "send", "remove", "commit"}
               /\ ahead' \subseteq Keys
  HandOK    == IF upc' \in {"send", "remove"}
               THEN /\ sending'.key \in Keys /\ sending'.update \in 1 .. Len(calls)
                    /\ Key(sending'.update) = sending'.key
               ELSE sending' = NotSending
  CountOK   == upCounter' \in 0 .. CommitEvery /\ (upc' # "commit" => upCounter' < CommitEvery)
<1>5. ASSUME DocsOK, QueueOK, FilesOK, PatchesOK, PlaceOK, HandOK, CountOK PROVE UpdateTyped'
  <2>1. \A k \in Keys : updateQueue'[k] # NoUpdate => Key(updateQueue'[k]) = k
    BY <1>0, <1>5 DEF UpdateTypeOK
  <2>2. \A k \in Keys : updateDir'[k] # NoUpdate => Key(updateDir'[k]) = k
    BY <1>0, <1>5 DEF UpdateTypeOK
  <2>3. sending' # NotSending => Key(sending'.update) = sending'.key
    BY <1>5
  <2>4. UpdateTypeOK'
    BY <1>0, <1>1, <1>5, <2>1, <2>2, <2>3 DEF UpdateTypeOK, Key
  <2>5. QED
    BY <1>1, <1>2, <1>5, <2>4 DEF UpdateTyped
<1>a. upc \notin {"send", "remove"} => sending = NotSending
  BY DEF UpdateTyped
<1>b. /\ \A i \in Ids : \A n \in patches[i] : calls[n].id = i
      /\ upc # "commit" => upCounter < CommitEvery
      /\ 0 \in 0 .. CommitEvery /\ 0 < CommitEvery
  BY DEF UpdateTyped, UpdateTypeOK
<1>c. upc \in {"send", "remove"} =>
         /\ sending.key \in Keys /\ sending.update \in 1 .. Len(calls) /\ sending # NotSending
         /\ Key(sending.update) = sending.key
  <2>1. NoKey \notin Keys
    BY DEF NoKey, Keys, KeyOf
  <2>2. NotSending.key = NoKey
    BY DEF NotSending
  <2>3. QED
    BY <1>0, <2>1, <2>2 DEF UpdateTyped, UpdateTypeOK
<1>d. UNCHANGED updateQueue => QueueOK
  BY <1>0
<1>e. UNCHANGED updateDir => FilesOK
  BY <1>0
<1>f. UNCHANGED patches => PatchesOK
  BY <1>0, <1>b
<1>g. UNCHANGED vars => DocsOK
  BY <1>3
<1>h. ahead' \subseteq ahead => ahead' \subseteq Keys
  BY <1>0 DEF UpdateTypeOK
<1>i. UNCHANGED upCounter /\ upc # "commit" => CountOK
  BY <1>0, <1>b
<1> HIDE DEF DocsOK, QueueOK, FilesOK, PatchesOK
<1>6. CASE BeginUpdates
  BY <1>5, <1>6, <1>a, <1>d, <1>e, <1>f, <1>g, <1>h, <1>i DEF BeginUpdates, Updating
<1>7. CASE LoadUpdates
  <2>1. updateDir' \in [Keys -> Numbers] /\ \A k \in Keys : updateDir'[k] = NoUpdate
    BY <1>4, <1>7 DEF LoadUpdates, NoUpdates
  <2>2. FilesOK
    BY <2>1 DEF FilesOK
  <2>3. QED
    BY <1>5, <1>7, <1>a, <1>d, <1>f, <1>g, <1>h, <1>i, <2>2 DEF LoadUpdates, Updating
<1>8. CASE OpenUpdates
  BY <1>5, <1>8, <1>a, <1>d, <1>e, <1>f, <1>g, <1>i DEF OpenUpdates, Updating
<1>9. CASE NextUpdate
  <2>1. PICK k \in Waiting \cap ahead : sending' = [key |-> k, update |-> updateQueue[k]]
    BY <1>9 DEF NextUpdate
  <2>2. ahead' \subseteq Keys
    BY <1>0, <1>9 DEF NextUpdate, UpdateTypeOK
  <2>3. /\ k \in Keys /\ updateQueue[k] \in 1 .. Len(calls) /\ Key(updateQueue[k]) = k
    BY <1>0, CallsType DEF Waiting, Numbers, UpdateTypeOK
  <2>4. /\ sending'.key \in Keys /\ sending'.update \in 1 .. Len(calls)
        /\ Key(sending'.update) = sending'.key
    BY <2>1, <2>3
  <2>5. upc' = "send" /\ upc = "next" /\ UNCHANGED <<vars, updateQueue, updateDir, upCounter, patches>>
    BY <1>9 DEF NextUpdate, Updating
  <2>6. QED
    BY <1>5, <1>d, <1>e, <1>f, <1>g, <1>i, <2>2, <2>4, <2>5
<1>10. CASE SendUpdate \/ UpdateFails
  <2>1. /\ upc = "send" /\ upc' = "remove"
        /\ UNCHANGED <<saveQueue, insertDir, deleting, passVars, lifeVars, callerVars,
                       updateQueue, ahead, sending, upCounter>>
    BY <1>10 DEF SendUpdate, UpdateFails, Updating
  <2>2. PICK s \in 1 .. Len(calls) : s = sending.update
    BY <1>c, <2>1
  <2>3. calls[s].id \in Ids
    BY CallsType
  <2>4. \/ SolrPatches(calls[s].id, s, calls[s].action)
        \/ UNCHANGED <<solrVars, patches>>
    BY <1>10, <2>2 DEF SendUpdate, UpdateFails
  <2>5. index' = index /\ visible' = visible /\ searcherDue' \in BOOLEAN
    BY <1>0, <2>3, <2>4, PatchesTyped DEF solrVars, TypeOK
  <2>6. Typed' /\ TypeOK'
    BY <1>0, <2>1, <2>5, AsideTyped
  <2>7. \/ patches' = patches
        \/ patches' = [patches EXCEPT ![calls[s].id] = IF calls[s].action = "set" THEN {s}
                                                       ELSE @ \cup {s}]
    BY <2>3, <2>4, PatchesTyped
  <2>8. patches' \in [Ids -> SUBSET (1 .. Len(calls))]
    BY <1>0, <2>3, <2>7
  <2>9. \A i \in Ids : \A n \in patches'[i] : calls[n].id = i
    BY <1>0, <1>b, <2>3, <2>7
  <2>10. updateDir' = updateDir \/ updateDir' = [updateDir EXCEPT ![sending.key] = sending.update]
    BY <1>10 DEF SendUpdate, UpdateFails
  <2>11. /\ updateDir' \in [Keys -> Numbers]
         /\ \A k \in Keys : \/ updateDir'[k] = updateDir[k]
                            \/ k = sending.key /\ updateDir'[k] = sending.update
    <3>1. sending.key \in Keys /\ sending.update \in Numbers
      BY <1>c, <2>1 DEF Numbers
    <3>2. QED
      BY <1>0, <2>10, <3>1
  <2>12. DocsOK /\ PatchesOK /\ FilesOK
    BY <1>c, <2>1, <2>6, <2>8, <2>9, <2>11 DEF DocsOK, PatchesOK, FilesOK
  <2>13. HandOK /\ CountOK
    BY <1>c, <1>i, <2>1
  <2>14. QED
    BY <1>5, <1>d, <1>h, <2>1, <2>12, <2>13
<1>11. CASE RemoveUpdate
  <2>1. /\ upc = "remove" /\ upc' \in {"commit", "next"} /\ sending' = NotSending
        /\ updateQueue' = [updateQueue EXCEPT ![sending.key] = NoUpdate]
        /\ upCounter' = upCounter + 1 /\ (upc' # "commit" => upCounter' < CommitEvery)
        /\ UNCHANGED <<vars, updateDir, ahead, patches>>
    BY <1>0, <1>11 DEF RemoveUpdate, Taken, Updating, CommitDue
  <2>2. upCounter' \in 0 .. CommitEvery
    BY <1>0, <1>b, <2>1
  <2>3. /\ updateQueue' \in [Keys -> Numbers]
        /\ \A k \in Keys : updateQueue'[k] \in {updateQueue[k], NoUpdate}
    BY <1>0, <1>4, <2>1
  <2>4. QueueOK
    BY <2>3 DEF QueueOK
  <2>5. QED
    BY <1>5, <1>e, <1>f, <1>g, <1>h, <2>1, <2>2, <2>4
<1>12. CASE CommitUpdates \/ FinishUpdates
  <2>1. /\ UNCHANGED <<saveQueue, insertDir, deleting, passVars, index, visible, lifeVars, callerVars>>
        /\ searcherDue' \in BOOLEAN
    BY <1>0, <1>12 DEF CommitUpdates, FinishUpdates, Commit, TypeOK
  <2>2. Typed' /\ TypeOK'
    BY <1>0, <2>1, AsideTyped
  <2>3. /\ upc \notin {"send", "remove"} /\ upc' \in {"rest", "next"}
        /\ upCounter' = 0 /\ sending' \in {sending, NotSending} /\ ahead' \in {ahead, {}}
        /\ UNCHANGED <<updateQueue, updateDir, patches>>
    BY <1>12 DEF CommitUpdates, FinishUpdates, EndUpdates, Updating
  <2>4. DocsOK
    BY <2>2 DEF DocsOK
  <2>5. ahead' \subseteq Keys
    BY <1>h, <2>3
  <2>6. QED
    BY <1>5, <1>a, <1>b, <1>d, <1>e, <1>f, <2>3, <2>4, <2>5
<1>13. QED
  BY <1>6, <1>7, <1>8, <1>9, <1>10, <1>11, <1>12 DEF UpdatePass

\* Every step keeps the types.
LEMMA UpdateTypedNext == UpdateTyped /\ [UpdateNext]_allVars => UpdateTyped'
<1> SUFFICES ASSUME UpdateTyped, [UpdateNext]_allVars PROVE UpdateTyped'
  OBVIOUS
<1>0. /\ Typed /\ UpdateTypeOK /\ TypeOK
      /\ patches \in [Ids -> SUBSET (1 .. Len(calls))]
  BY DEF UpdateTyped, Typed
<1>1. [Next]_vars => Typed'
  BY <1>0, TypedNext
<1>2. DropPatches => /\ \A i \in Ids : patches'[i] \subseteq patches[i]
                     /\ patches' = [i \in Ids |-> patches'[i]]
  BY DEF DropPatches
<1>3. CASE StoreQueue
  <2>1. /\ Typed' /\ DropPatches /\ upc' \in {upc, "begin"} /\ upc = "rest"
        /\ UNCHANGED <<calls, now, updateQueue, updateDir, ahead, sending, upCounter>>
    BY <1>1, <1>3 DEF StoreQueue, ThenUpdates, Next
  <2>2. QED
    BY <1>2, <2>1, DocumentsTyped
<1>4. CASE Others
  <2>1. /\ Typed' /\ DropPatches /\ upc' = upc
        /\ UNCHANGED <<calls, now, updateQueue, updateDir, ahead, sending, upCounter>>
    BY <1>1, <1>4 DEF Others, Next
  <2>2. QED
    BY <1>2, <2>1, DocumentsTyped
<1>5. CASE ExitWithUpdates
  <2>1. Typed' /\ TypeOK'
    BY <1>1, <1>5 DEF ExitWithUpdates, Next, Living, Typed
  <2>2. /\ updateQueue' = NoUpdates /\ upc' = "rest" /\ ahead' = {} /\ sending' = NotSending
        /\ upCounter' = 0 /\ UNCHANGED <<calls, now, updateDir, patches>>
    BY <1>5 DEF ExitWithUpdates, EndUpdates
  <2>3. updateQueue' \in [Keys -> Numbers] /\ \A k \in Keys : updateQueue'[k] = NoUpdate
    BY <2>2, CallsType DEF NoUpdates, Numbers
  <2>4. 0 \in 0 .. CommitEvery /\ 0 < CommitEvery
    OBVIOUS
  <2>5. UpdateTypeOK'
    BY <1>0, <2>1, <2>2, <2>3, <2>4 DEF UpdateTypeOK, Key
  <2>6. QED
    BY <2>1, <2>2, <2>3, <2>4, <2>5 DEF UpdateTyped, Numbers
<1>6. CASE Tick
  <2>1. /\ Typed' /\ TypeOK' /\ now' \in 1 .. MaxTime
        /\ UNCHANGED <<calls, updateQueue, updateDir, upc, ahead, sending, upCounter, patches>>
    BY <1>0, <1>1, <1>6 DEF Tick, Typed, UpdateTypeOK
  <2>2. UpdateTypeOK'
    BY <1>0, <2>1 DEF UpdateTypeOK, Key
  <2>3. QED
    BY <2>1, <2>2 DEF UpdateTyped, Numbers
<1>7. CASE UNCHANGED allVars
  <2>1. /\ Typed' /\ upc' = upc /\ patches' = patches
        /\ UNCHANGED <<calls, now, updateQueue, updateDir, ahead, sending, upCounter>>
    BY <1>1, <1>7 DEF allVars, updateVars
  <2>2. QED
    BY <1>0, <2>1, DocumentsTyped
<1>8. QED
  BY <1>3, <1>4, <1>5, <1>6, <1>7, CallsTyped, UpdatePassTyped DEF UpdateNext

\* Every variable keeps its type, in every environment: what is queued, in a file, in
\* hand or in Solr is an update of a call, under the key of its call.
THEOREM UpdateTypeCorrect == UpdateSpec => []UpdateTypeOK
<1>1. UpdateTyped => UpdateTypeOK
  BY DEF UpdateTyped
<1>2. QED
  BY <1>1, UpdateTypedInit, UpdateTypedNext, PTL DEF UpdateSpec

-----------------------------------------------------------------------------
(***************************************************************************)
(* Numbers grow along the way of a key, file, hand, queue: what waits was  *)
(* not sent before, and is newer than what was.                            *)
(***************************************************************************)
SavedBefore == /\ \A i \in gone : saved[i] # None
               /\ \A n \in 1 .. Len(calls) : calls[n].saved <= saved[calls[n].id]

PatchedOnly == \A i \in Ids : patches[i] # {} => index[i] # None

SentOnce == \A i \in Ids :
    /\ \A k \in Keys : updateQueue[k] \in patches[i] =>
                           upc = "remove" /\ sending.update = updateQueue[k]
    /\ upc = "send" => sending.update \notin patches[i]

NewestQueued == /\ \A k \in Keys : updateQueue[k] # NoUpdate => updateDir[k] <= updateQueue[k]
                /\ upc = "send" => /\ updateDir[sending.key] <= sending.update
                                   /\ sending.update <= updateQueue[sending.key]

SetsFollow == \A i \in Ids : \A m \in patches[i] : calls[m].lazy /\ calls[m].action = "set" =>
    /\ updateQueue[Key(m)] # NoUpdate => m <= updateQueue[Key(m)]
    /\ upc = "send" /\ sending.key = Key(m) => m <= sending.update

WayInv == SavedBefore /\ PatchedOnly /\ SentOnce /\ NewestQueued /\ SetsFollow

\* What the types say of numbers, put pointwise.
LEMMA WayTypes ==
    ASSUME UpdateTyped
    PROVE  /\ Len(calls) \in Nat /\ DOMAIN calls = 1 .. Len(calls) /\ NoUpdate \notin 1 .. Len(calls)
           /\ \A n \in 1 .. Len(calls) : calls[n].id \in Ids /\ calls[n].saved \in Docs /\ Key(n) \in Keys
           /\ \A k \in Keys : updateQueue[k] \in Numbers /\ updateDir[k] \in Numbers
           /\ \A k \in Keys : updateQueue[k] # NoUpdate => Key(updateQueue[k]) = k
           /\ \A k \in Keys : updateDir[k] # NoUpdate => Key(updateDir[k]) = k
           /\ \A i \in Ids : patches[i] \subseteq 1 .. Len(calls)
           /\ \A i \in Ids : \A n \in patches[i] : calls[n].id = i
           /\ upc \in {"send", "remove"} => /\ sending.key \in Keys
                                            /\ sending.update \in 1 .. Len(calls)
                                            /\ Key(sending.update) = sending.key
           /\ Typed /\ TypeOK
           /\ \A i \in Ids : index[i] \in Nat /\ saved[i] \in Nat /\ saveQueue[i] \in Nat
<1>1. UpdateTypeOK /\ Typed /\ TypeOK
  BY DEF UpdateTyped, Typed
<1>2. \A k \in Keys : updateQueue[k] \in Numbers /\ updateDir[k] \in Numbers
  BY DEF UpdateTyped
<1>3. \A i \in Ids : patches[i] \subseteq 1 .. Len(calls)
  BY DEF UpdateTyped
<1>4. upc \in {"send", "remove"} => /\ sending.key \in Keys
                                    /\ sending.update \in 1 .. Len(calls)
                                    /\ Key(sending.update) = sending.key
  <2>1. NoKey \notin Keys /\ NotSending.key = NoKey
    BY DEF NoKey, Keys, KeyOf, NotSending
  <2>2. QED
    BY <1>1, <2>1 DEF UpdateTyped, UpdateTypeOK
<1>5. \A i \in Ids : index[i] \in Nat /\ saved[i] \in Nat /\ saveQueue[i] \in Nat
  BY <1>1 DEF TypeOK, Slot, Docs
<1>6. /\ \A k \in Keys : updateQueue[k] # NoUpdate => Key(updateQueue[k]) = k
      /\ \A k \in Keys : updateDir[k] # NoUpdate => Key(updateDir[k]) = k
      /\ \A i \in Ids : \A n \in patches[i] : calls[n].id = i
  BY <1>1 DEF UpdateTypeOK
<1>7. QED
  BY <1>1, <1>2, <1>3, <1>4, <1>5, <1>6, CallsType

\* What a step of the documents may do to the versions of an id.
LEMMA VersionsStep ==
    ASSUME Typed, OrderInv, SavedBefore, [Next]_vars
    PROVE  /\ OrderInv'
           /\ \A i \in Ids : /\ index'[i] \in {index[i], None} \/ index[i] <= index'[i]
                             /\ index'[i] <= saved'[i] /\ saved[i] <= saved'[i]
                             /\ i \in gone => i \in gone' \/ saved[i] < saved'[i]
                             /\ i \in gone' => saved'[i] # None
<1>1. OrderInv'
  BY OrderNext
<1>2. TypeOK
  BY DEF Typed
<1>3. \A i \in Ids : saved[i] \in Nat /\ index[i] \in Nat
  BY <1>2 DEF TypeOK, Slot, Docs
<1>4. \A i \in Ids : /\ index'[i] \in {index[i], None} \/ index[i] <= index'[i]
                     /\ saved[i] <= saved'[i]
  <2>1. [Promise!Next]_(Promise!vars)
    BY StepKept
  <2>2. CASE UNCHANGED Promise!vars
    BY <1>3, <2>2 DEF Promise!vars
  <2>3. ASSUME NEW j \in Ids, Promise!Save(j)
        PROVE  \A i \in Ids : index'[i] = index[i] /\ saved[i] <= saved'[i]
    BY <1>2, <1>3, <2>3 DEF Promise!Save, TypeOK
  <2>4. ASSUME NEW j \in Ids, NEW d \in 1 .. saved[j], Promise!Index(j, d)
        PROVE  \A i \in Ids : index[i] <= index'[i] /\ saved[i] <= saved'[i]
    BY <1>2, <1>3, <2>4 DEF Promise!Index, TypeOK
  <2>5. ASSUME NEW S \in SUBSET Ids, Promise!Delete(S)
        PROVE  \A i \in Ids : index'[i] \in {index[i], None} /\ saved[i] <= saved'[i]
    BY <1>3, <2>5 DEF Promise!Delete
  <2>6. CASE Promise!Refresh
    BY <1>3, <2>6 DEF Promise!Refresh
  <2>7. QED
    BY <2>1, <2>2, <2>3, <2>4, <2>5, <2>6 DEF Promise!Next
<1>5. \A i \in Ids : index'[i] <= saved'[i]
  BY <1>1 DEF OrderInv, StoreOrder
<1>6. \A i \in Ids : /\ i \in gone => i \in gone' \/ saved[i] < saved'[i]
                     /\ i \in gone' => saved'[i] # None
  <2>1. ASSUME NEW j \in Ids, SaveNext(j) PROVE <1>6
    <3>1. saved' = [saved EXCEPT ![j] = saved[j] + 1] /\ gone' = gone \ {j}
      BY <2>1 DEF SaveNext, Save
    <3>2. QED
      BY <1>2, <1>3, <3>1 DEF SavedBefore, TypeOK
  <2>2. ASSUME NEW j \in Ids, DeleteSaved(j) PROVE <1>6
    BY <2>2 DEF DeleteSaved, DeleteQueued, SavedBefore
  <2>3. CASE DeleteByQuery
    BY <2>3 DEF DeleteByQuery, SavedBefore
  <2>4. CASE UNCHANGED <<saved, gone>>
    BY <2>4 DEF SavedBefore
  <2>5. (\E j \in Ids : DeleteInSolr(j) \/ DeleteFails(j)) \/ Pass \/ OpenSearcher \/ Living
            \/ UNCHANGED vars => UNCHANGED <<saved, gone>>
    BY DEF DeleteInSolr, DeleteFails, Pass, BeginPass, LoadFromTemp, OpenIterator, NextEntry,
           StoreAccepted, StoreFails, StoreThrows, RemoveEntry, BatchCommit, FinalCommit,
           OpenSearcher, Living, BeginDestroy, DestroyEntry, CloseClient, Exit, Restart,
           callerVars, vars
  <2>6. QED
    BY <2>1, <2>2, <2>3, <2>4, <2>5 DEF Next, Calling
<1>7. QED
  BY <1>1, <1>4, <1>5, <1>6

\* The steps that are not of the updates' own: the documents' and time's.
Beside == /\ [Next]_vars /\ DropPatches
          /\ upc' = upc \/ (upc = "rest" /\ upc' = "begin" /\ pc' = "idle")
          /\ UNCHANGED <<calls, updateQueue, updateDir, sending>>

\* An update leaves these of the documents alone.
Aside == UNCHANGED <<saveQueue, deleting, pc, iter, entry, counter, index, visible, mode, saved, gone>>

\* A step of the updates' own leaves the documents alone.
LEMMA UpdatesAside ==
    ASSUME UpdateTyped,
           UpdatePass \/ \E i \in Ids, a \in Actions : LazyUpdate(i, a) \/ RealtimeUpdate(i, a)
    PROVE  Aside
<1>1. UNCHANGED vars => Aside
  BY DEF vars, passVars, solrVars, lifeVars, callerVars, Aside
<1>2. ASSUME NEW i \in Ids, NEW n, NEW a, SolrPatches(i, n, a)
      PROVE  UNCHANGED <<index, visible>>
  BY <1>2, PatchesTyped
<1>3. ASSUME NEW i \in Ids, NEW a \in Actions, LazyUpdate(i, a)
      PROVE  Aside
  BY <1>1, <1>3 DEF LazyUpdate
<1>4. ASSUME NEW i \in Ids, NEW a \in Actions, RealtimeUpdate(i, a)
      PROVE  Aside
  <2>1. UNCHANGED <<index, visible>>
    BY <1>2, <1>4 DEF RealtimeUpdate, solrVars
  <2>2. QED
    BY <1>4, <2>1 DEF RealtimeUpdate, passVars, lifeVars, callerVars, Aside
<1>5. CASE BeginUpdates \/ LoadUpdates \/ OpenUpdates \/ NextUpdate \/ RemoveUpdate
  BY <1>1, <1>5 DEF BeginUpdates, LoadUpdates, OpenUpdates, NextUpdate, RemoveUpdate
<1>6. CASE SendUpdate \/ UpdateFails
  <2>1. calls[sending.update].id \in Ids
    BY <1>6, WayTypes DEF SendUpdate, UpdateFails, Updating
  <2>2. UNCHANGED <<index, visible>>
    BY <1>2, <1>6, <2>1 DEF SendUpdate, UpdateFails, solrVars
  <2>3. QED
    BY <1>6, <2>2 DEF SendUpdate, UpdateFails, passVars, lifeVars, callerVars, Aside
<1>7. CASE CommitUpdates \/ FinishUpdates
  BY <1>7 DEF CommitUpdates, FinishUpdates, passVars, lifeVars, callerVars, Aside
<1>8. QED
  BY <1>3, <1>4, <1>5, <1>6, <1>7 DEF UpdatePass

\* The steps are of four kinds.
LEMMA StepKinds ==
    ASSUME UpdateTyped, [UpdateNext]_allVars
    PROVE  \/ Beside \/ ExitWithUpdates
           \/ Aside /\ \E i \in Ids, a \in Actions : LazyUpdate(i, a) \/ RealtimeUpdate(i, a)
           \/ Aside /\ UpdatePass
<1>1. CASE StoreQueue
  BY <1>1 DEF StoreQueue, ThenUpdates, Beside, Next
<1>2. CASE Others
  BY <1>2 DEF Others, Beside, Next
<1>3. UNCHANGED <<vars, patches>> => DropPatches
  BY DEF vars, solrVars, DropPatches, UpdateTyped
<1>4. CASE Tick
  BY <1>3, <1>4 DEF Tick, Beside
<1>5. CASE UNCHANGED allVars
  BY <1>3, <1>5 DEF allVars, updateVars, Beside
<1>6. QED
  BY <1>1, <1>2, <1>4, <1>5, UpdatesAside DEF UpdateNext

\* Nothing is on its way at the start.
LEMMA WayInit == UpdateInit => WayInv
<1> SUFFICES ASSUME UpdateInit PROVE WayInv
  OBVIOUS
<1>1. gone = {} /\ upc = "rest" /\ \A i \in Ids : patches[i] = {}
  BY DEF UpdateInit, Init
<1>2. \A k \in Keys : updateQueue[k] = NoUpdate
  BY DEF UpdateInit, NoUpdates
<1>3. calls = <<>> /\ Len(calls) = 0
  BY DEF UpdateInit
<1>4. SavedBefore
  BY <1>1, <1>3 DEF SavedBefore
<1>5. PatchedOnly /\ SentOnce /\ SetsFollow
  BY <1>1 DEF PatchedOnly, SentOnce, SetsFollow
<1>6. NewestQueued
  BY <1>1, <1>2 DEF NewestQueued
<1>7. QED
  BY <1>4, <1>5, <1>6 DEF WayInv

\* The documents and time keep updates in order.
LEMMA WayBeside ==
    ASSUME UpdateTyped, OrderInv, WayInv, Beside
    PROVE  OrderInv' /\ WayInv'
<1>1. /\ OrderInv'
      /\ \A i \in Ids : /\ saved[i] \in Nat /\ saved'[i] \in Nat /\ saved[i] <= saved'[i]
                        /\ i \in gone' => saved'[i] # None
  <2>1. Typed /\ SavedBefore /\ [Next]_vars
    BY WayTypes DEF Beside, WayInv
  <2>2. Typed'
    BY <2>1, TypedNext
  <2>3. \A i \in Ids : saved[i] \in Nat /\ saved'[i] \in Nat
    BY <2>1, <2>2 DEF Typed, TypeOK, Slot, Docs
  <2>4. QED
    BY <2>1, <2>3, VersionsStep
<1>2. UNCHANGED <<calls, updateQueue, updateDir, sending>> /\ \A m : Key(m)' = Key(m)
  BY DEF Beside, Key, KeyOf
<1>3. upc' = upc \/ (upc = "rest" /\ upc' = "begin")
  BY DEF Beside
<1>4. \A i \in Ids : patches'[i] \subseteq patches[i] /\ (patches'[i] # {} => index'[i] = index[i])
  BY DEF Beside, DropPatches
<1>5. SavedBefore'
  <2>1. \A i \in gone' : saved'[i] # None
    BY <1>1, TypedNext, WayTypes DEF Beside, Typed, TypeOK
  <2>2. ASSUME NEW n \in 1 .. Len(calls) PROVE calls[n].saved <= saved'[calls[n].id]
    <3>1. calls[n].id \in Ids /\ calls[n].saved \in Nat /\ calls[n].saved <= saved[calls[n].id]
      BY WayTypes DEF Docs, WayInv, SavedBefore
    <3>2. QED
      BY <1>1, <3>1
  <2>3. QED
    BY <1>2, <2>1, <2>2 DEF SavedBefore
<1>6. PatchedOnly'
  BY <1>4 DEF WayInv, PatchedOnly
<1>7. SentOnce'
  BY <1>2, <1>3, <1>4 DEF WayInv, SentOnce
<1>8. NewestQueued'
  BY <1>2, <1>3 DEF WayInv, NewestQueued
<1>9. SetsFollow'
  BY <1>2, <1>3, <1>4 DEF WayInv, SetsFollow
<1>10. QED
  BY <1>1, <1>5, <1>6, <1>7, <1>8, <1>9 DEF WayInv

\* The end of the process leaves no update that waits.
LEMMA WayExit ==
    ASSUME UpdateTyped, OrderInv, WayInv, ExitWithUpdates
    PROVE  OrderInv' /\ WayInv'
<1>1. OrderInv'
  BY WayTypes, OrderNext DEF ExitWithUpdates, Next, Living
<1>2. /\ UNCHANGED <<calls, updateDir, patches, index, saved, gone>> /\ \A m : Key(m)' = Key(m)
      /\ upc' = "rest" /\ \A k \in Keys : updateQueue'[k] = NoUpdate
  BY DEF ExitWithUpdates, Exit, EndUpdates, solrVars, callerVars, NoUpdates, Key, KeyOf
<1>3. \A i \in Ids : NoUpdate \notin patches[i]
  BY WayTypes
<1>4. SavedBefore' /\ PatchedOnly'
  BY <1>2 DEF WayInv, SavedBefore, PatchedOnly
<1>5. SentOnce' /\ NewestQueued' /\ SetsFollow'
  <2>1. SentOnce' /\ NewestQueued'
    BY <1>2, <1>3 DEF SentOnce, NewestQueued
  <2>2. ASSUME NEW i \in Ids, NEW m \in patches[i] PROVE Key(m) \in Keys
    BY <2>2, WayTypes
  <2>3. SetsFollow'
    BY <1>2, <2>2 DEF SetsFollow
  <2>4. QED
    BY <2>1, <2>3
<1>6. QED
  BY <1>1, <1>4, <1>5 DEF WayInv

\* Nothing the order of versions speaks of changes for an update.
LEMMA AsideOrder == ASSUME OrderInv, Aside PROVE OrderInv'
<1>1. StoreOrder' /\ EntryBehind'
  BY DEF Aside, OrderInv, StoreOrder, EntryBehind
<1>2. IterOrder' /\ EntryOrder'
  BY DEF Aside, OrderInv, IterOrder, EntryOrder, Newer
<1>3. QED
  BY <1>1, <1>2 DEF OrderInv

\* A call is the newest of its key.
LEMMA WayCall ==
    ASSUME UpdateTyped, OrderInv, WayInv, Aside, NEW i \in Ids, NEW action \in Actions,
           LazyUpdate(i, action) \/ RealtimeUpdate(i, action)
    PROVE  OrderInv' /\ WayInv'
<1>1. PICK lazy \in BOOLEAN : Call(i, action, lazy) /\ (lazy => LazyUpdate(i, action))
                              /\ (~lazy => RealtimeUpdate(i, action))
  BY DEF LazyUpdate, RealtimeUpdate
<1>2. PICK m \in Nat : m = Len(calls) + 1
  BY CallsType
<1>3. /\ Len(calls') = m /\ KeyOf(i, action, now) \in Keys
      /\ \A n \in 1 .. Len(calls) : calls'[n] = calls[n] /\ Key(n)' = Key(n) /\ n < m
      /\ calls'[m].id = i /\ calls'[m].saved = saved[i] /\ calls'[m].lazy = lazy
      /\ Key(m)' = KeyOf(i, action, now)
  <2>1. /\ Len(calls') = m /\ KeyOf(i, action, now) \in Keys
        /\ \A n \in 1 .. Len(calls) : calls'[n] = calls[n] /\ Key(n)' = Key(n)
        /\ calls'[m] = [id |-> i, action |-> action, lazy |-> lazy,
                        time |-> now, saved |-> saved[i]]
        /\ Key(m)' = KeyOf(i, action, now)
    BY <1>1, <1>2, CallAppends
  <2>2. QED
    BY <1>2, <2>1, CallsType
<1>4. \A n \in 1 .. m : n = m \/ n \in 1 .. Len(calls)
  BY <1>2, CallsType
<1>5. /\ \A j \in Ids : patches[j] \subseteq 1 .. Len(calls) /\ m \notin patches[j]
      /\ \A k \in Keys : updateQueue[k] \in Numbers /\ updateDir[k] \in Numbers
      /\ \A n \in Numbers : n \in Nat /\ n < m
      /\ upc = "send" => /\ sending.key \in Keys /\ sending.update \in 1 .. Len(calls)
  <2>1. \A n \in Numbers : n \in Nat /\ n < m
    BY <1>2, CallsType DEF Numbers
  <2>2. \A j \in Ids : patches[j] \subseteq 1 .. Len(calls) /\ m \notin patches[j]
    BY <1>2, WayTypes
  <2>3. QED
    BY <2>1, <2>2, WayTypes
<1>6. UNCHANGED <<saved, gone, index, updateDir, upc, sending>>
  BY DEF LazyUpdate, RealtimeUpdate, Aside
<1>7. SavedBefore'
  <2>1. ASSUME NEW n \in 1 .. m PROVE calls'[n].saved <= saved[calls'[n].id]
    <3>1. CASE n = m
      BY <1>3, <3>1, WayTypes
    <3>2. CASE n \in 1 .. Len(calls)
      BY <1>3, <3>2 DEF WayInv, SavedBefore
    <3>3. QED
      BY <1>4, <3>1, <3>2
  <2>2. QED
    BY <1>3, <1>6, <2>1 DEF WayInv, SavedBefore
<1>8. /\ \A k \in Keys : \/ updateQueue'[k] = updateQueue[k]
                         \/ updateQueue'[k] = m
      /\ \A j \in Ids : \A n \in patches'[j] : n \in patches[j] \/ (n = m /\ j = i)
      /\ m \in patches'[i] => index[i] # None /\ UNCHANGED updateQueue /\ ~lazy
  <2>1. CASE lazy
    <3>1. /\ updateQueue' = [updateQueue EXCEPT ![KeyOf(i, action, now)] = m] /\ patches' = patches
      BY <1>1, <1>3, <2>1 DEF LazyUpdate
    <3>2. QED
      BY <1>5, <3>1, <2>1 DEF UpdateTyped
  <2>2. CASE ~lazy
    <3>1. /\ updateQueue' = updateQueue
          /\ patches' = patches \/ SolrPatches(i, m, action)
      BY <1>1, <1>3, <2>2 DEF RealtimeUpdate
    <3>2. CASE patches' = patches
      BY <1>5, <2>2, <3>1, <3>2
    <3>3. CASE SolrPatches(i, m, action)
      <4>1. /\ index[i] # None /\ patches'[i] \subseteq patches[i] \cup {m}
            /\ \A j \in Ids : j # i => patches'[j] = patches[j]
        BY <3>3, PatchesTyped
      <4>2. QED
        BY <2>2, <3>1, <4>1
    <3>4. QED
      BY <3>1, <3>2, <3>3
  <2>3. QED
    BY <2>1, <2>2
<1>9. PatchedOnly'
  BY <1>6, <1>8 DEF WayInv, PatchedOnly
<1>10. SentOnce'
  <2>1. ASSUME NEW j \in Ids, NEW k \in Keys, updateQueue'[k] \in patches'[j]
        PROVE  upc = "remove" /\ sending.update = updateQueue'[k]
    <3>1. updateQueue'[k] # m \/ updateQueue[k] # updateQueue'[k]
      BY <1>5
    <3>2. updateQueue'[k] # m
      BY <1>5, <1>8, <2>1, <3>1
    <3>3. updateQueue'[k] = updateQueue[k] /\ updateQueue[k] \in patches[j]
      BY <1>8, <2>1, <3>2
    <3>4. QED
      BY <3>3 DEF WayInv, SentOnce
  <2>2. ASSUME NEW j \in Ids, upc = "send" PROVE sending.update \notin patches'[j]
    <3>1. sending.update # m /\ sending.update \notin patches[j]
      BY <1>2, <1>3, <1>5, <2>2 DEF WayInv, SentOnce
    <3>2. QED
      BY <1>8, <3>1
  <2>3. QED
    BY <1>6, <2>1, <2>2 DEF SentOnce
<1>11. NewestQueued'
  <2>1. ASSUME NEW k \in Keys, updateQueue'[k] # NoUpdate PROVE updateDir[k] <= updateQueue'[k]
    BY <1>2, <1>5, <1>8, <2>1 DEF WayInv, NewestQueued
  <2>2. ASSUME upc = "send"
        PROVE  updateDir[sending.key] <= sending.update /\ sending.update <= updateQueue'[sending.key]
    BY <1>2, <1>3, <1>5, <1>8, <2>2 DEF WayInv, NewestQueued
  <2>3. QED
    BY <1>6, <2>1, <2>2 DEF NewestQueued
<1>12. SetsFollow'
  <2>1. ASSUME NEW j \in Ids, NEW n \in patches'[j], calls'[n].lazy, calls'[n].action = "set"
        PROVE  /\ updateQueue'[Key(n)'] # NoUpdate => n <= updateQueue'[Key(n)']
               /\ upc = "send" /\ sending.key = Key(n)' => n <= sending.update
    <3>1. n \in patches[j]
      BY <1>3, <1>8, <2>1
    <3>2. n \in 1 .. Len(calls) /\ calls'[n] = calls[n] /\ Key(n)' = Key(n) /\ Key(n) \in Keys /\ n < m
      BY <1>3, <1>5, <3>1, WayTypes
    <3>3. /\ updateQueue[Key(n)] # NoUpdate => n <= updateQueue[Key(n)]
          /\ upc = "send" /\ sending.key = Key(n) => n <= sending.update
      BY <2>1, <3>1, <3>2 DEF WayInv, SetsFollow
    <3>4. QED
      BY <1>2, <1>8, <3>2, <3>3
  <2>2. QED
    BY <1>6, <2>1 DEF SetsFollow
<1>13. QED
  BY <1>7, <1>9, <1>10, <1>11, <1>12, AsideOrder DEF WayInv

\* What a request with an update does, its answer lost or not.
Patching(s, i) ==
    /\ \A j \in Ids : patches'[j] \subseteq patches[j] \cup {s}
    /\ \A j \in Ids : j # i => patches'[j] = patches[j]
    /\ patches'[i] # patches[i] => s \in patches'[i] /\ index[i] # None
    /\ \A n \in patches[i] \ patches'[i] : s \in patches'[i] /\ calls[s].action = "set"

\* A request adds the update in hand to its document, or leaves the documents as they are.
LEMMA SendStep ==
    ASSUME UpdateTyped, SendUpdate \/ UpdateFails
    PROVE  /\ upc = "send" /\ upc' = "remove" /\ UNCHANGED <<updateQueue, sending, calls>>
           /\ Patching(sending.update, calls[sending.update].id)
           /\ SendUpdate => sending.update \in patches'[calls[sending.update].id]
           /\ SendUpdate => updateDir' = updateDir
           /\ UpdateFails => \/ updateDir' = [updateDir EXCEPT ![sending.key] = sending.update]
                             \/ "disk" \in Env /\ updateDir' = updateDir
<1>1. /\ upc = "send" /\ upc' = "remove" /\ UNCHANGED <<updateQueue, sending, calls>>
      /\ SendUpdate => updateDir' = updateDir
      /\ UpdateFails => \/ updateDir' = [updateDir EXCEPT ![sending.key] = sending.update]
                        \/ "disk" \in Env /\ updateDir' = updateDir
  BY DEF SendUpdate, UpdateFails, Updating
<1>2. PICK s \in 1 .. Len(calls) : s = sending.update
  BY <1>1, WayTypes
<1>3. PICK i \in Ids : i = calls[s].id
  BY CallsType
<1>4. SolrPatches(i, s, calls[s].action) => Patching(s, i) /\ s \in patches'[i]
  <2>1. ASSUME SolrPatches(i, s, calls[s].action)
        PROVE  /\ index[i] # None
               /\ \A j \in Ids : j # i => patches'[j] = patches[j]
               /\ patches'[i] = IF calls[s].action = "set" THEN {s} ELSE patches[i] \cup {s}
    BY <2>1, PatchesTyped
  <2>2. QED
    BY <2>1 DEF Patching
<1>5. UNCHANGED patches => Patching(s, i)
  BY DEF Patching
<1>6. /\ SolrPatches(i, s, calls[s].action) \/ UNCHANGED patches
      /\ SendUpdate => SolrPatches(i, s, calls[s].action)
  BY <1>2, <1>3 DEF SendUpdate, UpdateFails
<1>7. QED
  BY <1>1, <1>2, <1>3, <1>4, <1>5, <1>6

\* The pass of the updates keeps them in order.
LEMMA WayPass ==
    ASSUME UpdateTyped, OrderInv, WayInv, Aside, UpdatePass
    PROVE  OrderInv' /\ WayInv'
<1>1. UNCHANGED calls /\ \A n : Key(n)' = Key(n)
  BY DEF UpdatePass, BeginUpdates, LoadUpdates, OpenUpdates, NextUpdate, SendUpdate, UpdateFails,
         RemoveUpdate, CommitUpdates, FinishUpdates, Key, KeyOf
<1>2. SavedBefore'
  BY <1>1 DEF WayInv, SavedBefore, Aside
<1>3. /\ \A k \in Keys : updateQueue[k] \in Nat /\ updateDir[k] \in Nat
      /\ \A k \in Keys : updateQueue[k] # NoUpdate => Key(updateQueue[k]) = k
      /\ \A i \in Ids : \A n \in patches[i] : n \in Nat /\ n # NoUpdate /\ Key(n) \in Keys
  BY WayTypes DEF Numbers
<1>4. ASSUME UNCHANGED <<updateQueue, patches>>, upc \notin {"send", "remove"}, upc' # "send",
             \A k \in Keys : updateDir'[k] \in {updateDir[k], NoUpdate}
      PROVE  OrderInv' /\ WayInv'
  <2>1. PatchedOnly' /\ SentOnce' /\ SetsFollow'
    BY <1>1, <1>4 DEF WayInv, PatchedOnly, SentOnce, SetsFollow, Aside
  <2>2. NewestQueued'
    BY <1>3, <1>4 DEF WayInv, NewestQueued
  <2>3. QED
    BY <1>2, <2>1, <2>2, AsideOrder DEF WayInv
<1>5. CASE BeginUpdates \/ OpenUpdates \/ CommitUpdates \/ FinishUpdates
  BY <1>4, <1>5 DEF BeginUpdates, OpenUpdates, CommitUpdates, FinishUpdates, EndUpdates, Updating
<1>6. CASE LoadUpdates
  BY <1>4, <1>6 DEF LoadUpdates, NoUpdates, Updating
<1>7. CASE NextUpdate
  <2>1. PICK k \in Keys : updateQueue[k] # NoUpdate /\ sending'.key = k /\ sending'.update = updateQueue[k]
    BY <1>7 DEF NextUpdate, Waiting
  <2>2. upc = "next" /\ upc' = "send" /\ UNCHANGED <<updateQueue, updateDir, patches>>
    BY <1>7 DEF NextUpdate, Updating
  <2>3. PatchedOnly'
    BY <2>2 DEF WayInv, PatchedOnly, Aside
  <2>4. SentOnce'
    BY <2>1, <2>2 DEF WayInv, SentOnce
  <2>5. NewestQueued'
    BY <1>3, <2>1, <2>2 DEF WayInv, NewestQueued
  <2>6. SetsFollow'
    BY <1>1, <2>1, <2>2 DEF WayInv, SetsFollow
  <2>7. QED
    BY <1>2, <2>3, <2>4, <2>5, <2>6, AsideOrder DEF WayInv
<1>8. CASE SendUpdate \/ UpdateFails
  <2>1. PICK s \in 1 .. Len(calls) : s = sending.update
    BY <1>8, SendStep, WayTypes
  <2>2. PICK i \in Ids : i = calls[s].id
    BY CallsType
  <2>3. /\ upc = "send" /\ upc' = "remove" /\ UNCHANGED <<updateQueue, sending>>
        /\ Patching(s, i)
        /\ sending.key \in Keys /\ Key(s) = sending.key /\ s \in Nat
        /\ updateDir' = updateDir \/ updateDir' = [updateDir EXCEPT ![sending.key] = s]
    <3>1. /\ upc = "send" /\ upc' = "remove" /\ UNCHANGED <<updateQueue, sending>>
          /\ Patching(s, i)
          /\ updateDir' = updateDir \/ updateDir' = [updateDir EXCEPT ![sending.key] = s]
      BY <1>8, <2>1, <2>2, SendStep
    <3>2. sending.key \in Keys /\ Key(s) = sending.key /\ s \in Nat
      BY <2>1, <3>1, WayTypes
    <3>3. QED
      BY <3>1, <3>2
  <2>4. updateDir[sending.key] <= s /\ s <= updateQueue[sending.key]
    BY <2>1, <2>3 DEF WayInv, NewestQueued
  <2>5. PatchedOnly'
    BY <2>3 DEF WayInv, PatchedOnly, Patching, Aside
  <2>6. SentOnce'
    BY <2>1, <2>3 DEF WayInv, SentOnce, Patching
  <2>7. NewestQueued'
    <3>1. \A k \in Keys : updateDir'[k] = updateDir[k] \/ (k = sending.key /\ updateDir'[k] = s)
      BY <2>3, <1>3 DEF UpdateTyped
    <3>2. QED
      BY <2>3, <2>4, <3>1 DEF WayInv, NewestQueued
  <2>8. SetsFollow'
    <3>1. ASSUME NEW j \in Ids, NEW m \in patches'[j], calls[m].lazy, calls[m].action = "set"
          PROVE  updateQueue[Key(m)] # NoUpdate => m <= updateQueue[Key(m)]
      BY <2>3, <2>4, <3>1 DEF WayInv, SetsFollow, Patching
    <3>2. QED
      BY <1>1, <2>3, <3>1 DEF SetsFollow
  <2>9. QED
    BY <1>2, <2>5, <2>6, <2>7, <2>8, AsideOrder DEF WayInv
<1>9. CASE RemoveUpdate
  <2>1. /\ upc = "remove" /\ upc' \in {"commit", "next"} /\ UNCHANGED <<updateDir, patches>>
        /\ updateQueue' = [updateQueue EXCEPT ![sending.key] = NoUpdate]
        /\ sending.key \in Keys
    BY <1>9, WayTypes DEF RemoveUpdate, Taken, Updating
  <2>2. \A k \in Keys : \/ updateQueue'[k] = NoUpdate
                        \/ k # sending.key /\ updateQueue'[k] = updateQueue[k]
    BY <1>3, <2>1 DEF UpdateTyped
  <2>3. Key(sending.update) = sending.key
    BY <2>1, WayTypes
  <2>4. PatchedOnly'
    BY <2>1 DEF WayInv, PatchedOnly, Aside
  <2>5. SentOnce'
    <3>1. ASSUME NEW j \in Ids, NEW k \in Keys, updateQueue'[k] \in patches[j] PROVE FALSE
      <4>1. updateQueue'[k] # NoUpdate
        BY <1>3, <3>1
      <4>2. k # sending.key /\ updateQueue[k] \in patches[j] /\ updateQueue[k] # NoUpdate
        BY <2>2, <3>1, <4>1
      <4>3. sending.update = updateQueue[k] /\ Key(updateQueue[k]) = k
        BY <1>3, <4>2 DEF WayInv, SentOnce
      <4>4. QED
        BY <2>3, <4>2, <4>3
    <3>2. QED
      BY <2>1, <3>1 DEF SentOnce
  <2>6. NewestQueued'
    BY <2>1, <2>2 DEF WayInv, NewestQueued
  <2>7. SetsFollow'
    BY <1>1, <1>3, <2>1, <2>2 DEF WayInv, SetsFollow
  <2>8. QED
    BY <1>2, <2>4, <2>5, <2>6, <2>7, AsideOrder DEF WayInv
<1>10. QED
  BY <1>5, <1>6, <1>7, <1>8, <1>9 DEF UpdatePass

\* Every step keeps updates in order.
LEMMA WayNext ==
    UpdateTyped /\ OrderInv /\ WayInv /\ [UpdateNext]_allVars => OrderInv' /\ WayInv'
  BY StepKinds, WayBeside, WayExit, WayCall, WayPass

\* A call leaves the earlier ones alone.
LEMMA CallsStay ==
    ASSUME UpdateTyped, [UpdateNext]_allVars, NEW n \in 1 .. Len(calls)
    PROVE  /\ n \in DOMAIN calls' /\ calls'[n] = calls[n] /\ Key(n)' = Key(n)
<1>1. CASE UNCHANGED calls
  BY <1>1, CallsType DEF Key, KeyOf
<1>2. ASSUME NEW i \in Ids, NEW a \in Actions, LazyUpdate(i, a) \/ RealtimeUpdate(i, a)
      PROVE  n \in DOMAIN calls' /\ calls'[n] = calls[n] /\ Key(n)' = Key(n)
  <2>1. PICK lazy \in BOOLEAN : Call(i, a, lazy)
    BY <1>2 DEF LazyUpdate, RealtimeUpdate
  <2>2. PICK m \in Nat : m = Len(calls) + 1
    BY CallsType
  <2>3. /\ calls' \in Seq(CallRecord) /\ Len(calls') = m
        /\ calls'[n] = calls[n] /\ Key(n)' = Key(n)
    BY <2>1, <2>2, CallAppends
  <2>4. DOMAIN calls' = 1 .. m /\ n \in 1 .. m
    BY <2>2, <2>3, CallsType
  <2>5. QED
    BY <2>3, <2>4
<1>3. UpdatePass => UNCHANGED calls
  BY DEF UpdatePass, BeginUpdates, LoadUpdates, OpenUpdates, NextUpdate, SendUpdate, UpdateFails,
         RemoveUpdate, CommitUpdates, FinishUpdates
<1>4. Beside \/ ExitWithUpdates => UNCHANGED calls
  BY DEF Beside, ExitWithUpdates
<1>5. QED
  BY <1>1, <1>2, <1>3, <1>4, StepKinds

\* A call comes last.
LEMMA LastCall ==
    ASSUME UpdateTyped, NEW i \in Ids, NEW action \in Actions,
           LazyUpdate(i, action) \/ RealtimeUpdate(i, action)
    PROVE  \E m \in DOMAIN calls' : /\ m = Len(calls) + 1 /\ Len(calls') = m
                                    /\ calls'[m].id = i /\ calls'[m].action = action
<1>1. PICK lazy \in BOOLEAN : Call(i, action, lazy)
  BY DEF LazyUpdate, RealtimeUpdate
<1>2. PICK m \in Nat : m = Len(calls) + 1
  BY CallsType
<1>3. /\ calls' \in Seq(CallRecord) /\ Len(calls') = m
      /\ \A n \in 1 .. Len(calls) : calls'[n] = calls[n] /\ Key(n)' = Key(n)
      /\ calls'[m] = [id |-> i, action |-> action, lazy |-> lazy,
                      time |-> now, saved |-> saved[i]]
      /\ Key(m)' = KeyOf(i, action, now)
  BY <1>1, <1>2, CallAppends
<1>4. m \in DOMAIN calls'
  BY <1>2, <1>3, CallsType
<1>5. QED
  BY <1>2, <1>3, <1>4

\* What has taken the place of an update stays.
LEMMA SupersededStays ==
    ASSUME UpdateTyped, OrderInv, WayInv, [UpdateNext]_allVars, NEW n \in 1 .. Len(calls),
           Superseded(n)
    PROVE  Superseded(n)'
<1>1. PICK i \in Ids : i = calls[n].id
  BY CallsType
<1>2. calls'[n] = calls[n] /\ calls'[n].id = i
  BY <1>1, CallsStay
<1>3. saved[i] \in Nat /\ saved'[i] \in Nat /\ calls[n].saved \in Nat /\ calls[n].saved <= saved[i]
  <2>1. Typed' /\ UpdateTyped'
    BY UpdateTypedNext DEF UpdateTyped
  <2>2. saved'[i] \in Nat
    BY <2>1 DEF Typed, TypeOK, Slot, Docs
  <2>3. saved[i] \in Nat /\ calls[n].saved \in Docs
    BY WayTypes
  <2>4. calls[n].saved <= saved[i]
    BY <1>1 DEF WayInv, SavedBefore
  <2>5. QED
    BY <2>2, <2>3, <2>4 DEF Docs
<1>4. /\ saved[i] <= saved'[i]
      /\ i \in gone => i \in gone' \/ saved[i] < saved'[i]
  <2>1. CASE UNCHANGED <<saved, gone>>
    BY <1>3, <2>1
  <2>2. CASE Beside
    BY <2>2, VersionsStep, WayTypes DEF Beside, WayInv
  <2>3. QED
    BY <2>1, <2>2, StepKinds DEF Aside, ExitWithUpdates, Exit, callerVars
<1>5. CASE calls[n].saved # saved[i] \/ i \in gone
  <2>1. calls'[n].saved # saved'[i] \/ i \in gone'
    BY <1>2, <1>3, <1>4, <1>5
  <2>2. QED
    BY <1>2, <2>1 DEF Superseded
<1>6. CASE \E m \in DOMAIN calls : m > n /\ calls[m].action = "set" /\ calls[m].id = i
  <2>1. PICK m \in DOMAIN calls : m > n /\ calls[m].action = "set" /\ calls[m].id = i
    BY <1>6
  <2>2. m \in DOMAIN calls' /\ calls'[m] = calls[m]
    BY CallsStay, CallsType
  <2>3. QED
    BY <1>2, <2>1, <2>2 DEF Superseded
<1>7. QED
  BY <1>1, <1>5, <1>6 DEF Superseded

\* The ways to lose an update.
Lost(n) == \/ Removed(n) \/ KeyTaken(n) \/ SetAgain(n) \/ Overwritten(n) \/ NoFile(n) \/ FileRead(n)
           \/ Cleared(n) \/ mode' = "down"

\* A step that loses an update is one of them.
LEMMA UpdateLossStep ==
    UpdateTyped /\ OrderInv /\ WayInv /\ [UpdateNext]_allVars =>
        \A n \in DOMAIN calls : UpdateKept(n) /\ ~UpdateKept(n)' => Lost(n)
<1> SUFFICES ASSUME UpdateTyped, OrderInv, WayInv, [UpdateNext]_allVars, NEW n \in DOMAIN calls,
                    UpdateKept(n), ~UpdateKept(n)'
             PROVE  Lost(n)
  OBVIOUS
<1>1. n \in 1 .. Len(calls) /\ n \in Nat
  BY CallsType
<1>2. PICK i \in Ids : i = calls[n].id
  BY <1>1, CallsType
<1>3. PICK k \in Keys : k = Key(n)
  BY <1>1, CallsType
<1>4. n \in DOMAIN calls' /\ calls'[n] = calls[n] /\ calls'[n].id = i /\ Key(n)' = k
  BY <1>1, <1>2, <1>3, CallsStay
<1>5. ~Superseded(n)' /\ ~Superseded(n)
  BY <1>1, SupersededStays DEF UpdateKept
<1>6. /\ n \notin patches'[i] /\ updateDir'[k] # n
      /\ ~(upc' = "send" /\ sending'.update = n)
      /\ updateQueue'[k] = n => upc' = "remove" /\ sending'.update = n
  BY <1>4 DEF UpdateKept
<1>7. \/ n \in patches[i] \/ updateDir[k] = n
      \/ upc = "send" /\ sending.update = n
      \/ updateQueue[k] = n /\ ~(upc = "remove" /\ sending.update = n)
  BY <1>2, <1>3, <1>5 DEF UpdateKept
<1>8. CASE Beside
  <2>1. /\ UNCHANGED <<calls, updateQueue, updateDir, sending>>
        /\ upc' = upc \/ (upc = "rest" /\ upc' = "begin")
    BY <1>8 DEF Beside
  <2>2. n \in patches[i]
    BY <1>6, <1>7, <2>1
  <2>3. index'[i] # index[i] /\ index[i] # None
    BY <1>6, <1>8, <2>2 DEF Beside, DropPatches, WayInv, PatchedOnly
  <2>4. CASE index'[i] = None
    BY <1>2, <2>3, <2>4 DEF Lost, Cleared
  <2>5. CASE index'[i] # None
    <3>1. /\ index[i] <= index'[i] /\ index'[i] <= saved'[i]
      BY <1>8, <2>3, <2>5, VersionsStep, WayTypes DEF Beside, WayInv
    <3>2. saved'[i] = calls[n].saved
      BY <1>4, <1>5 DEF Superseded
    <3>3. index[i] \in Nat /\ index'[i] \in Nat /\ saved'[i] \in Nat
      <4>1. Typed /\ Typed'
        BY UpdateTypedNext DEF UpdateTyped
      <4>2. QED
        BY <4>1 DEF Typed, TypeOK, Slot, Docs
    <3>4. index[i] < index'[i] /\ index[i] < calls[n].saved
      BY <2>3, <3>1, <3>2, <3>3
    <3>5. QED
      BY <1>2, <3>4 DEF Lost, Overwritten
  <2>6. QED
    BY <2>4, <2>5
<1>9. CASE ExitWithUpdates
  BY <1>9 DEF ExitWithUpdates, Exit, Lost
<1>10. ASSUME NEW j \in Ids, NEW a \in Actions, LazyUpdate(j, a) \/ RealtimeUpdate(j, a), Aside
       PROVE  Lost(n)
  <2>1. PICK m \in DOMAIN calls' : /\ m = Len(calls) + 1 /\ Len(calls') = m
                                   /\ calls'[m].id = j /\ calls'[m].action = a
    BY <1>10, LastCall
  <2>2. m > n
    BY <1>1, <2>1, CallsType
  <2>3. /\ m \in DOMAIN calls' /\ Len(calls') = m /\ m > n
        /\ calls'[m].id = j /\ calls'[m].action = a
    BY <2>1, <2>2
  <2>4. UNCHANGED <<updateDir, upc, sending>>
    BY <1>10 DEF LazyUpdate, RealtimeUpdate
  <2>5. CASE LazyUpdate(j, a)
    <3>1. /\ updateQueue' = [updateQueue EXCEPT ![KeyOf(j, a, now)] = m] /\ patches' = patches
      BY <2>3, <2>5 DEF LazyUpdate
    <3>2. updateQueue[k] = n /\ updateQueue'[k] # n
      BY <1>6, <1>7, <2>4, <3>1
    <3>3. updateQueue'[k] = m
      BY <3>1, <3>2 DEF UpdateTyped
    <3>4. QED
      BY <1>3, <2>3, <3>3 DEF Lost, KeyTaken
  <2>6. CASE RealtimeUpdate(j, a)
    <3>1. /\ updateQueue' = updateQueue
          /\ patches' = patches \/ SolrPatches(j, m, a)
      BY <2>3, <2>6 DEF RealtimeUpdate
    <3>2. n \in patches[i] /\ SolrPatches(j, m, a)
      BY <1>6, <1>7, <2>4, <3>1
    <3>3. j = i /\ a = "set"
      <4>1. /\ \A l \in Ids : l # j => patches'[l] = patches[l]
            /\ patches'[j] = IF a = "set" THEN {m} ELSE patches[j] \cup {m}
        BY <3>2, PatchesTyped
      <4>2. QED
        BY <1>6, <3>2, <4>1
    <3>4. Superseded(n)'
      BY <1>4, <2>3, <3>3 DEF Superseded
    <3>5. QED
      BY <1>5, <3>4
  <2>7. QED
    BY <1>10, <2>5, <2>6
<1>11. CASE BeginUpdates \/ OpenUpdates \/ CommitUpdates \/ FinishUpdates
  <2>1. /\ UNCHANGED <<updateQueue, updateDir, patches>>
        /\ upc \notin {"send", "remove"} /\ upc' \notin {"send", "remove"}
    BY <1>11 DEF BeginUpdates, OpenUpdates, CommitUpdates, FinishUpdates, EndUpdates, Updating
  <2>2. QED
    BY <1>6, <1>7, <2>1
<1>12. CASE LoadUpdates
  <2>1. /\ UNCHANGED <<updateQueue, patches>>
        /\ upc \notin {"send", "remove"} /\ upc' \notin {"send", "remove"}
    BY <1>12 DEF LoadUpdates, Updating
  <2>2. updateDir[k] = n
    BY <1>6, <1>7, <2>1
  <2>3. QED
    BY <1>3, <1>12, <2>2 DEF Lost, FileRead
<1>13. CASE NextUpdate
  <2>1. /\ UNCHANGED <<updateQueue, updateDir, patches>> /\ upc = "next" /\ upc' = "send"
    BY <1>13 DEF NextUpdate, Updating
  <2>2. QED
    BY <1>6, <1>7, <2>1
<1>14. CASE SendUpdate \/ UpdateFails
  <2>1. PICK s \in 1 .. Len(calls) : s = sending.update
    BY <1>14, SendStep, WayTypes
  <2>2. PICK j \in Ids : j = calls[s].id
    BY CallsType
  <2>3. /\ upc = "send" /\ upc' = "remove" /\ UNCHANGED <<updateQueue, sending, calls>>
        /\ Patching(s, j)
        /\ SendUpdate => s \in patches'[j] /\ updateDir' = updateDir
        /\ UpdateFails => \/ updateDir' = [updateDir EXCEPT ![sending.key] = s]
                          \/ "disk" \in Env /\ updateDir' = updateDir
    BY <1>14, <2>1, <2>2, SendStep
  <2>4. sending.key \in Keys /\ Key(s) = sending.key /\ s \in Nat
    BY <2>1, <2>3, WayTypes
  <2>5. CASE s = n
    <3>1. UpdateFails /\ j = i /\ sending.key = k
      BY <1>2, <1>3, <1>6, <1>14, <2>2, <2>3, <2>4, <2>5
    <3>2. updateDir' # [updateDir EXCEPT ![sending.key] = s]
      BY <1>6, <2>5, <3>1 DEF UpdateTyped
    <3>3. QED
      BY <2>1, <2>3, <2>5, <3>1, <3>2 DEF Lost, NoFile
  <2>6. CASE s # n /\ n \in patches[i]
    <3>1. i = j /\ s \in patches'[i] /\ calls[s].action = "set"
      BY <1>6, <2>3, <2>6 DEF Patching
    <3>2. s < n
      <4>1. ~(s > n)
        BY <1>2, <1>5, <2>2, <3>1, CallsType DEF Superseded
      <4>2. QED
        BY <1>1, <2>4, <2>6, <4>1
    <3>3. s \notin patches[i]
      BY <2>1, <2>3 DEF WayInv, SentOnce
    <3>4. QED
      BY <1>2, <1>4, <3>1, <3>2, <3>3 DEF Lost, SetAgain
  <2>7. CASE s # n /\ n \notin patches[i]
    <3>1. updateDir[k] = n
      BY <1>6, <1>7, <2>1, <2>3, <2>7
    <3>2. sending.key = k /\ updateDir'[k] = s
      BY <1>6, <2>3, <2>4, <3>1, <1>14 DEF UpdateTyped
    <3>3. updateDir[k] <= s /\ s <= updateQueue[k]
      BY <2>1, <2>3, <3>2 DEF WayInv, NewestQueued
    <3>4. updateQueue[k] \in Nat
      BY WayTypes DEF Numbers
    <3>5. updateQueue'[k] > n
      BY <1>1, <2>3, <2>4, <2>7, <3>1, <3>3, <3>4
    <3>6. QED
      BY <1>3, <3>5 DEF Lost, KeyTaken
  <2>8. QED
    BY <2>5, <2>6, <2>7
<1>15. CASE RemoveUpdate
  <2>1. /\ upc = "remove" /\ upc' # "remove" /\ UNCHANGED <<updateDir, patches>>
        /\ updateQueue' = [updateQueue EXCEPT ![sending.key] = NoUpdate]
    BY <1>15 DEF RemoveUpdate, Taken, Updating
  <2>2. updateQueue[k] = n /\ sending.update # n /\ updateQueue'[k] # n
    BY <1>6, <1>7, <2>1
  <2>3. sending.key = k
    BY <2>1, <2>2 DEF UpdateTyped
  <2>4. QED
    BY <1>3, <2>1, <2>2, <2>3 DEF Lost, Removed
<1>16. QED
  BY <1>8, <1>9, <1>10, <1>11, <1>12, <1>13, <1>14, <1>15, StepKinds DEF UpdatePass

\* An update is lost in the named ways only, whatever is called and whatever fails.
THEOREM OnlyNamedLosses == UpdateSpec => UpdateLossWindow
<1>1. UpdateTyped /\ OrderInv /\ WayInv /\ [UpdateNext]_allVars => UpdateTyped' /\ OrderInv' /\ WayInv'
  BY UpdateTypedNext, WayNext
<1>2. UpdateInit => OrderInv
  BY OrderInit DEF UpdateInit
<1>3. UpdateTyped /\ OrderInv /\ WayInv /\ [UpdateNext]_allVars =>
        \A n \in DOMAIN calls : UpdateKept(n) /\ ~UpdateKept(n)' =>
          \/ Removed(n) \/ KeyTaken(n) \/ SetAgain(n) \/ Overwritten(n) \/ NoFile(n) \/ FileRead(n)
          \/ Cleared(n) \/ mode' = "down"
  BY UpdateLossStep DEF Lost
<1>4. QED
  BY <1>1, <1>2, <1>3, UpdateTypedInit, WayInit, PTL DEF UpdateSpec, UpdateLossWindow

-----------------------------------------------------------------------------
(***************************************************************************)
(* The order of two updates that set the field of one id.  They share the  *)
(* key, so the one in hand is no older than one that was sent.             *)
(***************************************************************************)

\* No older update that sets the field follows a lazy one.
LEMMA NoOlderSet ==
    ASSUME UpdateTyped, OrderInv, WayInv, [UpdateNext]_allVars, NEW i \in Ids,
           NEW m \in patches[i], NEW n \in patches'[i] \ patches[i],
           IsSet(m), IsSet(n), n < m, calls[m].lazy
    PROVE  FALSE
<1>1. m \in 1 .. Len(calls) /\ m \in Nat /\ calls[m].id = i
  <2>1. m \in 1 .. Len(calls) /\ calls[m].id = i /\ Len(calls) \in Nat
    BY WayTypes
  <2>2. QED
    BY <2>1
<1>2. calls'[m] = calls[m] /\ calls[m].action = "set"
  BY <1>1, CallsStay DEF IsSet
<1>3. CASE patches' = patches \/ Beside
  BY <1>3 DEF Beside, DropPatches
<1>4. ASSUME NEW j \in Ids, NEW a \in Actions, LazyUpdate(j, a) \/ RealtimeUpdate(j, a)
      PROVE  FALSE
  <2>1. PICK c \in DOMAIN calls' : c = Len(calls) + 1 /\ Len(calls') = c
    BY <1>4, LastCall
  <2>2. SolrPatches(j, c, a)
    <3>1. patches' # patches
      BY <1>3
    <3>2. RealtimeUpdate(j, a)
      BY <1>4, <3>1 DEF LazyUpdate
    <3>3. SolrPatches(j, Len(calls'), a) \/ patches' = patches
      BY <3>2 DEF RealtimeUpdate
    <3>4. QED
      BY <2>1, <3>1, <3>3
  <2>3. n = c
    <3>1. patches' = [patches EXCEPT ![j] = IF a = "set" THEN {c} ELSE @ \cup {c}]
      BY <2>2 DEF SolrPatches
    <3>2. patches'[i] \subseteq patches[i] \cup {c}
      BY <3>1
    <3>3. QED
      BY <3>2
  <2>4. QED
    BY <1>1, <2>1, <2>3, CallsType
<1>5. CASE SendUpdate \/ UpdateFails
  <2>1. PICK s \in 1 .. Len(calls) : s = sending.update
    BY <1>5, SendStep, WayTypes
  <2>2. PICK j \in Ids : j = calls[s].id
    BY CallsType
  <2>3. upc = "send" /\ Patching(s, j) /\ UNCHANGED calls
    BY <1>5, <2>1, <2>2, SendStep
  <2>4. n = s /\ j = i
    BY <2>3 DEF Patching
  <2>5. Key(s) = sending.key /\ Key(s) = Key(m)
    BY <1>1, <1>2, <2>1, <2>2, <2>3, <2>4, WayTypes DEF IsSet, Key, KeyOf
  <2>6. m <= s
    BY <1>2, <2>1, <2>3, <2>5 DEF WayInv, SetsFollow
  <2>7. QED
    BY <1>1, <2>1, <2>4, <2>6
<1>6. UpdatePass => SendUpdate \/ UpdateFails \/ patches' = patches
  BY DEF UpdatePass, BeginUpdates, LoadUpdates, OpenUpdates, NextUpdate, RemoveUpdate,
         CommitUpdates, FinishUpdates
<1>7. ExitWithUpdates => patches' = patches
  BY DEF ExitWithUpdates
<1>8. QED
  BY <1>3, <1>4, <1>5, <1>6, <1>7, StepKinds

\* So the property holds of every step.
LEMMA SetsStep ==
    UpdateTyped /\ OrderInv /\ WayInv /\ [UpdateNext]_allVars =>
        \A i \in Ids : \A m \in patches[i], n \in patches'[i] \ patches[i] :
            IsSet(m) /\ IsSet(n) /\ n < m => ~calls[m].lazy
  BY NoOlderSet, Zenon

\* Lazy updates that set the field of one id reach Solr in the order of their calls.
THEOREM LastSetWins == UpdateSpec => SetsInOrder
<1>1. UpdateTyped /\ OrderInv /\ WayInv /\ [UpdateNext]_allVars => UpdateTyped' /\ OrderInv' /\ WayInv'
  BY UpdateTypedNext, WayNext
<1>2. UpdateInit => OrderInv
  BY OrderInit DEF UpdateInit
<1>3. QED
  BY <1>1, <1>2, UpdateTypedInit, WayInit, SetsStep, PTL DEF UpdateSpec, SetsInOrder

-----------------------------------------------------------------------------
(***************************************************************************)
(* Documents before updates.  While a pass works, each document that an    *)
(* early update waits for is in Solr, in the scheduler's hands, or queued  *)
(* at a node that the iterator has not passed.                             *)
(***************************************************************************)
QueueIsLast == \A i \in Ids : saveQueue[i] \in {None, saved[i]}

AheadOf(i) == \/ pc \in {"load", "open"}
              \/ /\ pc \in {"next", "store", "remove", "commit"}
                 /\ iter.node # NoId /\ iter.node <= i /\ (iter.node = i => iter.frozen = None)

Reached(i, d) == /\ i \notin deleting
                 /\ \/ d <= index[i]
                    \/ saveQueue[i] # None /\ AheadOf(i)
                    \/ pc = "store" /\ entry.id = i /\ d <= entry.doc

OneAtATime == /\ upc # "rest" \/ mode = "down" => pc = "idle"
              /\ mode = "down" => upc = "rest"

EarlyReached == mode = "up" /\ (pc # "idle" \/ upc # "rest") =>
                    \A n \in early : Superseded(n) \/ Reached(calls[n].id, calls[n].saved)

PassInv == QueueIsLast /\ OneAtATime /\ early \subseteq 1 .. Len(calls) /\ EarlyReached

\* The steps of a pass that leave the early updates their documents.
Carrying == \/ LoadFromTemp \/ OpenIterator \/ NextEntry \/ StoreAccepted
            \/ RemoveEntry \/ BatchCommit \/ FinalCommit

\* The queue holds the document saved last.
LEMMA QueueIsLastNext == ASSUME Typed, QueueIsLast, [Next]_vars PROVE QueueIsLast'
<1>1. TypeOK
  BY DEF Typed
<1>2. ASSUME NEW i \in Ids, SaveNext(i) PROVE QueueIsLast'
  BY <1>1, <1>2 DEF SaveNext, Save, QueueIsLast, TypeOK
<1>3. ASSUME NEW i \in Ids, saveQueue' = [saveQueue EXCEPT ![i] = None], saved' = saved
      PROVE  QueueIsLast'
  BY <1>1, <1>3 DEF QueueIsLast, TypeOK
<1>4. ASSUME NEW i \in Ids, DeleteSaved(i) PROVE QueueIsLast'
  BY <1>3, <1>4 DEF DeleteSaved, DeleteQueued
<1>5. CASE RemoveEntry
  <2>1. entry.id \in Ids
    BY <1>1, <1>5 DEF RemoveEntry, Storing, Typed, TypeOK
  <2>2. QED
    BY <1>3, <1>5, <2>1 DEF RemoveEntry, Dequeued, callerVars
<1>6. CASE DestroyEntry
  <2>1. destroyer.node \in Ids
    BY <1>1, <1>6 DEF DestroyEntry, TypeOK, Iterator
  <2>2. QED
    BY <1>3, <1>6, <2>1 DEF DestroyEntry, callerVars
<1>7. CASE Exit
  BY <1>7 DEF Exit, Empty, QueueIsLast
<1>8. \/ \E i \in Ids : DeleteInSolr(i) \/ DeleteFails(i)
      \/ DeleteByQuery \/ BeginPass \/ LoadFromTemp \/ OpenIterator \/ NextEntry
      \/ StoreAccepted \/ StoreFails \/ StoreThrows \/ BatchCommit \/ FinalCommit
      \/ OpenSearcher \/ BeginDestroy \/ CloseClient \/ Restart \/ UNCHANGED vars
      => UNCHANGED <<saveQueue, saved>>
  BY DEF DeleteInSolr, DeleteFails, DeleteByQuery, BeginPass, LoadFromTemp, Reloaded, OpenIterator,
         NextEntry, StoreAccepted, StoreFails, StoreThrows, BatchCommit, FinalCommit, OpenSearcher,
         BeginDestroy, CloseClient, Restart, callerVars, vars
<1>9. UNCHANGED <<saveQueue, saved>> => QueueIsLast'
  BY DEF QueueIsLast
<1>10. QED
  BY <1>2, <1>4, <1>5, <1>6, <1>7, <1>8, <1>9 DEF Next, Calling, Pass, Living

\* While the application is up, no step but a failing one loses sight of a document.
LEMMA ReachedStep ==
    ASSUME Typed, OrderInv, QueueIsLast, NEW i \in Ids, NEW d \in Docs, Reached(i, d),
           saved[i] = d, saved'[i] = d, i \notin gone', mode = "up", mode' = "up",
           Calling \/ OpenSearcher \/ Living \/ UNCHANGED vars \/ Carrying
    PROVE  Reached(i, d)'
<1>1. TypeOK
  BY DEF Typed
<1>2. /\ iter.node \in Ids \cup {NoId} /\ iter.frozen \in Nat
      /\ entry.id \in Ids \cup {NoId} /\ entry.doc \in Nat
      /\ \A j \in Ids : j \in Nat /\ j # NoId
      /\ \A j \in Ids : saveQueue[j] \in Nat /\ index[j] \in Nat
      /\ d \in Nat /\ d # None
  BY <1>1 DEF TypeOK, Iterator, Slot, Docs
<1>3. UNCHANGED <<deleting, index, saveQueue, pc, iter, entry>> => Reached(i, d)'
  BY DEF Reached, AheadOf
<1>4. ASSUME NEW j \in Ids, SaveNext(j) PROVE Reached(i, d)'
  <2>1. j # i /\ saved' = [saved EXCEPT ![j] = saved[j] + 1]
    BY <1>1, <1>2, <1>4 DEF SaveNext, Save, TypeOK
  <2>2. saveQueue'[i] = saveQueue[i] /\ UNCHANGED <<deleting, index, pc, iter, entry>>
    BY <1>1, <1>4, <2>1 DEF SaveNext, Save, TypeOK, passVars, solrVars
  <2>3. QED
    BY <2>2 DEF Reached, AheadOf
<1>5. ASSUME NEW j \in Ids, DeleteSaved(j) PROVE Reached(i, d)'
  <2>1. j # i /\ deleting' = deleting \cup {j} /\ saveQueue'[i] = saveQueue[i]
    BY <1>1, <1>5 DEF DeleteSaved, DeleteQueued, TypeOK
  <2>2. iter'.node = iter.node /\ (iter.node = i => iter'.frozen = iter.frozen)
    BY <1>5, <2>1, <1>1 DEF DeleteSaved, DeleteQueued, Unlinked, TypeOK, Iterator
  <2>3. UNCHANGED <<index, pc, entry>>
    BY <1>5 DEF DeleteSaved, DeleteQueued, solrVars
  <2>4. QED
    BY <2>1, <2>2, <2>3 DEF Reached, AheadOf
<1>6. ASSUME NEW j \in Ids, DeleteInSolr(j) \/ DeleteFails(j) PROVE Reached(i, d)'
  <2>1. /\ j # i /\ deleting' = deleting \ {j} /\ UNCHANGED <<saveQueue, pc, iter, entry>>
        /\ index' = index \/ index' = [index EXCEPT ![j] = None]
    BY <1>6 DEF DeleteInSolr, DeleteFails, Reached, passVars, solrVars
  <2>2. index'[i] = index[i]
    BY <1>1, <2>1 DEF TypeOK
  <2>3. QED
    BY <2>1, <2>2 DEF Reached, AheadOf
<1>7. ~DeleteByQuery
  BY <1>2 DEF DeleteByQuery
<1>8. CASE OpenSearcher \/ UNCHANGED vars
  BY <1>3, <1>8 DEF OpenSearcher, vars, passVars, solrVars
<1>9. CASE Living
  BY <1>9 DEF Living, BeginDestroy, DestroyEntry, CloseClient, Exit, Restart
<1>10. CASE LoadFromTemp
  <2>1. /\ pc = "load" /\ UNCHANGED <<saveQueue, deleting, index, entry>>
        /\ pc' = "open" \/ (pc' = "idle" /\ saveQueue[i] = None)
    BY <1>10 DEF LoadFromTemp, Reloaded, Storing, solrVars
  <2>2. QED
    BY <2>1 DEF Reached, AheadOf
<1>11. ASSUME NEW m \in Ids \cup {NoId}, NEW j \in Nat, IsNodeAfter(m, j), j < i, saveQueue[i] # None
       PROVE  m \in Ids /\ m <= i
  BY <1>2, <1>11 DEF IsNodeAfter, Queued
<1>12. CASE OpenIterator
  <2>1. PICK m \in Ids \cup {NoId} : IsNodeAfter(m, NoId) /\ iter' = [node |-> m, frozen |-> None]
    BY <1>12 DEF OpenIterator
  <2>2. pc = "open" /\ pc' = "next" /\ UNCHANGED <<saveQueue, deleting, index, entry>>
    BY <1>12 DEF OpenIterator, Storing, solrVars
  <2>3. saveQueue[i] # None => m \in Ids /\ m <= i
    BY <1>2, <1>11, <2>1
  <2>4. saveQueue[i] # None => AheadOf(i)'
    BY <1>2, <2>1, <2>2, <2>3 DEF AheadOf
  <2>5. QED
    BY <2>2, <2>4 DEF Reached
<1>13. CASE NextEntry
  <2>1. PICK m \in Ids \cup {NoId} :
           IsNodeAfter(m, iter.node) /\ iter' = [node |-> m, frozen |-> None]
    BY <1>13 DEF NextEntry
  <2>2. /\ pc = "next" /\ pc' = "store" /\ iter.node \in Ids
        /\ entry'.id = iter.node /\ entry'.doc = ValueOf(iter)
        /\ UNCHANGED <<saveQueue, deleting, index>>
    BY <1>2, <1>13 DEF NextEntry, Storing, solrVars
  <2>3. CASE d <= index[i]
    BY <2>2, <2>3 DEF Reached
  <2>4. CASE saveQueue[i] # None /\ AheadOf(i) /\ iter.node = i
    <3>1. entry'.id = i /\ entry'.doc = saveQueue[i] /\ saveQueue[i] = d
      BY <2>2, <2>4 DEF AheadOf, ValueOf, QueueIsLast
    <3>2. QED
      BY <1>2, <2>2, <3>1 DEF Reached
  <2>5. CASE saveQueue[i] # None /\ AheadOf(i) /\ iter.node # i
    <3>1. iter.node <= i /\ iter.node \in Nat /\ i \in Nat
      BY <1>2, <2>2, <2>5 DEF AheadOf
    <3>2. iter.node \in Nat /\ iter.node < i
      BY <2>5, <3>1
    <3>3. m \in Ids /\ m <= i
      BY <1>11, <2>1, <2>5, <3>2
    <3>4. AheadOf(i)'
      BY <1>2, <2>1, <2>2, <3>3 DEF AheadOf
    <3>5. QED
      BY <2>2, <2>5, <3>4 DEF Reached
  <2>6. QED
    BY <2>2, <2>3, <2>4, <2>5 DEF Reached
<1>14. CASE StoreAccepted
  <2>1. /\ pc = "store" /\ pc' = "remove" /\ UNCHANGED <<saveQueue, deleting, iter, entry>>
        /\ index' = [index EXCEPT ![entry.id] = entry.doc] /\ entry.id \in Ids
    BY <1>2, <1>14 DEF StoreAccepted, SolrAccepts, Storing, Typed
  <2>2. CASE entry.id = i
    <3>1. index'[i] = entry.doc /\ index[i] <= entry.doc
      BY <1>1, <2>1, <2>2 DEF TypeOK, OrderInv, EntryOrder, Newer
    <3>2. CASE saveQueue[i] # None /\ AheadOf(i)
      BY <2>1, <3>2 DEF Reached, AheadOf
    <3>3. CASE d <= index[i] \/ d <= entry.doc
      BY <1>2, <2>1, <3>1, <3>3 DEF Reached
    <3>4. QED
      BY <3>2, <3>3 DEF Reached
  <2>3. CASE entry.id # i
    <3>1. index'[i] = index[i]
      BY <1>1, <2>1, <2>3 DEF TypeOK
    <3>2. QED
      BY <2>1, <2>3, <3>1 DEF Reached, AheadOf
  <2>4. QED
    BY <2>2, <2>3
<1>15. CASE RemoveEntry
  <2>1. /\ pc = "remove" /\ pc' \in {"next", "commit"} /\ UNCHANGED <<deleting, iter, index>>
        /\ saveQueue' = [saveQueue EXCEPT ![entry.id] = None] /\ entry.id \in Ids
    BY <1>2, <1>15 DEF RemoveEntry, Dequeued, Storing, Typed, solrVars
  <2>2. CASE d <= index[i]
    BY <2>1, <2>2 DEF Reached
  <2>3. CASE saveQueue[i] # None /\ AheadOf(i)
    <3>1. iter.node # NoId /\ iter.node <= i /\ entry.id < iter.node
      BY <1>2, <2>1, <2>3 DEF AheadOf, OrderInv, EntryBehind
    <3>2. iter.node \in Nat /\ i \in Nat /\ entry.id \in Nat
      BY <1>2, <2>1, <3>1
    <3>3. entry.id # i
      BY <3>1, <3>2
    <3>4. saveQueue'[i] = saveQueue[i]
      BY <1>1, <2>1, <3>3 DEF TypeOK
    <3>5. QED
      BY <2>1, <2>3, <3>4 DEF Reached, AheadOf
  <2>4. QED
    BY <2>1, <2>2, <2>3 DEF Reached
<1>16. CASE BatchCommit
  BY <1>16 DEF BatchCommit, Storing, Reached, AheadOf
<1>17. CASE FinalCommit
  BY <1>17 DEF FinalCommit, Storing, Reached, AheadOf
<1>18. QED
  BY <1>4, <1>5, <1>6, <1>7, <1>8, <1>9, <1>10, <1>12, <1>13, <1>14, <1>15, <1>16, <1>17
     DEF Calling, Carrying

\* No update has begun at the start.
LEMMA PassInit == UpdateInit => PassInv
  BY DEF UpdateInit, Init, Empty, PassInv, QueueIsLast, OneAtATime, EarlyReached

\* What one step of a pass of the documents does to the early updates.
LEMMA StoreStep ==
    ASSUME StoreQueue
    PROVE  /\ Pass /\ upc = "rest" /\ mode # "down" /\ mode' = mode /\ UNCHANGED calls
           /\ upc' = IF pc # "idle" /\ pc' = "idle" THEN "begin" ELSE upc
           /\ \/ BeginPass /\ early' = {n \in {updateQueue[k] : k \in Waiting} : HasDocument(n)}
              \/ early' = {}
              \/ Carrying /\ early' = early
<1>1. /\ Pass /\ upc = "rest" /\ UNCHANGED calls
      /\ upc' = IF pc # "idle" /\ pc' = "idle" THEN "begin" ELSE upc
  BY DEF StoreQueue, ThenUpdates
<1>2. mode # "down" /\ mode' = mode
  BY <1>1 DEF Pass, BeginPass, LoadFromTemp, OpenIterator, NextEntry, StoreAccepted, StoreFails,
              StoreThrows, RemoveEntry, BatchCommit, FinalCommit, Storing, lifeVars
<1>3. CASE BeginPass
  <2>1. ~StoreFails /\ ~StoreThrows
    BY <1>3 DEF BeginPass, StoreFails, StoreThrows, Storing
  <2>2. early' = {n \in {updateQueue[k] : k \in Waiting} : HasDocument(n)}
    BY <1>3, <2>1 DEF StoreQueue
  <2>3. QED
    BY <1>1, <1>2, <1>3, <2>2
<1>4. CASE StoreFails \/ StoreThrows
  <2>1. ~BeginPass
    BY <1>4 DEF BeginPass, StoreFails, StoreThrows, Storing
  <2>2. early' = {}
    BY <1>4, <2>1 DEF StoreQueue
  <2>3. QED
    BY <1>1, <1>2, <2>2
<1>5. CASE ~BeginPass /\ ~(StoreFails \/ StoreThrows)
  <2>1. early' = early
    BY <1>5 DEF StoreQueue
  <2>2. Carrying
    BY <1>1, <1>5 DEF Pass, Carrying
  <2>3. QED
    BY <1>1, <1>2, <2>1, <2>2
<1>6. QED
  BY <1>3, <1>4, <1>5

\* An early update that nothing supersedes keeps its document through a step.
LEMMA EarlyStep ==
    ASSUME UpdateTyped, OrderInv, WayInv, PassInv, [UpdateNext]_allVars, UNCHANGED calls,
           NEW n \in early, Superseded(n) \/ Reached(calls[n].id, calls[n].saved),
           mode = "up", mode' = "up", Calling \/ OpenSearcher \/ Living \/ UNCHANGED vars \/ Carrying
    PROVE  Superseded(n)' \/ Reached(calls[n].id, calls[n].saved)'
<1>1. n \in 1 .. Len(calls)
  BY DEF PassInv
<1>2. PICK i \in Ids : i = calls[n].id
  BY <1>1, CallsType
<1>3. PICK d \in Docs : d = calls[n].saved
  BY <1>1, CallsType
<1>4. CASE Superseded(n)
  BY <1>1, <1>4, SupersededStays
<1>5. CASE ~Superseded(n) /\ ~Superseded(n)'
  <2>1. saved[i] = d /\ saved'[i] = d /\ i \notin gone'
    BY <1>2, <1>3, <1>5 DEF Superseded
  <2>2. Reached(i, d)
    BY <1>2, <1>3, <1>5
  <2>3. Reached(i, d)'
    BY <2>1, <2>2, ReachedStep, WayTypes DEF PassInv
  <2>4. calls'[n].id = i /\ calls'[n].saved = d
    BY <1>2, <1>3
  <2>5. QED
    BY <2>3, <2>4
<1>6. QED
  BY <1>4, <1>5

\* Every step lets the early updates find their documents.
LEMMA PassNext ==
    UpdateTyped /\ OrderInv /\ WayInv /\ PassInv /\ [UpdateNext]_allVars => PassInv'
<1> SUFFICES ASSUME UpdateTyped, OrderInv, WayInv, PassInv, [UpdateNext]_allVars PROVE PassInv'
  OBVIOUS
<1>1. QueueIsLast'
  <2>1. CASE Aside
    BY <2>1 DEF PassInv, QueueIsLast, Aside
  <2>2. CASE [Next]_vars
    BY <2>2, QueueIsLastNext, WayTypes DEF PassInv
  <2>3. QED
    BY <2>1, <2>2, StepKinds DEF Beside, ExitWithUpdates, Next, Living
<1>2. CASE StoreQueue
  <2>1. PICK S : S = {n \in {updateQueue[k] : k \in Waiting} : HasDocument(n)}
    OBVIOUS
  <2>2. /\ Pass /\ upc = "rest" /\ mode # "down" /\ mode' = mode /\ UNCHANGED calls
        /\ upc' = IF pc # "idle" /\ pc' = "idle" THEN "begin" ELSE upc
        /\ (BeginPass /\ early' = S) \/ early' = {} \/ (Carrying /\ early' = early)
    BY <1>2, <2>1, StoreStep
  <2>3. OneAtATime'
    BY <2>2 DEF OneAtATime
  <2>4. ASSUME NEW n \in S, BeginPass
        PROVE  n \in 1 .. Len(calls) /\ Reached(calls[n].id, calls[n].saved)'
    <3>1. n \in 1 .. Len(calls) /\ HasDocument(n)
      BY <2>1, WayTypes DEF Waiting, Numbers
    <3>2. PICK i \in Ids : i = calls[n].id
      BY <3>1, CallsType
    <3>3. PICK d \in Docs : d = calls[n].saved
      BY <3>1, CallsType
    <3>4. i \notin deleting /\ (saveQueue[i] # None \/ d <= index[i])
      BY <3>1, <3>2, <3>3, WayTypes DEF HasDocument, Docs
    <3>5. /\ UNCHANGED <<saveQueue, deleting, index>>
          /\ saveQueue[i] # None => pc' = "open"
      BY <2>4 DEF BeginPass, Queued, solrVars
    <3>6. Reached(i, d)'
      BY <3>4, <3>5 DEF Reached, AheadOf
    <3>7. calls'[n].id = i /\ calls'[n].saved = d
      BY <2>2, <3>2, <3>3
    <3>8. QED
      BY <3>1, <3>6, <3>7
  <2>5. ASSUME Carrying, early' = early PROVE EarlyReached'
    <3>1. pc # "idle"
      BY <2>5 DEF Carrying, LoadFromTemp, OpenIterator, NextEntry, StoreAccepted, RemoveEntry,
                  BatchCommit, FinalCommit, Storing
    <3>2. ASSUME NEW n \in early, mode = "up" PROVE Superseded(n)' \/ Reached(calls[n].id, calls[n].saved)'
      BY <2>2, <2>5, <3>1, <3>2, EarlyStep DEF PassInv, EarlyReached
    <3>3. QED
      BY <2>2, <2>5, <3>2 DEF EarlyReached
  <2>6. EarlyReached' /\ early' \subseteq 1 .. Len(calls')
    <3>1. CASE BeginPass /\ early' = S
      BY <2>2, <2>4, <3>1 DEF EarlyReached
    <3>2. CASE early' = {}
      BY <3>2 DEF EarlyReached
    <3>3. CASE Carrying /\ early' = early
      BY <2>2, <2>5, <3>3 DEF PassInv
    <3>4. QED
      BY <2>2, <3>1, <3>2, <3>3
  <2>7. QED
    BY <1>1, <2>3, <2>6 DEF PassInv
<1>3. ASSUME Calling \/ OpenSearcher \/ (Living /\ mode' # "down") \/ UNCHANGED vars,
             UNCHANGED <<calls, upc, early>>
      PROVE  PassInv'
  <2>1. /\ pc' = pc
        /\ mode' = mode \/ mode' \in {"closing", "closed"} \/ (mode = "down" /\ mode' = "up")
    BY <1>3 DEF Calling, SaveNext, Save, DeleteSaved, DeleteQueued, DeleteInSolr, DeleteFails,
                DeleteByQuery, OpenSearcher, Living, BeginDestroy, DestroyEntry, CloseClient, Exit,
                Restart, passVars, lifeVars, vars
  <2>2. OneAtATime'
    BY <1>3, <2>1 DEF PassInv, OneAtATime
  <2>3. ASSUME mode' = "up", pc # "idle" \/ upc # "rest"
        PROVE  mode = "up"
    BY <2>1, <2>3 DEF PassInv, OneAtATime
  <2>4. EarlyReached'
    <3>1. ASSUME NEW n \in early, mode' = "up", pc # "idle" \/ upc # "rest"
          PROVE  Superseded(n)' \/ Reached(calls[n].id, calls[n].saved)'
      BY <1>3, <2>3, <3>1, EarlyStep DEF PassInv, EarlyReached
    <3>2. QED
      BY <1>3, <2>1, <3>1 DEF EarlyReached
  <2>5. QED
    BY <1>1, <1>3, <2>2, <2>4 DEF PassInv
<1>4. CASE Others
  BY <1>3, <1>4 DEF Others
<1>5. CASE Tick
  BY <1>3, <1>5 DEF Tick
<1>6. CASE UNCHANGED allVars
  BY <1>3, <1>6 DEF allVars, updateVars
<1>7. CASE ExitWithUpdates
  BY <1>1, <1>7 DEF ExitWithUpdates, Exit, EndPass, EndUpdates, PassInv, OneAtATime, EarlyReached
<1>8. ASSUME Aside, UNCHANGED early, upc' = upc \/ (upc # "rest" /\ upc' # upc) PROVE PassInv'
  <2>1. \A n \in early : n \in DOMAIN calls' /\ calls'[n] = calls[n] /\ n \in 1 .. Len(calls)
    BY CallsStay DEF PassInv
  <2>2. OneAtATime'
    BY <1>8 DEF PassInv, OneAtATime, Aside
  <2>3. ASSUME NEW n \in early, mode = "up", pc # "idle" \/ upc # "rest"
        PROVE  Superseded(n)' \/ Reached(calls[n].id, calls[n].saved)'
    <3>1. CASE Superseded(n)
      BY <2>1, <3>1, SupersededStays
    <3>2. CASE Reached(calls[n].id, calls[n].saved)
      <4>1. calls'[n] = calls[n]
        BY <2>1
      <4>2. QED
        BY <1>8, <3>2, <4>1 DEF Reached, AheadOf, Aside
    <3>3. QED
      BY <2>3, <3>1, <3>2 DEF PassInv, EarlyReached
  <2>4. EarlyReached'
    BY <1>8, <2>3 DEF EarlyReached, Aside
  <2>5. early' \subseteq 1 .. Len(calls')
    <3>1. UpdateTyped'
      BY UpdateTypedNext
    <3>2. DOMAIN calls' = 1 .. Len(calls')
      BY <3>1 DEF UpdateTyped, UpdateTypeOK
    <3>3. QED
      BY <1>8, <2>1, <3>2
  <2>6. QED
    BY <1>1, <2>2, <2>4, <2>5 DEF PassInv
<1>9. ASSUME NEW i \in Ids, NEW a \in Actions, LazyUpdate(i, a) \/ RealtimeUpdate(i, a)
      PROVE  PassInv'
  BY <1>8, <1>9, UpdatesAside DEF LazyUpdate, RealtimeUpdate
<1>10. CASE UpdatePass
  <2>1. upc # "rest" /\ UNCHANGED early
    BY <1>10 DEF UpdatePass, BeginUpdates, LoadUpdates, OpenUpdates, NextUpdate, SendUpdate,
                 UpdateFails, RemoveUpdate, CommitUpdates, FinishUpdates, Updating
  <2>2. QED
    BY <1>8, <1>10, <2>1, UpdatesAside
<1>11. QED
  BY <1>2, <1>4, <1>5, <1>6, <1>7, <1>9, <1>10 DEF UpdateNext

\* An update that waited when the pass began is sent when Solr has its document.
THEOREM DocumentsComeFirst == UpdateSpec => []MeetsItsDocument
<1>1. UpdateTyped /\ OrderInv /\ WayInv /\ PassInv /\ [UpdateNext]_allVars =>
          UpdateTyped' /\ OrderInv' /\ WayInv' /\ PassInv'
  BY UpdateTypedNext, WayNext, PassNext
<1>2. UpdateInit => OrderInv
  BY OrderInit DEF UpdateInit
<1>3. UpdateTyped /\ PassInv => MeetsItsDocument
  <2>1. SUFFICES ASSUME UpdateTyped, PassInv, mode = "up", upc = "send", sending.update \in early
                 PROVE  \/ index[calls[sending.update].id] >= calls[sending.update].saved
                        \/ Superseded(sending.update)
    BY DEF MeetsItsDocument
  <2>2. PICK n \in early : n = sending.update
    BY <2>1
  <2>3. n \in 1 .. Len(calls)
    BY <2>1 DEF PassInv
  <2>4. PICK i \in Ids : i = calls[n].id
    BY <2>1, <2>3, CallsType
  <2>5. PICK d \in Docs : d = calls[n].saved
    BY <2>1, <2>3, CallsType
  <2>6. Superseded(n) \/ Reached(i, d)
    BY <2>1, <2>4, <2>5 DEF PassInv, EarlyReached
  <2>7. pc = "idle"
    BY <2>1 DEF PassInv, OneAtATime
  <2>8. index[i] \in Nat /\ d \in Nat
    BY <2>1, WayTypes DEF Docs
  <2>9. Reached(i, d) => index[i] >= d
    BY <2>7, <2>8 DEF Reached, AheadOf
  <2>10. QED
    BY <2>2, <2>4, <2>5, <2>6, <2>9
<1>4. QED
  BY <1>1, <1>2, <1>3, UpdateTypedInit, WayInit, PassInit, PTL DEF UpdateSpec
-----------------------------------------------------------------------------
(***************************************************************************)
(* What the repository promises of documents it promises beside updates    *)
(* as well.  A step of the updates touches none of what the promise speaks *)
(* of; the other steps are those of LazyRepository.                        *)
(***************************************************************************)

\* Exit with its updates is a step of the documents.
LEMMA DocumentsOrAside ==
    ASSUME UpdateTyped, [UpdateNext]_allVars PROVE [Next]_vars \/ Aside
  BY StepKinds DEF Beside, ExitWithUpdates, Next, Living

\* Beside updates too, the repository implements SearchIndex: Solr never goes back to an
\* older document of an id (LazyRepositoryImpl 92-95 interleaves the two passes).
THEOREM UpdatesKeepPromise == UpdateSpec => PromiseKept
<1>1. UpdateInit => OrderInv /\ Promise!Init
  BY OrderInit DEF UpdateInit, Init, Empty, Promise!Init
<1>2. UpdateTyped /\ OrderInv /\ WayInv /\ [UpdateNext]_allVars => UpdateTyped' /\ OrderInv' /\ WayInv'
  BY UpdateTypedNext, WayNext
<1>3. UpdateTyped /\ OrderInv /\ [UpdateNext]_allVars => [Promise!Next]_(Promise!vars)
  <2>1. Aside => UNCHANGED Promise!vars
    BY DEF Aside, Promise!vars
  <2>2. QED
    BY <2>1, DocumentsOrAside, StepKept DEF UpdateTyped
<1>4. QED
  BY <1>1, <1>2, <1>3, UpdateTypedInit, WayInit, PTL DEF UpdateSpec, PromiseKept, Promise!Spec

\* Updates do not cost a document that is saved once: whatever is rejected, whatever
\* update is sent or fails in between, it is queued, in hand or in Solr.
THEOREM UpdatesLoseNoDocument == ASSUME SaveOnce PROVE UpdateSpec => []NoDocLost
<1>1. UpdateTyped /\ KeptInv /\ [UpdateNext]_allVars => UpdateTyped' /\ KeptInv'
  <2>1. KeptInv /\ Aside => KeptInv'
    BY DEF Aside, KeptInv, GoneSaved, QueueLatest, IterLive, EntryLatest, EntryBehind, Covered
  <2>2. QED
    BY <2>1, UpdateTypedNext, DocumentsOrAside, KeptNext, SaveOnce DEF UpdateTyped
<1>2. UpdateTyped /\ KeptInv => NoDocLost
  BY KeptImplies DEF UpdateTyped
<1>3. UpdateInit => KeptInv
  BY KeptInit DEF UpdateInit
<1>4. QED
  BY <1>1, <1>2, <1>3, UpdateTypedInit, PTL DEF UpdateSpec
=============================================================================
