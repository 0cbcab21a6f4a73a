---------------------------- MODULE UpdateQueue ----------------------------
(***************************************************************************)
(* Updates of single fields (LazyRepositoryImpl.update, storeUpdateData),  *)
(* beside the documents of LazyRepository.  A lazy update waits in         *)
(* updateQueue until the scheduler thread has carried the documents to     *)
(* Solr; an update whose field has no id is sent at once by its caller.    *)
(*                                                                         *)
(* An update is the number of its call.  There is one field; "set" puts    *)
(* its value, every other action adds to it.                               *)
(***************************************************************************)
EXTENDS LazyRepository, Sequences

CONSTANTS Actions,      \* the actions of the updates: "set", "add"
          MaxUpdates,   \* bound on the number of updates
          MaxTime       \* bound on the clock of creationTime

ASSUME UpdatesAssumption == /\ Actions \subseteq {"set", "add"}
                            /\ MaxUpdates \in Nat /\ MaxTime \in Nat \ {0}

VARIABLES
    calls,        \* history: the updates called, the first one first
    now,          \* the time in milliseconds
    updateQueue,  \* key -> queued update
    updateDir,    \* key -> update in the file <key>.json
    upc,          \* where the scheduler thread is in storeUpdateData
    ahead,        \* the bins that its iterator has not passed
    sending,      \* the update in its hands, with the key of its entry
    upCounter,    \* updates sent since the last commit of the pass
    patches,      \* id -> updates in the document that Solr has accepted
    early         \* history: updates that waited when the pass began, their document
                  \* queued or in Solr; none once the pass failed to store one

updateVars == <<calls, now, updateQueue, updateDir, upc, ahead, sending, upCounter, patches, early>>

NoUpdate == 0
Updates  == 1 .. MaxUpdates

\* Mutant: the creation time in every key.
KeyOfCall(i, action, time) == <<i, action, time>>

\* toUniqueIdentifier: a later "set" replaces the earlier one, and so does
\* another update of the same millisecond.
KeyOf(i, action, time) == <<i, action, IF action = "set" THEN 0 ELSE time>>
Keys == {KeyOf(i, a, t) : i \in Ids, a \in Actions, t \in 1 .. MaxTime}
Key(n) == KeyOf(calls[n].id, calls[n].action, calls[n].time)

Waiting  == {k \in Keys : updateQueue[k] # NoUpdate}
NoKey    == <<NoId, "set", 0>>
NotSending == [key |-> NoKey, update |-> NoUpdate]
NoUpdates  == [k \in Keys |-> NoUpdate]

UpdateInit ==
    /\ Init
    /\ calls = <<>> /\ now = 1
    /\ updateQueue = NoUpdates /\ updateDir = NoUpdates
    /\ upc = "rest" /\ ahead = {} /\ sending = NotSending /\ upCounter = 0
    /\ patches = [i \in Ids |-> {}] /\ early = {}

-----------------------------------------------------------------------------
\* A bean saved after the update was made, or a later "set", takes its place.
Superseded(n) ==
    \/ calls[n].saved # saved[calls[n].id] \/ calls[n].id \in gone
    \/ \E m \in DOMAIN calls :
          m > n /\ calls[m].action = "set" /\ calls[m].id = calls[n].id

Call(i, action, lazy) ==
    /\ mode = "up" /\ saved[i] # None /\ Len(calls) < MaxUpdates
    /\ calls' = Append(calls, [id |-> i, action |-> action, lazy |-> lazy,
                               time |-> now, saved |-> saved[i]])

\* update of a field that has an id.
LazyUpdate(i, action) ==
    /\ Call(i, action, TRUE)
    /\ updateQueue' = [updateQueue EXCEPT ![KeyOf(i, action, now)] = Len(calls')]
    /\ UNCHANGED <<vars, now, updateDir, upc, ahead, sending, upCounter, patches, early>>

\* Solr patches a document it has; without one the required fields are missing.
SolrPatches(i, n, action) ==
    /\ index[i] # None
    /\ patches' = [patches EXCEPT ![i] = IF action = "set" THEN {n} ELSE @ \cup {n}]
    /\ \/ searcherDue' = TRUE
       \/ {"io", "commit"} \cap Env # {} /\ UNCHANGED searcherDue
    /\ UNCHANGED <<index, visible>>

\* update of a field without an id: whatever is thrown is logged.
RealtimeUpdate(i, action) ==
    /\ Call(i, action, FALSE)
    /\ \/ SolrPatches(i, Len(calls'), action)
       \/ (index[i] = None \/ "io" \in Env) /\ UNCHANGED <<solrVars, patches>>
    /\ UNCHANGED <<saveQueue, insertDir, deleting, passVars, lifeVars, callerVars,
                   now, updateQueue, updateDir, upc, ahead, sending, upCounter, early>>

Tick == /\ now < MaxTime
        /\ now' = now + 1
        /\ UNCHANGED <<vars, calls, updateQueue, updateDir, upc, ahead, sending,
                       upCounter, patches, early>>

-----------------------------------------------------------------------------
(***************************************************************************)
(* storeUpdateData.                                                        *)
(***************************************************************************)
Updating(p) == mode # "down" /\ upc = p

EndUpdates == /\ upc' = "rest" /\ ahead' = {} /\ sending' = NotSending /\ upCounter' = 0

BeginUpdates ==
    /\ Updating("begin")
    /\ upc' = IF Waiting = {} THEN "load" ELSE "open"
    /\ UNCHANGED <<vars, calls, now, updateQueue, updateDir, ahead, sending, upCounter, patches, early>>

\* Every file that is read is deleted, and no update comes back: UpdateField has no
\* constructor that the reader could call.
LoadUpdates ==
    /\ Updating("load")
    /\ updateDir' = NoUpdates
    /\ upc' = IF Waiting = {} THEN "rest" ELSE "open"
    /\ UNCHANGED <<vars, calls, now, updateQueue, ahead, sending, upCounter, patches, early>>

\* The iterator passes bins that are empty when it looks.
OpenUpdates ==
    /\ Updating("open")
    /\ \E bins \in SUBSET Keys : Waiting \subseteq bins /\ ahead' = bins
    /\ upc' = "next"
    /\ UNCHANGED <<vars, calls, now, updateQueue, updateDir, sending, upCounter, patches, early>>

NextUpdate ==
    /\ Updating("next")
    /\ \E k \in Waiting \cap ahead : \E bins \in SUBSET (ahead \ {k}) :
          /\ (Waiting \cap ahead) \ {k} \subseteq bins
          /\ ahead' = bins
          /\ sending' = [key |-> k, update |-> updateQueue[k]]
    /\ upc' = "send"
    /\ UNCHANGED <<vars, calls, now, updateQueue, updateDir, upCounter, patches, early>>

SendUpdate ==
    /\ Updating("send") /\ mode # "closed"
    /\ LET c == calls[sending.update]
       IN  SolrPatches(c.id, sending.update, c.action) /\ searcherDue'
    /\ upc' = "remove"
    /\ UNCHANGED <<saveQueue, insertDir, deleting, passVars, lifeVars, callerVars, calls, now,
                   updateQueue, updateDir, ahead, sending, upCounter, early>>

\* Any exception: the update goes to its file, or writing that fails too.  Solr may
\* have the update all the same.
UpdateFails ==
    /\ Updating("send")
    /\ LET c == calls[sending.update]
       IN  \/ /\ mode = "closed" \/ "io" \in Env \/ index[c.id] = None
              /\ UNCHANGED <<solrVars, patches>>
           \/ /\ mode # "closed" /\ {"io", "commit"} \cap Env # {}
              /\ SolrPatches(c.id, sending.update, c.action)
    /\ \/ updateDir' = [updateDir EXCEPT ![sending.key] = sending.update]
       \/ "disk" \in Env /\ UNCHANGED updateDir
    /\ upc' = "remove"
    /\ UNCHANGED <<saveQueue, insertDir, deleting, passVars, lifeVars, callerVars, calls, now,
                   updateQueue, ahead, sending, upCounter, early>>

\* Mutant: updateQueue.clear() in place of iterator.remove().
AllTaken(k) == NoUpdates
Taken(k)    == [updateQueue EXCEPT ![k] = NoUpdate]

RemoveUpdate ==
    /\ Updating("remove")
    /\ updateQueue' = Taken(sending.key)
    /\ sending' = NotSending
    /\ upCounter' = upCounter + 1
    /\ upc' = IF CommitDue(upCounter') THEN "commit" ELSE "next"
    /\ UNCHANGED <<vars, calls, now, updateDir, ahead, patches, early>>

CommitUpdates ==
    /\ Updating("commit")
    /\ Commit
    /\ upCounter' = 0 /\ upc' = "next"
    /\ UNCHANGED <<saveQueue, insertDir, deleting, passVars, index, visible, lifeVars,
                   callerVars, calls, now, updateQueue, updateDir, ahead, sending, patches, early>>

FinishUpdates ==
    /\ Updating("next") /\ Waiting \cap ahead = {}
    /\ Commit
    /\ EndUpdates
    /\ UNCHANGED <<saveQueue, insertDir, deleting, passVars, index, visible, lifeVars,
                   callerVars, calls, now, updateQueue, updateDir, patches, early>>

UpdatePass == \/ BeginUpdates \/ LoadUpdates \/ OpenUpdates \/ NextUpdate \/ SendUpdate \/ UpdateFails
              \/ RemoveUpdate \/ CommitUpdates \/ FinishUpdates

-----------------------------------------------------------------------------
\* Mutant: one exception of storeNewData ends the pass, as when storeQueue had
\* one try block.
ThenUpdatesUnlessThrown ==
    upc' = IF pc # "idle" /\ pc' = "idle" /\ ~StoreThrows THEN "begin" ELSE upc

\* Mutant: storeUpdateData before the documents.
UpdatesFirst == upc' = IF pc = "open" THEN "begin" ELSE upc

\* storeQueue calls storeUpdateData when storeNewData has returned, which it does
\* whatever was thrown in it.
ThenUpdates == upc' = IF pc # "idle" /\ pc' = "idle" THEN "begin" ELSE upc

HasDocument(n) == LET c == calls[n]
                  IN  c.id \notin deleting /\ (saveQueue[c.id] # None \/ index[c.id] >= c.saved)

\* A document that Solr accepts or deletes takes the updates of its forerunner along.
DropPatches == patches' = [i \in Ids |-> IF index'[i] = index[i] THEN patches[i] ELSE {}]

\* The steps of the documents; the next pass waits for the updates.
StoreQueue == /\ Pass /\ upc = "rest"
              /\ ThenUpdates /\ DropPatches
              /\ early' = CASE BeginPass -> {n \in {updateQueue[k] : k \in Waiting} : HasDocument(n)}
                            [] StoreFails \/ StoreThrows -> {}
                            [] OTHER -> early
              /\ UNCHANGED <<calls, now, updateQueue, updateDir, ahead, sending, upCounter>>

Others == /\ Calling \/ OpenSearcher \/ (Living /\ mode' # "down")
          /\ DropPatches
          /\ UNCHANGED <<calls, now, updateQueue, updateDir, upc, ahead, sending, upCounter, early>>

\* destroy leaves the queued updates alone: they end with the process.
ExitWithUpdates == /\ Exit
                   /\ updateQueue' = NoUpdates
                   /\ EndUpdates
                   /\ UNCHANGED <<calls, now, updateDir, patches, early>>

UpdateNext ==
    \/ \E i \in Ids, a \in Actions : LazyUpdate(i, a) \/ RealtimeUpdate(i, a)
    \/ Tick
    \/ StoreQueue \/ UpdatePass
    \/ Others \/ ExitWithUpdates

allVars == <<vars, updateVars>>

\* Passes go on, as in LazyRepository.
UpdateSpec == /\ UpdateInit /\ [][UpdateNext]_allVars
              /\ WF_allVars(StoreQueue) /\ WF_allVars(UpdatePass)

-----------------------------------------------------------------------------
\* Every variable keeps its type; what is queued or in hand has the key of its call.
UpdateTypeOK ==
    /\ TypeOK
    /\ calls \in Seq([id : Ids, action : Actions, time : 1 .. MaxTime,
                  saved : Docs, lazy : BOOLEAN])
    /\ Len(calls) <= MaxUpdates /\ now \in 1 .. MaxTime
    /\ \A k \in Keys : updateQueue[k] # NoUpdate => Key(updateQueue[k]) = k
    /\ \A k \in Keys : updateDir[k] # NoUpdate => Key(updateDir[k]) = k
    /\ upc \in {"rest", "begin", "load", "open", "next", "send", "remove", "commit"}
    /\ ahead \subseteq Keys
    /\ sending # NotSending => Key(sending.update) = sending.key
    /\ upCounter \in 0 .. CommitEvery
    /\ \A i \in Ids : \A n \in patches[i] : calls[n].id = i

\* Update n is in Solr's document, in a file, in hand, or queued and not about to
\* leave the queue.
UpdateKept(n) ==
    \/ Superseded(n)
    \/ n \in patches[calls[n].id]
    \/ updateDir[Key(n)] = n
    \/ upc = "send" /\ sending.update = n
    \/ updateQueue[Key(n)] = n /\ ~(upc = "remove" /\ sending.update = n)

\* An update is lost in these ways only: iterator.remove() takes out the one put while
\* its forerunner was being sent (LazyRepositoryImpl 167-174); another of the same
\* millisecond takes its key (UpdateField 71); an older update that sets the field is
\* sent after it, for the iterator knows no order; the document that was waiting when
\* it reached Solr replaces the patched one; its file cannot be written, or is read back
\* (ErrorUpdateTempStorage 52-53, 79-83); its document is deleted in Solr, by a delete
\* or a clearing; the process ends, with what is queued.
Removed(n)     == upc = "remove" /\ sending.key = Key(n) /\ sending.update # n
KeyTaken(n)    == updateQueue'[Key(n)] > n
SetAgain(n)    == \E m \in patches'[calls[n].id] : m < n /\ m \notin patches[calls[n].id]
Overwritten(n) == LET i == calls[n].id IN index[i] < index'[i] /\ index[i] < calls[n].saved
NoFile(n)      == "disk" \in Env /\ UpdateFails /\ sending.update = n
FileRead(n)    == updateDir[Key(n)] = n /\ LoadUpdates
Cleared(n)     == index[calls[n].id] # None /\ index'[calls[n].id] = None
UpdateLossWindow ==
    [][\A n \in DOMAIN calls : UpdateKept(n) /\ ~UpdateKept(n)' =>
          \/ Removed(n) \/ KeyTaken(n) \/ SetAgain(n) \/ Overwritten(n) \/ NoFile(n) \/ FileRead(n)
          \/ Cleared(n) \/ mode' = "down"]_allVars

\* Lazy updates that set a field reach Solr in the order of their calls; one that was
\* sent at once is taken back by an older one still queued (LazyRepositoryImpl 73-85).
IsSet(n) == calls'[n].action = "set"
SetsInOrder ==
    [][\A i \in Ids : \A m \in patches[i], n \in patches'[i] \ patches[i] :
          IsSet(m) /\ IsSet(n) /\ n < m => ~calls[m].lazy]_allVars

\* Documents before updates (storeQueue 92-95): an update that waited when the pass
\* began, its document queued as well, is sent when Solr has that document or a newer
\* one, unless the pass failed to store a document.
MeetsItsDocument ==
    LET n == sending.update
    IN  mode = "up" /\ upc = "send" /\ n \in early =>
            index[calls[n].id] >= calls[n].saved \/ Superseded(n)

\* Every queued update is tried, sent to Solr with whatever outcome, although a rejected
\* document cuts each pass of the documents short (LazyRepositoryImpl 92-95, 135-137);
\* or else it is displaced in one of two ways: iterator.remove() takes it out in the
\* place of its forerunner, or a later call has taken its key.
QueuedUpdate(n) == n \in DOMAIN calls /\ updateQueue[Key(n)] = n
Tried(n)        == upc = "remove" /\ sending.update = n
Displaced(n)    == \/ QueuedUpdate(n) /\ Removed(n)
                   \/ n \in DOMAIN calls /\ updateQueue[Key(n)] > n
UpdatesTried == \A n \in Updates : QueuedUpdate(n) ~> (Tried(n) \/ Displaced(n))
=============================================================================
