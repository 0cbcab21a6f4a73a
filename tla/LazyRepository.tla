--------------------------- MODULE LazyRepository ---------------------------
(***************************************************************************)
(* The write-behind Solr repository (common/solr/repository): request      *)
(* threads put documents into saveQueue, one scheduler thread carries them *)
(* to Solr every five seconds, failed documents go to files that a later   *)
(* pass reads back, and Spring destroys the bean at shutdown.              *)
(*                                                                         *)
(* An id is a positive number: its order is the order of the hash bins in  *)
(* which a ConcurrentHashMap iterator visits the queue (one id per bin).   *)
(* A document is the number of its version: 1 is the first bean of that    *)
(* id handed to save.                                                      *)
(***************************************************************************)
EXTENDS Naturals, FiniteSets

CONSTANTS Ids,          \* document ids
          MaxDoc,       \* bound on the number of saves per id
          CommitEvery,  \* documents between two commits of a pass (15)
          MaxLoad,      \* a reload stops once it holds more than this (500)
          Poison,       \* ids whose documents make store throw: the mapper
                        \* fails on them, or Solr answers with an error status
          Env           \* what callers and the environment may do

Calls  == {"update", "delete", "clear", "shutdown"}
Faults == {"io", "disk", "commit", "deleteIo", "crash"}

ASSUME IdsAssumption    == Ids \subseteq Nat \ {0}
ASSUME BoundsAssumption == MaxDoc \in Nat /\ CommitEvery \in Nat \ {0} /\ MaxLoad \in Nat
ASSUME EnvAssumption    == Poison \subseteq Ids /\ Env \subseteq Calls \cup Faults

None == 0    \* no document
NoId == 0    \* no node: the iterator is at its end, or there is no iterator

VARIABLES
    saveQueue,    \* id -> queued document
    insertDir,    \* id -> document in the file <id>.json
    deleting,     \* ids whose deleteById has left the queue, not yet reached Solr
    pc,           \* where the scheduler thread is in storeNewData
    iter,         \* its iterator over saveQueue
    entry,        \* the entry next() returned
    counter,      \* documents stored since the last commit of the pass
    index,        \* id -> document Solr has accepted
    visible,      \* id -> document Solr's searcher sees
    searcherDue,  \* Solr has accepted a commit and not opened its searcher yet
    mode,         \* the process: up, closing (in destroy), closed (destroyed), down
    destroyer,    \* the iterator of destroy
    saved,        \* history: the last document handed to save
    gone          \* history: ids whose last call was a delete

callerVars == <<saved, gone>>
solrVars   == <<index, visible, searcherDue>>
passVars   == <<pc, iter, entry, counter>>
lifeVars   == <<mode, destroyer>>
vars == <<saveQueue, insertDir, deleting, passVars, solrVars, lifeVars, callerVars>>

Docs == 1 .. MaxDoc
Slot == Docs \cup {None}
Iterator == [node : Ids \cup {NoId}, frozen : Slot]

NoIterator == [node |-> NoId, frozen |-> None]
NoEntry    == [id |-> NoId, doc |-> None]
Empty      == [i \in Ids |-> None]

-----------------------------------------------------------------------------
(***************************************************************************)
(* The weakly consistent iterator.  It holds the node it returns next; a   *)
(* node unlinked meanwhile is still returned, with the value it had then.  *)
(***************************************************************************)
Queued == {i \in Ids : saveQueue[i] # None}

\* n is the node an iterator reaches when it advances beyond bin i.
IsNodeAfter(n, i) ==
    \/ n = NoId /\ \A j \in Queued : j <= i
    \/ n \in Queued /\ i < n /\ \A j \in Queued : i < j => n <= j

ValueOf(it) == IF it.frozen # None THEN it.frozen ELSE saveQueue[it.node]

\* The iterator it once the entry of i has been unlinked.
Unlinked(it, i) == IF it.node = i /\ it.frozen = None
                   THEN [it EXCEPT !.frozen = saveQueue[i]]
                   ELSE it

Init == /\ saveQueue = Empty /\ insertDir = Empty /\ deleting = {}
        /\ pc = "idle" /\ iter = NoIterator /\ entry = NoEntry /\ counter = 0
        /\ index = Empty /\ visible = Empty /\ searcherDue = FALSE
        /\ mode = "up" /\ destroyer = NoIterator
        /\ saved = Empty /\ gone = {}

-----------------------------------------------------------------------------
(***************************************************************************)
(* Calls of the request threads.                                           *)
(***************************************************************************)
Save(i, d) ==
    /\ mode = "up"
    /\ saveQueue' = [saveQueue EXCEPT ![i] = d]
    /\ saved' = [saved EXCEPT ![i] = d]
    /\ gone' = gone \ {i}
    /\ UNCHANGED <<insertDir, deleting, passVars, solrVars, lifeVars>>

SaveNext(i) == /\ saved[i] < MaxDoc
               /\ saved[i] = None \/ "update" \in Env
               /\ Save(i, saved[i] + 1)

\* Mutant: deleteById that forgets the queue.
DeleteUnqueued(i) ==
    /\ mode = "up" /\ "delete" \in Env
    /\ deleting' = deleting \cup {i}
    /\ gone' = gone \cup {i}
    /\ UNCHANGED <<saveQueue, insertDir, passVars, solrVars, lifeVars, saved>>

\* deleteById leaves the queue first and calls Solr afterwards; its callers
\* delete what they have saved.
DeleteQueued(i) ==
    /\ mode = "up" /\ "delete" \in Env
    /\ saveQueue' = [saveQueue EXCEPT ![i] = None]
    /\ iter' = Unlinked(iter, i)
    /\ deleting' = deleting \cup {i}
    /\ gone' = gone \cup {i}
    /\ UNCHANGED <<insertDir, pc, entry, counter, solrVars, lifeVars, saved>>

\* commitWithin makes Solr open a searcher soon after the delete.
DeleteInSolr(i) ==
    /\ i \in deleting /\ mode # "closed"
    /\ deleting' = deleting \ {i}
    /\ index' = [index EXCEPT ![i] = None]
    /\ searcherDue' = TRUE
    /\ UNCHANGED <<saveQueue, insertDir, passVars, visible, lifeVars, callerVars>>

\* The HTTP call throws; Solr may have executed it all the same.
DeleteFails(i) ==
    /\ i \in deleting /\ ("deleteIo" \in Env \/ mode = "closed")
    /\ deleting' = deleting \ {i}
    /\ \/ UNCHANGED solrVars
       \/ /\ mode # "closed"
          /\ index' = [index EXCEPT ![i] = None]
          /\ searcherDue' = TRUE
          /\ UNCHANGED visible
    /\ UNCHANGED <<saveQueue, insertDir, passVars, lifeVars, callerVars>>

\* deleteByQuery("*:*"): the queue keeps what it holds.
DeleteByQuery ==
    /\ mode = "up" /\ "clear" \in Env
    /\ index' = Empty
    /\ searcherDue' = TRUE
    /\ gone' = {i \in Ids : saved[i] # None}
    /\ UNCHANGED <<saveQueue, insertDir, deleting, passVars, visible, lifeVars, saved>>

\* What get(id) and contains(id) answer from: the queue, then a search.
Get(i) == IF saveQueue[i] # None THEN saveQueue[i] ELSE visible[i]

-----------------------------------------------------------------------------
(***************************************************************************)
(* The scheduler thread: one pass of storeNewData.                         *)
(***************************************************************************)
Storing(p) == mode # "down" /\ pc = p

EndPass == /\ pc' = "idle" /\ iter' = NoIterator /\ entry' = NoEntry /\ counter' = 0

BeginPass ==
    /\ Storing("idle")
    /\ pc' = IF Queued = {} THEN "load" ELSE "open"
    /\ UNCHANGED <<saveQueue, insertDir, deleting, iter, entry, counter,
                   solrVars, lifeVars, callerVars>>

Files == {i \in Ids : insertDir[i] # None}

\* Mutant: a reload that works, and puts each document over what is queued.
ReloadedOver(files) == [i \in Ids |-> IF i \in files THEN insertDir[i] ELSE saveQueue[i]]

\* What forEach puts back into the queue of the documents of the files.  The
\* type reference of the reader is erased, so a document comes back as a map:
\* getId throws on the first one and nothing is put back.
Reloaded(files) == saveQueue

\* Every file that was read is deleted, the oldest first.
LoadFromTemp ==
    /\ Storing("load")
    /\ \E files \in SUBSET Files :
          /\ files = Files \/ Cardinality(files) = MaxLoad + 1
          /\ insertDir' = [i \in Ids |-> IF i \in files THEN None ELSE insertDir[i]]
          /\ saveQueue' = Reloaded(files)
    /\ pc' = IF \A i \in Ids : saveQueue'[i] = None THEN "idle" ELSE "open"
    /\ UNCHANGED <<deleting, iter, entry, counter, solrVars, lifeVars, callerVars>>

OpenIterator ==
    /\ Storing("open")
    /\ \E n \in Ids \cup {NoId} : /\ IsNodeAfter(n, NoId)
                                  /\ iter' = [node |-> n, frozen |-> None]
    /\ pc' = "next"
    /\ UNCHANGED <<saveQueue, insertDir, deleting, entry, counter,
                   solrVars, lifeVars, callerVars>>

NextEntry ==
    /\ Storing("next") /\ iter.node # NoId
    /\ entry' = [id |-> iter.node, doc |-> ValueOf(iter)]
    /\ \E n \in Ids \cup {NoId} : /\ IsNodeAfter(n, iter.node)
                                  /\ iter' = [node |-> n, frozen |-> None]
    /\ pc' = "store"
    /\ UNCHANGED <<saveQueue, insertDir, deleting, counter,
                   solrVars, lifeVars, callerVars>>

SolrAccepts == index' = [index EXCEPT ![entry.id] = entry.doc]

StoreAccepted ==
    /\ Storing("store") /\ mode # "closed" /\ entry.id \notin Poison
    /\ SolrAccepts
    /\ pc' = "remove"
    /\ UNCHANGED <<saveQueue, insertDir, deleting, iter, entry, counter, visible,
                   searcherDue, lifeVars, callerVars>>

\* saveTemp: the file is written, or writing it fails and that is only logged.
SaveTemp(i, d) == \/ insertDir' = [insertDir EXCEPT ![i] = d]
                  \/ "disk" \in Env /\ UNCHANGED insertDir

\* IOException or SolrServerException: caught by store.  The request may have
\* reached Solr before its answer was lost.
StoreFails ==
    /\ Storing("store") /\ mode # "closed" /\ "io" \in Env
    /\ \/ UNCHANGED index
       \/ entry.id \notin Poison /\ SolrAccepts
    /\ SaveTemp(entry.id, entry.doc)
    /\ pc' = "remove"
    /\ UNCHANGED <<saveQueue, deleting, iter, entry, counter, visible, searcherDue,
                   lifeVars, callerVars>>

\* Mutant: a RuntimeException is caught in store as an IOException is, no file written.
StoreThrowsCaught ==
    /\ Storing("store") /\ (entry.id \in Poison \/ mode = "closed")
    /\ pc' = "remove"
    /\ UNCHANGED <<saveQueue, insertDir, deleting, iter, entry, counter,
                   solrVars, lifeVars, callerVars>>

\* Mutant: store tries the same document again until Solr takes it.
StoreThrowsRetried ==
    /\ Storing("store") /\ (entry.id \in Poison \/ mode = "closed")
    /\ UNCHANGED vars

\* A RuntimeException passes through store and ends the pass: the error status
\* of Solr, a failing mapper, or a client that destroy has closed.
StoreThrows ==
    /\ Storing("store") /\ (entry.id \in Poison \/ mode = "closed")
    /\ EndPass
    /\ UNCHANGED <<saveQueue, insertDir, deleting, solrVars, lifeVars, callerVars>>

\* Mutant: one document too many before the commit.
CommitOverdue(n) == n > CommitEvery
CommitDue(n)     == n >= CommitEvery

\* Mutant: saveQueue.clear() in place of iterator.remove().
DequeuedAll(i) == Empty
Dequeued(i)    == [saveQueue EXCEPT ![i] = None]

\* iterator.remove() takes the entry out whatever its value is by now.
RemoveEntry ==
    /\ Storing("remove")
    /\ saveQueue' = Dequeued(entry.id)
    /\ entry' = NoEntry
    /\ counter' = counter + 1
    /\ pc' = IF CommitDue(counter') THEN "commit" ELSE "next"
    /\ destroyer' = Unlinked(destroyer, entry.id)
    /\ UNCHANGED <<insertDir, deleting, iter, solrVars, mode, callerVars>>

\* A commit request: Solr accepts it, or an exception is logged.
Commit == \/ mode # "closed" /\ searcherDue' = TRUE
          \/ ("commit" \in Env \/ mode = "closed") /\ UNCHANGED searcherDue

BatchCommit ==
    /\ Storing("commit")
    /\ Commit
    /\ counter' = 0
    /\ pc' = "next"
    /\ UNCHANGED <<saveQueue, insertDir, deleting, iter, entry, index, visible,
                   lifeVars, callerVars>>

\* Mutant: no commit after the loop, batches only.
FinalCommitMissing ==
    /\ Storing("next") /\ iter.node = NoId
    /\ EndPass
    /\ UNCHANGED <<saveQueue, insertDir, deleting, solrVars, lifeVars, callerVars>>

FinalCommit ==
    /\ Storing("next") /\ iter.node = NoId
    /\ Commit
    /\ EndPass
    /\ UNCHANGED <<saveQueue, insertDir, deleting, index, visible, lifeVars, callerVars>>

Pass == \/ BeginPass \/ LoadFromTemp \/ OpenIterator \/ NextEntry
        \/ StoreAccepted \/ StoreFails \/ StoreThrows
        \/ RemoveEntry \/ BatchCommit \/ FinalCommit

-----------------------------------------------------------------------------
(***************************************************************************)
(* Solr, and the life of the process.                                      *)
(***************************************************************************)
OpenSearcher ==
    /\ searcherDue
    /\ visible' = index
    /\ searcherDue' = FALSE
    /\ UNCHANGED <<saveQueue, insertDir, deleting, passVars, index, lifeVars, callerVars>>

\* Spring destroys the bean once the web server takes no more requests; the
\* scheduler is not stopped.
BeginDestroy ==
    /\ mode = "up" /\ "shutdown" \in Env
    /\ mode' = "closing"
    /\ \E n \in Ids \cup {NoId} : /\ IsNodeAfter(n, NoId)
                                  /\ destroyer' = [node |-> n, frozen |-> None]
    /\ UNCHANGED <<saveQueue, insertDir, deleting, passVars, solrVars, callerVars>>

DestroyEntry ==
    /\ mode = "closing" /\ destroyer.node # NoId
    /\ SaveTemp(destroyer.node, ValueOf(destroyer))
    /\ saveQueue' = [saveQueue EXCEPT ![destroyer.node] = None]
    /\ iter' = Unlinked(iter, destroyer.node)
    /\ \E n \in Ids \cup {NoId} : /\ IsNodeAfter(n, destroyer.node)
                                  /\ destroyer' = [node |-> n, frozen |-> None]
    /\ UNCHANGED <<deleting, pc, entry, counter, solrVars, mode, callerVars>>

CloseClient ==
    /\ mode = "closing" /\ destroyer.node = NoId
    /\ mode' = "closed"
    /\ UNCHANGED <<saveQueue, insertDir, deleting, passVars, solrVars, destroyer, callerVars>>

\* The process ends; what it held in memory is lost.
Exit ==
    /\ \/ mode = "closed"
       \/ mode # "down" /\ "crash" \in Env
    /\ mode' = "down" /\ destroyer' = NoIterator
    /\ saveQueue' = Empty /\ deleting' = {}
    /\ EndPass
    /\ UNCHANGED <<insertDir, solrVars, callerVars>>

Restart == /\ mode = "down"
           /\ mode' = "up"
           /\ UNCHANGED <<saveQueue, insertDir, deleting, passVars, solrVars,
                          destroyer, callerVars>>

DeleteSaved(i) == saved[i] # None /\ DeleteQueued(i)

Calling == \/ \E i \in Ids : SaveNext(i) \/ DeleteSaved(i) \/ DeleteInSolr(i) \/ DeleteFails(i)
           \/ DeleteByQuery
Living  == BeginDestroy \/ DestroyEntry \/ CloseClient \/ Exit \/ Restart

Next == Calling \/ Pass \/ OpenSearcher \/ Living

Spec == Init /\ [][Next]_vars

\* The pool keeps its thread and every exception of a pass is caught, so passes
\* go on (scheduleWithFixedDelay); Solr opens the searchers it has promised.
Fairness == /\ WF_vars(Pass)
            /\ WF_vars(OpenSearcher)

FairSpec == Spec /\ Fairness

-----------------------------------------------------------------------------
(***************************************************************************)
(* Properties.                                                             *)
(***************************************************************************)
\* Every variable keeps its type (the fields of LazyRepositoryImpl, the locals
\* of storeNewData and destroy).
TypeOK ==
    /\ saveQueue \in [Ids -> Slot] /\ insertDir \in [Ids -> Slot]
    /\ deleting \subseteq Ids /\ gone \subseteq Ids /\ saved \in [Ids -> Slot]
    /\ pc \in {"idle", "load", "open", "next", "store", "remove", "commit"}
    /\ iter \in Iterator /\ destroyer \in Iterator
    /\ entry \in [id : Ids \cup {NoId}, doc : Slot]
    /\ counter \in 0 .. CommitEvery
    /\ index \in [Ids -> Slot] /\ visible \in [Ids -> Slot] /\ searcherDue \in BOOLEAN
    /\ mode \in {"up", "closing", "closed", "down"}

\* The last document saved for i is still somewhere: accepted by Solr, in a file,
\* in the hands of the scheduler, or queued and not about to leave the queue.
Removing(i) == pc = "remove" /\ entry.id = i /\ entry.doc = saved[i]
Kept(i) == \/ saved[i] = None \/ i \in gone
           \/ saved[i] \in {insertDir[i], index[i]}
           \/ pc = "store" /\ entry.id = i /\ entry.doc = saved[i]
           \/ saveQueue[i] = saved[i] /\ ~Removing(i)

\* No document is dropped between save and the index: storeNewData hands over
\* each entry before it removes it, also when Solr rejects it or a delete of
\* another id runs in between (LazyRepositoryImpl 118-121).
NoDocLost == \A i \in Ids : Kept(i)

\* A document is lost in five ways only, each for the document and the step named:
\* iterator.remove() takes out a document newer than the one just stored
\* (LazyRepositoryImpl 120-121); the HTTP half of an older deleteById comes after it
\* (217-218); it meets an I/O error and its file is not written (ErrorSaveTempStorage
\* 53-56); its file is read back (83-84); the process is shutting down or ends.
Overtaken(i)   == pc = "remove" /\ entry.id = i /\ entry.doc < saveQueue[i]
DeletedLate(i) == i \in deleting /\ i \notin deleting'
Unwritten(i)   == "disk" \in Env /\ entry.id = i /\ StoreFails /\ UNCHANGED <<insertDir, index>>
ReadBack(i)    == insertDir[i] = saved[i] /\ insertDir'[i] = None
Stopping       == mode # "up" \/ mode' = "down"
LossWindow ==
    [][\A i \in Ids : Kept(i) /\ ~Kept(i)' =>
          Overtaken(i) \/ DeletedLate(i) \/ Unwritten(i) \/ ReadBack(i) \/ Stopping]_vars

\* get and contains miss the document saved last only from iterator.remove() until the
\* commit that follows has its searcher: Solr has accepted the document by then, and that
\* commit is due or counted (LazyRepositoryImpl 207-214 against 119-134).
GetFindsSaved ==
    \A i \in Ids : \/ saved[i] = None \/ i \in gone
                   \/ Get(i) = saved[i]
                   \/ index[i] = saved[i] /\ (searcherDue \/ counter > 0)

\* What Solr has accepted and searches do not see yet is announced by a commit,
\* or counted by the pass that will commit it: after a pass nothing waits
\* (LazyRepositoryImpl 122-134).
Unseen == {i \in Ids : index[i] # visible[i]}
CommitPending ==
    searcherDue \/ Cardinality(Unseen) <= (IF pc = "remove" THEN counter + 1 ELSE counter)

\* A saved document becomes searchable, unless a delete is called for it.
EventuallySearchable ==
    \A i \in Ids : saved[i] # None ~> (visible[i] # None \/ i \in gone)

\* Documents that precede every rejected one in the order of the iterator reach
\* Solr although each pass is cut short (LazyRepositoryImpl 135-137).
Shielded(i) == \A p \in Poison : i < p
ShieldedAccepted ==
    \A i \in Ids : saved[i] # None /\ Shielded(i) ~> (index[i] # None \/ i \in gone)

\* "load from error save storage" (LazyRepositoryImpl 102): a document that leaves the
\* files of failed documents is back in the queue.
TempReturns ==
    [][\A i \in Ids : insertDir[i] # None /\ insertDir'[i] = None => saveQueue'[i] # None]_vars

\* The repository implements SearchIndex, whatever calls and faults occur.
Promise == INSTANCE SearchIndex WITH indexed <- index, shown <- visible
PromiseKept == Promise!Spec
=============================================================================
