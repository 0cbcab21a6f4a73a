------------------------ MODULE PostIndexing_proofs ------------------------
(***************************************************************************)
(* Theorems about posts in two stores, for any set of ids, any file of     *)
(* posts and any bounds.                                                   *)
(***************************************************************************)
EXTENDS PostIndexing, LazyRepository_proofs

USE IdsAssumption, BoundsAssumption, EnvAssumption, SeedAssumption, VersionAssumption
    DEF None, NoId, IdsAssumption, BoundsAssumption, EnvAssumption, SeedAssumption,
        VersionAssumption, Rows

-----------------------------------------------------------------------------
(***************************************************************************)
(* Type correctness.  A step of the repository keeps the types as in       *)
(* LazyRepository_proofs; here a post is saved in any version and deleted  *)
(* whether it was saved or not.                                            *)
(***************************************************************************)
PostTyped == Typed /\ PostTypeOK

\* The initial state is typed.
LEMMA PostTypedInit == PostInit => PostTyped
<1> SUFFICES ASSUME PostInit PROVE PostTyped
  OBVIOUS
<1>1. Typed /\ TypeOK
  BY TypedInit DEF PostInit, Typed
<1>2. Empty \in [Ids -> Slot]
  BY RestTypes
<1>3. QED
  BY <1>1, <1>2 DEF PostInit, PostTyped, PostTypeOK

\* The documents of a request have their type.
LEMMA CommitsType ==
    ASSUME PostTyped, NEW i \in Ids, NEW isIntro \in BOOLEAN, Commits(i, isIntro),
           written[i] < MaxDoc
    PROVE  /\ posts' \in [Ids -> Slot] /\ written' \in [Ids -> Slot] /\ intro' \subseteq Ids
           /\ indexing' \subseteq Rows /\ rows' \subseteq Rows
           /\ articles' \subseteq Ids \X Docs
<1>1. written[i] + 1 \in Docs
  BY DEF PostTyped, PostTypeOK, Slot, Docs
<1>2. QED
  BY <1>1 DEF Commits, PostTyped, PostTypeOK, Slot

\* Steps of the repository alone keep the types of both.
LEMMA BackgroundTyped == PostTyped /\ [Next]_vars /\ UNCHANGED postVars => PostTyped'
<1> SUFFICES ASSUME PostTyped, [Next]_vars, UNCHANGED postVars PROVE PostTyped'
  OBVIOUS
<1>1. Typed' /\ TypeOK'
  BY TypedNext DEF PostTyped, Typed
<1>2. QED
  BY <1>1 DEF PostTyped, PostTypeOK, postVars

\* Every step keeps the types.
LEMMA PostTypedNext == PostTyped /\ [PostNext]_<<vars, postVars>> => PostTyped'
<1> SUFFICES ASSUME PostTyped, [PostNext]_<<vars, postVars>> PROVE PostTyped'
  OBVIOUS
<1>0. Typed /\ TypeOK
  BY DEF PostTyped, Typed
<1>t. UNCHANGED vars => Typed' /\ TypeOK'
  BY <1>0, TypedNext DEF Typed
<1>z. \A i \in Ids : written[i] = None => written[i] < MaxDoc
  BY DEF PostTyped, PostTypeOK
<1>1. ASSUME NEW i \in Ids, NEW isIntro \in BOOLEAN, CreatePost(i, isIntro) PROVE PostTyped'
  BY <1>1, <1>t, <1>z, CommitsType DEF CreatePost, PostTyped, PostTypeOK
<1>2. ASSUME NEW i \in Ids, NEW isIntro \in BOOLEAN, UpdatePost(i, isIntro) PROVE PostTyped'
  BY <1>2, <1>t, CommitsType DEF UpdatePost, PostTyped, PostTypeOK
<1>3. ASSUME NEW i \in Ids, DeletePost(i) PROVE PostTyped'
  BY <1>3, <1>t DEF DeletePost, PostTyped, PostTypeOK, Slot
<1>4. ASSUME NEW c \in indexing, TrySavePostToSolr(c) PROVE PostTyped'
  <2>1. c.id \in Ids /\ c.doc \in Docs
    BY DEF PostTyped, PostTypeOK
  <2>2. CASE UNCHANGED <<vars, astray>>
    BY <1>4, <1>t, <2>2 DEF TrySavePostToSolr, PostTyped, PostTypeOK
  <2>3. CASE Save(c.id, c.doc) /\ astray' \subseteq Ids
    <3>1. Typed' /\ TypeOK'
      BY <1>0, <2>1, <2>3 DEF Save, Typed, TypeOK, Slot, passVars, solrVars, lifeVars
    <3>2. QED
      BY <1>4, <2>3, <3>1 DEF TrySavePostToSolr, PostTyped, PostTypeOK
  <2>4. QED
    BY <1>4, <2>1, <2>2, <2>3 DEF TrySavePostToSolr, PostTyped, PostTypeOK
<1>5. ASSUME NEW i \in Ids, TryDeletePostInSolr(i) PROVE PostTyped'
  <2>1. Unlinked(iter, i) \in Iterator
    BY <1>0, UnlinkedType DEF TypeOK
  <2>2. Typed' /\ TypeOK'
    BY <1>0, <1>5, <2>1
       DEF TryDeletePostInSolr, DeleteQueued, Typed, TypeOK, Slot, solrVars, lifeVars
  <2>3. QED
    BY <1>5, <2>2 DEF TryDeletePostInSolr, PostTyped, PostTypeOK
<1>6. ASSUME NEW i \in Ids, DeleteSwallowed(i) PROVE PostTyped'
  <2>1. Typed' /\ TypeOK'
    BY <1>0, <1>6, TypedNext DEF DeleteSwallowed, Next, Calling, Typed
  <2>2. QED
    BY <1>6, <2>1 DEF DeleteSwallowed, PostTyped, PostTypeOK
<1>7. CASE BootCheck
  BY <1>7, <1>t DEF BootCheck, PostTyped, PostTypeOK
<1>8. CASE BootClear
  <2>1. Typed' /\ TypeOK'
    BY <1>0, <1>t, <1>8, TypedNext DEF BootClear, Next, Calling, Typed
  <2>2. astray' \subseteq Ids
    BY <1>8 DEF BootClear, PostTyped, PostTypeOK
  <2>3. QED
    BY <1>8, <2>1, <2>2 DEF BootClear, PostTyped, PostTypeOK
<1>9. CASE BootDone
  BY <1>9, <1>t DEF BootDone, PostTyped, PostTypeOK
<1>10. ASSUME NEW i \in Ids, BootCreate(i) PROVE PostTyped'
  <2>1. (i \in SeedIntro) \in BOOLEAN
    OBVIOUS
  <2>2. Commits(i, i \in SeedIntro) /\ written[i] < MaxDoc
    BY <1>10, <1>z DEF BootCreate, Unseeded
  <2>3. /\ posts' \in [Ids -> Slot] /\ written' \in [Ids -> Slot] /\ intro' \subseteq Ids
        /\ indexing' \subseteq Rows /\ rows' \subseteq Rows
        /\ articles' \subseteq Ids \X Docs
    BY <2>1, <2>2, CommitsType
  <2>4. QED
    BY <1>10, <1>t, <2>3 DEF BootCreate, PostTyped, PostTypeOK
<1>11. CASE Background
  BY <1>11, BackgroundTyped DEF Background, Next, Calling, Living
<1>12. CASE ProcessExit
  <2>1. Typed' /\ TypeOK'
    BY <1>0, <1>12, TypedNext DEF ProcessExit, Next, Living, Typed
  <2>2. QED
    BY <1>12, <2>1 DEF ProcessExit, PostTyped, PostTypeOK
<1>13. CASE UNCHANGED <<vars, postVars>>
  BY <1>13, BackgroundTyped
<1>14. ASSUME NEW c \in rows, UpdateUnchanged(c) PROVE PostTyped'
  BY <1>14, <1>t DEF UpdateUnchanged, PostTyped, PostTypeOK
<1>15. QED
  BY <1>1, <1>2, <1>3, <1>4, <1>5, <1>6, <1>7, <1>8, <1>9, <1>10, <1>11, <1>12, <1>13, <1>14
     DEF PostNext, Requests, Boot

\* Every variable of the composition keeps its type, in every environment.
THEOREM PostTypeCorrect == PostSpec => []PostTypeOK
<1>1. PostTyped => PostTypeOK
  BY DEF PostTyped
<1>2. QED
  BY <1>1, PostTypedInit, PostTypedNext, PTL DEF PostSpec

-----------------------------------------------------------------------------
(***************************************************************************)
(* Articles.  Wherever a document is on its way -- in the queue, a file,   *)
(* the hands of the scheduler, Solr -- a request has committed it as an    *)
(* article.                                                                *)
(***************************************************************************)
Committed(i, d) == d = None \/ <<i, d>> \in articles

ArticleInv ==
    /\ \A i \in Ids : /\ Committed(i, saveQueue[i]) /\ Committed(i, insertDir[i])
                      /\ Committed(i, index[i]) /\ Committed(i, visible[i])
    /\ iter.node # NoId => Committed(iter.node, iter.frozen)
    /\ entry.id # NoId => Committed(entry.id, entry.doc)
    /\ \A c \in indexing \cup rows : c.intro \/ <<c.id, c.doc>> \in articles

\* Nothing is on its way at the start.
LEMMA ArticleInit == PostInit => ArticleInv
  BY DEF PostInit, Init, ArticleInv, Committed, Empty, NoIterator, NoEntry

\* What Solr accepts is what the scheduler holds.
LEMMA AcceptedDoc == ASSUME TypeOK, SolrAccepts, NEW i \in Ids
                     PROVE  index'[i] = index[i] \/ (i = entry.id /\ index'[i] = entry.doc)
  BY DEF TypeOK, SolrAccepts

\* A pass moves documents, and makes none.
LEMMA PassMovesArticles == ASSUME PostTyped, ArticleInv, Pass, UNCHANGED postVars
                           PROVE  ArticleInv'
<1> USE DEF ArticleInv, Committed, postVars, Storing
<1>0. Typed /\ TypeOK
  BY DEF PostTyped, Typed
<1>1. CASE BeginPass
  BY <1>1 DEF BeginPass, solrVars
<1>2. CASE LoadFromTemp
  <2>1. \A i \in Ids : insertDir'[i] \in {insertDir[i], None} /\ saveQueue' = saveQueue
    BY <1>2 DEF LoadFromTemp, Reloaded
  <2>2. QED
    BY <1>2, <2>1 DEF LoadFromTemp, solrVars
<1>3. CASE OpenIterator
  BY <1>3 DEF OpenIterator, solrVars
<1>4. CASE NextEntry
  <2>1. iter.node \in Ids /\ Committed(iter.node, ValueOf(iter))
    BY <1>0, <1>4 DEF NextEntry, ValueOf, TypeOK, Iterator
  <2>2. iter'.frozen = None /\ entry'.id = iter.node /\ entry'.doc = ValueOf(iter)
    BY <1>4 DEF NextEntry
  <2>3. UNCHANGED <<saveQueue, insertDir, index, visible>>
    BY <1>4 DEF NextEntry, solrVars
  <2>4. QED
    BY <2>1, <2>2, <2>3
<1>5. CASE StoreAccepted
  <2>1. entry.id \in Ids /\ Committed(entry.id, entry.doc)
    BY <1>0, <1>5 DEF StoreAccepted, Typed, TypeOK
  <2>2. \A i \in Ids : index'[i] = index[i] \/ (i = entry.id /\ index'[i] = entry.doc)
    BY <1>0, <1>5, AcceptedDoc DEF StoreAccepted
  <2>3. \A i \in Ids : Committed(i, index'[i])
    BY <2>1, <2>2
  <2>4. QED
    BY <1>5, <2>3 DEF StoreAccepted
<1>6. CASE StoreFails
  <2>1. entry.id \in Ids /\ Committed(entry.id, entry.doc)
    BY <1>0, <1>6 DEF StoreFails, Typed, TypeOK
  <2>2. \A i \in Ids : index'[i] = index[i] \/ (i = entry.id /\ index'[i] = entry.doc)
    BY <1>0, <1>6, AcceptedDoc DEF StoreFails
  <2>3. \A i \in Ids : insertDir'[i] = insertDir[i] \/ (i = entry.id /\ insertDir'[i] = entry.doc)
    BY <1>0, <1>6, <2>1 DEF StoreFails, SaveTemp, TypeOK
  <2>4. \A i \in Ids : Committed(i, index'[i]) /\ Committed(i, insertDir'[i])
    BY <2>1, <2>2, <2>3
  <2>5. QED
    BY <1>6, <2>4 DEF StoreFails
<1>7. CASE StoreThrows
  BY <1>7 DEF StoreThrows, EndPass, NoIterator, NoEntry, solrVars
<1>8. CASE RemoveEntry
  BY <1>0, <1>8 DEF RemoveEntry, Dequeued, CommitDue, NoEntry, TypeOK, solrVars
<1>9. CASE BatchCommit
  BY <1>9 DEF BatchCommit
<1>10. CASE FinalCommit
  BY <1>10 DEF FinalCommit, EndPass, NoIterator, NoEntry
<1>11. QED
  BY <1>1, <1>2, <1>3, <1>4, <1>5, <1>6, <1>7, <1>8, <1>9, <1>10 DEF Pass

\* Every step keeps uncommitted rows and introductions out of the way to Solr.
LEMMA ArticleNext == PostTyped /\ ArticleInv /\ [PostNext]_<<vars, postVars>> => ArticleInv'
<1> SUFFICES ASSUME PostTyped, ArticleInv, [PostNext]_<<vars, postVars>> PROVE ArticleInv'
  OBVIOUS
<1>0. Typed /\ TypeOK
  BY DEF PostTyped, Typed
<1> USE DEF ArticleInv, Committed
<1>1. ASSUME NEW i \in Ids, NEW isIntro \in BOOLEAN, Commits(i, isIntro), UNCHANGED vars
      PROVE  ArticleInv'
  <2>1. PICK d : /\ articles' = IF isIntro THEN articles ELSE articles \cup {<<i, d>>}
                 /\ indexing' = indexing \cup {[id |-> i, doc |-> d, intro |-> isIntro]}
                 /\ rows' \subseteq rows \cup {[id |-> i, doc |-> d, intro |-> isIntro]}
    BY <1>1 DEF Commits
  <2>2. UNCHANGED <<saveQueue, insertDir, index, visible, iter, entry>>
    BY <1>1 DEF vars, passVars, solrVars
  <2>3. ASSUME NEW c \in indexing' \cup rows' PROVE c.intro \/ <<c.id, c.doc>> \in articles'
    <3>1. CASE c \in indexing \cup rows
      BY <2>1, <3>1
    <3>2. CASE c = [id |-> i, doc |-> d, intro |-> isIntro]
      <4>1. c.id = i /\ c.doc = d /\ c.intro = isIntro
        BY <3>2
      <4>2. CASE isIntro
        BY <4>1, <4>2
      <4>3. CASE ~isIntro
        BY <2>1, <4>1, <4>3
      <4>4. QED
        BY <4>2, <4>3
    <3>3. QED
      BY <2>1, <3>1, <3>2
  <2>4. QED
    BY <2>1, <2>2, <2>3
<1>2. ASSUME UNCHANGED vars, indexing' \subseteq indexing \cup rows, rows' \subseteq rows,
             articles' = articles
      PROVE  ArticleInv'
  BY <1>2 DEF vars, passVars, solrVars
<1>3. ASSUME NEW i \in Ids, DeletePost(i) PROVE ArticleInv'
  BY <1>2, <1>3 DEF DeletePost
<1>4. ASSUME NEW c \in indexing, TrySavePostToSolr(c) PROVE ArticleInv'
  <2>1. CASE UNCHANGED vars
    BY <1>2, <1>4, <2>1 DEF TrySavePostToSolr
  <2>2. CASE Indexable(c) /\ Save(c.id, c.doc)
    <3>1. c.id \in Ids /\ Committed(c.id, c.doc)
      BY <2>2 DEF Indexable, PostTyped, PostTypeOK
    <3>2. QED
      BY <1>0, <1>4, <2>2, <3>1 DEF TrySavePostToSolr, Save, TypeOK, passVars, solrVars
  <2>3. QED
    BY <1>4, <2>1, <2>2 DEF TrySavePostToSolr
<1>5. ASSUME NEW i \in Ids, TryDeletePostInSolr(i) PROVE ArticleInv'
  <2>1. /\ saveQueue' = [saveQueue EXCEPT ![i] = None] /\ iter' = Unlinked(iter, i)
        /\ UNCHANGED <<insertDir, index, visible, entry, indexing, rows, articles>>
    BY <1>5 DEF TryDeletePostInSolr, DeleteQueued, solrVars
  <2>2. iter'.node = iter.node /\ (iter.node # NoId => Committed(iter.node, iter'.frozen))
    BY <1>0, <2>1 DEF Unlinked, TypeOK, Iterator
  <2>3. QED
    BY <1>0, <2>1, <2>2 DEF TypeOK
<1>6. ASSUME NEW i \in Ids, DeleteSwallowed(i) PROVE ArticleInv'
  BY <1>0, <1>6 DEF DeleteSwallowed, DeleteFails, TypeOK, passVars, solrVars
<1>7. CASE BootCheck
  BY <1>2, <1>7 DEF BootCheck
<1>8. CASE BootClear
  <2>1. CASE UNCHANGED vars
    BY <1>2, <1>8, <2>1 DEF BootClear
  <2>2. CASE DeleteByQuery
    BY <1>0, <1>8, <2>2 DEF BootClear, DeleteByQuery, Empty, passVars
  <2>3. QED
    BY <1>8, <2>1, <2>2 DEF BootClear
<1>9. CASE BootDone
  BY <1>2, <1>9 DEF BootDone
<1>10. ASSUME NEW i \in Ids, DeleteInSolr(i), UNCHANGED postVars PROVE ArticleInv'
  BY <1>0, <1>10 DEF DeleteInSolr, TypeOK, passVars, postVars
<1>11. CASE Background
  <2>1. CASE OpenSearcher
    BY <1>11, <2>1 DEF Background, OpenSearcher, passVars, postVars
  <2>2. CASE Restart
    BY <1>11, <2>2 DEF Background, Restart, passVars, solrVars, postVars
  <2>3. QED
    BY <1>10, <1>11, <2>1, <2>2, PassMovesArticles DEF Background
<1>12. CASE ProcessExit
  BY <1>12 DEF ProcessExit, Exit, EndPass, Empty, NoIterator, NoEntry, solrVars
<1>13. CASE UNCHANGED <<vars, postVars>>
  BY <1>2, <1>13 DEF postVars
<1>14. ASSUME NEW i \in Ids, NEW isIntro \in BOOLEAN,
              CreatePost(i, isIntro) \/ UpdatePost(i, isIntro)
       PROVE  ArticleInv'
  BY <1>1, <1>14 DEF CreatePost, UpdatePost
<1>15. ASSUME NEW i \in Ids, BootCreate(i) PROVE ArticleInv'
  <2>1. (i \in SeedIntro) \in BOOLEAN /\ Commits(i, i \in SeedIntro) /\ UNCHANGED vars
    BY <1>15 DEF BootCreate
  <2>2. QED
    BY <1>1, <2>1
<1>16. ASSUME NEW c \in rows, UpdateUnchanged(c) PROVE ArticleInv'
  BY <1>2, <1>16 DEF UpdateUnchanged
<1>17. QED
  BY <1>3, <1>4, <1>5, <1>6, <1>7, <1>8, <1>9, <1>11, <1>12, <1>13, <1>14, <1>15, <1>16
     DEF PostNext, Requests, Boot

\* Nothing reaches the queue, Solr or a search before the database has committed it as
\* an article, and introductions never do, in every environment.
THEOREM OnlyArticlesTravel == PostSpec => []OnlyCommittedArticles
<1>1. PostTyped /\ ArticleInv => OnlyCommittedArticles
  BY DEF ArticleInv, Committed, OnlyCommittedArticles
<1>2. QED
  BY <1>1, PostTypedInit, PostTypedNext, ArticleInit, ArticleNext, PTL DEF PostSpec

-----------------------------------------------------------------------------
(***************************************************************************)
(* Search entries, when Solr answers every store and commit and rejects no *)
(* document.                                                               *)
(***************************************************************************)
SolrAnswers == Env \cap {"io", "commit"} = {} /\ Poison = {}

\* The index has what the row wants, or the queue has it.
InStep(i) == IF saveQueue[i] = None THEN index[i] = Wanted(i) ELSE saveQueue[i] = Wanted(i)

\* A change that is to be handed over is the row itself, and nothing else is under way.
HandsOver(i) ==
    \A c \in indexing : c.id = i =>
        /\ posts[i] # None /\ c.doc = posts[i] /\ (c.intro <=> i \in intro)
        /\ i \notin unindexing \cup deleting
        /\ c.intro => saveQueue[i] = None /\ index[i] = None

Deletes(i) == i \in unindexing \cup deleting =>
                 posts[i] = None /\ (i \in deleting => saveQueue[i] = None)

\* The scheduler holds i as the queue has it.
Holds(i) ==
    /\ entry.id = i => IF pc = "store" THEN entry.doc # None /\ entry.doc = saveQueue[i]
                                       ELSE saveQueue[i] \in {None, index[i]}
    /\ iter.node = i => iter.frozen = None /\ saveQueue[i] # None

Announced(i) == index[i] = visible[i] \/ searcherDue \/ counter > 0 \/ pc \in {"remove", "commit"}

InSync(i) == /\ Busy(i) \/ InStep(i)
             /\ HandsOver(i) /\ Deletes(i) /\ Holds(i) /\ Announced(i)

\* Before the application serves requests nothing is under way but the file's posts.
Unserved == /\ indexing = {} /\ unindexing = {} /\ deleting = {}
            /\ saveQueue = Empty /\ pc \in {"idle", "load"}

SyncBoot == /\ mode \in {"up", "down"}
            /\ pc \in {"idle", "load", "open"} => counter = 0 /\ iter = NoIterator
            /\ boot \in {"check", "clear"} => Unserved
            /\ boot = "clear" => NeedLoadPosts
            /\ EntryBehind
            /\ \A i \in Ids : written[i] = None => posts[i] = None /\ ~Busy(i)

SyncInv == SyncBoot /\ \A i \in Ids : i \in astray \/ InSync(i)

\* No row that a request may have read is newer than the last one committed, and if it
\* is the current one it has the type that the table has.
Known(c) == c.doc <= written[c.id] /\ (c.doc = posts[c.id] => (c.intro <=> c.id \in intro))
RowsKnown == \A c \in rows : Known(c)

\* Whatever is read was committed, and a new version is like none that was read.
LEMMA RowsKnownNext == PostTyped /\ RowsKnown /\ [PostNext]_<<vars, postVars>> => RowsKnown'
<1> SUFFICES ASSUME PostTyped, RowsKnown, [PostNext]_<<vars, postVars>> PROVE RowsKnown'
  OBVIOUS
<1>1. ASSUME rows' \subseteq rows, UNCHANGED <<posts, intro, written>> PROVE RowsKnown'
  BY <1>1 DEF RowsKnown, Known
<1>2. ASSUME NEW i \in Ids, NEW isIntro \in BOOLEAN, Commits(i, isIntro) PROVE RowsKnown'
  <2>1. PICK d : /\ d = written[i] + 1
                 /\ posts' = [posts EXCEPT ![i] = d] /\ written' = [written EXCEPT ![i] = d]
                 /\ rows' \subseteq rows \cup {[id |-> i, doc |-> d, intro |-> isIntro]}
                 /\ intro' = IF isIntro THEN intro \cup {i} ELSE intro \ {i}
    BY <1>2 DEF Commits
  <2>2. /\ written[i] \in Nat /\ posts'[i] = d /\ written'[i] = d /\ (i \in intro' <=> isIntro)
        /\ \A j \in Ids : j # i => /\ posts'[j] = posts[j] /\ written'[j] = written[j]
                                   /\ (j \in intro' <=> j \in intro)
    BY <2>1 DEF PostTyped, PostTypeOK, Slot, Docs
  <2>3. ASSUME NEW c \in rows' PROVE Known(c)'
    <3>1. CASE c \in rows
      <4>1. /\ c.id \in Ids /\ c.doc \in Nat /\ c.doc <= written[c.id]
            /\ c.doc = posts[c.id] => (c.intro <=> c.id \in intro)
        BY <3>1 DEF PostTyped, PostTypeOK, Docs, RowsKnown, Known
      <4>2. CASE c.id = i
        BY <2>1, <2>2, <4>1, <4>2 DEF Known
      <4>3. CASE c.id # i
        BY <2>2, <4>1, <4>3 DEF Known
      <4>4. QED
        BY <4>2, <4>3
    <3>2. CASE c = [id |-> i, doc |-> d, intro |-> isIntro]
      <4>1. c.id = i /\ c.doc = d /\ c.intro = isIntro
        BY <3>2
      <4>2. c.doc <= written'[c.id]
        BY <2>1, <2>2, <4>1
      <4>3. c.intro <=> c.id \in intro'
        BY <2>2, <4>1
      <4>4. QED
        BY <4>2, <4>3 DEF Known
    <3>3. QED
      BY <2>1, <3>1, <3>2
  <2>4. QED
    BY <2>3 DEF RowsKnown
<1>3. ASSUME NEW i \in Ids, DeletePost(i) PROVE RowsKnown'
  <2>1. /\ posts'[i] = None /\ written' = written /\ rows' = rows
        /\ \A j \in Ids : j # i => posts'[j] = posts[j] /\ (j \in intro' <=> j \in intro)
    BY <1>3 DEF DeletePost, PostTyped, PostTypeOK
  <2>2. \A c \in rows : c.id \in Ids /\ c.doc # None
    BY DEF PostTyped, PostTypeOK, Docs
  <2>3. QED
    BY <2>1, <2>2 DEF RowsKnown, Known
<1>4. ASSUME NEW i \in Ids, BootCreate(i) PROVE RowsKnown'
  <2>1. (i \in SeedIntro) \in BOOLEAN /\ Commits(i, i \in SeedIntro)
    BY <1>4 DEF BootCreate
  <2>2. QED
    BY <1>2, <2>1
<1>5. ASSUME NEW i \in Ids, NEW isIntro \in BOOLEAN,
             CreatePost(i, isIntro) \/ UpdatePost(i, isIntro)
      PROVE  RowsKnown'
  BY <1>2, <1>5 DEF CreatePost, UpdatePost
<1>6. CASE ProcessExit
  BY <1>1, <1>6 DEF ProcessExit
<1>7. CASE BootCheck \/ BootClear \/ BootDone \/ Background \/ UNCHANGED <<vars, postVars>>
  BY <1>1, <1>7 DEF BootCheck, BootClear, BootDone, Background, postVars
<1>8. ASSUME NEW i \in Ids, TryDeletePostInSolr(i) \/ DeleteSwallowed(i) PROVE RowsKnown'
  BY <1>1, <1>8 DEF TryDeletePostInSolr, DeleteSwallowed
<1>9. ASSUME NEW c \in indexing, TrySavePostToSolr(c) PROVE RowsKnown'
  BY <1>1, <1>9 DEF TrySavePostToSolr
<1>10. ASSUME NEW c \in rows, UpdateUnchanged(c) PROVE RowsKnown'
  BY <1>1, <1>10 DEF UpdateUnchanged
<1>11. QED
  BY <1>3, <1>4, <1>5, <1>6, <1>7, <1>8, <1>9, <1>10 DEF PostNext, Requests, Boot

\* The two stores agree at the start.
LEMMA SyncInit == PostInit => SyncInv
  BY DEF PostInit, Init, SyncInv, SyncBoot, Unserved, EntryBehind, InSync, InStep, HandsOver,
         Deletes,
         Holds, Announced, Busy, Wanted, Empty, NoIterator, NoEntry

\* A step of the scheduler leaves each post in step with Solr.
LEMMA SyncPass == ASSUME SolrAnswers, PostTyped, SyncInv, Pass, UNCHANGED postVars
                  PROVE  SyncInv'
<1>0. /\ Typed /\ TypeOK
      /\ iter.node \in Ids \cup {NoId} /\ entry.id \in Ids \cup {NoId}
      /\ \A j \in Ids : saveQueue[j] \in Slot /\ index[j] \in Slot
  BY DEF PostTyped, Typed, TypeOK, Iterator
<1>1. UNCHANGED <<posts, intro, indexing, unindexing, boot, written, astray>>
  BY DEF postVars
<1>2. UNCHANGED <<deleting, mode>>
  BY DEF Pass, BeginPass, LoadFromTemp, OpenIterator, NextEntry, StoreAccepted, StoreFails,
         StoreThrows, RemoveEntry, BatchCommit, FinalCommit, lifeVars
<1>3. mode # "down" /\ ~StoreFails /\ ~StoreThrows
  BY DEF Pass, BeginPass, LoadFromTemp, OpenIterator, NextEntry, StoreAccepted, StoreFails,
         StoreThrows, RemoveEntry, BatchCommit, FinalCommit, Storing, SolrAnswers, SyncInv, SyncBoot
<1>4. ASSUME NEW j \in Ids PROVE (Busy(j)' <=> Busy(j)) /\ Wanted(j)' = Wanted(j)
  BY <1>1, <1>2 DEF Busy, Wanted
<1>5. NeedLoadPosts' = NeedLoadPosts
  BY <1>1 DEF NeedLoadPosts
<1>6. SUFFICES SyncBoot' /\ \A j \in Ids : InSync(j) => InSync(j)'
  BY <1>1 DEF SyncInv
<1> USE DEF SyncInv, SyncBoot, Storing
<1>7. CASE BeginPass
  <2>1. pc = "idle" /\ pc' = (IF Queued = {} THEN "load" ELSE "open") /\ entry = NoEntry
        /\ UNCHANGED <<saveQueue, iter, entry, counter, index, visible, searcherDue>>
    BY <1>0, <1>7 DEF BeginPass, Typed, solrVars
  <2>2. saveQueue = Empty => Queued = {}
    BY DEF Queued, Empty
  <2>3. SyncBoot'
    BY <1>1, <1>2, <1>4, <1>5, <2>1, <2>2 DEF Unserved, EntryBehind
  <2>4. ASSUME NEW j \in Ids, InSync(j) PROVE InSync(j)'
    BY <1>0, <1>1, <1>2, <1>4, <2>1, <2>4
       DEF InSync, InStep, HandsOver, Deletes, Holds, Announced, NoEntry
  <2>5. QED
    BY <2>3, <2>4
<1>8. CASE LoadFromTemp
  <2>1. pc = "load" /\ pc' \in {"idle", "open"} /\ entry = NoEntry
        /\ (saveQueue = Empty => pc' = "idle")
        /\ UNCHANGED <<saveQueue, iter, entry, counter, index, visible, searcherDue>>
    BY <1>0, <1>8 DEF LoadFromTemp, Reloaded, Empty, Typed, solrVars
  <2>2. SyncBoot'
    BY <1>1, <1>2, <1>4, <1>5, <2>1 DEF Unserved, EntryBehind
  <2>3. ASSUME NEW j \in Ids, InSync(j) PROVE InSync(j)'
    BY <1>0, <1>1, <1>2, <1>4, <2>1, <2>3
       DEF InSync, InStep, HandsOver, Deletes, Holds, Announced, NoEntry
  <2>4. QED
    BY <2>2, <2>3
<1>9. CASE OpenIterator
  <2>1. PICK n \in Ids \cup {NoId} :
           IsNodeAfter(n, NoId) /\ iter' = [node |-> n, frozen |-> None]
    BY <1>9 DEF OpenIterator
  <2>2. iter'.node = n /\ iter'.frozen = None /\ (n # NoId => saveQueue[n] # None)
    BY <2>1 DEF IsNodeAfter, Queued
  <2>3. pc = "open" /\ pc' = "next" /\ entry = NoEntry
        /\ UNCHANGED <<saveQueue, entry, counter, index, visible, searcherDue>>
    BY <1>0, <1>9 DEF OpenIterator, Typed, solrVars
  <2>4. SyncBoot'
    BY <1>1, <1>2, <1>4, <1>5, <2>3 DEF Unserved, EntryBehind, NoEntry
  <2>5. ASSUME NEW j \in Ids, InSync(j) PROVE InSync(j)'
    BY <1>0, <1>1, <1>2, <1>4, <2>2, <2>3, <2>5
       DEF InSync, InStep, HandsOver, Deletes, Holds, Announced, NoEntry
  <2>6. QED
    BY <2>4, <2>5
<1>10. CASE NextEntry
  <2>1. PICK n \in Ids \cup {NoId} :
           IsNodeAfter(n, iter.node) /\ iter' = [node |-> n, frozen |-> None]
    BY <1>10 DEF NextEntry
  <2>2. /\ iter'.node = n /\ iter'.frozen = None
        /\ n # NoId => saveQueue[n] # None /\ iter.node < n
    BY <2>1 DEF IsNodeAfter, Queued
  <2>3. /\ pc = "next" /\ pc' = "store" /\ iter.node # NoId
        /\ entry'.id = iter.node /\ entry'.doc = ValueOf(iter)
        /\ UNCHANGED <<saveQueue, counter, index, visible, searcherDue>>
    BY <1>0, <1>10 DEF NextEntry, solrVars
  <2>4. SyncBoot'
    BY <1>1, <1>2, <1>4, <1>5, <2>2, <2>3 DEF Unserved, EntryBehind
  <2>5. ASSUME NEW j \in Ids, InSync(j) PROVE InSync(j)'
    <3>1. Holds(j)'
      BY <2>2, <2>3, <2>5 DEF InSync, Holds, ValueOf
    <3>2. QED
      BY <1>1, <1>2, <1>4, <2>3, <2>5, <3>1 DEF InSync, InStep, HandsOver, Deletes, Announced
  <2>6. QED
    BY <2>4, <2>5
<1>11. CASE StoreAccepted
  <2>1. /\ pc = "store" /\ pc' = "remove" /\ entry.id \in Ids
        /\ index'[entry.id] = entry.doc
        /\ \A j \in Ids : j # entry.id => index'[j] = index[j]
        /\ UNCHANGED <<saveQueue, iter, entry, counter, visible, searcherDue>>
    BY <1>0, <1>11 DEF StoreAccepted, SolrAccepts, Typed, TypeOK
  <2>2. SyncBoot'
    BY <1>1, <1>2, <1>4, <1>5, <2>1 DEF Unserved, EntryBehind
  <2>3. ASSUME NEW j \in Ids, InSync(j) PROVE InSync(j)'
    BY <1>0, <1>1, <1>2, <1>4, <2>1, <2>3 DEF InSync, InStep, HandsOver, Deletes, Holds, Announced
  <2>4. QED
    BY <2>2, <2>3
<1>12. CASE RemoveEntry
  <2>1. /\ pc = "remove" /\ pc' \in {"commit", "next"} /\ entry.id \in Ids
        /\ saveQueue'[entry.id] = None /\ entry' = NoEntry
        /\ \A j \in Ids : j # entry.id => saveQueue'[j] = saveQueue[j]
        /\ counter' = counter + 1 /\ counter' > 0
        /\ UNCHANGED <<iter, index, visible, searcherDue>>
    BY <1>0, <1>12 DEF RemoveEntry, Dequeued, Typed, TypeOK, solrVars
  <2>2. iter.node # entry.id
    <3>1. entry.id \in Nat /\ entry.id # NoId /\ EntryBehind
      BY <2>1
    <3>2. QED
      BY <3>1 DEF EntryBehind
  <2>3. SyncBoot'
    BY <1>1, <1>2, <1>4, <1>5, <2>1 DEF Unserved, EntryBehind, NoEntry
  <2>4. ASSUME NEW j \in Ids, InSync(j) PROVE InSync(j)'
    <3>1. saveQueue'[j] = None \/ saveQueue'[j] = saveQueue[j]
      BY <2>1
    <3>2. Holds(j)'
      BY <2>1, <2>2, <2>4 DEF InSync, Holds, NoEntry
    <3>3. InStep(j) => InStep(j)'
      BY <1>4, <2>1, <2>4 DEF InSync, InStep, Holds
    <3>4. QED
      BY <1>1, <1>2, <1>4, <2>1, <2>4, <3>1, <3>2, <3>3 DEF InSync, HandsOver, Deletes, Announced
  <2>5. QED
    BY <2>3, <2>4
<1>13. CASE BatchCommit
  <2>1. /\ pc = "commit" /\ pc' = "next" /\ searcherDue' = TRUE
        /\ UNCHANGED <<saveQueue, iter, entry, index, visible>>
    BY <1>13 DEF BatchCommit, Commit, SolrAnswers
  <2>2. SyncBoot' /\ entry = NoEntry
    BY <1>0, <1>1, <1>2, <1>4, <1>5, <2>1 DEF Unserved, EntryBehind, Typed
  <2>3. ASSUME NEW j \in Ids, InSync(j) PROVE InSync(j)'
    BY <1>0, <1>1, <1>2, <1>4, <2>1, <2>2, <2>3
       DEF InSync, InStep, HandsOver, Deletes, Holds, Announced, NoEntry
  <2>4. QED
    BY <2>2, <2>3
<1>14. CASE FinalCommit
  <2>1. /\ pc = "next" /\ pc' = "idle" /\ searcherDue' = TRUE /\ counter' = 0
        /\ iter' = NoIterator /\ entry' = NoEntry
        /\ UNCHANGED <<saveQueue, index, visible>>
    BY <1>14 DEF FinalCommit, EndPass, Commit, SolrAnswers
  <2>2. SyncBoot'
    BY <1>1, <1>2, <1>4, <1>5, <2>1 DEF Unserved, EntryBehind, NoIterator
  <2>3. ASSUME NEW j \in Ids, InSync(j) PROVE InSync(j)'
    BY <1>0, <1>1, <1>2, <1>4, <2>1, <2>3
       DEF InSync, InStep, HandsOver, Deletes, Holds, Announced, NoEntry, NoIterator
  <2>4. QED
    BY <2>2, <2>3
<1>15. QED
  BY <1>3, <1>7, <1>8, <1>9, <1>10, <1>11, <1>12, <1>13, <1>14 DEF Pass

\* A request that changes a row, and the one post of it.
LEMMA SyncCommits ==
    ASSUME PostTyped, SyncInv, NEW i \in Ids, NEW isIntro \in BOOLEAN, Commits(i, isIntro),
           UNCHANGED <<vars, unindexing, boot>>, boot \notin {"check", "clear"},
           astray \subseteq astray',
           i \notin astray' => ~Busy(i) /\ (isIntro => Wanted(i) = None)
    PROVE  SyncInv'
<1>0. /\ Typed /\ TypeOK
      /\ UNCHANGED <<saveQueue, deleting, pc, iter, entry, counter, index, visible, searcherDue, mode>>
  BY DEF PostTyped, Typed, vars, passVars, solrVars, lifeVars
<1>1. PICK d : /\ d = written[i] + 1
               /\ posts' = [posts EXCEPT ![i] = d] /\ written' = [written EXCEPT ![i] = d]
               /\ indexing' = indexing \cup {[id |-> i, doc |-> d, intro |-> isIntro]}
               /\ intro' = IF isIntro THEN intro \cup {i} ELSE intro \ {i}
  BY DEF Commits
<1>2. /\ posts'[i] = d /\ written'[i] = d /\ d # None /\ (i \in intro' <=> isIntro)
      /\ \A j \in Ids : j # i => /\ posts'[j] = posts[j] /\ written'[j] = written[j]
                                 /\ (j \in intro' <=> j \in intro)
  BY <1>1 DEF PostTyped, PostTypeOK, Slot, Docs
<1>3. \A c \in indexing' : c \in indexing \/ (c.id = i /\ c.doc = d /\ c.intro = isIntro)
  BY <1>1
<1>4. \A c \in indexing : c \in indexing'
  BY <1>1
<1>5. ASSUME NEW j \in Ids, j # i
      PROVE  (Busy(j)' <=> Busy(j)) /\ Wanted(j)' = Wanted(j)
  BY <1>0, <1>2, <1>3, <1>4, <1>5 DEF Busy, Wanted
<1>6. SyncBoot'
  <2>1. \A j \in Ids : written'[j] = None => posts'[j] = None /\ ~Busy(j)'
    BY <1>2, <1>5 DEF SyncInv, SyncBoot
  <2>2. EntryBehind'
    BY <1>0 DEF SyncInv, SyncBoot, EntryBehind
  <2>3. QED
    BY <1>0, <2>1, <2>2 DEF SyncInv, SyncBoot
<1>7. ASSUME NEW j \in Ids, j \notin astray', j # i PROVE InSync(j)'
  <2>1. InSync(j)
    BY <1>7 DEF SyncInv
  <2>2. InStep(j)' = InStep(j) /\ Holds(j)' = Holds(j) /\ Announced(j)' = Announced(j)
    BY <1>0, <1>5, <1>7 DEF InStep, Holds, Announced
  <2>3. HandsOver(j)' /\ Deletes(j)'
    BY <1>0, <1>2, <1>3, <1>7, <2>1 DEF InSync, HandsOver, Deletes
  <2>4. QED
    BY <1>5, <1>7, <2>1, <2>2, <2>3 DEF InSync
<1>8. ASSUME i \notin astray' PROVE InSync(i)'
  <2>1. InSync(i) /\ ~Busy(i) /\ (isIntro => Wanted(i) = None)
    BY <1>8 DEF SyncInv
  <2>2. Busy(i)'
    <3>1. [id |-> i, doc |-> d, intro |-> isIntro].id = i
      OBVIOUS
    <3>2. \E c \in indexing' : c.id = i
      BY <1>1, <3>1
    <3>3. QED
      BY <3>2 DEF Busy
  <2>3. isIntro => saveQueue[i] = None /\ index[i] = None
    BY <2>1 DEF InSync, InStep
  <2>4. HandsOver(i)'
    BY <1>0, <1>2, <1>3, <2>1, <2>3 DEF HandsOver, Busy
  <2>5. Deletes(i)'
    BY <1>0, <2>1 DEF Deletes, Busy
  <2>6. Holds(i)' /\ Announced(i)'
    BY <1>0, <2>1 DEF InSync, Holds, Announced
  <2>7. QED
    BY <2>2, <2>4, <2>5, <2>6 DEF InSync
<1>9. QED
  BY <1>6, <1>7, <1>8 DEF SyncInv

\* An update that changes nothing hands over what it has read: the current version, or
\* the post is astray.
LEMMA SyncUnchanged ==
    ASSUME PostTyped, SyncInv, RowsKnown, NEW c \in rows, UpdateUnchanged(c) PROVE SyncInv'
<1> DEFINE i == c.id
<1>0. /\ Typed /\ TypeOK /\ boot = "done" /\ i \in Ids /\ c.doc \in Docs /\ c.doc # None
      /\ indexing' = indexing \cup {c}
      /\ UNCHANGED <<saveQueue, deleting, pc, iter, entry, counter, index, visible, searcherDue,
                     mode, posts, intro, unindexing, boot, written>>
      /\ astray' = IF c.doc # posts[i] THEN astray \cup {i} ELSE astray
  BY DEF UpdateUnchanged, Serving, PostTyped, PostTypeOK, Typed, Docs, vars, passVars, solrVars,
         lifeVars
<1>1. ASSUME NEW j \in Ids
      PROVE  Wanted(j)' = Wanted(j) /\ (Busy(j) => Busy(j)') /\ (j # i => (Busy(j)' <=> Busy(j)))
  BY <1>0, <1>1 DEF Busy, Wanted
<1>2. SyncBoot'
  <2>1. written[i] # None
    <3>1. c.doc <= written[i]
      BY DEF RowsKnown, Known
    <3>2. c.doc \in Nat /\ c.doc # None
      BY <1>0 DEF Docs
    <3>3. QED
      BY <3>1, <3>2
  <2>2. \A j \in Ids : written'[j] = None => posts'[j] = None /\ ~Busy(j)'
    BY <1>0, <1>1, <2>1 DEF SyncInv, SyncBoot
  <2>3. EntryBehind'
    BY <1>0 DEF SyncInv, SyncBoot, EntryBehind
  <2>4. QED
    BY <1>0, <2>2, <2>3 DEF SyncInv, SyncBoot
<1>3. ASSUME NEW j \in Ids, j \notin astray', j # i PROVE InSync(j)'
  <2>1. InSync(j)
    BY <1>0, <1>3 DEF SyncInv
  <2>2. InStep(j)' = InStep(j) /\ Holds(j)' = Holds(j) /\ Announced(j)' = Announced(j)
    BY <1>0, <1>1, <1>3 DEF InStep, Holds, Announced
  <2>3. HandsOver(j)' /\ Deletes(j)'
    BY <1>0, <1>3, <2>1 DEF InSync, HandsOver, Deletes
  <2>4. QED
    BY <1>1, <1>3, <2>1, <2>2, <2>3 DEF InSync
<1>4. ASSUME i \notin astray' PROVE InSync(i)'
  <2>1. /\ InSync(i) /\ c.doc = posts[i] /\ posts[i] # None /\ (c.intro <=> i \in intro)
    BY <1>0, <1>4 DEF SyncInv, RowsKnown, Known
  <2>2. i \notin unindexing \cup deleting
    BY <2>1 DEF InSync, Deletes
  <2>3. c.intro => saveQueue[i] = None /\ index[i] = None
    <3>1. CASE \E e \in indexing : e.id = i
      <4>1. PICK e \in indexing : e.id = i
        BY <3>1
      <4>2. (e.intro <=> i \in intro) /\ (e.intro => saveQueue[i] = None /\ index[i] = None)
        BY <2>1, <4>1 DEF InSync, HandsOver
      <4>3. QED
        BY <2>1, <4>2
    <3>2. CASE ~ \E e \in indexing : e.id = i
      <4>1. InStep(i)
        BY <2>1, <2>2, <3>2 DEF InSync, Busy
      <4>2. QED
        BY <2>1, <4>1 DEF InStep, Wanted
    <3>3. QED
      BY <3>1, <3>2
  <2>4. HandsOver(i)'
    <3>1. ASSUME NEW e \in indexing', e.id = i
          PROVE  /\ posts[i] # None /\ e.doc = posts[i] /\ (e.intro <=> i \in intro)
                 /\ i \notin unindexing \cup deleting
                 /\ e.intro => saveQueue[i] = None /\ index[i] = None
      <4>1. CASE e \in indexing
        BY <2>1, <3>1, <4>1 DEF InSync, HandsOver
      <4>2. CASE e = c
        BY <2>1, <2>2, <2>3, <4>2
      <4>3. QED
        BY <1>0, <4>1, <4>2
    <3>2. QED
      BY <1>0, <3>1 DEF HandsOver
  <2>5. Deletes(i)' /\ Holds(i)' /\ Announced(i)'
    BY <1>0, <2>1 DEF InSync, Deletes, Holds, Announced
  <2>6. Busy(i)'
    <3>1. c \in indexing' /\ c.id = i
      BY <1>0
    <3>2. QED
      BY <3>1 DEF Busy
  <2>7. QED
    BY <2>4, <2>5, <2>6 DEF InSync
<1>5. QED
  BY <1>2, <1>3, <1>4 DEF SyncInv

\* A row that goes leaves its entry to be deleted.
LEMMA SyncDeletePost == ASSUME PostTyped, SyncInv, NEW i \in Ids, DeletePost(i) PROVE SyncInv'
<1>0. /\ Typed /\ TypeOK
      /\ UNCHANGED <<saveQueue, deleting, pc, iter, entry, counter, index, visible, searcherDue, mode,
                     indexing, boot, written>>
  BY DEF DeletePost, PostTyped, Typed, vars, passVars, solrVars, lifeVars
<1>1. /\ posts'[i] = None /\ i \in unindexing' /\ boot = "done" /\ posts[i] # None
      /\ \A j \in Ids : j # i => /\ posts'[j] = posts[j] /\ (j \in unindexing' <=> j \in unindexing)
                                 /\ (j \in intro' <=> j \in intro)
      /\ astray' = IF Busy(i) THEN astray \cup {i} ELSE astray
  BY DEF DeletePost, Serving, PostTyped, PostTypeOK
<1>2. ASSUME NEW j \in Ids, j # i
      PROVE  (Busy(j)' <=> Busy(j)) /\ Wanted(j)' = Wanted(j)
  BY <1>0, <1>1, <1>2 DEF Busy, Wanted
<1>3. SyncBoot'
  BY <1>0, <1>1, <1>2 DEF SyncInv, SyncBoot, EntryBehind
<1>4. ASSUME NEW j \in Ids, j \notin astray', j # i PROVE InSync(j)'
  <2>1. InSync(j)
    BY <1>1, <1>4 DEF SyncInv
  <2>2. InStep(j)' = InStep(j) /\ Holds(j)' = Holds(j) /\ Announced(j)' = Announced(j)
    BY <1>0, <1>2, <1>4 DEF InStep, Holds, Announced
  <2>3. HandsOver(j)' /\ Deletes(j)'
    BY <1>0, <1>1, <1>4, <2>1 DEF InSync, HandsOver, Deletes
  <2>4. QED
    BY <1>2, <1>4, <2>1, <2>2, <2>3 DEF InSync
<1>5. ASSUME i \notin astray' PROVE InSync(i)'
  <2>1. InSync(i) /\ ~Busy(i)
    BY <1>1, <1>5 DEF SyncInv
  <2>2. HandsOver(i)' /\ Deletes(i)' /\ Busy(i)'
    BY <1>0, <1>1, <2>1 DEF HandsOver, Deletes, Busy
  <2>3. Holds(i)' /\ Announced(i)'
    BY <1>0, <2>1 DEF InSync, Holds, Announced
  <2>4. QED
    BY <2>2, <2>3 DEF InSync
<1>6. QED
  BY <1>3, <1>4, <1>5 DEF SyncInv

\* An article that is handed over is queued, an introduction leaves no trace.
LEMMA SyncTrySave ==
    ASSUME PostTyped, SyncInv, NEW c \in indexing, TrySavePostToSolr(c) PROVE SyncInv'
<1> DEFINE i == c.id
<1>0. /\ Typed /\ TypeOK /\ i \in Ids /\ c.doc \in Docs /\ c.doc # None
      /\ indexing' = indexing \ {c}
      /\ UNCHANGED <<deleting, pc, iter, entry, counter, index, visible, searcherDue, mode,
                     posts, intro, unindexing, boot, written>>
  BY DEF TrySavePostToSolr, Save, PostTyped, PostTypeOK, Typed, Docs, vars, passVars, solrVars,
         lifeVars
<1>1. /\ \A j \in Ids : j # i => saveQueue'[j] = saveQueue[j]
      /\ \A j \in Ids : j # i => (j \in astray <=> j \in astray')
      /\ astray \subseteq astray'
  BY <1>0 DEF TrySavePostToSolr, Save, TypeOK, vars
<1>2. ASSUME NEW j \in Ids, j # i
      PROVE  (Busy(j)' <=> Busy(j)) /\ Wanted(j)' = Wanted(j)
  BY <1>0, <1>2 DEF Busy, Wanted
<1>3. SyncBoot'
  <2>1. boot \notin {"check", "clear"}
    BY DEF SyncInv, SyncBoot, Unserved
  <2>2. \A j \in Ids : Busy(j)' => Busy(j)
    BY <1>0 DEF Busy
  <2>3. QED
    BY <1>0, <2>1, <2>2 DEF SyncInv, SyncBoot, EntryBehind
<1>4. ASSUME NEW j \in Ids, j \notin astray', j # i PROVE InSync(j)'
  <2>1. InSync(j)
    BY <1>1, <1>4 DEF SyncInv
  <2>2. InStep(j)' = InStep(j) /\ Holds(j)' = Holds(j) /\ Announced(j)' = Announced(j)
    BY <1>0, <1>1, <1>2, <1>4 DEF InStep, Holds, Announced
  <2>3. HandsOver(j)' /\ Deletes(j)'
    BY <1>0, <1>1, <1>4, <2>1 DEF InSync, HandsOver, Deletes
  <2>4. QED
    BY <1>2, <1>4, <2>1, <2>2, <2>3 DEF InSync
<1>5. ASSUME i \notin astray' PROVE InSync(i)'
  <2>1. /\ InSync(i) /\ posts[i] # None /\ c.doc = posts[i] /\ (c.intro <=> i \in intro)
        /\ i \notin unindexing \cup deleting
        /\ c.intro => saveQueue[i] = None /\ index[i] = None
    BY <1>0, <1>1, <1>5 DEF SyncInv, InSync, HandsOver
  <2>2. \A e \in indexing : e.id = i => e = c
    <3>1. ASSUME NEW e \in indexing, e.id = i PROVE e = c
      <4>1. e.doc = c.doc /\ (e.intro <=> c.intro)
        BY <1>0, <2>1, <3>1 DEF InSync, HandsOver
      <4>2. {e, c} \subseteq Rows
        BY DEF PostTyped, PostTypeOK
      <4>3. QED
        BY <3>1, <4>1, <4>2
    <3>2. QED
      BY <3>1
  <2>3. HandsOver(i)' /\ Deletes(i)'
    BY <1>0, <2>1, <2>2 DEF HandsOver, Deletes
  <2>4. CASE c.intro
    <3>1. saveQueue' = saveQueue
      BY <2>4 DEF TrySavePostToSolr, Indexable, vars
    <3>2. InStep(i)'
      BY <1>0, <2>1, <2>4, <3>1 DEF InStep, Wanted
    <3>3. Holds(i)' /\ Announced(i)'
      BY <1>0, <2>1, <3>1 DEF InSync, Holds, Announced
    <3>4. QED
      BY <2>3, <3>2, <3>3 DEF InSync
  <2>5. CASE ~c.intro
    <3>1. saveQueue'[i] = c.doc /\ entry.id # i
      BY <1>0, <1>5, <2>5 DEF TrySavePostToSolr, Indexable, Save, HeldAtSave, TypeOK
    <3>2. InStep(i)'
      BY <1>0, <2>1, <2>5, <3>1 DEF InStep, Wanted
    <3>3. Holds(i)' /\ Announced(i)'
      BY <1>0, <2>1, <3>1 DEF InSync, Holds, Announced
    <3>4. QED
      BY <2>3, <3>2, <3>3 DEF InSync
  <2>6. QED
    BY <2>4, <2>5
<1>6. QED
  BY <1>3, <1>4, <1>5 DEF SyncInv

\* A delete takes the post out of the queue; the scheduler does not hold it, or it is astray.
LEMMA SyncTryDelete ==
    ASSUME PostTyped, SyncInv, NEW i \in Ids, TryDeletePostInSolr(i) PROVE SyncInv'
<1>0. /\ Typed /\ TypeOK
      /\ saveQueue'[i] = None /\ \A j \in Ids : j # i => saveQueue'[j] = saveQueue[j]
      /\ iter'.node = iter.node /\ (iter.node # i => iter' = iter)
      /\ deleting' = deleting \cup {i} /\ i \in unindexing /\ unindexing' = unindexing \ {i}
      /\ UNCHANGED <<pc, entry, counter, index, visible, searcherDue, mode,
                     posts, intro, indexing, boot, written>>
      /\ astray' = IF HeldAtDelete(i) THEN astray \cup {i} ELSE astray
  BY DEF TryDeletePostInSolr, DeleteQueued, Unlinked, PostTyped, Typed, TypeOK, Iterator,
         solrVars, lifeVars
<1>1. ASSUME NEW j \in Ids
      PROVE  (Busy(j)' <=> Busy(j)) /\ Wanted(j)' = Wanted(j)
  BY <1>0, <1>1 DEF Busy, Wanted
<1>2. SyncBoot'
  <2>1. boot \notin {"check", "clear"}
    BY <1>0 DEF SyncInv, SyncBoot, Unserved
  <2>2. pc \in {"idle", "load", "open"} => iter' = NoIterator
    BY <1>0 DEF SyncInv, SyncBoot, NoIterator
  <2>3. QED
    BY <1>0, <1>1, <2>1, <2>2 DEF SyncInv, SyncBoot, EntryBehind
<1>3. ASSUME NEW j \in Ids, j \notin astray', j # i PROVE InSync(j)'
  <2>1. InSync(j)
    BY <1>0, <1>3 DEF SyncInv
  <2>2. InStep(j)' = InStep(j) /\ Announced(j)' = Announced(j)
    BY <1>0, <1>1, <1>3 DEF InStep, Announced
  <2>3. HandsOver(j)' /\ Deletes(j)' /\ Holds(j)'
    BY <1>0, <1>3, <2>1 DEF InSync, HandsOver, Deletes, Holds
  <2>4. QED
    BY <1>1, <1>3, <2>1, <2>2, <2>3 DEF InSync
<1>4. ASSUME i \notin astray' PROVE InSync(i)'
  <2>1. InSync(i) /\ ~(entry.id = i /\ pc = "store") /\ iter.node # i
    BY <1>0, <1>4 DEF SyncInv, HeldAtDelete
  <2>2. HandsOver(i)' /\ Deletes(i)' /\ Busy(i)'
    BY <1>0, <2>1 DEF InSync, HandsOver, Deletes, Busy
  <2>3. Holds(i)' /\ Announced(i)'
    BY <1>0, <2>1 DEF InSync, Holds, Announced
  <2>4. QED
    BY <2>2, <2>3 DEF InSync
<1>5. QED
  BY <1>2, <1>3, <1>4 DEF SyncInv

\* The HTTP half of a delete: Solr drops the entry, or the post is astray.
LEMMA SyncDeleteInSolr ==
    ASSUME PostTyped, SyncInv, NEW i \in Ids,
           \/ DeleteInSolr(i) /\ UNCHANGED postVars
           \/ DeleteSwallowed(i)
    PROVE  SyncInv'
<1>0. /\ Typed /\ TypeOK
      /\ i \in deleting /\ deleting' = deleting \ {i}
      /\ \A j \in Ids : j # i => index'[j] = index[j]
      /\ searcherDue => searcherDue'
      /\ UNCHANGED <<saveQueue, pc, iter, entry, counter, visible, mode,
                     posts, intro, indexing, unindexing, boot, written>>
      /\ astray \subseteq astray'
      /\ i \notin astray' => index'[i] = None /\ searcherDue'
  BY DEF DeleteSwallowed, DeleteFails, DeleteInSolr, PostTyped, Typed, TypeOK, passVars, solrVars,
         lifeVars, postVars
<1>1. ASSUME NEW j \in Ids, j # i
      PROVE  (Busy(j)' <=> Busy(j)) /\ Wanted(j)' = Wanted(j)
  BY <1>0, <1>1 DEF Busy, Wanted
<1>2. SyncBoot'
  <2>1. boot \notin {"check", "clear"}
    BY <1>0 DEF SyncInv, SyncBoot, Unserved
  <2>2. \A j \in Ids : Busy(j)' => Busy(j)
    BY <1>0 DEF Busy
  <2>3. QED
    BY <1>0, <2>1, <2>2 DEF SyncInv, SyncBoot, EntryBehind
<1>3. ASSUME NEW j \in Ids, j \notin astray', j # i PROVE InSync(j)'
  <2>1. InSync(j)
    BY <1>0, <1>3 DEF SyncInv
  <2>2. (InStep(j) => InStep(j)') /\ Announced(j)' /\ Holds(j)'
    BY <1>0, <1>1, <1>3, <2>1 DEF InSync, InStep, Announced, Holds
  <2>3. HandsOver(j)' /\ Deletes(j)'
    BY <1>0, <1>3, <2>1 DEF InSync, HandsOver, Deletes
  <2>4. QED
    BY <1>1, <1>3, <2>1, <2>2, <2>3 DEF InSync
<1>4. ASSUME i \notin astray' PROVE InSync(i)'
  <2>1. /\ InSync(i) /\ posts[i] = None /\ saveQueue[i] = None
        /\ \A c \in indexing : c.id # i
    BY <1>0, <1>4 DEF SyncInv, InSync, Deletes, HandsOver
  <2>2. InStep(i)' /\ HandsOver(i)' /\ Deletes(i)'
    BY <1>0, <1>4, <2>1 DEF InStep, Wanted, HandsOver, Deletes
  <2>3. Holds(i)' /\ Announced(i)'
    BY <1>0, <1>4, <2>1 DEF InSync, Holds, Announced
  <2>4. QED
    BY <2>2, <2>3 DEF InSync
<1>5. QED
  BY <1>2, <1>3, <1>4 DEF SyncInv

\* The index is cleared while nothing is under way and no post exists.
LEMMA SyncClear ==
    ASSUME PostTyped, SyncInv, BootClear, DeleteByQuery, astray' = {} PROVE SyncInv'
<1>1. /\ Typed /\ TypeOK /\ boot = "clear" /\ boot' = "create"
      /\ index' = Empty /\ searcherDue' = TRUE
      /\ UNCHANGED <<saveQueue, deleting, pc, iter, entry, counter, mode,
                     posts, intro, indexing, unindexing, written>>
  BY DEF BootClear, DeleteByQuery, PostTyped, Typed, passVars, lifeVars
<1>2. /\ Unserved /\ NeedLoadPosts /\ SyncBoot /\ iter = NoIterator /\ entry = NoEntry
  BY <1>1 DEF SyncInv, SyncBoot, Unserved, Typed
<1>3. SyncBoot'
  BY <1>1, <1>2 DEF SyncBoot, EntryBehind, Busy
<1>4. ASSUME NEW j \in Ids PROVE InSync(j)'
  <2>1. /\ saveQueue[j] = None /\ index'[j] = None /\ posts[j] = None /\ j # NoId
    BY <1>1, <1>2 DEF Unserved, NeedLoadPosts, Empty
  <2>2. InStep(j)' /\ HandsOver(j)' /\ Deletes(j)'
    BY <1>1, <1>2, <2>1 DEF InStep, Wanted, HandsOver, Deletes, Unserved
  <2>3. Holds(j)' /\ Announced(j)'
    BY <1>1, <1>2, <2>1 DEF Holds, Announced, NoEntry, NoIterator
  <2>4. QED
    BY <2>2, <2>3 DEF InSync
<1>5. QED
  BY <1>3, <1>4 DEF SyncInv

\* When the process ends, a post that it held in any way is astray.
LEMMA SyncExit == ASSUME PostTyped, SyncInv, ProcessExit PROVE SyncInv'
<1>1. /\ Typed /\ TypeOK /\ boot' = "check" /\ mode' = "down"
      /\ saveQueue' = Empty /\ deleting' = {} /\ indexing' = {} /\ unindexing' = {}
      /\ pc' = "idle" /\ iter' = NoIterator /\ entry' = NoEntry /\ counter' = 0
      /\ UNCHANGED <<index, visible, searcherDue, posts, intro, written>>
      /\ astray' = astray \cup {i \in Ids : InMemory(i)}
  BY DEF ProcessExit, Exit, EndPass, PostTyped, Typed, solrVars
<1>2. SyncBoot'
  BY <1>1 DEF SyncInv, SyncBoot, Unserved, EntryBehind, Busy, NoEntry
<1>3. ASSUME NEW j \in Ids, j \notin astray' PROVE InSync(j)'
  <2>1. /\ InSync(j) /\ ~Busy(j) /\ saveQueue[j] = None /\ index[j] = visible[j] /\ j # NoId
    BY <1>1, <1>3 DEF SyncInv, InMemory
  <2>2. InStep(j)' /\ HandsOver(j)' /\ Deletes(j)'
    BY <1>1, <2>1 DEF InSync, InStep, Wanted, HandsOver, Deletes, Empty
  <2>3. Holds(j)' /\ Announced(j)'
    BY <1>1, <2>1 DEF Holds, Announced, NoEntry, NoIterator
  <2>4. QED
    BY <2>2, <2>3 DEF InSync
<1>4. QED
  BY <1>2, <1>3 DEF SyncInv

\* Steps that change none of the tables, the queue and the index.
LEMMA SyncAside ==
    ASSUME PostTyped, SyncInv,
           \/ boot' \in {boot, "done"}
           \/ boot = "check" /\ boot' = "clear" /\ NeedLoadPosts
           \/ boot = "clear" /\ boot' = "create",
           UNCHANGED <<saveQueue, deleting, pc, iter, entry, counter, index,
                       posts, intro, indexing, unindexing, written, astray>>,
           mode' \in {mode, "up"},
           UNCHANGED <<visible, searcherDue>> \/ visible' = index
    PROVE  SyncInv'
<1>1. SyncBoot'
  <2>1. \A j \in Ids : Busy(j)' <=> Busy(j)
    BY DEF Busy
  <2>2. QED
    BY <2>1 DEF SyncInv, SyncBoot, Unserved, EntryBehind, NeedLoadPosts
<1>2. ASSUME NEW j \in Ids, j \notin astray PROVE InSync(j)'
  <2>1. InSync(j)
    BY <1>2 DEF SyncInv
  <2>2. Announced(j)'
    BY <2>1 DEF InSync, Announced
  <2>3. QED
    BY <2>1, <2>2 DEF InSync, Busy, InStep, Wanted, HandsOver, Deletes, Holds
<1>3. QED
  BY <1>1, <1>2 DEF SyncInv

\* Every step keeps the stores in step for each post that is not astray.
LEMMA SyncNext ==
    ASSUME SolrAnswers
    PROVE  PostTyped /\ SyncInv /\ RowsKnown /\ [PostNext]_<<vars, postVars>> => SyncInv'
<1> SUFFICES ASSUME PostTyped, SyncInv, RowsKnown, [PostNext]_<<vars, postVars>> PROVE SyncInv'
  OBVIOUS
<1> USE DEF passVars, solrVars, lifeVars, vars, postVars
<1>1. ASSUME NEW i \in Ids, written[i] = None
      PROVE  ~Busy(i) /\ Wanted(i) = None /\ posts[i] = None
  BY <1>1 DEF SyncInv, SyncBoot, Wanted
<1>2. ASSUME NEW i \in Ids, NEW isIntro \in BOOLEAN, CreatePost(i, isIntro) PROVE SyncInv'
  <2>1. /\ Commits(i, isIntro) /\ boot = "done" /\ written[i] = None
        /\ UNCHANGED <<vars, unindexing, boot, astray>>
    BY <1>2 DEF CreatePost, Serving
  <2>2. QED
    BY <1>1, <2>1, SyncCommits
<1>3. ASSUME NEW i \in Ids, NEW isIntro \in BOOLEAN, UpdatePost(i, isIntro) PROVE SyncInv'
  <2>1. /\ Commits(i, isIntro) /\ boot = "done"
        /\ UNCHANGED <<vars, unindexing, boot>>
        /\ astray \subseteq astray'
        /\ i \notin astray' => ~Busy(i) /\ (isIntro => Wanted(i) = None)
    BY <1>3 DEF UpdatePost, Serving, Wanted
  <2>2. QED
    BY <2>1, SyncCommits
<1>4. ASSUME NEW i \in Ids, BootCreate(i) PROVE SyncInv'
  <2>1. /\ Commits(i, i \in SeedIntro) /\ boot = "create" /\ written[i] = None
        /\ UNCHANGED <<vars, unindexing, boot, astray>> /\ (i \in SeedIntro) \in BOOLEAN
    BY <1>4 DEF BootCreate, Unseeded
  <2>2. QED
    BY <1>1, <2>1, SyncCommits
<1>5. CASE BootCheck
  BY <1>5, SyncAside DEF BootCheck
<1>6. CASE BootClear
  <2>1. CASE UNCHANGED <<vars, astray>>
    BY <1>6, <2>1, SyncAside DEF BootClear
  <2>2. QED
    BY <1>6, <2>1, SyncClear DEF BootClear
<1>7. CASE BootDone
  BY <1>7, SyncAside DEF BootDone
<1>8. CASE Background
  <2>1. CASE OpenSearcher
    BY <1>8, <2>1, SyncAside DEF Background, OpenSearcher
  <2>2. CASE Restart
    BY <1>8, <2>2, SyncAside DEF Background, Restart
  <2>3. QED
    BY <1>8, <2>1, <2>2, SyncPass, SyncDeleteInSolr DEF Background
<1>9. CASE UNCHANGED <<vars, postVars>>
  BY <1>9, SyncAside
<1>10. QED
  BY <1>2, <1>3, <1>4, <1>5, <1>6, <1>7, <1>8, <1>9, SyncUnchanged, SyncDeletePost, SyncTrySave,
     SyncTryDelete, SyncDeleteInSolr, SyncExit DEF PostNext, Requests, Boot

\* When nothing is on its way, a post that is not astray is searched as its row says.
LEMMA SyncImplies == ASSUME PostTyped, SyncInv PROVE SearchMatchesPosts
<1>1. ASSUME Quiet, NEW i \in Ids, i \notin astray PROVE visible[i] = Wanted(i)
  <2>1. InSync(i) /\ ~Busy(i) /\ counter = 0
    BY <1>1 DEF SyncInv, SyncBoot, Quiet, Busy
  <2>2. saveQueue[i] = None /\ ~searcherDue /\ pc = "idle"
    BY <1>1 DEF Quiet, Queued
  <2>3. QED
    BY <2>1, <2>2 DEF InSync, InStep, Announced
<1>2. QED
  BY <1>1 DEF SearchMatchesPosts

\* When Solr answers each store and commit and rejects no document, a search returns the
\* current version of each article and of nothing else once nothing is on its way, but
\* for the posts a named mishap has befallen; crashes and failing deletes included.
THEOREM SearchFollowsPosts == ASSUME SolrAnswers PROVE PostSpec => []SearchMatchesPosts
<1>1. PostTyped /\ SyncInv /\ RowsKnown /\ [PostNext]_<<vars, postVars>>
         => PostTyped' /\ SyncInv' /\ RowsKnown'
  BY PostTypedNext, SyncNext, RowsKnownNext, SolrAnswers
<1>2. PostInit => RowsKnown
  BY DEF PostInit, RowsKnown
<1>3. QED
  BY <1>1, <1>2, PostTypedInit, SyncInit, SyncImplies, PTL DEF PostSpec
=============================================================================
