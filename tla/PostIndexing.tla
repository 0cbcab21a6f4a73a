---------------------------- MODULE PostIndexing ----------------------------
(***************************************************************************)
(* Posts in two stores.  PostServiceImpl commits a post to the database    *)
(* and then tells the lazy Solr repository, with nothing that spans both;  *)
(* CrawPost fills an empty database when the process starts.  The module   *)
(* adds the posts table and the requests to LazyRepository, whose queue,   *)
(* scheduler, faults and restarts it keeps.                                *)
(*                                                                         *)
(* The n-th version of a post is the n-th row its requests commit.         *)
(***************************************************************************)
EXTENDS LazyRepository

CONSTANTS Seed,        \* ids the posts of posts.json get
          SeedIntro,   \* those of them of type INTRODUCTION
          Resaves      \* bound: ids of which one update may change nothing

ASSUME SeedAssumption    == Seed \subseteq Ids /\ SeedIntro \subseteq Seed
ASSUME VersionAssumption == MaxDoc # 0    \* every id may be created
ASSUME ResavesAssumption == Resaves \subseteq Ids

VARIABLES
    posts,      \* id -> version of its row, None without a row
    intro,      \* ids whose row has type INTRODUCTION
    indexing,   \* trySavePostToSolr calls to come: the row was just committed
    unindexing, \* ids whose row was deleted, tryDeletePostInSolr to come
    boot,       \* initPosts: check, clear, create, or done
    rows,       \* history: the rows this process may have read, of the ids in resaves
    resaves,    \* ids of which an update that changes nothing may still come
    written,    \* history: the last version committed, per id
    articles,   \* history: the <<id, version>> committed with another type
    astray      \* history: ids whose search entry may differ from the row

postVars == <<posts, intro, indexing, unindexing, boot, rows, resaves, written, articles, astray>>

PostInit == /\ Init
            /\ posts = Empty /\ intro = {} /\ written = Empty
            /\ indexing = {} /\ unindexing = {}
            /\ boot = "check" /\ rows = {} /\ resaves = Resaves /\ articles = {} /\ astray = {}

-----------------------------------------------------------------------------
(***************************************************************************)
(* What can make a search entry differ from the row for good: two requests *)
(* for a post overlap, on their way to the repository or because one has   *)
(* read a row that is no longer current when it saves it; the scheduler    *)
(* holds the post when its queue entry is replaced or removed; an article  *)
(* becomes an introduction, which is skipped and not taken out; a delete   *)
(* fails; the process ends.                                                *)
(***************************************************************************)
Busy(i) == i \in unindexing \cup deleting \/ \E c \in indexing : c.id = i

HeldAtSave(i)   == entry.id = i
HeldAtDelete(i) == (entry.id = i /\ pc = "store") \/ iter.node = i

InMemory(i) == Busy(i) \/ saveQueue[i] # None \/ entry.id = i \/ index[i] # visible[i]

-----------------------------------------------------------------------------
(***************************************************************************)
(* Requests.  An update reads the row, sets its fields and saves it, in no *)
(* transaction.  Hibernate writes every column if one differs from what    *)
(* was read, so that only the row's existence matters, and nothing at all  *)
(* if none does.  Without a row it ends in POST_NOT_FOUND or in the        *)
(* exception of an UPDATE that meets none.  Any number of requests may     *)
(* have read the same row.                                                 *)
(***************************************************************************)
Serving == mode = "up" /\ boot = "done"

Commits(i, isIntro) ==
    LET d   == written[i] + 1
        row == [id |-> i, doc |-> d, intro |-> isIntro]
    IN  /\ posts' = [posts EXCEPT ![i] = d]
        /\ written' = [written EXCEPT ![i] = d]
        /\ intro' = IF isIntro THEN intro \cup {i} ELSE intro \ {i}
        /\ articles' = IF isIntro THEN articles ELSE articles \cup {<<i, d>>}
        /\ rows' = IF i \in resaves THEN rows \cup {row} ELSE rows
        /\ indexing' = indexing \cup {row}

CreatePost(i, isIntro) ==
    /\ Serving /\ written[i] = None
    /\ Commits(i, isIntro)
    /\ UNCHANGED <<vars, unindexing, boot, resaves, astray>>

UpdatePost(i, isIntro) ==
    /\ Serving /\ posts[i] # None /\ written[i] < MaxDoc
    /\ Commits(i, isIntro)
    /\ astray' = IF Busy(i) \/ (isIntro /\ i \notin intro) THEN astray \cup {i} ELSE astray
    /\ UNCHANGED <<vars, unindexing, boot, resaves>>

\* The request asks for what it has read: no UPDATE is sent, whatever the row is by now,
\* and Solr is given what was read.
UpdateUnchanged(c) ==
    /\ Serving /\ c \in rows /\ c.id \in resaves
    /\ resaves' = resaves \ {c.id}
    /\ indexing' = indexing \cup {c}
    /\ astray' = IF c.doc # posts[c.id] THEN astray \cup {c.id} ELSE astray
    /\ rows' = {r \in rows : r.id # c.id}
    /\ UNCHANGED <<vars, posts, intro, unindexing, boot, written, articles>>

\* deleteById throws when there is no row, and Solr is not asked then.
DeletePost(i) ==
    /\ Serving /\ posts[i] # None
    /\ posts' = [posts EXCEPT ![i] = None]
    /\ intro' = intro \ {i}
    /\ unindexing' = unindexing \cup {i}
    /\ astray' = IF Busy(i) THEN astray \cup {i} ELSE astray
    /\ UNCHANGED <<vars, indexing, boot, rows, resaves, written, articles>>

\* Mutant: posts of every type are indexed.
AnyPost(c)   == TRUE
Indexable(c) == ~c.intro

TrySavePostToSolr(c) ==
    /\ c \in indexing /\ mode = "up"
    /\ indexing' = indexing \ {c}
    /\ \/ ~Indexable(c) /\ UNCHANGED <<vars, astray>>
       \/ /\ Indexable(c)
          /\ Save(c.id, c.doc)
          /\ astray' = IF HeldAtSave(c.id) THEN astray \cup {c.id} ELSE astray
    /\ UNCHANGED <<posts, intro, unindexing, boot, rows, resaves, written, articles>>

TryDeletePostInSolr(i) ==
    /\ i \in unindexing
    /\ unindexing' = unindexing \ {i}
    /\ DeleteQueued(i)
    /\ astray' = IF HeldAtDelete(i) THEN astray \cup {i} ELSE astray
    /\ UNCHANGED <<posts, intro, indexing, boot, rows, resaves, written, articles>>

\* RepositoryException: logged, the request succeeds.
DeleteSwallowed(i) ==
    /\ DeleteFails(i)
    /\ astray' = astray \cup {i}
    /\ UNCHANGED <<posts, intro, indexing, unindexing, boot, rows, resaves, written, articles>>

-----------------------------------------------------------------------------
(***************************************************************************)
(* CrawPost.initPosts, before the web server starts.                       *)
(***************************************************************************)
NeedLoadPosts == \A i \in Ids : posts[i] = None

BootCheck ==
    /\ mode = "up" /\ boot = "check"
    /\ boot' = IF NeedLoadPosts THEN "clear" ELSE "done"
    /\ UNCHANGED <<vars, posts, intro, indexing, unindexing, rows, resaves, written, articles, astray>>

\* deleteAllDataInSolr: an exception is logged and the posts are created anyway.
BootClear ==
    /\ mode = "up" /\ boot = "clear"
    /\ boot' = "create"
    /\ \/ DeleteByQuery /\ astray' = {}
       \/ "deleteIo" \in Env /\ UNCHANGED <<vars, astray>>
    /\ UNCHANGED <<posts, intro, indexing, unindexing, rows, resaves, written, articles>>

\* createPost of one post of the file: a call returns before the next begins.
Unseeded == {i \in Seed : written[i] = None}

BootCreate(i) ==
    /\ mode = "up" /\ boot = "create" /\ indexing = {}
    /\ i \in Unseeded
    /\ Commits(i, i \in SeedIntro)
    /\ UNCHANGED <<vars, unindexing, boot, resaves, astray>>

BootDone ==
    /\ mode = "up" /\ boot = "create" /\ indexing = {} /\ Unseeded = {}
    /\ boot' = "done"
    /\ UNCHANGED <<vars, posts, intro, indexing, unindexing, rows, resaves, written, articles, astray>>

\* The process ends: requests and queue are gone, both stores stay.  The next process
\* can read the rows that are left.
ProcessExit ==
    /\ Exit
    /\ indexing' = {} /\ unindexing' = {} /\ boot' = "check"
    /\ rows' = {c \in rows : c.doc = posts[c.id]}
    /\ astray' = astray \cup {i \in Ids : InMemory(i)}
    /\ UNCHANGED <<posts, intro, resaves, written, articles>>

-----------------------------------------------------------------------------
Requests == \/ \E i \in Ids : \/ DeletePost(i) \/ TryDeletePostInSolr(i) \/ DeleteSwallowed(i)
                              \/ \E isIntro \in BOOLEAN : CreatePost(i, isIntro) \/ UpdatePost(i, isIntro)
            \/ \E c \in rows : UpdateUnchanged(c)
            \/ \E c \in indexing : TrySavePostToSolr(c)

Boot == BootCheck \/ BootClear \/ BootDone \/ \E i \in Ids : BootCreate(i)

\* Steps of the repository and of Solr that no request takes part in.
Background == /\ \/ Pass \/ OpenSearcher \/ Restart
                 \/ \E i \in Ids : DeleteInSolr(i)
              /\ UNCHANGED postVars

PostNext == Requests \/ Boot \/ Background \/ ProcessExit

PostSpec == PostInit /\ [][PostNext]_<<vars, postVars>>

Rows == [id : Ids, doc : Docs, intro : BOOLEAN]

\* Requests that have saved a row go on to the repository, a pass goes on, Solr answers
\* and opens the searchers it has promised.
PostFairness ==
    /\ WF_<<vars, postVars>>(Pass /\ UNCHANGED postVars)
    /\ WF_<<vars, postVars>>(OpenSearcher /\ UNCHANGED postVars)
    /\ WF_<<vars, postVars>>(\E c \in indexing : TrySavePostToSolr(c))

FairPostSpec == PostSpec /\ PostFairness

-----------------------------------------------------------------------------
(***************************************************************************)
(* Properties.                                                             *)
(***************************************************************************)
\* Every variable of the composition keeps its type.
PostTypeOK ==
    /\ TypeOK
    /\ posts \in [Ids -> Slot] /\ written \in [Ids -> Slot] /\ intro \subseteq Ids
    /\ indexing \subseteq Rows /\ rows \subseteq Rows /\ resaves \subseteq Resaves
    /\ unindexing \subseteq Ids /\ astray \subseteq Ids /\ articles \subseteq Ids \X Docs
    /\ boot \in {"check", "clear", "create", "done"}

\* Nothing reaches the queue, Solr or a search before the database has committed it
\* as an article; introductions never do (PostServiceImpl 39-46, 56-65, 80-85).
OnlyCommittedArticles ==
    \A i \in Ids : \A d \in {saveQueue[i], index[i], visible[i], insertDir[i]} \ {None} :
        <<i, d>> \in articles

\* When nothing is on its way, a search returns the current version of each article
\* and of nothing else, but for the posts one of the named mishaps has befallen: each
\* request hands its change over and no other order of the steps loses one.
Wanted(i) == IF i \in intro THEN None ELSE posts[i]
Quiet == /\ indexing = {} /\ unindexing = {} /\ deleting = {}
         /\ Queued = {} /\ pc = "idle" /\ ~searcherDue
SearchMatchesPosts == Quiet => \A i \in Ids : visible[i] = Wanted(i) \/ i \in astray

\* A committed article becomes searchable in that version, unless it is changed
\* again or one of the mishaps befalls it.
ArticleBecomesSearchable ==
    \A i \in Ids : \A d \in Docs :
        (posts[i] = d /\ Wanted(i) = d) ~> (visible[i] = d \/ Wanted(i) # d \/ i \in astray)
=============================================================================
