# TLA+ models of the English exam backend

The program is a Spring Boot server for English exams: posts that readers search and view, users and
their roles, exams imported from another site. Posts live in MySQL and, for searching, in Solr. The
modules here model what runs concurrently or can fail half-way in it; source paths below are relative
to `src/src/main/java/org/example/`.

## The system

| part | state | operations | what is hard |
|---|---|---|---|
| lazy Solr repository (`common/solr/repository`) | `saveQueue` (a `ConcurrentHashMap`), files of failed documents, the Solr index | `save`, `deleteById`, `deleteByQuery`, `get`; one scheduler thread runs `storeNewData` every 5 s; `destroy` | the scheduler walks the map with a weakly consistent iterator while requests put and remove; requests to Solr fail, or execute with their answer lost; commits in batches; shutdown while a pass runs; crashes |
| update queue (`LazyRepositoryImpl`, `UpdateField`, `ErrorUpdateTempStorage`) | `updateQueue`, files of failed updates | `update`, lazy or at once; `storeUpdateData` after each `storeNewData`; no caller in the application today | updates wait behind documents; keys by action and millisecond; the iterator knows no order; the files are never read back |
| posts (`PostServiceImpl`, `PostController`, `CrawPost`) | table `post`, search entries through the repository | create, update, delete; loading `posts.json` into an empty table at boot | no transaction spans MySQL and Solr; requests for one post overlap; crash between two stores |
| recently viewed posts (`RecentPostService`) | table `recent_post` | an `@Async` task per view: read, delete the oldest of six, save; the list | tasks of one user overlap on the pool; each database call is its own transaction |
| accounts (`UserServiceImpl`, `UserController`, `JwtRequestFilter`) | table `user` | `initAdmin`, registration, OAuth login, ban, unban, role, update, delete; the filter | look-up and insert in two transactions, no unique constraint; whole-row updates from a stale read |
| session tokens (`JwtTokenUtil`) | none (JWT) | issue, check | nothing: each request loads its account anew |
| exam import (`CrawJob`, `ExamServiceImpl`, `PartServiceImpl`, `MiniTestServiceImpl`) | tables of exams, parts, tests, questions | import of 38 topics at boot, import by request, reads | HTTP failure or crash between topics or between a header and its questions |
| search text (`PostIndexMapper`, `SearchDataGenerator`, `VietnameseConverter`, `PostSolrRepository`) | two fields of the Solr entry | text of a post to words, keyword to a query | five conversions on two sides have to agree; one character decides which field a keyword is matched in; a keyword becomes query syntax |
| lists of posts by page (`PostServiceImpl.getByType`) | none | one query by offset per page | posts come, go and change type between two pages |

The parts meet in four places: one scheduler thread carries documents and then updates; the posts service
calls the repository inside a request, after its commit; viewing a post submits the task of
`RecentPostService`; `JwtRequestFilter` loads the user before any handler. The rest (object storage, HTTP
client, error codes, configuration, data carriers, the vendored Solr) is listed in `PROJECT.json` with the
reason it is left out.

## Modules

* `SearchIndex` is the abstract promise of the repository: documents of an id are numbered in the order
  of their saves; the index holds only saved ones, replaces one only by a newer one of the same id, and
  searchers see snapshots. It does not promise that every document arrives.
* `LazyRepository` is the repository. `saveQueue`, `insertDir`, `counter`, `iter`, `entry` are the fields
  and locals of `LazyRepositoryImpl`/`ErrorSaveTempStorage`; `pc` is the place of the scheduler thread in
  `storeNewData`, one action per step that other threads can see: the test of the queue, the reload of
  the files, opening the iterator, `next()`, the request to Solr (accepted, `IOException`, or a
  `RuntimeException` that ends the pass), `iterator.remove()`, the batch commit and the last one.
  `DeleteQueued`/`DeleteInSolr`/`DeleteFails` are the two halves of `deleteById`. `index` and `visible`
  are what Solr has accepted and what its searcher shows. An id is a number, its place in the hash
  table: the iterator visits ids in that order, sees or misses what changes behind and before it, and
  holds the value of a node that is unlinked under it (`Unlinked`). `saved` and `gone` are history.
  `Promise!Spec`, through an INSTANCE, is the refinement of `SearchIndex`.
* `PostIndexing` extends it with the table of posts, the requests and the boot. The queue, scheduler,
  faults and restarts are those of `LazyRepository`, whose actions it conjoins. An update writes all
  columns, so that it does not matter when it read the row, unless it asks for what it has read: then it
  writes nothing and hands on the row it read, however old (`UpdateUnchanged`). `Resaves` bounds for which
  ids such an update may come, once for each; `rows` is history: the rows of those ids that this process
  may have read.
* `RecentPosts` is `addToRecentPost` in its steps (read, delete, take the date, save) on a pool of
  threads, with posts deleted and the process ended in between. Saving a row that exists keeps its date
  (the column is not updatable). All readers who are not logged in are one user.
* `Accounts` is the user table: rows of a name, look-up and insert apart, changes as read and flush of
  all columns, the filter before them, and `initAdmin` at each start.
* `ExamImport` is the boot job and the imports by request. The three import methods have the same
  shape and are one set of actions: `Answered` (the other site), `SaveHeader`, `SaveQuestions`, each
  save its own transaction. `Topics` is the list of `crawAllDataPart`, in which four topics stand twice
  (parts 1 and 2); a header finds its questions by topic, so both parts then show every question
  twice. `bare`, `requested` and `interrupted` are history.
* `UpdateQueue` extends `LazyRepository` with `update` and `storeUpdateData`. An update is the number of
  its call; there is one field, which "set" writes and "add" adds to. `upc` is the place of the same
  scheduler thread in `storeUpdateData`, which starts when a pass of the documents has returned or
  thrown; `patches` are the updates in the document Solr has; `calls` and `early` are history.
* `PostSearch` has a post indexed and a keyword asked for, over an alphabet with one character of each
  kind that the code tells apart: plain and capital letters, Vietnamese letters (`a_mark`), letters that
  the table of `VietnameseConverter` lacks (`i_foreign`), both with a combining mark, the blank, other white
  space (`tab`), the no-break space, the hyphen, the characters of the query syntax, and all others, comma,
  full stop and apostrophe among them (`comma`). A word is what stands between two neighbouring cuts of the
  trimmed text, so that the loops over words need no recursion. `SearchAssumption` says that titles, texts
  and keywords are sequences of such characters, of any length. `Answers` is the page a query brings; with a
  character of the syntax it may be either. `Found` says what a search means by positions in the typed
  text, without any of the conversions.
* `PostListing` is a reader who turns the pages of a list while requests change it.
* `LazyRepository_proofs`, `UpdateQueue_proofs`, `PostIndexing_proofs`, `RecentPosts_proofs`,
  `Accounts_proofs`, `ExamImport_proofs`, `PostListing_proofs` and `PostSearch_proofs` hold the theorems.
* `MC*` modules and `.cfg` files are the instances checked.

Operators whose comment begins with `Mutant:` are slips of the kind these places invite (a commit one
document late, a queue cleared, a look-up left out). No specification uses them; each takes the place
of the definition after it in a trial that a property must fail.

## Runs

| run | specification and bounds | what it shows |
|---|---|---|
| `queue_all` | every call and fault; 2 ids, 2 versions, commit after 1, reload of none | types; `PromiseKept`: the repository implements `SearchIndex`; `LossWindow`: the only five ways to lose a document |
| `queue_create` | 3 ids saved once, deletes; fair | `CommitPending`, `GetFindsSaved`, `NoDocLost`, `EventuallySearchable` |
| `temp_reload` | one I/O failure is enough | violated: see Findings |
| `updates` | 1 id in 2 versions, 2 updates, a clock of 2, clearing, disk failures, crashes | `MeetsItsDocument`, `UpdateLossWindow`, `SetsInOrder` |
| `updates_live` | 2 ids, one rejected, failing commits, 2 updates, no end of the process; fair | `NoDocLost`, `UpdatesTried`, `ShieldedAccepted` |
| `post_sync` | 2 posts, one from the file, 2 versions, an update that changes nothing, crashes | `OnlyCommittedArticles`, `SearchMatchesPosts` |
| `post_live` | 2 posts from the file, one an introduction, an update that changes nothing, failing deletes; fair, no crashes | `SearchMatchesPosts`, `ArticleBecomesSearchable` |
| `recent_posts` | 2 users, 3 posts, 2 threads, cap 2, 5 views, crashes | `AtMostCap`, `LastTwoViewsShown` |
| `accounts` | 2 names, 3 rows created, 2 threads, restarts | `SingleAccount`, `NoLostChange`, `BootSucceeds` |
| `exam_import` | 3 places of 2 topics, 2 request threads, 2 requests, 2 ends of the process | `ListedHasQuestions`, `JobImportsOnce`, `UpMeansComplete` |
| `search` | titles of up to 2 and keywords of up to 3 characters, 6 texts | what the two fields hold; `FindsPrefixes` |
| `listing` | 4 posts, pages of 2, a clock of 3, 3 changes of the list in a walk | `MissesNoMore`, `RepeatsNoMore` |

The properties say where the code keeps its promise and name exactly where it does not. `LossWindow` names
five steps after which the last document of an id is nowhere: `iterator.remove()` takes out a newer one,
the HTTP half of a delete comes late, a file is not written, a file is read back, the process stops.
`UpdateLossWindow` names eight for an update, each with its line. `SearchMatchesPosts` excepts the posts a
mishap befell (`astray`): overlapping requests of one post, a row handed on that an update read before
another changed or deleted it, an article made an introduction, a delete that failed, a save or delete of
the entry the scheduler holds, an end of the process with the post in memory. `AtMostCap`, `SingleAccount`
and `NoLostChange` except overlapping tasks or requests, the only case in which the code exceeds the cap,
doubles a name, or undoes a change; `MissesNoMore` and `RepeatsNoMore` allow one post missed or repeated
for each that left or entered the list. `UpdatesTried` says that every queued update is sent, unless a
newer one takes its key or `iterator.remove()` takes it out unsent (`Displaced`).

`FindsPrefixes` says whose marks count: none if the keyword has plain letters, digits and blanks only, and
those of all its words as soon as one character is anything else, a comma, a full stop or a tab included;
then it is matched in the other field. A letter that is not Vietnamese never equals the plain one, in
either field. Nothing is said of a keyword with a character of the query syntax, with a combining mark
(the text is normalized and the keyword is not) or with a hyphen (the fields have one for every blank).

Bounds. Two ids are what the races need: one that the iterator holds and one before or behind it; three in
`queue_create`, where batches of two leave a rest. Two versions tell old from new, one in flight while the
other is saved. The commit size is 1 or 2 in place of 15 so that batches end inside a pass, at its end,
and not at all; the reload limit is 0 or 1 in place of 500 so that files are left for a later pass. In
`updates` two updates are a pair for every race (one key, one millisecond, set and add, queued and at
once), and one id in two versions has them meet an older, a newer and no document; in `updates_live` a
second id is the rejected one. `recent_posts` has five views over a cap of two: enough to fill a list,
overflow it and view again. `accounts` allows three rows: the administrator deleted and his name
registered twice. `exam_import` has a repeated topic, two requests so that imports of one topic overlap,
and two ends of the process: one inside the first import, which leaves a header only, and one after the
first questions. In `search` title and text together give several words, and a keyword of three characters
is one word, or two of one letter; titles of two and keywords of two characters are of every kind but
those that a title or a longer keyword would treat like one that is there, and of the six texts each has
kinds that the titles leave out. In the post runs one update that changes nothing is enough, for it leaves
nothing behind but its own hand-over, and in `post_sync` it may meet any later
request; crashes are in that run and failing deletes in `post_live`, and `SearchFollowsPosts` is proved for both
at once. In `listing` four
posts are two full pages, and with three changes a reader can lose or meet again more than one post.

Deadlock is checked except in `recent_posts` (no view is left once `MaxViews` is reached), `accounts`
(with `boot = "failed"` the application does not start), `exam_import` (no request is left once
`MaxRequests` is reached) and `search` (one search, then the end).

Fairness. `scheduleWithFixedDelay` repeats the pass and every exception in it is caught, so a step of the
pass that stays possible is taken (`WF(Pass)`; in `UpdateQueue`, where the pass of the documents and that
of the updates take turns, `WF(StoreQueue)` and `WF(UpdatePass)`); Solr opens the searcher of a commit it
has accepted (`WF(OpenSearcher)`); a request that has committed its row goes on to the repository. Nothing
is assumed of callers, of faults, or of deletes reaching Solr.

## Findings

`temp_reload`: `storeNewData` logs "load from error save storage" and puts the documents of the files back
(`LazyRepositoryImpl` 100-107). The reader's `TypeReference<DataContainer<T>>` (`ErrorSaveTempStorage`
79) is erased, so each bean is a map and `getId` throws on the first; the files are deleted already. A
document that met one I/O error never reaches Solr. `Reloaded` says what the code does. A reload that
works would not be enough: put over newer documents it breaks `PromiseKept` (`ReloadedOver`).

## What is proved

`LazyRepository_proofs`, for every finite or infinite set of ids, every bound and every environment:

* `TypeCorrect`: `TypeOK`, from the invariant `Typed`, which adds that the current entry is a real one
  where it is used and that `counter` is below the batch size but at a commit.
* `SavedOnceIsKept`: `NoDocLost`, under the assumption `SaveOnce` (no second save of an id, no I/O
  failure, no end of the process; the runs that check it satisfy this). `NoDocLost` alone is not
  inductive: the invariant `KeptInv` adds that the queue holds only the last document of an id, that what
  the iterator or the scheduler holds of an unlinked node belongs to a deleted id, and that the iterator
  is always beyond the current entry.
* `RepositoryKeepsPromise`: `Spec => PromiseKept`, without assumptions on the environment. `OrderInv`
  orders the versions of an id along its way, index, entry, iterator, queue, save, so that no step
  brings an older document behind a newer one; `StepKept` maps each step to one of `SearchIndex`.
* `OnlyFiveLosses`: `LossWindow`, without assumptions. `LossInv` says what the scheduler holds at each
  place of its pass, so that each step which takes the last copy away is one of the five.
* `CommitAlwaysPending`: `CommitPending`, under `CommitsGoThrough` (no commit fails, no document is
  rejected, the process does not end; saves may still meet I/O errors). `CountInv`
  bounds what Solr has and does not show by `counter`.
* `GetMissesBriefly`: `GetFindsSaved`, under `CommitsGoThrough` and `SaveOnce`, from the two above.

`ExamImport_proofs`, for every list of topics, any threads and bounds:

* `ImportTypeCorrect`: `ImportTypeOK`.
* `UpHasAllTopics`: `UpMeansComplete`. The invariant `JobInv` adds what makes a start trust the test for
  questions: while the job runs, every topic before its place has come or is the one it works on
  (`Behind`), and a start that was not cut inside the job finds no question or every topic (`AllOrNone`).
* `ListedAreBacked`: `ListedHasQuestions`, which is inductive with the types; the proof counts the
  imports between their two saves.
* `EachPlaceOnce`: `JobImportsOnce`. `OnceInv` counts, for each topic, questions saved and imports running
  against the places of the list the job has passed.

`UpdateQueue_proofs`, in every environment:

* `UpdateTypeCorrect`: `UpdateTypeOK`; everything travels under the key of its call.
* `OnlyNamedLosses` and `LastSetWins`: `UpdateLossWindow` and `SetsInOrder`. `WayInv` orders the updates of a
  key along their way: what is in the file is no newer than what is in hand, that no newer than what is
  queued, nothing queued was sent before, and sets in Solr are older than those that wait.
* `DocumentsComeFirst`: `MeetsItsDocument`. `PassInv` says that in a pass the document of an update that
  waited at its start is still queued in front of the iterator, in hand, or in Solr.
* `UpdatesKeepPromise` and `UpdatesLoseNoDocument`: what is promised of documents holds beside updates too,
  `PromiseKept` always and `NoDocLost` under `SaveOnce`. Each step is one of the documents' or leaves them
  alone (`DocumentsOrAside`), so that `StepKept` and `KeptNext` carry over.

`PostIndexing_proofs`, for any posts, file and bounds:

* `PostTypeCorrect`: `PostTypeOK`, and `OnlyArticlesTravel`: `OnlyCommittedArticles`, in every environment;
  `ArticleInv` adds the requests on their way and what the iterator holds.
* `SearchFollowsPosts`: `SearchMatchesPosts`, under `SolrAnswers` (saves and commits are neither refused nor
  lost; crashes and failing deletes are allowed). `RowsKnown` says that no row read earlier is newer
  than the last commit and that the current one has its type, so that an update that changes
  nothing hands on the current version or leads its post astray (`SyncUnchanged`). `SyncInv` says for a
  post not astray where the version its row asks for is: with its request, in the queue, in the scheduler's hand, or in Solr.

`RecentPosts_proofs`, for any users, posts, threads and cap: `RecentTypeCorrect`; `ListStaysWithinCap`,
`AtMostCap`; `LastViewsAreListed`, `LastTwoViewsShown`. `RecentInv` follows, for a user whose tasks never
overlapped, the one task through its steps with what it has read of the list.

`Accounts_proofs`, for any names and threads: `AccountsTypeCorrect`; `ChangesAreKept`, `NoLostChange`,
where `SeenFits` says that the row a thread has read is the row of the table unless another change came
between; `NamesAreSingle` and `ApplicationStarts`, `SingleAccount` and `BootSucceeds`, from `NameInv`:
without overlap only one thread has seen a name free.

`PostListing_proofs`, for any finite set of posts, page size and bounds: `ListingTypeCorrect`;
`MissesNoMoreCorrect` and `RepeatsNoMoreCorrect`, `MissesNoMore` and `RepeatsNoMore`. Neither is
inductive, for what a later page will leave out or repeat is decided by the rank a post has now, the
number of newer posts in the list (`RowsByRank`: it stands there in every order of the rows). `WalkInv`
therefore counts ahead: the posts missed whose rank is below the offset of the next page are no more than
have left, and the repetitions together with the posts shown whose rank is at or beyond that offset no
more than have entered. Who leaves draws one post over that edge, who enters pushes one back
(`LeaveCounts`, `EnterCounts`).

`PostSearch_proofs`, for titles, texts and keywords of any length: `SearchTypeCorrect`;
`FindsPrefixesCorrect`, `FindsPrefixes`. `SearchInv` is small: the entry is none or that of the post, the
answer is that of the query. The work is in the operators: `FieldsHold` puts each field position by
position against the typed text, which `TrimKeeps` cuts; `WordsOfKeyword` makes the words of a keyword its
maximal stretches without white space; `WildcardFound` brings the two together for one word and
`MatchesFound` for all.

Only model-checked: liveness (`EventuallySearchable`, `ShieldedAccepted`, `UpdatesTried`,
`ArticleBecomesSearchable`), which is out of the prover's reach; and that `TempReturns` is violated. Every
invariant and action property of the passing runs is a theorem, those of documents under the
assumptions named on the environment, which the constants of their runs satisfy.

## Not modelled

* `Page` and the start of a query: the program only ever asks for page 1 of at most 10000 hits, so none of
  its boundaries is met. The pages of users are made like those of posts.
* In the repository: the batch add of a list, the other queries and deletes and the data import, which
  have no caller.
* The conversion of a card of the imported site to a question, which fixes no order or number, and
  `submit`, which stores one row that nothing reads.
* Session tokens: signature and expiry depend on a key and a clock alone; what a request may do is decided
  by the account loaded for it, which is in `Accounts`. Passwords, the listing of users and the search
  for them.
* The Solr client's construction. The time-outs, pool sizes and retries set at `SolrClientCreator` 99 are
  discarded with their builder, so a store may block a pass for long; here it answers or fails.
* HTTP sender, object storage, security configuration, error codes, and data carriers: thin wrappers and
  declarations without state of their own.
* The vendored Solr 8.11.2: a third-party program, taken as the code uses it. It is the bulk of the
  repository and holds all of its JavaScript (the Solr admin pages and example assets); the program itself is
  Java, of whose 5846 lines the definitions of these modules stand for 1168.
