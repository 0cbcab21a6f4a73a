----------------------------- MODULE ExamImport -----------------------------
(***************************************************************************)
(* The import of parts, exams and mini tests (CrawJob; crawPart, crawExam, *)
(* crawMiniTest): the questions of a topic are fetched from another site,  *)
(* a header row that lists the topic is saved, and then the questions,     *)
(* each save in a transaction of its own.  CrawJob imports its topics      *)
(* before the server starts, if there is no question (some topics stand    *)
(* twice in its list, under two parts); requests import one topic.         *)
(* Opening any header of a topic shows all questions of the topic.         *)
(***************************************************************************)
EXTENDS Naturals, Sequences, FiniteSets

CONSTANTS Topics,      \* the topics CrawJob imports, in its order
          Requests,    \* threads that serve import requests
          Job,         \* the thread that starts the application
          MaxRequests, \* bound on the import requests
          MaxEnds      \* bound on the ends of the process

Topic   == {Topics[k] : k \in DOMAIN Topics}
Workers == Requests \cup {Job}
NoWork  == [pc |-> "idle"]

ASSUME TopicsAssumption  == Topics \in Seq(Topic)
ASSUME WorkersAssumption == Job \notin Requests /\ IsFiniteSet(Requests)
ASSUME BoundsAssumption  == MaxRequests \in Nat /\ MaxEnds \in Nat

VARIABLES
    headers,      \* topic -> its rows in exam, test_part or mini_test
    questions,    \* topic -> copies of its questions in question
    work,         \* worker -> the import it runs
    boot,         \* the application: check, import, up, or down
    next,         \* place in Topics of the next import of CrawJob
    requests,     \* import requests so far
    ends,         \* ends of the process so far
    bare,         \* history: topic -> headers saved whose questions never came
    requested,    \* history: topic -> import requests for it
    interrupted   \* history: CrawJob ended early with questions in the table

importVars == <<headers, questions, work, boot, next, requests, ends,
                bare, requested, interrupted>>

NoneOf == [t \in Topic |-> 0]

ImportInit ==
    /\ headers = NoneOf /\ questions = NoneOf /\ bare = NoneOf /\ requested = NoneOf
    /\ work = [w \in Workers |-> NoWork]
    /\ boot = "check" /\ next = 1 /\ requests = 0 /\ ends = 0 /\ interrupted = FALSE

-----------------------------------------------------------------------------
(* The boot                                                                *)

\* Mutant: the job looks for headers.
NoHeaders == \A t \in Topic : headers[t] = 0
\* Mutant: the job does not look.
Unchecked == TRUE
NoQuestions == \A t \in Topic : questions[t] = 0

CheckQuestions ==
    /\ boot = "check"
    /\ boot' = IF NoQuestions THEN "import" ELSE "up"
    /\ next' = 1
    /\ UNCHANGED <<headers, questions, work, requests, ends, bare, requested, interrupted>>

Begins(w, t) == /\ work[w] = NoWork
                /\ work' = [work EXCEPT ![w] = [pc |-> "fetch", topic |-> t]]

NextTopic ==
    /\ boot = "import" /\ next <= Len(Topics)
    /\ Begins(Job, Topics[next])
    /\ next' = next + 1
    /\ UNCHANGED <<headers, questions, boot, requests, ends, bare, requested, interrupted>>

JobDone ==
    /\ boot = "import" /\ next > Len(Topics) /\ work[Job] = NoWork
    /\ boot' = "up"
    /\ UNCHANGED <<headers, questions, work, next, requests, ends, bare, requested, interrupted>>

\* Mutant: the server answers while the job runs.
RequestImportEarly(w, t) ==
    /\ boot \in {"import", "up"} /\ w \in Requests /\ requests < MaxRequests
    /\ Begins(w, t)
    /\ requests' = requests + 1
    /\ requested' = [requested EXCEPT ![t] = @ + 1]
    /\ UNCHANGED <<headers, questions, boot, next, ends, bare, interrupted>>
RequestImport(w, t) ==
    /\ boot = "up" /\ w \in Requests /\ requests < MaxRequests
    /\ Begins(w, t)
    /\ requests' = requests + 1
    /\ requested' = [requested EXCEPT ![t] = @ + 1]
    /\ UNCHANGED <<headers, questions, boot, next, ends, bare, interrupted>>

-----------------------------------------------------------------------------
(* An import                                                               *)

\* The other site answers with the questions, or with none.
Answered(w) ==
    /\ work[w].pc = "fetch"
    /\ \E some \in BOOLEAN :
          work' = [work EXCEPT ![w] = [pc |-> "header", topic |-> @.topic, some |-> some]]
    /\ UNCHANGED <<headers, questions, boot, next, requests, ends, bare, requested, interrupted>>

SaveHeader(w) ==
    /\ work[w].pc = "header"
    /\ headers' = [headers EXCEPT ![work[w].topic] = @ + 1]
    /\ work' = [work EXCEPT ![w].pc = "questions"]
    /\ UNCHANGED <<questions, boot, next, requests, ends, bare, requested, interrupted>>

\* Mutant: an exception of saveAll is caught.
SaveQuestionsCaught(w) ==
    /\ work[w].pc = "questions"
    /\ \E saved \in BOOLEAN :
          questions' = IF work[w].some /\ saved
                       THEN [questions EXCEPT ![work[w].topic] = @ + 1] ELSE questions
    /\ bare' = IF work[w].some THEN bare ELSE [bare EXCEPT ![work[w].topic] = @ + 1]
    /\ work' = [work EXCEPT ![w] = NoWork]
    /\ UNCHANGED <<headers, boot, next, requests, ends, requested, interrupted>>
SaveQuestions(w) ==
    /\ work[w].pc = "questions"
    /\ questions' = IF work[w].some
                    THEN [questions EXCEPT ![work[w].topic] = @ + 1] ELSE questions
    /\ bare' = IF work[w].some THEN bare ELSE [bare EXCEPT ![work[w].topic] = @ + 1]
    /\ work' = [work EXCEPT ![w] = NoWork]
    /\ UNCHANGED <<headers, boot, next, requests, ends, requested, interrupted>>

-----------------------------------------------------------------------------
(* What goes wrong                                                         *)

Waiting(W, t) == {w \in W : work[w].pc = "questions" /\ work[w].topic = t}

\* The imports of the workers W end where they are.
CutShort(W) == /\ work' = [w \in Workers |-> IF w \in W THEN NoWork ELSE work[w]]
               /\ bare' = [t \in Topic |-> bare[t] + Cardinality(Waiting(W, t))]

\* The sender yields null and the loop over it throws, or a save throws: the request
\* is answered with an error.
RequestFails(w) ==
    /\ w \in Requests /\ work[w] # NoWork
    /\ CutShort({w})
    /\ UNCHANGED <<headers, questions, boot, next, requests, ends, requested, interrupted>>

\* The process ends: the same exception in CrawJob stops the start of the application.
Ends ==
    /\ boot # "down" /\ ends < MaxEnds
    /\ boot' = "down" /\ ends' = ends + 1
    /\ CutShort(Workers)
    /\ interrupted' = (interrupted \/ (boot = "import" /\ \E t \in Topic : questions[t] > 0))
    /\ UNCHANGED <<headers, questions, next, requests, requested>>

Restart ==
    /\ boot = "down"
    /\ boot' = "check"
    /\ UNCHANGED <<headers, questions, work, next, requests, ends, bare, requested, interrupted>>

ImportNext ==
    \/ CheckQuestions \/ NextTopic \/ JobDone \/ Ends \/ Restart
    \/ \E w \in Workers : \/ Answered(w) \/ SaveHeader(w) \/ SaveQuestions(w)
                          \/ RequestFails(w)
                          \/ \E t \in Topic : RequestImport(w, t)

ImportSpec == ImportInit /\ [][ImportNext]_importVars

-----------------------------------------------------------------------------
(* What must hold                                                          *)

Work(w) == {NoWork} \cup [pc : {"fetch"}, topic : Topic]
                    \cup [pc : {"header", "questions"}, topic : Topic, some : BOOLEAN]

\* The types; only the job works while the application starts, and only requests after
\* that (crawAllDataPart is a @PostConstruct method).
ImportTypeOK ==
    /\ headers \in [Topic -> Nat] /\ questions \in [Topic -> Nat]
    /\ bare \in [Topic -> Nat] /\ requested \in [Topic -> Nat]
    /\ DOMAIN work = Workers /\ \A w \in Workers : work[w] \in Work(w)
    /\ boot \in {"check", "import", "up", "down"} /\ next \in 1 .. Len(Topics) + 1
    /\ requests \in 0 .. MaxRequests /\ ends \in 0 .. MaxEnds /\ interrupted \in BOOLEAN
    /\ boot = "import" \/ work[Job] = NoWork
    /\ boot = "up" \/ \A w \in Requests : work[w] = NoWork

\* What is listed has its questions: each header of a topic brought a copy of them,
\* except for imports cut between their two saves or answered without questions, and
\* for those that run.
ListedHasQuestions ==
    \A t \in Topic :
        headers[t] = questions[t] + bare[t] + Cardinality(Waiting(Workers, t))

\* However often the application is started, the questions of a topic are there once
\* for each place it has in the list of CrawJob and each request for it: the job never
\* adds to what it has imported in an earlier start.  (A topic that stands twice in the
\* list has its questions twice, and both its parts show them twice.)
JobImportsOnce ==
    \A t \in Topic :
        questions[t] <= requested[t] + Cardinality({k \in DOMAIN Topics : Topics[k] = t})

\* The questions of t were imported, or were asked for and did not come.
Came(t) == questions[t] > 0 \/ bare[t] > 0

\* Once the application is up, every topic of CrawJob has questions or was answered
\* without, unless the process ended inside the job after its first questions; then the
\* rest is never imported, since the next start finds questions.
UpMeansComplete ==
    boot = "up" /\ ~interrupted => \A t \in Topic : Came(t)
=============================================================================
