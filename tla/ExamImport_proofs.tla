------------------------- MODULE ExamImport_proofs -------------------------
(***************************************************************************)
(* Theorems about the import, for any list of topics, any number of        *)
(* threads and any bounds.                                                 *)
(***************************************************************************)
EXTENDS ExamImport, FiniteSetTheorems, TLAPS

USE TopicsAssumption, WorkersAssumption, BoundsAssumption
    DEF TopicsAssumption, WorkersAssumption, BoundsAssumption

-----------------------------------------------------------------------------
(* Facts the proofs share                                                  *)

\* Places in the list are numbers, and what stands there is a topic.
LEMMA Places ==
    /\ Len(Topics) \in Nat /\ DOMAIN Topics = 1 .. Len(Topics)
    /\ \A k \in 1 .. Len(Topics) : Topics[k] \in Topic
  BY DEF Topic

\* There are finitely many workers.
LEMMA WorkersFinite == IsFiniteSet(Workers)
  BY FS_AddElement DEF Workers

\* How many imports are cut is a number.
LEMMA WaitingFinite ==
    ASSUME NEW W \in SUBSET Workers, NEW t
    PROVE  IsFiniteSet(Waiting(W, t)) /\ Cardinality(Waiting(W, t)) \in Nat
<1>1. Waiting(W, t) \subseteq Workers
  BY DEF Waiting
<1>2. QED
  BY <1>1, WorkersFinite, FS_Subset, FS_CardinalityType

\* Counting one more for a topic, or not, gives counts.
LEMMA OneMore ==
    ASSUME NEW f \in [Topic -> Nat], NEW t \in Topic,
           NEW g, g = f \/ g = [f EXCEPT ![t] = @ + 1]
    PROVE  g \in [Topic -> Nat]
<1>1. [f EXCEPT ![t] = @ + 1] \in [Topic -> Nat]
  OBVIOUS
<1>2. QED
  BY <1>1

\* An import that runs is about a topic, and is not the idle work.
LEMMA WorkKinds ==
    ASSUME NEW w, NEW v \in Work(w)
    PROVE  /\ v = NoWork \/ v.topic \in Topic
           /\ v # NoWork <=> v.pc # "idle"
           /\ v.pc \in {"header", "questions"} => v.some \in BOOLEAN
  BY DEF Work, NoWork

-----------------------------------------------------------------------------
(* Type correctness                                                        *)

\* Cutting imports short leaves the types alone.
LEMMA CutShortType ==
    ASSUME ImportTypeOK, NEW W \in SUBSET Workers, CutShort(W)
    PROVE  /\ bare' \in [Topic -> Nat] /\ DOMAIN work' = Workers
           /\ \A w \in Workers : work'[w] \in Work(w)
           /\ \A t \in Topic : bare'[t] >= bare[t]
<1>1. \A t \in Topic : Cardinality(Waiting(W, t)) \in Nat
  BY WaitingFinite
<1>2. bare \in [Topic -> Nat]
  BY DEF ImportTypeOK
<1>3. bare' = [t \in Topic |-> bare[t] + Cardinality(Waiting(W, t))]
  BY DEF CutShort
<1>4. bare' \in [Topic -> Nat] /\ \A t \in Topic : bare'[t] >= bare[t]
  BY <1>1, <1>2, <1>3
<1>5. DOMAIN work' = Workers /\ \A w \in Workers : work'[w] \in Work(w)
  BY DEF CutShort, ImportTypeOK, Work
<1>6. QED
  BY <1>4, <1>5

\* The initial state is typed.
LEMMA TypedInit == ImportInit => ImportTypeOK
<1> SUFFICES ASSUME ImportInit PROVE ImportTypeOK
  OBVIOUS
<1>1. NoneOf \in [Topic -> Nat]
  BY DEF NoneOf
<1>2. \A w \in Workers : work[w] = NoWork
  BY DEF ImportInit
<1>3. Job \in Workers /\ Requests \subseteq Workers
  BY DEF Workers
<1>4. next \in 1 .. Len(Topics) + 1
  BY Places DEF ImportInit
<1>5. DOMAIN work = Workers /\ \A w \in Workers : work[w] \in Work(w)
  BY <1>2 DEF ImportInit, Work
<1>6. requests \in 0 .. MaxRequests /\ ends \in 0 .. MaxEnds
  BY DEF ImportInit
<1>7. interrupted \in BOOLEAN
  BY Zenon DEF ImportInit
<1>8. QED
  BY <1>1, <1>2, <1>3, <1>4, <1>5, <1>6, <1>7 DEF ImportInit, ImportTypeOK

\* Every step keeps the types.
LEMMA TypedNext == ImportTypeOK /\ [ImportNext]_importVars => ImportTypeOK'
<1> SUFFICES ASSUME ImportTypeOK, [ImportNext]_importVars PROVE ImportTypeOK'
  OBVIOUS
<1> USE DEF ImportTypeOK
<1>1. CASE CheckQuestions
  <2>1. next' \in 1 .. Len(Topics) + 1
    BY <1>1, Places DEF CheckQuestions
  <2>2. QED
    BY <1>1, <2>1 DEF CheckQuestions, Work
<1>2. CASE NextTopic
  <2>1. Job \in Workers /\ Topics[next] \in Topic
    BY <1>2, Places DEF NextTopic, Workers
  <2>2. next' \in 1 .. Len(Topics) + 1
    BY <1>2, Places DEF NextTopic
  <2>3. [pc |-> "fetch", topic |-> Topics[next]] \in [pc : {"fetch"}, topic : Topic]
    BY <2>1
  <2>4. /\ DOMAIN work' = Workers /\ \A w \in Workers : work'[w] \in Work(w)
        /\ \A w \in Requests : work'[w] = work[w]
    BY <1>2, <2>3 DEF NextTopic, Begins, Work
  <2>5. QED
    BY <1>2, <2>2, <2>4 DEF NextTopic
<1>3. CASE JobDone
  BY <1>3 DEF JobDone, Work
<1>4. CASE Ends
  <2>1. \A w \in Workers : work'[w] = NoWork
    BY <1>4 DEF Ends, CutShort
  <2>2. CutShort(Workers)
    BY <1>4 DEF Ends
  <2>3. /\ bare' \in [Topic -> Nat] /\ DOMAIN work' = Workers
        /\ \A w \in Workers : work'[w] \in Work(w)
    BY <2>2, CutShortType
  <2>4. Job \in Workers /\ Requests \subseteq Workers
    BY DEF Workers
  <2>5. ends' \in 0 .. MaxEnds
    BY <1>4 DEF Ends
  <2>6. QED
    BY <1>4, <2>1, <2>3, <2>4, <2>5 DEF Ends
<1>5. CASE Restart
  BY <1>5 DEF Restart, Work
<1>6. ASSUME NEW w \in Workers, Answered(w) PROVE ImportTypeOK'
  <2>1. work[w] # NoWork /\ work[w].topic \in Topic
    BY <1>6, WorkKinds DEF Answered, NoWork
  <2>2. QED
    BY <1>6, <2>1, SMTT(30) DEF Answered, Work, Workers
<1>7. ASSUME NEW w \in Workers, SaveHeader(w) PROVE ImportTypeOK'
  <2>1. /\ work[w] # NoWork /\ work[w].topic \in Topic
        /\ work[w] \in [pc : {"header", "questions"}, topic : Topic, some : BOOLEAN]
    BY <1>7 DEF SaveHeader, Work, NoWork
  <2>2. QED
    BY <1>7, <2>1, SMTT(30) DEF SaveHeader, Work, Workers
<1>8. ASSUME NEW w \in Workers, SaveQuestions(w) PROVE ImportTypeOK'
  <2>1. work[w] # NoWork /\ work[w].topic \in Topic
    BY <1>8, WorkKinds DEF SaveQuestions, NoWork
  <2>2. /\ questions' = questions \/ questions' = [questions EXCEPT ![work[w].topic] = @ + 1]
        /\ bare' = bare \/ bare' = [bare EXCEPT ![work[w].topic] = @ + 1]
    BY <1>8, Zenon DEF SaveQuestions
  <2>3. questions' \in [Topic -> Nat] /\ bare' \in [Topic -> Nat]
    <3>1. questions \in [Topic -> Nat] /\ bare \in [Topic -> Nat]
      OBVIOUS
    <3> HIDE DEF ImportTypeOK
    <3>2. QED
      BY <2>1, <2>2, <3>1, OneMore
  <2>4. /\ DOMAIN work' = Workers /\ \A v \in Workers : work'[v] \in Work(v)
        /\ \A v \in Workers : work[v] = NoWork => work'[v] = NoWork
    BY <1>8 DEF SaveQuestions, Work
  <2>5. QED
    BY <1>8, <2>3, <2>4 DEF SaveQuestions, Workers
<1>9. ASSUME NEW w \in Workers, RequestFails(w) PROVE ImportTypeOK'
  <2>1. CutShort({w}) /\ {w} \in SUBSET Workers
    BY <1>9 DEF RequestFails
  <2>2. /\ bare' \in [Topic -> Nat] /\ DOMAIN work' = Workers
        /\ \A v \in Workers : work'[v] \in Work(v)
    BY <2>1, CutShortType
  <2>3. \A v \in Workers : work[v] = NoWork => work'[v] = NoWork
    BY <2>1 DEF CutShort
  <2>4. Job \in Workers /\ Requests \subseteq Workers
    BY DEF Workers
  <2>5. QED
    BY <1>9, <2>2, <2>3, <2>4 DEF RequestFails
<1>10. ASSUME NEW w \in Workers, NEW t \in Topic, RequestImport(w, t) PROVE ImportTypeOK'
  BY <1>10 DEF RequestImport, Begins, Work, Workers
<1>11. CASE UNCHANGED importVars
  BY <1>11 DEF importVars, Work
<1>12. QED
  BY <1>1, <1>2, <1>3, <1>4, <1>5, <1>6, <1>7, <1>8, <1>9, <1>10, <1>11 DEF ImportNext

\* Every reachable state has the types ImportTypeOK gives, whatever the topics.
THEOREM ImportTypeCorrect == ImportSpec => []ImportTypeOK
  BY TypedInit, TypedNext, PTL DEF ImportSpec

-----------------------------------------------------------------------------
(***************************************************************************)
(* An application that is up has all topics.  While the job runs, every    *)
(* topic before its place has come or is the one it works on; a start that *)
(* was not cut inside the job finds either no question, and imports all,   *)
(* or every topic.                                                         *)
(***************************************************************************)
Present == {t \in Topic : Came(t)}
Behind ==
    boot = "import" =>
        \A k \in 1 .. Len(Topics) :
            k < next => Topics[k] \in Present \/ (work[Job] # NoWork /\ work[Job].topic = Topics[k])
AllOrNone ==
    boot \in {"check", "down"} /\ ~interrupted => NoQuestions \/ Present = Topic
All == boot = "up" /\ ~interrupted => Present = Topic

JobInv == ImportTypeOK /\ Behind /\ AllOrNone /\ All

\* The initial state has no question.
LEMMA JobInit == ImportInit => JobInv
<1> SUFFICES ASSUME ImportInit PROVE JobInv
  OBVIOUS
<1>1. ImportTypeOK
  BY TypedInit
<1>2. NoQuestions
  BY DEF ImportInit, NoQuestions, NoneOf
<1>3. QED
  BY <1>1, <1>2 DEF ImportInit, JobInv, Behind, AllOrNone, All

\* No step takes away what has come.
LEMMA PresentGrows ==
    ASSUME ImportTypeOK, [ImportNext]_importVars
    PROVE  Present \subseteq Present'
<1> DEFINE Grows == \A t \in Topic : questions'[t] >= questions[t] /\ bare'[t] >= bare[t]
<1>1. ASSUME questions' = questions, bare' = bare PROVE Grows
  BY <1>1 DEF ImportTypeOK
<1>2. ASSUME NEW W \in SUBSET Workers, CutShort(W), questions' = questions PROVE Grows
  <2>1. \A t \in Topic : bare'[t] >= bare[t]
    BY <1>2, CutShortType
  <2>2. QED
    BY <1>2, <2>1 DEF ImportTypeOK
<1>3. ASSUME NEW w \in Workers, SaveQuestions(w) PROVE Grows
  BY <1>3 DEF SaveQuestions, ImportTypeOK
<1>4. Grows
  <2>1. CASE Ends
    BY <2>1, <1>2 DEF Ends
  <2>2. ASSUME NEW w \in Workers, RequestFails(w) PROVE Grows
    <3>1. {w} \in SUBSET Workers
      OBVIOUS
    <3>2. QED
      BY <2>2, <3>1, <1>2 DEF RequestFails
  <2>3. QED
    BY <1>1, <1>3, <2>1, <2>2
       DEF ImportNext, CheckQuestions, NextTopic, JobDone, Restart, Answered, SaveHeader,
           RequestImport, importVars
<1>5. /\ questions \in [Topic -> Nat] /\ bare \in [Topic -> Nat]
      /\ questions' \in [Topic -> Nat] /\ bare' \in [Topic -> Nat]
  BY TypedNext DEF ImportTypeOK
<1> HIDE DEF Grows
<1>6. ASSUME NEW t \in Topic, questions[t] > 0 \/ bare[t] > 0
      PROVE  questions'[t] > 0 \/ bare'[t] > 0
  BY <1>4, <1>5, <1>6 DEF Grows
<1>7. QED
  BY <1>6 DEF Came, Present

\* Every step keeps the invariant.
LEMMA JobNext == JobInv /\ [ImportNext]_importVars => JobInv'
<1> SUFFICES ASSUME JobInv, [ImportNext]_importVars PROVE JobInv'
  OBVIOUS
<1>1. ImportTypeOK /\ ImportTypeOK'
  BY TypedNext DEF JobInv
<1>2. Present \subseteq Present' /\ Present' \subseteq Topic
  BY <1>1, PresentGrows DEF Present
<1>3. Job \in Workers /\ Requests \subseteq Workers
  BY DEF Workers
<1> DEFINE Kept == Behind' /\ AllOrNone' /\ All'
<1>4. ASSUME boot' = boot, next' = next, interrupted' = interrupted,
             work'[Job] = work[Job], questions' = questions
      PROVE  Kept
  BY <1>2, <1>4 DEF JobInv, Behind, AllOrNone, All, NoQuestions
<1>5. ASSUME CheckQuestions PROVE Kept
  <2>1. next' = 1 /\ (boot' = "up" => ~NoQuestions) /\ boot' \in {"import", "up"}
    BY <1>5 DEF CheckQuestions
  <2>2. interrupted' = interrupted /\ boot = "check"
    BY <1>5 DEF CheckQuestions
  <2>3. Behind'
    BY <2>1, Places DEF Behind
  <2>4. AllOrNone' /\ All'
    BY <2>1, <2>2, <1>2 DEF JobInv, AllOrNone, All
  <2>5. QED
    BY <2>3, <2>4
<1>6. ASSUME NextTopic PROVE Kept
  <2>1. work'[Job] = [pc |-> "fetch", topic |-> Topics[next]] /\ work[Job] = NoWork
    BY <1>6, <1>1, <1>3 DEF NextTopic, Begins, ImportTypeOK
  <2>2. work'[Job] # NoWork /\ work'[Job].topic = Topics[next]
    BY <2>1 DEF NoWork
  <2>3. next \in Nat /\ next' = next + 1 /\ boot = "import" /\ boot' = boot
    BY <1>6, <1>1, Places DEF NextTopic, ImportTypeOK
  <2>4. Behind'
    BY <1>2, <2>1, <2>2, <2>3, Places DEF JobInv, Behind
  <2>5. QED
    BY <2>3, <2>4 DEF AllOrNone, All
<1>7. ASSUME JobDone PROVE Kept
  <2>1. /\ boot = "import" /\ boot' = "up" /\ work[Job] = NoWork
        /\ next \in Nat /\ next > Len(Topics)
    BY <1>7, <1>1, Places DEF JobDone, ImportTypeOK
  <2>2. \A k \in 1 .. Len(Topics) : Topics[k] \in Present
    BY <2>1, Places DEF JobInv, Behind
  <2>3. Present = Topic
    BY <2>2, Places DEF Topic, Present
  <2>4. QED
    BY <1>2, <2>1, <2>3 DEF Behind, AllOrNone, All
<1>8. ASSUME Ends PROVE Kept
  <2>1. /\ boot' = "down" /\ boot # "down" /\ questions' = questions
        /\ interrupted' = (interrupted \/ (boot = "import" /\ \E t \in Topic : questions[t] > 0))
    BY <1>8 DEF Ends
  <2>2. CASE boot = "import"
    <3>1. questions \in [Topic -> Nat]
      BY <1>1 DEF ImportTypeOK
    <3>2. ~interrupted' => ~\E t \in Topic : questions[t] > 0
      BY <2>1, <2>2, Zenon
    <3>3. (~\E t \in Topic : questions[t] > 0) => NoQuestions'
      BY <2>1, <3>1 DEF NoQuestions
    <3>4. QED
      BY <2>1, <3>2, <3>3 DEF Behind, AllOrNone, All
  <2>3. CASE boot # "import"
    <3>1. ~interrupted' => ~interrupted
      BY <2>1, <2>3
    <3>2. boot \in {"check", "up"}
      BY <1>1, <2>1, <2>3 DEF ImportTypeOK
    <3>3. NoQuestions' <=> NoQuestions
      BY <2>1 DEF NoQuestions
    <3>4. QED
      BY <1>2, <2>1, <3>1, <3>2, <3>3 DEF JobInv, Behind, AllOrNone, All
  <2>4. QED
    BY <2>2, <2>3
<1>9. ASSUME Restart PROVE Kept
  <2>1. NoQuestions' <=> NoQuestions
    BY <1>9 DEF Restart, NoQuestions
  <2>2. boot = "down" /\ boot' = "check" /\ interrupted' = interrupted
    BY <1>9 DEF Restart
  <2>3. QED
    BY <1>2, <2>1, <2>2 DEF JobInv, Behind, AllOrNone, All
<1>10. ASSUME NEW w \in Workers, Answered(w) \/ SaveHeader(w) \/ SaveQuestions(w) PROVE Kept
  <2>1. boot' = boot /\ next' = next /\ interrupted' = interrupted
    BY <1>10 DEF Answered, SaveHeader, SaveQuestions
  <2>2. work[w] # NoWork /\ work[w].topic \in Topic
    BY <1>1, <1>10, WorkKinds DEF Answered, SaveHeader, SaveQuestions, ImportTypeOK, NoWork
  <2>3. boot \in {"import", "up"}
    BY <2>2, <1>1 DEF ImportTypeOK, Workers
  <2>4. work[Job] # NoWork =>
            \/ work[Job].topic \in Present'
            \/ work'[Job] # NoWork /\ work'[Job].topic = work[Job].topic
    <3>1. CASE w = Job /\ SaveQuestions(w)
      <4>1. PICK t \in Topic : t = work[Job].topic
        BY <2>2, <3>1
      <4>2. questions'[t] > 0 \/ bare'[t] > 0
        BY <3>1, <4>1, <1>1 DEF SaveQuestions, ImportTypeOK
      <4>3. t \in Present'
        BY <4>2 DEF Present, Came
      <4>4. QED
        BY <4>1, <4>3
    <3>2. CASE w = Job /\ (Answered(w) \/ SaveHeader(w))
      <4>1. work'[Job].topic = work[Job].topic /\ work'[Job].pc # "idle"
        BY <3>2, <2>2, <1>1, <1>3, SMTT(30) DEF Answered, SaveHeader, ImportTypeOK, Work, NoWork
      <4>2. QED
        BY <4>1 DEF NoWork
    <3>3. CASE w # Job
      BY <1>1, <1>3, <1>10, <3>3 DEF Answered, SaveHeader, SaveQuestions, ImportTypeOK
    <3>4. QED
      BY <1>10, <3>1, <3>2, <3>3
  <2>5. QED
    BY <1>2, <2>1, <2>3, <2>4 DEF JobInv, Behind, AllOrNone, All
<1>11. ASSUME NEW w \in Workers, RequestFails(w) PROVE Kept
  <2>1. work'[Job] = work[Job]
    BY <1>11, <1>3 DEF RequestFails, CutShort
  <2>2. QED
    BY <1>11, <1>4, <2>1 DEF RequestFails
<1>12. ASSUME NEW w \in Workers, NEW t \in Topic, RequestImport(w, t) PROVE Kept
  <2>1. work'[Job] = work[Job]
    BY <1>12, <1>1, <1>3 DEF RequestImport, Begins, ImportTypeOK
  <2>2. QED
    BY <1>12, <1>4, <2>1 DEF RequestImport
<1>13. ASSUME UNCHANGED importVars PROVE Kept
  BY <1>13, <1>4 DEF importVars
<1>14. Kept
  <2> HIDE DEF Kept
  <2> QED
    BY <1>5, <1>6, <1>7, <1>8, <1>9, <1>10, <1>11, <1>12, <1>13 DEF ImportNext
<1>15. QED
  BY <1>1, <1>14 DEF JobInv

\* Whatever the list, an application that is up has imported every topic of it, or has
\* been answered without questions, unless it once ended inside the job after its first
\* questions.
THEOREM UpHasAllTopics == ImportSpec => []UpMeansComplete
<1>1. JobInv => UpMeansComplete
  BY DEF JobInv, All, Present, UpMeansComplete
<1>2. QED
  BY <1>1, JobInit, JobNext, PTL DEF ImportSpec

-----------------------------------------------------------------------------
(***************************************************************************)
(* What is listed has its questions.  ListedHasQuestions with the types is *)
(* inductive: each step moves at most one import between the terms of its  *)
(* sum, but for CutShort, which moves those it cuts from the last to bare. *)
(***************************************************************************)
ListedInv == ImportTypeOK /\ ListedHasQuestions

\* In the initial state nothing is listed.
LEMMA ListedInit == ImportInit => ListedInv
<1> SUFFICES ASSUME ImportInit PROVE ListedInv
  OBVIOUS
<1>1. ASSUME NEW t \in Topic PROVE Waiting(Workers, t) = {}
  BY DEF ImportInit, Waiting, NoWork
<1>2. Cardinality({}) = 0
  BY FS_EmptySet
<1>3. ASSUME NEW t \in Topic PROVE headers[t] = 0 /\ questions[t] = 0 /\ bare[t] = 0
  BY DEF ImportInit, NoneOf
<1>4. ListedHasQuestions
  <2> SUFFICES ASSUME NEW t \in Topic
               PROVE  headers[t] = questions[t] + bare[t] + Cardinality(Waiting(Workers, t))
    BY DEF ListedHasQuestions
  <2>1. Cardinality(Waiting(Workers, t)) = 0
    BY <1>1, <1>2
  <2>2. QED
    BY <1>3, <2>1
<1>5. QED
  BY <1>4, TypedInit DEF ListedInv

\* The sum holds after a step that changes the waiting imports as its terms say.
LEMMA Balance ==
    ASSUME ListedInv, ImportTypeOK', NEW t \in Topic,
           NEW h \in Nat, NEW q \in Nat, NEW b \in Nat,
           headers'[t] = headers[t] + h, questions'[t] = questions[t] + q,
           bare'[t] = bare[t] + b,
           Cardinality(Waiting(Workers, t)') + q + b = Cardinality(Waiting(Workers, t)) + h
    PROVE  headers'[t] = questions'[t] + bare'[t] + Cardinality(Waiting(Workers, t)')
<1>1. /\ headers[t] \in Nat /\ questions[t] \in Nat /\ bare[t] \in Nat
      /\ headers[t] = questions[t] + bare[t] + Cardinality(Waiting(Workers, t))
  BY DEF ListedInv, ListedHasQuestions, ImportTypeOK
<1>2. Cardinality(Waiting(Workers, t)) \in Nat
  BY WaitingFinite
<1>3. Waiting(Workers, t)' \subseteq Workers
  BY DEF Waiting
<1>4. Cardinality(Waiting(Workers, t)') \in Nat
  BY <1>3, WorkersFinite, FS_Subset, FS_CardinalityType
<1>5. /\ headers'[t] = headers[t] + h /\ questions'[t] = questions[t] + q
      /\ bare'[t] = bare[t] + b
      /\ Cardinality(Waiting(Workers, t)') + q + b = Cardinality(Waiting(Workers, t)) + h
  OBVIOUS
<1> HIDE TopicsAssumption, WorkersAssumption, BoundsAssumption
<1>6. QED
  BY <1>1, <1>2, <1>4, <1>5

\* Every step keeps the sum.
LEMMA ListedNext == ListedInv /\ [ImportNext]_importVars => ListedInv'
<1> SUFFICES ASSUME ListedInv, [ImportNext]_importVars PROVE ListedInv'
  OBVIOUS
<1>1. ImportTypeOK /\ ImportTypeOK'
  BY TypedNext DEF ListedInv
<1> DEFINE Sums == \A t \in Topic :
               headers'[t] = questions'[t] + bare'[t] + Cardinality(Waiting(Workers, t)')
<1>2. ASSUME UNCHANGED <<headers, questions, bare>>,
             \A t \in Topic : Waiting(Workers, t)' = Waiting(Workers, t)
      PROVE  Sums
  <2>1. \A t \in Topic : headers[t] = questions[t] + bare[t] + Cardinality(Waiting(Workers, t))
    BY DEF ListedInv, ListedHasQuestions
  <2>2. QED
    BY <1>2, <2>1
<1>3. ASSUME UNCHANGED <<headers, questions, bare, work>> PROVE Sums
  BY <1>2, <1>3 DEF Waiting
<1>4. ASSUME NEW w \in Workers, NEW v,
             UNCHANGED <<headers, questions, bare>>, work' = [work EXCEPT ![w] = v],
             work[w].pc # "questions", v.pc # "questions"
      PROVE  Sums
  <2>1. \A t \in Topic : Waiting(Workers, t)' = Waiting(Workers, t)
    BY <1>1, <1>4 DEF Waiting, ImportTypeOK
  <2>2. QED
    BY <1>2, <1>4, <2>1
<1>5. ASSUME NEW W \in SUBSET Workers, CutShort(W), UNCHANGED <<headers, questions>>
      PROVE  Sums
  <2> SUFFICES ASSUME NEW t \in Topic
               PROVE  headers'[t] = questions'[t] + bare'[t] + Cardinality(Waiting(Workers, t)')
    OBVIOUS
  <2>1. Waiting(Workers, t)' = Waiting(Workers, t) \ Waiting(W, t)
    BY <1>5 DEF CutShort, Waiting, NoWork
  <2>2. Waiting(Workers, t) \cap Waiting(W, t) = Waiting(W, t)
    BY DEF Waiting
  <2>3. Cardinality(Waiting(Workers, t)')
            = Cardinality(Waiting(Workers, t)) - Cardinality(Waiting(W, t))
    BY <2>1, <2>2, WaitingFinite, FS_Difference
  <2>4. Cardinality(Waiting(W, t)) \in Nat /\ Cardinality(Waiting(Workers, t)) \in Nat
    BY WaitingFinite
  <2>5. /\ bare'[t] = bare[t] + Cardinality(Waiting(W, t))
        /\ headers'[t] = headers[t] + 0 /\ questions'[t] = questions[t] + 0
    BY <1>1, <1>5 DEF CutShort, ImportTypeOK
  <2>6. QED
    BY <1>1, <2>3, <2>4, <2>5, Balance
<1>6. ASSUME NEW w \in Workers, SaveHeader(w) PROVE Sums
  <2> SUFFICES ASSUME NEW t \in Topic
               PROVE  headers'[t] = questions'[t] + bare'[t] + Cardinality(Waiting(Workers, t)')
    OBVIOUS
  <2>1. Cardinality(Waiting(Workers, t)) \in Nat /\ IsFiniteSet(Waiting(Workers, t))
    BY WaitingFinite
  <2>2. /\ work[w] \in [pc : {"header", "questions"}, topic : Topic, some : BOOLEAN]
        /\ work[w].pc = "header"
    <3>1. work[w] \in Work(w) /\ work[w].pc = "header"
      BY <1>1, <1>6 DEF SaveHeader, ImportTypeOK
    <3>2. QED
      BY <3>1 DEF Work, NoWork
  <2>3. /\ questions'[t] = questions[t] + 0 /\ bare'[t] = bare[t] + 0
        /\ \A v \in Workers : v # w => work'[v] = work[v]
        /\ work'[w].pc = "questions" /\ work'[w].topic = work[w].topic
    BY <1>1, <1>6, <2>2, SMTT(30) DEF SaveHeader, ImportTypeOK
  <2>4. CASE t = work[w].topic
    <3>1. Waiting(Workers, t)' = Waiting(Workers, t) \cup {w} /\ w \notin Waiting(Workers, t)
      BY <2>2, <2>3, <2>4 DEF Waiting
    <3>2. Cardinality(Waiting(Workers, t)') = Cardinality(Waiting(Workers, t)) + 1
      BY <2>1, <3>1, FS_AddElement
    <3>3. headers'[t] = headers[t] + 1
      BY <1>1, <1>6, <2>4 DEF SaveHeader, ImportTypeOK
    <3>4. QED
      BY <1>1, <2>1, <2>3, <3>2, <3>3, Balance
  <2>5. CASE t # work[w].topic
    <3>1. Waiting(Workers, t)' = Waiting(Workers, t)
      BY <2>2, <2>3, <2>5 DEF Waiting
    <3>2. headers'[t] = headers[t] + 0
      BY <1>1, <1>6, <2>5 DEF SaveHeader, ImportTypeOK
    <3>3. QED
      BY <1>1, <2>1, <2>3, <3>1, <3>2, Balance
  <2>6. QED
    BY <2>4, <2>5
<1>7. ASSUME NEW w \in Workers, SaveQuestions(w) PROVE Sums
  <2> SUFFICES ASSUME NEW t \in Topic
               PROVE  headers'[t] = questions'[t] + bare'[t] + Cardinality(Waiting(Workers, t)')
    OBVIOUS
  <2>1. Cardinality(Waiting(Workers, t)) \in Nat /\ IsFiniteSet(Waiting(Workers, t))
    BY WaitingFinite
  <2>2. /\ headers'[t] = headers[t] + 0
        /\ \A v \in Workers : v # w => work'[v] = work[v]
        /\ work'[w].pc = "idle" /\ work[w].pc = "questions"
    BY <1>1, <1>7 DEF SaveQuestions, ImportTypeOK, NoWork
  <2>3. CASE t = work[w].topic
    <3>1. Waiting(Workers, t)' = Waiting(Workers, t) \ {w} /\ w \in Waiting(Workers, t)
      BY <2>2, <2>3 DEF Waiting
    <3>2. Cardinality(Waiting(Workers, t)') = Cardinality(Waiting(Workers, t)) - 1
      BY <2>1, <3>1, FS_RemoveElement
    <3>3. \/ questions'[t] = questions[t] + 1 /\ bare'[t] = bare[t] + 0
          \/ questions'[t] = questions[t] + 0 /\ bare'[t] = bare[t] + 1
      BY <1>1, <1>7, <2>3 DEF SaveQuestions, ImportTypeOK
    <3>4. Cardinality(Waiting(Workers, t)') + 1 + 0 = Cardinality(Waiting(Workers, t)) + 0
      BY <2>1, <3>2
    <3>5. Cardinality(Waiting(Workers, t)') + 0 + 1 = Cardinality(Waiting(Workers, t)) + 0
      BY <2>1, <3>2
    <3>6. QED
      BY <1>1, <2>2, <3>3, <3>4, <3>5, Balance
  <2>4. CASE t # work[w].topic
    <3>1. Waiting(Workers, t)' = Waiting(Workers, t)
      BY <2>2, <2>4 DEF Waiting
    <3>2. questions'[t] = questions[t] + 0 /\ bare'[t] = bare[t] + 0
      BY <1>1, <1>7, <2>4, SMTT(30) DEF SaveQuestions, ImportTypeOK
    <3>3. QED
      BY <1>1, <2>1, <2>2, <3>1, <3>2, Balance
  <2>5. QED
    BY <2>3, <2>4
<1>8. ASSUME NEW w \in Workers, NEW t \in Topic, Begins(w, t),
             UNCHANGED <<headers, questions, bare>>
      PROVE  Sums
  <2>1. work[w].pc # "questions" /\ [pc |-> "fetch", topic |-> t].pc # "questions"
    BY <1>8 DEF Begins, NoWork
  <2>2. QED
    BY <1>4, <1>8, <2>1 DEF Begins
<1>9. ASSUME NEW w \in Workers, Answered(w) PROVE Sums
  BY <1>4, <1>9 DEF Answered
<1>10. ASSUME NextTopic PROVE Sums
  <2>1. Job \in Workers /\ Topics[next] \in Topic
    BY <1>1, <1>10, Places DEF NextTopic, Workers, ImportTypeOK
  <2>2. QED
    BY <1>8, <1>10, <2>1 DEF NextTopic
<1>11. ASSUME NEW w \in Workers, RequestFails(w) PROVE Sums
  <2>1. {w} \in SUBSET Workers
    OBVIOUS
  <2>2. QED
    BY <1>5, <1>11, <2>1 DEF RequestFails
<1>12. ASSUME Ends PROVE Sums
  BY <1>5, <1>12 DEF Ends
<1>13. Sums
  <2> HIDE DEF Sums
  <2>1. ASSUME NEW w \in Workers, NEW t \in Topic, RequestImport(w, t) PROVE Sums
    BY <1>8, <2>1 DEF RequestImport
  <2>2. CASE CheckQuestions \/ JobDone \/ Restart \/ UNCHANGED importVars
    BY <1>3, <2>2 DEF CheckQuestions, JobDone, Restart, importVars
  <2>3. QED
    BY <1>6, <1>7, <1>9, <1>10, <1>11, <1>12, <2>1, <2>2 DEF ImportNext
<1>14. QED
  BY <1>1, <1>13 DEF ListedInv, ListedHasQuestions

\* Whatever fails and wherever the process ends, a topic is listed once for each copy of
\* its questions, for each import of it that is between its two saves, and for each that
\* was cut there or was answered without questions.
THEOREM ListedAreBacked == ImportSpec => []ListedHasQuestions
<1>1. ListedInv => ListedHasQuestions
  BY DEF ListedInv
<1>2. QED
  BY <1>1, ListedInit, ListedNext, PTL DEF ImportSpec

-----------------------------------------------------------------------------
(***************************************************************************)
(* The job imports each place of the list once.  Each copy of questions,   *)
(* and each import that runs and may still bring one, has a place the job  *)
(* has passed in this start, or a place of the list or a request.          *)
(***************************************************************************)
Running(t)   == {w \in Workers : work[w] # NoWork /\ work[w].topic = t}
Before(n, t) == {k \in DOMAIN Topics : k < n /\ Topics[k] = t}
Due(t) == IF boot = "import" THEN Cardinality(Before(next, t))
                             ELSE requested[t] + Cardinality(Before(Len(Topics) + 1, t))

OnceInv == \A t \in Topic : questions[t] + Cardinality(Running(t)) <= Due(t)

\* The places passed are finitely many.
LEMMA BeforeFinite ==
    ASSUME NEW n, NEW t
    PROVE  IsFiniteSet(Before(n, t)) /\ Cardinality(Before(n, t)) \in Nat
<1>1. Before(n, t) \subseteq 1 .. Len(Topics) /\ Len(Topics) \in Nat
  BY Places DEF Before
<1>2. IsFiniteSet(1 .. Len(Topics))
  BY Places, FS_Interval
<1>3. QED
  BY <1>1, <1>2, FS_Subset, FS_CardinalityType

\* One place more counts for its topic.
LEMMA BeforeNext ==
    ASSUME NEW n \in 1 .. Len(Topics), NEW t
    PROVE  Cardinality(Before(n + 1, t)) =
              Cardinality(Before(n, t)) + (IF Topics[n] = t THEN 1 ELSE 0)
<1>1. IsFiniteSet(Before(n, t)) /\ n \notin Before(n, t) /\ Cardinality(Before(n, t)) \in Nat
  <2>1. n \in Nat /\ ~(n < n)
    BY Places
  <2>2. n \notin Before(n, t)
    BY <2>1 DEF Before
  <2>3. QED
    BY <2>2, BeforeFinite
<1>2. Cardinality(Before(n, t) \cup {n}) = Cardinality(Before(n, t)) + 1
  BY <1>1, FS_AddElement
<1>3. Before(n + 1, t) = IF Topics[n] = t THEN Before(n, t) \cup {n} ELSE Before(n, t)
  BY Places DEF Before
<1>4. QED
  BY <1>1, <1>2, <1>3

\* The whole list has all places.
LEMMA BeforeAll ==
    ASSUME NEW n, NEW t
    PROVE  /\ Cardinality(Before(n, t)) <= Cardinality(Before(Len(Topics) + 1, t))
           /\ Before(Len(Topics) + 1, t) = {k \in DOMAIN Topics : Topics[k] = t}
<1>1. Before(Len(Topics) + 1, t) = {k \in DOMAIN Topics : Topics[k] = t}
  BY Places DEF Before
<1>2. Before(n, t) \subseteq Before(Len(Topics) + 1, t)
  BY <1>1 DEF Before
<1>3. QED
  BY <1>1, <1>2, BeforeFinite, FS_Subset

\* How many imports run for a topic is a number.
LEMMA RunningFinite ==
    ASSUME NEW t PROVE IsFiniteSet(Running(t)) /\ Cardinality(Running(t)) \in Nat
<1>1. Running(t) \subseteq Workers
  BY DEF Running
<1>2. QED
  BY <1>1, WorkersFinite, FS_Subset, FS_CardinalityType

\* An import that ends, in whatever way, leaves one fewer running.
LEMMA RunningLess ==
    ASSUME NEW t, Running(t)' \subseteq Running(t)
    PROVE  /\ Cardinality(Running(t)') <= Cardinality(Running(t))
           /\ Cardinality(Running(t)') \in Nat
           /\ \A w \in Running(t) : w \notin Running(t)' =>
                  Cardinality(Running(t)') + 1 <= Cardinality(Running(t))
<1>1. IsFiniteSet(Running(t)) /\ Cardinality(Running(t)) \in Nat
  BY RunningFinite
<1>2. /\ IsFiniteSet(Running(t)') /\ Cardinality(Running(t)') \in Nat
      /\ Cardinality(Running(t)') <= Cardinality(Running(t))
  BY <1>1, FS_Subset, FS_CardinalityType
<1>3. ASSUME NEW w \in Running(t), w \notin Running(t)'
      PROVE  Cardinality(Running(t)') + 1 <= Cardinality(Running(t))
  <2>1. Cardinality(Running(t) \ {w}) = Cardinality(Running(t)) - 1 /\ IsFiniteSet(Running(t) \ {w})
    BY <1>1, <1>3, FS_RemoveElement
  <2>2. Running(t)' \subseteq Running(t) \ {w}
    BY <1>3
  <2>3. Cardinality(Running(t)') <= Cardinality(Running(t) \ {w})
    BY <2>1, <2>2, FS_Subset
  <2>4. QED
    BY <1>1, <1>2, <2>1, <2>3
<1>4. QED
  BY <1>2, <1>3

\* An import that begins is one more for its topic.
LEMMA RunningMore ==
    ASSUME ImportTypeOK, NEW w \in Workers, NEW u \in Topic, Begins(w, u), NEW t
    PROVE  Cardinality(Running(t)') = Cardinality(Running(t)) + (IF t = u THEN 1 ELSE 0)
<1>1. IsFiniteSet(Running(t)) /\ Cardinality(Running(t)) \in Nat /\ w \notin Running(t)
  BY RunningFinite DEF Running, Begins
<1>2. /\ work'[w] = [pc |-> "fetch", topic |-> u]
      /\ \A v \in Workers : v # w => work'[v] = work[v]
  BY DEF Begins, ImportTypeOK
<1>3. work'[w] # NoWork /\ work'[w].topic = u
  BY <1>2 DEF NoWork
<1>4. Running(t)' = IF t = u THEN Running(t) \cup {w} ELSE Running(t)
  BY <1>1, <1>2, <1>3 DEF Running
<1>5. Cardinality(Running(t) \cup {w}) = Cardinality(Running(t)) + 1
  BY <1>1, FS_AddElement
<1>6. QED
  BY <1>1, <1>4, <1>5

\* In the initial state nothing is imported.
LEMMA OnceInit == ImportInit => OnceInv
<1> SUFFICES ASSUME ImportInit, NEW t \in Topic
             PROVE  questions[t] + Cardinality(Running(t)) <= Due(t)
  BY DEF OnceInv
<1>1. Running(t) = {} /\ questions[t] = 0 /\ requested[t] = 0 /\ boot = "check"
  BY DEF ImportInit, Running, NoneOf
<1>2. Cardinality({}) = 0
  BY FS_EmptySet
<1>3. QED
  BY <1>1, <1>2, BeforeFinite DEF Due

\* Every step keeps each copy of questions within what is due.
LEMMA OnceNext == ImportTypeOK /\ OnceInv /\ [ImportNext]_importVars => OnceInv'
<1> SUFFICES ASSUME ImportTypeOK, OnceInv, [ImportNext]_importVars, NEW t \in Topic
             PROVE  questions'[t] + Cardinality(Running(t)') <= Due(t)'
  BY DEF OnceInv
<1>0. questions[t] + Cardinality(Running(t)) <= Due(t)
  BY DEF OnceInv
<1>1. questions[t] \in Nat /\ requested[t] \in Nat /\ next \in 1 .. Len(Topics) + 1
  BY DEF ImportTypeOK
<1>2. PICK r \in Nat : r = Cardinality(Running(t))
  BY RunningFinite
<1>3. PICK all \in Nat : all = Cardinality(Before(Len(Topics) + 1, t))
  BY BeforeFinite
<1>4. PICK n \in Nat : n = Cardinality(Before(next, t)) /\ n <= all
  BY <1>3, BeforeFinite, BeforeAll
<1>5. questions[t] + r <= (IF boot = "import" THEN n ELSE requested[t] + all)
  BY <1>0, <1>2, <1>3, <1>4 DEF Due
<1>6. ASSUME UNCHANGED <<boot, next, requested>>, Running(t)' \subseteq Running(t),
             \/ questions'[t] = questions[t]
             \/ questions'[t] = questions[t] + 1 /\ \E w \in Running(t) : w \notin Running(t)'
      PROVE  questions'[t] + Cardinality(Running(t)') <= Due(t)'
  <2>1. PICK r1 \in Nat : r1 = Cardinality(Running(t)')
    BY <1>6, RunningLess
  <2>2. questions'[t] + r1 <= questions[t] + r
    <3>1. r1 <= r /\ ((\E w \in Running(t) : w \notin Running(t)') => r1 + 1 <= r)
      BY <1>2, <1>6, <2>1, RunningLess
    <3>2. QED
      BY <1>1, <1>6, <2>1, <3>1
  <2>3. PICK m \in Nat : questions[t] + r <= m /\ Due(t)' = m
    BY <1>1, <1>3, <1>4, <1>5, <1>6 DEF Due
  <2>4. PICK q \in Nat : questions'[t] = q
    BY <1>1, <1>6
  <2>5. q + r1 <= m
    BY <1>1, <2>2, <2>3, <2>4
  <2>6. QED
    BY <2>1, <2>3, <2>4, <2>5
<1>7. CASE CheckQuestions
  <2>1. /\ boot = "check" /\ next' = 1
        /\ questions' = questions /\ work' = work /\ requested' = requested
    BY <1>7 DEF CheckQuestions
  <2>2. Running(t)' = Running(t) /\ Running(t) = {}
    <3>1. \A w \in Workers : work[w] = NoWork
      BY <2>1 DEF ImportTypeOK, Workers
    <3>2. QED
      BY <2>1, <3>1 DEF Running
  <2>3. r = 0
    BY <1>2, <2>2, FS_EmptySet
  <2>4. CASE NoQuestions
    <3>1. questions[t] = 0 /\ boot' = "import"
      BY <1>7, <2>4 DEF NoQuestions, CheckQuestions
    <3>2. Cardinality(Before(1, t)) \in Nat
      BY BeforeFinite
    <3>3. QED
      BY <1>2, <2>1, <2>2, <2>3, <3>1, <3>2 DEF Due
  <2>5. CASE ~NoQuestions
    BY <1>2, <1>3, <1>5, <1>7, <2>1, <2>2, <2>5 DEF CheckQuestions, Due
  <2>6. QED
    BY <2>4, <2>5
<1>8. CASE NextTopic
  <2>1. /\ boot = "import" /\ boot' = boot /\ next \in 1 .. Len(Topics) /\ next' = next + 1
        /\ Begins(Job, Topics[next]) /\ questions' = questions
        /\ Job \in Workers /\ Topics[next] \in Topic
    BY <1>1, <1>8, Places DEF NextTopic, Workers
  <2>2. Cardinality(Running(t)') = r + (IF t = Topics[next] THEN 1 ELSE 0)
    BY <1>2, <2>1, RunningMore
  <2>3. Cardinality(Before(next + 1, t)) = n + (IF Topics[next] = t THEN 1 ELSE 0)
    BY <1>4, <2>1, BeforeNext
  <2>4. QED
    BY <1>1, <1>5, <2>1, <2>2, <2>3 DEF Due
<1>9. CASE JobDone
  <2>1. /\ boot = "import" /\ boot' = "up" /\ questions' = questions /\ requested' = requested
        /\ Running(t)' = Running(t)
    BY <1>9 DEF JobDone, Running
  <2>2. QED
    BY <1>1, <1>2, <1>3, <1>4, <1>5, <2>1 DEF Due
<1>10. CASE Ends
  <2>1. boot' = "down" /\ questions' = questions /\ requested' = requested
    BY <1>10 DEF Ends
  <2>2. Running(t)' = {}
    BY <1>10 DEF Ends, CutShort, Running
  <2>3. QED
    BY <1>1, <1>3, <1>4, <1>5, <2>1, <2>2, FS_EmptySet DEF Due
<1>11. CASE Restart
  <2>1. /\ boot = "down" /\ boot' = "check" /\ questions' = questions /\ requested' = requested
        /\ Running(t)' = Running(t)
    BY <1>11 DEF Restart, Running
  <2>2. QED
    BY <1>2, <1>3, <1>5, <2>1 DEF Due
<1>12. ASSUME NEW w \in Workers, Answered(w) \/ SaveHeader(w)
       PROVE  questions'[t] + Cardinality(Running(t)') <= Due(t)'
  <2>1. /\ work[w] # NoWork /\ work'[w].topic = work[w].topic
        /\ \A v \in Workers : v # w => work'[v] = work[v]
    BY <1>12, SMTT(30) DEF Answered, SaveHeader, ImportTypeOK, Work, NoWork
  <2>2. Running(t)' \subseteq Running(t)
    BY <2>1 DEF Running
  <2>3. QED
    BY <1>6, <1>12, <2>2 DEF Answered, SaveHeader
<1>13. ASSUME NEW w \in Workers, SaveQuestions(w)
       PROVE  questions'[t] + Cardinality(Running(t)') <= Due(t)'
  <2>1. /\ work[w] # NoWork /\ work'[w] = NoWork
        /\ \A v \in Workers : v # w => work'[v] = work[v]
    BY <1>13 DEF SaveQuestions, ImportTypeOK, NoWork
  <2>2. Running(t)' \subseteq Running(t) /\ w \notin Running(t)'
    BY <2>1 DEF Running
  <2>3. questions'[t] = questions[t] \/ (questions'[t] = questions[t] + 1 /\ work[w].topic = t)
    BY <1>1, <1>13 DEF SaveQuestions, ImportTypeOK
  <2>4. work[w].topic = t => w \in Running(t)
    BY <2>1 DEF Running
  <2>5. QED
    BY <1>6, <1>13, <2>2, <2>3, <2>4 DEF SaveQuestions
<1>14. ASSUME NEW w \in Workers, RequestFails(w)
       PROVE  questions'[t] + Cardinality(Running(t)') <= Due(t)'
  <2>1. Running(t)' \subseteq Running(t)
    BY <1>14 DEF RequestFails, CutShort, Running
  <2>2. QED
    BY <1>6, <1>14, <2>1 DEF RequestFails
<1>15. ASSUME NEW w \in Workers, NEW u \in Topic, RequestImport(w, u)
       PROVE  questions'[t] + Cardinality(Running(t)') <= Due(t)'
  <2>1. Begins(w, u) /\ boot = "up" /\ boot' = "up" /\ questions' = questions
    BY <1>15 DEF RequestImport
  <2>2. Cardinality(Running(t)') = r + (IF t = u THEN 1 ELSE 0)
    BY <1>2, <2>1, RunningMore
  <2>3. requested'[t] = requested[t] + (IF t = u THEN 1 ELSE 0)
    BY <1>1, <1>15 DEF RequestImport, ImportTypeOK
  <2>4. QED
    BY <1>1, <1>3, <1>5, <2>1, <2>2, <2>3 DEF Due
<1>16. CASE UNCHANGED importVars
  BY <1>6, <1>16 DEF importVars, Running
<1>17. QED
  BY <1>7, <1>8, <1>9, <1>10, <1>11, <1>12, <1>13, <1>14, <1>15, <1>16 DEF ImportNext

\* However often the application is started and wherever its starts end, the job
\* imports each place of its list at most once, for every list.
THEOREM EachPlaceOnce == ImportSpec => []JobImportsOnce
<1>1. ASSUME ImportTypeOK, OnceInv, NEW t \in Topic
      PROVE  questions[t] <= requested[t] + Cardinality({k \in DOMAIN Topics : Topics[k] = t})
  <2>1. PICK all \in Nat : all = Cardinality(Before(Len(Topics) + 1, t))
    BY BeforeFinite
  <2>2. PICK n \in Nat : n = Cardinality(Before(next, t)) /\ n <= all
    BY <2>1, BeforeFinite, BeforeAll
  <2>3. Cardinality(Running(t)) \in Nat /\ questions[t] \in Nat /\ requested[t] \in Nat
    BY <1>1, RunningFinite DEF ImportTypeOK
  <2>4. questions[t] + Cardinality(Running(t)) <= Due(t)
    BY <1>1 DEF OnceInv
  <2>5. questions[t] <= requested[t] + all
    BY <2>1, <2>2, <2>3, <2>4 DEF Due
  <2>6. QED
    BY <2>1, <2>5, BeforeAll
<1>2. ImportTypeOK /\ OnceInv => JobImportsOnce
  BY <1>1 DEF JobImportsOnce
<1>3. QED
  BY <1>2, TypedInit, TypedNext, OnceInit, OnceNext, PTL DEF ImportSpec
=============================================================================
