------------------------- MODULE RecentPosts_proofs -------------------------
(***************************************************************************)
(* Theorems about the list of recently viewed posts, for any users, posts  *)
(* (finitely many), threads, cap of two or more and number of views.       *)
(***************************************************************************)
EXTENDS RecentPosts, FiniteSetTheorems, TLAPS

-----------------------------------------------------------------------------
(***************************************************************************)
(* Type correctness.  A date is given once per view: what is submitted or  *)
(* has no date yet, and the dates given, are no more than the views.       *)
(***************************************************************************)
Undated == {t \in Threads : task[t].pc \in {"delete", "stamp"}}
DatesLeft == /\ IsFiniteSet(Undated)
             /\ clock + Len(submitted) + Cardinality(Undated) <= views

RecentTyped == RecentTypeOK /\ DatesLeft

\* The tasks a thread can run.
LEMMA TaskCases ==
    ASSUME RecentTypeOK, NEW t \in Threads, task[t].pc # "idle"
    PROVE  /\ task[t].user \in Users /\ task[t].post \in Posts
           /\ task[t].pc \in {"delete", "stamp", "save"}
           /\ task[t].pc = "delete" => task[t] \in Step({"delete"}, Posts, {NoRow})
           /\ task[t].pc = "stamp" => task[t] \in Step({"stamp"}, Posts \cup {NoPost}, {NoRow})
           /\ task[t].pc = "save" => task[t] \in Step({"save"}, Posts \cup {NoPost}, Dates)
<1>1. task[t] \in Task
  BY DEF RecentTypeOK
<1>2. QED
  BY <1>1 DEF Task, Step, NoTask

\* Steps of one thread leave the counts to that thread.
LEMMA DatedOne ==
    ASSUME RecentTyped, NEW t \in Threads, t \in Undated, NEW v, v.pc \notin {"delete", "stamp"},
           task' = [task EXCEPT ![t] = v]
    PROVE  IsFiniteSet(Undated') /\ Cardinality(Undated') = Cardinality(Undated) - 1
<1>1. Undated' = Undated \ {t}
  BY DEF Undated, RecentTyped, RecentTypeOK
<1>2. QED
  BY <1>1, FS_RemoveElement DEF RecentTyped, DatesLeft

\* The first element of a sequence, and the others.
LEMMA HeadAndTail ==
    ASSUME NEW S, NEW s \in Seq(S), s # <<>>
    PROVE  Head(s) \in S /\ Tail(s) \in Seq(S) /\ Len(Tail(s)) = Len(s) - 1
  OBVIOUS

\* The initial state is typed.
LEMMA RecentTypedInit == RecentInit => RecentTyped
<1> SUFFICES ASSUME RecentInit PROVE RecentTyped
  OBVIOUS
<1>1. Undated = {} /\ submitted = <<>> /\ clock = 0 /\ views = 0
  BY DEF RecentInit, Undated, NoTask
<1>2. IsFiniteSet(Undated) /\ Cardinality(Undated) = 0 /\ Len(submitted) = 0
  BY <1>1, FS_EmptySet
<1>3. DatesLeft
  BY <1>1, <1>2 DEF DatesLeft
<1>4. RecentTypeOK
  BY CapAssumption DEF RecentInit, RecentTypeOK, Task, CapAssumption, NoRow
<1>5. QED
  BY <1>3, <1>4 DEF RecentTyped

\* Every step keeps the types and the count of dates.
LEMMA RecentTypedNext == RecentTyped /\ [RecentNext]_recentVars => RecentTyped'
<1> SUFFICES ASSUME RecentTyped, [RecentNext]_recentVars PROVE RecentTyped'
  OBVIOUS
<1> USE CapAssumption, SetsAssumption DEF CapAssumption, SetsAssumption
<1>0. /\ RecentTypeOK /\ IsFiniteSet(Undated) /\ Cardinality(Undated) \in Nat
      /\ Len(submitted) \in Nat /\ clock \in Nat /\ views \in Nat
      /\ clock + Len(submitted) + Cardinality(Undated) <= views
  BY FS_CardinalityType DEF RecentTyped, DatesLeft, RecentTypeOK
<1>1. ASSUME NEW u \in Users, NEW p \in Posts, View(u, p) PROVE RecentTyped'
  <2>1. /\ submitted' = Append(submitted, [user |-> u, post |-> p]) /\ views' = views + 1
        /\ views < MaxViews /\ UNCHANGED <<posts, rows, task, clock, lastViews, overlapped>>
    BY <1>1 DEF View
  <2>2. /\ submitted' \in Seq([user : Users, post : Posts]) /\ Len(submitted') = Len(submitted) + 1
        /\ views' \in 0 .. MaxViews
    BY <1>0, <2>1 DEF RecentTypeOK
  <2>3. Undated' = Undated
    BY <2>1 DEF Undated
  <2>4. DatesLeft'
    BY <1>0, <2>1, <2>2, <2>3 DEF DatesLeft
  <2>5. RecentTypeOK'
    BY <1>0, <2>1, <2>2 DEF RecentTypeOK
  <2>6. QED
    BY <2>4, <2>5 DEF RecentTyped
<1>2. ASSUME NEW t \in Threads, ReadList(t) PROVE RecentTyped'
  <2> DEFINE v == Head(submitted)
  <2>1. submitted # <<>> /\ submitted \in Seq([user : Users, post : Posts])
    BY <1>0, <1>2 DEF ReadList, RecentTypeOK
  <2>2. /\ v \in [user : Users, post : Posts] /\ submitted' = Tail(submitted)
        /\ submitted' \in Seq([user : Users, post : Posts]) /\ Len(submitted') = Len(submitted) - 1
    BY <1>2, <2>1, HeadAndTail DEF ReadList
  <2>3. PICK p \in Posts \cup {NoPost} : task' = [task EXCEPT ![t] =
               [pc     |-> IF p = NoPost THEN "stamp" ELSE "delete",
                user   |-> v.user, post |-> v.post,
                victim |-> p,      date |-> NoRow]]
    BY <1>2 DEF ReadList
  <2> DEFINE w == [pc |-> IF p = NoPost THEN "stamp" ELSE "delete",
                   user |-> v.user, post |-> v.post, victim |-> p, date |-> NoRow]
  <2>4. w \in Task /\ w.pc \in {"delete", "stamp"}
    BY <2>2 DEF Task, Step
  <2>5. t \notin Undated
    BY <1>2 DEF ReadList, Undated
  <2>6. task' = [task EXCEPT ![t] = w]
    BY <2>3
  <2>7. IsFiniteSet(Undated') /\ Cardinality(Undated') = Cardinality(Undated) + 1
    <3>1. Undated' = Undated \cup {t}
      BY <1>0, <2>4, <2>6 DEF Undated, RecentTypeOK
    <3>2. QED
      BY <1>0, <2>5, <3>1, FS_AddElement
  <2>8. task' \in [Threads -> Task]
    <3> HIDE DEF w
    <3> QED
      BY <1>0, <2>4, <2>6 DEF RecentTypeOK
  <2>9. /\ UNCHANGED <<posts, rows, clock, views, lastViews>>
        /\ overlapped' \in {overlapped, overlapped \cup {v.user}}
    BY <1>2 DEF ReadList
  <2>10. DatesLeft'
    BY <1>0, <2>2, <2>7, <2>9 DEF DatesLeft
  <2>11. RecentTypeOK'
    <3>1. overlapped' \subseteq Users
      BY <1>0, <2>2, <2>9 DEF RecentTypeOK
    <3>2. QED
      BY <1>0, <2>2, <2>8, <2>9, <3>1 DEF RecentTypeOK
  <2>12. QED
    BY <2>10, <2>11 DEF RecentTyped
<1>3. ASSUME NEW t \in Threads, DeleteOldest(t) PROVE RecentTyped'
  <2>1. /\ task[t] \in Step({"delete"}, Posts, {NoRow})
        /\ task[t].user \in Users /\ task[t].pc = "delete" /\ t \in Undated
    BY <1>0, <1>3, TaskCases DEF DeleteOldest, Undated
  <2>2. UNCHANGED <<posts, submitted, clock, views, lastViews, overlapped>>
    BY <1>3 DEF DeleteOldest
  <2>3. CASE /\ rows' = [rows EXCEPT ![task[t].user][task[t].victim] = NoRow]
             /\ task' = [task EXCEPT ![t].pc = "stamp"]
    <3>1. rows' \in [Users -> [Posts -> Dates \cup {NoRow}]]
      BY <1>0, <2>1, <2>3 DEF RecentTypeOK, Step
    <3>2. [task[t] EXCEPT !.pc = "stamp"] \in Step({"stamp"}, Posts \cup {NoPost}, {NoRow})
      BY <2>1 DEF Step
    <3>3. task' \in [Threads -> Task]
      BY <1>0, <2>3, <3>2 DEF RecentTypeOK, Task
    <3>4. Undated' = Undated
      BY <1>0, <2>1, <2>3 DEF Undated, RecentTypeOK, Step
    <3>5. QED
      BY <1>0, <2>2, <3>1, <3>3, <3>4 DEF RecentTyped, RecentTypeOK, DatesLeft
  <2>4. CASE task' = [task EXCEPT ![t] = NoTask] /\ UNCHANGED rows
    <3>1. IsFiniteSet(Undated') /\ Cardinality(Undated') = Cardinality(Undated) - 1
      BY <2>1, <2>4, DatedOne DEF NoTask
    <3>2. task' \in [Threads -> Task]
      BY <1>0, <2>4 DEF RecentTypeOK, Task
    <3>3. DatesLeft'
      BY <1>0, <2>2, <3>1 DEF DatesLeft
    <3>4. QED
      BY <1>0, <2>2, <2>4, <3>2, <3>3 DEF RecentTyped, RecentTypeOK
  <2>5. QED
    BY <1>3, <2>3, <2>4 DEF DeleteOldest
<1>4. ASSUME NEW t \in Threads, Stamp(t) PROVE RecentTyped'
  <2>1. /\ task[t] \in Step({"stamp"}, Posts \cup {NoPost}, {NoRow})
        /\ task[t].pc = "stamp" /\ t \in Undated
    BY <1>0, <1>4, TaskCases DEF Stamp, Undated
  <2>2. /\ clock' = clock + 1 /\ task' = [task EXCEPT ![t] = [@ EXCEPT !.pc = "save", !.date = clock + 1]]
        /\ UNCHANGED <<posts, rows, submitted, views, lastViews, overlapped>>
    BY <1>4 DEF Stamp
  <2>3. IsFiniteSet(Undated') /\ Cardinality(Undated') = Cardinality(Undated) - 1
    <3> DEFINE w == [task[t] EXCEPT !.pc = "save", !.date = clock + 1]
    <3>1. w.pc = "save" /\ task' = [task EXCEPT ![t] = w]
      BY <2>1, <2>2 DEF Step
    <3> HIDE DEF w
    <3>2. QED
      BY <2>1, <3>1, DatedOne
  <2>4. Cardinality(Undated') \in Nat
    BY <2>3, FS_CardinalityType
  <2>5. DatesLeft' /\ clock' \in 0 .. MaxViews /\ clock + 1 \in Dates
    BY <1>0, <2>2, <2>3, <2>4 DEF DatesLeft, RecentTypeOK, Dates
  <2>6. [task[t] EXCEPT !.pc = "save", !.date = clock + 1] \in Step({"save"}, Posts \cup {NoPost}, Dates)
    BY <2>1, <2>5 DEF Step
  <2>7. task' \in [Threads -> Task]
    BY <1>0, <2>2, <2>6 DEF RecentTypeOK, Task
  <2>8. QED
    BY <1>0, <2>2, <2>5, <2>7 DEF RecentTyped, RecentTypeOK
<1>5. ASSUME NEW t \in Threads, SaveRow(t) PROVE RecentTyped'
  <2>1. /\ task[t].user \in Users /\ task[t].post \in Posts /\ task[t].date \in Dates
        /\ task[t].pc = "save"
    BY <1>0, <1>5, TaskCases DEF SaveRow, Step
  <2>2. /\ rows' = [rows EXCEPT ![task[t].user][task[t].post] = IF @ = NoRow THEN task[t].date ELSE @]
        /\ lastViews' = [lastViews EXCEPT ![task[t].user] = LastTwo(task[t].post, @)]
        /\ task' = [task EXCEPT ![t] = NoTask]
        /\ UNCHANGED <<posts, submitted, clock, views, overlapped>>
    BY <1>5 DEF SaveRow
  <2>3. rows' \in [Users -> [Posts -> Dates \cup {NoRow}]]
    BY <1>0, <2>1, <2>2 DEF RecentTypeOK
  <2>4. \A s \in Seq(Posts) : LastTwo(task[t].post, s) \in Seq(Posts)
    BY <2>1 DEF LastTwo
  <2>5. lastViews' \in [Users -> Seq(Posts)]
    BY <1>0, <2>1, <2>2, <2>4 DEF RecentTypeOK
  <2>6. Undated' = Undated
    BY <1>0, <2>1, <2>2 DEF Undated, RecentTypeOK, NoTask
  <2>7. task' \in [Threads -> Task]
    BY <1>0, <2>2 DEF RecentTypeOK, Task
  <2>8. QED
    BY <1>0, <2>2, <2>3, <2>5, <2>6, <2>7 DEF RecentTyped, RecentTypeOK, DatesLeft
<1>6. ASSUME NEW p \in Posts, DeletePost(p) PROVE RecentTyped'
  <2>1. Undated' = Undated
    BY <1>6 DEF DeletePost, Undated
  <2>2. QED
    BY <1>0, <1>6, <2>1 DEF DeletePost, RecentTyped, RecentTypeOK, DatesLeft
<1>7. CASE Crash
  <2>1. /\ submitted' = <<>> /\ task' = [t \in Threads |-> NoTask]
        /\ UNCHANGED <<posts, rows, clock, views, overlapped>>
    BY <1>7 DEF Crash
  <2>2. Undated' = {}
    BY <2>1 DEF Undated, NoTask
  <2>3. IsFiniteSet(Undated') /\ Cardinality(Undated') = 0 /\ Len(submitted') = 0
    BY <2>1, <2>2, FS_EmptySet
  <2>4. \A s \in Seq(Posts) : s # <<>> => <<s[1]>> \in Seq(Posts)
    OBVIOUS
  <2>5. lastViews' \in [Users -> Seq(Posts)]
    BY <1>0, <1>7, <2>4 DEF Crash, RecentTypeOK
  <2>6. DatesLeft'
    BY <1>0, <2>1, <2>3 DEF DatesLeft
  <2>7. QED
    BY <1>0, <2>1, <2>5, <2>6 DEF RecentTyped, RecentTypeOK, Task
<1>8. CASE UNCHANGED recentVars
  <2>1. Undated' = Undated
    BY <1>8 DEF recentVars, Undated
  <2>2. QED
    BY <1>0, <1>8, <2>1 DEF recentVars, RecentTyped, RecentTypeOK, DatesLeft
<1>9. QED
  BY <1>1, <1>2, <1>3, <1>4, <1>5, <1>6, <1>7, <1>8 DEF RecentNext

\* Every variable keeps its type; no more dates are given than posts are viewed.
THEOREM RecentTypeCorrect == RecentSpec => []RecentTypeOK
<1>1. RecentTyped => RecentTypeOK
  BY DEF RecentTyped
<1>2. QED
  BY <1>1, RecentTypedInit, RecentTypedNext, PTL DEF RecentSpec

-----------------------------------------------------------------------------
(***************************************************************************)
(* What a list needs to stay within the cap and to show the last two views *)
(* while the tasks of its user do not overlap.                             *)
(***************************************************************************)
Latest(u) == lastViews[u][1]

\* What a running task may rely on: nobody else changes the list it read.
TaskFits(u, t) ==
    /\ task[t].pc = "delete" => /\ Full(u) /\ task[t].victim \in Listed(u)
                                /\ lastViews[u] # <<>> => task[t].victim # Latest(u)
    /\ task[t].pc \in {"stamp", "save"} => Cardinality(Listed(u)) < Cap
    /\ task[t].pc = "save" => /\ task[t].date <= clock
                              /\ \A q \in Posts : rows[u][q] < task[t].date

\* A full list has the post viewed last as its newest row, so that another row
\* is the oldest.
ListFits(u) ==
    /\ Cardinality(Listed(u)) <= Cap
    /\ \A q \in Posts : rows[u][q] <= clock
    /\ lastViews[u] # <<>> =>
         /\ Latest(u) \in Listed(u)
         /\ Full(u) => \A q \in Listed(u) \ {Latest(u)} : rows[u][q] < rows[u][Latest(u)]

ViewsFit(u) ==
    /\ Len(lastViews[u]) <= 2
    /\ Active(u) = {} => \A n \in 1 .. Len(lastViews[u]) : lastViews[u][n] \in Listed(u)

UserFits(u) ==
    /\ \A s, t \in Active(u) : s = t
    /\ \A t \in Active(u) : TaskFits(u, t)
    /\ ListFits(u)
    /\ ViewsFit(u)

RecentInv == RecentTyped /\ \A u \in Users \ overlapped : UserFits(u)

\* What a step needs to leave a user alone.
LEMMA Untouched ==
    ASSUME NEW u, UserFits(u), rows'[u] = rows[u], lastViews'[u] = lastViews[u],
           clock \in Nat, clock' \in Nat, clock <= clock',
           \A q \in Posts : rows[u][q] \in Nat,
           \A t \in Threads : task[t].date \in Nat \/ task[t].pc # "save",
           Active(u)' = Active(u), \A t \in Active(u) : task'[t] = task[t]
    PROVE  UserFits(u)'
<1>1. Listed(u)' = Listed(u) /\ Latest(u)' = Latest(u) /\ Full(u)' = Full(u)
  BY DEF Listed, Latest, Full
<1>2. ASSUME NEW t \in Active(u) PROVE TaskFits(u, t)'
  <2>1. TaskFits(u, t) /\ task'[t] = task[t] /\ t \in Threads
    BY <1>2 DEF UserFits, Active
  <2>2. task[t].pc = "save" => task[t].date <= clock'
    BY <2>1 DEF TaskFits
  <2>3. QED
    BY <1>1, <2>1, <2>2 DEF TaskFits
<1>3. ListFits(u)'
  <2>1. \A q \in Posts : rows'[u][q] <= clock'
    BY DEF UserFits, ListFits
  <2>2. QED
    BY <1>1, <2>1 DEF UserFits, ListFits
<1>4. ViewsFit(u)'
  BY <1>1 DEF UserFits, ViewsFit
<1>5. QED
  BY <1>2, <1>3, <1>4 DEF UserFits

\* The rows of a user are finitely many.
LEMMA ListedFinite ==
    ASSUME NEW u PROVE IsFiniteSet(Listed(u)) /\ Cardinality(Listed(u)) \in Nat
<1>1. Listed(u) \subseteq Posts
  BY DEF Listed
<1>2. QED
  BY <1>1, SetsAssumption, FS_Subset, FS_CardinalityType DEF SetsAssumption

\* The oldest row of a full list is not the one of the post viewed last.
LEMMA OldestIsAnother ==
    ASSUME RecentTypeOK, NEW u \in Users, ListFits(u), Full(u), lastViews[u] # <<>>,
           NEW p, IsOldest(u, p)
    PROVE  p # Latest(u)
<1> USE CapAssumption DEF CapAssumption
<1>1. IsFiniteSet(Listed(u)) /\ Cardinality(Listed(u)) = Cap
  BY ListedFinite DEF Full
<1>2. PICK q \in Listed(u) : q # Latest(u)
  <2>1. ASSUME Listed(u) \subseteq {Latest(u)} PROVE FALSE
    <3>1. Cardinality({Latest(u)}) = 1 /\ IsFiniteSet({Latest(u)})
      BY FS_Singleton
    <3>2. Cardinality(Listed(u)) <= 1
      BY <2>1, <3>1, FS_Subset
    <3>3. QED
      BY <1>1, <3>2
  <2>2. QED
    BY <2>1
<1>3. rows[u][q] < rows[u][Latest(u)] /\ rows[u][p] <= rows[u][q]
  BY <1>2 DEF ListFits, IsOldest
<1>4. rows[u][q] \in Nat /\ rows[u][p] \in Nat
  BY <1>2 DEF RecentTypeOK, Listed, IsOldest, Dates, NoRow
<1>5. QED
  BY <1>3, <1>4

\* The first two views, as SaveRow writes them.
LEMMA LastTwoOf ==
    ASSUME NEW p \in Posts, NEW s \in Seq(Posts)
    PROVE  /\ LastTwo(p, s) # <<>> /\ LastTwo(p, s)[1] = p /\ Len(LastTwo(p, s)) <= 2
           /\ \A n \in 1 .. Len(LastTwo(p, s)) :
                LastTwo(p, s)[n] = p \/ (s # <<>> /\ LastTwo(p, s)[n] = s[1])
<1>1. CASE s = <<>>
  BY <1>1 DEF LastTwo
<1>2. CASE s # <<>>
  <2>1. LastTwo(p, s) = <<p, s[1]>>
    BY <1>2 DEF LastTwo
  <2>2. QED
    BY <1>2, <2>1
<1>3. QED
  BY <1>1, <1>2

LEMMA RecentInvInit == RecentInit => RecentInv
<1> SUFFICES ASSUME RecentInit PROVE RecentInv
  OBVIOUS
<1>1. ASSUME NEW u \in Users PROVE UserFits(u)
  <2>1. Active(u) = {} /\ Listed(u) = {} /\ lastViews[u] = <<>> /\ clock = 0
    BY DEF RecentInit, Active, Listed, NoTask
  <2>2. Cardinality(Listed(u)) = 0
    BY <2>1, FS_EmptySet
  <2>3. ListFits(u)
    BY <2>1, <2>2, CapAssumption DEF ListFits, CapAssumption, RecentInit, NoRow
  <2>4. ViewsFit(u)
    BY <2>1 DEF ViewsFit
  <2>5. QED
    BY <2>1, <2>3, <2>4 DEF UserFits
<1>2. QED
  BY <1>1, RecentTypedInit DEF RecentInv

LEMMA RecentInvNext == RecentInv /\ [RecentNext]_recentVars => RecentInv'
<1> SUFFICES ASSUME RecentInv, [RecentNext]_recentVars PROVE RecentInv'
  OBVIOUS
<1> USE CapAssumption, SetsAssumption DEF CapAssumption, SetsAssumption
<1>1. RecentTyped' /\ RecentTyped
  BY RecentTypedNext DEF RecentInv
<1>2. RecentTypeOK /\ RecentTypeOK'
  BY <1>1 DEF RecentTyped
<1>3. overlapped \subseteq overlapped' /\ clock \in Nat /\ clock' \in Nat /\ clock <= clock'
  <2>1. clock \in Nat /\ clock' \in Nat
    BY <1>2 DEF RecentTypeOK
  <2>2. overlapped \subseteq overlapped' /\ (clock' = clock \/ clock' = clock + 1)
    BY DEF RecentNext, View, ReadList, DeleteOldest, Stamp, SaveRow, DeletePost, Crash, recentVars
  <2>3. QED
    BY <2>1, <2>2
<1> SUFFICES ASSUME NEW u \in Users \ overlapped' PROVE UserFits(u)'
  BY <1>1 DEF RecentInv
<1>4. /\ u \in Users /\ UserFits(u) /\ IsFiniteSet(Listed(u)) /\ Cardinality(Listed(u)) \in Nat
      /\ \A q \in Posts : rows[u][q] \in Nat
      /\ \A t \in Threads : task[t].date \in Nat \/ task[t].pc # "save"
  <2>1. \A t \in Threads : task[t].date \in Nat \/ task[t].pc # "save"
    <3>1. ASSUME NEW t \in Threads, task[t].pc = "save" PROVE task[t].date \in Nat
      BY <1>2, <3>1, TaskCases DEF Step, Dates
    <3>2. QED
      BY <3>1
  <2>2. QED
    BY <1>2, <1>3, <2>1, ListedFinite DEF RecentInv, RecentTypeOK, Dates, NoRow
\* A step of another user's task, or of no task.
<1>5. ASSUME rows'[u] = rows[u], lastViews'[u] = lastViews[u], Active(u)' = Active(u),
             \A t \in Active(u) : task'[t] = task[t]
      PROVE  UserFits(u)'
  BY <1>3, <1>4, <1>5, Untouched
<1>6. ASSUME NEW w \in Users, NEW p \in Posts, View(w, p) PROVE UserFits(u)'
  BY <1>5, <1>6 DEF View, Active
<1>7. ASSUME NEW t \in Threads, ReadList(t) PROVE UserFits(u)'
  <2> DEFINE v == Head(submitted)
  <2>1. v \in [user : Users, post : Posts]
    BY <1>2, <1>7, HeadAndTail DEF ReadList, RecentTypeOK
  <2>2. PICK p \in Posts \cup {NoPost} :
          /\ IsVictim(v.user, p)
          /\ task' = [task EXCEPT ![t] = [pc |-> IF p = NoPost THEN "stamp" ELSE "delete",
                 user |-> v.user, post |-> v.post, victim |-> p, date |-> NoRow]]
    BY <1>7 DEF ReadList
  <2>3. UNCHANGED <<rows, lastViews, clock>> /\ task[t].pc = "idle"
    BY <1>7 DEF ReadList
  <2>4. CASE v.user # u
    <3>1. Active(u)' = Active(u) /\ \A s \in Active(u) : task'[s] = task[s]
      BY <1>2, <2>2, <2>3, <2>4 DEF Active, RecentTypeOK
    <3>2. QED
      BY <1>5, <2>3, <3>1
  <2>5. CASE v.user = u
    <3>1. Active(u) = {}
      BY <1>7, <2>5 DEF ReadList
    <3>2. Active(u)' = {t}
      BY <1>2, <2>2, <2>3, <2>5, <3>1 DEF Active, RecentTypeOK
    <3>3. /\ task'[t].pc = (IF p = NoPost THEN "stamp" ELSE "delete")
          /\ task'[t].victim = p
      BY <1>2, <2>2 DEF RecentTypeOK
    <3>4. Listed(u)' = Listed(u) /\ Latest(u)' = Latest(u) /\ Full(u)' = Full(u)
      BY <2>3 DEF Listed, Latest, Full
    <3>5. CASE Full(u)
      <4>1. IsOldest(u, p) /\ p \in Listed(u) /\ p # NoPost
        BY <2>2, <2>5, <3>5 DEF IsVictim, IsOldest, Listed
      <4>2. lastViews[u] # <<>> => p # Latest(u)
        BY <1>2, <1>4, <3>5, <4>1, OldestIsAnother DEF UserFits
      <4>3. QED
        BY <2>3, <3>3, <3>4, <3>5, <4>1, <4>2, <3>2, <1>4 DEF TaskFits, UserFits, ListFits, ViewsFit
    <3>6. CASE ~Full(u)
      <4>1. p = NoPost
        BY <2>2, <2>5, <3>6 DEF IsVictim
      <4>2. Cardinality(Listed(u)) < Cap
        BY <1>4, <3>6 DEF UserFits, ListFits, Full
      <4>3. QED
        BY <2>3, <3>3, <3>4, <4>1, <4>2, <3>2, <1>4 DEF TaskFits, UserFits, ListFits, ViewsFit
    <3>7. QED
      BY <3>5, <3>6
  <2>6. QED
    BY <2>4, <2>5
\* A task that keeps its user and goes on.
<1>8. ASSUME NEW t \in Threads, NEW x, x.user = task[t].user, x.pc # "idle", task[t].pc # "idle",
             task' = [task EXCEPT ![t] = x]
      PROVE  /\ Active(u)' = Active(u)
             /\ task[t].user # u => \A s \in Active(u) : task'[s] = task[s]
             /\ task[t].user = u => Active(u) = {t} /\ Active(u)' = {t} /\ task'[t] = x
  <2>1. task'[t] = x /\ \A s \in Threads \ {t} : task'[s] = task[s]
    BY <1>2, <1>8 DEF RecentTypeOK
  <2>2. Active(u)' = Active(u)
    BY <1>8, <2>1 DEF Active
  <2>3. task[t].user # u => \A s \in Active(u) : task'[s] = task[s]
    BY <2>1 DEF Active
  <2>4. task[t].user = u => Active(u) = {t}
    BY <1>4, <1>8 DEF UserFits, Active
  <2>5. QED
    BY <2>1, <2>2, <2>3, <2>4
<1>9. ASSUME NEW t \in Threads, DeleteOldest(t) PROVE UserFits(u)'
  <2>1. /\ task[t].pc = "delete" /\ task[t] \in Step({"delete"}, Posts, {NoRow})
        /\ task[t].user \in Users
    BY <1>2, <1>9, TaskCases DEF DeleteOldest
  <2>2. UNCHANGED <<lastViews, clock>>
    BY <1>9 DEF DeleteOldest
  <2>3. CASE /\ rows' = [rows EXCEPT ![task[t].user][task[t].victim] = NoRow]
             /\ task' = [task EXCEPT ![t].pc = "stamp"]
    <3> DEFINE x == [task[t] EXCEPT !.pc = "stamp"]
    <3>1. x.user = task[t].user /\ x.pc = "stamp" /\ task' = [task EXCEPT ![t] = x]
      BY <2>1, <2>3 DEF Step
    <3> HIDE DEF x
    <3>2. /\ Active(u)' = Active(u)
          /\ task[t].user # u => \A s \in Active(u) : task'[s] = task[s]
          /\ task[t].user = u => Active(u) = {t} /\ Active(u)' = {t} /\ task'[t] = x
      BY <2>1, <3>1, <1>8
    <3>3. CASE task[t].user # u
      <4>1. rows'[u] = rows[u]
        BY <1>2, <2>1, <2>3, <3>3 DEF RecentTypeOK
      <4>2. QED
        BY <1>5, <2>2, <3>2, <3>3, <4>1
    <3>4. CASE task[t].user = u
      <4>1. Active(u) = {t} /\ Active(u)' = {t} /\ task'[t].pc = "stamp"
        BY <3>1, <3>2, <3>4
      <4> DEFINE p == task[t].victim
      <4>2. TaskFits(u, t) /\ p \in Listed(u)
        BY <1>4, <2>1, <4>1 DEF UserFits, TaskFits
      <4>3. /\ Full(u) /\ (lastViews[u] # <<>> => p # Latest(u))
        BY <2>1, <4>2 DEF TaskFits
      <4>4. rows'[u] = [rows[u] EXCEPT ![p] = NoRow]
        BY <1>2, <1>4, <2>3, <3>4 DEF RecentTypeOK
      <4>5. Listed(u)' = Listed(u) \ {p} /\ Latest(u)' = Latest(u)
        BY <1>2, <1>4, <2>2, <4>4 DEF Listed, RecentTypeOK, Latest
      <4>6. Cardinality(Listed(u)') = Cap - 1
        <5> HIDE DEF p
        <5>1. Cardinality(Listed(u) \ {p}) = Cardinality(Listed(u)) - 1
          BY <1>4, <4>2, FS_RemoveElement
        <5>2. QED
          BY <4>3, <4>5, <5>1 DEF Full
      <4>7. ~Full(u)' /\ Cardinality(Listed(u)') < Cap /\ Cardinality(Listed(u)') <= Cap
        BY <4>6 DEF Full
      <4>8. \A q \in Posts : rows'[u][q] <= clock
        BY <1>2, <1>3, <1>4, <4>4 DEF UserFits, ListFits, RecentTypeOK, NoRow
      <4>9. ListFits(u)'
        <5>1. lastViews'[u] # <<>> => Latest(u)' \in Listed(u)'
          BY <1>4, <2>2, <4>3, <4>5 DEF UserFits, ListFits
        <5>2. QED
          BY <2>2, <4>7, <4>8, <5>1 DEF ListFits
      <4>10. TaskFits(u, t)'
        BY <4>1, <4>7 DEF TaskFits
      <4>11. ViewsFit(u)'
        BY <1>4, <2>2, <4>1 DEF UserFits, ViewsFit
      <4>12. QED
        BY <4>1, <4>9, <4>10, <4>11 DEF UserFits
    <3>5. QED
      BY <3>3, <3>4
  <2>4. CASE rows[task[t].user][task[t].victim] = NoRow
             /\ task' = [task EXCEPT ![t] = NoTask] /\ UNCHANGED rows
    <3>1. task[t].user # u
      BY <1>4, <2>1, <2>4 DEF UserFits, Active, TaskFits, Listed
    <3>2. Active(u)' = Active(u) /\ \A s \in Active(u) : task'[s] = task[s]
      BY <1>2, <2>4, <3>1 DEF Active, RecentTypeOK, NoTask
    <3>3. QED
      BY <1>5, <2>2, <2>4, <3>2
  <2>5. QED
    BY <1>9, <2>3, <2>4 DEF DeleteOldest
<1>10. ASSUME NEW t \in Threads, Stamp(t) PROVE UserFits(u)'
  <2>1. task[t].pc = "stamp" /\ task[t] \in Step({"stamp"}, Posts \cup {NoPost}, {NoRow})
    BY <1>2, <1>10, TaskCases DEF Stamp
  <2>2. /\ clock' = clock + 1 /\ UNCHANGED <<rows, lastViews>>
        /\ task' = [task EXCEPT ![t] = [@ EXCEPT !.pc = "save", !.date = clock + 1]]
    BY <1>10 DEF Stamp
  <2> DEFINE x == [task[t] EXCEPT !.pc = "save", !.date = clock + 1]
  <2>3. /\ x.user = task[t].user /\ x.pc = "save" /\ x.date = clock + 1
        /\ task' = [task EXCEPT ![t] = x]
    BY <2>1, <2>2 DEF Step
  <2> HIDE DEF x
  <2>4. /\ Active(u)' = Active(u)
        /\ task[t].user # u => \A s \in Active(u) : task'[s] = task[s]
        /\ task[t].user = u => Active(u) = {t} /\ Active(u)' = {t} /\ task'[t] = x
    BY <2>1, <2>3, <1>8
  <2>5. CASE task[t].user # u
    BY <1>5, <2>2, <2>4, <2>5
  <2>6. CASE task[t].user = u
    <3>1. /\ Active(u) = {t} /\ Active(u)' = {t} /\ task'[t].pc = "save"
          /\ task'[t].date = clock + 1
      BY <2>3, <2>4, <2>6
    <3>2. Listed(u)' = Listed(u) /\ Latest(u)' = Latest(u) /\ Full(u)' = Full(u)
      BY <2>2 DEF Listed, Latest, Full
    <3>3. Cardinality(Listed(u)) < Cap
      BY <1>4, <2>1, <3>1 DEF UserFits, TaskFits
    <3>4. \A q \in Posts : rows[u][q] <= clock /\ rows[u][q] \in Nat
      BY <1>4 DEF UserFits, ListFits
    <3>5. \A q \in Posts : rows'[u][q] <= clock' /\ rows'[u][q] < clock + 1
      BY <1>3, <2>2, <3>4
    <3>6. TaskFits(u, t)'
      BY <1>3, <2>2, <3>1, <3>2, <3>3, <3>5 DEF TaskFits
    <3>7. ListFits(u)'
      BY <1>4, <2>2, <3>2, <3>5 DEF UserFits, ListFits
    <3>8. ViewsFit(u)'
      BY <1>4, <2>2, <3>1 DEF UserFits, ViewsFit
    <3>9. QED
      BY <3>1, <3>6, <3>7, <3>8 DEF UserFits
  <2>7. QED
    BY <2>5, <2>6
<1>11. ASSUME NEW t \in Threads, SaveRow(t) PROVE UserFits(u)'
  <2> DEFINE p == task[t].post
             d == task[t].date
  <2>1. task[t].user \in Users /\ p \in Posts /\ d \in Dates /\ task[t].pc = "save"
    BY <1>2, <1>11, TaskCases DEF SaveRow, Step
  <2>2. /\ rows' = [rows EXCEPT ![task[t].user][p] = IF @ = NoRow THEN d ELSE @]
        /\ lastViews' = [lastViews EXCEPT ![task[t].user] = LastTwo(p, @)]
        /\ task' = [task EXCEPT ![t] = NoTask] /\ clock' = clock
    BY <1>11 DEF SaveRow
  <2>3. CASE task[t].user # u
    <3>1. rows'[u] = rows[u] /\ lastViews'[u] = lastViews[u]
      BY <1>2, <1>4, <2>1, <2>2, <2>3 DEF RecentTypeOK
    <3>2. Active(u)' = Active(u) /\ \A s \in Active(u) : task'[s] = task[s]
      BY <1>2, <2>2, <2>3 DEF Active, RecentTypeOK, NoTask
    <3>3. QED
      BY <1>5, <3>1, <3>2
  <2>4. CASE task[t].user = u
    <3>1. t \in Active(u) /\ Active(u)' = {}
      BY <1>2, <1>4, <2>1, <2>2, <2>4 DEF Active, UserFits, RecentTypeOK, NoTask
    <3>2. /\ Cardinality(Listed(u)) < Cap /\ d <= clock
          /\ \A q \in Posts : rows[u][q] < d
      BY <1>4, <2>1, <3>1 DEF UserFits, TaskFits
    <3>3. /\ rows'[u] = [rows[u] EXCEPT ![p] = IF @ = NoRow THEN d ELSE @]
          /\ lastViews'[u] = LastTwo(p, lastViews[u])
          /\ rows[u] \in [Posts -> Nat] /\ lastViews[u] \in Seq(Posts)
      BY <1>2, <1>4, <2>2, <2>4 DEF RecentTypeOK, NoRow, Dates
    <3>4. d \in Nat \ {0}
      BY <2>1 DEF Dates
    <3> HIDE DEF p, d
    <3>5. Listed(u)' = Listed(u) \cup {p}
      BY <2>1, <3>3, <3>4 DEF Listed, NoRow
    <3>6. /\ lastViews'[u] # <<>> /\ Latest(u)' = p /\ Len(lastViews'[u]) <= 2
          /\ \A n \in 1 .. Len(lastViews'[u]) :
               lastViews'[u][n] = p \/ (lastViews[u] # <<>> /\ lastViews'[u][n] = Latest(u))
      BY <2>1, <3>3, LastTwoOf DEF Latest
    <3>7. lastViews[u] # <<>> => Latest(u) \in Listed(u)
      BY <1>4 DEF UserFits, ListFits
    <3>8. ViewsFit(u)'
      BY <3>5, <3>6, <3>7 DEF ViewsFit
    <3>9. \A q \in Posts : rows'[u][q] <= clock'
      BY <1>3, <1>4, <2>2, <3>2, <3>3, <3>4 DEF UserFits, ListFits
    <3>10. Cardinality(Listed(u)') <= Cap
           /\ (Full(u)' => p \notin Listed(u))
      <4>1. CASE p \in Listed(u)
        <5>1. Listed(u)' = Listed(u)
          BY <3>5, <4>1
        <5>2. Cardinality(Listed(u)') < Cap /\ Cardinality(Listed(u)') \in Nat
          BY <1>4, <3>2, <5>1
        <5>3. QED
          BY <5>2 DEF Full
      <4>2. CASE p \notin Listed(u)
        <5>1. Cardinality(Listed(u)') = Cardinality(Listed(u)) + 1
          BY <1>4, <3>5, <4>2, FS_AddElement
        <5>2. QED
          BY <1>4, <3>2, <4>2, <5>1
      <4>3. QED
        BY <4>1, <4>2
    <3>11. Full(u)' => \A q \in Listed(u)' \ {p} : rows'[u][q] < rows'[u][p]
      <4>1. SUFFICES ASSUME p \notin Listed(u), NEW q \in Listed(u) \cup {p}, q # p
                     PROVE  rows'[u][q] < rows'[u][p]
        BY <3>5, <3>10
      <4>2. rows'[u][p] = d /\ rows'[u][q] = rows[u][q] /\ q \in Posts
        BY <2>1, <3>3, <4>1 DEF Listed
      <4>3. QED
        BY <3>2, <4>2
    <3>12. ListFits(u)'
      BY <3>5, <3>6, <3>9, <3>10, <3>11 DEF ListFits
    <3>13. QED
      BY <3>1, <3>8, <3>12 DEF UserFits
  <2>5. QED
    BY <2>3, <2>4
<1>12. ASSUME NEW p \in Posts, DeletePost(p) PROVE UserFits(u)'
  BY <1>5, <1>12 DEF DeletePost, Active
<1>13. CASE Crash
  <2>1. Active(u)' = {} /\ UNCHANGED <<rows, clock>>
    BY <1>13 DEF Crash, Active, NoTask
  <2>2. lastViews'[u] = IF Active(u) = {} \/ lastViews[u] = <<>>
                        THEN lastViews[u] ELSE <<lastViews[u][1]>>
    BY <1>4, <1>13 DEF Crash
  <2>3. Listed(u)' = Listed(u) /\ Full(u)' = Full(u)
    BY <2>1 DEF Listed, Full
  <2>4. /\ lastViews'[u] # <<>> => lastViews[u] # <<>> /\ Latest(u)' = Latest(u)
    BY <2>2 DEF Latest
  <2>5. ListFits(u)'
    BY <1>4, <2>1, <2>3, <2>4 DEF UserFits, ListFits
  <2>6. ViewsFit(u)'
    <3>1. CASE Active(u) = {} \/ lastViews[u] = <<>>
      BY <1>4, <2>2, <2>3, <3>1 DEF UserFits, ViewsFit
    <3>2. CASE ~(Active(u) = {} \/ lastViews[u] = <<>>)
      <4>1. lastViews'[u] = <<Latest(u)>> /\ Latest(u) \in Listed(u)
        BY <1>4, <2>2, <3>2 DEF Latest, UserFits, ListFits
      <4>2. QED
        BY <2>3, <4>1 DEF ViewsFit
    <3>3. QED
      BY <3>1, <3>2
  <2>7. QED
    BY <2>1, <2>5, <2>6 DEF UserFits
<1>14. CASE UNCHANGED recentVars
  BY <1>5, <1>14 DEF recentVars, Active
<1>15. QED
  BY <1>6, <1>7, <1>9, <1>10, <1>11, <1>12, <1>13, <1>14 DEF RecentNext

-----------------------------------------------------------------------------
\* The list of a user whose tasks never overlapped stays within the cap.
THEOREM ListStaysWithinCap == RecentSpec => []AtMostCap
<1>1. RecentInv => AtMostCap
  BY DEF RecentInv, UserFits, ListFits, AtMostCap
<1>2. QED
  BY <1>1, RecentInvInit, RecentInvNext, PTL DEF RecentSpec

\* Such a user finds the post viewed last and, between two tasks, the one before it.
THEOREM LastViewsAreListed == RecentSpec => []LastTwoViewsShown
<1>1. ASSUME RecentInv, NEW u \in Users \ overlapped, NEW n \in DOMAIN lastViews[u],
             n = 1 \/ Active(u) = {}
      PROVE  lastViews[u][n] \in RecentPost(u) \cup (Posts \ posts)
  <2>1. UserFits(u) /\ lastViews[u] \in Seq(Posts) /\ n \in 1 .. Len(lastViews[u])
    BY <1>1 DEF RecentInv, RecentTyped, RecentTypeOK
  <2>2. lastViews[u][n] \in Listed(u)
    BY <1>1, <2>1 DEF UserFits, ListFits, ViewsFit, Latest
  <2>3. QED
    BY <2>2 DEF RecentPost, Listed
<1>2. RecentInv => LastTwoViewsShown
  BY <1>1 DEF LastTwoViewsShown
<1>3. QED
  BY <1>2, RecentInvInit, RecentInvNext, PTL DEF RecentSpec
=============================================================================
