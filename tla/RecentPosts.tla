---------------------------- MODULE RecentPosts ----------------------------
(***************************************************************************)
(* The list of the posts a user viewed last (RecentPostService).  Reading  *)
(* a post submits an asynchronous task to a pool of threads; the task      *)
(* reads the rows of the user, deletes the oldest when there are Cap, and  *)
(* saves a row for the post.  Its three database calls are three           *)
(* transactions.                                                           *)
(*                                                                         *)
(* A row is the date of its creation; saving a row that is there keeps the *)
(* date (the column is not updatable).                                     *)
(***************************************************************************)
EXTENDS Naturals, Sequences, FiniteSets

CONSTANTS Users, Posts,
          NoPost,    \* no post to delete
          Threads,   \* the threads of the pool (8)
          Cap,       \* rows a user has at most when all goes well (6)
          MaxViews,  \* bound on the number of views
          Crashes    \* whether the process may end

ASSUME CapAssumption  == Cap \in Nat \ {0, 1} /\ MaxViews \in Nat
ASSUME SetsAssumption == IsFiniteSet(Posts) /\ NoPost \notin Posts /\ Crashes \in BOOLEAN

NoRow  == 0
Dates  == 1 .. MaxViews
NoTask == [pc |-> "idle"]

VARIABLES
    posts,       \* posts that are in the database
    rows,        \* user -> post -> date of the row
    submitted,   \* views whose task has no thread yet, the oldest first
    task,        \* thread -> the task it runs
    clock,       \* the last date given
    views,       \* number of views so far
    lastViews,   \* history: user -> the posts of the last two tasks that ended
    overlapped   \* history: users two of whose tasks ran at the same time

recentVars == <<posts, rows, submitted, task, clock, views, lastViews, overlapped>>

RecentInit ==
    /\ posts = Posts
    /\ rows = [u \in Users |-> [p \in Posts |-> NoRow]]
    /\ submitted = <<>> /\ task = [t \in Threads |-> NoTask]
    /\ clock = 0 /\ views = 0
    /\ lastViews = [u \in Users |-> <<>>] /\ overlapped = {}

-----------------------------------------------------------------------------
Listed(u) == {p \in Posts : rows[u][p] # NoRow}

\* Mutant: the element of the list at position 0 in place of 5.
IsNewest(u, p) == p \in Listed(u) /\ \A q \in Listed(u) : rows[u][q] <= rows[u][p]

\* The last element of the list, which is ordered by date, the latest first.
IsOldest(u, p) == p \in Listed(u) /\ \A q \in Listed(u) : rows[u][p] <= rows[u][q]

\* Mutant: one row too many.
Overfull(u) == Cardinality(Listed(u)) = Cap + 1
Full(u)     == Cardinality(Listed(u)) = Cap

\* The row a task deletes, none when the list is not full.
IsVictim(u, p) == IF Full(u) THEN IsOldest(u, p) ELSE p = NoPost

Active(u) == {t \in Threads : task[t].pc # "idle" /\ task[t].user = u}

\* getDetail: the post is there.  Readers who are not logged in are one user,
\* whom Constants.getCurrentUser calls anonymousUser.
View(u, p) ==
    /\ p \in posts /\ views < MaxViews
    /\ submitted' = Append(submitted, [user |-> u, post |-> p])
    /\ views' = views + 1
    /\ UNCHANGED <<posts, rows, task, clock, lastViews, overlapped>>

\* addToRecentPost reads the list of the user.
ReadList(t) ==
    /\ task[t].pc = "idle" /\ submitted # <<>>
    /\ LET v == Head(submitted)
       IN  /\ \E p \in Posts \cup {NoPost} :
                /\ IsVictim(v.user, p)
                /\ task' = [task EXCEPT ![t] =
                     [pc     |-> IF p = NoPost THEN "stamp" ELSE "delete",
                      user   |-> v.user, post |-> v.post,
                      victim |-> p,      date |-> NoRow]]
           /\ overlapped' = IF Active(v.user) = {} THEN overlapped ELSE overlapped \cup {v.user}
    /\ submitted' = Tail(submitted)
    /\ UNCHANGED <<posts, rows, clock, views, lastViews>>

\* delete: it reads the row again; when the row is gone it has nothing to do, or
\* meets the other delete and the task ends in an exception.
DeleteOldest(t) ==
    /\ task[t].pc = "delete"
    /\ LET u == task[t].user
           p == task[t].victim
       IN  \/ /\ rows' = [rows EXCEPT ![u][p] = NoRow]
              /\ task' = [task EXCEPT ![t].pc = "stamp"]
           \/ /\ rows[u][p] = NoRow
              /\ task' = [task EXCEPT ![t] = NoTask]
              /\ UNCHANGED rows
    /\ UNCHANGED <<posts, submitted, clock, views, lastViews, overlapped>>

\* Mutant: a row without its date.
StampMissing(t) ==
    /\ task[t].pc = "stamp"
    /\ task' = [task EXCEPT ![t].pc = "save"]
    /\ UNCHANGED <<posts, rows, submitted, clock, views, lastViews, overlapped>>

Stamp(t) ==
    /\ task[t].pc = "stamp"
    /\ clock' = clock + 1
    /\ task' = [task EXCEPT ![t].pc = "save", ![t].date = clock + 1]
    /\ UNCHANGED <<posts, rows, submitted, views, lastViews, overlapped>>

LastTwo(p, s) == IF s = <<>> THEN <<p>> ELSE <<p, s[1]>>

SaveRow(t) ==
    /\ task[t].pc = "save"
    /\ LET u == task[t].user
           p == task[t].post
       IN  /\ rows' = [rows EXCEPT ![u][p] = IF @ = NoRow THEN task[t].date ELSE @]
           /\ lastViews' = [lastViews EXCEPT ![u] = LastTwo(p, @)]
    /\ task' = [task EXCEPT ![t] = NoTask]
    /\ UNCHANGED <<posts, submitted, clock, views, overlapped>>

\* PostServiceImpl.deleteById leaves the rows of the post behind.
DeletePost(p) ==
    /\ p \in posts
    /\ posts' = posts \ {p}
    /\ UNCHANGED <<rows, submitted, task, clock, views, lastViews, overlapped>>

\* getRecentPost: the posts of the list that still exist.
RecentPost(u) == Listed(u) \cap posts

\* The process ends: the tasks are gone, wherever they were.
Crash ==
    /\ Crashes
    /\ submitted' = <<>> /\ task' = [t \in Threads |-> NoTask]
    /\ lastViews' = 
         [u \in Users |-> IF Active(u) = {} \/ lastViews[u] = <<>>
                           THEN lastViews[u] ELSE <<lastViews[u][1]>>]
    /\ UNCHANGED <<posts, rows, clock, views, overlapped>>

RecentNext ==
    \/ \E u \in Users, p \in Posts : View(u, p)
    \/ \E t \in Threads : ReadList(t) \/ DeleteOldest(t) \/ Stamp(t) \/ SaveRow(t)
    \/ \E p \in Posts : DeletePost(p)
    \/ Crash

RecentSpec == RecentInit /\ [][RecentNext]_recentVars

-----------------------------------------------------------------------------
Step(pcs, victims, dates) ==
    [pc : pcs, user : Users, post : Posts, victim : victims, date : dates]

Task == {NoTask} \cup Step({"delete"}, Posts, {NoRow})
                 \cup Step({"stamp"}, Posts \cup {NoPost}, {NoRow})
                 \cup Step({"save"}, Posts \cup {NoPost}, Dates)

\* Every variable keeps its type; a task that deletes knows a row to delete.
RecentTypeOK ==
    /\ posts \subseteq Posts
    /\ rows \in [Users -> [Posts -> Dates \cup {NoRow}]]
    /\ submitted \in Seq([user : Users, post : Posts])
    /\ task \in [Threads -> Task]
    /\ clock \in 0 .. MaxViews /\ views \in 0 .. MaxViews
    /\ lastViews \in [Users -> Seq(Posts)] /\ overlapped \subseteq Users

\* The list of a user never exceeds six rows, unless two tasks of that user ran at
\* the same time: size() == 6 is the only test, so a list that once has seven rows
\* is never cut again (RecentPostService 33).
AtMostCap == \A u \in Users \ overlapped : Cardinality(Listed(u)) <= Cap

\* A user whose tasks did not overlap finds the post viewed last, and between two
\* tasks also the one viewed before it, although a second view does not renew the
\* date and yet deletes the oldest row (RecentPostService 32-42).
LastTwoViewsShown ==
    \A u \in Users \ overlapped : \A n \in DOMAIN lastViews[u] :
        n = 1 \/ Active(u) = {} => lastViews[u][n] \in RecentPost(u) \cup (Posts \ posts)
=============================================================================
