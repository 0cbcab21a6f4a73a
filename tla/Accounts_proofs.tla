-------------------------- MODULE Accounts_proofs --------------------------
(***************************************************************************)
(* Theorems about the user table, for any names, threads and number of     *)
(* rows.                                                                   *)
(***************************************************************************)
EXTENDS Accounts, FiniteSetTheorems, TLAPS

USE NamesAssumption DEF NamesAssumption

-----------------------------------------------------------------------------
(***************************************************************************)
(* Type correctness.                                                       *)
(***************************************************************************)
\* The requests a thread can be busy with.
LEMMA RequestCases ==
    ASSUME AccountsTypeOK, NEW t \in Threads
    PROVE  /\ req[t] \in Request
           /\ req[t].pc \in {"idle", "create", "read", "flush"}
           /\ req[t].pc = "create" => req[t].name \in Names
           /\ req[t].pc = "read" /\ req[t].op # "update" => req[t].whom \in Row
           /\ req[t].pc = "read" => req[t].op \in Ops
           /\ req[t].pc = "flush" => /\ req[t].id \in Row /\ req[t].seen \in User
                                     /\ req[t].op \in Ops \ {"delete"}
<1>1. req[t] \in Request
  BY DEF AccountsTypeOK
<1>2. CASE req[t] = Idle
  BY <1>1, <1>2 DEF Idle
<1>3. CASE req[t] \in [pc : {"create"}, name : Names]
  BY <1>1, <1>3
<1>4. CASE req[t] \in [pc : {"read"}, op : AdminOps, whom : Row]
  BY <1>1, <1>4 DEF Ops
<1>5. CASE req[t] \in [pc : {"read"}, op : {"update"}, whom : Names]
  BY <1>1, <1>5 DEF Ops
<1>6. CASE req[t] \in [pc : {"flush"}, op : Ops \ {"delete"}, id : Row, seen : User]
  BY <1>1, <1>6
<1>7. QED
  BY <1>1, <1>2, <1>3, <1>4, <1>5, <1>6 DEF Request

\* What a request makes of a user is a user.
LEMMA ChangedType ==
    ASSUME NEW u \in User, NEW op \in Ops \ {"delete"}
    PROVE  Changed(u, op) \in User
  BY DEF Changed, User, Ops, AdminOps

LEMMA NewUserType ==
    ASSUME NEW n \in Names, NEW isAdmin \in BOOLEAN
    PROVE  NewUser(n, isAdmin) \in User /\ NewUser(n, isAdmin).name = n
  BY DEF NewUser, User

LEMMA InsertType ==
    ASSUME AccountsTypeOK, NEW n \in Names, NEW isAdmin \in BOOLEAN, Insert(n, isAdmin)
    PROVE  /\ created' = created + 1 /\ created' \in 0 .. MaxRows
           /\ DOMAIN users' = DOMAIN users \cup {created + 1}
           /\ DOMAIN intended' = DOMAIN intended \cup {created + 1}
           /\ created + 1 \notin DOMAIN users
           /\ DOMAIN users' \subseteq 1 .. created'
           /\ \A i \in DOMAIN users : users'[i] = users[i]
           /\ \A i \in DOMAIN intended : intended'[i] = intended[i]
           /\ users'[created + 1] = intended'[created + 1]
           /\ users'[created + 1].name = n
           /\ \A i \in DOMAIN users' : users'[i] \in User
           /\ \A i \in DOMAIN intended' : intended'[i] \in User
<1>1. created' = created + 1 /\ created \in Nat /\ created < MaxRows
  BY DEF Insert, AccountsTypeOK
<1>2. /\ users' = Added(users, created + 1, NewUser(n, isAdmin))
      /\ intended' = Added(intended, created + 1, NewUser(n, isAdmin))
  BY DEF Insert
<1>3. created + 1 \notin DOMAIN users /\ created + 1 \notin DOMAIN intended
  BY <1>1 DEF AccountsTypeOK
<1>4. /\ DOMAIN users' = DOMAIN users \cup {created + 1}
      /\ DOMAIN intended' = DOMAIN intended \cup {created + 1}
      /\ \A i \in DOMAIN users : users'[i] = users[i]
      /\ \A i \in DOMAIN intended : intended'[i] = intended[i]
      /\ users'[created + 1] = NewUser(n, isAdmin)
      /\ intended'[created + 1] = NewUser(n, isAdmin)
  BY <1>2, <1>3 DEF Added
<1>5. DOMAIN users' \subseteq 1 .. created'
  BY <1>1, <1>4 DEF AccountsTypeOK
<1>6. /\ \A i \in DOMAIN users' : users'[i] \in User
      /\ \A i \in DOMAIN intended' : intended'[i] \in User
  BY <1>4, NewUserType DEF AccountsTypeOK
<1>7. users'[created + 1].name = n
  BY <1>4, NewUserType
<1>8. QED
  BY <1>1, <1>3, <1>4, <1>5, <1>6, <1>7

LEMMA AccountsTyped == AccountsTypeOK /\ [AccountsNext]_accountVars => AccountsTypeOK'
<1> SUFFICES ASSUME AccountsTypeOK, [AccountsNext]_accountVars PROVE AccountsTypeOK'
  OBVIOUS
<1> USE DEF AccountsTypeOK
<1>1. ASSUME InitAdminFind PROVE AccountsTypeOK'
  BY <1>1 DEF InitAdminFind
<1>2. ASSUME InitAdminSave PROVE AccountsTypeOK'
  <2>1. Insert(AdminName, TRUE) /\ UNCHANGED <<req, raced>> /\ boot' = "up"
    BY <1>2 DEF InitAdminSave
  <2>2. QED
    BY <2>1, InsertType
<1>3. ASSUME Restart PROVE AccountsTypeOK'
  BY <1>3 DEF Restart, Request
<1>4. ASSUME NEW t \in Threads, NEW n \in Names, RegisterFind(t, n) PROVE AccountsTypeOK'
  <2>1. [pc |-> "create", name |-> n] \in Request
    BY DEF Request
  <2>2. QED
    BY <1>4, <2>1 DEF RegisterFind
<1>5. ASSUME NEW t \in Threads, NEW n \in Names, Filter(t, n, "update", n) PROVE AccountsTypeOK'
  <2>1. [pc |-> "read", op |-> "update", whom |-> n] \in Request
    BY DEF Request
  <2>2. QED
    BY <1>5, <2>1 DEF Filter
<1>6. ASSUME NEW t \in Threads, NEW n \in Names, NEW op \in AdminOps, NEW i \in 1 .. created,
             Filter(t, n, op, i)
      PROVE  AccountsTypeOK'
  <2>1. i \in Row
    BY DEF Row
  <2>2. [pc |-> "read", op |-> op, whom |-> i] \in Request
    BY <2>1 DEF Request
  <2>3. QED
    BY <1>6, <2>2 DEF Filter
<1>7. ASSUME NEW t \in Threads, RegisterSave(t) PROVE AccountsTypeOK'
  <2>1. req[t].name \in Names /\ Insert(req[t].name, FALSE)
    BY <1>7, RequestCases DEF RegisterSave
  <2>2. req' \in [Threads -> Request]
    BY <1>7 DEF RegisterSave, Request
  <2>3. QED
    BY <1>7, <2>1, <2>2, InsertType DEF RegisterSave
<1>8. ASSUME NEW t \in Threads, ReadNone(t) PROVE AccountsTypeOK'
  BY <1>8 DEF ReadNone, Request
<1>9. ASSUME NEW t \in Threads, ReadOne(t) PROVE AccountsTypeOK'
  <2>1. PICK i \in Row :
           /\ Target(req[t]) = {i}
           /\ req' = [req EXCEPT ![t] = [pc |-> "flush", op |-> req[t].op, id |-> i, seen |-> users[i]]]
           /\ intended' = IF Reading(i) = {} THEN intended ELSE Only(intended, Row \ {i})
    BY <1>9 DEF ReadOne
  <2>2. i \in DOMAIN users
    BY <2>1 DEF Target, Found
  <2>3. req[t].op \in Ops \ {"delete"}
    BY <1>9, RequestCases DEF ReadOne
  <2>4. [pc |-> "flush", op |-> req[t].op, id |-> i, seen |-> users[i]] \in Request
    BY <2>2, <2>3 DEF Request
  <2>5. req' \in [Threads -> Request]
    BY <2>1, <2>4
  <2>6. /\ DOMAIN intended' \subseteq DOMAIN intended
        /\ \A j \in DOMAIN intended' : intended'[j] = intended[j]
    BY <2>1 DEF Only
  <2>7. QED
    BY <1>9, <2>5, <2>6 DEF ReadOne
<1>10. ASSUME NEW t \in Threads, Flush(t) PROVE AccountsTypeOK'
  <2>1. /\ req[t].id \in Row /\ req[t].seen \in User /\ req[t].op \in Ops \ {"delete"}
    BY <1>10, RequestCases DEF Flush
  <2>2. Written(req[t]) \in User
    BY <2>1, ChangedType DEF Written
  <2>3. /\ DOMAIN users' = DOMAIN users /\ \A i \in DOMAIN users : users'[i] \in User
    BY <1>10, <2>2 DEF Flush
  <2>4. /\ DOMAIN intended' = DOMAIN intended /\ \A i \in DOMAIN intended : intended'[i] \in User
    BY <1>10, <2>1, ChangedType DEF Flush
  <2>5. req' \in [Threads -> Request]
    BY <1>10 DEF Flush, Request
  <2>6. QED
    BY <1>10, <2>3, <2>4, <2>5 DEF Flush
<1>11. ASSUME NEW t \in Threads, DeleteById(t) PROVE AccountsTypeOK'
  <2>1. /\ DOMAIN users' \subseteq DOMAIN users /\ \A i \in DOMAIN users' : users'[i] = users[i]
        /\ DOMAIN intended' \subseteq DOMAIN users' /\ DOMAIN intended' \subseteq DOMAIN intended
        /\ \A i \in DOMAIN intended' : intended'[i] = intended[i]
    BY <1>11 DEF DeleteById, Only
  <2>2. req' \in [Threads -> Request]
    BY <1>11 DEF DeleteById, Request
  <2>3. QED
    BY <1>11, <2>1, <2>2 DEF DeleteById
<1>12. CASE UNCHANGED accountVars
  BY <1>12 DEF accountVars
<1>13. QED
  BY <1>1, <1>2, <1>3, <1>4, <1>5, <1>6, <1>7, <1>8, <1>9, <1>10, <1>11, <1>12
  DEF AccountsNext, Handle

LEMMA AccountsTypedInit == AccountsInit => AccountsTypeOK
  BY DEF AccountsInit, AccountsTypeOK, Request

\* Every variable keeps its type (AccountsTypeOK): rows have numbers that were given
\* out, and what a thread holds is a request (UserServiceImpl, UserController).
THEOREM AccountsTypeCorrect == AccountsSpec => []AccountsTypeOK
<1>1. QED
  BY AccountsTypedInit, AccountsTyped, PTL DEF AccountsSpec

-----------------------------------------------------------------------------
(***************************************************************************)
(* Changes of a row.  While nothing overlaps, the one thread that has read *)
(* a row has seen what is in it; numbers of rows are not used again.       *)
(***************************************************************************)
Flushing(t) == req[t].pc = "flush"

SeenFits ==
    \A t \in Threads : Flushing(t) =>
        /\ req[t].id \in 1 .. created
        /\ req[t].id \in DOMAIN intended =>
              /\ req[t].seen = users[req[t].id]
              /\ \A s \in Threads : Flushing(s) /\ req[s].id = req[t].id => s = t

ChangeInv == AccountsTypeOK /\ NoLostChange /\ SeenFits

\* A thread that stops flushing, or never does, disturbs no one.
LEMMA OtherThreads ==
    ASSUME ChangeInv, NEW t \in Threads,
           req'[t].pc # "flush", \A s \in Threads \ {t} : req'[s] = req[s],
           created \in Nat, created' \in Nat, created <= created',
           \A i \in DOMAIN intended' : i \in 1 .. created => i \in DOMAIN intended,
           \A s \in Threads \ {t} : Flushing(s) /\ req[s].id \in DOMAIN intended' =>
                users'[req[s].id] = users[req[s].id]
    PROVE  SeenFits'
<1> SUFFICES ASSUME NEW s \in Threads, Flushing(s)'
             PROVE  /\ req'[s].id \in 1 .. created'
                    /\ req'[s].id \in DOMAIN intended' =>
                          /\ req'[s].seen = users'[req'[s].id]
                          /\ \A r \in Threads : Flushing(r)' /\ req'[r].id = req'[s].id => r = s
  BY DEF SeenFits, Flushing
<1>1. s # t /\ req'[s] = req[s] /\ Flushing(s)
  BY DEF Flushing
<1>2. \A r \in Threads : Flushing(r)' => req'[r] = req[r] /\ Flushing(r)
  BY DEF Flushing
<1>3. req[s].id \in 1 .. created
  BY <1>1 DEF ChangeInv, SeenFits
<1>4. req[s].id \in 1 .. created'
  BY <1>3
<1>5. QED
  BY <1>1, <1>2, <1>3, <1>4 DEF ChangeInv, SeenFits

LEMMA ChangeStep == ChangeInv /\ [AccountsNext]_accountVars => ChangeInv'
<1> SUFFICES ASSUME ChangeInv, [AccountsNext]_accountVars PROVE ChangeInv'
  OBVIOUS
<1>0. /\ AccountsTypeOK' /\ AccountsTypeOK /\ req \in [Threads -> Request]
      /\ created \in Nat /\ created' \in Nat
  BY AccountsTyped DEF ChangeInv, AccountsTypeOK
<1>1. ASSUME UNCHANGED <<users, created, req, intended>> PROVE ChangeInv'
  BY <1>0, <1>1 DEF ChangeInv, NoLostChange, SeenFits, Flushing
<1>2. ASSUME InitAdminSave PROVE ChangeInv'
  <2>1. Insert(AdminName, TRUE) /\ UNCHANGED req
    BY <1>2 DEF InitAdminSave
  <2>2. /\ DOMAIN intended' = DOMAIN intended \cup {created + 1}
        /\ \A i \in DOMAIN users : users'[i] = users[i]
        /\ \A i \in DOMAIN intended : intended'[i] = intended[i]
        /\ users'[created + 1] = intended'[created + 1]
        /\ created' = created + 1
    BY <1>0, <2>1, InsertType
  <2>3. NoLostChange'
    BY <1>0, <2>2 DEF NoLostChange, ChangeInv, AccountsTypeOK
  <2>4. SeenFits'
    <3> SUFFICES ASSUME NEW t \in Threads, Flushing(t)
                 PROVE  /\ req[t].id \in 1 .. created'
                        /\ req[t].id \in DOMAIN intended' =>
                              /\ req[t].seen = users'[req[t].id]
                              /\ \A s \in Threads : Flushing(s) /\ req[s].id = req[t].id => s = t
      BY <2>1 DEF SeenFits, Flushing
    <3>1. req[t].id \in 1 .. created
      BY DEF ChangeInv, SeenFits
    <3>2. req[t].id \in 1 .. created' /\ req[t].id # created + 1
      BY <1>0, <2>2, <3>1
    <3>3. QED
      BY <1>0, <2>2, <3>2 DEF ChangeInv, SeenFits, AccountsTypeOK
  <2>5. QED
    BY <1>0, <2>3, <2>4 DEF ChangeInv
<1>3. ASSUME Restart PROVE ChangeInv'
  BY <1>0, <1>3 DEF Restart, ChangeInv, NoLostChange, SeenFits, Flushing, Idle
<1>4. ASSUME NEW t \in Threads, NEW v, v.pc # "flush", req' = [req EXCEPT ![t] = v],
             UNCHANGED <<users, created, intended>>
      PROVE  ChangeInv'
  <2>0. req'[t].pc # "flush" /\ \A s \in Threads \ {t} : req'[s] = req[s]
    BY <1>0, <1>4
  <2>1. SeenFits'
    BY <1>0, <1>4, <2>0, OtherThreads
  <2>2. QED
    BY <1>0, <1>4, <2>1 DEF ChangeInv, NoLostChange
<1>5. ASSUME NEW t \in Threads, NEW n \in Names, RegisterFind(t, n) PROVE ChangeInv'
  BY <1>4, <1>5 DEF RegisterFind
<1>6. ASSUME NEW t \in Threads, NEW n, NEW op, NEW whom, Filter(t, n, op, whom) PROVE ChangeInv'
  BY <1>4, <1>6 DEF Filter
<1>7. ASSUME NEW t \in Threads, RegisterSave(t) PROVE ChangeInv'
  <2>1. req[t].name \in Names /\ Insert(req[t].name, FALSE) /\ req' = [req EXCEPT ![t] = Idle]
    BY <1>0, <1>7, RequestCases DEF RegisterSave
  <2>2. /\ DOMAIN intended' = DOMAIN intended \cup {created + 1}
        /\ \A i \in DOMAIN users : users'[i] = users[i]
        /\ \A i \in DOMAIN intended : intended'[i] = intended[i]
        /\ users'[created + 1] = intended'[created + 1]
        /\ created' = created + 1
    BY <1>0, <2>1, InsertType
  <2>3. NoLostChange'
    BY <1>0, <2>2 DEF NoLostChange, ChangeInv, AccountsTypeOK
  <2>4. \A s \in Threads : Flushing(s) => req[s].id \in 1 .. created
    BY DEF ChangeInv, SeenFits
  <2>5. /\ \A i \in DOMAIN intended' : i \in 1 .. created => i \in DOMAIN intended
        /\ \A s \in Threads \ {t} : Flushing(s) /\ req[s].id \in DOMAIN intended' =>
               users'[req[s].id] = users[req[s].id]
        /\ created' \in Nat /\ created <= created'
    BY <1>0, <2>2, <2>4 DEF AccountsTypeOK
  <2>6. req'[t].pc # "flush" /\ \A s \in Threads \ {t} : req'[s] = req[s]
    BY <1>0, <2>1 DEF Idle
  <2>7. SeenFits'
    BY <1>0, <2>5, <2>6, OtherThreads
  <2>8. QED
    BY <1>0, <2>3, <2>7 DEF ChangeInv
<1>8. ASSUME NEW t \in Threads, ReadNone(t) PROVE ChangeInv'
  BY <1>4, <1>8 DEF ReadNone, Idle
<1>9. ASSUME NEW t \in Threads, ReadOne(t) PROVE ChangeInv'
  <2>1. PICK i \in Row :
           /\ Target(req[t]) = {i}
           /\ req' = [req EXCEPT ![t] = [pc |-> "flush", op |-> req[t].op, id |-> i, seen |-> users[i]]]
           /\ intended' = IF Reading(i) = {} THEN intended ELSE Only(intended, Row \ {i})
    BY <1>9 DEF ReadOne
  <2>2. i \in DOMAIN users /\ UNCHANGED <<users, created>> /\ i \in 1 .. created
    BY <1>0, <1>9, <2>1 DEF ReadOne, Target, Found, AccountsTypeOK
  <2>3. /\ DOMAIN intended' \subseteq DOMAIN intended
        /\ \A j \in DOMAIN intended' : intended'[j] = intended[j]
        /\ i \in DOMAIN intended' => Reading(i) = {}
    BY <2>1 DEF Only
  <2>4. NoLostChange'
    BY <2>2, <2>3 DEF ChangeInv, NoLostChange
  <2>5. /\ req'[t].pc = "flush" /\ req'[t].id = i /\ req'[t].seen = users[i]
        /\ \A s \in Threads \ {t} : req'[s] = req[s]
    BY <1>0, <2>1
  <2>6. \A s \in Threads : Flushing(s) /\ req[s].id = i => i \notin DOMAIN intended'
    BY <2>3 DEF Reading, Flushing
  <2>7. SeenFits'
    <3> SUFFICES ASSUME NEW s \in Threads, Flushing(s)'
                 PROVE  /\ req'[s].id \in 1 .. created'
                        /\ req'[s].id \in DOMAIN intended' =>
                              /\ req'[s].seen = users'[req'[s].id]
                              /\ \A r \in Threads : Flushing(r)' /\ req'[r].id = req'[s].id => r = s
      BY DEF SeenFits, Flushing
    <3>1. CASE s = t
      BY <2>2, <2>5, <2>6, <3>1 DEF Flushing
    <3>2. CASE s # t
      <4>1. req'[s] = req[s] /\ Flushing(s)
        BY <2>5, <3>2 DEF Flushing
      <4>2. req'[s].id \in DOMAIN intended' => req'[s].id # i
        BY <2>6, <4>1
      <4>3. QED
        BY <2>2, <2>3, <2>5, <4>1, <4>2 DEF ChangeInv, SeenFits, Flushing
    <3>3. QED
      BY <3>1, <3>2
  <2>8. QED
    BY <1>0, <2>4, <2>7 DEF ChangeInv
<1>10. ASSUME NEW t \in Threads, Flush(t) PROVE ChangeInv'
  <2>1. req' = [req EXCEPT ![t] = Idle] /\ UNCHANGED created /\ Flushing(t)
    BY <1>10 DEF Flush, Flushing
  <2>2. Idle.pc # "flush"
    BY DEF Idle
  <2>3. CASE req[t].id \notin DOMAIN users
    <3>1. UNCHANGED <<users, created, intended>>
      BY <1>10, <2>3 DEF Flush
    <3>2. QED
      BY <1>4, <2>1, <2>2, <3>1
  <2>4. CASE req[t].id \in DOMAIN users
    <3>1. /\ users' = IF Written(req[t]) = req[t].seen THEN users
                      ELSE [users EXCEPT ![req[t].id] = Written(req[t])]
          /\ intended' = [j \in DOMAIN intended |->
                 IF j = req[t].id THEN Changed(intended[req[t].id], req[t].op) ELSE intended[j]]
      BY <1>10, <2>4 DEF Flush
    <3>2. /\ DOMAIN users' = DOMAIN users /\ DOMAIN intended' = DOMAIN intended
          /\ \A j \in DOMAIN users : j # req[t].id => users'[j] = users[j]
          /\ \A j \in DOMAIN intended : j # req[t].id => intended'[j] = intended[j]
      BY <2>4, <3>1
    <3>3. ASSUME req[t].id \in DOMAIN intended
          PROVE  users'[req[t].id] = intended'[req[t].id]
      <4>1. req[t].seen = users[req[t].id] /\ users[req[t].id] = intended[req[t].id]
        BY <2>1, <3>3 DEF ChangeInv, SeenFits, NoLostChange
      <4>2. Written(req[t]) = Changed(intended[req[t].id], req[t].op)
        BY <4>1 DEF Written
      <4>3. users'[req[t].id] = Written(req[t])
        BY <2>4, <3>1, <4>1
      <4>4. QED
        BY <3>1, <3>3, <4>2, <4>3
    <3>4. NoLostChange'
      BY <1>0, <3>2, <3>3 DEF ChangeInv, NoLostChange, AccountsTypeOK
    <3>5. \A s \in Threads \ {t} : Flushing(s) /\ req[s].id \in DOMAIN intended' =>
              users'[req[s].id] = users[req[s].id]
      BY <1>0, <2>1, <3>2 DEF ChangeInv, SeenFits, AccountsTypeOK
    <3>6. req'[t].pc # "flush" /\ \A s \in Threads \ {t} : req'[s] = req[s]
      BY <1>0, <2>1, <2>2
    <3>7. SeenFits'
      BY <1>0, <2>1, <3>2, <3>5, <3>6, OtherThreads
    <3>8. QED
      BY <1>0, <3>4, <3>7 DEF ChangeInv
  <2>5. QED
    BY <2>3, <2>4
<1>11. ASSUME NEW t \in Threads, DeleteById(t) PROVE ChangeInv'
  <2>1. /\ \A i \in DOMAIN users' : users'[i] = users[i]
        /\ DOMAIN intended' \subseteq DOMAIN users' /\ DOMAIN intended' \subseteq DOMAIN intended
        /\ \A i \in DOMAIN intended' : intended'[i] = intended[i]
        /\ req' = [req EXCEPT ![t] = Idle] /\ UNCHANGED created
    BY <1>0, <1>11 DEF DeleteById, Only, AccountsTypeOK
  <2>2. NoLostChange'
    BY <2>1 DEF ChangeInv, NoLostChange
  <2>3. req'[t].pc # "flush" /\ \A s \in Threads \ {t} : req'[s] = req[s]
    BY <1>0, <2>1 DEF Idle
  <2>4. SeenFits'
    BY <1>0, <2>1, <2>3, OtherThreads
  <2>5. QED
    BY <1>0, <2>2, <2>4 DEF ChangeInv
<1>12. QED
  BY <1>1, <1>2, <1>3, <1>5, <1>6, <1>7, <1>8, <1>9, <1>10, <1>11
  DEF AccountsNext, Handle, InitAdminFind, accountVars

\* A row is what the changes of it give one after the other, unless two of them
\* overlapped (NoLostChange; UserServiceImpl 154-193).
THEOREM ChangesAreKept == AccountsSpec => []NoLostChange
<1>1. AccountsInit => ChangeInv
  BY AccountsTypedInit DEF AccountsInit, ChangeInv, NoLostChange, SeenFits, Flushing, Idle
<1>2. ChangeInv => NoLostChange
  BY DEF ChangeInv
<1>3. QED
  BY <1>1, <1>2, ChangeStep, PTL DEF AccountsSpec

-----------------------------------------------------------------------------
(***************************************************************************)
(* One row of a name.  While nothing overlaps, one thread at most is about *)
(* to create a name, and only one that has no row; no request runs while   *)
(* the application starts.                                                 *)
(***************************************************************************)
NamesFit(n) == /\ \A i, j \in Found(n) : i = j
               /\ \A s, t \in Creating(n) : s = t
               /\ Creating(n) # {} => Found(n) = {}

\* A row that a thread has read has the name it had then.
NamesSeen == \A t \in Threads : Flushing(t) =>
                 /\ req[t].id \in 1 .. created
                 /\ req[t].id \in DOMAIN users => users[req[t].id].name = req[t].seen.name

Quiet == boot # "up" => \A t \in Threads : req[t].pc = "idle"

NameInv == /\ AccountsTypeOK /\ NamesSeen /\ Quiet /\ BootSucceeds
           /\ \A n \in Names \ raced : NamesFit(n)
           /\ boot = "create" => Found(AdminName) = {}

\* What an update of a user leaves of it.
LEMMA ChangedName ==
    ASSUME NEW u \in User, NEW op \in Ops \ {"delete"}
    PROVE  Changed(u, op).name = u.name
  BY DEF Changed, User, Ops, AdminOps

\* Fewer rows and fewer creations of a name fit as well.
LEMMA FewerFit ==
    ASSUME NEW n, NamesFit(n), Found(n)' \subseteq Found(n), Creating(n)' \subseteq Creating(n)
    PROVE  NamesFit(n)'
  BY DEF NamesFit

\* One row at most: none, or exactly one.
LEMMA OneRow ==
    ASSUME NEW n, \A i, j \in Found(n) : i = j
    PROVE  Cardinality(Found(n)) <= 1 /\ (Found(n) # {} => Cardinality(Found(n)) = 1)
<1>1. CASE Found(n) = {}
  BY <1>1, FS_EmptySet
<1>2. CASE Found(n) # {}
  <2>1. PICK i : Found(n) = {i}
    BY <1>2
  <2>2. Cardinality({i}) = 1
    BY FS_Singleton
  <2>3. QED
    BY <2>1, <2>2
<1>3. QED
  BY <1>1, <1>2

\* A thread that creates no one, while no row appears and none changes its name.
LEMMA NamesStay ==
    ASSUME NameInv, AccountsTypeOK', NEW t \in Threads,
           \A s \in Threads \ {t} : req'[s] = req[s],
           req'[t].pc \notin {"create", "flush"}, req'[t].pc = "idle" \/ boot = "up",
           UNCHANGED <<boot, raced, created>>,
           DOMAIN users' \subseteq DOMAIN users,
           \A i \in DOMAIN users' : users'[i].name = users[i].name
    PROVE  NameInv'
<1>1. \A n \in Names : Found(n)' \subseteq Found(n) /\ Creating(n)' \subseteq Creating(n)
  BY DEF Found, Creating
<1>2. \A n \in Names \ raced : NamesFit(n)'
  BY <1>1, FewerFit DEF NameInv
<1>3. NamesSeen'
  BY DEF NameInv, NamesSeen, Flushing
<1>4. Quiet' /\ BootSucceeds' /\ (boot' = "create" => Found(AdminName)' = {})
  BY <1>1 DEF NameInv, Quiet, BootSucceeds
<1>5. QED
  BY <1>2, <1>3, <1>4 DEF NameInv

\* A row is created by the one thread that may create its name.
LEMMA NameInserted ==
    ASSUME NameInv, NEW n \in Names, NEW isAdmin \in BOOLEAN, Insert(n, isAdmin)
    PROVE  /\ Found(n)' = Found(n) \cup {created + 1}
           /\ \A k \in Names \ {n} : Found(k)' = Found(k)
           /\ \A t \in Threads : Flushing(t) =>
                 /\ req[t].id \in 1 .. created'
                 /\ req[t].id \in DOMAIN users' => users'[req[t].id].name = req[t].seen.name
<1>0. AccountsTypeOK /\ created \in Nat
  BY DEF NameInv, AccountsTypeOK
<1>1. /\ created' = created + 1 /\ created \in Nat
      /\ DOMAIN users' = DOMAIN users \cup {created + 1}
      /\ created + 1 \notin DOMAIN users
      /\ \A i \in DOMAIN users : users'[i] = users[i]
      /\ users'[created + 1].name = n
  BY <1>0, InsertType
<1>2. Found(n)' = Found(n) \cup {created + 1} /\ \A k \in Names \ {n} : Found(k)' = Found(k)
  BY <1>1 DEF Found
<1>3. ASSUME NEW t \in Threads, Flushing(t)
      PROVE  /\ req[t].id \in 1 .. created'
             /\ req[t].id \in DOMAIN users' => users'[req[t].id].name = req[t].seen.name
  <2>1. req[t].id \in 1 .. created
    BY <1>3 DEF NameInv, NamesSeen
  <2>2. req[t].id \in 1 .. created' /\ req[t].id # created + 1
    BY <1>1, <2>1
  <2>3. QED
    BY <1>1, <1>3, <2>2 DEF NameInv, NamesSeen
<1>4. QED
  BY <1>2, <1>3

LEMMA NameStep == NameInv /\ [AccountsNext]_accountVars => NameInv'
<1> SUFFICES ASSUME NameInv, [AccountsNext]_accountVars PROVE NameInv'
  OBVIOUS
<1>0. AccountsTypeOK /\ AccountsTypeOK' /\ req \in [Threads -> Request]
  BY AccountsTyped DEF NameInv, AccountsTypeOK
<1>1. ASSUME InitAdminFind PROVE NameInv'
  <2>1. UNCHANGED <<users, created, req, raced>> /\ boot = "check"
    BY <1>1 DEF InitAdminFind
  <2>2. /\ \A n \in Names : Found(n)' = Found(n) /\ Creating(n)' = Creating(n)
        /\ NamesSeen' /\ \A t \in Threads : req'[t].pc = "idle"
    BY <2>1 DEF NameInv, NamesSeen, Flushing, Found, Creating, Quiet
  <2>3. \A n \in Names \ raced' : NamesFit(n)'
    BY <2>1, <2>2, FewerFit DEF NameInv
  <2>4. boot' = "create" => Found(AdminName) = {}
    BY <1>1 DEF InitAdminFind
  <2>5. ASSUME boot' = "failed" PROVE AdminName \in raced
    <3>1. Found(AdminName) # {} /\ Cardinality(Found(AdminName)) # 1
      BY <1>1, <2>5 DEF InitAdminFind
    <3>2. QED
      BY <3>1, OneRow DEF NameInv, NamesFit
  <2>6. QED
    BY <1>0, <2>1, <2>2, <2>3, <2>4, <2>5 DEF NameInv, Quiet, BootSucceeds
<1>2. ASSUME InitAdminSave PROVE NameInv'
  <2>1. /\ Insert(AdminName, TRUE) /\ UNCHANGED <<req, raced>> /\ boot = "create" /\ boot' = "up"
        /\ Found(AdminName) = {} /\ \A t \in Threads : req[t].pc = "idle"
    BY <1>2 DEF InitAdminSave, NameInv, Quiet
  <2>2. /\ Found(AdminName)' = Found(AdminName) \cup {created + 1}
        /\ \A k \in Names \ {AdminName} : Found(k)' = Found(k)
    BY <1>0, <2>1, NameInserted
  <2>3. \A n \in Names : Creating(n)' = {}
    BY <2>1 DEF Creating
  <2>4. \A n \in Names \ raced : NamesFit(n)'
    BY <2>1, <2>2, <2>3 DEF NameInv, NamesFit
  <2>5. NamesSeen'
    BY <2>1 DEF NamesSeen, Flushing
  <2>6. QED
    BY <1>0, <2>1, <2>4, <2>5 DEF NameInv, Quiet, BootSucceeds
<1>3. ASSUME Restart PROVE NameInv'
  <2>1. /\ UNCHANGED <<users, created, raced>> /\ boot' = "check"
        /\ \A t \in Threads : req'[t].pc = "idle"
    BY <1>3 DEF Restart, Idle
  <2>2. \A n \in Names : Found(n)' = Found(n) /\ Creating(n)' = {}
    BY <2>1 DEF Found, Creating
  <2>3. \A n \in Names \ raced' : NamesFit(n)'
    BY <2>1, <2>2, FewerFit DEF NameInv
  <2>4. QED
    BY <1>0, <2>1, <2>3 DEF NameInv, NamesSeen, Flushing, Quiet, BootSucceeds
<1>4. ASSUME NEW t \in Threads, NEW n \in Names, RegisterFind(t, n) PROVE NameInv'
  <2>1. /\ UNCHANGED <<users, created, boot>> /\ boot = "up" /\ Found(n) = {}
        /\ req' = [req EXCEPT ![t] = [pc |-> "create", name |-> n]] /\ req[t].pc = "idle"
        /\ raced' = IF Creating(n) = {} THEN raced ELSE raced \cup {n}
    BY <1>4 DEF RegisterFind, Taken
  <2>2. /\ \A k \in Names : Found(k)' = Found(k)
        /\ \A k \in Names \ {n} : Creating(k)' = Creating(k)
        /\ Creating(n)' = Creating(n) \cup {t}
    BY <1>0, <2>1 DEF Found, Creating
  <2>3. ASSUME NEW k \in Names \ raced' PROVE NamesFit(k)'
    <3>1. CASE k # n
      BY <2>1, <2>2, <2>3, <3>1, FewerFit DEF NameInv
    <3>2. CASE k = n
      <4>1. Creating(n) = {}
        BY <2>1, <2>3, <3>2
      <4>2. QED
        BY <2>1, <2>2, <3>2, <4>1 DEF NamesFit
    <3>3. QED
      BY <3>1, <3>2
  <2>4. NamesSeen'
    BY <1>0, <2>1 DEF NameInv, NamesSeen, Flushing
  <2>5. QED
    BY <1>0, <2>1, <2>3, <2>4 DEF NameInv, Quiet, BootSucceeds
<1>5. ASSUME NEW t \in Threads, NEW n, NEW op, NEW whom, Filter(t, n, op, whom) PROVE NameInv'
  <2>1. /\ UNCHANGED <<users, created, boot, raced>> /\ boot = "up"
        /\ req' = [req EXCEPT ![t] = [pc |-> "read", op |-> op, whom |-> whom]]
    BY <1>5 DEF Filter
  <2>2. req'[t].pc = "read" /\ \A s \in Threads \ {t} : req'[s] = req[s]
    BY <1>0, <2>1
  <2>3. QED
    BY <1>0, <2>1, <2>2, NamesStay
<1>6. ASSUME NEW t \in Threads, RegisterSave(t) PROVE NameInv'
  <2>0. PICK n \in Names : n = req[t].name
    BY <1>0, <1>6, RequestCases DEF RegisterSave
  <2>1. /\ req[t].pc = "create" /\ req[t].name = n /\ Insert(n, FALSE)
        /\ req' = [req EXCEPT ![t] = Idle] /\ UNCHANGED <<boot, raced>> /\ boot = "up"
    BY <1>0, <1>6, <2>0 DEF RegisterSave, NameInv, Quiet
  <2>2. /\ Found(n)' = Found(n) \cup {created + 1}
        /\ \A k \in Names \ {n} : Found(k)' = Found(k)
        /\ \A s \in Threads : Flushing(s) =>
              /\ req[s].id \in 1 .. created'
              /\ req[s].id \in DOMAIN users' => users'[req[s].id].name = req[s].seen.name
    BY <1>0, <2>1, NameInserted
  <2>3. req'[t].pc = "idle" /\ \A s \in Threads \ {t} : req'[s] = req[s]
    BY <1>0, <2>1 DEF Idle
  <2>4. NamesSeen'
    BY <2>2, <2>3 DEF NamesSeen, Flushing
  <2>5. /\ \A k \in Names : Creating(k)' \subseteq Creating(k) \ {t}
        /\ t \in Creating(n)
    BY <2>1, <2>3 DEF Creating
  <2>6. ASSUME NEW k \in Names \ raced PROVE NamesFit(k)'
    <3>0. NamesFit(k)
      BY DEF NameInv
    <3>1. CASE k # n
      BY <2>2, <2>5, <3>0, <3>1, FewerFit
    <3>2. CASE k = n
      <4>1. Found(n) = {} /\ \A s \in Creating(n) : s = t
        BY <2>5, <3>0, <3>2 DEF NamesFit
      <4>2. Found(n)' = {created + 1} /\ Creating(n)' = {}
        BY <2>1, <2>2, <2>5, <4>1
      <4>3. QED
        BY <3>2, <4>2 DEF NamesFit
    <3>3. QED
      BY <3>1, <3>2
  <2>7. QED
    BY <1>0, <2>1, <2>4, <2>6 DEF NameInv, Quiet, BootSucceeds
<1>7. ASSUME NEW t \in Threads, ReadNone(t) PROVE NameInv'
  <2>1. UNCHANGED <<users, created, boot, raced>> /\ req' = [req EXCEPT ![t] = Idle]
    BY <1>7 DEF ReadNone
  <2>2. req'[t].pc = "idle" /\ \A s \in Threads \ {t} : req'[s] = req[s]
    BY <1>0, <2>1 DEF Idle
  <2>3. QED
    BY <1>0, <2>1, <2>2, NamesStay
<1>8. ASSUME NEW t \in Threads, ReadOne(t) PROVE NameInv'
  <2>1. PICK i \in Row :
           /\ Target(req[t]) = {i}
           /\ req' = [req EXCEPT ![t] = [pc |-> "flush", op |-> req[t].op, id |-> i, seen |-> users[i]]]
    BY <1>8 DEF ReadOne
  <2>2. /\ i \in DOMAIN users /\ i \in 1 .. created
        /\ UNCHANGED <<users, created, boot, raced>> /\ boot = "up"
    BY <1>0, <1>8, <2>1 DEF ReadOne, Target, Found, AccountsTypeOK, NameInv, Quiet
  <2>3. /\ req'[t].pc = "flush" /\ req'[t].id = i /\ req'[t].seen = users[i]
        /\ \A s \in Threads \ {t} : req'[s] = req[s]
    BY <1>0, <2>1
  <2>4. \A n \in Names : Found(n)' = Found(n) /\ Creating(n)' \subseteq Creating(n)
    BY <2>2, <2>3 DEF Found, Creating
  <2>5. \A n \in Names \ raced' : NamesFit(n)'
    BY <2>2, <2>4, FewerFit DEF NameInv
  <2>6. NamesSeen'
    BY <2>2, <2>3 DEF NameInv, NamesSeen, Flushing
  <2>7. QED
    BY <1>0, <2>2, <2>5, <2>6 DEF NameInv, Quiet, BootSucceeds
<1>9. ASSUME NEW t \in Threads, Flush(t) PROVE NameInv'
  <2>1. /\ req' = [req EXCEPT ![t] = Idle] /\ UNCHANGED <<created, boot, raced>>
        /\ Flushing(t) /\ req[t].seen \in User /\ req[t].op \in Ops \ {"delete"}
    BY <1>0, <1>9, RequestCases DEF Flush, Flushing
  <2>2. req'[t].pc = "idle" /\ \A s \in Threads \ {t} : req'[s] = req[s]
    BY <1>0, <2>1 DEF Idle
  <2>3. Written(req[t]).name = req[t].seen.name
    BY <2>1, ChangedName DEF Written
  <2>4. req[t].id \in DOMAIN users => users[req[t].id].name = req[t].seen.name
    BY <2>1 DEF NameInv, NamesSeen
  <2>5. DOMAIN users' = DOMAIN users /\ \A i \in DOMAIN users' : users'[i].name = users[i].name
    BY <1>9, <2>3, <2>4 DEF Flush
  <2>6. QED
    BY <1>0, <2>1, <2>2, <2>5, NamesStay
<1>10. ASSUME NEW t \in Threads, DeleteById(t) PROVE NameInv'
  <2>1. /\ DOMAIN users' \subseteq DOMAIN users /\ \A i \in DOMAIN users' : users'[i] = users[i]
        /\ req' = [req EXCEPT ![t] = Idle] /\ UNCHANGED <<created, boot, raced>>
    BY <1>10 DEF DeleteById, Only
  <2>2. req'[t].pc = "idle" /\ \A s \in Threads \ {t} : req'[s] = req[s]
    BY <1>0, <2>1 DEF Idle
  <2>3. QED
    BY <1>0, <2>1, <2>2, NamesStay
<1>11. CASE UNCHANGED accountVars
  <2>1. \A n \in Names : Found(n)' = Found(n) /\ Creating(n)' = Creating(n)
    BY <1>11 DEF accountVars, Found, Creating
  <2>2. \A n \in Names \ raced' : NamesFit(n)'
    BY <1>11, <2>1, FewerFit DEF NameInv, accountVars
  <2>3. QED
    BY <1>0, <1>11, <2>1, <2>2 DEF accountVars, NameInv, NamesSeen, Flushing, Quiet, BootSucceeds
<1>12. QED
  BY <1>1, <1>2, <1>3, <1>4, <1>5, <1>6, <1>7, <1>8, <1>9, <1>10, <1>11 DEF AccountsNext, Handle

LEMMA NameInit == AccountsInit => NameInv
<1> SUFFICES ASSUME AccountsInit PROVE NameInv
  OBVIOUS
<1>1. \A n \in Names : Found(n) = {} /\ Creating(n) = {}
  BY DEF AccountsInit, Found, Creating, Idle
<1>2. QED
  BY <1>1, AccountsTypedInit
  DEF AccountsInit, NameInv, NamesFit, NamesSeen, Flushing, Quiet, BootSucceeds, Idle

\* A name belongs to one user, unless two creations of it overlapped (SingleAccount;
\* UserController 113-115).
THEOREM NamesAreSingle == AccountsSpec => []SingleAccount
<1>1. NameInv => SingleAccount
  BY OneRow DEF NameInv, NamesFit, SingleAccount
<1>2. QED
  BY <1>1, NameInit, NameStep, PTL DEF AccountsSpec

\* The application starts, unless creations of the administrator's name overlapped
\* (BootSucceeds; UserServiceImpl 49-62).
THEOREM ApplicationStarts == AccountsSpec => []BootSucceeds
<1>1. NameInv => BootSucceeds
  BY DEF NameInv
<1>2. QED
  BY <1>1, NameInit, NameStep, PTL DEF AccountsSpec
=============================================================================
