------------------------------ MODULE Accounts ------------------------------
(***************************************************************************)
(* The user table (UserServiceImpl, UserController, JwtRequestFilter): the *)
(* names are not unique to the database, a registration looks the name up  *)
(* in one transaction and inserts in another, and a request that changes a *)
(* user reads the row and writes all its columns when it commits.          *)
(*                                                                         *)
(* Rows are numbered in the order of their creation.  Passwords and tokens *)
(* are left out: whoever a row lets in may send requests.                  *)
(***************************************************************************)
EXTENDS Naturals, FiniteSets

CONSTANTS Names,      \* user names
          AdminName,  \* app.admin.username
          Threads,    \* threads that serve requests
          MaxRows     \* bound on the number of rows created

ASSUME NamesAssumption == AdminName \in Names /\ MaxRows \in Nat

AdminOps == {"ban", "unban", "setAdmin", "delete"}
Ops      == AdminOps \cup {"update"}

VARIABLES
    users,       \* id -> row, of the rows there are
    created,     \* number of rows created so far
    boot,        \* initAdmin: check, create, up, or failed
    req,         \* thread -> its request
    raced,       \* history: names two creations of which overlapped
    intended     \* history: id -> the row its changes give one after the other,
                 \* of the rows no two changes of which overlapped

accountVars == <<users, created, boot, req, raced, intended>>

User == [name : Names, active : BOOLEAN, admin : BOOLEAN, edited : BOOLEAN]
Row  == 1 .. MaxRows
Idle == [pc |-> "idle"]

AccountsInit ==
    /\ users = <<>> /\ intended = <<>> /\ created = 0
    /\ boot = "check" /\ req = [t \in Threads |-> Idle]
    /\ raced = {}

-----------------------------------------------------------------------------
Found(n) == {i \in DOMAIN users : users[i].name = n}

\* What a request does to a user it has read.
Changed(u, op) == CASE op = "ban"      -> [u EXCEPT !.active = FALSE]
                    [] op = "unban"    -> [u EXCEPT !.active = TRUE]
                    [] op = "setAdmin" -> [u EXCEPT !.admin = TRUE]
                    [] op = "update"   -> [u EXCEPT !.edited = TRUE]

NewUser(n, isAdmin) == [name |-> n, active |-> TRUE, admin |-> isAdmin, edited |-> FALSE]

Added(rows, i, u) == [j \in DOMAIN rows \cup {i} |-> IF j = i THEN u ELSE rows[j]]

\* Mutant: an id that is handed out again.
InsertAgain(n, isAdmin) ==
    /\ created < MaxRows
    /\ created' = created
    /\ users' = Added(users, created + 1, NewUser(n, isAdmin))
    /\ intended' = Added(intended, created + 1, NewUser(n, isAdmin))

Insert(n, isAdmin) ==
    /\ created < MaxRows
    /\ created' = created + 1
    /\ users' = Added(users, created + 1, NewUser(n, isAdmin))
    /\ intended' = Added(intended, created + 1, NewUser(n, isAdmin))

-----------------------------------------------------------------------------
(***************************************************************************)
(* initAdmin, before requests are served.  findByUsername throws when two  *)
(* rows have the name, and then the application does not start.            *)
(***************************************************************************)
InitAdminFind ==
    /\ boot = "check"
    /\ boot' = CASE Found(AdminName) = {} -> "create"
                 [] Cardinality(Found(AdminName)) = 1 -> "up"
                 [] OTHER -> "failed"
    /\ UNCHANGED <<users, created, req, raced, intended>>

InitAdminSave ==
    /\ boot = "create"
    /\ Insert(AdminName, TRUE)
    /\ boot' = "up"
    /\ UNCHANGED <<req, raced>>

-----------------------------------------------------------------------------
(***************************************************************************)
(* Registration, and the first login over OAuth: the name is looked up and *)
(* a user inserted when there is none.                                     *)
(***************************************************************************)
\* Mutant: no lookup of the name.
NeverTaken(n) == FALSE
Taken(n)      == Found(n) # {}

Creating(n) == {t \in Threads : req[t].pc = "create" /\ req[t].name = n}

RegisterFind(t, n) ==
    /\ boot = "up" /\ req[t].pc = "idle"
    /\ ~Taken(n)
    /\ req' = [req EXCEPT ![t] = [pc |-> "create", name |-> n]]
    /\ raced' = IF Creating(n) = {} THEN raced ELSE raced \cup {n}
    /\ UNCHANGED <<users, created, boot, intended>>

RegisterSave(t) ==
    /\ req[t].pc = "create"
    /\ Insert(req[t].name, FALSE)
    /\ req' = [req EXCEPT ![t] = Idle]
    /\ UNCHANGED <<boot, raced>>

-----------------------------------------------------------------------------
(***************************************************************************)
(* Requests of a user.  The filter loads the user by name and lets an      *)
(* active one pass with the authorities it has at that moment; the handler *)
(* runs later.                                                             *)
(***************************************************************************)
Authority(u, op) == op \in AdminOps => u.admin

\* whom is an id, or for an update the name of the caller.
Filter(t, n, op, whom) ==
    /\ boot = "up" /\ req[t].pc = "idle"
    /\ \E c \in DOMAIN users : /\ Found(n) = {c} /\ users[c].active
                               /\ Authority(users[c], op)
    /\ req' = [req EXCEPT ![t] = [pc |-> "read", op |-> op, whom |-> whom]]
    /\ UNCHANGED <<users, created, boot, raced, intended>>

\* The row the handler finds: of an id, or of the caller itself.
Target(r) == IF r.op = "update" THEN Found(r.whom) ELSE {r.whom} \cap DOMAIN users

\* USER_NOT_FOUND, or two rows of one name: the handler ends.
ReadNone(t) ==
    /\ req[t].pc = "read" /\ Cardinality(Target(req[t])) # 1
    /\ req' = [req EXCEPT ![t] = Idle]
    /\ UNCHANGED <<users, created, boot, raced, intended>>

Only(f, ids) == [i \in DOMAIN f \cap ids |-> f[i]]

Reading(i) == {t \in Threads : req[t].pc = "flush" /\ req[t].id = i}

ReadOne(t) ==
    /\ req[t].pc = "read" /\ req[t].op # "delete"
    /\ \E i \in Row :
          /\ Target(req[t]) = {i}
          /\ req' = [req EXCEPT ![t] = [pc |-> "flush", op |-> req[t].op, id |-> i, seen |-> users[i]]]
          /\ intended' = IF Reading(i) = {} THEN intended ELSE Only(intended, Row \ {i})
    /\ UNCHANGED <<users, created, boot, raced>>

\* Mutant: the saved entity is built anew and keeps only its name and its role.
WrittenAnew(r) == Changed(NewUser(r.seen.name, r.seen.admin), r.op)

\* What the flush of a changed entity writes: every column, from what was read.
Written(r) == Changed(r.seen, r.op)

\* An entity that is not changed is not written; an UPDATE that meets no row is an
\* exception.
Flush(t) ==
    /\ req[t].pc = "flush"
    /\ LET i == req[t].id
       IN  IF i \in DOMAIN users
           THEN /\ users' = IF Written(req[t]) = req[t].seen THEN users
                            ELSE [users EXCEPT ![i] = Written(req[t])]
                /\ intended' = [j \in DOMAIN intended |->
                     IF j = i THEN Changed(intended[i], req[t].op) ELSE intended[j]]
           ELSE UNCHANGED <<users, intended>>
    /\ req' = [req EXCEPT ![t] = Idle]
    /\ UNCHANGED <<created, boot, raced>>

DeleteById(t) ==
    /\ req[t].pc = "read" /\ req[t].op = "delete" /\ req[t].whom \in DOMAIN users
    /\ users' = Only(users, Row \ {req[t].whom})
    /\ intended' = Only(intended, Row \ {req[t].whom})
    /\ req' = [req EXCEPT ![t] = Idle]
    /\ UNCHANGED <<created, boot, raced>>

\* The process ends, transactions that have not committed are undone, and it
\* starts again.
Restart ==
    /\ boot \in {"up", "create"}
    /\ boot' = "check"
    /\ req' = [t \in Threads |-> Idle]
    /\ UNCHANGED <<users, created, raced, intended>>

Handle(t) == \/ \E n \in Names : RegisterFind(t, n)
             \/ \E n \in Names : \/ Filter(t, n, "update", n)
                                \/ \E op \in AdminOps, i \in 1 .. created : Filter(t, n, op, i)
             \/ RegisterSave(t) \/ ReadNone(t) \/ ReadOne(t) \/ Flush(t) \/ DeleteById(t)

AccountsNext == InitAdminFind \/ InitAdminSave \/ Restart \/ \E t \in Threads : Handle(t)

AccountsSpec == AccountsInit /\ [][AccountsNext]_accountVars

-----------------------------------------------------------------------------
Request == {Idle} \cup [pc : {"create"}, name : Names]
           \cup [pc : {"read"}, op : AdminOps, whom : Row]
           \cup [pc : {"read"}, op : {"update"}, whom : Names]
           \cup [pc : {"flush"}, op : Ops \ {"delete"}, id : Row, seen : User]

\* Every variable keeps its type.
AccountsTypeOK ==
    /\ created \in 0 .. MaxRows
    /\ DOMAIN users \subseteq 1 .. created /\ DOMAIN intended \subseteq DOMAIN users
    /\ \A i \in DOMAIN users : users[i] \in User
    /\ \A i \in DOMAIN intended : intended[i] \in User
    /\ boot \in {"check", "create", "up", "failed"}
    /\ req \in [Threads -> Request]
    /\ raced \subseteq Names

\* A name belongs to one user, unless two creations of it overlapped, although no
\* constraint of the database says so (UserController 113-115).
SingleAccount == \A n \in Names \ raced : Cardinality(Found(n)) <= 1

\* Bans, roles and profiles are what the requests, taken one after the other, make of
\* them, unless two requests for one row overlapped: no other order of reads, commits,
\* deletions and restarts loses a change (UserServiceImpl 154-193).
NoLostChange == \A i \in DOMAIN intended : users[i] = intended[i]

\* The application starts, unless creations of the name of the administrator
\* overlapped (UserServiceImpl 49-62).
BootSucceeds == boot = "failed" => AdminName \in raced
=============================================================================
