---------------------------- MODULE PostListing ----------------------------
(***************************************************************************)
(* The list of the posts of one type, page by page (getByType): each page  *)
(* is a query of its own, by offset, while other requests create, delete   *)
(* and retype posts.  A reader asks for page 1, 2, ... up to one that is   *)
(* not full.                                                               *)
(***************************************************************************)
EXTENDS Naturals, Sequences, FiniteSets, SequencesExt

CONSTANTS Ids,         \* ids of posts
          pageSize,    \* page_size of the reader's requests
          MaxTime,     \* bound on the clock of createdDate
          MaxChanges   \* bound on the posts that enter or leave the list in a walk

ASSUME ListingAssumption == /\ pageSize \in Nat \ {0} /\ MaxTime \in Nat \ {0}
                            /\ MaxChanges \in Nat

VARIABLES
    createdDate, \* id -> time of its creation, NotYet before
    listed,      \* ids of the rows of the type that is listed
    others,      \* ids of the rows of other types
    now,         \* the time
    pageIndex,   \* the page the reader asks for next, Resting outside a walk
    shown,       \* history: the posts on its pages so far, in their order
    stood,       \* history: the posts that were listed all along the walk
    entered,     \* history: how often a post entered the list in the walk
    left         \* history: how often a post left it

listingVars == <<createdDate, listed, others, now, pageIndex, shown, stood, entered, left>>
walkVars    == <<pageIndex, shown>>

NotYet  == 0
Resting == 0
Walking == pageIndex # Resting

ListingInit ==
    /\ createdDate = [i \in Ids |-> NotYet] /\ listed = {} /\ others = {} /\ now = 1
    /\ pageIndex = Resting /\ shown = <<>> /\ stood = {} /\ entered = 0 /\ left = 0

-----------------------------------------------------------------------------
\* The walk keeps count of what comes and goes.
Enters == /\ UNCHANGED <<stood, left>>
          /\ IF Walking THEN entered + left < MaxChanges /\ entered' = entered + 1
             ELSE UNCHANGED entered
Leaves(i) == /\ stood' = stood \ {i}
             /\ UNCHANGED entered
             /\ IF Walking THEN entered + left < MaxChanges /\ left' = left + 1
                ELSE UNCHANGED left
Stays == UNCHANGED <<stood, entered, left>>

Tick == /\ now < MaxTime
        /\ now' = now + 1
        /\ Stays /\ UNCHANGED <<createdDate, listed, others, walkVars>>

\* createPost, of the listed type or of another one.
CreatePost(i) ==
    /\ createdDate[i] = NotYet
    /\ createdDate' = [createdDate EXCEPT ![i] = now]
    /\ \/ listed' = listed \cup {i} /\ Enters /\ UNCHANGED others
       \/ others' = others \cup {i} /\ Stays /\ UNCHANGED listed
    /\ UNCHANGED <<now, walkVars>>

\* Mutant: the post keeps its old type besides the new one.
UpdateTypeAdded(i) == i \in others /\ listed' = listed \cup {i} /\ UNCHANGED others /\ Enters

\* update with another type: the creation date stays (AbstractEntity: not updatable).
UpdateType(i) ==
    \/ i \in others /\ listed' = listed \cup {i} /\ others' = others \ {i} /\ Enters
    \/ i \in listed /\ listed' = listed \ {i} /\ others' = others \cup {i} /\ Leaves(i)

UpdatePost(i) == UpdateType(i) /\ UNCHANGED <<createdDate, now, walkVars>>

DeletePost(i) ==
    /\ \/ i \in listed /\ listed' = listed \ {i} /\ Leaves(i) /\ UNCHANGED others
       \/ i \in others /\ others' = others \ {i} /\ Stays /\ UNCHANGED listed
    /\ UNCHANGED <<createdDate, now, walkVars>>

-----------------------------------------------------------------------------
\* Mutant: no Sort in the PageRequest.
AnyOrder == SetToSeqs(listed)

\* By createdDate, newest first; the database may put posts of one date in another
\* order at each query.
Orders == {s \in SetToSeqs(listed) :
              \A m, n \in DOMAIN s : m < n => createdDate[s[m]] >= createdDate[s[n]]}

\* Mutant: an offset of one row too few.
Overlapping(p) == (p - 1) * (pageSize - 1)

\* PageRequest.of(pageIndex - 1, pageSize): the rows before the page.
Offset(p) == (p - 1) * pageSize

StartWalk ==
    /\ ~Walking
    /\ pageIndex' = 1 /\ shown' = <<>>
    /\ stood' = listed /\ entered' = 0 /\ left' = 0
    /\ UNCHANGED <<createdDate, listed, others, now>>

\* getByType.
GetByType ==
    /\ Walking
    /\ \E rows \in Orders :
          LET last == Len(rows) < Offset(pageIndex) + pageSize
          IN  /\ shown' = shown \o SubSeq(rows, Offset(pageIndex) + 1,
                                          IF last THEN Len(rows) ELSE Offset(pageIndex) + pageSize)
              /\ pageIndex' = IF last THEN Resting ELSE pageIndex + 1
    /\ Stays /\ UNCHANGED <<createdDate, listed, others, now>>

ListingNext ==
    \/ Tick \/ StartWalk \/ GetByType
    \/ \E i \in Ids : CreatePost(i) \/ UpdatePost(i) \/ DeletePost(i)

ListingSpec == ListingInit /\ [][ListingNext]_listingVars

-----------------------------------------------------------------------------
\* Every variable keeps its type, and a post has one type.
ListingTypeOK ==
    /\ createdDate \in [Ids -> 0 .. MaxTime] /\ now \in 1 .. MaxTime
    /\ listed \cup others \subseteq {i \in Ids : createdDate[i] # NotYet}
    /\ listed \cap others = {}
    /\ pageIndex \in Nat /\ ToSet(shown) \subseteq Ids
    /\ Walking => stood \subseteq listed
    /\ entered + left <= MaxChanges

\* Posts of one date may change places between two pages; all others keep to theirs.
AloneInItsDate(i) == \A j \in Ids : createdDate[j] = createdDate[i] => j = i

\* A walk misses posts that were listed all along only because others left the list
\* in the meantime, at most one for each of them (PostServiceImpl 87-90: each page is
\* counted from the newest post of its own moment).
Missed == {i \in stood : AloneInItsDate(i) /\ i \notin ToSet(shown)}
MissesNoMore == ~Walking => Cardinality(Missed) <= left

\* A walk shows posts again only because others entered the list in the meantime, at
\* most one for each of them.
Again == {n \in DOMAIN shown : /\ AloneInItsDate(shown[n])
                               /\ \E m \in 1 .. n - 1 : shown[m] = shown[n]}
RepeatsNoMore == Cardinality(Again) <= entered
=============================================================================
