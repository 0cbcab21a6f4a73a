------------------------ MODULE PostListing_proofs ------------------------
(***************************************************************************)
(* Theorems about the pages of a list, for any posts, any page size and    *)
(* any number of changes while the reader turns the pages.                 *)
(***************************************************************************)
EXTENDS PostListing, FiniteSetTheorems, SequenceTheorems, TLAPS

USE ListingAssumption DEF ListingAssumption, NotYet, Resting

-----------------------------------------------------------------------------
(***************************************************************************)
(* The place of a post.  In every order a query may answer with, a post    *)
(* alone in its date stands behind the newer ones and nothing else.        *)
(***************************************************************************)
NewerIn(S, date, i) == {j \in S : date[j] > date[i]}
RankIn(S, date, i)  == Cardinality(NewerIn(S, date, i))

\* A rank is a number.
LEMMA RankType ==
    ASSUME NEW S, IsFiniteSet(S), NEW date, NEW i
    PROVE  IsFiniteSet(NewerIn(S, date, i)) /\ RankIn(S, date, i) \in Nat
<1>1. NewerIn(S, date, i) \subseteq S
  BY DEF NewerIn
<1>2. QED
  BY <1>1, FS_Subset, FS_CardinalityType DEF RankIn

\* The older of two posts has the higher rank.
LEMMA OlderRanksHigher ==
    ASSUME NEW S \in SUBSET Ids, IsFiniteSet(S), NEW date \in [Ids -> Nat],
           NEW i \in S, NEW j \in Ids, date[i] > date[j]
    PROVE  RankIn(S, date, i) + 1 <= RankIn(S, date, j)
<1>1. i \notin NewerIn(S, date, i)
  BY DEF NewerIn
<1>2. NewerIn(S, date, i) \cup {i} \subseteq NewerIn(S, date, j)
  BY DEF NewerIn
<1>3. Cardinality(NewerIn(S, date, i) \cup {i}) = RankIn(S, date, i) + 1
  BY <1>1, RankType, FS_AddElement DEF RankIn
<1>4. QED
  BY <1>2, <1>3, RankType, FS_Subset DEF RankIn

\* A set with more in it ranks a post no lower, and one post counts for one.
LEMMA RankGrows ==
    ASSUME NEW S \in SUBSET Ids, IsFiniteSet(S), NEW date, NEW newDate, NEW i \in Ids, NEW j,
           newDate[i] = date[i], \A k \in S : newDate[k] = date[k]
    PROVE  /\ RankIn(S, date, i) <= RankIn(S \cup {j}, newDate, i)
           /\ RankIn(S \cup {j}, newDate, i) <= RankIn(S, date, i) + 1
           /\ ~(newDate[j] > newDate[i]) =>
                  RankIn(S \cup {j}, newDate, i) = RankIn(S, date, i)
<1>1. IsFiniteSet(S \cup {j})
  BY FS_AddElement
<1>2. /\ NewerIn(S, date, i) \subseteq NewerIn(S \cup {j}, newDate, i)
      /\ NewerIn(S \cup {j}, newDate, i) \subseteq NewerIn(S, date, i) \cup {j}
      /\ ~(newDate[j] > newDate[i]) => NewerIn(S \cup {j}, newDate, i) = NewerIn(S, date, i)
  BY DEF NewerIn
<1>3. /\ IsFiniteSet(NewerIn(S, date, i)) /\ IsFiniteSet(NewerIn(S \cup {j}, newDate, i))
      /\ RankIn(S, date, i) \in Nat /\ RankIn(S \cup {j}, newDate, i) \in Nat
  BY <1>1, RankType
<1>4. /\ IsFiniteSet(NewerIn(S, date, i) \cup {j})
      /\ Cardinality(NewerIn(S, date, i) \cup {j}) <= RankIn(S, date, i) + 1
      /\ Cardinality(NewerIn(S, date, i) \cup {j}) \in Nat
  <2> DEFINE N == NewerIn(S, date, i)
  <2>1. IsFiniteSet(N \cup {j}) /\ (Cardinality(N \cup {j}) = IF j \in N THEN Cardinality(N) ELSE Cardinality(N) + 1)
    BY <1>3, FS_AddElement
  <2>2. Cardinality(N) \in Nat /\ Cardinality(N \cup {j}) \in Nat
    BY <1>3, <2>1, FS_CardinalityType
  <2>3. QED
    BY <2>1, <2>2 DEF RankIn
<1>5. RankIn(S, date, i) <= RankIn(S \cup {j}, newDate, i)
  BY <1>2, <1>3, FS_Subset DEF RankIn
<1>6. RankIn(S \cup {j}, newDate, i) <= Cardinality(NewerIn(S, date, i) \cup {j})
  BY <1>2, <1>4, FS_Subset DEF RankIn
<1>7. QED
  BY <1>2, <1>3, <1>4, <1>5, <1>6 DEF RankIn

\* The rows of a query: each post of the list once, one that is alone in its date at
\* the place its rank says.
LEMMA RowsByRank ==
    ASSUME IsFiniteSet(listed), listed \subseteq Ids, createdDate \in [Ids -> Nat],
           NEW rows \in Orders
    PROVE  /\ rows \in Seq(listed) /\ DOMAIN rows = 1 .. Len(rows) /\ Len(rows) \in Nat
           /\ \A m, n \in 1 .. Len(rows) : rows[m] = rows[n] => m = n
           /\ \A n \in 1 .. Len(rows) : AloneInItsDate(rows[n]) =>
                                            RankIn(listed, createdDate, rows[n]) = n - 1
           /\ \A i \in listed : AloneInItsDate(i) =>
                 /\ RankIn(listed, createdDate, i) + 1 \in 1 .. Len(rows)
                 /\ rows[RankIn(listed, createdDate, i) + 1] = i
<1>1. PICK c \in Nat : c = Cardinality(listed)
  BY FS_CardinalityType
<1>2. /\ rows \in [1 .. c -> listed]
      /\ \A m, n \in 1 .. c : m # n => rows[m] # rows[n]
      /\ \A m, n \in 1 .. c : m < n => createdDate[rows[m]] >= createdDate[rows[n]]
  BY <1>1 DEF Orders, SetToSeqs
<1>3. rows \in Seq(listed) /\ Len(rows) = c /\ DOMAIN rows = 1 .. c
  BY <1>2
<1>4. \A i \in listed : \E n \in 1 .. c : rows[n] = i
  <2>1. IsFiniteSet(1 .. c) /\ Cardinality(1 .. c) = c
    BY FS_Interval
  <2>2. rows \in Injection(1 .. c, listed)
    BY <1>2 DEF Injection, IsInjective
  <2>3. rows \in Surjection(1 .. c, listed)
    BY <1>1, <2>1, <2>2, FS_Injection
  <2>4. QED
    BY <2>3 DEF Surjection
<1>5. ASSUME NEW n \in 1 .. c, AloneInItsDate(rows[n])
      PROVE  RankIn(listed, createdDate, rows[n]) = n - 1
  <2>1. rows[n] \in Ids
    BY <1>2
  <2>2. ASSUME NEW m \in 1 .. c PROVE m < n <=> createdDate[rows[m]] > createdDate[rows[n]]
    <3>1. rows[m] \in Ids /\ createdDate[rows[m]] \in Nat /\ createdDate[rows[n]] \in Nat
      BY <1>2, <2>1
    <3>2. m # n => createdDate[rows[m]] # createdDate[rows[n]]
      BY <1>2, <1>5, <3>1 DEF AloneInItsDate
    <3>3. QED
      BY <1>2, <3>1, <3>2
  <2> DEFINE g == [m \in 1 .. n - 1 |-> rows[m]]
             N == NewerIn(listed, createdDate, rows[n])
  <2>3. \A m \in 1 .. n - 1 : rows[m] \in N
    BY <1>2, <2>2 DEF NewerIn
  <2>4. \A i \in N : \E m \in 1 .. n - 1 : rows[m] = i
    BY <1>4, <2>2 DEF NewerIn
  <2>5. g \in Bijection(1 .. n - 1, N)
    <3>1. g \in [1 .. n - 1 -> N]
      BY <2>3
    <3>2. \A a, b \in 1 .. n - 1 : g[a] = g[b] => a = b
      BY <1>2
    <3>3. \A i \in N : \E m \in 1 .. n - 1 : g[m] = i
      BY <2>4
    <3>4. QED
      BY <3>1, <3>2, <3>3 DEF Bijection, Injection, Surjection, IsInjective
  <2>6. n - 1 \in Nat
    OBVIOUS
  <2>7. QED
    BY <2>5, <2>6, FS_CountingElements DEF ExistsBijection, RankIn
<1>6. ASSUME NEW i \in listed, AloneInItsDate(i)
      PROVE  /\ RankIn(listed, createdDate, i) + 1 \in 1 .. c
             /\ rows[RankIn(listed, createdDate, i) + 1] = i
  BY <1>4, <1>5, <1>6
<1>7. QED
  BY <1>2, <1>3, <1>5, <1>6

-----------------------------------------------------------------------------
(***************************************************************************)
(* Type correctness, with what the counts need: the list is finite, and    *)
(* what was shown or stood in the list has a date.                         *)
(***************************************************************************)
Created == {i \in Ids : createdDate[i] # NotYet}

ListingTyped ==
    /\ ListingTypeOK
    /\ IsFiniteSet(listed) /\ IsFiniteSet(stood)
    /\ shown \in Seq(Created) /\ stood \subseteq Created
    /\ entered \in Nat /\ left \in Nat

\* What the types say, put in one place.
LEMMA ListingTypes ==
    ASSUME ListingTyped
    PROVE  /\ createdDate \in [Ids -> Nat] /\ createdDate \in [Ids -> 0 .. MaxTime]
           /\ now \in 1 .. MaxTime /\ now # NotYet
           /\ listed \subseteq Created /\ others \subseteq Created /\ Created \subseteq Ids
           /\ listed \cap others = {} /\ pageIndex \in Nat
           /\ Walking => stood \subseteq listed
           /\ Len(shown) \in Nat /\ DOMAIN shown = 1 .. Len(shown)
           /\ \A n \in 1 .. Len(shown) : shown[n] \in Created
  BY DEF ListingTyped, ListingTypeOK, Created

\* The initial state is typed.
LEMMA ListingTypedInit == ListingInit => ListingTyped
  BY FS_EmptySet DEF ListingInit, ListingTyped, ListingTypeOK, Created, Walking, ToSet

\* What each request does to the list: one post enters it, or leaves it, or none; and
\* no date is ever changed.
DatesKept == \A i \in Created : createdDate'[i] = createdDate[i]

EntersList(j) ==
    /\ j \in Ids \ listed /\ listed' = listed \cup {j} /\ Enters /\ UNCHANGED walkVars
LeavesList(j) ==
    /\ j \in listed /\ listed' = listed \ {j} /\ Leaves(j)
    /\ UNCHANGED <<createdDate, walkVars>>
StaysListed == UNCHANGED <<listed, walkVars, stood, entered, left>>

\* A step is one of a reader or changes the list in one of these ways.
LEMMA ListSteps ==
    ASSUME ListingTyped, [ListingNext]_listingVars
    PROVE  /\ DatesKept
           /\ createdDate' \in [Ids -> 0 .. MaxTime] /\ now' \in 1 .. MaxTime
           /\ listed' \cup others' \subseteq {i \in Ids : createdDate'[i] # NotYet}
           /\ listed' \cap others' = {}
           /\ \/ \E j \in Ids : EntersList(j) \/ LeavesList(j)
              \/ StaysListed
              \/ (StartWalk \/ GetByType) /\ UNCHANGED <<createdDate, listed>>
<1>0. /\ createdDate \in [Ids -> 0 .. MaxTime] /\ now \in 1 .. MaxTime /\ now # NotYet
      /\ listed \subseteq Created /\ others \subseteq Created /\ listed \cap others = {}
  BY ListingTypes
<1>1. CASE UNCHANGED listingVars
  BY <1>0, <1>1 DEF listingVars, walkVars, DatesKept, Created, StaysListed
<1>2. CASE Tick
  BY <1>0, <1>2 DEF Tick, Stays, walkVars, DatesKept, Created, StaysListed
<1>3. CASE StartWalk \/ GetByType
  BY <1>0, <1>3 DEF StartWalk, GetByType, Stays, DatesKept, Created
<1>4. ASSUME NEW j \in Ids, CreatePost(j)
      PROVE  /\ DatesKept
             /\ createdDate' \in [Ids -> 0 .. MaxTime] /\ now' \in 1 .. MaxTime
             /\ listed' \cup others' \subseteq {i \in Ids : createdDate'[i] # NotYet}
             /\ listed' \cap others' = {}
             /\ EntersList(j) \/ StaysListed
  <2>1. j \notin Created /\ createdDate' = [createdDate EXCEPT ![j] = now] /\ now' = now
    BY <1>4 DEF CreatePost, Created
  <2>2. createdDate' \in [Ids -> 0 .. MaxTime] /\ createdDate'[j] # NotYet /\ DatesKept
    BY <1>0, <2>1 DEF DatesKept, Created
  <2>3. Created \cup {j} \subseteq {i \in Ids : createdDate'[i] # NotYet}
    BY <2>2 DEF DatesKept, Created
  <2>4. CASE listed' = listed \cup {j} /\ Enters /\ UNCHANGED others
    <3>1. UNCHANGED walkVars
      BY <1>4 DEF CreatePost
    <3>2. EntersList(j)
      BY <1>0, <2>1, <2>4, <3>1 DEF EntersList
    <3>3. QED
      BY <1>0, <2>1, <2>2, <2>3, <2>4, <3>2
  <2>5. CASE others' = others \cup {j} /\ Stays /\ UNCHANGED listed
    <3>1. UNCHANGED walkVars
      BY <1>4 DEF CreatePost
    <3>2. StaysListed
      BY <2>5, <3>1 DEF StaysListed, Stays
    <3>3. QED
      BY <1>0, <2>1, <2>2, <2>3, <2>5, <3>2
  <2>6. QED
    BY <1>4, <2>4, <2>5 DEF CreatePost
<1>5. ASSUME NEW j \in Ids, UpdatePost(j) \/ DeletePost(j)
      PROVE  /\ UNCHANGED <<createdDate, now>>
             /\ listed' \cup others' \subseteq listed \cup others
             /\ listed' \cap others' = {}
             /\ EntersList(j) \/ LeavesList(j) \/ StaysListed
  BY <1>0, <1>5 DEF UpdatePost, UpdateType, DeletePost, Stays, EntersList, LeavesList, StaysListed
<1>6. ASSUME UNCHANGED createdDate PROVE DatesKept
  BY <1>6 DEF DatesKept
<1>7. ASSUME NEW j \in Ids, UpdatePost(j) \/ DeletePost(j)
      PROVE  /\ DatesKept
             /\ createdDate' \in [Ids -> 0 .. MaxTime] /\ now' \in 1 .. MaxTime
             /\ listed' \cup others' \subseteq {i \in Ids : createdDate'[i] # NotYet}
             /\ listed' \cap others' = {}
             /\ EntersList(j) \/ LeavesList(j) \/ StaysListed
  BY <1>0, <1>5, <1>6, <1>7 DEF Created
<1>8. QED
  BY <1>1, <1>2, <1>3, <1>4, <1>7 DEF ListingNext

\* The rows a page takes out of those of the query.
PageRows(rows) ==
    SubSeq(rows, Offset(pageIndex) + 1,
           IF Len(rows) < Offset(pageIndex) + pageSize THEN Len(rows)
           ELSE Offset(pageIndex) + pageSize)

\* An offset is a number, and pages follow one another.
LEMMA OffsetType ==
    ASSUME NEW p \in Nat \ {0}
    PROVE  Offset(p) \in Nat /\ Offset(p + 1) = Offset(p) + pageSize
<1>1. PICK q \in Nat : p = q + 1
  OBVIOUS
<1>2. q * pageSize \in Nat /\ (q + 1) * pageSize = q * pageSize + pageSize
  OBVIOUS
<1>3. Offset(p) = q * pageSize /\ Offset(p + 1) = (q + 1) * pageSize
  BY <1>1 DEF Offset
<1>4. QED
  BY <1>2, <1>3

\* The n-th post of a page is the row n behind the offset.
LEMMA PageOfRows ==
    ASSUME ListingTyped, Walking, NEW rows \in Orders
    PROVE  LET page == PageRows(rows) IN
           /\ page \in Seq(listed) /\ Len(page) \in Nat /\ DOMAIN page = 1 .. Len(page)
           /\ \A k \in 1 .. Len(page) : /\ Offset(pageIndex) + k \in 1 .. Len(rows)
                                        /\ k <= pageSize
                                        /\ page[k] = rows[Offset(pageIndex) + k]
           /\ \A n \in 1 .. Len(rows) :
                 Offset(pageIndex) < n /\ n <= Offset(pageIndex) + pageSize =>
                     /\ n - Offset(pageIndex) \in 1 .. Len(page)
                     /\ page[n - Offset(pageIndex)] = rows[n]
<1>1. /\ rows \in Seq(listed) /\ DOMAIN rows = 1 .. Len(rows) /\ Len(rows) \in Nat
  BY ListingTypes, RowsByRank DEF ListingTyped
<1>2. PICK f \in Nat : f = Offset(pageIndex)
  BY OffsetType, ListingTypes DEF Walking
<1>3. PICK c \in Nat : c = Len(rows)
  BY <1>1
<1>4. pageSize \in Nat
  OBVIOUS
<1>5. PICK l \in Nat : /\ l = (IF c < f + pageSize THEN c ELSE f + pageSize)
                       /\ \A n \in Nat : n <= l <=> n <= c /\ n <= f + pageSize
  <2>1. CASE c < f + pageSize
    <3>1. \A n \in Nat : n <= c => n <= f + pageSize
      BY <1>2, <1>3, <1>4, <2>1
    <3>2. QED
      BY <1>3, <2>1, <3>1
  <2>2. CASE ~(c < f + pageSize)
    <3>1. f + pageSize \in Nat /\ f + pageSize <= c
      BY <1>2, <1>3, <1>4, <2>2
    <3>2. QED
      BY <2>2, <3>1
  <2>3. QED
    BY <2>1, <2>2
<1> DEFINE page == SubSeq(rows, f + 1, l)
<1>6. \A n \in f + 1 .. l : rows[n] \in listed
  <2>1. l <= c
    BY <1>5
  <2>2. f + 1 .. l \subseteq 1 .. c
    BY <1>2, <1>3, <2>1
  <2>3. QED
    BY <1>1, <1>3, <2>2
<1>7. /\ page \in Seq(listed) /\ Len(page) = (IF f + 1 <= l THEN l - f ELSE 0)
      /\ \A k \in 1 .. Len(page) : page[k] = rows[f + k]
  <2>1. f + 1 \in Int /\ l \in Int
    BY <1>2, <1>5
  <2>2. /\ page \in Seq(listed) /\ Len(page) = (IF f + 1 <= l THEN l - (f + 1) + 1 ELSE 0)
        /\ \A k \in 1 .. l - (f + 1) + 1 : page[k] = rows[(f + 1) + k - 1]
    BY <1>6, <2>1, SubSeqProperties
  <2> HIDE DEF page
  <2>3. /\ l - (f + 1) + 1 = l - f /\ l - f \in Int
        /\ \A k \in Int : (f + 1) + k - 1 = f + k
    BY <1>2, <1>5
  <2>4. Len(page) = (IF f + 1 <= l THEN l - f ELSE 0)
    BY <2>2, <2>3, Zenon
  <2>5. Len(page) \in Int /\ \A k \in 1 .. Len(page) : k \in 1 .. l - f
    BY <2>3, <2>4
  <2>6. \A k \in 1 .. Len(page) : page[k] = rows[f + k]
    <3>1. \A k \in 1 .. l - f : page[k] = rows[(f + 1) + k - 1]
      BY <2>2, <2>3, Zenon
    <3>2. ASSUME NEW k \in 1 .. Len(page) PROVE page[k] = rows[f + k]
      <4>1. k \in Int /\ k \in 1 .. l - f
        BY <2>5
      <4>2. QED
        BY <2>3, <3>1, <4>1, Zenon
    <3>3. QED
      BY <3>2
  <2>7. QED
    BY <2>2, <2>4, <2>6
<1>8. PageRows(rows) = page
  BY <1>2, <1>3, <1>5 DEF PageRows
<1>9. Len(page) \in Nat /\ DOMAIN page = 1 .. Len(page)
  BY <1>7
<1> HIDE DEF page
<1>10. ASSUME NEW k \in 1 .. Len(page) PROVE f + k \in 1 .. c /\ k <= pageSize
  <2>1. k \in Nat /\ 1 <= k /\ f + k \in Nat /\ f + k <= l
    <3>1. f \in Nat /\ l \in Nat /\ k \in 1 .. Len(page)
          /\ Len(page) = (IF f + 1 <= l THEN l - f ELSE 0)
      BY <1>2, <1>5, <1>7
    <3>2. QED
      BY ONLY <3>1
  <2>2. f + k <= c /\ f + k <= f + pageSize
    BY <1>5, <2>1
  <2>3. QED
    BY ONLY <1>2, <1>3, <1>4, <2>1, <2>2
<1>11. ASSUME NEW n \in 1 .. c, f < n, n <= f + pageSize PROVE n - f \in 1 .. Len(page)
  <2>1. n \in Nat /\ n <= c
    BY <1>3
  <2>2. n <= l
    BY <1>5, <1>11, <2>1
  <2>3. f \in Nat /\ l \in Nat
    BY <1>2, <1>5
  <2>4. Len(page) = l - f
    BY <1>7, <1>11, <2>1, <2>2, <2>3
  <2>5. QED
    BY <1>11, <2>1, <2>2, <2>3, <2>4
<1>12. ASSUME NEW n \in 1 .. c, n - f \in 1 .. Len(page) PROVE page[n - f] = rows[n]
  <2>1. page[n - f] = rows[f + (n - f)]
    BY <1>7, <1>12
  <2>2. f + (n - f) = n
    BY <1>2, <1>3
  <2>3. QED
    BY <2>1, <2>2
<1>13. QED
  BY <1>2, <1>3, <1>7, <1>8, <1>9, <1>10, <1>11, <1>12

\* Every step keeps the types.
LEMMA ListingTypedNext == ListingTyped /\ [ListingNext]_listingVars => ListingTyped'
<1> SUFFICES ASSUME ListingTyped, [ListingNext]_listingVars PROVE ListingTyped'
  OBVIOUS
<1>0. ListingTypeOK /\ IsFiniteSet(listed) /\ IsFiniteSet(stood) /\ entered \in Nat /\ left \in Nat
      /\ shown \in Seq(Created) /\ stood \subseteq Created /\ entered + left <= MaxChanges
  BY DEF ListingTyped, ListingTypeOK
<1>1. /\ DatesKept
      /\ createdDate' \in [Ids -> 0 .. MaxTime] /\ now' \in 1 .. MaxTime
      /\ listed' \cup others' \subseteq {i \in Ids : createdDate'[i] # NotYet}
      /\ listed' \cap others' = {}
  BY ListSteps
<1>2. Created \subseteq Created'
  BY <1>1 DEF DatesKept, Created
<1> DEFINE
  WalkOK == /\ pageIndex' \in Nat /\ shown' \in Seq(Created) /\ stood' \subseteq Created
            /\ (pageIndex' # 0 => stood' \subseteq listed') /\ IsFiniteSet(stood')
  CountOK == entered' \in Nat /\ left' \in Nat /\ entered' + left' <= MaxChanges
<1>3. ASSUME IsFiniteSet(listed'), WalkOK, CountOK PROVE ListingTyped'
  <2>1. shown' \in Seq(Created') /\ stood' \subseteq Created'
    BY <1>2, <1>3
  <2>2. ToSet(shown') \subseteq Ids
    BY <1>3 DEF ToSet, Created
  <2>3. ListingTypeOK'
    BY <1>1, <1>3, <2>2 DEF ListingTypeOK, Walking
  <2>4. QED
    BY <1>3, <2>1, <2>3 DEF ListingTyped
<1>4. ASSUME NEW j \in Ids, EntersList(j) PROVE ListingTyped'
  <2>1. IsFiniteSet(listed')
    BY <1>0, <1>4, FS_AddElement DEF EntersList
  <2>2. WalkOK /\ CountOK
    BY <1>0, <1>4 DEF EntersList, Enters, walkVars, ListingTypeOK, Walking
  <2>3. QED
    BY <1>3, <2>1, <2>2
<1>5. ASSUME NEW j \in Ids, LeavesList(j) PROVE ListingTyped'
  <2>1. IsFiniteSet(listed')
    BY <1>0, <1>5, FS_RemoveElement DEF LeavesList
  <2>2. stood' = stood \ {j}
    BY <1>5 DEF LeavesList, Leaves
  <2>3. IsFiniteSet(stood')
    BY <1>0, <2>2, FS_RemoveElement
  <2>4. WalkOK
    BY <1>0, <1>5, <2>2, <2>3 DEF LeavesList, walkVars, ListingTypeOK, Walking
  <2>5. CountOK
    BY <1>0, <1>5 DEF LeavesList, Leaves
  <2>6. QED
    BY <1>3, <2>1, <2>4, <2>5
<1>6. CASE StaysListed
  BY <1>0, <1>3, <1>6 DEF StaysListed, walkVars, ListingTypeOK, Walking
<1>7. CASE StartWalk
  <2>1. WalkOK /\ CountOK
    BY <1>0, <1>7, ListingTypes DEF StartWalk
  <2>2. QED
    BY <1>0, <1>3, <1>7, <2>1 DEF StartWalk
<1>8. CASE GetByType
  <2>1. PICK rows \in Orders : shown' = shown \o PageRows(rows)
    BY <1>8 DEF GetByType, PageRows
  <2>2. PageRows(rows) \in Seq(Created)
    <3>1. PageRows(rows) \in Seq(listed)
      BY <1>8, PageOfRows DEF GetByType
    <3>2. QED
      BY <3>1, ListingTypes
  <2>3. shown' \in Seq(Created)
    BY <1>0, <2>1, <2>2
  <2>4. WalkOK /\ CountOK
    BY <1>0, <1>8, <2>3 DEF GetByType, Stays, ListingTypeOK, Walking
  <2>5. QED
    BY <1>0, <1>3, <1>8, <2>4 DEF GetByType
<1>9. QED
  BY <1>4, <1>5, <1>6, <1>7, <1>8, ListSteps

\* Every variable keeps its type, and a post has one type at a time.
THEOREM ListingTypeCorrect == ListingSpec => []ListingTypeOK
<1>1. ListingTyped => ListingTypeOK
  BY DEF ListingTyped
<1>2. QED
  BY <1>1, ListingTypedInit, ListingTypedNext, PTL DEF ListingSpec

-----------------------------------------------------------------------------
(***************************************************************************)
(* The counts.  In a walk, a post is missed for good once its rank is below *)
(* the offset of the next page, and may be shown again while its rank is   *)
(* not: who leaves the list draws one post over that edge, who enters      *)
(* pushes one back, and a page takes out what lies on it.                  *)
(***************************************************************************)
Rank(i) == RankIn(listed, createdDate, i)

PassedBy  == {i \in Missed : Rank(i) < Offset(pageIndex)}
SeenAhead == {i \in listed : /\ AloneInItsDate(i) /\ i \in ToSet(shown)
                             /\ Rank(i) >= Offset(pageIndex)}

WalkInv ==
    /\ IF Walking THEN Cardinality(PassedBy) <= left ELSE Cardinality(Missed) <= left
    /\ IF Walking THEN Cardinality(Again) + Cardinality(SeenAhead) <= entered
                  ELSE Cardinality(Again) <= entered

\* All sets that are counted are finite.
LEMMA CountsFinite ==
    ASSUME ListingTyped
    PROVE  /\ IsFiniteSet(Again) /\ Cardinality(Again) \in Nat
           /\ IsFiniteSet(SeenAhead) /\ Cardinality(SeenAhead) \in Nat
           /\ IsFiniteSet(Missed) /\ Cardinality(Missed) \in Nat
           /\ IsFiniteSet(PassedBy) /\ Cardinality(PassedBy) \in Nat
<1>1. IsFiniteSet(listed) /\ DOMAIN shown = 1 .. Len(shown) /\ Len(shown) \in Nat
  BY ListingTypes DEF ListingTyped
<1>2. IsFiniteSet(1 .. Len(shown))
  BY <1>1, FS_Interval
<1>3. Again \subseteq 1 .. Len(shown) /\ SeenAhead \subseteq listed
  BY <1>1 DEF Again, SeenAhead
<1>4. IsFiniteSet(stood) /\ Missed \subseteq stood /\ PassedBy \subseteq stood
  BY DEF ListingTyped, Missed, PassedBy
<1>5. QED
  BY <1>1, <1>2, <1>3, <1>4, FS_Subset, FS_CardinalityType

\* What has a date keeps it, so that a post alone in its date was so before.
LEMMA AloneBefore ==
    ASSUME ListingTyped, DatesKept, createdDate' \in [Ids -> 0 .. MaxTime], NEW i \in Created,
           AloneInItsDate(i)'
    PROVE  AloneInItsDate(i)
  BY ListingTypes DEF DatesKept, AloneInItsDate, Created

\* A set within a set of at most n elements has at most n.
LEMMA CountWithin ==
    ASSUME NEW S, IsFiniteSet(S), NEW T \in SUBSET S, NEW n \in Nat, Cardinality(S) <= n
    PROVE  Cardinality(T) <= n
  BY FS_Subset, FS_CardinalityType

\* Without two different elements beyond S, a set has one more than S at most.
LEMMA CountOneMore ==
    ASSUME NEW S, IsFiniteSet(S), NEW T, \A a, b \in T \ S : a = b
    PROVE  Cardinality(T) <= Cardinality(S) + 1
<1>1. CASE T \subseteq S
  BY <1>1, FS_Subset, FS_CardinalityType
<1>2. CASE ~(T \subseteq S)
  <2>1. PICK a : a \in T \ S
    BY <1>2
  <2>2. T \subseteq S \cup {a}
    BY <2>1
  <2>3. IsFiniteSet(S \cup {a}) /\ Cardinality(S \cup {a}) = Cardinality(S) + 1
    BY <2>1, FS_AddElement
  <2>4. QED
    BY <2>2, <2>3, FS_Subset
<1>3. QED
  BY <1>1, <1>2

\* Outside a walk nothing is added to what was missed or shown again.
LEMMA RestKeeps ==
    ASSUME ListingTyped, WalkInv, ~Walking, DatesKept, createdDate' \in [Ids -> 0 .. MaxTime],
           UNCHANGED <<walkVars, entered, left>>, stood' \subseteq stood
    PROVE  WalkInv'
<1>1. ~Walking' /\ left \in Nat /\ entered \in Nat /\ shown' = shown
  BY DEF Walking, walkVars, ListingTyped
<1>2. Missed' \subseteq Missed
  <2>1. ASSUME NEW i \in Missed' PROVE i \in Missed
    <3>1. i \in stood' /\ AloneInItsDate(i)' /\ i \notin ToSet(shown)
      BY <1>1 DEF Missed
    <3>2. i \in stood /\ i \in Created
      BY <3>1 DEF ListingTyped
    <3>3. QED
      BY <3>1, <3>2, AloneBefore DEF Missed
  <2>2. QED
    BY <2>1
<1>3. Again' \subseteq Again
  <2>1. ASSUME NEW n \in Again' PROVE n \in Again
    <3>1. n \in 1 .. Len(shown) /\ shown[n] \in Created
      BY <1>1, ListingTypes DEF Again
    <3>2. AloneInItsDate(shown[n])
      BY <1>1, <3>1, AloneBefore DEF Again
    <3>3. QED
      BY <1>1, <3>2 DEF Again
  <2>2. QED
    BY <2>1
<1>4. Cardinality(Missed') <= left
  BY <1>1, <1>2, CountWithin, CountsFinite DEF WalkInv
<1>5. Cardinality(Again') <= entered
  BY <1>1, <1>3, CountWithin, CountsFinite DEF WalkInv
<1>6. QED
  BY <1>1, <1>4, <1>5 DEF WalkInv

\* A post that enters the list in a walk has none missed, and at most one post shown
\* before the more is ahead again: itself, or the one it pushes over the edge.
LEMMA EnterCounts ==
    ASSUME ListingTyped, ListingTyped', WalkInv, Walking, DatesKept,
           NEW j \in Ids, EntersList(j)
    PROVE  WalkInv'
<1>0. /\ IsFiniteSet(listed) /\ listed \subseteq Created /\ Created \subseteq Ids /\ j \notin listed
      /\ createdDate \in [Ids -> Nat] /\ createdDate' \in [Ids -> 0 .. MaxTime]
      /\ createdDate' \in [Ids -> Nat] /\ stood \subseteq listed
      /\ entered \in Nat /\ left \in Nat
      /\ \A n \in 1 .. Len(shown) : shown[n] \in Created
      /\ DOMAIN shown = 1 .. Len(shown)
  BY ListingTypes DEF ListingTyped, ListingTypeOK, EntersList
<1>1. /\ listed' = listed \cup {j} /\ entered' = entered + 1
      /\ UNCHANGED <<pageIndex, shown, stood, left>> /\ Walking'
  BY DEF EntersList, Enters, walkVars, Walking
<1>2. PICK f \in Nat : f = Offset(pageIndex)
  BY OffsetType, ListingTypes DEF Walking
<1>3. f = Offset(pageIndex')
  BY <1>1, <1>2
<1>4. ASSUME NEW i \in Created
      PROVE  /\ Rank(i) <= Rank(i)' /\ Rank(i)' <= Rank(i) + 1
             /\ Rank(i) \in Nat /\ Rank(i)' \in Nat
             /\ ~(createdDate'[j] > createdDate'[i]) => Rank(i)' = Rank(i)
             /\ AloneInItsDate(i)' => AloneInItsDate(i)
  <2>1. createdDate'[i] = createdDate[i] /\ \A k \in listed : createdDate'[k] = createdDate[k]
    BY <1>0 DEF DatesKept
  <2>2. /\ RankIn(listed, createdDate, i) <= RankIn(listed \cup {j}, createdDate', i)
        /\ RankIn(listed \cup {j}, createdDate', i) <= RankIn(listed, createdDate, i) + 1
        /\ ~(createdDate'[j] > createdDate'[i]) =>
              RankIn(listed \cup {j}, createdDate', i) = RankIn(listed, createdDate, i)
    BY <1>0, <2>1, RankGrows
  <2>3. IsFiniteSet(listed \cup {j})
    BY <1>0, FS_AddElement
  <2>4. RankIn(listed, createdDate, i) \in Nat /\ RankIn(listed \cup {j}, createdDate', i) \in Nat
    BY <1>0, <2>3, RankType
  <2>5. AloneInItsDate(i)' => AloneInItsDate(i)
    BY <1>0, AloneBefore
  <2>6. QED
    BY <1>1, <2>2, <2>4, <2>5 DEF Rank
<1>5. PassedBy' \subseteq PassedBy
  <2>1. ASSUME NEW i \in PassedBy' PROVE i \in PassedBy
    <3>1. i \in stood /\ AloneInItsDate(i)' /\ i \notin ToSet(shown) /\ Rank(i)' < f
      BY <1>1, <1>3 DEF PassedBy, Missed
    <3>2. i \in Created
      BY <1>0, <3>1
    <3>3. QED
      BY <1>2, <1>4, <3>1, <3>2 DEF PassedBy, Missed
  <2>2. QED
    BY <2>1
<1>6. Again' \subseteq Again
  BY <1>0, <1>1, <1>4 DEF Again
<1>7. ASSUME NEW i \in SeenAhead'
      PROVE  /\ i \in listed \cup {j} /\ i \in Created /\ AloneInItsDate(i)' /\ f <= Rank(i)'
             /\ i \in SeenAhead \/ i = j \/ Rank(i) < f
  <2>1. i \in listed \cup {j} /\ AloneInItsDate(i)' /\ i \in ToSet(shown) /\ f <= Rank(i)'
    BY <1>1, <1>3 DEF SeenAhead
  <2>2. i \in Created
    BY <1>0, <2>1 DEF ToSet
  <2>3. i \in listed /\ f <= Rank(i) => i \in SeenAhead
    BY <1>2, <1>4, <2>1, <2>2 DEF SeenAhead
  <2>4. QED
    BY <1>2, <1>4, <2>1, <2>2, <2>3
<1>8. ASSUME NEW a \in SeenAhead' \ SeenAhead, NEW b \in SeenAhead' \ SeenAhead, a # b,
             createdDate'[a] > createdDate'[b]
      PROVE  FALSE
  <2>1. Rank(a)' + 1 <= Rank(b)'
    <3>1. a \in listed' /\ listed' \subseteq Ids /\ b \in Ids /\ IsFiniteSet(listed')
      BY <1>0, <1>1, <1>7, FS_AddElement
    <3>2. RankIn(listed', createdDate', a) + 1 <= RankIn(listed', createdDate', b)
      BY <1>0, <1>8, <3>1, OlderRanksHigher
    <3>3. QED
      BY <3>2 DEF Rank
  <2>2. f + 1 <= Rank(b)'
    BY <1>2, <1>4, <1>7, <2>1
  <2>3. b = j
    BY <1>2, <1>4, <1>7, <2>2
  <2>4. Rank(a)' = Rank(a)
    <3>1. createdDate'[a] \in Nat /\ createdDate'[b] \in Nat
      BY <1>0, <1>7
    <3>2. QED
      BY <1>4, <1>7, <1>8, <2>3, <3>1
  <2>5. QED
    BY <1>2, <1>4, <1>7, <1>8, <2>3, <2>4
<1>9. \A a, b \in SeenAhead' \ SeenAhead : a = b
  <2>1. ASSUME NEW a \in SeenAhead' \ SeenAhead, NEW b \in SeenAhead' \ SeenAhead, a # b
        PROVE  FALSE
    <3>1. createdDate'[a] # createdDate'[b]
      BY <1>0, <1>7, <2>1 DEF AloneInItsDate
    <3>2. createdDate'[a] \in Nat /\ createdDate'[b] \in Nat
      BY <1>0, <1>7
    <3>3. QED
      BY <1>8, <2>1, <3>1, <3>2
  <2>2. QED
    BY <2>1
<1>10. Cardinality(PassedBy') <= left
  <2>1. IsFiniteSet(PassedBy) /\ left \in Nat /\ Cardinality(PassedBy) <= left
    BY <1>0, CountsFinite DEF WalkInv
  <2>2. QED
    BY <1>5, <2>1, CountWithin
<1>11. Cardinality(Again') <= Cardinality(Again)
  BY <1>6, CountsFinite, FS_Subset
<1>12. Cardinality(SeenAhead') <= Cardinality(SeenAhead) + 1
  BY <1>9, CountsFinite, CountOneMore
<1>13. Cardinality(Again') \in Nat /\ Cardinality(SeenAhead') \in Nat
  <2>1. IsFiniteSet(Again')
    BY <1>6, CountsFinite, FS_Subset
  <2>2. SeenAhead' \subseteq listed'
    BY DEF SeenAhead
  <2>3. IsFiniteSet(SeenAhead')
    BY <1>0, <1>1, <2>2, FS_AddElement, FS_Subset
  <2>4. QED
    BY <2>1, <2>3, FS_CardinalityType
<1>14. Cardinality(Again') + Cardinality(SeenAhead') <= entered'
  BY <1>0, <1>1, <1>11, <1>12, <1>13, CountsFinite DEF WalkInv
<1>15. QED
  BY <1>1, <1>10, <1>14 DEF WalkInv

\* A post that leaves the list in a walk draws at most one post over the edge unseen,
\* and none ahead that was shown before.
LEMMA LeaveCounts ==
    ASSUME ListingTyped, ListingTyped', WalkInv, Walking, UNCHANGED createdDate,
           NEW j \in Ids, LeavesList(j)
    PROVE  WalkInv'
<1>0. /\ IsFiniteSet(listed) /\ listed \subseteq Ids /\ createdDate \in [Ids -> Nat]
      /\ stood \subseteq listed /\ entered \in Nat /\ left \in Nat
  BY ListingTypes DEF ListingTyped
<1>1. /\ listed' = listed \ {j} /\ listed' \cup {j} = listed /\ left' = left + 1
      /\ stood' = stood \ {j} /\ UNCHANGED <<createdDate, pageIndex, shown, entered>> /\ Walking'
  BY DEF LeavesList, Leaves, walkVars, Walking
<1>2. PICK f \in Nat : f = Offset(pageIndex) /\ f = Offset(pageIndex')
  BY <1>1, OffsetType, ListingTypes DEF Walking
<1>3. ASSUME NEW i \in Ids
      PROVE  /\ Rank(i)' <= Rank(i) /\ Rank(i) <= Rank(i)' + 1
             /\ Rank(i) \in Nat /\ Rank(i)' \in Nat
             /\ AloneInItsDate(i)' <=> AloneInItsDate(i)
  <2>1. IsFiniteSet(listed \ {j}) /\ (listed \ {j}) \cup {j} = listed
    BY <1>0, <1>1, FS_RemoveElement
  <2>2. /\ RankIn(listed \ {j}, createdDate, i) <= RankIn(listed, createdDate, i)
        /\ RankIn(listed, createdDate, i) <= RankIn(listed \ {j}, createdDate, i) + 1
    <3>1. listed \ {j} \in SUBSET Ids
      BY <1>0
    <3>2. /\ RankIn(listed \ {j}, createdDate, i) <=
                 RankIn((listed \ {j}) \cup {j}, createdDate, i)
          /\ RankIn((listed \ {j}) \cup {j}, createdDate, i) <=
                 RankIn(listed \ {j}, createdDate, i) + 1
      BY <2>1, <3>1, RankGrows
    <3>3. QED
      BY <2>1, <3>2
  <2>3. RankIn(listed, createdDate, i) \in Nat /\ RankIn(listed \ {j}, createdDate, i) \in Nat
    BY <1>0, <2>1, RankType
  <2>4. QED
    BY <1>1, <2>2, <2>3 DEF Rank, AloneInItsDate
<1>4. SeenAhead' \subseteq SeenAhead
  <2>1. ASSUME NEW i \in SeenAhead' PROVE i \in SeenAhead
    <3>1. i \in listed /\ AloneInItsDate(i)' /\ i \in ToSet(shown) /\ f <= Rank(i)'
      BY <1>1, <1>2 DEF SeenAhead
    <3>2. QED
      BY <1>0, <1>2, <1>3, <3>1 DEF SeenAhead
  <2>2. QED
    BY <2>1
<1>5. Again' = Again
  BY <1>1 DEF Again, AloneInItsDate
<1>6. ASSUME NEW i \in PassedBy' \ PassedBy
      PROVE  i \in listed /\ AloneInItsDate(i) /\ Rank(i) = f
  <2>1. i \in stood /\ AloneInItsDate(i)' /\ i \notin ToSet(shown) /\ Rank(i)' < f
    BY <1>1, <1>2 DEF PassedBy, Missed
  <2>2. i \in listed /\ i \in Ids /\ AloneInItsDate(i)
    BY <1>0, <1>3, <2>1
  <2>3. ~(Rank(i) < f)
    BY <1>2, <1>6, <2>1, <2>2 DEF PassedBy, Missed
  <2>4. QED
    BY <1>2, <1>3, <2>1, <2>2, <2>3
<1>7. \A a, b \in PassedBy' \ PassedBy : a = b
  <2>1. ASSUME NEW a \in PassedBy' \ PassedBy, NEW b \in PassedBy' \ PassedBy, a # b
        PROVE  FALSE
    <3>1. /\ a \in listed /\ b \in listed /\ Rank(a) = f /\ Rank(b) = f
          /\ createdDate[a] # createdDate[b]
          /\ createdDate[a] \in Nat /\ createdDate[b] \in Nat
      BY <1>0, <1>6, <2>1 DEF AloneInItsDate
    <3>2. /\ createdDate[a] > createdDate[b] => f + 1 <= f
          /\ createdDate[b] > createdDate[a] => f + 1 <= f
      BY <1>0, <3>1, OlderRanksHigher DEF Rank
    <3>3. QED
      BY <1>2, <3>1, <3>2
  <2>2. QED
    BY <2>1
<1>8. Cardinality(PassedBy') <= left'
  <2>1. Cardinality(PassedBy') <= Cardinality(PassedBy) + 1
    BY <1>7, CountsFinite, CountOneMore
  <2>2. PassedBy' \subseteq stood
    BY <1>1 DEF PassedBy, Missed
  <2>3. Cardinality(PassedBy') \in Nat
    BY <2>2, FS_Subset, FS_CardinalityType DEF ListingTyped
  <2>4. QED
    BY <1>0, <1>1, <2>1, <2>3, CountsFinite DEF WalkInv
<1>9. Cardinality(Again') + Cardinality(SeenAhead') <= entered'
  <2>1. Cardinality(SeenAhead') <= Cardinality(SeenAhead) /\ Cardinality(SeenAhead') \in Nat
    BY <1>4, CountsFinite, FS_Subset, FS_CardinalityType
  <2>2. QED
    BY <1>0, <1>1, <1>5, <2>1, CountsFinite DEF WalkInv
<1>10. QED
  BY <1>1, <1>8, <1>9 DEF WalkInv

\* A step that leaves the list as it is leaves the counts, or takes from them the post
\* whose date is no longer its own.
LEMMA StayCounts ==
    ASSUME ListingTyped, WalkInv, Walking, DatesKept, createdDate' \in [Ids -> 0 .. MaxTime],
           StaysListed
    PROVE  WalkInv'
<1>0. /\ listed \subseteq Created /\ stood \subseteq Created
      /\ UNCHANGED <<listed, pageIndex, shown, stood, entered, left>> /\ Walking'
      /\ \A n \in 1 .. Len(shown) : shown[n] \in Created
      /\ DOMAIN shown = 1 .. Len(shown) /\ entered \in Nat /\ left \in Nat
  BY ListingTypes DEF StaysListed, walkVars, Walking, ListingTyped
<1>1. ASSUME NEW i \in Created PROVE Rank(i)' = Rank(i) /\ (AloneInItsDate(i)' => AloneInItsDate(i))
  <2>1. NewerIn(listed, createdDate', i) = NewerIn(listed, createdDate, i)
    BY <1>0 DEF NewerIn, DatesKept
  <2>2. QED
    BY <1>0, <2>1, AloneBefore DEF Rank, RankIn
<1>2. PassedBy' \subseteq PassedBy
  BY <1>0, <1>1 DEF PassedBy, Missed
<1>3. Again' \subseteq Again
  BY <1>0, <1>1 DEF Again
<1>4. SeenAhead' \subseteq SeenAhead
  BY <1>0, <1>1 DEF SeenAhead
<1>5. Cardinality(PassedBy') <= left
  BY <1>0, <1>2, CountsFinite, CountWithin DEF WalkInv
<1>6. /\ Cardinality(Again') <= Cardinality(Again) /\ Cardinality(Again') \in Nat
      /\ Cardinality(SeenAhead') <= Cardinality(SeenAhead) /\ Cardinality(SeenAhead') \in Nat
  BY <1>3, <1>4, CountsFinite, FS_Subset, FS_CardinalityType
<1>7. Cardinality(Again') + Cardinality(SeenAhead') <= entered
  BY <1>0, <1>6, CountsFinite DEF WalkInv
<1>8. QED
  BY <1>0, <1>5, <1>7 DEF WalkInv

\* A walk begins with nothing missed and nothing shown.
LEMMA StartCounts ==
    ASSUME ListingTyped, StartWalk
    PROVE  WalkInv'
<1>1. /\ Walking' /\ shown' = <<>> /\ entered' = 0 /\ left' = 0 /\ pageIndex' = 1
      /\ UNCHANGED <<createdDate, listed>>
  BY DEF StartWalk, Walking
<1>2. Again' = {} /\ SeenAhead' = {}
  BY <1>1 DEF Again, SeenAhead, ToSet
<1>3. PassedBy' = {}
  <2>1. Offset(1) = 0
    BY DEF Offset
  <2>2. ASSUME NEW i \in PassedBy' PROVE FALSE
    <3>1. Rank(i)' < 0
      BY <1>1, <2>1 DEF PassedBy
    <3>2. Rank(i)' = RankIn(listed, createdDate, i)
      BY <1>1 DEF Rank
    <3>3. QED
      BY <3>1, <3>2, RankType DEF ListingTyped
  <2>3. QED
    BY <2>2
<1>4. QED
  BY <1>1, <1>2, <1>3, FS_EmptySet DEF WalkInv

\* A page shows each post at the places it takes out, and those shown before were ahead.
LEMMA PageCounts ==
    ASSUME ListingTyped, WalkInv, GetByType
    PROVE  WalkInv'
<1>0. /\ IsFiniteSet(listed) /\ listed \subseteq Ids /\ createdDate \in [Ids -> Nat]
      /\ stood \subseteq listed /\ entered \in Nat /\ left \in Nat
      /\ Len(shown) \in Nat /\ DOMAIN shown = 1 .. Len(shown) /\ shown \in Seq(Created)
      /\ pageIndex \in Nat \ {0} /\ Walking
  BY ListingTypes DEF ListingTyped, GetByType, Walking
<1>1. PICK rows \in Orders :
         /\ shown' = shown \o PageRows(rows)
         /\ pageIndex' = IF Len(rows) < Offset(pageIndex) + pageSize THEN 0 ELSE pageIndex + 1
  BY DEF GetByType, PageRows
<1>2. UNCHANGED <<createdDate, listed, stood, entered, left>>
  BY DEF GetByType, Stays
<1>3. PICK f \in Nat : f = Offset(pageIndex) /\ Offset(pageIndex + 1) = f + pageSize
  BY <1>0, OffsetType
<1>4. /\ rows \in Seq(listed) /\ Len(rows) \in Nat
      /\ \A m, n \in 1 .. Len(rows) : rows[m] = rows[n] => m = n
      /\ \A n \in 1 .. Len(rows) : AloneInItsDate(rows[n]) => Rank(rows[n]) = n - 1
      /\ \A i \in listed : AloneInItsDate(i) =>
            Rank(i) + 1 \in 1 .. Len(rows) /\ rows[Rank(i) + 1] = i
  BY <1>0, RowsByRank DEF Rank
<1>5. PICK page \in Seq(listed) : page = PageRows(rows)
  BY <1>0, PageOfRows
<1>6. /\ Len(page) \in Nat /\ DOMAIN page = 1 .. Len(page)
      /\ \A k \in 1 .. Len(page) : f + k \in 1 .. Len(rows) /\ k <= pageSize /\ page[k] = rows[f + k]
      /\ \A n \in 1 .. Len(rows) :
            f < n /\ n <= f + pageSize => n - f \in 1 .. Len(page) /\ page[n - f] = rows[n]
  BY <1>0, <1>3, <1>5, PageOfRows
<1>7. ASSUME NEW k \in 1 .. Len(page), AloneInItsDate(page[k])
      PROVE  page[k] \in listed /\ Rank(page[k]) = f + k - 1 /\ k <= pageSize
  <2>1. page[k] = rows[f + k] /\ f + k \in 1 .. Len(rows)
    BY <1>6
  <2>2. QED
    BY <1>4, <1>5, <1>6, <1>7, <2>1
<1>8. ASSUME NEW i \in listed, AloneInItsDate(i), f <= Rank(i),
             Rank(i) < f + pageSize \/ Len(rows) < f + pageSize
      PROVE  \E k \in 1 .. Len(page) : page[k] = i
  <2>1. PICK n \in 1 .. Len(rows) : n = Rank(i) + 1 /\ rows[n] = i
    BY <1>4, <1>8
  <2>2. Rank(i) \in Nat
    BY <1>0, RankType DEF Rank
  <2>3. f < n /\ n <= f + pageSize
    BY <1>3, <1>4, <1>8, <2>1, <2>2
  <2>4. QED
    BY <1>6, <2>1, <2>3
<1>9. PICK l \in Nat : l = Len(shown)
  BY <1>0
<1>10. /\ Len(shown') = l + Len(page) /\ DOMAIN shown' = 1 .. l + Len(page)
       /\ \A n \in 1 .. l : shown'[n] = shown[n]
       /\ \A k \in 1 .. Len(page) : shown'[l + k] = page[k]
       /\ \A n \in 1 .. l + Len(page) : n \in 1 .. l \/ n - l \in 1 .. Len(page)
  <2>1. listed \subseteq Created
    BY ListingTypes
  <2>2. page \in Seq(Created)
    BY <1>5, <2>1
  <2>3. /\ shown' = shown \o page /\ shown' \in Seq(Created) /\ Len(shown') = l + Len(page)
        /\ \A n \in 1 .. l : shown'[n] = shown[n]
    BY <1>0, <1>1, <1>5, <1>9, <2>2
  <2>4. DOMAIN shown' = 1 .. l + Len(page)
    BY <2>3
  <2>5. \A k \in 1 .. Len(page) : shown'[l + k] = page[k]
    BY <1>0, <1>6, <1>9, <2>2, <2>3
  <2>6. \A n \in 1 .. l + Len(page) : n \in 1 .. l \/ n - l \in 1 .. Len(page)
    BY <1>6, <1>9
  <2>7. QED
    BY <2>3, <2>4, <2>5, <2>6
<1>11. ASSUME NEW n \in 1 .. l + Len(page), n \notin 1 .. l
       PROVE  \E k \in 1 .. Len(page) : n = l + k /\ shown'[n] = page[k]
  <2>1. n - l \in 1 .. Len(page) /\ n = l + (n - l)
    BY <1>6, <1>9, <1>10, <1>11
  <2>2. shown'[l + (n - l)] = page[n - l]
    BY <1>10, <2>1
  <2>3. QED
    BY <2>1, <2>2
<1>12. /\ ToSet(shown) \subseteq ToSet(shown')
       /\ \A k \in 1 .. Len(page) : page[k] \in ToSet(shown')
       /\ \A x \in ToSet(shown') : x \in ToSet(shown) \/ \E k \in 1 .. Len(page) : x = page[k]
  <2>1. \A n \in 1 .. l : n \in 1 .. l + Len(page)
    BY <1>6, <1>9
  <2>2. ToSet(shown) \subseteq ToSet(shown')
    BY <1>0, <1>9, <1>10, <2>1 DEF ToSet
  <2>3. ASSUME NEW k \in 1 .. Len(page) PROVE page[k] \in ToSet(shown')
    <3>1. l + k \in 1 .. l + Len(page)
      BY <1>6, <1>9
    <3>2. shown'[l + k] = page[k]
      BY <1>10
    <3>3. QED
      BY <1>10, <3>1, <3>2 DEF ToSet
  <2>4. ASSUME NEW x \in ToSet(shown')
        PROVE  x \in ToSet(shown) \/ \E k \in 1 .. Len(page) : x = page[k]
    <3>1. PICK n \in 1 .. l + Len(page) : x = shown'[n]
      BY <1>10 DEF ToSet
    <3>2. CASE n \in 1 .. l
      BY <1>0, <1>9, <1>10, <3>1, <3>2 DEF ToSet
    <3>3. CASE n \notin 1 .. l
      BY <1>11, <3>1, <3>3
    <3>4. QED
      BY <3>2, <3>3
  <2>5. QED
    BY <2>2, <2>3, <2>4
<1>13. \A i : Rank(i)' = Rank(i) /\ (AloneInItsDate(i)' <=> AloneInItsDate(i))
  BY <1>2 DEF Rank, AloneInItsDate
<1> DEFINE New == Again' \ Again
<1>14. ASSUME NEW n \in New
       PROVE  /\ shown'[n] \in SeenAhead
              /\ \E k \in 1 .. Len(page) : n = l + k /\ shown'[n] = page[k]
              /\ Rank(shown'[n]) < f + pageSize
  <2>1. PICK m \in 1 .. n - 1 : /\ n \in 1 .. l + Len(page) /\ shown'[m] = shown'[n]
                                /\ AloneInItsDate(shown'[n])
    BY <1>10, <1>13 DEF Again
  <2>2. n \notin 1 .. l
    <3>1. SUFFICES ASSUME n \in 1 .. l PROVE FALSE
      OBVIOUS
    <3>2. m \in 1 .. l
      BY <1>9, <3>1
    <3>3. shown[m] = shown[n] /\ AloneInItsDate(shown[n])
      BY <1>10, <2>1, <3>1, <3>2
    <3>4. n \in Again
      BY <1>0, <1>9, <3>1, <3>3 DEF Again
    <3>5. QED
      BY <3>4
  <2>3. PICK k \in 1 .. Len(page) : n = l + k /\ shown'[n] = page[k]
    BY <1>11, <2>1, <2>2
  <2>4. page[k] \in listed /\ AloneInItsDate(page[k]) /\ Rank(page[k]) = f + k - 1 /\ k <= pageSize
    BY <1>7, <2>1, <2>3
  <2>5. m \in 1 .. l
    <3>1. SUFFICES ASSUME m \notin 1 .. l PROVE FALSE
      OBVIOUS
    <3>2. m \in 1 .. l + Len(page)
      BY <1>6, <1>9, <2>1
    <3>3. PICK q \in 1 .. Len(page) : m = l + q /\ shown'[m] = page[q]
      BY <1>11, <3>1, <3>2
    <3>4. Rank(page[q]) = f + q - 1
      BY <1>7, <2>1, <3>3
    <3>5. q = k
      <4>1. f + q - 1 = f + k - 1
        BY <2>1, <2>3, <2>4, <3>3, <3>4
      <4>2. f \in Nat /\ q \in Nat /\ k \in Nat
        BY <1>3, <1>6
      <4>3. QED
        BY <4>1, <4>2
    <3>6. QED
      BY <1>6, <1>9, <2>1, <2>3, <3>3, <3>5
  <2>6. page[k] \in ToSet(shown)
    BY <1>0, <1>9, <1>10, <2>1, <2>3, <2>5 DEF ToSet
  <2>7. f <= f + k - 1 /\ f + k - 1 < f + pageSize
    BY <1>3, <1>6, <2>4
  <2>8. QED
    BY <1>3, <2>3, <2>4, <2>6, <2>7 DEF SeenAhead
<1>15. ASSUME NEW a \in New, NEW b \in New, shown'[a] = shown'[b] PROVE a = b
  <2>1. PICK p \in 1 .. Len(page) : a = l + p /\ shown'[a] = page[p]
    BY <1>14
  <2>2. PICK q \in 1 .. Len(page) : b = l + q /\ shown'[b] = page[q]
    BY <1>14
  <2>3. AloneInItsDate(page[p]) /\ AloneInItsDate(page[q])
    BY <1>14, <1>15, <2>1, <2>2 DEF SeenAhead
  <2>4. Rank(page[p]) = f + p - 1 /\ Rank(page[q]) = f + q - 1
    BY <1>7, <2>3
  <2>5. p = q
    <3>1. f + p - 1 = f + q - 1
      BY <1>15, <2>1, <2>2, <2>4
    <3>2. f \in Nat /\ p \in Nat /\ q \in Nat
      BY <1>3, <1>6
    <3>3. QED
      BY <3>1, <3>2
  <2>6. QED
    BY <2>1, <2>2, <2>5
<1>16. ASSUME NEW T \in SUBSET SeenAhead, \A n \in New : shown'[n] \in T
       PROVE  /\ Cardinality(Again') <= Cardinality(Again) + Cardinality(T)
              /\ Cardinality(Again') \in Nat /\ Cardinality(T) \in Nat
  <2>1. IsFiniteSet(T) /\ Cardinality(T) \in Nat
    BY CountsFinite, FS_Subset, FS_CardinalityType
  <2> DEFINE g == [n \in New |-> shown'[n]]
  <2>2. g \in Injection(New, T)
    <3>1. g \in [New -> T]
      BY <1>16
    <3>2. \A a, b \in New : g[a] = g[b] => a = b
      BY <1>15
    <3> HIDE DEF g, New
    <3>3. QED
      BY <3>1, <3>2 DEF Injection, IsInjective
  <2> HIDE DEF g, New
  <2>3. IsFiniteSet(New) /\ Cardinality(New) <= Cardinality(T) /\ Cardinality(New) \in Nat
    BY <2>1, <2>2, FS_Injection, FS_CardinalityType
  <2>4. /\ IsFiniteSet(Again \cup New)
        /\ Cardinality(Again \cup New) =
              Cardinality(Again) + Cardinality(New) - Cardinality(Again \cap New)
    BY <2>3, CountsFinite, FS_Union
  <2>5. Cardinality(Again \cap New) \in Nat /\ Cardinality(Again \cup New) \in Nat
    BY <2>3, <2>4, CountsFinite, FS_Subset, FS_CardinalityType
  <2>6. Again' \subseteq Again \cup New
    BY DEF New
  <2>7. /\ Cardinality(Again') <= Cardinality(Again \cup New) /\ Cardinality(Again') \in Nat
    BY <2>4, <2>6, FS_Subset, FS_CardinalityType
  <2>8. QED
    BY <2>1, <2>3, <2>4, <2>5, <2>7, CountsFinite
<1> HIDE DEF New
<1>17. ASSUME NEW i \in Missed',
              Rank(i) < f + pageSize \/ Len(rows) < f + pageSize
       PROVE  i \in PassedBy
  <2>1. i \in stood /\ AloneInItsDate(i) /\ i \notin ToSet(shown')
    BY <1>2, <1>13 DEF Missed
  <2>2. i \in Missed
    BY <1>12, <2>1 DEF Missed
  <2>3. Rank(i) < f
    <3>1. Rank(i) \in Nat
      BY <1>0, RankType DEF Rank
    <3>2. SUFFICES ASSUME f <= Rank(i) PROVE FALSE
      BY <1>3, <3>1
    <3>3. \E k \in 1 .. Len(page) : page[k] = i
      BY <1>0, <1>8, <1>17, <2>1, <3>2
    <3>4. QED
      BY <1>12, <2>1, <3>3
  <2>4. QED
    BY <1>3, <2>2, <2>3 DEF PassedBy
<1>18. CASE Len(rows) < f + pageSize
  <2>1. ~Walking' /\ Missed' \subseteq PassedBy
    BY <1>1, <1>3, <1>17, <1>18 DEF Walking
  <2>2. Cardinality(Missed') <= left
    BY <1>0, <2>1, CountWithin, CountsFinite DEF WalkInv
  <2>3. \A n \in New : shown'[n] \in SeenAhead
    BY <1>14
  <2>4. Cardinality(Again') <= Cardinality(Again) + Cardinality(SeenAhead)
    BY <1>16, <2>3
  <2>5. Cardinality(Again') <= entered
    <3>1. /\ Cardinality(Again) + Cardinality(SeenAhead) <= entered
          /\ Cardinality(Again) \in Nat /\ Cardinality(SeenAhead) \in Nat /\ entered \in Nat
      BY <1>0, CountsFinite DEF WalkInv
    <3>2. Cardinality(Again') \in Nat
      BY <1>16, <2>3
    <3>3. QED
      BY <2>4, <3>1, <3>2
  <2>6. QED
    BY <1>2, <2>1, <2>2, <2>5 DEF WalkInv
<1>19. CASE ~(Len(rows) < f + pageSize)
  <2>1. pageIndex' = pageIndex + 1 /\ Walking' /\ Offset(pageIndex') = f + pageSize
    BY <1>0, <1>1, <1>3, <1>19 DEF Walking
  <2>2. PassedBy' \subseteq PassedBy
    <3>1. \A i \in PassedBy' : i \in Missed' /\ Rank(i) < f + pageSize
      BY <1>13, <2>1 DEF PassedBy
    <3>2. QED
      BY <1>17, <3>1
  <2>3. Cardinality(PassedBy') <= left
    BY <1>0, <2>2, CountWithin, CountsFinite DEF WalkInv
  <2>4. SeenAhead' \subseteq SeenAhead
    <3>1. ASSUME NEW i \in SeenAhead' PROVE i \in SeenAhead
      <4>1. /\ i \in listed /\ AloneInItsDate(i) /\ i \in ToSet(shown')
            /\ Rank(i) >= f + pageSize
        BY <1>2, <1>13, <2>1 DEF SeenAhead
      <4>2. i \in ToSet(shown)
        <5>1. SUFFICES ASSUME NEW k \in 1 .. Len(page), i = page[k] PROVE FALSE
          BY <1>12, <4>1
        <5>2. Rank(i) = f + k - 1 /\ k <= pageSize
          BY <1>7, <4>1, <5>1
        <5>3. k \in Nat /\ f \in Nat
          BY <1>3, <1>6
        <5>4. QED
          BY <4>1, <5>2, <5>3
      <4>3. Rank(i) >= f
        <5>1. Rank(i) \in Nat
          BY <1>0, RankType DEF Rank
        <5>2. QED
          BY <1>3, <4>1, <5>1
      <4>4. QED
        BY <1>3, <4>1, <4>2, <4>3 DEF SeenAhead
    <3>2. QED
      BY <3>1
  <2> DEFINE Passed == SeenAhead \ SeenAhead'
  <2>5. ASSUME NEW n \in New PROVE shown'[n] \in Passed
    <3>1. PICK i \in SeenAhead : i = shown'[n] /\ Rank(i) < f + pageSize
      BY <1>14
    <3>2. Rank(i) \in Nat /\ Rank(i)' = Rank(i)
      BY <1>0, <1>13, RankType DEF Rank
    <3>3. i \in SeenAhead' => f + pageSize <= Rank(i)
      BY <1>13, <2>1 DEF SeenAhead
    <3>4. QED
      BY <1>3, <3>1, <3>2, <3>3
  <2>6. /\ Cardinality(Again') <= Cardinality(Again) + Cardinality(Passed)
        /\ Cardinality(Again') \in Nat /\ Cardinality(Passed) \in Nat
    BY <1>16, <2>5
  <2>7. Cardinality(Passed) + Cardinality(SeenAhead') = Cardinality(SeenAhead)
    <3>1. /\ IsFiniteSet(SeenAhead') /\ IsFiniteSet(Passed)
          /\ Cardinality(SeenAhead') \in Nat
      BY <2>4, CountsFinite, FS_Subset, FS_CardinalityType
    <3>2. Passed \cup SeenAhead' = SeenAhead /\ Passed \cap SeenAhead' = {}
      BY <2>4
    <3>3. Cardinality(Passed \cup SeenAhead') =
             Cardinality(Passed) + Cardinality(SeenAhead') - Cardinality(Passed \cap SeenAhead')
      BY <3>1, FS_Union
    <3> HIDE DEF Passed
    <3>4. Cardinality(Passed \cap SeenAhead') = 0
      BY <3>2, FS_EmptySet
    <3>5. Cardinality(Passed \cup SeenAhead') = Cardinality(SeenAhead)
      BY <3>2, Zenon
    <3>6. QED
      BY <2>6, <3>1, <3>3, <3>4, <3>5
  <2>8. Cardinality(SeenAhead') \in Nat
    BY <2>4, CountsFinite, FS_Subset, FS_CardinalityType
  <2> HIDE DEF Passed
  <2>9. Cardinality(Again') + Cardinality(SeenAhead') <= entered
    <3>1. Cardinality(Again) + Cardinality(SeenAhead) <= entered
      BY <1>0 DEF WalkInv
    <3>2. QED
      BY <1>0, <2>6, <2>7, <2>8, <3>1, CountsFinite
  <2>10. QED
    BY <1>2, <2>1, <2>3, <2>9 DEF WalkInv
<1>20. QED
  BY <1>18, <1>19

\* The counts hold at the start.
LEMMA WalkInvInit == ListingInit => WalkInv
<1> SUFFICES ASSUME ListingInit PROVE WalkInv
  OBVIOUS
<1>1. Missed = {} /\ Again = {} /\ left = 0 /\ entered = 0 /\ ~Walking
  BY DEF ListingInit, Missed, Again, Walking
<1>2. QED
  BY <1>1, FS_EmptySet DEF WalkInv

\* Every step keeps them.
LEMMA WalkInvNext == ListingTyped /\ WalkInv /\ [ListingNext]_listingVars => WalkInv'
<1> SUFFICES ASSUME ListingTyped, WalkInv, [ListingNext]_listingVars PROVE WalkInv'
  OBVIOUS
<1>1. ListingTyped' /\ DatesKept /\ createdDate' \in [Ids -> 0 .. MaxTime]
  BY ListingTypedNext, ListSteps
<1>2. ASSUME NEW j \in Ids, EntersList(j) PROVE WalkInv'
  <2>1. CASE Walking
    BY <1>1, <1>2, <2>1, EnterCounts
  <2>2. CASE ~Walking
    <3>1. UNCHANGED <<walkVars, entered, left>> /\ stood' \subseteq stood
      BY <1>2, <2>2 DEF EntersList, Enters
    <3>2. QED
      BY <1>1, <2>2, <3>1, RestKeeps
  <2>3. QED
    BY <2>1, <2>2
<1>3. ASSUME NEW j \in Ids, LeavesList(j) PROVE WalkInv'
  <2>1. CASE Walking
    <3>1. UNCHANGED createdDate
      BY <1>3 DEF LeavesList
    <3>2. QED
      BY <1>1, <1>3, <2>1, <3>1, LeaveCounts
  <2>2. CASE ~Walking
    <3>1. UNCHANGED <<walkVars, entered, left>> /\ stood' \subseteq stood
      BY <1>3, <2>2 DEF LeavesList, Leaves
    <3>2. QED
      BY <1>1, <2>2, <3>1, RestKeeps
  <2>3. QED
    BY <2>1, <2>2
<1>4. CASE StaysListed
  <2>1. CASE Walking
    BY <1>1, <1>4, <2>1, StayCounts
  <2>2. CASE ~Walking
    <3>1. UNCHANGED <<walkVars, entered, left>> /\ stood' \subseteq stood
      BY <1>4 DEF StaysListed
    <3>2. QED
      BY <1>1, <2>2, <3>1, RestKeeps
  <2>3. QED
    BY <2>1, <2>2
<1>5. CASE StartWalk
  BY <1>5, StartCounts
<1>6. CASE GetByType
  BY <1>6, PageCounts
<1>7. QED
  BY <1>2, <1>3, <1>4, <1>5, <1>6, ListSteps

\* The types and the counts hold in every state.
LEMMA WalkInvCorrect == ListingSpec => [](ListingTyped /\ WalkInv)
  BY ListingTypedInit, ListingTypedNext, WalkInvInit, WalkInvNext, PTL DEF ListingSpec

\* A walk misses no more of the posts that stood in the list than left it meanwhile.
THEOREM MissesNoMoreCorrect == ListingSpec => []MissesNoMore
<1>1. ListingTyped /\ WalkInv => MissesNoMore
  BY DEF WalkInv, MissesNoMore
<1>2. QED
  BY <1>1, WalkInvCorrect, PTL

\* A walk shows no more posts again than entered the list meanwhile.
THEOREM RepeatsNoMoreCorrect == ListingSpec => []RepeatsNoMore
<1>1. ListingTyped /\ WalkInv => RepeatsNoMore
  <2> SUFFICES ASSUME ListingTyped, WalkInv PROVE RepeatsNoMore
    OBVIOUS
  <2>1. entered \in Nat
    BY DEF ListingTyped
  <2>2. QED
    BY <2>1, CountsFinite DEF WalkInv, RepeatsNoMore
<1>2. QED
  BY <1>1, WalkInvCorrect, PTL
=============================================================================
