------------------------- MODULE PostSearch_proofs -------------------------
(***************************************************************************)
(* Theorems about the search, for every title, text and keyword.           *)
(***************************************************************************)
EXTENDS PostSearch, Integers, SequenceTheorems, WellFoundedInduction, TLAPS

-----------------------------------------------------------------------------
(***************************************************************************)
(* Characters.                                                             *)
(***************************************************************************)
\* What becomes of a character of the text in dataSearchVi and in dataSearchEn, and of
\* one of a keyword.
InVi == [c \in Chars |-> CASE c \in White -> "hyphen" [] c = "A" -> "a" [] c = "A_mark" -> "a_mark"
                           [] c = "a_comb" -> "a_mark" [] c \in {"I_foreign", "i_fcomb"} -> "i_foreign"
                           [] OTHER -> c]
InEn == [c \in Chars |-> CASE c \in White -> "hyphen" [] c \in {"A", "a_mark", "A_mark", "a_comb"} -> "a"
                           [] c \in {"I_foreign", "i_fcomb"} -> "i_foreign" [] OTHER -> c]
Small == [c \in Chars |-> CASE c = "A" -> "a" [] c = "A_mark" -> "a_mark" [] c = "I_foreign" -> "i_foreign"
                            [] OTHER -> c]

\* What VietnameseConverter and the normal form do to a character.
Plain  == [c \in Chars |-> CASE c = "a_mark" -> "a" [] c = "A_mark" -> "A" [] OTHER -> c]
Joined == [c \in Chars |-> CASE c = "a_comb" -> "a_mark" [] c = "i_fcomb" -> "i_foreign" [] OTHER -> c]

\* Both fields keep apart what separates words and what does not.
LEMMA CharTypes ==
    /\ InVi \in [Chars -> Chars] /\ InEn \in [Chars -> Chars] /\ Small \in [Chars -> Chars]
    /\ \A c \in Chars : /\ InVi[c] = "hyphen" <=> c \in White \cup {"hyphen"}
                        /\ InEn[c] = "hyphen" <=> c \in White \cup {"hyphen"}
                        /\ Small[c] \in White <=> c \in White
                        /\ Small[c] = "hyphen" <=> c = "hyphen"
                        /\ InVi[c] \in {"a", "b", "a_mark", "i_foreign", "hyphen", "nbsp", "comma", "syntax"}
                        /\ InEn[c] \in {"a", "b", "i_foreign", "hyphen", "nbsp", "comma", "syntax"}
  BY DEF InVi, InEn, Small, Chars, White

\* The conversions of a character, one after the other.
LEMMA CharSteps ==
    ASSUME NEW c \in Chars
    PROVE  /\ Small[Joined[c]] \in Chars /\ (Small[Joined[c]] \in White <=> c \in White)
           /\ c \in White => InVi[c] = "hyphen"
           /\ c \notin White => InVi[c] = Small[Small[Joined[c]]]
           /\ Plain[InVi[c]] = InEn[c]
           /\ Joined[c] \in Chars /\ Plain[c] \in Chars /\ Small[c] \in Chars
  BY DEF InVi, InEn, Small, Plain, Joined, Chars, White

\* A letter of a keyword searched in dataSearchVi is in the text if it is the same one
\* with its mark or without; one of a keyword searched in dataSearchEn with any mark.
LEMMA SameLetters ==
    ASSUME NEW c \in Chars,
           NEW d \in {"a", "A", "b", "a_mark", "A_mark", "i_foreign", "I_foreign", "nbsp", "comma"}
    PROVE  /\ InVi[c] = Small[d] <=> Letter(c) = Letter(d) /\ (c \in Marked <=> d \in Marked)
           /\ d \in {"a", "A", "b"} => (InEn[c] = Small[d] <=> Letter(c) = Letter(d))
  BY DEF InVi, InEn, Small, Chars, Letter, Marked, White

-----------------------------------------------------------------------------
(***************************************************************************)
(* Sequences of characters.                                                *)
(***************************************************************************)
\* A conversion of one character into another keeps the length.
LEMMA MappedSeq ==
    ASSUME NEW s \in Seq(Chars), NEW from, NEW to \in Chars
    PROVE  /\ Mapped(s, from, to) \in Seq(Chars)
           /\ Len(Mapped(s, from, to)) = Len(s)
           /\ \A i \in 1 .. Len(s) : Mapped(s, from, to)[i] = IF s[i] \in from THEN to ELSE s[i]
<1>1. Mapped(s, from, to) = [i \in 1 .. Len(s) |-> IF s[i] \in from THEN to ELSE s[i]]
  BY DEF Mapped
<1>2. Mapped(s, from, to) \in [1 .. Len(s) -> Chars]
  BY <1>1
<1>3. Len(s) \in Nat
  OBVIOUS
<1>4. QED
  BY <1>1, <1>2, <1>3

\* One conversion after another, by position.
LEMMA TwoMapped ==
    ASSUME NEW s \in Seq(Chars), NEW f, NEW c \in Chars, NEW g, NEW d \in Chars
    PROVE  LET m == Mapped(Mapped(s, f, c), g, d) IN
           /\ m \in Seq(Chars) /\ Len(m) = Len(s)
           /\ \A i \in 1 .. Len(s) : m[i] = IF s[i] \in f THEN IF c \in g THEN d ELSE c
                                           ELSE IF s[i] \in g THEN d ELSE s[i]
<1>1. PICK a \in Seq(Chars) : /\ a = Mapped(s, f, c) /\ Len(a) = Len(s)
                              /\ \A i \in 1 .. Len(s) : a[i] = IF s[i] \in f THEN c ELSE s[i]
  BY MappedSeq
<1>2. /\ Mapped(a, g, d) \in Seq(Chars) /\ Len(Mapped(a, g, d)) = Len(a)
      /\ \A i \in 1 .. Len(a) : Mapped(a, g, d)[i] = IF a[i] \in g THEN d ELSE a[i]
  BY <1>1, MappedSeq
<1>3. \A i \in 1 .. Len(s) : Mapped(a, g, d)[i] = IF s[i] \in f THEN IF c \in g THEN d ELSE c
                                                  ELSE IF s[i] \in g THEN d ELSE s[i]
  BY <1>1, <1>2
<1>4. QED
  BY <1>1, <1>2, <1>3

\* The conversions of sequences, by position.
LEMMA Conversions ==
    ASSUME NEW s \in Seq(Chars)
    PROVE  /\ toLowerCase(s) \in Seq(Chars) /\ Len(toLowerCase(s)) = Len(s)
           /\ \A i \in 1 .. Len(s) : toLowerCase(s)[i] = Small[s[i]]
           /\ toTextNotMarked(s) \in Seq(Chars) /\ Len(toTextNotMarked(s)) = Len(s)
           /\ \A i \in 1 .. Len(s) : toTextNotMarked(s)[i] = Plain[s[i]]
           /\ normalizationText(s) \in Seq(Chars) /\ Len(normalizationText(s)) = Len(s)
           /\ \A i \in 1 .. Len(s) : normalizationText(s)[i] = Joined[s[i]]
<1>1. "a" \in Chars /\ "A" \in Chars /\ "a_mark" \in Chars /\ "i_foreign" \in Chars
  BY DEF Chars
<1>2. \A i \in 1 .. Len(s) : s[i] \in Chars
  OBVIOUS
<1>3. /\ toLowerCase(s) \in Seq(Chars) /\ Len(toLowerCase(s)) = Len(s)
      /\ \A i \in 1 .. Len(s) : toLowerCase(s)[i] = Small[s[i]]
  <2>1. PICK a \in Seq(Chars) :
           /\ a = Mapped(Mapped(s, {"A"}, "a"), {"A_mark"}, "a_mark") /\ Len(a) = Len(s)
           /\ \A i \in 1 .. Len(s) : a[i] = IF s[i] \in {"A"} THEN IF "a" \in {"A_mark"} THEN "a_mark" ELSE "a"
                                           ELSE IF s[i] \in {"A_mark"} THEN "a_mark" ELSE s[i]
    BY <1>1, TwoMapped
  <2>2. /\ Mapped(a, {"I_foreign"}, "i_foreign") \in Seq(Chars)
        /\ Len(Mapped(a, {"I_foreign"}, "i_foreign")) = Len(a)
        /\ \A i \in 1 .. Len(a) : Mapped(a, {"I_foreign"}, "i_foreign")[i] =
                                       IF a[i] \in {"I_foreign"} THEN "i_foreign" ELSE a[i]
    BY <1>1, <2>1, MappedSeq
  <2>3. toLowerCase(s) = Mapped(a, {"I_foreign"}, "i_foreign")
    BY <2>1 DEF toLowerCase
  <2>4. \A i \in 1 .. Len(s) : Mapped(a, {"I_foreign"}, "i_foreign")[i] = Small[s[i]]
    BY <1>2, <2>1, <2>2 DEF Small
  <2>5. QED
    BY <2>1, <2>2, <2>3, <2>4
<1>4. /\ toTextNotMarked(s) \in Seq(Chars) /\ Len(toTextNotMarked(s)) = Len(s)
      /\ \A i \in 1 .. Len(s) : toTextNotMarked(s)[i] = Plain[s[i]]
  <2>1. PICK a \in Seq(Chars) :
           /\ a = toTextNotMarked(s) /\ Len(a) = Len(s)
           /\ \A i \in 1 .. Len(s) : a[i] = IF s[i] \in {"a_mark"} THEN IF "a" \in {"A_mark"} THEN "A" ELSE "a"
                                           ELSE IF s[i] \in {"A_mark"} THEN "A" ELSE s[i]
    BY <1>1, TwoMapped DEF toTextNotMarked
  <2>2. \A i \in 1 .. Len(s) : a[i] = Plain[s[i]]
    BY <1>2, <2>1 DEF Plain
  <2>3. QED
    BY <2>1, <2>2
<1>5. /\ normalizationText(s) \in Seq(Chars) /\ Len(normalizationText(s)) = Len(s)
      /\ \A i \in 1 .. Len(s) : normalizationText(s)[i] = Joined[s[i]]
  <2>1. PICK a \in Seq(Chars) :
           /\ a = normalizationText(s) /\ Len(a) = Len(s)
           /\ \A i \in 1 .. Len(s) : a[i] = IF s[i] \in {"a_comb"}
                                           THEN IF "a_mark" \in {"i_fcomb"} THEN "i_foreign" ELSE "a_mark"
                                           ELSE IF s[i] \in {"i_fcomb"} THEN "i_foreign" ELSE s[i]
    BY <1>1, TwoMapped DEF normalizationText
  <2>2. \A i \in 1 .. Len(s) : a[i] = Joined[s[i]]
    BY <1>2, <2>1 DEF Joined
  <2>3. QED
    BY <2>1, <2>2
<1>6. QED
  BY <1>3, <1>4, <1>5

\* A sequence behind a hyphen.
LEMMA HyphenFirst ==
    ASSUME NEW m \in Seq(Chars), NEW n \in Nat, Len(m) = n
    PROVE  \E y \in Seq(Chars) : /\ y = <<"hyphen">> \o m /\ Len(y) = n + 1 /\ y[1] = "hyphen"
                                 /\ \A i \in 1 .. n : y[i + 1] = m[i]
<1>1. <<"hyphen">> \in Seq(Chars) /\ Len(<<"hyphen">>) = 1 /\ <<"hyphen">>[1] = "hyphen"
  BY DEF Chars
<1>2. PICK y : y = <<"hyphen">> \o m
  OBVIOUS
<1>3. /\ y \in Seq(Chars) /\ Len(y) = n + 1 /\ y[1] = "hyphen"
      /\ \A i \in 1 .. n : y[i + 1] = m[i]
  BY <1>1, <1>2
<1>4. QED
  BY <1>2, <1>3

\* A sequence between two hyphens.
LEMMA Between ==
    ASSUME NEW m \in Seq(Chars), NEW n \in Nat, Len(m) = n
    PROVE  \E x \in Seq(Chars) : /\ x = <<"hyphen">> \o m \o <<"hyphen">> /\ Len(x) = n + 2
                                 /\ x[1] = "hyphen" /\ x[n + 2] = "hyphen"
                                 /\ \A i \in 1 .. n : x[i + 1] = m[i]
<1>1. <<"hyphen">> \in Seq(Chars) /\ Len(<<"hyphen">>) = 1 /\ <<"hyphen">>[1] = "hyphen"
  BY DEF Chars
<1>2. PICK y : y = <<"hyphen">> \o m
  OBVIOUS
<1>3. /\ y \in Seq(Chars) /\ Len(y) = n + 1 /\ y[1] = "hyphen"
      /\ \A i \in 1 .. n : y[i + 1] = m[i]
  BY <1>2, HyphenFirst
<1>4. PICK x : x = y \o <<"hyphen">>
  OBVIOUS
<1>5. /\ x \in Seq(Chars) /\ Len(x) = n + 2 /\ x[n + 2] = "hyphen"
      /\ \A i \in 1 .. n + 1 : x[i] = y[i]
  BY <1>1, <1>3, <1>4
<1>6. \A i \in 1 .. n : i + 1 \in 1 .. n + 1
  OBVIOUS
<1>7. x[1] = "hyphen" /\ \A i \in 1 .. n : x[i + 1] = m[i]
  BY <1>3, <1>5, <1>6
<1>8. QED
  BY <1>2, <1>4, <1>5, <1>7

\* A set of positions has a first and a last one.
LEMMA FirstAndLast ==
    ASSUME NEW n \in Nat, NEW S \in SUBSET (1 .. n), S # {}
    PROVE  /\ Min(S) \in S /\ \A x \in S : Min(S) <= x
           /\ Max(S) \in S /\ \A x \in S : x <= Max(S)
<1>1. ASSUME NEW T \in SUBSET Nat, T # {} PROVE \E x \in T : \A y \in T : x <= y
  <2>1. PICK x \in T : \A y \in T : ~(<<y, x>> \in OpToRel(<, Nat))
    BY <1>1, NatLessThanWellFounded, WFMin
  <2>2. \A y \in T : ~(y < x)
    BY <2>1 DEF OpToRel
  <2>3. QED
    BY <2>2
<1>2. \E x \in S : \A y \in S : x <= y
  BY <1>1
<1>3. \E x \in S : \A y \in S : x >= y
  <2> DEFINE T == {n - x : x \in S}
  <2>1. T \in SUBSET Nat /\ T # {}
    <3>1. \A x \in S : n - x \in Nat
      OBVIOUS
    <3>2. QED
      BY <3>1
  <2>2. PICK z \in T : \A y \in T : z <= y
    BY <1>1, <2>1
  <2>3. PICK x \in S : z = n - x
    OBVIOUS
  <2>4. \A y \in S : n - x <= n - y
    BY <2>2, <2>3
  <2> HIDE DEF T
  <2>5. n \in Nat /\ x \in Nat /\ \A y \in S : y \in Nat
    OBVIOUS
  <2>6. \A y \in S : x >= y
    BY ONLY <2>4, <2>5
  <2>7. QED
    BY <2>6
<1>4. QED
  BY <1>2, <1>3 DEF Min, Max

\* Trim(s) is s from lo to hi, and all else in s is blank.
Solid(s, lo, hi) ==
    /\ 1 <= lo /\ lo <= hi + 1 /\ hi <= Len(s)
    /\ \A i \in 1 .. Len(s) : s[i] \notin White => lo <= i /\ i <= hi
TrimmedTo(s, lo, hi) ==
    /\ Solid(s, lo, hi)
    /\ Trim(s) \in Seq(Chars) /\ Len(Trim(s)) = hi + 1 - lo
    /\ \A i \in 1 .. hi + 1 - lo : Trim(s)[i] = s[lo + i - 1]

\* Trim cuts off the blanks of both ends and nothing else.
LEMMA TrimKeeps ==
    ASSUME NEW s \in Seq(Chars)
    PROVE  \E lo, hi \in Nat : TrimmedTo(s, lo, hi)
<1> DEFINE solid == {i \in DOMAIN s : s[i] \notin White}
<1>0. Len(s) \in Nat /\ DOMAIN s = 1 .. Len(s)
  OBVIOUS
<1>1. CASE solid = {}
  <2>1. Trim(s) = <<>>
    BY <1>1 DEF Trim
  <2>2. \A i \in 1 .. Len(s) : s[i] \in White
    BY <1>0, <1>1
  <2>3. \A i \in 1 .. 0 + 1 - 1 : FALSE
    OBVIOUS
  <2>4. TrimmedTo(s, 1, 0)
    <3>1. Trim(s) \in Seq(Chars) /\ Len(Trim(s)) = 0
      BY <2>1
    <3>2. 0 + 1 - 1 = 0 /\ 1 <= 1 /\ 1 <= 0 + 1 /\ 0 <= Len(s)
      BY <1>0
    <3>3. QED
      BY <2>2, <2>3, <3>1, <3>2 DEF TrimmedTo, Solid
  <2>5. QED
    BY <2>4
<1>2. CASE solid # {}
  <2>1. /\ Min(solid) \in solid /\ \A x \in solid : Min(solid) <= x
        /\ Max(solid) \in solid /\ \A x \in solid : x <= Max(solid)
    BY <1>0, <1>2, FirstAndLast
  <2>2. PICK lo \in 1 .. Len(s) : lo = Min(solid)
    BY <1>0, <2>1
  <2>3. PICK hi \in 1 .. Len(s) : hi = Max(solid)
    BY <1>0, <2>1
  <2>4. \A i \in 1 .. Len(s) : s[i] \notin White => lo <= i /\ i <= hi
    BY <1>0, <2>1, <2>2, <2>3
  <2>5. lo <= hi
    BY <1>0, <2>1, <2>2, <2>3
  <2>6. Trim(s) = SubSeq(s, lo, hi)
    BY <1>2, <2>2, <2>3 DEF Trim
  <2> HIDE DEF solid
  <2>7. lo \in Nat \ {0} /\ hi \in Nat /\ hi <= Len(s) /\ hi - lo + 1 = hi + 1 - lo
    BY <1>0
  <2>8. \A i \in lo .. hi : s[i] \in Chars
    BY <1>0, <2>7
  <2>9. /\ SubSeq(s, lo, hi) \in Seq(Chars)
        /\ Len(SubSeq(s, lo, hi)) = IF lo <= hi THEN hi - lo + 1 ELSE 0
        /\ \A i \in 1 .. hi - lo + 1 : SubSeq(s, lo, hi)[i] = s[lo + i - 1]
    BY <2>7, <2>8, SubSeqProperties
  <2>10. TrimmedTo(s, lo, hi)
    <3>1. hi - lo + 1 = hi + 1 - lo /\ 1 <= lo /\ lo <= hi + 1 /\ hi <= Len(s)
      BY <2>5, <2>7
    <3>2. /\ Trim(s) \in Seq(Chars) /\ Len(Trim(s)) = hi + 1 - lo
          /\ \A i \in 1 .. hi + 1 - lo : Trim(s)[i] = s[lo + i - 1]
      BY <2>5, <2>6, <2>9, <3>1
    <3>3. QED
      BY <2>4, <3>1, <3>2 DEF TrimmedTo, Solid
  <2>11. QED
    BY <2>7, <2>10
<1>3. QED
  BY <1>1, <1>2

-----------------------------------------------------------------------------
(***************************************************************************)
(* The fields of an entry.                                                 *)
(***************************************************************************)
\* The field F holds t from lo to hi, converted by ch, between two hyphens.
Holds(F, ch, t, lo, hi) ==
    /\ F \in Seq(Chars) /\ Len(F) = hi + 3 - lo /\ F[1] = "hyphen" /\ F[hi + 3 - lo] = "hyphen"
    /\ \A i \in 1 .. hi + 1 - lo : F[i + 1] = ch[t[lo + i - 1]]

\* Both fields hold the text without the blanks around it, of the same length.
LEMMA FieldsHold ==
    ASSUME NEW t \in Seq(Chars)
    PROVE  LET data == toDataSearch(toLowerCase(normalizationText(t))) IN
           \E lo, hi \in Nat : /\ Solid(t, lo, hi) /\ Holds(data, InVi, t, lo, hi)
                               /\ Holds(toTextNotMarked(data), InEn, t, lo, hi)
<1>0. Len(t) \in Nat /\ \A i \in 1 .. Len(t) : t[i] \in Chars
  OBVIOUS
<1>1. PICK u \in Seq(Chars) :
         /\ u = toLowerCase(normalizationText(t)) /\ Len(u) = Len(t)
         /\ \A i \in 1 .. Len(t) : u[i] = Small[Joined[t[i]]]
  <2>1. PICK v \in Seq(Chars) : /\ v = normalizationText(t) /\ Len(v) = Len(t)
                                /\ \A i \in 1 .. Len(t) : v[i] = Joined[t[i]]
    BY Conversions
  <2>2. /\ toLowerCase(v) \in Seq(Chars) /\ Len(toLowerCase(v)) = Len(t)
        /\ \A i \in 1 .. Len(t) : toLowerCase(v)[i] = Small[v[i]]
    BY <2>1, Conversions
  <2>3. QED
    BY <2>1, <2>2
<1>2. \A i \in 1 .. Len(t) :
         /\ t[i] \in Chars /\ (u[i] \in White <=> t[i] \in White)
         /\ u[i] \in White => InVi[t[i]] = "hyphen"
         /\ u[i] \notin White => InVi[t[i]] = Small[u[i]]
         /\ Plain[InVi[t[i]]] = InEn[t[i]]
  BY <1>0, <1>1, CharSteps
<1>3. PICK lo, hi \in Nat : TrimmedTo(u, lo, hi)
  BY TrimKeeps
<1>4. Solid(t, lo, hi)
  BY <1>1, <1>2, <1>3 DEF TrimmedTo, Solid
<1>5. PICK m \in Seq(Chars) :
         /\ m = Mapped(Trim(u), White, "hyphen") /\ Len(m) = hi + 1 - lo
         /\ \A i \in 1 .. hi + 1 - lo : m[i] = IF u[lo + i - 1] \in White THEN "hyphen" ELSE u[lo + i - 1]
  <2>1. PICK w \in Seq(Chars) : /\ w = Trim(u) /\ Len(w) = hi + 1 - lo
                                /\ \A i \in 1 .. hi + 1 - lo : w[i] = u[lo + i - 1]
    BY <1>3 DEF TrimmedTo
  <2>2. "hyphen" \in Chars
    BY DEF Chars
  <2>3. /\ Mapped(w, White, "hyphen") \in Seq(Chars) /\ Len(Mapped(w, White, "hyphen")) = Len(w)
        /\ \A i \in 1 .. Len(w) : Mapped(w, White, "hyphen")[i] = IF w[i] \in White THEN "hyphen" ELSE w[i]
    <3>1. w \in Seq(Chars)
      BY <2>1
    <3>2. QED
      BY <2>2, <3>1, MappedSeq
  <2>4. QED
    BY <2>1, <2>3
<1>6. PICK n \in Nat : n = hi + 1 - lo
  BY <1>3, <1>4 DEF Solid
<1>7. PICK x \in Seq(Chars) : /\ x = <<"hyphen">> \o m \o <<"hyphen">> /\ Len(x) = n + 2
                              /\ x[1] = "hyphen" /\ x[n + 2] = "hyphen"
                              /\ \A i \in 1 .. n : x[i + 1] = m[i]
  <2>1. m \in Seq(Chars) /\ n \in Nat /\ Len(m) = n
    BY <1>5, <1>6
  <2>2. QED
    BY ONLY <2>1, Between
<1>8. PICK F \in Seq(Chars) :
         /\ F = toDataSearch(u) /\ Len(F) = n + 2
         /\ \A i \in 1 .. n + 2 : F[i] = Small[x[i]]
  <2>1. toDataSearch(u) = toLowerCase(x)
    BY <1>5, <1>7 DEF toDataSearch
  <2>2. x \in Seq(Chars) /\ Len(x) = n + 2
    BY <1>7
  <2>3. /\ toLowerCase(x) \in Seq(Chars) /\ Len(toLowerCase(x)) = n + 2
        /\ \A i \in 1 .. n + 2 : toLowerCase(x)[i] = Small[x[i]]
    <3>1. /\ toLowerCase(x) \in Seq(Chars) /\ Len(toLowerCase(x)) = Len(x)
          /\ \A i \in 1 .. Len(x) : toLowerCase(x)[i] = Small[x[i]]
      BY ONLY <2>2, Conversions, Zenon
    <3>2. QED
      BY <2>2, <3>1
  <2>4. QED
    BY <2>1, <2>3
<1>9. PICK G \in Seq(Chars) :
         /\ G = toTextNotMarked(F) /\ Len(G) = n + 2
         /\ \A i \in 1 .. n + 2 : G[i] = Plain[F[i]]
  <2>1. F \in Seq(Chars) /\ Len(F) = n + 2
    BY <1>8
  <2>2. /\ toTextNotMarked(F) \in Seq(Chars) /\ Len(toTextNotMarked(F)) = n + 2
        /\ \A i \in 1 .. n + 2 : toTextNotMarked(F)[i] = Plain[F[i]]
    <3>1. /\ toTextNotMarked(F) \in Seq(Chars) /\ Len(toTextNotMarked(F)) = Len(F)
          /\ \A i \in 1 .. Len(F) : toTextNotMarked(F)[i] = Plain[F[i]]
      BY ONLY <2>1, Conversions, Zenon
    <3>2. QED
      BY <2>1, <3>1
  <2>3. QED
    BY <2>2
<1>10. Small["hyphen"] = "hyphen" /\ Plain["hyphen"] = "hyphen"
  BY DEF Small, Plain, Chars
<1>11. 1 \in 1 .. n + 2 /\ n + 2 \in 1 .. n + 2 /\ n + 2 = hi + 3 - lo
  BY <1>6
<1>12. ASSUME NEW i \in 1 .. n
       PROVE  F[i + 1] = InVi[t[lo + i - 1]] /\ G[i + 1] = InEn[t[lo + i - 1]]
  <2>1. i + 1 \in 1 .. n + 2
    BY <1>6
  <2>2. lo + i - 1 \in 1 .. Len(t)
    BY <1>0, <1>3, <1>4, <1>6 DEF Solid
  <2>3. PICK j \in 1 .. Len(t) : j = lo + i - 1
    BY <2>2
  <2>4. x[i + 1] = IF u[j] \in White THEN "hyphen" ELSE u[j]
    BY <1>5, <1>6, <1>7, <2>3
  <2>5. F[i + 1] = InVi[t[j]]
    <3>1. F[i + 1] = Small[x[i + 1]]
      BY <1>8, <2>1
    <3>2. CASE u[j] \in White
      BY <1>2, <1>10, <2>4, <3>1, <3>2
    <3>3. CASE u[j] \notin White
      BY <1>2, <2>4, <3>1, <3>3
    <3>4. QED
      BY <3>2, <3>3
  <2>6. QED
    <3>1. G[i + 1] = Plain[F[i + 1]]
      BY <1>9, <2>1
    <3>2. G[i + 1] = InEn[t[j]]
      BY <1>2, <2>5, <3>1
    <3>3. QED
      BY <2>3, <2>5, <3>2
<1>13. Holds(F, InVi, t, lo, hi)
  BY <1>6, <1>7, <1>8, <1>10, <1>11, <1>12 DEF Holds
<1>14. Holds(G, InEn, t, lo, hi)
  BY <1>6, <1>7, <1>8, <1>9, <1>10, <1>11, <1>12 DEF Holds
<1>15. QED
  BY <1>1, <1>4, <1>8, <1>9, <1>13, <1>14

\* A field begins and ends with a hyphen and holds only what the conversion yields.
LEMMA HoldsShape ==
    ASSUME NEW t \in Seq(Chars), NEW ch \in [Chars -> Chars], NEW lo \in Nat, NEW hi \in Nat,
           Solid(t, lo, hi), NEW F, Holds(F, ch, t, lo, hi),
           NEW C, \A c \in Chars : ch[c] \in C, "hyphen" \in C
    PROVE  /\ F \in Seq(Chars) /\ F # <<>> /\ Len(F) = hi + 3 - lo /\ hi + 3 - lo \in Nat
           /\ Head(F) = "hyphen" /\ Last(F) = "hyphen" /\ ToSet(F) \subseteq C
<1>1. PICK n \in Nat : n = hi + 1 - lo /\ hi + 3 - lo = n + 2
  BY DEF Solid
<1>2. /\ F \in Seq(Chars) /\ Len(F) = n + 2 /\ F[1] = "hyphen" /\ F[n + 2] = "hyphen"
      /\ \A i \in 1 .. n : F[i + 1] = ch[t[lo + i - 1]]
  BY <1>1 DEF Holds
<1>3. F # <<>> /\ Head(F) = "hyphen" /\ Last(F) = "hyphen" /\ DOMAIN F = 1 .. n + 2
  BY <1>1, <1>2 DEF Last
<1>4. ASSUME NEW i \in 1 .. n + 2 PROVE F[i] \in C
  <2>1. CASE i = 1 \/ i = n + 2
    BY <1>2, <2>1
  <2>2. CASE ~(i = 1 \/ i = n + 2)
    <3>1. i - 1 \in 1 .. n /\ i = (i - 1) + 1
      BY <1>1, <2>2
    <3>2. PICK j \in 1 .. n : i = j + 1
      BY <3>1
    <3>3. lo + j - 1 \in 1 .. Len(t)
      BY <1>1 DEF Solid
    <3>4. t[lo + j - 1] \in Chars
      BY <3>3
    <3>5. QED
      BY <1>2, <3>2, <3>4
  <2>3. QED
    BY <2>1, <2>2
<1>5. QED
  BY <1>1, <1>2, <1>3, <1>4 DEF ToSet

-----------------------------------------------------------------------------
(***************************************************************************)
(* The words of a keyword.                                                 *)
(***************************************************************************)
\* The word w is k from p to q, in small letters.
WordAt(w, k, p, q) ==
    /\ IsWord(k, p, q) /\ w \in Seq(Chars) /\ Len(w) = q - p + 1
    /\ \A j \in 0 .. q - p : w[j + 1] = Small[k[p + j]]

\* Where a trimmed keyword is cut, and two cuts with none between them.
Cuts(t) == {0, Len(t) + 1} \cup {i \in DOMAIN t : t[i] \in White}
Neighbours(t, a, b) ==
    a \in Cuts(t) /\ b \in Cuts(t) /\ a < b /\ \A i \in Cuts(t) : i <= a \/ b <= i

\* The words of a trimmed keyword are what lies between two neighbouring cuts.
LEMMA WordsBetweenCuts ==
    ASSUME NEW s
    PROVE  \A w : w \in toWords(s) <=>
              \E a, b \in Cuts(Trim(s)) : /\ Neighbours(Trim(s), a, b)
                                          /\ w = SubSeq(Trim(s), a + 1, b - 1)
<1> DEFINE t == Trim(s)
           N == {c \in Cuts(t) \X Cuts(t) : /\ c[1] < c[2]
                                            /\ \A i \in Cuts(t) : i <= c[1] \/ c[2] <= i}
<1>1. toWords(s) = {SubSeq(t, c[1] + 1, c[2] - 1) : c \in N}
  BY DEF toWords, Cuts
<1>2. \A a, b \in Cuts(t) : <<a, b>> \in N <=> Neighbours(t, a, b)
  BY DEF Neighbours
<1>3. \A c \in N : c[1] \in Cuts(t) /\ c[2] \in Cuts(t) /\ Neighbours(t, c[1], c[2])
  BY DEF Neighbours
<1> HIDE DEF t, N
<1>4. ASSUME NEW w \in toWords(s)
      PROVE  \E a, b \in Cuts(t) : Neighbours(t, a, b) /\ w = SubSeq(t, a + 1, b - 1)
  <2>1. PICK c \in N : w = SubSeq(t, c[1] + 1, c[2] - 1)
    BY <1>1, <1>4
  <2>2. QED
    BY <1>3, <2>1
<1>5. ASSUME NEW a \in Cuts(t), NEW b \in Cuts(t), Neighbours(t, a, b)
      PROVE  SubSeq(t, a + 1, b - 1) \in toWords(s)
  <2>1. <<a, b>> \in N /\ <<a, b>>[1] = a /\ <<a, b>>[2] = b
    BY <1>2, <1>5
  <2>2. PICK c \in N : c[1] = a /\ c[2] = b
    BY <2>1
  <2>3. QED
    BY <1>1, <2>2
<1>6. QED
  BY <1>4, <1>5 DEF t

\* A word is cut out of the trimmed keyword where it stands.
LEMMA CutWord ==
    ASSUME NEW k \in Seq(Chars), NEW t \in Seq(Chars), NEW lo \in Nat, NEW a \in Nat, NEW b \in Nat,
           a + 1 <= b - 1, b - 1 <= Len(t), lo + Len(t) - 1 <= Len(k), 1 <= lo,
           \A i \in 1 .. Len(t) : t[i] = Small[k[lo + i - 1]],
           NEW p \in Nat, p = lo + a, NEW q \in Nat, q = lo + b - 2, IsWord(k, p, q)
    PROVE  WordAt(SubSeq(t, a + 1, b - 1), k, p, q)
<1>1. Len(t) \in Nat /\ a + 1 \in Int /\ b - 1 \in Int
  OBVIOUS
<1>2. \A i \in a + 1 .. b - 1 : i \in 1 .. Len(t) /\ t[i] \in Chars
  BY <1>1
<1>3. /\ SubSeq(t, a + 1, b - 1) \in Seq(Chars)
      /\ Len(SubSeq(t, a + 1, b - 1)) = IF a + 1 <= b - 1 THEN b - 1 - (a + 1) + 1 ELSE 0
      /\ \A i \in 1 .. b - 1 - (a + 1) + 1 : SubSeq(t, a + 1, b - 1)[i] = t[a + 1 + i - 1]
  BY <1>1, <1>2, SubSeqProperties
<1>4. b - 1 - (a + 1) + 1 = q - p + 1
  OBVIOUS
<1>5. ASSUME NEW j \in 0 .. q - p PROVE SubSeq(t, a + 1, b - 1)[j + 1] = Small[k[p + j]]
  <2>1. j + 1 \in 1 .. b - 1 - (a + 1) + 1 /\ a + 1 + (j + 1) - 1 = a + 1 + j
    BY <1>4
  <2>2. SubSeq(t, a + 1, b - 1)[j + 1] = t[a + 1 + j]
    BY <1>3, <2>1
  <2>3. a + 1 + j \in 1 .. Len(t) /\ lo + (a + 1 + j) - 1 = p + j
    <3>1. PICK l \in Nat : l = Len(t) /\ b - 1 <= l
      BY <1>1
    <3>2. j \in Nat /\ j <= b - 2 - a
      OBVIOUS
    <3>3. a + 1 + j \in 1 .. l
      BY <3>1, <3>2
    <3>4. lo + (a + 1 + j) - 1 = p + j
      BY <3>2
    <3>5. QED
      BY <3>1, <3>3, <3>4
  <2>4. QED
    BY <2>2, <2>3
<1>6. QED
  BY <1>3, <1>4, <1>5 DEF WordAt

\* The words that toAliasSearch takes out of a keyword are empty ones and those that
\* stand between blanks in it.
LEMMA WordsOfKeyword ==
    ASSUME NEW k \in Seq(Chars)
    PROVE  /\ \A w \in toWords(toLowerCase(k)) :
                 w = <<>> \/ \E p, q \in DOMAIN k : WordAt(w, k, p, q)
           /\ \A p, q \in DOMAIN k : IsWord(k, p, q) =>
                 \E w \in toWords(toLowerCase(k)) : WordAt(w, k, p, q)
<1>0. Len(k) \in Nat /\ DOMAIN k = 1 .. Len(k) /\ \A i \in 1 .. Len(k) : k[i] \in Chars
  OBVIOUS
<1>1. PICK u \in Seq(Chars) : /\ u = toLowerCase(k) /\ Len(u) = Len(k)
                              /\ \A i \in 1 .. Len(k) : u[i] = Small[k[i]]
  BY Conversions
<1>2. \A i \in 1 .. Len(k) : u[i] \in White <=> k[i] \in White
  BY <1>0, <1>1, CharTypes
<1>3. PICK lo, hi \in Nat : TrimmedTo(u, lo, hi)
  BY <1>1, TrimKeeps
<1>4. /\ 1 <= lo /\ lo <= hi + 1 /\ hi <= Len(k)
      /\ \A i \in 1 .. Len(k) : k[i] \notin White => lo <= i /\ i <= hi
  BY <1>1, <1>2, <1>3 DEF TrimmedTo, Solid
<1>5. PICK n \in Nat : n = hi + 1 - lo
  BY <1>3, <1>4
<1>6. PICK t \in Seq(Chars) : /\ t = Trim(u) /\ Len(t) = n /\ DOMAIN t = 1 .. n
                              /\ \A i \in 1 .. n : t[i] = u[lo + i - 1]
  BY <1>3, <1>5 DEF TrimmedTo
<1>7. \A i \in 1 .. n : lo + i - 1 \in 1 .. Len(k) /\ t[i] \in Chars
  BY <1>0, <1>3, <1>4, <1>5, <1>6
<1>8. Cuts(t) = {0, n + 1} \cup {i \in 1 .. n : k[lo + i - 1] \in White}
  BY <1>2, <1>6, <1>7 DEF Cuts
<1>9. \A i \in 1 .. n : t[i] = Small[k[lo + i - 1]]
  BY <1>1, <1>6, <1>7
<1>10. ASSUME NEW a \in Cuts(t), NEW b \in Cuts(t), Neighbours(t, a, b)
      PROVE  \/ SubSeq(t, a + 1, b - 1) = <<>>
             \/ \E p, q \in DOMAIN k : WordAt(SubSeq(t, a + 1, b - 1), k, p, q)
  <2>1. a \in 0 .. n + 1 /\ b \in 0 .. n + 1 /\ a < b /\ \A i \in Cuts(t) : i <= a \/ b <= i
    BY <1>5, <1>8, <1>10 DEF Neighbours
  <2>2. CASE a + 1 > b - 1
    <3>1. a + 1 \in Int /\ b - 1 \in Int /\ b - 1 < a + 1
      BY <2>1, <2>2
    <3>2. QED
      BY <3>1, SubSeqEmpty
  <2>3. CASE a + 1 <= b - 1
    <3>1. PICK p \in Nat, q \in Nat : p = lo + a /\ q = lo + b - 2
      BY <1>3, <1>4, <2>1, <2>3
    <3>2. p \in 1 .. Len(k) /\ q \in 1 .. Len(k) /\ p <= q
      BY <1>0, <1>3, <1>4, <1>5, <2>1, <2>3, <3>1
    <3>3. ASSUME NEW i \in p .. q PROVE k[i] \notin White
      <4>1. i - p + a + 1 \in 1 .. n /\ lo + (i - p + a + 1) - 1 = i
        BY <1>3, <1>5, <2>1, <3>1, <3>2
      <4>2. PICK m \in 1 .. n : m = i - p + a + 1
        BY <4>1
      <4>3. a < m /\ m < b
        BY <1>3, <2>1, <3>1, <3>2, <4>2
      <4>4. m \notin Cuts(t)
        BY <2>1, <4>3
      <4>5. QED
        BY <1>8, <4>1, <4>2, <4>4
    <3>4. p > 1 => k[p - 1] \in White
      <4>1. CASE a = 0
        BY <1>0, <1>3, <1>4, <3>1, <3>2, <4>1
      <4>2. CASE a # 0
        <5>1. a \in 1 .. n
          BY <1>5, <2>1, <4>2
        <5>2. k[lo + a - 1] \in White
          BY <1>5, <1>8, <1>10, <5>1
        <5>3. p - 1 = lo + a - 1
          BY <1>3, <2>1, <3>1
        <5>4. QED
          BY <5>2, <5>3
      <4>3. QED
        BY <4>1, <4>2
    <3>5. q < Len(k) => k[q + 1] \in White
      <4>1. CASE b = n + 1
        BY <1>0, <1>3, <1>4, <1>5, <3>1, <3>2, <4>1
      <4>2. CASE b # n + 1
        <5>1. b \in 1 .. n
          BY <1>5, <2>1, <4>2
        <5>2. k[lo + b - 1] \in White
          BY <1>5, <1>8, <1>10, <5>1
        <5>3. q + 1 = lo + b - 1
          BY <1>3, <2>1, <3>1
        <5>4. QED
          BY <5>2, <5>3
      <4>3. QED
        BY <4>1, <4>2
    <3>6. IsWord(k, p, q)
      BY <3>2, <3>3, <3>4, <3>5 DEF IsWord
    <3>7. WordAt(SubSeq(t, a + 1, b - 1), k, p, q)
      <4>1. /\ Len(t) = n /\ b - 1 <= n /\ lo + n - 1 <= Len(k) /\ t \in Seq(Chars)
            /\ a \in Nat /\ b \in Nat /\ lo \in Nat /\ 1 <= lo
        BY <1>0, <1>3, <1>4, <1>5, <1>6, <2>1
      <4>2. /\ k \in Seq(Chars) /\ a + 1 <= b - 1 /\ lo + Len(t) - 1 <= Len(k)
            /\ p \in Nat /\ q \in Nat /\ p = lo + a /\ q = lo + b - 2
            /\ \A i \in 1 .. Len(t) : t[i] = Small[k[lo + i - 1]]
        BY <1>9, <2>3, <3>1, <4>1
      <4>3. QED
        BY ONLY <3>6, <4>1, <4>2, CutWord
    <3>8. QED
      BY <1>0, <3>2, <3>7
  <2>4. a + 1 > b - 1 \/ a + 1 <= b - 1
    <3>1. a \in Int /\ b \in Int
      BY <2>1
    <3>2. QED
      BY ONLY <3>1
  <2>5. QED
    BY <2>2, <2>3, <2>4
<1>11. ASSUME NEW p \in 1 .. Len(k), NEW q \in 1 .. Len(k), IsWord(k, p, q)
       PROVE  \E w \in toWords(u) : WordAt(w, k, p, q)
  <2>1. p <= q /\ \A i \in p .. q : i \in 1 .. Len(k) /\ k[i] \notin White
    BY <1>0, <1>11 DEF IsWord
  <2>2. lo <= p /\ q <= hi
    BY <1>0, <1>4, <2>1
  <2>3. PICK a, b \in Nat : /\ a = p - lo /\ b = q - lo + 2 /\ a + 1 <= b - 1 /\ b <= n + 1
                            /\ p = lo + a /\ q = lo + b - 2
    BY <1>0, <1>3, <1>5, <2>1, <2>2
  <2>4. a \in Cuts(t)
    <3>1. CASE a = 0
      BY <1>8, <3>1
    <3>2. CASE a # 0
      <4>1. a \in 1 .. n /\ p > 1 /\ lo + a - 1 = p - 1
        BY <1>3, <1>4, <1>5, <2>3, <3>2
      <4>2. k[p - 1] \in White
        BY <1>11, <4>1 DEF IsWord
      <4>3. QED
        BY <1>8, <4>1, <4>2
    <3>3. QED
      BY <3>1, <3>2
  <2>5. b \in Cuts(t)
    <3>1. CASE b = n + 1
      BY <1>8, <3>1
    <3>2. CASE b # n + 1
      <4>1. b \in 1 .. n /\ lo + b - 1 = q + 1
        BY <1>3, <1>5, <2>3, <3>2
      <4>2. q < Len(k)
        BY <1>0, <1>3, <1>4, <1>5, <4>1
      <4>3. k[q + 1] \in White
        BY <1>11, <4>2 DEF IsWord
      <4>4. QED
        BY <1>8, <4>1, <4>3
    <3>3. QED
      BY <3>1, <3>2
  <2>6. Neighbours(t, a, b)
    <3>1. ASSUME NEW i \in Cuts(t), a < i, i < b PROVE FALSE
      <4>1. i \in 1 .. n
        BY <1>5, <1>8, <2>3, <3>1
      <4>2. k[lo + i - 1] \in White
        BY <1>5, <1>8, <3>1, <4>1
      <4>3. lo + i - 1 \in p .. q
        BY <1>3, <2>3, <3>1, <4>1
      <4>4. QED
        BY <2>1, <4>2, <4>3
    <3>2. a < b /\ Cuts(t) \subseteq Nat
      BY <1>5, <1>8, <2>3
    <3>3. ASSUME NEW i \in Cuts(t) PROVE i <= a \/ b <= i
      <4>1. i \in Nat /\ a \in Nat /\ b \in Nat
        BY <2>3, <3>2
      <4>2. ~(a < i /\ i < b)
        BY <3>1
      <4>3. QED
        BY ONLY <4>1, <4>2
    <3>4. QED
      BY <2>4, <2>5, <3>2, <3>3 DEF Neighbours
  <2>7. SubSeq(t, a + 1, b - 1) \in toWords(u)
    BY <1>6, <2>4, <2>5, <2>6, WordsBetweenCuts
  <2>8. WordAt(SubSeq(t, a + 1, b - 1), k, p, q)
    <3>1. /\ Len(t) = n /\ b - 1 <= n /\ lo + n - 1 <= Len(k) /\ t \in Seq(Chars)
          /\ lo \in Nat /\ 1 <= lo /\ p \in Nat /\ q \in Nat
      <4>1. Len(t) = n /\ t \in Seq(Chars)
        BY <1>6
      <4>2. lo \in Nat /\ 1 <= lo /\ p \in Nat /\ q \in Nat
        BY <1>0, <1>4
      <4>3. b - 1 <= n
        BY <1>5, <2>3
      <4>4. lo + n - 1 <= Len(k)
        <5>1. Len(k) \in Nat /\ lo \in Nat /\ hi \in Nat
          BY <1>0
        <5>2. QED
          BY ONLY <1>4, <1>5, <5>1
      <4>5. QED
        BY <4>1, <4>2, <4>3, <4>4
    <3>2. /\ k \in Seq(Chars) /\ a + 1 <= b - 1 /\ lo + Len(t) - 1 <= Len(k)
          /\ a \in Nat /\ b \in Nat /\ b - 1 <= Len(t) /\ p = lo + a /\ q = lo + b - 2
          /\ \A i \in 1 .. Len(t) : t[i] = Small[k[lo + i - 1]]
      <4>1. \A i \in 1 .. Len(t) : t[i] = Small[k[lo + i - 1]]
        BY <1>9, <3>1
      <4>2. lo + Len(t) - 1 <= Len(k) /\ b - 1 <= Len(t)
        BY ONLY <3>1
      <4>3. QED
        BY <2>3, <4>1, <4>2
    <3>3. IsWord(k, p, q)
      BY <1>11
    <3>4. QED
      BY ONLY <3>1, <3>2, <3>3, CutWord
  <2>9. QED
    BY <2>7, <2>8
<1>12. ASSUME NEW w \in toWords(u) PROVE w = <<>> \/ \E p, q \in DOMAIN k : WordAt(w, k, p, q)
  <2>1. PICK a, b \in Cuts(t) : Neighbours(t, a, b) /\ w = SubSeq(t, a + 1, b - 1)
    BY <1>6, <1>12, WordsBetweenCuts
  <2>2. QED
    BY <1>10, <2>1
<1>13. QED
  BY <1>0, <1>1, <1>11, <1>12

-----------------------------------------------------------------------------
(***************************************************************************)
(* The match of a wildcard.                                                *)
(***************************************************************************)
\* The sequence g, of length m, stands in F, of length l.
StandsIn(g, m, F, l) == \E e \in Nat : e + m <= l /\ \A i \in 1 .. m : F[e + i] = g[i]

\* A sequence is part of another one where all its elements are.
LEMMA PartOf ==
    ASSUME NEW F \in Seq(Chars), NEW l \in Nat, Len(F) = l,
           NEW g \in Seq(Chars), NEW m \in Nat, Len(g) = m, 1 <= m
    PROVE  g \in SubSeqs(F) <=> StandsIn(g, m, F, l)
<1>0. m = Len(g) /\ l = Len(F)
  OBVIOUS
<1>1. ASSUME g \in SubSeqs(F)
      PROVE  \E e \in Nat : e + m <= l /\ \A i \in 1 .. m : F[e + i] = g[i]
  <2>1. PICK e, j \in 0 .. l : g = SubSeq(F, e + 1, j)
    BY <1>0, <1>1 DEF SubSeqs
  <2>2. \A i \in e + 1 .. j : F[i] \in Chars
    BY <1>0
  <2>3. e + 1 \in Int /\ j \in Int
    BY <1>0
  <2>4. /\ Len(g) = IF e + 1 <= j THEN j - (e + 1) + 1 ELSE 0
        /\ \A i \in 1 .. j - (e + 1) + 1 : g[i] = F[e + 1 + i - 1]
    BY <2>1, <2>2, <2>3, SubSeqProperties
  <2>5. m = j - (e + 1) + 1 /\ e + m = j /\ e \in Nat
    BY <1>0, <2>3, <2>4
  <2>6. ASSUME NEW i \in 1 .. m PROVE F[e + i] = g[i]
    <3>1. e + 1 + i - 1 = e + i
      BY <2>5
    <3>2. QED
      BY <2>4, <2>5, <3>1
  <2>7. e + m <= l
    BY <1>0, <2>5
  <2>8. QED
    BY <2>5, <2>6, <2>7
<1>2. ASSUME NEW e \in Nat, e + m <= l, \A i \in 1 .. m : F[e + i] = g[i]
      PROVE  g \in SubSeqs(F)
  <2>1. e + 1 \in Int /\ e + m \in Int /\ e + m - (e + 1) + 1 = m /\ e + 1 <= e + m
    BY <1>0
  <2>2. \A i \in e + 1 .. e + m : F[i] \in Chars
    BY <1>0, <1>2
  <2>3. /\ SubSeq(F, e + 1, e + m) \in Seq(Chars)
        /\ Len(SubSeq(F, e + 1, e + m)) = IF e + 1 <= e + m THEN e + m - (e + 1) + 1 ELSE 0
        /\ \A i \in 1 .. e + m - (e + 1) + 1 : SubSeq(F, e + 1, e + m)[i] = F[e + 1 + i - 1]
    BY <2>1, <2>2, SubSeqProperties
  <2>4. PICK h : h = SubSeq(F, e + 1, e + m)
    OBVIOUS
  <2>5. h \in Seq(Chars) /\ Len(h) = m /\ \A i \in 1 .. m : h[i] = F[e + 1 + i - 1]
    BY <2>1, <2>3, <2>4
  <2>6. ASSUME NEW i \in 1 .. m PROVE h[i] = g[i]
    <3>1. e + 1 + i - 1 = e + i
      OBVIOUS
    <3>2. QED
      BY <1>2, <2>5, <3>1
  <2>7. h = g
    BY <1>0, <2>5, <2>6, SeqEqual
  <2>8. e \in 0 .. Len(F) /\ e + m \in 0 .. Len(F)
    BY <1>0, <1>2
  <2>9. QED
    BY <2>4, <2>7, <2>8 DEF SubSeqs
<1>3. QED
  BY <1>1, <1>2 DEF StandsIn

\* The word w, of length m, begins somewhere in the text t as ch converts it.
Occurs(w, m, ch, t) ==
    \E s \in DOMAIN t : /\ Begins(t, s) /\ s + m - 1 <= Len(t)
                        /\ \A j \in 0 .. m - 1 : ch[t[s + j]] = w[j + 1]

\* A wildcard "*-word*" matches a field if and only if the word begins somewhere in the
\* text, as the field has it.
LEMMA WildcardFound ==
    ASSUME NEW t \in Seq(Chars), NEW ch \in [Chars -> Chars],
           \A c \in Chars : ch[c] = "hyphen" <=> c \in White \cup {"hyphen"},
           NEW lo \in Nat, NEW hi \in Nat, Solid(t, lo, hi), NEW F, Holds(F, ch, t, lo, hi),
           NEW w \in Seq(Chars), NEW m \in Nat, Len(w) = m, 1 <= m,
           \A i \in 1 .. m : w[i] # "hyphen"
    PROVE  <<"hyphen">> \o w \in SubSeqs(F) <=> Occurs(w, m, ch, t)
<1>0. Len(t) \in Nat /\ DOMAIN t = 1 .. Len(t) /\ \A i \in 1 .. Len(t) : t[i] \in Chars
  OBVIOUS
<1>1. /\ 1 <= lo /\ lo <= hi + 1 /\ hi <= Len(t)
      /\ \A i \in 1 .. Len(t) : t[i] \notin White => lo <= i /\ i <= hi
  BY DEF Solid
<1>2. PICK n \in Nat : n = hi + 1 - lo /\ hi + 3 - lo = n + 2
  BY <1>1
<1>3. /\ F \in Seq(Chars) /\ Len(F) = n + 2 /\ F[1] = "hyphen" /\ F[n + 2] = "hyphen"
      /\ \A i \in 1 .. n : F[i + 1] = ch[t[lo + i - 1]]
  BY <1>2 DEF Holds
<1>4. PICK g \in Seq(Chars) : /\ g = <<"hyphen">> \o w /\ Len(g) = m + 1 /\ g[1] = "hyphen"
                              /\ \A i \in 1 .. m : g[i + 1] = w[i]
  <2>1. w \in Seq(Chars) /\ m \in Nat /\ Len(w) = m
    OBVIOUS
  <2>2. QED
    BY ONLY <2>1, HyphenFirst
<1>5. g \in SubSeqs(F) <=> \E e \in Nat : /\ e + (m + 1) <= n + 2
                                          /\ \A i \in 1 .. m + 1 : F[e + i] = g[i]
  <2>1. F \in Seq(Chars) /\ Len(F) = n + 2 /\ n + 2 \in Nat
    BY <1>2, <1>3
  <2>2. g \in Seq(Chars) /\ Len(g) = m + 1 /\ m + 1 \in Nat /\ 1 <= m + 1
    BY <1>4
  <2>3. g \in SubSeqs(F) <=> StandsIn(g, m + 1, F, n + 2)
    BY <2>1, <2>2, PartOf
  <2>4. QED
    BY <2>3 DEF StandsIn
<1>6. ASSUME NEW e \in Nat, e + (m + 1) <= n + 2, \A i \in 1 .. m + 1 : F[e + i] = g[i]
      PROVE  \E s \in DOMAIN t : /\ Begins(t, s) /\ s + m - 1 <= Len(t)
                                 /\ \A j \in 0 .. m - 1 : ch[t[s + j]] = w[j + 1]
  <2>1. \A i \in 1 .. m : F[e + (i + 1)] = w[i]
    <3>1. \A i \in 1 .. m : i + 1 \in 1 .. m + 1
      OBVIOUS
    <3>2. QED
      BY <1>4, <1>6, <3>1
  <2>2. e + m <= n
    <3>1. SUFFICES ASSUME e + (m + 1) = n + 2 PROVE FALSE
      BY <1>2, <1>6
    <3>2. F[n + 2] = w[m]
      <4>1. m \in 1 .. m
        OBVIOUS
      <4>2. F[e + (m + 1)] = w[m]
        BY <2>1, <4>1
      <4>3. QED
        BY <3>1, <4>2
    <3>3. QED
      BY <1>3, <3>2
  <2>3. PICK s \in Nat : s = lo + e
    OBVIOUS
  <2>4. s \in 1 .. Len(t) /\ s + m - 1 <= hi
    BY <1>0, <1>1, <1>2, <2>2, <2>3
  <2>5. ASSUME NEW j \in 0 .. m - 1 PROVE ch[t[s + j]] = w[j + 1]
    <3>1. e + j + 1 \in 1 .. n /\ lo + (e + j + 1) - 1 = s + j
      BY <1>2, <2>2, <2>3
    <3>2. j + 1 \in 1 .. m /\ e + ((j + 1) + 1) = (e + j + 1) + 1
      OBVIOUS
    <3>3. F[(e + j + 1) + 1] = ch[t[s + j]]
      BY <1>3, <3>1
    <3>4. F[(e + j + 1) + 1] = w[j + 1]
      BY <2>1, <3>2
    <3>5. QED
      BY <3>3, <3>4
  <2>6. s > 1 => t[s - 1] \in White \cup {"hyphen"}
    <3>1. CASE e = 0
      BY <1>0, <1>1, <2>3, <2>4, <3>1
    <3>2. CASE e # 0
      <4>1. e \in 1 .. n /\ lo + e - 1 = s - 1 /\ s - 1 \in 1 .. Len(t)
        BY <1>0, <1>1, <1>2, <2>2, <2>3, <2>4, <3>2
      <4>2. F[e + 1] = "hyphen"
        BY <1>4, <1>6
      <4>3. F[e + 1] = ch[t[s - 1]]
        BY <1>3, <4>1
      <4>4. t[s - 1] \in Chars
        BY <4>1
      <4>5. QED
        BY <4>2, <4>3, <4>4
    <3>3. QED
      BY <3>1, <3>2
  <2>7. s + m - 1 <= Len(t)
    BY <1>0, <1>1, <2>4
  <2>8. QED
    BY <1>0, <2>4, <2>5, <2>6, <2>7 DEF Begins
<1>7. ASSUME NEW s \in 1 .. Len(t), Begins(t, s), s + m - 1 <= Len(t),
             \A j \in 0 .. m - 1 : ch[t[s + j]] = w[j + 1]
      PROVE  \E e \in Nat : e + (m + 1) <= n + 2 /\ \A i \in 1 .. m + 1 : F[e + i] = g[i]
  <2>1. ASSUME NEW j \in 0 .. m - 1 PROVE lo <= s + j /\ s + j <= hi
    <3>1. s + j \in 1 .. Len(t) /\ j + 1 \in 1 .. m
      BY <1>0, <1>7
    <3>2. t[s + j] \in Chars /\ ch[t[s + j]] # "hyphen"
      <4>1. ch[t[s + j]] = w[j + 1] /\ w[j + 1] # "hyphen"
        BY <1>7, <3>1
      <4>2. QED
        BY <1>0, <3>1, <4>1
    <3>3. QED
      BY <1>1, <3>1, <3>2
  <2>2. lo <= s /\ s + (m - 1) <= hi
    <3>1. 0 \in 0 .. m - 1 /\ m - 1 \in 0 .. m - 1 /\ s + 0 = s
      OBVIOUS
    <3>2. lo <= s + 0 /\ s + (m - 1) <= hi
      BY <2>1, <3>1
    <3>3. QED
      BY <3>1, <3>2
  <2>3. PICK e \in Nat : e = s - lo /\ e + m <= n /\ s = lo + e
    BY <1>2, <2>2
  <2>4. F[e + 1] = "hyphen"
    <3>1. CASE e = 0
      BY <1>3, <3>1
    <3>2. CASE e # 0
      <4>1. e \in 1 .. n /\ lo + e - 1 = s - 1 /\ s > 1
        BY <1>1, <1>2, <2>3, <3>2
      <4>2. t[s - 1] \in White \cup {"hyphen"}
        BY <1>7, <4>1 DEF Begins
      <4>3. ch[t[s - 1]] = "hyphen"
        BY <4>2 DEF Chars, White
      <4>4. QED
        BY <1>3, <4>1, <4>3
    <3>3. QED
      BY <3>1, <3>2
  <2>5. ASSUME NEW i \in 1 .. m PROVE F[e + (i + 1)] = w[i]
    <3>1. e + i \in 1 .. n /\ lo + (e + i) - 1 = s + (i - 1) /\ e + (i + 1) = (e + i) + 1
      BY <1>2, <2>3
    <3>2. i - 1 \in 0 .. m - 1 /\ (i - 1) + 1 = i
      OBVIOUS
    <3>3. F[(e + i) + 1] = ch[t[s + (i - 1)]]
      BY <1>3, <3>1
    <3>4. ch[t[s + (i - 1)]] = w[i]
      BY <1>7, <3>2
    <3>5. QED
      BY <3>1, <3>3, <3>4
  <2>6. ASSUME NEW i \in 1 .. m + 1 PROVE F[e + i] = g[i]
    <3>1. CASE i = 1
      BY <1>4, <2>4, <3>1
    <3>2. CASE i # 1
      <4>1. PICK j \in 1 .. m : i = j + 1
        <5>1. i - 1 \in 1 .. m /\ i = (i - 1) + 1
          BY <3>2
        <5>2. QED
          BY <5>1
      <4>2. QED
        BY <1>4, <2>5, <4>1
    <3>3. QED
      BY <3>1, <3>2
  <2>7. e + (m + 1) <= n + 2
    BY <1>2, <2>3
  <2>8. QED
    BY <2>3, <2>6, <2>7
<1>8. QED
  BY <1>0, <1>4, <1>5, <1>6, <1>7 DEF Occurs

-----------------------------------------------------------------------------
(***************************************************************************)
(* The invariants of the search.                                           *)
(***************************************************************************)
Entries == [title : Titles, body : Bodies, readable : BOOLEAN]
NoIndex == [dataSearchVi |-> <<>>, dataSearchEn |-> <<>>]

\* What Solr answers to a keyword once the post is indexed.
Matches(p, k) ==
    toAliasSearch(k) \subseteq SubSeqs(IF isVietnameseWord(k) THEN SearchFields(p).dataSearchVi
                                      ELSE SearchFields(p).dataSearchEn)

SearchInv ==
    /\ post \in Entries
    /\ index \in {NoIndex, SearchFields(post)}
    /\ answer \in {"unasked", "hit", "empty"} /\ keyword \in Keywords \cup {<<>>}
    /\ answer # "unasked" =>
          /\ keyword \in Keywords
          /\ "syntax" \notin ToSet(keyword) => (answer = "hit" <=> Matches(post, keyword))

\* The text of a post is a sequence of characters, from which its fields are made.
LEMMA FieldsOfPost ==
    ASSUME NEW p \in Entries
    PROVE  /\ Text(p) \in Seq(Chars)
           /\ \E lo, hi \in Nat : /\ Solid(Text(p), lo, hi)
                                  /\ Holds(SearchFields(p).dataSearchVi, InVi, Text(p), lo, hi)
                                  /\ Holds(SearchFields(p).dataSearchEn, InEn, Text(p), lo, hi)
<1>1. p.title \in Seq(Chars) /\ p.body \in Seq(Chars)
  BY SearchAssumption DEF SearchAssumption, Entries
<1>2. Trim(Mapped(p.body, {"nbsp"}, "space")) \in Seq(Chars) /\ "space" \in Chars
  <2>1. "space" \in Chars
    BY DEF Chars
  <2>2. PICK b \in Seq(Chars) : b = Mapped(p.body, {"nbsp"}, "space")
    BY <1>1, <2>1, MappedSeq
  <2>3. Trim(b) \in Seq(Chars)
    BY TrimKeeps DEF TrimmedTo
  <2>4. QED
    BY <2>1, <2>2, <2>3
<1>3. Text(p) = p.title \o <<"space">> \o extractHtmlContent(p)
  <2>1. Mapped(p.body, {"nbsp"}, "space")
           = [i \in DOMAIN p.body |-> IF p.body[i] = "nbsp" THEN "space" ELSE p.body[i]]
    BY DEF Mapped
  <2>2. QED
    BY <2>1 DEF Text, extractHtmlContent
<1>4. extractHtmlContent(p) \in Seq(Chars)
  BY <1>2 DEF extractHtmlContent
<1>5. Text(p) \in Seq(Chars)
  BY <1>1, <1>2, <1>3, <1>4
<1>6. /\ SearchFields(p).dataSearchVi = toDataSearch(toLowerCase(normalizationText(Text(p))))
      /\ SearchFields(p).dataSearchEn =
            toTextNotMarked(toDataSearch(toLowerCase(normalizationText(Text(p)))))
  BY <1>3 DEF SearchFields
<1>7. QED
  BY <1>5, <1>6, FieldsHold

\* Both fields begin and end with a hyphen and hold no other characters than they may.
LEMMA ShapeOfFields ==
    ASSUME NEW p \in Entries
    PROVE  LET i == SearchFields(p) IN
           /\ i.dataSearchVi # <<>> /\ Head(i.dataSearchVi) = "hyphen" /\ Last(i.dataSearchVi) = "hyphen"
           /\ Len(i.dataSearchVi) = Len(i.dataSearchEn)
           /\ ToSet(i.dataSearchVi) \subseteq {"a", "b", "a_mark", "i_foreign", "hyphen", "nbsp", "comma", "syntax"}
           /\ ToSet(i.dataSearchEn) \subseteq {"a", "b", "i_foreign", "hyphen", "nbsp", "comma", "syntax"}
<1>1. PICK lo, hi \in Nat : /\ Solid(Text(p), lo, hi)
                            /\ Holds(SearchFields(p).dataSearchVi, InVi, Text(p), lo, hi)
                            /\ Holds(SearchFields(p).dataSearchEn, InEn, Text(p), lo, hi)
  BY FieldsOfPost
<1>2. PICK t \in Seq(Chars) : t = Text(p)
  BY FieldsOfPost
<1>3. PICK V, E : V = SearchFields(p).dataSearchVi /\ E = SearchFields(p).dataSearchEn
  OBVIOUS
<1>4. Solid(t, lo, hi) /\ Holds(V, InVi, t, lo, hi) /\ Holds(E, InEn, t, lo, hi)
  BY <1>1, <1>2, <1>3
<1> DEFINE CV == {"a", "b", "a_mark", "i_foreign", "hyphen", "nbsp", "comma", "syntax"}
           CE == {"a", "b", "i_foreign", "hyphen", "nbsp", "comma", "syntax"}
<1>5. /\ \A c \in Chars : InVi[c] \in CV /\ InEn[c] \in CE
      /\ InVi \in [Chars -> Chars] /\ InEn \in [Chars -> Chars]
      /\ "hyphen" \in CV /\ "hyphen" \in CE
  BY CharTypes
<1> HIDE DEF CV, CE
<1>6. /\ V # <<>> /\ Len(V) = hi + 3 - lo /\ Head(V) = "hyphen" /\ Last(V) = "hyphen"
      /\ ToSet(V) \subseteq CV
  BY <1>1, <1>2, <1>4, <1>5, HoldsShape
<1>7. Len(E) = hi + 3 - lo /\ ToSet(E) \subseteq CE
  BY <1>1, <1>2, <1>4, <1>5, HoldsShape
<1>8. QED
  BY <1>3, <1>6, <1>7 DEF CV, CE

\* The invariant holds at the start.
LEMMA SearchInvInit == SearchInit => SearchInv
  BY DEF SearchInit, SearchInv, Entries, NoIndex

\* Every step keeps it.
LEMMA SearchInvNext == SearchInv /\ [SearchNext]_searchVars => SearchInv'
<1> SUFFICES ASSUME SearchInv, [SearchNext]_searchVars PROVE SearchInv'
  OBVIOUS
<1>1. CASE UNCHANGED searchVars
  BY <1>1 DEF searchVars, SearchInv
<1>2. CASE IndexPost
  BY <1>2 DEF IndexPost, SearchInv
<1>3. ASSUME NEW k \in Keywords, Search(k) PROVE SearchInv'
  <2>1. index = SearchFields(post)
    BY <1>3 DEF Search, SearchInv, NoIndex
  <2>2. /\ answer' \in {"hit", "empty"}
        /\ "syntax" \notin ToSet(k) => (answer' = "hit" <=> Matches(post, k))
    BY <1>3, <2>1 DEF Search, Answers, Matches
  <2>3. UNCHANGED <<post, index>> /\ keyword' = k
    BY <1>3 DEF Search
  <2>4. QED
    BY <2>2, <2>3 DEF SearchInv
<1>4. QED
  BY <1>1, <1>2, <1>3 DEF SearchNext

\* It holds in every state.
LEMMA SearchInvCorrect == SearchSpec => []SearchInv
  BY SearchInvInit, SearchInvNext, PTL DEF SearchSpec

\* Whatever is typed, the fields begin and end with a hyphen and hold nothing that
\* normalization takes out, and the other variables keep their types.
THEOREM SearchTypeCorrect == SearchSpec => []SearchTypeOK
<1>1. SearchInv => SearchTypeOK
  <2> SUFFICES ASSUME SearchInv PROVE SearchTypeOK
    OBVIOUS
  <2>1. index.dataSearchVi # <<>> => index = SearchFields(post)
    BY DEF SearchInv, NoIndex
  <2>2. QED
    BY <2>1, ShapeOfFields DEF SearchInv, SearchTypeOK, Entries
<1>2. QED
  BY <1>1, SearchInvCorrect, PTL

-----------------------------------------------------------------------------
(***************************************************************************)
(* The match of a keyword.                                                 *)
(***************************************************************************)
Usual(k) == ToSet(k) \cap {"syntax", "hyphen", "a_comb", "i_fcomb"} = {}

\* The word of a keyword from a to b begins a word of the post's text.
FoundAt(p, k, a, b) ==
    \E s \in DOMAIN Text(p) :
       /\ Begins(Text(p), s) /\ s + b - a <= Len(Text(p))
       /\ \A j \in 0 .. b - a :
             /\ Letter(Text(p)[s + j]) = Letter(k[a + j])
             /\ Exact(k) => (Text(p)[s + j] \in Marked <=> k[a + j] \in Marked)

\* One word of a keyword matches if and only if it begins a word of the text.
LEMMA WordFound ==
    ASSUME NEW p \in Entries, NEW k \in Seq(Chars), Usual(k), k # <<>>,
           NEW w, NEW a \in DOMAIN k, NEW b \in DOMAIN k, WordAt(w, k, a, b),
           NEW F, F = IF isVietnameseWord(k) THEN SearchFields(p).dataSearchVi
                      ELSE SearchFields(p).dataSearchEn
    PROVE  <<"hyphen">> \o w \in SubSeqs(F) <=> FoundAt(p, k, a, b)
<1> DEFINE usual == {"a", "A", "b", "a_mark", "A_mark", "i_foreign", "I_foreign", "nbsp", "comma"}
           exact == Exact(k)
<1>0. Len(k) \in Nat /\ DOMAIN k = 1 .. Len(k)
  OBVIOUS
<1>1. \A i \in 1 .. Len(k) : k[i] \in usual \cup White
  <2>1. \A i \in 1 .. Len(k) : k[i] \in Chars /\ k[i] \notin {"syntax", "hyphen", "a_comb", "i_fcomb"}
    <3>1. \A i \in 1 .. Len(k) : k[i] \in Chars /\ k[i] \in ToSet(k)
      BY <1>0 DEF ToSet
    <3>2. QED
      BY <3>1 DEF Usual
  <2>2. QED
    BY <2>1 DEF Chars, White
<1>2. isVietnameseWord(k) <=> exact
  BY <1>0 DEF isVietnameseWord, Exact
<1>3. PICK lo, hi \in Nat : /\ Solid(Text(p), lo, hi)
                            /\ Holds(SearchFields(p).dataSearchVi, InVi, Text(p), lo, hi)
                            /\ Holds(SearchFields(p).dataSearchEn, InEn, Text(p), lo, hi)
  BY FieldsOfPost
<1>4. PICK t \in Seq(Chars) : t = Text(p)
  BY FieldsOfPost
<1>5. PICK ch \in [Chars -> Chars] :
         /\ Holds(F, ch, t, lo, hi)
         /\ \A c \in Chars : ch[c] = "hyphen" <=> c \in White \cup {"hyphen"}
         /\ exact => ch = InVi
         /\ ~exact => ch = InEn
  <2>1. CASE exact
    BY <1>2, <1>3, <1>4, <2>1, CharTypes
  <2>2. CASE ~exact
    BY <1>2, <1>3, <1>4, <2>2, CharTypes
  <2>3. QED
    BY <2>1, <2>2
<1>6. PICK m \in Nat : m = b - a + 1 /\ 1 <= m /\ b - a = m - 1
  BY <1>0 DEF WordAt, IsWord
<1>7. ASSUME NEW j \in 0 .. m - 1
      PROVE  a + j \in 1 .. Len(k) /\ k[a + j] \in usual /\ w[j + 1] = Small[k[a + j]]
  <2>1. a + j \in a .. b /\ j \in 0 .. b - a /\ a + j \in 1 .. Len(k)
    BY <1>0, <1>6
  <2>2. k[a + j] \notin White /\ w[j + 1] = Small[k[a + j]]
    BY <2>1 DEF WordAt, IsWord
  <2>3. QED
    BY <1>1, <2>1, <2>2
<1>8. w \in Seq(Chars) /\ Len(w) = m
  BY <1>6 DEF WordAt
<1>9. ASSUME NEW i \in 1 .. m PROVE w[i] # "hyphen"
  <2>1. i - 1 \in 0 .. m - 1 /\ (i - 1) + 1 = i
    OBVIOUS
  <2>2. w[i] = Small[k[a + (i - 1)]] /\ k[a + (i - 1)] \in usual
    BY <1>7, <2>1
  <2>3. \A c \in usual : c \in Chars /\ c # "hyphen"
    BY DEF Chars
  <2>4. QED
    BY <2>2, <2>3, CharTypes
<1>10. Solid(t, lo, hi)
  BY <1>3, <1>4
<1>11. <<"hyphen">> \o w \in SubSeqs(F) <=>
          \E s \in DOMAIN t : /\ Begins(t, s) /\ s + m - 1 <= Len(t)
                              /\ \A j \in 0 .. m - 1 : ch[t[s + j]] = w[j + 1]
  <2>1. lo \in Nat /\ hi \in Nat /\ m \in Nat /\ 1 <= m /\ t \in Seq(Chars)
    BY <1>3, <1>4, <1>6
  <2>2. /\ ch \in [Chars -> Chars] /\ Holds(F, ch, t, lo, hi)
        /\ \A c \in Chars : ch[c] = "hyphen" <=> c \in White \cup {"hyphen"}
    BY <1>5
  <2>3. <<"hyphen">> \o w \in SubSeqs(F) <=> Occurs(w, m, ch, t)
    BY ONLY <1>8, <1>9, <1>10, <2>1, <2>2, WildcardFound
  <2>4. QED
    BY <2>3 DEF Occurs
<1>12. ASSUME NEW s \in DOMAIN t, s + m - 1 <= Len(t), NEW j \in 0 .. m - 1
       PROVE  ch[t[s + j]] = w[j + 1] <=>
                 /\ Letter(t[s + j]) = Letter(k[a + j])
                 /\ exact => (t[s + j] \in Marked <=> k[a + j] \in Marked)
  <2>1. t[s + j] \in Chars
    <3>1. s \in 1 .. Len(t) /\ Len(t) \in Nat
      BY <1>4
    <3>2. s + j \in 1 .. Len(t)
      <4>1. m \in Nat /\ s + m - 1 <= Len(t) /\ j \in 0 .. m - 1
        BY <1>6, <1>12
      <4>2. QED
        BY ONLY <3>1, <4>1
    <3>3. QED
      BY <1>4, <3>2
  <2>2. k[a + j] \in usual /\ w[j + 1] = Small[k[a + j]] /\ a + j \in DOMAIN k
    BY <1>0, <1>7
  <2>3. /\ InVi[t[s + j]] = Small[k[a + j]] <=> /\ Letter(t[s + j]) = Letter(k[a + j])
                                                /\ t[s + j] \in Marked <=> k[a + j] \in Marked
        /\ k[a + j] \in {"a", "A", "b"} =>
              (InEn[t[s + j]] = Small[k[a + j]] <=> Letter(t[s + j]) = Letter(k[a + j]))
    BY <2>1, <2>2, SameLetters
  <2>4. CASE exact
    BY <1>5, <2>2, <2>3, <2>4
  <2>5. CASE ~exact
    <3>1. k[a + j] \in {"a", "A", "b"}
      BY <2>2, <2>5 DEF Exact
    <3>2. QED
      BY <1>5, <2>2, <2>3, <2>5, <3>1
  <2>6. QED
    BY <2>4, <2>5
<1>13. \A s \in DOMAIN t : s + b - a = s + m - 1
  BY <1>0, <1>4, <1>6
<1> HIDE DEF exact
<1>14. ASSUME NEW s \in DOMAIN t
       PROVE  /\ s + m - 1 <= Len(t)
              /\ \A j \in 0 .. m - 1 : ch[t[s + j]] = w[j + 1]
              <=>
              /\ s + b - a <= Len(t)
              /\ \A j \in 0 .. b - a :
                    /\ Letter(t[s + j]) = Letter(k[a + j])
                    /\ exact => (t[s + j] \in Marked <=> k[a + j] \in Marked)
  BY <1>6, <1>12, <1>13
<1>15. <<"hyphen">> \o w \in SubSeqs(F) <=>
          \E s \in DOMAIN t :
             /\ Begins(t, s) /\ s + b - a <= Len(t)
             /\ \A j \in 0 .. b - a :
                   /\ Letter(t[s + j]) = Letter(k[a + j])
                   /\ exact => (t[s + j] \in Marked <=> k[a + j] \in Marked)
  BY <1>11, <1>14, Zenon
<1>16. QED
  BY <1>4, <1>15, Zenon DEF exact, FoundAt

\* A keyword of usual characters matches the fields of a post if and only if every word
\* of it begins a word of the text.
LEMMA MatchesFound ==
    ASSUME NEW p \in Entries, NEW k \in Seq(Chars), Usual(k)
    PROVE  Matches(p, k) <=> Found(Text(p), k)
<1> DEFINE F == IF isVietnameseWord(k) THEN SearchFields(p).dataSearchVi
                ELSE SearchFields(p).dataSearchEn
<1>2. <<"hyphen">> \o <<>> \in SubSeqs(F)
  <2>1. PICK lo, hi \in Nat : /\ Solid(Text(p), lo, hi)
                              /\ Holds(SearchFields(p).dataSearchVi, InVi, Text(p), lo, hi)
                              /\ Holds(SearchFields(p).dataSearchEn, InEn, Text(p), lo, hi)
    BY FieldsOfPost
  <2>2. F \in Seq(Chars) /\ F[1] = "hyphen" /\ Len(F) = hi + 3 - lo /\ lo <= hi + 1
    BY <2>1 DEF Holds, Solid
  <2>3. PICK g \in Seq(Chars) : g = <<"hyphen">> \o <<>> /\ Len(g) = 1 /\ g[1] = "hyphen"
    <3>1. /\ <<"hyphen">> \in Seq(Chars) /\ Len(<<"hyphen">>) = 1
          /\ <<"hyphen">>[1] = "hyphen"
      BY DEF Chars
    <3>2. <<"hyphen">> \o <<>> = <<"hyphen">>
      BY <3>1, ConcatEmptySeq
    <3>3. QED
      BY <3>1, <3>2
  <2> HIDE DEF F
  <2>4. PICK l \in Nat : l = Len(F) /\ 1 <= l
    BY <2>1, <2>2
  <2>5. 0 \in Nat /\ 0 + 1 <= l /\ \A i \in 1 .. 1 : F[0 + i] = g[i]
    BY <2>2, <2>3, <2>4
  <2>6. /\ F \in Seq(Chars) /\ l \in Nat /\ Len(F) = l
        /\ g \in Seq(Chars) /\ 1 \in Nat /\ Len(g) = 1 /\ 1 <= 1
    BY <2>2, <2>3, <2>4
  <2>7. g \in SubSeqs(F)
    <3>1. StandsIn(g, 1, F, l)
      BY <2>5 DEF StandsIn
    <3>2. QED
      BY <2>6, <3>1, PartOf
  <2>8. QED
    BY <2>3, <2>7
<1>3. toAliasSearch(k) \subseteq SubSeqs(F) <=>
         \A w \in toWords(toLowerCase(k)) : <<"hyphen">> \o w \in SubSeqs(F)
  BY DEF toAliasSearch
<1>4. Matches(p, k) <=> \A w \in toWords(toLowerCase(k)) : <<"hyphen">> \o w \in SubSeqs(F)
  BY <1>3 DEF Matches
<1>5. Found(Text(p), k) <=> \A a, b \in DOMAIN k : IsWord(k, a, b) => FoundAt(p, k, a, b)
  BY DEF Found, FoundAt
<1>6. ASSUME NEW a \in DOMAIN k, NEW b \in DOMAIN k, NEW w, WordAt(w, k, a, b)
      PROVE  <<"hyphen">> \o w \in SubSeqs(F) <=> FoundAt(p, k, a, b)
  <2>1. k # <<>>
    OBVIOUS
  <2>2. PICK G : G = F
    OBVIOUS
  <2>3. <<"hyphen">> \o w \in SubSeqs(G) <=> FoundAt(p, k, a, b)
    BY <1>6, <2>1, <2>2, WordFound
  <2>4. QED
    BY <2>2, <2>3
<1> HIDE DEF F
<1>7. ASSUME \A w \in toWords(toLowerCase(k)) : <<"hyphen">> \o w \in SubSeqs(F),
             NEW a \in DOMAIN k, NEW b \in DOMAIN k, IsWord(k, a, b)
      PROVE  FoundAt(p, k, a, b)
  <2>1. PICK w \in toWords(toLowerCase(k)) : WordAt(w, k, a, b)
    BY <1>7, WordsOfKeyword
  <2>2. QED
    BY <1>6, <1>7, <2>1
<1>8. ASSUME \A a, b \in DOMAIN k : IsWord(k, a, b) => FoundAt(p, k, a, b),
             NEW w \in toWords(toLowerCase(k))
      PROVE  <<"hyphen">> \o w \in SubSeqs(F)
  <2>1. CASE w = <<>>
    BY <1>2, <2>1
  <2>2. CASE \E a, b \in DOMAIN k : WordAt(w, k, a, b)
    <3>1. PICK a, b \in DOMAIN k : WordAt(w, k, a, b)
      BY <2>2
    <3>2. IsWord(k, a, b)
      BY <3>1 DEF WordAt
    <3>3. QED
      BY <1>6, <1>8, <3>1, <3>2
  <2>3. QED
    BY <2>1, <2>2, WordsOfKeyword
<1>9. QED
  BY <1>4, <1>5, <1>7, <1>8

\* A search shows a post if and only if each word of the keyword begins one of its words,
\* for every title and text and every keyword of usual characters.
THEOREM FindsPrefixesCorrect == SearchSpec => []FindsPrefixes
<1>1. SearchInv => FindsPrefixes
  <2> SUFFICES ASSUME SearchInv, answer # "unasked",
                      ToSet(keyword) \cap {"syntax", "hyphen", "a_comb", "i_fcomb"} = {}
               PROVE  answer = "hit" <=> Found(Text(post), keyword)
    BY DEF FindsPrefixes
  <2>1. /\ post \in Entries /\ keyword \in Keywords /\ Usual(keyword)
        /\ answer = "hit" <=> Matches(post, keyword)
    BY DEF SearchInv, Usual
  <2>2. keyword \in Seq(Chars)
    BY <2>1, SearchAssumption DEF SearchAssumption
  <2>3. QED
    BY <2>1, <2>2, MatchesFound
<1>2. QED
  BY <1>1, SearchInvCorrect, PTL
=============================================================================
