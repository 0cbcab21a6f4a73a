----------------------------- MODULE PostSearch -----------------------------
(***************************************************************************)
(* How a keyword finds a post.  PostIndexMapper.from turns a post into two *)
(* strings of words, dataSearchEn and dataSearchVi; PostSolrRepository     *)
(* turns a keyword into wildcards on one of them; Solr matches.            *)
(*                                                                         *)
(* Every character is of one of these kinds, by what the code does to it:  *)
(*   "a", "b"  small letters a-z and digits,  "A"  a capital A-Z,          *)
(*   "a_mark", "A_mark"  Vietnamese letters, one character each,           *)
(*   "i_foreign", "I_foreign"  letters that the table of                   *)
(*      VietnameseConverter lacks, with a mark (of other languages) or of  *)
(*      another script: small, and capital,                                *)
(*   "a_comb", "i_fcomb"  a letter with a combining mark, which NFC puts   *)
(*      together: a Vietnamese one, a foreign one,                         *)
(*   "space"  the blank, "tab"  other white space: tab, end of line,       *)
(*   "hyphen", "nbsp"  the no-break space,                                 *)
(*   "syntax"  the characters that the query parser takes for its own, and *)
(*   "comma"  all others, the comma, full stop and apostrophe among them,  *)
(*      which nothing converts.                                            *)
(***************************************************************************)
EXTENDS Naturals, Sequences, SequencesExt, FiniteSetsExt

CONSTANTS Titles, Bodies, Keywords   \* sequences of characters

Chars == {"a", "A", "b", "a_mark", "A_mark", "a_comb", "i_foreign", "I_foreign", "i_fcomb",
          "space", "tab", "nbsp", "hyphen", "comma", "syntax"}

ASSUME SearchAssumption == Titles \cup Bodies \cup Keywords \subseteq Seq(Chars)

VARIABLES
    post,     \* the post: title, text of its html, whether that can be extracted
    index,    \* its entry in Solr: dataSearchVi and dataSearchEn
    keyword,  \* the keyword searched for
    answer    \* the page of the search: shows the post, or does not

searchVars == <<post, index, keyword, answer>>

Mapped(s, from, to) == [i \in DOMAIN s |-> IF s[i] \in from THEN to ELSE s[i]]
White == {"space", "tab"}

-----------------------------------------------------------------------------
(***************************************************************************)
(* SearchDataGenerator, VietnameseConverter and Utils.                     *)
(***************************************************************************)
toLowerCase(s) == Mapped(Mapped(Mapped(s, {"A"}, "a"), {"A_mark"}, "a_mark"), {"I_foreign"}, "i_foreign")

\* The table of VietnameseConverter: Vietnamese letters that carry their mark; all else,
\* letters with marks of other languages too, falls to its default and stays as it is.
toTextNotMarked(s) == Mapped(Mapped(s, {"a_mark"}, "a"), {"A_mark"}, "A")

\* Mutant: the text as it was typed.
AsTyped(s) == s
normalizationText(s) == Mapped(Mapped(s, {"a_comb"}, "a_mark"), {"i_fcomb"}, "i_foreign")

\* String.trim and split("\\s").  A no-break space is neither cut off nor split at;
\* two blanks have an empty word between them, and a blank text is one empty word.
Trim(s) == LET solid == {i \in DOMAIN s : s[i] \notin White}
           IN  IF solid = {} THEN <<>> ELSE SubSeq(s, Min(solid), Max(solid))
toWords(s) ==
    LET t    == Trim(s)
        Cuts == {0, Len(t) + 1} \cup {i \in DOMAIN t : t[i] \in White}
        Neighbours == {c \in Cuts \X Cuts : /\ c[1] < c[2]
                                            /\ \A i \in Cuts : i <= c[1] \/ c[2] <= i}
    IN  {SubSeq(t, c[1] + 1, c[2] - 1) : c \in Neighbours}

\* A hyphen before each word and one at the end: each blank between words becomes one.
toDataSearch(s) == toLowerCase(<<"hyphen">> \o Mapped(Trim(s), White, "hyphen") \o <<"hyphen">>)

\* Whatever has a character other than plain letters, digits and the blank, be it a comma
\* or a tab; also a keyword of length zero.
isVietnameseWord(s) ==
    s = <<>> \/ \E i \in DOMAIN s : s[i] \notin {"a", "A", "b", "space"}

\* No-break spaces of the html become spaces, those of the title stay; an extractor
\* that throws leaves no text.
extractHtmlContent(p) == IF p.readable THEN Trim(Mapped(p.body, {"nbsp"}, "space")) ELSE <<>>

-----------------------------------------------------------------------------
\* PostIndexMapper.from.
SearchFields(p) ==
    LET text == normalizationText(p.title \o <<"space">> \o extractHtmlContent(p))
        data == toDataSearch(toLowerCase(text))
    IN  [dataSearchVi |-> data, dataSearchEn |-> toTextNotMarked(data)]

\* Mutant: the keyword as it was typed, capitals too.
WildcardsAsTyped(k) == {<<"hyphen">> \o w : w \in toWords(k)}

\* toAliasSearch: "*-word*" for each word, that is, the field contains "-word".
toAliasSearch(k) == {<<"hyphen">> \o w : w \in toWords(toLowerCase(k))}

\* What the page may show for a keyword, field being the one searched: every wildcard has
\* to match (q.op AND).  The parser takes a character of its syntax for part of the query:
\* it may reject it, which ends in the same empty page, or find whatever the query says.
Answers(k, field) ==
    IF "syntax" \in ToSet(k) THEN {"hit", "empty"}
    ELSE IF toAliasSearch(k) \subseteq SubSeqs(field) THEN {"hit"} ELSE {"empty"}

SearchInit ==
    /\ post \in [title : Titles, body : Bodies, readable : BOOLEAN]
    /\ index = [dataSearchVi |-> <<>>, dataSearchEn |-> <<>>]
    /\ keyword = <<>> /\ answer = "unasked"

IndexPost ==
    /\ index.dataSearchVi = <<>>
    /\ index' = SearchFields(post)
    /\ UNCHANGED <<post, keyword, answer>>

\* PostSolrRepository.search, in the field that the keyword calls for.
Search(k) ==
    /\ answer = "unasked" /\ index.dataSearchVi # <<>>
    /\ keyword' = k
    /\ answer' \in Answers(k, IF isVietnameseWord(k) THEN index.dataSearchVi ELSE index.dataSearchEn)
    /\ UNCHANGED <<post, index>>

SearchNext == IndexPost \/ \E k \in Keywords : Search(k)

SearchSpec == SearchInit /\ [][SearchNext]_searchVars

-----------------------------------------------------------------------------
(***************************************************************************)
(* What a search means, told by positions in the text as it was typed.     *)
(***************************************************************************)
Marked == {"a_mark", "A_mark", "a_comb"}
Letter(c) == IF c \in {"A"} \cup Marked THEN "a"
             ELSE IF c \in {"I_foreign", "i_fcomb"} THEN "i_foreign" ELSE c

Text(p) == p.title \o <<"space">>
           \o (IF p.readable
               THEN Trim([i \in DOMAIN p.body |-> IF p.body[i] = "nbsp" THEN "space" ELSE p.body[i]])
               ELSE <<>>)

\* The positions of a word of the keyword, and where one may begin in a text.
IsWord(k, p, q) == /\ p <= q /\ \A i \in p .. q : k[i] \notin White
                   /\ p > 1 => k[p - 1] \in White
                   /\ q < Len(k) => k[q + 1] \in White
Begins(t, s) == s > 1 => t[s - 1] \in White \cup {"hyphen"}

\* The keyword asks for its marks as they are: it has more than plain letters and blanks.
Exact(k) == \E i \in DOMAIN k : k[i] \notin {"a", "A", "b", "space"}

Found(t, k) ==
    LET same(c, d) == Letter(c) = Letter(d) /\ (Exact(k) => (c \in Marked <=> d \in Marked))
    IN  \A p, q \in DOMAIN k : IsWord(k, p, q) =>
            \E s \in DOMAIN t : /\ Begins(t, s) /\ s + q - p <= Len(t)
                                /\ \A j \in 0 .. q - p : same(t[s + j], k[p + j])

\* What is stored fits what is asked: words follow hyphens, there is no white space, no
\* capital and no combining mark, and dataSearchEn has no letter that the table of
\* VietnameseConverter knows (marks of other languages stay in both).
SearchTypeOK ==
    /\ post \in [title : Titles, body : Bodies, readable : BOOLEAN]
    /\ answer \in {"unasked", "hit", "empty"} /\ keyword \in Keywords \cup {<<>>}
    /\ index.dataSearchVi # <<>> =>
          /\ Head(index.dataSearchVi) = "hyphen" /\ Last(index.dataSearchVi) = "hyphen"
          /\ Len(index.dataSearchVi) = Len(index.dataSearchEn)
          /\ ToSet(index.dataSearchVi)
                \subseteq {"a", "b", "a_mark", "i_foreign", "hyphen", "nbsp", "comma", "syntax"}
          /\ ToSet(index.dataSearchEn)
                \subseteq {"a", "b", "i_foreign", "hyphen", "nbsp", "comma", "syntax"}

\* A search shows a post if and only if every word of the keyword begins a word of the
\* title or of the readable text, in any case.  Marks of Vietnamese letters may differ
\* when the keyword is plain letters, digits and blanks only; a single other character,
\* were it a comma or a tab, makes the marks of all its words count
\* (SearchDataGenerator 10, 33-35).  A letter with a mark of another language is another
\* letter than the plain one (VietnameseConverter 178-179).  Nothing is said of keywords
\* with a character of the query syntax, with a hyphen, which the fields have for every
\* blank, or with a combining mark, since no one normalizes a keyword
\* (PostSolrRepository 26-37, SearchDataGenerator 25-31).
FindsPrefixes ==
    answer # "unasked" /\ ToSet(keyword) \cap {"syntax", "hyphen", "a_comb", "i_fcomb"} = {} =>
        (answer = "hit" <=> Found(Text(post), keyword))
=============================================================================
