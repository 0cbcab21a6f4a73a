---------------------------- MODULE MCPostSearch ----------------------------
(***************************************************************************)
(* All short titles and keywords, and texts with each kind of character.   *)
(***************************************************************************)
EXTENDS PostSearch

MCTitles   == BoundedSeq(Chars \ {"A", "I_foreign", "syntax", "comma"}, 2)
MCBodies   == {<<>>, <<"b", "comma">>, <<"A", "nbsp", "b">>, <<"a_mark", "tab", "a", "tab">>,
                <<"b", "I_foreign", "a">>, <<"b", "syntax", "hyphen", "a_comb">>}
MCKeywords == BoundedSeq(Chars, 2)
              \cup BoundedSeq({"a", "b", "a_mark", "i_foreign", "space", "tab", "comma"}, 3)
=============================================================================
