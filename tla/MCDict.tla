------------------------------- MODULE MCDict -------------------------------
(***************************************************************************)
(* Files of up to four lines: comments, indented comments, lines without   *)
(* phonemes, unnumbered lines in two cases, and numbered ones with good    *)
(* and bad suffixes.  The dictionary in memory has a word with two         *)
(* alternates, to be asked for in two spellings, and one with nothing but  *)
(* an alternate.                                                           *)
(***************************************************************************)
EXTENDS Dict

Field(text, suffix) == [text |-> text, suffix |-> suffix]

Line(text, suffix, phones) ==
  [indented |-> FALSE, fields |-> <<Field(text, suffix)>> \o phones]

AtoiOf == [s \in {"(1)", "(+1)", "(2)", "(0)", "(x)", "(2"} |->
  CASE s \in {"(1)", "(+1)"} -> 1
    [] s = "(2)"             -> 2
    [] s = "(0)"             -> 0
    [] OTHER                 -> NotANumber]

LowerOf == [w \in {"Ab", "ab", "cd", "", ";;;"} |-> IF w = "Ab" THEN "ab" ELSE w]

SmallLines ==
  { Line("ab", NoSuffix, <<"P">>), Line("Ab", NoSuffix, <<"Q">>), Line("ab", NoSuffix, <<>>),
    Line("cd", NoSuffix, <<"P">>), Line(";;;", NoSuffix, <<"P">>),
    [Line(";;;", NoSuffix, <<"P">>) EXCEPT !.indented = TRUE],
    Line("ab", "(1)", <<"P">>), Line("Ab", "(+1)", <<"Q">>), Line("ab", "(2)", <<"R">>),
    Line("ab", "(0)", <<"R">>), Line("ab", "(x)", <<"R">>), Line("ab", "(2", <<"R">>),
    Line("cd", "(1)", <<"S">>), Line("", "(1)", <<"P">>) }

SmallFiles == UNION {[1 .. m -> SmallLines] : m \in 0 .. 4}

\* The orders of its lines give one dictionary, and one of them is enough.
SharedFiles == {<<Line("ab", "(2)", <<"R">>), Line("Ab", "(+1)", <<"Q">>),
                  Line("cd", "(1)", <<"S">>), Line("ab", NoSuffix, <<"P">>)>>}

SmallArrays == <<<<"P">>, <<3, 4>>, <<"Q">>, <<"R">>, <<6>>, <<"S">>>>

SmallDictionary ==
  [ ab |-> [canonical |-> 1, alternates |-> 2],
    cd |-> [canonical |-> Nil, alternates |-> 5] ]
=============================================================================
