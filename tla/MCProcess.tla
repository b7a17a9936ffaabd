----------------------------- MODULE MCProcess -----------------------------
(***************************************************************************)
(* A small dictionary with every case resolvePronunciation tells apart,    *)
(* and the texts of up to four tokens over it; and words of any number of  *)
(* phonemes over any number of bytes.                                      *)
(***************************************************************************)
EXTENDS Engine, Functions, TLC

\* word -> its length in bytes
Widths == [hit |-> 3, short |-> 1, upper |-> 2, broken |-> 2, only |-> 2,
           oov |-> 2, odd |-> 3]

\* Words of one phoneme, of two and so on.
Scale == <<"p1", "p2", "p3", "p4", "p5", "p6", "p7">>

\* "-" is the surface of every other token.
KeyOf ==
  [w \in DOMAIN Widths \cup Range(Scale) \cup {"-"} |-> IF w = "upper" THEN "short" ELSE w]

\* "short" has more phonemes than bytes, stressed and in lower case; "broken"
\* has a symbol that does not map, its 3 being no stress; "only" has nothing but
\* numbered alternates.
SmallEntries ==
  [ hit    |-> [canonical |-> <<<<"K">>, <<"AE", "1">>>>],
    short  |-> [canonical |-> <<<<"eh", "1">>, <<"K">>, <<"S">>>>],
    broken |-> [canonical |-> <<<<"K">>, <<"AE", "3">>>>],
    only   |-> [canonical |-> <<>>] ]
  @@ [w \in Range(Scale) |->
        [canonical |-> SubSeq(<<<<"K">>, <<"AE">>, <<"S">>, <<"EH">>, <<"K">>, <<"S">>, <<"AE">>>>,
                              1, CHOOSE m \in DOMAIN Scale : Scale[m] = w)]]

RulesOf ==
  [w \in DOMAIN KeyOf |->
     CASE w = "odd" -> Declined
       [] w = "oov" -> <<<<"K">>, <<"S">>, <<"EH">>>>
       [] OTHER     -> <<<<"AE">>>>]

UpperOf == [x \in {"K", "S", "AE", "EH", "eh", "1", "3"} |-> IF x = "eh" THEN "EH" ELSE x]

SmallSymbols ==
  [sym \in {<<"K">>, <<"S">>, <<"AE">>, <<"EH">>} |->
     CASE sym[1] = "K" -> 20 [] sym[1] = "S" -> 29 [] sym[1] = "AE" -> 2 [] OTHER -> 11]

\* The rows of boundary, AE, EH, K and S in phonemeFeatures.
SmallBits ==
  [id \in {0, 2, 11, 20, 29} |->
     CASE id = 0  -> {22}
       [] id = 2  -> {0, 14, 15, 21}
       [] id = 11 -> {0, 13, 15, 21}
       [] id = 20 -> {2, 10}
       [] id = 29 -> {3, 8}]

MiniDictionary == [id |-> "cmudict-mini-v0.1", fullDictAvailable |-> FALSE]

TokenTypes ==
  [kind : {"word"}, word : DOMAIN Widths, width : {0}]
    \cup [kind : {"whitespace", "number"}, word : {"-"}, width : {2}]

WidthOfType(y) == IF y.kind = "word" THEN Widths[y.word] ELSE y.width

\* The tokens of the types in s, laid end to end.
LayOut(s) ==
  LET end[j \in 0 .. Len(s)] == IF j = 0 THEN 0 ELSE end[j - 1] + WidthOfType(s[j])
  IN  [j \in DOMAIN s |->
         [kind |-> s[j].kind, word |-> s[j].word, start |-> end[j - 1], end |-> end[j]]]

\* The scanner never puts two words, or two runs of spaces, side by side.
Scannable(s) == \A j \in 1 .. (Len(s) - 1) : s[j].kind # s[j + 1].kind \/ s[j].kind = "number"

SmallTexts ==
  {LayOut(s) : s \in {r \in UNION {[1 .. m -> TokenTypes] : m \in 0 .. 4} : Scannable(r)}}

\* One word of up to nine bytes, alone or behind a space.
OneWord(word, from, width) ==
  [kind |-> "word", word |-> word, start |-> from, end |-> from + width]

Space == [kind |-> "whitespace", word |-> "-", start |-> 0, end |-> 2]

ScaleTexts ==
  {<<OneWord(word, 0, m)>> : word \in Range(Scale), m \in 1 .. 9}
    \cup {<<Space, OneWord(word, 2, m)>> : word \in Range(Scale), m \in 1 .. 9}

AllTexts == SmallTexts \cup ScaleTexts
=============================================================================
