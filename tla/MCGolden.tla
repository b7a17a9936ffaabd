------------------------------ MODULE MCGolden ------------------------------
(***************************************************************************)
(* Texts of up to three tokens, each of one character: "a", a word of the  *)
(* dictionary; "e", a word of two bytes that the rules resolve; U+FFFD, a  *)
(* symbol; and a byte that is not UTF-8.                                   *)
(***************************************************************************)
EXTENDS Golden

Sizes == [c \in {"a", "e", Broken, Replacement} |->
  CASE c = "e" -> 2 [] c = Replacement -> 3 [] OTHER -> 1]

\* Closed under what json.Marshal makes of a text.
SmallTexts ==
  { <<>>, <<"a">>, <<"e">>, <<Broken>>, <<Replacement>>, <<"a", Broken>>, <<"a", Replacement>>,
    <<Broken, "e", Broken>>, <<Replacement, "e", Replacement>> }

KindOf(c) == CASE c = Broken -> "KindUnknown" [] c = Replacement -> "KindSymbol"
               [] OTHER -> "KindWord"

SourceOf(mode, c) ==
  CASE mode = "ModeCausal" -> "SourceUnknown" [] c = "a" -> "SourceDict"
    [] c = "e" -> "SourceRuleFallback" [] OTHER -> "SourceUnknown"

Mask(source) == IF source = "SourceUnknown" THEN 0 ELSE 5

Masks == <<5>>

\* One phoneme for each word, over all of its bytes.
SmallResult(mode, text) ==
  LET Offset(j) == Size(SubSeq(text, 1, j))
      Span(j) == [start |-> Offset(j - 1), end |-> Offset(j)]
      Source(j) == SourceOf(mode, text[j])
      Phones(j) == IF Source(j) = "SourceUnknown" THEN <<>> ELSE <<1>>
      Tok(j) == [ token |-> <<text[j]>>, span |-> Span(j), kind |-> KindOf(text[j]),
                  pronunciation |->
                    [ phonemes |-> Phones(j), alignment |-> [p \in DOMAIN Phones(j) |-> Span(j)],
                      variant |-> 0, source |-> Source(j) ] ]
  IN  [ input |-> text, mode |-> mode, tokens |-> [j \in DOMAIN text |-> Tok(j)],
        featureStream |-> [b \in 1 .. Size(text) |->
          Mask(Source(CHOOSE j \in DOMAIN text : Offset(j - 1) < b /\ b <= Offset(j)))] ]

Results ==
  [call \in [mode : {"ModeBatch", "ModeCausal"}, text : SmallTexts] |->
     SmallResult(call.mode, call.text)]

Call(mode, text) == [mode |-> mode, text |-> text]

\* The calls of a batch: short and long, UTF-8 and not, in both modes.
SmallCalls ==
  {Call("ModeBatch", text) : text \in {<<>>, <<"e">>, <<"a", Broken>>, <<Broken, "e", Broken>>}}
    \cup {Call("ModeCausal", <<"a">>)}

SmallBatches == UNION {[1 .. m -> SmallCalls] : m \in 0 .. 3}
=============================================================================
