------------------------------- MODULE MCCli -------------------------------
(***************************************************************************)
(* Texts of up to three characters, where "ab" is one token: a feed that   *)
(* is cut in the middle of a token is another text.  On "+2n" Process does *)
(* not return.                                                             *)
(***************************************************************************)
EXTENDS Cli

FoldedOf ==
  [v \in {"", "batch", " Batch", "causal", "oracle", "json", "TEXT ", "xml"} |->
     CASE v = " Batch" -> "batch" [] v = "TEXT " -> "text" [] OTHER -> v]

Whole == <<"a", "b", " ">>

SignedWord == <<"+", "2", "n">>

Texts == Prefixes(Whole) \cup Prefixes(SignedWord)

Hanging == {SignedWord}

Tokenized ==
  [text \in Texts \ Hanging |->
     CASE text = <<"a", "b">>      -> <<"ab">>
       [] text = <<"a", "b", " ">> -> <<"ab", " ">>
       [] text = <<"+", "2">>      -> <<"+2">>
       [] OTHER                    -> text]

SmallArguments ==
  [parse : {"ok"}, version : {FALSE}, language : {"", "en", "fr"},
   mode : {"", " Batch", "causal", "oracle"}, input : {<<>>, <<"a", "b">>, SignedWord},
   output : {"json", "TEXT ", "xml", ""}]
  \cup [parse : {"error", "help"}, version : {FALSE}, language : {"en"}, mode : {"batch"},
        input : {<<>>}, output : {"json"}]
  \cup [parse : {"ok"}, version : {TRUE}, language : {"en"}, mode : {"batch"},
        input : {<<>>}, output : {"json"}]
=============================================================================
