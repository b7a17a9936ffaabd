----------------------------- MODULE MCFallback -----------------------------
(***************************************************************************)
(* Rules of the frozen table over five letters, in three orders, and       *)
(* tables with the faults that validateRules looks for.                    *)
(***************************************************************************)
EXTENDS Fallback

Rule(grapheme, symbols) == [grapheme |-> grapheme, symbols |-> symbols]

SmallTable ==
  << Rule(<<"s", "h">>, <<"SH">>), Rule(<<"c", "h">>, <<"CH">>), Rule(<<"o", "o">>, <<"UW">>),
     Rule(<<"c">>, <<"K">>), Rule(<<"h">>, <<"HH">>), Rule(<<"s">>, <<"S">>),
     Rule(<<"x">>, <<"K", "S">>), Rule(<<"o">>, <<"AO">>) >>

Symbols == {"SH", "CH", "UW", "K", "HH", "S", "AO"}

\* A grapheme of three letters, as the scanner would allow.
LongTable == Append(SmallTable, Rule(<<"s", "c", "h">>, <<"SH">>))

\* A letter without a rule; a grapheme with two; a symbol the bridge lacks.
SmallTables ==
  { SmallTable, Reverse(SmallTable), LongTable, Tail(Reverse(SmallTable)),
    Append(SmallTable, Rule(<<"o", "o">>, <<"AO">>)),
    Append(SmallTable, Rule(<<"h", "o">>, <<"??">>)) }

FoldOf == [u \in {"S"} |-> "s"]

Characters == {"s", "c", "h", "o", "x", "S", "'", "0", "e'"}

SmallSurfaces == UNION {[1 .. m -> Characters] : m \in 0 .. 4}
=============================================================================
