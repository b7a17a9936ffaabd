------------------------------- MODULE Engine -------------------------------
(***************************************************************************)
(* One call of Engine.Process together with the calls it makes of          *)
(* uniformByteAlignment: the loop of Alignment runs for each word whose    *)
(* phonemes are known, before Process takes up its pronunciation.          *)
(***************************************************************************)
EXTENDS Alignment, Process

engineVars == <<vars, alignVars>>

\* The ARPAbet symbols of the word Process is at.
WordSymbols ==
  LET word == text[t].word
  IN  IF Miss(word) THEN Rules[word] ELSE Canonical(word)

\* The words for which pronunciationFrom is called.
IsAligned ==
  /\ AtToken /\ Eligible
  /\ Miss(text[t].word) => Rules[text[t].word] # Declined
  /\ Mappable(WordSymbols)

\* The loop was called for this token, whose end is that of no other.
Called == w1 = text[t].end

EngineInit == Init /\ NoCall

Call ==
  /\ IsAligned /\ ~Called
  /\ AlignCall(text[t].start, text[t].end, Len(WordSymbols))
  /\ UNCHANGED vars

Loop == AppendSpan /\ UNCHANGED vars

\* Process goes on when the loop has returned the spans of its word.
Proceed ==
  /\ IsAligned => Called /\ AlignReturned
  /\ Step
  /\ UNCHANGED alignVars

Rest == Returned /\ UNCHANGED alignVars

EngineNext == Call \/ Loop \/ Proceed \/ Rest

EngineSpec == EngineInit /\ [][EngineNext]_engineVars

-----------------------------------------------------------------------------
(***************************************************************************)
(* Properties                                                              *)
(***************************************************************************)

\* What Process takes for the alignment of a word, in closed form, is what the
\* loop has returned for it (engine.go:302).
AlignmentIsReturned ==
  [][tokens' # tokens =>
       LET pron == tokens'[t].pronunciation
       IN  pron.source # "SourceUnknown" => pron.alignment = spans]_engineVars
=============================================================================
