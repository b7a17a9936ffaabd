----------------------------- MODULE Alignment -----------------------------
(***************************************************************************)
(* pkg/g2p/align.go: uniformByteAlignment, one step per turn of its loop.  *)
(* [w0, w1) is the byte span of a word and n its number of phonemes.       *)
(* Module Engine calls it.                                                 *)
(***************************************************************************)
EXTENDS AlignmentSpans

VARIABLES w0, w1, n, i, pos, spans

alignVars == <<w0, w1, n, i, pos, spans>>

\* Before the first call.
NoCall == w0 = 0 /\ w1 = 0 /\ n = 0 /\ i = 0 /\ pos = 0 /\ spans = <<>>

\* The call for m phonemes over the bytes [a, b).
AlignCall(a, b, m) ==
  /\ w0' = a /\ w1' = b /\ n' = m
  /\ i' = 0 /\ pos' = a /\ spans' = <<>>

\* Faults: the remainder goes to the last phonemes, to the very last one, or
\* to none.
WidthOf_Trailing(k) ==
  IF n - k <= Rem(w0, w1, n) THEN Base(w0, w1, n) + 1 ELSE Base(w0, w1, n)

WidthOf_LastTakesRest(k) ==
  IF k = n - 1 THEN Base(w0, w1, n) + Rem(w0, w1, n) ELSE Base(w0, w1, n)

WidthOf_Floor(k) == Base(w0, w1, n)

\* The first rem phonemes get one byte more than base.
WidthOf(k) == IF k < Rem(w0, w1, n) THEN Base(w0, w1, n) + 1 ELSE Base(w0, w1, n)

AppendSpan ==
  /\ i < n
  /\ spans' = Append(spans, [start |-> pos, end |-> pos + WidthOf(i)])
  /\ pos' = pos + WidthOf(i)
  /\ i' = i + 1
  /\ UNCHANGED <<w0, w1, n>>

AlignReturned == i = n

-----------------------------------------------------------------------------
(***************************************************************************)
(* Properties                                                              *)
(***************************************************************************)

\* The loop has its types, and has appended one span per turn.
AlignTypeOK ==
  /\ w0 \in Nat /\ w1 \in Nat /\ w0 <= w1 /\ n \in Nat
  /\ i \in 0 .. n
  /\ pos \in Nat
  /\ spans \in Seq([start : Nat, end : Nat]) /\ Len(spans) = i

\* The loop, which carries pos from turn to turn, computes the closed form
\* that depends on the index alone.
ClosedForm ==
  \A k \in 1 .. i : spans[k] = Span(w0, w1, n, k)

\* The spans abut, the first begins at w0 and the last one so far ends at pos.
Contiguous ==
  /\ i = 0 => pos = w0
  /\ i > 0 => spans[1].start = w0 /\ spans[i].end = pos
  /\ \A k \in 1 .. (i - 1) : spans[k].end = spans[k + 1].start

\* The spans abut and the scan ends exactly on w1: "pos == w1 (the partition
\* exactly tiles [w0, w1))" (align.go:43).
TilesExactly == Contiguous /\ (i = n /\ n > 0 => pos = w1)

\* Widths differ by at most one and never grow: the remainder goes to the
\* leading phonemes and zero-width spans come last.
Uniform ==
  \A j, k \in 1 .. i : j <= k =>
    LET wj == spans[j].end - spans[j].start
        wk == spans[k].end - spans[k].start
    IN  wk <= wj /\ wj <= wk + 1
=============================================================================
