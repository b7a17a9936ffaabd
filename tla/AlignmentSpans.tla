--------------------------- MODULE AlignmentSpans ---------------------------
(***************************************************************************)
(* The uniform alignment of ADR-0007 in closed form: span k of n over the  *)
(* bytes [w0, w1).                                                         *)
(***************************************************************************)
EXTENDS Integers, Sequences

Base(w0, w1, n) == (w1 - w0) \div n

Rem(w0, w1, n) == (w1 - w0) % n

Least(a, b) == IF a <= b THEN a ELSE b

\* Where span k + 1 begins: k whole shares, and one byte more for each of the
\* first phonemes.
Offset(w0, w1, n, k) == w0 + k * Base(w0, w1, n) + Least(k, Rem(w0, w1, n))

Span(w0, w1, n, k) ==
  [start |-> Offset(w0, w1, n, k - 1), end |-> Offset(w0, w1, n, k)]

UniformByteAlignment(w0, w1, n) == [k \in 1 .. n |-> Span(w0, w1, n, k)]
=============================================================================
