---------------------------- MODULE GoldenProofs ----------------------------
(***************************************************************************)
(* Proofs about the golden files, for any batch, any sizes of the buffer   *)
(* and of a line, and any number of edits.                                 *)
(***************************************************************************)
EXTENDS Golden, SequenceLemmas

(***************************************************************************)
(* Threaded texts                                                          *)
(***************************************************************************)

\* The line of the j-th call of a batch, and where in it the next piece is: a
\* text is threaded if its pieces, newlines aside, are those of the lines in
\* order; record[k] and piece[k] say which is due after k elements.
Line(b, j) == MarshalLine(RecordOf(b[j]))

Due(b, text, k, record, piece) ==
  IF text[k] = Newline
    THEN record[k] = record[k - 1] /\ piece[k] = piece[k - 1]
    ELSE /\ record[k - 1] <= Len(b) /\ piece[k - 1] <= Len(Line(b, record[k - 1]))
         /\ text[k] = Line(b, record[k - 1])[piece[k - 1]]
         /\ IF piece[k - 1] = Len(Line(b, record[k - 1]))
              THEN record[k] = record[k - 1] + 1 /\ piece[k] = 1
              ELSE record[k] = record[k - 1] /\ piece[k] = piece[k - 1] + 1

Threaded(b, text, record, piece) ==
  /\ record \in [0 .. Len(text) -> Nat \ {0}] /\ piece \in [0 .. Len(text) -> Nat \ {0}]
  /\ record[0] = 1 /\ piece[0] = 1
  /\ \A k \in 1 .. Len(text) : Due(b, text, k, record, piece)

\* A text has one newline after each line, and no other.
Clean(text, piece) ==
  \A k \in 1 .. Len(text) :
    text[k] = Newline <=> k > 1 /\ text[k - 1] # Newline /\ piece[k - 1] = 1

\* A text ends between two lines.
Ended(text) == Len(text) = 0 \/ text[Len(text)] = Newline

Pieces(b) == {Newline} \cup UNION {Range(Line(b, j)) : j \in DOMAIN b}

\* A line has a piece at least, no newline, and its record in each piece.
LEMMA LineIs ==
  ASSUME NEW b \in Batches, NEW j \in 1 .. Len(b)
  PROVE  /\ Line(b, j) \in Seq(Pieces(b)) /\ Len(Line(b, j)) \in Nat \ {0}
         /\ \A c \in 1 .. Len(Line(b, j)) :
              /\ Line(b, j)[c] # Newline
              /\ Line(b, j)[c].record = RecordOf(b[j])
<1> DEFINE rec == RecordOf(b[j])
           N   == Len(rec.tokens)
<1>1. IsSequence(b) /\ j \in DOMAIN b /\ IsSequence(ResultOf[b[j]].tokens)
  BY BatchesAssumption DEF IsSequence
<1>2. N \in Nat
  <2> DEFINE raw == FromResult(ResultOf[b[j]])
  <2>1. DOMAIN rec.tokens = DOMAIN ResultOf[b[j]].tokens
    <3>1. DOMAIN raw.tokens = DOMAIN ResultOf[b[j]].tokens
      BY DEF FromResult
    <3>2. raw = [input |-> raw.input, mode |-> raw.mode, feature_stream |-> raw.feature_stream,
                 tokens |-> raw.tokens]
      BY DEF FromResult
    <3> HIDE DEF raw
    <3>3. DOMAIN Marshal(raw).tokens = DOMAIN raw.tokens
      BY <3>2 DEF Marshal
    <3> QED
      BY <3>1, <3>3 DEF RecordOf, raw
  <2>2. DOMAIN rec.tokens = 1 .. Len(ResultOf[b[j]].tokens) /\ Len(ResultOf[b[j]].tokens) \in Nat
    BY <1>1, <2>1 DEF IsSequence
  <2> QED
    BY <2>2
<1>3. Line(b, j) = [c \in 1 .. (1 + N) |-> [record |-> rec, piece |-> c]]
  BY DEF Line, MarshalLine
<1>4. \A c \in 1 .. (1 + N) : Line(b, j)[c] = [record |-> rec, piece |-> c]
  BY <1>3
<1> HIDE DEF rec, N
<1>5. DOMAIN Line(b, j) = 1 .. (1 + N) /\ Len(Line(b, j)) = 1 + N
  BY <1>2, <1>3
<1>6. Range(Line(b, j)) \subseteq Pieces(b) /\ Newline \notin Range(Line(b, j))
  BY <1>1, NewlineAssumption DEF Pieces, Line
<1>7. \A c \in 1 .. (1 + N) : Line(b, j)[c] \in Range(Line(b, j))
  BY <1>5 DEF Range
<1>8. Line(b, j) \in Seq(Range(Line(b, j)))
  BY <1>2, <1>3, <1>7
<1> QED
  BY <1>2, <1>4, <1>5, <1>6, <1>7, <1>8 DEF rec

\* The thread of a prefix.
Upto(f, m) == [k \in 0 .. m |-> f[k]]

\* A prefix of a threaded text is threaded.
LEMMA PrefixThreaded ==
  ASSUME NEW b, NEW S, NEW text \in Seq(S), NEW record, NEW piece, Threaded(b, text, record, piece),
         NEW m \in 0 .. Len(text)
  PROVE  /\ Threaded(b, SubSeq(text, 1, m), Upto(record, m), Upto(piece, m))
         /\ Clean(text, piece) => Clean(SubSeq(text, 1, m), Upto(piece, m))
<1> DEFINE front == SubSeq(text, 1, m)
           rec   == Upto(record, m)
           pie   == Upto(piece, m)
<1>1. Len(front) = m /\ \A k \in 1 .. m : front[k] = text[k]
  OBVIOUS
<1>2. /\ \A k \in 0 .. m : rec[k] = record[k] /\ pie[k] = piece[k]
      /\ rec \in [0 .. m -> Nat \ {0}] /\ pie \in [0 .. m -> Nat \ {0}]
  <2>1. record \in [0 .. Len(text) -> Nat \ {0}] /\ piece \in [0 .. Len(text) -> Nat \ {0}]
    BY DEF Threaded
  <2>2. \A k \in 0 .. m : k \in 0 .. Len(text)
    OBVIOUS
  <2> QED
    BY <2>1, <2>2 DEF Upto
<1>3. record[0] = 1 /\ piece[0] = 1 /\ \A k \in 1 .. Len(text) : Due(b, text, k, record, piece)
  BY DEF Threaded
<1>4. Len(text) \in Nat /\ m <= Len(text) /\ m \in Nat
  OBVIOUS
<1> HIDE DEF front, rec, pie
<1>5. ASSUME NEW k \in 1 .. m PROVE Due(b, front, k, rec, pie)
  <2>1. k \in 1 .. Len(text) /\ k \in 0 .. m /\ k - 1 \in 0 .. m
    BY <1>4
  <2>2. Due(b, text, k, record, piece)
    BY <1>3, <2>1
  <2>3. /\ front[k] = text[k] /\ rec[k] = record[k] /\ pie[k] = piece[k]
        /\ rec[k - 1] = record[k - 1] /\ pie[k - 1] = piece[k - 1]
    BY <1>1, <1>2, <2>1
  <2> QED
    BY <2>2, <2>3, Zenon DEF Due
<1>6. Threaded(b, front, rec, pie)
  BY <1>1, <1>2, <1>3, <1>4, <1>5 DEF Threaded
<1>7. ASSUME Clean(text, piece) PROVE Clean(front, pie)
  <2> SUFFICES ASSUME NEW k \in 1 .. m
               PROVE  front[k] = Newline <=> k > 1 /\ front[k - 1] # Newline /\ pie[k - 1] = 1
    BY <1>1 DEF Clean
  <2>1. k \in 1 .. Len(text)
    BY <1>4
  <2>2. text[k] = Newline <=> k > 1 /\ text[k - 1] # Newline /\ piece[k - 1] = 1
    BY <1>7, <2>1 DEF Clean
  <2>3. CASE k > 1
    <3>1. front[k] = text[k] /\ front[k - 1] = text[k - 1] /\ pie[k - 1] = piece[k - 1]
      BY <1>1, <1>2, <2>3
    <3> QED
      BY <2>2, <3>1
  <2>4. CASE ~(k > 1)
    BY <1>1, <2>2, <2>4
  <2> QED
    BY <2>3, <2>4
<1> QED
  BY <1>6, <1>7 DEF front, rec, pie

\* The next line goes on a text that ends between two lines.
LEMMA AppendLine ==
  ASSUME NEW b \in Batches, NEW text \in Seq(Pieces(b)), NEW record, NEW piece,
         Threaded(b, text, record, piece), Clean(text, piece), Ended(text),
         NEW m \in 1 .. Len(b), record[Len(text)] = m, piece[Len(text)] = 1
  PROVE  LET longer == text \o Line(b, m)
         IN  \E r, p : /\ Threaded(b, longer, r, p) /\ Clean(longer, p) /\ ~Ended(longer)
                       /\ r[Len(longer)] = m + 1 /\ p[Len(longer)] = 1
<1> DEFINE L == Len(text)
           w == Line(b, m)
           W == Len(w)
           longer == text \o w
           r == [k \in 0 .. (L + W) |->
                   IF k <= L THEN record[k] ELSE IF k = L + W THEN m + 1 ELSE m]
           p == [k \in 0 .. (L + W) |->
                   IF k <= L THEN piece[k] ELSE IF k = L + W THEN 1 ELSE k - L + 1]
<1>1. /\ L \in Nat /\ W \in Nat \ {0} /\ w \in Seq(Pieces(b))
      /\ \A c \in 1 .. W : w[c] # Newline
  BY LineIs
<1> HIDE DEF w
<1>2. /\ longer \in Seq(Pieces(b)) /\ Len(longer) = L + W
      /\ \A k \in 1 .. L : longer[k] = text[k]
      /\ \A c \in 1 .. W : longer[L + c] = w[c]
  BY <1>1, ConcatProperties
<1>3. /\ record \in [0 .. L -> Nat \ {0}] /\ piece \in [0 .. L -> Nat \ {0}]
      /\ record[0] = 1 /\ piece[0] = 1 /\ \A k \in 1 .. L : Due(b, text, k, record, piece)
  BY DEF Threaded
<1> HIDE DEF L, W, longer
<1>4. /\ \A k \in 0 .. L : r[k] = record[k] /\ p[k] = piece[k]
      /\ \A c \in 1 .. (W - 1) : r[L + c] = m /\ p[L + c] = c + 1
      /\ r[L + W] = m + 1 /\ p[L + W] = 1
  BY <1>1
<1>5. r \in [0 .. (L + W) -> Nat \ {0}] /\ p \in [0 .. (L + W) -> Nat \ {0}]
  BY <1>1, <1>3
<1> HIDE DEF r, p
<1>6. ASSUME NEW c \in 1 .. W PROVE r[L + c - 1] = m /\ p[L + c - 1] = c
  <2>1. CASE c = 1
    <3>1. L + c - 1 = L /\ L \in 0 .. L
      BY <1>1, <2>1
    <3>2. record[L] = m /\ piece[L] = 1
      BY DEF L
    <3> QED
      BY <1>4, <2>1, <3>1, <3>2
  <2>2. CASE c # 1
    <3>1. c - 1 \in 1 .. (W - 1) /\ L + c - 1 = L + (c - 1) /\ (c - 1) + 1 = c
      BY <1>1, <2>2
    <3> QED
      BY <1>4, <3>1
  <2> QED
    BY <2>1, <2>2
<1>7. ASSUME NEW k \in 1 .. (L + W) PROVE Due(b, longer, k, r, p)
  <2>1. CASE k <= L
    <3>1. k \in 1 .. L /\ k \in 0 .. L /\ k - 1 \in 0 .. L
      BY <1>1, <2>1
    <3>2. /\ longer[k] = text[k] /\ r[k] = record[k] /\ p[k] = piece[k]
          /\ r[k - 1] = record[k - 1] /\ p[k - 1] = piece[k - 1]
      BY <1>2, <1>4, <3>1
    <3>3. Due(b, text, k, record, piece)
      BY <1>3, <3>1
    <3> QED
      BY <3>2, <3>3, Zenon DEF Due
  <2>2. CASE k > L
    <3>1. PICK c \in 1 .. W : k = L + c
      <4>1. k - L \in 1 .. W /\ k = L + (k - L)
        BY <1>1, <2>2
      <4> QED
        BY <4>1
    <3>2. longer[k] = w[c] /\ longer[k] # Newline
      BY <1>1, <1>2, <3>1
    <3>3. r[k - 1] = m /\ p[k - 1] = c
      <4>1. r[L + c - 1] = m /\ p[L + c - 1] = c
        BY <1>6
      <4>2. k - 1 = L + c - 1
        BY <1>1, <3>1
      <4> QED
        BY <4>1, <4>2, Zenon
    <3>4. IF c = W THEN r[k] = m + 1 /\ p[k] = 1 ELSE r[k] = m /\ p[k] = c + 1
      <4>1. c # W => c \in 1 .. (W - 1)
        BY <1>1
      <4> QED
        BY <1>4, <3>1, <4>1
    <3>5. m <= Len(b) /\ c <= W
      BY <1>1
    <3> QED
      BY <3>2, <3>3, <3>4, <3>5 DEF Due, w, W
  <2> QED
    BY <1>1, <2>1, <2>2
<1>8. Threaded(b, longer, r, p)
  <2>1. 0 \in 0 .. L
    BY <1>1
  <2> QED
    BY <1>2, <1>3, <1>4, <1>5, <1>7, <2>1 DEF Threaded
<1>9. Clean(longer, p)
  <2> SUFFICES ASSUME NEW k \in 1 .. (L + W)
               PROVE  longer[k] = Newline <=> k > 1 /\ longer[k - 1] # Newline /\ p[k - 1] = 1
    BY <1>2 DEF Clean
  <2>1. CASE k <= L
    <3>1. k \in 1 .. L /\ k - 1 \in 0 .. L /\ (k > 1 => k - 1 \in 1 .. L)
      BY <1>1, <2>1
    <3>2. text[k] = Newline <=> k > 1 /\ text[k - 1] # Newline /\ piece[k - 1] = 1
      BY <3>1 DEF Clean, L
    <3> QED
      BY <1>2, <1>4, <3>1, <3>2
  <2>2. CASE k > L
    <3>1. PICK c \in 1 .. W : k = L + c
      <4>1. k - L \in 1 .. W /\ k = L + (k - L)
        BY <1>1, <2>2
      <4> QED
        BY <4>1
    <3>2. longer[k] # Newline
      BY <1>1, <1>2, <3>1
    <3>3. p[k - 1] = c
      <4>1. p[L + c - 1] = c
        BY <1>6
      <4>2. k - 1 = L + c - 1
        BY <1>1, <3>1
      <4> QED
        BY <4>1, <4>2, Zenon
    <3>4. CASE c # 1
      BY <3>2, <3>3, <3>4
    <3>5. CASE c = 1
      <4>1. k - 1 = L
        BY <1>1, <3>1, <3>5
      <4>2. k > 1 => L \in 1 .. L
        BY <1>1, <4>1
      <4>3. k > 1 => longer[k - 1] = Newline
        <5>1. L = 0 \/ text[L] = Newline
          BY DEF Ended, L
        <5> QED
          BY <1>1, <1>2, <4>1, <4>2, <5>1
      <4> QED
        BY <3>2, <4>3
    <3> QED
      BY <3>4, <3>5
  <2> QED
    BY <1>1, <2>1, <2>2
<1>10. ~Ended(longer)
  <2>1. W \in 1 .. W /\ L + W # 0
    BY <1>1
  <2>2. longer[L + W] # Newline
    BY <1>1, <1>2, <2>1
  <2> QED
    BY <1>2, <2>1, <2>2 DEF Ended
<1>11. r[Len(longer)] = m + 1 /\ p[Len(longer)] = 1
  BY <1>2, <1>4
<1> QED
  BY <1>8, <1>9, <1>10, <1>11 DEF longer, w

\* A newline goes after any piece, and after a line it leaves the text clean.
LEMMA InsertNewline ==
  ASSUME NEW b, NEW S, NEW text \in Seq(S), Newline \in S, NEW record, NEW piece,
         Threaded(b, text, record, piece), NEW k \in 0 .. Len(text), NEW longer \in Seq(S),
         Len(longer) = Len(text) + 1, longer[k + 1] = Newline,
         \A l \in 1 .. k : longer[l] = text[l],
         \A l \in (k + 2) .. (Len(text) + 1) : longer[l] = text[l - 1]
  PROVE  \E r, p :
           /\ Threaded(b, longer, r, p)
           /\ r[Len(longer)] = record[Len(text)] /\ p[Len(longer)] = piece[Len(text)]
           /\ Clean(text, piece) /\ k = Len(text) /\ ~Ended(text) /\ piece[Len(text)] = 1
                => Clean(longer, p)
<1> DEFINE L == Len(text)
           r == [l \in 0 .. (L + 1) |-> IF l <= k THEN record[l] ELSE record[l - 1]]
           p == [l \in 0 .. (L + 1) |-> IF l <= k THEN piece[l] ELSE piece[l - 1]]
<1>1. /\ record \in [0 .. L -> Nat \ {0}] /\ piece \in [0 .. L -> Nat \ {0}]
      /\ record[0] = 1 /\ piece[0] = 1 /\ \A l \in 1 .. L : Due(b, text, l, record, piece)
  BY DEF Threaded
<1>2. L \in Nat /\ k \in Nat /\ k <= L
  OBVIOUS
<1> HIDE DEF L
<1>3. /\ \A l \in 0 .. k : r[l] = record[l] /\ p[l] = piece[l]
      /\ \A l \in (k + 1) .. (L + 1) : r[l] = record[l - 1] /\ p[l] = piece[l - 1]
  BY <1>2
<1>4. r \in [0 .. (L + 1) -> Nat \ {0}] /\ p \in [0 .. (L + 1) -> Nat \ {0}]
  BY <1>1, <1>2
<1> HIDE DEF r, p
<1>5. ASSUME NEW l \in 1 .. (L + 1) PROVE Due(b, longer, l, r, p)
  <2>1. CASE l <= k
    <3>1. l \in 1 .. k /\ l \in 0 .. k /\ l - 1 \in 0 .. k /\ l \in 1 .. L
      BY <1>2, <2>1
    <3>2. /\ longer[l] = text[l] /\ r[l] = record[l] /\ p[l] = piece[l]
          /\ r[l - 1] = record[l - 1] /\ p[l - 1] = piece[l - 1]
      BY <1>3, <3>1
    <3> QED
      BY <1>1, <3>1, <3>2, Zenon DEF Due
  <2>2. CASE l = k + 1
    <3>1. k \in 0 .. k /\ l - 1 = k /\ l \in (k + 1) .. (L + 1)
      BY <1>2, <2>2
    <3>2. longer[l] = Newline /\ r[l] = r[l - 1] /\ p[l] = p[l - 1]
      BY <1>3, <2>2, <3>1
    <3> QED
      BY <3>2 DEF Due
  <2>3. CASE l > k + 1
    <3>1. /\ l \in (k + 2) .. (L + 1) /\ l \in (k + 1) .. (L + 1) /\ l - 1 \in (k + 1) .. (L + 1)
          /\ l - 1 \in 1 .. L
      BY <1>2, <2>3
    <3>2. longer[l] = text[l - 1]
      BY <3>1 DEF L
    <3>3. /\ r[l] = record[l - 1] /\ p[l] = piece[l - 1]
          /\ r[l - 1] = record[(l - 1) - 1] /\ p[l - 1] = piece[(l - 1) - 1]
      BY <1>3, <3>1
    <3>4. Due(b, text, l - 1, record, piece)
      BY <1>1, <3>1
    <3> QED
      BY <3>2, <3>3, <3>4, Zenon DEF Due
  <2> QED
    BY <1>2, <2>1, <2>2, <2>3
<1>6. Threaded(b, longer, r, p)
  <2>1. 0 \in 0 .. k /\ Len(longer) = L + 1
    BY <1>2 DEF L
  <2> QED
    BY <1>1, <1>3, <1>4, <1>5, <2>1 DEF Threaded
<1>7. r[Len(longer)] = record[Len(text)] /\ p[Len(longer)] = piece[Len(text)]
  <2>1. L + 1 \in (k + 1) .. (L + 1) /\ (L + 1) - 1 = L
    BY <1>2
  <2>2. r[L + 1] = record[L] /\ p[L + 1] = piece[L]
    BY <1>3, <2>1
  <2> QED
    BY <2>2 DEF L
<1>8. ASSUME Clean(text, piece), k = L, ~Ended(text), piece[L] = 1
      PROVE  Clean(longer, p)
  <2> SUFFICES ASSUME NEW l \in 1 .. (L + 1)
               PROVE  longer[l] = Newline <=> l > 1 /\ longer[l - 1] # Newline /\ p[l - 1] = 1
    BY DEF Clean, L
  <2>1. CASE l <= L
    <3>1. l \in 1 .. k /\ l - 1 \in 0 .. k /\ (l > 1 => l - 1 \in 1 .. k) /\ l \in 1 .. L
      BY <1>2, <1>8, <2>1
    <3>2. text[l] = Newline <=> l > 1 /\ text[l - 1] # Newline /\ piece[l - 1] = 1
      BY <1>8, <3>1 DEF Clean, L
    <3>3. longer[l] = text[l] /\ p[l - 1] = piece[l - 1] /\ (l > 1 => longer[l - 1] = text[l - 1])
      BY <1>3, <3>1
    <3> QED
      BY <3>2, <3>3
  <2>2. CASE l = L + 1
    <3>1. L # 0 /\ text[L] # Newline
      BY <1>8 DEF Ended, L
    <3>2. L \in 1 .. k /\ L \in 0 .. k /\ l - 1 = L /\ l > 1
      BY <1>2, <1>8, <2>2, <3>1
    <3>3. longer[L] = text[L] /\ p[L] = piece[L]
      BY <1>3, <3>2
    <3>4. longer[l] = Newline
      BY <1>8, <2>2
    <3> QED
      BY <1>8, <3>1, <3>2, <3>3, <3>4
  <2> QED
    BY <1>2, <2>1, <2>2
<1> QED
  BY <1>6, <1>7, <1>8 DEF L

\* Two lines are joined at k.
IsJoined(text, k, shorter) ==
  /\ Len(shorter) = Len(text) - 1
  /\ \A l \in 1 .. (k - 1) : shorter[l] = text[l]
  /\ \A l \in k .. (Len(text) - 1) : shorter[l] = text[l + 1]

\* A newline can be taken out.
LEMMA RemoveNewline ==
  ASSUME NEW b, NEW S, NEW text \in Seq(S), NEW record, NEW piece,
         Threaded(b, text, record, piece), NEW k \in 1 .. Len(text), text[k] = Newline,
         NEW shorter \in Seq(S), IsJoined(text, k, shorter)
  PROVE  \E r, p :
           /\ Threaded(b, shorter, r, p)
           /\ r[Len(shorter)] = record[Len(text)] /\ p[Len(shorter)] = piece[Len(text)]
<1> USE DEF IsJoined
<1> DEFINE L == Len(text)
           r == [l \in 0 .. (L - 1) |-> IF l < k THEN record[l] ELSE record[l + 1]]
           p == [l \in 0 .. (L - 1) |-> IF l < k THEN piece[l] ELSE piece[l + 1]]
<1>1. /\ record \in [0 .. L -> Nat \ {0}] /\ piece \in [0 .. L -> Nat \ {0}]
      /\ record[0] = 1 /\ piece[0] = 1 /\ \A l \in 1 .. L : Due(b, text, l, record, piece)
  BY DEF Threaded
<1>2. L \in Nat /\ k \in Nat /\ 1 <= k /\ k <= L
  OBVIOUS
<1>3. record[k] = record[k - 1] /\ piece[k] = piece[k - 1]
  BY <1>1 DEF Due
<1> HIDE DEF L
<1>4. /\ \A l \in 0 .. (k - 1) : r[l] = record[l] /\ p[l] = piece[l]
      /\ \A l \in k .. (L - 1) : r[l] = record[l + 1] /\ p[l] = piece[l + 1]
  BY <1>2
<1>5. r \in [0 .. (L - 1) -> Nat \ {0}] /\ p \in [0 .. (L - 1) -> Nat \ {0}]
  BY <1>1, <1>2
<1> HIDE DEF r, p
<1>6. ASSUME NEW l \in 1 .. (L - 1) PROVE Due(b, shorter, l, r, p)
  <2>1. CASE l < k
    <3>1. l \in 1 .. (k - 1) /\ l \in 0 .. (k - 1) /\ l - 1 \in 0 .. (k - 1) /\ l \in 1 .. L
      BY <1>2, <2>1
    <3>2. /\ shorter[l] = text[l] /\ r[l] = record[l] /\ p[l] = piece[l]
          /\ r[l - 1] = record[l - 1] /\ p[l - 1] = piece[l - 1]
      BY <1>4, <3>1
    <3> QED
      BY <1>1, <3>1, <3>2, Zenon DEF Due
  <2>2. CASE l >= k
    <3>1. l \in k .. (L - 1) /\ l + 1 \in 1 .. L /\ (l + 1) - 1 = l
      BY <1>2, <2>2
    <3>2. shorter[l] = text[l + 1]
      BY <3>1 DEF L
    <3>3. r[l] = record[l + 1] /\ p[l] = piece[l + 1]
      BY <1>4, <3>1
    <3>4. r[l - 1] = record[(l + 1) - 1] /\ p[l - 1] = piece[(l + 1) - 1]
      <4>1. CASE l = k
        <5>1. k - 1 \in 0 .. (k - 1) /\ l - 1 = k - 1
          BY <1>2, <4>1
        <5> QED
          BY <1>3, <1>4, <3>1, <4>1, <5>1
      <4>2. CASE l # k
        <5>1. l - 1 \in k .. (L - 1) /\ (l - 1) + 1 = l
          BY <1>2, <2>2, <4>2
        <5> QED
          BY <1>4, <3>1, <5>1
      <4> QED
        BY <4>1, <4>2
    <3>5. Due(b, text, l + 1, record, piece)
      BY <1>1, <3>1
    <3> QED
      BY <3>2, <3>3, <3>4, <3>5, Zenon DEF Due
  <2> QED
    BY <1>2, <2>1, <2>2
<1>7. Threaded(b, shorter, r, p)
  <2>1. 0 \in 0 .. (k - 1) /\ Len(shorter) = L - 1
    BY <1>2 DEF L
  <2> QED
    BY <1>1, <1>4, <1>5, <1>6, <2>1 DEF Threaded
<1>8. r[Len(shorter)] = record[L] /\ p[Len(shorter)] = piece[L]
  <2>1. Len(shorter) = L - 1
    BY DEF L
  <2>2. CASE k = L
    <3>1. L - 1 \in 0 .. (k - 1)
      BY <1>2, <2>2
    <3> QED
      BY <1>3, <1>4, <2>1, <2>2, <3>1
  <2>3. CASE k # L
    <3>1. L - 1 \in k .. (L - 1) /\ (L - 1) + 1 = L
      BY <1>2, <2>3
    <3> QED
      BY <1>4, <2>1, <3>1
  <2> QED
    BY <2>2, <2>3
<1> QED
  BY <1>7, <1>8 DEF L

-----------------------------------------------------------------------------
(***************************************************************************)
(* Lines                                                                   *)
(***************************************************************************)

\* A line ends at the next newline, or with the text.
LEMMA EndOfLineIs ==
  ASSUME NEW S, NEW text \in Seq(S), NEW k \in 1 .. (Len(text) + 1)
  PROVE  LET e == EndOfLine(text, k)
         IN  /\ e \in k .. (Len(text) + 1)
             /\ e = Len(text) + 1 \/ text[e] = Newline
             /\ \A j \in k .. (e - 1) : text[j] # Newline
             /\ LineAt(text, k) \in Seq(S) /\ Len(LineAt(text, k)) = e - k
             /\ \A c \in 1 .. (e - k) : LineAt(text, k)[c] = text[k + c - 1]
<1> DEFINE L    == Len(text)
           ends == {e \in k .. (L + 1) : e = L + 1 \/ text[e] = Newline}
           e    == EndOfLine(text, k)
<1>1. L \in Nat /\ k \in Nat
  OBVIOUS
<1>2. PICK m \in ends : \A h \in ends : m <= h
  <2>1. ends \subseteq Nat /\ L + 1 \in ends
    BY <1>1
  <2> HIDE DEF ends
  <2> QED
    BY <2>1, LeastNumber
<1>3. \A j \in k .. (m - 1) : text[j] # Newline
  <2> SUFFICES ASSUME NEW j \in k .. (m - 1), text[j] = Newline PROVE FALSE
    OBVIOUS
  <2>1. j \in ends /\ j < m
    BY <1>1, <1>2
  <2> QED
    BY <1>1, <1>2, <2>1
<1>4. /\ e \in k .. (L + 1) /\ (e = L + 1 \/ text[e] = Newline)
      /\ \A j \in k .. (e - 1) : text[j] # Newline
  <2>1. m \in k .. (L + 1) /\ (m = L + 1 \/ text[m] = Newline)
    BY <1>2
  <2> QED
    BY <1>3, <2>1 DEF EndOfLine, L
<1> HIDE DEF e
<1>5. \A j \in k .. (e - 1) : text[j] \in S
  BY <1>1, <1>4
<1>6. /\ k \in Int /\ e - 1 \in Int /\ (e - 1) - k + 1 = e - k /\ (k <= e - 1 <=> e - k # 0)
  BY <1>1, <1>4
<1>7. /\ SubSeq(text, k, e - 1) \in Seq(S)
      /\ Len(SubSeq(text, k, e - 1)) = e - k
      /\ \A c \in 1 .. (e - k) : SubSeq(text, k, e - 1)[c] = text[k + c - 1]
  BY <1>5, <1>6, SubSeqProperties
<1> QED
  BY <1>4, <1>7 DEF LineAt, e, L

\* A newline-free stretch that begins with a line due holds its pieces in
\* order, as far as it goes.
LEMMA PiecesInOrder ==
  ASSUME NEW b \in Batches, NEW text \in Seq(Pieces(b)), NEW record, NEW piece,
         Threaded(b, text, record, piece), NEW k \in 1 .. Len(text), piece[k - 1] = 1,
         NEW e \in (k + 1) .. (Len(text) + 1), \A j \in k .. (e - 1) : text[j] # Newline
  PROVE  LET j == record[k - 1]
             W == Len(Line(b, j))
         IN  /\ j \in 1 .. Len(b)
             /\ \A c \in 1 .. (e - k) :
                  c <= W => /\ text[k + c - 1] = Line(b, j)[c]
                            /\ IF c = W
                                 THEN record[k + c - 1] = j + 1 /\ piece[k + c - 1] = 1
                                 ELSE record[k + c - 1] = j /\ piece[k + c - 1] = c + 1
<1> DEFINE L == Len(text)
           j == record[k - 1]
           W == Len(Line(b, j))
           After(m) == IF m = W THEN record[k + m - 1] = j + 1 /\ piece[k + m - 1] = 1
                                ELSE record[k + m - 1] = j /\ piece[k + m - 1] = m + 1
           T == {m \in Nat : m <= e - k /\ m <= W =>
                               After(m) /\ (m # 0 => text[k + m - 1] = Line(b, j)[m])}
<1>1. /\ record \in [0 .. L -> Nat \ {0}] /\ piece \in [0 .. L -> Nat \ {0}]
      /\ \A l \in 1 .. L : Due(b, text, l, record, piece)
  BY DEF Threaded
<1>2. L \in Nat /\ k \in 1 .. L /\ k \in Nat /\ e \in Nat /\ k < e /\ e <= L + 1
  OBVIOUS
<1>3. j \in 1 .. Len(b)
  <2>1. k - 1 \in 0 .. L /\ k \in k .. (e - 1)
    BY <1>2
  <2>2. j \in Nat \ {0}
    BY <1>1, <2>1
  <2>3. text[k] # Newline
    BY <2>1
  <2>4. Due(b, text, k, record, piece)
    BY <1>1, <1>2
  <2>5. j <= Len(b)
    BY <2>3, <2>4 DEF Due
  <2>6. Len(b) \in Nat
    BY BatchesAssumption DEF IsSequence
  <2> QED
    BY <2>2, <2>5, <2>6
<1>4. W \in Nat \ {0}
  BY <1>3, LineIs
<1>5. piece[k - 1] = 1 /\ record[k - 1] = j
  OBVIOUS
<1> HIDE DEF j, W, L
<1>6. 0 \in T
  <2>1. k + 0 - 1 = k - 1 /\ 0 # W /\ 0 + 1 = 1
    BY <1>2, <1>4
  <2>2. After(0)
    BY <1>5, <2>1
  <2> QED
    BY <2>2
<1>7. ASSUME NEW m \in Nat, m \in T PROVE m + 1 \in T
  <2> SUFFICES ASSUME m + 1 <= e - k, m + 1 <= W
               PROVE  After(m + 1) /\ text[k + (m + 1) - 1] = Line(b, j)[m + 1]
    OBVIOUS
  <2>1. After(m)
    BY <1>2, <1>4, <1>7
  <2>2. m # W /\ k + m \in 1 .. L /\ k + m \in k .. (e - 1) /\ k + (m + 1) - 1 = k + m
    BY <1>2, <1>4
  <2>3. record[k + m - 1] = j /\ piece[k + m - 1] = m + 1
    BY <2>1, <2>2
  <2>4. text[k + m] # Newline /\ Due(b, text, k + m, record, piece)
    BY <1>1, <2>2
  <2>5. /\ text[k + m] = Line(b, j)[m + 1]
        /\ IF m + 1 = W THEN record[k + m] = j + 1 /\ piece[k + m] = 1
                        ELSE record[k + m] = j /\ piece[k + m] = (m + 1) + 1
    <3>1. /\ text[k + m] = Line(b, record[k + m - 1])[piece[k + m - 1]]
          /\ IF piece[k + m - 1] = Len(Line(b, record[k + m - 1]))
               THEN record[k + m] = record[k + m - 1] + 1 /\ piece[k + m] = 1
               ELSE record[k + m] = record[k + m - 1] /\ piece[k + m] = piece[k + m - 1] + 1
      BY <2>4 DEF Due
    <3> QED
      BY <2>3, <3>1 DEF W
  <2>6. After(m + 1)
    BY <2>2, <2>5, Zenon
  <2> QED
    BY <2>2, <2>5, <2>6
<1> HIDE DEF T
<1>8. \A m \in Nat : m \in T
  BY <1>6, <1>7, InductionOver
<1>9. ASSUME NEW c \in 1 .. (e - k), c <= W
      PROVE  After(c) /\ text[k + c - 1] = Line(b, j)[c]
  <2>1. c \in Nat /\ c <= e - k /\ c # 0
    BY <1>2
  <2>2. c \in T
    BY <1>8, <2>1
  <2> QED
    BY <1>9, <2>1, <2>2 DEF T
<1> QED
  BY <1>3, <1>9 DEF j, W

\* A line that is read as a record is the line that is due, all of it.
LEMMA WellFormedLine ==
  ASSUME NEW b \in Batches, NEW text \in Seq(Pieces(b)), NEW record, NEW piece,
         Threaded(b, text, record, piece), NEW k \in 1 .. Len(text), piece[k - 1] = 1,
         WellFormed(LineAt(text, k))
  PROVE  LET j == record[k - 1]
             e == EndOfLine(text, k)
             q == IF e = Len(text) + 1 THEN Len(text) ELSE e
         IN  /\ j \in 1 .. Len(b) /\ LineAt(text, k) = Line(b, j)
             /\ LineAt(text, k)[1].record = RecordOf(b[j])
             /\ record[q] = j + 1 /\ piece[q] = 1
<1> DEFINE L   == Len(text)
           j   == record[k - 1]
           e   == EndOfLine(text, k)
           raw == LineAt(text, k)
           W   == Len(Line(b, j))
<1>1. L \in Nat /\ k \in Nat /\ 1 <= k /\ k <= L
  OBVIOUS
<1>2. /\ e \in k .. (L + 1) /\ (e = L + 1 \/ text[e] = Newline)
      /\ \A l \in k .. (e - 1) : text[l] # Newline
      /\ raw \in Seq(Pieces(b)) /\ Len(raw) = e - k
      /\ \A c \in 1 .. (e - k) : raw[c] = text[k + c - 1]
  <2>1. k \in 1 .. (Len(text) + 1)
    OBVIOUS
  <2> QED
    BY <2>1, EndOfLineIs
<1>3. raw # <<>> /\ raw = MarshalLine(raw[1].record)
  BY DEF WellFormed
<1> HIDE DEF e, raw, L
<1>4. e \in (k + 1) .. (L + 1) /\ e - k \in Nat \ {0} /\ 1 \in 1 .. (e - k)
  <2>1. Len(raw) # 0
    BY <1>2, <1>3
  <2> QED
    BY <1>1, <1>2, <2>1
<1>5. /\ j \in 1 .. Len(b)
      /\ \A c \in 1 .. (e - k) :
           c <= W => /\ text[k + c - 1] = Line(b, j)[c]
                     /\ IF c = W
                          THEN record[k + c - 1] = j + 1 /\ piece[k + c - 1] = 1
                          ELSE record[k + c - 1] = j /\ piece[k + c - 1] = c + 1
  <2>1. e \in (k + 1) .. (Len(text) + 1) /\ \A l \in k .. (e - 1) : text[l] # Newline
    BY <1>2, <1>4 DEF L
  <2>2. record[k - 1] \in 1 .. Len(b)
    BY <2>1, PiecesInOrder
  <2>3. LET i == record[k - 1]
        IN  \A c \in 1 .. (e - k) :
              c <= Len(Line(b, i)) =>
                /\ text[k + c - 1] = Line(b, i)[c]
                /\ IF c = Len(Line(b, i))
                     THEN record[k + c - 1] = i + 1 /\ piece[k + c - 1] = 1
                     ELSE record[k + c - 1] = i /\ piece[k + c - 1] = c + 1
    BY <2>1, PiecesInOrder
  <2> QED
    BY <2>2, <2>3, Zenon
<1> HIDE DEF j
<1>6. W \in Nat \ {0} /\ \A c \in 1 .. W : Line(b, j)[c].record = RecordOf(b[j])
  BY <1>5, LineIs
<1>7. raw[1] = Line(b, j)[1] /\ raw[1].record = RecordOf(b[j])
  <2>1. 1 <= W /\ 1 \in 1 .. W
    BY <1>6
  <2>2. raw[1] = text[k + 1 - 1] /\ text[k + 1 - 1] = Line(b, j)[1]
    BY <1>2, <1>4, <1>5, <2>1
  <2> QED
    BY <1>6, <2>1, <2>2
<1>8. raw = Line(b, j)
  BY <1>3, <1>7, Zenon DEF Line
<1>9. W = e - k
  BY <1>2, <1>8
<1>10. record[e - 1] = j + 1 /\ piece[e - 1] = 1
  <2>1. W \in 1 .. (e - k) /\ W <= W /\ k + W - 1 = e - 1
    BY <1>1, <1>2, <1>4, <1>9
  <2> QED
    BY <1>5, <2>1
<1>11. ASSUME e # L + 1 PROVE record[e] = record[e - 1] /\ piece[e] = piece[e - 1]
  <2>1. e \in 1 .. L /\ text[e] = Newline
    BY <1>1, <1>2, <1>11
  <2>2. Due(b, text, e, record, piece)
    BY <2>1 DEF Threaded, L
  <2> QED
    BY <2>1, <2>2 DEF Due
<1>12. L + 1 - 1 = L
  BY <1>1
<1> QED
  BY <1>5, <1>7, <1>8, <1>10, <1>11, <1>12 DEF j, e, raw, L

\* In a text that nobody has touched the next line is the line that is due.
LEMMA CleanLine ==
  ASSUME NEW b \in Batches, NEW text \in Seq(Pieces(b)), NEW record, NEW piece,
         Threaded(b, text, record, piece), Clean(text, piece), Ended(text),
         NEW k \in 1 .. Len(text), piece[k - 1] = 1, k > 1 => text[k - 1] = Newline
  PROVE  /\ record[k - 1] \in 1 .. Len(b) /\ LineAt(text, k) = Line(b, record[k - 1])
         /\ WellFormed(LineAt(text, k)) /\ EndOfLine(text, k) <= Len(text)
<1> DEFINE L   == Len(text)
           j   == record[k - 1]
           e   == EndOfLine(text, k)
           raw == LineAt(text, k)
           W   == Len(Line(b, j))
<1>1. L \in Nat /\ k \in Nat /\ 1 <= k /\ k <= L
  OBVIOUS
<1>2. /\ e \in k .. (L + 1) /\ (e = L + 1 \/ text[e] = Newline)
      /\ \A l \in k .. (e - 1) : text[l] # Newline
      /\ raw \in Seq(Pieces(b)) /\ Len(raw) = e - k
      /\ \A c \in 1 .. (e - k) : raw[c] = text[k + c - 1]
  <2>1. k \in 1 .. (Len(text) + 1)
    OBVIOUS
  <2> QED
    BY <2>1, EndOfLineIs, ZenonT(40)
<1>3. \A l \in 1 .. L : text[l] = Newline <=> l > 1 /\ text[l - 1] # Newline /\ piece[l - 1] = 1
  BY DEF Clean
<1>4. L = 0 \/ text[L] = Newline
  BY DEF Ended
<1> HIDE DEF e, raw, L
<1>5. text[k] # Newline
  BY <1>1, <1>3
<1>6. e \in (k + 1) .. (L + 1) /\ e - k \in Nat \ {0}
  BY <1>1, <1>2, <1>5
<1>7. /\ j \in 1 .. Len(b)
      /\ \A c \in 1 .. (e - k) :
           c <= W => /\ text[k + c - 1] = Line(b, j)[c]
                     /\ IF c = W
                          THEN record[k + c - 1] = j + 1 /\ piece[k + c - 1] = 1
                          ELSE record[k + c - 1] = j /\ piece[k + c - 1] = c + 1
  BY <1>2, <1>6, PiecesInOrder DEF L
<1> HIDE DEF j
<1>8. /\ W \in Nat \ {0} /\ Line(b, j) \in Seq(Pieces(b))
      /\ \A c \in 1 .. W : Line(b, j)[c].record = RecordOf(b[j])
  BY <1>7, LineIs
<1> HIDE DEF W
<1>9. e <= L
  <2> SUFFICES ASSUME e = L + 1 PROVE FALSE
    BY <1>1, <1>2
  <2>1. L \in k .. (e - 1)
    BY <1>1, <1>6
  <2> QED
    BY <1>1, <1>2, <1>4, <2>1
<1>10. text[e] = Newline /\ e \in 1 .. L /\ piece[e - 1] = 1
  <2>1. text[e] = Newline /\ e \in 1 .. L
    BY <1>1, <1>2, <1>6, <1>9
  <2> QED
    BY <1>3, <2>1
<1>11. e - k >= W
  <2> SUFFICES ASSUME e - k < W PROVE FALSE
    BY <1>6, <1>8
  <2>1. e - k \in 1 .. (e - k) /\ e - k <= W /\ e - k # W /\ k + (e - k) - 1 = e - 1
    BY <1>1, <1>2, <1>6, <1>8
  <2>2. piece[k + (e - k) - 1] = (e - k) + 1
    BY <1>7, <2>1
  <2>3. piece[e - 1] = (e - k) + 1
    BY <2>1, <2>2, Zenon
  <2> QED
    BY <1>6, <1>10, <2>3
<1>12. e - k <= W
  <2> SUFFICES ASSUME e - k > W PROVE FALSE
    BY <1>6, <1>8
  <2>1. /\ W \in 1 .. (e - k) /\ W <= W /\ k + W - 1 \in k .. (e - 1) /\ k + W \in k .. (e - 1)
        /\ k + W \in 1 .. L /\ k + W > 1
    BY <1>1, <1>2, <1>6, <1>8, <1>9
  <2>2. piece[k + W - 1] = 1
    BY <1>7, <2>1
  <2>3. text[k + W] = Newline <=> k + W > 1 /\ text[k + W - 1] # Newline /\ piece[k + W - 1] = 1
    BY <1>3, <2>1
  <2> QED
    BY <1>2, <2>1, <2>2, <2>3
<1>13. raw = Line(b, j)
  <2>1. Len(raw) = W /\ Len(Line(b, j)) = W
    <3>1. e - k = W
      BY <1>6, <1>8, <1>11, <1>12
    <3> QED
      BY <1>2, <3>1 DEF W
  <2>2. ASSUME NEW c \in 1 .. W PROVE raw[c] = Line(b, j)[c]
    <3>1. c \in 1 .. (e - k) /\ c <= W
      BY <1>6, <1>8, <1>11
    <3> QED
      BY <1>2, <1>7, <3>1
  <2> QED
    BY <1>2, <1>8, <2>1, <2>2
<1>14. WellFormed(raw)
  <2>1. 1 \in 1 .. W
    BY <1>8
  <2>2. raw[1].record = RecordOf(b[j])
    BY <1>8, <1>13, <2>1
  <2>3. raw # <<>>
    BY <1>2, <1>6
  <2> QED
    BY <1>13, <2>2, <2>3, Zenon DEF WellFormed, Line
<1> QED
  BY <1>7, <1>9, <1>13, <1>14 DEF j, e, raw, L

-----------------------------------------------------------------------------
(***************************************************************************)
(* The invariant                                                           *)
(***************************************************************************)

TypeInv ==
  /\ calls \in Batches /\ n \in 1 .. (Len(calls) + 1)
  /\ buf \in Seq(Pieces(calls)) /\ file \in Seq(Pieces(calls))
  /\ edits \in Nat /\ pos \in Nat \ {0} /\ line \in Nat
  /\ pc \in {"line", "newline", "file", "read", "done"}
  /\ written \in {"none", "nil", "error"}
  /\ err \in {"none", "nil", "malformed", "too long", "read error"}
  /\ failing \in BOOLEAN /\ (pc \in {"line", "newline", "file"} => failing = FALSE)
  /\ pc # "done" => err = "none"
  /\ pc \in {"line", "newline", "file"} => pos = 1 /\ line = 0 /\ out = <<>>
  /\ pc \in {"line", "newline"} => written = "none" /\ edits = 0

\* What the writer has passed on, and what it holds, are the lines so far.
WriterInv ==
  /\ pc = "newline" => n <= Len(calls)
  /\ pc \in {"line", "newline"} =>
       \E record, piece :
         LET text == file \o buf
         IN  /\ Threaded(calls, text, record, piece) /\ Clean(text, piece)
             /\ record[Len(text)] = (IF pc = "line" THEN n ELSE n + 1)
             /\ piece[Len(text)] = 1
             /\ pc = "line" => Ended(text)
             /\ pc = "newline" => ~Ended(text)

\* What is in the file, whether the writer was done, whatever was edited and
\* however far it can be read.
Kept(record, piece) ==
  /\ Threaded(calls, file, record, piece)
  /\ written = "nil" /\ ~failing =>
       record[Len(file)] = Len(calls) + 1 /\ piece[Len(file)] = 1
  /\ edits = 0 => Clean(file, piece)
  /\ edits = 0 /\ written = "nil" /\ ~failing => Ended(file)

FileInv == pc \in {"file", "read", "done"} => \E record, piece : Kept(record, piece)

\* ReadAll is between two lines.
Between == pos = 1 \/ pos - 1 \in {k \in DOMAIN file : file[k] = Newline} \/ pos = Len(file) + 2

Intact == edits = 0 /\ written = "nil" /\ ~failing

\* The first records are read.
ReadInv ==
  pc = "read" =>
    /\ out \in Seq({RecordOf(calls[j]) : j \in DOMAIN calls})
    /\ Len(out) <= Len(calls) /\ \A j \in 1 .. Len(out) : out[j] = RecordOf(calls[j])
    /\ Between
    /\ \A record, piece : Kept(record, piece) =>
         LET k == IF pos = Len(file) + 2 THEN Len(file) ELSE pos - 1
         IN  record[k] = Len(out) + 1 /\ piece[k] = 1
    /\ Intact => /\ pos <= Len(file) + 1
                 /\ \A j \in 1 .. Len(out) : ~TooLong(Line(calls, j))

\* The lines before the next one are counted, and good.
CountInv ==
  pc = "read" =>
    /\ line = Cardinality({j \in LineStarts(file) : j < pos})
    /\ \A j \in LineStarts(file) :
         j < pos => LineAt(file, j) = <<>> \/ WellFormed(LineAt(file, j))

DoneInv == RoundTrip /\ DamageIsNoticed /\ ErrorNamesLine

GoldenInv == TypeInv /\ WriterInv /\ FileInv /\ ReadInv /\ CountInv /\ DoneInv

\* Until it is done, ReadAll has promised nothing.
LEMMA NothingPromised ==
  ASSUME pc # "done", err = "none"
  PROVE  DoneInv
BY DEF DoneInv, RoundTrip, DamageIsNoticed, ErrorNamesLine

LEMMA InitInv == Init => GoldenInv
<1> SUFFICES ASSUME Init PROVE GoldenInv
  OBVIOUS
<1>1. /\ calls \in Batches /\ pc = "line" /\ n = 1 /\ buf = <<>> /\ file = <<>> /\ written = "none"
      /\ edits = 0 /\ failing = FALSE /\ pos = 1 /\ line = 0 /\ out = <<>> /\ err = "none"
  BY DEF Init
<1>2. TypeInv
  <2>1. Len(calls) \in Nat
    BY <1>1, BatchesAssumption DEF IsSequence
  <2>2. n \in 1 .. (Len(calls) + 1)
    <3>1. n = 1
      BY <1>1, Zenon
    <3> QED
      BY <2>1, <3>1
  <2>3. <<>> \in Seq(Pieces(calls))
    OBVIOUS
  <2>4. buf \in Seq(Pieces(calls)) /\ file \in Seq(Pieces(calls))
    BY <1>1, <2>3, Zenon
  <2>5. calls \in Batches /\ pos = 1 /\ line = 0 /\ edits = 0 /\ out = <<>>
    BY <1>1, Zenon
  <2>6. pc = "line" /\ written = "none" /\ err = "none" /\ failing = FALSE /\ failing \in BOOLEAN
    BY <1>1, Zenon
  <2>7. edits \in Nat /\ pos \in Nat \ {0} /\ line \in Nat
    BY <2>5
  <2> QED
    BY <2>2, <2>4, <2>5, <2>6, <2>7, Zenon DEF TypeInv
<1>3. WriterInv
  <2> DEFINE one == [k \in 0 .. 0 |-> 1]
  <2>1. file \o buf = <<>> /\ Len(<<>>) = 0
    <3>1. <<>> \in Seq({}) /\ Len(<<>>) = 0
      OBVIOUS
    <3>2. <<>> \o <<>> = <<>>
      BY <3>1, ConcatEmptySeq
    <3> QED
      BY <1>1, <3>1, <3>2, Zenon
  <2>2. one \in [0 .. 0 -> Nat \ {0}] /\ one[0] = 1 /\ 1 .. 0 = {}
    OBVIOUS
  <2> HIDE DEF one
  <2>3. Threaded(calls, <<>>, one, one) /\ Clean(<<>>, one) /\ Ended(<<>>)
    BY <2>1, <2>2 DEF Threaded, Clean, Ended
  <2>4. one[Len(file \o buf)] = 1 /\ one[Len(file \o buf)] = n
    BY <1>1, <2>1, <2>2, Zenon
  <2>5. /\ Threaded(calls, file \o buf, one, one) /\ Clean(file \o buf, one)
        /\ Ended(file \o buf)
    BY <2>1, <2>3, Zenon
  <2> QED
    BY <1>1, <2>4, <2>5 DEF WriterInv
<1>4. FileInv /\ ReadInv /\ CountInv
  BY <1>1 DEF FileInv, ReadInv, CountInv
<1>5. DoneInv
  BY <1>1, NothingPromised
<1> QED
  BY <1>2, <1>3, <1>4, <1>5 DEF GoldenInv

-----------------------------------------------------------------------------
(***************************************************************************)
(* The writer                                                              *)
(***************************************************************************)

Writing == pc \in {"line", "newline"}

\* What the writer is given is a line or a newline, and it passes on a part.
LEMMA GivenIs ==
  ASSUME TypeInv, WriterInv, Writing
  PROVE  /\ Given \in Seq(Pieces(calls)) /\ PassedOn \in 0 .. Len(Given)
         /\ pc = "newline" => Given = Append(buf, Newline)
         /\ pc = "line" /\ ~AtFlush => Given = buf \o Line(calls, n) /\ n \in 1 .. Len(calls)
         /\ AtFlush => Given = buf /\ PassedOn = Len(buf) /\ n = Len(calls) + 1
<1>1. /\ calls \in Batches /\ n \in 1 .. (Len(calls) + 1) /\ buf \in Seq(Pieces(calls))
      /\ pc \in {"line", "newline"}
  BY DEF TypeInv, Writing
<1>2. Len(calls) \in Nat /\ n \in Nat
  BY <1>1, BatchesAssumption DEF IsSequence
<1>3. pc = "newline" => ~AtFlush /\ Given = Append(buf, Newline)
  BY DEF Given, AtFlush
<1>4. AtFlush => pc = "line" /\ Given = buf /\ PassedOn = Len(buf) /\ n = Len(calls) + 1
  BY <1>1, <1>2 DEF Given, AtFlush, PassedOn, Flushed
<1>5. ASSUME pc = "line", ~AtFlush
      PROVE  Given = buf \o Line(calls, n) /\ n \in 1 .. Len(calls)
  <2>1. Given = buf \o MarshalLine(RecordOf(calls[n]))
    BY <1>5 DEF Given
  <2>2. ~(n > Len(calls))
    BY <1>5 DEF AtFlush
  <2> QED
    BY <1>1, <1>2, <2>1, <2>2 DEF Line
<1>6. Given \in Seq(Pieces(calls))
  <2>1. CASE pc = "newline"
    <3>1. Newline \in Pieces(calls)
      BY DEF Pieces
    <3> QED
      BY <1>1, <1>3, <2>1, <3>1
  <2>2. CASE AtFlush
    BY <1>1, <1>4, <2>2
  <2>3. CASE pc = "line" /\ ~AtFlush
    <3>1. Line(calls, n) \in Seq(Pieces(calls))
      BY <1>1, <1>5, <2>3, LineIs
    <3>2. PICK w : w = Line(calls, n)
      OBVIOUS
    <3>3. buf \o w \in Seq(Pieces(calls))
      BY <1>1, <3>1, <3>2, ConcatProperties
    <3> QED
      BY <1>5, <2>3, <3>2, <3>3, Zenon
  <2> QED
    BY <1>1, <2>1, <2>2, <2>3
<1>7. PassedOn \in 0 .. Len(Given)
  <2> DEFINE g == Len(Given)
  <2>1. g \in Nat /\ BufferSize \in Nat
    BY <1>6, SizesAssumption
  <2>2. CASE AtFlush
    BY <1>1, <1>4, <2>2
  <2>3. CASE ~AtFlush
    <3>1. g <= BufferSize => PassedOn = 0
      BY <1>1, <1>2, <2>1, <2>3 DEF PassedOn, AtFlush
    <3>2. g > BufferSize =>
            PassedOn = IF buf = <<>> \/ g > 2 * BufferSize THEN g ELSE BufferSize
      BY <1>1, <1>2, <2>1, <2>3 DEF PassedOn, AtFlush
    <3> HIDE DEF g
    <3>3. PassedOn = 0 \/ PassedOn = g \/ (PassedOn = BufferSize /\ BufferSize < g)
      BY <2>1, <3>1, <3>2
    <3>4. PassedOn \in 0 .. g
      BY <2>1, <3>3
    <3> QED
      BY <3>4 DEF g
  <2> QED
    BY <2>2, <2>3
<1> QED
  BY <1>3, <1>4, <1>5, <1>6, <1>7

\* With what the writer is given, the text has one more line, or one that has
\* ended.
LEMMA GivenThreaded ==
  ASSUME TypeInv, WriterInv, Writing
  PROVE  LET text == file \o Given
         IN  /\ text \in Seq(Pieces(calls))
             /\ \E r, p :
                  /\ Threaded(calls, text, r, p) /\ Clean(text, p)
                  /\ r[Len(text)] = (IF AtFlush THEN n ELSE n + 1) /\ p[Len(text)] = 1
                  /\ pc = "line" /\ ~AtFlush => ~Ended(text)
                  /\ pc = "newline" \/ AtFlush => Ended(text)
<1>1. /\ calls \in Batches /\ buf \in Seq(Pieces(calls)) /\ file \in Seq(Pieces(calls))
      /\ n \in Nat /\ pc \in {"line", "newline"}
  <2>1. /\ calls \in Batches /\ buf \in Seq(Pieces(calls)) /\ file \in Seq(Pieces(calls))
        /\ n \in 1 .. (Len(calls) + 1) /\ pc \in {"line", "newline"}
    BY DEF TypeInv, Writing
  <2> QED
    BY <2>1, BatchesAssumption DEF IsSequence
<1>2. PICK text : text = file \o buf
  OBVIOUS
<1>3. text \in Seq(Pieces(calls)) /\ Len(text) \in Nat
  BY <1>1, <1>2
<1>4. PICK record, piece :
        /\ Threaded(calls, text, record, piece) /\ Clean(text, piece)
        /\ record[Len(text)] = (IF pc = "line" THEN n ELSE n + 1)
        /\ piece[Len(text)] = 1
        /\ pc = "line" => Ended(text)
        /\ pc = "newline" => ~Ended(text)
  BY <1>1, <1>2 DEF WriterInv
<1>5. PICK longer : longer = file \o Given
  OBVIOUS
<1>6. longer \in Seq(Pieces(calls))
  BY <1>1, <1>5, GivenIs
<1>7. CASE AtFlush
  <2>1. longer = text /\ pc = "line"
    BY <1>2, <1>5, <1>7, GivenIs, Zenon DEF AtFlush
  <2> QED
    BY <1>4, <1>5, <1>6, <1>7, <2>1, Zenon
<1>8. CASE pc = "line" /\ ~AtFlush
  <2>1. n \in 1 .. Len(calls) /\ Given = buf \o Line(calls, n)
    BY <1>8, GivenIs
  <2>2. longer = text \o Line(calls, n)
    <3>1. PICK w : w = Line(calls, n)
      OBVIOUS
    <3>2. w \in Seq(Pieces(calls))
      BY <1>1, <2>1, <3>1, LineIs
    <3>3. (file \o buf) \o w = file \o (buf \o w)
      BY <1>1, <3>2, ConcatAssociative
    <3> QED
      BY <1>2, <1>5, <2>1, <3>1, <3>3, Zenon
  <2>3. PICK m \in 1 .. Len(calls) : m = n
    BY <2>1
  <2>4. record[Len(text)] = m /\ Ended(text)
    BY <1>4, <1>8, <2>3
  <2>5. \E r, p : /\ Threaded(calls, longer, r, p) /\ Clean(longer, p) /\ ~Ended(longer)
                  /\ r[Len(longer)] = m + 1 /\ p[Len(longer)] = 1
    <3>1. longer = text \o Line(calls, m)
      BY <2>2, <2>3
    <3> QED
      BY <1>1, <1>3, <1>4, <2>4, <3>1, AppendLine, SMTT(40)
  <2> QED
    BY <1>5, <1>6, <1>8, <2>3, <2>5, Zenon
<1>9. CASE pc = "newline"
  <2>1. Given = Append(buf, Newline) /\ Newline \in Pieces(calls)
    BY <1>9, GivenIs DEF Pieces
  <2> DEFINE k == Len(text)
  <2>2. /\ Len(longer) = k + 1 /\ longer[k + 1] = Newline
        /\ \A l \in 1 .. k : longer[l] = text[l]
    <3>1. Len(file) \in Nat /\ Len(buf) \in Nat /\ k = Len(file) + Len(buf)
      BY <1>1, <1>2
    <3>2. longer = file \o Append(buf, Newline)
      BY <1>5, <2>1
    <3> HIDE DEF k
    <3>3. Len(longer) = k + 1 /\ longer[k + 1] = Newline
      BY <1>1, <2>1, <3>1, <3>2
    <3>4. ASSUME NEW l \in 1 .. k PROVE longer[l] = text[l]
      <4>1. CASE l <= Len(file)
        BY <1>1, <1>2, <2>1, <3>1, <3>2, <4>1
      <4>2. CASE l > Len(file)
        <5>1. l - Len(file) \in 1 .. Len(buf)
          BY <3>1, <4>2
        <5>2. longer[l] = buf[l - Len(file)]
          BY <1>1, <2>1, <3>1, <3>2, <4>2, <5>1
        <5>3. text[l] = buf[l - Len(file)]
          BY <1>1, <1>2, <3>1, <4>2, <5>1
        <5> QED
          BY <5>2, <5>3
      <4> QED
        BY <3>1, <4>1, <4>2
    <3> QED
      BY <3>3, <3>4
  <2>3. /\ k \in 0 .. Len(text)
        /\ \A l \in (k + 2) .. (Len(text) + 1) : longer[l] = text[l - 1]
    BY <1>3
  <2>4. \E r, p :
           /\ Threaded(calls, longer, r, p)
           /\ r[Len(longer)] = record[Len(text)] /\ p[Len(longer)] = piece[Len(text)]
           /\ Clean(text, piece) /\ k = Len(text) /\ ~Ended(text) /\ piece[Len(text)] = 1
                => Clean(longer, p)
    <3>1. Threaded(calls, text, record, piece) /\ Len(longer) = Len(text) + 1
      BY <1>4, <2>2
    <3> HIDE DEF k
    <3> QED
      BY <1>3, <1>6, <2>1, <2>2, <2>3, <3>1, InsertNewline
  <2>5. record[Len(text)] = n + 1 /\ ~Ended(text)
    BY <1>4, <1>9
  <2>6. Ended(longer)
    BY <2>2 DEF Ended
  <2>7. ~AtFlush
    BY <1>9 DEF AtFlush
  <2> QED
    BY <1>4, <1>5, <1>6, <1>9, <2>4, <2>5, <2>6, <2>7, Zenon
<1> QED
  BY <1>1, <1>7, <1>8, <1>9

\* What is passed on and what is kept make up what was given.
LEMMA SplitText ==
  ASSUME NEW S, NEW f \in Seq(S), NEW g \in Seq(S), NEW m \in 0 .. Len(g)
  PROVE  /\ f \o SubSeq(g, 1, m) \in Seq(S) /\ SubSeq(g, m + 1, Len(g)) \in Seq(S)
         /\ (f \o SubSeq(g, 1, m)) \o SubSeq(g, m + 1, Len(g)) = f \o g
         /\ f \o SubSeq(g, 1, m) = SubSeq(f \o g, 1, Len(f) + m)
         /\ m = Len(g) => f \o SubSeq(g, 1, m) = f \o g
<1> DEFINE front == SubSeq(g, 1, m)
           back  == SubSeq(g, m + 1, Len(g))
<1>1. Len(g) \in Nat /\ Len(f) \in Nat /\ m \in Nat /\ m <= Len(g)
  OBVIOUS
<1>2. /\ front \in Seq(S) /\ Len(front) = m /\ \A k \in 1 .. m : front[k] = g[k]
      /\ back \in Seq(S)
  BY <1>1
<1>3. front \o back = g
  <2>1. 1 \in 1 .. (Len(g) + 1) /\ m \in (1 - 1) .. Len(g) /\ Len(g) \in m .. Len(g)
    BY <1>1
  <2>2. SubSeq(g, 1, m) \o SubSeq(g, m + 1, Len(g)) = SubSeq(g, 1, Len(g))
    BY <2>1, ConcatAdjacentSubSeq
  <2>3. SubSeq(g, 1, Len(g)) = g
    BY SubSeqFull
  <2> QED
    BY <2>2, <2>3, Zenon
<1>4. m = Len(g) => front = g
  BY SubSeqFull
<1> HIDE DEF front, back
<1>5. (f \o front) \o back = f \o g
  <2>1. (f \o front) \o back = f \o (front \o back)
    <3>1. \A s, u, v \in Seq(S) : (s \o u) \o v = s \o (u \o v)
      BY ConcatAssociative, SMTT(40)
    <3> QED
      BY <1>2, <3>1
  <2> QED
    BY <1>3, <2>1, Zenon
<1>6. f \o front \in Seq(S) /\ f \o g \in Seq(S)
  BY <1>2
<1>7. f \o front = SubSeq(f \o g, 1, Len(f) + m)
  <2>1. Len(f \o front) = Len(f) + m /\ Len(f \o g) = Len(f) + Len(g)
    BY <1>1, <1>2, ConcatProperties
  <2>2. ASSUME NEW k \in 1 .. (Len(f) + m) PROVE (f \o front)[k] = (f \o g)[k]
    <3>1. /\ (f \o front)[k] = IF k <= Len(f) THEN f[k] ELSE front[k - Len(f)]
          /\ (f \o g)[k] = IF k <= Len(f) THEN f[k] ELSE g[k - Len(f)]
      BY <1>1, <1>2, ConcatProperties
    <3>2. k > Len(f) => k - Len(f) \in 1 .. m
      BY <1>1
    <3> QED
      BY <1>1, <1>2, <3>1, <3>2
  <2> DEFINE w == f \o g
             v == f \o front
  <2>3. w \in Seq(S) /\ v \in Seq(S) /\ Len(v) = Len(f) + m /\ Len(w) = Len(f) + Len(g)
    BY <1>6, <2>1
  <2>4. \A k \in 1 .. (Len(f) + m) : v[k] = w[k]
    BY <2>2
  <2> HIDE DEF w, v
  <2>5. v = SubSeq(w, 1, Len(f) + m)
    BY <1>1, <2>3, <2>4
  <2> QED
    BY <2>5 DEF w, v
<1> QED
  BY <1>2, <1>4, <1>5, <1>6, <1>7 DEF front, back

LEMMA WriteSplits ==
  ASSUME TypeInv, WriterInv, Writing, Write
  PROVE  /\ file' \in Seq(Pieces(calls)) /\ buf' \in Seq(Pieces(calls))
         /\ file' \o buf' = file \o Given
         /\ AtFlush => file' = file \o Given
<1>1. /\ file' = file \o SubSeq(Given, 1, PassedOn)
      /\ buf' = SubSeq(Given, PassedOn + 1, Len(Given))
  BY DEF Write
<1>2. /\ file \in Seq(Pieces(calls)) /\ Given \in Seq(Pieces(calls))
      /\ PassedOn \in 0 .. Len(Given)
      /\ AtFlush => PassedOn = Len(Given)
  BY GivenIs DEF TypeInv
<1>3. /\ file \o SubSeq(Given, 1, PassedOn) \in Seq(Pieces(calls))
      /\ SubSeq(Given, PassedOn + 1, Len(Given)) \in Seq(Pieces(calls))
      /\ (file \o SubSeq(Given, 1, PassedOn)) \o SubSeq(Given, PassedOn + 1, Len(Given))
           = file \o Given
      /\ PassedOn = Len(Given) => file \o SubSeq(Given, 1, PassedOn) = file \o Given
  BY <1>2, SplitText, ZenonT(90)
<1> QED
  BY <1>1, <1>2, <1>3, Zenon

\* A line, or its newline, is written.
LEMMA WriteInv ==
  ASSUME GoldenInv, WriteLine \/ WriteNewline
  PROVE  GoldenInv'
<1>1. /\ Write /\ Writing /\ ~AtFlush
      /\ \/ pc = "line" /\ pc' = "newline" /\ n' = n /\ n \in 1 .. Len(calls)
         \/ pc = "newline" /\ pc' = "line" /\ n' = n + 1 /\ n \in 1 .. Len(calls)
      /\ UNCHANGED <<calls, edits, failing, written, pos, line, out, err>>
  <2>1. CASE WriteLine
    <3>1. Write /\ pc = "line" /\ ~AtFlush /\ pc' = "newline" /\ n' = n /\ written' = written
      BY <2>1 DEF WriteLine
    <3>2. Writing /\ n \in 1 .. Len(calls)
      BY <3>1, GivenIs DEF Writing, GoldenInv
    <3> QED
      BY <3>1, <3>2 DEF Write, reader
  <2>2. CASE WriteNewline
    <3>1. Write /\ pc = "newline" /\ pc' = "line" /\ n' = n + 1 /\ written' = written
      BY <2>2 DEF WriteNewline
    <3>2. Writing /\ ~AtFlush
      BY <3>1 DEF Writing, AtFlush
    <3>3. n \in 1 .. (Len(calls) + 1) /\ n <= Len(calls) /\ calls \in Batches
      BY <3>1 DEF GoldenInv, WriterInv, TypeInv
    <3>4. n \in 1 .. Len(calls)
      BY <3>3, BatchesAssumption DEF IsSequence
    <3> QED
      BY <3>1, <3>2, <3>4 DEF Write, reader
  <2> QED
    BY <2>1, <2>2
<1>2. TypeInv /\ WriterInv /\ calls \in Batches /\ Len(calls) \in Nat
  BY BatchesAssumption DEF GoldenInv, TypeInv, IsSequence
<1>3. /\ file' \in Seq(Pieces(calls)) /\ buf' \in Seq(Pieces(calls))
      /\ file' \o buf' = file \o Given
  BY <1>1, <1>2, WriteSplits
<1>4. TypeInv'
  <2>1. n' \in 1 .. (Len(calls) + 1) /\ pc' \in {"line", "newline"}
    BY <1>1, <1>2
  <2>2. /\ edits \in Nat /\ pos \in Nat \ {0} /\ line \in Nat
        /\ written = "none" /\ edits = 0 /\ err = "none" /\ pos = 1 /\ line = 0 /\ out = <<>>
        /\ failing = FALSE
    BY <1>1, <1>2 DEF TypeInv, Writing
  <2>3. calls' \in Batches /\ n' \in 1 .. (Len(calls') + 1)
    BY <1>1, <1>2, <2>1
  <2>4. buf' \in Seq(Pieces(calls')) /\ file' \in Seq(Pieces(calls'))
    BY <1>1, <1>3
  <2>5. /\ edits' = 0 /\ pos' = 1 /\ line' = 0
        /\ written' = "none" /\ err' = "none" /\ failing' = FALSE /\ failing' \in BOOLEAN
    BY <1>1, <2>2
  <2>6. out' = <<>>
    BY <1>1, <2>2, Zenon
  <2>7. edits' \in Nat /\ pos' \in Nat \ {0} /\ line' \in Nat
    <3>1. edits' = 0 /\ pos' = 1 /\ line' = 0
      BY <2>5
    <3> QED
      BY <3>1
  <2> QED
    BY <2>1, <2>3, <2>4, <2>5, <2>6, <2>7, Zenon DEF TypeInv
<1>5. WriterInv'
  <2>1. PICK text : text = file \o Given
    OBVIOUS
  <2>2. PICK r, p :
          /\ Threaded(calls, text, r, p) /\ Clean(text, p)
          /\ r[Len(text)] = (IF AtFlush THEN n ELSE n + 1) /\ p[Len(text)] = 1
          /\ pc = "line" /\ ~AtFlush => ~Ended(text)
          /\ pc = "newline" \/ AtFlush => Ended(text)
    BY <1>1, <1>2, <2>1, GivenThreaded
  <2>3. file' \o buf' = text
    BY <1>3, <2>1
  <2>4. r[Len(text)] = (IF pc' = "line" THEN n' ELSE n' + 1)
    BY <1>1, <2>2
  <2>5. (pc' = "line" => Ended(text)) /\ (pc' = "newline" => ~Ended(text))
    BY <1>1, <2>2
  <2>6. pc' = "newline" => n' <= Len(calls')
    BY <1>1, <1>2
  <2>7. Threaded(calls', text, r, p) /\ Clean(text, p) /\ p[Len(text)] = 1
    BY <1>1, <2>2
  <2>8. \E record, piece :
         LET t == file' \o buf'
         IN  /\ Threaded(calls', t, record, piece) /\ Clean(t, piece)
             /\ record[Len(t)] = (IF pc' = "line" THEN n' ELSE n' + 1)
             /\ piece[Len(t)] = 1
             /\ pc' = "line" => Ended(t)
             /\ pc' = "newline" => ~Ended(t)
    BY <2>3, <2>4, <2>5, <2>7, Zenon
  <2> QED
    BY <2>6, <2>8, Zenon DEF WriterInv
<1>6. FileInv' /\ ReadInv' /\ CountInv'
  BY <1>1 DEF FileInv, ReadInv, CountInv
<1>7. DoneInv'
  <2>1. pc' # "done" /\ err' = "none"
    BY <1>1, <1>2 DEF TypeInv
  <2> QED
    BY <2>1 DEF DoneInv, RoundTrip, DamageIsNoticed, ErrorNamesLine
<1> QED
  BY <1>4, <1>5, <1>6, <1>7 DEF GoldenInv

\* What the parts of the invariant come to when the file is first left alone.
LEMMA LeftInv ==
  ASSUME GoldenInv, Writing, pc' = "file", file' \in Seq(Pieces(calls)), buf' \in Seq(Pieces(calls)),
         written' \in {"none", "nil", "error"}, UNCHANGED <<calls, n, edits, failing, pos, line, out, err>>,
         NEW record, NEW piece, Threaded(calls, file', record, piece), Clean(file', piece),
         written' = "nil" => /\ record[Len(file')] = Len(calls) + 1 /\ piece[Len(file')] = 1
                             /\ Ended(file')
  PROVE  GoldenInv'
<1>1. TypeInv'
  <2>1. /\ calls \in Batches /\ n \in 1 .. (Len(calls) + 1)
        /\ edits = 0 /\ err = "none" /\ pos = 1 /\ line = 0 /\ failing = FALSE
    BY DEF GoldenInv, TypeInv, Writing
  <2>2. out = <<>>
    BY DEF GoldenInv, TypeInv, Writing
  <2>3. edits' \in Nat /\ pos' \in Nat \ {0} /\ line' \in Nat
    <3>1. edits' = 0 /\ pos' = 1 /\ line' = 0
      BY <2>1
    <3>2. 0 \in Nat /\ 1 \in Nat \ {0}
      OBVIOUS
    <3> QED
      BY <3>1, <3>2, Zenon
  <2>4. calls' \in Batches /\ n' \in 1 .. (Len(calls') + 1)
    BY <2>1
  <2>5. buf' \in Seq(Pieces(calls')) /\ file' \in Seq(Pieces(calls'))
    OBVIOUS
  <2>6. err' = "none" /\ pos' = 1 /\ line' = 0 /\ failing' = FALSE /\ failing' \in BOOLEAN
    BY <2>1
  <2>7. out' = <<>>
    BY <2>2, Zenon
  <2> QED
    BY <2>3, <2>4, <2>5, <2>6, <2>7, Zenon DEF TypeInv
<1>2. WriterInv' /\ ReadInv' /\ CountInv'
  BY DEF WriterInv, ReadInv, CountInv
<1>3. Kept(record, piece)'
  BY DEF Kept
<1>4. FileInv'
  BY <1>3 DEF FileInv
<1>5. DoneInv'
  <2>1. pc' # "done" /\ err' = "none"
    BY DEF GoldenInv, TypeInv, Writing
  <2> QED
    BY <2>1 DEF DoneInv, RoundTrip, DamageIsNoticed, ErrorNamesLine
<1> QED
  BY <1>1, <1>2, <1>4, <1>5 DEF GoldenInv

LEMMA FlushInv ==
  ASSUME GoldenInv, Flush
  PROVE  GoldenInv'
<1>1. /\ AtFlush /\ Write /\ pc' = "file" /\ written' = "nil" /\ n' = n /\ pc = "line" /\ Writing
      /\ UNCHANGED <<calls, edits, failing, pos, line, out, err>>
  BY DEF Flush, AtFlush, Write, Writing, reader
<1>2. TypeInv /\ WriterInv
  BY DEF GoldenInv
<1>3. file' \in Seq(Pieces(calls)) /\ buf' \in Seq(Pieces(calls)) /\ file' = file \o Given
  BY <1>1, <1>2, WriteSplits
<1>4. n = Len(calls) + 1
  BY <1>1, <1>2, GivenIs
<1>5. PICK text : text = file \o Given
  OBVIOUS
<1>6. PICK r, p :
        /\ Threaded(calls, text, r, p) /\ Clean(text, p)
        /\ r[Len(text)] = (IF AtFlush THEN n ELSE n + 1) /\ p[Len(text)] = 1
        /\ pc = "newline" \/ AtFlush => Ended(text)
  BY <1>1, <1>2, <1>5, GivenThreaded
<1>7. /\ Threaded(calls, file', r, p) /\ Clean(file', p) /\ Ended(file')
      /\ r[Len(file')] = Len(calls) + 1 /\ p[Len(file')] = 1
  <2>1. file' = text
    BY <1>3, <1>5
  <2> QED
    BY <1>1, <1>4, <1>6, <2>1, Zenon
<1> QED
  BY <1>1, <1>3, <1>7, LeftInv

\* WriteAll fails, or its process ends: a part of what it has written is there.
LEMMA CutShortInv ==
  ASSUME GoldenInv, WriteError \/ Crash
  PROVE  GoldenInv'
<1>1. /\ Writing /\ pc' = "file" /\ written' # "nil" /\ written' \in {"none", "error"}
      /\ UNCHANGED <<calls, n, buf, edits, failing, pos, line, out, err>>
  <2>1. CASE WriteError
    BY <2>1 DEF WriteError, Writing, reader
  <2>2. CASE Crash
    BY <2>2 DEF Crash, Writing, reader, writer, GoldenInv, TypeInv
  <2> QED
    BY <2>1, <2>2
<1>2. TypeInv /\ WriterInv /\ file \in Seq(Pieces(calls)) /\ buf \in Seq(Pieces(calls))
  BY DEF GoldenInv, TypeInv
<1>3. Given \in Seq(Pieces(calls)) /\ PassedOn \in 0 .. Len(Given)
  BY <1>1, <1>2, GivenIs
<1>4. PICK m \in 0 .. Len(Given) : file' = file \o SubSeq(Given, 1, m)
  <2>1. PICK k \in 0 .. PassedOn : file' = file \o SubSeq(Given, 1, k)
    <3>1. CASE WriteError
      <4>1. PICK k \in 0 .. (PassedOn - 1) : file' = file \o SubSeq(Given, 1, k)
        BY <3>1 DEF WriteError
      <4>2. k \in 0 .. PassedOn
        BY <1>3
      <4> QED
        BY <4>1, <4>2
    <3>2. CASE Crash
      BY <3>2 DEF Crash
    <3> QED
      BY <3>1, <3>2
  <2>2. k \in 0 .. Len(Given)
    BY <1>3
  <2> QED
    BY <2>1, <2>2
<1>5. PICK text : text = file \o Given
  OBVIOUS
<1>6. PICK r, p : Threaded(calls, text, r, p) /\ Clean(text, p)
  BY <1>1, <1>2, <1>5, GivenThreaded
<1>7. PICK q : q = Len(file) + m
  OBVIOUS
<1>8. text \in Seq(Pieces(calls)) /\ q \in 0 .. Len(text)
  BY <1>2, <1>3, <1>5, <1>7
<1>9. file' = SubSeq(text, 1, q) /\ file' \in Seq(Pieces(calls))
  <2>1. /\ file \o SubSeq(Given, 1, m) \in Seq(Pieces(calls))
        /\ file \o SubSeq(Given, 1, m) = SubSeq(file \o Given, 1, Len(file) + m)
    BY <1>2, <1>3, SplitText
  <2> QED
    BY <1>4, <1>5, <1>7, <2>1, Zenon
<1>10. /\ Threaded(calls, SubSeq(text, 1, q), Upto(r, q), Upto(p, q))
       /\ Clean(SubSeq(text, 1, q), Upto(p, q))
  BY <1>6, <1>8, PrefixThreaded, Zenon
<1>11. \E record, piece : Threaded(calls, file', record, piece) /\ Clean(file', piece)
  BY <1>9, <1>10, Zenon
<1>12. PICK record, piece : Threaded(calls, file', record, piece) /\ Clean(file', piece)
  BY <1>11
<1>13. buf' \in Seq(Pieces(calls)) /\ written' \in {"none", "nil", "error"}
  BY <1>1, <1>2
<1> QED
  BY <1>1, <1>9, <1>12, <1>13, LeftInv

-----------------------------------------------------------------------------
(***************************************************************************)
(* The file                                                                *)
(***************************************************************************)

WithBreak(text, k, x) == SubSeq(text, 1, k) \o <<x>> \o SubSeq(text, k + 1, Len(text))

LEMMA BreakLine ==
  ASSUME NEW S, NEW text \in Seq(S), NEW x \in S, NEW k \in 0 .. Len(text)
  PROVE  LET longer == WithBreak(text, k, x)
         IN  /\ longer \in Seq(S) /\ Len(longer) = Len(text) + 1 /\ longer[k + 1] = x
             /\ \A l \in 1 .. k : longer[l] = text[l]
             /\ \A l \in (k + 2) .. (Len(text) + 1) : longer[l] = text[l - 1]
<1> DEFINE front == SubSeq(text, 1, k)
           back  == SubSeq(text, k + 1, Len(text))
           most  == front \o <<x>>
           all   == most \o back
           L     == Len(text)
<1>1. L \in Nat /\ k \in Nat /\ k <= L
  OBVIOUS
<1>2. front \in Seq(S) /\ Len(front) = k /\ \A l \in 1 .. k : front[l] = text[l]
  BY <1>1
<1>3. back \in Seq(S) /\ Len(back) = L - k /\ \A l \in 1 .. (L - k) : back[l] = text[k + l]
  BY <1>1
<1> HIDE DEF front, back, L
<1>4. /\ most \in Seq(S) /\ Len(most) = k + 1 /\ most[k + 1] = x
      /\ \A l \in 1 .. k : most[l] = text[l]
  BY <1>1, <1>2
<1> HIDE DEF most
<1>5. /\ all \in Seq(S) /\ Len(all) = L + 1
      /\ \A l \in 1 .. (k + 1) : all[l] = most[l]
      /\ \A l \in 1 .. (L - k) : all[k + 1 + l] = back[l]
  <2>1. /\ all \in Seq(S) /\ Len(all) = Len(most) + Len(back)
        /\ \A l \in 1 .. Len(most) : all[l] = most[l]
        /\ \A l \in 1 .. Len(back) : all[Len(most) + l] = back[l]
    <3>1. most \in Seq(S) /\ back \in Seq(S)
      BY <1>3, <1>4
    <3> QED
      BY <3>1, ConcatElements
  <2>2. Len(most) = k + 1 /\ Len(back) = L - k /\ (k + 1) + (L - k) = L + 1
    BY <1>1, <1>3, <1>4
  <2> QED
    BY <2>1, <2>2, Zenon
<1> HIDE DEF all
<1>6. ASSUME NEW l \in (k + 2) .. (L + 1) PROVE all[l] = text[l - 1]
  <2>1. l - k - 1 \in 1 .. (L - k) /\ k + 1 + (l - k - 1) = l /\ k + (l - k - 1) = l - 1
    BY <1>1
  <2> QED
    BY <1>3, <1>5, <2>1
<1>7. all[k + 1] = x /\ \A l \in 1 .. k : all[l] = text[l]
  BY <1>1, <1>4, <1>5
<1> QED
  BY <1>5, <1>6, <1>7 DEF WithBreak, all, most, front, back, L

LEMMA JoinLines ==
  ASSUME NEW S, NEW text \in Seq(S), NEW k \in 1 .. Len(text),
         NEW shorter, shorter = RemoveAt(text, k)
  PROVE  /\ shorter \in Seq(S) /\ Len(shorter) = Len(text) - 1
         /\ \A l \in 1 .. (k - 1) : shorter[l] = text[l]
         /\ \A l \in k .. (Len(text) - 1) : shorter[l] = text[l + 1]
<1> DEFINE front == SubSeq(text, 1, k - 1)
           back  == SubSeq(text, k + 1, Len(text))
           all   == front \o back
           L     == Len(text)
<1>1. L \in Nat /\ k \in Nat /\ 1 <= k /\ k <= L
  OBVIOUS
<1>2. /\ front \in Seq(S) /\ Len(front) = k - 1
      /\ \A l \in 1 .. (k - 1) : front[l] = text[l]
  BY <1>1
<1>3. back \in Seq(S) /\ Len(back) = L - k /\ \A l \in 1 .. (L - k) : back[l] = text[k + l]
  BY <1>1
<1> HIDE DEF front, back, L
<1>4. /\ all \in Seq(S) /\ Len(all) = L - 1
      /\ \A l \in 1 .. (k - 1) : all[l] = front[l]
      /\ \A l \in 1 .. (L - k) : all[k - 1 + l] = back[l]
  <2>1. /\ all \in Seq(S) /\ Len(all) = Len(front) + Len(back)
        /\ \A l \in 1 .. Len(front) : all[l] = front[l]
        /\ \A l \in 1 .. Len(back) : all[Len(front) + l] = back[l]
    <3>1. front \in Seq(S) /\ back \in Seq(S)
      BY <1>2, <1>3
    <3> QED
      BY <3>1, ConcatElements
  <2>2. Len(front) = k - 1 /\ Len(back) = L - k /\ (k - 1) + (L - k) = L - 1
    BY <1>1, <1>2, <1>3
  <2> QED
    BY <2>1, <2>2, Zenon
<1> HIDE DEF all
<1>5. ASSUME NEW l \in k .. (L - 1) PROVE all[l] = text[l + 1]
  <2>1. l - k + 1 \in 1 .. (L - k) /\ k - 1 + (l - k + 1) = l /\ k + (l - k + 1) = l + 1
    BY <1>1
  <2> QED
    BY <1>3, <1>4, <2>1
<1>6. RemoveAt(text, k) = all
  BY DEF RemoveAt, all, front, back
<1> QED
  BY <1>2, <1>4, <1>5, <1>6 DEF L

LEMMA EditInv ==
  ASSUME GoldenInv, Edit
  PROVE  GoldenInv'
<1>1. /\ pc = "file" /\ pc' = "file" /\ edits' = edits + 1
      /\ UNCHANGED <<calls, n, buf, written, failing, pos, line, out, err>>
  BY DEF Edit, writer, reader
<1>2. /\ TypeInv /\ calls \in Batches /\ file \in Seq(Pieces(calls)) /\ edits \in Nat
      /\ Newline \in Pieces(calls)
  BY DEF GoldenInv, TypeInv, Pieces
<1>3. PICK record, piece : Kept(record, piece)
  BY <1>1 DEF GoldenInv, FileInv
<1>4. Threaded(calls, file, record, piece)
  BY <1>3 DEF Kept
<1>5. /\ file' \in Seq(Pieces(calls))
      /\ \E r, p : /\ Threaded(calls, file', r, p)
                   /\ r[Len(file')] = record[Len(file)] /\ p[Len(file')] = piece[Len(file)]
  <2>1. PICK text : text = file
    OBVIOUS
  <2>2. PICK S : S = Pieces(calls)
    OBVIOUS
  <2>3. text \in Seq(S) /\ Newline \in S /\ Threaded(calls, text, record, piece)
    BY <1>2, <1>4, <2>1, <2>2, Zenon
  <2>4. PICK edited : edited = file'
    OBVIOUS
  <2>5. /\ edited \in Seq(S)
        /\ \E r, p : /\ Threaded(calls, edited, r, p)
                     /\ r[Len(edited)] = record[Len(text)] /\ p[Len(edited)] = piece[Len(text)]
    <3>1. CASE \E k \in 0 .. Len(text) :
                 edited = SubSeq(text, 1, k) \o <<Newline>> \o SubSeq(text, k + 1, Len(text))
      <4>1. PICK k \in 0 .. Len(text) :
              edited = SubSeq(text, 1, k) \o <<Newline>> \o SubSeq(text, k + 1, Len(text))
        BY <3>1
      <4>2. /\ edited \in Seq(S) /\ Len(edited) = Len(text) + 1 /\ edited[k + 1] = Newline
            /\ \A l \in 1 .. k : edited[l] = text[l]
            /\ \A l \in (k + 2) .. (Len(text) + 1) : edited[l] = text[l - 1]
        <5>1. text \in Seq(S) /\ Newline \in S
          BY <2>3
        <5>2. edited = WithBreak(text, k, Newline)
          BY <4>1 DEF WithBreak
        <5>3. LET longer == WithBreak(text, k, Newline)
              IN  longer \in Seq(S) /\ Len(longer) = Len(text) + 1 /\ longer[k + 1] = Newline
          BY <5>1, BreakLine
        <5>4. \A l \in 1 .. k : WithBreak(text, k, Newline)[l] = text[l]
          BY <5>1, BreakLine
        <5>5. \A l \in (k + 2) .. (Len(text) + 1) :
                WithBreak(text, k, Newline)[l] = text[l - 1]
          BY <5>1, BreakLine
        <5> QED
          BY <5>2, <5>3, <5>4, <5>5, Zenon
      <4>3. \E r, p : /\ Threaded(calls, edited, r, p)
                      /\ r[Len(edited)] = record[Len(text)] /\ p[Len(edited)] = piece[Len(text)]
        BY <2>3, <4>2, InsertNewline
      <4> QED
        BY <4>2, <4>3
    <3>2. CASE \E k \in DOMAIN text : text[k] = Newline /\ edited = RemoveAt(text, k)
      <4>1. PICK k \in 1 .. Len(text) : text[k] = Newline /\ edited = RemoveAt(text, k)
        BY <2>3, <3>2
      <4>2. /\ edited \in Seq(S) /\ Len(edited) = Len(text) - 1
            /\ \A l \in 1 .. (k - 1) : edited[l] = text[l]
            /\ \A l \in k .. (Len(text) - 1) : edited[l] = text[l + 1]
        <5>1. text \in Seq(S)
          BY <2>3
        <5>2. LET shorter == RemoveAt(text, k)
              IN  /\ shorter \in Seq(S) /\ Len(shorter) = Len(text) - 1
                  /\ \A l \in 1 .. (k - 1) : shorter[l] = text[l]
                  /\ \A l \in k .. (Len(text) - 1) : shorter[l] = text[l + 1]
          BY <5>1, JoinLines, ZenonT(40)
        <5> QED
          BY <4>1, <5>2, Zenon
      <4>3. \E r, p : /\ Threaded(calls, edited, r, p)
                      /\ r[Len(edited)] = record[Len(text)] /\ p[Len(edited)] = piece[Len(text)]
        <5>1. text \in Seq(S) /\ Threaded(calls, text, record, piece) /\ text[k] = Newline
          BY <2>3, <4>1
        <5>2. edited \in Seq(S) /\ IsJoined(text, k, edited)
          BY <4>2, Zenon DEF IsJoined
        <5> QED
          BY <5>1, <5>2, RemoveNewline
      <4> QED
        BY <4>2, <4>3
    <3> QED
      BY <2>1, <2>4, <3>1, <3>2, Zenon DEF Edit
  <2> QED
    BY <2>1, <2>2, <2>4, <2>5, Zenon
<1>6. PICK r, p :
        /\ Threaded(calls, file', r, p)
        /\ r[Len(file')] = record[Len(file)] /\ p[Len(file')] = piece[Len(file)]
  BY <1>5
<1>7. edits' \in Nat /\ edits' # 0
  BY <1>1, <1>2
<1>8. TypeInv'
  BY <1>1, <1>2, <1>5, <1>7 DEF TypeInv
<1>9. FileInv'
  <2>1. Kept(r, p)'
    <3>1. written' = "nil" /\ ~failing' => r[Len(file')] = Len(calls) + 1 /\ p[Len(file')] = 1
      BY <1>1, <1>3, <1>6 DEF Kept
    <3> QED
      BY <1>1, <1>6, <1>7, <3>1 DEF Kept
  <2> QED
    BY <2>1 DEF FileInv
<1>10. WriterInv' /\ ReadInv' /\ CountInv'
  BY <1>1 DEF WriterInv, ReadInv, CountInv
<1>11. DoneInv'
  <2>1. pc' # "done" /\ err' = "none"
    BY <1>1, <1>2 DEF TypeInv
  <2> QED
    BY <2>1 DEF DoneInv, RoundTrip, DamageIsNoticed, ErrorNamesLine
<1> QED
  BY <1>8, <1>9, <1>10, <1>11 DEF GoldenInv

\* What the file is does not change while it is read.
LEMMA KeptStays ==
  ASSUME UNCHANGED <<calls, file, written, edits, failing>>, NEW record, NEW piece
  PROVE  Kept(record, piece)' <=> Kept(record, piece)
BY DEF Kept

LEMMA LineStartsIs ==
  ASSUME NEW S, NEW text \in Seq(S)
  PROVE  /\ \A j : j \in LineStarts(text) <=>
                     j = 1 \/ (j - 1 \in 1 .. Len(text) /\ j \in Nat /\ text[j - 1] = Newline)
         /\ LineStarts(text) \subseteq 1 .. (Len(text) + 1)
         /\ \A T \in SUBSET LineStarts(text) : IsFiniteSet(T)
<1> DEFINE L == Len(text)
<1>1. L \in Nat /\ DOMAIN text = 1 .. L
  OBVIOUS
<1> HIDE DEF L
<1>2. \A j : j \in LineStarts(text) <=>
               j = 1 \/ (j - 1 \in 1 .. L /\ j \in Nat /\ text[j - 1] = Newline)
  <2>1. ASSUME NEW j, j \in LineStarts(text)
        PROVE  j = 1 \/ (j - 1 \in 1 .. L /\ j \in Nat /\ text[j - 1] = Newline)
    <3>1. j = 1 \/ \E k \in 1 .. L : text[k] = Newline /\ j = k + 1
      BY <1>1, <2>1 DEF LineStarts
    <3> QED
      BY <1>1, <3>1
  <2>2. ASSUME NEW j, j - 1 \in 1 .. L, j \in Nat, text[j - 1] = Newline
        PROVE  j \in LineStarts(text)
    <3>1. j = (j - 1) + 1
      BY <2>2
    <3> QED
      BY <1>1, <2>2, <3>1 DEF LineStarts
  <2>3. 1 \in LineStarts(text)
    BY DEF LineStarts
  <2> QED
    BY <2>1, <2>2, <2>3
<1>3. LineStarts(text) \subseteq 1 .. (L + 1)
  BY <1>1, <1>2
<1>4. ASSUME NEW T \in SUBSET LineStarts(text) PROVE IsFiniteSet(T)
  <2>1. IsFiniteSet(1 .. (L + 1))
    BY <1>1, FS_Interval
  <2> QED
    BY <1>3, <2>1, FS_Subset
<1> QED
  BY <1>2, <1>3, <1>4 DEF L

\* A file that can be read up to a point only keeps what it has up to there.
LEMMA KeptInPart ==
  ASSUME NEW record, NEW piece, Kept(record, piece), NEW S, file \in Seq(S), NEW m \in 0 .. Len(file),
         file' = SubSeq(file, 1, m), failing' = TRUE, UNCHANGED <<calls, written, edits>>
  PROVE  \E r, p : Kept(r, p)'
<1>1. PICK r : r = Upto(record, m)
  OBVIOUS
<1>2. PICK p : p = Upto(piece, m)
  OBVIOUS
<1>3. PICK text : text = file
  OBVIOUS
<1>4. PICK front : front = SubSeq(text, 1, m)
  OBVIOUS
<1>5. Threaded(calls, text, record, piece) /\ (edits = 0 => Clean(text, piece))
  BY <1>3, Zenon DEF Kept
<1>6. text \in Seq(S) /\ m \in 0 .. Len(text) /\ file' = front
  BY <1>3, <1>4
<1>7. Threaded(calls, front, r, p) /\ (Clean(text, piece) => Clean(front, p))
  <2>1. LET w == SubSeq(text, 1, m)
            x == Upto(record, m)
            y == Upto(piece, m)
        IN  Threaded(calls, w, x, y) /\ (Clean(text, piece) => Clean(w, y))
    BY <1>5, <1>6, PrefixThreaded
  <2> QED
    BY <1>1, <1>2, <1>4, <2>1, Zenon
<1>8. Kept(r, p)'
  BY <1>5, <1>6, <1>7, Zenon DEF Kept
<1> QED
  BY <1>8

LEMMA OpenInv ==
  ASSUME GoldenInv, Open
  PROVE  GoldenInv'
<1>1. /\ pc = "file" /\ pc' = "read"
      /\ \/ UNCHANGED <<file, failing>>
         \/ failing' = TRUE /\ \E k \in 0 .. Len(file) : file' = SubSeq(file, 1, k)
      /\ UNCHANGED <<calls, n, buf, written, edits, pos, line, out, err>>
  BY DEF Open, writer, reader
<1>2. /\ TypeInv /\ calls \in Batches /\ file \in Seq(Pieces(calls)) /\ Len(calls) \in Nat
      /\ pos = 1 /\ line = 0 /\ out = <<>> /\ err = "none"
  BY <1>1, BatchesAssumption DEF GoldenInv, TypeInv, IsSequence
<1>3. file' \in Seq(Pieces(calls)) /\ failing' \in BOOLEAN
  <2>1. CASE UNCHANGED <<file, failing>>
    BY <1>2, <2>1 DEF TypeInv
  <2>2. CASE failing' = TRUE /\ \E k \in 0 .. Len(file) : file' = SubSeq(file, 1, k)
    BY <1>2, <2>2
  <2> QED
    BY <1>1, <2>1, <2>2
<1>4. TypeInv'
  BY <1>1, <1>2, <1>3 DEF TypeInv
<1>5. FileInv'
  <2>1. PICK record, piece : Kept(record, piece)
    BY <1>1 DEF GoldenInv, FileInv
  <2>2. CASE UNCHANGED <<file, failing>>
    <3>1. Kept(record, piece)'
      BY <1>1, <2>1, <2>2, KeptStays
    <3> QED
      BY <3>1 DEF FileInv
  <2>3. CASE failing' = TRUE /\ \E k \in 0 .. Len(file) : file' = SubSeq(file, 1, k)
    <3>1. PICK k \in 0 .. Len(file) : file' = SubSeq(file, 1, k)
      BY <2>3
    <3>2. \E r, p : Kept(r, p)'
      BY <1>1, <1>2, <2>1, <2>3, <3>1, KeptInPart
    <3> QED
      BY <3>2 DEF FileInv
  <2> QED
    BY <1>1, <2>2, <2>3
<1>6. ReadInv'
  <2>1. Len(out) = 0 /\ out \in Seq({RecordOf(calls[j]) : j \in DOMAIN calls})
    BY <1>2
  <2>2. Len(file') \in Nat
    BY <1>3
  <2>3. ASSUME NEW record, NEW piece, Kept(record, piece)'
        PROVE  LET k == IF pos = Len(file') + 2 THEN Len(file') ELSE pos - 1
               IN  record[k] = Len(out) + 1 /\ piece[k] = 1
    <3>1. record[0] = 1 /\ piece[0] = 1
      BY <2>3 DEF Kept, Threaded
    <3>2. pos - 1 = 0 /\ pos # Len(file') + 2 /\ Len(out) + 1 = 1
      BY <1>2, <2>1, <2>2
    <3> QED
      BY <3>1, <3>2
  <2>4. Between'
    BY <1>1, <1>2 DEF Between
  <2>5. pos <= Len(file') + 1 /\ Len(out) <= Len(calls) /\ 1 .. Len(out) = {}
    BY <1>2, <2>1, <2>2
  <2> QED
    BY <1>1, <2>1, <2>3, <2>4, <2>5 DEF ReadInv, Intact
<1>7. CountInv'
  <2>1. PICK text : text = file'
    OBVIOUS
  <2>2. text \in Seq(Pieces(calls))
    BY <1>3, <2>1
  <2>3. {j \in LineStarts(text) : j < 1} = {}
    BY <2>2, LineStartsIs
  <2>4. Cardinality({}) = 0
    BY FS_EmptySet
  <2>5. /\ line = Cardinality({j \in LineStarts(text) : j < pos})
        /\ \A j \in LineStarts(text) : ~(j < pos)
    BY <1>2, <2>3, <2>4
  <2> QED
    BY <1>1, <2>1, <2>5 DEF CountInv
<1>8. WriterInv' /\ DoneInv'
  BY <1>1, <1>2 DEF WriterInv, DoneInv, RoundTrip, DamageIsNoticed, ErrorNamesLine
<1> QED
  BY <1>4, <1>5, <1>6, <1>7, <1>8 DEF GoldenInv

-----------------------------------------------------------------------------
(***************************************************************************)
(* The reader                                                              *)
(***************************************************************************)

\* Of the lines of a text, one follows the other.
LEMMA LinesAreCounted ==
  ASSUME NEW S, NEW text \in Seq(S), NEW k \in LineStarts(text), k <= Len(text)
  PROVE  LET e      == EndOfLine(text, k)
             before == {j \in LineStarts(text) : j < k}
         IN  /\ Cardinality(before) \in Nat
             /\ Cardinality({j \in LineStarts(text) : j <= k}) = Cardinality(before) + 1
             /\ {j \in LineStarts(text) : j < e + 1} = {j \in LineStarts(text) : j <= k}
<1> DEFINE e      == EndOfLine(text, k)
           before == {j \in LineStarts(text) : j < k}
           upTo   == {j \in LineStarts(text) : j <= k}
           starts == LineStarts(text)
           L      == Len(text)
<1>1. /\ L \in Nat /\ starts \subseteq 1 .. (L + 1)
      /\ \A j : j \in starts <=> j = 1 \/ (j - 1 \in 1 .. L /\ j \in Nat /\ text[j - 1] = Newline)
      /\ \A T \in SUBSET starts : IsFiniteSet(T)
  BY LineStartsIs
<1>2. k \in starts /\ k \in Nat /\ k \in 1 .. (L + 1) /\ k <= L
  BY <1>1
<1>3. e \in k .. (L + 1) /\ (e = L + 1 \/ text[e] = Newline) /\ \A j \in k .. (e - 1) : text[j] # Newline
  BY <1>2, EndOfLineIs
<1> HIDE DEF e, L
<1>4. upTo = before \cup {k}
  <2>1. \A j \in starts : j <= k <=> j < k \/ j = k
    BY <1>1, <1>2
  <2> QED
    BY <1>2, <2>1
<1>5. IsFiniteSet(before) /\ k \notin before
  <2>1. before \subseteq starts /\ k \notin before
    BY <1>2
  <2> HIDE DEF before, starts
  <2> QED
    BY <1>1, <2>1
<1>6. {j \in starts : j < e + 1} = upTo
  <2>1. ASSUME NEW j \in starts PROVE j < e + 1 <=> j <= k
    <3>1. j \in Nat /\ 1 <= j /\ e \in Nat /\ k <= e
      BY <1>1, <1>2, <1>3
    <3>2. j <= k => j < e + 1
      BY <1>2, <3>1
    <3>3. CASE k < j /\ j < e + 1
      <4>1. j - 1 \in k .. (e - 1) /\ j # 1
        BY <1>2, <3>1, <3>3
      <4>2. text[j - 1] = Newline
        BY <1>1, <4>1
      <4> QED
        BY <1>3, <4>1, <4>2
    <3> QED
      BY <1>2, <3>1, <3>2, <3>3
  <2> QED
    BY <2>1
<1> HIDE DEF before, upTo, starts
<1>7. Cardinality(before) \in Nat /\ Cardinality(upTo) = Cardinality(before) + 1
  <2>1. Cardinality(before \cup {k}) = Cardinality(before) + 1 /\ Cardinality(before) \in Nat
    BY <1>5, FS_AddElement, FS_CardinalityType
  <2> QED
    BY <1>4, <2>1
<1> QED
  BY <1>6, <1>7 DEF e, before, upTo, starts

\* Where ReadAll is in the file, and what it finds there if nobody has touched it.
LEMMA AtLineIs ==
  ASSUME GoldenInv, AtLine
  PROVE  /\ calls \in Batches /\ Len(calls) \in Nat /\ file \in Seq(Pieces(calls))
         /\ pos \in 1 .. Len(file) /\ pos \in LineStarts(file) /\ Len(out) \in Nat
         /\ \A record, piece :
              Kept(record, piece) => record[pos - 1] = Len(out) + 1 /\ piece[pos - 1] = 1
         /\ Intact => /\ Len(out) + 1 \in 1 .. Len(calls)
                      /\ LineAt(file, pos) = Line(calls, Len(out) + 1)
                      /\ WellFormed(LineAt(file, pos)) /\ EndOfLine(file, pos) <= Len(file)
<1>1. pc = "read" /\ pos <= Len(file)
  BY DEF AtLine
<1>2. /\ calls \in Batches /\ file \in Seq(Pieces(calls)) /\ pos \in Nat \ {0}
      /\ out \in Seq({RecordOf(calls[j]) : j \in DOMAIN calls}) /\ Between
  BY <1>1 DEF GoldenInv, TypeInv, ReadInv
<1>3. Len(calls) \in Nat /\ Len(out) \in Nat /\ Len(file) \in Nat
  BY <1>2, BatchesAssumption DEF IsSequence
<1>4. pos \in 1 .. Len(file) /\ pos # Len(file) + 2
  BY <1>1, <1>2, <1>3
<1>5. /\ pos \in LineStarts(file)
      /\ pos > 1 => file[pos - 1] = Newline
  <2>1. pos = 1 \/ (pos - 1 \in 1 .. Len(file) /\ file[pos - 1] = Newline)
    BY <1>2, <1>4 DEF Between
  <2> QED
    BY <1>2, <1>4, <2>1, LineStartsIs
<1>6. ASSUME NEW record, NEW piece, Kept(record, piece)
      PROVE  record[pos - 1] = Len(out) + 1 /\ piece[pos - 1] = 1
  BY <1>1, <1>4, <1>6 DEF GoldenInv, ReadInv
<1>7. ASSUME Intact
      PROVE  /\ Len(out) + 1 \in 1 .. Len(calls)
             /\ LineAt(file, pos) = Line(calls, Len(out) + 1)
             /\ WellFormed(LineAt(file, pos)) /\ EndOfLine(file, pos) <= Len(file)
  <2>1. PICK record, piece : Kept(record, piece)
    BY <1>1 DEF GoldenInv, FileInv
  <2>2. Threaded(calls, file, record, piece) /\ Clean(file, piece) /\ Ended(file)
    BY <1>7, <2>1 DEF Kept, Intact
  <2>3. record[pos - 1] = Len(out) + 1 /\ piece[pos - 1] = 1
    BY <1>6, <2>1
  <2>4. /\ record[pos - 1] \in 1 .. Len(calls)
        /\ LineAt(file, pos) = Line(calls, record[pos - 1])
        /\ WellFormed(LineAt(file, pos)) /\ EndOfLine(file, pos) <= Len(file)
    BY <1>2, <1>4, <1>5, <2>2, <2>3, CleanLine
  <2> QED
    BY <2>3, <2>4, Zenon
<1> QED
  BY <1>2, <1>3, <1>4, <1>5, <1>6, <1>7

\* ReadAll is past a good line: it is blank, or it holds the record that is due.
LEMMA LineReadInv ==
  ASSUME GoldenInv, ReadLine, line' = line + 1, pc' = pc, err' = err,
         LineAt(file, pos) = <<>> \/ WellFormed(LineAt(file, pos)),
         out' \in Seq({RecordOf(calls[j]) : j \in DOMAIN calls}), Len(out') <= Len(calls),
         \A j \in 1 .. Len(out') : out'[j] = RecordOf(calls[j]),
         \A record, piece : Kept(record, piece) =>
           LET e == EndOfLine(file, pos)
               k == IF e = Len(file) + 1 THEN Len(file) ELSE e
           IN  record[k] = Len(out') + 1 /\ piece[k] = 1,
         Intact => \A j \in 1 .. Len(out') : ~TooLong(Line(calls, j))
  PROVE  GoldenInv'
<1> DEFINE e == EndOfLine(file, pos)
<1>1. /\ pc = "read" /\ pc' = "read" /\ AtLine /\ pos' = e + 1
      /\ UNCHANGED <<calls, n, buf, written, file, edits, failing>>
  BY DEF ReadLine, AtLine, stored, writer
<1>2. /\ TypeInv /\ err = "none" /\ line \in Nat
  BY <1>1 DEF GoldenInv, TypeInv
<1>3. /\ calls \in Batches /\ file \in Seq(Pieces(calls)) /\ Len(file) \in Nat
      /\ pos \in 1 .. Len(file) /\ pos \in LineStarts(file)
      /\ Intact => e <= Len(file)
  BY <1>1, AtLineIs
<1>4. e \in pos .. (Len(file) + 1) /\ (e = Len(file) + 1 \/ file[e] = Newline)
  <2>1. pos \in 1 .. (Len(file) + 1)
    BY <1>3
  <2> QED
    BY <1>3, <2>1, EndOfLineIs
<1> HIDE DEF e
<1>5. e \in Nat \ {0} /\ pos' \in Nat \ {0} /\ line' \in Nat
  BY <1>1, <1>2, <1>3, <1>4
<1>6. TypeInv'
  BY <1>1, <1>2, <1>5 DEF TypeInv
<1>7. FileInv'
  <2>1. PICK record, piece : Kept(record, piece)
    BY <1>1 DEF GoldenInv, FileInv
  <2>2. Kept(record, piece)'
    BY <1>1, <2>1, KeptStays
  <2> QED
    BY <2>2 DEF FileInv
<1>8. ReadInv'
  <2>1. Between'
    <3>1. file' = file /\ pos' = e + 1 /\ DOMAIN file = 1 .. Len(file)
      BY <1>1, <1>3
    <3>2. pos' - 1 = e /\ (e = Len(file) + 1 => pos' = Len(file) + 2)
      BY <1>3, <1>5, <3>1
    <3>3. e # Len(file) + 1 => e \in 1 .. Len(file) /\ file[e] = Newline
      <4>1. Len(file) \in Nat /\ pos \in Nat /\ 1 <= pos
        BY <1>3
      <4>2. e \in pos .. (Len(file) + 1) /\ (e # Len(file) + 1 => file[e] = Newline)
        BY <1>4, Zenon
      <4> QED
        BY <4>1, <4>2
    <3> QED
      BY <3>1, <3>2, <3>3 DEF Between
  <2>2. ASSUME NEW record, NEW piece, Kept(record, piece)'
        PROVE  LET k == IF pos' = Len(file') + 2 THEN Len(file') ELSE pos' - 1
               IN  record[k] = Len(out') + 1 /\ piece[k] = 1
    <3>1. Kept(record, piece)
      BY <1>1, <2>2, KeptStays
    <3>2. LET k == IF e = Len(file) + 1 THEN Len(file) ELSE e
          IN  record[k] = Len(out') + 1 /\ piece[k] = 1
      BY <3>1 DEF e
    <3>3. pos' - 1 = e /\ (e = Len(file) + 1 <=> pos' = Len(file) + 2) /\ file' = file
      <4>1. file' = file /\ pos' = e + 1
        BY <1>1
      <4>2. e \in Nat /\ Len(file) \in Nat
        BY <1>3, <1>5
      <4>3. (e + 1) - 1 = e /\ (e = Len(file) + 1 <=> e + 1 = Len(file) + 2)
        BY <4>2
      <4> QED
        BY <4>1, <4>3, Zenon
    <3> QED
      BY <3>2, <3>3, Zenon
  <2>3. Intact' => pos' <= Len(file') + 1 /\ \A j \in 1 .. Len(out') : ~TooLong(Line(calls', j))
    <3>1. Intact' => Intact
      BY <1>1 DEF Intact
    <3>2. Intact => pos' <= Len(file') + 1
      BY <1>1, <1>3, <1>5
    <3> QED
      BY <1>1, <3>1, <3>2, Zenon
  <2>4. /\ out' \in Seq({RecordOf(calls'[j]) : j \in DOMAIN calls'})
        /\ Len(out') <= Len(calls') /\ \A j \in 1 .. Len(out') : out'[j] = RecordOf(calls'[j])
    BY <1>1, Zenon
  <2> QED
    BY <2>1, <2>2, <2>3, <2>4, Zenon DEF ReadInv
<1>9. CountInv'
  <2> DEFINE before == {j \in LineStarts(file) : j < pos}
             upTo   == {j \in LineStarts(file) : j <= pos}
  <2>1. /\ Cardinality(before) \in Nat /\ Cardinality(upTo) = Cardinality(before) + 1
        /\ {j \in LineStarts(file) : j < e + 1} = upTo
    <3>1. PICK text : text = file
      OBVIOUS
    <3>2. PICK k : k = pos
      OBVIOUS
    <3>3. text \in Seq(Pieces(calls)) /\ k \in LineStarts(text) /\ k <= Len(text)
      BY <1>3, <3>1, <3>2
    <3>4. LET b == {j \in LineStarts(text) : j < k}
              u == {j \in LineStarts(text) : j <= k}
          IN  /\ Cardinality(b) \in Nat /\ Cardinality(u) = Cardinality(b) + 1
              /\ {j \in LineStarts(text) : j < EndOfLine(text, k) + 1} = u
      BY <3>3, LinesAreCounted
    <3> QED
      BY <3>1, <3>2, <3>4, Zenon DEF e
  <2>2. /\ line = Cardinality(before)
        /\ \A j \in LineStarts(file) :
             j < pos => LineAt(file, j) = <<>> \/ WellFormed(LineAt(file, j))
    BY <1>1 DEF GoldenInv, CountInv
  <2>3. \A j \in upTo : LineAt(file, j) = <<>> \/ WellFormed(LineAt(file, j))
    <3>1. \A j \in upTo : j \in before \/ j = pos
      BY <1>3, LineStartsIs
    <3> QED
      BY <2>2, <3>1
  <2> HIDE DEF before, upTo
  <2>4. line' = Cardinality({j \in LineStarts(file) : j < e + 1})
    BY <2>1, <2>2
  <2>5. ASSUME NEW j \in LineStarts(file), j < e + 1
        PROVE  LineAt(file, j) = <<>> \/ WellFormed(LineAt(file, j))
    <3>1. j \in upTo
      BY <2>1, <2>5
    <3> QED
      BY <2>3, <3>1
  <2>6. /\ line' = Cardinality({j \in LineStarts(file') : j < pos'})
        /\ \A j \in LineStarts(file') :
             j < pos' => LineAt(file', j) = <<>> \/ WellFormed(LineAt(file', j))
    BY <1>1, <2>4, <2>5, Zenon
  <2> QED
    BY <2>6, Zenon DEF CountInv
<1>10. WriterInv'
  BY <1>1 DEF WriterInv
<1>11. DoneInv'
  <2>1. pc' # "done" /\ err' = "none"
    BY <1>1, <1>2
  <2> QED
    BY <2>1 DEF DoneInv, RoundTrip, DamageIsNoticed, ErrorNamesLine
<1> QED
  BY <1>6, <1>7, <1>8, <1>9, <1>10, <1>11 DEF GoldenInv

LEMMA SkipBlankInv ==
  ASSUME GoldenInv, SkipBlank
  PROVE  GoldenInv'
<1>1. /\ ReadLine /\ AtLine /\ LineAt(file, pos) = <<>> /\ line' = line + 1
      /\ pc' = pc /\ out' = out /\ err' = err
  BY DEF SkipBlank, ReadLine, AfterBlank
<1>2. /\ calls \in Batches /\ file \in Seq(Pieces(calls)) /\ pos \in 1 .. Len(file)
      /\ \A record, piece :
           Kept(record, piece) => record[pos - 1] = Len(out) + 1 /\ piece[pos - 1] = 1
      /\ Intact => WellFormed(LineAt(file, pos))
  BY <1>1, AtLineIs
<1>3. EndOfLine(file, pos) = pos /\ file[pos] = Newline /\ pos # Len(file) + 1
  <2>1. pos \in 1 .. (Len(file) + 1) /\ Len(file) \in Nat
    BY <1>2
  <2>2. /\ EndOfLine(file, pos) \in pos .. (Len(file) + 1)
        /\ EndOfLine(file, pos) = Len(file) + 1 \/ file[EndOfLine(file, pos)] = Newline
        /\ Len(LineAt(file, pos)) = EndOfLine(file, pos) - pos
    BY <1>2, <2>1, EndOfLineIs
  <2>3. Len(LineAt(file, pos)) = 0
    BY <1>1
  <2>4. EndOfLine(file, pos) = pos /\ pos # Len(file) + 1
    BY <1>2, <2>1, <2>2, <2>3
  <2> QED
    BY <2>2, <2>4, Zenon
<1>4. ~Intact
  BY <1>1, <1>2 DEF WellFormed
<1>5. ASSUME NEW record, NEW piece, Kept(record, piece)
      PROVE  LET e == EndOfLine(file, pos)
                 k == IF e = Len(file) + 1 THEN Len(file) ELSE e
             IN  record[k] = Len(out') + 1 /\ piece[k] = 1
  <2>1. Due(calls, file, pos, record, piece)
    BY <1>2, <1>5 DEF Kept, Threaded
  <2>2. record[pos] = record[pos - 1] /\ piece[pos] = piece[pos - 1]
    BY <1>3, <2>1 DEF Due
  <2>3. record[pos - 1] = Len(out) + 1 /\ piece[pos - 1] = 1
    BY <1>2, <1>5
  <2> QED
    BY <1>1, <1>3, <2>2, <2>3, Zenon
<1>6. /\ out' \in Seq({RecordOf(calls[j]) : j \in DOMAIN calls}) /\ Len(out') <= Len(calls)
      /\ \A j \in 1 .. Len(out') : out'[j] = RecordOf(calls[j])
  BY <1>1, Zenon DEF GoldenInv, ReadInv, AtLine
<1> QED
  BY <1>1, <1>4, <1>5, <1>6, LineReadInv, Zenon

LEMMA ReadRecordInv ==
  ASSUME GoldenInv, ReadRecord
  PROVE  GoldenInv'
<1>1. /\ ReadLine /\ AtLine /\ WellFormed(LineAt(file, pos)) /\ line' = line + 1
      /\ ~TooLong(LineAt(file, pos)) /\ pc = "read"
      /\ out' = Append(out, LineAt(file, pos)[1].record) /\ pc' = pc /\ err' = err
  BY DEF ReadRecord, ReadLine, AtLine
<1>2. /\ calls \in Batches /\ file \in Seq(Pieces(calls)) /\ pos \in 1 .. Len(file)
      /\ Len(calls) \in Nat /\ Len(out) \in Nat
      /\ \A record, piece :
           Kept(record, piece) => record[pos - 1] = Len(out) + 1 /\ piece[pos - 1] = 1
  BY <1>1, AtLineIs
<1>3. ASSUME NEW record, NEW piece, Kept(record, piece)
      PROVE  LET m == Len(out) + 1
                 e == EndOfLine(file, pos)
                 k == IF e = Len(file) + 1 THEN Len(file) ELSE e
             IN  /\ m \in 1 .. Len(calls) /\ LineAt(file, pos) = Line(calls, m)
                 /\ LineAt(file, pos)[1].record = RecordOf(calls[m])
                 /\ record[k] = m + 1 /\ piece[k] = 1
  <2>1. Threaded(calls, file, record, piece)
    BY <1>3 DEF Kept
  <2>2. record[pos - 1] = Len(out) + 1 /\ piece[pos - 1] = 1
    BY <1>2, <1>3
  <2>3. LET j == record[pos - 1]
            e == EndOfLine(file, pos)
            q == IF e = Len(file) + 1 THEN Len(file) ELSE e
        IN  /\ j \in 1 .. Len(calls) /\ LineAt(file, pos) = Line(calls, j)
            /\ LineAt(file, pos)[1].record = RecordOf(calls[j])
            /\ record[q] = j + 1 /\ piece[q] = 1
    BY <1>1, <1>2, <2>1, <2>2, WellFormedLine
  <2> QED
    BY <2>2, <2>3, Zenon
<1>4. PICK record, piece : Kept(record, piece)
  BY <1>1 DEF GoldenInv, FileInv
<1>5. /\ Len(out) + 1 \in 1 .. Len(calls) /\ LineAt(file, pos) = Line(calls, Len(out) + 1)
      /\ LineAt(file, pos)[1].record = RecordOf(calls[Len(out) + 1])
  BY <1>3, <1>4, Zenon
<1>6. /\ out \in Seq({RecordOf(calls[j]) : j \in DOMAIN calls})
      /\ \A j \in 1 .. Len(out) : out[j] = RecordOf(calls[j])
      /\ Intact => \A j \in 1 .. Len(out) : ~TooLong(Line(calls, j))
  BY <1>1, Zenon DEF GoldenInv, ReadInv
<1> DEFINE R   == {RecordOf(calls[j]) : j \in DOMAIN calls}
           rec == RecordOf(calls[Len(out) + 1])
<1>7. rec \in R /\ out \in Seq(R) /\ out' = Append(out, rec)
  <2>1. Len(out) + 1 \in DOMAIN calls
    BY <1>2, <1>5, BatchesAssumption DEF IsSequence
  <2>2. rec \in R
    BY <2>1
  <2> HIDE DEF rec, R
  <2>3. out' = Append(out, rec)
    BY <1>1, <1>5, Zenon DEF rec
  <2> QED
    BY <1>6, <2>2, <2>3, Zenon DEF R
<1> HIDE DEF R, rec
<1>8. /\ out' \in Seq(R) /\ Len(out') = Len(out) + 1 /\ out'[Len(out) + 1] = rec
      /\ \A j \in 1 .. Len(out) : out'[j] = out[j]
  <2>1. PICK longer : longer = Append(out, rec)
    OBVIOUS
  <2>2. /\ longer \in Seq(R) /\ Len(longer) = Len(out) + 1 /\ longer[Len(out) + 1] = rec
        /\ \A j \in 1 .. Len(out) : longer[j] = out[j]
    BY <1>7, <2>1
  <2> QED
    BY <1>7, <2>1, <2>2, Zenon
<1>9. \A j \in 1 .. Len(out') : j \in 1 .. Len(out) \/ j = Len(out) + 1
  BY <1>2, <1>8
<1>10. \A j \in 1 .. Len(out') : out'[j] = RecordOf(calls[j])
  BY <1>6, <1>8, <1>9, Zenon DEF rec
<1>11. Intact => \A j \in 1 .. Len(out') : ~TooLong(Line(calls, j))
  BY <1>1, <1>5, <1>6, <1>9, Zenon
<1>12. ASSUME NEW r, NEW p, Kept(r, p)
       PROVE  LET e == EndOfLine(file, pos)
                  k == IF e = Len(file) + 1 THEN Len(file) ELSE e
              IN  r[k] = Len(out') + 1 /\ p[k] = 1
  BY <1>3, <1>8, <1>12, Zenon
<1>13. Len(out') <= Len(calls)
  BY <1>2, <1>5, <1>8
<1>14. out' \in Seq({RecordOf(calls[j]) : j \in DOMAIN calls})
  BY <1>8 DEF R
<1> QED
  BY <1>1, <1>10, <1>11, <1>12, <1>13, <1>14, LineReadInv, Zenon

\* ReadAll returns.
LEMMA ReturnInv ==
  ASSUME GoldenInv, pc = "read", pc' = "done", UNCHANGED <<calls, n, buf, written, file, edits, failing>>,
         pos' \in Nat \ {0}, line' \in Nat, err' \in {"nil", "malformed", "too long", "read error"},
         DoneInv'
  PROVE  GoldenInv'
<1>1. TypeInv'
  <2>1. /\ pc' \in {"line", "newline", "file", "read", "done"}
        /\ err' \in {"none", "nil", "malformed", "too long", "read error"}
    OBVIOUS
  <2> QED
    BY <2>1 DEF GoldenInv, TypeInv
<1>2. FileInv'
  <2>1. PICK record, piece : Kept(record, piece)
    BY DEF GoldenInv, FileInv
  <2>2. Kept(record, piece)'
    BY <2>1, KeptStays
  <2> QED
    BY <2>2 DEF FileInv
<1>3. WriterInv' /\ ReadInv' /\ CountInv'
  BY DEF WriterInv, ReadInv, CountInv
<1> QED
  BY <1>1, <1>2, <1>3 DEF GoldenInv

LEMMA MalformedInv ==
  ASSUME GoldenInv, Malformed
  PROVE  GoldenInv'
<1>1. /\ ReadLine /\ AtLine /\ LineAt(file, pos) # <<>> /\ ~WellFormed(LineAt(file, pos))
      /\ line' = line + 1 /\ pc = "read" /\ pc' = "done" /\ err' = "malformed"
      /\ pos' = EndOfLine(file, pos) + 1
      /\ UNCHANGED <<calls, n, buf, written, file, edits, failing>>
  BY DEF Malformed, OnMalformed, ReadLine, AtLine, stored, writer
<1>2. /\ file \in Seq(Pieces(calls)) /\ pos \in 1 .. Len(file) /\ pos \in LineStarts(file)
      /\ ~Intact
  BY <1>1, AtLineIs
<1>3. pos' \in Nat \ {0} /\ line' \in Nat
  <2>1. pos \in 1 .. (Len(file) + 1) /\ Len(file) \in Nat /\ line \in Nat
    <3>1. line \in Nat
      BY DEF GoldenInv, TypeInv
    <3> QED
      BY <1>2, <3>1
  <2>2. EndOfLine(file, pos) \in pos .. (Len(file) + 1)
    BY <1>2, <2>1, EndOfLineIs
  <2>3. pos' = EndOfLine(file, pos) + 1 /\ line' = line + 1
    BY <1>1
  <2>4. EndOfLine(file, pos) + 1 \in Nat \ {0} /\ line + 1 \in Nat
    BY <2>1, <2>2
  <2> QED
    BY <2>3, <2>4, Zenon
<1>4. Cardinality({j \in LineStarts(file) : j <= pos}) = line'
  <2>1. line = Cardinality({j \in LineStarts(file) : j < pos})
    BY <1>1 DEF GoldenInv, CountInv
  <2>2. Cardinality({j \in LineStarts(file) : j <= pos})
          = Cardinality({j \in LineStarts(file) : j < pos}) + 1
    <3>1. PICK text : text = file
      OBVIOUS
    <3>2. PICK k : k = pos
      OBVIOUS
    <3>3. text \in Seq(Pieces(calls)) /\ k \in LineStarts(text) /\ k <= Len(text)
      BY <1>2, <3>1, <3>2
    <3>4. Cardinality({j \in LineStarts(text) : j <= k})
            = Cardinality({j \in LineStarts(text) : j < k}) + 1
      BY <3>3, LinesAreCounted
    <3> QED
      BY <3>1, <3>2, <3>4, Zenon
  <2>3. line' = line + 1
    BY <1>1
  <2> QED
    BY <2>1, <2>2, <2>3, Zenon
<1>5. \A j \in LineStarts(file) :
        j < pos => LineAt(file, j) = <<>> \/ WellFormed(LineAt(file, j))
  BY <1>1, Zenon DEF GoldenInv, CountInv
<1>6. ErrorNamesLine'
  <2>1. file' = file
    BY <1>1
  <2>2. /\ pos \in LineStarts(file') /\ Cardinality({j \in LineStarts(file') : j <= pos}) = line'
        /\ LineAt(file', pos) # <<>> /\ ~WellFormed(LineAt(file', pos))
        /\ \A j \in LineStarts(file') :
             j < pos => LineAt(file', j) = <<>> \/ WellFormed(LineAt(file', j))
    BY <1>1, <1>2, <1>4, <1>5, <2>1, Zenon
  <2> QED
    BY <2>2, Zenon DEF ErrorNamesLine
<1>7. RoundTrip' /\ DamageIsNoticed'
  <2>1. ~(written' = "nil" /\ edits' = 0 /\ ~failing')
    BY <1>1, <1>2 DEF Intact
  <2> QED
    BY <1>1, <2>1 DEF RoundTrip, DamageIsNoticed
<1> QED
  BY <1>1, <1>3, <1>6, <1>7, ReturnInv DEF DoneInv

LEMMA LineTooLongInv ==
  ASSUME GoldenInv, LineTooLong
  PROVE  GoldenInv'
<1>1. /\ AtLine /\ TooLong(LineAt(file, pos)) /\ pc = "read" /\ pc' = "done" /\ err' = "too long"
      /\ UNCHANGED <<calls, n, buf, written, file, edits, failing, pos, line>>
  BY DEF LineTooLong, AtLine, stored, writer
<1>2. pos' \in Nat \ {0} /\ line' \in Nat
  BY <1>1 DEF GoldenInv, TypeInv
<1>3. RoundTrip'
  <2>1. ASSUME Intact PROVE \E j \in DOMAIN Records : TooLong(MarshalLine(Records[j]))
    <3>1. /\ calls \in Batches /\ Len(out) + 1 \in 1 .. Len(calls)
          /\ LineAt(file, pos) = Line(calls, Len(out) + 1)
      BY <1>1, <2>1, AtLineIs
    <3>2. Len(out) + 1 \in DOMAIN calls
      BY <3>1, BatchesAssumption DEF IsSequence
    <3>3. /\ Len(out) + 1 \in DOMAIN Records
          /\ Records[Len(out) + 1] = RecordOf(calls[Len(out) + 1])
      BY <3>2 DEF Records
    <3>4. MarshalLine(Records[Len(out) + 1]) = LineAt(file, pos)
      BY <3>1, <3>3, Zenon DEF Line
    <3> QED
      BY <1>1, <3>3, <3>4, Zenon
  <2>2. Records' = Records
    BY <1>1, Zenon DEF Records
  <2>3. written' = "nil" /\ edits' = 0 /\ ~failing' => Intact
    BY <1>1 DEF Intact
  <2> QED
    BY <1>1, <2>1, <2>2, <2>3, Zenon DEF RoundTrip
<1>4. DamageIsNoticed' /\ ErrorNamesLine'
  BY <1>1 DEF DamageIsNoticed, ErrorNamesLine
<1> QED
  BY <1>1, <1>2, <1>3, <1>4, ReturnInv DEF DoneInv

\* At the end of the file, all of it is read.
LEMMA ReadEndInv ==
  ASSUME GoldenInv, ReadEnd
  PROVE  GoldenInv'
<1>1. /\ pc = "read" /\ pos > Len(file) /\ ~failing /\ pc' = "done" /\ err' = "nil"
      /\ UNCHANGED <<calls, n, buf, written, file, edits, failing, pos, line, out>>
  BY DEF ReadEnd, AtEnd, stored, writer
<1>2. /\ calls \in Batches /\ file \in Seq(Pieces(calls)) /\ pos \in Nat \ {0} /\ line \in Nat
  BY DEF GoldenInv, TypeInv
<1>3. /\ out \in Seq({RecordOf(calls[j]) : j \in DOMAIN calls}) /\ Len(out) <= Len(calls)
      /\ \A j \in 1 .. Len(out) : out[j] = RecordOf(calls[j])
      /\ Intact => \A j \in 1 .. Len(out) : ~TooLong(Line(calls, j))
      /\ Between
  BY <1>1, Zenon DEF GoldenInv, ReadInv
<1>4. /\ IsSequence(calls) /\ Len(calls) \in Nat /\ DOMAIN calls = 1 .. Len(calls)
      /\ Len(out) \in Nat /\ Len(file) \in Nat
  BY <1>2, <1>3, BatchesAssumption DEF IsSequence
<1>5. written = "nil" => Len(out) = Len(calls)
  <2> SUFFICES ASSUME written = "nil" PROVE Len(out) = Len(calls)
    OBVIOUS
  <2>1. PICK record, piece : Kept(record, piece)
    BY <1>1 DEF GoldenInv, FileInv
  <2>2. record[Len(file)] = Len(calls) + 1
    BY <1>1, <2>1 DEF Kept
  <2>3. LET k == IF pos = Len(file) + 2 THEN Len(file) ELSE pos - 1
        IN  record[k] = Len(out) + 1
    BY <1>1, <2>1 DEF GoldenInv, ReadInv
  <2>4. pos = Len(file) + 1 \/ pos = Len(file) + 2
    <3>1. pos = 1 \/ pos - 1 \in 1 .. Len(file) \/ pos = Len(file) + 2
      BY <1>2, <1>3 DEF Between
    <3> QED
      BY <1>1, <1>2, <1>4, <3>1
  <2>5. (IF pos = Len(file) + 2 THEN Len(file) ELSE pos - 1) = Len(file)
    BY <1>4, <2>4
  <2>6. record[Len(file)] = Len(out) + 1
    BY <2>3, <2>5, Zenon
  <2> QED
    BY <1>4, <2>2, <2>6
<1>6. /\ \A j \in 1 .. Len(calls) : Records[j] = RecordOf(calls[j])
      /\ Records = [j \in 1 .. Len(calls) |-> Records[j]] /\ DOMAIN Records = 1 .. Len(calls)
  BY <1>4 DEF Records
<1>7. IsPrefix(out, Records) /\ (Len(out) = Len(calls) => out = Records)
  <2>1. PICK all : all = Records
    OBVIOUS
  <2>2. PICK S : S = {RecordOf(calls[j]) : j \in DOMAIN calls}
    OBVIOUS
  <2>3. \A j \in 1 .. Len(calls) : all[j] = RecordOf(calls[j]) /\ all[j] \in S
    BY <1>4, <1>6, <2>1, <2>2
  <2>4. all \in Seq(S) /\ Len(all) = Len(calls)
    BY <1>4, <1>6, <2>1, <2>3
  <2>5. out \in Seq(S) /\ Len(out) <= Len(all)
    BY <1>3, <2>2, <2>4
  <2>6. \A j \in 1 .. Len(out) : j \in 1 .. Len(calls)
    BY <1>3, <1>4
  <2>7. \A j \in 1 .. Len(out) : out[j] = all[j]
    BY <1>3, <2>3, <2>6
  <2>8. IsPrefix(out, all) /\ (Len(out) = Len(all) => out = all)
    BY <2>4, <2>5, <2>7, PrefixIs
  <2> QED
    BY <2>1, <2>4, <2>8, Zenon
<1>8. Records' = Records
  BY <1>1, Zenon DEF Records
<1>9. DamageIsNoticed'
  <2>1. IsPrefix(out', Records') /\ (written' = "nil" => out' = Records')
    BY <1>1, <1>5, <1>7, <1>8, Zenon
  <2> QED
    BY <2>1, Zenon DEF DamageIsNoticed
<1>10. RoundTrip'
  <2> SUFFICES ASSUME Intact
               PROVE  /\ \A j \in DOMAIN Records : ~TooLong(MarshalLine(Records[j]))
                      /\ out = Records
    BY <1>1, <1>8, Zenon DEF RoundTrip, Intact
  <2>1. Len(out) = Len(calls)
    BY <1>5 DEF Intact
  <2>2. ASSUME NEW j \in 1 .. Len(calls) PROVE ~TooLong(MarshalLine(Records[j]))
    <3>1. ~TooLong(Line(calls, j))
      BY <1>3, <2>1, Zenon
    <3> QED
      BY <1>6, <3>1, Zenon DEF Line
  <2> QED
    BY <1>6, <1>7, <2>1, <2>2, Zenon
<1>11. ErrorNamesLine'
  BY <1>1 DEF ErrorNamesLine
<1>12. pos' \in Nat \ {0} /\ line' \in Nat /\ err' \in {"nil", "malformed", "too long", "read error"}
  BY <1>1, <1>2
<1> QED
  BY <1>1, <1>9, <1>10, <1>11, <1>12, ReturnInv DEF DoneInv

LEMMA ReadErrorInv ==
  ASSUME GoldenInv, ReadError
  PROVE  GoldenInv'
<1>1. /\ pc = "read" /\ failing /\ pc' = "done" /\ err' = "read error"
      /\ UNCHANGED <<calls, n, buf, written, file, edits, failing, pos, line>>
  BY DEF ReadError, AtEnd, stored, writer
<1>2. pos' \in Nat \ {0} /\ line' \in Nat
  BY <1>1 DEF GoldenInv, TypeInv
<1>3. DoneInv'
  BY <1>1 DEF DoneInv, RoundTrip, DamageIsNoticed, ErrorNamesLine
<1> QED
  BY <1>1, <1>2, <1>3, ReturnInv

-----------------------------------------------------------------------------
(***************************************************************************)
(* The theorems                                                            *)
(***************************************************************************)

LEMMA NextInv ==
  ASSUME GoldenInv, [Next]_vars
  PROVE  GoldenInv'
<1>1. CASE UNCHANGED vars
  <2>1. \A record, piece : Kept(record, piece)' <=> Kept(record, piece)
    BY <1>1, KeptStays DEF vars
  <2>2. /\ UNCHANGED <<calls, pc, n, buf, file, written, edits, failing, pos, line, out, err>>
    BY <1>1 DEF vars
  <2>3. FileInv'
    BY <2>1, <2>2, Zenon DEF GoldenInv, FileInv
  <2>4. ReadInv'
    BY <2>1, <2>2, Zenon DEF GoldenInv, ReadInv, Between, Intact
  <2>5. TypeInv' /\ WriterInv' /\ CountInv'
    BY <2>2, Zenon DEF GoldenInv, TypeInv, WriterInv, CountInv
  <2>6. DoneInv'
    BY <2>2, Zenon DEF GoldenInv, DoneInv, RoundTrip, DamageIsNoticed, ErrorNamesLine, Records
  <2> QED
    BY <2>3, <2>4, <2>5, <2>6 DEF GoldenInv
<1>2. CASE Next
  <2>1. CASE WriteLine \/ WriteNewline
    BY <2>1, WriteInv
  <2>2. CASE Flush
    BY <2>2, FlushInv
  <2>3. CASE WriteError \/ Crash
    BY <2>3, CutShortInv
  <2>4. CASE Edit
    BY <2>4, EditInv
  <2>5. CASE Open
    BY <2>5, OpenInv
  <2>6. CASE SkipBlank
    BY <2>6, SkipBlankInv
  <2>7. CASE ReadRecord
    BY <2>7, ReadRecordInv
  <2>8. CASE Malformed
    BY <2>8, MalformedInv
  <2>9. CASE LineTooLong
    BY <2>9, LineTooLongInv
  <2>10. CASE ReadEnd
    BY <2>10, ReadEndInv
  <2>11. CASE ReadError
    BY <2>11, ReadErrorInv
  <2>12. CASE Returned
    BY <1>1, <2>12 DEF Returned
  <2> QED
    BY <1>2, <2>1, <2>2, <2>3, <2>4, <2>5, <2>6, <2>7, <2>8, <2>9, <2>10, <2>11, <2>12, Zenon
    DEF Next, Step
<1> QED
  BY <1>1, <1>2

\* What the file holds follows the batch, whatever cut or edited it, and ReadAll
\* has read as far as it says: GoldenInv holds in every state.
THEOREM GoldenInvariance == Spec => []GoldenInv
<1>1. Init => GoldenInv
  BY InitInv
<1>2. GoldenInv /\ [Next]_vars => GoldenInv'
  BY NextInv
<1> QED
  BY <1>1, <1>2, PTL DEF Spec

\* What WriteAll wrote and nobody touched is read back, record by record, unless
\* a line is longer than the Scanner takes, and then ReadAll says so.
THEOREM GoodFilesRoundTrip == Spec => []RoundTrip
<1>1. GoldenInv => RoundTrip
  BY DEF GoldenInv, DoneInv
<1> QED
  BY <1>1, GoldenInvariance, PTL

\* However a file was cut short or its lines were broken and joined, ReadAll
\* returns the first records of the batch or an error, and every record or an
\* error if WriteAll had returned nil.
THEOREM DamageNeverPasses == Spec => []DamageIsNoticed
<1>1. GoldenInv => DamageIsNoticed
  BY DEF GoldenInv, DoneInv
<1> QED
  BY <1>1, GoldenInvariance, PTL

\* The error of ReadAll names the first bad line, blank lines counted.
THEOREM ErrorsNameTheirLine == Spec => []ErrorNamesLine
<1>1. GoldenInv => ErrorNamesLine
  BY DEF GoldenInv, DoneInv
<1> QED
  BY <1>1, GoldenInvariance, PTL

-----------------------------------------------------------------------------
(***************************************************************************)
(* Replay.  Replacing characters keeps their number, commutes with         *)
(* concatenation and leaves a text without a broken character alone.       *)
(***************************************************************************)
Character == DOMAIN SizeOf

LEMMA ValidIs ==
  ASSUME NEW s \in Seq(Character)
  PROVE  /\ Valid(s) \in Seq(Character) /\ Len(Valid(s)) = Len(s)
         /\ \A j \in 1 .. Len(s) : Valid(s)[j] = IF s[j] = Broken THEN Replacement ELSE s[j]
<1>1. Valid(s) = [j \in 1 .. Len(s) |-> IF s[j] = Broken THEN Replacement ELSE s[j]]
  BY DEF Valid
<1>2. Len(s) \in Nat /\ \A j \in 1 .. Len(s) : s[j] \in Character
  OBVIOUS
<1>3. Replacement \in Character
  BY CharactersAssumption DEF Character
<1> QED
  BY <1>1, <1>2, <1>3

LEMMA ValidConcat ==
  ASSUME NEW s \in Seq(Character), NEW w \in Seq(Character)
  PROVE  Valid(s \o w) = Valid(s) \o Valid(w)
<1>1. /\ s \o w \in Seq(Character) /\ Len(s \o w) = Len(s) + Len(w)
      /\ \A l \in 1 .. Len(s) : (s \o w)[l] = s[l]
      /\ \A l \in 1 .. Len(w) : (s \o w)[Len(s) + l] = w[l]
  BY ConcatElements
<1>2. /\ Valid(s) \in Seq(Character) /\ Len(Valid(s)) = Len(s)
      /\ \A j \in 1 .. Len(s) : Valid(s)[j] = IF s[j] = Broken THEN Replacement ELSE s[j]
  BY ValidIs
<1>3. /\ Valid(w) \in Seq(Character) /\ Len(Valid(w)) = Len(w)
      /\ \A j \in 1 .. Len(w) : Valid(w)[j] = IF w[j] = Broken THEN Replacement ELSE w[j]
  BY ValidIs
<1>4. /\ Valid(s \o w) \in Seq(Character) /\ Len(Valid(s \o w)) = Len(s) + Len(w)
      /\ \A j \in 1 .. (Len(s) + Len(w)) :
           Valid(s \o w)[j] = IF (s \o w)[j] = Broken THEN Replacement ELSE (s \o w)[j]
  BY <1>1, ValidIs
<1> DEFINE a == Valid(s)
           b == Valid(w)
           c == Valid(s \o w)
<1>5. a \in Seq(Character) /\ b \in Seq(Character)
  BY <1>2, <1>3
<1> HIDE DEF a, b, c
<1>6. /\ a \o b \in Seq(Character) /\ Len(a \o b) = Len(a) + Len(b)
      /\ \A l \in 1 .. Len(a) : (a \o b)[l] = a[l]
      /\ \A l \in 1 .. Len(b) : (a \o b)[Len(a) + l] = b[l]
  BY <1>5, ConcatElements
<1>7. PICK v : v = a \o b
  OBVIOUS
<1>8. /\ v \in Seq(Character) /\ c \in Seq(Character) /\ Len(v) = Len(c)
      /\ Len(v) = Len(s) + Len(w) /\ Len(s) \in Nat /\ Len(w) \in Nat
  BY <1>2, <1>3, <1>4, <1>6, <1>7 DEF a, b, c
<1>9. ASSUME NEW j \in 1 .. Len(v) PROVE v[j] = c[j]
  <2>1. CASE j <= Len(s)
    <3>1. j \in 1 .. Len(s) /\ j \in 1 .. (Len(s) + Len(w))
      BY <1>8, <2>1
    <3>2. v[j] = a[j]
      BY <1>2, <1>6, <1>7, <3>1 DEF a
    <3> QED
      BY <1>1, <1>2, <1>4, <3>1, <3>2 DEF a, c
  <2>2. CASE j > Len(s)
    <3>1. PICK l \in 1 .. Len(w) : j = Len(s) + l
      <4>1. j - Len(s) \in 1 .. Len(w) /\ j = Len(s) + (j - Len(s))
        BY <1>8, <2>2
      <4> QED
        BY <4>1
    <3>2. j \in 1 .. (Len(s) + Len(w))
      BY <1>8
    <3>3. v[j] = b[l]
      BY <1>2, <1>3, <1>6, <1>7, <3>1 DEF a, b
    <3> QED
      BY <1>1, <1>3, <1>4, <3>1, <3>2, <3>3 DEF b, c
  <2> QED
    BY <1>8, <2>1, <2>2
<1>10. v = c
  <2>1. v \in Seq(Character) /\ c \in Seq(Character) /\ Len(v) = Len(c)
    BY <1>8
  <2> QED
    BY <1>9, <2>1
<1> QED
  BY <1>7, <1>10 DEF a, b, c

LEMMA ValidFlatten ==
  ASSUME NEW s \in Seq(Seq(Character))
  PROVE  Valid(FlattenSeq(s)) = FlattenSeq([j \in DOMAIN s |-> Valid(s[j])])
<1> DEFINE w == [j \in 1 .. Len(s) |-> Valid(s[j])]
<1>1. Len(s) \in Nat /\ DOMAIN s = 1 .. Len(s) /\ \A j \in 1 .. Len(s) : s[j] \in Seq(Character)
  OBVIOUS
<1>2. Len(w) = Len(s) /\ \A j \in 1 .. Len(s) : w[j] = Valid(s[j])
  BY <1>1
<1>3. CASE Len(s) = 0
  <2>1. s = <<>> /\ w = <<>>
    BY <1>1, <1>3
  <2>2. FlattenSeq(s) = <<>> /\ FlattenSeq(w) = <<>>
    BY <2>1 DEF FlattenSeq
  <2>3. Valid(<<>>) = <<>>
    BY DEF Valid
  <2> QED
    BY <1>1, <2>2, <2>3
<1>4. CASE Len(s) # 0
  <2>1. PICK g : Unfolds(g, s)
    BY <1>1, UnfoldsAlways
  <2>2. \A j \in 1 .. Len(s) : g[j] = IF j = 1 THEN s[j] ELSE g[j - 1] \o s[j]
    BY <2>1 DEF Unfolds
  <2> DEFINE T == {m \in Nat : m \in 1 .. Len(s) => g[m] \in Seq(Character)}
             h == [j \in 1 .. Len(s) |-> Valid(g[j])]
  <2>3. 0 \in T
    OBVIOUS
  <2>4. ASSUME NEW m \in Nat, m \in T PROVE m + 1 \in T
    <3> SUFFICES ASSUME m + 1 \in 1 .. Len(s) PROVE g[m + 1] \in Seq(Character)
      OBVIOUS
    <3>1. s[m + 1] \in Seq(Character)
      BY <1>1
    <3>2. CASE m = 0
      <4>1. m + 1 = 1
        BY <3>2
      <4> QED
        BY <2>2, <3>1, <4>1
    <3>3. CASE m # 0
      <4>1. m \in 1 .. Len(s) /\ m + 1 # 1 /\ (m + 1) - 1 = m
        BY <3>3
      <4>2. g[m] \in Seq(Character)
        BY <2>4, <4>1
      <4>3. g[m + 1] = g[m] \o s[m + 1]
        <5>1. g[m + 1] = g[(m + 1) - 1] \o s[m + 1]
          BY <2>2, <4>1
        <5> QED
          BY <4>1, <5>1
      <4> QED
        BY <3>1, <4>2, <4>3, ConcatElements
    <3> QED
      BY <3>2, <3>3
  <2> HIDE DEF T
  <2>5. \A m \in Nat : m \in T
    BY <2>3, <2>4, InductionOver
  <2>6. \A m \in 1 .. Len(s) : g[m] \in Seq(Character)
    BY <2>5 DEF T
  <2>7. ASSUME NEW j \in 1 .. Len(s)
        PROVE  h[j] = IF j = 1 THEN w[j] ELSE h[j - 1] \o w[j]
    <3>1. CASE j = 1
      BY <2>2, <3>1
    <3>2. CASE j # 1
      <4>1. j - 1 \in 1 .. Len(s)
        BY <3>2
      <4>2. g[j] = g[j - 1] \o s[j] /\ g[j - 1] \in Seq(Character) /\ s[j] \in Seq(Character)
        BY <1>1, <2>2, <2>6, <3>2, <4>1
      <4>3. Valid(g[j]) = Valid(g[j - 1]) \o Valid(s[j])
        BY <4>2, ValidConcat
      <4>4. h[j] = Valid(g[j]) /\ h[j - 1] = Valid(g[j - 1]) /\ w[j] = Valid(s[j])
        BY <4>1
      <4> HIDE DEF h, w
      <4> QED
        BY <3>2, <4>3, <4>4
    <3> QED
      BY <3>1, <3>2
  <2>8. h = [j \in 1 .. Len(s) |-> h[j]] /\ h[Len(s)] = Valid(g[Len(s)])
    BY <1>1, <1>4
  <2> HIDE DEF h, w
  <2>9. h = [j \in 1 .. Len(w) |-> IF j = 1 THEN w[j] ELSE h[j - 1] \o w[j]]
    BY <1>2, <2>7, <2>8
  <2>10. Unfolds(h, w)
    BY <2>9 DEF Unfolds
  <2>11. FlattenSeq(s) = g[Len(s)]
    BY <1>1, <1>4, <2>1, FlattenValue
  <2>12. FlattenSeq(w) = h[Len(s)]
    BY <1>1, <1>2, <1>4, <2>10, FlattenValue
  <2>13. [j \in DOMAIN s |-> Valid(s[j])] = w
    BY <1>1 DEF w
  <2> QED
    BY <2>8, <2>11, <2>12, <2>13
<1> QED
  BY <1>3, <1>4

\* A text that is UTF-8 is left alone.
LEMMA ValidKeeps ==
  ASSUME NEW s \in Seq(Character), Broken \notin Range(s)
  PROVE  Valid(s) = s
<1>1. /\ Valid(s) \in Seq(Character) /\ Len(Valid(s)) = Len(s)
      /\ \A j \in 1 .. Len(s) : Valid(s)[j] = IF s[j] = Broken THEN Replacement ELSE s[j]
  BY ValidIs
<1>2. \A j \in 1 .. Len(s) : s[j] # Broken
  BY DEF Range
<1>3. \A j \in 1 .. Len(s) : Valid(s)[j] = s[j]
  BY <1>1, <1>2
<1> QED
  BY <1>1, <1>3

\* The fields of a record that the replay looks at.
LEMMA MarshalIs ==
  ASSUME NEW r
  PROVE  LET rec == Marshal(FromResult(r))
         IN  /\ rec.input = Valid(r.input)
             /\ rec.mode = ModeString[r.mode]
             /\ rec.feature_stream = r.featureStream
             /\ DOMAIN rec.tokens = DOMAIN r.tokens
             /\ \A k \in DOMAIN r.tokens : rec.tokens[k].token = Valid(r.tokens[k].token)
<1> DEFINE raw == FromResult(r)
           rec == Marshal(raw)
<1>1. /\ raw = [input |-> raw.input, mode |-> raw.mode, feature_stream |-> raw.feature_stream,
                tokens |-> raw.tokens]
      /\ raw.input = r.input /\ raw.mode = ModeString[r.mode]
      /\ raw.feature_stream = r.featureStream
  BY DEF FromResult
<1>2. DOMAIN raw.tokens = DOMAIN r.tokens
  BY DEF FromResult
<1>3. ASSUME NEW k \in DOMAIN r.tokens
      PROVE  /\ raw.tokens[k].token = r.tokens[k].token
             /\ DOMAIN raw.tokens[k] = {"token", "span", "kind", "source", "variant", "phonemes",
                                        "alignment", "features"}
  BY DEF FromResult
<1> HIDE DEF raw
<1>4. /\ rec.input = Valid(raw.input) /\ rec.mode = raw.mode
      /\ rec.feature_stream = raw.feature_stream
      /\ rec.tokens = [k \in DOMAIN raw.tokens |->
                         [raw.tokens[k] EXCEPT !.token = Valid(@)]]
  <2> DEFINE v == Valid(raw.input)
             w == [k \in DOMAIN raw.tokens |-> [raw.tokens[k] EXCEPT !.token = Valid(@)]]
  <2>1. rec = [raw EXCEPT !.input = v, !.tokens = w]
    BY DEF Marshal
  <2>2. DOMAIN raw = {"input", "mode", "feature_stream", "tokens"}
    BY <1>1
  <2> HIDE DEF v, w, rec
  <2>3. rec.input = v /\ rec.mode = raw.mode /\ rec.feature_stream = raw.feature_stream
        /\ rec.tokens = w
    BY <2>1, <2>2
  <2> QED
    BY <2>3 DEF v, w
<1> HIDE DEF rec
<1>5. ASSUME NEW k \in DOMAIN r.tokens
      PROVE  rec.tokens[k].token = Valid(r.tokens[k].token)
  <2>1. rec.tokens[k] = [raw.tokens[k] EXCEPT !.token = Valid(@)]
    BY <1>2, <1>4
  <2>2. "token" \in DOMAIN raw.tokens[k]
    BY <1>3
  <2>3. rec.tokens[k].token = Valid(raw.tokens[k].token)
    BY <2>1, <2>2
  <2> QED
    BY <1>3, <2>3
<1>6. DOMAIN rec.tokens = DOMAIN r.tokens
  BY <1>2, <1>4
<1> QED
  BY <1>1, <1>4, <1>5, <1>6 DEF rec, raw

\* So is a record all of whose texts are.
LEMMA MarshalKeeps ==
  ASSUME NEW r, Valid(r.input) = r.input,
         \A k \in DOMAIN r.tokens : Valid(r.tokens[k].token) = r.tokens[k].token
  PROVE  Marshal(FromResult(r)) = FromResult(r)
<1> DEFINE raw == FromResult(r)
           kept == [k \in DOMAIN raw.tokens |-> [raw.tokens[k] EXCEPT !.token = Valid(@)]]
<1>1. /\ raw = [input |-> raw.input, mode |-> raw.mode, feature_stream |-> raw.feature_stream,
                tokens |-> raw.tokens]
      /\ raw.input = r.input
  BY DEF FromResult
<1>2. DOMAIN raw.tokens = DOMAIN r.tokens /\ raw.tokens = [k \in DOMAIN r.tokens |-> raw.tokens[k]]
  BY DEF FromResult
<1>3. ASSUME NEW k \in DOMAIN r.tokens PROVE [raw.tokens[k] EXCEPT !.token = Valid(@)] = raw.tokens[k]
  <2>1. PICK t : t = raw.tokens[k]
    OBVIOUS
  <2>2. t = [ token |-> t.token, span |-> t.span, kind |-> t.kind, source |-> t.source,
              variant |-> t.variant, phonemes |-> t.phonemes, alignment |-> t.alignment,
              features |-> t.features ]
    BY <2>1 DEF FromResult
  <2>3. t.token = r.tokens[k].token
    BY <2>1 DEF FromResult
  <2> HIDE DEF raw
  <2>4. Valid(t.token) = t.token
    BY <2>3
  <2>5. PICK v : v = Valid(t.token)
    OBVIOUS
  <2>6. [t EXCEPT !.token = v] = t
    BY <2>2, <2>4, <2>5
  <2>7. [t EXCEPT !.token = Valid(@)] = t
    BY <2>5, <2>6
  <2> QED
    BY <2>1, <2>7, Zenon
<1> HIDE DEF raw
<1>4. kept = raw.tokens
  BY <1>2, <1>3
<1>5. Marshal(raw) = [raw EXCEPT !.input = Valid(raw.input), !.tokens = kept]
  BY DEF Marshal
<1> HIDE DEF kept
<1>6. Valid(raw.input) = raw.input
  BY <1>1
<1>7. PICK v : v = Valid(raw.input)
  OBVIOUS
<1>8. [raw EXCEPT !.input = v, !.tokens = kept] = raw
  BY <1>1, <1>4, <1>6, <1>7
<1>9. Marshal(raw) = raw
  BY <1>5, <1>7, <1>8, Zenon
<1> QED
  BY <1>9 DEF raw

\* The spelling of a mode tells the mode.
LEMMA ParseModeIs ==
  ASSUME NEW m \in DOMAIN ModeString
  PROVE  ParseMode(ModeString[m]) = m
BY DEF ParseMode, ModeString

LEMMA RecordReplays ==
  ASSUME NEW b \in Batches, NEW j \in DOMAIN b
  PROVE  LET rec == RecordOf(b[j])
         IN  /\ rec.input = FlattenSeq([k \in DOMAIN rec.tokens |-> rec.tokens[k].token])
             /\ Broken \notin Range(b[j].text) =>
                  /\ rec = FromResult(ResultOf[b[j]])
                  /\ Len(rec.feature_stream) = Size(rec.input)
                  /\ Replayed(rec) = rec
<1> DEFINE call  == b[j]
           r     == ResultOf[call]
           rec   == RecordOf(call)
           parts == [k \in DOMAIN r.tokens |-> r.tokens[k].token]
<1>1. call = [mode |-> call.mode, text |-> call.text] /\ IsResultOf(r, call)
  BY ResultsAssumption
<1>2. /\ rec.input = Valid(r.input) /\ rec.mode = ModeString[r.mode]
      /\ rec.feature_stream = r.featureStream /\ DOMAIN rec.tokens = DOMAIN r.tokens
      /\ \A k \in DOMAIN r.tokens : rec.tokens[k].token = Valid(r.tokens[k].token)
  BY MarshalIs DEF RecordOf
<1>3. IsSequence(r.tokens)
  BY BatchesAssumption
<1>4. rec = Marshal(FromResult(r))
  BY DEF RecordOf
<1> HIDE DEF call, r, rec
<1>5. /\ r.input = call.text /\ r.mode = call.mode /\ call.mode \in DOMAIN ModeString
      /\ call.text \in Seq(Character) /\ Len(r.featureStream) = Size(call.text)
      /\ \A k \in DOMAIN r.tokens : r.tokens[k].token \in Seq(Character)
      /\ call.text = FlattenSeq(parts)
  BY <1>1, Zenon DEF IsResultOf, Character
<1>6. parts \in Seq(Seq(Character)) /\ DOMAIN parts = DOMAIN r.tokens
  <2>1. Len(r.tokens) \in Nat /\ DOMAIN r.tokens = 1 .. Len(r.tokens)
    BY <1>3 DEF IsSequence
  <2> QED
    BY <1>5, <2>1
<1>7. \A k \in DOMAIN r.tokens : parts[k] = r.tokens[k].token
  OBVIOUS
<1> HIDE DEF parts
<1>8. rec.input = FlattenSeq([k \in DOMAIN rec.tokens |-> rec.tokens[k].token])
  <2>1. Valid(FlattenSeq(parts)) = FlattenSeq([k \in DOMAIN parts |-> Valid(parts[k])])
    BY <1>6, ValidFlatten
  <2>2. [k \in DOMAIN parts |-> Valid(parts[k])] = [k \in DOMAIN rec.tokens |-> rec.tokens[k].token]
    BY <1>2, <1>6, <1>7
  <2> QED
    BY <1>2, <1>5, <2>1, <2>2
<1>9. ASSUME Broken \notin Range(call.text)
      PROVE  rec = FromResult(r) /\ Len(rec.feature_stream) = Size(rec.input) /\ Replayed(rec) = rec
  <2>1. Valid(call.text) = call.text
    BY <1>5, <1>9, ValidKeeps
  <2>2. ASSUME NEW k \in DOMAIN r.tokens PROVE Valid(r.tokens[k].token) = r.tokens[k].token
    <3>1. parts[k] \in Seq(Character) /\ k \in 1 .. Len(parts)
      BY <1>6
    <3>2. \A l \in 1 .. Len(parts[k]) : \E i \in 1 .. Len(call.text) : call.text[i] = parts[k][l]
      <4>1. LET flat == FlattenSeq(parts)
            IN  \A m \in 1 .. Len(parts) : \A l \in 1 .. Len(parts[m]) :
                  \E i \in 1 .. Len(flat) : flat[i] = parts[m][l]
        BY <1>6, FlattenElements, Zenon
      <4>2. \A l \in 1 .. Len(parts[k]) :
              \E i \in 1 .. Len(FlattenSeq(parts)) : FlattenSeq(parts)[i] = parts[k][l]
        BY <3>1, <4>1, Zenon
      <4>3. call.text = FlattenSeq(parts)
        BY <1>5
      <4> QED
        BY <4>2, <4>3, Zenon
    <3>3. Broken \notin Range(parts[k])
      <4>1. \A i \in 1 .. Len(call.text) : call.text[i] # Broken
        BY <1>5, <1>9 DEF Range
      <4>2. \A l \in 1 .. Len(parts[k]) : parts[k][l] # Broken
        BY <3>2, <4>1
      <4> QED
        BY <3>1, <4>2 DEF Range
    <3>4. Valid(parts[k]) = parts[k]
      BY <3>1, <3>3, ValidKeeps
    <3> QED
      BY <1>7, <3>4
  <2>3. Valid(r.input) = r.input
    BY <1>5, <2>1
  <2>4. rec = FromResult(r)
    BY <1>4, <2>2, <2>3, MarshalKeeps
  <2>5. rec.input = call.text
    BY <1>2, <1>5, <2>1
  <2>6. Len(rec.feature_stream) = Size(rec.input)
    BY <1>2, <1>5, <2>5
  <2>7. ParseMode(rec.mode) = call.mode
    BY <1>2, <1>5, ParseModeIs
  <2>8. [mode |-> ParseMode(rec.mode), text |-> rec.input] = call
    BY <1>1, <2>5, <2>7
  <2>9. Replayed(rec) = rec
    BY <2>8, Zenon DEF Replayed, rec
  <2> QED
    BY <2>4, <2>6, <2>9
<1> QED
  BY <1>8, <1>9 DEF call, r, rec

\* What ReadAll returns is a sequence of the records of the batch.
OutInv == pc = "done" => out \in Seq({RecordOf(calls[j]) : j \in DOMAIN calls})

LEMMA OutNext == GoldenInv /\ OutInv /\ [Next]_vars => OutInv'
<1> SUFFICES ASSUME GoldenInv, OutInv, [Next]_vars, pc' = "done" PROVE OutInv'
  BY DEF OutInv
<1>1. CASE pc = "read" /\ UNCHANGED <<calls, out>>
  BY <1>1 DEF GoldenInv, ReadInv, OutInv
<1>2. CASE pc = "done" /\ UNCHANGED <<calls, out>>
  BY <1>2 DEF OutInv
<1>3. CASE SkipBlank \/ ReadRecord
  <2>1. pc = "read" /\ pc' = pc
    BY <1>3 DEF SkipBlank, ReadRecord, ReadLine, AtLine
  <2> QED
    BY <2>1
<1>4. CASE WriteLine \/ WriteNewline \/ Flush \/ WriteError \/ Crash \/ Edit \/ Open
  BY <1>4 DEF WriteLine, WriteNewline, Flush, WriteError, Crash, Edit, Open
<1>5. CASE Malformed \/ LineTooLong \/ ReadError
  <2>1. out' = <<>>
    BY <1>5, Zenon DEF Malformed, LineTooLong, ReadError
  <2> QED
    BY <2>1 DEF OutInv
<1>7. CASE ReadEnd
  BY <1>1, <1>7 DEF ReadEnd, AtEnd, writer
<1>6. CASE UNCHANGED vars
  BY <1>2, <1>6 DEF vars
<1> QED
  BY <1>3, <1>4, <1>5, <1>6, <1>7 DEF Next, Step, Returned

\* The record of a text that is UTF-8 is read as it was made, with an entry of
\* the stream for each byte of its input, and replays; the tokens of any record
\* make up its input.
THEOREM RecordsReplay == Spec => []Utf8RecordsReplay
<1>1. Init => OutInv
  BY DEF Init, OutInv
<1>2. GoldenInv /\ OutInv => Utf8RecordsReplay
  <2> SUFFICES ASSUME GoldenInv, OutInv, pc = "done", err = "nil", NEW j \in DOMAIN out
               PROVE  /\ out[j].input = FlattenSeq([k \in DOMAIN out[j].tokens |->
                                                      out[j].tokens[k].token])
                      /\ Broken \notin Range(calls[j].text) => Faithful(j)
    BY DEF Utf8RecordsReplay
  <2>1. calls \in Batches /\ IsSequence(calls) /\ IsPrefix(out, Records)
    BY BatchesAssumption DEF GoldenInv, TypeInv, DoneInv, DamageIsNoticed
  <2>2. out \in Seq({RecordOf(calls[k]) : k \in DOMAIN calls})
    BY DEF OutInv
  <2>3. /\ Len(Records) = Len(calls) /\ DOMAIN calls = 1 .. Len(calls) /\ Len(calls) \in Nat
        /\ Records \in Seq({RecordOf(calls[k]) : k \in DOMAIN calls})
        /\ \A k \in 1 .. Len(calls) : Records[k] = RecordOf(calls[k])
    BY <2>1 DEF Records, IsSequence
  <2>4. j \in 1 .. Len(calls) /\ out[j] = Records[j]
    <3>1. Len(out) \in Nat /\ j \in 1 .. Len(out)
      BY <2>2
    <3>2. Len(out) <= Len(Records) /\ SubSeq(out, 1, Len(out)) = SubSeq(Records, 1, Len(out))
      BY <2>1 DEF IsPrefix
    <3>3. SubSeq(out, 1, Len(out))[j] = out[j]
      BY <2>2, <3>1
    <3>4. SubSeq(Records, 1, Len(out))[j] = Records[j]
      <4>1. PICK w : w = Records
        OBVIOUS
      <4> HIDE DEF Records
      <4>2. w \in Seq({RecordOf(calls[k]) : k \in DOMAIN calls}) /\ Len(out) <= Len(w)
        BY <2>3, <3>2, <4>1
      <4>3. SubSeq(w, 1, Len(out))[j] = w[j]
        BY <3>1, <4>2
      <4> QED
        BY <4>1, <4>3
    <3>5. j \in 1 .. Len(calls)
      <4>1. Len(out) <= Len(calls)
        BY <2>3, <3>2
      <4> QED
        BY <2>3, <3>1, <4>1
    <3> QED
      BY <3>2, <3>3, <3>4, <3>5, Zenon
  <2>5. out[j] = RecordOf(calls[j]) /\ j \in DOMAIN calls
    BY <2>3, <2>4
  <2>6. LET rec == RecordOf(calls[j])
        IN  /\ rec.input = FlattenSeq([k \in DOMAIN rec.tokens |-> rec.tokens[k].token])
            /\ Broken \notin Range(calls[j].text) =>
                 /\ rec = FromResult(ResultOf[calls[j]])
                 /\ Len(rec.feature_stream) = Size(rec.input)
                 /\ Replayed(rec) = rec
    BY <2>1, <2>5, RecordReplays
  <2> QED
    BY <2>5, <2>6, Zenon DEF Faithful
<1> QED
  BY <1>1, <1>2, OutNext, GoldenInvariance, PTL DEF Spec
=============================================================================
