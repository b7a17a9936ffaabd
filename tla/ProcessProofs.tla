--------------------------- MODULE ProcessProofs ---------------------------
(***************************************************************************)
(* Proofs about the alignment, for words and pronunciations of any length, *)
(* and about Process, which relies on it, for any texts, dictionary, rules *)
(* and inventory.                                                          *)
(***************************************************************************)
EXTENDS Engine, TLAPS

(***************************************************************************)
(* The closed form of the alignment                                        *)
(***************************************************************************)

\* The bytes are shared out: n shares of Base and Rem bytes over.
LEMMA Shares ==
  ASSUME NEW a \in Nat, NEW b \in Nat, a <= b, NEW m \in Nat, m > 0
  PROVE  /\ Base(a, b, m) \in Nat
         /\ Rem(a, b, m) \in 0 .. (m - 1)
         /\ m * Base(a, b, m) + Rem(a, b, m) = b - a
<1> DEFINE d == b - a
<1>1. d \in Nat
  OBVIOUS
<1>2. /\ d \div m \in Nat
      /\ d % m \in 0 .. (m - 1)
      /\ m * (d \div m) + (d % m) = d
  BY <1>1
<1> QED
  BY <1>2 DEF Base, Rem

\* One more phoneme moves the offset by that phoneme's width.
LEMMA OffsetStep ==
  ASSUME NEW a \in Nat, NEW b \in Nat, a <= b, NEW m \in Nat, NEW l \in 0 .. (m - 1)
  PROVE  /\ Offset(a, b, m, l) \in Nat
         /\ Offset(a, b, m, l + 1) \in Nat
         /\ Offset(a, b, m, l + 1) = Offset(a, b, m, l)
              + (IF l < Rem(a, b, m) THEN Base(a, b, m) + 1 ELSE Base(a, b, m))
<1> DEFINE q == Base(a, b, m)
           r == Rem(a, b, m)
<1>1. q \in Nat /\ r \in 0 .. (m - 1)
  BY Shares
<1> HIDE DEF q, r
<1>2. l * q \in Nat /\ (l + 1) * q = l * q + q
  BY <1>1
<1>3. Least(l + 1, r) = Least(l, r) + (IF l < r THEN 1 ELSE 0)
      /\ Least(l, r) \in Nat
  BY <1>1 DEF Least
<1>4. /\ Offset(a, b, m, l) = a + l * q + Least(l, r)
      /\ Offset(a, b, m, l + 1) = a + (l + 1) * q + Least(l + 1, r)
  BY DEF Offset, q, r
<1> QED
  BY <1>1, <1>2, <1>3, <1>4 DEF q, r

\* The first offset is the start of the word, the last one its end.
LEMMA OffsetEnds ==
  ASSUME NEW a \in Nat, NEW b \in Nat, a <= b, NEW m \in Nat
  PROVE  /\ m > 0 => Offset(a, b, m, 0) = a
         /\ m > 0 => Offset(a, b, m, m) = b
<1> SUFFICES ASSUME m > 0 PROVE Offset(a, b, m, 0) = a /\ Offset(a, b, m, m) = b
  OBVIOUS
<1>1. /\ Base(a, b, m) \in Nat /\ Rem(a, b, m) \in 0 .. (m - 1)
      /\ m * Base(a, b, m) + Rem(a, b, m) = b - a
  BY Shares
<1>2. Least(0, Rem(a, b, m)) = 0 /\ Least(m, Rem(a, b, m)) = Rem(a, b, m)
  BY <1>1 DEF Least
<1> QED
  BY <1>1, <1>2 DEF Offset

\* Offsets do not decrease.
LEMMA OffsetOrder ==
  ASSUME NEW a \in Nat, NEW b \in Nat, a <= b, NEW m \in Nat, m > 0,
         NEW j \in 0 .. m, NEW l \in 0 .. m, j <= l
  PROVE  Offset(a, b, m, j) <= Offset(a, b, m, l)
<1> DEFINE q == Base(a, b, m)
           r == Rem(a, b, m)
<1>1. q \in Nat /\ r \in Nat
  BY Shares
<1> HIDE DEF q, r
<1>2. /\ l - j \in Nat /\ (l - j) * q \in Nat
      /\ j * q \in Nat /\ l * q = j * q + (l - j) * q
  BY <1>1
<1>3. Least(j, r) <= Least(l, r) /\ Least(j, r) \in Nat /\ Least(l, r) \in Nat
  BY <1>1 DEF Least
<1>4. /\ Offset(a, b, m, j) = a + j * q + Least(j, r)
      /\ Offset(a, b, m, l) = a + l * q + Least(l, r)
  BY DEF Offset, q, r
<1> QED
  BY <1>2, <1>3, <1>4

\* Span l, inside the word, begins where the one before it ends.
LEMMA SpanInWord ==
  ASSUME NEW a \in Nat, NEW b \in Nat, a <= b, NEW m \in Nat, NEW l \in 1 .. m
  PROVE  LET s == UniformByteAlignment(a, b, m)
         IN  /\ s[l].start \in Nat /\ s[l].end \in Nat
             /\ a <= s[l].start /\ s[l].start <= s[l].end /\ s[l].end <= b
             /\ s[l].start = IF l = 1 THEN a ELSE s[l - 1].end
             /\ l = m => s[l].end = b
<1> DEFINE o(j) == Offset(a, b, m, j)
           s == UniformByteAlignment(a, b, m)
<1>1. m > 0 /\ l - 1 \in 0 .. (m - 1) /\ l \in 0 .. m /\ l - 1 \in 0 .. m /\ (l - 1) + 1 = l
  OBVIOUS
<1>2. o(l - 1) \in Nat /\ o(l) \in Nat
  BY <1>1, OffsetStep
<1>3. o(0) = a /\ o(m) = b
  BY <1>1, OffsetEnds
<1>4. o(0) <= o(l - 1) /\ o(l - 1) <= o(l) /\ o(l) <= o(m)
  <2>1. 0 \in 0 .. m /\ m \in 0 .. m /\ 0 <= l - 1 /\ l - 1 <= l /\ l <= m
    BY <1>1
  <2> QED
    BY <1>1, <2>1, OffsetOrder
<1>5. s[l].start = o(l - 1) /\ s[l].end = o(l)
  BY DEF UniformByteAlignment, Span
<1>6. l > 1 => s[l - 1].end = o(l - 1)
  BY DEF UniformByteAlignment, Span
<1> HIDE DEF o, s
<1>7. /\ s[l].start \in Nat /\ s[l].end \in Nat
      /\ a <= s[l].start /\ s[l].start <= s[l].end /\ s[l].end <= b
      /\ s[l].start = IF l = 1 THEN a ELSE s[l - 1].end
      /\ l = m => s[l].end = b
  BY <1>2, <1>3, <1>4, <1>5, <1>6
<1> QED
  BY <1>7 DEF s

-----------------------------------------------------------------------------
(***************************************************************************)
(* The loop's invariant: pos is the closed form's offset, so the spans are *)
(* the closed form's spans.                                                *)
(***************************************************************************)
AlignInv ==
  /\ AlignTypeOK
  /\ ClosedForm
  /\ pos = IF n = 0 THEN w0 ELSE Offset(w0, w1, n, i)

LEMMA AlignInvInit == NoCall => AlignInv
BY DEF NoCall, AlignInv, AlignTypeOK, ClosedForm

LEMMA AlignInvCall ==
  ASSUME NEW a \in Nat, NEW b \in Nat, a <= b, NEW m \in Nat, AlignCall(a, b, m)
  PROVE  AlignInv'
<1>1. m > 0 => Offset(a, b, m, 0) = a
  BY OffsetEnds
<1> QED
  BY <1>1 DEF AlignCall, AlignInv, AlignTypeOK, ClosedForm

LEMMA AlignInvNext == AlignInv /\ [AppendSpan]_alignVars => AlignInv'
<1> SUFFICES ASSUME AlignInv, [AppendSpan]_alignVars PROVE AlignInv'
  OBVIOUS
<1>1. CASE AppendSpan
  <2>1. /\ w0 \in Nat /\ w1 \in Nat /\ w0 <= w1 /\ n \in Nat /\ n > 0
        /\ i \in 0 .. (n - 1) /\ pos = Offset(w0, w1, n, i)
    BY <1>1 DEF AlignInv, AlignTypeOK, AppendSpan
  <2>2. /\ pos \in Nat /\ pos + WidthOf(i) \in Nat
        /\ pos + WidthOf(i) = Offset(w0, w1, n, i + 1)
    <3>1. /\ Offset(w0, w1, n, i) \in Nat /\ Offset(w0, w1, n, i + 1) \in Nat
          /\ Offset(w0, w1, n, i + 1) = Offset(w0, w1, n, i)
               + (IF i < Rem(w0, w1, n) THEN Base(w0, w1, n) + 1 ELSE Base(w0, w1, n))
      BY <2>1, OffsetStep
    <3>2. Offset(w0, w1, n, i + 1) = pos + WidthOf(i)
      BY <2>1, <3>1 DEF WidthOf
    <3> QED
      BY <2>1, <3>1, <3>2
  <2> DEFINE new == [start |-> pos, end |-> pos + WidthOf(i)]
  <2>3. new = Span(w0, w1, n, i + 1) /\ new \in [start : Nat, end : Nat]
    BY <2>1, <2>2 DEF Span
  <2> HIDE DEF new
  <2>4. /\ spans' = Append(spans, new) /\ i' = i + 1 /\ pos' = pos + WidthOf(i)
        /\ w0' = w0 /\ w1' = w1 /\ n' = n
    BY <1>1 DEF AppendSpan, new
  <2>5. /\ spans' \in Seq([start : Nat, end : Nat]) /\ Len(spans') = i'
        /\ \A l \in 1 .. i : spans'[l] = spans[l]
        /\ spans'[i + 1] = new
    BY <2>3, <2>4 DEF AlignInv, AlignTypeOK
  <2>6. AlignTypeOK'
    BY <2>1, <2>2, <2>4, <2>5 DEF AlignInv, AlignTypeOK
  <2>7. ClosedForm'
    BY <2>1, <2>3, <2>4, <2>5 DEF AlignInv, ClosedForm
  <2> QED
    BY <2>1, <2>2, <2>4, <2>6, <2>7 DEF AlignInv
<1>2. CASE UNCHANGED alignVars
  BY <1>2 DEF alignVars, AlignInv, AlignTypeOK, ClosedForm
<1> QED
  BY <1>1, <1>2

LEMMA SpanEnds ==
  ASSUME AlignInv, NEW h \in 1 .. i
  PROVE  spans[h].start = Offset(w0, w1, n, h - 1) /\ spans[h].end = Offset(w0, w1, n, h)
<1>1. spans[h] = Span(w0, w1, n, h)
  BY DEF AlignInv, ClosedForm
<1> QED
  BY <1>1 DEF Span

\* Neighbouring spans abut.
LEMMA SpansAbut == AlignInv => Contiguous
<1> SUFFICES ASSUME AlignInv PROVE Contiguous
  OBVIOUS
<1>1. /\ w0 \in Nat /\ w1 \in Nat /\ w0 <= w1 /\ n \in Nat /\ i \in 0 .. n
  BY DEF AlignInv, AlignTypeOK
<1>2. i = 0 => pos = w0
  BY <1>1, OffsetEnds DEF AlignInv
<1>3. i > 0 => spans[1].start = w0 /\ spans[i].end = pos
  <2> SUFFICES ASSUME i > 0 PROVE spans[1].start = w0 /\ spans[i].end = pos
    OBVIOUS
  <2>1. 1 \in 1 .. i /\ i \in 1 .. i /\ 1 - 1 = 0 /\ n > 0
    BY <1>1
  <2>2. spans[1].start = Offset(w0, w1, n, 0) /\ spans[i].end = Offset(w0, w1, n, i)
    BY <2>1, SpanEnds
  <2> QED
    BY <1>1, <2>1, <2>2, OffsetEnds DEF AlignInv
<1>4. \A l \in 1 .. (i - 1) : spans[l].end = spans[l + 1].start
  <2> SUFFICES ASSUME NEW l \in 1 .. (i - 1) PROVE spans[l].end = spans[l + 1].start
    OBVIOUS
  <2>1. l \in 1 .. i /\ l + 1 \in 1 .. i /\ (l + 1) - 1 = l
    BY <1>1
  <2> QED
    BY <2>1, SpanEnds
<1> QED
  BY <1>2, <1>3, <1>4 DEF Contiguous

\* Nothing is left over when the loop returns.
LEMMA SpansTile == AlignInv => TilesExactly
BY SpansAbut, OffsetEnds DEF AlignInv, AlignTypeOK, TilesExactly

\* No phoneme gets two bytes more than another, and the leading ones get more.
LEMMA WidthsUniform == AlignInv => Uniform
<1> SUFFICES ASSUME AlignInv, NEW j \in 1 .. i, NEW l \in 1 .. i, j <= l
             PROVE  /\ spans[l].end - spans[l].start <= spans[j].end - spans[j].start
                    /\ spans[j].end - spans[j].start <= spans[l].end - spans[l].start + 1
  BY DEF Uniform
<1>1. /\ w0 \in Nat /\ w1 \in Nat /\ w0 <= w1 /\ n \in Nat /\ n > 0 /\ i \in 0 .. n
  BY DEF AlignInv, AlignTypeOK
<1>2. Base(w0, w1, n) \in Nat /\ Rem(w0, w1, n) \in Nat
  BY <1>1, Shares
<1>3. ASSUME NEW h \in 1 .. i
      PROVE  spans[h].end - spans[h].start = WidthOf(h - 1)
  <2>1. h - 1 \in 0 .. (n - 1) /\ (h - 1) + 1 = h
    BY <1>1
  <2> DEFINE g == h - 1
  <2>2. /\ Offset(w0, w1, n, g) \in Nat
        /\ Offset(w0, w1, n, g + 1) = Offset(w0, w1, n, g) + WidthOf(g)
    BY <1>1, <2>1, OffsetStep DEF WidthOf
  <2>3. /\ spans[h].start = Offset(w0, w1, n, g)
        /\ spans[h].end = Offset(w0, w1, n, g + 1)
    BY <2>1, SpanEnds
  <2> QED
    BY <1>2, <2>2, <2>3 DEF WidthOf
<1> QED
  BY <1>1, <1>2, <1>3 DEF WidthOf

-----------------------------------------------------------------------------
(***************************************************************************)
(* What resolvePronunciation returns                                       *)
(***************************************************************************)

Resolving == {"SourceDict", "SourceRuleFallback"}

\* The pronunciation of a token over the bytes [a, b).
Sound(pron, a, b) ==
  \/ pron = emptyPronunciation
  \/ /\ pron.source \in Resolving
     /\ pron.phonemes # <<>>
     /\ \A p \in DOMAIN pron.phonemes :
          pron.phonemes[p] # boundaryPhonemeID /\ FeatureFor(pron.phonemes[p]) # Zero
     /\ pron.alignment = UniformByteAlignment(a, b, Len(pron.phonemes))

LEMMA MappedSymbols ==
  ASSUME NEW syms \in Seq(Symbols), Mappable(syms)
  PROVE  /\ MapSequence(syms) \in Seq(Nat)
         /\ Len(MapSequence(syms)) = Len(syms)
         /\ \A j \in DOMAIN syms :
              MapSequence(syms)[j] # 0 /\ FeatureFor(MapSequence(syms)[j]) # Zero
<1>1. \A j \in DOMAIN syms : Normal(syms[j]) \in DOMAIN SymbolToID
  BY DEF Mappable
<1>2. \A j \in DOMAIN syms :
        /\ SymbolToID[Normal(syms[j])] \in Nat \ {0}
        /\ FeatureFor(SymbolToID[Normal(syms[j])]) # Zero
  BY <1>1, InventoryAssumption
<1> DEFINE g(j) == SymbolToID[Normal(syms[j])]
<1>3. MapSequence(syms) = [j \in 1 .. Len(syms) |-> g(j)]
  BY DEF MapSequence
<1>4. \A j \in 1 .. Len(syms) : g(j) \in Nat /\ g(j) # 0 /\ FeatureFor(g(j)) # Zero
  BY <1>2
<1> HIDE DEF g
<1> QED
  BY <1>3, <1>4

LEMMA AlignmentType ==
  ASSUME NEW a \in Nat, NEW b \in Nat, a <= b, NEW m \in Nat
  PROVE  /\ UniformByteAlignment(a, b, m) \in Seq(ByteSpan)
         /\ Len(UniformByteAlignment(a, b, m)) = m
<1>1. \A j \in 1 .. m : Span(a, b, m, j) \in ByteSpan
  <2> SUFFICES ASSUME NEW j \in 1 .. m PROVE Span(a, b, m, j) \in ByteSpan
    OBVIOUS
  <2>1. UniformByteAlignment(a, b, m)[j] = Span(a, b, m, j)
    BY DEF UniformByteAlignment
  <2>2. Span(a, b, m, j).start \in Nat /\ Span(a, b, m, j).end \in Nat
    BY <2>1, SpanInWord
  <2> QED
    BY <2>2 DEF Span, ByteSpan
<1> QED
  BY <1>1 DEF UniformByteAlignment

LEMMA EmptySound ==
  ASSUME NEW a, NEW b
  PROVE  /\ Sound(emptyPronunciation, a, b)
         /\ emptyPronunciation \in Pronunciation
         /\ Paired(emptyPronunciation)
BY DEF Sound, emptyPronunciation, Pronunciation, Sources, Paired

LEMMA PronunciationSound ==
  ASSUME NEW tok, tok.start \in Nat, tok.end \in Nat, tok.start <= tok.end,
         NEW syms \in Seq(Symbols), syms # <<>>, NEW source \in Resolving
  PROVE  LET pron == pronunciationFrom(syms, tok, source)
         IN  /\ Sound(pron, tok.start, tok.end)
             /\ pron \in Pronunciation
             /\ Paired(pron)
             /\ pron.source \in {source, "SourceUnknown"}
<1>1. CASE ~Mappable(syms)
  <2>1. pronunciationFrom(syms, tok, source) = emptyPronunciation
    BY <1>1 DEF pronunciationFrom
  <2> QED
    BY <2>1, EmptySound DEF emptyPronunciation
<1>2. CASE Mappable(syms)
  <2> DEFINE phones == MapSequence(syms)
             shares == UniformByteAlignment(tok.start, tok.end, Len(syms))
             pron == [phonemes |-> phones, alignment |-> shares, variant |-> 0, source |-> source]
  <2>1. pronunciationFrom(syms, tok, source) = pron
    BY <1>2 DEF pronunciationFrom, Aligned
  <2>2. /\ phones \in Seq(Nat) /\ Len(phones) = Len(syms) /\ phones # <<>>
        /\ \A p \in DOMAIN phones : phones[p] # 0 /\ FeatureFor(phones[p]) # Zero
    BY <1>2, MappedSymbols
  <2>3. shares \in Seq(ByteSpan) /\ Len(shares) = Len(syms)
    <3>1. Len(syms) \in Nat
      OBVIOUS
    <3> HIDE DEF pron
    <3> QED
      BY <3>1, AlignmentType, Zenon
  <2>4. shares = UniformByteAlignment(tok.start, tok.end, Len(phones))
    BY <2>2
  <2> HIDE DEF phones, shares
  <2>5. /\ pron.phonemes = phones /\ pron.alignment = shares
        /\ pron.source = source /\ pron.variant = 0
        /\ pron \in Pronunciation
    BY <2>2, <2>3 DEF Pronunciation, Sources, Resolving
  <2> QED
    BY <2>1, <2>2, <2>3, <2>4, <2>5 DEF Sound, Paired, boundaryPhonemeID
<1> QED
  BY <1>1, <1>2

(***************************************************************************)
(* The tokens: each stands over its own bytes, in order, with a sound      *)
(* pronunciation, whose source tells how it was found.                     *)
(***************************************************************************)

\* What is known of the token at j of the text.
TokenInv(j) ==
  /\ tokens[j].span = [start |-> text[j].start, end |-> text[j].end]
  /\ Sound(tokens[j].pronunciation, tokens[j].span.start, tokens[j].span.end)
  /\ Paired(tokens[j].pronunciation)
  /\ mode = "ModeCausal" => tokens[j].pronunciation = emptyPronunciation
  /\ tokens[j].pronunciation.source = "SourceRuleFallback" =>
       tokens[j].kind = "KindWord" /\ ~Found(text[j].word)

TokensInv ==
  /\ text \in Texts
  /\ t \in Nat \ {0} /\ t <= Len(text) + 1
  /\ pc \in {"resolve", "project", "return", "done"}
  /\ tokens \in Seq(TokenResult)
  /\ Len(tokens) = IF pc = "resolve" THEN t - 1 ELSE Len(text)
  /\ \A j \in DOMAIN tokens : TokenInv(j)
  /\ \A l, j \in DOMAIN tokens : l < j => tokens[l].span.end <= tokens[j].span.start

LEMMA TextTiles ==
  ASSUME TokensInv
  PROVE  /\ text \in Seq(TextToken)
         /\ \A j \in 1 .. Len(text) :
              /\ text[j].kind \in STRING /\ text[j].word \in DOMAIN Key
              /\ text[j].start \in Nat /\ text[j].end \in Nat /\ text[j].start < text[j].end
              /\ text[j].start = IF j = 1 THEN 0 ELSE text[j - 1].end
<1>1. text \in Seq(TextToken) /\ Tiles(text)
  BY TextsAssumption DEF TokensInv
<1> SUFFICES ASSUME NEW j \in 1 .. Len(text)
             PROVE  /\ text[j].kind \in STRING /\ text[j].word \in DOMAIN Key
                    /\ text[j].start \in Nat /\ text[j].end \in Nat
                    /\ text[j].start < text[j].end
                    /\ text[j].start = IF j = 1 THEN 0 ELSE text[j - 1].end
  BY <1>1
<1>2. j \in DOMAIN text
  BY <1>1
<1>3. text[j] \in TextToken
  BY <1>1
<1>4. /\ text[j].kind \in STRING /\ text[j].word \in DOMAIN Key
      /\ text[j].start \in Nat /\ text[j].end \in Nat
  BY <1>3 DEF TextToken
<1> QED
  BY <1>1, <1>2, <1>4 DEF Tiles

LEMMA KindMapped == \A kind \in STRING : mapKind(kind) \in TokenKind
<1> SUFFICES ASSUME NEW kind \in STRING PROVE mapKind(kind) \in TokenKind
  OBVIOUS
<1>1. \A x \in DOMAIN PublicKind : PublicKind[x] \in TokenKind
  BY DEF PublicKind, TokenKind
<1>2. "KindUnknown" \in TokenKind
  BY DEF TokenKind
<1> QED
  BY <1>1, <1>2 DEF mapKind

\* A token is appended: the pronunciation must be what its source says.
LEMMA ResolveKeepsTokens ==
  ASSUME TokensInv, AtToken, NEW pron \in Pronunciation, Resolve(pron),
         Sound(pron, text[t].start, text[t].end), Paired(pron),
         mode = "ModeCausal" => pron = emptyPronunciation,
         pron.source = "SourceRuleFallback" =>
           mapKind(text[t].kind) = "KindWord" /\ ~Found(text[t].word)
  PROVE  TokensInv'
<1> DEFINE span == [start |-> text[t].start, end |-> text[t].end]
           new == [token |-> text[t].word, span |-> span, kind |-> mapKind(text[t].kind),
                   pronunciation |-> pron]
<1>1. /\ pc = "resolve" /\ t \in 1 .. Len(text) /\ Len(tokens) = t - 1
      /\ tokens \in Seq(TokenResult) /\ text \in Texts
  BY TextTiles DEF AtToken, TokensInv
<1>2. /\ tokens' = Append(tokens, new) /\ t' = t + 1
      /\ mode' = mode /\ text' = text /\ pc' = pc
  BY DEF Resolve
<1>3. /\ text[t].word \in DOMAIN Key /\ text[t].kind \in STRING
      /\ text[t].start \in Nat /\ text[t].end \in Nat /\ text[t].start < text[t].end
  BY <1>1, TextTiles
<1>4. new \in TokenResult
  <2>1. span \in ByteSpan
    BY <1>3 DEF ByteSpan
  <2>2. mapKind(text[t].kind) \in TokenKind /\ text[t].word \in STRING
    BY <1>3, KindMapped, WordsAssumption
  <2> HIDE DEF span
  <2> QED
    BY <2>1, <2>2 DEF TokenResult
<1>5. /\ new.span.start = text[t].start /\ new.span.end = text[t].end
      /\ new.span = [start |-> text[t].start, end |-> text[t].end]
      /\ new.pronunciation = pron /\ new.kind = mapKind(text[t].kind)
  OBVIOUS
<1> HIDE DEF new
<1>6. /\ tokens' \in Seq(TokenResult) /\ Len(tokens') = t
      /\ DOMAIN tokens' = 1 .. t
      /\ \A j \in 1 .. (t - 1) : j \in DOMAIN tokens /\ tokens'[j] = tokens[j]
      /\ tokens'[t] = new
  BY <1>1, <1>2, <1>4
<1>7. \A j \in 1 .. (t - 1) : TokenInv(j)'
  BY <1>2, <1>6 DEF TokensInv, TokenInv
<1>8. \A j \in {t} : TokenInv(j)'
  BY <1>2, <1>5, <1>6 DEF TokenInv
<1>9. \A l, j \in 1 .. t : l < j => tokens'[l].span.end <= tokens'[j].span.start
  <2> SUFFICES ASSUME NEW l \in 1 .. t, NEW j \in 1 .. t, l < j
               PROVE  tokens'[l].span.end <= tokens'[j].span.start
    OBVIOUS
  <2>1. CASE j < t
    <3>1. l \in 1 .. (t - 1) /\ j \in 1 .. (t - 1)
      BY <1>1, <2>1
    <3>2. \A m, r \in DOMAIN tokens : m < r => tokens[m].span.end <= tokens[r].span.start
      BY DEF TokensInv
    <3>3. /\ l \in DOMAIN tokens /\ tokens'[l] = tokens[l]
          /\ j \in DOMAIN tokens /\ tokens'[j] = tokens[j]
      BY <1>6, <3>1
    <3>4. tokens[l].span.end <= tokens[j].span.start
      BY <3>2, <3>3
    <3> QED
      BY <3>3, <3>4
  <2>2. CASE j = t
    <3>1. l \in 1 .. (t - 1) /\ t - 1 \in 1 .. (t - 1) /\ t - 1 \in 1 .. Len(text) /\ t # 1
      BY <1>1, <2>2
    <3>2. tokens[t - 1].span = [start |-> text[t - 1].start, end |-> text[t - 1].end]
      BY <1>6, <3>1 DEF TokensInv, TokenInv
    <3>3. /\ text[t].start = text[t - 1].end
          /\ text[t - 1].start \in Nat /\ text[t - 1].end \in Nat
          /\ text[t - 1].start < text[t - 1].end
      BY <1>1, <3>1, TextTiles
    <3>4. l < t - 1 => tokens[l].span.end <= tokens[t - 1].span.start
      BY <1>6, <3>1 DEF TokensInv
    <3>5. tokens[l].span.end \in Nat
      <4>1. tokens[l].span = [start |-> text[l].start, end |-> text[l].end]
        BY <1>6, <3>1 DEF TokensInv, TokenInv
      <4>2. l \in 1 .. Len(text)
        BY <1>1, <3>1
      <4> QED
        BY <4>1, <4>2, TextTiles
    <3> QED
      BY <1>5, <1>6, <2>2, <3>1, <3>2, <3>3, <3>4, <3>5
  <2> QED
    BY <1>1, <2>1, <2>2
<1> QED
  BY <1>1, <1>2, <1>6, <1>7, <1>8, <1>9 DEF TokensInv

LEMMA InitTokens == Init => TokensInv
BY TextsAssumption DEF Init, TokensInv

LEMMA StepTokens == TokensInv /\ [Next]_vars => TokensInv'
<1> SUFFICES ASSUME TokensInv, [Next]_vars PROVE TokensInv'
  OBVIOUS
<1> DEFINE kept == UNCHANGED <<mode, text, tokens>>
<1>1. CASE SkipToken
  <2>1. emptyPronunciation.source = "SourceUnknown"
    BY DEF emptyPronunciation
  <2> QED
    BY <1>1, <2>1, EmptySound, ResolveKeepsTokens DEF SkipToken
<1>2. ASSUME AtToken, Eligible, NEW syms \in Seq(Symbols), syms # <<>>, NEW source \in Resolving,
             source = "SourceRuleFallback" => Miss(text[t].word),
             Resolve(pronunciationFrom(syms, text[t], source))
      PROVE  TokensInv'
  <2>1. t \in 1 .. Len(text)
    BY <1>2, TextTiles DEF AtToken, TokensInv
  <2>2. text[t].start \in Nat /\ text[t].end \in Nat /\ text[t].start <= text[t].end
    BY <2>1, TextTiles
  <2> DEFINE pron == pronunciationFrom(syms, text[t], source)
  <2>3. /\ Sound(pron, text[t].start, text[t].end) /\ pron \in Pronunciation /\ Paired(pron)
        /\ pron.source \in {source, "SourceUnknown"}
    BY <1>2, <2>2, PronunciationSound
  <2>4. mode # "ModeCausal" /\ mapKind(text[t].kind) = "KindWord"
    BY <1>2 DEF Eligible
  <2> HIDE DEF pron
  <2> QED
    BY <1>2, <2>3, <2>4, ResolveKeepsTokens DEF Miss, pron
<1>3. CASE ResolveHit
  <2>1. /\ AtToken /\ Eligible /\ Found(text[t].word)
        /\ Resolve(pronunciationFrom(Canonical(text[t].word), text[t], "SourceDict"))
    BY <1>3 DEF ResolveHit, Miss
  <2>2. Canonical(text[t].word) \in Seq(Symbols) /\ Canonical(text[t].word) # <<>>
    BY <2>1, EntriesAssumption DEF Found, Canonical
  <2> QED
    BY <1>2, <2>1, <2>2 DEF Resolving
<1>4. CASE ResolveMiss
  <2> DEFINE syms == Rules[text[t].word]
  <2>1. AtToken /\ Eligible /\ Miss(text[t].word)
    BY <1>4 DEF ResolveMiss
  <2>2. CASE syms = Declined
    <3>1. Resolve(emptyPronunciation)
      BY <1>4, <2>2 DEF ResolveMiss
    <3>2. emptyPronunciation.source = "SourceUnknown"
      BY DEF emptyPronunciation
    <3> QED
      BY <2>1, <3>1, <3>2, EmptySound, ResolveKeepsTokens
  <2>3. CASE syms # Declined
    <3>1. Resolve(pronunciationFrom(syms, text[t], "SourceRuleFallback"))
      BY <1>4, <2>3 DEF ResolveMiss
    <3>2. t \in 1 .. Len(text)
      BY <2>1, TextTiles DEF AtToken, TokensInv
    <3>3. text[t].word \in DOMAIN Key
      BY <3>2, TextTiles
    <3>4. syms \in Seq(Symbols) /\ syms # <<>>
      BY <2>3, <3>3, RulesAssumption
    <3> HIDE DEF syms
    <3> QED
      BY <1>2, <2>1, <3>1, <3>4 DEF Resolving
  <2> QED
    BY <2>2, <2>3
<1>5. ASSUME kept, pc # "resolve" => pc' # "resolve", pc = "resolve" => t = Len(text) + 1,
             pc' \in {"project", "return", "done"}, t' \in Nat \ {0}, t' <= Len(text) + 1
      PROVE  TokensInv'
  <2>1. Len(tokens) = Len(text)
    BY <1>5, TextTiles DEF TokensInv
  <2>2. \A j \in DOMAIN tokens' : TokenInv(j)'
    BY <1>5 DEF TokensInv, TokenInv
  <2> QED
    BY <1>5, <2>1, <2>2 DEF TokensInv
<1>6. Len(text) \in Nat
  BY TextTiles
<1>7. CASE Resolved
  BY <1>5, <1>6, <1>7 DEF Resolved, TokensInv
<1>8. CASE ProjectPhoneme \/ Projected \/ Return
  BY <1>5, <1>6, <1>8 DEF ProjectPhoneme, Projected, Return, AtPronunciation, TokensInv
<1>9. CASE NextToken
  <2>1. t <= Len(text)
    BY <1>9 DEF NextToken, AtPronunciation, TokensInv
  <2> QED
    BY <1>5, <1>6, <1>9, <2>1 DEF NextToken, AtPronunciation, TokensInv
<1>10. CASE UNCHANGED vars
  BY <1>10 DEF vars, TokensInv, TokenInv
<1> QED
  BY <1>1, <1>3, <1>4, <1>7, <1>8, <1>9, <1>10 DEF Next, Step, Returned

LEMMA TokensHold == Spec => []TokensInv
<1> QED
  BY InitTokens, StepTokens, PTL DEF Spec

\* The rules answer only for words the dictionary does not have: an entry that
\* cannot be mapped gives an unknown word, whatever the rules would say.
THEOREM FallbackIsForMisses == Spec => []FallbackOnlyOnMiss
<1>1. TokensInv => FallbackOnlyOnMiss
  BY DEF TokensInv, TokenInv, FallbackOnlyOnMiss, Source
<1> QED
  BY <1>1, TokensHold, PTL

(***************************************************************************)
(* The stream: behind the cursor, where the projection is, each byte of a  *)
(* resolved token has the mask of its phoneme; everything else is zero.    *)
(***************************************************************************)

Bytes(j) == tokens[j].span.start .. (tokens[j].span.end - 1)

Cursor ==
  CASE t > Len(tokens)            -> Length(text)
    [] t <= Len(tokens) /\ k = 1  -> tokens[t].span.start
    [] t <= Len(tokens) /\ k # 1  -> tokens[t].pronunciation.alignment[k - 1].end

Speech(j, b) ==
  \E p \in DOMAIN tokens[j].pronunciation.phonemes :
    /\ b \in tokens[j].pronunciation.alignment[p].start ..
              (tokens[j].pronunciation.alignment[p].end - 1)
    /\ fs[b] = FeatureFor(tokens[j].pronunciation.phonemes[p])

Masked(j, b) ==
  IF Source(j) = "SourceUnknown" \/ b >= Cursor THEN fs[b] = Zero ELSE Speech(j, b)

StreamInv ==
  /\ k \in Nat \ {0}
  /\ DOMAIN fs = 0 .. (Length(text) - 1)
  /\ pc = "resolve" => k = 1 /\ \A b \in DOMAIN fs : fs[b] = Zero
  /\ pc = "project" => mode # "ModeCausal"
  /\ pc = "project" /\ t <= Len(tokens) =>
       k <= Len(tokens[t].pronunciation.phonemes) + 1
  /\ pc \in {"return", "done"} /\ mode # "ModeCausal" => t > Len(tokens)
  /\ mode = "ModeCausal" => \A b \in DOMAIN fs : fs[b] = Zero
  /\ pc # "resolve" => \A j \in DOMAIN tokens : \A b \in Bytes(j) : Masked(j, b)

LEMMA TokenFacts ==
  ASSUME TokensInv, NEW j \in DOMAIN tokens
  PROVE  /\ DOMAIN tokens = 1 .. Len(tokens) /\ Len(tokens) \in Nat /\ Len(tokens) <= Len(text)
         /\ tokens[j].span.start = text[j].start /\ tokens[j].span.end = text[j].end
         /\ tokens[j].span.start \in Nat /\ tokens[j].span.end \in Nat
         /\ tokens[j].span.start < tokens[j].span.end
<1>1. /\ DOMAIN tokens = 1 .. Len(tokens) /\ Len(tokens) \in Nat /\ Len(tokens) <= Len(text)
      /\ Len(text) \in Nat
  BY TextTiles DEF TokensInv
<1>2. tokens[j].span = [start |-> text[j].start, end |-> text[j].end] /\ j \in 1 .. Len(text)
  BY <1>1 DEF TokensInv, TokenInv
<1> QED
  BY <1>1, <1>2, TextTiles

\* The bytes of a token are bytes of the stream.
LEMMA BytesInText ==
  ASSUME TokensInv, Len(tokens) = Len(text), NEW j \in DOMAIN tokens
  PROVE  tokens[j].span.end <= Length(text) /\ Length(text) \in Nat
<1> DEFINE last == Len(tokens)
<1>1. Len(tokens) = Len(text) /\ j \in 1 .. last /\ last \in DOMAIN tokens /\ text # <<>>
  BY TokenFacts DEF TokensInv
<1>2. Length(text) = tokens[last].span.end
  BY <1>1, TokenFacts DEF Length
<1>3. j < last => tokens[j].span.end <= tokens[last].span.start
  BY <1>1 DEF TokensInv
<1> QED
  BY <1>1, <1>2, <1>3, TokenFacts

\* The phonemes of a token share its bytes out.
LEMMA PhonemeFacts ==
  ASSUME TokensInv, NEW j \in DOMAIN tokens, tokens[j].pronunciation.phonemes # <<>>
  PROVE  LET pron == tokens[j].pronunciation
             m    == Len(pron.phonemes)
         IN  /\ m \in Nat \ {0} /\ DOMAIN pron.phonemes = 1 .. m
             /\ Source(j) # "SourceUnknown"
             /\ \A p \in 1 .. m :
                  /\ pron.phonemes[p] # boundaryPhonemeID /\ FeatureFor(pron.phonemes[p]) # Zero
                  /\ pron.alignment[p].start \in Nat /\ pron.alignment[p].end \in Nat
                  /\ tokens[j].span.start <= pron.alignment[p].start
                  /\ pron.alignment[p].start <= pron.alignment[p].end
                  /\ pron.alignment[p].end <= tokens[j].span.end
                  /\ pron.alignment[p].start =
                       IF p = 1 THEN tokens[j].span.start ELSE pron.alignment[p - 1].end
                  /\ p = m => pron.alignment[p].end = tokens[j].span.end
<1> DEFINE pron == tokens[j].pronunciation
           a == tokens[j].span.start
           b == tokens[j].span.end
           m == Len(pron.phonemes)
<1>1. pron.phonemes \in Seq(Nat)
  <2>1. tokens[j] \in TokenResult
    BY DEF TokensInv
  <2>2. pron \in Pronunciation
    BY <2>1 DEF TokenResult
  <2> QED
    BY <2>2 DEF Pronunciation
<1>2. Sound(pron, a, b) /\ pron # emptyPronunciation
  <2>1. TokenInv(j)
    BY DEF TokensInv
  <2>2. emptyPronunciation.phonemes = <<>>
    BY DEF emptyPronunciation
  <2> QED
    BY <2>1, <2>2 DEF TokenInv
<1>3. /\ pron.source \in Resolving
      /\ \A p \in DOMAIN pron.phonemes :
           pron.phonemes[p] # boundaryPhonemeID /\ FeatureFor(pron.phonemes[p]) # Zero
      /\ pron.alignment = UniformByteAlignment(a, b, m)
  BY <1>2 DEF Sound
<1>4. a \in Nat /\ b \in Nat /\ a <= b
  BY TokenFacts
<1>5. m \in Nat \ {0} /\ DOMAIN pron.phonemes = 1 .. m
  BY <1>1
<1> DEFINE s == UniformByteAlignment(a, b, m)
<1>6. \A p \in 1 .. m :
        /\ s[p].start \in Nat /\ s[p].end \in Nat
        /\ a <= s[p].start /\ s[p].start <= s[p].end /\ s[p].end <= b
        /\ s[p].start = IF p = 1 THEN a ELSE s[p - 1].end
        /\ p = m => s[p].end = b
  <2> HIDE DEF pron, a, b, m
  <2> SUFFICES ASSUME NEW p \in 1 .. m
               PROVE  /\ s[p].start \in Nat /\ s[p].end \in Nat
                      /\ a <= s[p].start /\ s[p].start <= s[p].end /\ s[p].end <= b
                      /\ s[p].start = IF p = 1 THEN a ELSE s[p - 1].end
                      /\ p = m => s[p].end = b
    OBVIOUS
  <2> QED
    BY <1>4, <1>5, SpanInWord
<1> QED
  BY <1>3, <1>5, <1>6 DEF Source, Resolving

\* Where the bytes of token j are when the projection is at token t.
LEMMA TokenOrder ==
  ASSUME TokensInv, NEW l \in DOMAIN tokens, NEW j \in DOMAIN tokens, NEW b \in Bytes(j)
  PROVE  /\ b \in Int /\ tokens[j].span.start <= b /\ b < tokens[j].span.end
         /\ j < l => b < tokens[l].span.start
         /\ j > l => b >= tokens[l].span.end
<1>1. /\ b \in Int /\ tokens[j].span.start <= b /\ b < tokens[j].span.end
      /\ tokens[l].span.start \in Nat /\ tokens[l].span.end \in Nat
      /\ tokens[j].span.start \in Nat /\ tokens[j].span.end \in Nat
  BY TokenFacts DEF Bytes
<1>2. /\ j < l => tokens[j].span.end <= tokens[l].span.start
      /\ l < j => tokens[l].span.end <= tokens[j].span.start
  BY DEF TokensInv
<1>3. l \in Nat /\ j \in Nat
  BY TokenFacts
<1> QED
  BY <1>1, <1>2, <1>3

LEMMA NoPhonemes ==
  ASSUME TokensInv, NEW j \in DOMAIN tokens, tokens[j].pronunciation.phonemes = <<>>
  PROVE  Source(j) = "SourceUnknown"
<1>1. Sound(tokens[j].pronunciation, tokens[j].span.start, tokens[j].span.end)
  BY DEF TokensInv, TokenInv
<1>2. tokens[j].pronunciation = emptyPronunciation
  BY <1>1 DEF Sound
<1> QED
  BY <1>2 DEF Source, emptyPronunciation

\* The phoneme about to be projected has its span at the cursor, in bytes that
\* are zero.
LEMMA AtCursor ==
  ASSUME TokensInv, StreamInv, AtPronunciation, k <= Len(tokens[t].pronunciation.phonemes)
  PROVE  /\ t \in DOMAIN tokens /\ tokens[t].pronunciation.phonemes # <<>>
         /\ k \in 1 .. Len(tokens[t].pronunciation.phonemes)
         /\ Cursor = tokens[t].pronunciation.alignment[k].start
<1> DEFINE pron == tokens[t].pronunciation
<1>1. t \in DOMAIN tokens /\ t <= Len(tokens)
  BY TextTiles DEF TokensInv, AtPronunciation
<1>2. pron.phonemes # <<>> /\ k \in 1 .. Len(pron.phonemes)
  <2>1. Len(pron.phonemes) \in Nat
    <3>1. tokens[t] \in TokenResult
      BY <1>1 DEF TokensInv
    <3>2. pron \in Pronunciation
      BY <3>1 DEF TokenResult
    <3> QED
      BY <3>2 DEF Pronunciation
  <2> QED
    BY <2>1 DEF StreamInv
<1>3. pron.alignment[k].start = IF k = 1 THEN tokens[t].span.start ELSE pron.alignment[k - 1].end
  BY <1>1, <1>2, PhonemeFacts
<1>4. Cursor = IF k = 1 THEN tokens[t].span.start ELSE pron.alignment[k - 1].end
  BY <1>1, <1>2, TokenFacts DEF Cursor
<1> QED
  BY <1>1, <1>2, <1>3, <1>4

LEMMA ProjectKeepsStream ==
  ASSUME TokensInv, StreamInv, ProjectPhoneme
  PROVE  \A j \in DOMAIN tokens : \A b \in Bytes(j) : Masked(j, b)'
<1> DEFINE pron == tokens[t].pronunciation
           id == pron.phonemes[k]
           lo == pron.alignment[k].start
           hi == pron.alignment[k].end
<1>1. /\ t \in DOMAIN tokens /\ pron.phonemes # <<>> /\ k \in 1 .. Len(pron.phonemes)
      /\ Cursor = lo
  BY AtCursor DEF ProjectPhoneme
<1>2. /\ Source(t) # "SourceUnknown" /\ DOMAIN pron.phonemes = 1 .. Len(pron.phonemes)
      /\ id # boundaryPhonemeID /\ FeatureFor(id) # Zero
      /\ lo \in Nat /\ hi \in Nat
      /\ tokens[t].span.start <= lo /\ lo <= hi /\ hi <= tokens[t].span.end
  BY <1>1, PhonemeFacts
<1>3. /\ mode' = mode /\ text' = text /\ pc' = pc /\ t' = t /\ k' = k + 1 /\ tokens' = tokens
      /\ fs' = [b \in DOMAIN fs |-> IF Covers(pron.alignment[k], b) /\ id # boundaryPhonemeID
                                     THEN FeatureFor(id) ELSE fs[b]]
  BY DEF ProjectPhoneme, Write
<1>4. Cursor' = hi
  <2>1. t <= Len(tokens) /\ k + 1 # 1 /\ (k + 1) - 1 = k
    BY <1>1, TokenFacts
  <2> QED
    BY <1>3, <2>1 DEF Cursor
<1>5. tokens[t].span.start \in Nat /\ tokens[t].span.end \in Nat
  BY <1>1, TokenFacts
<1> SUFFICES ASSUME NEW j \in DOMAIN tokens, NEW b \in Bytes(j) PROVE Masked(j, b)'
  OBVIOUS
<1>6. /\ b \in Int /\ (j < t => b < tokens[t].span.start) /\ (j > t => b >= tokens[t].span.end)
      /\ j \in Nat /\ t \in Nat
  BY <1>1, TokenOrder, TokenFacts
<1>7. b \in DOMAIN fs
  <2>1. tokens[j].span.end <= Length(text) /\ Length(text) \in Nat
    BY BytesInText DEF TokensInv, ProjectPhoneme, AtPronunciation
  <2>2. tokens[j].span.start \in Nat /\ tokens[j].span.start <= b /\ b < tokens[j].span.end
        /\ tokens[j].span.end \in Nat
    BY TokenOrder, TokenFacts
  <2> QED
    BY <1>6, <2>1, <2>2 DEF StreamInv
<1>8. Masked(j, b)
  BY DEF StreamInv, ProjectPhoneme, AtPronunciation
<1> HIDE DEF lo, hi, id
<1>9. CASE lo <= b /\ b < hi
  <2>1. j = t
    BY <1>2, <1>5, <1>6, <1>9
  <2>2. fs'[b] = FeatureFor(id)
    BY <1>2, <1>3, <1>7, <1>9 DEF Covers, lo, hi
  <2>3. b \in lo .. (hi - 1)
    BY <1>2, <1>6, <1>9
  <2>4. Speech(t, b)'
    BY <1>1, <1>2, <1>3, <2>2, <2>3 DEF Speech, lo, hi, id
  <2>5. ~(b >= hi)
    BY <1>2, <1>6, <1>9
  <2> QED
    BY <1>2, <1>3, <1>4, <2>1, <2>4, <2>5 DEF Masked, Source
<1>10. CASE ~(lo <= b /\ b < hi)
  <2>1. fs'[b] = fs[b]
    BY <1>3, <1>7, <1>10 DEF Covers, lo, hi
  <2>2. b >= lo <=> b >= hi
    BY <1>2, <1>6, <1>10
  <2>3. Speech(j, b) => Speech(j, b)'
    BY <1>3, <2>1 DEF Speech
  <2> QED
    BY <1>1, <1>3, <1>4, <1>8, <2>1, <2>2, <2>3 DEF Masked, Source
<1> QED
  BY <1>9, <1>10

LEMMA NextTokenKeepsStream ==
  ASSUME TokensInv, StreamInv, NextToken
  PROVE  \A j \in DOMAIN tokens : \A b \in Bytes(j) : Masked(j, b)'
<1> DEFINE pron == tokens[t].pronunciation
           e == tokens[t].span.end
<1>1. /\ t \in DOMAIN tokens /\ t <= Len(tokens) /\ t \in Nat /\ Len(tokens) \in Nat
      /\ Len(tokens) = Len(text) /\ DOMAIN tokens = 1 .. Len(tokens)
  BY TextTiles DEF TokensInv, NextToken, AtPronunciation
<1>2. /\ mode' = mode /\ text' = text /\ pc' = pc /\ t' = t + 1 /\ k' = 1 /\ tokens' = tokens
      /\ fs' = fs
  BY DEF NextToken
<1>3. e \in Nat /\ tokens[t].span.start \in Nat /\ tokens[t].span.start < e /\ e = text[t].end
  BY <1>1, TokenFacts
<1>4. Cursor' = e
  <2>1. CASE t = Len(tokens)
    <3>1. Length(text) = e
      BY <1>1, <1>3, <2>1 DEF Length
    <3> QED
      BY <1>1, <1>2, <2>1, <3>1 DEF Cursor
  <2>2. CASE t < Len(tokens)
    <3>1. t + 1 \in DOMAIN tokens /\ t + 1 \in 1 .. Len(text) /\ (t + 1) - 1 = t /\ t + 1 # 1
      BY <1>1, <2>2
    <3>2. tokens[t + 1].span.start = text[t + 1].start
      BY <3>1, TokenFacts
    <3>3. text[t + 1].start = text[t].end
      BY <3>1, TextTiles
    <3> QED
      BY <1>1, <1>2, <1>3, <2>2, <3>2, <3>3 DEF Cursor
  <2> QED
    BY <1>1, <2>1, <2>2
<1>5. /\ Cursor \in Nat /\ tokens[t].span.start <= Cursor /\ Cursor <= e
      /\ Source(t) # "SourceUnknown" => Cursor = e
  <2>1. CASE pron.phonemes = <<>>
    <3>1. Source(t) = "SourceUnknown" /\ k = 1
      BY <1>1, <2>1, NoPhonemes DEF StreamInv, NextToken, AtPronunciation
    <3> QED
      BY <1>1, <1>3, <3>1 DEF Cursor
  <2>2. CASE pron.phonemes # <<>>
    <3> DEFINE m == Len(pron.phonemes)
    <3>1. m \in Nat \ {0} /\ m \in 1 .. m /\ pron.alignment[m].end = e
      BY <1>1, <2>2, PhonemeFacts
    <3>2. k = m + 1
      <4>1. Paired(pron)
        BY <1>1 DEF TokensInv, TokenInv
      <4>2. k > Len(pron.phonemes)
        BY <4>1, Zenon DEF NextToken
      <4>3. k <= Len(pron.phonemes) + 1 /\ k \in Nat
        BY <1>1 DEF StreamInv, NextToken, AtPronunciation
      <4> QED
        BY <3>1, <4>2, <4>3
    <3> HIDE DEF m
    <3>3. k # 1 /\ k - 1 = m
      BY <3>1, <3>2
    <3>4. Cursor = e
      BY <1>1, <3>1, <3>3 DEF Cursor
    <3> QED
      BY <1>3, <3>4
  <2> QED
    BY <2>1, <2>2
<1> HIDE DEF e, pron
<1> SUFFICES ASSUME NEW j \in DOMAIN tokens, NEW b \in Bytes(j) PROVE Masked(j, b)'
  OBVIOUS
<1>6. /\ b \in Int /\ (j < t => b < tokens[t].span.start) /\ (j > t => b >= e)
      /\ (j = t => b < e) /\ j \in Nat
  BY <1>1, TokenOrder, TokenFacts DEF e
<1>7. Masked(j, b)
  BY DEF StreamInv, NextToken, AtPronunciation
<1>8. Speech(j, b)' <=> Speech(j, b)
  BY <1>2 DEF Speech
<1>9. Source(j) = "SourceUnknown" \/ (b >= Cursor <=> b >= e)
  BY <1>1, <1>3, <1>5, <1>6
<1> QED
  BY <1>2, <1>4, <1>7, <1>8, <1>9 DEF Masked, Source

LEMMA InitStream == Init => StreamInv
BY DEF Init, StreamInv

\* Nothing has been projected when the tokens are resolved.
LEMMA ResolvedKeepsStream ==
  ASSUME TokensInv, StreamInv, Resolved
  PROVE  \A j \in DOMAIN tokens : \A b \in Bytes(j) : Masked(j, b)'
<1> SUFFICES ASSUME NEW j \in DOMAIN tokens, NEW b \in Bytes(j) PROVE Masked(j, b)'
  OBVIOUS
<1>1. /\ Len(tokens) = Len(text) /\ 1 \in DOMAIN tokens /\ 1 \in 1 .. Len(text)
      /\ 1 <= Len(tokens)
  BY TextTiles, TokenFacts DEF TokensInv, Resolved
<1>2. /\ text' = text /\ t' = 1 /\ k' = 1 /\ tokens' = tokens /\ fs' = fs
  BY DEF Resolved, StreamInv
<1>3. b \in Nat /\ b < tokens[j].span.end /\ tokens[j].span.end \in Nat
  BY TokenOrder, TokenFacts
<1>4. tokens[j].span.end <= Length(text) /\ Length(text) \in Nat
  BY <1>1, BytesInText
<1>5. fs[b] = Zero
  BY <1>3, <1>4 DEF StreamInv, Resolved
<1>6. tokens[1].span.start = text[1].start /\ text[1].start = 0
  BY <1>1, TokenFacts, TextTiles
<1>7. Cursor' = 0
  BY <1>1, <1>2, <1>6 DEF Cursor
<1> QED
  BY <1>2, <1>3, <1>5, <1>7 DEF Masked

\* The cursor stays where it is.
LEMMA OthersKeepStream ==
  ASSUME TokensInv, StreamInv, pc # "resolve", UNCHANGED <<text, t, k, tokens, fs>>
  PROVE  \A j \in DOMAIN tokens : \A b \in Bytes(j) : Masked(j, b)'
<1>1. Cursor' = Cursor
  BY DEF Cursor
<1>2. \A j \in DOMAIN tokens : \A b \in Bytes(j) : Speech(j, b)' <=> Speech(j, b)
  BY DEF Speech
<1> QED
  BY <1>1, <1>2 DEF StreamInv, Masked, Source

LEMMA PhonemesCounted ==
  ASSUME TokensInv, NEW j \in DOMAIN tokens
  PROVE  Len(tokens[j].pronunciation.phonemes) \in Nat
<1>1. tokens[j] \in TokenResult
  BY DEF TokensInv
<1>2. tokens[j].pronunciation \in Pronunciation
  BY <1>1 DEF TokenResult
<1> QED
  BY <1>2 DEF Pronunciation

LEMMA StepStream == TokensInv /\ StreamInv /\ [Next]_vars => StreamInv'
<1> SUFFICES ASSUME TokensInv, StreamInv, [Next]_vars PROVE StreamInv'
  OBVIOUS
<1> DEFINE m(j) == Len(tokens[j].pronunciation.phonemes)
<1>1. ASSUME NEW pron, AtToken, Resolve(pron) PROVE StreamInv'
  BY <1>1 DEF AtToken, Resolve, StreamInv
<1>2. CASE SkipToken \/ ResolveHit \/ ResolveMiss
  <2>1. PICK pron : AtToken /\ Resolve(pron)
    BY <1>2 DEF SkipToken, ResolveHit, ResolveMiss
  <2> QED
    BY <1>1, <2>1
<1>3. ASSUME UNCHANGED <<mode, text, tokens>>, DOMAIN fs' = DOMAIN fs, k' \in Nat \ {0},
             pc' \in {"project", "return", "done"},
             mode = "ModeCausal" => fs' = fs /\ pc' # "project",
             pc' = "project" /\ t' <= Len(tokens) => k' <= m(t') + 1,
             pc' # "project" /\ mode # "ModeCausal" => t' > Len(tokens),
             \A j \in DOMAIN tokens : \A b \in Bytes(j) : Masked(j, b)'
      PROVE  StreamInv'
  <2>1. \A j \in DOMAIN tokens' : \A b \in Bytes(j)' : Masked(j, b)'
    BY <1>3 DEF Bytes
  <2>2. /\ mode' = "ModeCausal" => \A b \in DOMAIN fs' : fs'[b] = Zero
        /\ DOMAIN fs' = 0 .. (Length(text') - 1)
    BY <1>3 DEF StreamInv
  <2> QED
    BY <1>3, <2>1, <2>2 DEF StreamInv
<1>4. t \in Nat \ {0} /\ Len(tokens) \in Nat /\ DOMAIN tokens = 1 .. Len(tokens)
  BY TextTiles DEF TokensInv
<1>5. CASE Resolved
  <2>1. 1 <= Len(tokens) => m(1) \in Nat
    BY <1>4, PhonemesCounted
  <2>2. /\ UNCHANGED <<mode, text, k, tokens, fs>> /\ k = 1 /\ t' = 1
        /\ pc' = IF mode = "ModeCausal" THEN "return" ELSE "project"
    BY <1>5 DEF Resolved, StreamInv
  <2>3. \A j \in DOMAIN tokens : \A b \in Bytes(j) : Masked(j, b)'
    BY <1>5, ResolvedKeepsStream
  <2> QED
    BY <1>3, <1>4, <2>1, <2>2, <2>3
<1>6. CASE ProjectPhoneme
  <2>1. k \in 1 .. m(t) /\ t \in DOMAIN tokens
    BY <1>6, AtCursor DEF ProjectPhoneme, AtPronunciation
  <2>2. DOMAIN fs' = DOMAIN fs
    BY <1>6 DEF ProjectPhoneme, Write
  <2>3. /\ pc = "project" /\ UNCHANGED <<mode, text, pc, t, tokens>> /\ k' = k + 1
        /\ mode # "ModeCausal"
    BY <1>6 DEF ProjectPhoneme, AtPronunciation, StreamInv
  <2>4. k' <= m(t') + 1 /\ k' \in Nat \ {0}
    BY <2>1, <2>3, PhonemesCounted
  <2> QED
    BY <1>3, <1>6, <2>2, <2>3, <2>4, ProjectKeepsStream
<1>7. CASE NextToken
  <2>1. t + 1 <= Len(tokens) => m(t + 1) \in Nat
    BY <1>4, PhonemesCounted
  <2>2. /\ pc = "project" /\ UNCHANGED <<mode, text, pc, tokens, fs>> /\ t' = t + 1 /\ k' = 1
        /\ mode # "ModeCausal"
    BY <1>7 DEF NextToken, AtPronunciation, StreamInv
  <2>3. \A j \in DOMAIN tokens : \A b \in Bytes(j) : Masked(j, b)'
    BY <1>7, NextTokenKeepsStream
  <2> QED
    BY <1>3, <1>4, <2>1, <2>2, <2>3
<1>8. CASE Projected \/ Return
  <2>1. /\ UNCHANGED <<mode, text, t, k, tokens, fs>> /\ pc # "resolve"
        /\ pc' \in {"return", "done"}
        /\ mode # "ModeCausal" => t > Len(tokens)
    BY <1>8 DEF Projected, Return, StreamInv
  <2>2. \A j \in DOMAIN tokens : \A b \in Bytes(j) : Masked(j, b)'
    BY <2>1, OthersKeepStream
  <2> QED
    BY <1>3, <2>1, <2>2 DEF StreamInv
<1>9. CASE UNCHANGED vars
  <2>1. UNCHANGED <<mode, text, pc, t, k, tokens, fs>>
    BY <1>9 DEF vars
  <2>2. pc # "resolve" => \A j \in DOMAIN tokens : \A b \in Bytes(j) : Masked(j, b)'
    BY <2>1, OthersKeepStream
  <2>3. pc # "resolve" => \A j \in DOMAIN tokens' : \A b \in Bytes(j)' : Masked(j, b)'
    BY <2>1, <2>2 DEF Bytes
  <2> QED
    BY <2>1, <2>3 DEF StreamInv
<1> QED
  BY <1>2, <1>5, <1>6, <1>7, <1>8, <1>9 DEF Next, Step, Returned

LEMMA StreamHolds == Spec => [](TokensInv /\ StreamInv)
<1> QED
  BY InitTokens, StepTokens, InitStream, StepStream, PTL DEF Spec

\* The Result is what Process has computed.
ResultInv ==
  /\ mode \in Modes
  /\ result # NoResult =>
       /\ pc = "done"
       /\ result.tokens = tokens /\ result.featureStream = fs
       /\ result.metadata \in ResultMetadata
       /\ result.metadata.fallbackRulesVersion = fallbackRulesVersion

LEMMA ResultHolds == Spec => []ResultInv
<1>1. Init => ResultInv
  BY DEF Init, ResultInv
<1>2. ResultInv /\ [Next]_vars => ResultInv'
  <2> SUFFICES ASSUME ResultInv, [Next]_vars PROVE ResultInv'
    OBVIOUS
  <2>1. CASE Return
    <3> DEFINE meta == [ oovPolicy |-> "rule-fallback-then-unknown",
                         fallbackRulesVersion |-> fallbackRulesVersion,
                         dictionary |-> Dictionary ]
    <3>1. /\ mode' = mode /\ pc' = "done" /\ tokens' = tokens /\ fs' = fs
          /\ result'.tokens = tokens /\ result'.featureStream = fs /\ result'.metadata = meta
      BY <2>1 DEF Return
    <3>2. fallbackRulesVersion' = fallbackRulesVersion
      <4> HIDE DEF meta
      <4> QED
        BY <3>1 DEF fallbackRulesVersion
    <3>3. fallbackRulesVersion \in {"", "fallback-en-v0.2"}
      BY DEF fallbackRulesVersion
    <3>4. meta \in ResultMetadata /\ meta.fallbackRulesVersion = fallbackRulesVersion
      BY <3>3 DEF ResultMetadata
    <3> HIDE DEF meta
    <3> QED
      BY <3>1, <3>2, <3>4 DEF ResultInv
  <2>2. CASE UNCHANGED vars
    BY <2>2 DEF vars, ResultInv, fallbackRulesVersion
  <2>3. CASE \/ SkipToken \/ ResolveHit \/ ResolveMiss \/ Resolved
             \/ ProjectPhoneme \/ NextToken \/ Projected
    <3>1. pc # "done" /\ result' = result /\ mode' = mode
      BY <2>3 DEF SkipToken, ResolveHit, ResolveMiss, Resolve, Resolved, ProjectPhoneme, NextToken,
                  Projected, AtToken, AtPronunciation
    <3> QED
      BY <3>1 DEF ResultInv
  <2> QED
    BY <2>1, <2>2, <2>3 DEF Next, Step, Returned
<1> QED
  BY <1>1, <1>2, PTL DEF Spec

\* The variables of a call have their types, and each phoneme of each token has
\* a span.
THEOREM TypeCorrect == Spec => []TypeOK
<1>1. TokensInv /\ StreamInv /\ ResultInv => TypeOK
  <2> SUFFICES ASSUME TokensInv, StreamInv, ResultInv PROVE TypeOK
    OBVIOUS
  <2>1. Len(text) \in Nat /\ t \in 1 .. (Len(text) + 1) /\ Len(tokens) <= Len(text)
    BY TextTiles DEF TokensInv
  <2>2. \A j \in DOMAIN tokens :
          Len(tokens[j].pronunciation.phonemes) = Len(tokens[j].pronunciation.alignment)
    BY DEF TokensInv, TokenInv, Paired
  <2> QED
    BY <2>1, <2>2 DEF TokensInv, StreamInv, ResultInv, TypeOK
<1> QED
  BY <1>1, StreamHolds, ResultHolds, PTL

\* In the Result each byte of a resolved word carries the mask of the phoneme
\* whose span holds it, and every other byte is zero: for words of any length
\* and pronunciations of any number of phonemes.
THEOREM StreamIsAlignment == Spec => []StreamFollowsAlignment
<1>1. TokensInv /\ StreamInv /\ ResultInv => StreamFollowsAlignment
  <2> SUFFICES ASSUME TokensInv, StreamInv, ResultInv, result # NoResult,
                      NEW j \in DOMAIN tokens,
                      NEW b \in tokens[j].span.start .. (tokens[j].span.end - 1)
               PROVE  LET pron == tokens[j].pronunciation
                      IN  IF pron.source = "SourceUnknown" THEN fs[b] = Zero
                          ELSE /\ fs[b] # Zero
                               /\ \E p \in DOMAIN pron.phonemes :
                                    /\ b \in pron.alignment[p].start .. (pron.alignment[p].end - 1)
                                    /\ fs[b] = FeatureFor(pron.phonemes[p])
    BY DEF ResultInv, StreamFollowsAlignment
  <2>1. pc = "done" /\ Len(tokens) = Len(text) /\ Masked(j, b)
    BY DEF ResultInv, TokensInv, StreamInv, Bytes
  <2>2. CASE Source(j) = "SourceUnknown"
    BY <2>1, <2>2 DEF Masked, Source
  <2>3. CASE Source(j) # "SourceUnknown"
    <3>1. mode # "ModeCausal"
      <4>1. TokenInv(j) /\ emptyPronunciation.source = "SourceUnknown"
        BY DEF TokensInv, emptyPronunciation
      <4> QED
        BY <2>3, <4>1 DEF TokenInv, Source
    <3>2. Cursor = Length(text)
      <4>1. t > Len(tokens) /\ t \in Nat /\ Len(tokens) \in Nat
        BY <2>1, <3>1, TokenFacts DEF StreamInv, TokensInv
      <4> QED
        BY <4>1 DEF Cursor
    <3>3. tokens[j].span.end <= Length(text) /\ Length(text) \in Nat
      BY <2>1, BytesInText
    <3>4. tokens[j].span.start \in Nat /\ tokens[j].span.end \in Nat
      BY TokenFacts
    <3>5. Speech(j, b)
      BY <2>1, <2>3, <3>2, <3>3, <3>4 DEF Masked
    <3>6. tokens[j].pronunciation.phonemes # <<>>
      BY <2>3, NoPhonemes
    <3>7. /\ DOMAIN tokens[j].pronunciation.phonemes = 1 .. Len(tokens[j].pronunciation.phonemes)
          /\ \A p \in 1 .. Len(tokens[j].pronunciation.phonemes) :
               FeatureFor(tokens[j].pronunciation.phonemes[p]) # Zero
      BY <3>6, PhonemeFacts
    <3> QED
      BY <2>3, <3>5, <3>7 DEF Speech, Source
  <2> QED
    BY <2>2, <2>3
<1> QED
  BY <1>1, StreamHolds, ResultHolds, PTL

\* Causal mode tells nothing about the text but its tokens.
THEOREM CausalIsSilent == Spec => []CausalTellsNothing
<1>1. TokensInv /\ StreamInv /\ ResultInv => CausalTellsNothing
  BY DEF TokensInv, TokenInv, StreamInv, ResultInv, CausalTellsNothing, fallbackRulesVersion
<1> QED
  BY <1>1, StreamHolds, ResultHolds, PTL

NoOverwrite == \A b \in DOMAIN fs : fs[b] = Zero \/ fs'[b] = fs[b]

\* The half-open spans are disjoint: the order in which phonemes and tokens are
\* projected does not matter.
THEOREM BytesAreWrittenOnce == Spec => WrittenOnce
<1>1. TokensInv /\ StreamInv /\ [Next]_vars => [NoOverwrite]_vars
  <2> SUFFICES ASSUME TokensInv, StreamInv, Next, NEW b \in DOMAIN fs
               PROVE  fs[b] = Zero \/ fs'[b] = fs[b]
    BY DEF NoOverwrite
  <2>1. CASE ProjectPhoneme
    <3> DEFINE pron == tokens[t].pronunciation
               span == pron.alignment[k]
    <3>1. /\ t \in DOMAIN tokens /\ pron.phonemes # <<>> /\ k \in 1 .. Len(pron.phonemes)
          /\ Cursor = span.start
      BY <2>1, AtCursor DEF ProjectPhoneme
    <3>2. /\ span.start \in Nat /\ span.end \in Nat
          /\ tokens[t].span.start <= span.start /\ span.end <= tokens[t].span.end
      BY <3>1, PhonemeFacts
    <3>3. tokens[t].span.start \in Nat /\ tokens[t].span.end \in Nat
      BY <3>1, TokenFacts
    <3>4. \A c \in Bytes(t) : Masked(t, c)
      BY <2>1, <3>1 DEF StreamInv, ProjectPhoneme, AtPronunciation
    <3>5. fs'[b] = IF Covers(span, b) /\ pron.phonemes[k] # boundaryPhonemeID
                   THEN FeatureFor(pron.phonemes[k]) ELSE fs[b]
      BY <2>1 DEF ProjectPhoneme, Write
    <3>6. b \in Int
      <4>1. Length(text) \in Nat
        BY <2>1, <3>1, BytesInText DEF ProjectPhoneme, AtPronunciation, TokensInv
      <4> QED
        BY <4>1 DEF StreamInv
    <3> HIDE DEF span, pron
    <3>7. Covers(span, b) => b \in Bytes(t) /\ b >= Cursor
      BY <3>1, <3>2, <3>3, <3>6 DEF Covers, Bytes
    <3> QED
      BY <3>4, <3>5, <3>7 DEF Masked
  <2>2. CASE ~ProjectPhoneme
    <3>1. fs' = fs
      BY <2>2 DEF Next, Step, Returned, SkipToken, ResolveHit, ResolveMiss, Resolve, Resolved,
                  NextToken, Projected, Return, vars
    <3> QED
      BY <3>1
  <2> QED
    BY <2>1, <2>2
<1>2. [NoOverwrite]_vars => [\A b \in DOMAIN fs : fs[b] = Zero \/ fs'[b] = fs[b]]_vars
  BY DEF NoOverwrite
<1> QED
  BY <1>1, <1>2, StreamHolds, PTL DEF Spec, WrittenOnce
-----------------------------------------------------------------------------
(***************************************************************************)
(* Process with the loop: a call of the loop is for the word Process is    *)
(* at, or for one before it, and then lies behind it.                      *)
(***************************************************************************)

CallInv ==
  pc = "resolve" /\ t <= Len(text) =>
    \/ w1 <= text[t].start
    \/ IsAligned /\ w0 = text[t].start /\ w1 = text[t].end /\ n = Len(WordSymbols)

EngineInv == TokensInv /\ AlignInv /\ CallInv

\* Process with its loop is Process.
THEOREM EngineIsProcess == EngineSpec => Spec
<1>1. EngineInit => Init
  BY DEF EngineInit
<1>2. [EngineNext]_engineVars => [Next]_vars
  BY DEF EngineNext, engineVars, Call, Loop, Proceed, Rest, Next
<1> QED
  BY <1>1, <1>2, PTL DEF EngineSpec, Spec

LEMMA EngineInvInit == EngineInit => EngineInv
<1> SUFFICES ASSUME EngineInit PROVE EngineInv
  OBVIOUS
<1>1. TokensInv /\ t = 1
  BY InitTokens DEF EngineInit, Init
<1>2. AlignInv
  BY AlignInvInit DEF EngineInit
<1>3. 1 <= Len(text) => text[1].start = 0
  BY <1>1, TextTiles
<1>4. CallInv
  BY <1>1, <1>3 DEF CallInv, EngineInit, NoCall
<1> QED
  BY <1>1, <1>2, <1>4 DEF EngineInv

\* The symbols of a word that is aligned.
LEMMA AlignedSymbols ==
  ASSUME TokensInv, IsAligned
  PROVE  /\ t \in 1 .. Len(text) /\ text[t].start \in Nat /\ text[t].end \in Nat
         /\ text[t].start < text[t].end
         /\ WordSymbols \in Seq(Symbols) /\ Len(WordSymbols) \in Nat
<1>1. t \in 1 .. Len(text) /\ text[t].word \in DOMAIN Key
  <2>1. t \in 1 .. Len(text)
    BY TextTiles DEF TokensInv, IsAligned, AtToken
  <2> QED
    BY <2>1, TextTiles
<1>2. WordSymbols \in Seq(Symbols)
  <2>1. CASE Miss(text[t].word)
    BY <1>1, <2>1, RulesAssumption DEF IsAligned, WordSymbols
  <2>2. CASE ~Miss(text[t].word)
    <3>1. Found(text[t].word)
      BY <2>2 DEF Miss
    <3> QED
      BY <2>2, <3>1, EntriesAssumption DEF WordSymbols, Found, Canonical
  <2> QED
    BY <2>1, <2>2
<1> QED
  BY <1>1, <1>2, TextTiles

LEMMA EngineInvNext == EngineInv /\ [EngineNext]_engineVars => EngineInv'
<1> SUFFICES ASSUME EngineInv, [EngineNext]_engineVars PROVE EngineInv'
  OBVIOUS
<1> USE DEF EngineInv
<1>1. TokensInv'
  <2>1. [Next]_vars
    BY DEF EngineNext, engineVars, Call, Loop, Proceed, Rest, Next
  <2> QED
    BY <2>1, StepTokens
<1>2. CASE Call
  <2>1. /\ AlignCall(text[t].start, text[t].end, Len(WordSymbols)) /\ IsAligned
        /\ mode' = mode /\ text' = text /\ pc' = pc /\ t' = t
    BY <1>2 DEF Call, vars
  <2>2. /\ text[t].start \in Nat /\ text[t].end \in Nat /\ text[t].start <= text[t].end
        /\ Len(WordSymbols) \in Nat
    BY <2>1, AlignedSymbols
  <2>3. AlignInv'
    BY <2>1, <2>2, AlignInvCall
  <2>4. w0' = text[t].start /\ w1' = text[t].end /\ n' = Len(WordSymbols)
    BY <2>1 DEF AlignCall
  <2>5. WordSymbols' = WordSymbols /\ IsAligned'
    BY <2>1 DEF WordSymbols, IsAligned, AtToken, Eligible
  <2>6. CallInv'
    BY <2>1, <2>4, <2>5 DEF CallInv
  <2> QED
    BY <1>1, <2>3, <2>6
<1>3. CASE Loop
  <2>1. AlignInv'
    BY <1>3, AlignInvNext DEF Loop
  <2>2. /\ w0' = w0 /\ w1' = w1 /\ n' = n
        /\ mode' = mode /\ text' = text /\ pc' = pc /\ t' = t
    BY <1>3 DEF Loop, AppendSpan, vars
  <2>3. CallInv'
    BY <2>2 DEF CallInv, WordSymbols, IsAligned, AtToken, Eligible
  <2> QED
    BY <1>1, <2>1, <2>3
<1>4. CASE Proceed
  <2>1. AlignInv'
    BY <1>4, AlignInvNext DEF Proceed
  <2>2. w1' = w1 /\ w1 \in Nat /\ text' = text
    BY <1>4 DEF Proceed, alignVars, AlignInv, AlignTypeOK, Step, SkipToken, ResolveHit,
      ResolveMiss, Resolve, Resolved, ProjectPhoneme, NextToken, Projected, Return
  <2>3. CASE SkipToken \/ ResolveHit \/ ResolveMiss
    <3>1. pc = "resolve" /\ t <= Len(text) /\ t' = t + 1
      BY <2>3 DEF SkipToken, ResolveHit, ResolveMiss, Resolve, AtToken
    <3>2. t \in 1 .. Len(text) /\ text[t].start < text[t].end
          /\ text[t].start \in Nat /\ text[t].end \in Nat
      <4>1. t \in 1 .. Len(text)
        BY <3>1, TextTiles DEF TokensInv
      <4> QED
        BY <4>1, TextTiles
    <3>3. w1 <= text[t].end
      BY <2>2, <3>1, <3>2 DEF CallInv
    <3>4. t + 1 <= Len(text) => text[t + 1].start = text[t].end
      <4>1. t + 1 <= Len(text) => t + 1 \in 1 .. Len(text) /\ t + 1 # 1 /\ (t + 1) - 1 = t
        BY <3>2
      <4> QED
        BY <4>1, TextTiles
    <3>5. CallInv'
      BY <2>2, <3>1, <3>3, <3>4 DEF CallInv
    <3> QED
      BY <1>1, <2>1, <3>5
  <2>4. CASE Resolved \/ ProjectPhoneme \/ NextToken \/ Projected \/ Return
    <3>1. pc' # "resolve"
      BY <2>4 DEF Resolved, ProjectPhoneme, NextToken, Projected, Return, AtPronunciation
    <3> QED
      BY <1>1, <2>1, <3>1 DEF CallInv
  <2> QED
    BY <1>4, <2>3, <2>4 DEF Proceed, Step
<1>5. CASE Rest \/ UNCHANGED engineVars
  <2>1. UNCHANGED <<mode, text, pc, t, w0, w1, n, i, pos, spans>>
    BY <1>5 DEF Rest, Returned, engineVars, vars, alignVars
  <2>2. AlignInv'
    BY <2>1, AlignInvNext DEF alignVars
  <2>3. CallInv'
    BY <2>1 DEF CallInv, WordSymbols, IsAligned, AtToken, Eligible
  <2> QED
    BY <1>1, <2>2, <2>3
<1> QED
  BY <1>2, <1>3, <1>4, <1>5 DEF EngineNext

LEMMA EngineHolds == EngineSpec => []EngineInv
<1> QED
  BY EngineInvInit, EngineInvNext, PTL DEF EngineSpec

\* What the loop appends is the closed form, for every word and pronunciation.
THEOREM LoopIsClosedForm == EngineSpec => []ClosedForm
<1> QED
  BY EngineHolds, PTL DEF EngineInv, AlignInv

\* The alignment has no gap and no overlap, and ends on the last byte of the
\* word.
THEOREM AlignmentTiles == EngineSpec => []TilesExactly
<1>1. EngineInv => TilesExactly
  BY SpansTile DEF EngineInv
<1> QED
  BY <1>1, EngineHolds, PTL

\* Of two phonemes of a word none gets two bytes more than the other.
THEOREM AlignmentIsUniform == EngineSpec => []Uniform
<1>1. EngineInv => Uniform
  BY WidthsUniform DEF EngineInv
<1> QED
  BY <1>1, EngineHolds, PTL

\* The loop has run to its end for the word whose pronunciation is built.
LEMMA LoopHasReturned ==
  ASSUME EngineInv, Proceed, IsAligned
  PROVE  spans = UniformByteAlignment(text[t].start, text[t].end, Len(WordSymbols))
<1>1. Called /\ i = n
  BY DEF Proceed, AlignReturned
<1>2. w0 = text[t].start /\ w1 = text[t].end /\ n = Len(WordSymbols)
  <2>1. pc = "resolve" /\ t <= Len(text)
    BY DEF IsAligned, AtToken
  <2>2. ~(w1 <= text[t].start)
    BY <1>1, AlignedSymbols DEF Called, EngineInv
  <2> QED
    BY <2>1, <2>2 DEF EngineInv, CallInv
<1>3. /\ spans \in Seq([start : Nat, end : Nat]) /\ Len(spans) = n /\ n \in Nat
      /\ \A l \in 1 .. n : spans[l] = Span(w0, w1, n, l)
  BY <1>1 DEF EngineInv, AlignInv, AlignTypeOK, ClosedForm
<1>4. spans = [l \in 1 .. n |-> Span(w0, w1, n, l)]
  BY <1>3
<1> QED
  BY <1>2, <1>4 DEF UniformByteAlignment

ReturnedAlignment ==
  tokens' # tokens =>
    LET pron == tokens'[t].pronunciation
    IN  pron.source # "SourceUnknown" => pron.alignment = spans

\* The closed form that Process works with is what its loop returns, for each
\* word of any text.
THEOREM LoopIsReturned == EngineSpec => AlignmentIsReturned
<1>1. EngineInv /\ [EngineNext]_engineVars => [ReturnedAlignment]_engineVars
  <2> SUFFICES ASSUME EngineInv, EngineNext, tokens' # tokens,
                      tokens'[t].pronunciation.source # "SourceUnknown"
               PROVE  tokens'[t].pronunciation.alignment = spans
    BY DEF ReturnedAlignment
  <2>1. Proceed
    BY DEF EngineNext, Call, Loop, Rest, Returned, vars
  <2>2. SkipToken \/ ResolveHit \/ ResolveMiss
    BY <2>1 DEF Proceed, Step, Resolved, ProjectPhoneme, NextToken, Projected, Return
  <2>3. t \in Nat /\ t >= 1 /\ Len(tokens) = t - 1 /\ tokens \in Seq(TokenResult)
    BY <2>2 DEF EngineInv, TokensInv, SkipToken, ResolveHit, ResolveMiss, AtToken
  <2>4. ASSUME NEW pron, Resolve(pron)
        PROVE  tokens'[t].pronunciation = pron
    BY <2>3, <2>4 DEF Resolve
  <2>5. emptyPronunciation.source = "SourceUnknown"
    BY DEF emptyPronunciation
  <2>6. ASSUME NEW source, tokens'[t].pronunciation = pronunciationFrom(WordSymbols, text[t], source),
               AtToken, Eligible, Miss(text[t].word) => Rules[text[t].word] # Declined
        PROVE  tokens'[t].pronunciation.alignment = spans
    <3>1. Mappable(WordSymbols)
      BY <2>5, <2>6 DEF pronunciationFrom
    <3>2. tokens'[t].pronunciation.alignment =
            UniformByteAlignment(text[t].start, text[t].end, Len(WordSymbols))
      BY <2>6, <3>1 DEF pronunciationFrom, Aligned
    <3> QED
      BY <2>1, <2>6, <3>1, <3>2, LoopHasReturned DEF IsAligned
  <2>7. CASE SkipToken
    BY <2>4, <2>5, <2>7 DEF SkipToken
  <2>8. CASE ResolveHit
    <3>1. WordSymbols = Canonical(text[t].word)
      BY <2>8 DEF ResolveHit, WordSymbols
    <3>2. tokens'[t].pronunciation = pronunciationFrom(WordSymbols, text[t], "SourceDict")
      BY <2>4, <2>8, <3>1 DEF ResolveHit
    <3> QED
      BY <2>6, <2>8, <3>2 DEF ResolveHit
  <2>9. CASE ResolveMiss
    <3>1. WordSymbols = Rules[text[t].word]
      BY <2>9 DEF ResolveMiss, WordSymbols
    <3>2. Rules[text[t].word] # Declined
      BY <2>4, <2>5, <2>9 DEF ResolveMiss
    <3>3. tokens'[t].pronunciation = pronunciationFrom(WordSymbols, text[t], "SourceRuleFallback")
      BY <2>4, <2>9, <3>1, <3>2 DEF ResolveMiss
    <3> QED
      BY <2>6, <2>9, <3>2, <3>3 DEF ResolveMiss
  <2> QED
    BY <2>2, <2>7, <2>8, <2>9
<1> QED
  BY <1>1, EngineHolds, PTL DEF EngineSpec, AlignmentIsReturned, ReturnedAlignment
=============================================================================
