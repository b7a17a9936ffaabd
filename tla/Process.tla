------------------------------ MODULE Process ------------------------------
(***************************************************************************)
(* One call of Engine.Process, from the tokens to the Result: resolving    *)
(* the pronunciation of each token, aligning its phonemes with its bytes   *)
(* and projecting their feature masks into the feature stream.             *)
(*                                                                         *)
(* The tokens are given: module Tokenizer shows how they come about, and   *)
(* that they tile the text.  A word stands for its surface, and what the   *)
(* dictionary and the fallback rules make of it are constants.             *)
(***************************************************************************)
EXTENDS AlignmentSpans, Arpabet

CONSTANTS
  Texts,       \* the token sequences Process is called on
  Entries,     \* lookup key -> Entry of the engine's dictionary
  Key,         \* word -> its lookup key, strings.ToLower of the surface
  Rules,       \* word -> fallback.Pronounce of it, or Declined
  Declined,
  Dictionary   \* what the engine says of its dictionary

\* What module Tokenizer shows of its tokens.
Tiles(s) ==
  \A j \in DOMAIN s :
    /\ s[j].start = IF j = 1 THEN 0 ELSE s[j - 1].end
    /\ s[j].start < s[j].end

ASSUME WordsAssumption == DOMAIN Key \subseteq STRING

TextToken == [kind : STRING, word : DOMAIN Key, start : Nat, end : Nat]

ASSUME TextsAssumption == \A s \in Texts : s \in Seq(TextToken) /\ Tiles(s)

Symbols == Seq(STRING)

ASSUME EntriesAssumption == \A key \in DOMAIN Entries : Entries[key].canonical \in Seq(Symbols)

\* No rule is without symbols, and what is left of a word without letters is
\* declined.
ASSUME RulesAssumption ==
  \A word \in DOMAIN Key :
    Rules[word] # Declined => Rules[word] \in Seq(Symbols) /\ Rules[word] # <<>>

VARIABLES
  mode,      \* the engine's mode
  text,      \* the tokens of the input
  pc,        \* "resolve", "project", "return" or "done"
  t,         \* the token the current loop is at
  k,         \* the phoneme the projection is at
  tokens,    \* the TokenResults built so far
  fs,        \* the feature stream
  result     \* the Result, once returned

vars == <<mode, text, pc, t, k, tokens, fs, result>>

Length(toks) == IF toks = <<>> THEN 0 ELSE toks[Len(toks)].end

\* The public types of a Result (result.go).  Versions that are constants of
\* the release are left out of the metadata.
Modes == {"ModeBatch", "ModeOracle", "ModeCausal"}

Sources == {"SourceDict", "SourceRuleFallback", "SourceUnknown"}

TokenKind == {"KindWord", "KindWhitespace", "KindPunctuation", "KindNumber",
              "KindSymbol", "KindUnknown"}

ByteSpan == [start : Nat, end : Nat]

Pronunciation ==
  [phonemes : Seq(Nat), alignment : Seq(ByteSpan), variant : {0}, source : Sources]

TokenResult ==
  [token : STRING, span : ByteSpan, kind : TokenKind, pronunciation : Pronunciation]

ResultMetadata ==
  [ oovPolicy            : {"rule-fallback-then-unknown"},
    fallbackRulesVersion : {"", "fallback-en-v0.2"},
    dictionary           : {Dictionary} ]

NoResult == <<>>

Init ==
  /\ mode \in Modes
  /\ text \in Texts
  /\ pc = "resolve"
  /\ t = 1
  /\ k = 1
  /\ tokens = <<>>
  /\ fs = [b \in 0 .. (Length(text) - 1) |-> Zero]
  /\ result = NoResult

-----------------------------------------------------------------------------
\* buildTokenResults and resolvePronunciation

emptyPronunciation ==
  [phonemes |-> <<>>, alignment |-> <<>>, variant |-> 0, source |-> "SourceUnknown"]

PublicKind == [ word        |-> "KindWord",        whitespace |-> "KindWhitespace",
                punctuation |-> "KindPunctuation", number     |-> "KindNumber",
                symbol      |-> "KindSymbol" ]

mapKind(kind) == IF kind \in DOMAIN PublicKind THEN PublicKind[kind] ELSE "KindUnknown"

\* Fault: no span for a phoneme that gets no byte.
Aligned_NoEmptySpan(n, tok) ==
  UniformByteAlignment(tok.start, tok.end, Least(n, tok.end - tok.start))

Aligned(n, tok) == UniformByteAlignment(tok.start, tok.end, n)

pronunciationFrom(syms, tok, source) ==
  IF Mappable(syms)
    THEN [ phonemes |-> MapSequence(syms), alignment |-> Aligned(Len(syms), tok),
           variant |-> 0, source |-> source ]
    ELSE emptyPronunciation

Resolve(pron) ==
  /\ tokens' = Append(tokens,
       [ token |-> text[t].word, span |-> [start |-> text[t].start, end |-> text[t].end],
         kind |-> mapKind(text[t].kind), pronunciation |-> pron ])
  /\ t' = t + 1
  /\ UNCHANGED <<mode, text, pc, k, fs, result>>

AtToken == pc = "resolve" /\ t <= Len(text)

\* Fault: words are looked up in causal mode as well.
Eligible_AnyMode == mapKind(text[t].kind) = "KindWord"

Eligible == mode # "ModeCausal" /\ mapKind(text[t].kind) = "KindWord"

Canonical(word) == Entries[Key[word]].canonical

\* Lookup finds a word only if it has an unnumbered entry.
Found(word) == Key[word] \in DOMAIN Entries /\ Canonical(word) # <<>>

\* Fault: an entry that does not map counts as a miss.
Miss_Unmappable(word) == Found(word) => ~Mappable(Canonical(word))

Miss(word) == ~Found(word)

SkipToken == AtToken /\ ~Eligible /\ Resolve(emptyPronunciation)

\* A hit whose symbols do not all map is no miss: the rules are not asked.
ResolveHit ==
  /\ AtToken /\ Eligible /\ ~Miss(text[t].word)
  /\ Resolve(pronunciationFrom(Canonical(text[t].word), text[t], "SourceDict"))

ResolveMiss ==
  /\ AtToken /\ Eligible /\ Miss(text[t].word)
  /\ LET syms == Rules[text[t].word]
     IN  IF syms = Declined THEN Resolve(emptyPronunciation)
         ELSE Resolve(pronunciationFrom(syms, text[t], "SourceRuleFallback"))

\* All tokens are resolved.  In causal mode nothing is projected.
Resolved ==
  /\ pc = "resolve" /\ t > Len(text)
  /\ pc' = IF mode = "ModeCausal" THEN "return" ELSE "project"
  /\ t' = 1
  /\ UNCHANGED <<mode, text, k, tokens, fs, result>>

-----------------------------------------------------------------------------
\* projectFeatureStream, one step per phoneme.

boundaryPhonemeID == 0

\* Faults: the span is taken to include its end, or not to include its start.
Covers_Inclusive(span, b) == span.start <= b /\ b <= span.end
Covers_Exclusive(span, b) == span.start < b /\ b < span.end

Covers(span, b) == span.start <= b /\ b < span.end

Write(id, span) ==
  fs' = [b \in DOMAIN fs |->
           IF Covers(span, b) /\ id # boundaryPhonemeID THEN FeatureFor(id) ELSE fs[b]]

AtPronunciation == pc = "project" /\ t <= Len(tokens)

\* Only a pronunciation with one span per phoneme is projected.
Paired(pron) == Len(pron.phonemes) = Len(pron.alignment)

ProjectPhoneme ==
  /\ AtPronunciation
  /\ LET pron == tokens[t].pronunciation
     IN  /\ Paired(pron)
         /\ k <= Len(pron.phonemes)
         /\ Write(pron.phonemes[k], pron.alignment[k])
  /\ k' = k + 1
  /\ UNCHANGED <<mode, text, pc, t, tokens, result>>

NextToken ==
  /\ AtPronunciation
  /\ LET pron == tokens[t].pronunciation
     IN  Paired(pron) => k > Len(pron.phonemes)
  /\ t' = t + 1
  /\ k' = 1
  /\ UNCHANGED <<mode, text, pc, tokens, fs, result>>

Projected ==
  /\ pc = "project" /\ t > Len(tokens)
  /\ pc' = "return"
  /\ UNCHANGED <<mode, text, t, k, tokens, fs, result>>

-----------------------------------------------------------------------------

fallbackRulesVersion == IF mode = "ModeCausal" THEN "" ELSE "fallback-en-v0.2"

\* The policy is a constant, whatever the mode.
Return ==
  /\ pc = "return"
  /\ result' = [ input |-> text, language |-> "en", mode |-> mode,
                 tokens |-> tokens, featureStream |-> fs,
                 metadata |-> [ oovPolicy |-> "rule-fallback-then-unknown",
                                fallbackRulesVersion |-> fallbackRulesVersion,
                                dictionary |-> Dictionary ] ]
  /\ pc' = "done"
  /\ UNCHANGED <<mode, text, t, k, tokens, fs>>

Step ==
  \/ SkipToken \/ ResolveHit \/ ResolveMiss \/ Resolved
  \/ ProjectPhoneme \/ NextToken \/ Projected \/ Return

Returned == pc = "done" /\ UNCHANGED vars

Next == Step \/ Returned

Spec == Init /\ [][Next]_vars

-----------------------------------------------------------------------------
(***************************************************************************)
(* Properties                                                              *)
(***************************************************************************)

Source(j) == tokens[j].pronunciation.source

\* The call's variables have their types; there is a span for each phoneme.
TypeOK ==
  /\ mode \in Modes
  /\ pc \in {"resolve", "project", "return", "done"}
  /\ t \in 1 .. (Len(text) + 1) /\ k \in Nat \ {0}
  /\ tokens \in Seq(TokenResult) /\ Len(tokens) <= Len(text)
  /\ \A j \in DOMAIN tokens :
       Len(tokens[j].pronunciation.phonemes) = Len(tokens[j].pronunciation.alignment)
  /\ result # NoResult => result.metadata \in ResultMetadata
  /\ DOMAIN fs = 0 .. (Length(text) - 1)

\* In the Result each byte of a resolved word carries the mask of the one
\* phoneme whose span holds it, which is never the zero mask, and each byte of
\* any other token is zero: no byte of a word is left out, even when it has
\* fewer or more phonemes than bytes, and no mask spills over to a neighbour.
StreamFollowsAlignment ==
  result # NoResult =>
    \A j \in DOMAIN result.tokens :
      LET tok  == result.tokens[j]
          pron == tok.pronunciation
      IN  \A b \in tok.span.start .. (tok.span.end - 1) :
            IF pron.source = "SourceUnknown" THEN result.featureStream[b] = Zero
            ELSE /\ result.featureStream[b] # Zero
                 /\ \E p \in DOMAIN pron.phonemes :
                      /\ b \in pron.alignment[p].start .. (pron.alignment[p].end - 1)
                      /\ result.featureStream[b] = FeatureFor(pron.phonemes[p])

\* No byte of the stream is written twice (engine.go:332-334).
WrittenOnce == [][\A b \in DOMAIN fs : fs[b] = Zero \/ fs'[b] = fs[b]]_vars

\* The rules answer only for words the dictionary does not have at all: an
\* entry that cannot be mapped is not a miss (engine.go:272-275).
FallbackOnlyOnMiss ==
  \A j \in DOMAIN tokens : Source(j) = "SourceRuleFallback" =>
    tokens[j].kind = "KindWord" /\ ~Found(text[j].word)

\* Causal mode looks nothing up: neither a pronunciation nor a byte of the
\* stream depends on the text, and the metadata names no version of the rules.
CausalTellsNothing ==
  mode = "ModeCausal" =>
    /\ \A j \in DOMAIN tokens : tokens[j].pronunciation = emptyPronunciation
    /\ \A b \in DOMAIN fs : fs[b] = Zero
    /\ result # NoResult => result.metadata.fallbackRulesVersion = ""

\* The policy that the metadata names is the one in force: "rule-fallback-then-
\* unknown" when the English rule fallback is active, that is where a version of
\* its rules is named too, and "unknown-only" otherwise (golden_jsonl_schema.md:30,
\* result.go:108-114, engine.go:235-237).
PolicyFollowsRules ==
  result # NoResult =>
    (   result.metadata.oovPolicy = "rule-fallback-then-unknown"
    <=> result.metadata.fallbackRulesVersion # "" )
=============================================================================
