------------------------------ MODULE Arpabet ------------------------------
(***************************************************************************)
(* internal/lang/en/arpabet and pkg/phoneme: from ARPAbet symbols to       *)
(* phoneme IDs and feature masks.                                          *)
(*                                                                         *)
(* A symbol is a sequence: its letters, taken together, and its digits.  A *)
(* mask is a pair of sets of bit positions, one for each 64-bit word.      *)
(***************************************************************************)
EXTENDS Integers, Sequences

CONSTANTS
  Upper,        \* strings.ToUpper of letters and of digits
  SymbolToID,   \* symbol without stress, in upper case -> phoneme ID
  FeatureBits   \* phoneme ID -> the positions of its features

Word(bits, from) == {b - from : b \in bits \cap from .. (from + 63)}

\* Positions outside 0 .. 127 are ignored.
FromBits(bits) == [lo |-> Word(bits, 0), hi |-> Word(bits, 64)]

Zero == FromBits({})

FeatureFor(id) == IF id \in DOMAIN FeatureBits THEN FromBits(FeatureBits[id]) ELSE Zero

ASSUME InventoryAssumption ==
  \A sym \in DOMAIN SymbolToID :
    SymbolToID[sym] \in Nat \ {0} /\ FeatureFor(SymbolToID[sym]) # Zero

\* Only one digit is removed, and only 0, 1 or 2.
StripStress(sym) ==
  IF sym # <<>> /\ sym[Len(sym)] \in {"0", "1", "2"} THEN SubSeq(sym, 1, Len(sym) - 1) ELSE sym

Normal(sym) == StripStress([j \in DOMAIN sym |-> Upper[sym[j]]])

Mappable(syms) == \A j \in DOMAIN syms : Normal(syms[j]) \in DOMAIN SymbolToID

\* The phonemes of symbols that are all in the inventory.
MapSequence(syms) == [j \in DOMAIN syms |-> SymbolToID[Normal(syms[j])]]
=============================================================================
