------------------------------ MODULE DictLoad ------------------------------
(***************************************************************************)
(* internal/dict: Load and parseLine.  One step per line of the data, then *)
(* one step per key of the pending map, which Go visits in any order.      *)
(*                                                                         *)
(* A line is a record: whether it begins with white space, and its fields. *)
(* A field is a record: the text before the first parenthesis and the      *)
(* parenthesised rest, NoSuffix if there is no parenthesis.  Phonemes are  *)
(* opaque.                                                                 *)
(***************************************************************************)
EXTENDS SequencesExt, Slices

CONSTANTS
  Files,     \* the data Load is called with, as sequences of lines
  NoSuffix,  \* the field has no parenthesis
  Atoi,      \* parenthesised rest of a field -> its number, or NotANumber
  NotANumber,
  Lower      \* strings.ToLower of the text of a field

\* Files are sequences of lines, and lines of fields.
ASSUME FilesAssumption ==
  \A f \in Files : IsSequence(f) /\ \A m \in DOMAIN f : IsSequence(f[m].fields)

\* Atoi returns an integer or an error.
ASSUME AtoiAssumption ==
  \A f \in Files : \A m \in {l \in DOMAIN f : f[l].fields # <<>>} :
    LET suffix == f[m].fields[1].suffix
    IN  suffix = NoSuffix \/ Atoi[suffix] \in Int \cup {NotANumber}

VARIABLES
  file,      \* the lines
  phase,     \* "parse", "build" or "done"
  n,         \* the line the loop is at
  pending,   \* key -> the pronunciations parsed so far
  entries    \* the entries of the dictionary

loadVars == <<file, phase, n, pending, entries>>

Empty == [key \in {} |-> 0]

Put(map, key, value) ==
  [k \in DOMAIN map \cup {key} |-> IF k = key THEN value ELSE map[k]]

LoadInit ==
  /\ file \in Files
  /\ phase = "parse"
  /\ n = 1
  /\ pending = Empty
  /\ entries = Empty

-----------------------------------------------------------------------------
\* parseLine

Comment(line) == ~line.indented /\ line.fields # <<>> /\ line.fields[1].text = ";;;"

Variant(field) == IF field.suffix = NoSuffix THEN 0 ELSE Atoi[field.suffix]

\* A suffix that is not "(N)", or that is with N < 1: Atoi takes "0" and "-1".
Malformed(field) ==
  field.suffix # NoSuffix /\ (Atoi[field.suffix] = NotANumber \/ Atoi[field.suffix] < 1)

Usable(line) ==
  /\ ~Comment(line)
  /\ Len(line.fields) >= 2
  /\ ~Malformed(line.fields[1])
  /\ line.fields[1].text # ""

Phones(line) == Tail(line.fields)

LineKey(line) == Lower[line.fields[1].text]

-----------------------------------------------------------------------------
\* Load

noPronunciation == [canonical |-> <<>>, hasCanonical |-> FALSE, alternates |-> <<>>]

PendingFor(key) == IF key \in DOMAIN pending THEN pending[key] ELSE noPronunciation

NextLine == n' = n + 1 /\ UNCHANGED <<file, phase, entries>>

SkipLine ==
  /\ phase = "parse" /\ n <= Len(file)
  /\ ~Usable(file[n])
  /\ NextLine /\ UNCHANGED pending

\* The last unnumbered line of a key wins.
ParseCanonical ==
  /\ phase = "parse" /\ n <= Len(file)
  /\ Usable(file[n])
  /\ Variant(file[n].fields[1]) = 0
  /\ LET key == LineKey(file[n])
     IN  pending' = Put(pending, key, [PendingFor(key) EXCEPT
           !.canonical = Phones(file[n]), !.hasCanonical = TRUE])
  /\ NextLine

ParseAlternate ==
  /\ phase = "parse" /\ n <= Len(file)
  /\ Usable(file[n])
  /\ Variant(file[n].fields[1]) > 0
  /\ LET key == LineKey(file[n])
         vp  == [variant |-> Variant(file[n].fields[1]), phones |-> Phones(file[n])]
     IN  pending' = Put(pending, key, [PendingFor(key) EXCEPT !.alternates = Append(@, vp)])
  /\ NextLine

ParseEnd ==
  /\ phase = "parse" /\ n > Len(file)
  /\ phase' = "build"
  /\ UNCHANGED <<file, n, pending, entries>>

\* Fault: the alternates stay in the order of the file.
SortedAlternates_FileOrder(alternates) ==
  [j \in DOMAIN alternates |-> alternates[j].phones]

\* sort.SliceStable by variant: element j goes behind the elements with a
\* smaller variant and the earlier ones with the same.
SortedAlternates(alternates) ==
  LET Rank(j) == Cardinality({m \in DOMAIN alternates :
                   \/ alternates[m].variant < alternates[j].variant
                   \/ (alternates[m].variant = alternates[j].variant /\ m <= j)})
  IN  [r \in DOMAIN alternates |->
         alternates[CHOOSE j \in DOMAIN alternates : Rank(j) = r].phones]

\* Fault: an alternate is promoted where there is no unnumbered line.
CanonicalOf_Promotes(p) ==
  IF p.hasCanonical THEN p.canonical ELSE SortedAlternates(p.alternates)[1]

\* The canonical phones of a key without an unnumbered line stay nil, <<>>.
CanonicalOf(p) == p.canonical

BuildEntry ==
  /\ phase = "build"
  /\ \E key \in DOMAIN pending \ DOMAIN entries :
       entries' = Put(entries, key,
         [ canonical  |-> CanonicalOf(pending[key]),
           alternates |-> SortedAlternates(pending[key].alternates) ])
  /\ UNCHANGED <<file, phase, n, pending>>

BuildEnd ==
  /\ phase = "build"
  /\ DOMAIN entries = DOMAIN pending
  /\ phase' = "done"
  /\ UNCHANGED <<file, n, pending, entries>>

LoadStep == SkipLine \/ ParseCanonical \/ ParseAlternate \/ ParseEnd \/ BuildEntry \/ BuildEnd

Returned == phase = "done" /\ UNCHANGED loadVars

LoadNext == LoadStep \/ Returned

LoadSpec == LoadInit /\ [][LoadNext]_loadVars

-----------------------------------------------------------------------------
(***************************************************************************)
(* Properties                                                              *)
(***************************************************************************)

\* Lookup: only a key with canonical phones is found.
Exposed == {key \in DOMAIN entries : entries[key].canonical # <<>>}

Keys(lines) == {LineKey(file[m]) : m \in lines}

UsableLines == {m \in DOMAIN file : Usable(file[m])}

\* The lines of key with an unnumbered, or with a numbered, pronunciation.
Lines(key) == {m \in UsableLines : LineKey(file[m]) = key}
Unnumbered(key) == {m \in Lines(key) : file[m].fields[1].suffix = NoSuffix}
Numbered(key) == Lines(key) \ Unnumbered(key)

\* A word is found exactly if the file has an unnumbered line for it, and then
\* with the phones of the last such line: alternates are never promoted,
\* whatever lines come before and after (dict.go:109-112).  Phones are never
\* empty (parser.go:42), so an empty canonical says that there was no such line.
LastUnnumberedWins ==
  phase = "done" =>
    /\ Exposed = {key \in Keys(UsableLines) : Unnumbered(key) # {}}
    /\ \A key \in Exposed :
         \E m \in Unnumbered(key) :
           /\ \A l \in Unnumbered(key) : l <= m
           /\ entries[key].canonical = Phones(file[m])

\* Line a stands before line b among the alternates of a key.
Before(a, b) ==
  LET va == Variant(file[a].fields[1])
      vb == Variant(file[b].fields[1])
  IN  va < vb \/ (va = vb /\ a < b)

\* The alternates are the numbered lines in ascending variant order, lines of
\* one number in the order of the file; none is lost (dict.go:44-45).
AlternatesInOrder ==
  phase = "done" =>
    \A key \in Keys(UsableLines) :
      LET alternates == entries[key].alternates
          places     == 1 .. Len(alternates)
      IN  \E order \in [places -> Numbered(key)] :
            /\ alternates = [j \in places |-> Phones(file[order[j]])]
            /\ \A m \in Numbered(key) : \E j \in places : order[j] = m
            /\ \A j, l \in places : j < l => Before(order[j], order[l])
=============================================================================
