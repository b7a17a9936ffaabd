# Gofonix in TLA+

Gofonix turns English text into phonemes: `g2p.New` builds an engine over a
pronunciation dictionary, and `Engine.Process` splits a text into tokens,
resolves each word, aligns its phonemes with its bytes and projects their
feature masks into a stream with one mask per byte. A command line prints what
`Process` returns, golden files keep it for comparison, and scripts fetch the
texts of the benchmarks. These modules model all of them, are checked with TLC
on small instances, and prove with TLAPS the properties that hold for every
instance.

## The system

| component | code | state | operations |
|---|---|---|---|
| Tokenizer | `internal/tokenizer` | offset, scan position, tokens | `Tokenize` and its four scans |
| Full-dictionary loader, engine construction | `internal/dict/loader_full*.go`, `pkg/g2p/engine.go` 62-143 | none of its own; reads a file that others may change | `New`, `loadDictionary`, `LoadFull` |
| Dictionary store | `internal/dict/dict.go`, `parser.go` | an immutable map, shared by goroutines | `Load`, `Lookup` |
| English rule fallback | `internal/lang/en/fallback` | an index built at package initialisation | `Normalize`, `Match`, `Pronounce`, `validateRules` |
| ARPAbet bridge | `internal/lang/en/arpabet` | tables | `MapSequence`, `MapSymbol`, `StripStress`, `FeatureFor` |
| Alignment | `pkg/g2p/align.go` | none | `uniformByteAlignment` |
| Process | `pkg/g2p/engine.go` 145-386, `result.go` | the tokens and the feature stream of one call | `Process` |
| Phoneme masks | `pkg/phoneme` | values | `FromBits`, `Zero`, accessors |
| Golden records | `internal/golden` | a JSONL file, its writer and its reader | `FromResult`, `WriteAll`, `ReadAll` |
| Command line | `cmd/gofonix-cli` | standard streams, exit code | `run` |
| Download and verification scripts | `scripts/*.sh` | the files of the download directory | fetch, extract, verify |
| Fixture generator | `scripts/gen_fixtures.py` | none | not modelled |

`New` calls the loader, which calls `Load`, and falls back to the embedded
dictionary with a warning. `Process` calls the tokenizer, then for each word
`Lookup`, on a miss the rules, then the bridge and the alignment. An engine
and its dictionary are immutable and shared by goroutines. The command line and
the golden records are clients of `New` and `Process`. The scripts share nothing
with the program but the repository.

What is hard to get right here:

- **Scanning.** Four scanning loops with different ideas of a character
  (bytes or runes) hand an offset to one another. Lookahead decides between word
  and number, lookbehind whether an apostrophe belongs to a word. The outer loop
  ends only if every token moves it forward.
- **A file that changes under the loader.** Its size is checked before it is
  opened, its digest while it is read, its entries after that; and what is opened
  may be a FIFO that nobody writes to.
- **Sharing.** Go slices returned by `Lookup` would alias the dictionary if one
  copy were forgotten.
- **Order.** Dictionary lines come in any order and keys are visited in map
  order; rules are looked up by length, not by position.
- **Boundaries.** More phonemes than bytes, spans of width zero, half-open
  intervals next to each other.
- **Partial failure.** A writer that stops in the middle of a record, a line
  that the reader cannot hold, a pipe that is closed or that nobody empties, input
  that arrives in pieces, a script that is interrupted between a download and a
  rename.
- **Conversions.** `json.Marshal` replaces bytes that are not UTF-8.

`PROJECT.json` lists the hazards with their lines, and for each the properties
that would be violated if it struck. Two have none. With `bsdtar`, extraction in
place can leave a partial dataset that no later run replaces, so the properties
on repair do not hold there and are stated for `unzip`. A golden file that was cut
exactly between two records reads as a shorter batch: the format has nothing by
which a reader could tell.

## Modules

| module | models | kind |
|---|---|---|
| `Utf8Text` | what the code uses of `unicode/utf8` and `unicode` (external) | operators |
| `Tokenizer` | `tokenizer.go`, one step per turn of a loop | specification |
| `MaximalMunch` | the token classes as languages; the longest token wins | abstract specification |
| `FullDictLoader` | one call of `New` with the file changing between its steps | specification |
| `DictSelection` | either the full dictionary, or the embedded one after at most one warning | abstract specification |
| `DictLoad` | `Load` and `parseLine`, one step per line, then one per key in any order | specification |
| `DictLookup` | concurrent `Lookup` calls over a memory of arrays | specification |
| `Dict` | `Load`, and then `Lookup` on what it has left | composition |
| `Fallback` | the rule index, `Normalize`, `Match`, `validateRules` | specification |
| `AlignmentSpans`, `Alignment` | the closed form of ADR-0007, and the loop that computes it | operators, specification |
| `Arpabet` | stress, symbols and masks: `MapSequence`, `FeatureFor`, `FromBits` | operators |
| `Process` | resolution, alignment, projection and Result of one call, over `AlignmentSpans` and `Arpabet` | specification |
| `Engine` | `Process` with its calls of the loop of `Alignment` | composition |
| `Golden` | records, the buffered writer, the file, the reader | specification |
| `Cli` | one call of `run` with the processes at its standard streams | specification |
| `Download` | the download script, run again and again | specification |
| `Slices` | what the assumptions on Go slices and strings say | operators |
| `SequenceLemmas` | induction over sets of numbers, concatenation, `FlattenSeq` | lemmas |
| `TokenizerProofs`, `FullDictLoaderProofs`, `FallbackProofs`, `GoldenProofs` | theorems about the module of that name | proofs |
| `ProcessProofs` | theorems about `Alignment`, `Process` and `Engine`, over the same lemmas on spans | proofs |
| `DictProofs` | theorems about `DictLoad`, `DictLookup` and `Dict` | proofs |
| `CommandProofs` | theorems about the programs a user starts, `Download` and `Cli` | proofs |
| `MC*` | instances for TLC | |

How they fit together: `Tokenizer` shows that tokens tile the text
(`Tiling`), which is what `Process` assumes of its texts (`TextsAssumption`).
`Process` uses the closed form `Span` for a whole alignment at once; `Engine` lets
it call the loop of `Alignment` for each word, and shows that this is what the loop
returns. `Dict` lets `DictLookup` begin where `DictLoad` has ended with the
dictionary that lies in its memory. `FullDictLoader` decides which data
`Load` reads. What the rules return is a constant of `Process`; `Fallback` shows that
a table accepted by `validateRules` returns symbols of the inventory only, as
`Arpabet!Mappable` needs for a resolved word. `Golden` takes Results of the
shape of `Process!ResultMetadata` and its neighbours as a constant, and `Cli` the
printed tokens of a text.

### Tokenizer

`pc` names the loop the scanner is in, `i` and `pos` are the variables of the
code. `Emit` is "append the token and go round the loop of `Tokenize`". A string
is a sequence of bytes, one byte value for each class that the code tells apart
and real lead and continuation bytes for one character of each class that has
longer ones, so that truncated and stray bytes occur. The token slice is a set:
spans order its elements, and an endless loop that appends one token for ever
becomes a cycle that the liveness check can find.

`MaximalMunch` states the token classes without a scanner, as languages over
spans, and emits at each offset the longest span that one of them describes.
`ImplementsMaximalMunch` says that every step of the scanner that emits a token
is such a step, with the exception that the run `tokenizer_hangs` shows. It is
checked and, for every text, proved.

### FullDictLoader

One action per call the loader makes to the outside (`Stat`, `Open`, each read)
and per check. `ChangeFile` replaces kind and content of the file between any
two of them. The kinds are those the loader tells apart, and the FIFO, which stands
for every file that makes it wait: `Stat` declines one, but one that is put in
place after `Stat` is opened, and then `os.Open` waits for a process that opens
it for writing and the reads wait for what that process writes. These waits are
the values `Waiting` of `pc`, and they end only with the steps of that process,
`Writer`. Contents are sequences of blocks, one per read; a digest is
represented by the content that has it, SHA-256 being taken as injective. The
build tag is part of `opts`: without it the stub answers, and nothing is logged.

`DictSelection` is what a caller may rely on, and `ImplementsSelection` is the
refinement: the many ways to decline are stutters until a warning is logged.

### DictLoad and DictLookup

A line is a sequence of fields with a flag for indentation; the text before and
after the first parenthesis of the first field, `strings.ToLower` and
`strconv.Atoi` are constants (`"(+1)"` is the number 1, as in Go). Sorting is
given by ranks, which makes it stable; `AlternatesInOrder` does not mention ranks:
the alternates of a key are an ordering of its numbered lines, by number and then
by place in the file, with none left out.

`DictLookup` gives every slice an address. `Lookup` copies one array per step,
and its callers overwrite phones and alternates of the entries they hold in
between. `MaxLookups` bounds the calls of all callers together.

`Dict` is the two in succession. `Load` builds entries, which hold phones, and
`Lookup` reads slices, which hold addresses; `Stored` says which entries a
dictionary in memory stands for. Lookups begin when `Load` is done with exactly
these. Several files lead to one dictionary, in each order of their lines and of
the pending keys, and `Lookup` reads nothing of how it came about, so `Shared`
names the files after which it is explored.

### Fallback

`init` builds the index from a table, `Normalize` and `Match` run on a surface.
The table varies, so that `Valid` (what `validateRules` checks, and only the
tests call) can be compared with what `Match` needs. `Decomposition` defines the
longest-match decomposition from the table itself, without index or scan.

### Alignment, Arpabet and Process

`Alignment` is the loop of `uniformByteAlignment`, one step per turn. `Arpabet`
strips the stress digit, looks the symbol up in upper case and makes a mask of the bits of its row.
`Process` takes tokens with their spans; `ResolveHit`, `ResolveMiss` and
`SkipToken` are the branches of `resolvePronunciation`, `ProjectPhoneme` one turn
of the inner loop of `projectFeatureStream` (`Paired` is the guard of `engine.go`
340), `Return` the Result with its metadata. The sets `TokenResult`,
`Pronunciation` and so on are the public types of `result.go`. The defensive
clamps of the projection cannot apply, since spans lie inside the input. Its
assumptions say what the other modules establish: tokens tile the text, entries
and rules are sequences of symbols, a rule is never empty, and every ID of the
inventory has a row that is not empty.

`Engine` puts the loop into `Process`: `Call` is the call in `pronunciationFrom`, for
the words whose symbols map (`IsAligned`), `Loop` a turn of the loop, and
`Proceed` a step of `Process`, which waits at such a word until the loop has
returned. `AlignmentIsReturned` compares what `Process` then works with to the spans
of the loop.

### Golden

A line of the file is cut into pieces, one for each token and one for the rest,
and the file is a sequence of pieces and newlines. `Write` follows
`bufio.Writer`: what fits stays in the buffer, what does not fit goes through
full buffers, and a line that finds the buffer empty goes past it. `WriteError`
and `Crash` stop the writer with any prefix of what it was passing on in the
file. `Edit` then breaks or joins lines, up to `MaxEdits` times; it stands for
what happens to files that are kept in a repository. `Open` decides whether, and
after how much of the file, reading it will fail (`failing`): the Scanner hands
on what it got before that, the last line maybe in part, and then `ReadError`
is what `ReadAll` returns, unless that part is malformed or too long. The reader
is `bufio.Scanner` with its limit (`TooLong`), the line counter, and the JSON
parser, which accepts a line only if it is the whole of a record.
`json.Marshal` replaces the character `Broken`, one byte that is not UTF-8, by
U+FFFD; the spans and the stream were computed before that. A text has as many
bytes as there are pairs of a place in it and a number up to the size of the
character there (`Size`). `ResultsAssumption` says what `Process` promises of a
Result: the call's text and mode, tokens that make up the text, a mask for each
byte. `Faithful` is what the tests and the schema say of a record that is read: it
is the one that was made, its stream has an entry for each byte of its input, and
`Process`, called with its input and mode, gives it again. `EveryRecordReplays`
says this of every record and is violated; `Utf8RecordsReplay` says it of the
records of texts that are UTF-8, and of all records that the tokens make up the
input. `ParseMode` models a function that no test calls on a record: `TestGolden`
processes the cases of its own suites and compares by position.

### Cli

`args` are the parsed flags, `step` is the point `run` has reached and `exitCode`
what it has returned. `Send` and `CloseInput` are the process at the other end of
standard input, `ReaderGone` is the one at the other end of standard output going
away (SIGPIPE ends the program without an exit code of its own), and `WriteFails`
any other failure of a write, with a part of it written. `Report` is a message on
standard error followed by exit code 1, or, if standard error is closed, the same
end as that of `ReaderGone`. `Stall` is a reader of either that neither reads nor
goes away, for a while or for ever: nothing is written to an output while it is in
`stalled`. `Process` is a step of its own: on the texts of `Endless`, those with a
signed word that `tokenizer_hangs` is about, it does not return, and they have no
tokens. `New` returns an engine for a valid language if it returns, as it may wait
for a FIFO. The order of the checks is that of `run`: version, mode, engine,
input, output format. Output is made of pieces, since what matters is how much of
it there is and not its text.

### Download

Every file of the download directory is absent, partial, complete and good, or
complete and not what the checksums are for ("other", from a server that has
changed). `fetch` writes to a temporary name and renames; `unzip` writes to
standard output and a temporary name, `bsdtar` in place (`InPlace`). `Break` is a
failing command or a signal, after which `set -e` ends the script; `Start` calls
it again, with any list of targets.

## Runs

| run | shows | instance |
|---|---|---|
| `tokenizer` | tiling, rune boundaries, apostrophes, progress, termination without a signed word, longest match | all strings up to 5 bytes over letter, digit, signs, separator, apostrophe; up to 5 over letters, U+2019 and their bytes; up to 4 over the rest |
| `tokenizer_hangs` | **violated**: `Tokenize` returns | strings up to 3 bytes |
| `full_dict` | verified bytes, one warning, no failure, return unless a FIFO has no writer, refinement | a band of 1 to 2 blocks, eight contents below, inside and above it, all options |
| `full_dict_empty_after_parse` | **violated**: "empty after parse" is impossible | the same, with the digest of the empty string |
| `dict` | canonical and alternate pronunciations, none lost; then immutability, isolation and completeness of entries, return | files up to 4 lines out of 14; one dictionary of 2 words in memory, 2 callers, 2 calls |
| `fallback` | totality of valid tables, longest match | 6 tables, surfaces up to 4 characters out of 9 |
| `process` | the loop returns what `Process` works with, it tiles, widths are uniform; the Result: which bytes are speech, which mask they carry, when the rules answer, what causal mode leaves out | texts up to 4 tokens out of 9, words up to 9 bytes and 7 phonemes, three modes |
| `process_policy` | **violated**: the metadata names the rules as the policy only when they are in force | the same |
| `golden` | what is written is read back, damage is noticed, errors name their line, records of UTF-8 texts replay | up to 3 records out of 5, buffer of 3 pieces, lines up to 4, 1 edit, a failing read anywhere |
| `golden_replay` | **violated**: every record is read as it was made and replays | the same |
| `cli` | exit codes tell the truth, return unless held up | all flags, a feed of up to 3 characters cut anywhere, one text without end, readers that stall |
| `download` | no partial dataset, lasting success, repair | 2 datasets, both tools and servers, 3 faults |

Why the bounds are enough. The scanner looks one character back and one ahead
of a run, and a run has at most a sign, a group of digits, a separator and a
second group: five bytes hold every such pattern and the token after it. The
loader compares with three sizes (minimum, maximum, one more than maximum), so
four blocks include a file that is longer than any read. Two callers make every
pair of a writer and a reader; a second call by one of them sees what it wrote
itself. Four lines hold two unnumbered and two numbered lines of one key in any
order. Nine bytes and seven phonemes have every remainder and both orders of
the two. Four tokens put every kind of word between neighbours. A buffer of
three pieces is shorter than some lines and longer than others, so lines end
before, at and behind its end; a limit of four pieces has lines on both sides
(`MaxLine` stands for 16 MiB); one edit makes a good file bad in every way that
a single line break can. Three characters in pieces cut the feed inside a token
and between two. Three faults break a run, the one that repairs it and one
more. `MaxLookups`, `MaxEdits`, `MaxFaults` and `Shared` are the
only artificial bounds; the others are the sets of inputs.

### What the violated runs show

- `tokenizer_hangs`: a sign followed by digits and a letter (`+2nd`, `-3rd`)
  starts a run, the probe skips the sign and finds the letter, and `scanWord`
  starts on the sign, which is not part of a word. It returns an empty token and
  `Tokenize` appends it for ever. `tokenizer.go` 169-171 says that this cannot
  happen. `EveryTokenAdvances` and its theorem show that it is the only place
  where the loop can stand still.
- `full_dict_empty_after_parse`: the digest in the code is that of the empty
  string, and the lower size bound is not checked after the read. A file emptied
  after `Stat` passes the checksum and is declined only because it has no
  entries, which `loader_full_errors.go` 58 calls impossible.
- `process_policy`: `Process` records the policy `rule-fallback-then-unknown` in
  every mode, but the rules are not in force in causal mode, and there the version
  of the rules is indeed left empty. `docs/golden_jsonl_schema.md` 30 and
  `result.go` 109-110 tie the policy to the rules being active.
- `golden_replay`: `json.Marshal` replaces each byte that is not UTF-8 by U+FFFD,
  which has three. A record of such a text comes back with another input than it
  was made with, with a stream that does not have that input's length, and
  `Process` on that input gives another record. `docs/golden_jsonl_schema.md` 9-12
  and 33 and `pkg/g2p/golden_test.go` 269-270 promise all three of any text.

## Fairness

`Tokenizer`, `FullDictLoader` and `Cli` assume weak fairness of the steps of the
call: sequential code that the operating system runs. What the code waits for is
never assumed to come; a step that waits is disabled until it does, and the
properties say what happens if it does not.

- `FullDictLoader`: stat, open and the reads of a regular file return. The open and
  the reads of a FIFO end with steps of `Writer`, which has no fairness, and
  `ChangeFile` may go on for ever. `NewReturns` is therefore: `New` returns, or it
  waits for ever in one of the states `Waiting`.
- `Cli`: fairness is of `Run`, which leaves out `New` for the reason just given,
  the feeder and the readers. `Held` lists what can hold `run` up: `New` that waits, an
  endless text, an input that has not ended, a stalled reader of an output.
  `Exits` is: `run` returns, or it is held up again and again. A reader that stalls,
  reads on and stalls again for ever counts as holding it up.
- `Tokenizer` waits for nothing. `TerminatesWithoutSignedWord` is about the texts
  on which its loop ends.

`DictLookup` assumes weak fairness of each goroutine inside `Lookup`, which Go's
scheduler gives; it assumes nothing of what callers do with their entries, and a
caller need not call again. The run of `Cli` does not check for deadlock, since the
program ends, or waits for ever; all others do. `Download` assumes that a run goes
on and that the script is called again, which is what "rerun the script" means; failures
are bounded by `MaxFaults`, so that in the end some run is left alone. The other
modules state safety only.

## Proofs

All theorems hold for every value of the constants under the named assumptions
of the modules. The reasoning is by inductive invariants; TLC checked each
property on the instances above first.

- **`TokenizerProofs`**, from `InputsAssumption` (inputs are byte strings).
  `TypeCorrect` is inductive with the lemma that a well-formed character ends
  inside the text. `TilingCorrect` needs only that and that `Emit` closes the gap
  between `i` and `pos`. For `TokensAdvance` the invariant `ProgressInv` says what
  each loop knows about the run it is in: a word has seen a letter, a number
  has a digit behind its sign, the probe has seen digits only until it sees a
  letter, and no token ends between two hyphens (`FreshHyphen`), so that a sign
  that begins a run never follows a hyphen. A scan that emits without moving must
  then be `scanWord` on a sign. For `BoundariesRespected` the scanner's offsets
  are boundaries (`BoundaryInv`): decoding at a boundary leads to one
  (`NextBoundary`), and where the code counts one byte the character has one
  (`OneByte`). `ApostrophesBelong` adds `ScanInv`: a scan that is not of a word
  has met no apostrophe and ends behind something that is no letter, and a word
  ends only where no apostrophe between letters would continue it; so no other
  token begins at such an apostrophe. For `MaximalMunchIsImplemented` the
  invariant `MunchInv` describes the run each loop has scanned: a word has only
  characters of words, and its first character that is no digit, behind a sign, is
  a letter; behind a number's sign the first one that is no digit is no letter; a
  fraction has a separator between digits. `CandidateIs`, `WordIs` and `NumberIs`
  turn the languages of `MaximalMunch` into the same terms, so that at an `Emit`
  the span of the token is in one of them and no longer span is in any.
  `MaximalMunch` is an instance and has its own copy of `Utf8Text`; `SameText`
  identifies the two.
- **`FullDictLoaderProofs`**, from `ContentsAssumption`, `SizeAssumption`,
  `ExpectedAssumption` and `NoneAssumption`. The invariant `LoadInv` relates `pc`
  to what has been read and decided: there is no error, engine or warning while
  the file is being loaded, the bytes at `parse` are those with the pinned digest,
  also when they came through a FIFO, a pending fallback has a reason (the absent
  build tag exactly in a build without it), and the mini engine is returned with
  that reason as its one warning, or with none when the tag is absent. It gives
  `FullIsVerified`, `OneWarning`, `FileIsHarmless`, the corollary
  `PlaceholderIsMini`, and, step by step, `Refinement` of `DictSelection`.
- **`DictProofs`** on `DictLoad`, from `FilesAssumption` (files are sequences of
  lines, lines of fields) and `AtoiAssumption` (variants are integers). Each
  pending key is described by the lines seen so
  far (`Describes`): the phones of the last unnumbered one, or nothing. A line
  changes the description of its own key only, and building changes none. With
  the keys of `entries` and `pending` equal at the end, that is `LastLineWins`.
  For `AlternatesAreSorted`, `SortInv` says that the alternates of a pending key
  are its numbered lines so far in the order of the file (`Gathers`). That
  sorting by rank yields a stable order rests on the rank being a bijection
  between the places: it is strictly monotone in the order of number and place,
  which is total, and so each rank has exactly one element.
- **`DictProofs`** on `DictLookup`, from `ArraysAssumption`, `NilAssumption` and
  `LookupsAssumption`. The argument is ownership: whatever a caller reaches is
  `Fresh`, allocated after `Load`, no two callers reach the same array, and a step
  of a caller writes only to what it reaches or has just allocated. `OneCaller`
  says once that such a step keeps the whole invariant; each action is then shown
  to be one. `Copied` relates a copy in progress to the entry, which gives
  `EntryIsWhole`.
- **`DictProofs`** on `Dict`: a step of it is a step of one of the two and leaves the
  other alone, so `DictSpec` implements both (`LoadThenLookup`), and what is proved of
  each holds of the two in succession.
- **`ProcessProofs`** on `Process`, from the five assumptions of `Process` and
  `Arpabet`. A resolved pronunciation is `Sound`: its IDs have masks that are not
  zero, and its alignment is the closed form over the token's span (`TokensInv`).
  While masks are projected, the bytes before the cursor are as the alignment has
  them and those behind it are still zero (`StreamInv`), so each write finds zeros
  (`BytesAreWrittenOnce`) and at the end every byte is accounted for
  (`StreamIsAlignment`). `FallbackIsForMisses` and `CausalIsSilent` follow from
  what resolution may return.
- **`ProcessProofs`** on `Engine`, from the same assumptions. `EngineIsProcess`: with
  the loop, `Process` takes no step that it does not take without it, so all of the
  above holds here. The loop has the invariant `AlignInv`: `pos` is `Offset(i)` and
  every span so far is the closed form; `OffsetStep`, `OffsetEnds` and `OffsetOrder`
  are the arithmetic. `LoopIsClosedForm`, `AlignmentTiles` and `AlignmentIsUniform`
  follow. `CallInv` adds that a loop whose span ends where the token at hand ends was
  called for this token, with its phonemes (ends of tokens increase, as none is
  empty). `LoopIsReturned` is what both give when `Process` goes on.
- **`FallbackProofs`**, from `TablesAssumption` and `SurfacesAssumption` (slices),
  `FoldAssumption` and `ApostropheAssumption` (letters, upper-case letters and the
  apostrophe are different). `IndexInv` says that the index has the
  graphemes of the rules visited and for each the symbols of one of them; with a
  valid table there is one such rule only, so the index tells what the table does.
  `FoldInv` describes what `Normalize` has accepted. `MatchInv` is that what has
  been decomposed, followed by the decomposition of the rest, is the decomposition
  of all. `From`, that decomposition, is a recursive function on places; its
  equation is used at one place at a time, and that it is defined at all places
  is shown with `InductionOver`. `MatchIsLongest` and `ValidTablesResolve` follow.
- **`GoldenProofs`**, from `SizesAssumption`, `BatchesAssumption` and
  `NewlineAssumption` (escaped lines contain no newline). The text of a file is
  `Threaded`: two functions give, for every place of it, the record and the piece
  of that record that come next, and each piece is the one awaited where it
  stands. The writer keeps this of the file followed by its buffer (`WriterInv`),
  whatever it passes on, and a prefix of a threaded text is threaded, so a failed
  write or a crash keeps it too. An edit inserts a newline or removes one, which
  changes the places but not the thread (`EditInv`). A line of a threaded
  text that is the whole of a record is then the next record of the batch, since
  a line that begins inside a record lacks its first piece (`LineReadInv`).
  A read that fails leaves the reader a prefix of the text, which is as threaded as
  a file cut by a crash (`OpenInv`). `ReadInv` and `CountInv` say what the reader
  has returned and counted so far, and `DamageNeverPasses`, `GoodFilesRoundTrip` and
  `ErrorsNameTheirLine` are what is left of that when it is done. `RecordsReplay`
  adds `CharactersAssumption` (the sizes of characters) and `ResultsAssumption`.
  Replacing characters commutes with concatenation (`ValidFlatten`), so the tokens
  of any record make up its input. If a text is UTF-8, so is each of its tokens;
  then `json.Marshal` leaves the record alone (`MarshalKeeps`), and the Result of the
  same call gives it again. That the record of a text that is not UTF-8 does not
  replay is shown by TLC only.
- **`CommandProofs`** on `Download`, from `TargetsAssumption`. The invariant says
  what each step of a run knows of its target's files: nothing was at the path
  when it began, and only complete files are moved or extracted.
  `NoPartialDataset` and `SuccessIsLasting` follow.
- **`CommandProofs`** on `Cli`, from `TextsAssumption` (texts and their tokens are
  sequences). `InputInv` says that the text read is the argument or what has
  arrived of the feed, and all of it once the output begins; `OutputInv` that
  until `run` returns, standard output has exactly the lines before the one
  `writeText` is at, no message has been given, and output begins only with a text
  that is not endless, which is why it has tokens. Each way to exit then leaves
  the whole rendering or a strict prefix of it, as its code says (`ExitInv`):
  `SuccessIsComplete` and `FailureIsTold`.
- **`SequenceLemmas`** replaces what the provers cannot instantiate: an induction
  rule takes a predicate. `LeastNumber`, from the well-foundedness of strict
  inclusion on finite sets, gives the least number of a set, and `InductionOver`
  induction for the set of the numbers that have the property in question.
  `FlattenElements` unfolds `FlattenSeq` with it.

Every safety invariant, action property and refinement of the passing runs is a
theorem. Model-checked only is liveness, which is out of the prover's reach:
`Termination` and its restriction `TerminatesWithoutSignedWord`, `NewReturns`,
`LookupReturns`, `Exits` and `Heals`. The theorems on refinement are about
specifications of safety: fairness has no part in them.

## What is not modelled

- The ARPAbet, rule and mask tables are data; the modules use a few entries.
- Unicode classes beyond one character each; other letters and marks
  behave as the one chosen.
- `ErrDictionaryLoad`: `Load` returns no error, so the embedded dictionary
  cannot fail to load.
- The accessors of masks that nothing in the engine calls, the wording of
  messages and of the text output, version constants.
- The fixture generator, and the verification script called by itself, neither
  of which keeps state; two runs of the download script at the same time.

Points noticed while reading, and why no property is about them:

- Tokens. `token.go` 27 calls an unknown token "a single byte"; a combining
  mark or another character outside all classes is one token of several bytes.
  `Lookup` folds case with Unicode rules and the fallback rules with ASCII only;
  ADR-0006 treats both apostrophes alike while the dictionary key keeps them
  apart.
- Dictionaries. A dictionary of alternates only passes the "empty after parse"
  check although no word of it can be found. The loader's warning goes to
  `os.Stderr`, not to the `stderr` that `run` is given.
- Golden files. Lines of 16 MiB and more can be written but not read. A file that is
  cut exactly between two records reads without an error: only the error of
  `WriteAll` tells (`DamageIsNoticed` allows it, as a prefix of the batch).
- Command line. `--version` ignores write errors, `-h` exits with 1,
  `--input ""` reads standard input, `--output ""` is invalid while `--mode ""`
  is batch, and an invalid `--output` is noticed only when all of the input
  has been consumed. In the text format a token of white space may
  contain a newline, so there may be more lines than tokens.
- Scripts. With `bsdtar` a partial dataset is never repaired, and with either
  tool a complete but wrong one at the path is never replaced: every later run
  fails until it is removed by hand.

## Plan

1. Done: every component with control of its own has a module, a run and
   theorems, and every safety property of a run is proved.
2. Worth proving next: what one module assumes and another shows, as theorems
   that connect the two: that the tokens of `Tokenizer` satisfy
   `Process!TextsAssumption`, that the entries of `Dict` are those of
   `Process!EntriesAssumption`, and that a Result of `Process` is one of
   `Golden!ResultsAssumption`.
3. Worth modelling if the code grows that way: a second language beside `en`,
   concurrent runs of the download script.
