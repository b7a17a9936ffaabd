---------------------------- MODULE MCTokenizer ----------------------------
(***************************************************************************)
(* Small instances of Tokenizer: every string up to a length bound over    *)
(* alphabets chosen so that the classes that interact meet each other.     *)
(***************************************************************************)
EXTENDS Tokenizer

StringsUpTo(n, alphabet) == UNION {[1 .. m -> alphabet] : m \in 0 .. n}

\* Words, numbers, signs and the ASCII apostrophe.
RunInputs == StringsUpTo(5, {"a", "0", "-", "+", ".", "'"})

\* Letters and apostrophes of one and of several bytes, also cut short.
UnicodeInputs == StringsUpTo(5, {"a", "C3", "E2", "80", "0"})

\* The classes that have no loop, and both loops over runs.
OtherInputs == StringsUpTo(4, {" ", "C2", "-", "!", "E3", "$", "CC", "NUL", "80"})

\* A small set that still has a signed word and a long unknown character.
FewInputs == StringsUpTo(3, {"a", "0", "-", "CC", "80"})

AllInputs == RunInputs \cup UnicodeInputs \cup OtherInputs
=============================================================================
