-------------------------- MODULE MCFullDictLoader --------------------------
(***************************************************************************)
(* Small instances of FullDictLoader: a band of one or two blocks, and     *)
(* contents below, inside and above it.                                    *)
(***************************************************************************)
EXTENDS FullDictLoader

SmallContents ==
  {<<>>, <<"entries">>, <<"comments">>, <<"comments", "entries">>,
   <<"comments", "comments">>, <<"entries", "entries">>,
   <<"comments", "entries", "entries">>,
   <<"comments", "entries", "entries", "entries">>}

PinnedDigest == <<"comments", "entries">>

\* The digest in the code is that of the empty string.
PlaceholderDigest == <<>>

MiniData == <<"entries">>
=============================================================================
