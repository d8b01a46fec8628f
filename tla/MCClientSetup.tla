---------------------------- MODULE MCClientSetup ----------------------------
(* Instances of ClientSetup for TLC.                                       *)
EXTENDS ClientSetup

\* Everything fails while other threads open and close files, and nothing does.
MCWorlds == {[shared |-> TRUE, faults |-> {"resolve", "name", "socket", "options", "refused"}],
             [shared |-> FALSE, faults |-> {}]}
NameWorlds == {[shared |-> FALSE, faults |-> {"names"}]}

MCAlphabet == {"s", "k", "T", "=", "'", "\"", "\\", " "}

\* socket=, tls_psk_file= and both, and a NULL value.
MCInitArgs ==
  {<<>>, <<"s", "=", "T">>, <<"s", "=", "C">>, <<"k", "=", "T">>, <<"s">>,
   <<"s", "=", "T", " ", "k", "=", "T">>, <<"s", "=">>}

\* Lines with and without a key, with keys that are odd, empty, wrong, as
\* long as MaxPsk and longer, and one that fills the buffer.
MCLines ==
  {<<"i", ":", "a", "F">>, <<"j", ":", "0", "a">>, <<"i", ":", "F">>, <<"i", ":">>,
   <<"a", "F">>, <<"j", ":", "a", "z">>, <<"i", ":", "0", "a", "F", "0">>,
   <<"j", ":", "0", "a", "F", "0", "a", "a">>, <<"i", ":", "a", "F", "\r">>,
   <<":", "a", "a">>, <<"i", "i", "i", ":", "a", "a", "0", "0">>}
MCKeyFiles == [lines : SeqOf(MCLines, 3), eol : BOOLEAN]
MCIdentities == {<<>>, <<"i">>, <<"j">>}
=============================================================================
