------------------------------ MODULE MCMessage ------------------------------
(* The calls and values of the runs: every kind of part, in both           *)
(* directions where it occurs in both, with lengths at the limits.         *)
EXTENDS Message

Req(parts)  == [request |-> parts, response |-> <<>>]
Resp(parts) == [request |-> <<>>, response |-> parts]

MCCalls ==
  <<Req(<<"y", "fu">>),          \* C_GetSlotList
    Req(<<"u", "ay", "s">>),     \* C_InitToken
    Req(<<"u", "fy">>),          \* C_GetOperationState
    Req(<<"u", "aA">>),          \* C_FindObjectsInit
    Req(<<"u", "fA">>),          \* C_GetAttributeValue, with one handle
    Req(<<"u", "M">>),           \* C_DigestInit
    Resp(<<"au">>),              \* C_GetMechanismList
    Resp(<<"ay">>),              \* C_Digest
    Resp(<<"aA", "u">>),         \* C_GetAttributeValue
    Resp(<<"v", "s", "u">>)>>    \* C_GetInfo, its first fields

Text(dir, c, vals) == [dir |-> dir, id |-> c, vals |-> vals]
Requests(c, s)  == [i \in DOMAIN s |-> Text("request", c, s[i])]
Responses(c, s) == [i \in DOMAIN s |-> Text("response", c, s[i])]

Bytes2(n) == [ptr |-> TRUE, num |-> n, bytes |-> [i \in 1 .. n |-> i % Base]]
NoBytes(n) == [ptr |-> FALSE, num |-> n, bytes |-> <<>>]
Attr(t, bytes) == [type |-> t, len |-> Len(bytes), ptr |-> TRUE, bytes |-> bytes]
NullAttr(t, n) == [type |-> t, len |-> n, ptr |-> FALSE, bytes |-> <<>>]
Big == 3 * WordMod + 2        \* needs both halves of a uint64

\* Memory of a CK_ULONG of w bytes (little endian).
Ulong(w, x) == <<x>> \o Fill(w - 1, 0)
NoUlong(n) == [ptr |-> FALSE, num |-> n, longs |-> <<>>]
Ulongs(s)  == [ptr |-> TRUE, num |-> Len(s), longs |-> s]

\* The texts of a writer whose CK_ULONG has w bytes.
TextsOf(w) ==
  Requests(1, <<<<1, 0>>, <<0, 3>>>>)
    \o Requests(2, <<<<Big, NoBytes(0), <<1, 7>>>>, <<5, Bytes2(2), <<1, 7>>>>,
                      <<5, Bytes2(TooLong), <<1, 7>>>>, <<5, Bytes2(TooLong - 1), <<1, 7>>>>>>)
    \o Requests(3, <<<<5, [data |-> TRUE, count |-> TRUE, num |-> 2]>>,
                      <<5, [data |-> FALSE, count |-> FALSE, num |-> 0]>>>>)
    \o Requests(4, <<<<5, <<>>>>, <<5, <<Attr(1, Ulong(w, 3)), NullAttr(2, Unavailable)>>>>,
                      <<5, <<NullAttr(2, 0)>>>>>>)
    \o Requests(5, <<<<5, <<[type |-> 1, ptr |-> TRUE, room |-> 4],
                             [type |-> 2, ptr |-> FALSE, room |-> 0]>>>>>>)
    \o Requests(6, <<<<5, [type |-> 6, ptr |-> FALSE, bytes |-> <<>>]>>,
                      <<Big, [type |-> 6, ptr |-> TRUE, bytes |-> <<4>>]>>>>)
    \o Responses(0, <<<<5>>, <<Big>>>>)
    \o Responses(7, <<<<NoUlong(2)>>, <<Ulongs(<<>>)>>, <<Ulongs(<<5, Big>>)>>>>)
    \o Responses(8, <<<<NoBytes(3)>>, <<Bytes2(0)>>, <<Bytes2(4)>>,
                       <<Bytes2(TooLong - 1)>>, <<Bytes2(TooLong)>>>>)
    \o Responses(9, <<<<<<Attr(1, Ulong(w, 3)), NullAttr(2, Unavailable)>>, 0>>,
                       <<<<NullAttr(1, 3)>>, Big>>>>)
    \o Responses(10, <<<<<<1, 7>>, <<4, 2>>, Big>>>>)

MCTexts     == TextsOf(LongLen)
NarrowTexts == TextsOf(WordLen)

\* A list with a mechanism that is not supported.
MCOddList == Responses(7, <<<<Ulongs(<<5, 2>>)>>>>)
\* A count that needs more than a uint32.
MCBigCount == Requests(3, <<<<5, [data |-> TRUE, count |-> TRUE, num |-> WordMod + 1]>>>>)
\* An unsigned long without a value, from a writer of 64 bits.
MCNullUlong == Requests(4, <<<<5, <<NullAttr(1, LongLen)>>>>>>)

\* The values of the messages are what the theorems about them suppose.
ASSUME MCSuited == TextsSuit

AllWide     == [writer |-> LongLen, reader |-> LongLen]
NarrowWrite == [writer |-> WordLen, reader |-> LongLen]
NarrowRead  == [writer |-> LongLen, reader |-> WordLen]
=============================================================================
