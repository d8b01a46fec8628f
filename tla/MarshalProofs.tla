---------------------------- MODULE MarshalProofs ----------------------------
(***************************************************************************)
(* Proofs about Marshal, for any of the calls of RpcCalls, all arguments,  *)
(* all answers of the module and every bound: the stubs of both sides keep *)
(* to the signatures, the module gets the arguments of the application,    *)
(* and the application gets the answer of the module.                      *)
(***************************************************************************)
EXTENDS Marshal, SequenceTheorems, FiniteSetTheorems, WellFoundedInduction, TLAPS

-----------------------------------------------------------------------------
(* What the tables of both sides agree on.                                 *)

\* The parts of messages, the macros for parameters, and a use of one.
PartNames == {"y", "u", "v", "s", "ay", "au", "fy", "fu", "aA", "fA", "M"}
InMacros  == {"BYTE", "ULONG", "MECHANISM_TYPE", "SPACE_STRING", "BYTE_ARRAY", "BYTE_BUFFER",
              "ULONG_BUFFER", "ATTRIBUTE_ARRAY", "ATTRIBUTE_BUFFER", "MECHANISM"}
Macro     == [macro : InMacros, arg : Nat]

\* Macro a of the client and b of the daemon, for parameter i, write and read
\* part p.  (A mechanism type is checked by the client only.)
Fits(p, a, b, i) ==
  /\ p \in PartNames /\ a \in Macro /\ b \in Macro /\ a.arg = i /\ b.arg = i
  /\ Part(a.macro) = p /\ Part(b.macro) = p
  /\ a.macro = b.macro \/ (a.macro = "MECHANISM_TYPE" /\ b.macro = "ULONG")

\* The parameters are sent in their order.
InAgree(q, ci, di) ==
  /\ q \in Seq(PartNames) /\ ci \in Seq(Macro) /\ di \in Seq(Macro)
  /\ Len(ci) = Len(q) /\ Len(di) = Len(q)
  /\ \A i \in 1 .. Len(q) : Fits(q[i], ci[i], di[i], i)

\* Calls whose function in the module is not like the others.
Special == {"C_GetAttributeValue", "C_FindObjects", "C_GenerateRandom", "C_GetMechanismList"}

\* What a call returns: nothing, bytes, handles or ids, attributes, an
\* information structure, or one or two numbers.
NoOut(c, s, cl, da) ==
  c \notin Special /\ s.response = <<>> /\ cl.out = <<>> /\ da.out = <<>>
BytesOut(c, s, cl, da) ==
  \E n \in 1 .. Len(s.request) :
    /\ s.response = <<"ay">> /\ cl.out = <<OUT_BYTE_ARRAY(n)>> /\ da.out = <<OUT_BYTE_ARRAY(n)>>
    /\ cl.in[n].macro = "BYTE_BUFFER"
    /\ c \notin Special \/ (c = "C_GenerateRandom" /\ n = 2 /\ <<"ptr", 2>> \in cl.need)
UlongsOut(c, s, cl, da) ==
  /\ s.response = <<"au">> /\ da.out = <<OUT_ULONG_ARRAY(2)>>
  /\ cl.out = IF c = "C_GetMechanismList"
              THEN <<OUT_MECHANISM_TYPE_ARRAY(2)>> ELSE <<OUT_ULONG_ARRAY(2)>>
  /\ Len(s.request) = 2 /\ cl.in[2].macro = "ULONG_BUFFER"
  /\ c \notin {"C_GetAttributeValue", "C_GenerateRandom"}
AttrsOut(c, s, cl, da) ==
  /\ s.response = <<"aA", "u">>
  /\ cl.out = <<OUT_ATTRIBUTE_ARRAY(3)>> /\ da.out = <<OUT_ATTRIBUTE_ARRAY(3)>>
  /\ Len(s.request) = 3 /\ cl.in[3].macro = "ATTRIBUTE_BUFFER" /\ c = "C_GetAttributeValue"
InfoOut(c, s, cl, da) ==
  \E m \in [macro : InfoMacros, arg : Nat] :
    /\ cl.out = <<m>> /\ da.out = <<m>> /\ <<"ptr", m.arg>> \in cl.need /\ c \notin Special
    /\ s.response = [i \in DOMAIN DaemonFields[m.macro] |-> DaemonFields[m.macro][i].part]
NumsOut(c, s, cl, da) ==
  \E n \in Nat :
    /\ \/ s.response = <<"u">> /\ da.out = <<OUT_ULONG(n)>>
       \/ s.response = <<"u", "u">> /\ da.out = <<OUT_ULONG(n), OUT_ULONG(n + 1)>>
    /\ cl.out = da.out /\ c \notin Special

Agreed(c, s, cl, da) ==
  /\ InAgree(s.request, cl.in, da.in)
  /\ \/ NoOut(c, s, cl, da) \/ BytesOut(c, s, cl, da) \/ UlongsOut(c, s, cl, da)
     \/ AttrsOut(c, s, cl, da) \/ InfoOut(c, s, cl, da) \/ NumsOut(c, s, cl, da)

\* A macro of the client and the macro of the daemon for the same parameter
\* write and read the same part.
LEMMA Entries ==
  ASSUME NEW i \in Nat
  PROVE  /\ Fits("y", IN_BYTE(i), IN_BYTE(i), i)
         /\ Fits("u", IN_ULONG(i), IN_ULONG(i), i)
         /\ Fits("u", IN_MECHANISM_TYPE(i), IN_ULONG(i), i)
         /\ Fits("s", IN_SPACE_STRING(i), IN_SPACE_STRING(i), i)
         /\ Fits("ay", IN_BYTE_ARRAY(i), IN_BYTE_ARRAY(i), i)
         /\ Fits("fy", IN_BYTE_BUFFER(i), IN_BYTE_BUFFER(i), i)
         /\ Fits("fu", IN_ULONG_BUFFER(i), IN_ULONG_BUFFER(i), i)
         /\ Fits("aA", IN_ATTRIBUTE_ARRAY(i), IN_ATTRIBUTE_ARRAY(i), i)
         /\ Fits("fA", IN_ATTRIBUTE_BUFFER(i), IN_ATTRIBUTE_BUFFER(i), i)
         /\ Fits("M", IN_MECHANISM(i), IN_MECHANISM(i), i)
  BY DEF Fits, Part, Macro, InMacros, PartNames, IN_BYTE, IN_ULONG, IN_MECHANISM_TYPE, IN_SPACE_STRING,
         IN_BYTE_ARRAY, IN_BYTE_BUFFER, IN_ULONG_BUFFER, IN_ATTRIBUTE_ARRAY, IN_ATTRIBUTE_BUFFER,
         IN_MECHANISM

\* Parameters that fit one by one make requests that agree: no parameter, ...
LEMMA Agree0 == InAgree(<<>>, <<>>, <<>>)
  BY DEF InAgree

\* ... one, ...
LEMMA Agree1 ==
  ASSUME NEW p1, NEW a1, NEW b1, Fits(p1, a1, b1, 1)
  PROVE  InAgree(<<p1>>, <<a1>>, <<b1>>)
<1>1. /\ p1 \in PartNames /\ a1 \in Macro /\ b1 \in Macro
  BY DEF Fits
<1> QED
  BY <1>1 DEF InAgree

\* ... two, ...
LEMMA Agree2 ==
  ASSUME NEW p1, NEW a1, NEW b1, Fits(p1, a1, b1, 1),
         NEW p2, NEW a2, NEW b2, Fits(p2, a2, b2, 2)
  PROVE  InAgree(<<p1, p2>>, <<a1, a2>>, <<b1, b2>>)
<1>1. /\ p1 \in PartNames /\ a1 \in Macro /\ b1 \in Macro
      /\ p2 \in PartNames /\ a2 \in Macro /\ b2 \in Macro
  BY DEF Fits
<1> QED
  BY <1>1 DEF InAgree

\* ... three, ...
LEMMA Agree3 ==
  ASSUME NEW p1, NEW a1, NEW b1, Fits(p1, a1, b1, 1),
         NEW p2, NEW a2, NEW b2, Fits(p2, a2, b2, 2),
         NEW p3, NEW a3, NEW b3, Fits(p3, a3, b3, 3)
  PROVE  InAgree(<<p1, p2, p3>>, <<a1, a2, a3>>, <<b1, b2, b3>>)
<1>1. /\ p1 \in PartNames /\ a1 \in Macro /\ b1 \in Macro
      /\ p2 \in PartNames /\ a2 \in Macro /\ b2 \in Macro
      /\ p3 \in PartNames /\ a3 \in Macro /\ b3 \in Macro
  BY DEF Fits
<1> QED
  BY <1>1 DEF InAgree

\* ... four, ...
LEMMA Agree4 ==
  ASSUME NEW p1, NEW a1, NEW b1, Fits(p1, a1, b1, 1),
         NEW p2, NEW a2, NEW b2, Fits(p2, a2, b2, 2),
         NEW p3, NEW a3, NEW b3, Fits(p3, a3, b3, 3),
         NEW p4, NEW a4, NEW b4, Fits(p4, a4, b4, 4)
  PROVE  InAgree(<<p1, p2, p3, p4>>, <<a1, a2, a3, a4>>, <<b1, b2, b3, b4>>)
<1>1. /\ p1 \in PartNames /\ a1 \in Macro /\ b1 \in Macro
      /\ p2 \in PartNames /\ a2 \in Macro /\ b2 \in Macro
      /\ p3 \in PartNames /\ a3 \in Macro /\ b3 \in Macro
      /\ p4 \in PartNames /\ a4 \in Macro /\ b4 \in Macro
  BY DEF Fits
<1> QED
  BY <1>1 DEF InAgree

\* ... and five.
LEMMA Agree5 ==
  ASSUME NEW p1, NEW a1, NEW b1, Fits(p1, a1, b1, 1),
         NEW p2, NEW a2, NEW b2, Fits(p2, a2, b2, 2),
         NEW p3, NEW a3, NEW b3, Fits(p3, a3, b3, 3),
         NEW p4, NEW a4, NEW b4, Fits(p4, a4, b4, 4),
         NEW p5, NEW a5, NEW b5, Fits(p5, a5, b5, 5)
  PROVE  InAgree(<<p1, p2, p3, p4, p5>>, <<a1, a2, a3, a4, a5>>, <<b1, b2, b3, b4, b5>>)
<1>1. /\ p1 \in PartNames /\ a1 \in Macro /\ b1 \in Macro
      /\ p2 \in PartNames /\ a2 \in Macro /\ b2 \in Macro
      /\ p3 \in PartNames /\ a3 \in Macro /\ b3 \in Macro
      /\ p4 \in PartNames /\ a4 \in Macro /\ b4 \in Macro
      /\ p5 \in PartNames /\ a5 \in Macro /\ b5 \in Macro
  BY DEF Fits
<1> QED
  BY <1>1 DEF InAgree

\* The names of the macros.
LEMMA Macros ==
  ASSUME NEW i
  PROVE  /\ IN_BYTE_BUFFER(i).macro = "BYTE_BUFFER" /\ IN_ULONG_BUFFER(i).macro = "ULONG_BUFFER"
         /\ IN_ATTRIBUTE_BUFFER(i).macro = "ATTRIBUTE_BUFFER"
  BY DEF IN_BYTE_BUFFER, IN_ULONG_BUFFER, IN_ATTRIBUTE_BUFFER

\* The signature and the stubs of both sides agree, for each shape of call.
LEMMA GetInfoAgrees ==
  Agreed("C_GetInfo", Sig(<<>>, <<"v", "s", "u", "s", "v">>),
         CheckedStub({<<"ptr", 1>>}, <<>>, <<OUT_INFO(1)>>),
         Stub(<<>>, <<OUT_INFO(1)>>))
<1> DEFINE m == [macro |-> "INFO", arg |-> 1]
<1>1. m \in [macro : InfoMacros, arg : Nat] /\ OUT_INFO(1) = m
  BY DEF InfoMacros, DaemonFields, OUT_INFO
<1>2. [i \in DOMAIN DaemonFields[m.macro] |-> DaemonFields[m.macro][i].part]
        = <<"v", "s", "u", "s", "v">>
  BY DEF DaemonFields, proto_write_info, U, V, S
<1> HIDE DEF m
<1>3. m.arg = 1
  BY DEF m
<1> QED
  BY <1>1, <1>2, <1>3, Agree0, Entries DEF Agreed, InfoOut, Sig, Stub, CheckedStub, Special

LEMMA GetSlotListAgrees ==
  Agreed("C_GetSlotList", Sig(<<"y", "fu">>, <<"au">>),
         CheckedStub({<<"count", 2>>}, <<IN_BYTE(1), IN_ULONG_BUFFER(2)>>, <<OUT_ULONG_ARRAY(2)>>),
         Stub(<<IN_BYTE(1), IN_ULONG_BUFFER(2)>>, <<OUT_ULONG_ARRAY(2)>>))
  BY Agree2, Entries, Macros DEF Agreed, UlongsOut, Sig, Stub, CheckedStub, Special

LEMMA GetSlotInfoAgrees ==
  Agreed("C_GetSlotInfo", Sig(<<"u">>, <<"s", "s", "u", "v", "v">>),
         CheckedStub({<<"ptr", 2>>}, <<IN_ULONG(1)>>, <<OUT_SLOT_INFO(2)>>),
         Stub(<<IN_ULONG(1)>>, <<OUT_SLOT_INFO(2)>>))
<1> DEFINE m == [macro |-> "SLOT_INFO", arg |-> 2]
<1>1. m \in [macro : InfoMacros, arg : Nat] /\ OUT_SLOT_INFO(2) = m
  BY DEF InfoMacros, DaemonFields, OUT_SLOT_INFO
<1>2. [i \in DOMAIN DaemonFields[m.macro] |-> DaemonFields[m.macro][i].part]
        = <<"s", "s", "u", "v", "v">>
  BY DEF DaemonFields, proto_write_slot_info, U, V, S
<1> HIDE DEF m
<1>3. m.arg = 2
  BY DEF m
<1> QED
  BY <1>1, <1>2, <1>3, Agree1, Entries DEF Agreed, InfoOut, Sig, Stub, CheckedStub, Special

LEMMA GetTokenInfoAgrees ==
  Agreed("C_GetTokenInfo", Sig(<<"u">>,
      <<"s", "s", "s", "s", "u", "u", "u", "u", "u", "u", "u", "u", "u", "u", "u", "v", "v", "s">>),
         CheckedStub({<<"ptr", 2>>}, <<IN_ULONG(1)>>, <<OUT_TOKEN_INFO(2)>>),
         Stub(<<IN_ULONG(1)>>, <<OUT_TOKEN_INFO(2)>>))
<1> DEFINE m == [macro |-> "TOKEN_INFO", arg |-> 2]
<1>1. m \in [macro : InfoMacros, arg : Nat] /\ OUT_TOKEN_INFO(2) = m
  BY DEF InfoMacros, DaemonFields, OUT_TOKEN_INFO
<1>2. [i \in DOMAIN DaemonFields[m.macro] |-> DaemonFields[m.macro][i].part]
        = <<"s", "s", "s", "s", "u", "u", "u", "u", "u", "u", "u", "u", "u", "u", "u", "v", "v", "s">>
  BY DEF DaemonFields, proto_write_token_info, U, V, S
<1> HIDE DEF m
<1>3. m.arg = 2
  BY DEF m
<1> QED
  BY <1>1, <1>2, <1>3, Agree1, Entries DEF Agreed, InfoOut, Sig, Stub, CheckedStub, Special

LEMMA GetMechanismListAgrees ==
  Agreed("C_GetMechanismList", Sig(<<"u", "fu">>, <<"au">>),
         CheckedStub({<<"count", 2>>}, <<IN_ULONG(1), IN_ULONG_BUFFER(2)>>,
             <<OUT_MECHANISM_TYPE_ARRAY(2)>>),
         Stub(<<IN_ULONG(1), IN_ULONG_BUFFER(2)>>, <<OUT_ULONG_ARRAY(2)>>))
  BY Agree2, Entries, Macros DEF Agreed, UlongsOut, Sig, Stub, CheckedStub, Special

LEMMA GetMechanismInfoAgrees ==
  Agreed("C_GetMechanismInfo", Sig(<<"u", "u">>, <<"u", "u", "u">>),
         CheckedStub({<<"ptr", 3>>}, <<IN_ULONG(1), IN_MECHANISM_TYPE(2)>>, <<OUT_MECHANISM_INFO(3)>>),
         Stub(<<IN_ULONG(1), IN_ULONG(2)>>, <<OUT_MECHANISM_INFO(3)>>))
<1> DEFINE m == [macro |-> "MECHANISM_INFO", arg |-> 3]
<1>1. m \in [macro : InfoMacros, arg : Nat] /\ OUT_MECHANISM_INFO(3) = m
  BY DEF InfoMacros, DaemonFields, OUT_MECHANISM_INFO
<1>2. [i \in DOMAIN DaemonFields[m.macro] |-> DaemonFields[m.macro][i].part]
        = <<"u", "u", "u">>
  BY DEF DaemonFields, proto_write_mechanism_info, U, V, S
<1> HIDE DEF m
<1>3. m.arg = 3
  BY DEF m
<1> QED
  BY <1>1, <1>2, <1>3, Agree2, Entries DEF Agreed, InfoOut, Sig, Stub, CheckedStub, Special

LEMMA InitTokenAgrees ==
  Agreed("C_InitToken", Sig(<<"u", "ay", "s">>, <<>>),
         Stub(<<IN_ULONG(1), IN_BYTE_ARRAY(2), IN_SPACE_STRING(3)>>, <<>>),
         Stub(<<IN_ULONG(1), IN_BYTE_ARRAY(2), IN_SPACE_STRING(3)>>, <<>>))
  BY Agree3, Entries DEF Agreed, NoOut, Sig, Stub, CheckedStub, Special

LEMMA WaitForSlotEventAgrees ==
  Agreed("C_WaitForSlotEvent", Sig(<<"u">>, <<"u">>),
         CheckedStub({<<"ptr", 2>>}, <<IN_ULONG(1)>>, <<OUT_ULONG(2)>>),
         Stub(<<IN_ULONG(1)>>, <<OUT_ULONG(2)>>))
  BY Agree1, Entries DEF Agreed, NumsOut, Sig, Stub, CheckedStub, Special

LEMMA OpenSessionAgrees ==
  Agreed("C_OpenSession", Sig(<<"u", "u">>, <<"u">>),
         Stub(<<IN_ULONG(1), IN_ULONG(2)>>, <<OUT_ULONG(3)>>),
         Stub(<<IN_ULONG(1), IN_ULONG(2)>>, <<OUT_ULONG(3)>>))
  BY Agree2, Entries DEF Agreed, NumsOut, Sig, Stub, CheckedStub, Special

LEMMA PlainAgrees ==
  ASSUME NEW c, c \notin Special
  PROVE  Agreed(c, PlainSig, Plain, Plain)
  BY Agree1, Entries DEF Agreed, NoOut, Sig, Stub, CheckedStub, PlainSig, Plain, Special

LEMMA GetSessionInfoAgrees ==
  Agreed("C_GetSessionInfo", Sig(<<"u">>, <<"u", "u", "u", "u">>),
         CheckedStub({<<"ptr", 2>>}, <<IN_ULONG(1)>>, <<OUT_SESSION_INFO(2)>>),
         Stub(<<IN_ULONG(1)>>, <<OUT_SESSION_INFO(2)>>))
<1> DEFINE m == [macro |-> "SESSION_INFO", arg |-> 2]
<1>1. m \in [macro : InfoMacros, arg : Nat] /\ OUT_SESSION_INFO(2) = m
  BY DEF InfoMacros, DaemonFields, OUT_SESSION_INFO
<1>2. [i \in DOMAIN DaemonFields[m.macro] |-> DaemonFields[m.macro][i].part]
        = <<"u", "u", "u", "u">>
  BY DEF DaemonFields, proto_write_session_info, U, V, S
<1> HIDE DEF m
<1>3. m.arg = 2
  BY DEF m
<1> QED
  BY <1>1, <1>2, <1>3, Agree1, Entries DEF Agreed, InfoOut, Sig, Stub, CheckedStub, Special

LEMMA UpdateAgrees ==
  ASSUME NEW c, c \notin Special
  PROVE  Agreed(c, UpdateSig, Update, Update)
  BY Agree2, Entries DEF Agreed, NoOut, Sig, Stub, CheckedStub, UpdateSig, Update, Special

LEMMA TwoArraysAgree ==
  ASSUME NEW c, c \notin Special
  PROVE  Agreed(c, Sig(<<"u", "ay", "ay">>, <<>>),
         Stub(<<IN_ULONG(1), IN_BYTE_ARRAY(2), IN_BYTE_ARRAY(3)>>, <<>>),
         Stub(<<IN_ULONG(1), IN_BYTE_ARRAY(2), IN_BYTE_ARRAY(3)>>, <<>>))
  BY Agree3, Entries DEF Agreed, NoOut, Sig, Stub, CheckedStub, Special

LEMMA FinalAgrees ==
  ASSUME NEW c, c \notin Special
  PROVE  Agreed(c, FinalSig, Final, Final)
  BY Agree2, Entries, Macros DEF Agreed, BytesOut, Sig, Stub, CheckedStub, FinalSig, Final, Special

LEMMA SetOperationStateAgrees ==
  Agreed("C_SetOperationState", Sig(<<"u", "ay", "u", "u">>, <<>>),
         Stub(<<IN_ULONG(1), IN_BYTE_ARRAY(2), IN_ULONG(3), IN_ULONG(4)>>, <<>>),
         Stub(<<IN_ULONG(1), IN_BYTE_ARRAY(2), IN_ULONG(3), IN_ULONG(4)>>, <<>>))
  BY Agree4, Entries DEF Agreed, NoOut, Sig, Stub, CheckedStub, Special

LEMMA LoginAgrees ==
  Agreed("C_Login", Sig(<<"u", "u", "ay">>, <<>>),
         Stub(<<IN_ULONG(1), IN_ULONG(2), IN_BYTE_ARRAY(3)>>, <<>>),
         Stub(<<IN_ULONG(1), IN_ULONG(2), IN_BYTE_ARRAY(3)>>, <<>>))
  BY Agree3, Entries DEF Agreed, NoOut, Sig, Stub, CheckedStub, Special

LEMMA CreateObjectAgrees ==
  Agreed("C_CreateObject", Sig(<<"u", "aA">>, <<"u">>),
         CheckedStub({<<"handle", 1>>, <<"ptr", 2>>, <<"ptr", 3>>},
             <<IN_ULONG(1), IN_ATTRIBUTE_ARRAY(2)>>, <<OUT_ULONG(3)>>),
         Stub(<<IN_ULONG(1), IN_ATTRIBUTE_ARRAY(2)>>, <<OUT_ULONG(3)>>))
  BY Agree2, Entries DEF Agreed, NumsOut, Sig, Stub, CheckedStub, Special

LEMMA CopyObjectAgrees ==
  Agreed("C_CopyObject", Sig(<<"u", "u", "aA">>, <<"u">>),
         CheckedStub({<<"ptr", 4>>}, <<IN_ULONG(1), IN_ULONG(2), IN_ATTRIBUTE_ARRAY(3)>>,
             <<OUT_ULONG(4)>>),
         Stub(<<IN_ULONG(1), IN_ULONG(2), IN_ATTRIBUTE_ARRAY(3)>>, <<OUT_ULONG(4)>>))
  BY Agree3, Entries DEF Agreed, NumsOut, Sig, Stub, CheckedStub, Special

LEMMA HandlesAgrees ==
  ASSUME NEW c, c \notin Special
  PROVE  Agreed(c, HandlesSig, Handles, Handles)
  BY Agree2, Entries DEF Agreed, NoOut, Sig, Stub, CheckedStub, HandlesSig, Handles, Special

LEMMA GetObjectSizeAgrees ==
  Agreed("C_GetObjectSize", Sig(<<"u", "u">>, <<"u">>),
         CheckedStub({<<"ptr", 3>>}, <<IN_ULONG(1), IN_ULONG(2)>>, <<OUT_ULONG(3)>>),
         Stub(<<IN_ULONG(1), IN_ULONG(2)>>, <<OUT_ULONG(3)>>))
  BY Agree2, Entries DEF Agreed, NumsOut, Sig, Stub, CheckedStub, Special

LEMMA GetAttributeValueAgrees ==
  Agreed("C_GetAttributeValue", Sig(<<"u", "u", "fA">>, <<"aA", "u">>),
         CheckedStub({<<"ptr", 3>>}, <<IN_ULONG(1), IN_ULONG(2), IN_ATTRIBUTE_BUFFER(3)>>,
             <<OUT_ATTRIBUTE_ARRAY(3)>>),
         Stub(<<IN_ULONG(1), IN_ULONG(2), IN_ATTRIBUTE_BUFFER(3)>>, <<OUT_ATTRIBUTE_ARRAY(3)>>))
  BY Agree3, Entries, Macros DEF Agreed, AttrsOut, Sig, Stub, CheckedStub, Special

LEMMA SetAttributeValueAgrees ==
  Agreed("C_SetAttributeValue", Sig(<<"u", "u", "aA">>, <<>>),
         Stub(<<IN_ULONG(1), IN_ULONG(2), IN_ATTRIBUTE_ARRAY(3)>>, <<>>),
         Stub(<<IN_ULONG(1), IN_ULONG(2), IN_ATTRIBUTE_ARRAY(3)>>, <<>>))
  BY Agree3, Entries DEF Agreed, NoOut, Sig, Stub, CheckedStub, Special

LEMMA FindObjectsInitAgrees ==
  Agreed("C_FindObjectsInit", Sig(<<"u", "aA">>, <<>>),
         Stub(<<IN_ULONG(1), IN_ATTRIBUTE_ARRAY(2)>>, <<>>),
         Stub(<<IN_ULONG(1), IN_ATTRIBUTE_ARRAY(2)>>, <<>>))
  BY Agree2, Entries DEF Agreed, NoOut, Sig, Stub, CheckedStub, Special

LEMMA FindObjectsAgrees ==
  Agreed("C_FindObjects", Sig(<<"u", "fu">>, <<"au">>),
         CheckedStub({<<"count", 2>>}, <<IN_ULONG(1), IN_ULONG_BUFFER(2)>>, <<OUT_ULONG_ARRAY(2)>>),
         Stub(<<IN_ULONG(1), IN_ULONG_BUFFER(2)>>, <<OUT_ULONG_ARRAY(2)>>))
  BY Agree2, Entries, Macros DEF Agreed, UlongsOut, Sig, Stub, CheckedStub, Special

LEMMA StartAgrees ==
  ASSUME NEW c, c \notin Special
  PROVE  Agreed(c, StartSig, Start, Start)
  BY Agree3, Entries DEF Agreed, NoOut, Sig, Stub, CheckedStub, StartSig, Start, Special

LEMMA TransformAgrees ==
  ASSUME NEW c, c \notin Special
  PROVE  Agreed(c, TransformSig, Transform, Transform)
  BY Agree3, Entries, Macros DEF Agreed, BytesOut, Sig, Stub, CheckedStub, TransformSig, Transform,
       Special

LEMMA DigestInitAgrees ==
  Agreed("C_DigestInit", Sig(<<"u", "M">>, <<>>),
         Stub(<<IN_ULONG(1), IN_MECHANISM(2)>>, <<>>),
         Stub(<<IN_ULONG(1), IN_MECHANISM(2)>>, <<>>))
  BY Agree2, Entries DEF Agreed, NoOut, Sig, Stub, CheckedStub, Special

LEMMA SignUpdateAgrees ==
  Agreed("C_SignUpdate", UpdateSig,
         CheckedStub({<<"len", 2>>}, Update.in, Update.out),
         Update)
  BY Agree2, Entries DEF Agreed, NoOut, Sig, Stub, CheckedStub, UpdateSig, Update, Special

LEMMA GenerateKeyAgrees ==
  Agreed("C_GenerateKey", Sig(<<"u", "M", "aA">>, <<"u">>),
         Stub(<<IN_ULONG(1), IN_MECHANISM(2), IN_ATTRIBUTE_ARRAY(3)>>, <<OUT_ULONG(4)>>),
         Stub(<<IN_ULONG(1), IN_MECHANISM(2), IN_ATTRIBUTE_ARRAY(3)>>, <<OUT_ULONG(4)>>))
  BY Agree3, Entries DEF Agreed, NumsOut, Sig, Stub, CheckedStub, Special

LEMMA GenerateKeyPairAgrees ==
  Agreed("C_GenerateKeyPair", Sig(<<"u", "M", "aA", "aA">>, <<"u", "u">>),
         CheckedStub({<<"handle", 1>>} \cup {<<"ptr", n>> : n \in 2 .. 6},
             <<IN_ULONG(1), IN_MECHANISM(2), IN_ATTRIBUTE_ARRAY(3), IN_ATTRIBUTE_ARRAY(4)>>,
             <<OUT_ULONG(5), OUT_ULONG(6)>>),
         Stub(<<IN_ULONG(1), IN_MECHANISM(2), IN_ATTRIBUTE_ARRAY(3), IN_ATTRIBUTE_ARRAY(4)>>,
             <<OUT_ULONG(5), OUT_ULONG(6)>>))
  BY Agree4, Entries DEF Agreed, NumsOut, Sig, Stub, CheckedStub, Special

LEMMA WrapKeyAgrees ==
  Agreed("C_WrapKey", Sig(<<"u", "M", "u", "u", "fy">>, <<"ay">>),
         Stub(<<IN_ULONG(1), IN_MECHANISM(2), IN_ULONG(3), IN_ULONG(4), IN_BYTE_BUFFER(5)>>,
             <<OUT_BYTE_ARRAY(5)>>),
         Stub(<<IN_ULONG(1), IN_MECHANISM(2), IN_ULONG(3), IN_ULONG(4), IN_BYTE_BUFFER(5)>>,
             <<OUT_BYTE_ARRAY(5)>>))
<1> DEFINE s  == Sig(<<"u", "M", "u", "u", "fy">>, <<"ay">>)
           cl == Stub(<<IN_ULONG(1), IN_MECHANISM(2), IN_ULONG(3), IN_ULONG(4), IN_BYTE_BUFFER(5)>>,
               <<OUT_BYTE_ARRAY(5)>>)
<1>1. InAgree(s.request, cl.in, cl.in)
  BY Agree5, Entries DEF Sig, Stub, CheckedStub
<1>2. BytesOut("C_WrapKey", s, cl, cl)
  BY Macros DEF BytesOut, Sig, Stub, CheckedStub, Special
<1> QED
  BY <1>1, <1>2 DEF Agreed

LEMMA UnwrapKeyAgrees ==
  Agreed("C_UnwrapKey", Sig(<<"u", "M", "u", "ay", "aA">>, <<"u">>),
         Stub(<<IN_ULONG(1), IN_MECHANISM(2), IN_ULONG(3), IN_BYTE_ARRAY(4), IN_ATTRIBUTE_ARRAY(5)>>,
             <<OUT_ULONG(6)>>),
         Stub(<<IN_ULONG(1), IN_MECHANISM(2), IN_ULONG(3), IN_BYTE_ARRAY(4), IN_ATTRIBUTE_ARRAY(5)>>,
             <<OUT_ULONG(6)>>))
  BY Agree5, Entries DEF Agreed, NumsOut, Sig, Stub, CheckedStub, Special

LEMMA DeriveKeyAgrees ==
  Agreed("C_DeriveKey", Sig(<<"u", "M", "u", "aA">>, <<"u">>),
         Stub(<<IN_ULONG(1), IN_MECHANISM(2), IN_ULONG(3), IN_ATTRIBUTE_ARRAY(4)>>, <<OUT_ULONG(5)>>),
         Stub(<<IN_ULONG(1), IN_MECHANISM(2), IN_ULONG(3), IN_ATTRIBUTE_ARRAY(4)>>, <<OUT_ULONG(5)>>))
  BY Agree4, Entries DEF Agreed, NumsOut, Sig, Stub, CheckedStub, Special

LEMMA GenerateRandomAgrees ==
  Agreed("C_GenerateRandom", FinalSig,
         CheckedStub({<<"ptr", 2>>}, Final.in, Final.out),
         CheckedStub({<<"count", 2>>}, Final.in, Final.out))
  BY Agree2, Entries, Macros DEF Agreed, BytesOut, Sig, Stub, CheckedStub, FinalSig, Final, Special

-----------------------------------------------------------------------------
(* Tables that are put together.                                           *)

\* f ++ g is f where f is defined ...
LEMMA FirstTable ==
  ASSUME NEW f, NEW g, NEW x, x \in DOMAIN f
  PROVE  (f ++ g)[x] = f[x] /\ x \in DOMAIN (f ++ g)
  BY DEF ++

\* ... and g elsewhere.
LEMMA SecondTable ==
  ASSUME NEW f, NEW g, NEW x, x \in DOMAIN g, x \notin DOMAIN f
  PROVE  (f ++ g)[x] = g[x] /\ x \in DOMAIN (f ++ g)
  BY DEF ++

\* Its domain is that of both.
LEMMA BothTables ==
  ASSUME NEW f, NEW g
  PROVE  DOMAIN (f ++ g) = DOMAIN f \cup DOMAIN g
  BY DEF ++

\* The calls in each table of client stubs ...
LEMMA ClientDomains ==
  /\ DOMAIN ClientSlotCalls =
       {"C_GetInfo", "C_GetSlotList", "C_GetSlotInfo", "C_GetTokenInfo",
        "C_GetMechanismList", "C_GetMechanismInfo", "C_InitToken", "C_WaitForSlotEvent",
        "C_OpenSession"}
  /\ DOMAIN ClientSessionCalls =
       {"C_CloseSession", "C_CloseAllSessions", "C_GetFunctionStatus", "C_CancelFunction",
        "C_GetSessionInfo", "C_InitPIN", "C_SetPIN", "C_GetOperationState",
        "C_SetOperationState", "C_Login", "C_Logout"}
  /\ DOMAIN ClientObjectCalls =
       {"C_CreateObject", "C_CopyObject", "C_DestroyObject", "C_GetObjectSize",
        "C_GetAttributeValue", "C_SetAttributeValue", "C_FindObjectsInit", "C_FindObjects",
        "C_FindObjectsFinal"}
  /\ DOMAIN ClientCipherCalls =
       {"C_EncryptInit", "C_Encrypt", "C_EncryptUpdate", "C_EncryptFinal", "C_DecryptInit",
        "C_Decrypt", "C_DecryptUpdate", "C_DecryptFinal", "C_DigestInit"}
  /\ DOMAIN ClientSignCalls =
       {"C_Digest", "C_DigestUpdate", "C_DigestKey", "C_DigestFinal", "C_SignInit",
        "C_Sign", "C_SignUpdate", "C_SignFinal", "C_SignRecoverInit", "C_SignRecover"}
  /\ DOMAIN ClientVerifyCalls =
       {"C_VerifyInit", "C_Verify", "C_VerifyUpdate", "C_VerifyFinal",
        "C_VerifyRecoverInit", "C_VerifyRecover", "C_DigestEncryptUpdate",
        "C_DecryptDigestUpdate", "C_SignEncryptUpdate", "C_DecryptVerifyUpdate"}
  /\ DOMAIN ClientKeyCalls =
       {"C_GenerateKey", "C_GenerateKeyPair", "C_WrapKey", "C_UnwrapKey", "C_DeriveKey",
        "C_SeedRandom", "C_GenerateRandom"}
  BY DEF ClientSlotCalls, ClientSessionCalls, ClientObjectCalls, ClientCipherCalls, ClientSignCalls,
       ClientVerifyCalls, ClientKeyCalls

\* A stub is looked up in the one table that has it.
LEMMA ClientLookup ==
  /\ \A c \in DOMAIN ClientSlotCalls : ClientStubs[c] = ClientSlotCalls[c]
  /\ \A c \in DOMAIN ClientSessionCalls : ClientStubs[c] = ClientSessionCalls[c]
  /\ \A c \in DOMAIN ClientObjectCalls : ClientStubs[c] = ClientObjectCalls[c]
  /\ \A c \in DOMAIN ClientCipherCalls : ClientStubs[c] = ClientCipherCalls[c]
  /\ \A c \in DOMAIN ClientSignCalls : ClientStubs[c] = ClientSignCalls[c]
  /\ \A c \in DOMAIN ClientVerifyCalls : ClientStubs[c] = ClientVerifyCalls[c]
  /\ \A c \in DOMAIN ClientKeyCalls : ClientStubs[c] = ClientKeyCalls[c]
<1> DEFINE t1 == ClientSlotCalls
           t2 == t1 ++ ClientSessionCalls
           t3 == t2 ++ ClientObjectCalls
           t4 == t3 ++ ClientCipherCalls
           t5 == t4 ++ ClientSignCalls
           t6 == t5 ++ ClientVerifyCalls
           t7 == t6 ++ ClientKeyCalls
<1>0. ClientStubs = t7
  BY DEF ClientStubs
<1>1. DOMAIN t1 = DOMAIN ClientSlotCalls
  OBVIOUS
<1>2. DOMAIN t2 = DOMAIN t1 \cup DOMAIN ClientSessionCalls
  BY BothTables
<1>3. DOMAIN t3 = DOMAIN t2 \cup DOMAIN ClientObjectCalls
  BY BothTables
<1>4. DOMAIN t4 = DOMAIN t3 \cup DOMAIN ClientCipherCalls
  BY BothTables
<1>5. DOMAIN t5 = DOMAIN t4 \cup DOMAIN ClientSignCalls
  BY BothTables
<1>6. DOMAIN t6 = DOMAIN t5 \cup DOMAIN ClientVerifyCalls
  BY BothTables
<1>7. DOMAIN t7 = DOMAIN t6 \cup DOMAIN ClientKeyCalls
  BY BothTables
<1> HIDE DEF t1, t2, t3, t4, t5, t6, t7
<1>8. \A c \in DOMAIN ClientSessionCalls : c \notin DOMAIN t1
  BY <1>1, ClientDomains
<1>9. \A c \in DOMAIN ClientObjectCalls : c \notin DOMAIN t2
  BY <1>1, <1>2, ClientDomains
<1>10. \A c \in DOMAIN ClientCipherCalls : c \notin DOMAIN t3
  BY <1>1, <1>2, <1>3, ClientDomains
<1>11. \A c \in DOMAIN ClientSignCalls : c \notin DOMAIN t4
  BY <1>1, <1>2, <1>3, <1>4, ClientDomains
<1>12. \A c \in DOMAIN ClientVerifyCalls : c \notin DOMAIN t5
  BY <1>1, <1>2, <1>3, <1>4, <1>5, ClientDomains
<1>13. \A c \in DOMAIN ClientKeyCalls : c \notin DOMAIN t6
  BY <1>1, <1>2, <1>3, <1>4, <1>5, <1>6, ClientDomains
<1>14. \A c \in DOMAIN t1 : t1[c] = ClientSlotCalls[c]
  BY DEF t1
<1>15. /\ \A c \in DOMAIN t1 : t2[c] = t1[c]
      /\ \A c \in DOMAIN ClientSessionCalls : t2[c] = ClientSessionCalls[c]
  BY <1>8, FirstTable, SecondTable DEF t2
<1>16. /\ \A c \in DOMAIN t2 : t3[c] = t2[c]
      /\ \A c \in DOMAIN ClientObjectCalls : t3[c] = ClientObjectCalls[c]
  BY <1>9, FirstTable, SecondTable DEF t3
<1>17. /\ \A c \in DOMAIN t3 : t4[c] = t3[c]
      /\ \A c \in DOMAIN ClientCipherCalls : t4[c] = ClientCipherCalls[c]
  BY <1>10, FirstTable, SecondTable DEF t4
<1>18. /\ \A c \in DOMAIN t4 : t5[c] = t4[c]
      /\ \A c \in DOMAIN ClientSignCalls : t5[c] = ClientSignCalls[c]
  BY <1>11, FirstTable, SecondTable DEF t5
<1>19. /\ \A c \in DOMAIN t5 : t6[c] = t5[c]
      /\ \A c \in DOMAIN ClientVerifyCalls : t6[c] = ClientVerifyCalls[c]
  BY <1>12, FirstTable, SecondTable DEF t6
<1>20. /\ \A c \in DOMAIN t6 : t7[c] = t6[c]
      /\ \A c \in DOMAIN ClientKeyCalls : t7[c] = ClientKeyCalls[c]
  BY <1>13, FirstTable, SecondTable DEF t7
<1> QED
  BY <1>0, <1>1, <1>2, <1>3, <1>4, <1>5, <1>6, <1>7, <1>14, <1>15, <1>16, <1>17, <1>18, <1>19, <1>20

\* The calls in each table of daemon stubs.
LEMMA DaemonDomains ==
  /\ DOMAIN DaemonSlotCalls =
       {"C_GetInfo", "C_GetSlotList", "C_GetSlotInfo", "C_GetTokenInfo",
        "C_GetMechanismList", "C_GetMechanismInfo", "C_InitToken", "C_WaitForSlotEvent",
        "C_OpenSession"}
  /\ DOMAIN DaemonSessionCalls =
       {"C_CloseSession", "C_CloseAllSessions", "C_GetFunctionStatus", "C_CancelFunction",
        "C_GetSessionInfo", "C_InitPIN", "C_SetPIN", "C_GetOperationState"}
  /\ DOMAIN DaemonObjectCalls =
       {"C_SetOperationState", "C_Login", "C_Logout", "C_CreateObject", "C_CopyObject",
        "C_DestroyObject", "C_GetObjectSize", "C_GetAttributeValue", "C_SetAttributeValue"}
  /\ DOMAIN DaemonCipherCalls =
       {"C_FindObjectsInit", "C_FindObjects", "C_FindObjectsFinal", "C_EncryptInit",
        "C_Encrypt", "C_EncryptUpdate", "C_EncryptFinal", "C_DecryptInit", "C_Decrypt",
        "C_DecryptUpdate"}
  /\ DOMAIN DaemonDigestCalls =
       {"C_DecryptFinal", "C_DigestInit", "C_Digest", "C_DigestUpdate", "C_DigestKey",
        "C_DigestFinal", "C_SignInit", "C_Sign", "C_SignUpdate", "C_SignFinal"}
  /\ DOMAIN DaemonVerifyCalls =
       {"C_SignRecoverInit", "C_SignRecover", "C_VerifyInit", "C_Verify", "C_VerifyUpdate",
        "C_VerifyFinal", "C_VerifyRecoverInit", "C_VerifyRecover"}
  /\ DOMAIN DaemonDualCalls =
       {"C_DigestEncryptUpdate", "C_DecryptDigestUpdate", "C_SignEncryptUpdate",
        "C_DecryptVerifyUpdate", "C_GenerateKey", "C_GenerateKeyPair"}
  /\ DOMAIN DaemonKeyCalls =
       {"C_WrapKey", "C_UnwrapKey", "C_DeriveKey", "C_SeedRandom", "C_GenerateRandom"}
  BY DEF DaemonSlotCalls, DaemonSessionCalls, DaemonObjectCalls, DaemonCipherCalls,
       DaemonDigestCalls, DaemonVerifyCalls, DaemonDualCalls, DaemonKeyCalls

\* A stub is looked up in the one table that has it.
LEMMA DaemonLookup ==
  /\ \A c \in DOMAIN DaemonSlotCalls : DaemonStubs[c] = DaemonSlotCalls[c]
  /\ \A c \in DOMAIN DaemonSessionCalls : DaemonStubs[c] = DaemonSessionCalls[c]
  /\ \A c \in DOMAIN DaemonObjectCalls : DaemonStubs[c] = DaemonObjectCalls[c]
  /\ \A c \in DOMAIN DaemonCipherCalls : DaemonStubs[c] = DaemonCipherCalls[c]
  /\ \A c \in DOMAIN DaemonDigestCalls : DaemonStubs[c] = DaemonDigestCalls[c]
  /\ \A c \in DOMAIN DaemonVerifyCalls : DaemonStubs[c] = DaemonVerifyCalls[c]
  /\ \A c \in DOMAIN DaemonDualCalls : DaemonStubs[c] = DaemonDualCalls[c]
  /\ \A c \in DOMAIN DaemonKeyCalls : DaemonStubs[c] = DaemonKeyCalls[c]
<1> DEFINE t1 == DaemonSlotCalls
           t2 == t1 ++ DaemonSessionCalls
           t3 == t2 ++ DaemonObjectCalls
           t4 == t3 ++ DaemonCipherCalls
           t5 == t4 ++ DaemonDigestCalls
           t6 == t5 ++ DaemonVerifyCalls
           t7 == t6 ++ DaemonDualCalls
           t8 == t7 ++ DaemonKeyCalls
<1>0. DaemonStubs = t8
  BY DEF DaemonStubs
<1>1. DOMAIN t1 = DOMAIN DaemonSlotCalls
  OBVIOUS
<1>2. DOMAIN t2 = DOMAIN t1 \cup DOMAIN DaemonSessionCalls
  BY BothTables
<1>3. DOMAIN t3 = DOMAIN t2 \cup DOMAIN DaemonObjectCalls
  BY BothTables
<1>4. DOMAIN t4 = DOMAIN t3 \cup DOMAIN DaemonCipherCalls
  BY BothTables
<1>5. DOMAIN t5 = DOMAIN t4 \cup DOMAIN DaemonDigestCalls
  BY BothTables
<1>6. DOMAIN t6 = DOMAIN t5 \cup DOMAIN DaemonVerifyCalls
  BY BothTables
<1>7. DOMAIN t7 = DOMAIN t6 \cup DOMAIN DaemonDualCalls
  BY BothTables
<1>8. DOMAIN t8 = DOMAIN t7 \cup DOMAIN DaemonKeyCalls
  BY BothTables
<1> HIDE DEF t1, t2, t3, t4, t5, t6, t7, t8
<1>9. \A c \in DOMAIN DaemonSessionCalls : c \notin DOMAIN t1
  BY <1>1, DaemonDomains
<1>10. \A c \in DOMAIN DaemonObjectCalls : c \notin DOMAIN t2
  BY <1>1, <1>2, DaemonDomains
<1>11. \A c \in DOMAIN DaemonCipherCalls : c \notin DOMAIN t3
  BY <1>1, <1>2, <1>3, DaemonDomains
<1>12. \A c \in DOMAIN DaemonDigestCalls : c \notin DOMAIN t4
  BY <1>1, <1>2, <1>3, <1>4, DaemonDomains
<1>13. \A c \in DOMAIN DaemonVerifyCalls : c \notin DOMAIN t5
  BY <1>1, <1>2, <1>3, <1>4, <1>5, DaemonDomains
<1>14. \A c \in DOMAIN DaemonDualCalls : c \notin DOMAIN t6
  BY <1>1, <1>2, <1>3, <1>4, <1>5, <1>6, DaemonDomains
<1>15. \A c \in DOMAIN DaemonKeyCalls : c \notin DOMAIN t7
  BY <1>1, <1>2, <1>3, <1>4, <1>5, <1>6, <1>7, DaemonDomains
<1>16. \A c \in DOMAIN t1 : t1[c] = DaemonSlotCalls[c]
  BY DEF t1
<1>17. /\ \A c \in DOMAIN t1 : t2[c] = t1[c]
      /\ \A c \in DOMAIN DaemonSessionCalls : t2[c] = DaemonSessionCalls[c]
  BY <1>9, FirstTable, SecondTable DEF t2
<1>18. /\ \A c \in DOMAIN t2 : t3[c] = t2[c]
      /\ \A c \in DOMAIN DaemonObjectCalls : t3[c] = DaemonObjectCalls[c]
  BY <1>10, FirstTable, SecondTable DEF t3
<1>19. /\ \A c \in DOMAIN t3 : t4[c] = t3[c]
      /\ \A c \in DOMAIN DaemonCipherCalls : t4[c] = DaemonCipherCalls[c]
  BY <1>11, FirstTable, SecondTable DEF t4
<1>20. /\ \A c \in DOMAIN t4 : t5[c] = t4[c]
      /\ \A c \in DOMAIN DaemonDigestCalls : t5[c] = DaemonDigestCalls[c]
  BY <1>12, FirstTable, SecondTable DEF t5
<1>21. /\ \A c \in DOMAIN t5 : t6[c] = t5[c]
      /\ \A c \in DOMAIN DaemonVerifyCalls : t6[c] = DaemonVerifyCalls[c]
  BY <1>13, FirstTable, SecondTable DEF t6
<1>22. /\ \A c \in DOMAIN t6 : t7[c] = t6[c]
      /\ \A c \in DOMAIN DaemonDualCalls : t7[c] = DaemonDualCalls[c]
  BY <1>14, FirstTable, SecondTable DEF t7
<1>23. /\ \A c \in DOMAIN t7 : t8[c] = t7[c]
      /\ \A c \in DOMAIN DaemonKeyCalls : t8[c] = DaemonKeyCalls[c]
  BY <1>15, FirstTable, SecondTable DEF t8
<1> QED
  BY <1>0, <1>1, <1>2, <1>3, <1>4, <1>5, <1>6, <1>7, <1>8, <1>16, <1>17, <1>18, <1>19, <1>20, <1>21,
       <1>22, <1>23

\* The signature, the client's stub and the daemon's stub of every call agree.
LEMMA Agreement ==
  ASSUME NEW c \in DOMAIN gck_rpc_calls
  PROVE  Agreed(c, gck_rpc_calls[c], ClientStubs[c], DaemonStubs[c])
<1> DEFINE A(x) == Agreed(x, gck_rpc_calls[x], ClientStubs[x], DaemonStubs[x])
<1>0. DOMAIN gck_rpc_calls =
        {"C_GetInfo", "C_GetSlotList", "C_GetSlotInfo", "C_GetTokenInfo",
         "C_GetMechanismList", "C_GetMechanismInfo", "C_InitToken", "C_WaitForSlotEvent",
         "C_OpenSession", "C_CloseSession", "C_CloseAllSessions", "C_GetFunctionStatus",
         "C_CancelFunction", "C_GetSessionInfo", "C_InitPIN", "C_SetPIN",
         "C_GetOperationState", "C_SetOperationState", "C_Login", "C_Logout",
         "C_CreateObject", "C_CopyObject", "C_DestroyObject", "C_GetObjectSize",
         "C_GetAttributeValue", "C_SetAttributeValue", "C_FindObjectsInit", "C_FindObjects",
         "C_FindObjectsFinal", "C_EncryptInit", "C_Encrypt", "C_EncryptUpdate",
         "C_EncryptFinal", "C_DecryptInit", "C_Decrypt", "C_DecryptUpdate",
         "C_DecryptFinal", "C_DigestInit", "C_Digest", "C_DigestUpdate", "C_DigestKey",
         "C_DigestFinal", "C_SignInit", "C_Sign", "C_SignUpdate", "C_SignFinal",
         "C_SignRecoverInit", "C_SignRecover", "C_VerifyInit", "C_Verify", "C_VerifyUpdate",
         "C_VerifyFinal", "C_VerifyRecoverInit", "C_VerifyRecover", "C_DigestEncryptUpdate",
         "C_DecryptDigestUpdate", "C_SignEncryptUpdate", "C_DecryptVerifyUpdate",
         "C_GenerateKey", "C_GenerateKeyPair", "C_WrapKey", "C_UnwrapKey", "C_DeriveKey",
         "C_SeedRandom", "C_GenerateRandom"}
  BY DEF gck_rpc_calls
<1>1. A("C_GetInfo")
  <2>1. gck_rpc_calls["C_GetInfo"] = Sig(<<>>, <<"v", "s", "u", "s", "v">>)
    BY DEF gck_rpc_calls
  <2>2. ClientStubs["C_GetInfo"] = CheckedStub({<<"ptr", 1>>}, <<>>, <<OUT_INFO(1)>>)
    BY ClientLookup, ClientDomains DEF ClientSlotCalls
  <2>3. DaemonStubs["C_GetInfo"] = Stub(<<>>, <<OUT_INFO(1)>>)
    BY DaemonLookup, DaemonDomains DEF DaemonSlotCalls
  <2> QED
    BY <2>1, <2>2, <2>3, GetInfoAgrees
<1>2. A("C_GetSlotList")
  <2>1. gck_rpc_calls["C_GetSlotList"] = Sig(<<"y", "fu">>, <<"au">>)
    BY DEF gck_rpc_calls
  <2>2. ClientStubs["C_GetSlotList"] = CheckedStub({<<"count", 2>>},
          <<IN_BYTE(1), IN_ULONG_BUFFER(2)>>, <<OUT_ULONG_ARRAY(2)>>)
    BY ClientLookup, ClientDomains DEF ClientSlotCalls
  <2>3. DaemonStubs["C_GetSlotList"] = Stub(<<IN_BYTE(1), IN_ULONG_BUFFER(2)>>, <<OUT_ULONG_ARRAY(2)>>)
    BY DaemonLookup, DaemonDomains DEF DaemonSlotCalls
  <2> QED
    BY <2>1, <2>2, <2>3, GetSlotListAgrees
<1>3. A("C_GetSlotInfo")
  <2>1. gck_rpc_calls["C_GetSlotInfo"] = Sig(<<"u">>, <<"s", "s", "u", "v", "v">>)
    BY DEF gck_rpc_calls
  <2>2. ClientStubs["C_GetSlotInfo"] = CheckedStub({<<"ptr", 2>>}, <<IN_ULONG(1)>>,
          <<OUT_SLOT_INFO(2)>>)
    BY ClientLookup, ClientDomains DEF ClientSlotCalls
  <2>3. DaemonStubs["C_GetSlotInfo"] = Stub(<<IN_ULONG(1)>>, <<OUT_SLOT_INFO(2)>>)
    BY DaemonLookup, DaemonDomains DEF DaemonSlotCalls
  <2> QED
    BY <2>1, <2>2, <2>3, GetSlotInfoAgrees
<1>4. A("C_GetTokenInfo")
  <2>1. gck_rpc_calls["C_GetTokenInfo"] = Sig(<<"u">>,
          <<"s", "s", "s", "s", "u", "u", "u", "u", "u", "u", "u", "u", "u", "u", "u", "v", "v", "s">>)
    BY DEF gck_rpc_calls
  <2>2. ClientStubs["C_GetTokenInfo"] = CheckedStub({<<"ptr", 2>>}, <<IN_ULONG(1)>>,
          <<OUT_TOKEN_INFO(2)>>)
    BY ClientLookup, ClientDomains DEF ClientSlotCalls
  <2>3. DaemonStubs["C_GetTokenInfo"] = Stub(<<IN_ULONG(1)>>, <<OUT_TOKEN_INFO(2)>>)
    BY DaemonLookup, DaemonDomains DEF DaemonSlotCalls
  <2> QED
    BY <2>1, <2>2, <2>3, GetTokenInfoAgrees
<1>5. A("C_GetMechanismList")
  <2>1. gck_rpc_calls["C_GetMechanismList"] = Sig(<<"u", "fu">>, <<"au">>)
    BY DEF gck_rpc_calls
  <2>2. ClientStubs["C_GetMechanismList"] = CheckedStub({<<"count", 2>>},
          <<IN_ULONG(1), IN_ULONG_BUFFER(2)>>, <<OUT_MECHANISM_TYPE_ARRAY(2)>>)
    BY ClientLookup, ClientDomains DEF ClientSlotCalls
  <2>3. DaemonStubs["C_GetMechanismList"] = Stub(<<IN_ULONG(1), IN_ULONG_BUFFER(2)>>,
          <<OUT_ULONG_ARRAY(2)>>)
    BY DaemonLookup, DaemonDomains DEF DaemonSlotCalls
  <2> QED
    BY <2>1, <2>2, <2>3, GetMechanismListAgrees
<1>6. A("C_GetMechanismInfo")
  <2>1. gck_rpc_calls["C_GetMechanismInfo"] = Sig(<<"u", "u">>, <<"u", "u", "u">>)
    BY DEF gck_rpc_calls
  <2>2. ClientStubs["C_GetMechanismInfo"] = CheckedStub({<<"ptr", 3>>},
          <<IN_ULONG(1), IN_MECHANISM_TYPE(2)>>, <<OUT_MECHANISM_INFO(3)>>)
    BY ClientLookup, ClientDomains DEF ClientSlotCalls
  <2>3. DaemonStubs["C_GetMechanismInfo"] = Stub(<<IN_ULONG(1), IN_ULONG(2)>>,
          <<OUT_MECHANISM_INFO(3)>>)
    BY DaemonLookup, DaemonDomains DEF DaemonSlotCalls
  <2> QED
    BY <2>1, <2>2, <2>3, GetMechanismInfoAgrees
<1>7. A("C_InitToken")
  <2>1. gck_rpc_calls["C_InitToken"] = Sig(<<"u", "ay", "s">>, <<>>)
    BY DEF gck_rpc_calls
  <2>2. ClientStubs["C_InitToken"] = Stub(<<IN_ULONG(1), IN_BYTE_ARRAY(2), IN_SPACE_STRING(3)>>, <<>>)
    BY ClientLookup, ClientDomains DEF ClientSlotCalls
  <2>3. DaemonStubs["C_InitToken"] = Stub(<<IN_ULONG(1), IN_BYTE_ARRAY(2), IN_SPACE_STRING(3)>>, <<>>)
    BY DaemonLookup, DaemonDomains DEF DaemonSlotCalls
  <2> QED
    BY <2>1, <2>2, <2>3, InitTokenAgrees
<1>8. A("C_WaitForSlotEvent")
  <2>1. gck_rpc_calls["C_WaitForSlotEvent"] = Sig(<<"u">>, <<"u">>)
    BY DEF gck_rpc_calls
  <2>2. ClientStubs["C_WaitForSlotEvent"] = CheckedStub({<<"ptr", 2>>}, <<IN_ULONG(1)>>,
          <<OUT_ULONG(2)>>)
    BY ClientLookup, ClientDomains DEF ClientSlotCalls
  <2>3. DaemonStubs["C_WaitForSlotEvent"] = Stub(<<IN_ULONG(1)>>, <<OUT_ULONG(2)>>)
    BY DaemonLookup, DaemonDomains DEF DaemonSlotCalls
  <2> QED
    BY <2>1, <2>2, <2>3, WaitForSlotEventAgrees
<1>9. A("C_OpenSession")
  <2>1. gck_rpc_calls["C_OpenSession"] = Sig(<<"u", "u">>, <<"u">>)
    BY DEF gck_rpc_calls
  <2>2. ClientStubs["C_OpenSession"] = Stub(<<IN_ULONG(1), IN_ULONG(2)>>, <<OUT_ULONG(3)>>)
    BY ClientLookup, ClientDomains DEF ClientSlotCalls
  <2>3. DaemonStubs["C_OpenSession"] = Stub(<<IN_ULONG(1), IN_ULONG(2)>>, <<OUT_ULONG(3)>>)
    BY DaemonLookup, DaemonDomains DEF DaemonSlotCalls
  <2> QED
    BY <2>1, <2>2, <2>3, OpenSessionAgrees
<1>10. A("C_CloseSession")
  <2>1. gck_rpc_calls["C_CloseSession"] = PlainSig
    BY DEF gck_rpc_calls
  <2>2. ClientStubs["C_CloseSession"] = Plain
    BY ClientLookup, ClientDomains DEF ClientSessionCalls
  <2>3. DaemonStubs["C_CloseSession"] = Plain
    BY DaemonLookup, DaemonDomains DEF DaemonSessionCalls
  <2> QED
    BY <2>1, <2>2, <2>3, PlainAgrees DEF Special
<1>11. A("C_CloseAllSessions")
  <2>1. gck_rpc_calls["C_CloseAllSessions"] = PlainSig
    BY DEF gck_rpc_calls
  <2>2. ClientStubs["C_CloseAllSessions"] = Plain
    BY ClientLookup, ClientDomains DEF ClientSessionCalls
  <2>3. DaemonStubs["C_CloseAllSessions"] = Plain
    BY DaemonLookup, DaemonDomains DEF DaemonSessionCalls
  <2> QED
    BY <2>1, <2>2, <2>3, PlainAgrees DEF Special
<1>12. A("C_GetFunctionStatus")
  <2>1. gck_rpc_calls["C_GetFunctionStatus"] = PlainSig
    BY DEF gck_rpc_calls
  <2>2. ClientStubs["C_GetFunctionStatus"] = Plain
    BY ClientLookup, ClientDomains DEF ClientSessionCalls
  <2>3. DaemonStubs["C_GetFunctionStatus"] = Plain
    BY DaemonLookup, DaemonDomains DEF DaemonSessionCalls
  <2> QED
    BY <2>1, <2>2, <2>3, PlainAgrees DEF Special
<1>13. A("C_CancelFunction")
  <2>1. gck_rpc_calls["C_CancelFunction"] = PlainSig
    BY DEF gck_rpc_calls
  <2>2. ClientStubs["C_CancelFunction"] = Plain
    BY ClientLookup, ClientDomains DEF ClientSessionCalls
  <2>3. DaemonStubs["C_CancelFunction"] = Plain
    BY DaemonLookup, DaemonDomains DEF DaemonSessionCalls
  <2> QED
    BY <2>1, <2>2, <2>3, PlainAgrees DEF Special
<1>14. A("C_Logout")
  <2>1. gck_rpc_calls["C_Logout"] = PlainSig
    BY DEF gck_rpc_calls
  <2>2. ClientStubs["C_Logout"] = Plain
    BY ClientLookup, ClientDomains DEF ClientSessionCalls
  <2>3. DaemonStubs["C_Logout"] = Plain
    BY DaemonLookup, DaemonDomains DEF DaemonObjectCalls
  <2> QED
    BY <2>1, <2>2, <2>3, PlainAgrees DEF Special
<1>15. A("C_FindObjectsFinal")
  <2>1. gck_rpc_calls["C_FindObjectsFinal"] = PlainSig
    BY DEF gck_rpc_calls
  <2>2. ClientStubs["C_FindObjectsFinal"] = Plain
    BY ClientLookup, ClientDomains DEF ClientObjectCalls
  <2>3. DaemonStubs["C_FindObjectsFinal"] = Plain
    BY DaemonLookup, DaemonDomains DEF DaemonCipherCalls
  <2> QED
    BY <2>1, <2>2, <2>3, PlainAgrees DEF Special
<1>16. A("C_GetSessionInfo")
  <2>1. gck_rpc_calls["C_GetSessionInfo"] = Sig(<<"u">>, <<"u", "u", "u", "u">>)
    BY DEF gck_rpc_calls
  <2>2. ClientStubs["C_GetSessionInfo"] = CheckedStub({<<"ptr", 2>>}, <<IN_ULONG(1)>>,
          <<OUT_SESSION_INFO(2)>>)
    BY ClientLookup, ClientDomains DEF ClientSessionCalls
  <2>3. DaemonStubs["C_GetSessionInfo"] = Stub(<<IN_ULONG(1)>>, <<OUT_SESSION_INFO(2)>>)
    BY DaemonLookup, DaemonDomains DEF DaemonSessionCalls
  <2> QED
    BY <2>1, <2>2, <2>3, GetSessionInfoAgrees
<1>17. A("C_InitPIN")
  <2>1. gck_rpc_calls["C_InitPIN"] = UpdateSig
    BY DEF gck_rpc_calls
  <2>2. ClientStubs["C_InitPIN"] = Update
    BY ClientLookup, ClientDomains DEF ClientSessionCalls
  <2>3. DaemonStubs["C_InitPIN"] = Update
    BY DaemonLookup, DaemonDomains DEF DaemonSessionCalls
  <2> QED
    BY <2>1, <2>2, <2>3, UpdateAgrees DEF Special
<1>18. A("C_DigestUpdate")
  <2>1. gck_rpc_calls["C_DigestUpdate"] = UpdateSig
    BY DEF gck_rpc_calls
  <2>2. ClientStubs["C_DigestUpdate"] = Update
    BY ClientLookup, ClientDomains DEF ClientSignCalls
  <2>3. DaemonStubs["C_DigestUpdate"] = Update
    BY DaemonLookup, DaemonDomains DEF DaemonDigestCalls
  <2> QED
    BY <2>1, <2>2, <2>3, UpdateAgrees DEF Special
<1>19. A("C_VerifyUpdate")
  <2>1. gck_rpc_calls["C_VerifyUpdate"] = UpdateSig
    BY DEF gck_rpc_calls
  <2>2. ClientStubs["C_VerifyUpdate"] = Update
    BY ClientLookup, ClientDomains DEF ClientVerifyCalls
  <2>3. DaemonStubs["C_VerifyUpdate"] = Update
    BY DaemonLookup, DaemonDomains DEF DaemonVerifyCalls
  <2> QED
    BY <2>1, <2>2, <2>3, UpdateAgrees DEF Special
<1>20. A("C_VerifyFinal")
  <2>1. gck_rpc_calls["C_VerifyFinal"] = UpdateSig
    BY DEF gck_rpc_calls
  <2>2. ClientStubs["C_VerifyFinal"] = Update
    BY ClientLookup, ClientDomains DEF ClientVerifyCalls
  <2>3. DaemonStubs["C_VerifyFinal"] = Update
    BY DaemonLookup, DaemonDomains DEF DaemonVerifyCalls
  <2> QED
    BY <2>1, <2>2, <2>3, UpdateAgrees DEF Special
<1>21. A("C_SeedRandom")
  <2>1. gck_rpc_calls["C_SeedRandom"] = UpdateSig
    BY DEF gck_rpc_calls
  <2>2. ClientStubs["C_SeedRandom"] = Update
    BY ClientLookup, ClientDomains DEF ClientKeyCalls
  <2>3. DaemonStubs["C_SeedRandom"] = Update
    BY DaemonLookup, DaemonDomains DEF DaemonKeyCalls
  <2> QED
    BY <2>1, <2>2, <2>3, UpdateAgrees DEF Special
<1>22. A("C_SetPIN")
  <2>1. gck_rpc_calls["C_SetPIN"] = Sig(<<"u", "ay", "ay">>, <<>>)
    BY DEF gck_rpc_calls
  <2>2. ClientStubs["C_SetPIN"] = Stub(<<IN_ULONG(1), IN_BYTE_ARRAY(2), IN_BYTE_ARRAY(3)>>, <<>>)
    BY ClientLookup, ClientDomains DEF ClientSessionCalls
  <2>3. DaemonStubs["C_SetPIN"] = Stub(<<IN_ULONG(1), IN_BYTE_ARRAY(2), IN_BYTE_ARRAY(3)>>, <<>>)
    BY DaemonLookup, DaemonDomains DEF DaemonSessionCalls
  <2> QED
    BY <2>1, <2>2, <2>3, TwoArraysAgree DEF Special
<1>23. A("C_Verify")
  <2>1. gck_rpc_calls["C_Verify"] = Sig(<<"u", "ay", "ay">>, <<>>)
    BY DEF gck_rpc_calls
  <2>2. ClientStubs["C_Verify"] = Stub(<<IN_ULONG(1), IN_BYTE_ARRAY(2), IN_BYTE_ARRAY(3)>>, <<>>)
    BY ClientLookup, ClientDomains DEF ClientVerifyCalls
  <2>3. DaemonStubs["C_Verify"] = Stub(<<IN_ULONG(1), IN_BYTE_ARRAY(2), IN_BYTE_ARRAY(3)>>, <<>>)
    BY DaemonLookup, DaemonDomains DEF DaemonVerifyCalls
  <2> QED
    BY <2>1, <2>2, <2>3, TwoArraysAgree DEF Special
<1>24. A("C_GetOperationState")
  <2>1. gck_rpc_calls["C_GetOperationState"] = FinalSig
    BY DEF gck_rpc_calls
  <2>2. ClientStubs["C_GetOperationState"] = Final
    BY ClientLookup, ClientDomains DEF ClientSessionCalls
  <2>3. DaemonStubs["C_GetOperationState"] = Final
    BY DaemonLookup, DaemonDomains DEF DaemonSessionCalls
  <2> QED
    BY <2>1, <2>2, <2>3, FinalAgrees DEF Special
<1>25. A("C_EncryptFinal")
  <2>1. gck_rpc_calls["C_EncryptFinal"] = FinalSig
    BY DEF gck_rpc_calls
  <2>2. ClientStubs["C_EncryptFinal"] = Final
    BY ClientLookup, ClientDomains DEF ClientCipherCalls
  <2>3. DaemonStubs["C_EncryptFinal"] = Final
    BY DaemonLookup, DaemonDomains DEF DaemonCipherCalls
  <2> QED
    BY <2>1, <2>2, <2>3, FinalAgrees DEF Special
<1>26. A("C_DecryptFinal")
  <2>1. gck_rpc_calls["C_DecryptFinal"] = FinalSig
    BY DEF gck_rpc_calls
  <2>2. ClientStubs["C_DecryptFinal"] = Final
    BY ClientLookup, ClientDomains DEF ClientCipherCalls
  <2>3. DaemonStubs["C_DecryptFinal"] = Final
    BY DaemonLookup, DaemonDomains DEF DaemonDigestCalls
  <2> QED
    BY <2>1, <2>2, <2>3, FinalAgrees DEF Special
<1>27. A("C_DigestFinal")
  <2>1. gck_rpc_calls["C_DigestFinal"] = FinalSig
    BY DEF gck_rpc_calls
  <2>2. ClientStubs["C_DigestFinal"] = Final
    BY ClientLookup, ClientDomains DEF ClientSignCalls
  <2>3. DaemonStubs["C_DigestFinal"] = Final
    BY DaemonLookup, DaemonDomains DEF DaemonDigestCalls
  <2> QED
    BY <2>1, <2>2, <2>3, FinalAgrees DEF Special
<1>28. A("C_SignFinal")
  <2>1. gck_rpc_calls["C_SignFinal"] = FinalSig
    BY DEF gck_rpc_calls
  <2>2. ClientStubs["C_SignFinal"] = Final
    BY ClientLookup, ClientDomains DEF ClientSignCalls
  <2>3. DaemonStubs["C_SignFinal"] = Final
    BY DaemonLookup, DaemonDomains DEF DaemonDigestCalls
  <2> QED
    BY <2>1, <2>2, <2>3, FinalAgrees DEF Special
<1>29. A("C_SetOperationState")
  <2>1. gck_rpc_calls["C_SetOperationState"] = Sig(<<"u", "ay", "u", "u">>, <<>>)
    BY DEF gck_rpc_calls
  <2>2. ClientStubs["C_SetOperationState"] = Stub(<<IN_ULONG(1), IN_BYTE_ARRAY(2), IN_ULONG(3),
          IN_ULONG(4)>>, <<>>)
    BY ClientLookup, ClientDomains DEF ClientSessionCalls
  <2>3. DaemonStubs["C_SetOperationState"] = Stub(<<IN_ULONG(1), IN_BYTE_ARRAY(2), IN_ULONG(3),
          IN_ULONG(4)>>, <<>>)
    BY DaemonLookup, DaemonDomains DEF DaemonObjectCalls
  <2> QED
    BY <2>1, <2>2, <2>3, SetOperationStateAgrees
<1>30. A("C_Login")
  <2>1. gck_rpc_calls["C_Login"] = Sig(<<"u", "u", "ay">>, <<>>)
    BY DEF gck_rpc_calls
  <2>2. ClientStubs["C_Login"] = Stub(<<IN_ULONG(1), IN_ULONG(2), IN_BYTE_ARRAY(3)>>, <<>>)
    BY ClientLookup, ClientDomains DEF ClientSessionCalls
  <2>3. DaemonStubs["C_Login"] = Stub(<<IN_ULONG(1), IN_ULONG(2), IN_BYTE_ARRAY(3)>>, <<>>)
    BY DaemonLookup, DaemonDomains DEF DaemonObjectCalls
  <2> QED
    BY <2>1, <2>2, <2>3, LoginAgrees
<1>31. A("C_CreateObject")
  <2>1. gck_rpc_calls["C_CreateObject"] = Sig(<<"u", "aA">>, <<"u">>)
    BY DEF gck_rpc_calls
  <2>2. ClientStubs["C_CreateObject"] = CheckedStub({<<"handle", 1>>, <<"ptr", 2>>, <<"ptr", 3>>},
          <<IN_ULONG(1), IN_ATTRIBUTE_ARRAY(2)>>, <<OUT_ULONG(3)>>)
    BY ClientLookup, ClientDomains DEF ClientObjectCalls
  <2>3. DaemonStubs["C_CreateObject"] = Stub(<<IN_ULONG(1), IN_ATTRIBUTE_ARRAY(2)>>, <<OUT_ULONG(3)>>)
    BY DaemonLookup, DaemonDomains DEF DaemonObjectCalls
  <2> QED
    BY <2>1, <2>2, <2>3, CreateObjectAgrees
<1>32. A("C_CopyObject")
  <2>1. gck_rpc_calls["C_CopyObject"] = Sig(<<"u", "u", "aA">>, <<"u">>)
    BY DEF gck_rpc_calls
  <2>2. ClientStubs["C_CopyObject"] = CheckedStub({<<"ptr", 4>>},
          <<IN_ULONG(1), IN_ULONG(2), IN_ATTRIBUTE_ARRAY(3)>>, <<OUT_ULONG(4)>>)
    BY ClientLookup, ClientDomains DEF ClientObjectCalls
  <2>3. DaemonStubs["C_CopyObject"] = Stub(<<IN_ULONG(1), IN_ULONG(2), IN_ATTRIBUTE_ARRAY(3)>>,
          <<OUT_ULONG(4)>>)
    BY DaemonLookup, DaemonDomains DEF DaemonObjectCalls
  <2> QED
    BY <2>1, <2>2, <2>3, CopyObjectAgrees
<1>33. A("C_DestroyObject")
  <2>1. gck_rpc_calls["C_DestroyObject"] = HandlesSig
    BY DEF gck_rpc_calls
  <2>2. ClientStubs["C_DestroyObject"] = Handles
    BY ClientLookup, ClientDomains DEF ClientObjectCalls
  <2>3. DaemonStubs["C_DestroyObject"] = Handles
    BY DaemonLookup, DaemonDomains DEF DaemonObjectCalls
  <2> QED
    BY <2>1, <2>2, <2>3, HandlesAgrees DEF Special
<1>34. A("C_DigestKey")
  <2>1. gck_rpc_calls["C_DigestKey"] = HandlesSig
    BY DEF gck_rpc_calls
  <2>2. ClientStubs["C_DigestKey"] = Handles
    BY ClientLookup, ClientDomains DEF ClientSignCalls
  <2>3. DaemonStubs["C_DigestKey"] = Handles
    BY DaemonLookup, DaemonDomains DEF DaemonDigestCalls
  <2> QED
    BY <2>1, <2>2, <2>3, HandlesAgrees DEF Special
<1>35. A("C_GetObjectSize")
  <2>1. gck_rpc_calls["C_GetObjectSize"] = Sig(<<"u", "u">>, <<"u">>)
    BY DEF gck_rpc_calls
  <2>2. ClientStubs["C_GetObjectSize"] = CheckedStub({<<"ptr", 3>>}, <<IN_ULONG(1), IN_ULONG(2)>>,
          <<OUT_ULONG(3)>>)
    BY ClientLookup, ClientDomains DEF ClientObjectCalls
  <2>3. DaemonStubs["C_GetObjectSize"] = Stub(<<IN_ULONG(1), IN_ULONG(2)>>, <<OUT_ULONG(3)>>)
    BY DaemonLookup, DaemonDomains DEF DaemonObjectCalls
  <2> QED
    BY <2>1, <2>2, <2>3, GetObjectSizeAgrees
<1>36. A("C_GetAttributeValue")
  <2>1. gck_rpc_calls["C_GetAttributeValue"] = Sig(<<"u", "u", "fA">>, <<"aA", "u">>)
    BY DEF gck_rpc_calls
  <2>2. ClientStubs["C_GetAttributeValue"] = CheckedStub({<<"ptr", 3>>},
          <<IN_ULONG(1), IN_ULONG(2), IN_ATTRIBUTE_BUFFER(3)>>, <<OUT_ATTRIBUTE_ARRAY(3)>>)
    BY ClientLookup, ClientDomains DEF ClientObjectCalls
  <2>3. DaemonStubs["C_GetAttributeValue"] = Stub(<<IN_ULONG(1), IN_ULONG(2),
          IN_ATTRIBUTE_BUFFER(3)>>, <<OUT_ATTRIBUTE_ARRAY(3)>>)
    BY DaemonLookup, DaemonDomains DEF DaemonObjectCalls
  <2> QED
    BY <2>1, <2>2, <2>3, GetAttributeValueAgrees
<1>37. A("C_SetAttributeValue")
  <2>1. gck_rpc_calls["C_SetAttributeValue"] = Sig(<<"u", "u", "aA">>, <<>>)
    BY DEF gck_rpc_calls
  <2>2. ClientStubs["C_SetAttributeValue"] = Stub(<<IN_ULONG(1), IN_ULONG(2),
          IN_ATTRIBUTE_ARRAY(3)>>, <<>>)
    BY ClientLookup, ClientDomains DEF ClientObjectCalls
  <2>3. DaemonStubs["C_SetAttributeValue"] = Stub(<<IN_ULONG(1), IN_ULONG(2),
          IN_ATTRIBUTE_ARRAY(3)>>, <<>>)
    BY DaemonLookup, DaemonDomains DEF DaemonObjectCalls
  <2> QED
    BY <2>1, <2>2, <2>3, SetAttributeValueAgrees
<1>38. A("C_FindObjectsInit")
  <2>1. gck_rpc_calls["C_FindObjectsInit"] = Sig(<<"u", "aA">>, <<>>)
    BY DEF gck_rpc_calls
  <2>2. ClientStubs["C_FindObjectsInit"] = Stub(<<IN_ULONG(1), IN_ATTRIBUTE_ARRAY(2)>>, <<>>)
    BY ClientLookup, ClientDomains DEF ClientObjectCalls
  <2>3. DaemonStubs["C_FindObjectsInit"] = Stub(<<IN_ULONG(1), IN_ATTRIBUTE_ARRAY(2)>>, <<>>)
    BY DaemonLookup, DaemonDomains DEF DaemonCipherCalls
  <2> QED
    BY <2>1, <2>2, <2>3, FindObjectsInitAgrees
<1>39. A("C_FindObjects")
  <2>1. gck_rpc_calls["C_FindObjects"] = Sig(<<"u", "fu">>, <<"au">>)
    BY DEF gck_rpc_calls
  <2>2. ClientStubs["C_FindObjects"] = CheckedStub({<<"count", 2>>},
          <<IN_ULONG(1), IN_ULONG_BUFFER(2)>>, <<OUT_ULONG_ARRAY(2)>>)
    BY ClientLookup, ClientDomains DEF ClientObjectCalls
  <2>3. DaemonStubs["C_FindObjects"] = Stub(<<IN_ULONG(1), IN_ULONG_BUFFER(2)>>, <<OUT_ULONG_ARRAY(2)>>)
    BY DaemonLookup, DaemonDomains DEF DaemonCipherCalls
  <2> QED
    BY <2>1, <2>2, <2>3, FindObjectsAgrees
<1>40. A("C_EncryptInit")
  <2>1. gck_rpc_calls["C_EncryptInit"] = StartSig
    BY DEF gck_rpc_calls
  <2>2. ClientStubs["C_EncryptInit"] = Start
    BY ClientLookup, ClientDomains DEF ClientCipherCalls
  <2>3. DaemonStubs["C_EncryptInit"] = Start
    BY DaemonLookup, DaemonDomains DEF DaemonCipherCalls
  <2> QED
    BY <2>1, <2>2, <2>3, StartAgrees DEF Special
<1>41. A("C_DecryptInit")
  <2>1. gck_rpc_calls["C_DecryptInit"] = StartSig
    BY DEF gck_rpc_calls
  <2>2. ClientStubs["C_DecryptInit"] = Start
    BY ClientLookup, ClientDomains DEF ClientCipherCalls
  <2>3. DaemonStubs["C_DecryptInit"] = Start
    BY DaemonLookup, DaemonDomains DEF DaemonCipherCalls
  <2> QED
    BY <2>1, <2>2, <2>3, StartAgrees DEF Special
<1>42. A("C_SignInit")
  <2>1. gck_rpc_calls["C_SignInit"] = StartSig
    BY DEF gck_rpc_calls
  <2>2. ClientStubs["C_SignInit"] = Start
    BY ClientLookup, ClientDomains DEF ClientSignCalls
  <2>3. DaemonStubs["C_SignInit"] = Start
    BY DaemonLookup, DaemonDomains DEF DaemonDigestCalls
  <2> QED
    BY <2>1, <2>2, <2>3, StartAgrees DEF Special
<1>43. A("C_SignRecoverInit")
  <2>1. gck_rpc_calls["C_SignRecoverInit"] = StartSig
    BY DEF gck_rpc_calls
  <2>2. ClientStubs["C_SignRecoverInit"] = Start
    BY ClientLookup, ClientDomains DEF ClientSignCalls
  <2>3. DaemonStubs["C_SignRecoverInit"] = Start
    BY DaemonLookup, DaemonDomains DEF DaemonVerifyCalls
  <2> QED
    BY <2>1, <2>2, <2>3, StartAgrees DEF Special
<1>44. A("C_VerifyInit")
  <2>1. gck_rpc_calls["C_VerifyInit"] = StartSig
    BY DEF gck_rpc_calls
  <2>2. ClientStubs["C_VerifyInit"] = Start
    BY ClientLookup, ClientDomains DEF ClientVerifyCalls
  <2>3. DaemonStubs["C_VerifyInit"] = Start
    BY DaemonLookup, DaemonDomains DEF DaemonVerifyCalls
  <2> QED
    BY <2>1, <2>2, <2>3, StartAgrees DEF Special
<1>45. A("C_VerifyRecoverInit")
  <2>1. gck_rpc_calls["C_VerifyRecoverInit"] = StartSig
    BY DEF gck_rpc_calls
  <2>2. ClientStubs["C_VerifyRecoverInit"] = Start
    BY ClientLookup, ClientDomains DEF ClientVerifyCalls
  <2>3. DaemonStubs["C_VerifyRecoverInit"] = Start
    BY DaemonLookup, DaemonDomains DEF DaemonVerifyCalls
  <2> QED
    BY <2>1, <2>2, <2>3, StartAgrees DEF Special
<1>46. A("C_Encrypt")
  <2>1. gck_rpc_calls["C_Encrypt"] = TransformSig
    BY DEF gck_rpc_calls
  <2>2. ClientStubs["C_Encrypt"] = Transform
    BY ClientLookup, ClientDomains DEF ClientCipherCalls
  <2>3. DaemonStubs["C_Encrypt"] = Transform
    BY DaemonLookup, DaemonDomains DEF DaemonCipherCalls
  <2> QED
    BY <2>1, <2>2, <2>3, TransformAgrees DEF Special
<1>47. A("C_EncryptUpdate")
  <2>1. gck_rpc_calls["C_EncryptUpdate"] = TransformSig
    BY DEF gck_rpc_calls
  <2>2. ClientStubs["C_EncryptUpdate"] = Transform
    BY ClientLookup, ClientDomains DEF ClientCipherCalls
  <2>3. DaemonStubs["C_EncryptUpdate"] = Transform
    BY DaemonLookup, DaemonDomains DEF DaemonCipherCalls
  <2> QED
    BY <2>1, <2>2, <2>3, TransformAgrees DEF Special
<1>48. A("C_Decrypt")
  <2>1. gck_rpc_calls["C_Decrypt"] = TransformSig
    BY DEF gck_rpc_calls
  <2>2. ClientStubs["C_Decrypt"] = Transform
    BY ClientLookup, ClientDomains DEF ClientCipherCalls
  <2>3. DaemonStubs["C_Decrypt"] = Transform
    BY DaemonLookup, DaemonDomains DEF DaemonCipherCalls
  <2> QED
    BY <2>1, <2>2, <2>3, TransformAgrees DEF Special
<1>49. A("C_DecryptUpdate")
  <2>1. gck_rpc_calls["C_DecryptUpdate"] = TransformSig
    BY DEF gck_rpc_calls
  <2>2. ClientStubs["C_DecryptUpdate"] = Transform
    BY ClientLookup, ClientDomains DEF ClientCipherCalls
  <2>3. DaemonStubs["C_DecryptUpdate"] = Transform
    BY DaemonLookup, DaemonDomains DEF DaemonCipherCalls
  <2> QED
    BY <2>1, <2>2, <2>3, TransformAgrees DEF Special
<1>50. A("C_Digest")
  <2>1. gck_rpc_calls["C_Digest"] = TransformSig
    BY DEF gck_rpc_calls
  <2>2. ClientStubs["C_Digest"] = Transform
    BY ClientLookup, ClientDomains DEF ClientSignCalls
  <2>3. DaemonStubs["C_Digest"] = Transform
    BY DaemonLookup, DaemonDomains DEF DaemonDigestCalls
  <2> QED
    BY <2>1, <2>2, <2>3, TransformAgrees DEF Special
<1>51. A("C_Sign")
  <2>1. gck_rpc_calls["C_Sign"] = TransformSig
    BY DEF gck_rpc_calls
  <2>2. ClientStubs["C_Sign"] = Transform
    BY ClientLookup, ClientDomains DEF ClientSignCalls
  <2>3. DaemonStubs["C_Sign"] = Transform
    BY DaemonLookup, DaemonDomains DEF DaemonDigestCalls
  <2> QED
    BY <2>1, <2>2, <2>3, TransformAgrees DEF Special
<1>52. A("C_SignRecover")
  <2>1. gck_rpc_calls["C_SignRecover"] = TransformSig
    BY DEF gck_rpc_calls
  <2>2. ClientStubs["C_SignRecover"] = Transform
    BY ClientLookup, ClientDomains DEF ClientSignCalls
  <2>3. DaemonStubs["C_SignRecover"] = Transform
    BY DaemonLookup, DaemonDomains DEF DaemonVerifyCalls
  <2> QED
    BY <2>1, <2>2, <2>3, TransformAgrees DEF Special
<1>53. A("C_VerifyRecover")
  <2>1. gck_rpc_calls["C_VerifyRecover"] = TransformSig
    BY DEF gck_rpc_calls
  <2>2. ClientStubs["C_VerifyRecover"] = Transform
    BY ClientLookup, ClientDomains DEF ClientVerifyCalls
  <2>3. DaemonStubs["C_VerifyRecover"] = Transform
    BY DaemonLookup, DaemonDomains DEF DaemonVerifyCalls
  <2> QED
    BY <2>1, <2>2, <2>3, TransformAgrees DEF Special
<1>54. A("C_DigestEncryptUpdate")
  <2>1. gck_rpc_calls["C_DigestEncryptUpdate"] = TransformSig
    BY DEF gck_rpc_calls
  <2>2. ClientStubs["C_DigestEncryptUpdate"] = Transform
    BY ClientLookup, ClientDomains DEF ClientVerifyCalls
  <2>3. DaemonStubs["C_DigestEncryptUpdate"] = Transform
    BY DaemonLookup, DaemonDomains DEF DaemonDualCalls
  <2> QED
    BY <2>1, <2>2, <2>3, TransformAgrees DEF Special
<1>55. A("C_DecryptDigestUpdate")
  <2>1. gck_rpc_calls["C_DecryptDigestUpdate"] = TransformSig
    BY DEF gck_rpc_calls
  <2>2. ClientStubs["C_DecryptDigestUpdate"] = Transform
    BY ClientLookup, ClientDomains DEF ClientVerifyCalls
  <2>3. DaemonStubs["C_DecryptDigestUpdate"] = Transform
    BY DaemonLookup, DaemonDomains DEF DaemonDualCalls
  <2> QED
    BY <2>1, <2>2, <2>3, TransformAgrees DEF Special
<1>56. A("C_SignEncryptUpdate")
  <2>1. gck_rpc_calls["C_SignEncryptUpdate"] = TransformSig
    BY DEF gck_rpc_calls
  <2>2. ClientStubs["C_SignEncryptUpdate"] = Transform
    BY ClientLookup, ClientDomains DEF ClientVerifyCalls
  <2>3. DaemonStubs["C_SignEncryptUpdate"] = Transform
    BY DaemonLookup, DaemonDomains DEF DaemonDualCalls
  <2> QED
    BY <2>1, <2>2, <2>3, TransformAgrees DEF Special
<1>57. A("C_DecryptVerifyUpdate")
  <2>1. gck_rpc_calls["C_DecryptVerifyUpdate"] = TransformSig
    BY DEF gck_rpc_calls
  <2>2. ClientStubs["C_DecryptVerifyUpdate"] = Transform
    BY ClientLookup, ClientDomains DEF ClientVerifyCalls
  <2>3. DaemonStubs["C_DecryptVerifyUpdate"] = Transform
    BY DaemonLookup, DaemonDomains DEF DaemonDualCalls
  <2> QED
    BY <2>1, <2>2, <2>3, TransformAgrees DEF Special
<1>58. A("C_DigestInit")
  <2>1. gck_rpc_calls["C_DigestInit"] = Sig(<<"u", "M">>, <<>>)
    BY DEF gck_rpc_calls
  <2>2. ClientStubs["C_DigestInit"] = Stub(<<IN_ULONG(1), IN_MECHANISM(2)>>, <<>>)
    BY ClientLookup, ClientDomains DEF ClientCipherCalls
  <2>3. DaemonStubs["C_DigestInit"] = Stub(<<IN_ULONG(1), IN_MECHANISM(2)>>, <<>>)
    BY DaemonLookup, DaemonDomains DEF DaemonDigestCalls
  <2> QED
    BY <2>1, <2>2, <2>3, DigestInitAgrees
<1>59. A("C_SignUpdate")
  <2>1. gck_rpc_calls["C_SignUpdate"] = UpdateSig
    BY DEF gck_rpc_calls
  <2>2. ClientStubs["C_SignUpdate"] = CheckedStub({<<"len", 2>>}, Update.in, Update.out)
    BY ClientLookup, ClientDomains DEF ClientSignCalls
  <2>3. DaemonStubs["C_SignUpdate"] = Update
    BY DaemonLookup, DaemonDomains DEF DaemonDigestCalls
  <2> QED
    BY <2>1, <2>2, <2>3, SignUpdateAgrees
<1>60. A("C_GenerateKey")
  <2>1. gck_rpc_calls["C_GenerateKey"] = Sig(<<"u", "M", "aA">>, <<"u">>)
    BY DEF gck_rpc_calls
  <2>2. ClientStubs["C_GenerateKey"] = Stub(<<IN_ULONG(1), IN_MECHANISM(2), IN_ATTRIBUTE_ARRAY(3)>>,
          <<OUT_ULONG(4)>>)
    BY ClientLookup, ClientDomains DEF ClientKeyCalls
  <2>3. DaemonStubs["C_GenerateKey"] = Stub(<<IN_ULONG(1), IN_MECHANISM(2), IN_ATTRIBUTE_ARRAY(3)>>,
          <<OUT_ULONG(4)>>)
    BY DaemonLookup, DaemonDomains DEF DaemonDualCalls
  <2> QED
    BY <2>1, <2>2, <2>3, GenerateKeyAgrees
<1>61. A("C_GenerateKeyPair")
  <2>1. gck_rpc_calls["C_GenerateKeyPair"] = Sig(<<"u", "M", "aA", "aA">>, <<"u", "u">>)
    BY DEF gck_rpc_calls
  <2>2. ClientStubs["C_GenerateKeyPair"] = CheckedStub({<<"handle", 1>>} \cup {<<"ptr",
          n>> : n \in 2 .. 6}, <<IN_ULONG(1), IN_MECHANISM(2), IN_ATTRIBUTE_ARRAY(3),
          IN_ATTRIBUTE_ARRAY(4)>>, <<OUT_ULONG(5), OUT_ULONG(6)>>)
    BY ClientLookup, ClientDomains DEF ClientKeyCalls
  <2>3. DaemonStubs["C_GenerateKeyPair"] = Stub(<<IN_ULONG(1), IN_MECHANISM(2),
          IN_ATTRIBUTE_ARRAY(3), IN_ATTRIBUTE_ARRAY(4)>>, <<OUT_ULONG(5), OUT_ULONG(6)>>)
    BY DaemonLookup, DaemonDomains DEF DaemonDualCalls
  <2> QED
    BY <2>1, <2>2, <2>3, GenerateKeyPairAgrees
<1>62. A("C_WrapKey")
  <2>1. gck_rpc_calls["C_WrapKey"] = Sig(<<"u", "M", "u", "u", "fy">>, <<"ay">>)
    BY DEF gck_rpc_calls
  <2>2. ClientStubs["C_WrapKey"] = Stub(<<IN_ULONG(1), IN_MECHANISM(2), IN_ULONG(3), IN_ULONG(4),
          IN_BYTE_BUFFER(5)>>, <<OUT_BYTE_ARRAY(5)>>)
    BY ClientLookup, ClientDomains DEF ClientKeyCalls
  <2>3. DaemonStubs["C_WrapKey"] = Stub(<<IN_ULONG(1), IN_MECHANISM(2), IN_ULONG(3), IN_ULONG(4),
          IN_BYTE_BUFFER(5)>>, <<OUT_BYTE_ARRAY(5)>>)
    BY DaemonLookup, DaemonDomains DEF DaemonKeyCalls
  <2> QED
    BY <2>1, <2>2, <2>3, WrapKeyAgrees
<1>63. A("C_UnwrapKey")
  <2>1. gck_rpc_calls["C_UnwrapKey"] = Sig(<<"u", "M", "u", "ay", "aA">>, <<"u">>)
    BY DEF gck_rpc_calls
  <2>2. ClientStubs["C_UnwrapKey"] = Stub(<<IN_ULONG(1), IN_MECHANISM(2), IN_ULONG(3),
          IN_BYTE_ARRAY(4), IN_ATTRIBUTE_ARRAY(5)>>, <<OUT_ULONG(6)>>)
    BY ClientLookup, ClientDomains DEF ClientKeyCalls
  <2>3. DaemonStubs["C_UnwrapKey"] = Stub(<<IN_ULONG(1), IN_MECHANISM(2), IN_ULONG(3),
          IN_BYTE_ARRAY(4), IN_ATTRIBUTE_ARRAY(5)>>, <<OUT_ULONG(6)>>)
    BY DaemonLookup, DaemonDomains DEF DaemonKeyCalls
  <2> QED
    BY <2>1, <2>2, <2>3, UnwrapKeyAgrees
<1>64. A("C_DeriveKey")
  <2>1. gck_rpc_calls["C_DeriveKey"] = Sig(<<"u", "M", "u", "aA">>, <<"u">>)
    BY DEF gck_rpc_calls
  <2>2. ClientStubs["C_DeriveKey"] = Stub(<<IN_ULONG(1), IN_MECHANISM(2), IN_ULONG(3),
          IN_ATTRIBUTE_ARRAY(4)>>, <<OUT_ULONG(5)>>)
    BY ClientLookup, ClientDomains DEF ClientKeyCalls
  <2>3. DaemonStubs["C_DeriveKey"] = Stub(<<IN_ULONG(1), IN_MECHANISM(2), IN_ULONG(3),
          IN_ATTRIBUTE_ARRAY(4)>>, <<OUT_ULONG(5)>>)
    BY DaemonLookup, DaemonDomains DEF DaemonKeyCalls
  <2> QED
    BY <2>1, <2>2, <2>3, DeriveKeyAgrees
<1>65. A("C_GenerateRandom")
  <2>1. gck_rpc_calls["C_GenerateRandom"] = FinalSig
    BY DEF gck_rpc_calls
  <2>2. ClientStubs["C_GenerateRandom"] = CheckedStub({<<"ptr", 2>>}, Final.in, Final.out)
    BY ClientLookup, ClientDomains DEF ClientKeyCalls
  <2>3. DaemonStubs["C_GenerateRandom"] = CheckedStub({<<"count", 2>>}, Final.in, Final.out)
    BY DaemonLookup, DaemonDomains DEF DaemonKeyCalls
  <2> QED
    BY <2>1, <2>2, <2>3, GenerateRandomAgrees
<1> HIDE DEF A
<1>66. A(c)
  BY <1>0, <1>1, <1>2, <1>3, <1>4, <1>5, <1>6, <1>7, <1>8, <1>9, <1>10, <1>11, <1>12, <1>13, <1>14,
       <1>15, <1>16, <1>17, <1>18, <1>19, <1>20, <1>21, <1>22, <1>23, <1>24, <1>25, <1>26, <1>27,
       <1>28, <1>29, <1>30, <1>31, <1>32, <1>33, <1>34, <1>35, <1>36, <1>37, <1>38, <1>39, <1>40,
       <1>41, <1>42, <1>43, <1>44, <1>45, <1>46, <1>47, <1>48, <1>49, <1>50, <1>51, <1>52, <1>53,
       <1>54, <1>55, <1>56, <1>57, <1>58, <1>59, <1>60, <1>61, <1>62, <1>63, <1>64, <1>65
<1> QED
  BY <1>66 DEF A

-----------------------------------------------------------------------------
(* The parts of a message that are still to come.                          *)

\* The number of outputs of a call, the parts that each of them takes (a call
\* has one output, or two numbers), what is left of the response before output
\* i, and what is left of a sequence from i on.
ClientLen(c) == Len(ClientStubs[c].out)
Slice(c)     == IF ClientLen(c) = 1 THEN gck_rpc_calls[c].response ELSE <<"u">>
Rest(c, i)   == IF i > ClientLen(c) THEN <<>>
                ELSE IF i = 1 THEN gck_rpc_calls[c].response ELSE <<"u">>
Later(s, i)  == SubSeq(s, i, Len(s))

\* A message begins with its first part.
LEMMA FirstPart ==
  ASSUME NEW s \in Seq(PartNames), Len(s) >= 1
  PROVE  IsPrefix(<<s[1]>>, s)
<1> DEFINE q == <<s[1]>>
<1>1. q \in Seq(PartNames) /\ Len(q) = 1 /\ q[1] = s[1]
  OBVIOUS
<1> HIDE DEF q
<1>2. /\ SubSeq(q, 1, 1) \in Seq(PartNames) /\ SubSeq(s, 1, 1) \in Seq(PartNames)
      /\ Len(SubSeq(q, 1, 1)) = 1 /\ Len(SubSeq(s, 1, 1)) = 1
      /\ SubSeq(q, 1, 1)[1] = SubSeq(s, 1, 1)[1]
  BY <1>1, SubSeqProperties
<1>3. SubSeq(q, 1, 1) = SubSeq(s, 1, 1)
  BY <1>2, SeqEqual
<1> QED
  BY <1>1, <1>3 DEF IsPrefix, q

\* A response with two numbers is read one by one.
LEMMA TwoNumbers ==
  ASSUME NEW q, NEW o, q = <<"u", "u">>, o = <<"u">>
  PROVE  /\ q \in Seq(PartNames) /\ o \in Seq(PartNames) /\ Len(q) = 2 /\ Len(o) = 1
         /\ IsPrefix(o, q) /\ SubSeq(q, Len(o) + 1, Len(q)) = o
<1>1. /\ q \in Seq(PartNames) /\ Len(q) = 2 /\ q[1] = "u" /\ q[2] = "u"
      /\ o \in Seq(PartNames) /\ Len(o) = 1 /\ o[1] = "u"
  BY DEF PartNames
<1> DEFINE a == q  b == o
<1>3. /\ a \in Seq(PartNames) /\ Len(a) = 2 /\ a[2] = "u"
      /\ b \in Seq(PartNames) /\ Len(b) = 1 /\ b[1] = "u"
  BY <1>1
<1>6. b = <<a[1]>>
  BY <1>1
<1> HIDE DEF a, b
<1>2. IsPrefix(b, a)
  BY <1>3, <1>6, FirstPart
<1>4. SubSeq(a, 2, 2) \in Seq(PartNames) /\ Len(SubSeq(a, 2, 2)) = 1 /\ SubSeq(a, 2, 2)[1] = b[1]
  BY <1>3, SubSeqProperties
<1>5. SubSeq(a, Len(b) + 1, Len(a)) = b
  BY <1>3, <1>4, SeqEqual
<1> QED
  BY <1>1, <1>2, <1>5 DEF a, b

\* After a part come the parts after it.
LEMMA AfterPart ==
  ASSUME NEW s \in Seq(PartNames), NEW i \in 1 .. Len(s)
  PROVE  /\ IsPrefix(<<s[i]>>, Later(s, i))
         /\ SubSeq(Later(s, i), Len(<<s[i]>>) + 1, Len(Later(s, i))) = Later(s, i + 1)
<1>1. Later(s, i) \in Seq(PartNames) /\ Len(Later(s, i)) = Len(s) - i + 1
  BY DEF Later
<1>2. \A j \in 1 .. Len(Later(s, i)) : Later(s, i)[j] = s[j + i - 1]
  BY DEF Later
<1>3. s[i] \in PartNames /\ Later(s, i)[1] = s[i]
  BY <1>1, <1>2
<1>4. IsPrefix(<<s[i]>>, Later(s, i))
  BY <1>1, <1>3, FirstPart
<1>5. SubSeq(Later(s, i), 2, Len(Later(s, i))) = Later(s, i + 1)
  BY <1>1, <1>2 DEF Later
<1> QED
  BY <1>4, <1>5

\* All the parts come after the first, and none after the last.
LEMMA AllParts ==
  ASSUME NEW s \in Seq(PartNames)
  PROVE  Later(s, 1) = s /\ Later(s, Len(s) + 1) = <<>>
  BY DEF Later

\* A sequence is what it begins with, ...
LEMMA Whole ==
  ASSUME NEW s \in Seq(PartNames)
  PROVE  IsPrefix(s, s) /\ SubSeq(s, Len(s) + 1, Len(s)) = <<>>
  BY DEF IsPrefix

\* ... and begins with nothing.
LEMMA NoParts ==
  ASSUME NEW s \in Seq(PartNames)
  PROVE  IsPrefix(<<>>, s) /\ SubSeq(s, Len(<<>>) + 1, Len(s)) = s
  BY DEF IsPrefix

\* Both sides list the same fields of the information structures.
LEMMA InfoTables == ClientFields = DaemonFields
  BY DEF ClientFields, DaemonFields, proto_write_info, proto_read_info, proto_write_slot_info,
         proto_read_slot_info, proto_write_token_info, proto_read_token_info,
         proto_write_mechanism_info, proto_read_mechanism_info, proto_write_session_info,
         proto_read_sesssion_info

\* The macros of the information structures.
LEMMA InfoNames ==
  InfoMacros = {"INFO", "SLOT_INFO", "TOKEN_INFO", "MECHANISM_INFO", "SESSION_INFO"}
  BY DEF InfoMacros, DaemonFields

\* The part of each kind of field.
LEMMA FieldShape ==
  ASSUME NEW x
  PROVE  /\ U(x).part = "u" /\ V(x).part = "v"
         /\ \A y : S(x, y).part = "s"
  BY DEF U, V, S

\* The fields of an information structure are written as parts.
LEMMA InfoParts ==
  ASSUME NEW m \in InfoMacros
  PROVE  [i \in DOMAIN DaemonFields[m] |-> DaemonFields[m][i].part] \in Seq(PartNames)
<1> DEFINE P(f) == [i \in DOMAIN f |-> f[i].part]
<1>1. P(proto_write_info) = <<"v", "s", "u", "s", "v">>
  BY DEF proto_write_info, U, V, S
<1>2. P(proto_write_slot_info) = <<"s", "s", "u", "v", "v">>
  BY DEF proto_write_slot_info, U, V, S
<1>3. P(proto_write_token_info) = <<"s", "s", "s", "s", "u", "u", "u", "u", "u", "u", "u",
                                    "u", "u", "u", "u", "v", "v", "s">>
  BY DEF proto_write_token_info, U, V, S
<1>4. P(proto_write_mechanism_info) = <<"u", "u", "u">>
  BY DEF proto_write_mechanism_info, U, V, S
<1>5. P(proto_write_session_info) = <<"u", "u", "u", "u">>
  BY DEF proto_write_session_info, U, V, S
<1>6. /\ P(proto_write_info) \in Seq(PartNames) /\ P(proto_write_slot_info) \in Seq(PartNames)
      /\ P(proto_write_token_info) \in Seq(PartNames)
      /\ P(proto_write_mechanism_info) \in Seq(PartNames)
      /\ P(proto_write_session_info) \in Seq(PartNames)
  BY <1>1, <1>2, <1>3, <1>4, <1>5 DEF PartNames
<1> HIDE DEF P
<1>7. P(DaemonFields[m]) \in Seq(PartNames)
  BY <1>6, InfoNames DEF DaemonFields
<1> QED
  BY <1>7 DEF P

\* What the proofs use of the outputs of a call.
LEMMA OutFacts ==
  ASSUME NEW c \in DOMAIN gck_rpc_calls
  PROVE  /\ gck_rpc_calls[c].response \in Seq(PartNames)
         /\ ClientLen(c) \in {0, 1, 2} /\ Len(DaemonStubs[c].out) = ClientLen(c)
         /\ ClientLen(c) = 0 => gck_rpc_calls[c].response = <<>>
         /\ ClientLen(c) = 2 => /\ gck_rpc_calls[c].response = <<"u", "u">>
                                /\ \A i \in 1 .. 2 : /\ ClientStubs[c].out[i].macro = "ULONG"
                                                     /\ DaemonStubs[c].out[i].macro = "ULONG"
<1> DEFINE s == gck_rpc_calls[c]  cl == ClientStubs[c]  da == DaemonStubs[c]
<1>1. Agreed(c, s, cl, da)
  BY Agreement
<1> HIDE DEF s, cl, da
<1>2. CASE NoOut(c, s, cl, da)
  BY <1>2 DEF NoOut, ClientLen, s, cl, da
<1>3. CASE BytesOut(c, s, cl, da)
  BY <1>3 DEF BytesOut, ClientLen, PartNames, s, cl, da
<1>4. CASE UlongsOut(c, s, cl, da)
  BY <1>4 DEF UlongsOut, ClientLen, PartNames, s, cl, da
<1>5. CASE AttrsOut(c, s, cl, da)
  BY <1>5 DEF AttrsOut, ClientLen, PartNames, s, cl, da
<1>6. CASE InfoOut(c, s, cl, da)
  <2>1. PICK m \in [macro : InfoMacros, arg : Nat] :
           /\ cl.out = <<m>> /\ da.out = <<m>>
           /\ s.response = [i \in DOMAIN DaemonFields[m.macro] |-> DaemonFields[m.macro][i].part]
    BY <1>6 DEF InfoOut
  <2>2. s.response \in Seq(PartNames)
    BY <2>1, InfoParts
  <2>3. Len(cl.out) = 1 /\ Len(da.out) = 1
    BY <2>1
  <2> QED
    BY <2>2, <2>3 DEF ClientLen, s, cl, da
<1>7. CASE NumsOut(c, s, cl, da)
  <2>1. PICK n \in Nat :
           \/ s.response = <<"u">> /\ da.out = <<OUT_ULONG(n)>> /\ cl.out = <<OUT_ULONG(n)>>
           \/ /\ s.response = <<"u", "u">> /\ da.out = <<OUT_ULONG(n), OUT_ULONG(n + 1)>>
              /\ cl.out = <<OUT_ULONG(n), OUT_ULONG(n + 1)>>
    BY <1>7 DEF NumsOut
  <2>2. <<"u">> \in Seq(PartNames) /\ <<"u", "u">> \in Seq(PartNames)
    BY DEF PartNames
  <2>3. \A x : OUT_ULONG(x).macro = "ULONG"
    BY DEF OUT_ULONG
  <2>4. CASE Len(cl.out) = 1
    <3>1. s.response = <<"u">> /\ Len(da.out) = 1
      BY <2>1, <2>4
    <3> QED
      BY <2>2, <2>4, <3>1 DEF ClientLen, s, cl, da
  <2>5. CASE Len(cl.out) = 2
    <3>1. /\ s.response = <<"u", "u">> /\ Len(da.out) = 2
          /\ \A i \in 1 .. 2 : cl.out[i].macro = "ULONG" /\ da.out[i].macro = "ULONG"
      BY <2>1, <2>3, <2>5
    <3> QED
      BY <2>2, <2>5, <3>1 DEF ClientLen, s, cl, da
  <2> QED
    BY <2>1, <2>4, <2>5
<1> QED
  BY <1>1, <1>2, <1>3, <1>4, <1>5, <1>6, <1>7 DEF Agreed

\* The macros of both sides follow the signature of the request.
LEMMA InFacts ==
  ASSUME NEW c \in DOMAIN gck_rpc_calls
  PROVE  /\ gck_rpc_calls[c].request \in Seq(PartNames)
         /\ ClientStubs[c].in \in Seq(Macro)
         /\ Len(ClientStubs[c].in) = Len(gck_rpc_calls[c].request)
         /\ Len(DaemonStubs[c].in) = Len(gck_rpc_calls[c].request)
         /\ \A i \in 1 .. Len(gck_rpc_calls[c].request) :
              /\ Part(ClientStubs[c].in[i].macro) = gck_rpc_calls[c].request[i]
              /\ Part(DaemonStubs[c].in[i].macro) = gck_rpc_calls[c].request[i]
              /\ ClientStubs[c].in[i].arg = i /\ DaemonStubs[c].in[i].arg = i
  BY Agreement DEF Agreed, InAgree, Fits

\* Output i of a call writes the next parts of what is left of the response.
LEMMA RestFacts ==
  ASSUME NEW c \in DOMAIN gck_rpc_calls, NEW i \in 1 .. ClientLen(c)
  PROVE  /\ Rest(c, i) \in Seq(PartNames) /\ Rest(c, i + 1) \in Seq(PartNames)
         /\ IsPrefix(Slice(c), Rest(c, i))
         /\ SubSeq(Rest(c, i), Len(Slice(c)) + 1, Len(Rest(c, i))) = Rest(c, i + 1)
<1>1. CASE ClientLen(c) = 1
  <2>1. /\ Rest(c, i) = gck_rpc_calls[c].response /\ Rest(c, i + 1) = <<>>
        /\ Slice(c) = gck_rpc_calls[c].response
    BY <1>1 DEF Slice, Rest
  <2>2. gck_rpc_calls[c].response \in Seq(PartNames) /\ <<>> \in Seq(PartNames)
    BY OutFacts
  <2> QED
    BY <2>1, <2>2, Whole
<1>2. CASE ClientLen(c) = 2 /\ i = 1
  <2>1. Rest(c, i) = <<"u", "u">> /\ Rest(c, i + 1) = <<"u">> /\ Slice(c) = <<"u">>
    BY <1>2, OutFacts DEF Rest, Slice
  <2> QED
    BY <2>1, TwoNumbers
<1>3. CASE ClientLen(c) = 2 /\ i = 2
  <2>1. Rest(c, i) = <<"u">> /\ Rest(c, i + 1) = <<>> /\ Slice(c) = <<"u">>
    BY <1>3 DEF Rest, Slice
  <2>2. <<"u">> \in Seq(PartNames) /\ <<>> \in Seq(PartNames)
    BY DEF PartNames
  <2> QED
    BY <2>1, <2>2, Whole
<1> QED
  BY <1>1, <1>2, <1>3, OutFacts

-----------------------------------------------------------------------------
(* What the OUT_ macros write and read.                                    *)

\* What the daemon's macros for arrays write.
LEMMA WriteCases ==
  ASSUME NEW m, NEW r
  PROVE  /\ m.macro = "BYTE_ARRAY" =>
              WriteOut(m, r) = proto_write_byte_array("ay", seen[m.arg], reply.outs[m.arg], r)
         /\ m.macro = "ULONG_ARRAY" =>
              WriteOut(m, r) = proto_write_byte_array("au", seen[m.arg], reply.outs[m.arg], r)
         /\ m.macro = "ATTRIBUTE_ARRAY" =>
              WriteOut(m, r) = proto_write_attribute_array(seen[m.arg], reply.outs[m.arg], r)
  BY InfoNames DEF WriteOut

\* An array is written as one part, or the call fails and nothing is written.
LEMMA WrittenArray ==
  ASSUME NEW p, NEW b, NEW o, NEW r
  PROVE  /\ r \in {"OK", "BUFFER_TOO_SMALL"} =>
              /\ proto_write_byte_array(p, b, o, r).parts = <<p>>
              /\ proto_write_byte_array(p, b, o, r).ret = "OK"
         /\ r \notin {"OK", "BUFFER_TOO_SMALL"} => proto_write_byte_array(p, b, o, r) = Nothing(r)
  BY DEF proto_write_byte_array, Written, Nothing

\* Attributes are written as two parts, or the call fails and nothing is
\* written.
LEMMA WrittenAttributes ==
  ASSUME NEW t, NEW o, NEW r
  PROVE  /\ r \in {"OK", "BUFFER_TOO_SMALL", "ATTRIBUTE_SENSITIVE"} =>
              /\ proto_write_attribute_array(t, o, r).parts = <<"aA", "u">>
              /\ proto_write_attribute_array(t, o, r).ret = "OK"
         /\ r \notin {"OK", "BUFFER_TOO_SMALL", "ATTRIBUTE_SENSITIVE"} =>
              proto_write_attribute_array(t, o, r) = Nothing(r)
  BY DEF proto_write_attribute_array, Written, Nothing

\* A call that failed writes nothing and keeps its error.
LEMMA WrittenNothing ==
  ASSUME NEW r
  PROVE  Nothing(r).parts = <<>> /\ Nothing(r).ret = r /\ Nothing(r).values = <<>>
  BY DEF Written, Nothing

\* What the client's macros for arrays and numbers read.
LEMMA ReadCases ==
  ASSUME NEW m, NEW a
  PROVE  /\ m.macro = "BYTE_ARRAY" => ReadOut(m, a) = proto_read_array("ay", a, resp[1])
         /\ m.macro = "ULONG_ARRAY" => ReadOut(m, a) = proto_read_array("au", a, resp[1])
         /\ m.macro = "ATTRIBUTE_ARRAY" =>
              ReadOut(m, a) = proto_read_attribute_array(a, resp[1], resp[2].val)
         /\ m.macro = "ULONG" => ReadOut(m, a) = Read(<<"u">>, "OK", resp[1].val)
  BY InfoNames DEF ReadOut

\* Purging the list of mechanisms does not change what is read.
LEMMA PurgedParts ==
  ASSUME NEW m, NEW a, m.macro = "MECHANISM_TYPE_ARRAY"
  PROVE  ReadOut(m, a).parts = proto_read_array("au", a, resp[1]).parts
  BY InfoNames DEF ReadOut, proto_read_array, Read

\* The parts that reading takes from the message.
LEMMA PartsRead ==
  /\ \A p, a, f : proto_read_array(p, a, f).parts = <<p>>
  /\ \A t, f, e : proto_read_attribute_array(t, f, e).parts = <<"aA", "u">>
  /\ \A p, e, o : Read(p, e, o).parts = p
  BY DEF proto_read_array, proto_read_attribute_array, Read

\* The daemon writes the parts of an output, or nothing and then an error is
\* returned.
LEMMA WriteParts ==
  ASSUME NEW c \in DOMAIN gck_rpc_calls, NEW i \in 1 .. ClientLen(c), NEW r,
         NEW w, w = WriteOut(DaemonStubs[c].out[i], r)
  PROVE  /\ w.parts = Slice(c) \/ (w.parts = <<>> /\ w.ret # "OK")
         /\ i > 1 /\ r # "OK" => w.parts = <<>> /\ w.ret # "OK"
<1> DEFINE s == gck_rpc_calls[c]  cl == ClientStubs[c]  da == DaemonStubs[c]
<1>1. Agreed(c, s, cl, da)
  BY Agreement
<1> HIDE DEF s, cl, da
<1>2. CASE NoOut(c, s, cl, da)
  BY <1>2 DEF NoOut, ClientLen, s, cl, da
<1>3. CASE BytesOut(c, s, cl, da)
  <2>1. PICK n \in 1 .. Len(s.request) :
           /\ s.response = <<"ay">> /\ cl.out = <<OUT_BYTE_ARRAY(n)>> /\ da.out = <<OUT_BYTE_ARRAY(n)>>
    BY <1>3 DEF BytesOut
  <2>2. ClientLen(c) = 1
    BY <2>1 DEF ClientLen, cl
  <2>3. i = 1 /\ Slice(c) = <<"ay">>
    BY <2>1, <2>2 DEF Slice, s
  <2> QED
    BY <2>1, <2>3, WriteCases, WrittenArray, WrittenNothing DEF OUT_BYTE_ARRAY, da
<1>4. CASE UlongsOut(c, s, cl, da)
  <2>1. i = 1 /\ ClientLen(c) = 1 /\ Slice(c) = <<"au">> /\ da.out[1] = OUT_ULONG_ARRAY(2)
    BY <1>4 DEF UlongsOut, ClientLen, Slice, s, cl, da
  <2> QED
    BY <2>1, WriteCases, WrittenArray, WrittenNothing DEF OUT_ULONG_ARRAY, da
<1>5. CASE AttrsOut(c, s, cl, da)
  <2>1. i = 1 /\ ClientLen(c) = 1 /\ Slice(c) = <<"aA", "u">> /\ da.out[1] = OUT_ATTRIBUTE_ARRAY(3)
    BY <1>5 DEF AttrsOut, ClientLen, Slice, s, cl, da
  <2> QED
    BY <2>1, WriteCases, WrittenAttributes, WrittenNothing DEF OUT_ATTRIBUTE_ARRAY, da
<1>6. CASE InfoOut(c, s, cl, da)
  <2>1. PICK m \in [macro : InfoMacros, arg : Nat] :
           /\ cl.out = <<m>> /\ da.out = <<m>>
           /\ s.response = [j \in DOMAIN DaemonFields[m.macro] |-> DaemonFields[m.macro][j].part]
    BY <1>6 DEF InfoOut
  <2>2. i = 1 /\ ClientLen(c) = 1 /\ Slice(c) = s.response /\ da.out[i] = m
    BY <2>1 DEF ClientLen, Slice, s, cl, da
  <2>3. m.macro \in {"INFO", "SLOT_INFO", "TOKEN_INFO", "MECHANISM_INFO", "SESSION_INFO"}
    BY InfoNames
  <2>4. CASE r = "OK"
    BY <2>1, <2>2, <2>3, <2>4 DEF WriteOut, Written, da
  <2>5. CASE r # "OK"
    BY <2>1, <2>2, <2>3, <2>5 DEF WriteOut, Written, Nothing, da
  <2> QED
    BY <2>4, <2>5
<1>7. CASE NumsOut(c, s, cl, da)
  <2>1. da.out[i].macro = "ULONG" /\ Slice(c) = <<"u">>
    BY <1>7 DEF NumsOut, OUT_ULONG, ClientLen, Slice, s, cl, da
  <2>2. "ULONG" \notin InfoMacros
    BY InfoNames
  <2> QED
    BY <2>1, <2>2 DEF WriteOut, Written, Nothing, da
<1> QED
  BY <1>1, <1>2, <1>3, <1>4, <1>5, <1>6, <1>7 DEF Agreed

\* The client reads the parts of an output.
LEMMA ReadParts ==
  ASSUME NEW c \in DOMAIN gck_rpc_calls, NEW i \in 1 .. ClientLen(c), NEW a
  PROVE  ReadOut(ClientStubs[c].out[i], a).parts = Slice(c)
<1> DEFINE s == gck_rpc_calls[c]  cl == ClientStubs[c]  da == DaemonStubs[c]
<1>1. Agreed(c, s, cl, da)
  BY Agreement
<1> HIDE DEF s, cl, da
<1>2. CASE NoOut(c, s, cl, da)
  BY <1>2 DEF NoOut, ClientLen, s, cl, da
<1>3. CASE BytesOut(c, s, cl, da)
  <2>1. PICK n \in 1 .. Len(s.request) :
           /\ s.response = <<"ay">> /\ cl.out = <<OUT_BYTE_ARRAY(n)>> /\ da.out = <<OUT_BYTE_ARRAY(n)>>
    BY <1>3 DEF BytesOut
  <2>2. ClientLen(c) = 1
    BY <2>1 DEF ClientLen, cl
  <2>3. i = 1 /\ Slice(c) = <<"ay">>
    BY <2>1, <2>2 DEF Slice, s
  <2> QED
    BY <2>1, <2>3, ReadCases, PartsRead DEF OUT_BYTE_ARRAY, cl
<1>4. CASE UlongsOut(c, s, cl, da)
  <2>1. i = 1 /\ ClientLen(c) = 1 /\ Slice(c) = <<"au">>
        /\ cl.out[1] \in {OUT_ULONG_ARRAY(2), OUT_MECHANISM_TYPE_ARRAY(2)}
    BY <1>4 DEF UlongsOut, ClientLen, Slice, s, cl, da
  <2> QED
    BY <2>1, ReadCases, PurgedParts, PartsRead DEF OUT_ULONG_ARRAY, OUT_MECHANISM_TYPE_ARRAY, cl
<1>5. CASE AttrsOut(c, s, cl, da)
  <2>1. i = 1 /\ ClientLen(c) = 1 /\ Slice(c) = <<"aA", "u">> /\ cl.out[1] = OUT_ATTRIBUTE_ARRAY(3)
    BY <1>5 DEF AttrsOut, ClientLen, Slice, s, cl, da
  <2> QED
    BY <2>1, ReadCases, PartsRead DEF OUT_ATTRIBUTE_ARRAY, cl
<1>6. CASE InfoOut(c, s, cl, da)
  <2>1. PICK m \in [macro : InfoMacros, arg : Nat] :
           /\ cl.out = <<m>> /\ da.out = <<m>>
           /\ s.response = [j \in DOMAIN DaemonFields[m.macro] |-> DaemonFields[m.macro][j].part]
    BY <1>6 DEF InfoOut
  <2>2. i = 1 /\ ClientLen(c) = 1 /\ Slice(c) = s.response /\ cl.out[i] = m
    BY <2>1 DEF ClientLen, Slice, s, cl, da
  <2>3. m.macro \in {"INFO", "SLOT_INFO", "TOKEN_INFO", "MECHANISM_INFO", "SESSION_INFO"}
    BY InfoNames
  <2>4. ReadOut(m, a) = proto_read_fields(ClientFields[m.macro], resp)
    BY <2>3 DEF ReadOut
  <2> QED
    BY <2>1, <2>2, <2>4, InfoTables DEF proto_read_fields, Read, cl
<1>7. CASE NumsOut(c, s, cl, da)
  <2>1. cl.out[i].macro = "ULONG" /\ Slice(c) = <<"u">>
    BY <1>7 DEF NumsOut, OUT_ULONG, ClientLen, Slice, s, cl, da
  <2> QED
    BY <2>1, ReadCases, PartsRead DEF cl
<1> QED
  BY <1>1, <1>2, <1>3, <1>4, <1>5, <1>6, <1>7 DEF Agreed

-----------------------------------------------------------------------------
(* The signature of the message in hand, at every step of a call.          *)

\* The steps of a call.
Places == {"idle", "client_in", "daemon_in", "daemon_out", "daemon_done", "client_out", "returned"}

\* sig is what is left of the signature of the message in hand: of the request
\* after the parameters before k, of the response after the outputs before k.
SigInv ==
  /\ sig \in Seq(PartNames) /\ k \in Nat /\ k >= 1 /\ pc \in Places
  /\ pc = "idle" => k = 1
  /\ pc # "idle" => call \in Calls
  /\ pc \in {"client_in", "daemon_in"} =>
       /\ k <= Len(gck_rpc_calls[call].request) + 1
       /\ sig = Later(gck_rpc_calls[call].request, k)
  /\ pc = "daemon_out" =>
       k <= ClientLen(call) + 1 /\ (k = 1 \/ ret = "OK" => sig = Rest(call, k))
  /\ pc = "daemon_done" /\ ret = "OK" => sig = <<>>
  /\ pc = "client_out" =>
       k <= ClientLen(call) + 1 /\ (ret = "OK" => sig = Rest(call, k))

\* The calls of a run are calls of the protocol.
LEMMA Known == Calls \subseteq DOMAIN gck_rpc_calls
  BY MarshalAssumption

\* What is left of a signature is a sequence of parts.
LEMMA LaterIsSeq ==
  ASSUME NEW s \in Seq(PartNames), NEW i \in 1 .. Len(s) + 1
  PROVE  Later(s, i) \in Seq(PartNames)
  BY DEF Later

\* Before the first output everything is left of the response, after the last
\* nothing.
LEMMA RestAll ==
  ASSUME NEW c \in DOMAIN gck_rpc_calls
  PROVE  /\ Rest(c, 1) = gck_rpc_calls[c].response
         /\ \A i \in Nat : i > ClientLen(c) => Rest(c, i) = <<>>
<1>1. ClientLen(c) \in Nat
  BY OutFacts
<1>2. Rest(c, 1) = gck_rpc_calls[c].response
  BY OutFacts DEF Rest
<1> QED
  BY <1>1, <1>2 DEF Rest

\* Every step keeps SigInv.
LEMMA SigStep == SigInv /\ [Next]_vars => SigInv'
<1> SUFFICES ASSUME SigInv, [Next]_vars PROVE SigInv'
  OBVIOUS
<1>0. \A c \in Calls : c \in DOMAIN gck_rpc_calls
  BY Known
<1>1. CASE Begin
  <2>1. PICK c \in Calls :
          /\ call' = c
          /\ \/ pc' = "client_in" /\ sig' = gck_rpc_calls[c].request
             \/ pc' = "returned" /\ UNCHANGED sig
    BY <1>1 DEF Begin
  <2>2. pc = "idle" /\ k' = k
    BY <1>1 DEF Begin
  <2>3. /\ gck_rpc_calls[c].request \in Seq(PartNames)
        /\ Later(gck_rpc_calls[c].request, 1) = gck_rpc_calls[c].request
    BY <1>0, <2>1, InFacts, AllParts
  <2> QED
    BY <2>1, <2>2, <2>3 DEF SigInv, Places
<1>2. CASE ClientIn
  <2> DEFINE q == gck_rpc_calls[call].request
  <2>1. /\ pc = "client_in" /\ call \in DOMAIN gck_rpc_calls /\ call' = call
        /\ k \in 1 .. Len(q) /\ q \in Seq(PartNames) /\ Part(ClientStubs[call].in[k].macro) = q[k]
        /\ sig = Later(q, k)
    BY <1>0, <1>2, InFacts DEF ClientIn, SigInv
  <2>2. CASE pc' = "returned" /\ UNCHANGED <<k, req, sig>>
    BY <2>1, <2>2 DEF SigInv, Places
  <2>3. CASE /\ Advance(<<Part(ClientStubs[call].in[k].macro)>>)
             /\ k' = k + 1 /\ UNCHANGED <<pc, ret>>
    <3>1. sig' = Later(q, k + 1)
      BY <2>1, <2>3, AfterPart DEF Advance
    <3>2. Later(q, k + 1) \in Seq(PartNames)
      BY <2>1, LaterIsSeq
    <3> QED
      BY <2>1, <2>3, <3>1, <3>2 DEF SigInv, Places
  <2> QED
    BY <1>2, <2>2, <2>3 DEF ClientIn
<1>3. CASE ClientRun
  <2>1. /\ call \in DOMAIN gck_rpc_calls /\ call' = call /\ pc' = "daemon_in" /\ k' = 1
        /\ sig' = gck_rpc_calls[call].request /\ call \in Calls
    BY <1>0, <1>3 DEF ClientRun, SigInv
  <2>2. /\ gck_rpc_calls[call].request \in Seq(PartNames)
        /\ Later(gck_rpc_calls[call].request, 1) = gck_rpc_calls[call].request
    BY <2>1, InFacts, AllParts
  <2> QED
    BY <2>1, <2>2 DEF SigInv, Places
<1>4. CASE DaemonIn
  <2> DEFINE q == gck_rpc_calls[call].request
  <2>1. /\ pc = "daemon_in" /\ call \in DOMAIN gck_rpc_calls /\ call' = call /\ pc' = pc
        /\ k \in 1 .. Len(q) /\ q \in Seq(PartNames) /\ Part(DaemonStubs[call].in[k].macro) = q[k]
        /\ sig = Later(q, k) /\ k' = k + 1
        /\ Advance(<<Part(DaemonStubs[call].in[k].macro)>>)
    BY <1>0, <1>4, InFacts DEF DaemonIn, SigInv
  <2>2. sig' = Later(q, k + 1)
    BY <2>1, AfterPart DEF Advance
  <2>3. Later(q, k + 1) \in Seq(PartNames)
    BY <2>1, LaterIsSeq
  <2> QED
    BY <2>1, <2>2, <2>3 DEF SigInv, Places
<1>5. CASE DaemonProcess
  <2>1. /\ call \in DOMAIN gck_rpc_calls /\ call' = call /\ k' = 1
        /\ sig' = gck_rpc_calls[call].response /\ call \in Calls
        /\ pc' = "daemon_out" \/ (pc' = "daemon_done" /\ ret' \in {"DEVICE_ERROR", "SESSION_COUNT"})
    BY <1>0, <1>5 DEF DaemonProcess, SigInv
  <2>2. gck_rpc_calls[call].response \in Seq(PartNames) /\ ClientLen(call) \in Nat
    BY <2>1, OutFacts
  <2>3. Rest(call, 1) = gck_rpc_calls[call].response
    BY <2>1, RestAll
  <2>4. ClientLen(call') = ClientLen(call) /\ Rest(call', k') = Rest(call, 1)
    BY <2>1 DEF Rest, ClientLen
  <2> QED
    BY <2>1, <2>2, <2>3, <2>4 DEF SigInv, Places
<1>6. CASE DaemonOut
  <2>1. /\ pc = "daemon_out" /\ call \in DOMAIN gck_rpc_calls /\ call' = call /\ call \in Calls
        /\ k \in 1 .. ClientLen(call) + 1 /\ ClientLen(call) \in Nat
        /\ Len(DaemonStubs[call].out) = ClientLen(call)
        /\ k = 1 \/ ret = "OK" => sig = Rest(call, k)
    BY <1>0, <1>6, OutFacts DEF DaemonOut, SigInv
  <2>2. CASE k <= ClientLen(call)
    <3> DEFINE w == WriteOut(DaemonStubs[call].out[k], ret)
    <3>1. /\ Advance(w.parts) /\ ret' = w.ret /\ k' = k + 1 /\ pc' = pc
      BY <1>6, <2>1, <2>2 DEF DaemonOut
    <3>0. w = WriteOut(DaemonStubs[call].out[k], ret)
      OBVIOUS
    <3> HIDE DEF w
    <3>2. /\ w.parts = Slice(call) \/ (w.parts = <<>> /\ w.ret # "OK")
          /\ k > 1 /\ ret # "OK" => w.parts = <<>> /\ w.ret # "OK"
      <4>1. k \in 1 .. ClientLen(call)
        BY <2>1, <2>2
      <4> QED
        BY <2>1, <3>0, <4>1, WriteParts
    <3>3. CASE w.parts = <<>> /\ w.ret # "OK"
      <4>1. sig' = sig
        BY <3>1, <3>3, NoParts DEF Advance, SigInv
      <4> QED
        BY <2>1, <2>2, <3>1, <3>3, <4>1 DEF SigInv, ClientLen
    <3>4. CASE ~ (w.parts = <<>> /\ w.ret # "OK")
      <4>1. sig = Rest(call, k) /\ w.parts = Slice(call)
        BY <2>1, <3>2, <3>4
      <4>2. sig' = Rest(call, k + 1) /\ Rest(call, k + 1) \in Seq(PartNames)
        BY <2>1, <2>2, <3>1, <4>1, RestFacts DEF Advance
      <4>3. ClientLen(call') = ClientLen(call) /\ Rest(call', k') = Rest(call, k + 1)
        BY <2>1, <3>1 DEF Rest, ClientLen
      <4> QED
        BY <2>1, <2>2, <3>1, <4>2, <4>3 DEF SigInv, Places
    <3> QED
      BY <3>3, <3>4
  <2>3. CASE k > ClientLen(call)
    <3>1. pc' = "daemon_done" /\ UNCHANGED <<k, resp, ret, sig>>
      BY <1>6, <2>1, <2>3 DEF DaemonOut
    <3>2. Rest(call, k) = <<>>
      BY <2>1, <2>3, RestAll
    <3> QED
      BY <2>1, <3>1, <3>2 DEF SigInv, Places
  <2> QED
    BY <2>1, <2>2, <2>3
<1>7. CASE DaemonDone
  <2>1. /\ call \in DOMAIN gck_rpc_calls /\ call' = call /\ k' = 1 /\ call \in Calls
        /\ \/ pc' = "client_out" /\ sig' = gck_rpc_calls[call].response
           \/ pc' = "returned" /\ UNCHANGED sig
    BY <1>0, <1>7 DEF DaemonDone, SigInv
  <2>2. gck_rpc_calls[call].response \in Seq(PartNames) /\ ClientLen(call) \in Nat
    BY <2>1, OutFacts
  <2>3. Rest(call, 1) = gck_rpc_calls[call].response
    BY <2>1, RestAll
  <2>4. ClientLen(call') = ClientLen(call) /\ Rest(call', k') = Rest(call, 1)
    BY <2>1 DEF Rest, ClientLen
  <2> QED
    BY <2>1, <2>2, <2>3, <2>4 DEF SigInv, Places
<1>8. CASE ClientOut
  <2> DEFINE m == ClientStubs[call].out[k]
             r == ReadOut(m, args[m.arg])
  <2>1. /\ pc = "client_out" /\ call \in DOMAIN gck_rpc_calls /\ call' = call /\ call \in Calls
        /\ k \in 1 .. ClientLen(call) /\ k' = k + 1 /\ pc' = pc /\ ClientLen(call) \in Nat
        /\ ret = "OK" => sig = Rest(call, k)
    <3>1. /\ pc = "client_out" /\ call' = call /\ k' = k + 1 /\ pc' = pc
          /\ k <= ClientLen(call)
      BY <1>8 DEF ClientOut, ClientLen
    <3>2. /\ call \in DOMAIN gck_rpc_calls /\ call \in Calls /\ k \in Nat /\ k >= 1
          /\ ret = "OK" => sig = Rest(call, k)
      BY <1>0, <3>1 DEF SigInv
    <3> QED
      BY <3>1, <3>2, OutFacts
  <2>2. ClientLen(call') = ClientLen(call) /\ Rest(call', k') = Rest(call, k + 1)
    BY <2>1 DEF Rest, ClientLen
  <2>3. CASE ret' # "OK" /\ UNCHANGED sig
    BY <2>1, <2>2, <2>3 DEF SigInv, Places
  <2>4. CASE ret = "OK" /\ Advance(r.parts)
    <3>1. r.parts = Slice(call)
      BY <2>1, ReadParts
    <3>2. sig' = Rest(call, k + 1) /\ Rest(call, k + 1) \in Seq(PartNames)
      BY <2>1, <2>4, <3>1, RestFacts DEF Advance
    <3> QED
      BY <2>1, <2>2, <3>2 DEF SigInv, Places
  <2> QED
    BY <1>8, <2>3, <2>4 DEF ClientOut
<1>9. CASE ClientDone
  BY <1>9 DEF ClientDone, SigInv, Places
<1>10. CASE Return
  BY <1>10 DEF Return, SigInv, Places
<1>11. CASE UNCHANGED vars
  BY <1>11 DEF vars, SigInv, Places, Rest, ClientLen, Later
<1> QED
  BY <1>1, <1>2, <1>3, <1>4, <1>5, <1>6, <1>7, <1>8, <1>9, <1>10, <1>11 DEF Next

\* SigInv contains what the assertions of the message layer demand.
LEMMA SigImplies == SigInv => SignaturesHold
<1> SUFFICES ASSUME SigInv PROVE SignaturesHold
  OBVIOUS
<1>0. \A c \in Calls : c \in DOMAIN gck_rpc_calls
  BY Known
<1>1. sig \in Seq(PartNames) /\ IsPrefix(<<>>, sig)
  BY NoParts DEF SigInv
<1>2. CASE pc \in {"client_in", "daemon_in"}
  <2> DEFINE q == gck_rpc_calls[call].request
  <2>1. /\ call \in DOMAIN gck_rpc_calls /\ q \in Seq(PartNames)
        /\ Len(ClientStubs[call].in) = Len(q) /\ Len(DaemonStubs[call].in) = Len(q)
        /\ k \in 1 .. Len(q) + 1 /\ sig = Later(q, k)
    BY <1>0, <1>2, InFacts DEF SigInv
  <2>2. CASE k = Len(q) + 1
    <3>1. sig = <<>>
      BY <2>1, <2>2, AllParts
    <3>2. NextParts = <<>>
      BY <1>2, <2>1, <2>2 DEF NextParts
    <3> QED
      BY <1>1, <3>1, <3>2 DEF SignaturesHold, verify_part
  <2>3. CASE k \in 1 .. Len(q)
    <3>1. ~MustBeVerified
      BY <1>2, <2>1, <2>3 DEF MustBeVerified
    <3>2. /\ Part(ClientStubs[call].in[k].macro) = q[k]
          /\ Part(DaemonStubs[call].in[k].macro) = q[k]
      BY <2>1, <2>3, InFacts
    <3>3. NextParts = <<>> \/ NextParts = <<Part(ClientStubs[call].in[k].macro)>>
          \/ NextParts = <<Part(DaemonStubs[call].in[k].macro)>>
      BY <1>2, <2>1, <2>3 DEF NextParts
    <3>4. NextParts \in {<<>>, <<q[k]>>}
      BY <3>2, <3>3
    <3>5. IsPrefix(<<q[k]>>, sig)
      BY <2>1, <2>3, AfterPart
    <3> QED
      BY <1>1, <3>1, <3>4, <3>5 DEF SignaturesHold, verify_part
  <2> QED
    BY <2>1, <2>2, <2>3
<1>3. CASE pc = "daemon_out"
  <2>1. /\ call \in DOMAIN gck_rpc_calls /\ Len(DaemonStubs[call].out) = ClientLen(call)
        /\ k \in Nat /\ k >= 1 /\ ClientLen(call) \in Nat
        /\ (k = 1 \/ ret = "OK") => sig = Rest(call, k)
    BY <1>0, <1>3, OutFacts DEF SigInv
  <2>2. ~MustBeVerified
    BY <1>3 DEF MustBeVerified
  <2>3. CASE k > ClientLen(call)
    <3>1. NextParts = <<>>
      BY <1>3, <2>1, <2>3 DEF NextParts
    <3> QED
      BY <1>1, <2>2, <3>1 DEF SignaturesHold, verify_part
  <2>4. CASE k <= ClientLen(call)
    <3> DEFINE w == WriteOut(DaemonStubs[call].out[k], ret)
    <3>1. NextParts = w.parts
      BY <1>3, <2>1, <2>4 DEF NextParts
    <3>0. w = WriteOut(DaemonStubs[call].out[k], ret)
      OBVIOUS
    <3> HIDE DEF w
    <3>2. /\ w.parts = Slice(call) \/ (w.parts = <<>> /\ w.ret # "OK")
          /\ k > 1 /\ ret # "OK" => w.parts = <<>> /\ w.ret # "OK"
      <4>1. k \in 1 .. ClientLen(call)
        BY <2>1, <2>4
      <4> QED
        BY <2>1, <3>0, <4>1, WriteParts
    <3>3. CASE w.parts = <<>>
      BY <1>1, <2>2, <3>1, <3>3 DEF SignaturesHold, verify_part
    <3>4. CASE w.parts # <<>>
      <4>1. sig = Rest(call, k) /\ w.parts = Slice(call)
        BY <2>1, <3>2, <3>4
      <4>2. IsPrefix(w.parts, sig)
        BY <2>1, <2>4, <4>1, RestFacts
      <4> QED
        BY <2>2, <3>1, <4>2 DEF SignaturesHold, verify_part
    <3> QED
      BY <3>3, <3>4
  <2> QED
    BY <2>1, <2>3, <2>4
<1>4. CASE pc = "client_out"
  <2>1. /\ call \in DOMAIN gck_rpc_calls /\ Len(ClientStubs[call].out) = ClientLen(call)
        /\ k \in Nat /\ k >= 1 /\ ClientLen(call) \in Nat
        /\ ret = "OK" => sig = Rest(call, k)
    BY <1>0, <1>4, OutFacts DEF SigInv, ClientLen
  <2>2. MustBeVerified => sig = <<>>
    BY <1>4, <2>1, RestAll DEF MustBeVerified
  <2>3. CASE ~ (k <= ClientLen(call) /\ ret = "OK")
    <3>1. NextParts = <<>>
      BY <1>4, <2>1, <2>3 DEF NextParts
    <3> QED
      BY <1>1, <2>2, <3>1 DEF SignaturesHold, verify_part
  <2>4. CASE k <= ClientLen(call) /\ ret = "OK"
    <3> DEFINE m == ClientStubs[call].out[k]
    <3>1. NextParts \in {<<>>, ReadOut(m, args[m.arg]).parts}
      BY <1>4, <2>1, <2>4 DEF NextParts
    <3>2. ReadOut(m, args[m.arg]).parts = Slice(call)
      BY <2>1, <2>4, ReadParts
    <3>3. IsPrefix(Slice(call), sig)
      BY <2>1, <2>4, RestFacts
    <3> QED
      BY <1>1, <2>2, <3>1, <3>2, <3>3 DEF SignaturesHold, verify_part
  <2> QED
    BY <2>3, <2>4
<1>5. CASE pc \in {"idle", "daemon_done", "returned"}
  <2>1. NextParts = <<>>
    BY <1>5 DEF NextParts
  <2>2. MustBeVerified => sig = <<>>
    BY <1>5 DEF MustBeVerified, SigInv
  <2> QED
    BY <1>1, <2>1, <2>2 DEF SignaturesHold, verify_part
<1> QED
  BY <1>2, <1>3, <1>4, <1>5 DEF SigInv, Places

\* For every call and whatever the arguments and the answer of the module, the
\* stubs of both sides write and read the parts that gck_rpc_calls gives for the
\* call, in order and to the end of the message: no assertion of
\* gck_rpc_message_verify_part fails and neither side is left with parts it has
\* not read (the IN_, OUT_ and BEGIN_CALL macros of gck-rpc-module.c and
\* gck-rpc-dispatch.c).
THEOREM SignaturesAgree == Spec => []SignaturesHold
<1>1. Init => SigInv
  BY DEF Init, SigInv, Places
<1>2. SigInv /\ [Next]_vars => SigInv'
  BY SigStep
<1>3. SigInv => SignaturesHold
  BY SigImplies
<1> QED
  BY <1>1, <1>2, <1>3, PTL DEF Spec

-----------------------------------------------------------------------------
(* What the daemon reads of an argument is what the client was given.      *)

\* The attributes of a template that the client does not refuse.
LEMMA TemplateShape ==
  ASSUME NEW v, ~ (v.num # 0 /\ ~v.ptr)
  PROVE  /\ v \in Template(ValueAttr) =>
              /\ v.num \in Nat /\ DOMAIN v.attrs = 1 .. v.num
              /\ \A i \in 1 .. v.num : v.attrs[i] \in ValueAttr(i)
              /\ v.attrs = [i \in 1 .. v.num |-> v.attrs[i]]
         /\ v \in Template(BufferAttr) =>
              /\ v.num \in Nat /\ DOMAIN v.attrs = 1 .. v.num
              /\ \A i \in 1 .. v.num : v.attrs[i] \in BufferAttr(i)
              /\ v.attrs = [i \in 1 .. v.num |-> v.attrs[i]]
<1>1. ASSUME v \in Template(ValueAttr)
      PROVE  /\ v.num \in Nat /\ DOMAIN v.attrs = 1 .. v.num
             /\ \A i \in 1 .. v.num : v.attrs[i] \in ValueAttr(i)
             /\ v.attrs = [i \in 1 .. v.num |-> v.attrs[i]]
  <2>1. CASE v \in [ptr : {FALSE}, num : {0, 1}, attrs : {<<>>}]
    <3>1. v.ptr = FALSE /\ v.num \in {0, 1} /\ v.attrs = <<>>
      BY <2>1
    <3>2. ~v.ptr
      BY <3>1, Zenon
    <3>3. v.num = 0
      BY <3>1, <3>2
    <3> QED
      BY <3>1, <3>3
  <2>2. CASE \E n \in 0 .. MaxAttrs :
               \E s \in {t \in [1 .. n -> UNION {ValueAttr(i) : i \in 1 .. n}] :
                           \A i \in 1 .. n : t[i] \in ValueAttr(i)} :
                 v = [ptr |-> TRUE, num |-> n, attrs |-> s]
    BY <2>2, MarshalAssumption
  <2> QED
    BY <1>1, <2>1, <2>2 DEF Template
<1>2. ASSUME v \in Template(BufferAttr)
      PROVE  /\ v.num \in Nat /\ DOMAIN v.attrs = 1 .. v.num
             /\ \A i \in 1 .. v.num : v.attrs[i] \in BufferAttr(i)
             /\ v.attrs = [i \in 1 .. v.num |-> v.attrs[i]]
  <2>1. CASE v \in [ptr : {FALSE}, num : {0, 1}, attrs : {<<>>}]
    <3>1. v.ptr = FALSE /\ v.num \in {0, 1} /\ v.attrs = <<>>
      BY <2>1
    <3>2. ~v.ptr
      BY <3>1, Zenon
    <3>3. v.num = 0
      BY <3>1, <3>2
    <3> QED
      BY <3>1, <3>3
  <2>2. CASE \E n \in 0 .. MaxAttrs :
               \E s \in {t \in [1 .. n -> UNION {BufferAttr(i) : i \in 1 .. n}] :
                           \A i \in 1 .. n : t[i] \in BufferAttr(i)} :
                 v = [ptr |-> TRUE, num |-> n, attrs |-> s]
    BY <2>2, MarshalAssumption
  <2> QED
    BY <1>2, <2>1, <2>2 DEF Template
<1> QED
  BY <1>1, <1>2

\* Lengths are numbers.
LEMMA LensAreNats == Lens \subseteq Nat
  BY MarshalAssumption DEF Lens

\* A number, a mechanism type and a padded string reach the module as they are,
\* ...
LEMMA NumberArrives ==
  ASSUME NEW v, NEW m \in {"BYTE", "ULONG", "MECHANISM_TYPE", "SPACE_STRING"},
         NEW d \in {m, "ULONG"}
  PROVE  SameArgument(m, v, Decode(d, Encode(m, v)))
<1>1. Encode(m, v) = [val |-> v]
  BY DEF Encode, write_value
<1>2. Decode(d, Encode(m, v)) = v
  BY <1>1 DEF Decode
<1> QED
  BY <1>2 DEF SameArgument

\* ... so does an array of bytes, ...
LEMMA ByteArrayArrives ==
  ASSUME NEW v \in ByteArrays
  PROVE  SameArgument("BYTE_ARRAY", v, Decode("BYTE_ARRAY", Encode("BYTE_ARRAY", v)))
<1>1. Decode("BYTE_ARRAY", Encode("BYTE_ARRAY", v)) = [ptr |-> v.ptr, len |-> v.len]
  BY DEF Encode, write_byte_array, Decode, read_byte_array
<1>2. v = [ptr |-> v.ptr, len |-> v.len]
  BY DEF ByteArrays
<1> QED
  BY <1>1, <1>2 DEF SameArgument

\* ... the room for bytes, ...
LEMMA ByteBufferArrives ==
  ASSUME NEW v \in Buffers
  PROVE  SameArgument("BYTE_BUFFER", v, Decode("BYTE_BUFFER", Encode("BYTE_BUFFER", v)))
<1>1. Encode("BYTE_BUFFER", v) = write_byte_buffer(v)
  BY DEF Encode
<1>2. Decode("BYTE_BUFFER", write_byte_buffer(v)) =
        [ptr |-> v.ptr, cnt |-> v.cnt, len |-> IF v.cnt THEN v.len ELSE 0]
  BY DEF write_byte_buffer, Decode, read_byte_buffer, Buffers
<1>3. v = [ptr |-> v.ptr, cnt |-> v.cnt, len |-> IF v.cnt THEN v.len ELSE 0]
  BY DEF Buffers
<1> QED
  BY <1>1, <1>2, <1>3 DEF SameArgument

\* ... the room for handles unless it is zero, ...
LEMMA UlongBufferArrives ==
  ASSUME NEW v \in Buffers, ~ (v.ptr /\ v.len = 0)
  PROVE  SameArgument("ULONG_BUFFER", v, Decode("ULONG_BUFFER", Encode("ULONG_BUFFER", v)))
<1> DEFINE f == Encode("ULONG_BUFFER", v)
           s == Decode("ULONG_BUFFER", f)
<1>1. f.len = IF v.ptr THEN v.len ELSE 0
  BY DEF Encode, write_ulong_buffer
<1>2. s = read_ulong_buffer(f)
  BY DEF Decode
<1> HIDE DEF f, s
<1>3. s.ptr = (f.len # 0) /\ s.len = f.len
  BY <1>2 DEF read_ulong_buffer
<1>4. v.ptr \in BOOLEAN /\ v.len \in Nat
  <2>1. CASE v \in [ptr : BOOLEAN, cnt : {TRUE}, len : Lens]
    BY <2>1, LensAreNats
  <2>2. CASE v \in [ptr : BOOLEAN, cnt : {FALSE}, len : {0}]
    BY <2>2
  <2> QED
    BY <2>1, <2>2 DEF Buffers
<1>5. SameArgument("ULONG_BUFFER", v, s)
  BY <1>1, <1>3, <1>4 DEF SameArgument
<1> QED
  BY <1>5 DEF s, f

\* ... a template to be filled, ...
LEMMA AttributeBufferArrives ==
  ASSUME NEW v \in Template(BufferAttr), ~ (v.num # 0 /\ ~v.ptr), ~ZeroBuffers
  PROVE  SameArgument("ATTRIBUTE_BUFFER", v,
                      Decode("ATTRIBUTE_BUFFER", Encode("ATTRIBUTE_BUFFER", v)))
<1>1. /\ v.num \in Nat /\ DOMAIN v.attrs = 1 .. v.num
      /\ \A i \in 1 .. v.num : v.attrs[i] \in BufferAttr(i)
  BY TemplateShape
<1> DEFINE f == Encode("ATTRIBUTE_BUFFER", v)
           s == Decode("ATTRIBUTE_BUFFER", f)
<1>2. f = [i \in 1 .. v.num |->
             [type |-> v.attrs[i].type, len |-> IF v.attrs[i].ptr THEN v.attrs[i].len ELSE 0]]
  BY <1>1 DEF Encode, write_attribute_buffer
<1>3. s = read_attribute_buffer(f)
  BY DEF Decode
<1> HIDE DEF f, s
<1>4. /\ DOMAIN f = 1 .. v.num /\ Len(f) = v.num
      /\ \A i \in 1 .. v.num : /\ f[i].type = v.attrs[i].type
                               /\ f[i].len = IF v.attrs[i].ptr THEN v.attrs[i].len ELSE 0
  BY <1>1, <1>2
<1>5. s = [ptr |-> TRUE, num |-> Len(f),
           attrs |-> [i \in DOMAIN f |->
                        [type |-> f[i].type, ptr |-> f[i].len # 0, len |-> f[i].len]]]
  BY <1>3 DEF read_attribute_buffer
<1>6. \A i \in 1 .. v.num : /\ s.attrs[i].type = f[i].type /\ s.attrs[i].ptr = (f[i].len # 0)
                            /\ s.attrs[i].len = f[i].len
  BY <1>4, <1>5
<1>7. s.num = v.num
  BY <1>4, <1>5
<1>8. \A i \in 1 .. v.num : /\ v.attrs[i].ptr \in BOOLEAN /\ v.attrs[i].len \in Nat
                            /\ ~(v.attrs[i].ptr /\ v.attrs[i].len = 0)
  BY <1>1, LensAreNats DEF BufferAttr
<1>9. \A i \in 1 .. v.num : s.attrs[i].ptr = v.attrs[i].ptr
  BY <1>4, <1>6, <1>8
<1>10. SameArgument("ATTRIBUTE_BUFFER", v, s)
  BY <1>4, <1>6, <1>7, <1>8, <1>9 DEF SameArgument
<1> QED
  BY <1>10 DEF s, f

\* ... a template with values, ...
LEMMA AttributeArrayArrives ==
  ASSUME NEW v \in Template(ValueAttr), ~ (v.num # 0 /\ ~v.ptr)
  PROVE  SameArgument("ATTRIBUTE_ARRAY", v,
                      Decode("ATTRIBUTE_ARRAY", Encode("ATTRIBUTE_ARRAY", v)))
<1>1. /\ v.num \in Nat /\ DOMAIN v.attrs = 1 .. v.num
      /\ \A i \in 1 .. v.num : v.attrs[i] \in ValueAttr(i)
  BY TemplateShape
<1> DEFINE f == Encode("ATTRIBUTE_ARRAY", v)
           s == Decode("ATTRIBUTE_ARRAY", f)
<1>2. f = [i \in 1 .. v.num |->
             [type |-> v.attrs[i].type, valid |-> v.attrs[i].len # Unavailable,
              len |-> v.attrs[i].len, data |-> v.attrs[i].ptr]]
  BY <1>1 DEF Encode, write_attribute_array
<1>3. s = read_attribute_array(f)
  BY DEF Decode
<1> HIDE DEF f, s
<1>4. /\ DOMAIN f = 1 .. v.num /\ Len(f) = v.num
      /\ \A i \in 1 .. v.num : /\ f[i].type = v.attrs[i].type
                               /\ f[i].valid = (v.attrs[i].len # Unavailable)
                               /\ f[i].len = v.attrs[i].len /\ f[i].data = v.attrs[i].ptr
  BY <1>1, <1>2
<1>5. s = [ptr |-> f # <<>>, num |-> Len(f),
           attrs |-> [i \in DOMAIN f |->
                        [type |-> f[i].type, ptr |-> f[i].valid /\ f[i].data,
                         len |-> IF f[i].valid THEN f[i].len ELSE Unavailable]]]
  BY <1>3 DEF read_attribute_array
<1>6. \A i \in 1 .. v.num :
        /\ s.attrs[i].type = f[i].type /\ s.attrs[i].ptr = (f[i].valid /\ f[i].data)
        /\ s.attrs[i].len = IF f[i].valid THEN f[i].len ELSE Unavailable
  BY <1>4, <1>5
<1>7. s.num = v.num
  BY <1>4, <1>5
<1>8. \A i \in 1 .. v.num : v.attrs[i].ptr \in BOOLEAN
  BY <1>1 DEF ValueAttr
<1>9. \A i \in 1 .. v.num : /\ v.attrs[i].len # Unavailable => s.attrs[i].ptr = v.attrs[i].ptr
                            /\ s.attrs[i].len = v.attrs[i].len
  BY <1>4, <1>6, <1>8
<1>10. SameArgument("ATTRIBUTE_ARRAY", v, s)
  BY <1>4, <1>6, <1>7, <1>9 DEF SameArgument
<1> QED
  BY <1>10 DEF s, f

\* ... and a mechanism that both sides know.
LEMMA MechanismArrives ==
  ASSUME NEW v \in Mechanisms, v.ptr, v.type # "odd"
  PROVE  SameArgument("MECHANISM", v, Decode("MECHANISM", Encode("MECHANISM", v)))
<1>0. \/ v \in [ptr : {TRUE}, type : MechanismTypes, param : {FALSE}, len : {0}]
      \/ v \in [ptr : {TRUE}, type : MechanismTypes, param : {TRUE}, len : {1}]
  <2>1. ASSUME v = [ptr |-> FALSE, type |-> "plain", param |-> FALSE, len |-> 0] PROVE FALSE
    <3>1. v.ptr = FALSE
      BY <2>1
    <3> QED
      BY <3>1, Zenon
  <2> QED
    BY <2>1 DEF Mechanisms
<1>1. Encode("MECHANISM", v) = proto_write_mechanism(v)
  BY DEF Encode
<1>2. Decode("MECHANISM", proto_write_mechanism(v)) =
        [ptr |-> TRUE, type |-> v.type, param |-> v.type = "sane" /\ v.param,
         len |-> IF v.type = "sane" /\ v.param THEN v.len ELSE 0]
  BY DEF Decode, proto_read_mechanism, proto_write_mechanism
<1>3. CASE v.type = "plain"
  BY <1>1, <1>2, <1>3 DEF SameArgument
<1>4. CASE v.type = "sane"
  <2>1. /\ v = [ptr |-> TRUE, type |-> "sane", param |-> v.param, len |-> IF v.param THEN v.len ELSE 0]
        /\ v.param \in BOOLEAN
    <3>1. CASE v \in [ptr : {TRUE}, type : MechanismTypes, param : {FALSE}, len : {0}]
      BY <1>4, <3>1
    <3>2. CASE v \in [ptr : {TRUE}, type : MechanismTypes, param : {TRUE}, len : {1}]
      BY <1>4, <3>2
    <3> QED
      BY <1>0, <3>1, <3>2
  <2>2. Decode("MECHANISM", proto_write_mechanism(v)) = v
    BY <1>2, <1>4, <2>1
  <2> QED
    BY <1>1, <2>2 DEF SameArgument
<1>5. v.type \in MechanismTypes
  BY <1>0
<1> QED
  BY <1>3, <1>4, <1>5 DEF MechanismTypes

\* An argument that the client does not refuse reaches the module as it is.
LEMMA ArgumentArrives ==
  ASSUME NEW c, NEW a \in InMacros, NEW d, a = d \/ (a = "MECHANISM_TYPE" /\ d = "ULONG"),
         NEW v \in MacroDomain(c, a), Refusal(a, v) = "OK", ~ZeroBuffers
  PROVE  SameArgument(a, v, Decode(d, Encode(a, v)))
<1>1. CASE a \in {"BYTE", "ULONG", "MECHANISM_TYPE", "SPACE_STRING"}
  BY <1>1, NumberArrives
<1>2. CASE a = "BYTE_ARRAY"
  BY <1>2, ByteArrayArrives DEF MacroDomain
<1>3. CASE a = "BYTE_BUFFER"
  BY <1>3, ByteBufferArrives DEF MacroDomain
<1>4. CASE a = "ULONG_BUFFER"
  <2>1. v \in Buffers /\ ~(v.ptr /\ v.len = 0)
    BY <1>4 DEF MacroDomain
  <2> QED
    BY <1>4, <2>1, UlongBufferArrives
<1>5. CASE a = "ATTRIBUTE_ARRAY"
  <2>1. v \in Template(ValueAttr)
    BY <1>5 DEF MacroDomain
  <2>2. ~ (v.num # 0 /\ ~v.ptr)
    BY <1>5 DEF Refusal
  <2> QED
    BY <1>5, <2>1, <2>2, AttributeArrayArrives
<1>6. CASE a = "ATTRIBUTE_BUFFER"
  <2>1. v \in Template(BufferAttr)
    BY <1>6 DEF MacroDomain
  <2>2. ~ (v.num # 0 /\ ~v.ptr)
    BY <1>6 DEF Refusal
  <2> QED
    BY <1>6, <2>1, <2>2, AttributeBufferArrives
<1>7. CASE a = "MECHANISM"
  <2>1. v \in Mechanisms
    BY <1>7 DEF MacroDomain
  <2>2. v.ptr /\ v.type # "odd"
    BY <1>7 DEF Refusal
  <2> QED
    BY <1>7, <2>1, <2>2, MechanismArrives
<1> QED
  BY <1>1, <1>2, <1>3, <1>4, <1>5, <1>6, <1>7 DEF InMacros

-----------------------------------------------------------------------------
(* The arguments of a call.                                                *)

\* A set of numbers that is not empty has a least element.
LEMMA LeastNat ==
  ASSUME NEW Z, Z \subseteq Nat, Z # {}
  PROVE  \E x \in Z : \A y \in Z : x <= y
<1>1. PICK x \in Z : \A y \in Z : ~ (<<y, x>> \in OpToRel(<, Nat))
  BY WFMin, NatLessThanWellFounded
<1>2. \A y \in Z : x \in Nat /\ y \in Nat /\ ~(y < x)
  BY <1>1 DEF OpToRel
<1> QED
  BY <1>2

\* Induction over the natural numbers, for a set: a number outside it would be
\* a least one.
LEMMA Induction ==
  ASSUME NEW Z, 0 \in Z, \A n \in Nat : n \in Z => n + 1 \in Z
  PROVE  \A n \in Nat : n \in Z
<1> DEFINE C == Nat \ Z
<1>1. SUFFICES ASSUME C # {} PROVE FALSE
  OBVIOUS
<1>2. PICK x \in C : \A y \in C : x <= y
  BY <1>1, LeastNat
<1>3. x \in Nat /\ x # 0 /\ x - 1 \in Nat /\ x - 1 \notin C
  BY <1>2
<1> QED
  BY <1>2, <1>3

\* The domain of argument i is the one of its macro.
LEMMA ArgDomainIs ==
  ASSUME NEW c \in DOMAIN gck_rpc_calls, NEW i \in 1 .. Len(ClientStubs[c].in)
  PROVE  ArgDomain(c, i) = MacroDomain(c, ClientStubs[c].in[i].macro)
<1> DEFINE s == ClientStubs[c].in
           ins == {m \in ToSet(s) : m.arg = i}
<1>1. \A j \in 1 .. Len(s) : s[j].arg = j
  BY InFacts
<1>2. DOMAIN s = 1 .. Len(s)
  OBVIOUS
<1>3. s[i] \in ins /\ \A m \in ins : m = s[i]
  BY <1>1, <1>2 DEF ToSet
<1>4. ins # {} /\ (CHOOSE m \in ins : TRUE) = s[i]
  BY <1>3
<1> QED
  BY <1>4 DEF ArgDomain

\* The macros of outputs that are not information structures.
OutNames == {"BYTE_ARRAY", "ULONG_ARRAY", "MECHANISM_TYPE_ARRAY", "ATTRIBUTE_ARRAY", "ULONG"}
              \cup InfoMacros

\* The parameters of the outputs have a bound.
LEMMA OutArgs ==
  ASSUME NEW c \in DOMAIN gck_rpc_calls
  PROVE  \E b \in Nat : ClientStubs[c].out \in Seq([macro : OutNames, arg : 0 .. b])
<1> DEFINE s == gck_rpc_calls[c]  cl == ClientStubs[c]  da == DaemonStubs[c]
<1>1. Agreed(c, s, cl, da)
  BY Agreement
<1> HIDE DEF s, cl, da
<1> DEFINE B(b) == cl.out \in Seq([macro : OutNames, arg : 0 .. b])
<1>2. CASE NoOut(c, s, cl, da)
  <2>1. B(0)
    BY <1>2 DEF NoOut
  <2> QED
    BY <2>1 DEF cl
<1>3. CASE BytesOut(c, s, cl, da)
  <2>0. Len(s.request) \in Nat
    BY <1>1 DEF Agreed, InAgree
  <2>1. PICK n \in 1 .. Len(s.request) : cl.out = <<OUT_BYTE_ARRAY(n)>>
    BY <1>3 DEF BytesOut
  <2>2. n \in Nat
    BY <2>0, <2>1
  <2>3. B(n)
    BY <2>2, <2>1 DEF OUT_BYTE_ARRAY, OutNames
  <2> QED
    BY <2>2, <2>3 DEF cl
<1>4. CASE UlongsOut(c, s, cl, da)
  <2>1. PICK m \in {OUT_ULONG_ARRAY(2), OUT_MECHANISM_TYPE_ARRAY(2)} : cl.out = <<m>>
    BY <1>4 DEF UlongsOut
  <2>2. m \in [macro : OutNames, arg : 0 .. 2]
    BY DEF OUT_ULONG_ARRAY, OUT_MECHANISM_TYPE_ARRAY, OutNames
  <2>3. B(2)
    BY <2>1, <2>2
  <2> QED
    BY <2>3 DEF cl
<1>5. CASE AttrsOut(c, s, cl, da)
  <2>1. B(3)
    BY <1>5 DEF AttrsOut, OUT_ATTRIBUTE_ARRAY, OutNames
  <2> QED
    BY <2>1 DEF cl
<1>6. CASE InfoOut(c, s, cl, da)
  <2>1. PICK m \in [macro : InfoMacros, arg : Nat] : cl.out = <<m>>
    BY <1>6 DEF InfoOut
  <2>2. m \in [macro : OutNames, arg : 0 .. m.arg] /\ m.arg \in Nat
    BY DEF OutNames
  <2>3. B(m.arg)
    BY <2>1, <2>2
  <2> QED
    BY <2>2, <2>3 DEF cl
<1>7. CASE NumsOut(c, s, cl, da)
  <2>1. PICK n \in Nat : cl.out = <<OUT_ULONG(n)>> \/ cl.out = <<OUT_ULONG(n), OUT_ULONG(n + 1)>>
    BY <1>7 DEF NumsOut
  <2>2. OUT_ULONG(n) \in [macro : OutNames, arg : 0 .. n + 1]
        /\ OUT_ULONG(n + 1) \in [macro : OutNames, arg : 0 .. n + 1]
    BY DEF OUT_ULONG, OutNames
  <2>3. B(n + 1)
    <3> DEFINE x == OUT_ULONG(n)  y == OUT_ULONG(n + 1)  R == [macro : OutNames, arg : 0 .. n + 1]
    <3>1. (cl.out = <<x>> \/ cl.out = <<x, y>>) /\ x \in R /\ y \in R
      BY <2>1, <2>2
    <3> HIDE DEF x, y, R
    <3>2. <<x>> \in Seq(R)
      BY <3>1
    <3>3. <<x, y>> \in Seq(R)
      BY <3>1
    <3>4. cl.out \in Seq(R)
      BY <3>1, <3>2, <3>3, Zenon
    <3> QED
      BY <3>4 DEF R
  <2>4. n + 1 \in Nat
    OBVIOUS
  <2> QED
    BY <2>3, <2>4 DEF cl
<1> QED
  BY <1>1, <1>2, <1>3, <1>4, <1>5, <1>6, <1>7 DEF Agreed

\* A call has a parameter for each of its macros.
LEMMA EnoughParameters ==
  ASSUME NEW c \in DOMAIN gck_rpc_calls
  PROVE  /\ Cardinality(Parameters(c)) \in Nat
         /\ Len(ClientStubs[c].in) <= Cardinality(Parameters(c))
<1> DEFINE ci == ClientStubs[c].in  co == ClientStubs[c].out
           P == Parameters(c)
<1>1. ci \in Seq(Macro) /\ \A i \in 1 .. Len(ci) : ci[i].arg = i
  BY InFacts
<1>2. PICK b \in Nat : co \in Seq([macro : OutNames, arg : 0 .. b])
  BY OutArgs
<1> DEFINE R == [macro : OutNames, arg : 0 .. b]
           E == Macro \cup R
           t == ci \o co
<1>4. P = {m.arg : m \in {t[j] : j \in DOMAIN t}} /\ co \in Seq(R)
  BY <1>2 DEF Parameters, ToSet
<1> HIDE DEF ci, co, P, R
<1>3. ci \in Seq(E) /\ co \in Seq(E) /\ Len(ci) \in Nat /\ Len(co) \in Nat
  BY <1>1, <1>4
<1> HIDE DEF E
<1>5. /\ DOMAIN t = 1 .. Len(ci) + Len(co)
      /\ \A j \in 1 .. Len(ci) + Len(co) : t[j] = IF j <= Len(ci) THEN ci[j] ELSE co[j - Len(ci)]
  BY <1>3
<1> HIDE DEF t
<1>6. \A j \in DOMAIN t : t[j].arg \in Nat /\ t[j].arg <= b + Len(ci)
  <2> SUFFICES ASSUME NEW j \in 1 .. Len(ci) + Len(co)
               PROVE  t[j].arg \in Nat /\ t[j].arg <= b + Len(ci)
    BY <1>5
  <2>1. CASE j <= Len(ci)
    BY <1>1, <1>3, <1>5, <2>1
  <2>2. CASE j > Len(ci)
    <3>1. j - Len(ci) \in 1 .. Len(co) /\ t[j] = co[j - Len(ci)]
      BY <1>3, <1>5, <2>2
    <3>2. co[j - Len(ci)] \in R
      BY <1>4, <3>1
    <3>3. t[j].arg \in 0 .. b
      BY <3>1, <3>2 DEF R
    <3> QED
      BY <1>3, <3>3
  <2> QED
    BY <1>3, <2>1, <2>2
<1>7. P \in SUBSET Nat /\ (\A x \in P : x <= b + Len(ci)) /\ b + Len(ci) \in Nat
  BY <1>3, <1>4, <1>6
<1>8. IsFiniteSet(P)
  BY <1>7, FS_BoundedSetOfNaturals
<1>9. \A i \in 1 .. Len(ci) : i \in DOMAIN t /\ t[i].arg = i
  BY <1>1, <1>3, <1>5
<1>10. 1 .. Len(ci) \in SUBSET P
  BY <1>4, <1>9
<1>11. Cardinality(1 .. Len(ci)) = Len(ci)
  <2> DEFINE n == Len(ci)
  <2>1. n \in Nat
    BY <1>3
  <2> HIDE DEF n
  <2>2. Cardinality(1 .. n) = n
    BY <2>1, FS_Interval
  <2> QED
    BY <2>2 DEF n
<1> QED
  BY <1>8, <1>10, <1>11, FS_Subset, FS_CardinalityType DEF ci, P

\* One step of the recursive function of Args.
TupleStep(c, n, Z) == IF n = 0 THEN {<<>>} ELSE {Append(t, v) : t \in Z, v \in ArgDomain(c, n)}

\* The recursive function of Args exists.
LEMMA TuplesExist ==
  ASSUME NEW c, NEW num \in Nat
  PROVE  \E g : g = [n \in 0 .. num |-> TupleStep(c, n, g[n - 1])]
<1> DEFINE Is(g, m) == g = [n \in 0 .. m |-> TupleStep(c, n, g[n - 1])]
           Z == {m \in Nat : \E g : Is(g, m)}
<1>1. 0 \in Z
  <2> DEFINE g == [n \in 0 .. 0 |-> {<<>>}]
  <2>1. \A n \in 0 .. 0 : g[n] = TupleStep(c, n, g[n - 1])
    BY DEF TupleStep
  <2>2. DOMAIN g = 0 .. 0 /\ g = [n \in 0 .. 0 |-> g[n]]
    OBVIOUS
  <2> HIDE DEF g
  <2>3. Is(g, 0)
    BY <2>1, <2>2
  <2> HIDE DEF Is
  <2> QED
    BY <2>3
<1>2. ASSUME NEW m \in Nat, m \in Z PROVE m + 1 \in Z
  <2>1. PICK g : Is(g, m)
    BY <1>2
  <2> DEFINE h == [n \in 0 .. m + 1 |-> TupleStep(c, n, g[n - 1])]
  <2>2. \A n \in 0 .. m : h[n] = g[n]
    BY <2>1
  <2>3. \A n \in 0 .. m + 1 : h[n] = TupleStep(c, n, h[n - 1])
    <3> SUFFICES ASSUME NEW n \in 0 .. m + 1 PROVE h[n] = TupleStep(c, n, h[n - 1])
      OBVIOUS
    <3>1. CASE n = 0
      BY <3>1 DEF TupleStep
    <3>2. CASE n # 0
      <4>1. n - 1 \in 0 .. m
        BY <3>2
      <4>2. h[n - 1] = g[n - 1]
        BY <2>2, <4>1
      <4> QED
        BY <4>2
    <3> QED
      BY <3>1, <3>2
  <2>4. h = [n \in 0 .. m + 1 |-> h[n]]
    OBVIOUS
  <2> HIDE DEF h
  <2>5. Is(h, m + 1)
    BY <2>3, <2>4
  <2> HIDE DEF Is
  <2> QED
    BY <2>5
<1> HIDE DEF Z
<1>3. num \in Z
  BY <1>1, <1>2, Induction
<1> QED
  BY <1>3 DEF Z

\* The arguments of a call are in the domains of its macros.
LEMMA ArgsInDomain ==
  ASSUME NEW c \in DOMAIN gck_rpc_calls, NEW a \in Args(c)
  PROVE  \A i \in 1 .. Len(ClientStubs[c].in) :
           a[i] \in MacroDomain(c, ClientStubs[c].in[i].macro)
<1> DEFINE num == Cardinality(Parameters(c))
           T == CHOOSE g : g = [n \in 0 .. num |-> TupleStep(c, n, g[n - 1])]
<1>1. num \in Nat /\ Len(ClientStubs[c].in) <= num
  BY EnoughParameters
<1>2. T = [n \in 0 .. num |-> TupleStep(c, n, T[n - 1])]
  <2> HIDE DEF num
  <2> QED
    BY <1>1, TuplesExist
<1>3. a \in T[num]
  BY DEF Args, TupleStep
<1> HIDE DEF T, num
<1>4. \A n \in 0 .. num : T[n] = TupleStep(c, n, T[n - 1])
  BY <1>2
<1> DEFINE E == UNION {ArgDomain(c, n) : n \in 1 .. num}
           Good(n) == \A t \in T[n] : /\ t \in Seq(E) /\ Len(t) = n
                                      /\ \A i \in 1 .. n : t[i] \in ArgDomain(c, i)
           Z == {n \in Nat : n <= num => Good(n)}
<1>5. 0 \in Z
  <2>1. T[0] = TupleStep(c, 0, T[0 - 1])
    BY <1>1, <1>4
  <2>3. T[0] = {<<>>}
    BY <2>1 DEF TupleStep
  <2>2. Good(0)
    BY <2>3
  <2> HIDE DEF Good
  <2> QED
    BY <2>2
<1>6. ASSUME NEW n \in Nat, n \in Z PROVE n + 1 \in Z
  <2>1. SUFFICES ASSUME n + 1 <= num PROVE Good(n + 1)
    <3> HIDE DEF Good
    <3> QED
      OBVIOUS
  <2>2. Good(n)
    <3> HIDE DEF Good
    <3> QED
      BY <1>1, <1>6, <2>1
  <2>3. T[n + 1] = {Append(t, v) : t \in T[n], v \in ArgDomain(c, n + 1)}
    <3>1. T[n + 1] = TupleStep(c, n + 1, T[n + 1 - 1]) /\ n + 1 - 1 = n /\ n + 1 # 0
      BY <1>1, <1>4, <2>1
    <3> QED
      BY <3>1 DEF TupleStep
  <2>4. ASSUME NEW t \in T[n], NEW v \in ArgDomain(c, n + 1)
        PROVE  /\ Append(t, v) \in Seq(E) /\ Len(Append(t, v)) = n + 1
               /\ \A i \in 1 .. n + 1 : Append(t, v)[i] \in ArgDomain(c, i)
    <3>1. t \in Seq(E) /\ Len(t) = n /\ \A i \in 1 .. n : t[i] \in ArgDomain(c, i)
      BY <2>2
    <3>2. n + 1 \in 1 .. num
      BY <1>1, <2>1
    <3>3. v \in E
      BY <2>4, <3>2
    <3> HIDE DEF E
    <3> QED
      BY <3>1, <3>3, <2>4
  <2> HIDE DEF E
  <2> QED
    BY <2>3, <2>4
<1> HIDE DEF Z, Good
<1>7. num \in Z
  BY <1>1, <1>5, <1>6, Induction
<1>8. Good(num)
  BY <1>1, <1>7 DEF Z
<1>9. \A i \in 1 .. num : a[i] \in ArgDomain(c, i)
  BY <1>3, <1>8 DEF Good
<1> QED
  BY <1>1, <1>9, ArgDomainIs

-----------------------------------------------------------------------------
(* The arguments on their way.                                             *)

\* The values the client's stub writes for arguments a, what the daemon's stub
\* makes of the first n of them, and whether the client refuses none of these.
Sent(c, a)        == [i \in 1 .. Len(ClientStubs[c].in) |-> Encode(ClientStubs[c].in[i].macro, a[i])]
Got(c, a, n)      == [i \in 1 .. n |-> Decode(DaemonStubs[c].in[i].macro, Sent(c, a)[i])]
Accepted(c, a, n) == \A i \in 1 .. n : Refusal(ClientStubs[c].in[i].macro, a[i]) = "OK"
NumIn(c)          == Len(ClientStubs[c].in)

\* The arguments are ones that an application can give.
InDomain(c, a) == \A i \in 1 .. NumIn(c) : a[i] \in MacroDomain(c, ClientStubs[c].in[i].macro)

\* The request has what the client's macros wrote so far, then what the daemon's
\* have not read; the daemon has the copies of the arguments it read.
ArgInv ==
  /\ pc = "idle" => req = <<>> /\ seen = <<>> /\ reply = Nobody
  /\ pc # "idle" => InDomain(call, args)
  /\ pc = "client_in" =>
       /\ req = SubSeq(Sent(call, args), 1, k - 1) /\ Accepted(call, args, k - 1)
       /\ seen = <<>> /\ reply = Nobody
  /\ pc = "daemon_in" =>
       /\ req = Later(Sent(call, args), k) /\ Accepted(call, args, NumIn(call))
       /\ seen = Got(call, args, k - 1) /\ reply = Nobody
  /\ reply # Nobody =>
       Accepted(call, args, NumIn(call)) /\ seen = Got(call, args, NumIn(call))

\* Taking the next element of a sequence.
LEMMA NextOfSeq ==
  ASSUME NEW W, NEW s \in Seq(W), NEW i \in 1 .. Len(s)
  PROVE  /\ Append(SubSeq(s, 1, i - 1), s[i]) = SubSeq(s, 1, i)
         /\ Head(Later(s, i)) = s[i] /\ Tail(Later(s, i)) = Later(s, i + 1)
<1>1. /\ SubSeq(s, 1, i - 1) \in Seq(W) /\ Len(SubSeq(s, 1, i - 1)) = i - 1
      /\ \A j \in 1 .. i - 1 : SubSeq(s, 1, i - 1)[j] = s[j]
  OBVIOUS
<1>2. /\ SubSeq(s, 1, i) \in Seq(W) /\ Len(SubSeq(s, 1, i)) = i
      /\ \A j \in 1 .. i : SubSeq(s, 1, i)[j] = s[j]
  OBVIOUS
<1>3. s[i] \in W
  OBVIOUS
<1> DEFINE a == SubSeq(s, 1, i - 1)  b == SubSeq(s, 1, i)  x == s[i]
<1>4. /\ a \in Seq(W) /\ Len(a) = i - 1 /\ b \in Seq(W) /\ Len(b) = i /\ x \in W
      /\ \A j \in 1 .. i : b[j] = IF j = i THEN x ELSE a[j]
  BY <1>1, <1>2, <1>3
<1> HIDE DEF a, b, x
<1>5. Append(a, x) \in Seq(W) /\ Len(Append(a, x)) = i /\ \A j \in 1 .. i : Append(a, x)[j] = b[j]
  BY <1>4
<1>6. Append(a, x) = b
  BY <1>4, <1>5, SeqEqual
<1>7. /\ Later(s, i) \in Seq(W) /\ Len(Later(s, i)) = Len(s) - i + 1
      /\ \A j \in 1 .. Len(s) - i + 1 : Later(s, i)[j] = s[j + i - 1]
  BY DEF Later
<1>8. /\ Later(s, i + 1) \in Seq(W) /\ Len(Later(s, i + 1)) = Len(s) - i
      /\ \A j \in 1 .. Len(s) - i : Later(s, i + 1)[j] = s[j + i]
  BY DEF Later
<1> DEFINE c == Later(s, i)  d == Later(s, i + 1)
<1>9. /\ c \in Seq(W) /\ d \in Seq(W) /\ Len(c) = Len(d) + 1 /\ c[1] = s[i]
      /\ \A j \in 1 .. Len(d) : d[j] = c[j + 1]
  <2>1. \A j \in 1 .. Len(s) - i : j + 1 \in 1 .. Len(s) - i + 1 /\ (j + 1) + i - 1 = j + i
    OBVIOUS
  <2>2. \A j \in 1 .. Len(s) - i : Later(s, i)[j + 1] = s[j + i]
    BY <1>7, <2>1
  <2>3. 1 \in 1 .. Len(s) - i + 1 /\ 1 + i - 1 = i
    OBVIOUS
  <2>4. Later(s, i)[1] = s[i]
    BY <1>7, <2>3
  <2> QED
    BY <1>7, <1>8, <2>2, <2>4
<1> HIDE DEF c, d
<1>10. Tail(c) \in Seq(W) /\ Len(Tail(c)) = Len(d) /\ \A j \in 1 .. Len(d) : Tail(c)[j] = d[j]
  BY <1>9
<1>11. Tail(c) = d
  BY <1>9, <1>10, SeqEqual
<1>12. Head(c) = s[i]
  BY <1>9
<1> QED
  BY <1>6, <1>11, <1>12 DEF a, b, x, c, d

\* The request has one value for each parameter.
LEMMA SentIs ==
  ASSUME NEW c \in DOMAIN gck_rpc_calls, NEW a
  PROVE  /\ Sent(c, a) \in Seq({Sent(c, a)[i] : i \in 1 .. NumIn(c)}) /\ Len(Sent(c, a)) = NumIn(c)
         /\ NumIn(c) \in Nat /\ NumIn(c) = Len(gck_rpc_calls[c].request)
         /\ Len(DaemonStubs[c].in) = NumIn(c)
         /\ \A i \in 1 .. NumIn(c) :
              /\ Sent(c, a)[i] = Encode(ClientStubs[c].in[i].macro, a[i])
              /\ ClientStubs[c].in[i].arg = i /\ DaemonStubs[c].in[i].arg = i
<1>1. NumIn(c) \in Nat /\ NumIn(c) = Len(gck_rpc_calls[c].request) /\ Len(DaemonStubs[c].in) = NumIn(c)
  BY InFacts DEF NumIn
<1>2. \A i \in 1 .. NumIn(c) : ClientStubs[c].in[i].arg = i /\ DaemonStubs[c].in[i].arg = i
  BY <1>1, InFacts
<1> DEFINE n == NumIn(c)
           s == [i \in 1 .. n |-> Encode(ClientStubs[c].in[i].macro, a[i])]
<1>3. s = Sent(c, a)
  BY DEF Sent, NumIn
<1>4. s \in Seq({s[i] : i \in 1 .. n}) /\ Len(s) = n
  <2>1. n \in Nat
    BY <1>1
  <2>2. DOMAIN s = 1 .. n /\ s = [i \in 1 .. n |-> s[i]]
    OBVIOUS
  <2> HIDE DEF s, n
  <2> QED
    BY <2>1, <2>2
<1>5. \A i \in 1 .. n : s[i] = Encode(ClientStubs[c].in[i].macro, a[i])
  OBVIOUS
<1> HIDE DEF s
<1> QED
  BY <1>1, <1>2, <1>3, <1>4, <1>5

\* Both sides have one macro for each parameter.
LEMMA NumInIs ==
  ASSUME NEW c \in DOMAIN gck_rpc_calls
  PROVE  /\ NumIn(c) \in Nat /\ Len(gck_rpc_calls[c].request) = NumIn(c)
         /\ Len(DaemonStubs[c].in) = NumIn(c)
         /\ \A i \in 1 .. NumIn(c) : DaemonStubs[c].in[i].arg = i
  BY SentIs

\* What the daemon has after reading one more parameter.
LEMMA GotNext ==
  ASSUME NEW c \in DOMAIN gck_rpc_calls, NEW a, NEW i \in 1 .. NumIn(c)
  PROVE  Output(i, Decode(DaemonStubs[c].in[i].macro, Sent(c, a)[i])) ++ Got(c, a, i - 1)
           = Got(c, a, i)
<1>0. i \in Nat /\ i >= 1
  BY SentIs
<1> DEFINE D(j) == Decode(DaemonStubs[c].in[j].macro, Sent(c, a)[j])
           o == [j \in {i} |-> D(i)]
           g == [j \in 1 .. i - 1 |-> D(j)]
<1> HIDE DEF D
<1>1. [j \in DOMAIN o \cup DOMAIN g |-> IF j \in DOMAIN o THEN o[j] ELSE g[j]] = [j \in 1 .. i |-> D(j)]
  BY <1>0
<1> QED
  BY <1>1 DEF ++, Output, Got, D

\* Before the first parameter the daemon has nothing.
LEMMA GotNone ==
  ASSUME NEW c, NEW a
  PROVE  Got(c, a, 0) = <<>>
  BY DEF Got

\* Every step keeps ArgInv.
LEMMA ArgStep == SigInv /\ ArgInv /\ [Next]_vars => ArgInv'
<1> SUFFICES ASSUME SigInv, ArgInv, [Next]_vars PROVE ArgInv'
  OBVIOUS
<1>0. \A c \in Calls : c \in DOMAIN gck_rpc_calls
  BY Known
<1>1. CASE Begin
  <2>1. PICK c \in Calls : call' = c /\ args' \in Args(c) /\ pc' \in {"client_in", "returned"}
    BY <1>1 DEF Begin
  <2>2. /\ pc = "idle" /\ k' = 1 /\ req' = <<>> /\ seen' = <<>> /\ reply' = Nobody
    BY <1>1 DEF Begin, SigInv, ArgInv
  <2>3. InDomain(call', args')
    BY <1>0, <2>1, ArgsInDomain DEF InDomain, NumIn
  <2>4. SubSeq(Sent(call', args'), 1, k' - 1) = <<>>
    <3> DEFINE s == Sent(call', args')
    <3>1. k' - 1 = 0
      BY <2>2
    <3>2. s \in Seq({s[i] : i \in 1 .. NumIn(call')})
      BY <1>0, <2>1, SentIs
    <3> HIDE DEF s
    <3>3. SubSeq(s, 1, 0) = <<>>
      BY <3>2
    <3> QED
      BY <3>1, <3>3 DEF s
  <2>5. Accepted(call', args', k' - 1)
    BY <2>2 DEF Accepted
  <2> QED
    BY <2>1, <2>2, <2>3, <2>4, <2>5 DEF ArgInv
<1>2. CASE ClientIn
  <2> DEFINE m == ClientStubs[call].in[k]
  <2>1. /\ pc = "client_in" /\ call \in DOMAIN gck_rpc_calls /\ call' = call /\ args' = args
        /\ seen' = seen /\ reply' = reply /\ reply = Nobody /\ seen = <<>>
        /\ k \in 1 .. NumIn(call) /\ InDomain(call, args) /\ Accepted(call, args, k - 1)
        /\ req = SubSeq(Sent(call, args), 1, k - 1)
    BY <1>0, <1>2 DEF ClientIn, SigInv, ArgInv, NumIn
  <2>2. CASE pc' = "returned"
    BY <2>1, <2>2 DEF ArgInv
  <2>3. CASE /\ Refusal(m.macro, args[m.arg]) = "OK" /\ req' = Append(req, Encode(m.macro, args[m.arg]))
             /\ k' = k + 1 /\ pc' = pc
    <3>1. m.arg = k /\ Sent(call, args)[k] = Encode(m.macro, args[k]) /\ NumIn(call) \in Nat
      BY <2>1, SentIs
    <3>2. req' = SubSeq(Sent(call, args), 1, k)
      BY <2>1, <2>3, <3>1, SentIs, NextOfSeq
    <3>3. Accepted(call, args, k)
      BY <2>1, <2>3, <3>1 DEF Accepted
    <3>4. k' - 1 = k
      BY <2>1, <2>3, <3>1
    <3> QED
      BY <2>1, <2>3, <3>2, <3>3, <3>4 DEF ArgInv
  <2> QED
    BY <1>2, <2>2, <2>3 DEF ClientIn
<1>3. CASE ClientRun
  <2>1. /\ pc = "client_in" /\ call \in DOMAIN gck_rpc_calls /\ call' = call /\ args' = args
        /\ seen' = seen /\ reply' = reply /\ reply = Nobody /\ seen = <<>> /\ req' = req
        /\ k > NumIn(call) /\ InDomain(call, args) /\ Accepted(call, args, k - 1)
        /\ req = SubSeq(Sent(call, args), 1, k - 1) /\ k \in Nat
        /\ k <= Len(gck_rpc_calls[call].request) + 1 /\ pc' = "daemon_in" /\ k' = 1
    BY <1>0, <1>3 DEF ClientRun, SigInv, ArgInv, NumIn
  <2>2. k - 1 = NumIn(call) /\ NumIn(call) = Len(Sent(call, args))
    <3>1. k - 1 = NumIn(call)
      BY <2>1, NumInIs
    <3> QED
      BY <2>1, <3>1, SentIs
  <2>3. Later(Sent(call, args), 1) = SubSeq(Sent(call, args), 1, k - 1)
    BY <2>2 DEF Later
  <2>4. Got(call, args, k' - 1) = <<>>
    BY <2>1, GotNone
  <2> QED
    BY <2>1, <2>2, <2>3, <2>4 DEF ArgInv
<1>4. CASE DaemonIn
  <2> DEFINE m == DaemonStubs[call].in[k]
  <2>1. /\ pc = "daemon_in" /\ call \in DOMAIN gck_rpc_calls /\ call' = call /\ args' = args
        /\ reply' = reply /\ reply = Nobody /\ pc' = pc /\ k' = k + 1
        /\ k \in Nat /\ k >= 1 /\ k <= Len(DaemonStubs[call].in) /\ InDomain(call, args)
        /\ Accepted(call, args, NumIn(call))
        /\ req = Later(Sent(call, args), k) /\ seen = Got(call, args, k - 1)
        /\ req' = Tail(req) /\ seen' = Output(m.arg, Decode(m.macro, Head(req))) ++ seen
    BY <1>0, <1>4 DEF DaemonIn, SigInv, ArgInv
  <2>2. k \in 1 .. NumIn(call) /\ m.arg = k
    BY <2>1, NumInIs
  <2>3. Head(req) = Sent(call, args)[k] /\ req' = Later(Sent(call, args), k + 1)
    <3> DEFINE s == Sent(call, args)
               W == {s[i] : i \in 1 .. NumIn(call)}
    <3>1. s \in Seq(W) /\ Len(s) = NumIn(call)
      BY <2>1, SentIs
    <3>2. req = Later(s, k) /\ req' = Tail(req) /\ k \in 1 .. Len(s)
      BY <2>1, <2>2, <3>1
    <3> HIDE DEF s, W
    <3>3. Head(Later(s, k)) = s[k] /\ Tail(Later(s, k)) = Later(s, k + 1)
      BY <3>1, <3>2, NextOfSeq
    <3> QED
      BY <3>2, <3>3 DEF s
  <2>4. seen' = Got(call, args, k)
    BY <2>1, <2>2, <2>3, GotNext
  <2>5. k' - 1 = k
    BY <2>1
  <2> QED
    BY <2>1, <2>3, <2>4, <2>5 DEF ArgInv
<1>5. CASE DaemonProcess
  <2>1. /\ pc = "daemon_in" /\ call \in DOMAIN gck_rpc_calls /\ call' = call /\ args' = args
        /\ reply = Nobody /\ pc' \in {"daemon_out", "daemon_done"} /\ seen' = seen
        /\ k \in Nat /\ k > Len(DaemonStubs[call].in) /\ k <= Len(gck_rpc_calls[call].request) + 1
        /\ InDomain(call, args) /\ Accepted(call, args, NumIn(call)) /\ seen = Got(call, args, k - 1)
    BY <1>0, <1>5 DEF DaemonProcess, SigInv, ArgInv
  <2>2. k - 1 = NumIn(call)
    BY <2>1, NumInIs
  <2> QED
    BY <2>1, <2>2 DEF ArgInv
<1>6. CASE DaemonOut \/ DaemonDone \/ ClientOut \/ ClientDone
  <2>1. /\ pc \in {"daemon_out", "daemon_done", "client_out"} /\ UNCHANGED <<call, args, seen, reply>>
        /\ pc' \in {"daemon_out", "daemon_done", "client_out", "returned"}
    BY <1>6 DEF DaemonOut, DaemonDone, ClientOut, ClientDone
  <2> QED
    BY <2>1 DEF ArgInv
<1>10. CASE Return
  BY <1>10 DEF Return, ArgInv
<1>11. CASE UNCHANGED vars
  BY <1>11 DEF vars, ArgInv
<1> QED
  BY <1>1, <1>2, <1>3, <1>4, <1>5, <1>6, <1>10, <1>11 DEF Next

\* With ArgInv the module sees the arguments of the application.
LEMMA ArgImplies == ~ZeroBuffers /\ SigInv /\ ArgInv => ArgumentsArrive
<1> SUFFICES ASSUME ~ZeroBuffers, SigInv, ArgInv, reply # Nobody,
                    NEW m \in ToSet(ClientStubs[call].in)
             PROVE  m.arg \in DOMAIN seen /\ SameArgument(m.macro, args[m.arg], seen[m.arg])
  BY DEF ArgumentsArrive
<1>0. call \in DOMAIN gck_rpc_calls /\ InDomain(call, args)
      /\ Accepted(call, args, NumIn(call)) /\ seen = Got(call, args, NumIn(call))
  BY Known DEF SigInv, ArgInv
<1>1. PICK i \in 1 .. NumIn(call) : m = ClientStubs[call].in[i]
  <2>1. ClientStubs[call].in \in Seq(Macro)
    BY <1>0, InFacts
  <2> QED
    BY <2>1 DEF ToSet, NumIn
<1> DEFINE d == DaemonStubs[call].in[i].macro
<1>2. /\ m.arg = i /\ m.macro \in InMacros /\ Refusal(m.macro, args[i]) = "OK"
      /\ m.macro = d \/ (m.macro = "MECHANISM_TYPE" /\ d = "ULONG")
      /\ args[i] \in MacroDomain(call, m.macro)
  <2>1. Agreed(call, gck_rpc_calls[call], ClientStubs[call], DaemonStubs[call])
    BY <1>0, Agreement
  <2>2. i \in 1 .. Len(gck_rpc_calls[call].request)
    BY <1>0, SentIs
  <2>3. Fits(gck_rpc_calls[call].request[i], m, DaemonStubs[call].in[i], i)
    BY <1>1, <2>1, <2>2 DEF Agreed, InAgree
  <2> QED
    BY <1>0, <1>1, <2>3 DEF Fits, Macro, InDomain, Accepted
<1>3. i \in DOMAIN seen /\ seen[i] = Decode(d, Encode(m.macro, args[i]))
  <2>1. Sent(call, args)[i] = Encode(m.macro, args[i])
    BY <1>0, <1>1, SentIs
  <2> QED
    BY <1>0, <2>1 DEF Got
<1>4. SameArgument(m.macro, args[i], Decode(d, Encode(m.macro, args[i])))
  BY <1>2, ArgumentArrives
<1> QED
  BY <1>2, <1>3, <1>4

\* The module of the daemon is called with the arguments the application gave:
\* numbers, strings, arrays, templates and mechanisms with their values, buffers
\* with the room they have.  ~ZeroBuffers leaves out buffers that have a pointer
\* and no room, which arrive without their pointer.
THEOREM ArgumentsReachTheModule ==
  ASSUME ~ZeroBuffers
  PROVE  Spec => []ArgumentsArrive
<1>1. Init => SigInv /\ ArgInv
  BY DEF Init, SigInv, Places, ArgInv
<1>2. SigInv /\ ArgInv /\ [Next]_vars => SigInv' /\ ArgInv'
  BY SigStep, ArgStep
<1>3. SigInv /\ ArgInv => ArgumentsArrive
  BY ArgImplies
<1> QED
  BY <1>1, <1>2, <1>3, PTL DEF Spec

-----------------------------------------------------------------------------
(* What the module returns.                                                *)

\* The outputs of a call that returns one thing, ...
LEMMA OneOut ==
  ASSUME NEW c, NEW m, DaemonStubs[c].out = <<m>>
  PROVE  /\ Outs(c) = {m} /\ OutMacros(c) = {m.macro} /\ (CHOOSE x \in Outs(c) : TRUE) = m
         /\ OutUlongs(c) = IF m.macro = "ULONG" THEN {m.arg} ELSE {}
<1>1. Outs(c) = {m}
  BY DEF Outs, ToSet
<1>2. OutMacros(c) = {m.macro} /\ (CHOOSE x \in Outs(c) : TRUE) = m
  BY <1>1 DEF OutMacros
<1> QED
  BY <1>1, <1>2 DEF OutUlongs

\* ... nothing, ...
LEMMA NoOuts ==
  ASSUME NEW c, DaemonStubs[c].out = <<>>
  PROVE  OutMacros(c) = {} /\ OutUlongs(c) = {}
<1>1. Outs(c) = {}
  BY DEF Outs, ToSet
<1> QED
  BY <1>1 DEF OutMacros, OutUlongs

\* ... or two numbers.
LEMMA TwoOuts ==
  ASSUME NEW c, NEW n \in Nat, DaemonStubs[c].out = <<OUT_ULONG(n), OUT_ULONG(n + 1)>>
  PROVE  OutMacros(c) = {"ULONG"} /\ OutUlongs(c) = {n, n + 1}
<1>1. Outs(c) = {OUT_ULONG(n), OUT_ULONG(n + 1)}
  BY DEF Outs, ToSet
<1>2. /\ OUT_ULONG(n).macro = "ULONG" /\ OUT_ULONG(n + 1).macro = "ULONG"
      /\ OUT_ULONG(n).arg = n /\ OUT_ULONG(n + 1).arg = n + 1
  BY DEF OUT_ULONG
<1> QED
  BY <1>1, <1>2 DEF OutMacros, OutUlongs

\* C_CloseAllSessions has no output.
LEMMA CloseAllStub == DaemonStubs["C_CloseAllSessions"].out = <<>>
<1>1. DaemonStubs["C_CloseAllSessions"] = Plain
  BY DaemonLookup, DaemonDomains DEF DaemonSessionCalls
<1> QED
  BY <1>1 DEF Plain, Stub, CheckedStub

\* A call with one output is another one.
LEMMA NotCloseAll ==
  ASSUME NEW c, NEW m, DaemonStubs[c].out = <<m>>
  PROVE  c # "C_CloseAllSessions"
  BY CloseAllStub

\* What the module does: it fails, ...
LEMMA FailedModule ==
  ASSUME NEW c, NEW a, NEW w, w.ret = "FAIL"
  PROVE  Served(c, a, w) = Reply("FAIL", <<>>)
  BY DEF Served, Module, CloseAllSessions

\* ... fills a buffer, ...
LEMMA BytesModule ==
  ASSUME NEW c, c \notin Special, NEW a, NEW w, w.ret # "FAIL", NEW n,
         DaemonStubs[c].out = <<OUT_BYTE_ARRAY(n)>> \/ DaemonStubs[c].out = <<OUT_ULONG_ARRAY(n)>>
  PROVE  Served(c, a, w) = FillBuffer(n, a[n], w.need)
<1>1. PICK m \in {OUT_BYTE_ARRAY(n), OUT_ULONG_ARRAY(n)} : DaemonStubs[c].out = <<m>>
  OBVIOUS
<1>2. m.arg = n /\ m.macro \in {"BYTE_ARRAY", "ULONG_ARRAY"}
  BY DEF OUT_BYTE_ARRAY, OUT_ULONG_ARRAY
<1>3. OutMacros(c) \cap {"BYTE_ARRAY", "ULONG_ARRAY"} # {} /\ OutMacros(c) \cap InfoMacros = {}
  BY <1>1, <1>2, OneOut, InfoNames
<1>4. (CHOOSE x \in Outs(c) : TRUE).arg = n
  BY <1>1, <1>2, OneOut
<1>5. c # "C_CloseAllSessions"
  BY <1>1, CloseAllStub
<1> QED
  BY <1>3, <1>4, <1>5 DEF Served, Module, Special

\* ... lists its mechanisms, ...
LEMMA MechanismListModule ==
  ASSUME NEW a, NEW w, w.ret # "FAIL",
         DaemonStubs["C_GetMechanismList"].out = <<OUT_ULONG_ARRAY(2)>>
  PROVE  Served("C_GetMechanismList", a, w) = FillBuffer(2, a[2], w.need)
<1> DEFINE c == "C_GetMechanismList"  m == OUT_ULONG_ARRAY(2)
<1>2. m.arg = 2 /\ m.macro = "ULONG_ARRAY"
  BY DEF OUT_ULONG_ARRAY
<1>3. OutMacros(c) \cap {"BYTE_ARRAY", "ULONG_ARRAY"} # {} /\ OutMacros(c) \cap InfoMacros = {}
  BY <1>2, OneOut, InfoNames
<1>4. (CHOOSE x \in Outs(c) : TRUE).arg = 2
  BY <1>2, OneOut
<1> QED
  BY <1>3, <1>4 DEF Served, Module

\* ... does one of the special calls, ...
LEMMA SpecialModules ==
  ASSUME NEW a, NEW w, w.ret # "FAIL"
  PROVE  /\ /\ OutMacros("C_GetAttributeValue") \cap InfoMacros = {}
            /\ OutMacros("C_GetAttributeValue") \cap {"BYTE_ARRAY", "ULONG_ARRAY"} = {}
            => Served("C_GetAttributeValue", a, w) = GetAttributes(a[3], w.attrs)
         /\ OutMacros("C_FindObjects") \cap InfoMacros = {} =>
              Served("C_FindObjects", a, w) = FindObjects(a[2], w.need)
         /\ OutMacros("C_GenerateRandom") \cap InfoMacros = {} =>
              Served("C_GenerateRandom", a, w) =
                Reply("OK", Output(2, [len |-> a[2].len, got |-> TRUE]))
  BY DEF Served, Module

\* ... fills an information structure, ...
LEMMA InfoModule ==
  ASSUME NEW c, c \notin Special, NEW a, NEW w, w.ret # "FAIL", NEW m, m.macro \in InfoMacros,
         DaemonStubs[c].out = <<m>>
  PROVE  Served(c, a, w) = Reply("OK", Output(m.arg, Info(DaemonFields[m.macro], w)))
<1>3. OutMacros(c) \cap {"BYTE_ARRAY", "ULONG_ARRAY"} = {} /\ OutMacros(c) \cap InfoMacros # {}
  BY OneOut, InfoNames
<1>4. (CHOOSE x \in Outs(c) : TRUE) = m
  BY OneOut
<1>5. c # "C_CloseAllSessions"
  BY CloseAllStub
<1> QED
  BY <1>3, <1>4, <1>5 DEF Served, Module, Special

\* ... returns numbers ...
LEMMA NumbersModule ==
  ASSUME NEW c, c \notin Special, c # "C_CloseAllSessions", NEW a, NEW w, w.ret # "FAIL", OutMacros(c) \subseteq {"ULONG"}
  PROVE  Served(c, a, w) = Reply("OK", w.ulongs)
<1>3. OutMacros(c) \cap {"BYTE_ARRAY", "ULONG_ARRAY"} = {} /\ OutMacros(c) \cap InfoMacros = {}
  BY InfoNames
<1> QED
  BY <1>3 DEF Served, Module, Special

\* ... or closes the sessions of a slot.
LEMMA CloseAllModule ==
  ASSUME NEW a, NEW s, NEW w
  PROVE  /\ Served("C_CloseAllSessions", a, w) = Served("C_CloseAllSessions", s, w)
         /\ Served("C_CloseAllSessions", a, w).outs = <<>>
  BY DEF Served, CloseAllSessions, Reply

-----------------------------------------------------------------------------
(* The daemon's copies of the arguments get the same answer.               *)

\* Argument i of the application and of the daemon.
LEMMA ArgIs ==
  ASSUME NEW c \in DOMAIN gck_rpc_calls, NEW a, NEW s, NEW i \in 1 .. NumIn(c),
         InDomain(c, a), Accepted(c, a, NumIn(c)), s = Got(c, a, NumIn(c)), ~ZeroBuffers
  PROVE  /\ SameArgument(ClientStubs[c].in[i].macro, a[i], s[i])
         /\ a[i] \in MacroDomain(c, ClientStubs[c].in[i].macro)
         /\ Refusal(ClientStubs[c].in[i].macro, a[i]) = "OK"
         /\ i \in DOMAIN s /\ s[i] = Decode(DaemonStubs[c].in[i].macro,
             Encode(ClientStubs[c].in[i].macro, a[i]))
         /\ \/ DaemonStubs[c].in[i].macro = ClientStubs[c].in[i].macro
            \/ ClientStubs[c].in[i].macro = "MECHANISM_TYPE"
<1> DEFINE m == ClientStubs[c].in[i]
           d == DaemonStubs[c].in[i].macro
<1>2. /\ m.macro \in InMacros /\ Refusal(m.macro, a[i]) = "OK"
      /\ m.macro = d \/ (m.macro = "MECHANISM_TYPE" /\ d = "ULONG")
      /\ a[i] \in MacroDomain(c, m.macro)
  <2>1. Agreed(c, gck_rpc_calls[c], ClientStubs[c], DaemonStubs[c])
    BY Agreement
  <2>2. i \in 1 .. Len(gck_rpc_calls[c].request)
    BY SentIs
  <2>3. Fits(gck_rpc_calls[c].request[i], m, DaemonStubs[c].in[i], i)
    BY <2>1, <2>2 DEF Agreed, InAgree
  <2> QED
    BY <2>3 DEF Fits, Macro, InDomain, Accepted
<1>3. i \in DOMAIN s /\ s[i] = Decode(d, Encode(m.macro, a[i]))
  <2>1. Sent(c, a)[i] = Encode(m.macro, a[i])
    BY SentIs
  <2> QED
    BY <2>1 DEF Got
<1>4. SameArgument(m.macro, a[i], Decode(d, Encode(m.macro, a[i])))
  BY <1>2, ArgumentArrives
<1> QED
  BY <1>2, <1>3, <1>4

\* Buffers the daemon cannot tell from the client's.
SameBuffer(v, s) == s.cnt = v.cnt /\ s.ptr = v.ptr /\ (v.ptr => s.len = v.len)

\* The fields of a buffer.
LEMMA BufferType ==
  ASSUME NEW v \in Buffers
  PROVE  v.cnt \in BOOLEAN /\ v.ptr \in BOOLEAN /\ v.len \in Nat
<1>1. CASE v \in [ptr : BOOLEAN, cnt : {TRUE}, len : Lens]
  BY <1>1, LensAreNats
<1>2. CASE v \in [ptr : BOOLEAN, cnt : {FALSE}, len : {0}]
  <2>1. v.cnt \in {FALSE}
    BY <1>2
  <2>2. v.ptr \in BOOLEAN
    BY <1>2
  <2>3. v.len = 0
    BY <1>2
  <2>4. v.cnt \in BOOLEAN
    BY <2>1, Zenon
  <2> QED
    BY <2>2, <2>3, <2>4
<1> QED
  BY <1>1, <1>2 DEF Buffers

\* The module gets the same room as the application has.
LEMMA BufferIs ==
  ASSUME NEW c \in DOMAIN gck_rpc_calls, NEW a, NEW s, NEW i \in 1 .. NumIn(c),
         InDomain(c, a), Accepted(c, a, NumIn(c)), s = Got(c, a, NumIn(c)), ~ZeroBuffers,
         ClientStubs[c].in[i].macro \in {"BYTE_BUFFER", "ULONG_BUFFER"}
  PROVE  /\ SameBuffer(a[i], s[i]) /\ a[i].cnt \in BOOLEAN /\ a[i].ptr \in BOOLEAN /\ a[i].len \in Nat
         /\ ClientStubs[c].in[i].macro = "ULONG_BUFFER" => a[i].cnt
         /\ c = "C_GenerateRandom" => a[i].cnt \/ ClientStubs[c].in[i].macro = "ULONG_BUFFER"
<1>1. a[i] \in Buffers /\ SameArgument(ClientStubs[c].in[i].macro, a[i], s[i])
  BY ArgIs DEF MacroDomain
<1>2. a[i].cnt \in BOOLEAN /\ a[i].ptr \in BOOLEAN /\ a[i].len \in Nat
  BY <1>1, BufferType
<1>3. CASE ClientStubs[c].in[i].macro = "BYTE_BUFFER"
  <2>1. s[i] = a[i]
    BY <1>1, <1>3 DEF SameArgument
  <2>2. c = "C_GenerateRandom" => a[i].cnt
    BY <1>3, ArgIs DEF MacroDomain
  <2> QED
    BY <1>2, <1>3, <2>1, <2>2 DEF SameBuffer
<1>4. CASE ClientStubs[c].in[i].macro = "ULONG_BUFFER"
  <2>1. a[i].cnt /\ s[i].ptr = a[i].ptr /\ (a[i].ptr => s[i].len = a[i].len)
    BY <1>1, <1>4, ArgIs DEF SameArgument, Refusal
  <2>2. s[i] = Decode("ULONG_BUFFER", Encode("ULONG_BUFFER", a[i]))
    BY <1>4, ArgIs
  <2>3. s[i].cnt = TRUE
    <3> DEFINE f == Encode("ULONG_BUFFER", a[i])
    <3> HIDE DEF f
    <3>1. Decode("ULONG_BUFFER", f).cnt = TRUE
      BY DEF Decode, read_ulong_buffer
    <3> QED
      BY <2>2, <3>1 DEF f
  <2>4. s[i].cnt = a[i].cnt
    BY <1>2, <2>1, <2>3, Zenon
  <2> QED
    BY <1>2, <1>4, <2>1, <2>4 DEF SameBuffer
<1> QED
  BY <1>3, <1>4

\* The same room is filled in the same way.
LEMMA SameFill ==
  ASSUME NEW n, NEW v, NEW s, NEW need, SameBuffer(v, s)
  PROVE  FillBuffer(n, s, need) = FillBuffer(n, v, need) /\ FindObjects(s, need) = FindObjects(v, need)
  BY DEF SameBuffer, FillBuffer, FindObjects

\* A template has at most MaxAttrs attributes.
LEMMA TemplateSize ==
  ASSUME NEW v, v \in Template(BufferAttr), ~ (v.num # 0 /\ ~v.ptr)
  PROVE  v.num <= MaxAttrs
<1>1. CASE v \in [ptr : {FALSE}, num : {0, 1}, attrs : {<<>>}]
  <2>1. v.ptr = FALSE /\ v.num \in {0, 1}
    BY <1>1
  <2>2. ~v.ptr
    BY <2>1, Zenon
  <2>3. v.num = 0
    BY <2>1, <2>2
  <2> QED
    BY <2>3, MarshalAssumption
<1>2. CASE \E n \in 0 .. MaxAttrs :
             \E s \in {t \in [1 .. n -> UNION {BufferAttr(i) : i \in 1 .. n}] :
                         \A i \in 1 .. n : t[i] \in BufferAttr(i)} :
               v = [ptr |-> TRUE, num |-> n, attrs |-> s]
  BY <1>2, MarshalAssumption
<1> QED
  BY <1>1, <1>2 DEF Template

\* The module gets the application's template.
LEMMA AttributesAre ==
  ASSUME NEW c \in DOMAIN gck_rpc_calls, NEW a, NEW s, NEW i \in 1 .. NumIn(c),
         InDomain(c, a), Accepted(c, a, NumIn(c)), s = Got(c, a, NumIn(c)), ~ZeroBuffers,
         ClientStubs[c].in[i].macro = "ATTRIBUTE_BUFFER"
  PROVE  /\ DOMAIN s[i].attrs = DOMAIN a[i].attrs /\ DOMAIN a[i].attrs = 1 .. a[i].num
         /\ a[i].num \in Nat /\ a[i].num <= MaxAttrs
         /\ \A j \in DOMAIN a[i].attrs :
              /\ s[i].attrs[j].type = a[i].attrs[j].type /\ s[i].attrs[j].ptr = a[i].attrs[j].ptr
              /\ a[i].attrs[j].ptr => s[i].attrs[j].len = a[i].attrs[j].len
              /\ a[i].attrs[j].ptr \in BOOLEAN /\ a[i].attrs[j].len \in Nat /\ a[i].attrs[j].type = j
              /\ DOMAIN s[i].attrs[j] = {"type", "ptr", "len"}
<1> DEFINE v == a[i]  f == Encode("ATTRIBUTE_BUFFER", v)  u == s[i]
<1>1. /\ v \in Template(BufferAttr) /\ ~ (v.num # 0 /\ ~v.ptr)
      /\ SameArgument("ATTRIBUTE_BUFFER", v, u) /\ u = Decode("ATTRIBUTE_BUFFER", f)
  <2>1. /\ SameArgument("ATTRIBUTE_BUFFER", v, u) /\ v \in MacroDomain(c, "ATTRIBUTE_BUFFER")
        /\ Refusal("ATTRIBUTE_BUFFER", v) = "OK" /\ u = Decode("ATTRIBUTE_BUFFER", f)
    BY ArgIs
  <2> HIDE DEF v, u, f
  <2>2. v \in Template(BufferAttr)
    BY <2>1 DEF MacroDomain
  <2>3. ~ (v.num # 0 /\ ~v.ptr)
    BY <2>1 DEF Refusal
  <2> QED
    BY <2>1, <2>2, <2>3
<1> HIDE DEF v, u
<1>2. /\ v.num \in Nat /\ DOMAIN v.attrs = 1 .. v.num
      /\ \A j \in 1 .. v.num : v.attrs[j] \in BufferAttr(j)
  BY <1>1, TemplateShape
<1>3. v.num <= MaxAttrs
  BY <1>1, TemplateSize
<1>4. DOMAIN f = 1 .. v.num
  BY <1>2 DEF Encode, write_attribute_buffer
<1> HIDE DEF f
<1> DEFINE P(j) == f[j].len # 0
<1>5. /\ DOMAIN u.attrs = DOMAIN f
      /\ \A j \in DOMAIN f : u.attrs[j] = [type |-> f[j].type, ptr |-> P(j), len |-> f[j].len]
  BY <1>1 DEF Decode, read_attribute_buffer
<1> HIDE DEF P
<1>6. \A j \in DOMAIN f : DOMAIN u.attrs[j] = {"type", "ptr", "len"}
  <2> SUFFICES ASSUME NEW j \in DOMAIN f PROVE DOMAIN u.attrs[j] = {"type", "ptr", "len"}
    OBVIOUS
  <2> DEFINE x == f[j].type  y == P(j)  z == f[j].len  r == u.attrs[j]
  <2>1. r = [type |-> x, ptr |-> y, len |-> z]
    BY <1>5
  <2> HIDE DEF x, y, z, r
  <2>2. DOMAIN r = {"type", "ptr", "len"}
    BY <2>1
  <2> QED
    BY <2>2 DEF r
<1>7. \A j \in 1 .. v.num :
        /\ u.attrs[j].type = v.attrs[j].type /\ u.attrs[j].ptr = v.attrs[j].ptr
        /\ v.attrs[j].ptr => u.attrs[j].len = v.attrs[j].len
  BY <1>1 DEF SameArgument
<1>8. \A j \in 1 .. v.num : v.attrs[j].ptr \in BOOLEAN /\ v.attrs[j].len \in Nat /\ v.attrs[j].type = j
  BY <1>2, LensAreNats DEF BufferAttr
<1> QED
  BY <1>2, <1>3, <1>4, <1>5, <1>6, <1>7, <1>8 DEF v, u

\* The same template is filled in the same way.
LEMMA SameAttributes ==
  ASSUME NEW v, NEW u, NEW needs, DOMAIN u.attrs = DOMAIN v.attrs,
         \A j \in DOMAIN v.attrs :
              /\ u.attrs[j].type = v.attrs[j].type /\ u.attrs[j].ptr = v.attrs[j].ptr
              /\ v.attrs[j].ptr => u.attrs[j].len = v.attrs[j].len
  PROVE  GetAttributes(u, needs) = GetAttributes(v, needs)
<1> DEFINE Get(x) == LET need == needs[x.type]
                     IN  IF need = Unavailable \/ (x.ptr /\ x.len < need)
                         THEN [len |-> Unavailable, got |-> FALSE]
                         ELSE [len |-> need, got |-> x.ptr]
           Missing(x) == needs[x.type] = Unavailable
           Small(x)   == x.ptr /\ x.len < needs[x.type]
           Out(t) == Reply(IF \E i \in DOMAIN t.attrs : Missing(t.attrs[i]) THEN "ATTRIBUTE_SENSITIVE"
                           ELSE IF \E i \in DOMAIN t.attrs : Small(t.attrs[i]) THEN "BUFFER_TOO_SMALL"
                           ELSE "OK",
                           Output(3, [i \in DOMAIN t.attrs |-> Get(t.attrs[i])]))
<1>1. GetAttributes(u, needs) = Out(u) /\ GetAttributes(v, needs) = Out(v)
  BY DEF GetAttributes
<1>2. \A j \in DOMAIN v.attrs : /\ Missing(u.attrs[j]) <=> Missing(v.attrs[j])
                                /\ Small(u.attrs[j]) <=> Small(v.attrs[j])
                                /\ Get(u.attrs[j]) = Get(v.attrs[j])
  OBVIOUS
<1> HIDE DEF Get, Missing, Small
<1>3. [i \in DOMAIN u.attrs |-> Get(u.attrs[i])] = [i \in DOMAIN v.attrs |-> Get(v.attrs[i])]
  BY <1>2
<1>4. /\ (\E i \in DOMAIN u.attrs : Missing(u.attrs[i]))
            <=> (\E i \in DOMAIN v.attrs : Missing(v.attrs[i]))
      /\ (\E i \in DOMAIN u.attrs : Small(u.attrs[i])) <=> (\E i \in DOMAIN v.attrs : Small(v.attrs[i]))
  BY <1>2
<1>5. Out(u) = Out(v)
  BY <1>3, <1>4
<1> QED
  BY <1>1, <1>5

\* The module answers the daemon as it would answer the application.
LEMMA SameReply ==
  ASSUME NEW c \in DOMAIN gck_rpc_calls, NEW a, NEW s, NEW w,
         InDomain(c, a), Accepted(c, a, NumIn(c)), s = Got(c, a, NumIn(c)), ~ZeroBuffers
  PROVE  Served(c, s, w) = Served(c, a, w)
<1> DEFINE g == gck_rpc_calls[c]  cl == ClientStubs[c]  da == DaemonStubs[c]
<1>0. CASE w.ret = "FAIL"
  BY <1>0, FailedModule
<1>1. Agreed(c, g, cl, da)
  BY Agreement
<1>1n. Len(g.request) = NumIn(c) /\ NumIn(c) \in Nat
  BY NumInIs
<1> HIDE DEF g, cl, da
<1>2. CASE NoOut(c, g, cl, da) /\ w.ret # "FAIL"
  <2>1. c \notin Special /\ OutMacros(c) \subseteq {"ULONG"}
    BY <1>2, NoOuts DEF NoOut, da
  <2> QED
    BY <1>2, <2>1, NumbersModule, CloseAllModule
<1>3. CASE BytesOut(c, g, cl, da) /\ w.ret # "FAIL"
  <2>1. PICK n \in 1 .. Len(g.request) :
           /\ da.out = <<OUT_BYTE_ARRAY(n)>> /\ cl.in[n].macro = "BYTE_BUFFER"
           /\ c \notin Special \/ (c = "C_GenerateRandom" /\ n = 2)
    BY <1>3 DEF BytesOut
  <2>2. n \in 1 .. NumIn(c)
    BY <1>1n, <2>1
  <2>3. CASE c \notin Special
    <3>1. SameBuffer(a[n], s[n])
      BY <2>1, <2>2, BufferIs DEF cl
    <3> QED
      BY <1>3, <2>1, <2>3, <3>1, SameFill, BytesModule DEF da
  <2>4. CASE c = "C_GenerateRandom" /\ n = 2
    <3>1. s[n] = a[n]
      BY <2>1, <2>2, ArgIs DEF cl, SameArgument
    <3>2. OutMacros(c) \cap InfoMacros = {}
      BY <2>1, OneOut, InfoNames DEF OUT_BYTE_ARRAY, da
    <3> QED
      BY <1>3, <2>4, <3>1, <3>2, SpecialModules
  <2> QED
    BY <2>1, <2>3, <2>4
<1>4. CASE UlongsOut(c, g, cl, da) /\ w.ret # "FAIL"
  <2>1. /\ da.out = <<OUT_ULONG_ARRAY(2)>> /\ cl.in[2].macro = "ULONG_BUFFER" /\ 2 \in 1 .. NumIn(c)
        /\ c \notin {"C_GetAttributeValue", "C_GenerateRandom"}
    BY <1>1n, <1>4 DEF UlongsOut
  <2>2. SameBuffer(a[2], s[2])
    BY <2>1, BufferIs DEF cl
  <2>3. CASE c \notin Special
    BY <1>4, <2>1, <2>2, <2>3, SameFill, BytesModule DEF da
  <2>4. CASE c = "C_GetMechanismList"
    BY <1>4, <2>1, <2>2, <2>4, SameFill, MechanismListModule DEF da
  <2>5. CASE c = "C_FindObjects"
    <3>2. OutMacros(c) \cap InfoMacros = {}
      BY <2>1, OneOut, InfoNames DEF OUT_ULONG_ARRAY, da
    <3>3. Served(c, a, w) = FindObjects(a[2], w.need) /\ Served(c, s, w) = FindObjects(s[2], w.need)
      BY <1>4, <2>5, <3>2, SpecialModules
    <3> QED
      BY <2>2, <3>3, SameFill
  <2> QED
    BY <2>1, <2>3, <2>4, <2>5 DEF Special
<1>5. CASE AttrsOut(c, g, cl, da) /\ w.ret # "FAIL"
  <2>1. /\ da.out = <<OUT_ATTRIBUTE_ARRAY(3)>> /\ cl.in[3].macro = "ATTRIBUTE_BUFFER"
        /\ 3 \in 1 .. NumIn(c) /\ c = "C_GetAttributeValue"
    BY <1>1n, <1>5 DEF AttrsOut
  <2>2. OutMacros(c) \cap InfoMacros = {} /\ OutMacros(c) \cap {"BYTE_ARRAY", "ULONG_ARRAY"} = {}
    BY <2>1, OneOut, InfoNames DEF OUT_ATTRIBUTE_ARRAY, da
  <2>3. GetAttributes(s[3], w.attrs) = GetAttributes(a[3], w.attrs)
    <3> DEFINE v == a[3]  u == s[3]
    <3>1. /\ DOMAIN u.attrs = DOMAIN v.attrs
          /\ \A j \in DOMAIN v.attrs :
               /\ u.attrs[j].type = v.attrs[j].type /\ u.attrs[j].ptr = v.attrs[j].ptr
               /\ v.attrs[j].ptr => u.attrs[j].len = v.attrs[j].len
      <4>1. ClientStubs[c].in[3].macro = "ATTRIBUTE_BUFFER"
        BY <2>1 DEF cl
      <4> QED
        BY <2>1, <4>1, AttributesAre
    <3> HIDE DEF v, u
    <3>2. GetAttributes(u, w.attrs) = GetAttributes(v, w.attrs)
      BY <3>1, SameAttributes
    <3> QED
      BY <3>2 DEF v, u
  <2> QED
    BY <1>5, <2>1, <2>2, <2>3, SpecialModules
<1>6. CASE InfoOut(c, g, cl, da) /\ w.ret # "FAIL"
  <2>1. PICK m \in [macro : InfoMacros, arg : Nat] : da.out = <<m>> /\ c \notin Special
    BY <1>6 DEF InfoOut
  <2> QED
    BY <1>6, <2>1, InfoModule DEF da
<1>7. CASE NumsOut(c, g, cl, da) /\ w.ret # "FAIL"
  <2>1. PICK n \in Nat : da.out = <<OUT_ULONG(n)>> \/ da.out = <<OUT_ULONG(n), OUT_ULONG(n + 1)>>
    BY <1>7 DEF NumsOut
  <2>2. OutMacros(c) \subseteq {"ULONG"} /\ c \notin Special
    <3>1. CASE da.out = <<OUT_ULONG(n)>>
      BY <1>7, <3>1, OneOut DEF NumsOut, OUT_ULONG, da
    <3>2. CASE da.out = <<OUT_ULONG(n), OUT_ULONG(n + 1)>>
      BY <1>7, <3>2, TwoOuts DEF NumsOut, da
    <3> QED
      BY <2>1, <3>1, <3>2
  <2>3. c # "C_CloseAllSessions"
    <3>1. CASE da.out = <<OUT_ULONG(n)>>
      BY <3>1, NotCloseAll DEF da
    <3>2. CASE da.out = <<OUT_ULONG(n), OUT_ULONG(n + 1)>>
      <4>1. Len(da.out) = 2
        BY <3>2
      <4> QED
        BY <4>1, CloseAllStub DEF da
    <3> QED
      BY <2>1, <3>1, <3>2
  <2> QED
    BY <1>7, <2>2, <2>3, NumbersModule
<1> QED
  BY <1>0, <1>1, <1>2, <1>3, <1>4, <1>5, <1>6, <1>7 DEF Agreed

-----------------------------------------------------------------------------
(* What the client makes of what the daemon writes.                        *)

\* The first output of a call.
LEMMA FirstOutput ==
  ASSUME NEW n, NEW v
  PROVE  Output(n, v) ++ <<>> = Output(n, v) /\ Output(n, v)[n] = v
  BY DEF Output, ++

\* The fields of a reply.
LEMMA ReplyIs ==
  ASSUME NEW r, NEW o
  PROVE  Reply(r, o).ret = r /\ Reply(r, o).outs = o
  BY DEF Reply

\* The answer d to a call with buffer b (s at the daemon), for parameter n.
ArrayReturns(p, n, b, s, d) ==
  LET w == proto_write_byte_array(p, s, d.outs[n], d.ret)
  IN  /\ w.ret # "OK" => w.ret = d.ret /\ d.outs = <<>>
      /\ w.ret = "OK" =>
           /\ b.cnt
           /\ \E f : /\ w.values = <<f>> /\ proto_read_array(p, b, f).ret = d.ret
                     /\ Output(n, proto_read_array(p, b, f).out) ++ <<>> = d.outs

\* What proto_write_byte_array writes for an array.
LEMMA WrittenValue ==
  ASSUME NEW p, NEW b, NEW o, NEW r, r \in {"OK", "BUFFER_TOO_SMALL"}
  PROVE  /\ proto_write_byte_array(p, b, o, r).ret = "OK"
         /\ proto_write_byte_array(p, b, o, r).values =
              <<[valid |-> r = "OK" /\ b.ptr, len |-> IF b.cnt THEN o.len ELSE 0]>>
  BY DEF proto_write_byte_array, Written

\* What proto_read_array makes of an array it reads.
LEMMA ValueRead ==
  ASSUME NEW p, NEW b, NEW f
  PROVE  /\ proto_read_array(p, b, f).ret =
              IF \/ ~f.valid /\ b.ptr
                 \/ f.valid /\ (b.ptr \/ p = "au") /\ b.len < f.len
              THEN "BUFFER_TOO_SMALL" ELSE "OK"
         /\ proto_read_array(p, b, f).out = [len |-> f.len, got |-> b.ptr /\ f.valid /\ b.len >= f.len]
  BY DEF proto_read_array, Read

\* An array comes back: r is the module's code, o what it put out.
LEMMA ArrayComesBack ==
  ASSUME NEW p, NEW n, NEW b, NEW s, NEW d, NEW o, SameBuffer(b, s),
         b.cnt \in BOOLEAN, b.ptr \in BOOLEAN, b.len \in Nat, b.cnt, o.len \in Nat,
         d.outs = Output(n, o), o = [len |-> o.len, got |-> d.ret = "OK" /\ b.ptr],
         \/ d.ret = "OK" /\ (b.ptr => b.len >= o.len)
         \/ d.ret = "BUFFER_TOO_SMALL" /\ b.ptr
  PROVE  ArrayReturns(p, n, b, s, d)
<1> DEFINE w == proto_write_byte_array(p, s, d.outs[n], d.ret)
           Valid == d.ret = "OK" /\ s.ptr
           f == [valid |-> Valid, len |-> IF s.cnt THEN o.len ELSE 0]
           r == proto_read_array(p, b, f)
<1>1. d.outs[n] = o
  BY FirstOutput
<1>2. w.ret = "OK" /\ w.values = <<f>>
  BY <1>1, WrittenValue
<1>3. s.cnt /\ s.ptr = b.ptr
  BY DEF SameBuffer
<1>4. f.len = o.len /\ f.valid = Valid
  BY <1>3
<1>5. /\ r.ret = IF \/ ~f.valid /\ b.ptr
                    \/ f.valid /\ (b.ptr \/ p = "au") /\ b.len < f.len
                 THEN "BUFFER_TOO_SMALL" ELSE "OK"
      /\ r.out = [len |-> f.len, got |-> b.ptr /\ f.valid /\ b.len >= f.len]
  BY ValueRead
<1> HIDE DEF w, f, r
<1>6. Valid <=> d.ret = "OK" /\ b.ptr
  BY <1>3
<1>7. f.valid <=> d.ret = "OK" /\ b.ptr
  BY <1>4, <1>6
<1>8. r.ret = d.ret
  BY <1>4, <1>5, <1>7
<1>9. (b.ptr /\ f.valid /\ b.len >= f.len) <=> (d.ret = "OK" /\ b.ptr)
  BY <1>4, <1>7
<1>10. r.out = [len |-> o.len, got |-> d.ret = "OK" /\ b.ptr]
  BY <1>4, <1>5, <1>9
<1>11. r.out = o
  BY <1>10
<1>12. Output(n, r.out) ++ <<>> = d.outs
  BY <1>11, FirstOutput
<1> QED
  BY <1>2, <1>8, <1>12 DEF ArrayReturns, w, r

\* A call that fails returns no array.
LEMMA NothingComesBack ==
  ASSUME NEW p, NEW n, NEW b, NEW s, NEW d, d.outs = <<>>, d.ret \in {"FAIL", "ARGUMENTS_BAD"}
  PROVE  ArrayReturns(p, n, b, s, d)
<1> DEFINE w == proto_write_byte_array(p, s, d.outs[n], d.ret)
<1>1. w = Nothing(d.ret)
  BY WrittenArray
<1>2. w.ret = d.ret
  BY <1>1, WrittenNothing
<1> HIDE DEF w
<1>3. w.ret # "OK" /\ w.ret = d.ret
  BY <1>2
<1> QED
  BY <1>3 DEF ArrayReturns, w

\* The array a module fills comes back to the application, or its length and
\* the error do.
LEMMA FillReturns ==
  ASSUME NEW p, NEW n, NEW b, NEW s, NEW need \in Nat, SameBuffer(b, s),
         b.cnt \in BOOLEAN, b.ptr \in BOOLEAN, b.len \in Nat
  PROVE  ArrayReturns(p, n, b, s, FillBuffer(n, b, need))
<1> DEFINE d == FillBuffer(n, b, need)
<1>1. CASE ~b.cnt
  <2>1. d = Reply("ARGUMENTS_BAD", <<>>)
    BY <1>1 DEF FillBuffer
  <2>2. d.outs = <<>> /\ d.ret = "ARGUMENTS_BAD"
    BY <2>1, ReplyIs
  <2> HIDE DEF d
  <2>3. ArrayReturns(p, n, b, s, d)
    BY <2>2, NothingComesBack
  <2> QED
    BY <2>3 DEF d
<1>2. CASE b.cnt /\ b.ptr /\ b.len < need
  <2> DEFINE o == [len |-> need, got |-> FALSE]
  <2>1. d = Reply("BUFFER_TOO_SMALL", Output(n, o))
    BY <1>2 DEF FillBuffer
  <2>2. d.outs = Output(n, o) /\ d.ret = "BUFFER_TOO_SMALL"
    BY <2>1, ReplyIs
  <2> HIDE DEF d
  <2>3. o = [len |-> o.len, got |-> d.ret = "OK" /\ b.ptr] /\ o.len = need
    BY <2>2
  <2> HIDE DEF o
  <2>4. ArrayReturns(p, n, b, s, d)
    BY <1>2, <2>2, <2>3, ArrayComesBack
  <2> QED
    BY <2>4 DEF d
<1>3. CASE b.cnt /\ ~(b.ptr /\ b.len < need)
  <2> DEFINE o == [len |-> need, got |-> b.ptr]
  <2>1. d = Reply("OK", Output(n, o))
    BY <1>3 DEF FillBuffer
  <2>2. d.outs = Output(n, o) /\ d.ret = "OK"
    BY <2>1, ReplyIs
  <2> HIDE DEF d
  <2>3. o = [len |-> o.len, got |-> d.ret = "OK" /\ b.ptr] /\ o.len = need
    BY <2>2
  <2> HIDE DEF o
  <2>5. b.cnt /\ (b.ptr => b.len >= o.len) /\ o.len \in Nat
    BY <1>3, <2>3
  <2>4. ArrayReturns(p, n, b, s, d)
    BY <2>2, <2>3, <2>5, ArrayComesBack
  <2> QED
    BY <2>4 DEF d
<1> QED
  BY <1>1, <1>2, <1>3

\* The handles C_FindObjects finds come back to the application.
LEMMA FindReturns ==
  ASSUME NEW b, NEW s, NEW need \in Nat, SameBuffer(b, s),
         b.cnt \in BOOLEAN, b.ptr \in BOOLEAN, b.len \in Nat, b.cnt
  PROVE  ArrayReturns("au", 2, b, s, FindObjects(b, need))
<1> DEFINE d == FindObjects(b, need)
<1>1. CASE ~b.ptr
  <2>1. d = Reply("ARGUMENTS_BAD", <<>>)
    BY <1>1 DEF FindObjects
  <2>2. d.outs = <<>> /\ d.ret = "ARGUMENTS_BAD"
    BY <2>1, ReplyIs
  <2> HIDE DEF d
  <2>3. ArrayReturns("au", 2, b, s, d)
    BY <2>2, NothingComesBack
  <2> QED
    BY <2>3 DEF d
<1>2. CASE b.ptr
  <2> DEFINE o == [len |-> IF need < b.len THEN need ELSE b.len, got |-> TRUE]
  <2>1. d = Reply("OK", Output(2, o))
    BY <1>2 DEF FindObjects
  <2>2. d.outs = Output(2, o) /\ d.ret = "OK"
    BY <2>1, ReplyIs
  <2> HIDE DEF d
  <2>3. o.len \in Nat /\ b.len >= o.len
    OBVIOUS
  <2>5. (d.ret = "OK" /\ b.ptr) = TRUE
    BY <1>2, <2>2
  <2>6. o = [len |-> o.len, got |-> TRUE]
    OBVIOUS
  <2> HIDE DEF o
  <2>7. o = [len |-> o.len, got |-> d.ret = "OK" /\ b.ptr]
    BY <2>5, <2>6
  <2>4. ArrayReturns("au", 2, b, s, d)
    BY <2>2, <2>3, <2>7, ArrayComesBack
  <2> QED
    BY <2>4 DEF d
<1> QED
  BY <1>1, <1>2

\* The answer d to a call with template v, written as z.
TemplateReturns(v, z, d) ==
  /\ z.ret = "OK"
  /\ \E f : /\ z.values = <<f, write_value(d.ret)>>
            /\ proto_read_attribute_array(v, f, d.ret).ret = d.ret
            /\ Output(3, proto_read_attribute_array(v, f, d.ret).out) ++ <<>> = d.outs

\* The attributes a module fills come back, with the lengths and errors of
\* those that were not.
LEMMA AttributesReturn ==
  ASSUME NEW v, NEW u, NEW needs, NEW d, NEW num \in 0 .. MaxAttrs,
         DOMAIN v.attrs = 1 .. num, DOMAIN u.attrs = 1 .. num,
         \A j \in 1 .. num :
           /\ u.attrs[j].ptr = v.attrs[j].ptr /\ v.attrs[j].ptr \in BOOLEAN /\ v.attrs[j].len \in Nat
           /\ v.attrs[j].type = j /\ DOMAIN u.attrs[j] = {"type", "ptr", "len"},
         needs \in [1 .. MaxAttrs -> Lens \cup {Unavailable}],
         d = GetAttributes(v, needs), NEW z, z = proto_write_attribute_array(u, d.outs[3], d.ret)
  PROVE  TemplateReturns(v, z, d)
<1> DEFINE Get(x) == LET need == needs[x.type]
                     IN  IF need = Unavailable \/ (x.ptr /\ x.len < need)
                         THEN [len |-> Unavailable, got |-> FALSE]
                         ELSE [len |-> need, got |-> x.ptr]
           o == [i \in DOMAIN v.attrs |-> Get(v.attrs[i])]
<1>1. d.ret \in {"OK", "BUFFER_TOO_SMALL", "ATTRIBUTE_SENSITIVE"} /\ d.outs = Output(3, o)
  BY DEF GetAttributes, Reply
<1>2. d.outs[3] = o
  <2> HIDE DEF o
  <2> QED
    BY <1>1, FirstOutput
<1> DEFINE w == proto_write_attribute_array(u, o, d.ret)
           f == write_attribute_array([i \in DOMAIN u.attrs |-> [u.attrs[i] EXCEPT !.len = o[i].len]])
<1>3. w.ret = "OK" /\ w.values = <<f, write_value(d.ret)>>
  BY <1>1 DEF proto_write_attribute_array, Written
<1>4. \A j \in 1 .. num : o[j] = Get(v.attrs[j])
  OBVIOUS
<1> DEFINE nn == [i \in 1 .. num |-> [u.attrs[i] EXCEPT !.len = o[i].len]]
<1>5. /\ DOMAIN f = 1 .. num
      /\ \A j \in 1 .. num :
           /\ f[j].valid = (o[j].len # Unavailable) /\ f[j].len = o[j].len
           /\ f[j].data = u.attrs[j].ptr
  <2> HIDE DEF o
  <2>1. f = write_attribute_array(nn)
    OBVIOUS
  <2>2. \A j \in 1 .. num : nn[j].len = o[j].len /\ nn[j].ptr = u.attrs[j].ptr
    OBVIOUS
  <2>3. DOMAIN nn = 1 .. num
    OBVIOUS
  <2> HIDE DEF nn, f
  <2> QED
    BY <2>1, <2>2, <2>3 DEF write_attribute_array
<1> DEFINE Stuff(a, x) ==
             CASE ~x.valid -> [len |-> Unavailable, got |-> FALSE]
               [] x.valid /\ ~a.ptr -> [len |-> x.len, got |-> FALSE]
               [] x.valid /\ a.ptr /\ a.len < x.len -> [len |-> x.len, got |-> FALSE]
               [] x.valid /\ a.ptr /\ a.len >= x.len ->
                    [len |-> IF x.data THEN x.len ELSE 0, got |-> x.data]
           r == proto_read_attribute_array(v, f, d.ret)
<1>6. r.ret = d.ret /\ r.out = [i \in DOMAIN f |-> Stuff(v.attrs[i], f[i])]
  <2> HIDE DEF f
  <2> QED
    BY DEF proto_read_attribute_array, Read
<1>7. \A j \in 1 .. num : Stuff(v.attrs[j], f[j]) = o[j]
  <2> SUFFICES ASSUME NEW j \in 1 .. num PROVE Stuff(v.attrs[j], f[j]) = o[j]
    OBVIOUS
  <2> DEFINE a == v.attrs[j]  x == f[j]  need == needs[j]  y == o[j]
  <2>1. /\ a.ptr \in BOOLEAN /\ a.len \in Nat /\ x.valid = (y.len # Unavailable) /\ x.len = y.len
        /\ x.data = a.ptr
    BY <1>5
  <2>0. j \in 1 .. MaxAttrs
    BY MarshalAssumption
  <2>2. need \in Nat \/ need = Unavailable
    BY <2>0, LensAreNats
  <2>3. y = IF need = Unavailable \/ (a.ptr /\ a.len < need)
            THEN [len |-> Unavailable, got |-> FALSE] ELSE [len |-> need, got |-> a.ptr]
    BY <1>4
  <2> HIDE DEF a, x, need, y
  <2>4. Stuff(a, x) = y
    <3>1. CASE need = Unavailable \/ (a.ptr /\ a.len < need)
      <4>1. y = [len |-> Unavailable, got |-> FALSE] /\ y.len = Unavailable
        BY <2>3, <3>1
      <4>2. ~x.valid
        BY <2>1, <4>1
      <4> QED
        BY <4>1, <4>2
    <3>2. CASE ~(need = Unavailable \/ (a.ptr /\ a.len < need)) /\ ~a.ptr
      <4>1. y = [len |-> need, got |-> a.ptr] /\ y.len = need
        BY <2>3, <3>2
      <4>2. x.valid /\ x.len = need
        BY <2>1, <3>2, <4>1
      <4>3. a.ptr = FALSE
        BY <2>1, <3>2
      <4> QED
        BY <3>2, <4>1, <4>2, <4>3
    <3>3. CASE ~(need = Unavailable \/ (a.ptr /\ a.len < need)) /\ a.ptr
      <4>1. y = [len |-> need, got |-> a.ptr] /\ y.len = need
        BY <2>3, <3>3
      <4>2. need \in Nat
        BY <2>2, <3>3
      <4>3. y.len # Unavailable /\ x.len = need /\ x.data = a.ptr
        BY <2>1, <3>3, <4>1
      <4>4. x.valid
        BY <2>1, <4>3
      <4>5. a.len >= need /\ ~(a.len < need)
        BY <2>1, <3>3, <4>2
      <4>6. a.ptr = TRUE
        BY <2>1, <3>3
      <4>7. Stuff(a, x) = [len |-> IF x.data THEN x.len ELSE 0, got |-> x.data]
        BY <3>3, <4>3, <4>4, <4>5
      <4> QED
        BY <4>1, <4>3, <4>6, <4>7
    <3> QED
      BY <3>1, <3>2, <3>3
  <2> QED
    BY <2>4 DEF a, x, y
<1> HIDE DEF f, r, Stuff, Get
<1>8. r.out = o
  BY <1>5, <1>6, <1>7
<1> HIDE DEF o
<1>9. Output(3, r.out) ++ <<>> = d.outs
  BY <1>1, <1>8, FirstOutput
<1> HIDE DEF w
<1> QED
  BY <1>2, <1>3, <1>6, <1>9 DEF TemplateReturns, w, r

\* An information structure comes back as it was filled.
LEMMA InfoReturns ==
  ASSUME NEW m \in InfoMacros, NEW n, NEW w, NEW o, NEW x,
         w.slot \in 0 .. 1023, o = Info(DaemonFields[m], w),
         x = [i \in DOMAIN DaemonFields[m] |-> FieldOf(DaemonFields[m][i], o)]
  PROVE  /\ proto_read_fields(ClientFields[m], x).ret = "OK"
         /\ proto_read_fields(ClientFields[m], x).out = o
         /\ <<>> \o x = x
<1> DEFINE fs == DaemonFields[m]
<1>1. /\ o = [name \in {f.name : f \in ToSet(fs)} |-> InfoValue(name, w)]
      /\ ToSet(fs) = {fs[i] : i \in DOMAIN fs}
  BY DEF Info, ToSet
<1>2. [i \in DOMAIN fs |-> fs[i].part] \in Seq(PartNames) /\ ClientFields[m] = fs
  BY InfoParts, InfoTables
<1> HIDE DEF fs
<1>3. \A i \in DOMAIN fs : fs[i].name \in DOMAIN o /\ o[fs[i].name] = InfoValue(fs[i].name, w)
  BY <1>1
<1>4. \A i \in DOMAIN fs : x[i].len = fs[i].length /\ x[i].val = InfoValue(fs[i].name, w)
  <2> SUFFICES ASSUME NEW i \in DOMAIN fs
               PROVE  x[i].len = fs[i].length /\ x[i].val = InfoValue(fs[i].name, w)
    OBVIOUS
  <2>1. x[i] = FieldOf(fs[i], o)
    BY DEF fs
  <2> DEFINE g == fs[i]  y == o[g.name]
  <2>2. y = [of |-> g.name, val |-> IF g.name = "slotID" THEN w.slot ELSE 0]
    BY <1>3 DEF InfoValue
  <2>3. x[i] = [len |-> g.length,
                val |-> [y EXCEPT !.val = IF g.name = "slotID"
                                          THEN CK_GNOME_APPARTMENT_SLOT(@) ELSE @]]
    BY <2>1 DEF FieldOf
  <2>4. w.slot % 1024 = w.slot
    OBVIOUS
  <2> HIDE DEF g, y
  <2>5. [y EXCEPT !.val = IF g.name = "slotID" THEN CK_GNOME_APPARTMENT_SLOT(@) ELSE @] = y
    BY <2>2, <2>4 DEF CK_GNOME_APPARTMENT_SLOT
  <2>6. x[i].len = g.length /\ x[i].val = y
    BY <2>3, <2>5
  <2> QED
    BY <1>3, <2>6 DEF g, y
<1> DEFINE r == proto_read_fields(ClientFields[m], x)
<1>5. /\ r.ret = IF \E i \in DOMAIN fs : fs[i].length # x[i].len THEN "DEVICE_ERROR" ELSE "OK"
      /\ r.out = [name \in {f.name : f \in ToSet(fs)} |->
                    x[CHOOSE i \in DOMAIN fs : fs[i].name = name].val]
  BY <1>2 DEF proto_read_fields, Read
<1> DEFINE names == {f.name : f \in ToSet(fs)}
           At(name) == CHOOSE i \in DOMAIN fs : fs[i].name = name
<1>6. \A name \in names : x[At(name)].val = InfoValue(name, w)
  <2> SUFFICES ASSUME NEW name \in names PROVE x[At(name)].val = InfoValue(name, w)
    OBVIOUS
  <2>1. \E i \in DOMAIN fs : fs[i].name = name
    BY <1>1
  <2>2. At(name) \in DOMAIN fs /\ fs[At(name)].name = name
    BY <2>1
  <2> HIDE DEF At
  <2> QED
    BY <1>4, <2>2
<1>7. r.out = o
  <2>1. r.out = [name \in names |-> x[At(name)].val] /\ o = [name \in names |-> InfoValue(name, w)]
    BY <1>1, <1>5
  <2> HIDE DEF At, names, r
  <2> QED
    BY <1>6, <2>1
<1>8. r.ret = "OK"
  BY <1>4, <1>5
<1>9. <<>> \o x = x
  <2> DEFINE p == [i \in DOMAIN fs |-> fs[i].part]
  <2>1. DOMAIN p = 1 .. Len(p) /\ Len(p) \in Nat /\ DOMAIN p = DOMAIN fs
    BY <1>2
  <2>2. DOMAIN x = DOMAIN fs /\ x = [i \in DOMAIN x |-> x[i]]
    BY DEF fs
  <2> HIDE DEF p
  <2>3. x \in Seq({x[i] : i \in DOMAIN x})
    BY <2>1, <2>2
  <2> QED
    BY <2>3
<1> QED
  BY <1>7, <1>8, <1>9

-----------------------------------------------------------------------------
(* The OUT_ macros and the direct call, apart from the state: s are the    *)
(* arguments the daemon read, p is the module's reply, f the response.     *)

\* WriteOut, ReadOut and Promised with their state as arguments; DirectOf for a
\* session table that has room.
Wr(c, s, p, m, r) ==
  LET out == p.outs[m.arg]
  IN  CASE m.macro = "BYTE_ARRAY" -> proto_write_byte_array("ay", s[m.arg], out, r)
        [] m.macro = "ULONG_ARRAY" -> proto_write_byte_array("au", s[m.arg], out, r)
        [] m.macro = "ATTRIBUTE_ARRAY" -> proto_write_attribute_array(s[m.arg], out, r)
        [] m.macro = "ULONG" /\ r = "OK" -> Written(<<"u">>, <<write_value(SlotOf(c, out))>>, r)
        [] m.macro \in InfoMacros /\ r = "OK" ->
             LET fs == DaemonFields[m.macro]
             IN  Written([i \in DOMAIN fs |-> fs[i].part],
                         [i \in DOMAIN fs |-> FieldOf(fs[i], out)], r)
        [] OTHER -> Nothing(r)

Rd(f, w, m, a) ==
  CASE m.macro = "BYTE_ARRAY" -> proto_read_array("ay", a, f[1])
    [] m.macro = "ULONG_ARRAY" -> proto_read_array("au", a, f[1])
    [] m.macro = "MECHANISM_TYPE_ARRAY" ->
         LET r == proto_read_array("au", a, f[1])
         IN  IF r.ret = "OK" /\ a.ptr THEN [r EXCEPT !.out = mechanism_list_purge(@, w.odd)] ELSE r
    [] m.macro = "ATTRIBUTE_ARRAY" -> proto_read_attribute_array(a, f[1], f[2].val)
    [] m.macro = "ULONG" -> Read(<<"u">>, "OK", f[1].val)
    [] m.macro \in InfoMacros -> proto_read_fields(ClientFields[m.macro], f)

DirectOf(c, a, w) ==
  LET d == Served(c, a, w)
  IN  IF c = "C_GetMechanismList" /\ d.ret = "OK" /\ a[2].ptr
      THEN [d EXCEPT !.outs[2] = mechanism_list_purge(@, w.odd)]
      ELSE d

Refused(c, a, w) == TableFull(c, w, Served(c, a, w).ret)

\* Writing, reading and the direct call as functions of what they use.
LEMMA Apart ==
  /\ \A m, r : WriteOut(m, r) = Wr(call, seen, reply, m, r)
  /\ \A m, a : ReadOut(m, a) = Rd(resp, want, m, a)
  /\ Promised = IF Refused(call, args, want) THEN Reply("SESSION_COUNT", <<>>)
                ELSE DirectOf(call, args, want)
<1>1. \A m, r : WriteOut(m, r) = Wr(call, seen, reply, m, r)
  BY Zenon DEF WriteOut, Wr
<1>2. \A m, a : ReadOut(m, a) = Rd(resp, want, m, a)
  BY Zenon DEF ReadOut, Rd
<1>3. Promised = IF Refused(call, args, want) THEN Reply("SESSION_COUNT", <<>>)
                 ELSE DirectOf(call, args, want)
  <2> DEFINE d == Served(call, args, want)
             e == [d EXCEPT !.outs[2] = mechanism_list_purge(@, want.odd)]
  <2>1. Promised = CASE TableFull(call, want, d.ret) -> Reply("SESSION_COUNT", <<>>)
                     [] call = "C_GetMechanismList" /\ d.ret = "OK" /\ args[2].ptr -> e
                     [] OTHER -> d
    BY DEF Promised
  <2>2. DirectOf(call, args, want) =
          IF call = "C_GetMechanismList" /\ d.ret = "OK" /\ args[2].ptr THEN e ELSE d
    BY DEF DirectOf
  <2>3. Refused(call, args, want) = TableFull(call, want, d.ret)
    BY DEF Refused
  <2>4. TableFull(call, want, d.ret) => call = "C_OpenSession"
    BY DEF TableFull
  <2> HIDE DEF d, e
  <2> QED
    BY <2>1, <2>2, <2>3, <2>4
<1> QED
  BY <1>1, <1>2, <1>3

\* What the daemon writes for an array, ...
LEMMA WrArrays ==
  ASSUME NEW c, NEW s, NEW p, NEW m, NEW r
  PROVE  /\ m.macro = "BYTE_ARRAY" =>
              Wr(c, s, p, m, r) = proto_write_byte_array("ay", s[m.arg], p.outs[m.arg], r)
         /\ m.macro = "ULONG_ARRAY" =>
              Wr(c, s, p, m, r) = proto_write_byte_array("au", s[m.arg], p.outs[m.arg], r)
         /\ m.macro = "ATTRIBUTE_ARRAY" =>
              Wr(c, s, p, m, r) = proto_write_attribute_array(s[m.arg], p.outs[m.arg], r)
  BY InfoNames DEF Wr

\* ... a number, ...
LEMMA WrNumber ==
  ASSUME NEW c, NEW s, NEW p, NEW m, m.macro = "ULONG"
  PROVE  Wr(c, s, p, m, "OK") = Written(<<"u">>, <<write_value(SlotOf(c, p.outs[m.arg]))>>, "OK")
  BY InfoNames DEF Wr

\* ... a call that failed ...
LEMMA WrNothing ==
  ASSUME NEW c, NEW s, NEW p, NEW m, NEW r, m.macro \in {"ULONG"} \cup InfoMacros, r # "OK"
  PROVE  Wr(c, s, p, m, r) = Nothing(r)
<1>1. m.macro \in {"ULONG", "INFO", "SLOT_INFO", "TOKEN_INFO", "MECHANISM_INFO", "SESSION_INFO"}
  BY InfoNames
<1> QED
  BY <1>1 DEF Wr

\* ... and an information structure.
LEMMA WrInfo ==
  ASSUME NEW c, NEW s, NEW p, NEW m, m.macro \in InfoMacros, NEW fs, fs = DaemonFields[m.macro]
  PROVE  Wr(c, s, p, m, "OK") = Written([i \in DOMAIN fs |-> fs[i].part],
                                        [i \in DOMAIN fs |-> FieldOf(fs[i], p.outs[m.arg])], "OK")
<1>1. m.macro \in {"INFO", "SLOT_INFO", "TOKEN_INFO", "MECHANISM_INFO", "SESSION_INFO"}
  BY InfoNames
<1> QED
  BY <1>1 DEF Wr

\* What the client reads for an array or a number, ...
LEMMA RdCases ==
  ASSUME NEW f, NEW w, NEW m, NEW a
  PROVE  /\ m.macro = "BYTE_ARRAY" => Rd(f, w, m, a) = proto_read_array("ay", a, f[1])
         /\ m.macro = "ULONG_ARRAY" => Rd(f, w, m, a) = proto_read_array("au", a, f[1])
         /\ m.macro = "ATTRIBUTE_ARRAY" =>
              Rd(f, w, m, a) = proto_read_attribute_array(a, f[1], f[2].val)
         /\ m.macro = "ULONG" => Rd(f, w, m, a) = Read(<<"u">>, "OK", f[1].val)
  BY InfoNames DEF Rd

\* ... the list of mechanisms ...
LEMMA RdPurged ==
  ASSUME NEW f, NEW w, NEW m, NEW a, m.macro = "MECHANISM_TYPE_ARRAY",
         NEW r, r = proto_read_array("au", a, f[1])
  PROVE  Rd(f, w, m, a) = IF r.ret = "OK" /\ a.ptr
                          THEN [r EXCEPT !.out = mechanism_list_purge(@, w.odd)] ELSE r
  BY InfoNames DEF Rd

\* ... and an information structure.
LEMMA RdInfo ==
  ASSUME NEW f, NEW w, NEW m, NEW a, m.macro \in InfoMacros
  PROVE  Rd(f, w, m, a) = proto_read_fields(ClientFields[m.macro], f)
<1>1. m.macro \in {"INFO", "SLOT_INFO", "TOKEN_INFO", "MECHANISM_INFO", "SESSION_INFO"}
  BY InfoNames
<1> QED
  BY <1>1 DEF Rd

\* The slot ids that C_WaitForSlotEvent and C_GetSessionInfo return are ids of
\* an appartment already: CK_GNOME_APPARTMENT_SLOT leaves them as they are.
SlotsFit(c) == c \in {"C_WaitForSlotEvent", "C_GetSessionInfo"} => Ulongs \subseteq 0 .. 1023

\* What the module may want to return.
LEMMA WantIs ==
  ASSUME NEW c, NEW w \in Wants(c), SlotsFit(c)
  PROVE  /\ w.ret \in {"OK", "FAIL"} /\ w.need \in Nat /\ w.slot \in 0 .. 1023
         /\ w.ulongs \in [OutUlongs(c) -> Ulongs]
         /\ c = "C_GetAttributeValue" => w.attrs \in [1 .. MaxAttrs -> Lens \cup {Unavailable}]
<1> DEFINE N == IF OutMacros(c) \cap {"BYTE_ARRAY", "ULONG_ARRAY"} = {} THEN {0} ELSE Lens
           O == IF c = "C_GetMechanismList" THEN {0, 1} ELSE {0}
           F == [OutUlongs(c) -> Ulongs]
           L == IF c = "C_GetSessionInfo" THEN Ulongs ELSE {0}
           A == IF c = "C_GetAttributeValue"
                THEN [1 .. MaxAttrs -> Lens \cup {Unavailable}] ELSE {<<>>}
           FL == IF c = "C_OpenSession" THEN BOOLEAN ELSE {FALSE}
           CL == IF c = "C_CloseAllSessions"
                THEN UNION {[1 .. n -> CloseCodes] : n \in Lens} ELSE {<<>>}
<1>1. w \in [ret : {"OK", "FAIL"}, need : N, odd : O, ulongs : F, slot : L, attrs : A,
             full : FL, closes : CL]
  BY DEF Wants
<1>2. N \subseteq Nat
  BY LensAreNats
<1>3. L \subseteq 0 .. 1023
  BY DEF SlotsFit
<1>4. c = "C_GetAttributeValue" => A = [1 .. MaxAttrs -> Lens \cup {Unavailable}]
  OBVIOUS
<1> HIDE DEF N, O, F, L, A, FL, CL
<1>5. w.ret \in {"OK", "FAIL"} /\ w.need \in N /\ w.slot \in L /\ w.ulongs \in F /\ w.attrs \in A
  BY <1>1
<1>6. w.need \in Nat /\ w.slot \in 0 .. 1023
  BY <1>2, <1>3, <1>5
<1>7. c = "C_GetAttributeValue" => w.attrs \in [1 .. MaxAttrs -> Lens \cup {Unavailable}]
  BY <1>4, <1>5, Zenon
<1>8. w.ulongs \in [OutUlongs(c) -> Ulongs]
  BY <1>5 DEF F
<1> QED
  BY <1>5, <1>6, <1>7, <1>8

-----------------------------------------------------------------------------
(* A call with one output gives what the direct call gives.                *)

\* With one output: the client has a place for what the daemon writes, and
\* returns what the direct call returns.
OneReturns(c, a, s, w) ==
  LET p == Served(c, a, w)
      y == Wr(c, s, p, DaemonStubs[c].out[1], p.ret)
      m == ClientStubs[c].out[1]
      d == DirectOf(c, a, w)
      x == Rd(<<>> \o y.values, w, m, a[m.arg])
  IN  /\ y.ret # "OK" => y.ret = d.ret /\ d.outs = <<>>
      /\ y.ret = "OK" => /\ OutGiven(m, a[m.arg]) /\ x.ret = d.ret
                         /\ Output(m.arg, x.out) ++ <<>> = d.outs

\* What is known of a call that reached the module.
Ready(c, a, s, w) ==
  /\ c \in DOMAIN gck_rpc_calls /\ InDomain(c, a) /\ Accepted(c, a, NumIn(c))
  /\ s = Got(c, a, NumIn(c)) /\ w \in Wants(c)
  /\ \A q \in ClientStubs[c].need : Meets(q[1], a[q[2]])
  /\ \A n \in OutUlongs(c) : a[n].ptr

\* Calling the module directly, except for the list of mechanisms.
LEMMA DirectIs ==
  ASSUME NEW c, NEW a, NEW w
  PROVE  /\ c # "C_GetMechanismList" => DirectOf(c, a, w) = Served(c, a, w)
         /\ Served(c, a, w).ret # "OK" => DirectOf(c, a, w) = Served(c, a, w)
         /\ ~a[2].ptr => DirectOf(c, a, w) = Served(c, a, w)
  BY DEF DirectOf

\* The response after its first values.
LEMMA AfterNothing ==
  /\ \A f : <<>> \o <<f>> = <<f>> /\ (<<>> \o <<f>>)[1] = f
  /\ \A f, g : /\ <<>> \o <<f, g>> = <<f, g>>
               /\ (<<>> \o <<f, g>>)[1] = f /\ (<<>> \o <<f, g>>)[2] = g
  OBVIOUS

\* The macros of the outputs.
LEMMA OutputsAre ==
  /\ \A n : OUT_BYTE_ARRAY(n).macro = "BYTE_ARRAY" /\ OUT_BYTE_ARRAY(n).arg = n
  /\ \A n : OUT_ULONG_ARRAY(n).macro = "ULONG_ARRAY" /\ OUT_ULONG_ARRAY(n).arg = n
  /\ \A n : OUT_ATTRIBUTE_ARRAY(n).macro = "ATTRIBUTE_ARRAY" /\ OUT_ATTRIBUTE_ARRAY(n).arg = n
  /\ \A n : /\ OUT_MECHANISM_TYPE_ARRAY(n).macro = "MECHANISM_TYPE_ARRAY"
            /\ OUT_MECHANISM_TYPE_ARRAY(n).arg = n
  /\ \A n : OUT_ULONG(n).macro = "ULONG" /\ OUT_ULONG(n).arg = n
  BY DEF OUT_BYTE_ARRAY, OUT_ULONG_ARRAY, OUT_ATTRIBUTE_ARRAY, OUT_MECHANISM_TYPE_ARRAY, OUT_ULONG

\* Which outputs the application has a place for.
LEMMA GivenCases ==
  ASSUME NEW m, NEW v
  PROVE  /\ m.macro \in {"BYTE_ARRAY", "ULONG_ARRAY", "MECHANISM_TYPE_ARRAY"} /\ v.cnt => OutGiven(m, v)
         /\ m.macro = "ATTRIBUTE_ARRAY" => OutGiven(m, v)
         /\ m.macro \in {"ULONG"} \cup InfoMacros /\ v.ptr => OutGiven(m, v)
  BY InfoNames DEF OutGiven

\* A call that fails in the module fails for the application.
LEMMA FailedOutputs ==
  ASSUME NEW c, NEW a, NEW s, NEW w, w.ret = "FAIL", NEW m, DaemonStubs[c].out = <<m>>,
         m.macro \in {"BYTE_ARRAY", "ULONG_ARRAY", "ATTRIBUTE_ARRAY", "ULONG"} \cup InfoMacros
  PROVE  OneReturns(c, a, s, w)
<1> DEFINE p == Served(c, a, w)
           y == Wr(c, s, p, m, p.ret)
<1>1. p.ret = "FAIL" /\ p.outs = <<>>
  BY FailedModule, ReplyIs
<1>2. DirectOf(c, a, w) = p
  BY <1>1, DirectIs
<1> HIDE DEF p
<1>3. y = Nothing(p.ret)
  <2>1. CASE m.macro = "BYTE_ARRAY"
    BY <1>1, <2>1, WrArrays, WrittenArray
  <2>2. CASE m.macro = "ULONG_ARRAY"
    BY <1>1, <2>2, WrArrays, WrittenArray
  <2>3. CASE m.macro = "ATTRIBUTE_ARRAY"
    BY <1>1, <2>3, WrArrays, WrittenAttributes
  <2>4. CASE m.macro = "ULONG"
    BY <1>1, <2>4, WrNothing
  <2>5. CASE m.macro \in InfoMacros
    BY <1>1, <2>5, WrNothing
  <2> QED
    BY <2>1, <2>2, <2>3, <2>4, <2>5
<1>4. y.ret = "FAIL"
  BY <1>1, <1>3, WrittenNothing
<1>5. DaemonStubs[c].out[1] = m
  OBVIOUS
<1> HIDE DEF y
<1> QED
  BY <1>1, <1>2, <1>4, <1>5 DEF OneReturns, y, p

\* Calls that return an array, ...
LEMMA ArrayCall ==
  ASSUME NEW c, NEW a, NEW s, NEW w, NEW n, NEW m, NEW t, c # "C_GetMechanismList",
         DaemonStubs[c].out = <<m>>, ClientStubs[c].out = <<m>>, m.arg = n,
         (m.macro = "BYTE_ARRAY" /\ t = "ay") \/ (m.macro = "ULONG_ARRAY" /\ t = "au"),
         ArrayReturns(t, n, a[n], s[n], Served(c, a, w))
  PROVE  OneReturns(c, a, s, w)
<1> DEFINE p == Served(c, a, w)
           y == Wr(c, s, p, m, p.ret)
           d == DirectOf(c, a, w)
           x == Rd(<<>> \o y.values, w, m, a[n])
<1>1. d = p
  BY DirectIs
<1>0. ArrayReturns(t, n, a[n], s[n], p)
  OBVIOUS
<1> HIDE DEF p, d
<1>2. y = proto_write_byte_array(t, s[n], p.outs[n], p.ret)
  BY WrArrays
<1> HIDE DEF y
<1>3. CASE y.ret # "OK"
  <2>1. y.ret = d.ret /\ d.outs = <<>>
    BY <1>0, <1>1, <1>2, <1>3 DEF ArrayReturns
  <2> QED
    BY <1>3, <2>1 DEF OneReturns, y, p, d
<1>4. CASE y.ret = "OK"
  <2>1. PICK f : /\ a[n].cnt /\ y.values = <<f>> /\ proto_read_array(t, a[n], f).ret = p.ret
                 /\ Output(n, proto_read_array(t, a[n], f).out) ++ <<>> = p.outs
    BY <1>0, <1>2, <1>4 DEF ArrayReturns
  <2>2. (<<>> \o y.values)[1] = f
    BY <2>1, AfterNothing
  <2>3. x = proto_read_array(t, a[n], f)
    BY <2>2, RdCases
  <2>4. OutGiven(m, a[n])
    BY <2>1, GivenCases
  <2> HIDE DEF x
  <2>5. x.ret = d.ret /\ Output(n, x.out) ++ <<>> = d.outs
    BY <1>1, <2>1, <2>3
  <2> QED
    BY <1>4, <2>4, <2>5 DEF OneReturns, x, y, p, d
<1> QED
  BY <1>3, <1>4

\* ... the list of mechanisms, ...
LEMMA ListCall ==
  ASSUME NEW a, NEW s, NEW w, NEW c, c = "C_GetMechanismList",
         DaemonStubs[c].out = <<OUT_ULONG_ARRAY(2)>>,
         ClientStubs[c].out = <<OUT_MECHANISM_TYPE_ARRAY(2)>>,
         ArrayReturns("au", 2, a[2], s[2], Served(c, a, w)),
         Served(c, a, w) = Reply(Served(c, a, w).ret, Served(c, a, w).outs)
  PROVE  OneReturns(c, a, s, w)
<1> DEFINE p == Served(c, a, w)
           md == OUT_ULONG_ARRAY(2)
           m == OUT_MECHANISM_TYPE_ARRAY(2)
           y == Wr(c, s, p, md, p.ret)
           d == DirectOf(c, a, w)
           x == Rd(<<>> \o y.values, w, m, a[2])
<1>0. ArrayReturns("au", 2, a[2], s[2], p) /\ p = [ret |-> p.ret, outs |-> p.outs]
  BY DEF Reply
<1>1. /\ md.macro = "ULONG_ARRAY" /\ md.arg = 2 /\ m.macro = "MECHANISM_TYPE_ARRAY" /\ m.arg = 2
      /\ DaemonStubs[c].out[1] = md /\ ClientStubs[c].out[1] = m
  BY OutputsAre
<1>d. d = IF p.ret = "OK" /\ a[2].ptr
          THEN [p EXCEPT !.outs[2] = mechanism_list_purge(@, w.odd)] ELSE p
  BY DEF DirectOf
<1> HIDE DEF p, d, m, md
<1>2. y = proto_write_byte_array("au", s[2], p.outs[2], p.ret)
  BY <1>1, WrArrays
<1> HIDE DEF y
<1>3. CASE y.ret # "OK"
  <2>1. y.ret = p.ret /\ p.outs = <<>>
    BY <1>0, <1>2, <1>3 DEF ArrayReturns
  <2>2. d = p
    BY <1>3, <1>d, <2>1
  <2>3. y.ret = d.ret /\ d.outs = <<>>
    BY <2>1, <2>2
  <2> QED
    BY <1>1, <1>3, <2>3 DEF OneReturns, y, p, d
<1>4. CASE y.ret = "OK"
  <2>1. PICK f : /\ a[2].cnt /\ y.values = <<f>> /\ proto_read_array("au", a[2], f).ret = p.ret
                 /\ Output(2, proto_read_array("au", a[2], f).out) ++ <<>> = p.outs
    BY <1>0, <1>2, <1>4 DEF ArrayReturns
  <2>2. (<<>> \o y.values)[1] = f
    BY <2>1, AfterNothing
  <2> DEFINE r == proto_read_array("au", a[2], f)
             o == r.out
             u == mechanism_list_purge(o, w.odd)
  <2>3. x = IF r.ret = "OK" /\ a[2].ptr
            THEN [r EXCEPT !.out = mechanism_list_purge(@, w.odd)] ELSE r
    BY <1>1, <2>2, RdPurged
  <2>4. OutGiven(m, a[2])
    BY <1>1, <2>1, GivenCases
  <2>5. DOMAIN r = {"parts", "ret", "out"} /\ r.ret = p.ret
    BY <2>1 DEF proto_read_array, Read
  <2>6. p.outs = Output(2, o)
    BY <2>1, FirstOutput
  <2> HIDE DEF x, r
  <2>7. CASE p.ret = "OK" /\ a[2].ptr
    <3>1. x = [r EXCEPT !.out = u]
      BY <2>3, <2>5, <2>7
    <3> HIDE DEF u
    <3>2. x.out = u /\ x.ret = r.ret
      BY <2>5, <3>1
    <3>3. d = [p EXCEPT !.outs[2] = u]
      <4>1. p.outs[2] = o
        BY <2>6, FirstOutput
      <4> HIDE DEF o
      <4> QED
        BY <1>d, <2>7, <4>1 DEF u
    <3>4. d.ret = p.ret /\ d.outs = [p.outs EXCEPT ![2] = u]
      BY <1>0, <3>3
    <3>5. [Output(2, o) EXCEPT ![2] = u] = Output(2, u)
      BY DEF Output
    <3>6. x.ret = d.ret /\ Output(2, x.out) ++ <<>> = d.outs
      BY <2>5, <2>6, <3>2, <3>4, <3>5, FirstOutput
    <3> QED
      BY <1>1, <1>4, <2>4, <3>6 DEF OneReturns, x, y, p, d
  <2>8. CASE ~ (p.ret = "OK" /\ a[2].ptr)
    <3>1. x = r /\ d = p
      BY <1>d, <2>3, <2>5, <2>8
    <3>2. x.ret = d.ret /\ Output(2, x.out) ++ <<>> = d.outs
      BY <2>1, <3>1 DEF r
    <3> QED
      BY <1>1, <1>4, <2>4, <3>2 DEF OneReturns, x, y, p, d
  <2> QED
    BY <2>7, <2>8
<1> QED
  BY <1>3, <1>4

\* ... attributes, ...
LEMMA AttributesCall ==
  ASSUME NEW c, NEW a, NEW s, NEW w, c = "C_GetAttributeValue", Ready(c, a, s, w), ~ZeroBuffers,
         DaemonStubs[c].out = <<OUT_ATTRIBUTE_ARRAY(3)>>,
             ClientStubs[c].out = <<OUT_ATTRIBUTE_ARRAY(3)>>,
         3 \in 1 .. NumIn(c), ClientStubs[c].in[3].macro = "ATTRIBUTE_BUFFER", w.ret # "FAIL",
         SlotsFit(c)
  PROVE  OneReturns(c, a, s, w)
<1> DEFINE p == Served(c, a, w)
           m == OUT_ATTRIBUTE_ARRAY(3)
           y == Wr(c, s, p, m, p.ret)
           d == DirectOf(c, a, w)
           x == Rd(<<>> \o y.values, w, m, a[3])
           v == a[3]  u == s[3]
<1>1. m.macro = "ATTRIBUTE_ARRAY" /\ m.arg = 3 /\ DaemonStubs[c].out[1] = m /\ ClientStubs[c].out[1] = m
  BY OutputsAre
<1>2. d = p
  BY DirectIs
<1>3. p = GetAttributes(v, w.attrs)
  <2>1. OutMacros(c) \cap InfoMacros = {} /\ OutMacros(c) \cap {"BYTE_ARRAY", "ULONG_ARRAY"} = {}
    BY <1>1, OneOut, InfoNames
  <2> QED
    BY <2>1, SpecialModules
<1>4. w.attrs \in [1 .. MaxAttrs -> Lens \cup {Unavailable}]
  BY WantIs DEF Ready
<1>5. /\ v.num \in 0 .. MaxAttrs /\ DOMAIN v.attrs = 1 .. v.num /\ DOMAIN u.attrs = 1 .. v.num
      /\ \A j \in 1 .. v.num :
           /\ u.attrs[j].ptr = v.attrs[j].ptr /\ v.attrs[j].ptr \in BOOLEAN /\ v.attrs[j].len \in Nat
           /\ v.attrs[j].type = j /\ DOMAIN u.attrs[j] = {"type", "ptr", "len"}
  <2>1. c \in DOMAIN gck_rpc_calls /\ InDomain(c, a) /\ Accepted(c, a, NumIn(c)) /\ s = Got(c, a,
          NumIn(c))
    BY DEF Ready
  <2>2. /\ DOMAIN u.attrs = DOMAIN v.attrs /\ DOMAIN v.attrs = 1 .. v.num
        /\ v.num \in Nat /\ v.num <= MaxAttrs
        /\ \A j \in DOMAIN v.attrs :
              /\ u.attrs[j].ptr = v.attrs[j].ptr
              /\ v.attrs[j].ptr \in BOOLEAN /\ v.attrs[j].len \in Nat /\ v.attrs[j].type = j
              /\ DOMAIN u.attrs[j] = {"type", "ptr", "len"}
    BY <2>1, AttributesAre
  <2> HIDE DEF u, v
  <2> QED
    BY <2>2, MarshalAssumption
<1> HIDE DEF p, d, m, u, v
<1> DEFINE z == proto_write_attribute_array(u, p.outs[3], p.ret)
<1>6. TemplateReturns(v, z, p)
  <2> DEFINE num == v.num  needs == w.attrs
  <2>1. z = proto_write_attribute_array(u, p.outs[3], p.ret)
    OBVIOUS
  <2>2. /\ num \in 0 .. MaxAttrs /\ DOMAIN v.attrs = 1 .. num /\ DOMAIN u.attrs = 1 .. num
        /\ \A j \in 1 .. num :
             /\ u.attrs[j].ptr = v.attrs[j].ptr /\ v.attrs[j].ptr \in BOOLEAN /\ v.attrs[j].len \in Nat
             /\ v.attrs[j].type = j /\ DOMAIN u.attrs[j] = {"type", "ptr", "len"}
        /\ needs \in [1 .. MaxAttrs -> Lens \cup {Unavailable}] /\ p = GetAttributes(v, needs)
    BY <1>3, <1>4, <1>5
  <2> HIDE DEF num, needs, z
  <2> QED
    BY <2>1, <2>2, AttributesReturn
<1>7. y = z
  BY <1>1, WrArrays DEF u
<1> HIDE DEF z, y
<1>8. PICK f : /\ z.ret = "OK" /\ z.values = <<f, write_value(p.ret)>>
               /\ proto_read_attribute_array(v, f, p.ret).ret = p.ret
               /\ Output(3, proto_read_attribute_array(v, f, p.ret).out) ++ <<>> = p.outs
  BY <1>6 DEF TemplateReturns
<1>9. (<<>> \o y.values)[1] = f /\ (<<>> \o y.values)[2] = write_value(p.ret)
  BY <1>7, <1>8, AfterNothing
<1>10. write_value(p.ret).val = p.ret
  BY DEF write_value
<1>11. x = proto_read_attribute_array(v, f, p.ret)
  BY <1>1, <1>9, <1>10, RdCases DEF v
<1> HIDE DEF x
<1>12. x.ret = d.ret /\ Output(3, x.out) ++ <<>> = d.outs
  BY <1>2, <1>8, <1>11
<1>13. OutGiven(m, a[3])
  BY <1>1, GivenCases
<1> QED
  BY <1>1, <1>7, <1>8, <1>12, <1>13 DEF OneReturns, x, y, p, d

\* ... an information structure ...
LEMMA InfoCall ==
  ASSUME NEW c, NEW a, NEW s, NEW w, c \notin Special, Ready(c, a, s, w),
         NEW m \in [macro : InfoMacros, arg : Nat],
         DaemonStubs[c].out = <<m>>, ClientStubs[c].out = <<m>>,
         <<"ptr", m.arg>> \in ClientStubs[c].need, w.ret # "FAIL", SlotsFit(c)
  PROVE  OneReturns(c, a, s, w)
<1> DEFINE p == Served(c, a, w)
           y == Wr(c, s, p, m, p.ret)
           d == DirectOf(c, a, w)
           x == Rd(<<>> \o y.values, w, m, a[m.arg])
           fs == DaemonFields[m.macro]
           o == Info(fs, w)
           g == [i \in DOMAIN fs |-> FieldOf(fs[i], o)]
<1>1. DaemonStubs[c].out[1] = m /\ ClientStubs[c].out[1] = m /\ m.macro \in InfoMacros
  OBVIOUS
<1>2. d = p
  BY DirectIs DEF Special
<1>3. p.ret = "OK" /\ p.outs = Output(m.arg, o)
  BY <1>1, InfoModule, ReplyIs
<1>4. p.outs[m.arg] = o
  BY <1>3, FirstOutput
<1> HIDE DEF p, d
<1>5. y.ret = "OK" /\ y.values = g
  <2>1. y = Written([i \in DOMAIN fs |-> fs[i].part],
                    [i \in DOMAIN fs |-> FieldOf(fs[i], p.outs[m.arg])], "OK")
    BY <1>1, <1>3, WrInfo
  <2> HIDE DEF y, o
  <2> QED
    BY <1>4, <2>1 DEF Written
<1>6. w.slot \in 0 .. 1023
  BY WantIs DEF Ready
<1>7. /\ proto_read_fields(ClientFields[m.macro], g).ret = "OK"
      /\ proto_read_fields(ClientFields[m.macro], g).out = o
      /\ <<>> \o g = g
  BY <1>1, <1>6, InfoReturns
<1> HIDE DEF y, g, o
<1>8. x = proto_read_fields(ClientFields[m.macro], g)
  BY <1>1, <1>5, <1>7, RdInfo
<1> HIDE DEF x
<1>9. x.ret = d.ret /\ Output(m.arg, x.out) ++ <<>> = d.outs
  BY <1>2, <1>3, <1>7, <1>8, FirstOutput
<1>10. a[m.arg].ptr
  <2> DEFINE q == <<"ptr", m.arg>>
  <2>1. q[1] = "ptr" /\ q[2] = m.arg
    OBVIOUS
  <2>2. Meets(q[1], a[q[2]])
    BY DEF Ready
  <2> HIDE DEF q
  <2>3. Meets("ptr", a[m.arg])
    BY <2>1, <2>2
  <2> QED
    BY <2>3 DEF Meets
<1>11. OutGiven(m, a[m.arg])
  BY <1>1, <1>10, GivenCases
<1> QED
  BY <1>1, <1>5, <1>9, <1>11 DEF OneReturns, x, y, p, d

\* A slot id below 1024 is not changed by the daemon.
LEMMA SlotKeptApart ==
  ASSUME NEW c, NEW v, v \in Ulongs, SlotsFit(c)
  PROVE  SlotOf(c, v) = v
<1>1. CASE c = "C_WaitForSlotEvent"
  <2>1. v % 1024 = v
    BY <1>1 DEF SlotsFit
  <2> QED
    BY <2>1 DEF SlotOf, CK_GNOME_APPARTMENT_SLOT
<1>2. CASE c # "C_WaitForSlotEvent"
  BY <1>2 DEF SlotOf
<1> QED
  BY <1>1, <1>2

\* A number is written ...
LEMMA NumberWritten ==
  ASSUME NEW c, NEW s, NEW p, NEW m, m.macro = "ULONG", p.outs[m.arg] \in Ulongs,
         SlotsFit(c), NEW y, y = Wr(c, s, p, m, "OK")
  PROVE  y.ret = "OK" /\ y.values = <<write_value(p.outs[m.arg])>>
<1> DEFINE t == <<write_value(p.outs[m.arg])>>
<1>1. y = Written(<<"u">>, t, "OK")
  BY WrNumber, SlotKeptApart
<1> HIDE DEF t
<1>2. y.ret = "OK" /\ y.values = t
  BY <1>1 DEF Written
<1> QED
  BY <1>2 DEF t

\* ... and read as it was written.
LEMMA NumberRead ==
  ASSUME NEW f, NEW w, NEW m, NEW a, m.macro = "ULONG", NEW v, f[1] = write_value(v)
  PROVE  Rd(f, w, m, a).ret = "OK" /\ Rd(f, w, m, a).out = v
  BY RdCases DEF Read, write_value

\* Calls that return a number.
LEMMA NumberCall ==
  ASSUME NEW c, NEW a, NEW s, NEW w, c \notin Special, Ready(c, a, s, w), NEW n \in Nat,
         DaemonStubs[c].out = <<OUT_ULONG(n)>>, ClientStubs[c].out = <<OUT_ULONG(n)>>,
         w.ret # "FAIL", SlotsFit(c)
  PROVE  OneReturns(c, a, s, w)
<1> DEFINE p == Served(c, a, w)
           m == OUT_ULONG(n)
           y == Wr(c, s, p, m, p.ret)
           d == DirectOf(c, a, w)
           x == Rd(<<>> \o y.values, w, m, a[n])
<1>1. DaemonStubs[c].out[1] = m /\ ClientStubs[c].out[1] = m /\ m.macro = "ULONG" /\ m.arg = n
  BY OutputsAre
<1>2. d = p
  BY DirectIs DEF Special
<1>3. OutMacros(c) \subseteq {"ULONG"} /\ OutUlongs(c) = {n}
  BY <1>1, OneOut
<1>3c. c # "C_CloseAllSessions"
  BY NotCloseAll
<1>4. p.ret = "OK" /\ p.outs = w.ulongs
  BY <1>3, <1>3c, NumbersModule, ReplyIs
<1>5. w.ulongs \in [{n} -> Ulongs]
  BY <1>3, WantIs DEF Ready
<1> DEFINE v == w.ulongs[n]
<1>6. w.ulongs = Output(n, v) /\ v \in Ulongs
  BY <1>5 DEF Output
<1> HIDE DEF p, d, m
<1>7. y.ret = "OK" /\ y.values = <<write_value(v)>>
  BY <1>1, <1>4, <1>6, NumberWritten
<1> HIDE DEF y, v
<1>8. (<<>> \o y.values)[1] = write_value(v)
  BY <1>7, AfterNothing
<1>9. x.ret = "OK" /\ x.out = v
  BY <1>1, <1>8, NumberRead
<1> HIDE DEF x
<1>10. x.ret = d.ret /\ Output(n, x.out) ++ <<>> = d.outs
  BY <1>2, <1>4, <1>6, <1>9, FirstOutput
<1>11. OutGiven(m, a[n])
  <2>1. a[n].ptr
    BY <1>3 DEF Ready
  <2> QED
    BY <1>1, <2>1, GivenCases
<1> QED
  BY <1>1, <1>7, <1>10, <1>11 DEF OneReturns, x, y, p, d

\* Every call with one output returns to the application what the module
\* returned.
LEMMA OneCall ==
  ASSUME NEW c, NEW a, NEW s, NEW w, Ready(c, a, s, w), ClientLen(c) = 1, ~ZeroBuffers,
         SlotsFit(c)
  PROVE  OneReturns(c, a, s, w)
<1> DEFINE g == gck_rpc_calls[c]  cl == ClientStubs[c]  da == DaemonStubs[c]
<1>0. /\ c \in DOMAIN gck_rpc_calls /\ InDomain(c, a) /\ Accepted(c, a, NumIn(c))
      /\ s = Got(c, a, NumIn(c))
  BY DEF Ready
<1>1. Agreed(c, g, cl, da)
  BY <1>0, Agreement
<1>n. Len(g.request) = NumIn(c) /\ NumIn(c) \in Nat
  BY <1>0, NumInIs
<1>w. w.need \in Nat
  BY WantIs DEF Ready
<1>l. Len(cl.out) = 1 /\ Len(da.out) = 1
  BY <1>0, OutFacts DEF ClientLen
<1> HIDE DEF g, cl, da
<1>2. CASE NoOut(c, g, cl, da)
  BY <1>2, <1>l DEF NoOut
<1>3. CASE BytesOut(c, g, cl, da)
  <2>1. PICK n \in 1 .. Len(g.request) :
           /\ da.out = <<OUT_BYTE_ARRAY(n)>> /\ cl.out = <<OUT_BYTE_ARRAY(n)>>
           /\ cl.in[n].macro = "BYTE_BUFFER"
           /\ c \notin Special \/ (c = "C_GenerateRandom" /\ n = 2 /\ <<"ptr", 2>> \in cl.need)
    BY <1>3 DEF BytesOut
  <2> DEFINE m == OUT_BYTE_ARRAY(n)
  <2>2. m.macro = "BYTE_ARRAY" /\ m.arg = n
    BY OutputsAre
  <2>3. n \in 1 .. NumIn(c)
    BY <1>n, <2>1
  <2>4. CASE w.ret = "FAIL"
    BY <2>1, <2>2, <2>4, FailedOutputs DEF da
  <2>5. CASE w.ret # "FAIL"
    <3>1. /\ SameBuffer(a[n], s[n]) /\ a[n].cnt \in BOOLEAN /\ a[n].ptr \in BOOLEAN /\ a[n].len \in Nat
          /\ c = "C_GenerateRandom" => a[n].cnt
      BY <1>0, <2>1, <2>3, BufferIs DEF cl
    <3>2. ArrayReturns("ay", n, a[n], s[n], Served(c, a, w))
      <4>1. CASE c \notin Special
        <5>1. Served(c, a, w) = FillBuffer(n, a[n], w.need)
          BY <2>1, <2>5, <4>1, BytesModule DEF da
        <5> QED
          BY <1>w, <3>1, <5>1, FillReturns
      <4>2. CASE c = "C_GenerateRandom" /\ n = 2 /\ <<"ptr", 2>> \in cl.need
        <5>1. OutMacros(c) \cap InfoMacros = {}
          BY <2>1, <2>2, OneOut, InfoNames DEF da
        <5>2. Served(c, a, w) = Reply("OK", Output(2, [len |-> a[2].len, got |-> TRUE]))
          BY <2>5, <4>2, <5>1, SpecialModules
        <5>3. a[2].ptr
          <6> DEFINE q == <<"ptr", 2>>
          <6>1. q[1] = "ptr" /\ q[2] = 2 /\ q \in ClientStubs[c].need
            BY <4>2 DEF cl
          <6> HIDE DEF q
          <6>2. Meets("ptr", a[2])
            BY <6>1 DEF Ready
          <6> QED
            BY <6>2 DEF Meets
        <5>4. /\ SameBuffer(a[2], s[2]) /\ a[2].cnt \in BOOLEAN /\ a[2].ptr \in BOOLEAN
              /\ a[2].len \in Nat /\ a[2].cnt
          BY <3>1, <4>2
        <5> DEFINE b == a[2]  u == s[2]  p == Served(c, a, w)
        <5>5. /\ SameBuffer(b, u) /\ b.cnt \in BOOLEAN /\ b.ptr \in BOOLEAN /\ b.len \in Nat
              /\ b.cnt /\ b.ptr
          BY <5>3, <5>4
        <5> DEFINE o == [len |-> b.len, got |-> TRUE]
        <5>7. p.ret = "OK" /\ p.outs = Output(2, o)
          BY <5>2, ReplyIs
        <5> HIDE DEF b, u, p
        <5>8. o.len = b.len /\ b.len >= o.len /\ o.len \in Nat
          BY <5>5
        <5>9. (p.ret = "OK" /\ b.ptr) = TRUE
          BY <5>5, <5>7
        <5>10. o = [len |-> o.len, got |-> p.ret = "OK" /\ b.ptr]
          BY <5>8, <5>9
        <5> HIDE DEF o
        <5>6. ArrayReturns("ay", 2, b, u, p)
          BY <5>5, <5>7, <5>8, <5>10, ArrayComesBack
        <5> QED
          BY <4>2, <5>6 DEF b, u, p
      <4> QED
        BY <2>1, <4>1, <4>2
    <3>3. c # "C_GetMechanismList"
      BY <2>1 DEF Special
    <3> HIDE DEF m
    <3>4. DaemonStubs[c].out = <<m>> /\ ClientStubs[c].out = <<m>>
      BY <2>1 DEF m, cl, da
    <3> DEFINE t == "ay"
    <3>5. m.macro = "BYTE_ARRAY" /\ t = "ay" /\ m.arg = n
      BY <2>2
    <3>6. ArrayReturns(t, n, a[n], s[n], Served(c, a, w))
      BY <3>2
    <3> HIDE DEF t
    <3> QED
      BY <3>3, <3>4, <3>5, <3>6, ArrayCall
  <2> QED
    BY <2>4, <2>5
<1>4. CASE UlongsOut(c, g, cl, da)
  <2>1. /\ da.out = <<OUT_ULONG_ARRAY(2)>> /\ cl.in[2].macro = "ULONG_BUFFER" /\ 2 \in 1 .. NumIn(c)
        /\ c \notin {"C_GetAttributeValue", "C_GenerateRandom"}
        /\ cl.out = IF c = "C_GetMechanismList" THEN <<OUT_MECHANISM_TYPE_ARRAY(2)>>
                    ELSE <<OUT_ULONG_ARRAY(2)>>
    BY <1>n, <1>4 DEF UlongsOut
  <2> DEFINE m == OUT_ULONG_ARRAY(2)
  <2>2. m.macro = "ULONG_ARRAY" /\ m.arg = 2
    BY OutputsAre
  <2>4. CASE w.ret = "FAIL"
    BY <2>1, <2>2, <2>4, FailedOutputs DEF da
  <2>5. CASE w.ret # "FAIL"
    <3>1. /\ SameBuffer(a[2], s[2]) /\ a[2].cnt \in BOOLEAN /\ a[2].ptr \in BOOLEAN
          /\ a[2].len \in Nat /\ a[2].cnt
      BY <1>0, <2>1, BufferIs DEF cl
    <3>2. CASE c = "C_FindObjects"
      <4>1. OutMacros(c) \cap InfoMacros = {}
        BY <2>1, <2>2, OneOut, InfoNames DEF da
      <4>2. Served(c, a, w) = FindObjects(a[2], w.need)
        <5>1. OutMacros("C_FindObjects") \cap InfoMacros = {}
          BY <3>2, <4>1
        <5>2. Served("C_FindObjects", a, w) = FindObjects(a[2], w.need)
          BY <2>5, <5>1, SpecialModules
        <5> QED
          BY <3>2, <5>2
      <4>3. ArrayReturns("au", 2, a[2], s[2], Served(c, a, w))
        BY <1>w, <3>1, <4>2, FindReturns
      <4> HIDE DEF m
      <4>4. DaemonStubs[c].out = <<m>> /\ ClientStubs[c].out = <<m>> /\ c # "C_GetMechanismList"
        BY <2>1, <3>2 DEF m, cl, da
      <4> QED
        BY <2>2, <4>3, <4>4, ArrayCall
    <3>3. CASE c # "C_FindObjects" /\ c # "C_GetMechanismList"
      <4>2. Served(c, a, w) = FillBuffer(2, a[2], w.need)
        <5>1. c \notin Special
          BY <2>1, <3>3 DEF Special
        <5> QED
          BY <2>1, <2>5, <5>1, BytesModule DEF da
      <4>3. ArrayReturns("au", 2, a[2], s[2], Served(c, a, w))
        BY <1>w, <3>1, <4>2, FillReturns
      <4> HIDE DEF m
      <4>4. DaemonStubs[c].out = <<m>> /\ ClientStubs[c].out = <<m>> /\ c # "C_GetMechanismList"
        BY <2>1, <3>3 DEF m, cl, da
      <4> QED
        BY <2>2, <4>3, <4>4, ArrayCall
    <3>4. CASE c = "C_GetMechanismList"
      <4>2. Served(c, a, w) = FillBuffer(2, a[2], w.need)
        BY <2>1, <2>5, <3>4, MechanismListModule DEF da
      <4>3. ArrayReturns("au", 2, a[2], s[2], Served(c, a, w))
        BY <1>w, <3>1, <4>2, FillReturns
      <4>4. Served(c, a, w) = Reply(Served(c, a, w).ret, Served(c, a, w).outs)
        <5> DEFINE p == Served(c, a, w)
        <5>1. p = FillBuffer(2, a[2], w.need)
          BY <4>2
        <5> HIDE DEF p
        <5>2. \E r, o : p = Reply(r, o)
          BY <5>1 DEF FillBuffer
        <5>3. p = Reply(p.ret, p.outs)
          BY <5>2, ReplyIs
        <5> QED
          BY <5>3 DEF p
      <4>5. /\ DaemonStubs[c].out = <<OUT_ULONG_ARRAY(2)>>
            /\ ClientStubs[c].out = <<OUT_MECHANISM_TYPE_ARRAY(2)>>
        BY <2>1, <3>4 DEF cl, da
      <4> QED
        BY <3>4, <4>3, <4>4, <4>5, ListCall
    <3> QED
      BY <3>2, <3>3, <3>4
  <2> QED
    BY <2>4, <2>5
<1>5. CASE AttrsOut(c, g, cl, da)
  <2>1. /\ da.out = <<OUT_ATTRIBUTE_ARRAY(3)>> /\ cl.out = <<OUT_ATTRIBUTE_ARRAY(3)>>
        /\ cl.in[3].macro = "ATTRIBUTE_BUFFER" /\ 3 \in 1 .. NumIn(c) /\ c = "C_GetAttributeValue"
    BY <1>n, <1>5 DEF AttrsOut
  <2>2. CASE w.ret = "FAIL"
    BY <2>1, <2>2, OutputsAre, FailedOutputs DEF da
  <2>3. CASE w.ret # "FAIL"
    BY <2>1, <2>3, AttributesCall DEF cl, da
  <2> QED
    BY <2>2, <2>3
<1>6. CASE InfoOut(c, g, cl, da)
  <2>1. PICK m \in [macro : InfoMacros, arg : Nat] :
          /\ cl.out = <<m>> /\ da.out = <<m>> /\ <<"ptr", m.arg>> \in cl.need /\ c \notin Special
    BY <1>6 DEF InfoOut
  <2>2. CASE w.ret = "FAIL"
    BY <2>1, <2>2, FailedOutputs DEF da
  <2>3. CASE w.ret # "FAIL"
    BY <2>1, <2>3, InfoCall DEF cl, da
  <2> QED
    BY <2>2, <2>3
<1>7. CASE NumsOut(c, g, cl, da)
  <2>1. PICK n \in Nat : /\ da.out = <<OUT_ULONG(n)>> \/ da.out = <<OUT_ULONG(n), OUT_ULONG(n + 1)>>
                         /\ cl.out = da.out /\ c \notin Special
    BY <1>7 DEF NumsOut
  <2>2. da.out = <<OUT_ULONG(n)>>
    BY <1>l, <2>1
  <2>3. CASE w.ret = "FAIL"
    BY <2>2, <2>3, OutputsAre, FailedOutputs DEF da
  <2>4. CASE w.ret # "FAIL"
    BY <2>1, <2>2, <2>4, NumberCall DEF cl, da
  <2> QED
    BY <2>3, <2>4
<1> QED
  BY <1>1, <1>2, <1>3, <1>4, <1>5, <1>6, <1>7 DEF Agreed

\* A call that returns bytes, attributes or a structure has one output.
LEMMA OneOutput ==
  ASSUME NEW c, NEW g, NEW cl, NEW da,
         BytesOut(c, g, cl, da) \/ AttrsOut(c, g, cl, da) \/ InfoOut(c, g, cl, da)
  PROVE  Len(cl.out) = 1
<1>1. PICK m : cl.out = <<m>>
  BY Zenon DEF BytesOut, AttrsOut, InfoOut
<1>2. Len(<<m>>) = 1
  OBVIOUS
<1> QED
  BY <1>1, <1>2

\* A call that returns numbers has one or two outputs.
LEMMA SomeOutputs ==
  ASSUME NEW c, NEW g, NEW cl, NEW da, NumsOut(c, g, cl, da)
  PROVE  Len(cl.out) \in {1, 2}
<1>1. PICK m, q : cl.out = <<m>> \/ cl.out = <<m, q>>
  BY Zenon DEF NumsOut
<1>2. Len(<<m>>) = 1 /\ Len(<<m, q>>) = 2
  OBVIOUS
<1> QED
  BY <1>1, <1>2

\* A call without outputs returns what the module returned.
LEMMA NoCall ==
  ASSUME NEW c, NEW a, NEW s, NEW w, Ready(c, a, s, w), ClientLen(c) = 0, SlotsFit(c)
  PROVE  DirectOf(c, a, w).ret = Served(c, a, w).ret /\ DirectOf(c, a, w).outs = <<>>
<1>0. c \in DOMAIN gck_rpc_calls
  BY DEF Ready
<1>1. Agreed(c, gck_rpc_calls[c], ClientStubs[c], DaemonStubs[c])
  BY <1>0, Agreement
<1>2. NoOut(c, gck_rpc_calls[c], ClientStubs[c], DaemonStubs[c])
  <2> DEFINE g == gck_rpc_calls[c]  cl == ClientStubs[c]  da == DaemonStubs[c]
  <2>1. Agreed(c, g, cl, da) /\ Len(cl.out) < 1
    BY <1>1 DEF ClientLen
  <2> HIDE DEF g, cl, da
  <2>2. ~BytesOut(c, g, cl, da)
    BY <2>1, OneOutput
  <2>3. ~UlongsOut(c, g, cl, da)
    BY <2>1 DEF UlongsOut
  <2>4. ~AttrsOut(c, g, cl, da)
    BY <2>1, OneOutput
  <2>5. ~NumsOut(c, g, cl, da)
    BY <2>1, SomeOutputs
  <2>6. ~InfoOut(c, g, cl, da)
    BY <2>1, OneOutput
  <2>7. NoOut(c, g, cl, da)
    BY <2>1, <2>2, <2>3, <2>4, <2>5, <2>6 DEF Agreed
  <2> QED
    BY <2>7 DEF g, cl, da
<1>3. c \notin Special /\ OutMacros(c) \subseteq {"ULONG"} /\ OutUlongs(c) = {}
  BY <1>2, NoOuts DEF NoOut
<1>4. DirectOf(c, a, w) = Served(c, a, w)
  BY <1>3, DirectIs DEF Special
<1>5. CASE w.ret = "FAIL"
  BY <1>4, <1>5, FailedModule, ReplyIs
<1>7. CASE c = "C_CloseAllSessions"
  BY <1>4, <1>7, CloseAllModule
<1>6. CASE w.ret # "FAIL" /\ c # "C_CloseAllSessions"
  <2>1. Served(c, a, w).outs = w.ulongs
    BY <1>3, <1>6, NumbersModule, ReplyIs
  <2>4. w.ulongs \in [OutUlongs(c) -> Ulongs]
    BY WantIs DEF Ready
  <2>2. w.ulongs \in [{} -> Ulongs]
    BY <1>3, <2>4
  <2>3. w.ulongs = <<>>
    BY <2>2
  <2> QED
    BY <1>4, <2>1, <2>3
<1> QED
  BY <1>5, <1>6, <1>7

\* What the macros of a stub with two outputs write and read, one after the
\* other.
FirstWritten(c, a, s, w)  == Wr(c, s, Served(c, a, w), DaemonStubs[c].out[1], Served(c, a, w).ret)
SecondWritten(c, a, s, w) ==
  Wr(c, s, Served(c, a, w), DaemonStubs[c].out[2], FirstWritten(c, a, s, w).ret)
OneResponse(c, a, s, w)   == <<>> \o FirstWritten(c, a, s, w).values
TwoResponse(c, a, s, w)   == OneResponse(c, a, s, w) \o SecondWritten(c, a, s, w).values
FirstRead(c, a, s, w) ==
  Rd(TwoResponse(c, a, s, w), w, ClientStubs[c].out[1], a[ClientStubs[c].out[1].arg])
Unread(c, a, s, w) ==
  SubSeq(TwoResponse(c, a, s, w), Len(FirstRead(c, a, s, w).parts) + 1, Len(TwoResponse(c, a, s, w)))
SecondRead(c, a, s, w) ==
  Rd(Unread(c, a, s, w), w, ClientStubs[c].out[2], a[ClientStubs[c].out[2].arg])
FirstResult(c, a, s, w) == Output(ClientStubs[c].out[1].arg, FirstRead(c, a, s, w).out) ++ <<>>

\* The same with two outputs.
TwoReturns(c, a, s, w) ==
  LET d == DirectOf(c, a, w)
      y == SecondWritten(c, a, s, w)
      m == ClientStubs[c].out[1]
      q == ClientStubs[c].out[2]
      x == SecondRead(c, a, s, w)
  IN  /\ y.ret # "OK" => y.ret = d.ret /\ d.outs = <<>>
      /\ y.ret = "OK" =>
           /\ OutGiven(m, a[m.arg]) /\ OutGiven(q, a[q.arg])
           /\ FirstRead(c, a, s, w).ret = "OK" /\ x.ret = d.ret
           /\ Output(q.arg, x.out) ++ FirstResult(c, a, s, w) = d.outs

\* The values of a response with two numbers.
LEMMA TwoValues ==
  ASSUME NEW x, NEW y, NEW f, f = (<<>> \o <<x>>) \o <<y>>
  PROVE  Len(f) = 2 /\ f[1] = x /\ f[2] = y /\ SubSeq(f, 2, 2)[1] = y
<1>1. f \in Seq({x, y}) /\ Len(f) = 2 /\ f[1] = x /\ f[2] = y
  OBVIOUS
<1>2. SubSeq(f, 2, 2)[1] = f[2]
  BY <1>1
<1> QED
  BY <1>1, <1>2

\* Two numbers make the outputs of the call.
LEMMA TwoOutputs ==
  ASSUME NEW n \in Nat, NEW u, NEW W, u \in [{n, n + 1} -> W]
  PROVE  Output(n + 1, u[n + 1]) ++ (Output(n, u[n]) ++ <<>>) = u
<1>1. Output(n, u[n]) ++ <<>> = Output(n, u[n])
  BY FirstOutput
<1>2. Output(n + 1, u[n + 1]) ++ Output(n, u[n]) = u
  BY DEF Output, ++
<1> QED
  BY <1>1, <1>2

\* A call with two outputs returns both as the module returned them.
LEMMA TwoCall ==
  ASSUME NEW c, NEW a, NEW s, NEW w, Ready(c, a, s, w), ClientLen(c) = 2, SlotsFit(c)
  PROVE  TwoReturns(c, a, s, w)
<1> DEFINE p  == Served(c, a, w)
           d  == DirectOf(c, a, w)
           y1 == FirstWritten(c, a, s, w)
           y2 == SecondWritten(c, a, s, w)
           f  == TwoResponse(c, a, s, w)
           x1 == FirstRead(c, a, s, w)
           x2 == SecondRead(c, a, s, w)
<1>0. c \in DOMAIN gck_rpc_calls
  BY DEF Ready
<1>1. PICK n \in Nat : /\ DaemonStubs[c].out = <<OUT_ULONG(n), OUT_ULONG(n + 1)>>
                       /\ ClientStubs[c].out = DaemonStubs[c].out /\ c \notin Special
  <2> DEFINE g == gck_rpc_calls[c]  cl == ClientStubs[c]  da == DaemonStubs[c]
  <2>1. Agreed(c, g, cl, da) /\ Len(cl.out) = 2
    BY <1>0, Agreement DEF ClientLen
  <2> HIDE DEF g, cl, da
  <2>2. ~NoOut(c, g, cl, da) /\ ~BytesOut(c, g, cl, da)
    <3>1. ~NoOut(c, g, cl, da)
      BY <2>1 DEF NoOut
    <3>2. ~BytesOut(c, g, cl, da)
      BY <2>1, OneOutput
    <3> QED
      BY <3>1, <3>2
  <2>3. ~UlongsOut(c, g, cl, da) /\ ~AttrsOut(c, g, cl, da) /\ ~InfoOut(c, g, cl, da)
    <3>1. ~UlongsOut(c, g, cl, da)
      BY <2>1 DEF UlongsOut
    <3>2. ~AttrsOut(c, g, cl, da)
      BY <2>1, OneOutput
    <3>3. ~InfoOut(c, g, cl, da)
      BY <2>1, OneOutput
    <3> QED
      BY <3>1, <3>2, <3>3
  <2>4. NumsOut(c, g, cl, da)
    BY <2>1, <2>2, <2>3 DEF Agreed
  <2>5. PICK n \in Nat : /\ da.out = <<OUT_ULONG(n)>> \/ da.out = <<OUT_ULONG(n), OUT_ULONG(n + 1)>>
                         /\ cl.out = da.out /\ c \notin Special
    BY <2>4 DEF NumsOut
  <2>6. da.out = <<OUT_ULONG(n), OUT_ULONG(n + 1)>>
    BY <2>1, <2>5
  <2> QED
    BY <2>5, <2>6 DEF cl, da
<1> DEFINE m == OUT_ULONG(n)  q == OUT_ULONG(n + 1)
<1>2. /\ m.macro = "ULONG" /\ m.arg = n /\ q.macro = "ULONG" /\ q.arg = n + 1
      /\ DaemonStubs[c].out[1] = m /\ DaemonStubs[c].out[2] = q
      /\ ClientStubs[c].out[1] = m /\ ClientStubs[c].out[2] = q
  BY <1>1, OutputsAre
<1>3. OutMacros(c) \subseteq {"ULONG"} /\ OutUlongs(c) = {n, n + 1}
  BY <1>1, TwoOuts
<1>4. d = p
  BY <1>1, DirectIs DEF Special
<1> HIDE DEF m, q, d, p
<1>y. y1 = Wr(c, s, p, m, p.ret) /\ y2 = Wr(c, s, p, q, y1.ret)
  BY <1>2 DEF FirstWritten, SecondWritten, p
<1> HIDE DEF y1, y2
<1>5. CASE w.ret = "FAIL"
  <2>1. p.ret = "FAIL" /\ p.outs = <<>>
    BY <1>5, FailedModule, ReplyIs DEF p
  <2>2. y1 = Nothing("FAIL")
    BY <1>2, <1>y, <2>1, WrNothing
  <2>3. y1.ret = "FAIL"
    BY <2>2, WrittenNothing
  <2>4. y2 = Nothing("FAIL")
    BY <1>2, <1>y, <2>3, WrNothing
  <2>5. y2.ret = "FAIL"
    BY <2>4, WrittenNothing
  <2> QED
    BY <1>4, <2>1, <2>5 DEF TwoReturns, y2, d
<1>6. CASE w.ret # "FAIL"
  <2>c. c # "C_CloseAllSessions"
    BY <1>1, CloseAllStub
  <2>1. p.ret = "OK" /\ p.outs = w.ulongs
    BY <1>1, <1>3, <1>6, <2>c, NumbersModule, ReplyIs DEF p
  <2>2. w.ulongs \in [OutUlongs(c) -> Ulongs]
    BY WantIs DEF Ready
  <2>3. w.ulongs \in [{n, n + 1} -> Ulongs]
    BY <1>3, <2>2
  <2> DEFINE v1 == w.ulongs[n]  v2 == w.ulongs[n + 1]
  <2>4. v1 \in Ulongs /\ v2 \in Ulongs /\ p.outs[m.arg] = v1 /\ p.outs[q.arg] = v2
    BY <1>2, <2>1, <2>3
  <2>4a. Output(n + 1, v2) ++ (Output(n, v1) ++ <<>>) = w.ulongs
    BY <2>3, TwoOutputs
  <2> HIDE DEF v1, v2
  <2>5. y1.ret = "OK" /\ y1.values = <<write_value(v1)>>
    BY <1>2, <1>y, <2>1, <2>4, NumberWritten
  <2>6. y2.ret = "OK" /\ y2.values = <<write_value(v2)>>
    BY <1>2, <1>y, <2>4, <2>5, NumberWritten
  <2>7. f = (<<>> \o <<write_value(v1)>>) \o <<write_value(v2)>>
    BY <2>5, <2>6 DEF TwoResponse, OneResponse, y1, y2
  <2> HIDE DEF f
  <2>8. Len(f) = 2 /\ f[1] = write_value(v1) /\ SubSeq(f, 2, 2)[1] = write_value(v2)
    BY <2>7, TwoValues
  <2>9. x1 = Rd(f, w, m, a[n])
    BY <1>2 DEF FirstRead, f
  <2>10. x1.ret = "OK" /\ x1.out = v1
    BY <1>2, <2>8, <2>9, NumberRead
  <2>11. x1.parts = <<"u">>
    BY <1>2, <2>9, RdCases, PartsRead
  <2>12. Len(x1.parts) + 1 = 2
    BY <2>11
  <2> HIDE DEF x1
  <2>13. x2 = Rd(SubSeq(f, 2, 2), w, q, a[n + 1])
    BY <1>2, <2>8, <2>12 DEF SecondRead, Unread, f, x1
  <2>14. x2.ret = "OK" /\ x2.out = v2
    <3> DEFINE h == SubSeq(f, 2, 2)
    <3>1. h[1] = write_value(v2) /\ x2 = Rd(h, w, q, a[n + 1])
      BY <2>8, <2>13
    <3> HIDE DEF h, x2
    <3> QED
      BY <1>2, <3>1, NumberRead
  <2> HIDE DEF x2
  <2>15. Output(n + 1, x2.out) ++ FirstResult(c, a, s, w) = d.outs
    BY <1>2, <1>4, <2>1, <2>4a, <2>10, <2>14 DEF FirstResult, x1
  <2>16. OutGiven(m, a[n]) /\ OutGiven(q, a[n + 1])
    <3>1. a[n].ptr /\ a[n + 1].ptr
      BY <1>3 DEF Ready
    <3> QED
      BY <1>2, <3>1, GivenCases
  <2> QED
    BY <1>2, <1>4, <2>1, <2>6, <2>10, <2>14, <2>15, <2>16 DEF TwoReturns, d, y2, x1, x2
<1> QED
  BY <1>5, <1>6

-----------------------------------------------------------------------------
(* The reply on its way.                                                   *)

\* The code and the values the daemon's stub ends with.
Finished(c, a, s, w, r, f) ==
  /\ ClientLen(c) = 0 => r = Served(c, a, w).ret /\ f = <<>>
  /\ ClientLen(c) = 1 => r = FirstWritten(c, a, s, w).ret /\ f = OneResponse(c, a, s, w)
  /\ ClientLen(c) = 2 => r = SecondWritten(c, a, s, w).ret /\ f = TwoResponse(c, a, s, w)

\* The same before its macro i.
Writing(c, a, s, w, i, r, f) ==
  /\ i = 1 => r = Served(c, a, w).ret /\ f = <<>>
  /\ i = 2 => r = FirstWritten(c, a, s, w).ret /\ f = OneResponse(c, a, s, w)
  /\ i = 3 => r = SecondWritten(c, a, s, w).ret /\ f = TwoResponse(c, a, s, w)

\* The application has what the direct call gives, ...
Same(c, a, w, r, o) == r = DirectOf(c, a, w).ret /\ o = DirectOf(c, a, w).outs

\* ... unless its session was one too many.
Told(c, a, w, r, o) ==
  IF Refused(c, a, w) THEN r = "SESSION_COUNT" /\ o = <<>> ELSE Same(c, a, w, r, o)

\* The code, the values and the outputs before macro i of the client's stub.
Reading(c, a, s, w, i, r, f, o) ==
  /\ i = 1 => r = "OK" /\ o = <<>> /\ Finished(c, a, s, w, r, f)
  /\ ClientLen(c) = 2 /\ i = 2 =>
       /\ r = "OK" /\ o = FirstResult(c, a, s, w) /\ f = Unread(c, a, s, w)
       /\ SecondWritten(c, a, s, w).ret = "OK"
  /\ i = ClientLen(c) + 1 => Same(c, a, w, r, o)

\* The places for numbers are there; the checks of the stub were passed.
Pointed(c, a) == \A n \in OutUlongs(c) : a[n].ptr
Checked(c, a) == \A q \in ClientStubs[c].need : Meets(q[1], a[q[2]])

\* The response has what the daemon's macros wrote so far of the module's reply;
\* the application has the outputs the client's macros read so far.
OutInv ==
  /\ pc = "idle" => resp = <<>> /\ res = <<>>
  /\ pc # "idle" => want \in Wants(call)
  /\ pc \notin {"idle", "returned"} => Checked(call, args)
  /\ pc \in {"client_in", "daemon_in"} => resp = <<>> /\ res = <<>>
  /\ reply # Nobody =>
       /\ pc # "idle"
       /\ reply = Served(call, args, want)
       /\ pc \in {"daemon_out", "client_out"} => ~Refused(call, args, want)
       /\ pc = "daemon_out" => res = <<>> /\ Writing(call, args, seen, want, k, ret, resp)
       /\ pc = "daemon_done" =>
            /\ res = <<>>
            /\ IF Refused(call, args, want) THEN ret = "SESSION_COUNT"
               ELSE Finished(call, args, seen, want, ret, resp)
       /\ pc = "client_out" /\ Pointed(call, args) =>
            Reading(call, args, seen, want, k, ret, resp, res)
       /\ pc = "returned" /\ Pointed(call, args) => Told(call, args, want, ret, res)

\* Between the module's answer and the return of the client, the call is as the
\* lemmas above assume.
LEMMA IsReady ==
  ASSUME SigInv, ArgInv, OutInv, reply # Nobody, pc # "returned", Pointed(call, args)
  PROVE  Ready(call, args, seen, want)
<1>1. pc # "idle" /\ call \in DOMAIN gck_rpc_calls
  BY Known DEF OutInv, SigInv
<1> QED
  BY <1>1 DEF ArgInv, OutInv, Ready, Pointed, Checked

\* Every step keeps OutInv.
LEMMA OutStep ==
  ASSUME ~ZeroBuffers, \A c \in Calls : SlotsFit(c), SigInv, ArgInv, ArgInv', OutInv, [Next]_vars
  PROVE  OutInv'
<1>0. \A c \in Calls : c \in DOMAIN gck_rpc_calls
  BY Known
<1>1. CASE Begin
  <2>1. PICK c \in Calls : /\ call' = c /\ want' \in Wants(c) /\ pc' \in {"client_in", "returned"}
                           /\ pc' = "client_in" =>
                                {q \in ClientStubs[c].need : ~Meets(q[1], args'[q[2]])} = {}
    BY <1>1 DEF Begin
  <2>2. /\ resp' = <<>> /\ res' = <<>> /\ reply' = Nobody
    BY <1>1 DEF Begin, OutInv, ArgInv
  <2>3. pc' = "client_in" => Checked(call', args')
    BY <2>1 DEF Checked
  <2> QED
    BY <2>1, <2>2, <2>3 DEF OutInv
<1>2. CASE ClientIn \/ ClientRun \/ DaemonIn
  <2>1. /\ pc \in {"client_in", "daemon_in"} /\ pc' \in {"client_in", "daemon_in", "returned"}
        /\ UNCHANGED <<call, args, want, resp, reply, res>>
    BY <1>2 DEF ClientIn, ClientRun, DaemonIn
  <2>2. reply' = Nobody
    BY <2>1 DEF ArgInv
  <2>3. Checked(call', args') /\ want' \in Wants(call')
    BY <2>1 DEF OutInv
  <2> QED
    BY <2>1, <2>2, <2>3 DEF OutInv
<1>3. CASE DaemonProcess
  <2>1. /\ pc = "daemon_in" /\ pc' \in {"daemon_out", "daemon_done"} /\ k' = 1
        /\ call' = call /\ args' = args /\ want' = want /\ resp' = resp /\ res' = res /\ seen' = seen
        /\ \/ reply' = reply
           \/ /\ reply' = Served(call, seen, want)
              /\ \/ /\ TableFull(call, want, reply'.ret) /\ ret' = "SESSION_COUNT"
                    /\ pc' = "daemon_done"
                 \/ /\ ~TableFull(call, want, reply'.ret) /\ ret' = reply'.ret
                    /\ pc' = "daemon_out"
    BY <1>3 DEF DaemonProcess
  <2>2. /\ resp = <<>> /\ res = <<>> /\ reply = Nobody /\ want \in Wants(call) /\ Checked(call, args)
        /\ call \in DOMAIN gck_rpc_calls /\ InDomain(call, args)
    BY <1>0, <2>1 DEF OutInv, ArgInv, SigInv
  <2>3. reply' # Nobody =>
          /\ reply' = Served(call, args, want)
          /\ \/ Refused(call, args, want) /\ ret' = "SESSION_COUNT" /\ pc' = "daemon_done"
             \/ ~Refused(call, args, want) /\ ret' = reply'.ret /\ pc' = "daemon_out"
    <3> SUFFICES ASSUME reply' # Nobody
                 PROVE  /\ reply' = Served(call, args, want)
                        /\ \/ /\ Refused(call, args, want) /\ ret' = "SESSION_COUNT"
                              /\ pc' = "daemon_done"
                           \/ ~Refused(call, args, want) /\ ret' = reply'.ret /\ pc' = "daemon_out"
      OBVIOUS
    <3>1. Accepted(call, args, NumIn(call)) /\ seen = Got(call, args, NumIn(call))
      BY <2>1 DEF ArgInv
    <3>2. Served(call, seen, want) = Served(call, args, want)
      BY <2>2, <3>1, SameReply
    <3> QED
      BY <2>1, <2>2, <3>2 DEF Refused
  <2>4. reply' # Nobody /\ pc' = "daemon_out" => Writing(call', args', seen', want', k', ret', resp')
    BY <2>1, <2>2, <2>3 DEF Writing
  <2>5. Refused(call', args', want') = Refused(call, args, want)
    BY <2>1
  <2> QED
    BY <2>1, <2>2, <2>3, <2>4, <2>5 DEF OutInv
<1>4. CASE DaemonOut
  <2>1. /\ pc = "daemon_out" /\ UNCHANGED <<call, args, want, seen, reply, res>>
        /\ \/ /\ pc' = pc /\ k' = k + 1 /\ k <= Len(DaemonStubs[call].out)
              /\ resp' = resp \o WriteOut(DaemonStubs[call].out[k], ret).values
              /\ ret' = WriteOut(DaemonStubs[call].out[k], ret).ret
           \/ /\ pc' = "daemon_done" /\ k > Len(DaemonStubs[call].out) /\ UNCHANGED <<k, resp, ret>>
    BY <1>4 DEF DaemonOut
  <2>2. /\ Checked(call, args) /\ want \in Wants(call) /\ call \in DOMAIN gck_rpc_calls
        /\ k \in Nat /\ k >= 1 /\ k <= ClientLen(call) + 1
    BY <1>0, <2>1 DEF OutInv, SigInv
  <2>3. ClientLen(call) \in {0, 1, 2} /\ Len(DaemonStubs[call].out) = ClientLen(call)
    BY <2>2, OutFacts
  <2>4. CASE reply = Nobody
    BY <2>1, <2>2, <2>4 DEF OutInv
  <2>5. CASE reply # Nobody /\ k > ClientLen(call)
    <3>1. Writing(call, args, seen, want, k, ret, resp) /\ reply = Served(call, args,
            want) /\ res = <<>> /\ ~Refused(call, args, want)
      BY <2>1, <2>5 DEF OutInv
    <3>2. pc' = "daemon_done" /\ UNCHANGED <<k, resp, ret>> /\ k = ClientLen(call) + 1
      BY <2>1, <2>2, <2>3, <2>5
    <3>3. Finished(call, args, seen, want, ret, resp)
      BY <2>3, <3>1, <3>2 DEF Writing, Finished
    <3>4. Finished(call', args', seen', want', ret', resp')
      BY <2>1, <3>2, <3>3
    <3> QED
      BY <2>1, <2>2, <3>1, <3>2, <3>4 DEF OutInv
  <2>6. CASE reply # Nobody /\ k <= ClientLen(call)
    <3>1. Writing(call, args, seen, want, k, ret, resp) /\ reply = Served(call, args,
            want) /\ res = <<>> /\ ~Refused(call, args, want)
      BY <2>1, <2>6 DEF OutInv
    <3> DEFINE y == Wr(call, seen, reply, DaemonStubs[call].out[k], ret)
    <3>2. pc' = pc /\ k' = k + 1 /\ resp' = resp \o y.values /\ ret' = y.ret
      <4>1. WriteOut(DaemonStubs[call].out[k], ret) = y
        BY Apart
      <4> HIDE DEF y
      <4> QED
        BY <2>1, <2>2, <2>3, <2>6, <4>1
    <3>3. k = 1 => ret = Served(call, args, want).ret /\ resp = <<>>
      BY <3>1 DEF Writing
    <3>4. k = 2 => ret = FirstWritten(call, args, seen, want).ret /\ resp = OneResponse(call, args,
            seen, want)
      BY <3>1 DEF Writing
    <3>5. k = 1 => y = FirstWritten(call, args, seen, want)
      BY <3>1, <3>3 DEF FirstWritten
    <3>6. k = 2 => y = SecondWritten(call, args, seen, want)
      BY <3>1, <3>4 DEF SecondWritten
    <3> HIDE DEF y
    <3>7. k \in {1, 2}
      BY <2>2, <2>3, <2>6
    <3>8. k = 1 => k' = 2 /\ ret' = FirstWritten(call, args, seen, want).ret
                   /\ resp' = OneResponse(call, args, seen, want)
      <4>1. k = 1 => resp' = OneResponse(call, args, seen, want)
        BY <3>2, <3>3, <3>5, Zenon DEF OneResponse
      <4>2. k = 1 => k' = 2 /\ ret' = FirstWritten(call, args, seen, want).ret
        BY <3>2, <3>5
      <4> QED
        BY <4>1, <4>2
    <3>9. k = 2 => k' = 3 /\ ret' = SecondWritten(call, args, seen, want).ret
                   /\ resp' = TwoResponse(call, args, seen, want)
      BY <3>2, <3>4, <3>6 DEF TwoResponse
    <3>10. Writing(call, args, seen, want, k', ret', resp')
      BY <3>7, <3>8, <3>9 DEF Writing
    <3>11. Writing(call', args', seen', want', k', ret', resp')
      BY <2>1, <3>10
    <3> QED
      BY <2>1, <2>2, <3>1, <3>2, <3>11 DEF OutInv
  <2> QED
    BY <2>2, <2>3, <2>4, <2>5, <2>6
<1>5. CASE DaemonDone
  <2>1. /\ pc = "daemon_done" /\ UNCHANGED <<call, args, want, seen, reply, ret, res>> /\ k' = 1
        /\ \/ ret = "OK" /\ pc' = "client_out" /\ resp' = resp
           \/ ret # "OK" /\ pc' = "returned"
    BY <1>5 DEF DaemonDone
  <2>2. /\ Checked(call, args) /\ want \in Wants(call) /\ call \in DOMAIN gck_rpc_calls
    BY <1>0, <2>1 DEF OutInv, SigInv
  <2>3. ClientLen(call) \in {0, 1, 2}
    BY <2>2, OutFacts
  <2>s. SlotsFit(call)
    BY <2>1 DEF SigInv
  <2>4. CASE reply = Nobody
    BY <2>1, <2>2, <2>4 DEF OutInv
  <2>6. CASE reply # Nobody /\ Refused(call, args, want)
    <3>1. ret = "SESSION_COUNT" /\ reply = Served(call, args, want) /\ res = <<>>
      BY <2>1, <2>6 DEF OutInv
    <3>2. pc' = "returned" /\ Told(call', args', want', ret', res')
      BY <2>1, <2>6, <3>1 DEF Told
    <3> QED
      BY <2>1, <2>2, <3>1, <3>2 DEF OutInv
  <2>5. CASE reply # Nobody /\ ~Refused(call, args, want)
    <3>1. Finished(call, args, seen, want, ret, resp) /\ reply = Served(call, args, want) /\ res = <<>>
      BY <2>1, <2>5 DEF OutInv
    <3>2. CASE ~Pointed(call, args)
      BY <2>1, <2>2, <2>5, <3>1, <3>2 DEF OutInv
    <3>3. CASE Pointed(call, args)
      <4>1. Ready(call, args, seen, want)
        BY <2>1, <2>5, <3>3, IsReady
      <4>2. ClientLen(call) = 0 => Same(call, args, want, ret, res)
        BY <2>s, <3>1, <4>1, NoCall DEF Finished, Same
      <4>3. CASE ret = "OK"
        <5>1. Reading(call, args, seen, want, 1, ret, resp, res)
          BY <2>3, <3>1, <4>2, <4>3 DEF Reading
        <5>2. Reading(call', args', seen', want', k', ret', resp', res')
          BY <2>1, <4>3, <5>1
        <5> QED
          BY <2>1, <2>2, <2>5, <3>1, <4>3, <5>2 DEF OutInv
      <4>4. CASE ret # "OK"
        <5>1. ClientLen(call) = 1 => Same(call, args, want, ret, res)
          BY <2>s, <3>1, <4>1, <4>4, OneCall DEF Finished, Same, OneReturns, FirstWritten
        <5>2. ClientLen(call) = 2 => Same(call, args, want, ret, res)
          BY <2>s, <3>1, <4>1, <4>4, TwoCall DEF Finished, Same, TwoReturns
        <5>3. Same(call, args, want, ret, res)
          BY <2>3, <4>2, <5>1, <5>2
        <5>4. Told(call', args', want', ret', res')
          BY <2>1, <2>5, <5>3 DEF Told
        <5> QED
          BY <2>1, <2>2, <3>1, <4>4, <5>4 DEF OutInv
      <4> QED
        BY <4>3, <4>4
    <3> QED
      BY <3>2, <3>3
  <2> QED
    BY <2>4, <2>5, <2>6
<1>6. CASE ClientOut
  <2> DEFINE m == ClientStubs[call].out[k]
             x == ReadOut(m, args[m.arg])
  <2>1. /\ pc = "client_out" /\ pc' = pc /\ UNCHANGED <<call, args, want, seen, reply>>
        /\ k' = k + 1 /\ k <= ClientLen(call)
    BY <1>6 DEF ClientOut, ClientLen
  <2>2. /\ Checked(call, args) /\ want \in Wants(call) /\ call \in DOMAIN gck_rpc_calls
        /\ k \in Nat /\ k >= 1
    BY <1>0, <2>1 DEF OutInv, SigInv
  <2>3. ClientLen(call) \in {0, 1, 2}
    BY <2>2, OutFacts
  <2>o. OutGiven(m, args[m.arg]) /\ ret = "OK" =>
          /\ resp' = SubSeq(resp, Len(x.parts) + 1, Len(resp)) /\ ret' = x.ret
          /\ res' = Output(m.arg, x.out) ++ res
    BY <1>6 DEF ClientOut
  <2>s. SlotsFit(call)
    BY <2>1 DEF SigInv
  <2>x. x = Rd(resp, want, m, args[m.arg])
    BY Apart
  <2>4. CASE reply = Nobody
    BY <2>1, <2>2, <2>4 DEF OutInv
  <2>5. CASE reply # Nobody /\ ~Pointed(call, args)
    BY <2>1, <2>2, <2>5 DEF OutInv
  <2>6. CASE reply # Nobody /\ Pointed(call, args)
    <3>1. /\ Reading(call, args, seen, want, k, ret, resp, res)
          /\ reply = Served(call, args, want) /\ ~Refused(call, args, want)
      BY <2>1, <2>6 DEF OutInv
    <3>2. Ready(call, args, seen, want)
      BY <2>1, <2>6, IsReady
    <3> DEFINE c == call  a == args  s == seen  w == want
    <3>3. CASE k = 1 /\ ClientLen(call) = 1
      <4>1. /\ ret = "OK" /\ res = <<>> /\ resp = OneResponse(c, a, s, w)
            /\ FirstWritten(c, a, s, w).ret = "OK"
        BY <3>1, <3>3 DEF Reading, Finished
      <4>2. OneReturns(c, a, s, w)
        BY <2>s, <3>2, <3>3, OneCall
      <4>3. /\ OutGiven(m, a[m.arg]) /\ x.ret = DirectOf(c, a, w).ret
            /\ Output(m.arg, x.out) ++ <<>> = DirectOf(c, a, w).outs
        BY <2>x, <3>3, <4>1, <4>2 DEF OneReturns, FirstWritten, OneResponse
      <4>4. Same(call, args, want, ret', res') /\ k' = 2
        <5> HIDE DEF x
        <5>1. ret' = x.ret /\ res' = Output(m.arg, x.out) ++ <<>>
          BY <2>o, <4>1, <4>3, Zenon
        <5>2. k' = 2
          BY <2>1, <3>3
        <5> QED
          BY <4>3, <5>1, <5>2 DEF Same
      <4>5. Reading(call, args, seen, want, k', ret', resp', res')
        BY <3>3, <4>4 DEF Reading
      <4> QED
        BY <2>1, <2>2, <3>1, <4>5 DEF OutInv
    <3>4. CASE k = 1 /\ ClientLen(call) = 2
      <4>1. /\ ret = "OK" /\ res = <<>> /\ resp = TwoResponse(c, a, s, w)
            /\ SecondWritten(c, a, s, w).ret = "OK"
        BY <3>1, <3>4 DEF Reading, Finished
      <4>2. TwoReturns(c, a, s, w)
        BY <2>s, <3>2, <3>4, TwoCall
      <4>3. OutGiven(m, a[m.arg]) /\ x = FirstRead(c, a, s, w) /\ x.ret = "OK"
        BY <2>x, <3>4, <4>1, <4>2 DEF TwoReturns, FirstRead
      <4> HIDE DEF x
      <4>4. resp' = Unread(c, a, s, w) /\ ret' = "OK" /\ res' = FirstResult(c, a, s, w) /\ k' = 2
        <5>1. /\ ret' = x.ret /\ res' = Output(m.arg, x.out) ++ <<>>
              /\ resp' = SubSeq(TwoResponse(c, a, s, w), Len(x.parts) + 1, Len(TwoResponse(c, a, s, w)))
          BY <2>o, <4>1, <4>3, Zenon
        <5>2. k' = 2
          BY <2>1, <3>4
        <5>3. m = ClientStubs[c].out[1]
          BY <3>4
        <5>4. resp' = Unread(c, a, s, w)
          BY <4>3, <5>1, Zenon DEF Unread
        <5>5. res' = FirstResult(c, a, s, w)
          BY <4>3, <5>1, <5>3, Zenon DEF FirstResult
        <5> QED
          BY <4>3, <5>1, <5>2, <5>4, <5>5
      <4>5. Reading(call, args, seen, want, k', ret', resp', res')
        BY <3>4, <4>1, <4>4 DEF Reading
      <4> QED
        BY <2>1, <2>2, <3>1, <4>5 DEF OutInv
    <3>5. CASE k = 2 /\ ClientLen(call) = 2
      <4>1. /\ ret = "OK" /\ res = FirstResult(c, a, s, w) /\ resp = Unread(c, a, s, w)
            /\ SecondWritten(c, a, s, w).ret = "OK"
        BY <3>1, <3>5 DEF Reading
      <4>2. TwoReturns(c, a, s, w)
        BY <2>s, <3>2, <3>5, TwoCall
      <4>3. /\ OutGiven(m, a[m.arg]) /\ x = SecondRead(c, a, s, w) /\ x.ret = DirectOf(c, a, w).ret
            /\ Output(m.arg, x.out) ++ FirstResult(c, a, s, w) = DirectOf(c, a, w).outs
        BY <2>x, <3>5, <4>1, <4>2 DEF TwoReturns, SecondRead
      <4>4. Same(call, args, want, ret', res') /\ k' = 3
        BY <2>1, <2>o, <3>5, <4>1, <4>3 DEF Same
      <4>5. Reading(call, args, seen, want, k', ret', resp', res')
        BY <3>5, <4>4 DEF Reading
      <4> QED
        BY <2>1, <2>2, <3>1, <4>5 DEF OutInv
    <3> QED
      BY <2>1, <2>2, <2>3, <3>3, <3>4, <3>5
  <2> QED
    BY <2>4, <2>5, <2>6
<1>7. CASE ClientDone
  <2>1. /\ pc = "client_out" /\ pc' = "returned" /\ UNCHANGED <<call, args, want, seen, reply, ret,
             res>>
        /\ k > ClientLen(call)
    BY <1>7 DEF ClientDone, ClientLen
  <2>2. /\ want \in Wants(call) /\ call \in DOMAIN gck_rpc_calls
        /\ k \in Nat /\ k >= 1 /\ k <= ClientLen(call) + 1
    BY <1>0, <2>1 DEF OutInv, SigInv
  <2>3. k = ClientLen(call) + 1
    BY <2>1, <2>2, OutFacts
  <2>4. reply # Nobody /\ Pointed(call, args) => Told(call, args, want, ret, res)
    BY <2>1, <2>3 DEF OutInv, Reading, Told
  <2> QED
    BY <2>1, <2>2, <2>4 DEF OutInv
<1>8. CASE Return
  BY <1>8 DEF Return, OutInv
<1>9. CASE UNCHANGED vars
  BY <1>9 DEF vars, OutInv
<1> QED
  BY <1>1, <1>2, <1>3, <1>4, <1>5, <1>6, <1>7, <1>8, <1>9 DEF Next

\* A call through client and daemon returns what the module would have returned
\* to the application directly, with the same outputs; CKR_SESSION_COUNT when the
\* session that C_OpenSession opened finds no room in the daemon's table; and
\* the code of the calls that stand for C_CloseAllSessions.  The hypotheses leave out
\* the two ways in which it is not so: buffers that have a pointer and no room,
\* and slot ids of C_WaitForSlotEvent and C_GetSessionInfo from 1024 on, which
\* the daemon reduces.
THEOREM CallsAreTransparent ==
  ASSUME ~ZeroBuffers, \A c \in Calls : SlotsFit(c)
  PROVE  Spec => []Transparent
<1>1. Init => SigInv /\ ArgInv /\ OutInv
  BY DEF Init, SigInv, Places, ArgInv, OutInv
<1>2. SigInv /\ ArgInv /\ OutInv /\ [Next]_vars => SigInv' /\ ArgInv' /\ OutInv'
  BY SigStep, ArgStep, OutStep
<1>3. OutInv => Transparent
  <2> SUFFICES ASSUME OutInv, pc = "returned", reply # Nobody, Pointed(call, args)
               PROVE  ret = Promised.ret /\ res = Promised.outs
    BY DEF Transparent, Pointed
  <2>1. Told(call, args, want, ret, res)
    BY DEF OutInv
  <2>2. CASE Refused(call, args, want)
    BY <2>1, <2>2, Apart, ReplyIs DEF Told
  <2>3. CASE ~Refused(call, args, want)
    BY <2>1, <2>3, Apart DEF Told, Same
  <2> QED
    BY <2>2, <2>3
<1> QED
  BY <1>1, <1>2, <1>3, PTL DEF Spec

=============================================================================
