------------------------------ MODULE RpcCalls ------------------------------
(***************************************************************************)
(* The remote calls: the signatures both sides share (gck_rpc_calls), and  *)
(* what the stub of each call does on the client (gck-rpc-module.c) and on *)
(* the daemon (gck-rpc-dispatch.c).                                        *)
(*                                                                         *)
(* A stub is the sequence of IN_ macros before PROCESS_CALL and of OUT_    *)
(* macros after it.  The argument of a macro is the number of a parameter  *)
(* of the PKCS#11 function, a pointer and its length being one parameter;  *)
(* on the daemon it is the parameter of the module's function that the     *)
(* value is passed to.  Parameters the protocol does not carry (pReserved, *)
(* the notification callback) have no number.  C_Initialize and C_Finalize *)
(* have no stub of this kind: see CallPool and Sessions.                   *)
(*                                                                         *)
(* Two stubs of the daemon have code of their own between the macros, in   *)
(* Marshal: rpc_C_OpenSession looks for an entry in its table of           *)
(* sessions (TableFull), and rpc_C_CloseAllSessions has no PROCESS_CALL    *)
(* but calls C_GetSlotInfo and C_CloseSession (CloseAllSessions).          *)
(***************************************************************************)
EXTENDS Integers, Sequences

\* One table out of two.
f ++ g == [c \in DOMAIN f \cup DOMAIN g |-> IF c \in DOMAIN f THEN f[c] ELSE g[c]]

IN_BYTE(n)           == [macro |-> "BYTE", arg |-> n]
IN_ULONG(n)          == [macro |-> "ULONG", arg |-> n]
IN_SPACE_STRING(n)   == [macro |-> "SPACE_STRING", arg |-> n]
IN_BYTE_BUFFER(n)    == [macro |-> "BYTE_BUFFER", arg |-> n]
IN_BYTE_ARRAY(n)     == [macro |-> "BYTE_ARRAY", arg |-> n]
IN_ULONG_BUFFER(n)   == [macro |-> "ULONG_BUFFER", arg |-> n]
IN_ATTRIBUTE_BUFFER(n) == [macro |-> "ATTRIBUTE_BUFFER", arg |-> n]
IN_ATTRIBUTE_ARRAY(n)  == [macro |-> "ATTRIBUTE_ARRAY", arg |-> n]
IN_MECHANISM_TYPE(n) == [macro |-> "MECHANISM_TYPE", arg |-> n]
IN_MECHANISM(n)      == [macro |-> "MECHANISM", arg |-> n]

OUT_ULONG(n)           == [macro |-> "ULONG", arg |-> n]
OUT_BYTE_ARRAY(n)      == [macro |-> "BYTE_ARRAY", arg |-> n]
OUT_ULONG_ARRAY(n)     == [macro |-> "ULONG_ARRAY", arg |-> n]
OUT_ATTRIBUTE_ARRAY(n) == [macro |-> "ATTRIBUTE_ARRAY", arg |-> n]
OUT_MECHANISM_TYPE_ARRAY(n) == [macro |-> "MECHANISM_TYPE_ARRAY", arg |-> n]
OUT_INFO(n)            == [macro |-> "INFO", arg |-> n]
OUT_SLOT_INFO(n)       == [macro |-> "SLOT_INFO", arg |-> n]
OUT_TOKEN_INFO(n)      == [macro |-> "TOKEN_INFO", arg |-> n]
OUT_MECHANISM_INFO(n)  == [macro |-> "MECHANISM_INFO", arg |-> n]
OUT_SESSION_INFO(n)    == [macro |-> "SESSION_INFO", arg |-> n]

\* need: what return_val_if_fail asks of the arguments before the call starts.
CheckedStub(need, in, out) == [need |-> need, in |-> in, out |-> out]
Stub(in, out) == CheckedStub({}, in, out)

\* Stubs many calls share.
Plain     == Stub(<<IN_ULONG(1)>>, <<>>)
Handles   == Stub(<<IN_ULONG(1), IN_ULONG(2)>>, <<>>)
Update    == Stub(<<IN_ULONG(1), IN_BYTE_ARRAY(2)>>, <<>>)
Transform == Stub(<<IN_ULONG(1), IN_BYTE_ARRAY(2), IN_BYTE_BUFFER(3)>>, <<OUT_BYTE_ARRAY(3)>>)
Final     == Stub(<<IN_ULONG(1), IN_BYTE_BUFFER(2)>>, <<OUT_BYTE_ARRAY(2)>>)
Start     == Stub(<<IN_ULONG(1), IN_MECHANISM(2), IN_ULONG(3)>>, <<>>)

-----------------------------------------------------------------------------
(* The signatures, as the sequences of their parts.                        *)

Sig(request, response) == [request |-> request, response |-> response]

PlainSig     == Sig(<<"u">>, <<>>)
HandlesSig   == Sig(<<"u", "u">>, <<>>)
UpdateSig    == Sig(<<"u", "ay">>, <<>>)
TransformSig == Sig(<<"u", "ay", "fy">>, <<"ay">>)
FinalSig     == Sig(<<"u", "fy">>, <<"ay">>)
StartSig     == Sig(<<"u", "M", "u">>, <<>>)

gck_rpc_calls ==
  [C_GetInfo           |-> Sig(<<>>, <<"v", "s", "u", "s", "v">>),
   C_GetSlotList       |-> Sig(<<"y", "fu">>, <<"au">>),
   C_GetSlotInfo       |-> Sig(<<"u">>, <<"s", "s", "u", "v", "v">>),
   C_GetTokenInfo      |-> Sig(<<"u">>, <<"s", "s", "s", "s", "u", "u", "u", "u", "u", "u",
                                          "u", "u", "u", "u", "u", "v", "v", "s">>),
   C_GetMechanismList  |-> Sig(<<"u", "fu">>, <<"au">>),
   C_GetMechanismInfo  |-> Sig(<<"u", "u">>, <<"u", "u", "u">>),
   C_InitToken         |-> Sig(<<"u", "ay", "s">>, <<>>),
   C_WaitForSlotEvent  |-> Sig(<<"u">>, <<"u">>),
   C_OpenSession       |-> Sig(<<"u", "u">>, <<"u">>),
   C_CloseSession      |-> PlainSig,
   C_CloseAllSessions  |-> PlainSig,
   C_GetFunctionStatus |-> PlainSig,
   C_CancelFunction    |-> PlainSig,
   C_GetSessionInfo    |-> Sig(<<"u">>, <<"u", "u", "u", "u">>),
   C_InitPIN           |-> UpdateSig,
   C_SetPIN            |-> Sig(<<"u", "ay", "ay">>, <<>>),
   C_GetOperationState |-> FinalSig,
   C_SetOperationState |-> Sig(<<"u", "ay", "u", "u">>, <<>>),
   C_Login             |-> Sig(<<"u", "u", "ay">>, <<>>),
   C_Logout            |-> PlainSig,
   C_CreateObject      |-> Sig(<<"u", "aA">>, <<"u">>),
   C_CopyObject        |-> Sig(<<"u", "u", "aA">>, <<"u">>),
   C_DestroyObject     |-> HandlesSig,
   C_GetObjectSize     |-> Sig(<<"u", "u">>, <<"u">>),
   C_GetAttributeValue |-> Sig(<<"u", "u", "fA">>, <<"aA", "u">>),
   C_SetAttributeValue |-> Sig(<<"u", "u", "aA">>, <<>>),
   C_FindObjectsInit   |-> Sig(<<"u", "aA">>, <<>>),
   C_FindObjects       |-> Sig(<<"u", "fu">>, <<"au">>),
   C_FindObjectsFinal  |-> PlainSig,
   C_EncryptInit       |-> StartSig,
   C_Encrypt           |-> TransformSig,
   C_EncryptUpdate     |-> TransformSig,
   C_EncryptFinal      |-> FinalSig,
   C_DecryptInit       |-> StartSig,
   C_Decrypt           |-> TransformSig,
   C_DecryptUpdate     |-> TransformSig,
   C_DecryptFinal      |-> FinalSig,
   C_DigestInit        |-> Sig(<<"u", "M">>, <<>>),
   C_Digest            |-> TransformSig,
   C_DigestUpdate      |-> UpdateSig,
   C_DigestKey         |-> HandlesSig,
   C_DigestFinal       |-> FinalSig,
   C_SignInit          |-> StartSig,
   C_Sign              |-> TransformSig,
   C_SignUpdate        |-> UpdateSig,
   C_SignFinal         |-> FinalSig,
   C_SignRecoverInit   |-> StartSig,
   C_SignRecover       |-> TransformSig,
   C_VerifyInit        |-> StartSig,
   C_Verify            |-> Sig(<<"u", "ay", "ay">>, <<>>),
   C_VerifyUpdate      |-> UpdateSig,
   C_VerifyFinal       |-> UpdateSig,
   C_VerifyRecoverInit |-> StartSig,
   C_VerifyRecover     |-> TransformSig,
   C_DigestEncryptUpdate |-> TransformSig,
   C_DecryptDigestUpdate |-> TransformSig,
   C_SignEncryptUpdate   |-> TransformSig,
   C_DecryptVerifyUpdate |-> TransformSig,
   C_GenerateKey       |-> Sig(<<"u", "M", "aA">>, <<"u">>),
   C_GenerateKeyPair   |-> Sig(<<"u", "M", "aA", "aA">>, <<"u", "u">>),
   C_WrapKey           |-> Sig(<<"u", "M", "u", "u", "fy">>, <<"ay">>),
   C_UnwrapKey         |-> Sig(<<"u", "M", "u", "ay", "aA">>, <<"u">>),
   C_DeriveKey         |-> Sig(<<"u", "M", "u", "aA">>, <<"u">>),
   C_SeedRandom        |-> UpdateSig,
   C_GenerateRandom    |-> FinalSig]

-----------------------------------------------------------------------------
(* The client's stubs.                                                     *)

ClientSlotCalls ==
  [C_GetInfo      |-> CheckedStub({<<"ptr", 1>>}, <<>>, <<OUT_INFO(1)>>),
   C_GetSlotList  |-> CheckedStub({<<"count", 2>>},
                        <<IN_BYTE(1), IN_ULONG_BUFFER(2)>>, <<OUT_ULONG_ARRAY(2)>>),
   C_GetSlotInfo  |-> CheckedStub({<<"ptr", 2>>}, <<IN_ULONG(1)>>, <<OUT_SLOT_INFO(2)>>),
   C_GetTokenInfo |-> CheckedStub({<<"ptr", 2>>}, <<IN_ULONG(1)>>, <<OUT_TOKEN_INFO(2)>>),
   C_GetMechanismList |-> CheckedStub({<<"count", 2>>},
                        <<IN_ULONG(1), IN_ULONG_BUFFER(2)>>, <<OUT_MECHANISM_TYPE_ARRAY(2)>>),
   C_GetMechanismInfo |-> CheckedStub({<<"ptr", 3>>},
                        <<IN_ULONG(1), IN_MECHANISM_TYPE(2)>>, <<OUT_MECHANISM_INFO(3)>>),
   C_InitToken    |-> Stub(<<IN_ULONG(1), IN_BYTE_ARRAY(2), IN_SPACE_STRING(3)>>, <<>>),
   C_WaitForSlotEvent |-> CheckedStub({<<"ptr", 2>>}, <<IN_ULONG(1)>>, <<OUT_ULONG(2)>>),
   C_OpenSession  |-> Stub(<<IN_ULONG(1), IN_ULONG(2)>>, <<OUT_ULONG(3)>>)]

ClientSessionCalls ==
  [C_CloseSession      |-> Plain,
   C_CloseAllSessions  |-> Plain,
   C_GetFunctionStatus |-> Plain,
   C_CancelFunction    |-> Plain,
   C_GetSessionInfo |-> CheckedStub({<<"ptr", 2>>}, <<IN_ULONG(1)>>, <<OUT_SESSION_INFO(2)>>),
   C_InitPIN |-> Update,
   C_SetPIN  |-> Stub(<<IN_ULONG(1), IN_BYTE_ARRAY(2), IN_BYTE_ARRAY(3)>>, <<>>),
   C_GetOperationState |-> Final,
   C_SetOperationState |-> Stub(<<IN_ULONG(1), IN_BYTE_ARRAY(2), IN_ULONG(3), IN_ULONG(4)>>, <<>>),
   C_Login   |-> Stub(<<IN_ULONG(1), IN_ULONG(2), IN_BYTE_ARRAY(3)>>, <<>>),
   C_Logout  |-> Plain]

ClientObjectCalls ==
  [C_CreateObject |-> CheckedStub({<<"handle", 1>>, <<"ptr", 2>>, <<"ptr", 3>>},
                        <<IN_ULONG(1), IN_ATTRIBUTE_ARRAY(2)>>, <<OUT_ULONG(3)>>),
   C_CopyObject |-> CheckedStub({<<"ptr", 4>>},
                        <<IN_ULONG(1), IN_ULONG(2), IN_ATTRIBUTE_ARRAY(3)>>, <<OUT_ULONG(4)>>),
   C_DestroyObject |-> Handles,
   C_GetObjectSize |-> CheckedStub({<<"ptr", 3>>},
                        <<IN_ULONG(1), IN_ULONG(2)>>, <<OUT_ULONG(3)>>),
   C_GetAttributeValue |-> CheckedStub({<<"ptr", 3>>},
                        <<IN_ULONG(1), IN_ULONG(2), IN_ATTRIBUTE_BUFFER(3)>>,
                        <<OUT_ATTRIBUTE_ARRAY(3)>>),
   C_SetAttributeValue |-> Stub(<<IN_ULONG(1), IN_ULONG(2), IN_ATTRIBUTE_ARRAY(3)>>, <<>>),
   C_FindObjectsInit |-> Stub(<<IN_ULONG(1), IN_ATTRIBUTE_ARRAY(2)>>, <<>>),
   C_FindObjects |-> CheckedStub({<<"count", 2>>},
                        <<IN_ULONG(1), IN_ULONG_BUFFER(2)>>, <<OUT_ULONG_ARRAY(2)>>),
   C_FindObjectsFinal |-> Plain]

ClientCipherCalls ==
  [C_EncryptInit   |-> Start,     C_Encrypt       |-> Transform,
   C_EncryptUpdate |-> Transform, C_EncryptFinal  |-> Final,
   C_DecryptInit   |-> Start,     C_Decrypt       |-> Transform,
   C_DecryptUpdate |-> Transform, C_DecryptFinal  |-> Final,
   C_DigestInit    |-> Stub(<<IN_ULONG(1), IN_MECHANISM(2)>>, <<>>)]

ClientSignCalls ==
  [C_Digest     |-> Transform, C_DigestUpdate |-> Update,
   C_DigestKey  |-> Handles,   C_DigestFinal  |-> Final,
   C_SignInit   |-> Start,     C_Sign         |-> Transform,
   C_SignUpdate |-> CheckedStub({<<"len", 2>>}, Update.in, Update.out),
   C_SignFinal  |-> Final,
   C_SignRecoverInit |-> Start, C_SignRecover |-> Transform]

ClientVerifyCalls ==
  [C_VerifyInit   |-> Start,
   C_Verify       |-> Stub(<<IN_ULONG(1), IN_BYTE_ARRAY(2), IN_BYTE_ARRAY(3)>>, <<>>),
   C_VerifyUpdate |-> Update, C_VerifyFinal |-> Update,
   C_VerifyRecoverInit   |-> Start,     C_VerifyRecover       |-> Transform,
   C_DigestEncryptUpdate |-> Transform, C_DecryptDigestUpdate |-> Transform,
   C_SignEncryptUpdate   |-> Transform, C_DecryptVerifyUpdate |-> Transform]

ClientKeyCalls ==
  [C_GenerateKey |-> Stub(<<IN_ULONG(1), IN_MECHANISM(2), IN_ATTRIBUTE_ARRAY(3)>>,
                          <<OUT_ULONG(4)>>),
   C_GenerateKeyPair |->
     CheckedStub({<<"handle", 1>>} \cup {<<"ptr", n>> : n \in 2 .. 6},
                 <<IN_ULONG(1), IN_MECHANISM(2), IN_ATTRIBUTE_ARRAY(3), IN_ATTRIBUTE_ARRAY(4)>>,
                 <<OUT_ULONG(5), OUT_ULONG(6)>>),
   C_WrapKey     |-> Stub(<<IN_ULONG(1), IN_MECHANISM(2), IN_ULONG(3), IN_ULONG(4),
                            IN_BYTE_BUFFER(5)>>, <<OUT_BYTE_ARRAY(5)>>),
   C_UnwrapKey   |-> Stub(<<IN_ULONG(1), IN_MECHANISM(2), IN_ULONG(3), IN_BYTE_ARRAY(4),
                            IN_ATTRIBUTE_ARRAY(5)>>, <<OUT_ULONG(6)>>),
   C_DeriveKey   |-> Stub(<<IN_ULONG(1), IN_MECHANISM(2), IN_ULONG(3), IN_ATTRIBUTE_ARRAY(4)>>,
                          <<OUT_ULONG(5)>>),
   C_SeedRandom  |-> Update,
   C_GenerateRandom |-> CheckedStub({<<"ptr", 2>>}, Final.in, Final.out)]

ClientStubs ==
  ClientSlotCalls ++ ClientSessionCalls ++ ClientObjectCalls ++ ClientCipherCalls
    ++ ClientSignCalls ++ ClientVerifyCalls ++ ClientKeyCalls

-----------------------------------------------------------------------------
(* The daemon's stubs.                                                     *)

\* C_OpenSession: its OUT_ULONG is skipped by Marshal when the table is full.
DaemonSlotCalls ==
  [C_GetInfo      |-> Stub(<<>>, <<OUT_INFO(1)>>),
   C_GetSlotList  |-> Stub(<<IN_BYTE(1), IN_ULONG_BUFFER(2)>>, <<OUT_ULONG_ARRAY(2)>>),
   C_GetSlotInfo  |-> Stub(<<IN_ULONG(1)>>, <<OUT_SLOT_INFO(2)>>),
   C_GetTokenInfo |-> Stub(<<IN_ULONG(1)>>, <<OUT_TOKEN_INFO(2)>>),
   C_GetMechanismList |-> Stub(<<IN_ULONG(1), IN_ULONG_BUFFER(2)>>, <<OUT_ULONG_ARRAY(2)>>),
   C_GetMechanismInfo |-> Stub(<<IN_ULONG(1), IN_ULONG(2)>>, <<OUT_MECHANISM_INFO(3)>>),
   C_InitToken    |-> Stub(<<IN_ULONG(1), IN_BYTE_ARRAY(2), IN_SPACE_STRING(3)>>, <<>>),
   C_WaitForSlotEvent |-> Stub(<<IN_ULONG(1)>>, <<OUT_ULONG(2)>>),
   C_OpenSession  |-> Stub(<<IN_ULONG(1), IN_ULONG(2)>>, <<OUT_ULONG(3)>>)]

\* C_CloseAllSessions: the macros around what Marshal's CloseAllSessions does.
DaemonSessionCalls ==
  [C_CloseSession      |-> Plain,
   C_CloseAllSessions  |-> Plain,
   C_GetFunctionStatus |-> Plain,
   C_CancelFunction    |-> Plain,
   C_GetSessionInfo    |-> Stub(<<IN_ULONG(1)>>, <<OUT_SESSION_INFO(2)>>),
   C_InitPIN |-> Update,
   C_SetPIN  |-> Stub(<<IN_ULONG(1), IN_BYTE_ARRAY(2), IN_BYTE_ARRAY(3)>>, <<>>),
   C_GetOperationState |-> Final]

DaemonObjectCalls ==
  [C_SetOperationState |-> Stub(<<IN_ULONG(1), IN_BYTE_ARRAY(2), IN_ULONG(3), IN_ULONG(4)>>, <<>>),
   C_Login  |-> Stub(<<IN_ULONG(1), IN_ULONG(2), IN_BYTE_ARRAY(3)>>, <<>>),
   C_Logout |-> Plain,
   C_CreateObject |-> Stub(<<IN_ULONG(1), IN_ATTRIBUTE_ARRAY(2)>>, <<OUT_ULONG(3)>>),
   C_CopyObject |-> Stub(<<IN_ULONG(1), IN_ULONG(2), IN_ATTRIBUTE_ARRAY(3)>>, <<OUT_ULONG(4)>>),
   C_DestroyObject |-> Handles,
   C_GetObjectSize |-> Stub(<<IN_ULONG(1), IN_ULONG(2)>>, <<OUT_ULONG(3)>>),
   C_GetAttributeValue |-> Stub(<<IN_ULONG(1), IN_ULONG(2), IN_ATTRIBUTE_BUFFER(3)>>,
                                <<OUT_ATTRIBUTE_ARRAY(3)>>),
   C_SetAttributeValue |-> Stub(<<IN_ULONG(1), IN_ULONG(2), IN_ATTRIBUTE_ARRAY(3)>>, <<>>)]

DaemonCipherCalls ==
  [C_FindObjectsInit  |-> Stub(<<IN_ULONG(1), IN_ATTRIBUTE_ARRAY(2)>>, <<>>),
   C_FindObjects      |-> Stub(<<IN_ULONG(1), IN_ULONG_BUFFER(2)>>, <<OUT_ULONG_ARRAY(2)>>),
   C_FindObjectsFinal |-> Plain,
   C_EncryptInit      |-> Start,     C_Encrypt      |-> Transform,
   C_EncryptUpdate    |-> Transform, C_EncryptFinal |-> Final,
   C_DecryptInit      |-> Start,     C_Decrypt      |-> Transform,
   C_DecryptUpdate    |-> Transform]

DaemonDigestCalls ==
  [C_DecryptFinal |-> Final,
   C_DigestInit   |-> Stub(<<IN_ULONG(1), IN_MECHANISM(2)>>, <<>>),
   C_Digest       |-> Transform, C_DigestUpdate |-> Update,
   C_DigestKey    |-> Handles,   C_DigestFinal  |-> Final,
   C_SignInit     |-> Start,     C_Sign         |-> Transform,
   C_SignUpdate   |-> Update,    C_SignFinal    |-> Final]

DaemonVerifyCalls ==
  [C_SignRecoverInit   |-> Start, C_SignRecover |-> Transform,
   C_VerifyInit        |-> Start,
   C_Verify            |-> Stub(<<IN_ULONG(1), IN_BYTE_ARRAY(2), IN_BYTE_ARRAY(3)>>, <<>>),
   C_VerifyUpdate      |-> Update, C_VerifyFinal   |-> Update,
   C_VerifyRecoverInit |-> Start,  C_VerifyRecover |-> Transform]

DaemonDualCalls ==
  [C_DigestEncryptUpdate |-> Transform, C_DecryptDigestUpdate |-> Transform,
   C_SignEncryptUpdate   |-> Transform, C_DecryptVerifyUpdate |-> Transform,
   C_GenerateKey |-> Stub(<<IN_ULONG(1), IN_MECHANISM(2), IN_ATTRIBUTE_ARRAY(3)>>,
                          <<OUT_ULONG(4)>>),
   C_GenerateKeyPair |->
     Stub(<<IN_ULONG(1), IN_MECHANISM(2), IN_ATTRIBUTE_ARRAY(3), IN_ATTRIBUTE_ARRAY(4)>>,
          <<OUT_ULONG(5), OUT_ULONG(6)>>)]

DaemonKeyCalls ==
  [C_WrapKey    |-> Stub(<<IN_ULONG(1), IN_MECHANISM(2), IN_ULONG(3), IN_ULONG(4),
                           IN_BYTE_BUFFER(5)>>, <<OUT_BYTE_ARRAY(5)>>),
   C_UnwrapKey  |-> Stub(<<IN_ULONG(1), IN_MECHANISM(2), IN_ULONG(3), IN_BYTE_ARRAY(4),
                           IN_ATTRIBUTE_ARRAY(5)>>, <<OUT_ULONG(6)>>),
   C_DeriveKey  |-> Stub(<<IN_ULONG(1), IN_MECHANISM(2), IN_ULONG(3), IN_ATTRIBUTE_ARRAY(4)>>,
                         <<OUT_ULONG(5)>>),
   C_SeedRandom |-> Update,
   C_GenerateRandom |-> CheckedStub({<<"count", 2>>}, Final.in, Final.out)]

\* The switch of dispatch_call.
DaemonStubs ==
  DaemonSlotCalls ++ DaemonSessionCalls ++ DaemonObjectCalls ++ DaemonCipherCalls
    ++ DaemonDigestCalls ++ DaemonVerifyCalls ++ DaemonDualCalls ++ DaemonKeyCalls

-----------------------------------------------------------------------------
(* The information structures, field by field, in the order in which the   *)
(* daemon writes them and the client reads them.                           *)

V(name)      == [part |-> "v", name |-> name, length |-> 2]
U(name)      == [part |-> "u", name |-> name, length |-> 8]
S(name, len) == [part |-> "s", name |-> name, length |-> len]

proto_write_info ==
  <<V("cryptokiVersion"), S("manufacturerID", 32), U("flags"),
    S("libraryDescription", 32), V("libraryVersion")>>
proto_write_slot_info ==
  <<S("slotDescription", 64), S("manufacturerID", 32), U("flags"),
    V("hardwareVersion"), V("firmwareVersion")>>
proto_write_token_info ==
  <<S("label", 32), S("manufacturerID", 32), S("model", 16), S("serialNumber", 16),
    U("flags"), U("ulMaxSessionCount"), U("ulSessionCount"),
    U("ulMaxRwSessionCount"), U("ulRwSessionCount"), U("ulMaxPinLen"), U("ulMinPinLen"),
    U("ulTotalPublicMemory"), U("ulFreePublicMemory"),
    U("ulTotalPrivateMemory"), U("ulFreePrivateMemory"),
    V("hardwareVersion"), V("firmwareVersion"), S("utcTime", 16)>>
MechanismInfoShort == <<U("ulMinKeySize"), U("ulMaxKeySize")>>   \* mutant: a field is missing
proto_write_mechanism_info == <<U("ulMinKeySize"), U("ulMaxKeySize"), U("flags")>>
proto_write_session_info   == <<U("slotID"), U("state"), U("flags"), U("ulDeviceError")>>

proto_read_info ==
  <<V("cryptokiVersion"), S("manufacturerID", 32), U("flags"),
    S("libraryDescription", 32), V("libraryVersion")>>
proto_read_slot_info ==
  <<S("slotDescription", 64), S("manufacturerID", 32), U("flags"),
    V("hardwareVersion"), V("firmwareVersion")>>
proto_read_token_info ==
  <<S("label", 32), S("manufacturerID", 32), S("model", 16), S("serialNumber", 16),
    U("flags"), U("ulMaxSessionCount"), U("ulSessionCount"),
    U("ulMaxRwSessionCount"), U("ulRwSessionCount"), U("ulMaxPinLen"), U("ulMinPinLen"),
    U("ulTotalPublicMemory"), U("ulFreePublicMemory"),
    U("ulTotalPrivateMemory"), U("ulFreePrivateMemory"),
    V("hardwareVersion"), V("firmwareVersion"), S("utcTime", 16)>>
proto_read_mechanism_info == <<U("ulMinKeySize"), U("ulMaxKeySize"), U("flags")>>
proto_read_sesssion_info  == <<U("slotID"), U("state"), U("flags"), U("ulDeviceError")>>

DaemonFields ==
  [INFO |-> proto_write_info, SLOT_INFO |-> proto_write_slot_info,
   TOKEN_INFO |-> proto_write_token_info, MECHANISM_INFO |-> proto_write_mechanism_info,
   SESSION_INFO |-> proto_write_session_info]
ClientFields ==
  [INFO |-> proto_read_info, SLOT_INFO |-> proto_read_slot_info,
   TOKEN_INFO |-> proto_read_token_info, MECHANISM_INFO |-> proto_read_mechanism_info,
   SESSION_INFO |-> proto_read_sesssion_info]
InfoMacros == DOMAIN DaemonFields

=============================================================================
