----------------------------- MODULE MCMarshal -----------------------------
(* Marshal for TLC: every call, or the ones a run is about.                *)
EXTENDS Marshal

AllCalls       == DOMAIN gck_rpc_calls
AttributeCalls == {"C_GetAttributeValue", "C_CreateObject", "C_SetAttributeValue"}
SlotCalls      == {"C_GetSessionInfo", "C_WaitForSlotEvent"}
OpenCalls      == {"C_OpenSession", "C_GenerateKey"}
EncryptCalls   == {"C_Encrypt"}

=============================================================================
