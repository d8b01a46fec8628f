----------------------------- MODULE RemoteCall -----------------------------
(***************************************************************************)
(* What an application may expect of a PKCS#11 function that is executed   *)
(* elsewhere, whatever happens to connections, daemons and memory: a call  *)
(* is executed at most once; a call that succeeds was executed before it   *)
(* returns; a call that fails may have been executed or not, and may even  *)
(* be executed after it has returned; and every call returns, unless the   *)
(* process is gone.  C_Finalize promises nothing about its execution.      *)
(*                                                                         *)
(* This is the promise of the client library (gck-rpc-module.c) to its     *)
(* callers; CallPoolRefinement shows that the library keeps it.            *)
(***************************************************************************)
EXTENDS Naturals

CONSTANTS
  Threads,      \* application threads
  MaxCalls      \* bound: calls the application makes

VARIABLES
  gone,         \* has the process been aborted?
  issued,       \* calls begun so far: they are numbered 1, 2, ...
  busy,         \* is the thread inside a function?
  final,        \* is it C_Finalize, or was it the last time?
  call,         \* the number of its call
  ok,           \* did its last function return CKR_OK?
  executed      \* calls the token has executed

vars == <<gone, issued, busy, final, call, ok, executed>>

Init ==
  /\ gone = FALSE /\ issued = 0
  /\ busy = [t \in Threads |-> FALSE]
  /\ final = [t \in Threads |-> FALSE]
  /\ call = [t \in Threads |-> 0]
  /\ ok = [t \in Threads |-> TRUE]
  /\ executed = {}

Begin(t, f) ==
  /\ ~gone /\ ~busy[t] /\ issued < MaxCalls
  /\ issued' = issued + 1
  /\ busy' = [busy EXCEPT ![t] = TRUE]
  /\ final' = [final EXCEPT ![t] = f]
  /\ call' = [call EXCEPT ![t] = issued + 1]
  /\ ok' = [ok EXCEPT ![t] = TRUE]
  /\ UNCHANGED <<gone, executed>>

\* A call the library refuses is not even numbered.
Refuse(t) ==
  /\ ~gone /\ ~busy[t]
  /\ ok' = [ok EXCEPT ![t] = FALSE]
  /\ UNCHANGED <<gone, issued, busy, final, call, executed>>

Execute(n) ==
  /\ n \in (1 .. issued) \ executed
  /\ executed' = executed \cup {n}
  /\ UNCHANGED <<gone, issued, busy, final, call, ok>>

Return(t, r) ==
  /\ ~gone /\ busy[t]
  /\ r => final[t] \/ call[t] \in executed
  /\ busy' = [busy EXCEPT ![t] = FALSE]
  /\ ok' = [ok EXCEPT ![t] = r]
  /\ UNCHANGED <<gone, issued, final, call, executed>>

Abort ==
  /\ ~gone
  /\ gone' = TRUE
  /\ busy' = [t \in Threads |-> FALSE]
  /\ UNCHANGED <<issued, final, call, ok, executed>>

Next ==
  \/ \E t \in Threads :
       \/ \E f \in BOOLEAN : Begin(t, f)
       \/ Refuse(t)
       \/ \E r \in BOOLEAN : Return(t, r)
  \/ \E n \in 1 .. MaxCalls : Execute(n)
  \/ Abort

Safety == Init /\ [][Next]_vars

Spec ==
  /\ Safety
  /\ \A t \in Threads : WF_vars(\E r \in BOOLEAN : Return(t, r))

=============================================================================
