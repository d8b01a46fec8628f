------------------------- MODULE CallPoolRefinement -------------------------
(***************************************************************************)
(* The client library keeps the promise of RemoteCall.  A thread is busy   *)
(* from the moment it enters a C_* function until it leaves it; the return *)
(* code is looked at then only, since ret holds intermediate codes before. *)
(*                                                                         *)
(* PKCS#11 asks of an application that C_Initialize and C_Finalize do not  *)
(* overlap with other calls, and that it initializes once.  The history    *)
(* variable unruly tells the applications that break these rules from the  *)
(* others: only the assertion on pkcs11_socket_path depends on them.       *)
(***************************************************************************)
EXTENDS CallPool

VARIABLE unruly   \* has the application broken the rules (history)

Alone(t) == \A u \in Threads : u # t => pc[u] = "idle"

\* A thread is in C_Initialize or C_Finalize and is not alone, or initializes
\* the library a second time.
Breach ==
  \E t \in Threads :
    /\ pc[t] # "idle" /\ op[t] # "Call"
    /\ ~Alone(t) \/ (op[t] = "C_Initialize" /\ initialized)

HistInit == Init /\ unruly = FALSE
HistNext == Next /\ unruly' = (unruly \/ Breach')

HistSafety == HistInit /\ [][HistNext]_<<vars, unruly>>

\* A thread inside a C_* function keeps running, and a dispatch thread that is
\* sent a request answers it or goes away.
HistSpec ==
  /\ HistSafety
  /\ \A t \in Threads : WF_vars(Progress(t))
  /\ \A c \in CallStates : WF_vars(Serve(c))

-----------------------------------------------------------------------------

\* The calls that were executed, each at most once: a second execution maps
\* to a value that no call number has, which RemoteCall does not allow.
ExecutedCalls ==
  {executed[i] : i \in DOMAIN executed}
    \cup {-1 : i \in {j \in DOMAIN executed :
                        \E k \in DOMAIN executed : k < j /\ executed[k] = executed[j]}}

Remote == INSTANCE RemoteCall WITH
  gone     <- aborted,
  issued   <- ncalls,
  busy     <- [t \in Threads |-> pc[t] # "idle" /\ ~aborted],
  final    <- [t \in Threads |-> op[t] = "C_Finalize"],
  ok       <- [t \in Threads |-> pc[t] = "idle" => ret[t] = "OK"],
  executed <- ExecutedCalls

\* The library implements RemoteCall: whatever threads, daemons and
\* connections do, a call is executed at most once, a C_* function that
\* returns CKR_OK had its call executed before, and every C_* function
\* returns unless the process is gone.
KeepsPromise == Remote!Spec

\* In an application that initializes once, and whose C_Initialize and
\* C_Finalize are alone when they run, assert(pkcs11_socket_path[0]) of
\* call_connect never fails, although pkcs11_initialized and the path are
\* read without init_mutex.
OrderlyNeverAborts == aborted => unruly

=============================================================================
