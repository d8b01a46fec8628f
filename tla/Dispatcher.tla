----------------------------- MODULE Dispatcher -----------------------------
(***************************************************************************)
(* The threads of the daemon: the main thread, which accepts connections   *)
(* and shuts the daemon down (gck-rpc-daemon-standalone.c,                 *)
(* gck_rpc_layer_accept, gck_rpc_layer_uninitialize), and one dispatch     *)
(* thread per connection (run_dispatch_thread, run_dispatch_loop), all of  *)
(* them sharing the list pkcs11_dispatchers and its mutex.                 *)
(*                                                                         *)
(* Calls are told apart only as far as the threads act on each other:      *)
(* C_WaitForSlotEvent, which may block in the PKCS#11 module, C_Finalize,  *)
(* which shuts down the connections that wait, and any other.  Sessions    *)
(* are the subject of module Sessions.                                     *)
(***************************************************************************)
EXTENDS Integers, Sequences

CONSTANTS
  Threads,      \* dispatch threads, one per connection, over the daemon's life
  Main,         \* the main thread
  NoThread,     \* pkcs11_dispatchers_mutex is free
  Apps,         \* applications
  NoApp,        \* cs->appid before it is read
  OneConn,      \* does an application have one connection at a time?
  WaitEvents,   \* do clients call C_WaitForSlotEvent?
  Failures,     \* may accept(), an allocation or a thread's start fail?
  Sigterms      \* may SIGTERM come?

ASSUME DispatcherAssumption ==
  /\ Main \notin Threads /\ NoThread \notin Threads \cup {Main}
  /\ NoApp \notin Apps
  /\ {OneConn, WaitEvents, Failures, Sigterms} \subseteq BOOLEAN

VARIABLES
  mpc,       \* where the main thread is
  cur,       \* its position in the list
  made,      \* the thread it has created and not put on the list yet
  running,   \* is_running
  sigterm,   \* has SIGTERM come (history)
  mutex,     \* holder of pkcs11_dispatchers_mutex
  list,      \* pkcs11_dispatchers
  freed,     \* DispatchStates that were freed
  aborted,   \* an assert() failed: the process is gone
  stale,     \* has a freed request been read (history)
  tpc,       \* where each dispatch thread is
  sock,      \* is cs->sock a descriptor (not -1)?
  shut,      \* was the connection shut down by shutdown()?
  client,    \* is the client's end of the connection open?
  appid,     \* cs->appid
  req,       \* cs->req: "null", "live", or "freed" (and not null)
  callId     \* cs->req->call_id

mainVars == <<mpc, cur, made, running, sigterm>>
history  == <<aborted, stale>>
conVars  == <<sock, shut, client, appid, req, callId>>
vars     == <<mainVars, mutex, list, freed, history, tpc, conVars>>

MainLocations ==
  {"starting", "loop", "select", "lock", "cleanup", "accept", "push",
   "uninit_lock", "uninit", "uninit_join", "done"}
Locations ==
  {"none", "start", "read", "recv", "exec", "write", "uninit", "end", "exited"}
Calls == {"none", "other", "wait", "finalize"}

Init ==
  /\ mpc = "starting" /\ cur = 1 /\ made = NoThread /\ running = FALSE /\ sigterm = FALSE
  /\ mutex = NoThread /\ list = <<>> /\ freed = {}
  /\ aborted = FALSE /\ stale = FALSE
  /\ tpc = [d \in Threads |-> "none"]
  /\ sock = [d \in Threads |-> FALSE]
  /\ shut = [d \in Threads |-> FALSE]
  /\ client = [d \in Threads |-> FALSE]
  /\ appid = [d \in Threads |-> NoApp]
  /\ req = [d \in Threads |-> "null"]
  /\ callId = [d \in Threads |-> "none"]

-----------------------------------------------------------------------------
(* The main thread.                                                        *)

MainAt(l)   == mpc = l /\ ~aborted
MainGoto(l) == mpc' = l
Unused      == {d \in Threads : tpc[d] = "none"}

\* termination_handler; a select() it interrupts fails with EINTR.
Sigterm ==
  /\ Sigterms /\ ~sigterm /\ ~aborted /\ mpc # "done"
  /\ sigterm' = TRUE
  /\ running' = FALSE
  /\ mpc' = IF mpc = "select" THEN "loop" ELSE mpc
  /\ UNCHANGED <<cur, made, mutex, list, freed, history, tpc, conVars>>

\* The signal handler is in place and so are the system call filters.
MainStart ==
  /\ MainAt("starting")
  /\ running' = TRUE
  /\ MainGoto("loop")
  /\ UNCHANGED <<cur, made, sigterm, mutex, list, freed, history, tpc, conVars>>

\* while (is_running)
MainLoop ==
  /\ MainAt("loop")
  /\ MainGoto(IF running THEN "select" ELSE "uninit_lock")
  /\ UNCHANGED <<cur, made, running, sigterm, mutex, list, freed, history, tpc, conVars>>

\* select() returns: a client connects.
MainSelect ==
  /\ MainAt("select")
  /\ Unused # {}
  /\ MainGoto("lock")
  /\ UNCHANGED <<cur, made, running, sigterm, mutex, list, freed, history, tpc, conVars>>

AcceptLock ==
  /\ MainAt("lock")
  /\ mutex = NoThread
  /\ mutex' = Main
  /\ cur' = 1
  /\ MainGoto("cleanup")
  /\ UNCHANGED <<made, running, sigterm, list, freed, history, tpc, conVars>>

\* mutants: the rest of the list is lost; the list keeps its length
RemoveRest ==
  /\ list' = SubSeq(list, 1, cur - 1)
  /\ freed' = freed \cup {list[cur]}
RemoveHole ==
  /\ list' = [list EXCEPT ![cur] = NoThread]
  /\ freed' = freed \cup {list[cur]}

\* Take the cur'th DispatchState from the list and free it.
Remove ==
  /\ list' = [i \in 1 .. Len(list) - 1 |-> list[IF i < cur THEN i ELSE i + 1]]
  /\ freed' = freed \cup {list[cur]}

CompletedAny(d) == TRUE                 \* mutant: every thread is joined
Completed(d)    == ~sock[d]

\* "Cleanup any completed dispatch threads": those whose sock is -1 are
\* joined, which takes until they have ended.
AcceptCleanup ==
  /\ MainAt("cleanup")
  /\ \/ /\ cur <= Len(list) /\ Completed(list[cur])
        /\ tpc[list[cur]] = "exited"
        /\ Remove
        /\ UNCHANGED <<mpc, cur>>
     \/ /\ cur <= Len(list) /\ ~Completed(list[cur])
        /\ cur' = cur + 1
        /\ UNCHANGED <<mpc, list, freed>>
     \/ /\ cur > Len(list)
        /\ MainGoto("accept")
        /\ UNCHANGED <<cur, list, freed>>
  /\ UNCHANGED <<made, running, sigterm, mutex, history, tpc, conVars>>

\* accept(), calloc() or pthread_create() fails: back to the loop, with the
\* mutex still locked.
AcceptError ==
  /\ MainAt("accept")
  /\ Failures
  /\ MainGoto("loop")
  /\ UNCHANGED <<cur, made, running, sigterm, mutex, list, freed, history, tpc, conVars>>

StaysLocked == UNCHANGED mutex          \* mutant: the unlock is missing
Unlock      == mutex' = NoThread

\* pthread_create of a dispatch thread for the new connection, which runs
\* from here on.
AcceptCreate ==
  /\ MainAt("accept")
  /\ \E d \in Unused :
       /\ tpc' = [tpc EXCEPT ![d] = "start"]
       /\ sock' = [sock EXCEPT ![d] = TRUE]
       /\ client' = [client EXCEPT ![d] = TRUE]
       /\ made' = d
  /\ MainGoto("push")
  /\ UNCHANGED <<cur, running, sigterm, mutex, list, freed, history, shut, appid, req,
                 callId>>

\* It becomes the head of the list.
AcceptPush ==
  /\ MainAt("push")
  /\ list' = <<made>> \o list /\ made' = NoThread
  /\ Unlock
  /\ MainGoto("loop")
  /\ UNCHANGED <<cur, running, sigterm, freed, history, tpc, conVars>>

UninitLock ==
  /\ MainAt("uninit_lock")
  /\ mutex = NoThread
  /\ mutex' = Main
  /\ cur' = 1
  /\ MainGoto("uninit")
  /\ UNCHANGED <<made, running, sigterm, list, freed, history, tpc, conVars>>

\* Shut down the next connection; shutdown() may fail when the client is gone
\* already, and then cs->sock is left to the thread.
UninitShutdown ==
  /\ MainAt("uninit")
  /\ \/ /\ list # <<>>
        /\ LET d == list[1]
           IN  \/ /\ sock[d]
                  /\ sock' = [sock EXCEPT ![d] = FALSE]
                  /\ shut' = [shut EXCEPT ![d] = TRUE]
               \/ /\ ~sock[d] \/ ~client[d]
                  /\ UNCHANGED <<sock, shut>>
        /\ MainGoto("uninit_join")
        /\ UNCHANGED mutex
     \/ /\ list = <<>>
        /\ Unlock
        /\ MainGoto("done")
        /\ UNCHANGED <<sock, shut>>
  /\ UNCHANGED <<cur, made, running, sigterm, list, freed, history, tpc, client, appid,
                 req, callId>>

\* pthread_join, then assert(c->sock == -1).  The list is given up with its
\* elements; here they leave it one by one.
UninitJoin ==
  /\ MainAt("uninit_join")
  /\ tpc[list[1]] = "exited"
  /\ \/ sock[list[1]] /\ aborted' = TRUE /\ UNCHANGED <<mpc, list, freed>>
     \/ ~sock[list[1]] /\ Remove /\ MainGoto("uninit") /\ UNCHANGED aborted
  /\ UNCHANGED <<cur, made, running, sigterm, mutex, stale, tpc, conVars>>

-----------------------------------------------------------------------------
(* A dispatch thread.                                                      *)

At(d, l)   == tpc[d] = l /\ ~aborted
Goto(d, l) == tpc' = [tpc EXCEPT ![d] = l]

\* An assertion on cs->sock that the thread makes before it goes to l.
AssertSock(d, l) ==
  \/ sock[d] /\ Goto(d, l) /\ UNCHANGED aborted
  \/ ~sock[d] /\ aborted' = TRUE /\ UNCHANGED tpc

EndedShut(d) == shut[d]                 \* mutant: end of file is not noticed
\* The connection is over for recv(): the client closed it or we shut it down.
Ended(d) == ~client[d] \/ shut[d]

\* Read the application id and set up the buffers.  Without an id the thread
\* ends.  When call_init fails it ends too, with dangling pointers to the
\* buffers; when the system call filter fails, with its socket open.
ThreadStart(d) ==
  /\ At(d, "start")
  /\ \/ /\ ~Ended(d)
        /\ \E a \in Apps :
             /\ OneConn => \A e \in Threads : appid[e] = a => tpc[e] = "exited"
             /\ appid' = [appid EXCEPT ![d] = a]
        /\ \/ req' = [req EXCEPT ![d] = "live"] /\ Goto(d, "read")
           \/ Failures /\ req' = [req EXCEPT ![d] = "freed"] /\ Goto(d, "end")
     \/ /\ \/ Ended(d) /\ Goto(d, "end")
           \/ Failures /\ Goto(d, "exited")
        /\ UNCHANGED <<appid, req>>
  /\ UNCHANGED <<mainVars, mutex, list, freed, history, sock, shut, client, callId>>

\* call_reset, and the assertion in read_all.
ThreadRead(d) ==
  /\ At(d, "read")
  /\ AssertSock(d, "recv")
  /\ callId' = [callId EXCEPT ![d] = "none"]
  /\ UNCHANGED <<mainVars, mutex, list, freed, stale, sock, shut, client, appid, req>>

\* A request arrives, or something makes the loop end: the connection is over
\* or the message makes no sense.
ThreadRecv(d) ==
  /\ At(d, "recv")
  /\ \/ /\ ~Ended(d)
        /\ \E k \in Calls \ {"none"} :
             /\ k = "wait" => WaitEvents
             /\ callId' = [callId EXCEPT ![d] = k]
        /\ Goto(d, "exec")
     \/ Goto(d, "uninit") /\ UNCHANGED callId
  /\ UNCHANGED <<mainVars, mutex, list, freed, history, sock, shut, client, appid, req>>

\* The module executes the call; C_WaitForSlotEvent may take for ever.
ThreadExec(d) ==
  /\ At(d, "exec")
  /\ callId[d] = "other"
  /\ Goto(d, "write")
  /\ UNCHANGED <<mainVars, mutex, list, freed, history, conVars>>

SlotEvent(d) ==
  /\ At(d, "exec")
  /\ callId[d] = "wait"
  /\ Goto(d, "write")
  /\ UNCHANGED <<mainVars, mutex, list, freed, history, conVars>>

\* mutant: the application is not compared
PeersOfAll(d) ==
  {e \in {list[i] : i \in DOMAIN list} : e # d /\ req[e] # "null"}

\* The other connections of d's application that rpc_C_Finalize looks at.
Peers(d) ==
  {e \in {list[i] : i \in DOMAIN list} :
     /\ appid[e] = appid[d]
     /\ e # d /\ (sock[e] \/ sock[d])
     /\ req[e] # "null"}

\* "Make all C_WaitForSlotEvent calls return": shut down the peers that wait,
\* all under the mutex.  The call id of a request that was freed may be
\* anything.
FinalizePeers(d) ==
  /\ mutex = NoThread
  /\ LET waiting == {e \in Peers(d) : req[e] = "live" /\ callId[e] = "wait"}
         dead    == {e \in Peers(d) : req[e] = "freed"}
     IN  /\ \E maybe \in SUBSET dead :
              LET hit == {e \in waiting \cup maybe : sock[e]}
              IN  /\ sock' = [e \in Threads |-> sock[e] /\ e \notin hit]
                  /\ shut' = [e \in Threads |-> shut[e] \/ e \in hit]
         /\ stale' = (stale \/ dead # {})

\* rpc_C_Finalize as a call of the client.
ThreadFinalize(d) ==
  /\ At(d, "exec")
  /\ callId[d] = "finalize"
  /\ FinalizePeers(d)
  /\ Goto(d, "write")
  /\ UNCHANGED <<mainVars, mutex, list, freed, aborted, client, appid, req, callId>>

\* The assertion in write_all, and the response.
ThreadWrite(d) ==
  /\ At(d, "write")
  /\ \/ AssertSock(d, "read")
     \/ Ended(d) /\ AssertSock(d, "uninit")
  /\ UNCHANGED <<mainVars, mutex, list, freed, stale, conVars>>

\* call_uninit: rpc_C_Finalize once more, then the buffers are freed.
ThreadUninit(d) ==
  /\ At(d, "uninit")
  /\ FinalizePeers(d)
  /\ req' = [req EXCEPT ![d] = "freed"]
  /\ Goto(d, "end")
  /\ UNCHANGED <<mainVars, mutex, list, freed, aborted, client, appid, callId>>

\* "The thread closes the socket and marks as done", after an assertion.
ThreadEnd(d) ==
  /\ At(d, "end")
  /\ AssertSock(d, "exited")
  /\ sock' = [sock EXCEPT ![d] = FALSE]
  /\ UNCHANGED <<mainVars, mutex, list, freed, stale, shut, client, appid, req, callId>>

\* The client closes the connection or dies.
ClientLeaves(d) ==
  /\ client[d]
  /\ client' = [client EXCEPT ![d] = FALSE]
  /\ UNCHANGED <<mainVars, mutex, list, freed, history, tpc, sock, shut, appid,
                 req, callId>>

-----------------------------------------------------------------------------

MainStep ==
  \/ MainStart \/ MainLoop \/ AcceptLock \/ AcceptCleanup
  \/ AcceptError \/ AcceptCreate \/ AcceptPush
  \/ UninitLock \/ UninitShutdown \/ UninitJoin

\* Steps a dispatch thread takes by itself, without a client or a token.
ThreadStep(d) ==
  \/ ThreadStart(d) \/ ThreadRead(d)
  \/ (Ended(d) /\ ThreadRecv(d))
  \/ ThreadExec(d) \/ ThreadFinalize(d) \/ ThreadWrite(d)
  \/ ThreadUninit(d) \/ ThreadEnd(d)

Next ==
  \/ Sigterm \/ MainSelect \/ MainStart \/ MainLoop \/ AcceptLock
  \/ AcceptCleanup \/ AcceptError \/ AcceptCreate \/ AcceptPush
  \/ UninitLock \/ UninitShutdown \/ UninitJoin
  \/ \E d \in Threads :
       \/ ThreadStart(d) \/ ThreadRead(d) \/ ThreadRecv(d) \/ ThreadExec(d)
       \/ SlotEvent(d) \/ ThreadFinalize(d) \/ ThreadWrite(d)
       \/ ThreadUninit(d) \/ ThreadEnd(d) \/ ClientLeaves(d)

Spec == Init /\ [][Next]_vars

\* Threads that can run do; nothing is assumed of clients, tokens or signals.
FairSpec ==
  /\ Spec
  /\ WF_vars(MainStep)
  /\ \A d \in Threads : WF_vars(ThreadStep(d))

-----------------------------------------------------------------------------
(* Properties.                                                             *)

\* Every variable stays in its range: the list links DispatchStates only, and
\* only the main thread keeps the mutex from one step to the next.
TypeOK ==
  /\ mpc \in MainLocations /\ cur \in Nat \ {0} /\ made \in Threads \cup {NoThread}
  /\ {running, sigterm, aborted, stale} \subseteq BOOLEAN
  /\ mutex \in {NoThread, Main}
  /\ list \in Seq(Threads) /\ freed \subseteq Threads
  /\ tpc \in [Threads -> Locations]
  /\ sock \in [Threads -> BOOLEAN] /\ shut \in [Threads -> BOOLEAN]
  /\ client \in [Threads -> BOOLEAN]
  /\ appid \in [Threads -> Apps \cup {NoApp}]
  /\ req \in [Threads -> {"null", "live", "freed"}]
  /\ callId \in [Threads -> Calls]

\* A DispatchState is freed once, after its thread has ended, and is off the
\* list by then; every other thread is on the list, once, except while
\* gck_rpc_layer_accept has created it, and it may run or even have ended,
\* but has not put it there.
ListExact ==
  /\ \A d \in freed : tpc[d] = "exited"
  /\ \A d \in Threads :
       (tpc[d] # "none" /\ d \notin freed \cup {made}) <=> \E i \in DOMAIN list : list[i] = d
  /\ \A i, j \in DOMAIN list : list[i] = list[j] => i = j

\* No assertion on a socket fails: not in read_all or write_all, nor in
\* run_dispatch_thread or gck_rpc_layer_uninitialize.
NoAbort == ~aborted

\* The main thread never waits, with the mutex locked, for a thread that
\* waits for the mutex.
NoJoinDeadlock ==
  \A d \in Threads :
    /\ mutex = Main
    /\ \/ mpc = "cleanup" /\ cur <= Len(list) /\ list[cur] = d /\ Completed(d)
       \/ mpc = "uninit_join" /\ list[1] = d
    => tpc[d] # "uninit" /\ ~(tpc[d] = "exec" /\ callId[d] = "finalize")

\* rpc_C_Finalize reads no request that its thread has freed.
NoStaleRead == ~stale

\* Having a client to accept, the main thread comes back for the next one.
AcceptReturns == mpc = "lock" ~> (mpc = "select" \/ running = FALSE)

\* A dispatch thread whose client left ends, unless its call is waiting for a
\* slot event: call_uninit, and the assertion before the socket is closed, do
\* not stop it, whatever the main thread and its peers are doing.
ThreadsEnd ==
  \A d \in Threads :
    tpc[d] \notin {"none", "exited"} /\ ~client[d]
      ~> tpc[d] = "exited" \/ (tpc[d] = "exec" /\ callId[d] = "wait")

\* SIGTERM makes the daemon stop ("Shut down gracefully on SIGTERM.").
SigtermStops == sigterm ~> (mpc = "done" \/ aborted)

=============================================================================
