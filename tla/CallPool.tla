------------------------------ MODULE CallPool ------------------------------
(***************************************************************************)
(* The client side of the proxy: the PKCS#11 module an application loads   *)
(* (gck-rpc-module.c).  Every C_* function of the application borrows a    *)
(* CallState (one connection to the daemon, with its request and response  *)
(* buffers) from a pool, sends one request on it, reads one response, and  *)
(* gives it back; C_Initialize and C_Finalize do the same while they hold  *)
(* init_mutex.  Threads of the application interleave freely.              *)
(*                                                                         *)
(* CallStates are numbered in the order calloc() makes them and no number  *)
(* is reused, since the daemon may still work on the connection of a       *)
(* CallState that was freed.  Payloads are abstracted: a call is its       *)
(* serial number, a response is what call_run can tell about it.           *)
(***************************************************************************)
EXTENDS Integers, Sequences

CONSTANTS
  Threads,      \* application threads
  NoThread,     \* init_mutex is free
  Paths,        \* daemon addresses pkcs11_socket_path can hold
  NoPath,       \* pkcs11_socket_path[0] == 0
  EnvPath,      \* PKCS11_PROXY_SOCKET, NoPath when unset
  MaxPool,      \* MAX_CALL_STATE_POOL
  MaxCalls,     \* bound: calls the application makes
  MaxConns,     \* bound: CallStates ever allocated
  MemFails,     \* may an allocation fail?
  ConnErrors,   \* may TLS or sending the application id fail (not EPIPE)?
  SendErrors,   \* may a send() on a live connection fail (not EPIPE)?
  Reinits       \* may the application finalize, and initialize again?

ASSUME CallPoolAssumption ==
  /\ NoThread \notin Threads
  /\ NoPath \notin Paths
  /\ EnvPath \in Paths \cup {NoPath}
  /\ MaxPool \in Nat \ {0}
  /\ MaxCalls \in Nat
  /\ MaxConns \in Nat
  /\ {MemFails, ConnErrors, SendErrors, Reinits} \subseteq BOOLEAN

VARIABLES
  initialized,  \* pkcs11_initialized
  path,         \* pkcs11_socket_path
  initMutex,    \* holder of init_mutex
  aborted,      \* an assert() failed: the process is gone
  pool,         \* call_state_pool, the head of the list last
  nPool,        \* n_call_state_pool
  nalloc,       \* CallStates allocated so far
  status,       \* cs->call_status, "none" before calloc and after free
  sock,         \* is cs->socket an open descriptor (not -1)?
  peer,         \* the address cs->socket was connected to
  srv,          \* is the daemon's end of the connection open?
  toSrv,        \* requests on their way to the daemon
  toCli,        \* length words and bodies on their way to the client
  executed,     \* calls the daemon has executed, in order (history)
  pc, op, cs, call, ret, resp,   \* locals of each thread
  ncalls        \* calls made so far

globals  == <<initialized, path, initMutex, aborted>>
poolVars == <<pool, nPool>>
csVars   == <<nalloc, status, sock, peer>>
wireVars == <<srv, toSrv, toCli, executed>>
thrVars  == <<pc, op, cs, call, ret, resp, ncalls>>
vars     == <<globals, poolVars, csVars, wireVars, thrVars>>

CallStates == 1 .. MaxConns
CallNos    == 0 .. MaxCalls      \* 0: no call yet

\* enum CallStatus; "none" is memory that is not a CallState
Statuses == {"none", "READY", "PREP", "TRANSIT", "PARSE"}

\* The return codes the control flow tells apart.  ARGS stands for the codes
\* found on the client (CKR_ARGUMENTS_BAD, CKR_MECHANISM_INVALID,
\* CKR_BUFFER_TOO_SMALL), DEVICE_ERROR for CKR_DEVICE_REMOVED too, TOKEN_ERR
\* for the other codes the daemon passes on.
Codes == {"OK", "DEVICE_ERROR", "HOST_MEMORY", "ARGS", "TOKEN_ERR",
          "GENERAL_ERROR", "NOT_INITIALIZED", "ALREADY_INITIALIZED"}

\* A response travels as a length word followed by a body.
Kinds     == {"ok", "err", "deverr", "garbled"}
Units     == [part : {"len", "body"}, of : CallNos, kind : Kinds]
NoUnit    == [part |-> "body", of |-> 0, kind |-> "garbled"]
Ops       == {"Call", "C_Initialize", "C_Finalize"}
Locations == {"idle", "lock", "lookup", "connect", "prepare", "run",
              "recv_len", "recv_body", "parse", "done"}

Init ==
  /\ initialized = FALSE /\ path = NoPath
  /\ initMutex = NoThread /\ aborted = FALSE
  /\ pool = <<>> /\ nPool = 0 /\ nalloc = 0
  /\ status = [c \in CallStates |-> "none"]
  /\ sock = [c \in CallStates |-> FALSE]
  /\ peer = [c \in CallStates |-> NoPath]
  /\ srv = [c \in CallStates |-> FALSE]
  /\ toSrv = [c \in CallStates |-> <<>>]
  /\ toCli = [c \in CallStates |-> <<>>]
  /\ executed = <<>>
  /\ pc = [t \in Threads |-> "idle"]
  /\ op = [t \in Threads |-> "Call"]
  /\ cs = [t \in Threads |-> 0]
  /\ call = [t \in Threads |-> 0]
  /\ ret = [t \in Threads |-> "OK"]
  /\ resp = [t \in Threads |-> NoUnit]
  /\ ncalls = 0

-----------------------------------------------------------------------------
(* Helpers: what a thread does next, and how a C_* function returns.       *)

\* Thread t is at l, and no failed assert() has ended the process.
At(t, l)    == pc[t] = l /\ ~aborted
Goto(t, l)  == pc' = [pc EXCEPT ![t] = l]
Yield(t, r) == ret' = [ret EXCEPT ![t] = r]

\* The request about to be built is call number ncalls + 1.
NewCall(t, o, l) ==
  /\ ncalls < MaxCalls
  /\ ncalls' = ncalls + 1
  /\ call' = [call EXCEPT ![t] = ncalls + 1]
  /\ op' = [op EXCEPT ![t] = o]
  /\ Yield(t, "OK")
  /\ Goto(t, l)

\* pthread_mutex_unlock (&init_mutex) at the end of both.
StaysLocked == UNCHANGED initMutex      \* mutant: the unlock is missing
UnlockInit  == initMutex' = NoThread

\* mutant: rpc_C_Finalize leaves pkcs11_initialized set
ReturnStaysUp(t, r) ==
  /\ Goto(t, "idle")
  /\ Yield(t, IF op[t] = "C_Finalize" THEN "OK" ELSE r)
  /\ IF op[t] = "Call"
     THEN UNCHANGED <<initialized, path, initMutex>>
     ELSE /\ initialized' = (op[t] = "C_Finalize" \/ r = "OK")
          /\ path' = IF op[t] = "C_Initialize" /\ r = "OK" THEN path ELSE NoPath
          /\ UnlockInit

\* The end of a C_* function: rpc_C_Initialize marks the library initialized
\* or forgets the socket path, rpc_C_Finalize always does the latter and
\* returns CKR_OK; both unlock init_mutex.
Return(t, r) ==
  /\ Goto(t, "idle")
  /\ Yield(t, IF op[t] = "C_Finalize" THEN "OK" ELSE r)
  /\ IF op[t] = "Call"
     THEN UNCHANGED <<initialized, path, initMutex>>
     ELSE LET up == op[t] = "C_Initialize" /\ r = "OK"
          IN  /\ initialized' = up
              /\ path' = IF up THEN path ELSE NoPath
              /\ UnlockInit

-----------------------------------------------------------------------------
(* Entering a C_* function.                                                *)

\* BEGIN_CALL up to call_lookup: pkcs11_initialized is read without a lock.
BeginCall(t) ==
  /\ At(t, "idle")
  /\ \/ initialized /\ NewCall(t, "Call", "lookup")
     \/ ~initialized /\ Yield(t, "NOT_INITIALIZED")
                     /\ UNCHANGED <<pc, op, call, ncalls>>
  /\ UNCHANGED <<globals, poolVars, csVars, wireVars, cs, resp>>

C_Initialize(t) ==
  /\ At(t, "idle")
  /\ initialized => Reinits
  /\ NewCall(t, "C_Initialize", "lock")
  /\ UNCHANGED <<globals, poolVars, csVars, wireVars, cs, resp>>

C_Finalize(t) ==
  /\ At(t, "idle")
  /\ Reinits
  /\ \/ initialized /\ NewCall(t, "C_Finalize", "lock")
     \/ ~initialized /\ Yield(t, "NOT_INITIALIZED")
                     /\ UNCHANGED <<pc, op, call, ncalls>>
  /\ UNCHANGED <<globals, poolVars, csVars, wireVars, cs, resp>>

\* The part of rpc_C_Initialize under init_mutex that comes before the call
\* to the daemon.  arg is what pkcs11_socket_path holds once pReserved has
\* been parsed: the old value, a new address, or nothing (an empty "socket=").
\* It is stored before the test for a second initialization.  ok says whether
\* the mutex functions, the locking flag and the TLS key file are acceptable.
InitializeLocked(t) ==
  /\ At(t, "lock") /\ op[t] = "C_Initialize"
  /\ initMutex = NoThread
  /\ \E ok \in BOOLEAN, arg \in Paths \cup {NoPath, path} :
       LET p == IF arg = NoPath /\ ~initialized THEN EnvPath ELSE arg
       IN  \/ /\ ~ok \/ (~initialized /\ p = NoPath)
              /\ initialized' = FALSE /\ path' = NoPath
              /\ Goto(t, "idle") /\ Yield(t, "ARGS")
              /\ UNCHANGED initMutex
           \/ /\ ok /\ initialized
              /\ path' = p
              /\ Goto(t, "idle") /\ Yield(t, "ALREADY_INITIALIZED")
              /\ UNCHANGED <<initialized, initMutex>>
           \/ /\ ok /\ ~initialized /\ p # NoPath
              /\ path' = p
              /\ initMutex' = t
              /\ Goto(t, "lookup")
              /\ UNCHANGED <<initialized, ret>>
  /\ UNCHANGED <<aborted, poolVars, csVars, wireVars, op, cs, call, resp, ncalls>>

FinalizeLocked(t) ==
  /\ At(t, "lock") /\ op[t] = "C_Finalize"
  /\ initMutex = NoThread
  /\ initMutex' = t
  /\ Goto(t, "lookup")
  /\ UNCHANGED <<initialized, path, aborted, poolVars, csVars, wireVars,
                 op, cs, call, ret, resp, ncalls>>

-----------------------------------------------------------------------------
(* call_lookup and call_connect.                                           *)

\* Pop a pooled CallState under call_state_mutex, or set out to connect.
call_lookup(t) ==
  /\ At(t, "lookup")
  /\ \/ /\ pool # <<>>
        /\ cs' = [cs EXCEPT ![t] = pool[Len(pool)]]
        /\ pool' = SubSeq(pool, 1, Len(pool) - 1)
        /\ nPool' = nPool - 1
        /\ Goto(t, "prepare")
     \/ /\ pool = <<>>
        /\ Goto(t, "connect")
        /\ UNCHANGED <<cs, poolVars>>
  /\ UNCHANGED <<globals, csVars, wireVars, op, call, ret, resp, ncalls>>

\* assert(pkcs11_socket_path[0])
call_connect_assert(t) ==
  /\ At(t, "connect")
  /\ path = NoPath
  /\ aborted' = TRUE
  /\ UNCHANGED <<initialized, path, initMutex, poolVars, csVars, wireVars, thrVars>>

\* A connected CallState; the application id goes out with it.
call_connect_ok(t) ==
  /\ At(t, "connect")
  /\ path # NoPath
  /\ nalloc < MaxConns
  /\ LET c == nalloc + 1
     IN  /\ nalloc' = c
         /\ status' = [status EXCEPT ![c] = "READY"]
         /\ sock' = [sock EXCEPT ![c] = TRUE]
         /\ peer' = [peer EXCEPT ![c] = path]
         /\ srv' = [srv EXCEPT ![c] = TRUE]
         /\ cs' = [cs EXCEPT ![t] = c]
  /\ Goto(t, "prepare")
  /\ UNCHANGED <<globals, poolVars, toSrv, toCli, executed, op, call, ret,
                 resp, ncalls>>

\* No connection: call_lookup frees the CallState and its error is returned
\* without call_done.  When it is the application id that could not be sent
\* (errno not EPIPE), or TLS that could not be started, the descriptor stays
\* open.
call_connect_fail(t) ==
  /\ At(t, "connect")
  /\ path # NoPath
  /\ \/ UNCHANGED <<csVars, srv>>
     \/ /\ ConnErrors
        /\ nalloc < MaxConns
        /\ nalloc' = nalloc + 1
        /\ sock' = [sock EXCEPT ![nalloc + 1] = TRUE]
        /\ peer' = [peer EXCEPT ![nalloc + 1] = path]
        /\ srv' = [srv EXCEPT ![nalloc + 1] = TRUE]
        /\ UNCHANGED status
  /\ \/ Return(t, "DEVICE_ERROR")
     \/ MemFails /\ Return(t, "HOST_MEMORY")
  /\ UNCHANGED <<aborted, poolVars, toSrv, toCli, executed, op, cs, call,
                 resp, ncalls>>

-----------------------------------------------------------------------------
(* The life of a borrowed CallState.                                       *)

\* The thread stops using the connection with code r and heads for call_done.
Fail(t, r) == Yield(t, r) /\ Goto(t, "done")

\* call_prepare and the IN_* macros that fill in the arguments.
call_prepare(t) ==
  /\ At(t, "prepare")
  /\ \/ /\ status' = [status EXCEPT ![cs[t]] = "PREP"]
        /\ \/ Goto(t, "run") /\ UNCHANGED ret
           \/ op[t] = "Call" /\ Fail(t, "ARGS")
           \/ MemFails /\ Fail(t, "HOST_MEMORY")
     \/ MemFails /\ Fail(t, "HOST_MEMORY") /\ UNCHANGED status
  /\ UNCHANGED <<globals, poolVars, nalloc, sock, peer, wireVars, op, cs,
                 call, resp, ncalls>>

\* call_run up to the two call_write of call_send_recv.  A request is either
\* handed to the kernel whole or never complete at the daemon.
call_send(t) ==
  /\ At(t, "run")
  /\ LET c == cs[t]
     IN  /\ status' = [status EXCEPT ![c] = "TRANSIT"]
         /\ \/ /\ toSrv' = [toSrv EXCEPT ![c] = Append(@, call[t])]
               /\ Goto(t, "recv_len")
               /\ UNCHANGED <<sock, ret>>
            \/ /\ ~srv[c]                       \* EPIPE: call_disconnect
               /\ sock' = [sock EXCEPT ![c] = FALSE]
               /\ Yield(t, "DEVICE_ERROR") /\ Goto(t, "parse")
               /\ UNCHANGED toSrv
            \/ /\ SendErrors
               /\ Yield(t, "DEVICE_ERROR") /\ Goto(t, "parse")
               /\ UNCHANGED <<toSrv, sock>>
            \/ /\ MemFails                      \* no response buffer
               /\ Yield(t, "HOST_MEMORY") /\ Goto(t, "parse")
               /\ UNCHANGED <<toSrv, sock>>
  /\ UNCHANGED <<globals, poolVars, nalloc, peer, srv, toCli, executed, op,
                 cs, call, resp, ncalls>>

\* recv() on a connection the daemon has closed: end of file, on which
\* call_read disconnects, or a reset, on which it does not.
RecvFails(t) ==
  LET c == cs[t]
  IN  /\ ~srv[c]
      /\ \/ toCli[c] = <<>> /\ sock' = [sock EXCEPT ![c] = FALSE]
         \/ UNCHANGED sock
      /\ Yield(t, "DEVICE_ERROR")
      /\ Goto(t, "parse")
      /\ UNCHANGED <<toCli, resp>>

\* Read the length word; the response area is reserved before the body.
call_recv_len(t) ==
  /\ At(t, "recv_len")
  /\ \/ /\ toCli[cs[t]] # <<>>
        /\ resp' = [resp EXCEPT ![t] = Head(toCli[cs[t]])]
        /\ toCli' = [toCli EXCEPT ![cs[t]] = Tail(@)]
        /\ \/ Goto(t, "recv_body") /\ UNCHANGED ret
           \/ MemFails /\ Yield(t, "HOST_MEMORY") /\ Goto(t, "parse")
        /\ UNCHANGED sock
     \/ RecvFails(t)
  /\ UNCHANGED <<globals, poolVars, nalloc, status, peer, srv, toSrv,
                 executed, op, cs, call, ncalls>>

\* Read and parse the body.  What was taken for a length need not be one, or
\* not that of this body: then the message makes no sense.
call_recv_body(t) ==
  /\ At(t, "recv_body")
  /\ \/ /\ toCli[cs[t]] # <<>>
        /\ LET u == Head(toCli[cs[t]])
               framed == /\ resp[t].part = "len" /\ u.part = "body"
                         /\ resp[t].of = u.of
           IN  resp' = [resp EXCEPT ![t] =
                          [part |-> "body", of |-> u.of,
                           kind |-> IF framed THEN u.kind ELSE "garbled"]]
        /\ toCli' = [toCli EXCEPT ![cs[t]] = Tail(@)]
        /\ Goto(t, "parse")
        /\ UNCHANGED <<sock, ret>>
     \/ RecvFails(t)
  /\ UNCHANGED <<globals, poolVars, nalloc, status, peer, srv, toSrv,
                 executed, op, cs, call, ncalls>>

\* mutant: call_run does not look at the result of call_send_recv
OutcomesUnchecked(t) ==
  IF resp[t].kind = "ok" THEN {"OK"} ELSE {"TOKEN_ERR"}

\* What call_run and the OUT_* macros make of a response.  OUT_* can still
\* find a null pointer or a short buffer.  gck_rpc_message_parse's verdict on
\* a senseless message is not looked at, so any code may come of it.
Outcomes(t) ==
  IF ret[t] # "OK" THEN {ret[t]}
  ELSE LET k == resp[t].kind
       IN  {r \in Codes :
              \/ k = "ok" /\ (r = "OK" \/ (r = "ARGS" /\ op[t] = "Call"))
              \/ k = "err" /\ r = "TOKEN_ERR"
              \/ k = "deverr" /\ r = "DEVICE_ERROR"
              \/ /\ k = "garbled"
                 /\ \/ r \in {"OK", "DEVICE_ERROR", "TOKEN_ERR"}
                    \/ r = "GENERAL_ERROR" /\ op[t] = "Call"}

call_parse(t) ==
  /\ At(t, "parse")
  /\ status' = [status EXCEPT ![cs[t]] = "PARSE"]
  /\ \E r \in Outcomes(t) : Fail(t, r)
  /\ UNCHANGED <<globals, poolVars, nalloc, sock, peer, wireVars, op, cs,
                 call, resp, ncalls>>

\* "Certain error codes cause us to discard the conenction"; so does a closed
\* socket, and a pool that is full.
PoolableBroken(c, r)  == sock[c] /\ nPool < MaxPool     \* mutant: any code will do
PoolableOneMore(c, r) == r # "DEVICE_ERROR" /\ sock[c] /\ nPool <= MaxPool    \* mutant
Poolable(c, r) == r # "DEVICE_ERROR" /\ sock[c] /\ nPool < MaxPool

\* mutants: n_call_state_pool, or call_status, is not brought up to date
StashUncounted(c) ==
  /\ status' = [status EXCEPT ![c] = "READY"]
  /\ pool' = Append(pool, c)
  /\ UNCHANGED <<nPool, sock>>
StashUnready(c) ==
  /\ pool' = Append(pool, c)
  /\ nPool' = nPool + 1
  /\ UNCHANGED <<status, sock>>

\* Put c at the head of the pool, ready for the next call.
Stash(c) ==
  /\ status' = [status EXCEPT ![c] = "READY"]
  /\ pool' = Append(pool, c)
  /\ nPool' = nPool + 1
  /\ UNCHANGED sock

\* mutant: call_disconnect is missing
DestroyConnected(c) ==
  /\ status' = [status EXCEPT ![c] = "none"]
  /\ UNCHANGED <<sock, poolVars>>

call_destroy(c) ==
  /\ status' = [status EXCEPT ![c] = "none"]
  /\ sock' = [sock EXCEPT ![c] = FALSE]
  /\ UNCHANGED poolVars

\* The borrowed CallState is stashed for later use or destroyed.
call_done(t) ==
  /\ At(t, "done")
  /\ \/ Poolable(cs[t], ret[t]) /\ Stash(cs[t])
     \/ ~Poolable(cs[t], ret[t]) /\ call_destroy(cs[t])
  /\ cs' = [cs EXCEPT ![t] = 0]
  /\ Return(t, ret[t])
  /\ UNCHANGED <<aborted, nalloc, peer, wireVars, op, call, resp, ncalls>>

-----------------------------------------------------------------------------
(* The daemon's end of a connection, as far as the client can see it.      *)

\* run_dispatch_loop: one request in, one response out.
Serve(c) ==
  /\ srv[c]
  /\ toSrv[c] # <<>>
  /\ \E k \in {"ok", "err", "deverr"} :
       LET n == Head(toSrv[c])
       IN  /\ toCli' = [toCli EXCEPT ![c] =
                          @ \o << [part |-> "len",  of |-> n, kind |-> k],
                                  [part |-> "body", of |-> n, kind |-> k] >>]
           /\ executed' = Append(executed, n)
  /\ toSrv' = [toSrv EXCEPT ![c] = Tail(@)]
  /\ UNCHANGED <<globals, poolVars, csVars, srv, thrVars>>

\* The dispatch thread ends, the daemon dies, or the network does.
DaemonCloses(c) ==
  /\ srv[c]
  /\ srv' = [srv EXCEPT ![c] = FALSE]
  /\ UNCHANGED <<globals, poolVars, csVars, toSrv, toCli, executed, thrVars>>

-----------------------------------------------------------------------------

Progress(t) ==
  \/ InitializeLocked(t) \/ FinalizeLocked(t)
  \/ call_lookup(t)
  \/ call_connect_assert(t) \/ call_connect_ok(t) \/ call_connect_fail(t)
  \/ call_prepare(t) \/ call_send(t)
  \/ call_recv_len(t) \/ call_recv_body(t)
  \/ call_parse(t) \/ call_done(t)

Application(t) == BeginCall(t) \/ C_Initialize(t) \/ C_Finalize(t)

Next ==
  \/ \E t \in Threads : Application(t) \/ Progress(t)
  \/ \E c \in CallStates : Serve(c) \/ DaemonCloses(c)

Spec == Init /\ [][Next]_vars

-----------------------------------------------------------------------------
(* Properties.                                                             *)

GlobalsOK ==
  /\ initialized \in BOOLEAN /\ aborted \in BOOLEAN
  /\ path \in Paths \cup {NoPath}
  /\ initMutex \in Threads \cup {NoThread}

PoolOK == pool \in Seq(CallStates) /\ nPool \in Nat

CallStatesOK ==
  /\ nalloc \in 0 .. MaxConns
  /\ status \in [CallStates -> Statuses]
  /\ sock \in [CallStates -> BOOLEAN]
  /\ peer \in [CallStates -> Paths \cup {NoPath}]

WireOK ==
  /\ srv \in [CallStates -> BOOLEAN]
  /\ toSrv \in [CallStates -> Seq(CallNos)]
  /\ toCli \in [CallStates -> Seq(Units)]
  /\ executed \in Seq(CallNos)

ThreadsOK ==
  /\ pc \in [Threads -> Locations]
  /\ op \in [Threads -> Ops]
  /\ cs \in [Threads -> CallStates \cup {0}]
  /\ call \in [Threads -> CallNos]
  /\ ret \in [Threads -> Codes]
  /\ resp \in [Threads -> Units]
  /\ ncalls \in CallNos

\* Every variable stays in its range; in particular the counter of pooled
\* CallStates, an unsigned int decremented by call_lookup, does not wrap.
TypeOK == GlobalsOK /\ PoolOK /\ CallStatesOK /\ WireOK /\ ThreadsOK

Holding == {"prepare", "run", "recv_len", "recv_body", "parse", "done"}

\* n_call_state_pool is the length of the list, within its limit.
PoolCounted == nPool = Len(pool) /\ nPool <= MaxPool

PooledOnce ==
  /\ \A i \in DOMAIN pool : pool[i] <= nalloc
  /\ \A i, j \in DOMAIN pool : pool[i] = pool[j] => i = j

\* A thread has a CallState exactly between call_lookup and call_done; no
\* other thread has it and it is not in the pool.
HeldByOne ==
  /\ \A t \in Threads : pc[t] \in Holding <=> cs[t] # 0
  /\ \A t \in Threads : cs[t] <= nalloc
  /\ \A t \in Threads, i \in DOMAIN pool : pool[i] # cs[t]
  /\ \A t, u \in Threads : cs[t] = cs[u] /\ cs[t] # 0 => t = u

\* A CallState has one owner: it is in the pool once, or one thread between
\* call_lookup and call_done works on it, and the counter that limits the
\* pool to MAX_CALL_STATE_POOL entries is the length of the list.  It is what
\* call_state_mutex is for ("Mutex to protect above call state list").
ExclusiveUse == PoolCounted /\ PooledOnce /\ HeldByOne

\* What call_lookup asserts of a CallState it takes from the pool.
PooledReady ==
  \A i \in DOMAIN pool : status[pool[i]] = "READY" /\ sock[pool[i]] = TRUE

\* What a thread at l asserts of its own CallState c.
Asserted(l, c) ==
  /\ l = "prepare" => status[c] = "READY" /\ sock[c] = TRUE
  /\ l = "run" => status[c] = "PREP" /\ sock[c] = TRUE
  /\ l \in {"recv_len", "recv_body"} => status[c] = "TRANSIT" /\ sock[c] = TRUE
  /\ l = "parse" => status[c] = "TRANSIT"
  /\ l = "done" => status[c] # "none"

\* The assertions on call_status and socket that call_lookup, call_prepare,
\* call_send_recv ("Make sure nobody else used this thread while unlocked"),
\* call_run and call_done make hold whatever the other threads do.
CallStatusAsserts == PooledReady /\ \A t \in Threads : Asserted(pc[t], cs[t])

\* No connection goes back to the pool with a request or a part of a
\* response still on it, so the next call reads its own answer.
Quiescent ==
  \A i \in DOMAIN pool : toSrv[pool[i]] = <<>> /\ toCli[pool[i]] = <<>>

\* A C_* function that succeeds returns the daemon's answer to its own
\* request ("Make sure daemon answered the right call"), and the daemon
\* executed that request exactly once, before.
RightAnswer ==
  \A t \in Threads : pc[t] = "done" /\ ret[t] = "OK" =>
    /\ resp[t].of = call[t] /\ resp[t].kind = "ok"
    /\ \E i \in DOMAIN executed :
         \A j \in DOMAIN executed : executed[j] = call[t] <=> i = j

\* c is in the pool, or a thread works on it.
Owned(c) == (\E i \in DOMAIN pool : pool[i] = c) \/ (\E t \in Threads : cs[t] = c)

\* Whatever fails, a descriptor that is open is that of a CallState in the pool
\* or of one that a thread works on, or it is one of those call_connect gives
\* up (TLS, or the application id, failed), and these never carry a request:
\* a call that fails after call_connect, at any step, and a full pool, leave no
\* descriptor behind (call_destroy, call_done).
DescriptorsAccounted ==
  \A c \in CallStates :
    sock[c] => \/ Owned(c)
               \/ status[c] = "none" /\ toSrv[c] = <<>> /\ toCli[c] = <<>>

\* No CallState is freed with its socket open, as call_destroy asserts: not so
\* for the ones call_connect gives up.
NoSocketLeak ==
  \A c \in CallStates : sock[c] => status[c] # "none"

\* assert(pkcs11_socket_path[0]) in call_connect never fails.
NoAbort == ~aborted

\* A request goes to the daemon that C_Initialize was told to use: the pool
\* holds no connection to the daemon of an earlier initialization.
RightDaemon ==
  \A t \in Threads :
    pc[t] = "run" /\ path # NoPath => peer[cs[t]] = path

=============================================================================
