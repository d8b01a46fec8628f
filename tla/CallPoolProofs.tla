--------------------------- MODULE CallPoolProofs ---------------------------
(***************************************************************************)
(* Proofs about the client's pool of connections (CallPool): for any set   *)
(* of threads, any pool size and any of the failures modelled, the type    *)
(* invariant, the exclusive use of CallStates and the assertions on their  *)
(* status are invariants of the specification.  Then what travels on the   *)
(* connections: no request is executed twice, and unless an allocation     *)
(* fails every call that succeeds has the answer to its own request.       *)
(* At last the promise (CallPoolRefinement): as long as no allocation      *)
(* fails, every step of the client library is a step of RemoteCall or      *)
(* leaves its state alone (the liveness part is model-checked); and in an  *)
(* application that keeps to the rules of PKCS#11, call_connect's          *)
(* assertion on the socket path never fails.                               *)
(***************************************************************************)
EXTENDS CallPoolRefinement, SequenceTheorems, TLAPS

\* Before the first C_Initialize every variable is in its range.
LEMMA TypeInit == Init => TypeOK
<1> SUFFICES ASSUME Init PROVE TypeOK
  OBVIOUS
<1> USE CallPoolAssumption DEF Init
<1>1. GlobalsOK
  BY DEF GlobalsOK
<1>2. PoolOK
  BY EmptySeq DEF PoolOK
<1>3. CallStatesOK
  BY DEF CallStatesOK, Statuses
<1>4. WireOK
  BY DEF WireOK
<1>5. ThreadsOK
  BY DEF ThreadsOK, CallNos, Units, Kinds, NoUnit, Ops, Codes, Locations
<1> QED
  BY <1>1, <1>2, <1>3, <1>4, <1>5 DEF TypeOK

\* A thread between call_lookup and call_done has a CallState.
LEMMA HoldsOne ==
  ASSUME TypeOK, ExclusiveUse, NEW t \in Threads, pc[t] \in Holding
  PROVE  cs[t] \in CallStates
  BY DEF TypeOK, ThreadsOK, ExclusiveUse, HeldByOne

\* What call_lookup takes from a pool that is not empty, and what it leaves.
LEMMA LastOfPool ==
  ASSUME TypeOK, ExclusiveUse, pool # <<>>
  PROVE  LET rest == SubSeq(pool, 1, Len(pool) - 1)
         IN  /\ Len(pool) \in Nat \ {0}
             /\ DOMAIN pool = 1 .. Len(pool)
             /\ pool[Len(pool)] \in CallStates
             /\ rest \in Seq(CallStates)
             /\ DOMAIN rest = 1 .. Len(pool) - 1
             /\ Len(rest) = Len(pool) - 1
             /\ \A i \in 1 .. Len(pool) - 1 : rest[i] = pool[i]
             /\ nPool - 1 \in Nat
<1> DEFINE rest == SubSeq(pool, 1, Len(pool) - 1)
<1>1. pool \in Seq(CallStates)
  BY DEF TypeOK, PoolOK
<1>2. Len(pool) \in Nat \ {0}
  BY <1>1, EmptySeq
<1>3. DOMAIN pool = 1 .. Len(pool) /\ \A i \in 1 .. Len(pool) : pool[i] \in CallStates
  BY <1>1, LenProperties, ElementOfSeq
<1>4. /\ rest \in Seq(CallStates)
      /\ Len(rest) = Len(pool) - 1
      /\ \A i \in 1 .. Len(pool) - 1 : rest[i] = pool[i]
  <2>1. \A i \in 1 .. Len(pool) - 1 : pool[i] \in CallStates
    BY <1>2, <1>3
  <2> DEFINE n == Len(pool) - 1
  <2>2. n \in Int /\ 1 \in Int /\ n - 1 + 1 = n
    BY <1>2
  <2> HIDE DEF n
  <2>3. /\ SubSeq(pool, 1, n) \in Seq(CallStates)
        /\ Len(SubSeq(pool, 1, n)) = IF 1 <= n THEN n - 1 + 1 ELSE 0
        /\ \A i \in 1 .. n - 1 + 1 : SubSeq(pool, 1, n)[i] = pool[1 + i - 1]
    <3>1. \A i \in 1 .. n : pool[i] \in CallStates
      BY <2>1 DEF n
    <3> QED
      BY <2>2, <3>1, SubSeqProperties, SMT
  <2>4. \A i \in 1 .. n : SubSeq(pool, 1, n)[i] = pool[i]
    BY <2>2, <2>3
  <2> QED
    BY <1>2, <2>2, <2>3, <2>4 DEF n
<1>5. DOMAIN rest = 1 .. Len(pool) - 1
  BY <1>4, LenProperties
<1>6. nPool - 1 \in Nat
  BY <1>2 DEF ExclusiveUse, PoolCounted
<1> QED
  BY <1>2, <1>3, <1>4, <1>5, <1>6

\* No step of a thread or of the daemon takes a variable out of its range.
LEMMA TypeStep == TypeOK /\ ExclusiveUse /\ [Next]_vars => TypeOK'
<1> SUFFICES ASSUME TypeOK, ExclusiveUse, [Next]_vars PROVE TypeOK'
  OBVIOUS
<1> USE CallPoolAssumption DEF TypeOK
<1>1. ASSUME NEW t \in Threads, BeginCall(t) PROVE TypeOK'
  <2>1. GlobalsOK' /\ PoolOK' /\ CallStatesOK' /\ WireOK'
    BY <1>1 DEF BeginCall, globals, poolVars, csVars, wireVars,
           GlobalsOK, PoolOK, CallStatesOK, WireOK
  <2>2. ThreadsOK'
    <3>1. CASE NewCall(t, "Call", "lookup")
      BY <1>1, <3>1
      DEF BeginCall, NewCall, Goto, Yield, CallNos, Codes, Ops, Locations,
                        ThreadsOK
    <3>2. CASE Yield(t, "NOT_INITIALIZED") /\ UNCHANGED <<pc, op, call, ncalls>>
      BY <1>1, <3>2 DEF BeginCall, Yield, Codes, ThreadsOK
    <3> QED
      BY <1>1, <3>1, <3>2 DEF BeginCall
  <2> QED
    BY <2>1, <2>2
<1>2. ASSUME NEW t \in Threads, C_Initialize(t) PROVE TypeOK'
  <2>1. GlobalsOK' /\ PoolOK' /\ CallStatesOK' /\ WireOK'
    BY <1>2 DEF C_Initialize, globals, poolVars, csVars, wireVars,
           GlobalsOK, PoolOK, CallStatesOK, WireOK
  <2>2. ThreadsOK'
    BY <1>2
    DEF C_Initialize, NewCall, Goto, Yield, CallNos, Codes, Ops, Locations,
        thrVars, ThreadsOK
  <2> QED
    BY <2>1, <2>2
<1>3. ASSUME NEW t \in Threads, C_Finalize(t) PROVE TypeOK'
  <2>1. GlobalsOK' /\ PoolOK' /\ CallStatesOK' /\ WireOK'
    BY <1>3 DEF C_Finalize, globals, poolVars, csVars, wireVars,
           GlobalsOK, PoolOK, CallStatesOK, WireOK
  <2>2. ThreadsOK'
    <3>1. CASE NewCall(t, "C_Finalize", "lock")
      BY <1>3, <3>1
      DEF C_Finalize, NewCall, Goto, Yield, CallNos, Codes, Ops,
          Locations,
                        ThreadsOK
    <3>2. CASE Yield(t, "NOT_INITIALIZED") /\ UNCHANGED <<pc, op, call, ncalls>>
      BY <1>3, <3>2 DEF C_Finalize, Yield, Codes, ThreadsOK
    <3> QED
      BY <1>3, <3>1, <3>2 DEF C_Finalize
  <2> QED
    BY <2>1, <2>2
<1>4. ASSUME NEW t \in Threads, InitializeLocked(t) PROVE TypeOK'
  <2>1. PoolOK' /\ CallStatesOK' /\ WireOK'
    BY <1>4 DEF InitializeLocked, poolVars, csVars, wireVars,
           PoolOK, CallStatesOK, WireOK
  <2>2. GlobalsOK'
    BY <1>4 DEF InitializeLocked, globals, GlobalsOK, ThreadsOK
  <2>3. ThreadsOK'
    BY <1>4 DEF InitializeLocked, Goto, Yield, Codes, Locations, thrVars, ThreadsOK
  <2> QED
    BY <2>1, <2>2, <2>3
<1>5. ASSUME NEW t \in Threads, FinalizeLocked(t) PROVE TypeOK'
  <2>1. PoolOK' /\ CallStatesOK' /\ WireOK'
    BY <1>5 DEF FinalizeLocked, poolVars, csVars, wireVars,
           PoolOK, CallStatesOK, WireOK
  <2>2. GlobalsOK'
    BY <1>5 DEF FinalizeLocked, globals, GlobalsOK, ThreadsOK
  <2>3. ThreadsOK'
    BY <1>5 DEF FinalizeLocked, Goto, Locations, thrVars, ThreadsOK
  <2> QED
    BY <2>1, <2>2, <2>3
<1>6. ASSUME NEW t \in Threads, call_lookup(t) PROVE TypeOK'
  <2>1. GlobalsOK' /\ CallStatesOK' /\ WireOK'
    BY <1>6 DEF call_lookup, globals, csVars, wireVars,
           GlobalsOK, CallStatesOK, WireOK
  <2>2. PoolOK'
    <3>1. CASE pool # <<>>
      BY <1>6, <3>1, LastOfPool DEF call_lookup, PoolOK
    <3>2. CASE pool = <<>>
      BY <1>6, <3>2 DEF call_lookup, poolVars, PoolOK
    <3> QED
      BY <3>1, <3>2
  <2>3. ThreadsOK'
    <3>1. CASE pool # <<>>
      BY <1>6, <3>1, LastOfPool DEF call_lookup, Goto, Locations, ThreadsOK
    <3>2. CASE pool = <<>>
      BY <1>6, <3>2 DEF call_lookup, Goto, Locations, ThreadsOK
    <3> QED
      BY <3>1, <3>2
  <2> QED
    BY <2>1, <2>2, <2>3
<1>7. ASSUME NEW t \in Threads, call_connect_assert(t) PROVE TypeOK'
  <2>1. PoolOK' /\ CallStatesOK' /\ WireOK' /\ ThreadsOK'
    BY <1>7 DEF call_connect_assert, poolVars, csVars, wireVars, thrVars,
           PoolOK, CallStatesOK, WireOK, ThreadsOK
  <2>2. GlobalsOK'
    BY <1>7 DEF call_connect_assert, globals, GlobalsOK, ThreadsOK
  <2> QED
    BY <2>1, <2>2
<1>8. ASSUME NEW t \in Threads, call_connect_ok(t) PROVE TypeOK'
  <2>1. GlobalsOK' /\ PoolOK'
    BY <1>8 DEF call_connect_ok, globals, poolVars,
           GlobalsOK, PoolOK
  <2>2. CallStatesOK'
    BY <1>8
    DEF call_connect_ok, Statuses, CallStates, GlobalsOK, csVars,
        CallStatesOK
  <2>3. WireOK'
    BY <1>8 DEF call_connect_ok, CallStates, wireVars, WireOK
  <2>4. ThreadsOK'
    BY <1>8
    DEF call_connect_ok, Goto, CallStates, Locations, CallStatesOK, thrVars,
        ThreadsOK
  <2> QED
    BY <2>1, <2>2, <2>3, <2>4
<1>9. ASSUME NEW t \in Threads, call_connect_fail(t) PROVE TypeOK'
  <2>1. PoolOK'
    BY <1>9 DEF call_connect_fail, poolVars,
           PoolOK
  <2>2. GlobalsOK'
    BY <1>9 DEF call_connect_fail, Return, UnlockInit, globals, GlobalsOK, ThreadsOK
  <2>3. CallStatesOK'
    <3>1. CASE UNCHANGED <<csVars, srv>>
      BY <3>1 DEF csVars, CallStatesOK
    <3>2. CASE ~UNCHANGED <<csVars, srv>>
      <4>1. /\ nalloc < MaxConns
            /\ nalloc' = nalloc + 1
            /\ sock' = [sock EXCEPT ![nalloc + 1] = TRUE]
            /\ peer' = [peer EXCEPT ![nalloc + 1] = path]
            /\ UNCHANGED status
        BY <1>9, <3>2 DEF call_connect_fail
      <4> QED
        BY <4>1 DEF CallStatesOK, GlobalsOK, CallStates, Statuses
    <3> QED
      BY <3>1, <3>2
  <2>4. WireOK'
    BY <1>9 DEF call_connect_fail, CallStates, wireVars, WireOK
  <2>5. ThreadsOK'
    BY <1>9
    DEF call_connect_fail, Return, Goto, Yield, Codes, Locations, thrVars,
        ThreadsOK
  <2> QED
    BY <2>1, <2>2, <2>3, <2>4, <2>5
<1>10. ASSUME NEW t \in Threads, call_prepare(t) PROVE TypeOK'
  <2>1. GlobalsOK' /\ PoolOK' /\ WireOK'
    BY <1>10 DEF call_prepare, globals, poolVars, wireVars,
           GlobalsOK, PoolOK, WireOK
  <2>2. CallStatesOK'
    BY <1>10 DEF call_prepare, Statuses, csVars, CallStatesOK
  <2>3. ThreadsOK'
    BY <1>10
    DEF call_prepare, Fail, Goto, Yield, Codes, Locations, thrVars,
        ThreadsOK
  <2> QED
    BY <2>1, <2>2, <2>3
<1>11. ASSUME NEW t \in Threads, call_send(t) PROVE TypeOK'
  <2>0. cs[t] \in CallStates
    BY <1>11, HoldsOne DEF call_send, At, Holding
  <2>1. GlobalsOK' /\ PoolOK'
    BY <1>11 DEF call_send, globals, poolVars,
           GlobalsOK, PoolOK
  <2>2. CallStatesOK'
    BY <1>11 DEF call_send, Statuses, csVars, CallStatesOK
  <2>3. WireOK'
    <3>1. Append(toSrv[cs[t]], call[t]) \in Seq(CallNos)
      BY <2>0, AppendProperties DEF WireOK, ThreadsOK
    <3> QED
      BY <1>11, <3>1 DEF call_send, WireOK
  <2>4. ThreadsOK'
    BY <1>11 DEF call_send, Goto, Yield, Codes, Locations, thrVars, ThreadsOK
  <2> QED
    BY <2>1, <2>2, <2>3, <2>4
<1>12. ASSUME NEW t \in Threads, call_recv_len(t) PROVE TypeOK'
  <2>0. cs[t] \in CallStates
    BY <1>12, HoldsOne DEF call_recv_len, At, Holding
  <2>1. GlobalsOK' /\ PoolOK'
    BY <1>12 DEF call_recv_len, globals, poolVars,
           GlobalsOK, PoolOK
  <2>2. CallStatesOK'
    BY <1>12 DEF call_recv_len, RecvFails, csVars, CallStatesOK
  <2>3. WireOK'
    <3>1. toCli[cs[t]] # <<>> => Tail(toCli[cs[t]]) \in Seq(Units)
      BY <2>0, HeadTailProperties DEF WireOK
    <3> QED
      BY <1>12, <3>1 DEF call_recv_len, RecvFails, WireOK
  <2>4. ThreadsOK'
    <3>1. toCli[cs[t]] # <<>> => Head(toCli[cs[t]]) \in Units
      BY <2>0, HeadTailProperties DEF WireOK
    <3>2. resp' \in [Threads -> Units]
      BY <1>12, <3>1 DEF call_recv_len, RecvFails, ThreadsOK
    <3> QED
      BY <1>12, <3>2
      DEF call_recv_len, RecvFails, Goto, Yield, Codes, Locations,
          ThreadsOK
  <2> QED
    BY <2>1, <2>2, <2>3, <2>4
<1>13. ASSUME NEW t \in Threads, call_recv_body(t) PROVE TypeOK'
  <2>0. cs[t] \in CallStates
    BY <1>13, HoldsOne DEF call_recv_body, At, Holding
  <2>1. GlobalsOK' /\ PoolOK'
    BY <1>13 DEF call_recv_body, globals, poolVars,
           GlobalsOK, PoolOK
  <2>2. CallStatesOK'
    BY <1>13 DEF call_recv_body, RecvFails, csVars, CallStatesOK
  <2>3. WireOK'
    <3>1. toCli[cs[t]] # <<>> => Tail(toCli[cs[t]]) \in Seq(Units)
      BY <2>0, HeadTailProperties DEF WireOK
    <3> QED
      BY <1>13, <3>1 DEF call_recv_body, RecvFails, WireOK
  <2>4. ThreadsOK'
    <3>1. toCli[cs[t]] # <<>> => Head(toCli[cs[t]]) \in Units
      BY <2>0, HeadTailProperties DEF WireOK
    <3>2. resp' \in [Threads -> Units]
      BY <1>13, <3>1 DEF call_recv_body, RecvFails, ThreadsOK, Units, Kinds
    <3> QED
      BY <1>13, <3>2
      DEF call_recv_body, RecvFails, Goto, Yield, Codes, Locations,
          ThreadsOK
  <2> QED
    BY <2>1, <2>2, <2>3, <2>4
<1>14. ASSUME NEW t \in Threads, call_parse(t) PROVE TypeOK'
  <2>1. GlobalsOK' /\ PoolOK' /\ WireOK'
    BY <1>14 DEF call_parse, globals, poolVars, wireVars,
           GlobalsOK, PoolOK, WireOK
  <2>2. CallStatesOK'
    BY <1>14 DEF call_parse, Statuses, csVars, CallStatesOK
  <2>3. ThreadsOK'
    BY <1>14
    DEF call_parse, Outcomes, Fail, Goto, Yield, Codes, Locations, thrVars,
        ThreadsOK
  <2> QED
    BY <2>1, <2>2, <2>3
<1>15. ASSUME NEW t \in Threads, call_done(t) PROVE TypeOK'
  <2>0. cs[t] \in CallStates
    BY <1>15, HoldsOne DEF call_done, At, Holding
  <2>1. WireOK'
    BY <1>15 DEF call_done, wireVars,
           WireOK
  <2>2. GlobalsOK'
    BY <1>15 DEF call_done, Return, UnlockInit, globals, GlobalsOK, ThreadsOK
  <2>3. PoolOK'
    <3>1. Append(pool, cs[t]) \in Seq(CallStates)
      BY <2>0, AppendProperties DEF PoolOK
    <3>2. CASE pool' = Append(pool, cs[t]) /\ nPool' = nPool + 1
      BY <3>1, <3>2 DEF PoolOK
    <3>3. CASE UNCHANGED poolVars
      BY <3>3 DEF poolVars, PoolOK
    <3> QED
      BY <1>15, <3>2, <3>3 DEF call_done, Stash, call_destroy
  <2>4. CallStatesOK'
    BY <1>15 DEF call_done, Stash, call_destroy, Statuses, csVars, CallStatesOK
  <2>5. ThreadsOK'
    BY <1>15
    DEF call_done, Return, Goto, Yield, Codes, Locations, thrVars, ThreadsOK
  <2> QED
    BY <2>1, <2>2, <2>3, <2>4, <2>5
<1>16. ASSUME NEW c \in CallStates, Serve(c) PROVE TypeOK'
  <2>1. GlobalsOK' /\ PoolOK' /\ CallStatesOK' /\ ThreadsOK'
    BY <1>16 DEF Serve, globals, poolVars, csVars, thrVars,
           GlobalsOK, PoolOK, CallStatesOK, ThreadsOK
  <2>2. WireOK'
    <3>1. Head(toSrv[c]) \in CallNos /\ Tail(toSrv[c]) \in Seq(CallNos)
      BY <1>16, HeadTailProperties DEF Serve, WireOK
    <3>2. Append(executed, Head(toSrv[c])) \in Seq(CallNos)
      BY <3>1, AppendProperties DEF WireOK
    <3>3. ASSUME NEW k \in {"ok", "err", "deverr"}
          PROVE  LET n == Head(toSrv[c])
                 IN  toCli[c] \o << [part |-> "len",  of |-> n, kind |-> k],
                                    [part |-> "body", of |-> n, kind |-> k] >>
                       \in Seq(Units)
      <4> DEFINE n == Head(toSrv[c])
                 r == << [part |-> "len",  of |-> n, kind |-> k],
                         [part |-> "body", of |-> n, kind |-> k] >>
      <4>1. r \in Seq(Units)
        BY <3>1 DEF Units, Kinds
      <4>2. toCli[c] \in Seq(Units)
        BY DEF WireOK
      <4> QED
        BY <4>1, <4>2, ConcatProperties
    <3> QED
      BY <1>16, <3>1, <3>2, <3>3 DEF Serve, WireOK
  <2> QED
    BY <2>1, <2>2
<1>17. ASSUME NEW c \in CallStates, DaemonCloses(c) PROVE TypeOK'
  <2>1. GlobalsOK' /\ PoolOK' /\ CallStatesOK' /\ ThreadsOK'
    BY <1>17 DEF DaemonCloses, globals, poolVars, csVars, thrVars,
           GlobalsOK, PoolOK, CallStatesOK, ThreadsOK
  <2>2. WireOK'
    BY <1>17 DEF DaemonCloses, wireVars, WireOK
  <2> QED
    BY <2>1, <2>2
<1>18. CASE UNCHANGED vars
  BY <1>18 DEF vars, globals, poolVars, csVars, wireVars, thrVars,
    GlobalsOK, PoolOK, CallStatesOK, WireOK, ThreadsOK
<1> QED
  BY <1>1, <1>2, <1>3, <1>4, <1>5, <1>6, <1>7, <1>8, <1>9, <1>10, <1>11,
     <1>12, <1>13, <1>14, <1>15, <1>16, <1>17, <1>18
  DEF Next, Application, Progress

-----------------------------------------------------------------------------
\* Steps that leave the pool and the threads' CallStates alone, and move no
\* thread into or out of the region between call_lookup and call_done.
LEMMA ExclusiveFrame ==
  ASSUME TypeOK, ExclusiveUse,
         UNCHANGED <<pool, nPool, nalloc, cs>>,
         \A t \in Threads : pc'[t] \in Holding <=> pc[t] \in Holding
  PROVE  ExclusiveUse'
  BY DEF ExclusiveUse, PoolCounted, PooledOnce, HeldByOne

\* The empty pool is consistent.
LEMMA ExclusiveInit == Init => ExclusiveUse
  BY CallPoolAssumption, EmptySeq
  DEF Init, ExclusiveUse, PoolCounted, PooledOnce, HeldByOne, Holding

\* call_lookup and call_done hand a CallState over between the pool and one
\* thread; no other step moves one.
LEMMA ExclusiveStep == TypeOK /\ ExclusiveUse /\ [Next]_vars => ExclusiveUse'
<1> SUFFICES ASSUME TypeOK, ExclusiveUse, [Next]_vars PROVE ExclusiveUse'
  OBVIOUS
<1> USE CallPoolAssumption
<1>1. ASSUME NEW t \in Threads, BeginCall(t) PROVE ExclusiveUse'
  <2>1. UNCHANGED <<pool, nPool, nalloc, cs>>
    BY <1>1 DEF BeginCall, poolVars, csVars, thrVars
  <2>2. \A u \in Threads : pc'[u] \in Holding <=> pc[u] \in Holding
    BY <1>1 DEF BeginCall, At, NewCall, Goto, Yield, Holding, TypeOK, ThreadsOK
  <2> QED
    BY <2>1, <2>2, ExclusiveFrame
<1>2. ASSUME NEW t \in Threads, C_Initialize(t) PROVE ExclusiveUse'
  <2>1. UNCHANGED <<pool, nPool, nalloc, cs>>
    BY <1>2 DEF C_Initialize, poolVars, csVars, thrVars
  <2>2. \A u \in Threads : pc'[u] \in Holding <=> pc[u] \in Holding
    BY <1>2 DEF C_Initialize, At, NewCall, Goto, Holding, TypeOK, ThreadsOK
  <2> QED
    BY <2>1, <2>2, ExclusiveFrame
<1>3. ASSUME NEW t \in Threads, C_Finalize(t) PROVE ExclusiveUse'
  <2>1. UNCHANGED <<pool, nPool, nalloc, cs>>
    BY <1>3 DEF C_Finalize, poolVars, csVars, thrVars
  <2>2. \A u \in Threads : pc'[u] \in Holding <=> pc[u] \in Holding
    BY <1>3 DEF C_Finalize, At, NewCall, Goto, Holding, TypeOK, ThreadsOK
  <2> QED
    BY <2>1, <2>2, ExclusiveFrame
<1>4. ASSUME NEW t \in Threads, InitializeLocked(t) PROVE ExclusiveUse'
  <2>1. UNCHANGED <<pool, nPool, nalloc, cs>>
    BY <1>4 DEF InitializeLocked, poolVars, csVars, thrVars
  <2>2. \A u \in Threads : pc'[u] \in Holding <=> pc[u] \in Holding
    BY <1>4 DEF InitializeLocked, At, Goto, Holding, TypeOK, ThreadsOK
  <2> QED
    BY <2>1, <2>2, ExclusiveFrame
<1>5. ASSUME NEW t \in Threads, FinalizeLocked(t) PROVE ExclusiveUse'
  <2>1. UNCHANGED <<pool, nPool, nalloc, cs>>
    BY <1>5 DEF FinalizeLocked, poolVars, csVars, thrVars
  <2>2. \A u \in Threads : pc'[u] \in Holding <=> pc[u] \in Holding
    BY <1>5 DEF FinalizeLocked, At, Goto, Holding, TypeOK, ThreadsOK
  <2> QED
    BY <2>1, <2>2, ExclusiveFrame
<1>6. ASSUME NEW t \in Threads, call_connect_assert(t) PROVE ExclusiveUse'
  <2>1. UNCHANGED <<pool, nPool, nalloc, cs>>
    BY <1>6 DEF call_connect_assert, poolVars, csVars, thrVars
  <2>2. \A u \in Threads : pc'[u] \in Holding <=> pc[u] \in Holding
    BY <1>6 DEF call_connect_assert, thrVars, Holding, TypeOK, ThreadsOK
  <2> QED
    BY <2>1, <2>2, ExclusiveFrame
<1>7. ASSUME NEW t \in Threads, call_prepare(t) PROVE ExclusiveUse'
  <2>1. UNCHANGED <<pool, nPool, nalloc, cs>>
    BY <1>7 DEF call_prepare, poolVars, csVars, thrVars
  <2>2. \A u \in Threads : pc'[u] \in Holding <=> pc[u] \in Holding
    BY <1>7 DEF call_prepare, At, Goto, Fail, Holding, TypeOK, ThreadsOK
  <2> QED
    BY <2>1, <2>2, ExclusiveFrame
<1>8. ASSUME NEW t \in Threads, call_send(t) PROVE ExclusiveUse'
  <2>1. UNCHANGED <<pool, nPool, nalloc, cs>>
    BY <1>8 DEF call_send, poolVars, csVars, thrVars
  <2>2. \A u \in Threads : pc'[u] \in Holding <=> pc[u] \in Holding
    BY <1>8 DEF call_send, At, Goto, Holding, TypeOK, ThreadsOK
  <2> QED
    BY <2>1, <2>2, ExclusiveFrame
<1>9. ASSUME NEW t \in Threads, call_recv_len(t) PROVE ExclusiveUse'
  <2>1. UNCHANGED <<pool, nPool, nalloc, cs>>
    BY <1>9 DEF call_recv_len, poolVars, csVars, thrVars
  <2>2. \A u \in Threads : pc'[u] \in Holding <=> pc[u] \in Holding
    BY <1>9 DEF call_recv_len, At, Goto, RecvFails, Holding, TypeOK, ThreadsOK
  <2> QED
    BY <2>1, <2>2, ExclusiveFrame
<1>10. ASSUME NEW t \in Threads, call_recv_body(t) PROVE ExclusiveUse'
  <2>1. UNCHANGED <<pool, nPool, nalloc, cs>>
    BY <1>10 DEF call_recv_body, poolVars, csVars, thrVars
  <2>2. \A u \in Threads : pc'[u] \in Holding <=> pc[u] \in Holding
    BY <1>10 DEF call_recv_body, At, Goto, RecvFails, Holding, TypeOK, ThreadsOK
  <2> QED
    BY <2>1, <2>2, ExclusiveFrame
<1>11. ASSUME NEW t \in Threads, call_parse(t) PROVE ExclusiveUse'
  <2>1. UNCHANGED <<pool, nPool, nalloc, cs>>
    BY <1>11 DEF call_parse, poolVars, csVars, thrVars
  <2>2. \A u \in Threads : pc'[u] \in Holding <=> pc[u] \in Holding
    BY <1>11 DEF call_parse, At, Goto, Fail, Holding, TypeOK, ThreadsOK
  <2> QED
    BY <2>1, <2>2, ExclusiveFrame
<1>12. ASSUME NEW t \in Threads, call_lookup(t) PROVE ExclusiveUse'
  <2>1. CASE pool # <<>>
    <3> DEFINE c == pool[Len(pool)]
               rest == SubSeq(pool, 1, Len(pool) - 1)
    <3>1. /\ pool' = rest /\ nPool' = nPool - 1 /\ nalloc' = nalloc
          /\ cs' = [cs EXCEPT ![t] = c] /\ pc' = [pc EXCEPT ![t] = "prepare"]
      BY <1>12, <2>1 DEF call_lookup, Goto, csVars
    <3>2. /\ Len(pool) \in Nat \ {0} /\ DOMAIN pool = 1 .. Len(pool)
          /\ DOMAIN rest = 1 .. Len(pool) - 1 /\ Len(rest) = Len(pool) - 1
          /\ \A i \in 1 .. Len(pool) - 1 : rest[i] = pool[i]
          /\ c \in CallStates /\ c # 0
      BY <2>1, LastOfPool DEF CallStates
    <3> HIDE DEF c, rest
    <3>3. PoolCounted'
      BY <3>1, <3>2 DEF ExclusiveUse, PoolCounted
    <3>4. PooledOnce'
      BY <3>1, <3>2 DEF ExclusiveUse, PooledOnce
    <3>5. \A i \in DOMAIN rest : rest[i] # c /\ c <= nalloc
      BY <3>2 DEF ExclusiveUse, PooledOnce, c
    <3>6. \A u \in Threads : cs[u] # c /\ c <= nalloc
      BY <3>2 DEF ExclusiveUse, PooledOnce, HeldByOne, c
    <3>7. HeldByOne'
      BY <3>1, <3>2, <3>5, <3>6
      DEF ExclusiveUse, HeldByOne, Holding, TypeOK, ThreadsOK
    <3> QED
      BY <3>3, <3>4, <3>7 DEF ExclusiveUse
  <2>2. CASE pool = <<>>
    <3>1. UNCHANGED <<pool, nPool, nalloc, cs>>
      BY <1>12, <2>2 DEF call_lookup, poolVars, csVars
    <3>2. \A u \in Threads : pc'[u] \in Holding <=> pc[u] \in Holding
      BY <1>12, <2>2 DEF call_lookup, At, Goto, Holding, TypeOK, ThreadsOK
    <3> QED
      BY <3>1, <3>2, ExclusiveFrame
  <2> QED
    BY <2>1, <2>2
<1>13. ASSUME NEW t \in Threads, call_connect_ok(t) PROVE ExclusiveUse'
  <2>1. /\ UNCHANGED <<pool, nPool>> /\ nalloc' = nalloc + 1
        /\ cs' = [cs EXCEPT ![t] = nalloc + 1]
        /\ pc' = [pc EXCEPT ![t] = "prepare"]
    BY <1>13 DEF call_connect_ok, Goto, poolVars
  <2>2. nalloc \in Nat /\ (\A i \in DOMAIN pool : pool[i] \in Int /\ pool[i] <= nalloc)
    BY LenProperties
    DEF TypeOK, CallStatesOK, PoolOK, CallStates, ExclusiveUse, PooledOnce
  <2>3. \A u \in Threads : cs[u] \in Int /\ cs[u] <= nalloc
    BY DEF TypeOK, ThreadsOK, CallStates, ExclusiveUse, HeldByOne
  <2>4. PoolCounted' /\ PooledOnce'
    BY <2>1, <2>2 DEF ExclusiveUse, PoolCounted, PooledOnce
  <2>5. HeldByOne'
    BY <2>1, <2>2, <2>3 DEF ExclusiveUse, HeldByOne, Holding, TypeOK, ThreadsOK
  <2> QED
    BY <2>4, <2>5 DEF ExclusiveUse
<1>14. ASSUME NEW t \in Threads, call_connect_fail(t) PROVE ExclusiveUse'
  <2>1. UNCHANGED <<pool, nPool, cs>> /\ nalloc' \in {nalloc, nalloc + 1}
    BY <1>14 DEF call_connect_fail, poolVars, csVars
  <2>2. \A u \in Threads : pc'[u] \in Holding <=> pc[u] \in Holding
    BY <1>14 DEF call_connect_fail, Return, At, Goto, Holding, TypeOK, ThreadsOK
  <2>3. nalloc \in Nat /\ (\A i \in DOMAIN pool : pool[i] \in Int /\ pool[i] <= nalloc)
    BY LenProperties
    DEF TypeOK, CallStatesOK, PoolOK, CallStates, ExclusiveUse, PooledOnce
  <2>4. \A u \in Threads : cs[u] \in Int /\ cs[u] <= nalloc
    BY DEF TypeOK, ThreadsOK, CallStates, ExclusiveUse, HeldByOne
  <2> QED
    BY <2>1, <2>2, <2>3, <2>4
    DEF ExclusiveUse, PoolCounted, PooledOnce, HeldByOne
<1>15. ASSUME NEW t \in Threads, call_done(t) PROVE ExclusiveUse'
  <2> DEFINE c == cs[t]
  <2>1. c \in CallStates /\ c # 0
    BY <1>15, HoldsOne DEF call_done, At, Holding, CallStates
  <2>2. /\ nalloc' = nalloc /\ cs' = [cs EXCEPT ![t] = 0]
        /\ pc' = [pc EXCEPT ![t] = "idle"]
    BY <1>15 DEF call_done, Return, Goto
  <2>3. 0 <= nalloc /\ pool \in Seq(CallStates)
    BY DEF TypeOK, CallStatesOK, PoolOK
  <2>4. CASE pool' = Append(pool, c) /\ nPool' = nPool + 1 /\ nPool < MaxPool
    <3>1. /\ Len(pool) \in Nat /\ DOMAIN pool = 1 .. Len(pool)
          /\ Len(pool') = Len(pool) + 1 /\ DOMAIN pool' = 1 .. Len(pool) + 1
          /\ \A i \in 1 .. Len(pool) : pool'[i] = pool[i]
          /\ pool'[Len(pool) + 1] = c
      BY <2>1, <2>3, <2>4, AppendProperties, LenProperties
    <3>2. \A i \in DOMAIN pool : pool[i] # c /\ pool[i] # 0
      BY <2>3, LenProperties DEF ExclusiveUse, HeldByOne, CallStates
    <3>3. c <= nalloc
      BY DEF ExclusiveUse, HeldByOne
    <3>4. PoolCounted'
      BY <2>4, <3>1 DEF ExclusiveUse, PoolCounted, TypeOK, PoolOK
    <3>5. PooledOnce'
      BY <2>2, <3>1, <3>2, <3>3 DEF ExclusiveUse, PooledOnce
    <3>6. HeldByOne'
      BY <2>1, <2>2, <2>3, <3>1, <3>2
      DEF ExclusiveUse, HeldByOne, Holding, TypeOK, ThreadsOK
    <3> QED
      BY <3>4, <3>5, <3>6 DEF ExclusiveUse
  <2>5. CASE UNCHANGED poolVars
    <3>1. \A i \in DOMAIN pool : pool[i] # 0
      BY <2>3, LenProperties DEF CallStates
    <3> QED
      BY <2>1, <2>2, <2>3, <2>5, <3>1
      DEF ExclusiveUse, PoolCounted, PooledOnce, HeldByOne, Holding, TypeOK,
          ThreadsOK, poolVars
  <2> QED
    BY <1>15, <2>4, <2>5 DEF call_done, Poolable, Stash, call_destroy
<1>16. ASSUME NEW c \in CallStates, Serve(c) \/ DaemonCloses(c) PROVE ExclusiveUse'
  BY <1>16, ExclusiveFrame DEF Serve, DaemonCloses, poolVars, csVars, thrVars
<1>17. CASE UNCHANGED vars
  BY <1>17, ExclusiveFrame DEF vars, poolVars, csVars, thrVars
<1> QED
  BY <1>1, <1>2, <1>3, <1>4, <1>5, <1>6, <1>7, <1>8, <1>9, <1>10, <1>11, <1>12,
     <1>13, <1>14, <1>15, <1>16, <1>17
  DEF Next, Application, Progress

-----------------------------------------------------------------------------
\* Steps of threads that hold no CallState.
LEMMA StatusFrame ==
  ASSUME TypeOK, CallStatusAsserts,
         UNCHANGED <<pool, status, sock, cs>>,
         \A u \in Threads : pc'[u] = pc[u] \/ pc'[u] \notin Holding
  PROVE  CallStatusAsserts'
  BY DEF CallStatusAsserts, PooledReady, Asserted, Holding

\* Steps of a thread that only touch the CallState it holds.
LEMMA StatusOwn ==
  ASSUME TypeOK, ExclusiveUse, CallStatusAsserts,
         NEW t \in Threads, pc[t] \in Holding,
         UNCHANGED <<pool, cs>>,
         \A u \in Threads \ {t} : pc'[u] = pc[u],
         \A c \in CallStates \ {cs[t]} : status'[c] = status[c] /\ sock'[c] = sock[c],
         Asserted(pc[t], cs[t])'
  PROVE  CallStatusAsserts'
<1>1. pool \in Seq(CallStates)
  BY DEF TypeOK, PoolOK
<1>2. \A i \in DOMAIN pool : pool[i] \in CallStates \ {cs[t]}
  BY <1>1, LenProperties DEF ExclusiveUse, HeldByOne
<1>3. PooledReady'
  BY <1>2 DEF CallStatusAsserts, PooledReady
<1>4. ASSUME NEW u \in Threads PROVE Asserted(pc[u], cs[u])'
  <2>1. CASE u = t
    BY <2>1
  <2>2. CASE u # t /\ pc[u] \in Holding
    <3>1. cs[u] \in CallStates \ {cs[t]}
      BY <2>2, HoldsOne DEF ExclusiveUse, HeldByOne
    <3> QED
      BY <2>2, <3>1 DEF CallStatusAsserts, Asserted
  <2>3. CASE u # t /\ pc[u] \notin Holding
    BY <2>3 DEF Asserted, Holding
  <2> QED
    BY <2>1, <2>2, <2>3
<1> QED
  BY <1>3, <1>4 DEF CallStatusAsserts

\* No CallState exists at first.
LEMMA StatusInit == Init => CallStatusAsserts
  BY EmptySeq DEF Init, CallStatusAsserts, PooledReady, Asserted

\* Every assertion on call_status and socket survives every step of every
\* thread.
LEMMA StatusStep ==
  TypeOK /\ ExclusiveUse /\ CallStatusAsserts /\ [Next]_vars => CallStatusAsserts'
<1> SUFFICES ASSUME TypeOK, ExclusiveUse, CallStatusAsserts, [Next]_vars
             PROVE  CallStatusAsserts'
  OBVIOUS
<1> USE CallPoolAssumption
<1>1. ASSUME NEW t \in Threads, BeginCall(t) PROVE CallStatusAsserts'
  <2>1. UNCHANGED <<pool, status, sock, cs>>
    BY <1>1 DEF BeginCall, poolVars, csVars, thrVars
  <2>2. \A u \in Threads : pc'[u] = pc[u] \/ pc'[u] \notin Holding
    BY <1>1 DEF BeginCall, At, NewCall, Goto, Yield, Holding, TypeOK, ThreadsOK
  <2> QED
    BY <2>1, <2>2, StatusFrame
<1>2. ASSUME NEW t \in Threads, C_Initialize(t) PROVE CallStatusAsserts'
  <2>1. UNCHANGED <<pool, status, sock, cs>>
    BY <1>2 DEF C_Initialize, poolVars, csVars, thrVars
  <2>2. \A u \in Threads : pc'[u] = pc[u] \/ pc'[u] \notin Holding
    BY <1>2 DEF C_Initialize, At, NewCall, Goto, Holding, TypeOK, ThreadsOK
  <2> QED
    BY <2>1, <2>2, StatusFrame
<1>3. ASSUME NEW t \in Threads, C_Finalize(t) PROVE CallStatusAsserts'
  <2>1. UNCHANGED <<pool, status, sock, cs>>
    BY <1>3 DEF C_Finalize, poolVars, csVars, thrVars
  <2>2. \A u \in Threads : pc'[u] = pc[u] \/ pc'[u] \notin Holding
    BY <1>3 DEF C_Finalize, At, NewCall, Goto, Holding, TypeOK, ThreadsOK
  <2> QED
    BY <2>1, <2>2, StatusFrame
<1>4. ASSUME NEW t \in Threads, InitializeLocked(t) PROVE CallStatusAsserts'
  <2>1. UNCHANGED <<pool, status, sock, cs>>
    BY <1>4 DEF InitializeLocked, poolVars, csVars, thrVars
  <2>2. \A u \in Threads : pc'[u] = pc[u] \/ pc'[u] \notin Holding
    BY <1>4 DEF InitializeLocked, At, Goto, Holding, TypeOK, ThreadsOK
  <2> QED
    BY <2>1, <2>2, StatusFrame
<1>5. ASSUME NEW t \in Threads, FinalizeLocked(t) PROVE CallStatusAsserts'
  <2>1. UNCHANGED <<pool, status, sock, cs>>
    BY <1>5 DEF FinalizeLocked, poolVars, csVars, thrVars
  <2>2. \A u \in Threads : pc'[u] = pc[u] \/ pc'[u] \notin Holding
    BY <1>5 DEF FinalizeLocked, At, Goto, Holding, TypeOK, ThreadsOK
  <2> QED
    BY <2>1, <2>2, StatusFrame
<1>6. ASSUME NEW t \in Threads, call_connect_assert(t) PROVE CallStatusAsserts'
  <2>1. UNCHANGED <<pool, status, sock, cs>>
    BY <1>6 DEF call_connect_assert, poolVars, csVars, thrVars
  <2>2. \A u \in Threads : pc'[u] = pc[u] \/ pc'[u] \notin Holding
    BY <1>6 DEF call_connect_assert, thrVars, Holding, TypeOK, ThreadsOK
  <2> QED
    BY <2>1, <2>2, StatusFrame
<1>7. ASSUME NEW t \in Threads, call_prepare(t) PROVE CallStatusAsserts'
  <2>1. pc[t] \in Holding /\ UNCHANGED <<pool, cs>>
    BY <1>7 DEF call_prepare, At, Holding, poolVars
  <2>2. cs[t] \in CallStates
    BY <2>1, HoldsOne
  <2>3. \A u \in Threads \ {t} : pc'[u] = pc[u]
    BY <1>7 DEF call_prepare, Goto, Fail, csVars, TypeOK, ThreadsOK
  <2>4. \A c \in CallStates \ {cs[t]} : status'[c] = status[c] /\ sock'[c] = sock[c]
    BY <1>7 DEF call_prepare, Goto, Fail, csVars, TypeOK, CallStatesOK
  <2>5. Asserted(pc[t], cs[t])'
    BY <1>7, <2>1, <2>2
   
    DEF call_prepare, At, Goto, Fail, csVars, CallStatusAsserts, Asserted,
        TypeOK, ThreadsOK, CallStatesOK
  <2> QED
    BY <2>1, <2>3, <2>4, <2>5, StatusOwn
<1>8. ASSUME NEW t \in Threads, call_send(t) PROVE CallStatusAsserts'
  <2>1. pc[t] \in Holding /\ UNCHANGED <<pool, cs>>
    BY <1>8 DEF call_send, At, Holding, poolVars
  <2>2. cs[t] \in CallStates
    BY <2>1, HoldsOne
  <2>3. \A u \in Threads \ {t} : pc'[u] = pc[u]
    BY <1>8 DEF call_send, Goto, csVars, TypeOK, ThreadsOK
  <2>4. \A c \in CallStates \ {cs[t]} : status'[c] = status[c] /\ sock'[c] = sock[c]
    BY <1>8 DEF call_send, Goto, csVars, TypeOK, CallStatesOK
  <2>5. Asserted(pc[t], cs[t])'
    BY <1>8, <2>1, <2>2
   
    DEF call_send, At, Goto, csVars, CallStatusAsserts, Asserted, TypeOK,
        ThreadsOK, CallStatesOK
  <2> QED
    BY <2>1, <2>3, <2>4, <2>5, StatusOwn
<1>9. ASSUME NEW t \in Threads, call_recv_len(t) PROVE CallStatusAsserts'
  <2>1. pc[t] \in Holding /\ UNCHANGED <<pool, cs>>
    BY <1>9 DEF call_recv_len, At, Holding, poolVars
  <2>2. cs[t] \in CallStates
    BY <2>1, HoldsOne
  <2>3. \A u \in Threads \ {t} : pc'[u] = pc[u]
    BY <1>9 DEF call_recv_len, Goto, RecvFails, TypeOK, ThreadsOK
  <2>4. \A c \in CallStates \ {cs[t]} : status'[c] = status[c] /\ sock'[c] = sock[c]
    BY <1>9 DEF call_recv_len, Goto, RecvFails, TypeOK, CallStatesOK
  <2>5. Asserted(pc[t], cs[t])'
    BY <1>9, <2>1, <2>2
   
    DEF call_recv_len, At, Goto, RecvFails, CallStatusAsserts, Asserted,
        TypeOK, ThreadsOK, CallStatesOK
  <2> QED
    BY <2>1, <2>3, <2>4, <2>5, StatusOwn
<1>10. ASSUME NEW t \in Threads, call_recv_body(t) PROVE CallStatusAsserts'
  <2>1. pc[t] \in Holding /\ UNCHANGED <<pool, cs>>
    BY <1>10 DEF call_recv_body, At, Holding, poolVars
  <2>2. cs[t] \in CallStates
    BY <2>1, HoldsOne
  <2>3. \A u \in Threads \ {t} : pc'[u] = pc[u]
    BY <1>10 DEF call_recv_body, Goto, RecvFails, TypeOK, ThreadsOK
  <2>4. \A c \in CallStates \ {cs[t]} : status'[c] = status[c] /\ sock'[c] = sock[c]
    BY <1>10 DEF call_recv_body, Goto, RecvFails, TypeOK, CallStatesOK
  <2>5. Asserted(pc[t], cs[t])'
    BY <1>10, <2>1, <2>2
   
    DEF call_recv_body, At, Goto, RecvFails, CallStatusAsserts, Asserted,
        TypeOK, ThreadsOK, CallStatesOK
  <2> QED
    BY <2>1, <2>3, <2>4, <2>5, StatusOwn
<1>11. ASSUME NEW t \in Threads, call_parse(t) PROVE CallStatusAsserts'
  <2>1. pc[t] \in Holding /\ UNCHANGED <<pool, cs>>
    BY <1>11 DEF call_parse, At, Holding, poolVars
  <2>2. cs[t] \in CallStates
    BY <2>1, HoldsOne
  <2>3. \A u \in Threads \ {t} : pc'[u] = pc[u]
    BY <1>11 DEF call_parse, Goto, Fail, TypeOK, ThreadsOK
  <2>4. \A c \in CallStates \ {cs[t]} : status'[c] = status[c] /\ sock'[c] = sock[c]
    BY <1>11 DEF call_parse, Goto, Fail, TypeOK, CallStatesOK
  <2>5. Asserted(pc[t], cs[t])'
    BY <1>11, <2>1, <2>2
   
    DEF call_parse, At, Goto, Fail, CallStatusAsserts, Asserted, TypeOK,
        ThreadsOK, CallStatesOK
  <2> QED
    BY <2>1, <2>3, <2>4, <2>5, StatusOwn
<1>12. ASSUME NEW t \in Threads, call_lookup(t) PROVE CallStatusAsserts'
  <2>1. CASE pool # <<>>
    <3> DEFINE c == pool[Len(pool)]
               rest == SubSeq(pool, 1, Len(pool) - 1)
    <3>1. /\ pool' = rest /\ UNCHANGED <<status, sock>>
          /\ cs' = [cs EXCEPT ![t] = c] /\ pc' = [pc EXCEPT ![t] = "prepare"]
      BY <1>12, <2>1 DEF call_lookup, Goto, csVars
    <3>2. /\ Len(pool) \in Nat \ {0} /\ DOMAIN pool = 1 .. Len(pool)
          /\ DOMAIN rest = 1 .. Len(pool) - 1
          /\ \A i \in 1 .. Len(pool) - 1 : rest[i] = pool[i]
      BY <2>1, LastOfPool
    <3>3. PooledReady'
      BY <3>1, <3>2 DEF CallStatusAsserts, PooledReady
    <3>4. status[c] = "READY" /\ sock[c] = TRUE
      BY <3>2 DEF CallStatusAsserts, PooledReady
    <3>5. \A u \in Threads : Asserted(pc[u], cs[u])'
      BY <3>1, <3>4 DEF CallStatusAsserts, Asserted, TypeOK, ThreadsOK
    <3> QED
      BY <3>3, <3>5 DEF CallStatusAsserts
  <2>2. CASE pool = <<>>
    <3>1. UNCHANGED <<pool, status, sock, cs>>
      BY <1>12, <2>2 DEF call_lookup, poolVars, csVars
    <3>2. \A u \in Threads : pc'[u] = pc[u] \/ pc'[u] \notin Holding
      BY <1>12, <2>2 DEF call_lookup, Goto, Holding, TypeOK, ThreadsOK
    <3> QED
      BY <3>1, <3>2, StatusFrame
  <2> QED
    BY <2>1, <2>2
<1>13. ASSUME NEW t \in Threads, call_connect_ok(t) PROVE CallStatusAsserts'
  <2> DEFINE c == nalloc + 1
  <2>1. /\ pool' = pool /\ cs' = [cs EXCEPT ![t] = c]
        /\ pc' = [pc EXCEPT ![t] = "prepare"]
        /\ status' = [status EXCEPT ![c] = "READY"]
        /\ sock' = [sock EXCEPT ![c] = TRUE]
        /\ c \in CallStates
    BY <1>13 DEF call_connect_ok, Goto, poolVars, CallStates, TypeOK, CallStatesOK
  <2>2. \A i \in DOMAIN pool : pool[i] # c
    BY LenProperties
    DEF TypeOK, CallStatesOK, PoolOK, CallStates, ExclusiveUse, PooledOnce
  <2>3. \A u \in Threads : cs[u] # c
    BY DEF TypeOK, CallStatesOK, ThreadsOK, CallStates, ExclusiveUse, HeldByOne
  <2> HIDE DEF c
  <2>4. PooledReady'
    BY <2>1, <2>2 DEF CallStatusAsserts, PooledReady, TypeOK, CallStatesOK
  <2>5. ASSUME NEW u \in Threads PROVE Asserted(pc[u], cs[u])'
    BY <2>1, <2>3
    DEF CallStatusAsserts, Asserted, TypeOK, ThreadsOK, CallStatesOK
  <2> QED
    BY <2>4, <2>5 DEF CallStatusAsserts
<1>14. ASSUME NEW t \in Threads, call_connect_fail(t) PROVE CallStatusAsserts'
  <2> DEFINE c == nalloc + 1
  <2>1. /\ UNCHANGED <<pool, cs, status>> /\ pc' = [pc EXCEPT ![t] = "idle"]
        /\ sock' = sock \/ sock' = [sock EXCEPT ![c] = TRUE]
    BY <1>14 DEF call_connect_fail, Return, Goto, poolVars, csVars
  <2> HIDE DEF c
  <2>2. \A d \in CallStates : sock[d] = TRUE => sock'[d] = TRUE
    BY <2>1 DEF TypeOK, CallStatesOK
  <2>3. PooledReady'
    BY <2>1, <2>2, LenProperties DEF CallStatusAsserts, PooledReady, TypeOK, PoolOK
  <2>4. ASSUME NEW u \in Threads PROVE Asserted(pc[u], cs[u])'
    <3>1. CASE u # t /\ pc[u] \in Holding
      BY <2>1, <2>2, <3>1, HoldsOne
      DEF CallStatusAsserts, Asserted, TypeOK, ThreadsOK
    <3>2. CASE u = t \/ pc[u] \notin Holding
      BY <2>1, <3>2 DEF Asserted, Holding, TypeOK, ThreadsOK
    <3> QED
      BY <3>1, <3>2
  <2> QED
    BY <2>3, <2>4 DEF CallStatusAsserts
<1>15. ASSUME NEW t \in Threads, call_done(t) PROVE CallStatusAsserts'
  <2> DEFINE c == cs[t]
  <2>1. c \in CallStates /\ pc[t] \in Holding
    BY <1>15, HoldsOne DEF call_done, At, Holding
  <2>2. cs' = [cs EXCEPT ![t] = 0] /\ pc' = [pc EXCEPT ![t] = "idle"]
    BY <1>15 DEF call_done, Return, Goto
  <2>3. \A d \in CallStates \ {c} : status'[d] = status[d] /\ sock'[d] = sock[d]
    BY <1>15 DEF call_done, Stash, call_destroy, TypeOK, CallStatesOK
  <2>4. pool \in Seq(CallStates) /\ \A i \in DOMAIN pool : pool[i] \in CallStates \ {c}
    BY LenProperties DEF TypeOK, PoolOK, ExclusiveUse, HeldByOne
  <2>5. PooledReady'
    <3>1. CASE /\ pool' = Append(pool, c) /\ sock' = sock /\ sock[c]
               /\ status' = [status EXCEPT ![c] = "READY"]
      <4>1. sock[c] = TRUE
        BY <2>1, <3>1 DEF TypeOK, CallStatesOK
      <4>2. /\ DOMAIN pool = 1 .. Len(pool) /\ Len(pool) \in Nat
            /\ DOMAIN pool' = 1 .. Len(pool) + 1
            /\ \A i \in 1 .. Len(pool) : pool'[i] = pool[i]
            /\ pool'[Len(pool) + 1] = c
        BY <2>1, <2>4, <3>1, AppendProperties, LenProperties
      <4>3. status'[c] = "READY"
        BY <2>1, <3>1 DEF TypeOK, CallStatesOK
      <4>4. ASSUME NEW i \in DOMAIN pool'
            PROVE  status'[pool'[i]] = "READY" /\ sock'[pool'[i]] = TRUE
        <5>1. CASE i \in DOMAIN pool
          BY <2>3, <2>4, <4>2, <5>1 DEF CallStatusAsserts, PooledReady
        <5>2. CASE i = Len(pool) + 1
          BY <3>1, <4>1, <4>2, <4>3, <5>2
        <5>3. i \in 1 .. Len(pool) + 1 /\ Len(pool) \in Nat
          BY <4>2
        <5>4. i \in 1 .. Len(pool) \/ i = Len(pool) + 1
          BY <5>3
        <5> QED
          BY <4>2, <5>1, <5>2, <5>4
      <4> QED
        BY <4>4 DEF PooledReady
    <3>2. CASE UNCHANGED poolVars
      BY <2>3, <2>4, <3>2 DEF poolVars, CallStatusAsserts, PooledReady
    <3> QED
      BY <1>15, <3>1, <3>2 DEF call_done, Poolable, Stash, call_destroy
  <2>6. ASSUME NEW u \in Threads PROVE Asserted(pc[u], cs[u])'
    <3>1. CASE u # t /\ pc[u] \in Holding
      <4>1. cs[u] \in CallStates \ {c}
        BY <3>1, <2>1, HoldsOne DEF ExclusiveUse, HeldByOne
      <4>2. cs'[u] = cs[u] /\ pc'[u] = pc[u]
        BY <2>2, <3>1 DEF TypeOK, ThreadsOK
      <4> QED
        BY <2>3, <4>1, <4>2 DEF CallStatusAsserts, Asserted
    <3>2. CASE u = t \/ pc[u] \notin Holding
      BY <2>2, <3>2 DEF Asserted, Holding, TypeOK, ThreadsOK
    <3> QED
      BY <3>1, <3>2
  <2> QED
    BY <2>5, <2>6 DEF CallStatusAsserts
<1>16. ASSUME NEW c \in CallStates, Serve(c) \/ DaemonCloses(c)
       PROVE  CallStatusAsserts'
  BY <1>16, StatusFrame DEF Serve, DaemonCloses, poolVars, csVars, thrVars
<1>17. CASE UNCHANGED vars
  BY <1>17, StatusFrame DEF vars, poolVars, csVars, thrVars
<1> QED
  BY <1>1, <1>2, <1>3, <1>4, <1>5, <1>6, <1>7, <1>8, <1>9, <1>10, <1>11, <1>12,
     <1>13, <1>14, <1>15, <1>16, <1>17
  DEF Next, Application, Progress

-----------------------------------------------------------------------------
\* The inductive invariant: TypeOK alone is not inductive, since what
\* call_lookup pops and counts is well typed only because the counter is the
\* length of the list, and a thread on its way has a CallState.
IInv == TypeOK /\ ExclusiveUse /\ CallStatusAsserts

\* The three invariants hold together.
LEMMA Inductive == Spec => []IInv
<1>1. Init => IInv
  BY TypeInit, ExclusiveInit, StatusInit DEF IInv
<1>2. IInv /\ [Next]_vars => IInv'
  BY TypeStep, ExclusiveStep, StatusStep DEF IInv
<1> QED
  BY <1>1, <1>2, PTL DEF Spec

\* Every variable of the client module stays in its range, for any number of
\* threads, pool size and failures: call_lookup never takes the unsigned
\* n_call_state_pool below zero.
THEOREM TypeCorrect == Spec => []TypeOK
  BY Inductive, PTL DEF IInv

\* No CallState is ever used by two threads, or by one while it is pooled,
\* whatever the interleaving of call_lookup and call_done, with any number of
\* threads and any MAX_CALL_STATE_POOL.
THEOREM PoolExclusive == Spec => []ExclusiveUse
  BY Inductive, PTL DEF IInv

\* The assertions on call_status and socket in call_lookup, call_prepare,
\* call_run, call_send_recv and call_done cannot fail.
THEOREM AssertionsHold == Spec => []CallStatusAsserts
  BY Inductive, PTL DEF IInv

-----------------------------------------------------------------------------
(* What travels on the connections: a request is executed at most once     *)
(* whatever fails; and as long as no allocation fails, a connection in the *)
(* pool has nothing on it, and a C_* function that succeeds has the answer *)
(* to its own request.                                                     *)


\* A thread at one of these has not sent its request yet.
Unsent == {"lock", "lookup", "connect", "prepare", "run"}

-----------------------------------------------------------------------------
(* Numbers of calls: no request is sent, or executed, twice.               *)

Issued ==
  /\ \A t \in Threads : call[t] <= ncalls
  /\ \A c \in CallStates : \A i \in DOMAIN toSrv[c] : toSrv[c][i] \in 1 .. ncalls
  /\ \A i \in DOMAIN executed : executed[i] \in 1 .. ncalls

OwnNumber == \A t, u \in Threads : call[t] = call[u] /\ call[t] # 0 => t = u

\* The request a thread is preparing has not left it.
Fresh ==
  \A t \in Threads : pc[t] \in Unsent =>
    /\ call[t] # 0
    /\ \A c \in CallStates : \A i \in DOMAIN toSrv[c] : toSrv[c][i] # call[t]
    /\ \A i \in DOMAIN executed : executed[i] # call[t]

SentOnce ==
  /\ \A c, d \in CallStates : \A i \in DOMAIN toSrv[c], j \in DOMAIN toSrv[d] :
       toSrv[c][i] = toSrv[d][j] => c = d /\ i = j
  /\ \A c \in CallStates : \A i \in DOMAIN toSrv[c], j \in DOMAIN executed :
       toSrv[c][i] # executed[j]

\* The daemons execute a request at most once.
ExecutedOnce ==
  \A i, j \in DOMAIN executed : executed[i] = executed[j] => i = j

Numbered == Issued /\ OwnNumber /\ Fresh /\ SentOnce /\ ExecutedOnce

\* The kinds of steps, as far as the numbers are concerned.
Issues(t) ==
  /\ pc[t] = "idle" /\ ncalls' = ncalls + 1
  /\ call' = [call EXCEPT ![t] = ncalls + 1]
  /\ \A u \in Threads : u # t => pc'[u] = pc[u]
  /\ UNCHANGED <<toSrv, executed>>

Sends(t) ==
  /\ pc[t] = "run" /\ pc' = [pc EXCEPT ![t] = "recv_len"]
  /\ cs[t] \in CallStates
  /\ toSrv' = [toSrv EXCEPT ![cs[t]] = Append(@, call[t])]
  /\ UNCHANGED <<call, ncalls, executed>>

Executes(c) ==
  /\ toSrv[c] # <<>>
  /\ executed' = Append(executed, Head(toSrv[c]))
  /\ toSrv' = [toSrv EXCEPT ![c] = Tail(@)]
  /\ UNCHANGED <<pc, call, ncalls>>

Otherwise ==
  /\ \A u \in Threads : pc'[u] \in Unsent => pc[u] \in Unsent
  /\ UNCHANGED <<call, ncalls, toSrv, executed>>

\* Every step is one of these kinds.
LEMMA NumberSteps ==
  ASSUME TypeOK, ExclusiveUse, [Next]_vars
  PROVE  \/ \E t \in Threads : Issues(t) \/ Sends(t)
         \/ \E c \in CallStates : Executes(c)
         \/ Otherwise
<1>1. ASSUME NEW t \in Threads, BeginCall(t) \/ C_Initialize(t) \/ C_Finalize(t)
      PROVE  Issues(t) \/ Otherwise
  <2>1. CASE \E o \in Ops, l \in {"lock", "lookup"} : NewCall(t, o, l)
    BY <1>1, <2>1
    DEF BeginCall, C_Initialize, C_Finalize, NewCall, Goto, At, Issues, wireVars,
        TypeOK, ThreadsOK
  <2>2. CASE UNCHANGED <<pc, op, call, ncalls>>
    BY <1>1, <2>2 DEF BeginCall, C_Initialize, C_Finalize, wireVars, Otherwise
  <2> QED
    BY <1>1, <2>1, <2>2 DEF BeginCall, C_Initialize, C_Finalize, Ops
<1>2. ASSUME NEW t \in Threads, InitializeLocked(t) \/ FinalizeLocked(t) PROVE Otherwise
  BY <1>2 DEF InitializeLocked, FinalizeLocked, Goto, At, wireVars, Otherwise, Unsent,
              TypeOK, ThreadsOK
<1>3. ASSUME NEW t \in Threads,
             call_lookup(t) \/ call_connect_assert(t) \/ call_connect_ok(t)
      PROVE  Otherwise
  BY <1>3 DEF call_lookup, call_connect_assert, call_connect_ok, Goto, At, wireVars,
              thrVars, Otherwise, Unsent, TypeOK, ThreadsOK
<1>4. ASSUME NEW t \in Threads, call_connect_fail(t) \/ call_prepare(t) PROVE Otherwise
  BY <1>4 DEF call_connect_fail, call_prepare, Return, Fail, Goto, At, wireVars,
              Otherwise, Unsent, TypeOK, ThreadsOK
<1>5. ASSUME NEW t \in Threads, call_send(t) PROVE Sends(t) \/ Otherwise
  <2>1. pc[t] = "run" /\ UNCHANGED <<call, ncalls, executed>>
    BY <1>5 DEF call_send, At
  <2>2. cs[t] \in CallStates
    BY <2>1, HoldsOne DEF Holding
  <2>3. CASE /\ toSrv' = [toSrv EXCEPT ![cs[t]] = Append(@, call[t])]
             /\ Goto(t, "recv_len")
    BY <2>1, <2>2, <2>3 DEF Sends, Goto
  <2>4. CASE UNCHANGED toSrv /\ Goto(t, "parse")
    BY <2>1, <2>4 DEF Otherwise, Unsent, Goto, TypeOK, ThreadsOK
  <2> QED
    BY <1>5, <2>3, <2>4 DEF call_send
<1>6. ASSUME NEW t \in Threads, call_recv_len(t) \/ call_recv_body(t) PROVE Otherwise
  BY <1>6 DEF call_recv_len, call_recv_body, RecvFails, Goto, At, Otherwise, Unsent,
              TypeOK, ThreadsOK
<1>7. ASSUME NEW t \in Threads, call_parse(t) \/ call_done(t) PROVE Otherwise
  BY <1>7 DEF call_parse, call_done, Return, Fail, Goto, At, wireVars, Otherwise, Unsent,
              TypeOK, ThreadsOK
<1>8. ASSUME NEW c \in CallStates, Serve(c) PROVE Executes(c)
  BY <1>8 DEF Serve, thrVars, Executes
<1>9. ASSUME NEW c \in CallStates, DaemonCloses(c) PROVE Otherwise
  BY <1>9 DEF DaemonCloses, thrVars, Otherwise
<1>10. CASE UNCHANGED vars
  BY <1>10 DEF vars, thrVars, wireVars, Otherwise
<1> QED
  BY <1>1, <1>2, <1>3, <1>4, <1>5, <1>6, <1>7, <1>8, <1>9, <1>10
  DEF Next, Application, Progress

\* A request appended to what is on its way.
LEMMA Appended ==
  ASSUME NEW s \in Seq(CallNos), NEW n \in CallNos
  PROVE  /\ Append(s, n) \in Seq(CallNos)
         /\ DOMAIN s = 1 .. Len(s) /\ Len(s) \in Nat
         /\ DOMAIN Append(s, n) = 1 .. Len(s) + 1
         /\ \A i \in 1 .. Len(s) : Append(s, n)[i] = s[i]
         /\ Append(s, n)[Len(s) + 1] = n
  OBVIOUS

\* The first request taken from what is on its way.
LEMMA Taken ==
  ASSUME NEW s \in Seq(CallNos), s # <<>>
  PROVE  /\ Head(s) \in CallNos /\ Tail(s) \in Seq(CallNos)
         /\ DOMAIN s = 1 .. Len(s) /\ Len(s) \in Nat \ {0}
         /\ Head(s) = s[1]
         /\ DOMAIN Tail(s) = 1 .. Len(s) - 1
         /\ \A i \in 1 .. Len(s) - 1 : Tail(s)[i] = s[i + 1]
<1>1. Len(s) \in Nat /\ Len(s) # 0
  BY EmptySeq
<1>2. Tail(s) \in Seq(CallNos) /\ Len(Tail(s)) = Len(s) - 1
  BY HeadTailProperties
<1> QED
  BY <1>1, <1>2

\* A new number is nobody's.
LEMMA NumberedIssue ==
  ASSUME TypeOK, Numbered, NEW t \in Threads, Issues(t)
  PROVE  Numbered'
<1> USE DEF TypeOK, ThreadsOK, WireOK, CallNos
<1>1. /\ ncalls \in Nat /\ ncalls' = ncalls + 1 /\ UNCHANGED <<toSrv, executed>>
      /\ \A u \in Threads : call'[u] = IF u = t THEN ncalls + 1 ELSE call[u]
      /\ \A u \in Threads : call[u] \in Nat /\ call[u] <= ncalls
  BY CallPoolAssumption DEF Issues, Numbered, Issued
<1>2. Issued'
  <2>1. \A n \in 1 .. ncalls : n \in 1 .. ncalls + 1
    BY <1>1
  <2>2. ASSUME NEW u \in Threads PROVE call'[u] <= ncalls + 1
    <3>1. CASE u = t
      BY <1>1, <3>1
    <3>2. CASE u # t
      <4>1. call'[u] = call[u] /\ call[u] \in Nat /\ call[u] <= ncalls
        BY <1>1, <3>2
      <4> QED
        BY <1>1, <4>1
    <3> QED
      BY <3>1, <3>2
  <2> QED
    BY <1>1, <2>1, <2>2 DEF Numbered, Issued
<1>3. OwnNumber'
  BY <1>1 DEF Numbered, OwnNumber
<1>4. Fresh'
  <2>1. ASSUME NEW u \in Threads, pc'[u] \in Unsent, u # t
        PROVE  /\ call'[u] # 0
               /\ \A c \in CallStates : \A i \in DOMAIN toSrv[c] : toSrv[c][i] # call'[u]
               /\ \A i \in DOMAIN executed : executed[i] # call'[u]
    BY <1>1, <2>1 DEF Issues, Numbered, Fresh
  <2>2. /\ call'[t] # 0
        /\ \A c \in CallStates : \A i \in DOMAIN toSrv[c] : toSrv[c][i] # call'[t]
        /\ \A i \in DOMAIN executed : executed[i] # call'[t]
    BY <1>1 DEF Numbered, Issued
  <2> QED
    BY <1>1, <2>1, <2>2 DEF Fresh
<1>5. SentOnce' /\ ExecutedOnce'
  BY <1>1 DEF Numbered, SentOnce, ExecutedOnce
<1> QED
  BY <1>2, <1>3, <1>4, <1>5 DEF Numbered

\* The request that is sent is on no connection yet.
LEMMA NumberedSend ==
  ASSUME TypeOK, Numbered, NEW t \in Threads, Sends(t)
  PROVE  Numbered'
<1> DEFINE c0 == cs[t]
           n == call[t]
           k == Len(toSrv[c0]) + 1
<1>0. /\ c0 \in CallStates /\ toSrv[c0] \in Seq(CallNos) /\ n \in CallNos
      /\ n # 0 /\ n \in 1 .. ncalls /\ ncalls \in Nat
      /\ UNCHANGED <<call, ncalls, executed>>
      /\ \A u \in Threads : pc'[u] = IF u = t THEN "recv_len" ELSE pc[u]
  BY CallPoolAssumption
  DEF Sends, TypeOK, WireOK, ThreadsOK, Numbered, Issued, Fresh, Unsent, CallNos
<1>1. /\ k \in Nat /\ DOMAIN toSrv[c0] = 1 .. k - 1
      /\ DOMAIN toSrv'[c0] = 1 .. k
      /\ \A i \in 1 .. k - 1 : toSrv'[c0][i] = toSrv[c0][i]
      /\ toSrv'[c0][k] = n
      /\ \A c \in CallStates : c # c0 => toSrv'[c] = toSrv[c]
  BY <1>0, Appended DEF Sends, TypeOK, WireOK
<1>2. \A c \in CallStates : \A i \in DOMAIN toSrv'[c] :
        \/ c = c0 /\ i = k /\ toSrv'[c][i] = n
        \/ i \in DOMAIN toSrv[c] /\ toSrv'[c][i] = toSrv[c][i]
  <2> SUFFICES ASSUME NEW c \in CallStates, NEW i \in DOMAIN toSrv'[c]
               PROVE  \/ c = c0 /\ i = k /\ toSrv'[c][i] = n
                      \/ i \in DOMAIN toSrv[c] /\ toSrv'[c][i] = toSrv[c][i]
    OBVIOUS
  <2>1. CASE c # c0
    BY <1>1, <2>1
  <2>2. CASE c = c0
    <3>1. i = k \/ i \in 1 .. k - 1
      BY <1>1, <2>2
    <3> QED
      BY <1>1, <2>2, <3>1
  <2> QED
    BY <2>1, <2>2
<1>3. /\ \A c \in CallStates : \A i \in DOMAIN toSrv[c] : toSrv[c][i] # n
      /\ \A i \in DOMAIN executed : executed[i] # n
  BY DEF Numbered, Fresh, Unsent, Sends
<1>4. \A u \in Threads : u # t => call[u] # n
  BY <1>0 DEF Numbered, OwnNumber
<1> HIDE DEF c0, n, k
<1>5. Issued'
  BY <1>0, <1>2 DEF Numbered, Issued
<1>6. OwnNumber' /\ ExecutedOnce'
  BY <1>0 DEF Numbered, OwnNumber, ExecutedOnce
<1>7. Fresh'
  BY <1>0, <1>2, <1>4 DEF Numbered, Fresh, Unsent
<1>8. SentOnce'
  BY <1>0, <1>2, <1>3 DEF Numbered, SentOnce
<1> QED
  BY <1>5, <1>6, <1>7, <1>8 DEF Numbered

\* The request that is executed is on its way once, and was not executed.
LEMMA NumberedExecute ==
  ASSUME TypeOK, Numbered, NEW c0 \in CallStates, Executes(c0)
  PROVE  Numbered'
<1> DEFINE n == Head(toSrv[c0])
           e == Len(executed) + 1
<1>0. /\ toSrv[c0] \in Seq(CallNos) /\ toSrv[c0] # <<>> /\ executed \in Seq(CallNos)
      /\ UNCHANGED <<pc, call, ncalls>> /\ ncalls \in Nat
  BY CallPoolAssumption DEF Executes, TypeOK, WireOK, ThreadsOK, CallNos
<1>1. /\ n = toSrv[c0][1] /\ n \in CallNos /\ 1 \in DOMAIN toSrv[c0]
      /\ DOMAIN toSrv'[c0] = 1 .. Len(toSrv[c0]) - 1 /\ DOMAIN toSrv[c0] = 1 .. Len(toSrv[c0])
      /\ Len(toSrv[c0]) \in Nat \ {0}
      /\ \A i \in 1 .. Len(toSrv[c0]) - 1 : toSrv'[c0][i] = toSrv[c0][i + 1]
      /\ \A c \in CallStates : c # c0 => toSrv'[c] = toSrv[c]
  BY <1>0, Taken DEF Executes, TypeOK, WireOK
<1>2. /\ e \in Nat /\ DOMAIN executed = 1 .. e - 1 /\ DOMAIN executed' = 1 .. e
      /\ \A i \in 1 .. e - 1 : executed'[i] = executed[i]
      /\ executed'[e] = n
  BY <1>0, <1>1, Appended DEF Executes
<1>3. \A i \in DOMAIN executed' :
        (i = e /\ executed'[i] = n) \/ (i \in DOMAIN executed /\ executed'[i] = executed[i])
  <2> SUFFICES ASSUME NEW i \in 1 .. e
               PROVE  \/ i = e /\ executed'[i] = n
                      \/ i \in DOMAIN executed /\ executed'[i] = executed[i]
    BY <1>2
  <2>1. i = e \/ i \in 1 .. e - 1
    BY <1>2
  <2> QED
    BY <1>2, <2>1
<1>4. ASSUME NEW c \in CallStates, NEW i \in DOMAIN toSrv'[c]
      PROVE  IF c = c0 THEN i + 1 \in DOMAIN toSrv[c] /\ toSrv'[c][i] = toSrv[c][i + 1] /\ i \in Nat \ {0}
             ELSE i \in DOMAIN toSrv[c] /\ toSrv'[c][i] = toSrv[c][i]
  <2>1. CASE c # c0
    BY <1>1, <2>1
  <2>2. CASE c = c0
    BY <1>1, <2>2
  <2> QED
    BY <2>1, <2>2
<1> HIDE DEF n, e
<1>5. /\ n \in 1 .. ncalls /\ \A i \in DOMAIN executed : executed[i] # n
      /\ \A t \in Threads : pc[t] \in Unsent => call[t] # n
  BY <1>1 DEF Numbered, Issued, SentOnce, Fresh
<1>6. ASSUME NEW c \in CallStates, NEW i \in DOMAIN toSrv'[c]
      PROVE  toSrv'[c][i] # n
  <2>1. CASE c # c0
    BY <1>1, <1>4, <1>6, <2>1 DEF Numbered, SentOnce
  <2>2. CASE c = c0
    <3>1. i + 1 \in DOMAIN toSrv[c0] /\ i + 1 # 1 /\ toSrv'[c0][i] = toSrv[c0][i + 1]
      BY <1>4, <1>6, <2>2
    <3> QED
      BY <1>1, <2>2, <3>1 DEF Numbered, SentOnce
  <2> QED
    BY <2>1, <2>2
<1>7. Issued'
  BY <1>0, <1>3, <1>4, <1>5 DEF Numbered, Issued
<1>8. OwnNumber'
  BY <1>0 DEF Numbered, OwnNumber
<1>9. ExecutedOnce'
  BY <1>3, <1>5 DEF Numbered, ExecutedOnce
<1>10. Fresh'
  BY <1>0, <1>3, <1>4, <1>5 DEF Numbered, Fresh
<1>11. SentOnce'
  <2>1. ASSUME NEW c \in CallStates, NEW d \in CallStates, NEW i \in DOMAIN toSrv'[c],
               NEW j \in DOMAIN toSrv'[d], toSrv'[c][i] = toSrv'[d][j]
        PROVE  c = d /\ i = j
    <3>1. c = d
      BY <1>4, <2>1 DEF Numbered, SentOnce
    <3>2. CASE c = c0
      <4>1. i + 1 = j + 1 /\ i \in Nat /\ j \in Nat
        BY <1>4, <2>1, <3>1, <3>2 DEF Numbered, SentOnce
      <4> QED
        BY <3>1, <4>1
    <3>3. CASE c # c0
      BY <1>4, <2>1, <3>1, <3>3 DEF Numbered, SentOnce
    <3> QED
      BY <3>2, <3>3
  <2>2. ASSUME NEW c \in CallStates, NEW i \in DOMAIN toSrv'[c], NEW j \in DOMAIN executed'
        PROVE  toSrv'[c][i] # executed'[j]
    BY <1>3, <1>4, <1>6 DEF Numbered, SentOnce
  <2> QED
    BY <2>1, <2>2 DEF SentOnce
<1> QED
  BY <1>7, <1>8, <1>9, <1>10, <1>11 DEF Numbered

\* No step sends or executes a request twice.
LEMMA NumberedStep == IInv /\ Numbered /\ [Next]_vars => Numbered'
<1> SUFFICES ASSUME IInv, Numbered, [Next]_vars PROVE Numbered'
  OBVIOUS
<1> USE DEF IInv
<1>1. CASE Otherwise
  BY <1>1 DEF Otherwise, Numbered, Issued, OwnNumber, Fresh, SentOnce, ExecutedOnce
<1> QED
  BY <1>1, NumberSteps, NumberedIssue, NumberedSend, NumberedExecute

LEMMA NumberedInit == Init => Numbered
  BY DEF Init, Numbered, Issued, OwnNumber, Fresh, SentOnce, ExecutedOnce, Unsent

-----------------------------------------------------------------------------
(* What is on a connection, when no allocation fails.                      *)

Quiet(c) == toSrv[c] = <<>> /\ toCli[c] = <<>>
Done(n)  == \E i \in DOMAIN executed : executed[i] = n

Answers    == {"ok", "err", "deverr"}
Word(n, k) == [part |-> "len", of |-> n, kind |-> k]
Body(n, k) == [part |-> "body", of |-> n, kind |-> k]

\* What a thread at each location finds on its connection.
AtPrepare(t) == Quiet(cs[t])
AtRecvLen(t) ==
  \/ toSrv[cs[t]] = <<call[t]>> /\ toCli[cs[t]] = <<>>
  \/ /\ toSrv[cs[t]] = <<>> /\ Done(call[t])
     /\ \E k \in Answers : toCli[cs[t]] = <<Word(call[t], k), Body(call[t], k)>>
AtRecvBody(t) ==
  /\ toSrv[cs[t]] = <<>> /\ Done(call[t])
  /\ \E k \in Answers : /\ resp[t] = Word(call[t], k)
                        /\ toCli[cs[t]] = <<Body(call[t], k)>>
AtParse(t) ==
  \/ ret[t] = "DEVICE_ERROR"
  \/ /\ ret[t] = "OK" /\ Quiet(cs[t]) /\ Done(call[t])
     /\ \E k \in Answers : resp[t] = Body(call[t], k)
AtDone(t) ==
  \/ ret[t] = "DEVICE_ERROR"
  \/ /\ Quiet(cs[t])
     /\ ret[t] = "OK" => Done(call[t]) /\ resp[t] = Body(call[t], "ok")

OnWire(t) ==
  /\ pc[t] \in Unsent \cup {"recv_len", "recv_body"} => ret[t] = "OK"
  /\ pc[t] \in {"prepare", "run"} => AtPrepare(t)
  /\ pc[t] = "recv_len" => AtRecvLen(t)
  /\ pc[t] = "recv_body" => AtRecvBody(t)
  /\ pc[t] = "parse" => AtParse(t)
  /\ pc[t] = "done" => AtDone(t)

\* Nothing is on a connection that does not exist yet.
Unborn == \A c \in CallStates : c > nalloc => Quiet(c)

WireInv == Unborn /\ Quiescent /\ \A t \in Threads : OnWire(t)

\* A request or a response taken to pieces.
LEMMA Pieces ==
  ASSUME NEW a, NEW b
  PROVE  /\ Append(<<>>, a) = <<a>>
         /\ Head(<<a>>) = a /\ Tail(<<a>>) = <<>> /\ <<a>> # <<>>
         /\ Head(<<a, b>>) = a /\ Tail(<<a, b>>) = <<b>> /\ <<a, b>> # <<>>
         /\ <<>> \o <<a, b>> = <<a, b>>
  OBVIOUS

\* What a thread finds is what others leave alone.
LEMMA OnWireFrame ==
  ASSUME NEW u \in Threads, OnWire(u),
         pc'[u] = pc[u], cs'[u] = cs[u], call'[u] = call[u], ret'[u] = ret[u],
         resp'[u] = resp[u],
         pc[u] \in Holding => UNCHANGED <<toSrv[cs[u]], toCli[cs[u]]>>,
         \A n : Done(n) => Done(n)'
  PROVE  OnWire(u)'
<1>1. \A n \in {call[u]} : Done(n) => Done(n)'
  OBVIOUS
<1> HIDE DEF Done
<1> QED
  BY <1>1 DEF OnWire, AtPrepare, AtRecvLen, AtRecvBody, AtParse, AtDone, Quiet, Holding

\* A step of thread t that touches the connection of t at most: the others,
\* the pool and what does not exist yet have nothing new on their connections.
LEMMA WireOwn ==
  ASSUME IInv, WireInv, NEW t \in Threads, pc[t] \in Holding,
         \A u \in Threads : u # t =>
           /\ pc'[u] = pc[u] /\ cs'[u] = cs[u] /\ call'[u] = call[u]
           /\ ret'[u] = ret[u] /\ resp'[u] = resp[u],
         \A c \in CallStates : c # cs[t] => UNCHANGED <<toSrv[c], toCli[c]>>,
         UNCHANGED <<executed, pool, nalloc>>, OnWire(t)'
  PROVE  WireInv'
<1>1. cs[t] \in CallStates /\ cs[t] <= nalloc
  BY HoldsOne DEF IInv, ExclusiveUse, HeldByOne
<1>2. \A u \in Threads : u # t => OnWire(u)'
  <2> SUFFICES ASSUME NEW u \in Threads, u # t PROVE OnWire(u)'
    OBVIOUS
  <2>1. pc[u] \in Holding => cs[u] \in CallStates /\ cs[u] # cs[t]
    BY <1>1, HoldsOne DEF IInv, ExclusiveUse, HeldByOne
  <2>2. \A n : Done(n) => Done(n)'
    BY DEF Done
  <2>3. OnWire(u)
    BY DEF WireInv
  <2> QED
    BY <2>1, <2>2, <2>3, OnWireFrame
<1>3. Quiescent'
  <2>1. \A i \in DOMAIN pool : pool[i] \in CallStates /\ pool[i] # cs[t]
    BY <1>1 DEF IInv, TypeOK, PoolOK, ExclusiveUse, HeldByOne
  <2> QED
    BY <2>1 DEF WireInv, Quiescent
<1>4. Unborn'
  BY <1>1 DEF WireInv, Unborn, Quiet, CallStates, IInv, TypeOK, CallStatesOK
<1> QED
  BY <1>2, <1>3, <1>4 DEF WireInv

\* A step of thread t that touches no connection, and leaves t without one.
LEMMA WireAway ==
  ASSUME IInv, WireInv, NEW t \in Threads,
         \A u \in Threads : u # t =>
           /\ pc'[u] = pc[u] /\ cs'[u] = cs[u] /\ call'[u] = call[u]
           /\ ret'[u] = ret[u] /\ resp'[u] = resp[u],
         UNCHANGED <<toSrv, toCli, executed, pool>>, nalloc' >= nalloc,
         nalloc' \in Nat,
         pc'[t] \in {"idle", "lock", "lookup", "connect"},
         pc'[t] # "idle" => ret'[t] = "OK"
  PROVE  WireInv'
<1>1. \A u \in Threads : u # t => OnWire(u)'
  <2> SUFFICES ASSUME NEW u \in Threads, u # t PROVE OnWire(u)'
    OBVIOUS
  <2>1. \A n : Done(n) => Done(n)'
    BY DEF Done
  <2>2. OnWire(u)
    BY DEF WireInv
  <2> QED
    BY <2>1, <2>2, OnWireFrame
<1>2. OnWire(t)'
  BY DEF OnWire, Unsent
<1>3. Quiescent'
  BY DEF WireInv, Quiescent
<1>4. Unborn'
  BY DEF WireInv, Unborn, Quiet, CallStates, IInv, TypeOK, CallStatesOK
<1> QED
  BY <1>1, <1>2, <1>3, <1>4 DEF WireInv

\* Entering a C_* function, and the locked parts of rpc_C_Initialize and
\* rpc_C_Finalize.
LEMMA WireEnter ==
  ASSUME IInv, WireInv, NEW t \in Threads,
         BeginCall(t) \/ C_Initialize(t) \/ C_Finalize(t) \/ InitializeLocked(t)
           \/ FinalizeLocked(t) \/ call_connect_assert(t)
  PROVE  WireInv'
<1>0. nalloc \in Nat
  BY CallPoolAssumption DEF IInv, TypeOK, CallStatesOK
<1>1. CASE BeginCall(t) \/ C_Initialize(t) \/ C_Finalize(t)
  <2>1. UNCHANGED <<toSrv, toCli, executed, pool, nalloc, cs, resp>> /\ pc[t] = "idle"
    BY <1>1 DEF BeginCall, C_Initialize, C_Finalize, poolVars, csVars, wireVars, At
  <2>2. CASE \E o \in Ops, l \in {"lock", "lookup"} : NewCall(t, o, l)
    <3>1. /\ pc'[t] \in {"lock", "lookup"} /\ ret'[t] = "OK"
          /\ \A u \in Threads : u # t => /\ pc'[u] = pc[u] /\ call'[u] = call[u]
                                         /\ ret'[u] = ret[u]
      BY <2>2 DEF NewCall, Goto, Yield, IInv, TypeOK, ThreadsOK
    <3> QED
      BY <1>0, <2>1, <3>1, WireAway
  <2>3. CASE UNCHANGED <<pc, op, call, ncalls>> /\ \E r \in Codes : Yield(t, r)
    <3>1. \A u \in Threads : u # t => ret'[u] = ret[u]
      BY <2>3 DEF Yield, IInv, TypeOK, ThreadsOK
    <3> QED
      BY <1>0, <2>1, <2>3, <3>1, WireAway
  <2> QED
    BY <1>1, <2>2, <2>3 DEF BeginCall, C_Initialize, C_Finalize, Ops, Codes
<1>2. CASE InitializeLocked(t) \/ FinalizeLocked(t)
  <2>1. UNCHANGED <<toSrv, toCli, executed, pool, nalloc, cs, resp, call>> /\ pc[t] = "lock"
    BY <1>2 DEF InitializeLocked, FinalizeLocked, poolVars, csVars, wireVars, At
  <2>2. ret[t] = "OK"
    BY <2>1 DEF WireInv, OnWire, Unsent
  <2>3. \/ Goto(t, "idle") /\ \E r \in Codes : Yield(t, r)
        \/ Goto(t, "lookup") /\ UNCHANGED ret
    BY <1>2 DEF InitializeLocked, FinalizeLocked, Codes
  <2>4. /\ pc'[t] \in {"idle", "lookup"} /\ (pc'[t] # "idle" => ret'[t] = "OK")
        /\ \A u \in Threads : u # t => pc'[u] = pc[u] /\ ret'[u] = ret[u]
    BY <2>2, <2>3 DEF Goto, Yield, IInv, TypeOK, ThreadsOK
  <2> QED
    BY <1>0, <2>1, <2>4, WireAway
<1>3. CASE call_connect_assert(t)
  <2>1. /\ UNCHANGED <<toSrv, toCli, executed, pool, nalloc, cs, resp, call, pc, ret>>
        /\ pc[t] = "connect"
    BY <1>3 DEF call_connect_assert, poolVars, csVars, wireVars, thrVars, At
  <2>2. ret[t] = "OK"
    BY <2>1 DEF WireInv, OnWire, Unsent
  <2> QED
    BY <1>0, <2>1, <2>2, WireAway
<1> QED
  BY <1>1, <1>2, <1>3

\* A thread gets a CallState, from the pool or a new one.
LEMMA WireGet ==
  ASSUME ~MemFails, IInv, WireInv, NEW t \in Threads,
         call_lookup(t) \/ call_connect_ok(t) \/ call_connect_fail(t)
  PROVE  WireInv'
<1>0. nalloc \in Nat /\ pc[t] \in {"lookup", "connect"} /\ ret[t] = "OK"
      /\ pool \in Seq(CallStates) /\ MaxConns \in Nat
      /\ UNCHANGED <<toSrv, toCli, executed, call, resp>>
  <2>1. pc[t] \in {"lookup", "connect"}
    BY DEF call_lookup, call_connect_ok, call_connect_fail, At
  <2> QED
    BY <2>1, CallPoolAssumption
    DEF IInv, TypeOK, CallStatesOK, PoolOK, WireInv, OnWire, Unsent, call_lookup,
        call_connect_ok, call_connect_fail, wireVars
<1>1. ASSUME NEW c \in CallStates, Quiet(c), pc' = [pc EXCEPT ![t] = "prepare"],
             cs' = [cs EXCEPT ![t] = c], UNCHANGED ret, nalloc' >= nalloc,
             nalloc' \in Nat,
             \A i \in DOMAIN pool' : i \in DOMAIN pool /\ pool'[i] = pool[i]
      PROVE  WireInv'
  <2>1. \A u \in Threads : u # t => OnWire(u)'
    <3> SUFFICES ASSUME NEW u \in Threads, u # t PROVE OnWire(u)'
      OBVIOUS
    <3>1. /\ \A n : Done(n) => Done(n)'
          /\ pc'[u] = pc[u] /\ cs'[u] = cs[u] /\ OnWire(u)
      BY <1>0, <1>1 DEF Done, IInv, TypeOK, ThreadsOK, WireInv
    <3> QED
      BY <1>0, <1>1, <3>1, OnWireFrame
  <2>2. OnWire(t)'
    <3>1. pc'[t] = "prepare" /\ cs'[t] = c /\ ret'[t] = "OK"
      BY <1>0, <1>1 DEF IInv, TypeOK, ThreadsOK
    <3>2. Quiet(c)'
      BY <1>0, <1>1 DEF Quiet
    <3> QED
      BY <3>1, <3>2 DEF OnWire, AtPrepare, Quiet
  <2>3. Quiescent'
    BY <1>0, <1>1 DEF WireInv, Quiescent
  <2>4. Unborn'
    BY <1>0, <1>1 DEF WireInv, Unborn, Quiet, CallStates
  <2> QED
    BY <2>1, <2>2, <2>3, <2>4 DEF WireInv
<1>2. CASE call_lookup(t)
  <2>1. UNCHANGED <<ret, nalloc>>
    BY <1>2 DEF call_lookup, csVars
  <2>2. CASE /\ pool # <<>> /\ cs' = [cs EXCEPT ![t] = pool[Len(pool)]]
             /\ pool' = SubSeq(pool, 1, Len(pool) - 1) /\ Goto(t, "prepare")
    <3>1. /\ pool[Len(pool)] \in CallStates /\ Len(pool) \in DOMAIN pool
          /\ \A i \in DOMAIN pool' : i \in DOMAIN pool /\ pool'[i] = pool[i]
      BY <2>2, LastOfPool DEF IInv
    <3>2. Quiet(pool[Len(pool)])
      BY <3>1 DEF WireInv, Quiescent, Quiet
    <3>3. pc' = [pc EXCEPT ![t] = "prepare"] /\ nalloc' >= nalloc /\ nalloc' \in Nat
      BY <1>0, <2>1, <2>2 DEF Goto
    <3> QED
      BY <1>1, <2>1, <2>2, <3>1, <3>2, <3>3
  <2>3. CASE UNCHANGED <<cs, pool>> /\ Goto(t, "connect")
    <3>1. pc'[t] = "connect" /\ \A u \in Threads : u # t => pc'[u] = pc[u]
      BY <2>3 DEF Goto, IInv, TypeOK, ThreadsOK
    <3> QED
      BY <1>0, <2>1, <2>3, <3>1, WireAway
  <2> QED
    BY <1>2, <2>2, <2>3 DEF call_lookup, poolVars
<1>3. CASE call_connect_ok(t)
  <2>1. /\ nalloc < MaxConns /\ nalloc' = nalloc + 1 /\ UNCHANGED <<pool, ret>>
        /\ cs' = [cs EXCEPT ![t] = nalloc + 1] /\ Goto(t, "prepare")
    BY <1>3 DEF call_connect_ok, poolVars
  <2>2. nalloc + 1 \in CallStates /\ nalloc + 1 > nalloc
    BY <1>0, <2>1 DEF CallStates
  <2>3. Quiet(nalloc + 1)
    BY <2>2 DEF WireInv, Unborn
  <2>4. pc' = [pc EXCEPT ![t] = "prepare"] /\ nalloc' >= nalloc /\ nalloc' \in Nat
    BY <1>0, <2>1 DEF Goto
  <2>5. \A i \in DOMAIN pool' : i \in DOMAIN pool /\ pool'[i] = pool[i]
    BY <2>1
  <2> QED
    BY <1>1, <2>1, <2>2, <2>3, <2>4, <2>5
<1>4. CASE call_connect_fail(t)
  <2>1. UNCHANGED <<cs, pool>> /\ (nalloc' = nalloc \/ nalloc' = nalloc + 1)
    BY <1>4 DEF call_connect_fail, poolVars, csVars
  <2>2. Return(t, "DEVICE_ERROR")
    BY <1>4 DEF call_connect_fail
  <2>3. /\ pc'[t] = "idle"
        /\ \A u \in Threads : u # t => pc'[u] = pc[u] /\ ret'[u] = ret[u]
    BY <2>2 DEF Return, Goto, Yield, IInv, TypeOK, ThreadsOK
  <2> QED
    BY <1>0, <2>1, <2>3, WireAway
<1> QED
  BY <1>2, <1>3, <1>4

\* What a step of thread t at a connection leaves to the others.
LEMMA OthersKept ==
  ASSUME IInv, NEW t \in Threads,
         call_prepare(t) \/ call_send(t) \/ call_recv_len(t) \/ call_recv_body(t)
           \/ call_parse(t)
  PROVE  /\ pc[t] \in Holding /\ cs[t] \in CallStates
         /\ UNCHANGED <<cs, call, executed, pool, nalloc>>
         /\ \A u \in Threads : u # t =>
              pc'[u] = pc[u] /\ ret'[u] = ret[u] /\ resp'[u] = resp[u]
         /\ \A c \in CallStates : c # cs[t] => UNCHANGED <<toSrv[c], toCli[c]>>
<1>1. pc[t] \in Holding
  BY DEF call_prepare, call_send, call_recv_len, call_recv_body, call_parse, At, Holding
<1>2. cs[t] \in CallStates
  BY <1>1, HoldsOne DEF IInv
<1> USE DEF IInv, TypeOK, ThreadsOK, WireOK, Goto, Yield, Fail
<1>3. CASE call_prepare(t)
  BY <1>1, <1>2, <1>3 DEF call_prepare, poolVars, wireVars
<1>4. CASE call_send(t)
  BY <1>1, <1>2, <1>4 DEF call_send, poolVars
<1>5. CASE call_recv_len(t)
  BY <1>1, <1>2, <1>5 DEF call_recv_len, RecvFails, poolVars
<1>6. CASE call_recv_body(t)
  BY <1>1, <1>2, <1>6 DEF call_recv_body, RecvFails, poolVars
<1>7. CASE call_parse(t)
  BY <1>1, <1>2, <1>7 DEF call_parse, poolVars, wireVars
<1> QED
  BY <1>3, <1>4, <1>5, <1>6, <1>7

\* What a failed send() or recv() makes of OnWire.
LEMMA OnWireError ==
  ASSUME NEW t \in Threads, pc'[t] = "parse", ret'[t] = "DEVICE_ERROR"
  PROVE  OnWire(t)'
  BY DEF OnWire, AtParse, Unsent

\* The use of a borrowed CallState, one step at a time.
LEMMA WireUse ==
  ASSUME ~MemFails, IInv, WireInv, NEW t \in Threads,
         call_prepare(t) \/ call_send(t) \/ call_recv_len(t) \/ call_recv_body(t)
           \/ call_parse(t)
  PROVE  WireInv'
<1>0. /\ pc[t] \in Holding /\ cs[t] \in CallStates /\ OnWire(t)
      /\ UNCHANGED <<cs, call, executed, pool, nalloc>>
      /\ pc \in [Threads -> Locations] /\ ret \in [Threads -> Codes]
      /\ resp \in [Threads -> Units] /\ call[t] \in CallNos
      /\ toSrv \in [CallStates -> Seq(CallNos)] /\ toCli \in [CallStates -> Seq(Units)]
  BY OthersKept DEF WireInv, IInv, TypeOK, ThreadsOK, WireOK
<1> SUFFICES OnWire(t)'
  BY <1>0, OthersKept, WireOwn
<1> DEFINE c == cs[t]
<1>00. Done(call[t]) => Done(call[t])'
  BY <1>0 DEF Done
<1> USE DEF Goto, Yield, Fail, At
<1>1. CASE call_prepare(t)
  <2>1. pc[t] = "prepare" /\ Quiet(c) /\ ret[t] = "OK" /\ UNCHANGED <<toSrv, toCli>>
    BY <1>0, <1>1 DEF call_prepare, OnWire, AtPrepare, Unsent, wireVars
  <2>2. CASE Goto(t, "run") /\ UNCHANGED ret
    <3>1. pc'[t] = "run" /\ ret'[t] = "OK"
      BY <1>0, <2>1, <2>2
    <3> QED
      BY <1>0, <2>1, <3>1 DEF OnWire, AtPrepare, Quiet
  <2>3. CASE Fail(t, "ARGS")
    <3>1. pc'[t] = "done" /\ ret'[t] = "ARGS"
      BY <1>0, <2>1, <2>3
    <3> QED
      BY <1>0, <2>1, <3>1 DEF OnWire, AtDone, Quiet, Unsent
  <2> QED
    BY <1>1, <2>2, <2>3 DEF call_prepare
<1>2. CASE call_send(t)
  <2>1. pc[t] = "run" /\ Quiet(c) /\ ret[t] = "OK" /\ UNCHANGED toCli
    BY <1>0, <1>2 DEF call_send, OnWire, AtPrepare, Unsent
  <2>2. CASE /\ toSrv' = [toSrv EXCEPT ![c] = Append(@, call[t])]
             /\ Goto(t, "recv_len") /\ UNCHANGED ret
    <3>1. pc'[t] = "recv_len" /\ ret'[t] = "OK"
      BY <1>0, <2>1, <2>2
    <3>2. toSrv'[c] = <<call[t]>> /\ toCli'[c] = <<>>
      BY <1>0, <2>1, <2>2, Pieces DEF Quiet
    <3> QED
      BY <1>0, <3>1, <3>2 DEF OnWire, AtRecvLen
  <2>3. CASE Yield(t, "DEVICE_ERROR") /\ Goto(t, "parse")
    <3>1. pc'[t] = "parse" /\ ret'[t] = "DEVICE_ERROR"
      BY <1>0, <2>3
    <3> QED
      BY <3>1, OnWireError
  <2> QED
    BY <1>2, <2>2, <2>3 DEF call_send
<1>3. CASE RecvFails(t)
  <2>1. pc'[t] = "parse" /\ ret'[t] = "DEVICE_ERROR"
    BY <1>0, <1>3 DEF RecvFails
  <2> QED
    BY <2>1, OnWireError
<1>4. CASE call_recv_len(t) /\ ~RecvFails(t)
  <2>1. /\ pc[t] = "recv_len" /\ toCli[c] # <<>> /\ UNCHANGED <<ret, toSrv>>
        /\ resp' = [resp EXCEPT ![t] = Head(toCli[c])]
        /\ toCli' = [toCli EXCEPT ![c] = Tail(@)] /\ Goto(t, "recv_body")
    BY <1>4 DEF call_recv_len
  <2>2. PICK k \in Answers : /\ toSrv[c] = <<>> /\ Done(call[t])
                             /\ toCli[c] = <<Word(call[t], k), Body(call[t], k)>>
    BY <1>0, <2>1 DEF OnWire, AtRecvLen
  <2>3. resp'[t] = Word(call[t], k) /\ toCli'[c] = <<Body(call[t], k)>>
    BY <1>0, <2>1, <2>2, Pieces
  <2>4. pc'[t] = "recv_body" /\ ret'[t] = "OK"
    BY <1>0, <2>1 DEF OnWire
  <2> QED
    BY <1>0, <1>00, <2>1, <2>2, <2>3, <2>4 DEF OnWire, AtRecvBody, Unsent
<1>5. CASE call_recv_body(t) /\ ~RecvFails(t)
  <2>1. /\ pc[t] = "recv_body" /\ toCli[c] # <<>> /\ UNCHANGED <<ret, toSrv>>
        /\ toCli' = [toCli EXCEPT ![c] = Tail(@)] /\ Goto(t, "parse")
        /\ LET u == Head(toCli[c])
               framed == /\ resp[t].part = "len" /\ u.part = "body"
                         /\ resp[t].of = u.of
           IN  resp' = [resp EXCEPT ![t] =
                          [part |-> "body", of |-> u.of,
                           kind |-> IF framed THEN u.kind ELSE "garbled"]]
    BY <1>5 DEF call_recv_body
  <2>2. PICK k \in Answers : /\ toSrv[c] = <<>> /\ Done(call[t])
                             /\ resp[t] = Word(call[t], k)
                             /\ toCli[c] = <<Body(call[t], k)>>
    BY <1>0, <2>1 DEF OnWire, AtRecvBody
  <2>3. Head(toCli[c]) = Body(call[t], k) /\ toCli'[c] = <<>>
    BY <1>0, <2>1, <2>2, Pieces
  <2>4. resp'[t] = Body(call[t], k)
    BY <1>0, <2>1, <2>2, <2>3 DEF Word, Body
  <2>5. pc'[t] = "parse" /\ ret'[t] = "OK"
    BY <1>0, <2>1 DEF OnWire
  <2> QED
    BY <1>0, <1>00, <2>1, <2>2, <2>3, <2>4, <2>5 DEF OnWire, AtParse, Quiet, Unsent
<1>6. CASE call_parse(t)
  <2>1. pc[t] = "parse" /\ UNCHANGED <<toSrv, toCli, resp>>
    BY <1>6 DEF call_parse, wireVars
  <2>2. PICK r \in Outcomes(t) : Fail(t, r)
    BY <1>6 DEF call_parse
  <2>3. pc'[t] = "done" /\ ret'[t] = r
    BY <1>0, <2>2
  <2>4. CASE ret[t] = "DEVICE_ERROR"
    <3>1. r = "DEVICE_ERROR"
      BY <2>4 DEF Outcomes
    <3> QED
      BY <2>3, <3>1 DEF OnWire, AtDone, Unsent
  <2>5. CASE ret[t] = "OK"
    <3>1. PICK k \in Answers : /\ Quiet(c) /\ Done(call[t])
                               /\ resp[t] = Body(call[t], k)
      BY <1>0, <2>1, <2>5 DEF OnWire, AtParse
    <3>2. r = "OK" => k = "ok"
      BY <2>5, <3>1 DEF Outcomes, Body, Answers
    <3> QED
      BY <1>0, <1>00, <2>1, <2>3, <3>1, <3>2 DEF OnWire, AtDone, Quiet, Unsent
  <2> QED
    BY <1>0, <2>1, <2>4, <2>5 DEF OnWire, AtParse
<1> QED
  BY <1>1, <1>2, <1>3, <1>4, <1>5, <1>6

\* A CallState goes back to the pool only with nothing on its connection.
LEMMA WireDone ==
  ASSUME IInv, WireInv, NEW t \in Threads, call_done(t)
  PROVE  WireInv'
<1>0. /\ pc[t] = "done" /\ nalloc \in Nat /\ pool \in Seq(CallStates)
      /\ UNCHANGED <<toSrv, toCli, executed, nalloc, call, resp>>
  BY CallPoolAssumption
  DEF call_done, At, wireVars, IInv, TypeOK, CallStatesOK, PoolOK
<1>1. /\ pc'[t] = "idle"
      /\ \A u \in Threads : u # t => pc'[u] = pc[u] /\ ret'[u] = ret[u] /\ cs'[u] = cs[u]
  BY DEF call_done, Return, Goto, Yield, IInv, TypeOK, ThreadsOK
<1>2. CASE UNCHANGED pool
  BY <1>0, <1>1, <1>2, WireAway
<1>3. CASE Poolable(cs[t], ret[t]) /\ Stash(cs[t])
  <2>1. cs[t] \in CallStates
    BY <1>0, HoldsOne DEF IInv, Holding
  <2>2. Quiet(cs[t])
    BY <1>0, <1>3 DEF Poolable, WireInv, OnWire, AtDone
  <2>3. /\ pool' = Append(pool, cs[t]) /\ Len(pool) \in Nat
        /\ DOMAIN pool' = 1 .. Len(pool) + 1 /\ DOMAIN pool = 1 .. Len(pool)
        /\ \A i \in 1 .. Len(pool) : pool'[i] = pool[i]
        /\ pool'[Len(pool) + 1] = cs[t]
    BY <1>0, <1>3, <2>1 DEF Stash
  <2>4. ASSUME NEW i \in DOMAIN pool' PROVE toSrv'[pool'[i]] = <<>> /\ toCli'[pool'[i]] = <<>>
    <3>1. i \in 1 .. Len(pool) \/ i = Len(pool) + 1
      BY <2>3
    <3> QED
      BY <1>0, <2>2, <2>3, <3>1 DEF Quiet, WireInv, Quiescent
  <2>5. Quiescent'
    BY <2>4 DEF Quiescent
  <2>6. \A u \in Threads : u # t => OnWire(u)'
    <3> SUFFICES ASSUME NEW u \in Threads, u # t PROVE OnWire(u)'
      OBVIOUS
    <3>1. \A n : Done(n) => Done(n)'
      BY <1>0 DEF Done
    <3>2. OnWire(u)
      BY DEF WireInv
    <3> QED
      BY <1>0, <1>1, <3>1, <3>2, OnWireFrame
  <2>7. OnWire(t)'
    BY <1>1 DEF OnWire, Unsent
  <2>8. Unborn'
    BY <1>0 DEF WireInv, Unborn, Quiet
  <2> QED
    BY <2>5, <2>6, <2>7, <2>8 DEF WireInv
<1> QED
  BY <1>2, <1>3 DEF call_done, call_destroy, poolVars

\* A daemon that executes a request puts its answer behind it.
LEMMA WireServe ==
  ASSUME IInv, WireInv, NEW c \in CallStates, Serve(c)
  PROVE  WireInv'
<1>0. PICK n \in CallNos : n = Head(toSrv[c])
  <2>1. toSrv[c] \in Seq(CallNos) /\ toSrv[c] # <<>>
    BY DEF Serve, IInv, TypeOK, WireOK
  <2> QED
    BY <2>1, Taken
<1>1. /\ UNCHANGED <<pc, cs, call, ret, resp, pool, nalloc>> /\ toSrv[c] # <<>>
      /\ toSrv' = [toSrv EXCEPT ![c] = Tail(@)]
      /\ executed' = Append(executed, n)
      /\ toSrv \in [CallStates -> Seq(CallNos)] /\ toCli \in [CallStates -> Seq(Units)]
      /\ executed \in Seq(CallNos)
  BY <1>0 DEF Serve, thrVars, poolVars, csVars, IInv, TypeOK, WireOK
<1>2. PICK k \in Answers : toCli' = [toCli EXCEPT ![c] = @ \o <<Word(n, k), Body(n, k)>>]
  BY <1>0 DEF Serve, Answers, Word, Body
<1>3. (\A m : Done(m) => Done(m)') /\ Done(n)'
  <2>1. /\ DOMAIN executed = 1 .. Len(executed) /\ Len(executed) \in Nat
        /\ DOMAIN executed' = 1 .. Len(executed) + 1
        /\ \A i \in 1 .. Len(executed) : executed'[i] = executed[i]
        /\ executed'[Len(executed) + 1] = n
    BY <1>1, <1>0, Appended
  <2>2. \A i \in 1 .. Len(executed) : i \in 1 .. Len(executed) + 1
    BY <2>1
  <2>3. Len(executed) + 1 \in 1 .. Len(executed) + 1
    BY <2>1
  <2>4. ASSUME NEW m, Done(m) PROVE Done(m)'
    <3>1. PICK i \in 1 .. Len(executed) : executed[i] = m
      BY <2>1, <2>4 DEF Done
    <3> QED
      BY <2>1, <2>2, <3>1 DEF Done
  <2>5. Done(n)'
    BY <2>1, <2>3 DEF Done
  <2> QED
    BY <2>4, <2>5
<1>4. \A d \in CallStates : d # c => toSrv'[d] = toSrv[d] /\ toCli'[d] = toCli[d]
  BY <1>1, <1>2
<1>5. ASSUME NEW t \in Threads PROVE OnWire(t)'
  <2>0. OnWire(t)
    BY DEF WireInv
  <2>1. CASE pc[t] \in Holding => cs[t] # c
    <3>1. pc[t] \in Holding => cs[t] \in CallStates
      BY HoldsOne DEF IInv
    <3> QED
      BY <1>1, <1>3, <1>4, <2>0, <2>1, <3>1, OnWireFrame
  <2>2. CASE pc[t] \in Holding /\ cs[t] = c /\ pc[t] # "recv_len"
    <3>1. pc[t] \in {"parse", "done"} /\ ret[t] = "DEVICE_ERROR"
      BY <1>1, <2>0, <2>2
      DEF Holding, OnWire, AtPrepare, AtRecvBody, AtParse, AtDone, Quiet
    <3> QED
      BY <1>1, <3>1 DEF OnWire, AtParse, AtDone, Unsent
  <2>3. CASE cs[t] = c /\ pc[t] = "recv_len"
    <3>1. toSrv[c] = <<call[t]>> /\ toCli[c] = <<>> /\ ret[t] = "OK"
      BY <1>1, <2>0, <2>3 DEF OnWire, AtRecvLen
    <3>2. n = call[t] /\ toSrv'[c] = <<>>
      BY <1>1, <1>0, <3>1, Pieces
    <3>3. toCli'[c] = <<Word(n, k), Body(n, k)>>
      BY <1>1, <1>2, <3>1, Pieces
    <3>4. AtRecvLen(t)'
      <4>1. Done(call[t])'
        BY <1>1, <1>3, <3>2 DEF Done
      <4> QED
        BY <1>1, <2>3, <3>2, <3>3, <4>1 DEF AtRecvLen
    <3> QED
      BY <1>1, <2>3, <3>1, <3>4 DEF OnWire, Unsent
  <2> QED
    BY <2>1, <2>2, <2>3
<1>6. Quiescent'
  <2>1. \A i \in DOMAIN pool : pool[i] \in CallStates /\ pool[i] # c
    BY <1>1 DEF WireInv, Quiescent, IInv, TypeOK, PoolOK
  <2> QED
    BY <1>1, <1>4, <2>1 DEF WireInv, Quiescent
<1>7. Unborn'
  BY <1>1, <1>4 DEF WireInv, Unborn, Quiet
<1> QED
  BY <1>5, <1>6, <1>7 DEF WireInv

\* No step leaves anything on a connection that the next call would read.
LEMMA WireStep == ~MemFails /\ IInv /\ WireInv /\ [Next]_vars => WireInv'
<1> SUFFICES ASSUME ~MemFails, IInv, WireInv, [Next]_vars PROVE WireInv'
  OBVIOUS
<1>1. ASSUME UNCHANGED <<pc, cs, call, ret, resp, pool, nalloc, toSrv, toCli, executed>>
      PROVE  WireInv'
  BY <1>1
  DEF WireInv, Unborn, Quiescent, OnWire, AtPrepare, AtRecvLen, AtRecvBody, AtParse,
      AtDone, Quiet, Done
<1>2. ASSUME NEW c \in CallStates, DaemonCloses(c) PROVE WireInv'
  BY <1>1, <1>2 DEF DaemonCloses, thrVars, poolVars, csVars
<1>3. CASE UNCHANGED vars
  BY <1>1, <1>3 DEF vars, thrVars, poolVars, csVars, wireVars
<1>4. ASSUME NEW t \in Threads, Application(t) \/ Progress(t) PROVE WireInv'
  BY <1>4, WireEnter, WireGet, WireUse, WireDone DEF Application, Progress
<1> QED
  BY <1>2, <1>3, <1>4, WireServe DEF Next

\* There is nothing on any connection at first.
LEMMA WireInit == Init => WireInv
<1> SUFFICES ASSUME Init PROVE WireInv
  OBVIOUS
<1> QED
  BY DEF Init, WireInv, Unborn, Quiescent, Quiet, OnWire, Unsent

\* What a thread finds at the end is the right answer.
LEMMA AnswerIsRight == Numbered /\ WireInv => RightAnswer
<1> SUFFICES ASSUME Numbered, WireInv, NEW t \in Threads, pc[t] = "done", ret[t] = "OK"
             PROVE  /\ resp[t].of = call[t] /\ resp[t].kind = "ok"
                    /\ \E i \in DOMAIN executed :
                         \A j \in DOMAIN executed : executed[j] = call[t] <=> i = j
  BY DEF RightAnswer
<1>1. Done(call[t]) /\ resp[t] = Body(call[t], "ok")
  BY DEF WireInv, OnWire, AtDone
<1>2. PICK i \in DOMAIN executed : executed[i] = call[t]
  BY <1>1 DEF Done
<1>3. \A j \in DOMAIN executed : executed[j] = call[t] <=> i = j
  BY <1>2 DEF Numbered, ExecutedOnce
<1> QED
  BY <1>1, <1>3 DEF Body

-----------------------------------------------------------------------------
(* Descriptors.                                                            *)

\* CallStates that are not made yet are as Init left them.
Newborn ==
  \A c \in CallStates : c > nalloc => ~sock[c] /\ status[c] = "none" /\ Quiet(c)

\* The descriptors of CallStates other than c, which t works on, are where they
\* were; that of c is accounted for by t.
LEMMA AccountOwn ==
  ASSUME IInv, Newborn, DescriptorsAccounted, NEW t \in Threads, cs[t] \in CallStates,
         UNCHANGED <<pool, nalloc, cs>>,
         \A d \in CallStates : d # cs[t] =>
           /\ sock'[d] = sock[d] /\ status'[d] = status[d]
           /\ toSrv'[d] = toSrv[d] /\ toCli'[d] = toCli[d]
  PROVE  Newborn' /\ DescriptorsAccounted'
<1>1. \A d \in CallStates : Owned(d)' <=> Owned(d)
  BY DEF Owned
<1>2. Owned(cs[t]) /\ cs[t] <= nalloc
  BY DEF Owned, IInv, ExclusiveUse, HeldByOne
<1>3. Newborn'
  BY <1>2 DEF Newborn, Quiet, IInv, TypeOK, CallStatesOK, CallStates
<1>4. DescriptorsAccounted'
  BY <1>1, <1>2 DEF DescriptorsAccounted
<1> QED
  BY <1>3, <1>4

\* Every step keeps the account.
LEMMA AccountStep ==
  ASSUME IInv, Newborn, DescriptorsAccounted, [Next]_vars
  PROVE  Newborn' /\ DescriptorsAccounted'
<1>0. nalloc \in Nat /\ CallStates \subseteq Nat /\ TypeOK /\ ExclusiveUse
  BY DEF IInv, TypeOK, CallStatesOK, CallStates
<1>1. CASE UNCHANGED <<pool, nalloc, cs, sock, status, toSrv, toCli>>
  BY <1>1 DEF Newborn, Quiet, DescriptorsAccounted, Owned
<1>2. ASSUME NEW t \in Threads,
             Application(t) \/ InitializeLocked(t) \/ FinalizeLocked(t) \/ call_connect_assert(t)
      PROVE  Newborn' /\ DescriptorsAccounted'
  BY <1>1, <1>2
  DEF Application, BeginCall, C_Initialize, C_Finalize, InitializeLocked, FinalizeLocked,
      call_connect_assert, csVars, poolVars, wireVars, thrVars
<1>3. ASSUME NEW t \in Threads, call_lookup(t) PROVE Newborn' /\ DescriptorsAccounted'
  <2>1. UNCHANGED <<nalloc, sock, status, toSrv, toCli>>
    BY <1>3 DEF call_lookup, csVars, wireVars
  <2>2. ASSUME NEW d \in CallStates, Owned(d) PROVE Owned(d)'
    <3>1. CASE pool = <<>>
      BY <1>3, <2>2, <3>1 DEF call_lookup, poolVars, Owned
    <3>2. CASE pool # <<>>
      <4> DEFINE rest == SubSeq(pool, 1, Len(pool) - 1)
      <4>1. /\ Len(pool) \in Nat \ {0} /\ DOMAIN pool = 1 .. Len(pool)
            /\ DOMAIN rest = 1 .. Len(pool) - 1
            /\ \A i \in 1 .. Len(pool) - 1 : rest[i] = pool[i]
        BY <1>0, <3>2, LastOfPool
      <4>2. pool' = rest /\ cs' = [cs EXCEPT ![t] = pool[Len(pool)]] /\ cs[t] = 0
        BY <1>0, <1>3, <3>2 DEF call_lookup, At, ExclusiveUse, HeldByOne, Holding
      <4>3. cs'[t] = pool[Len(pool)] /\ \A u \in Threads : u # t => cs'[u] = cs[u]
        BY <1>0, <4>2 DEF TypeOK, ThreadsOK
      <4> HIDE DEF rest
      <4>4. CASE \E u \in Threads : cs[u] = d
        BY <1>0, <4>2, <4>3, <4>4 DEF Owned, CallStates
      <4>5. CASE \E i \in DOMAIN pool : pool[i] = d
        <5>1. PICK i \in 1 .. Len(pool) : pool[i] = d
          BY <4>1, <4>5
        <5>2. CASE i = Len(pool)
          BY <4>3, <5>1, <5>2 DEF Owned
        <5>3. CASE i # Len(pool)
          <6>a. \A n \in Nat : \A j \in 1 .. n : j # n => j \in 1 .. n - 1
            OBVIOUS
          <6>b. Len(pool) \in Nat
            BY <4>1
          <6>1. i \in 1 .. Len(pool) - 1
            BY <5>3, <6>a, <6>b
          <6>2. i \in DOMAIN pool' /\ pool'[i] = d
            BY <4>1, <4>2, <5>1, <6>1
          <6> QED
            BY <6>2 DEF Owned
        <5> QED
          BY <5>2, <5>3
      <4> QED
        BY <2>2, <4>4, <4>5 DEF Owned
    <3> QED
      BY <3>1, <3>2
  <2> QED
    BY <2>1, <2>2 DEF Newborn, Quiet, DescriptorsAccounted
<1>4. ASSUME NEW t \in Threads, call_connect_ok(t) PROVE Newborn' /\ DescriptorsAccounted'
  <2>1. /\ nalloc' = nalloc + 1 /\ UNCHANGED <<pool, toSrv, toCli>> /\ cs[t] = 0
        /\ cs' = [cs EXCEPT ![t] = nalloc + 1] /\ sock' = [sock EXCEPT ![nalloc + 1] = TRUE]
        /\ status' = [status EXCEPT ![nalloc + 1] = "READY"]
    BY <1>0, <1>4 DEF call_connect_ok, poolVars, At, ExclusiveUse, HeldByOne, Holding
  <2>2. cs'[t] = nalloc + 1 /\ \A u \in Threads : u # t => cs'[u] = cs[u]
    BY <1>0, <2>1 DEF TypeOK, ThreadsOK
  <2>3. \A d \in CallStates : d # nalloc + 1 => sock'[d] = sock[d] /\ status'[d] = status[d]
    BY <1>0, <2>1 DEF TypeOK, CallStatesOK
  <2>4. \A d \in CallStates : Owned(d) \/ d = nalloc + 1 => Owned(d)'
    BY <1>0, <2>1, <2>2 DEF Owned, CallStates
  <2>5. Newborn'
    BY <1>0, <2>1, <2>3 DEF Newborn, Quiet
  <2> QED
    BY <2>1, <2>3, <2>4, <2>5 DEF DescriptorsAccounted
<1>5. ASSUME NEW t \in Threads, call_connect_fail(t) PROVE Newborn' /\ DescriptorsAccounted'
  <2>1. CASE UNCHANGED csVars
    BY <1>1, <1>5, <2>1 DEF call_connect_fail, csVars, poolVars
  <2>2. CASE ~UNCHANGED csVars
    <3>1. /\ nalloc' = nalloc + 1 /\ UNCHANGED <<pool, cs, status, toSrv, toCli>>
          /\ sock' = [sock EXCEPT ![nalloc + 1] = TRUE] /\ nalloc < MaxConns
      BY <1>5, <2>2 DEF call_connect_fail, poolVars
    <3>2. \A d \in CallStates : d # nalloc + 1 => sock'[d] = sock[d]
      BY <1>0, <3>1 DEF TypeOK, CallStatesOK
    <3>3. nalloc + 1 \in CallStates => status[nalloc + 1] = "none" /\ Quiet(nalloc + 1)
      BY <1>0 DEF Newborn
    <3>4. Newborn'
      BY <1>0, <3>1, <3>2 DEF Newborn, Quiet
    <3>5. DescriptorsAccounted'
      BY <3>1, <3>2, <3>3 DEF DescriptorsAccounted, Owned, Quiet
    <3> QED
      BY <3>4, <3>5
  <2> QED
    BY <2>1, <2>2
<1>6. ASSUME NEW t \in Threads,
             call_prepare(t) \/ call_send(t) \/ call_recv_len(t) \/ call_recv_body(t)
               \/ call_parse(t)
      PROVE  Newborn' /\ DescriptorsAccounted'
  <2>1. cs[t] \in CallStates
    BY <1>0, <1>6, HoldsOne
    DEF call_prepare, call_send, call_recv_len, call_recv_body, call_parse, At, Holding
  <2>2. UNCHANGED <<pool, nalloc, cs>>
    BY <1>6 DEF call_prepare, call_send, call_recv_len, call_recv_body, call_parse, poolVars, csVars
  <2>3. \A d \in CallStates : d # cs[t] => sock'[d] = sock[d] /\ status'[d] = status[d]
    BY <1>0, <1>6
    DEF call_prepare, call_send, call_recv_len, call_recv_body, RecvFails, call_parse,
        TypeOK, CallStatesOK
  <2>4. \A d \in CallStates : d # cs[t] => toSrv'[d] = toSrv[d] /\ toCli'[d] = toCli[d]
    BY <1>0, <1>6
    DEF call_prepare, call_send, call_recv_len, call_recv_body, RecvFails, call_parse, wireVars,
        TypeOK, WireOK
  <2> QED
    BY <2>1, <2>2, <2>3, <2>4, AccountOwn
<1>7. ASSUME NEW t \in Threads, call_done(t) PROVE Newborn' /\ DescriptorsAccounted'
  <2>1. PICK c \in CallStates : c = cs[t] /\ c <= nalloc
    BY <1>0, <1>7, HoldsOne DEF call_done, At, Holding, ExclusiveUse, HeldByOne
  <2>2. UNCHANGED <<nalloc, toSrv, toCli>> /\ cs' = [cs EXCEPT ![t] = 0]
    BY <1>7 DEF call_done, wireVars
  <2>3. \A u \in Threads : u # t => cs'[u] = cs[u]
    BY <1>0, <2>2 DEF TypeOK, ThreadsOK
  <2>4. CASE Stash(c)
    <3>1. /\ \A d \in CallStates : sock'[d] = sock[d] /\ (d # c => status'[d] = status[d])
          /\ pool' = Append(pool, c)
      BY <1>0, <2>4 DEF Stash, TypeOK, CallStatesOK
    <3>2. /\ Len(pool) \in Nat /\ DOMAIN pool = 1 .. Len(pool) /\ DOMAIN pool' = 1 .. Len(pool) + 1
          /\ \A i \in 1 .. Len(pool) : pool'[i] = pool[i]
          /\ pool'[Len(pool) + 1] = c
      <4>1. pool \in Seq(CallStates)
        BY <1>0 DEF TypeOK, PoolOK
      <4> QED
        BY <2>1, <3>1, <4>1, AppendProperties, LenProperties
    <3>3. \A d \in CallStates : Owned(d) => Owned(d)'
      <4> SUFFICES ASSUME NEW d \in CallStates, Owned(d) PROVE Owned(d)'
        OBVIOUS
      <4>1. CASE d = c
        BY <3>2, <4>1 DEF Owned
      <4>2. CASE d # c /\ \E u \in Threads : cs[u] = d
        BY <2>1, <2>3, <4>2 DEF Owned
      <4>3. CASE \E i \in DOMAIN pool : pool[i] = d
        BY <3>2, <4>3 DEF Owned
      <4> QED
        BY <4>1, <4>2, <4>3 DEF Owned
    <3>4. Owned(c)'
      BY <3>2 DEF Owned
    <3>5. Newborn'
      BY <1>0, <2>1, <2>2, <3>1 DEF Newborn, Quiet
    <3>6. DescriptorsAccounted'
      <4> SUFFICES ASSUME NEW d \in CallStates, sock'[d], ~Owned(d)'
                   PROVE  status'[d] = "none" /\ toSrv'[d] = <<>> /\ toCli'[d] = <<>>
        BY DEF DescriptorsAccounted
      <4>1. d # c /\ ~Owned(d) /\ sock[d]
        BY <3>1, <3>3, <3>4
      <4> QED
        BY <2>2, <3>1, <4>1 DEF DescriptorsAccounted
    <3> QED
      BY <3>5, <3>6
  <2>5. CASE call_destroy(c)
    <3>1. /\ ~sock'[c] /\ UNCHANGED pool
          /\ \A d \in CallStates : d # c => sock'[d] = sock[d] /\ status'[d] = status[d]
      BY <1>0, <2>1, <2>5 DEF call_destroy, poolVars, TypeOK, CallStatesOK
    <3>2. \A d \in CallStates : d # c /\ Owned(d) => Owned(d)'
      BY <2>1, <2>3, <3>1 DEF Owned
    <3>3. Newborn'
      BY <1>0, <2>1, <2>2, <3>1 DEF Newborn, Quiet
    <3>4. DescriptorsAccounted'
      BY <2>2, <3>1, <3>2 DEF DescriptorsAccounted
    <3> QED
      BY <3>3, <3>4
  <2> QED
    BY <1>7, <2>1, <2>4, <2>5 DEF call_done
<1>8. ASSUME NEW c \in CallStates, Serve(c) PROVE Newborn' /\ DescriptorsAccounted'
  <2>1. /\ UNCHANGED <<pool, nalloc, cs, sock, status>> /\ toSrv[c] # <<>>
        /\ \A d \in CallStates : d # c => toSrv'[d] = toSrv[d] /\ toCli'[d] = toCli[d]
    BY <1>0, <1>8 DEF Serve, poolVars, csVars, thrVars, TypeOK, WireOK
  <2>2. c <= nalloc /\ (sock[c] => Owned(c))
    BY <1>0, <2>1 DEF Newborn, Quiet, DescriptorsAccounted
  <2>3. \A d \in CallStates : Owned(d)' <=> Owned(d)
    BY <2>1 DEF Owned
  <2>4. Newborn'
    BY <1>0, <2>1, <2>2 DEF Newborn, Quiet
  <2>5. DescriptorsAccounted'
    BY <2>1, <2>2, <2>3 DEF DescriptorsAccounted
  <2> QED
    BY <2>4, <2>5
<1>9. ASSUME NEW c \in CallStates, DaemonCloses(c) PROVE Newborn' /\ DescriptorsAccounted'
  BY <1>1, <1>9 DEF DaemonCloses, poolVars, csVars, thrVars
<1>10. CASE UNCHANGED vars
  BY <1>1, <1>10 DEF vars, poolVars, csVars, wireVars, thrVars
<1> QED
  BY <1>2, <1>3, <1>4, <1>5, <1>6, <1>7, <1>8, <1>9, <1>10 DEF Next, Progress

-----------------------------------------------------------------------------
\* A request is executed at most once by the daemons, whatever fails:
\* allocations, send(), recv(), connections or daemons.  call_run never sends
\* a request again, and a connection that failed is not used for another
\* attempt.
THEOREM AtMostOnce == Spec => []ExecutedOnce
<1>1. Init => IInv /\ Numbered
  BY TypeInit, ExclusiveInit, StatusInit, NumberedInit DEF IInv
<1>2. IInv /\ Numbered /\ [Next]_vars => (IInv /\ Numbered)'
  BY TypeStep, ExclusiveStep, StatusStep, NumberedStep DEF IInv
<1>3. Numbered => ExecutedOnce
  BY DEF Numbered
<1> QED
  BY <1>1, <1>2, <1>3, PTL DEF Spec

\* Both of the following: they share their invariant.
LEMMA QuietAndRight == ~MemFails /\ Spec => [](Quiescent /\ RightAnswer)
<1> DEFINE Inv == ~MemFails /\ IInv /\ Numbered /\ WireInv
<1>1. ~MemFails /\ Init => Inv
  BY TypeInit, ExclusiveInit, StatusInit, NumberedInit, WireInit DEF IInv
<1>2. Inv /\ [Next]_vars => Inv'
  BY TypeStep, ExclusiveStep, StatusStep, NumberedStep, WireStep DEF IInv
<1>3. Inv => Quiescent /\ RightAnswer
  BY AnswerIsRight DEF WireInv
<1> QED
  BY <1>1, <1>2, <1>3, PTL DEF Spec

\* As long as no allocation fails, call_done pools no connection with a
\* request or a part of a response still on it: with any number of threads,
\* pool size, send errors, and daemons that close the connection at any
\* moment.
THEOREM PoolIsQuiet == ~MemFails /\ Spec => []Quiescent
  BY QuietAndRight, PTL

\* Under the same condition a C_* function that returns CKR_OK has read the
\* daemon's answer to its own request, which was executed exactly once.
THEOREM OwnAnswer == ~MemFails /\ Spec => []RightAnswer
  BY QuietAndRight, PTL

\* Whatever fails (allocations, TLS, the application id, send(), recv(), the
\* daemon), and for any number of threads and size of the pool, the descriptors
\* that are open are those of pooled CallStates and of CallStates in use, and
\* those that call_connect gave up, on which no request was sent.
THEOREM EveryDescriptorAccounted == Spec => []DescriptorsAccounted
<1> DEFINE Inv == IInv /\ Newborn /\ DescriptorsAccounted
<1>1. Init => Inv
  <2>1. Init => Newborn /\ DescriptorsAccounted
    BY DEF Init, Newborn, Quiet, DescriptorsAccounted
  <2> QED
    BY <2>1, TypeInit, ExclusiveInit, StatusInit DEF IInv
<1>2. Inv /\ [Next]_vars => Inv'
  BY TypeStep, ExclusiveStep, StatusStep, AccountStep DEF IInv
<1> QED
  BY <1>1, <1>2, PTL DEF Spec

-----------------------------------------------------------------------------
(* The promise of the client library.                                      *)

\* The state of RemoteCall, as the refinement maps it.
Busy  == [t \in Threads |-> pc[t] # "idle" /\ ~aborted]
Final == [t \in Threads |-> op[t] = "C_Finalize"]
Ok    == [t \in Threads |-> pc[t] = "idle" => ret[t] = "OK"]

\* What was executed, when nothing was executed twice.
LEMMA AsSet ==
  ASSUME NEW e \in Seq(CallNos), \A i, j \in DOMAIN e : e[i] = e[j] => i = j
  PROVE  {j \in DOMAIN e : \E k \in DOMAIN e : k < j /\ e[k] = e[j]} = {}
<1>1. DOMAIN e = 1 .. Len(e) /\ Len(e) \in Nat
  OBVIOUS
<1> QED
  BY <1>1

LEMMA ExecutedAsSet ==
  ASSUME ExecutedOnce, executed \in Seq(CallNos)
  PROVE  ExecutedCalls = {executed[i] : i \in DOMAIN executed}
<1>1. {j \in DOMAIN executed :
         \E k \in DOMAIN executed : k < j /\ executed[k] = executed[j]} = {}
  BY AsSet DEF ExecutedOnce
<1> QED
  BY <1>1 DEF ExecutedCalls

\* Steps that RemoteCall does not see.
LEMMA Unseen ==
  ASSUME UNCHANGED <<aborted, ncalls, call, op, executed>>,
         \A u \in Threads : /\ pc'[u] = "idle" <=> pc[u] = "idle"
                            /\ pc[u] = "idle" => ret'[u] = ret[u]
  PROVE  UNCHANGED Remote!vars
<1>1. Busy' = Busy /\ Final' = Final /\ Ok' = Ok
  BY DEF Busy, Final, Ok
<1>2. ExecutedCalls' = ExecutedCalls
  BY DEF ExecutedCalls
<1> QED
  BY <1>1, <1>2 DEF Remote!vars, Busy, Final, Ok

\* A thread enters a C_* function.
LEMMA Begins ==
  ASSUME TypeOK, NEW t \in Threads, NEW o \in Ops, NEW l \in {"lock", "lookup"},
         At(t, "idle"), NewCall(t, o, l), UNCHANGED <<aborted, executed>>
  PROVE  \E f \in BOOLEAN : Remote!Begin(t, f)
<1>0. /\ pc \in [Threads -> Locations] /\ op \in [Threads -> Ops]
      /\ ret \in [Threads -> Codes] /\ ~aborted /\ pc[t] = "idle"
  BY DEF TypeOK, ThreadsOK, At
<1>1. Busy' = [Busy EXCEPT ![t] = TRUE] /\ Busy[t] = FALSE
  BY <1>0 DEF NewCall, Goto, Busy
<1>2. Final' = [Final EXCEPT ![t] = (o = "C_Finalize")]
  BY <1>0 DEF NewCall, Final
<1>3. Ok' = [Ok EXCEPT ![t] = TRUE]
  BY <1>0 DEF NewCall, Goto, Yield, Ok
<1>4. ExecutedCalls' = ExecutedCalls
  BY DEF ExecutedCalls
<1> QED
  BY <1>0, <1>1, <1>2, <1>3, <1>4 DEF Remote!Begin, NewCall, Busy, Final, Ok

\* A C_* function is refused because the library is not initialized.
LEMMA Refuses ==
  ASSUME TypeOK, NEW t \in Threads, At(t, "idle"), Yield(t, "NOT_INITIALIZED"),
         UNCHANGED <<aborted, ncalls, call, op, pc, executed>>
  PROVE  Remote!Refuse(t)
<1>0. ret \in [Threads -> Codes] /\ ~aborted /\ pc[t] = "idle"
  BY DEF TypeOK, ThreadsOK, At
<1>1. Busy' = Busy /\ Final' = Final /\ Busy[t] = FALSE
  BY <1>0 DEF Busy, Final
<1>2. Ok' = [Ok EXCEPT ![t] = FALSE]
  BY <1>0 DEF Yield, Ok
<1>3. ExecutedCalls' = ExecutedCalls
  BY DEF ExecutedCalls
<1> QED
  BY <1>0, <1>1, <1>2, <1>3 DEF Remote!Refuse, Busy, Final, Ok

\* A C_* function returns: with success only if its call was executed, or if
\* it is C_Finalize.
LEMMA Returns ==
  ASSUME TypeOK, NEW t \in Threads, ~aborted, pc[t] # "idle", Goto(t, "idle"),
         NEW r \in Codes, Yield(t, r),
         r = "OK" => op[t] = "C_Finalize" \/ call[t] \in ExecutedCalls,
         UNCHANGED <<aborted, ncalls, call, op, executed>>
  PROVE  \E b \in BOOLEAN : Remote!Return(t, b)
<1>0. /\ ret \in [Threads -> Codes] /\ pc \in [Threads -> Locations]
      /\ pc'[t] = "idle" /\ ret'[t] = r
  BY DEF TypeOK, ThreadsOK, Goto, Yield
<1>1. Busy' = [Busy EXCEPT ![t] = FALSE] /\ Busy[t] = TRUE /\ Final' = Final
  BY <1>0 DEF Busy, Final, Goto
<1>2. Ok' = [Ok EXCEPT ![t] = (r = "OK")]
  BY <1>0 DEF Ok, Goto, Yield
<1>3. ExecutedCalls' = ExecutedCalls
  BY DEF ExecutedCalls
<1>4. (r = "OK") => Final[t] \/ call[t] \in ExecutedCalls
  BY DEF Final
<1> QED
  BY <1>0, <1>1, <1>2, <1>3, <1>4 DEF Remote!Return, Busy, Final, Ok

\* The assertion of call_connect fails.
LEMMA Aborts ==
  ASSUME ~aborted, aborted', UNCHANGED <<ncalls, call, op, pc, ret, executed>>
  PROVE  Remote!Abort
<1>1. Busy' = [t \in Threads |-> FALSE] /\ Final' = Final /\ Ok' = Ok
  BY DEF Busy, Final, Ok
<1>2. ExecutedCalls' = ExecutedCalls
  BY DEF ExecutedCalls
<1> QED
  BY <1>1, <1>2 DEF Remote!Abort, Busy, Final, Ok

\* A daemon executes a request: one that was made, and not executed before.
LEMMA ExecutesOnce ==
  ASSUME IInv, Numbered, IInv', Numbered', NEW c \in CallStates, Serve(c)
  PROVE  \E n \in 1 .. MaxCalls : Remote!Execute(n)
<1>0. /\ toSrv[c] \in Seq(CallNos) /\ toSrv[c] # <<>> /\ executed \in Seq(CallNos)
      /\ executed' \in Seq(CallNos) /\ ncalls \in CallNos
      /\ executed' = Append(executed, Head(toSrv[c]))
      /\ UNCHANGED <<aborted, ncalls, call, op, pc, ret>>
  BY DEF Serve, IInv, TypeOK, WireOK, ThreadsOK, globals, thrVars
<1>1. PICK n \in CallNos : n = Head(toSrv[c])
  BY <1>0, Taken
<1>2. n = toSrv[c][1] /\ 1 \in DOMAIN toSrv[c]
  BY <1>0, <1>1, Taken
<1>3. n \in 1 .. ncalls /\ \A i \in DOMAIN executed : executed[i] # n
  BY <1>2 DEF Numbered, Issued, SentOnce
<1>4. ExecutedCalls = {executed[i] : i \in DOMAIN executed}
  BY <1>0, ExecutedAsSet DEF Numbered
<1>5. ExecutedCalls' = {executed'[i] : i \in DOMAIN executed'}
  <2>1. {j \in DOMAIN executed' :
           \E k \in DOMAIN executed' : k < j /\ executed'[k] = executed'[j]} = {}
    BY <1>0, AsSet DEF Numbered, ExecutedOnce
  <2> QED
    BY <2>1 DEF ExecutedCalls
<1>6. ExecutedCalls' = ExecutedCalls \cup {n} /\ n \notin ExecutedCalls
  <2>1. /\ DOMAIN executed = 1 .. Len(executed) /\ Len(executed) \in Nat
        /\ DOMAIN executed' = 1 .. Len(executed) + 1
        /\ \A i \in 1 .. Len(executed) : executed'[i] = executed[i]
        /\ executed'[Len(executed) + 1] = n
    BY <1>0, <1>1, Appended
  <2> QED
    BY <1>3, <1>4, <1>5, <2>1
<1>7. Busy' = Busy /\ Final' = Final /\ Ok' = Ok
  BY <1>0 DEF Busy, Final, Ok
<1>8. n \in 1 .. MaxCalls
  BY <1>0, <1>3, CallPoolAssumption DEF CallNos
<1>9. Remote!Execute(n)
  BY <1>0, <1>3, <1>6, <1>7 DEF Remote!Execute, Busy, Final, Ok
<1> QED
  BY <1>8, <1>9

\* A thread that returns from call_done with CKR_OK had its call executed.
LEMMA DoneMeansExecuted ==
  ASSUME IInv, Numbered, WireInv, NEW t \in Threads, pc[t] = "done", ret[t] = "OK"
  PROVE  call[t] \in ExecutedCalls
<1>1. Done(call[t])
  BY DEF WireInv, OnWire, AtDone
<1>2. ExecutedCalls = {executed[i] : i \in DOMAIN executed}
  BY ExecutedAsSet DEF Numbered, IInv, TypeOK, WireOK
<1> QED
  BY <1>1, <1>2 DEF Done

\* Entering a C_* function begins a call, or is refused.
LEMMA RefinesEnter ==
  ASSUME IInv, NEW t \in Threads, Application(t)
  PROVE  (\E f \in BOOLEAN : Remote!Begin(t, f)) \/ Remote!Refuse(t)
<1>1. TypeOK /\ At(t, "idle") /\ UNCHANGED <<aborted, executed>>
  BY DEF IInv, Application, BeginCall, C_Initialize, C_Finalize, globals, wireVars
<1>2. CASE \E o \in Ops, l \in {"lock", "lookup"} : NewCall(t, o, l)
  BY <1>1, <1>2, Begins
<1>3. CASE Yield(t, "NOT_INITIALIZED") /\ UNCHANGED <<pc, op, call, ncalls>>
  BY <1>1, <1>3, Refuses
<1> QED
  BY <1>2, <1>3 DEF Application, BeginCall, C_Initialize, C_Finalize, Ops

\* The part of C_Initialize and C_Finalize before the call to the daemon
\* cannot be seen, unless C_Initialize fails in it.
LEMMA RefinesLocked ==
  ASSUME IInv, NEW t \in Threads, InitializeLocked(t) \/ FinalizeLocked(t)
  PROVE  (\E b \in BOOLEAN : Remote!Return(t, b)) \/ UNCHANGED Remote!vars
<1>1. /\ TypeOK /\ pc \in [Threads -> Locations] /\ pc[t] = "lock" /\ ~aborted
      /\ UNCHANGED <<aborted, ncalls, call, op, executed>>
  BY DEF IInv, TypeOK, ThreadsOK, InitializeLocked, FinalizeLocked, At, wireVars
<1>2. CASE \E r \in {"ARGS", "ALREADY_INITIALIZED"} : Goto(t, "idle") /\ Yield(t, r)
  BY <1>1, <1>2, Returns DEF Codes
<1>3. CASE Goto(t, "lookup") /\ UNCHANGED ret
  BY <1>1, <1>3, Unseen DEF Goto
<1> QED
  BY <1>2, <1>3 DEF InitializeLocked, FinalizeLocked

\* The steps of a call between entering and leaving cannot be seen.
LEMMA RefinesInside ==
  ASSUME IInv, NEW t \in Threads,
         \/ call_lookup(t) \/ call_connect_ok(t) \/ call_prepare(t) \/ call_send(t)
         \/ call_recv_len(t) \/ call_recv_body(t) \/ call_parse(t)
  PROVE  UNCHANGED Remote!vars
<1>1. pc \in [Threads -> Locations] /\ ret \in [Threads -> Codes]
  BY DEF IInv, TypeOK, ThreadsOK
<1>2. pc[t] # "idle" /\ UNCHANGED <<aborted, ncalls, call, op, executed>>
  BY DEF call_lookup, call_connect_ok, call_prepare, call_send, call_recv_len,
         call_recv_body, call_parse, At, globals, wireVars
<1>3. \E l \in Locations \ {"idle"} : Goto(t, l)
  BY DEF call_lookup, call_connect_ok, call_prepare, call_send, call_recv_len,
         call_recv_body, call_parse, RecvFails, Fail, Locations
<1>4. UNCHANGED ret \/ \E r : Yield(t, r)
  BY DEF call_lookup, call_connect_ok, call_prepare, call_send, call_recv_len,
         call_recv_body, call_parse, RecvFails, Fail
<1> QED
  BY <1>1, <1>2, <1>3, <1>4, Unseen DEF Goto, Yield

\* Leaving a C_* function returns from it.
LEMMA RefinesLeave ==
  ASSUME IInv, Numbered, WireInv, NEW t \in Threads,
         call_connect_fail(t) \/ call_done(t)
  PROVE  \E b \in BOOLEAN : Remote!Return(t, b)
<1>1. /\ TypeOK /\ pc[t] # "idle" /\ ~aborted /\ op[t] \in Ops
      /\ UNCHANGED <<aborted, ncalls, call, op, executed>>
  BY DEF IInv, TypeOK, ThreadsOK, call_connect_fail, call_done, At, wireVars
<1>2. ASSUME NEW r \in Codes, Return(t, r), r = "OK" => call[t] \in ExecutedCalls
      PROVE  \E b \in BOOLEAN : Remote!Return(t, b)
  <2>1. CASE op[t] = "C_Finalize"
    BY <1>1, <1>2, <2>1, Returns DEF Return, Codes
  <2>2. CASE op[t] # "C_Finalize"
    BY <1>1, <1>2, <2>2, Returns DEF Return
  <2> QED
    BY <2>1, <2>2
<1>3. CASE call_connect_fail(t)
  BY <1>2, <1>3 DEF call_connect_fail, Codes
<1>4. CASE call_done(t)
  <2>1. pc[t] = "done" /\ Return(t, ret[t]) /\ ret[t] \in Codes
    BY <1>4 DEF call_done, At, IInv, TypeOK, ThreadsOK
  <2> QED
    BY <1>2, <2>1, DoneMeansExecuted
<1> QED
  BY <1>3, <1>4

\* Every step of the library is a step of RemoteCall or cannot be seen.
LEMMA RefinesStep ==
  ASSUME IInv, Numbered, WireInv, IInv', Numbered', [Next]_vars
  PROVE  [Remote!Next]_(Remote!vars)
<1>1. ASSUME NEW t \in Threads, Application(t) PROVE Remote!Next
  BY <1>1, RefinesEnter DEF Remote!Next
<1>2. ASSUME NEW t \in Threads, Progress(t) PROVE [Remote!Next]_(Remote!vars)
  <2>1. CASE InitializeLocked(t) \/ FinalizeLocked(t)
    BY <2>1, RefinesLocked DEF Remote!Next
  <2>2. CASE \/ call_lookup(t) \/ call_connect_ok(t) \/ call_prepare(t) \/ call_send(t)
             \/ call_recv_len(t) \/ call_recv_body(t) \/ call_parse(t)
    BY <2>2, RefinesInside
  <2>3. CASE call_connect_assert(t)
    BY <2>3, Aborts DEF call_connect_assert, At, thrVars, wireVars, Remote!Next
  <2>4. CASE call_connect_fail(t) \/ call_done(t)
    BY <2>4, RefinesLeave DEF Remote!Next
  <2> QED
    BY <1>2, <2>1, <2>2, <2>3, <2>4 DEF Progress
<1>3. ASSUME NEW c \in CallStates, Serve(c) PROVE Remote!Next
  BY <1>3, ExecutesOnce DEF Remote!Next
<1>4. ASSUME NEW c \in CallStates, DaemonCloses(c) PROVE UNCHANGED Remote!vars
  BY <1>4, Unseen DEF DaemonCloses, globals, thrVars
<1>5. CASE UNCHANGED vars
  BY <1>5, Unseen DEF vars, globals, thrVars, wireVars
<1> QED
  BY <1>1, <1>2, <1>3, <1>4, <1>5 DEF Next

\* Before the first call nothing was promised.
LEMMA RefinesInit == Init => Remote!Init
<1> SUFFICES ASSUME Init PROVE Remote!Init
  OBVIOUS
<1>1. Busy = [t \in Threads |-> FALSE]
  BY DEF Init, Busy
<1>2. Final = [t \in Threads |-> FALSE]
  BY DEF Init, Final
<1>3. Ok = [t \in Threads |-> TRUE]
  BY DEF Init, Ok
<1>4. ExecutedCalls = {}
  BY DEF Init, ExecutedCalls
<1> QED
  BY <1>1, <1>2, <1>3, <1>4 DEF Init, Remote!Init, Busy, Final, Ok

\* As long as no allocation fails, the client library implements RemoteCall,
\* except for its liveness: whatever threads, daemons and connections do, a
\* call is executed at most once, and a C_* function that returns CKR_OK, other
\* than C_Finalize, had its call executed before.
THEOREM KeepsSafety == ~MemFails /\ Spec => Remote!Safety
<1> DEFINE Inv == ~MemFails /\ IInv /\ Numbered /\ WireInv
<1>1. ~MemFails /\ Init => Inv /\ Remote!Init
  BY TypeInit, ExclusiveInit, StatusInit, NumberedInit, WireInit, RefinesInit DEF IInv
<1>2. Inv /\ [Next]_vars => Inv'
  BY TypeStep, ExclusiveStep, StatusStep, NumberedStep, WireStep DEF IInv
<1>3. Inv /\ Inv' /\ [Next]_vars => [Remote!Next]_(Remote!vars)
  BY RefinesStep
<1> QED
  BY <1>1, <1>2, <1>3, PTL DEF Spec, Remote!Safety

-----------------------------------------------------------------------------
(* The assertion on the socket path.                                       *)

\* What C_Initialize and C_Finalize may count on in such an application.
LEMMA OrderlyAlone ==
  ASSUME ~Breach, NEW t \in Threads, pc[t] # "idle", op[t] # "Call"
  PROVE  Alone(t) /\ (op[t] = "C_Initialize" => ~initialized)
  BY DEF Breach

\* The library has a socket path whenever a thread may come to need one.
Ready ==
  /\ initialized => path # NoPath
  /\ \A t \in Threads : pc[t] # "idle" =>
       /\ op[t] # "C_Initialize" => initialized
       /\ op[t] = "C_Initialize" /\ pc[t] # "lock" => path # NoPath

\* A thread that moves on without touching the globals keeps it so.
LEMMA ReadyMove ==
  ASSUME TypeOK, Ready, NEW t \in Threads, pc[t] \notin {"idle", "lock"},
         \E l \in Locations \ {"lock"} : Goto(t, l), UNCHANGED <<initialized, path, op>>
  PROVE  Ready'
  BY DEF Ready, Goto, TypeOK, ThreadsOK

\* So does a thread that returns.
LEMMA ReadyReturn ==
  ASSUME TypeOK, Ready, ~Breach, NEW t \in Threads, pc[t] \notin {"idle", "lock"},
         NEW r, Return(t, r), UNCHANGED op
  PROVE  Ready'
<1>1. CASE op[t] = "Call"
  BY <1>1, ReadyMove DEF Return, Locations
<1>2. CASE op[t] # "Call"
  <2>1. \A u \in Threads : pc'[u] = "idle"
    BY <1>2, OrderlyAlone DEF Alone, Return, Goto, TypeOK, ThreadsOK
  <2>2. initialized' => path' # NoPath
    BY <1>2 DEF Return, Ready
  <2> QED
    BY <2>1, <2>2 DEF Ready
<1> QED
  BY <1>1, <1>2

\* No step of an application that keeps to the rules fails the assertion.
LEMMA ReadyStep ==
  ASSUME TypeOK, Ready, ~aborted, ~Breach, [Next]_vars
  PROVE  Ready' /\ ~aborted'
<1>0. pc \in [Threads -> Locations] /\ op \in [Threads -> Ops]
  BY DEF TypeOK, ThreadsOK
<1>1. ASSUME NEW t \in Threads, Application(t) PROVE Ready' /\ ~aborted'
  BY <1>0, <1>1
  DEF Application, BeginCall, C_Initialize, C_Finalize, NewCall, Goto, At, globals, Ready
<1>2. ASSUME NEW t \in Threads, InitializeLocked(t) PROVE Ready' /\ ~aborted'
  <2>1. pc[t] = "lock" /\ op[t] = "C_Initialize" /\ UNCHANGED <<aborted, op>>
    BY <1>2 DEF InitializeLocked, At
  <2>2. ~initialized /\ \A u \in Threads : u # t => pc[u] = "idle"
    BY <2>1, OrderlyAlone DEF Alone
  <2>3. CASE ~initialized' /\ Goto(t, "idle")
    BY <1>0, <2>1, <2>2, <2>3 DEF Ready, Goto
  <2>4. CASE path' # NoPath /\ UNCHANGED initialized /\ Goto(t, "lookup")
    BY <1>0, <2>1, <2>2, <2>4 DEF Ready, Goto
  <2> QED
    BY <1>2, <2>2, <2>3, <2>4 DEF InitializeLocked
<1>3. ASSUME NEW t \in Threads, FinalizeLocked(t) PROVE Ready' /\ ~aborted'
  BY <1>0, <1>3 DEF FinalizeLocked, At, Goto, Ready
<1>4. ASSUME NEW t \in Threads, call_connect_assert(t) PROVE FALSE
  BY <1>4 DEF call_connect_assert, At, Ready
<1>5. ASSUME NEW t \in Threads,
             \/ call_lookup(t) \/ call_connect_ok(t) \/ call_prepare(t) \/ call_send(t)
             \/ call_recv_len(t) \/ call_recv_body(t) \/ call_parse(t)
      PROVE  Ready' /\ ~aborted'
  <2>1. /\ pc[t] \notin {"idle", "lock"}
        /\ UNCHANGED <<initialized, path, aborted, op>>
    BY <1>5 DEF call_lookup, call_connect_ok, call_prepare, call_send, call_recv_len,
                call_recv_body, call_parse, At, globals
  <2>2. \E l \in Locations \ {"lock"} : Goto(t, l)
    BY <1>5 DEF call_lookup, call_connect_ok, call_prepare, call_send, call_recv_len,
                call_recv_body, call_parse, RecvFails, Fail, Locations
  <2> QED
    BY <2>1, <2>2, ReadyMove
<1>6. ASSUME NEW t \in Threads, call_connect_fail(t) \/ call_done(t)
      PROVE  Ready' /\ ~aborted'
  <2>1. pc[t] \notin {"idle", "lock"} /\ UNCHANGED <<aborted, op>>
    BY <1>6 DEF call_connect_fail, call_done, At
  <2>2. \E r : Return(t, r)
    BY <1>6 DEF call_connect_fail, call_done
  <2> QED
    BY <2>1, <2>2, ReadyReturn
<1>7. ASSUME NEW c \in CallStates, Serve(c) \/ DaemonCloses(c) PROVE Ready' /\ ~aborted'
  BY <1>7 DEF Serve, DaemonCloses, globals, thrVars, Ready
<1>8. CASE UNCHANGED vars
  BY <1>8 DEF vars, globals, thrVars, Ready
<1> QED
  BY <1>1, <1>2, <1>3, <1>4, <1>5, <1>6, <1>7, <1>8 DEF Next, Progress

\* So it is in an application that has kept to the rules so far.
OrderInv == unruly \in BOOLEAN /\ (~unruly => ~Breach /\ ~aborted /\ Ready)

\* In an application that initializes once, and whose C_Initialize and
\* C_Finalize are alone when they run, assert(pkcs11_socket_path[0]) of
\* call_connect never fails: with any number of threads, and whatever fails,
\* although pkcs11_initialized and the path are read without init_mutex.
THEOREM OrderlyIsSafe == HistSafety => []OrderlyNeverAborts
<1> DEFINE Inv == TypeOK /\ ExclusiveUse /\ OrderInv
<1>1. HistInit => Inv
  BY TypeInit, ExclusiveInit DEF HistInit, Init, OrderInv, Breach, Ready
<1>2. Inv /\ [HistNext]_<<vars, unruly>> => Inv'
  <2> SUFFICES ASSUME Inv, [HistNext]_<<vars, unruly>> PROVE Inv'
    OBVIOUS
  <2>1. [Next]_vars
    BY DEF HistNext
  <2>2. TypeOK' /\ ExclusiveUse'
    BY <2>1, TypeStep, ExclusiveStep
  <2>3. ~unruly => Ready' /\ ~aborted'
    BY <2>1, ReadyStep DEF OrderInv
  <2>4. unruly' \in BOOLEAN /\ (~unruly' => ~unruly /\ ~Breach')
    <3>1. CASE unruly' = (unruly \/ Breach')
      BY <3>1, Zenon DEF OrderInv
    <3>2. CASE UNCHANGED <<vars, unruly>>
      <4>1. Breach' = Breach
        BY <3>2 DEF Breach, Alone, vars, globals, thrVars
      <4>2. unruly' = unruly
        BY <3>2
      <4> QED
        BY <4>1, <4>2, Zenon DEF OrderInv
    <3> QED
      BY <3>1, <3>2 DEF HistNext
  <2> QED
    BY <2>2, <2>3, <2>4 DEF OrderInv
<1>3. Inv => OrderlyNeverAborts
  BY DEF OrderInv, OrderlyNeverAborts
<1> QED
  BY <1>1, <1>2, <1>3, PTL DEF HistSafety

=============================================================================
