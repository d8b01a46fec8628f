-------------------------- MODULE DispatcherProofs --------------------------
(***************************************************************************)
(* Proofs about the daemon's threads (Dispatcher), for any number of       *)
(* connections and applications: the list of dispatch threads that the     *)
(* main thread keeps is exact whatever fails and whenever SIGTERM comes;   *)
(* and as long as an application has one connection at a time and the      *)
(* daemon is not told to stop, no assertion on a socket fails and joining  *)
(* completed threads does not deadlock.                                    *)
(***************************************************************************)
EXTENDS Dispatcher, SequenceTheorems, TLAPS

-----------------------------------------------------------------------------
(* The list.                                                               *)

\* The positions of a list with one thread more at its head.
LEMMA PutFirst ==
  ASSUME NEW d \in Threads, NEW l \in Seq(Threads)
  PROVE  /\ <<d>> \o l \in Seq(Threads)
         /\ Len(<<d>> \o l) = Len(l) + 1
         /\ (<<d>> \o l)[1] = d
         /\ \A i \in 1 .. Len(l) : (<<d>> \o l)[i + 1] = l[i]
  OBVIOUS

\* The positions of the list once its cur'th element has left it.
LEMMA Removed ==
  ASSUME list \in Seq(Threads), cur \in 1 .. Len(list), Remove
  PROVE  /\ list' \in Seq(Threads)
         /\ Len(list') = Len(list) - 1
         /\ \A i \in 1 .. Len(list) - 1 :
              list'[i] = list[IF i < cur THEN i ELSE i + 1]
         /\ list[cur] \in Threads
         /\ freed' = freed \cup {list[cur]}
<1> DEFINE n == Len(list) - 1
           f == [i \in 1 .. n |-> list[IF i < cur THEN i ELSE i + 1]]
<1>1. n \in Nat /\ Len(list) \in Nat
  OBVIOUS
<1>2. \A i \in 1 .. Len(list) : list[i] \in Threads
  BY ElementOfSeq
<1>3. \A i \in 1 .. n : (IF i < cur THEN i ELSE i + 1) \in 1 .. Len(list)
  BY <1>1
<1>4. f \in [1 .. n -> Threads]
  BY <1>2, <1>3
<1>5. f \in Seq(Threads) /\ Len(f) = n
  BY <1>1, <1>4, SeqDef, LenProperties
<1>6. list' = f
  BY DEF Remove
<1>7. list[cur] \in Threads /\ freed' = freed \cup {list[cur]}
  BY <1>2 DEF Remove
<1> HIDE DEF f
<1>8. \A i \in 1 .. n : f[i] = list[IF i < cur THEN i ELSE i + 1]
  BY DEF f
<1> QED
  BY <1>5, <1>6, <1>7, <1>8

\* Where the main thread stands in the list when it shuts the daemon down,
\* and when it has a thread to put there.
AtHead == /\ mpc \in {"uninit", "uninit_join"} => cur = 1
          /\ mpc = "uninit_join" => list # <<>>
          /\ mpc = "push" <=> made # NoThread

\* The thread that was created and is not on the list yet.
MadeOk == made # NoThread => tpc[made] # "none" /\ made \notin freed

\* Where Remove is called, there is an element to remove.
LEMMA CleanupPosition ==
  ASSUME TypeOK, AtHead,
         (mpc = "cleanup" /\ cur <= Len(list)) \/ mpc = "uninit_join"
  PROVE  cur \in 1 .. Len(list)
<1>1. list \in Seq(Threads) /\ Len(list) \in Nat /\ cur \in Nat \ {0}
  BY DEF TypeOK
<1>2. list # <<>> => Len(list) # 0
  BY <1>1, EmptySeq
<1> QED
  BY <1>1, <1>2 DEF AtHead

-----------------------------------------------------------------------------
(* Types.                                                                  *)

\* Every variable starts in its range.
LEMMA TypeInit == Init => TypeOK
<1> SUFFICES ASSUME Init PROVE TypeOK
  OBVIOUS
<1>1. list \in Seq(Threads)
  BY DEF Init
<1>2. {running, sigterm, aborted, stale} \subseteq BOOLEAN
  BY DEF Init
<1> QED
  BY <1>1, <1>2 DEF Init, TypeOK, MainLocations, Locations, Calls

\* What FinalizePeers does to the sockets.
LEMMA FinalizeType ==
  ASSUME TypeOK, NEW d \in Threads, FinalizePeers(d)
  PROVE  /\ sock' \in [Threads -> BOOLEAN] /\ shut' \in [Threads -> BOOLEAN]
         /\ stale' \in BOOLEAN
  BY DEF FinalizePeers, TypeOK

\* No step of the main thread takes a variable out of its range.
LEMMA TypeMain ==
  ASSUME TypeOK, AtHead, MainStep \/ Sigterm \/ MainSelect
  PROVE  TypeOK' /\ AtHead'
<1> USE DEF MainLocations
<1>1. CASE Sigterm
  BY <1>1 DEF Sigterm, TypeOK, AtHead, history, conVars
<1>2. CASE MainStart
  BY <1>2 DEF MainStart, MainGoto, MainAt, TypeOK, AtHead, history, conVars
<1>3. CASE MainLoop
  BY <1>3 DEF MainLoop, MainGoto, MainAt, TypeOK, AtHead, history, conVars
<1>4. CASE MainSelect
  BY <1>4 DEF MainSelect, MainGoto, MainAt, TypeOK, AtHead, history, conVars
<1>5. CASE AcceptLock
  BY <1>5 DEF AcceptLock, MainGoto, MainAt, TypeOK, AtHead, history, conVars
<1>6. CASE AcceptCleanup
  <2>1. CASE Remove /\ cur <= Len(list) /\ UNCHANGED <<mpc, cur>>
    <3>1. mpc = "cleanup"
      BY <1>6 DEF AcceptCleanup, MainAt
    <3>2. list' \in Seq(Threads) /\ freed' \subseteq Threads
      BY <2>1, <3>1, CleanupPosition, Removed DEF TypeOK
    <3> QED
      BY <1>6, <2>1, <3>1, <3>2
      DEF AcceptCleanup, TypeOK, AtHead, mainVars, history, conVars
  <2>2. CASE mpc' = mpc /\ cur' = cur + 1 /\ UNCHANGED <<list, freed>>
    BY <1>6, <2>2 DEF AcceptCleanup, MainAt, TypeOK, AtHead, history, conVars
  <2>3. CASE MainGoto("accept") /\ UNCHANGED <<cur, list, freed>>
    BY <1>6, <2>3 DEF AcceptCleanup, MainAt, MainGoto, TypeOK, AtHead, history, conVars
  <2> QED
    BY <1>6, <2>1, <2>2, <2>3 DEF AcceptCleanup
<1>7. CASE AcceptError
  BY <1>7 DEF AcceptError, MainGoto, MainAt, TypeOK, AtHead, history, conVars
<1>8. CASE AcceptCreate
  <2>1. PICK d \in Threads : /\ tpc' = [tpc EXCEPT ![d] = "start"]
                             /\ sock' = [sock EXCEPT ![d] = TRUE]
                             /\ client' = [client EXCEPT ![d] = TRUE]
                             /\ made' = d
    BY <1>8 DEF AcceptCreate, Unused
  <2>2. mpc' = "push"
    BY <1>8 DEF AcceptCreate, MainGoto
  <2> QED
    BY <1>8, <2>1, <2>2, DispatcherAssumption DEF AcceptCreate, TypeOK, AtHead, Locations, history
<1>12. CASE AcceptPush
  <2>1. made \in Threads /\ list' = <<made>> \o list /\ made' = NoThread
    BY <1>12 DEF AcceptPush, MainAt, AtHead, TypeOK
  <2>2. list' \in Seq(Threads)
    BY <2>1, PutFirst DEF TypeOK
  <2>3. mpc' = "loop" /\ mutex' = NoThread
    BY <1>12 DEF AcceptPush, MainGoto, Unlock
  <2> QED
    BY <1>12, <2>1, <2>2, <2>3 DEF AcceptPush, TypeOK, AtHead, history, conVars
<1>9. CASE UninitLock
  BY <1>9 DEF UninitLock, MainGoto, MainAt, TypeOK, AtHead, history, conVars
<1>10. CASE UninitShutdown
  BY <1>10 DEF UninitShutdown, Unlock, MainGoto, MainAt, TypeOK, AtHead, history
<1>11. CASE UninitJoin
  <2>1. mpc = "uninit_join" /\ UNCHANGED <<cur, made, running, sigterm, mutex, stale, tpc, conVars>>
    BY <1>11 DEF UninitJoin, MainAt
  <2>2. CASE aborted' = TRUE /\ UNCHANGED <<mpc, list, freed>>
    BY <2>1, <2>2 DEF TypeOK, AtHead, conVars
  <2>3. CASE Remove /\ MainGoto("uninit") /\ UNCHANGED aborted
    <3>1. list' \in Seq(Threads) /\ freed' \subseteq Threads
      BY <2>1, <2>3, CleanupPosition, Removed DEF TypeOK
    <3> QED
      BY <2>1, <2>3, <3>1 DEF TypeOK, AtHead, MainGoto, conVars
  <2> QED
    BY <1>11, <2>2, <2>3 DEF UninitJoin
<1> QED
  BY <1>1, <1>2, <1>3, <1>4, <1>5, <1>6, <1>7, <1>8, <1>9, <1>10, <1>11, <1>12 DEF MainStep

\* The steps of dispatch thread d, and its client's.
AnyThreadStep(d) ==
  \/ ThreadStart(d) \/ ThreadRead(d) \/ ThreadRecv(d) \/ ThreadExec(d)
  \/ SlotEvent(d) \/ ThreadFinalize(d) \/ ThreadWrite(d)
  \/ ThreadUninit(d) \/ ThreadEnd(d) \/ ClientLeaves(d)

\* The main thread's state and the list are not a dispatch thread's to change.
LEMMA ThreadFrame ==
  ASSUME NEW d \in Threads, AnyThreadStep(d)
  PROVE  UNCHANGED <<mpc, cur, made, running, sigterm, mutex, list, freed>>
  BY DEF AnyThreadStep, ThreadStart, ThreadRead, ThreadRecv, ThreadExec, SlotEvent,
         ThreadFinalize, ThreadWrite, ThreadUninit, ThreadEnd, ClientLeaves, mainVars

\* No step of a dispatch thread takes a variable out of its range.
LEMMA TypeThread ==
  ASSUME TypeOK, AtHead, NEW d \in Threads, AnyThreadStep(d)
  PROVE  TypeOK' /\ AtHead'
<1>0. UNCHANGED <<mpc, cur, made, running, sigterm, mutex, list, freed>>
  BY ThreadFrame
<1>1. AtHead'
  BY <1>0 DEF AtHead
<1> SUFFICES TypeOK'
  BY <1>1
<1> USE DEF Locations, Calls, Goto
<1>2. CASE ThreadStart(d)
  BY <1>0, <1>2 DEF ThreadStart, TypeOK, history
<1>3. CASE ThreadRead(d)
  BY <1>0, <1>3 DEF ThreadRead, AssertSock, TypeOK
<1>4. CASE ThreadRecv(d)
  BY <1>0, <1>4 DEF ThreadRecv, TypeOK, history
<1>5. CASE ThreadExec(d)
  BY <1>0, <1>5 DEF ThreadExec, TypeOK, history, conVars
<1>6. CASE SlotEvent(d)
  BY <1>0, <1>6 DEF SlotEvent, TypeOK, history, conVars
<1>7. CASE ThreadFinalize(d)
  BY <1>0, <1>7, FinalizeType DEF ThreadFinalize, TypeOK
<1>8. CASE ThreadWrite(d)
  BY <1>0, <1>8 DEF ThreadWrite, AssertSock, TypeOK, conVars
<1>9. CASE ThreadUninit(d)
  BY <1>0, <1>9, FinalizeType DEF ThreadUninit, TypeOK
<1>10. CASE ThreadEnd(d)
  BY <1>0, <1>10 DEF ThreadEnd, AssertSock, TypeOK
<1>11. CASE ClientLeaves(d)
  BY <1>0, <1>11 DEF ClientLeaves, TypeOK, history
<1> QED
  BY <1>2, <1>3, <1>4, <1>5, <1>6, <1>7, <1>8, <1>9, <1>10, <1>11 DEF AnyThreadStep

\* A step is one of the main thread's, a signal, a connecting client, a
\* dispatch thread's, or none.
LEMMA StepCases ==
  ASSUME [Next]_vars
  PROVE  \/ MainStep \/ Sigterm \/ MainSelect
         \/ \E d \in Threads : AnyThreadStep(d)
         \/ UNCHANGED vars
  BY DEF Next, MainStep, AnyThreadStep

\* No step takes a variable out of its range.
LEMMA TypeStep == TypeOK /\ AtHead /\ [Next]_vars => TypeOK' /\ AtHead'
<1> SUFFICES ASSUME TypeOK, AtHead, [Next]_vars PROVE TypeOK' /\ AtHead'
  OBVIOUS
<1>1. CASE UNCHANGED vars
  BY <1>1 DEF vars, mainVars, history, conVars, TypeOK, AtHead
<1> QED
  BY <1>1, StepCases, TypeMain, TypeThread

-----------------------------------------------------------------------------
(* The list is exact.                                                      *)

\* Steps that leave the list alone, start no thread and bring none back.
LEMMA ListFrame ==
  ASSUME TypeOK, ListExact, UNCHANGED <<list, freed, made>>,
         \A d \in Threads : /\ tpc'[d] = "none" <=> tpc[d] = "none"
                            /\ tpc[d] = "exited" => tpc'[d] = "exited"
  PROVE  ListExact'
<1>1. freed \subseteq Threads
  BY DEF TypeOK
<1> QED
  BY <1>1 DEF ListExact

\* What a dispatch thread's step does to the locations.
LEMMA ThreadMoves ==
  ASSUME TypeOK, NEW d \in Threads, AnyThreadStep(d)
  PROVE  \A e \in Threads : /\ tpc'[e] = "none" <=> tpc[e] = "none"
                            /\ tpc[e] = "exited" => tpc'[e] = "exited"
<1> USE DEF Goto, At, TypeOK
<1>1. CASE ThreadStart(d) \/ ThreadRecv(d) \/ ThreadExec(d) \/ SlotEvent(d)
           \/ ThreadFinalize(d) \/ ThreadUninit(d)
  <2>1. tpc[d] \notin {"none", "exited"}
    BY <1>1 DEF ThreadStart, ThreadRecv, ThreadExec, SlotEvent, ThreadFinalize,
                ThreadUninit
  <2>2. \E l \in {"read", "end", "exited", "exec", "uninit", "write"} :
          tpc' = [tpc EXCEPT ![d] = l]
    BY <1>1 DEF ThreadStart, ThreadRecv, ThreadExec, SlotEvent, ThreadFinalize,
                ThreadUninit
  <2> QED
    BY <2>1, <2>2
<1>2. CASE ThreadRead(d) \/ ThreadWrite(d) \/ ThreadEnd(d)
  <2>1. tpc[d] \notin {"none", "exited"}
    BY <1>2 DEF ThreadRead, ThreadWrite, ThreadEnd
  <2>2. \/ UNCHANGED tpc
        \/ \E l \in {"recv", "read", "uninit", "exited"} : tpc' = [tpc EXCEPT ![d] = l]
    BY <1>2 DEF ThreadRead, ThreadWrite, ThreadEnd, AssertSock
  <2> QED
    BY <2>1, <2>2
<1>3. CASE ClientLeaves(d)
  BY <1>3 DEF ClientLeaves
<1> QED
  BY <1>1, <1>2, <1>3 DEF AnyThreadStep

\* No step loses a thread that is not on the list yet.
LEMMA MadeStep ==
  ASSUME TypeOK, AtHead, MadeOk, ListExact, [Next]_vars
  PROVE  MadeOk'
<1> USE DEF MainAt, MainGoto
<1>0. NoThread \notin Threads
  BY DispatcherAssumption
<1>1. CASE Sigterm \/ MainSelect \/ MainStart \/ MainLoop \/ AcceptLock \/ AcceptError
           \/ UninitLock \/ UninitShutdown
  BY <1>1
  DEF Sigterm, MainSelect, MainStart, MainLoop, AcceptLock, AcceptError, UninitLock,
      UninitShutdown, MadeOk
<1>2. CASE AcceptCleanup \/ UninitJoin
  <2>1. mpc \in {"cleanup", "uninit_join"} /\ UNCHANGED made
    BY <1>2 DEF AcceptCleanup, UninitJoin
  <2> QED
    BY <2>1 DEF MadeOk, AtHead
<1>3. CASE AcceptCreate
  <2>1. PICK d \in Threads : /\ tpc[d] = "none" /\ made' = d
                             /\ tpc' = [tpc EXCEPT ![d] = "start"]
    BY <1>3 DEF AcceptCreate, Unused
  <2>2. d \notin freed /\ UNCHANGED freed
    BY <1>3, <2>1 DEF AcceptCreate, ListExact
  <2> QED
    BY <1>0, <2>1, <2>2 DEF MadeOk, TypeOK
<1>4. CASE AcceptPush
  BY <1>4 DEF AcceptPush, MadeOk
<1>5. ASSUME NEW d \in Threads, AnyThreadStep(d) PROVE MadeOk'
  <2>1. made # NoThread => made \in Threads
    BY DEF TypeOK
  <2> QED
    BY <1>5, <2>1, ThreadFrame, ThreadMoves DEF MadeOk
<1>6. CASE UNCHANGED vars
  BY <1>6 DEF vars, mainVars, MadeOk
<1> QED
  BY <1>1, <1>2, <1>3, <1>4, <1>5, <1>6, StepCases DEF MainStep

\* Freeing a DispatchState whose thread has ended.
LEMMA ListRemove ==
  ASSUME TypeOK, ListExact, cur \in 1 .. Len(list), Remove, UNCHANGED <<tpc, made>>,
         tpc[list[cur]] = "exited"
  PROVE  ListExact'
<1> DEFINE n == Len(list) - 1
           old(i) == IF i < cur THEN i ELSE i + 1
<1>1. /\ list \in Seq(Threads) /\ Len(list) \in Nat
      /\ DOMAIN list = 1 .. Len(list)
  BY DEF TypeOK
<1>2. /\ list' \in Seq(Threads) /\ Len(list') = n
      /\ \A i \in 1 .. n : list'[i] = list[old(i)]
      /\ list[cur] \in Threads /\ freed' = freed \cup {list[cur]}
  BY <1>1, Removed
<1>3. DOMAIN list' = 1 .. n
  BY <1>2, LenProperties
<1>4. \A i \in 1 .. n : old(i) \in 1 .. Len(list) /\ old(i) # cur
  BY <1>1 DEF TypeOK
<1>5. \A j \in 1 .. Len(list) : j # cur => \E i \in 1 .. n : old(i) = j
  <2> SUFFICES ASSUME NEW j \in 1 .. Len(list), j # cur
               PROVE  \E i \in 1 .. n : old(i) = j
    OBVIOUS
  <2>1. CASE j < cur
    <3>1. j \in 1 .. n /\ old(j) = j
      BY <1>1, <2>1
    <3> QED
      BY <3>1
  <2>2. CASE j > cur
    <3>1. j - 1 \in 1 .. n /\ old(j - 1) = j
      BY <1>1, <2>2
    <3> QED
      BY <3>1
  <2>3. j < cur \/ j > cur
    BY <1>1
  <2> QED
    BY <2>1, <2>2, <2>3
<1>6. \A i, j \in 1 .. n : old(i) = old(j) => i = j
  BY <1>1
<1> HIDE DEF old, n
<1>7. \A i, j \in DOMAIN list' : list'[i] = list'[j] => i = j
  BY <1>1, <1>2, <1>3, <1>4, <1>6 DEF ListExact
<1>8. \A d \in freed' : tpc'[d] = "exited"
  BY <1>2 DEF ListExact
<1>9. ASSUME NEW d \in Threads
      PROVE  (\E i \in DOMAIN list' : list'[i] = d)
               <=> (\E j \in DOMAIN list : list[j] = d) /\ d # list[cur]
  <2>1. ASSUME NEW i \in 1 .. n, list'[i] = d
        PROVE  (\E j \in DOMAIN list : list[j] = d) /\ d # list[cur]
    <3>1. old(i) \in DOMAIN list /\ cur \in DOMAIN list /\ old(i) # cur
      BY <1>1, <1>4
    <3>2. list[old(i)] = d
      BY <1>2, <2>1
    <3> QED
      BY <3>1, <3>2 DEF ListExact
  <2>2. ASSUME NEW j \in 1 .. Len(list), list[j] = d, d # list[cur]
        PROVE  \E i \in 1 .. n : list'[i] = d
    BY <1>2, <1>5, <2>2
  <2> QED
    BY <1>1, <1>3, <2>1, <2>2
<1>10. \A d \in Threads :
         (tpc'[d] # "none" /\ d \notin freed' \cup {made'}) <=> \E i \in DOMAIN list' : list'[i] = d
  BY <1>2, <1>9 DEF ListExact
<1> QED
  BY <1>7, <1>8, <1>10 DEF ListExact

\* No step makes the list inexact.
LEMMA ListStep ==
  TypeOK /\ AtHead /\ MadeOk /\ ListExact /\ [Next]_vars => MadeOk' /\ ListExact'
<1> SUFFICES ASSUME TypeOK, AtHead, MadeOk, ListExact, [Next]_vars PROVE ListExact'
  BY MadeStep
<1>1. CASE Sigterm \/ MainSelect \/ MainStart \/ MainLoop \/ AcceptLock \/ AcceptError
           \/ UninitLock \/ UninitShutdown
  BY <1>1, ListFrame
  DEF Sigterm, MainSelect, MainStart, MainLoop, AcceptLock, AcceptError, UninitLock,
      UninitShutdown
<1>2. CASE AcceptCleanup
  <2>1. mpc = "cleanup" /\ UNCHANGED <<tpc, made>>
    BY <1>2 DEF AcceptCleanup, MainAt
  <2>2. CASE cur <= Len(list) /\ tpc[list[cur]] = "exited" /\ Remove
    BY <2>1, <2>2, CleanupPosition, ListRemove
  <2>3. CASE UNCHANGED <<list, freed>>
    BY <2>1, <2>3, ListFrame
  <2> QED
    BY <1>2, <2>2, <2>3 DEF AcceptCleanup
<1>3. CASE UninitJoin
  <2>1. mpc = "uninit_join" /\ UNCHANGED <<tpc, made>> /\ tpc[list[1]] = "exited" /\ cur = 1
    BY <1>3 DEF UninitJoin, MainAt, AtHead
  <2>2. CASE Remove
    BY <2>1, <2>2, CleanupPosition, ListRemove
  <2>3. CASE UNCHANGED <<list, freed>>
    BY <2>1, <2>3, ListFrame
  <2> QED
    BY <1>3, <2>2, <2>3 DEF UninitJoin
<1>7. CASE AcceptCreate
  <2>1. PICK d \in Threads : /\ tpc[d] = "none" /\ made' = d
                             /\ tpc' = [tpc EXCEPT ![d] = "start"]
    BY <1>7 DEF AcceptCreate, Unused
  <2>2. UNCHANGED <<list, freed>> /\ made = NoThread
    BY <1>7 DEF AcceptCreate, MainAt, AtHead
  <2>3. freed \subseteq Threads /\ NoThread \notin Threads
    BY DispatcherAssumption DEF TypeOK
  <2>4. d \notin freed /\ ~\E i \in DOMAIN list : list[i] = d
    BY <2>1 DEF ListExact
  <2>5. \A e \in Threads : e # d => tpc'[e] = tpc[e] /\ e # made /\ e # made'
    BY <2>1, <2>2, <2>3 DEF TypeOK
  <2>6. \A e \in freed' : tpc'[e] = "exited"
    BY <2>2, <2>3, <2>4, <2>5 DEF ListExact
  <2>7. \A e \in Threads : (tpc'[e] # "none" /\ e \notin freed' \cup {made'})
                             <=> \E i \in DOMAIN list' : list'[i] = e
    BY <2>1, <2>2, <2>4, <2>5 DEF ListExact
  <2> QED
    BY <2>2, <2>6, <2>7 DEF ListExact
<1>4. CASE AcceptPush
  <2> DEFINE d == made
  <2>1. /\ d \in Threads /\ tpc[d] # "none" /\ d \notin freed
        /\ list' = <<d>> \o list /\ made' = NoThread
    BY <1>4 DEF AcceptPush, MainAt, AtHead, TypeOK, MadeOk
  <2>2. UNCHANGED <<freed, tpc>> /\ NoThread \notin Threads
    BY <1>4, DispatcherAssumption DEF AcceptPush
  <2>3. /\ list \in Seq(Threads) /\ Len(list) \in Nat /\ DOMAIN list = 1 .. Len(list)
        /\ freed \subseteq Threads
    BY DEF TypeOK
  <2>4. /\ list' \in Seq(Threads) /\ Len(list') = Len(list) + 1 /\ list'[1] = d
        /\ \A i \in 1 .. Len(list) : list'[i + 1] = list[i]
    BY <2>1, <2>3, PutFirst
  <2>5. DOMAIN list' = 1 .. Len(list) + 1
    BY <2>4, LenProperties
  <2>6. \A i \in 1 .. Len(list) + 1 :
          i = 1 \/ (i - 1 \in 1 .. Len(list) /\ list'[i] = list[i - 1])
    <3> SUFFICES ASSUME NEW i \in 1 .. Len(list) + 1, i # 1
                 PROVE  i - 1 \in 1 .. Len(list) /\ list'[i] = list[i - 1]
      OBVIOUS
    <3>1. i - 1 \in 1 .. Len(list) /\ (i - 1) + 1 = i
      BY <2>3
    <3> QED
      BY <2>4, <3>1
  <2>7. \A i \in 1 .. Len(list) : list[i] # d
    BY <2>1, <2>3 DEF ListExact
  <2>8. \A e \in freed' : tpc'[e] = "exited"
    BY <2>2 DEF ListExact
  <2>9. \A i, j \in DOMAIN list' : list'[i] = list'[j] => i = j
    <3> SUFFICES ASSUME NEW i \in 1 .. Len(list) + 1, NEW j \in 1 .. Len(list) + 1,
                        list'[i] = list'[j]
                 PROVE  i = j
      BY <2>5
    <3>1. CASE i = 1 \/ j = 1
      BY <2>4, <2>6, <2>7, <3>1
    <3>2. CASE i # 1 /\ j # 1
      <4>1. i - 1 = j - 1
        BY <2>3, <2>6, <3>2 DEF ListExact
      <4> QED
        BY <2>3, <4>1
    <3> QED
      BY <3>1, <3>2
  <2>10. ASSUME NEW e \in Threads
         PROVE  (\E i \in DOMAIN list' : list'[i] = e)
                  <=> e = d \/ \E i \in DOMAIN list : list[i] = e
    <3>1. 1 \in 1 .. Len(list) + 1
      BY <2>3
    <3>2. \A i \in 1 .. Len(list) : i + 1 \in 1 .. Len(list) + 1
      BY <2>3
    <3>3. ASSUME NEW i \in 1 .. Len(list) + 1, list'[i] = e
          PROVE  e = d \/ \E j \in DOMAIN list : list[j] = e
      BY <2>3, <2>4, <2>6, <3>3
    <3>4. ASSUME e = d \/ \E j \in DOMAIN list : list[j] = e
          PROVE  \E i \in DOMAIN list' : list'[i] = e
      BY <2>3, <2>4, <2>5, <3>1, <3>2, <3>4
    <3> QED
      BY <2>5, <3>3, <3>4
  <2>11. \A e \in Threads :
           (tpc'[e] # "none" /\ e \notin freed' \cup {made'})
             <=> \E i \in DOMAIN list' : list'[i] = e
    BY <2>1, <2>2, <2>10 DEF ListExact
  <2> QED
    BY <2>8, <2>9, <2>11 DEF ListExact
<1>5. ASSUME NEW d \in Threads, AnyThreadStep(d) PROVE ListExact'
  BY <1>5, ThreadFrame, ThreadMoves, ListFrame
<1>6. CASE UNCHANGED vars
  BY <1>6, ListFrame DEF vars, mainVars
<1> QED
  BY <1>1, <1>2, <1>3, <1>4, <1>5, <1>6, <1>7, StepCases DEF MainStep

-----------------------------------------------------------------------------
(* Sockets, when an application has one connection at a time and no        *)
(* SIGTERM comes.                                                          *)

\* A thread's socket is open while it runs.
SockOpen == \A d \in Threads : tpc[d] \notin {"none", "exited"} => sock[d]

\* A thread knows its application while it serves calls.
AppKnown ==
  \A d \in Threads :
    tpc[d] \in {"read", "recv", "exec", "write", "uninit"} => appid[d] # NoApp

\* Two connections of an application: one of their threads has ended.
Apart ==
  \A d, e \in Threads :
    d # e /\ appid[d] = appid[e] /\ appid[d] # NoApp
      => tpc[d] = "exited" \/ tpc[e] = "exited"

\* The daemon is not shutting down.
Serving == /\ mpc \notin {"uninit_lock", "uninit", "uninit_join", "done"}
           /\ mpc = "starting" \/ running = TRUE

SockInv == SockOpen /\ AppKnown /\ Apart /\ Serving

\* Steps that leave the dispatch threads alone.
LEMMA SockFrame ==
  ASSUME SockInv, UNCHANGED <<tpc, sock, appid>>, Serving'
  PROVE  SockInv'
  BY DEF SockInv, SockOpen, AppKnown, Apart

\* rpc_C_Finalize shuts down connections only whose threads have ended.
LEMMA FinalizeHarmless ==
  ASSUME TypeOK, SockInv, NEW d \in Threads, tpc[d] \in {"exec", "uninit"},
         FinalizePeers(d), NEW e \in Threads, tpc[e] # "exited"
  PROVE  sock'[e] = sock[e]
<1>1. appid[d] # NoApp
  BY DEF SockInv, AppKnown
<1>2. e \notin Peers(d)
  BY <1>1 DEF Peers, SockInv, Apart
<1> QED
  BY <1>2 DEF FinalizePeers, TypeOK

\* No step of the main thread closes a socket.
LEMMA SockMain ==
  ASSUME ~Sigterms, TypeOK, SockInv, NoAbort, MainStep \/ Sigterm \/ MainSelect
  PROVE  SockInv' /\ NoAbort'
<1>1. CASE Sigterm
  BY <1>1 DEF Sigterm
<1>2. CASE MainStart \/ MainLoop \/ MainSelect \/ AcceptLock \/ AcceptCleanup \/ AcceptError
           \/ AcceptPush
  <2>1. UNCHANGED <<tpc, sock, appid, aborted>>
    BY <1>2 DEF MainStart, MainLoop, MainSelect, AcceptLock, AcceptCleanup,
                AcceptError, AcceptPush, conVars, history
  <2>2. Serving'
    BY <1>2 DEF MainStart, MainLoop, MainSelect, AcceptLock, AcceptCleanup,
                AcceptError, AcceptPush, MainAt, MainGoto, Serving, SockInv
  <2> QED
    BY <2>1, <2>2, SockFrame DEF NoAbort
<1>3. CASE AcceptCreate
  <2>1. PICK d \in Threads : /\ tpc[d] = "none"
                             /\ tpc' = [tpc EXCEPT ![d] = "start"]
                             /\ sock' = [sock EXCEPT ![d] = TRUE]
    BY <1>3 DEF AcceptCreate, Unused
  <2>2. UNCHANGED <<appid, aborted, running>> /\ mpc = "accept" /\ mpc' = "push"
    BY <1>3 DEF AcceptCreate, MainAt, MainGoto, history
  <2> QED
    BY <2>1, <2>2
    DEF SockInv, SockOpen, AppKnown, Apart, Serving, NoAbort, TypeOK
<1>4. CASE UninitLock \/ UninitShutdown \/ UninitJoin
  BY <1>4 DEF UninitLock, UninitShutdown, UninitJoin, MainAt, SockInv, Serving
<1> QED
  BY <1>1, <1>2, <1>3, <1>4 DEF MainStep

\* No step of a dispatch thread closes the socket of another that runs, and
\* none fails an assertion.
LEMMA SockThread ==
  ASSUME OneConn, TypeOK, SockInv, NoAbort, NEW d \in Threads, AnyThreadStep(d)
  PROVE  SockInv' /\ NoAbort'
<1>0. Serving'
  BY ThreadFrame DEF SockInv, Serving
<1> USE DEF Goto, At
<1>1. CASE ThreadStart(d)
  <2>1. tpc[d] = "start" /\ UNCHANGED <<sock, aborted>>
    BY <1>1 DEF ThreadStart, history
  <2>2. CASE \E a \in Apps :
               /\ \A e \in Threads : appid[e] = a => tpc[e] = "exited"
               /\ appid' = [appid EXCEPT ![d] = a]
               /\ \E l \in {"read", "end"} : tpc' = [tpc EXCEPT ![d] = l]
    BY <1>0, <2>1, <2>2, DispatcherAssumption
    DEF SockInv, SockOpen, AppKnown, Apart, NoAbort, TypeOK
  <2>3. CASE /\ UNCHANGED appid
             /\ \E l \in {"end", "exited"} : tpc' = [tpc EXCEPT ![d] = l]
    BY <1>0, <2>1, <2>3 DEF SockInv, SockOpen, AppKnown, Apart, NoAbort, TypeOK
  <2> QED
    BY <1>1, <2>2, <2>3 DEF ThreadStart
<1>2. CASE ThreadRead(d) \/ ThreadWrite(d)
  <2>1. tpc[d] \in {"read", "write"} /\ sock[d] /\ UNCHANGED <<sock, appid>>
    BY <1>2 DEF ThreadRead, ThreadWrite, conVars, SockInv, SockOpen
  <2>2. UNCHANGED aborted /\ \E l \in {"recv", "read", "uninit"} : tpc' = [tpc EXCEPT ![d] = l]
    BY <1>2, <2>1 DEF ThreadRead, ThreadWrite, AssertSock
  <2> QED
    BY <1>0, <2>1, <2>2 DEF SockInv, SockOpen, AppKnown, Apart, NoAbort, TypeOK
<1>3. CASE ThreadRecv(d) \/ ThreadExec(d) \/ SlotEvent(d)
  <2>1. tpc[d] \in {"recv", "exec"} /\ UNCHANGED <<sock, appid, aborted>>
    BY <1>3 DEF ThreadRecv, ThreadExec, SlotEvent, conVars, history
  <2>2. \E l \in {"exec", "uninit", "write"} : tpc' = [tpc EXCEPT ![d] = l]
    BY <1>3 DEF ThreadRecv, ThreadExec, SlotEvent
  <2> QED
    BY <1>0, <2>1, <2>2 DEF SockInv, SockOpen, AppKnown, Apart, NoAbort, TypeOK
<1>4. CASE ThreadFinalize(d) \/ ThreadUninit(d)
  <2>1. tpc[d] \in {"exec", "uninit"} /\ UNCHANGED <<appid, aborted>> /\ FinalizePeers(d)
    BY <1>4 DEF ThreadFinalize, ThreadUninit
  <2>2. \E l \in {"write", "end"} :
          tpc' = [tpc EXCEPT ![d] = l] /\ (l = "write" => tpc[d] = "exec")
    BY <1>4 DEF ThreadFinalize, ThreadUninit
  <2>3. \A e \in Threads : tpc[e] # "exited" => sock'[e] = sock[e]
    BY <2>1, FinalizeHarmless
  <2> QED
    BY <1>0, <2>1, <2>2, <2>3 DEF SockInv, SockOpen, AppKnown, Apart, NoAbort, TypeOK
<1>5. CASE ThreadEnd(d)
  <2>1. tpc[d] = "end" /\ sock[d] /\ UNCHANGED appid
    BY <1>5 DEF ThreadEnd, SockInv, SockOpen
  <2>2. /\ UNCHANGED aborted /\ tpc' = [tpc EXCEPT ![d] = "exited"]
        /\ sock' = [sock EXCEPT ![d] = FALSE]
    BY <1>5, <2>1 DEF ThreadEnd, AssertSock
  <2> QED
    BY <1>0, <2>1, <2>2 DEF SockInv, SockOpen, AppKnown, Apart, NoAbort, TypeOK
<1>6. CASE ClientLeaves(d)
  BY <1>0, <1>6, SockFrame DEF ClientLeaves, history, NoAbort
<1> QED
  BY <1>1, <1>2, <1>3, <1>4, <1>5, <1>6 DEF AnyThreadStep

\* No step breaks the invariant of the sockets, or fails an assertion.
LEMMA SockStep ==
  OneConn /\ ~Sigterms /\ TypeOK /\ SockInv /\ NoAbort /\ [Next]_vars
    => SockInv' /\ NoAbort'
<1> SUFFICES ASSUME OneConn, ~Sigterms, TypeOK, SockInv, NoAbort, [Next]_vars
             PROVE  SockInv' /\ NoAbort'
  OBVIOUS
<1>1. CASE UNCHANGED vars
  <2>1. Serving'
    BY <1>1 DEF vars, mainVars, SockInv, Serving
  <2> QED
    BY <1>1, <2>1, SockFrame DEF vars, conVars, history, NoAbort
<1> QED
  BY <1>1, StepCases, SockMain, SockThread

\* A thread the main thread joins has ended: it waits for no mutex.
LEMMA JoinedHasEnded == TypeOK /\ SockInv => NoJoinDeadlock
<1> SUFFICES ASSUME TypeOK, SockInv PROVE NoJoinDeadlock
  OBVIOUS
<1>1. mpc # "uninit_join"
  BY DEF SockInv, Serving
<1>2. \A d \in Threads : Completed(d) => tpc[d] \in {"none", "exited"}
  BY DEF Completed, SockInv, SockOpen
<1> QED
  BY <1>1, <1>2 DEF NoJoinDeadlock

-----------------------------------------------------------------------------
\* The main thread's position in the list, the list itself and everything the
\* threads share stay in range.
THEOREM TypeCorrect == Spec => []TypeOK
<1>1. Init => TypeOK /\ AtHead
  BY TypeInit DEF Init, AtHead
<1> QED
  BY <1>1, TypeStep, PTL DEF Spec

\* gck_rpc_layer_accept and gck_rpc_layer_uninitialize keep the list exact,
\* whenever they run and whatever fails in between: a DispatchState is freed
\* once, after its thread has ended and when it is off the list, and every
\* other thread is on the list, once, except between its creation and the
\* push of gck_rpc_layer_accept.
THEOREM ListKept == Spec => []ListExact
<1>1. Init => TypeOK /\ AtHead /\ MadeOk /\ ListExact
  BY TypeInit DEF Init, AtHead, MadeOk, ListExact
<1> QED
  BY <1>1, TypeStep, ListStep, PTL DEF Spec

\* Both of the following: they share their invariant.
LEMMA ServesInPeace ==
  OneConn /\ ~Sigterms /\ Spec => [](NoAbort /\ NoJoinDeadlock)
<1> DEFINE Inv == OneConn /\ ~Sigterms /\ TypeOK /\ AtHead /\ SockInv /\ NoAbort
<1>1. OneConn /\ ~Sigterms /\ Init => Inv
  BY TypeInit
  DEF Init, AtHead, SockInv, SockOpen, AppKnown, Apart, Serving, NoAbort
<1>2. Inv /\ [Next]_vars => Inv'
  BY TypeStep, SockStep
<1>3. Inv => NoAbort /\ NoJoinDeadlock
  BY JoinedHasEnded
<1> QED
  BY <1>1, <1>2, <1>3, PTL DEF Spec

\* With one connection per application at a time, and until SIGTERM comes, no
\* assertion on cs->sock fails (read_all, write_all, run_dispatch_thread):
\* rpc_C_Finalize finds no peer to shut down that still runs, although
\* connections come and go, threads fail to start and calls wait for a slot
\* event.
THEOREM AssertionsHold == OneConn /\ ~Sigterms /\ Spec => []NoAbort
  BY ServesInPeace, PTL

\* Under the same conditions the main thread never joins a thread that waits
\* for the mutex that it holds itself (gck_rpc_layer_accept).
THEOREM JoinsEnd == OneConn /\ ~Sigterms /\ Spec => []NoJoinDeadlock
  BY ServesInPeace, PTL

=============================================================================
