--------------------------- MODULE ListenerProofs ---------------------------
(***************************************************************************)
(* Proofs about the processes of the daemon (Listener), for any number of  *)
(* daemons, addresses and connections: a daemon that starts alone and      *)
(* meets no fault runs, whatever its predecessors left behind, and the     *)
(* last daemon to bind can be reached, until one that stops has unlinked   *)
(* the socket file.                                                        *)
(***************************************************************************)
EXTENDS Listener, TLAPS

Locations == Starting \cup Stopping \cup Over \cup {"off", "run"}

TypeOK ==
  /\ setup \in Setups
  /\ pc \in [Daemons -> Locations]
  /\ at \in [Daemons -> Nat \ {0}]
  /\ where \in [Places -> Daemons \cup {None, "wait"}]
  /\ newest \in Daemons \cup {None}
  /\ excused \subseteq Daemons

-----------------------------------------------------------------------------
(* The kinds of steps, as far as sockets are concerned.                    *)

\* How main goes from one step to the next while no socket is bound or let go.
Leads(l, m) ==
  \/ l = "load" /\ m = "filter" /\ kind = "inetd"
  \/ l = "load" /\ m = "unlink" /\ kind = "unix"
  \/ l = "load" /\ m = "resolve" /\ TcpKind
  \/ l = "resolve" /\ m = "bind"
  \/ l = "listen" /\ m = "filter"
  \/ l = "filter" /\ m = "run"
  \/ l = "run" /\ m = "run"
  \/ l = "run" /\ m = "exit" /\ kind = "inetd"
  \/ l = "run" /\ m = "close" /\ kind # "inetd"
  \/ l = "unlinkpath" /\ m = "shutdown" /\ TcpKind
  \/ l = "shutdown" /\ m = "exit"

Moves(d) ==
  /\ UNCHANGED <<setup, at, where, newest, excused>>
  /\ \E m \in Locations :
       /\ pc' = [pc EXCEPT ![d] = m]
       /\ Leads(pc[d], m)

\* The process ends, or its listening socket is closed.
Lets(d) ==
  /\ Alive(d)
  /\ UNCHANGED <<setup, at, newest>>
  /\ where' = Released(d)
  /\ excused \subseteq excused' /\ excused' \subseteq excused \cup {d}
  /\ \E m \in {"exit1", "crashed", "killed", "unlinkpath"} :
       /\ pc' = [pc EXCEPT ![d] = m]
       /\ m = "unlinkpath" => pc[d] = "close"
       /\ m = "exit1" => \/ d \in excused'
                         \/ pc[d] = "bind" /\ at[d] > NAddrs
                         \/ pc[d] = "bindpath" /\ where[Path] # None

\* _get_listening_socket goes on to the next address.
Skips(d) ==
  /\ pc[d] = "bind" /\ at[d] <= NAddrs
  /\ at' = [at EXCEPT ![d] = @ + 1]
  /\ excused \subseteq excused' /\ excused' \subseteq excused \cup {d}
  /\ d \in excused' \/ ~Free(where[at[d]])
  /\ UNCHANGED <<setup, pc, where, newest>>

\* It binds the address it is at.
Takes(d) ==
  /\ pc[d] = "bind" /\ at[d] <= NAddrs /\ Free(where[at[d]])
  /\ where' = [where EXCEPT ![at[d]] = d] /\ newest' = d
  /\ pc' = [pc EXCEPT ![d] = "listen"]
  /\ UNCHANGED <<setup, at, excused>>

MakesRoom(d) ==
  /\ pc[d] = "unlink"
  /\ where' = [where EXCEPT ![Path] = None] /\ newest' = d
  /\ pc' = [pc EXCEPT ![d] = "bindpath"]
  /\ UNCHANGED <<setup, at, excused>>

TakesPath(d) ==
  /\ pc[d] = "bindpath" /\ where[Path] = None
  /\ where' = [where EXCEPT ![Path] = d]
  /\ pc' = [pc EXCEPT ![d] = "listen"]
  /\ UNCHANGED <<setup, at, newest, excused>>

RemovesPath(d) ==
  /\ pc[d] = "unlinkpath" /\ ~TcpKind
  /\ where' = [where EXCEPT ![Path] = None] /\ newest' = None
  /\ pc' = [pc EXCEPT ![d] = "shutdown"]
  /\ UNCHANGED <<setup, at, excused>>

SocketStep(d) ==
  \/ Moves(d) \/ Lets(d) \/ Skips(d) \/ Takes(d) \/ MakesRoom(d) \/ TakesPath(d)
  \/ RemovesPath(d) \/ Start(d)

-----------------------------------------------------------------------------
(* Invariants.                                                             *)

\* Which steps of main a socket argument leads to.
Route ==
  \A d \in Daemons :
    /\ kind = "unix" => pc[d] \notin {"resolve", "bind"}
    /\ TcpKind => pc[d] \notin {"unlink", "bindpath"}
    /\ kind = "inetd" => pc[d] \notin {"resolve", "bind", "unlink", "bindpath", "listen"}
                                      \cup Stopping

\* An address is bound by a daemon that has a listening socket.
Bound ==
  \A p \in Places, d \in Daemons :
    p # Path /\ where[p] = d => pc[d] \in {"listen", "filter", "run", "close"} /\ TcpKind

\* A daemon that is starting and has met nothing yet is alone, is at its
\* first address, and has the path to itself.
Unhindered ==
  \A d \in Daemons :
    /\ pc[d] \in {"off", "load", "resolve"} => at[d] = 1
    /\ pc[d] \in Starting /\ d \notin excused =>
         /\ \A x \in Daemons : Alive(x) => x = d
         /\ pc[d] = "bind" => at[d] = 1
         /\ pc[d] = "bindpath" => where[Path] = None

RestartInv == Route /\ Bound /\ Unhindered /\ RestartWorks

\* The newest daemon, once it has bound, keeps its place until it ends.
NewestBound ==
  /\ kind = "inetd" => newest = None
  /\ newest # None /\ pc[newest] \in {"listen", "filter", "run"} =>
       /\ kind = "unix" => where[Path] = newest
       /\ TcpKind => at[newest] <= NAddrs /\ where[at[newest]] = newest

ReachInv == Route /\ NewestBound

-----------------------------------------------------------------------------
\* What the end of a process does to the places.
LEMMA ReleasedPlaces ==
  ASSUME TypeOK, NEW d \in Daemons
  PROVE  /\ Released(d) \in [Places -> Daemons \cup {None, "wait"}]
         /\ Released(d)[Path] = where[Path]
         /\ \A p \in Places : \/ Released(d)[p] = where[p] /\ (p = Path \/ where[p] # d)
                              \/ where[p] = d /\ Released(d)[p] \in {None, "wait"}
<1>1. Path \in Places
  BY ListenerAssumption DEF Path, Places
<1> QED
  BY <1>1 DEF Released, TypeOK

\* A start that fails.
LEMMA FailLets ==
  ASSUME TypeOK, NEW d \in Daemons, NEW f \in BOOLEAN, Fail(d, f), Alive(d),
         \/ f
         \/ pc[d] = "bind" /\ at[d] > NAddrs
         \/ pc[d] = "bindpath" /\ where[Path] # None
  PROVE  Lets(d)
<1>1. d \in excused' \/ excused' = excused
  BY DEF Fail
<1>2. excused \subseteq excused' /\ excused' \subseteq excused \cup {d}
  BY DEF Fail
<1>3. f => d \in excused'
  BY DEF Fail
<1> QED
  BY <1>2, <1>3 DEF Fail, Go, Lets

\* A filter kills: the process, or one of its threads.
LEMMA KillSteps ==
  ASSUME TypeOK, NEW d \in Daemons, pc[d] = "run"
  PROVE  /\ Kill(d, "main") => Lets(d)
         /\ Kill(d, "thread") => Moves(d)
<1>1. Kill(d, "main") => Lets(d)
  BY DEF Kill, Go, Lets, Alive
<1>2. ASSUME Kill(d, "thread") PROVE Moves(d)
  <2>1. pc' = [pc EXCEPT ![d] = "run"] /\ UNCHANGED <<setup, at, where, newest, excused>>
    BY <1>2 DEF Kill, Go
  <2> QED
    BY <2>1 DEF Moves, Leads, Locations
<1> QED
  BY <1>1, <1>2

\* Every step is one of these kinds.
LEMMA SocketSteps ==
  ASSUME TypeOK, NEW d \in Daemons,
         \/ Start(d) \/ Load(d) \/ Resolve(d) \/ BindAddress(d) \/ Unlink(d) \/ BindPath(d)
         \/ Listen(d) \/ InstallFilter(d) \/ Accept(d) \/ ThreadStart(d) \/ Serve(d)
         \/ Sigterm(d) \/ Uninitialize(d) \/ Crash(d)
  PROVE  SocketStep(d)
<1>0. kind \in Kinds /\ TRUE \in BOOLEAN /\ FALSE \in BOOLEAN
  BY ListenerAssumption DEF TypeOK, kind
<1> USE DEF Go, Locations, Starting, Stopping, Over
<1>1. CASE Load(d)
  <2>1. CASE Fail(d, TRUE)
    BY <1>1, <2>1, FailLets DEF Load, SocketStep, Alive
  <2>2. CASE /\ Go(d, CASE kind = "inetd" -> "filter" [] kind = "unix" -> "unlink" [] OTHER -> "resolve")
             /\ UNCHANGED <<setup, at, threads, where, newest, excused>>
    <3>1. pc[d] = "load"
      BY <1>1 DEF Load
    <3>2. CASE kind = "inetd"
      BY <2>2, <3>1, <3>2 DEF SocketStep, Moves, Leads
    <3>3. CASE kind = "unix"
      BY <2>2, <3>1, <3>3 DEF SocketStep, Moves, Leads
    <3>4. CASE TcpKind
      <4>1. kind # "inetd" /\ kind # "unix"
        BY <3>4 DEF TcpKind
      <4>2. pc' = [pc EXCEPT ![d] = "resolve"]
        BY <2>2, <4>1
      <4> QED
        BY <2>2, <3>1, <3>4, <4>2 DEF SocketStep, Moves, Leads
    <3> QED
      BY <1>0, <3>2, <3>3, <3>4 DEF Kinds, TcpKind
  <2> QED
    BY <1>1, <2>1, <2>2 DEF Load
<1>2. CASE Resolve(d)
  <2>1. CASE Fail(d, TRUE)
    BY <1>2, <2>1, FailLets DEF Resolve, SocketStep, Alive
  <2> QED
    BY <1>2, <2>1 DEF Resolve, SocketStep, Moves, Leads
<1>3. CASE BindAddress(d)
  <2>1. CASE at[d] > NAddrs /\ Fail(d, FALSE)
    BY <1>3, <2>1, FailLets DEF BindAddress, SocketStep, Alive
  <2>2. CASE /\ at[d] <= NAddrs
             /\ at' = [at EXCEPT ![d] = @ + 1]
             /\ excused' = IF Free(where[at[d]]) THEN excused \cup {d} ELSE excused
             /\ UNCHANGED <<setup, pc, threads, where, newest>>
    BY <1>3, <2>2 DEF BindAddress, SocketStep, Skips
  <2>3. CASE /\ at[d] <= NAddrs /\ Free(where[at[d]])
             /\ where' = [where EXCEPT ![at[d]] = d] /\ newest' = d
             /\ Go(d, "listen")
             /\ UNCHANGED <<setup, at, threads, excused>>
    BY <1>3, <2>3 DEF BindAddress, SocketStep, Takes
  <2> QED
    BY <1>3, <2>1, <2>2, <2>3 DEF BindAddress
<1>4. CASE Unlink(d)
  <2>1. CASE Fail(d, TRUE)
    BY <1>4, <2>1, FailLets DEF Unlink, SocketStep, Alive
  <2> QED
    BY <1>4, <2>1 DEF Unlink, SocketStep, MakesRoom
<1>5. CASE BindPath(d)
  <2>1. CASE where[Path] # None /\ Fail(d, FALSE)
    BY <1>5, <2>1, FailLets DEF BindPath, SocketStep, Alive
  <2> QED
    BY <1>5, <2>1 DEF BindPath, SocketStep, TakesPath
<1>6. CASE Listen(d)
  <2>1. CASE Fail(d, TRUE)
    BY <1>6, <2>1, FailLets DEF Listen, SocketStep, Alive
  <2> QED
    BY <1>6, <2>1 DEF Listen, SocketStep, Moves, Leads
<1>7. CASE InstallFilter(d)
  <2>1. CASE Fail(d, TRUE)
    BY <1>7, <2>1, FailLets DEF InstallFilter, SocketStep, Alive
  <2> QED
    BY <1>7, <2>1 DEF InstallFilter, SocketStep, Moves, Leads
<1>8. CASE Accept(d)
  <2>1. pc[d] = "run"
    BY <1>8 DEF Accept
  <2>2. CASE UNCHANGED <<setup, pc, at, where, newest, excused>>
    <3>1. pc' = [pc EXCEPT ![d] = "run"]
      BY <2>1, <2>2 DEF TypeOK
    <3> QED
      BY <2>1, <2>2, <3>1 DEF SocketStep, Moves, Leads
  <2> QED
    BY <1>8, <2>1, <2>2, KillSteps DEF Accept, SocketStep
<1>14. CASE ThreadStart(d)
  <2>1. pc[d] = "run" /\ UNCHANGED <<setup, at, where, newest, excused>>
    BY <1>14 DEF ThreadStart
  <2>2. pc' = [pc EXCEPT ![d] = "run"] \/ (kind = "inetd" /\ pc' = [pc EXCEPT ![d] = "exit"])
    <3>1. CASE UNCHANGED pc
      BY <2>1, <3>1 DEF TypeOK
    <3>2. CASE Go(d, IF kind = "inetd" THEN "exit" ELSE "run")
      BY <3>2
    <3> QED
      BY <1>14, <3>1, <3>2 DEF ThreadStart
  <2> QED
    BY <2>1, <2>2 DEF SocketStep, Moves, Leads
<1>9. CASE Serve(d)
  <2>1. pc[d] = "run"
    BY <1>9 DEF Serve
  <2>2. CASE /\ Go(d, IF kind = "inetd" THEN "exit" ELSE "run")
             /\ UNCHANGED <<setup, at, where, newest, excused>>
    <3>1. CASE kind = "inetd"
      BY <2>1, <2>2, <3>1 DEF SocketStep, Moves, Leads
    <3>2. CASE kind # "inetd"
      BY <2>1, <2>2, <3>2 DEF SocketStep, Moves, Leads
    <3> QED
      BY <3>1, <3>2
  <2>3. CASE Kill(d, IF kind = "inetd" THEN "main" ELSE "thread")
    <3>1. Kill(d, "main") \/ Kill(d, "thread")
      BY <2>3
    <3> QED
      BY <2>1, <3>1, KillSteps DEF SocketStep
  <2> QED
    BY <1>9, <2>2, <2>3 DEF Serve
<1>10. CASE Sigterm(d)
  <2>1. pc[d] = "run" /\ kind # "inetd"
    BY <1>10 DEF Sigterm
  <2>2. CASE Go(d, "close") /\ UNCHANGED <<setup, at, where, newest, excused>>
    BY <2>1, <2>2 DEF SocketStep, Moves, Leads
  <2> QED
    BY <1>10, <2>1, <2>2, KillSteps DEF Sigterm, SocketStep
<1>11. CASE Uninitialize(d)
  <2>1. UNCHANGED <<setup, at, excused>>
    BY <1>11 DEF Uninitialize
  <2>2. CASE pc[d] = "close" /\ where' = Released(d) /\ Go(d, "unlinkpath") /\ UNCHANGED newest
    BY <2>1, <2>2 DEF SocketStep, Lets, Alive
  <2>3. CASE /\ pc[d] = "unlinkpath" /\ Go(d, "shutdown")
             /\ where' = IF TcpKind THEN where ELSE [where EXCEPT ![Path] = None]
             /\ newest' = IF TcpKind THEN newest ELSE None
    <3>1. CASE TcpKind
      BY <2>1, <2>3, <3>1 DEF SocketStep, Moves, Leads
    <3>2. CASE ~TcpKind
      BY <2>1, <2>3, <3>2 DEF SocketStep, RemovesPath
    <3> QED
      BY <3>1, <3>2
  <2>4. CASE pc[d] = "shutdown" /\ Go(d, "exit") /\ UNCHANGED <<where, newest>>
    BY <2>1, <2>4 DEF SocketStep, Moves, Leads
  <2> QED
    BY <1>11, <2>2, <2>3, <2>4 DEF Uninitialize
<1>12. CASE Crash(d)
  BY <1>12 DEF Crash, SocketStep, Lets
<1>13. CASE Start(d)
  BY <1>13 DEF SocketStep
<1> QED
  BY <1>1, <1>2, <1>3, <1>4, <1>5, <1>6, <1>7, <1>8, <1>9, <1>10, <1>11, <1>12, <1>13, <1>14

\* No step takes a variable out of its range.
LEMMA TypeStep == TypeOK /\ [Next]_vars => TypeOK'
<1> SUFFICES ASSUME TypeOK, [Next]_vars PROVE TypeOK'
  OBVIOUS
<1>1. CASE UNCHANGED vars
  BY <1>1 DEF vars, TypeOK
<1>2. ASSUME NEW d \in Daemons, SocketStep(d) PROVE TypeOK'
  <2> USE DEF Locations, Starting, Stopping, Over
  <2>1. CASE Moves(d)
    BY <2>1 DEF Moves, TypeOK
  <2>2. CASE Lets(d)
    BY <2>2, ReleasedPlaces DEF Lets, TypeOK
  <2>3. CASE Skips(d)
    BY <2>3 DEF Skips, TypeOK
  <2>4. CASE Takes(d) \/ MakesRoom(d) \/ TakesPath(d) \/ RemovesPath(d)
    BY <2>4 DEF Takes, MakesRoom, TakesPath, RemovesPath, TypeOK
  <2>5. CASE Start(d)
    BY <2>5 DEF Start, Go, TypeOK
  <2> QED
    BY <1>2, <2>1, <2>2, <2>3, <2>4, <2>5 DEF SocketStep
<1> QED
  BY <1>1, <1>2, SocketSteps DEF Next

LEMMA TypeInit == Init => TypeOK
  BY ListenerAssumption DEF Init, TypeOK, Locations

-----------------------------------------------------------------------------
(* A daemon that starts alone runs.                                        *)

\* Main keeps to the way its socket argument leads it.
LEMMA RouteStep ==
  ASSUME TypeOK, Route, NEW d \in Daemons, SocketStep(d)
  PROVE  Route'
<1>0. UNCHANGED <<setup, kind, TcpKind>>
  BY DEF SocketStep, Moves, Lets, Skips, Takes, MakesRoom, TakesPath, RemovesPath,
         Start, kind, TcpKind
<1> USE DEF Stopping
<1>1. CASE Moves(d)
  <2>1. PICK m \in Locations : pc' = [pc EXCEPT ![d] = m] /\ Leads(pc[d], m)
    BY <1>1 DEF Moves
  <2> QED
    BY <1>0, <2>1 DEF Leads, Route, TypeOK, TcpKind
<1>2. CASE Lets(d)
  BY <1>0, <1>2 DEF Lets, Route, TypeOK
<1>3. CASE Skips(d)
  BY <1>0, <1>3 DEF Skips, Route
<1>4. CASE Takes(d) \/ TakesPath(d) \/ MakesRoom(d) \/ RemovesPath(d)
  BY <1>0, <1>4
  DEF Takes, TakesPath, MakesRoom, RemovesPath, Route, TypeOK, TcpKind
<1>5. CASE Start(d)
  BY <1>0, <1>5 DEF Start, Go, Route, TypeOK
<1> QED
  BY <1>1, <1>2, <1>3, <1>4, <1>5 DEF SocketStep

\* A daemon that ends lets its address go.
LEMMA BoundStep ==
  ASSUME TypeOK, Route, Bound, NEW d \in Daemons, SocketStep(d)
  PROVE  Bound'
<1>0. UNCHANGED <<setup, kind, TcpKind>> /\ None \notin Daemons /\ "wait" \notin Daemons
  BY ListenerAssumption
  DEF SocketStep, Moves, Lets, Skips, Takes, MakesRoom, TakesPath, RemovesPath,
      Start, kind, TcpKind
<1>1. CASE Moves(d)
  <2>1. PICK m \in Locations : pc' = [pc EXCEPT ![d] = m] /\ Leads(pc[d], m)
    BY <1>1 DEF Moves
  <2> QED
    BY <1>0, <1>1, <2>1 DEF Moves, Leads, Bound, TypeOK, TcpKind
<1>2. CASE Lets(d)
  BY <1>0, <1>2, ReleasedPlaces DEF Lets, Bound, TypeOK
<1>3. CASE Skips(d)
  BY <1>0, <1>3 DEF Skips, Bound
<1>4. CASE Takes(d)
  <2>1. TcpKind
    BY <1>4, ListenerAssumption DEF Takes, Route, TypeOK, TcpKind, kind, Kinds
  <2> QED
    BY <1>0, <1>4, <2>1 DEF Takes, Bound, TypeOK
<1>5. CASE TakesPath(d) \/ MakesRoom(d) \/ RemovesPath(d)
  BY <1>0, <1>5 DEF TakesPath, MakesRoom, RemovesPath, Bound, TypeOK
<1>6. CASE Start(d)
  BY <1>0, <1>6 DEF Start, Go, Bound, TypeOK
<1> QED
  BY <1>1, <1>2, <1>3, <1>4, <1>5, <1>6 DEF SocketStep

\* Nothing keeps a daemon from its first address, or from the path, that is
\* alone and met no fault.
LEMMA FirstIsFree ==
  ASSUME TypeOK, Bound, Unhindered, NEW d \in Daemons, d \notin excused
  PROVE  /\ pc[d] = "bind" => at[d] = 1 /\ at[d] <= NAddrs /\ Free(where[at[d]])
         /\ pc[d] = "bindpath" => where[Path] = None
<1>1. CASE pc[d] = "bind"
  <2>1. at[d] = 1 /\ \A x \in Daemons : Alive(x) => x = d
    BY <1>1 DEF Unhindered, Starting
  <2>2. 1 \in Places /\ 1 # Path /\ 1 <= NAddrs
    BY ListenerAssumption DEF Places, Path
  <2>3. where[1] \notin Daemons
    <3> SUFFICES ASSUME where[1] \in Daemons PROVE FALSE
      OBVIOUS
    <3>1. pc[where[1]] \in {"listen", "filter", "run", "close"}
      BY <2>2 DEF Bound
    <3>2. Alive(where[1])
      BY <3>1 DEF Alive, Starting, Stopping
    <3> QED
      BY <1>1, <2>1, <3>1, <3>2
  <2> QED
    BY <1>1, <2>1, <2>2, <2>3 DEF Free, TypeOK
<1>2. CASE pc[d] = "bindpath"
  BY <1>2 DEF Unhindered, Starting
<1> QED
  BY <1>1, <1>2

\* No step but a fault or another daemon hinders a daemon that starts.
LEMMA RestartStep ==
  ASSUME TypeOK, RestartInv, NEW d \in Daemons, SocketStep(d)
  PROVE  Unhindered' /\ RestartWorks'
<1> USE DEF RestartInv
<1>0. excused \subseteq excused' /\ excused' \subseteq Daemons
  <2>1. CASE Start(d)
    BY <2>1 DEF Start, TypeOK
  <2>2. CASE ~Start(d)
    BY <2>2 DEF SocketStep, Moves, Lets, Skips, Takes, MakesRoom, TakesPath,
                RemovesPath, TypeOK
  <2> QED
    BY <2>1, <2>2
<1>1. CASE Start(d)
  <2>1. /\ pc[d] = "off" /\ pc' = [pc EXCEPT ![d] = "load"]
        /\ UNCHANGED <<at, where>>
        /\ Others(d) # {} => d \in excused'
        /\ \A x \in Daemons : pc[x] \in Starting => x \in excused'
    BY <1>1 DEF Start, Go
  <2>2. \A x \in Daemons : x # d => (Alive(x)' <=> Alive(x)) /\ pc'[x] = pc[x]
    BY <2>1 DEF Alive, TypeOK
  <2>3. pc'[d] = "load"
    BY <2>1 DEF TypeOK
  <2>4. ASSUME NEW x \in Daemons, pc'[x] \in Starting, x \notin excused'
        PROVE  x = d /\ \A y \in Daemons : Alive(y)' => y = x
    <3>1. x = d
      BY <2>1, <2>2, <2>4
    <3>2. Others(d) = {}
      BY <2>1, <2>4, <3>1
    <3> QED
      BY <2>2, <3>1, <3>2 DEF Others
  <2>5. Unhindered'
    BY <2>1, <2>2, <2>3, <2>4 DEF Unhindered
  <2>6. RestartWorks'
    BY <1>0, <2>2, <2>3 DEF RestartWorks
  <2> QED
    BY <2>5, <2>6
<1>2. CASE ~Start(d)
  <2>1. /\ Alive(d) /\ \A x \in Daemons : x # d => pc'[x] = pc[x] /\ at'[x] = at[x]
    <3> USE DEF Alive, Starting, Stopping, TypeOK
    <3>1. CASE Moves(d)
      BY <3>1 DEF Moves, Leads
    <3>2. CASE Lets(d)
      BY <3>2 DEF Lets
    <3>3. CASE Skips(d) \/ Takes(d) \/ MakesRoom(d) \/ TakesPath(d) \/ RemovesPath(d)
      BY <3>3 DEF Skips, Takes, MakesRoom, TakesPath, RemovesPath
    <3> QED
      BY <1>2, <3>1, <3>2, <3>3 DEF SocketStep
  <2>2. \A x \in Daemons : x # d => (Alive(x)' <=> Alive(x))
    BY <2>1 DEF Alive
  <2>3. ASSUME NEW x \in Daemons, x # d
        PROVE  pc[x] \in Starting => x \in excused
    BY <2>1, <2>3 DEF Unhindered
  <2>4. ASSUME /\ pc'[d] \in {"load", "resolve"} => at'[d] = 1
               /\ pc'[d] \in Starting => pc[d] \in Starting
               /\ pc'[d] = "bind" /\ d \notin excused' => at'[d] = 1
               /\ pc'[d] = "bindpath" /\ d \notin excused' => where'[Path] = None
               /\ pc'[d] = "exit1" => d \in excused'
               /\ pc'[d] # "off"
        PROVE  Unhindered' /\ RestartWorks'
    <3>1. RestartWorks'
      BY <1>0, <2>1, <2>4 DEF RestartWorks
    <3>2. ASSUME NEW x \in Daemons, x # d
          PROVE  /\ pc'[x] \in {"off", "load", "resolve"} => at'[x] = 1
                 /\ pc'[x] \in Starting => x \in excused'
      BY <1>0, <2>1, <2>3, <3>2 DEF Unhindered
    <3>3. ASSUME pc'[d] \in Starting, d \notin excused'
          PROVE  \A x \in Daemons : Alive(x)' => x = d
      BY <1>0, <2>2, <2>4, <3>3 DEF Unhindered
    <3>4. Unhindered'
      BY <2>4, <3>2, <3>3 DEF Unhindered
    <3> QED
      BY <3>1, <3>4
  <2> USE DEF Starting, TypeOK
  <2>5. CASE Moves(d)
    <3>1. PICK m \in Locations : pc' = [pc EXCEPT ![d] = m] /\ Leads(pc[d], m)
      BY <2>5 DEF Moves
    <3> QED
      BY <2>4, <2>5, <3>1 DEF Moves, Leads, Unhindered
  <2>6. CASE Lets(d)
    <3>1. pc'[d] \in {"exit1", "crashed", "killed", "unlinkpath"}
      BY <2>6 DEF Lets
    <3>2. pc'[d] = "exit1" => d \in excused'
      <4> SUFFICES ASSUME pc'[d] = "exit1", d \notin excused' PROVE FALSE
        OBVIOUS
      <4>1. \/ pc[d] = "bind" /\ at[d] > NAddrs
            \/ pc[d] = "bindpath" /\ where[Path] # None
        BY <2>6 DEF Lets
      <4>2. d \notin excused
        BY <1>0
      <4> QED
        BY <4>1, <4>2, FirstIsFree, ListenerAssumption
    <3> QED
      BY <2>4, <3>1, <3>2
  <2>7. CASE Skips(d)
    <3>1. d \in excused'
      BY <1>0, <2>7, FirstIsFree DEF Skips
    <3> QED
      BY <2>4, <2>7, <3>1 DEF Skips
  <2>8. CASE Takes(d) \/ TakesPath(d) \/ RemovesPath(d)
    BY <2>4, <2>8 DEF Takes, TakesPath, RemovesPath
  <2>9. CASE MakesRoom(d)
    <3>1. Path \in Places
      BY ListenerAssumption DEF Path, Places
    <3> QED
      BY <2>4, <2>9, <3>1 DEF MakesRoom
  <2> QED
    BY <1>2, <2>5, <2>6, <2>7, <2>8, <2>9 DEF SocketStep
<1> QED
  BY <1>1, <1>2

-----------------------------------------------------------------------------
(* The newest daemon can be reached.                                       *)

\* No step takes the newest daemon's place away.
LEMMA NewestStep ==
  ASSUME TypeOK, ReachInv, NEW d \in Daemons, SocketStep(d)
  PROVE  NewestBound'
<1> USE DEF ReachInv, TypeOK
<1>0. /\ UNCHANGED <<setup, kind, TcpKind>> /\ None \notin Daemons
      /\ "wait" \notin Daemons /\ kind \in Kinds
      /\ Path \in Places /\ Path = 0 /\ NAddrs \in Nat
  BY ListenerAssumption
  DEF SocketStep, Moves, Lets, Skips, Takes, MakesRoom, TakesPath, RemovesPath,
      Start, kind, TcpKind, Path, Places
<1>1. CASE Start(d)
  BY <1>0, <1>1 DEF Start, Go, NewestBound
<1>2. CASE Moves(d)
  <2>1. PICK m \in Locations : pc' = [pc EXCEPT ![d] = m] /\ Leads(pc[d], m)
    BY <1>2 DEF Moves
  <2>2. CASE pc[d] = "load"
    <3>1. kind = "inetd" \/ m \notin {"listen", "filter", "run"}
      BY <2>1, <2>2 DEF Leads
    <3> QED
      BY <1>0, <1>2, <2>1, <3>1 DEF Moves, NewestBound
  <2>3. CASE pc[d] # "load"
    <3>1. m \in {"listen", "filter", "run"} => pc[d] \in {"listen", "filter", "run"}
      BY <2>1, <2>3 DEF Leads
    <3> QED
      BY <1>0, <1>2, <2>1, <3>1 DEF Moves, NewestBound
  <2> QED
    BY <2>2, <2>3
<1>3. CASE Lets(d)
  <2>1. \A p \in Places : where[p] # d => where'[p] = where[p]
    BY <1>3, ReleasedPlaces DEF Lets
  <2>2. where'[Path] = where[Path]
    BY <1>3, ReleasedPlaces DEF Lets
  <2>3. /\ pc'[d] \notin {"listen", "filter", "run"}
        /\ \A x \in Daemons : x # d => pc'[x] = pc[x]
        /\ UNCHANGED <<at, newest>>
    BY <1>3 DEF Lets
  <2>4. \A x \in Daemons : at[x] <= NAddrs => at[x] \in Places
    BY <1>0 DEF Places
  <2> QED
    BY <1>0, <2>1, <2>2, <2>3, <2>4 DEF NewestBound
<1>4. CASE Skips(d)
  BY <1>0, <1>4 DEF Skips, NewestBound
<1>5. CASE Takes(d)
  <2>1. kind # "inetd" /\ kind # "unix" /\ newest' = d
    BY <1>5 DEF Takes, Route
  <2>2. at[d] \in Places
    BY <1>0, <1>5 DEF Takes, Places
  <2> QED
    BY <1>0, <1>5, <2>1, <2>2 DEF Takes, NewestBound
<1>6. CASE MakesRoom(d)
  BY <1>0, <1>6 DEF MakesRoom, NewestBound, Route
<1>7. CASE TakesPath(d)
  BY <1>0, <1>7 DEF TakesPath, NewestBound, Route
<1>8. CASE RemovesPath(d)
  BY <1>0, <1>8 DEF RemovesPath, NewestBound
<1> QED
  BY <1>1, <1>2, <1>3, <1>4, <1>5, <1>6, <1>7, <1>8 DEF SocketStep

-----------------------------------------------------------------------------
\* No step breaks what keeps a daemon that starts alone unhindered.
LEMMA RestartInductive == TypeOK /\ RestartInv /\ [Next]_vars => RestartInv'
<1> SUFFICES ASSUME TypeOK, RestartInv, [Next]_vars PROVE RestartInv'
  OBVIOUS
<1>1. CASE UNCHANGED vars
  BY <1>1 DEF vars, RestartInv, Route, Bound, Unhindered, RestartWorks, Alive, kind, TcpKind
<1>2. ASSUME NEW d \in Daemons, SocketStep(d) PROVE RestartInv'
  BY <1>2, RouteStep, BoundStep, RestartStep DEF RestartInv
<1> QED
  BY <1>1, <1>2, SocketSteps DEF Next

\* No step breaks what keeps the newest daemon reachable.
LEMMA ReachInductive ==
  TypeOK /\ ReachInv /\ [Next]_vars => ReachInv'
<1> SUFFICES ASSUME TypeOK, ReachInv, [Next]_vars PROVE ReachInv'
  OBVIOUS
<1>1. CASE UNCHANGED vars
  BY <1>1 DEF vars, ReachInv, Route, NewestBound, kind, TcpKind
<1>2. ASSUME NEW d \in Daemons, SocketStep(d) PROVE ReachInv'
  BY <1>2, RouteStep, NewestStep DEF ReachInv
<1> QED
  BY <1>1, <1>2, SocketSteps DEF Next

\* A daemon that starts alone and meets no fault never exits with an error:
\* gck_rpc_layer_initialize unlinks the socket file of a predecessor and sets
\* SO_REUSEADDR, so that neither a crash nor a stop of an earlier daemon, at
\* any of its steps, keeps a later one from binding.
THEOREM RestartAlwaysWorks == Spec => []RestartWorks
<1>1. Init => TypeOK /\ RestartInv
  <2> SUFFICES ASSUME Init PROVE RestartInv
    BY TypeInit
  <2>1. \A d \in Daemons : ~Alive(d) /\ pc[d] = "off" /\ at[d] = 1
    BY DEF Init, Alive, Starting, Stopping
  <2>2. Bound
    BY ListenerAssumption DEF Init, Bound
  <2> QED
    BY <2>1, <2>2 DEF RestartInv, Route, Unhindered, RestartWorks, Starting, Stopping
<1>2. RestartInv => RestartWorks
  BY DEF RestartInv
<1> QED
  BY <1>1, <1>2, TypeStep, RestartInductive, PTL DEF Spec

\* The last daemon that bound its address, or unlinked and bound its socket
\* file, is the one that clients reach there as long as it runs, whatever
\* daemons with the same argument start, fail, crash, are killed or stop
\* meanwhile.  Only gck_rpc_layer_uninitialize of another one on the same
\* socket file, which unlinks it, ends this.
THEOREM NewestIsReached == Spec => []Reachable
<1> DEFINE Inv == TypeOK /\ ReachInv
<1>1. Init => Inv
  <2> SUFFICES ASSUME Init PROVE ReachInv
    BY TypeInit
  <2>1. \A d \in Daemons : ~Alive(d) /\ pc[d] = "off"
    BY DEF Init, Alive, Starting, Stopping
  <2> QED
    BY <2>1 DEF Init, ReachInv, Route, NewestBound, Stopping
<1>2. Inv /\ [Next]_vars => Inv'
  BY TypeStep, ReachInductive
<1>3. Inv => Reachable
  <2> SUFFICES ASSUME TypeOK, ReachInv, newest # None, pc[newest] = "run"
               PROVE  \E p \in Places : where[p] = newest
    BY DEF Reachable
  <2>1. newest \in Daemons /\ kind \in Kinds /\ Path \in Places
    BY ListenerAssumption DEF TypeOK, kind, Path, Places
  <2>2. CASE kind = "unix"
    BY <2>1, <2>2 DEF ReachInv, NewestBound
  <2>3. CASE TcpKind
    <3>1. at[newest] \in Places
      BY <2>1, <2>3, ListenerAssumption DEF ReachInv, NewestBound, TypeOK, Places
    <3> QED
      BY <2>1, <2>3, <3>1 DEF ReachInv, NewestBound
  <2>4. kind # "inetd"
    BY DEF ReachInv, NewestBound
  <2> QED
    BY <2>1, <2>2, <2>3, <2>4 DEF Kinds, TcpKind
<1> QED
  BY <1>1, <1>2, <1>3, PTL DEF Spec
=============================================================================
