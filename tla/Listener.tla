------------------------------ MODULE Listener ------------------------------
(***************************************************************************)
(* The life of pkcs11-daemon processes that are started with the same      *)
(* socket argument: main of gck-rpc-daemon-standalone.c, the listening     *)
(* socket of gck_rpc_layer_initialize and gck_rpc_layer_uninitialize, and  *)
(* the system call filters of the process and of its threads.  A daemon    *)
(* may crash and be started again, and two may run at the same time.       *)
(*                                                                         *)
(* The threads' calls are in Dispatcher; here a thread is only a caller of *)
(* system calls, those of the log and of the allocator included.  A build  *)
(* with filters kills a thread, or the process, for a call that is not     *)
(* allowed.  The system calls of the PKCS#11 library and of OpenSSL's      *)
(* start are not modelled, nor are the arguments of system calls.          *)
(***************************************************************************)
EXTENDS Integers

CONSTANTS
  Daemons,       \* processes, each started at most once
  NAddrs,        \* addresses getaddrinfo finds for host and port
  Setups,        \* [kind, seccomp]: the socket argument and the build
  Faults,        \* which steps of the start may fail
  MaxThreads,    \* connections served at the same time
  None

Kinds == {"unix", "tcp", "tls", "inetd"}

ASSUME ListenerAssumption ==
  /\ NAddrs \in Nat \ {0} /\ MaxThreads \in Nat
  /\ None \notin Daemons /\ "wait" \notin Daemons \cup {None}
  /\ Setups \subseteq [kind : Kinds, seccomp : BOOLEAN]
  /\ Faults \subseteq {"library", "key", "resolve", "socket", "listen", "filter", "threadfilter"}

Path   == 0                \* the file <prefix>/socket.pkcs11
Places == 0 .. NAddrs     \* Path and the addresses

VARIABLES
  setup,      \* how all daemons are started
  pc,         \* pc[d]: the step main of daemon d is at
  at,         \* at[d]: ai, the address _get_listening_socket tries
  threads,    \* threads[d]: dispatch threads and inetd's loop, "new" or "serving",
              \* and Left when a connection stays open that no thread serves
  where,      \* where[p]: the daemon whose socket is bound at p, "wait" while an
              \* address is in TIME_WAIT; a path keeps the name of a daemon that ended
  newest,     \* the last daemon that bound, or made room at Path; None once a
              \* daemon that stopped has unlinked the file at Path (history)
  excused     \* daemons that met a fault or another daemon at their start (history)

vars == <<setup, pc, at, threads, where, newest, excused>>

Starting == {"load", "resolve", "bind", "unlink", "bindpath", "listen", "filter"}
Stopping == {"close", "unlinkpath", "shutdown"}
Over     == {"exit", "exit1", "crashed", "killed"}
Alive(d) == pc[d] \in Starting \cup Stopping \cup {"run"}
Others(d) == {x \in Daemons \ {d} : Alive(x)}
kind     == setup.kind
TcpKind  == kind \in {"tcp", "tls"}

Left     == <<0, "left">>

Go(d, step) == pc' = [pc EXCEPT ![d] = step]

\* The end of a process closes its sockets: an address that served somebody
\* waits, a path stays.
Released(d) ==
  [p \in Places |-> IF p # Path /\ where[p] = d
                    THEN IF threads[d] = {} THEN None ELSE "wait"
                    ELSE where[p]]

\* mutant: a start that failed removes the socket file
FailCleans(d, fault) ==
  /\ fault => excused' = excused \cup {d}
  /\ ~fault => UNCHANGED excused
  /\ Go(d, "exit1") /\ where' = [Released(d) EXCEPT ![Path] = None]
  /\ UNCHANGED <<setup, at, threads, newest>>

\* exit(1), or return 1 when the filter cannot be loaded.
Fail(d, fault) ==
  /\ fault => excused' = excused \cup {d}
  /\ ~fault => UNCHANGED excused
  /\ Go(d, "exit1") /\ where' = Released(d)
  /\ UNCHANGED <<setup, at, threads, newest>>

-----------------------------------------------------------------------------
(* System call filters.                                                    *)

Basic   == {"write", "exit", "exit_group", "read", "sendto", "close"}
Pthread == {"mmap", "munmap", "mprotect", "clone", "set_robust_list", "madvise", "munlock"}
SoftHSM == {"getcwd", "stat", "open", "fcntl", "fstat", "lseek", "access", "fsync",
            "unlink", "ftruncate", "select", "futex"}

\* What install_syscall_filter allows.  Only a path that says tcp:// gets
\* recvfrom; sock is 0 from inetd.
install_syscall_filter(k) ==
  Basic \cup Pthread \cup SoftHSM \cup {"prctl"}
    \cup (IF k = "inetd" THEN {} ELSE {"accept"})
    \cup (IF k = "tcp" THEN {"recvfrom"} ELSE {})

\* What _install_dispatch_syscall_filter allows.
ThreadFilter == Basic \cup SoftHSM \cup {"recvfrom", "madvise", "mprotect"}

\* Filters add up: a thread may call what both allow.
_install_dispatch_syscall_filter(k) == install_syscall_filter(k) \cap ThreadFilter

\* vsyslog: openlog only names the log, and the first message opens it.  A
\* daemon with a socket has said where it listens before its filter is
\* loaded, but opens the log again when the one who reads it was restarted.
LogCalls(k) ==
  {{"socket", "connect", "sendto"}} \cup (IF k = "inetd" THEN {} ELSE {{"sendto"}})

\* What the allocator does for the buffers of a connection and its calls:
\* use what it has, let its heap grow, or map a large one.
HeapCalls == {{}, {"mprotect"}, {"brk"}, {"mmap"}}

\* The system calls a thread may make that serves a connection to its end:
\* those of read_all and write_all, or through OpenSSL, which opens the key
\* file first, or those of inetd; the log; the memory.
ServeCalls(k) ==
  LET own == {"futex", "madvise", "exit", "close"}
               \cup CASE k \in {"tcp", "unix"} -> {"recvfrom", "sendto"}
                      [] k = "tls" -> {"open", "read", "write"}
                      [] k = "inetd" -> {"read", "write"}
  IN {own \cup log \cup heap : log \in LogCalls(k), heap \in HeapCalls}

AcceptCalls == {"select", "accept", "futex", "mmap", "mprotect", "clone"}
StopCalls(d) == {"rt_sigreturn"} \cup (IF threads[d] = {} THEN {} ELSE {"shutdown", "futex"})

Allowed(calls, filter) == setup.seccomp => calls \subseteq filter

\* SCMP_ACT_KILL ends the thread that made the call; nobody closes the
\* connection it had.
Kill(d, who) ==
  /\ Go(d, IF who = "main" THEN "killed" ELSE pc[d])
  /\ where' = IF who = "main" THEN Released(d) ELSE where
  /\ UNCHANGED <<setup, at, newest, excused>>

Drop(d, thread) == threads' = [threads EXCEPT ![d] = (@ \ {thread}) \cup {Left}]

-----------------------------------------------------------------------------
(* Start.                                                                  *)

Init ==
  /\ setup \in Setups
  /\ pc = [d \in Daemons |-> "off"] /\ at = [d \in Daemons |-> 1]
  /\ threads = [d \in Daemons |-> {}] /\ where = [p \in Places |-> None]
  /\ newest = None /\ excused = {}

Start(d) ==
  /\ pc[d] = "off"
  /\ Go(d, "load")
  /\ excused' = excused \cup (IF Others(d) = {} THEN {} ELSE {d})
                  \cup {x \in Daemons : pc[x] \in Starting}
  /\ UNCHANGED <<setup, at, threads, where, newest>>

\* The library, its C_Initialize, the key file of tls://, and which way the
\* socket argument asks for.
Load(d) ==
  /\ pc[d] = "load"
  /\ \/ "library" \in Faults /\ Fail(d, TRUE)
     \/ "key" \in Faults /\ kind = "tls" /\ Fail(d, TRUE)
     \/ /\ Go(d, CASE kind = "inetd" -> "filter" [] kind = "unix" -> "unlink" [] OTHER -> "resolve")
        /\ UNCHANGED <<setup, at, threads, where, newest, excused>>

\* gck_rpc_parse_host_port and getaddrinfo.
Resolve(d) ==
  /\ pc[d] = "resolve"
  /\ \/ "resolve" \in Faults /\ Fail(d, TRUE)
     \/ Go(d, "bind") /\ UNCHANGED <<setup, at, threads, where, newest, excused>>

\* mutant: SO_REUSEADDR is not set
FreeOnly(v) == v = None

\* Can an address be bound?  SO_REUSEADDR is set.
Free(v) == v \in {None, "wait"}

\* The loop of _get_listening_socket: the next address when a call fails.
BindAddress(d) ==
  /\ pc[d] = "bind"
  /\ \/ at[d] > NAddrs /\ Fail(d, FALSE)
     \/ /\ at[d] <= NAddrs /\ ("socket" \in Faults \/ ~Free(where[at[d]]))
        /\ at' = [at EXCEPT ![d] = @ + 1]
        /\ excused' = IF Free(where[at[d]]) THEN excused \cup {d} ELSE excused
        /\ UNCHANGED <<setup, pc, threads, where, newest>>
     \/ /\ at[d] <= NAddrs /\ Free(where[at[d]])
        /\ where' = [where EXCEPT ![at[d]] = d] /\ newest' = d
        /\ Go(d, "listen")
        /\ UNCHANGED <<setup, at, threads, excused>>

\* mutant: the socket file of an earlier daemon is left alone
UnlinkNot(d) ==
  /\ pc[d] = "unlink"
  /\ \/ "socket" \in Faults /\ Fail(d, TRUE)
     \/ Go(d, "bindpath") /\ newest' = d /\ UNCHANGED <<setup, at, threads, where, excused>>

\* socket() and unlink() for a UNIX socket.
Unlink(d) ==
  /\ pc[d] = "unlink"
  /\ \/ "socket" \in Faults /\ Fail(d, TRUE)
     \/ /\ where' = [where EXCEPT ![Path] = None] /\ newest' = d
        /\ Go(d, "bindpath")
        /\ UNCHANGED <<setup, at, threads, excused>>

BindPath(d) ==
  /\ pc[d] = "bindpath"
  /\ \/ where[Path] # None /\ Fail(d, FALSE)
     \/ /\ where[Path] = None
        /\ where' = [where EXCEPT ![Path] = d]
        /\ Go(d, "listen")
        /\ UNCHANGED <<setup, at, threads, newest, excused>>

\* listen(), getnameinfo() of the address, and the handler of SIGTERM.
Listen(d) ==
  /\ pc[d] = "listen"
  /\ \/ "listen" \in Faults /\ Fail(d, TRUE)
     \/ Go(d, "filter") /\ UNCHANGED <<setup, at, threads, where, newest, excused>>

\* install_syscall_filter; inetd's one connection is served by main itself.
InstallFilter(d) ==
  /\ pc[d] = "filter"
  /\ \/ "filter" \in Faults /\ setup.seccomp /\ Fail(d, TRUE)
     \/ /\ Go(d, "run")
        /\ threads' = [threads EXCEPT ![d] = IF kind = "inetd" THEN {<<1, "new">>} ELSE {}]
        /\ UNCHANGED <<setup, at, where, newest, excused>>

-----------------------------------------------------------------------------
(* Serving.                                                                *)

\* select, accept and pthread_create in the main loop.
Accept(d) ==
  /\ pc[d] = "run" /\ kind # "inetd"
  /\ \E t \in 1 .. MaxThreads :
       /\ \A s \in {"new", "serving"} : <<t, s>> \notin threads[d]
       /\ IF Allowed(AcceptCalls, install_syscall_filter(kind))
          THEN /\ threads' = [threads EXCEPT ![d] = @ \cup {<<t, "new">>}]
               /\ UNCHANGED <<setup, pc, at, where, newest, excused>>
          ELSE Kill(d, "main") /\ UNCHANGED threads

\* run_dispatch_thread loads its own filter, and returns with the connection
\* open when it cannot; inetd's daemon then ends.
ThreadStart(d) ==
  /\ pc[d] = "run"
  /\ \E t \in 1 .. MaxThreads :
       /\ <<t, "new">> \in threads[d]
       /\ \/ /\ Allowed({"prctl"}, install_syscall_filter(kind))
             /\ threads' = [threads EXCEPT ![d] = (@ \ {<<t, "new">>}) \cup {<<t, "serving">>}]
             /\ UNCHANGED pc
          \/ /\ "threadfilter" \in Faults /\ setup.seccomp
             /\ Drop(d, <<t, "new">>)
             /\ Go(d, IF kind = "inetd" THEN "exit" ELSE "run")
  /\ UNCHANGED <<setup, at, where, newest, excused>>

\* A connection is served to its end, or its thread makes a call the filter
\* forbids.  inetd's daemon ends too.
Serve(d) ==
  /\ pc[d] = "run"
  /\ \E t \in 1 .. MaxThreads, calls \in ServeCalls(kind) :
       /\ <<t, "serving">> \in threads[d]
       /\ IF Allowed(calls, _install_dispatch_syscall_filter(kind))
          THEN /\ threads' = [threads EXCEPT ![d] = @ \ {<<t, "serving">>}]
               /\ Go(d, IF kind = "inetd" THEN "exit" ELSE "run")
               /\ UNCHANGED <<setup, at, where, newest, excused>>
          ELSE /\ Drop(d, <<t, "serving">>)
               /\ Kill(d, IF kind = "inetd" THEN "main" ELSE "thread")

-----------------------------------------------------------------------------
(* The end.                                                                *)

\* The handler clears is_running and the main loop ends.
Sigterm(d) ==
  /\ pc[d] = "run" /\ kind # "inetd"
  /\ IF Allowed(StopCalls(d), install_syscall_filter(kind))
     THEN Go(d, "close") /\ UNCHANGED <<setup, at, where, newest, excused>>
     ELSE Kill(d, "main")
  /\ UNCHANGED threads

\* gck_rpc_layer_uninitialize, as its system calls: the listening socket,
\* the socket file, whoever it belongs to, the connections.
Uninitialize(d) ==
  /\ \/ /\ pc[d] = "close"
        /\ where' = Released(d) /\ Go(d, "unlinkpath") /\ UNCHANGED <<threads, newest>>
     \/ /\ pc[d] = "unlinkpath"
        /\ where' = IF TcpKind THEN where ELSE [where EXCEPT ![Path] = None]
        /\ newest' = IF TcpKind THEN newest ELSE None
        /\ Go(d, "shutdown") /\ UNCHANGED threads
     \/ /\ pc[d] = "shutdown"
        /\ threads' = [threads EXCEPT ![d] = {}] /\ Go(d, "exit") /\ UNCHANGED <<where, newest>>
  /\ UNCHANGED <<setup, at, excused>>

Crash(d) ==
  /\ Alive(d)
  /\ Go(d, "crashed") /\ where' = Released(d)
  /\ threads' = [threads EXCEPT ![d] = {}]
  /\ UNCHANGED <<setup, at, newest, excused>>

Next ==
  \E d \in Daemons :
    \/ Start(d) \/ Load(d) \/ Resolve(d) \/ BindAddress(d) \/ Unlink(d) \/ BindPath(d)
    \/ Listen(d) \/ InstallFilter(d) \/ Accept(d) \/ ThreadStart(d) \/ Serve(d)
    \/ Sigterm(d) \/ Uninitialize(d) \/ Crash(d)

Spec == Init /\ [][Next]_vars

-----------------------------------------------------------------------------
(* Properties.                                                             *)

\* The daemon that was the last to bind its address, or to make room for its
\* socket file, can be reached there as long as it runs, whatever other
\* daemons with the same socket argument do: start, fail at any step, serve,
\* crash, are killed by a filter, and, on an address, stop.  (One that stops
\* on a socket file unlinks the file of the newest too; then none is.)
Reachable ==
  newest # None /\ pc[newest] = "run" => \E p \in Places : where[p] = newest

\* A daemon that starts alone, with nothing failing, runs: what a daemon
\* that crashed, stopped or was killed by its filter, at any step, left
\* behind (a socket file, an address in TIME_WAIT) does not keep its
\* successor from binding.
RestartWorks == \A d \in Daemons : pc[d] = "exit1" => d \in excused
=============================================================================
