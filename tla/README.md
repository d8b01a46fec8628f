# A TLA+ model of pkcs11-proxy

pkcs11-proxy lets an application use a PKCS#11 module (an HSM, SoftHSM, ...)
that lives in another process or on another machine. The application loads
`libpkcs11-proxy`, whose `C_*` functions are stubs; a daemon,
`pkcs11-daemon`, loads the real module and executes the calls. Requests and
responses travel over a Unix socket, TCP, or TLS with a pre-shared key.

This directory holds TLA+ modules that model the parts of the program that
carry its own logic, TLC configurations that check them on small instances,
and proofs that the TLA+ proof system (tlapm) checks for all instances.
`PROJECT.json` maps every definition to the lines of source it models.

## 1. Inventory

| Component | State | Operations | Talks to |
|---|---|---|---|
| Client call pool (`gck-rpc-module.c`) | `call_state_pool`, `n_call_state_pool`, a `CallState` per connection, `pkcs11_initialized`, `pkcs11_socket_path`, two mutexes | `call_lookup`, `call_connect`, `call_prepare`, `call_send_recv`, `call_run`, `call_done`, `call_destroy`, `C_Initialize`, `C_Finalize` | application threads call it; sockets to the daemon |
| Client stubs (`gck-rpc-module.c`) | the call in hand | 65 `rpc_C_*` functions built from `IN_*` and `OUT_*` macros | call pool, message layer |
| Message layer (`gck-rpc-message.c`, `gck-rpc-private.h`) | a buffer, a signature, how much of the signature is verified | `prep`, `parse`, `verify_part`, `read_*`, `write_*` | stubs of both sides |
| EggBuffer (`egg-buffer.c`) | bytes, length, failure flag | `add_*`, `get_*`, `set_*`, `reserve` | message layer |
| Daemon stubs (`gck-rpc-dispatch.c`) | the call in hand | 67 `rpc_C_*` functions, `dispatch_call` | message layer, the PKCS#11 module |
| Session bookkeeping (`gck-rpc-dispatch.c`) | `CallState.sessions`, one table per connection | `C_OpenSession`, `C_CloseSession`, `C_CloseAllSessions`, `C_Finalize`, `call_uninit` | the PKCS#11 module, shared by all connections |
| Daemon threads (`gck-rpc-dispatch.c`, `gck-rpc-daemon-standalone.c`) | `pkcs11_dispatchers` and its mutex, `is_running`, a `DispatchState` per connection | main loop, SIGTERM, `gck_rpc_layer_accept`, `run_dispatch_thread`, `gck_rpc_layer_uninitialize`, the second half of `rpc_C_Finalize` | clients, each other |
| Mechanism and attribute helpers (`gck-rpc-util.c`) | none | which mechanisms are passed on, `gck_rpc_mechanism_list_purge`, CK_ULONG widths | stubs |
| Transfer of bytes (`gck-rpc-module.c`, `gck-rpc-dispatch.c`, `gck-rpc-tls-psk.c`) | how much of an item is left | `call_read`, `call_write`, `read_all`, `write_all`, `inetd_read`, `inetd_write`, `gck_rpc_tls_read_all`, `gck_rpc_tls_write_all` | sockets, OpenSSL |
| TLS-PSK (`gck-rpc-tls-psk.c`) | one TLS state per side, in the daemon shared by all threads; the name of the key file | `start_tls`, the transfer functions, the key callbacks, `close_tls` | OpenSSL |
| Addresses and arguments (`gck-rpc-util.c`, `gck-rpc-module.c`, `gck-rpc-dispatch.c`) | `pkcs11_socket_path`, `tls_psk_key_filename`, descriptors | `gck_rpc_parse_host_port`, `parse_arguments`, `_connect_to_host_port`, `_get_listening_socket` | resolver, environment |
| Startup of the daemon, inetd mode (`gck-rpc-daemon-standalone.c`, `gck-rpc-dispatch.c`) | the listening socket and its file or addresses | `main`, `gck_rpc_layer_initialize`, `gck_rpc_layer_uninitialize`, `gck_rpc_layer_inetd` | earlier and later daemons with the same argument |
| System call filters (both files, `seccomp-bpf.h`) | two filters that add up | `install_syscall_filter`, `_install_dispatch_syscall_filter` | every system call of a thread |
| Logging, `p11proxy-mitm`, build files | – | output and configuration | – |

What is hard to get right here:

* **concurrency in the client**: threads of the application share the pool and
  the initialization state, part of it without a lock;
* **a pipe that has to stay in step**: requests and responses carry no serial
  number, so an answer belongs to a call only because the connection was quiet
  when the request was sent. Every failure must either leave the connection
  quiet or get it discarded;
* **concurrency in the daemon**: the threads share a list, a mutex that is held
  while other threads are joined, and each other's `sock`;
* **sessions across connections**: the daemon keeps one table per connection,
  the application has up to 8 pooled connections, and the module reuses
  handles;
* **handwritten marshalling**: each call is written three times (client,
  daemon, signature), and NULL pointers, zero lengths and small buffers must
  mean the same on both sides;
* **bytes from elsewhere**: lengths and counts in a message come from the other
  side, transfers are cut anywhere, and the buffers are used again for the next
  message, also after a failure;
* **what is left behind**: a socket file, an address in TIME_WAIT, another
  daemon with the same argument, settings of an earlier `C_Initialize`, or a
  child of the process that called it;
* **failure**: the daemon or the client may vanish at any point of a call, and
  allocations, `send()`, `accept()` and the module may fail.

`PROJECT.json` lists the hazards one by one, each at its line, with the
properties that are about it.

## 2. Modules

| Module | Models | Kind |
|---|---|---|
| `CallPool` | client call pool, `C_Initialize`, `C_Finalize`, and as much of the daemon as a connection shows | state machine |
| `CallPoolProofs` | theorems about `CallPool` and the refinement | proofs |
| `RemoteCall` | what an application may expect of a remote call | abstract specification |
| `CallPoolRefinement` | that `CallPool` implements `RemoteCall` | refinement |
| `Sessions` | session tables of the dispatch threads and the shared module | state machine |
| `SessionsProofs` | theorems about `Sessions` | proofs |
| `Dispatcher` | main thread, dispatch threads, list, mutex, SIGTERM | state machine |
| `DispatcherProofs` | theorems about `Dispatcher` | proofs |
| `RpcCalls` | the signatures, and the macros every stub of either side consists of, as data | tables |
| `Marshal` | one remote call, from the arguments to the results, for every entry of `RpcCalls` | state machine |
| `MarshalProofs` | theorems about the tables of `RpcCalls` and about `Marshal` | proofs |
| `EggBuffer` | the buffer messages are put together in and taken apart from | operators |
| `Message` | messages as bytes: written, sent, damaged, received, checked, read | state machine, composes two `EggBuffer`s |
| `MessageProofs` | theorems about buffers, and about messages being written and read | proofs |
| `Transport` | the loops that transfer the bytes, over sockets, TLS and inetd | state machine |
| `TransportProofs` | theorems about `Transport` | proofs |
| `Listener` | daemons with the same socket argument: start, filters, stop, crash, restart | state machine |
| `ListenerProofs` | theorems about `Listener` | proofs |
| `ClientSetup` | how the client finds the daemon and its key | state machine and algorithms |
| `ClientSetupProofs` | theorems about `ClientSetup` | proofs |
| `MCCallPool`, `MCSessions`, `MCDispatcher`, `MCMarshal`, `MCMessage`, `MCListener`, `MCClientSetup` | instances: symmetries, sets of calls, messages and inputs | TLC |

### CallPool

State: the pool (`pool`, the head of the list last, and the counter `nPool`),
for each `CallState` its `status` and whether its `sock` is open, the two
directions of its connection (`toSrv`, `toCli`), the initialization state, and
the locals of each thread. A response is two units, the length word and the
body, because a failure can come between them. Call numbers do not travel in
the real messages; they are history that lets the properties say which request
an answer belongs to.

Steps end where another thread can see the difference: at a mutex, a system
call, or an access to a shared variable. `call_lookup` (pop), `call_connect_*`,
`call_prepare`, `call_send`, `call_recv_len`, `call_recv_body`, `call_parse`
and `call_done` (push or destroy) are actions; `C_Initialize` and `C_Finalize`
lock, run the same path, and unlock in `Return`. The daemon's side is `Serve`
(one request executed, one response sent) and `DaemonCloses` (the connection's
thread ends, with or without an answer to what it had read).

Four constants switch faults on: `MemFails` (allocations), `ConnErrors` (TLS or
the application id while connecting), `SendErrors` (a `send()` that fails other
than with EPIPE) and `Reinits` (`C_Finalize`, and initializing again).

`CallStates` are numbered and never reused, so that the daemon may still be
working on the connection of one that was freed.

### RemoteCall and CallPoolRefinement

`RemoteCall` is the promise, without connections, pools or daemons: calls are
begun, executed at most once, and return; one that returns CKR_OK was executed
before, one that fails may have been, or may be executed still; every call
returns unless the process is gone. `C_Finalize` is exempt from the second,
since it returns CKR_OK without a daemon too. `CallPoolRefinement` maps a
thread inside a `C_*` function to a busy one, its `ret` to the result once it
is outside, and the sequence of executed call numbers to a set, a repetition
to a value the promise does not allow. The history variable `unruly` tells
applications that break the rules of PKCS#11 (initializing twice, or
initializing and finalizing while other calls run) from the others.

### Sessions

State: what each dispatch thread is doing, its table `tab`, and the module's
own view, `opener` and `slotOf` of each open handle. `told` holds the sessions
whose handle reached the application. The table is private to its thread, so a
step is one call of the module together with the table update that follows;
the loops of `rpc_C_CloseAllSessions` and `rpc_C_Finalize` take one step per
`C_CloseSession`, between which other threads run. The module is external: it
may hand out any free handle, and fail if `ModuleErrors` is TRUE. `OneConn`
says whether an application keeps to one connection at a time, as the comment
at `gck-rpc-dispatch.c:1137` takes for granted ("Each application on the client
side of pkcs11-proxy will mean different thread on the server side").

### Dispatcher

State: where the main thread and each dispatch thread are, the list, the mutex,
and what the threads read of each other: `sock`, `appid`, `req`, `callId`. A
dispatch thread's steps are start (filter, application id, buffers), read,
parse, execute, write, `call_uninit`, close. Each `assert` on `sock` is a guard
with an alternative that sets `aborted`. `rpc_C_Finalize` walks the list with
the mutex locked; since nobody else can change the list then, the walk is one
step. `gck_rpc_layer_accept` and `gck_rpc_layer_uninitialize` hold the mutex
over several steps, because they block in `pthread_join`, and because a thread
runs from its creation (`AcceptCreate`) on, before it is listed (`AcceptPush`;
until then it is `made`).

### RpcCalls and Marshal

`RpcCalls` is a transcription of the three handwritten descriptions of each
call: `gck_rpc_calls` (signatures), the client's `IN_`/`OUT_` macros and the
daemon's, and the fields of the information structures on both sides. `Marshal`
interprets them: it picks a call, arguments (NULL or not, a length, a template,
a mechanism) and an answer of the module, and runs the client's macros, the
daemon's macros, the module, and back, verifying the signature part by part as
`gck_rpc_message_verify_part` does. The encoders and decoders keep exactly what
the code sends: for example `write_attribute_buffer` sends the length 0 for a
NULL pointer, which the daemon cannot tell from an empty buffer. Two stubs of
the daemon do more than forward: `rpc_C_OpenSession` answers CKR_SESSION_COUNT
for a session the module has opened when its table is full (`TableFull`), and
`rpc_C_CloseAllSessions` calls `C_GetSlotInfo` and then `C_CloseSession` for the
sessions of its table instead of the module's function (`CloseAllSessions`);
whether the table is full and what each `C_CloseSession` returns is part of the
module's answer here, the table itself is in `Sessions`. Bytes are
reduced to "how many" and "were there any". CK_ULONG has 64 bits on both
sides.

### EggBuffer and Message

A buffer is its memory, the length in use, the count of failures, and a history
flag `stray` that is set by any access outside the memory or of bytes that
nobody wrote. The base of a byte and the bytes of a word are constants, so that
`0x7fffffff`, NULL's `0xffffffff` and a uint64 of two words are within reach.
`Message` writes a message part by part into one buffer, each addition a step
in which the allocator may fail, sends it, possibly cuts it short or changes a
byte, receives it into the other buffer (in the daemon with the limit on the
length, in the client with the memory of `call_send_recv`), checks the head
with `gck_rpc_message_parse` and reads the parts back with the code of the
receiving side: `proto_read_*` of the daemon for a request, of the client for a
response, the room of the application included. Each side has its own width of
CK_ULONG. Up to `MaxMessages` messages go through the same two buffers, one
after the other.

### Transport

Each connection has a thread on either side, in a loop that transfers one item:
the application id, a length, or a body. A byte is the place it has in its
item, so that a byte too few, too many or of somebody else shows. `Send` and
`Recv` transfer any part of what is left, `Interrupted` nothing, `SendFails`
and `RecvFails` are the error branches. With TLS the daemon's functions ignore
which connection they are called for and use the `ssl` and `bio` of the one TLS
state. From inetd one `read()` or `write()` counts as all of it. What is
constant there: `WholeIo` names modes in which transfers are not cut, `Breaks`
those in which connections break, `Serial` lets a connection start when no
other is in use.

### Listener

State: the step of `main` of each daemon, the addresses and the socket file
with the daemon each belongs to, and its threads as callers of system calls.
`_get_listening_socket` tries address after address; a UNIX socket is unlinked
and bound in two steps, between which another daemon may do the same. A daemon
crashes in any step, gets SIGTERM at any time, and leaves the file, or an
address in TIME_WAIT. A filter is the set of system calls it allows, and kills
whoever calls another one. `ServeCalls` is what a thread may call while it
serves a connection: reading and writing, the log (`LogCalls`: from inetd the
first message opens the log behind the filter, and after a restart of the log
any daemon opens it again) and the allocator (`HeapCalls`: none, or a larger
heap, or a mapping). The filters do not allow all of it: with a UNIX socket they
lack `recvfrom`, in a thread `mmap` and `brk`, everywhere `socket`, `connect`,
and for the end of the daemon `rt_sigreturn` and `shutdown`. So the daemon is
killed by its own filters in many ways. There is no property that it is not;
the kills are steps of the model, a killed thread, like one whose own filter
cannot be loaded, leaves its connection open (`Left`), and the properties hold
with them. How the daemons are started (`Setups`) is a constant.

### ClientSetup

The algorithms on inputs, `parse_arguments`, `gck_rpc_parse_host_port` and the
search of the key file, are operators that work as the code does: arguments
are rewritten in place, in the string they are read from; the key file is read
in portions of the line buffer. `Try` applies one of them to an input. The
other actions are `C_Initialize` and `C_Finalize` as far as they choose the
path and the key file, `fork()`, a call that connects, and
`_connect_to_host_port` step by step, with the descriptors of the process:
other threads of the application get and close descriptors meanwhile.

## 3. Runs

### Passing

| Run | Checks | Instance |
|---|---|---|
| `callpool_faults` | `TypeOK`, `ExclusiveUse`, `CallStatusAsserts`, `DescriptorsAccounted` | 2 threads, 2 daemons, 3 calls, 3 connections, pool of 1, all faults |
| `callpool_answers` | `Quiescent`, `RightAnswer`, `OrderlyNeverAborts`, `KeepsPromise` | 2 threads, 3 calls, 2 connections, pool of 1, no allocation or connect faults |
| `sessions_one` | `OwnSessionsOnly`, `CloseAllComplete`, `GivenSessionsClosed` | 3 connections, 2 applications, 3 handles, 2 entries, one connection per application |
| `sessions_many` | `TypeOK`, `Remembered` | 2 connections, 2 applications, any assignment, module errors |
| `dispatcher_oneconn` | `NoAbort`, `NoJoinDeadlock`, `AcceptReturns`, `ThreadsEnd` | 2 connections, one per application at a time, no SIGTERM, no failing accept |
| `dispatcher_all` | `TypeOK`, `ListExact` | 3 connections, SIGTERM and every failure |
| `marshal_all` | `SignaturesHold`, `ArgumentsArrive`, `Transparent` | all 65 forwarded calls, lengths 0–2, templates of 0–2 attributes |
| `message_all` | `TypeOK`, `NoStray`, `SentWhole`, `Arrives`, `RefusedForCause`, `ReadsWhatItTakes`, `OutputsFit` | every kind of part in both directions, 2 messages after each other, failing allocations, damage anywhere but in the head of a response |
| `transport_all` | `WholeItems`, `InStep`, `CallsEnd`, `ThreadsEnd` | 2 connections with 2 calls each; sockets that break, TLS on one connection at a time, inetd with whole transfers |
| `listener_all` | `Reachable`, `RestartWorks` | 3 daemons, 2 addresses, every kind of socket with and without filters, faults, crashes and SIGTERM anywhere |
| `setup_all` | `InputsTaken`, `TlsHasKey`, `ConnectEnds` | argument strings of up to 5 characters and a blank, addresses of up to 6, key files of up to 3 lines, 2 addresses, 4 calls, refused connections while other threads open and close descriptors |

In words:

* a `CallState` is in the pool once or used by one thread, and the counter that
  limits the pool is its length (`ExclusiveUse`); the code's assertions about
  `call_status` and `socket` hold (`CallStatusAsserts`). Whatever fails, an open
  descriptor is that of a pooled `CallState` or of one in use, or of a
  connection that `call_connect` gave up, and those never carried a request
  (`DescriptorsAccounted`: no other failure loses a descriptor);
* without allocation failures a pooled connection is quiet (`Quiescent`), so a
  call that succeeds returns the answer to its own request, which was executed
  once (`RightAnswer`); the library implements `RemoteCall` (`KeepsPromise`: at
  most one execution, success only after it, every call returns); and only an
  application that breaks the rules of PKCS#11 can meet the assertion on the
  socket path (`OrderlyNeverAborts`);
* a dispatch thread's table lists every open session its client was given
  (`Remembered`). If applications use one connection each, then a thread closes
  only its own application's sessions (`OwnSessionsOnly`), C_CloseAllSessions
  leaves none of the slot (`CloseAllComplete`), and an application that is gone
  has no session open that it was told of (`GivenSessionsClosed`);
* a `DispatchState` is listed from the push in `gck_rpc_layer_accept`, when its
  thread may have run already, until it is freed, once, after its thread ended
  (`ListExact`). With one connection per application and no
  shutdown, the daemon does not abort, does not join a thread that waits for
  its mutex, comes back to `select()`, and ends threads whose client left;
* client, daemon and signature agree on every call (`SignaturesHold`), each
  parameter of the module gets the argument of that name (`ArgumentsArrive`),
  and the application gets the code and outputs of a direct call
  (`Transparent`), with three exceptions that `Promised` spells out: mechanisms
  the proxy does not pass on are missing from lists, `C_OpenSession` returns
  CKR_SESSION_COUNT when the table is full, and `C_CloseAllSessions`, which is
  emulated, returns what `C_GetSlotInfo` or the first failing `C_CloseSession`
  returned. The instance has slot ids below 1024 (`MarshalSlot.cfg`) and no
  buffers of ULONGs or attributes with a room of 0 (`MarshalTooSmall.cfg`);
* whatever bytes arrive and wherever memory runs out, no buffer is left and no
  byte used that nobody wrote (`NoStray`), nothing incomplete is sent
  (`SentWhole`), and no result exceeds the room of the application
  (`OutputsFit`). What arrives as it was sent is read as it was written
  (`Arrives`) or refused for one of four causes (`RefusedForCause`); of a
  damaged message that is believed, as much was read as its values take
  (`ReadsWhatItTakes`);
* each side reads exactly the bytes the other side of its connection wrote as
  that item (`WholeItems`), the daemon answers the call its client waits for
  (`InStep`), every call ends (`CallsEnd`), and a thread of the daemon does not
  outlive its client (`ThreadsEnd`);
* the daemon that was the last to bind is reachable (`Reachable`), unless a
  daemon that stops has unlinked the socket file, its own or its successor's,
  after which the property asks nothing until another one binds; and what a
  daemon that crashed, stopped or was killed left does not keep its successor
  from starting (`RestartWorks`);
* arguments, addresses and key files are taken as they are written
  (`InputsTaken`), a thread that starts TLS has a key file (`TlsHasKey`), and
  connecting ends (`ConnectEnds`). That connecting keeps its hands off other
  threads' descriptors is not so (`OthersKept` below).

### A disagreement between the code and what it says

`sessions_foreign` is expected to violate `OwnSessionsOnly`: a session is closed
on another connection than the one that opened it; the stale entry later closes
the session of another application that got the same handle, although the
comment at `gck-rpc-dispatch.c:1134` says other applications' sessions are left
alone.

### Further counterexamples

These configurations are kept beside the listed runs. Each one removes an
assumption of a passing run, or asks for more, and TLC finds a counterexample;
they show why the assumption is there.

| Config | Property | What happens |
|---|---|---|
| `CallPoolDesync.cfg` | `RightAnswer` | an allocation fails after the length word was read; the connection goes back to the pool with the body unread, and a later call takes old bytes for its answer |
| `CallPoolAbort.cfg` | `NoAbort` | a call that saw `pkcs11_initialized` connects after `C_Finalize` cleared the path: `assert(pkcs11_socket_path[0])` |
| `CallPoolStale.cfg` | `RightDaemon` | `C_Finalize` keeps the pool; after `C_Initialize` with another path calls go to the old daemon |
| `CallPoolLeak.cfg` | `NoSocketLeak` | TLS, or sending the application id, fails; `call_lookup` frees the `CallState` with its socket open |
| `SessionsCloseAll.cfg` | `CloseAllComplete` | sessions of the application on its other connections stay open; with `GivenSessionsClosed` instead, a stale entry makes the loop of `rpc_C_Finalize` stop early |
| `SessionsFull.cfg` | `AllSessionsClosed` | a session opened when the table is full is never closed |
| `DispatcherWait.cfg` | `NoAbort` | `C_Finalize` sets the `sock` of a thread in `C_WaitForSlotEvent` to -1; the thread's own assertions then end the daemon. With `NoJoinDeadlock` instead, the thread is joined before its `call_uninit` |
| `DispatcherShutdown.cfg` | `NoJoinDeadlock` | on SIGTERM the main thread joins, mutex locked, a thread whose `call_uninit` needs the mutex |
| `DispatcherAccept.cfg` | `AcceptReturns` | `accept()` fails and the mutex stays locked |
| `DispatcherSigterm.cfg` | `SigtermStops` | SIGTERM before `is_running = 1`, or between the test and `select()`, has no effect until the next connection |
| `DispatcherStale.cfg` | `NoStaleRead` | `rpc_C_Finalize` reads the freed request of a thread that has not been joined |
| `MarshalTooSmall.cfg` | `TooSmallReported` | an attribute buffer of length 0 gets CKR_OK although the value did not fit |
| `MarshalSlot.cfg` | `SlotKept` | slot ids from 1024 on come back reduced |
| `MarshalNull.cfg` | `RefusedWithoutEffect` | CKR_ARGUMENTS_BAD for a NULL result pointer after the call was executed |
| `MarshalEncrypt.cfg` | `EncryptTerminates` | the client refuses `C_Encrypt` for its arguments and the operation goes on in the module, which a refused call should terminate |
| `TransportTlsShared.cfg` | `WholeItems` | a second TLS connection replaces the state the thread of the first one uses |
| `TransportTlsSpin.cfg` | `CallsEnd` | a TLS write that fails returns 0, and the loop around it goes on for ever |
| `TransportInetd.cfg` | `WholeItems` | from inetd a short read counts as all of it |
| `TransportSigpipe.cfg` | `NobodyKilled` | sending without MSG_NOSIGNAL ends the process when SIGPIPE is not ignored |

Others take a listed configuration with one or two constants changed, and the
property in place of the listed ones:

| Config | Change | Property | What happens |
|---|---|---|---|
| `SessionsOne.cfg` | `ModuleErrors = TRUE` | `GivenSessionsClosed` | the module fails a `C_CloseSession`, the loop of `rpc_C_Finalize` gives up, and the session outlives its application; with `CloseAllComplete` instead, it is there when the application comes back |
| `MessageAll.cfg` | `Skewed = TRUE` | `RefusedNotBelieved` | `call_send_recv` returns CKR_OK for a response whose head `gck_rpc_message_parse` refused. With `NeverAborts` instead, reading such a response fails the assertion at `gck-rpc-module.c:718` |
| `MessageAll.cfg` | `Widths <- NarrowWrite`, `Texts <- NarrowTexts` | `UlongsTravelAs64` | a CK_ULONG attribute of 32 bits is not widened: its length is looked at before its type |
| `MessageAll.cfg` | `Widths <- NarrowRead`, `Texts <- MCNullUlong` | `NeverAborts` | an attribute of a CK_ULONG type with a length and no value is read through a NULL pointer by a side of 32 bits |
| `MessageAll.cfg` | – | `LabelsWhole` | the daemon does not look at the length of a space padded string |
| `MessageAll.cfg` | `Texts <- MCOddList` | `PurgeStaysInside` | purging a mechanism moves one element too many, from behind the list |
| `MessageAll.cfg` | `Texts <- MCBigCount` | `Arrives` | a length of 2^32 or more is sent modulo 2^32 |
| `ClientSetupAll.cfg` | `LooseEnds = TRUE` | `InputsTaken` | the last argument is not ended where it was written, and has the rest of the string behind it |
| `ClientSetupAll.cfg` | `MaxEscapes = 2` | `InputsTaken` | backslashes in quotes are doubled in place, and overwrite what is still to be read |
| `ClientSetupAll.cfg` | – | `OthersKept` | a refused connection is closed twice, and the second time the number is another thread's |
| `ClientSetupAll.cfg` | `Worlds <- NameWorlds` | `ConnectEnds` | `getnameinfo` fails, and the same address is tried again for ever |
| `ClientSetupAll.cfg` | `ArgsTwice = TRUE` | `TlsHasKey` | a second `C_Initialize` replaces the path before it is refused |

### Bounds, and why they are enough

* Two threads with a pool of one connection: one thread can take the pooled
  connection while the other makes a new one, and giving both back meets the
  limit. Three calls are needed for a connection to be used, go wrong, be
  pooled and be used again. `callpool_faults` has a third connection so that a
  connection can be destroyed while another is pooled.
* Three connections and two applications: an application can leave and come
  back, and another one gets its handles. A table of two entries can be full,
  and has a first and a last entry. Three handles: one more than the table
  holds.
* Three dispatch threads: one to be unlinked from each end of the list, and
  from the middle.
* Lengths 0 to 2 against needs 0 to 2 cover empty, too small, exact and
  larger; two attributes let one fit and the other fail.
* Bytes of base 8 and words of two bytes: the length that is too long is 31,
  within reach of a message, and the daemon's limit of 28 bytes lies among the
  lengths that occur. A new buffer has 8 bytes, so that it grows in the middle
  of a part. The second message meets what the first one left in the buffers.
* Items of 1, 2 and 3 bytes and a window of 2: a transfer is cut in every
  place. The second call on a connection meets what the first one left.
* Three daemons: one that left something, one that runs, one that starts. Two
  addresses: one may be taken and the other free.
* Strings of 5 characters, of which one may stand for a whole word, hold a
  name, a separator, a quoted value and something behind it; 6 characters hold
  a bracketed host, a colon and a port. Lines of the key file are shorter than
  the line buffer, and fill it. Three descriptors: one pooled,
  one in hand, one of another thread.

Every bound is a constant of the module (`MaxCalls`, `MaxConns`, `MaxHandle`,
`MaxLen`, `MaxAttrs`, `MaxMessages`, `MaxInterrupts`, `MaxThreads`, `MaxArgs`,
`MaxHost`, and the sets of threads, connections and daemons). Deadlock is
checked for `Marshal` only, which always starts another call; in the other
modules a bound, an abort or a finished process ends the behaviour.

### Fairness

`CallPoolRefinement!HistSpec` assumes that a thread inside a `C_*` function that can take
a step eventually does (the scheduler), and that the daemon eventually serves a
request it has received or closes the connection: the client has no timeout, so
that calls return (part of `KeepsPromise`) cannot hold without it. Nothing is assumed of the application,
which may make no further call. `Dispatcher!FairSpec` assumes that the main
thread and each dispatch thread that can run do run; `C_WaitForSlotEvent` may
wait for ever, clients may stay for ever, and no signal need come.
`Transport!Spec` assumes the same of the threads at both ends of a connection:
a transfer that is possible happens in the end; interrupts are bounded, calls
and breaks need not come. `ClientSetup!Spec` assumes that the thread that
connects runs on; a `getnameinfo` that fails for ever is excluded by the
instance, not by fairness.

## 4. Proofs

`tlapm <module>` checks every step of the eight proof modules. A theorem holds
for every value of the constants: any number of threads, connections, daemons,
handles and calls, any limits. Where it needs a condition, the condition is in
its statement, and section 3 has the counterexample without it.

| Module | Theorem | States | Under |
|---|---|---|---|
| `CallPoolProofs` | `TypeCorrect`, `PoolExclusive`, `AssertionsHold` | `TypeOK`, `ExclusiveUse`, `CallStatusAsserts` | – |
| | `AtMostOnce` | no request is executed twice | – |
| | `PoolIsQuiet`, `OwnAnswer` | `Quiescent`, `RightAnswer` | `~MemFails` (`CallPoolDesync.cfg`) |
| | `EveryDescriptorAccounted` | `DescriptorsAccounted` | – |
| | `KeepsSafety` | `CallPool` implements `RemoteCall!Safety` | `~MemFails` |
| | `OrderlyIsSafe` | `OrderlyNeverAborts` | – |
| `SessionsProofs` | `TypeCorrect`, `TableRemembers` | `TypeOK`, `Remembered` | – |
| | `ThreadsCloseTheirOwn` | `OwnSessionsOnly` | `OneConn` (`sessions_foreign`) |
| | `CloseAllCloses`, `NothingLeftBehind` | `CloseAllComplete`, `GivenSessionsClosed` | `OneConn`, `~ModuleErrors` |
| `DispatcherProofs` | `TypeCorrect`, `ListKept` | `TypeOK`, `ListExact` | – |
| | `AssertionsHold`, `JoinsEnd` | `NoAbort`, `NoJoinDeadlock` | `OneConn` (`DispatcherWait.cfg`), `~Sigterms` (`DispatcherShutdown.cfg`) |
| `MessageProofs` | `TypeCorrect`, `BuffersAreSafe`, `ResultsFit` | `TypeOK`, `NoStray`, `OutputsFit` | – |
| | `WholeMessages` | `SentWhole` | – |
| | `MessagesArrive`, `RefusalsHaveCauses` | `Arrives`, `RefusedForCause` | `TextsSuit` |
| | `NothingIsSkipped` | `ReadsWhatItTakes` | `Widths["reader"] = LongLen` |
| `MarshalProofs` | `SignaturesAgree` | `SignaturesHold` | – |
| | `ArgumentsReachTheModule` | `ArgumentsArrive` | `~ZeroBuffers` (`MarshalTooSmall.cfg`) |
| | `CallsAreTransparent` | `Transparent` | `~ZeroBuffers`, `SlotsFit` (`MarshalSlot.cfg`) |
| `TransportProofs` | `ItemsArriveWhole`, `TurnsAreKept` | `WholeItems`, `InStep` | `AsMeant` (`TransportTlsShared.cfg`, `TransportInetd.cfg`) |
| `ListenerProofs` | `RestartAlwaysWorks` | `RestartWorks` | – |
| | `NewestIsReached` | `Reachable` | – |
| `ClientSetupProofs` | `KeyIsThere` | `TlsHasKey` | `~ArgsTwice` |
| | `InputsAreTaken` | `InputsTaken` | `GoodInputs` (`LooseEnds`, `MaxEscapes = 2`) |
| | `AddressesWhole`, `ArgumentsAreTaken`, `KeysAreRight` | the parts of `InputsTaken`: `HostPortWhole`, `ArgumentsTaken`, `KeyRight` | the part of `GoodInputs` about that input |

Every proof has the same shape: an invariant that is inductive, a lemma per
part of it with one step per action, and lemmas for steps that leave a part
alone. Each inductive invariant was checked with TLC before it was proved. What
had to be added to the properties to make them inductive, and why:

**CallPool.** `IInv` is `TypeOK /\ ExclusiveUse /\ CallStatusAsserts`; none of
the three is inductive alone. That the counter stays a natural number needs
that it is the length of the list; that a popped element is a `CallState`
nobody holds needs that the list has no duplicates and shares nothing with the
threads; and a step of one thread preserves the assertions of the others only
because they hold different `CallStates`. `Numbered` follows a call number:
it belongs to one thread (`OwnNumber`), is nowhere while its thread has not
sent it (`Fresh`), and is in one place afterwards (`SentOnce`). `WireInv` says
for each location of a thread what is on its connection (`OnWire`): after
`call_send`, the request, or both parts of its answer, or nothing more to come;
after the length word, the body of the same answer; at `call_done`, nothing,
unless the call failed in a way that discards the connection. The last clause
is the one an allocation failure breaks.

**Refinement.** `KeepsSafety` shows that under this invariant each step of
`CallPool` is a step of `RemoteCall` under the mapping, or none: `Serve`
executes a call that was begun and was not executed, and a call returns CKR_OK
after it was executed. `OrderlyIsSafe` needs that a thread behind the test of
`pkcs11_initialized` is either in an initialized library or the one that
initializes it, so that the path is set (`Ready`).

**Sessions.** `Remembered` is inductive with `TypeOK`: an entry is cleared only
if the module closed that session or no longer knows it. `OwnInv` adds what one
connection at a time gives: two connections of an application are not alive
together (`Apart`), and the table of a live thread lists sessions that it
opened itself and that are open, each once (`Listed`, `Once`); a handle the
module gives out again is therefore in no live table. `TidyInv` adds that no
session a client was given outlives its thread (`Held`). With `OneConn` and a
module that fails a `C_CloseSession` for reasons of its own, the loop of
`rpc_C_Finalize` gives up and a session stays, so `~ModuleErrors` is needed.

**Dispatcher.** `ListExact` needs that the walk of
`gck_rpc_layer_uninitialize` is always at the head of the list (`AtHead`), and
that the thread that was created and is not listed yet (`made`) is not freed
before it is (`MadeOk`).
`SockInv` explains why the assertions on `sock` hold: a thread's socket is open
until the thread ends (`SockOpen`), since `rpc_C_Finalize` shuts down only
connections of the same application (`AppKnown`), whose threads have ended
(`Apart`), and nobody else does while the daemon serves (`Serving`).

**Message.** `BufOK` of both buffers: the contents are inside the memory, and
every byte of them was written. Each operation of `EggBuffer` keeps it, for any
arguments that come out of a message and any allocation failure. Around it:
what is still to be written is well formed (`WriterOK`), nothing has been read
before a message is there and never more than is there (`ReaderOK`), and what
has been read of a part has the type that the next step relies on (`PartOK`):
a length that was read as a NULL array is not used as a length. Damage may be
anywhere, in the head of a response too.

`WriteOK` adds what the writer's buffer contains: the items done and the items
to do are together the items of the message up to the current part, and unless
a failure was counted the buffer holds the bytes of those done (`Written`).
`Faithful` continues this on the other side, for a message that was not
damaged: what is left in the buffer from `parsed` on are the bytes of the items
that have not been read (`Progress`, within the head, the elements and the
values of a part), and what has been read are the values that were written.
Each reading function is shown to invert its writing function, down to the
digits of a word (`decode` of `encode`). `Measured` holds for damaged messages
too: as many bytes are behind `parsed` as a message with the values read so far
has.

`TextsSuit` restricts the messages to those the code can be asked to send: the
values are ones the C types of both sides hold, a message is shorter than a
uint32 can say, an error is not CKR_OK, strings are padded, and a list of
mechanisms has known ones. TLC evaluates it on the messages of `message_all`
(`MCSuited`). `NothingIsSkipped` is for a reader with a 64-bit CK_ULONG,
because one with 32 bits shortens attributes that are unsigned longs and no
longer has the bytes it read.

**Marshal.** `Agreement` compares, for each of the 65 calls, the signature,
the client's stub and the daemon's: they have the same parameters in the same
order, and what they return is of one of six shapes (`NoOut`, `BytesOut`,
`UlongsOut`, `AttrsOut`, `InfoOut`, `NumsOut`). Everything after it is proved
for the shapes. `SigInv` says how much of the signature is left before each
macro. `ArgInv` says that the request holds what the client encoded and the
daemon has not yet decoded (`Sent`, `Got`); decoding what was encoded gives the
argument (`ArgumentArrives`), so the module gives the daemon the answer it would
have given the application (`SameReply`). `OutInv` carries that answer back:
what the daemon's macros wrote so far (`Writing`), all of it (`Finished`), what
the client's macros made of it so far (`Reading`), and at the end the result that
is `Promised` (`Same`); `NoCall`, `OneCall` and `TwoCall` prove the last for
calls with no, one and two outputs.

Both hypotheses of `CallsAreTransparent` are divergences of the code. A buffer
with a pointer and no room is sent as a length of 0, which the daemon takes
for a NULL pointer. A slot id from 1024 on that `C_WaitForSlotEvent` or
`C_GetSessionInfo` returns is reduced by `CK_GNOME_APPARTMENT_SLOT`; `SlotsFit`
asks that `Ulongs`, the values of a run, are below 1024 if these two calls are
among its `Calls`, and nothing otherwise. That a NULL pointer for a number is
found only after the call was made is left out by `Transparent` itself
(`MarshalNull.cfg`). The three exceptions are not hypotheses but part of what is
`Promised`: a purged list, CKR_SESSION_COUNT, and the codes of the emulated
`C_CloseAllSessions`.

**Transport.** `Conn` describes a connection at every moment of a transfer.
The bytes a reader has and the bytes in the pipe are, in order, the bytes of
the turn the other side is in, from the item being read on (`Carries`), and
the writer has written exactly up to there (`HasSent`); at most one direction is
in use. A transfer cut anywhere moves bytes from one to the other of these.
`TlsInv`: the TLS state the threads of the daemon share is that of the one
connection in use.

**Listener.** An address belongs to a daemon that has a listening socket
(`Bound`); a daemon that is starting and has not been excused has met nobody
(`Unhindered`), so it finds each address free or in TIME_WAIT. The newest
daemon keeps its place until it ends or a daemon that stops unlinks the socket
file (`NewestBound`). `Route` says which steps of
`main` a kind of socket leads to.

**ClientSetup.** `KeyInv` says that a `tls://` path is only ever stored together with a
key file; later `C_Initialize` calls keep it because without further arguments
they parse an empty string, which changes neither (`NoArguments`).

`InputsAreTaken` is about the algorithms. An address is the host, the colon
and the port, whatever is left out of it, because the separator that is found is
the first one (`FirstPlace`, `Parted`). For the arguments the loop of
`parse_arguments` is followed character by character. `Room`: no more was
written than read, and in quotes one less, until the one backslash, which is
written twice there, uses up the room. `Fits`: the quote the loop is in, the
word it has at hand and what it has set are those that the first n characters
say (`QuoteAt`, `Words`, `ValueBy`). For the key file, the first line that
`_tls_psk_server_cb` takes is the first one for the identity, since a line that
is not read ends the search (`TakenMeant`), and what `Trim` leaves is the key
or one character, which is none (`TrimIs`). `GoodInputs` says what characters
are (an argument has no empty one, a line no end of line in it, "(null)" is
none) and leaves out the two divergences of section 3: a last argument that is
not ended where it was written, and a second backslash.

Assumed are the named assumptions of the modules, all of them evaluated by TLC
in the runs: limits are at least 1, special values differ from ordinary ones.
Two say more. `EggBufferPowers` states the recursion of powers for the few
exponents in use, which the provers do not know; that `WordLen` bytes are the
digits of a word and come back as the same word is proved from it.
`MessageTexts`: the table of calls and the messages to be sent are well formed
(no call has the id of an error, a message has exactly one value for each part
of its signature), which the code has from its types.

The provers cannot use the library's induction theorems, whose parameter is an
operator. Where a proof needs induction over the length of a message or a string, or
over the number of parameters, it is done for a set: `LeastNat` (`MinIs` in
`ClientSetupProofs`) takes a least element from `WFMin` and
`NatLessThanWellFounded`, and `Induction` applies it to the set of numbers for
which a statement does not hold. That a recursive function satisfies its
equation is proved the same way (`LoopExists`, `QuotesExist`, `WordsExist`).

**Only model-checked**, because it is out of the prover's reach, is
liveness, that is `AcceptReturns`, the two `ThreadsEnd`, `CallsEnd`,
`ConnectEnds`, and that calls return, the part of `KeepsPromise` that
`KeepsSafety` lacks.

## 5. Not modelled

* The functions of EggBuffer that nobody calls (16 bits, strings, vectors of
  strings), and the choice of the allocator.
* OpenSSL: a handshake succeeds or fails, and what is written comes out at the
  other end of the same connection. Renegotiation and a daemon and client with
  different keys are a failed handshake.
* The PKCS#11 module behind the daemon, beyond what the daemon relies on: it
  hands out handles, closes sessions, answers and fails. Its own system calls
  are not compared with the filters, nor are arguments of system calls, and the
  reporter for debugging the filters is left out.
* In `Message`, values that a call does not pass on, and the compositions of
  whole calls: those are in `Marshal`. In `CallPool` and `Dispatcher` a
  transfer is one step: its parts are in `Transport`.
* Times: the code has no timeouts, and an address in TIME_WAIT stays there
  (binding it is possible because of SO_REUSEADDR).
* Logging, but for its system calls in `Listener`, the build and the debugging
  script.

## 6. Plan

Done: the call pool, the sessions, the threads and the marshalling (what can
mix up two calls, then what can touch another application, then what can stop
the daemon, then what each call means); the promise of the client library and
its refinement, the buffers and the bytes of messages, the transfer loops with
TLS and inetd, the life of daemons with their filters, and the client's way to
a connection; and the proofs of section 4, which cover every safety property
of the runs.

What could follow, in order:

1. a composition of `CallPool` with `Sessions`, in which the connections of the
   sessions are the ones the pool hands out;
2. a refinement of `Marshal` by `Message`, in which the values of a call are
   the bytes that are written and read.
