------------------------------ MODULE Transport ------------------------------
(***************************************************************************)
(* How the bytes of messages get from one process to the other: the loops  *)
(* call_write and call_read of the client, read_all and write_all of the   *)
(* daemon, over a plain socket ("tcp", UNIX sockets too), over TLS with    *)
(* the state all threads of the daemon share (gck-rpc-tls-psk.c), and from *)
(* inetd, where the daemon uses read and write as they are.                *)
(*                                                                         *)
(* A connection carries the client's application id, then requests and     *)
(* responses, each a head (the length) and a body.  A byte is the place it *)
(* has in the item it belongs to.  A send or recv transfers any part of    *)
(* what it was asked for, is interrupted, or fails because the other side  *)
(* closed or the connection broke.                                         *)
(***************************************************************************)
EXTENDS Integers, Sequences, FiniteSets

CONSTANTS
  Conns,          \* connections, each with a thread of the client and one of the daemon
  Modes,          \* a subset of {"tcp", "tls", "inetd"}
  AppidLen,       \* sizeof (cs->appid): 8
  HeadLen,        \* bytes of a length: 4
  Lens,           \* lengths of bodies
  Window,         \* bytes the network holds in one direction
  MaxCalls,       \* calls on a connection
  MaxInterrupts,  \* EINTR and EAGAIN in a behaviour
  Breaks,         \* modes in which connections may break
  WholeIo,        \* modes in which a call transfers all it is asked for
  Serial,         \* does a connection start only when no other is in use?
  SigpipeKills    \* is SIGPIPE neither ignored nor handled?

None == "none"

ASSUME TransportAssumption ==
  /\ Modes \subseteq {"tcp", "tls", "inetd"} /\ Breaks \cup WholeIo \subseteq Modes
  /\ Lens \subseteq Nat \ {0} /\ {AppidLen, HeadLen, Window} \subseteq Nat \ {0}
  /\ MaxCalls \in Nat /\ MaxInterrupts \in Nat /\ {Serial, SigpipeKills} \subseteq BOOLEAN
  /\ None \notin Conns

Ends == {"client", "daemon"}
Other(e) == IF e = "client" THEN "daemon" ELSE "client"

VARIABLES
  mode,     \* how the daemon was started
  ep,       \* ep[c][e]: what side e of connection c is at
  pipe,     \* pipe[c][e]: the bytes that e sent and that did not arrive yet
  broken,   \* connections that are broken
  ssl,      \* state->ssl of the daemon: the connection it was made for
  bio,      \* state->bio of the daemon
  sslbio,   \* the bio that was set for the SSL of a connection
  signals   \* interrupts so far

vars == <<mode, ep, pipe, broken, ssl, bio, sslbio, signals>>
tls  == <<ssl, bio, sslbio>>

-----------------------------------------------------------------------------
(* Items and the order in which they are transferred.                      *)

Length(kind, len) ==
  CASE kind = "appid" -> AppidLen
    [] kind = "head" -> HeadLen
    [] kind = "body" -> len

\* The bytes side e sends as item of the given kind for its n-th message,
\* which has a body of len bytes.
Item(c, e, n, kind, len) ==
  [i \in 1 .. Length(kind, len) |->
     [conn |-> c, from |-> e, msg |-> n, kind |-> kind, len |-> len, at |-> i]]

\* step is "w" or "r" and a kind while an item is transferred: len the
\* length of the body, left what is left of the loop's len, have what was
\* read of the item.
At(step, n, len, left) ==
  [step |-> step, msg |-> n, len |-> len, left |-> left, have |-> <<>>]
Writes == [wappid |-> "appid", whead |-> "head", wbody |-> "body"]
Reads  == [rappid |-> "appid", rhead |-> "head", rbody |-> "body"]
Writing(x) == x.step \in DOMAIN Writes
Reading(x) == x.step \in DOMAIN Reads
Running(x) == Writing(x) \/ Reading(x)
Ended      == {"end", "killed"}

Begin(x, step, n, len) ==
  At(step, n, len, Length(IF step \in DOMAIN Writes THEN Writes[step] ELSE Reads[step], len))

\* mutant: the daemon answers before it has read the body
FollowEarly(c, e, x, len) ==
  CASE x.step = "wappid" -> At("idle", 0, 0, 0)
    [] x.step = "rappid" -> Begin(x, "rhead", 1, 0)
    [] x.step = "whead" -> Begin(x, "wbody", x.msg, x.len)
    [] x.step = "rhead" -> Begin(x, IF e = "client" THEN "rbody" ELSE "whead", x.msg, len)
    [] x.step = "wbody" -> Begin(x, "rhead", IF e = "client" THEN x.msg ELSE x.msg + 1, 0)
    [] x.step = "rbody" -> At("idle", x.msg, 0, 0)

\* What follows an item that was transferred.  A head that was read tells
\* the length of the body; a daemon that has a request answers it.
Follow(c, e, x, len) ==
  CASE x.step = "wappid" -> At("idle", 0, 0, 0)
    [] x.step = "rappid" -> Begin(x, "rhead", 1, 0)
    [] x.step = "whead" -> Begin(x, "wbody", x.msg, x.len)
    [] x.step = "rhead" -> Begin(x, "rbody", x.msg, len)
    [] x.step = "wbody" -> Begin(x, "rhead", IF e = "client" THEN x.msg ELSE x.msg + 1, 0)
    [] x.step = "rbody" -> IF e = "client" THEN At("idle", x.msg, 0, 0)
                           ELSE Begin(x, "whead", x.msg, len)

\* Lengths a side may get from the head it read, or choose for its answer.
LenChoices(x) ==
  IF x.step = "rhead" /\ x.have # <<>> /\ x.have[1].kind = "head" THEN {x.have[1].len} ELSE Lens

Init ==
  /\ mode \in Modes
  /\ ep = [c \in Conns |-> [e \in Ends |-> At("new", 0, 0, 0)]]
  /\ pipe = [c \in Conns |-> [e \in Ends |-> <<>>]]
  /\ broken = {} /\ ssl = None /\ bio = None
  /\ sslbio = [c \in Conns |-> None] /\ signals = 0

SetEp(c, e, x) == ep' = [ep EXCEPT ![c][e] = x]

-----------------------------------------------------------------------------
(* Starting a connection.                                                  *)

\* connect and accept; the thread of the daemon starts.
Connect(c) ==
  /\ ep[c]["client"].step = "new"
  /\ Serial => \A d \in Conns, e \in Ends : ep[d][e].step \in {"new"} \cup Ended
  /\ mode = "inetd" => \A d \in Conns : ep[d]["daemon"].step = "new"
  /\ ep' = [ep EXCEPT ![c]["client"] = IF mode = "tls" THEN At("connect", 0, 0, 0)
                                       ELSE Begin(@, "wappid", 0, 0),
                      ![c]["daemon"] = IF mode = "tls" THEN At("SSL_new", 0, 0, 0)
                                       ELSE Begin(@, "rappid", 0, 0)]
  /\ UNCHANGED <<mode, pipe, broken, tls, signals>>

\* gck_rpc_start_tls on the daemon: SSL_new, BIO_new_socket, SSL_set_bio on
\* the state that all threads share, and then the handshake.
StartTls(c) ==
  LET x == ep[c]["daemon"]
  IN  /\ \/ /\ x.step = "SSL_new" /\ ssl' = c
            /\ SetEp(c, "daemon", [x EXCEPT !.step = "BIO_new"])
            /\ UNCHANGED <<bio, sslbio>>
         \/ /\ x.step = "BIO_new" /\ bio' = c
            /\ SetEp(c, "daemon", [x EXCEPT !.step = "SSL_set_bio"])
            /\ UNCHANGED <<ssl, sslbio>>
         \/ /\ x.step = "SSL_set_bio" /\ sslbio' = [sslbio EXCEPT ![ssl] = bio]
            /\ SetEp(c, "daemon", [x EXCEPT !.step = "SSL_accept"])
            /\ UNCHANGED <<ssl, bio>>
      /\ UNCHANGED <<mode, pipe, broken, signals>>

\* The socket side e of connection c reads from and writes to.
Chan(c, e) == IF mode = "tls" /\ e = "daemon" THEN sslbio[ssl] ELSE c

\* The handshake, with the client at the other end of the socket, succeeds.
Handshake(c) ==
  /\ ep[c]["daemon"].step = "SSL_accept"
  /\ LET d == Chan(c, "daemon")
     IN  /\ d # None /\ ep[d]["client"].step = "connect"
         /\ ep' = [ep EXCEPT ![c]["daemon"] = Begin(@, "rappid", 0, 0),
                             ![d]["client"] = Begin(@, "wappid", 0, 0)]
  /\ UNCHANGED <<mode, pipe, broken, tls, signals>>

\* It fails, for want of a common key or of a socket; then the client's, too.
HandshakeFails(c) ==
  /\ ep[c]["daemon"].step = "SSL_accept"
  /\ SetEp(c, "daemon", At("end", 0, 0, 0))
  /\ UNCHANGED <<mode, pipe, broken, tls, signals>>

ConnectFails(c) ==
  /\ ep[c]["client"].step = "connect" /\ ep[c]["daemon"].step \in Ended
  /\ SetEp(c, "client", At("end", 0, 0, 0))
  /\ UNCHANGED <<mode, pipe, broken, tls, signals>>

-----------------------------------------------------------------------------
(* The loops.  r bytes are sent or received by one call.                   *)

\* (An SSL without a bio, None, is a connection that is broken.)
Broken(c)    == c = None \/ c \in broken
Closed(c, e) == c # None /\ ep[c][e].step \in Ended
Gone(c, e)   == Broken(c) \/ Closed(c, e)

\* What the network takes.  SSL_write and a whole write block until it took all.
Room(c, e) == Window - Len(pipe[c][e])
Portions(c, e, left) ==
  IF mode = "tls" \/ mode \in WholeIo THEN {left} ELSE {r \in 1 .. left : r <= Room(c, e)}

\* The loop ends when nothing is left of the item; in inetd mode the daemon
\* is content with what the first call transferred.
LoopEnds(e, left) == left = 0 \/ (mode = "inetd" /\ e = "daemon")

Sent(c, e, x, r) ==
  LET item == Item(c, e, x.msg, Writes[x.step], x.len)
      done == Len(item) - x.left
  IN  SubSeq(item, done + 1, done + r)

Send(c, e) ==
  LET x == ep[c][e]
      d == Chan(c, e)
  IN  /\ Writing(x) /\ ~Gone(d, Other(e))
      /\ \E r \in Portions(d, e, x.left) :
           /\ pipe' = [pipe EXCEPT ![d][e] = @ \o Sent(c, e, x, r)]
           /\ SetEp(c, e, IF LoopEnds(e, x.left - r) THEN Follow(c, e, x, x.len)
                          ELSE [x EXCEPT !.left = @ - r])
      /\ UNCHANGED <<mode, broken, tls, signals>>

\* mutant: a short read is taken for the whole
ReadOnce(e, left) == TRUE
ReadEnds(e, left) == LoopEnds(e, left)

Recv(c, e) ==
  LET x == ep[c][e]
      d == Chan(c, e)
      q == pipe[d][Other(e)]
  IN  /\ Reading(x) /\ ~Broken(d)
      /\ \E r \in 1 .. x.left :
           /\ r <= Len(q) /\ (mode \in WholeIo => r = x.left)
           /\ pipe' = [pipe EXCEPT ![d][Other(e)] = SubSeq(q, r + 1, Len(q))]
           /\ LET y == [x EXCEPT !.left = @ - r, !.have = @ \o SubSeq(q, 1, r)]
              IN  SetEp(c, e, IF ReadEnds(e, y.left) THEN [y EXCEPT !.left = 0] ELSE y)
      /\ UNCHANGED <<mode, broken, tls, signals>>

\* An item that was read leads to the next one.
Received(c, e) ==
  LET x == ep[c][e]
  IN  /\ Reading(x) /\ x.left = 0
      /\ \E len \in LenChoices(x) : SetEp(c, e, Follow(c, e, x, len))
      /\ UNCHANGED <<mode, pipe, broken, tls, signals>>

\* EINTR or EAGAIN: the loop tries again.
Interrupted(c, e) ==
  /\ Running(ep[c][e]) /\ mode = "tcp" /\ signals < MaxInterrupts
  /\ signals' = signals + 1
  /\ UNCHANGED <<mode, ep, pipe, broken, tls>>

\* The loop gives up: CKR_DEVICE_ERROR on the client, the end of the thread
\* on the daemon.  Either way this side closes its socket.
GiveUp(c, e) == SetEp(c, e, At("end", 0, 0, 0))
Killed(e) ==
  ep' = [c \in Conns |-> [ep[c] EXCEPT ![e] = IF @.step = "new" THEN @ ELSE At("killed", 0, 0, 0)]]

\* In inetd mode the daemon takes an error (-1) for success.
Careless(e) == mode = "inetd" /\ e = "daemon"

\* EPIPE or another error.  Without MSG_NOSIGNAL, as in the client and under
\* OpenSSL, EPIPE comes with SIGPIPE.  gck_rpc_tls_write_all returns 0 for an
\* error, and the loop goes round for ever: no step.
SendFails(c, e) ==
  LET x == ep[c][e]
      d == Chan(c, e)
  IN  /\ Writing(x) /\ Gone(d, Other(e))
      /\ IF SigpipeKills /\ (mode = "tls" \/ e = "client") /\ Closed(d, Other(e)) THEN Killed(e)
         ELSE /\ mode # "tls"
              /\ IF Careless(e) THEN SetEp(c, e, Follow(c, e, x, x.len)) ELSE GiveUp(c, e)
      /\ UNCHANGED <<mode, pipe, broken, tls, signals>>

\* mutant: end of file is no reason to stop
EofIgnored(c, e) ==
  LET x == ep[c][e]
  IN  /\ Reading(x) /\ x.left > 0 /\ Broken(Chan(c, e))
      /\ GiveUp(c, e)
      /\ UNCHANGED <<mode, pipe, broken, tls, signals>>

\* mutant: an error is no reason to stop
ErrorIgnored(c, e) ==
  LET x == ep[c][e]
      d == Chan(c, e)
  IN  /\ Reading(x) /\ x.left > 0 /\ ~Broken(d) /\ Closed(d, Other(e)) /\ pipe[d][Other(e)] = <<>>
      /\ GiveUp(c, e)
      /\ UNCHANGED <<mode, pipe, broken, tls, signals>>

\* End of file, or an error; TLS reports both as end of file.
RecvFails(c, e) ==
  LET x == ep[c][e]
      d == Chan(c, e)
  IN  /\ Reading(x) /\ x.left > 0 /\ Gone(d, Other(e))
      /\ ~Broken(d) => pipe[d][Other(e)] = <<>>
      /\ IF Careless(e) /\ Broken(d) THEN SetEp(c, e, [x EXCEPT !.left = 0])
         ELSE GiveUp(c, e)
      /\ UNCHANGED <<mode, pipe, broken, tls, signals>>

-----------------------------------------------------------------------------
(* The application and the environment.                                    *)

\* call_send_recv starts with the head of the request.
Call(c, len) ==
  LET x == ep[c]["client"]
  IN  /\ x.step = "idle" /\ x.msg < MaxCalls
      /\ SetEp(c, "client", Begin(x, "whead", x.msg + 1, len))
      /\ UNCHANGED <<mode, pipe, broken, tls, signals>>

\* The application exits.
Quit(c) ==
  /\ ep[c]["client"].step = "idle"
  /\ GiveUp(c, "client")
  /\ UNCHANGED <<mode, pipe, broken, tls, signals>>

Break(c) ==
  /\ mode \in Breaks /\ c \notin broken
  /\ Running(ep[c]["client"]) \/ Running(ep[c]["daemon"])
  /\ broken' = broken \cup {c}
  /\ UNCHANGED <<mode, ep, pipe, tls, signals>>

Loop(c, e) ==
  Send(c, e) \/ Recv(c, e) \/ Received(c, e) \/ SendFails(c, e) \/ RecvFails(c, e)
Starting(c) == StartTls(c) \/ Handshake(c) \/ HandshakeFails(c) \/ ConnectFails(c)

Next ==
  \E c \in Conns :
    \/ Connect(c) \/ Starting(c) \/ Quit(c) \/ Break(c)
    \/ \E e \in Ends : Loop(c, e) \/ Interrupted(c, e)
    \/ \E len \in Lens : Call(c, len)

\* Both processes are scheduled, and what was sent arrives or the connection
\* breaks.
Spec ==
  /\ Init /\ [][Next]_vars
  /\ \A c \in Conns :
       /\ WF_vars(Starting(c))
       /\ \A e \in Ends : WF_vars(Loop(c, e))

-----------------------------------------------------------------------------
(* Properties.                                                             *)

\* A side that has read an item has read the bytes that the other side of
\* its own connection wrote as that item, all of them and in their order,
\* however the loops of both sides were cut up.
WholeItems ==
  \A c \in Conns, e \in Ends :
    LET x == ep[c][e]
    IN  Reading(x) /\ x.left = 0 =>
          /\ x.have # <<>>
          /\ x.have = Item(c, Other(e), x.msg, Reads[x.step], x.have[1].len)
          /\ x.step = "rbody" => x.len = x.have[1].len

\* The daemon answers the call its client is waiting for and no other, and
\* bytes travel in one direction at a time.
InStep ==
  \A c \in Conns :
    LET x == ep[c]["client"]
        y == ep[c]["daemon"]
    IN  /\ pipe[c]["client"] = <<>> \/ pipe[c]["daemon"] = <<>>
        /\ Running(x) /\ Writing(y) => Reading(x) /\ x.msg = y.msg

\* Every call comes to an end: it is answered, or it fails.
CallsEnd ==
  \A c \in Conns :
    Running(ep[c]["client"]) ~> ep[c]["client"].step \in {"idle"} \cup Ended

\* A thread of the daemon does not outlive its client.
ThreadsEnd ==
  \A c \in Conns :
    ep[c]["client"].step \in Ended ~> ep[c]["daemon"].step \in {"new"} \cup Ended

\* A connection that is lost is an error of the call, not the end of the
\* process: call_write and write_all have a branch for EPIPE.
NobodyKilled == \A c \in Conns, e \in Ends : ep[c][e].step # "killed"

=============================================================================
