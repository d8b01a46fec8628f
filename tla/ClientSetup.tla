----------------------------- MODULE ClientSetup -----------------------------
(***************************************************************************)
(* How the client module finds the daemon: the argument string of          *)
(* C_Initialize (parse_arguments), the choice of socket path and key file  *)
(* between arguments and environment, gck_rpc_parse_host_port, the connect *)
(* loop with the descriptors it shares with the rest of the application,   *)
(* and the pre-shared key that the TLS callbacks read from the key file.   *)
(*                                                                         *)
(* Characters are one-letter strings, and a letter may stand for a word:   *)
(* "s" for socket, "k" for tls_psk_file, "T" for a tls:// address and "C"  *)
(* for a tcp:// address.  What a call sends is in CallPool; here a call    *)
(* only connects.                                                          *)
(***************************************************************************)
EXTENDS Integers, Sequences, FiniteSets, SequencesExt, FiniteSetsExt

CONSTANTS
  Alphabet,     \* characters of argument strings
  MaxArgs,      \* length of argument strings that are tried on their own
  InitArgs,     \* argument strings of C_Initialize in longer behaviours
  MaxEscapes,   \* backslashes in an argument string
  LooseEnds,    \* need no blank be behind the last argument, once blanks or
                \* quotes were left out?
  HostChars,    \* characters of host and port
  MaxHost,      \* length of host and port
  NAddrs,       \* addresses getaddrinfo finds
  Worlds,       \* [shared, faults]: do other threads use descriptors, what fails
                \* ("name": getnameinfo fails once, "names": for ever)
  NFds,         \* descriptors of the process
  KeyFiles,     \* [lines, eol]: lines, and whether the last one is ended
  Identities,   \* identities a peer may name
  LineBuf,      \* sizeof (line) - 1: 1023
  MaxPsk,       \* max_psk_len
  ArgsTwice,    \* does a library that is initialized get arguments again?
  MaxCalls      \* C_Initialize, C_Finalize and calls that connect, in a behaviour

Empty == <<>>
Null  == <<"(null)">>       \* what "%s" makes of a NULL value; a NULL port

ASSUME ClientSetupAssumption ==
  /\ {MaxArgs, MaxEscapes, MaxHost, LineBuf, MaxPsk, MaxCalls} \subseteq Nat
  /\ {NAddrs, NFds} \subseteq Nat \ {0} /\ {ArgsTwice, LooseEnds} \subseteq BOOLEAN
  /\ \A w \in Worlds : /\ w.shared \in BOOLEAN
                       /\ w.faults \subseteq {"resolve", "name", "names", "socket", "options", "refused"}

VARIABLES
  world,   \* the world of this behaviour
  env,     \* [socket, key]: the environment variables
  path,    \* pkcs11_socket_path
  key,     \* tls_psk_key_filename
  init,    \* pkcs11_initialized, in a process with pkcs11_initialized_pid
  forked,  \* is the process a child of the one that called C_Initialize?
  pc,      \* the step of the call
  call,    \* "init" in C_Initialize, "call" in another one, "none"
  ai,      \* the address _connect_to_host_port is at
  sock,    \* its descriptor
  fds,     \* fds[f]: who opened descriptor f: "free", "us", "pool", "left", "other"
  theirs,  \* descriptors that other threads have open
  probe,   \* an input that was tried on its own, and what came out
  missed,  \* did getnameinfo fail (an odd number of times)?
  calls    \* calls so far

vars == <<world, env, path, key, init, forked, pc, call, ai, sock, fds, theirs, probe, missed, calls>>

NoProbe == [of |-> "none"]
NoEnv   == [socket |-> Empty, key |-> Empty]

-----------------------------------------------------------------------------
(* Arguments.                                                              *)

Blank   == " "
NoQuote == ""
Quotes  == {"'", "\""}

\* The quote each character of a string without backslashes stands in.
QuoteAt(s) ==
  LET In[i \in 1 .. Len(s) + 1] ==
        IF i = 1 THEN NoQuote
        ELSE CASE In[i - 1] = NoQuote /\ s[i - 1] \in Quotes -> s[i - 1]
               [] In[i - 1] = s[i - 1] -> NoQuote
               [] OTHER -> In[i - 1]
  IN In

\* The strings that are tried.  Of those without backslashes, a blank ends
\* the last argument, or nothing is left out before it.
Tidy(s) ==
  \/ s # <<>> /\ Last(s) = Blank /\ QuoteAt(s)[Len(s)] = NoQuote
  \/ Range(s) \cap (Quotes \cup {Blank}) = {}
Strings ==
  LET all == SeqOf(Alphabet, MaxArgs)
  IN {s \in all \cup {Append(t, Blank) : t \in all} :
        /\ Cardinality({i \in DOMAIN s : s[i] = "\\"}) <= MaxEscapes
        /\ LooseEnds \/ "\\" \in Range(s) \/ Tidy(s)}

\* parse_argument: the name ends at the first separator.
Cut(w) == SelectInSeq(w, LAMBDA c : c \in {":", "="})
Name(w) == IF Cut(w) = 0 THEN w ELSE SubSeq(w, 1, Cut(w) - 1)
Value(w) == IF Cut(w) = 0 THEN Null ELSE SubSeq(w, Cut(w) + 1, Len(w))
parse_argument(w, c) ==
  IF Name(w) = <<"s">> THEN [c EXCEPT !.path = Value(w)]
  ELSE IF Name(w) = <<"k">> THEN [c EXCEPT !.key = Value(w)]
  ELSE c

\* The loop of parse_arguments: src characters are read, at are written, of
\* which word belongs to the argument that is being put together.
Write(st, cs, n) == [st EXCEPT !.word = @ \o cs, !.at = @ + Len(cs), !.src = @ + n]
Escape(s, st) ==
  IF st.src + 2 > Len(s) THEN [st EXCEPT !.bad = TRUE]
  ELSE LET d == s[st.src + 2] IN
       Write(st, IF st.quote # NoQuote /\ d # st.quote THEN <<"\\", "\\", d>> ELSE <<"\\", d>>, 2)

\* mutant: any quote ends what another began
ScanAnyQuote(s, st) ==
  LET c == s[st.src + 1] IN
  CASE st.quote # NoQuote /\ c \in Quotes -> [st EXCEPT !.quote = NoQuote, !.src = @ + 1]
    [] c = "\\" -> Escape(s, st)
    [] st.quote = NoQuote /\ c = Blank -> [st EXCEPT !.conf = parse_argument(st.word, @), !.word = <<>>, !.src = @ + 1]
    [] st.quote = NoQuote /\ c \in Quotes -> [st EXCEPT !.quote = c, !.src = @ + 1]
    [] OTHER -> Write(st, <<c>>, 1)

Scan(s, st) ==
  LET c == s[st.src + 1] IN
  CASE c = st.quote -> [st EXCEPT !.quote = NoQuote, !.src = @ + 1]
    [] c = "\\" -> Escape(s, st)
    [] st.quote = NoQuote /\ c = Blank -> [st EXCEPT !.conf = parse_argument(st.word, @), !.word = <<>>, !.src = @ + 1]
    [] st.quote = NoQuote /\ c \in Quotes -> [st EXCEPT !.quote = c, !.src = @ + 1]
    [] OTHER -> Write(st, <<c>>, 1)

\* The string is changed in place: once more was written than read, what is
\* read is not what was given, and nothing is said of the rest.  A blank ends
\* an argument with a 0; the end of the string does not, and the last
\* argument goes on with what was not overwritten.
parse_arguments(s, c) ==
  LET first == [src |-> 0, at |-> 0, word |-> <<>>, quote |-> NoQuote, bad |-> FALSE, conf |-> c]
      Stop(st) == st.bad \/ st.src >= Len(s) \/ st.at > st.src
      P[n \in 0 .. Len(s)] == IF n = 0 THEN first
                              ELSE LET st == P[n - 1] IN IF Stop(st) THEN st ELSE Scan(s, st)
      last == P[Len(s)]
      rest == SubSeq(s, last.at + 1, Len(s))
  IN [conf |-> IF last.bad \/ last.word = <<>> THEN last.conf
               ELSE parse_argument(last.word \o rest, last.conf),
      inplace |-> last.at <= last.src]

-----------------------------------------------------------------------------
(* Host and port.                                                          *)

\* mutant: what follows "]" is taken to be a colon
HostPortSkips(s) ==
  LET v6   == s # <<>> /\ s[1] = "["
      rest == IF v6 THEN Tail(s) ELSE s
      p    == SelectInSeq(rest, LAMBDA c : c = IF v6 THEN "]" ELSE ":")
  IN IF p = 0 THEN [host |-> rest, port |-> Null]
     ELSE [host |-> SubSeq(rest, 1, p - 1), port |-> SubSeq(rest, p + (IF v6 THEN 2 ELSE 1), Len(rest))]

gck_rpc_parse_host_port(s) ==
  LET v6    == s # <<>> /\ s[1] = "["
      rest  == IF v6 THEN Tail(s) ELSE s
      p     == SelectInSeq(rest, LAMBDA c : c = IF v6 THEN "]" ELSE ":")
      after == SubSeq(rest, p + 1, Len(rest))
  IN IF p = 0 THEN [host |-> rest, port |-> Null]
     ELSE [host |-> SubSeq(rest, 1, p - 1),
           port |-> IF v6 /\ after # <<>> /\ after[1] = ":" THEN Tail(after) ELSE after]

-----------------------------------------------------------------------------
(* The key file.                                                           *)

HexVal == [c \in {"0", "a", "F"} |-> CASE c = "0" -> 0 [] c = "a" -> 10 [] c = "F" -> 15]

\* mutant: a key that is too long is cut off
DecodeCuts(hex) ==
  IF Len(hex) % 2 # 0 \/ \E i \in DOMAIN hex : i <= 2 * MaxPsk /\ hex[i] \notin DOMAIN HexVal
  THEN <<>>
  ELSE [i \in 1 .. Min({MaxPsk, Len(hex) \div 2}) |-> 16 * HexVal[hex[2 * i - 1]] + HexVal[hex[2 * i]]]

\* _tls_psk_decode_key: <<>> stands for a length of 0.
_tls_psk_decode_key(hex) ==
  IF Len(hex) % 2 # 0 \/ Len(hex) > 2 * MaxPsk \/ \E i \in DOMAIN hex : hex[i] \notin DOMAIN HexVal
  THEN <<>>
  ELSE [i \in 1 .. Len(hex) \div 2 |-> 16 * HexVal[hex[2 * i - 1]] + HexVal[hex[2 * i]]]

\* What _fgets returns for a line: the line with its end, or nothing when
\* the buffer was full or the file at its end.
Bytes(file, n) ==
  file.lines[n] \o (IF n < Len(file.lines) \/ file.eol THEN <<"\n">> ELSE <<>>)
_fgets(file, n) == IF Len(Bytes(file, n)) < LineBuf THEN Bytes(file, n) ELSE <<>>

\* Ends of line go, but never the first character.
Trim(hex) ==
  LET keep == {i \in DOMAIN hex : i = 1 \/ hex[i] \notin {"\n", "\r"}}
  IN SubSeq(hex, 1, Max(keep \cup {0}))

\* _tls_psk_server_cb, also called by _tls_psk_client_cb with no identity.
_tls_psk_server_cb(file, id) ==
  LET Colon(n) == SelectInSeq(_fgets(file, n), LAMBDA c : c = ":")
      Ends     == {n \in DOMAIN file.lines : _fgets(file, n) = <<>>}
      Takes(n) == Colon(n) # 0 /\ (id = <<>> \/ SubSeq(file.lines[n], 1, Colon(n) - 1) = id)
      Hits     == {n \in DOMAIN file.lines : Takes(n) /\ \A m \in Ends : n < m}
      n0       == Min(Hits)
      line     == _fgets(file, n0)
  IN IF Hits = {} THEN <<>>
     ELSE _tls_psk_decode_key(Trim(SubSeq(line, Colon(n0) + 1, Len(line))))

-----------------------------------------------------------------------------
(* C_Initialize up to its call, and the other calls.                       *)

kindOf(p) ==
  IF p = <<>> THEN "none"
  ELSE CASE p[1] = "T" -> "tls" [] p[1] = "C" -> "tcp" [] OTHER -> "unix"

Init ==
  /\ world \in Worlds
  /\ env \in [socket : {Empty, <<"T">>, <<"C">>, <<"s">>}, key : {Empty, <<"k">>}]
  /\ path = Empty /\ key = Empty /\ init = FALSE /\ forked = FALSE
  /\ pc = "idle" /\ call = "none" /\ ai = 1 /\ sock = 0
  /\ fds = [f \in 1 .. NFds |-> "free"] /\ theirs = {}
  /\ probe = NoProbe /\ missed = FALSE /\ calls = 0

\* The end of a call: C_Initialize marks the library, and forgets the path,
\* but not the key file, when it failed.
Return(ok) ==
  /\ pc' = "idle" /\ call' = "none"
  /\ init' = IF call = "init" THEN ok ELSE init
  /\ forked' = IF call = "init" THEN FALSE ELSE forked
  /\ path' = IF call = "init" /\ ~ok THEN Empty ELSE path

\* Mutex functions or flags that are refused, before anything else is
\* looked at: even a library that is initialized no longer is.
InitializeBadArgs ==
  /\ pc = "idle" /\ calls < MaxCalls
  /\ init' = FALSE /\ forked' = FALSE /\ path' = Empty
  /\ calls' = calls + 1
  /\ UNCHANGED <<world, env, probe, missed, key, pc, call, ai, sock, fds, theirs>>

\* mutant: a tls:// path is accepted without a key file
NeedsKeyNever(p, k) == FALSE

\* Is the key file of a tls:// path missing?
NeedsKey(p, k) == kindOf(p) = "tls" /\ k = Empty

\* The arguments come first, then the test for a second C_Initialize, then
\* the environment for what the arguments left open.
C_Initialize ==
  /\ pc = "idle" /\ calls < MaxCalls /\ calls' = calls + 1
  /\ \E s \in InitArgs :
       LET parsed == parse_arguments(s, [path |-> path, key |-> key])
           p == IF parsed.conf.path = Empty THEN env.socket ELSE parsed.conf.path
           k == IF parsed.conf.key = Empty /\ kindOf(p) = "tls" THEN env.key ELSE parsed.conf.key
       IN /\ init /\ ~forked => ArgsTwice \/ s = <<>>
          /\ IF init /\ ~forked
             THEN /\ path' = IF parsed.conf.path = Empty THEN Empty ELSE <<parsed.conf.path[1]>>
                  /\ key' = IF parsed.conf.key = Empty THEN Empty ELSE <<"k">>
                  /\ UNCHANGED <<init, forked, pc, call, ai>>
             ELSE /\ key' = IF k = Empty THEN Empty ELSE <<"k">>
                  /\ IF p = Empty \/ NeedsKey(p, k)
                     THEN path' = Empty /\ init' = FALSE /\ forked' = FALSE /\ UNCHANGED <<pc, call, ai>>
                     ELSE /\ path' = <<p[1]>>
                          /\ call' = "init" /\ ai' = 1
                          /\ pc' = IF kindOf(p) = "unix" THEN "socket" ELSE "resolve"
                          /\ UNCHANGED <<init, forked>>
  /\ UNCHANGED <<world, env, probe, missed, sock, fds, theirs>>

\* A call of a thread that has no connection to take from the pool.
CallConnects ==
  /\ pc = "idle" /\ init /\ calls < MaxCalls /\ calls' = calls + 1
  /\ call' = "call" /\ ai' = 1
  /\ pc' = IF kindOf(path) = "unix" THEN "socket" ELSE "resolve"
  /\ UNCHANGED <<world, env, probe, missed, path, key, init, forked, sock, fds, theirs>>

\* The connections of the pool stay open.
C_Finalize ==
  /\ pc = "idle" /\ init /\ calls < MaxCalls /\ calls' = calls + 1
  /\ init' = FALSE /\ forked' = FALSE /\ path' = Empty
  /\ UNCHANGED <<world, env, probe, missed, key, pc, call, ai, sock, fds, theirs>>

\* The application forks; the behaviour goes on with the child.
Fork ==
  /\ pc = "idle" /\ init /\ ~forked /\ forked' = TRUE
  /\ UNCHANGED <<world, env, probe, missed, path, key, init, pc, call, ai, sock, fds, theirs, calls>>

-----------------------------------------------------------------------------
(* call_connect.                                                           *)

Fault(f) == f \in world.faults
FreeFds == {f \in 1 .. NFds : fds[f] = "free"}
Tcp == kindOf(path) # "unix"

\* mutant: the loop stays at its address
NextAddrStays ==
  /\ UNCHANGED ai
  /\ IF ai = NAddrs \/ ~Tcp THEN Return(FALSE)
     ELSE pc' = "socket" /\ UNCHANGED <<init, forked, path, call>>

\* The next address, or the end of the loop.
NextAddr ==
  /\ ai' = ai + 1
  /\ IF ai = NAddrs \/ ~Tcp THEN Return(FALSE)
     ELSE pc' = "socket" /\ UNCHANGED <<init, forked, path, call>>

Resolve ==
  /\ pc = "resolve"
  /\ \/ Fault("resolve") /\ Return(FALSE)
     \/ pc' = "socket" /\ UNCHANGED <<init, forked, path, call>>
  /\ UNCHANGED <<world, env, probe, missed, key, ai, sock, fds, theirs, calls>>

\* getnameinfo fails: "continue", with the same address.
NameFails ==
  /\ pc = "socket" /\ Tcp /\ (Fault("names") \/ (Fault("name") /\ ~missed))
  /\ missed' = ~missed /\ sock' = 0
  /\ UNCHANGED <<world, env, probe, path, key, init, forked, pc, call, ai, fds, theirs, calls>>

Socket ==
  /\ pc = "socket"
  /\ \/ /\ Fault("socket") \/ FreeFds = {}
        /\ NextAddr /\ sock' = 0 /\ UNCHANGED fds
     \/ /\ FreeFds # {}
        /\ sock' = Min(FreeFds) /\ fds' = [fds EXCEPT ![Min(FreeFds)] = "us"]
        /\ pc' = "connect" /\ UNCHANGED <<init, forked, path, call, ai>>
  /\ UNCHANGED <<world, env, probe, missed, key, theirs, calls>>

\* setsockopt, fcntl and connect.  A connect that fails closes the
\* descriptor, and for TCP the code at "next" closes it again.  They fail,
\* too, when a thread whose descriptor was closed at "next" has since closed
\* the number that is ours now.
Connect ==
  /\ pc = "connect"
  /\ \/ /\ Fault("options") \/ fds[sock] # "us"
        /\ pc' = "next" /\ UNCHANGED <<init, forked, path, call, fds>>
     \/ /\ Fault("refused") \/ fds[sock] = "other"
        /\ pc' = "refused" /\ UNCHANGED <<init, forked, path, call, fds>>
     \/ /\ fds[sock] = "us"
        /\ IF kindOf(path) = "tls"
           THEN pc' = "tls" /\ UNCHANGED <<init, forked, path, call, fds>>
           ELSE fds' = [fds EXCEPT ![sock] = "pool"] /\ Return(TRUE)
  /\ UNCHANGED <<world, env, probe, missed, key, ai, sock, theirs, calls>>

Closed(f) == fds' = [fds EXCEPT ![f] = "free"]

Refused ==
  /\ pc = "refused" /\ Tcp /\ Closed(sock) /\ pc' = "next"
  /\ UNCHANGED <<world, env, probe, missed, path, key, init, forked, call, ai, sock, theirs, calls>>

CloseNext ==
  /\ pc = "next" \/ (pc = "refused" /\ ~Tcp)
  /\ Closed(sock) /\ sock' = 0 /\ NextAddr
  /\ UNCHANGED <<world, env, probe, missed, key, theirs, calls>>

\* gck_rpc_init_tls_psk and gck_rpc_start_tls: the callbacks look up a key
\* that the daemon has too, or not.  A handshake that fails leaves the descriptor open.
StartTls ==
  /\ pc = "tls"
  /\ \/ fds[sock] = "us" /\ fds' = [fds EXCEPT ![sock] = "pool"] /\ Return(TRUE)
     \/ fds' = [fds EXCEPT ![sock] = IF @ = "us" THEN "left" ELSE @] /\ Return(FALSE)
  /\ UNCHANGED <<world, env, probe, missed, key, ai, sock, theirs, calls>>

\* Another thread of the application opens and closes files.
OtherOpens ==
  /\ world.shared /\ FreeFds # {} /\ theirs = {}
  /\ fds' = [fds EXCEPT ![Min(FreeFds)] = "other"] /\ theirs' = {Min(FreeFds)}
  /\ UNCHANGED <<world, env, probe, missed, path, key, init, forked, pc, call, ai, sock, calls>>

OtherCloses ==
  /\ \E f \in theirs : Closed(f) /\ theirs' = theirs \ {f}
  /\ UNCHANGED <<world, env, probe, missed, path, key, init, forked, pc, call, ai, sock, calls>>

\* Inputs that are tried on their own, in a process that did nothing yet.
Try ==
  /\ pc = "idle" /\ calls = 0 /\ env = NoEnv /\ ~world.shared
  /\ pc' = "tried"
  /\ \/ \E s \in Strings, c \in {Empty, <<"C">>} :
          probe' = [of |-> "args", in |-> s, was |-> [path |-> c, key |-> c],
                    out |-> parse_arguments(s, [path |-> c, key |-> c])]
     \/ \E s \in SeqOf(HostChars, MaxHost) :
          probe' = [of |-> "host", in |-> s, out |-> gck_rpc_parse_host_port(s)]
     \/ \E file \in KeyFiles, id \in Identities :
          probe' = [of |-> "psk", file |-> file, id |-> id, out |-> _tls_psk_server_cb(file, id)]
  /\ UNCHANGED <<world, env, missed, path, key, init, forked, call, ai, sock, fds, theirs, calls>>

Ours == Resolve \/ NameFails \/ Socket \/ Connect \/ Refused \/ CloseNext \/ StartTls

Next ==
  \/ InitializeBadArgs \/ C_Initialize \/ CallConnects \/ C_Finalize \/ Fork
  \/ Resolve \/ NameFails \/ Socket \/ Connect \/ Refused \/ CloseNext \/ StartTls
  \/ OtherOpens \/ OtherCloses \/ Try

\* A thread in call_connect goes on: no step of it waits for another thread.
Spec == Init /\ [][Next]_vars /\ WF_vars(Ours)

-----------------------------------------------------------------------------
(* What the inputs say, to compare with what the code takes from them.     *)

\* The words of an argument string without backslashes: what is between the
\* blanks outside of quotes, but for the quotes.  A word is known by the blank,
\* or the end of the string, behind it.
Blanks(s) == {i \in 1 .. Len(s) : s[i] = Blank /\ QuoteAt(s)[i] = NoQuote}
Words(s) ==
  LET In == QuoteAt(s)
      Since[i \in 0 .. Len(s)] == IF i = 0 \/ i \in Blanks(s) THEN <<>>
                                  ELSE IF In[i] = In[i + 1] THEN Append(Since[i - 1], s[i])
                                  ELSE Since[i - 1]
  IN [b \in Blanks(s) \cup {Len(s) + 1} |-> Since[b - 1]]

\* The value the last word with the given name gives, or what was set before.
LastValue(words, name, was) ==
  LET hits == {n \in DOMAIN words : Name(words[n]) = <<name>>}
  IN IF hits = {} THEN was ELSE Value(words[Max(hits)])

\* The argument string of C_Initialize is rewritten in place without
\* running over what is still to be read, and its socket and tls_psk_file
\* arguments, quoted or not, the last of each name, are what is used.
ArgumentsTaken ==
  probe.of = "args" =>
    /\ probe.out.inplace
    /\ "\\" \notin Range(probe.in) =>
         LET words == Words(probe.in)
         IN /\ probe.out.conf.path = LastValue(words, "s", probe.was.path)
            /\ probe.out.conf.key = LastValue(words, "k", probe.was.key)

\* Host and port put together again are the address that was parsed: no
\* character is lost but the brackets and the colon, with and without
\* brackets, with and without a port.
HostPortWhole ==
  probe.of = "host" =>
    LET in   == probe.in
        host == probe.out.host
        port == probe.out.port
        tail == IF port = Null THEN {<<>>} ELSE {<<":">> \o port}
    IN IF in # <<>> /\ in[1] = "["
       THEN in \in {<<"[">> \o host} \cup {<<"[">> \o host \o <<"]">> \o t : t \in tail \cup {port}}
       ELSE in \in {host \o t : t \in tail} /\ ":" \notin Range(host)

\* A key the callbacks find is the whole key of the first line for the
\* identity, and they find it when the line is well formed and it and the
\* lines before it fit the buffer.
KeyRight ==
  probe.of = "psk" =>
    LET lines == probe.file.lines
        Colon(n) == SelectInSeq(lines[n], LAMBDA c : c = ":")
        hits  == {n \in DOMAIN lines : Colon(n) # 0 /\ probe.id \in {<<>>, SubSeq(lines[n], 1, Colon(n) - 1)}}
        n0    == Min(hits)
        text  == SubSeq(lines[n0], Colon(n0) + 1, Len(lines[n0]))
        hex   == SubSeq(text, 1, Max({i \in DOMAIN text : text[i] # "\r"} \cup {0}))
        short == \A n \in 1 .. n0 : Len(lines[n]) + 1 < LineBuf
        good  == Range(hex) \subseteq DOMAIN HexVal /\ Len(hex) % 2 = 0 /\ Len(hex) <= 2 * MaxPsk
    IN /\ probe.out # <<>> =>
            /\ hits # {} /\ good /\ Len(hex) = 2 * Len(probe.out)
            /\ \A i \in DOMAIN probe.out :
                 probe.out[i] = 16 * HexVal[hex[2 * i - 1]] + HexVal[hex[2 * i]]
       /\ hits # {} /\ short /\ good /\ hex # <<>> => probe.out # <<>>

-----------------------------------------------------------------------------
(* Properties.                                                             *)

\* What the client module takes from the argument string of C_Initialize,
\* from the address and from the key file is what they say.
InputsTaken == ArgumentsTaken /\ HostPortWhole /\ KeyRight

\* call_connect closes no descriptor of another thread of the application.
\* The second close of a connection that was refused does.
OthersKept == \A f \in theirs : fds[f] = "other"

\* A thread that connects to a tls:// address has a key file, however often
\* the library was initialized, finalized and forked before.
TlsHasKey == pc \notin {"idle", "tried"} /\ kindOf(path) = "tls" => key # Empty

\* A call that connects to the daemon ends, whatever addresses fail.
ConnectEnds == pc \notin {"idle", "tried"} ~> pc = "idle"
=============================================================================
