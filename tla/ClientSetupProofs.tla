-------------------------- MODULE ClientSetupProofs --------------------------
(***************************************************************************)
(* Proofs about ClientSetup, for any argument strings, environments, key   *)
(* files, numbers of addresses, descriptors and calls: a thread that       *)
(* connects to a tls:// address has a key file, and what is taken from the *)
(* arguments, the address and the key file is what they say.               *)
(***************************************************************************)
EXTENDS ClientSetup, WellFoundedInduction, FiniteSetTheorems, TLAPS

\* A set of numbers that is not empty has a least element.
LEMMA MinIs ==
  ASSUME NEW T, T \subseteq Nat, T # {}
  PROVE  Min(T) \in T /\ \A y \in T : Min(T) <= y
<1>1. PICK x \in T : \A y \in T : ~ (<<y, x>> \in OpToRel(<, Nat))
  BY NatLessThanWellFounded, WFMin
<1>2. ASSUME NEW y \in T, y < x PROVE FALSE
  <2>1. <<y, x>> \in Nat \X Nat /\ <<y, x>>[1] < <<y, x>>[2]
    BY <1>2
  <2> QED
    BY <1>1, <2>1 DEF OpToRel
<1>3. \E z \in T : \A y \in T : z =< y
  BY <1>2
<1> QED
  BY <1>3 DEF Min

-----------------------------------------------------------------------------
(* The path and the key file.                                              *)

KeyInv == kindOf(path) = "tls" => key # Empty

\* An empty argument string changes nothing.
LEMMA NoArguments ==
  ASSUME NEW c
  PROVE  parse_arguments(<<>>, c).conf = c
<1> DEFINE e == <<>>
           first == [src |-> 0, at |-> 0, word |-> <<>>, quote |-> NoQuote, bad |-> FALSE, conf |-> c]
           Stop(st) == st.bad \/ st.src >= Len(e) \/ st.at > st.src
           Loop(f) == [n \in 0 .. Len(e) |->
                         IF n = 0 THEN first
                         ELSE IF Stop(f[n - 1]) THEN f[n - 1] ELSE Scan(e, f[n - 1])]
           P == CHOOSE f : f = Loop(f)
           last == P[Len(e)]
<1>1. parse_arguments(e, c)
        = [conf |-> IF last.bad \/ last.word = <<>> THEN last.conf
                    ELSE parse_argument(last.word \o SubSeq(e, last.at + 1, Len(e)), last.conf),
           inplace |-> last.at <= last.src]
  BY Zenon DEF parse_arguments
<1>2. parse_arguments(e, c).conf
        = IF last.bad \/ last.word = <<>> THEN last.conf
          ELSE parse_argument(last.word \o SubSeq(e, last.at + 1, Len(e)), last.conf)
  <2> HIDE DEF last, e
  <2> QED
    BY <1>1
<1>3. Len(e) = 0
  OBVIOUS
<1>4. \E f : f = Loop(f)
  <2> DEFINE w == [n \in 0 .. Len(e) |-> first]
  <2> HIDE DEF e, first, Stop
  <2>1. \A n \in 0 .. Len(e) : n = 0
    BY <1>3
  <2>2. w = Loop(w)
    BY <2>1
  <2> HIDE DEF Loop, w
  <2> QED
    BY <2>2
<1> HIDE DEF e, first, Stop
<1>5. P = Loop(P)
  <2> HIDE DEF Loop
  <2> QED
    BY <1>4
<1> HIDE DEF P
<1>6. P[0] = first
  <2>1. 0 \in 0 .. Len(e)
    BY <1>3
  <2>2. P[0] = Loop(P)[0]
    BY <1>5
  <2>3. Loop(P)[0] = first
    BY <2>1
  <2> QED
    BY <2>2, <2>3
<1>7. last = first
  BY <1>3, <1>6
<1> HIDE DEF last
<1>8. last.word = <<>> /\ last.conf = c
  BY <1>7 DEF first
<1> QED
  BY <1>2, <1>8 DEF e

LEMMA KindKept ==
  ASSUME NEW p, p # Empty
  PROVE  kindOf(<<p[1]>>) = kindOf(p) /\ kindOf(Empty) # "tls"
  BY DEF kindOf, Empty

LEMMA KeyStep ==
  ASSUME ~ArgsTwice, KeyInv, [Next]_vars
  PROVE  KeyInv'
<1>1. CASE C_Initialize
  <2>1. PICK s \in InitArgs :
          LET parsed == parse_arguments(s, [path |-> path, key |-> key])
              p == IF parsed.conf.path = Empty THEN env.socket ELSE parsed.conf.path
              k == IF parsed.conf.key = Empty /\ kindOf(p) = "tls" THEN env.key
                   ELSE parsed.conf.key
          IN  /\ init /\ ~forked => ArgsTwice \/ s = <<>>
              /\ IF init /\ ~forked
                 THEN /\ path' = IF parsed.conf.path = Empty THEN Empty
                                 ELSE <<parsed.conf.path[1]>>
                      /\ key' = IF parsed.conf.key = Empty THEN Empty ELSE <<"k">>
                 ELSE /\ key' = IF k = Empty THEN Empty ELSE <<"k">>
                      /\ IF p = Empty \/ NeedsKey(p, k) THEN path' = Empty
                         ELSE path' = <<p[1]>>
    BY <1>1, Zenon DEF C_Initialize
  <2> DEFINE conf == parse_arguments(s, [path |-> path, key |-> key]).conf
             p == IF conf.path = Empty THEN env.socket ELSE conf.path
             k == IF conf.key = Empty /\ kindOf(p) = "tls" THEN env.key ELSE conf.key
  <2>2. CASE init /\ ~forked
    <3>1. s = <<>>
      BY <2>1, <2>2
    <3>2. conf = [path |-> path, key |-> key]
      BY <3>1, NoArguments
    <3>3. /\ path' = IF conf.path = Empty THEN Empty ELSE <<conf.path[1]>>
          /\ key' = IF conf.key = Empty THEN Empty ELSE <<"k">>
      BY <2>1, <2>2
    <3> HIDE DEF conf
    <3>4. /\ path' = IF path = Empty THEN Empty ELSE <<path[1]>>
          /\ key' = IF key = Empty THEN Empty ELSE <<"k">>
      BY <3>2, <3>3
    <3> QED
      BY <3>4, KindKept DEF KeyInv, Empty
  <2>3. CASE ~(init /\ ~forked)
    <3>1. /\ key' = IF k = Empty THEN Empty ELSE <<"k">>
          /\ IF p = Empty \/ NeedsKey(p, k) THEN path' = Empty ELSE path' = <<p[1]>>
      BY <2>1, <2>3
    <3> HIDE DEF k, p
    <3> QED
      BY <3>1, KindKept DEF KeyInv, NeedsKey, Empty
  <2> QED
    BY <2>2, <2>3
<1>2. CASE InitializeBadArgs \/ C_Finalize
  BY <1>2 DEF InitializeBadArgs, C_Finalize, KeyInv, kindOf, Empty
<1>3. CASE path' \in {path, Empty} /\ key' = key
  BY <1>3 DEF KeyInv, kindOf, Empty
<1>4. CASE CallConnects \/ Fork \/ Try \/ OtherOpens \/ OtherCloses \/ UNCHANGED vars
  BY <1>3, <1>4 DEF CallConnects, Fork, Try, OtherOpens, OtherCloses, vars
<1>5. CASE Ours
  BY <1>3, <1>5 DEF Ours, Resolve, NameFails, Socket, Connect, Refused, CloseNext, StartTls,
     NextAddr, Return
<1> QED
  BY <1>1, <1>2, <1>4, <1>5 DEF Next, Ours

-----------------------------------------------------------------------------
(* Results about connecting.                                               *)

\* As long as a library that is initialized gets no further arguments, a
\* thread that connects to a tls:// address has a key file, whatever
\* arguments and environment it had and however often the library was
\* initialized, finalized and forked.
THEOREM KeyIsThere == ~ArgsTwice /\ Spec => []TlsHasKey
<1> SUFFICES ASSUME ~ArgsTwice PROVE Spec => []TlsHasKey
  OBVIOUS
<1>1. Init => KeyInv
  BY DEF Init, KeyInv, kindOf, Empty
<1>2. KeyInv /\ [Next]_vars => KeyInv'
  BY KeyStep
<1>3. KeyInv => TlsHasKey
  BY DEF KeyInv, TlsHasKey
<1> QED
  BY <1>1, <1>2, <1>3, PTL DEF Spec

-----------------------------------------------------------------------------
(* Sequences.                                                              *)

\* Sequences are equal when their elements are.
LEMMA SameSeq ==
  ASSUME NEW E, NEW s \in Seq(E), NEW t \in Seq(E), Len(s) = Len(t),
         \A i \in 1 .. Len(s) : s[i] = t[i]
  PROVE  s = t
  OBVIOUS

\* A sequence that has the elements of a and then those of b is a \o b.
LEMMA ConcatIs ==
  ASSUME NEW E, NEW a \in Seq(E), NEW b \in Seq(E), NEW c \in Seq(E),
         Len(c) = Len(a) + Len(b),
         \A i \in 1 .. Len(c) : c[i] = IF i <= Len(a) THEN a[i] ELSE b[i - Len(a)]
  PROVE  c = a \o b
<1>1. PICK d : d = a \o b
  OBVIOUS
<1>2. /\ d \in Seq(E) /\ Len(d) = Len(a) + Len(b)
      /\ \A i \in 1 .. Len(d) : d[i] = IF i <= Len(a) THEN a[i] ELSE b[i - Len(a)]
  BY <1>1
<1>3. \A i \in 1 .. Len(c) : c[i] = d[i]
  BY <1>2
<1>4. c = d
  BY <1>2, <1>3, SameSeq
<1> QED
  BY <1>1, <1>4

\* A sequence is what is before, at and after one of its elements.
LEMMA Parted ==
  ASSUME NEW E, NEW s \in Seq(E), NEW p \in 1 .. Len(s)
  PROVE  /\ SubSeq(s, 1, p - 1) \in Seq(E) /\ SubSeq(s, p + 1, Len(s)) \in Seq(E)
         /\ Len(SubSeq(s, 1, p - 1)) = p - 1
         /\ Len(SubSeq(s, p + 1, Len(s))) = Len(s) - p
         /\ \A i \in 1 .. p - 1 : SubSeq(s, 1, p - 1)[i] = s[i]
         /\ \A i \in 1 .. Len(s) - p : SubSeq(s, p + 1, Len(s))[i] = s[i + p]
         /\ s = (SubSeq(s, 1, p - 1) \o <<s[p]>>) \o SubSeq(s, p + 1, Len(s))
<1>0. PICK a, b : a = SubSeq(s, 1, p - 1) /\ b = SubSeq(s, p + 1, Len(s))
  OBVIOUS
<1>1. a \in Seq(E) /\ Len(a) = p - 1 /\ \A i \in 1 .. p - 1 : a[i] = s[i]
  BY <1>0
<1>2. b \in Seq(E) /\ Len(b) = Len(s) - p /\ \A i \in 1 .. Len(s) - p : b[i] = s[i + p]
  BY <1>0
<1>3. PICK c : c = a \o <<s[p]>>
  OBVIOUS
<1>4. c \in Seq(E) /\ Len(c) = p /\ \A i \in 1 .. p : c[i] = s[i]
  BY <1>1, <1>3
<1>5. Len(s) = Len(c) + Len(b)
  BY <1>2, <1>4
<1>6. \A i \in 1 .. Len(s) : s[i] = IF i <= Len(c) THEN c[i] ELSE b[i - Len(c)]
  BY <1>2, <1>4
<1>7. s = c \o b
  BY <1>2, <1>4, <1>5, <1>6, ConcatIs
<1> QED
  BY <1>0, <1>1, <1>2, <1>3, <1>7

\* A sequence is its first element and the rest.
LEMMA HeadAndTail ==
  ASSUME NEW E, NEW s \in Seq(E), s # <<>>
  PROVE  Tail(s) \in Seq(E) /\ s = <<s[1]>> \o Tail(s) /\ Len(s) >= 1
<1>0. PICK t : t = Tail(s)
  OBVIOUS
<1>1. Len(s) \in Nat /\ Len(s) >= 1
  OBVIOUS
<1>2. t \in Seq(E) /\ Len(t) = Len(s) - 1 /\ \A i \in 1 .. Len(s) - 1 : t[i] = s[i + 1]
  BY <1>0, <1>1
<1>3. PICK h : h = <<s[1]>>
  OBVIOUS
<1>4. h \in Seq(E) /\ Len(h) = 1 /\ h[1] = s[1]
  BY <1>1, <1>3
<1>5. \A i \in 1 .. Len(s) : s[i] = IF i <= Len(h) THEN h[i] ELSE t[i - Len(h)]
  BY <1>1, <1>2, <1>4
<1>6. Len(s) = Len(h) + Len(t)
  BY <1>1, <1>2, <1>4
<1>7. s = h \o t
  BY <1>2, <1>4, <1>5, <1>6, ConcatIs
<1> QED
  BY <1>0, <1>1, <1>2, <1>3, <1>7

\* Concatenation is associative.
LEMMA Regrouped ==
  ASSUME NEW E, NEW a \in Seq(E), NEW b \in Seq(E), NEW c \in Seq(E)
  PROVE  a \o (b \o c) = (a \o b) \o c
<1>1. PICK x, y, z : x = b \o c /\ y = a \o b /\ z = y \o c
  OBVIOUS
<1>2. /\ x \in Seq(E) /\ Len(x) = Len(b) + Len(c)
      /\ \A i \in 1 .. Len(x) : x[i] = IF i <= Len(b) THEN b[i] ELSE c[i - Len(b)]
  BY <1>1
<1>3. /\ y \in Seq(E) /\ Len(y) = Len(a) + Len(b)
      /\ \A i \in 1 .. Len(y) : y[i] = IF i <= Len(a) THEN a[i] ELSE b[i - Len(a)]
  BY <1>1
<1>4. /\ z \in Seq(E) /\ Len(z) = Len(y) + Len(c)
      /\ \A i \in 1 .. Len(z) : z[i] = IF i <= Len(y) THEN y[i] ELSE c[i - Len(y)]
  BY <1>1, <1>3
<1>5. Len(z) = Len(a) + Len(x) /\ Len(a) \in Nat /\ Len(b) \in Nat /\ Len(c) \in Nat
  BY <1>2, <1>3, <1>4
<1>6. ASSUME NEW i \in 1 .. Len(z) PROVE z[i] = IF i <= Len(a) THEN a[i] ELSE x[i - Len(a)]
  <2>1. CASE i <= Len(a)
    BY <1>3, <1>4, <1>5, <2>1
  <2>2. CASE i > Len(a) /\ i <= Len(a) + Len(b)
    <3>1. i \in 1 .. Len(y) /\ i - Len(a) \in 1 .. Len(x) /\ i - Len(a) <= Len(b)
      BY <1>2, <1>3, <1>5, <2>2
    <3>2. z[i] = y[i] /\ y[i] = b[i - Len(a)]
      BY <1>3, <1>4, <1>5, <2>2, <3>1
    <3>3. x[i - Len(a)] = b[i - Len(a)]
      BY <1>2, <3>1
    <3> QED
      BY <1>5, <2>2, <3>2, <3>3
  <2>3. CASE i > Len(a) + Len(b)
    <3>1. /\ i \in 1 .. Len(z) /\ ~(i <= Len(y)) /\ ~(i <= Len(a))
          /\ i - Len(a) \in 1 .. Len(x) /\ ~(i - Len(a) <= Len(b))
          /\ (i - Len(a)) - Len(b) = i - Len(y)
      BY <1>2, <1>3, <1>4, <1>5, <2>3
    <3>2. z[i] = c[i - Len(y)]
      BY <1>4, <3>1
    <3>3. x[i - Len(a)] = c[(i - Len(a)) - Len(b)]
      BY <1>2, <3>1
    <3> QED
      BY <3>1, <3>2, <3>3
  <2> QED
    BY <1>5, <2>1, <2>2, <2>3
<1>7. z = a \o x
  BY <1>2, <1>4, <1>5, <1>6, ConcatIs
<1> QED
  BY <1>1, <1>7

\* The first place of a character, and none before it.
Find(s, c) == LET I == {i \in 1 .. Len(s) : s[i] = c} IN IF I # {} THEN Min(I) ELSE 0

LEMMA FirstPlace ==
  ASSUME NEW s, Len(s) \in Nat, NEW c, NEW p, p = Find(s, c)
  PROVE  /\ p \in 0 .. Len(s)
         /\ p = 0 => \A i \in 1 .. Len(s) : s[i] # c
         /\ p # 0 => s[p] = c /\ \A i \in 1 .. p - 1 : s[i] # c
<1>0. PICK I : I = {i \in 1 .. Len(s) : s[i] = c}
  OBVIOUS
<1>1. p = IF I # {} THEN Min(I) ELSE 0
  BY <1>0 DEF Find
<1>2. CASE I = {}
  BY <1>0, <1>1, <1>2
<1>3. CASE I # {}
  <2>1. p \in I /\ \A y \in I : p <= y
    <3>1. I \subseteq Nat
      BY <1>0
    <3> QED
      BY <1>1, <1>3, <3>1, MinIs
  <2>2. p \in 1 .. Len(s) /\ s[p] = c
    BY <1>0, <2>1
  <2>3. ASSUME NEW i \in 1 .. p - 1 PROVE s[i] # c
    <3>1. i \in 1 .. Len(s) /\ ~(p <= i)
      BY <2>2
    <3> QED
      BY <1>0, <2>1, <3>1
  <2> QED
    BY <2>2, <2>3
<1> QED
  BY <1>2, <1>3

-----------------------------------------------------------------------------
(* Host and port.                                                          *)

\* What gck_rpc_parse_host_port returns without brackets ...
LEMMA Unbracketed ==
  ASSUME NEW s, ~(s # <<>> /\ s[1] = "["), NEW p, p = Find(s, ":")
  PROVE  /\ p = 0 => gck_rpc_parse_host_port(s) = [host |-> s, port |-> Null]
         /\ p # 0 => gck_rpc_parse_host_port(s) =
                       [host |-> SubSeq(s, 1, p - 1), port |-> SubSeq(s, p + 1, Len(s))]
  BY DEF gck_rpc_parse_host_port, Find, SelectInSeq

\* ... and with them.
Behind(t) == IF t # <<>> /\ t[1] = ":" THEN Tail(t) ELSE t

LEMMA Bracketed ==
  ASSUME NEW s, s # <<>>, s[1] = "[", NEW u, u = Tail(s), NEW p, p = Find(u, "]")
  PROVE  /\ p = 0 => gck_rpc_parse_host_port(s) = [host |-> u, port |-> Null]
         /\ p # 0 => gck_rpc_parse_host_port(s) =
                       [host |-> SubSeq(u, 1, p - 1), port |-> Behind(SubSeq(u, p + 1, Len(u)))]
  BY DEF gck_rpc_parse_host_port, Find, SelectInSeq, Behind

\* Host and port make the address in again.
Whole(in, host, port) ==
  LET tail == IF port = Null THEN {<<>>} ELSE {<<":">> \o port}
  IN  IF in # <<>> /\ in[1] = "["
      THEN in \in {<<"[">> \o host} \cup {<<"[">> \o host \o <<"]">> \o t : t \in tail \cup {port}}
      ELSE in \in {host \o t : t \in tail} /\ ":" \notin Range(host)

\* No port is taken for a missing one.
LEMMA PortThere ==
  ASSUME "(null)" \notin HostChars, NEW w \in Seq(HostChars)
  PROVE  w # Null
<1>1. SUFFICES ASSUME w = <<"(null)">> PROVE FALSE
  BY DEF Null
<1>2. Len(w) = 1 /\ w[1] = "(null)" /\ w[1] \in HostChars
  BY <1>1
<1> QED
  BY <1>2

\* An address without brackets is put together again from host and port ...
LEMMA PlainWhole ==
  ASSUME "(null)" \notin HostChars, NEW s \in Seq(HostChars), ~(s # <<>> /\ s[1] = "["),
         NEW r, r = gck_rpc_parse_host_port(s)
  PROVE  Whole(s, r.host, r.port)
<1>1. PICK p : p = Find(s, ":")
  OBVIOUS
<1>2. Len(s) \in Nat
  OBVIOUS
<1>3. /\ p \in 0 .. Len(s)
      /\ p = 0 => \A i \in 1 .. Len(s) : s[i] # ":"
      /\ p # 0 => s[p] = ":" /\ \A i \in 1 .. p - 1 : s[i] # ":"
  BY <1>1, <1>2, FirstPlace
<1>4. CASE p = 0
  <2>1. r = [host |-> s, port |-> Null]
    BY <1>1, <1>4, Unbracketed, Zenon
  <2>2. s = s \o <<>>
    OBVIOUS
  <2>3. ":" \notin Range(s)
    BY <1>3, <1>4 DEF Range
  <2> QED
    BY <2>1, <2>2, <2>3 DEF Whole
<1>5. CASE p # 0
  <2>1. PICK h, t : h = SubSeq(s, 1, p - 1) /\ t = SubSeq(s, p + 1, Len(s))
    OBVIOUS
  <2>2. r = [host |-> h, port |-> t]
    <3>1. r = [host |-> SubSeq(s, 1, p - 1), port |-> SubSeq(s, p + 1, Len(s))]
      BY <1>1, <1>5, Unbracketed, Zenon
    <3> QED
      BY <2>1, <3>1, Zenon
  <2>3. p \in 1 .. Len(s)
    BY <1>2, <1>3, <1>5
  <2>4. /\ h \in Seq(HostChars) /\ t \in Seq(HostChars) /\ Len(h) = p - 1
        /\ \A i \in 1 .. p - 1 : h[i] = s[i]
        /\ s = (h \o <<":">>) \o t
    BY <1>3, <1>5, <2>1, <2>3, Parted
  <2>5. t # Null
    BY <2>4, PortThere
  <2>6. ":" \notin Range(h)
    BY <1>3, <1>5, <2>3, <2>4 DEF Range
  <2>7. <<":">> \in Seq(HostChars)
    BY <1>3, <1>5, <2>3
  <2>8. s = h \o (<<":">> \o t)
    BY <2>4, <2>7, Regrouped
  <2>9. r.host = h /\ r.port = t
    BY <2>2
  <2> QED
    BY <2>5, <2>6, <2>8, <2>9 DEF Whole
<1> QED
  BY <1>4, <1>5

\* ... and one with them.
LEMMA BracketWhole ==
  ASSUME "(null)" \notin HostChars, NEW s \in Seq(HostChars), s # <<>>, s[1] = "[",
         NEW r, r = gck_rpc_parse_host_port(s)
  PROVE  Whole(s, r.host, r.port)
<1>1. PICK u : u = Tail(s)
  OBVIOUS
<1>2. PICK p : p = Find(u, "]")
  OBVIOUS
<1>3. u \in Seq(HostChars) /\ s = <<"[">> \o u /\ "[" \in HostChars
  BY <1>1, HeadAndTail
<1>4. /\ p \in 0 .. Len(u) /\ Len(u) \in Nat
      /\ p # 0 => u[p] = "]"
  <2>1. Len(u) \in Nat
    BY <1>3
  <2> QED
    BY <1>2, <2>1, FirstPlace
<1>5. CASE p = 0
  <2>1. r = [host |-> u, port |-> Null]
    BY <1>1, <1>2, <1>5, Bracketed, Zenon
  <2> QED
    BY <1>3, <2>1 DEF Whole
<1>6. CASE p # 0
  <2>1. PICK h, t : h = SubSeq(u, 1, p - 1) /\ t = SubSeq(u, p + 1, Len(u))
    OBVIOUS
  <2>2. r = [host |-> h, port |-> Behind(t)]
    <3>1. r = [host |-> SubSeq(u, 1, p - 1), port |-> Behind(SubSeq(u, p + 1, Len(u)))]
      BY <1>1, <1>2, <1>6, Bracketed, Zenon
    <3> QED
      BY <2>1, <3>1, Zenon
  <2>3. p \in 1 .. Len(u)
    BY <1>4, <1>6
  <2>4. /\ h \in Seq(HostChars) /\ t \in Seq(HostChars)
        /\ u = (h \o <<"]">>) \o t
    BY <1>3, <1>4, <1>6, <2>1, <2>3, Parted
  <2>5. "]" \in HostChars
    BY <1>3, <1>4, <1>6, <2>3
  <2>6. s = ((<<"[">> \o h) \o <<"]">>) \o t
    <3>1. PICK a : a = h \o <<"]">>
      OBVIOUS
    <3>2. a \in Seq(HostChars) /\ <<"[">> \in Seq(HostChars) /\ <<"]">> \in Seq(HostChars)
      BY <1>3, <2>4, <2>5, <3>1
    <3>3. <<"[">> \o (a \o t) = (<<"[">> \o a) \o t
      BY <2>4, <3>2, Regrouped
    <3>4. <<"[">> \o (h \o <<"]">>) = (<<"[">> \o h) \o <<"]">>
      BY <2>4, <3>2, Regrouped
    <3> QED
      BY <1>3, <2>4, <3>1, <3>3, <3>4
  <2>7. r.host = h /\ r.port = Behind(t)
    BY <2>2
  <2>8. CASE t # <<>> /\ t[1] = ":"
    <3>1. Tail(t) \in Seq(HostChars) /\ t = <<":">> \o Tail(t)
      BY <2>4, <2>8, HeadAndTail
    <3>2. r.port = Tail(t) /\ r.port # Null
      BY <2>7, <2>8, <3>1, PortThere DEF Behind
    <3> QED
      BY <2>6, <2>7, <3>1, <3>2 DEF Whole
  <2>9. CASE ~(t # <<>> /\ t[1] = ":")
    <3>1. r.port = t
      BY <2>7, <2>9 DEF Behind
    <3> QED
      BY <2>6, <2>7, <3>1 DEF Whole
  <2> QED
    BY <2>8, <2>9
<1> QED
  BY <1>5, <1>6

\* Only Try changes what was tried.
LEMMA ProbeStays == [Next]_vars /\ ~Try => probe' = probe
  BY DEF Next, vars, InitializeBadArgs, C_Initialize, CallConnects, C_Finalize, Fork,
     Resolve, NameFails, Socket, Connect, Refused, CloseNext, StartTls, OtherOpens, OtherCloses

\* Whatever the address of the daemon is, gck_rpc_parse_host_port loses no
\* character of it but the brackets and the colon.  (A name is made of
\* characters; "(null)" is what stands for a missing port.)
THEOREM AddressesWhole == "(null)" \notin HostChars /\ Spec => []HostPortWhole
<1> SUFFICES ASSUME "(null)" \notin HostChars PROVE Spec => []HostPortWhole
  OBVIOUS
<1>1. Init => HostPortWhole
  BY DEF Init, HostPortWhole, NoProbe
<1>2. HostPortWhole /\ [Next]_vars => HostPortWhole'
  <2> SUFFICES ASSUME HostPortWhole, [Next]_vars PROVE HostPortWhole'
    OBVIOUS
  <2>1. CASE ~Try
    <3>1. probe' = probe
      BY <2>1, ProbeStays
    <3> QED
      BY <3>1 DEF HostPortWhole
  <2>2. CASE Try
    <3>1. SUFFICES ASSUME probe'.of = "host" PROVE Whole(probe'.in, probe'.out.host, probe'.out.port)
      BY DEF HostPortWhole, Whole
    <3>2. PICK s \in SeqOf(HostChars, MaxHost) :
            probe' = [of |-> "host", in |-> s, out |-> gck_rpc_parse_host_port(s)]
      BY <2>2, <3>1 DEF Try
    <3>3. s \in Seq(HostChars)
      BY ClientSetupAssumption DEF SeqOf
    <3> QED
      BY <3>2, <3>3, PlainWhole, BracketWhole
  <2> QED
    BY <2>1, <2>2
<1> QED
  BY <1>1, <1>2, PTL DEF Spec

-----------------------------------------------------------------------------
(* The loop of parse_arguments.                                            *)

\* Induction over the natural numbers, for a set: a number outside it would
\* be a least one.
LEMMA Induction ==
  ASSUME NEW Z, 0 \in Z, \A n \in Nat : n \in Z => n + 1 \in Z
  PROVE  \A n \in Nat : n \in Z
<1> DEFINE C == Nat \ Z
<1>1. SUFFICES ASSUME C # {} PROVE FALSE
  OBVIOUS
<1>2. PICK x : x \in C /\ \A y \in C : x <= y
  BY <1>1, MinIs
<1>3. x \in Nat /\ x # 0 /\ x - 1 \in Nat /\ x - 1 \notin C
  BY <1>2
<1> QED
  BY <1>2, <1>3

\* The state before the first character, and after one more step.
First(c) == [src |-> 0, at |-> 0, word |-> <<>>, quote |-> NoQuote, bad |-> FALSE, conf |-> c]
Stopped(s, st) == st.bad \/ st.src >= Len(s) \/ st.at > st.src
LoopStep(s, c, n, st) ==
  IF n = 0 THEN First(c) ELSE IF Stopped(s, st) THEN st ELSE Scan(s, st)

IsLoop(s, c, num, g) == g = [n \in 0 .. num |-> LoopStep(s, c, n, g[n - 1])]

\* The loop of parse_arguments is a recursive function: there is one.
LEMMA LoopExists ==
  ASSUME NEW s, NEW c, NEW num \in Nat
  PROVE  \E g : IsLoop(s, c, num, g)
<1> DEFINE Is(g, m) == g = [n \in 0 .. m |-> LoopStep(s, c, n, g[n - 1])]
           Z == {m \in Nat : \E g : Is(g, m)}
<1>1. 0 \in Z
  <2> DEFINE g == [n \in 0 .. 0 |-> First(c)]
  <2>1. \A n \in 0 .. 0 : g[n] = LoopStep(s, c, n, g[n - 1])
    BY DEF LoopStep
  <2>2. DOMAIN g = 0 .. 0 /\ g = [n \in 0 .. 0 |-> g[n]]
    OBVIOUS
  <2> HIDE DEF g
  <2>3. Is(g, 0)
    BY <2>1, <2>2
  <2> HIDE DEF Is
  <2> QED
    BY <2>3
<1>2. ASSUME NEW m \in Nat, m \in Z PROVE m + 1 \in Z
  <2>1. PICK g : Is(g, m)
    BY <1>2
  <2> DEFINE h == [n \in 0 .. m + 1 |-> LoopStep(s, c, n, g[n - 1])]
  <2>2. \A n \in 0 .. m : h[n] = g[n]
    BY <2>1
  <2>3. \A n \in 0 .. m + 1 : h[n] = LoopStep(s, c, n, h[n - 1])
    <3> SUFFICES ASSUME NEW n \in 0 .. m + 1 PROVE h[n] = LoopStep(s, c, n, h[n - 1])
      OBVIOUS
    <3>1. CASE n = 0
      BY <3>1 DEF LoopStep
    <3>2. CASE n # 0
      <4>1. n - 1 \in 0 .. m
        BY <3>2
      <4>2. h[n - 1] = g[n - 1]
        BY <2>2, <4>1
      <4> QED
        BY <4>2
    <3> QED
      BY <3>1, <3>2
  <2>4. h = [n \in 0 .. m + 1 |-> h[n]]
    OBVIOUS
  <2> HIDE DEF h
  <2>5. Is(h, m + 1)
    BY <2>3, <2>4
  <2> HIDE DEF Is
  <2> QED
    BY <2>5
<1> HIDE DEF Z
<1>3. num \in Z
  BY <1>1, <1>2, Induction
<1> QED
  BY <1>3 DEF Z, IsLoop

\* The steps of the loop, and what parse_arguments makes of the last one.
Looped(s, c, g) ==
  /\ g[0] = First(c)
  /\ \A n \in 1 .. Len(s) : g[n] = IF Stopped(s, g[n - 1]) THEN g[n - 1] ELSE Scan(s, g[n - 1])

\* parse_arguments takes the steps of its loop, and then the last word.
LEMMA LoopIs ==
  ASSUME NEW s, Len(s) \in Nat, NEW c
  PROVE  \E g : /\ Looped(s, c, g)
                /\ parse_arguments(s, c).conf =
                     IF g[Len(s)].bad \/ g[Len(s)].word = <<>> THEN g[Len(s)].conf
                     ELSE parse_argument(g[Len(s)].word \o SubSeq(s, g[Len(s)].at + 1, Len(s)),
                                         g[Len(s)].conf)
                /\ parse_arguments(s, c).inplace = (g[Len(s)].at <= g[Len(s)].src)
<1> DEFINE T == CHOOSE g : IsLoop(s, c, Len(s), g)
<1>1. \E g : IsLoop(s, c, Len(s), g)
  BY LoopExists
<1>2. IsLoop(s, c, Len(s), T)
  BY <1>1, Zenon
<1>3. parse_arguments(s, c) =
        [conf |-> IF T[Len(s)].bad \/ T[Len(s)].word = <<>> THEN T[Len(s)].conf
                  ELSE parse_argument(T[Len(s)].word \o SubSeq(s, T[Len(s)].at + 1, Len(s)),
                                      T[Len(s)].conf),
         inplace |-> T[Len(s)].at <= T[Len(s)].src]
  BY DEF parse_arguments, LoopStep, First, Stopped, IsLoop
<1> HIDE DEF T
<1>4. Looped(s, c, T)
  <2>1. \A n \in 0 .. Len(s) : T[n] = LoopStep(s, c, n, T[n - 1])
    BY <1>2 DEF IsLoop
  <2>2. T[0] = First(c)
    BY <2>1 DEF LoopStep
  <2>3. ASSUME NEW n \in 1 .. Len(s)
        PROVE  T[n] = IF Stopped(s, T[n - 1]) THEN T[n - 1] ELSE Scan(s, T[n - 1])
    <3>1. n \in 0 .. Len(s) /\ n # 0
      OBVIOUS
    <3> QED
      BY <2>1, <3>1 DEF LoopStep
  <2> QED
    BY <2>2, <2>3 DEF Looped
<1> QED
  BY <1>3, <1>4

\* Blanks, quotes and backslashes are different characters.
LEMMA Letters ==
  /\ Blank # NoQuote /\ Blank \notin Quotes /\ Blank # "\\"
  /\ NoQuote \notin Quotes /\ NoQuote # "\\" /\ "\\" \notin Quotes
  BY Zenon DEF Blank, NoQuote, Quotes

\* A state of the loop, from its parts.
At(src, at, word, quote, bad, conf) ==
  [src |-> src, at |-> at, word |-> word, quote |-> quote, bad |-> bad, conf |-> conf]

\* One step of the loop, for each kind of character ...
Stepped(s, src, at, word, q, bad, conf) ==
  LET c == s[src + 1]
      to == Scan(s, At(src, at, word, q, bad, conf))
  IN /\ c = q => to = At(src + 1, at, word, NoQuote, bad, conf)
     /\ c # q /\ c = "\\" => to = Escape(s, At(src, at, word, q, bad, conf))
     /\ c # q /\ q = NoQuote /\ c = Blank =>
          to = At(src + 1, at, <<>>, q, bad, parse_argument(word, conf))
     /\ c # q /\ q = NoQuote /\ c \in Quotes => to = At(src + 1, at, word, c, bad, conf)
     /\ c \notin {q, "\\"} /\ (q # NoQuote \/ c \notin Quotes \cup {Blank}) =>
          to = At(src + 1, at + 1, word \o <<c>>, q, bad, conf)

LEMMA ScanIs ==
  ASSUME NEW s, NEW src, NEW at, NEW word, NEW q, NEW bad, NEW conf,
         s[src + 1] # NoQuote, q \in Quotes \cup {NoQuote}
  PROVE  Stepped(s, src, at, word, q, bad, conf)
<1>0. PICK c, st : c = s[src + 1] /\ c # NoQuote /\ st = At(src, at, word, q, bad, conf)
  OBVIOUS
<1>1. /\ st.src = src /\ st.at = at /\ st.word = word /\ st.quote = q /\ st.bad = bad /\ st.conf = conf
  BY <1>0 DEF At
<1>2. c = q => Scan(s, st) = At(src + 1, at, word, NoQuote, bad, conf)
  BY <1>0, <1>1, Letters DEF Scan, At
<1>3. c # q /\ c = "\\" => Scan(s, st) = Escape(s, st)
  BY <1>0, <1>1, Letters DEF Scan
<1>4. c # q /\ q = NoQuote /\ c = Blank =>
              Scan(s, st) = At(src + 1, at, <<>>, q, bad, parse_argument(word, conf))
  BY <1>0, <1>1, Letters DEF Scan, At
<1>5. c # q /\ q = NoQuote /\ c \in Quotes => Scan(s, st) = At(src + 1, at, word, c, bad, conf)
  BY <1>0, <1>1, Letters DEF Scan, At
<1>6. c \notin {q, "\\"} /\ (q # NoQuote \/ c \notin Quotes \cup {Blank}) =>
              Scan(s, st) = At(src + 1, at + 1, word \o <<c>>, q, bad, conf)
  BY <1>0, <1>1, Letters DEF Scan, At, Write
<1> QED
  BY <1>0, <1>2, <1>3, <1>4, <1>5, <1>6, Zenon DEF Stepped

\* ... and at a backslash.
Escaped(s, src, at, word, q, bad, conf) ==
  LET to == Escape(s, At(src, at, word, q, bad, conf))
  IN /\ src + 2 > Len(s) => to = At(src, at, word, q, TRUE, conf)
     /\ ~(src + 2 > Len(s)) =>
          \/ \E w : to = At(src + 2, at + 2, w, q, bad, conf)
          \/ q # NoQuote /\ \E w : to = At(src + 2, at + 3, w, q, bad, conf)

LEMMA EscapeIs ==
  ASSUME NEW s, NEW src, NEW at, NEW word, NEW q, NEW bad, NEW conf
  PROVE  Escaped(s, src, at, word, q, bad, conf)
<1>0. PICK st : st = At(src, at, word, q, bad, conf)
  OBVIOUS
<1>1. /\ st.src = src /\ st.at = at /\ st.word = word /\ st.quote = q /\ st.bad = bad /\ st.conf = conf
  BY <1>0 DEF At
<1>2. src + 2 > Len(s) => Escape(s, st) = At(src, at, word, q, TRUE, conf)
  BY <1>0, <1>1 DEF Escape, At
<1>3. ASSUME ~(src + 2 > Len(s))
      PROVE  \/ \E w : Escape(s, st) = At(src + 2, at + 2, w, q, bad, conf)
             \/ q # NoQuote /\ \E w : Escape(s, st) = At(src + 2, at + 3, w, q, bad, conf)
  <2>1. PICK d : d = s[src + 2]
    OBVIOUS
  <2>2. CASE q # NoQuote /\ d # q
    <3>1. Escape(s, st) = Write(st, <<"\\", "\\", d>>, 2)
      BY <1>1, <1>3, <2>1, <2>2 DEF Escape
    <3>2. Len(<<"\\", "\\", d>>) = 3
      OBVIOUS
    <3>3. Escape(s, st) = At(src + 2, at + 3, word \o <<"\\", "\\", d>>, q, bad, conf)
      BY <1>0, <1>1, <3>1, <3>2 DEF Write, At
    <3> QED
      BY <2>2, <3>3
  <2>3. CASE ~(q # NoQuote /\ d # q)
    <3>1. Escape(s, st) = Write(st, <<"\\", d>>, 2)
      BY <1>1, <1>3, <2>1, <2>3 DEF Escape
    <3>2. Len(<<"\\", d>>) = 2
      OBVIOUS
    <3>3. Escape(s, st) = At(src + 2, at + 2, word \o <<"\\", d>>, q, bad, conf)
      BY <1>0, <1>1, <3>1, <3>2 DEF Write, At
    <3> QED
      BY <3>3
  <2> QED
    BY <2>2, <2>3
<1> QED
  BY <1>0, <1>2, <1>3, Zenon DEF Escaped

-----------------------------------------------------------------------------
(* In place: no more is written than was read.                             *)

\* There is at most one backslash.
Single(s) == \A i, j \in 1 .. Len(s) : s[i] = "\\" /\ s[j] = "\\" => i = j

\* Nothing was overwritten that is still to be read, and in quotes there is
\* room for the backslash that is written twice.
Room(s, src, at, q) ==
  /\ src \in Nat /\ at \in Nat /\ at <= src /\ q \in Quotes \cup {NoQuote}
  /\ q # NoQuote /\ (\A i \in 1 .. src : s[i] # "\\") => at < src
Roomy(s, st) == \E src, at, word, q, bad, conf :
  st = At(src, at, word, q, bad, conf) /\ Room(s, src, at, q)

\* A step of the loop keeps this, as long as there is one backslash.
LEMMA RoomStays ==
  ASSUME NEW s, Len(s) \in Nat, \A i \in 1 .. Len(s) : s[i] # NoQuote, Single(s),
         NEW st, Roomy(s, st), ~Stopped(s, st)
  PROVE  Roomy(s, Scan(s, st))
<1>1. PICK src, at, word, q, bad, conf : st = At(src, at, word, q, bad, conf) /\ Room(s, src, at, q)
  BY DEF Roomy
<1>2. src < Len(s) /\ src \in Nat /\ at \in Nat /\ at <= src /\ q \in Quotes \cup {NoQuote}
  BY <1>1 DEF Stopped, At, Room
<1>3. PICK c : c = s[src + 1] /\ c # NoQuote
  BY <1>2
<1>4. Stepped(s, src, at, word, q, bad, conf)
  BY <1>2, <1>3, ScanIs, Zenon
<1>5. Escaped(s, src, at, word, q, bad, conf)
  BY EscapeIs, Zenon
<1>6. CASE c = q
  <2>1. Scan(s, st) = At(src + 1, at, word, NoQuote, bad, conf)
    BY <1>1, <1>3, <1>4, <1>6 DEF Stepped
  <2>2. Room(s, src + 1, at, NoQuote)
    BY <1>2 DEF Room
  <2> QED
    BY <2>1, <2>2 DEF Roomy
<1>7. CASE c # q /\ c = "\\"
  <2>1. Scan(s, st) = Escape(s, st)
    BY <1>1, <1>3, <1>4, <1>7 DEF Stepped
  <2>2. CASE src + 2 > Len(s)
    <3>1. Scan(s, st) = At(src, at, word, q, TRUE, conf)
      BY <1>1, <1>5, <2>1, <2>2 DEF Escaped
    <3> QED
      BY <1>1, <3>1 DEF Roomy
  <2>3. CASE ~(src + 2 > Len(s))
    <3>0. s[src + 1] = "\\"
      BY <1>3, <1>7, Zenon
    <3>1. \A i \in 1 .. src : s[i] # "\\"
      BY <1>2, <3>0 DEF Single
    <3>2. ~(\A i \in 1 .. src + 2 : s[i] # "\\")
      BY <1>2, <3>0
    <3>3. q # NoQuote => at < src
      BY <1>1, <3>1 DEF Room
    <3>4. \/ \E w : Escape(s, st) = At(src + 2, at + 2, w, q, bad, conf)
          \/ q # NoQuote /\ \E w : Escape(s, st) = At(src + 2, at + 3, w, q, bad, conf)
      BY <1>1, <1>5, <2>3 DEF Escaped
    <3>5. Room(s, src + 2, at + 2, q) /\ (q # NoQuote => Room(s, src + 2, at + 3, q))
      BY <1>2, <3>2, <3>3 DEF Room
    <3> QED
      BY <2>1, <3>4, <3>5 DEF Roomy
  <2> QED
    BY <2>2, <2>3
<1>8. CASE c # q /\ q = NoQuote /\ c = Blank
  <2>1. Scan(s, st) = At(src + 1, at, <<>>, q, bad, parse_argument(word, conf))
    BY <1>1, <1>3, <1>4, <1>8 DEF Stepped
  <2>2. Room(s, src + 1, at, q)
    BY <1>2, <1>8 DEF Room
  <2> QED
    BY <2>1, <2>2 DEF Roomy
<1>9. CASE c # q /\ q = NoQuote /\ c \in Quotes
  <2>1. Scan(s, st) = At(src + 1, at, word, c, bad, conf)
    BY <1>1, <1>3, <1>4, <1>9 DEF Stepped
  <2>2. Room(s, src + 1, at, c)
    BY <1>2, <1>9 DEF Room
  <2> QED
    BY <2>1, <2>2 DEF Roomy
<1>10. CASE c \notin {q, "\\"} /\ (q # NoQuote \/ c \notin Quotes \cup {Blank})
  <2>1. Scan(s, st) = At(src + 1, at + 1, word \o <<c>>, q, bad, conf)
    BY <1>1, <1>3, <1>4, <1>10 DEF Stepped
  <2>2. Room(s, src + 1, at + 1, q)
    <3>1. src + 1 \in Nat /\ at + 1 \in Nat /\ at + 1 <= src + 1
      BY <1>2
    <3>2. ASSUME q # NoQuote, \A i \in 1 .. src + 1 : s[i] # "\\" PROVE at < src
      BY <1>1, <1>2, <3>2 DEF Room
    <3> QED
      BY <1>2, <3>1, <3>2 DEF Room
  <2> QED
    BY <2>1, <2>2 DEF Roomy
<1> QED
  BY <1>6, <1>7, <1>8, <1>9, <1>10, Letters

\* With one backslash, nothing is overwritten that is still to be read.
LEMMA InPlace ==
  ASSUME NEW s, Len(s) \in Nat, \A i \in 1 .. Len(s) : s[i] # NoQuote, Single(s), NEW c
  PROVE  parse_arguments(s, c).inplace
<1>1. PICK g : /\ Looped(s, c, g)
               /\ parse_arguments(s, c).inplace = (g[Len(s)].at <= g[Len(s)].src)
  BY LoopIs
<1> DEFINE Z == {n \in Nat : n <= Len(s) => Roomy(s, g[n])}
<1>2. 0 \in Z
  <2>1. g[0] = At(0, 0, <<>>, NoQuote, FALSE, c)
    BY <1>1 DEF Looped, First, At
  <2>2. Room(s, 0, 0, NoQuote)
    BY DEF Room
  <2> QED
    BY <2>1, <2>2 DEF Roomy
<1>3. ASSUME NEW n \in Nat, n \in Z PROVE n + 1 \in Z
  <2>1. SUFFICES ASSUME n + 1 <= Len(s) PROVE Roomy(s, g[n + 1])
    OBVIOUS
  <2>2. Roomy(s, g[n])
    BY <1>3, <2>1
  <2>3. g[n + 1] = IF Stopped(s, g[n]) THEN g[n] ELSE Scan(s, g[n])
    <3>1. n + 1 \in 1 .. Len(s) /\ (n + 1) - 1 = n
      BY <2>1
    <3> QED
      BY <1>1, <3>1 DEF Looped
  <2> QED
    BY <2>2, <2>3, RoomStays
<1> HIDE DEF Z
<1>4. Len(s) \in Z
  BY <1>2, <1>3, Induction
<1>5. Roomy(s, g[Len(s)])
  BY <1>4 DEF Z
<1>6. PICK src, at, word, q, bad, conf :
        g[Len(s)] = At(src, at, word, q, bad, conf) /\ Room(s, src, at, q)
  BY <1>5 DEF Roomy
<1>7. g[Len(s)].at <= g[Len(s)].src
  BY <1>6 DEF Room, At
<1> QED
  BY <1>1, <1>7

-----------------------------------------------------------------------------
(* The words of an argument string.                                        *)

\* The quotes of QuoteAt, step by step.
QuoteStep(s, i, q) ==
  IF i = 1 THEN NoQuote
  ELSE CASE q = NoQuote /\ s[i - 1] \in Quotes -> s[i - 1]
         [] q = s[i - 1] -> NoQuote
         [] OTHER -> q
IsQuotes(s, num, g) == g = [i \in 1 .. num + 1 |-> QuoteStep(s, i, g[i - 1])]

\* There is such a function.
LEMMA QuotesExist ==
  ASSUME NEW s, NEW num \in Nat
  PROVE  \E g : IsQuotes(s, num, g)
<1> DEFINE Is(g, m) == g = [n \in 1 .. m + 1 |-> QuoteStep(s, n, g[n - 1])]
           Z == {m \in Nat : \E g : Is(g, m)}
<1>1. 0 \in Z
  <2> DEFINE g == [n \in 1 .. 0 + 1 |-> NoQuote]
  <2>1. \A n \in 1 .. 0 + 1 : g[n] = QuoteStep(s, n, g[n - 1])
    BY DEF QuoteStep
  <2>2. g = [n \in 1 .. 0 + 1 |-> g[n]]
    OBVIOUS
  <2> HIDE DEF g
  <2>3. Is(g, 0)
    BY <2>1, <2>2
  <2> HIDE DEF Is
  <2> QED
    BY <2>3
<1>2. ASSUME NEW m \in Nat, m \in Z PROVE m + 1 \in Z
  <2>1. PICK g : Is(g, m)
    BY <1>2
  <2> DEFINE h == [n \in 1 .. (m + 1) + 1 |-> QuoteStep(s, n, g[n - 1])]
  <2>2. \A n \in 1 .. m + 1 : h[n] = g[n]
    BY <2>1
  <2>3. \A n \in 1 .. (m + 1) + 1 : h[n] = QuoteStep(s, n, h[n - 1])
    <3> SUFFICES ASSUME NEW n \in 1 .. (m + 1) + 1 PROVE h[n] = QuoteStep(s, n, h[n - 1])
      OBVIOUS
    <3>1. CASE n = 1
      BY <3>1 DEF QuoteStep
    <3>2. CASE n # 1
      <4>1. n - 1 \in 1 .. m + 1
        BY <3>2
      <4>2. h[n - 1] = g[n - 1]
        BY <2>2, <4>1
      <4> QED
        BY <4>2
    <3> QED
      BY <3>1, <3>2
  <2>4. h = [n \in 1 .. (m + 1) + 1 |-> h[n]]
    OBVIOUS
  <2> HIDE DEF h
  <2>5. Is(h, m + 1)
    BY <2>3, <2>4
  <2> HIDE DEF Is
  <2> QED
    BY <2>5
<1> HIDE DEF Z
<1>3. num \in Z
  BY <1>1, <1>2, Induction
<1> QED
  BY <1>3 DEF Z, IsQuotes

\* QuoteAt follows its recursion.
LEMMA QuoteAtIs ==
  ASSUME NEW s, Len(s) \in Nat
  PROVE  /\ QuoteAt(s)[1] = NoQuote
         /\ \A n \in 1 .. Len(s) : QuoteAt(s)[n + 1] = QuoteStep(s, n + 1, QuoteAt(s)[n])
<1> DEFINE T == CHOOSE g : IsQuotes(s, Len(s), g)
<1>1. \E g : IsQuotes(s, Len(s), g)
  BY QuotesExist
<1>2. IsQuotes(s, Len(s), T)
  BY <1>1, Zenon
<1>3. QuoteAt(s) = T
  BY DEF QuoteAt, IsQuotes, QuoteStep
<1> HIDE DEF T
<1>4. \A i \in 1 .. Len(s) + 1 : T[i] = QuoteStep(s, i, T[i - 1])
  BY <1>2 DEF IsQuotes
<1>5. T[1] = NoQuote
  <2>1. 1 \in 1 .. Len(s) + 1
    OBVIOUS
  <2> QED
    BY <1>4, <2>1 DEF QuoteStep
<1>6. ASSUME NEW n \in 1 .. Len(s) PROVE T[n + 1] = QuoteStep(s, n + 1, T[n])
  <2>1. n + 1 \in 1 .. Len(s) + 1 /\ (n + 1) - 1 = n
    OBVIOUS
  <2> QED
    BY <1>4, <2>1
<1> QED
  BY <1>3, <1>5, <1>6

\* The words of Words, character by character.
WordStep(s, i, w) ==
  IF i = 0 \/ i \in Blanks(s) THEN <<>>
  ELSE IF QuoteAt(s)[i] = QuoteAt(s)[i + 1] THEN Append(w, s[i]) ELSE w
IsWords(s, num, g) == g = [i \in 0 .. num |-> WordStep(s, i, g[i - 1])]

\* There is such a function.
LEMMA WordsExist ==
  ASSUME NEW s, NEW num \in Nat
  PROVE  \E g : IsWords(s, num, g)
<1> DEFINE Is(g, m) == g = [n \in 0 .. m |-> WordStep(s, n, g[n - 1])]
           Z == {m \in Nat : \E g : Is(g, m)}
<1>1. 0 \in Z
  <2> DEFINE g == [n \in 0 .. 0 |-> <<>>]
  <2>1. \A n \in 0 .. 0 : g[n] = WordStep(s, n, g[n - 1])
    BY DEF WordStep
  <2>2. g = [n \in 0 .. 0 |-> g[n]]
    OBVIOUS
  <2> HIDE DEF g
  <2>3. Is(g, 0)
    BY <2>1, <2>2
  <2> HIDE DEF Is
  <2> QED
    BY <2>3
<1>2. ASSUME NEW m \in Nat, m \in Z PROVE m + 1 \in Z
  <2>1. PICK g : Is(g, m)
    BY <1>2
  <2> DEFINE h == [n \in 0 .. m + 1 |-> WordStep(s, n, g[n - 1])]
  <2>2. \A n \in 0 .. m : h[n] = g[n]
    BY <2>1
  <2>3. \A n \in 0 .. m + 1 : h[n] = WordStep(s, n, h[n - 1])
    <3> SUFFICES ASSUME NEW n \in 0 .. m + 1 PROVE h[n] = WordStep(s, n, h[n - 1])
      OBVIOUS
    <3>1. CASE n = 0
      BY <3>1 DEF WordStep
    <3>2. CASE n # 0
      <4>1. n - 1 \in 0 .. m
        BY <3>2
      <4>2. h[n - 1] = g[n - 1]
        BY <2>2, <4>1
      <4> QED
        BY <4>2
    <3> QED
      BY <3>1, <3>2
  <2>4. h = [n \in 0 .. m + 1 |-> h[n]]
    OBVIOUS
  <2> HIDE DEF h
  <2>5. Is(h, m + 1)
    BY <2>3, <2>4
  <2> HIDE DEF Is
  <2> QED
    BY <2>5
<1> HIDE DEF Z
<1>3. num \in Z
  BY <1>1, <1>2, Induction
<1> QED
  BY <1>3 DEF Z, IsWords

\* g[n] is the word of the first n characters that is not ended yet.
Worded(s, g) ==
  /\ g[0] = <<>>
  /\ \A n \in 0 .. Len(s) - 1 : g[n + 1] = WordStep(s, n + 1, g[n])
  /\ DOMAIN Words(s) = Blanks(s) \cup {Len(s) + 1}
  /\ \A b \in Blanks(s) \cup {Len(s) + 1} : Words(s)[b] = g[b - 1]

\* Words follows its recursion.
LEMMA WordsAre ==
  ASSUME NEW s, Len(s) \in Nat
  PROVE  \E g : Worded(s, g)
<1> DEFINE T == CHOOSE g : IsWords(s, Len(s), g)
<1>1. \E g : IsWords(s, Len(s), g)
  BY WordsExist
<1>2. IsWords(s, Len(s), T)
  BY <1>1, Zenon
<1>3. Words(s) = [b \in Blanks(s) \cup {Len(s) + 1} |-> T[b - 1]]
  BY DEF Words, IsWords, WordStep
<1> HIDE DEF T
<1>4. \A i \in 0 .. Len(s) : T[i] = WordStep(s, i, T[i - 1])
  BY <1>2 DEF IsWords
<1>5. T[0] = <<>>
  BY <1>4 DEF WordStep
<1>6. ASSUME NEW n \in 0 .. Len(s) - 1 PROVE T[n + 1] = WordStep(s, n + 1, T[n])
  <2>1. n + 1 \in 0 .. Len(s) /\ (n + 1) - 1 = n
    OBVIOUS
  <2> QED
    BY <1>4, <2>1
<1> QED
  BY <1>3, <1>5, <1>6 DEF Worded

\* The last of the words that end before a character.
Hits(words, n, name) == {b \in DOMAIN words : b <= n /\ Name(words[b]) = <<name>>}
ValueBy(words, n, name, was) ==
  IF Hits(words, n, name) = {} THEN was ELSE Value(words[Max(Hits(words, n, name))])

\* An element that is not below any other is the greatest.
LEMMA MaxIs ==
  ASSUME NEW T, T \subseteq Nat, NEW x \in T, \A y \in T : y <= x
  PROVE  Max(T) = x
<1> DEFINE P(z) == z \in T /\ \A y \in T : z >= y
<1>1. P(x)
  OBVIOUS
<1>2. \A z : P(z) => z = x
  OBVIOUS
<1>3. Max(T) = CHOOSE z \in T : \A y \in T : z >= y
  BY DEF Max
<1> QED
  BY <1>1, <1>2, <1>3

\* One character more: only a word that ends there changes the value.
LEMMA NextWord ==
  ASSUME NEW words, DOMAIN words \subseteq Nat, NEW n \in Nat, NEW name, NEW was
  PROVE  /\ n + 1 \in DOMAIN words =>
              ValueBy(words, n + 1, name, was) =
                IF Name(words[n + 1]) = <<name>> THEN Value(words[n + 1])
                ELSE ValueBy(words, n, name, was)
         /\ n + 1 \notin DOMAIN words =>
              ValueBy(words, n + 1, name, was) = ValueBy(words, n, name, was)
<1>1. PICK A, B : A = Hits(words, n, name) /\ B = Hits(words, n + 1, name)
  OBVIOUS
<1>2. CASE n + 1 \in DOMAIN words /\ Name(words[n + 1]) = <<name>>
  <2>1. n + 1 \in B /\ B \subseteq Nat /\ \A y \in B : y <= n + 1
    BY <1>1, <1>2 DEF Hits
  <2>2. Max(B) = n + 1
    BY <2>1, MaxIs
  <2> QED
    BY <1>1, <1>2, <2>1, <2>2 DEF ValueBy
<1>3. CASE ~(n + 1 \in DOMAIN words /\ Name(words[n + 1]) = <<name>>)
  <2>1. A = B
    BY <1>1, <1>3 DEF Hits
  <2> QED
    BY <1>1, <1>3, <2>1, Zenon DEF ValueBy
<1> QED
  BY <1>2, <1>3

\* After the last character it is the last value of all words.
LEMMA AllWords ==
  ASSUME NEW words, NEW n \in Nat, DOMAIN words \subseteq 0 .. n, NEW name, NEW was
  PROVE  ValueBy(words, n, name, was) = LastValue(words, name, was)
<1>1. Hits(words, n, name) = {b \in DOMAIN words : Name(words[b]) = <<name>>}
  BY DEF Hits
<1> QED
  BY <1>1, Zenon DEF ValueBy, LastValue

\* What is set after a word, from what was set before.
LEMMA ParseIs ==
  ASSUME NEW w, NEW p, NEW k
  PROVE  parse_argument(w, [path |-> p, key |-> k]) =
           [path |-> IF Name(w) = <<"s">> THEN Value(w) ELSE p,
            key  |-> IF Name(w) = <<"k">> THEN Value(w) ELSE k]
<1>1. <<"s">> # <<"k">>
  OBVIOUS
<1> QED
  BY <1>1 DEF parse_argument

\* The empty word has no name.
LEMMA NoName ==
  ASSUME NEW name
  PROVE  Name(<<>>) # <<name>>
<1>1. {i \in 1 .. Len(<<>>) : <<>>[i] \in {":", "="}} = {}
  OBVIOUS
<1>2. Cut(<<>>) = 0
  BY <1>1 DEF Cut, SelectInSeq
<1>3. Name(<<>>) = <<>>
  BY <1>2 DEF Name
<1>4. <<>> # <<name>>
  OBVIOUS
<1> QED
  BY <1>3, <1>4

\* Characters that need no care.
Chars(s) == \A i \in 1 .. Len(s) : s[i] # NoQuote /\ s[i] # "\\"
Plain(s) == \A i \in 1 .. Len(s) : s[i] \notin Quotes \cup {Blank}

\* What the words that end in the first n characters set.
SetBy(words, n, c) ==
  [path |-> ValueBy(words, n, "s", c.path), key |-> ValueBy(words, n, "k", c.key)]

\* The loop after n characters of a string without backslashes: the quote it
\* is in, the word it has at hand and what is set are those of the string.
Fits(E, s, c, w, n, st, at) ==
  /\ at \in Nat /\ at <= n /\ (Plain(s) => at = n)
  /\ w[n] \in Seq(E)
  /\ QuoteAt(s)[n + 1] \in Quotes \cup {NoQuote}
  /\ Plain(s) => QuoteAt(s)[n + 1] = NoQuote
  /\ st = At(n, at, w[n], QuoteAt(s)[n + 1], FALSE, SetBy(Words(s), n, c))
Tracked(E, s, c, w, n, st) == \E at : Fits(E, s, c, w, n, st, at)

\* A quote ends the same quote or begins one; nothing else changes it.
QuoteGoes(ch, q, u) ==
  /\ ch = q => u = NoQuote
  /\ q = NoQuote /\ ch \in Quotes => u = ch
  /\ ch # q /\ ~(q = NoQuote /\ ch \in Quotes) => u = q

\* The quote behind the next character, as the loop has it.
LEMMA QuoteNext ==
  ASSUME NEW s, NEW n \in Nat, NEW q, q \in Quotes \cup {NoQuote}, s[n + 1] # NoQuote
  PROVE  QuoteGoes(s[n + 1], q, QuoteStep(s, n + 2, q))
<1>0. PICK ch : ch = s[n + 1]
  OBVIOUS
<1>1. s[(n + 2) - 1] = ch /\ n + 2 # 1
  <2>1. (n + 2) - 1 = n + 1
    OBVIOUS
  <2> QED
    BY <1>0, <2>1
<1>2. QuoteStep(s, n + 2, q) = CASE q = NoQuote /\ ch \in Quotes -> ch
                                 [] q = ch -> NoQuote
                                 [] OTHER -> q
  BY <1>1 DEF QuoteStep
<1>3. QuoteGoes(ch, q, QuoteStep(s, n + 2, q))
  BY <1>0, <1>2, Letters DEF QuoteGoes
<1> QED
  BY <1>0, <1>3

\* The word behind the next character.
LEMMA WordNext ==
  ASSUME NEW s, NEW n \in Nat, n < Len(s), Len(s) \in Nat, NEW w
  PROVE  /\ (n + 1 \in Blanks(s)) <=> (s[n + 1] = Blank /\ QuoteAt(s)[n + 1] = NoQuote)
         /\ WordStep(s, n + 1, w) =
              IF s[n + 1] = Blank /\ QuoteAt(s)[n + 1] = NoQuote THEN <<>>
              ELSE IF QuoteAt(s)[n + 1] = QuoteAt(s)[n + 2] THEN Append(w, s[n + 1]) ELSE w
<1>1. n + 1 \in 1 .. Len(s) /\ n + 1 # 0 /\ (n + 1) + 1 = n + 2
  OBVIOUS
<1>2. (n + 1 \in Blanks(s)) <=> (s[n + 1] = Blank /\ QuoteAt(s)[n + 1] = NoQuote)
  BY <1>1 DEF Blanks
<1> QED
  BY <1>1, <1>2 DEF WordStep

\* A step of the loop takes the next character as Words does.
LEMMA TrackStays ==
  ASSUME NEW E, NEW s \in Seq(E), Chars(s), NEW p, NEW k, NEW c, c = [path |-> p, key |-> k],
         NEW w, Worded(s, w), NEW n \in Nat, n < Len(s), NEW st, Tracked(E, s, c, w, n, st)
  PROVE  ~Stopped(s, st) /\ Tracked(E, s, c, w, n + 1, Scan(s, st))
<1>0. PICK at : Fits(E, s, c, w, n, st, at)
  BY DEF Tracked
<1>1. at \in Nat /\ at <= n /\ (Plain(s) => at = n)
  BY <1>0 DEF Fits
<1>2. PICK q, ch, old, conf : /\ q = QuoteAt(s)[n + 1] /\ ch = s[n + 1] /\ old = w[n]
                              /\ conf = SetBy(Words(s), n, c)
  OBVIOUS
<1>3. Len(s) \in Nat /\ n + 1 \in 1 .. Len(s) /\ (n + 1) + 1 = n + 2 /\ n \in 0 .. Len(s) - 1
  OBVIOUS
<1>4. ch # NoQuote /\ ch # "\\" /\ ch \in E /\ (Plain(s) => ch \notin Quotes \cup {Blank})
  <2>1. s[n + 1] # NoQuote /\ s[n + 1] # "\\" /\ s[n + 1] \in E
    BY <1>3 DEF Chars
  <2>2. Plain(s) => s[n + 1] \notin Quotes \cup {Blank}
    BY <1>3 DEF Plain
  <2> QED
    BY <1>2, <2>1, <2>2, Zenon
<1>5. /\ q \in Quotes \cup {NoQuote} /\ (Plain(s) => q = NoQuote) /\ old \in Seq(E)
      /\ st = At(n, at, old, q, FALSE, conf)
  BY <1>0, <1>2 DEF Fits
<1>6. ~Stopped(s, st)
  BY <1>1, <1>5 DEF Stopped, At
<1>7. Stepped(s, n, at, old, q, FALSE, conf)
  BY <1>2, <1>4, <1>5, ScanIs, Zenon
<1>8. PICK u : u = QuoteAt(s)[n + 2] /\ u = QuoteStep(s, n + 2, q)
  BY <1>2, <1>3, QuoteAtIs
<1>9. /\ ch = q => u = NoQuote
      /\ q = NoQuote /\ ch \in Quotes => u = ch
      /\ ch # q /\ ~(q = NoQuote /\ ch \in Quotes) => u = q
  <2>1. QuoteGoes(s[n + 1], q, QuoteStep(s, n + 2, q))
    BY <1>2, <1>4, <1>5, QuoteNext
  <2> QED
    BY <1>2, <1>8, <2>1 DEF QuoteGoes
<1>10. w[n + 1] = IF ch = Blank /\ q = NoQuote THEN <<>>
                  ELSE IF q = u THEN Append(old, ch) ELSE old
  <2>1. w[n + 1] = WordStep(s, n + 1, old)
    BY <1>2, <1>3 DEF Worded
  <2>2. WordStep(s, n + 1, old) = IF ch = Blank /\ q = NoQuote THEN <<>>
                                  ELSE IF q = u THEN Append(old, ch) ELSE old
    <3>1. WordStep(s, n + 1, old) =
              IF s[n + 1] = Blank /\ QuoteAt(s)[n + 1] = NoQuote THEN <<>>
              ELSE IF QuoteAt(s)[n + 1] = QuoteAt(s)[n + 2] THEN Append(old, s[n + 1]) ELSE old
      BY <1>3, WordNext
    <3> QED
      BY <1>2, <1>8, <3>1, Zenon
  <2> QED
    BY <2>1, <2>2, Zenon
<1>11. (n + 1 \in DOMAIN Words(s)) <=> (ch = Blank /\ q = NoQuote)
  <2>1. (n + 1 \in Blanks(s)) <=> (ch = Blank /\ q = NoQuote)
    <3>1. (n + 1 \in Blanks(s)) <=> (s[n + 1] = Blank /\ QuoteAt(s)[n + 1] = NoQuote)
      BY <1>3, WordNext
    <3> QED
      BY <1>2, <3>1, Zenon
  <2> QED
    BY <1>3, <2>1 DEF Worded
<1>12. DOMAIN Words(s) \subseteq Nat
  BY <1>3 DEF Worded, Blanks
<1>13. ch = Blank /\ q = NoQuote => Words(s)[n + 1] = old
  <2>1. (n + 1) - 1 = n
    OBVIOUS
  <2> QED
    BY <1>2, <1>11, <2>1 DEF Worded
<1>14. SetBy(Words(s), n + 1, c) =
         IF ch = Blank /\ q = NoQuote THEN parse_argument(old, conf) ELSE conf
  <2>0. PICK W : W = Words(s)
    OBVIOUS
  <2>1. CASE ch = Blank /\ q = NoQuote
    <3>1. /\ ValueBy(W, n + 1, "s", c.path) =
               IF Name(old) = <<"s">> THEN Value(old) ELSE ValueBy(W, n, "s", c.path)
          /\ ValueBy(W, n + 1, "k", c.key) =
               IF Name(old) = <<"k">> THEN Value(old) ELSE ValueBy(W, n, "k", c.key)
      <4>1. W[n + 1] = old /\ n + 1 \in DOMAIN W /\ DOMAIN W \subseteq Nat
        BY <1>11, <1>12, <1>13, <2>0, <2>1, Zenon
      <4>2. ValueBy(W, n + 1, "s", c.path) =
              IF Name(W[n + 1]) = <<"s">> THEN Value(W[n + 1]) ELSE ValueBy(W, n, "s", c.path)
        BY <4>1, NextWord
      <4>3. ValueBy(W, n + 1, "k", c.key) =
              IF Name(W[n + 1]) = <<"k">> THEN Value(W[n + 1]) ELSE ValueBy(W, n, "k", c.key)
        BY <4>1, NextWord
      <4> QED
        BY <4>1, <4>2, <4>3, Zenon
    <3>2. conf = [path |-> ValueBy(W, n, "s", c.path), key |-> ValueBy(W, n, "k", c.key)]
      BY <1>2, <2>0 DEF SetBy
    <3> QED
      BY <2>0, <2>1, <3>1, <3>2, ParseIs DEF SetBy
  <2>2. CASE ~(ch = Blank /\ q = NoQuote)
    <3>1. /\ ValueBy(W, n + 1, "s", c.path) = ValueBy(W, n, "s", c.path)
          /\ ValueBy(W, n + 1, "k", c.key) = ValueBy(W, n, "k", c.key)
      BY <1>11, <1>12, <2>0, <2>2, NextWord
    <3> QED
      BY <1>2, <2>0, <2>2, <3>1 DEF SetBy
  <2> QED
    BY <2>1, <2>2
<1>15. PICK m : m = n + 1 /\ m \in Nat /\ m + 1 = n + 2 /\ n < m
  OBVIOUS
<1>16. QuoteAt(s)[m + 1] = u
  BY <1>8, <1>15, Zenon
<1>17. CASE ch = q
  <2>1. Scan(s, st) = At(n + 1, at, old, NoQuote, FALSE, conf)
    BY <1>2, <1>5, <1>7, <1>17 DEF Stepped
  <2>2. u = NoQuote /\ w[n + 1] = old /\ SetBy(Words(s), n + 1, c) = conf /\ ~Plain(s)
    BY <1>4, <1>5, <1>9, <1>10, <1>14, <1>17
  <2>3. at \in Nat /\ at <= m
    BY <1>1, <1>15
  <2>4. w[m] \in Seq(E)
    BY <1>5, <1>15, <2>2
  <2>5. Scan(s, st) = At(m, at, w[m], QuoteAt(s)[m + 1], FALSE, SetBy(Words(s), m, c))
    BY <1>16, <1>15, <2>1, <2>2, Zenon
  <2>6. Fits(E, s, c, w, m, Scan(s, st), at)
    BY <1>5, <1>16, <2>2, <2>3, <2>4, <2>5, Letters, Zenon DEF Fits
  <2> QED
    BY <1>6, <1>15, <2>6, Zenon DEF Tracked
<1>18. CASE q = NoQuote /\ ch = Blank
  <2>1. Scan(s, st) = At(n + 1, at, <<>>, q, FALSE, parse_argument(old, conf))
    BY <1>2, <1>4, <1>5, <1>7, <1>18 DEF Stepped
  <2>2. u = q /\ w[n + 1] = <<>> /\ SetBy(Words(s), n + 1, c) = parse_argument(old, conf) /\ ~Plain(s)
    BY <1>4, <1>5, <1>9, <1>10, <1>14, <1>18, Letters
  <2>3. at \in Nat /\ at <= m
    BY <1>1, <1>15
  <2>4. w[m] \in Seq(E)
    BY <1>5, <1>15, <2>2
  <2>5. Scan(s, st) = At(m, at, w[m], QuoteAt(s)[m + 1], FALSE, SetBy(Words(s), m, c))
    BY <1>16, <1>15, <2>1, <2>2, Zenon
  <2>6. Fits(E, s, c, w, m, Scan(s, st), at)
    BY <1>5, <1>16, <2>2, <2>3, <2>4, <2>5, Letters, Zenon DEF Fits
  <2> QED
    BY <1>6, <1>15, <2>6, Zenon DEF Tracked
<1>19. CASE q = NoQuote /\ ch \in Quotes
  <2>1. Scan(s, st) = At(n + 1, at, old, ch, FALSE, conf)
    BY <1>2, <1>4, <1>5, <1>7, <1>19 DEF Stepped
  <2>2. u = ch /\ w[n + 1] = old /\ SetBy(Words(s), n + 1, c) = conf /\ ~Plain(s)
    BY <1>4, <1>5, <1>9, <1>10, <1>14, <1>19, Letters
  <2>3. at \in Nat /\ at <= m
    BY <1>1, <1>15
  <2>4. w[m] \in Seq(E)
    BY <1>5, <1>15, <2>2
  <2>5. Scan(s, st) = At(m, at, w[m], QuoteAt(s)[m + 1], FALSE, SetBy(Words(s), m, c))
    BY <1>16, <1>15, <2>1, <2>2, Zenon
  <2>6. Fits(E, s, c, w, m, Scan(s, st), at)
    BY <1>5, <1>16, <2>2, <2>3, <2>4, <2>5, <1>19, Letters, Zenon DEF Fits
  <2> QED
    BY <1>6, <1>15, <2>6, Zenon DEF Tracked
<1>20. CASE ch # q /\ (q # NoQuote \/ ch \notin Quotes \cup {Blank})
  <2>1. Scan(s, st) = At(n + 1, at + 1, old \o <<ch>>, q, FALSE, conf)
    BY <1>2, <1>4, <1>5, <1>7, <1>20 DEF Stepped
  <2>2. u = q /\ w[n + 1] = Append(old, ch) /\ SetBy(Words(s), n + 1, c) = conf
    BY <1>4, <1>5, <1>9, <1>10, <1>14, <1>20, Letters
  <2>3. Append(old, ch) = old \o <<ch>> /\ Append(old, ch) \in Seq(E)
    BY <1>4, <1>5
  <2>4. at + 1 \in Nat /\ at + 1 <= m /\ (Plain(s) => at + 1 = m)
    BY <1>1, <1>15
  <2>5. w[m] \in Seq(E)
    BY <1>5, <1>15, <2>2, <2>3
  <2>6. Scan(s, st) = At(m, at + 1, w[m], QuoteAt(s)[m + 1], FALSE, SetBy(Words(s), m, c))
    BY <1>16, <1>15, <2>1, <2>2, <2>3, Zenon
  <2>7. Fits(E, s, c, w, m, Scan(s, st), at + 1)
    BY <1>5, <1>16, <2>2, <2>4, <2>5, <2>6, Letters, Zenon DEF Fits
  <2> QED
    BY <1>6, <1>15, <2>7, Zenon DEF Tracked
<1> QED
  BY <1>4, <1>17, <1>18, <1>19, <1>20

\* After the last character the loop has set what all words say that are
\* ended, and has the last one at hand.
LEMMA TrackedAll ==
  ASSUME NEW E, NEW s \in Seq(E), Chars(s), NEW p, NEW k, NEW c, c = [path |-> p, key |-> k],
         NEW w, Worded(s, w), NEW g, Looped(s, c, g)
  PROVE  Tracked(E, s, c, w, Len(s), g[Len(s)])
<1>0. Len(s) \in Nat
  OBVIOUS
<1> DEFINE Z == {n \in Nat : n <= Len(s) => Tracked(E, s, c, w, n, g[n])}
<1>1. 0 \in Z
  <2>1. g[0] = At(0, 0, <<>>, NoQuote, FALSE, c)
    BY DEF Looped, First, At
  <2>2. w[0] = <<>> /\ w[0] \in Seq(E) /\ QuoteAt(s)[0 + 1] = NoQuote
    BY <1>0, QuoteAtIs DEF Worded
  <2>3. \A name : Hits(Words(s), 0, name) = {}
    BY <1>0 DEF Hits, Worded, Blanks
  <2>4. SetBy(Words(s), 0, c) = c
    BY <2>3 DEF SetBy, ValueBy
  <2>5. Fits(E, s, c, w, 0, g[0], 0)
    <3>1. 0 \in Nat /\ 0 <= 0
      OBVIOUS
    <3> QED
      BY <2>1, <2>2, <2>4, <3>1, Zenon DEF Fits
  <2> QED
    BY <2>5 DEF Tracked
<1>2. ASSUME NEW n \in Nat, n \in Z PROVE n + 1 \in Z
  <2>1. SUFFICES ASSUME n + 1 <= Len(s) PROVE Tracked(E, s, c, w, n + 1, g[n + 1])
    OBVIOUS
  <2>2. n < Len(s) /\ Tracked(E, s, c, w, n, g[n])
    BY <1>0, <1>2, <2>1
  <2>3. g[n + 1] = IF Stopped(s, g[n]) THEN g[n] ELSE Scan(s, g[n])
    <3>1. n + 1 \in 1 .. Len(s) /\ (n + 1) - 1 = n
      BY <1>0, <2>1
    <3> QED
      BY <3>1 DEF Looped
  <2> QED
    BY <2>2, <2>3, TrackStays
<1> HIDE DEF Z
<1>3. Len(s) \in Z
  BY <1>0, <1>1, <1>2, Induction
<1> QED
  BY <1>0, <1>3 DEF Z

\* The last word, which the end of the string ends, included.
LEMMA LastWord ==
  ASSUME NEW s, Len(s) \in Nat, NEW p, NEW k, NEW c, c = [path |-> p, key |-> k],
         NEW w, Worded(s, w), NEW conf, conf = SetBy(Words(s), Len(s), c)
  PROVE  LET all == parse_argument(w[Len(s)], conf)
         IN /\ all.path = LastValue(Words(s), "s", p)
            /\ all.key = LastValue(Words(s), "k", k)
            /\ w[Len(s)] = <<>> => all = conf
<1>1. PICK W, n, x : W = Words(s) /\ n = Len(s) /\ x = w[Len(s)]
  OBVIOUS
<1>2. n \in Nat /\ n + 1 \in DOMAIN W /\ DOMAIN W \subseteq 0 .. n + 1 /\ DOMAIN W \subseteq Nat
  BY <1>1 DEF Worded, Blanks
<1>3. W[n + 1] = x
  <2>1. n + 1 \in Blanks(s) \cup {Len(s) + 1} /\ (n + 1) - 1 = Len(s)
    BY <1>1
  <2> QED
    BY <1>1, <2>1 DEF Worded
<1>4. LastValue(W, "s", p) = IF Name(x) = <<"s">> THEN Value(x) ELSE ValueBy(W, n, "s", p)
  <2>1. ValueBy(W, n + 1, "s", p) = LastValue(W, "s", p)
    BY <1>2, AllWords
  <2>2. ValueBy(W, n + 1, "s", p) =
          IF Name(W[n + 1]) = <<"s">> THEN Value(W[n + 1]) ELSE ValueBy(W, n, "s", p)
    BY <1>2, NextWord
  <2> QED
    BY <1>3, <2>1, <2>2, Zenon
<1>5. LastValue(W, "k", k) = IF Name(x) = <<"k">> THEN Value(x) ELSE ValueBy(W, n, "k", k)
  <2>1. ValueBy(W, n + 1, "k", k) = LastValue(W, "k", k)
    BY <1>2, AllWords
  <2>2. ValueBy(W, n + 1, "k", k) =
          IF Name(W[n + 1]) = <<"k">> THEN Value(W[n + 1]) ELSE ValueBy(W, n, "k", k)
    BY <1>2, NextWord
  <2> QED
    BY <1>3, <2>1, <2>2, Zenon
<1>6. conf = [path |-> ValueBy(W, n, "s", p), key |-> ValueBy(W, n, "k", k)]
  BY <1>1 DEF SetBy
<1>7. parse_argument(x, conf) =
        [path |-> IF Name(x) = <<"s">> THEN Value(x) ELSE ValueBy(W, n, "s", p),
         key  |-> IF Name(x) = <<"k">> THEN Value(x) ELSE ValueBy(W, n, "k", k)]
  BY <1>6, ParseIs
<1>8. x = <<>> => parse_argument(x, conf) = conf
  BY <1>6, <1>7, NoName
<1> QED
  BY <1>1, <1>4, <1>5, <1>7, <1>8

\* What is set in the end is what the words say.
LEMMA WordsTaken ==
  ASSUME NEW E, NEW s \in Seq(E), Chars(s), Tidy(s), NEW p, NEW k, NEW c, c = [path |-> p, key |-> k]
  PROVE  /\ parse_arguments(s, c).conf.path = LastValue(Words(s), "s", p)
         /\ parse_arguments(s, c).conf.key = LastValue(Words(s), "k", k)
<1>0. Len(s) \in Nat
  OBVIOUS
<1>1. PICK g : /\ Looped(s, c, g)
               /\ parse_arguments(s, c).conf =
                     IF g[Len(s)].bad \/ g[Len(s)].word = <<>> THEN g[Len(s)].conf
                     ELSE parse_argument(g[Len(s)].word \o SubSeq(s, g[Len(s)].at + 1, Len(s)),
                                         g[Len(s)].conf)
  BY <1>0, LoopIs
<1>2. PICK w : Worded(s, w)
  BY <1>0, WordsAre
<1>3. Tracked(E, s, c, w, Len(s), g[Len(s)])
  BY <1>1, <1>2, TrackedAll
<1>4. PICK at : Fits(E, s, c, w, Len(s), g[Len(s)], at)
  BY <1>3 DEF Tracked
<1>5. PICK n, x, conf, all : /\ n = Len(s) /\ x = w[Len(s)] /\ conf = SetBy(Words(s), Len(s), c)
                             /\ all = parse_argument(x, conf)
  OBVIOUS
<1>6. /\ at \in Nat /\ at <= n /\ (Plain(s) => at = n) /\ x \in Seq(E)
      /\ g[n] = At(n, at, x, QuoteAt(s)[n + 1], FALSE, conf)
  BY <1>4, <1>5 DEF Fits
<1>7. parse_arguments(s, c).conf =
        IF x = <<>> THEN conf ELSE parse_argument(x \o SubSeq(s, at + 1, n), conf)
  <2>1. ~g[n].bad /\ g[n].word = x /\ g[n].conf = conf /\ g[n].at = at
    BY <1>6 DEF At
  <2> QED
    BY <1>1, <1>5, <2>1
<1>8. /\ all.path = LastValue(Words(s), "s", p) /\ all.key = LastValue(Words(s), "k", k)
      /\ x = <<>> => all = conf
  BY <1>0, <1>2, <1>5, LastWord
<1>9. CASE Plain(s)
  <2>1. SubSeq(s, at + 1, n) = <<>>
    BY <1>0, <1>5, <1>6, <1>9
  <2>2. x \o <<>> = x
    BY <1>6
  <2>3. parse_arguments(s, c).conf = all
    BY <1>5, <1>7, <1>8, <2>1, <2>2, Zenon
  <2> QED
    BY <1>8, <2>3
<1>10. CASE ~Plain(s)
  <2>1. s # <<>> /\ s[n] = Blank /\ QuoteAt(s)[n] = NoQuote
    <3>1. Range(s) \cap (Quotes \cup {Blank}) # {}
      BY <1>10 DEF Plain, Range
    <3> QED
      BY <1>5, <3>1 DEF Tidy, Last
  <2>2. n \in Nat /\ n >= 1 /\ n \in 1 .. Len(s)
    BY <1>5, <2>1
  <2>3. n \in Blanks(s)
    BY <2>1, <2>2 DEF Blanks
  <2>4. PICK m : m \in 0 .. Len(s) - 1 /\ m + 1 = n
    <3>1. n - 1 \in 0 .. Len(s) - 1 /\ (n - 1) + 1 = n
      BY <1>5, <2>2
    <3> QED
      BY <3>1
  <2>5. w[n] = WordStep(s, n, w[m])
    BY <1>2, <2>4 DEF Worded
  <2>6. x = <<>>
    BY <1>5, <2>3, <2>5 DEF WordStep
  <2> QED
    BY <1>7, <1>8, <2>6
<1> QED
  BY <1>9, <1>10

\* The argument strings for which the code does what they say: characters,
\* at most one backslash, and the last argument ended where it is written.
GoodArguments == NoQuote \notin Alphabet /\ MaxEscapes <= 1 /\ ~LooseEnds

\* At most one backslash.
LEMMA FewEscapes ==
  ASSUME NEW s, Len(s) \in Nat, DOMAIN s = 1 .. Len(s),
         Cardinality({i \in DOMAIN s : s[i] = "\\"}) <= MaxEscapes, MaxEscapes <= 1
  PROVE  Single(s)
<1> DEFINE T == {i \in DOMAIN s : s[i] = "\\"}
<1>1. IsFiniteSet(T)
  <2>1. IsFiniteSet(1 .. Len(s)) /\ T \subseteq 1 .. Len(s)
    BY FS_Interval
  <2> QED
    BY <2>1, FS_Subset
<1>2. Cardinality(T) \in Nat /\ Cardinality(T) <= 1
  <2>1. Cardinality(T) \in Nat
    BY <1>1, FS_CardinalityType
  <2>2. MaxEscapes \in Nat
    BY ClientSetupAssumption
  <2> HIDE DEF T
  <2>3. Cardinality(T) <= MaxEscapes
    BY DEF T
  <2> QED
    BY <2>1, <2>2, <2>3
<1>3. T = {} \/ \E x : T = {x}
  <2> HIDE DEF T
  <2>1. Cardinality(T) = 0 \/ Cardinality(T) = 1
    BY <1>2
  <2> QED
    BY <1>1, <2>1, FS_EmptySet, FS_Singleton, Zenon
<1> QED
  BY <1>3 DEF Single

\* What is known of the strings that are tried.
LEMMA StringsAre ==
  ASSUME GoodArguments, NEW s \in Strings
  PROVE  /\ s \in Seq(Alphabet \cup {Blank})
         /\ \A i \in 1 .. Len(s) : s[i] # NoQuote
         /\ Single(s)
         /\ "\\" \notin Range(s) => Chars(s) /\ Tidy(s)
<1> DEFINE E == Alphabet \cup {Blank}
<1>1. \/ s \in SeqOf(Alphabet, MaxArgs)
      \/ \E t \in SeqOf(Alphabet, MaxArgs) : s = Append(t, Blank)
  BY DEF Strings
<1>2. SeqOf(Alphabet, MaxArgs) \subseteq Seq(E)
  BY ClientSetupAssumption DEF SeqOf
<1>3. s \in Seq(E)
  <2>1. Blank \in E
    OBVIOUS
  <2> HIDE DEF E
  <2> QED
    BY <1>1, <1>2, <2>1
<1>4. NoQuote \notin E
  BY Letters DEF GoodArguments
<1>5. \A i \in 1 .. Len(s) : s[i] # NoQuote
  <2> HIDE DEF E
  <2> QED
    BY <1>3, <1>4
<1>6. Cardinality({i \in DOMAIN s : s[i] = "\\"}) <= MaxEscapes
  BY DEF Strings
<1>7. Single(s)
  <2> HIDE DEF E
  <2>1. Len(s) \in Nat /\ DOMAIN s = 1 .. Len(s)
    BY <1>3
  <2> QED
    BY <1>6, <2>1, FewEscapes DEF GoodArguments
<1>8. ASSUME "\\" \notin Range(s) PROVE Chars(s) /\ Tidy(s)
  <2>1. Tidy(s)
    BY <1>8 DEF Strings, GoodArguments
  <2>2. DOMAIN s = 1 .. Len(s)
    <3> HIDE DEF E
    <3> QED
      BY <1>3
  <2>3. \A i \in 1 .. Len(s) : s[i] # "\\"
    BY <1>8, <2>2 DEF Range
  <2> QED
    BY <1>5, <2>1, <2>3 DEF Chars
<1> QED
  BY <1>3, <1>5, <1>7, <1>8

\* For every argument string of C_Initialize with at most one backslash and
\* a last argument that is ended where it is written, parse_arguments does
\* not write over what it has still to read, and, without a backslash, sets
\* the socket path and the key file to what the string says.
THEOREM ArgumentsAreTaken == GoodArguments /\ Spec => []ArgumentsTaken
<1> SUFFICES ASSUME GoodArguments PROVE Spec => []ArgumentsTaken
  OBVIOUS
<1>1. Init => ArgumentsTaken
  BY DEF Init, ArgumentsTaken, NoProbe
<1>2. ArgumentsTaken /\ [Next]_vars => ArgumentsTaken'
  <2> SUFFICES ASSUME ArgumentsTaken, [Next]_vars PROVE ArgumentsTaken'
    OBVIOUS
  <2>1. CASE ~Try
    <3>1. probe' = probe
      BY <2>1, ProbeStays
    <3> QED
      BY <3>1 DEF ArgumentsTaken
  <2>2. CASE Try
    <3>1. SUFFICES ASSUME probe'.of = "args" PROVE ArgumentsTaken'
      BY DEF ArgumentsTaken
    <3>2. PICK s \in Strings, k \in {Empty, <<"C">>} :
            probe' = [of |-> "args", in |-> s, was |-> [path |-> k, key |-> k],
                      out |-> parse_arguments(s, [path |-> k, key |-> k])]
      BY <2>2, <3>1 DEF Try
    <3>3. PICK c, r : c = [path |-> k, key |-> k] /\ r = parse_arguments(s, c)
      OBVIOUS
    <3>4. probe'.in = s /\ probe'.was.path = k /\ probe'.was.key = k /\ probe'.out = r
      BY <3>2, <3>3
    <3>5. /\ s \in Seq(Alphabet \cup {Blank}) /\ \A i \in 1 .. Len(s) : s[i] # NoQuote
          /\ Single(s) /\ ("\\" \notin Range(s) => Chars(s) /\ Tidy(s))
      BY StringsAre
    <3>6. Len(s) \in Nat
      BY <3>5
    <3>7. r.inplace
      BY <3>3, <3>5, <3>6, InPlace, Zenon
    <3>8. ASSUME "\\" \notin Range(s)
          PROVE  r.conf.path = LastValue(Words(s), "s", k) /\ r.conf.key = LastValue(Words(s), "k", k)
      <4>1. PICK E : s \in Seq(E)
        BY <3>5
      <4>2. Chars(s) /\ Tidy(s)
        BY <3>5, <3>8
      <4>3. /\ parse_arguments(s, c).conf.path = LastValue(Words(s), "s", k)
            /\ parse_arguments(s, c).conf.key = LastValue(Words(s), "k", k)
        BY <3>3, <4>1, <4>2, WordsTaken
      <4> QED
        BY <3>3, <4>3
    <3> QED
      BY <3>4, <3>7, <3>8, Zenon DEF ArgumentsTaken
  <2> QED
    BY <2>1, <2>2
<1> QED
  BY <1>1, <1>2, PTL DEF Spec

-----------------------------------------------------------------------------
(* The key file.                                                           *)

\* A set of numbers with a bound has a greatest element.
LEMMA MaxBounded ==
  ASSUME NEW n \in Nat, NEW T, T \subseteq 0 .. n, T # {}
  PROVE  Max(T) \in T /\ \A y \in T : y <= Max(T)
<1>1. PICK U : U = {u \in Nat : \A y \in T : y <= u}
  OBVIOUS
<1>2. n \in U /\ U \subseteq Nat
  BY <1>1
<1>3. PICK x : x \in U /\ \A u \in U : x <= u
  BY <1>2, MinIs
<1>4. x \in Nat /\ \A y \in T : y <= x
  BY <1>1, <1>3
<1>5. x \in T
  <2>1. SUFFICES ASSUME x \notin T PROVE FALSE
    OBVIOUS
  <2>2. PICK y : y \in T
    OBVIOUS
  <2>3. x # 0
    BY <1>4, <2>1, <2>2
  <2>4. x - 1 \in Nat /\ \A z \in T : z <= x - 1
    BY <1>4, <2>1, <2>3
  <2>5. x - 1 \in U
    BY <1>1, <2>4
  <2> QED
    BY <1>3, <1>4, <2>5
<1>6. T \subseteq Nat
  OBVIOUS
<1>7. Max(T) = x
  BY <1>4, <1>5, <1>6, MaxIs
<1> QED
  BY <1>4, <1>5, <1>7

\* A line as _fgets finds it: with its end or, at the end of the file, without.
Ended(x, y) == y = x \/ y = x \o <<"\n">>

\* The end of a line is one character.
LEMMA EndOfLine ==
  ASSUME NEW E, "\n" \in E
  PROVE  <<"\n">> \in Seq(E) /\ Len(<<"\n">>) = 1 /\ <<"\n">>[1] = "\n"
  OBVIOUS

\* The characters of a line are the same with its end.
LEMMA EndedIs ==
  ASSUME NEW E, "\n" \in E, NEW x \in Seq(E), NEW y, Ended(x, y)
  PROVE  /\ y \in Seq(E) /\ Len(x) \in Nat /\ Len(y) \in {Len(x), Len(x) + 1}
         /\ \A i \in 1 .. Len(x) : y[i] = x[i]
         /\ Len(y) = Len(x) + 1 => y[Len(x) + 1] = "\n"
<1>1. PICK e : e = <<"\n">> /\ e \in Seq(E) /\ Len(e) = 1 /\ e[1] = "\n"
  BY EndOfLine
<1>2. y = x \/ y = x \o e
  BY <1>1 DEF Ended
<1>3. CASE y = x
  BY <1>3
<1>4. CASE y = x \o e
  BY <1>1, <1>4
<1> QED
  BY <1>2, <1>3, <1>4

\* The colon of a line is found in the same place with its end.
LEMMA SameColon ==
  ASSUME NEW E, "\n" \in E, NEW x \in Seq(E), NEW y, Ended(x, y)
  PROVE  Find(y, ":") = Find(x, ":")
<1>1. /\ Len(x) \in Nat /\ Len(y) \in {Len(x), Len(x) + 1}
      /\ \A i \in 1 .. Len(x) : y[i] = x[i]
      /\ Len(y) = Len(x) + 1 => y[Len(x) + 1] = "\n"
  BY EndedIs
<1>2. \A i : i \in 1 .. Len(y) /\ y[i] = ":" <=> i \in 1 .. Len(x) /\ x[i] = ":"
  <2>1. CASE Len(y) = Len(x)
    BY <1>1, <2>1
  <2>2. CASE Len(y) = Len(x) + 1
    <3>1. y[Len(x) + 1] # ":"
      BY <1>1, <2>2
    <3> QED
      BY <1>1, <2>2, <3>1
  <2> QED
    BY <1>1, <2>1, <2>2
<1>3. {i \in 1 .. Len(y) : y[i] = ":"} = {i \in 1 .. Len(x) : x[i] = ":"}
  BY <1>2
<1> QED
  BY <1>3, Zenon DEF Find

\* What is behind the colon is ended as the line is.
LEMMA SameRest ==
  ASSUME NEW E, "\n" \in E, NEW x \in Seq(E), NEW y, Ended(x, y), NEW p \in 1 .. Len(x)
  PROVE  /\ SubSeq(x, p + 1, Len(x)) \in Seq(E)
         /\ Ended(SubSeq(x, p + 1, Len(x)), SubSeq(y, p + 1, Len(y)))
<1>0. PICK a, b : a = SubSeq(x, p + 1, Len(x)) /\ b = SubSeq(y, p + 1, Len(y))
  OBVIOUS
<1>1. /\ y \in Seq(E) /\ Len(x) \in Nat /\ Len(y) \in {Len(x), Len(x) + 1}
      /\ \A i \in 1 .. Len(x) : y[i] = x[i]
      /\ Len(y) = Len(x) + 1 => y[Len(x) + 1] = "\n"
  BY EndedIs
<1>2. a \in Seq(E) /\ Len(a) = Len(x) - p /\ \A i \in 1 .. Len(x) - p : a[i] = x[i + p]
  BY <1>0, Parted
<1>3. b \in Seq(E) /\ Len(b) = Len(y) - p /\ \A i \in 1 .. Len(y) - p : b[i] = y[i + p]
  <2>1. p \in 1 .. Len(y)
    BY <1>1
  <2> QED
    BY <1>0, <1>1, <2>1, Parted
<1>4. CASE Len(y) = Len(x)
  <2>1. Len(a) = Len(b) /\ \A i \in 1 .. Len(a) : a[i] = b[i]
    BY <1>1, <1>2, <1>3, <1>4
  <2>2. a = b
    BY <1>2, <1>3, <2>1, SameSeq
  <2> QED
    BY <1>0, <1>2, <2>2 DEF Ended
<1>5. CASE Len(y) = Len(x) + 1
  <2>1. PICK e : e = <<"\n">>
    OBVIOUS
  <2>2. e \in Seq(E) /\ Len(e) = 1 /\ e[1] = "\n"
    BY <2>1, EndOfLine
  <2>3. Len(b) = Len(a) + Len(e)
    BY <1>1, <1>2, <1>3, <1>5, <2>2
  <2>4. ASSUME NEW i \in 1 .. Len(b) PROVE b[i] = IF i <= Len(a) THEN a[i] ELSE e[i - Len(a)]
    <3>1. CASE i <= Len(a)
      BY <1>1, <1>2, <1>3, <1>5, <3>1
    <3>2. CASE ~(i <= Len(a))
      <4>1. i = Len(a) + 1 /\ i - Len(a) = 1 /\ i + p = Len(x) + 1
        <5>1. Len(b) = Len(a) + 1 /\ Len(a) = Len(x) - p /\ Len(a) \in Nat /\ Len(x) \in Nat
          BY <1>1, <1>2, <2>2, <2>3
        <5> QED
          BY <3>2, <5>1
      <4>2. b[i] = "\n"
        BY <1>1, <1>3, <1>5, <4>1
      <4> QED
        BY <2>2, <3>2, <4>1, <4>2
    <3> QED
      BY <3>1, <3>2
  <2>5. b = a \o e
    BY <1>2, <1>3, <2>2, <2>3, <2>4, ConcatIs
  <2> QED
    BY <1>0, <1>2, <2>1, <2>5 DEF Ended
<1> QED
  BY <1>1, <1>4, <1>5

\* The key text of a line without the carriage returns behind it.
HexOf(t) == SubSeq(t, 1, Max({i \in DOMAIN t : t[i] # "\r"} \cup {0}))

\* Trim leaves that, or one character that is no key.
LEMMA TrimIs ==
  ASSUME NEW E, "\n" \in E, NEW t \in Seq(E), \A i \in 1 .. Len(t) : t[i] # "\n", NEW y, Ended(t, y)
  PROVE  /\ HexOf(t) \in Seq(E)
         /\ Trim(y) = HexOf(t) \/ (HexOf(t) = <<>> /\ Len(Trim(y)) = 1)
<1>1. /\ y \in Seq(E) /\ Len(t) \in Nat /\ Len(y) \in {Len(t), Len(t) + 1}
      /\ \A i \in 1 .. Len(t) : y[i] = t[i]
      /\ Len(y) = Len(t) + 1 => y[Len(t) + 1] = "\n"
  BY EndedIs
<1>2. PICK R, K, M, N : /\ R = {i \in DOMAIN t : t[i] # "\r"} \cup {0} /\ M = Max(R)
                        /\ K = {i \in DOMAIN y : i = 1 \/ y[i] \notin {"\n", "\r"}} \cup {0}
                        /\ N = Max(K)
  OBVIOUS
<1>3. DOMAIN t = 1 .. Len(t) /\ DOMAIN y = 1 .. Len(y) /\ Len(y) \in Nat
  BY <1>1
<1>4. \A i : i \in R <=> i = 0 \/ (i \in 1 .. Len(t) /\ t[i] # "\r")
  BY <1>2, <1>3, Zenon
<1>5. \A i : i \in K <=> i = 0 \/ (i \in 1 .. Len(y) /\ (i = 1 \/ y[i] \notin {"\n", "\r"}))
  BY <1>2, <1>3, Zenon
<1>6. M \in R /\ (\A i \in R : i <= M) /\ M \in 0 .. Len(t)
  <2>1. R \subseteq 0 .. Len(t) /\ R # {}
    <3>1. \A i \in R : i \in 0 .. Len(t)
      BY <1>1, <1>4
    <3> QED
      BY <1>4, <3>1, Zenon
  <2>2. M \in R /\ \A i \in R : i <= M
    BY <1>1, <1>2, <2>1, MaxBounded, Zenon
  <2> QED
    BY <2>1, <2>2
<1>7. N \in K /\ (\A i \in K : i <= N) /\ N \in 0 .. Len(y) /\ K \subseteq Nat
  <2>1. K \subseteq 0 .. Len(y) /\ K # {}
    <3>1. \A i \in K : i \in 0 .. Len(y)
      BY <1>3, <1>5
    <3> QED
      BY <1>5, <3>1, Zenon
  <2>2. N \in K /\ \A i \in K : i <= N
    BY <1>2, <1>3, <2>1, MaxBounded, Zenon
  <2> QED
    BY <1>3, <2>1, <2>2
<1>8. HexOf(t) = SubSeq(t, 1, M) /\ Trim(y) = SubSeq(y, 1, N)
  BY <1>2, Zenon DEF HexOf, Trim
<1>9. \A i \in K : i <= 1 \/ i \in R
  <2> SUFFICES ASSUME NEW i \in K, ~(i <= 1) PROVE i \in R
    OBVIOUS
  <2>1. i \in 1 .. Len(y) /\ i # 1 /\ y[i] # "\n" /\ y[i] # "\r"
    BY <1>3, <1>5
  <2>2. i \in 1 .. Len(t)
    BY <1>1, <2>1
  <2> QED
    BY <1>1, <1>4, <2>1, <2>2
<1>10. SubSeq(t, 1, M) \in Seq(E)
  BY <1>1, <1>6
<1>11. CASE M = 0
  <2>1. HexOf(t) = <<>>
    BY <1>8, <1>11
  <2>2. N = 0 \/ N = 1
    BY <1>6, <1>7, <1>9, <1>11
  <2>3. CASE N = 0
    <3>1. Trim(y) = <<>>
      BY <1>8, <2>3
    <3> QED
      BY <1>8, <1>10, <2>1, <3>1
  <2>4. CASE N = 1
    <3>1. Len(Trim(y)) = 1
      <4>1. Len(SubSeq(y, 1, 1)) = 1
        <5>1. y \in Seq(E) /\ Len(y) >= 1
          <6>1. N \in 0 .. Len(y) /\ N = 1
            BY <1>7, <2>4, Zenon
          <6>2. Len(y) >= 1
            BY <1>3, <6>1
          <6> QED
            BY <1>1, <6>2
        <5> QED
          BY <5>1
      <4> QED
        BY <1>8, <2>4, <4>1
    <3> QED
      BY <1>8, <1>10, <2>1, <3>1
  <2> QED
    BY <2>2, <2>3, <2>4
<1>12. CASE M # 0
  <2>1. M \in 1 .. Len(t) /\ t[M] # "\r" /\ t[M] # "\n" /\ M \in 1 .. Len(y) /\ y[M] = t[M]
    <3>1. M \in 1 .. Len(t) /\ t[M] # "\r"
      BY <1>6, <1>12, <1>4
    <3>2. t[M] # "\n"
      BY <3>1
    <3> QED
      BY <1>1, <3>1, <3>2
  <2>2. M \in K
    BY <1>5, <2>1
  <2>3. \A i \in K : i <= M
    BY <1>6, <1>7, <1>9, <2>1
  <2>4. N = M
    BY <1>2, <1>7, <2>2, <2>3, MaxIs
  <2>5. PICK a, b : a = SubSeq(t, 1, M) /\ b = SubSeq(y, 1, M)
    OBVIOUS
  <2>6. a \in Seq(E) /\ Len(a) = M /\ \A i \in 1 .. M : a[i] = t[i]
    BY <1>1, <2>1, <2>5
  <2>7. b \in Seq(E) /\ Len(b) = M /\ \A i \in 1 .. M : b[i] = y[i]
    BY <1>1, <2>1, <2>5
  <2>8. \A i \in 1 .. M : a[i] = b[i]
    BY <1>1, <2>1, <2>6, <2>7
  <2>9. a = b
    BY <2>6, <2>7, <2>8, SameSeq
  <2> QED
    BY <1>8, <1>10, <2>4, <2>5, <2>9
<1> QED
  BY <1>11, <1>12

\* A key that can be decoded, and what _tls_psk_decode_key makes of one.
Hex(h) == Range(h) \subseteq DOMAIN HexVal /\ Len(h) % 2 = 0 /\ Len(h) <= 2 * MaxPsk
Decoded(h, out) ==
  /\ out # <<>> =>
       /\ Hex(h) /\ Len(h) = 2 * Len(out)
       /\ \A i \in DOMAIN out : out[i] = 16 * HexVal[h[2 * i - 1]] + HexVal[h[2 * i]]
  /\ Hex(h) /\ h # <<>> => out # <<>>

\* _tls_psk_decode_key decodes the whole of a key that can be decoded.
LEMMA DecodeIs ==
  ASSUME NEW E, NEW h \in Seq(E)
  PROVE  /\ Decoded(h, _tls_psk_decode_key(h))
         /\ Len(h) \in {0, 1} => _tls_psk_decode_key(h) = <<>>
<1>1. PICK len, out : len = Len(h) /\ out = _tls_psk_decode_key(h)
  OBVIOUS
<1>2. len \in Nat /\ DOMAIN h = 1 .. len /\ MaxPsk \in Nat
  BY <1>1, ClientSetupAssumption
<1>3. Hex(h) <=> len % 2 = 0 /\ ~(len > 2 * MaxPsk) /\ ~(\E i \in DOMAIN h : h[i] \notin DOMAIN HexVal)
  <2>1. Range(h) \subseteq DOMAIN HexVal <=> ~(\E i \in DOMAIN h : h[i] \notin DOMAIN HexVal)
    BY DEF Range
  <2> QED
    BY <1>1, <1>2, <2>1 DEF Hex
<1>4. ~Hex(h) => out = <<>>
  BY <1>1, <1>2, <1>3 DEF _tls_psk_decode_key
<1>5. Hex(h) => out = [i \in 1 .. len \div 2 |-> 16 * HexVal[h[2 * i - 1]] + HexVal[h[2 * i]]]
  BY <1>1, <1>2, <1>3 DEF _tls_psk_decode_key
<1>6. PICK half \in Nat : half = len \div 2 /\ (len % 2 = 0 => len = 2 * half)
  BY <1>2
<1>7. Hex(h) => len = 2 * half
  BY <1>3, <1>6
<1>8. CASE Hex(h)
  <2>1. /\ DOMAIN out = 1 .. half
        /\ \A i \in 1 .. half : out[i] = 16 * HexVal[h[2 * i - 1]] + HexVal[h[2 * i]]
    BY <1>5, <1>6, <1>8
  <2>2. Len(out) = half
    BY <1>6, <2>1
  <2>3. half = 0 => out = <<>>
    BY <2>1
  <2>4. h # <<>> => half # 0
    BY <1>1, <1>2, <1>7, <1>8
  <2>5. half # 0 => out # <<>>
    BY <2>1
  <2>6. len \in {0, 1} => half = 0
    BY <1>6, <1>7, <1>8
  <2> QED
    BY <1>1, <1>7, <1>8, <2>1, <2>2, <2>3, <2>4, <2>5, <2>6 DEF Decoded
<1>9. CASE ~Hex(h)
  BY <1>1, <1>4, <1>9 DEF Decoded
<1> QED
  BY <1>8, <1>9

\* A key file is lines of characters; no line has the end of one in it.
GoodFile(f) ==
  /\ f.lines \in Seq(Seq(STRING))
  /\ \A n \in 1 .. Len(f.lines) : \A i \in 1 .. Len(f.lines[n]) : f.lines[n][i] # "\n"

\* The lines _tls_psk_server_cb takes, and the ones that are meant.
Takes(f, id, n) ==
  LET k == Find(_fgets(f, n), ":")
  IN  k # 0 /\ (id = <<>> \/ SubSeq(f.lines[n], 1, k - 1) = id)
TakenLines(f, id) ==
  {n \in DOMAIN f.lines :
     Takes(f, id, n) /\ \A m \in {i \in DOMAIN f.lines : _fgets(f, i) = <<>>} : n < m}
MeantLines(f, id) ==
  {n \in DOMAIN f.lines :
     LET k == Find(f.lines[n], ":")
     IN  k # 0 /\ id \in {<<>>, SubSeq(f.lines[n], 1, k - 1)}}

\* _tls_psk_server_cb takes the first of these lines.
LEMMA CallbackIs ==
  ASSUME NEW f, NEW id
  PROVE  LET line == _fgets(f, Min(TakenLines(f, id)))
         IN  _tls_psk_server_cb(f, id) =
               IF TakenLines(f, id) = {} THEN <<>>
               ELSE _tls_psk_decode_key(Trim(SubSeq(line, Find(line, ":") + 1, Len(line))))
  BY DEF _tls_psk_server_cb, TakenLines, Takes, Find, SelectInSeq

\* What is meant by the key of an identity.
KeyIs(f, id, out) ==
  LET lines == f.lines
      hits  == MeantLines(f, id)
      n0    == Min(hits)
      h     == HexOf(SubSeq(lines[n0], Find(lines[n0], ":") + 1, Len(lines[n0])))
      short == \A n \in 1 .. n0 : Len(lines[n]) + 1 < LineBuf
  IN  /\ out # <<>> =>
           /\ hits # {} /\ Hex(h) /\ Len(h) = 2 * Len(out)
           /\ \A i \in DOMAIN out : out[i] = 16 * HexVal[h[2 * i - 1]] + HexVal[h[2 * i]]
      /\ hits # {} /\ short /\ Hex(h) /\ h # <<>> => out # <<>>

\* KeyRight says this of what was tried.
LEMMA KeyRightIs == KeyRight <=> (probe.of = "psk" => KeyIs(probe.file, probe.id, probe.out))
  BY DEF KeyRight, KeyIs, MeantLines, HexOf, Hex, Find, SelectInSeq

\* A sequence over a set is one over a larger set.
LEMMA SeqGrows ==
  ASSUME NEW A, NEW B, A \subseteq B, NEW x \in Seq(A)
  PROVE  x \in Seq(B)
  OBVIOUS

\* A line of the file, with the characters of all lines and the end of one.
LEMMA LineIs ==
  ASSUME NEW f, GoodFile(f), NEW n \in DOMAIN f.lines
  PROVE  /\ f.lines[n] \in Seq(STRING \cup {"\n"})
         /\ \A i \in 1 .. Len(f.lines[n]) : f.lines[n][i] # "\n"
         /\ n \in 1 .. Len(f.lines) /\ Len(f.lines) \in Nat
         /\ Ended(f.lines[n], Bytes(f, n))
         /\ _fgets(f, n) # <<>> => _fgets(f, n) = Bytes(f, n)
         /\ Len(f.lines[n]) + 1 < LineBuf => _fgets(f, n) = Bytes(f, n)
         /\ n < Len(f.lines) => Bytes(f, n) # <<>>
<1>1. PICK ls, x, E : ls = f.lines /\ x = f.lines[n] /\ E = STRING \cup {"\n"}
  OBVIOUS
<1>2. ls \in Seq(Seq(STRING))
  BY <1>1 DEF GoodFile
<1>3. n \in 1 .. Len(ls) /\ Len(ls) \in Nat /\ x \in Seq(STRING)
  BY <1>1, <1>2
<1>4. x \in Seq(E)
  <2>1. STRING \subseteq E
    BY <1>1, Zenon
  <2> QED
    BY <1>3, <2>1, SeqGrows, Zenon
<1>5. \A i \in 1 .. Len(x) : x[i] # "\n"
  BY <1>1, <1>3 DEF GoodFile
<1>6. PICK y : y = Bytes(f, n)
  OBVIOUS
<1>7. y = x \o <<"\n">> \/ (y = x \o <<>> /\ ~(n < Len(ls)))
  BY <1>1, <1>6 DEF Bytes
<1>8. x \o <<>> = x
  BY <1>4
<1>9. Ended(x, y)
  BY <1>7, <1>8 DEF Ended
<1>10. "\n" \in E
  BY <1>1
<1>11. /\ y \in Seq(E) /\ Len(x) \in Nat /\ Len(y) \in {Len(x), Len(x) + 1}
  BY <1>4, <1>9, <1>10, EndedIs
<1>12. Len(x) + 1 < LineBuf => Len(y) < LineBuf
  BY <1>11, ClientSetupAssumption
<1>13. /\ _fgets(f, n) # <<>> => _fgets(f, n) = y
       /\ Len(x) + 1 < LineBuf => _fgets(f, n) = y
  BY <1>6, <1>12 DEF _fgets
<1>14. n < Len(ls) => y # <<>>
  <2>1. PICK e : e = <<"\n">> /\ e \in Seq(E) /\ Len(e) = 1
    BY <1>10, EndOfLine
  <2>2. ASSUME y = x \o e PROVE Len(y) = Len(x) + 1
    BY <1>4, <2>1, <2>2
  <2>3. ASSUME y = x \o e PROVE y # <<>>
    BY <1>11, <2>2, <2>3
  <2> QED
    BY <1>7, <2>1, <2>3
<1> QED
  BY <1>1, <1>3, <1>4, <1>5, <1>6, <1>9, <1>13, <1>14, Zenon

\* A line that is taken is meant; a line that is meant is taken if it and the
\* ones before it are read.
LEMMA TakenMeant ==
  ASSUME NEW f, GoodFile(f), NEW id, NEW n \in DOMAIN f.lines
  PROVE  /\ Takes(f, id, n) => n \in MeantLines(f, id) /\ _fgets(f, n) = Bytes(f, n)
         /\ n \in MeantLines(f, id) /\ _fgets(f, n) = Bytes(f, n) => Takes(f, id, n)
         /\ Find(Bytes(f, n), ":") = Find(f.lines[n], ":")
         /\ Takes(f, id, n) => _fgets(f, n) # <<>>
<1>1. PICK x, y, E : x = f.lines[n] /\ y = Bytes(f, n) /\ E = STRING \cup {"\n"}
  OBVIOUS
<1>2. x \in Seq(E) /\ Ended(x, y) /\ (_fgets(f, n) # <<>> => _fgets(f, n) = y)
  BY <1>1, LineIs, Zenon
<1>3. Find(y, ":") = Find(x, ":")
  <2>1. "\n" \in E
    BY <1>1
  <2> QED
    BY <1>2, <2>1, SameColon
<1>4. Find(<<>>, ":") = 0
  <2>1. {i \in 1 .. Len(<<>>) : <<>>[i] = ":"} = {}
    OBVIOUS
  <2> QED
    BY <2>1 DEF Find
<1>5. Takes(f, id, n) => _fgets(f, n) # <<>>
  BY <1>4, Zenon DEF Takes
<1>6. _fgets(f, n) = y => (Takes(f, id, n) <=> n \in MeantLines(f, id))
  BY <1>1, <1>3, Zenon DEF Takes, MeantLines
<1> QED
  BY <1>1, <1>2, <1>3, <1>5, <1>6, Zenon

\* The key of the first line for an identity, and the whole of it, is found.
LEMMA KeyTaken ==
  ASSUME NEW f, GoodFile(f), NEW id
  PROVE  KeyIs(f, id, _tls_psk_server_cb(f, id))
<1>1. PICK H, M, a, m : /\ H = TakenLines(f, id) /\ M = MeantLines(f, id)
                        /\ a = Min(H) /\ m = Min(M)
  OBVIOUS
<1>2. Len(f.lines) \in Nat /\ DOMAIN f.lines = 1 .. Len(f.lines)
  BY DEF GoodFile
<1>3. H \subseteq M /\ M \subseteq 1 .. Len(f.lines) /\ M \subseteq Nat
  <2>1. H \subseteq M
    BY <1>1, TakenMeant DEF TakenLines
  <2>2. M \subseteq 1 .. Len(f.lines)
    BY <1>1, <1>2, Zenon DEF MeantLines
  <2> QED
    BY <2>1, <2>2
<1>4. M # {} => m \in M /\ \A n \in M : m <= n
  BY <1>1, <1>3, MinIs
<1>5. H # {} => a \in H /\ \A n \in H : a <= n
  <2>1. H \subseteq Nat
    BY <1>3
  <2> QED
    BY <1>1, <2>1, MinIs
\* The first line that is taken is the first one that is meant.
<1>6. H # {} => M # {} /\ a = m
  <2> SUFFICES ASSUME H # {} PROVE M # {} /\ a = m
    OBVIOUS
  <2>1. a \in H /\ a \in M /\ M # {} /\ m \in M /\ m <= a /\ a \in Nat /\ m \in Nat
    BY <1>3, <1>4, <1>5
  <2>2. \A i \in DOMAIN f.lines : _fgets(f, i) = <<>> => a < i
    BY <1>1, <2>1 DEF TakenLines
  <2>3. m \in DOMAIN f.lines /\ _fgets(f, m) # <<>>
    <3>1. m \in DOMAIN f.lines
      BY <1>2, <1>3, <2>1
    <3>2. ~(a < m)
      BY <2>1
    <3> QED
      BY <2>2, <3>1, <3>2
  <2>4. Takes(f, id, m)
    BY <1>1, <2>1, <2>3, LineIs, TakenMeant, Zenon
  <2>5. \A i \in DOMAIN f.lines : _fgets(f, i) = <<>> => m < i
    <3> SUFFICES ASSUME NEW i \in DOMAIN f.lines, _fgets(f, i) = <<>> PROVE m < i
      OBVIOUS
    <3>1. a < i /\ i \in Nat
      BY <1>2, <2>2
    <3> QED
      BY <2>1, <3>1
  <2>6. m \in H
    BY <1>1, <2>3, <2>4, <2>5, Zenon DEF TakenLines
  <2> QED
    BY <1>5, <2>1, <2>6
\* It is taken when it and the lines before it fit the buffer.
<1>7. ASSUME M # {}, \A n \in 1 .. m : Len(f.lines[n]) + 1 < LineBuf
      PROVE  H # {}
  <2>1. m \in M /\ m \in Nat /\ m \in 1 .. Len(f.lines) /\ m \in DOMAIN f.lines
    BY <1>2, <1>3, <1>4, <1>7
  <2>2. \A n \in 1 .. m : n \in DOMAIN f.lines /\ _fgets(f, n) = Bytes(f, n)
    <3> SUFFICES ASSUME NEW n \in 1 .. m PROVE n \in DOMAIN f.lines /\ _fgets(f, n) = Bytes(f, n)
      OBVIOUS
    <3>1. n \in DOMAIN f.lines
      BY <1>2, <2>1
    <3> QED
      BY <1>7, <3>1, LineIs
  <2>3. m \in 1 .. m
    BY <2>1
  <2>4. Takes(f, id, m) /\ _fgets(f, m) # <<>>
    BY <1>1, <2>1, <2>2, <2>3, TakenMeant, Zenon
  <2>5. ASSUME NEW i \in DOMAIN f.lines, _fgets(f, i) = <<>> PROVE m < i
    <3>1. SUFFICES ASSUME ~(m < i) PROVE FALSE
      OBVIOUS
    <3>2. i \in 1 .. m /\ i # m
      BY <1>2, <2>1, <2>4, <2>5, <3>1
    <3>3. i < Len(f.lines)
      BY <1>2, <2>1, <3>2
    <3>4. Bytes(f, i) # <<>>
      BY <2>5, <3>3, LineIs
    <3> QED
      BY <2>2, <2>5, <3>2, <3>4
  <2>6. m \in H
    BY <1>1, <2>1, <2>4, <2>5, Zenon DEF TakenLines
  <2> QED
    BY <2>6
<1>8. PICK out : out = _tls_psk_server_cb(f, id)
  OBVIOUS
<1>9. PICK x, p, t, h : /\ x = f.lines[m] /\ p = Find(x, ":")
                        /\ t = SubSeq(x, p + 1, Len(x)) /\ h = HexOf(t)
  OBVIOUS
<1>10. H # {} => Decoded(h, out)
  <2> SUFFICES ASSUME H # {} PROVE Decoded(h, out)
    OBVIOUS
  <2>1. a = m /\ m \in H /\ m \in DOMAIN f.lines
    BY <1>1, <1>5, <1>6 DEF TakenLines
  <2>2. PICK y, E : y = Bytes(f, m) /\ E = STRING \cup {"\n"}
    OBVIOUS
  <2>3. _fgets(f, m) = y /\ Find(y, ":") = p /\ p # 0
    <3>1. Takes(f, id, m)
      BY <1>1, <2>1, Zenon DEF TakenLines
    <3>2. _fgets(f, m) = y /\ Find(y, ":") = p
      BY <1>9, <2>1, <2>2, <3>1, TakenMeant, Zenon
    <3> QED
      BY <3>1, <3>2, Zenon DEF Takes
  <2>4. out = _tls_psk_decode_key(Trim(SubSeq(y, p + 1, Len(y))))
    BY <1>1, <1>8, <2>1, <2>3, CallbackIs, Zenon
  <2>5. x \in Seq(E) /\ Ended(x, y) /\ \A i \in 1 .. Len(x) : x[i] # "\n"
    BY <1>9, <2>1, <2>2, LineIs, Zenon
  <2>6. "\n" \in E
    BY <2>2
  <2> HIDE <2>2
  <2>7. Len(x) \in Nat /\ p \in 1 .. Len(x)
    <3>1. Len(x) \in Nat
      BY <2>5
    <3> QED
      BY <1>9, <2>3, <3>1, FirstPlace
  <2>8. t \in Seq(E) /\ Ended(t, SubSeq(y, p + 1, Len(y)))
    BY <1>9, <2>5, <2>6, <2>7, SameRest, Zenon
  <2>9. \A i \in 1 .. Len(t) : t[i] # "\n"
    <3>1. Len(t) = Len(x) - p /\ \A i \in 1 .. Len(x) - p : t[i] = x[i + p]
      BY <1>9, <2>5, <2>7, Parted
    <3> QED
      BY <2>5, <2>7, <3>1
  <2>10. PICK u : u = Trim(SubSeq(y, p + 1, Len(y)))
    OBVIOUS
  <2>11. h \in Seq(E) /\ (u = h \/ (h = <<>> /\ Len(u) = 1))
    BY <1>9, <2>6, <2>8, <2>9, <2>10, TrimIs, Zenon
  <2>12. CASE u = h
    BY <2>4, <2>10, <2>11, <2>12, DecodeIs
  <2>13. CASE h = <<>> /\ Len(u) = 1
    <3>1. out = <<>>
      <4>1. Len(u) % 2 # 0
        BY <2>13
      <4>2. _tls_psk_decode_key(u) = <<>>
        BY <4>1, Zenon DEF _tls_psk_decode_key
      <4> QED
        BY <2>4, <2>10, <4>2, Zenon
    <3> QED
      BY <2>13, <3>1 DEF Decoded
  <2> QED
    BY <2>11, <2>12, <2>13
<1>11. H = {} => out = <<>>
  BY <1>1, <1>8, CallbackIs, Zenon
<1>12. KeyIs(f, id, out) <=>
        /\ out # <<>> =>
             /\ M # {} /\ Hex(h) /\ Len(h) = 2 * Len(out)
             /\ \A i \in DOMAIN out : out[i] = 16 * HexVal[h[2 * i - 1]] + HexVal[h[2 * i]]
        /\ M # {} /\ (\A n \in 1 .. m : Len(f.lines[n]) + 1 < LineBuf) /\ Hex(h) /\ h # <<>> => out # <<>>
  BY <1>1, <1>9, Zenon DEF KeyIs
<1>13. KeyIs(f, id, out)
  <2>1. CASE H = {}
    <3>1. ~(M # {} /\ (\A n \in 1 .. m : Len(f.lines[n]) + 1 < LineBuf))
      BY <1>7, <2>1
    <3> QED
      BY <1>11, <1>12, <2>1, <3>1, Zenon
  <2>2. CASE H # {}
    BY <1>6, <1>10, <1>12, <2>2, Zenon DEF Decoded
  <2> QED
    BY <2>1, <2>2
<1> QED
  BY <1>8, <1>13

\* For every key file and identity, the key that the TLS callbacks find is
\* the whole key of the first line for the identity, and they find it when
\* it is well formed and the lines up to it fit the buffer of _fgets.
THEOREM KeysAreRight == (\A f \in KeyFiles : GoodFile(f)) /\ Spec => []KeyRight
<1> SUFFICES ASSUME \A f \in KeyFiles : GoodFile(f) PROVE Spec => []KeyRight
  OBVIOUS
<1>1. Init => KeyRight
  BY KeyRightIs DEF Init, NoProbe
<1>2. KeyRight /\ [Next]_vars => KeyRight'
  <2> SUFFICES ASSUME KeyRight, [Next]_vars PROVE KeyRight'
    OBVIOUS
  <2>1. CASE ~Try
    <3>1. probe' = probe
      BY <2>1, ProbeStays
    <3>2. probe'.of = "psk" => KeyIs(probe'.file, probe'.id, probe'.out)
      BY <3>1, KeyRightIs
    <3> QED
      BY <3>2 DEF KeyRight, KeyIs, MeantLines, HexOf, Hex, Find, SelectInSeq
  <2>2. CASE Try
    <3>1. SUFFICES ASSUME probe'.of = "psk" PROVE KeyIs(probe'.file, probe'.id, probe'.out)
      BY DEF KeyRight, KeyIs, MeantLines, HexOf, Hex, Find, SelectInSeq
    <3>2. PICK f \in KeyFiles, id \in Identities :
            probe' = [of |-> "psk", file |-> f, id |-> id, out |-> _tls_psk_server_cb(f, id)]
      BY <2>2, <3>1 DEF Try
    <3>3. probe'.file = f /\ probe'.id = id /\ probe'.out = _tls_psk_server_cb(f, id)
      BY <3>2
    <3>4. KeyIs(f, id, _tls_psk_server_cb(f, id))
      BY KeyTaken
    <3> QED
      BY <3>3, <3>4, Zenon
  <2> QED
    BY <2>1, <2>2
<1> QED
  BY <1>1, <1>2, PTL DEF Spec

-----------------------------------------------------------------------------
(* All inputs.                                                             *)

\* Inputs for which the code promises something.
GoodInputs ==
  /\ "(null)" \notin HostChars
  /\ GoodArguments
  /\ \A f \in KeyFiles : GoodFile(f)

\* What the client module takes from the argument string of C_Initialize,
\* from the address and from the key file is what they say.
THEOREM InputsAreTaken == GoodInputs /\ Spec => []InputsTaken
<1> SUFFICES ASSUME GoodInputs PROVE Spec => []InputsTaken
  OBVIOUS
<1>1. Spec => []HostPortWhole
  BY AddressesWhole DEF GoodInputs
<1>2. Spec => []ArgumentsTaken
  BY ArgumentsAreTaken DEF GoodInputs
<1>3. Spec => []KeyRight
  BY KeysAreRight DEF GoodInputs
<1>4. ArgumentsTaken /\ HostPortWhole /\ KeyRight => InputsTaken
  BY DEF InputsTaken
<1> QED
  BY <1>1, <1>2, <1>3, <1>4, PTL
=============================================================================
