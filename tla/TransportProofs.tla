--------------------------- MODULE TransportProofs ---------------------------
(***************************************************************************)
(* Proofs about Transport, for any number of connections, any lengths, any *)
(* window and however sends and receives are cut up: a side that has read  *)
(* an item has read what the other one wrote as that item, and both sides  *)
(* stay in step.  It is proved for plain sockets, for TLS as long as       *)
(* connections are used one after the other, and for inetd as long as a    *)
(* read or write transfers all it is asked for and connections do not      *)
(* break.                                                                  *)
(***************************************************************************)
EXTENDS Transport, TLAPS

\* The kinds of bytes.
Octets == [conn : Conns, from : Ends, msg : Nat, kind : {"appid", "head", "body"},
           len : Nat, at : Nat]

Setup == {"SSL_new", "BIO_new", "SSL_set_bio", "SSL_accept"}
StepsOf(e) ==
  {"new", "rhead", "rbody", "whead", "wbody"} \cup Ended \cup
    (IF e = "client" THEN {"connect", "wappid", "idle"} ELSE Setup \cup {"rappid"})

\* What the loop of a side is at agrees with the item it transfers.
EndOK(e, x) ==
  /\ x \in [step : StepsOf(e), msg : Nat, len : Nat, left : Nat, have : Seq(Octets)]
  /\ x.step = "wappid" => x.left \in 1 .. AppidLen /\ x.msg = 0 /\ x.len = 0
  /\ x.step = "whead" => x.left \in 1 .. HeadLen /\ x.msg > 0 /\ x.len > 0
  /\ x.step = "wbody" => x.left \in 1 .. x.len /\ x.msg > 0 /\ x.len > 0
  /\ x.step = "rappid" => Len(x.have) + x.left = AppidLen /\ x.msg = 0
  /\ x.step = "rhead" => Len(x.have) + x.left = HeadLen /\ x.msg > 0
  /\ x.step = "rbody" => Len(x.have) + x.left = x.len /\ x.msg > 0 /\ x.len > 0

-----------------------------------------------------------------------------
(* Turns.  In its n-th turn a side sends its n-th message, and the client  *)
(* its application id before the first one.                                *)

Lead(e, n) == IF e = "client" /\ n = 1 THEN AppidLen ELSE 0
Total(e, n, len) == Lead(e, n) + HeadLen + len

\* Byte number p of the turn.
OctetAt(c, e, n, len, p) ==
  IF p <= Lead(e, n)
  THEN [conn |-> c, from |-> e, msg |-> 0, kind |-> "appid", len |-> 0, at |-> p]
  ELSE IF p <= Lead(e, n) + HeadLen
  THEN [conn |-> c, from |-> e, msg |-> n, kind |-> "head", len |-> len,
        at |-> p - Lead(e, n)]
  ELSE [conn |-> c, from |-> e, msg |-> n, kind |-> "body", len |-> len,
        at |-> p - Lead(e, n) - HeadLen]

\* Side e, which is at s, has sent w bytes of its turn n.
HasSent(e, s, n, len, w) ==
  \/ s.step = "wappid" /\ n = 1 /\ w = AppidLen - s.left
  \/ s.step = "idle" /\ s.msg = n - 1 /\ w = Lead(e, n)
  \/ s.step = "whead" /\ s.msg = n /\ s.len = len /\ w = Lead(e, n) + HeadLen - s.left
  \/ s.step = "wbody" /\ s.msg = n /\ s.len = len /\ w = Total(e, n, len) - s.left
  \/ s.step = "rhead" /\ s.have = <<>> /\ w = Total(e, n, len)
       /\ s.msg = (IF e = "client" THEN n ELSE n + 1)
  \/ s.step \in {"rhead", "rbody"} /\ w = 0
       /\ s.msg = (IF e = "client" THEN n - 1 ELSE n)
  \/ s.step = "rappid" /\ n = 1 /\ w = 0

\* The turn of the other side that a reader at r is in, and the bytes of that
\* turn before the item it is reading, and before those it has still to read.
Turn(r) == IF r.step = "rappid" THEN 1 ELSE r.msg
Before(e, r) ==
  IF r.step = "rappid" THEN 0
  ELSE IF r.step = "rhead" THEN Lead(e, r.msg) ELSE Lead(e, r.msg) + HeadLen
Taken(e, r) == Before(e, r) + Len(r.have)

\* What the reader has, and then what is in the pipe, are the bytes of the
\* turn from there on.
Carries(c, e, r, p, len) ==
  /\ \A i \in 1 .. Len(r.have) : r.have[i] = OctetAt(c, e, Turn(r), len, Before(e, r) + i)
  /\ \A i \in 1 .. Len(p) : p[i] = OctetAt(c, e, Turn(r), len, Taken(e, r) + i)
  /\ Taken(e, r) + Len(p) <= Total(e, Turn(r), len)
  /\ r.step = "rbody" => r.len = len

\* From side e, at s, to the other, at r, with p on the way.
Flow(c, e, s, r, p) ==
  Reading(r) =>
    \E len \in Nat \ {0} :
      /\ Carries(c, e, r, p, len)
      /\ s.step \in Ended \/ HasSent(e, s, Turn(r), len, Taken(e, r) + Len(p))

\* A connection with its client at x and its daemon at y, p on the way to the
\* daemon and q to the client.
ConnOK(c, x, y, p, q) ==
  /\ EndOK("client", x) /\ EndOK("daemon", y)
  /\ p \in Seq(Octets) /\ q \in Seq(Octets) /\ (p = <<>> \/ q = <<>>)
  /\ Flow(c, "client", x, y, p) /\ Flow(c, "daemon", y, x, q)
  /\ Writing(y) => p = <<>> /\ (x.step \in Ended \/ (Reading(x) /\ x.msg = y.msg))
  /\ Writing(x) \/ x.step = "idle" => q = <<>>
  /\ x.step = "new" <=> y.step = "new"
  /\ x.step \in {"new", "connect"} \/ y.step \in Setup => p = <<>> /\ q = <<>>
  /\ x.step = "connect" => y.step \in Setup \cup Ended
  /\ y.step \in Setup => x.step \in {"connect"} \cup Ended

Conn(c) ==
  ConnOK(c, ep[c]["client"], ep[c]["daemon"], pipe[c]["client"], pipe[c]["daemon"])

-----------------------------------------------------------------------------
(* The state of TLS that the threads of the daemon share.                  *)

Active(c) == \E e \in Ends : ep[c][e].step \notin {"new"} \cup Ended

TlsInv ==
  mode = "tls" =>
    /\ \A c, d \in Conns : Active(c) /\ Active(d) => c = d
    /\ \A c \in Conns :
         LET y == ep[c]["daemon"]
         IN  /\ y.step = "BIO_new" => ssl = c
             /\ y.step = "SSL_set_bio" => ssl = c /\ bio = c
             /\ y.step = "SSL_accept" \/ Running(y) => ssl = c /\ sslbio[c] = c

-----------------------------------------------------------------------------
(* Items and pieces of them.                                               *)

\* Which steps read and which write.
LEMMA Kinds ==
  ASSUME NEW x
  PROVE  /\ Writing(x) <=> x.step \in {"wappid", "whead", "wbody"}
         /\ Reading(x) <=> x.step \in {"rappid", "rhead", "rbody"}
         /\ Writes["wappid"] = "appid" /\ Writes["whead"] = "head" /\ Writes["wbody"] = "body"
         /\ Reads["rappid"] = "appid" /\ Reads["rhead"] = "head" /\ Reads["rbody"] = "body"
<1>1. DOMAIN Writes = {"wappid", "whead", "wbody"}
  BY DEF Writes
<1>2. DOMAIN Reads = {"rappid", "rhead", "rbody"}
  BY DEF Reads
<1> QED
  BY <1>1, <1>2 DEF Writing, Reading, Writes, Reads

LEMMA ItemIs ==
  ASSUME NEW c \in Conns, NEW e \in Ends, NEW n \in Nat, NEW len \in Nat,
         NEW kind \in {"appid", "head", "body"}
  PROVE  /\ Length(kind, len) \in Nat
         /\ Item(c, e, n, kind, len) \in Seq(Octets)
         /\ Len(Item(c, e, n, kind, len)) = Length(kind, len)
         /\ \A i \in 1 .. Length(kind, len) :
              Item(c, e, n, kind, len)[i]
                = [conn |-> c, from |-> e, msg |-> n, kind |-> kind, len |-> len, at |-> i]
<1>1. Length(kind, len) \in Nat
  BY TransportAssumption DEF Length
<1>2. \A i \in 1 .. Length(kind, len) :
        [conn |-> c, from |-> e, msg |-> n, kind |-> kind, len |-> len, at |-> i] \in Octets
  BY <1>1 DEF Octets
<1> HIDE DEF Octets
<1>3. Item(c, e, n, kind, len) \in Seq(Octets)
  BY <1>1, <1>2 DEF Item
<1>4. Len(Item(c, e, n, kind, len)) = Length(kind, len)
  BY <1>1, <1>3 DEF Item
<1> QED
  BY <1>1, <1>3, <1>4 DEF Item

\* A piece of a sequence, and two sequences put together.
LEMMA Portion ==
  ASSUME NEW S, NEW p \in Seq(S), NEW a \in Nat \ {0}, NEW b \in Nat, a <= b + 1, b <= Len(p)
  PROVE  /\ SubSeq(p, a, b) \in Seq(S) /\ Len(SubSeq(p, a, b)) = b - a + 1
         /\ \A i \in 1 .. b - a + 1 : SubSeq(p, a, b)[i] = p[a + i - 1]
  OBVIOUS

LEMMA Joined ==
  ASSUME NEW S, NEW p \in Seq(S), NEW s \in Seq(S)
  PROVE  /\ p \o s \in Seq(S) /\ Len(p \o s) = Len(p) + Len(s)
         /\ \A i \in 1 .. Len(p) + Len(s) :
              (p \o s)[i] = IF i <= Len(p) THEN p[i] ELSE s[i - Len(p)]
  OBVIOUS

LEMMA Sizes == AppidLen \in Nat /\ AppidLen > 0 /\ HeadLen \in Nat /\ HeadLen > 0
  BY TransportAssumption

\* The fields of a side.
LEMMA Fields ==
  ASSUME NEW e, NEW x, EndOK(e, x)
  PROVE  /\ x.step \in StepsOf(e) /\ x.msg \in Nat /\ x.len \in Nat /\ x.left \in Nat
         /\ x.have \in Seq(Octets) /\ Len(x.have) \in Nat
  BY DEF EndOK

\* A turn and the place in it are numbers.
LEMMA Places ==
  ASSUME NEW e, NEW f, NEW r, EndOK(f, r), Reading(r)
  PROVE  Turn(r) \in Nat \ {0} /\ Before(e, r) \in Nat /\ Taken(e, r) \in Nat
<1>1. r.step \in {"rappid", "rhead", "rbody"} /\ r.msg \in Nat /\ Len(r.have) \in Nat
  BY Kinds, Fields
<1>2. r.step # "rappid" => r.msg > 0
  BY <1>1 DEF EndOK
<1>3. \A k : Lead(e, k) \in Nat
  BY Sizes DEF Lead
<1>4. Before(e, r) \in Nat
  BY <1>1, <1>3, Sizes DEF Before
<1> QED
  BY <1>1, <1>2, <1>3, <1>4 DEF Turn, Taken

\* What is sent next is what comes next in the turn.
LEMMA SentNext ==
  ASSUME NEW c \in Conns, NEW e \in Ends, NEW s, EndOK(e, s), Writing(s),
         NEW n \in Nat \ {0}, NEW len \in Nat \ {0}, NEW w \in Nat, HasSent(e, s, n, len, w),
         NEW m \in 1 .. s.left
  PROVE  /\ Sent(c, e, s, m) \in Seq(Octets) /\ Len(Sent(c, e, s, m)) = m
         /\ \A i \in 1 .. m : Sent(c, e, s, m)[i] = OctetAt(c, e, n, len, w + i)
         /\ w + m <= Total(e, n, len)
<1> DEFINE kind == Writes[s.step]
           item == Item(c, e, s.msg, kind, s.len)
           done == Len(item) - s.left
           Rec(i) == [conn |-> c, from |-> e, msg |-> s.msg, kind |-> kind,
                      len |-> s.len, at |-> i]
<1>1. s.step \in {"wappid", "whead", "wbody"} /\ kind \in {"appid", "head", "body"}
  BY Kinds
<1>2. s.msg \in Nat /\ s.len \in Nat /\ s.left \in Nat
  BY Fields
<1>3. /\ item \in Seq(Octets) /\ Len(item) = Length(kind, s.len) /\ Len(item) \in Nat
      /\ \A i \in 1 .. Len(item) : item[i] = Rec(i)
  <2>1. item = Item(c, e, s.msg, kind, s.len)
    OBVIOUS
  <2> HIDE DEF kind, item
  <2>2. /\ item \in Seq(Octets) /\ Len(item) = Length(kind, s.len) /\ Len(item) \in Nat
    BY <1>1, <1>2, <2>1, ItemIs
  <2>3. \A i \in 1 .. Len(item) : item[i] = Rec(i)
    BY <1>1, <1>2, <2>1, <2>2, ItemIs
  <2> QED
    BY <2>2, <2>3
<1> HIDE DEF item
<1> DEFINE Fits == /\ done \in Nat /\ done + m <= Len(item)
                   /\ \A i \in 1 .. m : Rec(done + i) = OctetAt(c, e, n, len, w + i)
                   /\ w + m <= Total(e, n, len)
<1>4. ASSUME s.step = "wappid" PROVE Fits
  <2>1. /\ kind = "appid" /\ Len(item) = AppidLen /\ s.left \in 1 .. AppidLen
        /\ s.msg = 0 /\ s.len = 0
    BY <1>3, <1>4, Kinds DEF EndOK, Length
  <2>2. e = "client" /\ n = 1 /\ w = AppidLen - s.left
    BY <1>4, Fields DEF HasSent, StepsOf, Ended, Setup, Ends
  <2>3. Lead(e, n) = AppidLen
    BY <2>2 DEF Lead
  <2>4. w = done /\ done \in Nat /\ done + m <= Len(item)
    BY <2>1, <2>2, Sizes
  <2>5. \A i \in 1 .. m : Rec(done + i) = OctetAt(c, e, n, len, w + i)
    BY <2>1, <2>3, <2>4, Sizes DEF OctetAt
  <2>6. w + m <= Total(e, n, len)
    BY <2>1, <2>3, <2>4, Sizes DEF Total
  <2> QED
    BY <2>4, <2>5, <2>6
<1>5. ASSUME s.step = "whead" PROVE Fits
  <2>0. Lead(e, n) \in Nat
    BY Sizes DEF Lead
  <2>1. /\ kind = "head" /\ Len(item) = HeadLen /\ s.left \in 1 .. HeadLen
    BY <1>3, <1>5, Kinds DEF EndOK, Length
  <2>2. s.msg = n /\ s.len = len /\ w = Lead(e, n) + HeadLen - s.left
    BY <1>5 DEF HasSent
  <2>3. w = Lead(e, n) + done /\ done \in Nat /\ done + m <= HeadLen
    BY <1>2, <2>0, <2>1, <2>2, Sizes
  <2> HIDE DEF done
  <2>4. ASSUME NEW i \in 1 .. m PROVE Rec(done + i) = OctetAt(c, e, n, len, w + i)
    <3>0. i \in Nat /\ i >= 1 /\ i <= m /\ m \in Nat
      BY <1>2
    <3>1. /\ ~(w + i <= Lead(e, n)) /\ w + i <= Lead(e, n) + HeadLen
          /\ w + i - Lead(e, n) = done + i
      BY <2>0, <2>3, <3>0, Sizes
    <3>2. OctetAt(c, e, n, len, w + i)
            = [conn |-> c, from |-> e, msg |-> n, kind |-> "head", len |-> len, at |-> done + i]
      BY <2>0, <3>0, <3>1, Sizes DEF OctetAt
    <3> QED
      BY <2>1, <2>2, <3>2
  <2>5. w + m <= Total(e, n, len)
    BY <1>2, <2>0, <2>3, Sizes DEF Total
  <2> QED
    BY <2>1, <2>3, <2>4, <2>5
<1>6. ASSUME s.step = "wbody" PROVE Fits
  <2>0. Lead(e, n) \in Nat
    BY Sizes DEF Lead
  <2>1. /\ kind = "body" /\ Len(item) = s.len /\ s.left \in 1 .. s.len
    BY <1>3, <1>6, Kinds DEF EndOK, Length
  <2>2. s.msg = n /\ s.len = len /\ w = Total(e, n, len) - s.left
    BY <1>6 DEF HasSent
  <2>3. w = Lead(e, n) + HeadLen + done /\ done \in Nat /\ done + m <= len
    BY <1>2, <2>0, <2>1, <2>2, Sizes DEF Total
  <2> HIDE DEF done
  <2>4. ASSUME NEW i \in 1 .. m PROVE Rec(done + i) = OctetAt(c, e, n, len, w + i)
    <3>0. i \in Nat /\ i >= 1 /\ i <= m /\ m \in Nat
      BY <1>2
    <3>1. /\ ~(w + i <= Lead(e, n)) /\ ~(w + i <= Lead(e, n) + HeadLen)
          /\ w + i - Lead(e, n) - HeadLen = done + i
      BY <2>0, <2>3, <3>0, Sizes
    <3>2. OctetAt(c, e, n, len, w + i)
            = [conn |-> c, from |-> e, msg |-> n, kind |-> "body", len |-> len, at |-> done + i]
      BY <2>0, <3>0, <3>1, Sizes DEF OctetAt
    <3> QED
      BY <2>1, <2>2, <3>2
  <2>5. w + m <= Total(e, n, len)
    BY <1>2, <2>0, <2>3, Sizes DEF Total
  <2> QED
    BY <2>1, <2>2, <2>3, <2>4, <2>5
<1>7. Fits
  BY <1>1, <1>4, <1>5, <1>6
<1>8. done \in Nat /\ done + m <= Len(item) /\ m \in Nat /\ m > 0 /\ Len(item) \in Nat
  BY <1>2, <1>3, <1>7
<1>9. \A i \in 1 .. m : Rec(done + i) = OctetAt(c, e, n, len, w + i)
  BY <1>7
<1>10. w + m <= Total(e, n, len)
  BY <1>7
<1>11. Sent(c, e, s, m) = SubSeq(item, done + 1, done + m)
  BY DEF Sent, item
<1> HIDE DEF done, Fits
<1>12. /\ done + 1 \in Nat \ {0} /\ done + m \in Nat /\ done + 1 <= done + m + 1
      /\ done + m <= Len(item) /\ (done + m) - (done + 1) + 1 = m /\ m \in Nat
  BY <1>8
<1>13. /\ Sent(c, e, s, m) \in Seq(Octets) /\ Len(Sent(c, e, s, m)) = m
       /\ \A i \in 1 .. m : Sent(c, e, s, m)[i] = item[done + 1 + i - 1]
  <2> DEFINE a == done + 1
             b == done + m
  <2> HIDE DEF a, b
  <2>1. /\ SubSeq(item, a, b) \in Seq(Octets) /\ Len(SubSeq(item, a, b)) = b - a + 1
        /\ \A i \in 1 .. b - a + 1 : SubSeq(item, a, b)[i] = item[a + i - 1]
    BY <1>3, <1>12, Portion DEF a, b
  <2> QED
    BY <1>12, <1>11, <2>1 DEF a, b
<1>14. \A i \in 1 .. m : done + 1 + i - 1 = done + i /\ done + i \in 1 .. Len(item)
  BY <1>8
<1> QED
  BY <1>3, <1>9, <1>10, <1>13, <1>14

\* Bytes that are sent join those on the way.
LEMMA Pushed ==
  ASSUME NEW c \in Conns, NEW e \in Ends, NEW s, EndOK(e, s), Writing(s),
         NEW r, EndOK(Other(e), r), Reading(r), NEW p \in Seq(Octets),
         NEW len \in Nat \ {0}, Carries(c, e, r, p, len),
         HasSent(e, s, Turn(r), len, Taken(e, r) + Len(p)), NEW m \in 1 .. s.left
  PROVE  LET p2 == p \o Sent(c, e, s, m)
         IN  /\ p2 \in Seq(Octets) /\ Len(p2) = Len(p) + m
             /\ Carries(c, e, r, p2, len)
<1>0. Turn(r) \in Nat \ {0} /\ Taken(e, r) \in Nat /\ Len(p) \in Nat
  BY Places
<1> DEFINE d  == Sent(c, e, s, m)
           p2 == p \o d
           w  == Taken(e, r) + Len(p)
<1>11. w \in Nat /\ HasSent(e, s, Turn(r), len, w)
  BY <1>0
<1> HIDE DEF w
<1>1. /\ d \in Seq(Octets) /\ Len(d) = m
      /\ \A i \in 1 .. m : d[i] = OctetAt(c, e, Turn(r), len, w + i)
      /\ w + m <= Total(e, Turn(r), len)
  BY <1>0, <1>11, SentNext
<1> HIDE DEF d
<1>2. /\ p2 \in Seq(Octets) /\ Len(p2) = Len(p) + m
      /\ \A i \in 1 .. Len(p) + m : p2[i] = IF i <= Len(p) THEN p[i] ELSE d[i - Len(p)]
  BY <1>1, Joined
<1> HIDE DEF p2
<1>3. \A i \in 1 .. Len(p2) : p2[i] = OctetAt(c, e, Turn(r), len, Taken(e, r) + i)
  <2> SUFFICES ASSUME NEW i \in 1 .. Len(p2)
               PROVE  p2[i] = OctetAt(c, e, Turn(r), len, Taken(e, r) + i)
    OBVIOUS
  <2>1. CASE i <= Len(p)
    BY <1>0, <1>2, <2>1 DEF Carries
  <2>2. CASE i > Len(p)
    <3>1. i - Len(p) \in 1 .. m /\ Len(p) + (i - Len(p)) = i
      BY <1>0, <1>2, <2>2
    <3>2. w + (i - Len(p)) = Taken(e, r) + i
      BY <1>0 DEF w
    <3> QED
      BY <1>1, <1>2, <3>1, <3>2
  <2> QED
    BY <1>0, <2>1, <2>2
<1>4. Taken(e, r) + Len(p2) <= Total(e, Turn(r), len)
  BY <1>0, <1>1, <1>2 DEF w
<1>5. Carries(c, e, r, p2, len)
  BY <1>3, <1>4 DEF Carries
<1> QED
  BY <1>2, <1>5 DEF p2, d

\* Bytes that are read join those the reader has.
Got(r, p, m)  == [r EXCEPT !.left = @ - m, !.have = @ \o SubSeq(p, 1, m)]
Rest(p, m)    == SubSeq(p, m + 1, Len(p))

LEMMA Pulled ==
  ASSUME NEW c \in Conns, NEW e \in Ends, NEW r, EndOK(Other(e), r), Reading(r),
         NEW p \in Seq(Octets), NEW len \in Nat \ {0}, Carries(c, e, r, p, len),
         NEW m \in 1 .. r.left, m <= Len(p)
  PROVE  LET r2 == Got(r, p, m)
             p2 == Rest(p, m)
         IN  /\ EndOK(Other(e), r2) /\ r2.step = r.step /\ r2.msg = r.msg
             /\ r2.left = r.left - m
             /\ p2 \in Seq(Octets) /\ Carries(c, e, r2, p2, len)
             /\ Turn(r2) = Turn(r) /\ Taken(e, r2) + Len(p2) = Taken(e, r) + Len(p)
<1> DEFINE h  == r.have \o SubSeq(p, 1, m)
           r2 == [r EXCEPT !.left = r.left - m, !.have = h]
           p2 == Rest(p, m)
<1>1. /\ r.left \in Nat /\ r.have \in Seq(Octets) /\ Len(r.have) \in Nat
      /\ Len(p) \in Nat /\ m \in Nat /\ m > 0 /\ m <= r.left
      /\ r.step \in {"rappid", "rhead", "rbody"}
  BY Fields, Kinds
<1>2. Turn(r) \in Nat \ {0} /\ Before(e, r) \in Nat
  BY Places
<1>3. /\ SubSeq(p, 1, m) \in Seq(Octets) /\ Len(SubSeq(p, 1, m)) = m
      /\ \A i \in 1 .. m : SubSeq(p, 1, m)[i] = p[i]
  BY <1>1, Portion
<1>4. /\ h \in Seq(Octets) /\ Len(h) = Len(r.have) + m
      /\ \A i \in 1 .. Len(r.have) + m :
           h[i] = IF i <= Len(r.have) THEN r.have[i] ELSE p[i - Len(r.have)]
  <2> DEFINE d == SubSeq(p, 1, m)
  <2> HIDE DEF d
  <2>1. /\ r.have \o d \in Seq(Octets) /\ Len(r.have \o d) = Len(r.have) + Len(d)
        /\ \A i \in 1 .. Len(r.have) + Len(d) :
             (r.have \o d)[i] = IF i <= Len(r.have) THEN r.have[i] ELSE d[i - Len(r.have)]
    BY <1>1, <1>3, Joined DEF d
  <2>2. \A i \in 1 .. Len(r.have) + m : i > Len(r.have) => i - Len(r.have) \in 1 .. m
    BY <1>1
  <2>3. h = r.have \o d
    BY DEF d
  <2> HIDE DEF h
  <2> QED
    BY <1>1, <1>3, <2>1, <2>2, <2>3 DEF d
<1> HIDE DEF h
<1>5. /\ p2 \in Seq(Octets) /\ Len(p2) = Len(p) - m
      /\ \A i \in 1 .. Len(p) - m : p2[i] = p[m + i]
  <2> DEFINE a == m + 1
             b == Len(p)
  <2>1. a \in Nat \ {0} /\ b \in Nat /\ a <= b + 1 /\ b - a + 1 = Len(p) - m
    BY <1>1
  <2>2. \A i \in 1 .. Len(p) - m : a + i - 1 = m + i
    BY <1>1
  <2>3. p2 = SubSeq(p, a, b)
    BY DEF Rest
  <2> HIDE DEF a, p2
  <2>4. /\ SubSeq(p, a, b) \in Seq(Octets) /\ Len(SubSeq(p, a, b)) = b - a + 1
        /\ \A i \in 1 .. b - a + 1 : SubSeq(p, a, b)[i] = p[a + i - 1]
    BY <2>1, Portion
  <2> QED
    BY <2>1, <2>2, <2>3, <2>4
<1> HIDE DEF p2
<1>6. /\ r2.step = r.step /\ r2.msg = r.msg /\ r2.len = r.len /\ r2.left = r.left - m
      /\ r2.have = h
  BY DEF EndOK
<1>7. EndOK(Other(e), r2)
  <2>1. r2 \in [step : StepsOf(Other(e)), msg : Nat, len : Nat, left : Nat, have : Seq(Octets)]
    <3>1. r \in [step : StepsOf(Other(e)), msg : Nat, len : Nat, left : Nat, have : Seq(Octets)]
      BY DEF EndOK
    <3>2. r.left - m \in Nat
      BY <1>1
    <3> QED
      BY <1>4, <3>1, <3>2
  <2>2. Len(r2.have) + r2.left = Len(r.have) + r.left
    BY <1>1, <1>4, <1>6
  <2> HIDE DEF r2
  <2> QED
    BY <1>1, <1>6, <2>1, <2>2 DEF EndOK
<1> HIDE DEF r2
<1>8. /\ Turn(r2) = Turn(r) /\ Before(e, r2) = Before(e, r)
      /\ Taken(e, r2) = Taken(e, r) + m /\ Taken(e, r2) + Len(p2) = Taken(e, r) + Len(p)
  <2>1. Turn(r2) = Turn(r) /\ Before(e, r2) = Before(e, r)
    BY <1>6 DEF Turn, Before
  <2>2. Len(r2.have) = Len(r.have) + m /\ Len(p2) = Len(p) - m
    BY <1>4, <1>5, <1>6
  <2>3. Taken(e, r2) = Before(e, r) + (Len(r.have) + m) /\ Taken(e, r) = Before(e, r) + Len(r.have)
    BY <2>1, <2>2 DEF Taken
  <2>4. Taken(e, r2) = Taken(e, r) + m /\ Taken(e, r2) + Len(p2) = Taken(e, r) + Len(p)
    BY <1>1, <1>2, <2>2, <2>3
  <2> QED
    BY <2>1, <2>4
<1>9. Carries(c, e, r2, p2, len)
  <2>1. ASSUME NEW i \in 1 .. Len(r2.have)
        PROVE  r2.have[i] = OctetAt(c, e, Turn(r2), len, Before(e, r2) + i)
    <3>1. CASE i <= Len(r.have)
      <4>1. i \in 1 .. Len(r.have) /\ i \in 1 .. Len(r.have) + m
        BY <1>1, <1>4, <1>6, <3>1
      <4>2. h[i] = r.have[i]
        BY <1>4, <3>1, <4>1
      <4>3. \A j \in 1 .. Len(r.have) :
              r.have[j] = OctetAt(c, e, Turn(r), len, Before(e, r) + j)
        BY DEF Carries
      <4> QED
        BY <1>6, <1>8, <4>1, <4>2, <4>3
    <3>2. CASE i > Len(r.have)
      <4>1. /\ i - Len(r.have) \in 1 .. Len(p) /\ i \in 1 .. Len(r.have) + m
            /\ Taken(e, r) + (i - Len(r.have)) = Before(e, r) + i
        BY <1>1, <1>2, <1>4, <1>6, <3>2 DEF Taken
      <4>2. h[i] = p[i - Len(r.have)]
        BY <1>1, <1>4, <3>2, <4>1
      <4>3. \A j \in 1 .. Len(p) : p[j] = OctetAt(c, e, Turn(r), len, Taken(e, r) + j)
        BY DEF Carries
      <4> QED
        BY <1>6, <1>8, <4>1, <4>2, <4>3
    <3> QED
      BY <1>1, <1>4, <1>6, <3>1, <3>2
  <2>2. ASSUME NEW i \in 1 .. Len(p2)
        PROVE  p2[i] = OctetAt(c, e, Turn(r2), len, Taken(e, r2) + i)
    <3>1. m + i \in 1 .. Len(p) /\ Taken(e, r) + (m + i) = Taken(e, r2) + i
      BY <1>1, <1>2, <1>5, <1>8 DEF Taken
    <3>2. \A j \in 1 .. Len(p) : p[j] = OctetAt(c, e, Turn(r), len, Taken(e, r) + j)
      BY DEF Carries
    <3> QED
      BY <1>5, <1>8, <3>1, <3>2
  <2>3. Taken(e, r2) + Len(p2) <= Total(e, Turn(r2), len) /\ (r2.step = "rbody" => r2.len = len)
    BY <1>6, <1>8 DEF Carries
  <2> QED
    BY <2>1, <2>2, <2>3 DEF Carries
<1>10. r2 = Got(r, p, m) /\ p2 = Rest(p, m)
  BY DEF r2, h, p2, Got, Rest
<1> QED
  BY <1>5, <1>6, <1>7, <1>8, <1>9, <1>10

-----------------------------------------------------------------------------
(* Where the sides go.                                                     *)

LEMMA Begins ==
  ASSUME NEW x, NEW n, NEW len
  PROVE  /\ Begin(x, "wappid", n, len) = At("wappid", n, len, AppidLen)
         /\ Begin(x, "whead", n, len) = At("whead", n, len, HeadLen)
         /\ Begin(x, "wbody", n, len) = At("wbody", n, len, len)
         /\ Begin(x, "rappid", n, len) = At("rappid", n, len, AppidLen)
         /\ Begin(x, "rhead", n, len) = At("rhead", n, len, HeadLen)
         /\ Begin(x, "rbody", n, len) = At("rbody", n, len, len)
<1>1. DOMAIN Writes = {"wappid", "whead", "wbody"}
  BY DEF Writes
<1>2. /\ Writes["wappid"] = "appid" /\ Writes["whead"] = "head" /\ Writes["wbody"] = "body"
      /\ Reads["rappid"] = "appid" /\ Reads["rhead"] = "head" /\ Reads["rbody"] = "body"
  BY DEF Writes, Reads
<1>3. Length("appid", len) = AppidLen /\ Length("head", len) = HeadLen /\ Length("body", len) = len
  BY DEF Length
<1> QED
  BY <1>1, <1>2, <1>3 DEF Begin

LEMMA Follows ==
  ASSUME NEW c, NEW e, NEW x, NEW len
  PROVE  /\ x.step = "wappid" => Follow(c, e, x, len) = At("idle", 0, 0, 0)
         /\ x.step = "rappid" => Follow(c, e, x, len) = At("rhead", 1, 0, HeadLen)
         /\ x.step = "whead" => Follow(c, e, x, len) = At("wbody", x.msg, x.len, x.len)
         /\ x.step = "rhead" => Follow(c, e, x, len) = At("rbody", x.msg, len, len)
         /\ x.step = "wbody" => Follow(c, e, x, len) =
              At("rhead", IF e = "client" THEN x.msg ELSE x.msg + 1, 0, HeadLen)
         /\ x.step = "rbody" => Follow(c, e, x, len) =
              IF e = "client" THEN At("idle", x.msg, 0, 0) ELSE At("whead", x.msg, len, HeadLen)
  BY Begins DEF Follow

\* A side that has just got somewhere.
LEMMA Arrived ==
  ASSUME NEW e \in Ends, NEW n \in Nat, NEW len \in Nat, NEW left \in Nat, NEW step \in StepsOf(e),
         /\ step = "wappid" => left = AppidLen /\ n = 0 /\ len = 0
         /\ step = "rappid" => left = AppidLen /\ n = 0
         /\ step \in {"whead", "rhead"} => left = HeadLen /\ n > 0
         /\ step \in {"wbody", "rbody"} => left = len /\ n > 0
         /\ step \in {"whead", "wbody", "rbody"} => len > 0
  PROVE  LET x == At(step, n, len, left)
         IN  /\ EndOK(e, x) /\ x.step = step /\ x.msg = n /\ x.len = len /\ x.left = left
             /\ x.have = <<>> /\ Len(x.have) = 0
<1> DEFINE x == At(step, n, len, left)
<1>1. /\ x.step = step /\ x.msg = n /\ x.len = len /\ x.left = left
      /\ x.have = <<>> /\ Len(x.have) = 0 /\ x.have \in Seq(Octets)
  BY DEF At
<1>2. x \in [step : StepsOf(e), msg : Nat, len : Nat, left : Nat, have : Seq(Octets)]
  BY DEF At
<1> HIDE DEF x
<1>3. EndOK(e, x)
  BY <1>1, <1>2, Sizes DEF EndOK
<1> QED
  BY <1>1, <1>3 DEF x

\* An item that nothing was read of yet, and nothing is on its way.
LEMMA CarriesNone ==
  ASSUME NEW c, NEW e, NEW f, NEW r, EndOK(f, r), Reading(r), Len(r.have) = 0, NEW p, p = <<>>,
         NEW len \in Nat \ {0}, r.step = "rbody" => r.len = len
  PROVE  Carries(c, e, r, p, len) /\ Taken(e, r) + Len(p) = Before(e, r)
<1>1. Before(e, r) \in Nat /\ Len(p) = 0 /\ Turn(r) \in Nat \ {0}
  BY Places
<1>2. Taken(e, r) = Before(e, r)
  BY <1>1 DEF Taken
<1>3. Before(e, r) <= Total(e, Turn(r), len)
  <2>1. \A n : Lead(e, n) \in Nat
    BY Sizes DEF Lead
  <2>2. r.step \in {"rappid", "rhead", "rbody"}
    BY Kinds
  <2> QED
    BY <2>1, <2>2, Sizes DEF Before, Turn, Total
<1> QED
  BY <1>1, <1>2, <1>3 DEF Carries

-----------------------------------------------------------------------------
(* Steps of one connection.                                                *)

\* A side ends.
LEMMA ClientEnds ==
  ASSUME NEW c, NEW x, NEW y, NEW p, NEW q, ConnOK(c, x, y, p, q), x.step # "new",
         NEW l \in Ended
  PROVE  ConnOK(c, At(l, 0, 0, 0), y, p, q)
<1> DEFINE z == At(l, 0, 0, 0)
<1>1. EndOK("client", z) /\ z.step = l
  BY Arrived DEF StepsOf, Ended, Ends
<1> HIDE DEF z
<1>2. z.step \in Ended /\ ~Reading(z) /\ ~Writing(z) /\ z.step \notin {"new", "connect", "idle"}
  BY <1>1, Kinds DEF Ended
<1>3. Flow(c, "client", z, y, p)
  BY <1>2 DEF ConnOK, Flow
<1>4. Flow(c, "daemon", y, z, q)
  BY <1>2 DEF Flow
<1> QED
  BY <1>1, <1>2, <1>3, <1>4 DEF ConnOK, z

LEMMA DaemonEnds ==
  ASSUME NEW c, NEW x, NEW y, NEW p, NEW q, ConnOK(c, x, y, p, q), y.step # "new",
         NEW l \in Ended
  PROVE  ConnOK(c, x, At(l, 0, 0, 0), p, q)
<1> DEFINE z == At(l, 0, 0, 0)
<1>1. EndOK("daemon", z) /\ z.step = l
  BY Arrived DEF StepsOf, Ended, Ends
<1> HIDE DEF z
<1>2. /\ z.step \in Ended /\ ~Reading(z) /\ ~Writing(z)
      /\ z.step # "new" /\ z.step \notin Setup
  BY <1>1, Kinds DEF Ended, Setup
<1>3. Flow(c, "client", x, z, p)
  BY <1>2 DEF Flow
<1>4. Flow(c, "daemon", z, x, q)
  BY <1>2 DEF ConnOK, Flow
<1> QED
  BY <1>1, <1>2, <1>3, <1>4 DEF ConnOK, z

\* A connection that nothing was sent on yet.
LEMMA NothingYet ==
  ASSUME NEW c, NEW k \in {"new", "connect"}, NEW l,
         k = "new" => l = "new", k = "connect" => l \in Setup
  PROVE  ConnOK(c, At(k, 0, 0, 0), At(l, 0, 0, 0), <<>>, <<>>)
<1> DEFINE x == At(k, 0, 0, 0)
           y == At(l, 0, 0, 0)
<1>1. l \in {"new"} \cup Setup
  OBVIOUS
<1>2. EndOK("client", x) /\ EndOK("daemon", y) /\ x.step = k /\ y.step = l
  <2>1. EndOK("client", x) /\ x.step = k
    BY Arrived DEF StepsOf, Ends
  <2>2. EndOK("daemon", y) /\ y.step = l
    BY <1>1, Arrived DEF StepsOf, Ends, Setup
  <2> QED
    BY <2>1, <2>2
<1> HIDE DEF x, y
<1>3. ~Reading(x) /\ ~Reading(y) /\ ~Writing(x) /\ ~Writing(y) /\ x.step # "idle"
  BY <1>1, <1>2, Kinds DEF Setup
<1> QED
  BY <1>1, <1>2, <1>3 DEF ConnOK, Flow, Setup, x, y

\* The application id is about to be sent.
LEMMA Opened ==
  ASSUME NEW c
  PROVE  ConnOK(c, At("wappid", 0, 0, AppidLen), At("rappid", 0, 0, AppidLen), <<>>, <<>>)
<1> DEFINE x == At("wappid", 0, 0, AppidLen)
           y == At("rappid", 0, 0, AppidLen)
<1>1. EndOK("client", x) /\ x.step = "wappid" /\ x.left = AppidLen
  BY Arrived, Sizes DEF StepsOf, Ends
<1>2. EndOK("daemon", y) /\ y.step = "rappid" /\ Len(y.have) = 0
  BY Arrived, Sizes DEF StepsOf, Ends
<1> HIDE DEF x, y
<1>3. Writing(x) /\ ~Reading(x) /\ Reading(y) /\ ~Writing(y)
  BY <1>1, <1>2, Kinds
<1>4. Carries(c, "client", y, <<>>, 1) /\ Taken("client", y) + Len(<<>>) = 0 /\ Turn(y) = 1
  BY <1>2, <1>3, CarriesNone DEF Before, Turn
<1>5. HasSent("client", x, 1, 1, 0)
  BY <1>1, Sizes DEF HasSent
<1>6. Flow(c, "client", x, y, <<>>)
  BY <1>4, <1>5 DEF Flow
<1> QED
  BY <1>1, <1>2, <1>3, <1>6 DEF ConnOK, Flow, Setup, x, y

\* The thread of the daemon sets up TLS.
LEMMA SettingUp ==
  ASSUME NEW c, NEW x, NEW y, NEW p, NEW q, ConnOK(c, x, y, p, q), y.step \in Setup,
         NEW l \in Setup
  PROVE  ConnOK(c, x, [y EXCEPT !.step = l], p, q)
<1> DEFINE z == [y EXCEPT !.step = l]
<1>1. EndOK("daemon", y)
  BY DEF ConnOK
<1>2. z \in [step : StepsOf("daemon"), msg : Nat, len : Nat, left : Nat, have : Seq(Octets)]
  BY <1>1 DEF EndOK, StepsOf
<1>3. z.step = l
  BY <1>1 DEF EndOK
<1> HIDE DEF z
<1>4. EndOK("daemon", z) /\ z.step \in Setup
  BY <1>2, <1>3 DEF EndOK, Setup
<1>5. ~Reading(z) /\ ~Writing(z) /\ z.step # "new" /\ z.step \notin Ended
  BY <1>4, Kinds DEF Setup, Ended
<1>6. ~Reading(x) /\ x.step # "new"
  BY Kinds DEF ConnOK, Ended
<1> QED
  BY <1>4, <1>5, <1>6 DEF ConnOK, Flow, z

\* A loop that goes on has a shorter item left.
LEMMA WritesOn ==
  ASSUME NEW e, NEW x, EndOK(e, x), Writing(x), NEW m \in 1 .. x.left, x.left - m # 0
  PROVE  LET z == [x EXCEPT !.left = @ - m]
         IN  /\ EndOK(e, z) /\ z.step = x.step /\ z.msg = x.msg /\ z.len = x.len
             /\ z.left = x.left - m
<1> DEFINE z == [x EXCEPT !.left = @ - m]
<1>1. /\ x \in [step : StepsOf(e), msg : Nat, len : Nat, left : Nat, have : Seq(Octets)]
      /\ x.step \in {"wappid", "whead", "wbody"}
  BY Kinds DEF EndOK
<1>2. x.left \in Nat /\ m \in Nat /\ m > 0 /\ m < x.left /\ x.left - m \in Nat
  BY <1>1
<1>3. /\ z \in [step : StepsOf(e), msg : Nat, len : Nat, left : Nat, have : Seq(Octets)]
      /\ z.step = x.step /\ z.msg = x.msg /\ z.len = x.len /\ z.left = x.left - m
  BY <1>1, <1>2
<1> HIDE DEF z
<1>4. EndOK(e, z)
  BY <1>1, <1>2, <1>3, Sizes DEF EndOK
<1> QED
  BY <1>3, <1>4 DEF z

\* Where a side is after it has sent m bytes more.
After(c, e, x, m) ==
  IF x.left - m = 0 THEN Follow(c, e, x, x.len) ELSE [x EXCEPT !.left = @ - m]

LEMMA SendsTo ==
  ASSUME NEW c, NEW e \in Ends, NEW x, EndOK(e, x), Writing(x), NEW m \in 1 .. x.left,
         NEW n \in Nat \ {0}, NEW len \in Nat \ {0}, NEW w \in Nat, HasSent(e, x, n, len, w)
  PROVE  LET z == After(c, e, x, m)
         IN  /\ EndOK(e, z) /\ HasSent(e, z, n, len, w + m)
             /\ z.step \in {"wappid", "whead", "wbody", "idle", "rhead"}
             /\ z.step \in {"whead", "wbody"} => z.msg = n
<1> DEFINE z == After(c, e, x, m)
<1> HIDE DEF z
<1> SUFFICES /\ EndOK(e, z) /\ HasSent(e, z, n, len, w + m)
             /\ z.step \in {"wappid", "whead", "wbody", "idle", "rhead"}
             /\ z.step \in {"whead", "wbody"} => z.msg = n
  BY DEF z
<1>1. /\ x.step \in {"wappid", "whead", "wbody"} /\ x.step \in StepsOf(e)
      /\ x.msg \in Nat /\ x.len \in Nat /\ x.left \in Nat
      /\ m \in Nat /\ m > 0 /\ m <= x.left /\ Lead(e, n) \in Nat
  BY Kinds, Fields, Sizes DEF Lead
<1>2. CASE x.left - m # 0
  <2>1. z = [x EXCEPT !.left = @ - m]
    BY <1>2 DEF z, After
  <2>2. /\ EndOK(e, z) /\ z.step = x.step /\ z.msg = x.msg /\ z.len = x.len
        /\ z.left = x.left - m
    BY <1>2, <2>1, WritesOn
  <2>3. HasSent(e, z, n, len, w + m)
    <3>1. CASE x.step = "wappid"
      BY <1>1, <2>2, <3>1, Sizes DEF HasSent
    <3>2. CASE x.step = "whead"
      BY <1>1, <2>2, <3>2, Sizes DEF HasSent
    <3>3. CASE x.step = "wbody"
      <4>1. Total(e, n, len) \in Nat
        BY <1>1, Sizes DEF Total
      <4> QED
        BY <1>1, <2>2, <3>3, <4>1 DEF HasSent
    <3> QED
      BY <1>1, <3>1, <3>2, <3>3
  <2>4. x.step \in {"whead", "wbody"} => x.msg = n
    BY DEF HasSent
  <2> QED
    BY <1>1, <2>2, <2>3, <2>4
<1>3. CASE x.left - m = 0
  <2>0. z = Follow(c, e, x, x.len) /\ m = x.left
    BY <1>1, <1>3 DEF z, After
  <2>1. CASE x.step = "wappid"
    <3>1. z = At("idle", 0, 0, 0)
      BY <2>0, <2>1, Follows
    <3>2. e = "client" /\ n = 1 /\ w = AppidLen - x.left
      BY <1>1, <2>1 DEF StepsOf, Setup, Ended, Ends, HasSent
    <3>3. EndOK(e, z) /\ z.step = "idle" /\ z.msg = 0
      <4> DEFINE i == "idle"
                 o == 0
      <4>1. /\ e \in Ends /\ o \in Nat /\ i \in StepsOf(e)
            /\ i \notin {"wappid", "rappid", "whead", "rhead", "wbody", "rbody"}
        BY <3>2 DEF StepsOf, Ends
      <4> HIDE DEF i, o
      <4>2. EndOK(e, At(i, o, o, o)) /\ At(i, o, o, o).step = i /\ At(i, o, o, o).msg = o
        BY ONLY <4>1, Arrived
      <4> QED
        BY <3>1, <4>2 DEF i, o
    <3>4. w + m = Lead(e, n)
      BY <1>1, <2>0, <3>2, Sizes DEF Lead
    <3>5. HasSent(e, z, n, len, w + m)
      BY <3>2, <3>3, <3>4 DEF HasSent
    <3> QED
      BY <3>2, <3>3, <3>5
  <2>2. CASE x.step = "whead"
    <3>1. z = At("wbody", x.msg, x.len, x.len)
      BY <2>0, <2>2, Follows
    <3>2. x.msg = n /\ x.len = len /\ w = Lead(e, n) + HeadLen - x.left
      BY <2>2 DEF HasSent
    <3>3. EndOK(e, z) /\ z.step = "wbody" /\ z.msg = n /\ z.len = len /\ z.left = len
      BY <3>1, <3>2, Arrived DEF StepsOf
    <3>4. w + m = Total(e, n, len) - z.left
      BY <1>1, <2>0, <3>2, <3>3, Sizes DEF Total
    <3>5. HasSent(e, z, n, len, w + m)
      BY <3>3, <3>4 DEF HasSent
    <3> QED
      BY <3>3, <3>5
  <2>3. CASE x.step = "wbody"
    <3>1. z = At("rhead", IF e = "client" THEN x.msg ELSE x.msg + 1, 0, HeadLen)
      BY <2>0, <2>3, Follows
    <3>2. x.msg = n /\ x.len = len /\ w = Total(e, n, len) - x.left
      BY <2>3 DEF HasSent
    <3>3. /\ EndOK(e, z) /\ z.step = "rhead" /\ z.have = <<>> /\ Len(z.have) = 0
          /\ z.msg = IF e = "client" THEN n ELSE n + 1
      BY <3>1, <3>2, Arrived, Sizes DEF StepsOf
    <3>4. w + m = Total(e, n, len)
      <4>1. Total(e, n, len) \in Nat
        BY <1>1, Sizes DEF Total
      <4> QED
        BY <1>1, <2>0, <3>2, <4>1
    <3>5. HasSent(e, z, n, len, w + m)
      BY <3>3, <3>4 DEF HasSent
    <3> QED
      BY <2>3, <3>3, <3>5
  <2> QED
    BY <1>1, <2>1, <2>2, <2>3
<1> QED
  BY <1>2, <1>3

\* While the client writes, the daemon reads.
LEMMA DaemonReads ==
  ASSUME NEW c, NEW x, NEW y, NEW p, NEW q, ConnOK(c, x, y, p, q),
         Writing(x) \/ x.step = "idle", y.step \notin Ended
  PROVE  Reading(y) /\ ~Writing(y) /\ y.step # "new" /\ y.step \notin Setup /\ q = <<>>
<1>1. /\ x.step \in {"wappid", "whead", "wbody", "idle"} /\ ~Reading(x)
      /\ x.step \notin Ended \cup {"new", "connect"}
  BY Kinds DEF Ended
<1>2. y.step \in StepsOf("daemon") /\ y.step # "new" /\ y.step \notin Setup /\ ~Writing(y)
  BY <1>1, Fields DEF ConnOK
<1> QED
  BY <1>2, Kinds DEF StepsOf, ConnOK

\* The client sends.
LEMMA ClientSends ==
  ASSUME NEW c \in Conns, NEW x, NEW y, NEW p, NEW q, ConnOK(c, x, y, p, q),
         Writing(x), y.step \notin Ended, NEW m \in 1 .. x.left
  PROVE  ConnOK(c, After(c, "client", x, m),
                y, p \o Sent(c, "client", x, m), q)
<1> DEFINE z  == After(c, "client", x, m)
           p2 == p \o Sent(c, "client", x, m)
           n  == Turn(y)
           w  == Taken("client", y) + Len(p)
<1>1. /\ Reading(y) /\ ~Writing(y) /\ y.step # "new" /\ y.step \notin Setup /\ q = <<>>
      /\ EndOK("client", x) /\ EndOK("daemon", y) /\ p \in Seq(Octets)
      /\ x.step \notin Ended /\ "client" \in Ends /\ Other("client") = "daemon"
  BY DaemonReads, Kinds DEF ConnOK, Ends, Other, Ended
<1>2. n \in Nat \ {0} /\ w \in Nat /\ Taken("client", y) \in Nat /\ Len(p) \in Nat
  BY <1>1, Places
<1>3. PICK len \in Nat \ {0} : Carries(c, "client", y, p, len) /\ HasSent("client", x, n, len, w)
  BY <1>1 DEF ConnOK, Flow
<1>4. p2 \in Seq(Octets) /\ Len(p2) = Len(p) + m /\ Carries(c, "client", y, p2, len)
  BY <1>1, <1>3, Pushed
<1> HIDE DEF w
<1>5. /\ EndOK("client", z) /\ HasSent("client", z, n, len, w + m)
      /\ z.step \in {"wappid", "whead", "wbody", "idle", "rhead"}
      /\ z.step = "rhead" => z.have = <<>> /\ Len(z.have) = 0 /\ z.msg = n
  <2> HIDE DEF n, z
  <2>1. EndOK("client", z) /\ HasSent("client", z, n, len, w + m)
    BY <1>1, <1>2, <1>3, SendsTo, Zenon DEF z
  <2>2. z.step \in {"wappid", "whead", "wbody", "idle", "rhead"}
    BY <1>1, <1>2, <1>3, SendsTo, Zenon DEF z
  <2>3. z.step \in {"whead", "wbody"} => z.msg = n
    BY <1>1, <1>2, <1>3, SendsTo, Zenon DEF z
  <2>4. w + m # 0
    BY <1>1, <1>2, Fields
  <2>5. z.step = "rhead" => z.have = <<>> /\ Len(z.have) = 0 /\ z.msg = n
    BY <2>1, <2>4 DEF HasSent
  <2> QED
    BY <2>1, <2>2, <2>3, <2>5
<1> HIDE DEF z, p2
<1>6. Flow(c, "client", z, y, p2)
  <2>1. w + m = Taken("client", y) + Len(p2)
    BY <1>2, <1>4 DEF w
  <2> QED
    BY <1>3, <1>4, <1>5, <2>1 DEF Flow
<1>7. Flow(c, "daemon", y, z, q)
  <2>1. CASE z.step # "rhead"
    BY <1>5, <2>1, Kinds DEF Flow
  <2>2. CASE z.step = "rhead"
    <3>1. Reading(z) /\ Turn(z) = n /\ Before("daemon", z) = 0
      BY <1>5, <2>2, Kinds DEF Turn, Before, Lead
    <3>2. Carries(c, "daemon", z, q, 1) /\ Taken("daemon", z) + Len(q) = 0
      BY <1>1, <1>5, <2>2, <3>1, CarriesNone
    <3>3. HasSent("daemon", y, n, 1, 0)
      BY <1>1, Kinds DEF HasSent, Turn
    <3> QED
      BY <3>1, <3>2, <3>3 DEF Flow
  <2> QED
    BY <2>1, <2>2
<1> QED
  BY <1>1, <1>4, <1>5, <1>6, <1>7 DEF ConnOK, z, p2

\* The daemon sends.
LEMMA DaemonSends ==
  ASSUME NEW c \in Conns, NEW x, NEW y, NEW p, NEW q, ConnOK(c, x, y, p, q),
         Writing(y), x.step \notin Ended, NEW m \in 1 .. y.left
  PROVE  ConnOK(c, x, After(c, "daemon", y, m),
                p, q \o Sent(c, "daemon", y, m))
<1> DEFINE z  == After(c, "daemon", y, m)
           q2 == q \o Sent(c, "daemon", y, m)
           n  == Turn(x)
           w  == Taken("daemon", x) + Len(q)
<1>1. /\ Reading(x) /\ x.msg = y.msg /\ p = <<>> /\ EndOK("client", x) /\ EndOK("daemon", y)
      /\ q \in Seq(Octets) /\ y.step \in {"whead", "wbody"} /\ y.step \notin Ended
      /\ "daemon" \in Ends /\ Other("daemon") = "client"
  BY Kinds, Fields DEF ConnOK, Ends, Other, Ended, StepsOf, Setup
<1>2. /\ n \in Nat \ {0} /\ w \in Nat /\ Taken("daemon", x) \in Nat /\ Len(q) \in Nat
      /\ x.step \in {"rhead", "rbody"} /\ n = x.msg
  <2>1. x.step \in {"rhead", "rbody"}
    BY <1>1, Kinds, Fields DEF StepsOf, Ended
  <2>2. n \in Nat \ {0} /\ Taken("daemon", x) \in Nat /\ Len(q) \in Nat
    BY <1>1, Places
  <2>3. n = x.msg
    BY <2>1 DEF Turn
  <2> QED
    BY <2>1, <2>2, <2>3
<1>3. PICK len \in Nat \ {0} : Carries(c, "daemon", x, q, len) /\ HasSent("daemon", y, n, len, w)
  BY <1>1 DEF ConnOK, Flow
<1>4. q2 \in Seq(Octets) /\ Len(q2) = Len(q) + m /\ Carries(c, "daemon", x, q2, len)
  BY <1>1, <1>3, Pushed
<1> HIDE DEF w
<1>5. /\ EndOK("daemon", z) /\ HasSent("daemon", z, n, len, w + m)
      /\ z.step \in {"wappid", "whead", "wbody", "idle", "rhead"}
      /\ z.step \in {"whead", "wbody"} => z.msg = n
      /\ z.step = "rhead" => z.have = <<>> /\ Len(z.have) = 0 /\ z.msg = n + 1
  <2> HIDE DEF n, z
  <2>1. EndOK("daemon", z) /\ HasSent("daemon", z, n, len, w + m)
    BY <1>1, <1>2, <1>3, SendsTo, Zenon DEF z
  <2>2. z.step \in {"wappid", "whead", "wbody", "idle", "rhead"}
    BY <1>1, <1>2, <1>3, SendsTo, Zenon DEF z
  <2>3. z.step \in {"whead", "wbody"} => z.msg = n
    BY <1>1, <1>2, <1>3, SendsTo, Zenon DEF z
  <2>4. w + m # 0
    BY <1>1, <1>2, Fields
  <2>5. z.step = "rhead" => z.have = <<>> /\ Len(z.have) = 0 /\ z.msg = n + 1
    BY <2>1, <2>4 DEF HasSent
  <2> QED
    BY <2>1, <2>2, <2>3, <2>5
<1> HIDE DEF z, q2
<1>6. Flow(c, "daemon", z, x, q2)
  <2>1. w + m = Taken("daemon", x) + Len(q2)
    BY <1>2, <1>4 DEF w
  <2> QED
    BY <1>3, <1>4, <1>5, <2>1 DEF Flow
<1>7. z.step \in {"whead", "wbody", "rhead"}
  BY <1>5, Fields DEF StepsOf, Setup, Ended
<1>8. Flow(c, "client", x, z, p)
  <2>1. CASE z.step # "rhead"
    BY <1>7, <2>1, Kinds DEF Flow
  <2>2. CASE z.step = "rhead"
    <3>1. Reading(z) /\ Turn(z) = n + 1 /\ Before("client", z) = 0
      BY <1>2, <1>5, <2>2, Kinds DEF Turn, Before, Lead
    <3>2. Carries(c, "client", z, p, 1) /\ Taken("client", z) + Len(p) = 0
      BY <1>1, <1>5, <2>2, <3>1, CarriesNone
    <3>3. HasSent("client", x, n + 1, 1, 0)
      BY <1>2 DEF HasSent
    <3> QED
      BY <3>1, <3>2, <3>3 DEF Flow
  <2> QED
    BY <2>1, <2>2
<1>9. /\ Writing(z) => z.msg = x.msg
      /\ z.step # "new" /\ z.step \notin Setup
      /\ x.step # "new" /\ x.step # "connect" /\ ~Writing(x) /\ x.step # "idle"
  BY <1>1, <1>2, <1>5, <1>7, Kinds DEF Setup
<1> QED
  BY <1>1, <1>4, <1>5, <1>6, <1>8, <1>9 DEF ConnOK, z, q2

\* The client receives.
LEMMA ClientGets ==
  ASSUME NEW c \in Conns, NEW x, NEW y, NEW p, NEW q, ConnOK(c, x, y, p, q),
         Reading(x), NEW m \in 1 .. x.left, m <= Len(q)
  PROVE  LET x2 == Got(x, q, m)
         IN  ConnOK(c, x2, y, p, Rest(q, m)) /\ x2.left = x.left - m
<1> DEFINE x2 == Got(x, q, m)
           q2 == Rest(q, m)
<1>1. /\ EndOK("client", x) /\ EndOK("daemon", y) /\ q \in Seq(Octets) /\ "daemon" \in Ends
      /\ Other("daemon") = "client" /\ x.step \in {"rhead", "rbody"}
      /\ x.step \notin Ended \cup {"new", "connect", "idle"} /\ Turn(x) = x.msg /\ x.msg \in Nat
  BY Kinds, Fields DEF ConnOK, Ends, Other, Ended, StepsOf, Turn
<1>2. /\ Taken("daemon", x) \in Nat /\ Len(q) \in Nat /\ Len(q) > 0 /\ q # <<>>
      /\ Taken("daemon", x) + Len(q) > 0
  <2>1. Taken("daemon", x) \in Nat /\ x.left \in Nat
    BY <1>1, Places, Fields
  <2>2. Len(q) \in Nat /\ m \in Nat /\ m > 0 /\ Len(<<>>) = 0
    BY <1>1, <2>1
  <2> QED
    BY <2>1, <2>2
<1>3. PICK len \in Nat \ {0} :
        /\ Carries(c, "daemon", x, q, len)
        /\ y.step \in Ended \/ HasSent("daemon", y, x.msg, len, Taken("daemon", x) + Len(q))
  BY <1>1 DEF ConnOK, Flow
<1>4. /\ EndOK("client", x2) /\ x2.step = x.step /\ x2.msg = x.msg /\ x2.left = x.left - m
      /\ q2 \in Seq(Octets) /\ Carries(c, "daemon", x2, q2, len)
      /\ Turn(x2) = x.msg
      /\ Taken("daemon", x2) + Len(q2) = Taken("daemon", x) + Len(q)
  BY <1>1, <1>3, Pulled
<1> HIDE DEF x2, q2
<1>5. Flow(c, "daemon", y, x2, q2)
  BY <1>3, <1>4 DEF Flow
<1>6. Flow(c, "client", x2, y, p)
  <2> SUFFICES ASSUME Reading(y) PROVE Flow(c, "client", x2, y, p)
    BY DEF Flow
  <2>1. y.step \notin Ended /\ ~Writing(y)
    BY Kinds DEF Ended
  <2>2. y.step = "rhead" /\ y.msg = x.msg + 1
    BY <1>2, <1>3, <2>1, Kinds DEF HasSent
  <2>3. Turn(y) = x.msg + 1
    BY <2>2 DEF Turn
  <2>4. PICK l \in Nat \ {0} :
          /\ Carries(c, "client", y, p, l)
          /\ HasSent("client", x, x.msg + 1, l, Taken("client", y) + Len(p))
    BY <1>1, <2>3 DEF ConnOK, Flow
  <2> DEFINE w == Taken("client", y) + Len(p)
  <2> HIDE DEF w
  <2>5. w = 0
    BY <1>1, <2>4 DEF HasSent, w
  <2>6. HasSent("client", x2, x.msg + 1, l, w)
    BY <1>1, <1>4, <2>5 DEF HasSent
  <2> QED
    BY <2>3, <2>4, <2>6 DEF Flow, w
<1>7. /\ Reading(x2) /\ ~Writing(x2) /\ x2.step \notin {"new", "connect", "idle"}
      /\ x2.step \notin Ended /\ y.step \notin Setup /\ p = <<>>
  <2>1. Reading(x2) /\ ~Writing(x2) /\ x2.step \notin {"new", "connect", "idle"}
    BY <1>1, <1>4, Kinds
  <2> QED
    BY <1>1, <1>2, <1>4, <2>1 DEF ConnOK
<1> QED
  BY <1>1, <1>4, <1>5, <1>6, <1>7 DEF ConnOK, x2, q2

\* The daemon receives.
LEMMA DaemonGets ==
  ASSUME NEW c \in Conns, NEW x, NEW y, NEW p, NEW q, ConnOK(c, x, y, p, q),
         Reading(y), NEW m \in 1 .. y.left, m <= Len(p)
  PROVE  LET y2 == Got(y, p, m)
         IN  ConnOK(c, x, y2, Rest(p, m), q) /\ y2.left = y.left - m
<1> DEFINE y2 == Got(y, p, m)
           p2 == Rest(p, m)
<1>1. /\ EndOK("client", x) /\ EndOK("daemon", y) /\ p \in Seq(Octets) /\ "client" \in Ends
      /\ Other("client") = "daemon" /\ y.step \in {"rappid", "rhead", "rbody"}
      /\ y.step \notin Ended \cup {"new"} /\ y.step \notin Setup
  BY Kinds, Fields DEF ConnOK, Ends, Other, Ended, StepsOf, Setup
<1>2. /\ Taken("client", y) \in Nat /\ Len(p) \in Nat /\ Len(p) > 0 /\ p # <<>>
      /\ Taken("client", y) + Len(p) > 0
  <2>1. Taken("client", y) \in Nat /\ y.left \in Nat
    BY <1>1, Places, Fields
  <2>2. Len(p) \in Nat /\ m \in Nat /\ m > 0 /\ Len(<<>>) = 0
    BY <1>1, <2>1
  <2> QED
    BY <2>1, <2>2
<1>3. PICK len \in Nat \ {0} :
        /\ Carries(c, "client", y, p, len)
        /\ x.step \in Ended \/ HasSent("client", x, Turn(y), len, Taken("client", y) + Len(p))
  BY <1>1 DEF ConnOK, Flow
<1>4. /\ EndOK("daemon", y2) /\ y2.step = y.step /\ y2.msg = y.msg /\ y2.left = y.left - m
      /\ p2 \in Seq(Octets) /\ Carries(c, "client", y2, p2, len)
      /\ Turn(y2) = Turn(y)
      /\ Taken("client", y2) + Len(p2) = Taken("client", y) + Len(p)
  BY <1>1, <1>3, Pulled
<1> HIDE DEF y2, p2
<1>5. Flow(c, "client", x, y2, p2)
  BY <1>3, <1>4 DEF Flow
<1>6. Flow(c, "daemon", y2, x, q)
  <2> SUFFICES ASSUME Reading(x) PROVE Flow(c, "daemon", y2, x, q)
    BY DEF Flow
  <2>1. x.step \notin Ended /\ ~Writing(x) /\ x.step # "idle"
    BY Kinds DEF Ended
  <2>2. x.step = "rhead" /\ x.msg = Turn(y) /\ x.have = <<>>
    <3> DEFINE w == Taken("client", y) + Len(p)
    <3>1. w # 0 /\ HasSent("client", x, Turn(y), len, w)
      BY <1>2, <1>3, <2>1
    <3>2. x.step \in {"rhead", "rbody"}
      BY <1>1, Kinds, Fields DEF StepsOf, Ended
    <3> HIDE DEF w
    <3> QED
      BY <3>1, <3>2 DEF HasSent
  <2>3. q = <<>> /\ Turn(x) = Turn(y) /\ Before("daemon", x) = 0 /\ Len(x.have) = 0
    BY <1>2, <2>2 DEF ConnOK, Turn, Before, Lead
  <2>4. Carries(c, "daemon", x, q, 1) /\ Taken("daemon", x) + Len(q) = 0
    BY <1>1, <2>2, <2>3, CarriesNone
  <2>5. HasSent("daemon", y2, Turn(y), 1, 0)
    BY <1>1, <1>4 DEF HasSent, Turn
  <2> QED
    BY <2>3, <2>4, <2>5 DEF Flow
<1>7. Reading(y2) /\ ~Writing(y2) /\ y2.step # "new" /\ y2.step \notin Setup /\ q = <<>>
  <2>1. Reading(y2) /\ ~Writing(y2)
    BY <1>1, <1>4, Kinds
  <2> QED
    BY <1>1, <1>2, <1>4, <2>1 DEF ConnOK
<1> QED
  BY <1>1, <1>4, <1>5, <1>6, <1>7 DEF ConnOK, y2, p2

\* A head that was read tells the length, and the body comes next.
LEMMA HeadRead ==
  ASSUME NEW c \in Conns, NEW e \in Ends, NEW r, EndOK(Other(e), r), r.step = "rhead", r.left = 0,
         NEW p, NEW len \in Nat \ {0}, Carries(c, e, r, p, len)
  PROVE  LET z == At("rbody", r.msg, len, len)
         IN  /\ LenChoices(r) = {len} /\ Len(r.have) > 0
             /\ EndOK(Other(e), z) /\ z.step = "rbody" /\ z.msg = r.msg
             /\ Carries(c, e, z, p, len) /\ Turn(z) = Turn(r) /\ Taken(e, z) = Taken(e, r)
<1> DEFINE z == At("rbody", r.msg, len, len)
<1>1. /\ Len(r.have) = HeadLen /\ r.msg \in Nat /\ r.msg > 0 /\ r.have \in Seq(Octets)
      /\ Lead(e, r.msg) \in Nat /\ Turn(r) = r.msg /\ Other(e) \in Ends
      /\ Before(e, r) = Lead(e, r.msg)
  BY Fields, Sizes DEF EndOK, Lead, Turn, Before, Other, Ends
<1>2. r.have[1] = OctetAt(c, e, r.msg, len, Lead(e, r.msg) + 1)
  <2>1. 1 \in 1 .. Len(r.have)
    BY <1>1, Sizes
  <2> QED
    BY <1>1, <2>1 DEF Carries
<1>3. r.have[1].kind = "head" /\ r.have[1].len = len
  BY <1>1, <1>2, Sizes DEF OctetAt
<1>4. r.have # <<>>
  BY <1>1, Sizes
<1>5. LenChoices(r) = {len}
  BY <1>3, <1>4 DEF LenChoices
<1>6. /\ EndOK(Other(e), z) /\ z.step = "rbody" /\ z.msg = r.msg /\ z.len = len
      /\ z.have = <<>> /\ Len(z.have) = 0
  <2>1. "rbody" \in StepsOf(Other(e)) /\ len \in Nat /\ len > 0
    BY DEF StepsOf
  <2> QED
    BY <1>1, <2>1, Arrived
<1> HIDE DEF z
<1>7. Turn(z) = Turn(r) /\ Taken(e, z) = Taken(e, r)
  BY <1>1, <1>6, Sizes DEF Turn, Taken, Before
<1>8. Carries(c, e, z, p, len)
  BY <1>6, <1>7 DEF Carries
<1> QED
  BY <1>1, <1>5, <1>6, <1>7, <1>8, Sizes DEF z

\* A body that was read is all there was to read, and the other side, which
\* has sent it all, is waiting for the next message.
Awaited(e, n) == IF e = "client" THEN n ELSE n + 1

LEMMA BodyRead ==
  ASSUME NEW c, NEW e \in Ends, NEW r, EndOK(Other(e), r), r.step = "rbody", r.left = 0,
         NEW s, EndOK(e, s), NEW p \in Seq(Octets), NEW len \in Nat \ {0}, Carries(c, e, r, p, len),
         s.step \in Ended \/ HasSent(e, s, Turn(r), len, Taken(e, r) + Len(p))
  PROVE  /\ p = <<>> /\ Turn(r) = r.msg
         /\ s.step \in Ended \/ /\ s.step = "rhead" /\ s.have = <<>>
                                /\ s.msg = Awaited(e, r.msg)
<1>1. /\ Len(r.have) = r.len /\ r.len = len /\ r.msg \in Nat /\ Turn(r) = r.msg
      /\ Lead(e, r.msg) \in Nat
  BY Fields, Sizes DEF EndOK, Turn, Carries, Lead
<1>2. Taken(e, r) = Total(e, r.msg, len)
  BY <1>1, Sizes DEF Taken, Before, Total
<1>3. Total(e, r.msg, len) \in Nat /\ Total(e, r.msg, len) > 0 /\ Len(p) \in Nat
  BY <1>1, Sizes DEF Total
<1>4. Len(p) = 0
  BY <1>1, <1>2, <1>3 DEF Carries
<1>5. CASE HasSent(e, s, r.msg, len, Total(e, r.msg, len))
  <2>1. s.left \in Nat /\ s.step \in StepsOf(e)
    BY Fields
  <2>2. s.step # "wappid"
    <3>1. s.step = "wappid" => s.left > 0
      BY <2>1, Sizes DEF EndOK
    <3>2. s.step = "wappid" => Total(e, r.msg, len) = AppidLen - s.left /\ r.msg = 1 /\ e = "client"
      BY <1>5, <2>1 DEF HasSent, StepsOf, Ended, Setup, Ends
    <3> QED
      BY <2>1, <3>1, <3>2, Sizes DEF Total, Lead
  <2>3. s.step # "idle"
    <3>1. s.step = "idle" => Total(e, r.msg, len) = Lead(e, r.msg)
      BY <1>5 DEF HasSent
    <3> QED
      BY <1>1, <3>1, Sizes DEF Total
  <2>4. s.step # "whead"
    <3>1. s.step = "whead" => Total(e, r.msg, len) = Lead(e, r.msg) + HeadLen - s.left
      BY <1>5 DEF HasSent
    <3> QED
      BY <1>1, <2>1, <3>1, Sizes DEF Total
  <2>5. s.step # "wbody"
    <3>1. s.step = "wbody" => Total(e, r.msg, len) = Total(e, r.msg, len) - s.left
      BY <1>5 DEF HasSent
    <3>2. s.step = "wbody" => s.left > 0
      BY <2>1 DEF EndOK
    <3> QED
      BY <1>3, <2>1, <3>1, <3>2
  <2> DEFINE T == Total(e, r.msg, len)
  <2>6. T # 0
    BY <1>3
  <2> HIDE DEF T
  <2> QED
    BY <1>1, <1>4, <1>5, <2>2, <2>3, <2>4, <2>5, <2>6 DEF HasSent, T, Awaited
<1>6. Taken(e, r) + Len(p) = Total(e, r.msg, len)
  BY <1>2, <1>3, <1>4
<1> QED
  BY <1>1, <1>4, <1>5, <1>6

\* The client has read an item.
LEMMA ClientReceived ==
  ASSUME NEW c \in Conns, NEW x, NEW y, NEW p, NEW q, ConnOK(c, x, y, p, q),
         Reading(x), x.left = 0, NEW l \in LenChoices(x)
  PROVE  ConnOK(c, Follow(c, "client", x, l), y, p, q)
<1> DEFINE z == Follow(c, "client", x, l)
<1>1. /\ EndOK("client", x) /\ EndOK("daemon", y) /\ q \in Seq(Octets) /\ "daemon" \in Ends
      /\ "client" \in Ends /\ Other("daemon") = "client" /\ x.step \in {"rhead", "rbody"}
      /\ x.step \notin Ended \cup {"new", "connect", "idle"} /\ Turn(x) = x.msg
      /\ x.msg \in Nat /\ x.msg > 0
  BY Kinds, Fields DEF ConnOK, Ends, Other, Ended, StepsOf, Turn, EndOK
<1>2. y.step # "new" /\ y.step \notin Setup
  BY <1>1 DEF ConnOK
<1>3. PICK len \in Nat \ {0} :
        /\ Carries(c, "daemon", x, q, len)
        /\ y.step \in Ended \/ HasSent("daemon", y, Turn(x), len, Taken("daemon", x) + Len(q))
  BY <1>1 DEF ConnOK, Flow
<1>4. CASE x.step = "rhead"
  <2>1. /\ LenChoices(x) = {len} /\ Len(x.have) > 0
        /\ EndOK("client", At("rbody", x.msg, len, len))
        /\ At("rbody", x.msg, len, len).step = "rbody" /\ At("rbody", x.msg, len, len).msg = x.msg
        /\ Carries(c, "daemon", At("rbody", x.msg, len, len), q, len)
        /\ Turn(At("rbody", x.msg, len, len)) = Turn(x)
        /\ Taken("daemon", At("rbody", x.msg, len, len)) = Taken("daemon", x)
    BY <1>1, <1>3, <1>4, HeadRead
  <2>2. z = At("rbody", x.msg, len, len)
    BY <1>4, <2>1, Follows
  <2> HIDE DEF z
  <2>3. /\ EndOK("client", z) /\ z.step = "rbody" /\ z.msg = x.msg
        /\ Carries(c, "daemon", z, q, len) /\ Turn(z) = Turn(x) /\ Taken("daemon", z) = Taken("daemon", x)
    BY <2>1, <2>2
  <2>4. Flow(c, "daemon", y, z, q)
    BY <1>3, <2>3 DEF Flow
  <2>5. Flow(c, "client", z, y, p)
    <3> SUFFICES ASSUME Reading(y) PROVE Flow(c, "client", z, y, p)
      BY DEF Flow
    <3>1. PICK k \in Nat \ {0} :
            /\ Carries(c, "client", y, p, k)
            /\ HasSent("client", x, Turn(y), k, Taken("client", y) + Len(p))
      BY <1>1 DEF ConnOK, Flow
    <3>2. x.have # <<>>
      BY <2>1
    <3>3. HasSent("client", z, Turn(y), k, Taken("client", y) + Len(p))
      BY <1>4, <2>3, <3>1, <3>2 DEF HasSent
    <3> QED
      BY <3>1, <3>3 DEF Flow
  <2>6. Reading(z) /\ ~Writing(z) /\ z.step \notin Ended
    BY <2>3, Kinds DEF Ended
  <2> QED
    BY <1>1, <1>2, <2>3, <2>4, <2>5, <2>6 DEF ConnOK, z
<1>5. CASE x.step = "rbody"
  <2>1. /\ q = <<>>
        /\ \/ y.step \in Ended
           \/ y.step = "rhead" /\ y.have = <<>> /\ y.msg = x.msg + 1
    <3>1. q = <<>>
      BY <1>1, <1>3, <1>5, BodyRead, Zenon
    <3>2. \/ y.step \in Ended
          \/ y.step = "rhead" /\ y.have = <<>> /\ y.msg = Awaited("daemon", x.msg)
      BY <1>1, <1>3, <1>5, BodyRead, Zenon
    <3>3. Awaited("daemon", x.msg) = x.msg + 1
      BY DEF Awaited
    <3> QED
      BY <3>1, <3>2, <3>3
  <2>2. z = At("idle", x.msg, 0, 0)
    BY <1>5, Follows
  <2>3. EndOK("client", z) /\ z.step = "idle" /\ z.msg = x.msg
    BY <1>1, <2>2, Arrived DEF StepsOf
  <2> HIDE DEF z
  <2>4. ~Reading(z) /\ ~Writing(z) /\ ~Writing(y)
    BY <2>1, <2>3, Kinds DEF Ended
  <2>5. Flow(c, "client", z, y, p)
    <3> SUFFICES ASSUME Reading(y) PROVE Flow(c, "client", z, y, p)
      BY DEF Flow
    <3>1. y.step = "rhead" /\ Turn(y) = x.msg + 1
      BY <2>1, Kinds DEF Ended, Turn
    <3>2. PICK k \in Nat \ {0} :
            /\ Carries(c, "client", y, p, k)
            /\ HasSent("client", x, x.msg + 1, k, Taken("client", y) + Len(p))
      BY <1>1, <3>1 DEF ConnOK, Flow
    <3> DEFINE w == Taken("client", y) + Len(p)
    <3> HIDE DEF w
    <3>3. w = 0
      BY <1>5, <3>2 DEF HasSent, w
    <3>4. Lead("client", x.msg + 1) = 0
      BY <1>1 DEF Lead
    <3>5. HasSent("client", z, x.msg + 1, k, w)
      BY <1>1, <2>3, <3>3, <3>4 DEF HasSent
    <3> QED
      BY <3>1, <3>2, <3>5 DEF Flow, w
  <2>6. Flow(c, "daemon", y, z, q)
    BY <2>4 DEF Flow
  <2> QED
    BY <1>1, <1>2, <2>1, <2>3, <2>4, <2>5, <2>6 DEF ConnOK, z
<1> QED
  BY <1>1, <1>4, <1>5

\* The daemon has read an item.
LEMMA DaemonReceived ==
  ASSUME NEW c \in Conns, NEW x, NEW y, NEW p, NEW q, ConnOK(c, x, y, p, q),
         Reading(y), y.left = 0, NEW l \in LenChoices(y)
  PROVE  ConnOK(c, x, Follow(c, "daemon", y, l), p, q)
<1> DEFINE z == Follow(c, "daemon", y, l)
<1>1. /\ EndOK("client", x) /\ EndOK("daemon", y) /\ p \in Seq(Octets) /\ "client" \in Ends
      /\ "daemon" \in Ends /\ Other("client") = "daemon" /\ y.step \in {"rappid", "rhead", "rbody"}
      /\ y.step \notin Ended \cup {"new"} /\ y.step \notin Setup /\ y.msg \in Nat
  BY Kinds, Fields DEF ConnOK, Ends, Other, Ended, StepsOf, Setup
<1>2. x.step # "new" /\ x.step # "connect"
  BY <1>1 DEF ConnOK
<1>3. PICK len \in Nat \ {0} :
        /\ Carries(c, "client", y, p, len)
        /\ x.step \in Ended \/ HasSent("client", x, Turn(y), len, Taken("client", y) + Len(p))
  BY <1>1 DEF ConnOK, Flow
<1>4. ASSUME NEW r, EndOK("daemon", r), r.step \in {"rhead", "rbody"}, Turn(r) = Turn(y),
             r.msg = Turn(y), Taken("client", r) = Taken("client", y),
             Carries(c, "client", r, p, len),
             \A n, k, w : HasSent("daemon", y, n, k, w) => n = r.msg /\ w = 0
      PROVE  ConnOK(c, x, r, p, q)
  <2>1. Reading(r) /\ ~Writing(r) /\ r.step # "new" /\ r.step \notin Setup
    BY <1>4, Kinds DEF Setup
  <2>2. Flow(c, "client", x, r, p)
    BY <1>3, <1>4 DEF Flow
  <2>3. \A n, k, w : HasSent("daemon", y, n, k, w) => HasSent("daemon", r, n, k, w)
    <3> SUFFICES ASSUME NEW n, NEW k, NEW w, HasSent("daemon", y, n, k, w)
                 PROVE  HasSent("daemon", r, n, k, w)
      OBVIOUS
    <3>1. n = r.msg /\ w = 0 /\ r.step \in {"rhead", "rbody"}
      BY <1>4
    <3> QED
      BY <3>1 DEF HasSent
  <2>4. Flow(c, "daemon", r, x, q)
    BY <1>1, <2>3 DEF ConnOK, Flow
  <2> QED
    BY <1>1, <1>2, <1>4, <2>1, <2>2, <2>4 DEF ConnOK
<1>5. CASE y.step = "rappid"
  <2>1. z = At("rhead", 1, 0, HeadLen)
    BY <1>5, Follows
  <2>2. /\ EndOK("daemon", z) /\ z.step = "rhead" /\ z.msg = 1 /\ z.have = <<>>
        /\ Len(z.have) = 0
    <3> DEFINE d == "daemon"
               h == "rhead"
               i == 1
               o == 0
    <3>1. d \in Ends /\ i \in Nat /\ i > 0 /\ o \in Nat /\ h \in StepsOf(d) /\ HeadLen \in Nat
      BY Sizes DEF StepsOf, Ends
    <3>2. h \notin {"wappid", "rappid", "whead", "wbody", "rbody"}
      OBVIOUS
    <3> HIDE DEF d, h, i, o
    <3>3. /\ EndOK(d, At(h, i, o, HeadLen)) /\ At(h, i, o, HeadLen).step = h
          /\ At(h, i, o, HeadLen).msg = i /\ At(h, i, o, HeadLen).have = <<>>
          /\ Len(At(h, i, o, HeadLen).have) = 0
      BY ONLY <3>1, <3>2, Arrived
    <3> QED
      BY <2>1, <3>3 DEF d, h, i, o
  <2> HIDE DEF z
  <2>3. /\ Turn(y) = 1 /\ Turn(z) = 1 /\ Taken("client", y) = AppidLen
        /\ Taken("client", z) = AppidLen
    BY <1>1, <1>5, <2>2, Fields, Sizes DEF Turn, Taken, Before, Lead, EndOK
  <2>4. Carries(c, "client", z, p, len)
    BY <1>3, <2>2, <2>3 DEF Carries
  <2>5. \A n, k, w : HasSent("daemon", y, n, k, w) => n = 1 /\ w = 0
    BY <1>5 DEF HasSent
  <2> QED
    BY <1>4, <2>2, <2>3, <2>4, <2>5 DEF z
<1>6. CASE y.step = "rhead"
  <2>1. /\ LenChoices(y) = {len} /\ Len(y.have) > 0
        /\ EndOK("daemon", At("rbody", y.msg, len, len))
        /\ At("rbody", y.msg, len, len).step = "rbody" /\ At("rbody", y.msg, len, len).msg = y.msg
        /\ Carries(c, "client", At("rbody", y.msg, len, len), p, len)
        /\ Turn(At("rbody", y.msg, len, len)) = Turn(y)
        /\ Taken("client", At("rbody", y.msg, len, len)) = Taken("client", y)
    BY <1>1, <1>3, <1>6, HeadRead
  <2>2. z = At("rbody", y.msg, len, len)
    BY <1>6, <2>1, Follows
  <2> HIDE DEF z
  <2>3. /\ EndOK("daemon", z) /\ z.step = "rbody" /\ z.msg = y.msg
        /\ Carries(c, "client", z, p, len) /\ Turn(z) = Turn(y) /\ Taken("client", z) = Taken("client", y)
    BY <2>1, <2>2
  <2>4. \A n, k, w : HasSent("daemon", y, n, k, w) => n = y.msg /\ w = 0
    <3>1. y.have # <<>>
      BY <2>1
    <3> QED
      BY <1>6, <3>1 DEF HasSent
  <2>5. Turn(y) = y.msg
    BY <1>6 DEF Turn
  <2> QED
    BY <1>4, <2>3, <2>4, <2>5 DEF z
<1>7. CASE y.step = "rbody"
  <2>1. /\ p = <<>> /\ Turn(y) = y.msg
        /\ \/ x.step \in Ended
           \/ x.step = "rhead" /\ x.have = <<>> /\ x.msg = y.msg
    <3>1. /\ p = <<>> /\ Turn(y) = y.msg
          /\ \/ x.step \in Ended
             \/ x.step = "rhead" /\ x.have = <<>> /\ x.msg = Awaited("client", y.msg)
      BY <1>1, <1>3, <1>7, BodyRead, Zenon
    <3>3. Awaited("client", y.msg) = y.msg
      BY DEF Awaited
    <3> QED
      BY <3>1, <3>3
  <2>2. z = At("whead", y.msg, l, HeadLen)
    BY <1>7, Follows
  <2>3. l \in Nat \ {0} /\ y.msg > 0
    BY <1>1, <1>7, TransportAssumption DEF LenChoices, EndOK
  <2>4. EndOK("daemon", z) /\ z.step = "whead" /\ z.msg = y.msg /\ z.len = l /\ z.left = HeadLen
    BY <1>1, <2>2, <2>3, Arrived, Sizes DEF StepsOf
  <2> HIDE DEF z
  <2>5. ~Reading(z) /\ Writing(z) /\ ~Writing(x) /\ x.step # "idle"
    BY <2>1, <2>4, Kinds DEF Ended
  <2>6. Flow(c, "client", x, z, p)
    BY <2>5 DEF Flow
  <2>7. ASSUME Reading(x) PROVE x.step = "rhead" /\ Flow(c, "daemon", z, x, q) /\ x.msg = y.msg
    <3>1. x.step = "rhead" /\ x.have = <<>> /\ x.msg = y.msg /\ Turn(x) = y.msg /\ Len(x.have) = 0
      BY <2>1, <2>7, Kinds DEF Ended, Turn
    <3>2. Before("daemon", x) = 0 /\ q \in Seq(Octets)
      BY <3>1 DEF Before, Lead, ConnOK
    <3>3. Taken("daemon", x) = 0
      BY <3>1, <3>2 DEF Taken
    <3>4. PICK k \in Nat \ {0} : HasSent("daemon", y, y.msg, k, Taken("daemon", x) + Len(q))
      BY <1>1, <2>7, <3>1 DEF ConnOK, Flow
    <3> DEFINE w == Taken("daemon", x) + Len(q)
    <3> HIDE DEF w
    <3>5. w = 0
      BY <1>7, <3>4 DEF HasSent, w
    <3>6. q = <<>>
      BY <3>2, <3>3, <3>5 DEF w
    <3>7. Carries(c, "daemon", x, q, l) /\ Taken("daemon", x) + Len(q) = 0
      BY <1>1, <2>3, <2>7, <3>1, <3>2, <3>6, CarriesNone
    <3>8. HasSent("daemon", z, y.msg, l, 0)
      BY <2>4, Sizes DEF HasSent, Lead
    <3> QED
      BY <2>3, <3>1, <3>7, <3>8 DEF Flow
  <2>8. Flow(c, "daemon", z, x, q)
    BY <2>7 DEF Flow
  <2>9. x.step \in Ended \/ (Reading(x) /\ x.msg = z.msg)
    BY <2>1, <2>4, Kinds
  <2>10. z.step # "new" /\ z.step \notin Setup
    BY <2>4 DEF Setup
  <2> QED
    BY <1>1, <1>2, <2>1, <2>4, <2>5, <2>6, <2>8, <2>9, <2>10 DEF ConnOK, z
<1> QED
  BY <1>1, <1>5, <1>6, <1>7

\* The application makes a call of len bytes.  Until then the daemon can only
\* have read of the application id.
LEMMA Calls ==
  ASSUME NEW c \in Conns, NEW x, NEW y, NEW p, NEW q, ConnOK(c, x, y, p, q),
         x.step = "idle", NEW len \in Nat \ {0}
  PROVE  ConnOK(c, At("whead", x.msg + 1, len, HeadLen), y, p, q)
<1> DEFINE z == At("whead", x.msg + 1, len, HeadLen)
<1>1. EndOK("client", x) /\ EndOK("daemon", y) /\ p \in Seq(Octets) /\ x.msg \in Nat
  BY Fields DEF ConnOK
<1>2. /\ EndOK("client", z) /\ z.step = "whead" /\ z.msg = x.msg + 1 /\ z.len = len
      /\ z.left = HeadLen
  <2>1. x.msg + 1 \in Nat /\ x.msg + 1 > 0 /\ "whead" \in StepsOf("client") /\ "client" \in Ends
    BY <1>1 DEF StepsOf, Ends
  <2> QED
    BY <2>1, Arrived, Sizes
<1> HIDE DEF z
<1>3. Writing(z) /\ ~Reading(z) /\ ~Writing(x) /\ ~Reading(x) /\ x.step \notin Ended
  BY <1>2, Kinds DEF Ended
<1>4. ~Writing(y) /\ y.step # "new" /\ y.step \notin Setup /\ q = <<>>
  BY <1>3 DEF ConnOK
<1>5. Flow(c, "client", z, y, p)
  <2> SUFFICES ASSUME Reading(y) PROVE Flow(c, "client", z, y, p)
    BY DEF Flow
  <2> DEFINE n == Turn(y)
             w == Taken("client", y) + Len(p)
             b == Before("client", y)
             L == Lead("client", n)
  <2>1. PICK k \in Nat \ {0} : Carries(c, "client", y, p, k) /\ HasSent("client", x, n, k, w)
    BY <1>3 DEF ConnOK, Flow
  <2>2. n \in Nat \ {0} /\ b \in Nat /\ Taken("client", y) \in Nat /\ Len(p) \in Nat
    BY <1>1, Places
  <2>3. L \in Nat /\ Len(y.have) \in Nat
    BY <1>1, Sizes, Fields DEF Lead
  <2>4. x.msg = n - 1 /\ w = L
    <3> HIDE DEF n, w
    <3> QED
      BY <2>1 DEF HasSent
  <2>5. \A i : i <= L => OctetAt(c, "client", n, len, i) = OctetAt(c, "client", n, k, i)
    BY DEF OctetAt
  <2>6. Taken("client", y) = b + Len(y.have)
    BY DEF Taken
  <2>7. y.step # "rbody"
    <3>1. y.step = "rbody" => b = L + HeadLen
      BY DEF Before, Turn
    <3> HIDE DEF b, L
    <3> QED
      BY <2>2, <2>3, <2>4, <2>6, <3>1, Sizes
  <2>8. ASSUME NEW i \in 1 .. Len(y.have) PROVE b + i <= L
    <3> HIDE DEF b, L
    <3> QED
      BY <2>2, <2>3, <2>4, <2>6
  <2>9. ASSUME NEW i \in 1 .. Len(p) PROVE Taken("client", y) + i <= L
    <3> HIDE DEF b, L
    <3> QED
      BY <2>2, <2>3, <2>4, <2>6
  <2>10. w <= Total("client", n, len)
    BY <2>3, <2>4, Sizes DEF Total
  <2>11. Carries(c, "client", y, p, len)
    <3> HIDE DEF n, b, L
    <3>1. \A i \in 1 .. Len(y.have) : y.have[i] = OctetAt(c, "client", n, len, b + i)
      BY <2>1, <2>5, <2>8 DEF Carries, n, b
    <3>2. \A i \in 1 .. Len(p) : p[i] = OctetAt(c, "client", n, len, Taken("client", y) + i)
      BY <2>1, <2>5, <2>9 DEF Carries, n
    <3> QED
      BY <2>7, <2>10, <3>1, <3>2 DEF Carries, n, b
  <2>12. HasSent("client", z, n, len, w)
    <3>1. z.msg = n /\ w = L + HeadLen - z.left
      <4> HIDE DEF n, w, L
      <4> QED
        BY <1>1, <1>2, <2>2, <2>3, <2>4, Sizes
    <3> HIDE DEF n, w
    <3> QED
      BY <1>2, <3>1 DEF HasSent
  <2> QED
    BY <2>11, <2>12 DEF Flow
<1>6. Flow(c, "daemon", y, z, q)
  BY <1>3 DEF Flow
<1> QED
  BY <1>1, <1>2, <1>3, <1>4, <1>5, <1>6 DEF ConnOK, z

\* The daemon, which inetd started, takes an error for success when its
\* client has ended.
LEMMA DaemonSkips ==
  ASSUME NEW c \in Conns, NEW x, NEW y, NEW p, NEW q, ConnOK(c, x, y, p, q),
         Writing(y), x.step \in Ended
  PROVE  ConnOK(c, x, Follow(c, "daemon", y, y.len), p, q)
<1> DEFINE z == Follow(c, "daemon", y, y.len)
<1>1. /\ EndOK("client", x) /\ EndOK("daemon", y) /\ p = <<>> /\ "daemon" \in Ends
      /\ y.step \in {"whead", "wbody"} /\ y.msg \in Nat /\ y.msg > 0 /\ y.len \in Nat /\ y.len > 0
  BY Kinds, Fields DEF ConnOK, Ends, Ended, StepsOf, Setup, EndOK
<1>2. ~Reading(x) /\ ~Writing(x) /\ x.step \notin {"new", "connect", "idle"}
  BY Kinds DEF Ended
<1>3. EndOK("daemon", z) /\ (z.step = "wbody" \/ (z.step = "rhead" /\ Len(z.have) = 0))
  <2>1. CASE y.step = "whead"
    <3>1. z = At("wbody", y.msg, y.len, y.len)
      BY <2>1, Follows
    <3>2. "wbody" \in StepsOf("daemon")
      BY DEF StepsOf
    <3> QED
      BY <1>1, <3>1, <3>2, Arrived
  <2>2. CASE y.step = "wbody"
    <3>1. z = At("rhead", y.msg + 1, 0, HeadLen)
      BY <2>2, Follows
    <3>2. "rhead" \in StepsOf("daemon") /\ y.msg + 1 \in Nat /\ y.msg + 1 > 0
      BY <1>1 DEF StepsOf
    <3> QED
      BY <1>1, <3>1, <3>2, Arrived, Sizes
  <2> QED
    BY <1>1, <2>1, <2>2
<1> HIDE DEF z
<1>4. Flow(c, "client", x, z, p)
  <2> SUFFICES ASSUME Reading(z) PROVE Flow(c, "client", x, z, p)
    BY DEF Flow
  <2>1. z.step = "rhead" /\ Len(z.have) = 0
    BY <1>3, Kinds
  <2>2. Carries(c, "client", z, p, 1)
    BY <1>1, <1>3, <2>1, CarriesNone
  <2> QED
    BY <2>2 DEF Flow
<1>5. Flow(c, "daemon", z, x, q)
  BY <1>2 DEF Flow
<1>6. z.step # "new" /\ z.step \notin Setup
  BY <1>3 DEF Setup
<1> QED
  BY <1>1, <1>2, <1>3, <1>4, <1>5, <1>6 DEF ConnOK, z

-----------------------------------------------------------------------------
(* The invariant.                                                          *)

\* The ways to run the daemon for which it is proved that items arrive whole:
\* connections over TLS are used one after the other, and inetd gives the
\* daemon a connection that transfers what it is asked for and does not break.
AsMeant ==
  /\ "tls" \in Modes => Serial
  /\ "inetd" \in Modes => "inetd" \in WholeIo \ Breaks

Shaped(f) == f = [c \in Conns |-> [e \in Ends |-> f[c][e]]]

Inv ==
  /\ mode \in Modes /\ (mode = "inetd" => broken = {})
  /\ Shaped(ep) /\ Shaped(pipe) /\ sslbio = [c \in Conns |-> sslbio[c]]
  /\ \A c \in Conns : Conn(c)
  /\ TlsInv

\* One value of such a table changes.
Put(f, c, e, v) == [f EXCEPT ![c][e] = v]

LEMMA Placed ==
  ASSUME NEW f, Shaped(f), NEW c \in Conns, NEW e \in Ends, NEW v
  PROVE  /\ Shaped(Put(f, c, e, v)) /\ Put(f, c, e, v)[c][e] = v
         /\ \A d \in Conns, o \in Ends :
              d # c \/ o # e => Put(f, c, e, v)[d][o] = f[d][o]
  BY DEF Shaped, Put

\* A side that goes from x to z is not active for the first time, nor does it
\* set up TLS.
Advances(e, x, z) ==
  \/ z.step \in {x.step, "new"} \cup Ended
  \/ /\ x.step \notin {"new"} \cup Ended /\ z.step \notin {"BIO_new", "SSL_set_bio"}
     /\ e = "daemon" => x.step = "SSL_accept" \/ Running(x)

LEMMA TlsKept ==
  ASSUME TlsInv, UNCHANGED <<mode, tls>>,
         \A d \in Conns, o \in Ends : Advances(o, ep[d][o], ep'[d][o])
  PROVE  TlsInv'
<1> SUFFICES ASSUME mode = "tls" PROVE TlsInv'
  BY DEF TlsInv
<1>1. \A d \in Conns : Active(d)' => Active(d)
  BY DEF Active, Advances
<1>2. ssl' = ssl /\ bio' = bio /\ sslbio' = sslbio /\ mode' = mode /\ "daemon" \in Ends
  BY DEF tls, Ends
<1>3. \A c, d \in Conns : Active(c)' /\ Active(d)' => c = d
  BY <1>1 DEF TlsInv
<1>4. ASSUME NEW c \in Conns
      PROVE  LET y == ep'[c]["daemon"]
             IN  /\ y.step = "BIO_new" => ssl = c
                 /\ y.step = "SSL_set_bio" => ssl = c /\ bio = c
                 /\ y.step = "SSL_accept" \/ Running(y) => ssl = c /\ sslbio[c] = c
  <2> DEFINE y == ep[c]["daemon"]
             z == ep'[c]["daemon"]
  <2>1. /\ y.step = "BIO_new" => ssl = c
        /\ y.step = "SSL_set_bio" => ssl = c /\ bio = c
        /\ y.step = "SSL_accept" \/ Running(y) => ssl = c /\ sslbio[c] = c
    BY DEF TlsInv
  <2>2. Advances("daemon", y, z)
    BY <1>2
  <2> HIDE DEF y, z
  <2>3. /\ Running(y) <=> y.step \in {"wappid", "whead", "wbody", "rappid", "rhead", "rbody"}
        /\ Running(z) <=> z.step \in {"wappid", "whead", "wbody", "rappid", "rhead", "rbody"}
    BY Kinds DEF Running
  <2>4. /\ z.step = "BIO_new" => ssl = c
        /\ z.step = "SSL_set_bio" => ssl = c /\ bio = c
        /\ z.step = "SSL_accept" \/ Running(z) => ssl = c /\ sslbio[c] = c
    BY <2>1, <2>2, <2>3 DEF Advances, Ended
  <2> QED
    BY <2>4 DEF z
<1> QED
  BY <1>2, <1>3, <1>4 DEF TlsInv

\* The socket the daemon uses is its own.
LEMMA Channel ==
  ASSUME Inv, NEW c \in Conns, NEW e \in Ends,
         e = "daemon" => ep[c][e].step = "SSL_accept" \/ Running(ep[c][e])
  PROVE  Chan(c, e) = c /\ c # None
<1>1. c # None
  BY TransportAssumption
<1> QED
  BY <1>1 DEF Chan, Inv, TlsInv, Ends

\* Side e of connection c goes to z.
LEMMA Moves ==
  ASSUME Inv, NEW c \in Conns, NEW e \in Ends, NEW z, ep' = [ep EXCEPT ![c][e] = z],
         Advances(e, ep[c][e], z), UNCHANGED <<mode, broken, tls>>,
         Shaped(pipe)', \A d \in Conns \ {c}, o \in Ends : pipe'[d][o] = pipe[d][o],
         e = "client" => ConnOK(c, z, ep[c]["daemon"], pipe'[c]["client"], pipe'[c]["daemon"]),
         e = "daemon" => ConnOK(c, ep[c]["client"], z, pipe'[c]["client"], pipe'[c]["daemon"])
  PROVE  Inv'
<1>1. /\ Shaped(ep)' /\ ep'[c][e] = z
      /\ \A d \in Conns, o \in Ends : d # c \/ o # e => ep'[d][o] = ep[d][o]
  <2>1. Shaped(ep) /\ ep' = Put(ep, c, e, z)
    BY DEF Inv, Put
  <2>2. /\ Shaped(Put(ep, c, e, z)) /\ Put(ep, c, e, z)[c][e] = z
        /\ \A d \in Conns, o \in Ends :
             d # c \/ o # e => Put(ep, c, e, z)[d][o] = ep[d][o]
    BY <2>1, Placed
  <2> QED
    BY <2>1, <2>2
<1>2. TlsInv'
  <2>1. \A d \in Conns, o \in Ends : Advances(o, ep[d][o], ep'[d][o])
    BY <1>1 DEF Advances
  <2> QED
    BY <2>1, TlsKept DEF Inv
<1>3. ASSUME NEW d \in Conns PROVE Conn(d)'
  <2>1. CASE d = c
    BY <1>1, <2>1 DEF Conn, Ends
  <2>2. CASE d # c
    <3>1. /\ ep'[d]["client"] = ep[d]["client"] /\ ep'[d]["daemon"] = ep[d]["daemon"]
          /\ pipe'[d]["client"] = pipe[d]["client"] /\ pipe'[d]["daemon"] = pipe[d]["daemon"]
      BY <1>1, <2>2 DEF Ends
    <3> QED
      BY <3>1 DEF Conn, Inv
  <2> QED
    BY <2>1, <2>2
<1> QED
  BY <1>1, <1>2, <1>3 DEF Inv, tls

\* Steps that follow an item.
LEMMA FollowStep ==
  ASSUME NEW c, NEW e, NEW x, Running(x), NEW len
  PROVE  Follow(c, e, x, len).step \in {"idle", "rhead", "rbody", "whead", "wbody"}
<1>1. x.step \in {"wappid", "whead", "wbody", "rappid", "rhead", "rbody"}
  BY Kinds DEF Running
<1>2. \A l, n, k, f : At(l, n, k, f).step = l
  BY DEF At
<1> QED
  BY <1>1, <1>2, Follows

LEMMA RunsOn ==
  ASSUME NEW e, NEW x, Running(x), NEW z,
         z.step \in {x.step, "idle", "rhead", "rbody", "whead", "wbody"} \cup Ended
  PROVE  Advances(e, x, z)
<1>1. x.step \in {"wappid", "whead", "wbody", "rappid", "rhead", "rbody"}
  BY Kinds DEF Running
<1> QED
  BY <1>1 DEF Advances, Ended

\* Each side of each connection is as it should be.
LEMMA Sides ==
  ASSUME Inv, NEW c \in Conns
  PROVE  /\ ConnOK(c, ep[c]["client"], ep[c]["daemon"], pipe[c]["client"], pipe[c]["daemon"])
         /\ \A e \in Ends : EndOK(e, ep[c][e])
  BY DEF Inv, Conn, ConnOK, Ends

LEMMA SendStep ==
  ASSUME Inv, AsMeant, NEW c \in Conns, NEW e \in Ends, Send(c, e)
  PROVE  Inv'
<1> DEFINE x == ep[c][e]
<1>1. Writing(x) /\ Running(x)
  BY DEF Send, Running
<1>2. Chan(c, e) = c /\ c # None
  BY <1>1, Channel
<1>3. ep[c][Other(e)].step \notin Ended /\ UNCHANGED <<mode, broken, tls>>
  BY <1>2 DEF Send, Gone, Closed
<1>4. PICK r \in Portions(c, e, x.left) :
        /\ pipe' = [pipe EXCEPT ![c][e] = pipe[c][e] \o Sent(c, e, x, r)]
        /\ ep' = [ep EXCEPT ![c][e] = IF LoopEnds(e, x.left - r) THEN Follow(c, e, x, x.len)
                                      ELSE [x EXCEPT !.left = @ - r]]
  BY <1>2 DEF Send, SetEp
<1>5. EndOK(e, x) /\ x.left \in Nat /\ x.left > 0
  <2>1. EndOK(e, x) /\ x.step \in {"wappid", "whead", "wbody"} /\ x.left \in Nat
    BY <1>1, Sides, Fields, Kinds
  <2>2. x.left > 0
    BY <2>1, Fields, Sizes DEF EndOK
  <2> QED
    BY <2>1, <2>2
<1>6. r \in 1 .. x.left /\ (mode = "inetd" => r = x.left)
  <2>1. mode = "inetd" => mode \in WholeIo
    BY DEF AsMeant, Inv
  <2> QED
    BY <1>5, <2>1 DEF Portions
<1>7. ep' = [ep EXCEPT ![c][e] = After(c, e, x, r)]
  <2>1. LoopEnds(e, x.left - r) <=> x.left - r = 0
    BY <1>5, <1>6 DEF LoopEnds
  <2> QED
    BY <1>4, <2>1 DEF After
<1>8. /\ Shaped(pipe)' /\ pipe'[c][e] = pipe[c][e] \o Sent(c, e, x, r)
      /\ \A d \in Conns, o \in Ends : d # c \/ o # e => pipe'[d][o] = pipe[d][o]
  <2> DEFINE v == pipe[c][e] \o Sent(c, e, x, r)
  <2>1. Shaped(pipe) /\ pipe' = Put(pipe, c, e, v)
    BY <1>4 DEF Inv, Put
  <2> HIDE DEF v
  <2>2. /\ Shaped(Put(pipe, c, e, v)) /\ Put(pipe, c, e, v)[c][e] = v
        /\ \A d \in Conns, o \in Ends :
             d # c \/ o # e => Put(pipe, c, e, v)[d][o] = pipe[d][o]
    BY <2>1, Placed
  <2> QED
    BY <2>1, <2>2 DEF v
<1>9. Advances(e, x, After(c, e, x, r))
  <2>1. After(c, e, x, r).step \in {x.step, "idle", "rhead", "rbody", "whead", "wbody"}
    <3>1. x.left - r # 0 => After(c, e, x, r).step = x.step
      BY <1>1, <1>5, <1>6, WritesOn DEF After
    <3>2. x.left - r = 0 => After(c, e, x, r) = Follow(c, e, x, x.len)
      BY DEF After
    <3> QED
      BY <1>1, <3>1, <3>2, FollowStep
  <2> QED
    BY <1>1, <2>1, RunsOn
<1> DEFINE z == After(c, e, x, r)
<1>10. CASE e = "client"
  <2>1. ConnOK(c, z, ep[c]["daemon"], pipe'[c]["client"], pipe'[c]["daemon"])
    <3>1. ep[c]["daemon"].step \notin Ended
      BY <1>3, <1>10 DEF Other
    <3>2. ConnOK(c, After(c, "client", ep[c]["client"], r), ep[c]["daemon"],
                 pipe[c]["client"] \o Sent(c, "client", ep[c]["client"], r), pipe[c]["daemon"])
      BY <1>1, <1>6, <1>10, <3>1, Sides, ClientSends
    <3>3. pipe'[c]["daemon"] = pipe[c]["daemon"]
      BY <1>8, <1>10 DEF Ends
    <3> QED
      BY <1>8, <1>10, <3>2, <3>3
  <2> HIDE DEF z
  <2>2. ep' = [ep EXCEPT ![c][e] = z] /\ Advances(e, ep[c][e], z)
    BY <1>7, <1>9 DEF z
  <2> QED
    BY <1>3, <1>8, <1>10, <2>1, <2>2, Moves
<1>11. CASE e = "daemon"
  <2>1. ConnOK(c, ep[c]["client"], z, pipe'[c]["client"], pipe'[c]["daemon"])
    <3>1. ep[c]["client"].step \notin Ended
      BY <1>3, <1>11 DEF Other
    <3>2. ConnOK(c, ep[c]["client"], After(c, "daemon", ep[c]["daemon"], r),
                 pipe[c]["client"], pipe[c]["daemon"] \o Sent(c, "daemon", ep[c]["daemon"], r))
      BY <1>1, <1>6, <1>11, <3>1, Sides, DaemonSends
    <3>3. pipe'[c]["client"] = pipe[c]["client"]
      BY <1>8, <1>11 DEF Ends
    <3> QED
      BY <1>8, <1>11, <3>2, <3>3
  <2> HIDE DEF z
  <2>2. ep' = [ep EXCEPT ![c][e] = z] /\ Advances(e, ep[c][e], z)
    BY <1>7, <1>9 DEF z
  <2> QED
    BY <1>3, <1>8, <1>11, <2>1, <2>2, Moves
<1> QED
  BY <1>10, <1>11 DEF Ends

LEMMA RecvStep ==
  ASSUME Inv, AsMeant, NEW c \in Conns, NEW e \in Ends, Recv(c, e)
  PROVE  Inv'
<1> DEFINE x == ep[c][e]
           o == Other(e)
           q == pipe[c][o]
<1>0. o \in Ends /\ o # e
  BY DEF Other, Ends
<1>1. Reading(x) /\ Running(x)
  BY DEF Recv, Running
<1>2. Chan(c, e) = c /\ c # None
  BY <1>1, Channel
<1>3. EndOK(e, x) /\ x.left \in Nat /\ UNCHANGED <<mode, broken, tls>>
  BY Sides, Fields DEF Recv
<1>4. PICK r \in 1 .. x.left :
        /\ r <= Len(q) /\ (mode \in WholeIo => r = x.left)
        /\ pipe' = [pipe EXCEPT ![c][o] = Rest(q, r)]
        /\ ep' = [ep EXCEPT ![c][e] = IF ReadEnds(e, Got(x, q, r).left)
                                      THEN [Got(x, q, r) EXCEPT !.left = 0] ELSE Got(x, q, r)]
  BY <1>2 DEF Recv, SetEp, Rest, Got
<1> DEFINE z == Got(x, q, r)
<1> HIDE DEF q, z
<1>5. ConnOK(c, IF e = "client" THEN z ELSE ep[c]["client"], IF e = "daemon" THEN z ELSE ep[c]["daemon"],
             IF e = "client" THEN pipe[c]["client"] ELSE Rest(q, r),
             IF e = "daemon" THEN pipe[c]["daemon"] ELSE Rest(q, r))
        /\ z.left = x.left - r
  <2>1. CASE e = "client"
    <3>1. x = ep[c]["client"] /\ q = pipe[c]["daemon"]
      BY <2>1 DEF Other, q
    <3>2. /\ ConnOK(c, z, ep[c]["daemon"], pipe[c]["client"], Rest(q, r))
          /\ z.left = x.left - r
      BY <1>1, <1>4, <3>1, Sides, ClientGets DEF z
    <3> QED
      BY <2>1, <3>2
  <2>2. CASE e = "daemon"
    <3>1. x = ep[c]["daemon"] /\ q = pipe[c]["client"]
      BY <2>2 DEF Other, q
    <3>2. /\ ConnOK(c, ep[c]["client"], z, Rest(q, r), pipe[c]["daemon"])
          /\ z.left = x.left - r
      BY <1>1, <1>4, <3>1, Sides, DaemonGets DEF z
    <3> QED
      BY <2>2, <3>2
  <2> QED
    BY <2>1, <2>2 DEF Ends
<1>6. EndOK(e, z) /\ z.step = x.step
  <2>1. EndOK(e, z)
    BY <1>5 DEF ConnOK, Ends
  <2>2. z.step = x.step
    BY <1>3 DEF z, Got, EndOK
  <2> QED
    BY <2>1, <2>2
<1>7. ep' = [ep EXCEPT ![c][e] = z]
  <2>1. ReadEnds(e, z.left) => z.left = 0
    <3>1. mode = "inetd" => mode \in WholeIo
      BY DEF AsMeant, Inv
    <3> QED
      BY <1>3, <1>4, <1>5, <3>1 DEF ReadEnds, LoopEnds
  <2>2. z.left = 0 => [z EXCEPT !.left = 0] = z
    BY <1>6 DEF EndOK
  <2> QED
    BY <1>4, <2>1, <2>2 DEF z
<1>8. /\ Shaped(pipe)' /\ pipe'[c][o] = Rest(q, r)
      /\ \A d \in Conns, f \in Ends : d # c \/ f # o => pipe'[d][f] = pipe[d][f]
  <2> DEFINE v == Rest(q, r)
  <2>1. Shaped(pipe) /\ pipe' = Put(pipe, c, o, v)
    BY <1>4 DEF Inv, Put
  <2> HIDE DEF v, o
  <2>2. /\ Shaped(Put(pipe, c, o, v)) /\ Put(pipe, c, o, v)[c][o] = v
        /\ \A d \in Conns, f \in Ends :
             d # c \/ f # o => Put(pipe, c, o, v)[d][f] = pipe[d][f]
    BY <1>0, <2>1, Placed
  <2> QED
    BY <2>1, <2>2 DEF v
<1>9. Advances(e, x, z)
  BY <1>1, <1>6, RunsOn
<1>10. CASE e = "client"
  <2>1. ConnOK(c, z, ep[c]["daemon"], pipe'[c]["client"], pipe'[c]["daemon"])
    BY <1>5, <1>8, <1>10 DEF Other, Ends
  <2> QED
    BY <1>3, <1>7, <1>8, <1>9, <1>10, <2>1, Moves
<1>11. CASE e = "daemon"
  <2>1. ConnOK(c, ep[c]["client"], z, pipe'[c]["client"], pipe'[c]["daemon"])
    BY <1>5, <1>8, <1>11 DEF Other, Ends
  <2> QED
    BY <1>3, <1>7, <1>8, <1>9, <1>11, <2>1, Moves
<1> QED
  BY <1>10, <1>11 DEF Ends

\* A side goes to z and nothing is sent or received.
LEMMA MovesAlone ==
  ASSUME Inv, NEW c \in Conns, NEW e \in Ends, NEW z, ep' = [ep EXCEPT ![c][e] = z],
         Advances(e, ep[c][e], z), UNCHANGED <<mode, pipe, broken, tls>>,
         e = "client" => ConnOK(c, z, ep[c]["daemon"], pipe[c]["client"], pipe[c]["daemon"]),
         e = "daemon" => ConnOK(c, ep[c]["client"], z, pipe[c]["client"], pipe[c]["daemon"])
  PROVE  Inv'
<1>1. pipe' = pipe /\ Shaped(pipe)'
  BY DEF Inv
<1> QED
  BY <1>1, Moves

LEMMA ReceivedStep ==
  ASSUME Inv, NEW c \in Conns, NEW e \in Ends, Received(c, e)
  PROVE  Inv'
<1> DEFINE x == ep[c][e]
<1>1. Reading(x) /\ Running(x) /\ x.left = 0 /\ UNCHANGED <<mode, pipe, broken, tls>>
  BY DEF Received, Running
<1>2. PICK l \in LenChoices(x) : ep' = [ep EXCEPT ![c][e] = Follow(c, e, x, l)]
  BY DEF Received, SetEp
<1> DEFINE z == Follow(c, e, x, l)
<1>3. Advances(e, x, z)
  BY <1>1, FollowStep, RunsOn
<1>4. e = "client" => ConnOK(c, z, ep[c]["daemon"], pipe[c]["client"], pipe[c]["daemon"])
  BY <1>1, Sides, ClientReceived
<1>5. e = "daemon" => ConnOK(c, ep[c]["client"], z, pipe[c]["client"], pipe[c]["daemon"])
  BY <1>1, Sides, DaemonReceived
<1> HIDE DEF z
<1>6. ep' = [ep EXCEPT ![c][e] = z]
  BY <1>2 DEF z
<1> QED
  BY <1>1, <1>3, <1>4, <1>5, <1>6, MovesAlone

\* A side that gives up.
LEMMA EndsStep ==
  ASSUME Inv, NEW c \in Conns, NEW e \in Ends, ep[c][e].step # "new",
         GiveUp(c, e), UNCHANGED <<mode, pipe, broken, tls>>
  PROVE  Inv'
<1> DEFINE z == At("end", 0, 0, 0)
<1>1. z.step = "end" /\ "end" \in Ended
  BY DEF At, Ended
<1>2. Advances(e, ep[c][e], z)
  BY <1>1 DEF Advances
<1>3. e = "client" => ConnOK(c, z, ep[c]["daemon"], pipe[c]["client"], pipe[c]["daemon"])
  BY <1>1, Sides, ClientEnds
<1>4. e = "daemon" => ConnOK(c, ep[c]["client"], z, pipe[c]["client"], pipe[c]["daemon"])
  BY <1>1, Sides, DaemonEnds
<1>5. ep' = [ep EXCEPT ![c][e] = z]
  BY DEF GiveUp, SetEp
<1> HIDE DEF z
<1> QED
  BY <1>2, <1>3, <1>4, <1>5, MovesAlone

LEMMA KilledStep ==
  ASSUME Inv, NEW e \in Ends, Killed(e), UNCHANGED <<mode, pipe, broken, tls>>
  PROVE  Inv'
<1> DEFINE z == At("killed", 0, 0, 0)
<1>1. z.step = "killed" /\ "killed" \in Ended
  BY DEF At, Ended
<1>2. /\ Shaped(ep)'
      /\ \A c \in Conns, o \in Ends :
           ep'[c][o] = IF o = e /\ ep[c][o].step # "new" THEN z ELSE ep[c][o]
  <2>1. \A c \in Conns : DOMAIN ep[c] = Ends
    BY DEF Inv, Shaped
  <2> HIDE DEF z
  <2>2. ep' = [c \in Conns |-> [ep[c] EXCEPT ![e] = IF ep[c][e].step = "new" THEN ep[c][e] ELSE z]]
    BY DEF Killed, z
  <2> QED
    BY <2>1, <2>2 DEF Shaped
<1> HIDE DEF z
<1>3. TlsInv'
  <2>1. \A d \in Conns, o \in Ends : Advances(o, ep[d][o], ep'[d][o])
    BY <1>1, <1>2 DEF Advances
  <2> QED
    BY <2>1, TlsKept DEF Inv
<1>4. ASSUME NEW c \in Conns PROVE Conn(c)'
  <2> DEFINE x == ep[c]["client"]
             y == ep[c]["daemon"]
  <2>1. ConnOK(c, x, y, pipe[c]["client"], pipe[c]["daemon"])
    BY Sides
  <2>2. CASE e = "client"
    <3>1. ep'[c]["daemon"] = y /\ ep'[c]["client"] = IF x.step # "new" THEN z ELSE x
      BY <1>2, <2>2 DEF Ends
    <3>2. x.step # "new" => ConnOK(c, z, y, pipe[c]["client"], pipe[c]["daemon"])
      BY <1>1, <2>1, ClientEnds DEF z
    <3> QED
      BY <2>1, <3>1, <3>2 DEF Conn
  <2>3. CASE e = "daemon"
    <3>1. ep'[c]["client"] = x /\ ep'[c]["daemon"] = IF y.step # "new" THEN z ELSE y
      BY <1>2, <2>3 DEF Ends
    <3>2. y.step # "new" => ConnOK(c, x, z, pipe[c]["client"], pipe[c]["daemon"])
      BY <1>1, <2>1, DaemonEnds DEF z
    <3> QED
      BY <2>1, <3>1, <3>2 DEF Conn
  <2> QED
    BY <2>2, <2>3 DEF Ends
<1> QED
  BY <1>2, <1>3, <1>4 DEF Inv, tls

LEMMA SendFailsStep ==
  ASSUME Inv, NEW c \in Conns, NEW e \in Ends, SendFails(c, e)
  PROVE  Inv'
<1> DEFINE x == ep[c][e]
<1>1. Writing(x) /\ Running(x) /\ UNCHANGED <<mode, pipe, broken, tls>>
  BY DEF SendFails, Running
<1>2. Chan(c, e) = c /\ c # None
  BY <1>1, Channel
<1>3. x.step # "new"
  BY <1>1, Kinds
<1>4. CASE Killed(e)
  BY <1>1, <1>4, KilledStep
<1>5. CASE GiveUp(c, e)
  BY <1>1, <1>3, <1>5, EndsStep
<1>6. CASE Careless(e) /\ SetEp(c, e, Follow(c, e, x, x.len))
  <2>1. e = "daemon" /\ broken = {} /\ Other(e) = "client"
    BY <1>6 DEF Careless, Inv, Other
  <2>2. ep[c]["client"].step \in Ended
    BY <1>2, <2>1 DEF SendFails, Gone, Broken, Closed
  <2> DEFINE z == Follow(c, e, x, x.len)
  <2>3. ConnOK(c, ep[c]["client"], z, pipe[c]["client"], pipe[c]["daemon"])
    BY <1>1, <2>1, <2>2, Sides, DaemonSkips
  <2>4. Advances(e, x, z)
    BY <1>1, FollowStep, RunsOn
  <2> HIDE DEF z
  <2>5. ep' = [ep EXCEPT ![c][e] = z]
    BY <1>6 DEF SetEp, z
  <2> QED
    BY <1>1, <2>1, <2>3, <2>4, <2>5, MovesAlone
<1> QED
  BY <1>4, <1>5, <1>6 DEF SendFails

LEMMA RecvFailsStep ==
  ASSUME Inv, NEW c \in Conns, NEW e \in Ends, RecvFails(c, e)
  PROVE  Inv'
<1>1. /\ Reading(ep[c][e]) /\ Running(ep[c][e]) /\ ep[c][e].step # "new"
      /\ UNCHANGED <<mode, pipe, broken, tls>>
  BY Kinds DEF RecvFails, Running
<1>2. Chan(c, e) = c /\ c # None
  BY <1>1, Channel
<1>3. ~(Careless(e) /\ Broken(c))
  BY <1>2 DEF Careless, Broken, Inv
<1> QED
  BY <1>1, <1>2, <1>3, EndsStep DEF RecvFails

LEMMA EndsEarly ==
  ASSUME Inv, NEW c \in Conns, HandshakeFails(c) \/ ConnectFails(c) \/ Quit(c)
  PROVE  Inv'
<1>1. CASE HandshakeFails(c)
  BY <1>1, EndsStep DEF HandshakeFails, GiveUp, Ends
<1>2. CASE ConnectFails(c)
  BY <1>2, EndsStep DEF ConnectFails, GiveUp, Ends
<1>3. CASE Quit(c)
  BY <1>3, EndsStep DEF Quit, Ends
<1> QED
  BY <1>1, <1>2, <1>3

LEMMA CallStep ==
  ASSUME Inv, NEW c \in Conns, NEW len \in Lens, Call(c, len)
  PROVE  Inv'
<1> DEFINE x == ep[c]["client"]
           z == At("whead", x.msg + 1, len, HeadLen)
<1>1. x.step = "idle" /\ UNCHANGED <<mode, pipe, broken, tls>> /\ "client" \in Ends
  BY DEF Call, Ends
<1>2. ep' = [ep EXCEPT ![c]["client"] = z]
  <2>1. Begin(x, "whead", x.msg + 1, len) = z
    BY Begins
  <2> QED
    BY <2>1 DEF Call, SetEp
<1>3. ConnOK(c, z, ep[c]["daemon"], pipe[c]["client"], pipe[c]["daemon"])
  <2>1. len \in Nat \ {0}
    BY TransportAssumption
  <2> QED
    BY <1>1, <2>1, Sides, Calls
<1>4. Advances("client", x, z)
  <2>1. z.step = "whead"
    BY DEF At
  <2> QED
    BY <1>1, <2>1 DEF Advances, Ended
<1> HIDE DEF z
<1> QED
  BY <1>1, <1>2, <1>3, <1>4, MovesAlone

\* Both sides of a connection go somewhere while nothing is on its way.
LEMMA BothMove ==
  ASSUME Inv, NEW c \in Conns, NEW x, NEW y,
         ep' = Put(Put(ep, c, "client", x), c, "daemon", y),
         ConnOK(c, x, y, <<>>, <<>>), pipe[c]["client"] = <<>>, pipe[c]["daemon"] = <<>>,
         UNCHANGED <<mode, pipe, broken, tls>>
  PROVE  /\ TlsInv' => Inv'
         /\ ep'[c]["client"] = x /\ ep'[c]["daemon"] = y
         /\ \A d \in Conns \ {c}, o \in Ends : ep'[d][o] = ep[d][o]
<1>1. /\ Shaped(ep)' /\ ep'[c]["client"] = x /\ ep'[c]["daemon"] = y
      /\ \A d \in Conns \ {c}, o \in Ends : ep'[d][o] = ep[d][o]
  <2> DEFINE f == Put(ep, c, "client", x)
             g == Put(f, c, "daemon", y)
  <2>1. Shaped(ep) /\ "client" \in Ends /\ "daemon" \in Ends
    BY DEF Inv, Ends
  <2>2. ep' = g
    OBVIOUS
  <2>3. /\ Shaped(f) /\ f[c]["client"] = x
        /\ \A d \in Conns, o \in Ends : d # c \/ o # "client" => f[d][o] = ep[d][o]
    BY <2>1, Placed
  <2> HIDE DEF f
  <2>4. /\ Shaped(g) /\ g[c]["daemon"] = y
        /\ \A d \in Conns, o \in Ends : d # c \/ o # "daemon" => g[d][o] = f[d][o]
    BY <2>1, <2>3, Placed
  <2> HIDE DEF g
  <2>5. g[c]["client"] = x
    BY <2>1, <2>3, <2>4
  <2>6. \A d \in Conns \ {c}, o \in Ends : g[d][o] = ep[d][o]
    BY <2>3, <2>4
  <2>7. Shaped(ep)'
    BY <2>2, <2>4
  <2> QED
    BY <2>2, <2>4, <2>5, <2>6, <2>7
<1>2. ASSUME NEW d \in Conns PROVE Conn(d)'
  <2>1. CASE d = c
    BY <1>1, <2>1 DEF Conn
  <2>2. CASE d # c
    <3>1. ep'[d]["client"] = ep[d]["client"] /\ ep'[d]["daemon"] = ep[d]["daemon"] /\ pipe' = pipe
      BY <1>1, <2>2 DEF Ends
    <3> QED
      BY <3>1 DEF Conn, Inv
  <2> QED
    BY <2>1, <2>2
<1> QED
  BY <1>1, <1>2 DEF Inv, tls

LEMMA ConnectStep ==
  ASSUME Inv, AsMeant, NEW c \in Conns, Connect(c)
  PROVE  Inv'
<1> DEFINE x == IF mode = "tls" THEN At("connect", 0, 0, 0) ELSE At("wappid", 0, 0, AppidLen)
           y == IF mode = "tls" THEN At("SSL_new", 0, 0, 0) ELSE At("rappid", 0, 0, AppidLen)
<1>1. /\ ep[c]["client"].step = "new" /\ UNCHANGED <<mode, pipe, broken, tls>>
      /\ ep' = Put(Put(ep, c, "client", x), c, "daemon", y)
  <2>1. \A v : /\ Begin(v, "wappid", 0, 0) = At("wappid", 0, 0, AppidLen)
              /\ Begin(v, "rappid", 0, 0) = At("rappid", 0, 0, AppidLen)
    BY Begins
  <2> QED
    BY <2>1 DEF Connect, Put
<1>2. pipe[c]["client"] = <<>> /\ pipe[c]["daemon"] = <<>>
  BY <1>1, Sides DEF ConnOK
<1>3. ConnOK(c, x, y, <<>>, <<>>)
  BY NothingYet, Opened DEF Setup
<1>4. mode = "tls" => x.step = "connect" /\ y.step = "SSL_new"
  BY DEF At
<1> HIDE DEF x, y
<1>5. /\ TlsInv' => Inv'
      /\ ep'[c]["client"] = x /\ ep'[c]["daemon"] = y
      /\ \A d \in Conns \ {c}, o \in Ends : ep'[d][o] = ep[d][o]
  BY <1>1, <1>2, <1>3, BothMove
<1>6. TlsInv'
  <2> SUFFICES ASSUME mode = "tls" PROVE TlsInv'
    BY <1>1 DEF TlsInv
  <2>1. Serial
    BY DEF AsMeant, Inv
  <2>2. \A d \in Conns, o \in Ends : ep[d][o].step \in {"new"} \cup Ended
    BY <2>1 DEF Connect
  <2>3. \A d \in Conns \ {c} : ~Active(d)'
    BY <1>5, <2>2 DEF Active
  <2>4. ASSUME NEW d \in Conns
        PROVE  /\ ep'[d]["daemon"].step \in {"SSL_new", "new"} \cup Ended
               /\ ~Running(ep'[d]["daemon"])
    <3>1. ep'[d]["daemon"].step \in {"SSL_new", "new"} \cup Ended
      BY <1>4, <1>5, <2>2 DEF Ends
    <3> QED
      BY <3>1, Kinds DEF Running, Ended
  <2> QED
    BY <2>3, <2>4 DEF TlsInv, Ended
<1> QED
  BY <1>5, <1>6

LEMMA HandshakeStep ==
  ASSUME Inv, NEW c \in Conns, Handshake(c)
  PROVE  Inv'
<1> DEFINE x == At("wappid", 0, 0, AppidLen)
           y == At("rappid", 0, 0, AppidLen)
<1>1. ep[c]["daemon"].step = "SSL_accept" /\ UNCHANGED <<mode, pipe, broken, tls>>
  BY DEF Handshake
<1>2. Chan(c, "daemon") = c
  BY <1>1, Channel DEF Ends
<1>3. /\ ep[c]["client"].step = "connect"
      /\ ep' = [ep EXCEPT ![c]["daemon"] = y, ![c]["client"] = x]
  <2>1. \A v : Begin(v, "wappid", 0, 0) = x /\ Begin(v, "rappid", 0, 0) = y
    BY Begins
  <2> HIDE DEF x, y
  <2> QED
    BY <1>2, <2>1 DEF Handshake
<1>4. pipe[c]["client"] = <<>> /\ pipe[c]["daemon"] = <<>>
  BY <1>3, Sides DEF ConnOK
<1>5. ConnOK(c, x, y, <<>>, <<>>) /\ x.step = "wappid" /\ y.step = "rappid"
  BY Opened DEF At
<1> HIDE DEF x, y
<1>6. ep' = Put(Put(ep, c, "client", x), c, "daemon", y)
  BY <1>3 DEF Inv, Shaped, Ends, Put
<1>7. /\ TlsInv' => Inv'
      /\ ep'[c]["client"] = x /\ ep'[c]["daemon"] = y
      /\ \A d \in Conns \ {c}, o \in Ends : ep'[d][o] = ep[d][o]
  BY <1>1, <1>4, <1>5, <1>6, BothMove
<1>8. \A d \in Conns, o \in Ends : Advances(o, ep[d][o], ep'[d][o])
  BY <1>1, <1>3, <1>5, <1>7 DEF Advances, Ends, Ended
<1> QED
  BY <1>1, <1>7, <1>8, TlsKept DEF Inv

LEMMA StartTlsStep ==
  ASSUME Inv, NEW c \in Conns, StartTls(c)
  PROVE  Inv'
<1> DEFINE y == ep[c]["daemon"]
           T == <<ssl', bio', sslbio'>>
<1>1. mode' = mode /\ pipe' = pipe /\ broken' = broken
  BY DEF StartTls
<1>2. PICK l \in Setup :
        /\ ep' = [ep EXCEPT ![c]["daemon"] = [y EXCEPT !.step = l]]
        /\ \/ y.step = "SSL_new" /\ l = "BIO_new" /\ ssl' = c /\ bio' = bio /\ sslbio' = sslbio
           \/ y.step = "BIO_new" /\ l = "SSL_set_bio" /\ ssl' = ssl /\ bio' = c /\ sslbio' = sslbio
           \/ /\ y.step = "SSL_set_bio" /\ l = "SSL_accept" /\ ssl' = ssl /\ bio' = bio
              /\ sslbio' = [sslbio EXCEPT ![ssl] = bio]
  BY DEF StartTls, SetEp, Setup
<1> DEFINE z == [y EXCEPT !.step = l]
<1>3. y.step \in Setup /\ z.step = l
  BY <1>2, Sides DEF Setup, EndOK, Ends
<1>4. ConnOK(c, ep[c]["client"], z, pipe[c]["client"], pipe[c]["daemon"])
  BY <1>3, Sides, SettingUp
<1> HIDE DEF z
<1>5. /\ Shaped(ep)' /\ ep'[c]["daemon"] = z
      /\ \A d \in Conns, o \in Ends : d # c \/ o # "daemon" => ep'[d][o] = ep[d][o]
  <2>1. Shaped(ep) /\ ep' = Put(ep, c, "daemon", z) /\ "daemon" \in Ends
    BY <1>2 DEF Inv, Put, z, Ends
  <2>2. /\ Shaped(Put(ep, c, "daemon", z)) /\ Put(ep, c, "daemon", z)[c]["daemon"] = z
        /\ \A d \in Conns, o \in Ends :
             d # c \/ o # "daemon" => Put(ep, c, "daemon", z)[d][o] = ep[d][o]
    BY <2>1, Placed
  <2> QED
    BY <2>1, <2>2
<1>6. ASSUME NEW d \in Conns PROVE Conn(d)'
  <2>1. CASE d = c
    BY <1>1, <1>4, <1>5, <2>1 DEF Conn, Ends
  <2>2. CASE d # c
    <3>1. ep'[d]["client"] = ep[d]["client"] /\ ep'[d]["daemon"] = ep[d]["daemon"]
      BY <1>5, <2>2 DEF Ends
    <3> QED
      BY <1>1, <3>1 DEF Conn, Inv
  <2> QED
    BY <2>1, <2>2
<1>7. sslbio' = [d \in Conns |-> sslbio'[d]]
  BY <1>2 DEF Inv
<1>8. TlsInv'
  <2> SUFFICES ASSUME mode = "tls" PROVE TlsInv'
    BY <1>1 DEF TlsInv
  <2>1. Active(c)
    BY <1>3 DEF Active, Setup, Ended, Ends
  <2>2. \A d \in Conns : Active(d)' => Active(d)
    BY <1>5, <2>1 DEF Active
  <2>3. \A d \in Conns : Active(d)' => d = c
    BY <2>1, <2>2 DEF TlsInv, Inv
  <2>4. ASSUME NEW d \in Conns
        PROVE  LET w == ep'[d]["daemon"]
               IN  /\ w.step = "BIO_new" => ssl' = d
                   /\ w.step = "SSL_set_bio" => ssl' = d /\ bio' = d
                   /\ w.step = "SSL_accept" \/ Running(w) => ssl' = d /\ sslbio'[d] = d
    <3>1. CASE d # c
      <4>1. ep'[d]["daemon"].step \in {"new"} \cup Ended
        BY <2>3, <3>1 DEF Active, Ends
      <4>2. ~Running(ep'[d]["daemon"])
        BY <4>1, Kinds DEF Running, Ended
      <4> QED
        BY <4>1, <4>2 DEF Ended
    <3>2. CASE d = c
      <4>1. ~Running(z)
        BY <1>3, Kinds DEF Running, Setup
      <4>2. /\ y.step = "BIO_new" => ssl = c
            /\ y.step = "SSL_set_bio" => ssl = c /\ bio = c
        BY DEF TlsInv, Inv
      <4>3. l = "SSL_accept" => ssl' = c /\ sslbio'[c] = c
        BY <1>2, <4>2 DEF Inv
      <4> QED
        BY <1>2, <1>3, <1>5, <3>2, <4>1, <4>2, <4>3
    <3> QED
      BY <3>1, <3>2
  <2> QED
    BY <1>1, <2>3, <2>4 DEF TlsInv
<1> QED
  BY <1>1, <1>5, <1>6, <1>7, <1>8 DEF Inv

-----------------------------------------------------------------------------
(* The results.                                                            *)

LEMMA InitInv == Init => Inv
<1> SUFFICES ASSUME Init PROVE Inv
  OBVIOUS
<1> DEFINE x == At("new", 0, 0, 0)
<1>1. \A c \in Conns : ConnOK(c, x, x, <<>>, <<>>)
  BY NothingYet
<1>2. x.step = "new"
  BY DEF At
<1> HIDE DEF x
<1>3. /\ \A c \in Conns, e \in Ends : ep[c][e] = x /\ pipe[c][e] = <<>>
      /\ Shaped(ep) /\ Shaped(pipe)
  BY DEF Init, Shaped, x
<1>4. \A c \in Conns : Conn(c)
  BY <1>1, <1>3 DEF Conn, Ends
<1>5. \A c \in Conns : ~Active(c) /\ ep[c]["daemon"].step = "new"
  BY <1>2, <1>3 DEF Active, Ends
<1>6. \A c \in Conns : ~Running(ep[c]["daemon"])
  BY <1>5, Kinds DEF Running
<1>7. TlsInv
  BY <1>5, <1>6 DEF TlsInv
<1> QED
  BY <1>3, <1>4, <1>7 DEF Inv, Init

LEMMA NextInv == Inv /\ AsMeant /\ [Next]_vars => Inv'
<1> SUFFICES ASSUME Inv, AsMeant, [Next]_vars PROVE Inv'
  OBVIOUS
<1>1. ASSUME UNCHANGED <<mode, ep, pipe, tls>>, mode = "inetd" => broken' = broken
      PROVE  Inv'
  BY <1>1 DEF Inv, Conn, TlsInv, Active, tls
<1>2. CASE UNCHANGED vars
  BY <1>1, <1>2 DEF vars, tls
<1>3. CASE Next
  <2>1. PICK c \in Conns :
          \/ Connect(c) \/ Starting(c) \/ Quit(c) \/ Break(c)
          \/ \E e \in Ends : Loop(c, e) \/ Interrupted(c, e)
          \/ \E len \in Lens : Call(c, len)
    BY <1>3 DEF Next
  <2>2. CASE Connect(c)
    BY <2>2, ConnectStep
  <2>3. CASE Starting(c)
    BY <2>3, StartTlsStep, HandshakeStep, EndsEarly DEF Starting
  <2>4. CASE Quit(c)
    BY <2>4, EndsEarly
  <2>5. CASE Break(c)
    BY <1>1, <2>5 DEF Break, AsMeant, Inv
  <2>6. CASE \E e \in Ends : Loop(c, e)
    BY <2>6, SendStep, RecvStep, ReceivedStep, SendFailsStep, RecvFailsStep DEF Loop
  <2>7. CASE \E e \in Ends : Interrupted(c, e)
    BY <1>1, <2>7 DEF Interrupted
  <2>8. CASE \E len \in Lens : Call(c, len)
    BY <2>8, CallStep
  <2> QED
    BY <2>1, <2>2, <2>3, <2>4, <2>5, <2>6, <2>7, <2>8
<1> QED
  BY <1>2, <1>3

\* The bytes of an item, in their places.
LEMMA ItemRead ==
  ASSUME NEW c \in Conns, NEW e \in Ends, NEW r, EndOK(Other(e), r), Reading(r), r.left = 0,
         NEW p, NEW len \in Nat \ {0}, Carries(c, e, r, p, len),
         e = "daemon" => r.step # "rappid"
  PROVE  /\ r.have # <<>>
         /\ r.have = Item(c, e, r.msg, Reads[r.step], r.have[1].len)
         /\ r.step = "rbody" => r.len = r.have[1].len
<1> DEFINE kind == Reads[r.step]
           L    == IF r.step = "rappid" THEN 0 ELSE len
           item == Item(c, e, r.msg, kind, L)
<1>1. /\ r.step \in {"rappid", "rhead", "rbody"} /\ kind \in {"appid", "head", "body"}
      /\ r.have \in Seq(Octets) /\ Len(r.have) \in Nat /\ r.msg \in Nat /\ r.len \in Nat /\ L \in Nat
  BY Kinds, Fields
<1>2. /\ item \in Seq(Octets) /\ Len(item) = Length(kind, L) /\ Length(kind, L) \in Nat
      /\ \A i \in 1 .. Length(kind, L) :
           item[i] = [conn |-> c, from |-> e, msg |-> r.msg, kind |-> kind, len |-> L, at |-> i]
  <2> HIDE DEF kind, L
  <2> QED
    BY <1>1, ItemIs
<1> HIDE DEF item
<1>3. /\ Len(r.have) = Length(kind, L) /\ Len(r.have) > 0 /\ (r.step = "rbody" => r.len = L)
  <2>1. CASE r.step = "rappid"
    <3>1. kind = "appid" /\ Length(kind, L) = AppidLen
      BY <2>1, Kinds DEF Length
    <3> QED
      BY <1>1, <2>1, <3>1, Sizes DEF EndOK
  <2>2. CASE r.step = "rhead"
    <3>1. kind = "head" /\ Length(kind, L) = HeadLen
      BY <2>2, Kinds DEF Length
    <3> QED
      BY <1>1, <2>2, <3>1, Sizes DEF EndOK
  <2>3. CASE r.step = "rbody"
    <3>1. kind = "body" /\ Length(kind, L) = len
      BY <2>3, Kinds DEF Length
    <3>2. r.len = len
      BY <2>3 DEF Carries
    <3> QED
      BY <1>1, <2>3, <3>1, <3>2 DEF EndOK
  <2> QED
    BY <1>1, <2>1, <2>2, <2>3
<1>4. ASSUME NEW i \in 1 .. Len(r.have)
      PROVE  r.have[i] = [conn |-> c, from |-> e, msg |-> r.msg, kind |-> kind, len |-> L, at |-> i]
  <2>0. /\ r.have[i] = OctetAt(c, e, Turn(r), len, Before(e, r) + i)
        /\ i \in Nat /\ i >= 1 /\ i <= Len(r.have) /\ Lead(e, r.msg) \in Nat
    BY <1>1, Sizes DEF Carries, Lead
  <2>1. CASE r.step = "rappid"
    <3>1. kind = "appid" /\ Len(r.have) = AppidLen /\ r.msg = 0 /\ e = "client"
      BY <1>3, <2>1, Kinds DEF Length, EndOK, Ends
    <3>2. Turn(r) = 1 /\ Before(e, r) = 0 /\ Lead(e, 1) = AppidLen
      BY <2>1, <3>1 DEF Turn, Before, Lead
    <3> QED
      BY <2>0, <2>1, <3>1, <3>2, Sizes DEF OctetAt
  <2>2. CASE r.step = "rhead"
    <3>1. kind = "head" /\ Len(r.have) = HeadLen
      BY <1>3, <2>2, Kinds DEF Length
    <3>2. Turn(r) = r.msg /\ Before(e, r) = Lead(e, r.msg)
      BY <2>2 DEF Turn, Before
    <3> DEFINE k == Lead(e, r.msg) + i
    <3>3. ~(k <= Lead(e, r.msg)) /\ k <= Lead(e, r.msg) + HeadLen /\ k - Lead(e, r.msg) = i
      BY <2>0, <3>1, Sizes
    <3> HIDE DEF k
    <3>4. OctetAt(c, e, r.msg, len, k)
            = [conn |-> c, from |-> e, msg |-> r.msg, kind |-> "head", len |-> len, at |-> i]
      BY <3>3 DEF OctetAt
    <3> QED
      BY <2>0, <2>2, <3>1, <3>2, <3>4 DEF k
  <2>3. CASE r.step = "rbody"
    <3>1. kind = "body" /\ Len(r.have) = len
      BY <1>3, <2>3, Kinds DEF Length
    <3>2. Turn(r) = r.msg /\ Before(e, r) = Lead(e, r.msg) + HeadLen
      BY <2>3 DEF Turn, Before
    <3> DEFINE k == Lead(e, r.msg) + HeadLen + i
    <3>3. ~(k <= Lead(e, r.msg)) /\ ~(k <= Lead(e, r.msg) + HeadLen) /\ k - Lead(e, r.msg) - HeadLen = i
      BY <2>0, Sizes
    <3> HIDE DEF k
    <3>4. OctetAt(c, e, r.msg, len, k)
            = [conn |-> c, from |-> e, msg |-> r.msg, kind |-> "body", len |-> len, at |-> i]
      BY <3>3 DEF OctetAt
    <3> QED
      BY <2>0, <2>3, <3>1, <3>2, <3>4 DEF k
  <2> QED
    BY <1>1, <2>1, <2>2, <2>3
<1>5. r.have = item
  <2>1. \A i \in 1 .. Len(item) : r.have[i] = item[i]
    BY <1>2, <1>3, <1>4
  <2> QED
    BY <1>1, <1>2, <1>3, <2>1
<1>6. r.have # <<>> /\ r.have[1].len = L
  <2>1. 1 \in 1 .. Len(r.have) /\ Len(<<>>) = 0
    BY <1>1, <1>3
  <2>2. r.have[1] = [conn |-> c, from |-> e, msg |-> r.msg, kind |-> kind, len |-> L, at |-> 1]
    BY ONLY <1>4, <2>1
  <2> HIDE DEF kind, L
  <2> QED
    BY <1>3, <2>1, <2>2
<1> QED
  BY <1>3, <1>5, <1>6 DEF item

LEMMA InvItems == Inv => WholeItems
<1> SUFFICES ASSUME Inv, NEW c \in Conns, NEW e \in Ends, Reading(ep[c][e]), ep[c][e].left = 0
             PROVE  LET x == ep[c][e]
                    IN  /\ x.have # <<>>
                        /\ x.have = Item(c, Other(e), x.msg, Reads[x.step], x.have[1].len)
                        /\ x.step = "rbody" => x.len = x.have[1].len
  BY DEF WholeItems
<1> DEFINE x == ep[c][e]
           o == Other(e)
<1>1. o \in Ends /\ Other(o) = e /\ EndOK(e, x)
  BY Sides DEF Other, Ends
<1>2. PICK len \in Nat \ {0} : Carries(c, o, x, pipe[c][o], len)
  BY Sides DEF ConnOK, Flow, Other, Ends
<1>3. o = "daemon" => x.step # "rappid"
  BY <1>1, Fields DEF StepsOf, Ended, Other, Ends
<1> HIDE DEF x, o
<1>4. Reading(x) /\ x.left = 0
  BY DEF x
<1>5. /\ x.have # <<>>
      /\ x.have = Item(c, o, x.msg, Reads[x.step], x.have[1].len)
      /\ x.step = "rbody" => x.len = x.have[1].len
  BY <1>1, <1>2, <1>3, <1>4, ItemRead
<1> QED
  BY <1>5 DEF x, o

LEMMA InvStep == Inv => InStep
<1> SUFFICES ASSUME Inv, NEW c \in Conns
             PROVE  LET x == ep[c]["client"]
                        y == ep[c]["daemon"]
                    IN  /\ pipe[c]["client"] = <<>> \/ pipe[c]["daemon"] = <<>>
                        /\ Running(x) /\ Writing(y) => Reading(x) /\ x.msg = y.msg
  BY DEF InStep
<1>1. ASSUME Running(ep[c]["client"]) PROVE ep[c]["client"].step \notin Ended
  BY <1>1, Kinds DEF Running, Ended
<1> QED
  BY <1>1, Sides DEF ConnOK

\* Both of the following: they share their invariant.
LEMMA WholeAndInStep == AsMeant /\ Spec => [](WholeItems /\ InStep)
<1> DEFINE I == AsMeant /\ Inv
<1>1. AsMeant /\ Init => I
  BY InitInv
<1>2. I /\ [Next]_vars => I'
  BY NextInv DEF AsMeant
<1>3. I => WholeItems /\ InStep
  BY InvItems, InvStep
<1> QED
  BY <1>1, <1>2, <1>3, PTL DEF Spec

\* However sends and receives are cut up and interrupted, and whichever
\* connections break or sides die: a side that call_read or read_all has
\* given an item has what the other side of its connection wrote as that
\* item.
THEOREM ItemsArriveWhole == AsMeant /\ Spec => []WholeItems
  BY WholeAndInStep, PTL

\* Under the same conditions the daemon writes only what its client is
\* waiting for, and never both have something on the way.
THEOREM TurnsAreKept == AsMeant /\ Spec => []InStep
  BY WholeAndInStep, PTL

=============================================================================
