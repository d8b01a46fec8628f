------------------------------- MODULE Message -------------------------------
(***************************************************************************)
(* Messages as bytes: how the parts of a message are put into a buffer     *)
(* (gck-rpc-message.c), sent, received into the buffer of the other side,  *)
(* checked (gck_rpc_message_parse) and taken apart again (the proto_read_  *)
(* functions of gck-rpc-dispatch.c for a request, of gck-rpc-module.c for  *)
(* a response).  Every operation on a buffer is a step of its own; the     *)
(* allocator may fail in any of them, and the message may arrive damaged:  *)
(* cut short, or with a byte changed.                                      *)
(*                                                                         *)
(* A behaviour is up to MaxMessages messages through the same two buffers, *)
(* all requests or all responses.  Marshal has the parts each call writes  *)
(* and reads and what the application gets; here it is the bytes.          *)
(***************************************************************************)
EXTENDS EggBuffer, SequencesExt

CONSTANTS
  FirstSize,    \* room in a new buffer: 64 bytes
  MaxMessage,   \* the daemon takes requests shorter than this: 0x0FFFFFFF
  Calls,        \* gck_rpc_calls: call id c has signatures Calls[c]
  Texts,        \* a sequence of messages [dir, id, vals], vals the values of the parts
  Rooms,        \* room the client's application may have for a result
  StrLen,       \* length of a space padded string
  Widths,       \* sizeof (CK_ULONG) of the writer and of the reader
  UlongTypes,   \* attribute types of gck_rpc_has_ulong_parameter
  Mechs,        \* mechanisms of gck_rpc_mechanism_is_supported
  MechList,     \* the call id of C_GetMechanismList
  MaxMessages,
  MemFails,     \* may the allocator fail?
  Damages,      \* may messages be damaged?
  Skewed        \* may the damage be in the head of a response?

ASSUME MessageAssumption ==
  /\ FirstSize \in Nat \ {0} /\ MaxMessage \in Nat /\ StrLen \in Nat
  /\ Widths \in [{"writer", "reader"} -> {WordLen, LongLen}]
  /\ {MemFails, Damages, Skewed} \subseteq BOOLEAN

ERROR == 0             \* GCK_RPC_CALL_ERROR
Unavailable == -1      \* (CK_ULONG) -1

VARIABLES
  pc,        \* where the message is
  msg,       \* the message: [dir, id, vals]
  room,      \* what the application has room for
  wbuf,      \* the writer's buffer
  rbuf,      \* the reader's buffer
  k,         \* the part being written or read
  todo,      \* what is still to be added to wbuf for part k
  wire,      \* the bytes sent and not yet read
  damaged,   \* history: is the message not the one that was sent?
  id,        \* call_id of the reader's message
  accepted,  \* history: what gck_rpc_message_parse answered
  parsed,    \* parsed of the reader's message
  head,      \* what was read of part k before its elements
  elems,     \* its elements read so far
  got,       \* what was read of the head, or of the next element
  seen,      \* the values read
  ret,       \* how it ended
  nomem,     \* history: has the allocator failed for this message?
  overrun,   \* history: did a result not fit in the application's memory?
  overread,  \* history: was memory behind the application's list read?
  count      \* messages so far

vars == <<pc, msg, room, wbuf, rbuf, k, todo, wire, damaged, id, accepted, parsed,
          head, elems, got, seen, ret, nomem, overrun, overread, count>>
text    == <<msg, room, count>>
reader  == <<rbuf, id, accepted, parsed, head, elems, got, seen, overrun, overread>>

MemAnswers == IF MemFails THEN BOOLEAN ELSE {TRUE}

-----------------------------------------------------------------------------
(* Signatures.                                                             *)

Letters == [y |-> <<0>>, u |-> <<1>>, v |-> <<2>>, s |-> <<3>>, M |-> <<4>>,
            ay |-> <<5, 0>>, au |-> <<5, 1>>, aA |-> <<5, 6>>,
            fy |-> <<7, 0>>, fu |-> <<7, 1>>, fA |-> <<7, 6>>]

\* An error response is a code, without a signature.
Parts(dir, c) == IF c = ERROR THEN <<"u">> ELSE Calls[c][dir]
signature(dir, c) == FlattenSeq([i \in DOMAIN Calls[c][dir] |-> Letters[Calls[c][dir][i]]])

-----------------------------------------------------------------------------
(* Writing: the additions to the buffer that a part is made of.            *)

Byte(x)  == <<[op |-> "byte", val |-> x]>>
Word(x)  == <<[op |-> "word", val |-> x]>>
Long(x)  == <<[op |-> "long", val |-> x]>>
Array(p, bytes) == <<[op |-> "array", val |-> [ptr |-> p, bytes |-> bytes]]>>
Each(s, Item(_)) == FlattenSeq([i \in DOMAIN s |-> Item(s[i])])

gck_rpc_has_ulong_parameter(type) == type \in UlongTypes
gck_rpc_has_bad_sized_ulong_parameter(a) ==
  /\ a.ptr /\ a.len = LongLen /\ a.len # Widths["writer"]
  /\ gck_rpc_has_ulong_parameter(a.type)

\* Memory of a uint64 that a CK_ULONG was assigned to (little endian).
Widened(bytes) == SubSeq(bytes, 1, Widths["writer"]) \o Fill(LongLen - Widths["writer"], 0)

write_attribute(a) ==
  Word(a.type) \o
  (IF a.len = Unavailable THEN Byte(0)
   ELSE Byte(1) \o Word(a.len) \o
        Array(a.ptr, IF gck_rpc_has_bad_sized_ulong_parameter(a) THEN Widened(a.bytes)
                     ELSE a.bytes))

write_byte_array(v) ==
  IF v.ptr THEN Byte(1) \o Array(TRUE, v.bytes) ELSE Byte(0) \o Word(v.num)

write_part(part, v) ==
  CASE part = "y"  -> Byte(v)
    [] part = "u"  -> Long(v)
    [] part = "v"  -> Byte(v[1]) \o Byte(v[2])
    [] part = "s"  -> Array(TRUE, v)
    [] part = "M"  -> Word(v.type) \o Array(v.ptr, v.bytes)
    [] part = "ay" -> write_byte_array(v)
    [] part = "au" -> Byte(IF v.ptr THEN 1 ELSE 0) \o Word(v.num) \o Each(v.longs, Long)
    [] part = "aA" -> Word(Len(v)) \o Each(v, write_attribute)
    [] part = "fy" -> Byte((IF v.data THEN 0 ELSE 1) + (IF v.count THEN 0 ELSE 2))
                        \o Word(IF v.count THEN v.num ELSE 0)
    [] part = "fu" -> Word(v)
    [] part = "fA" -> Word(Len(v)) \o
                        Each(v, LAMBDA a : Word(a.type) \o Word(IF a.ptr THEN a.room ELSE 0))

\* gck_rpc_message_prep writes this much before the parts.
message_head(dir, c) ==
  Word(c) \o (IF c = ERROR THEN <<>> ELSE Array(TRUE, signature(dir, c)))

\* The additions there are: bytes, numbers and arrays of bytes.
Additions ==
  [op : {"byte"}, val : Bytes] \cup [op : {"word", "long"}, val : Nat]
    \cup [op : {"array"}, val : [ptr : BOOLEAN, bytes : Seq(Bytes)]]

\* The table of calls is made of parts there are, and the values of the
\* messages are what C's types for these parts can hold.
ASSUME MessageTexts ==
  /\ DOMAIN Calls \subseteq Nat \ {ERROR} /\ 1 \in DOMAIN Calls /\ Rooms \subseteq Nat
  /\ \A c \in DOMAIN Calls, dir \in {"request", "response"} :
       Calls[c][dir] \in Seq(DOMAIN Letters) /\ signature(dir, c) \in Seq(Bytes)
  /\ \A i \in DOMAIN Texts :
       LET t == Texts[i]
       IN  /\ t.dir \in {"request", "response"} /\ t.id \in DOMAIN Calls \cup {ERROR}
           /\ t.vals = [n \in DOMAIN Parts(t.dir, t.id) |-> t.vals[n]]
           /\ \A n \in DOMAIN Parts(t.dir, t.id) :
                write_part(Parts(t.dir, t.id)[n], t.vals[n]) \in Seq(Additions)

Add(b, item, ok, ok2) ==
  CASE item.op = "byte"  -> egg_buffer_add_byte(b, item.val, ok)
    [] item.op = "word"  -> egg_buffer_add_uint32(b, item.val, ok)
    [] item.op = "long"  -> egg_buffer_add_uint64(b, item.val, ok, ok2)
    [] item.op = "array" -> egg_buffer_add_byte_array(b, item.val, ok, ok2)

-----------------------------------------------------------------------------
(* Reading: the order in which a part is read, what has been read deciding *)
(* how it goes on, and the value that it makes.                            *)

HeadGets(part, g) ==
  CASE part = "y"  -> <<"byte">>
    [] part = "u"  -> <<"long">>
    [] part = "v"  -> <<"byte", "byte">>
    [] part = "s"  -> <<"array">>
    [] part = "M"  -> <<"word", "array">>
    [] part = "ay" -> IF g # <<>> /\ g[1] = 0 THEN <<"byte", "word">> ELSE <<"byte", "array">>
    [] part \in {"au", "fy"} -> <<"byte", "word">>
    [] part \in {"aA", "fu", "fA"} -> <<"word">>

ElemGets(part, g) ==
  CASE part = "au" -> <<"long">>
    [] part = "fA" -> <<"word", "word">>
    [] part = "aA" -> IF Len(g) >= 2 /\ g[2] = 0 THEN <<"word", "byte">>
                      ELSE <<"word", "byte", "word", "array">>

HasElems(part) == part \in {"au", "aA", "fA"}
NumElems(part, h) ==
  CASE part = "au" -> IF h[1] = 0 THEN 0 ELSE h[2]
    [] part \in {"aA", "fA"} -> h[1]
    [] OTHER -> 0

\* An unsigned long of 64 bits becomes one of the reader's size.
Narrowed(type, len, bytes) ==
  IF len = LongLen /\ len # Widths["reader"] /\ gck_rpc_has_ulong_parameter(type)
  THEN SubSeq(bytes, 1, Widths["reader"]) ELSE bytes
ReadAttr(g) ==
  IF Len(g) = 2 THEN [type |-> g[1], len |-> Unavailable, ptr |-> FALSE, bytes |-> <<>>]
  ELSE LET bytes == IF g[4].ptr THEN Narrowed(g[1], g[3], g[4].bytes) ELSE <<>>
       IN  [type |-> g[1], ptr |-> g[4].ptr, bytes |-> bytes,
            len |-> IF bytes = g[4].bytes THEN g[3] ELSE Len(bytes)]

AsUlong(n) == n % Base ^ Widths["reader"]
PartValue(part, h, es) ==
  CASE part \in {"y", "fu"} -> h[1]
    [] part = "u"  -> AsUlong(h[1])
    [] part = "v"  -> h
    [] part = "s"  -> h[1].bytes
    [] part = "M"  -> [type |-> h[1], ptr |-> h[2].ptr, bytes |-> h[2].bytes]
    [] part = "ay" -> IF h[1] = 0 THEN [ptr |-> FALSE, num |-> h[2], bytes |-> <<>>]
                      ELSE [ptr |-> h[2].ptr, num |-> Len(h[2].bytes), bytes |-> h[2].bytes]
    [] part = "au" -> [ptr |-> h[1] # 0, num |-> h[2],
                       longs |-> [i \in DOMAIN es |-> AsUlong(es[i][1])]]
    [] part = "fy" -> [data |-> h[1] % 2 = 0, count |-> (h[1] \div 2) % 2 = 0, num |-> h[2]]
    [] part = "aA" -> [i \in DOMAIN es |-> ReadAttr(es[i])]
    [] part = "fA" -> [i \in DOMAIN es |->
                         [type |-> es[i][1], ptr |-> es[i][2] # 0, room |-> es[i][2]]]

Get(b, off, op) ==
  CASE op = "byte"  -> egg_buffer_get_byte(b, off)
    [] op = "word"  -> egg_buffer_get_uint32(b, off)
    [] op = "long"  -> egg_buffer_get_uint64(b, off)
    [] op = "array" -> egg_buffer_get_byte_array(b, off)

\* gck_rpc_message_parse: the call id is set before the signature is compared.
message_parse(b, dir) ==
  LET n     == egg_buffer_get_uint32(b, 0)
      known == n.ok /\ n.val \in DOMAIN Calls
      a     == egg_buffer_get_byte_array(n.buf, n.next)
      Answer(buf, ok, c, next) == [buf |-> buf, ok |-> ok, id |-> c, parsed |-> next]
  IN  IF ~known THEN Answer(n.buf, n.ok /\ n.val = ERROR /\ dir = "response", ERROR, n.next)
      ELSE Answer(a.buf, a.ok /\ a.val.bytes = signature(dir, n.val), n.val, a.next)

\* call_alloc, for the stubs of the daemon.
call_alloc(n, ok) == ok /\ n <= TooLong
sizeof_CK_ATTRIBUTE == 3 * Widths["reader"]

\* What the daemon allocates once it has read the head h of a part, or an
\* element e of fA: a set with the size, or none.
HeadAlloc(part, h) ==
  CASE part = "fy" /\ h[1] % 2 = 0 -> {h[2]}
    [] part = "fu" /\ h[1] # 0 -> {h[1] * Widths["reader"]}
    [] part = "aA" /\ h[1] # 0 -> {h[1] * sizeof_CK_ATTRIBUTE}
    [] part = "fA" -> {h[1] * sizeof_CK_ATTRIBUTE}
    [] part = "s"  -> {Len(h[1].bytes)}
    [] OTHER -> {}
ElemAlloc(part, e) == IF part = "fA" /\ e[2] # 0 THEN {e[2]} ELSE {}

\* Does a result of n bytes or elements fit where the application wants it?
FitsAlways(n) == TRUE        \* mutant
Fits(n) == n <= room

\* The memmove of gck_rpc_mechanism_list_purge takes one element more than
\* there are behind the one it removes.
mechanism_list_purge(list)   == SelectSeq(list, LAMBDA m : m \in Mechs)
purge_reads_behind(list) == mechanism_list_purge(list) # list /\ Len(list) = room

-----------------------------------------------------------------------------
(* Steps of the writer.                                                    *)

EmptyText == [dir |-> "request", id |-> 1, vals |-> <<>>]

Init ==
  /\ pc = "idle" /\ msg = EmptyText /\ room = 0
  /\ wbuf = egg_buffer_init(FirstSize) /\ rbuf = egg_buffer_init(FirstSize)
  /\ k = 0 /\ todo = <<>> /\ wire = <<>> /\ damaged = FALSE
  /\ id = ERROR /\ accepted = FALSE /\ parsed = 0
  /\ head = <<>> /\ elems = <<>> /\ got = <<>> /\ seen = <<>> /\ ret = "none"
  /\ nomem = FALSE /\ overrun = FALSE /\ overread = FALSE /\ count = 0

\* After these the connection is closed, and the buffers with it.
Closing == {"CLOSED", "ABORT"} \cup (IF msg.dir = "response" THEN {"DEVICE_ERROR"} ELSE {})

\* gck_rpc_message_prep resets the buffer and starts with the head.
message_prep(t) ==
  /\ pc \in {"idle", "done"} /\ count < MaxMessages
  /\ ret \notin Closing /\ wire = <<>>
  /\ count > 0 => t.dir = msg.dir
  /\ msg' = t /\ room' \in Rooms /\ count' = count + 1
  /\ wbuf' = egg_buffer_reset(wbuf) /\ todo' = message_head(t.dir, t.id)
  /\ k' = 0 /\ pc' = "write" /\ ret' = "none" /\ damaged' = FALSE /\ nomem' = FALSE
  /\ id' = ERROR /\ accepted' = FALSE /\ parsed' = 0
  /\ head' = <<>> /\ elems' = <<>> /\ got' = <<>> /\ seen' = <<>>
  /\ UNCHANGED <<rbuf, wire, overrun, overread>>

\* One addition to the buffer; the next ones are made even if it failed.
AddNext ==
  /\ pc = "write" /\ todo # <<>>
  /\ \E ok, ok2 \in MemAnswers :
       /\ wbuf' = Add(wbuf, Head(todo), ok, ok2)
       /\ nomem' = (nomem \/ wbuf' # Add(wbuf, Head(todo), TRUE, TRUE))
  /\ todo' = Tail(todo)
  /\ UNCHANGED <<text, reader, pc, k, wire, damaged, ret>>

WrotePart ==
  /\ ~egg_buffer_has_error(wbuf) /\ k < Len(Parts(msg.dir, msg.id))
  /\ k' = k + 1
  /\ todo' = write_part(Parts(msg.dir, msg.id)[k + 1], msg.vals[k + 1])
  /\ UNCHANGED <<pc, ret>>

\* CKR_HOST_MEMORY on the client, PREP_ERROR on the daemon.
WriteFailed ==
  /\ egg_buffer_has_error(wbuf)
  /\ pc' = "done" /\ ret' = "HOST_MEMORY"
  /\ UNCHANGED <<k, todo>>

WroteAll ==
  /\ ~egg_buffer_has_error(wbuf) /\ k = Len(Parts(msg.dir, msg.id))
  /\ pc' = "send"
  /\ UNCHANGED <<k, todo, ret>>

Wrote ==
  /\ pc = "write" /\ todo = <<>>
  /\ WrotePart \/ WriteFailed \/ WroteAll
  /\ UNCHANGED <<text, reader, wbuf, wire, damaged, nomem>>

\* The length of the head of the message that is being sent.
HeadLen == IF msg.id = ERROR THEN WordLen ELSE 2 * WordLen + Len(signature(msg.dir, msg.id))
Damaged(bytes) ==
  LET safe == IF msg.dir = "response" /\ ~Skewed THEN HeadLen ELSE 0
  IN  {SubSeq(bytes, 1, n) : n \in {i \in 1 .. Len(bytes) - 1 : i >= safe}}
        \cup {[bytes EXCEPT ![i] = x] : i \in safe + 1 .. Len(bytes), x \in Bytes}

Send ==
  /\ pc = "send" /\ pc' = "receive"
  /\ LET bytes == SubSeq(wbuf.mem, 1, wbuf.len)
     IN  /\ wire' \in {bytes} \cup (IF Damages /\ count = 1 THEN Damaged(bytes) ELSE {})
         /\ damaged' = (wire' # bytes)
  /\ UNCHANGED <<text, reader, wbuf, k, todo, ret, nomem>>

-----------------------------------------------------------------------------
(* Steps of the reader.                                                    *)

\* egg_buffer_reserve, a read into the memory of the buffer, and then
\* egg_buffer_add_empty, which finds that there is room already.
Receive ==
  /\ pc = "receive"
  /\ LET n == Len(wire) % WordMod
         b == egg_buffer_reset(rbuf)
     IN  \/ /\ msg.dir = "request" /\ n >= MaxMessage
            /\ rbuf' = b /\ pc' = "done" /\ ret' = "CLOSED"
            /\ UNCHANGED <<wire, nomem>>
         \/ /\ ~(msg.dir = "request" /\ n >= MaxMessage)
            /\ \E ok \in MemAnswers :
                 LET r == egg_buffer_reserve(b, n, ok)
                 IN  IF egg_buffer_has_error(r)
                     THEN /\ rbuf' = r /\ nomem' = TRUE /\ pc' = "done"
                          /\ ret' = IF msg.dir = "request" THEN "CLOSED" ELSE "HOST_MEMORY"
                          /\ wire' = wire
                     ELSE /\ rbuf' = egg_buffer_add_empty(Store(r, 0, SubSeq(wire, 1, n)), n, ok)
                          /\ wire' = SubSeq(wire, n + 1, Len(wire))
                          /\ pc' = "parse" /\ UNCHANGED <<nomem, ret>>
  /\ UNCHANGED <<text, wbuf, k, todo, damaged, id, accepted, parsed, head, elems, got, seen,
                 overrun, overread>>

\* The message is refused or believed; k is the part that is read first.
Parsed(p) == rbuf' = p.buf /\ id' = p.id /\ accepted' = p.ok /\ parsed' = p.parsed
Believed  == pc' = "read" /\ k' = 1 /\ UNCHANGED ret
End(r)    == pc' = "done" /\ ret' = r /\ UNCHANGED k

ParseRequest ==
  /\ pc = "parse" /\ msg.dir = "request"
  /\ LET p == message_parse(rbuf, "request")
     IN  Parsed(p) /\ (IF p.ok THEN Believed ELSE End("CLOSED"))
  /\ UNCHANGED <<text, wbuf, todo, wire, damaged, head, elems, got, seen, nomem, overrun, overread>>

\* The call id of the request that the response answers.
Asked == IF msg.id = ERROR THEN MechList ELSE msg.id

\* call_send_recv returns CKR_OK whatever gck_rpc_message_parse says, and
\* call_run goes on with the call id it finds.
ParseResponse ==
  /\ pc = "parse" /\ msg.dir = "response"
  /\ LET p    == message_parse(rbuf, "response")
         code == egg_buffer_get_uint64(p.buf, p.parsed)
     IN  IF p.id = ERROR
         THEN /\ rbuf' = code.buf /\ id' = p.id /\ accepted' = p.ok /\ parsed' = code.next
              /\ IF code.ok /\ AsUlong(code.val) > 0
                 THEN End("code") /\ seen' = <<AsUlong(code.val)>>
                 ELSE End("DEVICE_ERROR") /\ UNCHANGED seen
         ELSE /\ Parsed(p) /\ UNCHANGED seen
              /\ IF p.id # Asked THEN End("DEVICE_ERROR")
                 ELSE IF egg_buffer_has_error(p.buf) THEN End("ABORT") ELSE Believed
  /\ UNCHANGED <<text, wbuf, todo, wire, damaged, head, elems, got, nomem, overrun, overread>>

Part  == Parts(msg.dir, id)[k]
AtEnd == k > Len(Parts(msg.dir, id))
Gets  == IF head = <<>> THEN HeadGets(Part, got) ELSE ElemGets(Part, got)
Complete == head # <<>> /\ (HasElems(Part) => Len(elems) = NumElems(Part, head))

\* One read of the buffer.  The client goes on after a failed one in the
\* loops over elements, reads nothing outside the buffer, and returns
\* PARSE_ERROR all the same.
GetNext ==
  /\ pc = "read" /\ ~AtEnd /\ ~Complete /\ Len(got) < Len(Gets)
  /\ LET g == Get(rbuf, parsed, Gets[Len(got) + 1])
     IN  /\ rbuf' = g.buf /\ parsed' = g.next
         /\ IF g.ok THEN got' = Append(got, g.val) /\ UNCHANGED <<pc, ret, k>>
            ELSE End("DEVICE_ERROR") /\ UNCHANGED got
  /\ UNCHANGED <<text, wbuf, todo, wire, damaged, id, accepted, head, elems, seen, nomem,
                 overrun, overread>>

\* Lengths that contradict each other, and what the client expects.
BadHead == msg.dir = "response" /\ \/ Part = "aA" /\ got[1] # Len(msg.vals[k])
                                   \/ Part = "s" /\ Len(got[1].bytes) # StrLen
\* mutant: the length of an attribute is not compared with its value
BadOrder ==
  Part = "aA" /\ msg.dir = "response" /\ got[1] # msg.vals[k][Len(elems) + 1].type
BadElem ==
  /\ Part = "aA"
  /\ \/ Len(got) = 4 /\ got[4].ptr /\ Len(got[4].bytes) # got[3]
     \/ msg.dir = "response" /\ got[1] # msg.vals[k][Len(elems) + 1].type
\* The daemon narrows a missing value, too, through a NULL pointer.
NullRead ==
  /\ msg.dir = "request" /\ Part = "aA" /\ Len(got) = 4 /\ ~got[4].ptr
  /\ got[3] = LongLen /\ got[3] # Widths["reader"] /\ gck_rpc_has_ulong_parameter(got[1])
TooSmall == msg.dir = "response" /\ \/ Part = "ay" /\ (got[1] = 0 \/ ~Fits(Len(got[2].bytes)))
                                    \/ Part = "au" /\ (got[1] = 0 \/ ~Fits(got[2]))
\* What is copied to the application's memory.
CopiedHead == IF Part = "ay" THEN Len(got[2].bytes) ELSE IF Part = "au" THEN got[2] ELSE 0
CopiedElem == IF Part = "aA" /\ Len(got) = 4 /\ Fits(got[3]) THEN Len(got[4].bytes) ELSE 0

GotHead ==
  /\ pc = "read" /\ ~AtEnd /\ head = <<>> /\ Len(got) = Len(Gets)
  /\ \E ok \in MemAnswers :
       LET refused == msg.dir = "request" /\ \E n \in HeadAlloc(Part, got) : ~call_alloc(n, ok)
       IN  /\ CASE BadHead -> End("DEVICE_ERROR") /\ UNCHANGED overrun
                [] TooSmall -> End("BUFFER_TOO_SMALL") /\ UNCHANGED overrun
                [] refused -> End("DEVICE_MEMORY") /\ UNCHANGED overrun
                [] OTHER -> /\ overrun' = (overrun \/ (msg.dir = "response" /\ CopiedHead > room))
                            /\ UNCHANGED <<pc, ret, k>>
           /\ nomem' = (nomem \/ refused)
  /\ head' = got /\ got' = <<>>
  /\ UNCHANGED <<text, wbuf, rbuf, todo, wire, damaged, id, accepted, parsed, elems, seen, overread>>

GotElem ==
  /\ pc = "read" /\ ~AtEnd /\ head # <<>> /\ ~Complete /\ Len(got) = Len(Gets)
  /\ \E ok \in MemAnswers :
       LET refused == msg.dir = "request" /\ \E n \in ElemAlloc(Part, got) : ~call_alloc(n, ok)
       IN  /\ CASE BadElem -> End("DEVICE_ERROR") /\ UNCHANGED overrun
                [] NullRead -> End("ABORT") /\ UNCHANGED overrun
                [] refused -> End("DEVICE_MEMORY") /\ UNCHANGED overrun
                [] OTHER -> /\ overrun' = (overrun \/ (msg.dir = "response" /\ CopiedElem > room))
                            /\ UNCHANGED <<pc, ret, k>>
           /\ nomem' = (nomem \/ refused)
  /\ elems' = Append(elems, got) /\ got' = <<>>
  /\ UNCHANGED <<text, wbuf, rbuf, todo, wire, damaged, id, accepted, parsed, head, seen, overread>>

GotPart ==
  /\ pc = "read" /\ ~AtEnd /\ Complete
  /\ LET v    == PartValue(Part, head, elems)
         list == msg.dir = "response" /\ id = MechList
     IN  /\ seen' = Append(seen, IF list THEN [v EXCEPT !.longs = mechanism_list_purge(@)] ELSE v)
         /\ overread' = (overread \/ (list /\ purge_reads_behind(v.longs)))
  /\ k' = k + 1 /\ head' = <<>> /\ elems' = <<>>
  /\ UNCHANGED <<text, wbuf, rbuf, todo, wire, damaged, id, accepted, parsed, got, pc, ret,
                 nomem, overrun>>

GotAll ==
  /\ pc = "read" /\ AtEnd
  /\ End("OK")
  /\ UNCHANGED <<text, reader, wbuf, todo, wire, damaged, nomem>>

Next ==
  \/ \E i \in DOMAIN Texts : message_prep(Texts[i])
  \/ AddNext \/ Wrote \/ Send \/ Receive \/ ParseRequest \/ ParseResponse
  \/ GetNext \/ GotHead \/ GotElem \/ GotPart \/ GotAll

Spec == Init /\ [][Next]_vars

-----------------------------------------------------------------------------
(* Properties.                                                             *)

\* The buffers of both sides keep their shape, their contents inside what is
\* allocated, and gck_rpc_message never has more parsed than was received.
TypeOK ==
  /\ pc \in {"idle", "write", "send", "receive", "parse", "read", "done"}
  /\ msg.dir \in {"request", "response"} /\ msg.id \in DOMAIN Calls \cup {ERROR}
  /\ room \in Rooms \cup {0}
  /\ \A b \in {wbuf, rbuf} :
       /\ b.mem \in Seq(Bytes \cup {Junk}) /\ b.len \in 0 .. allocated_len(b)
       /\ b.failures \in Nat /\ b.stray \in BOOLEAN
  /\ k \in Nat /\ parsed \in 0 .. rbuf.len /\ id \in DOMAIN Calls \cup {ERROR}
  /\ ret \in {"none", "OK", "code", "HOST_MEMORY", "DEVICE_MEMORY", "DEVICE_ERROR",
              "BUFFER_TOO_SMALL", "CLOSED", "ABORT"}
  /\ {damaged, accepted, nomem, overrun, overread} \subseteq BOOLEAN

\* The bytes of a message with call id c and values vals: the reference.
ItemBytes(item) ==
  CASE item.op = "byte"  -> <<item.val>>
    [] item.op = "word"  -> egg_buffer_encode_uint32(item.val)
    [] item.op = "long"  -> egg_buffer_encode_uint32(item.val \div WordMod)
                              \o egg_buffer_encode_uint32(item.val % WordMod)
    [] item.op = "array" -> IF item.val.ptr
                            THEN egg_buffer_encode_uint32(Len(item.val.bytes)) \o item.val.bytes
                            ELSE egg_buffer_encode_uint32(NullLen)
Items(dir, c, vals) ==
  message_head(dir, c)
    \o FlattenSeq([i \in DOMAIN vals |-> write_part(Parts(dir, c)[i], vals[i])])
Encoding(dir, c, vals) == Each(Items(dir, c, vals), ItemBytes)

\* Values that C's types for a part hold on both sides: numbers that fit the
\* reader's CK_ULONG, lengths that are those of what they belong to, and no
\* attribute whose bytes are converted on the way.
CK_ULONG   == 0 .. Base ^ Widths["reader"] - 1
Attributes ==
  {a \in [type : Words, len : Words \cup {Unavailable}, ptr : BOOLEAN, bytes : Seq(Bytes)] :
     /\ IF a.ptr THEN Len(a.bytes) = a.len ELSE a.bytes = <<>>
     /\ gck_rpc_has_ulong_parameter(a.type) /\ a.len = LongLen
          => Widths["writer"] = LongLen /\ Widths["reader"] = LongLen}
Requested  == {a \in [type : Words, ptr : BOOLEAN, room : Words] : a.ptr <=> a.room # 0}
Suits(part, v) ==
  CASE part = "y"  -> v \in Bytes
    [] part = "u"  -> v \in CK_ULONG
    [] part = "v"  -> v \in Bytes \X Bytes
    [] part = "s"  -> v \in Seq(Bytes)
    [] part = "M"  -> v \in [type : Words, ptr : BOOLEAN, bytes : Seq(Bytes)]
                        /\ (~v.ptr => v.bytes = <<>>)
    [] part = "ay" -> v \in [ptr : BOOLEAN, num : Words, bytes : Seq(Bytes)]
                        /\ IF v.ptr THEN v.num = Len(v.bytes) ELSE v.bytes = <<>>
    [] part = "au" -> v \in [ptr : BOOLEAN, num : Words, longs : Seq(CK_ULONG)]
                        /\ IF v.ptr THEN v.num = Len(v.longs) ELSE v.longs = <<>>
    [] part = "fy" -> v \in [data : BOOLEAN, count : BOOLEAN, num : Words]
                        /\ (~v.count => v.num = 0)
    [] part = "fu" -> v \in Words
    [] part = "aA" -> v \in Seq(Attributes) /\ Len(v) \in Words
    [] part = "fA" -> v \in Seq(Requested) /\ Len(v) \in Words

\* Messages of such values, shorter than a uint32 can say; an error is not
\* CKR_OK, strings are padded, and a list of mechanisms has known ones.
Suited(t) ==
  /\ t.id \in Words /\ (t.dir = "request" => t.id # ERROR) /\ (t.id = ERROR => t.vals[1] # 0)
  /\ Len(Encoding(t.dir, t.id, t.vals)) < WordMod
  /\ \A n \in DOMAIN Parts(t.dir, t.id) :
       LET part == Parts(t.dir, t.id)[n]
           v    == t.vals[n]
       IN  /\ Suits(part, v)
           /\ t.dir = "response" /\ part = "s" => Len(v) = StrLen
           /\ t.dir = "response" /\ t.id = MechList
                => part = "au" /\ mechanism_list_purge(v.longs) = v.longs
TextsSuit == \A i \in DOMAIN Texts : Suited(Texts[i])

\* No operation of a buffer touches memory outside it or uses bytes nobody
\* wrote, whatever arrived and wherever the allocator failed (the bounds
\* tests of egg-buffer.c, and the room that messages are received into).
NoStray == ~wbuf.stray /\ ~rbuf.stray /\ \A i \in DOMAIN wire : wire[i] # Junk

\* A message is sent whole or not at all: an addition that failed half way
\* through a part leaves a hole that is never sent, and the failure is not
\* remembered for the next message (gck_rpc_message_buffer_error, _reset).
SentWhole ==
  pc = "receive" /\ ~damaged => wire = Encoding(msg.dir, msg.id, msg.vals)

\* A message that arrives as it was sent, and that is taken, is read to its
\* last byte and has the values that were written.
Arrives ==
  pc = "done" /\ ~damaged /\ ret \in {"OK", "code"}
    => id = msg.id /\ seen = msg.vals /\ parsed = rbuf.len

\* It is refused only for a cause: memory, an array of 0x7fffffff bytes or
\* more, a request of 0x0fffffff bytes or more, a result that does not fit.
RefusedForCause ==
  pc = "done" /\ ~damaged /\ ~nomem =>
    CASE ret = "HOST_MEMORY" ->
           \E i \in DOMAIN Items(msg.dir, msg.id, msg.vals) :
             LET item == Items(msg.dir, msg.id, msg.vals)[i]
             IN  item.op = "array" /\ Len(item.val.bytes) >= TooLong
      [] ret = "CLOSED" ->
           msg.dir = "request" /\ Len(Encoding(msg.dir, msg.id, msg.vals)) >= MaxMessage
      [] ret = "BUFFER_TOO_SMALL" ->
           \E i \in DOMAIN msg.vals : Parts(msg.dir, msg.id)[i] \in {"ay", "au"}
              /\ (~msg.vals[i].ptr \/ msg.vals[i].num > room)
      [] OTHER -> ret \in {"OK", "code"}

\* A message whose values are believed holds these values and not more:
\* what was read of it is as long as a message with these values, also if
\* lengths and counts in it were damaged, and an attribute has as many
\* bytes as it says.  (The list of mechanisms is made shorter afterwards.)
ReadsWhatItTakes ==
  pc = "done" /\ ret = "OK" /\ accepted /\ id # MechList =>
    /\ parsed = Len(Encoding(msg.dir, id, seen))
    /\ \A i \in DOMAIN seen : Parts(msg.dir, id)[i] = "aA" =>
         \A j \in DOMAIN seen[i] : seen[i][j].ptr => Len(seen[i][j].bytes) = seen[i][j].len

\* No result is copied to the application that is larger than the memory
\* it has for it, whatever lengths the response claims.
OutputsFit == ~overrun

-----------------------------------------------------------------------------
(* Expectations that do not hold.                                          *)

\* An answer the client takes is one gck_rpc_message_parse accepted.
\* call_send_recv does not report one that was not.
RefusedNotBelieved == pc = "done" /\ ret = "OK" => accepted

\* Neither process stops: the client's assertion that an answer it goes on
\* with has no errors holds, and the daemon reads through no NULL pointer.
NeverAborts == ret # "ABORT"

\* "All this parameters are transmited on the network as 64bit integers":
\* what gck_rpc_has_bad_sized_ulong_parameter says of the attributes that
\* are unsigned longs.
UlongsTravelAs64 ==
  pc = "done" /\ ~damaged /\ ret = "OK" =>
    \A i \in DOMAIN seen : Parts(msg.dir, id)[i] = "aA" =>
      \A j \in DOMAIN seen[i] :
        seen[i][j].ptr /\ gck_rpc_has_ulong_parameter(seen[i][j].type)
          => seen[i][j].len = Widths["reader"]

\* The space padded string the daemon hands to the module has the length
\* the module will read, for every request it takes.
LabelsWhole ==
  pc = "done" /\ msg.dir = "request" /\ ret = "OK" =>
    \A i \in DOMAIN seen : Parts(msg.dir, id)[i] = "s" => Len(seen[i]) = StrLen

\* gck_rpc_mechanism_list_purge stays within the application's list.
PurgeStaysInside == ~overread

=============================================================================
