------------------------------- MODULE Marshal -------------------------------
(***************************************************************************)
(* One remote call from the application to the PKCS#11 module and back:    *)
(* the stub on the client writes the arguments to the request, the stub on *)
(* the daemon reads them, calls the module's function and writes what it   *)
(* returned to the response, and the client's stub reads that.  What the   *)
(* application gets is compared with a direct call of the module.          *)
(*                                                                         *)
(* A message is the sequence of the values written to its buffer and not   *)
(* yet read.  Bytes are abstracted to a length and to whether there are    *)
(* any (a NULL pointer sends none); the module is one that follows the     *)
(* PKCS#11 conventions for output buffers.  CK_ULONG has 64 bits on both   *)
(* sides, so that attribute values are not converted.  Connections, and    *)
(* failures of the transport and of allocations, are the subject of        *)
(* CallPool; the daemon's table of sessions, which rpc_C_OpenSession and   *)
(* rpc_C_CloseAllSessions look at, is the subject of Sessions: here a call *)
(* finds any table.                                                        *)
(***************************************************************************)
EXTENDS RpcCalls, SequencesExt

CONSTANTS
  Calls,         \* the calls the application makes
  Ulongs,        \* values of CK_ULONG arguments and results
  MaxLen,        \* largest length of an array or buffer
  MaxAttrs,      \* largest number of attributes in a template
  ZeroBuffers    \* does it pass attribute and ULONG buffers with room for nothing?

ASSUME MarshalAssumption ==
  /\ Calls \subseteq DOMAIN gck_rpc_calls
  /\ Ulongs \subseteq Nat /\ MaxLen \in Nat /\ MaxAttrs \in Nat
  /\ ZeroBuffers \in BOOLEAN

VARIABLES
  pc,      \* where the call is
  call,    \* its call id
  args,    \* the application's arguments
  want,    \* what the module will answer, and the session table the call finds
  k,       \* the macro of the stub that is next
  req,     \* cs->req, the values not yet read
  resp,    \* cs->resp, the values not yet read
  sig,     \* sigverify of the message in hand
  seen,    \* the arguments as the daemon read them
  reply,   \* what the module returned: at most one reply
  ret,     \* _ret
  res      \* what the application finds in its output arguments

vars == <<pc, call, args, want, k, req, resp, sig, seen, reply, ret, res>>

-----------------------------------------------------------------------------
(* Arguments an application may pass.                                      *)

Lens       == 0 .. MaxLen
Pointers   == [ptr : BOOLEAN]
ByteArrays == [ptr : BOOLEAN, len : Lens]
Buffers    == [ptr : BOOLEAN, cnt : {TRUE}, len : Lens] \cup [ptr : BOOLEAN, cnt : {FALSE}, len : {0}]

\* A mechanism has no parameters ("plain"), parameters that can be sent
\* ("sane"), or others ("odd").
MechanismTypes == {"plain", "sane", "odd"}
Mechanisms ==
  {[ptr |-> FALSE, type |-> "plain", param |-> FALSE, len |-> 0]}
    \cup [ptr : {TRUE}, type : MechanismTypes, param : {FALSE}, len : {0}]
    \cup [ptr : {TRUE}, type : MechanismTypes, param : {TRUE}, len : {1}]

Unavailable == -1     \* (CK_ULONG) -1
Template(A(_)) ==
  [ptr : {FALSE}, num : {0, 1}, attrs : {<<>>}]
    \cup UNION {{[ptr |-> TRUE, num |-> n, attrs |-> s] :
                   s \in {t \in [1 .. n -> UNION {A(i) : i \in 1 .. n}] :
                            \A i \in 1 .. n : t[i] \in A(i)}} : n \in 0 .. MaxAttrs}
ValueAttr(i)  == [type : {i}, ptr : BOOLEAN, len : {Unavailable, 0, 1}]
BufferAttr(i) == {a \in [type : {i}, ptr : BOOLEAN, len : Lens] :
                    a.ptr /\ a.len = 0 => ZeroBuffers}

\* The values of a parameter that is sent by macro m.  GenerateRandom passes
\* its length by value.
MacroDomain(c, m) ==
  CASE m = "BYTE" -> {0, 1}
    [] m = "ULONG" -> Ulongs
    [] m = "MECHANISM_TYPE" -> MechanismTypes
    [] m = "SPACE_STRING" -> {"label"}
    [] m = "BYTE_ARRAY" -> ByteArrays
    [] m = "BYTE_BUFFER" -> {b \in Buffers : c = "C_GenerateRandom" => b.cnt}
    [] m = "ULONG_BUFFER" -> {b \in Buffers : b.ptr /\ b.len = 0 => ZeroBuffers}
    [] m = "ATTRIBUTE_ARRAY" -> Template(ValueAttr)
    [] m = "ATTRIBUTE_BUFFER" -> Template(BufferAttr)
    [] m = "MECHANISM" -> Mechanisms

ArgDomain(c, n) ==
  LET ins == {m \in ToSet(ClientStubs[c].in) : m.arg = n}
  IN  IF ins = {} THEN Pointers ELSE MacroDomain(c, (CHOOSE m \in ins : TRUE).macro)

Parameters(c) == {m.arg : m \in ToSet(ClientStubs[c].in \o ClientStubs[c].out)}
Args(c) ==
  LET num == Cardinality(Parameters(c))
      Tuples[n \in 0 .. num] ==
        IF n = 0 THEN {<<>>} ELSE {Append(t, v) : t \in Tuples[n - 1], v \in ArgDomain(c, n)}
  IN  Tuples[num]

-----------------------------------------------------------------------------
(* The PKCS#11 module.                                                     *)

CloseCodes     == {"OK", "SESSION_HANDLE_INVALID", "FAIL"}   \* of C_CloseSession
Outs(c)        == ToSet(DaemonStubs[c].out)
OutMacros(c)   == {m.macro : m \in Outs(c)}
OutUlongs(c)   == {m.arg : m \in {x \in Outs(c) : x.macro = "ULONG"}}
Wants(c) ==
  [ret    : {"OK", "FAIL"},
   need   : IF OutMacros(c) \cap {"BYTE_ARRAY", "ULONG_ARRAY"} = {} THEN {0} ELSE Lens,
   odd    : IF c = "C_GetMechanismList" THEN {0, 1} ELSE {0},
   ulongs : [OutUlongs(c) -> Ulongs],
   slot   : IF c = "C_GetSessionInfo" THEN Ulongs ELSE {0},
   attrs  : IF c = "C_GetAttributeValue"
            THEN [1 .. MaxAttrs -> Lens \cup {Unavailable}] ELSE {<<>>},
   full   : IF c = "C_OpenSession" THEN BOOLEAN ELSE {FALSE},
   closes : IF c = "C_CloseAllSessions"
            THEN UNION {[1 .. n -> CloseCodes] : n \in Lens} ELSE {<<>>}]

Reply(r, outs) == [ret |-> r, outs |-> outs]
Output(n, v)   == [i \in {n} |-> v]

\* An output buffer: a NULL pointer asks for the length needed.
FillBuffer(n, b, need) ==
  IF ~b.cnt THEN Reply("ARGUMENTS_BAD", <<>>)
  ELSE IF b.ptr /\ b.len < need
       THEN Reply("BUFFER_TOO_SMALL", Output(n, [len |-> need, got |-> FALSE]))
       ELSE Reply("OK", Output(n, [len |-> need, got |-> b.ptr]))

\* C_FindObjects returns as many handles as there is room for.
FindObjects(b, need) ==
  IF ~b.ptr THEN Reply("ARGUMENTS_BAD", <<>>)
  ELSE Reply("OK", Output(2, [len |-> IF need < b.len THEN need ELSE b.len, got |-> TRUE]))

\* C_GetAttributeValue: the length of an attribute that cannot be had is -1.
GetAttributes(t, needs) ==
  LET Get(a) ==
        LET need == needs[a.type]
        IN  IF need = Unavailable \/ (a.ptr /\ a.len < need)
            THEN [len |-> Unavailable, got |-> FALSE]
            ELSE [len |-> need, got |-> a.ptr]
      some(P(_)) == \E i \in DOMAIN t.attrs : P(t.attrs[i])
  IN  Reply(IF some(LAMBDA a : needs[a.type] = Unavailable) THEN "ATTRIBUTE_SENSITIVE"
            ELSE IF some(LAMBDA a : a.ptr /\ a.len < needs[a.type]) THEN "BUFFER_TOO_SMALL"
            ELSE "OK",
            Output(3, [i \in DOMAIN t.attrs |-> Get(t.attrs[i])]))

\* The value of a field of an information structure.
InfoValue(name, w) == [of |-> name, val |-> IF name = "slotID" THEN w.slot ELSE 0]
Info(fields, w) ==
  [name \in {f.name : f \in ToSet(fields)} |-> InfoValue(name, w)]

\* The function of the module, called with arguments a.
Module(c, a, w) ==
  IF w.ret = "FAIL" THEN Reply("FAIL", <<>>)
  ELSE CASE c = "C_GetAttributeValue" -> GetAttributes(a[3], w.attrs)
         [] c = "C_FindObjects" -> FindObjects(a[2], w.need)
         [] c = "C_GenerateRandom" -> Reply("OK", Output(2, [len |-> a[2].len, got |-> TRUE]))
         [] OutMacros(c) \cap {"BYTE_ARRAY", "ULONG_ARRAY"} # {} /\
              c \notin {"C_FindObjects", "C_GenerateRandom"} ->
              LET n == (CHOOSE m \in Outs(c) : TRUE).arg
              IN  FillBuffer(n, a[n], w.need)
         [] OutMacros(c) \cap InfoMacros # {} ->
              LET m == CHOOSE m \in Outs(c) : TRUE
              IN  Reply("OK", Output(m.arg, Info(DaemonFields[m.macro], w)))
         [] OTHER -> Reply("OK", w.ulongs)

\* rpc_C_CloseAllSessions does not call the function of its name, which would
\* close the sessions of every client: C_GetSlotInfo says whether the slot is
\* valid, then C_CloseSession is called for each session of the slot in the
\* thread's own table (w.closes has its codes), up to the first that fails.
CloseAllSessions(w) ==
  LET bad == {i \in DOMAIN w.closes : w.closes[i] # "OK"}
  IN  CASE w.ret = "FAIL" -> Reply("FAIL", <<>>)
        [] w.ret # "FAIL" /\ bad = {} -> Reply("OK", <<>>)
        [] w.ret # "FAIL" /\ bad # {} -> Reply(w.closes[Min(bad)], <<>>)

\* What the daemon's stub gets from the module.
Served(c, a, w) == IF c = "C_CloseAllSessions" THEN CloseAllSessions(w) ELSE Module(c, a, w)

\* rpc_C_OpenSession has no entry left for the session the module opened.
TableFull(c, w, r) == c = "C_OpenSession" /\ w.full /\ r = "OK"

-----------------------------------------------------------------------------
(* Values on the wire: what one side writes, and what the other reads.     *)

Part(macro) ==
  CASE macro = "BYTE" -> "y"
    [] macro \in {"ULONG", "MECHANISM_TYPE"} -> "u"
    [] macro = "SPACE_STRING" -> "s"
    [] macro = "BYTE_ARRAY" -> "ay"
    [] macro = "BYTE_BUFFER" -> "fy"
    [] macro = "ULONG_BUFFER" -> "fu"
    [] macro = "ATTRIBUTE_ARRAY" -> "aA"
    [] macro = "ATTRIBUTE_BUFFER" -> "fA"
    [] macro = "MECHANISM" -> "M"

write_value(v)       == [val |-> v]
write_byte_array(v)  == [valid |-> v.ptr, len |-> v.len]
\* mutant: a missing count looks like a count of 0
ByteBufferCounted(v) == [nodata |-> ~v.ptr, nocount |-> FALSE, len |-> v.len]
write_byte_buffer(v) == [nodata |-> ~v.ptr, nocount |-> ~v.cnt,
                         len |-> IF v.cnt THEN v.len ELSE 0]
write_ulong_buffer(v) == [len |-> IF v.ptr THEN v.len ELSE 0]
write_attribute_buffer(v) ==
  [i \in DOMAIN v.attrs |->
     [type |-> v.attrs[i].type, len |-> IF v.attrs[i].ptr THEN v.attrs[i].len ELSE 0]]
write_attribute_array(attrs) ==
  [i \in DOMAIN attrs |->
     [type |-> attrs[i].type, valid |-> attrs[i].len # Unavailable,
      len |-> attrs[i].len, data |-> attrs[i].ptr]]
proto_write_mechanism(v) ==
  [type |-> v.type, data |-> v.type = "sane" /\ v.param,
   len |-> IF v.type = "sane" /\ v.param THEN v.len ELSE 0]

\* An IN_ macro of the client.
Encode(macro, v) ==
  CASE macro = "BYTE_ARRAY" -> write_byte_array(v)
    [] macro = "BYTE_BUFFER" -> write_byte_buffer(v)
    [] macro = "ULONG_BUFFER" -> write_ulong_buffer(v)
    [] macro = "ATTRIBUTE_BUFFER" -> write_attribute_buffer(v)
    [] macro = "ATTRIBUTE_ARRAY" -> write_attribute_array(v.attrs)
    [] macro = "MECHANISM" -> proto_write_mechanism(v)
    [] OTHER -> write_value(v)

\* The early returns of the IN_ macros: "OK" when there is none.
Refusal(macro, v) ==
  CASE macro = "BYTE_ARRAY" /\ v.len # 0 /\ ~v.ptr -> "ARGUMENTS_BAD"
    [] macro \in {"ATTRIBUTE_ARRAY", "ATTRIBUTE_BUFFER"} /\ v.num # 0 /\ ~v.ptr -> "ARGUMENTS_BAD"
    [] macro = "ULONG_BUFFER" /\ ~v.cnt -> "ARGUMENTS_BAD"
    [] macro = "MECHANISM" /\ ~v.ptr -> "ARGUMENTS_BAD"
    [] macro = "MECHANISM" /\ v.ptr /\ v.type = "odd" -> "MECHANISM_INVALID"
    [] macro = "MECHANISM_TYPE" /\ v = "odd" -> "MECHANISM_INVALID"
    [] OTHER -> "OK"

read_byte_array(f)   == [ptr |-> f.valid, len |-> f.len]
read_byte_buffer(f)  == [ptr |-> ~f.nodata, cnt |-> ~f.nocount, len |-> f.len]
read_ulong_buffer(f) == [ptr |-> f.len # 0, cnt |-> TRUE, len |-> f.len]
read_attribute_buffer(f) ==
  [ptr |-> TRUE, num |-> Len(f),
   attrs |-> [i \in DOMAIN f |-> [type |-> f[i].type, ptr |-> f[i].len # 0, len |-> f[i].len]]]
read_attribute_array(f) ==
  [ptr |-> f # <<>>, num |-> Len(f),
   attrs |-> [i \in DOMAIN f |->
                [type |-> f[i].type, ptr |-> f[i].valid /\ f[i].data,
                 len |-> IF f[i].valid THEN f[i].len ELSE Unavailable]]]
proto_read_mechanism(f) == [ptr |-> TRUE, type |-> f.type, param |-> f.data, len |-> f.len]

\* An IN_ macro of the daemon.
Decode(macro, f) ==
  CASE macro = "BYTE_ARRAY" -> read_byte_array(f)
    [] macro = "BYTE_BUFFER" -> read_byte_buffer(f)
    [] macro = "ULONG_BUFFER" -> read_ulong_buffer(f)
    [] macro = "ATTRIBUTE_BUFFER" -> read_attribute_buffer(f)
    [] macro = "ATTRIBUTE_ARRAY" -> read_attribute_array(f)
    [] macro = "MECHANISM" -> proto_read_mechanism(f)
    [] OTHER -> f.val

-----------------------------------------------------------------------------
(* OUT_ macros of the daemon: the parts and values that macro m writes     *)
(* after the module returned r, and the return code that is left.          *)

Written(parts, values, r) == [parts |-> parts, values |-> values, ret |-> r]
Nothing(r) == Written(<<>>, <<>>, r)

proto_write_byte_array(part, b, out, r) ==
  IF r \notin {"OK", "BUFFER_TOO_SMALL"} THEN Nothing(r)
  ELSE Written(<<part>>, <<[valid |-> r = "OK" /\ b.ptr, len |-> IF b.cnt THEN out.len ELSE 0]>>,
               "OK")

proto_write_attribute_array(t, out, r) ==
  IF r \notin {"OK", "BUFFER_TOO_SMALL", "ATTRIBUTE_SENSITIVE"} THEN Nothing(r)
  ELSE Written(<<"aA", "u">>,
               <<write_attribute_array([i \in DOMAIN t.attrs |->
                                          [t.attrs[i] EXCEPT !.len = out[i].len]]),
                 write_value(r)>>, "OK")

\* C_WaitForSlotEvent and C_GetSessionInfo take a slot id for an appartment.
CK_GNOME_APPARTMENT_SLOT(virt) == virt % 1024
SlotOf(c, n) == IF c = "C_WaitForSlotEvent" THEN CK_GNOME_APPARTMENT_SLOT(n) ELSE n
FieldOf(f, out) ==
  [len |-> f.length,
   val |-> [out[f.name] EXCEPT !.val = IF f.name = "slotID" THEN CK_GNOME_APPARTMENT_SLOT(@) ELSE @]]

WriteOut(m, r) ==
  LET out == reply.outs[m.arg]
  IN  CASE m.macro = "BYTE_ARRAY" -> proto_write_byte_array("ay", seen[m.arg], out, r)
        [] m.macro = "ULONG_ARRAY" -> proto_write_byte_array("au", seen[m.arg], out, r)
        [] m.macro = "ATTRIBUTE_ARRAY" -> proto_write_attribute_array(seen[m.arg], out, r)
        [] m.macro = "ULONG" /\ r = "OK" -> Written(<<"u">>, <<write_value(SlotOf(call, out))>>, r)
        [] m.macro \in InfoMacros /\ r = "OK" ->
             LET fs == DaemonFields[m.macro]
             IN  Written([i \in DOMAIN fs |-> fs[i].part],
                         [i \in DOMAIN fs |-> FieldOf(fs[i], out)], r)
        [] OTHER -> Nothing(r)

-----------------------------------------------------------------------------
(* OUT_ macros of the client: the parts macro m reads, the return code and *)
(* what is in the output argument then.                                    *)

Read(parts, r, out) == [parts |-> parts, ret |-> r, out |-> out]

\* mutant: a buffer that is just large enough is taken to be too small
ReadArrayTight(part, b, f) ==
  Read(<<part>>,
       IF b.ptr /\ (~f.valid \/ b.len <= f.len) THEN "BUFFER_TOO_SMALL" ELSE "OK",
       [len |-> f.len, got |-> b.ptr /\ f.valid /\ b.len > f.len])

proto_read_array(part, b, f) ==
  Read(<<part>>,
       IF \/ ~f.valid /\ b.ptr
          \/ f.valid /\ (b.ptr \/ part = "au") /\ b.len < f.len
       THEN "BUFFER_TOO_SMALL" ELSE "OK",
       [len |-> f.len, got |-> b.ptr /\ f.valid /\ b.len >= f.len])

\* The mechanisms that are not supported are taken out of the list.
mechanism_list_purge(out, odd) == [out EXCEPT !.len = IF @ > 0 THEN @ - odd ELSE @]

\* The code that comes with the attributes replaces CKR_BUFFER_TOO_SMALL.
proto_read_attribute_array(t, f, code) ==
  LET Stuff(a, v) ==
        CASE ~v.valid -> [len |-> Unavailable, got |-> FALSE]
          [] v.valid /\ ~a.ptr -> [len |-> v.len, got |-> FALSE]
          [] v.valid /\ a.ptr /\ a.len < v.len -> [len |-> v.len, got |-> FALSE]
          [] v.valid /\ a.ptr /\ a.len >= v.len ->
               [len |-> IF v.data THEN v.len ELSE 0, got |-> v.data]
  IN  Read(<<"aA", "u">>, code, [i \in DOMAIN f |-> Stuff(t.attrs[i], f[i])])

proto_read_fields(fields, values) ==
  Read([i \in DOMAIN fields |-> fields[i].part],
       IF \E i \in DOMAIN fields : fields[i].length # values[i].len THEN "DEVICE_ERROR" ELSE "OK",
       [name \in {f.name : f \in ToSet(fields)} |->
          values[CHOOSE i \in DOMAIN fields : fields[i].name = name].val])

ReadOut(m, a) ==
  CASE m.macro = "BYTE_ARRAY" -> proto_read_array("ay", a, resp[1])
    [] m.macro = "ULONG_ARRAY" -> proto_read_array("au", a, resp[1])
    [] m.macro = "MECHANISM_TYPE_ARRAY" ->
         LET r == proto_read_array("au", a, resp[1])
         IN  IF r.ret = "OK" /\ a.ptr THEN [r EXCEPT !.out = mechanism_list_purge(@, want.odd)] ELSE r
    [] m.macro = "ATTRIBUTE_ARRAY" -> proto_read_attribute_array(a, resp[1], resp[2].val)
    [] m.macro = "ULONG" -> Read(<<"u">>, "OK", resp[1].val)
    [] m.macro \in InfoMacros -> proto_read_fields(ClientFields[m.macro], resp)

-----------------------------------------------------------------------------
(* The steps of a call.                                                    *)

Nobody == [ret |-> "none", outs |-> <<>>]

Init ==
  /\ pc = "idle" /\ call = "none" /\ args = <<>> /\ want = <<>> /\ k = 1
  /\ req = <<>> /\ resp = <<>> /\ sig = <<>> /\ seen = <<>>
  /\ reply = Nobody /\ ret = "OK" /\ res = <<>>

\* gck_rpc_message_verify_part, for several parts in a row.
verify_part(parts) == IsPrefix(parts, sig)
Advance(parts)     == sig' = SubSeq(sig, Len(parts) + 1, Len(sig))

\* A condition of return_val_if_fail.
Meets(kind, v) ==
  CASE kind = "ptr" -> v.ptr
    [] kind = "count" -> v.cnt
    [] kind = "handle" -> v # 0
    [] kind = "len" -> v.len # 0

\* The application calls; BEGIN_CALL prepares the request.
Begin ==
  /\ pc = "idle"
  /\ \E c \in Calls :
       /\ call' = c
       /\ args' \in Args(c)
       /\ want' \in Wants(c)
       /\ LET bad == {q \in ClientStubs[c].need : ~Meets(q[1], args'[q[2]])}
          IN  \/ /\ bad = {}
                 /\ pc' = "client_in"
                 /\ sig' = gck_rpc_calls[c].request
                 /\ UNCHANGED ret
              \/ /\ bad # {}
                 /\ pc' = "returned"
                 /\ ret' = IF \E q \in bad : q[1] = "handle"
                           THEN "SESSION_HANDLE_INVALID" ELSE "ARGUMENTS_BAD"
                 /\ UNCHANGED sig
  /\ UNCHANGED <<k, req, resp, seen, reply, res>>

\* The next IN_ macro of the client.
ClientIn ==
  /\ pc = "client_in"
  /\ k <= Len(ClientStubs[call].in)
  /\ LET m == ClientStubs[call].in[k]
         v == args[m.arg]
     IN  \/ /\ Refusal(m.macro, v) # "OK"
            /\ ret' = Refusal(m.macro, v)
            /\ pc' = "returned"
            /\ UNCHANGED <<k, req, sig>>
         \/ /\ Refusal(m.macro, v) = "OK" /\ verify_part(<<Part(m.macro)>>)
            /\ Advance(<<Part(m.macro)>>)
            /\ req' = Append(req, Encode(m.macro, v))
            /\ k' = k + 1
            /\ UNCHANGED <<pc, ret>>
  /\ UNCHANGED <<call, args, want, resp, seen, reply, res>>

\* PROCESS_CALL of the client: the request goes to the daemon, which parses
\* it and prepares a response.
ClientRun ==
  /\ pc = "client_in"
  /\ k > Len(ClientStubs[call].in)
  /\ sig = <<>>
  /\ pc' = "daemon_in"
  /\ k' = 1
  /\ sig' = gck_rpc_calls[call].request
  /\ UNCHANGED <<call, args, want, req, resp, seen, reply, ret, res>>

\* The next IN_ macro of the daemon.
DaemonIn ==
  /\ pc = "daemon_in"
  /\ k <= Len(DaemonStubs[call].in)
  /\ LET m == DaemonStubs[call].in[k]
     IN  /\ verify_part(<<Part(m.macro)>>)
         /\ Advance(<<Part(m.macro)>>)
         /\ seen' = Output(m.arg, Decode(m.macro, Head(req))) ++ seen
  /\ req' = Tail(req)
  /\ k' = k + 1
  /\ UNCHANGED <<pc, call, args, want, resp, reply, ret, res>>

\* PROCESS_CALL of the daemon, or what stands in its place: the module is
\* called, unless a stub's own check fails first.  C_OpenSession with a full
\* table gets CKR_SESSION_COUNT, and its output is skipped.
DaemonProcess ==
  /\ pc = "daemon_in"
  /\ k > Len(DaemonStubs[call].in)
  /\ sig = <<>>
  /\ LET ok == \A q \in DaemonStubs[call].need : Meets(q[1], seen[q[2]])
     IN  \/ /\ ok
            /\ reply' = Served(call, seen, want)
            /\ \/ /\ TableFull(call, want, reply'.ret)
                  /\ ret' = "SESSION_COUNT" /\ pc' = "daemon_done"
               \/ /\ ~TableFull(call, want, reply'.ret)
                  /\ ret' = reply'.ret /\ pc' = "daemon_out"
         \/ /\ ~ok
            /\ ret' = "DEVICE_ERROR" /\ pc' = "daemon_done"
            /\ UNCHANGED reply
  /\ k' = 1
  /\ sig' = gck_rpc_calls[call].response
  /\ UNCHANGED <<call, args, want, req, resp, seen, res>>

\* The next OUT_ macro of the daemon.
DaemonOut ==
  /\ pc = "daemon_out"
  /\ \/ /\ k <= Len(DaemonStubs[call].out)
        /\ LET w == WriteOut(DaemonStubs[call].out[k], ret)
           IN  /\ verify_part(w.parts)
               /\ Advance(w.parts)
               /\ resp' = resp \o w.values
               /\ ret' = w.ret
        /\ k' = k + 1
        /\ UNCHANGED pc
     \/ /\ k > Len(DaemonStubs[call].out)
        /\ pc' = "daemon_done"
        /\ UNCHANGED <<k, resp, ret, sig>>
  /\ UNCHANGED <<call, args, want, req, seen, reply, res>>

\* The end of dispatch_call and, at the client, of call_run: a response that
\* is complete is read, one with an error code makes the call return it.
DaemonDone ==
  /\ pc = "daemon_done"
  /\ \/ /\ ret = "OK" /\ sig = <<>>
        /\ pc' = "client_out"
        /\ sig' = gck_rpc_calls[call].response
        /\ UNCHANGED resp
     \/ /\ ret # "OK"
        /\ pc' = "returned"
        /\ resp' = <<>>
        /\ UNCHANGED sig
  /\ k' = 1
  /\ UNCHANGED <<call, args, want, req, seen, reply, ret, res>>

\* The check an OUT_ macro of the client makes of its pointers.
OutGiven(m, v) ==
  CASE m.macro \in {"BYTE_ARRAY", "ULONG_ARRAY", "MECHANISM_TYPE_ARRAY"} -> v.cnt
    [] m.macro = "ATTRIBUTE_ARRAY" -> TRUE
    [] OTHER -> v.ptr

\* The next OUT_ macro of the client.
ClientOut ==
  /\ pc = "client_out"
  /\ k <= Len(ClientStubs[call].out)
  /\ LET m == ClientStubs[call].out[k]
         v == args[m.arg]
         r == ReadOut(m, v)
     IN  \/ /\ ~OutGiven(m, v)
            /\ ret' = "ARGUMENTS_BAD"
            /\ UNCHANGED <<resp, sig, res>>
         \/ /\ OutGiven(m, v) /\ ret # "OK"
            /\ UNCHANGED <<resp, sig, res, ret>>
         \/ /\ OutGiven(m, v) /\ ret = "OK"
            /\ verify_part(r.parts)
            /\ Advance(r.parts)
            /\ resp' = SubSeq(resp, Len(r.parts) + 1, Len(resp))
            /\ ret' = r.ret
            /\ res' = Output(m.arg, r.out) ++ res
  /\ k' = k + 1
  /\ UNCHANGED <<pc, call, args, want, req, seen, reply>>

\* call_done.
ClientDone ==
  /\ pc = "client_out"
  /\ k > Len(ClientStubs[call].out)
  /\ ret = "OK" => sig = <<>>
  /\ pc' = "returned"
  /\ UNCHANGED <<call, args, want, k, req, resp, sig, seen, reply, ret, res>>

\* The application goes on, and may call again.
Return ==
  /\ pc = "returned"
  /\ pc' = "idle" /\ call' = "none" /\ args' = <<>> /\ want' = <<>> /\ k' = 1
  /\ req' = <<>> /\ resp' = <<>> /\ sig' = <<>> /\ seen' = <<>>
  /\ reply' = Nobody /\ ret' = "OK" /\ res' = <<>>

Next ==
  \/ Begin \/ ClientIn \/ ClientRun \/ DaemonIn \/ DaemonProcess \/ DaemonOut
  \/ DaemonDone \/ ClientOut \/ ClientDone \/ Return

Spec == Init /\ [][Next]_vars

-----------------------------------------------------------------------------
(* Properties.                                                             *)

\* The parts the next macro asks of verify_part.
NextParts ==
  LET cin  == ClientStubs[call].in[k]
      cout == ClientStubs[call].out[k]
  IN  CASE pc = "client_in" /\ k <= Len(ClientStubs[call].in) ->
             IF Refusal(cin.macro, args[cin.arg]) = "OK" THEN <<Part(cin.macro)>> ELSE <<>>
        [] pc = "daemon_in" /\ k <= Len(DaemonStubs[call].in) ->
             <<Part(DaemonStubs[call].in[k].macro)>>
        [] pc = "daemon_out" /\ k <= Len(DaemonStubs[call].out) ->
             WriteOut(DaemonStubs[call].out[k], ret).parts
        [] pc = "client_out" /\ k <= Len(ClientStubs[call].out) /\ ret = "OK" ->
             IF OutGiven(cout, args[cout.arg]) THEN ReadOut(cout, args[cout.arg]).parts ELSE <<>>
        [] OTHER -> <<>>

\* Is the message asserted to be complete (gck_rpc_message_is_verified)?
MustBeVerified ==
  \/ pc = "client_in" /\ k > Len(ClientStubs[call].in)
  \/ pc = "daemon_in" /\ k > Len(DaemonStubs[call].in)
  \/ pc = "daemon_done" /\ ret = "OK"
  \/ pc = "client_out" /\ k > Len(ClientStubs[call].out) /\ ret = "OK"

\* No assertion on a signature fails, whatever the arguments and the answer:
\* client, daemon and gck_rpc_calls agree on the parts of every message
\* ("Make sure this is in the right order", "Double check that the signature
\* matched our decoding").
SignaturesHold == verify_part(NextParts) /\ (MustBeVerified => sig = <<>>)

\* What the module can tell of an argument is what the application passed.
SameArgument(macro, v, s) ==
  CASE macro = "MECHANISM" -> s.type = v.type /\ (v.type # "plain" => s = v)
    [] macro = "ULONG_BUFFER" -> s.ptr = v.ptr /\ (v.ptr => s.len = v.len)
    [] macro = "ATTRIBUTE_BUFFER" ->
         /\ s.num = v.num
         /\ \A i \in 1 .. v.num :
              /\ s.attrs[i].type = v.attrs[i].type /\ s.attrs[i].ptr = v.attrs[i].ptr
              /\ v.attrs[i].ptr => s.attrs[i].len = v.attrs[i].len
    [] macro = "ATTRIBUTE_ARRAY" ->
         /\ s.num = v.num
         /\ \A i \in 1 .. v.num :
              /\ s.attrs[i].type = v.attrs[i].type /\ s.attrs[i].len = v.attrs[i].len
              /\ v.attrs[i].len # Unavailable => s.attrs[i].ptr = v.attrs[i].ptr
    [] OTHER -> s = v

\* Every argument reaches the parameter of the module's function that it was
\* passed for (client and daemon stubs together).
ArgumentsArrive ==
  reply # Nobody =>
    \A m \in ToSet(ClientStubs[call].in) :
      m.arg \in DOMAIN seen /\ SameArgument(m.macro, args[m.arg], seen[m.arg])

\* What the application should get: what a direct call of the module gives,
\* but for the mechanisms that are taken out of lists, C_OpenSession when the
\* table of sessions is full, and C_CloseAllSessions, which is emulated.
Promised ==
  LET d == Served(call, args, want)
  IN  CASE TableFull(call, want, d.ret) -> Reply("SESSION_COUNT", <<>>)
        [] call = "C_GetMechanismList" /\ d.ret = "OK" /\ args[2].ptr ->
             [d EXCEPT !.outs[2] = mechanism_list_purge(@, want.odd)]
        [] OTHER -> d

\* A call that reached the module gives the application the return code and
\* the outputs that the module would have given it directly, with the three
\* exceptions that Promised names.
Transparent ==
  pc = "returned" /\ reply # Nobody /\ (\A n \in OutUlongs(call) : args[n].ptr)
    => ret = Promised.ret /\ res = Promised.outs

\* An attribute whose value does not fit is not reported with CKR_OK
\* (proto_read_attribute_array: "Wants attribute data, but too small").
TooSmallReported ==
  pc = "returned" /\ call = "C_GetAttributeValue" /\ 3 \in DOMAIN res =>
    \A i \in DOMAIN res[3] :
      args[3].attrs[i].ptr /\ res[3][i].len > args[3].attrs[i].len => ret # "OK"

\* C_GetSessionInfo and C_WaitForSlotEvent report the slot that the module
\* reported.
SlotKept ==
  pc = "returned" /\ ret = "OK" =>
    /\ call = "C_GetSessionInfo" => res[2]["slotID"].val = want.slot
    /\ call = "C_WaitForSlotEvent" => res[2] = want.ulongs[2]

\* A call refused for its arguments did nothing in the module.
RefusedWithoutEffect ==
  pc = "returned" /\ ret = "ARGUMENTS_BAD" => reply.ret # "OK"

\* C_Encrypt fails only once the module has seen the call, which terminates
\* the operation there (the comment in rpc_C_Encrypt).
EncryptTerminates ==
  pc = "returned" /\ call = "C_Encrypt" /\ ret \notin {"OK", "BUFFER_TOO_SMALL"} =>
    reply # Nobody

=============================================================================
