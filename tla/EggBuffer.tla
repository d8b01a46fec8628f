------------------------------ MODULE EggBuffer ------------------------------
(***************************************************************************)
(* The growable byte buffer that messages are built in and read from       *)
(* (egg-buffer.c), as operators on a record:                               *)
(*                                                                         *)
(*   mem       the memory at buffer->buf, allocated_len cells, a cell that *)
(*             was never written holding Junk                              *)
(*   len       buffer->len                                                 *)
(*   failures  buffer->failures                                            *)
(*   stray     history: has a cell outside mem been accessed, or the value *)
(*             of a cell used that was never written?                      *)
(*                                                                         *)
(* Byte and word sizes are parameters (256 and 4 in the code, where a word *)
(* is a uint32), so that the limits the code tests for, 0x7fffffff and     *)
(* 0xffffffff, are within TLC's reach.  Sums of lengths stay far below the *)
(* range of a 64-bit size_t and do not wrap.  Buffers without allocator,   *)
(* strings and string vectors are not used by the proxy.                   *)
(***************************************************************************)
EXTENDS Integers, Sequences

CONSTANTS
  Base,       \* number of values of a byte
  WordLen     \* bytes of a uint32

ASSUME EggBufferAssumption == Base \in Nat \ {0, 1} /\ WordLen \in Nat \ {0}

Bytes   == 0 .. Base - 1
WordMod == Base ^ WordLen           \* 2^32
Words   == 0 .. WordMod - 1
NullLen == WordMod - 1              \* 0xffffffff, the length of a NULL array
TooLong == WordMod \div 2 - 1       \* 0x7fffffff
LongLen == 2 * WordLen              \* bytes of a uint64
Longs   == 0 .. WordMod * WordMod - 1
Junk    == -1

allocated_len(b) == Len(b.mem)
Fill(n, x)       == [i \in 1 .. n |-> x]
Failed(b)        == [b EXCEPT !.failures = @ + 1]

\* gck_rpc_message_new makes its buffers with room for n bytes.
egg_buffer_init(n) ==
  [mem |-> Fill(n, Junk), len |-> 0, failures |-> 0, stray |-> FALSE]

ResetForgets(b) == [b EXCEPT !.mem = Fill(allocated_len(b), 0), !.len = 0]    \* mutant
egg_buffer_reset(b) ==
  [b EXCEPT !.mem = Fill(allocated_len(b), 0), !.len = 0, !.failures = 0]

HasErrorLate(b) == b.failures > 1      \* mutant
egg_buffer_has_error(b) == b.failures > 0

-----------------------------------------------------------------------------
(* Writing.  ok is the answer of the allocator, should it be asked.        *)

NewLenShort(b, n) == 2 * allocated_len(b)    \* mutant: a large request is not added
NewLen(b, n) ==
  LET twice == 2 * allocated_len(b) IN IF n > twice THEN twice + n ELSE twice

egg_buffer_reserve(b, n, ok) ==
  IF n < allocated_len(b) THEN b
  ELSE IF ok THEN [b EXCEPT !.mem = @ \o Fill(NewLen(b, n) - allocated_len(b), Junk)]
       ELSE Failed(b)

\* Bytes s are stored from offset off on.
Store(b, off, s) ==
  IF off + Len(s) <= allocated_len(b)
  THEN [b EXCEPT !.mem = [i \in DOMAIN @ |-> IF i > off /\ i <= off + Len(s)
                                             THEN s[i - off] ELSE @[i]]]
  ELSE [b EXCEPT !.stray = TRUE]

\* Bytes s are added at the end of the buffer, if there is or can be room.
egg_buffer_append(b, s, ok) ==
  LET r == egg_buffer_reserve(b, b.len + Len(s), ok)
  IN  IF r.failures # b.failures THEN r
      ELSE [Store(r, r.len, s) EXCEPT !.len = @ + Len(s)]

\* Room for n bytes that are, or were, stored without egg_buffer_append.
egg_buffer_add_empty(b, n, ok) ==
  LET r == egg_buffer_reserve(b, b.len + n, ok)
  IN  IF r.failures # b.failures THEN r ELSE [r EXCEPT !.len = @ + n]

egg_buffer_add_byte(b, v, ok) == egg_buffer_append(b, <<v>>, ok)

\* Big endian; the value is an argument of type uint32.
egg_buffer_encode_uint32(v) == [i \in 1 .. WordLen |-> (v \div Base ^ (WordLen - i)) % Base]
egg_buffer_decode_uint32(s) == CHOOSE v \in Words : egg_buffer_encode_uint32(v) = s

\* What a power is, as far as words and unsigned longs need them.
ASSUME EggBufferPowers ==
  Base ^ 0 = 1 /\ \A i \in 0 .. LongLen : Base ^ (i + 1) = Base * Base ^ i

\* Would n bytes from offset off on be outside the buffer's contents?
BeyondByOne(b, off, n) == b.len < n \/ off > b.len - n + 1     \* mutant
Beyond(b, off, n)      == b.len < n \/ off > b.len - n

egg_buffer_set_uint32(b, off, v) ==
  IF Beyond(b, off, WordLen) THEN Failed(b)
  ELSE Store(b, off, egg_buffer_encode_uint32(v))

egg_buffer_add_uint32(b, v, ok) ==
  LET r == egg_buffer_reserve(b, b.len + WordLen, ok)
  IN  IF r.failures # b.failures THEN r
      ELSE egg_buffer_set_uint32([r EXCEPT !.len = @ + WordLen], r.len, v % WordMod)

\* The second half is not tried when the first one failed; ok2 is the
\* allocator's answer to the second request.
egg_buffer_add_uint64(b, v, ok, ok2) ==
  LET r == egg_buffer_add_uint32(b, v \div WordMod, ok)
  IN  IF r.failures # b.failures THEN r
      ELSE egg_buffer_add_uint32(r, v % WordMod, ok2)

\* A NULL array (~a.ptr) is a length no other array has.
egg_buffer_add_byte_array(b, a, ok, ok2) ==
  IF ~a.ptr THEN egg_buffer_add_uint32(b, NullLen, ok)
  ELSE IF Len(a.bytes) >= TooLong THEN Failed(b)
       ELSE LET r == egg_buffer_add_uint32(b, Len(a.bytes), ok)
            IN  IF r.failures # b.failures THEN r
                ELSE egg_buffer_append(r, a.bytes, ok2)

-----------------------------------------------------------------------------
(* Reading: the buffer afterwards, whether it worked, the value, and the   *)
(* offset behind it.  A read that fails leaves the offset where it was.    *)

Got(b, v, next) == [buf |-> b, ok |-> TRUE, val |-> v, next |-> next]
Missed(b, off)  == [buf |-> b, ok |-> FALSE, val |-> 0, next |-> off]

\* The n bytes at offset off, as the CPU would load them.
Cells(b, off, n) ==
  [i \in 1 .. n |-> IF off + i <= allocated_len(b) THEN b.mem[off + i] ELSE Junk]
Loaded(b, off, n) ==
  [b EXCEPT !.stray = @ \/ \E i \in 1 .. n : Cells(b, off, n)[i] = Junk]
Load(b, off, n) ==
  [i \in 1 .. n |-> IF Cells(b, off, n)[i] = Junk THEN 0 ELSE Cells(b, off, n)[i]]

egg_buffer_get_byte(b, off) ==
  IF Beyond(b, off, 1) THEN Missed(Failed(b), off)
  ELSE Got(Loaded(b, off, 1), Load(b, off, 1)[1], off + 1)

egg_buffer_get_uint32(b, off) ==
  IF Beyond(b, off, WordLen) THEN Missed(Failed(b), off)
  ELSE Got(Loaded(b, off, WordLen),
           egg_buffer_decode_uint32(Load(b, off, WordLen)), off + WordLen)

\* mutant: the halves are swapped
GetLowFirst(b, off) ==
  LET lo == egg_buffer_get_uint32(b, off)
      hi == egg_buffer_get_uint32(lo.buf, lo.next)
  IN  IF lo.ok /\ hi.ok THEN Got(hi.buf, hi.val * WordMod + lo.val, hi.next)
      ELSE Missed(hi.buf, off)

egg_buffer_get_uint64(b, off) ==
  LET hi == egg_buffer_get_uint32(b, off)
      lo == egg_buffer_get_uint32(hi.buf, hi.next)
  IN  IF ~hi.ok THEN hi
      ELSE IF ~lo.ok THEN Missed(lo.buf, off)
           ELSE Got(lo.buf, hi.val * WordMod + lo.val, lo.next)

\* The value of an array is a pointer into the buffer: ptr is FALSE for NULL.
egg_buffer_get_byte_array(b, off) ==
  LET n == egg_buffer_get_uint32(b, off)
  IN  IF ~n.ok THEN n
      ELSE IF n.val = NullLen THEN Got(n.buf, [ptr |-> FALSE, bytes |-> <<>>], n.next)
      ELSE IF n.val >= TooLong \/ Beyond(n.buf, n.next, n.val)
           THEN Missed(Failed(n.buf), off)
           ELSE Got(Loaded(n.buf, n.next, n.val),
                    [ptr |-> TRUE, bytes |-> Load(n.buf, n.next, n.val)],
                    n.next + n.val)

=============================================================================
