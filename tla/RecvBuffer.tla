----------------------------- MODULE RecvBuffer -----------------------------
(***************************************************************************)
(* recv_buffer.h, recv_buffer.cpp: the receive buffer of a connection, as  *)
(* operators on a record.                                                  *)
(*                                                                         *)
(*   cap    m_buff.size()                                                  *)
(*   mem    the bytes of m_buff before m_recv_end, so Len(mem) is           *)
(*          m_recv_end; what lies behind it is never read                  *)
(*   start  m_recv_start                                                   *)
(*   pos    m_recv_pos, counted from start                                 *)
(*   size   m_message_size                                                 *)
(*                                                                         *)
(* cut is always called with its default offset, 0.                        *)
(***************************************************************************)
EXTENDS Integers, Sequences

RecvEnd(b) == Len(b.mem)
MaxReceive(b) == b.cap - RecvEnd(b)
IsMessageFinished(b) == b.pos >= b.size
PosAtEnd(b) == b.pos = RecvEnd(b)
MinOf(m, n) == IF m <= n THEN m ELSE n
MaxOf(m, n) == IF m >= n THEN m ELSE n

EmptyBuffer == [cap |-> 0, mem |-> <<>>, start |-> 0, pos |-> 0, size |-> 0]

\* get: from the start of the message, pos bytes, whatever the message size is.
Get(b) == SubSeq(b.mem, b.start + 1, b.start + b.pos)

\* received, with the bytes the socket wrote at the end, and its assertions; the
\* position is compared as a size_t.
ReceivedAsserts(b) == b.size > 0 /\ 0 <= b.pos /\ b.pos <= b.cap
Received(b, bytes) == [b EXCEPT !.mem = @ \o bytes]

\* advance_pos: up to the end of the message, or by one message size more when
\* the position is there already.
Advance_NoLimit(b, bytes) == bytes
Advance(b, bytes) == MinOf(IF b.size > b.pos THEN b.size - b.pos ELSE b.size, bytes)
AdvancePos(b, bytes) == [b EXCEPT !.pos = @ + Advance(b, bytes)]

\* cut(size, next), and its assertions.
CutAsserts(b, size, next) ==
    /\ 0 <= size /\ size <= b.cap /\ b.pos <= b.cap /\ next > 0
    /\ b.start <= RecvEnd(b) /\ size <= b.pos /\ b.start + size <= RecvEnd(b)
Cut(b, size, next) == [b EXCEPT !.start = @ + size, !.pos = @ - size, !.size = next]

\* reset: the end it compares with the message size is counted from the start
\* of the buffer, not from the start of the message.
HasMore(b) == RecvEnd(b) > b.size
ResetAsserts(b, next) ==
    RecvEnd(b) <= b.cap /\ next > 0 /\ (HasMore(b) => CutAsserts(b, b.size, next))
Reset_KeepsPos(b, next) ==
    IF HasMore(b) THEN [Cut(b, b.size, next) EXCEPT !.pos = b.pos] ELSE [b EXCEPT !.size = next]
Reset(b, next) ==
    IF HasMore(b)
    THEN Cut(b, b.size, next)
    ELSE [b EXCEPT !.mem = <<>>, !.start = 0, !.pos = 0, !.size = next]

\* clean: memmove of what is left to the front.
Clean_NoMove(b) == [b EXCEPT !.mem = SubSeq(@, 1, RecvEnd(b) - b.start), !.start = 0]
Clean(b) == [b EXCEPT !.mem = SubSeq(@, b.start + 1, RecvEnd(b)), !.start = 0]

\* grow: to the message size, or by half.
Grow(b) == [b EXCEPT !.cap = IF @ < b.size THEN b.size ELSE (@ * 3) \div 2]

\* reserve, and its assertions.
ReserveAsserts(b, n) == b.start = 0 /\ n > 0 /\ b.pos >= 0
Reserve(b, n) ==
    [b EXCEPT !.cap = IF RecvEnd(b) + n > @ THEN MaxOf(RecvEnd(b) + n, b.size) ELSE @]
=============================================================================
