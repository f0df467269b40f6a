--------------------------- MODULE EventLoopProofs ---------------------------
(***************************************************************************)
(* Proofs about the event loop: SentInOrder, for any number of sockets and *)
(* any sizes, RunsAsAsked and NeverEarly, for any timeouts, any width of   *)
(* an int and any number of timers.                                        *)
(***************************************************************************)
EXTENDS EventLoop, SequenceTheorems, FiniteSetTheorems, TLAPS

-----------------------------------------------------------------------------
(* Operators.                                                              *)

\* The smaller and the larger of two.
LEMMA MinOfTwo ==
    ASSUME NEW a \in Int, NEW b \in Int
    PROVE  Min({a, b}) = IF a <= b THEN a ELSE b
<1>1. PICK m : m = IF a <= b THEN a ELSE b
  OBVIOUS
<1>2. m \in {a, b} /\ \A y \in {a, b} : m <= y
  BY <1>1
<1>3. ASSUME NEW x \in {a, b}, \A y \in {a, b} : x <= y PROVE x = m
  BY <1>1, <1>3
<1>4. (CHOOSE x \in {a, b} : \A y \in {a, b} : x <= y) = m
  BY <1>2, <1>3
<1> QED
  BY <1>1, <1>4 DEF Min

\* What is sent of a buffer is no longer than the buffer.
LEMMA SentEffect ==
    ASSUME NEW fd, NEW size \in Nat, sock[fd].space \in Nat
    PROVE  Sent(fd, size) \in 0 .. size /\ sock[fd].space - Sent(fd, size) \in Nat
BY MinOfTwo DEF Sent

\* The first n bytes of a buffer, and what is left of it without them.
LEMMA Halves ==
    ASSUME NEW x \in Seq(Nat), NEW m \in Nat, Numbered(x, m), NEW n \in 0 .. Len(x)
    PROVE  /\ SubSeq(x, 1, n) \in Seq(Nat) /\ Len(SubSeq(x, 1, n)) = n
           /\ Numbered(SubSeq(x, 1, n), m)
           /\ Left(x, n) \in Seq(Nat) /\ Len(Left(x, n)) = Len(x) - n
           /\ Numbered(Left(x, n), m + n)
<1>1. \A k \in 1 .. Len(x) : x[k] \in Nat /\ x[k] = m + k
  BY ElementOfSeq DEF Numbered
<1>2. /\ SubSeq(x, 1, n) \in Seq(Nat)
      /\ Len(SubSeq(x, 1, n)) = IF 1 <= n THEN n - 1 + 1 ELSE 0
      /\ \A k \in 1 .. n - 1 + 1 : SubSeq(x, 1, n)[k] = x[1 + k - 1]
  <2>1. \A k \in 1 .. n : x[k] \in Nat
    BY <1>1
  <2> QED
    BY <2>1, SubSeqProperties
<1>3. /\ SubSeq(x, n + 1, Len(x)) \in Seq(Nat)
      /\ Len(SubSeq(x, n + 1, Len(x))) = IF n + 1 <= Len(x) THEN Len(x) - (n + 1) + 1 ELSE 0
      /\ \A k \in 1 .. Len(x) - (n + 1) + 1 : SubSeq(x, n + 1, Len(x))[k] = x[n + 1 + k - 1]
  <2>1. \A k \in n + 1 .. Len(x) : x[k] \in Nat
    BY <1>1
  <2> QED
    BY <2>1, SubSeqProperties
<1>4. Len(SubSeq(x, 1, n)) = n /\ Numbered(SubSeq(x, 1, n), m)
  <2>1. Len(SubSeq(x, 1, n)) = n
    BY <1>2
  <2>2. ASSUME NEW k \in 1 .. n PROVE SubSeq(x, 1, n)[k] = m + k
    BY <1>1, <1>2
  <2> QED
    BY <1>2, <2>1, <2>2 DEF Numbered
<1>5. Len(Left(x, n)) = Len(x) - n /\ Numbered(Left(x, n), m + n)
  <2>1. Len(SubSeq(x, n + 1, Len(x))) = Len(x) - n
    BY <1>3
  <2>2. ASSUME NEW k \in 1 .. Len(x) - n PROVE SubSeq(x, n + 1, Len(x))[k] = (m + n) + k
    <3>1. k \in 1 .. Len(x) - (n + 1) + 1 /\ n + 1 + k - 1 = n + k /\ n + k \in 1 .. Len(x)
          /\ m + (n + k) = (m + n) + k
      OBVIOUS
    <3> QED
      BY <1>1, <1>3, <3>1
  <2> QED
    BY <1>3, <2>1, <2>2 DEF Left, Numbered
<1> QED
  BY <1>2, <1>3, <1>4, <1>5 DEF Left

\* Numbered and InOrder, the domains of their sequences spelled out.
LEMMA NumberedBytes ==
    ASSUME NEW x \in Seq(Nat), NEW m
    PROVE  Numbered(x, m) <=> \A k \in 1 .. Len(x) : x[k] = m + k
BY DEF Numbered

\* What is in order, buffer by buffer.
LEMMA OrderParts ==
    ASSUME NEW w, NEW q \in Seq(Seq(Nat)), NEW n
    PROVE  InOrder(w, q, n) <=>
             /\ Numbered(w, 0)
             /\ \A k \in 1 .. Len(q) : q[k] # <<>> /\ Numbered(q[k], Reached(w, q, k - 1))
             /\ Reached(w, q, Len(q)) = n
<1>1. DOMAIN q = 1 .. Len(q)
  OBVIOUS
<1> QED
  BY <1>1, Zenon DEF InOrder

\* The number of the last byte.
LEMMA LastByte ==
    ASSUME NEW x \in Seq(Nat), Len(x) > 0, NEW m, Numbered(x, m)
    PROVE  Last(x) = m + Len(x)
<1>1. Len(x) \in 1 .. Len(x)
  OBVIOUS
<1> QED
  BY <1>1, NumberedBytes DEF Last

\* With nothing queued the wire has everything.
LEMMA OrderOfNone ==
    ASSUME NEW w, NEW n
    PROVE  InOrder(w, <<>>, n) <=> Numbered(w, 0) /\ Len(w) = n
<1>1. <<>> \in Seq(Seq(Nat)) /\ Len(<<>>) = 0 /\ 1 .. 0 = {}
  BY EmptySeq
<1> QED
  BY <1>1, OrderParts DEF Reached

\* All the bytes of a buffer are the buffer.
LEMMA WholeBuffer ==
    ASSUME NEW x \in Seq(Nat), NEW n, n = Len(x)
    PROVE  SubSeq(x, 1, n) = x
<1>1. n \in Nat /\ \A k \in 1 .. n : x[k] \in Nat
  BY ElementOfSeq
<1>2. PICK y : y = SubSeq(x, 1, n)
  OBVIOUS
<1>3. y \in Seq(Nat) /\ Len(y) = Len(x) /\ \A k \in 1 .. Len(y) : y[k] = x[k]
  BY <1>1, <1>2, SubSeqProperties
<1> QED
  BY <1>2, <1>3, SeqEqual

\* With nothing queued, what is sent goes on where the wire ends.
LEMMA SentAtOnce ==
    ASSUME NEW w \in Seq(Nat), NEW n \in Nat, InOrder(w, <<>>, n),
           NEW x \in Seq(Nat), Numbered(x, n), NEW s, s = w \o x
    PROVE  s \in Seq(Nat) /\ InOrder(s, <<>>, n + Len(x))
<1>1. Len(w) = n /\ Numbered(w, 0)
  BY OrderOfNone
<1>2. /\ s \in Seq(Nat) /\ Len(s) = Len(w) + Len(x)
      /\ \A k \in 1 .. Len(s) : s[k] = IF k <= Len(w) THEN w[k] ELSE x[k - Len(w)]
  <2>1. /\ w \o x \in Seq(Nat) /\ Len(w \o x) = Len(w) + Len(x)
        /\ \A k \in 1 .. Len(w) + Len(x) :
              (w \o x)[k] = IF k <= Len(w) THEN w[k] ELSE x[k - Len(w)]
    BY ConcatProperties, Zenon
  <2> QED
    BY <2>1, Zenon
<1>3. ASSUME NEW k \in 1 .. Len(s) PROVE s[k] = 0 + k
  <2>1. CASE k <= Len(w)
    <3>1. k \in 1 .. Len(w)
      BY <1>2, <2>1
    <3> QED
      BY <1>1, <1>2, <2>1, <3>1, NumberedBytes
  <2>2. CASE ~(k <= Len(w))
    <3>1. k - Len(w) \in 1 .. Len(x) /\ n + (k - Len(w)) = 0 + k
      BY <1>1, <1>2, <2>2
    <3> QED
      BY <1>2, <2>2, <3>1, NumberedBytes
  <2> QED
    BY <2>1, <2>2
<1>4. Numbered(s, 0)
  BY <1>2, <1>3, NumberedBytes
<1> QED
  BY <1>1, <1>2, <1>4, OrderOfNone

\* A buffer with the bytes that come next goes to the end of the queue.
LEMMA Queueing ==
    ASSUME NEW w \in Seq(Nat), NEW q \in Seq(Seq(Nat)), NEW n \in Nat, InOrder(w, q, n),
           NEW x \in Seq(Nat), Len(x) > 0, Numbered(x, n), NEW r, r = Append(q, x)
    PROVE  r \in Seq(Seq(Nat)) /\ InOrder(w, r, n + Len(x))
<1>1. /\ r \in Seq(Seq(Nat)) /\ Len(r) = Len(q) + 1
      /\ \A k \in 1 .. Len(q) : r[k] = q[k]
      /\ r[Len(q) + 1] = x
  BY AppendProperties
<1>2. ASSUME NEW k \in 0 .. Len(q) PROVE Reached(w, r, k) = Reached(w, q, k)
  BY <1>1 DEF Reached
<1>3. ASSUME NEW k \in 1 .. Len(r) PROVE r[k] # <<>> /\ Numbered(r[k], Reached(w, r, k - 1))
  <2>1. CASE k <= Len(q)
    <3>1. k \in 1 .. Len(q) /\ k - 1 \in 0 .. Len(q)
      BY <2>1
    <3>2. q[k] # <<>> /\ Numbered(q[k], Reached(w, q, k - 1))
      BY <3>1, OrderParts
    <3>3. r[k] = q[k] /\ Reached(w, r, k - 1) = Reached(w, q, k - 1)
      BY <1>1, <1>2, <3>1
    <3> QED
      BY <3>2, <3>3, Zenon
  <2>2. CASE k = Len(q) + 1
    <3>1. k - 1 = Len(q) /\ k - 1 \in 0 .. Len(q)
      BY <2>2
    <3>2. Reached(w, r, k - 1) = n
      BY <1>2, <3>1, OrderParts
    <3>3. r[k] = x
      BY <1>1, <2>2
    <3>4. x # <<>>
      BY EmptySeq
    <3> QED
      BY <3>2, <3>3, <3>4, Zenon
  <2>3. k <= Len(q) \/ k = Len(q) + 1
    <3>1. Len(q) \in Nat
      OBVIOUS
    <3> QED
      BY <1>1, <3>1
  <2> QED
    BY <2>1, <2>2, <2>3, Zenon
<1>4. Reached(w, r, Len(r)) = n + Len(x)
  <2>1. Last(x) = n + Len(x) /\ Len(r) # 0
    BY <1>1, LastByte
  <2> QED
    BY <1>1, <2>1 DEF Reached
<1> QED
  <2>1. Numbered(w, 0)
    BY OrderParts
  <2> QED
    BY <1>1, <1>3, <1>4, <2>1, OrderParts

\* The first buffer of the queue is sent as a whole.
LEMMA Sending ==
    ASSUME NEW w \in Seq(Nat), NEW q \in Seq(Seq(Nat)), NEW n \in Nat, InOrder(w, q, n),
           q # <<>>, NEW x, x = Head(q), NEW s, s = w \o x, NEW r, r = Tail(q)
    PROVE  s \in Seq(Nat) /\ r \in Seq(Seq(Nat)) /\ InOrder(s, r, n)
<1>1. /\ x = q[1] /\ x \in Seq(Nat) /\ Len(q) \in Nat \ {0} /\ 1 \in 1 .. Len(q)
      /\ Len(r) = Len(q) - 1 /\ r \in Seq(Seq(Nat))
      /\ \A k \in 1 .. Len(r) : r[k] = q[k + 1]
  BY EmptySeq, ElementOfSeq, HeadTailProperties
<1>2. Numbered(w, 0) /\ x # <<>> /\ Numbered(x, Len(w)) /\ Len(x) \in Nat \ {0}
  <2>1. q[1] # <<>> /\ Numbered(q[1], Reached(w, q, 1 - 1)) /\ Numbered(w, 0)
    BY <1>1, OrderParts
  <2>2. Reached(w, q, 1 - 1) = Len(w)
    BY DEF Reached
  <2> QED
    BY <1>1, <2>1, <2>2, EmptySeq
<1>3. InOrder(w, <<>>, Len(w))
  BY <1>2, OrderOfNone
<1>4. s \in Seq(Nat) /\ Numbered(s, 0) /\ Len(s) = Len(w) + Len(x)
  <2>1. Len(w) \in Nat
    OBVIOUS
  <2>2. s \in Seq(Nat) /\ InOrder(s, <<>>, Len(w) + Len(x))
    BY <1>1, <1>2, <1>3, <2>1, SentAtOnce
  <2> QED
    BY <2>2, OrderOfNone
<1>5. Reached(w, q, 1) = Len(s)
  <2>1. Last(x) = Len(w) + Len(x)
    <3>1. Len(x) > 0
      BY <1>2
    <3> QED
      BY <1>1, <1>2, <3>1, LastByte, Zenon
  <2> QED
    BY <1>1, <1>4, <2>1 DEF Reached
<1>6. ASSUME NEW k \in 0 .. Len(r) PROVE Reached(s, r, k) = Reached(w, q, k + 1)
  <2>1. CASE k = 0
    BY <1>5, <2>1 DEF Reached
  <2>2. CASE k # 0
    BY <1>1, <2>2 DEF Reached
  <2> QED
    BY <2>1, <2>2
<1>7. ASSUME NEW k \in 1 .. Len(r) PROVE r[k] # <<>> /\ Numbered(r[k], Reached(s, r, k - 1))
  <2>1. k + 1 \in 1 .. Len(q) /\ k - 1 \in 0 .. Len(r) /\ (k - 1) + 1 = (k + 1) - 1
    BY <1>1
  <2>2. q[k + 1] # <<>> /\ Numbered(q[k + 1], Reached(w, q, (k + 1) - 1))
    BY <2>1, OrderParts
  <2> QED
    BY <1>1, <1>6, <2>1, <2>2
<1>8. Reached(s, r, Len(r)) = n
  <2>1. Len(r) \in 0 .. Len(r) /\ Len(r) + 1 = Len(q)
    BY <1>1
  <2>2. Reached(s, r, Len(r)) = Reached(w, q, Len(r) + 1)
    BY <1>6, <2>1, Zenon
  <2>3. Reached(w, q, Len(q)) = n
    BY OrderParts, Zenon
  <2> QED
    BY <2>1, <2>2, <2>3
<1>9. InOrder(s, r, n)
  <2>1. r \in Seq(Seq(Nat))
    BY <1>1
  <2>2. Numbered(s, 0)
    BY <1>4
  <2>3. DOMAIN r = 1 .. Len(r)
    BY <2>1
  <2>4. \A k \in 1 .. Len(r) : r[k] # <<>> /\ Numbered(r[k], Reached(s, r, k - 1))
    BY <1>7, Zenon
  <2> QED
    BY <1>8, <2>2, <2>3, <2>4, Zenon DEF InOrder
<1> QED
  BY <1>1, <1>4, <1>9

-----------------------------------------------------------------------------
(* Sockets: the invariant is SentInOrder with the types it needs.           *)

Connection == [size : ReadSizes \cup {0}, queue : Seq(Seq(Nat))]

\* Every socket has room for a number of bytes.
SpaceKnown(s) ==
    DOMAIN s = Fds /\ \A fd \in Fds : "space" \in DOMAIN s[fd] /\ s[fd].space \in Nat

\* The number of events is one.
BatchKnown(b) == "n" \in DOMAIN b /\ b.n \in Nat

SocketsType ==
    /\ Known \subseteq Fds /\ io \in [Known -> Connection]
    /\ SpaceKnown(sock) /\ BatchKnown(batch)
    /\ written \in [Fds -> Nat] /\ wire \in [Fds -> Seq(Nat)]
    /\ spoilt \in [Fds -> SUBSET {"overtaken", "cut", "dropped"}]

SocketsInv == SocketsType /\ SentInOrder

\* The queue of a socket is a sequence of buffers.
LEMMA QueueType ==
    ASSUME SocketsType, NEW fd
    PROVE  Queue(fd) \in Seq(Seq(Nat))
<1>1. CASE fd \in Known
  BY <1>1 DEF SocketsType, Connection, Queue
<1>2. CASE fd \notin Known
  BY <1>2, EmptySeq DEF Queue
<1> QED
  BY <1>1, <1>2

\* At the start nothing was written.
LEMMA InitSockets == Init => SocketsInv
<1> SUFFICES ASSUME Init PROVE SocketsInv
  OBVIOUS
<1>1. io = <<>> /\ DOMAIN io = {} /\ <<>> \in Seq(Nat)
  BY EmptySeq DEF Init
<1>2. io \in [Known -> Connection] /\ Known \subseteq Fds
  BY <1>1 DEF Known
<1>3. SpaceKnown(sock)
  BY EventLoopAssumption DEF Init, Fresh, SpaceKnown
<1>4. SocketsType
  <2>1. BatchKnown(batch)
    BY DEF Init, NoBatch, BatchKnown
  <2> QED
    BY <1>1, <1>2, <1>3, <2>1 DEF Init, SocketsType
<1>5. InOrder(<<>>, <<>>, 0)
  <2>1. Numbered(<<>>, 0) /\ Len(<<>>) = 0
    BY DEF Numbered
  <2> QED
    BY <2>1, OrderOfNone
<1>6. SentInOrder
  BY <1>1, <1>5 DEF Init, SentInOrder, Queue, Known
<1> QED
  BY <1>4, <1>6 DEF SocketsInv

\* A step that leaves the queues alone.
LEMMA QuietKept ==
    ASSUME SocketsInv, UNCHANGED <<io, history>>, SpaceKnown(sock'), BatchKnown(batch'), ~Stopped
    PROVE  SocketsInv'
BY DEF SocketsInv, SocketsType, SentInOrder, history, Queue, Known

\* set_socket and async_read change no queue.
LEMMA WatchKept ==
    ASSUME SocketsInv, NEW fd \in Fds, NEW size \in ReadSizes, NEW events, Watch(fd, size, events)
    PROVE  SocketsInv'
<1>1. PICK m : m = SetSocket(fd)
  OBVIOUS
<1>2. m \in [Known \cup {fd} -> Connection]
  <2>1. [size |-> 0, queue |-> <<>>] \in Connection
    BY EmptySeq DEF Connection
  <2> QED
    BY <1>1, <2>1 DEF SetSocket, SocketsInv, SocketsType
<1>3. \A f \in Fds : Queue(f) = IF f \in Known \cup {fd} THEN m[f].queue ELSE <<>>
  BY <1>1 DEF SetSocket, Queue
<1>4. io' = [m EXCEPT ![fd].size = size]
  BY <1>1 DEF Watch, AsyncRead
<1>5. io' \in [Known \cup {fd} -> Connection]
  <2>1. m[fd] \in Connection
    BY <1>2
  <2>2. [m[fd] EXCEPT !.size = size] \in Connection
    BY <2>1 DEF Connection
  <2> QED
    BY <1>2, <1>4, <2>2
<1>6. ASSUME NEW f \in Known \cup {fd} PROVE io'[f].queue = m[f].queue
  <2>1. m[f] \in Connection
    BY <1>2
  <2> QED
    BY <1>2, <1>4, <2>1 DEF Connection
<1>7. Known' = Known \cup {fd}
  BY <1>5 DEF Known
<1>8. \A f \in Fds : Queue(f)' = Queue(f)
  BY <1>3, <1>6, <1>7 DEF Queue
<1>9. SpaceKnown(sock')
  BY DEF Watch, SocketsInv, SocketsType, SpaceKnown
<1>10. ~Stopped /\ UNCHANGED <<batch, written, wire, spoilt>>
  BY DEF Watch, Call, Stopped, threadVars, history
<1> QED
  BY <1>5, <1>7, <1>8, <1>9, <1>10 DEF SocketsInv, SocketsType, SentInOrder

\* async_write: what does not fit goes behind what is queued already.
LEMMA WriteKept ==
    ASSUME SocketsInv, NEW fd \in Fds, NEW size \in WriteSizes, AsyncWrite(fd, size)
    PROVE  SocketsInv'
<1>1. size \in Nat \ {0} /\ SocketsType /\ ~Stopped /\ SentInOrder
  BY EventLoopAssumption DEF AsyncWrite, Call, Stopped, SocketsInv
<1>2. PICK old \in Nat : old = written[fd]
  BY <1>1 DEF SocketsType
<1>3. PICK w \in Seq(Nat) : w = wire[fd]
  BY <1>1 DEF SocketsType
<1>4. PICK q \in Seq(Seq(Nat)) : q = Queue(fd)
  BY <1>1, QueueType
<1>5. PICK b : b = [i \in 1 .. size |-> old + i]
  OBVIOUS
<1>6. b \in Seq(Nat) /\ Len(b) = size /\ Numbered(b, old)
  BY <1>1, <1>5 DEF Numbered
<1>7. PICK n : n = Sent(fd, size)
  OBVIOUS
<1>8. n \in 0 .. size /\ sock[fd].space - n \in Nat
  BY <1>1, <1>7, SentEffect DEF SocketsType, SpaceKnown
<1>9. PICK x : x = SubSeq(b, 1, n)
  OBVIOUS
<1>10. PICK y : y = Left(b, n)
  OBVIOUS
<1>11. /\ x \in Seq(Nat) /\ Len(x) = n /\ Numbered(x, old)
       /\ y \in Seq(Nat) /\ Len(y) = size - n /\ Numbered(y, old + n)
  BY <1>6, <1>8, <1>9, <1>10, Halves
<1>12. /\ written' = [written EXCEPT ![fd] = old + size]
       /\ wire' = OnWire(fd, x)
       /\ spoilt' = IF fd \in Known /\ io[fd].queue # <<>> /\ n > 0
                    THEN [spoilt EXCEPT ![fd] = spoilt[fd] \cup {"overtaken"}] ELSE spoilt
       /\ io' = IF n < size /\ fd \in Known
                THEN [io EXCEPT ![fd].queue = Append(io[fd].queue, y)] ELSE io
       /\ pc' = IF n < size /\ fd \notin Known THEN "crash" ELSE pc
  BY <1>2, <1>5, <1>7, <1>9, <1>10 DEF AsyncWrite
<1>13. SpaceKnown(sock')
  <2>1. PICK rest : rest = [sock EXCEPT ![fd].space = sock[fd].space - n]
    OBVIOUS
  <2>2. SpaceKnown(rest)
    BY <1>1, <1>8, <2>1 DEF SocketsType, SpaceKnown
  <2>3. sock' = rest \/ sock' = EventCtl(rest, fd, SockEvents \cup {"out"})
    BY <1>7, <2>1 DEF AsyncWrite
  <2> QED
    BY <2>2, <2>3 DEF EventCtl, SpaceKnown
<1>14. Known' = Known /\ io' \in [Known -> Connection]
  <2>1. CASE n < size /\ fd \in Known
    <3>1. io[fd] \in Connection
      BY <1>1, <2>1 DEF SocketsType
    <3>2. Append(io[fd].queue, y) \in Seq(Seq(Nat))
      BY <1>11, <3>1, AppendProperties DEF Connection
    <3>3. [io[fd] EXCEPT !.queue = Append(io[fd].queue, y)] \in Connection
      BY <3>1, <3>2 DEF Connection
    <3> QED
      BY <1>1, <1>12, <2>1, <3>3 DEF SocketsType, Known
  <2>2. CASE ~(n < size /\ fd \in Known)
    BY <1>1, <1>12, <2>2 DEF SocketsType, Known
  <2> QED
    BY <2>1, <2>2
<1>15. Queue(fd)' = IF n < size /\ fd \in Known THEN Append(q, y) ELSE q
  <2>1. CASE n < size /\ fd \in Known
    <3>1. io[fd] \in Connection
      BY <1>1, <2>1 DEF SocketsType
    <3>2. io'[fd].queue = Append(io[fd].queue, y)
      BY <1>1, <1>12, <2>1, <3>1 DEF SocketsType, Connection
    <3> QED
      BY <1>4, <1>14, <2>1, <3>2 DEF Queue
  <2>2. CASE ~(n < size /\ fd \in Known)
    BY <1>4, <1>12, <1>14, <2>2 DEF Queue
  <2> QED
    BY <2>1, <2>2
<1>16. \A f \in Fds \ {fd} : Queue(f)' = Queue(f)
  BY <1>1, <1>12, <1>14 DEF Queue, SocketsType
<1>17. /\ wire' \in [Fds -> Seq(Nat)] /\ \A f \in Fds \ {fd} : wire'[f] = wire[f]
       /\ wire'[fd] = IF spoilt[fd] = {} THEN w \o x ELSE w
  <2>1. w \o x \in Seq(Nat)
    BY <1>11, ConcatProperties
  <2> QED
    BY <1>1, <1>3, <1>12, <2>1 DEF SocketsType, OnWire
<1>18. /\ written' \in [Fds -> Nat] /\ \A f \in Fds \ {fd} : written'[f] = written[f]
       /\ written'[fd] = old + size
  BY <1>1, <1>12 DEF SocketsType
<1>19. /\ spoilt' \in [Fds -> SUBSET {"overtaken", "cut", "dropped"}]
       /\ \A f \in Fds \ {fd} : spoilt'[f] = spoilt[f]
       /\ spoilt'[fd] = {} => spoilt[fd] = {} /\ (q = <<>> \/ n = 0)
  <2>1. CASE fd \in Known /\ io[fd].queue # <<>> /\ n > 0
    <3>1. spoilt' = [spoilt EXCEPT ![fd] = spoilt[fd] \cup {"overtaken"}]
      BY <1>12, <2>1
    <3> QED
      BY <1>1, <3>1 DEF SocketsType
  <2>2. CASE ~(fd \in Known /\ io[fd].queue # <<>> /\ n > 0)
    <3>1. spoilt' = spoilt
      BY <1>12, <2>2
    <3>2. q = <<>> \/ n = 0
      BY <1>4, <1>8, <2>2 DEF Queue
    <3> QED
      BY <1>1, <3>1, <3>2 DEF SocketsType
  <2> QED
    BY <2>1, <2>2
<1>20. SocketsType'
  <2>1. UNCHANGED batch
    BY DEF AsyncWrite
  <2> QED
    BY <1>1, <1>13, <1>14, <1>17, <1>18, <1>19, <2>1 DEF SocketsType
<1>21. ASSUME ~Stopped', spoilt'[fd] = {} PROVE InOrder(wire'[fd], Queue(fd)', old + size)
  <2>1. InOrder(w, q, old)
    BY <1>1, <1>2, <1>3, <1>4, <1>19, <1>21 DEF SentInOrder
  <2>2. wire'[fd] = w \o x /\ w \o x \in Seq(Nat) /\ InOrder(w \o x, q, old + n)
    <3>1. wire'[fd] = w \o x
      BY <1>17, <1>19, <1>21
    <3>2. CASE q = <<>>
      BY <1>11, <2>1, <3>1, <3>2, SentAtOnce
    <3>3. CASE n = 0
      <4>1. x = <<>> /\ w \o x = w /\ old + n = old
        BY <1>11, <3>3
      <4> QED
        BY <2>1, <3>1, <4>1
    <3> QED
      BY <1>19, <1>21, <3>2, <3>3
  <2>3. n < size => fd \in Known
    BY <1>12, <1>21 DEF Stopped
  <2>4. CASE n < size
    <3>1. Queue(fd)' = Append(q, y)
      BY <1>15, <2>3, <2>4
    <3>2. Len(y) > 0 /\ old + n \in Nat /\ (old + n) + Len(y) = old + size
      <4>1. n \in Nat /\ size \in Nat
        BY <1>1, <1>8
      <4>2. size - n > 0 /\ old + n \in Nat /\ (old + n) + (size - n) = old + size
        BY <2>4, <4>1
      <4> QED
        BY <1>11, <4>2, Zenon
    <3>3. InOrder(w \o x, Append(q, y), (old + n) + Len(y))
      BY <1>11, <2>2, <3>2, Queueing
    <3> QED
      BY <2>2, <3>1, <3>2, <3>3
  <2>5. CASE ~(n < size)
    <3>1. n = size
      BY <1>1, <1>8, <2>5
    <3> QED
      BY <1>15, <2>2, <2>5, <3>1
  <2> QED
    BY <2>4, <2>5
<1>22. SentInOrder'
  <2> SUFFICES ASSUME ~Stopped', NEW f \in Fds, spoilt'[f] = {}
               PROVE  InOrder(wire'[f], Queue(f)', written'[f])
    BY DEF SentInOrder
  <2>1. CASE f = fd
    BY <1>18, <1>21, <2>1
  <2>2. CASE f # fd
    BY <1>1, <1>16, <1>17, <1>18, <1>19, <2>2 DEF SentInOrder
  <2> QED
    BY <2>1, <2>2
<1> QED
  BY <1>20, <1>22 DEF SocketsInv

\* remove_socket: with the entry goes the queue, and with a close the history of the socket.
LEMMA RemoveKept ==
    ASSUME SocketsInv, NEW fd \in Fds, RemoveSocket(fd)
    PROVE  SocketsInv'
<1>1. SocketsType /\ SentInOrder /\ ~Stopped
  BY DEF SocketsInv, RemoveSocket, Call, Stopped
<1>2. io' \in [Known \ {fd} -> Connection] /\ Known' = Known \ {fd}
      /\ \A f \in Known \ {fd} : io'[f] = io[f]
  BY <1>1 DEF RemoveSocket, SocketsType, Known
<1>3. Queue(fd)' = <<>> /\ \A f \in Fds \ {fd} : Queue(f)' = Queue(f)
  BY <1>2 DEF Queue
<1>4. <<>> \in Seq(Nat) /\ InOrder(<<>>, <<>>, 0)
  <2>1. Numbered(<<>>, 0) /\ Len(<<>>) = 0 /\ <<>> \in Seq(Nat)
    BY EmptySeq DEF Numbered
  <2> QED
    BY <2>1, OrderOfNone
<1>5. CASE /\ sock' = [sock EXCEPT ![fd] = [Fresh EXCEPT !.open = FALSE]]
           /\ written' = [written EXCEPT ![fd] = 0] /\ wire' = [wire EXCEPT ![fd] = <<>>]
           /\ spoilt' = [spoilt EXCEPT ![fd] = {}]
  <2>1. SpaceKnown(sock')
    BY <1>1, <1>5, EventLoopAssumption DEF Fresh, SocketsType, SpaceKnown
  <2>2. SocketsType'
    <3>1. UNCHANGED batch
      BY DEF RemoveSocket, threadVars
    <3> QED
      BY <1>1, <1>2, <1>4, <1>5, <2>1, <3>1 DEF SocketsType
  <2>3. SentInOrder'
    <3> SUFFICES ASSUME NEW f \in Fds, spoilt'[f] = {}
                 PROVE  InOrder(wire'[f], Queue(f)', written'[f])
      BY DEF SentInOrder
    <3>1. CASE f = fd
      BY <1>1, <1>3, <1>4, <1>5, <3>1 DEF SocketsType
    <3>2. CASE f # fd
      BY <1>1, <1>3, <1>5, <3>2 DEF SocketsType, SentInOrder
    <3> QED
      BY <3>1, <3>2
  <2> QED
    BY <2>2, <2>3 DEF SocketsInv
<1>6. CASE /\ fd \in Known /\ UNCHANGED <<sock, written, wire>>
           /\ spoilt' = IF io[fd].queue = <<>> THEN spoilt
                        ELSE [spoilt EXCEPT ![fd] = spoilt[fd] \cup {"dropped"}]
  <2>1. /\ spoilt' \in [Fds -> SUBSET {"overtaken", "cut", "dropped"}]
        /\ \A f \in Fds \ {fd} : spoilt'[f] = spoilt[f]
        /\ spoilt'[fd] = {} => spoilt[fd] = {} /\ Queue(fd) = <<>>
    <3>1. CASE io[fd].queue = <<>>
      BY <1>1, <1>6, <3>1 DEF SocketsType, Queue
    <3>2. CASE io[fd].queue # <<>>
      <4>1. spoilt' = [spoilt EXCEPT ![fd] = spoilt[fd] \cup {"dropped"}]
        BY <1>6, <3>2
      <4>2. spoilt'[fd] # {}
        BY <1>1, <4>1 DEF SocketsType
      <4> QED
        BY <1>1, <4>1, <4>2 DEF SocketsType
    <3> QED
      BY <3>1, <3>2
  <2>2. SocketsType'
    <3>1. UNCHANGED batch
      BY DEF RemoveSocket, threadVars
    <3> QED
      BY <1>1, <1>2, <1>6, <2>1, <3>1 DEF SocketsType
  <2>3. SentInOrder'
    <3> SUFFICES ASSUME NEW f \in Fds, spoilt'[f] = {}
                 PROVE  InOrder(wire'[f], Queue(f)', written'[f])
      BY DEF SentInOrder
    <3>1. spoilt[f] = {} /\ Queue(f)' = Queue(f)
      BY <1>3, <2>1
    <3> QED
      BY <1>1, <1>6, <3>1 DEF SentInOrder
  <2> QED
    BY <2>2, <2>3 DEF SocketsInv
<1> QED
  BY <1>5, <1>6 DEF RemoveSocket

\* A turn of the loop over the write queue: a buffer that is sent as a whole
\* leaves it; one that is cut short spoils the order.
LEMMA WritableKept ==
    ASSUME SocketsInv, OnWritable
    PROVE  SocketsInv'
<1>1. SocketsType /\ SentInOrder /\ ~Stopped /\ UNCHANGED written
  BY DEF SocketsInv, OnWritable, Stopped
<1>2. BatchKnown(batch')
  <2>1. \/ UNCHANGED batch \/ batch' = NoBatch
        \/ batch' = [batch EXCEPT !.events = Tail(batch.events)]
    BY DEF OnWritable, AfterEvent
  <2>2. BatchKnown(batch)
    BY <1>1 DEF SocketsType
  <2>3. CASE batch' = NoBatch
    BY <2>3 DEF NoBatch, BatchKnown
  <2>4. CASE batch' = [batch EXCEPT !.events = Tail(batch.events)]
    BY <2>2, <2>4 DEF BatchKnown
  <2> QED
    BY <2>1, <2>2, <2>3, <2>4 DEF BatchKnown
<1>3. CASE /\ UNCHANGED <<io, wire, spoilt>>
           /\ UNCHANGED sock \/ sock' = EventCtl(sock, Event.fd, SockEvents \ {"out"})
  <2>1. SpaceKnown(sock')
    <3>1. SpaceKnown(sock)
      BY <1>1 DEF SocketsType
    <3>2. PICK fd, events : sock' = sock \/ sock' = EventCtl(sock, fd, events)
      BY <1>3
    <3>3. CASE sock' = [sock EXCEPT ![fd].interest = events, ![fd].armed = TRUE]
      BY <3>1, <3>3 DEF SpaceKnown
    <3> QED
      BY <3>1, <3>2, <3>3 DEF EventCtl, SpaceKnown
  <2> QED
    BY <1>1, <1>2, <1>3, <2>1, QuietKept DEF history
<1>4. ASSUME NEW fd, fd = Event.fd, fd \in Known, io[fd].queue # <<>>,
             NEW x, x = Head(io[fd].queue), NEW n, n = Sent(fd, Len(x)),
             sock' = [sock EXCEPT ![fd].space = sock[fd].space - n],
             wire' = OnWire(fd, SubSeq(x, 1, n)),
             NEW r, io' = [io EXCEPT ![fd].queue = r],
             \/ n = Len(x) /\ UNCHANGED spoilt /\ r = Tail(io[fd].queue)
             \/ /\ spoilt' = [spoilt EXCEPT ![fd] = spoilt[fd] \cup {"cut"}]
                /\ r = io[fd].queue \/ r = Append(io[fd].queue, Left(x, batch.n))
      PROVE  SocketsInv'
  <2>1. fd \in Fds /\ io[fd] \in Connection /\ io \in [Known -> Connection] /\ Known \subseteq Fds
    BY <1>1, <1>4 DEF SocketsType
  <2>2. PICK q \in Seq(Seq(Nat)) : q = io[fd].queue
    BY <2>1 DEF Connection
  <2>3. PICK w \in Seq(Nat) : w = wire[fd]
    BY <1>1, <2>1 DEF SocketsType
  <2>4. x \in Seq(Nat) /\ Tail(q) \in Seq(Seq(Nat)) /\ Len(x) \in Nat
    BY <1>4, <2>2, HeadTailProperties
  <2>5. n \in 0 .. Len(x) /\ sock[fd].space - n \in Nat
    BY <1>1, <1>4, <2>1, <2>4, SentEffect DEF SocketsType, SpaceKnown
  <2>6. SpaceKnown(sock')
    BY <1>1, <1>4, <2>5 DEF SocketsType, SpaceKnown
  <2>7. SubSeq(x, 1, n) \in Seq(Nat) /\ Left(x, batch.n) \in Seq(Nat)
    <3>1. \A k \in 1 .. n : x[k] \in Nat
      BY <2>4, <2>5, ElementOfSeq
    <3>2. PICK m \in Nat : m = batch.n
      BY <1>1 DEF SocketsType, BatchKnown
    <3>3. \A k \in m + 1 .. Len(x) : x[k] \in Nat
      BY <2>4, ElementOfSeq
    <3>4. SubSeq(x, m + 1, Len(x)) \in Seq(Nat)
      BY <2>4, <3>3, SubSeqProperties
    <3> QED
      BY <2>4, <2>5, <3>1, <3>2, <3>4, SubSeqProperties DEF Left
  <2>8. r \in Seq(Seq(Nat))
    <3>1. PICK y \in Seq(Nat) : y = Left(x, batch.n)
      BY <2>7
    <3>2. Append(q, y) \in Seq(Seq(Nat))
      BY AppendProperties
    <3>3. r = Tail(q) \/ r = q \/ r = Append(q, y)
      BY <1>4, <2>2, <3>1
    <3> QED
      BY <2>4, <3>2, <3>3
  <2>9. Known' = Known /\ io' \in [Known -> Connection] /\ io'[fd].queue = r
        /\ \A f \in Known \ {fd} : io'[f] = io[f]
    <3>1. [io[fd] EXCEPT !.queue = r] \in Connection /\ [io[fd] EXCEPT !.queue = r].queue = r
      BY <2>1, <2>8 DEF Connection
    <3> QED
      BY <1>4, <2>1, <3>1 DEF Known
  <2>10. Queue(fd)' = r /\ \A f \in Fds \ {fd} : Queue(f)' = Queue(f)
    BY <1>4, <2>9 DEF Queue
  <2>11. /\ wire' \in [Fds -> Seq(Nat)] /\ \A f \in Fds \ {fd} : wire'[f] = wire[f]
         /\ wire'[fd] = IF spoilt[fd] = {} THEN w \o SubSeq(x, 1, n) ELSE w
    <3>1. w \o SubSeq(x, 1, n) \in Seq(Nat)
      BY <2>7, ConcatProperties
    <3> QED
      BY <1>1, <1>4, <2>1, <2>3, <3>1 DEF SocketsType, OnWire
  <2>12. /\ spoilt' \in [Fds -> SUBSET {"overtaken", "cut", "dropped"}]
         /\ \A f \in Fds \ {fd} : spoilt'[f] = spoilt[f]
         /\ spoilt'[fd] = {} => spoilt[fd] = {} /\ n = Len(x) /\ r = Tail(q)
    <3>1. spoilt \in [Fds -> SUBSET {"overtaken", "cut", "dropped"}]
      BY <1>1 DEF SocketsType
    <3>2. CASE n = Len(x) /\ UNCHANGED spoilt /\ r = Tail(io[fd].queue)
      BY <2>1, <2>2, <3>1, <3>2
    <3>3. CASE spoilt' = [spoilt EXCEPT ![fd] = spoilt[fd] \cup {"cut"}]
      BY <2>1, <3>1, <3>3
    <3> QED
      BY <1>4, <3>2, <3>3
  <2>13. SocketsType'
    BY <1>1, <1>2, <2>1, <2>6, <2>9, <2>11, <2>12 DEF SocketsType
  <2>14. ASSUME spoilt'[fd] = {} PROVE InOrder(wire'[fd], r, written[fd])
    <3>1. InOrder(w, q, written[fd])
      BY <1>1, <1>4, <2>1, <2>2, <2>3, <2>12, <2>14 DEF SentInOrder, Queue
    <3>2. SubSeq(x, 1, n) = x
      BY <2>4, <2>12, <2>14, WholeBuffer
    <3>3. wire'[fd] = w \o x
      BY <2>11, <2>12, <2>14, <3>2
    <3>4. written[fd] \in Nat /\ q # <<>> /\ x = Head(q)
      BY <1>1, <1>4, <2>1, <2>2 DEF SocketsType
    <3> QED
      BY <2>12, <2>14, <3>1, <3>3, <3>4, Sending
  <2>15. SentInOrder'
    <3> SUFFICES ASSUME NEW f \in Fds, spoilt'[f] = {}
                 PROVE  InOrder(wire'[f], Queue(f)', written'[f])
      BY DEF SentInOrder
    <3>1. CASE f = fd
      BY <1>1, <2>10, <2>14, <3>1
    <3>2. CASE f # fd
      BY <1>1, <2>10, <2>11, <2>12, <3>2 DEF SentInOrder
    <3> QED
      BY <3>1, <3>2
  <2> QED
    BY <2>13, <2>15 DEF SocketsInv
<1>5. CASE /\ "out" \in Event.on /\ Event.fd \in Known /\ io[Event.fd].queue # <<>>
           /\ OnWritable
  <2>1. PICK fd : fd = Event.fd
    OBVIOUS
  <2>2. PICK x : x = Head(io[fd].queue)
    OBVIOUS
  <2>3. PICK n : n = Sent(fd, Len(x))
    OBVIOUS
  <2>4. io \in [Known -> Connection] /\ fd \in Known
    BY <1>1, <1>5, <2>1 DEF SocketsType
  <2>5. io = [io EXCEPT ![fd].queue = io[fd].queue]
    BY <2>4 DEF Connection
  <2>6. /\ sock' = [sock EXCEPT ![fd].space = sock[fd].space - n]
        /\ wire' = OnWire(fd, SubSeq(x, 1, n))
        /\ \/ /\ n = Len(x) /\ UNCHANGED spoilt
              /\ io' = [io EXCEPT ![fd].queue = Tail(io[fd].queue)]
           \/ /\ spoilt' = [spoilt EXCEPT ![fd] = spoilt[fd] \cup {"cut"}]
              /\ \/ io' = io
                 \/ io' = [io EXCEPT ![fd].queue = Append(io[fd].queue, Left(x, batch.n))]
    BY <1>5, <2>1, <2>2, <2>3 DEF OnWritable
  <2>7. PICK r : /\ io' = [io EXCEPT ![fd].queue = r]
                 /\ \/ n = Len(x) /\ UNCHANGED spoilt /\ r = Tail(io[fd].queue)
                    \/ /\ spoilt' = [spoilt EXCEPT ![fd] = spoilt[fd] \cup {"cut"}]
                       /\ r = io[fd].queue \/ r = Append(io[fd].queue, Left(x, batch.n))
    BY <2>5, <2>6
  <2> QED
    BY <1>4, <1>5, <2>1, <2>2, <2>3, <2>6, <2>7
<1> QED
  BY <1>3, <1>5 DEF OnWritable

\* What epoll_wait returns is finite.
LEMMA PollKept ==
    ASSUME SocketsInv, Poll
    PROVE  SocketsInv'
<1>1. PICK ready : /\ ready \subseteq Fds
                   /\ \E order \in SetToSeqs(ready) : batch'.n = Len(order) /\ "n" \in DOMAIN batch'
  BY DEF Poll
<1>2. BatchKnown(batch')
  <2>1. Cardinality(ready) \in Nat
    BY <1>1, EventLoopAssumption, FS_Subset, FS_CardinalityType
  <2>2. \A order \in SetToSeqs(ready) : Len(order) \in Nat
    BY <2>1 DEF SetToSeqs
  <2> QED
    BY <1>1, <2>2 DEF BatchKnown
<1>3. SpaceKnown(sock')
  BY DEF Poll, SocketsInv, SocketsType, SpaceKnown
<1>4. UNCHANGED <<io, history>> /\ ~Stopped
  BY DEF Poll, loopVars, Stopped
<1> QED
  BY <1>2, <1>3, <1>4, QuietKept

\* The steps that only look at the sockets, or not even that.
LEMMA LookKept ==
    ASSUME SocketsInv,
           \/ OnReadable \/ Return \/ Loop \/ UpdateTime \/ RunTimers \/ PopTimer \/ Die
           \/ Tick \/ SetBack
           \/ \E fd \in Fds : Arrive(fd) \/ Drain(fd) \/ ConnectTo(fd)
           \/ \E timeout \in Timeouts, repeat \in Repeats : SetTimer(timeout, repeat)
    PROVE  SocketsInv'
<1>1. SpaceKnown(sock) /\ BatchKnown(batch)
  BY DEF SocketsInv, SocketsType
<1> USE QuietKept
<1>2. CASE OnReadable
  <2>1. SpaceKnown(sock')
    BY <1>1, <1>2 DEF OnReadable, SpaceKnown
  <2> QED
    BY <1>1, <1>2, <2>1 DEF OnReadable, loopVars, Stopped
<1>3. CASE Return
  BY <1>1, <1>3 DEF Return, loopVars, Stopped
<1>4. CASE Loop
  BY <1>1, <1>4 DEF Loop, loopVars, Stopped
<1>5. CASE UpdateTime
  BY <1>1, <1>5 DEF UpdateTime, Stopped
<1>6. CASE RunTimers
  BY <1>1, <1>6 DEF RunTimers, loopVars, Stopped
<1>7. CASE PopTimer
  BY <1>1, <1>7 DEF PopTimer, Stopped
<1>8. CASE Die
  BY <1>1, <1>8 DEF Die, loopVars, Stopped
<1>9. CASE Tick
  BY <1>1, <1>9 DEF Tick, Stopped
<1>10. CASE SetBack
  BY <1>1, <1>10 DEF SetBack, loopVars, threadVars, Stopped
<1>11. ASSUME NEW fd \in Fds, Arrive(fd) PROVE SocketsInv'
  <2>1. SpaceKnown(sock')
    BY <1>1, <1>11 DEF Arrive, SpaceKnown
  <2> QED
    BY <1>1, <1>11, <2>1 DEF Arrive, loopVars, threadVars, Stopped
<1>12. ASSUME NEW fd \in Fds, Drain(fd) PROVE SocketsInv'
  <2>1. SpaceKnown(sock')
    BY <1>1, <1>12, EventLoopAssumption DEF Drain, SpaceKnown
  <2> QED
    BY <1>1, <1>12, <2>1 DEF Drain, loopVars, threadVars, Stopped
<1>13. ASSUME NEW fd \in Fds, ConnectTo(fd) PROVE SocketsInv'
  <2>1. SpaceKnown(sock')
    BY <1>1, <1>13, EventLoopAssumption DEF ConnectTo, Fresh, SpaceKnown
  <2> QED
    BY <1>1, <1>13, <2>1 DEF ConnectTo, Call, loopVars, threadVars, Stopped
<1>14. ASSUME NEW timeout, NEW repeat, SetTimer(timeout, repeat) PROVE SocketsInv'
  BY <1>1, <1>14 DEF SetTimer, threadVars, Stopped
<1> QED
  BY <1>2, <1>3, <1>4, <1>5, <1>6, <1>7, <1>8, <1>9, <1>10, <1>11, <1>12, <1>13, <1>14

\* Every step of the loop keeps the invariant.
LEMMA NextSockets == SocketsInv /\ [Next]_vars => SocketsInv'
<1> SUFFICES ASSUME SocketsInv, [Next]_vars PROVE SocketsInv'
  OBVIOUS
<1>1. CASE UserCall
  BY <1>1, WatchKept, WriteKept, RemoveKept, LookKept DEF UserCall
<1>2. CASE Thread
  BY <1>2, PollKept, WritableKept, LookKept DEF Thread
<1>3. CASE Die
  BY <1>3, LookKept
<1>4. CASE World
  BY <1>4, LookKept DEF World
<1>5. CASE UNCHANGED vars
  BY <1>5 DEF vars, loopVars, threadVars, history, SocketsInv, SocketsType, SentInOrder, Queue, Known, Stopped
<1> QED
  BY <1>1, <1>2, <1>3, <1>4, <1>5 DEF Next

\* For any sockets, sizes and room in the send buffers: what was sent on a socket
\* followed by what is queued for it is what async_write was given, unless an
\* async_write overtook the queue, a send out of it was cut short, or remove_socket
\* dropped it.
THEOREM OrderKept == Spec => []SentInOrder
<1>1. SocketsInv => SentInOrder
  BY DEF SocketsInv
<1> QED
  BY <1>1, InitSockets, NextSockets, PTL DEF Spec

-----------------------------------------------------------------------------
(* Timers: the milliseconds of the clock, cut to an int.                   *)

Timer == [id : Nat, timeout : 0 .. MaxInt, expiry : Ints, age : Nat, cut : BOOLEAN, repeat : Nat]

\* The uint64_t that m_time compares as; only the order of the values matters.
Unsigned(i) == IF i < 0 THEN i + 2 * (MaxInt + 1) ELSE i

\* What is cut to an int is one, and what is one is not cut.
LEMMA WrapEffect ==
    ASSUME NEW i \in Int
    PROVE  /\ Wrap(i) \in Ints
           /\ i \in Ints => Wrap(i) = i
           /\ i > MaxInt /\ i <= 2 * MaxInt + 1 => Wrap(i) = i - 2 * (MaxInt + 1)
<1>1. PICK h \in Nat \ {0} : h = MaxInt + 1
  BY IntAssumption
<1>2. PICK k \in Int : k = i + MaxInt + 1
  BY IntAssumption
<1>3. Wrap(i) = (k % (2 * h)) - h /\ i = k - h /\ MaxInt = h - 1 /\ 2 * h \in Nat \ {0}
  BY <1>1, <1>2, IntAssumption DEF Wrap
<1>4. k % (2 * h) \in 0 .. 2 * h - 1
  BY <1>3
<1>5. ASSUME k \in 0 .. 2 * h - 1 PROVE k % (2 * h) = k
  BY <1>3, <1>5
<1>6. ASSUME 2 * h <= k, k < 2 * (2 * h) PROVE k % (2 * h) = k - 2 * h
  BY <1>3, <1>6
<1> QED
  BY <1>1, <1>3, <1>4, <1>5, <1>6 DEF Ints

\* The order of the uint64_t.
LEMMA LaterUnsigned ==
    ASSUME NEW a \in Ints, NEW b \in Ints
    PROVE  Later(a, b) <=> Unsigned(a) > Unsigned(b)
BY IntAssumption DEF Later, Unsigned, Ints

\* t is due only when its time is up: until then its expiry, as a uint64_t, is
\* ahead of the clock by what is missing.
OnTime(t, now) ==
    \/ t.cut \/ t.age = t.timeout
    \/ t.age < t.timeout /\ Unsigned(t.expiry) = Unsigned(now) + (t.timeout - t.age)

\* The expiry of a timer that is started now.
LEMMA ExpiryEffect ==
    ASSUME NEW now \in Ints, NEW timeout \in 0 .. MaxInt, NEW e, e = Expiry(now, timeout)
    PROVE  /\ e \in Ints
           /\ \/ Wrap(now + timeout) \in 0 .. timeout - 1
              \/ Unsigned(e) = Unsigned(now) + timeout
           /\ now + timeout <= MaxInt =>
                (e >= 0 => now >= 0) /\ (e >= now \/ (e = -1 /\ now < 0))
<1>1. now \in Int /\ timeout \in Nat /\ MaxInt \in Nat /\ now >= -(MaxInt + 1) /\ now <= MaxInt
      /\ timeout <= MaxInt
  BY IntAssumption DEF Ints
<1>2. PICK sum \in Ints : sum = Wrap(now + timeout)
  <2>1. now + timeout \in Int
    BY <1>1
  <2> QED
    BY <2>1, WrapEffect
<1>3. e = IF sum >= 0 /\ sum < timeout THEN -1 ELSE sum
  BY <1>2 DEF Expiry
<1>4. CASE now + timeout <= MaxInt
  <2>1. sum = now + timeout
    BY <1>1, <1>2, <1>4, WrapEffect DEF Ints
  <2> QED
    BY <1>1, <1>2, <1>3, <2>1 DEF Ints, Unsigned
<1>5. CASE now + timeout > MaxInt
  <2>1. sum = now + timeout - 2 * (MaxInt + 1)
    BY <1>1, <1>2, <1>5, WrapEffect
  <2> QED
    BY <1>1, <1>2, <1>3, <1>5, <2>1 DEF Ints, Unsigned
<1> QED
  BY <1>1, <1>4, <1>5

\* A timer that is started now.
LEMMA StartedEffect ==
    ASSUME NEW now \in Ints, NEW t \in Timer, NEW s, s = Started(t, now)
    PROVE  /\ s \in Timer /\ s.id = t.id /\ s.timeout = t.timeout /\ s.repeat = t.repeat
           /\ OnTime(s, now)
           /\ now + t.timeout <= MaxInt =>
                (s.expiry >= 0 => now >= 0) /\ (s.expiry >= now \/ (s.expiry = -1 /\ now < 0))
<1>1. t.timeout \in 0 .. MaxInt
  BY DEF Timer
<1>2. PICK e \in Ints : e = Expiry(now, t.timeout)
  BY <1>1, ExpiryEffect
<1>3. PICK c : c \in BOOLEAN /\ c = (Wrap(now + t.timeout) \in 0 .. t.timeout - 1)
  <2>1. PICK d : d = (Wrap(now + t.timeout) \in 0 .. t.timeout - 1)
    OBVIOUS
  <2>2. d \in BOOLEAN
    BY <2>1
  <2> QED
    BY <2>1, <2>2, Zenon
<1>4. s = [id |-> t.id, timeout |-> t.timeout, expiry |-> e, age |-> 0, cut |-> c, repeat |-> t.repeat]
  <2>1. s = [t EXCEPT !.expiry = e, !.age = 0, !.cut = c]
    BY <1>2, <1>3 DEF Started
  <2> QED
    BY <2>1 DEF Timer
<1>5. s \in Timer
  <2>1. c \in BOOLEAN
    BY <1>3
  <2> QED
    BY <1>4, <2>1 DEF Timer
<1>6. c \/ Unsigned(e) = Unsigned(now) + t.timeout
  BY <1>1, <1>2, <1>3, ExpiryEffect
<1>7. OnTime(s, now)
  BY <1>1, <1>4, <1>6 DEF OnTime
<1> QED
  BY <1>1, <1>2, <1>4, <1>5, <1>7, ExpiryEffect

\* A timer that grows older, and the clock with it.
LEMMA OlderEffect ==
    ASSUME NEW t \in Timer, NEW o, o = Older(t)
    PROVE  /\ o \in Timer /\ o.id = t.id /\ o.timeout = t.timeout /\ o.repeat = t.repeat
           /\ o.expiry = t.expiry /\ o.cut = t.cut
           /\ o.age = IF t.age + 1 <= t.timeout THEN t.age + 1 ELSE t.timeout
<1>1. t.age \in Nat /\ t.timeout \in Nat
  BY DEF Timer
<1>2. PICK a \in Nat : a = (IF t.age + 1 <= t.timeout THEN t.age + 1 ELSE t.timeout) /\ o = [t EXCEPT !.age = a]
  <2>1. t.age + 1 \in Int /\ t.timeout \in Int /\ t.age + 1 \in Nat
    BY <1>1
  <2>2. Min({t.age + 1, t.timeout}) = IF t.age + 1 <= t.timeout THEN t.age + 1 ELSE t.timeout
    BY <2>1, MinOfTwo
  <2> QED
    BY <1>1, <2>1, <2>2 DEF Older
<1>3. o = [id |-> t.id, timeout |-> t.timeout, expiry |-> t.expiry, age |-> a, cut |-> t.cut,
           repeat |-> t.repeat]
  BY <1>2 DEF Timer
<1> QED
  BY <1>2, <1>3 DEF Timer

\* A tick leaves it on time.
LEMMA TickOnTime ==
    ASSUME NEW now \in Ints, NEW t \in Timer, OnTime(t, now), NEW o, o = Older(t)
    PROVE  OnTime(o, Wrap(now + 1))
<1>1. /\ o.timeout = t.timeout /\ o.expiry = t.expiry /\ o.cut = t.cut
      /\ o.age = IF t.age + 1 <= t.timeout THEN t.age + 1 ELSE t.timeout
  BY OlderEffect
<1>2. t.age \in Nat /\ t.timeout \in Nat /\ t.expiry \in Ints /\ now \in Int /\ MaxInt \in Nat
  BY IntAssumption DEF Timer, Ints
<1>3. CASE t.cut
  BY <1>1, <1>3 DEF OnTime
<1>4. CASE t.age = t.timeout
  BY <1>1, <1>2, <1>4 DEF OnTime
<1>5. CASE /\ t.age < t.timeout
           /\ Unsigned(t.expiry) = Unsigned(now) + (t.timeout - t.age)
  <2>1. o.age = t.age + 1
    BY <1>1, <1>2, <1>5
  <2>2. Unsigned(t.expiry) \in 0 .. 2 * MaxInt + 1 /\ Unsigned(now) \in 0 .. 2 * MaxInt + 1
    BY <1>2 DEF Unsigned, Ints
  <2>3. Unsigned(now) + 1 <= 2 * MaxInt + 1
    BY <1>2, <1>5, <2>2
  <2>4. Unsigned(Wrap(now + 1)) = Unsigned(now) + 1
    <3>1. CASE now + 1 \in Ints
      <4>1. Wrap(now + 1) = now + 1
        BY <1>2, <3>1, WrapEffect
      <4> QED
        BY <1>2, <2>3, <4>1 DEF Unsigned, Ints
    <3>2. CASE now + 1 \notin Ints
      <4>1. now = MaxInt
        BY <1>2, <3>2 DEF Ints
      <4>2. Wrap(now + 1) = now + 1 - 2 * (MaxInt + 1)
        BY <1>2, <4>1, WrapEffect
      <4> QED
        BY <1>2, <4>1, <4>2 DEF Unsigned
    <3> QED
      BY <3>1, <3>2
  <2>5. CASE t.age + 1 = t.timeout
    BY <1>1, <2>1, <2>5 DEF OnTime
  <2>6. CASE t.age + 1 # t.timeout
    <3>1. t.age + 1 < t.timeout
          /\ Unsigned(now) + (t.timeout - t.age) = (Unsigned(now) + 1) + (t.timeout - (t.age + 1))
      BY <1>2, <1>5, <2>2, <2>6
    <3> QED
      BY <1>1, <1>5, <2>1, <2>4, <3>1 DEF OnTime
  <2> QED
    BY <2>5, <2>6
<1> QED
  BY <1>3, <1>4, <1>5 DEF OnTime

-----------------------------------------------------------------------------
(* The inductive invariant of the timers.  As long as the clock neither    *)
(* passes the sign of the int nor is set back, the running timer is the    *)
(* first of the heap, so it is the one popped; as long as it is not set    *)
(* back, no expiry lies closer to the clock than what is missing.          *)

TimersType ==
    /\ timers \subseteq Timer /\ running \in Timer
    /\ clock \in Ints /\ time \in Ints
    /\ asked \in Seq(Nat) /\ ran \in Seq(Nat) /\ Len(ran) = Len(asked)
    /\ \A t \in timers : t.id \in 1 .. Len(asked)

\* The callback of a timer runs, or has just returned.
InCallback == pc = "pop" \/ (pc = "user" /\ ret = "pop")

Control ==
    /\ pc = "user" => ret \in {"loop", "out", "pop"}
    /\ running \in timers \cup {None}
    /\ InCallback => running \in timers
    /\ ~InCallback /\ ~Stopped => running = None
    /\ pc = "timers" => time = clock

Apart == \A t \in timers, u \in timers : t.id = u.id => t = u
RunsFirst ==
    running # None =>
        running.expiry <= clock /\ \A t \in timers : running.expiry <= t.expiry
PastTheSign == \A t \in timers : t.expiry >= 0 => clock >= 0
Fits(i) ==
    /\ \A t \in timers :
          t.id = i => asked[i] = ran[i] + t.repeat + (IF running.id = i THEN 0 ELSE 1)
    /\ (\A t \in timers : t.id # i) => running.id # i /\ asked[i] = ran[i]
HeapInv == Apart /\ RunsFirst /\ PastTheSign /\ \A i \in 1 .. Len(ran) : Fits(i)

AgeInv ==
    /\ \A t \in timers : OnTime(t, clock)
    /\ running # None => running.cut \/ running.age = running.timeout

TimersInv ==
    /\ TimersType /\ Control
    /\ seams \subseteq {"wrap"} => HeapInv
    /\ "set back" \notin seams => AgeInv

\* No timer is one, and does not grow older.
LEMMA NoneType == None \in Timer /\ None.id = 0 /\ None.age = None.timeout /\ Older(None) = None
<1>1. None = [id |-> 0, timeout |-> 0, expiry |-> 0, age |-> 0, cut |-> FALSE, repeat |-> 0]
  BY DEF None, NewTimer
<1>2. None \in Timer
  BY <1>1, IntAssumption DEF Timer, Ints
<1>3. Older(None) = None
  <2>1. Min({0 + 1, 0}) = 0
    BY MinOfTwo
  <2> QED
    BY <1>1, <2>1 DEF Older
<1> QED
  BY <1>1, <1>2, <1>3

\* Before the first timer is set.
LEMMA InitTimers == Init => TimersInv
<1> SUFFICES ASSUME Init PROVE TimersInv
  OBVIOUS
<1>1. asked \in Seq(Nat) /\ ran \in Seq(Nat) /\ Len(asked) = 0 /\ Len(ran) = 0 /\ 1 .. 0 = {}
  BY EmptySeq DEF Init
<1>2. TimersType
  BY <1>1, NoneType, IntAssumption DEF Init, TimersType, Ints
<1>3. Control
  BY DEF Init, Control, InCallback, Stopped
<1>4. HeapInv
  BY <1>1 DEF Init, HeapInv, Apart, RunsFirst, PastTheSign
<1>5. AgeInv
  BY DEF Init, AgeInv
<1> QED
  BY <1>2, <1>3, <1>4, <1>5 DEF TimersInv

\* A step that touches neither timers nor clock.
LEMMA TimersStay ==
    ASSUME TimersInv, UNCHANGED <<timers, running, clock, seams, asked, ran>>,
           time' \in Ints, Control'
    PROVE  TimersInv'
BY DEF TimersInv, TimersType, HeapInv, Apart, RunsFirst, PastTheSign, Fits, AgeInv

\* The steps of the loop between the timers, the sockets' and the world's.
LEMMA LoopStays ==
    ASSUME TimersInv,
           \/ Return \/ Loop \/ Poll \/ OnReadable \/ OnWritable \/ UpdateTime \/ Die
           \/ \E fd \in Fds : \/ \E size \in ReadSizes, events \in Interests : Watch(fd, size, events)
                              \/ \E size \in WriteSizes : AsyncWrite(fd, size)
                              \/ RemoveSocket(fd) \/ ConnectTo(fd) \/ Arrive(fd) \/ Drain(fd)
    PROVE  TimersInv'
<1>1. Control /\ time \in Ints /\ clock \in Ints
  BY DEF TimersInv, TimersType
<1>2. UNCHANGED <<timers, running, clock, seams, asked, ran>>
  <2> USE DEF loopVars, threadVars, timing
  <2>1. CASE Return \/ Loop \/ Poll \/ UpdateTime \/ Die
    BY <2>1 DEF Return, Loop, Poll, UpdateTime, Die
  <2>2. CASE OnReadable \/ OnWritable
    BY <2>2 DEF OnReadable, OnWritable
  <2>3. ASSUME NEW fd, NEW size, NEW events, Watch(fd, size, events)
        PROVE  UNCHANGED <<timers, running, clock, seams, asked, ran>>
    BY <2>3 DEF Watch
  <2>4. ASSUME NEW fd, NEW size, AsyncWrite(fd, size)
        PROVE  UNCHANGED <<timers, running, clock, seams, asked, ran>>
    BY <2>4 DEF AsyncWrite
  <2>5. ASSUME NEW fd, RemoveSocket(fd) \/ ConnectTo(fd) \/ Arrive(fd) \/ Drain(fd)
        PROVE  UNCHANGED <<timers, running, clock, seams, asked, ran>>
    BY <2>5 DEF RemoveSocket, ConnectTo, Arrive, Drain
  <2> QED
    BY <2>1, <2>2, <2>3, <2>4, <2>5
<1>3. time' \in Ints
  <2>1. CASE Return \/ Loop \/ Poll \/ UpdateTime \/ Die
    BY <1>1, <2>1 DEF Return, Loop, Poll, UpdateTime, Die, loopVars
  <2>2. CASE OnReadable \/ OnWritable
    BY <1>1, <2>2 DEF OnReadable, OnWritable, loopVars
  <2>3. ASSUME NEW fd, NEW size, NEW events, Watch(fd, size, events) PROVE time' = time
    BY <2>3 DEF Watch
  <2>4. ASSUME NEW fd, NEW size, AsyncWrite(fd, size) PROVE time' = time
    BY <2>4 DEF AsyncWrite
  <2>5. ASSUME NEW fd, RemoveSocket(fd) \/ ConnectTo(fd) \/ Arrive(fd) \/ Drain(fd)
        PROVE  time' = time
    BY <2>5 DEF RemoveSocket, ConnectTo, Arrive, Drain, loopVars
  <2> QED
    BY <1>1, <2>1, <2>2, <2>3, <2>4, <2>5
<1>4. Control'
  <2> USE <1>1 DEF Control, InCallback, Stopped
  <2>1. CASE Return
    BY <2>1 DEF Return, loopVars
  <2>2. CASE Loop
    BY <2>2 DEF Loop, loopVars
  <2>3. CASE Poll
    BY <2>3 DEF Poll, loopVars
  <2>4. CASE OnReadable
    BY <2>4 DEF OnReadable, loopVars
  <2>5. CASE OnWritable
    BY <2>5 DEF OnWritable, AfterEvent
  <2>6. CASE UpdateTime
    BY <2>6 DEF UpdateTime
  <2>7. CASE Die
    BY <2>7 DEF Die, loopVars
  <2>8. ASSUME NEW fd, NEW size, NEW events, Watch(fd, size, events) PROVE Control'
    BY <2>8 DEF Watch, Call, threadVars
  <2>9. ASSUME NEW fd, NEW size, AsyncWrite(fd, size) PROVE Control'
    BY <2>9 DEF AsyncWrite, Call
  <2>10. ASSUME NEW fd, RemoveSocket(fd) \/ ConnectTo(fd) \/ Arrive(fd) \/ Drain(fd) PROVE Control'
    BY <2>10 DEF RemoveSocket, ConnectTo, Arrive, Drain, Call, loopVars, threadVars
  <2> QED
    BY <2>1, <2>2, <2>3, <2>4, <2>5, <2>6, <2>7, <2>8, <2>9, <2>10
<1> QED
  BY <1>2, <1>3, <1>4, TimersStay

\* run_timers starts the callback of a timer that is the first of the heap and due.
LEMMA RunTimersKept ==
    ASSUME TimersInv, RunTimers
    PROVE  TimersInv'
<1>1. /\ TimersType /\ Control /\ pc = "timers" /\ time = clock /\ running = None
      /\ running.id = 0
  BY NoneType DEF TimersInv, Control, RunTimers, InCallback, Stopped
<1>2. CASE pc' = "loop" /\ UNCHANGED <<ret, running, ran>>
  <2>1. UNCHANGED <<timers, running, clock, seams, asked, ran, time>>
    BY <1>2 DEF RunTimers, loopVars
  <2>2. time' \in Ints
    BY <1>1, <2>1 DEF TimersType
  <2>3. Control'
    BY <1>1, <1>2, <2>1 DEF Control, InCallback, Stopped
  <2> QED
    BY <2>1, <2>2, <2>3, TimersStay
<1>3. ASSUME NEW t \in Tops, ~Later(t.expiry, time), running' = t,
             ran' = [ran EXCEPT ![t.id] = Min({ran[t.id] + 1, asked[t.id] + 1})],
             pc' = "user", ret' = "pop",
             UNCHANGED <<timers, clock, seams, asked, time>>
      PROVE  TimersInv'
  <2>1. /\ t \in timers /\ t \in Timer /\ \A u \in timers : t.expiry <= u.expiry
        /\ t.id \in 1 .. Len(asked) /\ Len(ran) = Len(asked) /\ t.id # 0
    BY <1>1 DEF Tops, TimersType
  <2>2. t.expiry \in Ints /\ clock \in Ints /\ t.repeat \in Nat
        /\ ~(Unsigned(t.expiry) > Unsigned(clock))
    BY <1>1, <1>3, <2>1, LaterUnsigned DEF TimersType, Timer
  <2>3. ran[t.id] \in Nat /\ asked[t.id] \in Nat
    BY <1>1, <2>1, ElementOfSeq DEF TimersType
  <2>4. PICK r \in Nat : r = IF ran[t.id] + 1 <= asked[t.id] + 1 THEN ran[t.id] + 1 ELSE asked[t.id] + 1
    BY <2>3
  <2>5. ran' = [ran EXCEPT ![t.id] = r]
    <3>1. ran[t.id] + 1 \in Int /\ asked[t.id] + 1 \in Int
      BY <2>3
    <3>2. Min({ran[t.id] + 1, asked[t.id] + 1}) = r
      BY <2>4, <3>1, MinOfTwo
    <3> QED
      BY <1>3, <3>2
  <2>6. /\ ran' \in Seq(Nat) /\ Len(ran') = Len(ran)
        /\ \A i \in 1 .. Len(ran) : ran'[i] = IF i = t.id THEN r ELSE ran[i]
    BY <1>1, <2>1, <2>5, ExceptSeq DEF TimersType
  <2>7. TimersType'
    BY <1>1, <1>3, <2>1, <2>6 DEF TimersType
  <2>8. Control'
    BY <1>1, <1>3, <2>1 DEF Control, InCallback, Stopped
  <2>9. ASSUME seams \subseteq {"wrap"} PROVE HeapInv'
    <3>1. HeapInv
      BY <2>9 DEF TimersInv
    <3>2. RunsFirst'
      <4>1. t.expiry >= 0 => clock >= 0
        BY <2>1, <3>1 DEF HeapInv, PastTheSign
      <4>2. t.expiry <= clock
        BY <2>2, <4>1, IntAssumption DEF Unsigned, Ints
      <4> QED
        BY <1>3, <2>1, <4>2 DEF RunsFirst
    <3>3. Fits(t.id)'
      <4>1. asked[t.id] = ran[t.id] + t.repeat + 1
        BY <1>1, <2>1, <3>1 DEF HeapInv, Fits
      <4>2. r = ran[t.id] + 1
        BY <2>2, <2>3, <2>4, <4>1
      <4>3. asked[t.id] = r + t.repeat + 0
        BY <2>2, <2>3, <4>1, <4>2
      <4>4. ran'[t.id] = r
        BY <2>1, <2>6
      <4>5. \A u \in timers : u.id = t.id => u = t
        BY <2>1, <3>1 DEF HeapInv, Apart
      <4> QED
        BY <1>3, <2>1, <4>3, <4>4, <4>5 DEF Fits
    <3>4. ASSUME NEW i \in 1 .. Len(ran), i # t.id PROVE Fits(i)'
      <4>1. Fits(i) /\ running.id # i /\ ran'[i] = ran[i]
        BY <1>1, <2>6, <3>1, <3>4 DEF HeapInv
      <4> QED
        BY <1>3, <3>4, <4>1 DEF Fits
    <3> QED
      BY <1>3, <2>6, <3>1, <3>2, <3>3, <3>4 DEF HeapInv, Apart, PastTheSign
  <2>10. ASSUME "set back" \notin seams PROVE AgeInv'
    <3>1. AgeInv /\ OnTime(t, clock)
      BY <2>1, <2>10 DEF TimersInv, AgeInv
    <3>2. t.cut \/ t.age = t.timeout
      <4>1. t.age \in Nat /\ t.timeout \in Nat /\ Unsigned(clock) \in Int
        BY <2>1, <2>2, IntAssumption DEF Timer, Unsigned, Ints
      <4>2. ~(t.age < t.timeout /\ Unsigned(t.expiry) = Unsigned(clock) + (t.timeout - t.age))
        BY <2>2, <4>1
      <4> QED
        BY <3>1, <4>2 DEF OnTime
    <3> QED
      BY <1>3, <3>1, <3>2 DEF AgeInv
  <2> QED
    BY <1>3, <2>7, <2>8, <2>9, <2>10 DEF TimersInv
<1> QED
  BY <1>2, <1>3 DEF RunTimers, loopVars

\* timer::repeat and timer::start, or the end of the timer: what is popped is what ran.
LEMMA PopTimerKept ==
    ASSUME TimersInv, PopTimer
    PROVE  TimersInv'
<1>1. /\ TimersType /\ Control /\ running \in timers /\ pc = "pop"
  BY DEF TimersInv, Control, PopTimer, InCallback
<1>2. running \in Timer /\ running.id \in 1 .. Len(asked) /\ running.repeat \in Nat
      /\ running.timeout \in 0 .. MaxInt /\ clock \in Ints /\ running.id # 0
  BY <1>1 DEF TimersType, Timer
<1>3. PICK less : less = [running EXCEPT !.repeat = running.repeat - 1]
  OBVIOUS
<1>4. running.repeat > 0 =>
        less \in Timer /\ less.id = running.id /\ less.timeout = running.timeout
        /\ less.repeat = running.repeat - 1
  <2> SUFFICES ASSUME running.repeat > 0
               PROVE  /\ less \in Timer /\ less.id = running.id /\ less.timeout = running.timeout
                      /\ less.repeat = running.repeat - 1
    OBVIOUS
  <2>1. running.repeat - 1 \in Nat
    BY <1>2
  <2>2. less = [id |-> running.id, timeout |-> running.timeout, expiry |-> running.expiry,
                age |-> running.age, cut |-> running.cut, repeat |-> running.repeat - 1]
    BY <1>2, <1>3 DEF Timer
  <2> QED
    BY <1>2, <2>1, <2>2 DEF Timer
<1>5. PICK new : new = Started(less, clock)
  OBVIOUS
<1>6. running.repeat > 0 =>
        /\ new \in Timer /\ new.id = running.id /\ new.repeat = running.repeat - 1
        /\ OnTime(new, clock)
        /\ clock + running.timeout <= MaxInt => (new.expiry >= 0 => clock >= 0)
  BY <1>2, <1>4, <1>5, StartedEffect
<1>7. PICK p \in Popped : timers' = (timers \ {p}) \cup (IF running.repeat > 0 THEN {new} ELSE {})
  BY <1>3, <1>5 DEF PopTimer, Repeat
<1>8. /\ seams' = seams \cup (IF running.repeat > 0 THEN Crossed(clock, running.timeout) ELSE {})
      /\ clock' = (IF timers' = {} THEN 0 ELSE clock) /\ time' = clock'
      /\ pc' = "timers" /\ running' = None /\ UNCHANGED <<asked, ran>>
  BY DEF PopTimer, Repeat
<1>9. clock' \in Ints
  BY <1>2, <1>8, IntAssumption DEF Ints
<1>10. TimersType'
  <2>1. \A t \in timers' : t \in Timer /\ t.id \in 1 .. Len(asked)
    BY <1>1, <1>2, <1>6, <1>7 DEF TimersType
  <2> QED
    BY <1>1, <1>8, <1>9, <2>1, NoneType DEF TimersType
<1>11. Control'
  BY <1>8 DEF Control, InCallback, Stopped
<1>12. ASSUME seams' \subseteq {"wrap"} PROVE HeapInv'
  <2>1. seams \subseteq {"wrap"} /\ HeapInv
    BY <1>8, <1>12 DEF TimersInv
  <2>2. running.repeat > 0 => clock + running.timeout <= MaxInt
    <3>1. running.repeat > 0 => "sign" \notin Crossed(clock, running.timeout)
      BY <1>8, <1>12
    <3>2. clock + running.timeout \in Int /\ MaxInt \in Int
      BY <1>2, IntAssumption DEF Ints
    <3> QED
      BY <3>1, <3>2 DEF Crossed
  <2>3. running # None
    BY <1>2, NoneType
  <2>4. p = running
    BY <2>1, <2>3 DEF HeapInv, RunsFirst, Popped
  <2>5. timers' = (timers \ {running}) \cup (IF running.repeat > 0 THEN {new} ELSE {})
    BY <1>7, <2>4
  <2>6. \A t \in timers \ {running} : t.id # running.id
    BY <1>1, <2>1 DEF HeapInv, Apart
  <2>7. Apart'
    BY <1>6, <2>1, <2>5, <2>6 DEF HeapInv, Apart
  <2>8. RunsFirst'
    BY <1>8 DEF RunsFirst
  <2>9. PastTheSign'
    BY <1>6, <1>8, <2>1, <2>2, <2>5 DEF HeapInv, PastTheSign
  <2>10. asked[running.id] = ran[running.id] + running.repeat + 0
    BY <1>1, <1>2, <2>1 DEF HeapInv, Fits, TimersType
  <2>11. ran[running.id] \in Nat
    BY <1>1, <1>2, ElementOfSeq DEF TimersType
  <2>12. PICK id \in 1 .. Len(ran) : id = running.id
    BY <1>1, <1>2 DEF TimersType
  <2>13. running'.id # id
    BY <1>2, <1>8, <2>12, NoneType
  <2>14. Fits(id)'
    <3>1. CASE running.repeat > 0
      <4>1. asked[id] = ran[id] + new.repeat + 1
        BY <1>2, <1>6, <2>10, <2>11, <2>12, <3>1
      <4>2. new \in timers' /\ new.id = id /\ \A t \in timers' : t.id = id => t = new
        BY <1>6, <2>5, <2>6, <2>12, <3>1
      <4> QED
        BY <1>8, <2>13, <4>1, <4>2 DEF Fits
    <3>2. CASE ~(running.repeat > 0)
      <4>1. running.repeat = 0 /\ asked[id] = ran[id]
        BY <1>2, <2>10, <2>11, <2>12, <3>2
      <4>2. \A t \in timers' : t.id # id
        BY <2>5, <2>6, <2>12, <3>2
      <4> QED
        BY <1>8, <2>13, <4>1, <4>2 DEF Fits
    <3> QED
      BY <3>1, <3>2
  <2>15. ASSUME NEW i \in 1 .. Len(ran), i # id PROVE Fits(i)'
    <3>1. Fits(i) /\ running'.id # i
      BY <1>8, <2>1, NoneType DEF HeapInv
    <3>2. \A t : t.id = i => (t \in timers' <=> t \in timers)
      BY <1>6, <2>5, <2>12, <2>15
    <3> QED
      BY <1>8, <2>12, <2>15, <3>1, <3>2 DEF Fits
  <2> QED
    BY <1>8, <2>7, <2>8, <2>9, <2>14, <2>15 DEF HeapInv
<1>13. ASSUME "set back" \notin seams' PROVE AgeInv'
  <2>1. AgeInv
    BY <1>8, <1>13 DEF TimersInv
  <2>2. ASSUME NEW t \in timers' PROVE OnTime(t, clock')
    <3>1. clock' = clock
      BY <1>8, <2>2
    <3> QED
      BY <1>6, <1>7, <2>1, <2>2, <3>1 DEF AgeInv
  <2> QED
    BY <1>8, <2>2 DEF AgeInv
<1> QED
  BY <1>10, <1>11, <1>12, <1>13 DEF TimersInv

\* A timer that is set: its expiry is not before the one that runs.
LEMMA SetTimerKept ==
    ASSUME TimersInv, NEW timeout \in Timeouts, NEW repeat \in Repeats, SetTimer(timeout, repeat)
    PROVE  TimersInv'
<1>1. TimersType /\ Control /\ pc = "user"
  BY DEF TimersInv, SetTimer
<1>2. timeout \in 0 .. MaxInt /\ repeat \in Nat /\ Len(asked) \in Nat
  BY <1>1, EventLoopAssumption, IntAssumption DEF TimersType
<1>3. PICK k \in Nat : k = Len(asked) + 1
  BY <1>2
<1>4. PICK fresh : fresh = NewTimer(k, timeout, repeat)
  OBVIOUS
<1>5. PICK more \in Nat : more = IF repeat = 0 THEN 0 ELSE repeat - 1
  BY <1>2
<1>6. fresh \in Timer /\ fresh.id = k /\ fresh.timeout = timeout /\ fresh.repeat = more
  <2>1. fresh = [id |-> k, timeout |-> timeout, expiry |-> 0, age |-> 0, cut |-> FALSE, repeat |-> more]
    BY <1>4, <1>5 DEF NewTimer
  <2> QED
    BY <1>2, <2>1, IntAssumption DEF Timer, Ints
<1>7. PICK now \in Ints : now = clock'
  BY <1>1 DEF SetTimer, TimersType
<1>8. timers # {} => clock' = clock
  BY DEF SetTimer
<1>9. PICK new : new = Started(fresh, now)
  OBVIOUS
<1>10. /\ new \in Timer /\ new.id = k /\ new.repeat = more /\ OnTime(new, now)
       /\ now + timeout <= MaxInt =>
            (new.expiry >= 0 => now >= 0) /\ (new.expiry >= now \/ (new.expiry = -1 /\ now < 0))
  BY <1>6, <1>9, StartedEffect
<1>11. PICK often \in Nat : often = more + 1 /\ asked' = Append(asked, often)
  <2>1. Max({1, repeat}) = more + 1
    <3>1. more + 1 \in {1, repeat} /\ \A y \in {1, repeat} : more + 1 >= y
      BY <1>2, <1>5
    <3>2. ASSUME NEW x \in {1, repeat}, \A y \in {1, repeat} : x >= y PROVE x = more + 1
      BY <1>2, <1>5, <3>2
    <3>3. (CHOOSE x \in {1, repeat} : \A y \in {1, repeat} : x >= y) = more + 1
      BY <3>1, <3>2
    <3> QED
      BY <3>3 DEF Max
  <2> QED
    BY <1>5, <2>1 DEF SetTimer
<1>12. /\ timers' = timers \cup {new} /\ time' = now
       /\ ran' = Append(ran, 0) /\ seams' = seams \cup Crossed(now, timeout)
       /\ UNCHANGED <<running, pc, ret>>
  BY <1>3, <1>4, <1>7, <1>9 DEF SetTimer, threadVars
<1>13. /\ asked' \in Seq(Nat) /\ Len(asked') = k /\ asked'[k] = often
       /\ \A i \in 1 .. Len(asked) : asked'[i] = asked[i]
  BY <1>1, <1>3, <1>11, AppendProperties DEF TimersType
<1>14. /\ ran' \in Seq(Nat) /\ Len(ran') = k /\ ran'[k] = 0
       /\ \A i \in 1 .. Len(asked) : ran'[i] = ran[i]
  BY <1>1, <1>3, <1>12, AppendProperties DEF TimersType
<1>15. \A t \in timers : t.id \in 1 .. Len(asked) /\ t.id # k
  BY <1>1, <1>2, <1>3 DEF TimersType
<1>16. TimersType'
  <2>1. k \in 1 .. k /\ \A i \in 1 .. Len(asked) : i \in 1 .. k
    BY <1>2, <1>3
  <2> QED
    BY <1>1, <1>7, <1>10, <1>12, <1>13, <1>14, <1>15, <2>1 DEF TimersType
<1>17. Control'
  BY <1>1, <1>12 DEF Control, InCallback, Stopped
<1>18. running.id # k /\ (running # None => running \in timers)
  <2>1. running = None \/ running \in timers
    BY <1>1 DEF Control
  <2> QED
    BY <1>2, <1>3, <1>15, <2>1, NoneType
<1>19. ASSUME seams' \subseteq {"wrap"} PROVE HeapInv'
  <2>1. seams \subseteq {"wrap"} /\ HeapInv
    BY <1>12, <1>19 DEF TimersInv
  <2>2. now + timeout <= MaxInt
    <3>1. "sign" \notin Crossed(now, timeout)
      BY <1>12, <1>19
    <3>2. now + timeout \in Int /\ MaxInt \in Int
      BY <1>2, <1>7, IntAssumption DEF Ints
    <3> QED
      BY <3>1, <3>2 DEF Crossed
  <2>3. Apart'
    BY <1>10, <1>12, <1>15, <2>1 DEF HeapInv, Apart
  <2>4. RunsFirst'
    <3> SUFFICES ASSUME running # None
                 PROVE  running.expiry <= now /\ \A t \in timers \cup {new} : running.expiry <= t.expiry
      BY <1>7, <1>12 DEF RunsFirst
    <3>1. now = clock /\ running.expiry <= now /\ \A t \in timers : running.expiry <= t.expiry
      BY <1>7, <1>8, <1>18, <2>1 DEF HeapInv, RunsFirst
    <3>2. running.expiry \in Int /\ new.expiry \in Int /\ now \in Int
      BY <1>1, <1>10, <1>7 DEF TimersType, Timer, Ints
    <3>3. running.expiry <= new.expiry
      BY <1>10, <2>2, <3>1, <3>2
    <3> QED
      BY <3>1, <3>3
  <2>5. PastTheSign'
    BY <1>7, <1>8, <1>10, <1>12, <2>1, <2>2 DEF HeapInv, PastTheSign
  <2>6. Fits(k)'
    <3>1. often = 0 + new.repeat + 1
      BY <1>5, <1>10, <1>11
    <3> QED
      BY <1>10, <1>12, <1>13, <1>14, <1>15, <1>18, <3>1 DEF Fits
  <2>7. ASSUME NEW i \in 1 .. Len(asked) PROVE Fits(i)'
    <3>1. Fits(i) /\ i # k
      BY <1>1, <1>2, <1>3, <2>1 DEF HeapInv, TimersType
    <3> QED
      BY <1>10, <1>12, <1>13, <1>14, <3>1 DEF Fits
  <2>8. \A i \in 1 .. k : i = k \/ i \in 1 .. Len(asked)
    BY <1>2, <1>3
  <2> QED
    BY <1>14, <2>3, <2>4, <2>5, <2>6, <2>7, <2>8 DEF HeapInv
<1>20. ASSUME "set back" \notin seams' PROVE AgeInv'
  <2>1. AgeInv
    BY <1>12, <1>20 DEF TimersInv
  <2> QED
    BY <1>7, <1>8, <1>10, <1>12, <2>1 DEF AgeInv
<1> QED
  BY <1>16, <1>17, <1>19, <1>20 DEF TimersInv

\* A tick: the timers grow older with the clock.
LEMMA TickKept ==
    ASSUME TimersInv, Tick
    PROVE  TimersInv'
<1>1. TimersType /\ Control
  BY DEF TimersInv
<1>2. /\ clock' = Wrap(clock + 1) /\ timers' = {Older(t) : t \in timers} /\ running' = Older(running)
      /\ seams' = seams \cup Crossed(clock, 1)
      /\ pc \in {"user", "wait", "time"}
      /\ UNCHANGED <<time, pc, ret, asked, ran>>
  BY DEF Tick
<1>3. clock + 1 \in Int /\ clock \in Int /\ MaxInt \in Int
  BY <1>1, IntAssumption DEF TimersType, Ints
<1>4. \A t \in timers :
        /\ Older(t) \in Timer /\ Older(t).id = t.id /\ Older(t).repeat = t.repeat
        /\ Older(t).expiry = t.expiry
  BY <1>1, OlderEffect DEF TimersType
<1>5. /\ running' \in Timer /\ running'.id = running.id /\ running'.expiry = running.expiry
      /\ running'.cut = running.cut /\ running'.timeout = running.timeout
      /\ running.age = running.timeout => running'.age = running'.timeout
  <2>1. running \in Timer /\ running.age \in Nat /\ running.timeout \in Nat
    BY <1>1 DEF TimersType, Timer
  <2>2. running'.age = IF running.age + 1 <= running.timeout THEN running.age + 1 ELSE running.timeout
    BY <1>2, <2>1, OlderEffect
  <2> QED
    BY <1>2, <2>1, <2>2, OlderEffect
<1>6. running = None => running' = None
  BY <1>2, NoneType
<1>7. TimersType'
  <2>1. clock' \in Ints
    BY <1>2, <1>3, WrapEffect
  <2> QED
    BY <1>1, <1>2, <1>4, <1>5, <2>1 DEF TimersType
<1>8. Control'
  BY <1>1, <1>2, <1>6 DEF Control, InCallback, Stopped
<1>9. ASSUME seams' \subseteq {"wrap"} PROVE HeapInv'
  <2>1. seams \subseteq {"wrap"} /\ HeapInv /\ "sign" \notin Crossed(clock, 1)
    BY <1>2, <1>9 DEF TimersInv
  <2>2. clock' = clock + 1
    <3>1. clock + 1 <= MaxInt
      BY <1>3, <2>1 DEF Crossed
    <3>2. clock + 1 \in Ints
      BY <1>1, <1>3, <3>1 DEF TimersType, Ints
    <3> QED
      BY <1>2, <1>3, <3>2, WrapEffect
  <2>3. Apart'
    BY <1>2, <1>4, <2>1 DEF HeapInv, Apart
  <2>4. RunsFirst'
    <3> SUFFICES ASSUME running # None
                 PROVE  running'.expiry <= clock' /\ \A t \in timers' : running'.expiry <= t.expiry
      BY <1>6 DEF RunsFirst
    <3>1. running.expiry <= clock /\ \A t \in timers : running.expiry <= t.expiry
      BY <2>1 DEF HeapInv, RunsFirst
    <3>2. running.expiry \in Int
      BY <1>1 DEF TimersType, Timer, Ints
    <3>3. running.expiry <= clock + 1
      BY <1>3, <3>1, <3>2
    <3> QED
      BY <1>2, <1>4, <1>5, <2>2, <3>1, <3>3
  <2>5. PastTheSign'
    BY <1>2, <1>3, <1>4, <2>1, <2>2 DEF HeapInv, PastTheSign
  <2>6. ASSUME NEW i \in 1 .. Len(ran) PROVE Fits(i)'
    <3>1. Fits(i)
      BY <2>1 DEF HeapInv
    <3> QED
      BY <1>2, <1>4, <1>5, <3>1 DEF Fits
  <2> QED
    BY <1>2, <2>3, <2>4, <2>5, <2>6 DEF HeapInv
<1>10. ASSUME "set back" \notin seams' PROVE AgeInv'
  <2>1. AgeInv
    BY <1>2, <1>10 DEF TimersInv
  <2>2. ASSUME NEW t \in timers PROVE OnTime(Older(t), clock')
    BY <1>1, <1>2, <2>1, TickOnTime DEF TimersType, AgeInv
  <2> QED
    BY <1>2, <1>5, <1>6, <2>1, <2>2 DEF AgeInv
<1> QED
  BY <1>7, <1>8, <1>9, <1>10 DEF TimersInv

\* The clock is set back: neither part says anything from then on.
LEMMA SetBackKept ==
    ASSUME TimersInv, SetBack
    PROVE  TimersInv'
<1>1. TimersType /\ Control /\ pc # "timers"
  BY DEF TimersInv, SetBack
<1>2. UNCHANGED <<timers, running, time, pc, ret, asked, ran>> /\ "set back" \in seams'
  BY DEF SetBack, loopVars, threadVars
<1>3. clock' \in Ints
  <2>1. PICK d \in 1 .. MaxStep : clock' = Wrap(clock - d)
    BY DEF SetBack
  <2>2. clock - d \in Int
    BY <1>1, IntAssumption, EventLoopAssumption DEF TimersType, Ints
  <2> QED
    BY <2>1, <2>2, WrapEffect
<1>4. TimersType' /\ Control'
  BY <1>1, <1>2, <1>3 DEF TimersType, Control, InCallback, Stopped
<1> QED
  BY <1>2, <1>4 DEF TimersInv

\* Every step keeps the invariant of the timers.
LEMMA NextTimers == TimersInv /\ [Next]_vars => TimersInv'
<1> SUFFICES ASSUME TimersInv, [Next]_vars PROVE TimersInv'
  OBVIOUS
<1>1. CASE UserCall
  BY <1>1, LoopStays, SetTimerKept DEF UserCall
<1>2. CASE Thread
  BY <1>2, LoopStays, RunTimersKept, PopTimerKept DEF Thread
<1>3. CASE Die
  BY <1>3, LoopStays
<1>4. CASE World
  BY <1>4, LoopStays, TickKept, SetBackKept DEF World
<1>5. CASE UNCHANGED vars
  <2>1. /\ UNCHANGED <<timers, running, clock, seams, asked, ran, time, pc, ret>>
    BY <1>5 DEF vars, loopVars, threadVars, timing
  <2>2. time' \in Ints /\ Control'
    BY <2>1 DEF TimersInv, TimersType, Control, InCallback, Stopped
  <2> QED
    BY <2>1, <2>2, TimersStay
<1> QED
  BY <1>1, <1>2, <1>3, <1>4, <1>5 DEF Next

\* The invariant holds in every run.
LEMMA TimersKept == Spec => []TimersInv
BY InitTimers, NextTimers, PTL DEF Spec

\* For any timers, timeouts and width of an int: a timer runs as often as asked as
\* long as the clock stays clear of the sign of the int and is not set back.
THEOREM RunAsOften == Spec => []RunsAsAsked
<1>1. TimersInv => RunsAsAsked
  <2> SUFFICES ASSUME TimersInv, seams \subseteq {"wrap"}, NEW i \in DOMAIN ran PROVE AsAsked(i)
    BY DEF RunsAsAsked
  <2>1. Apart /\ Fits(i)
    <3>1. HeapInv /\ ran \in Seq(Nat)
      BY DEF TimersInv, TimersType
    <3>2. i \in 1 .. Len(ran)
      BY <3>1
    <3> QED
      BY <3>1, <3>2 DEF HeapInv
  <2>2. CASE \A t \in timers : t.id # i
    BY <2>1, <2>2 DEF Fits, AsAsked
  <2>3. CASE \E t \in timers : t.id = i
    <3>1. PICK t \in timers : t.id = i
      BY <2>3
    <3>2. {u \in timers : u.id = i} = {t}
      BY <2>1, <3>1 DEF Apart
    <3> QED
      BY <2>1, <3>1, <3>2 DEF Fits, AsAsked
  <2> QED
    BY <2>2, <2>3
<1> QED
  BY <1>1, TimersKept, PTL

\* For any timers, timeouts and width of an int: no callback runs before its time,
\* unless the clock was set back or the expiry was cut.
THEOREM OnTimeOrLater == Spec => []NeverEarly
<1>1. TimersInv => NeverEarly
  BY DEF TimersInv, AgeInv, NeverEarly
<1> QED
  BY <1>1, TimersKept, PTL
=============================================================================
