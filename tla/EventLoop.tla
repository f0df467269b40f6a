----------------------------- MODULE EventLoop -----------------------------
(***************************************************************************)
(* The event loop (event_loop.cpp, timer.cpp, the sockets of tcp.cpp): an  *)
(* epoll set used edge-triggered, a write queue for each socket and a heap *)
(* of timers ordered by the milliseconds since the epoch cut to an int.    *)
(* One thread runs everything.  User code is whatever is called before     *)
(* run and inside the callbacks: it may make any of the loop's calls.      *)
(***************************************************************************)
EXTENDS Integers, Sequences, FiniteSets, SequencesExt, FiniteSetsExt

CONSTANTS Fds,         \* the sockets
          MaxInt,      \* the largest int
          Timeouts,    \* what timers are set to, in ticks
          Repeats,     \* how often they are asked to run
          ReadSizes,   \* sizes of the buffers given to async_read
          Interests,   \* the events user code asks for
          WriteSizes,  \* sizes of the buffers given to async_write
          SendSpace,   \* room in a socket's send buffer
          MaxIn,       \* bound: bytes waiting to be received on a socket
          MaxQueue,    \* bound: entries of a write queue that are followed
          Budgets,     \* bound: calls on sockets and timers set, pairs of numbers
          MaxStep,     \* bound: how far the clock is set back, once
          MaxSeams,    \* bound: seams of the clock that are passed
          Slack        \* bound: ticks that go by while the loop is at work

ASSUME EventLoopAssumption ==
    /\ IsFiniteSet(Fds)
    /\ {SendSpace, MaxIn, MaxStep, Slack} \subseteq Nat \ {0}
    /\ {MaxQueue, MaxSeams} \subseteq Nat /\ Budgets \subseteq Nat \X Nat
    /\ Repeats \subseteq Nat
    /\ ReadSizes \subseteq Nat /\ WriteSizes \subseteq Nat \ {0}

VARIABLES io,       \* m_iomap: buffer size and write queue of the sockets the loop knows
          count,    \* m_sock_count
          time,     \* m_time, as the int it was made from
          timers,   \* m_timers
          pc, ret,  \* where the thread is, and where user code returns to
          batch,    \* what epoll_wait returned: n, and the events still to handle
          running,  \* the timer whose callback runs
          sock,     \* the kernel's side of each socket
          clock,    \* the time of day in milliseconds, cut to an int
          left,     \* ticks that may go by before the thread moves on, -1: any number
          calls,    \* bound: calls on sockets user code has made
          written, wire, spoilt,  \* history: bytes given to async_write, bytes sent
          asked, ran,             \* history: how often each timer was to run, and ran
          seams     \* history: "sign", "wrap", "set back": where the clock was not even

loopVars == <<io, count, time, timers>>
threadVars == <<pc, ret, batch, running>>
history == <<written, wire, spoilt>>
timing == <<asked, ran, seams>>
vars == <<loopVars, threadVars, sock, clock, left, calls, history, timing>>

Stopped == pc \in {"ended", "crash", "exit", "undefined", "too far"}
Known == DOMAIN io

-----------------------------------------------------------------------------
(* Milliseconds.  m_time is a uint64_t made from an int, so negative ints
   come after all others there, and before all others in the heap. *)

Wrap(i) == ((i + MaxInt + 1) % (2 * (MaxInt + 1))) - (MaxInt + 1)
Ints == -(MaxInt + 1) .. MaxInt

ASSUME IntAssumption == MaxInt \in Nat /\ Timeouts \subseteq 0 .. MaxInt

\* a > b as uint64_t
Later(a, b) == \/ a < 0 /\ b >= 0
               \/ (a < 0) = (b < 0) /\ a > b

Expiry_Early(now, timeout) == Wrap(now + timeout - 1)

\* timer::start: the expiry of a timer started at the given time.
Expiry(now, timeout) ==
    LET sum == Wrap(now + timeout)
    IN IF sum >= 0 /\ sum < timeout THEN -1 ELSE sum

\* age and cut are history: the ticks since start, and whether start cut the expiry.
Started(t, now) == [t EXCEPT !.expiry = Expiry(now, t.timeout), !.age = 0,
                             !.cut = Wrap(now + t.timeout) \in 0 .. t.timeout - 1]

\* The seams of the millisecond clock that lie within d ticks of now.
Crossed(now, d) == (IF now + d > MaxInt THEN {"sign"} ELSE {})
                   \cup (IF now < 0 /\ now + d >= 0 THEN {"wrap"} ELSE {})

NewTimer(id, timeout, repeat) ==
    [id |-> id, timeout |-> timeout, expiry |-> 0, age |-> 0, cut |-> FALSE,
     repeat |-> IF repeat = 0 THEN 0 ELSE repeat - 1]

\* No timer's callback is running.
None == NewTimer(0, 0, 0)

\* m_timers.top(): any of the timers of the smallest expiry.
Tops == {t \in timers : \A u \in timers : t.expiry <= u.expiry}

NextTimeout_Block == IF timers = {} \/ \A t \in timers : Later(t.expiry, time) THEN -1 ELSE 0

\* compute_next_timeout
NextTimeout ==
    IF timers = {} THEN -1
    ELSE LET e == (CHOOSE t \in Tops : TRUE).expiry
         IN CASE ~Later(e, time)        -> 0
              [] (e < 0) = (time < 0)   -> e - time
              [] OTHER                  -> MaxInt

-----------------------------------------------------------------------------
(* Sockets. *)

Ready(fd) == IF ~sock[fd].armed THEN {}
             ELSE sock[fd].interest \cap
                    ( (IF sock[fd].inq > 0 THEN {"in"} ELSE {})
                      \cup (IF sock[fd].space > 0 THEN {"out"} ELSE {}) )

\* get_sock_events: io_s::events is never assigned.
SockEvents == {}

\* event_ctl, with the sockets s: adding or changing an entry has epoll look again.
EventCtl(s, fd, events) ==
    IF fd \in Known THEN [s EXCEPT ![fd].interest = events, ![fd].armed = TRUE] ELSE s

\* How many bytes socket_tcp::recv puts into a buffer of the given size.
Received_Terminated(fd, size) == Min({sock[fd].inq, size - 1})
Received(fd, size) == Min({sock[fd].inq, size})

\* How much of a buffer of the given size socket_tcp::send gets rid of.
Sent(fd, size) == Min({size, sock[fd].space})

\* Append to what was sent on fd, as long as it is in order.
OnWire(fd, bytes) == IF spoilt[fd] = {} THEN [wire EXCEPT ![fd] = @ \o bytes] ELSE wire

\* What is left of a buffer without its first n bytes.
Left_Whole(buff, n) == buff
Left(buff, n) == SubSeq(buff, n + 1, Len(buff))

Fresh == [open |-> TRUE, interest |-> {}, armed |-> FALSE, inq |-> 0, space |-> SendSpace]

-----------------------------------------------------------------------------
(* User code. *)

Within(c, t) == \E b \in Budgets : c <= b[1] /\ t <= b[2]
Call == pc = "user" /\ Within(calls + 1, Len(asked)) /\ calls' = calls + 1

SetSocket(fd) ==
    [f \in Known \cup {fd} |-> IF f \in Known THEN io[f] ELSE [size |-> 0, queue |-> <<>>]]
AsyncRead(map, fd, size) == [map EXCEPT ![fd].size = size]

(* set_socket, async_read and event_ctl, one after the other: what it takes
   to have a socket read. *)
Watch(fd, size, events) ==
    /\ Call /\ sock[fd].open
    /\ io' = AsyncRead(SetSocket(fd), fd, size)
    /\ count' = IF fd \in Known THEN count ELSE count + 1
    /\ sock' = [sock EXCEPT ![fd].interest = events, ![fd].armed = TRUE]
    /\ UNCHANGED <<time, timers, threadVars, clock, left, history, timing>>

(* async_write: what does not fit into the send buffer is queued. *)
AsyncWrite(fd, size) ==
    LET bytes == [i \in 1 .. size |-> written[fd] + i]
        n     == Sent(fd, size)
        full  == n < size
        rest  == [sock EXCEPT ![fd].space = @ - n]
    IN /\ Call /\ sock[fd].open
       /\ written' = [written EXCEPT ![fd] = @ + size]
       /\ wire' = OnWire(fd, SubSeq(bytes, 1, n))
       /\ spoilt' = IF fd \in Known /\ io[fd].queue # <<>> /\ n > 0
                    THEN [spoilt EXCEPT ![fd] = @ \cup {"overtaken"}] ELSE spoilt
       /\ sock' = IF full THEN EventCtl(rest, fd, SockEvents \cup {"out"}) ELSE rest
       /\ io' = IF full /\ fd \in Known
                THEN [io EXCEPT ![fd].queue = Append(@, Left(bytes, n))] ELSE io
       /\ pc' = IF full /\ fd \notin Known THEN "crash" ELSE pc
       /\ UNCHANGED <<count, time, timers, ret, batch, running, clock, left, timing>>

(* remove_socket, which forgets the socket and what is queued for it but leaves
   it in the epoll set, alone or with a close, which takes it out of that; the
   descriptor is then free for another connection. *)
RemoveSocket(fd) ==
    /\ Call /\ sock[fd].open
    /\ io' = [f \in Known \ {fd} |-> io[f]]
    /\ \/ /\ sock' = [sock EXCEPT ![fd] = [Fresh EXCEPT !.open = FALSE]]
          /\ written' = [written EXCEPT ![fd] = 0] /\ wire' = [wire EXCEPT ![fd] = <<>>]
          /\ spoilt' = [spoilt EXCEPT ![fd] = {}]
       \/ /\ fd \in Known
          /\ spoilt' = IF io[fd].queue = <<>> THEN spoilt
                       ELSE [spoilt EXCEPT ![fd] = @ \cup {"dropped"}]
          /\ UNCHANGED <<sock, written, wire>>
    /\ UNCHANGED <<count, time, timers, threadVars, clock, left, timing>>

(* connect_to, on the descriptor of a closed socket: it connects; no address
   answers; socket() fails, and new_socket ends the process; or getaddrinfo
   fails, and the list of addresses it did not make is used all the same. *)
ConnectTo(fd) ==
    /\ Call /\ ~sock[fd].open
    /\ \/ sock' = [sock EXCEPT ![fd] = Fresh] /\ UNCHANGED pc
       \/ pc' \in {pc, "exit", "undefined"} /\ UNCHANGED sock
    /\ UNCHANGED <<loopVars, ret, batch, running, clock, left, history, timing>>

SetTimer(timeout, repeat) ==
    /\ pc = "user" /\ Within(calls, Len(asked) + 1)
    /\ clock' \in IF timers = {} THEN Ints ELSE {clock}
    /\ time' = clock' /\ left' = Slack
    /\ timers' = timers \cup {Started(NewTimer(Len(asked) + 1, timeout, repeat), time')}
    /\ asked' = Append(asked, Max({1, repeat})) /\ ran' = Append(ran, 0)
    /\ seams' = seams \cup Crossed(time', timeout)
    /\ UNCHANGED <<io, count, threadVars, sock, calls, history>>

(* User code comes to its end: run is called, or a callback returns. *)
Return ==
    /\ pc = "user" /\ pc' = ret /\ ret' = "loop"
    /\ UNCHANGED <<loopVars, batch, running, sock, clock, left, calls, history, timing>>

-----------------------------------------------------------------------------
(* run *)

(* The head of run's loop and of poll_io, up to epoll_wait. *)
Loop ==
    /\ pc = "loop"
    /\ pc' = CASE timers = {} /\ count <= 0 -> "ended"
               [] timers # {} /\ count = 0  -> "time"
               [] OTHER                     -> "wait"
    /\ left' = CASE pc' # "wait"      -> left
                 [] NextTimeout = -1  -> -1
                 [] OTHER             -> NextTimeout + Slack
    /\ UNCHANGED <<loopVars, ret, batch, running, sock, clock, calls, history, timing>>

(* epoll_wait returns the events there are, in any order, and takes each off
   the list of what is ready: with EPOLLET it comes back only with news. *)
Poll ==
    LET ready == {fd \in Fds : Ready(fd) # {}}
    IN /\ pc = "wait"
       /\ \/ ready # {} /\ pc' = "events"
          \/ ready = {} /\ left # -1 /\ left <= Slack /\ pc' = "time"
       /\ \E order \in SetToSeqs(ready) :
            batch' = [n |-> Len(order),
                      events |-> [i \in DOMAIN order |-> [fd |-> order[i], on |-> Ready(order[i])]]]
       /\ sock' = [fd \in Fds |-> [sock[fd] EXCEPT !.armed = @ /\ fd \notin ready]]
       /\ left' = Slack
       /\ UNCHANGED <<loopVars, ret, running, clock, calls, history, timing>>

NoBatch == [n |-> 0, events |-> <<>>]
Event == Head(batch.events)
AfterEvent_First == pc' = "time" /\ batch' = NoBatch
AfterEvent == IF Len(batch.events) = 1
              THEN pc' = "time" /\ batch' = NoBatch
              ELSE pc' = "events" /\ batch' = [batch EXCEPT !.events = Tail(@)]

(* The EPOLLIN half of poll_io's loop: receive what there is room for and
   call the read callback.  A socket that is no longer in m_iomap comes back
   from it as a null pointer. *)
OnReadable ==
    /\ pc = "events"
    /\ IF "in" \notin Event.on
       THEN pc' = "out" /\ UNCHANGED <<ret, sock>>
       ELSE IF Event.fd \notin Known
       THEN pc' = "crash" /\ UNCHANGED <<ret, sock>>
       ELSE /\ sock' = [sock EXCEPT ![Event.fd].inq = @ - Received(Event.fd, io[Event.fd].size)]
            /\ pc' = "user" /\ ret' = "out"
    /\ UNCHANGED <<loopVars, batch, running, clock, left, calls, history, timing>>

(* The EPOLLOUT half, one turn of its loop over the write queue.  A send that
   is cut short leaves the front as it is and queues the buffer again without
   its first n bytes, n being what epoll_wait returned. *)
OnWritable ==
    LET fd    == Event.fd
        front == Head(io[fd].queue)
        sent  == Sent(fd, Len(front))
    IN /\ pc = "out"
       /\ \/ /\ "out" \notin Event.on
             /\ AfterEvent
             /\ UNCHANGED <<io, sock, wire, spoilt>>
          \/ /\ "out" \in Event.on /\ fd \notin Known
             /\ pc' = "crash"
             /\ UNCHANGED <<io, sock, batch, wire, spoilt>>
          \/ /\ "out" \in Event.on /\ fd \in Known /\ io[fd].queue = <<>>
             /\ sock' = EventCtl(sock, fd, SockEvents \ {"out"})
             /\ AfterEvent
             /\ UNCHANGED <<io, wire, spoilt>>
          \/ /\ "out" \in Event.on /\ fd \in Known /\ io[fd].queue # <<>>
             /\ sock' = [sock EXCEPT ![fd].space = @ - sent]
             /\ wire' = OnWire(fd, SubSeq(front, 1, sent))
             /\ IF sent = Len(front)
                THEN /\ io' = [io EXCEPT ![fd].queue = Tail(@)]
                     /\ UNCHANGED <<pc, batch, spoilt>>
                ELSE /\ spoilt' = [spoilt EXCEPT ![fd] = @ \cup {"cut"}]
                     /\ IF batch.n > Len(front)
                        THEN pc' = "undefined" /\ UNCHANGED <<io, batch>>
                        ELSE IF Len(io[fd].queue) = MaxQueue
                        THEN pc' = "too far" /\ UNCHANGED <<io, batch>>
                        ELSE /\ io' = [io EXCEPT ![fd].queue = Append(@, Left(front, batch.n))]
                             /\ AfterEvent
       /\ UNCHANGED <<count, time, timers, ret, running, clock, left, calls, written, timing>>

(* recv or send, in async_write too, fails with something else than EAGAIN: die. *)
Die ==
    /\ CASE pc = "user"   -> Within(calls + 1, Len(asked)) /\ \E fd \in Fds : sock[fd].open
         [] pc = "events" -> Event.fd \in Known /\ "in" \in Event.on
         [] pc = "out"    -> Event.fd \in Known /\ "out" \in Event.on /\ io[Event.fd].queue # <<>>
         [] OTHER         -> FALSE
    /\ pc' = "exit"
    /\ UNCHANGED <<loopVars, ret, batch, running, sock, clock, left, calls, history, timing>>

UpdateTime ==
    /\ pc = "time"
    /\ time' = clock /\ left' = Slack
    /\ pc' = "timers"
    /\ UNCHANGED <<io, count, timers, ret, batch, running, sock, clock, calls, history, timing>>

(* run_timers up to the callback. *)
RunTimers ==
    /\ pc = "timers"
    /\ \/ /\ timers = {} \/ \A t \in Tops : Later(t.expiry, time)
          /\ pc' = "loop"
          /\ UNCHANGED <<ret, running, ran>>
       \/ \E t \in Tops :
            /\ ~Later(t.expiry, time)
            /\ running' = t
            /\ ran' = [ran EXCEPT ![t.id] = Min({@ + 1, asked[t.id] + 1})]
            /\ pc' = "user" /\ ret' = "pop"
    /\ UNCHANGED <<loopVars, batch, sock, clock, left, calls, history, asked, seams>>

\* m_timers.pop(): the timer that ran, unless one set meanwhile is before it in the heap.
Popped_Tie == Tops
Popped == IF \A t \in timers : running.expiry <= t.expiry THEN {running} ELSE Tops

\* timer::repeat
Repeat(t) == t.repeat > 0

(* run_timers after the callback: pop, and start the timer again if it repeats. *)
PopTimer ==
    /\ pc = "pop"
    /\ left' = Slack
    /\ \E p \in Popped :
         timers' = (timers \ {p}) \cup
                     (IF Repeat(running)
                      THEN {Started([running EXCEPT !.repeat = running.repeat - 1], clock)} ELSE {})
    /\ seams' = seams \cup (IF Repeat(running) THEN Crossed(clock, running.timeout) ELSE {})
    /\ clock' = (IF timers' = {} THEN 0 ELSE clock) /\ time' = clock'
    /\ pc' = "timers" /\ running' = None
    /\ UNCHANGED <<io, count, ret, batch, sock, calls, history, asked, ran>>

-----------------------------------------------------------------------------
(* The world.  It moves where the thread looks at it next: anywhere else a
   step of it commutes with the thread's.  Time is told while a timer is set. *)

Older(t) == [t EXCEPT !.age = Min({@ + 1, t.timeout})]

Tick ==
    /\ pc \in {"user", "wait", "time"} /\ timers # {} /\ left # 0
    /\ clock' = Wrap(clock + 1)
    /\ left' = IF left = -1 THEN -1 ELSE left - 1
    /\ timers' = {Older(t) : t \in timers} /\ running' = Older(running)
    /\ seams' = seams \cup Crossed(clock, 1) /\ Cardinality(seams') <= MaxSeams
    /\ UNCHANGED <<io, count, time, pc, ret, batch, sock, calls, history, asked, ran>>

SetBack ==
    /\ pc \in {"user", "wait", "time"} /\ timers # {} /\ "set back" \notin seams
    /\ \E d \in 1 .. MaxStep : clock' = Wrap(clock - d)
    /\ seams' = seams \cup {"set back"} /\ Cardinality(seams') <= MaxSeams
    /\ UNCHANGED <<loopVars, threadVars, sock, left, calls, history, asked, ran>>

Arrive(fd) ==
    /\ pc \in {"user", "wait", "events", "out"} /\ sock[fd].open /\ sock[fd].inq < MaxIn
    /\ sock' = [sock EXCEPT ![fd].inq = @ + 1, ![fd].armed = @ \/ "in" \in sock[fd].interest]
    /\ UNCHANGED <<loopVars, threadVars, clock, left, calls, history, timing>>

(* The remote takes what is in the send buffer. *)
Drain(fd) ==
    /\ pc \in {"user", "wait", "events", "out"} /\ sock[fd].open /\ sock[fd].space < SendSpace
    /\ sock' = [sock EXCEPT ![fd].space = SendSpace,
                         ![fd].armed = @ \/ "out" \in sock[fd].interest]
    /\ UNCHANGED <<loopVars, threadVars, clock, left, calls, history, timing>>

-----------------------------------------------------------------------------
Init ==
    /\ io = <<>> /\ count = 0 /\ timers = {}
    /\ clock = 0 /\ time = 0
    /\ pc = "user" /\ ret = "loop"
    /\ batch = NoBatch
    /\ running = None
    /\ sock = [fd \in Fds |-> Fresh]
    /\ left = Slack /\ calls = 0
    /\ written = [fd \in Fds |-> 0] /\ wire = [fd \in Fds |-> <<>>]
    /\ spoilt = [fd \in Fds |-> {}]
    /\ asked = <<>> /\ ran = <<>> /\ seams = {}

UserCall == \/ \E fd \in Fds : \/ \E size \in ReadSizes, events \in Interests : Watch(fd, size, events)
                               \/ \E size \in WriteSizes : AsyncWrite(fd, size)
                               \/ RemoveSocket(fd)
                               \/ ConnectTo(fd)
            \/ \E timeout \in Timeouts, repeat \in Repeats : SetTimer(timeout, repeat)

Thread == Return \/ Loop \/ Poll \/ OnReadable \/ OnWritable \/ UpdateTime \/ RunTimers \/ PopTimer

World == Tick \/ SetBack \/ \E fd \in Fds : Arrive(fd) \/ Drain(fd)

Next == UserCall \/ Thread \/ Die \/ World

(* The thread goes on as long as it can, callbacks return, time passes and
   what was sent is taken by the remote sooner or later (strong, because the
   world's steps are offered only where the thread looks at it). *)
Fairness == WF_vars(Thread) /\ SF_vars(Tick) /\ \A fd \in Fds : SF_vars(Drain(fd))

Spec == Init /\ [][Next]_vars /\ Fairness
-----------------------------------------------------------------------------
(* Properties. *)

Queue(fd) == IF fd \in Known THEN io[fd].queue ELSE <<>>

\* The bytes of x are those behind byte m.
Numbered(x, m) == \A i \in DOMAIN x : x[i] = m + i

\* With w on the wire and q queued: the last byte up to the end of buffer k.
Reached(w, q, k) == IF k = 0 THEN Len(w) ELSE Last(q[k])
InOrder(w, q, n) ==
    /\ Numbered(w, 0)
    /\ \A k \in DOMAIN q : q[k] # <<>> /\ Numbered(q[k], Reached(w, q, k - 1))
    /\ Reached(w, q, Len(q)) = n

(* What was sent on a socket followed by what is queued for it is what
   async_write was given, byte for byte, unless an async_write overtook the
   queue, a send out of the queue was cut short (event_loop.cpp:97) or
   remove_socket dropped the queue of a socket that stays open. *)
SentInOrder ==
    ~Stopped => \A fd \in Fds : spoilt[fd] = {} => InOrder(wire[fd], Queue(fd), written[fd])

(* The callback of a timer runs when its time is up, unless the clock was set
   back or start took its expiry, which is an int, for the result of an
   unsigned overflow (timer.cpp:21-24). *)
NeverEarly ==
    running # None =>
        running.age = running.timeout \/ running.cut \/ "set back" \in seams

(* Every timer is run as often as asked: what it has run and what it still
   has to is what it was set for, as long as the clock stays clear of the sign
   of the int and is not set back (event_loop.cpp:202). *)
AsAsked(i) ==
    LET mine == {t \in timers : t.id = i}
    IN  \/ mine = {} /\ running.id # i /\ asked[i] = ran[i]
        \/ \E t \in mine :
              mine = {t} /\ asked[i] = ran[i] + t.repeat + (IF running.id = i THEN 0 ELSE 1)
RunsAsAsked == seams \subseteq {"wrap"} => \A i \in DOMAIN ran : AsAsked(i)

(* A timer whose time is up is run, whatever the sockets do, unless the clock
   leaves its expiry behind by wrapping or being set back (event_loop.cpp:159). *)
Due(i) == \E t \in timers : t.id = i /\ t.age = t.timeout
TimersRun ==
    \A i \in 1 .. Max({b[2] : b \in Budgets}) :
        Due(i) /\ seams = {} ~> Stopped \/ {"wrap", "set back"} \cap seams # {} \/ ~Due(i)

(* With edge-triggered events nothing that arrived is left lying: a socket
   with a buffer for all of it is read, unless a write that did not fit has
   switched its reading off. *)
Readable(fd) == /\ sock[fd].inq > 0 /\ "in" \in sock[fd].interest
                /\ fd \in Known /\ io[fd].size >= MaxIn
DataIsRead == \A fd \in Fds : Readable(fd) ~> Stopped \/ ~Readable(fd)

(* What is queued on a socket is sent in the end, however often a send is cut
   short, unless user code asks for other events on it.  A buffer that does
   not fit into the send buffer as a whole is excepted: what was sent of it is
   not taken off the front, so it is begun again for ever. *)
Sendable(fd) == /\ "out" \in sock[fd].interest /\ fd \in Known /\ io[fd].queue # <<>>
                /\ \A i \in DOMAIN io[fd].queue : Len(io[fd].queue[i]) <= SendSpace
WrittenIsSent == \A fd \in Fds : Sendable(fd) ~> Stopped \/ ~Sendable(fd)
=============================================================================
