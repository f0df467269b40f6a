------------------------------ MODULE Download ------------------------------
(***************************************************************************)
(* The download scheduler: the protocol handlers of peer_connection, the   *)
(* work queue and the pieces of piece_manager, and session's try_download, *)
(* the callback of the one uv_async_t that every connection shares.        *)
(*                                                                         *)
(* All of it runs on the thread of uv_run, so a callback is one action.    *)
(* One read callback can carry several messages: a message is one action   *)
(* and nothing forces try_download between two of them.                    *)
(*                                                                         *)
(* The remote peers are the environment, and legal ones: at most one       *)
(* BITFIELD, before anything else; PIECE only in answer to a request and   *)
(* only while they do not choke us; a CHOKE drops requests.  What the      *)
(* remote sent is delivered in the same step, which loses no behaviour:    *)
(* TCP keeps the order, and the choice of the requests that a CHOKE drops  *)
(* stands for the requests that cross it on the wire.                      *)
(***************************************************************************)
EXTENDS Integers, Sequences, FiniteSets, Piece

CONSTANTS
    Peers,          \* the tracker's peer list
    NumPieces,      \* hashes in the torrent file
    MAX_BACKLOG,    \* 5 in peer_connection.h
    Bitfields,      \* what bitfield::has_piece may say of a BITFIELD
    Seeding,        \* the remotes that own pieces, so send BITFIELD before anything else
    Choking,        \* the remotes that may choke us again
    Closing,        \* the remotes that may fail the handshake or close the connection
    Corrupting,     \* the remotes that may send wrong bytes
    MaxUnchokes     \* bound: UNCHOKE messages per remote

Pieces == 0 .. NumPieces - 1
NoPiece == -1               \* m_curr_piece == -1
BadIndex == NumPieces + 1   \* stands for any int that is no piece
Index == Pieces \cup {BadIndex}

ASSUME DownloadAssumption ==
    /\ NumPieces \in Nat \ {0}
    /\ MAX_BACKLOG \in Nat \ {0}
    /\ MaxUnchokes \in Nat
    /\ Bitfields \subseteq SUBSET Pieces
    /\ Seeding \subseteq Peers /\ Choking \subseteq Peers
    /\ Closing \subseteq Peers /\ Corrupting \subseteq Peers

VARIABLES
    sock,       \* [Peers]: m_socket: "none" before on_connect, "open", "closed"
    active,     \* [Peers]: m_active
    choked,     \* [Peers]: m_choked
    bitfield,   \* [Peers]: m_bitfield: known is ~empty(), has what has_piece finds
    curr,       \* [Peers]: m_curr_piece
    pending,    \* [Peers]: requests the remote has not answered, a bag of <<piece, block>>
    unchokes,   \* [Peers]: UNCHOKEs received, for MaxUnchokes
    wq,         \* piece_manager::m_work_queue
    wake,       \* the send_params in async.data while the uv_async_t is pending, else empty
    piece,      \* [Pieces]: piece_manager::m_pieces
    verified,   \* history: the pieces send_have was called for
    saved,      \* history: the pieces handed to uv_queue_work for save_piece
    lost,       \* history: what Swallowed, Overwritten and Buried say is dropped
    aborted     \* the process died on an assertion

peerVars == <<sock, active, choked, bitfield, unchokes>>
history == <<verified, saved, lost>>
vars == <<peerVars, curr, pending, wq, wake, piece, history, aborted>>

Req == Pieces \X Blocks
WakeParams == [peer: Peers, index: Index, own: BOOLEAN]

Init ==
    /\ sock = [p \in Peers |-> "none"]
    /\ active = [p \in Peers |-> FALSE]
    /\ choked = [p \in Peers |-> TRUE]
    /\ bitfield = [p \in Peers |-> [known |-> FALSE, has |-> {}]]
    /\ curr = [p \in Peers |-> NoPiece]
    /\ pending = [p \in Peers |-> [r \in Req |-> 0]]
    /\ unchokes = [p \in Peers |-> 0]
    /\ wq = [items |-> [i \in 1 .. NumPieces |-> i - 1], debt |-> 0]
    /\ wake = {}
    /\ piece = [i \in Pieces |-> NewPiece]
    /\ verified = {} /\ saved = {} /\ lost = {}
    /\ aborted = FALSE

-----------------------------------------------------------------------------
(* std::queue<int> as the build's std::deque behaves inside one node.      *)
(* pop() on an empty queue moves the head past the tail: debt counts the   *)
(* slots between them.  A push then fills a slot the head has passed and   *)
(* the element is never seen; front() reads a slot that was never written. *)

Push(w, i) ==
    IF w.debt > 0 THEN [w EXCEPT !.debt = @ - 1] ELSE [w EXCEPT !.items = Append(@, i)]

Pop(w) ==
    IF w.items = <<>> THEN [w EXCEPT !.debt = @ + 1] ELSE [w EXCEPT !.items = Tail(@)]

Fronts(w) == IF w.items = <<>> THEN Index ELSE {Head(w.items)}

\* What a connection that gives up piece i loses when its push fills debt.
Swallowed(w, i) == IF w.debt > 0 THEN {i} ELSE {}

-----------------------------------------------------------------------------
(* The uv_async_t.  uv_async_send coalesces, and data is one pointer: a    *)
(* send replaces the params of a send that has not been handled yet.  own  *)
(* is history: the index was popped from the queue and is nowhere else.    *)

Send(p, i, own) == wake' = {[peer |-> p, index |-> i, own |-> own]}

Overwritten == {m.index : m \in {n \in wake : n.own}}

-----------------------------------------------------------------------------
(* Connection.                                                             *)

Running(p) == ~aborted /\ sock[p] = "open"

\* on_receive gets as far as a message only when the handshake is complete.
Ready_AnyStage(p) == Running(p)
Ready(p) == Running(p) /\ active[p]

\* on_connect with status 0.  With an error it returns at once.
Connect(p) ==
    /\ ~aborted /\ sock[p] = "none"
    /\ sock' = [sock EXCEPT ![p] = "open"]
    /\ UNCHANGED <<active, choked, bitfield, unchokes, curr, pending, wq, wake, piece,
                   history, aborted>>

\* on_receive, READ_PEER_ID: the handshake is complete, or it fails and
\* on_receive_internal closes the socket.
Handshake(p) ==
    /\ Running(p) /\ ~active[p]
    /\ \/ active' = [active EXCEPT ![p] = TRUE] /\ UNCHANGED sock
       \/ p \in Closing /\ sock' = [sock EXCEPT ![p] = "closed"] /\ UNCHANGED active
    /\ UNCHANGED <<choked, bitfield, unchokes, curr, pending, wq, wake, piece, history, aborted>>

\* on_read with an error or EOF: uv_close, then on_remote_close, which does
\* nothing for a connection that holds no piece and never clears m_curr_piece.
OnRemoteClose(p) ==
    /\ Running(p) /\ p \in Closing
    /\ sock' = [sock EXCEPT ![p] = "closed"]
    /\ pending' = [pending EXCEPT ![p] = [r \in Req |-> 0]]
    /\ IF curr[p] = NoPiece
       THEN UNCHANGED <<active, piece, wq, lost>>
       ELSE /\ active' = [active EXCEPT ![p] = FALSE]
            /\ piece' = [piece EXCEPT ![curr[p]] = ResetPiece(@)]
            /\ wq' = Push(wq, curr[p])
            /\ lost' = lost \cup Swallowed(wq, curr[p])
    /\ UNCHANGED <<choked, bitfield, unchokes, curr, wake, verified, saved, aborted>>

-----------------------------------------------------------------------------
(* Messages: do_message and its handlers.  HAVE and the other ids it does  *)
(* not know change nothing here.                                           *)

HandleBitfield(p) ==
    /\ Ready(p) /\ ~bitfield[p].known /\ unchokes[p] = 0
    /\ \E has \in Bitfields : bitfield' = [bitfield EXCEPT ![p] = [known |-> TRUE, has |-> has]]
    /\ UNCHANGED <<sock, active, choked, unchokes, curr, pending, wq, wake, piece,
                   history, aborted>>

\* The front of the queue goes into the params and is popped, even when the
\* queue is empty.
HandleUnchoke(p) ==
    /\ Ready(p) /\ choked[p]
    /\ unchokes[p] < MaxUnchokes /\ (p \in Seeding => bitfield[p].known)
    /\ unchokes' = [unchokes EXCEPT ![p] = @ + 1]
    /\ \E i \in Fronts(wq) : Send(p, i, wq.items # <<>>)
    /\ lost' = lost \cup Overwritten
    /\ wq' = Pop(wq)
    /\ choked' = [choked EXCEPT ![p] = FALSE]
    /\ UNCHANGED <<sock, active, bitfield, curr, pending, piece, verified, saved, aborted>>

HandleChoke(p) ==
    /\ Ready(p) /\ ~choked[p] /\ p \in Choking
    /\ choked' = [choked EXCEPT ![p] = TRUE]
    /\ \E kept \in SUBSET {r \in Req : pending[p][r] > 0} :
          pending' = [pending EXCEPT ![p] = [r \in Req |-> IF r \in kept THEN @[r] ELSE 0]]
    /\ UNCHANGED <<sock, active, bitfield, unchokes, curr, wq, wake, piece, history, aborted>>

\* Block b of piece i arrives with contents d.
HandlePiece(p, i, b, d) ==
    /\ Running(p) /\ ~choked[p] /\ pending[p][<<i, b>>] > 0
    /\ d = "good" \/ (d = "bad" /\ p \in Corrupting)
    /\ pending' = [pending EXCEPT ![p][<<i, b>>] = @ - 1]
    /\ piece' = [piece EXCEPT ![i] = BlockArrived(@, b, d)]
    /\ Send(p, i, FALSE)
    /\ lost' = lost \cup Overwritten
    /\ UNCHANGED <<peerVars, curr, wq, verified, saved, aborted>>

-----------------------------------------------------------------------------
(* peer_connection::fetch_piece once its piece is chosen: t is the piece   *)
(* and w the queue at that point.                                          *)

HasPiece(p, i) ==
    IF ~bitfield[p].known THEN {FALSE} ELSE IF i = BadIndex THEN BOOLEAN ELSE {i \in bitfield[p].has}

\* m_curr_piece is already set to t when either test returns.
Blocked_AnyPeer(p, t) == piece[t].backlog = MAX_BACKLOG
Blocked(p, t) ==
    \/ bitfield[p].known /\ t \notin bitfield[p].has
    \/ piece[t].backlog = MAX_BACKLOG

Complete(p, t) == ~Blocked(p, t) /\ DownloadFinished(piece[t])

\* The blocks that the request loop of fetch_piece asks for.
Asked_FromReceived(x, b) == x.count <= b /\ b < Request(x, MAX_BACKLOG).requested
Asked(x, b) == x.requested <= b /\ b < Request(x, MAX_BACKLOG).requested

\* uv_write per block; on a closed socket it fails and the counters still move.
SendRequests(p, t) ==
    /\ piece' = [piece EXCEPT ![t] = Request(@, MAX_BACKLOG)]
    /\ pending' = [pending EXCEPT ![p] = [r \in Req |->
                     IF sock[p] = "open" /\ r[1] = t /\ Asked(piece[t], r[2])
                     THEN @[r] + 1 ELSE @[r]]]

\* A connection that is closed already takes t, and no one else knows of t.
Buried(p, t, own) == IF own /\ sock[p] # "open" THEN {t} ELSE {}

\* fetch_piece when it keeps t; own: t has just been taken out of the queue.
KeepPiece(p, t, w, own) ==
    /\ Blocked(p, t) \/ ~DownloadFinished(piece[t])
    /\ curr' = [curr EXCEPT ![p] = t]
    /\ wq' = w
    /\ lost' = lost \cup Buried(p, t, own)
    /\ IF Blocked(p, t) THEN UNCHANGED <<piece, pending>> ELSE SendRequests(p, t)

\* fetch_piece when t is complete and its hash is wrong: back into the queue as
\* it is, its blocks counted as requested and received.
RejectPiece_Dropped(p, t, w) ==
    /\ Complete(p, t) /\ ~VerifyIntegrity(piece[t])
    /\ curr' = [curr EXCEPT ![p] = NoPiece]
    /\ wq' = w
    /\ UNCHANGED <<piece, pending, lost>>
RejectPiece(p, t, w) ==
    /\ Complete(p, t) /\ ~VerifyIntegrity(piece[t])
    /\ curr' = [curr EXCEPT ![p] = NoPiece]
    /\ wq' = Push(w, t)
    /\ lost' = lost \cup Swallowed(w, t)
    /\ UNCHANGED <<piece, pending>>

\* In what follows m is the send_params that try_download got.

\* try_download, first two tests: not a piece of this peer, or choked.
Requeue(m) ==
    /\ FALSE \in HasPiece(m.peer, m.index) \/ choked[m.peer]
    /\ wq' = Push(wq, m.index)
    /\ UNCHANGED <<curr, pending, piece, history, aborted>>

\* A connection in the middle of a piece pushes the index back, even when it is
\* that piece, and goes on with its own.
Busy(m) == curr[m.peer] # NoPiece
Target_Index(m) == m.index
Target(m) == IF Busy(m) THEN curr[m.peer] ELSE m.index
QueueAfter_NotPushed(m) == wq
QueueAfter(m) == IF Busy(m) THEN Push(wq, m.index) ELSE wq

FetchPiece(m) ==
    /\ Target(m) \in Pieces
    /\ \/ KeepPiece(m.peer, Target(m), QueueAfter(m), ~Busy(m) /\ m.own)
       \/ RejectPiece(m.peer, Target(m), QueueAfter(m))
    /\ UNCHANGED <<verified, saved, aborted>>

\* The piece is whole: it is announced, queued for save_piece, and the next
\* index, popped from a queue nobody checked, is fetched.  That second call can
\* find its piece whole too: it is announced, and the result is ignored.
Whole(p, t) == Complete(p, t) /\ VerifyIntegrity(piece[t])

FinishPiece(m) ==
    LET p == m.peer
        w == QueueAfter(m)
    IN  /\ Target(m) \in Pieces /\ Whole(p, Target(m))
        /\ saved' = saved \cup {Target(m)}
        /\ \E next \in Fronts(w) :
             \/ /\ next \in Pieces
                /\ KeepPiece(p, next, Pop(w), w.items # <<>>) \/ RejectPiece(p, next, Pop(w))
                /\ verified' = verified \cup {Target(m)}
                /\ UNCHANGED aborted
             \/ /\ next \in Pieces /\ Whole(p, next)
                /\ curr' = [curr EXCEPT ![p] = NoPiece]
                /\ wq' = Pop(w)
                /\ verified' = verified \cup {Target(m), next}
                /\ UNCHANGED <<piece, pending, lost, aborted>>
             \/ /\ next \notin Pieces   \* get_piece asserts
                /\ curr' = [curr EXCEPT ![p] = NoPiece]
                /\ wq' = Pop(w)
                /\ verified' = verified \cup {Target(m)}
                /\ aborted' = TRUE
                /\ UNCHANGED <<piece, pending, lost>>

\* get_piece asserts on an index that is no piece.  It lets one index past the
\* end through and reads behind m_pieces: the process ends there too.
AbortOnIndex(m) ==
    /\ Target(m) \notin Pieces
    /\ aborted' = TRUE
    /\ UNCHANGED <<curr, pending, wq, piece, history>>

\* session.cpp: try_download, run by the loop when the uv_async_t is pending.
TryDownload ==
    /\ ~aborted
    /\ \E m \in wake :
          \/ Requeue(m)
          \/ /\ TRUE \in HasPiece(m.peer, m.index) /\ ~choked[m.peer]
             /\ FetchPiece(m) \/ FinishPiece(m) \/ AbortOnIndex(m)
    /\ wake' = {}
    /\ UNCHANGED peerVars

-----------------------------------------------------------------------------
Receive(p) ==
    \/ HandleBitfield(p) \/ HandleUnchoke(p) \/ HandleChoke(p)
    \/ \E i \in Pieces, b \in Blocks, d \in {"good", "bad"} : HandlePiece(p, i, b, d)

Next ==
    \/ TryDownload
    \/ \E p \in Peers : Connect(p) \/ Handshake(p) \/ Receive(p) \/ OnRemoteClose(p)

Spec == Init /\ [][Next]_vars

-----------------------------------------------------------------------------
(* Properties.                                                             *)

\* Every variable keeps its type; the queue holds indices only.
TypeOK ==
    /\ sock \in [Peers -> {"none", "open", "closed"}]
    /\ active \in [Peers -> BOOLEAN] /\ choked \in [Peers -> BOOLEAN]
    /\ bitfield \in [Peers -> [known : BOOLEAN, has : SUBSET Pieces]]
    /\ curr \in [Peers -> Pieces \cup {NoPiece}]
    /\ pending \in [Peers -> [Req -> Nat]]
    /\ unchokes \in [Peers -> Nat]
    /\ wq \in [items : Seq(Index), debt : Nat]
    /\ wake \in SUBSET WakeParams
    /\ piece \in [Pieces -> PieceType]
    /\ verified \in SUBSET Pieces /\ saved \in SUBSET Pieces /\ lost \in SUBSET Index
    /\ aborted \in BOOLEAN

InQueue(w, i) == \E n \in DOMAIN w.items : w.items[n] = i
Carried(i) == \E m \in wake : m.own /\ m.index = i
Held(i) == \E p \in Peers : sock[p] = "open" /\ curr[p] = i

\* No piece falls out of the scheduler: until it is announced, a piece is in the
\* work queue, in the params of the pending wake-up, or held by an open
\* connection, unless one of the three known leaks dropped it.
EveryPieceAccounted ==
    \A i \in Pieces : i \in verified \cup lost \/ InQueue(wq, i) \/ Carried(i) \/ Held(i)

\* Why an index that try_download pushes back cannot be swallowed: the queue is
\* in debt only when it is empty, and then the pending wake-up carries no index
\* that was popped; one wake-up is pending at most, and neither it nor a piece
\* belongs to a connection whose handshake is not complete.
Unstarted(p) == sock[p] = "none" \/ (sock[p] = "open" /\ ~active[p])
SchedulerConsistent ==
    /\ wq.debt > 0 => wq.items = <<>>
    /\ \A m \in wake : (m.own => wq.debt = 0) /\ wake = {m} /\ ~Unstarted(m.peer)
    /\ \A p \in Peers : Unstarted(p) => choked[p] /\ curr[p] = NoPiece

\* The scheduler is a pool of pieces: what is in the work queue or in the params of
\* the pending wake-up waits, what an open connection has is in hand; done is what
\* was announced, and dropped what one of the three leaks took.  So a callback of
\* one connection never takes the piece of another, and none vanishes.
Waiting == {i \in Pieces : InQueue(wq, i) \/ Carried(i)}
Hand(p) == IF sock[p] = "open" THEN curr[p] ELSE NoPiece
Pool == INSTANCE PiecePool
        WITH Workers <- Peers, Work <- Pieces, Nothing <- NoPiece,
             pool <- Waiting, hand <- [p \in Peers |-> Hand(p)],
             done <- verified, dropped <- lost \cap Pieces
IsPool == Pool!Spec

\* The leaks never happen and the queue is never popped when it is empty.
NothingLost == lost = {} /\ wq.debt = 0

-----------------------------------------------------------------------------
(* Requests.                                                               *)

\* The requests for blocks of piece i that are in flight, each its own element: the
\* n-th of those that remote p owes for block b.
InFlight(i) == UNION {{<<p, b, n>> : n \in 1 .. pending[p][<<i, b>>]} : p \in Peers, b \in Blocks}
OutstandingOf(i) == Cardinality(InFlight(i))

NoClose == \A p \in Peers : sock[p] # "closed"

\* While no connection has closed, a block is asked for once: one request for it is
\* in flight at most, it is a block fetch_piece has passed, and it has not arrived.
RequestedOnce ==
    NoClose => \A i \in Pieces : \A x, y \in InFlight(i) :
        /\ x[2] = y[2] => x = y
        /\ x[2] < piece[i].requested /\ piece[i].data[x[2]] = "none"

\* While no connection has closed, the counters of a piece agree with one another
\* and with the wire: every requested block is counted as received or in the
\* backlog, and the backlog covers what the remotes owe.
CountersAgree ==
    NoClose => \A i \in Pieces :
        /\ piece[i].requested = piece[i].count + piece[i].backlog
        /\ OutstandingOf(i) <= piece[i].backlog

\* With remotes that never choke or close, the backlog is what they owe.
BacklogExact == \A i \in Pieces : piece[i].backlog = OutstandingOf(i)

\* peer_connection.cpp:175, "max oustanding request at this moment": no piece has
\* more than MAX_BACKLOG requests in flight.
PipelineBounded == \A i \in Pieces : OutstandingOf(i) <= MAX_BACKLOG

\* A request goes to an open connection that has the piece and does not choke us,
\* also the requests of the second fetch_piece in try_download.
RequestsAllowed ==
    [][\A p \in Peers, i \in Pieces, b \in Blocks :
          pending'[p][<<i, b>>] > pending[p][<<i, b>>] =>
              sock[p] = "open" /\ ~choked[p] /\ i \in bitfield[p].has]_vars

-----------------------------------------------------------------------------
(* Finished pieces.                                                        *)

\* With one remote, or remotes that never close, a piece announced to the other
\* peers has, and keeps, all of its blocks as the torrent file's hash wants them.
AnnouncedIntact ==
    \A i \in verified, b \in Blocks : piece[i].count = NumBlocks /\ piece[i].data[b] = "good"

\* A piece announced to the other peers is on its way to the disk.
AnnouncedSaved == verified \subseteq saved

\* A connection lets go of a piece only when it announced it or gave it back.
HeldPieceGivenBack ==
    [][\A p \in Peers :
          curr[p] # NoPiece /\ curr'[p] # curr[p] =>
              curr[p] \in verified' \cup lost' \/ InQueue(wq', curr[p])]_vars

-----------------------------------------------------------------------------
(* The wake-up.                                                            *)

\* peer_connection.cpp:256, "wake up thread to ask for new block": a connection in
\* the middle of a piece asks for all of it in the end.
AsksForNewBlock ==
    \A p \in Peers, i \in Pieces :
        (curr[p] = i /\ piece[i].requested < NumBlocks) ~> piece[i].requested = NumBlocks

-----------------------------------------------------------------------------
(* Fairness.  uv_run runs a pending uv_async_t and a connection that is     *)
(* established; the rest is the swarm the liveness property assumes:        *)
(* remotes that complete the handshake, tell what they have, unchoke and    *)
(* answer every request.                                                    *)
FairSpec ==
    /\ Spec
    /\ WF_vars(TryDownload)
    /\ \A p \in Peers :
          /\ WF_vars(Connect(p)) /\ WF_vars(Handshake(p))
          /\ WF_vars(HandleBitfield(p)) /\ WF_vars(HandleUnchoke(p))
          /\ WF_vars(\E i \in Pieces, b \in Blocks : HandlePiece(p, i, b, "good"))

\* Every piece is announced and handed to save_piece in the end.
EventuallyDownloaded == <>(verified = Pieces /\ saved = Pieces)
=============================================================================
