--------------------------- MODULE DownloadProofs ---------------------------
(***************************************************************************)
(* Proofs about Download: type correctness, SchedulerConsistent,           *)
(* EveryPieceAccounted and HeldPieceGivenBack, for any number of peers,    *)
(* pieces and blocks, and any limit of requests.                           *)
(***************************************************************************)
EXTENDS Download, TLAPS

\* The constants of the state space.
USE DEF Pieces, NoPiece, BadIndex, Index, Req, Blocks, Cell

\* piece: the operators of module Piece keep the type of a piece.
LEMMA NewPieceType == NewPiece \in PieceType
BY PieceAssumption DEF NewPiece, PieceType

\* handle_piece: a piece with one block more is a piece.
LEMMA BlockArrivedType ==
    ASSUME NEW x \in PieceType, NEW b \in Blocks, NEW d \in {"good", "bad"}
    PROVE  BlockArrived(x, b, d) \in PieceType
<1>1. IncomingBlock(x, b, d) \in PieceType
  BY PieceAssumption DEF IncomingBlock, PieceType
<1> QED
  BY <1>1 DEF BlockArrived, PieceType

\* piece::reset: a reset piece is a piece.
LEMMA ResetPieceType ==
    ASSUME NEW x \in PieceType
    PROVE  ResetPiece(x) \in PieceType
BY PieceAssumption DEF ResetPiece, PieceType

\* The request loop of fetch_piece never requests past the end of the piece.
LEMMA RequestType ==
    ASSUME NEW x \in PieceType
    PROVE  Request(x, MAX_BACKLOG) \in PieceType
<1>1. /\ ToRequest(x, MAX_BACKLOG) \in Nat
      /\ x.requested + ToRequest(x, MAX_BACKLOG) \in 0 .. NumBlocks
  BY PieceAssumption, DownloadAssumption DEF ToRequest, PieceType
<1> QED
  BY <1>1 DEF Request, PieceType

\* m_work_queue: push and pop keep its type and lose no other element.
QueueType == [items : Seq(Index), debt : Nat]

\* push keeps the queue a queue of indices.
LEMMA PushType ==
    ASSUME NEW w \in QueueType, NEW i \in Index
    PROVE  Push(w, i) \in QueueType
<1>1. CASE w.debt > 0
  BY <1>1 DEF Push, QueueType
<1>2. CASE ~(w.debt > 0)
  BY <1>2 DEF Push, QueueType
<1> QED
  BY <1>1, <1>2

\* pop keeps it one too, on the empty queue by counting the debt.
LEMMA PopType ==
    ASSUME NEW w \in QueueType
    PROVE  Pop(w) \in QueueType
BY DEF Pop, QueueType

\* front() is an index, on the empty queue any of them.
LEMMA FrontsType ==
    ASSUME NEW w \in QueueType
    PROVE  Fronts(w) \subseteq Index
BY DownloadAssumption DEF Fronts, QueueType

\* push drops nothing that is in the queue.
LEMMA PushKeeps ==
    ASSUME NEW w \in QueueType, NEW i \in Index, NEW j, InQueue(w, j)
    PROVE  InQueue(Push(w, i), j)
BY DEF Push, QueueType, InQueue

\* push puts its element into the queue, or debt swallows it.
LEMMA PushAdds ==
    ASSUME NEW w \in QueueType, NEW i \in Index
    PROVE  InQueue(Push(w, i), i) \/ i \in Swallowed(w, i)
<1>1. CASE w.debt > 0
  BY <1>1 DEF Swallowed
<1>2. CASE ~(w.debt > 0)
  <2>1. Push(w, i).items = Append(w.items, i)
    BY <1>2 DEF Push, QueueType
  <2> QED
    BY <2>1 DEF InQueue, QueueType
<1> QED
  BY <1>1, <1>2

\* pop takes the head and leaves every other element.
LEMMA PopKeeps ==
    ASSUME NEW w \in QueueType, NEW j, InQueue(w, j), j # Head(w.items)
    PROVE  InQueue(Pop(w), j)
<1>1. PICK n \in DOMAIN w.items : w.items[n] = j
  BY DEF InQueue
<1>2. w.items \in Seq(Index) /\ w.items # <<>>
  BY <1>1 DEF QueueType
<1>3. n \in 1 .. Len(w.items) /\ n # 1
  BY <1>1, <1>2
<1>4. n - 1 \in DOMAIN Tail(w.items) /\ Tail(w.items)[n - 1] = j
  BY <1>1, <1>2, <1>3
<1>5. Pop(w).items = Tail(w.items)
  BY <1>2 DEF Pop, QueueType
<1> QED
  BY <1>4, <1>5 DEF InQueue

\* The queue stays free of debt while it has elements.
QueueOK(w) == w.debt > 0 => w.items = <<>>

\* push makes no debt and adds no element to a queue in debt.
LEMMA PushOK ==
    ASSUME NEW w \in QueueType, NEW i \in Index, QueueOK(w)
    PROVE  QueueOK(Push(w, i)) /\ (w.debt = 0 => Push(w, i).debt = 0)
BY DEF Push, QueueType, QueueOK

\* pop makes debt on the empty queue only.
LEMMA PopOK ==
    ASSUME NEW w \in QueueType, QueueOK(w)
    PROVE  QueueOK(Pop(w)) /\ (w.items # <<>> => Pop(w).debt = 0)
BY DEF Pop, QueueType, QueueOK
-----------------------------------------------------------------------------
(* Type correctness.                                                       *)

\* session::start leaves every variable with its type.
THEOREM InitType == Init => TypeOK
<1> SUFFICES ASSUME Init PROVE TypeOK
  OBVIOUS
<1>1. wq \in [items : Seq(Index), debt : Nat]
  <2>1. [i \in 1 .. NumPieces |-> i - 1] \in Seq(Index)
    BY DownloadAssumption
  <2> QED
    BY <2>1 DEF Init
<1>2. piece \in [Pieces -> PieceType]
  BY NewPieceType DEF Init
<1>3. pending \in [Peers -> [Req -> Nat]]
  BY DEF Init
<1> QED
  BY <1>1, <1>2, <1>3 DEF Init, TypeOK

\* What fetch_piece may change, in its two outcomes.
FetchType ==
    /\ curr' \in [Peers -> Pieces \cup {NoPiece}]
    /\ pending' \in [Peers -> [Req -> Nat]]
    /\ wq' \in QueueType
    /\ piece' \in [Pieces -> PieceType]
    /\ lost' \in SUBSET Index

\* fetch_piece keeps the types when it keeps its piece.
LEMMA KeepPieceType ==
    ASSUME TypeOK, NEW p \in Peers, NEW t \in Pieces, NEW w \in QueueType,
           NEW own \in BOOLEAN, KeepPiece(p, t, w, own)
    PROVE  FetchType
<1>1. curr' \in [Peers -> Pieces \cup {NoPiece}] /\ wq' \in QueueType
  BY DEF KeepPiece, TypeOK
<1>2. lost' \in SUBSET Index
  BY DEF KeepPiece, TypeOK, Buried
<1>3. piece' \in [Pieces -> PieceType] /\ pending' \in [Peers -> [Req -> Nat]]
  <2>1. CASE Blocked(p, t)
    BY <2>1 DEF KeepPiece, TypeOK
  <2>2. CASE ~Blocked(p, t)
    <3>1. SendRequests(p, t)
      BY <2>2 DEF KeepPiece
    <3>2. Request(piece[t], MAX_BACKLOG) \in PieceType
      BY RequestType DEF TypeOK
    <3>3. piece' \in [Pieces -> PieceType]
      BY <3>1, <3>2 DEF SendRequests, TypeOK
    <3>4. pending' \in [Peers -> [Req -> Nat]]
      <4> DEFINE g == [r \in Req |->
                         IF sock[p] = "open" /\ r[1] = t /\ Asked(piece[t], r[2])
                         THEN pending[p][r] + 1 ELSE pending[p][r]]
      <4>1. pending[p] \in [Req -> Nat]
        BY DEF TypeOK
      <4>2. g \in [Req -> Nat]
        BY <4>1
      <4>3. pending' = [pending EXCEPT ![p] = g]
        BY <3>1 DEF SendRequests
      <4> HIDE DEF g
      <4> QED
        BY <4>2, <4>3 DEF TypeOK
    <3> QED
      BY <3>3, <3>4
  <2> QED
    BY <2>1, <2>2
<1> QED
  BY <1>1, <1>2, <1>3 DEF FetchType

\* fetch_piece keeps the types when it puts a piece with a wrong hash back.
LEMMA RejectPieceType ==
    ASSUME TypeOK, NEW p \in Peers, NEW t \in Pieces, NEW w \in QueueType,
           RejectPiece(p, t, w)
    PROVE  FetchType
<1>1. wq' \in QueueType
  BY PushType DEF RejectPiece
<1>2. lost' \in SUBSET Index
  BY DEF RejectPiece, TypeOK, Swallowed
<1> QED
  BY <1>1, <1>2 DEF RejectPiece, TypeOK, FetchType

\* The params of a wake-up, and the piece and the queue fetch_piece works with.
LEMMA TargetType ==
    ASSUME TypeOK, NEW m \in wake
    PROVE  /\ m.peer \in Peers /\ m.index \in Index /\ m.own \in BOOLEAN
           /\ Target(m) \in Index
           /\ wq \in QueueType /\ QueueAfter(m) \in QueueType
<1>1. m.peer \in Peers /\ m.index \in Index /\ m.own \in BOOLEAN /\ wq \in QueueType
  BY DEF TypeOK, WakeParams, QueueType
<1>2. Target(m) \in Index
  BY <1>1 DEF Target, Busy, TypeOK
<1>3. QueueAfter(m) \in QueueType
  BY <1>1, PushType DEF QueueAfter
<1> QED
  BY <1>1, <1>2, <1>3

\* What a replaced wake-up loses are indices.
LEMMA OverwrittenType ==
    ASSUME TypeOK
    PROVE  Overwritten \in SUBSET Index
<1>1. \A m \in wake : m.index \in Index
  BY DEF TypeOK, WakeParams
<1> QED
  BY <1>1 DEF Overwritten

\* try_download keeps the types, in each of its four outcomes.
LEMMA TryDownloadType ==
    ASSUME TypeOK, TryDownload
    PROVE  TypeOK'
<1>1. PICK m \in wake :
        \/ Requeue(m)
        \/ FetchPiece(m) \/ FinishPiece(m) \/ AbortOnIndex(m)
  BY DEF TryDownload
<1>2. wake' = {} /\ UNCHANGED peerVars
  BY DEF TryDownload
<1>3. SUFFICES /\ FetchType
               /\ verified' \in SUBSET Pieces /\ saved' \in SUBSET Pieces
               /\ aborted' \in BOOLEAN
  BY <1>2 DEF TypeOK, peerVars, FetchType, QueueType
<1>4. CASE Requeue(m)
  <2>1. wq' \in QueueType
    BY <1>4, TargetType, PushType DEF Requeue
  <2> QED
    BY <1>4, <2>1 DEF Requeue, TypeOK, FetchType, history
<1>5. CASE FetchPiece(m)
  <2>1. Target(m) \in Pieces /\ m.peer \in Peers /\ QueueAfter(m) \in QueueType
        /\ (~Busy(m) /\ m.own) \in BOOLEAN
    BY <1>5, TargetType DEF FetchPiece
  <2>2. FetchType
    BY <1>5, <2>1, KeepPieceType, RejectPieceType DEF FetchPiece
  <2> QED
    BY <1>5, <2>2 DEF FetchPiece, TypeOK
<1>6. CASE FinishPiece(m)
  <2> DEFINE w == QueueAfter(m)
  <2>1. Target(m) \in Pieces /\ m.peer \in Peers /\ w \in QueueType /\ Pop(w) \in QueueType
        /\ (w.items # <<>>) \in BOOLEAN
    BY <1>6, TargetType, PopType DEF FinishPiece
  <2>2. saved' \in SUBSET Pieces
    BY <1>6, <2>1 DEF FinishPiece, TypeOK
  <2>3. PICK next \in Fronts(w) :
          \/ /\ next \in Pieces
             /\ KeepPiece(m.peer, next, Pop(w), w.items # <<>>) \/ RejectPiece(m.peer, next, Pop(w))
             /\ verified' = verified \cup {Target(m)}
             /\ UNCHANGED aborted
          \/ /\ next \in Pieces
             /\ curr' = [curr EXCEPT ![m.peer] = NoPiece]
             /\ wq' = Pop(w)
             /\ verified' = verified \cup {Target(m), next}
             /\ UNCHANGED <<piece, pending, lost, aborted>>
          \/ /\ curr' = [curr EXCEPT ![m.peer] = NoPiece]
             /\ wq' = Pop(w)
             /\ verified' = verified \cup {Target(m)}
             /\ aborted' = TRUE
             /\ UNCHANGED <<piece, pending, lost>>
    BY <1>6 DEF FinishPiece
  <2> HIDE DEF w
  <2>4. CASE /\ next \in Pieces
             /\ KeepPiece(m.peer, next, Pop(w), w.items # <<>>) \/ RejectPiece(m.peer, next, Pop(w))
             /\ verified' = verified \cup {Target(m)}
             /\ UNCHANGED aborted
    <3>1. FetchType
      BY <2>1, <2>4, KeepPieceType, RejectPieceType
    <3> QED
      BY <2>1, <2>2, <2>4, <3>1 DEF TypeOK
  <2>5. CASE /\ next \in Pieces
             /\ curr' = [curr EXCEPT ![m.peer] = NoPiece]
             /\ wq' = Pop(w)
             /\ verified' = verified \cup {Target(m), next}
             /\ UNCHANGED <<piece, pending, lost, aborted>>
    BY <2>1, <2>2, <2>5 DEF TypeOK, FetchType
  <2>6. CASE /\ curr' = [curr EXCEPT ![m.peer] = NoPiece]
             /\ wq' = Pop(w)
             /\ verified' = verified \cup {Target(m)}
             /\ aborted' = TRUE
             /\ UNCHANGED <<piece, pending, lost>>
    BY <2>1, <2>2, <2>6 DEF TypeOK, FetchType
  <2> QED
    BY <2>3, <2>4, <2>5, <2>6
<1>7. CASE AbortOnIndex(m)
  BY <1>7 DEF AbortOnIndex, TypeOK, FetchType, QueueType, history
<1> QED
  BY <1>1, <1>4, <1>5, <1>6, <1>7

\* do_message keeps the types, whichever handler it calls.
LEMMA ReceiveType ==
    ASSUME TypeOK, NEW p \in Peers, Receive(p)
    PROVE  TypeOK'
<1>1. CASE HandleBitfield(p)
  <2>1. bitfield' \in [Peers -> [known : BOOLEAN, has : SUBSET Pieces]]
    BY <1>1, DownloadAssumption DEF HandleBitfield, TypeOK
  <2> QED
    BY <1>1, <2>1 DEF HandleBitfield, TypeOK, history
<1>2. CASE HandleUnchoke(p)
  <2>1. PICK i \in Fronts(wq) : Send(p, i, wq.items # <<>>)
    BY <1>2 DEF HandleUnchoke
  <2>2. wq \in QueueType /\ wq' \in QueueType /\ i \in Index
    BY <1>2, PopType, FrontsType DEF HandleUnchoke, TypeOK, QueueType
  <2>3. wake' \in SUBSET WakeParams
    BY <2>1, <2>2 DEF Send, WakeParams
  <2>4. lost' \in SUBSET Index
    BY <1>2, OverwrittenType DEF HandleUnchoke, TypeOK
  <2>5. unchokes' \in [Peers -> Nat] /\ choked' \in [Peers -> BOOLEAN]
    BY <1>2 DEF HandleUnchoke, TypeOK
  <2> QED
    BY <1>2, <2>2, <2>3, <2>4, <2>5 DEF HandleUnchoke, TypeOK, QueueType
<1>3. CASE HandleChoke(p)
  <2>1. pending' \in [Peers -> [Req -> Nat]]
    <3>1. PICK kept \in SUBSET {r \in Req : pending[p][r] > 0} :
            pending' = [pending EXCEPT ![p] = [r \in Req |-> IF r \in kept THEN pending[p][r] ELSE 0]]
      BY <1>3 DEF HandleChoke
    <3>2. [r \in Req |-> IF r \in kept THEN pending[p][r] ELSE 0] \in [Req -> Nat]
      BY DEF TypeOK
    <3> QED
      BY <3>1, <3>2 DEF TypeOK
  <2> QED
    BY <1>3, <2>1 DEF HandleChoke, TypeOK, history
<1>4. ASSUME NEW i \in Pieces, NEW b \in Blocks, NEW d \in {"good", "bad"}, HandlePiece(p, i, b, d)
      PROVE  TypeOK'
  <2>1. pending' \in [Peers -> [Req -> Nat]]
    <3>1. <<i, b>> \in Req /\ pending[p] \in [Req -> Nat] /\ pending[p][<<i, b>>] > 0
      BY <1>4 DEF HandlePiece, TypeOK
    <3>2. pending[p][<<i, b>>] - 1 \in Nat
      BY <3>1
    <3>3. pending' = [pending EXCEPT ![p][<<i, b>>] = pending[p][<<i, b>>] - 1]
      BY <1>4 DEF HandlePiece
    <3> QED
      BY <3>1, <3>2, <3>3 DEF TypeOK
  <2>2. piece' \in [Pieces -> PieceType]
    <3>1. piece[i] \in PieceType
      BY DEF TypeOK
    <3>2. BlockArrived(piece[i], b, d) \in PieceType
      BY <3>1, BlockArrivedType
    <3>3. piece' = [piece EXCEPT ![i] = BlockArrived(piece[i], b, d)]
      BY <1>4 DEF HandlePiece
    <3> QED
      BY <3>2, <3>3 DEF TypeOK
  <2>3. wake' \in SUBSET WakeParams
    BY <1>4 DEF HandlePiece, Send, WakeParams
  <2>4. lost' \in SUBSET Index
    BY <1>4, OverwrittenType DEF HandlePiece, TypeOK
  <2> QED
    BY <1>4, <2>1, <2>2, <2>3, <2>4 DEF HandlePiece, TypeOK, peerVars
<1> QED
  BY <1>1, <1>2, <1>3, <1>4 DEF Receive

\* Every callback of the loop keeps the types.
THEOREM NextType == TypeOK /\ [Next]_vars => TypeOK'
<1> SUFFICES ASSUME TypeOK, [Next]_vars PROVE TypeOK'
  OBVIOUS
<1>1. CASE TryDownload
  BY <1>1, TryDownloadType
<1>2. ASSUME NEW p \in Peers, Connect(p) PROVE TypeOK'
  BY <1>2 DEF Connect, TypeOK, history
<1>3. ASSUME NEW p \in Peers, Handshake(p) PROVE TypeOK'
  BY <1>3 DEF Handshake, TypeOK, history
<1>4. ASSUME NEW p \in Peers, Receive(p) PROVE TypeOK'
  BY <1>4, ReceiveType
<1>5. ASSUME NEW p \in Peers, OnRemoteClose(p) PROVE TypeOK'
  <2>1. CASE curr[p] = NoPiece
    BY <1>5, <2>1 DEF OnRemoteClose, TypeOK
  <2>2. CASE curr[p] # NoPiece
    <3>1. curr[p] \in Pieces /\ curr[p] \in Index /\ wq \in QueueType
      BY <2>2 DEF TypeOK, QueueType
    <3>2. wq' \in QueueType
      BY <1>5, <2>2, <3>1, PushType DEF OnRemoteClose
    <3>3. piece' \in [Pieces -> PieceType]
      <4>1. ResetPiece(piece[curr[p]]) \in PieceType
        BY <3>1, ResetPieceType DEF TypeOK
      <4> QED
        BY <1>5, <2>2, <3>1, <4>1 DEF OnRemoteClose, TypeOK
    <3>4. lost' \in SUBSET Index
      <4>1. lost' = lost \cup Swallowed(wq, curr[p])
        BY <1>5, <2>2 DEF OnRemoteClose
      <4>2. lost \in SUBSET Index
        BY DEF TypeOK
      <4> QED
        BY <3>1, <4>1, <4>2 DEF Swallowed
    <3>5. /\ sock' \in [Peers -> {"none", "open", "closed"}] /\ active' \in [Peers -> BOOLEAN]
          /\ pending' \in [Peers -> [Req -> Nat]]
      BY <1>5, <2>2 DEF OnRemoteClose, TypeOK
    <3>6. UNCHANGED <<choked, bitfield, unchokes, curr, wake, verified, saved, aborted>>
      BY <1>5 DEF OnRemoteClose
    <3> QED
      BY <3>2, <3>3, <3>4, <3>5, <3>6 DEF TypeOK, QueueType
  <2> QED
    BY <2>1, <2>2
<1>6. CASE UNCHANGED vars
  BY <1>6 DEF vars, peerVars, history, TypeOK
<1> QED
  BY <1>1, <1>2, <1>3, <1>4, <1>5, <1>6 DEF Next

\* The scheduler is type correct: no piece requests more blocks than it has, a
\* connection holds a piece or none, and the queue holds indices only.
THEOREM TypeCorrect == Spec => []TypeOK
BY InitType, NextType, PTL DEF Spec

-----------------------------------------------------------------------------
(* SchedulerConsistent.                                                    *)

\* What try_download leaves behind, whichever way it goes: the queue is in debt
\* only when it is empty, and only the connection of the wake-up has changed the
\* piece it holds.
Tidy(p) == QueueOK(wq') /\ \A q \in Peers \ {p} : curr'[q] = curr[q]

\* fetch_piece leaves the queue tidy and the other connections' pieces alone.
LEMMA FetchTidy ==
    ASSUME TypeOK, NEW p \in Peers, NEW t \in Pieces, NEW w \in QueueType, QueueOK(w),
           NEW own, KeepPiece(p, t, w, own) \/ RejectPiece(p, t, w)
    PROVE  Tidy(p)
<1>1. CASE KeepPiece(p, t, w, own)
  BY <1>1 DEF KeepPiece, Tidy, TypeOK
<1>2. CASE RejectPiece(p, t, w)
  <2>1. QueueOK(wq')
    BY <1>2, PushOK DEF RejectPiece
  <2> QED
    BY <1>2, <2>1 DEF RejectPiece, Tidy, TypeOK
<1> QED
  BY <1>1, <1>2

\* try_download does, in each of its four outcomes.
LEMMA TryDownloadTidy ==
    ASSUME TypeOK, QueueOK(wq), NEW m \in wake, TryDownload, wake = {m}
    PROVE  Tidy(m.peer)
<1>1. Requeue(m) \/ FetchPiece(m) \/ FinishPiece(m) \/ AbortOnIndex(m)
  BY DEF TryDownload
<1>2. /\ m.peer \in Peers /\ m.index \in Index /\ wq \in QueueType
      /\ QueueAfter(m) \in QueueType /\ QueueOK(QueueAfter(m))
  BY TargetType, PushOK DEF QueueAfter
<1>3. CASE Requeue(m)
  BY <1>2, <1>3, PushOK DEF Requeue, Tidy
<1>4. CASE FetchPiece(m)
  BY <1>2, <1>4, FetchTidy DEF FetchPiece
<1>5. CASE FinishPiece(m)
  <2> DEFINE w == QueueAfter(m)
  <2>1. Pop(w) \in QueueType /\ QueueOK(Pop(w))
    BY <1>2, PopType, PopOK
  <2>2. PICK next \in Fronts(w) :
          \/ /\ next \in Pieces
             /\ KeepPiece(m.peer, next, Pop(w), w.items # <<>>) \/ RejectPiece(m.peer, next, Pop(w))
          \/ curr' = [curr EXCEPT ![m.peer] = NoPiece] /\ wq' = Pop(w)
    BY <1>5 DEF FinishPiece
  <2> HIDE DEF w
  <2>3. CASE /\ next \in Pieces
             /\ KeepPiece(m.peer, next, Pop(w), w.items # <<>>) \/ RejectPiece(m.peer, next, Pop(w))
    BY <1>2, <2>1, <2>3, FetchTidy
  <2>4. CASE curr' = [curr EXCEPT ![m.peer] = NoPiece] /\ wq' = Pop(w)
    BY <1>2, <2>1, <2>4 DEF Tidy, TypeOK
  <2> QED
    BY <2>2, <2>3, <2>4
<1>6. CASE AbortOnIndex(m)
  BY <1>6 DEF AbortOnIndex, Tidy
<1> QED
  BY <1>1, <1>3, <1>4, <1>5, <1>6

\* session::start leaves the queue without debt and no wake-up pending.
THEOREM InitConsistent == Init => SchedulerConsistent
BY DEF Init, SchedulerConsistent, Unstarted

\* Every callback of the loop keeps the queue and the wake-up consistent.
THEOREM NextConsistent == TypeOK /\ SchedulerConsistent /\ [Next]_vars => SchedulerConsistent'
<1> SUFFICES ASSUME TypeOK, SchedulerConsistent, [Next]_vars PROVE SchedulerConsistent'
  OBVIOUS
<1> USE DEF SchedulerConsistent
<1>0. QueueOK(wq) /\ wq \in QueueType
  BY DEF QueueOK, TypeOK, QueueType
<1>1. CASE TryDownload
  <2>1. PICK m \in wake : wake = {m} /\ ~Unstarted(m.peer)
    BY <1>1 DEF TryDownload
  <2>2. Tidy(m.peer)
    BY <1>0, <1>1, <2>1, TryDownloadTidy
  <2>3. wake' = {} /\ UNCHANGED peerVars
    BY <1>1 DEF TryDownload
  <2> QED
    BY <2>1, <2>2, <2>3 DEF Tidy, QueueOK, Unstarted, peerVars
<1>2. ASSUME NEW p \in Peers, Connect(p) PROVE SchedulerConsistent'
  BY <1>2 DEF Connect, TypeOK, Unstarted, WakeParams
<1>3. ASSUME NEW p \in Peers, Handshake(p) PROVE SchedulerConsistent'
  BY <1>3 DEF Handshake, Running, TypeOK, Unstarted, WakeParams
<1>4. ASSUME NEW p \in Peers, HandleBitfield(p) PROVE SchedulerConsistent'
  BY <1>4 DEF HandleBitfield, Unstarted
<1>5. ASSUME NEW p \in Peers, HandleUnchoke(p) PROVE SchedulerConsistent'
  <2>1. PICK i \in Fronts(wq) : wake' = {[peer |-> p, index |-> i, own |-> wq.items # <<>>]}
    BY <1>5 DEF HandleUnchoke, Send
  <2>2. wq' = Pop(wq) /\ sock[p] = "open" /\ active[p]
    BY <1>5 DEF HandleUnchoke, Ready, Running
  <2>3. QueueOK(wq') /\ (wq.items # <<>> => wq'.debt = 0)
    BY <1>0, <2>2, PopOK
  <2>4. UNCHANGED <<sock, active, curr>> /\ \A q \in Peers \ {p} : choked'[q] = choked[q]
    BY <1>5 DEF HandleUnchoke, TypeOK
  <2>5. \A m \in wake' : m.own => wq'.debt = 0
    <3>1. CASE wq.items = <<>>
      <4>1. wake' = {[peer |-> p, index |-> i, own |-> FALSE]}
        BY <2>1, <3>1 DEF TypeOK
      <4> QED
        BY <4>1
    <3>2. CASE wq.items # <<>>
      BY <2>1, <2>3, <3>2
    <3> QED
      BY <3>1, <3>2
  <2>6. \A m \in wake' : wake' = {m} /\ m.peer = p
    BY <2>1
  <2> QED
    BY <2>2, <2>3, <2>4, <2>5, <2>6 DEF QueueOK, Unstarted
<1>6. ASSUME NEW p \in Peers, HandleChoke(p) PROVE SchedulerConsistent'
  BY <1>6 DEF HandleChoke, TypeOK, Unstarted
<1>7. ASSUME NEW p \in Peers, NEW i \in Pieces, NEW b \in Blocks, NEW d \in {"good", "bad"},
             HandlePiece(p, i, b, d)
      PROVE  SchedulerConsistent'
  <2>1. wake' = {[peer |-> p, index |-> i, own |-> FALSE]} /\ ~choked[p]
    BY <1>7 DEF HandlePiece, Send
  <2> QED
    BY <1>7, <2>1 DEF HandlePiece, peerVars, Unstarted
<1>8. ASSUME NEW p \in Peers, OnRemoteClose(p) PROVE SchedulerConsistent'
  <2>1. QueueOK(wq') /\ (wq.debt = 0 => wq'.debt = 0)
    <3>1. CASE curr[p] = NoPiece
      BY <1>0, <1>8, <3>1 DEF OnRemoteClose
    <3>2. CASE curr[p] # NoPiece
      <4>1. curr[p] \in Index /\ wq' = Push(wq, curr[p])
        BY <1>8, <3>2 DEF OnRemoteClose, TypeOK
      <4> QED
        BY <1>0, <4>1, PushOK
    <3> QED
      BY <3>1, <3>2
  <2>2. /\ sock' = [sock EXCEPT ![p] = "closed"] /\ UNCHANGED <<choked, curr, wake>>
        /\ \A q \in Peers \ {p} : active'[q] = active[q]
    BY <1>8 DEF OnRemoteClose, TypeOK
  <2>3. \A m \in wake : m.peer \in Peers
    BY DEF TypeOK, WakeParams
  <2> QED
    BY <2>1, <2>2, <2>3 DEF QueueOK, Unstarted, TypeOK
<1>9. CASE UNCHANGED vars
  BY <1>9 DEF vars, peerVars, history, Unstarted
<1> QED
  BY <1>1, <1>2, <1>3, <1>4, <1>5, <1>6, <1>7, <1>8, <1>9 DEF Next, Receive

\* The queue is in debt only while it is empty, at most one wake-up is pending,
\* and a wake-up that carries a popped index excludes debt: in every run.
THEOREM Consistent == Spec => []SchedulerConsistent
<1>1. TypeOK /\ SchedulerConsistent /\ [Next]_vars => (TypeOK /\ SchedulerConsistent)'
  BY NextType, NextConsistent
<1> QED
  BY InitType, InitConsistent, <1>1, PTL DEF Spec

-----------------------------------------------------------------------------
(* The pool of pieces: every step is a step of PiecePool.                  *)

\* Where a piece can be after a step of connection p that had it or took it.
Settled(p, i) == i \in verified' \cup lost' \/ i \in Waiting' \/ Hand(p)' = i

\* A step of connection p as PiecePool sees it.
Moves(p) ==
    /\ verified \subseteq verified' /\ lost \subseteq lost'
    /\ \A q \in Peers \ {p} : Hand(q)' = Hand(q)
    /\ \A i \in Pieces : i \in Waiting \/ Hand(p) = i => Settled(p, i)

\* A piece in the queue after the step is settled.
LEMMA QueuedSettled ==
    ASSUME NEW p \in Peers, NEW i \in Pieces, InQueue(wq', i)
    PROVE  Settled(p, i)
BY DEF Settled, Waiting

\* fetch_piece loses nothing that is in the queue it works with, and the piece it
\* takes is settled, unless a closed connection takes what was never its own.
LEMMA FetchSettles ==
    ASSUME TypeOK, NEW p \in Peers, NEW t \in Pieces, NEW w \in QueueType, NEW own \in BOOLEAN,
           KeepPiece(p, t, w, own) \/ RejectPiece(p, t, w), UNCHANGED sock
    PROVE  /\ lost \subseteq lost'
           /\ \A j : InQueue(w, j) => InQueue(wq', j)
           /\ own \/ sock[p] = "open" \/ RejectPiece(p, t, w) => Settled(p, t)
<1>1. CASE KeepPiece(p, t, w, own)
  <2>1. wq' = w /\ lost' = lost \cup Buried(p, t, own) /\ curr'[p] = t
    BY <1>1 DEF KeepPiece, TypeOK
  <2>2. CASE sock[p] = "open"
    BY <2>1, <2>2 DEF Settled, Hand
  <2>3. CASE sock[p] # "open" /\ own
    BY <2>1, <2>3 DEF Settled, Buried
  <2>4. ~RejectPiece(p, t, w) \/ Settled(p, t)
    BY <1>1 DEF KeepPiece, RejectPiece, Complete
  <2> QED
    BY <2>1, <2>2, <2>3, <2>4
<1>2. CASE RejectPiece(p, t, w)
  <2>1. wq' = Push(w, t) /\ lost' = lost \cup Swallowed(w, t) /\ t \in Index
    BY <1>2 DEF RejectPiece
  <2>2. InQueue(wq', t) \/ t \in lost'
    BY <2>1, PushAdds
  <2> QED
    BY <2>1, <2>2, PushKeeps, QueuedSettled DEF Settled
<1> QED
  BY <1>1, <1>2

\* An index popped for this wake-up is back in the queue if the connection has a
\* piece already, and is the one it goes on with if it has none.
LEMMA CarriedPlaced ==
    ASSUME TypeOK, SchedulerConsistent, NEW m \in wake, NEW i \in Pieces, Carried(i)
    PROVE  /\ m.own /\ m.index = i
           /\ IF Busy(m) THEN InQueue(QueueAfter(m), i) ELSE Target(m) = i
           /\ InQueue(Push(wq, i), i)
<1>1. wake = {m} /\ (m.own => wq.debt = 0)
  BY DEF SchedulerConsistent
<1>2. m.own /\ m.index = i
  BY <1>1 DEF Carried
<1>3. InQueue(Push(wq, i), i)
  BY <1>1, <1>2, TargetType, PushAdds DEF Swallowed
<1> QED
  BY <1>2, <1>3 DEF QueueAfter, Target, Busy

\* What is in the queue stays there while the connection pushes an index back.
LEMMA QueuedStays ==
    ASSUME TypeOK, NEW m \in wake, NEW i, InQueue(wq, i)
    PROVE  InQueue(QueueAfter(m), i) /\ InQueue(Push(wq, m.index), i)
BY TargetType, PushKeeps DEF QueueAfter

\* Every piece the wake-up carries, or the queue held, and the piece in the hand of
\* the connection, is in the queue fetch_piece works with, or is what it goes on
\* with: while the connection is open, or the index was popped for it.
LEMMA Placed ==
    ASSUME TypeOK, SchedulerConsistent, NEW m \in wake, NEW i \in Pieces,
           i \in Waiting \/ Hand(m.peer) = i
    PROVE  \/ InQueue(QueueAfter(m), i)
           \/ Target(m) = i /\ (sock[m.peer] = "open" \/ (~Busy(m) /\ m.own))
<1>1. CASE InQueue(wq, i)
  BY <1>1, QueuedStays
<1>2. CASE Carried(i)
  BY <1>2, CarriedPlaced
<1>3. CASE Hand(m.peer) = i
  BY <1>3 DEF Hand, Target, Busy
<1> QED
  BY <1>1, <1>2, <1>3 DEF Waiting

\* try_download settles every piece: what the wake-up carried, what the queue held
\* and what its connection held.
LEMMA TryDownloadMoves ==
    ASSUME TypeOK, SchedulerConsistent, TryDownload
    PROVE  \E p \in Peers : Moves(p)
<1>1. PICK m \in wake : Requeue(m) \/ FetchPiece(m) \/ FinishPiece(m) \/ AbortOnIndex(m)
  BY DEF TryDownload
<1>2. Tidy(m.peer) /\ UNCHANGED sock
  BY TryDownloadTidy DEF SchedulerConsistent, QueueOK, TryDownload, peerVars
<1>3. /\ m.peer \in Peers /\ m.own \in BOOLEAN
      /\ QueueAfter(m) \in QueueType
  BY TargetType
<1>4. \A q \in Peers \ {m.peer} : Hand(q)' = Hand(q)
  BY <1>2 DEF Tidy, Hand
<1>5. SUFFICES /\ verified \subseteq verified' /\ lost \subseteq lost'
               /\ \A i \in Pieces : i \in Waiting \/ Hand(m.peer) = i => Settled(m.peer, i)
  BY <1>3, <1>4 DEF Moves
<1>6. CASE Requeue(m)
  <2>1. wq' = Push(wq, m.index) /\ UNCHANGED <<curr, verified, lost>>
    BY <1>6 DEF Requeue, history
  <2>2. ASSUME NEW i \in Pieces, i \in Waiting PROVE InQueue(wq', i)
    BY <2>1, <2>2, QueuedStays, CarriedPlaced DEF Waiting
  <2>3. Hand(m.peer)' = Hand(m.peer)
    BY <1>2, <2>1 DEF Hand
  <2> QED
    BY <1>3, <2>1, <2>2, <2>3, QueuedSettled DEF Settled
<1>7. CASE FetchPiece(m)
  <2> DEFINE own == ~Busy(m) /\ m.own
  <2>1. /\ Target(m) \in Pieces /\ verified' = verified /\ own \in BOOLEAN
        /\ \/ KeepPiece(m.peer, Target(m), QueueAfter(m), own)
           \/ RejectPiece(m.peer, Target(m), QueueAfter(m))
    BY <1>7 DEF FetchPiece
  <2>2. /\ lost \subseteq lost'
        /\ \A j : InQueue(QueueAfter(m), j) => InQueue(wq', j)
        /\ own \/ sock[m.peer] = "open" => Settled(m.peer, Target(m))
    <3> HIDE DEF own
    <3> QED
      BY <1>2, <1>3, <2>1, FetchSettles
  <2> QED
    BY <1>3, <2>1, <2>2, Placed, QueuedSettled
<1>8. CASE FinishPiece(m)
  <2> DEFINE w == QueueAfter(m)
  <2>1. Target(m) \in verified' /\ verified \subseteq verified'
    BY <1>8 DEF FinishPiece
  <2>2. Pop(w) \in QueueType /\ (w.items # <<>>) \in BOOLEAN
    BY <1>3, PopType
  <2>3. PICK next \in Fronts(w) :
          \/ /\ next \in Pieces
             /\ KeepPiece(m.peer, next, Pop(w), w.items # <<>>) \/ RejectPiece(m.peer, next, Pop(w))
          \/ /\ wq' = Pop(w) /\ lost' = lost
             /\ next \in Pieces => next \in verified'
    BY <1>8 DEF FinishPiece
  <2>4. ASSUME NEW i \in Pieces, InQueue(w, i)
        PROVE  w.items # <<>> /\ (i = next \/ InQueue(Pop(w), i))
    <3>1. w.items # <<>>
      BY <1>3, <2>4 DEF InQueue, QueueType
    <3>2. next = Head(w.items)
      BY <3>1 DEF Fronts
    <3> QED
      BY <1>3, <2>4, <3>1, <3>2, PopKeeps
  <2>5. lost \subseteq lost' /\ \A i \in Pieces : InQueue(w, i) => Settled(m.peer, i)
    <3> HIDE DEF w
    <3>1. CASE /\ next \in Pieces
               /\ \/ KeepPiece(m.peer, next, Pop(w), w.items # <<>>)
                  \/ RejectPiece(m.peer, next, Pop(w))
      <4>1. /\ lost \subseteq lost'
            /\ \A j : InQueue(Pop(w), j) => InQueue(wq', j)
            /\ w.items # <<>> => Settled(m.peer, next)
        BY <1>2, <1>3, <2>2, <3>1, FetchSettles
      <4> QED
        BY <1>3, <2>4, <4>1, QueuedSettled
    <3>2. CASE wq' = Pop(w) /\ lost' = lost /\ (next \in Pieces => next \in verified')
      BY <1>3, <2>4, <3>2, QueuedSettled DEF Settled
    <3> QED
      BY <2>3, <3>1, <3>2
  <2> QED
    BY <2>1, <2>5, Placed DEF Settled
<1>9. CASE AbortOnIndex(m)
  <2>1. Target(m) \notin Pieces /\ UNCHANGED <<curr, wq, verified, lost>>
    BY <1>9 DEF AbortOnIndex, history
  <2>2. ~Busy(m)
    BY <1>3, <2>1 DEF Target, Busy, TypeOK
  <2>3. \A i \in Pieces : ~Carried(i)
    BY <2>1, <2>2, CarriedPlaced
  <2>4. \A i \in Pieces : InQueue(wq', i) <=> InQueue(wq, i)
    BY <2>1
  <2>5. Hand(m.peer)' = Hand(m.peer)
    BY <1>2, <2>1 DEF Hand
  <2> QED
    BY <1>3, <2>1, <2>3, <2>4, <2>5, QueuedSettled DEF Settled, Waiting
<1> QED
  BY <1>1, <1>6, <1>7, <1>8, <1>9

\* handle_unchoke takes the head of the queue into the params and drops what the
\* wake-up it replaces had popped.
LEMMA HandleUnchokeMoves ==
    ASSUME TypeOK, NEW p \in Peers, HandleUnchoke(p)
    PROVE  Moves(p)
<1>1. PICK n \in Fronts(wq) : wake' = {[peer |-> p, index |-> n, own |-> wq.items # <<>>]}
  BY DEF HandleUnchoke, Send
<1>2. /\ lost' = lost \cup Overwritten /\ wq' = Pop(wq)
      /\ UNCHANGED <<sock, curr, verified>>
  BY DEF HandleUnchoke
<1>3. wq \in QueueType
  BY DEF TypeOK, QueueType
<1>4. ASSUME NEW i \in Pieces, InQueue(wq, i) PROVE i \in Waiting'
  <2>1. wq.items # <<>>
    BY <1>3, <1>4 DEF InQueue, QueueType
  <2>2. CASE i = n
    <3>1. wake' = {[peer |-> p, index |-> i, own |-> TRUE]}
      BY <1>1, <2>1, <2>2
    <3> QED
      BY <3>1 DEF Waiting, Carried
  <2>3. CASE i # n
    <3>1. n = Head(wq.items)
      BY <2>1 DEF Fronts
    <3>2. InQueue(wq', i)
      BY <1>2, <1>3, <1>4, <2>3, <3>1, PopKeeps
    <3> QED
      BY <3>2 DEF Waiting
  <2> QED
    BY <2>2, <2>3
<1>5. \A i \in Pieces : Carried(i) => i \in lost'
  BY <1>2 DEF Carried, Overwritten
<1>6. \A q \in Peers : Hand(q)' = Hand(q)
  BY <1>2 DEF Hand
<1> QED
  BY <1>2, <1>4, <1>5, <1>6 DEF Moves, Settled, Waiting

\* on_remote_close pushes the piece in the connection's hand.
LEMMA OnRemoteCloseMoves ==
    ASSUME TypeOK, NEW p \in Peers, OnRemoteClose(p)
    PROVE  Moves(p)
<1>1. /\ sock' = [sock EXCEPT ![p] = "closed"]
      /\ UNCHANGED <<curr, wake, verified>>
  BY DEF OnRemoteClose
<1>2. wq \in QueueType
  BY DEF TypeOK, QueueType
<1>3. /\ lost \subseteq lost'
      /\ \A i \in Pieces : /\ InQueue(wq, i) => InQueue(wq', i)
                           /\ curr[p] = i => InQueue(wq', i) \/ i \in lost'
  <2>1. CASE curr[p] = NoPiece
    BY <2>1 DEF OnRemoteClose
  <2>2. CASE curr[p] # NoPiece
    <3>1. /\ curr[p] \in Index /\ wq' = Push(wq, curr[p])
          /\ lost' = lost \cup Swallowed(wq, curr[p])
      BY <2>2 DEF OnRemoteClose, TypeOK
    <3> QED
      BY <1>2, <3>1, PushKeeps, PushAdds
  <2> QED
    BY <2>1, <2>2
<1>4. \A q \in Peers \ {p} : Hand(q)' = Hand(q)
  BY <1>1 DEF Hand, TypeOK
<1>5. \A i \in Pieces : Carried(i) => Carried(i)'
  BY <1>1 DEF Carried
<1>6. \A i \in Pieces : Hand(p) = i => curr[p] = i
  BY DEF Hand
<1> QED
  BY <1>1, <1>3, <1>4, <1>5, <1>6 DEF Moves, Settled, Waiting

\* A step that leaves the queue, the sockets and the pieces held alone, and drops
\* what a wake-up it replaces had popped.
LEMMA OtherMoves ==
    ASSUME NEW p \in Peers, UNCHANGED <<wq, verified>>, lost \subseteq lost',
           \A q \in Peers : Hand(q)' = Hand(q),
           \A i \in Pieces : Carried(i) => i \in lost' \/ Carried(i)'
    PROVE  Moves(p)
<1>1. \A i \in Pieces : InQueue(wq', i) <=> InQueue(wq, i)
  OBVIOUS
<1> QED
  BY <1>1 DEF Moves, Settled, Waiting

\* Every callback is a step of one connection.
LEMMA NextMoves ==
    ASSUME TypeOK, SchedulerConsistent, Next
    PROVE  \E p \in Peers : Moves(p)
<1>1. CASE TryDownload
  BY <1>1, TryDownloadMoves
<1>2. ASSUME NEW p \in Peers, Connect(p) PROVE Moves(p)
  <2>1. curr[p] = NoPiece
    BY <1>2 DEF Connect, SchedulerConsistent, Unstarted
  <2>2. \A q \in Peers : Hand(q)' = Hand(q)
    BY <1>2, <2>1 DEF Connect, Hand, TypeOK
  <2>3. UNCHANGED <<wq, wake, verified, lost>>
    BY <1>2 DEF Connect, history
  <2> QED
    BY <2>2, <2>3, OtherMoves DEF Carried
<1>3. ASSUME NEW p \in Peers, Handshake(p) PROVE Moves(p)
  <2>1. curr[p] = NoPiece
    BY <1>3 DEF Handshake, Running, SchedulerConsistent, Unstarted
  <2>2. \A q \in Peers : Hand(q)' = Hand(q)
    BY <1>3, <2>1 DEF Handshake, Hand, TypeOK
  <2>3. UNCHANGED <<wq, wake, verified, lost>>
    BY <1>3 DEF Handshake, history
  <2> QED
    BY <2>2, <2>3, OtherMoves DEF Carried
<1>4. ASSUME NEW p \in Peers, HandleBitfield(p) \/ HandleChoke(p) PROVE Moves(p)
  <2>1. UNCHANGED <<sock, curr, wq, wake, verified, lost>>
    BY <1>4 DEF HandleBitfield, HandleChoke, history
  <2> QED
    BY <2>1, OtherMoves DEF Carried, Hand
<1>5. ASSUME NEW p \in Peers, NEW i \in Pieces, NEW b \in Blocks, NEW d \in {"good", "bad"},
             HandlePiece(p, i, b, d)
      PROVE  Moves(p)
  <2>1. UNCHANGED <<sock, curr, wq, verified>> /\ lost' = lost \cup Overwritten
    BY <1>5 DEF HandlePiece, peerVars
  <2>2. \A k \in Pieces : Carried(k) => k \in lost'
    BY <2>1 DEF Carried, Overwritten
  <2> QED
    BY <2>1, <2>2, OtherMoves DEF Hand
<1> QED
  BY <1>1, <1>2, <1>3, <1>4, <1>5, HandleUnchokeMoves, OnRemoteCloseMoves DEF Next, Receive

\* session::start has every piece waiting and every hand empty.
THEOREM InitPool == Init => Pool!Init
<1> SUFFICES ASSUME Init PROVE Pool!Init
  OBVIOUS
<1>1. Waiting = Pieces
  <2>1. wq.items = [n \in 1 .. NumPieces |-> n - 1]
    BY DEF Init
  <2>2. ASSUME NEW i \in Pieces PROVE InQueue(wq, i)
    <3>1. i + 1 \in 1 .. NumPieces
      BY DownloadAssumption
    <3> QED
      BY <2>1, <3>1 DEF InQueue
  <2> QED
    BY <2>2 DEF Waiting
<1> QED
  BY <1>1 DEF Init, Pool!Init, Hand

\* Every callback is a step of the pool: no connection takes the piece of another,
\* and none vanishes.
THEOREM NextPool ==
    TypeOK /\ TypeOK' /\ SchedulerConsistent /\ [Next]_vars => [Pool!Next]_(Pool!vars)
<1> SUFFICES ASSUME TypeOK, TypeOK', SchedulerConsistent, [Next]_vars
             PROVE  [Pool!Next]_(Pool!vars)
  OBVIOUS
<1>1. CASE Next
  <2>1. PICK p \in Peers : Moves(p)
    BY <1>1, NextMoves
  <2>2. Pool!Act(p)
    <3>1. /\ verified' \in SUBSET Pieces /\ verified \subseteq verified'
          /\ lost' \cap Pieces \in SUBSET Pieces /\ lost \cap Pieces \subseteq lost' \cap Pieces
          /\ Waiting' \in SUBSET Pieces
      BY <2>1 DEF Moves, Waiting, TypeOK
    <3>2. Hand(p)' \in Pieces \cup {NoPiece} /\ Hand(p) \in Pieces \cup {NoPiece}
      BY DEF Hand, TypeOK
    <3>3. [q \in Peers |-> Hand(q)]' = [[q \in Peers |-> Hand(q)] EXCEPT ![p] = Hand(p)']
      BY <2>1 DEF Moves
    <3>4. \A i \in Waiting \cup {Hand(p)} :
             i \in Waiting' \cup {Hand(p)', NoPiece} \cup verified' \cup (lost' \cap Pieces)
      BY <2>1, <3>2 DEF Moves, Settled, Waiting
    <3> QED
      BY <3>1, <3>2, <3>3, <3>4 DEF Pool!Act
  <2> QED
    BY <2>2 DEF Pool!Next
<1>2. CASE UNCHANGED vars
  BY <1>2 DEF vars, peerVars, history, Waiting, Hand, Carried, Pool!vars
<1> QED
  BY <1>1, <1>2

\* The scheduler implements the pool of pieces, for any number of connections,
\* pieces and blocks, whatever the remotes do.
THEOREM ImplementsPool == Spec => IsPool
<1>1. TypeOK /\ SchedulerConsistent /\ [Next]_vars => (TypeOK /\ SchedulerConsistent)'
  BY NextType, NextConsistent
<1>2. TypeOK /\ SchedulerConsistent /\ [Next]_vars => [Pool!Next]_(Pool!vars)
  BY <1>1, NextPool
<1>3. Init => TypeOK /\ SchedulerConsistent /\ Pool!Init
  BY InitType, InitConsistent, InitPool
<1> QED
  BY <1>1, <1>2, <1>3, PTL DEF Spec, IsPool, Pool!Spec

-----------------------------------------------------------------------------
(* EveryPieceAccounted follows: it is what a pool keeps.                   *)

\* A piece in an open connection's hand is held.
LEMMA HandHeld == \A i \in Pieces : Held(i) <=> \E q \in Peers : Hand(q) = i
BY DEF Held, Hand

\* The pool has every piece in the beginning.
THEOREM InitAccounted == Init => EveryPieceAccounted
<1> SUFFICES ASSUME Init, NEW i \in Pieces PROVE InQueue(wq, i)
  BY DEF EveryPieceAccounted
<1>1. wq.items = [n \in 1 .. NumPieces |-> n - 1]
  BY DEF Init
<1>2. i + 1 \in 1 .. NumPieces
  BY DownloadAssumption
<1> QED
  BY <1>1, <1>2 DEF InQueue

\* Every step keeps every piece accounted for.
THEOREM NextAccounted ==
    TypeOK /\ SchedulerConsistent /\ EveryPieceAccounted /\ [Next]_vars => EveryPieceAccounted'
<1> SUFFICES ASSUME TypeOK, SchedulerConsistent, EveryPieceAccounted, [Next]_vars
             PROVE  EveryPieceAccounted'
  OBVIOUS
<1>1. CASE Next
  <2>1. PICK p \in Peers : Moves(p)
    BY <1>1, NextMoves
  <2>2. ASSUME NEW i \in Pieces
        PROVE  i \in verified' \cup lost' \/ i \in Waiting' \/ \E q \in Peers : Hand(q)' = i
    <3>1. i \in verified \cup lost \/ i \in Waiting \/ \E q \in Peers : Hand(q) = i
      BY HandHeld DEF EveryPieceAccounted, Waiting
    <3> QED
      BY <2>1, <3>1 DEF Moves, Settled
  <2> QED
    BY <2>2 DEF EveryPieceAccounted, Waiting, Held, Hand
<1>2. CASE UNCHANGED vars
  BY <1>2 DEF vars, peerVars, history, Held, Carried, EveryPieceAccounted
<1> QED
  BY <1>1, <1>2

\* In every run, a piece leaves the scheduler only when it is announced or through
\* one of the three leaks of m_work_queue and the shared uv_async_t.
THEOREM Accounted == Spec => []EveryPieceAccounted
<1>1. TypeOK /\ SchedulerConsistent /\ EveryPieceAccounted /\ [Next]_vars
        => (TypeOK /\ SchedulerConsistent /\ EveryPieceAccounted)'
  BY NextType, NextConsistent, NextAccounted
<1> QED
  BY InitType, InitConsistent, InitAccounted, <1>1, PTL DEF Spec

-----------------------------------------------------------------------------
(* HeldPieceGivenBack.                                                     *)

\* A step that ends p's hold on a piece announces the piece or gives it back.
GivesBack(p) ==
    curr[p] # NoPiece /\ curr'[p] # curr[p] =>
        curr[p] \in verified' \cup lost' \/ InQueue(wq', curr[p])

\* try_download ends a hold only by announcing the piece or pushing it back.
LEMMA TryDownloadGivesBack ==
    ASSUME TypeOK, SchedulerConsistent, TryDownload, NEW p \in Peers
    PROVE  GivesBack(p)
<1> SUFFICES ASSUME curr[p] # NoPiece, curr'[p] # curr[p]
             PROVE  curr[p] \in verified' \cup lost' \/ InQueue(wq', curr[p])
  BY DEF GivesBack
<1>1. PICK m \in wake : Requeue(m) \/ FetchPiece(m) \/ FinishPiece(m) \/ AbortOnIndex(m)
  BY DEF TryDownload
<1>2. Tidy(m.peer)
  BY TryDownloadTidy DEF SchedulerConsistent, QueueOK
<1>3. m.peer = p /\ Busy(m) /\ Target(m) = curr[p]
  BY <1>2 DEF Tidy, Busy, Target
<1>4. CASE Requeue(m) \/ AbortOnIndex(m)
  BY <1>4 DEF Requeue, AbortOnIndex
<1>5. CASE FetchPiece(m)
  <2>1. ~KeepPiece(p, curr[p], QueueAfter(m), ~Busy(m) /\ m.own)
    BY DEF KeepPiece, TypeOK
  <2>2. RejectPiece(p, curr[p], QueueAfter(m)) /\ curr[p] \in Index
    BY <1>3, <1>5, <2>1 DEF FetchPiece
  <2>3. wq' = Push(QueueAfter(m), curr[p]) /\ lost' = lost \cup Swallowed(QueueAfter(m), curr[p])
    BY <2>2 DEF RejectPiece
  <2>4. QueueAfter(m) \in QueueType
    BY TargetType
  <2> QED
    BY <2>2, <2>3, <2>4, PushAdds
<1>6. CASE FinishPiece(m)
  <2>1. Target(m) \in verified'
    BY <1>6 DEF FinishPiece
  <2> QED
    BY <1>3, <2>1
<1> QED
  BY <1>1, <1>4, <1>5, <1>6

\* What the other callbacks do to what was announced, saved and held: nothing.
LEMMA OthersAnnounceNothing ==
    ASSUME [Next]_vars, ~TryDownload
    PROVE  UNCHANGED <<verified, saved, curr>>
<1>1. CASE UNCHANGED vars
  BY <1>1 DEF vars, history
<1>2. ASSUME NEW p, Connect(p) \/ Handshake(p) PROVE UNCHANGED <<verified, saved, curr>>
  BY <1>2 DEF Connect, Handshake, history
<1>3. ASSUME NEW p, OnRemoteClose(p) PROVE UNCHANGED <<verified, saved, curr>>
  BY <1>3 DEF OnRemoteClose
<1>4. ASSUME NEW p, HandleBitfield(p) \/ HandleUnchoke(p) \/ HandleChoke(p)
      PROVE  UNCHANGED <<verified, saved, curr>>
  BY <1>4 DEF HandleBitfield, HandleUnchoke, HandleChoke, history
<1>5. ASSUME NEW p, NEW i, NEW b, NEW d, HandlePiece(p, i, b, d)
      PROVE  UNCHANGED <<verified, saved, curr>>
  BY <1>5 DEF HandlePiece
<1> QED
  BY <1>1, <1>2, <1>3, <1>4, <1>5 DEF Next, Receive

\* In every run, a connection lets go of m_curr_piece only when it announced the
\* piece or gave it back to the queue; no other callback changes m_curr_piece.
THEOREM GivenBack == Spec => HeldPieceGivenBack
<1>1. ASSUME TypeOK, SchedulerConsistent, [Next]_vars, NEW p \in Peers
      PROVE  GivesBack(p)
  <2>1. CASE TryDownload
    BY <1>1, <2>1, TryDownloadGivesBack
  <2>2. CASE ~TryDownload
    <3>1. curr' = curr
      BY <1>1, <2>2, OthersAnnounceNothing
    <3> QED
      BY <3>1 DEF GivesBack
  <2> QED
    BY <2>1, <2>2
<1>2. TypeOK /\ SchedulerConsistent /\ [Next]_vars => [\A p \in Peers : GivesBack(p)]_vars
  BY <1>1
<1>3. TypeOK /\ SchedulerConsistent /\ [Next]_vars => (TypeOK /\ SchedulerConsistent)'
  BY NextType, NextConsistent
<1>4. Init => TypeOK /\ SchedulerConsistent
  BY InitType, InitConsistent
<1>5. Spec => [][\A p \in Peers : GivesBack(p)]_vars
  BY <1>2, <1>3, <1>4, PTL DEF Spec
<1> QED
  BY <1>5 DEF HeldPieceGivenBack, GivesBack
=============================================================================
