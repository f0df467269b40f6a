---------------------------- MODULE FinishProofs ----------------------------
(***************************************************************************)
(* Proofs about the finished pieces of Download: AnnouncedIntact for       *)
(* remotes that never close, AnnouncedIntact and AnnouncedSaved for one    *)
(* remote whatever it does, NothingLost for one that neither chokes nor    *)
(* closes; for any number of pieces and blocks.                            *)
(***************************************************************************)
EXTENDS RequestProofs

\* The constants of the state space.
USE DEF Pieces, NoPiece, BadIndex, Index, Req, Blocks, Cell

-----------------------------------------------------------------------------
(* Pieces that have all of their blocks.                                   *)

\* What AnnouncedIntact says of one piece, and that it is finished.
Intact(x) ==
    /\ x.count = NumBlocks /\ x.count = FinishCount
    /\ \A b \in Blocks : x.data[b] = "good"

\* A piece is intact exactly when fetch_piece finds it finished and its hash right.
LEMMA IntactIsVerified ==
    ASSUME NEW x
    PROVE  Intact(x) <=> DownloadFinished(x) /\ VerifyIntegrity(x)
BY DEF Intact, DownloadFinished, VerifyIntegrity

\* A piece that has received as many blocks as it has owes and is owed nothing.
LEMMA NothingOwed ==
    ASSUME NEW x \in PieceType, NEW F, Counted(x, F), x.count = NumBlocks
    PROVE  F = {} /\ x.backlog = 0
<1>1. Cardinality(F) \in Nat /\ IsFiniteSet(F) /\ Cardinality(F) <= x.backlog
  BY FS_CardinalityType DEF Counted
<1>2. x.requested \in 0 .. NumBlocks /\ x.backlog \in Int /\ x.requested = NumBlocks + x.backlog
  BY DEF PieceType, Counted
<1>3. x.backlog = 0 /\ Cardinality(F) = 0
  BY <1>1, <1>2, PieceAssumption
<1> QED
  BY <1>1, <1>3, FS_EmptySet

\* While no connection has closed, no block of such a piece can arrive.
LEMMA NoneArrives ==
    ASSUME TypeOK, CountersInv, NoClose, NEW i \in Pieces, piece[i].count = NumBlocks
    PROVE  /\ piece[i].backlog = 0
           /\ \A p \in Peers, b \in Blocks : pending[p][<<i, b>>] = 0
<1>1. Flight(pending, i) = {} /\ piece[i].backlog = 0
  BY NothingOwed DEF CountersInv, TypeOK
<1>2. ASSUME NEW p \in Peers, NEW b \in Blocks PROVE pending[p][<<i, b>>] = 0
  <2>1. pending[p][<<i, b>>] \in Nat
    BY OwedNat DEF TypeOK, PendingType
  <2>2. 1 \notin 1 .. pending[p][<<i, b>>]
    BY <1>1, FlightElement
  <2> QED
    BY <2>1, <2>2
<1> QED
  BY <1>1, <1>2

-----------------------------------------------------------------------------
(* What try_download does to the pieces that connection p announces, holds *)
(* and asks for.                                                           *)

\* Piece t is what fetch_piece keeps: it is not finished, or blocked.
Kept(p, t) == Blocked(p, t) \/ ~DownloadFinished(piece[t])

Outcome(p) ==
    /\ verified \subseteq verified' /\ saved \subseteq saved'
    /\ \A i \in verified' \ verified :
          /\ bitfield[p].known /\ Whole(p, i)
          /\ i \in saved' \/ i # curr[p]
    /\ \/ curr'[p] = curr[p] \/ curr[p] = NoPiece
       \/ Complete(p, curr[p]) /\ (Whole(p, curr[p]) => curr[p] \in verified')
    /\ \/ UNCHANGED <<curr, verified>>
       \/ curr'[p] = NoPiece
       \/ bitfield[p].known /\ Kept(p, curr'[p])
    /\ UNCHANGED <<piece, pending>> \/ Asks(p, curr'[p])

\* fetch_piece keeps t or rejects it.
LEMMA FetchOutcome ==
    ASSUME TypeOK, NEW p \in Peers, NEW t \in Pieces, NEW w, NEW own,
           bitfield[p].known, ~choked[p],
           KeepPiece(p, t, w, own) \/ RejectPiece(p, t, w)
    PROVE  /\ \/ curr'[p] = t /\ Kept(p, t)
              \/ curr'[p] = NoPiece /\ Complete(p, t) /\ ~Whole(p, t)
           /\ UNCHANGED <<piece, pending>> \/ Asks(p, curr'[p])
<1>1. CASE KeepPiece(p, t, w, own)
  <2>1. curr'[p] = t /\ Kept(p, t)
    BY <1>1 DEF KeepPiece, Kept, TypeOK
  <2>2. CASE Blocked(p, t)
    BY <1>1, <2>1, <2>2 DEF KeepPiece
  <2>3. CASE ~Blocked(p, t)
    BY <1>1, <2>1, <2>3 DEF KeepPiece, Asks, Blocked
  <2> QED
    BY <2>1, <2>2, <2>3
<1>2. CASE RejectPiece(p, t, w)
  BY <1>2 DEF RejectPiece, TypeOK, Whole
<1> QED
  BY <1>1, <1>2

\* Every outcome of try_download is one of these.
LEMMA TryDownloadOutcome ==
    ASSUME TypeOK, TryDownload, NEW m \in wake, wake = {m}
    PROVE  Outcome(m.peer)
<1> DEFINE p == m.peer
           w == QueueAfter(m)
<1>1. \/ Requeue(m)
      \/ /\ TRUE \in HasPiece(p, m.index) /\ ~choked[p]
         /\ FetchPiece(m) \/ FinishPiece(m) \/ AbortOnIndex(m)
  BY DEF TryDownload
<1>2. p \in Peers /\ (Busy(m) => Target(m) = curr[p]) /\ (~Busy(m) => curr[p] = NoPiece)
  BY TargetType DEF Target, Busy
<1>3. CASE Requeue(m) \/ AbortOnIndex(m)
  BY <1>3 DEF Requeue, AbortOnIndex, history, Outcome
<1>4. CASE TRUE \in HasPiece(p, m.index) /\ ~choked[p] /\ FetchPiece(m)
  <2>1. bitfield[p].known /\ UNCHANGED <<verified, saved>> /\ Target(m) \in Pieces
    BY <1>4 DEF HasPiece, FetchPiece
  <2>2. \/ KeepPiece(p, Target(m), w, ~Busy(m) /\ m.own)
        \/ RejectPiece(p, Target(m), w)
    BY <1>4 DEF FetchPiece
  <2> SUFFICES Outcome(p)
    OBVIOUS
  <2> HIDE DEF p, w
  <2>3. /\ \/ curr'[p] = Target(m) /\ Kept(p, Target(m))
           \/ curr'[p] = NoPiece /\ Complete(p, Target(m)) /\ ~Whole(p, Target(m))
        /\ UNCHANGED <<piece, pending>> \/ Asks(p, curr'[p])
    BY <1>2, <1>4, <2>1, <2>2, FetchOutcome
  <2> QED
    BY <1>2, <2>1, <2>3 DEF Outcome
<1>5. CASE TRUE \in HasPiece(p, m.index) /\ ~choked[p] /\ FinishPiece(m)
  <2>1. /\ bitfield[p].known /\ Target(m) \in Pieces /\ Whole(p, Target(m))
        /\ saved' = saved \cup {Target(m)} /\ Target(m) \in verified'
    BY <1>5 DEF HasPiece, FinishPiece
  <2>2. PICK next :
          \/ /\ next \in Pieces
             /\ KeepPiece(p, next, Pop(w), w.items # <<>>) \/ RejectPiece(p, next, Pop(w))
             /\ verified' = verified \cup {Target(m)}
          \/ /\ Whole(p, next)
             /\ curr' = [curr EXCEPT ![p] = NoPiece]
             /\ verified' = verified \cup {Target(m), next}
             /\ UNCHANGED <<piece, pending>>
          \/ /\ curr' = [curr EXCEPT ![p] = NoPiece]
             /\ verified' = verified \cup {Target(m)}
             /\ UNCHANGED <<piece, pending>>
    BY <1>5 DEF FinishPiece
  <2> SUFFICES Outcome(p)
    OBVIOUS
  <2> HIDE DEF p, w
  <2>3. CASE /\ next \in Pieces
             /\ KeepPiece(p, next, Pop(w), w.items # <<>>) \/ RejectPiece(p, next, Pop(w))
             /\ verified' = verified \cup {Target(m)}
    <3>1. /\ \/ curr'[p] = next /\ Kept(p, next)
             \/ curr'[p] = NoPiece /\ Complete(p, next) /\ ~Whole(p, next)
          /\ UNCHANGED <<piece, pending>> \/ Asks(p, curr'[p])
      BY <1>2, <1>5, <2>1, <2>3, FetchOutcome
    <3> QED
      BY <1>2, <2>1, <2>3, <3>1 DEF Outcome, Whole
  <2>4. CASE /\ Whole(p, next)
             /\ curr' = [curr EXCEPT ![p] = NoPiece]
             /\ verified' = verified \cup {Target(m), next}
             /\ UNCHANGED <<piece, pending>>
    <3>1. next \in saved' \/ next # curr[p] \/ curr[p] = NoPiece
      BY <1>2, <2>1
    <3>2. curr'[p] = NoPiece
      BY <1>2, <2>4 DEF TypeOK
    <3>3. verified' \in SUBSET Pieces
      BY NextType DEF Next, TypeOK
    <3>4. \A i \in verified' : i # NoPiece
      BY <3>3
    <3> QED
      BY <1>2, <2>1, <2>4, <3>1, <3>2, <3>4 DEF Outcome, Whole
  <2>5. CASE /\ curr' = [curr EXCEPT ![p] = NoPiece]
             /\ verified' = verified \cup {Target(m)}
             /\ UNCHANGED <<piece, pending>>
    <3>1. curr'[p] = NoPiece
      BY <1>2, <2>5 DEF TypeOK
    <3> QED
      BY <1>2, <2>1, <2>5, <3>1 DEF Outcome, Whole
  <2> QED
    BY <2>2, <2>3, <2>4, <2>5
<1> QED
  BY <1>1, <1>3, <1>4, <1>5

\* Asking for blocks changes neither what a piece received nor its bytes.
LEMMA AsksKeepsData ==
    ASSUME TypeOK, NEW p \in Peers, NEW t, Asks(p, t)
    PROVE  /\ t \in Pieces
           /\ \A i \in Pieces : piece'[i].count = piece[i].count /\ piece'[i].data = piece[i].data
<1>1. t \in Pieces
  BY DEF Asks, TypeOK
<1>2. piece' = [piece EXCEPT ![t] = Request(piece[t], MAX_BACKLOG)]
  BY DEF Asks, SendRequests
<1>3. /\ Request(piece[t], MAX_BACKLOG).count = piece[t].count
      /\ Request(piece[t], MAX_BACKLOG).data = piece[t].data
  BY DEF Request
<1> QED
  BY <1>1, <1>2, <1>3 DEF TypeOK

\* try_download announces pieces that are intact, and leaves every piece as intact
\* as it was.
LEMMA TryDownloadIntact ==
    ASSUME TypeOK, NEW p \in Peers, Outcome(p)
    PROVE  /\ \A i \in verified' \ verified : Intact(piece[i])
           /\ \A i \in Pieces : Intact(piece'[i]) <=> Intact(piece[i])
<1>1. \A i \in verified' \ verified : Intact(piece[i])
  BY IntactIsVerified DEF Outcome, Whole, Complete
<1>2. ASSUME NEW i \in Pieces PROVE Intact(piece'[i]) <=> Intact(piece[i])
  <2>1. piece'[i].count = piece[i].count /\ piece'[i].data = piece[i].data
    BY AsksKeepsData DEF Outcome
  <2> QED
    BY <2>1 DEF Intact
<1> QED
  BY <1>1, <1>2

\* No callback but try_download, a block that arrives and the end of a connection
\* changes a piece.
LEMMA OthersKeepPieces ==
    ASSUME [Next]_vars, ~TryDownload,
           \A p \in Peers : ~OnRemoteClose(p),
           \A p \in Peers, i \in Pieces, b \in Blocks, d \in {"good", "bad"} : ~HandlePiece(p, i, b, d)
    PROVE  UNCHANGED piece
BY DEF Next, Receive, Connect, Handshake, HandleBitfield, HandleUnchoke, HandleChoke, vars

\* A block that arrives leaves a piece alone that has all of its blocks, as long as
\* no connection has closed.
LEMMA AnswerIntact ==
    ASSUME TypeOK, CountersInv, NoClose, NEW i \in Pieces, Intact(piece[i]),
           NEW p \in Peers, NEW t \in Pieces, NEW b \in Blocks, NEW d, HandlePiece(p, t, b, d)
    PROVE  Intact(piece'[i])
<1>1. pending[p][<<t, b>>] > 0
  BY DEF HandlePiece
<1>2. t # i
  <2>1. pending[p][<<i, b>>] = 0
    BY NoneArrives DEF Intact
  <2> QED
    BY <1>1, <2>1
<1>3. piece'[i] = piece[i]
  BY <1>2 DEF HandlePiece, TypeOK
<1> QED
  BY <1>3

-----------------------------------------------------------------------------
(* AnnouncedIntact while no connection closes.                             *)

IntactInv == NoClose => \A i \in verified : Intact(piece[i])

\* Every callback leaves what was announced intact, while no connection closes.
LEMMA NextIntact ==
    TypeOK /\ SchedulerConsistent /\ CountersInv /\ IntactInv /\ [Next]_vars => IntactInv'
<1> SUFFICES ASSUME TypeOK, SchedulerConsistent, CountersInv, IntactInv, [Next]_vars, NoClose',
                    NEW i \in verified'
             PROVE  Intact(piece'[i])
  BY DEF IntactInv
<1>1. NoClose /\ (\A p \in Peers : ~OnRemoteClose(p)) /\ TypeOK'
  BY ClosedStays, NextType
<1>2. i \in Pieces
  BY <1>1 DEF TypeOK
<1>3. CASE TryDownload
  <2>1. PICK m \in wake : wake = {m}
    BY <1>3 DEF TryDownload, SchedulerConsistent
  <2>2. Outcome(m.peer) /\ m.peer \in Peers
    BY <1>3, <2>1, TryDownloadOutcome, TargetType
  <2> QED
    BY <1>1, <1>2, <2>2, TryDownloadIntact DEF IntactInv
<1>4. CASE ~TryDownload
  <2>1. Intact(piece[i])
    BY <1>1, <1>4, OthersAnnounceNothing DEF IntactInv
  <2>2. ASSUME NEW p \in Peers, NEW t \in Pieces, NEW b \in Blocks, NEW d, HandlePiece(p, t, b, d)
        PROVE  Intact(piece'[i])
    BY <1>1, <1>2, <2>1, <2>2, AnswerIntact
  <2> QED
    BY <1>1, <1>4, <2>1, <2>2, OthersKeepPieces
<1> QED
  BY <1>3, <1>4

\* In every run, until a connection closes, a piece that was announced to the other
\* peers has all of its blocks as the torrent's hash wants them, however many
\* connections download, choke and corrupt it.
THEOREM IntactUntilClose == Spec => [](NoClose => AnnouncedIntact)
<1>1. Init => IntactInv
  BY DEF Init, IntactInv
<1>2. IntactInv => (NoClose => AnnouncedIntact)
  BY DEF IntactInv, Intact, AnnouncedIntact
<1> QED
  BY <1>1, <1>2, NextIntact, TypeCorrect, Consistent, CountersKept, PTL DEF Spec

-----------------------------------------------------------------------------
(* One remote, whatever it does: it may choke, corrupt, and close while a  *)
(* wake-up is pending.  The invariant says why the piece that a close      *)
(* resets was not announced: a connection never holds a piece that was,    *)
(* because it has every piece that it announced.  And it says why the      *)
(* piece that the second fetch_piece announces has been saved: a whole     *)
(* piece that the connection does not hold was announced before.           *)

AloneInv(p) ==
    /\ \A i \in verified : Intact(piece[i]) /\ i \in bitfield[p].has /\ bitfield[p].known
    /\ sock[p] # "closed" => curr[p] \notin verified
    /\ FinishCount = NumBlocks =>
          \A i \in Pieces, b \in Blocks : pending[p][<<i, b>>] > 0 => i = curr[p] /\ sock[p] = "open"
    /\ \A i \in Pieces : i # curr[p] /\ Intact(piece[i]) => i \in verified
    /\ verified \subseteq saved

\* Nothing is announced, held or owed when the session starts.
LEMMA InitAlone ==
    ASSUME NEW p \in Peers
    PROVE  Init => AloneInv(p)
<1> SUFFICES ASSUME Init PROVE AloneInv(p)
  OBVIOUS
<1>1. \A i \in Pieces : ~Intact(piece[i])
  BY PieceAssumption DEF Init, NewPiece, Intact
<1>2. ASSUME NEW i \in Pieces, NEW b \in Blocks PROVE pending[p][<<i, b>>] = 0
  <2>1. <<i, b>> \in Req
    OBVIOUS
  <2> QED
    BY <2>1 DEF Init
<1> QED
  BY <1>1, <1>2 DEF Init, AloneInv

\* try_download keeps the invariant of the one remote.
LEMMA TryDownloadAlone ==
    ASSUME NEW p \in Peers, Peers = {p}, TypeOK, TypeOK', SchedulerConsistent, CountersInv,
           AloneInv(p), TryDownload
    PROVE  AloneInv(p)'
<1>1. PICK m \in wake : wake = {m} /\ ~Unstarted(m.peer)
  BY DEF TryDownload, SchedulerConsistent
<1>2. m.peer = p /\ Outcome(p) /\ ~Unstarted(p)
  BY <1>1, TryDownloadOutcome, TargetType
<1>3. UNCHANGED <<sock, bitfield>>
  BY DEF TryDownload, peerVars
<1>4. sock[p] # "closed" => NoClose /\ sock[p] = "open"
  BY <1>2 DEF NoClose, Unstarted, TypeOK
<1>5. /\ verified \subseteq verified' /\ verified' \subseteq Pieces
      /\ curr[p] \in Pieces \cup {NoPiece} /\ curr'[p] \in Pieces \cup {NoPiece}
  BY <1>2 DEF Outcome, TypeOK
<1>6. ASSUME NEW i \in verified'
      PROVE  Intact(piece[i]) /\ i \in bitfield[p].has /\ bitfield[p].known
  <2>1. CASE i \in verified
    BY <2>1 DEF AloneInv
  <2>2. CASE i \notin verified
    BY <1>2, <2>2, TryDownloadIntact DEF Outcome, Whole, Complete, Blocked
  <2> QED
    BY <2>1, <2>2
<1>7. \A i \in verified' : Intact(piece'[i]) /\ i \in bitfield'[p].has /\ bitfield'[p].known
  BY <1>2, <1>3, <1>5, <1>6, TryDownloadIntact
<1>8. sock'[p] # "closed" => curr'[p] \notin verified'
  <2> SUFFICES ASSUME sock[p] # "closed", curr'[p] \in verified' PROVE FALSE
    BY <1>3
  <2>1. Intact(piece[curr'[p]]) /\ curr'[p] \in bitfield[p].has /\ curr'[p] \in Pieces
    BY <1>5, <1>6
  <2>2. curr'[p] # NoPiece
    BY <2>1
  <2>3. ~UNCHANGED <<curr, verified>>
    BY DEF AloneInv
  <2>4. Kept(p, curr'[p])
    BY <1>2, <2>2, <2>3 DEF Outcome
  <2>5. piece[curr'[p]].backlog = MAX_BACKLOG
    BY <2>1, <2>4, IntactIsVerified DEF Kept, Blocked
  <2>6. piece[curr'[p]].backlog = 0
    BY <1>4, <2>1, NoneArrives DEF Intact
  <2> QED
    BY <2>5, <2>6, DownloadAssumption
<1>9. ASSUME FinishCount = NumBlocks, NEW i \in Pieces, NEW b \in Blocks, pending'[p][<<i, b>>] > 0
      PROVE  i = curr'[p] /\ sock'[p] = "open"
  <2>1. CASE pending[p][<<i, b>>] > 0
    <3>1. i = curr[p] /\ sock[p] = "open"
      BY <1>9, <2>1 DEF AloneInv
    <3>2. piece[i].count # NumBlocks
      BY <1>4, <2>1, <3>1, NoneArrives
    <3>3. ~Complete(p, i)
      BY <1>9, <3>2 DEF Complete, DownloadFinished
    <3>4. curr'[p] = curr[p]
      BY <1>2, <3>1, <3>3 DEF Outcome
    <3> QED
      BY <1>3, <3>1, <3>4
  <2>2. CASE ~(pending[p][<<i, b>>] > 0)
    <3>1. Asks(p, curr'[p]) /\ curr'[p] \in Pieces
      BY <1>2, <1>9, <2>2, AsksKeepsData DEF Outcome
    <3>2. sock[p] = "open" /\ i = curr'[p]
      BY <1>9, <2>2, <3>1, AsksEffect DEF AddsOne
    <3> QED
      BY <1>3, <3>2
  <2> QED
    BY <2>1, <2>2
<1>10. ASSUME NEW i \in Pieces, i # curr'[p], Intact(piece'[i]) PROVE i \in verified'
  <2>1. Intact(piece[i])
    BY <1>2, <1>10, TryDownloadIntact
  <2>2. CASE i # curr[p]
    BY <1>5, <2>1, <2>2 DEF AloneInv
  <2>3. CASE i = curr[p]
    BY <1>2, <1>10, <2>1, <2>3, IntactIsVerified DEF Outcome, Whole
  <2> QED
    BY <2>2, <2>3
<1>11. verified' \subseteq saved'
  <2>1. ASSUME NEW i \in verified', i \notin verified PROVE i \in saved'
    <3>1. i = curr[p]
      BY <1>5, <1>6, <2>1 DEF AloneInv
    <3> QED
      BY <1>2, <2>1, <3>1 DEF Outcome
  <2> QED
    BY <1>2, <2>1 DEF Outcome, AloneInv
<1> QED
  BY <1>7, <1>8, <1>9, <1>10, <1>11 DEF AloneInv

\* A block that arrives keeps it: it is one of the piece that the connection holds.
LEMMA AnswerAlone ==
    ASSUME NEW p \in Peers, Peers = {p}, TypeOK, CountersInv, AloneInv(p),
           NEW t \in Pieces, NEW b \in Blocks, NEW d, HandlePiece(p, t, b, d)
    PROVE  AloneInv(p)'
<1>1. /\ UNCHANGED <<sock, bitfield, curr, verified, saved>>
      /\ sock[p] = "open" /\ pending[p][<<t, b>>] > 0
  BY DEF HandlePiece, peerVars, Running
<1>2. NoClose
  BY <1>1 DEF NoClose
<1>3. verified \subseteq Pieces
  BY DEF TypeOK
<1>4. \A i \in verified' : Intact(piece'[i]) /\ i \in bitfield'[p].has /\ bitfield'[p].known
  BY <1>1, <1>2, <1>3, AnswerIntact DEF AloneInv
<1>5. ASSUME FinishCount = NumBlocks, NEW i \in Pieces, NEW c \in Blocks, pending'[p][<<i, c>>] > 0
      PROVE  i = curr'[p] /\ sock'[p] = "open"
  <2>1. TakesOne(pending, pending', p, t, b)
    BY AnswerEffect
  <2>2. pending[p][<<i, c>>] \in Nat
    BY OwedNat DEF TypeOK, PendingType
  <2>3. pending[p][<<i, c>>] > 0
    BY <1>5, <2>1, <2>2 DEF TakesOne
  <2> QED
    BY <1>1, <1>5, <2>3 DEF AloneInv
<1>6. ASSUME NEW i \in Pieces, i # curr'[p], Intact(piece'[i]) PROVE i \in verified'
  <2>1. t = curr[p]
    BY <1>1, <1>6 DEF AloneInv, Intact
  <2>2. piece'[i] = piece[i]
    BY <1>1, <1>6, <2>1 DEF HandlePiece, TypeOK
  <2> QED
    BY <1>1, <1>6, <2>2 DEF AloneInv
<1> QED
  BY <1>1, <1>4, <1>5, <1>6 DEF AloneInv

\* on_remote_close keeps it: the piece it resets was not announced.
LEMMA CloseAlone ==
    ASSUME NEW p \in Peers, Peers = {p}, TypeOK, AloneInv(p), OnRemoteClose(p)
    PROVE  AloneInv(p)'
<1>1. /\ UNCHANGED <<bitfield, curr, verified, saved>>
      /\ sock[p] = "open" /\ sock'[p] = "closed"
  BY DEF OnRemoteClose, Running, TypeOK
<1>2. \A i \in Pieces, b \in Blocks : pending'[p][<<i, b>>] = 0
  <2> SUFFICES ASSUME NEW i \in Pieces, NEW b \in Blocks PROVE pending'[p][<<i, b>>] = 0
    OBVIOUS
  <2>1. <<i, b>> \in Req
    OBVIOUS
  <2>2. pending' = [pending EXCEPT ![p] = [r \in Req |-> 0]]
    BY DEF OnRemoteClose
  <2> QED
    BY <2>1, <2>2 DEF TypeOK
<1>3. curr[p] \notin verified
  BY <1>1 DEF AloneInv
<1>4. \A i \in Pieces : i # curr[p] => piece'[i] = piece[i]
  BY DEF OnRemoteClose, TypeOK
<1>5. verified \subseteq Pieces
  BY DEF TypeOK
<1> QED
  BY <1>1, <1>2, <1>3, <1>4, <1>5 DEF AloneInv

\* Every callback keeps the invariant of the one remote.
LEMMA NextAlone ==
    ASSUME NEW p \in Peers, Peers = {p}
    PROVE  TypeOK /\ SchedulerConsistent /\ CountersInv /\ AloneInv(p) /\ [Next]_vars => AloneInv(p)'
<1> SUFFICES ASSUME TypeOK, SchedulerConsistent, CountersInv, AloneInv(p), [Next]_vars
             PROVE  AloneInv(p)'
  OBVIOUS
<1>1. CASE TryDownload
  BY <1>1, TryDownloadAlone, NextType
<1>2. CASE Connect(p)
  <2>1. UNCHANGED <<bitfield, curr, pending, piece, verified, saved>> /\ sock[p] = "none"
    BY <1>2 DEF Connect, history
  <2>2. sock'[p] = "open"
    BY <1>2 DEF Connect, TypeOK
  <2> QED
    BY <2>1, <2>2 DEF AloneInv
<1>3. CASE Handshake(p)
  <2>1. /\ UNCHANGED <<bitfield, curr, pending, piece, verified, saved>>
        /\ sock[p] = "open" /\ curr[p] = NoPiece
    BY <1>3 DEF Handshake, history, Running, SchedulerConsistent, Unstarted
  <2>2. \A i \in Pieces : i # curr[p]
    BY <2>1
  <2> QED
    BY <2>1, <2>2 DEF AloneInv
<1>4. CASE HandleBitfield(p)
  <2>1. UNCHANGED <<sock, curr, pending, piece, verified, saved>> /\ ~bitfield[p].known
    BY <1>4 DEF HandleBitfield, history
  <2>2. verified = {}
    BY <2>1 DEF AloneInv
  <2> QED
    BY <2>1, <2>2 DEF AloneInv
<1>5. CASE HandleUnchoke(p)
  BY <1>5 DEF HandleUnchoke, AloneInv
<1>6. CASE HandleChoke(p)
  <2>1. UNCHANGED <<sock, bitfield, curr, piece, verified, saved>>
    BY <1>6 DEF HandleChoke, history
  <2>2. ASSUME NEW i \in Pieces, NEW b \in Blocks, pending'[p][<<i, b>>] > 0
        PROVE  pending[p][<<i, b>>] > 0
    <3>1. pending'[p][<<i, b>>] <= pending[p][<<i, b>>]
      BY <1>6, DropEffect DEF Drops
    <3>2. pending[p][<<i, b>>] \in Nat /\ pending'[p][<<i, b>>] \in Nat
      BY OwedNat, NextType DEF TypeOK, PendingType
    <3> QED
      BY <2>2, <3>1, <3>2
  <2> QED
    BY <2>1, <2>2 DEF AloneInv
<1>7. ASSUME NEW t \in Pieces, NEW b \in Blocks, NEW d, HandlePiece(p, t, b, d) PROVE AloneInv(p)'
  BY <1>7, AnswerAlone
<1>8. CASE OnRemoteClose(p)
  BY <1>8, CloseAlone
<1>9. CASE UNCHANGED vars
  BY <1>9 DEF vars, peerVars, history, AloneInv
<1> QED
  BY <1>1, <1>2, <1>3, <1>4, <1>5, <1>6, <1>7, <1>8, <1>9 DEF Next, Receive

\* The invariant of the one remote holds in every run.
LEMMA AloneKept ==
    ASSUME NEW p \in Peers, Peers = {p}
    PROVE  Spec => []AloneInv(p)
<1>1. Init => AloneInv(p)
  BY InitAlone
<1>2. TypeOK /\ SchedulerConsistent /\ CountersInv /\ AloneInv(p) /\ [Next]_vars => AloneInv(p)'
  BY NextAlone
<1> QED
  BY <1>1, <1>2, TypeCorrect, Consistent, CountersKept, PTL DEF Spec

\* With one remote, whatever it does, a piece announced to the other peers has been
\* handed to save_piece: try_download ignores the result of its second fetch_piece,
\* but that call finds no piece whole that was not announced before.
THEOREM SavedIfAnnounced ==
    ASSUME NEW p, Peers = {p}
    PROVE  Spec => []AnnouncedSaved
<1>1. p \in Peers
  OBVIOUS
<1>2. AloneInv(p) => AnnouncedSaved
  BY DEF AloneInv, AnnouncedSaved
<1> QED
  BY <1>1, <1>2, AloneKept, PTL

\* With one remote, whatever it does, or with remotes that never close, a piece that
\* was announced to the other peers keeps all of its blocks as the torrent's hash
\* wants them.
THEOREM IntactIfAnnounced ==
    ASSUME Closing = {} \/ \E p : Peers = {p}
    PROVE  Spec => []AnnouncedIntact
<1>1. ASSUME NEW p, Peers = {p} PROVE Spec => []AnnouncedIntact
  <2>1. p \in Peers
    BY <1>1
  <2>2. AloneInv(p) => AnnouncedIntact
    BY DEF AloneInv, AnnouncedIntact, Intact
  <2> QED
    BY <1>1, <2>1, <2>2, AloneKept, PTL
<1>2. ASSUME Closing = {} PROVE Spec => []AnnouncedIntact
  <2>1. Init => NoClose
    BY DEF Init, NoClose
  <2>2. TypeOK /\ NoClose /\ [Next]_vars => NoClose'
    BY <1>2, NoneCloses
  <2> QED
    BY <2>1, <2>2, IntactUntilClose, TypeCorrect, PTL DEF Spec
<1> QED
  BY <1>1, <1>2

-----------------------------------------------------------------------------
(* One remote that neither chokes nor closes.  The invariant says why each  *)
(* leak is shut: it unchokes once, when nothing has been asked for and the  *)
(* queue has every piece, so that wake-up replaces none and is replaced by  *)
(* none; and try_download pops the queue for the next piece only after it   *)
(* pushed the index that woke it.                                           *)

\* Nothing has been asked of remote p yet.
Fresh(p) ==
    /\ curr[p] = NoPiece
    /\ \A i \in Pieces : piece[i] = NewPiece
    /\ \A i \in Pieces, b \in Blocks : pending[p][<<i, b>>] = 0

StillInv(p) ==
    /\ lost = {} /\ wq.debt = 0
    /\ sock[p] # "closed"
    /\ choked[p] => wake = {} /\ wq.items # <<>>
    /\ choked[p] \/ (\E m \in wake : m.own) => Fresh(p)
    /\ FinishCount = NumBlocks => \A m \in wake : m.own \/ m.index = curr[p]

\* fetch_piece on an open connection drops nothing from a queue that is not in debt.
LEMMA FetchStill ==
    ASSUME TypeOK, NEW p \in Peers, NEW t \in Pieces, NEW w \in QueueType, NEW own,
           sock[p] = "open", lost = {}, w.debt = 0,
           KeepPiece(p, t, w, own) \/ RejectPiece(p, t, w)
    PROVE  lost' = {} /\ wq'.debt = 0
<1>1. CASE KeepPiece(p, t, w, own)
  BY <1>1 DEF KeepPiece, Buried
<1>2. CASE RejectPiece(p, t, w)
  BY <1>2, PushOK DEF RejectPiece, Swallowed, QueueOK
<1> QED
  BY <1>1, <1>2

\* A connection that finishes a piece is in the middle of it: the piece of a first
\* wake-up is new, and any other wake-up names the piece the connection holds.
LEMMA FinishesOwn ==
    ASSUME TypeOK, NEW m \in wake, StillInv(m.peer), FinishPiece(m)
    PROVE  Busy(m)
<1>1. m.peer \in Peers /\ Target(m) \in Pieces /\ Intact(piece[Target(m)])
  BY TargetType, IntactIsVerified DEF FinishPiece, Whole, Complete
<1> SUFFICES ASSUME ~Busy(m) PROVE FALSE
  OBVIOUS
<1>2. curr[m.peer] = NoPiece /\ Target(m) = m.index
  BY DEF Busy, Target
<1>3. CASE m.own
  <2>1. piece[Target(m)] = NewPiece
    BY <1>1, <1>3 DEF StillInv, Fresh
  <2> QED
    BY <1>1, <2>1, PieceAssumption DEF Intact, NewPiece
<1>4. CASE ~m.own
  <2>1. FinishCount = NumBlocks
    BY <1>1 DEF Intact
  <2> QED
    BY <1>1, <1>2, <1>4, <2>1 DEF StillInv
<1> QED
  BY <1>3, <1>4

\* try_download loses nothing.
LEMMA TryDownloadStill ==
    ASSUME NEW p \in Peers, Peers = {p}, TypeOK, SchedulerConsistent, StillInv(p), TryDownload
    PROVE  StillInv(p)'
<1>1. PICK m \in wake :
        /\ wake = {m} /\ ~Unstarted(m.peer)
        /\ Requeue(m) \/ FetchPiece(m) \/ FinishPiece(m) \/ AbortOnIndex(m)
  BY DEF TryDownload, SchedulerConsistent
<1>2. /\ m.peer = p /\ m.index \in Index /\ wq \in QueueType /\ QueueAfter(m) \in QueueType
      /\ sock[p] = "open" /\ ~choked[p] /\ QueueOK(wq)
  BY <1>1, TargetType DEF Unstarted, TypeOK, StillInv, SchedulerConsistent, QueueOK
<1>3. wake' = {} /\ UNCHANGED <<sock, choked>>
  BY DEF TryDownload, peerVars
<1>4. SUFFICES lost' = {} /\ wq'.debt = 0
  BY <1>2, <1>3 DEF StillInv
<1>5. lost = {} /\ wq.debt = 0
  BY DEF StillInv
<1>6. QueueAfter(m).debt = 0 /\ QueueOK(QueueAfter(m))
  BY <1>2, <1>5, PushOK DEF QueueAfter
<1>7. CASE Requeue(m)
  BY <1>2, <1>5, <1>7, PushOK DEF Requeue, history
<1>8. CASE FetchPiece(m)
  BY <1>2, <1>5, <1>6, <1>8, FetchStill DEF FetchPiece
<1>9. CASE FinishPiece(m)
  <2> DEFINE w == QueueAfter(m)
  <2>1. w.items # <<>>
    <3>1. Busy(m)
      BY <1>2, <1>9, FinishesOwn
    <3>2. w.items = Append(wq.items, m.index)
      BY <1>2, <1>5, <3>1 DEF QueueAfter, Push, QueueType
    <3> QED
      BY <1>2, <3>2 DEF QueueType
  <2>2. Pop(w).debt = 0 /\ Pop(w) \in QueueType
    BY <1>2, <1>6, <2>1, PopOK, PopType
  <2>3. PICK next :
          \/ /\ next \in Pieces
             /\ KeepPiece(p, next, Pop(w), w.items # <<>>) \/ RejectPiece(p, next, Pop(w))
          \/ wq' = Pop(w) /\ UNCHANGED lost
    BY <1>2, <1>9 DEF FinishPiece
  <2> HIDE DEF w
  <2> QED
    BY <1>2, <1>5, <2>2, <2>3, FetchStill
<1>10. CASE AbortOnIndex(m)
  BY <1>5, <1>10 DEF AbortOnIndex, history
<1> QED
  BY <1>1, <1>7, <1>8, <1>9, <1>10

\* Every callback keeps the invariant of the one remote that stays.
LEMMA NextStill ==
    ASSUME NEW p \in Peers, Peers = {p}, Choking = {}, Closing = {}
    PROVE  TypeOK /\ SchedulerConsistent /\ AloneInv(p) /\ StillInv(p) /\ [Next]_vars => StillInv(p)'
<1> SUFFICES ASSUME TypeOK, SchedulerConsistent, AloneInv(p), StillInv(p), [Next]_vars
             PROVE  StillInv(p)'
  OBVIOUS
<1>1. CASE TryDownload
  BY <1>1, TryDownloadStill
<1>2. CASE Connect(p)
  <2>1. sock'[p] # "closed"
    BY <1>2 DEF Connect, TypeOK
  <2> QED
    BY <1>2, <2>1 DEF Connect, history, StillInv, Fresh
<1>3. CASE Handshake(p)
  BY <1>3 DEF Handshake, history, StillInv, Fresh
<1>4. CASE HandleBitfield(p)
  BY <1>4 DEF HandleBitfield, history, StillInv, Fresh
<1>5. CASE HandleUnchoke(p)
  <2>1. wake = {} /\ wq.items # <<>> /\ Fresh(p)
    BY <1>5 DEF HandleUnchoke, StillInv
  <2>2. lost' = {}
    BY <1>5, <2>1 DEF HandleUnchoke, Overwritten, StillInv
  <2>3. wq'.debt = 0
    <3>1. wq \in QueueType /\ QueueOK(wq)
      BY DEF TypeOK, QueueType, StillInv, QueueOK
    <3> QED
      BY <1>5, <2>1, <3>1, PopOK DEF HandleUnchoke
  <2>4. \A m \in wake' : m.own
    <3>1. PICK i : Send(p, i, wq.items # <<>>)
      BY <1>5 DEF HandleUnchoke
    <3>2. (wq.items # <<>>) = TRUE
      BY <2>1
    <3>3. Send(p, i, TRUE)
      BY <3>1, <3>2, Zenon
    <3> QED
      BY <3>3 DEF Send
  <2>5. ~choked'[p] /\ UNCHANGED <<sock, curr, piece, pending>>
    BY <1>5 DEF HandleUnchoke, TypeOK
  <2> QED
    BY <2>1, <2>2, <2>3, <2>4, <2>5 DEF StillInv, Fresh
<1>6. ASSUME NEW t \in Pieces, NEW b \in Blocks, NEW d, HandlePiece(p, t, b, d) PROVE StillInv(p)'
  <2>1. /\ UNCHANGED <<sock, choked, curr, wq>> /\ ~choked[p]
        /\ pending[p][<<t, b>>] > 0 /\ lost' = lost \cup Overwritten
    BY <1>6 DEF HandlePiece, peerVars
  <2>2. wake' = {[peer |-> p, index |-> t, own |-> FALSE]}
    BY <1>6 DEF HandlePiece, Send
  <2>3. lost' = {}
    BY <2>1 DEF StillInv, Fresh, Overwritten
  <2>4. FinishCount = NumBlocks => t = curr[p]
    BY <2>1 DEF AloneInv
  <2> QED
    BY <2>1, <2>2, <2>3, <2>4 DEF StillInv
<1>7. CASE UNCHANGED vars
  BY <1>7 DEF vars, peerVars, history, StillInv, Fresh
<1> QED
  BY <1>1, <1>2, <1>3, <1>4, <1>5, <1>6, <1>7 DEF Next, Receive, HandleChoke, OnRemoteClose

\* With one remote that neither chokes nor closes, none of the leaks ever drops a
\* piece and the work queue is never popped when it is empty, whatever bytes that
\* remote sends and however many blocks piece::download_finished waits for.
THEOREM NothingLostAlone ==
    ASSUME Choking = {}, Closing = {}, NEW p, Peers = {p}
    PROVE  Spec => []NothingLost
<1>1. p \in Peers
  OBVIOUS
<1>2. Init => StillInv(p)
  <2> SUFFICES ASSUME Init PROVE StillInv(p)
    OBVIOUS
  <2>1. wq.items = [i \in 1 .. NumPieces |-> i - 1] /\ wq.debt = 0
    BY DEF Init
  <2>2. wq.items # <<>>
    <3>1. wq.items[1] = 0 /\ DOMAIN wq.items = 1 .. NumPieces /\ 1 \in 1 .. NumPieces
      BY <2>1, DownloadAssumption
    <3>2. DOMAIN <<>> = {}
      OBVIOUS
    <3> QED
      BY <3>1, <3>2
  <2>3. Fresh(p)
    <3>1. ASSUME NEW i \in Pieces, NEW b \in Blocks PROVE pending[p][<<i, b>>] = 0
      <4>1. <<i, b>> \in Req
        OBVIOUS
      <4> QED
        BY <1>1, <4>1 DEF Init
    <3> QED
      BY <1>1, <3>1 DEF Init, Fresh
  <2> QED
    BY <1>1, <2>1, <2>2, <2>3 DEF Init, StillInv
<1>3. TypeOK /\ SchedulerConsistent /\ AloneInv(p) /\ StillInv(p) /\ [Next]_vars => StillInv(p)'
  BY <1>1, NextStill
<1>4. Spec => []AloneInv(p)
  BY <1>1, AloneKept
<1>5. StillInv(p) => NothingLost
  BY DEF StillInv, NothingLost
<1> QED
  BY <1>2, <1>3, <1>4, <1>5, TypeCorrect, Consistent, PTL DEF Spec
=============================================================================
