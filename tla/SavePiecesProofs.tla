-------------------------- MODULE SavePiecesProofs --------------------------
(***************************************************************************)
(* Proofs about SavePieces: FileIntact and LatestIsWhole, for any number   *)
(* of threads, pieces and blocks, with one remote whatever it does or with *)
(* remotes that never close.                                               *)
(***************************************************************************)
EXTENDS SavePieces, FinishProofs

\* The constants of the state space.
USE DEF Pieces, NoPiece, BadIndex, Index, Req, Blocks, Cell

-----------------------------------------------------------------------------
(* The loop's thread runs Download, the threads of the pool leave it alone. *)

\* Every step of the process is a step of the scheduler, or leaves it as it is.
LEMMA SaveSteps == SaveNext => [Next]_vars
BY DEF SaveNext, LoopStep, Open, Write

\* Every behaviour of the process is one of the scheduler.
LEMMA SaveRuns == SaveSpec => Spec
<1>1. SaveInit => Init
  BY DEF SaveInit
<1>2. [SaveNext]_<<vars, saveVars>> => [Next]_vars
  BY SaveSteps
<1> QED
  BY <1>1, <1>2, PTL DEF SaveSpec, Spec

\* What was announced stays announced, and is complete.
LEMMA VerifiedGrows ==
    ASSUME TypeOK, SchedulerConsistent, [Next]_vars
    PROVE  /\ verified \subseteq verified'
           /\ \A i \in verified' \ verified : FinishCount = NumBlocks
<1>1. CASE TryDownload
  <2>1. PICK m \in wake : wake = {m}
    BY <1>1 DEF TryDownload, SchedulerConsistent
  <2>2. Outcome(m.peer) /\ m.peer \in Peers
    BY <1>1, <2>1, TryDownloadOutcome, TargetType
  <2>3. \A i \in verified' \ verified : Intact(piece[i])
    BY <2>2, TryDownloadIntact
  <2> QED
    BY <2>2, <2>3 DEF Outcome, Intact
<1>2. CASE ~TryDownload
  BY <1>2, OthersAnnounceNothing
<1> QED
  BY <1>1, <1>2

\* What try_download hands to uv_queue_work is a piece it has just announced.
LEMMA QueuesVerified ==
    ASSUME TypeOK, SchedulerConsistent, TryDownload, \E m \in wake : Queues(m)
    PROVE  Target(CHOOSE m \in wake : TRUE) \in Pieces \cap verified'
<1>1. PICK m \in wake : wake = {m} /\ Queues(m)
  BY DEF SchedulerConsistent
<1>2. (CHOOSE n \in wake : TRUE) = m
  BY <1>1
<1>3. Target(m) \in Pieces /\ Target(m) \in verified'
  BY <1>1 DEF Queues, FinishPiece
<1> QED
  BY <1>2, <1>3

-----------------------------------------------------------------------------
(* The offsets of write_piece.                                             *)

Positions == 0 .. NumPieces * SlotBlocks + NumBlocks

\* Block b of piece i is inside the file, in the slot of that piece.
LEMMA OffsetInSlot ==
    ASSUME FinishCount = NumBlocks, NEW i \in Pieces, NEW b \in Blocks
    PROVE  /\ Offset(i) + b \in Positions
           /\ (Offset(i) + b) \div SlotBlocks = i
<1>1. i \in Nat /\ b \in Nat /\ NumBlocks \in Nat /\ b < NumBlocks /\ NumPieces \in Nat
  BY DownloadAssumption, PieceAssumption
<1>2. /\ i * NumBlocks \in Nat /\ NumPieces * NumBlocks \in Nat
      /\ i * NumBlocks <= NumPieces * NumBlocks
  <2>1. (NumPieces - i) \in Nat
    BY DownloadAssumption
  <2>2. (NumPieces - i) * NumBlocks \in Nat
    BY <1>1, <2>1
  <2>3. NumPieces * NumBlocks = i * NumBlocks + (NumPieces - i) * NumBlocks
    BY <1>1
  <2> QED
    BY <1>1, <2>2, <2>3
<1>3. Offset(i) + b \in Positions
  BY <1>1, <1>2 DEF Offset, SlotBlocks, Positions
<1>4. (i * NumBlocks + b) \div NumBlocks = i
  BY <1>1
<1> QED
  BY <1>3, <1>4 DEF Offset, SlotBlocks

-----------------------------------------------------------------------------
(* The invariant: what the threads work on was announced, every block that *)
(* they wrote is right, and the thread that opened the file last has        *)
(* written all the blocks before the one it is at.                         *)

FileType == [Positions -> (Pieces \cup {NoPiece}) \X Cell]

SaveTypeOK ==
    /\ jobs \in Seq(Pieces)
    /\ workers \in [1 .. Threads -> [index: Pieces \cup {NoPiece}, block: Blocks]]
    /\ file \in FileType
    /\ latest \in [index: Pieces \cup {NoPiece}, failed: BOOLEAN]

WorkVerified ==
    /\ \A n \in 1 .. Len(jobs) : jobs[n] \in verified
    /\ \A t \in 1 .. Threads : workers[t] # Idle => workers[t].index \in verified
    /\ latest.index # NoPiece => latest.index \in verified
    /\ verified # {} => FinishCount = NumBlocks

Written(i, k) == \A b \in Blocks : b < k => file[Offset(i) + b] = <<i, "good">>

LatestProgress ==
    latest.index # NoPiece /\ ~latest.failed =>
        \/ Written(latest.index, NumBlocks)
        \/ \E t \in 1 .. Threads, k \in Blocks :
              workers[t] = [index |-> latest.index, block |-> k] /\ Written(latest.index, k)

SaveInv == SaveTypeOK /\ WorkVerified /\ FileIntact /\ LatestProgress

\* The pool is idle and the file empty when the session starts.
LEMMA InitSave == SaveInit => SaveInv
<1> SUFFICES ASSUME SaveInit PROVE SaveInv
  OBVIOUS
<1>1. Idle \in [index: Pieces \cup {NoPiece}, block: Blocks]
  BY PieceAssumption DEF Idle
<1>2. Empty \in FileType
  BY DEF Empty, FileType, Hole, Positions
<1>3. SaveTypeOK
  BY <1>1, <1>2 DEF SaveInit, SaveTypeOK
<1>4. WorkVerified /\ LatestProgress
  BY DEF SaveInit, Init, WorkVerified, LatestProgress
<1>5. FileIntact
  BY DEF SaveInit, FileIntact, Empty
<1> QED
  BY <1>3, <1>4, <1>5 DEF SaveInv

\* The loop's thread keeps it: it only adds a job for a piece it announced.
LEMMA LoopSave ==
    ASSUME TypeOK, SchedulerConsistent, SaveInv, LoopStep
    PROVE  SaveInv'
<1>1. verified \subseteq verified' /\ (verified' # {} => FinishCount = NumBlocks)
  BY VerifiedGrows DEF LoopStep, SaveInv, WorkVerified
<1>2. UNCHANGED <<workers, file, latest>> /\ jobs \in Seq(Pieces)
  BY DEF LoopStep, SaveInv, SaveTypeOK
<1>3. jobs' \in Seq(Pieces) /\ \A n \in 1 .. Len(jobs') : jobs'[n] \in verified'
  <2>1. CASE jobs' = jobs
    BY <1>1, <1>2, <2>1 DEF SaveInv, WorkVerified
  <2>2. CASE jobs' # jobs
    <3> DEFINE i == Target(CHOOSE m \in wake : TRUE)
    <3>1. TryDownload /\ (\E m \in wake : Queues(m)) /\ jobs' = Append(jobs, i)
      BY <2>2 DEF LoopStep
    <3>2. i \in Pieces /\ i \in verified'
      BY <3>1, QueuesVerified
    <3> HIDE DEF i
    <3>3. \A n \in 1 .. Len(jobs) : jobs[n] \in verified
      BY DEF SaveInv, WorkVerified
    <3>4. /\ Len(jobs') = Len(jobs) + 1 /\ jobs'[Len(jobs) + 1] = i
          /\ \A n \in 1 .. Len(jobs) : jobs'[n] = jobs[n]
          /\ jobs' \in Seq(Pieces)
      BY <1>2, <3>1, <3>2
    <3>5. Len(jobs) \in Nat
      BY <1>2
    <3>6. ASSUME NEW n \in 1 .. Len(jobs') PROVE jobs'[n] \in verified'
      <4>1. n \in 1 .. Len(jobs) \/ n = Len(jobs) + 1
        BY <3>4, <3>5
      <4> QED
        BY <1>1, <3>2, <3>3, <3>4, <4>1
    <3> QED
      BY <3>4, <3>6
  <2> QED
    BY <2>1, <2>2
<1>4. SaveTypeOK' /\ WorkVerified'
  BY <1>1, <1>2, <1>3 DEF SaveInv, SaveTypeOK, WorkVerified
<1>5. FileIntact' /\ LatestProgress'
  BY <1>2 DEF SaveInv, FileIntact, LatestProgress, Written
<1> QED
  BY <1>4, <1>5 DEF SaveInv

\* A thread that opens the file keeps it: the file is empty and none of its blocks
\* is written yet.
LEMMA OpenSave ==
    ASSUME TypeOK, SaveInv, NEW t \in 1 .. Threads, Open(t)
    PROVE  SaveInv'
<1>1. /\ jobs # <<>> /\ jobs \in Seq(Pieces) /\ jobs' = Tail(jobs)
      /\ UNCHANGED verified /\ workers[t] = Idle
  BY DEF Open, SaveInv, SaveTypeOK, vars, history
<1>2. Head(jobs) \in Pieces /\ Head(jobs) \in verified
  <2>1. 1 \in 1 .. Len(jobs) /\ Head(jobs) = jobs[1]
    BY <1>1
  <2>2. \A n \in 1 .. Len(jobs) : jobs[n] \in verified
    BY DEF SaveInv, WorkVerified
  <2> QED
    BY <2>1, <2>2 DEF TypeOK
<1>3. jobs' \in Seq(Pieces) /\ \A n \in 1 .. Len(jobs') : jobs'[n] \in verified'
  BY <1>1 DEF SaveInv, WorkVerified
<1>4. CASE UNCHANGED <<workers, file, latest>>
  BY <1>1, <1>3, <1>4 DEF SaveInv, SaveTypeOK, WorkVerified, FileIntact, LatestProgress, Written
<1>5. CASE /\ workers' = [workers EXCEPT ![t] = [index |-> Head(jobs), block |-> 0]]
           /\ file' = Empty
           /\ latest' = [index |-> Head(jobs), failed |-> ~Fits(Head(jobs))]
  <2>1. 0 \in Blocks
    BY PieceAssumption
  <2>2. file' \in FileType
    BY <1>5 DEF Empty, FileType, Hole, Positions
  <2>3. workers' \in [1 .. Threads -> [index: Pieces \cup {NoPiece}, block: Blocks]]
    BY <1>2, <1>5, <2>1 DEF SaveInv, SaveTypeOK
  <2>4. latest' \in [index: Pieces \cup {NoPiece}, failed: BOOLEAN]
    BY <1>2, <1>5 DEF Fits
  <2>5. /\ workers'[t] = [index |-> Head(jobs), block |-> 0]
        /\ \A u \in 1 .. Threads : u # t => workers'[u] = workers[u]
    BY <1>5 DEF SaveInv, SaveTypeOK
  <2>6. WorkVerified'
    BY <1>1, <1>2, <1>3, <1>5, <2>5 DEF SaveInv, WorkVerified
  <2>7. FileIntact'
    BY <1>5 DEF FileIntact, Empty
  <2>8. LatestProgress'
    <3>1. PICK i : i = Head(jobs)
      OBVIOUS
    <3>2. Written(i, 0)'
      BY DEF Written
    <3>3. latest'.index = i /\ workers'[t] = [index |-> i, block |-> 0]
      BY <1>5, <2>5, <3>1
    <3> QED
      BY <2>1, <3>2, <3>3 DEF LatestProgress
  <2> QED
    BY <1>3, <2>2, <2>3, <2>4, <2>6, <2>7, <2>8 DEF SaveInv, SaveTypeOK
<1> QED
  BY <1>4, <1>5 DEF Open

\* A thread that writes a block, or fails to, keeps it.
LEMMA WriteSave ==
    ASSUME TypeOK, AnnouncedIntact, SaveInv, NEW t \in 1 .. Threads, Write(t)
    PROVE  SaveInv'
<1>1. PICK i, b : workers[t] = [index |-> i, block |-> b]
  BY DEF SaveInv, SaveTypeOK
<1>2. /\ i \in Pieces /\ b \in Blocks /\ i \in verified
      /\ UNCHANGED <<verified, jobs>> /\ FinishCount = NumBlocks
  <2>1. workers[t].index = i /\ workers[t].block = b /\ workers[t] # Idle
    BY <1>1 DEF Write
  <2>2. i \in verified
    BY <2>1 DEF SaveInv, WorkVerified
  <2>3. b \in Blocks
    BY <2>1 DEF SaveInv, SaveTypeOK
  <2>4. UNCHANGED <<verified, jobs>>
    BY DEF Write, vars, history
  <2> QED
    BY <2>2, <2>3, <2>4 DEF TypeOK, SaveInv, WorkVerified
<1>3. piece[i].data[b] = "good"
  BY <1>2 DEF AnnouncedIntact
<1>4. CASE /\ file' = [file EXCEPT ![Offset(i) + b] = <<i, piece[i].data[b]>>]
           /\ workers' = [workers EXCEPT ![t] =
                            IF b + 1 = Size THEN Idle ELSE [index |-> i, block |-> b + 1]]
           /\ UNCHANGED latest
  <2> DEFINE next == IF b + 1 = Size THEN Idle ELSE [index |-> i, block |-> b + 1]
  <2>1. next \in [index: Pieces \cup {NoPiece}, block: Blocks]
    BY <1>2, PieceAssumption DEF Idle, Size
  <2>2. next = Idle \/ next.index = i
    OBVIOUS
  <2>3. next = Idle => b = NumBlocks - 1
    BY <1>2 DEF Idle, Size
  <2>4. next # Idle => next = [index |-> i, block |-> b + 1] /\ b + 1 \in Blocks
    BY <1>2, PieceAssumption DEF Size
  <2>5. workers' = [workers EXCEPT ![t] = next]
    BY <1>4
  <2> HIDE DEF next
  <2>6. workers'[t] = next /\ \A u \in 1 .. Threads : u # t => workers'[u] = workers[u]
    BY <2>5 DEF SaveInv, SaveTypeOK
  <2>7. /\ Offset(i) + b \in Positions /\ (Offset(i) + b) \div SlotBlocks = i
        /\ file \in FileType
    BY <1>2, OffsetInSlot DEF SaveInv, SaveTypeOK
  <2>8. /\ file' \in FileType /\ file'[Offset(i) + b] = <<i, "good">>
        /\ \A pos \in Positions : pos # Offset(i) + b => file'[pos] = file[pos]
    BY <1>2, <1>3, <1>4, <2>7 DEF FileType
  <2>9. SaveTypeOK'
    BY <1>2, <1>4, <2>1, <2>5, <2>8 DEF SaveInv, SaveTypeOK
  <2>10. WorkVerified'
    <3>1. \A u \in 1 .. Threads : workers'[u] # Idle => workers'[u].index \in verified'
      BY <1>2, <2>2, <2>6 DEF SaveInv, WorkVerified
    <3> QED
      BY <1>2, <1>4, <3>1 DEF SaveInv, WorkVerified
  <2>11. FileIntact'
    BY <2>7, <2>8 DEF SaveInv, FileIntact, FileType
  <2>12. ASSUME NEW j \in Pieces, NEW k, Written(j, k), Written(j, k)
         PROVE  Written(j, k)'
    <3> SUFFICES ASSUME NEW c \in Blocks, c < k PROVE file'[Offset(j) + c] = <<j, "good">>
      BY DEF Written
    <3>1. /\ Offset(j) + c \in Positions /\ (Offset(j) + c) \div SlotBlocks = j
          /\ file[Offset(j) + c] = <<j, "good">>
      BY <1>2, <2>12, OffsetInSlot DEF Written
    <3> QED
      BY <2>7, <2>8, <3>1
  <2>13. LatestProgress'
    <3> SUFFICES ASSUME ~latest.failed, NEW j, j = latest.index, j # NoPiece
                 PROVE  \/ Written(j, NumBlocks)'
                        \/ \E u \in 1 .. Threads, k \in Blocks :
                              workers'[u] = [index |-> j, block |-> k] /\ Written(j, k)'
      BY <1>4 DEF LatestProgress
    <3>1. j \in Pieces
      BY DEF SaveInv, SaveTypeOK
    <3>2. CASE Written(j, NumBlocks)
      BY <2>12, <3>1, <3>2
    <3>3. CASE \E u \in 1 .. Threads, k \in Blocks :
                  workers[u] = [index |-> j, block |-> k] /\ Written(j, k)
      <4>1. PICK u \in 1 .. Threads, k \in Blocks :
                  workers[u] = [index |-> j, block |-> k] /\ Written(j, k)
        BY <3>3
      <4>2. Written(j, k)'
        BY <2>12, <3>1, <4>1
      <4>3. CASE u # t
        BY <2>6, <4>1, <4>2, <4>3
      <4>4. CASE u = t
        <5>1. j = i /\ k = b
          BY <1>1, <4>1, <4>4
        <5>2. Written(i, b + 1)'
          BY <1>2, <2>8, <4>2, <5>1 DEF Written
        <5>3. b + 1 = NumBlocks => Written(i, NumBlocks)'
          BY <5>2
        <5> QED
          BY <1>2, <2>3, <2>4, <2>6, <5>1, <5>2, <5>3, PieceAssumption
      <4> QED
        BY <4>3, <4>4
    <3>4. Written(j, NumBlocks) \/ \E u \in 1 .. Threads, k \in Blocks :
              workers[u] = [index |-> j, block |-> k] /\ Written(j, k)
      BY DEF SaveInv, LatestProgress
    <3> QED
      BY <3>2, <3>3, <3>4
  <2> QED
    BY <2>9, <2>10, <2>11, <2>13 DEF SaveInv
<1>5. CASE /\ workers' = [workers EXCEPT ![t] = Idle]
           /\ latest' = IF latest.index = i THEN [latest EXCEPT !.failed = TRUE] ELSE latest
           /\ UNCHANGED file
  <2>1. /\ workers'[t] = Idle
        /\ \A u \in 1 .. Threads : u # t => workers'[u] = workers[u]
    BY <1>5 DEF SaveInv, SaveTypeOK
  <2>2. workers' \in [1 .. Threads -> [index: Pieces \cup {NoPiece}, block: Blocks]]
    BY <1>5, PieceAssumption DEF Idle, SaveInv, SaveTypeOK
  <2>3. /\ latest' \in [index: Pieces \cup {NoPiece}, failed: BOOLEAN]
        /\ latest'.index = latest.index /\ (latest.index = i => latest'.failed)
        /\ latest.index # i => latest' = latest
    BY <1>5 DEF SaveInv, SaveTypeOK
  <2>4. SaveTypeOK'
    BY <1>2, <1>5, <2>2, <2>3 DEF SaveInv, SaveTypeOK
  <2>5. WorkVerified'
    BY <1>2, <2>1, <2>3 DEF SaveInv, WorkVerified
  <2>6. FileIntact'
    BY <1>5 DEF SaveInv, FileIntact
  <2>7. LatestProgress'
    <3> SUFFICES ASSUME latest' = latest, latest.index # i, ~latest.failed, latest.index # NoPiece,
                        NEW j, j = latest.index
                 PROVE  \/ Written(j, NumBlocks)'
                        \/ \E u \in 1 .. Threads, k \in Blocks :
                              workers'[u] = [index |-> j, block |-> k] /\ Written(j, k)'
      BY <2>3 DEF LatestProgress
    <3>1. \A k : Written(j, k)' <=> Written(j, k)
      BY <1>5 DEF Written
    <3>2. ASSUME NEW u \in 1 .. Threads, NEW k, workers[u] = [index |-> j, block |-> k]
          PROVE  workers'[u] = workers[u]
      BY <1>1, <2>1, <3>2
    <3> QED
      BY <3>1, <3>2 DEF SaveInv, LatestProgress
  <2> QED
    BY <2>4, <2>5, <2>6, <2>7 DEF SaveInv
<1>6. workers[t].index = i /\ workers[t].block = b
  BY <1>1
<1> QED
  BY <1>4, <1>5, <1>6 DEF Write

\* The threads and the loop, in whatever order they run, keep the invariant.
LEMMA NextSave ==
    TypeOK /\ SchedulerConsistent /\ AnnouncedIntact /\ SaveInv /\ [SaveNext]_<<vars, saveVars>>
        => SaveInv'
<1> SUFFICES ASSUME TypeOK, SchedulerConsistent, AnnouncedIntact, SaveInv,
                    [SaveNext]_<<vars, saveVars>>
             PROVE  SaveInv'
  OBVIOUS
<1>1. CASE LoopStep
  BY <1>1, LoopSave
<1>2. ASSUME NEW t \in 1 .. Threads, Open(t) PROVE SaveInv'
  BY <1>2, OpenSave
<1>3. ASSUME NEW t \in 1 .. Threads, Write(t) PROVE SaveInv'
  BY <1>3, WriteSave
<1>4. CASE UNCHANGED <<vars, saveVars>>
  BY <1>4 DEF vars, history, saveVars, SaveInv, SaveTypeOK, WorkVerified, FileIntact,
              LatestProgress, Written
<1> QED
  BY <1>1, <1>2, <1>3, <1>4 DEF SaveNext

\* The invariant holds in every run in which what was announced stays intact.
LEMMA SaveKept ==
    ASSUME Closing = {} \/ \E p : Peers = {p}
    PROVE  SaveSpec => []SaveInv
<1>1. Spec => []AnnouncedIntact
  BY IntactIfAnnounced
<1> QED
  BY <1>1, InitSave, NextSave, SaveRuns, TypeCorrect, Consistent, PTL DEF SaveSpec

\* With one remote, whatever it does, or with remotes that never close, no thread
\* of the pool writes a byte that is not the torrent's, although write_piece reads
\* the piece while the loop's thread goes on.
THEOREM FileKeptIntact ==
    ASSUME Closing = {} \/ \E p : Peers = {p}
    PROVE  SaveSpec => []FileIntact
<1>1. SaveInv => FileIntact
  BY DEF SaveInv
<1> QED
  BY <1>1, SaveKept, PTL

\* Under the same condition, when the pool has come to rest, the piece whose
\* write_piece opened the file last is in it as a whole.
THEOREM LatestKeptWhole ==
    ASSUME Closing = {} \/ \E p : Peers = {p}
    PROVE  SaveSpec => []LatestIsWhole
<1>1. SaveInv => LatestIsWhole
  <2> SUFFICES ASSUME SaveInv, \A t \in 1 .. Threads : workers[t] = Idle,
                      latest.index # NoPiece, ~latest.failed, NEW b \in Blocks
               PROVE  file[latest.index * SlotBlocks + b] = <<latest.index, "good">>
    BY DEF LatestIsWhole
  <2>1. Written(latest.index, NumBlocks)
    <3>1. ASSUME NEW k PROVE Idle # [index |-> latest.index, block |-> k]
      <4>1. Idle.index = NoPiece /\ [index |-> latest.index, block |-> k].index = latest.index
        BY DEF Idle
      <4> QED
        BY <4>1
    <3> QED
      BY <3>1 DEF SaveInv, LatestProgress
  <2> QED
    BY <2>1, PieceAssumption DEF Written, Offset
<1> QED
  BY <1>1, SaveKept, PTL
=============================================================================
