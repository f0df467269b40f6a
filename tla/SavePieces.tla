----------------------------- MODULE SavePieces -----------------------------
(***************************************************************************)
(* Saving the pieces: uv_queue_work hands a piece that try_download found  *)
(* whole to libuv's thread pool, where save_piece calls write_piece.       *)
(* write_piece opens the file anew, which truncates it, seeks to the place *)
(* of the piece and writes what the piece holds by then, while the loop's  *)
(* thread goes on.                                                         *)
(***************************************************************************)
EXTENDS Download

CONSTANTS Threads,      \* threads of libuv's pool, 4 unless UV_THREADPOOL_SIZE says otherwise
          MaxOffset     \* what an int can hold, in blocks: 2^31 / BLOCK_LENGTH

\* 1024 * 256 bytes in blocks, 16 like the literal of piece::download_finished.
SlotBlocks == FinishCount

\* A torrent of less than 4 GB: no offset wraps to that of another piece.
ASSUME SaveAssumption ==
    /\ Threads \in Nat \ {0} /\ MaxOffset \in Nat
    /\ NumPieces * SlotBlocks <= 2 * MaxOffset

VARIABLES jobs,     \* the indices queued with uv_queue_work
          workers,  \* [1 .. Threads]: the index write_piece is at and its next block, or Idle
          file,     \* what is in the file: for each block the piece it came from and its bytes
          latest    \* history: the write_piece that opened the file last: did it fail?

saveVars == <<jobs, workers, file, latest>>

Idle == [index |-> NoPiece, block |-> 0]
Hole == <<NoPiece, "none">>
Empty == [pos \in 0 .. NumPieces * SlotBlocks + NumBlocks |-> Hole]

SaveInit ==
    /\ Init
    /\ jobs = <<>> /\ workers = [t \in 1 .. Threads |-> Idle]
    /\ file = Empty
    /\ latest = [index |-> NoPiece, failed |-> FALSE]

-----------------------------------------------------------------------------
(* The loop's thread. *)

\* The wake-up m goes down the branch of try_download that calls uv_queue_work.
Queues(m) == /\ TRUE \in HasPiece(m.peer, m.index) /\ ~choked[m.peer]
             /\ FinishPiece(m)

LoopStep ==
    /\ Next
    /\ jobs' = IF TryDownload /\ \E m \in wake : Queues(m)
               THEN Append(jobs, Target(CHOOSE m \in wake : TRUE)) ELSE jobs
    /\ UNCHANGED <<workers, file, latest>>

-----------------------------------------------------------------------------
(* A thread of the pool. *)

Offset_FromOne(i) == (i + 1) * SlotBlocks
Offset(i) == i * SlotBlocks

\* A negative offset fails seekp, and then write does nothing; bad() is false.
Fits(i) == Offset(i) < MaxOffset

\* p->size() in blocks.
Size_Short == NumBlocks - 1
Size == NumBlocks

\* The ofstream is opened, or that fails and the piece is not saved.
Open(t) ==
    /\ ~aborted /\ workers[t] = Idle /\ jobs # <<>>
    /\ jobs' = Tail(jobs)
    /\ \/ /\ workers' = [workers EXCEPT ![t] = [index |-> Head(jobs), block |-> 0]]
          /\ file' = Empty
          /\ latest' = [index |-> Head(jobs), failed |-> ~Fits(Head(jobs))]
       \/ UNCHANGED <<workers, file, latest>>
    /\ UNCHANGED vars

\* The next block of output.write, from memory that the loop's thread may be
\* writing to.  A failure is noticed and its result dropped by save_piece.
Write(t) ==
    LET w == workers[t]
    IN  /\ ~aborted /\ w # Idle
        /\ \/ /\ Fits(w.index)
              /\ file' = [file EXCEPT ![Offset(w.index) + w.block] =
                                         <<w.index, piece[w.index].data[w.block]>>]
              /\ workers' = [workers EXCEPT ![t] =
                               IF w.block + 1 = Size THEN Idle
                               ELSE [index |-> w.index, block |-> w.block + 1]]
              /\ UNCHANGED latest
           \/ /\ workers' = [workers EXCEPT ![t] = Idle]
              /\ latest' = IF latest.index = w.index THEN [latest EXCEPT !.failed = TRUE] ELSE latest
              /\ UNCHANGED file
        /\ UNCHANGED <<vars, jobs>>

SaveNext == LoopStep \/ \E t \in 1 .. Threads : Open(t) \/ Write(t)

SaveSpec == SaveInit /\ [][SaveNext]_<<vars, saveVars>>

-----------------------------------------------------------------------------
(* Properties. *)

(* Whatever the threads and the remotes do, the file never holds other bytes
   than the torrent's: every block of it is a hole or the right block of the
   right piece (session.cpp:28-37). *)
FileIntact ==
    \A pos \in DOMAIN file : file[pos] \in {Hole, <<pos \div SlotBlocks, "good">>}

(* When the pool has come to rest, the piece whose write_piece opened the file
   last is in it as a whole.  It is all one can count on: that write_piece took
   the pieces before it off the file (session.cpp:28). *)
LatestIsWhole ==
    jobs = <<>> /\ (\A t \in 1 .. Threads : workers[t] = Idle)
    /\ latest.index # NoPiece /\ ~latest.failed
        => \A b \in Blocks : file[latest.index * SlotBlocks + b] = <<latest.index, "good">>
=============================================================================
