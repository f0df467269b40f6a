------------------------------- MODULE Piece -------------------------------
(***************************************************************************)
(* piece.h, piece.cpp: one piece of the torrent while it is downloaded.    *)
(* A piece is a record; the operators are the methods of class piece.      *)
(*                                                                         *)
(*   backlog    m_backlog, requests sent and not yet answered              *)
(*   requested  m_total_requested, in blocks of BLOCK_LENGTH               *)
(*   count      m_received_count.  m_received_bytes grows by one whole     *)
(*              block whenever m_received_count grows by one, and is reset *)
(*              with it: in units of BLOCK_LENGTH they are one number.     *)
(*   data       m_data, one cell per block: "none" (zeroes), "good" (the   *)
(*              bytes the torrent file's hash was computed from) or "bad". *)
(*                                                                         *)
(* A piece length is a whole number of blocks: piece_manager gives every   *)
(* piece, the last one too, the torrent's "piece length", a multiple of    *)
(* BLOCK_LENGTH in every torrent this client is used with.                 *)
(*                                                                         *)
(* A definition Name_Fault in this module and the others is Name with one  *)
(* plausible mistake, kept to show that the properties notice it.          *)
(***************************************************************************)
EXTENDS Integers

CONSTANTS NumBlocks,    \* piece length / BLOCK_LENGTH
          FinishCount   \* the literal 16 of piece::download_finished

ASSUME PieceAssumption ==
    /\ NumBlocks \in Nat \ {0}
    /\ FinishCount \in Nat \ {0}

Blocks == 0 .. NumBlocks - 1

Cell == {"none", "good", "bad"}

PieceType == [backlog: Int, requested: 0 .. NumBlocks, count: Nat, data: [Blocks -> Cell]]

\* piece::piece(index, hash, length): no request made, no byte received.
NewPiece ==
    [backlog |-> 0, requested |-> 0, count |-> 0, data |-> [b \in Blocks |-> "none"]]

\* piece::incoming_block: the block overwrites its place whatever was there,
\* and is counted whether or not it was received before.
IncomingBlock(x, b, d) ==
    [backlog |-> x.backlog, requested |-> x.requested, count |-> x.count + 1,
     data |-> [x.data EXCEPT ![b] = d]]

\* handle_piece: incoming_block, then m_backlog--.
BlockArrived(x, b, d) == [IncomingBlock(x, b, d) EXCEPT !.backlog = @ - 1]

\* piece::reset: the counters go to zero, and memset clears only the first
\* m_received_bytes bytes, so a block received out of order can survive it.
ResetPiece(x) ==
    [backlog |-> 0, requested |-> 0, count |-> 0,
     data |-> [b \in Blocks |-> IF b < x.count THEN "none" ELSE x.data[b]]]

\* piece::download_finished: a count, compared for equality.
DownloadFinished_OffByOne(x) == x.count = FinishCount + 1
DownloadFinished(x) == x.count = FinishCount

\* piece::verify_integrity: the hash of the first m_received_bytes bytes is the
\* expected one only when these are the whole piece and every block is right.
VerifyIntegrity_CountOnly(x) == x.count = NumBlocks
VerifyIntegrity(x) == x.count = NumBlocks /\ \A b \in Blocks : x.data[b] = "good"

\* The request loop of fetch_piece: how many blocks it asks for, the limit being
\* MAX_BACKLOG, and the piece once it has.
ToRequest_NoEnd(x, limit) == IF x.backlog < limit THEN limit - x.backlog ELSE 0
ToRequest(x, limit) ==
    LET room == limit - x.backlog
        left == NumBlocks - x.requested
    IN  IF room <= 0 THEN 0 ELSE IF room < left THEN room ELSE left

Request_NoBacklog(x, limit) == [x EXCEPT !.requested = @ + ToRequest(x, limit)]
Request(x, limit) ==
    [backlog |-> x.backlog + ToRequest(x, limit), requested |-> x.requested + ToRequest(x, limit),
     count |-> x.count, data |-> x.data]
============================================================================
