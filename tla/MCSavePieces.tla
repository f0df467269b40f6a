---------------------------- MODULE MCSavePieces ----------------------------
(***************************************************************************)
(* An instance of SavePieces for TLC.                                      *)
(***************************************************************************)
EXTENDS SavePieces

CONSTANTS p1

\* Every BITFIELD.
AnyBitfield == SUBSET Pieces
=============================================================================
