----------------------------- MODULE MCDownload -----------------------------
(***************************************************************************)
(* Instances of Download for TLC.                                          *)
(***************************************************************************)
EXTENDS Download

CONSTANTS p1, p2

\* A BITFIELD that has everything, and every BITFIELD.
FullBitfield == {Pieces}
AnyBitfield == SUBSET Pieces
=============================================================================
