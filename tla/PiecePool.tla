----------------------------- MODULE PiecePool -----------------------------
(***************************************************************************)
(* What the download scheduler promises about the pieces of a torrent,     *)
(* whatever becomes of its queue and its wake-ups: workers take pieces     *)
(* from a pool; a worker touches no other worker's piece; and a piece that *)
(* leaves the pool or a worker's hand is in a hand, back in the pool,      *)
(* done, or dropped, which is for ever and is told.                        *)
(***************************************************************************)
CONSTANTS Workers, Work,
          Nothing       \* no piece, not in Work

VARIABLES pool,     \* the pieces that wait for a worker
          hand,     \* [Workers]: the piece a worker has, or Nothing
          done,     \* the pieces that are finished
          dropped   \* the pieces that nobody can be expected to finish

vars == <<pool, hand, done, dropped>>

Init ==
    /\ pool = Work /\ hand = [p \in Workers |-> Nothing]
    /\ done = {} /\ dropped = {}

\* Worker p finishes, gives back, takes or drops pieces, in one go.
Act(p) ==
    /\ done' \in SUBSET Work /\ done \subseteq done'
    /\ dropped' \in SUBSET Work /\ dropped \subseteq dropped'
    /\ pool' \in SUBSET Work
    /\ \E i \in Work \cup {Nothing} : hand' = [hand EXCEPT ![p] = i]
    /\ pool \cup {hand[p]} \subseteq
           pool' \cup {hand'[p], Nothing} \cup done' \cup dropped'

Next == \E p \in Workers : Act(p)

Spec == Init /\ [][Next]_vars

\* It follows that every piece is somewhere.
Accounted ==
    \A i \in Work : i \in pool \cup done \cup dropped \/ \E p \in Workers : hand[p] = i
=============================================================================
