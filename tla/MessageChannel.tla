--------------------------- MODULE MessageChannel ---------------------------
(***************************************************************************)
(* What the receive path of a connection promises: every message the       *)
(* remote sends reaches do_message, once, whole and in the order sent,     *)
(* however TCP cuts the stream into reads.                                 *)
(***************************************************************************)
EXTENDS Naturals, Sequences

CONSTANT Sends      \* the sequences of messages a remote may send

VARIABLES sent, delivered

Init == sent \in Sends /\ delivered = <<>>

Deliver ==
    /\ Len(delivered) < Len(sent)
    /\ delivered' = Append(delivered, sent[Len(delivered) + 1])
    /\ UNCHANGED sent

Spec == Init /\ [][Deliver]_<<sent, delivered>> /\ WF_<<sent, delivered>>(Deliver)
=============================================================================
