----------------------------- MODULE MCFraming -----------------------------
(***************************************************************************)
(* Instances of Framing for TLC: a protocol id, an info hash and a peer id *)
(* of two bytes, one reserved byte.                                        *)
(***************************************************************************)
EXTENDS Framing

Two == <<66, 84>>
Hash == <<1, 2>>
Remote == <<3, 4>>

\* 8 bytes: 1 + 2, 1 + 2, 2.
GoodHandshake == <<2, 66, 84, 0, 1, 2, 3, 4>>
Good == {GoodHandshake}

\* One of its bytes wrong, for each part of the handshake.
BadPeer == {[GoodHandshake EXCEPT ![8] = 9]}
AnyHandshake ==
    Good \cup {[GoodHandshake EXCEPT ![i] = 9] : i \in 1 .. 8} \cup {<<>>, <<2, 66, 84, 0>>}

\* HAVE and PIECE, the second with a block of two bytes; a BITFIELD of 40 pieces.
have == <<4, 0, 0, 0, 1>>
block == <<7, 0, 0, 0, 1, 0, 0, 0, 2, 5, 5>>
bits == <<5, 1, 2, 3, 4, 5>>
keepAlive == <<>>

LegalSends ==
    { <<bits, <<UNCHOKE>>, block, have>>,
      << <<UNCHOKE>>, block, <<CHOKE>>, <<UNCHOKE>>, block>>,
      <<have, <<UNCHOKE>>, <<CHOKE>> >> }

\* Also: a keep-alive, a BITFIELD of 32 pieces, a BITFIELD after the UNCHOKE, a
\* block of a piece the torrent does not have.
AnySends ==
    LegalSends \cup
    { <<bits, keepAlive, <<UNCHOKE>> >>, << <<5, 1, 2, 3, 4>>, have>>,
      << <<UNCHOKE>>, bits, have>>, << <<UNCHOKE>>, <<7, 0, 0, 0, 2, 0, 0, 0, 0, 5>> >> }

\* The writes of this program that has got a BITFIELD, an UNCHOKE and a piece: the
\* offset and the length of a block need their second byte.
OwnWrites ==
    { <<InterestedMessage, RequestMessage(0, 0, 16384)>>,
      <<InterestedMessage, RequestMessage(300, 16384, 16384), HaveMessage(300)>> }

KeepAliveSends == { << <<UNCHOKE>>, keepAlive, have>> }
HaveSends == { <<have>> }

\* What the proofs about AssertionsHold and Delivers assume of a remote is so.
ASSUME LegalAssumption ==
    Sends \subseteq LegalSends /\ Handshakes \subseteq Good => LegalRemotes
=============================================================================
