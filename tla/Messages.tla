------------------------------ MODULE Messages ------------------------------
(***************************************************************************)
(* The bytes on the wire: the integers of serial.cpp, the handshake of     *)
(* send_handshake and the messages peer_connection writes, each with the   *)
(* four bytes of its length in front.                                      *)
(***************************************************************************)
EXTENDS Integers, Sequences

CONSTANTS
    PROTOCOL_ID,            \* "BitTorrent protocol"
    RESERVED_BYTES_LENGTH   \* 8

Byte == 0 .. 255

\* serialize_int and deserialize_int: 32 bits, most significant byte first, in
\* two's complement.  Only the first four bytes are looked at.
SerializeInt(n) == <<(n \div 16777216) % 256, (n \div 65536) % 256, (n \div 256) % 256, n % 256>>
DeserializeInt(s) ==
    (IF s[1] < 128 THEN s[1] ELSE s[1] - 256) * 16777216 + s[2] * 65536 + s[3] * 256 + s[4]

\* message_id
CHOKE == 0
UNCHOKE == 1
INTERESTED == 2
HAVE_ID == 4      \* HAVE is a word of TLA+
BITFIELD == 5
REQUEST == 6
PIECE == 7

\* handshake_s as send_handshake fills it; the reserved bytes are 0.
Handshake(infoHash, peerId) ==
    <<Len(PROTOCOL_ID)>> \o PROTOCOL_ID \o [i \in 1 .. RESERVED_BYTES_LENGTH |-> 0]
        \o infoHash \o peerId

\* req_message, interested_message and have_message.  The length of the first is
\* taken from the size of the struct, the others are written down.
RequestMessage(index, offset, length) ==
    SerializeInt(13) \o <<REQUEST>>
        \o SerializeInt(index) \o SerializeInt(offset) \o SerializeInt(length)
InterestedMessage == SerializeInt(1) \o <<INTERESTED>>
HaveMessage(index) == SerializeInt(5) \o <<HAVE_ID>> \o SerializeInt(index)

\* The index handle_piece reads from a message, which starts with its id.
BlockIndex(message) == DeserializeInt(SubSeq(message, 2, 5))
=============================================================================
