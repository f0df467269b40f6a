------------------------------- MODULE Framing -------------------------------
(***************************************************************************)
(* The receive path of one connection: on_read, on_receive_internal and    *)
(* setup_receive of peer_connection_core, the on_receive of peer_connection *)
(* with its five states, and what the message handlers do to the framing.  *)
(*                                                                         *)
(* The remote's bytes are fixed in Init; how the socket cuts them into     *)
(* reads is not.  pc walks through one read callback, an action for each   *)
(* iteration of its loop and for each "if" of on_receive.                  *)
(***************************************************************************)
EXTENDS Integers, Sequences, SequencesExt, Messages, RecvBuffer

CONSTANTS
    InfoHash,               \* m_peer_info.m_info_hash
    PeerId,                 \* m_peer_info.m_remote_id
    PieceCount,             \* the pieces of the torrent
    InitialCapacity,        \* the 16 KB that send_handshake reserves
    Handshakes,             \* what the remotes send first
    Sends,                  \* and then: sequences of messages
    OwnSends,               \* what a remote that is this program too writes
    MayFail,                \* TRUE: a read may end in an error at any time
    MaxHandled              \* bound: messages handled before the last read

LengthSize == 4             \* MESSAGE_LENGTH_SIZE

ProtocolSize == 1 + Len(PROTOCOL_ID)
InfoHashSize == RESERVED_BYTES_LENGTH + Len(InfoHash)
PeerIdSize == Len(PeerId)

ASSUME FramingAssumption ==
    /\ PROTOCOL_ID \in Seq(Byte) /\ Len(PROTOCOL_ID) \in Byte
    /\ InfoHash \in Seq(Byte) /\ PeerId \in Seq(Byte)
    /\ RESERVED_BYTES_LENGTH \in Nat /\ PieceCount \in Nat
    /\ InfoHashSize > 0 /\ PeerIdSize > 0
    /\ InitialCapacity \in Nat /\ InitialCapacity > 1
    /\ Handshakes \subseteq Seq(Byte)
    /\ Sends \subseteq Seq(Seq(Byte)) /\ OwnSends \subseteq Seq(Seq(Byte))
    /\ MayFail \in BOOLEAN /\ MaxHandled \in Nat

VARIABLES
    sent,       \* the messages of the remote
    bytes,      \* its stream: the handshake and the messages, each with its length
    recvd,      \* how many bytes of the stream were read
    pc,         \* where the loop thread is in the connection's code
    total,      \* total_bytes of on_receive_internal
    passed,     \* passed_bytes
    buf,        \* m_recv_buffer
    state,      \* m_state
    disconnect, \* m_disconnect
    choked,     \* m_choked
    active,     \* m_active
    delivered   \* history: what do_message was called with

stream == <<sent, bytes>>
flags == <<disconnect, choked, active>>
vars == <<stream, recvd, pc, total, passed, buf, state, flags, delivered>>

Framed(messages) ==
    FlattenSeq([i \in DOMAIN messages |-> SerializeInt(Len(messages[i])) \o messages[i]])

\* The messages in what this program writes: a length in front of each.
Bodies(writes) == [i \in DOMAIN writes |-> SubSeq(writes[i], LengthSize + 1, Len(writes[i]))]

\* start and send_handshake: 16 KB reserved, the first reset, uv_read_start.
Init ==
    /\ \/ sent \in Sends /\ bytes \in {h \o Framed(sent) : h \in Handshakes}
       \/ \E writes \in OwnSends :
            /\ sent = Bodies(writes)
            /\ bytes = Handshake(InfoHash, PeerId) \o FlattenSeq(writes)
    /\ recvd = 0 /\ total = 0 /\ passed = 0
    /\ pc = "idle"
    /\ buf = Reset(Reserve(EmptyBuffer, InitialCapacity), ProtocolSize)
    /\ state = "READ_PROTOCOL_ID"
    /\ disconnect = FALSE /\ choked = TRUE /\ active = FALSE
    /\ delivered = <<>>

-----------------------------------------------------------------------------
(* peer_connection_core.                                                   *)

\* on_read with n bytes, 0 when the socket had none after all.
OnRead(n) ==
    /\ pc = "idle" /\ n <= MaxReceive(buf) /\ recvd + n <= Len(bytes)
    /\ Len(delivered) < MaxHandled
    /\ buf' = Received(buf, SubSeq(bytes, recvd + 1, recvd + n))
    /\ recvd' = recvd + n /\ total' = n
    /\ pc' = IF ReceivedAsserts(buf) THEN "passing" ELSE "aborted"
    /\ UNCHANGED <<stream, passed, state, flags, delivered>>

\* on_read with an error, or the end of the stream.  What on_remote_close does
\* is in the module Download.
OnRemoteClose ==
    /\ pc = "idle" /\ (MayFail \/ recvd = Len(bytes))
    /\ pc' = "closed"
    /\ UNCHANGED <<stream, recvd, total, passed, buf, state, flags, delivered>>

\* on_receive_internal, the body of its loop up to the call of on_receive.
PassBytes ==
    /\ pc = "passing"
    /\ passed' = Advance(buf, total)
    /\ buf' = AdvancePos(buf, total)
    /\ pc' = "on_receive"
    /\ UNCHANGED <<stream, recvd, total, state, flags, delivered>>

\* setup_receive.  A full buffer grows twice: both tests look at the same number.
Grown(b) == IF MaxReceive(b) = 0 THEN Grow(Grow(b)) ELSE b
Room(b) == Grown(Clean(b))
SetupReceive ==
    IF ReserveAsserts(Room(buf), MaxReceive(Room(buf))) /\ PosAtEnd(Room(buf))
    THEN /\ buf' = Reserve(Room(buf), MaxReceive(Room(buf)))
         /\ pc' = "idle"
    ELSE pc' = "aborted" /\ UNCHANGED buf

\* on_receive_internal after on_receive: the loop goes on whatever m_disconnect
\* says; behind the loop the socket is closed or made ready for the next read.
EndOfLoop ==
    /\ pc = "returned"
    /\ total' = total - passed
    /\ IF total' > 0 /\ passed > 0
       THEN pc' = "passing" /\ UNCHANGED buf
       ELSE IF disconnect THEN pc' = "closed" /\ UNCHANGED buf ELSE SetupReceive
    /\ UNCHANGED <<stream, recvd, passed, state, flags, delivered>>

\* fetch_piece, called between two reads, makes the buffer ready once more.
FetchSetup ==
    /\ pc = "idle" /\ active /\ ~choked
    /\ SetupReceive
    /\ UNCHANGED <<stream, recvd, total, passed, state, flags, delivered>>

-----------------------------------------------------------------------------
(* peer_connection::on_receive.  Each state is an "if"; the ones behind it  *)
(* are entered in the same call when the state has moved on.               *)

In(s) == pc = "on_receive" /\ state = s

Return == pc' = "returned" /\ UNCHANGED <<buf, state, flags, delivered>>
Abort == pc' = "aborted" /\ UNCHANGED <<buf, state, flags, delivered>>

\* The assertions on the message size and on the size of what get returns.
SizeAsserted(size) == buf.size = size /\ Len(Get(buf)) = size

\* The next state, and the size of the message it waits for.
Await(s, size) ==
    IF ResetAsserts(buf, size)
    THEN state' = s /\ buf' = Reset(buf, size) /\ pc' = pc
    ELSE pc' = "aborted" /\ UNCHANGED <<buf, state>>

Mismatch ==
    /\ disconnect' = TRUE
    /\ pc' = "returned"
    /\ UNCHANGED <<buf, state, choked, active, delivered>>

ReadProtocolId ==
    /\ In("READ_PROTOCOL_ID")
    /\ \/ ~IsMessageFinished(buf) /\ Return
       \/ IsMessageFinished(buf) /\ ~SizeAsserted(ProtocolSize) /\ Abort
       \/ /\ IsMessageFinished(buf) /\ SizeAsserted(ProtocolSize)
          /\ IF Get(buf) = <<Len(PROTOCOL_ID)>> \o PROTOCOL_ID
             THEN Await("READ_INFO_HASH", InfoHashSize) /\ UNCHANGED <<flags, delivered>>
             ELSE Mismatch
    /\ UNCHANGED <<stream, recvd, total, passed>>

\* The reserved bytes are skipped.
ReadInfoHash ==
    /\ In("READ_INFO_HASH")
    /\ \/ buf.size = InfoHashSize /\ ~IsMessageFinished(buf) /\ Return
       \/ /\ buf.size # InfoHashSize \/ (IsMessageFinished(buf) /\ ~SizeAsserted(InfoHashSize))
          /\ Abort
       \/ /\ IsMessageFinished(buf) /\ SizeAsserted(InfoHashSize)
          /\ IF SubSeq(Get(buf), RESERVED_BYTES_LENGTH + 1, InfoHashSize) = InfoHash
             THEN Await("READ_PEER_ID", PeerIdSize) /\ UNCHANGED <<flags, delivered>>
             ELSE Mismatch
    /\ UNCHANGED <<stream, recvd, total, passed>>

IsPeerId_NotCompared(chunk) == TRUE
IsPeerId(chunk) == chunk = PeerId

ReadPeerId ==
    /\ In("READ_PEER_ID")
    /\ \/ buf.size = PeerIdSize /\ ~IsMessageFinished(buf) /\ Return
       \/ /\ buf.size # PeerIdSize \/ (IsMessageFinished(buf) /\ ~SizeAsserted(PeerIdSize))
          /\ Abort
       \/ /\ IsMessageFinished(buf) /\ SizeAsserted(PeerIdSize)
          /\ IF IsPeerId(Get(buf))
             THEN /\ active' = TRUE
                  /\ Await("READ_MESSAGE_SIZE", LengthSize)
                  /\ UNCHANGED <<disconnect, choked, delivered>>
             ELSE Mismatch
    /\ UNCHANGED <<stream, recvd, total, passed>>

\* A length of 0, a keep-alive, returns and leaves the buffer as it is; so does
\* a length below 0.
ReadMessageSize ==
    /\ In("READ_MESSAGE_SIZE")
    /\ \/ buf.size # LengthSize /\ Abort
       \/ buf.size = LengthSize /\ ~IsMessageFinished(buf) /\ Return
       \/ /\ buf.size = LengthSize /\ IsMessageFinished(buf)
          /\ DeserializeInt(Get(buf)) <= 0 /\ Return
       \/ /\ buf.size = LengthSize /\ IsMessageFinished(buf)
          /\ DeserializeInt(Get(buf)) > 0
          /\ Await("READ_MESSAGE", DeserializeInt(Get(buf)))
          /\ UNCHANGED <<flags, delivered>>
    /\ UNCHANGED <<stream, recvd, total, passed>>

ReadMessage ==
    /\ In("READ_MESSAGE") /\ ~IsMessageFinished(buf)
    /\ Return
    /\ UNCHANGED <<stream, recvd, total, passed>>

-----------------------------------------------------------------------------
(* do_message and its handlers, which get the message from the buffer.     *)

Handling(id) ==
    /\ In("READ_MESSAGE") /\ IsMessageFinished(buf)
    /\ Get(buf)[1] = id
    /\ delivered' = Append(delivered, Get(buf))

NextMessage ==
    IF ResetAsserts(buf, LengthSize)
    THEN state' = "READ_MESSAGE_SIZE" /\ buf' = Reset(buf, LengthSize) /\ pc' = "returned"
    ELSE pc' = "aborted" /\ UNCHANGED <<buf, state>>

\* handle_bitfield: the bitfield constructor asserts size - 5 > 0, and memcpy
\* cannot get what a size below 5 wraps round to.  Unchoked, it returns and
\* leaves the message in the buffer.
HandleBitfield ==
    /\ Handling(BITFIELD)
    /\ IF Len(Get(buf)) <= 5
       THEN pc' = "aborted" /\ UNCHANGED <<buf, state>>
       ELSE IF choked THEN NextMessage ELSE pc' = "returned" /\ UNCHANGED <<buf, state>>
    /\ UNCHANGED <<stream, recvd, total, passed, flags>>

HandleUnchoke ==
    /\ Handling(UNCHOKE)
    /\ choked' = FALSE /\ NextMessage
    /\ UNCHANGED <<stream, recvd, total, passed, disconnect, active>>

HandleChoke ==
    /\ Handling(CHOKE)
    /\ choked' = TRUE /\ NextMessage
    /\ UNCHANGED <<stream, recvd, total, passed, disconnect, active>>

\* handle_piece: get_piece asserts that there is a piece of that index.  What
\* happens to the block is in the module Download.
HandlePiece ==
    /\ Handling(PIECE)
    /\ IF BlockIndex(Get(buf)) \in 0 .. PieceCount - 1
       THEN NextMessage
       ELSE pc' = "aborted" /\ UNCHANGED <<buf, state>>
    /\ UNCHANGED <<stream, recvd, total, passed, flags>>

\* The default of do_message, for the ids it does not handle.
HandleOther ==
    /\ \E id \in Byte \ {CHOKE, UNCHOKE, BITFIELD, PIECE} : Handling(id)
    /\ NextMessage
    /\ UNCHANGED <<stream, recvd, total, passed, flags>>

-----------------------------------------------------------------------------
OnReceive ==
    \/ ReadProtocolId \/ ReadInfoHash \/ ReadPeerId \/ ReadMessageSize \/ ReadMessage
    \/ HandleBitfield \/ HandleUnchoke \/ HandleChoke \/ HandlePiece \/ HandleOther

Callback == PassBytes \/ OnReceive \/ EndOfLoop

Next ==
    \/ \E n \in 0 .. Len(bytes) : OnRead(n)
    \/ OnRemoteClose \/ FetchSetup \/ Callback

Spec == Init /\ [][Next]_vars

\* The loop thread finishes a callback, and the kernel delivers what was sent:
\* reads of no bytes come between, but not for ever.
FairSpec ==
    /\ Spec
    /\ WF_vars(Callback)
    /\ SF_vars(\E n \in 1 .. Len(bytes) : OnRead(n))
-----------------------------------------------------------------------------
(* Properties.                                                             *)

\* on_receive_internal and recv_buffer agree, whatever the remote sends and
\* however it arrives: what total_bytes says is left to pass on is what lies
\* between the position and the end of the buffer; between two reads nothing is
\* left, the message is at the front of the buffer, and there is room to read.
Left == RecvEnd(buf) - buf.start - buf.pos
EveryByteAccounted ==
    /\ buf.start >= 0 /\ buf.pos >= 0 /\ buf.size > 0 /\ RecvEnd(buf) <= buf.cap
    /\ pc = "idle" => Left = 0 /\ buf.start = 0 /\ MaxReceive(buf) > 0
    /\ pc = "passing" => Left = total /\ total >= 0
    /\ pc \in {"on_receive", "returned"} => Left = total - passed /\ 0 <= passed /\ passed <= total

\* The moves in the buffer (cut, clean, grow, the next read behind what is there)
\* keep the bytes: it holds the last bytes of the stream that were read.
BufferHoldsStream ==
    LET n == RecvEnd(buf) - buf.start
    IN  SubSeq(buf.mem, buf.start + 1, RecvEnd(buf)) = SubSeq(bytes, recvd - n + 1, recvd)

\* m_active, and every message handled, comes after a handshake with the right
\* protocol, info hash and peer id.
HandshakeFirst ==
    active \/ delivered # <<>> =>
        LET h == SubSeq(bytes, 1, recvd)
            n == ProtocolSize + InfoHashSize
        IN  /\ n + PeerIdSize <= recvd
            /\ SubSeq(h, 1, ProtocolSize) = <<Len(PROTOCOL_ID)>> \o PROTOCOL_ID
            /\ SubSeq(h, ProtocolSize + RESERVED_BYTES_LENGTH + 1, n) = InfoHash
            /\ SubSeq(h, n + 1, n + PeerIdSize) = PeerId

\* A remote that keeps to the protocol: the right handshake, no keep-alive, a
\* BITFIELD of more than 32 pieces before the UNCHOKE, blocks of the torrent.
RightHandshake(h) ==
    \E reserved \in [1 .. RESERVED_BYTES_LENGTH -> Byte] :
        h = <<Len(PROTOCOL_ID)>> \o PROTOCOL_ID \o reserved \o InfoHash \o PeerId

Choked(messages, k) ==
    \A i \in 1 .. k :
        messages[i][1] = UNCHOKE => \E j \in i + 1 .. k : messages[j][1] = CHOKE

MaxLength == 2147483647

LegalMessages(messages) ==
    \A i \in DOMAIN messages :
        /\ 0 < Len(messages[i]) /\ Len(messages[i]) <= MaxLength
        /\ messages[i][1] = BITFIELD => Len(messages[i]) > 5 /\ Choked(messages, i - 1)
        /\ messages[i][1] = PIECE =>
              Len(messages[i]) >= 5 /\ BlockIndex(messages[i]) \in 0 .. PieceCount - 1

\* The length in front of a write is that of the message behind it.
OwnLength(w) == Len(w) > LengthSize /\ SubSeq(w, 1, LengthSize) = SerializeInt(Len(w) - LengthSize)

LegalRemotes ==
    /\ \A h \in Handshakes : RightHandshake(h)
    /\ \A messages \in Sends : LegalMessages(messages)
    /\ \A writes \in OwnSends :
          LegalMessages(Bodies(writes)) /\ \A i \in DOMAIN writes : OwnLength(writes[i])

\* The assertions of recv_buffer, of on_receive ("assert(size == 20)",
\* peer_connection.cpp:336) and of the bitfield constructor hold.
AssertionsHold == pc # "aborted"

\* The receive path is a channel: every message reaches do_message once, whole
\* and in order, and all of them in the end; also from a remote that is this
\* program: the lengths in what it writes are those of its messages.
Channel == INSTANCE MessageChannel
           WITH Sends <- Sends \cup {Bodies(writes) : writes \in OwnSends},
                sent <- sent, delivered <- delivered
Delivers == Channel!Spec

\* peer_connection.cpp:363, "keep alive message": it is a message like the others,
\* and the ones behind it are handled too.
KeepAliveSkipped == <>(delivered = SelectSeq(sent, LAMBDA m : m # <<>>))
=============================================================================
