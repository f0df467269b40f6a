\* A handshake with a wrong peer id and a message behind it.
SPECIFICATION Spec
CONSTANTS
    PROTOCOL_ID <- Two
    RESERVED_BYTES_LENGTH = 1
    InfoHash <- Hash
    PeerId <- Remote
    InitialCapacity = 4
    Handshakes <- BadPeer
    Sends <- HaveSends
    OwnSends = {}
    PieceCount = 2
    MayFail = FALSE
    MaxHandled = 8
INVARIANTS AssertionsHold
CHECK_DEADLOCK FALSE
