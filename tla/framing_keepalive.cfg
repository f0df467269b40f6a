\* A keep-alive between two messages.
SPECIFICATION FairSpec
CONSTANTS
    PROTOCOL_ID <- Two
    RESERVED_BYTES_LENGTH = 1
    InfoHash <- Hash
    PeerId <- Remote
    InitialCapacity = 4
    Handshakes <- Good
    Sends <- KeepAliveSends
    OwnSends = {}
    PieceCount = 2
    MayFail = FALSE
    MaxHandled = 8
PROPERTIES KeepAliveSkipped
CHECK_DEADLOCK FALSE
