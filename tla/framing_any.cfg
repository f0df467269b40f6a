\* Any handshake and any messages, read errors at any time.
SPECIFICATION Spec
CONSTANTS
    PROTOCOL_ID <- Two
    RESERVED_BYTES_LENGTH = 1
    InfoHash <- Hash
    PeerId <- Remote
    InitialCapacity = 4
    Handshakes <- AnyHandshake
    Sends <- AnySends
    OwnSends <- OwnWrites
    PieceCount = 2
    MayFail = TRUE
    MaxHandled = 5
INVARIANTS EveryByteAccounted BufferHoldsStream HandshakeFirst
CHECK_DEADLOCK FALSE
