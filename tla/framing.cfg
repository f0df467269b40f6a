\* Well-formed streams, every way to cut them into reads.
SPECIFICATION FairSpec
CONSTANTS
    PROTOCOL_ID <- Two
    RESERVED_BYTES_LENGTH = 1
    InfoHash <- Hash
    PeerId <- Remote
    InitialCapacity = 4
    Handshakes <- Good
    Sends <- LegalSends
    OwnSends <- OwnWrites
    PieceCount = 2
    MayFail = FALSE
    MaxHandled = 8
INVARIANTS AssertionsHold
PROPERTIES Delivers
CHECK_DEADLOCK FALSE
