\* Two remotes that choke, one of them sends wrong bytes, none closes.
SPECIFICATION Spec
CONSTANTS
    p1 = p1
    p2 = p2
    Peers = {p1, p2}
    NumPieces = 2
    NumBlocks = 2
    FinishCount = 2
    MAX_BACKLOG = 2
    Bitfields <- FullBitfield
    Seeding = {}
    Choking = {p1, p2}
    Closing = {}
    Corrupting = {p1}
    MaxUnchokes = 2
INVARIANTS RequestedOnce CountersAgree AnnouncedIntact
PROPERTIES HeldPieceGivenBack
CHECK_DEADLOCK FALSE
