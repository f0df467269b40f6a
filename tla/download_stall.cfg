\* Two remotes that own everything and never fail: a wake-up replaced by the other stalls a piece.
SPECIFICATION FairSpec
CONSTANTS
    p1 = p1
    p2 = p2
    Peers = {p1, p2}
    NumPieces = 2
    NumBlocks = 3
    FinishCount = 3
    MAX_BACKLOG = 2
    Bitfields <- FullBitfield
    Seeding = {p1, p2}
    Choking = {}
    Closing = {}
    Corrupting = {}
    MaxUnchokes = 1

PROPERTIES AsksForNewBlock
CHECK_DEADLOCK FALSE
