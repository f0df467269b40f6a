\* One remote that owns everything and never fails: the download completes.
SPECIFICATION FairSpec
CONSTANTS
    p1 = p1
    p2 = p2
    Peers = {p1}
    NumPieces = 3
    NumBlocks = 5
    FinishCount = 5
    MAX_BACKLOG = 3
    Bitfields <- FullBitfield
    Seeding = {p1}
    Choking = {}
    Closing = {}
    Corrupting = {}
    MaxUnchokes = 1
INVARIANTS NothingLost BacklogExact
PROPERTIES EventuallyDownloaded
CHECK_DEADLOCK FALSE
