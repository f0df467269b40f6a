\* Two remotes, one closes while the piece is shared: more requests than MAX_BACKLOG.
SPECIFICATION Spec
CONSTANTS
    p1 = p1
    p2 = p2
    Peers = {p1, p2}
    NumPieces = 2
    NumBlocks = 2
    FinishCount = 2
    MAX_BACKLOG = 2
    Bitfields <- FullBitfield
    Seeding = {}
    Choking = {}
    Closing = {p2}
    Corrupting = {}
    MaxUnchokes = 1
INVARIANTS PipelineBounded
CHECK_DEADLOCK FALSE
