\* Two remotes that close; one of them also chokes and sends wrong bytes.
SPECIFICATION Spec
CONSTANTS
    p1 = p1
    p2 = p2
    Peers = {p1, p2}
    NumPieces = 2
    NumBlocks = 2
    FinishCount = 2
    MAX_BACKLOG = 2
    Bitfields <- AnyBitfield
    Seeding = {}
    Choking = {p2}
    Closing = {p1, p2}
    Corrupting = {p2}
    MaxUnchokes = 2
INVARIANTS TypeOK EveryPieceAccounted SchedulerConsistent
PROPERTIES HeldPieceGivenBack IsPool
CHECK_DEADLOCK FALSE
