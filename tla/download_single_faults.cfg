\* One remote that chokes, closes the connection and sends wrong bytes.
SPECIFICATION SaveSpec
CONSTANTS
    p1 = p1
    Peers = {p1}
    NumPieces = 3
    NumBlocks = 2
    FinishCount = 2
    MAX_BACKLOG = 2
    Bitfields <- AnyBitfield
    Seeding = {}
    Choking = {p1}
    Closing = {p1}
    Corrupting = {p1}
    MaxUnchokes = 3
    Threads = 2
    MaxOffset = 4
INVARIANTS AnnouncedIntact AnnouncedSaved FileIntact LatestIsWhole
PROPERTIES RequestsAllowed
CHECK_DEADLOCK FALSE
