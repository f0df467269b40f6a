\* Torrent files, whole and damaged; trackers' answers, cut anywhere.
SPECIFICATION Spec
CONSTANTS
    IntBits = 8
    LongBits = 16
    Torrents <- SomeTorrents
    Encoded <- EncodeDocument
    NodeOf <- MeaningOf
    NumbersOf <- NumbersIn
    Decoded <- DecodeBytes
    Damageable <- DamagedTorrents
    Answers <- SomeAnswers
    BuffSize = 80
    SHA1 <- Digest
    HashLength = 2
    IpVersion <- Version
    MyId <- Me
    https <- HTTPS
    udp <- UDP
INVARIANTS CutRejected DecodesMeaning TrackerGetsHash FollowsTorrent  FailsForAReason
CHECK_DEADLOCK FALSE
