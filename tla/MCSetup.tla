------------------------------ MODULE MCSetup ------------------------------
(***************************************************************************)
(* An instance of Setup for TLC: torrent files with one or two of the      *)
(* optional parts each, and the answers of trackers.                       *)
(***************************************************************************)
EXTENDS Setup

B == INSTANCE Bencode
DecodeBytes(bytes, i) == B!Decode(bytes, i)
EncodeDocument(doc) == B!Encode(doc)
MeaningOf(doc) == B!Meaning(doc)
NumbersIn(doc) == B!Numbers(doc)

Digest(b) ==
    LET sums == FoldLeft(LAMBDA s, c : <<(s[1] + c) % 256, (s[2] + s[1] + c) % 256>>, <<0, 0>>, b)
    IN  sums

HTTPS == <<20>>
HTTP == <<21>>
UDP == <<22>>
host == <<23>>
v4 == <<24>>
v6 == <<25>>
Version(address) == IF address = v4 THEN 4 ELSE IF address = v6 THEN 6 ELSE 0
Me == <<26>>

Str(s) == [str |-> s]
Int_(n) == [int |-> n]
List(s) == [list |-> s]
Dict(s) == [dict |-> s]

url(protocol, rest) == protocol \o <<COLON, SLASH, SLASH>> \o host \o rest
withPort == url(HTTPS, <<COLON, 54, 57, SLASH, 27>>)
noPort == url(HTTPS, <<SLASH, 27>>)
hashes == Str(<<200, 201>>)

Single(n) == Dict(<< <<length, Int_(5)>>, <<name, Str(<<28>>)>>, <<pieceLength, Int_(n)>>,
                     <<piecesKey, hashes>> >>)
Multiple == Dict(<< <<files, List(<<Dict(<< <<length, Int_(5)>>, <<path, List(<<Str(<<28>>)>>)>> >>)>>)>>,
                    <<name, Str(<<28>>)>>, <<pieceLength, Int_(1279)>>, <<piecesKey, hashes>>,
                    <<private, Int_(1)>> >>)

plain == Dict(<< <<announce, Str(withPort)>>, <<info, Single(16)>> >>)
full == Dict(<< <<announce, Str(noPort)>>, <<announceList, List(<<List(<<Str(noPort)>>)>>)>>,
                <<comment, Str(<<>>)>>, <<createdBy, Str(<<29>>)>>, <<creationDate, Int_(7)>>,
                <<encoding, Str(<<29, 52>>)>>, <<info, Multiple>> >>)
commented == Dict(<< <<announce, Str(withPort)>>, <<comment, Str(<<29>>)>>, <<info, Single(16)>> >>)
decoy == Dict(<< <<announce, Str(noPort)>>, <<encoding, Str(InfoPattern)>>, <<info, Single(16)>> >>)
trailing == Dict(<< <<announce, Str(noPort)>>, <<info, Single(16)>>, <<encoding, Str(<<29>>)>> >>)
large == Dict(<< <<announce, Str(noPort)>>, <<info, Single(1280)>> >>)
overUdp == Dict(<< <<announce, Str(url(UDP, <<SLASH>>))>>, <<info, Single(16)>> >>)
noHost == Dict(<< <<announce, Str(HTTP)>>, <<info, Single(16)>> >>)
overHttp == Dict(<< <<announce, Str(url(HTTP, <<SLASH>>))>>, <<info, Single(16)>> >>)

\* digit_overflows lets both pass: one is a long long, the other comes out as 16.
larger == Dict(<< <<announce, Str(noPort)>>, <<info, Single(25600)>> >>)
beyond == Dict(<< <<announce, Str(noPort)>>, <<info, Single(4 * 65536 + 16)>> >>)

SomeTorrents == {plain, full, commented, decoy, trailing, large, overUdp, noHost, overHttp,
                  larger, beyond}
DamagedTorrents == {plain, full}

status == <<30, SP, SP, 31, SP, 30, CR, LF>>
Header == status \o <<30, COLON, SP, 30, CR, LF>> \o ContentLength \o <<COLON, SP>>
NoLength == status \o <<30, COLON, SP>>

Peer(id, address, port) ==
    Dict(<< <<ip, Str(address)>>, <<peerId, Str(id)>>, <<portKey, Int_(port)>> >>)
twoPeers == Dict(<< << <<28>>, Int_(9)>>, <<peersKey, List(<<Peer(<<32, 0>>, v4, 12), Peer(<<33>>, <<28>>, 200)>>)>> >>)
threePeers == Dict(<< <<peersKey, List([n \in 1 .. 3 |-> Peer(<<35>>, v4, n)])>> >>)
onePeer == Dict(<< <<peersKey, List(<<Peer(<<34>>, v6, 99)>>)>> >>)

\* Ports that are no int (that of twoPeers is at no address), and that are no long long.
farPort == Dict(<< <<peersKey, List(<<Peer(<<36>>, v4, 200)>>)>> >>)
wrappedPort == Dict(<< <<peersKey, List(<<Peer(<<36>>, v4, 262156)>>)>> >>)

SomeAnswers ==
    {[header |-> Header, doc |-> doc, listed |-> TRUE] :
        doc \in {twoPeers, onePeer, threePeers, farPort, wrappedPort}} \cup
    { [header |-> NoLength, doc |-> onePeer, listed |-> FALSE],
      [header |-> Header, doc |-> Dict(<< <<peersKey, Str(<<0, 1, 2>>)>> >>), listed |-> FALSE],
      [header |-> Header, doc |-> Dict(<<>>), listed |-> FALSE] }

\* The hypothesis of a theorem, for these files.
ASSUME UrlAssumption == \A doc \in SomeTorrents : LegalUrl(doc)
=============================================================================
