------------------------------- MODULE Setup -------------------------------
(***************************************************************************)
(* From the torrent file to the connections: init_torrent_data and         *)
(* setup_peerinfo of torrent.cpp, the constructor of session, and the part *)
(* of session::start before uv_run.  It runs once, on one thread; what can *)
(* go wrong is in the bytes it reads and in the network.                   *)
(*                                                                         *)
(* A torrent file is an encoded document, perhaps cut or with a wrong      *)
(* byte; the tracker's answer is a correct one, perhaps cut.  pc is the    *)
(* next step or how the process ended: "exit" (with a message), "throw"    *)
(* (an exception nobody catches), "crash" (a null pointer), "hang", or     *)
(* "undefined" (bytes outside of a buffer are used).                       *)
(***************************************************************************)
EXTENDS Documents, HttpParser, SequencesExt

CONSTANTS
    Torrents,       \* documents of torrent files, dictionaries in file order
    Encoded(_),     \* the bytes of a document
    NodeOf(_),      \* the node it stands for
    NumbersOf(_),   \* the numbers in it
    Decoded(_, _),  \* the decoder of Bencode, on bytes and an index
    Damageable,     \* bound: those whose file may be cut, or have a byte 0xFF in it
    Answers,        \* the tracker's: header up to the length, doc, listed: has it both and a list?
    BuffSize,       \* BUFF_SIZE
    SHA1(_),        \* the digest of a sequence of bytes
    HashLength,     \* SHA_DIGEST_LENGTH, the literal 20
    IpVersion(_),   \* ip_version: 4, 6, or 0 for what is no address
    MyId,           \* m_id
    https, udp      \* names of protocols

\* The keys and names that are looked up; one symbol each, as only their equality
\* counts, but for info, whose bytes find_info_dict searches for.
announce == <<1>>
announceList == <<2>>
comment == <<3>>
createdBy == <<4>>
creationDate == <<5>>
encoding == <<6>>
info == <<105, 110, 102, 111>>
name == <<7>>
files == <<8>>
length == <<9>>
path == <<10>>
private == <<11>>
pieceLength == <<12>>
piecesKey == <<14>>
peersKey == <<15>>
peerId == <<16>>
ip == <<17>>
portKey == <<18>>
ContentLength == <<19>>

\* A file whose last entry is the info dictionary ends with the key, the dictionary
\* and the end of the file's own, as bencoding has it.
InfoIsLast(doc) == doc.dict[Len(doc.dict)][1] = info
InfoBegin(doc) == Len(Encoded(doc)) - Len(Encoded(Field(doc, info))) - 1

ASSUME EncodeAssumption ==
    \A doc \in Torrents :
        /\ Encoded(doc) \in Seq(Int) /\ Encoded(Field(doc, info)) \in Seq(Int)
        /\ InfoIsLast(doc) =>
              LET value == Encoded(Field(doc, info))
              IN  /\ value # <<>> /\ value[1] = DICT_TOKEN /\ InfoBegin(doc) >= Len(info) + 2
                  /\ SubSeq(Encoded(doc), InfoBegin(doc) - Len(info) - 1, Len(Encoded(doc)) - 1) =
                        <<52, SDEL_TOKEN>> \o info \o value

\* The node a file stands for has the values that its author wrote.
ASSUME NodeAssumption ==
    \A doc \in Torrents :
        LET d == NodeOf(doc).dict
        IN  /\ d[announce] = Field(doc, announce)
            /\ d[info].dict[pieceLength] = Field(Field(doc, info), pieceLength)
            /\ d[info].dict[piecesKey] = Field(Field(doc, info), piecesKey)

VARIABLES
    torrent,    \* the document the author of the file encoded
    file,       \* m_buff
    pc,
    meta,       \* m_info_hash with the bytes it was computed from, and the fields used later
    tracker,    \* what connect_to was called with
    request,    \* the parameters of the request, in m_insert_order
    answer,     \* the tracker's answer, of Answers
    received,   \* the bytes of it that recv got
    peers,      \* m_peers_info
    conns       \* the connections of session::start: does one try to connect?

vars == <<torrent, file, pc, meta, tracker, request, answer, received, peers, conns>>

None == [none |-> TRUE]

Damaged(bytes) ==
    {SubSeq(bytes, 1, n) : n \in 0 .. Len(bytes) - 1}
        \cup {[bytes EXCEPT ![n] = EOFByte] : n \in DOMAIN bytes}

Init ==
    /\ torrent \in Torrents
    /\ file \in {Encoded(torrent)} \cup (IF torrent \in Damageable THEN Damaged(Encoded(torrent)) ELSE {})
    /\ pc = "read"
    /\ meta = None /\ tracker = None /\ answer = None
    /\ request = <<>> /\ received = <<>> /\ peers = <<>> /\ conns = <<>>

-----------------------------------------------------------------------------
(* Looking into a decoded document.  operator[] of the map makes a null    *)
(* pointer for a key that is missing.                                      *)

Has(d, key) == key \in DOMAIN d
Get(d, key) == d[key]

\* std::get of a node, which is there or is a null pointer.
Is(node, type) == IF type \in DOMAIN node THEN "ok" ELSE "throw"
Required(d, key, type) == IF Has(d, key) THEN Is(Get(d, key), type) ELSE "crash"
Optional(d, key, type) == IF Has(d, key) THEN Is(Get(d, key), type) ELSE "ok"

\* The first of several steps that does not go well.
First(outs) ==
    IF \A n \in DOMAIN outs : outs[n] = "ok" THEN "ok"
    ELSE outs[CHOOSE n \in DOMAIN outs : outs[n] # "ok" /\ \A k \in 1 .. n - 1 : outs[k] = "ok"]
Then(out, next) == IF out = "ok" THEN next ELSE out

\* A node that must be a list whose first element is a string.
FirstIsString(node) ==
    Then(Is(node, "list"), IF node.list = <<>> THEN "undefined" ELSE Is(node.list[1], "str"))

AnnounceListOut(d) ==
    IF ~Has(d, announceList) THEN "ok"
    ELSE Then(Is(Get(d, announceList), "list"),
              First([n \in DOMAIN Get(d, announceList).list |->
                        FirstIsString(Get(d, announceList).list[n])]))

\* extract_info_files and info_file_path, for one file.
FileOut(node) ==
    Then(Is(node, "dict"),
         Then(Required(node.dict, length, "int"),
              IF ~Has(node.dict, path) THEN "crash" ELSE FirstIsString(node.dict[path])))

InfoOut(d) ==
    First(<<Required(d, name, "str"),
            IF Has(d, files)
            THEN Then(Is(d[files], "list"),
                      First([n \in DOMAIN d[files].list |-> FileOut(d[files].list[n])]))
            ELSE Optional(d, length, "int"),
            Optional(d, private, "int"),
            Required(d, pieceLength, "int"),
            Required(d, piecesKey, "str")>>)

\* With a comment, "created by" and "creation date" must be there too.
DocumentOut(node) ==
    Then(Is(node, "dict"),
         Then(First(<<Required(node.dict, announce, "str"),
                      AnnounceListOut(node.dict),
                      Optional(node.dict, comment, "str"),
                      IF Has(node.dict, comment) THEN Required(node.dict, createdBy, "str") ELSE "ok",
                      IF Has(node.dict, comment) THEN Required(node.dict, creationDate, "int") ELSE "ok",
                      Optional(node.dict, encoding, "str"),
                      Required(node.dict, info, "dict")>>),
              InfoOut(node.dict[info].dict)))

-----------------------------------------------------------------------------
(* init_torrent_data.                                                      *)

\* find_info_dict: "4:infod"; the value is taken to end at the last byte but one.
InfoPattern == <<52, SDEL_TOKEN>> \o info \o <<DICT_TOKEN>>
FindPattern(bytes, pattern) ==
    LET last == Search(bytes, pattern, Len(bytes) - Len(pattern))
    IN  IF last = -1 THEN -1 ELSE last - Len(pattern) + 1
InfoSpan_ToEnd(bytes) == SubSeq(bytes, FindPattern(bytes, InfoPattern) + 7, Len(bytes))
InfoSpan(bytes) == SubSeq(bytes, FindPattern(bytes, InfoPattern) + 7, Len(bytes) - 1)

DecodedOut(r) == IF r.out = "ok" THEN DocumentOut(r.node) ELSE IF r.out = "null" THEN "crash" ELSE r.out

InitTorrentData ==
    /\ pc = "read"
    /\ LET r == Decoded(file, 0)
       IN  IF FindPattern(file, InfoPattern) = -1
           THEN pc' = "exit" /\ UNCHANGED meta
           ELSE IF DecodedOut(r) # "ok"
           THEN pc' = DecodedOut(r) /\ UNCHANGED meta
           ELSE /\ pc' = "connect"
                /\ meta' = [announce |-> r.node.dict[announce].str,
                            hash |-> SHA1(InfoSpan(file)),
                            pieceLength |-> r.node.dict[info].dict[pieceLength].int,
                            pieces |-> r.node.dict[info].dict[piecesKey].str]
    /\ UNCHANGED <<torrent, file, tracker, request, answer, received, peers, conns>>

-----------------------------------------------------------------------------
(* setup_peerinfo.                                                         *)

SLASH == 47
Protocol(url) == SubSeq(url, 1, Skip(url, 0, LAMBDA c : c = COLON))
HostBegin(url) == Len(Protocol(url)) + 3
Host(url) ==
    SubSeq(url, HostBegin(url) + 1, Skip(url, HostBegin(url), LAMBDA c : c \in {SLASH, COLON}))
Port(url) ==
    LET begin == HostBegin(url) + Len(Host(url))
    IN  IF begin < Len(url) /\ url[begin + 1] = COLON
        THEN SubSeq(url, begin + 2, Skip(url, begin + 1, LAMBDA c : ~IsDigit(c)))
        ELSE <<>>
PortToUse_NoDefault(url) == Port(url)
PortToUse(url) ==
    IF Protocol(url) = https /\ Port(url) = <<>> THEN <<52, 52, 51>> ELSE Port(url)

\* Up to the request.  A tracker that cannot be reached leaves the client without
\* peers; it goes on all the same, unless it was socket() that failed, for an address
\* of a family the host does not have, say: new_socket ends the process.
Connect ==
    /\ pc = "connect"
    /\ LET url == meta.announce
       IN  IF HostBegin(url) > Len(url)
           THEN pc' = "throw" /\ UNCHANGED <<tracker, request>>
           ELSE IF Protocol(url) = udp
           THEN pc' = "exit" /\ UNCHANGED <<tracker, request>>
           ELSE /\ tracker' = [host |-> Host(url), port |-> PortToUse(url)]
                /\ \/ pc' \in {"start", "exit"} /\ UNCHANGED request
                   \/ /\ pc' = "answer"
                      /\ request' = [info_hash |-> HexStr(meta.hash), peer_id |-> MyId,
                                     left |-> (Len(meta.pieces) \div HashLength) * meta.pieceLength]
    /\ UNCHANGED <<torrent, file, meta, answer, received, peers, conns>>

\* recv reads until the connection ends or the buffer is full, and writes a zero
\* one byte behind the end.
Recv ==
    /\ pc = "answer"
    /\ \E a \in Answers :
         LET body == Encoded(a.doc)
             all == a.header \o Digits(Len(body)) \o EndOfHeader \o body
         IN  /\ answer' = a
             /\ \E n \in 0 .. Len(all) :
                   LET got == SubSeq(all, 1, IF n <= BuffSize THEN n ELSE BuffSize)
                   IN  /\ received' = got
                       /\ pc' = IF Len(got) + 1 >= BuffSize THEN "undefined" ELSE "peers"
    /\ UNCHANGED <<torrent, file, meta, tracker, request, peers, conns>>

\* Content_Length bytes are taken from the body on, whatever was received: the
\* buffer holds zeros behind that.
Zeros == [n \in 1 .. BuffSize |-> 0]
BodyBytes(from, size) == SubSeq(received \o Zeros, from + 1, from + size)

PeerOut(node) ==
    Then(Is(node, "dict"),
         First(<<Required(node.dict, peerId, "str"), Required(node.dict, ip, "str"),
                 Required(node.dict, portKey, "int")>>))
PeersOut(node) ==
    Then(Is(node, "dict"),
         Then(Required(node.dict, peersKey, "list"),
              First([n \in DOMAIN node.dict[peersKey].list |-> PeerOut(node.dict[peersKey].list[n])])))

PeerInfo(d) ==
    [id |-> d[peerId].str, ip |-> d[ip].str, port |-> d[portKey].int, hash |-> meta.hash]

\* From parse_header to the end of setup_peerinfo.  std::stoi throws on what does
\* not begin with a number.
SetupPeers ==
    /\ pc = "peers"
    /\ LET h == ParseHeader(received)
           value == IF h.out = "ok" /\ Has(h.header, ContentLength) THEN h.header[ContentLength] ELSE <<>>
           size == FoldLeft(LAMBDA n, c : n * 10 + (c - 48), 0,
                            SubSeq(value, 1, Skip(value, 0, LAMBDA c : ~IsDigit(c))))
           from == GetBody(received)
           r == Decoded(BodyBytes(from, size), 0)
           out == CASE h.out # "ok" -> h.out
                    [] value = <<>> \/ ~IsDigit(value[1]) -> "throw"
                    [] from = -1 -> "crash"
                    [] from + size > BuffSize -> "undefined"
                    [] r.out = "null" -> "crash"
                    [] r.out \notin {"ok", "null"} -> r.out
                    [] OTHER -> PeersOut(r.node)
       IN  IF out = "ok"
           THEN /\ pc' = "start"
                /\ peers' = [n \in DOMAIN r.node.dict[peersKey].list |->
                                PeerInfo(r.node.dict[peersKey].list[n].dict)]
           ELSE pc' = out /\ UNCHANGED peers
    /\ UNCHANGED <<torrent, file, meta, tracker, request, answer, received, conns>>

\* session::start: a connection per peer, and start for each: one whose address is
\* no address never connects; std::stoi throws on a port that is no int.
Connects(p) == IpVersion(p.ip) \in {4, 6}
IsInt(n) == n \in -(2 ^ (IntBits - 1)) .. 2 ^ (IntBits - 1) - 1
Start ==
    /\ pc = "start"
    /\ IF \E n \in DOMAIN peers : Connects(peers[n]) /\ ~IsInt(peers[n].port)
       THEN pc' = "throw" /\ UNCHANGED conns
       ELSE pc' = "running" /\ conns' = [n \in DOMAIN peers |-> Connects(peers[n])]
    /\ UNCHANGED <<torrent, file, meta, tracker, request, answer, received, peers>>

Next == InitTorrentData \/ Connect \/ Recv \/ SetupPeers \/ Start

Spec == Init /\ [][Next]_vars

-----------------------------------------------------------------------------
(* Properties.                                                             *)

Failed == pc \in {"exit", "throw", "crash", "hang", "undefined"}
Whole == file = Encoded(torrent)
WholeAnswer(a) ==
    LET body == Encoded(a.doc) IN a.header \o Digits(Len(body)) \o EndOfHeader \o body

\* What is cut off anywhere is noticed: a torrent file without its last bytes never
\* leads to a request, and an answer without its last bytes to no list of peers,
\* although get_body and the decoder are given content_len bytes.
CutRejected ==
    /\ pc # "read" /\ ~Failed => Len(file) = Len(Encoded(torrent))
    /\ answer # None /\ pc \in {"start", "running"} => received = WholeAnswer(answer)

\* Every number in a document is a long long.  What digit_overflows looks at is the
\* value so far cut to an int: it stops at many numbers that are, and lets many pass
\* that are not; those come out as some other number.
Fits(doc) == \A n \in NumbersOf(doc) : n < 2 ^ (LongBits - 1)

\* What the decoder makes of a document, nested and with anything behind it, is
\* the document, or it gives up: no key or end of a list is mistaken, and no number,
\* as long as all of them are long longs.
Decodes(doc, bytes) ==
    LET r == Decoded(bytes, 0)
    IN  r.out = "ok" => r.node = NodeOf(doc) /\ r.next = Len(Encoded(doc))
DecodesMeaning ==
    /\ pc = "read" /\ Whole /\ Fits(torrent) => Decodes(torrent, file)
    /\ pc = "answer" => \A a \in Answers : Fits(a.doc) => Decodes(a.doc, Encoded(a.doc) \o Zeros)

\* The request names the torrent by the digest of the info dictionary as it stands
\* in the file, when that is the last entry of the file and nothing before it looks
\* like its beginning.
NoDecoy ==
    \A n \in 0 .. InfoBegin(torrent) - Len(InfoPattern) :
        SubSeq(file, n + 1, n + Len(InfoPattern)) # InfoPattern

UnHex(c) == IF c < 58 THEN c - 48 ELSE c - 87
Unescaped(s) == [n \in 1 .. Len(s) \div 3 |-> UnHex(s[3 * n - 1]) * 16 + UnHex(s[3 * n])]
TrackerGetsHash ==
    request # <<>> /\ Whole /\ InfoIsLast(torrent) /\ NoDecoy =>
        Unescaped(request.info_hash) = SHA1(Encoded(Field(torrent, info)))

\* The client works with what the author of the file wrote, if its numbers are long
\* longs: the pieces, their length, and the tracker, on the port that the URL names;
\* when it names none, on port 443 for https and on no port for any other protocol.
Url == Field(torrent, announce).str
FollowsTorrent ==
    tracker # None /\ Whole /\ Fits(torrent) =>
        /\ meta.pieces = Field(Field(torrent, info), piecesKey).str
        /\ meta.pieceLength = Field(Field(torrent, info), pieceLength).int
        /\ \E slash \in DOMAIN Url \cup {Len(Url) + 1}, port \in {<<>>, <<COLON>> \o tracker.port} :
              /\ SubSeq(Url, 1, slash - 1) = Protocol(Url) \o <<COLON, SLASH, SLASH>> \o tracker.host \o port
              /\ slash \in DOMAIN Url => Url[slash] = SLASH
              /\ port = <<>> =>
                    tracker.port = IF Protocol(Url) = https THEN <<52, 52, 51>> ELSE <<>>

\* url is protocol://host[:port][/path], its protocol a bytes, its host up to byte b
\* and its port up to byte c, which is b when it has none.
UrlParts(url, a, b, c) ==
    /\ a \in Nat /\ b \in Nat /\ c \in Nat /\ a + 3 <= b /\ b <= c /\ c <= Len(url)
    /\ \A k \in 1 .. a : url[k] # COLON
    /\ url[a + 1] = COLON /\ url[a + 2] = SLASH /\ url[a + 3] = SLASH
    /\ \A k \in a + 4 .. b : url[k] \notin {SLASH, COLON}
    /\ b # c => c >= b + 2 /\ url[b + 1] = COLON /\ \A k \in b + 2 .. c : IsDigit(url[k])
    /\ c < Len(url) => url[c + 1] = SLASH

\* A URL the code has a use for, or one it rejects for its length or its protocol.
LegalUrl(doc) ==
    LET url == Field(doc, announce).str
    IN  /\ url \in Seq(Int)
        /\ \/ HostBegin(url) > Len(url)
           \/ Protocol(url) = udp
           \/ \E a, b, c \in 0 .. Len(url) : UrlParts(url, a, b, c)


\* Set-up fails only for a reason: a file or an answer that is damaged or cut; a
\* comment without "created by" and "creation date", which the code then takes for
\* granted; a number beyond what digit_overflows lets pass for certain; a URL it has
\* no use for; socket() that fails on the way to the tracker; an answer without its
\* length, with a body below four bytes, without a list of peers, or too large; or a
\* peer, at an address that is one, with a port that is no int.
Small(doc) == \A n \in NumbersOf(doc) : n \div 10 < 2 ^ (IntBits - 1)
PlainTorrent ==
    /\ comment \in Keys(torrent) => {createdBy, creationDate} \subseteq Keys(torrent)
    /\ Small(torrent)
    /\ Protocol(Url) # udp /\ HostBegin(Url) <= Len(Url)
PlainPorts(doc) ==
    \A n \in DOMAIN Field(doc, peersKey).list :
        LET peer == Field(doc, peersKey).list[n]
        IN  IpVersion(Field(peer, ip).str) # 0 => IsInt(Field(peer, portKey).int)
PlainAnswer ==
    /\ received = WholeAnswer(answer) /\ Len(received) + 1 < BuffSize
    /\ answer.listed /\ Small(answer.doc) /\ PlainPorts(answer.doc)
NoSocket == pc = "exit" /\ tracker # None /\ answer = None
FailsForAReason ==
    Failed => ~Whole \/ ~PlainTorrent \/ NoSocket \/ (answer # None /\ ~PlainAnswer)
=============================================================================
