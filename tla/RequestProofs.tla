---------------------------- MODULE RequestProofs ----------------------------
(***************************************************************************)
(* Proofs about the requests of Download: RequestsAllowed, RequestedOnce,  *)
(* CountersAgree and BacklogExact, for any number of peers, pieces and     *)
(* blocks, and any limit of requests.                                      *)
(***************************************************************************)
EXTENDS DownloadProofs, FiniteSetTheorems, FunctionTheorems

\* The constants of the state space.
USE DEF Pieces, NoPiece, BadIndex, Index, Req, Blocks, Cell

-----------------------------------------------------------------------------
(* What is in flight, as a function f of the requests each remote owes.    *)

\* InFlight(i) for the value f of pending.
Flight(f, i) == UNION {{<<p, b, n>> : n \in 1 .. f[p][<<i, b>>]} : p \in Peers, b \in Blocks}

PendingType == [Peers -> [Req -> Nat]]

\* The elements of Flight: the requests of every remote for every block.
IsOwed(f, i, x) == /\ x = <<x[1], x[2], x[3]>>
                   /\ x[1] \in Peers /\ x[2] \in Blocks
                   /\ x[3] \in 1 .. f[x[1]][<<i, x[2]>>]

\* Flight holds these and nothing else.
LEMMA FlightElement ==
    ASSUME NEW f, NEW i
    PROVE  /\ \A x : x \in Flight(f, i) <=> IsOwed(f, i, x)
           /\ \A p \in Peers, b \in Blocks : \A n :
                 <<p, b, n>> \in Flight(f, i) <=> n \in 1 .. f[p][<<i, b>>]
<1> DEFINE Owed(p, b) == {<<p, b, n>> : n \in 1 .. f[p][<<i, b>>]}
<1>0. \A x : x \in Flight(f, i) <=> \E p \in Peers, b \in Blocks : x \in Owed(p, b)
  <2>1. Flight(f, i) = UNION {Owed(p, b) : p \in Peers, b \in Blocks}
    BY DEF Flight
  <2> HIDE DEF Owed
  <2> QED
    BY <2>1
<1>1. ASSUME NEW x \in Flight(f, i) PROVE IsOwed(f, i, x)
  <2>1. PICK p \in Peers, b \in Blocks : x \in Owed(p, b)
    BY <1>0
  <2>2. PICK n \in 1 .. f[p][<<i, b>>] : x = <<p, b, n>>
    BY <2>1
  <2> QED
    BY <2>2 DEF IsOwed
<1>2. ASSUME NEW x, IsOwed(f, i, x) PROVE x \in Flight(f, i)
  <2> DEFINE p == x[1]
             b == x[2]
             n == x[3]
  <2>1. p \in Peers /\ b \in Blocks /\ n \in 1 .. f[p][<<i, b>>] /\ x = <<p, b, n>>
    BY <1>2 DEF IsOwed
  <2>2. x \in Owed(p, b)
    <3> HIDE DEF p, b, n
    <3> QED
      BY <2>1
  <2> HIDE DEF p, b, Owed
  <2> QED
    BY <1>0, <2>1, <2>2
<1>3. ASSUME NEW p \in Peers, NEW b \in Blocks, NEW n
      PROVE  <<p, b, n>> \in Flight(f, i) <=> n \in 1 .. f[p][<<i, b>>]
  <2> DEFINE x == <<p, b, n>>
  <2>1. x[1] = p /\ x[2] = b /\ x[3] = n
    OBVIOUS
  <2>2. IsOwed(f, i, x) <=> n \in 1 .. f[p][<<i, b>>]
    BY <2>1 DEF IsOwed
  <2> QED
    BY <1>1, <1>2, <2>2
<1> QED
  BY <1>1, <1>2, <1>3

\* What is in flight for a piece depends on the requests for its blocks only.
LEMMA FlightSame ==
    ASSUME NEW f, NEW g, NEW i, \A p \in Peers, b \in Blocks : g[p][<<i, b>>] = f[p][<<i, b>>]
    PROVE  Flight(g, i) = Flight(f, i)
<1>1. \A x : IsOwed(g, i, x) <=> IsOwed(f, i, x)
  BY DEF IsOwed
<1> QED
  BY <1>1, FlightElement

\* From f to g, remote p answers one of its requests for block b of piece i.
TakesOne(f, g, p, i, b) ==
    \A q \in Peers, j \in Pieces, c \in Blocks :
        g[q][<<j, c>>] = IF q = p /\ j = i /\ c = b THEN f[q][<<j, c>>] - 1 ELSE f[q][<<j, c>>]

\* From f to g, remote p is asked for the blocks r .. s - 1 of piece t.
AddsOne(f, g, p, t, r, s) ==
    \A q \in Peers, j \in Pieces, c \in Blocks :
        g[q][<<j, c>>] = IF q = p /\ j = t /\ r <= c /\ c < s
                         THEN f[q][<<j, c>>] + 1 ELSE f[q][<<j, c>>]

\* From f to g, requests are dropped and none is made.
Drops(f, g) == \A q \in Peers, j \in Pieces, c \in Blocks : g[q][<<j, c>>] <= f[q][<<j, c>>]

\* A block that arrives takes one request out of flight: the last one the remote
\* owes for that block.
LEMMA FlightAnswered ==
    ASSUME NEW f \in PendingType, NEW p \in Peers, NEW i \in Pieces, NEW b \in Blocks,
           f[p][<<i, b>>] > 0, NEW g \in PendingType, TakesOne(f, g, p, i, b)
    PROVE  /\ <<p, b, f[p][<<i, b>>]>> \in Flight(f, i)
           /\ Flight(g, i) = Flight(f, i) \ {<<p, b, f[p][<<i, b>>]>>}
           /\ \A j \in Pieces \ {i} : Flight(g, j) = Flight(f, j)
<1> DEFINE last == f[p][<<i, b>>]
           x0 == <<p, b, last>>
<1>1. last \in Nat /\ last > 0 /\ last \in 1 .. last /\ <<i, b>> \in Req
  BY DEF PendingType
<1>2. \A q \in Peers, j \in Pieces, c \in Blocks :
         g[q][<<j, c>>] = IF q = p /\ j = i /\ c = b THEN last - 1 ELSE f[q][<<j, c>>]
  BY DEF TakesOne
<1>3. x0 \in Flight(f, i)
  BY <1>1, FlightElement
<1>4. ASSUME NEW j \in Pieces, j # i PROVE Flight(g, j) = Flight(f, j)
  <2>1. \A q \in Peers, c \in Blocks : g[q][<<j, c>>] = f[q][<<j, c>>]
    BY <1>2, <1>4
  <2> QED
    BY <2>1, FlightSame
<1>5. ASSUME NEW x PROVE IsOwed(g, i, x) <=> IsOwed(f, i, x) /\ x # x0
  <2>1. CASE x[1] = p /\ x[2] = b
    <3>1. x[3] \in 1 .. last - 1 <=> x[3] \in 1 .. last /\ x[3] # last
      BY <1>1
    <3>2. IsOwed(f, i, x) => (x = x0 <=> x[3] = last)
      BY <2>1 DEF IsOwed
    <3> QED
      BY <1>2, <2>1, <3>1, <3>2 DEF IsOwed
  <2>2. CASE ~(x[1] = p /\ x[2] = b)
    <3>1. x # x0
      BY <2>2
    <3> QED
      BY <1>2, <2>2, <3>1 DEF IsOwed
  <2> QED
    BY <2>1, <2>2
<1> HIDE DEF x0
<1>6. Flight(g, i) = Flight(f, i) \ {x0}
  BY <1>5, FlightElement
<1> QED
  BY <1>3, <1>4, <1>6 DEF x0

\* A remote that drops requests only takes them out of flight.
LEMMA FlightDropped ==
    ASSUME NEW f \in PendingType, NEW g \in PendingType, NEW i \in Pieces, Drops(f, g)
    PROVE  Flight(g, i) \subseteq Flight(f, i)
<1>1. ASSUME NEW x, IsOwed(g, i, x) PROVE IsOwed(f, i, x)
  <2>1. g[x[1]][<<i, x[2]>>] <= f[x[1]][<<i, x[2]>>]
    BY <1>1 DEF IsOwed, Drops
  <2>2. f[x[1]][<<i, x[2]>>] \in Nat /\ g[x[1]][<<i, x[2]>>] \in Nat
    BY <1>1 DEF IsOwed, PendingType
  <2> QED
    BY <1>1, <2>1, <2>2 DEF IsOwed
<1> QED
  BY <1>1, FlightElement

\* The requests of one fetch_piece: one more for each of the blocks r .. s - 1.
Added(f, p, t, r, s) == {<<p, b, f[p][<<t, b>>] + 1>> : b \in r .. s - 1}

\* They come on top of what is in flight, as many as there are blocks.
LEMMA FlightAsked ==
    ASSUME NEW f \in PendingType, NEW p \in Peers, NEW t \in Pieces,
           NEW r \in 0 .. NumBlocks, NEW s \in r .. NumBlocks, NEW g \in PendingType,
           AddsOne(f, g, p, t, r, s)
    PROVE  /\ Flight(g, t) = Flight(f, t) \cup Added(f, p, t, r, s)
           /\ Flight(f, t) \cap Added(f, p, t, r, s) = {}
           /\ IsFiniteSet(Added(f, p, t, r, s)) /\ Cardinality(Added(f, p, t, r, s)) = s - r
           /\ \A j \in Pieces \ {t} : Flight(g, j) = Flight(f, j)
<1> DEFINE new == Added(f, p, t, r, s)
           blocks == r .. s - 1
<1>0. r \in Int /\ s \in Int /\ r <= s /\ blocks \subseteq Blocks
  BY PieceAssumption
<1>1. ASSUME NEW j \in Pieces, j # t PROVE Flight(g, j) = Flight(f, j)
  <2>1. \A q \in Peers, c \in Blocks : g[q][<<j, c>>] = f[q][<<j, c>>]
    BY <1>1 DEF AddsOne
  <2> QED
    BY <2>1, FlightSame
<1>2. ASSUME NEW x
      PROVE  x \in new <=> /\ x = <<x[1], x[2], x[3]>> /\ x[1] = p /\ x[2] \in blocks
                          /\ x[3] = f[p][<<t, x[2]>>] + 1
  <2>1. ASSUME x \in new
        PROVE  /\ x = <<x[1], x[2], x[3]>> /\ x[1] = p /\ x[2] \in blocks
               /\ x[3] = f[p][<<t, x[2]>>] + 1
    <3>1. PICK b \in blocks : x = <<p, b, f[p][<<t, b>>] + 1>>
      BY <2>1 DEF Added
    <3> QED
      BY <3>1
  <2>2. ASSUME x = <<x[1], x[2], x[3]>>, x[1] = p, x[2] \in blocks, x[3] = f[p][<<t, x[2]>>] + 1
        PROVE  x \in new
    <3>1. x = <<p, x[2], f[p][<<t, x[2]>>] + 1>>
      BY <2>2
    <3> QED
      BY <2>2, <3>1 DEF Added
  <2> QED
    BY <2>1, <2>2
<1>3. ASSUME NEW x PROVE IsOwed(g, t, x) <=> IsOwed(f, t, x) \/ x \in new
  <2>1. CASE x[1] = p /\ x[2] \in blocks
    <3>1. f[p][<<t, x[2]>>] \in Nat /\ g[p][<<t, x[2]>>] = f[p][<<t, x[2]>>] + 1 /\ x[2] \in Blocks
      BY <1>0, <2>1 DEF PendingType, AddsOne
    <3>2. x[3] \in 1 .. g[p][<<t, x[2]>>]
             <=> x[3] \in 1 .. f[p][<<t, x[2]>>] \/ x[3] = f[p][<<t, x[2]>>] + 1
      BY <3>1
    <3> QED
      BY <1>2, <2>1, <3>1, <3>2 DEF IsOwed
  <2>2. CASE x[2] \in Blocks /\ x[1] \in Peers /\ ~(x[1] = p /\ x[2] \in blocks)
    <3>1. g[x[1]][<<t, x[2]>>] = f[x[1]][<<t, x[2]>>]
      BY <1>0, <2>2 DEF AddsOne
    <3> QED
      BY <1>2, <2>2, <3>1 DEF IsOwed
  <2> QED
    BY <1>0, <1>2, <2>1, <2>2 DEF IsOwed
<1>4. ASSUME NEW x, x \in new PROVE ~IsOwed(f, t, x)
  <2>1. f[p][<<t, x[2]>>] \in Nat
    BY <1>0, <1>2, <1>4 DEF PendingType
  <2> QED
    BY <1>2, <1>4, <2>1 DEF IsOwed
<1>5. IsFiniteSet(new) /\ Cardinality(new) = s - r
  <2> DEFINE num == [b \in blocks |-> <<p, b, f[p][<<t, b>>] + 1>>]
  <2>1. num \in Bijection(blocks, new)
    <3>1. num \in [blocks -> new]
      BY DEF Added
    <3>2. \A a, b \in blocks : num[a] = num[b] => a = b
      OBVIOUS
    <3>3. \A x \in new : \E b \in blocks : num[b] = x
      BY DEF Added
    <3> HIDE DEF num, new, blocks
    <3> QED
      BY <3>1, <3>2, <3>3, Fun_IsBij
  <2>2. ExistsBijection(blocks, new)
    BY <2>1 DEF ExistsBijection
  <2>3. IsFiniteSet(blocks) /\ Cardinality(blocks) = s - r
    <3> DEFINE e == s - 1
    <3>1. e \in Int /\ (r > e => s - r = 0) /\ (~(r > e) => e - r + 1 = s - r)
      BY <1>0
    <3> HIDE DEF e
    <3>2. IsFiniteSet(r .. e) /\ Cardinality(r .. e) = IF r > e THEN 0 ELSE e - r + 1
      BY <1>0, <3>1, FS_Interval
    <3> QED
      BY <3>1, <3>2 DEF e
  <2> HIDE DEF new, blocks
  <2> QED
    BY <2>2, <2>3, FS_Bijection
<1> HIDE DEF new
<1>6. Flight(g, t) = Flight(f, t) \cup new /\ Flight(f, t) \cap new = {}
  BY <1>3, <1>4, FlightElement
<1> QED
  BY <1>1, <1>5, <1>6 DEF new

-----------------------------------------------------------------------------
(* The counters of a piece x with the set F of requests in flight for it:  *)
(* what RequestedOnce and CountersAgree say, and what keeps it so.  The    *)
(* blocks that nobody has asked for have not arrived.                      *)

Counted(x, F) ==
    /\ x.requested = x.count + x.backlog
    /\ IsFiniteSet(F) /\ Cardinality(F) <= x.backlog
    /\ \A b \in Blocks : b >= x.requested => x.data[b] = "none"
    /\ \A e \in F : e[2] \in Blocks /\ e[2] < x.requested /\ x.data[e[2]] = "none"
    /\ \A d, e \in F : d[2] = e[2] => d = e

\* What BacklogExact says.
Exact(x, F) == x.backlog = Cardinality(F)

\* handle_piece: the block that arrives was in flight and was not there.
LEMMA CountedAnswered ==
    ASSUME NEW x \in PieceType, NEW F, Counted(x, F),
           NEW b \in Blocks, NEW d \in Cell, NEW e \in F, e[2] = b
    PROVE  /\ Counted(BlockArrived(x, b, d), F \ {e})
           /\ Exact(x, F) => Exact(BlockArrived(x, b, d), F \ {e})
<1> DEFINE y == BlockArrived(x, b, d)
           G == F \ {e}
<1>1. IsFiniteSet(G) /\ Cardinality(G) = Cardinality(F) - 1 /\ Cardinality(F) \in Nat
  BY FS_RemoveElement, FS_CardinalityType DEF Counted
<1>2. /\ y.requested = x.requested /\ y.count = x.count + 1 /\ y.backlog = x.backlog - 1
      /\ y.data = [x.data EXCEPT ![b] = d]
  BY DEF BlockArrived, IncomingBlock
<1>3. /\ x.data \in [Blocks -> Cell] /\ x.requested \in Int /\ x.count \in Int /\ x.backlog \in Int
      /\ b < x.requested
  BY DEF PieceType, Counted
<1> HIDE DEF y, G
<1>4. \A c \in Blocks : c >= y.requested => y.data[c] = "none"
  BY <1>2, <1>3 DEF Counted
<1>5. \A g \in G : g[2] \in Blocks /\ g[2] < y.requested /\ y.data[g[2]] = "none"
  <2> SUFFICES ASSUME NEW g \in G
               PROVE  g[2] \in Blocks /\ g[2] < y.requested /\ y.data[g[2]] = "none"
    OBVIOUS
  <2>1. g \in F /\ g # e
    BY DEF G
  <2>2. g[2] # b
    BY <2>1 DEF Counted
  <2> QED
    BY <1>2, <1>3, <2>1, <2>2 DEF Counted
<1>6. \A g, h \in G : g[2] = h[2] => g = h
  BY DEF G, Counted
<1>7. y.requested = y.count + y.backlog /\ Cardinality(G) <= y.backlog
  BY <1>1, <1>2, <1>3 DEF Counted
<1>8. Exact(x, F) => Exact(y, G)
  BY <1>1, <1>2, <1>3 DEF Exact
<1>9. Counted(y, G)
  BY <1>1, <1>4, <1>5, <1>6, <1>7 DEF Counted
<1> QED
  BY <1>8, <1>9 DEF y, G

\* A CHOKE: fewer requests are in flight, and the counters stay.
LEMMA CountedDropped ==
    ASSUME NEW x \in PieceType, NEW F, Counted(x, F), NEW G, G \subseteq F
    PROVE  Counted(x, G)
<1>1. IsFiniteSet(G) /\ Cardinality(G) <= Cardinality(F)
  BY FS_Subset DEF Counted
<1>2. Cardinality(F) \in Nat /\ Cardinality(G) \in Nat /\ x.backlog \in Int
  BY <1>1, FS_CardinalityType DEF Counted, PieceType
<1> QED
  BY <1>1, <1>2 DEF Counted

\* The request loop of fetch_piece: the blocks it asks for were asked for by nobody.
LEMMA CountedAsked ==
    ASSUME NEW x \in PieceType, NEW F, Counted(x, F), NEW G,
           IsFiniteSet(G), Cardinality(G) = ToRequest(x, MAX_BACKLOG), F \cap G = {},
           \A e \in G : /\ e[2] \in Blocks /\ x.requested <= e[2]
                        /\ e[2] < Request(x, MAX_BACKLOG).requested,
           \A d, e \in G : d[2] = e[2] => d = e
    PROVE  /\ Counted(Request(x, MAX_BACKLOG), F \cup G)
           /\ Exact(x, F) => Exact(Request(x, MAX_BACKLOG), F \cup G)
<1> DEFINE y == Request(x, MAX_BACKLOG)
           k == ToRequest(x, MAX_BACKLOG)
<1>1. /\ y.requested = x.requested + k /\ y.backlog = x.backlog + k
      /\ y.count = x.count /\ y.data = x.data
  BY DEF Request
<1>2. /\ x.requested \in Int /\ x.count \in Int /\ x.backlog \in Int
      /\ k \in Nat
  BY PieceAssumption, DownloadAssumption DEF PieceType, ToRequest
<1> HIDE DEF y, k
<1>3. IsFiniteSet(F \cup G) /\ Cardinality(F \cup G) = Cardinality(F) + k /\ Cardinality(F) \in Nat
  <2>1. IsFiniteSet(F) /\ Cardinality(F) \in Nat
    BY FS_CardinalityType DEF Counted
  <2>2. Cardinality(F \cap G) = 0 /\ Cardinality(G) = k
    BY FS_EmptySet DEF k
  <2>3. /\ IsFiniteSet(F \cup G)
        /\ Cardinality(F \cup G) = Cardinality(F) + Cardinality(G) - Cardinality(F \cap G)
    BY <2>1, FS_Union
  <2> QED
    BY <1>2, <2>1, <2>2, <2>3
<1>4. \A b \in Blocks : b >= y.requested => y.data[b] = "none"
  BY <1>1, <1>2 DEF Counted
<1>5. \A e \in F \cup G : e[2] \in Blocks /\ e[2] < y.requested /\ y.data[e[2]] = "none"
  <2>1. ASSUME NEW e \in F PROVE e[2] \in Blocks /\ e[2] < y.requested /\ y.data[e[2]] = "none"
    BY <1>1, <1>2 DEF Counted
  <2>2. ASSUME NEW e \in G PROVE e[2] \in Blocks /\ e[2] < y.requested /\ y.data[e[2]] = "none"
    <3>1. e[2] \in Blocks /\ x.requested <= e[2] /\ e[2] < y.requested
      BY DEF y
    <3> QED
      BY <1>1, <1>2, <3>1 DEF Counted
  <2> QED
    BY <2>1, <2>2
<1>6. \A d, e \in F \cup G : d[2] = e[2] => d = e
  <2>1. ASSUME NEW d \in F, NEW e \in G PROVE d[2] # e[2]
    BY <1>2 DEF Counted
  <2> QED
    BY <2>1 DEF Counted
<1>7. y.requested = y.count + y.backlog /\ Cardinality(F \cup G) <= y.backlog
  BY <1>1, <1>2, <1>3 DEF Counted
<1>8. Exact(x, F) => Exact(y, F \cup G)
  BY <1>1, <1>2, <1>3 DEF Exact
<1>9. Counted(y, F \cup G)
  BY <1>3, <1>4, <1>5, <1>6, <1>7 DEF Counted
<1> QED
  BY <1>8, <1>9 DEF y

-----------------------------------------------------------------------------
(* The steps, as the requests see them.                                    *)

\* The request loop of fetch_piece, run for connection p and piece t.
Asks(p, t) ==
    /\ SendRequests(p, t)
    /\ ~choked[p] /\ t \in bitfield[p].has /\ bitfield[p].known
    /\ piece[t].backlog # MAX_BACKLOG /\ ~DownloadFinished(piece[t])

\* try_download asks for blocks of one piece at most, of a connection that has it
\* and does not choke us, in the second fetch_piece too.
LEMMA TryDownloadAsks ==
    ASSUME TypeOK, SchedulerConsistent, TryDownload
    PROVE  \/ \E p \in Peers, t \in Pieces : Asks(p, t) /\ ~Unstarted(p)
           \/ UNCHANGED <<pending, piece>>
<1>1. PICK m \in wake :
        \/ Requeue(m)
        \/ /\ TRUE \in HasPiece(m.peer, m.index) /\ ~choked[m.peer]
           /\ FetchPiece(m) \/ FinishPiece(m) \/ AbortOnIndex(m)
  BY DEF TryDownload
<1>2. m.peer \in Peers /\ ~Unstarted(m.peer)
  BY TargetType DEF SchedulerConsistent
<1>3. ASSUME TRUE \in HasPiece(m.peer, m.index), ~choked[m.peer],
             NEW t \in Pieces, NEW w, NEW own, KeepPiece(m.peer, t, w, own)
      PROVE  Asks(m.peer, t) \/ UNCHANGED <<pending, piece>>
  <2>1. bitfield[m.peer].known
    BY <1>3 DEF HasPiece
  <2> QED
    BY <1>3, <2>1 DEF KeepPiece, Blocked, Asks
<1>4. CASE Requeue(m) \/ AbortOnIndex(m)
  BY <1>4 DEF Requeue, AbortOnIndex
<1>5. CASE TRUE \in HasPiece(m.peer, m.index) /\ ~choked[m.peer] /\ FetchPiece(m)
  BY <1>2, <1>3, <1>5 DEF FetchPiece, RejectPiece
<1>6. CASE TRUE \in HasPiece(m.peer, m.index) /\ ~choked[m.peer] /\ FinishPiece(m)
  <2> DEFINE w == QueueAfter(m)
  <2>1. PICK next :
          \/ /\ next \in Pieces
             /\ KeepPiece(m.peer, next, Pop(w), w.items # <<>>) \/ RejectPiece(m.peer, next, Pop(w))
          \/ UNCHANGED <<piece, pending>>
    BY <1>6 DEF FinishPiece
  <2> HIDE DEF w
  <2> QED
    BY <1>2, <1>3, <1>6, <2>1 DEF RejectPiece
<1> QED
  BY <1>1, <1>4, <1>5, <1>6

\* Every step asks for blocks, takes one in, drops requests, closes a connection, or
\* leaves the pieces and the requests alone.
LEMMA RequestSteps ==
    ASSUME TypeOK, SchedulerConsistent, [Next]_vars
    PROVE  \/ \E p \in Peers, t \in Pieces : Asks(p, t) /\ ~Unstarted(p)
           \/ \E p \in Peers, i \in Pieces, b \in Blocks, d \in {"good", "bad"} : HandlePiece(p, i, b, d)
           \/ \E p \in Peers : HandleChoke(p) \/ OnRemoteClose(p)
           \/ UNCHANGED <<pending, piece>>
<1>1. CASE TryDownload
  BY <1>1, TryDownloadAsks
<1>2. CASE ~TryDownload
  BY <1>2 DEF Next, Receive, Connect, Handshake, HandleBitfield, HandleUnchoke, vars
<1> QED
  BY <1>1, <1>2

\* The requests owed are numbers.
LEMMA OwedNat ==
    ASSUME NEW f \in PendingType, NEW p \in Peers, NEW i \in Pieces, NEW b \in Blocks
    PROVE  <<i, b>> \in Req /\ f[p][<<i, b>>] \in Nat
<1>1. <<i, b>> \in Req
  OBVIOUS
<1> QED
  BY <1>1 DEF PendingType

\* What the request loop changes: one request more for each block it asks for, if
\* the connection is open.
LEMMA AsksEffect ==
    ASSUME TypeOK, NEW p \in Peers, NEW t \in Pieces, Asks(p, t)
    PROVE  IF sock[p] = "open"
           THEN AddsOne(pending, pending', p, t, piece[t].requested, Request(piece[t], MAX_BACKLOG).requested)
           ELSE \A q \in Peers, j \in Pieces, c \in Blocks : pending'[q][<<j, c>>] = pending[q][<<j, c>>]
<1> SUFFICES ASSUME NEW q \in Peers, NEW j \in Pieces, NEW c \in Blocks
             PROVE  pending'[q][<<j, c>>] =
                      IF /\ q = p /\ j = t /\ sock[p] = "open"
                         /\ piece[t].requested <= c /\ c < Request(piece[t], MAX_BACKLOG).requested
                      THEN pending[q][<<j, c>>] + 1 ELSE pending[q][<<j, c>>]
  BY DEF AddsOne
<1> DEFINE r == <<j, c>>
           g == [e \in Req |-> IF sock[p] = "open" /\ e[1] = t /\ Asked(piece[t], e[2])
                              THEN pending[p][e] + 1 ELSE pending[p][e]]
<1>1. r \in Req /\ r[1] = j /\ r[2] = c
  OBVIOUS
<1>2. pending' = [pending EXCEPT ![p] = g]
  BY DEF Asks, SendRequests
<1>3. g[r] = IF sock[p] = "open" /\ j = t /\ Asked(piece[t], c) THEN pending[p][r] + 1 ELSE pending[p][r]
  <2>1. g[r] = IF sock[p] = "open" /\ r[1] = t /\ Asked(piece[t], r[2])
               THEN pending[p][r] + 1 ELSE pending[p][r]
    <3> HIDE DEF r
    <3> QED
      BY <1>1
  <2> QED
    BY <1>1, <2>1
<1>4. pending'[q] = IF q = p THEN g ELSE pending[q]
  BY <1>2 DEF TypeOK
<1> HIDE DEF g, r
<1> QED
  BY <1>3, <1>4 DEF Asked, r

\* What a block that arrives changes: one request less, if the remote owed it.
LEMMA AnswerEffect ==
    ASSUME TypeOK, NEW p \in Peers, NEW i \in Pieces, NEW b \in Blocks, NEW d, HandlePiece(p, i, b, d)
    PROVE  TakesOne(pending, pending', p, i, b)
<1> SUFFICES ASSUME NEW q \in Peers, NEW j \in Pieces, NEW c \in Blocks
             PROVE  pending'[q][<<j, c>>] = IF q = p /\ j = i /\ c = b THEN pending[q][<<j, c>>] - 1
                                            ELSE pending[q][<<j, c>>]
  BY DEF TakesOne
<1> DEFINE r == <<j, c>>
           s == <<i, b>>
<1>1. r \in Req /\ s \in Req /\ (r = s <=> j = i /\ c = b)
  OBVIOUS
<1>2. pending' = [pending EXCEPT ![p][s] = pending[p][s] - 1]
  BY DEF HandlePiece
<1> HIDE DEF r, s
<1>3. pending'[q][r] = IF q = p /\ r = s THEN pending[p][s] - 1 ELSE pending[q][r]
  BY <1>1, <1>2 DEF TypeOK
<1> QED
  BY <1>1, <1>3 DEF r, s

\* A CHOKE or the end of a connection only drops requests.
LEMMA DropEffect ==
    ASSUME TypeOK, NEW p \in Peers, HandleChoke(p) \/ OnRemoteClose(p)
    PROVE  Drops(pending, pending')
<1> SUFFICES ASSUME NEW q \in Peers, NEW j \in Pieces, NEW c \in Blocks
             PROVE  pending'[q][<<j, c>>] <= pending[q][<<j, c>>]
  BY DEF Drops
<1> DEFINE r == <<j, c>>
<1>1. r \in Req
  OBVIOUS
<1> HIDE DEF r
<1>2. pending[q][r] \in Nat
  BY <1>1 DEF TypeOK
<1>3. pending'[q][r] = pending[q][r] \/ pending'[q][r] = 0
  <2>1. CASE HandleChoke(p)
    <3>1. PICK kept :
            pending' = [pending EXCEPT ![p] = [e \in Req |-> IF e \in kept THEN pending[p][e] ELSE 0]]
      BY <2>1 DEF HandleChoke
    <3> QED
      BY <1>1, <3>1 DEF TypeOK
  <2>2. CASE OnRemoteClose(p)
    BY <1>1, <2>2 DEF OnRemoteClose, TypeOK
  <2> QED
    BY <2>1, <2>2
<1> QED
  BY <1>2, <1>3 DEF r

-----------------------------------------------------------------------------
(* RequestsAllowed.                                                        *)

\* A request goes to an open connection that has the piece and does not choke us.
Allowed(p, i, b) ==
    pending'[p][<<i, b>>] > pending[p][<<i, b>>] =>
        sock[p] = "open" /\ ~choked[p] /\ i \in bitfield[p].has

\* In every run, for any number of remotes and whatever they do, a request is sent
\* to no connection that is closed, that chokes us or that lacks the piece.
THEOREM Permitted == Spec => RequestsAllowed
<1>1. ASSUME TypeOK, SchedulerConsistent, [Next]_vars,
             NEW p \in Peers, NEW i \in Pieces, NEW b \in Blocks
      PROVE  Allowed(p, i, b)
  <2>1. pending \in PendingType /\ pending' \in PendingType
    BY <1>1, NextType DEF TypeOK, PendingType
  <2>2. pending[p][<<i, b>>] \in Nat /\ pending'[p][<<i, b>>] \in Nat
    BY <2>1, OwedNat
  <2>3. ASSUME NEW q \in Peers, NEW t \in Pieces, Asks(q, t) PROVE Allowed(p, i, b)
    <3>1. pending'[p][<<i, b>>] > pending[p][<<i, b>>] => p = q /\ i = t /\ sock[q] = "open"
      BY <1>1, <2>2, <2>3, AsksEffect DEF AddsOne
    <3> QED
      BY <2>3, <3>1 DEF Asks, Allowed
  <2>4. ASSUME NEW q \in Peers, NEW j \in Pieces, NEW c \in Blocks, NEW d, HandlePiece(q, j, c, d)
        PROVE  pending'[p][<<i, b>>] <= pending[p][<<i, b>>]
    <3>1. TakesOne(pending, pending', q, j, c)
      BY <1>1, <2>4, AnswerEffect
    <3> QED
      BY <2>2, <3>1 DEF TakesOne
  <2>5. ASSUME NEW q \in Peers, HandleChoke(q) \/ OnRemoteClose(q)
        PROVE  pending'[p][<<i, b>>] <= pending[p][<<i, b>>]
    BY <1>1, <2>5, DropEffect DEF Drops
  <2>6. pending'[p][<<i, b>>] <= pending[p][<<i, b>>] => Allowed(p, i, b)
    BY <2>2 DEF Allowed
  <2> QED
    BY <1>1, <2>2, <2>3, <2>4, <2>5, <2>6, RequestSteps
<1>2. TypeOK /\ SchedulerConsistent /\ [Next]_vars =>
        [\A p \in Peers, i \in Pieces, b \in Blocks : Allowed(p, i, b)]_vars
  BY <1>1
<1>3. Spec => [][\A p \in Peers, i \in Pieces, b \in Blocks : Allowed(p, i, b)]_vars
  BY <1>2, TypeCorrect, Consistent, PTL DEF Spec
<1> QED
  BY <1>3 DEF RequestsAllowed, Allowed

-----------------------------------------------------------------------------
(* RequestedOnce and CountersAgree.  The inductive invariant is Counted    *)
(* for every piece, while no connection has closed.                        *)

CountersInv == NoClose => \A i \in Pieces : Counted(piece[i], Flight(pending, i))

\* Nothing is in flight and nothing is counted when the session starts.
LEMMA InitCounters == Init => CountersInv
<1> SUFFICES ASSUME Init, NEW i \in Pieces PROVE Counted(piece[i], Flight(pending, i))
  BY DEF CountersInv
<1>1. piece[i] = NewPiece
  BY DEF Init
<1>2. Flight(pending, i) = {}
  <2>1. ASSUME NEW x, IsOwed(pending, i, x) PROVE FALSE
    <3>1. <<i, x[2]>> \in Req
      BY <2>1 DEF IsOwed
    <3>2. pending[x[1]][<<i, x[2]>>] = 0
      BY <2>1, <3>1 DEF Init, IsOwed
    <3> QED
      BY <2>1, <3>2 DEF IsOwed
  <2> QED
    BY <2>1, FlightElement
<1>3. IsFiniteSet({}) /\ Cardinality({}) = 0
  BY FS_EmptySet
<1> QED
  BY <1>1, <1>2, <1>3 DEF Counted, NewPiece

\* The request loop keeps the counters of every piece, and the backlog exact.
LEMMA AsksCounted ==
    ASSUME TypeOK, TypeOK', NEW p \in Peers, NEW t \in Pieces, Asks(p, t), sock[p] = "open",
           NEW i \in Pieces, Counted(piece[i], Flight(pending, i))
    PROVE  /\ Counted(piece'[i], Flight(pending', i))
           /\ Exact(piece[i], Flight(pending, i)) => Exact(piece'[i], Flight(pending', i))
<1> DEFINE x == piece[t]
           y == Request(x, MAX_BACKLOG)
           G == Added(pending, p, t, x.requested, y.requested)
<1>1. x \in PieceType /\ y \in PieceType
  BY RequestType DEF TypeOK
<1>2. y.requested = x.requested + ToRequest(x, MAX_BACKLOG) /\ ToRequest(x, MAX_BACKLOG) \in Nat
  <2>1. x.requested \in 0 .. NumBlocks /\ x.backlog \in Int
    BY <1>1 DEF PieceType
  <2>2. y.requested = x.requested + ToRequest(x, MAX_BACKLOG)
    BY DEF Request
  <2> HIDE DEF x, y
  <2>3. ToRequest(x, MAX_BACKLOG) \in Nat
    BY <2>1, PieceAssumption, DownloadAssumption DEF ToRequest
  <2> QED
    BY <2>2, <2>3
<1>3. x.requested \in 0 .. NumBlocks /\ y.requested \in x.requested .. NumBlocks
  BY <1>1, <1>2, PieceAssumption DEF PieceType
<1>4. pending \in PendingType /\ pending' \in PendingType
  BY DEF TypeOK, PendingType
<1>5. piece' = [piece EXCEPT ![t] = y]
  BY DEF Asks, SendRequests
<1>6. AddsOne(pending, pending', p, t, x.requested, y.requested)
  BY AsksEffect
<1> HIDE DEF x, y
<1>7. /\ Flight(pending', t) = Flight(pending, t) \cup G
      /\ Flight(pending, t) \cap G = {}
      /\ IsFiniteSet(G) /\ Cardinality(G) = y.requested - x.requested
      /\ \A j \in Pieces \ {t} : Flight(pending', j) = Flight(pending, j)
  BY <1>3, <1>4, <1>6, FlightAsked
<1>8. CASE i = t
  <2>1. Cardinality(G) = ToRequest(x, MAX_BACKLOG)
    BY <1>2, <1>3, <1>7
  <2>2. ASSUME NEW e \in G
        PROVE  /\ e[2] \in x.requested .. y.requested - 1
               /\ e = <<p, e[2], pending[p][<<t, e[2]>>] + 1>>
    <3>1. PICK b \in x.requested .. y.requested - 1 : e = <<p, b, pending[p][<<t, b>>] + 1>>
      BY DEF Added
    <3> QED
      BY <3>1
  <2>3. \A e \in G : e[2] \in Blocks /\ x.requested <= e[2] /\ e[2] < y.requested
    <3> SUFFICES ASSUME NEW e \in G PROVE e[2] \in Blocks /\ x.requested <= e[2] /\ e[2] < y.requested
      OBVIOUS
    <3>1. e[2] \in x.requested .. y.requested - 1
      BY <2>2
    <3> QED
      BY <1>3, <3>1, PieceAssumption
  <2>4. \A d, e \in G : d[2] = e[2] => d = e
    BY <2>2
  <2>5. Counted(x, Flight(pending, t)) /\ piece'[i] = y /\ piece[i] = x
    BY <1>5, <1>8 DEF x, TypeOK
  <2> HIDE DEF G
  <2>6. /\ Counted(y, Flight(pending, t) \cup G)
        /\ Exact(x, Flight(pending, t)) => Exact(y, Flight(pending, t) \cup G)
    BY <1>1, <1>7, <2>1, <2>3, <2>4, <2>5, CountedAsked DEF y
  <2> QED
    BY <1>7, <1>8, <2>5, <2>6
<1>9. CASE i # t
  <2>1. piece'[i] = piece[i] /\ Flight(pending', i) = Flight(pending, i)
    BY <1>5, <1>7, <1>9 DEF TypeOK
  <2> QED
    BY <2>1
<1> QED
  BY <1>8, <1>9

\* A block that arrives keeps the counters of every piece, and the backlog exact.
LEMMA AnswerCounted ==
    ASSUME TypeOK, TypeOK', NEW p \in Peers, NEW t \in Pieces, NEW b \in Blocks,
           NEW d \in {"good", "bad"}, HandlePiece(p, t, b, d),
           NEW i \in Pieces, Counted(piece[i], Flight(pending, i))
    PROVE  /\ Counted(piece'[i], Flight(pending', i))
           /\ Exact(piece[i], Flight(pending, i)) => Exact(piece'[i], Flight(pending', i))
<1> DEFINE x == piece[t]
           y == BlockArrived(x, b, d)
           e == <<p, b, pending[p][<<t, b>>]>>
<1>1. x \in PieceType
  BY DEF TypeOK
<1>2. pending \in PendingType /\ pending' \in PendingType
  BY DEF TypeOK, PendingType
<1>3. piece' = [piece EXCEPT ![t] = y] /\ pending[p][<<t, b>>] > 0
  BY DEF HandlePiece
<1>4. TakesOne(pending, pending', p, t, b)
  BY AnswerEffect
<1>5. /\ e \in Flight(pending, t)
      /\ Flight(pending', t) = Flight(pending, t) \ {e}
      /\ \A j \in Pieces \ {t} : Flight(pending', j) = Flight(pending, j)
  BY <1>2, <1>3, <1>4, FlightAnswered
<1>6. CASE i = t
  <2>1. e[2] = b /\ d \in Cell
    OBVIOUS
  <2>2. Counted(x, Flight(pending, t)) /\ piece'[i] = y /\ piece[i] = x
    BY <1>3, <1>6 DEF TypeOK
  <2> HIDE DEF e, x
  <2>3. /\ Counted(y, Flight(pending, t) \ {e})
        /\ Exact(x, Flight(pending, t)) => Exact(y, Flight(pending, t) \ {e})
    BY <1>1, <1>5, <2>1, <2>2, CountedAnswered
  <2> QED
    BY <1>5, <1>6, <2>2, <2>3
<1>7. CASE i # t
  <2>1. piece'[i] = piece[i] /\ Flight(pending', i) = Flight(pending, i)
    BY <1>3, <1>5, <1>7 DEF TypeOK
  <2> QED
    BY <2>1
<1> QED
  BY <1>6, <1>7

\* A remote that chokes us drops requests and touches no piece.
LEMMA ChokeCounted ==
    ASSUME TypeOK, TypeOK', NEW p \in Peers, HandleChoke(p),
           NEW i \in Pieces, Counted(piece[i], Flight(pending, i))
    PROVE  Counted(piece'[i], Flight(pending', i))
<1>1. pending \in PendingType /\ pending' \in PendingType
  BY DEF TypeOK, PendingType
<1>2. Drops(pending, pending')
  BY DropEffect
<1>3. Flight(pending', i) \subseteq Flight(pending, i)
  BY <1>1, <1>2, FlightDropped
<1>4. piece' = piece /\ piece[i] \in PieceType
  BY DEF HandleChoke, TypeOK
<1> QED
  BY <1>3, <1>4, CountedDropped

\* The other callbacks leave the sockets as they are.
LEMMA SockStays ==
    ASSUME [Next]_vars, ~(\E q \in Peers : Connect(q) \/ Handshake(q) \/ OnRemoteClose(q))
    PROVE  UNCHANGED sock
<1>1. CASE TryDownload
  BY <1>1 DEF TryDownload, peerVars
<1>2. CASE UNCHANGED vars
  BY <1>2 DEF vars, peerVars
<1>3. ASSUME NEW p, HandleBitfield(p) \/ HandleUnchoke(p) \/ HandleChoke(p) PROVE UNCHANGED sock
  BY <1>3 DEF HandleBitfield, HandleUnchoke, HandleChoke
<1>4. ASSUME NEW p, NEW i, NEW b, NEW d, HandlePiece(p, i, b, d) PROVE UNCHANGED sock
  BY <1>4 DEF HandlePiece, peerVars
<1> QED
  BY <1>1, <1>2, <1>3, <1>4 DEF Next, Receive

\* A connection that is closed stays closed.
LEMMA ClosedStays ==
    ASSUME TypeOK, [Next]_vars, NoClose'
    PROVE  NoClose /\ \A p \in Peers : ~OnRemoteClose(p)
<1>1. ASSUME NEW p \in Peers, OnRemoteClose(p) PROVE FALSE
  BY <1>1 DEF OnRemoteClose, NoClose, TypeOK
<1>2. ASSUME NEW p \in Peers, sock[p] = "closed" PROVE sock'[p] = "closed"
  <2>1. CASE \E q \in Peers : Connect(q) \/ Handshake(q)
    BY <1>2, <2>1 DEF Connect, Handshake, Running, TypeOK
  <2>2. CASE ~(\E q \in Peers : Connect(q) \/ Handshake(q))
    <3>1. UNCHANGED sock
      BY <1>1, <2>2, SockStays
    <3> QED
      BY <1>2, <3>1
  <2> QED
    BY <2>1, <2>2
<1> QED
  BY <1>1, <1>2 DEF NoClose

\* Remotes that never close leave no connection closed.
LEMMA NoneCloses ==
    ASSUME Closing = {}, TypeOK, NoClose, [Next]_vars
    PROVE  NoClose'
<1>1. \A p \in Peers : ~OnRemoteClose(p)
  BY DEF OnRemoteClose
<1>2. CASE \E q \in Peers : Connect(q) \/ Handshake(q)
  BY <1>2 DEF NoClose, Connect, Handshake, TypeOK
<1>3. CASE ~(\E q \in Peers : Connect(q) \/ Handshake(q))
  <2>1. UNCHANGED sock
    BY <1>1, <1>3, SockStays
  <2> QED
    BY <2>1 DEF NoClose
<1> QED
  BY <1>2, <1>3

\* Every callback keeps the counters, while no connection closes.
LEMMA NextCounters == TypeOK /\ SchedulerConsistent /\ CountersInv /\ [Next]_vars => CountersInv'
<1> SUFFICES ASSUME TypeOK, SchedulerConsistent, CountersInv, [Next]_vars, NoClose',
                    NEW i \in Pieces
             PROVE  Counted(piece'[i], Flight(pending', i))
  BY DEF CountersInv
<1>1. NoClose /\ (\A p \in Peers : ~OnRemoteClose(p)) /\ TypeOK'
  BY ClosedStays, NextType
<1>2. Counted(piece[i], Flight(pending, i))
  BY <1>1 DEF CountersInv
<1>3. ASSUME NEW p \in Peers, NEW t \in Pieces, Asks(p, t), ~Unstarted(p)
      PROVE  Counted(piece'[i], Flight(pending', i))
  <2>1. sock[p] = "open"
    BY <1>1, <1>3 DEF Unstarted, NoClose, TypeOK
  <2> QED
    BY <1>1, <1>2, <1>3, <2>1, AsksCounted
<1>4. ASSUME NEW p \in Peers, NEW t \in Pieces, NEW b \in Blocks, NEW d \in {"good", "bad"},
             HandlePiece(p, t, b, d)
      PROVE  Counted(piece'[i], Flight(pending', i))
  BY <1>1, <1>2, <1>4, AnswerCounted
<1>5. ASSUME NEW p \in Peers, HandleChoke(p) PROVE Counted(piece'[i], Flight(pending', i))
  BY <1>1, <1>2, <1>5, ChokeCounted
<1>6. CASE UNCHANGED <<pending, piece>>
  BY <1>2, <1>6
<1> QED
  BY <1>1, <1>3, <1>4, <1>5, <1>6, RequestSteps

\* What the invariant says of InFlight.
LEMMA FlightIsInFlight == \A i \in Pieces : Flight(pending, i) = InFlight(i)
BY DEF Flight, InFlight

\* The counters are kept in every run.
LEMMA CountersKept == Spec => []CountersInv
<1>1. TypeOK /\ SchedulerConsistent /\ CountersInv /\ [Next]_vars
        => (TypeOK /\ SchedulerConsistent /\ CountersInv)'
  BY NextType, NextConsistent, NextCounters
<1> QED
  BY InitType, InitConsistent, InitCounters, <1>1, PTL DEF Spec

\* In every run, while no connection has closed, no block is asked for twice, by
\* however many connections that share its piece, and none that has arrived.
THEOREM AskedOnce == Spec => []RequestedOnce
<1>1. CountersInv => RequestedOnce
  BY FlightIsInFlight DEF CountersInv, Counted, RequestedOnce
<1> QED
  BY <1>1, CountersKept, PTL

\* In every run, while no connection has closed, m_total_requested is what was
\* received and what is in m_backlog, and m_backlog covers what the remotes owe.
THEOREM CountersMatch == Spec => []CountersAgree
<1>1. CountersInv => CountersAgree
  BY FlightIsInFlight DEF CountersInv, Counted, CountersAgree, OutstandingOf
<1> QED
  BY <1>1, CountersKept, PTL

-----------------------------------------------------------------------------
(* BacklogExact.                                                           *)

\* The backlog of every piece is what is in flight for it.
ExactInv == NoClose /\ \A i \in Pieces : Exact(piece[i], Flight(pending, i))

\* With remotes that neither choke nor close, m_backlog is the number of requests
\* in flight, of however many connections: fetch_piece and handle_piece are then
\* all that moves it, and each moves both.
THEOREM BacklogIsOwed ==
    ASSUME Choking = {}, Closing = {}
    PROVE  Spec => []BacklogExact
<1>1. Init => ExactInv
  <2> SUFFICES ASSUME Init PROVE ExactInv
    OBVIOUS
  <2>1. NoClose
    BY DEF Init, NoClose
  <2>2. ASSUME NEW i \in Pieces PROVE Exact(piece[i], Flight(pending, i))
    <3>1. Counted(piece[i], Flight(pending, i))
      BY <2>1, InitCounters DEF CountersInv
    <3>2. piece[i].backlog = 0
      BY DEF Init, NewPiece
    <3>3. Cardinality(Flight(pending, i)) \in Nat
      BY <3>1, FS_CardinalityType DEF Counted
    <3> QED
      BY <3>1, <3>2, <3>3 DEF Counted, Exact
  <2> QED
    BY <2>1, <2>2 DEF ExactInv
<1>2. TypeOK /\ SchedulerConsistent /\ CountersInv /\ ExactInv /\ [Next]_vars => ExactInv'
  <2> SUFFICES ASSUME TypeOK, SchedulerConsistent, CountersInv, ExactInv, [Next]_vars
               PROVE  ExactInv'
    OBVIOUS
  <2>1. TypeOK' /\ \A p \in Peers : ~OnRemoteClose(p) /\ ~HandleChoke(p)
    BY NextType DEF OnRemoteClose, HandleChoke
  <2>2. NoClose'
    BY NoneCloses DEF ExactInv
  <2>3. ASSUME NEW i \in Pieces PROVE Exact(piece'[i], Flight(pending', i))
    <3>1. Counted(piece[i], Flight(pending, i)) /\ Exact(piece[i], Flight(pending, i))
      BY DEF CountersInv, ExactInv
    <3>2. ASSUME NEW p \in Peers, NEW t \in Pieces, Asks(p, t), ~Unstarted(p)
          PROVE  Exact(piece'[i], Flight(pending', i))
      <4>1. sock[p] = "open"
        BY <3>2 DEF Unstarted, ExactInv, NoClose, TypeOK
      <4> QED
        BY <2>1, <3>1, <3>2, <4>1, AsksCounted
    <3>3. ASSUME NEW p \in Peers, NEW t \in Pieces, NEW b \in Blocks, NEW d \in {"good", "bad"},
                 HandlePiece(p, t, b, d)
          PROVE  Exact(piece'[i], Flight(pending', i))
      BY <2>1, <3>1, <3>3, AnswerCounted
    <3>4. CASE UNCHANGED <<pending, piece>>
      BY <3>1, <3>4
    <3> QED
      BY <2>1, <3>2, <3>3, <3>4, RequestSteps
  <2> QED
    BY <2>2, <2>3 DEF ExactInv
<1>3. ExactInv => BacklogExact
  BY FlightIsInFlight DEF ExactInv, Exact, BacklogExact, OutstandingOf
<1> QED
  BY <1>1, <1>2, <1>3, TypeCorrect, Consistent, CountersKept, PTL DEF Spec

-----------------------------------------------------------------------------
(* PipelineBounded, until a connection closes.                             *)

\* m_backlog is never above MAX_BACKLOG, whatever the remotes do.
BacklogInv == \A i \in Pieces : piece[i].backlog <= MAX_BACKLOG

\* Every callback keeps m_backlog at or below MAX_BACKLOG.
LEMMA NextBacklog == TypeOK /\ SchedulerConsistent /\ BacklogInv /\ [Next]_vars => BacklogInv'
<1> SUFFICES ASSUME TypeOK, SchedulerConsistent, BacklogInv, [Next]_vars, NEW i \in Pieces
             PROVE  piece'[i].backlog <= MAX_BACKLOG
  BY DEF BacklogInv
<1>1. piece[i].backlog <= MAX_BACKLOG /\ piece[i] \in PieceType
  BY DEF BacklogInv, TypeOK
<1>2. piece[i].backlog \in Int /\ piece[i].requested \in 0 .. NumBlocks
  BY <1>1 DEF PieceType
<1>3. ASSUME NEW p \in Peers, NEW t \in Pieces, Asks(p, t) PROVE piece'[i].backlog <= MAX_BACKLOG
  <2>1. piece[i].backlog + ToRequest(piece[i], MAX_BACKLOG) <= MAX_BACKLOG
    BY <1>1, <1>2, PieceAssumption, DownloadAssumption DEF ToRequest
  <2>2. Request(piece[i], MAX_BACKLOG).backlog <= MAX_BACKLOG
    BY <2>1 DEF Request
  <2>3. piece' = [piece EXCEPT ![t] = Request(piece[t], MAX_BACKLOG)]
    BY <1>3 DEF Asks, SendRequests
  <2> QED
    BY <1>1, <2>2, <2>3 DEF TypeOK
<1>4. ASSUME NEW p \in Peers, NEW t \in Pieces, NEW b \in Blocks, NEW d, HandlePiece(p, t, b, d)
      PROVE  piece'[i].backlog <= MAX_BACKLOG
  <2>1. BlockArrived(piece[i], b, d).backlog = piece[i].backlog - 1
    BY DEF BlockArrived, IncomingBlock
  <2>2. piece' = [piece EXCEPT ![t] = BlockArrived(piece[t], b, d)]
    BY <1>4 DEF HandlePiece
  <2> QED
    BY <1>1, <1>2, <2>1, <2>2, DownloadAssumption DEF TypeOK
<1>5. ASSUME NEW p \in Peers, OnRemoteClose(p) PROVE piece'[i].backlog <= MAX_BACKLOG
  <2>1. ResetPiece(piece[i]).backlog = 0
    BY DEF ResetPiece
  <2>2. piece' = piece \/ piece' = [piece EXCEPT ![curr[p]] = ResetPiece(piece[curr[p]])]
    BY <1>5 DEF OnRemoteClose
  <2>3. piece'[i] = piece[i] \/ piece'[i] = ResetPiece(piece[i])
    BY <2>2 DEF TypeOK
  <2> QED
    BY <1>1, <2>1, <2>3, DownloadAssumption
<1>6. ASSUME NEW p \in Peers, HandleChoke(p) PROVE UNCHANGED piece
  BY <1>6 DEF HandleChoke
<1> QED
  BY <1>1, <1>3, <1>4, <1>5, <1>6, RequestSteps

\* The pipeline can grow past MAX_BACKLOG only after a connection has closed: until
\* then no piece has more requests in flight, however many connections share it.
THEOREM BoundedUntilClose == Spec => [](NoClose => PipelineBounded)
<1>1. Init => BacklogInv
  BY DownloadAssumption DEF Init, BacklogInv, NewPiece
<1>2. CountersInv /\ BacklogInv /\ TypeOK => (NoClose => PipelineBounded)
  <2> SUFFICES ASSUME CountersInv, BacklogInv, TypeOK, NoClose, NEW i \in Pieces
               PROVE  OutstandingOf(i) <= MAX_BACKLOG
    BY DEF PipelineBounded
  <2>1. Counted(piece[i], InFlight(i)) /\ piece[i].backlog <= MAX_BACKLOG
    BY FlightIsInFlight DEF CountersInv, BacklogInv
  <2>2. OutstandingOf(i) \in Nat /\ piece[i].backlog \in Int
    BY <2>1, FS_CardinalityType DEF Counted, OutstandingOf, TypeOK, PieceType
  <2> QED
    BY <2>1, <2>2, DownloadAssumption DEF Counted, OutstandingOf
<1> QED
  BY <1>1, <1>2, NextBacklog, TypeCorrect, Consistent, CountersKept, PTL DEF Spec
=============================================================================
