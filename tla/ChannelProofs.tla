---------------------------- MODULE ChannelProofs ----------------------------
(***************************************************************************)
(* Proofs about the receive path of a remote that keeps to the protocol:   *)
(* AssertionsHold, and the steps of Delivers, for every sequence of        *)
(* messages, every way to cut them into reads and every capacity of the    *)
(* buffer.  What the remote may send is LegalRemotes of Framing; a remote  *)
(* that is this program too needs no such hypothesis.                      *)
(***************************************************************************)
EXTENDS FramingProofs

-----------------------------------------------------------------------------
(* The integers of serial.cpp.                                             *)

\* deserialize_int reads back what serialize_int wrote.
LEMMA RoundTrip ==
    ASSUME NEW n \in Nat, n <= MaxLength
    PROVE  DeserializeInt(SerializeInt(n)) = n
<1>1. PICK a \in Nat : a = n \div 256 /\ n = 256 * a + (n % 256)
  BY SMT
<1>2. PICK b \in Nat : b = a \div 256 /\ a = 256 * b + (a % 256)
  BY SMT
<1>3. PICK c \in Nat : c = b \div 256 /\ b = 256 * c + (b % 256)
  BY SMT
<1>4. PICK x \in Nat, y \in Nat, z \in Nat :
        /\ x = b % 256 /\ y = a % 256 /\ z = n % 256
        /\ x < 256 /\ y < 256 /\ z < 256
  BY SMT
<1>5. n \div 65536 = b
  <2>1. n = 65536 * b + (256 * y + z) /\ 256 * y + z < 65536
    BY <1>1, <1>2, <1>4, SMT
  <2> QED
    BY <2>1, SMT
<1>6. n = 16777216 * c + (65536 * x + 256 * y + z) /\ 65536 * x + 256 * y + z < 16777216
  BY <1>1, <1>2, <1>3, <1>4, SMT
<1>7. n \div 16777216 = c /\ c < 128 /\ c % 256 = c
  BY <1>6, SMT DEF MaxLength
<1>8. PICK s : s = SerializeInt(n)
  OBVIOUS
<1>9. s[1] = c /\ s[2] = x /\ s[3] = y /\ s[4] = z
  BY <1>1, <1>4, <1>5, <1>7, <1>8, SMT DEF SerializeInt
<1>10. DeserializeInt(s) = c * 16777216 + x * 65536 + y * 256 + z
  BY <1>7, <1>9, SMT DEF DeserializeInt
<1>11. c * 16777216 + x * 65536 + y * 256 + z = n
  BY <1>6, SMT
<1> QED
  BY <1>8, <1>10, <1>11, SMT

-----------------------------------------------------------------------------
(* Slices.                                                                 *)

\* A slice of a slice.
LEMMA SliceInSlice ==
    ASSUME NEW s \in Seq(Byte), NEW w, NEW x, NEW p \in Nat, NEW m \in Nat, NEW n \in Nat,
           NEW k \in Nat, IsSlice(w, s, p, k), IsSlice(x, w, m, n), m + n <= k
    PROVE  IsSlice(x, s, p + m, n)
<1>1. ASSUME NEW i \in 1 .. n PROVE x[i] = s[(p + m) + i]
  <2>1. m + i \in 1 .. k /\ p + (m + i) = (p + m) + i
    OBVIOUS
  <2> QED
    BY <2>1 DEF IsSlice
<1> QED
  BY <1>1 DEF IsSlice

\* There is one slice of a length at a place.
LEMMA OneSlice ==
    ASSUME NEW s, NEW m, NEW n, NEW x, NEW y, IsSlice(x, s, m, n), IsSlice(y, s, m, n)
    PROVE  x = y
BY SeqEqual DEF IsSlice

\* A slice of what is behind.
LEMMA SliceOfRest ==
    ASSUME NEW s \in Seq(Byte), NEW t \in Seq(Byte), NEW x, NEW m \in Nat, NEW n \in Nat,
           IsSlice(x, t, m, n), m + n <= Len(t)
    PROVE  IsSlice(x, s \o t, Len(s) + m, n)
<1>1. Len(s) \in Nat /\ Len(t) \in Nat /\ s \o t \in Seq(Byte)
  BY ConcatProperties
<1> QED
  BY <1>1, SliceBehind, SliceInSlice

\* The front of a concatenation.
LEMMA SliceInFront ==
    ASSUME NEW s \in Seq(Byte), NEW t \in Seq(Byte), NEW z \in Nat, z = 0
    PROVE  IsSlice(s, s \o t, z, Len(s))
<1>1. IsSlice(s, s, 0, Len(s)) /\ Len(s) \in Nat
  BY WholeSlice
<1>2. z + Len(s) <= Len(s)
  BY <1>1
<1>3. IsSlice(s, s, z, Len(s))
  BY <1>1, Zenon
<1> QED
  BY <1>1, <1>2, <1>3, SliceOfFront

-----------------------------------------------------------------------------
(* Where the messages lie in the stream.                                   *)

\* Message i is between at[i - 1] and at[i], its length in front.
LaidOut(messages, s, at) ==
    /\ at \in [0 .. Len(messages) -> Nat]
    /\ at[0] = HandshakeSize /\ at[Len(messages)] = Len(s)
    /\ \A i \in 1 .. Len(messages) :
          /\ at[i] = at[i - 1] + LengthSize + Len(messages[i])
          /\ IsSlice(SerializeInt(Len(messages[i])), s, at[i - 1], LengthSize)
          /\ IsSlice(messages[i], s, at[i - 1] + LengthSize, Len(messages[i]))

Places(messages, s) == CHOOSE at : LaidOut(messages, s, at)

\* A write is a message with its length in front.
IsWrite(w, message) ==
    /\ w \in Seq(Byte) /\ message \in Seq(Byte) /\ Len(w) = LengthSize + Len(message)
    /\ IsSlice(SerializeInt(Len(message)), w, 0, LengthSize)
    /\ IsSlice(message, w, LengthSize, Len(message))

\* A handshake and the writes behind it lay the messages out.
LEMMA StreamLaid ==
    ASSUME NEW m \in Seq(Seq(Byte)), NEW w \in Seq(Seq(Byte)), Len(w) = Len(m),
           \A i \in 1 .. Len(m) : IsWrite(w[i], m[i]),
           NEW h \in Seq(Byte), Len(h) = HandshakeSize
    PROVE  LaidOut(m, h \o FlattenSeq(w), Places(m, h \o FlattenSeq(w)))
<1>1. PICK t \in Seq(Byte) : t = FlattenSeq(w)
  BY FlattenLaid
<1>2. PICK from : Laid(w, t, from)
  BY <1>1, FlattenLaid
<1>3. PICK s \in Seq(Byte) : s = h \o t /\ Len(s) = Len(h) + Len(t)
  BY ConcatProperties
<1>4. Len(h) \in Nat /\ Len(t) \in Nat /\ Len(m) \in Nat /\ LengthSize \in Nat
  BY DEF LengthSize
<1>5. PICK at : at = [k \in 0 .. Len(m) |-> Len(h) + from[k]]
  OBVIOUS
<1>6. /\ from \in [0 .. Len(m) -> Nat] /\ from[0] = 0 /\ from[Len(m)] = Len(t)
  BY <1>2 DEF Laid
<1>7. /\ at \in [0 .. Len(m) -> Nat] /\ \A k \in 0 .. Len(m) : at[k] = Len(h) + from[k]
  <2>1. ASSUME NEW k \in 0 .. Len(m) PROVE Len(h) + from[k] \in Nat
    <3>1. PICK l \in Nat, f \in Nat : l = Len(h) /\ f = from[k]
      BY <1>4, <1>6, Zenon
    <3> QED
      BY <3>1
  <2> QED
    BY <1>5, <2>1, Zenon
<1>8. at[0] = HandshakeSize /\ at[Len(m)] = Len(s)
  BY <1>3, <1>4, <1>6, <1>7
<1>9. ASSUME NEW i \in 1 .. Len(m)
      PROVE  /\ at[i] = at[i - 1] + LengthSize + Len(m[i])
             /\ IsSlice(SerializeInt(Len(m[i])), s, at[i - 1], LengthSize)
             /\ IsSlice(m[i], s, at[i - 1] + LengthSize, Len(m[i]))
  <2>1. i \in 0 .. Len(m) /\ i - 1 \in 0 .. Len(m)
    BY <1>4
  <2>2. PICK p \in Nat : p = from[i - 1]
    BY <1>6, <2>1
  <2>3. PICK n \in Nat : n = Len(m[i])
    BY ElementOfSeq, LenProperties
  <2>4. IsWrite(w[i], m[i]) /\ Len(w[i]) = LengthSize + n
    BY <2>3 DEF IsWrite
  <2>5. from[i] = p + (LengthSize + n) /\ IsSlice(w[i], t, p, LengthSize + n)
    BY <1>2, <2>2, <2>4 DEF Laid
  <2>6. p + (LengthSize + n) <= Len(t) /\ LengthSize + n \in Nat
    <3>1. from[i] <= Len(t)
      BY <1>2 DEF Laid
    <3> QED
      BY <1>4, <2>5, <3>1
  <2>7. IsSlice(w[i], s, Len(h) + p, LengthSize + n)
    <3>1. IsSlice(w[i], h \o t, Len(h) + p, LengthSize + n)
      BY <2>5, <2>6, SliceOfRest
    <3> QED
      BY <1>3, <3>1
  <2>8. at[i - 1] = Len(h) + p /\ at[i] = at[i - 1] + LengthSize + n /\ at[i - 1] \in Nat
    <3>1. at[i - 1] = Len(h) + p /\ at[i] = Len(h) + (p + (LengthSize + n))
      BY <1>7, <2>1, <2>2, <2>5
    <3>2. Len(h) + (p + (LengthSize + n)) = (Len(h) + p) + LengthSize + n /\ Len(h) + p \in Nat
      <4>1. PICK l \in Nat, k \in Nat : l = Len(h) /\ k = LengthSize
        BY <1>4, Zenon
      <4>2. l + (p + (k + n)) = (l + p) + k + n /\ l + p \in Nat
        OBVIOUS
      <4> QED
        BY <4>1, <4>2, Zenon
    <3> QED
      BY <3>1, <3>2
  <2>9. IsSlice(SerializeInt(n), s, at[i - 1], LengthSize)
    <3>1. IsSlice(SerializeInt(n), w[i], 0, LengthSize)
      BY <2>3, <2>4 DEF IsWrite
    <3>2. 0 + LengthSize <= LengthSize + n /\ LengthSize + n \in Nat /\ at[i - 1] + 0 = at[i - 1]
      BY <1>4, <2>8
    <3>3. IsSlice(SerializeInt(n), s, at[i - 1] + 0, LengthSize)
      BY <1>4, <2>7, <2>8, <3>1, <3>2, SliceInSlice
    <3> QED
      BY <3>2, <3>3
  <2>10. IsSlice(m[i], s, at[i - 1] + LengthSize, n)
    <3>1. IsSlice(m[i], w[i], LengthSize, n)
      BY <2>3, <2>4 DEF IsWrite
    <3>2. LengthSize + n <= LengthSize + n /\ LengthSize + n \in Nat
      BY <1>4
    <3> QED
      BY <1>4, <2>7, <2>8, <3>1, <3>2, SliceInSlice
  <2> QED
    BY <2>3, <2>8, <2>9, <2>10
<1>10. LaidOut(m, s, at)
  BY <1>7, <1>8, <1>9 DEF LaidOut
<1> QED
  BY <1>1, <1>3, <1>10 DEF Places

-----------------------------------------------------------------------------
(* The stream of a remote that keeps to the protocol.                      *)

\* The handshake at the front of a stream.
LEMMA RightFront ==
    ASSUME NEW h, RightHandshake(h), NEW t \in Seq(Byte), NEW s, s = h \o t
    PROVE  /\ h \in Seq(Byte) /\ Len(h) = HandshakeSize
           /\ ProtocolRight(s) /\ InfoHashRight(s) /\ PeerIdRight(s)
<1>1. PICK reserved \in [1 .. RESERVED_BYTES_LENGTH -> Byte] :
        h = <<Len(PROTOCOL_ID)>> \o PROTOCOL_ID \o reserved \o InfoHash \o PeerId
  BY DEF RightHandshake
<1>2. /\ RESERVED_BYTES_LENGTH \in Nat /\ InfoHash \in Seq(Byte) /\ PeerId \in Seq(Byte)
      /\ PROTOCOL_ID \in Seq(Byte) /\ <<Len(PROTOCOL_ID)>> \in Seq(Byte)
      /\ Len(<<Len(PROTOCOL_ID)>>) = 1
  BY FramingAssumption
<1>3. reserved \in Seq(Byte) /\ Len(reserved) = RESERVED_BYTES_LENGTH
  BY <1>2
<1>4. PICK p \in Seq(Byte) : p = <<Len(PROTOCOL_ID)>> \o PROTOCOL_ID /\ Len(p) = ProtocolSize
  <2>1. PICK l \in Seq(Byte) : l = <<Len(PROTOCOL_ID)>> /\ Len(l) = 1
    BY <1>2, Zenon
  <2>2. l \o PROTOCOL_ID \in Seq(Byte) /\ Len(l \o PROTOCOL_ID) = 1 + Len(PROTOCOL_ID)
    BY <1>2, <2>1, ConcatProperties
  <2> QED
    BY <2>1, <2>2 DEF ProtocolSize
<1>5. PICK q \in Seq(Byte) : q = p \o reserved /\ Len(q) = ProtocolSize + RESERVED_BYTES_LENGTH
  BY <1>3, <1>4, ConcatProperties
<1>6. PICK i \in Seq(Byte) : i = q \o InfoHash /\ Len(i) = Len(q) + Len(InfoHash)
  <2>1. q \o InfoHash \in Seq(Byte) /\ Len(q \o InfoHash) = Len(q) + Len(InfoHash)
    BY <1>2, ConcatProperties
  <2> QED
    BY <2>1, Zenon
<1>7. h = i \o PeerId /\ h \in Seq(Byte) /\ Len(h) = Len(i) + Len(PeerId)
  BY <1>1, <1>2, <1>4, <1>5, <1>6, ConcatProperties
<1>8. s \in Seq(Byte) /\ Len(s) = Len(h) + Len(t)
  BY <1>7, ConcatProperties
<1>9. PICK ps \in Nat, rs \in Nat, hs \in Nat, ds \in Nat, ts \in Nat :
        /\ ps = ProtocolSize /\ rs = RESERVED_BYTES_LENGTH /\ hs = Len(InfoHash)
        /\ ds = Len(PeerId) /\ ts = Len(t)
  <2>1. Len(InfoHash) \in Nat /\ Len(PeerId) \in Nat /\ Len(t) \in Nat
    BY <1>2, LenProperties
  <2> QED
    BY <1>2, <2>1, Sizes
<1>10. /\ Len(p) = ps /\ Len(q) = ps + rs /\ Len(i) = ps + rs + hs /\ Len(h) = ps + rs + hs + ds
       /\ Len(s) = ps + rs + hs + ds + ts
       /\ InfoHashSize = rs + hs /\ PeerIdSize = ds /\ HandshakeSize = ps + (rs + hs) + ds
  BY <1>4, <1>5, <1>6, <1>7, <1>8, <1>9 DEF InfoHashSize, PeerIdSize, HandshakeSize
<1>11. Len(h) = HandshakeSize
  BY <1>10
<1>12. ProtocolRight(s)
  <2>1. PICK z \in Nat : z = 0
    OBVIOUS
  <2>2. /\ z + ps <= ps + rs /\ z + ps <= ps + rs + hs /\ z + ps <= ps + rs + hs + ds
        /\ z + ps <= ps + rs + hs + ds + ts /\ 1 = z + 1 /\ ps = z + ps
    BY <2>1
  <2>3. IsSlice(p, q, z, ps)
    BY <1>3, <1>4, <1>5, <1>10, <2>1, SliceInFront
  <2>4. IsSlice(p, i, z, ps)
    BY <1>2, <1>6, <1>10, <2>2, <2>3, SliceOfFront
  <2>5. IsSlice(p, h, z, ps)
    BY <1>2, <1>7, <1>10, <2>2, <2>4, SliceOfFront
  <2>6. IsSlice(p, s, z, ps)
    BY <1>7, <1>10, <2>2, <2>5, SliceOfFront
  <2>7. z + ps <= Len(s)
    BY <1>10, <2>2
  <2>8. PICK lo, hi : lo = 1 /\ hi = ps
    OBVIOUS
  <2>9. IsSlice(SubSeq(s, lo, hi), s, z, ps)
    BY <1>8, <2>2, <2>7, <2>8, SliceOf
  <2>10. SubSeq(s, 1, ps) = p
    BY <2>6, <2>8, <2>9, OneSlice
  <2> QED
    BY <1>4, <1>9, <2>10 DEF ProtocolRight
<1>13. InfoHashRight(s)
  <2>1. PICK a \in Nat, lo \in Nat, hi \in Nat : a = ps + rs /\ lo = a + 1 /\ hi = a + hs
    OBVIOUS
  <2>2. /\ a + hs <= ps + rs + hs /\ a + hs <= ps + rs + hs + ds
        /\ a + hs <= ps + rs + hs + ds + ts
        /\ lo = ps + rs + 1 /\ hi = ps + (rs + hs)
    BY <2>1
  <2>3. IsSlice(InfoHash, i, a, hs)
    BY <1>2, <1>6, <1>9, <1>10, <2>1, SliceBehind
  <2>4. IsSlice(InfoHash, h, a, hs)
    BY <1>2, <1>7, <1>10, <2>2, <2>3, SliceOfFront
  <2>5. IsSlice(InfoHash, s, a, hs)
    BY <1>7, <1>10, <2>2, <2>4, SliceOfFront
  <2>6. a + hs <= Len(s)
    BY <1>10, <2>2
  <2>7. IsSlice(SubSeq(s, lo, hi), s, a, hs)
    BY <1>8, <2>1, <2>6, SliceOf
  <2>8. SubSeq(s, lo, hi) = InfoHash
    BY <2>5, <2>7, OneSlice
  <2> QED
    BY <1>9, <1>10, <2>2, <2>8 DEF InfoHashRight
<1>14. PeerIdRight(s)
  <2>1. PICK a \in Nat, lo \in Nat, hi \in Nat : a = ps + rs + hs /\ lo = a + 1 /\ hi = a + ds
    OBVIOUS
  <2>2. /\ a + ds <= ps + rs + hs + ds /\ a + ds <= ps + rs + hs + ds + ts
        /\ lo = ps + (rs + hs) + 1 /\ hi = ps + (rs + hs) + ds
    BY <2>1
  <2>3. IsSlice(PeerId, h, a, ds)
    BY <1>2, <1>7, <1>9, <1>10, <2>1, SliceBehind
  <2>4. IsSlice(PeerId, s, a, ds)
    BY <1>7, <1>10, <2>2, <2>3, SliceOfFront
  <2>5. a + ds <= Len(s)
    BY <1>10, <2>2
  <2>6. IsSlice(SubSeq(s, lo, hi), s, a, ds)
    BY <1>8, <2>1, <2>5, SliceOf
  <2>7. SubSeq(s, lo, hi) = PeerId
    BY <2>4, <2>6, OneSlice
  <2> QED
    BY <1>9, <1>10, <2>2, <2>7 DEF PeerIdRight
<1> QED
  BY <1>7, <1>11, <1>12, <1>13, <1>14

\* send_handshake sends the right handshake.
LEMMA OwnHandshake == RightHandshake(Handshake(InfoHash, PeerId))
<1>1. [i \in 1 .. RESERVED_BYTES_LENGTH |-> 0] \in [1 .. RESERVED_BYTES_LENGTH -> Byte]
  BY DEF Byte
<1> QED
  BY <1>1, Zenon DEF RightHandshake, Handshake

\* A message with its length in front is a write.
LEMMA WriteOfMessage ==
    ASSUME NEW m \in Seq(Byte), NEW w, w = SerializeInt(Len(m)) \o m
    PROVE  IsWrite(w, m)
<1>1. PICK l \in Seq(Byte) : l = SerializeInt(Len(m)) /\ Len(l) = LengthSize
  <2>1. Len(m) \in Int
    BY LenProperties
  <2> QED
    BY <2>1, SerializeBytes
<1>2. w = l \o m /\ w \in Seq(Byte) /\ Len(w) = LengthSize + Len(m)
  BY <1>1, ConcatProperties
<1>3. IsSlice(m, w, LengthSize, Len(m))
  BY <1>1, <1>2, SliceBehind
<1>4. PICK z \in Nat : z = 0
  OBVIOUS
<1>5. IsSlice(l, w, z, LengthSize)
  BY <1>1, <1>2, <1>4, SliceInFront
<1>6. IsSlice(l, w, 0, LengthSize)
  BY <1>4, <1>5, Zenon
<1> QED
  BY <1>1, <1>2, <1>3, <1>6 DEF IsWrite

\* A write whose length is right has a message behind it.
LEMMA MessageOfWrite ==
    ASSUME NEW w \in Seq(Byte), OwnLength(w)
    PROVE  IsWrite(w, SubSeq(w, LengthSize + 1, Len(w)))
<1>1. Len(w) \in Nat /\ LengthSize \in Nat /\ Len(w) > LengthSize
  BY DEF OwnLength, LengthSize
<1>2. PICK n \in Nat, z \in Nat : n = Len(w) - LengthSize /\ z = 0
  BY <1>1
<1>3. /\ Len(w) = LengthSize + n /\ 1 = z + 1 /\ LengthSize = z + LengthSize
      /\ LengthSize <= Len(w) /\ Len(w) <= Len(w)
  BY <1>1, <1>2
<1>4. PICK m : m = SubSeq(w, LengthSize + 1, Len(w))
  OBVIOUS
<1>5. IsSlice(m, w, LengthSize, n)
  <2>1. PICK lo, hi : lo = LengthSize + 1 /\ hi = Len(w)
    OBVIOUS
  <2>2. IsSlice(SubSeq(w, lo, hi), w, LengthSize, n)
    BY <1>1, <1>3, <2>1, SliceOf
  <2> QED
    BY <1>4, <2>1, <2>2
<1>6. m \in Seq(Byte) /\ Len(m) = n
  BY <1>5 DEF IsSlice
<1>7. SubSeq(w, 1, LengthSize) = SerializeInt(n)
  BY <1>2 DEF OwnLength
<1>8. PICK lo, hi : lo = 1 /\ hi = LengthSize
  OBVIOUS
<1>9. IsSlice(SubSeq(w, lo, hi), w, z, LengthSize)
  BY <1>1, <1>3, <1>8, SliceOf
<1>10. IsSlice(SerializeInt(n), w, 0, LengthSize)
  BY <1>2, <1>7, <1>8, <1>9, Zenon
<1> QED
  BY <1>3, <1>4, <1>5, <1>6, <1>10 DEF IsWrite

\* What start finds: a stream laid out, behind the right handshake.
StreamInv ==
    /\ sent \in Seq(Seq(Byte)) /\ LegalMessages(sent)
    /\ bytes \in Seq(Byte) /\ LaidOut(sent, bytes, Places(sent, bytes))
    /\ ProtocolRight(bytes) /\ InfoHashRight(bytes) /\ PeerIdRight(bytes)

LEMMA InitStream ==
    ASSUME LegalRemotes, Init
    PROVE  StreamInv
<1>1. PICK h, w : /\ RightHandshake(h) /\ bytes = h \o FlattenSeq(w)
                  /\ sent \in Seq(Seq(Byte)) /\ LegalMessages(sent)
                  /\ w \in Seq(Seq(Byte)) /\ Len(w) = Len(sent)
                  /\ \A i \in 1 .. Len(sent) : IsWrite(w[i], sent[i])
  <2>1. CASE \E h \in Handshakes : sent \in Sends /\ bytes = h \o Framed(sent)
    <3>1. PICK h \in Handshakes : sent \in Sends /\ bytes = h \o Framed(sent)
      BY <2>1
    <3>2. RightHandshake(h) /\ LegalMessages(sent) /\ sent \in Seq(Seq(Byte))
      BY <3>1, FramingAssumption DEF LegalRemotes
    <3>3. PICK w : w = [i \in DOMAIN sent |-> SerializeInt(Len(sent[i])) \o sent[i]]
      OBVIOUS
    <3>4. w \in Seq(Seq(Byte)) /\ Len(w) = Len(sent)
      BY <3>2, <3>3, WritesOf
    <3>5. ASSUME NEW i \in 1 .. Len(sent) PROVE IsWrite(w[i], sent[i])
      <4>1. sent[i] \in Seq(Byte) /\ w[i] = SerializeInt(Len(sent[i])) \o sent[i]
        BY <3>2, <3>3, ElementOfSeq, LenProperties
      <4> QED
        BY <4>1, WriteOfMessage
    <3>6. bytes = h \o FlattenSeq(w)
      BY <3>1, <3>3 DEF Framed
    <3> QED
      BY <3>2, <3>4, <3>5, <3>6
  <2>2. CASE \E writes \in OwnSends : /\ sent = Bodies(writes)
                                      /\ bytes = Handshake(InfoHash, PeerId) \o FlattenSeq(writes)
    <3>1. PICK w \in OwnSends : /\ sent = Bodies(w)
                                /\ bytes = Handshake(InfoHash, PeerId) \o FlattenSeq(w)
      BY <2>2
    <3>2. /\ LegalMessages(sent) /\ w \in Seq(Seq(Byte)) /\ Len(w) \in Nat /\ DOMAIN w = 1 .. Len(w)
          /\ \A i \in 1 .. Len(w) : w[i] \in Seq(Byte) /\ OwnLength(w[i])
      <4>1. w \in Seq(Seq(Byte))
        BY FramingAssumption
      <4>2. Len(w) \in Nat /\ DOMAIN w = 1 .. Len(w) /\ \A i \in 1 .. Len(w) : w[i] \in Seq(Byte)
        BY <4>1, ElementOfSeq, LenProperties
      <4> QED
        BY <3>1, <4>1, <4>2 DEF LegalRemotes
    <3>3. \A i \in 1 .. Len(w) : sent[i] = SubSeq(w[i], LengthSize + 1, Len(w[i]))
      BY <3>1, <3>2 DEF Bodies
    <3>4. ASSUME NEW i \in 1 .. Len(w) PROVE IsWrite(w[i], sent[i]) /\ sent[i] \in Seq(Byte)
      <4>1. IsWrite(w[i], SubSeq(w[i], LengthSize + 1, Len(w[i])))
        BY <3>2, MessageOfWrite
      <4>2. IsWrite(w[i], sent[i])
        BY <3>3, <4>1
      <4> QED
        BY <4>2 DEF IsWrite
    <3>5. sent \in Seq(Seq(Byte)) /\ Len(sent) = Len(w)
      <4>1. sent = [i \in 1 .. Len(w) |-> sent[i]]
        BY <3>1, <3>2 DEF Bodies
      <4> QED
        BY <3>2, <3>4, <4>1
    <3> QED
      BY <3>1, <3>2, <3>4, <3>5, OwnHandshake
  <2> QED
    BY <2>1, <2>2 DEF Init
<1>2. FlattenSeq(w) \in Seq(Byte)
  BY <1>1, FlattenLaid
<1>3. /\ h \in Seq(Byte) /\ Len(h) = HandshakeSize
      /\ ProtocolRight(bytes) /\ InfoHashRight(bytes) /\ PeerIdRight(bytes)
  BY <1>1, <1>2, RightFront
<1>4. LaidOut(sent, bytes, Places(sent, bytes))
  BY <1>1, <1>3, StreamLaid
<1> QED
  BY <1>1, <1>3, <1>4, BytesType DEF StreamInv

-----------------------------------------------------------------------------
(* The assertions of recv_buffer.                                          *)

\* setup_receive finds all of the buffer passed on, and room behind it; a buffer of
\* one byte would not grow.
LEMMA RoomMade ==
    ASSUME NEW b, BufferOK(b), RecvEnd(b) - b.start - b.pos = 0, b.cap > 1
    PROVE  ReserveAsserts(Room(b), MaxReceive(Room(b))) /\ PosAtEnd(Room(b))
<1>1. PICK e \in Nat, f \in Nat, q \in Nat, c \in Nat, z \in Nat :
        /\ e = RecvEnd(b) /\ f = b.start /\ q = b.pos /\ c = b.cap /\ z = b.size
        /\ f <= e /\ e <= c /\ e = f + q /\ q <= c /\ c > 1
  <2>1. PICK e \in Nat : e = RecvEnd(b)
    BY BufferNumbers
  <2>2. PICK f \in Nat, q \in Nat : f = b.start /\ q = b.pos
    BY BufferNumbers
  <2>3. PICK c \in Nat, z \in Nat : c = b.cap /\ z = b.size
    BY BufferNumbers
  <2>4. f <= e /\ e <= c /\ e - f - q = 0 /\ c > 1
    BY <2>1, <2>2, <2>3, BufferNumbers
  <2>5. e = f + q /\ q <= c
    BY <2>4
  <2> QED
    BY <2>1, <2>2, <2>3, <2>4, <2>5, Zenon
<1>2. PICK t : t = SubSeq(b.mem, b.start + 1, RecvEnd(b))
  OBVIOUS
<1>3. Len(t) = q
  <2>1. IsSlice(t, b.mem, f, q)
    <3>0. b.mem \in Seq(Byte) /\ RecvEnd(b) = Len(b.mem)
      BY BufferNumbers
    <3>1. b.mem \in Seq(Byte) /\ e <= Len(b.mem)
      <4>1. e = Len(b.mem)
        BY <1>1, <3>0, Zenon
      <4> QED
        BY <3>0, <4>1
    <3>2. PICK lo, hi : lo = f + 1 /\ hi = e
      OBVIOUS
    <3>3. IsSlice(SubSeq(b.mem, lo, hi), b.mem, f, q)
      BY <1>1, <3>1, <3>2, SliceOf
    <3> QED
      BY <1>1, <1>2, <3>2, <3>3
  <2> QED
    BY <2>1 DEF IsSlice
<1>4. PICK R : R = [n \in Nat |-> [cap |-> n, mem |-> t, start |-> 0, pos |-> q, size |-> z]]
  OBVIOUS
<1>5. Clean(b) = R[c]
  <2>1. PICK d : d = Clean(b)
    OBVIOUS
  <2>2. d = [cap |-> b.cap, mem |-> d.mem, start |-> 0, pos |-> b.pos, size |-> b.size] /\ d.mem = t
    BY <1>2, <2>1 DEF Clean, BufferOK, BufferType
  <2> QED
    BY <1>1, <1>4, <2>1, <2>2
<1>6. ASSUME NEW n \in Nat PROVE R[n].cap = n /\ R[n].start = 0 /\ R[n].pos = q /\ RecvEnd(R[n]) = q
  BY <1>3, <1>4 DEF RecvEnd
<1>7. ASSUME NEW n \in Nat, n > 1 PROVE \E m \in Nat : m > n /\ Grow(R[n]) = R[m]
  <2> DEFINE m == IF n < z THEN z ELSE (n * 3) \div 2
  <2>1. m \in Nat /\ m > n
    BY <1>7
  <2>2. Grow(R[n]) = R[m]
    BY <1>4, <2>1 DEF Grow
  <2> QED
    BY <2>1, <2>2
<1>8. \E n \in Nat : n > q /\ Room(b) = R[n]
  <2>1. CASE MaxReceive(R[c]) = 0
    <3>1. PICK m \in Nat : m > c /\ Grow(R[c]) = R[m]
      BY <1>1, <1>7
    <3>2. PICK n \in Nat : n > m /\ Grow(R[m]) = R[n]
      <4>1. m > 1
        BY <1>1, <3>1
      <4> QED
        BY <1>7, <4>1
    <3>3. Room(b) = R[n]
      BY <1>5, <2>1, <3>1, <3>2 DEF Room, Grown
    <3>4. n > q
      BY <1>1, <3>1, <3>2
    <3> QED
      BY <3>3, <3>4
  <2>2. CASE MaxReceive(R[c]) # 0
    <3>1. Room(b) = R[c]
      BY <1>5, <2>2 DEF Room, Grown
    <3>2. c - q # 0
      BY <1>6, <2>2 DEF MaxReceive
    <3>3. c > q
      BY <1>1, <3>2
    <3> QED
      BY <3>1, <3>3
  <2> QED
    BY <2>1, <2>2
<1>9. PICK n \in Nat : n > q /\ Room(b) = R[n]
  BY <1>8
<1>10. MaxReceive(R[n]) > 0
  BY <1>6, <1>9 DEF MaxReceive
<1> QED
  BY <1>6, <1>9, <1>10 DEF ReserveAsserts, PosAtEnd

\* reset behind a finished message that was read.
LEMMA ResetPasses ==
    ASSUME NEW b, BufferOK(b), Passable(b), IsMessageFinished(b), NEW next \in Nat \ {0}
    PROVE  ResetAsserts(b, next)
<1>1. PICK e \in Nat, f \in Nat, q \in Nat, c \in Nat, z \in Nat :
        e = RecvEnd(b) /\ f = b.start /\ q = b.pos /\ c = b.cap /\ z = b.size
  BY BufferNumbers
<1>2. f <= e /\ e <= c /\ f + q <= e /\ z <= q
  BY <1>1, BufferNumbers DEF Passable, IsMessageFinished
<1>3. /\ 0 <= z /\ z <= c /\ q <= c /\ next > 0 /\ f <= e /\ z <= q /\ f + z <= e /\ e <= c
  BY <1>2
<1> QED
  BY <1>1, <1>3 DEF ResetAsserts, CutAsserts

-----------------------------------------------------------------------------
(* The inductive invariant: where the loop and the buffer are, and what of *)
(* the stream was delivered.                                               *)

\* No assertion failed; between two passes of the loop the message is not finished,
\* so every pass passes something on.
LoopInv ==
    /\ disconnect = FALSE /\ pc \in {"idle", "passing", "on_receive", "returned", "closed"}
    /\ buf.cap > 1
    /\ pc \in {"idle", "passing", "returned"} => buf.pos < buf.size
    /\ pc = "on_receive" => buf.pos <= buf.size
    /\ pc \in {"on_receive", "returned"} /\ passed = 0 => total = 0

\* State st waits for size bytes from place at on, d messages having been delivered.
Waits(st, at, size, d) ==
    /\ st \in {"READ_PROTOCOL_ID", "READ_INFO_HASH", "READ_PEER_ID"} => d = 0
    /\ st = "READ_MESSAGE_SIZE" => size = LengthSize /\ at = Places(sent, bytes)[d]
    /\ st = "READ_MESSAGE" => /\ d < Len(sent) /\ size = Len(sent[d + 1])
                              /\ at = Places(sent, bytes)[d] + LengthSize

\* do_message was called with the first messages.
DeliveredFirst ==
    /\ delivered \in Seq(Seq(Byte)) /\ Len(delivered) <= Len(sent)
    /\ \A i \in 1 .. Len(delivered) : delivered[i] = sent[i]
    /\ choked \in BOOLEAN /\ (choked <=> Choked(sent, Len(delivered)))

DeliveryInv ==
    DeliveredFirst /\ Waits(state, Base(buf, recvd), buf.size, Len(delivered))

ChannelInv == FramingInv /\ StreamInv /\ LoopInv /\ DeliveryInv

\* start and send_handshake establish it.
LEMMA InitChannel ==
    ASSUME LegalRemotes, Init
    PROVE  ChannelInv
<1>1. FramingInv /\ StreamInv
  BY InitFraming, InitStream
<1>2. buf.cap = InitialCapacity /\ buf.pos = 0 /\ buf.size \in Nat \ {0}
  <2>1. buf.size \in Nat \ {0}
    BY <1>1, BufferNumbers DEF FramingInv, FramingType
  <2> QED
    BY <2>1, FramingAssumption DEF Init, Reset, Reserve, EmptyBuffer, RecvEnd, HasMore, MaxOf
<1>3. LoopInv
  BY <1>2, FramingAssumption DEF Init, LoopInv
<1>4. delivered = <<>> /\ Len(delivered) = 0 /\ state = "READ_PROTOCOL_ID" /\ choked = TRUE
  BY DEF Init
<1>5. DeliveredFirst
  <2>1. sent \in Seq(Seq(Byte)) /\ Len(sent) \in Nat
    BY <1>1 DEF StreamInv
  <2>2. delivered \in Seq(Seq(Byte)) /\ Choked(sent, 0)
    BY <1>4 DEF Choked
  <2> QED
    BY <1>4, <2>1, <2>2 DEF DeliveredFirst
<1>6. DeliveryInv
  BY <1>4, <1>5 DEF DeliveryInv, Waits
<1> QED
  BY <1>1, <1>3, <1>6 DEF ChannelInv

-----------------------------------------------------------------------------
(* peer_connection_core keeps the invariant.                               *)

\* No step changes what the remote sends.
LEMMA StreamStays ==
    ASSUME [Next]_vars
    PROVE  UNCHANGED stream
<1>1. ASSUME NEW n \in 0 .. Len(bytes), OnRead(n) PROVE UNCHANGED stream
  BY <1>1 DEF OnRead
<1>2. CASE OnRemoteClose \/ FetchSetup
  BY <1>2 DEF OnRemoteClose, FetchSetup
<1>3. CASE Callback
  BY <1>3 DEF Callback, PassBytes, EndOfLoop, OnReceive, ReadProtocolId, ReadInfoHash, ReadPeerId,
     ReadMessageSize, ReadMessage, HandleBitfield, HandleUnchoke, HandleChoke, HandlePiece, HandleOther
<1>4. CASE UNCHANGED vars
  BY <1>4 DEF vars
<1> QED
  BY <1>1, <1>2, <1>3, <1>4 DEF Next

\* StreamInv is about the stream alone.
LEMMA StreamKeeps ==
    ASSUME StreamInv, UNCHANGED stream
    PROVE  StreamInv'
BY DEF StreamInv, stream

\* The invariant on delivery, when nothing is delivered.
LEMMA DeliveryStays ==
    ASSUME DeliveryInv, UNCHANGED <<stream, delivered, choked>>,
           Waits(state', Base(buf', recvd'), buf'.size, Len(delivered))
    PROVE  DeliveryInv'
<1>1. DeliveredFirst'
  BY DEF DeliveryInv, DeliveredFirst, stream
<1>2. Waits(state, Base(buf, recvd), buf.size, Len(delivered))'
  BY DEF Waits, stream
<1> QED
  BY <1>1, <1>2 DEF DeliveryInv

\* The numbers of the buffer and the loop.
LEMMA LoopNumbers ==
    ASSUME ChannelInv
    PROVE  /\ BufferOK(buf) /\ Holds(buf, bytes, recvd) /\ bytes \in Seq(Byte)
           /\ recvd \in Nat /\ recvd <= Len(bytes) /\ total \in Int /\ passed \in Int
           /\ buf.pos \in Nat /\ buf.size \in Nat \ {0} /\ buf.cap \in Nat
BY BufferNumbers DEF ChannelInv, FramingInv, FramingType

\* on_read.
LEMMA ReadDone ==
    ASSUME ChannelInv, NEW n \in Nat, OnRead(n)
    PROVE  LoopInv' /\ DeliveryInv' /\ delivered' = delivered
<1>1. /\ pc = "idle" /\ n <= MaxReceive(buf) /\ recvd + n <= Len(bytes)
      /\ buf' = Received(buf, SubSeq(bytes, recvd + 1, recvd + n))
      /\ recvd' = recvd + n /\ total' = n /\ pc' = "passing"
      /\ UNCHANGED <<stream, passed, state, disconnect, choked, delivered>>
  BY ReceivedAsserted DEF OnRead, ChannelInv, flags
<1>2. /\ buf'.start = buf.start /\ buf'.pos = buf.pos /\ buf'.size = buf.size
      /\ buf'.cap = buf.cap /\ RecvEnd(buf') = RecvEnd(buf) + n
  BY <1>1, LoopNumbers, ReceivedEffect
<1>3. LoopInv'
  BY <1>1, <1>2 DEF ChannelInv, LoopInv
<1>4. Base(buf', recvd') = Base(buf, recvd)
  <2>1. recvd \in Nat /\ RecvEnd(buf) \in Nat /\ buf.start \in Nat
    BY LoopNumbers, BufferNumbers
  <2>2. (recvd + n) - (RecvEnd(buf) + n) + buf.start = recvd - RecvEnd(buf) + buf.start
    BY <2>1
  <2> QED
    BY <1>1, <1>2, <2>2 DEF Base
<1>5. DeliveryInv'
  BY <1>1, <1>2, <1>4, DeliveryStays DEF ChannelInv, DeliveryInv
<1> QED
  BY <1>1, <1>3, <1>5

\* on_remote_close.
LEMMA CloseDone ==
    ASSUME ChannelInv, OnRemoteClose
    PROVE  LoopInv' /\ DeliveryInv' /\ delivered' = delivered
<1>1. pc' = "closed" /\ UNCHANGED <<stream, recvd, total, passed, buf, state, flags, delivered>>
  BY DEF OnRemoteClose
<1>2. LoopInv'
  BY <1>1 DEF ChannelInv, LoopInv, flags
<1>3. DeliveryInv'
  BY <1>1, DeliveryStays DEF ChannelInv, DeliveryInv, flags
<1> QED
  BY <1>1, <1>2, <1>3

\* on_receive_internal passes something on when there is something left: the position
\* is before the end of the message.
LEMMA PassDone ==
    ASSUME ChannelInv, PassBytes
    PROVE  LoopInv' /\ DeliveryInv' /\ delivered' = delivered
<1>1. /\ pc = "passing" /\ passed' = Advance(buf, total) /\ buf' = AdvancePos(buf, total)
      /\ pc' = "on_receive" /\ UNCHANGED <<stream, recvd, total, state, flags, delivered>>
  BY DEF PassBytes
<1>2. total \in Nat /\ buf.pos < buf.size
  <2>1. total \in Int
    BY LoopNumbers
  <2>2. total >= 0 /\ buf.pos < buf.size
    BY <1>1 DEF ChannelInv, FramingInv, EveryByteAccounted, LoopInv
  <2> QED
    BY <2>1, <2>2
<1>3. /\ buf'.pos = buf.pos + passed' /\ buf'.mem = buf.mem /\ buf'.start = buf.start
      /\ buf'.size = buf.size /\ buf'.cap = buf.cap
  <2>1. PICK c : c = buf' /\ c = AdvancePos(buf, total)
    BY <1>1
  <2>2. PICK n \in Nat : n = total
    BY <1>2
  <2>3. BufferOK(buf) /\ c = AdvancePos(buf, n)
    BY <2>1, <2>2, LoopNumbers, Zenon
  <2>4. /\ c.pos = buf.pos + Advance(buf, n) /\ c.mem = buf.mem
        /\ c.start = buf.start /\ c.size = buf.size /\ c.cap = buf.cap
    BY <2>3, AdvanceEffect
  <2> QED
    BY <1>1, <2>1, <2>2, <2>4, Zenon
<1>4. PICK q \in Nat, z \in Nat, t \in Nat : q = buf.pos /\ z = buf.size /\ t = total /\ q < z
  BY <1>2, LoopNumbers
<1>5. passed' = IF z - q <= t THEN z - q ELSE t
  BY <1>1, <1>4 DEF Advance, MinOf
<1>6. passed' \in Nat /\ q + passed' <= z /\ (passed' = 0 => t = 0)
  BY <1>4, <1>5
<1>7. buf'.pos <= buf'.size /\ (passed' = 0 => total' = 0)
  BY <1>1, <1>3, <1>4, <1>6
<1>8. LoopInv'
  BY <1>1, <1>3, <1>7 DEF ChannelInv, LoopInv, flags
<1>9. Base(buf', recvd') = Base(buf, recvd)
  BY <1>1, <1>3 DEF Base, RecvEnd
<1>10. DeliveryInv'
  BY <1>1, <1>3, <1>9, DeliveryStays DEF ChannelInv, DeliveryInv, flags
<1> QED
  BY <1>1, <1>8, <1>10

\* setup_receive, when everything was passed on.
LEMMA SetupDone ==
    ASSUME ChannelInv, SetupReceive, Left = 0, buf.pos < buf.size,
           UNCHANGED <<stream, recvd, state, flags, delivered>>
    PROVE  LoopInv' /\ DeliveryInv'
<1>1. BufferOK(buf) /\ recvd \in Nat /\ Holds(buf, bytes, recvd) /\ buf.cap > 1
  BY LoopNumbers DEF ChannelInv, LoopInv
<1>2. ReserveAsserts(Room(buf), MaxReceive(Room(buf))) /\ PosAtEnd(Room(buf))
  BY <1>1, RoomMade DEF Left
<1>3. buf' = Reserve(Room(buf), MaxReceive(Room(buf))) /\ pc' = "idle"
  BY <1>2 DEF SetupReceive
<1>4. /\ buf'.size = buf.size /\ Base(buf', recvd) = Base(buf, recvd) /\ buf'.pos = buf.pos
      /\ buf'.cap >= buf.cap /\ BufferOK(buf')
  BY <1>1, <1>2, <1>3, SetupEffect
<1>5. buf'.cap > 1
  <2>1. buf'.cap \in Nat /\ buf.cap \in Nat
    BY <1>1, <1>4, BufferNumbers
  <2> QED
    BY <1>1, <1>4, <2>1
<1>6. LoopInv'
  BY <1>3, <1>4, <1>5 DEF ChannelInv, LoopInv, flags
<1>7. DeliveryInv'
  BY <1>4, DeliveryStays DEF ChannelInv, DeliveryInv, flags
<1> QED
  BY <1>6, <1>7

\* fetch_piece.
LEMMA FetchDone ==
    ASSUME ChannelInv, FetchSetup
    PROVE  LoopInv' /\ DeliveryInv' /\ delivered' = delivered
<1>1. Left = 0 /\ buf.pos < buf.size
  BY DEF FetchSetup, ChannelInv, FramingInv, EveryByteAccounted, LoopInv
<1> QED
  BY <1>1, SetupDone DEF FetchSetup

\* The end of the loop: everything was passed on, or something was and the loop goes on.
LEMMA EndDone ==
    ASSUME ChannelInv, EndOfLoop
    PROVE  LoopInv' /\ DeliveryInv' /\ delivered' = delivered
<1>1. /\ pc = "returned" /\ total' = total - passed /\ disconnect = FALSE
      /\ UNCHANGED <<stream, recvd, passed, state, flags, delivered>>
      /\ Left = total - passed /\ buf.pos < buf.size
      /\ 0 <= passed /\ passed <= total /\ (passed = 0 => total = 0)
  BY DEF EndOfLoop, ChannelInv, FramingInv, EveryByteAccounted, LoopInv
<1>2. CASE total' > 0 /\ passed > 0
  <2>1. pc' = "passing" /\ UNCHANGED buf
    BY <1>2 DEF EndOfLoop
  <2>2. LoopInv'
    BY <1>1, <2>1 DEF ChannelInv, LoopInv, flags
  <2>3. DeliveryInv'
    BY <1>1, <2>1, DeliveryStays DEF ChannelInv, DeliveryInv, flags
  <2> QED
    BY <1>1, <2>2, <2>3
<1>3. CASE ~(total' > 0 /\ passed > 0)
  <2>1. SetupReceive
    BY <1>1, <1>3 DEF EndOfLoop
  <2>2. Left = 0
    <3>1. total \in Int /\ passed \in Int
      BY LoopNumbers
    <3>2. total - passed = 0
      BY <1>1, <1>3, <3>1
    <3> QED
      BY <1>1, <3>2
  <2> QED
    BY <1>1, <2>1, <2>2, SetupDone
<1> QED
  BY <1>2, <1>3

-----------------------------------------------------------------------------
(* on_receive and the handlers keep the invariant.                         *)

\* on_receive returns without a whole message.
LEMMA ReturnDone ==
    ASSUME ChannelInv, pc = "on_receive", ~IsMessageFinished(buf), Return,
           UNCHANGED <<stream, recvd, total, passed>>
    PROVE  LoopInv' /\ DeliveryInv' /\ delivered' = delivered
<1>1. pc' = "returned" /\ UNCHANGED <<buf, state, flags, delivered>>
  BY DEF Return
<1>2. buf.pos < buf.size
  BY LoopNumbers DEF IsMessageFinished
<1>3. LoopInv'
  BY <1>1, <1>2 DEF ChannelInv, LoopInv, flags
<1>4. DeliveryInv'
  BY <1>1, DeliveryStays DEF ChannelInv, DeliveryInv, flags
<1> QED
  BY <1>1, <1>3, <1>4

\* A whole message: get returns as many bytes as it has, those of the stream.
LEMMA Whole ==
    ASSUME ChannelInv, pc = "on_receive", IsMessageFinished(buf)
    PROVE  /\ buf.pos = buf.size /\ SizeAsserted(buf.size)
           /\ Base(buf, recvd) \in Nat /\ Base(buf, recvd) + buf.size <= Len(bytes)
           /\ IsSlice(Get(buf), bytes, Base(buf, recvd), buf.size)
           /\ Get(buf) = SubSeq(bytes, Base(buf, recvd) + 1, Base(buf, recvd) + buf.size)
<1>1. buf.pos = buf.size
  <2>1. buf.pos \in Nat /\ buf.size \in Nat
    BY LoopNumbers
  <2>2. buf.pos <= buf.size /\ buf.pos >= buf.size
    BY DEF ChannelInv, LoopInv, IsMessageFinished
  <2> QED
    BY <2>1, <2>2
<1>2. /\ Base(buf, recvd) \in Nat /\ Base(buf, recvd) + buf.pos <= recvd /\ recvd <= Len(bytes)
      /\ Get(buf) = SubSeq(bytes, Base(buf, recvd) + 1, Base(buf, recvd) + buf.pos)
      /\ Len(Get(buf)) = buf.pos /\ bytes \in Seq(Byte) /\ recvd \in Nat
  BY Found DEF ChannelInv
<1>3. PICK m \in Nat, n \in Nat : m = Base(buf, recvd) /\ n = buf.size
  BY <1>2, LoopNumbers
<1>4. m + n <= Len(bytes)
  <2>1. Len(bytes) \in Nat /\ m + n <= recvd
    BY <1>1, <1>2, <1>3
  <2> QED
    BY <1>2, <1>3, <2>1
<1>5. PICK lo, hi : lo = m + 1 /\ hi = m + n
  OBVIOUS
<1>6. IsSlice(SubSeq(bytes, lo, hi), bytes, m, n)
  BY <1>2, <1>3, <1>4, <1>5, SliceOf
<1> QED
  BY <1>1, <1>2, <1>3, <1>4, <1>5, <1>6 DEF SizeAsserted

\* reset behind a whole message: the next one starts there, nothing of it passed yet.
LEMMA ResetDone ==
    ASSUME ChannelInv, pc = "on_receive", IsMessageFinished(buf), NEW next \in Nat \ {0}
    PROVE  /\ ResetAsserts(buf, next)
           /\ Reset(buf, next).size = next /\ Reset(buf, next).pos = 0
           /\ Reset(buf, next).cap = buf.cap
           /\ Base(Reset(buf, next), recvd) = Base(buf, recvd) + buf.size
<1>1. BufferOK(buf) /\ recvd \in Nat /\ Holds(buf, bytes, recvd) /\ Passable(buf)
  BY LoopNumbers, PassedRead DEF ChannelInv
<1>2. ResetAsserts(buf, next)
  BY <1>1, ResetPasses
<1>3. PICK c : c = Reset(buf, next)
  OBVIOUS
<1>4. /\ BufferOK(c) /\ c.size = next /\ c.cap = buf.cap
      /\ Base(c, recvd) = Base(buf, recvd) + buf.size
      /\ RecvEnd(c) - c.start - c.pos = RecvEnd(buf) - buf.start - buf.pos
  BY <1>1, <1>2, <1>3, ResetEffect
<1>5. c.pos = 0
  <2>1. PICK e \in Nat, f \in Nat, q \in Nat, z \in Nat :
          e = RecvEnd(buf) /\ f = buf.start /\ q = buf.pos /\ z = buf.size /\ q = z
    BY <1>1, BufferNumbers, Whole
  <2>2. PICK g \in Nat, h \in Nat, p \in Nat : g = RecvEnd(c) /\ h = c.start /\ p = c.pos
    BY <1>4, BufferNumbers
  <2>3. g - h - p = e - f - q
    BY <1>4, <2>1, <2>2
  <2>4. recvd - g + h = (recvd - e + f) + z
    BY <1>4, <2>1, <2>2 DEF Base
  <2>5. p = 0
    BY <1>1, <2>1, <2>3, <2>4
  <2> QED
    BY <2>2, <2>5
<1> QED
  BY <1>2, <1>3, <1>4, <1>5

\* on_receive waits for the next message: no assertion fails.
LEMMA AwaitDone ==
    ASSUME ChannelInv, pc = "on_receive", IsMessageFinished(buf), NEW s, NEW size \in Nat \ {0},
           Await(s, size), UNCHANGED <<stream, recvd, total, passed, disconnect, choked, delivered>>,
           Waits(s, Base(buf, recvd) + buf.size, size, Len(delivered))
    PROVE  LoopInv' /\ DeliveryInv' /\ delivered' = delivered
<1>1. state' = s /\ buf' = Reset(buf, size) /\ pc' = pc
  BY ResetDone DEF Await
<1>2. /\ buf'.size = size /\ buf'.pos = 0 /\ buf'.cap = buf.cap
      /\ Base(buf', recvd) = Base(buf, recvd) + buf.size
  BY <1>1, ResetDone
<1>3. LoopInv'
  BY <1>1, <1>2 DEF ChannelInv, LoopInv
<1>4. Waits(state', Base(buf', recvd'), buf'.size, Len(delivered))
  BY <1>1, <1>2
<1>5. DeliveryInv'
  BY <1>4, DeliveryStays DEF ChannelInv
<1> QED
  BY <1>3, <1>5

\* The places of the messages.
LEMMA PlacesLaid ==
    ASSUME ChannelInv
    PROVE  /\ LaidOut(sent, bytes, Places(sent, bytes))
           /\ Places(sent, bytes) \in [0 .. Len(sent) -> Nat]
           /\ Len(sent) \in Nat /\ Len(delivered) \in 0 .. Len(sent)
<1>1. LaidOut(sent, bytes, Places(sent, bytes)) /\ sent \in Seq(Seq(Byte))
  BY DEF ChannelInv, StreamInv
<1>2. delivered \in Seq(Seq(Byte)) /\ Len(delivered) <= Len(sent)
  BY DEF ChannelInv, DeliveryInv, DeliveredFirst
<1>3. Len(sent) \in Nat /\ Len(delivered) \in Nat
  BY <1>1, <1>2, LenProperties
<1> QED
  BY <1>1, <1>2, <1>3 DEF LaidOut

\* READ_PROTOCOL_ID.
LEMMA ProtocolIdDone ==
    ASSUME ChannelInv, ReadProtocolId
    PROVE  LoopInv' /\ DeliveryInv' /\ delivered' = delivered
<1>1. /\ pc = "on_receive" /\ state = "READ_PROTOCOL_ID" /\ UNCHANGED <<stream, recvd, total, passed>>
      /\ Base(buf, recvd) = 0 /\ buf.size = ProtocolSize /\ ProtocolRight(bytes)
      /\ Len(delivered) = 0
  BY DEF ReadProtocolId, In, ChannelInv, FramingInv, HandshakeInv, Stage, StreamInv, DeliveryInv, Waits
<1>2. CASE ~IsMessageFinished(buf)
  BY <1>1, <1>2, ReturnDone DEF ReadProtocolId
<1>3. CASE IsMessageFinished(buf)
  <2>1. SizeAsserted(ProtocolSize)
    BY <1>1, <1>3, Whole
  <2>2. Get(buf) = <<Len(PROTOCOL_ID)>> \o PROTOCOL_ID
    <3>1. 0 + 1 = 1 /\ 0 + ProtocolSize = ProtocolSize
      BY Sizes
    <3>2. Get(buf) = SubSeq(bytes, 0 + 1, 0 + ProtocolSize)
      BY <1>1, <1>3, Whole
    <3> QED
      BY <1>1, <3>1, <3>2 DEF ProtocolRight
  <2>3. Await("READ_INFO_HASH", InfoHashSize) /\ UNCHANGED <<flags, delivered>>
    BY <1>3, <2>1, <2>2 DEF ReadProtocolId
  <2>4. Waits("READ_INFO_HASH", Base(buf, recvd) + buf.size, InfoHashSize, Len(delivered))
    BY <1>1 DEF Waits
  <2> QED
    BY <1>1, <1>3, <2>3, <2>4, Sizes, AwaitDone DEF flags
<1> QED
  BY <1>2, <1>3

\* READ_INFO_HASH.
LEMMA InfoHashDone ==
    ASSUME ChannelInv, ReadInfoHash
    PROVE  LoopInv' /\ DeliveryInv' /\ delivered' = delivered
<1>1. /\ pc = "on_receive" /\ state = "READ_INFO_HASH" /\ UNCHANGED <<stream, recvd, total, passed>>
      /\ Base(buf, recvd) = ProtocolSize /\ buf.size = InfoHashSize /\ InfoHashRight(bytes)
      /\ Len(delivered) = 0
  BY DEF ReadInfoHash, In, ChannelInv, FramingInv, HandshakeInv, Stage, StreamInv, DeliveryInv, Waits
<1>2. CASE ~IsMessageFinished(buf)
  BY <1>1, <1>2, ReturnDone DEF ReadInfoHash
<1>3. CASE IsMessageFinished(buf)
  <2>1. SizeAsserted(InfoHashSize)
    BY <1>1, <1>3, Whole
  <2>2. SubSeq(Get(buf), RESERVED_BYTES_LENGTH + 1, InfoHashSize) = InfoHash
    <3>1. /\ bytes \in Seq(Byte) /\ ProtocolSize \in Nat /\ InfoHashSize \in Nat
          /\ RESERVED_BYTES_LENGTH \in Nat /\ RESERVED_BYTES_LENGTH <= InfoHashSize
          /\ ProtocolSize + InfoHashSize <= Len(bytes)
      BY <1>1, <1>3, Whole, LoopNumbers, Sizes
    <3>2. /\ IsSlice(Get(buf), bytes, ProtocolSize, InfoHashSize)
          /\ Get(buf) = SubSeq(bytes, ProtocolSize + 1, ProtocolSize + InfoHashSize)
      BY <1>1, <1>3, Whole
    <3>3. PICK lo \in Nat : lo = RESERVED_BYTES_LENGTH + 1 /\ 1 <= lo /\ lo <= InfoHashSize + 1
      BY <3>1
    <3>4. ProtocolSize + lo = ProtocolSize + RESERVED_BYTES_LENGTH + 1
      BY <3>1, <3>3
    <3>5. SubSeq(Get(buf), lo, InfoHashSize) =
            SubSeq(bytes, ProtocolSize + lo, ProtocolSize + InfoHashSize)
      BY <3>1, <3>2, <3>3, SliceOfSlice
    <3> QED
      BY <1>1, <3>3, <3>4, <3>5 DEF InfoHashRight
  <2>3. Await("READ_PEER_ID", PeerIdSize) /\ UNCHANGED <<flags, delivered>>
    BY <1>1, <1>3, <2>1, <2>2 DEF ReadInfoHash
  <2>4. Waits("READ_PEER_ID", Base(buf, recvd) + buf.size, PeerIdSize, Len(delivered))
    BY <1>1 DEF Waits
  <2> QED
    BY <1>1, <1>3, <2>3, <2>4, Sizes, AwaitDone DEF flags
<1> QED
  BY <1>2, <1>3

\* READ_PEER_ID: the first message is behind the handshake.
LEMMA PeerIdDone ==
    ASSUME ChannelInv, ReadPeerId
    PROVE  LoopInv' /\ DeliveryInv' /\ delivered' = delivered
<1>1. /\ pc = "on_receive" /\ state = "READ_PEER_ID" /\ UNCHANGED <<stream, recvd, total, passed>>
      /\ Base(buf, recvd) = ProtocolSize + InfoHashSize /\ buf.size = PeerIdSize
      /\ PeerIdRight(bytes) /\ Len(delivered) = 0
  BY DEF ReadPeerId, In, ChannelInv, FramingInv, HandshakeInv, Stage, StreamInv, DeliveryInv, Waits
<1>2. CASE ~IsMessageFinished(buf)
  BY <1>1, <1>2, ReturnDone DEF ReadPeerId
<1>3. CASE IsMessageFinished(buf)
  <2>1. SizeAsserted(PeerIdSize)
    BY <1>1, <1>3, Whole
  <2>2. HandshakeSize = ProtocolSize + InfoHashSize + PeerIdSize
    BY DEF HandshakeSize
  <2>3. IsPeerId(Get(buf))
    BY <1>1, <1>3, <2>2, Whole DEF PeerIdRight, IsPeerId
  <2>4. /\ Await("READ_MESSAGE_SIZE", LengthSize) /\ UNCHANGED <<disconnect, choked, delivered>>
    BY <1>1, <1>3, <2>1, <2>3 DEF ReadPeerId
  <2>5. Places(sent, bytes)[0] = HandshakeSize
    BY PlacesLaid DEF LaidOut
  <2>6. Waits("READ_MESSAGE_SIZE", Base(buf, recvd) + buf.size, LengthSize, Len(delivered))
    BY <1>1, <2>2, <2>5 DEF Waits
  <2>7. LengthSize \in Nat \ {0}
    BY DEF LengthSize
  <2> QED
    BY <1>1, <1>3, <2>4, <2>6, <2>7, AwaitDone
<1> QED
  BY <1>2, <1>3

\* The next message, and where it lies.
LEMMA NextInStream ==
    ASSUME ChannelInv, Len(delivered) < Len(sent), NEW m, m = sent[Len(delivered) + 1],
           NEW p, p = Places(sent, bytes)[Len(delivered)]
    PROVE  /\ m \in Seq(Byte) /\ Len(m) \in Nat \ {0} /\ Len(m) <= MaxLength /\ p \in Nat
           /\ Places(sent, bytes)[Len(delivered) + 1] = p + LengthSize + Len(m)
           /\ IsSlice(SerializeInt(Len(m)), bytes, p, LengthSize)
           /\ IsSlice(m, bytes, p + LengthSize, Len(m))
           /\ m[1] = BITFIELD => Len(m) > 5 /\ Choked(sent, Len(delivered))
           /\ m[1] = PIECE => BlockIndex(m) \in 0 .. PieceCount - 1
<1>1. PICK d \in Nat : d = Len(delivered) /\ d < Len(sent)
  BY PlacesLaid
<1>2. d + 1 \in 1 .. Len(sent) /\ (d + 1) - 1 = d /\ d \in 0 .. Len(sent)
  BY <1>1, PlacesLaid
<1>3. PICK i \in 1 .. Len(sent) : i = d + 1 /\ i - 1 = d
  BY <1>2
<1>4. /\ m = sent[i] /\ p = Places(sent, bytes)[i - 1]
      /\ Places(sent, bytes)[Len(delivered) + 1] = Places(sent, bytes)[i]
  BY <1>1, <1>3
<1>5. p \in Nat
  BY <1>2, <1>3, <1>4, PlacesLaid
<1>6. /\ Places(sent, bytes)[i] = p + LengthSize + Len(m)
      /\ IsSlice(SerializeInt(Len(m)), bytes, p, LengthSize)
      /\ IsSlice(m, bytes, p + LengthSize, Len(m))
  BY <1>4, PlacesLaid DEF LaidOut
<1>7. sent \in Seq(Seq(Byte)) /\ LegalMessages(sent) /\ DOMAIN sent = 1 .. Len(sent)
  BY LenProperties DEF ChannelInv, StreamInv
<1>8. m \in Seq(Byte) /\ Len(m) \in Nat
  BY <1>4, <1>7, ElementOfSeq, LenProperties
<1>9. /\ 0 < Len(m) /\ Len(m) <= MaxLength
      /\ m[1] = BITFIELD => Len(m) > 5 /\ Choked(sent, i - 1)
      /\ m[1] = PIECE => BlockIndex(m) \in 0 .. PieceCount - 1
  BY <1>4, <1>7, Zenon DEF LegalMessages
<1> QED
  BY <1>1, <1>3, <1>4, <1>5, <1>6, <1>8, <1>9

\* READ_MESSAGE_SIZE: a whole length is that of the next message.
LEMMA MessageSizeDone ==
    ASSUME ChannelInv, ReadMessageSize
    PROVE  LoopInv' /\ DeliveryInv' /\ delivered' = delivered
<1>1. /\ pc = "on_receive" /\ state = "READ_MESSAGE_SIZE" /\ UNCHANGED <<stream, recvd, total, passed>>
      /\ buf.size = LengthSize /\ Base(buf, recvd) = Places(sent, bytes)[Len(delivered)]
  BY DEF ReadMessageSize, In, ChannelInv, DeliveryInv, Waits
<1>2. CASE ~IsMessageFinished(buf)
  BY <1>1, <1>2, ReturnDone DEF ReadMessageSize
<1>3. CASE IsMessageFinished(buf)
  <2>1. Len(delivered) < Len(sent)
    <3> SUFFICES ASSUME Len(delivered) = Len(sent) PROVE FALSE
      BY PlacesLaid
    <3>1. Base(buf, recvd) = Len(bytes) /\ Base(buf, recvd) + LengthSize <= Len(bytes)
      BY <1>1, <1>3, PlacesLaid, Whole DEF LaidOut
    <3>2. Len(bytes) \in Nat
      BY LoopNumbers
    <3> QED
      BY <3>1, <3>2 DEF LengthSize
  <2>2. PICK m : m = sent[Len(delivered) + 1]
    OBVIOUS
  <2>3. /\ m \in Seq(Byte) /\ Len(m) \in Nat \ {0} /\ Len(m) <= MaxLength
        /\ IsSlice(SerializeInt(Len(m)), bytes, Base(buf, recvd), LengthSize)
    BY <1>1, <2>1, <2>2, NextInStream
  <2>4. IsSlice(Get(buf), bytes, Base(buf, recvd), LengthSize)
    BY <1>1, <1>3, Whole
  <2>5. Get(buf) = SerializeInt(Len(m))
    BY <2>3, <2>4, OneSlice
  <2>6. DeserializeInt(Get(buf)) = Len(m)
    BY <2>3, <2>5, RoundTrip
  <2>7. ~(Len(m) <= 0) /\ Len(m) > 0
    BY <2>3
  <2>8. Await("READ_MESSAGE", Len(m)) /\ UNCHANGED <<flags, delivered>>
    BY <1>1, <1>3, <2>6, <2>7 DEF ReadMessageSize
  <2>9. Waits("READ_MESSAGE", Base(buf, recvd) + buf.size, Len(m), Len(delivered))
    BY <1>1, <2>1, <2>2 DEF Waits
  <2> QED
    BY <1>1, <1>3, <2>3, <2>8, <2>9, AwaitDone DEF flags
<1> QED
  BY <1>2, <1>3

\* READ_MESSAGE with a part of the message.
LEMMA MessageDone ==
    ASSUME ChannelInv, ReadMessage
    PROVE  LoopInv' /\ DeliveryInv' /\ delivered' = delivered
BY ReturnDone DEF ReadMessage, In

\* The message do_message gets is the next of the remote's.
LEMMA MessageFound ==
    ASSUME ChannelInv, NEW id, Handling(id), NEW m, m = sent[Len(delivered) + 1]
    PROVE  /\ pc = "on_receive" /\ IsMessageFinished(buf) /\ Len(delivered) < Len(sent)
           /\ Get(buf) = m /\ m[1] = id /\ m \in Seq(Byte)
           /\ delivered' = Append(delivered, m)
           /\ Base(buf, recvd) + buf.size = Places(sent, bytes)[Len(delivered) + 1]
<1>1. /\ pc = "on_receive" /\ state = "READ_MESSAGE" /\ IsMessageFinished(buf) /\ Get(buf)[1] = id
      /\ delivered' = Append(delivered, Get(buf))
  BY DEF Handling, In
<1>2. /\ Len(delivered) < Len(sent) /\ buf.size = Len(m)
      /\ Base(buf, recvd) = Places(sent, bytes)[Len(delivered)] + LengthSize
  BY <1>1 DEF ChannelInv, DeliveryInv, Waits
<1>3. PICK p : p = Places(sent, bytes)[Len(delivered)]
  OBVIOUS
<1>4. /\ m \in Seq(Byte) /\ Len(m) \in Nat /\ p \in Nat
      /\ Places(sent, bytes)[Len(delivered) + 1] = p + LengthSize + Len(m)
      /\ IsSlice(m, bytes, p + LengthSize, Len(m))
  BY <1>2, <1>3, NextInStream
<1>5. IsSlice(Get(buf), bytes, p + LengthSize, Len(m))
  BY <1>1, <1>2, <1>3, Whole
<1>6. Get(buf) = m
  BY <1>4, <1>5, OneSlice
<1> QED
  BY <1>1, <1>2, <1>3, <1>4, <1>6

\* choked, one message on.
LEMMA ChokedNext ==
    ASSUME NEW m, NEW d \in Nat
    PROVE  /\ m[d + 1][1] = UNCHOKE => ~Choked(m, d + 1)
           /\ m[d + 1][1] = CHOKE => Choked(m, d + 1)
           /\ m[d + 1][1] \notin {CHOKE, UNCHOKE} => (Choked(m, d + 1) <=> Choked(m, d))
<1>1. PICK e \in Nat : e = d + 1
  OBVIOUS
<1>2. e \in 1 .. e /\ e + 1 .. e = {} /\ \A i \in 1 .. e : i \in 1 .. d \/ i = e
  BY <1>1
<1>3. /\ \A i \in 1 .. d : i \in 1 .. e /\ e \in i + 1 .. e
      /\ \A i \in 1 .. d : \A j \in i + 1 .. d : j \in i + 1 .. e
      /\ \A i \in 1 .. d : \A j \in i + 1 .. e : j \in i + 1 .. d \/ j = e
  BY <1>1
<1>4. m[e][1] = UNCHOKE => ~Choked(m, e)
  BY <1>2 DEF Choked
<1>5. m[e][1] = CHOKE => Choked(m, e)
  <2>1. CHOKE # UNCHOKE
    BY DEF CHOKE, UNCHOKE
  <2> QED
    BY <1>2, <1>3, <2>1, Zenon DEF Choked
<1>6. m[e][1] \notin {CHOKE, UNCHOKE} => (Choked(m, e) <=> Choked(m, d))
  BY <1>2, <1>3, Zenon DEF Choked
<1> QED
  BY <1>1, <1>4, <1>5, <1>6, Zenon

\* A handler that is done with the message delivers it and waits for the next length.
LEMMA HandlerDone ==
    ASSUME ChannelInv, NEW id, Handling(id), NextMessage,
           UNCHANGED <<stream, recvd, total, passed, disconnect>>,
           choked' \in BOOLEAN, choked' <=> Choked(sent, Len(delivered) + 1)
    PROVE  LoopInv' /\ DeliveryInv' /\ Channel!Deliver
<1>1. PICK m : m = sent[Len(delivered) + 1]
  OBVIOUS
<1>2. /\ pc = "on_receive" /\ IsMessageFinished(buf) /\ Len(delivered) < Len(sent)
      /\ m \in Seq(Byte) /\ delivered' = Append(delivered, m)
      /\ Base(buf, recvd) + buf.size = Places(sent, bytes)[Len(delivered) + 1]
  BY <1>1, MessageFound
<1>3. LengthSize \in Nat \ {0}
  BY DEF LengthSize
<1>4. state' = "READ_MESSAGE_SIZE" /\ buf' = Reset(buf, LengthSize) /\ pc' = "returned"
  BY <1>2, <1>3, ResetDone DEF NextMessage
<1>5. /\ buf'.size = LengthSize /\ buf'.pos = 0 /\ buf'.cap = buf.cap
      /\ Base(buf', recvd) = Base(buf, recvd) + buf.size
  BY <1>2, <1>3, <1>4, ResetDone
<1>6. LoopInv'
  <2>1. buf'.pos < buf'.size /\ buf'.cap = buf.cap
    BY <1>3, <1>5
  <2> QED
    BY <1>2, <1>4, <2>1 DEF ChannelInv, LoopInv
<1>7. /\ delivered \in Seq(Seq(Byte)) /\ Len(delivered) \in Nat /\ Len(sent) \in Nat
      /\ \A i \in 1 .. Len(delivered) : delivered[i] = sent[i]
  BY PlacesLaid DEF ChannelInv, DeliveryInv, DeliveredFirst
<1>8. /\ delivered' \in Seq(Seq(Byte)) /\ Len(delivered') = Len(delivered) + 1
      /\ \A i \in 1 .. Len(delivered) : delivered'[i] = delivered[i]
      /\ delivered'[Len(delivered) + 1] = m
  BY <1>2, <1>7, AppendProperties
<1>9. ASSUME NEW i \in 1 .. Len(delivered') PROVE delivered'[i] = sent[i]
  <2>1. i \in 1 .. Len(delivered) \/ i = Len(delivered) + 1
    BY <1>7, <1>8
  <2> QED
    BY <1>1, <1>7, <1>8, <2>1
<1>10. sent' = sent /\ bytes' = bytes /\ recvd' = recvd
  BY DEF stream
<1>11. DeliveredFirst'
  <2>1. Len(delivered') <= Len(sent')
    BY <1>2, <1>7, <1>8, <1>10
  <2>2. choked' <=> Choked(sent', Len(delivered'))
    BY <1>8, <1>10
  <2> QED
    BY <1>8, <1>9, <1>10, <2>1, <2>2 DEF DeliveredFirst
<1>12. Waits(state, Base(buf, recvd), buf.size, Len(delivered))'
  BY <1>2, <1>4, <1>5, <1>8, <1>10 DEF Waits
<1>13. Channel!Deliver
  BY <1>1, <1>2, <1>10 DEF Channel!Deliver
<1> QED
  BY <1>6, <1>11, <1>12, <1>13 DEF DeliveryInv

\* choked is what the messages delivered say.
LEMMA ChokedSays ==
    ASSUME ChannelInv, NEW id, Handling(id)
    PROVE  /\ id = UNCHOKE => ~Choked(sent, Len(delivered) + 1)
           /\ id = CHOKE => Choked(sent, Len(delivered) + 1)
           /\ id \notin {CHOKE, UNCHOKE} => (choked <=> Choked(sent, Len(delivered) + 1))
           /\ choked \in BOOLEAN
<1>1. sent[Len(delivered) + 1][1] = id
  BY MessageFound
<1>2. Len(delivered) \in Nat
  BY PlacesLaid
<1>3. choked \in BOOLEAN /\ (choked <=> Choked(sent, Len(delivered)))
  BY DEF ChannelInv, DeliveryInv, DeliveredFirst
<1> QED
  BY <1>1, <1>2, <1>3, ChokedNext

\* handle_bitfield: the BITFIELD comes first, and has more bytes than the offset.
LEMMA BitfieldDone ==
    ASSUME ChannelInv, HandleBitfield
    PROVE  LoopInv' /\ DeliveryInv' /\ Channel!Deliver
<1>1. Handling(BITFIELD) /\ UNCHANGED <<stream, recvd, total, passed, flags>>
  BY DEF HandleBitfield
<1>2. PICK m : m = sent[Len(delivered) + 1]
  OBVIOUS
<1>3. Get(buf) = m /\ m[1] = BITFIELD /\ Len(delivered) < Len(sent)
  BY <1>1, <1>2, MessageFound
<1>4. Len(m) \in Nat /\ Len(m) > 5 /\ Choked(sent, Len(delivered))
  BY <1>2, <1>3, NextInStream
<1>5. choked
  BY <1>4 DEF ChannelInv, DeliveryInv, DeliveredFirst
<1>6. NextMessage
  BY <1>3, <1>4, <1>5 DEF HandleBitfield
<1>7. BITFIELD \notin {CHOKE, UNCHOKE}
  BY DEF BITFIELD, CHOKE, UNCHOKE
<1>8. choked' \in BOOLEAN /\ (choked' <=> Choked(sent, Len(delivered) + 1))
  BY <1>1, <1>7, ChokedSays DEF flags
<1> QED
  BY <1>1, <1>6, <1>8, HandlerDone DEF flags

\* handle_piece: the block is one of the torrent's.
LEMMA PieceDone ==
    ASSUME ChannelInv, HandlePiece
    PROVE  LoopInv' /\ DeliveryInv' /\ Channel!Deliver
<1>1. Handling(PIECE) /\ UNCHANGED <<stream, recvd, total, passed, flags>>
  BY DEF HandlePiece
<1>2. PICK m : m = sent[Len(delivered) + 1]
  OBVIOUS
<1>3. Get(buf) = m /\ m[1] = PIECE /\ Len(delivered) < Len(sent)
  BY <1>1, <1>2, MessageFound
<1>4. BlockIndex(m) \in 0 .. PieceCount - 1
  BY <1>2, <1>3, NextInStream
<1>5. NextMessage
  BY <1>3, <1>4 DEF HandlePiece
<1>6. PIECE \notin {CHOKE, UNCHOKE}
  BY DEF PIECE, CHOKE, UNCHOKE
<1>7. choked' \in BOOLEAN /\ (choked' <=> Choked(sent, Len(delivered) + 1))
  BY <1>1, <1>6, ChokedSays DEF flags
<1> QED
  BY <1>1, <1>5, <1>7, HandlerDone DEF flags

\* The handlers of CHOKE and UNCHOKE, and the ids that are not handled.
LEMMA OthersDone ==
    ASSUME ChannelInv, HandleUnchoke \/ HandleChoke \/ HandleOther
    PROVE  LoopInv' /\ DeliveryInv' /\ Channel!Deliver
<1>1. CASE HandleUnchoke
  <2>1. /\ Handling(UNCHOKE) /\ NextMessage /\ choked' = FALSE
        /\ UNCHANGED <<stream, recvd, total, passed, disconnect>>
    BY <1>1 DEF HandleUnchoke
  <2>2. choked' \in BOOLEAN /\ (choked' <=> Choked(sent, Len(delivered) + 1))
    BY <2>1, ChokedSays
  <2> QED
    BY <2>1, <2>2, HandlerDone
<1>2. CASE HandleChoke
  <2>1. /\ Handling(CHOKE) /\ NextMessage /\ choked' = TRUE
        /\ UNCHANGED <<stream, recvd, total, passed, disconnect>>
    BY <1>2 DEF HandleChoke
  <2>2. choked' \in BOOLEAN /\ (choked' <=> Choked(sent, Len(delivered) + 1))
    BY <2>1, ChokedSays
  <2> QED
    BY <2>1, <2>2, HandlerDone
<1>3. CASE HandleOther
  <2>1. PICK id \in Byte \ {CHOKE, UNCHOKE, BITFIELD, PIECE} : Handling(id)
    BY <1>3 DEF HandleOther
  <2>2. NextMessage /\ UNCHANGED <<stream, recvd, total, passed, flags>>
    BY <1>3 DEF HandleOther
  <2>3. choked' \in BOOLEAN /\ (choked' <=> Choked(sent, Len(delivered) + 1))
    BY <2>1, <2>2, ChokedSays DEF flags
  <2> QED
    BY <2>1, <2>2, <2>3, HandlerDone DEF flags
<1> QED
  BY <1>1, <1>2, <1>3

-----------------------------------------------------------------------------
(* The theorems.                                                           *)

\* Every step keeps the invariant, and is one of the channel's or none.
LEMMA NextChannel ==
    ASSUME ChannelInv, [Next]_vars
    PROVE  ChannelInv' /\ [Channel!Deliver]_<<sent, delivered>>
<1>1. UNCHANGED stream
  BY StreamStays
<1>2. FramingInv' /\ StreamInv'
  BY <1>1, NextFraming, StreamKeeps DEF ChannelInv
<1>3. LoopInv' /\ DeliveryInv' /\ (delivered' = delivered \/ Channel!Deliver)
  <2>1. ASSUME NEW n \in 0 .. Len(bytes), OnRead(n)
        PROVE  LoopInv' /\ DeliveryInv' /\ delivered' = delivered
    <3>1. n \in Nat
      OBVIOUS
    <3> QED
      BY <2>1, <3>1, ReadDone
  <2>2. CASE OnRemoteClose \/ FetchSetup
    BY <2>2, CloseDone, FetchDone
  <2>3. CASE PassBytes \/ EndOfLoop
    BY <2>3, PassDone, EndDone
  <2>4. CASE ReadProtocolId \/ ReadInfoHash \/ ReadPeerId
    BY <2>4, ProtocolIdDone, InfoHashDone, PeerIdDone
  <2>5. CASE ReadMessageSize \/ ReadMessage
    BY <2>5, MessageSizeDone, MessageDone
  <2>6. CASE HandleBitfield \/ HandleUnchoke \/ HandleChoke \/ HandlePiece \/ HandleOther
    BY <2>6, BitfieldDone, PieceDone, OthersDone
  <2>7. CASE UNCHANGED vars
    <3>1. /\ UNCHANGED <<stream, recvd, pc, total, passed, buf, state, disconnect, choked, delivered>>
      BY <2>7 DEF vars, flags
    <3>2. LoopInv'
      BY <3>1 DEF ChannelInv, LoopInv
    <3>3. DeliveryInv'
      BY <3>1, DeliveryStays DEF ChannelInv, DeliveryInv
    <3> QED
      BY <3>1, <3>2, <3>3
  <2> QED
    BY <2>1, <2>2, <2>3, <2>4, <2>5, <2>6, <2>7 DEF Next, Callback, OnReceive
<1> QED
  BY <1>1, <1>2, <1>3 DEF ChannelInv, stream

\* The invariant holds in every run with a remote that keeps to the protocol.
LEMMA ChannelKept ==
    ASSUME LegalRemotes
    PROVE  Spec => []ChannelInv
<1>1. Init => ChannelInv
  BY InitChannel
<1>2. ChannelInv /\ [Next]_vars => ChannelInv'
  BY NextChannel
<1> QED
  BY <1>1, <1>2, PTL DEF Spec

\* No assertion of recv_buffer, of on_receive or of the bitfield constructor fails,
\* however the bytes of a remote that keeps to the protocol arrive.
THEOREM NoAssertionFails ==
    ASSUME LegalRemotes
    PROVE  Spec => []AssertionsHold
<1>1. ChannelInv => AssertionsHold
  BY DEF ChannelInv, LoopInv, AssertionsHold
<1> QED
  BY <1>1, ChannelKept, PTL

\* The receive path implements the steps of MessageChannel: do_message is called with
\* the messages the remote sent, whole, once each and in order.
THEOREM DeliversInOrder ==
    ASSUME LegalRemotes
    PROVE  Spec => Channel!Init /\ [][Channel!Deliver]_<<sent, delivered>>
<1>1. Init => Channel!Init
  BY DEF Init, Channel!Init
<1>2. ChannelInv /\ [Next]_vars => [Channel!Deliver]_<<sent, delivered>>
  BY NextChannel
<1> QED
  BY <1>1, <1>2, ChannelKept, PTL DEF Spec

-----------------------------------------------------------------------------
(* What this program writes keeps to the protocol.                         *)

\* The messages of peer_connection: request, send_interested and send_have.
OwnMessages ==
    {InterestedMessage}
    \cup {RequestMessage(index, offset, length) : index \in Int, offset \in Int, length \in Int}
    \cup {HaveMessage(index) : index \in Int}

\* A message of n bytes whose length was written in front of it.
LEMMA OwnWrite ==
    ASSUME NEW m \in Seq(Byte), Len(m) # 0, NEW w, w = SerializeInt(Len(m)) \o m
    PROVE  w \in Seq(Byte) /\ OwnLength(w) /\ SubSeq(w, LengthSize + 1, Len(w)) = m
<1>1. IsWrite(w, m)
  BY WriteOfMessage
<1>2. PICK n \in Nat, k \in Nat, z \in Nat : n = Len(m) /\ k = LengthSize /\ z = 0
  BY LenProperties DEF LengthSize
<1>3. /\ w \in Seq(Byte) /\ Len(w) = k + n /\ n # 0
      /\ IsSlice(SerializeInt(n), w, z, k) /\ IsSlice(m, w, k, n)
  BY <1>1, <1>2 DEF IsWrite
<1>4. PICK one, lo, hi : one = z + 1 /\ lo = k + 1 /\ hi = k + n
  OBVIOUS
<1>5. IsSlice(SubSeq(w, one, k), w, z, k)
  <2>1. k = z + k /\ k <= Len(w)
    BY <1>2, <1>3
  <2> QED
    BY <1>3, <1>4, <2>1, SliceOf
<1>6. IsSlice(SubSeq(w, lo, hi), w, k, n)
  <2>1. hi <= Len(w)
    BY <1>3, <1>4
  <2> QED
    BY <1>3, <1>4, <2>1, SliceOf
<1>7. SubSeq(w, one, k) = SerializeInt(n) /\ SubSeq(w, lo, hi) = m
  BY <1>3, <1>5, <1>6, OneSlice
<1>8. one = 1 /\ hi = Len(w) /\ Len(w) - k = n /\ Len(w) > k
  BY <1>2, <1>3, <1>4
<1> QED
  BY <1>2, <1>3, <1>4, <1>7, <1>8 DEF OwnLength

\* Concatenation under a name, for regrouping without looking into the sequences.
Join(x, y) == x \o y

LEMMA JoinKind ==
    ASSUME NEW x \in Seq(Byte), NEW y \in Seq(Byte)
    PROVE  Join(x, y) \in Seq(Byte) /\ Len(Join(x, y)) = Len(x) + Len(y)
BY ConcatProperties DEF Join

LEMMA JoinAssociative ==
    ASSUME NEW x \in Seq(Byte), NEW y \in Seq(Byte), NEW z \in Seq(Byte)
    PROVE  Join(Join(x, y), z) = Join(x, Join(y, z))
BY DEF Join

\* The first byte of a concatenation that starts with an id, and its length.
LEMMA IdFirst ==
    ASSUME NEW id \in Byte, NEW rest \in Seq(Byte), NEW m, m = <<id>> \o rest
    PROVE  m \in Seq(Byte) /\ Len(m) = 1 + Len(rest) /\ m[1] = id
<1>0. <<id>> \in Seq(Byte) /\ Len(<<id>>) = 1 /\ <<id>>[1] = id
  OBVIOUS
<1>1. PICK t \in Seq(Byte) : t = <<id>> /\ Len(t) = 1 /\ t[1] = id
  BY <1>0, Zenon
<1>2. /\ m \in Seq(Byte) /\ Len(m) = Len(t) + Len(rest) /\ Len(rest) \in Nat
      /\ \A k \in 1 .. Len(t) + Len(rest) : m[k] = IF k <= Len(t) THEN t[k] ELSE rest[k - Len(t)]
  BY <1>1, ConcatProperties
<1>3. 1 \in 1 .. Len(t) + Len(rest) /\ 1 <= Len(t)
  BY <1>1, <1>2
<1> QED
  BY <1>1, <1>2, <1>3

\* A message of at most 13 bytes, no BITFIELD and no PIECE, behind its length.
Lengthened(w) ==
    \E m \in Seq(Byte) : /\ Len(m) \in 1 .. 13 /\ m[1] \notin {BITFIELD, PIECE}
                         /\ w = SerializeInt(Len(m)) \o m

\* Each of them is a message with the right length in front.
LEMMA OwnMessage ==
    ASSUME NEW w \in OwnMessages
    PROVE  Lengthened(w)
<1>0. /\ INTERESTED \in Byte /\ HAVE_ID \in Byte /\ REQUEST \in Byte
      /\ INTERESTED \notin {BITFIELD, PIECE} /\ HAVE_ID \notin {BITFIELD, PIECE}
      /\ REQUEST \notin {BITFIELD, PIECE}
  BY DEF Byte, INTERESTED, HAVE_ID, REQUEST, BITFIELD, PIECE
<1>1. \A n \in Int : SerializeInt(n) \in Seq(Byte) /\ Len(SerializeInt(n)) = 4
  BY SerializeBytes DEF LengthSize
<1>2. CASE w = InterestedMessage
  <2>1. PICK m : m = <<INTERESTED>>
    OBVIOUS
  <2>2. m \in Seq(Byte) /\ Len(m) = 1 /\ m[1] = INTERESTED
    BY <1>0, <2>1
  <2>3. w = SerializeInt(1) \o m
    BY <1>2, <2>1 DEF InterestedMessage
  <2>4. w = SerializeInt(Len(m)) \o m /\ Len(m) \in 1 .. 13 /\ m[1] \notin {BITFIELD, PIECE}
    BY <1>0, <2>2, <2>3
  <2> QED
    BY <2>2, <2>4 DEF Lengthened
<1>3. ASSUME NEW index \in Int, w = HaveMessage(index)
      PROVE  Lengthened(w)
  <2>1. PICK i \in Seq(Byte) : i = SerializeInt(index) /\ Len(i) = 4
    BY <1>1
  <2>2. PICK m : m = <<HAVE_ID>> \o i
    OBVIOUS
  <2>3. m \in Seq(Byte) /\ Len(m) = 5 /\ m[1] = HAVE_ID
    <3>1. m \in Seq(Byte) /\ Len(m) = 1 + Len(i) /\ m[1] = HAVE_ID
      BY <1>0, <2>2, IdFirst
    <3> QED
      BY <2>1, <3>1
  <2>4. w = SerializeInt(5) \o m
    <3>1. <<HAVE_ID>> \in Seq(Byte) /\ SerializeInt(5) \in Seq(Byte)
      BY <1>0, <1>1
    <3>2. w = (SerializeInt(5) \o <<HAVE_ID>>) \o i
      BY <1>3, <2>1 DEF HaveMessage
    <3>3. (SerializeInt(5) \o <<HAVE_ID>>) \o i = SerializeInt(5) \o (<<HAVE_ID>> \o i)
      BY <2>1, <3>1, ConcatAssociative
    <3> QED
      BY <2>2, <3>2, <3>3, Zenon
  <2>5. w = SerializeInt(Len(m)) \o m /\ Len(m) \in 1 .. 13 /\ m[1] \notin {BITFIELD, PIECE}
    BY <1>0, <2>3, <2>4
  <2> QED
    BY <2>3, <2>5 DEF Lengthened
<1>4. ASSUME NEW index \in Int, NEW offset \in Int, NEW length \in Int,
             w = RequestMessage(index, offset, length)
      PROVE  Lengthened(w)
  <2>1. PICK x \in Seq(Byte), y \in Seq(Byte), z \in Seq(Byte) :
          /\ x = SerializeInt(index) /\ y = SerializeInt(offset) /\ z = SerializeInt(length)
          /\ Len(x) = 4 /\ Len(y) = 4 /\ Len(z) = 4
    BY <1>1
  <2>2. PICK s \in Seq(Byte), r \in Seq(Byte) : s = SerializeInt(13) /\ r = <<REQUEST>>
    <3>1. <<REQUEST>> \in Seq(Byte) /\ SerializeInt(13) \in Seq(Byte)
      BY <1>0, <1>1
    <3> QED
      BY <3>1
  <2>3. PICK c \in Seq(Byte), u \in Seq(Byte) : c = Join(y, z) /\ u = Join(x, c) /\ Len(u) = 12
    <3>1. PICK c \in Seq(Byte) : c = Join(y, z) /\ Len(c) = Len(y) + Len(z)
      BY JoinKind
    <3>2. PICK u \in Seq(Byte) : u = Join(x, c) /\ Len(u) = Len(x) + Len(c)
      BY JoinKind
    <3>3. Len(u) = 12
      BY <2>1, <3>1, <3>2
    <3> QED
      BY <3>1, <3>2, <3>3, Zenon
  <2>4. Join(Join(Join(Join(s, r), x), y), z) = Join(s, Join(r, u))
    <3>1. PICK a \in Seq(Byte) : a = Join(s, r)
      BY JoinKind
    <3>2. PICK b \in Seq(Byte) : b = Join(a, x)
      BY JoinKind
    <3>3. Join(Join(b, y), z) = Join(b, c)
      BY <2>3, JoinAssociative
    <3>4. Join(b, c) = Join(a, u)
      BY <2>3, <3>2, JoinAssociative
    <3>5. Join(a, u) = Join(s, Join(r, u))
      BY <3>1, JoinAssociative
    <3> QED
      BY <3>1, <3>2, <3>3, <3>4, <3>5, Zenon
  <2>5. PICK m : m = <<REQUEST>> \o u
    OBVIOUS
  <2>6. m \in Seq(Byte) /\ Len(m) = 13 /\ m[1] = REQUEST
    <3>1. m \in Seq(Byte) /\ Len(m) = 1 + Len(u) /\ m[1] = REQUEST
      BY <1>0, <2>5, IdFirst
    <3> QED
      BY <2>3, <3>1
  <2>7. w = s \o m
    <3>1. w = (((s \o r) \o x) \o y) \o z
      BY <1>4, <2>1, <2>2 DEF RequestMessage
    <3>2. w = s \o (r \o u)
      BY <2>4, <3>1, Zenon DEF Join
    <3> QED
      BY <2>2, <2>5, <3>2, Zenon
  <2>8. w = SerializeInt(Len(m)) \o m /\ Len(m) \in 1 .. 13 /\ m[1] \notin {BITFIELD, PIECE}
    BY <1>0, <2>2, <2>6, <2>7
  <2> QED
    BY <2>6, <2>8 DEF Lengthened
<1>5. CASE \E index \in Int : w = HaveMessage(index)
  BY <1>3, <1>5
<1>6. CASE \E index \in Int, offset \in Int, length \in Int : w = RequestMessage(index, offset, length)
  BY <1>4, <1>6
<1> QED
  BY <1>2, <1>5, <1>6 DEF OwnMessages

\* Whatever this program writes, in any order and with any numbers in it, it is a
\* remote that keeps to the protocol: its lengths are right, and it sends no message
\* that the other side has conditions on.
THEOREM OwnRemotesKeepProtocol ==
    ASSUME NEW writes \in Seq(OwnMessages)
    PROVE  LegalMessages(Bodies(writes)) /\ \A i \in DOMAIN writes : OwnLength(writes[i])
<1>1. PICK m : m = Bodies(writes)
  OBVIOUS
<1>2. DOMAIN m = DOMAIN writes /\ DOMAIN writes = 1 .. Len(writes)
  BY <1>1, LenProperties DEF Bodies
<1>3. ASSUME NEW i \in DOMAIN writes
      PROVE  /\ OwnLength(writes[i])
             /\ 0 < Len(m[i]) /\ Len(m[i]) <= 13 /\ m[i][1] \notin {BITFIELD, PIECE}
  <2>1. writes[i] \in OwnMessages
    BY <1>2, ElementOfSeq
  <2>2. PICK w : w = writes[i]
    OBVIOUS
  <2>3. PICK b \in Seq(Byte) : /\ Len(b) \in 1 .. 13 /\ b[1] \notin {BITFIELD, PIECE}
                               /\ w = SerializeInt(Len(b)) \o b
    BY <2>1, <2>2, OwnMessage DEF Lengthened
  <2>4. Len(b) # 0 /\ 0 < Len(b) /\ Len(b) <= 13
    <3>1. PICK n \in 1 .. 13 : n = Len(b)
      BY <2>3, Zenon
    <3>2. n # 0 /\ 0 < n /\ n <= 13
      OBVIOUS
    <3> QED
      BY <3>1, <3>2, Zenon
  <2>5. OwnLength(w) /\ SubSeq(w, LengthSize + 1, Len(w)) = b
    BY <2>3, <2>4, OwnWrite
  <2>6. m[i] = b
    BY <1>1, <2>2, <2>5 DEF Bodies
  <2> QED
    BY <2>2, <2>3, <2>4, <2>5, <2>6, Zenon
<1>4. ASSUME NEW i \in DOMAIN m PROVE Len(m[i]) <= MaxLength
  <2>1. 0 < Len(m[i]) /\ Len(m[i]) <= 13
    BY <1>2, <1>3
  <2> QED
    BY <2>1, SMT DEF MaxLength
<1> QED
  BY <1>1, <1>2, <1>3, <1>4 DEF LegalMessages

=============================================================================
