---------------------------- MODULE FramingProofs ----------------------------
(***************************************************************************)
(* Proofs about the receive path: EveryByteAccounted, BufferHoldsStream    *)
(* and HandshakeFirst, for any handshake and any messages, however the     *)
(* socket cuts them into reads, and any capacity of the buffer.            *)
(***************************************************************************)
EXTENDS Framing, SequenceTheorems, WellFoundedInduction, TLAPS

-----------------------------------------------------------------------------
(* recv_buffer, and slices of sequences of bytes.                          *)

BufferType == [cap: Nat, mem: Seq(Byte), start: Nat, pos: Nat, size: Nat \ {0}]

\* The end of the buffer is within the memory and not before its start.
BufferOK(b) == b \in BufferType /\ b.start <= RecvEnd(b) /\ RecvEnd(b) <= b.cap

\* What is in front of the end of the buffer is not passed to on_receive yet.
Passable(b) == b.start + b.pos <= RecvEnd(b)

\* Up to byte r of stream s was read, and the buffer holds the end of that.
Holds(b, s, r) ==
    /\ RecvEnd(b) - b.start <= r
    /\ \A k \in b.start + 1 .. RecvEnd(b) : b.mem[k] = s[r - RecvEnd(b) + k]

\* Where in the stream the message in the buffer starts, r bytes having been read.
Base(b, r) == r - RecvEnd(b) + b.start

\* The numbers of a buffer.
LEMMA BufferNumbers ==
    ASSUME NEW b, BufferOK(b)
    PROVE  /\ b.mem \in Seq(Byte) /\ RecvEnd(b) \in Nat /\ RecvEnd(b) = Len(b.mem)
           /\ b.cap \in Nat /\ b.start \in Nat /\ b.pos \in Nat /\ b.size \in Nat \ {0}
           /\ b.start <= RecvEnd(b) /\ RecvEnd(b) <= b.cap
BY DEF BufferOK, BufferType, RecvEnd

\* A slice of a sequence of bytes.
LEMMA Slice ==
    ASSUME NEW s \in Seq(Byte), NEW m \in Nat, NEW n \in Nat, n <= Len(s)
    PROVE  /\ SubSeq(s, m + 1, n) \in Seq(Byte)
           /\ Len(SubSeq(s, m + 1, n)) = IF m <= n THEN n - m ELSE 0
           /\ \A k \in 1 .. n - m : SubSeq(s, m + 1, n)[k] = s[m + k]
<1>1. \A k \in m + 1 .. n : s[k] \in Byte
  BY ElementOfSeq
<1>2. /\ SubSeq(s, m + 1, n) \in Seq(Byte)
      /\ Len(SubSeq(s, m + 1, n)) = IF m + 1 <= n THEN n - (m + 1) + 1 ELSE 0
      /\ \A k \in 1 .. n - (m + 1) + 1 : SubSeq(s, m + 1, n)[k] = s[m + 1 + k - 1]
  BY <1>1, SubSeqProperties
<1> QED
  BY <1>2

\* x is the n bytes of s behind the first m.
IsSlice(x, s, m, n) == x \in Seq(Byte) /\ Len(x) = n /\ \A k \in 1 .. n : x[k] = s[m + k]

\* SubSeq is that slice.
LEMMA SliceOf ==
    ASSUME NEW s \in Seq(Byte), NEW m \in Nat, NEW n \in Nat, NEW lo, NEW hi,
           lo = m + 1, hi = m + n, hi <= Len(s)
    PROVE  IsSlice(SubSeq(s, lo, hi), s, m, n)
<1>1. m <= hi /\ hi \in Nat /\ hi - m = n
  OBVIOUS
<1>2. /\ SubSeq(s, m + 1, hi) \in Seq(Byte)
      /\ Len(SubSeq(s, m + 1, hi)) = IF m <= hi THEN hi - m ELSE 0
      /\ \A k \in 1 .. hi - m : SubSeq(s, m + 1, hi)[k] = s[m + k]
  BY <1>1, Slice
<1> QED
  BY <1>1, <1>2 DEF IsSlice

-----------------------------------------------------------------------------
(* What is written one behind the other.                                   *)

\* A set of natural numbers has a least element.
LEMMA Least ==
    ASSUME NEW T \in SUBSET Nat, T # {}
    PROVE  \E m \in T : \A n \in T : m <= n
<1> DEFINE R == OpToRel(<, Nat)
<1>1. IsWellFoundedOn(R, Nat)
  BY NatLessThanWellFounded
<1>2. \A x, y \in Nat : <<x, y>> \in R <=> x < y
  BY DEF OpToRel
<1> HIDE DEF R
<1>3. PICK m \in T : \A n \in T : ~(<<n, m>> \in R)
  BY <1>1, WFMin
<1>4. ASSUME NEW n \in T PROVE m <= n
  <2>1. m \in Nat /\ n \in Nat
    OBVIOUS
  <2>2. ~(m > n)
    BY <1>2, <1>3, <2>1
  <2> QED
    BY <2>1, <2>2
<1> QED
  BY <1>4

\* Induction: a set with 0 and the successor of each of its numbers has them all.
LEMMA Inductive ==
    ASSUME NEW T, 0 \in T, \A n \in Nat : n \in T => n + 1 \in T
    PROVE  Nat \subseteq T
<1> SUFFICES ASSUME Nat \ T # {} PROVE FALSE
  OBVIOUS
<1>1. PICK m \in Nat \ T : \A n \in Nat \ T : m <= n
  BY Least
<1>2. m # 0 /\ m - 1 \in Nat /\ ~(m - 1 \in Nat \ T)
  BY <1>1
<1> QED
  BY <1>1, <1>2

\* FlattenSeq is the last of the concatenations its recursive function names.
LEMMA FlattenEquation ==
    ASSUME NEW w, Len(w) \in Nat \ {0}
    PROVE  \E f : /\ FlattenSeq(w) = f[Len(w)]
                  /\ \A i \in 1 .. Len(w) : f[i] = IF i = 1 THEN w[i] ELSE f[i - 1] \o w[i]
<1> DEFINE D == 1 .. Len(w)
           Body(g) == [i \in D |-> IF i = 1 THEN w[i] ELSE g[i - 1] \o w[i]]
           T == {n \in Nat : \E g : \A i \in D : i <= n => g[i] = Body(g)[i]}
<1>1. 0 \in T
  OBVIOUS
<1>2. ASSUME NEW n \in Nat, n \in T PROVE n + 1 \in T
  <2>1. PICK g : \A i \in D : i <= n => g[i] = Body(g)[i]
    BY <1>2
  <2>2. ASSUME NEW i \in D, i <= n + 1 PROVE Body(g)[i] = Body(Body(g))[i]
    <3>1. CASE i = 1
      BY <3>1
    <3>2. CASE i # 1
      <4>1. i - 1 \in D /\ i - 1 <= n
        BY <2>2, <3>2
      <4>2. Body(g)[i - 1] = g[i - 1]
        BY <2>1, <4>1
      <4> QED
        BY <3>2, <4>2
    <3> QED
      BY <3>1, <3>2
  <2>3. PICK h : h = Body(g)
    OBVIOUS
  <2> HIDE DEF Body
  <2>4. \A i \in D : i <= n + 1 => h[i] = Body(h)[i]
    BY <2>2, <2>3
  <2> QED
    BY <2>4
<1>3. Len(w) \in T
  BY <1>1, <1>2, Inductive
<1>4. PICK g : \A i \in D : g[i] = Body(g)[i]
  BY <1>3
<1>5. Body(g) = Body(Body(g))
  <2>1. ASSUME NEW i \in D PROVE Body(g)[i] = Body(Body(g))[i]
    <3>1. CASE i = 1
      BY <3>1
    <3>2. CASE i # 1
      <4>1. i - 1 \in D
        BY <3>2
      <4> QED
        BY <1>4, <3>2, <4>1
    <3> QED
      BY <3>1, <3>2
  <2> QED
    BY <2>1
<1> DEFINE f == CHOOSE h : h = Body(h)
<1>6. f = Body(f)
  BY <1>5
<1>7. FlattenSeq(w) = f[Len(w)]
  BY DEF FlattenSeq
<1>8. \A i \in D : f[i] = Body(f)[i]
  BY <1>6, Zenon
<1>9. \A i \in D : Body(f)[i] = IF i = 1 THEN w[i] ELSE f[i - 1] \o w[i]
  OBVIOUS
<1> HIDE DEF f, Body
<1>10. \A i \in D : f[i] = IF i = 1 THEN w[i] ELSE f[i - 1] \o w[i]
  BY <1>8, <1>9, Zenon
<1> QED
  BY <1>7, <1>10, Zenon

\* Each of them is a sequence of bytes.
LEMMA FlattenBytes ==
    ASSUME NEW w \in Seq(Seq(Byte)), NEW f,
           \A i \in 1 .. Len(w) : f[i] = IF i = 1 THEN w[i] ELSE f[i - 1] \o w[i]
    PROVE  \A i \in 1 .. Len(w) : f[i] \in Seq(Byte)
<1> DEFINE T == {n \in Nat : \A i \in 1 .. Len(w) : i <= n => f[i] \in Seq(Byte)}
<1>0. Len(w) \in Nat /\ \A i \in 1 .. Len(w) : w[i] \in Seq(Byte)
  BY LenProperties, ElementOfSeq
<1>1. 0 \in T
  BY <1>0
<1>2. ASSUME NEW n \in Nat, n \in T PROVE n + 1 \in T
  <2>1. ASSUME NEW i \in 1 .. Len(w), i <= n + 1 PROVE f[i] \in Seq(Byte)
    <3>1. CASE i = 1
      BY <1>0, <3>1
    <3>2. CASE i # 1
      <4>1. i - 1 \in 1 .. Len(w) /\ i - 1 <= n
        BY <1>0, <2>1, <3>2
      <4>2. f[i - 1] \in Seq(Byte)
        BY <1>2, <4>1
      <4>3. f[i] = f[i - 1] \o w[i]
        BY <3>2
      <4> QED
        BY <1>0, <4>2, <4>3, ConcatProperties
    <3> QED
      BY <3>1, <3>2
  <2> QED
    BY <2>1
<1>3. Len(w) \in T
  BY <1>0, <1>1, <1>2, Inductive
<1> QED
  BY <1>0, <1>3

\* A slice of the front is a slice of the whole.
LEMMA SliceOfFront ==
    ASSUME NEW s \in Seq(Byte), NEW t \in Seq(Byte), NEW x, NEW m \in Nat, NEW n \in Nat,
           IsSlice(x, s, m, n), m + n <= Len(s)
    PROVE  IsSlice(x, s \o t, m, n)
<1>1. PICK u : u = s \o t
  OBVIOUS
<1>2. /\ Len(s) \in Nat /\ Len(t) \in Nat
      /\ \A k \in 1 .. Len(s) + Len(t) : u[k] = IF k <= Len(s) THEN s[k] ELSE t[k - Len(s)]
  BY <1>1, ConcatProperties
<1>3. ASSUME NEW k \in 1 .. n PROVE x[k] = u[m + k]
  <2>1. m + k \in 1 .. Len(s) + Len(t) /\ m + k <= Len(s)
    BY <1>2
  <2> QED
    BY <1>2, <2>1 DEF IsSlice
<1> QED
  BY <1>1, <1>3 DEF IsSlice

\* What is behind is a slice of the whole.
LEMMA SliceBehind ==
    ASSUME NEW s \in Seq(Byte), NEW t \in Seq(Byte)
    PROVE  IsSlice(t, s \o t, Len(s), Len(t))
<1>1. PICK u : u = s \o t
  OBVIOUS
<1>2. /\ Len(s) \in Nat /\ Len(t) \in Nat
      /\ \A k \in 1 .. Len(s) + Len(t) : u[k] = IF k <= Len(s) THEN s[k] ELSE t[k - Len(s)]
  BY <1>1, ConcatProperties
<1>3. ASSUME NEW k \in 1 .. Len(t) PROVE t[k] = u[Len(s) + k]
  <2>1. Len(s) + k \in 1 .. Len(s) + Len(t) /\ ~(Len(s) + k <= Len(s)) /\ Len(s) + k - Len(s) = k
    BY <1>2
  <2> QED
    BY <1>2, <2>1
<1> QED
  BY <1>1, <1>3 DEF IsSlice

\* All of s is a slice of s.
LEMMA WholeSlice ==
    ASSUME NEW s \in Seq(Byte)
    PROVE  IsSlice(s, s, 0, Len(s))
<1>1. \A k \in 1 .. Len(s) : 0 + k = k
  BY LenProperties
<1> QED
  BY <1>1 DEF IsSlice

\* The writes w lie one behind the other in s, write i between at[i - 1] and at[i].
Laid(w, s, at) ==
    /\ at \in [0 .. Len(w) -> Nat] /\ at[0] = 0 /\ at[Len(w)] = Len(s)
    /\ \A i \in 1 .. Len(w) :
          /\ at[i] = at[i - 1] + Len(w[i]) /\ at[i] <= Len(s)
          /\ IsSlice(w[i], s, at[i - 1], Len(w[i]))

\* FlattenSeq lays the writes one behind the other.
LEMMA FlattenLaid ==
    ASSUME NEW w \in Seq(Seq(Byte))
    PROVE  FlattenSeq(w) \in Seq(Byte) /\ \E at : Laid(w, FlattenSeq(w), at)
<1>0. Len(w) \in Nat /\ \A i \in 1 .. Len(w) : w[i] \in Seq(Byte) /\ Len(w[i]) \in Nat
  BY LenProperties, ElementOfSeq
<1>1. CASE Len(w) = 0
  <2>1. FlattenSeq(w) = w /\ w = <<>>
    BY <1>1, EmptySeq DEF FlattenSeq
  <2>2. w \in Seq(Byte)
    BY <2>1, EmptySeq
  <2>3. PICK at : at = [k \in 0 .. Len(w) |-> 0]
    OBVIOUS
  <2>4. Laid(w, FlattenSeq(w), at)
    BY <1>1, <2>1, <2>3 DEF Laid
  <2> QED
    BY <2>1, <2>2, <2>4
<1>2. CASE Len(w) # 0
  <2>1. PICK f : /\ FlattenSeq(w) = f[Len(w)]
                 /\ \A i \in 1 .. Len(w) : f[i] = IF i = 1 THEN w[i] ELSE f[i - 1] \o w[i]
    BY <1>0, <1>2, FlattenEquation
  <2>2. \A i \in 1 .. Len(w) : f[i] \in Seq(Byte) /\ Len(f[i]) \in Nat
    BY <2>1, FlattenBytes, LenProperties
  <2>3. PICK at : at = [k \in 0 .. Len(w) |-> IF k = 0 THEN 0 ELSE Len(f[k])]
    OBVIOUS
  <2>4. at \in [0 .. Len(w) -> Nat] /\ at[0] = 0 /\ \A i \in 1 .. Len(w) : at[i] = Len(f[i])
    BY <1>0, <2>2, <2>3
  <2>5. ASSUME NEW i \in 1 .. Len(w)
        PROVE  at[i] = at[i - 1] + Len(w[i]) /\ IsSlice(w[i], f[i], at[i - 1], Len(w[i]))
    <3>1. CASE i = 1
      <4>1. f[i] = w[i] /\ at[i] = Len(w[i]) /\ i - 1 = 0 /\ at[i - 1] = 0
        BY <2>1, <2>4, <3>1
      <4>2. IsSlice(w[i], w[i], 0, Len(w[i]))
        BY <1>0, WholeSlice
      <4>3. at[i] = at[i - 1] + Len(w[i])
        BY <1>0, <4>1
      <4> QED
        BY <4>1, <4>2, <4>3, Zenon
    <3>2. CASE i # 1
      <4>0. i - 1 \in 1 .. Len(w)
        BY <1>0, <3>2
      <4>1. f[i] = f[i - 1] \o w[i] /\ i - 1 \in 1 .. Len(w)
        BY <2>1, <3>2, <4>0, Zenon
      <4>2. at[i - 1] = Len(f[i - 1]) /\ f[i - 1] \in Seq(Byte) /\ w[i] \in Seq(Byte)
        BY <1>0, <2>2, <2>4, <4>1
      <4>3. Len(f[i]) = Len(f[i - 1]) + Len(w[i])
        BY <4>1, <4>2, ConcatProperties
      <4> QED
        BY <2>4, <4>1, <4>2, <4>3, SliceBehind
    <3> QED
      BY <3>1, <3>2
  <2> DEFINE T == {n \in Nat : n + 1 <= Len(w) =>
                    \A i \in 1 .. n + 1 : at[i] <= at[n + 1] /\ IsSlice(w[i], f[n + 1], at[i - 1], Len(w[i]))}
  <2>6. 0 \in T
    <3>1. 1 \in 1 .. Len(w) /\ \A i \in 1 .. 0 + 1 : i = 1
      BY <1>0, <1>2
    <3> QED
      BY <2>4, <2>5, <3>1
  <2>7. ASSUME NEW n \in Nat, n \in T PROVE n + 1 \in T
    <3> SUFFICES ASSUME n + 2 <= Len(w)
                 PROVE  \A i \in 1 .. n + 2 : at[i] <= at[n + 2] /\ IsSlice(w[i], f[n + 2], at[i - 1], Len(w[i]))
      OBVIOUS
    <3>1. PICK p \in 1 .. Len(w), q \in 1 .. Len(w) : p = n + 1 /\ q = n + 2 /\ q - 1 = p /\ q # 1
      BY <1>0
    <3>2. \A i \in 1 .. p : at[i] <= at[p] /\ IsSlice(w[i], f[p], at[i - 1], Len(w[i]))
      BY <1>0, <2>7, <3>1
    <3>3. at[q] = at[p] + Len(w[q]) /\ IsSlice(w[q], f[q], at[p], Len(w[q])) /\ f[q] = f[p] \o w[q]
      BY <2>1, <2>5, <3>1
    <3>4. at[p] \in Nat /\ Len(w[q]) \in Nat /\ at[p] = Len(f[p]) /\ at[p] <= at[q]
      BY <1>0, <2>2, <2>4, <3>1, <3>3
    <3>5. ASSUME NEW i \in 1 .. q PROVE at[i] <= at[q] /\ IsSlice(w[i], f[q], at[i - 1], Len(w[i]))
      <4>1. CASE i = q
        <5>1. at[q] <= at[q]
          BY <3>3, <3>4
        <5> QED
          BY <3>1, <3>3, <4>1, <5>1, Zenon
      <4>2. CASE i # q
        <5>1. i \in 1 .. p /\ i \in 1 .. Len(w) /\ i - 1 \in 0 .. Len(w)
          BY <1>0, <3>1, <4>2
        <5>2. at[i] <= at[p] /\ IsSlice(w[i], f[p], at[i - 1], Len(w[i]))
          BY <3>2, <5>1
        <5>3. at[i] \in Nat /\ at[i - 1] \in Nat /\ Len(w[i]) \in Nat /\ at[i] = at[i - 1] + Len(w[i])
          <6>1. i \in 0 .. Len(w)
            BY <1>0, <5>1
          <6> QED
            BY <1>0, <2>4, <2>5, <5>1, <6>1
        <5>4. at[i - 1] + Len(w[i]) <= Len(f[p])
          BY <3>4, <5>2, <5>3
        <5>5. f[p] \in Seq(Byte) /\ w[q] \in Seq(Byte)
          BY <1>0, <2>2, <3>1
        <5>6. IsSlice(w[i], f[q], at[i - 1], Len(w[i]))
          <6>1. IsSlice(w[i], f[p] \o w[q], at[i - 1], Len(w[i]))
            BY <5>2, <5>3, <5>4, <5>5, SliceOfFront
          <6> QED
            BY <3>3, <6>1
        <5>7. at[i] <= at[q]
          <6>1. q \in 0 .. Len(w)
            BY <1>0
          <6>2. at[q] \in Nat
            BY <2>4, <6>1
          <6>3. /\ at[i] \in Nat /\ at[p] \in Nat /\ at[q] \in Nat
                /\ at[i] <= at[p] /\ at[p] <= at[q]
            BY <3>4, <5>2, <5>3, <6>2, Zenon
          <6> QED
            BY <6>3
        <5> QED
          BY <5>6, <5>7
      <4> QED
        BY <4>1, <4>2
    <3> QED
      BY <3>1, <3>5
  <2>8. Len(w) - 1 \in T
    <3>1. Nat \subseteq T
      BY <2>6, <2>7, Inductive
    <3>2. Len(w) - 1 \in Nat
      BY <1>0, <1>2
    <3> QED
      BY <3>1, <3>2, Zenon
  <2>9. \A i \in 1 .. Len(w) :
          at[i] <= at[Len(w)] /\ IsSlice(w[i], f[Len(w)], at[i - 1], Len(w[i]))
    <3>1. (Len(w) - 1) + 1 = Len(w)
      BY <1>0
    <3> QED
      BY <1>0, <2>8, <3>1
  <2>10. Len(w) \in 1 .. Len(w)
    BY <1>0, <1>2
  <2>11. Laid(w, FlattenSeq(w), at)
    BY <2>1, <2>4, <2>5, <2>9, <2>10 DEF Laid
  <2> QED
    BY <2>1, <2>2, <2>10, <2>11
<1> QED
  BY <1>1, <1>2

\* serialize_int gives four bytes.
LEMMA SerializeBytes ==
    ASSUME NEW n \in Int
    PROVE  SerializeInt(n) \in Seq(Byte) /\ Len(SerializeInt(n)) = LengthSize
<1>1. \A k \in Int : k % 256 \in Byte
  BY DEF Byte
<1>2. n \div 16777216 \in Int /\ n \div 65536 \in Int /\ n \div 256 \in Int
  OBVIOUS
<1> QED
  BY <1>1, <1>2 DEF SerializeInt, LengthSize

\* The messages of a remote, each with its length in front.
LEMMA WritesOf ==
    ASSUME NEW m \in Seq(Seq(Byte)), NEW w,
           w = [i \in DOMAIN m |-> SerializeInt(Len(m[i])) \o m[i]]
    PROVE  /\ w \in Seq(Seq(Byte)) /\ Len(w) = Len(m)
           /\ \A i \in 1 .. Len(m) : Len(w[i]) = LengthSize + Len(m[i])
<1>1. Len(m) \in Nat /\ DOMAIN m = 1 .. Len(m)
  BY LenProperties
<1>2. ASSUME NEW i \in 1 .. Len(m)
      PROVE  /\ w[i] = SerializeInt(Len(m[i])) \o m[i] /\ w[i] \in Seq(Byte)
             /\ Len(w[i]) = LengthSize + Len(m[i])
  <2>1. m[i] \in Seq(Byte) /\ Len(m[i]) \in Int
    BY ElementOfSeq, LenProperties
  <2>2. w[i] = SerializeInt(Len(m[i])) \o m[i]
    BY <1>1
  <2>3. SerializeInt(Len(m[i])) \in Seq(Byte) /\ Len(SerializeInt(Len(m[i]))) = LengthSize
    BY <2>1, SerializeBytes
  <2>4. SerializeInt(Len(m[i])) \o m[i] \in Seq(Byte)
        /\ Len(SerializeInt(Len(m[i])) \o m[i]) = Len(SerializeInt(Len(m[i]))) + Len(m[i])
    BY <2>1, <2>3, ConcatProperties
  <2> QED
    BY <2>2, <2>3, <2>4
<1>3. w = [i \in 1 .. Len(m) |-> w[i]]
  BY <1>1
<1>4. w \in Seq(Seq(Byte))
  BY <1>1, <1>2, <1>3
<1>5. Len(w) = Len(m)
  BY <1>1, <1>3, <1>4
<1> QED
  BY <1>2, <1>4, <1>5

-----------------------------------------------------------------------------
(* The operations of recv_buffer.                                          *)

\* recv_buffer::received: the new bytes lie behind the others.
LEMMA ReceivedEffect ==
    ASSUME NEW b, BufferOK(b), NEW s \in Seq(Byte), NEW r \in Nat, NEW n \in Nat,
           n <= MaxReceive(b), r + n <= Len(s), Holds(b, s, r),
           NEW c, c = Received(b, SubSeq(s, r + 1, r + n))
    PROVE  /\ BufferOK(c) /\ Holds(c, s, r + n)
           /\ c.start = b.start /\ c.pos = b.pos /\ c.size = b.size /\ c.cap = b.cap
           /\ RecvEnd(c) = RecvEnd(b) + n
<1>0. /\ b.start \in Nat /\ b.start <= RecvEnd(b) /\ RecvEnd(b) <= b.cap /\ b.cap \in Nat
      /\ RecvEnd(b) \in Nat /\ RecvEnd(b) = Len(b.mem)
  BY BufferNumbers
<1>1. PICK t : t = SubSeq(s, r + 1, r + n)
  OBVIOUS
<1>2. t \in Seq(Byte) /\ Len(t) = n /\ \A k \in 1 .. n : t[k] = s[r + k]
  BY <1>1, SliceOf DEF IsSlice
<1>3. /\ b.mem \o t \in Seq(Byte) /\ Len(b.mem \o t) = Len(b.mem) + n
      /\ \A k \in 1 .. Len(b.mem) + n :
            (b.mem \o t)[k] = IF k <= Len(b.mem) THEN b.mem[k] ELSE t[k - Len(b.mem)]
  <2>1. b.mem \in Seq(Byte) /\ t \in Seq(Byte)
    BY <1>2, BufferNumbers
  <2>2. /\ b.mem \o t \in Seq(Byte) /\ Len(b.mem \o t) = Len(b.mem) + Len(t)
        /\ \A k \in 1 .. Len(b.mem) + Len(t) :
              (b.mem \o t)[k] = IF k <= Len(b.mem) THEN b.mem[k] ELSE t[k - Len(b.mem)]
    BY <2>1, ConcatProperties, Zenon
  <2> QED
    BY <1>2, <2>2
<1>4. /\ c.mem = b.mem \o t /\ c.start = b.start /\ c.pos = b.pos /\ c.size = b.size
      /\ c.cap = b.cap /\ c \in BufferType
  BY <1>1, <1>3 DEF Received, BufferOK, BufferType
<1>5. RecvEnd(c) = RecvEnd(b) + n
  BY <1>3, <1>4 DEF RecvEnd
<1>6. BufferOK(c)
  <2>1. PICK e \in Nat, f \in Nat, g \in Nat : e = RecvEnd(b) /\ f = b.start /\ g = b.cap
    BY <1>0
  <2>2. f <= e /\ n <= g - e
    BY <1>0, <2>1 DEF MaxReceive
  <2>3. f <= e + n /\ e + n <= g
    BY <2>2
  <2> QED
    BY <1>4, <1>5, <2>1, <2>3 DEF BufferOK
<1>7. RecvEnd(c) - c.start <= r + n
  <2>1. RecvEnd(b) - b.start <= r
    BY DEF Holds
  <2> QED
    BY <1>0, <1>4, <1>5, <2>1
<1>8. ASSUME NEW k \in c.start + 1 .. RecvEnd(c)
      PROVE  c.mem[k] = s[(r + n) - RecvEnd(c) + k]
  <2>1. /\ (r + n) - RecvEnd(c) + k = r - RecvEnd(b) + k
        /\ k \in 1 .. Len(b.mem) + n /\ k \in b.start + 1 .. RecvEnd(b) + n
    <3>1. k \in b.start + 1 .. RecvEnd(b) + n /\ RecvEnd(c) = RecvEnd(b) + n
      BY <1>4, <1>5
    <3>2. PICK e \in Nat, f \in Nat : e = RecvEnd(b) /\ f = b.start
      BY <1>0
    <3>3. k \in f + 1 .. e + n
      BY <3>1, <3>2
    <3>4. k \in 1 .. e + n
      BY <3>3
    <3>5. (r + n) - (e + n) + k = r - e + k
      BY <3>4
    <3>6. e = Len(b.mem)
      BY <1>0, <3>2
    <3> QED
      BY <3>1, <3>2, <3>4, <3>5, <3>6, Zenon
  <2>2. CASE k <= RecvEnd(b)
    <3>1. c.mem[k] = b.mem[k]
      BY <1>3, <1>4, <2>1, <2>2, BufferNumbers
    <3>2. b.mem[k] = s[r - RecvEnd(b) + k]
      BY <2>1, <2>2, BufferNumbers DEF Holds
    <3> QED
      BY <2>1, <3>1, <3>2
  <2>3. CASE ~(k <= RecvEnd(b))
    <3>1. c.mem[k] = t[k - RecvEnd(b)] /\ k - RecvEnd(b) \in 1 .. n
      <4>1. RecvEnd(b) = Len(b.mem) /\ Len(b.mem) \in Nat
        BY BufferNumbers
      <4>2. (b.mem \o t)[k] = t[k - Len(b.mem)] /\ k - Len(b.mem) \in 1 .. n
        BY <1>3, <2>1, <2>3, <4>1
      <4> QED
        BY <1>4, <4>1, <4>2
    <3>2. t[k - RecvEnd(b)] = s[r + (k - RecvEnd(b))]
      BY <1>2, <3>1
    <3>3. r + (k - RecvEnd(b)) = r - RecvEnd(b) + k
      BY <2>1, BufferNumbers
    <3> QED
      BY <2>1, <3>1, <3>2, <3>3
  <2> QED
    BY <2>2, <2>3
<1>9. Holds(c, s, r + n)
  BY <1>7, <1>8, Zenon DEF Holds
<1> QED
  BY <1>4, <1>5, <1>6, <1>9

\* recv_buffer::advance_pos: up to the end of what was read at most.
LEMMA AdvanceEffect ==
    ASSUME NEW b, BufferOK(b), NEW n \in Nat, NEW c, c = AdvancePos(b, n)
    PROVE  /\ Advance(b, n) \in 0 .. n
           /\ c.pos = b.pos + Advance(b, n) /\ c \in BufferType
           /\ c.mem = b.mem /\ c.start = b.start /\ c.size = b.size /\ c.cap = b.cap
<1>1. Advance(b, n) \in 0 .. n
  BY BufferNumbers DEF Advance, MinOf
<1> QED
  BY <1>1 DEF AdvancePos, BufferOK, BufferType

\* recv_buffer::reset behind a finished message: the next message starts where the
\* finished one ends, whether the buffer is cut or found to be empty.
LEMMA ResetEffect ==
    ASSUME NEW b, BufferOK(b), Passable(b), IsMessageFinished(b),
           NEW next \in Int, ResetAsserts(b, next),
           NEW s, NEW r \in Nat, Holds(b, s, r), NEW c, c = Reset(b, next)
    PROVE  /\ BufferOK(c) /\ Holds(c, s, r) /\ c.size = next /\ c.cap = b.cap
           /\ Base(c, r) = Base(b, r) + b.size
           /\ RecvEnd(c) - c.start - c.pos = RecvEnd(b) - b.start - b.pos
<1>0. /\ b.start \in Nat /\ b.pos \in Nat /\ b.size \in Nat \ {0} /\ RecvEnd(b) \in Nat
      /\ b.start <= RecvEnd(b) /\ RecvEnd(b) <= b.cap /\ b.cap \in Nat
  BY BufferNumbers
<1>1. /\ b.start + b.pos <= RecvEnd(b) /\ b.size <= b.pos /\ next \in Nat \ {0}
  BY DEF Passable, IsMessageFinished, ResetAsserts
<1>2. CASE HasMore(b)
  <2>1. /\ c.mem = b.mem /\ c.start = b.start + b.size /\ c.pos = b.pos - b.size
        /\ c.size = next /\ c.cap = b.cap /\ c \in BufferType
    <3>1. c = [b EXCEPT !.start = b.start + b.size, !.pos = b.pos - b.size, !.size = next]
      BY <1>2 DEF Reset, Cut
    <3>2. c = [cap |-> b.cap, mem |-> b.mem, start |-> b.start + b.size, pos |-> b.pos - b.size,
               size |-> next]
      BY <3>1 DEF BufferOK, BufferType
    <3>3. b.start + b.size \in Nat /\ b.pos - b.size \in Nat
      BY <1>1, BufferNumbers
    <3> QED
      BY <1>1, <3>2, <3>3, BufferNumbers DEF BufferType
  <2>2. RecvEnd(c) = RecvEnd(b)
    BY <2>1 DEF RecvEnd
  <2>3. BufferOK(c)
    BY <1>1, <2>1, <2>2, BufferNumbers DEF BufferOK
  <2>4. Holds(c, s, r)
    <3>1. RecvEnd(b) - b.start <= r
      BY DEF Holds
    <3>2. RecvEnd(c) - c.start <= r
      BY <1>0, <1>1, <2>1, <2>2, <3>1
    <3>3. ASSUME NEW k \in c.start + 1 .. RecvEnd(c) PROVE c.mem[k] = s[r - RecvEnd(c) + k]
      <4>1. k \in b.start + 1 .. RecvEnd(b)
        BY <1>0, <1>1, <2>1, <2>2
      <4> QED
        BY <2>1, <2>2, <4>1 DEF Holds
    <3> QED
      BY <3>2, <3>3, Zenon DEF Holds
  <2>5. /\ Base(c, r) = Base(b, r) + b.size
        /\ RecvEnd(c) - c.start - c.pos = RecvEnd(b) - b.start - b.pos
    BY <1>0, <2>1, <2>2 DEF Base
  <2> QED
    BY <2>1, <2>3, <2>4, <2>5
<1>3. CASE ~HasMore(b)
  <2>1. b.start = 0 /\ b.pos = RecvEnd(b) /\ b.size = RecvEnd(b)
    BY <1>1, <1>3, BufferNumbers DEF HasMore
  <2>2. /\ c.mem = <<>> /\ c.start = 0 /\ c.pos = 0
        /\ c.size = next /\ c.cap = b.cap /\ c \in BufferType
    <3>1. c = [b EXCEPT !.mem = <<>>, !.start = 0, !.pos = 0, !.size = next]
      BY <1>3 DEF Reset
    <3>2. c = [cap |-> b.cap, mem |-> <<>>, start |-> 0, pos |-> 0, size |-> next]
      BY <3>1 DEF BufferOK, BufferType
    <3> QED
      BY <1>1, <3>2, EmptySeq, BufferNumbers DEF BufferType
  <2>3. RecvEnd(c) = 0
    BY <2>2 DEF RecvEnd
  <2> QED
    BY <2>1, <2>2, <2>3, BufferNumbers DEF Base, BufferOK, Holds
<1> QED
  BY <1>2, <1>3

\* setup_receive: the bytes that are left move to the front, and there is room.
LEMMA SetupEffect ==
    ASSUME NEW b, BufferOK(b), NEW s, NEW r \in Nat, Holds(b, s, r),
           ReserveAsserts(Room(b), MaxReceive(Room(b))), PosAtEnd(Room(b)),
           NEW c, c = Reserve(Room(b), MaxReceive(Room(b)))
    PROVE  /\ BufferOK(c) /\ Holds(c, s, r) /\ c.size = b.size /\ Base(c, r) = Base(b, r)
           /\ c.start = 0 /\ RecvEnd(c) = c.pos /\ c.pos = b.pos
           /\ c.cap >= b.cap /\ MaxReceive(c) > 0
<1>1. PICK d : d = Clean(b)
  OBVIOUS
<1>2. /\ d.mem = SubSeq(b.mem, b.start + 1, RecvEnd(b)) /\ d.start = 0 /\ d.pos = b.pos
      /\ d.size = b.size /\ d.cap = b.cap
      /\ d = [cap |-> b.cap, mem |-> d.mem, start |-> 0, pos |-> b.pos, size |-> b.size]
  BY <1>1 DEF Clean, BufferOK, BufferType
<1>3. /\ d.mem \in Seq(Byte) /\ RecvEnd(d) = RecvEnd(b) - b.start
      /\ \A k \in 1 .. RecvEnd(d) : d.mem[k] = b.mem[b.start + k]
  <2>1. b.start \in Nat /\ RecvEnd(b) \in Nat /\ b.mem \in Seq(Byte) /\ RecvEnd(b) <= Len(b.mem)
        /\ b.start <= RecvEnd(b)
    BY BufferNumbers
  <2>2. /\ d.mem \in Seq(Byte)
        /\ Len(d.mem) = IF b.start <= RecvEnd(b) THEN RecvEnd(b) - b.start ELSE 0
        /\ \A k \in 1 .. RecvEnd(b) - b.start : d.mem[k] = b.mem[b.start + k]
    <3> DEFINE t == SubSeq(b.mem, b.start + 1, RecvEnd(b))
    <3>1. /\ t \in Seq(Byte)
          /\ Len(t) = IF b.start <= RecvEnd(b) THEN RecvEnd(b) - b.start ELSE 0
          /\ \A k \in 1 .. RecvEnd(b) - b.start : t[k] = b.mem[b.start + k]
      BY <2>1, Slice
    <3>2. d.mem = t
      BY <1>2
    <3> HIDE DEF t
    <3> QED
      BY <3>1, <3>2
  <2>3. RecvEnd(d) = RecvEnd(b) - b.start
    BY <2>1, <2>2 DEF RecvEnd
  <2> QED
    BY <2>2, <2>3
<1>4. PICK e : e = Room(b)
  OBVIOUS
<1>5. /\ e.mem = d.mem /\ e.start = 0 /\ e.pos = b.pos /\ e.size = b.size
      /\ e.cap \in Nat /\ e.cap >= b.cap
      /\ e = [cap |-> e.cap, mem |-> d.mem, start |-> 0, pos |-> b.pos, size |-> b.size]
  <2>1. ASSUME NEW x, NEW n \in Nat,
               x = [cap |-> n, mem |-> d.mem, start |-> 0, pos |-> b.pos, size |-> b.size]
        PROVE  \E m \in Nat : m >= n /\ Grow(x) = [cap |-> m, mem |-> d.mem, start |-> 0,
                                                   pos |-> b.pos, size |-> b.size]
    <3> DEFINE m == IF n < b.size THEN b.size ELSE (n * 3) \div 2
    <3>1. m \in Nat /\ m >= n
      BY BufferNumbers
    <3>2. Grow(x) = [cap |-> m, mem |-> d.mem, start |-> 0, pos |-> b.pos, size |-> b.size]
      BY <2>1 DEF Grow
    <3> QED
      BY <3>1, <3>2
  <2>2. b.cap \in Nat
    BY BufferNumbers
  <2>3. e = d \/ e = Grow(Grow(d))
    BY <1>1, <1>4 DEF Room, Grown
  <2>4. \E m \in Nat : m >= b.cap /\ e = [cap |-> m, mem |-> d.mem, start |-> 0,
                                          pos |-> b.pos, size |-> b.size]
    <3>1. PICK m \in Nat : m >= b.cap /\ Grow(d) = [cap |-> m, mem |-> d.mem, start |-> 0,
                                                    pos |-> b.pos, size |-> b.size]
      BY <1>2, <2>1, <2>2
    <3>2. PICK n \in Nat : n >= m /\ Grow(Grow(d)) = [cap |-> n, mem |-> d.mem, start |-> 0,
                                                      pos |-> b.pos, size |-> b.size]
      BY <2>1, <3>1
    <3> QED
      BY <1>2, <2>2, <2>3, <3>1, <3>2
  <2> QED
    BY <2>4
<1>6. RecvEnd(e) = RecvEnd(d) /\ RecvEnd(e) = e.pos /\ MaxReceive(e) > 0
  BY <1>4, <1>5 DEF RecvEnd, PosAtEnd, ReserveAsserts
<1>7. c = e
  <2>1. ~(RecvEnd(e) + MaxReceive(e) > e.cap)
    BY <1>3, <1>5, <1>6, BufferNumbers DEF MaxReceive
  <2>2. Reserve(e, MaxReceive(e)) = [e EXCEPT !.cap = e.cap]
    BY <2>1 DEF Reserve
  <2> QED
    BY <1>4, <1>5, <2>2
<1>8. BufferOK(e)
  BY <1>3, <1>5, <1>6, BufferNumbers DEF BufferOK, BufferType
<1>9. Holds(e, s, r)
  <2>1. RecvEnd(e) - e.start <= r
    BY <1>3, <1>5, <1>6, BufferNumbers DEF Holds
  <2>2. ASSUME NEW k \in e.start + 1 .. RecvEnd(e) PROVE e.mem[k] = s[r - RecvEnd(e) + k]
    <3>1. e.mem[k] = b.mem[b.start + k] /\ b.start + k \in b.start + 1 .. RecvEnd(b)
      BY <1>3, <1>5, <1>6, BufferNumbers
    <3>2. b.mem[b.start + k] = s[r - RecvEnd(b) + (b.start + k)]
      BY <3>1 DEF Holds
    <3>3. r - RecvEnd(b) + (b.start + k) = r - RecvEnd(e) + k
      BY <1>3, <1>5, <1>6, BufferNumbers
    <3> QED
      BY <3>1, <3>2, <3>3
  <2> QED
    BY <2>1, <2>2 DEF Holds
<1> QED
  BY <1>3, <1>5, <1>6, <1>7, <1>8, <1>9, BufferNumbers DEF Base

\* What get returns is a part of the stream.
LEMMA GetEffect ==
    ASSUME NEW b, BufferOK(b), Passable(b),
           NEW s \in Seq(Byte), NEW r \in Nat, r <= Len(s), Holds(b, s, r)
    PROVE  /\ Get(b) \in Seq(Byte) /\ Len(Get(b)) = b.pos
           /\ Base(b, r) \in Nat /\ Base(b, r) + b.pos <= r
           /\ Get(b) = SubSeq(s, Base(b, r) + 1, Base(b, r) + b.pos)
<1>1. /\ b.start + b.pos \in Nat /\ b.start + b.pos <= Len(b.mem)
      /\ b.start <= b.start + b.pos
      /\ Base(b, r) \in Nat /\ Base(b, r) + b.pos \in Nat /\ Base(b, r) + b.pos <= r
      /\ Base(b, r) + b.pos <= Len(s)
  <2>1. Len(s) \in Nat /\ RecvEnd(b) - b.start <= r /\ b.start + b.pos <= RecvEnd(b)
    BY DEF Holds, Passable
  <2>2. /\ b.start \in Nat /\ b.pos \in Nat /\ RecvEnd(b) \in Nat /\ RecvEnd(b) = Len(b.mem)
        /\ b.start <= RecvEnd(b)
    BY BufferNumbers
  <2>3. PICK e \in Nat, f \in Nat, q \in Nat : e = RecvEnd(b) /\ f = b.start /\ q = b.pos
    BY <2>2
  <2>4. Base(b, r) = r - (e - f) /\ e = Len(b.mem)
    BY <2>2, <2>3 DEF Base
  <2>5. e - f <= r /\ f + q <= e /\ f <= e
    BY <2>1, <2>2, <2>3
  <2>6. /\ f + q \in Nat /\ f <= f + q
        /\ r - (e - f) \in Nat /\ r - (e - f) + q \in Nat /\ r - (e - f) + q <= r
    BY <2>5
  <2> QED
    BY <2>1, <2>3, <2>4, <2>5, <2>6
<1>2. PICK x : x = Get(b)
  OBVIOUS
<1>3. PICK y : y = SubSeq(s, Base(b, r) + 1, Base(b, r) + b.pos)
  OBVIOUS
<1>4. /\ x \in Seq(Byte) /\ Len(x) = b.pos
      /\ \A k \in 1 .. b.pos : x[k] = b.mem[b.start + k]
  <2>1. b.mem \in Seq(Byte) /\ b.start \in Nat /\ b.pos \in Nat
    BY BufferNumbers
  <2>2. IsSlice(x, b.mem, b.start, b.pos)
    BY <1>1, <1>2, <2>1, SliceOf DEF Get
  <2> QED
    BY <2>2 DEF IsSlice
<1>5. /\ y \in Seq(Byte) /\ Len(y) = b.pos
      /\ \A k \in 1 .. b.pos : y[k] = s[Base(b, r) + k]
  <2>1. b.pos \in Nat
    BY BufferNumbers
  <2>2. IsSlice(y, s, Base(b, r), b.pos)
    BY <1>1, <1>3, <2>1, SliceOf
  <2> QED
    BY <2>2 DEF IsSlice
<1>6. ASSUME NEW k \in 1 .. b.pos PROVE x[k] = y[k]
  <2>1. b.start + k \in b.start + 1 .. RecvEnd(b)
    <3>1. b.start \in Nat /\ b.pos \in Nat /\ RecvEnd(b) = Len(b.mem) /\ RecvEnd(b) \in Nat
      BY BufferNumbers
    <3>2. PICK e \in Nat, f \in Nat, q \in Nat : e = RecvEnd(b) /\ f = b.start /\ q = b.pos
      BY <3>1
    <3>3. f + q <= e /\ k \in 1 .. q
      BY <1>1, <3>1, <3>2
    <3>4. f + k \in f + 1 .. e
      BY <3>3
    <3> QED
      BY <3>2, <3>4
  <2>2. b.mem[b.start + k] = s[r - RecvEnd(b) + (b.start + k)]
    BY <2>1 DEF Holds
  <2>3. r - RecvEnd(b) + (b.start + k) = Base(b, r) + k
    BY BufferNumbers DEF Base
  <2> QED
    BY <1>4, <1>5, <2>2, <2>3
<1>7. x = y
  BY <1>4, <1>5, <1>6, SeqEqual
<1> QED
  BY <1>1, <1>2, <1>3, <1>4, <1>7

\* A slice of a slice is a slice.
LEMMA SliceOfSlice ==
    ASSUME NEW s \in Seq(Byte), NEW t, NEW a \in Nat, NEW n \in Nat, IsSlice(t, s, a, n),
           a + n <= Len(s), NEW lo \in Nat, NEW hi \in Nat, 1 <= lo, lo <= hi + 1, hi <= n,
           NEW p, NEW q, p = a + lo, q = a + hi
    PROVE  SubSeq(t, lo, hi) = SubSeq(s, p, q)
<1>1. PICK x : x = SubSeq(t, lo, hi)
  OBVIOUS
<1>2. PICK y : y = SubSeq(s, p, q)
  OBVIOUS
<1>3. PICK i \in Nat : lo = i + 1 /\ i <= hi
  <2>1. lo - 1 \in Nat /\ lo = (lo - 1) + 1 /\ lo - 1 <= hi
    OBVIOUS
  <2> QED
    BY <2>1
<1>4. hi - i \in Nat /\ hi = i + (hi - i) /\ a + i \in Nat
  BY <1>3
<1>5. IsSlice(x, t, i, hi - i)
  <2>1. hi <= Len(t) /\ t \in Seq(Byte)
    BY DEF IsSlice
  <2> QED
    BY <1>1, <1>3, <1>4, <2>1, SliceOf
<1>6. IsSlice(y, s, a + i, hi - i)
  <2>1. p = (a + i) + 1 /\ q = (a + i) + (hi - i) /\ q <= Len(s)
    BY <1>3, <1>4
  <2> QED
    BY <1>2, <1>4, <2>1, SliceOf
<1>7. ASSUME NEW k \in 1 .. hi - i PROVE x[k] = y[k]
  <2>1. i + k \in 1 .. n /\ a + (i + k) = (a + i) + k
    BY <1>3
  <2> QED
    BY <1>5, <1>6, <2>1 DEF IsSlice
<1>8. x = y
  BY <1>5, <1>6, <1>7, SeqEqual DEF IsSlice
<1> QED
  BY <1>1, <1>2, <1>8

\* So is a slice of the first n bytes.
LEMMA SliceOfPrefix ==
    ASSUME NEW s \in Seq(Byte), NEW n \in Nat, n <= Len(s), NEW t, t = SubSeq(s, 1, n),
           NEW lo \in Nat, NEW hi \in Nat, 1 <= lo, lo <= hi + 1, hi <= n
    PROVE  SubSeq(t, lo, hi) = SubSeq(s, lo, hi)
<1>1. PICK z \in Nat : z = 0
  OBVIOUS
<1>2. 1 = z + 1 /\ n = z + n /\ lo = z + lo /\ hi = z + hi /\ z + n <= Len(s)
  BY <1>1
<1>3. IsSlice(t, s, z, n)
  BY <1>2, SliceOf
<1> QED
  BY <1>2, <1>3, SliceOfSlice

-----------------------------------------------------------------------------
(* The inductive invariant: EveryByteAccounted, the stream in the buffer,   *)
(* and for each state the place in the stream it is at and what of the      *)
(* handshake lies before it.                                               *)

States == {"READ_PROTOCOL_ID", "READ_INFO_HASH", "READ_PEER_ID", "READ_MESSAGE_SIZE", "READ_MESSAGE"}

HandshakeSize == ProtocolSize + InfoHashSize + PeerIdSize

ProtocolRight(s) == SubSeq(s, 1, ProtocolSize) = <<Len(PROTOCOL_ID)>> \o PROTOCOL_ID
InfoHashRight(s) ==
    SubSeq(s, ProtocolSize + RESERVED_BYTES_LENGTH + 1, ProtocolSize + InfoHashSize) = InfoHash
PeerIdRight(s) == SubSeq(s, ProtocolSize + InfoHashSize + 1, HandshakeSize) = PeerId
HandshakeRight(s, r) ==
    HandshakeSize <= r /\ ProtocolRight(s) /\ InfoHashRight(s) /\ PeerIdRight(s)

\* State st waits for size bytes of stream s from place at on, r bytes having been read.
Stage(st, at, size, s, r) ==
    /\ st = "READ_PROTOCOL_ID" => at = 0 /\ size = ProtocolSize
    /\ st = "READ_INFO_HASH" => /\ at = ProtocolSize /\ size = InfoHashSize
                                /\ ProtocolRight(s)
    /\ st = "READ_PEER_ID" => /\ at = ProtocolSize + InfoHashSize /\ size = PeerIdSize
                              /\ ProtocolRight(s) /\ InfoHashRight(s)
    /\ st \in {"READ_MESSAGE_SIZE", "READ_MESSAGE"} => HandshakeRight(s, r)

FramingType ==
    /\ bytes \in Seq(Byte) /\ recvd \in 0 .. Len(bytes)
    /\ total \in Int /\ passed \in Int
    /\ state \in States
    /\ BufferOK(buf) /\ Holds(buf, bytes, recvd)

HandshakeInv ==
    /\ Stage(state, Base(buf, recvd), buf.size, bytes, recvd)
    /\ active \/ delivered # <<>> => HandshakeRight(bytes, recvd)

FramingInv == FramingType /\ EveryByteAccounted /\ HandshakeInv

\* The sizes of the handshake.
LEMMA Sizes ==
    /\ ProtocolSize \in Nat \ {0} /\ InfoHashSize \in Nat \ {0} /\ PeerIdSize \in Nat \ {0}
    /\ HandshakeSize \in Nat /\ RESERVED_BYTES_LENGTH \in Nat
    /\ RESERVED_BYTES_LENGTH <= InfoHashSize
<1>1. /\ Len(PROTOCOL_ID) \in Nat /\ Len(InfoHash) \in Nat /\ Len(PeerId) \in Nat
      /\ RESERVED_BYTES_LENGTH \in Nat /\ InfoHashSize > 0 /\ PeerIdSize > 0
  BY FramingAssumption
<1> QED
  BY <1>1 DEF ProtocolSize, InfoHashSize, PeerIdSize, HandshakeSize

\* The bytes of the connection are bytes.
LEMMA BytesType ==
    ASSUME Init
    PROVE  bytes \in Seq(Byte)
<1>1. CASE \E h \in Handshakes : sent \in Sends /\ bytes = h \o Framed(sent)
  <2>1. PICK h \in Handshakes : sent \in Sends /\ bytes = h \o Framed(sent)
    BY <1>1
  <2>2. h \in Seq(Byte) /\ sent \in Seq(Seq(Byte))
    BY <2>1, FramingAssumption
  <2>3. Framed(sent) \in Seq(Byte)
    BY <2>2, WritesOf, FlattenLaid DEF Framed
  <2> QED
    BY <2>1, <2>2, <2>3, ConcatProperties
<1>2. CASE \E writes \in OwnSends : bytes = Handshake(InfoHash, PeerId) \o FlattenSeq(writes)
  <2>1. Handshake(InfoHash, PeerId) \in Seq(Byte)
    <3> DEFINE zeros == [i \in 1 .. RESERVED_BYTES_LENGTH |-> 0]
    <3>1. <<Len(PROTOCOL_ID)>> \in Seq(Byte) /\ PROTOCOL_ID \in Seq(Byte)
      BY FramingAssumption
    <3>2. zeros \in Seq(Byte)
      BY FramingAssumption DEF Byte
    <3>3. InfoHash \in Seq(Byte) /\ PeerId \in Seq(Byte)
      BY FramingAssumption
    <3> HIDE DEF zeros
    <3>4. <<Len(PROTOCOL_ID)>> \o PROTOCOL_ID \in Seq(Byte)
      BY <3>1, ConcatProperties
    <3>5. <<Len(PROTOCOL_ID)>> \o PROTOCOL_ID \o zeros \in Seq(Byte)
      BY <3>2, <3>4, ConcatProperties
    <3>6. <<Len(PROTOCOL_ID)>> \o PROTOCOL_ID \o zeros \o InfoHash \in Seq(Byte)
      BY <3>3, <3>5, ConcatProperties
    <3>7. <<Len(PROTOCOL_ID)>> \o PROTOCOL_ID \o zeros \o InfoHash \o PeerId \in Seq(Byte)
      BY <3>3, <3>6, ConcatProperties
    <3> QED
      BY <3>7 DEF Handshake, zeros
  <2>2. PICK writes \in OwnSends : bytes = Handshake(InfoHash, PeerId) \o FlattenSeq(writes)
    BY <1>2
  <2>3. FlattenSeq(writes) \in Seq(Byte)
    BY FramingAssumption, FlattenLaid
  <2> QED
    BY <2>1, <2>2, <2>3, ConcatProperties
<1> QED
  BY <1>1, <1>2 DEF Init

\* send_handshake leaves an empty buffer that waits for the protocol id.
LEMMA InitFraming == Init => FramingInv
<1> SUFFICES ASSUME Init PROVE FramingInv
  OBVIOUS
<1>1. buf = [cap |-> InitialCapacity, mem |-> <<>>, start |-> 0, pos |-> 0, size |-> ProtocolSize]
  <2>1. Len(<<>>) = 0 /\ InitialCapacity \in Nat /\ InitialCapacity > 1
    BY FramingAssumption
  <2>2. Reserve(EmptyBuffer, InitialCapacity) =
          [cap |-> InitialCapacity, mem |-> <<>>, start |-> 0, pos |-> 0, size |-> 0]
    BY <2>1 DEF Reserve, EmptyBuffer, RecvEnd, MaxOf
  <2>3. buf = Reset(Reserve(EmptyBuffer, InitialCapacity), ProtocolSize)
    BY DEF Init
  <2>4. PICK b : b = Reserve(EmptyBuffer, InitialCapacity)
    OBVIOUS
  <2>5. b.mem = <<>> /\ b.size = 0
    BY <2>2, <2>4
  <2>6. ~HasMore(b)
    BY <2>1, <2>5 DEF HasMore, RecvEnd
  <2>7. buf = [b EXCEPT !.mem = <<>>, !.start = 0, !.pos = 0, !.size = ProtocolSize]
    BY <2>3, <2>4, <2>6 DEF Reset
  <2>8. b \in [cap: Nat, mem: Seq(Byte), start: Nat, pos: Nat, size: Nat] /\ b.cap = InitialCapacity
    <3>1. <<>> \in Seq(Byte)
      OBVIOUS
    <3> QED
      BY <2>1, <2>2, <2>4, <3>1
  <2>9. buf = [cap |-> b.cap, mem |-> <<>>, start |-> 0, pos |-> 0, size |-> ProtocolSize]
    BY <2>7, <2>8
  <2> QED
    BY <2>8, <2>9
<1>2. RecvEnd(buf) = 0
  BY <1>1 DEF RecvEnd
<1>3. BufferOK(buf)
  <2>1. <<>> \in Seq(Byte) /\ InitialCapacity \in Nat
    BY FramingAssumption
  <2>2. buf \in BufferType
    BY <1>1, <2>1, Sizes DEF BufferType
  <2>3. buf.start = 0 /\ buf.cap = InitialCapacity
    BY <1>1
  <2> QED
    BY <1>2, <2>1, <2>2, <2>3 DEF BufferOK
<1>4. bytes \in Seq(Byte) /\ recvd = 0 /\ 0 \in 0 .. Len(bytes)
  <2>1. bytes \in Seq(Byte) /\ recvd = 0
    BY BytesType DEF Init
  <2> QED
    BY <2>1
<1>5. FramingType
  BY <1>1, <1>2, <1>3, <1>4 DEF Init, FramingType, States, Holds
<1>6. EveryByteAccounted
  BY <1>1, <1>2, Sizes, FramingAssumption DEF Init, EveryByteAccounted, Left, MaxReceive
<1>7. HandshakeInv
  BY <1>1, <1>2, <1>4 DEF Init, HandshakeInv, Stage, Base
<1> QED
  BY <1>5, <1>6, <1>7 DEF FramingInv

-----------------------------------------------------------------------------
(* peer_connection_core keeps the invariant.                               *)

\* What EveryByteAccounted says of the numbers of the buffer follows from its type.
LEMMA BufferAccounted ==
    ASSUME NEW b, BufferOK(b)
    PROVE  b.start >= 0 /\ b.pos >= 0 /\ b.size > 0 /\ RecvEnd(b) <= b.cap
BY BufferNumbers

\* Between two reads the assertions of received hold: nothing is left behind the
\* position, which is in the buffer then.
LEMMA ReceivedAsserted ==
    ASSUME FramingInv, pc = "idle"
    PROVE  ReceivedAsserts(buf)
<1>1. BufferOK(buf) /\ Left = 0 /\ buf.start = 0
  BY DEF FramingInv, FramingType, EveryByteAccounted
<1>2. /\ buf.size > 0 /\ buf.pos \in Nat /\ buf.cap \in Nat /\ RecvEnd(buf) \in Nat
      /\ RecvEnd(buf) <= buf.cap
  BY <1>1, BufferNumbers
<1>3. buf.pos = RecvEnd(buf)
  BY <1>1, <1>2 DEF Left
<1> QED
  BY <1>2, <1>3 DEF ReceivedAsserts

\* on_read adds what the socket had to the end of the buffer.
LEMMA ReadKept ==
    ASSUME FramingInv, NEW n \in Nat, OnRead(n)
    PROVE  FramingInv'
<1>1. /\ BufferOK(buf) /\ bytes \in Seq(Byte) /\ recvd \in Nat /\ Holds(buf, bytes, recvd)
      /\ Left = 0 /\ buf.start = 0 /\ n <= MaxReceive(buf) /\ recvd + n <= Len(bytes)
  BY DEF FramingInv, FramingType, EveryByteAccounted, OnRead
<1>2. /\ buf' = Received(buf, SubSeq(bytes, recvd + 1, recvd + n))
      /\ recvd' = recvd + n /\ total' = n /\ pc' = "passing"
      /\ UNCHANGED <<bytes, passed, state, active, delivered>>
  BY ReceivedAsserted DEF OnRead, stream, flags
<1>3. /\ BufferOK(buf') /\ Holds(buf', bytes, recvd + n)
      /\ buf'.start = buf.start /\ buf'.pos = buf.pos /\ buf'.size = buf.size
      /\ RecvEnd(buf') = RecvEnd(buf) + n
  BY <1>1, <1>2, ReceivedEffect
<1>4. recvd + n \in 0 .. Len(bytes)
  BY <1>1
<1>5. FramingType'
  BY <1>2, <1>3, <1>4 DEF FramingInv, FramingType
<1>6. EveryByteAccounted'
  <2>1. RecvEnd(buf') - buf'.start - buf'.pos = n
    BY <1>1, <1>3, BufferNumbers DEF Left
  <2> QED
    BY <1>2, <1>3, <2>1, BufferAccounted DEF EveryByteAccounted, Left
<1>7. HandshakeInv'
  <2>1. Base(buf', recvd + n) = Base(buf, recvd) /\ recvd <= recvd + n
    BY <1>1, <1>3, BufferNumbers DEF Base
  <2>2. HandshakeRight(bytes, recvd) => HandshakeRight(bytes, recvd + n)
    BY <1>1, <2>1, Sizes DEF HandshakeRight
  <2>3. Stage(state, Base(buf, recvd), buf.size, bytes, recvd + n)
    BY <2>2 DEF FramingInv, HandshakeInv, Stage
  <2> QED
    BY <1>2, <1>3, <2>1, <2>2, <2>3 DEF FramingInv, HandshakeInv
<1> QED
  BY <1>5, <1>6, <1>7 DEF FramingInv

\* on_receive_internal passes a part of what is left to on_receive.
LEMMA PassKept ==
    ASSUME FramingInv, PassBytes
    PROVE  FramingInv'
<1>1. BufferOK(buf) /\ Left = total /\ total \in Nat
  BY DEF FramingInv, FramingType, EveryByteAccounted, PassBytes
<1>2. /\ buf' = AdvancePos(buf, total) /\ passed' = Advance(buf, total) /\ pc' = "on_receive"
      /\ UNCHANGED <<bytes, recvd, total, state, active, delivered>>
  BY DEF PassBytes, stream, flags
<1>3. /\ passed' \in 0 .. total /\ buf'.pos = buf.pos + passed' /\ buf' \in BufferType
      /\ buf'.mem = buf.mem /\ buf'.start = buf.start /\ buf'.size = buf.size /\ buf'.cap = buf.cap
  BY <1>1, <1>2, AdvanceEffect
<1>4. RecvEnd(buf') = RecvEnd(buf) /\ BufferOK(buf') /\ Holds(buf', bytes, recvd)
  BY <1>3 DEF RecvEnd, BufferOK, FramingInv, FramingType, Holds
<1>5. FramingType'
  BY <1>2, <1>3, <1>4 DEF FramingInv, FramingType
<1>6. EveryByteAccounted'
  <2>1. RecvEnd(buf') - buf'.start - buf'.pos = total - passed'
    BY <1>1, <1>3, <1>4, BufferNumbers DEF Left
  <2> QED
    BY <1>2, <1>3, <1>4, <2>1, BufferAccounted DEF EveryByteAccounted, Left
<1>7. HandshakeInv'
  BY <1>2, <1>3, <1>4 DEF FramingInv, HandshakeInv, Base
<1> QED
  BY <1>5, <1>6, <1>7 DEF FramingInv

\* setup_receive leaves nothing to pass on and room to read, or aborts.
LEMMA SetupKept ==
    ASSUME FramingInv, SetupReceive, total' \in Int, passed' \in Int,
           UNCHANGED <<bytes, recvd, state, active, delivered>>
    PROVE  FramingInv'
<1>1. BufferOK(buf) /\ recvd \in Nat /\ Holds(buf, bytes, recvd)
  BY DEF FramingInv, FramingType
<1>2. CASE /\ ReserveAsserts(Room(buf), MaxReceive(Room(buf))) /\ PosAtEnd(Room(buf))
           /\ buf' = Reserve(Room(buf), MaxReceive(Room(buf))) /\ pc' = "idle"
  <2>1. /\ BufferOK(buf') /\ Holds(buf', bytes, recvd) /\ buf'.size = buf.size
        /\ Base(buf', recvd) = Base(buf, recvd)
        /\ buf'.start = 0 /\ RecvEnd(buf') = buf'.pos /\ MaxReceive(buf') > 0
    BY <1>1, <1>2, SetupEffect
  <2>2. FramingType'
    BY <2>1 DEF FramingInv, FramingType
  <2>3. RecvEnd(buf') - buf'.start - buf'.pos = 0
    BY <2>1, BufferNumbers
  <2>4. EveryByteAccounted'
    BY <1>2, <2>1, <2>3, BufferAccounted DEF EveryByteAccounted, Left
  <2>5. HandshakeInv'
    BY <2>1 DEF FramingInv, HandshakeInv
  <2> QED
    BY <2>2, <2>4, <2>5 DEF FramingInv
<1>3. CASE pc' = "aborted" /\ UNCHANGED buf
  BY <1>3 DEF FramingInv, FramingType, EveryByteAccounted, HandshakeInv
<1> QED
  BY <1>2, <1>3 DEF SetupReceive

\* The end of the loop of on_receive_internal.
LEMMA EndKept ==
    ASSUME FramingInv, EndOfLoop
    PROVE  FramingInv'
<1>1. /\ BufferOK(buf) /\ Left = total - passed /\ total \in Int /\ passed \in Int
      /\ total' = total - passed /\ UNCHANGED <<bytes, recvd, passed, state, active, delivered>>
  BY DEF FramingInv, FramingType, EveryByteAccounted, EndOfLoop, stream, flags
<1>2. CASE pc' = "passing" /\ UNCHANGED buf /\ total' > 0
  BY <1>1, <1>2 DEF FramingInv, FramingType, EveryByteAccounted, Left, HandshakeInv
<1>3. CASE pc' = "closed" /\ UNCHANGED buf
  BY <1>1, <1>3 DEF FramingInv, FramingType, EveryByteAccounted, HandshakeInv
<1>4. CASE SetupReceive
  BY <1>1, <1>4, SetupKept
<1> QED
  BY <1>2, <1>3, <1>4 DEF EndOfLoop

-----------------------------------------------------------------------------
(* on_receive and the handlers keep the invariant.                         *)

\* What was passed to on_receive has been read.
LEMMA PassedRead ==
    ASSUME FramingInv, pc = "on_receive"
    PROVE  Passable(buf)
<1>1. BufferOK(buf) /\ Left = total - passed /\ total \in Int /\ passed \in Int /\ passed <= total
  BY DEF FramingInv, FramingType, EveryByteAccounted
<1> QED
  BY <1>1, BufferNumbers DEF Left, Passable

\* on_receive returns, or an assertion fails, and the buffer is as it was.
LEMMA StayKept ==
    ASSUME FramingInv, pc = "on_receive", pc' \in {"returned", "aborted"},
           UNCHANGED <<bytes, recvd, total, passed, buf, state>>,
           active' \/ delivered' # <<>> => HandshakeRight(bytes, recvd)
    PROVE  FramingInv'
BY DEF FramingInv, FramingType, EveryByteAccounted, Left, HandshakeInv

\* on_receive is through with a message and waits for the next.
LEMMA MoveKept ==
    ASSUME FramingInv, pc = "on_receive", pc' \in {"on_receive", "returned"},
           UNCHANGED <<bytes, recvd, total, passed>>, IsMessageFinished(buf),
           NEW next \in Int, ResetAsserts(buf, next), buf' = Reset(buf, next),
           NEW s \in States, state' = s, active' \/ delivered' # <<>> => HandshakeRight(bytes, recvd),
           Stage(s, Base(buf, recvd) + buf.size, next, bytes, recvd)
    PROVE  FramingInv'
<1>1. BufferOK(buf) /\ recvd \in Nat /\ Holds(buf, bytes, recvd) /\ Passable(buf)
  BY PassedRead DEF FramingInv, FramingType
<1>2. /\ BufferOK(buf') /\ Holds(buf', bytes, recvd) /\ buf'.size = next
      /\ Base(buf', recvd) = Base(buf, recvd) + buf.size
      /\ RecvEnd(buf') - buf'.start - buf'.pos = RecvEnd(buf) - buf.start - buf.pos
  BY <1>1, ResetEffect
<1>3. FramingType'
  BY <1>2 DEF FramingInv, FramingType
<1>4. EveryByteAccounted'
  BY <1>2, BufferAccounted DEF FramingInv, EveryByteAccounted, Left
<1>5. HandshakeInv'
  BY <1>2 DEF HandshakeInv
<1> QED
  BY <1>3, <1>4, <1>5 DEF FramingInv

\* on_receive moves on to state s, which waits for size bytes, or reset asserts.
LEMMA AwaitKept ==
    ASSUME FramingInv, pc = "on_receive", UNCHANGED <<bytes, recvd, total, passed>>,
           IsMessageFinished(buf), NEW s \in States, NEW size \in Int, Await(s, size),
           active' \/ delivered' # <<>> => HandshakeRight(bytes, recvd),
           Stage(s, Base(buf, recvd) + buf.size, size, bytes, recvd)
    PROVE  FramingInv'
<1>1. CASE ResetAsserts(buf, size)
  BY <1>1, MoveKept DEF Await
<1>2. CASE ~ResetAsserts(buf, size)
  BY <1>2, StayKept DEF Await
<1> QED
  BY <1>1, <1>2

\* A handler is done with the message, or reset asserts.
LEMMA NextMessageKept ==
    ASSUME FramingInv, pc = "on_receive", UNCHANGED <<bytes, recvd, total, passed>>,
           IsMessageFinished(buf), NextMessage, HandshakeRight(bytes, recvd)
    PROVE  FramingInv'
<1>1. LengthSize \in Int /\ "READ_MESSAGE_SIZE" \in States
  BY DEF LengthSize, States
<1>2. Stage("READ_MESSAGE_SIZE", Base(buf, recvd) + buf.size, LengthSize, bytes, recvd)
  BY DEF Stage
<1>3. CASE ResetAsserts(buf, LengthSize)
  BY <1>1, <1>2, <1>3, MoveKept DEF NextMessage
<1>4. CASE ~ResetAsserts(buf, LengthSize)
  BY <1>4, StayKept DEF NextMessage
<1> QED
  BY <1>3, <1>4

\* What the states find in the buffer: the next bytes of the stream.
LEMMA Found ==
    ASSUME FramingInv, pc = "on_receive"
    PROVE  /\ bytes \in Seq(Byte) /\ recvd \in Nat /\ recvd <= Len(bytes)
           /\ buf.pos \in Nat /\ buf.size \in Nat
           /\ Get(buf) \in Seq(Byte) /\ Len(Get(buf)) = buf.pos
           /\ Base(buf, recvd) \in Nat /\ Base(buf, recvd) + buf.pos <= recvd
           /\ Get(buf) = SubSeq(bytes, Base(buf, recvd) + 1, Base(buf, recvd) + buf.pos)
<1>1. /\ BufferOK(buf) /\ bytes \in Seq(Byte) /\ recvd \in Nat /\ recvd <= Len(bytes)
      /\ Holds(buf, bytes, recvd)
  BY DEF FramingInv, FramingType
<1> QED
  BY <1>1, PassedRead, GetEffect, BufferNumbers

\* READ_PROTOCOL_ID.
LEMMA ProtocolIdKept ==
    ASSUME FramingInv, ReadProtocolId
    PROVE  FramingInv'
<1>1. /\ pc = "on_receive" /\ state = "READ_PROTOCOL_ID"
      /\ UNCHANGED <<bytes, recvd, total, passed>>
  BY DEF ReadProtocolId, In, stream
<1>2. active \/ delivered # <<>> => HandshakeRight(bytes, recvd)
  BY DEF FramingInv, HandshakeInv
<1>3. CASE Return \/ Abort \/ Mismatch
  BY <1>1, <1>2, <1>3, StayKept DEF Return, Abort, Mismatch, flags
<1>4. CASE /\ IsMessageFinished(buf) /\ SizeAsserted(ProtocolSize)
           /\ Get(buf) = <<Len(PROTOCOL_ID)>> \o PROTOCOL_ID
           /\ Await("READ_INFO_HASH", InfoHashSize) /\ UNCHANGED <<flags, delivered>>
  <2>1. Base(buf, recvd) = 0 /\ buf.size = ProtocolSize /\ buf.pos = ProtocolSize
    BY <1>1, <1>4, Found DEF FramingInv, HandshakeInv, Stage, SizeAsserted
  <2>2. Base(buf, recvd) + buf.size = ProtocolSize /\ 0 + 1 = 1 /\ 0 + ProtocolSize = ProtocolSize
    BY <2>1, Sizes
  <2>3. ProtocolRight(bytes)
    BY <1>1, <1>4, <2>1, <2>2, Found DEF ProtocolRight
  <2>4. Stage("READ_INFO_HASH", Base(buf, recvd) + buf.size, InfoHashSize, bytes, recvd)
    BY <2>2, <2>3 DEF Stage
  <2>5. "READ_INFO_HASH" \in States /\ InfoHashSize \in Int
    BY Sizes DEF States
  <2> QED
    BY <1>1, <1>2, <1>4, <2>4, <2>5, AwaitKept DEF flags
<1> QED
  BY <1>3, <1>4 DEF ReadProtocolId

\* READ_INFO_HASH.
LEMMA InfoHashKept ==
    ASSUME FramingInv, ReadInfoHash
    PROVE  FramingInv'
<1>1. /\ pc = "on_receive" /\ state = "READ_INFO_HASH"
      /\ UNCHANGED <<bytes, recvd, total, passed>>
  BY DEF ReadInfoHash, In, stream
<1>2. active \/ delivered # <<>> => HandshakeRight(bytes, recvd)
  BY DEF FramingInv, HandshakeInv
<1>3. CASE Return \/ Abort \/ Mismatch
  BY <1>1, <1>2, <1>3, StayKept DEF Return, Abort, Mismatch, flags
<1>4. CASE /\ IsMessageFinished(buf) /\ SizeAsserted(InfoHashSize)
           /\ SubSeq(Get(buf), RESERVED_BYTES_LENGTH + 1, InfoHashSize) = InfoHash
           /\ Await("READ_PEER_ID", PeerIdSize) /\ UNCHANGED <<flags, delivered>>
  <2>1. /\ Base(buf, recvd) = ProtocolSize /\ buf.size = InfoHashSize /\ buf.pos = InfoHashSize
        /\ ProtocolRight(bytes)
    BY <1>1, <1>4, Found DEF FramingInv, HandshakeInv, Stage, SizeAsserted
  <2>2. /\ Get(buf) = SubSeq(bytes, ProtocolSize + 1, ProtocolSize + InfoHashSize)
        /\ ProtocolSize + InfoHashSize <= Len(bytes)
    BY <1>1, <2>1, Found, Sizes
  <2>3. InfoHashRight(bytes)
    <3>1. /\ bytes \in Seq(Byte) /\ ProtocolSize \in Nat /\ InfoHashSize \in Nat
          /\ RESERVED_BYTES_LENGTH \in Nat /\ RESERVED_BYTES_LENGTH <= InfoHashSize
      BY <1>1, Found, Sizes
    <3>2. IsSlice(Get(buf), bytes, ProtocolSize, InfoHashSize)
      BY <2>2, <3>1, SliceOf
    <3>3. PICK lo \in Nat : lo = RESERVED_BYTES_LENGTH + 1 /\ 1 <= lo /\ lo <= InfoHashSize + 1
      BY <3>1
    <3>4. ProtocolSize + lo = ProtocolSize + RESERVED_BYTES_LENGTH + 1
      BY <3>1, <3>3
    <3>5. SubSeq(Get(buf), lo, InfoHashSize) =
            SubSeq(bytes, ProtocolSize + lo, ProtocolSize + InfoHashSize)
      BY <2>2, <3>1, <3>2, <3>3, SliceOfSlice
    <3> QED
      BY <1>4, <3>3, <3>4, <3>5 DEF InfoHashRight
  <2>4. Stage("READ_PEER_ID", Base(buf, recvd) + buf.size, PeerIdSize, bytes, recvd)
    BY <2>1, <2>3 DEF Stage
  <2>5. "READ_PEER_ID" \in States /\ PeerIdSize \in Int
    BY Sizes DEF States
  <2> QED
    BY <1>1, <1>2, <1>4, <2>4, <2>5, AwaitKept DEF flags
<1> QED
  BY <1>3, <1>4 DEF ReadInfoHash

\* READ_PEER_ID: m_active is set when all of the handshake is right.
LEMMA PeerIdKept ==
    ASSUME FramingInv, ReadPeerId
    PROVE  FramingInv'
<1>1. /\ pc = "on_receive" /\ state = "READ_PEER_ID"
      /\ UNCHANGED <<bytes, recvd, total, passed>>
  BY DEF ReadPeerId, In, stream
<1>2. active \/ delivered # <<>> => HandshakeRight(bytes, recvd)
  BY DEF FramingInv, HandshakeInv
<1>3. CASE Return \/ Abort \/ Mismatch
  BY <1>1, <1>2, <1>3, StayKept DEF Return, Abort, Mismatch, flags
<1>4. CASE /\ IsMessageFinished(buf) /\ SizeAsserted(PeerIdSize) /\ IsPeerId(Get(buf))
           /\ Await("READ_MESSAGE_SIZE", LengthSize)
  <2>1. /\ Base(buf, recvd) = ProtocolSize + InfoHashSize
        /\ buf.size = PeerIdSize /\ buf.pos = PeerIdSize
        /\ ProtocolRight(bytes) /\ InfoHashRight(bytes)
    BY <1>1, <1>4, Found DEF FramingInv, HandshakeInv, Stage, SizeAsserted
  <2>2. HandshakeSize = ProtocolSize + InfoHashSize + PeerIdSize /\ HandshakeSize <= recvd
    BY <1>1, <2>1, Found DEF HandshakeSize
  <2>3. PeerIdRight(bytes)
    BY <1>1, <1>4, <2>1, <2>2, Found DEF PeerIdRight, IsPeerId
  <2>4. HandshakeRight(bytes, recvd)
    BY <2>1, <2>2, <2>3 DEF HandshakeRight
  <2>5. Stage("READ_MESSAGE_SIZE", Base(buf, recvd) + buf.size, LengthSize, bytes, recvd)
    BY <2>4 DEF Stage
  <2>6. "READ_MESSAGE_SIZE" \in States /\ LengthSize \in Int
    BY DEF States, LengthSize
  <2> QED
    BY <1>1, <1>4, <2>4, <2>5, <2>6, AwaitKept
<1> QED
  BY <1>3, <1>4 DEF ReadPeerId

\* deserialize_int returns an integer.
LEMMA DeserializeType ==
    ASSUME NEW s \in Seq(Byte), Len(s) >= 4
    PROVE  DeserializeInt(s) \in Int
<1>1. s[1] \in Byte /\ s[2] \in Byte /\ s[3] \in Byte /\ s[4] \in Byte
  <2>1. 1 \in 1 .. Len(s) /\ 2 \in 1 .. Len(s) /\ 3 \in 1 .. Len(s) /\ 4 \in 1 .. Len(s)
    OBVIOUS
  <2> QED
    BY <2>1, ElementOfSeq
<1>2. Byte \subseteq Int
  BY DEF Byte
<1>3. s[1] \in Int /\ s[2] \in Int /\ s[3] \in Int /\ s[4] \in Int
  BY <1>1, <1>2, Zenon
<1>4. PICK a \in Int, b \in Int, c \in Int, d \in Int : a = s[1] /\ b = s[2] /\ c = s[3] /\ d = s[4]
  BY <1>3, Zenon
<1>5. (IF a < 128 THEN a ELSE a - 256) \in Int
  OBVIOUS
<1>6. PICK e \in Int : e = IF a < 128 THEN a ELSE a - 256
  BY <1>5
<1>7. e * 16777216 + b * 65536 + c * 256 + d \in Int
  OBVIOUS
<1> QED
  BY <1>4, <1>6, <1>7 DEF DeserializeInt

\* READ_MESSAGE_SIZE and READ_MESSAGE without a whole message.
LEMMA MessageKept ==
    ASSUME FramingInv, ReadMessageSize \/ ReadMessage
    PROVE  FramingInv'
<1>1. /\ pc = "on_receive" /\ state \in {"READ_MESSAGE_SIZE", "READ_MESSAGE"}
      /\ UNCHANGED <<bytes, recvd, total, passed>>
  BY DEF ReadMessageSize, ReadMessage, In, stream
<1>2. HandshakeRight(bytes, recvd)
  BY <1>1 DEF FramingInv, HandshakeInv, Stage
<1>3. CASE Return \/ Abort
  BY <1>1, <1>2, <1>3, StayKept DEF Return, Abort, flags
<1>4. CASE /\ buf.size = LengthSize /\ IsMessageFinished(buf)
           /\ Await("READ_MESSAGE", DeserializeInt(Get(buf)))
           /\ UNCHANGED <<flags, delivered>>
  <2>1. DeserializeInt(Get(buf)) \in Int
    <3>1. Len(Get(buf)) >= 4 /\ Get(buf) \in Seq(Byte)
      BY <1>1, <1>4, Found DEF LengthSize, IsMessageFinished
    <3> QED
      BY <3>1, DeserializeType
  <2>2. Stage("READ_MESSAGE", Base(buf, recvd) + buf.size, DeserializeInt(Get(buf)), bytes, recvd)
    BY <1>2 DEF Stage
  <2>3. "READ_MESSAGE" \in States
    BY DEF States
  <2> QED
    BY <1>1, <1>2, <1>4, <2>1, <2>2, <2>3, AwaitKept
<1> QED
  BY <1>3, <1>4 DEF ReadMessageSize, ReadMessage

\* do_message and its handlers: each takes the whole message, leaves it where it
\* is, or asserts.
LEMMA HandlersKept ==
    ASSUME FramingInv,
           HandleBitfield \/ HandleUnchoke \/ HandleChoke \/ HandlePiece \/ HandleOther
    PROVE  FramingInv'
<1>1. /\ pc = "on_receive" /\ state = "READ_MESSAGE" /\ IsMessageFinished(buf)
      /\ UNCHANGED <<bytes, recvd, total, passed>>
      /\ \/ NextMessage
         \/ pc' \in {"returned", "aborted"} /\ UNCHANGED <<buf, state>>
  BY DEF HandleBitfield, HandleUnchoke, HandleChoke, HandlePiece, HandleOther, Handling, In, stream
<1>2. HandshakeRight(bytes, recvd)
  BY <1>1 DEF FramingInv, HandshakeInv, Stage
<1> QED
  BY <1>1, <1>2, NextMessageKept, StayKept

\* Every step of the connection keeps the invariant.
LEMMA NextFraming == FramingInv /\ [Next]_vars => FramingInv'
<1> SUFFICES ASSUME FramingInv, [Next]_vars PROVE FramingInv'
  OBVIOUS
<1>1. ASSUME NEW n \in 0 .. Len(bytes), OnRead(n) PROVE FramingInv'
  <2>1. n \in Nat
    BY DEF FramingInv, FramingType
  <2> QED
    BY <1>1, <2>1, ReadKept
<1>2. CASE OnRemoteClose
  BY <1>2 DEF OnRemoteClose, FramingInv, FramingType, EveryByteAccounted, HandshakeInv, stream, flags
<1>3. CASE FetchSetup
  BY <1>3, SetupKept DEF FetchSetup, FramingInv, FramingType, stream, flags
<1>4. CASE Callback
  BY <1>4, PassKept, EndKept, ProtocolIdKept, InfoHashKept, PeerIdKept, MessageKept, HandlersKept
     DEF Callback, OnReceive
<1>5. CASE UNCHANGED vars
  BY <1>5 DEF vars, FramingInv, FramingType, EveryByteAccounted, Left, HandshakeInv, stream, flags
<1> QED
  BY <1>1, <1>2, <1>3, <1>4, <1>5 DEF Next

\* The invariant holds in every run.
LEMMA FramingKept == Spec => []FramingInv
BY InitFraming, NextFraming, PTL DEF Spec

\* However the remote's bytes arrive, and whatever they are, no byte is lost or
\* passed twice between on_receive_internal and the buffer.
THEOREM BytesAccounted == Spec => []EveryByteAccounted
<1>1. FramingInv => EveryByteAccounted
  BY DEF FramingInv
<1> QED
  BY <1>1, FramingKept, PTL

\* cut, clean, grow and reserve keep the bytes: the buffer holds the end of what was
\* read of the stream.
THEOREM StreamKept == Spec => []BufferHoldsStream
<1>1. FramingInv => BufferHoldsStream
  <2> SUFFICES ASSUME FramingInv PROVE BufferHoldsStream
    OBVIOUS
  <2>1. /\ BufferOK(buf) /\ Holds(buf, bytes, recvd)
        /\ bytes \in Seq(Byte) /\ recvd \in Nat /\ recvd <= Len(bytes)
    BY DEF FramingInv, FramingType
  <2>2. PICK n : n = RecvEnd(buf) - buf.start
    OBVIOUS
  <2>3. n \in Nat /\ recvd - n \in Nat /\ buf.start + n = RecvEnd(buf) /\ (recvd - n) + n = recvd
    <3>1. PICK e \in Nat : e = RecvEnd(buf)
      BY <2>1, BufferNumbers
    <3>2. PICK b \in Nat : b = buf.start
      BY <2>1, BufferNumbers
    <3>3. b <= e /\ e - b <= recvd
      BY <2>1, <3>1, <3>2, BufferNumbers DEF Holds
    <3>4. /\ e - b \in Nat /\ recvd - (e - b) \in Nat /\ b + (e - b) = e
          /\ (recvd - (e - b)) + (e - b) = recvd
      BY <2>1, <3>3
    <3>5. n = e - b
      BY <2>2, <3>1, <3>2, Zenon
    <3> QED
      BY <3>1, <3>2, <3>4, <3>5, Zenon
  <2>4. PICK x : x = SubSeq(buf.mem, buf.start + 1, RecvEnd(buf))
    OBVIOUS
  <2>5. PICK y : y = SubSeq(bytes, recvd - n + 1, recvd)
    OBVIOUS
  <2>6. IsSlice(x, buf.mem, buf.start, n)
    BY <2>1, <2>3, <2>4, SliceOf, BufferNumbers
  <2>7. IsSlice(y, bytes, recvd - n, n)
    BY <2>1, <2>3, <2>5, SliceOf
  <2>8. ASSUME NEW k \in 1 .. n PROVE x[k] = y[k]
    <3>1. buf.start + k \in buf.start + 1 .. RecvEnd(buf)
      BY <2>1, <2>3, BufferNumbers
    <3>2. buf.mem[buf.start + k] = bytes[recvd - RecvEnd(buf) + (buf.start + k)]
      BY <2>1, <3>1 DEF Holds
    <3>3. recvd - RecvEnd(buf) + (buf.start + k) = (recvd - n) + k
      BY <2>1, <2>2, BufferNumbers
    <3> QED
      BY <2>6, <2>7, <3>2, <3>3 DEF IsSlice
  <2>9. x = y
    BY <2>6, <2>7, <2>8, SeqEqual DEF IsSlice
  <2> QED
    BY <2>2, <2>4, <2>5, <2>9 DEF BufferHoldsStream
<1> QED
  BY <1>1, FramingKept, PTL

\* Whatever the remote sends, the connection is active, and a message is handled,
\* only after a handshake with the right protocol, info hash and peer id.
THEOREM HandshakeComesFirst == Spec => []HandshakeFirst
<1>1. FramingInv => HandshakeFirst
  <2> SUFFICES ASSUME FramingInv, active \/ delivered # <<>> PROVE HandshakeFirst
    BY DEF HandshakeFirst
  <2>1. /\ bytes \in Seq(Byte) /\ recvd \in Nat /\ recvd <= Len(bytes)
        /\ HandshakeRight(bytes, recvd)
    BY DEF FramingInv, FramingType, HandshakeInv
  <2>2. PICK h : h = SubSeq(bytes, 1, recvd)
    OBVIOUS
  <2>3. ProtocolSize + InfoHashSize + PeerIdSize <= recvd
    BY <2>1 DEF HandshakeRight, HandshakeSize
  <2>4. SubSeq(h, 1, ProtocolSize) = <<Len(PROTOCOL_ID)>> \o PROTOCOL_ID
    <3>1. PICK lo \in Nat : lo = 1
      OBVIOUS
    <3>2. 1 <= lo /\ lo <= ProtocolSize + 1 /\ ProtocolSize <= recvd /\ ProtocolSize \in Nat
      BY <2>1, <2>3, <3>1, Sizes
    <3>3. SubSeq(h, lo, ProtocolSize) = SubSeq(bytes, lo, ProtocolSize)
      BY <2>1, <2>2, <3>2, SliceOfPrefix
    <3> QED
      BY <2>1, <3>1, <3>3 DEF HandshakeRight, ProtocolRight
  <2>5. SubSeq(h, ProtocolSize + RESERVED_BYTES_LENGTH + 1, ProtocolSize + InfoHashSize) = InfoHash
    <3>1. PICK lo \in Nat : lo = ProtocolSize + RESERVED_BYTES_LENGTH + 1
      BY Sizes
    <3>2. PICK hi \in Nat : hi = ProtocolSize + InfoHashSize
      BY Sizes
    <3>3. 1 <= lo /\ lo <= hi + 1 /\ hi <= recvd
      BY <2>1, <2>3, <3>1, <3>2, Sizes
    <3>4. SubSeq(h, lo, hi) = SubSeq(bytes, lo, hi)
      BY <2>1, <2>2, <3>3, SliceOfPrefix
    <3> QED
      BY <2>1, <3>1, <3>2, <3>4 DEF HandshakeRight, InfoHashRight
  <2>6. SubSeq(h, ProtocolSize + InfoHashSize + 1, ProtocolSize + InfoHashSize + PeerIdSize) = PeerId
    <3>1. PICK lo \in Nat : lo = ProtocolSize + InfoHashSize + 1
      BY Sizes
    <3>2. PICK hi \in Nat : hi = ProtocolSize + InfoHashSize + PeerIdSize
      BY Sizes
    <3>3. 1 <= lo /\ lo <= hi + 1 /\ hi <= recvd
      BY <2>1, <2>3, <3>1, <3>2, Sizes
    <3>4. SubSeq(h, lo, hi) = SubSeq(bytes, lo, hi)
      BY <2>1, <2>2, <3>3, SliceOfPrefix
    <3> QED
      BY <2>1, <3>1, <3>2, <3>4 DEF HandshakeRight, PeerIdRight, HandshakeSize
  <2> QED
    BY <2>2, <2>3, <2>4, <2>5, <2>6 DEF HandshakeFirst
<1> QED
  BY <1>1, FramingKept, PTL
=============================================================================
