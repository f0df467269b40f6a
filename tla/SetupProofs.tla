----------------------------- MODULE SetupProofs -----------------------------
(***************************************************************************)
(* Proofs about set-up: what the search that find_pattern and get_body     *)
(* share finds, what hex_str writes, and TrackerGetsHash, for any torrent  *)
(* files, any encoding that ends a file with its last entry, any decoder   *)
(* and any digest.                                                         *)
(***************************************************************************)
EXTENDS Setup, SequenceTheorems, WellFoundedInduction, TLAPS

-----------------------------------------------------------------------------
(* Induction.                                                              *)

\* A set of natural numbers has a least element.
LEMMA Least ==
    ASSUME NEW T \in SUBSET Nat, T # {}
    PROVE  \E m \in T : \A n \in T : m <= n
<1> DEFINE R == OpToRel(<, Nat)
<1>1. IsWellFoundedOn(R, Nat)
  BY NatLessThanWellFounded
<1>2. \A x, y \in Nat : <<x, y>> \in R <=> x < y
  BY DEF OpToRel
<1> HIDE DEF R
<1>3. PICK m \in T : \A n \in T : ~(<<n, m>> \in R)
  BY <1>1, WFMin
<1>4. ASSUME NEW n \in T PROVE m <= n
  <2>1. m \in Nat /\ n \in Nat
    OBVIOUS
  <2>2. ~(m > n)
    BY <1>2, <1>3, <2>1
  <2> QED
    BY <2>1, <2>2
<1> QED
  BY <1>4

\* Induction: a set with 0 and the successor of each of its numbers has them all.
LEMMA Inductive ==
    ASSUME NEW T, 0 \in T, \A n \in Nat : n \in T => n + 1 \in T
    PROVE  Nat \subseteq T
<1> SUFFICES ASSUME Nat \ T # {} PROVE FALSE
  OBVIOUS
<1>1. PICK m \in Nat \ T : \A n \in Nat \ T : m <= n
  BY Least
<1>2. m # 0 /\ m - 1 \in Nat /\ ~(m - 1 \in Nat \ T)
  BY <1>1
<1> QED
  BY <1>1, <1>2

-----------------------------------------------------------------------------
(* The search.                                                             *)

\* The pattern stands in t behind the first q bytes.
Occurs(t, pattern, q) == \A k \in 1 .. Len(pattern) : t[q + k] = pattern[k]

\* An attempt at index i comes to j.
Attempt(t, pattern, limit, i, j) ==
    /\ j \in 0 .. Len(pattern)
    /\ \A k \in 1 .. j : i + k <= limit /\ t[i + k] = pattern[k]
    /\ j = Len(pattern) \/ i + j >= limit \/ t[i + j + 1] # pattern[j + 1]

LEMMA AttemptEnds ==
    ASSUME NEW t, NEW pattern, Len(pattern) \in Nat, NEW limit \in Int, NEW i \in Nat
    PROVE  Attempt(t, pattern, limit, i, Matched(t, pattern, limit, i))
<1> DEFINE m == Len(pattern)
           Stops(j) == j = m \/ i + j >= limit \/ t[i + j + 1] # pattern[j + 1]
           Agree(j) == \A k \in 1 .. j : i + k <= limit /\ t[i + k] = pattern[k]
           T == {j \in 0 .. m : Stops(j)}
<1>1. T \in SUBSET Nat /\ m \in T
  OBVIOUS
<1>2. PICK j \in T : \A n \in T : j <= n
  BY <1>1, Least
<1>3. Agree(j)
  <2> SUFFICES ASSUME NEW k \in 1 .. j PROVE i + k <= limit /\ t[i + k] = pattern[k]
    OBVIOUS
  <2>1. k - 1 \in 0 .. m /\ k - 1 \notin T
    <3>1. j \in 0 .. m /\ k \in Nat
      OBVIOUS
    <3>2. k - 1 \in 0 .. m /\ ~(j <= k - 1)
      BY <3>1
    <3> HIDE DEF T
    <3> QED
      BY <1>2, <3>2
  <2>2. ~Stops(k - 1)
    BY <2>1
  <2>3. i + (k - 1) + 1 = i + k /\ (k - 1) + 1 = k /\ ~(i + (k - 1) >= limit)
    BY <2>2
  <2>4. t[i + k] = pattern[k]
    BY <2>2, <2>3
  <2> QED
    BY <2>3, <2>4
<1>4. j \in 0 .. m /\ Agree(j) /\ Stops(j)
  BY <1>2, <1>3
<1>5. Matched(t, pattern, limit, i) = CHOOSE n \in 0 .. m : Agree(n) /\ Stops(n)
  BY DEF Matched
<1> HIDE DEF Agree, Stops
<1>6. LET n == CHOOSE n \in 0 .. m : Agree(n) /\ Stops(n) IN n \in 0 .. m /\ Agree(n) /\ Stops(n)
  BY <1>4
<1>7. PICK n \in 0 .. m : Matched(t, pattern, limit, i) = n /\ Agree(n) /\ Stops(n)
  BY <1>5, <1>6
<1> QED
  BY <1>7 DEF Agree, Stops, Attempt

\* From index i on, r is the index of the last byte of the first occurrence that
\* ends before limit, or -1.
FirstMatch(t, pattern, limit, i, r) ==
    \/ /\ r = -1
       /\ \A q \in Nat : q >= i /\ q + Len(pattern) <= limit => ~Occurs(t, pattern, q)
    \/ \E q \in Nat : /\ r = q + Len(pattern) - 1 /\ q >= i /\ q + Len(pattern) <= limit
                      /\ Occurs(t, pattern, q)
                      /\ \A p \in Nat : p >= i /\ p < q => ~Occurs(t, pattern, p)

\* One attempt more.
LEMMA OneAttempt ==
    ASSUME NEW t, NEW pattern, Len(pattern) \in Nat \ {0}, NEW limit \in Int, NEW i \in Nat,
           NEW j, j = Matched(t, pattern, limit, i), NEW r, NEW rest,
           r = IF j = Len(pattern) THEN i + j - 1
               ELSE IF i + j >= limit THEN -1
               ELSE rest,
           i < limit => FirstMatch(t, pattern, limit, i + 1, rest)
    PROVE  FirstMatch(t, pattern, limit, i, r)
<1>1. /\ j \in 0 .. Len(pattern)
      /\ \A k \in 1 .. j : i + k <= limit /\ t[i + k] = pattern[k]
      /\ j = Len(pattern) \/ i + j >= limit \/ t[i + j + 1] # pattern[j + 1]
  BY AttemptEnds DEF Attempt
<1>2. PICK m \in Nat \ {0} : m = Len(pattern)
  OBVIOUS
<1>3. CASE j = m
  <2>1. r = i + m - 1 /\ i + m <= limit
    BY <1>1, <1>2, <1>3
  <2>2. Occurs(t, pattern, i)
    BY <1>1, <1>2, <1>3 DEF Occurs
  <2>3. \A p \in Nat : ~(p >= i /\ p < i)
    OBVIOUS
  <2>4. i >= i
    OBVIOUS
  <2> QED
    BY <1>2, <2>1, <2>2, <2>3, <2>4 DEF FirstMatch
<1>4. CASE j # m /\ i + j >= limit
  <2>1. r = -1
    BY <1>2, <1>4
  <2>2. \A q \in Nat : ~(q >= i /\ q + m <= limit)
    BY <1>1, <1>2, <1>4
  <2> QED
    BY <1>2, <2>1, <2>2 DEF FirstMatch
<1>5. CASE j # m /\ ~(i + j >= limit)
  <2>1. r = rest /\ FirstMatch(t, pattern, limit, i + 1, r)
    <3>1. r = rest /\ i < limit
      BY <1>1, <1>2, <1>5
    <3> QED
      BY <3>1
  <2>2. ~Occurs(t, pattern, i)
    <3>1. j + 1 \in 1 .. m /\ i + j + 1 = i + (j + 1) /\ t[i + j + 1] # pattern[j + 1]
      BY <1>1, <1>2, <1>5
    <3>2. t[i + (j + 1)] # pattern[j + 1]
      BY <3>1, Zenon
    <3> QED
      BY <1>2, <3>1, <3>2 DEF Occurs
  <2>3. \A q \in Nat : q >= i /\ q # i => q >= i + 1
    OBVIOUS
  <2>4. \A q \in Nat : q >= i + 1 => q >= i
    OBVIOUS
  <2> QED
    BY <2>1, <2>2, <2>3, <2>4 DEF FirstMatch
<1> QED
  BY <1>2, <1>3, <1>4, <1>5

\* Search is the value at 0 of a function that satisfies the equation of its loop.
LEMMA SearchEquation ==
    ASSUME NEW t, Len(t) \in Nat, NEW pattern, Len(pattern) \in Nat \ {0},
           NEW limit \in Int, limit <= Len(t)
    PROVE  \E f : /\ Search(t, pattern, limit) = f[0]
                  /\ \A i \in 0 .. Len(t) :
                       f[i] = LET j == Matched(t, pattern, limit, i)
                              IN  IF j = Len(pattern) THEN i + j - 1
                                  ELSE IF i + j >= limit THEN -1
                                  ELSE f[i + 1]
<1> DEFINE D == 0 .. Len(t)
           J(i) == Matched(t, pattern, limit, i)
           Body(g) == [i \in D |-> IF J(i) = Len(pattern) THEN i + J(i) - 1
                                  ELSE IF i + J(i) >= limit THEN -1
                                  ELSE g[AfterMismatch(i + J(i), J(i))]]
           T == {n \in Nat : \E g : \A i \in D : Len(t) - i < n => g[i] = Body(g)[i]}
<1>0. ASSUME NEW i \in D
      PROVE  /\ J(i) \in 0 .. Len(pattern) /\ AfterMismatch(i + J(i), J(i)) = i + 1
             /\ ~(i + J(i) >= limit) => i + 1 \in D
  <2>0. PICK j : j = J(i)
    OBVIOUS
  <2>1. j \in 0 .. Len(pattern)
    <3>1. i \in Nat
      OBVIOUS
    <3>2. Attempt(t, pattern, limit, i, j)
      BY <2>0, <3>1, AttemptEnds
    <3> QED
      BY <3>2 DEF Attempt
  <2>2. i + j - j + 1 = i + 1 /\ (~(i + j >= limit) => i + 1 \in D)
    BY <2>1
  <2>3. AfterMismatch(i + j, j) = i + 1
    BY <2>1 DEF AfterMismatch
  <2> HIDE DEF J
  <2> QED
    BY <2>0, <2>1, <2>2, <2>3
<1> HIDE DEF J
<1>1. 0 \in T
  OBVIOUS
<1>2. ASSUME NEW n \in Nat, n \in T PROVE n + 1 \in T
  <2>1. PICK g : \A i \in D : Len(t) - i < n => g[i] = Body(g)[i]
    BY <1>2
  <2>2. ASSUME NEW i \in D, Len(t) - i < n + 1 PROVE Body(g)[i] = Body(Body(g))[i]
    <3>1. CASE J(i) = Len(pattern) \/ i + J(i) >= limit
      BY <3>1
    <3>2. CASE ~(J(i) = Len(pattern) \/ i + J(i) >= limit)
      <4>1. i + 1 \in D /\ Len(t) - (i + 1) < n
        BY <1>0, <2>2, <3>2
      <4>2. Body(g)[i + 1] = g[i + 1]
        BY <2>1, <4>1
      <4>3. AfterMismatch(i + J(i), J(i)) = i + 1
        BY <1>0
      <4>4. Body(g)[i] = g[i + 1] /\ Body(Body(g))[i] = Body(g)[i + 1]
        BY <3>2, <4>3
      <4> QED
        BY <4>2, <4>4, Zenon
    <3> QED
      BY <3>1, <3>2
  <2>3. PICK h : h = Body(g)
    OBVIOUS
  <2> HIDE DEF Body
  <2>4. \A i \in D : Len(t) - i < n + 1 => h[i] = Body(h)[i]
    BY <2>2, <2>3
  <2> QED
    BY <2>4
<1>3. Len(t) + 1 \in T
  BY <1>1, <1>2, Inductive
<1>4. PICK g : \A i \in D : g[i] = Body(g)[i]
  BY <1>3
<1>5. Body(g) = Body(Body(g))
  <2>1. ASSUME NEW i \in D PROVE Body(g)[i] = Body(Body(g))[i]
    <3>1. CASE J(i) = Len(pattern) \/ i + J(i) >= limit
      BY <3>1
    <3>2. CASE ~(J(i) = Len(pattern) \/ i + J(i) >= limit)
      <4>1. i + 1 \in D /\ AfterMismatch(i + J(i), J(i)) = i + 1
        BY <1>0, <3>2
      <4>2. Body(g)[i] = g[i + 1] /\ Body(Body(g))[i] = Body(g)[i + 1]
        BY <3>2, <4>1
      <4>3. g[i + 1] = Body(g)[i + 1]
        BY <1>4, <4>1
      <4> QED
        BY <4>2, <4>3, Zenon
    <3> QED
      BY <3>1, <3>2
  <2> QED
    BY <2>1
<1> DEFINE f == CHOOSE h : h = Body(h)
<1>6. f = Body(f)
  BY <1>5
<1>7. Search(t, pattern, limit) = f[0]
  BY DEF Search, J
<1>8. \A i \in D : f[i] = Body(f)[i]
  BY <1>6, Zenon
<1> HIDE DEF f
<1>9. ASSUME NEW i \in D
      PROVE  f[i] = IF J(i) = Len(pattern) THEN i + J(i) - 1
                    ELSE IF i + J(i) >= limit THEN -1
                    ELSE f[i + 1]
  <2>1. AfterMismatch(i + J(i), J(i)) = i + 1
    BY <1>0
  <2> QED
    BY <1>8, <2>1
<1> QED
  BY <1>7, <1>9 DEF J

\* find_pattern and get_body find the first occurrence of the pattern that ends
\* before limit, and nothing else, whatever the bytes: going back to the byte behind
\* the beginning of an attempt skips none.
THEOREM SearchFindsFirst ==
    ASSUME NEW t, Len(t) \in Nat, NEW pattern, Len(pattern) \in Nat \ {0},
           NEW limit \in Int, limit <= Len(t)
    PROVE  FirstMatch(t, pattern, limit, 0, Search(t, pattern, limit))
<1>1. PICK f : /\ Search(t, pattern, limit) = f[0]
               /\ \A i \in 0 .. Len(t) :
                    f[i] = LET j == Matched(t, pattern, limit, i)
                           IN  IF j = Len(pattern) THEN i + j - 1
                               ELSE IF i + j >= limit THEN -1
                               ELSE f[i + 1]
  BY SearchEquation
<1> DEFINE Right(i) == FirstMatch(t, pattern, limit, i, f[i])
           T == {n \in Nat : \A i \in 0 .. Len(t) : Len(t) - i < n => Right(i)}
<1>2. 0 \in T
  OBVIOUS
<1>3. ASSUME NEW n \in Nat, n \in T PROVE n + 1 \in T
  <2>1. ASSUME NEW i \in 0 .. Len(t), Len(t) - i < n + 1 PROVE Right(i)
    <3>1. i < limit => Right(i + 1)
      <4>1. i < limit => i + 1 \in 0 .. Len(t) /\ Len(t) - (i + 1) < n
        BY <2>1
      <4> QED
        BY <1>3, <4>1
    <3>2. PICK j : j = Matched(t, pattern, limit, i)
      OBVIOUS
    <3>3. f[i] = IF j = Len(pattern) THEN i + j - 1 ELSE IF i + j >= limit THEN -1 ELSE f[i + 1]
      BY <1>1, <3>2, Zenon
    <3>4. i \in Nat
      OBVIOUS
    <3> QED
      BY <3>1, <3>2, <3>3, <3>4, OneAttempt
  <2> HIDE DEF Right
  <2> QED
    BY <2>1
<1> HIDE DEF Right
<1>4. Len(t) + 1 \in T
  BY <1>2, <1>3, Inductive
<1>5. Right(0)
  BY <1>4
<1> QED
  BY <1>1, <1>5 DEF Right

-----------------------------------------------------------------------------
(* The parameter of the request.                                           *)

\* HexDigits is the last value of a function that satisfies the equation of its loop.
LEMMA HexEquation ==
    ASSUME NEW hash, Len(hash) \in Nat
    PROVE  \E f : /\ HexDigits(hash) = f[Len(hash)]
                  /\ \A i \in 0 .. Len(hash) :
                       f[i] = IF i = 0 THEN <<>> ELSE Sprintf(f[i - 1], 2 * (i - 1), hash[i])
<1> DEFINE D == 0 .. Len(hash)
           Write(b, i) == Sprintf(b, 2 * (i - 1), hash[i])
           Body(g) == [i \in D |-> IF i = 0 THEN <<>> ELSE Write(g[i - 1], i)]
           T == {n \in Nat : \E g : \A i \in D : i < n => g[i] = Body(g)[i]}
<1>0. HexDigits(hash) = LET hex == CHOOSE h : h = Body(h) IN hex[Len(hash)]
  BY DEF HexDigits
<1> HIDE DEF Write
<1>1. 0 \in T
  OBVIOUS
<1>2. ASSUME NEW n \in Nat, n \in T PROVE n + 1 \in T
  <2>1. PICK g : \A i \in D : i < n => g[i] = Body(g)[i]
    BY <1>2
  <2>2. ASSUME NEW i \in D, i < n + 1 PROVE Body(g)[i] = Body(Body(g))[i]
    <3>1. CASE i = 0
      BY <3>1
    <3>2. CASE i # 0
      <4>1. i - 1 \in D /\ i - 1 < n
        BY <2>2, <3>2
      <4>2. Body(g)[i - 1] = g[i - 1]
        BY <2>1, <4>1
      <4> QED
        BY <3>2, <4>2
    <3> QED
      BY <3>1, <3>2
  <2>3. PICK h : h = Body(g)
    OBVIOUS
  <2> HIDE DEF Body
  <2>4. \A i \in D : i < n + 1 => h[i] = Body(h)[i]
    BY <2>2, <2>3
  <2> QED
    BY <2>4
<1>3. Len(hash) + 1 \in T
  BY <1>1, <1>2, Inductive
<1>4. PICK g : \A i \in D : g[i] = Body(g)[i]
  BY <1>3
<1>5. Body(g) = Body(Body(g))
  <2>1. ASSUME NEW i \in D PROVE Body(g)[i] = Body(Body(g))[i]
    <3>1. CASE i = 0
      BY <3>1
    <3>2. CASE i # 0
      <4>1. i - 1 \in D
        BY <3>2
      <4> QED
        BY <1>4, <3>2, <4>1
    <3> QED
      BY <3>1, <3>2
  <2> QED
    BY <2>1
<1> DEFINE f == CHOOSE h : h = Body(h)
<1>6. f = Body(f)
  BY <1>5
<1>7. HexDigits(hash) = f[Len(hash)]
  BY <1>0
<1>8. \A i \in D : f[i] = Body(f)[i]
  BY <1>6, Zenon
<1>9. \A i \in D : Body(f)[i] = IF i = 0 THEN <<>> ELSE Write(f[i - 1], i)
  OBVIOUS
<1> HIDE DEF f, Body
<1>10. \A i \in D : f[i] = IF i = 0 THEN <<>> ELSE Write(f[i - 1], i)
  BY <1>8, <1>9, Zenon
<1> QED
  BY <1>7, <1>10, Zenon DEF Write

\* b begins with the two digits of each of the first n bytes of hash.
Hex(b, hash, n) ==
    /\ b \in Seq(Int) /\ Len(b) >= 2 * n
    /\ \A k \in 1 .. n : /\ b[2 * k - 1] = HexDigit(hash[k] \div 16)
                         /\ b[2 * k] = HexDigit(hash[k] % 16)

\* One byte more: what the previous call wrote behind its two digits is overwritten,
\* and nothing else.
LEMMA OneByteMore ==
    ASSUME NEW hash, NEW n \in Nat \ {0}, hash[n] \in 0 .. 255, NEW b, Hex(b, hash, n - 1)
    PROVE  Hex(Sprintf(b, 2 * (n - 1), hash[n]), hash, n)
<1>1. PICK c \in 0 .. 255 : c = hash[n]
  OBVIOUS
<1> DEFINE at == 2 * (n - 1)
           d == HexDigit(c \div 16)
           e == HexDigit(c % 16)
           front == SubSeq(b, 1, at)
           tail == <<d, e, LF, 0>>
<1>2. b \in Seq(Int) /\ at \in Nat /\ Len(b) >= at
  BY DEF Hex
<1>3. d \in Int /\ e \in Int /\ LF \in Int
  BY DEF HexDigit, LF
<1>4. front \in Seq(Int) /\ Len(front) = at /\ \A k \in 1 .. at : front[k] = b[k]
  <2>1. \A k \in 1 .. at : b[k] \in Int
    BY <1>2, ElementOfSeq
  <2> HIDE DEF at
  <2> QED
    BY <1>2, <2>1, SubSeqProperties
<1>5. tail \in Seq(Int) /\ Len(tail) = 4 /\ tail[1] = d /\ tail[2] = e
  BY <1>3
<1> HIDE DEF d, e, front, tail
<1>6. PICK s : s = front \o tail
  OBVIOUS
<1>7. /\ s \in Seq(Int) /\ Len(s) = at + 4
      /\ \A k \in 1 .. at : s[k] = b[k]
      /\ s[at + 1] = d /\ s[at + 2] = e
  <2>1. PICK a \in Nat : a = at
    BY <1>2
  <2>2. /\ s \in Seq(Int) /\ Len(s) = a + 4
        /\ \A k \in 1 .. a + 4 : s[k] = IF k <= a THEN front[k] ELSE tail[k - a]
    <3>1. front \in Seq(Int) /\ Len(front) = a /\ tail \in Seq(Int) /\ Len(tail) = 4
      BY <1>4, <1>5, <2>1
    <3>2. /\ front \o tail \in Seq(Int) /\ Len(front \o tail) = Len(front) + Len(tail)
          /\ \A k \in 1 .. Len(front) + Len(tail) :
                (front \o tail)[k] = IF k <= Len(front) THEN front[k] ELSE tail[k - Len(front)]
      BY <3>1, ConcatProperties
    <3>3. Len(front) + Len(tail) = a + 4
      BY <3>1
    <3>4. /\ s \in Seq(Int) /\ Len(s) = a + 4
          /\ \A k \in 1 .. a + 4 :
                s[k] = IF k <= Len(front) THEN front[k] ELSE tail[k - Len(front)]
      BY <1>6, <3>2, <3>3, Zenon
    <3> QED
      BY <3>1, <3>4
  <2>3. ASSUME NEW k \in 1 .. a PROVE s[k] = b[k]
    <3>1. k \in 1 .. a + 4 /\ k <= a
      OBVIOUS
    <3>2. s[k] = front[k]
      BY <2>2, <3>1
    <3> QED
      BY <1>4, <2>1, <3>2
  <2>4. a + 1 \in 1 .. a + 4 /\ ~(a + 1 <= a) /\ a + 1 - a = 1
    OBVIOUS
  <2>5. a + 2 \in 1 .. a + 4 /\ ~(a + 2 <= a) /\ a + 2 - a = 2
    OBVIOUS
  <2>6. s[a + 1] = tail[1]
    <3>1. s[a + 1] = tail[a + 1 - a]
      BY <2>2, <2>4
    <3> QED
      BY <2>4, <3>1
  <2>7. s[a + 2] = tail[2]
    <3>1. s[a + 2] = tail[a + 2 - a]
      BY <2>2, <2>5
    <3> QED
      BY <2>5, <3>1
  <2> HIDE DEF at
  <2> QED
    BY <1>5, <2>1, <2>2, <2>3, <2>6, <2>7
<1>8. Sprintf(b, 2 * (n - 1), hash[n]) = s
  BY <1>1, <1>6 DEF Sprintf, front, tail, d, e
<1>9. ASSUME NEW k \in 1 .. n
      PROVE  s[2 * k - 1] = HexDigit(hash[k] \div 16) /\ s[2 * k] = HexDigit(hash[k] % 16)
  <2>1. CASE k = n
    <3>1. 2 * k - 1 = at + 1 /\ 2 * k = at + 2
      BY <2>1
    <3> QED
      BY <1>1, <1>7, <2>1, <3>1 DEF d, e
  <2>2. CASE k # n
    <3>1. k \in 1 .. n - 1 /\ 2 * k - 1 \in 1 .. at /\ 2 * k \in 1 .. at
      BY <2>2
    <3>2. b[2 * k - 1] = HexDigit(hash[k] \div 16) /\ b[2 * k] = HexDigit(hash[k] % 16)
      BY <3>1 DEF Hex
    <3> QED
      BY <1>7, <3>1, <3>2
  <2> QED
    BY <2>1, <2>2
<1>10. Len(s) >= 2 * n
  BY <1>7
<1> QED
  BY <1>7, <1>8, <1>9, <1>10 DEF Hex

LEMMA HexDigitsRight ==
    ASSUME NEW hash \in Seq(0 .. 255)
    PROVE  Hex(HexDigits(hash), hash, Len(hash))
<1>1. PICK f : /\ HexDigits(hash) = f[Len(hash)]
               /\ \A i \in 0 .. Len(hash) :
                    f[i] = IF i = 0 THEN <<>> ELSE Sprintf(f[i - 1], 2 * (i - 1), hash[i])
  BY HexEquation
<1> DEFINE Right(i) == Hex(f[i], hash, i)
           T == {n \in Nat : n <= Len(hash) => Right(n)}
<1>2. 0 \in T
  <2>1. f[0] = <<>>
    BY <1>1
  <2>2. Hex(<<>>, hash, 0)
    BY DEF Hex
  <2> QED
    BY <2>1, <2>2
<1>3. ASSUME NEW n \in Nat, n \in T PROVE n + 1 \in T
  <2>1. ASSUME n + 1 <= Len(hash) PROVE Right(n + 1)
    <3>1. n + 1 \in Nat \ {0} /\ n + 1 \in 1 .. Len(hash) /\ (n + 1) - 1 = n /\ n <= Len(hash)
      BY <2>1
    <3>2. hash[n + 1] \in 0 .. 255
      BY <3>1, ElementOfSeq
    <3>3. Hex(f[n], hash, (n + 1) - 1)
      BY <1>3, <3>1
    <3>4. PICK m \in Nat \ {0} : m = n + 1
      BY <3>1
    <3>5. Hex(Sprintf(f[n], 2 * (m - 1), hash[m]), hash, m)
      BY <3>2, <3>3, <3>4, OneByteMore
    <3>6. f[m] = Sprintf(f[n], 2 * (m - 1), hash[m])
      BY <1>1, <3>1, <3>4
    <3> QED
      BY <3>4, <3>5, <3>6
  <2> HIDE DEF Right
  <2> QED
    BY <2>1
<1> HIDE DEF Right
<1>4. Len(hash) \in T
  <2>1. Len(hash) \in Nat
    OBVIOUS
  <2> HIDE DEF T
  <2> QED
    BY <1>2, <1>3, <2>1, Inductive
<1>5. Right(Len(hash))
  BY <1>4
<1> QED
  BY <1>1, <1>5 DEF Right

\* What hex_str writes reads back as the digest, although each sprintf writes two
\* bytes too many.
THEOREM HexStrReadsBack ==
    ASSUME NEW hash \in Seq(0 .. 255)
    PROVE  Unescaped(HexStr(hash)) = hash
<1>1. PICK m \in Nat : m = Len(hash)
  OBVIOUS
<1>2. PICK b : b = HexDigits(hash)
  OBVIOUS
<1>3. /\ b \in Seq(Int) /\ Len(b) >= 2 * m
      /\ \A k \in 1 .. m : /\ b[2 * k - 1] = HexDigit(hash[k] \div 16)
                           /\ b[2 * k] = HexDigit(hash[k] % 16)
  BY <1>1, <1>2, HexDigitsRight DEF Hex
<1> DEFINE At(n) == IF n % 3 = 1 THEN PERCENT ELSE b[n - ((n + 2) \div 3)]
<1>4. PICK s : s = [n \in 1 .. 3 * m |-> At(n)]
  OBVIOUS
<1>5. HexStr(hash) = s
  BY <1>1, <1>2, <1>4 DEF HexStr
<1>6. s \in Seq(Int) /\ Len(s) = 3 * m
  <2>1. ASSUME NEW n \in 1 .. 3 * m PROVE At(n) \in Int
    <3>1. CASE n % 3 = 1
      BY <3>1 DEF PERCENT
    <3>2. CASE n % 3 # 1
      <4>1. n - ((n + 2) \div 3) \in 1 .. 2 * m
        BY <3>2
      <4>2. n - ((n + 2) \div 3) \in 1 .. Len(b)
        BY <1>3, <4>1
      <4>3. b[n - ((n + 2) \div 3)] \in Int
        BY <1>3, <4>2, ElementOfSeq
      <4> QED
        BY <3>2, <4>3
    <3> QED
      BY <3>1, <3>2
  <2> HIDE DEF At
  <2> QED
    BY <1>4, <2>1
<1>7. ASSUME NEW k \in 1 .. m
      PROVE  UnHex(s[3 * k - 1]) * 16 + UnHex(s[3 * k]) = hash[k]
  <2>1. /\ 3 * k - 1 \in 1 .. 3 * m /\ (3 * k - 1) % 3 = 2
        /\ (3 * k - 1) - (((3 * k - 1) + 2) \div 3) = 2 * k - 1
    OBVIOUS
  <2>2. 3 * k \in 1 .. 3 * m /\ (3 * k) % 3 = 0 /\ 3 * k - ((3 * k + 2) \div 3) = 2 * k
    OBVIOUS
  <2>3. s[3 * k - 1] = b[2 * k - 1]
    BY <1>4, <2>1
  <2>4. s[3 * k] = b[2 * k]
    <3>1. At(3 * k) = b[2 * k]
      BY <2>2
    <3> HIDE DEF At
    <3> QED
      BY <1>4, <2>2, <3>1
  <2>5. PICK c \in 0 .. 255 : c = hash[k]
    <3>1. k \in 1 .. Len(hash)
      BY <1>1
    <3> QED
      BY <3>1, ElementOfSeq
  <2>6. s[3 * k - 1] = HexDigit(c \div 16) /\ s[3 * k] = HexDigit(c % 16)
    BY <1>3, <2>3, <2>4, <2>5
  <2>7. \A x \in 0 .. 15 : UnHex(HexDigit(x)) = x
    BY DEF UnHex, HexDigit
  <2>8. PICK q \in 0 .. 15, e \in 0 .. 15 : q = c \div 16 /\ e = c % 16 /\ c = 16 * q + e
    OBVIOUS
  <2>9. q * 16 + e = c
    BY <2>8
  <2>10. UnHex(s[3 * k - 1]) = q /\ UnHex(s[3 * k]) = e
    <3>1. UnHex(HexDigit(q)) = q /\ UnHex(HexDigit(e)) = e
      BY <2>7
    <3> QED
      BY <2>6, <2>8, <3>1, Zenon
  <2> QED
    BY <2>5, <2>9, <2>10
<1>8. Len(s) \div 3 = m
  BY <1>6
<1>9. Unescaped(s) = [k \in 1 .. m |-> UnHex(s[3 * k - 1]) * 16 + UnHex(s[3 * k])]
  BY <1>8 DEF Unescaped
<1>10. Unescaped(s) = [k \in 1 .. m |-> hash[k]]
  BY <1>7, <1>9
<1>11. hash = [k \in 1 .. m |-> hash[k]]
  BY <1>1
<1> QED
  BY <1>5, <1>10, <1>11

-----------------------------------------------------------------------------
(* The bytes of the info dictionary.                                       *)

\* What stands before the value: the length of the key and the key.
Key == <<52, SDEL_TOKEN>> \o info

LEMMA PatternBytes ==
    /\ Len(info) = 4 /\ Key \in Seq(Int) /\ Len(Key) = 6
    /\ InfoPattern \in Seq(Int) /\ Len(InfoPattern) = 7
    /\ \A k \in 1 .. 6 : InfoPattern[k] = Key[k]
    /\ InfoPattern[7] = DICT_TOKEN
<1> DEFINE begin == <<52, SDEL_TOKEN>>
           last == <<DICT_TOKEN>>
<1>1. begin \in Seq(Int) /\ Len(begin) = 2 /\ info \in Seq(Int) /\ Len(info) = 4
  BY DEF SDEL_TOKEN, info
<1>2. last \in Seq(Int) /\ Len(last) = 1 /\ last[1] = DICT_TOKEN
  BY DEF DICT_TOKEN
<1> HIDE DEF begin, last
<1>3. begin \o info \in Seq(Int) /\ Len(begin \o info) = Len(begin) + Len(info)
  BY <1>1, ConcatProperties
<1>4. Key = begin \o info
  BY DEF Key, begin
<1>5. Key \in Seq(Int) /\ Len(Key) = 6
  BY <1>1, <1>3, <1>4
<1>6. InfoPattern = Key \o last
  BY DEF InfoPattern, Key, last
<1>7. /\ InfoPattern \in Seq(Int) /\ Len(InfoPattern) = Len(Key) + Len(last)
      /\ \A k \in 1 .. Len(Key) + Len(last) :
            InfoPattern[k] = IF k <= Len(Key) THEN Key[k] ELSE last[k - Len(Key)]
  BY <1>2, <1>5, <1>6, ConcatProperties
<1> QED
  BY <1>1, <1>2, <1>5, <1>7

\* find_info_dict: where the pattern stands first, if it is found.
LEMMA FindsPattern ==
    ASSUME NEW t, Len(t) \in Nat, NEW q, q = FindPattern(t, InfoPattern), q # -1
    PROVE  /\ q \in Nat /\ q + 14 <= Len(t) /\ Occurs(t, InfoPattern, q)
           /\ \A p \in Nat : p < q => ~Occurs(t, InfoPattern, p)
<1> DEFINE limit == Len(t) - Len(InfoPattern)
           last == Search(t, InfoPattern, limit)
<1>1. Len(InfoPattern) = 7 /\ Len(InfoPattern) \in Nat \ {0} /\ limit \in Int /\ limit <= Len(t)
  BY PatternBytes
<1>2. PICK r : r = last
  OBVIOUS
<1>3. FirstMatch(t, InfoPattern, limit, 0, r)
  BY <1>1, <1>2, SearchFindsFirst
<1>4. r # -1 /\ q = r - 7 + 1
  BY <1>1, <1>2 DEF FindPattern
<1> HIDE DEF limit, last
<1>5. PICK n \in Nat : /\ r = n + 7 - 1 /\ n + 7 <= limit
                       /\ Occurs(t, InfoPattern, n)
                       /\ \A p \in Nat : p >= 0 /\ p < n => ~Occurs(t, InfoPattern, p)
  BY <1>1, <1>3, <1>4 DEF FirstMatch
<1>6. q = n
  BY <1>4, <1>5
<1>7. n + 14 <= Len(t)
  BY <1>1, <1>5 DEF limit
<1>8. \A p \in Nat : p < n => ~Occurs(t, InfoPattern, p)
  BY <1>5
<1> QED
  BY <1>5, <1>6, <1>7, <1>8

\* The elements lo to hi of a sequence.
LEMMA Slice ==
    ASSUME NEW s \in Seq(Int), NEW lo \in Nat \ {0}, NEW hi \in Nat, hi <= Len(s), lo <= hi
    PROVE  /\ SubSeq(s, lo, hi) \in Seq(Int) /\ Len(SubSeq(s, lo, hi)) = hi - lo + 1
           /\ \A k \in 1 .. hi - lo + 1 : SubSeq(s, lo, hi)[k] = s[lo + k - 1]
<1>1. \A k \in lo .. hi : s[k] \in Int
  BY ElementOfSeq
<1> QED
  BY <1>1, SubSeqProperties

\* Two sequences with the same length and the same elements are the same.
LEMMA SameElements ==
    ASSUME NEW a \in Seq(Int), NEW b \in Seq(Int), Len(a) = Len(b),
           \A k \in 1 .. Len(a) : a[k] = b[k]
    PROVE  a = b
BY SeqEqual

\* The digest is taken over the info dictionary as it stands in the file.
LEMMA SpanIsInfo ==
    ASSUME NEW doc \in Torrents, InfoIsLast(doc), NEW e, e = Encoded(doc),
           NEW q, q = FindPattern(e, InfoPattern), q # -1,
           \A n \in 0 .. InfoBegin(doc) - Len(InfoPattern) :
               SubSeq(e, n + 1, n + Len(InfoPattern)) # InfoPattern
    PROVE  InfoSpan(e) = Encoded(Field(doc, info))
<1> DEFINE v == Encoded(Field(doc, info))
           b == InfoBegin(doc)
           w == Key \o v
<1>1. /\ e \in Seq(Int) /\ v \in Seq(Int) /\ v # <<>> /\ v[1] = DICT_TOKEN
      /\ b >= Len(info) + 2
      /\ SubSeq(e, b - Len(info) - 1, Len(e) - 1) = w
  BY EncodeAssumption DEF Key
<1>2. Len(e) \in Nat /\ Len(v) \in Nat \ {0} /\ b = Len(e) - Len(v) - 1 /\ b >= 6 /\ b \in Nat
  <2>1. Len(e) \in Nat /\ Len(v) \in Nat \ {0} /\ Len(info) = 4
    BY <1>1, PatternBytes
  <2>2. b = Len(e) - Len(v) - 1
    BY DEF InfoBegin
  <2> HIDE DEF b, v
  <2> QED
    BY <1>1, <2>1, <2>2
<1> HIDE DEF b, v
<1>3. PICK x \in Nat : x = b - 6
  <2>1. b - 6 \in Nat
    BY <1>2
  <2> QED
    BY <2>1
<1>4. x + 1 = b - Len(info) - 1 /\ x + 7 <= Len(e) - 1 /\ Len(e) - 1 <= Len(e) /\ Len(e) - 1 \in Nat
  <2>1. Len(info) = 4
    BY PatternBytes
  <2> QED
    BY <1>2, <1>3, <2>1
<1>5. Len(w) = 6 + Len(v) /\ \A k \in 1 .. 6 + Len(v) : w[k] = IF k <= 6 THEN Key[k] ELSE v[k - 6]
  <2>1. Key \in Seq(Int) /\ Len(Key) = 6
    BY PatternBytes
  <2>2. /\ Len(w) = Len(Key) + Len(v)
        /\ \A k \in 1 .. Len(Key) + Len(v) : w[k] = IF k <= Len(Key) THEN Key[k] ELSE v[k - Len(Key)]
    BY <1>1, <2>1, ConcatProperties
  <2> HIDE DEF w
  <2> QED
    BY <2>1, <2>2, Zenon
<1> HIDE DEF w
<1>6. /\ \A k \in 1 .. 6 : w[k] = InfoPattern[k]
      /\ \A k \in 1 .. Len(v) : w[6 + k] = v[k]
  <2>1. ASSUME NEW k \in 1 .. 6 PROVE w[k] = InfoPattern[k]
    <3>1. k \in 1 .. 6 + Len(v) /\ k <= 6
      BY <1>2
    <3> QED
      BY <1>5, <3>1, PatternBytes
  <2>2. ASSUME NEW k \in 1 .. Len(v) PROVE w[6 + k] = v[k]
    <3>1. 6 + k \in 1 .. 6 + Len(v) /\ ~(6 + k <= 6) /\ 6 + k - 6 = k
      BY <1>2
    <3>2. w[6 + k] = v[6 + k - 6]
      BY <1>5, <3>1
    <3> QED
      BY <3>1, <3>2
  <2> QED
    BY <2>1, <2>2
<1>7. \A k \in 1 .. 6 + Len(v) : e[x + k] = w[k]
  <2>1. PICK hi \in Nat : hi = Len(e) - 1
    BY <1>4
  <2>2. PICK lo \in Nat \ {0} : lo = x + 1
    OBVIOUS
  <2>3. hi <= Len(e) /\ lo <= hi /\ hi - lo + 1 = 6 + Len(v)
    BY <1>2, <1>3, <1>4, <2>1, <2>2
  <2>4. SubSeq(e, lo, hi) = w
    BY <1>1, <1>4, <2>1, <2>2, Zenon
  <2>5. \A k \in 1 .. hi - lo + 1 : SubSeq(e, lo, hi)[k] = e[lo + k - 1]
    BY <1>1, <2>3, Slice
  <2>6. \A k \in 1 .. 6 + Len(v) : e[lo + k - 1] = w[k]
    BY <2>3, <2>4, <2>5, Zenon
  <2>7. ASSUME NEW k \in 1 .. 6 + Len(v) PROVE e[x + k] = w[k]
    <3>1. lo + k - 1 = x + k
      BY <1>2, <2>2
    <3> QED
      BY <2>6, <3>1, Zenon
  <2> QED
    BY <2>7
<1>8. Occurs(e, InfoPattern, x)
  <2>1. ASSUME NEW k \in 1 .. 7 PROVE e[x + k] = InfoPattern[k]
    <3>1. CASE k \in 1 .. 6
      <4>1. k \in 1 .. 6 + Len(v)
        BY <1>2, <3>1
      <4> QED
        BY <1>6, <1>7, <3>1, <4>1
    <3>2. CASE k = 7
      <4>1. 7 \in 1 .. 6 + Len(v) /\ 1 \in 1 .. Len(v) /\ 6 + 1 = 7
        BY <1>2
      <4>2. e[x + 7] = w[7] /\ w[7] = v[1]
        BY <1>6, <1>7, <4>1
      <4>3. InfoPattern[7] = DICT_TOKEN
        BY PatternBytes
      <4> QED
        BY <1>1, <3>2, <4>2, <4>3
    <3> QED
      BY <3>1, <3>2
  <2> QED
    BY <2>1, PatternBytes DEF Occurs
<1>9. /\ q \in Nat /\ q + 14 <= Len(e) /\ Occurs(e, InfoPattern, q)
      /\ \A p \in Nat : p < q => ~Occurs(e, InfoPattern, p)
  BY <1>2, FindsPattern
<1>10. q <= x
  BY <1>8, <1>9
<1>11. ~(q < x)
  <2> SUFFICES ASSUME q < x PROVE FALSE
    OBVIOUS
  <2>0. q \in Nat /\ q + 14 <= Len(e) /\ Len(InfoPattern) = 7
    BY <1>9, PatternBytes
  <2>1. q \in 0 .. b - Len(InfoPattern)
    BY <1>2, <1>3, <2>0
  <2>2. PICK lo \in Nat \ {0}, hi \in Nat : lo = q + 1 /\ hi = q + 7
    BY <2>0
  <2>3. SubSeq(e, lo, hi) # InfoPattern
    <3>1. SubSeq(e, q + 1, q + Len(InfoPattern)) # InfoPattern
      BY <2>1 DEF b
    <3> QED
      BY <2>2, <3>1, PatternBytes
  <2>4. hi <= Len(e) /\ lo <= hi /\ hi - lo + 1 = 7
    <3>1. Len(e) \in Nat
      BY <1>2
    <3> QED
      BY <2>0, <2>2, <3>1
  <2>5. /\ SubSeq(e, lo, hi) \in Seq(Int) /\ Len(SubSeq(e, lo, hi)) = 7
        /\ \A k \in 1 .. 7 : SubSeq(e, lo, hi)[k] = e[lo + k - 1]
    <3>1. /\ SubSeq(e, lo, hi) \in Seq(Int) /\ Len(SubSeq(e, lo, hi)) = hi - lo + 1
          /\ \A k \in 1 .. hi - lo + 1 : SubSeq(e, lo, hi)[k] = e[lo + k - 1]
      BY <1>1, <2>4, Slice
    <3> QED
      BY <2>4, <3>1, Zenon
  <2>6. ASSUME NEW k \in 1 .. 7 PROVE SubSeq(e, lo, hi)[k] = InfoPattern[k]
    <3>1. lo + k - 1 = q + k
      BY <1>9, <2>2
    <3>2. e[q + k] = InfoPattern[k]
      BY <1>9, PatternBytes DEF Occurs
    <3> QED
      BY <2>5, <3>1, <3>2
  <2>7. SubSeq(e, lo, hi) = InfoPattern
    BY <2>5, <2>6, PatternBytes, SameElements
  <2> QED
    BY <2>3, <2>7
<1>12. q = x
  BY <1>9, <1>10, <1>11
<1>13. PICK lo \in Nat \ {0}, hi \in Nat : lo = x + 7 /\ hi = Len(e) - 1
  <2>1. x + 7 \in Nat \ {0}
    OBVIOUS
  <2> QED
    BY <1>4, <2>1
<1>14. hi <= Len(e) /\ lo <= hi /\ hi - lo + 1 = Len(v)
  BY <1>2, <1>3, <1>13
<1>15. PICK s : s = SubSeq(e, lo, hi)
  OBVIOUS
<1>16. s \in Seq(Int) /\ Len(s) = Len(v) /\ \A k \in 1 .. Len(v) : s[k] = e[lo + k - 1]
  <2>1. /\ s \in Seq(Int) /\ Len(s) = hi - lo + 1
        /\ \A k \in 1 .. hi - lo + 1 : s[k] = e[lo + k - 1]
    <3>1. /\ SubSeq(e, lo, hi) \in Seq(Int) /\ Len(SubSeq(e, lo, hi)) = hi - lo + 1
          /\ \A k \in 1 .. hi - lo + 1 : SubSeq(e, lo, hi)[k] = e[lo + k - 1]
      BY <1>1, <1>14, Slice
    <3> QED
      BY <1>15, <3>1, Zenon
  <2> QED
    BY <1>14, <2>1, Zenon
<1>17. ASSUME NEW k \in 1 .. Len(v) PROVE s[k] = v[k]
  <2>1. lo + k - 1 = x + (6 + k) /\ 6 + k \in 1 .. 6 + Len(v)
    BY <1>2, <1>13
  <2>2. e[x + (6 + k)] = w[6 + k]
    BY <1>7, <2>1
  <2> QED
    BY <1>6, <1>16, <2>1, <2>2
<1>18. s = v
  BY <1>1, <1>16, <1>17, SameElements
<1>19. InfoSpan(e) = s
  BY <1>12, <1>13, <1>15 DEF InfoSpan
<1> QED
  BY <1>18, <1>19 DEF v

-----------------------------------------------------------------------------
(* How the reading of a document ends.                                     *)

Ends == {"exit", "throw", "crash", "hang", "undefined"}
Outs == {"ok"} \cup Ends

\* N is a set of nodes: the elements of a list and the values of a dictionary are
\* nodes.
AreNodes(N) ==
    \A node \in N :
        /\ "list" \in DOMAIN node => node.list \in Seq(N)
        /\ "dict" \in DOMAIN node => \A key \in DOMAIN node.dict : node.dict[key] \in N

\* What Decoded makes of some bytes is a node of N, the null pointer, or the end.
DecoderOK(N) ==
    \A b \in Seq(Int) :
        /\ Decoded(b, 0).out \in Outs \cup {"null"}
        /\ Decoded(b, 0).out = "ok" => Decoded(b, 0).node \in N

LEMMA SimpleOuts ==
    /\ \A node, type : Is(node, type) \in Outs
    /\ \A d, key, type : Required(d, key, type) \in Outs /\ Optional(d, key, type) \in Outs
    /\ \A node : FirstIsString(node) \in Outs /\ FileOut(node) \in Outs
<1>1. \A node, type : Is(node, type) \in Outs
  BY DEF Is, Outs, Ends
<1>2. \A d, key, type : Required(d, key, type) \in Outs /\ Optional(d, key, type) \in Outs
  BY <1>1 DEF Required, Optional, Outs, Ends
<1>3. \A node : FirstIsString(node) \in Outs
  BY <1>1 DEF FirstIsString, Then, Outs, Ends
<1>4. \A node : FileOut(node) \in Outs
  BY <1>1, <1>2, <1>3 DEF FileOut, Then, Outs, Ends
<1> QED
  BY <1>1, <1>2, <1>3, <1>4

LEMMA FirstOut ==
    ASSUME NEW outs \in Seq(Outs)
    PROVE  First(outs) \in Outs /\ (First(outs) = "ok" => \A n \in DOMAIN outs : outs[n] = "ok")
<1>1. CASE \A n \in DOMAIN outs : outs[n] = "ok"
  BY <1>1 DEF First, Outs
<1>2. CASE ~(\A n \in DOMAIN outs : outs[n] = "ok")
  <2> DEFINE Bad == {n \in DOMAIN outs : outs[n] # "ok"}
             Is1(n) == outs[n] # "ok" /\ \A k \in 1 .. n - 1 : outs[k] = "ok"
  <2>1. DOMAIN outs = 1 .. Len(outs) /\ Len(outs) \in Nat
    OBVIOUS
  <2>2. Bad \in SUBSET Nat /\ Bad # {}
    BY <1>2, <2>1
  <2>3. PICK n \in Bad : \A k \in Bad : n <= k
    <3> HIDE DEF Bad
    <3> QED
      BY <2>2, Least
  <2>4. n \in DOMAIN outs /\ Is1(n)
    <3>1. n \in 1 .. Len(outs) /\ outs[n] # "ok"
      BY <2>1
    <3>2. ASSUME NEW k \in 1 .. n - 1 PROVE outs[k] = "ok"
      <4>1. k \in DOMAIN outs /\ ~(n <= k)
        BY <2>1, <3>1
      <4> QED
        BY <2>3, <4>1
    <3> QED
      BY <2>1, <3>1, <3>2
  <2>5. First(outs) = outs[CHOOSE k \in DOMAIN outs : Is1(k)]
    BY <1>2 DEF First
  <2> HIDE DEF Is1
  <2>6. PICK m \in DOMAIN outs : First(outs) = outs[m] /\ Is1(m)
    BY <2>4, <2>5
  <2>7. \A k \in DOMAIN outs : outs[k] \in Outs
    BY <2>1, ElementOfSeq
  <2> QED
    BY <2>6, <2>7 DEF Is1
<1> QED
  BY <1>1, <1>2

\* The first of the outcomes for the elements of a list.
LEMMA FirstOfList ==
    ASSUME NEW N, NEW l \in Seq(N), NEW outs, outs = [n \in DOMAIN l |-> outs[n]],
           \A n \in DOMAIN l : outs[n] \in Outs
    PROVE  First(outs) \in Outs
<1>1. outs \in Seq(Outs)
  <2>1. DOMAIN l = 1 .. Len(l) /\ Len(l) \in Nat
    OBVIOUS
  <2>2. [n \in 1 .. Len(l) |-> outs[n]] \in Seq(Outs)
    BY <2>1, IsASeq
  <2> QED
    BY <2>1, <2>2, Zenon
<1> QED
  BY <1>1, FirstOut

LEMMA AnnounceListOuts ==
    ASSUME NEW N, AreNodes(N), NEW d, \A key \in DOMAIN d : d[key] \in N
    PROVE  AnnounceListOut(d) \in Outs
<1>1. CASE ~Has(d, announceList)
  BY <1>1 DEF AnnounceListOut, Outs
<1>2. CASE Has(d, announceList)
  <2> DEFINE node == d[announceList]
             outs == [n \in DOMAIN node.list |-> FirstIsString(node.list[n])]
  <2>1. node \in N
    BY <1>2 DEF Has
  <2>2. AnnounceListOut(d) = Then(Is(node, "list"), First(outs))
    BY <1>2 DEF AnnounceListOut, Get
  <2>3. ASSUME "list" \in DOMAIN node PROVE First(outs) \in Outs
    <3>1. node.list \in Seq(N)
      BY <2>1, <2>3 DEF AreNodes
    <3>2. \A n \in DOMAIN node.list : outs[n] \in Outs
      BY SimpleOuts
    <3>3. outs = [n \in DOMAIN node.list |-> outs[n]]
      OBVIOUS
    <3> HIDE DEF outs
    <3> QED
      BY <3>1, <3>2, <3>3, FirstOfList
  <2> HIDE DEF node, outs
  <2> QED
    BY <2>2, <2>3 DEF Then, Is, Outs, Ends
<1> QED
  BY <1>1, <1>2

LEMMA InfoOuts ==
    ASSUME NEW N, AreNodes(N), NEW d, \A key \in DOMAIN d : d[key] \in N
    PROVE  InfoOut(d) \in Outs
<1> DEFINE node == d[files]
           outs == [n \in DOMAIN node.list |-> FileOut(node.list[n])]
           filesOut == IF Has(d, files) THEN Then(Is(node, "list"), First(outs))
                       ELSE Optional(d, length, "int")
<1>1. filesOut \in Outs
  <2>1. CASE ~Has(d, files)
    BY <2>1, SimpleOuts
  <2>2. CASE Has(d, files)
    <3>1. node \in N
      BY <2>2 DEF Has
    <3>2. ASSUME "list" \in DOMAIN node PROVE First(outs) \in Outs
      <4>1. node.list \in Seq(N)
        BY <3>1, <3>2 DEF AreNodes
      <4>2. \A n \in DOMAIN node.list : outs[n] \in Outs
        BY SimpleOuts
      <4>3. outs = [n \in DOMAIN node.list |-> outs[n]]
        OBVIOUS
      <4> HIDE DEF outs
      <4> QED
        BY <4>1, <4>2, <4>3, FirstOfList
    <3> HIDE DEF node, outs
    <3> QED
      BY <2>2, <3>2 DEF Then, Is, Outs, Ends
  <2> QED
    BY <2>1, <2>2
<1>2. PICK a \in Outs, b \in Outs, c \in Outs, e \in Outs, g \in Outs :
        /\ a = Required(d, name, "str") /\ b = filesOut /\ c = Optional(d, private, "int")
        /\ e = Required(d, pieceLength, "int") /\ g = Required(d, piecesKey, "str")
  BY <1>1, SimpleOuts
<1>3. InfoOut(d) = First(<<a, b, c, e, g>>)
  BY <1>2 DEF InfoOut
<1>4. <<a, b, c, e, g>> \in Seq(Outs)
  OBVIOUS
<1> QED
  BY <1>3, <1>4, FirstOut

LEMMA DocumentOuts ==
    ASSUME NEW N, AreNodes(N), NEW node \in N
    PROVE  DocumentOut(node) \in Outs
<1> DEFINE d == node.dict
           commentOut(key, type) == IF Has(d, comment) THEN Required(d, key, type) ELSE "ok"
           steps == <<Required(d, announce, "str"), AnnounceListOut(d), Optional(d, comment, "str"),
                      commentOut(createdBy, "str"), commentOut(creationDate, "int"),
                      Optional(d, encoding, "str"), Required(d, info, "dict")>>
<1>1. DocumentOut(node) = Then(Is(node, "dict"), Then(First(steps), InfoOut(d[info].dict)))
  BY DEF DocumentOut
<1>2. ASSUME "dict" \in DOMAIN node
      PROVE  First(steps) \in Outs /\ (First(steps) = "ok" => Required(d, info, "dict") = "ok")
  <2>1. \A key \in DOMAIN d : d[key] \in N
    BY <1>2 DEF AreNodes
  <2>2. AnnounceListOut(d) \in Outs
    BY <2>1, AnnounceListOuts
  <2>3. commentOut(createdBy, "str") \in Outs /\ commentOut(creationDate, "int") \in Outs
    BY SimpleOuts DEF Outs
  <2>4. PICK a \in Outs, b \in Outs, c \in Outs, e \in Outs, g \in Outs, h \in Outs, i \in Outs :
          /\ a = Required(d, announce, "str") /\ b = AnnounceListOut(d)
          /\ c = Optional(d, comment, "str") /\ e = commentOut(createdBy, "str")
          /\ g = commentOut(creationDate, "int") /\ h = Optional(d, encoding, "str")
          /\ i = Required(d, info, "dict")
    BY <2>2, <2>3, SimpleOuts
  <2>5. steps = <<a, b, c, e, g, h, i>>
    BY <2>4
  <2>6. <<a, b, c, e, g, h, i>> \in Seq(Outs)
    OBVIOUS
  <2>7. PICK s \in Seq(Outs) : s = <<a, b, c, e, g, h, i>>
    BY <2>6
  <2>8. 7 \in DOMAIN s /\ s[7] = i
    BY <2>7
  <2>9. First(s) \in Outs /\ (First(s) = "ok" => s[7] = "ok")
    BY <2>8, FirstOut
  <2> QED
    BY <2>4, <2>5, <2>7, <2>8, <2>9, Zenon
<1>3. ASSUME "dict" \in DOMAIN node, First(steps) = "ok" PROVE InfoOut(d[info].dict) \in Outs
  <2>1. \A key \in DOMAIN d : d[key] \in N
    BY <1>3 DEF AreNodes
  <2>2. Required(d, info, "dict") = "ok"
    BY <1>2, <1>3
  <2>3. info \in DOMAIN d /\ "dict" \in DOMAIN d[info]
    BY <2>2 DEF Required, Has, Is, Get
  <2>4. \A key \in DOMAIN d[info].dict : d[info].dict[key] \in N
    BY <2>1, <2>3 DEF AreNodes
  <2> QED
    BY <2>4, InfoOuts
<1> HIDE DEF steps, d
<1> QED
  BY <1>1, <1>2, <1>3 DEF Then, Is, Outs, Ends

LEMMA DecodedOuts ==
    ASSUME NEW N, AreNodes(N), DecoderOK(N), NEW b \in Seq(Int)
    PROVE  DecodedOut(Decoded(b, 0)) \in Outs
<1>1. PICK r : r = Decoded(b, 0)
  OBVIOUS
<1>2. r.out \in Outs \cup {"null"} /\ (r.out = "ok" => r.node \in N)
  BY <1>1 DEF DecoderOK
<1>3. r.out = "ok" => DocumentOut(r.node) \in Outs
  BY <1>2, DocumentOuts
<1> QED
  BY <1>1, <1>2, <1>3 DEF DecodedOut, Outs, Ends

-----------------------------------------------------------------------------
(* The digest on its way to the tracker.                                   *)

\* What the digest is taken over was found in the file.
SpanFound == FindPattern(file, InfoPattern) # -1

\* From init_torrent_data on the hash is that of the span, and hex_str's text of it
\* goes into the request.
HashInv ==
    /\ torrent \in Torrents /\ file \in Seq(Int)
    /\ pc \in {"connect", "answer", "peers"} => SpanFound /\ meta.hash = SHA1(InfoSpan(file))
    /\ request # <<>> => SpanFound /\ request.info_hash = HexStr(SHA1(InfoSpan(file)))

\* A damaged file still consists of bytes.
LEMMA DamagedType ==
    ASSUME NEW s \in Seq(Int)
    PROVE  Damaged(s) \subseteq Seq(Int)
<1>1. ASSUME NEW n \in 0 .. Len(s) - 1 PROVE SubSeq(s, 1, n) \in Seq(Int)
  <2>1. n \in Nat /\ n <= Len(s) /\ \A k \in 1 .. n : s[k] \in Int
    BY ElementOfSeq
  <2> QED
    BY <2>1, SubSeqProperties
<1>2. ASSUME NEW n \in DOMAIN s PROVE [s EXCEPT ![n] = EOFByte] \in Seq(Int)
  BY ExceptSeq DEF EOFByte
<1> QED
  BY <1>1, <1>2 DEF Damaged

LEMMA InitHash == Init => HashInv
<1> SUFFICES ASSUME Init PROVE HashInv
  OBVIOUS
<1>1. torrent \in Torrents /\ Encoded(torrent) \in Seq(Int)
  BY EncodeAssumption DEF Init
<1>2. file = Encoded(torrent) \/ file \in Damaged(Encoded(torrent))
  BY DEF Init
<1>3. file \in Seq(Int)
  BY <1>1, <1>2, DamagedType
<1> QED
  BY <1>1, <1>3 DEF Init, HashInv

LEMMA NextHash ==
    ASSUME NEW N, AreNodes(N), DecoderOK(N), HashInv, [Next]_vars
    PROVE  HashInv'
<1> USE DEF HashInv
<1>1. CASE InitTorrentData
  <2>1. /\ file' = file /\ torrent' = torrent /\ request' = request /\ SpanFound' = SpanFound
        /\ InfoSpan(file)' = InfoSpan(file)
    BY <1>1 DEF InitTorrentData, SpanFound
  <2>2. DecodedOut(Decoded(file, 0)) \in Outs
    BY DecodedOuts
  <2>3. pc' \in {"connect", "answer", "peers"} => SpanFound /\ meta'.hash = SHA1(InfoSpan(file))
    <3>1. CASE FindPattern(file, InfoPattern) = -1
      BY <1>1, <3>1 DEF InitTorrentData
    <3>2. CASE SpanFound /\ DecodedOut(Decoded(file, 0)) # "ok"
      <4>1. pc' = DecodedOut(Decoded(file, 0))
        BY <1>1, <3>2 DEF InitTorrentData, SpanFound
      <4> QED
        BY <2>2, <3>2, <4>1 DEF Outs, Ends
    <3>3. CASE SpanFound /\ DecodedOut(Decoded(file, 0)) = "ok"
      <4>1. meta'.hash = SHA1(InfoSpan(file))
        BY <1>1, <3>3 DEF InitTorrentData, SpanFound
      <4> QED
        BY <3>3, <4>1
    <3> QED
      BY <3>1, <3>2, <3>3 DEF SpanFound
  <2> QED
    BY <2>1, <2>3
<1>2. CASE Connect
  <2>1. /\ file' = file /\ torrent' = torrent /\ meta' = meta /\ SpanFound' = SpanFound
        /\ InfoSpan(file)' = InfoSpan(file) /\ pc = "connect"
    BY <1>2 DEF Connect, SpanFound
  <2>2. \/ request' = request
        \/ request' = [info_hash |-> HexStr(meta.hash), peer_id |-> MyId,
                       left |-> (Len(meta.pieces) \div HashLength) * meta.pieceLength]
    BY <1>2 DEF Connect
  <2>3. request' # <<>> => SpanFound /\ request'.info_hash = HexStr(SHA1(InfoSpan(file)))
    BY <2>1, <2>2
  <2> QED
    BY <2>1, <2>3
<1>3. CASE Recv \/ SetupPeers
  <2>1. /\ file' = file /\ torrent' = torrent /\ meta' = meta /\ request' = request
        /\ SpanFound' = SpanFound /\ InfoSpan(file)' = InfoSpan(file)
        /\ pc \in {"answer", "peers"}
    BY <1>3 DEF Recv, SetupPeers, SpanFound
  <2> QED
    BY <2>1
<1>4. CASE Start
  <2>1. /\ file' = file /\ torrent' = torrent /\ meta' = meta /\ request' = request
        /\ SpanFound' = SpanFound /\ InfoSpan(file)' = InfoSpan(file)
        /\ pc' \in {"throw", "running"}
    BY <1>4 DEF Start, SpanFound
  <2> QED
    BY <2>1
<1>5. CASE UNCHANGED vars
  BY <1>5 DEF vars, SpanFound
<1> QED
  BY <1>1, <1>2, <1>3, <1>4, <1>5 DEF Next

\* The digest the request names reads back as that of the info dictionary.
LEMMA HashReaches ==
    ASSUME \A b \in Seq(Int) : SHA1(b) \in Seq(0 .. 255), HashInv
    PROVE  TrackerGetsHash
<1> SUFFICES ASSUME request # <<>>, Whole, InfoIsLast(torrent), NoDecoy
             PROVE  Unescaped(request.info_hash) = SHA1(Encoded(Field(torrent, info)))
  BY DEF TrackerGetsHash
<1>1. /\ torrent \in Torrents /\ file = Encoded(torrent) /\ FindPattern(file, InfoPattern) # -1
      /\ request.info_hash = HexStr(SHA1(InfoSpan(file)))
  BY DEF HashInv, Whole, SpanFound
<1>2. InfoSpan(file) = Encoded(Field(torrent, info))
  BY <1>1, SpanIsInfo DEF NoDecoy
<1>3. Unescaped(HexStr(SHA1(InfoSpan(file)))) = SHA1(InfoSpan(file))
  <2>1. InfoSpan(file) \in Seq(Int)
    BY <1>1, <1>2, EncodeAssumption
  <2> QED
    BY <2>1, HexStrReadsBack
<1> QED
  BY <1>1, <1>2, <1>3

\* The tracker learns the digest of the info dictionary as the author encoded it:
\* find_info_dict finds the beginning of the dictionary and cuts it where it ends,
\* and hex_str keeps every byte of the digest, for every torrent file, encoding
\* and decoder that can be.
THEOREM HashReachesTracker ==
    ASSUME NEW N, AreNodes(N), DecoderOK(N), \A b \in Seq(Int) : SHA1(b) \in Seq(0 .. 255)
    PROVE  Spec => []TrackerGetsHash
<1>1. Init => HashInv
  BY InitHash
<1>2. HashInv /\ [Next]_vars => HashInv'
  BY NextHash
<1>3. HashInv => TrackerGetsHash
  BY HashReaches
<1> QED
  BY <1>1, <1>2, <1>3, PTL DEF Spec

-----------------------------------------------------------------------------
(* The parts of the tracker's URL.                                         *)

\* The elements lo to hi, of which there may be none.
LEMMA Part ==
    ASSUME NEW s \in Seq(Int), NEW lo \in Nat \ {0}, NEW hi \in Nat, hi <= Len(s), lo <= hi + 1
    PROVE  /\ SubSeq(s, lo, hi) \in Seq(Int) /\ Len(SubSeq(s, lo, hi)) = hi - lo + 1
           /\ \A k \in 1 .. hi - lo + 1 : SubSeq(s, lo, hi)[k] = s[lo + k - 1]
<1>1. \A k \in lo .. hi : s[k] \in Int
  BY ElementOfSeq
<1>2. /\ SubSeq(s, lo, hi) \in Seq(Int)
      /\ Len(SubSeq(s, lo, hi)) = IF lo <= hi THEN hi - lo + 1 ELSE 0
      /\ \A k \in 1 .. hi - lo + 1 : SubSeq(s, lo, hi)[k] = s[lo + k - 1]
  BY <1>1, SubSeqProperties
<1> QED
  BY <1>2

\* Two parts that touch make one.
LEMMA Joined ==
    ASSUME NEW s \in Seq(Int), NEW lo \in Nat \ {0}, NEW m \in Nat, NEW hi \in Nat,
           hi <= Len(s), lo <= m + 1, m <= hi, NEW next, next = m + 1
    PROVE  SubSeq(s, lo, m) \o SubSeq(s, next, hi) = SubSeq(s, lo, hi)
<1>1. PICK x, y, z : x = SubSeq(s, lo, m) /\ y = SubSeq(s, next, hi) /\ z = SubSeq(s, lo, hi)
  OBVIOUS
<1>2. /\ x \in Seq(Int) /\ Len(x) = m - lo + 1
      /\ \A k \in 1 .. m - lo + 1 : x[k] = s[lo + k - 1]
  <2>1. m <= Len(s)
    OBVIOUS
  <2> QED
    BY <1>1, <2>1, Part
<1>3. /\ y \in Seq(Int) /\ Len(y) = hi - m
      /\ \A k \in 1 .. hi - m : y[k] = s[m + k]
  <2>1. next \in Nat \ {0} /\ next <= hi + 1
    OBVIOUS
  <2>2. /\ y \in Seq(Int) /\ Len(y) = hi - next + 1
        /\ \A k \in 1 .. hi - next + 1 : y[k] = s[next + k - 1]
    BY <1>1, <2>1, Part
  <2>3. hi - next + 1 = hi - m /\ \A k \in Nat : next + k - 1 = m + k
    OBVIOUS
  <2> QED
    BY <2>2, <2>3
<1>4. /\ z \in Seq(Int) /\ Len(z) = hi - lo + 1
      /\ \A k \in 1 .. hi - lo + 1 : z[k] = s[lo + k - 1]
  <2>1. lo <= hi + 1
    OBVIOUS
  <2> QED
    BY <1>1, <2>1, Part
<1>5. PICK w : w = x \o y
  OBVIOUS
<1>6. /\ w \in Seq(Int) /\ Len(w) = Len(x) + Len(y)
      /\ \A k \in 1 .. Len(x) + Len(y) : w[k] = IF k <= Len(x) THEN x[k] ELSE y[k - Len(x)]
  <2>1. x \in Seq(Int) /\ y \in Seq(Int)
    BY <1>2, <1>3, Zenon
  <2> QED
    BY <1>5, <2>1, ConcatProperties, Zenon
<1>7. ASSUME NEW k \in 1 .. hi - lo + 1 PROVE w[k] = z[k]
  <2>1. z[k] = s[lo + k - 1] /\ k \in 1 .. Len(x) + Len(y)
    BY <1>2, <1>3, <1>4
  <2>2. CASE k <= m - lo + 1
    <3>1. k \in 1 .. m - lo + 1 /\ k <= Len(x)
      BY <1>2, <2>2
    <3> QED
      BY <1>2, <1>6, <2>1, <3>1
  <2>3. CASE ~(k <= m - lo + 1)
    <3>1. k - (m - lo + 1) \in 1 .. hi - m /\ ~(k <= Len(x)) /\ m + (k - (m - lo + 1)) = lo + k - 1
      BY <1>2, <2>3
    <3>2. y[k - (m - lo + 1)] = s[m + (k - (m - lo + 1))]
      BY <1>3, <3>1
    <3>3. w[k] = y[k - (m - lo + 1)]
      BY <1>2, <1>6, <2>1, <3>1
    <3> QED
      BY <2>1, <3>1, <3>2, <3>3
  <2> QED
    BY <2>2, <2>3
<1>8. Len(w) = Len(z)
  <2>1. Len(x) = m - lo + 1 /\ Len(y) = hi - m /\ Len(w) = Len(x) + Len(y)
    BY <1>2, <1>3, <1>6, Zenon
  <2>2. m - lo + 1 + (hi - m) = hi - lo + 1
    OBVIOUS
  <2> QED
    BY <1>4, <2>1, <2>2, Zenon
<1>9. w = z
  BY <1>4, <1>6, <1>7, <1>8, SameElements
<1> QED
  BY <1>1, <1>5, <1>9

\* get_protocol stops at the colon.
LEMMA ProtocolPart ==
    ASSUME NEW url \in Seq(Int), NEW a, NEW b, NEW c, UrlParts(url, a, b, c)
    PROVE  Protocol(url) = SubSeq(url, 1, a) /\ HostBegin(url) = a + 3
<1>1. /\ a \in Nat /\ a + 3 <= Len(url) /\ Len(url) \in Nat
      /\ \A k \in 1 .. a : url[k] # COLON
      /\ url[a + 1] = COLON
  BY DEF UrlParts
<1> DEFINE Stops(j) == j = Len(url) \/ url[j + 1] = COLON
           Clear(j) == \A k \in 0 + 1 .. j : ~(url[k] = COLON)
<1>2. a \in 0 .. Len(url) /\ Stops(a) /\ Clear(a)
  BY <1>1
<1>3. ASSUME NEW j \in 0 .. Len(url), Stops(j), Clear(j) PROVE j = a
  <2>1. ~(j < a)
    <3>1. j < a => j + 1 \in 1 .. a /\ j # Len(url)
      BY <1>1
    <3> QED
      BY <1>1, <1>3, <3>1
  <2>2. ~(a < j)
    <3>1. a < j => a + 1 \in 0 + 1 .. j
      BY <1>1
    <3> QED
      BY <1>1, <1>3, <3>1
  <2> QED
    BY <1>1, <2>1, <2>2
<1>4. Skip(url, 0, LAMBDA d : d = COLON) = CHOOSE j \in 0 .. Len(url) : Stops(j) /\ Clear(j)
  BY DEF Skip
<1> HIDE DEF Stops, Clear
<1>5. (CHOOSE j \in 0 .. Len(url) : Stops(j) /\ Clear(j)) = a
  BY <1>2, <1>3
<1>6. Protocol(url) = SubSeq(url, 1, a)
  BY <1>4, <1>5, Zenon DEF Protocol
<1>7. Len(SubSeq(url, 1, a)) = a
  <2>1. a <= Len(url) /\ 1 \in Nat \ {0} /\ 1 <= a + 1 /\ a - 1 + 1 = a
    BY <1>1
  <2> QED
    BY <1>1, <2>1, Part
<1> QED
  BY <1>6, <1>7 DEF HostBegin

\* get_host goes on to the next slash or colon.
LEMMA HostPart ==
    ASSUME NEW url \in Seq(Int), NEW a, NEW b, NEW c, UrlParts(url, a, b, c)
    PROVE  Host(url) = SubSeq(url, a + 4, b) /\ Len(Host(url)) = b - (a + 3)
<1>1. /\ a \in Nat /\ b \in Nat /\ a + 3 <= b /\ b <= Len(url) /\ Len(url) \in Nat
      /\ \A k \in a + 4 .. b : url[k] \notin {SLASH, COLON}
      /\ b < Len(url) => url[b + 1] \in {SLASH, COLON}
  BY DEF UrlParts
<1>2. PICK h \in Nat : h = a + 3 /\ HostBegin(url) = h
  BY <1>1, ProtocolPart
<1> DEFINE Stops(j) == j = Len(url) \/ url[j + 1] \in {SLASH, COLON}
           Clear(j) == \A k \in h + 1 .. j : ~(url[k] \in {SLASH, COLON})
<1>3. b \in h .. Len(url) /\ Stops(b) /\ Clear(b)
  BY <1>1, <1>2
<1>4. ASSUME NEW j \in h .. Len(url), Stops(j), Clear(j) PROVE j = b
  <2>1. ~(j < b)
    <3>1. j < b => j + 1 \in a + 4 .. b /\ j # Len(url)
      BY <1>1, <1>2
    <3> QED
      BY <1>1, <1>4, <3>1
  <2>2. ~(b < j)
    <3>1. b < j => b + 1 \in h + 1 .. j /\ b < Len(url)
      BY <1>1, <1>2
    <3> QED
      BY <1>1, <1>4, <3>1
  <2> QED
    BY <1>1, <2>1, <2>2
<1>5. Skip(url, h, LAMBDA d : d \in {SLASH, COLON}) = CHOOSE j \in h .. Len(url) : Stops(j) /\ Clear(j)
  BY DEF Skip
<1> HIDE DEF Stops, Clear
<1>6. (CHOOSE j \in h .. Len(url) : Stops(j) /\ Clear(j)) = b
  BY <1>3, <1>4
<1>7. Host(url) = SubSeq(url, h + 1, b)
  BY <1>2, <1>5, <1>6, Zenon DEF Host
<1>8. h + 1 = a + 4
  BY <1>1, <1>2
<1>9. Len(SubSeq(url, h + 1, b)) = b - h
  <2>1. b <= Len(url) /\ h + 1 \in Nat \ {0} /\ h + 1 <= b + 1 /\ b - (h + 1) + 1 = b - h
    BY <1>1, <1>2
  <2>2. Len(SubSeq(url, h + 1, b)) = b - (h + 1) + 1
    BY <1>1, <2>1, Part
  <2> QED
    BY <2>1, <2>2
<1> QED
  BY <1>2, <1>7, <1>8, <1>9

\* get_port takes the digits behind the colon, if there is one.
LEMMA PortPart ==
    ASSUME NEW url \in Seq(Int), NEW a, NEW b, NEW c, UrlParts(url, a, b, c)
    PROVE  /\ b = c => Port(url) = <<>>
           /\ b # c => Port(url) = SubSeq(url, b + 2, c) /\ Port(url) # <<>>
<1>1. /\ a \in Nat /\ b \in Nat /\ c \in Nat /\ b <= c /\ c <= Len(url) /\ Len(url) \in Nat
      /\ c < Len(url) => url[c + 1] = SLASH
      /\ b # c => c >= b + 2 /\ url[b + 1] = COLON /\ \A k \in b + 2 .. c : IsDigit(url[k])
  BY DEF UrlParts
<1>2. HostBegin(url) + Len(Host(url)) = b
  BY <1>1, ProtocolPart, HostPart
<1>3. Port(url) = IF b < Len(url) /\ url[b + 1] = COLON
                  THEN SubSeq(url, b + 2, Skip(url, b + 1, LAMBDA d : ~IsDigit(d)))
                  ELSE <<>>
  BY <1>2 DEF Port
<1>4. CASE b = c
  <2>1. ~(b < Len(url) /\ url[b + 1] = COLON)
    <3>1. b < Len(url) => url[b + 1] = SLASH
      BY <1>1, <1>4
    <3>2. SLASH # COLON
      BY DEF SLASH, COLON
    <3> QED
      BY <3>1, <3>2
  <2> QED
    BY <1>3, <1>4, <2>1
<1>5. CASE b # c
  <2> DEFINE Stops(j) == j = Len(url) \/ ~IsDigit(url[j + 1])
             Clear(j) == \A k \in b + 1 + 1 .. j : ~(~IsDigit(url[k]))
  <2>1. c < Len(url) => ~IsDigit(url[c + 1])
    <3>1. ~IsDigit(SLASH)
      BY DEF SLASH, IsDigit
    <3> QED
      BY <1>1, <3>1
  <2>2. c \in b + 1 .. Len(url) /\ Stops(c) /\ Clear(c)
    BY <1>1, <1>5, <2>1
  <2>3. ASSUME NEW j \in b + 1 .. Len(url), Stops(j), Clear(j) PROVE j = c
    <3>1. ~(j < c)
      <4>1. j < c => j + 1 \in b + 2 .. c /\ j # Len(url)
        BY <1>1, <1>5
      <4> QED
        BY <1>1, <1>5, <2>3, <4>1
    <3>2. ~(c < j)
      <4>1. c < j => c + 1 \in b + 1 + 1 .. j /\ c < Len(url)
        BY <1>1, <1>5
      <4> QED
        BY <2>1, <2>3, <4>1
    <3> QED
      BY <1>1, <3>1, <3>2
  <2>4. Skip(url, b + 1, LAMBDA d : ~IsDigit(d)) =
          CHOOSE j \in b + 1 .. Len(url) : Stops(j) /\ Clear(j)
    BY DEF Skip
  <2> HIDE DEF Stops, Clear
  <2>5. (CHOOSE j \in b + 1 .. Len(url) : Stops(j) /\ Clear(j)) = c
    BY <2>2, <2>3
  <2>6. b < Len(url) /\ url[b + 1] = COLON
    BY <1>1, <1>5
  <2>7. Port(url) = SubSeq(url, b + 2, c)
    BY <1>3, <2>4, <2>5, <2>6, Zenon
  <2>8. Len(SubSeq(url, b + 2, c)) # 0
    <3>1. b + 2 \in Nat \ {0} /\ b + 2 <= c + 1 /\ c - (b + 2) + 1 # 0
      BY <1>1, <1>5
    <3>2. Len(SubSeq(url, b + 2, c)) = c - (b + 2) + 1
      BY <1>1, <3>1, Part
    <3> QED
      BY <3>1, <3>2
  <2>9. Port(url) # <<>>
    <3>1. Len(<<>>) = 0
      OBVIOUS
    <3> QED
      BY <2>7, <2>8, <3>1, Zenon
  <2> QED
    BY <1>5, <2>7, <2>9
<1> QED
  BY <1>4, <1>5

\* The digits are a sequence.
LEMMA PortType ==
    ASSUME NEW url \in Seq(Int), NEW a, NEW b, NEW c, UrlParts(url, a, b, c), b # c
    PROVE  Port(url) \in Seq(Int)
<1>1. /\ b \in Nat /\ c \in Nat /\ c <= Len(url) /\ c >= b + 2 /\ Port(url) = SubSeq(url, b + 2, c)
  <2>1. b \in Nat /\ c \in Nat /\ c <= Len(url) /\ c >= b + 2
    BY DEF UrlParts
  <2>2. Port(url) = SubSeq(url, b + 2, c)
    BY PortPart
  <2> QED
    BY <2>1, <2>2
<1>2. PICK lo \in Nat \ {0} : lo = b + 2 /\ lo <= c + 1
  <2>1. b + 2 \in Nat \ {0} /\ b + 2 <= c + 1
    BY <1>1
  <2> QED
    BY <2>1
<1> QED
  BY <1>1, <1>2, Part

\* Protocol, host and port, put together again, are the URL up to its path.
Joins(url, b, c) ==
    /\ SubSeq(url, 1, b) = Protocol(url) \o <<COLON, SLASH, SLASH>> \o Host(url)
    /\ b # c => SubSeq(url, 1, c) =
          Protocol(url) \o <<COLON, SLASH, SLASH>> \o Host(url) \o (<<COLON>> \o Port(url))

LEMMA UrlJoined ==
    ASSUME NEW url \in Seq(Int), NEW a, NEW b, NEW c, UrlParts(url, a, b, c)
    PROVE  Joins(url, b, c)
<1>1. /\ a \in Nat /\ b \in Nat /\ c \in Nat /\ a + 3 <= b /\ b <= c /\ c <= Len(url)
      /\ Len(url) \in Nat
      /\ url[a + 1] = COLON /\ url[a + 2] = SLASH /\ url[a + 3] = SLASH
      /\ b # c => c >= b + 2 /\ url[b + 1] = COLON
  BY DEF UrlParts
<1>2. SubSeq(url, a + 1, a + 3) = <<COLON, SLASH, SLASH>>
  <2>1. PICK lo \in Nat \ {0}, hi \in Nat : lo = a + 1 /\ hi = a + 3
    <3>1. a + 1 \in Nat \ {0} /\ a + 3 \in Nat
      BY <1>1
    <3> QED
      BY <3>1
  <2>2. /\ hi <= Len(url) /\ lo <= hi + 1 /\ hi - lo + 1 = 3
        /\ lo + 1 - 1 = a + 1 /\ lo + 2 - 1 = a + 2 /\ lo + 3 - 1 = a + 3
    BY <1>1, <2>1
  <2>3. PICK x : x = SubSeq(url, lo, hi)
    OBVIOUS
  <2>4. x \in Seq(Int) /\ Len(x) = 3 /\ x[1] = COLON /\ x[2] = SLASH /\ x[3] = SLASH
    <3>1. /\ x \in Seq(Int) /\ Len(x) = hi - lo + 1
          /\ \A k \in 1 .. hi - lo + 1 : x[k] = url[lo + k - 1]
      BY <2>2, <2>3, Part
    <3>2. x \in Seq(Int) /\ Len(x) = 3 /\ \A k \in 1 .. 3 : x[k] = url[lo + k - 1]
      BY <2>2, <3>1, Zenon
    <3>3. 1 \in 1 .. 3 /\ 2 \in 1 .. 3 /\ 3 \in 1 .. 3
      OBVIOUS
    <3>4. x[1] = url[lo + 1 - 1] /\ x[2] = url[lo + 2 - 1] /\ x[3] = url[lo + 3 - 1]
      BY <3>2, <3>3, Zenon
    <3> QED
      BY <1>1, <2>2, <3>2, <3>4, Zenon
  <2>5. PICK y : y = <<COLON, SLASH, SLASH>>
    OBVIOUS
  <2>6. y \in Seq(Int) /\ Len(y) = 3 /\ y[1] = COLON /\ y[2] = SLASH /\ y[3] = SLASH
    BY <2>5 DEF COLON, SLASH
  <2>7. \A k \in 1 .. Len(x) : x[k] = y[k]
    BY <2>4, <2>6
  <2>8. x = y
    BY <2>4, <2>6, <2>7, SameElements
  <2> QED
    BY <2>1, <2>3, <2>5, <2>8, Zenon
<1>3. Protocol(url) = SubSeq(url, 1, a) /\ Host(url) = SubSeq(url, a + 4, b)
  BY ProtocolPart, HostPart
<1>4. SubSeq(url, 1, a) \o SubSeq(url, a + 1, a + 3) = SubSeq(url, 1, a + 3)
  <2>1. PICK lo \in Nat \ {0}, m \in Nat, hi \in Nat, next \in Nat :
          lo = 1 /\ m = a /\ hi = a + 3 /\ next = a + 1
    <3>1. 1 \in Nat \ {0} /\ a \in Nat /\ a + 3 \in Nat /\ a + 1 \in Nat
      BY <1>1
    <3> QED
      BY <3>1
  <2>2. hi <= Len(url) /\ lo <= m + 1 /\ m <= hi /\ next = m + 1
    BY <1>1, <2>1
  <2>3. SubSeq(url, lo, m) \o SubSeq(url, next, hi) = SubSeq(url, lo, hi)
    BY <2>2, Joined
  <2> QED
    BY <2>1, <2>3, Zenon
<1>5. SubSeq(url, 1, a + 3) \o SubSeq(url, a + 4, b) = SubSeq(url, 1, b)
  <2>1. PICK lo \in Nat \ {0}, m \in Nat, hi \in Nat, next \in Nat :
          lo = 1 /\ m = a + 3 /\ hi = b /\ next = a + 4
    <3>1. 1 \in Nat \ {0} /\ a + 3 \in Nat /\ b \in Nat /\ a + 4 \in Nat
      BY <1>1
    <3> QED
      BY <3>1
  <2>2. hi <= Len(url) /\ lo <= m + 1 /\ m <= hi /\ next = m + 1
    BY <1>1, <2>1
  <2>3. SubSeq(url, lo, m) \o SubSeq(url, next, hi) = SubSeq(url, lo, hi)
    BY <2>2, Joined
  <2> QED
    BY <2>1, <2>3, Zenon
<1>6. SubSeq(url, 1, b) = Protocol(url) \o <<COLON, SLASH, SLASH>> \o Host(url)
  BY <1>2, <1>3, <1>4, <1>5, Zenon
<1>7. ASSUME b # c PROVE SubSeq(url, 1, c) = SubSeq(url, 1, b) \o (<<COLON>> \o Port(url))
  <2>1. SubSeq(url, b + 1, b + 1) = <<COLON>>
    <3>1. b + 1 \in Nat \ {0} /\ b + 1 <= Len(url) /\ b + 1 <= b + 1 + 1 /\ url[b + 1] = COLON
      BY <1>1, <1>7
    <3>2. PICK x : x = SubSeq(url, b + 1, b + 1)
      OBVIOUS
    <3>3. PICK lo \in Nat \ {0} : lo = b + 1
      BY <3>1
    <3>4. /\ x \in Seq(Int) /\ Len(x) = lo - lo + 1
          /\ \A k \in 1 .. lo - lo + 1 : x[k] = url[lo + k - 1]
      <4>1. lo <= Len(url) /\ lo <= lo + 1 /\ lo \in Nat /\ x = SubSeq(url, lo, lo)
        BY <3>1, <3>2, <3>3
      <4> QED
        BY <4>1, Part
    <3>5. lo - lo + 1 = 1 /\ lo + 1 - 1 = lo
      OBVIOUS
    <3>6. Len(x) = 1 /\ x[1] = COLON
      <4>1. x[1] = url[lo + 1 - 1]
        BY <3>4, <3>5
      <4> QED
        BY <3>1, <3>3, <3>4, <3>5, <4>1, Zenon
    <3>7. PICK y : y = <<COLON>>
      OBVIOUS
    <3>8. y \in Seq(Int) /\ Len(y) = 1 /\ y[1] = COLON
      BY <3>7 DEF COLON
    <3>9. \A k \in 1 .. Len(x) : x[k] = y[k]
      BY <3>6, <3>8
    <3> QED
      BY <3>2, <3>4, <3>6, <3>7, <3>8, <3>9, SameElements
  <2>2. Port(url) = SubSeq(url, b + 2, c)
    BY <1>7, PortPart
  <2>3. SubSeq(url, b + 1, b + 1) \o SubSeq(url, b + 2, c) = SubSeq(url, b + 1, c)
    <3>1. PICK lo \in Nat \ {0}, m \in Nat, hi \in Nat, next \in Nat :
            lo = b + 1 /\ m = b + 1 /\ hi = c /\ next = b + 2
      <4>1. b + 1 \in Nat \ {0} /\ c \in Nat /\ b + 2 \in Nat
        BY <1>1
      <4> QED
        BY <4>1
    <3>2. hi <= Len(url) /\ lo <= m + 1 /\ m <= hi /\ next = m + 1
      BY <1>1, <1>7, <3>1
    <3>3. SubSeq(url, lo, m) \o SubSeq(url, next, hi) = SubSeq(url, lo, hi)
      BY <3>2, Joined
    <3> QED
      BY <3>1, <3>3, Zenon
  <2>4. SubSeq(url, 1, b) \o SubSeq(url, b + 1, c) = SubSeq(url, 1, c)
    <3>1. PICK lo \in Nat \ {0}, m \in Nat, hi \in Nat, next \in Nat :
            lo = 1 /\ m = b /\ hi = c /\ next = b + 1
      <4>1. 1 \in Nat \ {0} /\ b \in Nat /\ c \in Nat /\ b + 1 \in Nat
        BY <1>1
      <4> QED
        BY <4>1
    <3>2. hi <= Len(url) /\ lo <= m + 1 /\ m <= hi /\ next = m + 1
      BY <1>1, <3>1
    <3>3. SubSeq(url, lo, m) \o SubSeq(url, next, hi) = SubSeq(url, lo, hi)
      BY <3>2, Joined
    <3> QED
      BY <3>1, <3>3, Zenon
  <2> QED
    BY <2>1, <2>2, <2>3, <2>4, Zenon
<1> QED
  BY <1>6, <1>7, Zenon DEF Joins

-----------------------------------------------------------------------------
(* What the client works with.                                             *)

\* The decoder is right about whole files whose numbers are long longs, or gives up.
DecodesTorrents == \A doc \in Torrents : Fits(doc) => Decodes(doc, Encoded(doc))

\* The file is what its author wrote, and has no number that is no long long.
Sound == Whole /\ Fits(torrent)

MetaRight ==
    /\ meta.announce = Url
    /\ meta.pieces = Field(Field(torrent, info), piecesKey).str
    /\ meta.pieceLength = Field(Field(torrent, info), pieceLength).int

TrackerRight ==
    /\ tracker = [host |-> Host(Url), port |-> PortToUse(Url)]
    /\ ~(HostBegin(Url) > Len(Url)) /\ Protocol(Url) # udp

\* What was read stays, and the tracker is what was made of it.
FollowInv ==
    /\ pc \in {"connect", "answer", "peers"} /\ Sound => MetaRight
    /\ tracker # None /\ Sound => MetaRight /\ TrackerRight

LEMMA MetaRead ==
    ASSUME HashInv, DecodesTorrents, Sound, Decoded(file, 0).out = "ok",
           NEW m, m = [announce |-> Decoded(file, 0).node.dict[announce].str,
                       hash |-> SHA1(InfoSpan(file)),
                       pieceLength |-> Decoded(file, 0).node.dict[info].dict[pieceLength].int,
                       pieces |-> Decoded(file, 0).node.dict[info].dict[piecesKey].str]
    PROVE  /\ m.announce = Url
           /\ m.pieces = Field(Field(torrent, info), piecesKey).str
           /\ m.pieceLength = Field(Field(torrent, info), pieceLength).int
<1>1. torrent \in Torrents /\ file = Encoded(torrent)
  BY DEF HashInv, Whole, Sound
<1>2. Decoded(file, 0).node = NodeOf(torrent)
  BY <1>1 DEF DecodesTorrents, Decodes, Sound
<1>3. /\ NodeOf(torrent).dict[announce] = Field(torrent, announce)
      /\ NodeOf(torrent).dict[info].dict[pieceLength] = Field(Field(torrent, info), pieceLength)
      /\ NodeOf(torrent).dict[info].dict[piecesKey] = Field(Field(torrent, info), piecesKey)
  BY <1>1, NodeAssumption
<1>4. /\ m.announce = Decoded(file, 0).node.dict[announce].str
      /\ m.pieceLength = Decoded(file, 0).node.dict[info].dict[pieceLength].int
      /\ m.pieces = Decoded(file, 0).node.dict[info].dict[piecesKey].str
  OBVIOUS
<1> QED
  BY <1>2, <1>3, <1>4, Zenon DEF Url

LEMMA NextFollow ==
    ASSUME NEW N, AreNodes(N), DecoderOK(N), DecodesTorrents, HashInv, FollowInv, [Next]_vars
    PROVE  FollowInv'
<1>1. CASE InitTorrentData
  <2>1. file' = file /\ torrent' = torrent /\ tracker' = tracker /\ pc = "read"
    BY <1>1 DEF InitTorrentData
  <2>2. Sound' = Sound /\ TrackerRight' = TrackerRight
    BY <2>1 DEF Sound, Whole, TrackerRight, Url
  <2>3. DecodedOut(Decoded(file, 0)) \in Outs
    BY DecodedOuts DEF HashInv
  <2>4. \/ meta' = meta /\ pc' \notin {"connect", "answer", "peers"}
        \/ /\ Decoded(file, 0).out = "ok"
           /\ meta' = [announce |-> Decoded(file, 0).node.dict[announce].str,
                       hash |-> SHA1(InfoSpan(file)),
                       pieceLength |-> Decoded(file, 0).node.dict[info].dict[pieceLength].int,
                       pieces |-> Decoded(file, 0).node.dict[info].dict[piecesKey].str]
    <3>1. CASE FindPattern(file, InfoPattern) = -1
      BY <1>1, <3>1 DEF InitTorrentData
    <3>2. CASE FindPattern(file, InfoPattern) # -1 /\ DecodedOut(Decoded(file, 0)) # "ok"
      <4>1. pc' = DecodedOut(Decoded(file, 0)) /\ meta' = meta
        BY <1>1, <3>2 DEF InitTorrentData
      <4> QED
        BY <2>3, <3>2, <4>1 DEF Outs, Ends
    <3>3. CASE FindPattern(file, InfoPattern) # -1 /\ DecodedOut(Decoded(file, 0)) = "ok"
      <4>1. Decoded(file, 0).out = "ok"
        BY <3>3 DEF DecodedOut
      <4> QED
        BY <1>1, <3>3, <4>1 DEF InitTorrentData
    <3> QED
      BY <3>1, <3>2, <3>3
  <2>5. CASE meta' = meta /\ pc' \notin {"connect", "answer", "peers"}
    <3>1. MetaRight' = MetaRight
      BY <2>1, <2>5 DEF MetaRight, Url
    <3> QED
      BY <2>1, <2>2, <2>5, <3>1 DEF FollowInv, None
  <2>6. CASE /\ Decoded(file, 0).out = "ok"
             /\ meta' = [announce |-> Decoded(file, 0).node.dict[announce].str,
                         hash |-> SHA1(InfoSpan(file)),
                         pieceLength |-> Decoded(file, 0).node.dict[info].dict[pieceLength].int,
                         pieces |-> Decoded(file, 0).node.dict[info].dict[piecesKey].str]
    <3>1. Sound => MetaRight'
      <4> SUFFICES ASSUME Sound PROVE MetaRight'
        OBVIOUS
      <4>1. /\ meta'.announce = Url
            /\ meta'.pieces = Field(Field(torrent, info), piecesKey).str
            /\ meta'.pieceLength = Field(Field(torrent, info), pieceLength).int
        BY <2>6, MetaRead
      <4> QED
        BY <2>1, <4>1 DEF MetaRight, Url
    <3> QED
      BY <2>1, <2>2, <3>1 DEF FollowInv, None
  <2> QED
    BY <2>4, <2>5, <2>6
<1>2. CASE Connect
  <2>1. file' = file /\ torrent' = torrent /\ meta' = meta /\ pc = "connect"
    BY <1>2 DEF Connect
  <2>2. Sound' = Sound /\ MetaRight' = MetaRight
    BY <2>1 DEF Sound, Whole, MetaRight, Url
  <2>3. Sound => MetaRight
    BY <2>1 DEF FollowInv
  <2>4. tracker' # None /\ Sound => TrackerRight'
    <3>1. CASE HostBegin(meta.announce) > Len(meta.announce) \/ Protocol(meta.announce) = udp
      <4>1. tracker' = tracker
        BY <1>2, <3>1 DEF Connect
      <4>2. TrackerRight' = TrackerRight
        BY <2>1, <4>1 DEF TrackerRight, Url
      <4> QED
        BY <4>1, <4>2 DEF FollowInv
    <3>2. CASE ~(HostBegin(meta.announce) > Len(meta.announce)) /\ Protocol(meta.announce) # udp
      <4>1. tracker' = [host |-> Host(meta.announce), port |-> PortToUse(meta.announce)]
        BY <1>2, <3>2 DEF Connect
      <4>2. Sound => meta.announce = Url
        BY <2>3 DEF MetaRight
      <4> QED
        BY <2>1, <3>2, <4>1, <4>2 DEF TrackerRight, Url
    <3> QED
      BY <3>1, <3>2
  <2> QED
    BY <2>2, <2>3, <2>4 DEF FollowInv, None
<1>3. CASE Recv \/ SetupPeers \/ Start
  <2>1. /\ file' = file /\ torrent' = torrent /\ meta' = meta /\ tracker' = tracker
        /\ pc \in {"answer", "peers"} \/ pc' \in {"throw", "running"}
    BY <1>3 DEF Recv, SetupPeers, Start
  <2>2. Sound' = Sound /\ MetaRight' = MetaRight /\ TrackerRight' = TrackerRight
    BY <2>1 DEF Sound, Whole, MetaRight, TrackerRight, Url
  <2> QED
    BY <2>1, <2>2 DEF FollowInv, None
<1>4. CASE UNCHANGED vars
  <2>1. /\ file' = file /\ torrent' = torrent /\ meta' = meta /\ tracker' = tracker /\ pc' = pc
    BY <1>4 DEF vars
  <2>2. Sound' = Sound /\ MetaRight' = MetaRight /\ TrackerRight' = TrackerRight
    BY <2>1 DEF Sound, Whole, MetaRight, TrackerRight, Url
  <2> QED
    BY <2>1, <2>2 DEF FollowInv, None
<1> QED
  BY <1>1, <1>2, <1>3, <1>4 DEF Next

\* host and port are the ones that stand in the URL; for the port left out, 443 if
\* the protocol is https, and none otherwise.
Follows(url, host, used) ==
    \E slash \in DOMAIN url \cup {Len(url) + 1}, port \in {<<>>, <<COLON>> \o used} :
        /\ SubSeq(url, 1, slash - 1) = Protocol(url) \o <<COLON, SLASH, SLASH>> \o host \o port
        /\ slash \in DOMAIN url => url[slash] = SLASH
        /\ port = <<>> => used = IF Protocol(url) = https THEN <<52, 52, 51>> ELSE <<>>

LEMMA UrlFollowed ==
    ASSUME NEW doc \in Torrents, LegalUrl(doc), NEW url, url = Field(doc, announce).str,
           ~(HostBegin(url) > Len(url)), Protocol(url) # udp, NEW host, host = Host(url), NEW used, used = PortToUse(url)
    PROVE  Follows(url, host, used)
<1>1. url \in Seq(Int)
  BY DEF LegalUrl
<1>2. PICK a, b, c \in 0 .. Len(url) : UrlParts(url, a, b, c)
  BY DEF LegalUrl
<1>3. /\ c \in Nat /\ Len(url) \in Nat /\ c <= Len(url) /\ DOMAIN url = 1 .. Len(url)
      /\ c < Len(url) => url[c + 1] = SLASH
  <2>1. Len(url) \in Nat /\ DOMAIN url = 1 .. Len(url)
    BY <1>1
  <2>2. c \in Nat /\ c <= Len(url)
    BY <2>1
  <2>3. /\ c < Len(url) => url[c + 1] = SLASH
      BY <1>2, Zenon DEF UrlParts
  <2> QED
    BY <2>1, <2>2, <2>3
<1>4. PICK slash : slash = c + 1
  OBVIOUS
<1>5. /\ slash \in DOMAIN url \cup {Len(url) + 1} /\ slash - 1 = c
      /\ slash \in DOMAIN url => url[slash] = SLASH
  BY <1>3, <1>4
<1>6. PICK whole : whole = Protocol(url) \o <<COLON, SLASH, SLASH>> \o host
  OBVIOUS
<1>7. /\ SubSeq(url, 1, b) = whole
      /\ b # c => SubSeq(url, 1, c) = whole \o (<<COLON>> \o Port(url))
  <2>1. Joins(url, b, c)
    BY <1>1, <1>2, UrlJoined
  <2> QED
    BY <1>6, <2>1, Zenon DEF Joins
<1>8. /\ b = c => Port(url) = <<>>
      /\ b # c => Port(url) # <<>>
  BY <1>1, <1>2, PortPart
<1>9. CASE b = c
  <2>1. used = IF Protocol(url) = https THEN <<52, 52, 51>> ELSE <<>>
    BY <1>8, <1>9, Zenon DEF PortToUse
  <2>2. whole \o <<>> = whole
    <3>1. whole \in Seq(Int)
      BY <1>1, <1>2, <1>3, <1>7, <1>9, Part
    <3> QED
      BY <3>1, ConcatEmptySeq
  <2>3. SubSeq(url, 1, slash - 1) = Protocol(url) \o <<COLON, SLASH, SLASH>> \o host \o <<>>
    BY <1>5, <1>6, <1>7, <1>9, <2>2, Zenon
  <2> QED
    BY <1>5, <2>1, <2>3, Zenon DEF Follows
<1>10. CASE b # c
  <2>1. used = Port(url)
    BY <1>8, <1>10 DEF PortToUse
  <2>2. PICK port : port = <<COLON>> \o used
    OBVIOUS
  <2>3. SubSeq(url, 1, slash - 1) = Protocol(url) \o <<COLON, SLASH, SLASH>> \o host \o port
    BY <1>5, <1>6, <1>7, <1>10, <2>1, <2>2, Zenon
  <2>4. port # <<>>
    <3>1. used \in Seq(Int)
      BY <1>1, <1>2, <1>10, <2>1, PortType
    <3>2. Len(port) = 1 + Len(used) /\ Len(used) \in Nat
      BY <2>2, <3>1 DEF COLON
    <3> QED
      BY <3>2
  <2> QED
    BY <1>5, <2>2, <2>3, <2>4, Zenon DEF Follows
<1> QED
  BY <1>9, <1>10

\* The client works with the pieces, their length and the tracker that the author
\* of the file wrote, on port 443 when an https URL names none, if the decoder is
\* right about whole files whose numbers are long longs, whatever it makes of others,
\* and the URL is a legal one.
THEOREM TorrentFollowed ==
    ASSUME NEW N, AreNodes(N), DecoderOK(N), DecodesTorrents,
           \A doc \in Torrents : LegalUrl(doc)
    PROVE  Spec => []FollowsTorrent
<1>1. Init => HashInv /\ FollowInv
  <2>1. Init => FollowInv
    BY DEF Init, FollowInv
  <2> QED
    BY <2>1, InitHash
<1>2. HashInv /\ FollowInv /\ [Next]_vars => (HashInv /\ FollowInv)'
  BY NextHash, NextFollow
<1>3. HashInv /\ FollowInv => FollowsTorrent
  <2> SUFFICES ASSUME HashInv, FollowInv, tracker # None, Sound
               PROVE  /\ meta.pieces = Field(Field(torrent, info), piecesKey).str
                      /\ meta.pieceLength = Field(Field(torrent, info), pieceLength).int
                      /\ Follows(Url, tracker.host, tracker.port)
    BY DEF FollowsTorrent, Follows, Sound
  <2>1. MetaRight /\ TrackerRight /\ torrent \in Torrents
    BY DEF FollowInv, HashInv
  <2>2. LegalUrl(torrent)
    BY <2>1
  <2>3. /\ tracker.host = Host(Url) /\ tracker.port = PortToUse(Url)
        /\ ~(HostBegin(Url) > Len(Url)) /\ Protocol(Url) # udp
    BY <2>1 DEF TrackerRight
  <2>4. PICK url, host, used :
          /\ url = Field(torrent, announce).str /\ host = tracker.host /\ used = tracker.port
    OBVIOUS
  <2>5. Follows(url, host, used)
    BY <2>1, <2>2, <2>3, <2>4, UrlFollowed DEF Url
  <2> QED
    BY <2>1, <2>4, <2>5, Zenon DEF MetaRight, Url
<1> QED
  BY <1>1, <1>2, <1>3, PTL DEF Spec
=============================================================================
