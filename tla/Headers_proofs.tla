--------------------------- MODULE Headers_proofs ---------------------------
(***************************************************************************)
(* Proofs about Headers: types; that the headers of each frame arrive as   *)
(* they were sent; and why a reader may give a block up.                   *)
(*                                                                         *)
(* The invariant says how the blocks lie in the stream: a block in an      *)
(* order of its names is the number of pairs and the pairs one after the   *)
(* other, the i-th from off[i - 1] to off[i].  The reader's statement then *)
(* determines its place in the block in hand, what the pairs so far have   *)
(* added to the headers, and what they have left of bounds.                *)
(***************************************************************************)
EXTENDS Headers, FiniteSetTheorems, SequenceTheorems, WellFoundedInduction, TLAPS

\* A set of numbers that is not empty has a least one.
LEMMA Least ==
  ASSUME NEW T \in SUBSET Nat, T # {}
  PROVE  \E m \in T : \A n \in T : m <= n
  <1> DEFINE R == {ss \in Nat \X Nat : ss[1] < ss[2]}
  <1>1. IsWellFoundedOn(R, Nat)
    BY NatLessThanWellFounded, Zenon DEF OpToRel
  <1>2. PICK m \in T : \A n \in T : ~ (<<n, m>> \in R)
    <2> HIDE DEF R
    <2> QED BY <1>1, WFMin
  <1>3. \A n \in T : ~(n < m)
    BY <1>2
  <1> QED BY <1>3

\* Induction over a set of numbers, which needs no operator.
LEMMA Induction ==
  ASSUME NEW S, 0 \in S, \A n \in Nat : n \in S => n + 1 \in S
  PROVE  Nat \subseteq S
  <1> DEFINE T == Nat \ S
  <1> SUFFICES ASSUME T # {} PROVE FALSE
    OBVIOUS
  <1>1. PICK m \in T : \A n \in T : m <= n
    BY Least
  <1>2. m # 0 /\ m - 1 \in Nat /\ m - 1 \in S
    BY <1>1
  <1> QED BY <1>2

\* Quotient and remainder.
LEMMA Division ==
  ASSUME NEW a \in Nat, NEW b \in Nat, b > 0
  PROVE  /\ a \div b \in Nat /\ a % b \in Nat /\ a % b < b
         /\ a = (a \div b) * b + (a % b)
  <1>1. /\ a \div b \in Nat /\ a % b \in Nat /\ a % b < b
    OBVIOUS
  <1>2. a = b * (a \div b) + (a % b)
    OBVIOUS
  <1>3. \A x, y \in Nat : x * y = y * x
    OBVIOUS
  <1>4. b * (a \div b) = (a \div b) * b
    BY <1>1, <1>3
  <1> QED BY <1>1, <1>2, <1>4

\* The quotient of a number below m * b is below m.
LEMMA Digit ==
  ASSUME NEW n \in Nat, NEW m \in Nat, NEW b \in Nat, b > 0, n < m * b
  PROVE  n \div b < m
  <1>1. PICK q \in Nat, r \in Nat : q = n \div b /\ n = q * b + r /\ r < b
    BY Division
  <1> SUFFICES ASSUME q >= m PROVE FALSE
    BY <1>1
  <1>2. q * b >= m * b
    OBVIOUS
  <1> QED BY <1>1, <1>2

\* A digit put after a number below m gives one below m * b.
LEMMA Digits ==
  ASSUME NEW x \in Nat, NEW m \in Nat, x < m, NEW d \in Nat, NEW b \in Nat, d < b
  PROVE  x * b + d \in Nat /\ x * b + d < m * b
  <1>1. x + 1 <= m
    OBVIOUS
  <1>2. (x + 1) * b <= m * b
    BY <1>1
  <1>3. (x + 1) * b = x * b + b
    OBVIOUS
  <1>4. x * b \in Nat /\ m * b \in Nat
    OBVIOUS
  <1> QED BY <1>2, <1>3, <1>4


\* What the assumption gives of the constants.
LEMMA Constants ==
  /\ Base \in Nat /\ Base > 2 /\ Window \in Nat /\ Window > 0 /\ FirstRun \in Nat /\ FirstRun > 0
  /\ FirstRun <= Window /\ Bounds \in Nat /\ Bounds < Word - 1 /\ MaxBlocks \in Nat
  /\ Word \in Nat /\ Word > 0 /\ \A m \in 0 .. Word - 1 : m \in Nat /\ m < Word
  <1>1. Base \in Nat /\ Base > 2 /\ Window \in Nat /\ Window > 0 /\ FirstRun \in Nat /\ FirstRun > 0
        /\ FirstRun <= Window /\ MaxBlocks \in Nat
    BY HeadersAssumption DEF UpperA
  <1>2. Word \in Nat /\ Word > 0
    <2>1. \A x, y \in Nat : x > 0 /\ y > 0 => x * y \in Nat /\ x * y > 0
      OBVIOUS
    <2>2. Base * Base \in Nat /\ Base * Base > 0
      BY <1>1, <2>1
    <2>3. Base * Base * Base \in Nat /\ Base * Base * Base > 0
      BY <1>1, <2>1, <2>2
    <2> QED BY <1>1, <2>1, <2>3 DEF Word
  <1>3. Bounds \in 0 .. Word - 2
    BY HeadersAssumption
  <1> QED BY <1>1, <1>2, <1>3

\* What is read as an integer is one of 32 bits ...
LEMMA ValueType ==
  ASSUME NEW c, \A i \in 1 .. 4 : c[i] \in Bytes
  PROVE  Value32(c) \in 0 .. Word - 1
  <1>1. Base \in Nat /\ c[1] \in Nat /\ c[1] < Base /\ c[2] \in Nat /\ c[2] < Base
        /\ c[3] \in Nat /\ c[3] < Base /\ c[4] \in Nat /\ c[4] < Base
    BY Constants DEF Bytes
  <1>2. c[1] * Base + c[2] \in Nat /\ c[1] * Base + c[2] < Base * Base
    BY <1>1, Digits
  <1>3. Base * Base \in Nat
    BY <1>1
  <1>4. /\ (c[1] * Base + c[2]) * Base + c[3] \in Nat
        /\ (c[1] * Base + c[2]) * Base + c[3] < Base * Base * Base
    BY <1>1, <1>2, <1>3, Digits
  <1>5. Base * Base * Base \in Nat
    BY <1>1, <1>3
  <1>6. Value32(c) \in Nat /\ Value32(c) < Word
    BY <1>1, <1>4, <1>5, Digits DEF Value32, Word
  <1> QED BY <1>6, Constants

\* ... and is what was written as one.
LEMMA RoundTrip ==
  ASSUME NEW n \in Nat, n < Word
  PROVE  /\ Int32(n) \in Seq(Bytes) /\ Len(Int32(n)) = 4 /\ Value32(Int32(n)) = n
         /\ \A i \in 1 .. 4 : Int32(n)[i] \in Bytes
  <1>1. Base \in Nat /\ Base > 0 /\ Base * Base \in Nat /\ Base * Base * Base \in Nat
    <2>1. \A x, y \in Nat : x * y \in Nat
      OBVIOUS
    <2>2. Base \in Nat /\ Base > 0
      BY Constants
    <2>3. Base * Base \in Nat
      BY <2>1, <2>2
    <2> QED BY <2>1, <2>2, <2>3
  <1>2. PICK a \in Nat, w \in Nat : a = Shift(n) /\ w = n % Base /\ w < Base /\ n = a * Base + w
    BY <1>1, Division DEF Shift
  <1>3. PICK b \in Nat, x \in Nat : b = Shift(a) /\ x = a % Base /\ x < Base /\ a = b * Base + x
    BY <1>1, Division DEF Shift
  <1>4. PICK c \in Nat, y \in Nat : c = Shift(b) /\ y = b % Base /\ y < Base /\ b = c * Base + y
    BY <1>1, Division DEF Shift
  <1>5. a < Base * Base * Base
    BY <1>1, <1>2, Digit DEF Word, Shift
  <1>6. b < Base * Base
    BY <1>1, <1>3, <1>5, Digit DEF Shift
  <1>7. c < Base
    BY <1>1, <1>4, <1>6, Digit DEF Shift
  <1>8. c % Base = c
    BY <1>1, <1>7
  <1>9. Int32(n) = <<c, y, x, w>>
    BY <1>2, <1>3, <1>4, <1>8 DEF Int32
  <1>10. c \in Bytes /\ y \in Bytes /\ x \in Bytes /\ w \in Bytes
    BY <1>1, <1>2, <1>3, <1>4, <1>7 DEF Bytes
  <1>11. Value32(<<c, y, x, w>>) = n
    BY <1>2, <1>3, <1>4 DEF Value32
  <1>12. /\ <<c, y, x, w>> \in Seq(Bytes) /\ Len(<<c, y, x, w>>) = 4
         /\ \A i \in 1 .. 4 : <<c, y, x, w>>[i] \in Bytes
    BY <1>10
  <1> QED BY <1>9, <1>11, <1>12

\* What zlib has ready is something until the window ends.
LEMMA RunIsAhead ==
  ASSUME pos \in Nat
  PROVE  RunEnd \in Nat /\ RunEnd > pos
  <1>1. PICK n \in Nat : n = pos + Window - FirstRun
    BY Constants
  <1>2. PICK q \in Nat, r \in Nat : q = n \div Window /\ r < Window /\ n = q * Window + r
    BY <1>1, Constants, Division
  <1>3. RunEnd = FirstRun + q * Window
    BY <1>1, <1>2 DEF RunEnd
  <1>4. q * Window \in Nat
    BY Constants
  <1>5. PICK m \in Nat : m = q * Window
    BY <1>4
  <1>6. RunEnd = FirstRun + m /\ m + r = pos + Window - FirstRun
    BY <1>1, <1>2, <1>3, <1>5
  <1> QED BY <1>2, <1>6, Constants

Grows(f, P, k) == \A i \in 1 .. k : f[i] = IF i = 1 THEN P[i] ELSE f[i - 1] \o P[i]

\* A sequence of texts has its growing concatenations.
LEMMA Grown ==
  ASSUME NEW S, NEW P \in Seq(Seq(S))
  PROVE  \E f \in [1 .. Len(P) -> Seq(S)] : Grows(f, P, Len(P))
  <1> DEFINE K == {k \in Nat : k <= Len(P) => \E f \in [1 .. k -> Seq(S)] : Grows(f, P, k)}
  <1>1. Len(P) \in Nat /\ \A i \in 1 .. Len(P) : P[i] \in Seq(S)
    OBVIOUS
  <1>2. 0 \in K
    <2>1. [i \in 1 .. 0 |-> <<>>] \in [1 .. 0 -> Seq(S)] /\ Grows([i \in 1 .. 0 |-> <<>>], P, 0)
      BY DEF Grows
    <2> QED BY <2>1
  <1>3. ASSUME NEW k \in Nat, k \in K PROVE k + 1 \in K
    <2> SUFFICES ASSUME k + 1 <= Len(P)
                 PROVE  \E f \in [1 .. k + 1 -> Seq(S)] : Grows(f, P, k + 1)
      OBVIOUS
    <2>1. PICK f \in [1 .. k -> Seq(S)] : Grows(f, P, k)
      BY <1>1, <1>3
    <2>2. PICK last \in Seq(S) : last = IF k + 1 = 1 THEN P[k + 1] ELSE f[k] \o P[k + 1]
      <3>1. P[k + 1] \in Seq(S)
        BY <1>1
      <3>2. CASE k = 0
        BY <3>1, <3>2
      <3>3. CASE k > 0
        <4>1. f[k] \in Seq(S)
          BY <3>3
        <4>2. PICK u \in Seq(S), w \in Seq(S) : u = f[k] /\ w = P[k + 1]
          BY <3>1, <4>1
        <4>3. u \o w \in Seq(S)
          BY ConcatProperties
        <4>4. u \o w = IF k + 1 = 1 THEN P[k + 1] ELSE f[k] \o P[k + 1]
          <5>1. k + 1 # 1
            BY <3>3
          <5> QED BY <4>2, <5>1, Zenon
        <4> QED BY <4>3, <4>4, Zenon
      <3>4. k = 0 \/ k > 0
        BY <1>3
      <3> QED BY <3>2, <3>3, <3>4
    <2> DEFINE g == [i \in 1 .. k + 1 |-> IF i <= k THEN f[i] ELSE last]
    <2>3. g \in [1 .. k + 1 -> Seq(S)]
      OBVIOUS
    <2>4. ASSUME NEW i \in 1 .. k + 1
          PROVE  g[i] = IF i = 1 THEN P[i] ELSE g[i - 1] \o P[i]
      <3>1. CASE i = k + 1
        <4>1. g[i] = last /\ (i # 1 => g[i - 1] = f[k])
          BY <3>1
        <4> QED BY <4>1, <2>2, <3>1
      <3>2. CASE i <= k
        <4>1. g[i] = f[i] /\ (i # 1 => g[i - 1] = f[i - 1]) /\ i \in 1 .. k
          BY <3>2
        <4>2. f[i] = IF i = 1 THEN P[i] ELSE f[i - 1] \o P[i]
          BY <2>1, <4>1 DEF Grows
        <4> QED BY <4>1, <4>2
      <3> QED BY <3>1, <3>2
    <2>5. Grows(g, P, k + 1)
      BY <2>4 DEF Grows
    <2> QED BY <2>3, <2>5
  <1>4. Len(P) \in K
    <2> HIDE DEF K
    <2> QED BY <1>1, <1>2, <1>3, Induction
  <1> QED BY <1>4

\* FlattenSeq is the last of them.
LEMMA Flattened ==
  ASSUME NEW S, NEW P \in Seq(Seq(S)), Len(P) > 0
  PROVE  \E f : /\ DOMAIN f = 1 .. Len(P) /\ Grows(f, P, Len(P))
                /\ FlattenSeq(P) = f[Len(P)]
  <1> DEFINE Is(f) == f = [i \in 1 .. Len(P) |-> IF i = 1 THEN P[i] ELSE f[i - 1] \o P[i]]
             f == CHOOSE g : Is(g)
  <1>1. PICK g \in [1 .. Len(P) -> Seq(S)] : Grows(g, P, Len(P))
    BY Grown
  <1>2. Is(g)
    BY <1>1 DEF Grows
  <1>3. Is(f)
    BY <1>2
  <1>4. FlattenSeq(P) = f[Len(P)]
    BY DEF FlattenSeq
  <1>5. Grows(f, P, Len(P)) /\ DOMAIN f = 1 .. Len(P)
    BY <1>3, Zenon DEF Grows
  <1> QED BY <1>4, <1>5

\* The parts of a sequence of sequences, up to the m-th, stand in s one after
\* the other: the i-th begins after position off[i - 1].
Parts(s, P, off, m) ==
  /\ Len(s) = off[m]
  /\ \A i \in 1 .. m : \A k \in 1 .. Len(P[i]) :
       off[i - 1] + k <= off[m] /\ s[off[i - 1] + k] = P[i][k]

\* In a concatenation each text stands at its offset.
LEMMA Placed ==
  ASSUME NEW S, NEW P \in Seq(Seq(S))
  PROVE  /\ FlattenSeq(P) \in Seq(S)
         /\ \E off \in [Nat -> Nat] :
              /\ off[0] = 0
              /\ \A i \in 1 .. Len(P) : off[i] = off[i - 1] + Len(P[i])
              /\ Parts(FlattenSeq(P), P, off, Len(P))
  <1>1. Len(P) \in Nat /\ \A i \in 1 .. Len(P) : P[i] \in Seq(S) /\ Len(P[i]) \in Nat
    OBVIOUS
  <1>2. CASE Len(P) = 0
    <2>1. FlattenSeq(P) = P /\ P = <<>>
      BY <1>2 DEF FlattenSeq
    <2> DEFINE none == [i \in Nat |-> 0]
    <2>2. none \in [Nat -> Nat] /\ none[0] = 0
      OBVIOUS
    <2>3. Parts(P, P, none, 0)
      BY <1>2 DEF Parts
    <2>4. P \in Seq(S)
      BY <2>1
    <2>5. \A i \in 1 .. Len(P) : none[i] = none[i - 1] + Len(P[i])
      BY <1>2
    <2> HIDE DEF none
    <2> QED BY <1>2, <2>1, <2>2, <2>3, <2>4, <2>5
  <1>3. CASE Len(P) > 0
    <2>1. PICK f : Grows(f, P, Len(P)) /\ FlattenSeq(P) = f[Len(P)]
      BY <1>3, Flattened
    <2>2. \A i \in 1 .. Len(P) : f[i] = IF i = 1 THEN P[i] ELSE f[i - 1] \o P[i]
      BY <2>1 DEF Grows
    <2> DEFINE T == {m \in Nat : m \in 1 .. Len(P) => f[m] \in Seq(S)}
    <2>3. 0 \in T
      OBVIOUS
    <2>4. ASSUME NEW m \in Nat, m \in T PROVE m + 1 \in T
      <3> SUFFICES ASSUME m + 1 \in 1 .. Len(P) PROVE f[m + 1] \in Seq(S)
        BY <2>4
      <3>1. CASE m = 0
        BY <1>1, <2>2, <3>1
      <3>2. CASE m # 0
        <4>1. f[m] \in Seq(S) /\ P[m + 1] \in Seq(S)
          BY <1>1, <2>4, <3>2
        <4>2. f[m] \o P[m + 1] \in Seq(S)
          BY <4>1, ConcatProperties, Zenon
        <4>3. f[m + 1] = f[m] \o P[m + 1]
          <5>1. m + 1 # 1 /\ (m + 1) - 1 = m
            BY <2>4, <3>2
          <5> QED BY <2>2, <5>1
        <4> QED BY <4>2, <4>3
      <3> QED BY <3>1, <3>2
    <2>5. \A m \in 1 .. Len(P) : f[m] \in Seq(S)
      <3>1. Nat \subseteq T
        <4> HIDE DEF T
        <4> QED BY <2>3, <2>4, Induction
      <3> QED BY <1>1, <3>1
    <2> DEFINE off == [i \in Nat |-> IF i \in 1 .. Len(P) THEN Len(f[i]) ELSE 0]
    <2>6. off \in [Nat -> Nat] /\ off[0] = 0 /\ \A i \in 1 .. Len(P) : off[i] = Len(f[i])
      <3>1. \A i \in 1 .. Len(P) : Len(f[i]) \in Nat
        BY <2>5
      <3> QED BY <1>1, <3>1
    <2>7. ASSUME NEW i \in 1 .. Len(P)
          PROVE  off[i] = off[i - 1] + Len(P[i])
      <3>1. CASE i = 1
        BY <1>1, <2>2, <2>6, <3>1
      <3>2. CASE i # 1
        <4>1. f[i] = f[i - 1] \o P[i] /\ f[i - 1] \in Seq(S) /\ P[i] \in Seq(S)
              /\ off[i - 1] = Len(f[i - 1]) /\ off[i] = Len(f[i])
          <5>1. i - 1 \in 1 .. Len(P)
            BY <1>1, <3>2
          <5> QED BY <1>1, <2>2, <2>5, <2>6, <3>2, <5>1
        <4>2. Len(f[i - 1] \o P[i]) = Len(f[i - 1]) + Len(P[i])
          BY <4>1, ConcatProperties, Zenon
        <4> QED BY <4>1, <4>2
      <3> QED BY <3>1, <3>2
    <2>8. \A i \in Nat : off[i] \in Nat
      BY <2>6
    <2> HIDE DEF off
    <2> DEFINE Q == {m \in Nat : m \in 1 .. Len(P) => Parts(f[m], P, off, m)}
    <2>9. 0 \in Q
      OBVIOUS
    <2>10. ASSUME NEW m \in Nat, m \in Q PROVE m + 1 \in Q
      <3> SUFFICES ASSUME m + 1 \in 1 .. Len(P) PROVE Parts(f[m + 1], P, off, m + 1)
        BY <2>10
      <3>1. Len(f[m + 1]) = off[m + 1]
        BY <2>6
      <3>2. CASE m = 0
        <4>1. f[m + 1] = P[m + 1] /\ off[m + 1] = Len(P[m + 1]) /\ off[m] = 0
          <5>1. m + 1 = 1
            BY <3>2
          <5>2. f[m + 1] = P[m + 1]
            BY <2>2, <5>1, Zenon
          <5>3. off[m] = 0
            BY <2>6, <3>2, Zenon
          <5> QED BY <3>1, <5>2, <5>3, Zenon
        <4>2. ASSUME NEW i \in 1 .. m + 1, NEW k \in 1 .. Len(P[i])
              PROVE  off[i - 1] + k <= off[m + 1] /\ f[m + 1][off[i - 1] + k] = P[i][k]
          <5>1. i = m + 1 /\ i - 1 = m
            BY <3>2, <4>2
          <5>2. 0 + k = k /\ k <= Len(P[m + 1])
            BY <1>1, <4>2, <5>1
          <5> QED BY <4>1, <5>1, <5>2
        <4> QED BY <3>1, <4>2 DEF Parts
      <3>3. CASE m # 0
        <4>1. f[m + 1] = f[m] \o P[m + 1] /\ f[m] \in Seq(S) /\ P[m + 1] \in Seq(S)
          <5>1. m + 1 # 1 /\ (m + 1) - 1 = m /\ m \in 1 .. Len(P)
            BY <1>1, <3>3
          <5> QED BY <1>1, <2>2, <2>5, <5>1
        <4>a. PICK u \in Seq(S), w \in Seq(S) : u = f[m] /\ w = P[m + 1] /\ f[m + 1] = u \o w
          BY <4>1, Zenon
        <4>2. /\ u = f[m] /\ w = P[m + 1] /\ f[m + 1] = u \o w
              /\ \A j \in 1 .. Len(u) + Len(w) :
                   (u \o w)[j] = IF j <= Len(u) THEN u[j] ELSE w[j - Len(u)]
          <5>1. \A j \in 1 .. Len(u) + Len(w) :
                   (u \o w)[j] = IF j <= Len(u) THEN u[j] ELSE w[j - Len(u)]
            BY ConcatProperties
          <5> QED BY <4>a, <5>1, Zenon
        <4>3. PICK a \in Nat, b \in Nat : a = Len(u) /\ b = Len(w)
          OBVIOUS
        <4>4. Parts(u, P, off, m)
          <5>1. m \in 1 .. Len(P)
            BY <1>1, <3>3
          <5> QED BY <2>10, <4>2, <5>1
        <4>5. off[m] = a /\ off[m + 1] = a + b
          <5>1. (m + 1) - 1 = m
            BY <2>10
          <5> QED BY <2>7, <4>2, <4>3, <4>4, <5>1 DEF Parts
        <4>6. ASSUME NEW i \in 1 .. m + 1, NEW k \in 1 .. Len(P[i])
              PROVE  off[i - 1] + k <= off[m + 1] /\ f[m + 1][off[i - 1] + k] = P[i][k]
          <5>1. PICK o \in Nat : o = off[i - 1]
            <6>1. i - 1 \in Nat
              BY <2>10, <4>6
            <6> QED BY <2>8, <6>1
          <5>2. CASE i = m + 1
            <6>1. i - 1 = m /\ o = a /\ k \in 1 .. b
              <7>1. i - 1 = m
                BY <2>10, <4>6, <5>2
              <7>2. o = a
                BY <4>5, <5>1, <7>1, Zenon
              <7>3. k \in 1 .. b
                BY <4>2, <4>3, <4>6, <5>2, Zenon
              <7> QED BY <7>1, <7>2, <7>3
            <6>2. a + k \in 1 .. a + b /\ ~(a + k <= a) /\ (a + k) - a = k
              BY <6>1
            <6>3. (u \o w)[a + k] = w[k]
              BY <4>2, <4>3, <6>2
            <6>4. off[i - 1] = a /\ P[i] = w /\ f[m + 1] = u \o w
              BY <4>2, <5>1, <5>2, <6>1
            <6>5. off[i - 1] + k <= off[m + 1]
              BY <4>5, <6>2, <6>4
            <6> QED BY <6>3, <6>4, <6>5, Zenon
          <5>3. CASE i # m + 1
            <6>1. i \in 1 .. m
              BY <4>6, <5>3
            <6>2. o + k <= a /\ u[o + k] = P[i][k]
              BY <4>4, <4>5, <5>1, <6>1, <4>6 DEF Parts
            <6>3. k \in Nat /\ k > 0
              <7>1. Len(P[i]) \in Nat
                BY <1>1, <6>1
              <7> QED BY <4>6, <7>1
            <6>4. o + k \in 1 .. a + b /\ o + k <= a + b
              BY <6>2, <6>3
            <6>5. (u \o w)[o + k] = u[o + k]
              BY <4>2, <4>3, <6>2, <6>4
            <6> QED BY <4>2, <4>5, <5>1, <6>2, <6>4, <6>5
          <5> QED BY <5>2, <5>3
        <4> QED BY <3>1, <4>6 DEF Parts
      <3> QED BY <3>2, <3>3
    <2>11. Parts(FlattenSeq(P), P, off, Len(P))
      <3>1. Nat \subseteq Q
        <4> HIDE DEF Q
        <4> QED BY <2>9, <2>10, Induction
      <3>2. Len(P) \in Q /\ Len(P) \in 1 .. Len(P)
        BY <1>1, <1>3, <3>1
      <3> QED BY <2>1, <3>2
    <2>12. FlattenSeq(P) \in Seq(S)
      BY <1>1, <1>3, <2>1, <2>5
    <2> QED BY <2>6, <2>7, <2>11, <2>12
  <1>4. Len(P) = 0 \/ Len(P) > 0
    BY <1>1
  <1> QED BY <1>2, <1>3, <1>4, Zenon

\* What a fold computes: from base, a step for each element that is picked.
Folds(f, F, base, step, pick) ==
  \A s \in F : f[s] = IF s = {} THEN base ELSE step[<<pick[s], f[s \ {pick[s]}]>>]

\* The function a fold over a finite set is defined by exists.
LEMMA FoldExists ==
  ASSUME NEW D, IsFiniteSet(D), NEW A, NEW base \in A, NEW step \in [D \X A -> A],
         NEW pick, \A s \in SUBSET D : s # {} => pick[s] \in s
  PROVE  \E f \in [SUBSET D -> A] : Folds(f, SUBSET D, base, step, pick)
  <1> DEFINE Up(k) == {s \in SUBSET D : Cardinality(s) <= k}
             K == {k \in Nat : \E f \in [Up(k) -> A] : Folds(f, Up(k), base, step, pick)}
  <1>1. \A s \in SUBSET D : IsFiniteSet(s) /\ Cardinality(s) \in Nat
    BY FS_Subset, FS_CardinalityType
  <1>2. 0 \in K
    <2>1. \A s \in Up(0) : s = {}
      BY <1>1, FS_EmptySet
    <2> DEFINE g == [s \in Up(0) |-> base]
    <2>2. g \in [Up(0) -> A] /\ Folds(g, Up(0), base, step, pick)
      BY <2>1 DEF Folds
    <2> QED BY <2>2
  <1>3. ASSUME NEW k \in Nat, k \in K PROVE k + 1 \in K
    <2>1. PICK f \in [Up(k) -> A] : Folds(f, Up(k), base, step, pick)
      BY <1>3
    <2> DEFINE g == [s \in Up(k + 1) |->
                       IF s = {} THEN base ELSE step[<<pick[s], f[s \ {pick[s]}]>>]]
    <2>2. ASSUME NEW s \in Up(k + 1), s # {}
          PROVE  pick[s] \in D /\ s \ {pick[s]} \in Up(k)
      <3>1. pick[s] \in s /\ pick[s] \in D
        BY <2>2
      <3>2. Cardinality(s \ {pick[s]}) = Cardinality(s) - 1
        <4>1. IsFiniteSet(s)
          BY <1>1, <2>2
        <4> QED BY <3>1, <4>1, FS_RemoveElement
      <3>3. Cardinality(s) <= k + 1 /\ Cardinality(s) \in Nat /\ s \ {pick[s]} \in SUBSET D
        BY <1>1, <2>2
      <3>4. Cardinality(s) - 1 <= k
        BY <1>3, <3>3
      <3> QED BY <3>1, <3>2, <3>3, <3>4
    <2>3. g \in [Up(k + 1) -> A]
      <3>1. ASSUME NEW s \in Up(k + 1) PROVE g[s] \in A
        <4>1. CASE s = {}
          BY <4>1
        <4>2. CASE s # {}
          <5>1. pick[s] \in D /\ f[s \ {pick[s]}] \in A
            BY <2>2, <4>2, <2>1
          <5> QED BY <4>2, <5>1
        <4> QED BY <4>1, <4>2
      <3> QED BY <3>1
    <2>4. \A s \in Up(k) : s \in Up(k + 1) /\ g[s] = f[s]
      <3>1. ASSUME NEW s \in Up(k) PROVE s \in Up(k + 1)
        BY <1>1, <1>3
      <3>2. ASSUME NEW s \in Up(k) PROVE g[s] = f[s]
        BY <3>1, <2>1 DEF Folds
      <3> QED BY <3>1, <3>2
    <2>5. ASSUME NEW s \in Up(k + 1)
          PROVE  g[s] = IF s = {} THEN base ELSE step[<<pick[s], g[s \ {pick[s]}]>>]
      <3>1. s # {} => g[s \ {pick[s]}] = f[s \ {pick[s]}]
        BY <2>2, <2>4
      <3> QED BY <3>1
    <2>6. Folds(g, Up(k + 1), base, step, pick)
      <3> HIDE DEF g, Up
      <3> QED BY <2>5 DEF Folds
    <2> HIDE DEF g, Up
    <2> QED BY <1>3, <2>3, <2>6
  <1>4. PICK k \in Nat : k = Cardinality(D)
    BY FS_CardinalityType
  <1>5. k \in K
    <2> HIDE DEF K
    <2> QED BY <1>2, <1>3, Induction
  <1>6. Up(k) = SUBSET D
    <2>1. \A s \in SUBSET D : Cardinality(s) <= k
      BY <1>4, FS_Subset
    <2> QED BY <2>1
  <1>7. PICK f \in [Up(k) -> A] : Folds(f, Up(k), base, step, pick)
    BY <1>5
  <1> HIDE DEF Up
  <1> QED BY <1>6, <1>7

\* The bytes of no or of one value.
LEMMA BytesOfOne ==
  ASSUME NEW S, NEW values \in Seq(Seq(S)), Len(values) <= 1
  PROVE  ValueBytes(values) = IF Len(values) = 0 THEN 0 ELSE Len(values[1])
  <1> DEFINE D == DOMAIN values
             Is(f) == f = [s \in SUBSET D |->
                             IF s = {} THEN 0 ELSE f[s \ {Max(s)}] + Len(values[Max(s)])]
             f == CHOOSE g : Is(g)
             one == IF Len(values) = 0 THEN 0 ELSE Len(values[1])
  <1>1. D = 1 .. Len(values) /\ Len(values) \in Nat
    OBVIOUS
  <1>2. ValueBytes(values) = f[D]
    BY Zenon DEF ValueBytes, FoldLeft, MapThenFoldSet
  <1>3. CASE Len(values) = 0
    <2>1. \A s \in SUBSET D : s = {}
      BY <1>1, <1>3
    <2>2. Is([s \in SUBSET D |-> 0])
      BY <2>1
    <2>3. Is(f)
      BY <2>2
    <2> QED BY <1>2, <1>3, <2>1, <2>3
  <1>4. CASE Len(values) = 1
    <2>1. D = {1} /\ Len(values[1]) \in Nat
      BY <1>1, <1>4
    <2>2. Max({1}) = 1
      BY DEF Max
    <2>3. \A s \in SUBSET D : s = {} \/ s = {1}
      BY <2>1
    <2> DEFINE g == [s \in SUBSET D |-> IF s = {} THEN 0 ELSE Len(values[1])]
    <2>4. Is(g)
      <3>1. ASSUME NEW s \in SUBSET D
            PROVE  g[s] = IF s = {} THEN 0 ELSE g[s \ {Max(s)}] + Len(values[Max(s)])
        <4>1. CASE s = {1}
          <5>1. Max(s) = 1 /\ s \ {Max(s)} = {}
            BY <2>2, <4>1
          <5>2. g[{}] = 0 /\ g[s] = Len(values[1])
            BY <4>1
          <5>3. 0 + Len(values[1]) = Len(values[1])
            BY <2>1
          <5> QED BY <4>1, <5>1, <5>2, <5>3, Zenon
        <4>2. CASE s = {}
          BY <4>2
        <4> QED BY <2>3, <4>1, <4>2
      <3> QED BY <3>1
    <2>5. Is(f)
      BY <2>4, Zenon
    <2>6. f[{1}] = f[{}] + Len(values[1]) /\ f[{}] = 0
      <3>1. \A s \in SUBSET D : f[s] = IF s = {} THEN 0 ELSE f[s \ {Max(s)}] + Len(values[Max(s)])
        BY <2>5, Zenon
      <3>2. {} \in SUBSET D /\ {1} \in SUBSET D /\ {1} \ {Max({1})} = {}
        BY <2>1, <2>2
      <3> QED BY <3>1, <3>2, <2>2, Zenon
    <2>7. f[{}] + Len(values[1]) = Len(values[1])
      BY <2>1, <2>6
    <2> QED BY <1>2, <1>4, <2>1, <2>6, <2>7
  <1> QED BY <1>1, <1>3, <1>4

\* The values as they are written, with NUL between them.
Joined(values) ==
  FoldLeft(LAMBDA vs, i : (IF i = 1 THEN vs ELSE Append(vs, NUL)) \o values[i],
           <<>>, [i \in DOMAIN values |-> i])

\* At most one value is joined to itself, with no separator.
LEMMA JoinedOne ==
  ASSUME NEW S, NEW values \in Seq(Seq(S)), Len(values) <= 1
  PROVE  Joined(values) = IF Len(values) = 0 THEN <<>> ELSE values[1]
  <1> DEFINE D == DOMAIN [i \in DOMAIN values |-> i]
             Is(f) == f = [s \in SUBSET D |->
                             IF s = {} THEN <<>>
                             ELSE (IF [i \in DOMAIN values |-> i][Max(s)] = 1 THEN f[s \ {Max(s)}]
                                   ELSE Append(f[s \ {Max(s)}], NUL))
                                     \o values[[i \in DOMAIN values |-> i][Max(s)]]]
             f == CHOOSE g : Is(g)
  <1>1. D = 1 .. Len(values) /\ Len(values) \in Nat
    OBVIOUS
  <1>2. Joined(values) = f[D]
    BY Zenon DEF Joined, FoldLeft, MapThenFoldSet
  <1>3. CASE Len(values) = 0
    <2>1. \A s \in SUBSET D : s = {}
      BY <1>1, <1>3
    <2>2. Is([s \in SUBSET D |-> <<>>])
      BY <2>1
    <2>3. Is(f)
      BY <2>2, Zenon
    <2> QED BY <1>2, <1>3, <2>1, <2>3
  <1>4. CASE Len(values) = 1
    <2>1. D = {1} /\ values[1] \in Seq(S) /\ [i \in DOMAIN values |-> i][1] = 1
      BY <1>1, <1>4
    <2>2. Max({1}) = 1
      BY DEF Max
    <2>3. \A s \in SUBSET D : s = {} \/ s = {1}
      BY <2>1
    <2>4. <<>> \o values[1] = values[1]
      BY <2>1, ConcatEmptySeq
    <2> DEFINE g == [s \in SUBSET D |-> IF s = {} THEN <<>> ELSE values[1]]
               Step(p, s) == (IF [i \in DOMAIN values |-> i][Max(s)] = 1 THEN p[s \ {Max(s)}]
                                   ELSE Append(p[s \ {Max(s)}], NUL))
                                     \o values[[i \in DOMAIN values |-> i][Max(s)]]
    <2>5. ASSUME NEW p, p[{}] = <<>> PROVE Step(p, {1}) = values[1]
      <3>1. {1} \ {Max({1})} = {}
        BY <2>2
      <3> QED BY <2>1, <2>2, <2>4, <2>5, <3>1, Zenon
    <2> HIDE DEF Step
    <2>6. \A s \in SUBSET D : g[s] = IF s = {} THEN <<>> ELSE Step(g, s)
      <3>1. g[{}] = <<>> /\ \A s \in SUBSET D : s # {} => g[s] = values[1]
        OBVIOUS
      <3> HIDE DEF g
      <3> QED BY <2>3, <2>5, <3>1, Zenon
    <2>7. Is(g)
      BY <2>6 DEF Step
    <2>8. Is(f)
      BY <2>7, Zenon
    <2>9. \A s \in SUBSET D : f[s] = IF s = {} THEN <<>> ELSE Step(f, s)
      BY <2>8, Zenon DEF Step
    <2>10. f[{}] = <<>> /\ f[{1}] = Step(f, {1})
      <3>1. {} \in SUBSET D /\ {1} \in SUBSET D
        BY <2>1
      <3> QED BY <2>9, <3>1, Zenon
    <2>11. f[{1}] = values[1]
      BY <2>5, <2>10, Zenon
    <2>12. Len(values) # 0
      BY <1>4
    <2> QED BY <1>2, <2>1, <2>11, <2>12, Zenon
  <1> QED BY <1>1, <1>3, <1>4

-----------------------------------------------------------------------------
(* The blocks.                                                             *)

\* The text t stands in s after position p.
Reads(s, p, t) ==
  /\ p + Len(t) <= Len(s)
  /\ \A k \in 1 .. Len(t) : s[p + k] = t[k]

\* Concatenation, element by element.
LEMMA Joins ==
  ASSUME NEW S, NEW u \in Seq(S), NEW v \in Seq(S)
  PROVE  /\ u \o v \in Seq(S) /\ Len(u) \in Nat /\ Len(v) \in Nat
         /\ Len(u \o v) = Len(u) + Len(v)
         /\ \A k \in 1 .. Len(u) : (u \o v)[k] = u[k]
         /\ \A k \in 1 .. Len(v) : (u \o v)[Len(u) + k] = v[k]
  <1>1. PICK w \in Seq(S) : w = u \o v /\ Len(w) = Len(u) + Len(v)
    BY ConcatProperties
  <1>2. /\ \A k \in 1 .. Len(u) : w[k] = u[k]
        /\ \A k \in 1 .. Len(v) : w[Len(u) + k] = v[k]
    BY <1>1
  <1> QED BY <1>1, <1>2

\* A text read in two parts.
LEMMA ReadsFirst ==
  ASSUME NEW S, NEW s \in Seq(S), NEW p \in Nat, NEW u \in Seq(S), NEW v \in Seq(S),
         Reads(s, p, u \o v)
  PROVE  Reads(s, p, u) /\ Reads(s, p + Len(u), v)
  <1>1. PICK w \in Seq(S) : w = u \o v /\ Len(w) = Len(u) + Len(v)
    BY ConcatProperties
  <1>2. /\ \A k \in 1 .. Len(u) : w[k] = u[k]
        /\ \A k \in 1 .. Len(v) : w[Len(u) + k] = v[k]
    BY <1>1
  <1>3. p + Len(w) <= Len(s) /\ \A k \in 1 .. Len(w) : s[p + k] = w[k]
    BY <1>1 DEF Reads
  <1>4. PICK a \in Nat, b \in Nat, n \in Nat : a = Len(u) /\ b = Len(v) /\ n = Len(s)
    OBVIOUS
  <1>5. p + (a + b) <= n /\ \A k \in 1 .. a + b : s[p + k] = w[k]
    BY <1>1, <1>3, <1>4
  <1>6. ASSUME NEW k \in 1 .. a PROVE s[p + k] = u[k]
    BY <1>2, <1>4, <1>5
  <1>7. ASSUME NEW k \in 1 .. b PROVE s[(p + a) + k] = v[k]
    <2>1. a + k \in 1 .. a + b /\ (p + a) + k = p + (a + k)
      OBVIOUS
    <2> QED BY <2>1, <1>2, <1>4, <1>5
  <1>8. p + a <= n /\ (p + a) + b <= n
    BY <1>5
  <1> QED BY <1>4, <1>6, <1>7, <1>8 DEF Reads

\* What stands in a sequence stays where it is when it grows.
LEMMA ReadsStays ==
  ASSUME NEW S, NEW s \in Seq(S), NEW x \in Seq(S), NEW p \in Nat, NEW t, Len(t) \in Nat,
         Reads(s, p, t)
  PROVE  Reads(s \o x, p, t)
  <1>1. Len(s \o x) = Len(s) + Len(x)
        /\ \A i \in 1 .. Len(s) + Len(x) : (s \o x)[i] = IF i <= Len(s) THEN s[i] ELSE x[i - Len(s)]
    BY ConcatProperties
  <1>2. PICK a \in Nat, b \in Nat, n \in Nat : a = Len(s) /\ b = Len(x) /\ n = Len(t)
    OBVIOUS
  <1>3. p + n <= a /\ \A k \in 1 .. n : s[p + k] = t[k]
    BY <1>2 DEF Reads
  <1>4. ASSUME NEW k \in 1 .. n PROVE (s \o x)[p + k] = t[k]
    <2>1. p + k \in 1 .. a + b /\ p + k <= a
      BY <1>3
    <2>2. (s \o x)[p + k] = s[p + k]
      BY <1>1, <1>2, <2>1
    <2> QED BY <1>3, <2>2
  <1>5. p + n <= a + b
    BY <1>3
  <1> QED BY <1>1, <1>2, <1>4, <1>5 DEF Reads

\* A map that does not make Compress panic has at most one value for a name.
LEMMA Values ==
  ASSUME NEW h \in HeaderMaps, ~Overflows(h), NEW n \in Kept(h)
  PROVE  /\ n \in Seq(1 .. Base - 1) /\ n \in Seq(Bytes) /\ Len(n) \in 1 .. Word - 1
         /\ h[n] \in Seq(Seq(1 .. Base - 1)) /\ Len(h[n]) \in {0, 1}
         /\ \A i \in DOMAIN h[n] : h[n][i] \in Seq(Bytes) /\ Len(h[n][i]) \in 0 .. Word - 1
  <1>1. n \in DOMAIN h
    BY DEF Kept
  <1>2. /\ n \in Seq(1 .. Base - 1) /\ Len(n) \in 1 .. Word - 1
        /\ h[n] \in Seq(Seq(1 .. Base - 1))
        /\ \A i \in DOMAIN h[n] : Len(h[n][i]) < Word
    BY <1>1, HeadersAssumption
  <1>3. Len(h[n]) \in Nat /\ Len(h[n]) <= 1
    BY <1>2 DEF Overflows
  <1>4. \A s \in Seq(1 .. Base - 1) : s \in Seq(Bytes) /\ Len(s) \in Nat
    <2>1. 1 .. Base - 1 \subseteq Bytes
      BY Constants DEF Bytes
    <2>2. ASSUME NEW s \in Seq(1 .. Base - 1) PROVE s \in Seq(Bytes) /\ Len(s) \in Nat
      <3>1. Len(s) \in Nat
        OBVIOUS
      <3> QED BY <2>1, <3>1, SeqMonotonic
    <2> QED BY <2>2
  <1>5. \A i \in DOMAIN h[n] : h[n][i] \in Seq(1 .. Base - 1)
    BY <1>2
  <1>6. \A i \in DOMAIN h[n] : h[n][i] \in Seq(Bytes) /\ Len(h[n][i]) \in 0 .. Word - 1
    BY <1>2, <1>4, <1>5, Constants
  <1>7. Len(h[n]) \in {0, 1}
    <2>1. PICK l \in Nat : l = Len(h[n])
      BY <1>3
    <2>2. l <= 1
      BY <1>3, <2>1
    <2>3. l \in {0, 1}
      BY <2>2
    <2> QED BY <2>1, <2>3
  <1> QED BY <1>2, <1>4, <1>6, <1>7

Size(values) == IF Len(values) = 0 THEN 0 ELSE Len(values[1])
Only(values) == IF Len(values) = 0 THEN <<>> ELSE values[1]

\* The length that is written of the values: right, unless there is none.
LEMMA WrittenLength ==
  ASSUME NEW h \in HeaderMaps, ~Overflows(h), NEW n \in Kept(h)
  PROVE  /\ LengthOfValues(h[n]) = IF Len(h[n]) = 0 THEN Word - 1 ELSE Size(h[n])
         /\ LengthOfValues(h[n]) \in 0 .. Word - 1
         /\ Size(h[n]) \in 0 .. Word - 1 /\ Only(h[n]) \in Seq(Bytes)
         /\ Len(Only(h[n])) = Size(h[n])
  <1>1. h[n] \in Seq(Seq(1 .. Base - 1)) /\ Len(h[n]) <= 1 /\ Len(h[n]) \in {0, 1}
    BY Values
  <1>2. ValueBytes(h[n]) = Size(h[n])
    BY <1>1, BytesOfOne DEF Size
  <1>3. /\ Size(h[n]) \in 0 .. Word - 1 /\ Only(h[n]) \in Seq(Bytes)
        /\ Len(Only(h[n])) = Size(h[n])
    <2>1. CASE Len(h[n]) = 0
      BY <2>1, Constants DEF Size, Only
    <2>2. CASE Len(h[n]) = 1
      <3>1. 1 \in DOMAIN h[n]
        BY <1>1, <2>2
      <3> QED BY <2>2, <3>1, Values DEF Size, Only
    <2> QED BY <1>1, <2>1, <2>2
  <1>4. PICK W \in Nat, z \in Nat : W = Word /\ z = Size(h[n]) /\ z < W /\ W > 0
    BY <1>3, Constants
  <1>5. CASE Len(h[n]) = 0
    <2>1. z = 0
      BY <1>4, <1>5 DEF Size
    <2>2. (W + 0 - 1 + 0) % W = W - 1
      BY <1>4
    <2> QED BY <1>2, <1>3, <1>4, <1>5, <2>1, <2>2 DEF LengthOfValues
  <1>6. CASE Len(h[n]) = 1
    <2>1. (W + 1 - 1 + z) % W = z
      <3>1. W + 1 - 1 + z = W + z
        OBVIOUS
      <3>2. (W + z) % W = z
        BY <1>4
      <3> QED BY <3>1, <3>2
    <2> QED BY <1>2, <1>3, <1>4, <1>6, <2>1 DEF LengthOfValues
  <1> QED BY <1>1, <1>5, <1>6

\* Lower case loses nothing that the canonical form tells apart, and no length.
LEMMA Lowered ==
  ASSUME NEW n \in Seq(Bytes)
  PROVE  /\ Lower(n) \in Seq(Bytes) /\ Len(Lower(n)) = Len(n)
         /\ Canonical(n) \in Seq(Bytes) /\ Len(Canonical(n)) = Len(n)
         /\ Canonical(Lower(n)) = Canonical(n)
  <1>1. LowerA \in Bytes /\ UpperA \in Bytes
    BY Constants DEF Bytes, LowerA, UpperA
  <1>2. \A i \in DOMAIN n : LowerByte(n[i]) \in Bytes /\ UpperByte(n[i]) \in Bytes
    BY <1>1 DEF LowerByte, UpperByte
  <1>3. DOMAIN n = 1 .. Len(n) /\ Len(n) \in Nat
    OBVIOUS
  <1>4. Lower(n) \in Seq(Bytes) /\ Len(Lower(n)) = Len(n)
    BY <1>2, <1>3 DEF Lower
  <1>5. Canonical(n) \in Seq(Bytes) /\ Len(Canonical(n)) = Len(n)
    BY <1>2, <1>3 DEF Canonical
  <1>6. \A b : LowerByte(LowerByte(b)) = LowerByte(b) /\ UpperByte(LowerByte(b)) = UpperByte(b)
    BY DEF LowerByte, UpperByte, LowerA, UpperA
  <1>7. Canonical(Lower(n)) = Canonical(n)
    <2>1. DOMAIN Lower(n) = DOMAIN n /\ \A i \in DOMAIN n : Lower(n)[i] = LowerByte(n[i])
      BY DEF Lower
    <2>2. \A i \in DOMAIN n : (IF i = 1 THEN UpperByte(Lower(n)[i]) ELSE LowerByte(Lower(n)[i]))
                                = (IF i = 1 THEN UpperByte(n[i]) ELSE LowerByte(n[i]))
      BY <1>6, <2>1, Zenon
    <2> QED BY <2>1, <2>2, Zenon DEF Canonical
  <1> QED BY <1>4, <1>5, <1>7

\* A pair, part by part.
LEMMA PairParts ==
  ASSUME NEW h \in HeaderMaps, ~Overflows(h), NEW n \in Kept(h)
  PROVE  /\ Pair(n, h[n]) =
              ((Int32(Len(n)) \o Lower(n)) \o Int32(LengthOfValues(h[n]))) \o Only(h[n])
         /\ Pair(n, h[n]) \in Seq(Bytes)
         /\ Len(Pair(n, h[n])) = 8 + Len(n) + Size(h[n])
  <1>1. h[n] \in Seq(Seq(1 .. Base - 1)) /\ Len(h[n]) <= 1 /\ n \in Seq(Bytes) /\ Len(n) \in Nat
        /\ Len(n) < Word
    <2>1. h[n] \in Seq(Seq(1 .. Base - 1)) /\ Len(h[n]) \in {0, 1} /\ n \in Seq(Bytes)
          /\ Len(n) \in 1 .. Word - 1
      BY Values
    <2>2. Len(n) \in Nat /\ Len(n) < Word
      BY <2>1, Constants
    <2>3. Len(h[n]) <= 1
      <3>1. Len(h[n]) \in {0, 1}
        BY <2>1
      <3>2. \A l \in {0, 1} : l <= 1
        OBVIOUS
      <3> QED BY <3>1, <3>2, Zenon
    <2> QED BY <2>1, <2>2, <2>3
  <1>2. Joined(h[n]) = Only(h[n])
    BY <1>1, JoinedOne DEF Only
  <1>3. Pair(n, h[n]) =
              ((Int32(Len(n)) \o Lower(n)) \o Int32(LengthOfValues(h[n]))) \o Only(h[n])
    <2>1. Pair(n, h[n]) =
              ((Int32(Len(n)) \o Lower(n)) \o Int32(LengthOfValues(h[n]))) \o Joined(h[n])
      BY Zenon DEF Pair, Joined
    <2> QED BY <1>2, <2>1
  <1>4. PICK a \in Seq(Bytes), b \in Seq(Bytes), c \in Seq(Bytes), d \in Seq(Bytes) :
          /\ a = Int32(Len(n)) /\ b = Lower(n) /\ c = Int32(LengthOfValues(h[n])) /\ d = Only(h[n])
          /\ Len(a) = 4 /\ Len(b) = Len(n) /\ Len(c) = 4 /\ Len(d) = Size(h[n])
    <2>1. LengthOfValues(h[n]) \in Nat /\ LengthOfValues(h[n]) < Word
      BY WrittenLength, Constants
    <2>2. Int32(LengthOfValues(h[n])) \in Seq(Bytes) /\ Len(Int32(LengthOfValues(h[n]))) = 4
      BY <2>1, RoundTrip
    <2>3. Int32(Len(n)) \in Seq(Bytes) /\ Len(Int32(Len(n))) = 4
      BY <1>1, RoundTrip
    <2>4. Lower(n) \in Seq(Bytes) /\ Len(Lower(n)) = Len(n)
      BY <1>1, Lowered
    <2>5. Only(h[n]) \in Seq(Bytes) /\ Len(Only(h[n])) = Size(h[n])
      BY WrittenLength
    <2> QED BY <2>2, <2>3, <2>4, <2>5
  <1>5. /\ a \o b \in Seq(Bytes) /\ Len(a \o b) = Len(a) + Len(b)
    BY ConcatProperties
  <1>6. /\ (a \o b) \o c \in Seq(Bytes) /\ Len((a \o b) \o c) = Len(a) + Len(b) + Len(c)
    BY <1>5, ConcatProperties
  <1>7. /\ ((a \o b) \o c) \o d \in Seq(Bytes)
        /\ Len(((a \o b) \o c) \o d) = Len(a) + Len(b) + Len(c) + Len(d)
    BY <1>6, ConcatProperties
  <1>8. Size(h[n]) \in Nat
    BY <1>4
  <1> QED BY <1>1, <1>3, <1>4, <1>7, <1>8

\* An order has each name that is kept, once.
LEMMA Orders ==
  ASSUME NEW h \in HeaderMaps, NEW order \in SetToSeqs(Kept(h))
  PROVE  /\ order \in Seq(Kept(h)) /\ Len(order) \in Nat /\ Len(order) < Word
         /\ \A i \in 1 .. Len(order) : order[i] \in Kept(h)
         /\ \A i, j \in 1 .. Len(order) : i # j => order[i] # order[j]
         /\ \A n \in Kept(h) : \E i \in 1 .. Len(order) : order[i] = n
         /\ IsFiniteSet(Kept(h)) /\ IsFiniteSet(DOMAIN h)
  <1>1. IsFiniteSet(DOMAIN h) /\ Cardinality(DOMAIN h) < Word
    BY HeadersAssumption
  <1>2. IsFiniteSet(Kept(h)) /\ Cardinality(Kept(h)) <= Cardinality(DOMAIN h)
    <2>1. Kept(h) \in SUBSET DOMAIN h
      BY DEF Kept
    <2> QED BY <1>1, <2>1, FS_Subset
  <1>3. PICK c \in Nat : c = Cardinality(Kept(h)) /\ c < Word
    <2>1. Cardinality(Kept(h)) \in Nat /\ Cardinality(DOMAIN h) \in Nat
      BY <1>1, <1>2, FS_CardinalityType
    <2> QED BY <1>1, <1>2, <2>1, Constants
  <1>4. order \in [1 .. c -> Kept(h)] /\ \A i, j \in 1 .. c : i # j => order[i] # order[j]
    BY <1>3 DEF SetToSeqs
  <1>5. order \in Seq(Kept(h)) /\ Len(order) = c
    BY <1>4
  <1>6. order \in Injection(1 .. c, Kept(h))
    BY <1>4, Zenon DEF Injection, IsInjective
  <1>7. Cardinality(1 .. c) = c
    BY FS_Interval
  <1>8. order \in Surjection(1 .. c, Kept(h))
    BY <1>2, <1>3, <1>6, <1>7, FS_Injection
  <1>9. \A n \in Kept(h) : \E i \in 1 .. c : order[i] = n
    BY <1>8 DEF Surjection
  <1> QED BY <1>1, <1>2, <1>3, <1>4, <1>5, <1>9

\* A block from start to end in s: the number of pairs and the pairs in an
\* order of the names, the i-th from off[i - 1] to off[i].
Laid(s, start, end, h, order, off) ==
  /\ Reads(s, start, Int32(Len(order)))
  /\ off[0] = start + 4
  /\ \A i \in 1 .. Len(order) :
       /\ Reads(s, off[i - 1], Pair(order[i], h[order[i]]))
       /\ off[i] = off[i - 1] + (8 + Len(order[i]) + Size(h[order[i]]))
  /\ off[Len(order)] = end
  /\ end <= Len(s)

Offsets(off) == off \in [Nat -> Nat]

\* An offset is a number.
LEMMA OffsetType ==
  ASSUME NEW off, Offsets(off), NEW n \in Nat
  PROVE  off[n] \in Nat
  BY DEF Offsets

\* Offsets may start anywhere.
LEMMA OffsetsFrom ==
  ASSUME NEW off0, Offsets(off0), NEW a \in Nat
  PROVE  \E off : Offsets(off) /\ \A i \in Nat : off[i] = a + off0[i]
  <1> DEFINE off == [i \in Nat |-> a + off0[i]]
  <1>1. off \in [Nat -> Nat] /\ \A i \in Nat : off[i] = a + off0[i]
    BY DEF Offsets
  <1> QED BY <1>1 DEF Offsets

\* A block put at the end of the stream lies there pair by pair.
LEMMA BlockLaid ==
  ASSUME NEW s \in Seq(Bytes), NEW h \in HeaderMaps, ~Overflows(h),
         NEW order \in SetToSeqs(Kept(h))
  PROVE  /\ Block(h, order) \in Seq(Bytes)
         /\ s \o Block(h, order) \in Seq(Bytes)
         /\ Len(s \o Block(h, order)) = Len(s) + Len(Block(h, order))
         /\ \E off : /\ Offsets(off)
                     /\ Laid(s \o Block(h, order), Len(s), Len(s \o Block(h, order)), h, order,
                             off)
  <1> DEFINE P == [i \in DOMAIN order |-> Pair(order[i], h[order[i]])]
  <1>1. /\ Len(order) \in Nat /\ Len(order) < Word /\ DOMAIN order = 1 .. Len(order)
        /\ \A i \in 1 .. Len(order) : order[i] \in Kept(h)
    BY Orders
  <1>2. \A i \in 1 .. Len(order) :
          /\ Pair(order[i], h[order[i]]) \in Seq(Bytes)
          /\ Len(Pair(order[i], h[order[i]])) = 8 + Len(order[i]) + Size(h[order[i]])
    BY <1>1, PairParts
  <1>3. P \in Seq(Seq(Bytes)) /\ Len(P) = Len(order)
    BY <1>1, <1>2
  <1>4. \A i \in 1 .. Len(order) : P[i] = Pair(order[i], h[order[i]])
    BY <1>1
  <1> HIDE DEF P
  <1>a. PICK F \in Seq(Bytes) : F = FlattenSeq(P)
    BY <1>3, Placed
  <1>b. PICK off0 : /\ Offsets(off0)
                    /\ off0[0] = 0
                    /\ \A i \in 1 .. Len(P) : off0[i] = off0[i - 1] + Len(P[i])
                    /\ Parts(F, P, off0, Len(P))
    BY <1>3, <1>a, Placed DEF Offsets
  <1>5. /\ F = FlattenSeq(P) /\ Offsets(off0)
        /\ off0[0] = 0
        /\ \A i \in 1 .. Len(P) : off0[i] = off0[i - 1] + Len(P[i])
        /\ Parts(F, P, off0, Len(P))
    BY <1>a, <1>b
  <1>6. PICK c \in Seq(Bytes) : c = Int32(Len(order)) /\ Len(c) = 4
    BY <1>1, RoundTrip
  <1>7. Block(h, order) = c \o F
    BY <1>5, <1>6 DEF Block, P
  <1>8. PICK b \in Seq(Bytes) : /\ b = c \o F /\ Len(b) = 4 + Len(F)
                                /\ \A k \in 1 .. 4 : b[k] = c[k]
                                /\ \A k \in 1 .. Len(F) : b[4 + k] = F[k]
    <2>1. /\ c \o F \in Seq(Bytes) /\ Len(c \o F) = Len(c) + Len(F)
          /\ \A k \in 1 .. Len(c) : (c \o F)[k] = c[k]
          /\ \A k \in 1 .. Len(F) : (c \o F)[Len(c) + k] = F[k]
      BY Joins
    <2>2. Len(c) = 4
      BY <1>6
    <2>3. c \o F \in Seq(Bytes) /\ Len(c \o F) = 4 + Len(F)
      BY <2>1, <2>2, Zenon
    <2>4. \A k \in 1 .. 4 : (c \o F)[k] = c[k]
      BY <2>1, <2>2, Zenon
    <2>5. \A k \in 1 .. Len(F) : (c \o F)[4 + k] = F[k]
      BY <2>1, <2>2, Zenon
    <2> QED BY <2>3, <2>4, <2>5, Zenon
  <1>c. \A m \in 1 .. Len(F) : b[4 + m] = F[m]
    BY <1>8, Zenon
  <1>9. PICK z \in Seq(Bytes) : z = s \o b /\ Len(z) = Len(s) + Len(b)
         /\ \A k \in 1 .. Len(b) : z[Len(s) + k] = b[k]
    <2>1. /\ s \o b \in Seq(Bytes) /\ Len(s \o b) = Len(s) + Len(b)
          /\ \A k \in 1 .. Len(b) : (s \o b)[Len(s) + k] = b[k]
      BY Joins
    <2> QED BY <2>1
  <1>10. PICK a \in Nat, f \in Nat, o \in Nat, l \in Nat :
           a = Len(s) /\ f = Len(F) /\ o = Len(order) /\ l = Len(z) /\ l = a + (4 + f)
           /\ Len(b) = 4 + f
    <2>1. Len(s) \in Nat /\ Len(F) \in Nat /\ Len(order) \in Nat /\ Len(z) \in Nat
      BY <1>1
    <2> QED BY <1>8, <1>9, <2>1
  <1>11. PICK off : Offsets(off) /\ \A i \in Nat : off0[i] \in Nat /\ off[i] = (a + 4) + off0[i]
    <2>1. a + 4 \in Nat
      OBVIOUS
    <2>2. \A i \in Nat : off0[i] \in Nat
      BY <1>5, OffsetType
    <2>3. PICK off : Offsets(off) /\ \A i \in Nat : off[i] = (a + 4) + off0[i]
      BY <1>5, <2>1, OffsetsFrom
    <2> QED BY <2>2, <2>3
  <1>12. Reads(z, a, Int32(Len(order)))
    <2>1. ASSUME NEW k \in 1 .. 4 PROVE z[a + k] = c[k]
      <3>1. k \in 1 .. Len(b)
        BY <1>10, <2>1
      <3> QED BY <1>8, <1>9, <1>10, <3>1
    <2>2. a + 4 <= l
      BY <1>10
    <2> QED BY <1>6, <1>10, <2>1, <2>2 DEF Reads
  <1>13. \A k \in 1 .. f : z[(a + 4) + k] = F[k]
    <2>1. ASSUME NEW k \in 1 .. f PROVE z[(a + 4) + k] = F[k]
      <3>1. 4 + k \in 1 .. 4 + f /\ (a + 4) + k = a + (4 + k)
        BY <2>1
      <3>2. 4 + k \in 1 .. Len(b) /\ k \in 1 .. Len(F)
        BY <1>10, <2>1, <3>1, Zenon
      <3>3. z[a + (4 + k)] = b[4 + k] /\ b[4 + k] = F[k]
        <4>1. z[Len(s) + (4 + k)] = b[4 + k]
          BY <1>9, <3>2, Zenon
        <4>2. b[4 + k] = F[k]
          <5>1. k \in 1 .. Len(F)
            BY <3>2
          <5> QED BY <1>c, <5>1, Zenon
        <4>3. a = Len(s)
          BY <1>10
        <4> QED BY <4>1, <4>2, <4>3, Zenon
      <3> QED BY <3>1, <3>3
    <2> QED BY <2>1
  <1>14. ASSUME NEW i \in 1 .. Len(order)
         PROVE  /\ Reads(z, off[i - 1], Pair(order[i], h[order[i]]))
                /\ off[i] = off[i - 1] + (8 + Len(order[i]) + Size(h[order[i]]))
    <2>1. PICK p \in Seq(Bytes), w \in Nat : p = Pair(order[i], h[order[i]]) /\ p = P[i]
            /\ w = Len(p) /\ w = 8 + Len(order[i]) + Size(h[order[i]])
      <3>1. /\ Pair(order[i], h[order[i]]) \in Seq(Bytes) /\ P[i] = Pair(order[i], h[order[i]])
            /\ Len(Pair(order[i], h[order[i]])) = 8 + Len(order[i]) + Size(h[order[i]])
        BY <1>2, <1>4, <1>14
      <3>2. Len(Pair(order[i], h[order[i]])) \in Nat
        BY <3>1
      <3> QED BY <3>1, <3>2, Zenon
    <2>2. PICK u \in Nat, v \in Nat : u = off0[i - 1] /\ v = off0[i] /\ v = u + w
      <3>1. i \in Nat /\ i - 1 \in Nat
        BY <1>1
      <3>2. off0[i] = off0[i - 1] + Len(P[i])
        BY <1>3, <1>5, <1>14
      <3>3. off0[i - 1] \in Nat /\ off0[i] \in Nat
        BY <3>1, <1>11
      <3> QED BY <2>1, <3>2, <3>3
    <2>3. \A k \in 1 .. w : u + k <= f /\ F[u + k] = p[k]
      <3>1. i \in 1 .. Len(P) /\ Len(F) = off0[Len(P)]
        BY <1>3, <1>5 DEF Parts
      <3>2. \A k \in 1 .. Len(P[i]) :
               off0[i - 1] + k <= off0[Len(P)] /\ F[off0[i - 1] + k] = P[i][k]
        BY <1>5, <3>1 DEF Parts
      <3> QED BY <1>10, <2>1, <2>2, <3>1, <3>2
    <2>4. off[i - 1] = (a + 4) + u /\ off[i] = (a + 4) + v
      <3>1. i \in Nat /\ i - 1 \in Nat
        BY <1>1
      <3> QED BY <1>11, <2>2, <3>1
    <2>5. ASSUME NEW k \in 1 .. w PROVE z[((a + 4) + u) + k] = p[k]
      <3>1. u + k \in 1 .. f /\ ((a + 4) + u) + k = (a + 4) + (u + k)
        <4>1. u + k <= f
          BY <2>3, <2>5
        <4>2. k \in Nat /\ k >= 1
          BY <2>5
        <4> QED BY <4>1, <4>2
      <3>2. F[u + k] = p[k]
        BY <2>3, <2>5
      <3> QED BY <1>13, <3>1, <3>2
    <2>6. ((a + 4) + u) + w <= l
      <3>1. w > 0
        <4>1. order[i] \in Kept(h)
          BY <1>1, <1>14
        <4>2. Len(order[i]) \in 1 .. Word - 1
          BY <4>1, Values
        <4>3. Size(h[order[i]]) \in 0 .. Word - 1
          BY <4>1, WrittenLength
        <4>4. PICK x \in Nat, y \in Nat : x = Len(order[i]) /\ y = Size(h[order[i]])
          <5>1. \A m \in 1 .. Word - 1 : m \in Nat
            BY Constants
          <5> QED BY <4>2, <4>3, <5>1, Constants
        <4> QED BY <2>1, <4>4
      <3>2. w \in 1 .. w
        BY <3>1
      <3>3. u + w <= f
        BY <2>3, <3>2
      <3> QED BY <1>10, <3>3
    <2>7. Reads(z, off[i - 1], p)
      <3>1. Len(p) = w /\ Len(z) = l /\ off[i - 1] = (a + 4) + u
        BY <1>10, <2>1, <2>4, Zenon
      <3>2. Reads(z, (a + 4) + u, p)
        BY <2>5, <2>6, <3>1, Zenon DEF Reads
      <3> QED BY <3>1, <3>2, Zenon
    <2>8. (a + 4) + v = ((a + 4) + u) + w
      <3>1. (a + 4) + (u + w) = ((a + 4) + u) + w
        OBVIOUS
      <3> QED BY <2>2, <3>1, Zenon
    <2> QED BY <2>1, <2>4, <2>7, <2>8
  <1>15. off[0] = a + 4
    BY <1>5, <1>11
  <1>16. off[Len(order)] = l
    <2>1. off0[o] = f
      BY <1>3, <1>5, <1>10 DEF Parts
    <2>2. off[o] = (a + 4) + f
      BY <1>11, <2>1
    <2> QED BY <1>10, <2>2
  <1>17. Laid(z, a, l, h, order, off)
    BY <1>10, <1>12, <1>14, <1>15, <1>16 DEF Laid
  <1> QED BY <1>7, <1>8, <1>9, <1>10, <1>11, <1>17

-----------------------------------------------------------------------------
(* Types.                                                                  *)

Busy == at \in {"count", "pair", "name", "valueLength", "value"}

\* Where a block begins.
Start(b) == IF b = 1 THEN 0 ELSE ends[b - 1]

\* The reader is inside of a block that has been sent, or between two.
Inside ==
  /\ \E S : received \in Seq(S)
  /\ \A b \in 1 .. Len(ends) : Start(b) <= ends[b]
  /\ at = "idle" => pos = Start(Len(received) + 1)
  /\ Busy => Len(received) < Len(sent) /\ pos <= BlockEnd
  /\ at \in {"name", "valueLength", "value"} => pairs > 0

TypeInv == TypeOK /\ Inside

\* The numbers, without the sequences.
LEMMA Numbers ==
  ASSUME TypeInv
  PROVE  /\ pos \in Nat /\ Len(stream) \in Nat /\ pos <= Len(stream)
         /\ Len(received) \in Nat /\ Len(sent) \in Nat /\ Len(ends) = Len(sent)
         /\ Len(received) <= Len(sent)
         /\ \A b \in 1 .. Len(sent) : ends[b] \in Nat /\ ends[b] <= Len(stream)
         /\ \A b \in 1 .. Len(sent) + 1 : Start(b) \in Nat /\ Start(b) <= Len(stream)
         /\ stream \in Seq(Bytes)
  <1>1. /\ stream \in Seq(Bytes) /\ pos \in 0 .. Len(stream) /\ ends \in Seq(0 .. Len(stream))
        /\ Len(ends) = Len(sent) /\ sent \in Seq(HeaderMaps) /\ Len(received) <= Len(sent)
    BY DEF TypeInv, TypeOK
  <1>2. Len(received) \in Nat
    BY DEF TypeInv, Inside
  <1>3. PICK l \in Nat, n \in Nat : l = Len(stream) /\ n = Len(sent)
    BY <1>1
  <1>4. \A b \in 1 .. n : ends[b] \in 0 .. l
    BY <1>1, <1>3
  <1>5. \A b \in 1 .. n : ends[b] \in Nat /\ ends[b] <= l
    BY <1>4
  <1>6. \A b \in 1 .. n + 1 : Start(b) \in Nat /\ Start(b) <= l
    <2>1. ASSUME NEW b \in 1 .. n + 1, b # 1 PROVE ends[b - 1] \in Nat /\ ends[b - 1] <= l
      <3>1. b - 1 \in 1 .. n
        BY <2>1
      <3> QED BY <1>5, <3>1
    <2>2. 0 \in Nat /\ 0 <= l
      OBVIOUS
    <2> QED BY <2>1, <2>2 DEF Start
  <1>7. pos \in Nat /\ pos <= l
    BY <1>1, <1>3
  <1> QED BY <1>1, <1>2, <1>3, <1>5, <1>6, <1>7

\* What a Read gives is no more than what was asked for, and in the block.
LEMMA ReadInside ==
  ASSUME TypeInv, Busy, NEW size \in Nat
  PROVE  /\ BlockEnd \in Nat /\ BlockEnd <= Len(stream) /\ Ready \in Nat
         /\ Given(size) \in Nat /\ Given(size) <= size /\ pos + Given(size) <= BlockEnd
         /\ pos + Given(size) \in 0 .. Len(stream)
         /\ RunEnd >= BlockEnd /\ pos + size <= BlockEnd => Given(size) = size
  <1>1. PICK p \in Nat, l \in Nat, e \in Nat : /\ p = pos /\ l = Len(stream) /\ e = BlockEnd
                                               /\ p <= e /\ e <= l
    <2>1. Len(received) + 1 \in 1 .. Len(sent) /\ pos <= BlockEnd
      BY Numbers DEF TypeInv, Inside
    <2>2. BlockEnd \in Nat /\ BlockEnd <= Len(stream)
      BY <2>1, Numbers DEF BlockEnd
    <2> QED BY <2>1, <2>2, Numbers
  <1>2. PICK r \in Nat : r = RunEnd /\ r > p
    BY <1>1, RunIsAhead
  <1>3. Ready = IF r < e THEN r - p ELSE e - p
    BY <1>1, <1>2 DEF Ready
  <1>4. PICK d \in Nat : d = Ready /\ d = IF r < e THEN r - p ELSE e - p
    <2>1. r < e => r - p \in Nat
      BY <1>2
    <2>2. e - p \in Nat
      BY <1>1
    <2> QED BY <1>3, <2>1, <2>2
  <1>5. Given(size) = IF size < d THEN size ELSE d
    BY <1>4 DEF Given
  <1>6. PICK g \in Nat : g = Given(size) /\ g = IF size < d THEN size ELSE d
    BY <1>5
  <1>7. g <= size /\ p + g <= e /\ p + g \in 0 .. l
    BY <1>1, <1>2, <1>4, <1>6
  <1>8. r >= e /\ p + size <= e => g = size
    BY <1>1, <1>4, <1>6
  <1> QED BY <1>1, <1>2, <1>4, <1>6, <1>7, <1>8

\* A slice of a sequence, element by element.
LEMMA Slice ==
  ASSUME NEW S, NEW s \in Seq(S), NEW p \in Nat, NEW g \in Nat, p + g <= Len(s)
  PROVE  /\ SubSeq(s, p + 1, p + g) \in Seq(S) /\ Len(SubSeq(s, p + 1, p + g)) = g
         /\ \A k \in 1 .. g : SubSeq(s, p + 1, p + g)[k] = s[p + k]
  <1>1. Len(s) \in Nat /\ \A i \in 1 .. Len(s) : s[i] \in S
    OBVIOUS
  <1>2. \A i \in p + 1 .. p + g : s[i] \in S
    BY <1>1
  <1>3. SubSeq(s, p + 1, p + g) \in Seq(S)
    BY <1>2, SubSeqProperties
  <1>4. Len(SubSeq(s, p + 1, p + g)) = g
    BY SubSeqProperties
  <1>5. \A k \in 1 .. g : SubSeq(s, p + 1, p + g)[k] = s[p + k]
    OBVIOUS
  <1> QED BY <1>3, <1>4, <1>5

\* The first n elements.
LEMMA First ==
  ASSUME NEW S, NEW s \in Seq(S), NEW n \in Nat, n <= Len(s)
  PROVE  /\ SubSeq(s, 1, n) \in Seq(S) /\ Len(SubSeq(s, 1, n)) = n
         /\ \A k \in 1 .. n : SubSeq(s, 1, n)[k] = s[k]
  <1>1. 0 \in Nat /\ 0 + n <= Len(s) /\ 0 + 1 = 1 /\ 0 + n = n
    OBVIOUS
  <1>2. /\ SubSeq(s, 0 + 1, 0 + n) \in Seq(S) /\ Len(SubSeq(s, 0 + 1, 0 + n)) = n
        /\ \A k \in 1 .. n : SubSeq(s, 0 + 1, 0 + n)[k] = s[0 + k]
    BY <1>1, Slice, Zenon
  <1>3. \A k \in 1 .. n : 0 + k = k
    OBVIOUS
  <1>4. \A k \in 1 .. n : SubSeq(s, 1, n)[k] = s[k]
    BY <1>1, <1>2, <1>3, Zenon
  <1> QED BY <1>1, <1>2, <1>4, Zenon

\* A buffer that is filled keeps its length.
LEMMA FilledType ==
  ASSUME TypeInv, Busy, NEW buffer \in Seq(Bytes)
  PROVE  Filled(buffer) \in Seq(Bytes) /\ Len(Filled(buffer)) = Len(buffer)
  <1>1. PICK n \in Nat, g \in Nat : n = Len(buffer) /\ g = Given(Len(buffer)) /\ g <= n
            /\ pos + g <= Len(stream)
    <2>1. Len(buffer) \in Nat
      OBVIOUS
    <2> QED BY <2>1, ReadInside
  <1>2. pos \in Nat /\ stream \in Seq(Bytes) /\ Len(stream) \in Nat
    BY Numbers
  <1>3. PICK u \in Seq(Bytes) : u = SubSeq(stream, pos + 1, pos + g) /\ Len(u) = g
    <2>1. pos + g <= Len(stream)
      BY <1>1
    <2>2. SubSeq(stream, pos + 1, pos + g) \in Seq(Bytes) /\ Len(SubSeq(stream, pos + 1, pos + g)) = g
      BY <1>2, <2>1, Slice, SMTT(30)
    <2> QED BY <2>2, Zenon
  <1>4. PICK v \in Seq(Bytes) : v = SubSeq(buffer, g + 1, n) /\ Len(v) = n - g
    <2>1. g + (n - g) = n /\ n - g \in Nat
      BY <1>1
    <2>2. g + (n - g) <= Len(buffer)
      BY <1>1, <2>1
    <2>3. /\ SubSeq(buffer, g + 1, g + (n - g)) \in Seq(Bytes)
          /\ Len(SubSeq(buffer, g + 1, g + (n - g))) = n - g
      BY <2>1, <2>2, Slice
    <2> QED BY <2>1, <2>3, Zenon
  <1>5. Filled(buffer) = u \o v
    BY <1>1, <1>3, <1>4 DEF Filled
  <1>6. u \o v \in Seq(Bytes) /\ Len(u \o v) = Len(u) + Len(v)
    BY ConcatProperties
  <1>7. g + (n - g) = n
    OBVIOUS
  <1> QED BY <1>1, <1>3, <1>4, <1>5, <1>6, <1>7

\* A fresh buffer has the length it was made with.
LEMMA ZerosType ==
  ASSUME NEW n \in Nat
  PROVE  Zeros(n) \in Seq(Bytes) /\ Len(Zeros(n)) = n
  <1>1. 0 \in Bytes
    BY Constants DEF Bytes
  <1> QED BY <1>1 DEF Zeros

\* Sequences of four bytes are functions on 1 .. 4.
LEMMA FourBytes ==
  /\ \A c \in [1 .. 4 -> Bytes] : c \in Seq(Bytes) /\ Len(c) = 4 /\ \A i \in 1 .. 4 : c[i] \in Bytes
  /\ \A c \in Seq(Bytes) :
       Len(c) = 4 => c \in [1 .. 4 -> Bytes] /\ \A i \in 1 .. 4 : c[i] \in Bytes
  <1>1. ASSUME NEW c \in [1 .. 4 -> Bytes]
        PROVE  c \in Seq(Bytes) /\ Len(c) = 4 /\ \A i \in 1 .. 4 : c[i] \in Bytes
    <2>1. c \in Seq(Bytes)
      BY 4 \in Nat, SeqDef
    <2>2. Len(c) = 4
      OBVIOUS
    <2>3. \A i \in 1 .. 4 : c[i] \in Bytes
      OBVIOUS
    <2> QED BY <2>1, <2>2, <2>3
  <1>2. ASSUME NEW c \in Seq(Bytes), Len(c) = 4
        PROVE  c \in [1 .. 4 -> Bytes] /\ \A i \in 1 .. 4 : c[i] \in Bytes
    <2>1. DOMAIN c = 1 .. 4 /\ c = [i \in DOMAIN c |-> c[i]]
      BY <1>2
    <2>2. \A i \in 1 .. 4 : c[i] \in Bytes
      BY <1>2, ElementOfSeq
    <2>3. c \in [1 .. 4 -> Bytes]
      BY <2>1, <2>2
    <2> QED BY <2>2, <2>3
  <1> QED BY <1>1, <1>2

\* The four bytes of an integer.
LEMMA ChunkType ==
  ASSUME TypeInv
  PROVE  /\ chunk \in Seq(Bytes) /\ Len(chunk) = 4 /\ Value32(chunk) \in 0 .. Word - 1
         /\ Busy => /\ Filled(chunk) \in [1 .. 4 -> Bytes]
                    /\ Value32(Filled(chunk)) \in 0 .. Word - 1
  <1>1. chunk \in Seq(Bytes) /\ Len(chunk) = 4 /\ \A i \in 1 .. 4 : chunk[i] \in Bytes
    <2>1. chunk \in [1 .. 4 -> Bytes]
      BY DEF TypeInv, TypeOK
    <2> QED BY <2>1, FourBytes
  <1>2. ASSUME Busy
        PROVE  Filled(chunk) \in [1 .. 4 -> Bytes] /\ \A i \in 1 .. 4 : Filled(chunk)[i] \in Bytes
    <2>1. Filled(chunk) \in Seq(Bytes) /\ Len(Filled(chunk)) = 4
      BY <1>1, <1>2, FilledType
    <2> QED BY <2>1, FourBytes
  <1> QED BY <1>1, <1>2, ValueType

\* Nothing has been sent: the type invariant holds.
LEMMA TypeInit == Init => TypeInv
  <1> SUFFICES ASSUME Init PROVE TypeInv
    OBVIOUS
  <1>1. 0 \in Bytes /\ 0 \in 0 .. Word - 1 /\ 0 \in 0 .. Bounds /\ 0 <= MaxBlocks
    BY Constants DEF Bytes
  <1>2. <<>> \in Seq(HeaderMaps) /\ <<>> \in Seq(Bytes) /\ <<>> \in Seq(0 .. 0) /\ Len(<<>>) = 0
    OBVIOUS
  <1>3. DOMAIN None = {}
    BY DEF None
  <1>4. <<0, 0, 0, 0>> \in [1 .. 4 -> Bytes]
    BY <1>1
  <1>5. TypeOK
    <2>1. sent \in Seq(HeaderMaps) /\ Len(sent) <= MaxBlocks /\ Len(ends) = Len(sent)
      BY <1>1, <1>2 DEF Init
    <2>2. stream \in Seq(Bytes) /\ Len(stream) = 0 /\ ends \in Seq(0 .. 0)
      BY <1>2, Zenon DEF Init
    <2>3. pos \in 0 .. 0 /\ Len(received) <= Len(sent)
      BY DEF Init
    <2>4. name \in Seq(Bytes) /\ DOMAIN got \subseteq Seq(Bytes) /\ chunk \in [1 .. 4 -> Bytes]
      BY <1>2, <1>3, <1>4 DEF Init
    <2>5. pairs \in 0 .. Word - 1 /\ bounds \in 0 .. Bounds /\ cutShort \in BOOLEAN
      BY <1>1 DEF Init
    <2>6. sender = "up" /\ at = "idle"
      BY DEF Init
    <2> QED BY <2>1, <2>2, <2>3, <2>4, <2>5, <2>6 DEF TypeOK
  <1>6. Inside
    <2>1. received \in Seq({}) /\ Len(received) + 1 = 1 /\ Len(ends) = 0
      BY DEF Init
    <2> QED BY <2>1 DEF Init, Inside, Start, Busy
  <1> QED BY <1>5, <1>6 DEF TypeInv

\* What a reader's step leaves alone is what the sender has.
LEMMA SenderKept ==
  ASSUME TypeInv, UNCHANGED senderVars
  PROVE  /\ sent' \in Seq(HeaderMaps) /\ Len(sent') <= MaxBlocks /\ sender' \in {"up", "panicked"}
         /\ stream' \in Seq(Bytes) /\ ends' \in Seq(0 .. Len(stream')) /\ Len(ends') = Len(sent')
         /\ \A b \in 1 .. Len(ends') : Start(b)' <= ends'[b]
         /\ \A b : Start(b)' = Start(b)
         /\ sent' = sent /\ stream' = stream /\ ends' = ends /\ sender' = sender
  <1>1. sent' = sent /\ stream' = stream /\ ends' = ends /\ sender' = sender
    BY DEF senderVars
  <1>2. \A b : Start(b)' = Start(b)
    BY <1>1, Zenon DEF Start
  <1>3. \A b \in 1 .. Len(ends) : Start(b) <= ends[b]
    BY DEF TypeInv, Inside
  <1>4. \A b \in 1 .. Len(ends') : Start(b)' <= ends'[b]
    BY <1>1, <1>2, <1>3, Zenon
  <1>5. /\ sent \in Seq(HeaderMaps) /\ Len(sent) <= MaxBlocks /\ sender \in {"up", "panicked"}
        /\ stream \in Seq(Bytes) /\ ends \in Seq(0 .. Len(stream)) /\ Len(ends) = Len(sent)
    BY DEF TypeInv, TypeOK
  <1> QED BY <1>1, <1>2, <1>4, <1>5, Zenon

\* A Read leaves the reader in the block.
LEMMA ReadKeeps ==
  ASSUME TypeInv, Busy, NEW size \in Nat, Read(size), UNCHANGED <<senderVars, received>>
  PROVE  /\ pos' \in 0 .. Len(stream') /\ cutShort' \in BOOLEAN
         /\ Len(received') < Len(sent') /\ Len(received') <= Len(sent') /\ pos' <= BlockEnd'
         /\ \E S : received' \in Seq(S)
  <1>1. stream' = stream /\ sent' = sent /\ ends' = ends /\ received' = received
    BY DEF senderVars
  <1>2. pos' = pos + Given(size)
    BY DEF Read
  <1>3. pos' \in 0 .. Len(stream) /\ pos' <= BlockEnd
    BY <1>2, ReadInside
  <1>4. BlockEnd' = BlockEnd
    BY <1>1 DEF BlockEnd
  <1>5. /\ Len(received) < Len(sent) /\ Len(received) <= Len(sent)
        /\ \E S : received \in Seq(S)
    BY DEF TypeInv, TypeOK, Inside
  <1>6. cutShort' \in BOOLEAN
    BY DEF TypeInv, TypeOK, Read
  <1> QED BY <1>1, <1>3, <1>4, <1>5, <1>6

\* The reads keep the type invariant.
LEMMA ReadSteps ==
  ASSUME TypeInv, ReadCount \/ ReadNameLength \/ ReadName \/ ReadValueLength \/ ReadValue
  PROVE  TypeInv'
  <1>1. /\ chunk \in [1 .. 4 -> Bytes] /\ pairs \in 0 .. Word - 1 /\ bounds \in 0 .. Bounds
        /\ name \in Seq(Bytes) /\ DOMAIN got \subseteq Seq(Bytes)
    BY DEF TypeInv, TypeOK
  <1>2. 4 \in Nat
    OBVIOUS
  <1>3. Value32(chunk) \in Nat
    BY ChunkType, Constants
  <1>4. CASE ReadCount
    <2>1. Busy /\ at' = "pair" /\ Read(4) /\ UNCHANGED <<senderVars, received>>
          /\ chunk' = Filled(chunk) /\ pairs' = Value32(Filled(chunk))
          /\ bounds' = bounds /\ name' = name /\ got' = got
      BY <1>4 DEF ReadCount, Busy
    <2>2. chunk' \in [1 .. 4 -> Bytes] /\ pairs' \in 0 .. Word - 1
      BY <2>1, ChunkType
    <2>3. TypeOK'
      BY <1>1, <1>2, <2>1, <2>2, SenderKept, ReadKeeps DEF TypeOK
    <2>4. Inside'
      BY <1>2, <2>1, SenderKept, ReadKeeps DEF Inside
    <2> QED BY <2>3, <2>4 DEF TypeInv
  <1>5. ASSUME NEW from, NEW to, from \in {"pair", "valueLength"}, to \in {"name", "value"},
               ReadLength(from, to), UNCHANGED <<senderVars, pairs, name, got, received>>, pairs > 0
        PROVE  TypeInv'
    <2>1. Busy /\ at' \in {"ended", "name", "value"} /\ Read(4) /\ UNCHANGED <<senderVars, received>>
          /\ chunk' = Filled(chunk) /\ pairs' = pairs /\ name' = name /\ got' = got
      BY <1>5 DEF ReadLength, Busy
    <2>2. chunk' \in [1 .. 4 -> Bytes] /\ Value32(chunk') \in 0 .. Word - 1
      BY <2>1, ChunkType
    <2>3. bounds' \in 0 .. Bounds
      <3>1. PICK v \in Nat : v = Value32(chunk')
        BY <2>2, Constants
      <3>2. CASE v > bounds
        BY <1>1, <1>5, <3>1, <3>2 DEF ReadLength, TooLong
      <3>3. CASE ~(v > bounds)
        <4>1. bounds' = bounds - v
          BY <1>5, <3>1, <3>3 DEF ReadLength, TooLong
        <4> QED BY <1>1, <3>1, <3>3, <4>1, Constants
      <3> QED BY <3>2, <3>3
    <2>4. TypeOK'
      BY <1>1, <1>2, <2>1, <2>2, <2>3, SenderKept, ReadKeeps DEF TypeOK
    <2>5. Inside'
      BY <1>2, <1>5, <2>1, SenderKept, ReadKeeps DEF Inside
    <2> QED BY <2>4, <2>5 DEF TypeInv
  <1>6. CASE ReadNameLength
    <2>1. ReadLength("pair", "name") /\ pairs > 0
          /\ UNCHANGED <<senderVars, pairs, name, got, received>>
      BY <1>6 DEF ReadNameLength
    <2> QED BY <1>5, <2>1
  <1>7. CASE ReadValueLength
    <2>1. ReadLength("valueLength", "value") /\ UNCHANGED <<senderVars, pairs, name, got, received>>
      BY <1>7 DEF ReadValueLength
    <2>2. at = "valueLength"
      BY <2>1 DEF ReadLength
    <2>3. pairs > 0
      BY <2>2 DEF TypeInv, Inside
    <2> QED BY <1>5, <2>1, <2>3
  <1>8. CASE ReadName
    <2>1. Busy /\ at = "name" /\ at' = "valueLength" /\ UNCHANGED <<senderVars, received>>
          /\ name' = Filled(Zeros(Value32(chunk))) /\ Read(Len(name'))
          /\ chunk' = chunk /\ pairs' = pairs /\ bounds' = bounds /\ got' = got
      BY <1>8 DEF ReadName, Busy
    <2>2. name' \in Seq(Bytes) /\ Len(name') \in Nat
      <3>1. Zeros(Value32(chunk)) \in Seq(Bytes)
        BY <1>3, ZerosType
      <3>2. name' \in Seq(Bytes)
        BY <2>1, <3>1, FilledType
      <3> QED BY <3>2
    <2>3. PICK size \in Nat : Read(size)
      BY <2>1, <2>2
    <2>4. TypeOK'
      BY <1>1, <2>1, <2>2, <2>3, SenderKept, ReadKeeps DEF TypeOK
    <2>5. pairs > 0
      BY <2>1 DEF TypeInv, Inside
    <2>6. Inside'
      BY <2>1, <2>3, <2>5, SenderKept, ReadKeeps DEF Inside
    <2> QED BY <2>4, <2>6 DEF TypeInv
  <1>9. CASE ReadValue
    <2>1. Busy /\ at = "value" /\ at' = "pair" /\ UNCHANGED <<senderVars, received>>
          /\ Read(Len(Zeros(Value32(chunk)))) /\ pairs' = pairs - 1
          /\ chunk' = chunk /\ name' = name /\ bounds' = bounds
      BY <1>9 DEF ReadValue, Busy
    <2>2. Len(Zeros(Value32(chunk))) \in Nat
      BY <1>3, ZerosType
    <2>3. DOMAIN got' \subseteq Seq(Bytes)
      <3>1. PICK values : got' = Added(got, Canonical(name), values)
        BY <1>9 DEF ReadValue
      <3>2. DOMAIN got' = {Canonical(name)} \cup DOMAIN got
        BY <3>1 DEF Added
      <3>3. Canonical(name) \in Seq(Bytes)
        BY <1>1, Lowered
      <3> QED BY <1>1, <3>2, <3>3
    <2>4. pairs' \in 0 .. Word - 1
      <3>1. pairs > 0
        BY <2>1 DEF TypeInv, Inside
      <3> QED BY <1>1, <2>1, <3>1, Constants
    <2>5. PICK size \in Nat : Read(size)
      BY <2>1, <2>2
    <2>6. TypeOK'
      BY <1>1, <2>1, <2>3, <2>4, <2>5, SenderKept, ReadKeeps DEF TypeOK
    <2>7. Inside'
      BY <2>1, <2>5, SenderKept, ReadKeeps DEF Inside
    <2> QED BY <2>6, <2>7 DEF TypeInv
  <1> QED BY <1>4, <1>6, <1>7, <1>8, <1>9

\* So do the steps of Decompress that read nothing.
LEMMA OtherSteps ==
  ASSUME TypeInv, Decompress \/ ReadFails \/ Decompressed \/ UNCHANGED vars
  PROVE  TypeInv'
  <1>1. /\ chunk \in [1 .. 4 -> Bytes] /\ pairs \in 0 .. Word - 1 /\ bounds \in 0 .. Bounds
        /\ name \in Seq(Bytes) /\ DOMAIN got \subseteq Seq(Bytes) /\ pos \in 0 .. Len(stream)
        /\ Len(received) <= Len(sent) /\ cutShort \in BOOLEAN
        /\ at \in {"idle", "count", "pair", "name", "valueLength", "value", "ended", "panicked",
                   "astray"}
    BY DEF TypeInv, TypeOK
  <1>2. UNCHANGED senderVars
    BY DEF Decompress, ReadFails, Decompressed, vars
  <1>3. pos' = pos /\ stream' = stream /\ sent' = sent /\ ends' = ends
    BY <1>2 DEF Decompress, ReadFails, Decompressed, vars, senderVars
  <1>4. PICK S : received \in Seq(S)
    BY DEF TypeInv, Inside
  <1>5. CASE Decompress
    <2>1. /\ at = "idle" /\ at' = "count" /\ Len(received) < Len(sent) /\ received' = received
          /\ chunk' = Zeros(4) /\ bounds' = Bounds /\ got' = None /\ pairs' = pairs
          /\ name' = name /\ cutShort' = cutShort
      BY <1>5 DEF Decompress, FreshBounds
    <2>2. chunk' \in [1 .. 4 -> Bytes]
      BY <2>1, ZerosType, FourBytes
    <2>3. bounds' \in 0 .. Bounds /\ DOMAIN got' = {}
      BY <2>1, Constants DEF None
    <2>4. TypeOK'
      BY <1>1, <1>2, <1>3, <2>1, <2>2, <2>3, SenderKept DEF TypeOK
    <2>5. pos' <= BlockEnd'
      <3>1. pos = Start(Len(received) + 1) /\ BlockEnd' = BlockEnd
        BY <1>3, <2>1 DEF TypeInv, Inside, BlockEnd
      <3>2. Len(received) + 1 \in 1 .. Len(ends)
        BY <2>1, Numbers
      <3>3. Start(Len(received) + 1) <= ends[Len(received) + 1]
        BY <3>2 DEF TypeInv, Inside
      <3> QED BY <1>3, <3>1, <3>3 DEF BlockEnd
    <2>6. Inside'
      BY <1>2, <1>3, <1>4, <2>1, <2>5, SenderKept DEF Inside
    <2> QED BY <2>4, <2>6 DEF TypeInv
  <1>6. CASE ReadFails
    <2>1. /\ at' \in {"panicked", "ended"} /\ received' = received
          /\ chunk' = chunk /\ bounds' = bounds /\ got' = got /\ pairs' = pairs
          /\ name' = name /\ cutShort' = cutShort
      BY <1>6 DEF ReadFails
    <2>2. TypeOK'
      BY <1>1, <1>2, <1>3, <2>1, SenderKept DEF TypeOK
    <2>3. Inside'
      BY <1>2, <1>4, <2>1, SenderKept DEF Inside, Busy
    <2> QED BY <2>2, <2>3 DEF TypeInv
  <1>7. CASE Decompressed
    <2>1. /\ at = "pair" /\ Busy /\ at' \in {"idle", "astray"} /\ received' = Append(received, got)
          /\ (at' = "idle" => pos = BlockEnd)
          /\ chunk' = chunk /\ bounds' = bounds /\ got' = got /\ pairs' = pairs
          /\ name' = name /\ cutShort' = cutShort
      BY <1>7 DEF Decompressed, Busy
    <2>2. received' \in Seq(S \cup {got}) /\ Len(received') = Len(received) + 1
      <3>1. received \in Seq(S \cup {got})
        BY <1>4, SeqMonotonic
      <3> QED BY <2>1, <3>1, AppendProperties
    <2>3. Len(received) < Len(sent) /\ Len(received) \in Nat /\ Len(sent) \in Nat
      BY <2>1, Numbers DEF TypeInv, Inside
    <2>4. Len(received') <= Len(sent')
      BY <1>3, <2>2, <2>3
    <2>5. TypeOK'
      BY <1>1, <1>2, <1>3, <2>1, <2>4, SenderKept DEF TypeOK
    <2>6. at' = "idle" => pos' = Start(Len(received) + 1)'
      <3>1. Len(received') + 1 # 1 /\ (Len(received') + 1) - 1 = Len(received) + 1
        BY <2>2, <2>3
      <3>2. Start(Len(received) + 1)' = BlockEnd
        BY <1>3, <3>1, Zenon DEF Start, BlockEnd
      <3> QED BY <1>3, <2>1, <3>2
    <2>7. Inside'
      <3>1. ~Busy' /\ at' \notin {"name", "valueLength", "value"}
        BY <2>1 DEF Busy
      <3> QED BY <1>2, <2>2, <2>6, <3>1, SenderKept DEF Inside
    <2> QED BY <2>5, <2>7 DEF TypeInv
  <1>8. CASE UNCHANGED vars
    BY <1>8 DEF TypeInv, TypeOK, Inside, Busy, BlockEnd, Start, vars, senderVars
  <1> QED BY <1>5, <1>6, <1>7, <1>8

\* So does a block compressed.
LEMMA CompressStep ==
  ASSUME TypeInv, NEW h \in HeaderMaps, Compress(h)
  PROVE  TypeInv'
  <1>1. /\ chunk \in [1 .. 4 -> Bytes] /\ pairs \in 0 .. Word - 1 /\ bounds \in 0 .. Bounds
        /\ name \in Seq(Bytes) /\ DOMAIN got \subseteq Seq(Bytes) /\ pos \in 0 .. Len(stream)
        /\ Len(received) <= Len(sent) /\ cutShort \in BOOLEAN
        /\ at \in {"idle", "count", "pair", "name", "valueLength", "value", "ended", "panicked",
                   "astray"}
        /\ sent \in Seq(HeaderMaps) /\ Len(sent) <= MaxBlocks /\ stream \in Seq(Bytes)
        /\ ends \in Seq(0 .. Len(stream)) /\ Len(ends) = Len(sent)
    BY DEF TypeInv, TypeOK
  <1>2. /\ Inside
        /\ at' = at /\ pos' = pos /\ chunk' = chunk /\ pairs' = pairs /\ bounds' = bounds
        /\ name' = name /\ got' = got /\ received' = received /\ cutShort' = cutShort
    BY DEF Compress, TypeInv
  <1>3. CASE Overflows(h)
    <2>1. sender' = "panicked" /\ sent' = sent /\ stream' = stream /\ ends' = ends
      BY <1>3 DEF Compress
    <2>2. TypeOK'
      BY <1>1, <1>2, <2>1 DEF TypeOK
    <2>3. Inside'
      BY <1>2, <2>1 DEF Inside, Busy, BlockEnd, Start
    <2> QED BY <2>2, <2>3 DEF TypeInv
  <1>4. CASE ~Overflows(h)
    <2>1. PICK order \in SetToSeqs(Kept(h)) :
            /\ stream' = stream \o Block(h, order)
            /\ ends' = Append(ends, Len(stream'))
            /\ sent' = Append(sent, h)
            /\ sender' = sender /\ sender = "up" /\ Len(sent) < MaxBlocks
      BY <1>4 DEF Compress
    <2>2. PICK l \in Nat, m \in Nat, n \in Nat :
            l = Len(stream) /\ m = Len(stream') /\ n = Len(sent) /\ l <= m /\ stream' \in Seq(Bytes)
      <3>1. /\ Block(h, order) \in Seq(Bytes) /\ stream' \in Seq(Bytes)
            /\ Len(stream') = Len(stream) + Len(Block(h, order))
        BY <1>1, <1>4, <2>1, BlockLaid
      <3>2. Len(Block(h, order)) \in Nat /\ Len(stream) \in Nat /\ Len(sent) \in Nat
        BY <1>1, <3>1
      <3> QED BY <3>1, <3>2
    <2>3. ends \in Seq(0 .. m) /\ m \in 0 .. m
      <3>1. 0 .. l \subseteq 0 .. m
        BY <2>2
      <3> QED BY <1>1, <2>2, <3>1, SeqMonotonic
    <2>4. /\ ends' \in Seq(0 .. m) /\ Len(ends') = n + 1 /\ ends'[n + 1] = m
          /\ \A b \in 1 .. n : ends'[b] = ends[b]
      <3>1. ends' = Append(ends, m) /\ Len(ends) = n
        BY <1>1, <2>1, <2>2
      <3> QED BY <2>3, <3>1, AppendProperties
    <2>5. sent' \in Seq(HeaderMaps) /\ Len(sent') = n + 1
      BY <1>1, <2>1, <2>2, AppendProperties
    <2>6. TypeOK'
      <3>1. Len(sent') <= MaxBlocks /\ Len(received') <= Len(sent')
        <4>1. Len(received) \in Nat
          BY Numbers
        <4> QED BY <1>1, <1>2, <2>1, <2>2, <2>5, <4>1, Constants
      <3>2. pos' \in 0 .. Len(stream')
        BY <1>1, <1>2, <2>2
      <3>3. ends' \in Seq(0 .. Len(stream')) /\ Len(ends') = Len(sent')
        BY <2>2, <2>4, <2>5
      <3> QED BY <1>1, <1>2, <2>1, <2>2, <2>5, <3>1, <3>2, <3>3 DEF TypeOK
    <2>7. \A b \in 1 .. n + 1 : Start(b)' = Start(b)
      <3>1. ASSUME NEW b \in 1 .. n + 1, b # 1 PROVE ends'[b - 1] = ends[b - 1]
        <4>1. b - 1 \in 1 .. n
          BY <3>1
        <4> QED BY <2>4, <4>1
      <3> QED BY <3>1, Zenon DEF Start
    <2>8. ASSUME NEW b \in 1 .. n + 1 PROVE Start(b)' <= ends'[b]
      <3>1. CASE b = n + 1
        <4>1. Start(b) <= Len(stream) /\ Start(b) \in Nat
          BY <2>2, <2>8, Numbers
        <4> QED BY <2>2, <2>4, <2>7, <2>8, <3>1, <4>1
      <3>2. CASE b # n + 1
        <4>1. b \in 1 .. n
          BY <2>8, <3>2
        <4>2. Start(b) <= ends[b]
          BY <1>1, <1>2, <2>2, <4>1 DEF Inside
        <4> QED BY <2>4, <2>7, <2>8, <4>1, <4>2
      <3> QED BY <3>1, <3>2
    <2>9. PICK r \in Nat : r = Len(received) /\ r <= n
      BY <1>1, <2>2, Numbers
    <2>10. at' = "idle" => pos' = Start(Len(received) + 1)'
      <3>1. r + 1 \in 1 .. n + 1
        BY <2>9
      <3>2. Start(r + 1)' = Start(r + 1)
        BY <2>7, <3>1
      <3>3. Start(Len(received) + 1)' = Start(r + 1)' /\ Start(Len(received) + 1) = Start(r + 1)
        BY <1>2, <2>9, Zenon DEF Start
      <3> QED BY <1>2, <3>2, <3>3, Zenon DEF Inside
    <2>11. Busy' => Len(received') < Len(sent') /\ pos' <= BlockEnd'
      <3> SUFFICES ASSUME Busy' PROVE Len(received') < Len(sent') /\ pos' <= BlockEnd'
        OBVIOUS
      <3>1. Busy
        BY <1>2 DEF Busy
      <3>2. r < n /\ pos <= BlockEnd
        BY <1>2, <2>2, <2>9, <3>1 DEF Inside
      <3>3. r + 1 \in 1 .. n
        BY <3>2
      <3>4. BlockEnd' = BlockEnd
        BY <1>2, <2>4, <2>9, <3>3, Zenon DEF BlockEnd
      <3> QED BY <1>2, <2>5, <2>9, <3>2, <3>4
    <2>12. Inside'
      <3>1. Len(ends') = n + 1
        BY <2>4
      <3> QED BY <1>2, <2>8, <2>10, <2>11, <3>1 DEF Inside
    <2> QED BY <2>6, <2>12 DEF TypeInv
  <1> QED BY <1>3, <1>4

\* Every step keeps the type invariant.
LEMMA TypeStep == TypeInv /\ [Next]_vars => TypeInv'
  BY ReadSteps, OtherSteps, CompressStep DEF Next

\* The sender and the reader stay within their types (compression.go 20-194).
THEOREM TypeCorrect == Spec => []TypeOK
  <1>1. TypeInv => TypeOK
    BY DEF TypeInv
  <1> QED BY <1>1, TypeInit, TypeStep, PTL DEF Spec

-----------------------------------------------------------------------------
(* Sums.                                                                   *)

\* f sums what w gives for the elements of a set, in the order of CHOOSE.
Sums(f, w, D) ==
  \A s \in SUBSET D :
    f[s] = IF s = {} THEN 0
           ELSE w[CHOOSE x \in s : TRUE] + f[s \ {CHOOSE x \in s : TRUE}]

\* The sum over the subsets of a finite set exists.
LEMMA SumExists ==
  ASSUME NEW D, IsFiniteSet(D), NEW w \in [D -> Nat]
  PROVE  \E f \in [SUBSET D -> Nat] : Sums(f, w, D)
  <1> DEFINE step == [z \in D \X Nat |-> w[z[1]] + z[2]]
             pick == [s \in SUBSET D |-> CHOOSE x \in s : TRUE]
  <1>1. step \in [D \X Nat -> Nat] /\ \A x \in D, n \in Nat : step[<<x, n>>] = w[x] + n
    <2>1. ASSUME NEW z \in D \X Nat PROVE w[z[1]] + z[2] \in Nat
      <3>1. z[2] \in Nat /\ z[1] \in D
        BY <2>1
      <3>2. w[z[1]] \in Nat
        BY <3>1
      <3> QED BY <3>1, <3>2
    <2>2. step \in [D \X Nat -> Nat]
      BY <2>1
    <2>3. ASSUME NEW x \in D, NEW n \in Nat PROVE step[<<x, n>>] = w[x] + n
      BY <2>3
    <2> QED BY <2>2, <2>3
  <1>2. \A s \in SUBSET D : pick[s] = (CHOOSE x \in s : TRUE) /\ (s # {} => pick[s] \in s)
    OBVIOUS
  <1> HIDE DEF step, pick
  <1>3. PICK f \in [SUBSET D -> Nat] : Folds(f, SUBSET D, 0, step, pick)
    <2>1. 0 \in Nat /\ step \in [D \X Nat -> Nat] /\ \A s \in SUBSET D : s # {} => pick[s] \in s
      BY <1>1, <1>2
    <2> QED BY <2>1, FoldExists
  <1>4. ASSUME NEW s \in SUBSET D, s # {}
        PROVE  step[<<pick[s], f[s \ {pick[s]}]>>] = w[pick[s]] + f[s \ {pick[s]}]
    <2>1. pick[s] \in D /\ s \ {pick[s]} \in SUBSET D
      BY <1>2, <1>4
    <2>2. f[s \ {pick[s]}] \in Nat
      BY <2>1, <1>3
    <2> QED BY <1>1, <2>1, <2>2
  <1>5. Sums(f, w, D)
    BY <1>2, <1>3, <1>4, Zenon DEF Sums, Folds
  <1> QED BY <1>5

\* Any element may be taken out first.
Removes(f, w, D) == \A s \in SUBSET D : \A y \in s : f[s] = w[y] + f[s \ {y}]

\* A sum is the weight of any one member and the sum over the rest.
LEMMA SumRemoves ==
  ASSUME NEW D, IsFiniteSet(D), NEW w, \A x \in D : w[x] \in Nat,
         NEW f, \A s \in SUBSET D : f[s] \in Nat, Sums(f, w, D)
  PROVE  Removes(f, w, D)
  <1> DEFINE K == {k \in Nat : \A s \in SUBSET D : \A y \in s :
                                 Cardinality(s) <= k => f[s] = w[y] + f[s \ {y}]}
  <1>1. \A s \in SUBSET D : /\ IsFiniteSet(s) /\ Cardinality(s) \in Nat
                            /\ Cardinality(s) <= Cardinality(D)
                            /\ (Cardinality(s) = 0 => s = {})
    BY FS_Subset, FS_CardinalityType, FS_EmptySet
  <1>2. 0 \in K
    <2>1. ASSUME NEW s \in SUBSET D, NEW y \in s, Cardinality(s) <= 0 PROVE FALSE
      <3>1. Cardinality(s) = 0
        BY <1>1, <2>1
      <3> QED BY <1>1, <2>1, <3>1
    <2> QED BY <2>1
  <1>3. ASSUME NEW k \in Nat, k \in K PROVE k + 1 \in K
    <2> SUFFICES ASSUME NEW s \in SUBSET D, NEW y \in s, Cardinality(s) <= k + 1
                 PROVE  f[s] = w[y] + f[s \ {y}]
      BY <1>3
    <2>1. PICK x \in s : x = CHOOSE z \in s : TRUE
      OBVIOUS
    <2>2. f[s] = w[x] + f[s \ {x}]
      BY <2>1, Zenon DEF Sums
    <2>3. CASE x = y
      BY <2>2, <2>3
    <2>4. CASE x # y
      <3>1. ASSUME NEW z \in s PROVE s \ {z} \in SUBSET D /\ Cardinality(s \ {z}) <= k
        <4>1. IsFiniteSet(s) /\ Cardinality(s) \in Nat
          BY <1>1
        <4>2. Cardinality(s \ {z}) = Cardinality(s) - 1
          BY <3>1, <4>1, FS_RemoveElement
        <4>3. Cardinality(s) - 1 <= k
          BY <1>3, <4>1
        <4> QED BY <4>2, <4>3
      <3>2. f[s \ {x}] = w[y] + f[(s \ {x}) \ {y}]
        <4>1. y \in s \ {x} /\ s \ {x} \in SUBSET D /\ Cardinality(s \ {x}) <= k
          BY <2>4, <3>1
        <4> QED BY <1>3, <4>1
      <3>3. f[s \ {y}] = w[x] + f[(s \ {y}) \ {x}]
        <4>1. x \in s \ {y} /\ s \ {y} \in SUBSET D /\ Cardinality(s \ {y}) <= k
          BY <2>4, <3>1
        <4> QED BY <1>3, <4>1
      <3>4. PICK rest \in SUBSET D : rest = (s \ {x}) \ {y} /\ rest = (s \ {y}) \ {x}
        OBVIOUS
      <3>5. PICK a \in Nat, b \in Nat, c \in Nat : a = f[rest] /\ b = w[x] /\ c = w[y]
        OBVIOUS
      <3>6. f[s \ {x}] = c + a /\ f[s \ {y}] = b + a
        BY <3>2, <3>3, <3>4, <3>5
      <3>7. b + (c + a) = c + (b + a)
        OBVIOUS
      <3> QED BY <2>2, <3>5, <3>6, <3>7
    <2> QED BY <2>3, <2>4
  <1>4. PICK n \in Nat : n = Cardinality(D)
    BY FS_CardinalityType
  <1>5. n \in K
    <2> HIDE DEF K
    <2> QED BY <1>2, <1>3, Induction
  <1> QED BY <1>1, <1>4, <1>5 DEF Removes

\* A sum of numbers is a number.
LEMMA SumType ==
  ASSUME NEW D, IsFiniteSet(D), NEW w, \A x \in D : w[x] \in Nat, NEW f, Sums(f, w, D)
  PROVE  \A s \in SUBSET D : f[s] \in Nat
  <1> DEFINE K == {k \in Nat : \A s \in SUBSET D : Cardinality(s) <= k => f[s] \in Nat}
  <1>1. \A s \in SUBSET D : /\ IsFiniteSet(s) /\ Cardinality(s) \in Nat
                            /\ Cardinality(s) <= Cardinality(D)
                            /\ (Cardinality(s) = 0 => s = {})
    BY FS_Subset, FS_CardinalityType, FS_EmptySet
  <1>2. 0 \in K
    <2>1. ASSUME NEW s \in SUBSET D, Cardinality(s) <= 0 PROVE f[s] \in Nat
      <3>1. Cardinality(s) = 0
        BY <1>1, <2>1
      <3>2. s = {}
        BY <1>1, <3>1
      <3>3. f[s] = 0
        BY <3>2, Zenon DEF Sums
      <3> QED BY <3>3
    <2> QED BY <2>1
  <1>3. ASSUME NEW k \in Nat, k \in K PROVE k + 1 \in K
    <2> SUFFICES ASSUME NEW s \in SUBSET D, Cardinality(s) <= k + 1, s # {} PROVE f[s] \in Nat
      <3>1. f[{}] = 0
        BY {} \in SUBSET D, Zenon DEF Sums
      <3>2. \A s \in SUBSET D : s = {} => f[s] \in Nat
        BY <3>1
      <3> QED BY <1>3, <3>2
    <2>1. PICK x \in s : x = CHOOSE z \in s : TRUE
      OBVIOUS
    <2>2. f[s] = w[x] + f[s \ {x}]
      BY <2>1, Zenon DEF Sums
    <2>3. s \ {x} \in SUBSET D /\ Cardinality(s \ {x}) <= k
      <3>1. IsFiniteSet(s) /\ Cardinality(s) \in Nat
        BY <1>1
      <3>2. Cardinality(s \ {x}) = Cardinality(s) - 1
        BY <3>1, FS_RemoveElement
      <3>3. Cardinality(s) - 1 <= k
        BY <1>3, <3>1
      <3> QED BY <3>2, <3>3
    <2>4. f[s \ {x}] \in Nat
      BY <1>3, <2>3
    <2> QED BY <2>2, <2>4
  <1>4. PICK n \in Nat : n = Cardinality(D)
    BY FS_CardinalityType
  <1>5. n \in K
    <2> HIDE DEF K
    <2> QED BY <1>2, <1>3, Induction
  <1> QED BY <1>1, <1>4, <1>5

\* The bytes of a header map are those of its names and of their values.
LEMMA SizeSums ==
  ASSUME NEW h \in HeaderMaps, ~Overflows(h), IsFiniteSet(Kept(h))
  PROVE  \E f : /\ \A s \in SUBSET Kept(h) : f[s] \in Nat
                /\ f[{}] = 0
                /\ \A s \in SUBSET Kept(h) : \A n \in s :
                     f[s] = (Len(n) + Size(h[n])) + f[s \ {n}]
                /\ f[Kept(h)] = HeaderSize(h)
  <1> DEFINE D == Kept(h)
             v == [n \in D |-> Len(n) + ValueBytes(h[n])]
             Is(f) == f = [s \in SUBSET D |->
                             IF s = {} THEN 0
                             ELSE Len(CHOOSE x \in s : TRUE) + ValueBytes(h[CHOOSE x \in s : TRUE])
                                    + f[s \ {CHOOSE x \in s : TRUE}]]
             f == CHOOSE g : Is(g)
  <1>1. ASSUME NEW n \in D
        PROVE  Len(n) \in Nat /\ Size(h[n]) \in Nat /\ ValueBytes(h[n]) = Size(h[n])
    <2>1. Len(n) \in 1 .. Word - 1 /\ h[n] \in Seq(Seq(1 .. Base - 1)) /\ Len(h[n]) \in {0, 1}
      BY Values
    <2>2. Size(h[n]) \in 0 .. Word - 1
      BY WrittenLength
    <2>3. Len(h[n]) <= 1
      <3>1. \A l \in {0, 1} : l <= 1
        OBVIOUS
      <3> QED BY <2>1, <3>1, Zenon
    <2>4. ValueBytes(h[n]) = Size(h[n])
      BY <2>1, <2>3, BytesOfOne DEF Size
    <2>5. \A m \in 1 .. Word - 1 : m \in Nat
      BY Constants
    <2> QED BY <2>1, <2>2, <2>4, <2>5, Constants
  <1>2. v \in [D -> Nat] /\ \A n \in D : v[n] = Len(n) + Size(h[n]) /\ v[n] \in Nat
    BY <1>1
  <1>3. \A n \in D : v[n] = Len(n) + ValueBytes(h[n])
    OBVIOUS
  <1> HIDE DEF v
  <1>4. PICK g \in [SUBSET D -> Nat] : Sums(g, v, D)
    BY <1>2, SumExists
  <1>5. \A s \in SUBSET D : s # {} => (CHOOSE x \in s : TRUE) \in D
    OBVIOUS
  <1>6. Is(g)
    <2>1. g = [s \in SUBSET D |-> g[s]]
      BY <1>4
    <2>2. \A s \in SUBSET D : g[s] =
             IF s = {} THEN 0
             ELSE Len(CHOOSE x \in s : TRUE) + ValueBytes(h[CHOOSE x \in s : TRUE])
                                    + g[s \ {CHOOSE x \in s : TRUE}]
      BY <1>3, <1>4, <1>5, Zenon DEF Sums
    <2> QED BY <2>1, <2>2, Zenon
  <1>7. Is(f)
    BY <1>6, Zenon
  <1>8. HeaderSize(h) = f[D]
    BY Zenon DEF HeaderSize, FoldSet, MapThenFoldSet
  <1> HIDE DEF f
  <1>9. Sums(f, v, D)
    BY <1>3, <1>5, <1>7, Zenon DEF Sums
  <1>10. \A s \in SUBSET D : f[s] \in Nat
    BY <1>2, <1>9, SumType
  <1>11. \A s \in SUBSET D : \A y \in s : f[s] = v[y] + f[s \ {y}]
    <2>1. \A x \in D : v[x] \in Nat
      BY <1>2
    <2>2. IsFiniteSet(D)
      OBVIOUS
    <2> HIDE DEF D
    <2>3. Removes(f, v, D)
      BY <1>9, <1>10, <2>1, <2>2, SumRemoves
    <2> QED BY <2>3 DEF Removes
  <1>12. f[{}] = 0
    BY <1>9, {} \in SUBSET D, Zenon DEF Sums
  <1>13. ASSUME NEW s \in SUBSET D, NEW n \in s
         PROVE  f[s] = (Len(n) + Size(h[n])) + f[s \ {n}]
    <2>1. n \in D
      OBVIOUS
    <2>2. f[s] = v[n] + f[s \ {n}] /\ v[n] = Len(n) + Size(h[n])
      BY <1>2, <1>11, <2>1, Zenon
    <2> QED BY <2>2
  <1> QED BY <1>8, <1>10, <1>12, <1>13

-----------------------------------------------------------------------------
(* One value.                                                              *)

\* The step of bytes.Split for a byte that is not NUL.
Longer(vs, b) == [vs EXCEPT ![Len(vs)] = Append(@, b)]

\* A byte after the only text.
LEMMA LongerOne ==
  ASSUME NEW S, NEW u \in Seq(S), NEW b \in S
  PROVE  Longer(<<u>>, b) = <<Append(u, b)>>
  BY DEF Longer

\* Bytes without NUL are a single value.
LEMMA SplitOne ==
  ASSUME NEW v \in Seq(1 .. Base - 1)
  PROVE  Split(v) = <<v>>
  <1> DEFINE B == 1 .. Base - 1
             D == DOMAIN v
             Is(f) == f = [s \in SUBSET D |->
                             IF s = {} THEN <<<<>>>>
                             ELSE IF v[Max(s)] = NUL THEN Append(f[s \ {Max(s)}], <<>>)
                                  ELSE [f[s \ {Max(s)}] EXCEPT ![Len(f[s \ {Max(s)}])] =
                                          Append(@, v[Max(s)])]]
             f == CHOOSE g : Is(g)
             A == {<<u>> : u \in Seq(B)}
             step == [z \in D \X A |-> Longer(z[2], v[z[1]])]
             pick == [s \in SUBSET D |-> Max(s)]
  <1>1. Len(v) \in Nat /\ D = 1 .. Len(v) /\ \A i \in D : v[i] \in B /\ v[i] # NUL
    <2>1. Len(v) \in Nat /\ D = 1 .. Len(v)
      OBVIOUS
    <2>2. \A i \in D : v[i] \in B
      BY <2>1, ElementOfSeq
    <2>3. \A b \in B : b # NUL
      BY Constants DEF NUL
    <2> QED BY <2>1, <2>2, <2>3
  <1>2. \A n \in Nat : Max(1 .. n + 1) = n + 1
    <2>1. ASSUME NEW n \in Nat PROVE Max(1 .. n + 1) = n + 1
      <3>1. n + 1 \in 1 .. n + 1 /\ \A y \in 1 .. n + 1 : n + 1 >= y
        BY <2>1
      <3>2. \A x \in 1 .. n + 1 : (\A y \in 1 .. n + 1 : x >= y) => x = n + 1
        BY <2>1
      <3> QED BY <3>1, <3>2, Zenon DEF Max
    <2> QED BY <2>1
  <1>3. ASSUME NEW s \in SUBSET D, s # {} PROVE Max(s) \in s
    <2> DEFINE T == {Len(v) - i : i \in s}
    <2>1. T \in SUBSET Nat /\ T # {}
      BY <1>1, <1>3
    <2>2. PICK m \in T : \A n \in T : m <= n
      BY <2>1, Least
    <2>3. PICK x \in s : m = Len(v) - x
      BY <2>2
    <2>4. \A y \in s : x >= y
      <3>1. ASSUME NEW y \in s PROVE x >= y
        <4>1. Len(v) - x <= Len(v) - y
          BY <2>2, <2>3
        <4>2. x \in 1 .. Len(v) /\ y \in 1 .. Len(v)
          BY <1>1
        <4> QED BY <1>1, <4>1, <4>2
      <3> QED BY <3>1
    <2> QED BY <2>3, <2>4, Zenon DEF Max
  <1>4. Split(v) = f[D]
    BY Zenon DEF Split, FoldLeft, MapThenFoldSet
  <1>5. \A x \in D, a \in A : step[<<x, a>>] = Longer(a, v[x])
    OBVIOUS
  <1>6. step \in [D \X A -> A]
    <2>1. ASSUME NEW z \in D \X A PROVE Longer(z[2], v[z[1]]) \in A
      <3>1. PICK x \in D, u \in Seq(B) : z = <<x, <<u>>>>
        BY <2>1
      <3>2. v[x] \in B
        BY <1>1
      <3>3. Longer(<<u>>, v[x]) = <<Append(u, v[x])>> /\ Append(u, v[x]) \in Seq(B)
        BY <3>2, LongerOne, AppendProperties
      <3>4. z[2] = <<u>> /\ z[1] = x
        BY <3>1
      <3> QED BY <3>3, <3>4
    <2> QED BY <2>1
  <1>7. \A s \in SUBSET D : pick[s] = Max(s) /\ (s # {} => pick[s] \in s)
    BY <1>3
  <1>8. <<<<>>>> \in A
    BY <<>> \in Seq(B)
  <1>9. IsFiniteSet(D)
    BY <1>1, FS_Interval
  <1> HIDE DEF step, pick, A, B
  <1>10. PICK g \in [SUBSET D -> A] : Folds(g, SUBSET D, <<<<>>>>, step, pick)
    BY <1>6, <1>7, <1>8, <1>9, FoldExists
  <1>11. Is(g)
    <2>1. g = [s \in SUBSET D |-> g[s]]
      BY <1>10
    <2>2. ASSUME NEW s \in SUBSET D, s # {}
          PROVE  /\ v[Max(s)] # NUL
                 /\ step[<<pick[s], g[s \ {pick[s]}]>>] =
                      [g[s \ {Max(s)}] EXCEPT ![Len(g[s \ {Max(s)}])] = Append(@, v[Max(s)])]
      <3>1. Max(s) \in D /\ s \ {Max(s)} \in SUBSET D /\ pick[s] = Max(s)
        BY <1>3, <1>7, <2>2
      <3>2. g[s \ {Max(s)}] \in A
        BY <1>10, <3>1
      <3> QED BY <1>1, <1>5, <3>1, <3>2, Zenon DEF Longer
    <2>3. \A s \in SUBSET D : g[s] =
             IF s = {} THEN <<<<>>>>
             ELSE IF v[Max(s)] = NUL THEN Append(g[s \ {Max(s)}], <<>>)
                  ELSE [g[s \ {Max(s)}] EXCEPT ![Len(g[s \ {Max(s)}])] = Append(@, v[Max(s)])]
      BY <1>10, <2>2, Zenon DEF Folds
    <2> QED BY <2>1, <2>3, Zenon
  <1>12. Is(f)
    BY <1>11, Zenon
  <1> HIDE DEF f
  <1>13. \A s \in SUBSET D : f[s] = IF s = {} THEN <<<<>>>>
                                    ELSE IF v[Max(s)] = NUL THEN Append(f[s \ {Max(s)}], <<>>)
                                         ELSE Longer(f[s \ {Max(s)}], v[Max(s)])
    BY <1>12, Zenon DEF Longer
  <1> DEFINE K == {n \in Nat : n <= Len(v) => f[1 .. n] = <<SubSeq(v, 1, n)>>}
  <1>14. 0 \in K
    <2>1. 1 .. 0 = {} /\ SubSeq(v, 1, 0) = <<>> /\ {} \in SUBSET D
      BY SubSeqEmpty
    <2>2. f[{}] = <<<<>>>>
      BY <1>13, <2>1, Zenon
    <2> QED BY <2>1, <2>2
  <1>15. ASSUME NEW n \in Nat, n \in K PROVE n + 1 \in K
    <2> SUFFICES ASSUME n + 1 <= Len(v) PROVE f[1 .. n + 1] = <<SubSeq(v, 1, n + 1)>>
      BY <1>15
    <2>1. PICK s \in SUBSET D : s = 1 .. n + 1
      BY <1>1, <1>15
    <2>2. Max(s) = n + 1 /\ s \ {n + 1} = 1 .. n /\ s # {} /\ n + 1 \in D
      BY <1>1, <1>2, <1>15, <2>1
    <2>3. v[n + 1] # NUL /\ v[n + 1] \in B
      BY <1>1, <2>2 DEF B
    <2>4. f[s] = Longer(f[1 .. n], v[n + 1])
      BY <1>13, <2>2, <2>3, Zenon
    <2>5. f[1 .. n] = <<SubSeq(v, 1, n)>>
      BY <1>1, <1>15
    <2>6. SubSeq(v, 1, n) \in Seq(B) /\ Append(SubSeq(v, 1, n), v[n + 1]) = SubSeq(v, 1, n + 1)
      <3>1. n + 1 \in Nat /\ v \in Seq(B)
        BY <1>15 DEF B
      <3>2. PICK s1 \in Seq(B), s2 \in Seq(B) :
              /\ s1 = SubSeq(v, 1, n) /\ s2 = SubSeq(v, 1, n + 1) /\ Len(s1) = n /\ Len(s2) = n + 1
              /\ \A k \in 1 .. n : s1[k] = v[k]
              /\ \A k \in 1 .. n + 1 : s2[k] = v[k]
        <4>1. n <= Len(v) /\ n + 1 <= Len(v)
          BY <1>15
        <4>2. /\ SubSeq(v, 1, n) \in Seq(B) /\ Len(SubSeq(v, 1, n)) = n
              /\ \A k \in 1 .. n : SubSeq(v, 1, n)[k] = v[k]
          BY <1>15, <3>1, <4>1, First, Zenon
        <4>3. /\ SubSeq(v, 1, n + 1) \in Seq(B) /\ Len(SubSeq(v, 1, n + 1)) = n + 1
              /\ \A k \in 1 .. n + 1 : SubSeq(v, 1, n + 1)[k] = v[k]
          BY <3>1, <4>1, First, Zenon
        <4> QED BY <4>2, <4>3, Zenon
      <3>3. /\ Append(s1, v[n + 1]) \in Seq(B) /\ Len(Append(s1, v[n + 1])) = n + 1
            /\ \A k \in 1 .. n : Append(s1, v[n + 1])[k] = s1[k]
            /\ Append(s1, v[n + 1])[n + 1] = v[n + 1]
        <4>1. PICK b \in B : b = v[n + 1]
          BY <2>3
        <4>2. /\ Append(s1, b) \in Seq(B) /\ Len(Append(s1, b)) = Len(s1) + 1
              /\ \A k \in 1 .. Len(s1) : Append(s1, b)[k] = s1[k]
              /\ Append(s1, b)[Len(s1) + 1] = b
          BY AppendProperties
        <4>3. Len(s1) = n
          BY <3>2
        <4> QED BY <4>1, <4>2, <4>3, Zenon
      <3>4. \A k \in 1 .. n + 1 : Append(s1, v[n + 1])[k] = s2[k]
        <4>1. ASSUME NEW k \in 1 .. n + 1 PROVE Append(s1, v[n + 1])[k] = s2[k]
          <5>1. CASE k = n + 1
            BY <3>2, <3>3, <5>1
          <5>2. CASE k # n + 1
            <6>1. k \in 1 .. n
              BY <1>15, <4>1, <5>2
            <6> QED BY <3>2, <3>3, <4>1, <6>1
          <5> QED BY <5>1, <5>2
        <4> QED BY <4>1
      <3>5. Append(s1, v[n + 1]) = s2
        BY <3>2, <3>3, <3>4, SeqEqual
      <3> QED BY <3>2, <3>5
    <2>7. Longer(<<SubSeq(v, 1, n)>>, v[n + 1]) = <<Append(SubSeq(v, 1, n), v[n + 1])>>
      BY <2>3, <2>6, LongerOne
    <2> QED BY <2>1, <2>4, <2>5, <2>6, <2>7
  <1>16. Len(v) \in K
    <2> HIDE DEF K
    <2> QED BY <1>1, <1>14, <1>15, Induction
  <1>17. SubSeq(v, 1, Len(v)) = v
    BY <1>1
  <1> QED BY <1>1, <1>4, <1>16, <1>17

-----------------------------------------------------------------------------
(* The reader's way through a block.                                       *)

\* Offsets that never fall are at most the last.
LEMMA Ascends ==
  ASSUME NEW e, NEW n \in Nat, \A i \in 0 .. n : e[i] \in Nat,
         \A i \in 1 .. n : e[i - 1] <= e[i]
  PROVE  \A j \in 0 .. n : e[j] <= e[n]
  <1> DEFINE K == {m \in Nat : m <= n => \A j \in 0 .. m : e[j] <= e[m]}
  <1>1. 0 \in K
    OBVIOUS
  <1>2. ASSUME NEW m \in Nat, m \in K PROVE m + 1 \in K
    <2> SUFFICES ASSUME m + 1 <= n, NEW j \in 0 .. m + 1 PROVE e[j] <= e[m + 1]
      BY <1>2
    <2>1. j \in 0 .. n /\ m \in 0 .. n /\ m + 1 \in 1 .. n /\ (m + 1) - 1 = m /\ m + 1 \in 0 .. n
      BY <1>2
    <2>2. e[j] \in Nat /\ e[m] \in Nat /\ e[m + 1] \in Nat /\ e[m] <= e[m + 1]
      BY <2>1
    <2>3. CASE j = m + 1
      BY <2>2, <2>3
    <2>4. CASE j # m + 1
      <3>1. j \in 0 .. m /\ m <= n
        BY <1>2, <2>1, <2>4
      <3>2. e[j] <= e[m]
        BY <1>2, <3>1
      <3> QED BY <2>2, <3>2
    <2> QED BY <2>3, <2>4
  <1>3. n \in K
    <2> HIDE DEF K
    <2> QED BY <1>1, <1>2, Induction
  <1> QED BY <1>3

\* A block of a header map in one of its orders.
InOrder(s, start, end, h, order, off) ==
  /\ h \in HeaderMaps /\ ~Overflows(h)
  /\ order \in SetToSeqs(Kept(h)) /\ Offsets(off)
  /\ Laid(s, start, end, h, order, off)

\* Where the pairs begin and end.
LEMMA Steps ==
  ASSUME NEW s, NEW start, NEW end, NEW h, NEW order, NEW off,
         InOrder(s, start, end, h, order, off)
  PROVE  /\ Len(order) \in Nat /\ Len(order) < Word
         /\ \A j \in 0 .. Len(order) : off[j] \in Nat /\ off[j] <= end
         /\ off[0] = start + 4 /\ off[Len(order)] = end
         /\ \A i \in 1 .. Len(order) :
              /\ order[i] \in Kept(h)
              /\ Len(order[i]) \in Nat /\ Len(order[i]) > 0 /\ Size(h[order[i]]) \in Nat
              /\ Len(order[i]) < Word /\ Size(h[order[i]]) < Word
              /\ off[i] = off[i - 1] + (8 + Len(order[i]) + Size(h[order[i]]))
              /\ Reads(s, off[i - 1], Pair(order[i], h[order[i]]))
  <1>1. h \in HeaderMaps /\ ~Overflows(h) /\ order \in SetToSeqs(Kept(h)) /\ Offsets(off)
        /\ Laid(s, start, end, h, order, off)
    BY DEF InOrder
  <1>2. PICK n \in Nat : n = Len(order) /\ n < Word
    BY <1>1, Orders
  <1>3. \A i \in 1 .. n : order[i] \in Kept(h)
    BY <1>1, <1>2, Orders
  <1>4. ASSUME NEW i \in 1 .. n
        PROVE  /\ Len(order[i]) \in Nat /\ Len(order[i]) > 0 /\ Size(h[order[i]]) \in Nat
               /\ Len(order[i]) < Word /\ Size(h[order[i]]) < Word
    <2>1. order[i] \in Kept(h)
      BY <1>3
    <2>2. Len(order[i]) \in 1 .. Word - 1
      BY <1>1, <2>1, Values
    <2>3. Size(h[order[i]]) \in 0 .. Word - 1
      BY <1>1, <2>1, WrittenLength
    <2>4. \A m \in 1 .. Word - 1 : m \in Nat /\ m > 0 /\ m < Word
      BY Constants
    <2> QED BY <2>2, <2>3, <2>4, Constants
  <1>5. \A j \in 0 .. n : off[j] \in Nat
    <2>1. \A j \in 0 .. n : j \in Nat
      OBVIOUS
    <2> QED BY <1>1, <2>1, OffsetType
  <1>6. \A i \in 1 .. n : /\ off[i] = off[i - 1] + (8 + Len(order[i]) + Size(h[order[i]]))
                          /\ Reads(s, off[i - 1], Pair(order[i], h[order[i]]))
    BY <1>1, <1>2 DEF Laid
  <1>7. \A i \in 1 .. n : off[i - 1] <= off[i]
    <2>1. ASSUME NEW i \in 1 .. n PROVE off[i - 1] <= off[i]
      <3>1. i - 1 \in 0 .. n
        BY <2>1
      <3>2. PICK a \in Nat, b \in Nat, c \in Nat :
              a = off[i - 1] /\ b = Len(order[i]) /\ c = Size(h[order[i]])
        BY <1>4, <1>5, <3>1
      <3> QED BY <1>6, <3>2
    <2> QED BY <2>1
  <1>8. \A j \in 0 .. n : off[j] <= off[n]
    BY <1>5, <1>7, Ascends
  <1>9. off[0] = start + 4 /\ off[Len(order)] = end
    BY <1>1 DEF Laid
  <1> QED BY <1>2, <1>3, <1>4, <1>5, <1>6, <1>8, <1>9

\* The pairs up to the j-th have no more bytes than the map.
LEMMA Spent ==
  ASSUME NEW s, NEW start, NEW end, NEW h, NEW order, NEW off,
         InOrder(s, start, end, h, order, off), NEW j \in 0 .. Len(order)
  PROVE  HeaderSize(h) \in Nat /\ off[j] <= off[0] + 8 * j + HeaderSize(h)
  <1> DEFINE Im(k) == {order[i] : i \in 1 .. k}
  <1>1. h \in HeaderMaps /\ ~Overflows(h) /\ order \in SetToSeqs(Kept(h))
    BY DEF InOrder
  <1>2. IsFiniteSet(Kept(h)) /\ (\A a, b \in 1 .. Len(order) : a # b => order[a] # order[b])
        /\ \A m \in Kept(h) : \E i \in 1 .. Len(order) : order[i] = m
    BY <1>1, Orders
  <1>3. PICK n \in Nat : n = Len(order)
    BY Steps
  <1>4. PICK f : /\ \A t \in SUBSET Kept(h) : f[t] \in Nat
                 /\ f[{}] = 0
                 /\ \A t \in SUBSET Kept(h) : \A m \in t :
                      f[t] = (Len(m) + Size(h[m])) + f[t \ {m}]
                 /\ f[Kept(h)] = HeaderSize(h)
    BY <1>1, <1>2, SizeSums
  <1>5. \A k \in 0 .. n : Im(k) \in SUBSET Kept(h)
    BY <1>3, Steps
  <1>6. Im(n) = Kept(h) /\ Im(0) = {}
    BY <1>2, <1>3, <1>5
  <1>7. ASSUME NEW k \in 1 .. n
        PROVE  /\ f[Im(k)] = (Len(order[k]) + Size(h[order[k]])) + f[Im(k - 1)]
               /\ Im(k) \in SUBSET Kept(h) /\ Im(k - 1) \in SUBSET Kept(h)
    <2>1. order[k] \in Im(k) /\ k \in 0 .. n /\ k - 1 \in 0 .. n
      BY <1>7
    <2>2. Im(k) \ {order[k]} = Im(k - 1)
      <3>1. \A i \in 1 .. k - 1 : order[i] # order[k] /\ i \in 1 .. k
        BY <1>2, <1>3, <1>7
      <3>2. \A i \in 1 .. k : i # k => i \in 1 .. k - 1
        BY <1>7
      <3> QED BY <3>1, <3>2
    <2> HIDE DEF Im
    <2>3. Im(k) \in SUBSET Kept(h) /\ Im(k - 1) \in SUBSET Kept(h)
      BY <1>5, <2>1
    <2>4. \A t \in SUBSET Kept(h) : \A m \in t : f[t] = (Len(m) + Size(h[m])) + f[t \ {m}]
      BY <1>4
    <2>5. f[Im(k)] = (Len(order[k]) + Size(h[order[k]])) + f[Im(k) \ {order[k]}]
      BY <2>1, <2>3, <2>4, Zenon
    <2> QED BY <2>2, <2>3, <2>5, Zenon
  <1> DEFINE e == [k \in 0 .. n |-> f[Im(k)]]
  <1>8. \A k \in 0 .. n : e[k] = f[Im(k)] /\ e[k] \in Nat
    <2> HIDE DEF Im
    <2> QED BY <1>4, <1>5
  <1> HIDE DEF e, Im
  <1>9. \A k \in 1 .. n : e[k] = (Len(order[k]) + Size(h[order[k]])) + e[k - 1]
    <2>1. \A k \in 1 .. n : k \in 0 .. n /\ k - 1 \in 0 .. n
      OBVIOUS
    <2> QED BY <1>7, <1>8, <2>1
  <1>10. \A k \in 1 .. n : /\ Len(order[k]) \in Nat /\ Size(h[order[k]]) \in Nat
                           /\ off[k] = off[k - 1] + (8 + Len(order[k]) + Size(h[order[k]]))
    <2>1. \A i \in 1 .. Len(order) :
              /\ order[i] \in Kept(h)
              /\ Len(order[i]) \in Nat /\ Len(order[i]) > 0 /\ Size(h[order[i]]) \in Nat
              /\ Len(order[i]) < Word /\ Size(h[order[i]]) < Word
              /\ off[i] = off[i - 1] + (8 + Len(order[i]) + Size(h[order[i]]))
              /\ Reads(s, off[i - 1], Pair(order[i], h[order[i]]))
      BY Steps, Zenon
    <2> QED BY <1>3, <2>1, Zenon
  <1>11. \A k \in 0 .. n : e[k] <= e[n]
    <2>1. ASSUME NEW k \in 1 .. n PROVE e[k - 1] <= e[k]
      <3>1. k - 1 \in 0 .. n
        BY <2>1
      <3>2. PICK a \in Nat, b \in Nat, c \in Nat :
              a = Len(order[k]) /\ b = Size(h[order[k]]) /\ c = e[k - 1] /\ e[k] = (a + b) + c
        <4>1. Len(order[k]) \in Nat /\ Size(h[order[k]]) \in Nat
          BY <1>10, <2>1, Zenon
        <4>2. e[k - 1] \in Nat
          BY <1>8, <3>1, Zenon
        <4>3. e[k] = (Len(order[k]) + Size(h[order[k]])) + e[k - 1]
          BY <1>9, <2>1, Zenon
        <4> QED BY <4>1, <4>2, <4>3, Zenon
      <3> QED BY <3>2
    <2> QED BY <1>8, <2>1, Ascends
  <1>12. \A k \in 0 .. n : off[k] \in Nat
    BY <1>3, Steps
  <1> DEFINE K == {k \in Nat : k <= n => off[k] = off[0] + 8 * k + e[k]}
  <1>13. 0 \in K
    <2>1. e[0] = 0 /\ off[0] \in Nat
      <3>1. 0 \in 0 .. n
        OBVIOUS
      <3> QED BY <1>4, <1>6, <1>8, <1>12, <3>1
    <2> QED BY <2>1
  <1>14. ASSUME NEW k \in Nat, k \in K PROVE k + 1 \in K
    <2> SUFFICES ASSUME k + 1 <= n PROVE off[k + 1] = off[0] + 8 * (k + 1) + e[k + 1]
      BY <1>14
    <2>1. k + 1 \in 1 .. n /\ (k + 1) - 1 = k /\ k \in 0 .. n /\ 0 \in 0 .. n /\ k <= n
      BY <1>14
    <2>2. PICK a \in Nat, b \in Nat, c \in Nat, o \in Nat :
            a = Len(order[k + 1]) /\ b = Size(h[order[k + 1]]) /\ c = e[k] /\ o = off[0]
      BY <1>8, <1>10, <1>12, <2>1
    <2>3. e[k + 1] = (a + b) + c
      BY <1>9, <2>1, <2>2
    <2>4. off[k + 1] = off[k] + (8 + a + b) /\ off[k] = o + 8 * k + c
      BY <1>10, <1>14, <2>1, <2>2
    <2>5. (o + 8 * k + c) + (8 + a + b) = o + 8 * (k + 1) + ((a + b) + c)
      BY <1>14
    <2> QED BY <2>2, <2>3, <2>4, <2>5
  <1>15. j \in Nat /\ j <= n /\ j \in 0 .. n /\ n \in 0 .. n
    BY <1>3
  <1>16. j \in K
    <2> HIDE DEF K
    <2> QED BY <1>13, <1>14, <1>15, Induction
  <1>17. e[n] = HeaderSize(h)
    BY <1>4, <1>6, <1>8, <1>15
  <1>18. PICK a \in Nat, b \in Nat, o \in Nat : a = e[j] /\ b = HeaderSize(h) /\ o = off[0] /\ a <= b
    <2>1. 0 \in 0 .. n
      OBVIOUS
    <2> QED BY <1>8, <1>11, <1>12, <1>15, <1>17, <2>1
  <1> QED BY <1>15, <1>16, <1>18

\* The two sums that the offsets of a pair use.
LEMMA Reordered ==
  \A p \in Nat, l \in Nat : p + (8 + l) = p + 8 + l /\ p + (4 + l) = p + 4 + l
  OBVIOUS

\* Two texts one after the other.
LEMMA Appended ==
  ASSUME NEW u \in Seq(Bytes), NEW v \in Seq(Bytes)
  PROVE  u \o v \in Seq(Bytes) /\ Len(u \o v) = Len(u) + Len(v)
  BY ConcatProperties, Zenon

\* Where the parts of the i-th pair stand.
LEMMA PairAt ==
  ASSUME NEW s \in Seq(Bytes), NEW start, NEW end, NEW h, NEW order, NEW off,
         InOrder(s, start, end, h, order, off), NEW i \in 1 .. Len(order), NEW p \in Nat,
         p = off[i - 1]
  PROVE  /\ Reads(s, p, Int32(Len(order[i])))
         /\ Reads(s, p + 4, Lower(order[i]))
         /\ Reads(s, p + 4 + Len(order[i]), Int32(LengthOfValues(h[order[i]])))
         /\ Reads(s, p + 8 + Len(order[i]), Only(h[order[i]]))
  <1>1. h \in HeaderMaps /\ ~Overflows(h) /\ order[i] \in Kept(h)
        /\ Len(order[i]) \in Nat /\ Len(order[i]) < Word
        /\ Reads(s, p, Pair(order[i], h[order[i]]))
    BY Steps DEF InOrder
  <1>2. PICK n, l : n \in Seq(Bytes) /\ l \in Nat /\ n = order[i] /\ l = Len(n)
    BY <1>1, Values
  <1>3. PICK a : a \in Seq(Bytes) /\ a = Int32(Len(order[i])) /\ Len(a) = 4
    BY <1>1, RoundTrip
  <1>4. PICK b : b \in Seq(Bytes) /\ b = Lower(order[i]) /\ Len(b) = l
    BY <1>2, Lowered
  <1>5. PICK c : c \in Seq(Bytes) /\ c = Int32(LengthOfValues(h[order[i]])) /\ Len(c) = 4
    <2>1. LengthOfValues(h[order[i]]) \in 0 .. Word - 1
      BY <1>1, WrittenLength
    <2> QED BY <2>1, Constants, RoundTrip
  <1>6. PICK d : d \in Seq(Bytes) /\ d = Only(h[order[i]])
    BY <1>1, WrittenLength
  <1>7. Reads(s, p, ((a \o b) \o c) \o d)
    BY <1>1, <1>3, <1>4, <1>5, <1>6, PairParts
  <1>8. PICK ab, abc :
          /\ ab \in Seq(Bytes) /\ ab = a \o b /\ Len(ab) = 4 + l
          /\ abc \in Seq(Bytes) /\ abc = ab \o c /\ Len(abc) = 8 + l
    <2>1. PICK ab : ab = a \o b /\ ab \in Seq(Bytes) /\ Len(ab) = Len(a) + Len(b)
      <3>1. a \in Seq(Bytes) /\ b \in Seq(Bytes)
        BY <1>3, <1>4
      <3>2. a \o b \in Seq(Bytes) /\ Len(a \o b) = Len(a) + Len(b)
        BY <3>1, Appended
      <3>3. PICK ab : ab = a \o b
        OBVIOUS
      <3> QED BY <3>2, <3>3, Zenon
    <2>2. PICK abc : abc = ab \o c /\ abc \in Seq(Bytes) /\ Len(abc) = Len(ab) + Len(c)
      <3>1. ab \in Seq(Bytes) /\ c \in Seq(Bytes)
        BY <1>5, <2>1
      <3>2. ab \o c \in Seq(Bytes) /\ Len(ab \o c) = Len(ab) + Len(c)
        BY <3>1, Appended
      <3>3. PICK abc : abc = ab \o c
        OBVIOUS
      <3> QED BY <3>2, <3>3, Zenon
    <2>3. Len(ab) = 4 + l
      BY <1>3, <1>4, <2>1, Zenon
    <2>4. Len(abc) = 8 + l
      <3>1. Len(abc) = (4 + l) + 4
        BY <1>5, <2>2, <2>3, Zenon
      <3>2. l \in Nat
        BY <1>2
      <3> QED BY <3>1, <3>2
    <2> QED BY <2>1, <2>2, <2>3, <2>4
  <1>9. Reads(s, p, abc) /\ Reads(s, p + (8 + l), d)
    <2>1. Reads(s, p, abc \o d)
      BY <1>7, <1>8, Zenon
    <2>2. Reads(s, p, abc) /\ Reads(s, p + Len(abc), d)
      BY <1>6, <1>8, <2>1, ReadsFirst, Zenon
    <2> QED BY <1>8, <2>2, Zenon
  <1>10. Reads(s, p, ab) /\ Reads(s, p + (4 + l), c)
    <2>1. Reads(s, p, ab \o c)
      BY <1>8, <1>9, Zenon
    <2>2. Reads(s, p, ab) /\ Reads(s, p + Len(ab), c)
      BY <1>5, <1>8, <2>1, ReadsFirst, Zenon
    <2> QED BY <1>8, <2>2, Zenon
  <1>11. Reads(s, p, a) /\ Reads(s, p + 4, b)
    <2>1. Reads(s, p, a \o b)
      BY <1>8, <1>10, Zenon
    <2>2. Reads(s, p, a) /\ Reads(s, p + Len(a), b)
      BY <1>3, <1>4, <2>1, ReadsFirst, Zenon
    <2> QED BY <1>3, <2>2, Zenon
  <1>12. p + (8 + l) = p + 8 + Len(order[i]) /\ p + (4 + l) = p + 4 + Len(order[i])
    <2>1. Len(order[i]) = l
      BY <1>2, Zenon
    <2>2. p + (8 + l) = p + 8 + l /\ p + (4 + l) = p + 4 + l
      BY <1>2, Reordered, Zenon
    <2> QED BY <2>1, <2>2, Zenon
  <1> QED BY <1>3, <1>4, <1>5, <1>6, <1>9, <1>10, <1>11, <1>12

\* A Read that the window does not cut short gives the text that stands there.
LEMMA FullRead ==
  ASSUME TypeInv, Busy, NEW buffer \in Seq(Bytes), NEW t \in Seq(Bytes),
         Len(buffer) = Len(t), Reads(stream, pos, t), pos + Len(t) <= BlockEnd,
         Read(Len(buffer)), ~cutShort'
  PROVE  pos' = pos + Len(t) /\ Filled(buffer) = t /\ ~cutShort
  <1>1. PICK l \in Nat : l = Len(t)
    OBVIOUS
  <1>2. /\ BlockEnd \in Nat /\ Given(l) \in Nat /\ Given(l) <= l
        /\ (RunEnd >= BlockEnd /\ pos + l <= BlockEnd => Given(l) = l)
        /\ pos \in Nat /\ RunEnd \in Nat /\ stream \in Seq(Bytes) /\ Len(stream) \in Nat
    BY ReadInside, RunIsAhead, Numbers
  <1>3. ~cutShort /\ ~(Given(l) < l /\ RunEnd < BlockEnd) /\ pos' = pos + Given(l)
    BY <1>1 DEF Read
  <1>4. Given(l) = l
    BY <1>1, <1>2, <1>3
  <1>5. PICK u \in Seq(Bytes) : /\ u = SubSeq(stream, pos + 1, pos + l) /\ Len(u) = l
                                /\ \A k \in 1 .. l : u[k] = stream[pos + k]
    <2>1. pos + l <= Len(stream)
      BY <1>1 DEF Reads
    <2>2. /\ SubSeq(stream, pos + 1, pos + l) \in Seq(Bytes)
          /\ Len(SubSeq(stream, pos + 1, pos + l)) = l
          /\ \A k \in 1 .. l : SubSeq(stream, pos + 1, pos + l)[k] = stream[pos + k]
      <3>1. PICK q : q = pos /\ q \in Nat /\ q + l <= Len(stream)
        BY <1>2, <2>1, Zenon
      <3>2. stream \in Seq(Bytes)
        BY <1>2, Zenon
      <3>3. /\ SubSeq(stream, q + 1, q + l) \in Seq(Bytes)
            /\ Len(SubSeq(stream, q + 1, q + l)) = l
            /\ \A k \in 1 .. l : SubSeq(stream, q + 1, q + l)[k] = stream[q + k]
        BY <3>1, <3>2, Slice
      <3> QED BY <3>1, <3>3, Zenon
    <2> QED BY <2>2, Zenon
  <1>6. u = t
    <2>1. \A k \in 1 .. l : t[k] = stream[pos + k]
      BY <1>1 DEF Reads
    <2> QED BY <1>1, <1>5, <2>1, SeqEqual
  <1>7. SubSeq(buffer, l + 1, l) = <<>>
    BY SubSeqEmpty
  <1>8. Filled(buffer) = u \o <<>>
    BY <1>1, <1>4, <1>5, <1>7, Zenon DEF Filled
  <1>9. u \o <<>> = u
    BY ConcatEmptySeq
  <1> QED BY <1>1, <1>3, <1>4, <1>6, <1>8, <1>9

-----------------------------------------------------------------------------
(* The inductive invariant.                                                *)

LaidBlock(b, order, off) == InOrder(stream, Start(b), ends[b], sent[b], order, off)

\* Every block stands in the stream, and nothing behind the last.
Written ==
  /\ Start(Len(sent) + 1) = Len(stream)
  /\ \A b \in 1 .. Len(sent) : ~Overflows(sent[b]) /\ \E order, off : LaidBlock(b, order, off)

\* The first j names of the order, and their values, have been received.
Collected(g, h, order, j) ==
  /\ g = [n \in {Canonical(order[k]) : k \in 1 .. j} |-> g[n]]
  /\ \A k \in 1 .. j : Len(h[order[k]]) = 1 /\ g[Canonical(order[k])] = h[order[k]]

\* The reader is where its statement says, after j pairs, and bounds is what
\* the j pairs and its part of the next have left.
Spot(h, order, off, j) ==
  /\ at = "count" => pos + 4 = off[0] /\ bounds = Bounds /\ got = None
  /\ at # "count" => j \in 0 .. Len(order) /\ pairs = Len(order) - j /\ Collected(got, h, order, j)
  /\ at = "pair" => pos = off[j] /\ bounds + off[j] = Bounds + off[0] + 8 * j
  /\ at = "name" =>
       /\ pos = off[j] + 4 /\ Value32(chunk) = Len(order[j + 1])
       /\ bounds + off[j] + Len(order[j + 1]) = Bounds + off[0] + 8 * j
  /\ at = "valueLength" =>
       /\ pos = off[j] + 4 + Len(order[j + 1]) /\ name = Lower(order[j + 1])
       /\ bounds + off[j] + Len(order[j + 1]) = Bounds + off[0] + 8 * j
  /\ at = "value" =>
       /\ pos = off[j] + 8 + Len(order[j + 1]) /\ name = Lower(order[j + 1])
       /\ Len(h[order[j + 1]]) = 1 /\ Value32(chunk) = Size(h[order[j + 1]])
       /\ bounds + off[j] + Len(order[j + 1]) + Size(h[order[j + 1]]) =
            Bounds + off[0] + 8 * j

\* Why the reader may give up a block.
Excused(h) == (\E n \in Kept(h) : h[n] \in {<<>>, <<<<>>>>}) \/ HeaderSize(h) > Bounds

UpToDate ==
  /\ \A b \in 1 .. Len(received) : received[b] = Arrival(sent[b])
  /\ at \notin {"panicked", "astray"}
  /\ Busy => \E c, order, off, j : /\ c = Len(received) + 1 /\ LaidBlock(c, order, off)
                                   /\ Spot(sent[c], order, off, j)
  /\ at = "ended" => Len(received) < Len(sent) /\ Excused(sent[Len(received) + 1])

ArrivalInv == TypeInv /\ Written /\ (~cutShort => UpToDate)

\* Nothing has been sent: the invariant holds.
LEMMA ArrivalInit == Init => ArrivalInv
  <1> SUFFICES ASSUME Init PROVE ArrivalInv
    OBVIOUS
  <1>1. TypeInv
    BY TypeInit
  <1>2. Len(sent) = 0 /\ Len(received) = 0 /\ at = "idle"
    BY DEF Init
  <1>3. Written
    <2>1. Start(1) = 0 /\ Len(stream) = 0
      BY DEF Init, Start
    <2> QED BY <1>2, <2>1 DEF Written
  <1>4. UpToDate
    BY <1>2 DEF UpToDate, Busy
  <1> QED BY <1>1, <1>3, <1>4 DEF ArrivalInv

-----------------------------------------------------------------------------
(* The steps.                                                              *)

\* The block that is being read, and the next of its pairs.
LEMMA Here ==
  ASSUME ArrivalInv, ~cutShort, Busy
  PROVE  /\ Len(received) + 1 \in 1 .. Len(sent)
         /\ BlockEnd = ends[Len(received) + 1]
         /\ \E c, order, off, j :
              /\ c = Len(received) + 1 /\ LaidBlock(c, order, off) /\ Spot(sent[c], order, off, j)
              /\ InOrder(stream, Start(c), BlockEnd, sent[c], order, off)
              /\ at \in {"pair", "name", "valueLength", "value"} /\ pairs > 0 =>
                   /\ j \in Nat /\ j + 1 \in 1 .. Len(order) /\ (j + 1) - 1 = j
                   /\ j \in 0 .. Len(order)
  <1>1. TypeInv /\ UpToDate
    BY DEF ArrivalInv
  <1>2. Len(received) + 1 \in 1 .. Len(sent)
    <2>1. Len(received) < Len(sent)
      BY <1>1 DEF TypeInv, Inside
    <2> QED BY <1>1, <2>1, Numbers
  <1>3. BlockEnd = ends[Len(received) + 1]
    BY DEF BlockEnd
  <1>4. PICK c, order, off, j :
           /\ c = Len(received) + 1 /\ LaidBlock(c, order, off) /\ Spot(sent[c], order, off, j)
    BY <1>1 DEF UpToDate
  <1>5. InOrder(stream, Start(c), BlockEnd, sent[c], order, off)
    BY <1>3, <1>4 DEF LaidBlock
  <1>6. ASSUME at \in {"pair", "name", "valueLength", "value"}, pairs > 0
        PROVE  /\ j \in Nat /\ j + 1 \in 1 .. Len(order) /\ (j + 1) - 1 = j
               /\ j \in 0 .. Len(order)
    <2>1. Len(order) \in Nat
      BY <1>5, Steps
    <2>2. j \in 0 .. Len(order) /\ pairs = Len(order) - j
      BY <1>4, <1>6 DEF Spot
    <2> QED BY <1>6, <2>1, <2>2
  <1> QED BY <1>2, <1>3, <1>4, <1>5, <1>6

\* What the reader does leaves the blocks as they are.
LEMMA There ==
  ASSUME ArrivalInv, UNCHANGED senderVars
  PROVE  Written' /\ \A c, order, off : LaidBlock(c, order, off) => LaidBlock(c, order, off)'
  <1>1. stream' = stream /\ sent' = sent /\ ends' = ends
    BY DEF senderVars
  <1>2. \A c, order, off : LaidBlock(c, order, off)' <=> LaidBlock(c, order, off)
    BY <1>1, Zenon DEF LaidBlock, Start
  <1>3. Written
    BY DEF ArrivalInv
  <1>4. Written'
    BY <1>1, <1>2, <1>3, Zenon DEF Written, Start
  <1> QED BY <1>2, <1>4

\* A read that leaves Decompress inside a pair written as sent keeps the invariant.
LEMMA GoesOn ==
  ASSUME ArrivalInv, ~cutShort, UNCHANGED <<senderVars, received>>,
         at' \in {"count", "pair", "name", "valueLength", "value"},
         NEW order, NEW off, NEW j,
         \E c : c = Len(received) + 1 /\ LaidBlock(c, order, off) /\ Spot(sent[c], order, off, j)'
  PROVE  Written' /\ UpToDate'
  <1>1. stream' = stream /\ sent' = sent /\ ends' = ends /\ received' = received
        /\ UNCHANGED senderVars
    BY DEF senderVars
  <1>2. Written' /\ \A c : LaidBlock(c, order, off) => LaidBlock(c, order, off)'
    BY <1>1, There
  <1>3. PICK c : c = Len(received) + 1 /\ LaidBlock(c, order, off) /\ Spot(sent[c], order, off, j)'
    OBVIOUS
  <1>4. c = Len(received') + 1 /\ LaidBlock(c, order, off)' /\ Spot(sent[c], order, off, j)'
    BY <1>1, <1>2, <1>3
  <1>5. UpToDate
    BY DEF ArrivalInv
  <1>6. \A b \in 1 .. Len(received') : received'[b] = Arrival(sent'[b])
    <2>1. \A b \in 1 .. Len(received) : received[b] = Arrival(sent[b])
      BY <1>5 DEF UpToDate
    <2>2. \A b : Arrival(sent'[b]) = Arrival(sent[b])
      BY <1>1
    <2> QED BY <1>1, <2>1, <2>2
  <1>7. UpToDate'
    BY <1>4, <1>6, Zenon DEF UpToDate
  <1> QED BY <1>2, <1>7

\* A read that ends it keeps the invariant when the block is one that may be refused.
LEMMA GivesUp ==
  ASSUME ArrivalInv, ~cutShort, UNCHANGED <<senderVars, received>>, Busy, at' = "ended",
         \E c : c = Len(received) + 1 /\ Excused(sent[c])
  PROVE  Written' /\ UpToDate'
  <1>1. stream' = stream /\ sent' = sent /\ ends' = ends /\ received' = received
        /\ UNCHANGED senderVars
    BY DEF senderVars
  <1>2. Written'
    BY <1>1, There
  <1>3. UpToDate /\ Len(received) < Len(sent)
    BY DEF ArrivalInv, TypeInv, Inside
  <1>4. \A b \in 1 .. Len(received') : received'[b] = Arrival(sent'[b])
    <2>1. \A b \in 1 .. Len(received) : received[b] = Arrival(sent[b])
      BY <1>3 DEF UpToDate
    <2>2. \A b : Arrival(sent'[b]) = Arrival(sent[b])
      BY <1>1
    <2> QED BY <1>1, <2>1, <2>2
  <1>5. Excused(sent[Len(received) + 1])
    OBVIOUS
  <1>6. Excused(sent'[Len(received') + 1])
    BY <1>1, <1>5
  <1>7. ~Busy'
    BY DEF Busy
  <1>8. Len(received') < Len(sent')
    BY <1>1, <1>3
  <1>9. UpToDate'
    BY <1>4, <1>6, <1>7, <1>8 DEF UpToDate
  <1> QED BY <1>2, <1>9

\* The number of pairs.
LEMMA CountRead ==
  ASSUME ArrivalInv, ReadCount, ~cutShort'
  PROVE  Written' /\ UpToDate'
  <1>1. /\ at = "count" /\ Busy /\ at' = "pair" /\ Read(4) /\ UNCHANGED <<senderVars, received>>
        /\ chunk' = Filled(chunk) /\ pairs' = Value32(Filled(chunk))
        /\ bounds' = bounds /\ got' = got /\ TypeInv /\ ~cutShort
    BY DEF ReadCount, Busy, Read, ArrivalInv
  <1>2. PICK c, order, off, j :
           /\ c = Len(received) + 1 /\ LaidBlock(c, order, off) /\ Spot(sent[c], order, off, j)
           /\ InOrder(stream, Start(c), BlockEnd, sent[c], order, off)
    BY <1>1, Here
  <1>3. PICK n \in Nat, o \in Nat : n = Len(order) /\ n < Word /\ o = off[0] /\ o <= BlockEnd
          /\ o = Start(c) + 4
    <2>1. Len(order) \in Nat /\ 0 \in 0 .. Len(order)
      BY <1>2, Steps
    <2> QED BY <1>2, <2>1, Steps
  <1>4. pos + 4 = o /\ bounds = Bounds /\ got = None
    BY <1>1, <1>2, <1>3 DEF Spot
  <1>5. PICK t \in Seq(Bytes) : t = Int32(n) /\ Len(t) = 4 /\ Value32(t) = n
    BY <1>3, RoundTrip
  <1>6. pos = Start(c)
    <2>1. pos \in Nat /\ Start(c) \in Nat
      BY <1>1, <1>2, Numbers, Here
    <2> QED BY <1>3, <1>4, <2>1
  <1>7. Reads(stream, pos, t)
    BY <1>2, <1>3, <1>5, <1>6 DEF InOrder, Laid
  <1>8. pos + Len(t) <= BlockEnd /\ chunk \in Seq(Bytes) /\ Len(chunk) = Len(t) /\ Read(Len(chunk))
    BY <1>1, <1>3, <1>4, <1>5, ChunkType
  <1>9. pos' = pos + 4 /\ Filled(chunk) = t
    BY <1>1, <1>5, <1>7, <1>8, FullRead
  <1>10. Spot(sent[c], order, off, 0)'
    <2>1. pairs' = Len(order) - 0 /\ 0 \in 0 .. Len(order)
      BY <1>1, <1>3, <1>5, <1>9
    <2>2. pos' = off[0] /\ bounds' + off[0] = Bounds + off[0] + 8 * 0
      BY <1>1, <1>3, <1>4, <1>9, Constants
    <2>3. Collected(got, sent[c], order, 0)'
      <3>1. {Canonical(order[k]) : k \in 1 .. 0} = {}
        OBVIOUS
      <3>2. got' = [n_1 \in {} |-> got'[n_1]]
        BY <1>1, <1>4 DEF None
      <3>3. \A k \in 1 .. 0 : FALSE
        OBVIOUS
      <3> QED BY <3>1, <3>2, <3>3 DEF Collected
    <2> QED BY <1>1, <2>1, <2>2, <2>3 DEF Spot
  <1> QED BY <1>1, <1>2, <1>10, GoesOn

\* The pair after the first j, in numbers, and where its parts stand.
After(s, end, h, order, off, j, o, l, z) ==
  /\ o = off[j] /\ l = Len(order[j + 1]) /\ z = Size(h[order[j + 1]])
  /\ l > 0 /\ l < Word /\ z < Word /\ order[j + 1] \in Kept(h)
  /\ off[j + 1] = o + (8 + l + z) /\ o + (8 + l + z) <= end
  /\ Reads(s, o, Int32(l))
  /\ Reads(s, o + 4, Lower(order[j + 1]))
  /\ Reads(s, o + 4 + l, Int32(LengthOfValues(h[order[j + 1]])))
  /\ Reads(s, o + 8 + l, Only(h[order[j + 1]]))

\* The next pair lies inside the block.
LEMMA NextPair ==
  ASSUME NEW s \in Seq(Bytes), NEW start, NEW end, NEW h, NEW order, NEW off,
         InOrder(s, start, end, h, order, off), NEW j \in Nat, j + 1 \in 1 .. Len(order)
  PROVE  \E o \in Nat, l \in Nat, z \in Nat : After(s, end, h, order, off, j, o, l, z)
  <1>1. PICK n \in Nat : n = Len(order)
    BY Steps
  <1>2. j \in 0 .. n /\ j + 1 \in 0 .. n /\ j + 1 \in 1 .. n /\ (j + 1) - 1 = j
    BY <1>1
  <1>3. \A k \in 0 .. n : off[k] \in Nat /\ off[k] <= end
    BY <1>1, Steps, Zenon
  <1>4. \A i \in 1 .. n :
              /\ order[i] \in Kept(h)
              /\ Len(order[i]) \in Nat /\ Len(order[i]) > 0 /\ Size(h[order[i]]) \in Nat
              /\ Len(order[i]) < Word /\ Size(h[order[i]]) < Word
              /\ off[i] = off[i - 1] + (8 + Len(order[i]) + Size(h[order[i]]))
    <2>1. \A i \in 1 .. Len(order) :
              /\ order[i] \in Kept(h)
              /\ Len(order[i]) \in Nat /\ Len(order[i]) > 0 /\ Size(h[order[i]]) \in Nat
              /\ Len(order[i]) < Word /\ Size(h[order[i]]) < Word
              /\ off[i] = off[i - 1] + (8 + Len(order[i]) + Size(h[order[i]]))
              /\ Reads(s, off[i - 1], Pair(order[i], h[order[i]]))
      BY Steps, Zenon
    <2> QED BY <1>1, <2>1, Zenon
  <1>5. /\ order[j + 1] \in Kept(h)
        /\ Len(order[j + 1]) \in Nat /\ Len(order[j + 1]) > 0 /\ Size(h[order[j + 1]]) \in Nat
        /\ Len(order[j + 1]) < Word /\ Size(h[order[j + 1]]) < Word
        /\ off[j + 1] = off[(j + 1) - 1] + (8 + Len(order[j + 1]) + Size(h[order[j + 1]]))
    BY <1>2, <1>4, Zenon
  <1>6. off[j] \in Nat /\ off[j + 1] <= end /\ off[(j + 1) - 1] = off[j]
    BY <1>2, <1>3, Zenon
  <1>7. PICK o \in Nat, l \in Nat, z \in Nat :
          o = off[j] /\ l = Len(order[j + 1]) /\ z = Size(h[order[j + 1]])
    BY <1>5, <1>6, Zenon
  <1>8. off[j + 1] = o + (8 + l + z) /\ o = off[(j + 1) - 1]
    BY <1>5, <1>6, <1>7, Zenon
  <1>9. o + (8 + l + z) <= end
    BY <1>6, <1>8, Zenon
  <1>10. /\ Reads(s, o, Int32(Len(order[j + 1])))
         /\ Reads(s, o + 4, Lower(order[j + 1]))
         /\ Reads(s, o + 4 + Len(order[j + 1]), Int32(LengthOfValues(h[order[j + 1]])))
         /\ Reads(s, o + 8 + Len(order[j + 1]), Only(h[order[j + 1]]))
    <2>1. j + 1 \in 1 .. Len(order)
      BY <1>1, <1>2
    <2> QED BY <1>8, <2>1, PairAt
  <1>11. After(s, end, h, order, off, j, o, l, z)
    BY <1>5, <1>7, <1>8, <1>9, <1>10, Zenon DEF After
  <1> QED BY <1>11, Zenon

\* What is left of bounds is too little for the length just read.
Exceeds(b, h, order, off, j, l, z) ==
  /\ b \in Nat /\ j \in Nat /\ j + 1 \in 1 .. Len(order)
  /\ l = Len(order[j + 1]) /\ z = Size(h[order[j + 1]])
  /\ \/ b + off[j] = Bounds + off[0] + 8 * j /\ l > b
     \/ b + off[j] + l = Bounds + off[0] + 8 * j /\ z > b

\* The names and values have been too many for the rest of bounds.
LEMMA TooMany ==
  ASSUME NEW s \in Seq(Bytes), NEW start, NEW end, NEW h, NEW order, NEW off,
         InOrder(s, start, end, h, order, off), NEW b, NEW j, NEW l, NEW z,
         Exceeds(b, h, order, off, j, l, z)
  PROVE  HeaderSize(h) > Bounds
  <1>0. /\ b \in Nat /\ j \in Nat /\ j + 1 \in 1 .. Len(order)
        /\ l = Len(order[j + 1]) /\ z = Size(h[order[j + 1]])
        /\ \/ b + off[j] = Bounds + off[0] + 8 * j /\ l > b
           \/ b + off[j] + l = Bounds + off[0] + 8 * j /\ z > b
    BY DEF Exceeds
  <1>1. PICK o \in Nat, lo \in Nat, zo \in Nat : After(s, end, h, order, off, j, o, lo, zo)
    BY <1>0, NextPair
  <1>2. /\ o = off[j] /\ lo = l /\ zo = z /\ off[j + 1] = o + (8 + lo + zo)
    BY <1>0, <1>1, Zenon DEF After
  <1>3. j + 1 \in 0 .. Len(order) /\ 0 \in 0 .. Len(order)
    <2>1. Len(order) \in Nat
      BY Steps
    <2> QED BY <1>0, <2>1
  <1>4. HeaderSize(h) \in Nat /\ off[j + 1] <= off[0] + 8 * (j + 1) + HeaderSize(h)
    BY <1>3, Spent
  <1>5. off[0] \in Nat
    BY <1>3, Steps
  <1>6. PICK p \in Nat, m \in Nat, c \in Nat, q \in Nat :
          p = off[0] /\ m = HeaderSize(h) /\ c = Bounds /\ q = 8 * j
    BY <1>0, <1>4, <1>5, Constants
  <1>7. 8 * (j + 1) = q + 8
    BY <1>0, <1>6
  <1>8. o + (8 + lo + zo) <= p + (q + 8) + m
    BY <1>2, <1>4, <1>6, <1>7, Zenon
  <1>9. \/ b + o = c + p + q /\ lo > b
        \/ b + o + lo = c + p + q /\ zo > b
    BY <1>0, <1>2, <1>6, Zenon
  <1>10. b \in Nat
    BY <1>0
  <1>11. m > c
    BY <1>8, <1>9, <1>10
  <1> QED BY <1>6, <1>11, Zenon

\* The length of a name.
LEMMA NameLengthRead ==
  ASSUME ArrivalInv, ReadNameLength, ~cutShort'
  PROVE  Written' /\ UpToDate'
  <1>1. /\ at = "pair" /\ Busy /\ Read(4) /\ UNCHANGED <<senderVars, received>> /\ pairs > 0
        /\ chunk' = Filled(chunk) /\ pairs' = pairs /\ got' = got /\ TypeInv /\ ~cutShort
        /\ (IF Value32(chunk') > bounds
            THEN at' = "ended" /\ bounds' = bounds
            ELSE at' = "name" /\ bounds' = bounds - Value32(chunk'))
    BY DEF ReadNameLength, ReadLength, TooLong, Busy, Read, ArrivalInv
  <1>2. PICK c, order, off, j :
           /\ c = Len(received) + 1 /\ LaidBlock(c, order, off) /\ Spot(sent[c], order, off, j)
           /\ InOrder(stream, Start(c), BlockEnd, sent[c], order, off)
           /\ j \in Nat /\ j + 1 \in 1 .. Len(order) /\ (j + 1) - 1 = j /\ j \in 0 .. Len(order)
    BY <1>1, Here
  <1>3. BlockEnd \in Nat /\ stream \in Seq(Bytes)
    BY <1>1, ReadInside, Numbers
  <1>4. PICK o \in Nat, l \in Nat, z \in Nat :
          After(stream, BlockEnd, sent[c], order, off, j, o, l, z)
    BY <1>2, <1>3, NextPair
  <1>a. /\ o = off[j] /\ l = Len(order[j + 1]) /\ z = Size(sent[c][order[j + 1]]) /\ l < Word
        /\ o + (8 + l + z) <= BlockEnd /\ Reads(stream, o, Int32(l))
    BY <1>4 DEF After
  <1>5. pos = o /\ pairs = Len(order) - j /\ Collected(got, sent[c], order, j)
        /\ bounds + off[j] = Bounds + off[0] + 8 * j
    BY <1>1, <1>2, <1>a DEF Spot
  <1>6. PICK t \in Seq(Bytes) : t = Int32(l) /\ Len(t) = 4 /\ Value32(t) = l
    BY <1>a, RoundTrip
  <1>7. /\ Reads(stream, pos, t) /\ pos + Len(t) <= BlockEnd
        /\ chunk \in Seq(Bytes) /\ Len(chunk) = Len(t) /\ Read(Len(chunk))
    <2>1. Reads(stream, pos, t)
      BY <1>5, <1>6, <1>a, Zenon
    <2>2. pos + Len(t) <= BlockEnd
      <3>1. PICK e \in Nat : e = BlockEnd
        BY <1>3
      <3>2. o + (8 + l + z) <= e
        BY <1>a, <3>1, Zenon
      <3>3. o + 4 <= e
        BY <3>2
      <3>4. pos = o /\ Len(t) = 4
        BY <1>5, <1>6, <1>a, Zenon
      <3> QED BY <3>1, <3>3, <3>4, Zenon
    <2>3. chunk \in Seq(Bytes) /\ Len(chunk) = 4
      BY <1>1, ChunkType
    <2> QED BY <1>1, <1>6, <2>1, <2>2, <2>3, Zenon
  <1>8. pos' = o + 4 /\ Value32(chunk') = l
    BY <1>1, <1>5, <1>6, <1>7, FullRead
  <1>9. bounds \in Nat
    BY <1>1, Constants DEF TypeInv, TypeOK
  <1>10. CASE l > bounds
    <2>1. at' = "ended"
      BY <1>1, <1>8, <1>10
    <2>2. HeaderSize(sent[c]) > Bounds
      <3>1. bounds + off[j] = Bounds + off[0] + 8 * j /\ l > bounds
        BY <1>5, <1>10, Zenon
      <3>2. Exceeds(bounds, sent[c], order, off, j, l, z)
        BY <1>2, <1>a, <1>9, <3>1, Zenon DEF Exceeds
      <3> QED BY <1>2, <1>3, <3>2, TooMany
    <2>3. Excused(sent[c])
      BY <2>2 DEF Excused
    <2> QED BY <1>1, <1>2, <2>1, <2>3, GivesUp
  <1>11. CASE ~(l > bounds)
    <2>1. at' = "name" /\ bounds' = bounds - l
      BY <1>1, <1>8, <1>11
    <2>2. bounds' + off[j] + Len(order[j + 1]) = Bounds + off[0] + 8 * j
      <3>1. bounds + o = Bounds + off[0] + 8 * j
        BY <1>a, <1>5
      <3>2. (bounds - l) + o + l = bounds + o
        BY <1>9
      <3> QED BY <1>a, <2>1, <3>1, <3>2
    <2>3. Collected(got, sent[c], order, j)'
      BY <1>1, <1>5 DEF Collected, senderVars
    <2>4. Spot(sent[c], order, off, j)'
      BY <1>1, <1>2, <1>a, <1>5, <1>8, <2>1, <2>2, <2>3 DEF Spot
    <2> QED BY <1>1, <1>2, <2>1, <2>4, GoesOn
  <1> QED BY <1>10, <1>11

\* The pair in hand: the block, where it stands, and its numbers.
InHand(c, order, off, j, o, l, z, e) ==
  /\ c = Len(received) + 1 /\ c \in 1 .. Len(sent)
  /\ sent[c] \in HeaderMaps /\ ~Overflows(sent[c])
  /\ LaidBlock(c, order, off) /\ Spot(sent[c], order, off, j)
  /\ InOrder(stream, Start(c), BlockEnd, sent[c], order, off)
  /\ j + 1 \in 1 .. Len(order) /\ j \in 0 .. Len(order) /\ j + 1 \in 0 .. Len(order)
  /\ o = off[j] /\ l = Len(order[j + 1]) /\ z = Size(sent[c][order[j + 1]])
  /\ l > 0 /\ l < Word /\ z < Word /\ order[j + 1] \in Kept(sent[c])
  /\ off[j + 1] = o + (8 + l + z) /\ o + (8 + l + z) <= e /\ e = BlockEnd
  /\ Reads(stream, o, Int32(l))
  /\ Reads(stream, o + 4, Lower(order[j + 1]))
  /\ Reads(stream, o + 4 + l, Int32(LengthOfValues(sent[c][order[j + 1]])))
  /\ Reads(stream, o + 8 + l, Only(sent[c][order[j + 1]]))

\* Inside a pair, the pair in hand and its numbers exist.
LEMMA Hand ==
  ASSUME ArrivalInv, ~cutShort, at \in {"pair", "name", "valueLength", "value"}, pairs > 0
  PROVE  \E c, order, off : \E j \in Nat, o \in Nat, l \in Nat, z \in Nat, e \in Nat :
           InHand(c, order, off, j, o, l, z, e)
  <1>1. TypeInv /\ Busy
    BY DEF ArrivalInv, Busy
  <1>2. BlockEnd \in Nat /\ stream \in Seq(Bytes)
    BY <1>1, ReadInside, Numbers
  <1>3. PICK c, order, off, j :
           /\ c = Len(received) + 1 /\ LaidBlock(c, order, off) /\ Spot(sent[c], order, off, j)
           /\ InOrder(stream, Start(c), BlockEnd, sent[c], order, off)
           /\ j \in Nat /\ j + 1 \in 1 .. Len(order) /\ (j + 1) - 1 = j /\ j \in 0 .. Len(order)
    BY <1>1, Here
  <1>4. PICK o \in Nat, l \in Nat, z \in Nat :
          After(stream, BlockEnd, sent[c], order, off, j, o, l, z)
    BY <1>2, <1>3, NextPair
  <1>5. PICK e \in Nat : e = BlockEnd
    BY <1>2
  <1>6. j + 1 \in 0 .. Len(order)
    BY <1>3, Steps
  <1>7. c \in 1 .. Len(sent)
    BY <1>1, <1>3, Here
  <1>8. sent[c] \in HeaderMaps /\ ~Overflows(sent[c])
    BY <1>3 DEF InOrder
  <1>9. InHand(c, order, off, j, o, l, z, e)
    BY <1>3, <1>4, <1>5, <1>6, <1>7, <1>8, Zenon DEF InHand, After
  <1> QED BY <1>3, <1>9

\* A name.
LEMMA NameRead ==
  ASSUME ArrivalInv, ReadName, ~cutShort'
  PROVE  Written' /\ UpToDate'
  <1>1. /\ at = "name" /\ Busy /\ UNCHANGED <<senderVars, received>> /\ TypeInv /\ pairs > 0
        /\ name' = Filled(Zeros(Value32(chunk))) /\ Read(Len(name')) /\ at' = "valueLength"
        /\ chunk' = chunk /\ pairs' = pairs /\ bounds' = bounds /\ got' = got /\ ~cutShort
    BY DEF ReadName, Busy, Read, ArrivalInv, TypeInv, Inside
  <1>2. PICK c, order, off : \E j \in Nat, o \in Nat, l \in Nat, z \in Nat, e \in Nat :
           InHand(c, order, off, j, o, l, z, e)
    BY <1>1, Hand
  <1>3. PICK j \in Nat, o \in Nat, l \in Nat, z \in Nat, e \in Nat :
           InHand(c, order, off, j, o, l, z, e)
    BY <1>2
  <1>4. /\ c = Len(received) + 1 /\ LaidBlock(c, order, off) /\ Spot(sent[c], order, off, j)
        /\ j \in 0 .. Len(order) /\ o = off[j] /\ l = Len(order[j + 1])
        /\ o + (8 + l + z) <= e /\ e = BlockEnd /\ Reads(stream, o + 4, Lower(order[j + 1]))
        /\ sent[c] \in HeaderMaps /\ ~Overflows(sent[c]) /\ order[j + 1] \in Kept(sent[c])
    BY <1>3 DEF InHand
  <1>5. /\ pos = o + 4 /\ pairs = Len(order) - j /\ Collected(got, sent[c], order, j)
        /\ Value32(chunk) = l
        /\ bounds + off[j] + Len(order[j + 1]) = Bounds + off[0] + 8 * j
    BY <1>1, <1>4 DEF Spot
  <1>6. PICK t \in Seq(Bytes) : t = Lower(order[j + 1]) /\ Len(t) = l
    <2>1. order[j + 1] \in Seq(Bytes)
      BY <1>4, Values
    <2> QED BY <1>4, <2>1, Lowered
  <1>7. Zeros(l) \in Seq(Bytes) /\ Len(Zeros(l)) = l
    BY ZerosType
  <1>8. Len(Filled(Zeros(l))) = l
    BY <1>1, <1>7, FilledType
  <1>9. Read(Len(Zeros(l)))
    BY <1>1, <1>5, <1>7, <1>8, Zenon
  <1>10. Reads(stream, pos, t) /\ pos + Len(t) <= BlockEnd
    <2>1. (o + 4) + l <= e
      <3>1. o + (8 + l + z) <= e
        BY <1>4, Zenon
      <3> QED BY <3>1
    <2> QED BY <1>4, <1>5, <1>6, <2>1, Zenon
  <1>11. Len(Zeros(l)) = Len(t)
    BY <1>6, <1>7, Zenon
  <1>12. pos' = pos + Len(t) /\ Filled(Zeros(l)) = t
    BY <1>1, <1>7, <1>9, <1>10, <1>11, FullRead
  <1>13. pos' = off[j] + 4 + Len(order[j + 1]) /\ name' = Lower(order[j + 1])
    <2>1. pos' = o + 4 + l
      BY <1>5, <1>6, <1>12
    <2> QED BY <1>1, <1>4, <1>5, <1>6, <1>12, <2>1, Zenon
  <1>14. Collected(got, sent[c], order, j)'
    BY <1>1, <1>5 DEF Collected, senderVars
  <1>15. Spot(sent[c], order, off, j)'
    BY <1>1, <1>4, <1>5, <1>13, <1>14 DEF Spot
  <1> QED BY <1>1, <1>4, <1>15, GoesOn

\* The length of values: it is too large when there is no value.
LEMMA ValueLengthRead ==
  ASSUME ArrivalInv, ReadValueLength, ~cutShort'
  PROVE  Written' /\ UpToDate'
  <1>1. /\ at = "valueLength" /\ Busy /\ Read(4) /\ UNCHANGED <<senderVars, received>>
        /\ pairs > 0 /\ chunk' = Filled(chunk) /\ pairs' = pairs /\ got' = got /\ name' = name
        /\ TypeInv /\ ~cutShort
        /\ (IF Value32(chunk') > bounds
            THEN at' = "ended" /\ bounds' = bounds
            ELSE at' = "value" /\ bounds' = bounds - Value32(chunk'))
    BY DEF ReadValueLength, ReadLength, TooLong, Busy, Read, ArrivalInv, TypeInv, Inside
  <1>2. PICK c, order, off : \E j \in Nat, o \in Nat, l \in Nat, z \in Nat, e \in Nat :
           InHand(c, order, off, j, o, l, z, e)
    BY <1>1, Hand
  <1>3. PICK j \in Nat, o \in Nat, l \in Nat, z \in Nat, e \in Nat :
           InHand(c, order, off, j, o, l, z, e)
    BY <1>2
  <1>4. /\ c = Len(received) + 1 /\ LaidBlock(c, order, off) /\ Spot(sent[c], order, off, j)
        /\ InOrder(stream, Start(c), BlockEnd, sent[c], order, off)
        /\ j \in 0 .. Len(order) /\ j + 1 \in 1 .. Len(order)
        /\ o = off[j] /\ l = Len(order[j + 1])
        /\ z = Size(sent[c][order[j + 1]])
        /\ o + (8 + l + z) <= e /\ e = BlockEnd
        /\ Reads(stream, o + 4 + l, Int32(LengthOfValues(sent[c][order[j + 1]])))
        /\ sent[c] \in HeaderMaps /\ ~Overflows(sent[c]) /\ order[j + 1] \in Kept(sent[c])
    BY <1>3 DEF InHand
  <1>5. /\ pos = off[j] + 4 + Len(order[j + 1]) /\ name = Lower(order[j + 1])
        /\ pairs = Len(order) - j /\ Collected(got, sent[c], order, j)
        /\ bounds + off[j] + Len(order[j + 1]) = Bounds + off[0] + 8 * j
    BY <1>1, <1>4 DEF Spot
  <1>6. PICK w \in Nat : w = LengthOfValues(sent[c][order[j + 1]]) /\ w < Word
          /\ w = IF Len(sent[c][order[j + 1]]) = 0 THEN Word - 1 ELSE z
    <2>1. /\ LengthOfValues(sent[c][order[j + 1]]) \in 0 .. Word - 1
          /\ LengthOfValues(sent[c][order[j + 1]]) =
               IF Len(sent[c][order[j + 1]]) = 0 THEN Word - 1 ELSE z
      BY <1>4, WrittenLength
    <2> QED BY <2>1, Constants
  <1>7. PICK t \in Seq(Bytes) : t = Int32(w) /\ Len(t) = 4 /\ Value32(t) = w
    BY <1>6, RoundTrip
  <1>8. Reads(stream, pos, t) /\ pos + Len(t) <= BlockEnd
    <2>1. pos = o + 4 + l
      BY <1>4, <1>5, Zenon
    <2>2. Reads(stream, pos, t)
      BY <1>4, <1>6, <1>7, <2>1, Zenon
    <2>3. o + (8 + l + z) <= e
      BY <1>4, Zenon
    <2>4. (o + 4 + l) + 4 <= e
      BY <2>3
    <2> QED BY <1>4, <1>7, <2>1, <2>2, <2>4, Zenon
  <1>9. chunk \in Seq(Bytes) /\ Len(chunk) = Len(t) /\ Read(Len(chunk))
    <2>1. chunk \in Seq(Bytes) /\ Len(chunk) = 4
      BY <1>1, ChunkType
    <2> QED BY <1>1, <1>7, <2>1, Zenon
  <1>10. pos' = pos + 4 /\ Value32(chunk') = w
    BY <1>1, <1>7, <1>8, <1>9, FullRead
  <1>11. bounds \in Nat /\ bounds <= Bounds
    BY <1>1, Constants DEF TypeInv, TypeOK
  <1>12. Len(sent[c][order[j + 1]]) \in {0, 1} /\ sent[c][order[j + 1]] \in Seq(Seq(1 .. Base - 1))
    BY <1>4, Values
  <1>13. CASE w > bounds
    <2>1. at' = "ended"
      BY <1>1, <1>10, <1>13
    <2>2. Excused(sent[c])
      <3>1. CASE Len(sent[c][order[j + 1]]) = 0
        <4>1. sent[c][order[j + 1]] = <<>>
          BY <1>12, <3>1, EmptySeq
        <4> QED BY <1>4, <4>1 DEF Excused
      <3>2. CASE Len(sent[c][order[j + 1]]) # 0
        <4>1. z > bounds
          BY <1>6, <1>13, <3>2
        <4>2. bounds + off[j] + l = Bounds + off[0] + 8 * j
          BY <1>4, <1>5, Zenon
        <4>3. stream \in Seq(Bytes)
          BY <1>1, Numbers
        <4>4. HeaderSize(sent[c]) > Bounds
          <5>1. j + 1 \in 1 .. Len(order) /\ l = Len(order[j + 1])
                /\ z = Size(sent[c][order[j + 1]])
                /\ InOrder(stream, Start(c), BlockEnd, sent[c], order, off)
            BY <1>4, Zenon
          <5>2. Exceeds(bounds, sent[c], order, off, j, l, z)
            BY <1>11, <4>1, <4>2, <5>1, Zenon DEF Exceeds
          <5> QED BY <4>3, <5>1, <5>2, TooMany
        <4> QED BY <4>4 DEF Excused
      <3> QED BY <3>1, <3>2
    <2> QED BY <1>1, <1>4, <2>1, <2>2, GivesUp
  <1>14. CASE ~(w > bounds)
    <2>1. at' = "value" /\ bounds' = bounds - w
      BY <1>1, <1>10, <1>14
    <2>2. Len(sent[c][order[j + 1]]) # 0
      BY <1>6, <1>11, <1>14, Constants
    <2>3. Len(sent[c][order[j + 1]]) = 1 /\ w = z
      BY <1>6, <1>12, <2>2
    <2>4. bounds' + off[j] + Len(order[j + 1]) + Size(sent[c][order[j + 1]]) =
            Bounds + off[0] + 8 * j
      <3>1. (bounds - w) + o + l + w = bounds + o + l
        BY <1>11
      <3> QED BY <1>4, <1>5, <2>1, <2>3, <3>1, Zenon
    <2>5. pos' = off[j] + 8 + Len(order[j + 1])
      <3>1. (o + 4 + l) + 4 = o + 8 + l
        OBVIOUS
      <3> QED BY <1>4, <1>5, <1>10, <3>1, Zenon
    <2>6. Collected(got, sent[c], order, j)'
      BY <1>1, <1>5 DEF Collected, senderVars
    <2>7. Spot(sent[c], order, off, j)'
      <3>1. /\ name' = Lower(order[j + 1]) /\ pairs' = Len(order) - j /\ at' = "value"
            /\ Value32(chunk') = Size(sent[c][order[j + 1]]) /\ Len(sent[c][order[j + 1]]) = 1
            /\ sent'[c] = sent[c] /\ j \in 0 .. Len(order)
        BY <1>1, <1>4, <1>5, <1>10, <2>1, <2>3, Zenon DEF senderVars
      <3> QED BY <2>4, <2>5, <2>6, <3>1 DEF Spot
    <2> QED BY <1>1, <1>4, <2>1, <2>7, GoesOn
  <1> QED BY <1>13, <1>14

\* The values of the next pair are added under a name of their own.
LEMMA OneMore ==
  ASSUME NEW h \in HeaderMaps, ~Overflows(h), NEW order \in SetToSeqs(Kept(h)),
         NEW j \in Nat, j + 1 \in 1 .. Len(order), NEW g, Collected(g, h, order, j),
         Len(h[order[j + 1]]) = 1
  PROVE  Collected(Added(g, Canonical(order[j + 1]), h[order[j + 1]]), h, order, j + 1)
  <1> DEFINE Name(k) == Canonical(order[k])
             D == {Name(k) : k \in 1 .. j}
             g2 == Added(g, Name(j + 1), h[order[j + 1]])
  <1>1. \A k \in 1 .. j : k \in 1 .. Len(order) /\ k # j + 1 /\ k \in 1 .. j + 1
    <2>1. Len(order) \in Nat
      BY Orders
    <2> QED BY <2>1
  <1>2. \A k \in 1 .. j + 1 : k \in 1 .. j \/ k = j + 1
    OBVIOUS
  <1>3. \A k \in 1 .. Len(order) : order[k] \in Kept(h)
    BY Orders
  <1>4. \A k \in 1 .. j : Name(k) # Name(j + 1)
    <2>1. ASSUME NEW k \in 1 .. j, Canonical(order[k]) = Canonical(order[j + 1]) PROVE FALSE
      <3>1. order[k] \in Kept(h) /\ order[j + 1] \in Kept(h) /\ k \in 1 .. Len(order) /\ k # j + 1
        BY <1>1, <1>3, <2>1
      <3>2. order[k] = order[j + 1]
        BY <2>1, <3>1, HeadersAssumption, Zenon
      <3>3. order[k] # order[j + 1]
        BY <3>1, Orders, Zenon
      <3> QED BY <3>2, <3>3
    <2> QED BY <2>1
  <1>5. \A k \in 1 .. Len(order) :
          h[order[k]] \in Seq(Seq(1 .. Base - 1)) /\ h[order[k]] \o <<>> = h[order[k]]
            /\ <<>> \o h[order[k]] = h[order[k]]
    <2>1. \A k \in 1 .. Len(order) : h[order[k]] \in Seq(Seq(1 .. Base - 1))
      BY <1>3, Values
    <2> QED BY <2>1, ConcatEmptySeq
  <1>6. g = [n \in D |-> g[n]] /\ \A k \in 1 .. j : Len(h[order[k]]) = 1 /\ g[Name(k)] = h[order[k]]
    BY Zenon DEF Collected
  <1>7. DOMAIN g = D
    BY <1>6, Zenon
  <1>8. D \cup {Name(j + 1)} = {Name(k) : k \in 1 .. j + 1}
    <2>1. j + 1 \in 1 .. j + 1
      OBVIOUS
    <2> HIDE DEF Name
    <2> QED BY <1>1, <1>2, <2>1
  <1> HIDE DEF Name, D
  <1>9. g2 = [n \in D \cup {Name(j + 1)} |->
               (IF n \in D THEN g[n] ELSE <<>>)
                 \o (IF n = Name(j + 1) THEN h[order[j + 1]] ELSE <<>>)]
    BY <1>7, Zenon DEF Added
  <1>10. Name(j + 1) \notin D /\ \A k \in 1 .. j : Name(k) \in D
    BY <1>4 DEF D
  <1>11. g2[Name(j + 1)] = h[order[j + 1]]
    <2>1. g2[Name(j + 1)] = <<>> \o h[order[j + 1]]
      BY <1>9, <1>10
    <2> QED BY <1>5, <2>1
  <1>12. \A k \in 1 .. j : g2[Name(k)] = h[order[k]]
    <2>1. ASSUME NEW k \in 1 .. j PROVE g2[Name(k)] = h[order[k]]
      <3>1. g2[Name(k)] = g[Name(k)] \o <<>>
        BY <1>4, <1>9, <1>10, <2>1
      <3>2. g[Name(k)] = h[order[k]] /\ h[order[k]] \o <<>> = h[order[k]]
        BY <1>1, <1>5, <1>6, <2>1
      <3> QED BY <3>1, <3>2, Zenon
    <2> QED BY <2>1
  <1>13. g2 = [n \in {Name(k) : k \in 1 .. j + 1} |-> g2[n]]
    BY <1>8, <1>9, Zenon
  <1>14. \A k \in 1 .. j + 1 : Len(h[order[k]]) = 1 /\ g2[Name(k)] = h[order[k]]
    BY <1>2, <1>6, <1>11, <1>12, Zenon
  <1> QED BY <1>13, <1>14, Zenon DEF Collected, Name

\* A value.
LEMMA OnlyOne ==
  ASSUME NEW S, NEW v \in Seq(S), Len(v) = 1
  PROVE  v[1] \in S /\ <<v[1]>> = v
  OBVIOUS

\* A value, and with it the pair.
LEMMA ValueRead ==
  ASSUME ArrivalInv, ReadValue, ~cutShort'
  PROVE  Written' /\ UpToDate'
  <1> DEFINE buffer == Zeros(Value32(chunk))
  <1>1. /\ at = "value" /\ Busy /\ UNCHANGED <<senderVars, received>> /\ TypeInv /\ pairs > 0
        /\ Read(Len(buffer)) /\ at' = "pair" /\ pairs' = pairs - 1
        /\ got' = Added(got, Canonical(name), Split(Filled(buffer)))
        /\ bounds' = bounds /\ ~cutShort
    BY DEF ReadValue, Busy, Read, ArrivalInv, TypeInv, Inside
  <1> HIDE DEF buffer
  <1>2. PICK c, order, off : \E j \in Nat, o \in Nat, l \in Nat, z \in Nat, e \in Nat :
           InHand(c, order, off, j, o, l, z, e)
    BY <1>1, Hand
  <1>3. PICK j \in Nat, o \in Nat, l \in Nat, z \in Nat, e \in Nat :
           InHand(c, order, off, j, o, l, z, e)
    BY <1>2
  <1> DEFINE v == sent[c][order[j + 1]]
  <1>4. /\ c = Len(received) + 1 /\ LaidBlock(c, order, off) /\ Spot(sent[c], order, off, j)
        /\ InOrder(stream, Start(c), BlockEnd, sent[c], order, off)
        /\ j \in 0 .. Len(order) /\ j + 1 \in 1 .. Len(order) /\ j + 1 \in 0 .. Len(order)
        /\ o = off[j] /\ l = Len(order[j + 1]) /\ z = Size(v) /\ off[j + 1] = o + (8 + l + z)
        /\ o + (8 + l + z) <= e /\ e = BlockEnd /\ Reads(stream, o + 8 + l, Only(v))
        /\ sent[c] \in HeaderMaps /\ ~Overflows(sent[c]) /\ order[j + 1] \in Kept(sent[c])
    BY <1>3 DEF InHand
  <1>5. /\ pos = off[j] + 8 + Len(order[j + 1]) /\ name = Lower(order[j + 1])
        /\ Len(v) = 1 /\ Value32(chunk) = Size(v)
        /\ pairs = Len(order) - j /\ Collected(got, sent[c], order, j)
        /\ bounds + off[j] + Len(order[j + 1]) + Size(v) = Bounds + off[0] + 8 * j
    BY <1>1, <1>4 DEF Spot
  <1>6. PICK t \in Seq(1 .. Base - 1) : t = Only(v) /\ t \in Seq(Bytes) /\ Len(t) = z /\ <<t>> = v
    <2>1. v \in Seq(Seq(1 .. Base - 1)) /\ Only(v) \in Seq(Bytes) /\ Len(Only(v)) = z
      BY <1>4, Values, WrittenLength, Zenon
    <2>2. Only(v) = v[1]
      BY <1>5 DEF Only
    <2> HIDE DEF v
    <2>3. v[1] \in Seq(1 .. Base - 1) /\ <<v[1]>> = v
      BY <1>5, <2>1, OnlyOne
    <2> QED BY <2>1, <2>2, <2>3, Zenon
  <1> HIDE DEF v
  <1>7. buffer \in Seq(Bytes) /\ Len(buffer) = Len(t)
    BY <1>4, <1>5, <1>6, ZerosType DEF buffer
  <1>8. Reads(stream, pos, t) /\ pos + Len(t) <= BlockEnd
    <2>1. o + (8 + l + z) <= e
      BY <1>4, Zenon
    <2>2. (o + 8 + l) + z <= e
      BY <2>1
    <2> QED BY <1>4, <1>5, <1>6, <2>2, Zenon
  <1>9. pos' = pos + Len(t) /\ Filled(buffer) = t
    BY <1>1, <1>6, <1>7, <1>8, FullRead
  <1>10. pos' = off[j + 1]
    <2>1. (o + 8 + l) + z = o + (8 + l + z)
      OBVIOUS
    <2> QED BY <1>4, <1>5, <1>6, <1>9, <2>1, Zenon
  <1>11. got' = Added(got, Canonical(order[j + 1]), v)
    <2>1. order[j + 1] \in Seq(Bytes)
      BY <1>4, Values
    <2>2. Canonical(name) = Canonical(order[j + 1])
      BY <1>5, <2>1, Lowered, Zenon
    <2>3. Split(Filled(buffer)) = v
      BY <1>6, <1>9, SplitOne, Zenon
    <2> QED BY <1>1, <2>2, <2>3, Zenon
  <1>12. Collected(got', sent[c], order, j + 1)
    <2>1. order \in SetToSeqs(Kept(sent[c]))
      BY <1>4 DEF InOrder
    <2> QED BY <1>4, <1>5, <1>11, <2>1, OneMore DEF v
  <1>13. pairs' = Len(order) - (j + 1)
    <2>1. Len(order) \in Nat
      BY <1>4, Steps
    <2> QED BY <1>1, <1>5, <2>1
  <1>14. bounds' + off[j + 1] = Bounds + off[0] + 8 * (j + 1)
    <2>1. bounds \in Nat
      BY <1>1, Constants DEF TypeInv, TypeOK
    <2>2. PICK q \in Nat, m \in Nat : q = off[0] /\ m = Bounds
      <3>1. off[0] \in Nat
        <4>1. Len(order) \in Nat
          BY <1>4, Steps
        <4>2. 0 \in 0 .. Len(order)
          BY <4>1
        <4> QED BY <1>4, <4>2, Steps
      <3> QED BY <3>1, Constants
    <2>3. bounds + o + l + z = m + q + 8 * j
      BY <1>4, <1>5, <2>2, Zenon
    <2>4. bounds + (o + (8 + l + z)) = m + q + 8 * (j + 1)
      BY <2>1, <2>3
    <2> QED BY <1>1, <1>4, <2>2, <2>4, Zenon
  <1>15. Spot(sent[c], order, off, j + 1)'
    <2>1. sent'[c] = sent[c]
      BY <1>1 DEF senderVars
    <2>2. j + 1 \in 0 .. Len(order)
      BY <1>4
    <2> QED BY <1>1, <1>10, <1>12, <1>13, <1>14, <2>1, <2>2 DEF Spot
  <1> QED BY <1>1, <1>4, <1>15, GoesOn

\* A Read fails where the block ends: where the last value is empty.
LEMMA ReadFailed ==
  ASSUME ArrivalInv, ReadFails, ~cutShort'
  PROVE  Written' /\ UpToDate'
  <1>1. /\ Busy /\ TypeInv /\ Failed /\ ~cutShort /\ UNCHANGED <<senderVars, received>>
        /\ (at = "pair" => pairs > 0)
        /\ (at \in {"name", "valueLength", "value"} => pairs > 0)
        /\ at' = IF at \in {"name", "valueLength"} THEN "panicked" ELSE "ended"
    BY DEF ReadFails, Busy, ArrivalInv, TypeInv, Inside
  <1>2. PICK p \in Nat, e \in Nat : p = pos /\ e = BlockEnd /\ p = e
    <2>1. pos \in Nat /\ RunEnd \in Nat /\ RunEnd > pos /\ BlockEnd \in Nat
      BY <1>1, Numbers, RunIsAhead, ReadInside
    <2>2. Ready = 0
      BY <1>1 DEF Failed
    <2>3. pos = BlockEnd
      BY <2>1, <2>2 DEF Ready
    <2> QED BY <2>1, <2>3
  <1>3. at # "count"
    <2> SUFFICES ASSUME at = "count" PROVE FALSE
      OBVIOUS
    <2>1. PICK c, order, off, j :
             /\ c = Len(received) + 1 /\ LaidBlock(c, order, off) /\ Spot(sent[c], order, off, j)
             /\ InOrder(stream, Start(c), BlockEnd, sent[c], order, off)
      BY <1>1, Here
    <2>2. off[0] <= BlockEnd
      <3>1. Len(order) \in Nat
        BY <2>1, Steps
      <3>2. 0 \in 0 .. Len(order)
        BY <3>1
      <3> QED BY <2>1, <3>2, Steps
    <2>3. pos + 4 = off[0]
      BY <2>1 DEF Spot
    <2>4. p + 4 <= e
      BY <1>2, <2>2, <2>3, Zenon
    <2> QED BY <1>2, <2>4
  <1>4. at \in {"pair", "name", "valueLength", "value"} /\ pairs > 0
    BY <1>1, <1>3 DEF Busy
  <1>5. PICK c, order, off : \E j \in Nat, o \in Nat, l \in Nat, z \in Nat, f \in Nat :
           InHand(c, order, off, j, o, l, z, f)
    BY <1>1, <1>4, Hand
  <1>6. PICK j \in Nat, o \in Nat, l \in Nat, z \in Nat, f \in Nat :
           InHand(c, order, off, j, o, l, z, f)
    BY <1>5
  <1>7. /\ c = Len(received) + 1 /\ Spot(sent[c], order, off, j)
        /\ o = off[j] /\ l = Len(order[j + 1]) /\ z = Size(sent[c][order[j + 1]])
        /\ l > 0 /\ f = BlockEnd
        /\ sent[c] \in HeaderMaps /\ ~Overflows(sent[c]) /\ order[j + 1] \in Kept(sent[c])
    BY <1>6 DEF InHand
  <1>8. o + (8 + l + z) <= f /\ f = p /\ l > 0
    BY <1>2, <1>6, Zenon DEF InHand
  <1>9. CASE at = "pair"
    <2>1. pos = off[j]
      BY <1>7, <1>9 DEF Spot
    <2>2. p = o
      BY <1>2, <1>7, <2>1, Zenon
    <2> QED BY <1>8, <2>2
  <1>10. CASE at = "name"
    <2>1. pos = off[j] + 4
      BY <1>7, <1>10 DEF Spot
    <2>2. p = o + 4
      BY <1>2, <1>7, <2>1, Zenon
    <2> QED BY <1>8, <2>2
  <1>11. CASE at = "valueLength"
    <2>1. pos = off[j] + 4 + Len(order[j + 1])
      BY <1>7, <1>11 DEF Spot
    <2>2. p = o + 4 + l
      BY <1>2, <1>7, <2>1, Zenon
    <2> QED BY <1>8, <2>2
  <1>12. CASE at = "value"
    <2>1. pos = off[j] + 8 + Len(order[j + 1]) /\ Len(sent[c][order[j + 1]]) = 1
      BY <1>7, <1>12 DEF Spot
    <2>2. p = o + 8 + l
      BY <1>2, <1>7, <2>1, Zenon
    <2>3. z = 0
      BY <1>8, <2>2
    <2>4. sent[c][order[j + 1]] = <<<<>>>>
      <3>1. sent[c][order[j + 1]] \in Seq(Seq(1 .. Base - 1))
        BY <1>7, Values
      <3>2. PICK v \in Seq(Seq(1 .. Base - 1)) : v = sent[c][order[j + 1]]
        BY <3>1
      <3>3. Len(v) = 1 /\ v[1] \in Seq(1 .. Base - 1) /\ <<v[1]>> = v
        BY <2>1, <3>2, OnlyOne
      <3>4. Len(v[1]) = 0
        BY <1>7, <2>3, <3>2, <3>3 DEF Size
      <3>5. v[1] = <<>>
        BY <3>3, <3>4, EmptySeq
      <3> QED BY <3>2, <3>3, <3>5
    <2>5. Excused(sent[c])
      BY <1>7, <2>4 DEF Excused
    <2>6. at' = "ended"
      BY <1>1, <1>12
    <2> QED BY <1>1, <1>7, <2>5, <2>6, GivesUp
  <1> QED BY <1>4, <1>9, <1>10, <1>11, <1>12

\* The reader starts where the block does.
LEMMA BlockStarted ==
  ASSUME ArrivalInv, Decompress, ~cutShort'
  PROVE  Written' /\ UpToDate'
  <1>1. /\ at = "idle" /\ Len(received) < Len(sent) /\ at' = "count" /\ bounds' = Bounds
        /\ got' = None /\ UNCHANGED <<senderVars, received>> /\ pos' = pos /\ TypeInv /\ Written
        /\ ~cutShort
    BY DEF Decompress, FreshBounds, ArrivalInv
  <1>2. PICK c \in Nat : c = Len(received) + 1 /\ c \in 1 .. Len(sent)
    BY <1>1, Numbers
  <1>3. PICK order, off : LaidBlock(c, order, off)
    BY <1>1, <1>2 DEF Written
  <1>4. pos = Start(c)
    BY <1>1, <1>2 DEF TypeInv, Inside
  <1>5. off[0] = Start(c) + 4
    BY <1>3, Steps DEF LaidBlock
  <1>6. Spot(sent[c], order, off, 0)'
    BY <1>1, <1>4, <1>5 DEF Spot
  <1> QED BY <1>1, <1>2, <1>3, <1>6, GoesOn

\* All pairs of a map make what it arrives as.
LEMMA AllCollected ==
  ASSUME NEW h \in HeaderMaps, NEW order \in SetToSeqs(Kept(h)), NEW g,
         Collected(g, h, order, Len(order))
  PROVE  g = Arrival(h)
  <1> DEFINE D == {Canonical(order[k]) : k \in 1 .. Len(order)}
             E == {Canonical(m) : m \in Kept(h)}
             Own(n) == CHOOSE m \in Kept(h) : Canonical(m) = n
  <1>1. D = E
    <2>1. /\ \A i \in 1 .. Len(order) : order[i] \in Kept(h)
          /\ \A n \in Kept(h) : \E i \in 1 .. Len(order) : order[i] = n
      BY Orders
    <2> QED BY <2>1
  <1>2. g = [n \in D |-> g[n]] /\ \A k \in 1 .. Len(order) : g[Canonical(order[k])] = h[order[k]]
    BY Zenon DEF Collected
  <1>3. ASSUME NEW n \in D PROVE g[n] = h[Own(n)]
    <2>1. PICK k \in 1 .. Len(order) : n = Canonical(order[k])
      BY <1>3
    <2>2. order[k] \in Kept(h)
      BY Orders
    <2>3. Own(n) \in Kept(h) /\ Canonical(Own(n)) = n
      BY <2>1, <2>2, Zenon
    <2>4. Own(n) = order[k]
      <3> HIDE DEF Own
      <3> QED BY <2>1, <2>2, <2>3, HeadersAssumption, Zenon
    <2> QED BY <1>2, <2>1, <2>4, Zenon
  <1>4. g = [n \in D |-> h[Own(n)]]
    <2> HIDE DEF D, Own
    <2> QED BY <1>2, <1>3, Zenon
  <1> QED BY <1>1, <1>4, Zenon DEF Arrival

\* The block is complete, and the reader at its end.
LEMMA BlockEnded ==
  ASSUME ArrivalInv, Decompressed, ~cutShort'
  PROVE  Written' /\ UpToDate'
  <1>1. /\ at = "pair" /\ pairs = 0 /\ received' = Append(received, got)
        /\ at' = (IF pos = BlockEnd THEN "idle" ELSE "astray")
        /\ UNCHANGED senderVars /\ sent' = sent /\ TypeInv /\ UpToDate /\ ~cutShort /\ Busy
    BY DEF Decompressed, ArrivalInv, Busy, senderVars
  <1>2. PICK c, order, off, j :
           /\ c = Len(received) + 1 /\ LaidBlock(c, order, off) /\ Spot(sent[c], order, off, j)
           /\ InOrder(stream, Start(c), BlockEnd, sent[c], order, off)
    BY <1>1, Here
  <1>3. j = Len(order) /\ Collected(got, sent[c], order, j) /\ pos = off[j]
    <2>1. Len(order) \in Nat
      BY <1>2, Steps
    <2>2. j \in 0 .. Len(order) /\ pairs = Len(order) - j /\ pos = off[j]
          /\ Collected(got, sent[c], order, j)
      BY <1>1, <1>2 DEF Spot
    <2>3. j = Len(order)
      BY <1>1, <2>1, <2>2
    <2> QED BY <2>2, <2>3
  <1>4. pos = BlockEnd
    BY <1>2, <1>3, Steps
  <1>5. got = Arrival(sent[c])
    BY <1>2, <1>3, AllCollected DEF InOrder
  <1>6. /\ Len(received) \in Nat /\ Len(received') = Len(received) + 1
        /\ \A b \in 1 .. Len(received) : received'[b] = received[b]
        /\ received'[Len(received) + 1] = got
    <2>1. PICK S : received \in Seq(S)
      BY <1>1 DEF TypeInv, Inside
    <2>2. received \in Seq(S \cup {got})
      BY <2>1, SeqMonotonic
    <2> QED BY <1>1, <2>2, AppendProperties
  <1>7. \A b \in 1 .. Len(received') : received'[b] = Arrival(sent'[b])
    <2>1. ASSUME NEW b \in 1 .. Len(received') PROVE received'[b] = Arrival(sent[b])
      <3>1. CASE b = Len(received) + 1
        BY <1>2, <1>5, <1>6, <3>1
      <3>2. CASE b # Len(received) + 1
        <4>1. b \in 1 .. Len(received)
          BY <1>6, <2>1, <3>2
        <4> QED BY <1>1, <1>6, <4>1 DEF UpToDate
      <3> QED BY <3>1, <3>2
    <2> QED BY <1>1, <2>1, Zenon
  <1>8. at' = "idle" /\ ~Busy'
    BY <1>1, <1>4 DEF Busy
  <1>9. UpToDate'
    BY <1>7, <1>8 DEF UpToDate
  <1>10. Written'
    BY <1>1, There
  <1> QED BY <1>9, <1>10

\* A block that stands in the stream stands in the longer one.
LEMMA LaidStays ==
  ASSUME NEW s \in Seq(Bytes), NEW x \in Seq(Bytes), NEW start \in Nat, NEW end \in Nat,
         NEW h, NEW order, NEW off, InOrder(s, start, end, h, order, off)
  PROVE  InOrder(s \o x, start, end, h, order, off)
  <1>1. PICK n \in Nat : n = Len(order) /\ n < Word
    BY Steps
  <1>2. Laid(s, start, end, h, order, off) /\ h \in HeaderMaps /\ ~Overflows(h)
        /\ order \in SetToSeqs(Kept(h)) /\ Offsets(off)
    BY DEF InOrder
  <1>3. Reads(s \o x, start, Int32(Len(order)))
    <2>1. Len(Int32(n)) = 4
      BY <1>1, RoundTrip
    <2>2. Len(Int32(Len(order))) \in Nat
      BY <1>1, <2>1
    <2>3. Reads(s, start, Int32(Len(order)))
      BY <1>2 DEF Laid
    <2> QED BY <2>2, <2>3, ReadsStays
  <1>4. ASSUME NEW i \in 1 .. n PROVE Reads(s \o x, off[i - 1], Pair(order[i], h[order[i]]))
    <2>1. i - 1 \in Nat
      OBVIOUS
    <2>2. PICK p \in Nat : p = off[i - 1]
      BY <1>2, <2>1, OffsetType
    <2>3. order[i] \in Kept(h)
      BY <1>1, <1>2, Orders
    <2>4. Len(Pair(order[i], h[order[i]])) \in Nat
      <3>1. Pair(order[i], h[order[i]]) \in Seq(Bytes)
        BY <1>2, <2>3, PairParts
      <3> QED BY <3>1
    <2>5. Reads(s, p, Pair(order[i], h[order[i]]))
      BY <1>1, <1>2, <2>2 DEF Laid
    <2>6. Reads(s \o x, p, Pair(order[i], h[order[i]]))
      BY <2>4, <2>5, ReadsStays
    <2> QED BY <2>2, <2>6, Zenon
  <1>5. end <= Len(s \o x)
    <2>1. PICK a \in Nat, b \in Nat : a = Len(s) /\ b = Len(x)
      OBVIOUS
    <2>2. end <= a
      BY <1>2, <2>1 DEF Laid
    <2>3. Len(s \o x) = a + b
      BY <2>1, Joins
    <2> QED BY <2>2, <2>3
  <1>6. /\ off[0] = start + 4 /\ off[Len(order)] = end
        /\ \A i \in 1 .. n : off[i] = off[i - 1] + (8 + Len(order[i]) + Size(h[order[i]]))
    BY <1>1, <1>2, Zenon DEF Laid
  <1>7. Laid(s \o x, start, end, h, order, off)
    BY <1>1, <1>3, <1>4, <1>5, <1>6, Zenon DEF Laid
  <1> QED BY <1>2, <1>7 DEF InOrder

\* Nothing that the reader depends on has changed.
LEMMA Still ==
  ASSUME ArrivalInv, ~cutShort,
         sent' = sent, stream' = stream, ends' = ends, received' = received, at' = at, pos' = pos,
         chunk' = chunk, pairs' = pairs, bounds' = bounds, name' = name, got' = got
  PROVE  UpToDate'
  <1>1. UpToDate
    BY DEF ArrivalInv
  <1>2. \A b : Arrival(sent'[b]) = Arrival(sent[b]) /\ Excused(sent'[b]) = Excused(sent[b])
    BY Zenon
  <1>3. \A c, order, off : LaidBlock(c, order, off)' <=> LaidBlock(c, order, off)
    BY Zenon DEF LaidBlock, Start
  <1>4. ASSUME NEW c, NEW order, NEW off, NEW j, Spot(sent[c], order, off, j)
        PROVE  Spot(sent[c], order, off, j)'
    BY <1>4, Zenon DEF Spot
  <1>5. Busy' <=> Busy
    BY DEF Busy
  <1>6. Busy' => \E c, order, off, j : /\ c = Len(received') + 1 /\ LaidBlock(c, order, off)'
                                        /\ Spot(sent[c], order, off, j)'
    <2> SUFFICES ASSUME Busy' PROVE \E c, order, off, j :
                     /\ c = Len(received') + 1 /\ LaidBlock(c, order, off)'
                     /\ Spot(sent[c], order, off, j)'
      OBVIOUS
    <2>1. PICK c, order, off, j : /\ c = Len(received) + 1 /\ LaidBlock(c, order, off)
                                  /\ Spot(sent[c], order, off, j)
      BY <1>1, <1>5 DEF UpToDate
    <2> QED BY <1>3, <1>4, <2>1
  <1>7. /\ \A b \in 1 .. Len(received') : received'[b] = Arrival(sent'[b])
        /\ at' \notin {"panicked", "astray"}
        /\ at' = "ended" => /\ Len(received') < Len(sent')
                            /\ Excused(sent'[Len(received') + 1])
    BY <1>1, <1>2 DEF UpToDate
  <1> QED BY <1>6, <1>7, Zenon DEF UpToDate

\* A block that is sent comes behind the others.
LEMMA BlockSent ==
  ASSUME ArrivalInv, NEW h \in HeaderMaps, Compress(h)
  PROVE  Written' /\ (~cutShort' => UpToDate')
  <1>1. /\ UNCHANGED <<at, pos, chunk, pairs, bounds, name, got, received, cutShort>>
        /\ TypeInv /\ Written
        /\ (IF Overflows(h) THEN sender' = "panicked" /\ UNCHANGED <<sent, stream, ends>>
            ELSE \E order \in SetToSeqs(Kept(h)) :
                    /\ stream' = stream \o Block(h, order)
                    /\ ends' = Append(ends, Len(stream'))
                    /\ sent' = Append(sent, h))
    BY DEF Compress, ArrivalInv
  <1>2. CASE Overflows(h)
    <2>1. /\ sent' = sent /\ stream' = stream /\ ends' = ends /\ received' = received /\ at' = at
          /\ pos' = pos /\ chunk' = chunk /\ pairs' = pairs /\ bounds' = bounds /\ name' = name
          /\ got' = got /\ cutShort' = cutShort
      BY <1>1, <1>2
    <2>2. Written'
      BY <1>1, <2>1 DEF Written, LaidBlock, Start
    <2>3. ~cutShort => UpToDate'
      BY <2>1, Still
    <2> QED BY <2>1, <2>2, <2>3
  <1>3. CASE ~Overflows(h)
    <2>1. PICK order \in SetToSeqs(Kept(h)) :
             /\ stream' = stream \o Block(h, order) /\ ends' = Append(ends, Len(stream'))
             /\ sent' = Append(sent, h)
      BY <1>1, <1>3
    <2>2. PICK x \in Seq(Bytes) : x = Block(h, order) /\ stream' = stream \o x
      <3>1. stream \in Seq(Bytes)
        BY <1>1, Numbers
      <3> QED BY <1>3, <2>1, <3>1, BlockLaid
    <2>3. PICK n \in Nat : n = Len(sent) /\ Len(ends) = n /\ Len(received) <= n
      BY <1>1, Numbers
    <2>4. /\ Len(sent') = n + 1 /\ sent'[n + 1] = h
          /\ \A b \in 1 .. n : sent'[b] = sent[b]
      <3>1. sent \in Seq(HeaderMaps)
        BY <1>1 DEF TypeInv, TypeOK
      <3> QED BY <2>1, <2>3, <3>1, AppendProperties
    <2>5. /\ ends'[n + 1] = Len(stream') /\ \A b \in 1 .. n : ends'[b] = ends[b]
      <3>1. ends \in Seq(Nat)
        <4>1. ends \in Seq(0 .. Len(stream))
          BY <1>1 DEF TypeInv, TypeOK
        <4>2. 0 .. Len(stream) \subseteq Nat
          OBVIOUS
        <4> QED BY <4>1, <4>2, SeqMonotonic
      <3>2. Len(stream') \in Nat
        <4>1. stream \o x \in Seq(Bytes)
          BY <1>1, Numbers, Joins
        <4> QED BY <2>2, <4>1
      <3> QED BY <2>1, <2>3, <3>1, <3>2, AppendProperties
    <2>6. \A b \in 1 .. n + 1 : Start(b)' = Start(b)
      <3>1. ASSUME NEW b \in 1 .. n + 1, b # 1 PROVE ends'[b - 1] = ends[b - 1]
        BY <2>5, <3>1
      <3> QED BY <3>1 DEF Start
    <2>7. \A b \in 1 .. n : \A ord, off : LaidBlock(b, ord, off) => LaidBlock(b, ord, off)'
      <3> SUFFICES ASSUME NEW b \in 1 .. n, NEW ord, NEW off, LaidBlock(b, ord, off)
                   PROVE  LaidBlock(b, ord, off)'
        OBVIOUS
      <3>1. PICK start \in Nat, end \in Nat : start = Start(b) /\ end = ends[b]
        BY <1>1, <2>3, Numbers
      <3>2. stream \in Seq(Bytes)
        BY <1>1, Numbers
      <3>3. InOrder(stream, start, end, sent[b], ord, off)
        BY <3>1 DEF LaidBlock
      <3>4. InOrder(stream \o x, start, end, sent[b], ord, off)
        BY <3>2, <3>3, LaidStays
      <3>5. b \in 1 .. n + 1
        OBVIOUS
      <3>6. start = Start(b)' /\ end = ends'[b] /\ sent'[b] = sent[b]
        BY <2>4, <2>5, <2>6, <3>1, <3>5
      <3> QED BY <2>2, <3>4, <3>6, Zenon DEF LaidBlock
    <2>8. Start(n + 2)' = Len(stream')
      <3>1. n + 2 # 1 /\ (n + 2) - 1 = n + 1
        OBVIOUS
      <3> QED BY <2>5, <3>1 DEF Start
    <2>9. \E off : LaidBlock(n + 1, order, off)'
      <3>1. stream \in Seq(Bytes)
        BY <1>1, Numbers
      <3>2. PICK off : /\ Offsets(off)
                       /\ Laid(stream', Len(stream), Len(stream'), h, order, off)
        BY <1>3, <2>1, <3>1, BlockLaid
      <3>3. Start(n + 1)' = Len(stream)
        <4>1. n + 1 \in 1 .. n + 1
          OBVIOUS
        <4>2. Start(n + 1) = Len(stream)
          BY <1>1, <2>3 DEF Written
        <4> QED BY <2>6, <4>1, <4>2
      <3>4. InOrder(stream', Len(stream), Len(stream'), h, order, off)
        BY <1>3, <3>2 DEF InOrder
      <3>5. LaidBlock(n + 1, order, off)'
        BY <2>4, <2>5, <3>3, <3>4, Zenon DEF LaidBlock
      <3> QED BY <3>5
    <2>10. Written'
      <3>1. Start(Len(sent) + 1)' = Len(stream')
        <4>1. Len(sent') + 1 = n + 2
          BY <2>4
        <4> QED BY <2>8, <4>1, Zenon
      <3>2. ASSUME NEW b \in 1 .. n + 1
            PROVE  ~Overflows(sent'[b]) /\ \E ord, off : LaidBlock(b, ord, off)'
        <4>1. CASE b = n + 1
          BY <1>3, <2>4, <2>9, <4>1
        <4>2. CASE b # n + 1
          <5>1. b \in 1 .. n
            BY <3>2, <4>2
          <5>2. ~Overflows(sent[b]) /\ \E ord, off : LaidBlock(b, ord, off)
            BY <1>1, <2>3, <5>1 DEF Written
          <5> QED BY <2>4, <2>7, <5>1, <5>2
        <4> QED BY <4>1, <4>2
      <3> QED BY <2>4, <3>1, <3>2, Zenon DEF Written
    <2>11. ASSUME ~cutShort PROVE UpToDate'
      <3>1. UpToDate
        BY <2>11 DEF ArrivalInv
      <3>2. /\ received' = received /\ at' = at /\ pos' = pos /\ chunk' = chunk /\ pairs' = pairs
            /\ bounds' = bounds /\ name' = name /\ got' = got
        BY <1>1
      <3>3. \A b \in 1 .. Len(received') : received'[b] = Arrival(sent'[b])
        <4>1. ASSUME NEW b \in 1 .. Len(received) PROVE received[b] = Arrival(sent'[b])
          <5>1. b \in 1 .. n
            <6>1. Len(received) \in Nat
              BY <1>1, Numbers
            <6> QED BY <2>3, <4>1, <6>1
          <5> QED BY <2>4, <3>1, <4>1, <5>1 DEF UpToDate
        <4> QED BY <3>2, <4>1, Zenon
      <3>4. Len(received) < Len(sent) =>
              Len(received) + 1 \in 1 .. n /\ Len(received) < Len(sent')
        <4>1. Len(received) \in Nat
          BY <1>1, Numbers
        <4> QED BY <2>3, <2>4, <4>1
      <3>5. ASSUME Busy'
            PROVE  \E c, ord, off, j :
                      /\ c = Len(received') + 1 /\ LaidBlock(c, ord, off)'
                      /\ Spot(sent[c], ord, off, j)'
        <4>1. Busy
          BY <3>2, <3>5 DEF Busy
        <4>2. PICK c, ord, off, j : /\ c = Len(received) + 1 /\ LaidBlock(c, ord, off)
                                    /\ Spot(sent[c], ord, off, j)
          BY <3>1, <4>1 DEF UpToDate
        <4>3. c \in 1 .. n
          BY <1>1, <3>4, <4>1, <4>2 DEF TypeInv, Inside
        <4>4. LaidBlock(c, ord, off)'
          BY <2>7, <4>2, <4>3
        <4>5. sent'[c] = sent[c]
          BY <2>4, <4>3
        <4>6. Spot(sent[c], ord, off, j)'
          BY <3>2, <4>2, <4>5, Zenon DEF Spot
        <4> QED BY <3>2, <4>2, <4>4, <4>6
      <3>6. ASSUME at' = "ended"
            PROVE  Len(received') < Len(sent') /\ Excused(sent'[Len(received') + 1])
        <4>1. Len(received) < Len(sent) /\ Excused(sent[Len(received) + 1])
          BY <3>1, <3>2, <3>6 DEF UpToDate
        <4>2. sent'[Len(received) + 1] = sent[Len(received) + 1]
          BY <2>4, <3>4, <4>1
        <4> QED BY <3>2, <3>4, <4>1, <4>2
      <3>7. at' \notin {"panicked", "astray"}
        BY <3>1, <3>2 DEF UpToDate
      <3> QED BY <3>3, <3>5, <3>6, <3>7, Zenon DEF UpToDate
    <2> QED BY <1>1, <2>10, <2>11
  <1> QED BY <1>2, <1>3

\* Every step keeps the invariant.
LEMMA ArrivalStep == ArrivalInv /\ [Next]_vars => ArrivalInv'
  <1> SUFFICES ASSUME ArrivalInv, [Next]_vars PROVE ArrivalInv'
    OBVIOUS
  <1>1. TypeInv'
    BY TypeStep DEF ArrivalInv
  <1>2. ASSUME NEW h \in HeaderMaps, Compress(h) PROVE Written' /\ (~cutShort' => UpToDate')
    BY <1>2, BlockSent
  <1>3. ASSUME Decompress \/ ReadCount \/ ReadNameLength \/ ReadName \/ ReadValueLength
                 \/ ReadValue \/ ReadFails \/ Decompressed
        PROVE  Written' /\ (~cutShort' => UpToDate')
    <2>1. UNCHANGED senderVars
      BY <1>3 DEF Decompress, ReadCount, ReadNameLength, ReadName, ReadValueLength, ReadValue,
                  ReadFails, Decompressed
    <2>2. Written'
      BY <2>1, There
    <2>3. ASSUME ~cutShort' PROVE UpToDate'
      BY <1>3, <2>3, BlockStarted, CountRead, NameLengthRead, NameRead, ValueLengthRead,
         ValueRead, ReadFailed, BlockEnded
    <2> QED BY <2>2, <2>3
  <1>4. ASSUME UNCHANGED vars PROVE Written' /\ (~cutShort' => UpToDate')
    <2>1. /\ sent' = sent /\ stream' = stream /\ ends' = ends /\ received' = received /\ at' = at
          /\ pos' = pos /\ chunk' = chunk /\ pairs' = pairs /\ bounds' = bounds /\ name' = name
          /\ got' = got /\ cutShort' = cutShort /\ UNCHANGED senderVars
      BY <1>4 DEF vars, senderVars
    <2>2. Written'
      BY <2>1, There
    <2>3. ASSUME ~cutShort PROVE UpToDate'
      BY <2>1, <2>3, Still
    <2> QED BY <2>1, <2>2, <2>3
  <1>5. Written' /\ (~cutShort' => UpToDate')
    BY <1>2, <1>3, <1>4 DEF Next
  <1> QED BY <1>1, <1>5 DEF ArrivalInv

\* A sequence is typed by its elements.
LEMMA ProperAgain ==
  ASSUME NEW S, NEW s \in Seq(S), NEW T, \A i \in 1 .. Len(s) : s[i] \in T
  PROVE  s \in Seq(T)
  OBVIOUS

\* Sequences that agree up to n have the same beginning.
LEMMA SameFirst ==
  ASSUME NEW S, NEW s \in Seq(S), NEW t \in Seq(S), NEW n \in Nat, n <= Len(s), n <= Len(t),
         \A i \in 1 .. n : s[i] = t[i]
  PROVE  SubSeq(s, 1, n) = SubSeq(t, 1, n)
  <1>2. PICK a \in Seq(S) : a = SubSeq(s, 1, n) /\ Len(a) = n /\ \A k \in 1 .. n : a[k] = s[k]
    <2>1. /\ SubSeq(s, 1, n) \in Seq(S) /\ Len(SubSeq(s, 1, n)) = n
          /\ \A k \in 1 .. n : SubSeq(s, 1, n)[k] = s[k]
      BY First
    <2> QED BY <2>1, Zenon
  <1>3. PICK b \in Seq(S) : b = SubSeq(t, 1, n) /\ Len(b) = n /\ \A k \in 1 .. n : b[k] = t[k]
    <2>1. /\ SubSeq(t, 1, n) \in Seq(S) /\ Len(SubSeq(t, 1, n)) = n
          /\ \A k \in 1 .. n : SubSeq(t, 1, n)[k] = t[k]
      BY First
    <2> QED BY <2>1, Zenon
  <1>4. a = b
    BY <1>2, <1>3, SeqEqual
  <1> QED BY <1>2, <1>3, <1>4

\* The headers of each frame arrive as they were sent, as long as zlib's
\* window cuts no Read short (compression.go 55-92, 144-194).
THEOREM HeadersArriveAsSent == Spec => []HeadersArrive
  <1>1. ArrivalInv => HeadersArrive
    <2> SUFFICES ASSUME ArrivalInv, ~cutShort
                 PROVE  IsPrefix(received, [i \in DOMAIN sent |-> Arrival(sent[i])])
      BY DEF HeadersArrive
    <2> DEFINE all == [i \in DOMAIN sent |-> Arrival(sent[i])]
    <2>1. PICK n \in Nat, m \in Nat : n = Len(received) /\ m = Len(sent) /\ n <= m
      BY Numbers DEF ArrivalInv
    <2>2. \A b \in 1 .. n : received[b] = Arrival(sent[b])
      BY <2>1 DEF ArrivalInv, UpToDate
    <2>3. DOMAIN received = 1 .. n /\ DOMAIN sent = 1 .. m
      BY <2>1 DEF ArrivalInv, TypeInv, TypeOK, Inside
    <2>4. \A b \in 1 .. n : received[b] = all[b]
      <3>1. \A b \in 1 .. n : b \in 1 .. m
        BY <2>1
      <3> QED BY <2>2, <2>3, <3>1
    <2>5. all \in Seq({Arrival(sent[i]) : i \in 1 .. m}) /\ Len(all) = m
      BY <2>3
    <2>6. PICK T : T = {Arrival(sent[i]) : i \in 1 .. m}
      OBVIOUS
    <2> HIDE DEF all
    <2>7. PICK u \in Seq(T) : u = all /\ Len(u) = m
      BY <2>5, <2>6
    <2>8. received \in Seq(T)
      <3>1. \A b \in 1 .. n : received[b] \in T
        BY <2>1, <2>2, <2>6
      <3>2. PICK S : received \in Seq(S)
        BY DEF ArrivalInv, TypeInv, Inside
      <3> QED BY <2>1, <3>1, <3>2, ProperAgain
    <2>9. PICK r \in Seq(T) : r = received
      BY <2>8
    <2>10. SubSeq(r, 1, n) = SubSeq(u, 1, n)
      BY <2>1, <2>4, <2>7, <2>9, SameFirst
    <2> QED BY <2>1, <2>7, <2>9, <2>10, Zenon DEF IsPrefix, all
  <1> QED BY <1>1, ArrivalInit, ArrivalStep, PTL DEF Spec

\* Unless the window has cut a Read short, the reader gives up a block only
\* for a name without a value, for an empty last value or for headers larger
\* than a frame, and never panics (compression.go 20-94).
THEOREM StopsAreExplained == Spec => []StopsExplained
  <1>1. ArrivalInv => StopsExplained
    BY DEF ArrivalInv, UpToDate, StopsExplained, Excused
  <1> QED BY <1>1, ArrivalInit, ArrivalStep, PTL DEF Spec
=============================================================================
