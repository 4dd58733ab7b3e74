--------------------------- MODULE EncodingProofs ---------------------------
(***************************************************************************)
(* What is packed is unpacked (agent_proto.py), for every number of 32     *)
(* bits and every string of bytes, wherever it stands and whatever follows,*)
(* and what signing.py makes of a number is that number by RFC 4251.       *)
(* The library's induction theorems take operators, which no prover here   *)
(* can give them; Induction has a set instead, and recursive functions are *)
(* reasoned about with it.  Where large numbers are in sight SMT alone is  *)
(* asked: Zenon cannot hold them.                                          *)
(***************************************************************************)
EXTENDS Signing, SequenceTheorems, WellFoundedInduction, TLAPS

-----------------------------------------------------------------------------
(* Induction and recursion *)

LEMMA Least ==
  ASSUME NEW T \in SUBSET Nat, T # {}
  PROVE  \E n \in T : \A m \in T : ~(m < n)
<1>1. IsWellFoundedOn(OpToRel(<, Nat), Nat)
  BY NatLessThanWellFounded
<1>2. PICK n \in T : \A m \in T : ~(<<m, n>> \in OpToRel(<, Nat))
  BY <1>1, WFMin
<1> QED
  BY <1>2 DEF OpToRel

LEMMA Induction ==
  ASSUME NEW T, 0 \in T, \A n \in Nat : n \in T => n + 1 \in T
  PROVE  \A n \in Nat : n \in T
<1>1. SUFFICES ASSUME Nat \ T # {} PROVE FALSE
  OBVIOUS
<1>2. PICK n \in Nat \ T : \A m \in Nat \ T : ~(m < n)
  BY <1>1, Least
<1>3. n - 1 \in Nat /\ n - 1 < n /\ (n - 1) + 1 = n
  BY <1>2
<1> QED
  BY <1>2, <1>3

\* f begins with a and goes on by step, as far as n.
Recursion(f, n, S, a, step) ==
    f \in [0..n -> S] /\ f[0] = a /\ \A i \in 1..n : f[i] = step[i][f[i - 1]]

LEMMA RecursionExists ==
  ASSUME NEW S, NEW a \in S, NEW step \in [Nat -> [S -> S]], NEW n \in Nat
  PROVE  \E f : Recursion(f, n, S, a, step)
<1> DEFINE T == {k \in Nat : \E g : Recursion(g, k, S, a, step)}
<1>1. 0 \in T
  <2>1. Recursion([i \in 0..0 |-> a], 0, S, a, step)
    BY DEF Recursion
  <2> QED
    BY <2>1
<1>2. ASSUME NEW k \in Nat, k \in T
      PROVE  k + 1 \in T
  <2>1. PICK g : Recursion(g, k, S, a, step)
    BY <1>2
  <2> DEFINE h == [i \in 0..(k + 1) |-> IF i = k + 1 THEN step[k + 1][g[k]] ELSE g[i]]
  <2>2. k + 1 \in Nat /\ step[k + 1] \in [S -> S] /\ g[k] \in S
    BY <2>1 DEF Recursion
  <2>3. Recursion(h, k + 1, S, a, step)
    BY <2>1, <2>2 DEF Recursion
  <2> QED
    BY <2>2, <2>3
<1> HIDE DEF T
<1>3. n \in T
  BY <1>1, <1>2, Induction
<1> QED
  BY <1>3 DEF T

\* What a recursive function has on its arguments up to n depends on nothing else.
LEMMA RecursionUnique ==
  ASSUME NEW S, NEW a, NEW step, NEW n \in Nat, NEW f, Recursion(f, n, S, a, step),
         NEW m \in Nat, NEW g, Recursion(g, m, S, a, step), n <= m
  PROVE  \A i \in 0..n : f[i] = g[i]
<1> DEFINE T == {i \in Nat : i \in 0..n => f[i] = g[i]}
<1>1. 0 \in T
  BY DEF Recursion
<1>2. ASSUME NEW i \in Nat, i \in T PROVE i + 1 \in T
  <2>1. CASE i + 1 \in 0..n
    <3>1. i + 1 \in 1..n /\ i + 1 \in 1..m /\ (i + 1) - 1 = i /\ i \in 0..n
      BY <2>1
    <3>2. f[i + 1] = step[i + 1][f[i]] /\ g[i + 1] = step[i + 1][g[i]] /\ f[i] = g[i]
      BY <1>2, <3>1 DEF Recursion
    <3> QED
      BY <3>2
  <2> QED
    BY <2>1
<1> HIDE DEF T
<1>3. \A i \in Nat : i \in T
  BY <1>1, <1>2, Induction
<1> QED
  BY <1>3 DEF T

\* A function all of whose values are in S when each keeps the next one there.
LEMMA ValuesIn ==
  ASSUME NEW S, NEW n \in Nat, NEW f, f[0] \in S,
         \A i \in 1..n : f[i - 1] \in S => f[i] \in S
  PROVE  \A i \in 0..n : f[i] \in S
<1> DEFINE T == {i \in Nat : i \in 0..n => f[i] \in S}
<1>1. 0 \in T
  OBVIOUS
<1>2. ASSUME NEW i \in Nat, i \in T PROVE i + 1 \in T
  <2>1. CASE i + 1 \in 0..n
    <3>1. i + 1 \in 1..n /\ (i + 1) - 1 = i /\ i \in 0..n
      BY <2>1
    <3> QED
      BY <1>2, <3>1
  <2> QED
    BY <2>1
<1> HIDE DEF T
<1>3. \A i \in Nat : i \in T
  BY <1>1, <1>2, Induction
<1> QED
  BY <1>3 DEF T

-----------------------------------------------------------------------------
(* Numbers of 32 bits, and strings *)

Uint32 == {n \in Nat : n < 4294967296}

LEMMA Digits ==
  ASSUME NEW n \in Nat
  PROVE  /\ n = 256 * (n \div 256) + (n % 256)
         /\ n \div 256 = 256 * (n \div 65536) + ((n \div 256) % 256)
         /\ n \div 65536 = 256 * (n \div 16777216) + ((n \div 65536) % 256)
         /\ n \div 256 \in Nat /\ n \div 65536 \in Nat /\ n \div 16777216 \in Nat
BY SMT

LEMMA Digit ==
  ASSUME NEW n \in Nat
  PROVE  n % 256 \in Byte
BY SMT DEF Byte

\* A number of 32 bits becomes four bytes that unpack_uint32 reads as that
\* number.
THEOREM Uint32RoundTrip ==
  ASSUME NEW n \in Uint32
  PROVE  /\ PackUint32(n) \in Seq(Byte) /\ Len(PackUint32(n)) = 4
         /\ Uint32At(PackUint32(n), 0) = n
<1> DEFINE a == n \div 16777216
           b == (n \div 65536) % 256
           c == (n \div 256) % 256
           d == n % 256
<1>1. n \in Nat /\ n < 4294967296
  BY SMT DEF Uint32
<1>2. b \in Byte /\ c \in Byte /\ d \in Byte
  BY <1>1, Digits, Digit, SMT
<1>3. a \in Byte
  BY <1>1, SMT DEF Byte
<1>4. 16777216 * a + 65536 * b + 256 * c + d = n
  BY <1>1, Digits, SMT
<1>5. PackUint32(n) = <<a, b, c, d>>
  BY SMT DEF PackUint32
<1> HIDE DEF a, b, c, d
<1>6. QED
  BY <1>2, <1>3, <1>4, <1>5, SMT DEF Uint32At

\* What Uint32At reads depends on its four bytes only.
LEMMA Uint32Elsewhere ==
  ASSUME NEW s, NEW t, NEW k \in Nat,
         \A i \in 1..4 : t[k + i] = s[i]
  PROVE  Uint32At(t, k) = Uint32At(s, 0)
BY SMT DEF Uint32At

\* What two strings of bytes are when one follows the other.
LEMMA Joined ==
  ASSUME NEW s \in Seq(Byte), NEW t \in Seq(Byte)
  PROVE  /\ s \o t \in Seq(Byte) /\ Len(s \o t) = Len(s) + Len(t)
         /\ Len(s) \in Nat /\ Len(t) \in Nat
         /\ \A i \in 1..Len(s) : (s \o t)[i] = s[i]
         /\ \A i \in 1..Len(t) : (s \o t)[Len(s) + i] = t[i]
<1> DEFINE m == Len(s)
           n == Len(t)
           st == s \o t
<1>1. m \in Nat /\ n \in Nat
  BY LenProperties
<1>2. /\ st \in Seq(Byte) /\ Len(st) = m + n
      /\ \A i \in 1..(m + n) : st[i] = IF i <= m THEN s[i] ELSE t[i - m]
  BY ConcatProperties, Zenon
<1> HIDE DEF st, m, n
<1>3. \A i \in 1..m : st[i] = s[i]
  BY <1>1, <1>2, SMT
<1>4. \A i \in 1..n : st[m + i] = t[i]
  <2> SUFFICES ASSUME NEW i \in 1..n
               PROVE  st[m + i] = t[i]
    OBVIOUS
  <2>1. m + i \in 1..(m + n) /\ ~(m + i <= m) /\ (m + i) - m = i
    BY <1>1, SMT
  <2>2. QED
    BY <1>2, <2>1, Zenon
<1>5. QED
  BY <1>1, <1>2, <1>3, <1>4, Zenon DEF st, m, n

\* The part of a string of bytes that reads as s is s.
LEMMA PartIs ==
  ASSUME NEW data \in Seq(Byte), NEW s \in Seq(Byte), NEW k \in Nat,
         k + Len(s) <= Len(data),
         \A i \in 1..Len(s) : data[k + i] = s[i]
  PROVE  SubSeq(data, k + 1, k + Len(s)) = s
<1> DEFINE n == Len(s)
           a == k + 1
           b == k + n
           v == SubSeq(data, a, b)
<1>1. n \in Nat /\ Len(data) \in Nat
  BY LenProperties
<1> HIDE DEF n
<1>2. \A i \in a..b : data[i] \in Byte
  <2> SUFFICES ASSUME NEW i \in (k + 1)..(k + n)
               PROVE  data[i] \in Byte
    OBVIOUS
  <2>1. i \in 1..Len(data)
    BY <1>1, SMT DEF n
  <2>2. QED
    BY <2>1, ElementOfSeq, Zenon
<1>3. a \in Int /\ b \in Int
  BY <1>1, SMT
<1>4. /\ v \in Seq(Byte)
      /\ Len(v) = IF a <= b THEN b - a + 1 ELSE 0
      /\ \A i \in 1..(b - a + 1) : v[i] = data[a + i - 1]
  <2> HIDE DEF a, b
  <2>1. \A m, o \in Int : (\A i \in m..o : data[i] \in Byte) =>
          /\ SubSeq(data, m, o) \in Seq(Byte)
          /\ Len(SubSeq(data, m, o)) = IF m <= o THEN o - m + 1 ELSE 0
          /\ \A i \in 1..(o - m + 1) : SubSeq(data, m, o)[i] = data[m + i - 1]
    <3> SUFFICES ASSUME NEW m \in Int, NEW o \in Int, \A i \in m..o : data[i] \in Byte
                 PROVE  /\ SubSeq(data, m, o) \in Seq(Byte)
                        /\ Len(SubSeq(data, m, o)) = IF m <= o THEN o - m + 1 ELSE 0
                        /\ \A i \in 1..(o - m + 1) : SubSeq(data, m, o)[i] = data[m + i - 1]
      OBVIOUS
    <3>1. SubSeq(data, m, o) \in Seq(Byte)
      BY SubSeqProperties
    <3>2. Len(SubSeq(data, m, o)) = IF m <= o THEN o - m + 1 ELSE 0
      BY SubSeqProperties
    <3>3. \A i \in 1..(o - m + 1) : SubSeq(data, m, o)[i] = data[m + i - 1]
      BY SubSeqProperties
    <3>4. QED
      BY <3>1, <3>2, <3>3
  <2>2. QED
    BY <1>2, <1>3, <2>1, Zenon
<1> HIDE DEF v
<1>5. Len(v) = n /\ \A i \in 1..n : v[i] = data[k + i]
  BY <1>1, <1>4, SMT
<1>6. v = s
  BY <1>4, <1>5, SeqEqual, Zenon DEF n
<1>7. QED
  BY <1>6, Zenon DEF v, n

\* part stands in data behind the first k bytes.
Holds(data, k, part) ==
    /\ data \in Seq(Byte) /\ part \in Seq(Byte) /\ k \in Nat
    /\ k + Len(part) <= Len(data)
    /\ \A i \in 1..Len(part) : data[k + i] = part[i]

LEMMA HoldsItself ==
  ASSUME NEW s \in Seq(Byte)
  PROVE  Holds(s, 0, s)
<1> DEFINE n == Len(s)
<1>1. n \in Nat
  BY LenProperties
<1> HIDE DEF n
<1>2. 0 \in Nat /\ 0 + n <= n /\ \A i \in 1..n : 0 + i = i
  BY <1>1
<1> QED
  BY <1>2 DEF Holds, n

LEMMA HoldsParts ==
  ASSUME NEW data, NEW k, NEW s \in Seq(Byte), NEW t \in Seq(Byte), Holds(data, k, s \o t)
  PROVE  Holds(data, k, s) /\ Holds(data, k + Len(s), t)
<1> DEFINE m == Len(s)
           n == Len(t)
           st == s \o t
<1>1. /\ st \in Seq(Byte) /\ Len(st) = m + n /\ m \in Nat /\ n \in Nat
      /\ \A i \in 1..m : st[i] = s[i]
      /\ \A i \in 1..n : st[m + i] = t[i]
  BY Joined, Zenon
<1> HIDE DEF m, n, st
<1>2. /\ data \in Seq(Byte) /\ k \in Nat /\ k + (m + n) <= Len(data) /\ Len(data) \in Nat
      /\ \A i \in 1..(m + n) : data[k + i] = st[i]
  BY <1>1, LenProperties DEF Holds, st
<1>3. k + m \in Nat /\ k + m <= Len(data) /\ (k + m) + n <= Len(data)
  BY <1>1, <1>2
<1>4. \A i \in 1..m : data[k + i] = s[i]
  BY <1>1, <1>2
<1>5. \A i \in 1..n : data[(k + m) + i] = t[i]
  <2> SUFFICES ASSUME NEW i \in 1..n PROVE data[(k + m) + i] = t[i]
    OBVIOUS
  <2>1. m + i \in 1..(m + n) /\ (k + m) + i = k + (m + i)
    BY <1>1, <1>2
  <2> QED
    BY <1>1, <1>2, <2>1
<1> QED
  BY <1>2, <1>3, <1>4, <1>5 DEF Holds, m, n

\* Bytes that come after take nothing away.
LEMMA HoldsStill ==
  ASSUME NEW data, NEW k, NEW part, Holds(data, k, part), NEW more \in Seq(Byte)
  PROVE  Holds(data \o more, k, part)
<1> DEFINE m == Len(data)
           n == Len(more)
           all == data \o more
<1>1. /\ data \in Seq(Byte) /\ part \in Seq(Byte) /\ k \in Nat
      /\ k + Len(part) <= m
      /\ \A i \in 1..Len(part) : data[k + i] = part[i]
  BY DEF Holds
<1>2. /\ all \in Seq(Byte) /\ Len(all) = m + n /\ m \in Nat /\ n \in Nat
      /\ \A i \in 1..m : all[i] = data[i]
  BY <1>1, Joined, Zenon
<1>3. Len(part) \in Nat
  BY <1>1, LenProperties
<1> HIDE DEF m, n, all
<1>4. k + Len(part) <= m + n
  BY <1>1, <1>2, <1>3
<1>5. \A i \in 1..Len(part) : all[k + i] = part[i]
  <2> SUFFICES ASSUME NEW i \in 1..Len(part) PROVE all[k + i] = part[i]
    OBVIOUS
  <2>1. k + i \in 1..m
    BY <1>1, <1>2, <1>3
  <2> QED
    BY <1>1, <1>2, <2>1
<1>6. Holds(all, k, part)
  BY <1>1, <1>2, <1>4, <1>5 DEF Holds
<1> QED
  BY <1>6 DEF all

\* The beginning of what stands somewhere stands there.
LEMMA HoldsInside ==
  ASSUME NEW data, NEW k, NEW part, NEW s, Holds(data, k, part), Holds(part, 0, s)
  PROVE  Holds(data, k, s)
<1>1. /\ data \in Seq(Byte) /\ part \in Seq(Byte) /\ k \in Nat /\ s \in Seq(Byte)
      /\ k + Len(part) <= Len(data) /\ 0 + Len(s) <= Len(part)
      /\ \A i \in 1..Len(part) : data[k + i] = part[i]
      /\ \A i \in 1..Len(s) : part[0 + i] = s[i]
  BY DEF Holds
<1>2. Len(data) \in Nat /\ Len(part) \in Nat /\ Len(s) \in Nat
  BY <1>1, LenProperties
<1>3. k + Len(s) <= Len(data)
  BY <1>1, <1>2
<1>4. \A i \in 1..Len(s) : 0 + i = i /\ i \in 1..Len(part)
  BY <1>1, <1>2
<1> QED
  BY <1>1, <1>3, <1>4 DEF Holds

LEMMA HoldsAfter ==
  ASSUME NEW data \in Seq(Byte), NEW more \in Seq(Byte)
  PROVE  Holds(data \o more, Len(data), more) /\ Len(data \o more) = Len(data) + Len(more)
<1>1. data \o more \in Seq(Byte) /\ Len(data \o more) = Len(data) + Len(more)
  BY Joined, Zenon
<1>2. Holds(data \o more, 0, data \o more)
  BY <1>1, HoldsItself, Zenon
<1>3. Holds(data \o more, 0 + Len(data), more)
  BY <1>2, HoldsParts, Zenon
<1>4. 0 + Len(data) = Len(data)
  BY LenProperties
<1> QED
  BY <1>1, <1>3, <1>4

LEMMA HoldsValue ==
  ASSUME NEW data, NEW k, NEW part, Holds(data, k, part)
  PROVE  SubSeq(data, k + 1, k + Len(part)) = part
BY PartIs, Zenon DEF Holds

\* Without its first byte.
LEMMA HoldsTail ==
  ASSUME NEW data, NEW k, NEW part, Holds(data, k + 1, part), k \in Nat
  PROVE  Holds(SubSeq(data, 2, Len(data)), k, part)
<1> DEFINE n == Len(data)
           p == Len(part)
           tail == SubSeq(data, 2, n)
<1>1. /\ data \in Seq(Byte) /\ part \in Seq(Byte) /\ (k + 1) + p <= n
      /\ \A i \in 1..p : data[(k + 1) + i] = part[i]
  BY DEF Holds
<1>2. n \in Nat /\ p \in Nat
  BY <1>1, LenProperties
<1> HIDE DEF n, p
<1>3. \A i \in 2..n : data[i] \in Byte
  <2>1. \A i \in 2..n : i \in 1..n
    BY <1>2
  <2> QED
    BY <1>1, <2>1, ElementOfSeq DEF n
<1>4. tail \in Seq(Byte) /\ Len(tail) = n - 1 /\ \A i \in 1..(n - 1) : tail[i] = data[i + 1]
  <2>0. 2 \in Int /\ n \in Int /\ n >= 1 /\ n - 2 + 1 = n - 1
    BY <1>1, <1>2
  <2>1. tail \in Seq(Byte)
    BY <1>3, <2>0, SubSeqProperties
  <2>2. Len(tail) = IF 2 <= n THEN n - 2 + 1 ELSE 0
    BY <1>3, <2>0, SubSeqProperties
  <2>3. \A i \in 1..(n - 2 + 1) : tail[i] = data[2 + i - 1]
    BY <1>3, <2>0, SubSeqProperties
  <2> HIDE DEF tail
  <2>4. Len(tail) = n - 1
    BY <1>2, <2>0, <2>2
  <2>5. \A i \in 1..(n - 1) : tail[i] = data[i + 1]
    <3> SUFFICES ASSUME NEW i \in 1..(n - 1) PROVE tail[i] = data[i + 1]
      OBVIOUS
    <3>1. 2 + i - 1 = i + 1
      BY <1>2
    <3> QED
      BY <2>0, <2>3, <3>1
  <2> QED
    BY <2>1, <2>4, <2>5
<1> HIDE DEF tail
<1>5. k + p <= n - 1
  BY <1>1, <1>2
<1>6. \A i \in 1..p : tail[k + i] = part[i]
  <2> SUFFICES ASSUME NEW i \in 1..p PROVE tail[k + i] = part[i]
    OBVIOUS
  <2>1. k + i \in 1..(n - 1) /\ (k + i) + 1 = (k + 1) + i
    BY <1>2, <1>5
  <2> QED
    BY <1>1, <1>4, <2>1
<1>7. Holds(tail, k, part)
  BY <1>1, <1>4, <1>5, <1>6 DEF Holds, p
<1> QED
  BY <1>7 DEF tail, n

LEMMA HoldsNumber ==
  ASSUME NEW data, NEW k, NEW n \in Uint32, Holds(data, k, PackUint32(n))
  PROVE  /\ Uint32At(data, k) = n
         /\ \A i \in 1..4 : data[k + i] = PackUint32(n)[i]
         /\ k \in Nat /\ data \in Seq(Byte) /\ k + 4 <= Len(data)
<1> DEFINE h == PackUint32(n)
<1>1. h \in Seq(Byte) /\ Len(h) = 4 /\ Uint32At(h, 0) = n
  BY Uint32RoundTrip, SMT
<1> HIDE DEF h
<1>2. /\ k \in Nat /\ data \in Seq(Byte) /\ k + 4 <= Len(data)
      /\ \A i \in 1..4 : data[k + i] = h[i]
  BY <1>1, SMT DEF Holds, h
<1>3. Uint32At(data, k) = Uint32At(h, 0)
  BY <1>2, Uint32Elsewhere, Zenon
<1> QED
  BY <1>1, <1>2, <1>3, Zenon DEF h

LEMMA Packed ==
  ASSUME NEW s \in Seq(Byte), Len(s) \in Uint32
  PROVE  PackString(s) \in Seq(Byte) /\ Len(PackString(s)) = 4 + Len(s)
<1> DEFINE h == PackUint32(Len(s))
<1>1. h \in Seq(Byte) /\ Len(h) = 4
  BY Uint32RoundTrip, SMT
<1>2. PackString(s) = h \o s
  BY Zenon DEF PackString
<1> HIDE DEF h
<1>3. h \o s \in Seq(Byte) /\ Len(h \o s) = Len(h) + Len(s)
  BY <1>1, Joined, Zenon
<1> QED
  BY <1>1, <1>2, <1>3, Zenon

\* A packed string, read where it stands.
LEMMA HoldsString ==
  ASSUME NEW data, NEW k, NEW s \in Seq(Byte), Len(s) \in Uint32,
         Holds(data, k, PackString(s))
  PROVE  /\ Holds(data, k, PackUint32(Len(s))) /\ Holds(data, k + 4, s)
         /\ Uint32At(data, k) = Len(s)
         /\ UnpackString(data, k) = [ok |-> TRUE, value |-> s, next |-> k + 4 + Len(s)]
<1> DEFINE h == PackUint32(Len(s))
           n == Len(s)
<1>1. h \in Seq(Byte) /\ Len(h) = 4
  BY Uint32RoundTrip, SMT
<1>2. Holds(data, k, h \o s)
  BY Zenon DEF PackString
<1>3. Holds(data, k, h) /\ Holds(data, k + 4, s)
  <2> HIDE DEF h
  <2>1. Holds(data, k, h) /\ Holds(data, k + Len(h), s)
    BY <1>1, <1>2, HoldsParts, Zenon
  <2> QED
    BY <1>1, <2>1, Zenon
<1>4. Uint32At(data, k) = n
  BY <1>3, HoldsNumber, Zenon
<1>5. SubSeq(data, (k + 4) + 1, (k + 4) + n) = s
  BY <1>3, HoldsValue, Zenon
<1>6. k \in Nat /\ Len(data) \in Nat /\ n \in Nat /\ (k + 4) + n <= Len(data)
  BY <1>3, LenProperties, Zenon DEF Holds
<1> HIDE DEF n, h
<1>7. ~(k + 4 > Len(data)) /\ ~((k + 4) + n > Len(data)) /\ k + 5 = (k + 4) + 1
  BY <1>6, SMT
<1>8. UnpackString(data, k) = [ok |-> TRUE, value |-> s, next |-> k + 4 + n]
  BY <1>4, <1>5, <1>7, Zenon DEF UnpackString
<1> QED
  BY <1>3, <1>4, <1>8, Zenon DEF n, h

\* unpack_string, at the place where pack_string's bytes stand, gives the string
\* back and goes on right behind it.
THEOREM StringRoundTrip ==
  ASSUME NEW before \in Seq(Byte), NEW s \in Seq(Byte), NEW rest \in Seq(Byte),
         Len(s) \in Uint32
  PROVE  UnpackString((before \o PackString(s)) \o rest, Len(before)) =
           [ok |-> TRUE, value |-> s, next |-> Len(before \o PackString(s))]
<1> DEFINE p == PackString(s)
           data == (before \o p) \o rest
           k == Len(before)
<1>1. p \in Seq(Byte) /\ Len(p) = 4 + Len(s)
  BY Packed, Zenon
<1> HIDE DEF p
<1>2. Holds(before \o p, k, p) /\ Len(before \o p) = k + (4 + Len(s))
  BY <1>1, HoldsAfter, Zenon
<1>3. Holds(data, k, p)
  BY <1>2, HoldsStill, Zenon
<1> HIDE DEF data
<1>4. UnpackString(data, k) = [ok |-> TRUE, value |-> s, next |-> k + 4 + Len(s)]
  BY <1>3, HoldsString, Zenon DEF p
<1>5. k + 4 + Len(s) = k + (4 + Len(s))
  BY LenProperties, SMT
<1> QED
  BY <1>2, <1>4, <1>5, Zenon DEF data, k, p

-----------------------------------------------------------------------------
(* Numbers of signatures *)

Half == [i \in Nat |-> [m \in Nat |-> m \div 2]]

\* f halves n, as far as k.
Halves(f, k, n) ==
    f \in [0..k -> Nat] /\ f[0] = n /\ \A i \in 1..k : f[i] = f[i - 1] \div 2

LEMMA Halving ==
  ASSUME NEW n \in Nat, NEW k \in Nat, NEW f
  PROVE  Recursion(f, k, Nat, n, Half) <=> Halves(f, k, n)
<1>1. ASSUME f \in [0..k -> Nat], NEW i \in 1..k
      PROVE  Half[i][f[i - 1]] = f[i - 1] \div 2
  <2>1. i \in Nat /\ i - 1 \in 0..k
    OBVIOUS
  <2>2. f[i - 1] \in Nat
    BY <1>1, <2>1
  <2> QED
    BY <2>1, <2>2 DEF Half
<1> QED
  BY <1>1 DEF Recursion, Halves

LEMMA Shifted ==
  ASSUME NEW n \in Nat, NEW k \in Nat
  PROVE  \E f : ShiftRight(n, k) = f[k] /\ Halves(f, k, n)
<1> DEFINE Is(g) == g = [j \in 0..k |-> IF j = 0 THEN n ELSE g[j - 1] \div 2]
           f == CHOOSE g : Is(g)
<1>1. ShiftRight(n, k) = f[k]
  BY DEF ShiftRight
<1>2. Half \in [Nat -> [Nat -> Nat]]
  BY DEF Half
<1>3. PICK g : Halves(g, k, n)
  BY <1>2, RecursionExists, Halving, Zenon
<1>6. Is(g)
  BY <1>3 DEF Halves
<1>7. Is(f)
  BY <1>6
<1> HIDE DEF f
<1>8. f[0] = n /\ \A i \in 1..k : f[i] = f[i - 1] \div 2
  BY <1>7
<1>9. \A i \in 1..k : f[i - 1] \in Nat => f[i] \in Nat
  BY <1>8
<1>10. \A i \in 0..k : f[i] \in Nat
  BY <1>8, <1>9, ValuesIn
<1>11. f \in [0..k -> Nat]
  BY <1>7, <1>10
<1> QED
  BY <1>1, <1>8, <1>11 DEF Halves

LEMMA ShiftDefined ==
  ASSUME NEW n \in Nat, NEW k \in Nat
  PROVE  /\ ShiftRight(n, 0) = n
         /\ ShiftRight(n, k) \in Nat
         /\ ShiftRight(n, k + 1) = ShiftRight(n, k) \div 2
<1>0. k + 1 \in Nat /\ k <= k + 1 /\ k \in 0..k /\ k + 1 \in 1..(k + 1) /\ (k + 1) - 1 = k
  OBVIOUS
<1>1. PICK f : ShiftRight(n, k) = f[k] /\ Halves(f, k, n)
  BY Shifted
<1>2. PICK g : ShiftRight(n, k + 1) = g[k + 1] /\ Halves(g, k + 1, n)
  BY <1>0, Shifted, Zenon
<1>3. Recursion(f, k, Nat, n, Half) /\ Recursion(g, k + 1, Nat, n, Half)
  BY <1>0, <1>1, <1>2, Halving, Zenon
<1>4. \A i \in 0..k : f[i] = g[i]
  BY <1>0, <1>3, RecursionUnique
<1>5. f[k] = g[k] /\ f[k] \in Nat
  BY <1>0, <1>1, <1>4 DEF Halves
<1>6. g[k + 1] = g[k] \div 2
  BY <1>0, <1>2 DEF Halves
<1>7. ShiftRight(n, 0) = n
  <2>1. 0 \in Nat
    OBVIOUS
  <2>2. PICK h : ShiftRight(n, 0) = h[0] /\ Halves(h, 0, n)
    BY <2>1, Shifted, Zenon
  <2> QED
    BY <2>2 DEF Halves
<1> QED
  BY <1>0, <1>1, <1>2, <1>5, <1>6, <1>7

LEMMA ShiftEight ==
  ASSUME NEW n \in Nat, NEW k \in Nat
  PROVE  /\ ShiftRight(n, k + 7) = ShiftRight(n, k) \div 128
         /\ ShiftRight(n, k + 8) = ShiftRight(n, k) \div 256
<1> DEFINE s(j) == ShiftRight(n, j)
<1>1. \A j \in Nat : s(j) \in Nat /\ s(j + 1) = s(j) \div 2
  BY ShiftDefined
<1> HIDE DEF s
<1>2. /\ s(k) \in Nat /\ k \in Nat
      /\ k + 1 \in Nat /\ k + 2 \in Nat /\ k + 3 \in Nat /\ k + 4 \in Nat
      /\ k + 5 \in Nat /\ k + 6 \in Nat /\ k + 7 \in Nat
      /\ (k + 1) + 1 = k + 2 /\ (k + 2) + 1 = k + 3 /\ (k + 3) + 1 = k + 4
      /\ (k + 4) + 1 = k + 5 /\ (k + 5) + 1 = k + 6 /\ (k + 6) + 1 = k + 7
      /\ (k + 7) + 1 = k + 8
  BY <1>1
<1>3. /\ s(k + 1) = s(k) \div 2 /\ s(k + 2) = s(k + 1) \div 2
      /\ s(k + 3) = s(k + 2) \div 2 /\ s(k + 4) = s(k + 3) \div 2
      /\ s(k + 5) = s(k + 4) \div 2 /\ s(k + 6) = s(k + 5) \div 2
      /\ s(k + 7) = s(k + 6) \div 2 /\ s(k + 8) = s(k + 7) \div 2
  BY <1>1, <1>2, Zenon
<1>9. s(k + 7) = s(k) \div 128 /\ s(k + 8) = s(k) \div 256
  <2> DEFINE m == s(k)
  <2>1. m \in Nat
    BY <1>2
  <2>2. /\ s(k + 1) = m \div 2 /\ s(k + 2) = s(k + 1) \div 2
        /\ s(k + 3) = s(k + 2) \div 2 /\ s(k + 4) = s(k + 3) \div 2
        /\ s(k + 5) = s(k + 4) \div 2 /\ s(k + 6) = s(k + 5) \div 2
        /\ s(k + 7) = s(k + 6) \div 2 /\ s(k + 8) = s(k + 7) \div 2
    BY <1>3
  <2> HIDE DEF m
  <2>3. /\ (m \div 2) \div 2 = m \div 4 /\ (m \div 4) \div 2 = m \div 8
        /\ (m \div 8) \div 2 = m \div 16 /\ (m \div 16) \div 2 = m \div 32
        /\ (m \div 32) \div 2 = m \div 64 /\ (m \div 64) \div 2 = m \div 128
        /\ (m \div 128) \div 2 = m \div 256
    BY <2>1
  <2>4. s(k + 7) = m \div 128 /\ s(k + 8) = m \div 256
    BY <2>2, <2>3
  <2> QED
    BY <2>4 DEF m
<1> QED
  BY <1>9 DEF s

\* The bits of a number end at its bit length, and no sooner.
LEMMA BitLengthIs ==
  ASSUME MaxBits \in Nat, NEW n \in Nat, ShiftRight(n, MaxBits) = 0
  PROVE  /\ BitLength(n) \in 0..MaxBits
         /\ \A j \in Nat : ShiftRight(n, j) = 0 <=> BitLength(n) <= j
<1> DEFINE s(j) == ShiftRight(n, j)
           Z == {j \in Nat : s(j) = 0}
           Is(k) == s(k) = 0 /\ \A j \in 0..(k - 1) : s(j) # 0
           b == CHOOSE k \in 0..MaxBits : Is(k)
<1>1. b = BitLength(n)
  BY DEF BitLength
<1>2. \E k \in 0..MaxBits : Is(k)
  <2>1. MaxBits \in Z
    OBVIOUS
  <2>2. PICK k \in Z : \A j \in Z : ~(j < k)
    <3>1. Z \in SUBSET Nat /\ Z # {}
      BY <2>1
    <3> HIDE DEF Z
    <3> QED
      BY <3>1, Least
  <2>3. k \in 0..MaxBits
    BY <2>1, <2>2
  <2>4. Is(k)
    BY <2>2
  <2> QED
    BY <2>3, <2>4
<1>3. b \in 0..MaxBits /\ Is(b)
  <2> HIDE DEF Is
  <2> QED
    BY <1>2
<1> HIDE DEF b
<1>4. \A j \in Nat : s(b + j) = 0
  <2> DEFINE T == {j \in Nat : s(b + j) = 0}
  <2>1. 0 \in T
    <3>1. b + 0 = b
      BY <1>3
    <3> QED
      BY <1>3, <3>1
  <2>2. ASSUME NEW j \in Nat, j \in T PROVE j + 1 \in T
    <3>1. b + j \in Nat /\ b + (j + 1) = (b + j) + 1
      BY <1>3
    <3>2. s((b + j) + 1) = s(b + j) \div 2
      BY <3>1, ShiftDefined
    <3>3. s(b + j) = 0
      BY <2>2
    <3>4. s(b + (j + 1)) = 0
      <4> HIDE DEF s
      <4> QED
        BY <3>1, <3>2, <3>3
    <3> QED
      BY <3>4
  <2> HIDE DEF T
  <2>3. \A j \in Nat : j \in T
    BY <2>1, <2>2, Induction
  <2> QED
    BY <2>3 DEF T
<1>5. ASSUME NEW j \in Nat PROVE s(j) = 0 <=> b <= j
  <2>1. CASE b <= j
    <3>1. j - b \in Nat /\ b + (j - b) = j
      BY <1>3, <2>1
    <3>2. s(b + (j - b)) = 0
      BY <1>4, <3>1
    <3> QED
      BY <2>1, <3>1, <3>2
  <2>2. CASE ~(b <= j)
    <3>1. j \in 0..(b - 1)
      BY <1>3, <2>2
    <3> QED
      BY <1>3, <2>2, <3>1
  <2> QED
    BY <2>1, <2>2
<1> QED
  BY <1>1, <1>3, <1>5

\* v is what the bytes of b say, from the first to each of them.
Reads(v, b) ==
    v \in [0..Len(b) -> Nat] /\ v[0] = 0 /\ \A i \in 1..Len(b) : v[i] = 256 * v[i - 1] + b[i]

LEMMA NumberIs ==
  ASSUME NEW b \in Seq(Byte)
  PROVE  \E v : /\ Reads(v, b)
                /\ Number(b) = IF \/ Len(b) > 0 /\ b[1] >= 128
                                  \/ Len(b) > 0 /\ b[1] = 0 /\ (Len(b) = 1 \/ b[2] < 128)
                                 THEN -1 ELSE v[Len(b)]
<1> DEFINE n == Len(b)
           Is(g) == g = [i \in 0..Len(b) |-> IF i = 0 THEN 0 ELSE 256 * g[i - 1] + b[i]]
           v == CHOOSE g : Is(g)
           step == [i \in Nat |-> [m \in Nat |-> 256 * m + IF i \in 1..n THEN b[i] ELSE 0]]
<1>1. Number(b) = IF \/ Len(b) > 0 /\ b[1] >= 128
                     \/ Len(b) > 0 /\ b[1] = 0 /\ (Len(b) = 1 \/ b[2] < 128)
                    THEN -1 ELSE v[Len(b)]
  BY DEF Number
<1>2. n \in Nat /\ \A i \in 1..n : b[i] \in Nat
  <2>1. n \in Nat /\ \A i \in 1..n : b[i] \in Byte
    BY LenProperties, ElementOfSeq
  <2>2. \A x \in Byte : x \in Nat
    BY DEF Byte
  <2> QED
    BY <2>1, <2>2
<1>3. step \in [Nat -> [Nat -> Nat]]
  BY <1>2
<1>4. PICK g : Recursion(g, n, Nat, 0, step)
  <2>1. 0 \in Nat
    OBVIOUS
  <2>2. ASSUME NEW st \in [Nat -> [Nat -> Nat]]
        PROVE  \E g : Recursion(g, n, Nat, 0, st)
    <3> HIDE DEF n
    <3> QED
      BY <1>2, <2>1, RecursionExists, Zenon
  <2> HIDE DEF step, n
  <2> QED
    BY <1>3, <2>2, Zenon
<1>5. g \in [0..n -> Nat] /\ g[0] = 0 /\ \A i \in 1..n : g[i] = step[i][g[i - 1]]
  <2> HIDE DEF step, n
  <2> QED
    BY <1>4 DEF Recursion
<1>6. ASSUME NEW i \in 1..n PROVE g[i] = 256 * g[i - 1] + b[i]
  <2>1. i \in Nat /\ i - 1 \in 0..n
    BY <1>2
  <2>2. g[i - 1] \in Nat /\ g[i] = step[i][g[i - 1]]
    BY <1>5, <2>1
  <2> QED
    BY <2>1, <2>2
<1>7. Is(g)
  BY <1>5, <1>6
<1>8. Is(v)
  BY <1>7
<1> HIDE DEF v
<1>9. v[0] = 0 /\ \A i \in 1..n : v[i] = 256 * v[i - 1] + b[i]
  BY <1>2, <1>8
<1>10. \A i \in 1..n : v[i - 1] \in Nat => v[i] \in Nat
  BY <1>2, <1>9
<1>11. \A i \in 0..n : v[i] \in Nat
  <2> HIDE DEF n
  <2>1. v[0] \in Nat
    BY <1>9
  <2> QED
    BY <1>2, <2>1, <1>10, ValuesIn
<1>12. v \in [0..n -> Nat]
  BY <1>8, <1>11
<1> QED
  BY <1>1, <1>9, <1>12 DEF Reads

\* What to_bytes makes of a number that fits is read as that number.
LEMMA BytesRead ==
  ASSUME NEW n \in Nat, NEW length \in Nat, ShiftRight(n, 8 * length) = 0,
         NEW v, Reads(v, ToBytes(n, length))
  PROVE  v[length] = n
<1> DEFINE d == ToBytes(n, length)
           s(i) == ShiftRight(n, 8 * (length - i))
           T == {i \in Nat : i \in 0..length => v[i] = s(i)}
<1>1. Len(d) = length /\ \A i \in 1..length : d[i] = s(i) % 256
  BY DEF ToBytes
<1> HIDE DEF d
<1>2. v[0] = 0 /\ \A i \in 1..length : v[i] = 256 * v[i - 1] + d[i]
  BY <1>1 DEF Reads, d
<1>3. 0 \in T
  <2>1. 8 * (length - 0) = 8 * length
    OBVIOUS
  <2> QED
    BY <1>2, <2>1
<1>4. ASSUME NEW i \in Nat, i \in T PROVE i + 1 \in T
  <2>1. SUFFICES ASSUME i + 1 \in 0..length PROVE v[i + 1] = s(i + 1)
    OBVIOUS
  <2> DEFINE k == 8 * (length - (i + 1))
  <2>2. i + 1 \in 1..length /\ (i + 1) - 1 = i /\ i \in 0..length
    BY <2>1
  <2>3. k \in Nat /\ k + 8 = 8 * (length - i)
    BY <2>1
  <2>4. s(i + 1) = ShiftRight(n, k) /\ s(i) = ShiftRight(n, k + 8)
    BY <2>3
  <2>5. ShiftRight(n, k) \in Nat /\ ShiftRight(n, k + 8) = ShiftRight(n, k) \div 256
    <3> HIDE DEF k
    <3>1. ShiftRight(n, k) \in Nat
      BY <2>3, ShiftDefined, Zenon
    <3>2. ShiftRight(n, k + 8) = ShiftRight(n, k) \div 256
      BY <2>3, ShiftEight
    <3> QED
      BY <3>1, <3>2
  <2>6. v[i] = s(i) /\ v[i + 1] = 256 * v[i] + d[i + 1] /\ d[i + 1] = s(i + 1) % 256
    BY <1>1, <1>2, <1>4, <2>2
  <2> HIDE DEF s, k
  <2> QED
    BY <2>4, <2>5, <2>6
<1> HIDE DEF T
<1>5. \A i \in Nat : i \in T
  BY <1>3, <1>4, Induction
<1>6. v[length] = s(length)
  BY <1>5 DEF T
<1>7. s(length) = n
  <2>1. 8 * (length - length) = 0
    OBVIOUS
  <2> QED
    BY <2>1, ShiftDefined
<1> QED
  BY <1>6, <1>7

\* An ECDSA number becomes bytes that are, by RFC 4251, that number: the sign bit
\* is clear and no byte is superfluous, wherever its highest bit falls.
THEOREM MpintRoundTrip ==
  ASSUME MaxBits \in Nat, NEW n \in Nat, ShiftRight(n, MaxBits) = 0
  PROVE  /\ Mpint(n) \in Seq(Byte)
         /\ Len(Mpint(n)) <= (MaxBits + 8) \div 8
         /\ Number(Mpint(n)) = n
<1> DEFINE b == BitLength(n)
           length == (b + 8) \div 8
           d == ToBytes(n, length)
           s(j) == ShiftRight(n, j)
<1>1. b \in Nat /\ b <= MaxBits /\ \A j \in Nat : s(j) = 0 <=> b <= j
  BY BitLengthIs
<1>2. \A j \in Nat : s(j) \in Nat
  BY ShiftDefined
<1>3. CASE n = 0
  <2>1. Mpint(n) = <<>>
    BY <1>3 DEF Mpint
  <2>2. <<>> \in Seq(Byte) /\ Len(<<>>) = 0
    OBVIOUS
  <2> DEFINE e == <<>>
  <2>3. e \in Seq(Byte) /\ Len(e) = 0
    BY <2>2
  <2> HIDE DEF e
  <2>4. PICK v : /\ Reads(v, e)
                 /\ Number(e) = IF \/ Len(e) > 0 /\ e[1] >= 128
                                   \/ Len(e) > 0 /\ e[1] = 0 /\ (Len(e) = 1 \/ e[2] < 128)
                                  THEN -1 ELSE v[Len(e)]
    BY <2>3, NumberIs
  <2>5. Number(e) = v[0] /\ v[0] = 0
    BY <2>3, <2>4 DEF Reads
  <2>6. 0 <= (MaxBits + 8) \div 8
    OBVIOUS
  <2> QED
    BY <1>3, <2>1, <2>3, <2>5, <2>6 DEF e
<1>4. CASE n # 0
  <2>1. Mpint(n) = d
    BY <1>4 DEF Mpint
  <2> HIDE DEF b
  <2>2. length \in Nat /\ length > 0 /\ length <= (MaxBits + 8) \div 8
    BY <1>1
  <2>3. 8 * length \in Nat /\ 8 * length > b /\ 8 * length - 8 <= b /\ 8 * length - 1 >= b
    BY <1>1
  <2> HIDE DEF length
  <2>4. /\ d = [i \in 1..length |-> s(8 * (length - i)) % 256]
        /\ \A i \in 1..length : d[i] = s(8 * (length - i)) % 256
    BY DEF ToBytes
  <2>5. ASSUME NEW i \in 1..length PROVE d[i] \in Byte
    <3>1. 8 * (length - i) \in Nat
      BY <2>2
    <3>2. s(8 * (length - i)) \in Nat
      BY <1>2, <3>1
    <3>3. d[i] = s(8 * (length - i)) % 256
      BY <2>4
    <3> HIDE DEF s, d
    <3> QED
      BY <3>2, <3>3 DEF Byte
  <2>6. d \in Seq(Byte) /\ Len(d) = length
    BY <2>2, <2>4, <2>5
  <2>7. s(0) = n /\ b > 0
    BY <1>1, <1>4, ShiftDefined
  <2>8. s(8 * length - 8) < 128 /\ s(8 * length - 8) \in Nat
    <3> DEFINE k == 8 * length - 8
    <3>1. k \in Nat /\ k + 7 = 8 * length - 1 /\ k + 7 \in Nat
      BY <2>2
    <3>2. s(k + 7) = 0 /\ s(k) \in Nat
      BY <1>1, <1>2, <2>3, <3>1
    <3>3. s(k + 7) = s(k) \div 128
      BY <3>1, ShiftEight
    <3> HIDE DEF s
    <3>4. s(k) < 128
      BY <3>2, <3>3
    <3> QED
      BY <3>2, <3>4
  <2>9. d[1] = s(8 * length - 8)
    <3>1. 1 \in 1..length /\ 8 * (length - 1) = 8 * length - 8
      BY <2>2
    <3>2. d[1] = s(8 * length - 8) % 256
      BY <2>4, <3>1
    <3> HIDE DEF s
    <3> QED
      BY <2>8, <3>2
  <2>10. ASSUME d[1] = 0 PROVE length # 1 /\ ~(d[2] < 128)
    <3> DEFINE k == 8 * (length - 2)
    <3>1. 8 * length - 8 \in Nat /\ b <= 8 * length - 8
      BY <1>1, <2>2, <2>9, <2>10
    <3>2. b = 8 * length - 8 /\ length >= 2 /\ 2 \in 1..length
      BY <1>1, <2>2, <2>3, <2>7, <3>1
    <3>3. k \in Nat /\ k + 7 \in Nat /\ k + 8 \in Nat /\ k + 7 < b /\ k + 8 = b
      BY <2>2, <3>2
    <3>4. s(k) \in Nat /\ s(k + 7) # 0 /\ s(k + 8) = 0 /\ s(k + 7) \in Nat
      BY <1>1, <1>2, <3>3
    <3>5. s(k + 7) = s(k) \div 128 /\ s(k + 8) = s(k) \div 256
      BY <3>3, ShiftEight
    <3>6. d[2] = s(k) % 256
      BY <2>4, <3>2
    <3> HIDE DEF s, k
    <3>7. ~(d[2] < 128)
      BY <3>4, <3>5, <3>6
    <3> QED
      BY <3>2, <3>7
  <2>11. PICK v : /\ Reads(v, d)
                  /\ Number(d) = IF \/ Len(d) > 0 /\ d[1] >= 128
                                    \/ Len(d) > 0 /\ d[1] = 0 /\ (Len(d) = 1 \/ d[2] < 128)
                                   THEN -1 ELSE v[Len(d)]
    <3> HIDE DEF d
    <3> QED
      BY <2>6, NumberIs
  <2>12. Number(d) = v[length]
    <3> HIDE DEF d, s
    <3> QED
      BY <2>6, <2>8, <2>9, <2>10, <2>11
  <2>13. s(8 * length) = 0
    BY <1>1, <2>3
  <2>14. v[length] = n
    BY <2>2, <2>11, <2>13, BytesRead, Zenon DEF d, s
  <2> QED
    BY <2>1, <2>2, <2>6, <2>12, <2>14
<1> QED
  BY <1>3, <1>4
====
