------------------------------ MODULE WireProofs ------------------------------
(***************************************************************************)
(* What is proved of Wire, for every registry, every set of messages and   *)
(* however the stream is cut.                                              *)
(***************************************************************************)
EXTENDS Wire, EncodingProofs

-----------------------------------------------------------------------------
(* How a client reads *)

LEMMA FitsIs ==
  ASSUME NEW n, Fits(n)
  PROVE  n \in Uint32
BY SMT DEF Fits, Uint32

LEMMA ReadNumber ==
  ASSUME NEW data, NEW k, NEW n \in Uint32, Holds(data, k, PackUint32(n))
  PROVE  NumberAt(data, k) = n
<1>1. /\ Uint32At(data, k) = n
      /\ k \in Nat /\ data \in Seq(Byte) /\ k + 4 <= Len(data)
  BY HoldsNumber, Zenon
<1>2. Len(data) \in Nat
  BY <1>1, LenProperties, Zenon
<1>3. k + 1 \in 1..Len(data) /\ k + 2 \in 1..Len(data)
      /\ k + 3 \in 1..Len(data) /\ k + 4 \in 1..Len(data)
  BY <1>1, <1>2, SMT
<1>4. data[k + 1] \in Byte /\ data[k + 2] \in Byte
      /\ data[k + 3] \in Byte /\ data[k + 4] \in Byte
  BY <1>1, <1>3, ElementOfSeq, Zenon
<1> DEFINE a == data[k + 1]
           b == data[k + 2]
           c == data[k + 3]
           d == data[k + 4]
<1>5. a \in Nat /\ b \in Nat /\ c \in Nat /\ d \in Nat
  BY <1>4, SMT DEF Byte
<1>6. /\ Uint32At(data, k) = 16777216 * a + 65536 * b + 256 * c + d
      /\ NumberAt(data, k) = 256 * (256 * (256 * a + b) + c) + d
  BY SMT DEF NumberAt, Uint32At
<1> HIDE DEF a, b, c, d
<1>7. 256 * (256 * (256 * a + b) + c) + d = 16777216 * a + 65536 * b + 256 * c + d
  BY <1>5, SMT
<1> QED
  BY <1>1, <1>6, <1>7, SMT

LEMMA ReadString ==
  ASSUME NEW data, NEW k, NEW s \in Seq(Byte), Len(s) \in Uint32,
         Holds(data, k, PackString(s))
  PROVE  /\ EndOf(data, k) = k + 4 + Len(s)
         /\ StringAt(data, k) = s
         /\ k \in Nat /\ k + 4 + Len(s) <= Len(data)
<1>1. NumberAt(data, k) = Len(s) /\ Holds(data, k + 4, s)
  BY HoldsString, ReadNumber, Zenon
<1>2. SubSeq(data, (k + 4) + 1, (k + 4) + Len(s)) = s
  BY <1>1, HoldsValue, Zenon
<1>3. k \in Nat /\ Len(s) \in Nat /\ (k + 4) + Len(s) <= Len(data)
  <2>1. k \in Nat
    BY Zenon DEF Holds
  <2>2. Len(s) \in Nat
    BY LenProperties, Zenon
  <2> QED
    BY <1>1, <2>1, <2>2, Zenon DEF Holds
<1>4. k + 5 = (k + 4) + 1
  BY <1>3, SMT
<1> QED
  BY <1>1, <1>2, <1>3, <1>4, Zenon DEF EndOf, StringAt

\* w tells where k strings that begin at a place end.
TellsEnds(w, b, at, k) == w[0] = at /\ \A j \in 1..k : w[j] = EndOf(b, w[j - 1])

LEMMA StringsEnd ==
  ASSUME NEW b, NEW at, NEW k \in Nat, NEW w, TellsEnds(w, b, at, k)
  PROVE  EndOfStrings(b, at, k) = w[k]
<1> DEFINE Is(f) == f = [j \in 0..k |-> IF j = 0 THEN at ELSE EndOf(b, f[j - 1])]
           e == CHOOSE f : Is(f)
           v == [j \in 0..k |-> w[j]]
           T == {j \in Nat : j \in 0..k => e[j] = w[j]}
<1>0. w[0] = at /\ \A j \in 1..k : w[j] = EndOf(b, w[j - 1])
  BY DEF TellsEnds
<1>1. EndOfStrings(b, at, k) = e[k]
  BY DEF EndOfStrings
<1>2. Is(v)
  BY <1>0
<1>3. Is(e)
  <2> HIDE DEF Is, v
  <2> QED
    BY <1>2
<1> HIDE DEF e
<1>4. 0 \in T
  BY <1>0, <1>3
<1>5. ASSUME NEW j \in Nat, j \in T PROVE j + 1 \in T
  <2>1. CASE j + 1 \in 0..k
    <3>1. j + 1 \in 1..k /\ (j + 1) - 1 = j /\ j \in 0..k /\ j + 1 # 0
      BY <2>1
    <3>2. e[j + 1] = EndOf(b, e[j]) /\ w[j + 1] = EndOf(b, w[j]) /\ e[j] = w[j]
      BY <1>0, <1>3, <1>5, <2>1, <3>1
    <3> QED
      BY <3>2
  <2> QED
    BY <2>1
<1> HIDE DEF T
<1>6. \A j \in Nat : j \in T
  BY <1>4, <1>5, Induction
<1> QED
  BY <1>1, <1>6 DEF T

LEMMA TwoStringsEnd ==
  ASSUME NEW b, NEW at
  PROVE  EndOfStrings(b, at, 2) = EndOf(b, EndOf(b, at))
<1> DEFINE w == [j \in 0..2 |-> IF j = 0 THEN at
                               ELSE IF j = 1 THEN EndOf(b, at) ELSE EndOf(b, EndOf(b, at))]
<1>1. w[0] = at /\ w[1] = EndOf(b, at) /\ w[2] = EndOf(b, EndOf(b, at))
  OBVIOUS
<1> HIDE DEF w
<1>2. \A j \in 1..2 : w[j] = EndOf(b, w[j - 1])
  BY <1>1
<1>3. 2 \in Nat
  OBVIOUS
<1>4. TellsEnds(w, b, at, 2)
  BY <1>1, <1>2 DEF TellsEnds
<1>5. EndOfStrings(b, at, 2) = w[2]
  BY <1>3, <1>4, StringsEnd, Zenon
<1> QED
  BY <1>1, <1>5

-----------------------------------------------------------------------------
(* Replies *)

\* r is one frame of this type with this payload, and nothing else.
IsReply(r, type, payload) ==
    /\ r \in Seq(Byte) /\ Len(r) = EndOf(r, 0) /\ Len(r) = 5 + Len(payload)
    /\ r[5] = type /\ Holds(r, 5, payload)

LEMMA FrameIsReply ==
  ASSUME NEW type \in Byte, NEW payload \in Seq(Byte), 1 + Len(payload) \in Uint32
  PROVE  IsReply(Frame(type, payload), type, payload)
<1> DEFINE n == 1 + Len(payload)
           h == PackUint32(n)
           t == <<type>>
           r == (h \o t) \o payload
<1>1. h \in Seq(Byte) /\ Len(h) = 4
  BY Uint32RoundTrip, SMT
<1>2. t \in Seq(Byte) /\ Len(t) = 1 /\ t[1] = type
  BY SMT
<1>3. Len(payload) \in Nat
  BY LenProperties, Zenon
<1>4. Frame(type, payload) = r
  BY Zenon DEF Frame
<1> HIDE DEF h, t
<1>5. h \o t \in Seq(Byte) /\ Len(h \o t) = Len(h) + Len(t)
  BY <1>1, <1>2, Joined, Zenon
<1>6. r \in Seq(Byte) /\ Len(r) = Len(h \o t) + Len(payload)
  BY <1>5, Joined, Zenon
<1> HIDE DEF r
<1>7. Holds(r, 0, (h \o t) \o payload)
  BY <1>6, HoldsItself, Zenon DEF r
<1>8. Holds(r, 0, h \o t) /\ Holds(r, 0 + Len(h \o t), payload)
  BY <1>5, <1>7, HoldsParts, Zenon
<1>9. Holds(r, 0, h) /\ Holds(r, 0 + Len(h), t)
  BY <1>1, <1>2, <1>8, HoldsParts, Zenon
<1>10. NumberAt(r, 0) = n
  BY <1>9, ReadNumber, Zenon DEF h
<1>11. Len(r) = 5 + Len(payload) /\ 0 + Len(h \o t) = 5 /\ 0 + Len(h) = 4
  BY <1>1, <1>2, <1>3, <1>5, <1>6, SMT
<1>12. r[5] = type
  <2>1. 1 \in 1..Len(t) /\ 4 + 1 = 5
    BY <1>2, SMT
  <2>2. Holds(r, 4, t)
    BY <1>9, <1>11, Zenon
  <2>3. r[4 + 1] = t[1]
    BY <2>1, <2>2, Zenon DEF Holds
  <2> QED
    BY <1>2, <2>1, <2>3, Zenon
<1>13. EndOf(r, 0) = Len(r)
  BY <1>3, <1>10, <1>11, SMT DEF EndOf
<1>14. Holds(r, 5, payload)
  BY <1>8, <1>11, Zenon
<1> QED
  BY <1>4, <1>6, <1>11, <1>12, <1>13, <1>14, Zenon DEF IsReply

LEMMA FailureFails ==
  IsReply(Failure, 5, <<>>) /\ Fails(Failure)
<1>1. 5 \in Byte /\ <<>> \in Seq(Byte) /\ Len(<<>>) = 0
  BY SMT DEF Byte
<1>2. 1 + Len(<<>>) \in Uint32
  BY <1>1, SMT DEF Uint32
<1>3. IsReply(Failure, 5, <<>>)
  BY <1>1, <1>2, FrameIsReply, Zenon DEF Failure
<1>4. Len(Failure) = 5 + Len(<<>>) /\ Failure[5] = 5
  BY <1>3, Zenon DEF IsReply
<1>5. Len(Failure) = 5
  <2> HIDE DEF Failure
  <2> QED
    BY <1>1, <1>4
<1> QED
  BY <1>3, <1>4, <1>5, Zenon DEF Fails

\* Two strings, one after the other.
LEMMA ReadTwo ==
  ASSUME NEW data, NEW k,
         NEW s \in Seq(Byte), Len(s) \in Uint32, NEW t \in Seq(Byte), Len(t) \in Uint32,
         Holds(data, k, PackString(s) \o PackString(t))
  PROVE  /\ StringAt(data, k) = s /\ Holds(data, EndOf(data, k), PackString(t))
         /\ StringAt(data, EndOf(data, k)) = t
         /\ EndOf(data, EndOf(data, k)) = k + Len(PackString(s) \o PackString(t))
         /\ EndOfStrings(data, k, 2) = EndOf(data, EndOf(data, k))
<1> DEFINE p == PackString(s)
           q == PackString(t)
           e == EndOf(data, k)
<1>1. p \in Seq(Byte) /\ Len(p) = 4 + Len(s) /\ q \in Seq(Byte) /\ Len(q) = 4 + Len(t)
  BY Packed, Zenon
<1> HIDE DEF p, q
<1>2. Len(p \o q) = Len(p) + Len(q)
  BY <1>1, Joined, Zenon
<1>3. Holds(data, k, p) /\ Holds(data, k + Len(p), q)
  BY <1>1, HoldsParts, Zenon DEF p, q
<1>4. e = k + 4 + Len(s) /\ StringAt(data, k) = s /\ k \in Nat
  BY <1>3, ReadString, Zenon DEF p
<1> HIDE DEF e
<1>5. Len(s) \in Nat /\ Len(t) \in Nat
  BY LenProperties, Zenon
<1>6. e = k + Len(p)
  BY <1>1, <1>4, <1>5, SMT
<1>7. Holds(data, e, q)
  BY <1>3, <1>6, Zenon
<1>8. EndOf(data, e) = e + 4 + Len(t) /\ StringAt(data, e) = t
  BY <1>7, ReadString, Zenon DEF q
<1>9. EndOf(data, e) = k + Len(p \o q)
  BY <1>1, <1>2, <1>4, <1>5, <1>6, <1>8, SMT
<1> QED
  BY <1>4, <1>7, <1>8, <1>9, TwoStringsEnd, Zenon DEF p, q, e

-----------------------------------------------------------------------------
(* The answer to a request for the identities *)

\* What the loop appends for the i-th key.
Entry(i) == PackString(KeyList[i].blob) \o PackString(KeyList[i].comment)

LEMMA KeyIs ==
  /\ Len(KeyList) \in Nat /\ Len(KeyList) \in Uint32
  /\ \A i \in 1..Len(KeyList) :
        /\ KeyList[i].blob \in Seq(Byte) /\ Len(KeyList[i].blob) \in Uint32
        /\ KeyList[i].comment \in Seq(Byte) /\ Len(KeyList[i].comment) \in Uint32
        /\ KeyList[i].kind \in {"ed25519", "rsa", "unsupported"} \cup DOMAIN CurveMap
<1> DEFINE K == [blob : Seq(Byte), comment : Seq(Byte),
                 kind : {"ed25519", "rsa", "unsupported"} \cup DOMAIN CurveMap]
<1>1. KeyList \in Seq(K)
  BY WireAssumption, Zenon DEF KeyListAssumption
<1>2. Len(KeyList) \in Nat
  BY <1>1, LenProperties, Zenon
<1>3. Len(KeyList) \in Uint32
  BY WireAssumption, FitsIs, Zenon DEF KeyListAssumption
<1>4. ASSUME NEW i \in 1..Len(KeyList)
      PROVE  /\ KeyList[i].blob \in Seq(Byte) /\ Len(KeyList[i].blob) \in Uint32
             /\ KeyList[i].comment \in Seq(Byte) /\ Len(KeyList[i].comment) \in Uint32
             /\ KeyList[i].kind \in {"ed25519", "rsa", "unsupported"} \cup DOMAIN CurveMap
  <2>1. KeyList[i] \in K
    BY <1>1, ElementOfSeq, Zenon
  <2>2. Fits(Len(KeyList[i].blob)) /\ Fits(Len(KeyList[i].comment))
    BY WireAssumption, Zenon DEF KeyListAssumption
  <2>3. Len(KeyList[i].blob) \in Uint32 /\ Len(KeyList[i].comment) \in Uint32
    BY <2>2, FitsIs, Zenon
  <2> QED
    BY <2>1, <2>3
<1> QED
  BY <1>2, <1>3, <1>4

LEMMA EntryIs ==
  ASSUME NEW i \in 1..Len(KeyList)
  PROVE  /\ Entry(i) \in Seq(Byte)
         /\ Len(Entry(i)) = Len(PackString(KeyList[i].blob))
                               + Len(PackString(KeyList[i].comment))
<1> DEFINE p == PackString(KeyList[i].blob)
           q == PackString(KeyList[i].comment)
<1>1. p \in Seq(Byte) /\ q \in Seq(Byte)
  BY KeyIs, Packed, Zenon
<1> HIDE DEF p, q
<1>2. p \o q \in Seq(Byte) /\ Len(p \o q) = Len(p) + Len(q)
  BY <1>1, Joined, Zenon
<1> QED
  BY <1>2, Zenon DEF p, q, Entry

LEMMA PackedIs ==
  /\ packed[0] = PackUint32(Len(KeyList))
  /\ \A i \in 1..Len(KeyList) : packed[i] = packed[i - 1] \o Entry(i)
  /\ \A i \in 0..Len(KeyList) : packed[i] \in Seq(Byte)
<1> DEFINE n == Len(KeyList)
           a == PackUint32(n)
           Is(f) == f = [i \in 0..n |-> IF i = 0 THEN a ELSE f[i - 1] \o Entry(i)]
           S == Seq(Byte)
           step == [i \in Nat |-> [x \in S |-> x \o IF i \in 1..n THEN Entry(i) ELSE <<>>]]
<1>1. n \in Nat
  BY KeyIs
<1>2. a \in S
  BY KeyIs, Uint32RoundTrip, SMT
<1>3. packed = CHOOSE f : Is(f)
  BY Zenon DEF packed, Entry
<1> HIDE DEF n, a
<1>4. step \in [Nat -> [S -> S]]
  <2>1. ASSUME NEW i \in Nat, NEW x \in S
        PROVE  x \o (IF i \in 1..n THEN Entry(i) ELSE <<>>) \in S
    <3>1. CASE i \in 1..n
      <4>1. Entry(i) \in Seq(Byte)
        BY <3>1, EntryIs, Zenon DEF n
      <4> QED
        BY <3>1, <4>1, Joined, Zenon
    <3>2. CASE i \notin 1..n
      <4>1. <<>> \in Seq(Byte)
        OBVIOUS
      <4> QED
        BY <3>2, <4>1, Joined, Zenon
    <3> QED
      BY <3>1, <3>2, Zenon
  <2> QED
    BY <2>1, Zenon
<1>5. PICK g : Recursion(g, n, S, a, step)
  <2>1. ASSUME NEW st \in [Nat -> [S -> S]]
        PROVE  \E g : Recursion(g, n, S, a, st)
    <3> HIDE DEF S
    <3> QED
      BY <1>1, <1>2, RecursionExists, Zenon
  <2> HIDE DEF step, S
  <2> QED
    BY <1>4, <2>1, Zenon
<1>6. g \in [0..n -> S] /\ g[0] = a /\ \A i \in 1..n : g[i] = step[i][g[i - 1]]
  <2> HIDE DEF step, S
  <2> QED
    BY <1>5, Zenon DEF Recursion
<1>7. ASSUME NEW i \in 1..n PROVE g[i] = g[i - 1] \o Entry(i)
  <2>1. i \in Nat /\ i - 1 \in 0..n
    BY <1>1
  <2>2. g[i - 1] \in S /\ g[i] = step[i][g[i - 1]]
    <3> HIDE DEF step, S
    <3> QED
      BY <1>6, <2>1
  <2> QED
    BY <2>1, <2>2, Zenon
<1>8. Is(g)
  <2> HIDE DEF S
  <2>1. \A i \in 0..n : i # 0 => i \in 1..n
    BY <1>1
  <2>2. \A i \in 0..n : g[i] = IF i = 0 THEN a ELSE g[i - 1] \o Entry(i)
    BY <1>6, <1>7, <2>1, Zenon
  <2>3. g = [i \in 0..n |-> g[i]]
    BY <1>6, Zenon
  <2> QED
    BY <2>2, <2>3
<1>9. Is(packed)
  <2> HIDE DEF Is
  <2> QED
    BY <1>3, <1>8, Zenon
<1>10. packed[0] = a /\ \A i \in 1..n : packed[i] = packed[i - 1] \o Entry(i)
  <2>1. 0 \in 0..n /\ \A i \in 1..n : i \in 0..n /\ i # 0
    BY <1>1
  <2>2. \A i \in 0..n : packed[i] = IF i = 0 THEN a ELSE packed[i - 1] \o Entry(i)
    BY <1>9, Zenon
  <2> QED
    BY <2>1, <2>2, Zenon
<1>11. \A i \in 1..n : packed[i - 1] \in S => packed[i] \in S
  <2> SUFFICES ASSUME NEW i \in 1..n, packed[i - 1] \in S PROVE packed[i] \in S
    OBVIOUS
  <2>1. Entry(i) \in Seq(Byte)
    BY EntryIs, Zenon DEF n
  <2>2. packed[i - 1] \o Entry(i) \in Seq(Byte)
    BY <2>1, Joined, Zenon
  <2> QED
    BY <1>10, <2>2, Zenon
<1>12. \A i \in 0..n : packed[i] \in S
  <2> HIDE DEF S
  <2>1. packed[0] \in S
    BY <1>2, <1>10, Zenon
  <2> QED
    BY <1>1, <1>11, <2>1, ValuesIn
<1> QED
  BY <1>10, <1>12, Zenon DEF n, a

\* Where the strings of the answer begin, the 2i-th being the blob of key i + 1.
Mark(j) ==
    5 + Len(packed[j \div 2])
        + IF j % 2 = 0 THEN 0 ELSE 4 + Len(KeyList[j \div 2 + 1].blob)

LEMMA PackedHeld ==
  ASSUME NEW r, Holds(r, 5, packed[Len(KeyList)])
  PROVE  /\ Holds(r, 5, packed[0])
         /\ \A i \in 1..Len(KeyList) :
               /\ Holds(r, 5 + Len(packed[i - 1]), Entry(i))
               /\ Len(packed[i]) = Len(packed[i - 1]) + Len(Entry(i))
<1> DEFINE n == Len(KeyList)
           T == {j \in Nat : j \in 0..n => Holds(r, 5, packed[n - j])}
<1>1. n \in Nat
  BY KeyIs
<1> HIDE DEF n
<1>2. ASSUME NEW i \in 1..n, Holds(r, 5, packed[i])
      PROVE  Holds(r, 5, packed[i - 1]) /\ Holds(r, 5 + Len(packed[i - 1]), Entry(i))
  <2>1. i - 1 \in 0..n
    BY <1>1
  <2>2. packed[i - 1] \in Seq(Byte) /\ Entry(i) \in Seq(Byte)
    BY <2>1, PackedIs, EntryIs, Zenon DEF n
  <2>3. packed[i] = packed[i - 1] \o Entry(i)
    BY PackedIs, Zenon DEF n
  <2> QED
    BY <1>2, <2>2, <2>3, HoldsParts, Zenon
<1>3. 0 \in T
  <2>1. n - 0 = n
    BY <1>1
  <2> QED
    BY <2>1 DEF n
<1>4. ASSUME NEW j \in Nat, j \in T PROVE j + 1 \in T
  <2>1. CASE j + 1 \in 0..n
    <3>1. j \in 0..n /\ n - j \in 1..n /\ (n - j) - 1 = n - (j + 1)
      BY <1>1, <2>1
    <3>2. Holds(r, 5, packed[n - j])
      BY <1>4, <3>1
    <3>3. Holds(r, 5, packed[(n - j) - 1])
      BY <1>2, <3>1, <3>2, Zenon
    <3> QED
      BY <3>1, <3>3
  <2> QED
    BY <2>1
<1> HIDE DEF T
<1>5. \A j \in Nat : j \in T
  BY <1>3, <1>4, Induction
<1>6. ASSUME NEW i \in 0..n PROVE Holds(r, 5, packed[i])
  <2>1. n - i \in Nat /\ n - i \in 0..n /\ n - (n - i) = i
    BY <1>1
  <2>2. n - i \in T
    BY <1>5, <2>1, Zenon
  <2>3. Holds(r, 5, packed[n - (n - i)])
    BY <2>1, <2>2 DEF T
  <2> QED
    BY <2>1, <2>3
<1>7. 0 \in 0..n /\ \A i \in 1..n : i \in 0..n /\ i - 1 \in 0..n
  BY <1>1
<1>8. ASSUME NEW i \in 1..n
      PROVE  /\ Holds(r, 5 + Len(packed[i - 1]), Entry(i))
             /\ Len(packed[i]) = Len(packed[i - 1]) + Len(Entry(i))
  <2>1. Holds(r, 5 + Len(packed[i - 1]), Entry(i))
    BY <1>2, <1>6, <1>7, Zenon
  <2>2. packed[i - 1] \in Seq(Byte) /\ Entry(i) \in Seq(Byte)
    BY <1>7, PackedIs, EntryIs, Zenon DEF n
  <2>3. packed[i] = packed[i - 1] \o Entry(i)
    BY PackedIs, Zenon DEF n
  <2>4. Len(packed[i - 1] \o Entry(i)) = Len(packed[i - 1]) + Len(Entry(i))
    BY <2>2, Joined, Zenon
  <2> QED
    BY <2>1, <2>3, <2>4, Zenon
<1> QED
  BY <1>6, <1>7, <1>8, Zenon DEF n

LEMMA IdentitiesListed ==
  /\ \E payload : IsReply(IdentitiesAnswer, 12, payload)
  /\ ListsKeys(IdentitiesAnswer)
<1> DEFINE n == Len(KeyList)
           r == IdentitiesAnswer
           L(i) == Len(packed[i])
           B(i) == Len(KeyList[i].blob)
           C(i) == Len(KeyList[i].comment)
           w == [j \in 0..(2 * n) |-> Mark(j)]
<1>1. n \in Nat /\ \A i \in 1..n : B(i) \in Nat /\ C(i) \in Nat
  BY KeyIs, LenProperties, Zenon
<1>2. packed[n] \in Seq(Byte) /\ \A i \in 0..n : L(i) \in Nat
  <2>1. n \in 0..n
    BY <1>1
  <2> HIDE DEF n
  <2> QED
    BY <2>1, PackedIs, LenProperties, Zenon DEF n
<1>3. IsReply(r, 12, packed[n])
  <2>1. 12 \in Byte
    BY SMT DEF Byte
  <2>2. 1 + Len(packed[n]) \in Uint32
    BY WireAssumption, FitsIs, Zenon DEF KeyListAssumption
  <2> QED
    BY <1>2, <2>1, <2>2, FrameIsReply, Zenon DEF IdentitiesAnswer
<1> HIDE DEF n, r
<1>4. /\ Holds(r, 5, packed[n]) /\ r[5] = 12 /\ Len(r) = 5 + L(n)
  BY <1>3, Zenon DEF IsReply
<1>5. /\ Holds(r, 5, packed[0])
      /\ \A i \in 1..n : /\ Holds(r, 5 + L(i - 1), Entry(i))
                         /\ L(i) = L(i - 1) + Len(Entry(i))
  BY <1>4, PackedHeld, Zenon DEF n
<1>6. NumberAt(r, 5) = n
  BY <1>5, PackedIs, KeyIs, ReadNumber, Zenon DEF n
<1>7. L(0) = 4
  BY PackedIs, KeyIs, Uint32RoundTrip, SMT DEF n
<1>8. ASSUME NEW i \in 1..n
      PROVE  /\ StringAt(r, 5 + L(i - 1)) = KeyList[i].blob
             /\ EndOf(r, 5 + L(i - 1)) = 5 + L(i - 1) + 4 + B(i)
             /\ StringAt(r, 5 + L(i - 1) + 4 + B(i)) = KeyList[i].comment
             /\ EndOf(r, 5 + L(i - 1) + 4 + B(i)) = 5 + L(i)
  <2>1. /\ KeyList[i].blob \in Seq(Byte) /\ Len(KeyList[i].blob) \in Uint32
        /\ KeyList[i].comment \in Seq(Byte) /\ Len(KeyList[i].comment) \in Uint32
    BY KeyIs, Zenon DEF n
  <2>2. i - 1 \in 0..n
    BY <1>1
  <2> DEFINE k == 5 + L(i - 1)
             p == PackString(KeyList[i].blob)
             q == PackString(KeyList[i].comment)
  <2>3. Holds(r, k, p \o q)
    BY <1>5, Zenon DEF Entry
  <2>4. L(i) = L(i - 1) + Len(p \o q)
    BY <1>5, Zenon DEF Entry
  <2>5. p \in Seq(Byte) /\ q \in Seq(Byte)
    BY <2>1, Packed, Zenon
  <2>6. /\ StringAt(r, k) = KeyList[i].blob /\ StringAt(r, EndOf(r, k)) = KeyList[i].comment
        /\ EndOf(r, EndOf(r, k)) = k + Len(p \o q)
    <3> HIDE DEF k
    <3> QED
      BY <2>1, <2>3, ReadTwo, Zenon
  <2>7. EndOf(r, k) = k + 4 + B(i)
    <3>1. Holds(r, k, p)
      <4> HIDE DEF k, p, q
      <4> QED
        BY <2>3, <2>5, HoldsParts, Zenon
    <3> HIDE DEF k
    <3> QED
      BY <2>1, <3>1, ReadString, Zenon
  <2>8. k + Len(p \o q) = 5 + L(i)
    <3>1. L(i - 1) \in Nat /\ L(i) \in Nat
      <4>1. i \in 0..n
        BY <1>1
      <4> QED
        BY <1>2, <2>2, <4>1, Zenon
    <3>2. Len(p \o q) \in Nat
      BY <2>5, Joined, LenProperties, Zenon
    <3> HIDE DEF L, p, q
    <3> QED
      BY <2>4, <3>1, <3>2
  <2> QED
    BY <2>6, <2>7, <2>8, Zenon
<1> HIDE DEF L, B, C
<1>9. ASSUME NEW j \in 1..(2 * n) PROVE Mark(j) = EndOf(r, Mark(j - 1))
  <2>1. CASE j % 2 = 0
    <3> DEFINE i == j \div 2
    <3>1. i \in 1..n /\ i - 1 \in 0..n /\ i \in 0..n
          /\ (j - 1) \div 2 = i - 1 /\ (j - 1) % 2 = 1 /\ (i - 1) + 1 = i
      BY <1>1, <2>1
    <3> HIDE DEF i
    <3>2. Mark(j) = 5 + L(i) + 0
      BY <2>1, Zenon DEF Mark, L, i
    <3>3. Mark(j - 1) = 5 + L(i - 1) + (4 + B(i))
      <4>1. (j - 1) % 2 # 0
        BY <3>1
      <4> QED
        BY <3>1, <4>1, Zenon DEF Mark, L, B
    <3>4. L(i) \in Nat /\ L(i - 1) \in Nat /\ B(i) \in Nat
      BY <1>1, <1>2, <3>1, Zenon DEF L, B
    <3>5. Mark(j) = 5 + L(i) /\ Mark(j - 1) = 5 + L(i - 1) + 4 + B(i)
      BY <3>2, <3>3, <3>4
    <3> QED
      BY <1>8, <3>1, <3>5, Zenon
  <2>2. CASE j % 2 # 0
    <3> DEFINE i == j \div 2 + 1
    <3>1. i \in 1..n /\ i - 1 \in 0..n /\ j \div 2 = i - 1
          /\ (j - 1) \div 2 = i - 1 /\ (j - 1) % 2 = 0
      BY <1>1, <2>2
    <3>2. Mark(j) = 5 + L(i - 1) + (4 + B(i))
      BY <2>2, <3>1, Zenon DEF Mark, L, B
    <3>3. Mark(j - 1) = 5 + L(i - 1) + 0
      BY <3>1, Zenon DEF Mark, L
    <3> HIDE DEF i
    <3>4. L(i - 1) \in Nat /\ B(i) \in Nat
      BY <1>1, <1>2, <3>1, Zenon DEF L, B
    <3>5. Mark(j) = 5 + L(i - 1) + 4 + B(i) /\ Mark(j - 1) = 5 + L(i - 1)
      BY <3>2, <3>3, <3>4
    <3> QED
      BY <1>8, <3>1, <3>5, Zenon
  <2> QED
    BY <2>1, <2>2
<1>10. Mark(0) = 9
  <2>1. 0 \div 2 = 0 /\ 0 % 2 = 0 /\ 5 + 4 + 0 = 9
    OBVIOUS
  <2> QED
    BY <1>7, <2>1 DEF Mark, L
<1>11. ASSUME NEW k \in 0..(2 * n) PROVE EndOfStrings(r, 9, k) = Mark(k)
  <2>1. k \in Nat /\ \A j \in 0..k : j \in 0..(2 * n)
    BY <1>1
  <2>2. \A j \in 1..k : j \in 1..(2 * n) /\ j \in 0..(2 * n) /\ j - 1 \in 0..(2 * n)
    BY <1>1, <2>1
  <2>3. 0 \in 0..(2 * n) /\ k \in 0..(2 * n)
    BY <1>1
  <2>4. w[0] = 9 /\ w[k] = Mark(k)
    BY <1>10, <2>3, Zenon
  <2>5. \A j \in 1..k : w[j] = EndOf(r, w[j - 1])
    BY <1>9, <2>2, Zenon
  <2> HIDE DEF w
  <2>6. TellsEnds(w, r, 9, k)
    BY <2>4, <2>5, Zenon DEF TellsEnds
  <2>7. EndOfStrings(r, 9, k) = w[k]
    BY <2>1, <2>6, StringsEnd, Zenon
  <2> QED
    BY <2>4, <2>7, Zenon
<1>12. EndOfStrings(r, 9, 2 * n) = Len(r)
  <2>1. 2 * n \in 0..(2 * n) /\ (2 * n) \div 2 = n /\ (2 * n) % 2 = 0 /\ n \in 0..n
    BY <1>1
  <2>2. Mark(2 * n) = 5 + L(n) + 0
    BY <2>1, Zenon DEF Mark, L
  <2>3. L(n) \in Nat /\ Len(r) = 5 + L(n)
    BY <1>2, <1>4, <2>1, Zenon DEF L
  <2> QED
    BY <1>11, <2>1, <2>2, <2>3
<1>13. ASSUME NEW i \in 1..n
       PROVE  /\ StringAt(r, EndOfStrings(r, 9, 2 * i - 2)) = KeyList[i].blob
              /\ StringAt(r, EndOfStrings(r, 9, 2 * i - 1)) = KeyList[i].comment
  <2>1. /\ 2 * i - 2 \in 0..(2 * n) /\ 2 * i - 1 \in 0..(2 * n)
        /\ (2 * i - 2) \div 2 = i - 1 /\ (2 * i - 2) % 2 = 0
        /\ (2 * i - 1) \div 2 = i - 1 /\ (2 * i - 1) % 2 # 0
        /\ (i - 1) + 1 = i /\ i - 1 \in 0..n
    BY <1>1
  <2>2. Mark(2 * i - 2) = 5 + L(i - 1) + 0
    BY <2>1, Zenon DEF Mark, L
  <2>3. Mark(2 * i - 1) = 5 + L(i - 1) + (4 + B(i))
    BY <2>1, Zenon DEF Mark, L, B
  <2>4. L(i - 1) \in Nat /\ B(i) \in Nat
    BY <1>1, <1>2, <2>1, Zenon DEF L, B
  <2>5. Mark(2 * i - 2) = 5 + L(i - 1) /\ Mark(2 * i - 1) = 5 + L(i - 1) + 4 + B(i)
    BY <2>2, <2>3, <2>4
  <2> QED
    BY <1>8, <1>11, <2>1, <2>5, Zenon
<1>14. ListsKeys(r)
  BY <1>4, <1>6, <1>12, <1>13, Zenon DEF ListsKeys, n
<1> QED
  BY <1>3, <1>14, Zenon DEF r

-----------------------------------------------------------------------------
(* Sign requests *)

LEMMA MessageIs ==
  ASSUME NEW m \in Messages
  PROVE  /\ m.kind \in {"identities", "sign", "malformed", "other", "empty"}
         /\ m.blob \in Seq(Byte) /\ m.data \in Seq(Byte) /\ m.rest \in Seq(Byte)
         /\ m.flags \in Seq(Byte) /\ Len(m.flags) = 4
         /\ Len(m.blob) \in Nat /\ Len(m.data) \in Nat /\ Len(m.rest) \in Nat
         /\ Len(m.blob) + Len(m.data) + Len(m.rest) + 13 \in Uint32
         /\ m.kind = "malformed" => ~Complete(m.rest)
         /\ m.kind = "other" => m.rest # <<>> /\ m.rest[1] \notin {11, 13}
         /\ m.kind = "empty" => m.rest = <<>>
<1>1. /\ m \in [kind : {"identities", "sign", "malformed", "other", "empty"},
                blob : Seq(Byte), data : Seq(Byte), flags : Seq(Byte), rest : Seq(Byte)]
      /\ Len(m.flags) = 4
      /\ Fits(Len(m.blob) + Len(m.data) + Len(m.rest) + 13)
      /\ m.kind = "malformed" => ~Complete(m.rest)
      /\ m.kind = "other" => m.rest # <<>> /\ m.rest[1] \notin {11, 13}
      /\ m.kind = "empty" => m.rest = <<>>
  BY WireAssumption, Zenon DEF MessageAssumption
<1>2. Len(m.blob) + Len(m.data) + Len(m.rest) + 13 \in Uint32
  BY <1>1, FitsIs, Zenon
<1>3. /\ m.kind \in {"identities", "sign", "malformed", "other", "empty"}
      /\ m.blob \in Seq(Byte) /\ m.data \in Seq(Byte)
      /\ m.flags \in Seq(Byte) /\ m.rest \in Seq(Byte)
  BY <1>1
<1>4. Len(m.blob) \in Nat /\ Len(m.data) \in Nat /\ Len(m.rest) \in Nat
  BY <1>3, LenProperties, Zenon
<1> QED
  BY <1>1, <1>2, <1>3, <1>4, Zenon

\* Four bytes as the number they are of.
FlagNumber(flags) == Uint32At(flags, 0)

\* Two bits of such a number, by its last byte.
FlagsOf(n, last) == (Bit(n, 4) <=> last % 8 >= 4) /\ (Bit(n, 2) <=> last % 4 >= 2)

LEMMA FlagBits ==
  ASSUME NEW h \in Nat, NEW d \in Nat, NEW n, n = 256 * h + d
  PROVE  FlagsOf(n, d)
<1>1. n \div 4 = 64 * h + d \div 4 /\ n \div 2 = 128 * h + d \div 2
  BY SMT
<1>2. (n \div 4) % 2 = (d \div 4) % 2 /\ (n \div 2) % 2 = (d \div 2) % 2
  BY <1>1, SMT
<1>3. /\ (d \div 4) % 2 = 1 <=> d % 8 >= 4
      /\ (d \div 2) % 2 = 1 <=> d % 4 >= 2
  BY SMT
<1> QED
  BY <1>2, <1>3, Zenon DEF FlagsOf, Bit

LEMMA FlagsAre ==
  ASSUME NEW flags \in Seq(Byte), Len(flags) = 4
  PROVE  FlagsOf(FlagNumber(flags), flags[4])
<1> DEFINE a == flags[0 + 1]
           b == flags[0 + 2]
           c == flags[0 + 3]
           d == flags[0 + 4]
           h == 65536 * a + 256 * b + c
<1>1. 0 + 1 \in 1..4 /\ 0 + 2 \in 1..4 /\ 0 + 3 \in 1..4 /\ 0 + 4 \in 1..4 /\ 0 + 4 = 4
  BY SMT
<1>2. a \in Byte /\ b \in Byte /\ c \in Byte /\ d \in Byte
  BY <1>1, ElementOfSeq, Zenon
<1>3. FlagNumber(flags) = 16777216 * a + 65536 * b + 256 * c + d
  BY SMT DEF FlagNumber, Uint32At
<1> HIDE DEF a, b, c, d
<1>4. a \in Nat /\ b \in Nat /\ c \in Nat /\ d \in Nat
  BY <1>2, SMT DEF Byte
<1>5. h \in Nat /\ FlagNumber(flags) = 256 * h + d
  BY <1>3, <1>4, SMT
<1> HIDE DEF h
<1>6. FlagsOf(FlagNumber(flags), d)
  BY <1>4, <1>5, FlagBits, Zenon
<1> QED
  BY <1>1, <1>6, Zenon DEF d

LEMMA AskedIs ==
  ASSUME NEW kind \in {"ed25519", "rsa"} \cup DOMAIN CurveMap, NEW flags \in Seq(Byte),
         Len(flags) = 4
  PROVE  /\ Algorithm(kind, FlagNumber(flags)) = Asked(kind, flags)
         /\ Asked(kind, flags) \in AlgorithmNames
<1>1. "rsa" \notin DOMAIN CurveMap /\ "ed25519" \notin DOMAIN CurveMap /\ "rsa" # "ed25519"
  BY DEF CurveMap
<1>2. CASE kind = "rsa"
  <2>1. Algorithm(kind, FlagNumber(flags)) = RsaAlgorithm(FlagNumber(flags))
    BY <1>1, <1>2, Zenon DEF Algorithm
  <2>2. RsaAlgorithm(FlagNumber(flags)) = Asked(kind, flags)
    BY <1>2, FlagsAre, Zenon DEF RsaAlgorithm, Asked, FlagsOf
  <2>3. Asked(kind, flags) \in {"rsa-sha2-512", "rsa-sha2-256", "ssh-rsa"}
    BY <1>2, Zenon DEF Asked
  <2> QED
    BY <2>1, <2>2, <2>3 DEF AlgorithmNames
<1>3. CASE kind # "rsa"
  <2>1. Algorithm(kind, FlagNumber(flags)) = Algorithm(kind, 0)
    BY <1>3, Zenon DEF Algorithm
  <2>2. Asked(kind, flags) = Algorithm(kind, 0)
    BY <1>3, Zenon DEF Asked
  <2>3. Algorithm(kind, 0) \in AlgorithmNames
    <3>1. CASE kind \in DOMAIN CurveMap
      BY <3>1, Zenon DEF Algorithm, AlgorithmNames
    <3>2. CASE kind = "ed25519"
      BY <1>1, <3>2, Zenon DEF Algorithm, AlgorithmNames
    <3> QED
      BY <1>3, <3>1, <3>2, Zenon
  <2> QED
    BY <2>1, <2>2, <2>3, Zenon
<1> QED
  BY <1>2, <1>3, Zenon

\* What is cut out of bytes.
LEMMA PieceIs ==
  ASSUME NEW data \in Seq(Byte), NEW a \in Nat, NEW b \in Nat, a <= b, b <= Len(data)
  PROVE  SubSeq(data, a + 1, b) \in Seq(Byte) /\ Len(SubSeq(data, a + 1, b)) = b - a
<1> DEFINE n == Len(data)
           c == a + 1
<1>1. n \in Nat
  BY LenProperties
<1>2. c \in Int /\ b \in Int
  OBVIOUS
<1>3. \A i \in c..b : data[i] \in Byte
  <2>1. \A i \in c..b : i \in 1..n
    <3> HIDE DEF n
    <3> QED
      BY <1>1 DEF n
  <2> QED
    BY <2>1, ElementOfSeq
<1>4. SubSeq(data, c, b) \in Seq(Byte)
  BY <1>2, <1>3, SubSeqProperties
<1>5. Len(SubSeq(data, c, b)) = IF c <= b THEN b - c + 1 ELSE 0
  BY <1>2, <1>3, SubSeqProperties
<1> DEFINE l == Len(SubSeq(data, c, b))
<1>6. l = IF c <= b THEN b - c + 1 ELSE 0
  BY <1>5
<1> HIDE DEF l
<1>7. l = b - a
  BY <1>6
<1> QED
  BY <1>4, <1>7, Zenon DEF l

\* Where the parts of a sign request stand.
LEMMA SignBodyIs ==
  ASSUME NEW m \in Messages, m.kind = "sign"
  PROVE  /\ Len(m.blob) \in Uint32 /\ Len(m.data) \in Uint32
         /\ Body(m) \in Seq(Byte) /\ Body(m)[1] = 13
         /\ Len(Body(m)) = Len(m.blob) + Len(m.data) + Len(m.rest) + 13
         /\ Holds(Body(m), 1, PackString(m.blob))
         /\ Holds(Body(m), 5 + Len(m.blob), PackString(m.data))
         /\ Holds(Body(m), 9 + Len(m.blob) + Len(m.data), m.flags)
<1> DEFINE lb == Len(m.blob)
           ld == Len(m.data)
           lr == Len(m.rest)
           t == <<13>>
           sb == PackString(m.blob)
           sd == PackString(m.data)
           one == t \o sb
           two == one \o sd
           three == two \o m.flags
           all == three \o m.rest
<1>1. lb \in Nat /\ ld \in Nat /\ lr \in Nat /\ lb + ld + lr + 13 \in Uint32
  BY MessageIs, Zenon
<1>2. /\ m.blob \in Seq(Byte) /\ m.data \in Seq(Byte) /\ m.rest \in Seq(Byte)
      /\ m.flags \in Seq(Byte) /\ Len(m.flags) = 4
  BY MessageIs, Zenon
<1>3. lb \in Uint32 /\ ld \in Uint32
  <2> HIDE DEF lb, ld, lr
  <2> QED
    BY <1>1, SMT DEF Uint32
<1>4. sb \in Seq(Byte) /\ Len(sb) = 4 + lb /\ sd \in Seq(Byte) /\ Len(sd) = 4 + ld
  BY <1>2, <1>3, Packed, Zenon
<1>5. t \in Seq(Byte) /\ Len(t) = 1 /\ t[1] = 13
  BY SMT DEF Byte
<1>6. Body(m) = all
  BY Zenon DEF Body, SignBody
<1> HIDE DEF t, sb, sd, lb, ld, lr
<1>7. one \in Seq(Byte) /\ Len(one) = Len(t) + Len(sb)
  BY <1>4, <1>5, Joined, Zenon
<1> HIDE DEF one
<1>8. two \in Seq(Byte) /\ Len(two) = Len(one) + Len(sd)
  BY <1>4, <1>7, Joined, Zenon
<1> HIDE DEF two
<1>9. three \in Seq(Byte) /\ Len(three) = Len(two) + Len(m.flags)
  BY <1>2, <1>8, Joined, Zenon
<1> HIDE DEF three
<1>10. all \in Seq(Byte) /\ Len(all) = Len(three) + lr
  BY <1>2, <1>9, Joined, Zenon DEF lr
<1> HIDE DEF all
<1>11. Holds(all, 0, three)
  BY <1>2, <1>9, <1>10, HoldsItself, HoldsParts, Zenon DEF all
<1>12. Holds(all, 0, two) /\ Holds(all, 0 + Len(two), m.flags)
  BY <1>2, <1>8, <1>11, HoldsParts, Zenon DEF three
<1>13. Holds(all, 0, one) /\ Holds(all, 0 + Len(one), sd)
  BY <1>4, <1>7, <1>12, HoldsParts, Zenon DEF two
<1>14. Holds(all, 0, t) /\ Holds(all, 0 + Len(t), sb)
  BY <1>4, <1>5, <1>13, HoldsParts, Zenon DEF one
<1>15. /\ 0 + Len(t) = 1 /\ 0 + Len(one) = 5 + lb /\ 0 + Len(two) = 9 + lb + ld
       /\ Len(all) = lb + ld + lr + 13
  BY <1>1, <1>2, <1>4, <1>5, <1>7, <1>8, <1>9, <1>10, SMT
<1>16. all[1] = 13
  <2>1. 1 \in 1..Len(t) /\ 0 + 1 = 1
    BY <1>5, SMT
  <2>2. all[0 + 1] = t[1]
    BY <1>14, <2>1, Zenon DEF Holds
  <2> QED
    BY <1>5, <2>1, <2>2, Zenon
<1> QED
  BY <1>3, <1>6, <1>10, <1>12, <1>13, <1>14, <1>15, <1>16, Zenon DEF sb, sd, lb, ld, lr

Payload(body) == SubSeq(body, 2, Len(body))

LEMMA PayloadIs ==
  ASSUME NEW body \in Seq(Byte), body # <<>>
  PROVE  Payload(body) \in Seq(Byte) /\ Len(Payload(body)) = Len(body) - 1
<1> DEFINE n == Len(body)
<1>1. n \in Nat /\ n >= 1
  BY EmptySeq, LenProperties
<1> HIDE DEF n
<1>2. n <= n /\ 1 \in Nat /\ 1 + 1 = 2
  BY <1>1
<1>3. /\ SubSeq(body, 1 + 1, n) \in Seq(Byte)
      /\ Len(SubSeq(body, 1 + 1, n)) = n - 1
  BY <1>1, <1>2, PieceIs, Zenon DEF n
<1> QED
  BY <1>2, <1>3, Zenon DEF Payload, n

\* A sign request as unpack_string and unpack_uint32 find it.
LEMMA SignRequestRead ==
  ASSUME NEW m \in Messages, m.kind = "sign"
  PROVE  LET payload == Payload(Body(m))
             blob == UnpackString(payload, 0)
             data == UnpackString(payload, blob.next)
         IN  /\ blob.ok /\ data.ok /\ ~(data.next + 4 > Len(payload))
             /\ blob.value = m.blob /\ data.value = m.data
             /\ Uint32At(payload, data.next) = FlagNumber(m.flags)
<1> DEFINE p == Payload(Body(m))
           n == Len(p)
           lb == Len(m.blob)
           ld == Len(m.data)
           at == 8 + lb + ld
           blob == UnpackString(p, 0)
           data == UnpackString(p, blob.next)
<1>1. lb \in Nat /\ ld \in Nat /\ lb \in Uint32 /\ ld \in Uint32
  BY MessageIs, SignBodyIs, Zenon
<1>2. /\ 0 \in Nat /\ 0 + 1 = 1
      /\ 4 + lb \in Nat /\ (4 + lb) + 1 = 5 + lb
      /\ at \in Nat /\ at + 1 = 9 + lb + ld
      /\ 0 + 4 + lb = 4 + lb /\ (4 + lb) + 4 + ld = at
  <2> HIDE DEF lb, ld
  <2> QED
    BY <1>1, SMT
<1>3. /\ Holds(p, 0, PackString(m.blob)) /\ Holds(p, 4 + lb, PackString(m.data))
      /\ Holds(p, at, m.flags)
  <2>1. ASSUME NEW k \in Nat, NEW part, Holds(Body(m), k + 1, part)
        PROVE  Holds(p, k, part)
    BY <2>1, HoldsTail, Zenon DEF Payload
  <2> HIDE DEF p
  <2>2. /\ Holds(Body(m), 0 + 1, PackString(m.blob))
        /\ Holds(Body(m), (4 + lb) + 1, PackString(m.data))
        /\ Holds(Body(m), at + 1, m.flags)
    BY <1>2, SignBodyIs, Zenon
  <2> HIDE DEF lb, ld, at
  <2> QED
    BY <1>2, <2>1, <2>2, Zenon
<1>4. /\ m.blob \in Seq(Byte) /\ m.data \in Seq(Byte)
      /\ m.flags \in Seq(Byte) /\ Len(m.flags) = 4
  BY MessageIs, Zenon
<1> HIDE DEF p
<1>5. UnpackString(p, 0) = [ok |-> TRUE, value |-> m.blob, next |-> 4 + lb]
  <2>1. UnpackString(p, 0) = [ok |-> TRUE, value |-> m.blob, next |-> 0 + 4 + Len(m.blob)]
    BY <1>1, <1>3, <1>4, HoldsString, Zenon
  <2> QED
    BY <1>2, <2>1, Zenon
<1>6. UnpackString(p, 4 + lb) = [ok |-> TRUE, value |-> m.data, next |-> at]
  <2>1. UnpackString(p, 4 + lb) =
          [ok |-> TRUE, value |-> m.data, next |-> (4 + lb) + 4 + Len(m.data)]
    BY <1>1, <1>3, <1>4, HoldsString, Zenon
  <2> QED
    BY <1>2, <2>1, Zenon
<1> HIDE DEF lb, ld, at
<1>7. blob.ok /\ blob.value = m.blob /\ blob.next = 4 + lb
  BY <1>5
<1>8. data.ok /\ data.value = m.data /\ data.next = at
  <2>1. data = UnpackString(p, 4 + lb)
    BY <1>7, Zenon
  <2> HIDE DEF data
  <2> QED
    BY <1>6, <2>1
<1> HIDE DEF blob, data
<1>9. ~(data.next + 4 > n)
  <2>1. at + Len(m.flags) <= n
    BY <1>3, Zenon DEF Holds
  <2>2. n \in Nat
    BY <1>3, LenProperties, Zenon DEF Holds
  <2> HIDE DEF n
  <2> QED
    BY <1>2, <1>4, <1>8, <2>1, <2>2, SMT
<1>10. Uint32At(p, at) = FlagNumber(m.flags)
  <2>1. \A i \in 1..4 : p[at + i] = m.flags[i]
    BY <1>3, <1>4, Zenon DEF Holds
  <2> QED
    BY <1>2, <2>1, Uint32Elsewhere, Zenon DEF FlagNumber
<1> QED
  BY <1>7, <1>8, <1>9, <1>10, Zenon DEF blob, data, p, n

\* The number at a place where there are four bytes.
OneNumber(p, k) == NumberAt(p, k) = Uint32At(p, k) /\ Uint32At(p, k) \in Nat

LEMMA NumberHere ==
  ASSUME NEW p \in Seq(Byte), NEW k \in Nat, k + 4 <= Len(p)
  PROVE  OneNumber(p, k)
<1> DEFINE a == p[k + 1]
           b == p[k + 2]
           c == p[k + 3]
           d == p[k + 4]
           n == Len(p)
<1>1. n \in Nat
  BY LenProperties, Zenon
<1>2. k + 1 \in 1..n /\ k + 2 \in 1..n /\ k + 3 \in 1..n /\ k + 4 \in 1..n
  <2>1. k + 4 <= n
    BY Zenon
  <2> HIDE DEF n
  <2> QED
    BY <1>1, <2>1, SMT
<1>3. a \in Byte /\ b \in Byte /\ c \in Byte /\ d \in Byte
  BY <1>2, ElementOfSeq, Zenon
<1>4. /\ Uint32At(p, k) = 16777216 * a + 65536 * b + 256 * c + d
      /\ NumberAt(p, k) = 256 * (256 * (256 * a + b) + c) + d
  BY SMT DEF NumberAt, Uint32At
<1> HIDE DEF a, b, c, d
<1>5. a \in Nat /\ b \in Nat /\ c \in Nat /\ d \in Nat
  BY <1>3, SMT DEF Byte
<1>6. /\ 256 * (256 * (256 * a + b) + c) + d = 16777216 * a + 65536 * b + 256 * c + d
      /\ 16777216 * a + 65536 * b + 256 * c + d \in Nat
  BY <1>5, SMT
<1> DEFINE x == Uint32At(p, k)
           y == NumberAt(p, k)
<1>7. y = x /\ x \in Nat
  <2> HIDE DEF x, y
  <2> QED
    BY <1>4, <1>6, SMT DEF x, y
<1> QED
  BY <1>7, Zenon DEF OneNumber

\* A payload that does not hold all the parts is not taken for one that does,
\* wherever it ends and whatever lengths it names.
LEMMA IncompleteRead ==
  ASSUME NEW p \in Seq(Byte), ~Complete(p)
  PROVE  LET blob == UnpackString(p, 0)
             data == UnpackString(p, blob.next)
         IN  ~blob.ok \/ ~data.ok \/ data.next + 4 > Len(p)
<1> DEFINE n == Len(p)
           blob == UnpackString(p, 0)
           data == UnpackString(p, blob.next)
           a == Uint32At(p, 0)
           b == Uint32At(p, 4 + a)
<1>1. SUFFICES ASSUME blob.ok, data.ok, ~(data.next + 4 > n)
               PROVE  Complete(p)
  BY Zenon
<1>2. n \in Nat
  BY LenProperties, Zenon
<1>3. ~Malformed.ok
  BY DEF Malformed
<1>4. ~(0 + 4 > n) /\ ~(0 + 4 + a > n)
      /\ blob = [ok |-> TRUE, value |-> SubSeq(p, 0 + 5, 0 + 4 + a), next |-> 0 + 4 + a]
  BY <1>1, <1>3, Zenon DEF UnpackString
<1>5. NumberAt(p, 0) = a /\ a \in Nat
  <2>1. 0 \in Nat /\ 0 + 4 <= Len(p)
    BY <1>2, <1>4
  <2>2. OneNumber(p, 0)
    BY <2>1, NumberHere, Zenon
  <2> QED
    BY <2>2, Zenon DEF OneNumber
<1> HIDE DEF a
<1>6. blob.next = 4 + a
  BY <1>4, <1>5
<1>7. 4 + a \in Nat
  BY <1>5
<1> DEFINE e == 4 + a + 4 + b
<1>8. data = UnpackString(p, 4 + a)
  BY <1>6, Zenon
<1>9. ~(4 + a + 4 > n) /\ ~(e > n)
      /\ data = [ok |-> TRUE, value |-> SubSeq(p, 4 + a + 5, e), next |-> e]
  <2>1. UnpackString(p, 4 + a).ok
    BY <1>1, <1>8, Zenon
  <2> QED
    BY <1>3, <1>8, <2>1, Zenon DEF UnpackString
<1>10. NumberAt(p, 4 + a) = b /\ b \in Nat
  <2>1. (4 + a) + 4 <= n
    <3> HIDE DEF n
    <3> QED
      BY <1>2, <1>7, <1>9, SMT
  <2>2. OneNumber(p, 4 + a)
    BY <1>7, <2>1, NumberHere, Zenon
  <2> QED
    BY <2>2, Zenon DEF OneNumber
<1>11. data.next = e
  BY <1>9
<1>12. ~(e + 4 > n)
  BY <1>1, <1>11, Zenon
<1> HIDE DEF b, n
<1>13. a + b + 12 <= n /\ a \in 0..n /\ b \in 0..n
  BY <1>2, <1>5, <1>10, <1>12, SMT
<1> QED
  BY <1>5, <1>10, <1>13, Zenon DEF Complete, n

-----------------------------------------------------------------------------
(* The answer to a sign request *)

MpintSizes == 0..66
NameSizes == 0..99
SignatureSizes == {n \in Nat : n < 65536}
Sizes == {n \in Nat : n < 70000}
BlobSizes == {n \in Nat : n < 70200}

LEMMA SizesFit ==
  /\ \A l \in MpintSizes : l \in Sizes /\ l \in Nat
  /\ \A l \in SignatureSizes : l \in Sizes
  /\ \A l \in Sizes : l \in Uint32 /\ l \in Nat
  /\ \A l \in NameSizes : l \in Uint32 /\ l \in Nat
  /\ \A l \in BlobSizes : l \in Uint32 /\ 1 + (4 + l) \in Uint32 /\ l \in Nat
<1>1. \A l \in MpintSizes : l \in Sizes /\ l \in Nat
  BY SMT DEF MpintSizes, Sizes
<1>2. \A l \in SignatureSizes : l \in Sizes
  BY SMT DEF SignatureSizes, Sizes
<1>3. \A l \in Sizes : l \in Uint32 /\ l \in Nat
  BY SMT DEF Sizes, Uint32
<1>4. \A l \in NameSizes : l \in Uint32 /\ l \in Nat
  BY SMT DEF NameSizes, Uint32
<1>5. \A l \in BlobSizes : l \in Uint32 /\ 1 + (4 + l) \in Uint32 /\ l \in Nat
  BY SMT DEF BlobSizes, Uint32
<1> QED
  BY <1>1, <1>2, <1>3, <1>4, <1>5, Zenon

LEMMA MpintIs ==
  ASSUME NEW m \in Messages, NEW i \in {1, 2}
  PROVE  /\ Mpint(Numbers(m.data)[i]) \in Seq(Byte)
         /\ Len(Mpint(Numbers(m.data)[i])) \in MpintSizes
         /\ Number(Mpint(Numbers(m.data)[i])) = Numbers(m.data)[i]
<1> DEFINE n == Numbers(m.data)[i]
           l == Len(Mpint(n))
<1>1. MaxBits \in 0..521
  BY WireAssumption, SMT DEF SigningAssumption
<1>2. Numbers(m.data) \in Nat \X Nat /\ ShiftRight(n, MaxBits) = 0
  <2>1. "ssh-rsa" \in AlgorithmNames
    BY Zenon DEF AlgorithmNames
  <2> QED
    BY <2>1, WireAssumption, SMT DEF SigningAssumption
<1>3. n \in Nat
  BY <1>2
<1>4. MaxBits \in Nat /\ (MaxBits + 8) \div 8 <= 66 /\ (MaxBits + 8) \div 8 \in Nat
  BY <1>1
<1> HIDE DEF n
<1>5. Mpint(n) \in Seq(Byte) /\ l <= (MaxBits + 8) \div 8 /\ Number(Mpint(n)) = n
  BY <1>2, <1>3, <1>4, MpintRoundTrip, Zenon DEF n
<1>6. l \in Nat
  BY <1>5, LenProperties, Zenon
<1> HIDE DEF l
<1>7. l \in MpintSizes
  BY <1>4, <1>5, <1>6, SMT DEF MpintSizes
<1> QED
  BY <1>5, <1>7, Zenon DEF n, l

LEMMA NameIs ==
  ASSUME NEW name \in AlgorithmNames
  PROVE  Utf8(name) \in Seq(Byte) /\ Len(Utf8(name)) \in NameSizes
<1> DEFINE l == Len(Utf8(name))
<1>1. Utf8(name) \in Seq(Byte) /\ l < 100
  BY WireAssumption, SMT DEF SigningAssumption
<1>2. l \in Nat
  BY <1>1, LenProperties, SMT
<1> HIDE DEF l
<1>3. l \in NameSizes
  BY <1>1, <1>2, SMT DEF NameSizes
<1> QED
  BY <1>1, <1>3, SMT DEF l

LEMMA SignatureIs ==
  ASSUME NEW m \in Messages, NEW name \in AlgorithmNames
  PROVE  Signature(name, m.data) \in Seq(Byte) /\ Len(Signature(name, m.data)) \in SignatureSizes
<1> DEFINE l == Len(Signature(name, m.data))
<1>1. Signature(name, m.data) \in Seq(Byte) /\ l < 65536
  BY WireAssumption, SMT DEF SigningAssumption
<1>2. l \in Nat
  BY <1>1, LenProperties, SMT
<1> HIDE DEF l
<1>3. l \in SignatureSizes
  BY <1>1, <1>2, SMT DEF SignatureSizes
<1> QED
  BY <1>1, <1>3, SMT DEF l

Signers == {"ed25519", "rsa"} \cup DOMAIN CurveMap

\* The signature in the reply to m.
SignedFor(kind, m) == SignData(kind, m.data, FlagNumber(m.flags))

LEMMA CurveSignature ==
  ASSUME NEW m \in Messages, NEW kind \in DOMAIN CurveMap
  PROVE  /\ SignedFor(kind, m) = PackString(Mpint(Numbers(m.data)[1]))
                                   \o PackString(Mpint(Numbers(m.data)[2]))
         /\ SignedFor(kind, m) \in Seq(Byte) /\ Len(SignedFor(kind, m)) \in Sizes
<1> DEFINE a == Mpint(Numbers(m.data)[1])
           b == Mpint(Numbers(m.data)[2])
           p == PackString(a)
           q == PackString(b)
<1>1. SignedFor(kind, m) = p \o q
  BY Zenon DEF SignedFor, SignData
<1>2. 1 \in {1, 2} /\ 2 \in {1, 2}
  OBVIOUS
<1>3. a \in Seq(Byte) /\ Len(a) \in MpintSizes /\ b \in Seq(Byte) /\ Len(b) \in MpintSizes
  BY <1>2, MpintIs, Zenon
<1> HIDE DEF a, b
<1>4. Len(a) \in Uint32 /\ Len(b) \in Uint32
  BY <1>3, SizesFit, Zenon
<1>6. /\ p \in Seq(Byte) /\ Len(p) = 4 + Len(a)
      /\ q \in Seq(Byte) /\ Len(q) = 4 + Len(b)
  BY <1>3, <1>4, Packed, Zenon
<1> HIDE DEF p, q
<1>7. p \o q \in Seq(Byte) /\ Len(p \o q) = Len(p) + Len(q)
  BY <1>6, Joined, Zenon
<1>8. Len(p \o q) \in Sizes
  <2> DEFINE la == Len(a)
             lb == Len(b)
             lp == Len(p \o q)
  <2>1. la \in MpintSizes /\ lb \in MpintSizes /\ lp = (4 + la) + (4 + lb)
    BY <1>3, <1>6, <1>7, Zenon
  <2> HIDE DEF la, lb, lp
  <2>2. lp \in Sizes
    BY <2>1, SMT DEF MpintSizes, Sizes
  <2> QED
    BY <2>2, Zenon DEF lp
<1> QED
  BY <1>1, <1>7, <1>8, Zenon DEF p, q, a, b

LEMMA OtherSignature ==
  ASSUME NEW m \in Messages, NEW kind \in Signers, kind \notin DOMAIN CurveMap
  PROVE  SignedFor(kind, m) = Signature(Asked(kind, m.flags), m.data)
<1>1. Algorithm(kind, FlagNumber(m.flags)) = Asked(kind, m.flags)
  BY MessageIs, AskedIs, Zenon DEF Signers
<1> QED
  BY <1>1, Zenon DEF SignedFor, SignData

LEMMA SignedIs ==
  ASSUME NEW m \in Messages, NEW kind \in Signers
  PROVE  SignedFor(kind, m) \in Seq(Byte) /\ Len(SignedFor(kind, m)) \in Sizes
<1>1. CASE kind \in DOMAIN CurveMap
  BY <1>1, CurveSignature, Zenon
<1>2. CASE kind \notin DOMAIN CurveMap
  <2> DEFINE s == Signature(Asked(kind, m.flags), m.data)
             l == Len(s)
  <2>1. Asked(kind, m.flags) \in AlgorithmNames
    BY MessageIs, AskedIs, Zenon DEF Signers
  <2>2. s \in Seq(Byte) /\ l \in SignatureSizes
    BY <2>1, SignatureIs, Zenon
  <2>3. SignedFor(kind, m) = s
    BY <1>2, OtherSignature, Zenon
  <2> HIDE DEF l
  <2>4. l \in Sizes
    BY <2>2, SizesFit, Zenon
  <2> QED
    BY <2>2, <2>3, <2>4, Zenon DEF l
<1> QED
  BY <1>1, <1>2, Zenon

LEMMA SignatureRead ==
  ASSUME NEW m \in Messages, NEW kind \in Signers, NEW r, NEW k,
         Holds(r, k, PackString(SignedFor(kind, m)))
  PROVE  SignatureAt(r, k, kind, Asked(kind, m.flags), m.data)
<1> DEFINE s == SignedFor(kind, m)
<1>1. s \in Seq(Byte) /\ Len(s) \in Uint32
  BY SignedIs, SizesFit, Zenon
<1> HIDE DEF s
<1>2. EndOf(r, k) = k + 4 + Len(s) /\ StringAt(r, k) = s /\ k \in Nat
  BY <1>1, ReadString, Zenon DEF s
<1>3. CASE kind \in DOMAIN CurveMap
  <2> DEFINE a == Mpint(Numbers(m.data)[1])
             b == Mpint(Numbers(m.data)[2])
             at == k + 4
  <2>1. 1 \in {1, 2} /\ 2 \in {1, 2}
    OBVIOUS
  <2>2. /\ a \in Seq(Byte) /\ Len(a) \in MpintSizes /\ Number(a) = Numbers(m.data)[1]
        /\ b \in Seq(Byte) /\ Len(b) \in MpintSizes /\ Number(b) = Numbers(m.data)[2]
    BY <2>1, MpintIs, Zenon
  <2>3. s = PackString(a) \o PackString(b)
    BY <1>3, CurveSignature, Zenon DEF s
  <2> HIDE DEF a, b, at
  <2>4. Len(a) \in Uint32 /\ Len(b) \in Uint32
    BY <2>2, SizesFit, Zenon
  <2>5. Holds(r, at, s)
    BY <1>1, HoldsString, Zenon DEF s, at
  <2>6. /\ StringAt(r, at) = a /\ StringAt(r, EndOf(r, at)) = b
        /\ EndOf(r, EndOf(r, at)) = at + Len(s)
        /\ EndOfStrings(r, at, 2) = EndOf(r, EndOf(r, at))
    BY <2>2, <2>3, <2>4, <2>5, ReadTwo, Zenon
  <2>7. EndOfStrings(r, at, 2) = EndOf(r, k)
    BY <1>2, <2>6, Zenon DEF at
  <2> QED
    BY <1>3, <2>2, <2>6, <2>7, Zenon DEF SignatureAt, at
<1>4. CASE kind \notin DOMAIN CurveMap
  BY <1>2, <1>4, OtherSignature, Zenon DEF SignatureAt, s
<1> QED
  BY <1>3, <1>4, Zenon

\* The frame that _handle_sign_request answers with.
SignReply(kind, m) ==
    Frame(14, PackString(SignatureBlob(kind, m.data, FlagNumber(m.flags))))

LEMMA SignReplySigns ==
  ASSUME NEW m \in Messages, NEW kind \in Signers
  PROVE  /\ \E payload : IsReply(SignReply(kind, m), 14, payload)
         /\ SignsWith(SignReply(kind, m), kind, Asked(kind, m.flags), m.data)
<1> DEFINE name == Asked(kind, m.flags)
           u == Utf8(name)
           s == SignedFor(kind, m)
           p == PackString(u)
           q == PackString(s)
           blob == p \o q
           load == PackString(blob)
           r == Frame(14, load)
<1>1. /\ Algorithm(kind, FlagNumber(m.flags)) = name
      /\ name \in AlgorithmNames
  BY MessageIs, AskedIs, Zenon DEF Signers
<1>2. SignReply(kind, m) = r
  BY <1>1, Zenon DEF SignReply, SignatureBlob, SignedFor
<1>3. u \in Seq(Byte) /\ Len(u) \in NameSizes
  BY <1>1, NameIs, Zenon
<1>4. s \in Seq(Byte) /\ Len(s) \in Sizes
  BY SignedIs, Zenon
<1> HIDE DEF name, u, s
<1>5. Len(u) \in Uint32 /\ Len(s) \in Uint32
  BY <1>3, <1>4, SizesFit, Zenon
<1>6. /\ p \in Seq(Byte) /\ Len(p) = 4 + Len(u)
      /\ q \in Seq(Byte) /\ Len(q) = 4 + Len(s)
  BY <1>3, <1>4, <1>5, Packed, Zenon
<1> HIDE DEF p, q
<1>7. blob \in Seq(Byte) /\ Len(blob) = Len(p) + Len(q)
  BY <1>6, Joined, Zenon
<1> HIDE DEF blob
<1>8. Len(blob) \in BlobSizes /\ Len(blob) \in Nat
  <2> DEFINE lu == Len(u)
             ls == Len(s)
             lb == Len(blob)
  <2>1. lu \in NameSizes /\ ls \in Sizes /\ lb = (4 + lu) + (4 + ls)
    BY <1>3, <1>4, <1>6, <1>7, Zenon
  <2> HIDE DEF lu, ls, lb
  <2>2. lb \in BlobSizes /\ lb \in Nat
    BY <2>1, SMT DEF NameSizes, Sizes, BlobSizes
  <2> QED
    BY <2>2, Zenon DEF lb
<1>9. Len(blob) \in Uint32 /\ 1 + (4 + Len(blob)) \in Uint32
  BY <1>8, SizesFit, Zenon
<1>10. load \in Seq(Byte) /\ Len(load) = 4 + Len(blob)
  BY <1>7, <1>9, Packed, Zenon
<1> HIDE DEF load
<1>11. IsReply(r, 14, load)
  <2>1. 14 \in Byte
    BY SMT DEF Byte
  <2>2. 1 + Len(load) \in Uint32
    BY <1>8, <1>9, <1>10, Zenon
  <2> QED
    BY <1>10, <2>1, <2>2, FrameIsReply, Zenon
<1> HIDE DEF r
<1>12. r[5] = 14 /\ Len(r) = 5 + Len(load) /\ Holds(r, 5, load)
  BY <1>11, Zenon DEF IsReply
<1>13. EndOf(r, 5) = 5 + 4 + Len(blob)
  BY <1>7, <1>9, <1>12, ReadString, Zenon DEF load
<1>14. 5 + 4 + Len(blob) = Len(r) /\ 9 + Len(blob) = Len(r) /\ 5 + 4 = 9
  <2> DEFINE lb == Len(blob)
             lr == Len(r)
  <2>1. lb \in Nat /\ lr = 5 + (4 + lb)
    BY <1>8, <1>10, <1>12, Zenon
  <2> HIDE DEF lb, lr
  <2>2. 5 + 4 + lb = lr /\ 9 + lb = lr /\ 5 + 4 = 9
    BY <2>1, SMT
  <2> QED
    BY <2>2, Zenon DEF lb, lr
<1>15. Holds(r, 9, blob)
  <2>1. Holds(r, 5 + 4, blob)
    BY <1>7, <1>9, <1>12, HoldsString, Zenon DEF load
  <2> QED
    BY <1>14, <2>1, Zenon
<1>16. /\ StringAt(r, 9) = u /\ Holds(r, EndOf(r, 9), PackString(s))
       /\ EndOf(r, EndOf(r, 9)) = 9 + Len(blob)
       /\ EndOfStrings(r, 9, 2) = EndOf(r, EndOf(r, 9))
  BY <1>3, <1>4, <1>5, <1>15, ReadTwo, Zenon DEF blob, p, q
<1>17. SignatureAt(r, EndOf(r, 9), kind, name, m.data)
  BY <1>16, SignatureRead, Zenon DEF s, name
<1>18. SignsWith(r, kind, name, m.data)
  BY <1>12, <1>13, <1>14, <1>16, <1>17, Zenon DEF SignsWith, u
<1> QED
  BY <1>2, <1>11, <1>18, Zenon DEF name

LEMMA KeyUnder ==
  ASSUME NEW b, NEW i \in KeysUnder(b)
  PROVE  /\ i \in 1..Len(KeyList)
         /\ ~Unsupported(i) => KeyList[i].kind \in Signers
         /\ \A j \in KeysUnder(b) : j = i
<1>1. i \in 1..Len(KeyList) /\ KeyList[i].blob = b
  BY Zenon DEF KeysUnder
<1>2. KeyList[i].kind \in {"ed25519", "rsa", "unsupported"} \cup DOMAIN CurveMap
  BY <1>1, KeyIs, Zenon
<1>3. ~Unsupported(i) => KeyList[i].kind \in Signers
  BY <1>2, Zenon DEF Unsupported, Signers
<1>4. \A j \in KeysUnder(b) : j \in 1..Len(KeyList) /\ KeyList[j].blob = b
  BY Zenon DEF KeysUnder
<1>5. \A j \in KeysUnder(b) : j = i
  BY <1>1, <1>4, WireAssumption, Zenon DEF KeyListAssumption
<1> QED
  BY <1>1, <1>3, <1>5, Zenon

\* A reply, and the one that the protocol asks for.
Replies(m, r) == r \in Seq(Byte) /\ Len(r) = EndOf(r, 0) /\ Answers(m, r)

LEMMA SignAnswered ==
  ASSUME NEW m \in Messages, m.kind = "sign"
  PROVE  Replies(m, SignAnswer(Payload(Body(m))))
<1> DEFINE p == Payload(Body(m))
           blob == UnpackString(p, 0)
           data == UnpackString(p, blob.next)
           keys == KeysUnder(blob.value)
           key == CHOOSE i \in keys : TRUE
           bad == ~blob.ok \/ ~data.ok \/ data.next + 4 > Len(p)
           r == Frame(14, PackString(SignatureBlob(
                    KeyList[key].kind, data.value, Uint32At(p, data.next))))
<1>1. /\ ~bad /\ blob.value = m.blob /\ data.value = m.data
      /\ Uint32At(p, data.next) = FlagNumber(m.flags)
  BY SignRequestRead, Zenon
<1>2. SignAnswer(p) = IF bad \/ keys = {} \/ Unsupported(key) THEN Failure ELSE r
  <2>1. SignAnswer(p) =
          IF \/ ~blob.ok \/ ~data.ok \/ data.next + 4 > Len(p)
             \/ keys = {} \/ Unsupported(key)
            THEN Failure ELSE r
    BY Zenon DEF SignAnswer
  <2> HIDE DEF p, blob, data, keys, key, r
  <2> QED
    BY <2>1, Zenon
<1> HIDE DEF p, blob, data
<1>3. Failure \in Seq(Byte) /\ Len(Failure) = EndOf(Failure, 0) /\ Fails(Failure)
  BY FailureFails, Zenon DEF IsReply
<1>4. keys = KeysUnder(m.blob)
  BY <1>1, Zenon
<1> HIDE DEF bad, keys, key
<1>5. CASE \A i \in KeysUnder(m.blob) : Unsupported(i)
  <2>1. keys = {} \/ Unsupported(key)
    <3>1. keys # {} => key \in keys
      BY Zenon DEF key
    <3> QED
      BY <1>4, <1>5, <3>1, Zenon
  <2>2. SignAnswer(p) = Failure
    BY <1>2, <2>1, Zenon
  <2>3. Answers(m, Failure)
    BY <1>3, <1>5, Zenon DEF Answers
  <2> QED
    BY <1>3, <2>2, <2>3, Zenon DEF Replies, p
<1>6. CASE \E i \in KeysUnder(m.blob) : ~Unsupported(i)
  <2>1. PICK i \in KeysUnder(m.blob) : ~Unsupported(i)
    BY <1>6, Zenon
  <2>2. keys # {} /\ key \in keys
    <3>1. i \in keys
      BY <1>4, Zenon
    <3>2. key \in keys
      BY <3>1, Zenon DEF key
    <3> QED
      BY <3>2, Zenon
  <2>3. key = i
    BY <1>4, <2>1, <2>2, KeyUnder, Zenon
  <2> DEFINE kind == KeyList[i].kind
  <2>4. kind \in Signers
    BY <2>1, KeyUnder, Zenon
  <2>5. SignAnswer(p) = r
    BY <1>1, <1>2, <2>1, <2>2, <2>3, Zenon
  <2>6. r = SignReply(kind, m)
    BY <1>1, <2>3, Zenon DEF SignReply
  <2> HIDE DEF r
  <2>7. /\ r \in Seq(Byte) /\ Len(r) = EndOf(r, 0)
        /\ SignsWith(r, kind, Asked(kind, m.flags), m.data)
    <3>1. /\ \E payload : IsReply(SignReply(kind, m), 14, payload)
          /\ SignsWith(SignReply(kind, m), kind, Asked(kind, m.flags), m.data)
      BY <2>4, SignReplySigns, Zenon
    <3>2. \E payload : IsReply(r, 14, payload)
      BY <2>6, <3>1, Zenon
    <3> QED
      BY <2>6, <3>1, <3>2, Zenon DEF IsReply
  <2>8. Answers(m, r)
    BY <2>1, <2>7, Zenon DEF Answers
  <2> QED
    BY <2>5, <2>7, <2>8, Zenon DEF Replies, p
<1> QED
  BY <1>5, <1>6, Zenon

-----------------------------------------------------------------------------
(* The answer to any message *)

\* A body that is a type and what follows it.
TypeThen(all, type, rest) ==
    /\ all \in Seq(Byte) /\ all # <<>> /\ Len(all) = 1 + Len(rest)
    /\ all[1] = type /\ Payload(all) = rest

LEMMA Typed ==
  ASSUME NEW type \in Byte, NEW rest \in Seq(Byte)
  PROVE  TypeThen(<<type>> \o rest, type, rest)
<1> DEFINE t == <<type>>
           all == t \o rest
           lr == Len(rest)
<1>1. t \in Seq(Byte) /\ Len(t) = 1 /\ t[1] = type
  BY SMT
<1>2. lr \in Nat
  BY LenProperties, Zenon
<1> HIDE DEF t
<1>3. /\ all \in Seq(Byte) /\ Len(all) = Len(t) + lr
      /\ \A i \in 1..Len(t) : all[i] = t[i]
      /\ Holds(all, Len(t), rest)
  BY <1>1, Joined, HoldsAfter, Zenon
<1> HIDE DEF all
<1>4. SubSeq(all, Len(t) + 1, Len(t) + lr) = rest
  BY <1>3, HoldsValue, Zenon
<1> HIDE DEF lr
<1>5. Len(all) = 1 + lr /\ Len(all) # 0 /\ Len(t) + 1 = 2 /\ 1 \in 1..Len(t)
  BY <1>1, <1>2, <1>3, SMT
<1>6. all # <<>>
  <2>1. Len(<<>>) = 0
    OBVIOUS
  <2> QED
    BY <1>5, <2>1, Zenon
<1>7. Payload(all) = rest
  BY <1>3, <1>4, <1>5, Zenon DEF Payload
<1> QED
  BY <1>1, <1>3, <1>5, <1>6, <1>7, Zenon DEF TypeThen, all, t, lr

LEMMA OtherBodies ==
  ASSUME NEW m \in Messages, m.kind # "sign"
  PROVE  /\ Body(m) \in Seq(Byte) /\ Len(Body(m)) \in Uint32
         /\ m.kind = "identities" => Body(m) # <<>> /\ Body(m)[1] = 11
         /\ m.kind = "malformed" =>
               Body(m) # <<>> /\ Body(m)[1] = 13 /\ Payload(Body(m)) = m.rest
         /\ m.kind = "other" => Body(m) # <<>> /\ Body(m)[1] \notin {11, 13}
         /\ m.kind = "empty" => Body(m) = <<>>
<1> DEFINE lb == Len(m.blob)
           ld == Len(m.data)
           lr == Len(m.rest)
           ask == <<11>> \o m.rest
           cut == <<13>> \o m.rest
<1>1. /\ lb \in Nat /\ ld \in Nat /\ lr \in Nat /\ lb + ld + lr + 13 \in Uint32
      /\ m.rest \in Seq(Byte)
  BY MessageIs, Zenon
<1>2. 11 \in Byte /\ 13 \in Byte
  BY SMT DEF Byte
<1>3. Body(m) = IF m.kind = "malformed" THEN cut
                ELSE IF m.kind = "identities" THEN ask ELSE m.rest
  BY Zenon DEF Body
<1>4. /\ ask \in Seq(Byte) /\ ask # <<>> /\ Len(ask) = 1 + lr /\ ask[1] = 11
      /\ cut \in Seq(Byte) /\ cut # <<>> /\ Len(cut) = 1 + lr /\ cut[1] = 13
      /\ Payload(cut) = m.rest
  <2>1. TypeThen(ask, 11, m.rest) /\ TypeThen(cut, 13, m.rest)
    BY <1>1, <1>2, Typed, Zenon
  <2> HIDE DEF ask, cut
  <2> QED
    BY <2>1, Zenon DEF TypeThen
<1> HIDE DEF lb, ld, lr, ask, cut
<1>5. lr \in Uint32 /\ 1 + lr \in Uint32
  BY <1>1, SMT DEF Uint32
<1>6. CASE m.kind = "malformed"
  <2>1. m.kind # "identities" /\ m.kind # "other" /\ m.kind # "empty"
    BY <1>6
  <2> QED
    BY <1>3, <1>4, <1>5, <1>6, <2>1, Zenon
<1>7. CASE m.kind = "identities"
  <2>1. m.kind # "malformed" /\ m.kind # "other" /\ m.kind # "empty"
    BY <1>7
  <2> QED
    BY <1>3, <1>4, <1>5, <1>7, <2>1, Zenon
<1>8. CASE m.kind # "malformed" /\ m.kind # "identities"
  <2>1. Body(m) = m.rest
    BY <1>3, <1>8, Zenon
  <2>2. /\ m.kind = "other" => m.rest # <<>> /\ m.rest[1] \notin {11, 13}
        /\ m.kind = "empty" => m.rest = <<>>
    BY MessageIs, Zenon
  <2> QED
    BY <1>1, <1>5, <1>8, <2>1, <2>2, Zenon DEF lr
<1> QED
  BY <1>6, <1>7, <1>8, Zenon

\* Every body but that of a message of length zero has a type.
LEMMA BodyIs ==
  ASSUME NEW m \in Messages
  PROVE  /\ Body(m) \in Seq(Byte) /\ Len(Body(m)) \in Uint32 /\ Len(Body(m)) \in Nat
         /\ Body(m) = <<>> <=> m.kind = "empty"
<1>1. CASE m.kind = "sign"
  <2> DEFINE lb == Len(m.blob)
             ld == Len(m.data)
             lr == Len(m.rest)
             n == Len(Body(m))
  <2>1. lb \in Nat /\ ld \in Nat /\ lr \in Nat /\ lb + ld + lr + 13 \in Uint32
    BY MessageIs, Zenon
  <2>2. Body(m) \in Seq(Byte) /\ n = lb + ld + lr + 13
    BY <1>1, SignBodyIs, Zenon
  <2> HIDE DEF lb, ld, lr, n
  <2>3. n \in Uint32 /\ n # 0 /\ n \in Nat
    BY <2>1, <2>2, SMT DEF Uint32
  <2>4. Body(m) # <<>>
    <3>1. Len(<<>>) = 0
      OBVIOUS
    <3> QED
      BY <2>3, <3>1, Zenon DEF n
  <2>5. m.kind # "empty"
    BY <1>1
  <2> QED
    BY <2>2, <2>3, <2>4, <2>5, Zenon DEF n
<1>2. CASE m.kind # "sign"
  <2>1. /\ Body(m) \in Seq(Byte) /\ Len(Body(m)) \in Uint32
        /\ m.kind \in {"identities", "malformed", "other"} => Body(m) # <<>>
        /\ m.kind = "empty" => Body(m) = <<>>
    BY <1>2, OtherBodies, Zenon
  <2>2. m.kind \in {"identities", "sign", "malformed", "other", "empty"}
    BY MessageIs, Zenon
  <2>3. Len(Body(m)) \in Nat
    BY <2>1, LenProperties, Zenon
  <2> QED
    BY <1>2, <2>1, <2>2, <2>3, Zenon
<1> QED
  BY <1>1, <1>2, Zenon

LEMMA MalformedAnswered ==
  ASSUME NEW m \in Messages, m.kind = "malformed"
  PROVE  Replies(m, SignAnswer(Payload(Body(m))))
<1> DEFINE p == m.rest
           blob == UnpackString(p, 0)
           data == UnpackString(p, blob.next)
<1>1. Payload(Body(m)) = p
  <2>1. m.kind # "sign"
    BY Zenon
  <2> QED
    BY <2>1, OtherBodies, Zenon
<1>2. ~blob.ok \/ ~data.ok \/ data.next + 4 > Len(p)
  BY MessageIs, IncompleteRead, Zenon
<1>3. SignAnswer(p) = Failure
  BY <1>2, Zenon DEF SignAnswer
<1>4. Failure \in Seq(Byte) /\ Len(Failure) = EndOf(Failure, 0) /\ Fails(Failure)
  BY FailureFails, Zenon DEF IsReply
<1>5. Answers(m, Failure)
  BY <1>4, Zenon DEF Answers
<1> QED
  BY <1>1, <1>3, <1>4, <1>5, Zenon DEF Replies

LEMMA Answered ==
  ASSUME NEW m \in Messages, Body(m) # <<>>
  PROVE  Replies(m, Answer(Body(m)[1], Payload(Body(m))))
<1> DEFINE r == Answer(Body(m)[1], Payload(Body(m)))
<1>1. m.kind \in {"identities", "sign", "malformed", "other"}
  <2>1. m.kind \in {"identities", "sign", "malformed", "other", "empty"}
    BY MessageIs, Zenon
  <2>2. m.kind # "empty"
    BY BodyIs, Zenon
  <2> QED
    BY <2>1, <2>2, Zenon
<1>2. CASE m.kind = "identities"
  <2>1. Body(m)[1] = 11
    <3>1. m.kind # "sign"
      BY <1>2
    <3> QED
      BY <1>2, <3>1, OtherBodies, Zenon
  <2>2. r = IdentitiesAnswer
    BY <2>1, Zenon DEF Answer
  <2>3. /\ IdentitiesAnswer \in Seq(Byte)
        /\ Len(IdentitiesAnswer) = EndOf(IdentitiesAnswer, 0)
        /\ ListsKeys(IdentitiesAnswer)
    BY IdentitiesListed, Zenon DEF IsReply
  <2>4. Answers(m, IdentitiesAnswer)
    BY <1>2, <2>3, Zenon DEF Answers
  <2> QED
    BY <2>2, <2>3, <2>4, Zenon DEF Replies
<1>3. CASE m.kind \in {"sign", "malformed"}
  <2>1. Body(m)[1] = 13
    <3>1. CASE m.kind = "sign"
      BY <3>1, SignBodyIs, Zenon
    <3>2. CASE m.kind = "malformed"
      <4>1. m.kind # "sign"
        BY <3>2
      <4> QED
        BY <3>2, <4>1, OtherBodies, Zenon
    <3> QED
      BY <1>3, <3>1, <3>2, Zenon
  <2>2. 13 # 11
    BY SMT
  <2>3. r = SignAnswer(Payload(Body(m)))
    BY <2>1, <2>2, Zenon DEF Answer
  <2> QED
    BY <1>3, <2>3, SignAnswered, MalformedAnswered, Zenon
<1>4. CASE m.kind = "other"
  <2>1. Body(m)[1] \notin {11, 13}
    <3>1. m.kind # "sign"
      BY <1>4
    <3> QED
      BY <1>4, <3>1, OtherBodies, Zenon
  <2>2. r = Failure
    BY <2>1, Zenon DEF Answer
  <2>3. Failure \in Seq(Byte) /\ Len(Failure) = EndOf(Failure, 0) /\ Fails(Failure)
    BY FailureFails, Zenon DEF IsReply
  <2>4. Answers(m, Failure)
    BY <1>4, <2>3, Zenon DEF Answers
  <2> QED
    BY <2>2, <2>3, <2>4, Zenon DEF Replies
<1> QED
  BY <1>1, <1>2, <1>3, <1>4, Zenon

-----------------------------------------------------------------------------
(* The stream, and the reader's place in it *)

\* The stream is the frames of the requests, one after the other.
Framing ==
    /\ Len(stream) = EndOfRequest(Len(requests))
    /\ \A i \in 1..Len(requests) :
          /\ Holds(stream, EndOfRequest(i - 1), PackString(Body(requests[i])))
          /\ EndOfRequest(i) = EndOfRequest(i - 1) + 4 + Len(Body(requests[i]))

\* The length that the reader waits for is that of the next request.
Waiting ==
    open /\ need # -1 =>
        /\ Len(replies) < Len(requests)
        /\ need = Len(Body(requests[Len(replies) + 1]))

WireInv == TypeOK /\ Framing /\ InStep /\ Waiting /\ Understood /\ ClosesForCause

LEMMA RequestIs ==
  ASSUME TypeOK
  PROVE  /\ Len(requests) \in Nat /\ Len(replies) \in Nat
         /\ \A i \in 1..Len(requests) : requests[i] \in Messages
         /\ \A i \in 0..Len(requests) : EndOfRequest(i) \in Nat
<1>1. requests \in Seq(Messages) /\ ends \in Seq(Nat) /\ Len(ends) = Len(requests)
      /\ replies \in Seq(Seq(Byte))
  BY Zenon DEF TypeOK
<1>2. Len(requests) \in Nat /\ Len(replies) \in Nat
  BY <1>1, LenProperties, Zenon
<1>3. \A i \in 1..Len(requests) : requests[i] \in Messages
  BY <1>1, ElementOfSeq, Zenon
<1>4. \A i \in 1..Len(requests) : ends[i] \in Nat
  BY <1>1, ElementOfSeq, Zenon
<1>5. \A i \in 0..Len(requests) : EndOfRequest(i) \in Nat
  <2> DEFINE n == Len(requests)
  <2> HIDE DEF n
  <2>1. \A i \in 0..n : i # 0 => i \in 1..n
    BY <1>2 DEF n
  <2>2. 0 \in Nat
    OBVIOUS
  <2> QED
    BY <1>4, <2>1, <2>2, Zenon DEF EndOfRequest, n
<1> QED
  BY <1>2, <1>3, <1>5, Zenon

LEMMA Initially ==
  Init => WireInv
<1> SUFFICES ASSUME Init PROVE WireInv
  OBVIOUS
<1>1. /\ requests = <<>> /\ stream = <<>> /\ ends = <<>> /\ replies = <<>>
      /\ arrived = 0 /\ taken = 0 /\ need = -1 /\ eof = FALSE /\ open = TRUE
  BY Zenon DEF Init
<1>2. Len(requests) = 0 /\ Len(stream) = 0 /\ Len(ends) = 0 /\ Len(replies) = 0
  BY <1>1, EmptySeq
<1>3. EndOfRequest(0) = 0
  BY Zenon DEF EndOfRequest
<1>4. \A i : i \notin 1..0
  OBVIOUS
<1>5. TypeOK
  <2>1. \A S : <<>> \in Seq(S)
    BY EmptySeq
  <2>2. 0 \in 0..0 /\ -1 \in Nat \cup {-1}
    OBVIOUS
  <2> QED
    BY <1>1, <1>2, <1>4, <2>1, <2>2, Zenon DEF TypeOK
<1>6. Framing
  BY <1>2, <1>3, <1>4, Zenon DEF Framing
<1>7. InStep
  <2>1. 0 <= 0 /\ 0 = 0 + 0
    OBVIOUS
  <2> QED
    BY <1>1, <1>2, <1>3, <2>1, Zenon DEF InStep
<1> QED
  BY <1>1, <1>2, <1>4, <1>5, <1>6, <1>7, Zenon DEF WireInv, Waiting, Understood, ClosesForCause

LEMMA SendKeeps ==
  ASSUME WireInv, ClientSends
  PROVE  WireInv'
<1> DEFINE n == Len(requests)
           k == Len(replies)
           After(i) == IF i = 0 THEN 0 ELSE ends'[i]
<1>1. /\ TypeOK /\ Framing /\ InStep /\ Waiting /\ Understood /\ ClosesForCause
      /\ n \in Nat /\ k \in Nat
      /\ \A i \in 0..n : EndOfRequest(i) \in Nat
  BY RequestIs, Zenon DEF WireInv
<1>2. PICK m \in Messages : /\ requests' = Append(requests, m)
                            /\ stream' = stream \o PackString(Body(m))
                            /\ ends' = Append(ends, Len(stream'))
  BY Zenon DEF ClientSends
<1>3. /\ arrived' = arrived /\ taken' = taken /\ need' = need
      /\ replies' = replies /\ eof' = eof /\ open' = open /\ eof = FALSE
  BY DEF ClientSends
<1> DEFINE p == PackString(Body(m))
           b == Len(Body(m))
<1>4. b \in Nat /\ p \in Seq(Byte) /\ Len(p) = 4 + b
  BY BodyIs, Packed, Zenon
<1>5. stream \in Seq(Byte) /\ Len(stream) \in Nat
  BY <1>1, LenProperties, Zenon DEF TypeOK
<1> HIDE DEF p, b
<1>6. /\ stream' \in Seq(Byte) /\ Len(stream') = Len(stream) + Len(p)
      /\ Holds(stream', Len(stream), p)
      /\ \A at, part : Holds(stream, at, part) => Holds(stream', at, part)
  <2>1. stream \o p \in Seq(Byte) /\ Len(stream \o p) = Len(stream) + Len(p)
    BY <1>4, <1>5, Joined, Zenon
  <2>2. Holds(stream \o p, Len(stream), p)
    BY <1>4, <1>5, HoldsAfter, Zenon
  <2>3. \A at, part : Holds(stream, at, part) => Holds(stream \o p, at, part)
    BY <1>4, HoldsStill, Zenon
  <2> QED
    BY <1>2, <2>1, <2>2, <2>3, Zenon DEF p
<1>7. Len(stream') = Len(stream) + 4 + b /\ Len(stream') \in Nat /\ Len(stream) <= Len(stream')
  <2> DEFINE l == Len(stream)
             l2 == Len(stream')
  <2>1. l \in Nat /\ l2 = l + (4 + b)
    BY <1>4, <1>5, <1>6, Zenon
  <2> HIDE DEF l, l2
  <2>2. l2 = l + 4 + b /\ l2 \in Nat /\ l <= l2
    BY <1>4, <2>1
  <2> QED
    BY <2>2, Zenon DEF l, l2
<1>8. /\ requests' \in Seq(Messages) /\ Len(requests') = n + 1
      /\ \A i \in 1..n : requests'[i] = requests[i]
      /\ requests'[n + 1] = m
  <2>1. requests \in Seq(Messages)
    BY <1>1, Zenon DEF TypeOK
  <2> QED
    BY <1>2, <2>1, AppendProperties
<1>9. /\ ends' \in Seq(Nat) /\ Len(ends') = n + 1
      /\ \A i \in 1..n : ends'[i] = ends[i]
      /\ ends'[n + 1] = Len(stream')
  <2>1. ends \in Seq(Nat) /\ Len(ends) = n
    BY <1>1, Zenon DEF TypeOK
  <2> QED
    BY <1>2, <1>7, <2>1, AppendProperties
<1> HIDE DEF n, k
<1>10. /\ n + 1 \in Nat /\ n + 1 # 0 /\ \A i \in 0..n : i # 0 => i \in 1..n
       /\ \A i \in 1..(n + 1) : i # n + 1 => i \in 1..n
       /\ \A i \in 1..n : i - 1 \in 0..n /\ i \in 0..n
       /\ n \in 0..n /\ (n + 1) - 1 = n /\ n + 1 \in 1..(n + 1)
  BY <1>1
<1>11. /\ \A i \in 0..n : After(i) = EndOfRequest(i)
       /\ After(n + 1) = Len(stream')
  BY <1>9, <1>10, Zenon DEF EndOfRequest
<1> HIDE DEF After
<1>12. TypeOK'
  <2>1. arrived \in 0..Len(stream')
    <3>1. arrived \in 0..Len(stream)
      BY <1>1, Zenon DEF TypeOK
    <3> QED
      BY <1>5, <1>7, <3>1
  <2>2. /\ taken \in 0..arrived /\ need \in Nat \cup {-1}
        /\ eof \in BOOLEAN /\ open \in BOOLEAN
        /\ replies \in Seq(Seq(Byte))
        /\ \A i \in 1..Len(replies) : Len(replies[i]) = EndOf(replies[i], 0)
    BY <1>1, Zenon DEF TypeOK
  <2> QED
    BY <1>3, <1>6, <1>8, <1>9, <2>1, <2>2, Zenon DEF TypeOK
<1>13. Framing'
  <2>1. Len(stream') = After(Len(requests'))
    BY <1>8, <1>11, Zenon
  <2>2. ASSUME NEW i \in 1..(n + 1)
        PROVE  /\ Holds(stream', After(i - 1), PackString(Body(requests'[i])))
               /\ After(i) = After(i - 1) + 4 + Len(Body(requests'[i]))
    <3>1. CASE i = n + 1
      <4>1. requests'[i] = m
        BY <1>8, <3>1, Zenon
      <4>2. After(i) = Len(stream')
        BY <1>11, <3>1, Zenon
      <4>3. After(i - 1) = Len(stream)
        <5>1. EndOfRequest(n) = Len(stream) /\ i - 1 = n
          BY <1>1, <1>10, <3>1, Zenon DEF Framing, n
        <5> QED
          BY <1>10, <1>11, <5>1, Zenon
      <4> QED
        BY <1>6, <1>7, <4>1, <4>2, <4>3, Zenon DEF p, b
    <3>2. CASE i # n + 1
      <4>1. i \in 1..n /\ i - 1 \in 0..n /\ i \in 0..n
        BY <1>10, <3>2, Zenon
      <4>2. /\ Holds(stream, EndOfRequest(i - 1), PackString(Body(requests[i])))
            /\ EndOfRequest(i) = EndOfRequest(i - 1) + 4 + Len(Body(requests[i]))
        BY <1>1, <4>1, Zenon DEF Framing, n
      <4>3. /\ requests'[i] = requests[i]
            /\ After(i) = EndOfRequest(i) /\ After(i - 1) = EndOfRequest(i - 1)
        BY <1>8, <1>11, <4>1, Zenon
      <4> QED
        BY <1>6, <4>2, <4>3, Zenon
    <3> QED
      BY <3>1, <3>2, Zenon
  <2> QED
    BY <1>8, <2>1, <2>2, Zenon DEF Framing, EndOfRequest, After
<1>14. open => k <= n /\ k <= n + 1 /\ k \in 0..n /\ taken = (IF need = -1 THEN 0 ELSE 4) + EndOfRequest(k)
  <2>1. open => k <= n /\ taken = (IF need = -1 THEN 0 ELSE 4) + EndOfRequest(k)
    BY <1>1, Zenon DEF InStep, n, k
  <2>2. k <= n => k <= n + 1 /\ k \in 0..n
    BY <1>1
  <2> QED
    BY <2>1, <2>2, Zenon
<1>15. InStep'
  <2>1. open => After(k) = EndOfRequest(k)
    BY <1>11, <1>14, Zenon
  <2>2. Len(replies') = k
    BY <1>3, Zenon DEF k
  <2> QED
    BY <1>3, <1>8, <1>14, <2>1, <2>2, Zenon DEF InStep, EndOfRequest, After
<1>16. k < n => k < n + 1 /\ k + 1 \in 1..n
  BY <1>1
<1>17. Waiting'
  <2>1. open /\ need # -1 => k < n /\ need = Len(Body(requests[k + 1]))
    BY <1>1, Zenon DEF Waiting, n, k
  <2>2. open /\ need # -1 => k < n + 1 /\ need = Len(Body(requests'[k + 1]))
    BY <1>8, <1>16, <2>1, Zenon
  <2> QED
    BY <1>3, <1>8, <2>2, Zenon DEF Waiting, k
<1>18. Understood'
  <2>1. \A i \in 1..k : i <= n /\ Answers(requests[i], replies[i])
    BY <1>1, Zenon DEF Understood, n, k
  <2>2. \A i \in 1..k : i <= n => i <= n + 1 /\ i \in 1..n
    BY <1>1
  <2>3. \A i \in 1..k : i <= n + 1 /\ Answers(requests'[i], replies[i])
    BY <1>8, <2>1, <2>2, Zenon
  <2> QED
    BY <1>3, <1>8, <2>3, Zenon DEF Understood, Answers, ListsKeys, k
<1>19. ClosesForCause'
  <2>1. ~open => k < n /\ requests[k + 1].kind = "empty"
    BY <1>1, <1>3, Zenon DEF ClosesForCause, n, k
  <2>2. ~open => k < n + 1 /\ requests'[k + 1].kind = "empty"
    BY <1>8, <1>16, <2>1, Zenon
  <2> QED
    BY <1>3, <1>8, <2>2, Zenon DEF ClosesForCause, k
<1> QED
  BY <1>12, <1>13, <1>15, <1>17, <1>18, <1>19, Zenon DEF WireInv


LEMMA ArriveKeeps ==
  ASSUME WireInv, Arrive
  PROVE  WireInv'
<1>1. /\ TypeOK /\ Framing /\ InStep /\ Waiting /\ Understood /\ ClosesForCause
  BY Zenon DEF WireInv
<1>2. /\ requests' = requests /\ stream' = stream /\ ends' = ends
      /\ taken' = taken /\ need' = need /\ replies' = replies /\ eof' = eof /\ open' = open
      /\ arrived' \in (arrived + 1)..Len(stream)
  BY DEF Arrive, clientVars
<1>3. TypeOK'
  <2>1. /\ arrived \in 0..Len(stream) /\ taken \in 0..arrived /\ Len(stream) \in Nat
    BY <1>1, LenProperties, Zenon DEF TypeOK
  <2>2. arrived' \in 0..Len(stream) /\ taken \in 0..arrived'
    BY <1>2, <2>1
  <2> QED
    BY <1>1, <1>2, <2>2, Zenon DEF TypeOK
<1>4. Framing'
  BY <1>1, <1>2, Zenon DEF Framing, EndOfRequest
<1>5. InStep'
  BY <1>1, <1>2, Zenon DEF InStep, EndOfRequest
<1>6. Waiting' /\ ClosesForCause'
  BY <1>1, <1>2, Zenon DEF Waiting, ClosesForCause
<1>7. Understood'
  BY <1>1, <1>2, Zenon DEF Understood
<1> QED
  BY <1>3, <1>4, <1>5, <1>6, <1>7, Zenon DEF WireInv

LEMMA CloseKeeps ==
  ASSUME WireInv, ClientCloses
  PROVE  WireInv'
<1>1. /\ TypeOK /\ Framing /\ InStep /\ Waiting /\ Understood /\ ClosesForCause
  BY Zenon DEF WireInv
<1>2. /\ requests' = requests /\ stream' = stream /\ ends' = ends
      /\ arrived' = arrived /\ taken' = taken /\ need' = need
      /\ replies' = replies /\ eof' = TRUE /\ open' = open
  BY DEF ClientCloses, clientVars
<1>3. TypeOK'
  BY <1>1, <1>2, Zenon DEF TypeOK
<1>4. Framing'
  BY <1>1, <1>2, Zenon DEF Framing, EndOfRequest
<1>5. InStep'
  BY <1>1, <1>2, Zenon DEF InStep, EndOfRequest
<1>6. Waiting' /\ ClosesForCause'
  BY <1>1, <1>2, Zenon DEF Waiting, ClosesForCause
<1>7. Understood'
  BY <1>1, <1>2, Zenon DEF Understood
<1> QED
  BY <1>3, <1>4, <1>5, <1>6, <1>7, Zenon DEF WireInv

\* The request that the reader is at.
LEMMA NextRequest ==
  ASSUME WireInv, NEW k \in Nat, k = Len(replies), k < Len(requests)
  PROVE  /\ requests[k + 1] \in Messages
         /\ Holds(stream, EndOfRequest(k), PackString(Body(requests[k + 1])))
         /\ EndOfRequest(k + 1) = EndOfRequest(k) + 4 + Len(Body(requests[k + 1]))
         /\ EndOfRequest(k) \in Nat
         /\ Len(Body(requests[k + 1])) \in Nat /\ Len(Body(requests[k + 1])) \in Uint32
<1> DEFINE n == Len(requests)
<1>1. n \in Nat
  BY RequestIs, Zenon DEF WireInv
<1> HIDE DEF n
<1>2. k + 1 \in 1..n /\ k \in 0..n /\ (k + 1) - 1 = k
  BY <1>1 DEF n
<1>3. requests[k + 1] \in Messages /\ EndOfRequest(k) \in Nat
  BY <1>2, RequestIs, Zenon DEF WireInv, n
<1>4. /\ Holds(stream, EndOfRequest((k + 1) - 1), PackString(Body(requests[k + 1])))
      /\ EndOfRequest(k + 1) = EndOfRequest((k + 1) - 1) + 4 + Len(Body(requests[k + 1]))
  BY <1>2, Zenon DEF WireInv, Framing, n
<1> QED
  BY <1>2, <1>3, <1>4, BodyIs, Zenon

LEMMA ReadLengthKeeps ==
  ASSUME WireInv, ReadLength
  PROVE  WireInv'
<1>1. /\ TypeOK /\ Framing /\ InStep /\ Waiting /\ Understood /\ ClosesForCause
  BY Zenon DEF WireInv
<1>2. /\ requests' = requests /\ stream' = stream /\ ends' = ends
      /\ arrived' = arrived /\ replies' = replies /\ eof' = eof /\ open' = open
      /\ open /\ need = -1 /\ arrived - taken >= 4
      /\ need' = Uint32At(stream, taken) /\ taken' = taken + 4
  BY Zenon DEF ReadLength, clientVars
<1> DEFINE n == Len(requests)
           l == Len(stream)
           end == EndOfRequest(n)
<1>3. PICK k \in Nat : k = Len(replies)
  BY <1>1, RequestIs, Zenon
<1>4. n \in Nat /\ l \in Nat /\ arrived \in 0..l /\ taken \in 0..arrived /\ l = end
  BY <1>1, RequestIs, LenProperties, Zenon DEF TypeOK, Framing
<1> HIDE DEF n, l, end
<1>5. k <= n /\ taken = 0 + EndOfRequest(k)
  BY <1>1, <1>2, <1>3, Zenon DEF InStep, n
<1>6. taken = EndOfRequest(k) /\ taken \in Nat /\ taken + 4 \in Nat
      /\ taken + 4 \in 0..arrived /\ taken # l
  <2>1. taken \in Nat /\ taken + 4 \in Nat /\ taken + 4 \in 0..arrived /\ taken # l
    BY <1>2, <1>4
  <2>2. EndOfRequest(k) \in Nat
    <3>1. k \in 0..n
      BY <1>4, <1>5
    <3> QED
      BY <1>1, <3>1, RequestIs, Zenon DEF n
  <2>3. taken = EndOfRequest(k)
    BY <1>5, <2>2
  <2> QED
    BY <2>1, <2>3, Zenon
<1>7. k < n
  <2>1. k # n
    BY <1>4, <1>6, Zenon DEF end
  <2> QED
    BY <1>4, <1>5, <2>1
<1> DEFINE m == requests[k + 1]
           b == Len(Body(m))
<1>8. m \in Messages /\ b \in Nat /\ b \in Uint32 /\ Holds(stream, taken, PackString(Body(m)))
  BY <1>3, <1>6, <1>7, NextRequest, Zenon DEF n
<1>9. Uint32At(stream, taken) = b
  BY <1>8, BodyIs, HoldsString, Zenon
<1> HIDE DEF m, b
<1>10. need' = b /\ need' \in Nat /\ need' # -1
  <2>1. b # -1
    BY <1>8
  <2> QED
    BY <1>2, <1>8, <1>9, <2>1, Zenon
<1>11. TypeOK'
  <2>1. taken' \in 0..arrived' /\ need' \in Nat \cup {-1}
    BY <1>2, <1>6, <1>10, Zenon
  <2> QED
    BY <1>1, <1>2, <2>1, Zenon DEF TypeOK
<1>12. Framing'
  BY <1>1, <1>2, Zenon DEF Framing, EndOfRequest
<1>13. InStep'
  <2>1. taken' = 4 + EndOfRequest(k)
    BY <1>2, <1>6
  <2>2. k <= n /\ taken' = (IF need' = -1 THEN 0 ELSE 4) + EndOfRequest(k)
    BY <1>5, <1>10, <2>1, Zenon
  <2> QED
    BY <1>2, <1>3, <2>2, Zenon DEF InStep, EndOfRequest, n
<1>14. Waiting'
  BY <1>2, <1>3, <1>7, <1>10, Zenon DEF Waiting, n, m, b
<1>15. ClosesForCause' /\ Understood'
  BY <1>1, <1>2, Zenon DEF ClosesForCause, Understood
<1> QED
  BY <1>11, <1>12, <1>13, <1>14, <1>15, Zenon DEF WireInv

LEMMA ReadBodyKeeps ==
  ASSUME WireInv, ReadBody
  PROVE  WireInv'
<1> DEFINE body == SubSeq(stream, taken + 1, BodyEnd)
           reply == Answer(body[1], SubSeq(body, 2, Len(body)))
           n == Len(requests)
<1>1. /\ TypeOK /\ Framing /\ InStep /\ Waiting /\ Understood /\ ClosesForCause
  BY Zenon DEF WireInv
<1>2. /\ requests' = requests /\ stream' = stream /\ ends' = ends
      /\ arrived' = arrived /\ eof' = eof
      /\ open /\ need > 0 /\ arrived >= BodyEnd
      /\ taken' = BodyEnd /\ need' = -1
      /\ \/ replies' = Append(replies, reply) /\ open' = open
         \/ eof /\ open' = FALSE /\ replies' = replies
  BY Zenon DEF ReadBody, clientVars
<1>3. PICK k \in Nat : k = Len(replies)
  BY <1>1, RequestIs, Zenon
<1>4. /\ n \in Nat /\ need \in Nat \cup {-1} /\ arrived \in 0..Len(stream)
      /\ Len(stream) \in Nat /\ taken \in 0..arrived /\ replies \in Seq(Seq(Byte))
  BY <1>1, RequestIs, LenProperties, Zenon DEF TypeOK
<1>5. need # -1 /\ need # 0 /\ need \in Nat
  BY <1>2, <1>4
<1> DEFINE m == requests[k + 1]
           b == Body(m)
<1>6. k < n /\ need = Len(b) /\ taken = 4 + EndOfRequest(k)
  BY <1>1, <1>2, <1>3, <1>5, Zenon DEF Waiting, InStep
<1>7. /\ m \in Messages /\ EndOfRequest(k) \in Nat
      /\ Holds(stream, EndOfRequest(k), PackString(b))
      /\ EndOfRequest(k + 1) = EndOfRequest(k) + 4 + Len(b)
  BY <1>3, <1>6, NextRequest, Zenon
<1> HIDE DEF n
<1>8. b \in Seq(Byte) /\ Len(b) \in Uint32
  BY <1>7, BodyIs, Zenon
<1> HIDE DEF m, b
<1>9. /\ taken = EndOfRequest(k) + 4 /\ BodyEnd = taken + Len(b)
      /\ BodyEnd = EndOfRequest(k + 1) /\ BodyEnd \in 0..arrived
  <2>1. BodyEnd = taken + need /\ BodyEnd <= arrived
    <3>1. BodyEnd = taken + need
      BY Zenon DEF BodyEnd
    <3>2. taken + need \in Int /\ arrived \in Int
      BY <1>4, <1>5
    <3> HIDE DEF body, reply
    <3>3. arrived >= taken + need
      BY <1>2, <3>1, Zenon
    <3>4. taken + need <= arrived
      BY <3>2, <3>3
    <3> QED
      BY <3>1, <3>4, Zenon
  <2>2. taken = EndOfRequest(k) + 4
    BY <1>6, <1>7
  <2>3. EndOfRequest(k) + 4 + need = EndOfRequest(k + 1)
    BY <1>6, <1>7, Zenon
  <2>4. taken + need = EndOfRequest(k + 1)
    BY <2>2, <2>3, Zenon
  <2>5. taken + need \in 0..arrived
    <3>1. taken + need <= arrived
      BY <2>1, Zenon
    <3> QED
      BY <1>4, <1>5, <3>1
  <2> QED
    BY <1>6, <2>1, <2>2, <2>4, <2>5, Zenon
<1>10. body = b
  <2>1. Holds(stream, taken, b)
    BY <1>7, <1>8, <1>9, HoldsString, Zenon
  <2> QED
    BY <1>9, <2>1, HoldsValue, Zenon
<1>11. b # <<>>
  <2>1. Len(<<>>) = 0
    OBVIOUS
  <2> QED
    BY <1>5, <1>6, <2>1, Zenon
<1> DEFINE r == Answer(b[1], Payload(b))
<1>12. reply = r
  BY <1>10, Zenon DEF Payload
<1>13. r \in Seq(Byte) /\ Len(r) = EndOf(r, 0) /\ Answers(m, r)
  BY <1>7, <1>11, Answered, Zenon DEF Replies, b
<1> HIDE DEF body, reply, r
<1>14. /\ Append(replies, r) \in Seq(Seq(Byte)) /\ Len(Append(replies, r)) = k + 1
       /\ \A i \in 1..k : Append(replies, r)[i] = replies[i]
       /\ Append(replies, r)[k + 1] = r
  BY <1>3, <1>4, <1>13, AppendProperties
<1>15. taken' \in 0..arrived' /\ need' \in Nat \cup {-1}
  BY <1>2, <1>9
<1>16. Framing'
  BY <1>1, <1>2, Zenon DEF Framing, EndOfRequest
<1>17. Waiting'
  BY <1>2, Zenon DEF Waiting
<1>18. k + 1 <= n /\ \A i \in 1..(k + 1) : i # k + 1 => i \in 1..k
  BY <1>4, <1>6
<1>19. CASE replies' = Append(replies, reply) /\ open' = open
  <2>1. /\ replies' \in Seq(Seq(Byte)) /\ Len(replies') = k + 1
        /\ \A i \in 1..k : replies'[i] = replies[i]
        /\ replies'[k + 1] = r
    BY <1>12, <1>14, <1>19, Zenon
  <2>2. TypeOK'
    <3>1. \A i \in 1..k : Len(replies[i]) = EndOf(replies[i], 0)
      BY <1>1, <1>3, Zenon DEF TypeOK
    <3>2. \A i \in 1..(k + 1) : Len(replies'[i]) = EndOf(replies'[i], 0)
      BY <1>13, <1>18, <2>1, <3>1, Zenon
    <3>3. open' \in BOOLEAN
      BY <1>1, <1>19, Zenon DEF TypeOK
    <3> QED
      BY <1>1, <1>2, <1>15, <2>1, <3>2, <3>3, Zenon DEF TypeOK
  <2>3. InStep'
    <3>1. taken' = 0 + EndOfRequest(k + 1)
      <4>1. BodyEnd = 0 + BodyEnd
        BY <1>9
      <4> QED
        BY <1>2, <1>9, <4>1, Zenon
    <3>2. k + 1 <= n /\ taken' = (IF need' = -1 THEN 0 ELSE 4) + EndOfRequest(k + 1)
      BY <1>2, <1>18, <3>1, Zenon
    <3> QED
      BY <1>2, <2>1, <3>2, Zenon DEF InStep, EndOfRequest, n
  <2>4. Understood'
    <3>1. \A i \in 1..k : i <= n /\ Answers(requests[i], replies[i])
      BY <1>1, <1>3, Zenon DEF Understood, n
    <3>2. \A i \in 1..(k + 1) : i <= n /\ Answers(requests[i], replies'[i])
      BY <1>13, <1>18, <2>1, <3>1, Zenon DEF m
    <3> QED
      BY <1>2, <2>1, <3>2, Zenon DEF Understood, n
  <2>5. ClosesForCause'
    BY <1>2, <1>19, Zenon DEF ClosesForCause
  <2> QED
    BY <1>16, <1>17, <2>2, <2>3, <2>4, <2>5, Zenon DEF WireInv
<1>20. CASE eof /\ open' = FALSE /\ replies' = replies
  <2>1. TypeOK'
    BY <1>1, <1>2, <1>15, <1>20, Zenon DEF TypeOK
  <2>2. InStep' /\ ClosesForCause'
    BY <1>2, <1>20, Zenon DEF InStep, ClosesForCause
  <2>3. Understood'
    BY <1>1, <1>2, <1>20, Zenon DEF Understood
  <2> QED
    BY <1>16, <1>17, <2>1, <2>2, <2>3, Zenon DEF WireInv
<1> QED
  BY <1>2, <1>19, <1>20, Zenon

\* The handler ends, and nothing else changes.
LEMMA EndKeeps ==
  ASSUME WireInv, open' = FALSE,
         UNCHANGED <<clientVars, arrived, taken, need, replies, eof>>,
         eof \/ /\ Len(replies) < Len(requests)
                /\ requests[Len(replies) + 1].kind = "empty"
  PROVE  WireInv'
<1>1. /\ TypeOK /\ Framing /\ Understood
  BY Zenon DEF WireInv
<1>2. /\ requests' = requests /\ stream' = stream /\ ends' = ends
      /\ arrived' = arrived /\ taken' = taken /\ need' = need
      /\ replies' = replies /\ eof' = eof
  BY DEF clientVars
<1>3. TypeOK'
  BY <1>1, <1>2, Zenon DEF TypeOK
<1>4. Framing'
  BY <1>1, <1>2, Zenon DEF Framing, EndOfRequest
<1>5. InStep' /\ Waiting'
  BY Zenon DEF InStep, Waiting
<1>6. Understood'
  BY <1>1, <1>2, Zenon DEF Understood
<1>7. ClosesForCause'
  <2>1. CASE eof
    BY <1>2, <2>1, Zenon DEF ClosesForCause
  <2>2. CASE /\ Len(replies) < Len(requests)
             /\ requests[Len(replies) + 1].kind = "empty"
    BY <1>2, <2>2, Zenon DEF ClosesForCause
  <2> QED
    BY <2>1, <2>2, Zenon
<1> QED
  BY <1>3, <1>4, <1>5, <1>6, <1>7, Zenon DEF WireInv

LEMMA ReadNothingKeeps ==
  ASSUME WireInv, ReadNothing
  PROVE  WireInv'
<1>1. /\ open /\ need = 0 /\ open' = FALSE
      /\ UNCHANGED <<clientVars, arrived, taken, need, replies, eof>>
  BY Zenon DEF ReadNothing
<1>2. PICK k \in Nat : k = Len(replies)
  BY RequestIs, Zenon DEF WireInv
<1>3. need # -1
  BY <1>1
<1>4. k < Len(requests) /\ Len(Body(requests[k + 1])) = 0
  BY <1>1, <1>2, <1>3, Zenon DEF WireInv, Waiting
<1>5. requests[k + 1] \in Messages
  BY <1>2, <1>4, NextRequest, Zenon
<1>6. Body(requests[k + 1]) \in Seq(Byte)
  BY <1>5, BodyIs, Zenon
<1>7. Body(requests[k + 1]) = <<>>
  BY <1>4, <1>6, EmptySeq
<1>8. requests[k + 1].kind = "empty"
  BY <1>5, <1>7, BodyIs, Zenon
<1> QED
  BY <1>1, <1>2, <1>4, <1>8, EndKeeps, Zenon

LEMMA ReadFailsKeeps ==
  ASSUME WireInv, ReadFails
  PROVE  WireInv'
<1>1. /\ eof /\ open' = FALSE
      /\ UNCHANGED <<clientVars, arrived, taken, need, replies, eof>>
  BY Zenon DEF ReadFails
<1> QED
  BY <1>1, EndKeeps, Zenon

LEMMA StutterKeeps ==
  ASSUME WireInv, UNCHANGED wireVars
  PROVE  WireInv'
<1>1. /\ TypeOK /\ Framing /\ InStep /\ Waiting /\ Understood /\ ClosesForCause
  BY Zenon DEF WireInv
<1>2. /\ requests' = requests /\ stream' = stream /\ ends' = ends
      /\ arrived' = arrived /\ taken' = taken /\ need' = need
      /\ replies' = replies /\ eof' = eof /\ open' = open
  BY DEF wireVars, clientVars
<1>3. TypeOK'
  BY <1>1, <1>2, Zenon DEF TypeOK
<1>4. Framing'
  BY <1>1, <1>2, Zenon DEF Framing, EndOfRequest
<1>5. InStep'
  BY <1>1, <1>2, Zenon DEF InStep, EndOfRequest
<1>6. Waiting' /\ ClosesForCause'
  BY <1>1, <1>2, Zenon DEF Waiting, ClosesForCause
<1>7. Understood'
  BY <1>1, <1>2, Zenon DEF Understood
<1> QED
  BY <1>3, <1>4, <1>5, <1>6, <1>7, Zenon DEF WireInv

-----------------------------------------------------------------------------
(* Theorems *)

\* However the stream is cut, it is the frames of the requests, and the reader
\* stands between two of them or after a length, which is that of the next one.
THEOREM WireInvariant == Spec => []WireInv
<1>1. Init => WireInv
  BY Initially
<1>2. WireInv /\ [Next]_wireVars => WireInv'
  <2> SUFFICES ASSUME WireInv, [Next]_wireVars PROVE WireInv'
    OBVIOUS
  <2>1. CASE ClientSends
    BY <2>1, SendKeeps
  <2>2. CASE Arrive
    BY <2>2, ArriveKeeps
  <2>3. CASE ClientCloses
    BY <2>3, CloseKeeps
  <2>4. CASE ReadLength
    BY <2>4, ReadLengthKeeps
  <2>5. CASE ReadBody
    BY <2>5, ReadBodyKeeps
  <2>6. CASE ReadNothing
    BY <2>6, ReadNothingKeeps
  <2>7. CASE ReadFails
    BY <2>7, ReadFailsKeeps
  <2>8. CASE UNCHANGED wireVars
    BY <2>8, StutterKeeps
  <2> QED
    BY <2>1, <2>2, <2>3, <2>4, <2>5, <2>6, <2>7, <2>8 DEF Next, ServerStep
<1> QED
  BY <1>1, <1>2, PTL DEF Spec

\* Every reply of handle_client is one frame, of the length that it says: a client
\* can read on after it.
THEOREM RepliesAreFrames == Spec => []TypeOK
<1>1. WireInv => TypeOK
  BY Zenon DEF WireInv
<1> QED
  BY <1>1, WireInvariant, PTL

\* read_message loses and repeats no byte, whatever the chunks the bytes come in
\* and whatever the payloads that handle_client looked at.
THEOREM ReaderInStep == Spec => []InStep
<1>1. WireInv => InStep
  BY Zenon DEF WireInv
<1> QED
  BY <1>1, WireInvariant, PTL

\* For every registry, every request and every flag, the i-th reply is the one that
\* the protocol asks for in answer to the i-th request, as a client reads it.
THEOREM RepliesUnderstood == Spec => []Understood
<1>1. WireInv => Understood
  BY Zenon DEF WireInv
<1> QED
  BY <1>1, WireInvariant, PTL

\* No request but one of length zero ends the handler of a client that is there.
THEOREM HandlerClosesForCause == Spec => []ClosesForCause
<1>1. WireInv => ClosesForCause
  BY Zenon DEF WireInv
<1> QED
  BY <1>1, WireInvariant, PTL
=============================================================================
