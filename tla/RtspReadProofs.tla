--------------------------- MODULE RtspReadProofs ---------------------------
(***************************************************************************)
(* Proofs about RtspRead and PairCipher, for blocks, tags and bodies of    *)
(* any size and any number of requests: what is encrypted is decrypted,    *)
(* wherever the bytes are cut; a response is parsed whole and its rest is  *)
(* left to the next read; and with both what the callbacks of a connection *)
(* get is what the device answered.                                        *)
(***************************************************************************)
EXTENDS RtspRead, SequenceTheorems, WellFoundedInduction, TLAPS

LEMMA LeastOf == ASSUME NEW T, T \subseteq Nat, T # {} PROVE \E x \in T : \A y \in T : x <= y
<1>1. IsWellFoundedOn(OpToRel(<, Nat), Nat)
  BY NatLessThanWellFounded
<1>2. PICK x \in T : \A y \in T : ~(<<y, x>> \in OpToRel(<, Nat))
  <2>1. IsWellFoundedOn(OpToRel(<, Nat), T)
    BY <1>1, IsWellFoundedOnSubset
  <2>2. PICK x \in T : \A y \in T : ~(<<y, x>> \in OpToRel(<, Nat))
    BY <2>1, WFMin
  <2> QED BY <2>2
<1>3. \A y \in T : ~(y < x)
  BY <1>2 DEF OpToRel
<1> QED BY <1>3

LEMMA LeastIsMin ==
  ASSUME NEW S, S \subseteq Int, NEW x \in S, \A y \in S : x <= y
  PROVE Min(S) = x
<1>1. \A z \in S : (\A y \in S : z <= y) => z = x
  OBVIOUS
<1> QED BY <1>1 DEF Min

\* A part of a sequence.
LEMMA PartIs ==
  ASSUME NEW T, NEW s \in Seq(T), NEW b \in 0..Len(s), NEW a \in 0..b
  PROVE SubSeq(s, a + 1, b) = [i \in 1..(b - a) |-> s[a + i]]
<1> DEFINE u == SubSeq(s, a + 1, b)
<1>1. Len(s) \in Nat /\ a \in Nat /\ b \in Nat /\ a + 1 \in 1..(b + 1) /\ \A i \in (a + 1)..b : i \in 1..Len(s)
  BY LenProperties
<1>2. u \in Seq(T) /\ Len(u) = b - a
  BY <1>1, SubSeqProperties
<1>3. \A i \in 1..(b - a) : u[i] = s[a + i]
  BY <1>1
<1> HIDE DEF u
<1>4. u = [i \in 1..(b - a) |-> s[a + i]]
  BY <1>2, <1>3
<1> QED BY <1>4 DEF u
-----------------------------------------------------------------------------
(* Ciphering *)

Keys == {"CONTROL_READ", "CONTROL_WRITE", "EVENTS_READ", "EVENTS_WRITE"}

\* The bytes on the wire, of text of any kind.
Wire(D) == [key : Keys, counter : Nat, data : Seq(D), at : Nat]

\* The text in the first n blocks, and the bytes they take.
BlockEnd(data, n) == IF n = Blocks(data) THEN Len(data) ELSE n * EncryptedLenMax
Offset(data, n) == n * (LengthSize + AuthtagLength) + BlockEnd(data, n)

\* The bytes are those of the blocks, one after the other.
Ciphered(bytes, key, counter, data, D) ==
  /\ bytes \in Seq(Wire(D)) /\ Len(bytes) = Offset(data, Blocks(data))
  /\ \A n \in 1..Blocks(data) : \A j \in 1..(Offset(data, n) - Offset(data, n - 1)) :
       bytes[Offset(data, n - 1) + j] =
         [key |-> key, counter |-> counter + n - 1, data |-> Portion(data, n), at |-> j]

LEMMA BlockCount ==
  ASSUME NEW size \in Nat \ {0}
  PROVE LET b == 1 + ((size - 1) \div EncryptedLenMax) IN
        b \in Nat \ {0} /\ (b - 1) * EncryptedLenMax < size /\ size <= b * EncryptedLenMax
<1>1. EncryptedLenMax \in Nat \ {0}
  BY PairCipherAssumption
<1> DEFINE q == (size - 1) \div EncryptedLenMax
<1>2. q \in Nat /\ q * EncryptedLenMax <= size - 1 /\ size - 1 < (q + 1) * EncryptedLenMax
  BY <1>1, Z3
<1> HIDE DEF q
<1>3. 1 + q \in Nat \ {0} /\ (1 + q) - 1 = q /\ 1 + q = q + 1
  BY <1>2
<1>4. size - 1 < (1 + q) * EncryptedLenMax /\ ((1 + q) - 1) * EncryptedLenMax <= size - 1
  BY <1>2, <1>3
<1> DEFINE top == (1 + q) * EncryptedLenMax
           low == ((1 + q) - 1) * EncryptedLenMax
<1>5. top \in Int /\ low \in Int
  BY <1>1, <1>2, Z3
<1> HIDE DEF top, low
<1>6. low < size /\ size <= top
  BY <1>4, <1>5 DEF top, low
<1> QED BY <1>3, <1>6 DEF top, low, q

LEMMA BlocksGrow ==
  ASSUME NEW D, NEW data \in Seq(D)
  PROVE /\ Blocks(data) \in Nat
        /\ BlockEnd(data, 0) = 0 /\ Offset(data, 0) = 0
        /\ \A n \in 0..Blocks(data) : BlockEnd(data, n) \in 0..Len(data) /\ BlockEnd(data, n) >= n
        /\ \A n \in 1..Blocks(data) : BlockEnd(data, n - 1) < BlockEnd(data, n)
<1>1. EncryptedLenMax \in Nat \ {0} /\ LengthSize + AuthtagLength \in Nat /\ Len(data) \in Nat
  BY PairCipherAssumption, LenProperties DEF LengthSize
<1>2. CASE data = <<>>
  <2>1. Blocks(data) = 0 /\ Len(data) = 0
    BY <1>2 DEF Blocks
  <2>2. BlockEnd(data, 0) = 0 /\ Offset(data, 0) = 0
    BY <1>1, <2>1 DEF BlockEnd, Offset
  <2> QED BY <2>1, <2>2
<1>3. CASE data # <<>>
  <2> DEFINE b == Blocks(data)
             size == Len(data)
             m == EncryptedLenMax
  <2>1. size \in Nat \ {0}
    BY <1>1, <1>3, EmptySeq
  <2>2. b = 1 + ((size - 1) \div EncryptedLenMax)
    BY <1>3 DEF Blocks
  <2>3. b \in Nat \ {0} /\ (b - 1) * m < size /\ size <= b * m
    BY <2>1, <2>2, BlockCount
  <2> HIDE DEF b
  <2>4. ASSUME NEW n \in 0..(b - 1)
        PROVE n * m \in Nat /\ n * m <= (b - 1) * m /\ n * m >= n
    BY <1>1, <2>3, Z3
  <2>5. ASSUME NEW n \in 1..(b - 1) PROVE (n - 1) * m < n * m
    BY <1>1, <2>3, Z3
  <2>6. (b - 1) * m \in Nat /\ (b - 1) * m >= b - 1
    BY <1>1, <2>3, Z3
  <2>7. \A n \in 0..(b - 1) : BlockEnd(data, n) = n * m
    BY <2>3 DEF BlockEnd, b
  <2>8. BlockEnd(data, b) = size
    BY DEF BlockEnd, b
  <2> HIDE DEF m, size
  <2>9. \A n \in 0..b : BlockEnd(data, n) \in 0..size /\ BlockEnd(data, n) >= n
    <3> SUFFICES ASSUME NEW n \in 0..b PROVE BlockEnd(data, n) \in 0..size /\ BlockEnd(data, n) >= n
      OBVIOUS
    <3>1. CASE n = b
      BY <2>1, <2>3, <2>6, <2>8, <3>1
    <3>2. CASE n \in 0..(b - 1)
      <4> DEFINE x == n * m
                 y == (b - 1) * m
      <4>1. x \in Nat /\ y \in Nat /\ x <= y /\ y < size /\ x >= n /\ BlockEnd(data, n) = x
        BY <2>3, <2>4, <2>6, <2>7, <3>2
      <4> HIDE DEF x, y
      <4> QED BY <2>1, <4>1
    <3> QED BY <2>3, <3>1, <3>2
  <2>10. ASSUME NEW n \in 1..b PROVE BlockEnd(data, n - 1) < BlockEnd(data, n)
    <3>1. n - 1 \in 0..(b - 1)
      BY <2>3
    <3>2. CASE n = b
      BY <2>3, <2>7, <2>8, <3>1, <3>2
    <3>3. CASE n \in 1..(b - 1)
      <4>1. n \in 0..(b - 1)
        BY <3>3
      <4> QED BY <2>5, <2>7, <3>1, <3>3, <4>1
    <3> QED BY <2>3, <3>2, <3>3
  <2>11. BlockEnd(data, 0) = 0 /\ Offset(data, 0) = 0
    <3>1. 0 \in 0..(b - 1) /\ 0 * m = 0 /\ 0 * (LengthSize + AuthtagLength) = 0
      BY <1>1, <2>3 DEF m
    <3> QED BY <2>7, <3>1 DEF Offset
  <2> QED BY <2>3, <2>9, <2>10, <2>11 DEF b, size
<1> QED BY <1>2, <1>3

LEMMA PortionIs ==
  ASSUME NEW D, NEW data \in Seq(D), NEW n \in 1..Blocks(data)
  PROVE /\ Portion(data, n) = SubSeq(data, BlockEnd(data, n - 1) + 1, BlockEnd(data, n))
        /\ Portion(data, n) \in Seq(D)
        /\ Len(Portion(data, n)) = BlockEnd(data, n) - BlockEnd(data, n - 1)
        /\ Len(Portion(data, n)) \in Nat \ {0}
<1>1. Blocks(data) \in Nat /\ n - 1 \in 0..Blocks(data) /\ n - 1 # Blocks(data) /\ n \in 0..Blocks(data)
  BY BlocksGrow
<1> DEFINE a == BlockEnd(data, n - 1)
           b == BlockEnd(data, n)
<1>2. a \in 0..Len(data) /\ b \in 0..Len(data) /\ a < b
  BY <1>1, BlocksGrow
<1>3. Portion(data, n) = SubSeq(data, a + 1, b)
  BY <1>1 DEF Portion, BlockEnd
<1> HIDE DEF a, b
<1>4. /\ SubSeq(data, a + 1, b) \in Seq(D) /\ Len(SubSeq(data, a + 1, b)) = b - a
  <2>1. Len(data) \in Nat /\ \A i \in (a + 1)..b : i \in 1..Len(data)
    BY <1>2
  <2>2. a + 1 <= b + 1 /\ a + 1 \in Nat /\ b \in Nat
    BY <1>2
  <2> QED BY <1>2, <2>1, <2>2, SubSeqProperties
<1> QED BY <1>2, <1>3, <1>4 DEF a, b

LEMMA OffsetsGrow ==
  ASSUME NEW D, NEW data \in Seq(D)
  PROVE /\ \A n \in 0..Blocks(data) : /\ Offset(data, n) \in 0..Offset(data, Blocks(data))
                                       /\ Offset(data, n) >= n * (LengthSize + 1 + AuthtagLength)
        /\ \A n \in 1..Blocks(data) :
             Offset(data, n) = Offset(data, n - 1) + LengthSize + Len(Portion(data, n)) + AuthtagLength
<1> DEFINE c == LengthSize + AuthtagLength
           b == Blocks(data)
<1>1. c \in Nat /\ b \in Nat /\ Len(data) \in Nat /\ LengthSize \in Nat /\ AuthtagLength \in Nat
  BY PairCipherAssumption, BlocksGrow DEF LengthSize
<1>2. \A n \in 0..b : BlockEnd(data, n) \in 0..Len(data) /\ BlockEnd(data, n) >= n
  BY BlocksGrow
<1>3. BlockEnd(data, b) = Len(data)
  BY DEF BlockEnd
<1>4. \A n \in 0..b : Offset(data, n) = n * c + BlockEnd(data, n)
  BY DEF Offset
<1>5. LengthSize + 1 + AuthtagLength = c + 1
  BY <1>1
<1> HIDE DEF c, b
<1>6. ASSUME NEW n \in 0..b
      PROVE Offset(data, n) \in 0..Offset(data, b) /\ Offset(data, n) >= n * (c + 1)
  <2> DEFINE x == n * c
             y == b * c
  <2>1. x \in Nat /\ y \in Nat /\ x <= y /\ n * (c + 1) = x + n
    BY <1>1, Z3
  <2>2. Offset(data, n) = x + BlockEnd(data, n) /\ Offset(data, b) = y + Len(data)
    <3>1. b \in 0..b
      BY <1>1
    <3> QED BY <1>3, <1>4, <3>1
  <2> HIDE DEF x, y
  <2> QED BY <1>1, <1>2, <2>1, <2>2
<1>7. ASSUME NEW n \in 1..b
      PROVE Offset(data, n) = Offset(data, n - 1) + LengthSize + Len(Portion(data, n)) + AuthtagLength
  <2> DEFINE x == n * c
             y == (n - 1) * c
  <2>1. x \in Nat /\ y \in Nat /\ x = y + c
    BY <1>1, Z3
  <2>2. n - 1 \in 0..b /\ n \in 0..b
    BY <1>1
  <2>3. Offset(data, n) = x + BlockEnd(data, n) /\ Offset(data, n - 1) = y + BlockEnd(data, n - 1)
    BY <1>4, <2>2
  <2>4. Len(Portion(data, n)) = BlockEnd(data, n) - BlockEnd(data, n - 1)
    BY PortionIs DEF b
  <2>5. c = LengthSize + AuthtagLength
    BY DEF c
  <2> HIDE DEF x, y
  <2> QED BY <1>1, <1>2, <2>1, <2>2, <2>3, <2>4, <2>5
<1> QED BY <1>5, <1>6, <1>7 DEF b

\* One turn of the loop of encrypt.
BlockTurn(key, counter, data, n, before) == before \o Block(key, counter + n - 1, Portion(data, n))

LEMMA EncryptedTurns ==
  ASSUME NEW key, NEW counter, NEW data, Blocks(data) \in Nat
  PROVE \E f : /\ Encrypted(key, counter, data) = f[Blocks(data)] /\ f[0] = <<>>
               /\ \A n \in 1..Blocks(data) : f[n] = BlockTurn(key, counter, data, n, f[n - 1])
<1> DEFINE size == Blocks(data)
           Turned(h, n) == IF n = 0 THEN <<>> ELSE BlockTurn(key, counter, data, n, h[n - 1])
           Runs(h, n) == h = [k \in 0..n |-> Turned(h, k)]
           Stuck == {n \in 0..size : ~\E h : Runs(h, n)}
<1>1. Stuck = {}
  <2> SUFFICES ASSUME Stuck # {} PROVE FALSE
    OBVIOUS
  <2>1. PICK n \in Stuck : \A m \in Stuck : n <= m
    <3>1. Stuck \subseteq Nat /\ Stuck # {}
      OBVIOUS
    <3> HIDE DEF Stuck
    <3> QED BY <3>1, LeastOf
  <2>2. CASE n = 0
    <3> DEFINE h == [k \in 0..0 |-> <<>>]
    <3>1. Runs(h, 0)
      OBVIOUS
    <3> HIDE DEF Runs, h
    <3> QED BY <2>1, <2>2, <3>1
  <2>3. CASE n # 0
    <3>1. n \in 1..size /\ n - 1 \in 0..size /\ n - 1 \notin Stuck
      BY <2>1, <2>3
    <3>2. PICK b : Runs(b, n - 1)
      BY <3>1
    <3> DEFINE h == [k \in 0..n |-> IF k = n THEN BlockTurn(key, counter, data, n, b[n - 1]) ELSE b[k]]
    <3>3. ASSUME NEW k \in 0..n PROVE h[k] = Turned(h, k)
      <4>1. CASE k = n
        BY <3>1, <4>1
      <4>2. CASE k \in 0..(n - 1)
        <5>1. b[k] = Turned(b, k)
          BY <3>2, <4>2
        <5>2. h[k] = b[k] /\ (k # 0 => h[k - 1] = b[k - 1])
          BY <3>1, <4>2
        <5> QED BY <5>1, <5>2
      <4> QED BY <3>1, <4>1, <4>2
    <3>4. h = [k \in 0..n |-> h[k]]
      OBVIOUS
    <3> HIDE DEF h, Turned
    <3>5. h = [k \in 0..n |-> Turned(h, k)]
      BY <3>3, <3>4
    <3>6. Runs(h, n)
      BY <3>5
    <3> HIDE DEF Runs
    <3> QED BY <2>1, <3>6
  <2> QED BY <2>2, <2>3
<1> DEFINE f == CHOOSE h : Runs(h, size)
<1>2. Encrypted(key, counter, data) = f[size]
  BY DEF Encrypted, BlockTurn
<1>3. \E h : Runs(h, size)
  <2>1. size \in 0..size
    OBVIOUS
  <2> HIDE DEF Runs
  <2> QED BY <1>1, <2>1
<1>4. Runs(f, size)
  <2> HIDE DEF Runs
  <2> QED BY <1>3
<1> HIDE DEF f
<1>5. \A k \in 0..size : f[k] = Turned(f, k)
  <2> HIDE DEF Turned
  <2> QED BY <1>4
<1> QED BY <1>2, <1>5

LEMMA OffsetOrder ==
  ASSUME NEW D, NEW data \in Seq(D), NEW n \in 0..Blocks(data), NEW k \in 0..n
  PROVE Offset(data, k) \in 0..Offset(data, n) /\ BlockEnd(data, k) \in 0..BlockEnd(data, n)
<1> DEFINE o(i) == Offset(data, i)
           e(i) == BlockEnd(data, i)
           Wrong == {i \in 0..n : k <= i /\ ~(o(k) <= o(i) /\ e(k) <= e(i))}
<1>1. Blocks(data) \in Nat
  BY BlocksGrow
<1>2. ASSUME NEW i \in 0..Blocks(data) PROVE o(i) \in Nat /\ e(i) \in Nat
  BY <1>1, BlocksGrow, OffsetsGrow
<1>3. ASSUME NEW i \in 1..Blocks(data) PROVE o(i - 1) <= o(i) /\ e(i - 1) <= e(i)
  <2>1. Len(Portion(data, i)) \in Nat /\ i - 1 \in 0..Blocks(data) /\ i \in 0..Blocks(data)
    BY <1>1, PortionIs
  <2>2. o(i) = o(i - 1) + LengthSize + Len(Portion(data, i)) + AuthtagLength
    BY OffsetsGrow
  <2>3. e(i - 1) < e(i)
    BY BlocksGrow
  <2> HIDE DEF o, e
  <2> QED BY <1>2, <2>1, <2>2, <2>3, PairCipherAssumption DEF LengthSize
<1> HIDE DEF o, e
<1>4. Wrong = {}
  <2> SUFFICES ASSUME Wrong # {} PROVE FALSE
    OBVIOUS
  <2>1. PICK i \in Wrong : \A m \in Wrong : i <= m
    <3>1. Wrong \subseteq Nat
      BY <1>1
    <3> HIDE DEF Wrong
    <3> QED BY <3>1, LeastOf
  <2>2. k # i /\ i \in 1..Blocks(data) /\ i - 1 \in 0..n /\ i - 1 \in 0..Blocks(data) /\ k <= i - 1
        /\ i \in 0..Blocks(data) /\ k \in 0..Blocks(data)
    BY <1>1, <1>2, <2>1
  <2>3. i - 1 \notin Wrong
    BY <2>1, <2>2
  <2> QED BY <1>2, <1>3, <2>1, <2>2, <2>3
<1>5. o(k) <= o(n) /\ e(k) <= e(n)
  BY <1>1, <1>4
<1> QED BY <1>1, <1>2, <1>5 DEF o, e

LEMMA BlockBytes ==
  ASSUME NEW D, NEW key \in Keys, NEW c \in Nat, NEW d \in Seq(D)
  PROVE /\ Block(key, c, d) \in Seq(Wire(D)) /\ Len(Block(key, c, d)) = LengthSize + Len(d) + AuthtagLength
        /\ \A j \in 1..(LengthSize + Len(d) + AuthtagLength) :
             Block(key, c, d)[j] = [key |-> key, counter |-> c, data |-> d, at |-> j]
<1> DEFINE size == LengthSize + Len(d) + AuthtagLength
           byte(j) == [key |-> key, counter |-> c, data |-> d, at |-> j]
<1>1. size \in Nat
  BY PairCipherAssumption, LenProperties DEF LengthSize
<1>2. Block(key, c, d) = [j \in 1..size |-> byte(j)]
  BY DEF Block
<1>3. \A j \in 1..size : byte(j) \in Wire(D)
  BY DEF Wire
<1> HIDE DEF size, byte
<1>4. Block(key, c, d) \in Seq(Wire(D)) /\ Len(Block(key, c, d)) = size
  BY <1>1, <1>2, <1>3
<1>5. \A j \in 1..size : Block(key, c, d)[j] = byte(j)
  BY <1>2
<1> QED BY <1>4, <1>5 DEF size, byte

(* encrypt: the bytes are those of the blocks.                                             *)
LEMMA EncryptedIsCiphered ==
  ASSUME NEW D, NEW key \in Keys, NEW counter \in Nat, NEW data \in Seq(D)
  PROVE Ciphered(Encrypted(key, counter, data), key, counter, data, D)
<1> DEFINE b == Blocks(data)
           o(n) == Offset(data, n)
           byte(n, j) == [key |-> key, counter |-> counter + n - 1, data |-> Portion(data, n), at |-> j]
<1>1. b \in Nat
  BY BlocksGrow
<1>2. PICK f : /\ Encrypted(key, counter, data) = f[b] /\ f[0] = <<>>
               /\ \A n \in 1..b : f[n] = BlockTurn(key, counter, data, n, f[n - 1])
  <2>1. Blocks(data) \in Nat
    BY <1>1
  <2>2. \E f : /\ Encrypted(key, counter, data) = f[Blocks(data)] /\ f[0] = <<>>
               /\ \A n \in 1..Blocks(data) : f[n] = BlockTurn(key, counter, data, n, f[n - 1])
    BY <2>1, EncryptedTurns
  <2> QED BY <2>2
<1> DEFINE P(n) == /\ f[n] \in Seq(Wire(D)) /\ Len(f[n]) = o(n)
                   /\ \A k \in 1..n : \A j \in 1..(o(k) - o(k - 1)) : f[n][o(k - 1) + j] = byte(k, j)
           Wrong == {n \in 0..b : ~P(n)}
<1>3. P(0)
  BY <1>2, BlocksGrow
<1>4. ASSUME NEW n \in 1..b, P(n - 1) PROVE P(n)
  <2> DEFINE before == f[n - 1]
             block == Block(key, counter + n - 1, Portion(data, n))
             d == Portion(data, n)
             len == LengthSize + Len(d) + AuthtagLength
  <2>1. f[n] = before \o block
    BY <1>2 DEF BlockTurn
  <2>2. d \in Seq(D) /\ counter + n - 1 \in Nat /\ Len(d) \in Nat
    BY <1>1, PortionIs
  <2>3. block \in Seq(Wire(D)) /\ Len(block) = len /\ \A j \in 1..len : block[j] = byte(n, j)
    <3> DEFINE c == counter + n - 1
    <3>1. c \in Nat
      BY <2>2
    <3> HIDE DEF c, d
    <3>2. /\ Block(key, c, d) \in Seq(Wire(D)) /\ Len(Block(key, c, d)) = LengthSize + Len(d) + AuthtagLength
          /\ \A j \in 1..(LengthSize + Len(d) + AuthtagLength) :
               Block(key, c, d)[j] = [key |-> key, counter |-> c, data |-> d, at |-> j]
      BY <2>2, <3>1, BlockBytes
    <3> QED BY <3>2 DEF c, d
  <2>4. len \in Nat
    BY <2>2, PairCipherAssumption DEF LengthSize
  <2>6. o(n - 1) \in Nat /\ before \in Seq(Wire(D)) /\ Len(before) = o(n - 1)
    BY <1>1, <1>4, OffsetsGrow
  <2>5. o(n) = o(n - 1) + len
    <3>1. o(n) = o(n - 1) + LengthSize + Len(d) + AuthtagLength
      BY OffsetsGrow
    <3>2. LengthSize \in Nat /\ AuthtagLength \in Nat
      BY PairCipherAssumption DEF LengthSize
    <3> HIDE DEF o, d
    <3> QED BY <2>2, <2>6, <3>1, <3>2
  <2>7. \A k \in 1..(n - 1) : o(k) \in 0..o(n - 1) /\ o(k - 1) \in 0..o(n - 1)
    <3>1. n - 1 \in 0..Blocks(data)
      BY <1>1
    <3>2. \A k \in 0..(n - 1) : o(k) \in 0..o(n - 1)
      BY <3>1, OffsetOrder
    <3>3. \A k \in 1..(n - 1) : k \in 0..(n - 1) /\ k - 1 \in 0..(n - 1)
      OBVIOUS
    <3> QED BY <3>2, <3>3
  <2>8. \A k \in 1..(n - 1) : \A j \in 1..(o(k) - o(k - 1)) : before[o(k - 1) + j] = byte(k, j)
    BY <1>4
  <2> HIDE DEF before, block, d, len, o, byte
  <2>9. f[n] \in Seq(Wire(D)) /\ Len(f[n]) = o(n)
    BY <2>1, <2>3, <2>4, <2>5, <2>6, ConcatProperties
  <2>10. ASSUME NEW i \in 1..o(n - 1) PROVE f[n][i] = before[i]
    BY <2>1, <2>3, <2>6, <2>10
  <2>11. ASSUME NEW j \in 1..len PROVE f[n][o(n - 1) + j] = block[j]
    BY <2>1, <2>3, <2>4, <2>6, <2>11
  <2>12. ASSUME NEW k \in 1..(n - 1), NEW j \in 1..(o(k) - o(k - 1)) PROVE f[n][o(k - 1) + j] = byte(k, j)
    <3>1. o(k - 1) + j \in 1..o(n - 1)
      BY <2>6, <2>7
    <3> QED BY <2>8, <2>10, <3>1
  <2>13. ASSUME NEW j \in 1..(o(n) - o(n - 1)) PROVE f[n][o(n - 1) + j] = byte(n, j)
    <3>1. j \in 1..len
      BY <2>4, <2>5, <2>6
    <3> QED BY <2>3, <2>11, <3>1
  <2>14. \A k \in 1..n : k \in 1..(n - 1) \/ k = n
    OBVIOUS
  <2>15. \A k \in 1..n : \A j \in 1..(o(k) - o(k - 1)) : f[n][o(k - 1) + j] = byte(k, j)
    BY <2>12, <2>13, <2>14
  <2> QED BY <2>9, <2>15
<1> HIDE DEF P
<1>5. Wrong = {}
  <2> SUFFICES ASSUME Wrong # {} PROVE FALSE
    OBVIOUS
  <2>1. PICK n \in Wrong : \A m \in Wrong : n <= m
    <3>1. Wrong \subseteq Nat
      BY <1>1
    <3> HIDE DEF Wrong
    <3> QED BY <3>1, LeastOf
  <2>2. n \in 0..b /\ ~P(n)
    BY <2>1
  <2>3. n \in 1..b
    BY <1>1, <1>3, <2>2
  <2>4. n - 1 \in 0..b /\ n - 1 \notin Wrong
    BY <1>1, <2>1, <2>3
  <2> QED BY <1>4, <2>2, <2>3, <2>4
<1>6. P(b)
  BY <1>1, <1>5
<1> QED BY <1>2, <1>6 DEF P, Ciphered

(* decrypt *)

Most(bytes) == Len(bytes) \div (LengthSize + 1 + AuthtagLength)
Start(bytes, counter) == [ok |-> Len(bytes) >= LengthSize, data |-> <<>>, rest |-> bytes, counter |-> counter]

\* The loop of decrypt, turn by turn.
DecryptRuns(bytes, key, counter, f) ==
  /\ Decrypted(bytes, key, counter) = f[Most(bytes)] /\ f[0] = Start(bytes, counter)
  /\ \A n \in 1..Most(bytes) : f[n] = DecryptStep(f[n - 1], key)

LEMMA DecryptTurns ==
  ASSUME NEW bytes, NEW key, NEW counter, Most(bytes) \in Nat
  PROVE \E f : DecryptRuns(bytes, key, counter, f)
<1> DEFINE size == Most(bytes)
           Turned(h, n) == IF n = 0 THEN Start(bytes, counter) ELSE DecryptStep(h[n - 1], key)
           Runs(h, n) == h = [k \in 0..n |-> Turned(h, k)]
           Stuck == {n \in 0..size : ~\E h : Runs(h, n)}
<1>1. Stuck = {}
  <2> SUFFICES ASSUME Stuck # {} PROVE FALSE
    OBVIOUS
  <2>1. PICK n \in Stuck : \A m \in Stuck : n <= m
    <3>1. Stuck \subseteq Nat /\ Stuck # {}
      OBVIOUS
    <3> HIDE DEF Stuck
    <3> QED BY <3>1, LeastOf
  <2>2. CASE n = 0
    <3> DEFINE h == [k \in 0..0 |-> Start(bytes, counter)]
    <3>1. Runs(h, 0)
      OBVIOUS
    <3> HIDE DEF Runs, h
    <3> QED BY <2>1, <2>2, <3>1
  <2>3. CASE n # 0
    <3>1. n \in 1..size /\ n - 1 \in 0..size /\ n - 1 \notin Stuck
      BY <2>1, <2>3
    <3>2. PICK b : Runs(b, n - 1)
      BY <3>1
    <3> DEFINE h == [k \in 0..n |-> IF k = n THEN DecryptStep(b[n - 1], key) ELSE b[k]]
    <3>3. ASSUME NEW k \in 0..n PROVE h[k] = Turned(h, k)
      <4>1. CASE k = n
        BY <3>1, <4>1
      <4>2. CASE k \in 0..(n - 1)
        <5>1. b[k] = Turned(b, k)
          BY <3>2, <4>2
        <5>2. h[k] = b[k] /\ (k # 0 => h[k - 1] = b[k - 1])
          BY <3>1, <4>2
        <5> QED BY <5>1, <5>2
      <4> QED BY <3>1, <4>1, <4>2
    <3>4. h = [k \in 0..n |-> h[k]]
      OBVIOUS
    <3> HIDE DEF h, Turned
    <3>5. h = [k \in 0..n |-> Turned(h, k)]
      BY <3>3, <3>4
    <3>6. Runs(h, n)
      BY <3>5
    <3> HIDE DEF Runs
    <3> QED BY <2>1, <3>6
  <2> QED BY <2>2, <2>3
<1> DEFINE f == CHOOSE h : Runs(h, size)
<1>2. Decrypted(bytes, key, counter) = f[size]
  BY DEF Decrypted, Most, Start
<1>3. \E h : Runs(h, size)
  <2>1. size \in 0..size
    OBVIOUS
  <2> HIDE DEF Runs
  <2> QED BY <1>1, <2>1
<1>4. Runs(f, size)
  <2> HIDE DEF Runs
  <2> QED BY <1>3
<1> HIDE DEF f
<1>5. \A k \in 0..size : f[k] = Turned(f, k)
  <2> HIDE DEF Turned
  <2> QED BY <1>4
<1>6. DecryptRuns(bytes, key, counter, f)
  BY <1>2, <1>5 DEF DecryptRuns
<1> QED BY <1>6

\* What decrypt has after k blocks.
Deciphering(bytes, counter, data, k) ==
  [ok |-> TRUE, data |-> SubSeq(data, 1, BlockEnd(data, k)),
   rest |-> SubSeq(bytes, Offset(data, k) + 1, Len(bytes)), counter |-> counter + k]

\* Wherever a block starts, the bytes are its own as far as they came.
Came(bytes, key, counter, data) ==
  \A k \in 0..(Blocks(data) - 1) : \A j \in 1..(Offset(data, k + 1) - Offset(data, k)) :
    Offset(data, k) + j <= Len(bytes) =>
      SubSeq(bytes, Offset(data, k) + 1, Len(bytes))[j]
        = [key |-> key, counter |-> counter + k, data |-> Portion(data, k + 1), at |-> j]
LEMMA CameBytes ==
  ASSUME NEW D, NEW key \in Keys, NEW counter \in Nat, NEW data \in Seq(D),
         NEW bytes \in Seq(Wire(D)), NEW later \in Seq(Wire(D)),
         Ciphered(bytes \o later, key, counter, data, D)
  PROVE Came(bytes, key, counter, data)
<1> SUFFICES
      ASSUME NEW k \in 0..(Blocks(data) - 1), NEW j \in 1..(Offset(data, k + 1) - Offset(data, k)),
             Offset(data, k) + j <= Len(bytes)
      PROVE SubSeq(bytes, Offset(data, k) + 1, Len(bytes))[j]
              = [key |-> key, counter |-> counter + k, data |-> Portion(data, k + 1), at |-> j]
  BY DEF Came
<1> DEFINE o == Offset(data, k)
           p == Offset(data, k + 1)
           q == Len(bytes)
           rest == SubSeq(bytes, o + 1, q)
           all == bytes \o later
           byte == [key |-> key, counter |-> counter + k, data |-> Portion(data, k + 1), at |-> j]
<1>1. Blocks(data) \in Nat /\ k \in 0..Blocks(data) /\ k + 1 \in 1..Blocks(data) /\ (k + 1) - 1 = k
      /\ k + 1 \in 0..Blocks(data) /\ counter + (k + 1) - 1 = counter + k
  BY BlocksGrow
<1>2. o \in Nat /\ p \in Nat
  BY <1>1, OffsetsGrow
<1>3. all[o + j] = byte
  <2>1. \A n \in 1..Blocks(data) : \A i \in 1..(Offset(data, n) - Offset(data, n - 1)) :
          all[Offset(data, n - 1) + i] =
            [key |-> key, counter |-> counter + n - 1, data |-> Portion(data, n), at |-> i]
    BY DEF Ciphered
  <2>2. \A i \in 1..(Offset(data, k + 1) - Offset(data, (k + 1) - 1)) :
          all[Offset(data, (k + 1) - 1) + i] =
            [key |-> key, counter |-> counter + (k + 1) - 1, data |-> Portion(data, k + 1), at |-> i]
    BY <1>1, <2>1
  <2> QED BY <1>1, <2>2
<1> HIDE DEF byte
<1>4. o + j \in 1..q /\ q \in Nat
  BY <1>2, LenProperties
<1>5. all[o + j] = bytes[o + j]
  BY <1>4, ConcatProperties
<1> HIDE DEF o, p, q
<1>6. rest[j] = bytes[o + j]
  <2>1. j \in 1..(q - o) /\ o + 1 \in 1..(q + 1)
    BY <1>2, <1>4
  <2>2. \A i \in (o + 1)..q : i \in 1..Len(bytes)
    BY <1>2, <1>4 DEF q
  <2>3. rest = [i \in 1..(q - o) |-> bytes[o + i]]
    BY <1>2, <1>4, <2>1, <2>2
  <2> QED BY <2>1, <2>3
<1>7. rest[j] = byte
  BY <1>3, <1>5, <1>6
<1> QED BY <1>7 DEF byte, o, q
\* A turn of the loop of decrypt takes the next block, if all of it came, or nothing.
TurnsAt(bytes, key, counter, data, k) ==
  /\ k < Blocks(data) /\ Offset(data, k + 1) <= Len(bytes)
         => DecryptStep(Deciphering(bytes, counter, data, k), key)
              = Deciphering(bytes, counter, data, k + 1)
  /\ ~(k < Blocks(data) /\ Offset(data, k + 1) <= Len(bytes))
         => DecryptStep(Deciphering(bytes, counter, data, k), key)
              = Deciphering(bytes, counter, data, k)

LEMMA DecryptTurn ==
  ASSUME NEW D, NEW key \in Keys, NEW counter \in Nat, NEW data \in Seq(D),
         NEW bytes \in Seq(Wire(D)), NEW later \in Seq(Wire(D)),
         Ciphered(bytes \o later, key, counter, data, D),
         NEW k \in 0..Blocks(data), Offset(data, k) <= Len(bytes)
  PROVE TurnsAt(bytes, key, counter, data, k)
<1> DEFINE o == Offset(data, k)
           p == Offset(data, k + 1)
           q == Len(bytes)
           rest == SubSeq(bytes, o + 1, q)
           r == Deciphering(bytes, counter, data, k)
           len == Len(Portion(data, k + 1))
           byte(j) == [key |-> key, counter |-> counter + k, data |-> Portion(data, k + 1), at |-> j]
<1>1. Blocks(data) \in Nat /\ q \in Nat /\ o \in Nat /\ o <= q
  BY BlocksGrow, OffsetsGrow, LenProperties
<1>2. /\ rest \in Seq(Wire(D)) /\ Len(rest) = q - o
      /\ \A i \in 1..(q - o) : rest[i] = bytes[o + i]
  <2>1. o + 1 \in 1..(q + 1) /\ \A i \in (o + 1)..q : i \in 1..Len(bytes)
    BY <1>1
  <2> HIDE DEF o
  <2>2. rest \in Seq(Wire(D)) /\ Len(rest) = q - o
    BY <1>1, <2>1, SubSeqProperties
  <2>3. \A i \in 1..(q - o) : rest[i] = bytes[o + i]
    BY <1>1, <2>1
  <2> QED BY <2>2, <2>3
<1>3. r.ok = TRUE /\ r.rest = rest /\ r.data = SubSeq(data, 1, BlockEnd(data, k)) /\ r.counter = counter + k
  BY DEF Deciphering
<1>4. ASSUME k < Blocks(data)
      PROVE /\ k \in 0..(Blocks(data) - 1) /\ p = o + LengthSize + len + AuthtagLength /\ len \in Nat \ {0}
            /\ \A j \in 1..(LengthSize + len + AuthtagLength) : o + j <= q => rest[j] = byte(j)
  <2>1. k \in 0..(Blocks(data) - 1) /\ k + 1 \in 1..Blocks(data) /\ (k + 1) - 1 = k
    BY <1>1, <1>4
  <2>2. p = o + LengthSize + len + AuthtagLength
    BY <2>1, OffsetsGrow
  <2>3. len \in Nat \ {0}
    BY <2>1, PortionIs
  <2>4. ASSUME NEW j \in 1..(p - o), o + j <= q PROVE rest[j] = byte(j)
    <3>1. Came(bytes, key, counter, data)
      BY CameBytes
    <3> QED BY <2>1, <2>4, <3>1 DEF Came
  <2>5. p - o = LengthSize + len + AuthtagLength
    <3> HIDE DEF o, p, len
    <3> QED BY <1>1, <2>2, <2>3, PairCipherAssumption DEF LengthSize
  <2> HIDE DEF byte, rest, o, p, len, q
  <2> QED BY <2>1, <2>2, <2>3, <2>4, <2>5
<1>5. ASSUME k < Blocks(data), p <= q
      PROVE DecryptStep(r, key) = Deciphering(bytes, counter, data, k + 1)
  <2> DEFINE size == LengthSize + len + AuthtagLength
  <2>1. size \in Nat \ {0} /\ o + size <= q /\ p = o + size /\ size >= LengthSize
        /\ LengthSize \in Nat /\ AuthtagLength \in Nat
    <3>1. p = o + LengthSize + len + AuthtagLength /\ len \in Nat \ {0}
      BY <1>4, <1>5
    <3> HIDE DEF o, p, len, q
    <3> QED BY <1>1, <1>5, <3>1, PairCipherAssumption DEF LengthSize
  <2>2. \A j \in 1..size : rest[j] = byte(j)
    <3>1. \A j \in 1..size : o + j <= q
      <4> HIDE DEF size, o, q
      <4> QED BY <1>1, <2>1
    <3> HIDE DEF byte, rest, o, q
    <3> QED BY <1>4, <1>5, <3>1
  <2>3. rest[1] = byte(1) /\ rest[1].data = Portion(data, k + 1) /\ rest[1].key = key
        /\ rest[1].counter = counter + k /\ LengthAt(rest) = len
    <3>1. 1 \in 1..size
      <4> HIDE DEF size
      <4> QED BY <2>1
    <3>2. rest[1] = byte(1)
      <4> HIDE DEF size, rest, byte
      <4> QED BY <2>2, <3>1
    <3> HIDE DEF rest, size
    <3>3. rest[1].data = Portion(data, k + 1) /\ rest[1].key = key /\ rest[1].counter = counter + k
      BY <3>2
    <3> QED BY <3>2, <3>3 DEF LengthAt
  <2>4. Len(rest) >= size
    <3> HIDE DEF rest, size, o, q
    <3> QED BY <1>1, <1>2, <2>1
  <2>5. WholeBlock(rest)
    <3> HIDE DEF rest, len, o, q
    <3> QED BY <2>1, <2>3, <2>4 DEF WholeBlock
  <2>6. SubSeq(rest, 1, size) = Block(key, counter + k, Portion(data, k + 1))
    <3>1. Block(key, counter + k, Portion(data, k + 1)) = [j \in 1..size |-> byte(j)]
      BY DEF Block
    <3>2. Len(rest) \in Nat
      BY <1>2, LenProperties
    <3> HIDE DEF rest, size, o, q, byte
    <3>3. SubSeq(rest, 1, size) = [j \in 1..size |-> rest[j]]
      <4> DEFINE l == Len(rest)
      <4>1. size \in 0..Len(rest) /\ 0 \in 0..size /\ size - 0 = size /\ 0 + 1 = 1
        <5>1. l \in Nat /\ l >= size /\ size \in Nat
          BY <2>1, <2>4, <3>2 DEF rest, q
        <5> HIDE DEF l
        <5> QED BY <5>1 DEF l
      <4>2. SubSeq(rest, 0 + 1, size) = [j \in 1..(size - 0) |-> rest[0 + j]]
        BY <1>2, <4>1, PartIs
      <4>3. \A j \in 1..size : rest[0 + j] = rest[j]
        BY <2>1
      <4> QED BY <4>1, <4>2, <4>3
    <3> QED BY <2>2, <3>1, <3>3
  <2>7. Authentic(rest, key, counter + k) = TRUE
    <3> HIDE DEF rest, len
    <3> QED BY <2>3, <2>6 DEF Authentic
  <2>8. SubSeq(rest, size + 1, Len(rest)) = SubSeq(bytes, p + 1, q)
    <3> DEFINE t == q - p
    <3>1. t \in Nat /\ Len(rest) - size = t /\ Len(rest) \in Nat /\ p \in Nat
      <4> HIDE DEF rest, size, o, p, q
      <4> QED BY <1>1, <1>2, <1>5, <2>1
    <3>2. \A i \in 1..t : size + i \in 1..(q - o) /\ o + (size + i) = p + i /\ p + i \in 1..q
      <4> HIDE DEF size, o, p, q
      <4> QED BY <1>1, <1>5, <2>1, <3>1
    <3>3. SubSeq(rest, size + 1, Len(rest)) = [i \in 1..t |-> rest[size + i]]
      <4> DEFINE l == Len(rest)
      <4> HIDE DEF rest, size, o, p, q, t, l
      <4>1. l \in 0..Len(rest) /\ size \in 0..l /\ l - size = t
        <5>1. l \in Nat /\ l - size = t /\ t \in Nat
          BY <3>1 DEF l
        <5> QED BY <2>1, <5>1 DEF l
      <4>2. SubSeq(rest, size + 1, l) = [i \in 1..(l - size) |-> rest[size + i]]
        BY <1>2, <4>1, PartIs
      <4> QED BY <4>1, <4>2 DEF l
    <3>4. SubSeq(bytes, p + 1, q) = [i \in 1..t |-> bytes[p + i]]
      <4>1. q \in 0..Len(bytes) /\ p \in 0..q /\ q - p = t
        <5> HIDE DEF p, q, o
        <5> QED BY <1>1, <1>5, <3>1 DEF q
      <4> HIDE DEF p, q, t
      <4>2. SubSeq(bytes, p + 1, q) = [i \in 1..(q - p) |-> bytes[p + i]]
        BY <4>1, PartIs
      <4> QED BY <4>1, <4>2
    <3> HIDE DEF rest, size, o, p, q, t
    <3>5. ASSUME NEW i \in 1..t PROVE rest[size + i] = bytes[p + i]
      <4>1. size + i \in 1..(q - o) /\ o + (size + i) = p + i
        BY <3>2
      <4> QED BY <1>2, <4>1
    <3> QED BY <3>3, <3>4, <3>5
  <2>9. SubSeq(data, 1, BlockEnd(data, k)) \o Portion(data, k + 1) = SubSeq(data, 1, BlockEnd(data, k + 1))
    <3> DEFINE a == BlockEnd(data, k)
               b == BlockEnd(data, k + 1)
    <3>1. k + 1 \in 1..Blocks(data) /\ (k + 1) - 1 = k /\ k \in 0..Blocks(data) /\ k + 1 \in 0..Blocks(data)
      BY <1>1, <1>5
    <3>2. a \in 0..Len(data) /\ b \in 0..Len(data) /\ a < b
      BY <3>1, BlocksGrow
    <3>3. Portion(data, k + 1) = SubSeq(data, a + 1, b)
      BY <3>1, PortionIs
    <3> HIDE DEF a, b
    <3>4. SubSeq(data, 1, a) \o SubSeq(data, a + 1, b) = SubSeq(data, 1, b)
      BY <3>2, LenProperties
    <3> QED BY <3>3, <3>4 DEF a, b
  <2>10. (counter + k) + 1 = counter + (k + 1)
    BY <1>1
  <2> DEFINE next == [ok |-> TRUE, data |-> SubSeq(data, 1, BlockEnd(data, k)) \o Portion(data, k + 1),
                      rest |-> SubSeq(rest, size + 1, Len(rest)), counter |-> (counter + k) + 1]
  <2>11. DecryptStep(r, key) = next
    <3>1. r = [ok |-> TRUE, data |-> SubSeq(data, 1, BlockEnd(data, k)), rest |-> rest, counter |-> counter + k]
      BY DEF Deciphering
    <3>2. LengthSize + LengthAt(rest) + AuthtagLength + 1 = size + 1
      BY <2>3
    <3> HIDE DEF rest, size, r, len, byte
    <3> QED BY <2>3, <2>5, <2>7, <3>1, <3>2 DEF DecryptStep
  <2>12. next = Deciphering(bytes, counter, data, k + 1)
    <3> HIDE DEF rest, size
    <3> QED BY <2>8, <2>9, <2>10 DEF Deciphering
  <2> QED BY <2>11, <2>12
<1>6. ASSUME ~(k < Blocks(data) /\ p <= q)
      PROVE DecryptStep(r, key) = r
  <2>1. ~WholeBlock(rest)
    <3>1. CASE k = Blocks(data)
      <4>1. Len(bytes \o later) = o /\ Len(bytes \o later) = q + Len(later) /\ Len(later) \in Nat
        BY <3>1, ConcatProperties, LenProperties DEF Ciphered
      <4>2. Len(rest) = 0
        <5> HIDE DEF o, q, rest
        <5> QED BY <1>1, <1>2, <4>1
      <4> HIDE DEF rest
      <4> QED BY <4>2 DEF WholeBlock, LengthSize
    <3>2. CASE k < Blocks(data) /\ p > q
      <4>1. Len(rest) < LengthSize + len + AuthtagLength /\ len \in Nat
        <5>1. p = o + LengthSize + len + AuthtagLength /\ len \in Nat \ {0}
          BY <1>4, <3>2
        <5> HIDE DEF o, p, q, rest, len
        <5> QED BY <1>1, <1>2, <3>2, <5>1, PairCipherAssumption DEF LengthSize
      <4>2. CASE Len(rest) < LengthSize
        <5> HIDE DEF rest
        <5> QED BY <1>1, <1>2, <4>2 DEF WholeBlock, LengthSize
      <4>3. CASE Len(rest) >= LengthSize
        <5>1. 1 \in 1..(LengthSize + len + AuthtagLength) /\ o + 1 <= q
          <6> HIDE DEF rest, len, o, q
          <6> QED BY <1>1, <1>2, <4>1, <4>3, PairCipherAssumption DEF LengthSize
        <5>2. rest[1] = byte(1)
          <6> HIDE DEF rest, len, o, q, byte
          <6> QED BY <1>4, <3>2, <5>1
        <5>3. LengthAt(rest) = len
          <6> HIDE DEF rest
          <6>1. rest[1].data = Portion(data, k + 1)
            BY <5>2
          <6> QED BY <6>1 DEF LengthAt
        <5> HIDE DEF rest, len, o, q
        <5> QED BY <1>2, <4>1, <5>3, PairCipherAssumption DEF WholeBlock, LengthSize
      <4> QED BY <1>1, <1>2, <4>2, <4>3 DEF LengthSize
    <3>3. p \in Int
      <4>1. k < Blocks(data) => p = o + LengthSize + len + AuthtagLength /\ len \in Nat \ {0}
        BY <1>4
      <4>2. k < Blocks(data) => p \in Int
        <5> HIDE DEF o, p, len
        <5> QED BY <1>1, <4>1, PairCipherAssumption DEF LengthSize
      <4>3. k + 1 \in Nat
        OBVIOUS
      <4>4. k = Blocks(data) => p \in Int
        <5> DEFINE t == LengthSize + AuthtagLength
                   e == BlockEnd(data, k + 1)
        <5>1. t \in Int /\ EncryptedLenMax \in Int /\ Len(data) \in Int
          BY PairCipherAssumption, LenProperties DEF LengthSize
        <5>2. p = (k + 1) * t + e
          BY DEF Offset
        <5>3. e \in Int
          <6>1. (k + 1) * EncryptedLenMax \in Int
            BY <4>3, <5>1
          <6> QED BY <5>1, <6>1 DEF BlockEnd
        <5> HIDE DEF t, e, p
        <5>4. (k + 1) * t \in Int
          BY <4>3, <5>1
        <5> QED BY <5>2, <5>3, <5>4
      <4> QED BY <1>1, <4>2, <4>4
    <3> HIDE DEF p, q
    <3> QED BY <1>1, <1>6, <3>1, <3>2, <3>3
  <2> HIDE DEF r, rest
  <2> QED BY <1>3, <2>1 DEF DecryptStep
<1> QED BY <1>5, <1>6 DEF TurnsAt

\* The blocks that came whole.
LEMMA WholeBlocks ==
  ASSUME NEW D, NEW data \in Seq(D), NEW q \in Nat
  PROVE \E k \in 0..Blocks(data) : /\ \A n \in 0..k : Offset(data, n) <= q
                                   /\ k < Blocks(data) => Offset(data, k + 1) > q
<1> DEFINE o(n) == Offset(data, n)
           Ends == {n \in 0..Blocks(data) : n = Blocks(data) \/ o(n + 1) > q}
<1>1. Blocks(data) \in Nat /\ o(0) = 0
  BY BlocksGrow
<1>2. \A n \in 0..Blocks(data) : o(n) \in Nat
  BY <1>1, OffsetsGrow
<1>3. PICK k \in Ends : \A n \in Ends : k <= n
  <2>1. Blocks(data) \in Ends /\ Ends \subseteq Nat
    BY <1>1
  <2> HIDE DEF Ends
  <2> QED BY <2>1, LeastOf
<1> HIDE DEF o
<1>4. \A n \in 0..(k - 1) : o(n + 1) <= q
  <2> SUFFICES ASSUME NEW n \in 0..(k - 1) PROVE o(n + 1) <= q
    OBVIOUS
  <2>1. n \in 0..Blocks(data) /\ n # Blocks(data) /\ n + 1 \in 0..Blocks(data) /\ n < k
    BY <1>1, <1>3
  <2>2. n \notin Ends
    BY <1>3, <2>1
  <2> QED BY <1>2, <2>1, <2>2
<1>5. \A n \in 0..k : o(n) <= q
  <2> SUFFICES ASSUME NEW n \in 0..k PROVE o(n) <= q
    OBVIOUS
  <2>1. CASE n = 0
    BY <1>1, <2>1
  <2>2. CASE n # 0
    <3>1. n - 1 \in 0..(k - 1) /\ (n - 1) + 1 = n
      BY <1>1, <1>3, <2>2
    <3>2. o((n - 1) + 1) <= q
      BY <1>4, <3>1
    <3> QED BY <3>1, <3>2
  <2> QED BY <2>1, <2>2
<1> QED BY <1>1, <1>3, <1>5 DEF o

\* decrypt takes the blocks that came whole and leaves the rest.
Takes(bytes, key, counter, data, k) ==
  /\ Offset(data, k) <= Len(bytes)
  /\ k < Blocks(data) => Offset(data, k + 1) > Len(bytes)
  /\ Decrypted(bytes, key, counter) = Deciphering(bytes, counter, data, k)

LEMMA DecryptedBlocks ==
  ASSUME NEW D, NEW key \in Keys, NEW counter \in Nat, NEW data \in Seq(D),
         NEW bytes \in Seq(Wire(D)), NEW later \in Seq(Wire(D)),
         Ciphered(bytes \o later, key, counter, data, D), Len(bytes) >= LengthSize
  PROVE \E k \in 0..Blocks(data) : Takes(bytes, key, counter, data, k)
<1> DEFINE q == Len(bytes)
           c == LengthSize + 1 + AuthtagLength
           S(n) == Deciphering(bytes, counter, data, n)
<1>1. Blocks(data) \in Nat /\ q \in Nat /\ c \in Nat \ {0} /\ Most(bytes) = q \div c
  BY BlocksGrow, LenProperties, PairCipherAssumption DEF LengthSize, Most
<1>2. PICK k \in 0..Blocks(data) : /\ \A n \in 0..k : Offset(data, n) <= q
                                   /\ k < Blocks(data) => Offset(data, k + 1) > q
  BY <1>1, WholeBlocks
<1>3. Most(bytes) \in Nat /\ k <= Most(bytes)
  <2>1. Offset(data, k) >= k * c
    BY <1>2, OffsetsGrow
  <2>2. Offset(data, k) \in Nat /\ Offset(data, k) <= q
    BY <1>1, <1>2, OffsetsGrow
  <2> DEFINE o == Offset(data, k)
  <2> HIDE DEF o, c, q
  <2>3. o \in Nat /\ o <= q /\ o >= k * c
    BY <2>1, <2>2 DEF o, c
  <2>4. k * c \in Nat
    BY <1>1, Z3
  <2>5. k * c <= q
    BY <1>1, <2>3, <2>4
  <2> DEFINE d == q \div c
  <2>6. d \in Nat /\ q < (d + 1) * c
    BY <1>1, Z3
  <2> HIDE DEF d
  <2>7. k <= d
    <3> SUFFICES ASSUME k >= d + 1 PROVE FALSE
      BY <2>6
    <3> DEFINE x == k * c
               y == (d + 1) * c
    <3>1. x >= y /\ y \in Nat
      BY <1>1, <2>6, Z3
    <3>2. x \in Nat /\ x <= q /\ q < y
      BY <2>4, <2>5, <2>6
    <3> HIDE DEF x, y
    <3> QED BY <1>1, <3>1, <3>2
  <2>8. Most(bytes) = d
    BY <1>1 DEF d, q, c
  <2> QED BY <2>6, <2>7, <2>8
<1>4. PICK f : /\ Decrypted(bytes, key, counter) = f[Most(bytes)] /\ f[0] = Start(bytes, counter)
               /\ \A n \in 1..Most(bytes) : f[n] = DecryptStep(f[n - 1], key)
  <2>1. Most(bytes) \in Nat
    BY <1>3
  <2>2. \E f : DecryptRuns(bytes, key, counter, f)
    BY <2>1, DecryptTurns
  <2> QED BY <2>2 DEF DecryptRuns
<1>5. f[0] = S(0)
  <2>1. BlockEnd(data, 0) = 0 /\ Offset(data, 0) = 0
    BY BlocksGrow
  <2>2. SubSeq(bytes, 0 + 1, Len(bytes)) = bytes
    BY LenProperties
  <2>3. SubSeq(data, 1, 0) = <<>>
    BY EmptySeq
  <2>4. (Len(bytes) >= LengthSize) = TRUE
    OBVIOUS
  <2>5. counter + 0 = counter
    OBVIOUS
  <2> QED BY <1>4, <2>1, <2>2, <2>3, <2>4, <2>5 DEF Start, Deciphering
<1>6. ASSUME NEW n \in 0..k
      PROVE /\ n # k => DecryptStep(S(n), key) = S(n + 1)
            /\ n = k => DecryptStep(S(n), key) = S(n)
  <2>1. n \in 0..Blocks(data) /\ Offset(data, n) <= Len(bytes)
    BY <1>1, <1>2
  <2>2. TurnsAt(bytes, key, counter, data, n)
    BY <2>1, DecryptTurn
  <2>3. CASE n # k
    <3>1. n < Blocks(data) /\ n + 1 \in 0..k
      BY <1>1, <1>2, <2>3
    <3>2. Offset(data, n + 1) <= Len(bytes)
      BY <1>2, <3>1
    <3> QED BY <2>2, <2>3, <3>1, <3>2 DEF TurnsAt
  <2>4. CASE n = k
    <3>1. k < Blocks(data) => Offset(data, k + 1) \in Nat
      <4>1. k < Blocks(data) => k + 1 \in 0..Blocks(data)
        BY <1>1, <1>2
      <4> QED BY <1>1, <4>1, OffsetsGrow
    <3>2. ~(k < Blocks(data) /\ Offset(data, k + 1) <= Len(bytes))
      <4> DEFINE p == Offset(data, k + 1)
      <4> HIDE DEF p
      <4> QED BY <1>1, <1>2, <3>1 DEF p
    <3> QED BY <2>2, <2>4, <3>2 DEF TurnsAt
  <2> QED BY <2>3, <2>4
<1> DEFINE at(n) == IF n < k THEN n ELSE k
           Wrong == {n \in 0..Most(bytes) : f[n] # S(at(n))}
<1> HIDE DEF S, q, c
<1>7. Wrong = {}
  <2> SUFFICES ASSUME Wrong # {} PROVE FALSE
    OBVIOUS
  <2>1. PICK n \in Wrong : \A m \in Wrong : n <= m
    <3>1. Wrong \subseteq Nat
      BY <1>3
    <3> HIDE DEF Wrong
    <3> QED BY <3>1, LeastOf
  <2>2. n # 0
    <3>1. at(0) = 0
      BY <1>2
    <3> HIDE DEF at
    <3> QED BY <1>5, <2>1, <3>1
  <2>3. n \in 1..Most(bytes) /\ n - 1 \in 0..Most(bytes) /\ n - 1 \notin Wrong
    BY <1>3, <2>1, <2>2
  <2>4. f[n - 1] = S(at(n - 1))
    BY <2>3
  <2>5. f[n] = DecryptStep(S(at(n - 1)), key)
    <3> HIDE DEF at
    <3> QED BY <1>4, <2>3, <2>4
  <2>6. at(n - 1) \in 0..k /\ (at(n - 1) # k => at(n) = at(n - 1) + 1) /\ (at(n - 1) = k => at(n) = k)
    BY <1>2, <2>3
  <2>7. f[n] = S(at(n))
    <3> HIDE DEF at
    <3> QED BY <1>6, <2>5, <2>6
  <2> QED BY <2>1, <2>7
<1>8. Decrypted(bytes, key, counter) = S(k)
  <2>1. Most(bytes) \in 0..Most(bytes) /\ at(Most(bytes)) = k
    BY <1>2, <1>3
  <2>2. f[Most(bytes)] = S(at(Most(bytes)))
    <3> HIDE DEF at
    <3> QED BY <1>7, <2>1
  <2> HIDE DEF at
  <2> QED BY <1>4, <2>1, <2>2
<1>9. Offset(data, k) <= q
  BY <1>2
<1>10. Takes(bytes, key, counter, data, k)
  BY <1>2, <1>8, <1>9 DEF S, q, Takes
<1> QED BY <1>10
\* A sequence is what comes before a cut and after it.
IsCut(s, a, first, later, T) ==
  /\ first \in Seq(T) /\ Len(first) = a
  /\ later \in Seq(T) /\ Len(later) = Len(s) - a
  /\ \A i \in 1..a : first[i] = s[i]
  /\ \A i \in 1..(Len(s) - a) : later[i] = s[a + i]
  /\ first \o later = s

LEMMA Cut ==
  ASSUME NEW T, NEW s \in Seq(T), NEW a \in 0..Len(s)
  PROVE IsCut(s, a, SubSeq(s, 1, a), SubSeq(s, a + 1, Len(s)), T)
<1> DEFINE n == Len(s)
<1>1. n \in Nat /\ a \in 0..n /\ n = Len(s) /\ n \in 0..Len(s) /\ a <= n /\ Len(s) \in Nat
  BY LenProperties
<1> HIDE DEF n
<1>2. (\A i \in 1..a : i \in 1..Len(s)) /\ (\A i \in (a + 1)..n : i \in 1..Len(s))
  BY <1>1
<1>3. SubSeq(s, 1, a) \in Seq(T) /\ Len(SubSeq(s, 1, a)) = a
  BY <1>1, <1>2, SubSeqProperties
<1>4. SubSeq(s, a + 1, n) \in Seq(T) /\ Len(SubSeq(s, a + 1, n)) = n - a
  BY <1>1, <1>2, SubSeqProperties
<1>5. \A i \in 1..a : SubSeq(s, 1, a)[i] = s[i]
  BY <1>1, <1>2
<1>6. \A i \in 1..(n - a) : SubSeq(s, a + 1, n)[i] = s[a + i]
  BY <1>1, <1>2
<1> DEFINE u == SubSeq(s, 1, a)
           v == SubSeq(s, a + 1, n)
<1> HIDE DEF u, v
<1>7. u \o v = s
  <2> DEFINE w == u \o v
  <2>1. u \in Seq(T) /\ v \in Seq(T) /\ Len(u) = a /\ Len(v) = n - a
    BY <1>3, <1>4 DEF u, v
  <2>2. w \in Seq(T) /\ Len(w) = Len(u) + Len(v)
        /\ \A i \in 1..Len(u) + Len(v) : w[i] = IF i <= Len(u) THEN u[i] ELSE v[i - Len(u)]
    BY <2>1, ConcatProperties
  <2>3. (\A i \in 1..a : u[i] = s[i]) /\ \A i \in 1..(n - a) : v[i] = s[a + i]
    BY <1>5, <1>6 DEF u, v
  <2> HIDE DEF w
  <2>4. Len(w) = n
    BY <1>1, <2>1, <2>2
  <2>5. \A i \in 1..n : w[i] = s[i]
    <3> SUFFICES ASSUME NEW i \in 1..n PROVE w[i] = s[i]
      OBVIOUS
    <3>1. CASE i <= a
      BY <1>1, <2>1, <2>2, <2>3, <3>1
    <3>2. CASE i > a
      <4>1. i - a \in 1..(n - a) /\ a + (i - a) = i
        BY <1>1, <3>2
      <4> QED BY <1>1, <2>1, <2>2, <2>3, <3>2, <4>1
    <3> QED BY <1>1, <3>1, <3>2
  <2> QED BY <1>1, <2>2, <2>4, <2>5 DEF w
<1>8. IsCut(s, a, u, v, T)
  BY <1>1, <1>3, <1>4, <1>5, <1>6, <1>7 DEF IsCut, u, v
<1> QED BY <1>1, <1>8 DEF u, v

\* What follows the first k blocks.
Remaining(data, k) == SubSeq(data, BlockEnd(data, k) + 1, Len(data))

LEMMA RemainingText ==
  ASSUME NEW D, NEW data \in Seq(D), NEW k \in 0..Blocks(data)
  PROVE /\ Remaining(data, k) \in Seq(D) /\ Len(Remaining(data, k)) = Len(data) - BlockEnd(data, k)
        /\ \A i \in 1..(Len(data) - BlockEnd(data, k)) : Remaining(data, k)[i] = data[BlockEnd(data, k) + i]
        /\ SubSeq(data, 1, BlockEnd(data, k)) \o Remaining(data, k) = data
<1> DEFINE a == BlockEnd(data, k)
           rem == Remaining(data, k)
           n == Len(data)
<1>1. a \in 0..n /\ n \in Nat
  BY BlocksGrow, LenProperties
<1>2. rem = SubSeq(data, a + 1, n)
  BY DEF Remaining
<1> HIDE DEF a, rem
<1> DEFINE first == SubSeq(data, 1, a)
<1>3. IsCut(data, a, first, rem, D)
  BY <1>1, <1>2, Cut
<1> HIDE DEF first, n
<1>4. /\ rem \in Seq(D) /\ Len(rem) = Len(data) - a /\ first \o rem = data
      /\ \A i \in 1..(Len(data) - a) : rem[i] = data[a + i]
  BY <1>3 DEF IsCut
<1> QED BY <1>4 DEF a, rem, first
LEMMA RemainingBlocks ==
  ASSUME NEW D, NEW data \in Seq(D), NEW k \in 0..Blocks(data)
  PROVE /\ Blocks(Remaining(data, k)) = Blocks(data) - k
        /\ \A j \in 0..(Blocks(data) - k) :
             /\ BlockEnd(Remaining(data, k), j) = BlockEnd(data, k + j) - BlockEnd(data, k)
             /\ Offset(Remaining(data, k), j) = Offset(data, k + j) - Offset(data, k)
<1> DEFINE a == BlockEnd(data, k)
           rem == Remaining(data, k)
           n == Len(data)
           b == Blocks(data)
           m == EncryptedLenMax
           c == LengthSize + AuthtagLength
<1>1. a \in 0..n /\ n \in Nat /\ b \in Nat /\ m \in Nat \ {0} /\ c \in Nat /\ k \in Nat /\ b - k \in Nat
  BY BlocksGrow, LenProperties, PairCipherAssumption DEF LengthSize
<1>2. rem \in Seq(D) /\ Len(rem) = n - a
  BY RemainingText
<1>3. BlockEnd(data, b) = n
  BY DEF BlockEnd
<1>4. Blocks(rem) = b - k
  <2>1. CASE k = b
    <3>1. Len(rem) = 0
      BY <1>1, <1>2, <1>3, <2>1
    <3>2. rem = <<>>
      BY <1>2, <3>1, EmptySeq
    <3> QED BY <1>1, <2>1, <3>2 DEF Blocks
  <2>2. CASE k # b
    <3>1. k < b /\ a = k * m /\ b \in Nat \ {0}
      BY <1>1, <2>2 DEF BlockEnd
    <3>2. data # <<>>
      BY <3>1 DEF Blocks
    <3>3. n \in Nat \ {0}
      BY <1>1, <3>2, EmptySeq
    <3>4. b = 1 + ((n - 1) \div m)
      BY <3>2 DEF Blocks
    <3>5. (b - 1) * m < n /\ n <= b * m
      BY <3>3, <3>4, BlockCount
    <3>6. n - a \in Nat \ {0}
      <4>1. k * m <= (b - 1) * m /\ k * m \in Nat
        <5> HIDE DEF b
        <5> QED BY <1>1, <3>1, Z3
      <4> DEFINE x == k * m
                 y == (b - 1) * m
      <4>2. y \in Nat
        <5> HIDE DEF b
        <5> QED BY <1>1, <3>1, Z3
      <4>3. a = x /\ x \in Nat /\ x <= y /\ y < n
        BY <3>1, <3>5, <4>1
      <4> HIDE DEF a, n, x, y
      <4> QED BY <1>1, <4>2, <4>3
    <3>7. rem # <<>>
      BY <1>2, <3>6
    <3> DEFINE size == n - a
               r == 1 + ((size - 1) \div m)
    <3>8. Blocks(rem) = r
      BY <1>2, <3>7 DEF Blocks
    <3>9. r \in Nat \ {0} /\ (r - 1) * m < size /\ size <= r * m
      BY <3>6, BlockCount
    <3> HIDE DEF r, b, n, a, rem, m
    <3>10. r = b - k
      <4>1. (b - 1) * m < k * m + size /\ k * m + size <= b * m
        BY <1>1, <3>1, <3>5, <3>6, Z3
      <4> DEFINE e == b - k
      <4>2. e \in Nat \ {0} /\ (e - 1) * m < size /\ size <= e * m
        BY <1>1, <3>1, <3>6, <4>1, Z3
      <4> HIDE DEF e, size
      <4>3. size \in Nat
        BY <3>6 DEF size
      <4>4. (r - 1) * m < e * m /\ (e - 1) * m < r * m
        BY <1>1, <3>9, <4>2, <4>3, Z3
      <4>5. r - 1 < e /\ e - 1 < r
        BY <1>1, <3>9, <4>2, <4>4, Z3
      <4>6. r = e
        BY <3>9, <4>2, <4>5
      <4> QED BY <4>6 DEF e
    <3> QED BY <3>8, <3>10
  <2> QED BY <2>1, <2>2
<1>5. ASSUME NEW j \in 0..(b - k)
      PROVE /\ BlockEnd(rem, j) = BlockEnd(data, k + j) - a
            /\ Offset(rem, j) = Offset(data, k + j) - Offset(data, k)
  <2>1. BlockEnd(rem, j) = BlockEnd(data, k + j) - a
    <3>1. CASE j = b - k
      <4>1. k + j = b
        BY <1>1, <3>1
      <4>2. BlockEnd(rem, j) = Len(rem)
        BY <1>4, <3>1 DEF BlockEnd
      <4> HIDE DEF a, rem, b, n
      <4> QED BY <1>2, <1>3, <4>1, <4>2
    <3>2. CASE j # b - k
      <4>1. k + j # b /\ k # b
        BY <1>1, <3>2
      <4>2. BlockEnd(rem, j) = j * m
        BY <1>4, <3>2 DEF BlockEnd
      <4>3. BlockEnd(data, k + j) = (k + j) * m /\ a = k * m
        BY <4>1 DEF BlockEnd
      <4>4. j * m = (k + j) * m - k * m
        BY <1>1, Z3
      <4> HIDE DEF a, rem, m
      <4> QED BY <4>2, <4>3, <4>4
    <3> QED BY <3>1, <3>2
  <2>2. Offset(rem, j) = j * c + BlockEnd(rem, j) /\ Offset(data, k + j) = (k + j) * c + BlockEnd(data, k + j)
        /\ Offset(data, k) = k * c + a
    BY DEF Offset
  <2>3. BlockEnd(data, k + j) \in Nat
    BY <1>1, BlocksGrow
  <2> DEFINE e == BlockEnd(data, k + j)
             x == j * c
             y == (k + j) * c
             z == k * c
  <2>4. x \in Nat /\ y \in Nat /\ z \in Nat /\ x = y - z
    <3> HIDE DEF c
    <3> QED BY <1>1, Z3
  <2>5. Offset(rem, j) = x + (e - a) /\ Offset(data, k + j) = y + e /\ Offset(data, k) = z + a
    BY <2>1, <2>2
  <2>6. x + (e - a) = (y + e) - (z + a)
    <3> HIDE DEF e, x, y, z, a
    <3> QED BY <1>1, <2>3, <2>4 DEF e
  <2> HIDE DEF e, x, y, z, a, rem
  <2> QED BY <2>1, <2>5, <2>6 DEF e
<1> HIDE DEF c, n, m, rem
<1> QED BY <1>4, <1>5 DEF rem

\* The bytes after the first k blocks are those of what follows them, with the counter then.
LEMMA RestIsCiphered ==
  ASSUME NEW D, NEW key \in Keys, NEW counter \in Nat, NEW data \in Seq(D), NEW bytes,
         Ciphered(bytes, key, counter, data, D), NEW k \in 0..Blocks(data)
  PROVE Ciphered(SubSeq(bytes, Offset(data, k) + 1, Len(bytes)), key, counter + k, Remaining(data, k), D)
<1> DEFINE b == Blocks(data)
           o == Offset(data, k)
           q == Len(bytes)
           rem == Remaining(data, k)
           rest == SubSeq(bytes, o + 1, q)
<1>1. b \in Nat /\ o \in 0..q /\ q \in Nat /\ q = Offset(data, b) /\ bytes \in Seq(Wire(D)) /\ b \in 0..b
  BY BlocksGrow, OffsetsGrow DEF Ciphered
<1>2. /\ rest \in Seq(Wire(D)) /\ Len(rest) = q - o
      /\ \A i \in 1..(q - o) : rest[i] = bytes[o + i]
  <2> HIDE DEF o
  <2> QED BY <1>1, Cut DEF IsCut
<1>3. Blocks(rem) = b - k
  BY RemainingBlocks
<1>4. \A j \in 0..(b - k) : /\ BlockEnd(rem, j) = BlockEnd(data, k + j) - BlockEnd(data, k)
                            /\ Offset(rem, j) = Offset(data, k + j) - o
  BY RemainingBlocks
<1>5. Len(rest) = Offset(rem, Blocks(rem))
  <2>1. b - k \in 0..(b - k) /\ k + (b - k) = b
    BY <1>1
  <2> QED BY <1>1, <1>2, <1>3, <1>4, <2>1
<1>6. ASSUME NEW n \in 1..(b - k), NEW j \in 1..(Offset(rem, n) - Offset(rem, n - 1))
      PROVE rest[Offset(rem, n - 1) + j] =
              [key |-> key, counter |-> (counter + k) + n - 1, data |-> Portion(rem, n), at |-> j]
  <2>1. k + n \in 1..b /\ (k + n) - 1 = k + (n - 1) /\ n \in 0..(b - k) /\ n - 1 \in 0..(b - k)
        /\ k + (n - 1) \in 0..b /\ k + n \in 0..b
    BY <1>1
  <2> DEFINE p == Offset(data, k + n)
             l == Offset(data, k + (n - 1))
  <2>2. p \in 0..q /\ l \in 0..q /\ o \in 0..l
    <3>1. p \in 0..q /\ l \in 0..q
      BY <1>1, <2>1, OffsetsGrow
    <3>2. k \in 0..(k + (n - 1))
      OBVIOUS
    <3>3. o \in 0..l
      BY <2>1, <3>2, OffsetOrder
    <3> QED BY <3>1, <3>3
  <2>3. Offset(rem, n) = p - o /\ Offset(rem, n - 1) = l - o
    BY <1>4, <2>1
  <2> HIDE DEF o, p, l, rest, rem, b, q
  <2>4. j \in 1..(p - l) /\ Offset(rem, n - 1) + j \in 1..(q - o) /\ o + (Offset(rem, n - 1) + j) = l + j
    <3> DEFINE x == Offset(rem, n - 1)
               y == Offset(rem, n)
    <3>1. x = l - o /\ y = p - o /\ j \in 1..(y - x)
      BY <2>3
    <3> HIDE DEF x, y
    <3>2. j \in 1..(p - l) /\ x + j \in 1..(q - o) /\ o + (x + j) = l + j
      BY <1>1, <2>2, <3>1
    <3> QED BY <3>2 DEF x
  <2>5. rest[Offset(rem, n - 1) + j] = bytes[l + j]
    BY <1>2, <2>4
  <2>6. bytes[l + j] = [key |-> key, counter |-> counter + (k + n) - 1, data |-> Portion(data, k + n), at |-> j]
    <3>1. \A i \in 1..b : \A h \in 1..(Offset(data, i) - Offset(data, i - 1)) :
            bytes[Offset(data, i - 1) + h] =
              [key |-> key, counter |-> counter + i - 1, data |-> Portion(data, i), at |-> h]
      BY DEF Ciphered, b
    <3>2. \A h \in 1..(Offset(data, k + n) - Offset(data, (k + n) - 1)) :
            bytes[Offset(data, (k + n) - 1) + h] =
              [key |-> key, counter |-> counter + (k + n) - 1, data |-> Portion(data, k + n), at |-> h]
      BY <2>1, <3>1
    <3>3. Offset(data, (k + n) - 1) = l /\ Offset(data, k + n) = p
      BY <2>1 DEF l, p
    <3> QED BY <2>4, <3>2, <3>3
  <2>7. Portion(rem, n) = Portion(data, k + n)
    <3> DEFINE x == BlockEnd(data, k)
               y == BlockEnd(data, k + (n - 1))
               z == BlockEnd(data, k + n)
    <3>1. Portion(data, k + n) = SubSeq(data, y + 1, z)
      BY <2>1, PortionIs DEF b
    <3>2. Portion(rem, n) = SubSeq(rem, BlockEnd(rem, n - 1) + 1, BlockEnd(rem, n))
      <4>1. rem \in Seq(D) /\ n \in 1..Blocks(rem)
        BY <1>3, RemainingText DEF rem
      <4> QED BY <4>1, PortionIs
    <3>3. BlockEnd(rem, n - 1) = y - x /\ BlockEnd(rem, n) = z - x
      BY <1>4, <2>1
    <3>4. x \in 0..y /\ y \in 0..z /\ z \in 0..Len(data) /\ Len(data) \in Nat
      <4>1. z \in 0..Len(data)
        BY <2>1, BlocksGrow DEF b
      <4>2. k \in 0..(k + (n - 1)) /\ k + (n - 1) \in 0..(k + n)
        OBVIOUS
      <4>3. x \in 0..y /\ y \in 0..z
        BY <2>1, <4>2, OffsetOrder DEF b
      <4> QED BY <4>1, <4>3, LenProperties
    <3>5. /\ rem \in Seq(D) /\ Len(rem) = Len(data) - x
          /\ \A i \in 1..(Len(data) - x) : rem[i] = data[x + i]
      BY RemainingText DEF rem
    <3> HIDE DEF x, y, z
    <3>6. SubSeq(rem, (y - x) + 1, z - x) = [i \in 1..(z - y) |-> data[y + i]]
      <4> DEFINE s == y - x
                 t == z - x
      <4>1. s \in Nat /\ t \in Nat /\ s <= t /\ t <= Len(rem) /\ t - s = z - y
        BY <3>4, <3>5
      <4>2. \A i \in 1..(z - y) : s + i \in 1..(Len(data) - x) /\ x + (s + i) = y + i
        BY <3>4
      <4>3. \A i \in (s + 1)..t : i \in 1..Len(rem)
        BY <3>5, <4>1
      <4> HIDE DEF s, t
      <4>4. SubSeq(rem, s + 1, t) = [i \in 1..(t - s) |-> rem[s + i]]
        <5>1. rem \in Seq(D) /\ t \in 0..Len(rem) /\ s \in 0..t
          BY <3>5, <4>1
        <5> QED BY <5>1, PartIs
      <4>5. \A i \in 1..(z - y) : rem[s + i] = data[y + i]
        BY <3>5, <4>2 DEF s
      <4>6. [i \in 1..(t - s) |-> rem[s + i]] = [i \in 1..(z - y) |-> data[y + i]]
        BY <4>1, <4>5
      <4>7. SubSeq(rem, s + 1, t) = [i \in 1..(z - y) |-> data[y + i]]
        BY <4>4, <4>6
      <4> QED BY <4>7 DEF s, t
    <3>7. SubSeq(data, y + 1, z) = [i \in 1..(z - y) |-> data[y + i]]
      <4>1. \A i \in (y + 1)..z : i \in 1..Len(data)
        BY <3>4
      <4> QED BY <3>4, <4>1
    <3> QED BY <3>1, <3>2, <3>3, <3>6, <3>7
  <2>8. (counter + k) + n - 1 = counter + (k + n) - 1
    OBVIOUS
  <2> QED BY <2>5, <2>6, <2>7, <2>8
<1> HIDE DEF o, rest, rem, b, q
<1>7. \A n \in 1..Blocks(rem) : \A j \in 1..(Offset(rem, n) - Offset(rem, n - 1)) :
        rest[Offset(rem, n - 1) + j] =
          [key |-> key, counter |-> (counter + k) + n - 1, data |-> Portion(rem, n), at |-> j]
  BY <1>3, <1>6
<1>8. Ciphered(rest, key, counter + k, rem, D)
  BY <1>2, <1>5, <1>7 DEF Ciphered
<1> QED BY <1>8 DEF o, rest, rem, q

\* What is right of a result r of decrypt when later is still to come: it is the start of the
\* data, and the bytes it leaves with the ones to come are those of the other data.
DecryptedRight(r, key, counter, data, later, D) ==
  \E rem \in Seq(D) :
    /\ r.ok = TRUE /\ r.data \in Seq(D) /\ r.data \o rem = data
    /\ r.rest \in Seq(Wire(D)) /\ r.counter \in Nat
    /\ Ciphered(r.rest \o later, key, r.counter, rem, D)
    /\ r.counter + Blocks(rem) = counter + Blocks(data)
    /\ later = <<>> => rem = <<>> /\ r.rest = <<>>

LEMMA NothingCiphered ==
  ASSUME NEW D, NEW bytes, NEW key, NEW counter, Ciphered(bytes, key, counter, <<>>, D)
  PROVE bytes = <<>>
<1>1. <<>> \in Seq(D) /\ Blocks(<<>>) = 0
  BY DEF Blocks
<1>2. Offset(<<>>, 0) = 0
  BY <1>1, BlocksGrow
<1>3. bytes \in Seq(Wire(D)) /\ Len(bytes) = 0
  BY <1>1, <1>2 DEF Ciphered
<1> QED BY <1>3, EmptySeq

\* decrypt of what came of the bytes, and what of them is still to come.
LEMMA DecryptedPart ==
  ASSUME NEW D, NEW key \in Keys, NEW counter \in Nat, NEW data \in Seq(D),
         NEW bytes \in Seq(Wire(D)), NEW later \in Seq(Wire(D)),
         Ciphered(bytes \o later, key, counter, data, D), Len(bytes) >= LengthSize
  PROVE DecryptedRight(Decrypted(bytes, key, counter), key, counter, data, later, D)
<1> DEFINE r == Decrypted(bytes, key, counter)
           all == bytes \o later
           b == Blocks(data)
           q == Len(bytes)
<1>1. PICK k \in 0..b : /\ Offset(data, k) <= q /\ (k < b => Offset(data, k + 1) > q)
                        /\ r = Deciphering(bytes, counter, data, k)
  <2>1. \E k \in 0..Blocks(data) : Takes(bytes, key, counter, data, k)
    BY DecryptedBlocks
  <2> QED BY <2>1 DEF Takes
<1> DEFINE rem == Remaining(data, k)
           o == Offset(data, k)
           rest == SubSeq(bytes, o + 1, q)
<1>2. r.ok = TRUE /\ r.data = SubSeq(data, 1, BlockEnd(data, k)) /\ r.rest = rest /\ r.counter = counter + k
  <2> HIDE DEF r
  <2> QED BY <1>1 DEF Deciphering
<1>3. b \in Nat /\ q \in Nat /\ o \in 0..q /\ BlockEnd(data, k) \in 0..Len(data) /\ Len(data) \in Nat
  BY <1>1, BlocksGrow, OffsetsGrow, LenProperties
<1>4. rem \in Seq(D) /\ SubSeq(data, 1, BlockEnd(data, k)) \o rem = data /\ Len(rem) = Len(data) - BlockEnd(data, k)
  BY RemainingText
<1>5. SubSeq(data, 1, BlockEnd(data, k)) \in Seq(D)
  BY <1>3, Cut DEF IsCut
<1>6. rest \in Seq(Wire(D)) /\ Len(rest) = q - o
  BY <1>3, Cut DEF IsCut
<1>7. rest \o later = SubSeq(all, o + 1, Len(all))
  <2>1. SubSeq(bytes, o + 1, q) \o later = SubSeq(all, o + 1, Len(all))
    <3> DEFINE l == Len(later)
               s == q - o
    <3>1. l \in Nat /\ Len(all) = q + l /\ s \in Nat /\ (q + l) - o = s + l
      BY <1>3, LenProperties, ConcatProperties
    <3>2. rest \o later = [i \in 1..(s + l) |-> IF i <= s THEN bytes[o + i] ELSE later[i - s]]
      <4>1. \A i \in 1..s : rest[i] = bytes[o + i]
        <5>1. \A i \in (o + 1)..q : i \in 1..Len(bytes)
          BY <1>3
        <5> HIDE DEF o
        <5> QED BY <1>3, <5>1
      <4>2. rest \o later = [i \in 1..(Len(rest) + Len(later)) |-> IF i <= Len(rest) THEN rest[i] ELSE later[i - Len(rest)]]
        <5> HIDE DEF rest
        <5>1. rest \in Seq(Wire(D)) /\ later \in Seq(Wire(D))
          BY <1>6
        <5> DEFINE w == rest \o later
        <5>2. /\ w \in Seq(Wire(D)) /\ Len(w) = Len(rest) + Len(later)
              /\ \A i \in 1..Len(rest) + Len(later) :
                   w[i] = IF i <= Len(rest) THEN rest[i] ELSE later[i - Len(rest)]
          BY <5>1, ConcatProperties
        <5> HIDE DEF w
        <5>3. w = [i \in 1..(Len(rest) + Len(later)) |-> w[i]]
          BY <5>2
        <5> QED BY <5>2, <5>3 DEF w
      <4>3. Len(rest) = s /\ Len(later) = l
        BY <1>6
      <4> HIDE DEF rest, o, s, l, q
      <4> QED BY <3>1, <4>1, <4>2, <4>3
    <3>3. SubSeq(all, o + 1, Len(all)) = [i \in 1..(s + l) |-> all[o + i]]
      <4>1. all \in Seq(Wire(D)) /\ o + 1 \in 1..(Len(all) + 1) /\ Len(all) \in Nat
        BY <1>3, <3>1, ConcatProperties
      <4> HIDE DEF all, o, s, l, q
      <4> DEFINE e == Len(all)
      <4>2. e \in 0..Len(all) /\ o \in 0..e /\ e - o = s + l
        BY <1>3, <3>1, <4>1
      <4> HIDE DEF e
      <4>3. SubSeq(all, o + 1, e) = [i \in 1..(e - o) |-> all[o + i]]
        BY <4>1, <4>2, PartIs
      <4> QED BY <4>2, <4>3 DEF e
    <3>4. ASSUME NEW i \in 1..(s + l) PROVE all[o + i] = IF i <= s THEN bytes[o + i] ELSE later[i - s]
      <4>1. o + i \in 1..(q + l) /\ (i <= s <=> o + i <= q) /\ (o + i) - q = i - s
        <5> HIDE DEF o, s, l, q
        <5> QED BY <1>3, <3>1
      <4>2. all[o + i] = IF o + i <= q THEN bytes[o + i] ELSE later[(o + i) - q]
        <5> HIDE DEF o, s
        <5> QED BY <1>3, <3>1, <4>1, ConcatProperties
      <4> HIDE DEF all, o, s, l, q
      <4> QED BY <4>1, <4>2
    <3> HIDE DEF all, o, s, l, q, rest
    <3> QED BY <3>2, <3>3, <3>4 DEF rest, q
  <2> QED BY <2>1
<1>8. Ciphered(rest \o later, key, counter + k, rem, D)
  <2>1. Ciphered(SubSeq(all, o + 1, Len(all)), key, counter + k, rem, D)
    <3> HIDE DEF all
    <3>1. Ciphered(all, key, counter, data, D)
      BY DEF all
    <3> QED BY <3>1, RestIsCiphered
  <2> HIDE DEF all, rem, rest, o
  <2> QED BY <1>7, <2>1
<1>9. (counter + k) + Blocks(rem) = counter + b /\ counter + k \in Nat
  <2>1. Blocks(rem) = b - k
    BY RemainingBlocks
  <2> HIDE DEF rem, b
  <2> QED BY <1>1, <1>3, <2>1
<1>10. later = <<>> => rem = <<>> /\ rest = <<>>
  <2> SUFFICES ASSUME later = <<>> PROVE rem = <<>> /\ rest = <<>>
    OBVIOUS
  <2>1. q = Offset(data, b)
    <3>1. all = bytes
      BY ConcatProperties
    <3> QED BY <3>1 DEF Ciphered
  <2>2. k = b
    <3>1. CASE k < b
      <4>1. k + 1 \in 0..b
        BY <1>3, <3>1
      <4>2. Offset(data, k + 1) \in 0..Offset(data, b)
        BY <4>1, OffsetsGrow
      <4> HIDE DEF q, b
      <4> QED BY <1>1, <1>3, <2>1, <3>1, <4>2
    <3> QED BY <1>1, <1>3, <3>1
  <2>3. Len(rest) = 0
    BY <1>3, <1>6, <2>1, <2>2
  <2>4. Len(rem) = 0
    BY <1>3, <1>4, <2>2 DEF BlockEnd
  <2> HIDE DEF rem, rest
  <2> QED BY <1>4, <1>6, <2>3, <2>4, EmptySeq
<1> HIDE DEF r, rem, rest, b
<1> DEFINE d == SubSeq(data, 1, BlockEnd(data, k))
<1> HIDE DEF d
<1>11. r.data = d /\ d \in Seq(D) /\ d \o rem = data
  BY <1>2, <1>4, <1>5 DEF d
<1>12. DecryptedRight(r, key, counter, data, later, D)
  BY <1>2, <1>4, <1>6, <1>8, <1>9, <1>10, <1>11 DEF DecryptedRight, b
<1> QED BY <1>12 DEF r

(* pair_encrypt and pair_decrypt: wherever the bytes of the encrypted data are cut (but for a   *)
(* cut that leaves less than the length of a block), decrypt takes the start of the data from  *)
(* what came, and the bytes it leaves and the ones still to come are those of the rest of the  *)
(* data, with the counter it returns; when all came, it returns all the data and leaves none.  *)
THEOREM CipherRoundTrip ==
  ASSUME NEW D, NEW key \in Keys, NEW counter \in Nat, NEW data \in Seq(D),
         NEW q \in LengthSize..Len(Encrypted(key, counter, data))
  PROVE LET bytes == Encrypted(key, counter, data)
            r == Decrypted(SubSeq(bytes, 1, q), key, counter)
        IN /\ DecryptedRight(r, key, counter, data, SubSeq(bytes, q + 1, Len(bytes)), D)
           /\ q = Len(bytes) => r.data = data /\ r.rest = <<>> /\ r.counter = counter + Blocks(data)
<1> DEFINE bytes == Encrypted(key, counter, data)
           first == SubSeq(bytes, 1, q)
           later == SubSeq(bytes, q + 1, Len(bytes))
           r == Decrypted(first, key, counter)
<1>1. Ciphered(bytes, key, counter, data, D)
  BY EncryptedIsCiphered
<1> HIDE DEF bytes
<1>2. bytes \in Seq(Wire(D)) /\ Len(bytes) \in Nat /\ q \in LengthSize..Len(bytes) /\ q \in Nat
  BY <1>1, LenProperties DEF Ciphered, bytes, LengthSize
<1>3. first \in Seq(Wire(D)) /\ Len(first) = q
  BY <1>2, Cut DEF IsCut, LengthSize
<1>4. later \in Seq(Wire(D)) /\ (q = Len(bytes) => later = <<>>)
  <2>2. later \in Seq(Wire(D)) /\ Len(later) = Len(bytes) - q
    BY <1>2, Cut DEF IsCut, LengthSize
  <2> HIDE DEF later
  <2> QED BY <1>2, <2>2, EmptySeq
<1>5. first \o later = bytes
  <2>1. q \in 0..Len(bytes)
    BY <1>2 DEF LengthSize
  <2>2. SubSeq(bytes, 1, q) \o SubSeq(bytes, q + 1, Len(bytes)) = bytes
    BY <1>2, <2>1, Cut DEF IsCut
  <2> QED BY <2>2
<1> HIDE DEF first, later
<1>6. DecryptedRight(r, key, counter, data, later, D)
  <2>1. Ciphered(first \o later, key, counter, data, D) /\ Len(first) >= LengthSize
    BY <1>1, <1>2, <1>3, <1>5
  <2> QED BY <1>3, <1>4, <2>1, DecryptedPart
<1> HIDE DEF r
<1>7. ASSUME q = Len(bytes)
      PROVE r.data = data /\ r.rest = <<>> /\ r.counter = counter + Blocks(data)
  <2>1. later = <<>>
    BY <1>4, <1>7
  <2>2. PICK rem \in Seq(D) : /\ r.data \in Seq(D) /\ r.data \o rem = data /\ r.counter \in Nat
                              /\ r.counter + Blocks(rem) = counter + Blocks(data)
                              /\ rem = <<>> /\ r.rest = <<>>
    BY <1>6, <2>1 DEF DecryptedRight
  <2>3. Blocks(rem) = 0
    BY <2>2 DEF Blocks
  <2>4. r.data \o <<>> = r.data
    BY <2>2, ConcatProperties
  <2>5. r.counter + 0 = r.counter
    BY <2>2
  <2> QED BY <2>2, <2>3, <2>4, <2>5
<1> QED BY <1>6, <1>7 DEF bytes, first, later, r
-----------------------------------------------------------------------------
(* Texts: requests and responses are a line, headers, an empty line and a body *)

Texts == [kind : {"method", "status", "cr", "lf", "length", "header", "body"}, value : Nat]
Headers == [kind : {"length", "header"}, value : Nat]

Message(first, headers, body) == <<first, CR, LF>> \o HeaderLines(headers) \o <<CR, LF>> \o body

\* A text with the structure of a message.
IsMessage(m, first, headers, body) ==
  LET end == 3 * (Len(headers) + 1) IN
  /\ m \in Seq(Texts) /\ Len(m) = end + 2 + Len(body)
  /\ m[1] = first /\ m[2] = CR /\ m[3] = LF
  /\ \A k \in 1..Len(headers) : m[3 * k + 1] = headers[k] /\ m[3 * k + 2] = CR /\ m[3 * k + 3] = LF
  /\ m[end + 1] = CR /\ m[end + 2] = LF
  /\ \A i \in 1..Len(body) : m[end + 2 + i] = body[i]

LEMMA EolTexts == CR \in Texts /\ LF \in Texts /\ CR # LF /\ \A h \in Headers : h \in Texts /\ h # CR /\ h # LF
<1>1. CR = [kind |-> "cr", value |-> 0] /\ LF = [kind |-> "lf", value |-> 0]
  BY DEF CR, LF, Text
<1>2. CR \in Texts /\ LF \in Texts
  BY <1>1 DEF Texts
<1>3. CR.kind = "cr" /\ LF.kind = "lf"
  BY <1>1
<1>4. \A h \in Headers : h \in Texts /\ h.kind # "cr" /\ h.kind # "lf"
  BY DEF Headers, Texts
<1> QED BY <1>2, <1>3, <1>4

LEMMA OneHeaderLine == ASSUME NEW a PROVE HeaderLines(<<a>>) = <<a, CR, LF>>
<1> DEFINE s == [i \in DOMAIN <<a>> |-> <<(<<a>>)[i], CR, LF>>]
           Runs(h) == h = [i \in 1..1 |-> IF i = 1 THEN s[i] ELSE h[i - 1] \o s[i]]
           f == CHOOSE h : Runs(h)
<1>1. s = [i \in 1..1 |-> <<a, CR, LF>>]
  OBVIOUS
<1>2. Len(s) = 1
  BY <1>1
<1>3. HeaderLines(<<a>>) = f[1]
  BY <1>2 DEF HeaderLines, FlattenSeq
<1>4. \E h : Runs(h)
  <2> DEFINE h == [i \in 1..1 |-> s[i]]
  <2>1. Runs(h)
    BY <1>1
  <2> QED BY <2>1
<1>5. Runs(f)
  <2> HIDE DEF Runs
  <2> QED BY <1>4
<1> HIDE DEF f
<1> QED BY <1>1, <1>3, <1>5

LEMMA TwoHeaderLines == ASSUME NEW a, NEW b PROVE HeaderLines(<<a, b>>) = <<a, CR, LF, b, CR, LF>>
<1> DEFINE s == [i \in DOMAIN <<a, b>> |-> <<(<<a, b>>)[i], CR, LF>>]
           Runs(h) == h = [i \in 1..2 |-> IF i = 1 THEN s[i] ELSE h[i - 1] \o s[i]]
           f == CHOOSE h : Runs(h)
<1>1. Len(s) = 2 /\ s[1] = <<a, CR, LF>> /\ s[2] = <<b, CR, LF>>
  OBVIOUS
<1>2. HeaderLines(<<a, b>>) = f[2]
  BY <1>1 DEF HeaderLines, FlattenSeq
<1>3. \E h : Runs(h)
  <2> DEFINE h == [i \in 1..2 |-> IF i = 1 THEN s[1] ELSE s[1] \o s[2]]
  <2> HIDE DEF s
  <2>1. Runs(h)
    OBVIOUS
  <2> QED BY <2>1
<1>4. Runs(f)
  <2> HIDE DEF Runs
  <2> QED BY <1>3
<1> HIDE DEF f, s
<1>5. f[1] = s[1] /\ f[2] = f[1] \o s[2]
  <2>1. \A i \in 1..2 : f[i] = IF i = 1 THEN s[i] ELSE f[i - 1] \o s[i]
    BY <1>4
  <2>2. 1 \in 1..2 /\ 2 \in 1..2 /\ 2 # 1 /\ 2 - 1 = 1
    OBVIOUS
  <2>3. f[2] = f[2 - 1] \o s[2]
    BY <2>1, <2>2
  <2> QED BY <2>1, <2>2, <2>3
<1>6. <<a, CR, LF>> \o <<b, CR, LF>> = <<a, CR, LF, b, CR, LF>>
  <2> DEFINE T == {a, b, CR, LF}
             u == <<a, CR, LF>>
             v == <<b, CR, LF>>
             w == u \o v
             x == <<a, CR, LF, b, CR, LF>>
  <2>1. u \in Seq(T) /\ v \in Seq(T) /\ Len(u) = 3 /\ Len(v) = 3
    OBVIOUS
  <2>2. x \in Seq(T) /\ Len(x) = 6
    OBVIOUS
  <2>3. u[1] = a /\ u[2] = CR /\ u[3] = LF /\ v[1] = b /\ v[2] = CR /\ v[3] = LF
    OBVIOUS
  <2>4. x[1] = a /\ x[2] = CR /\ x[3] = LF /\ x[4] = b /\ x[5] = CR /\ x[6] = LF
    OBVIOUS
  <2> HIDE DEF u, v, x, T
  <2>5. w \in Seq(T) /\ Len(w) = 6 /\ \A i \in 1..6 : w[i] = IF i <= 3 THEN u[i] ELSE v[i - 3]
    <3>1. w \in Seq(T) /\ Len(w) = Len(u) + Len(v)
          /\ \A i \in 1..Len(u) + Len(v) : w[i] = IF i <= Len(u) THEN u[i] ELSE v[i - Len(u)]
      BY <2>1, ConcatProperties
    <3>2. Len(u) + Len(v) = 6
      BY <2>1
    <3> HIDE DEF w
    <3> QED BY <2>1, <3>1, <3>2
  <2> HIDE DEF w
  <2>6. \A i \in 1..6 : w[i] = x[i]
    <3> SUFFICES ASSUME NEW i \in 1..6 PROVE w[i] = x[i]
      OBVIOUS
    <3>1. i = 1 \/ i = 2 \/ i = 3 \/ i = 4 \/ i = 5 \/ i = 6
      OBVIOUS
    <3>2. CASE i <= 3
      <4>1. i = 1 \/ i = 2 \/ i = 3
        BY <3>2
      <4>2. w[i] = u[i]
        BY <2>5, <3>2
      <4> QED BY <2>3, <2>4, <4>1, <4>2
    <3>3. CASE ~(i <= 3)
      <4>1. (i = 4 /\ i - 3 = 1) \/ (i = 5 /\ i - 3 = 2) \/ (i = 6 /\ i - 3 = 3)
        BY <3>1, <3>3
      <4>2. w[i] = v[i - 3]
        BY <2>5, <3>3
      <4> QED BY <2>3, <2>4, <4>1, <4>2
    <3> QED BY <3>2, <3>3
  <2>7. w = x
    BY <2>2, <2>5, <2>6
  <2> QED BY <2>7 DEF w, x, u, v
<1> QED BY <1>1, <1>2, <1>5, <1>6

\* The sequence w is s and then t.
IsJoin(w, s, t, T) ==
  /\ w \in Seq(T) /\ Len(w) = Len(s) + Len(t)
  /\ \A i \in 1..Len(s) : w[i] = s[i]
  /\ \A i \in 1..Len(t) : w[Len(s) + i] = t[i]

LEMMA Joined == ASSUME NEW T, NEW s \in Seq(T), NEW t \in Seq(T) PROVE IsJoin(s \o t, s, t, T)
<1> DEFINE w == s \o t
<1>1. Len(s) \in Nat /\ Len(t) \in Nat
  BY LenProperties
<1>2. w \in Seq(T) /\ Len(w) = Len(s) + Len(t)
      /\ \A i \in 1..Len(s) + Len(t) : w[i] = IF i <= Len(s) THEN s[i] ELSE t[i - Len(s)]
  BY ConcatProperties
<1> HIDE DEF w
<1>3. \A i \in 1..Len(s) : w[i] = s[i]
  BY <1>1, <1>2
<1>4. ASSUME NEW i \in 1..Len(t) PROVE w[Len(s) + i] = t[i]
  <2>1. Len(s) + i \in 1..Len(s) + Len(t) /\ ~(Len(s) + i <= Len(s)) /\ (Len(s) + i) - Len(s) = i
    BY <1>1
  <2> QED BY <1>2, <2>1
<1> QED BY <1>2, <1>3, <1>4 DEF w, IsJoin

IsJoinOfFour(m, a, b, c, d, T) ==
  LET p == Len(a) + Len(b) IN
  /\ m \in Seq(T) /\ Len(m) = p + Len(c) + Len(d)
  /\ \A i \in 1..Len(a) : m[i] = a[i]
  /\ \A i \in 1..Len(b) : m[Len(a) + i] = b[i]
  /\ \A i \in 1..Len(c) : m[p + i] = c[i]
  /\ \A i \in 1..Len(d) : m[p + Len(c) + i] = d[i]

LEMMA JoinedFour ==
  ASSUME NEW T, NEW a \in Seq(T), NEW b \in Seq(T), NEW c \in Seq(T), NEW d \in Seq(T)
  PROVE IsJoinOfFour(a \o b \o c \o d, a, b, c, d, T)
<1> DEFINE u == a \o b
           v == u \o c
           m == v \o d
           p == Len(a) + Len(b)
<1>1. Len(a) \in Nat /\ Len(b) \in Nat /\ Len(c) \in Nat /\ Len(d) \in Nat /\ p \in Nat
  BY LenProperties
<1>2. /\ u \in Seq(T) /\ Len(u) = p
      /\ \A i \in 1..Len(a) : u[i] = a[i]
      /\ \A i \in 1..Len(b) : u[Len(a) + i] = b[i]
  <2>1. IsJoin(u, a, b, T)
    BY Joined
  <2> HIDE DEF u
  <2> QED BY <2>1 DEF IsJoin
<1> HIDE DEF u
<1>3. /\ v \in Seq(T) /\ Len(v) = p + Len(c)
      /\ \A i \in 1..p : v[i] = u[i]
      /\ \A i \in 1..Len(c) : v[p + i] = c[i]
  <2>1. /\ v \in Seq(T) /\ Len(v) = Len(u) + Len(c)
        /\ \A i \in 1..Len(u) : v[i] = u[i]
        /\ \A i \in 1..Len(c) : v[Len(u) + i] = c[i]
    <3>1. IsJoin(v, u, c, T)
      BY <1>2, Joined
    <3> QED BY <3>1 DEF IsJoin
  <2> HIDE DEF p, v
  <2> QED BY <1>2, <2>1
<1> HIDE DEF v
<1>4. /\ m \in Seq(T) /\ Len(m) = p + Len(c) + Len(d)
      /\ \A i \in 1..(p + Len(c)) : m[i] = v[i]
      /\ \A i \in 1..Len(d) : m[p + Len(c) + i] = d[i]
  <2>1. /\ m \in Seq(T) /\ Len(m) = Len(v) + Len(d)
        /\ \A i \in 1..Len(v) : m[i] = v[i]
        /\ \A i \in 1..Len(d) : m[Len(v) + i] = d[i]
    <3>1. IsJoin(m, v, d, T)
      BY <1>3, Joined
    <3> QED BY <3>1 DEF IsJoin
  <2> HIDE DEF p, m
  <2> QED BY <1>3, <2>1
<1> HIDE DEF m
<1>5. \A i \in 1..Len(a) : m[i] = a[i]
  <2>1. \A i \in 1..Len(a) : i \in 1..p /\ i \in 1..(p + Len(c))
    BY <1>1
  <2> QED BY <1>2, <1>3, <1>4, <2>1
<1>6. \A i \in 1..Len(b) : m[Len(a) + i] = b[i]
  <2>1. \A i \in 1..Len(b) : Len(a) + i \in 1..p /\ Len(a) + i \in 1..(p + Len(c))
    BY <1>1
  <2> HIDE DEF p
  <2> QED BY <1>2, <1>3, <1>4, <2>1
<1>7. \A i \in 1..Len(c) : m[p + i] = c[i]
  <2>1. \A i \in 1..Len(c) : p + i \in 1..(p + Len(c))
    BY <1>1
  <2> HIDE DEF p
  <2> QED BY <1>3, <1>4, <2>1
<1>8. IsJoinOfFour(m, a, b, c, d, T)
  BY <1>4, <1>5, <1>6, <1>7 DEF IsJoinOfFour
<1> QED BY <1>8 DEF m, v, u

LEMMA MessageIs ==
  ASSUME NEW first \in Texts, NEW headers \in Seq(Headers), Len(headers) \in 1..2, NEW body \in Seq(Texts)
  PROVE IsMessage(Message(first, headers, body), first, headers, body)
<1> DEFINE a == <<first, CR, LF>>
           b == HeaderLines(headers)
           c == <<CR, LF>>
           m == Message(first, headers, body)
           n == Len(headers)
<1>1. a \in Seq(Texts) /\ Len(a) = 3 /\ a[1] = first /\ a[2] = CR /\ a[3] = LF
  BY EolTexts
<1>2. c \in Seq(Texts) /\ Len(c) = 2 /\ c[1] = CR /\ c[2] = LF
  BY EolTexts
<1>3. /\ b \in Seq(Texts) /\ Len(b) = 3 * n
      /\ \A k \in 1..n : b[3 * k - 2] = headers[k] /\ b[3 * k - 1] = CR /\ b[3 * k] = LF
  <2>1. CASE n = 1
    <3> DEFINE h == headers[1]
    <3>1. h \in Headers /\ headers = <<h>>
      <4>1. h \in Headers
        BY <2>1
      <4>2. DOMAIN headers = 1..1 /\ headers = [i \in DOMAIN headers |-> headers[i]]
        BY <2>1
      <4> QED BY <4>1, <4>2
    <3> HIDE DEF h
    <3>2. h \in Texts
      BY <3>1, EolTexts
    <3>3. b = <<h, CR, LF>>
      BY <3>1, OneHeaderLine
    <3> HIDE DEF b
    <3>4. b \in Seq(Texts) /\ Len(b) = 3 /\ b[1] = h /\ b[2] = CR /\ b[3] = LF
      BY <3>2, <3>3, EolTexts
    <3>5. headers[1] = h
      BY DEF h
    <3>6. \A k \in 1..n : k = 1 /\ 3 * k - 2 = 1 /\ 3 * k - 1 = 2 /\ 3 * k = 3
      BY <2>1
    <3>7. 3 * n = 3
      BY <2>1
    <3> QED BY <3>4, <3>5, <3>6, <3>7
  <2>2. CASE n = 2
    <3> DEFINE h == headers[1]
               e == headers[2]
    <3>1. h \in Headers /\ e \in Headers /\ headers = <<h, e>>
      <4>1. h \in Headers /\ e \in Headers
        <5>1. 1 \in 1..Len(headers) /\ 2 \in 1..Len(headers)
          BY <2>2
        <5>2. \A i \in 1..Len(headers) : headers[i] \in Headers
          OBVIOUS
        <5> QED BY <5>1, <5>2
      <4>2. DOMAIN headers = 1..2 /\ headers = [i \in DOMAIN headers |-> headers[i]]
        BY <2>2
      <4> QED BY <4>1, <4>2
    <3> HIDE DEF h, e
    <3>2. h \in Texts /\ e \in Texts
      BY <3>1, EolTexts
    <3>3. b = <<h, CR, LF, e, CR, LF>>
      BY <3>1, TwoHeaderLines
    <3> HIDE DEF b
    <3>4. b \in Seq(Texts) /\ Len(b) = 6
      BY <3>2, <3>3, EolTexts
    <3>5. b[1] = h /\ b[2] = CR /\ b[3] = LF /\ b[4] = e /\ b[5] = CR /\ b[6] = LF
      BY <3>3
    <3>6. headers[1] = h /\ headers[2] = e
      BY DEF h, e
    <3>7. \A k \in 1..n : \/ k = 1 /\ 3 * k - 2 = 1 /\ 3 * k - 1 = 2 /\ 3 * k = 3
                          \/ k = 2 /\ 3 * k - 2 = 4 /\ 3 * k - 1 = 5 /\ 3 * k = 6
      BY <2>2
    <3>8. 3 * n = 6
      BY <2>2
    <3>9. ASSUME NEW k \in 1..n PROVE b[3 * k - 2] = headers[k] /\ b[3 * k - 1] = CR /\ b[3 * k] = LF
      BY <3>5, <3>6, <3>7
    <3> QED BY <3>4, <3>8, <3>9
  <2>3. n = 1 \/ n = 2
    OBVIOUS
  <2> QED BY <2>1, <2>2, <2>3
<1>4. Len(body) \in Nat /\ n \in Nat
  BY LenProperties
<1> DEFINE p == Len(a) + Len(b)
<1> HIDE DEF a, b, c
<1>5. /\ m \in Seq(Texts) /\ Len(m) = p + Len(c) + Len(body)
      /\ \A i \in 1..Len(a) : m[i] = a[i]
      /\ \A i \in 1..Len(b) : m[Len(a) + i] = b[i]
      /\ \A i \in 1..Len(c) : m[p + i] = c[i]
      /\ \A i \in 1..Len(body) : m[p + Len(c) + i] = body[i]
  <2>1. m = a \o b \o c \o body
    BY DEF Message, a, b, c
  <2>2. a \in Seq(Texts) /\ b \in Seq(Texts) /\ c \in Seq(Texts)
    BY <1>1, <1>2, <1>3
  <2> HIDE DEF m
  <2>3. IsJoinOfFour(m, a, b, c, body, Texts)
    BY <2>1, <2>2, JoinedFour
  <2> QED BY <2>3 DEF IsJoinOfFour, p
<1> HIDE DEF m
<1>6. p = 3 * (n + 1) /\ p \in Nat
  BY <1>1, <1>3, <1>4
<1> HIDE DEF p
<1>7. Len(m) = p + 2 + Len(body) /\ \A i \in 1..Len(body) : m[p + 2 + i] = body[i]
  BY <1>2, <1>5
<1>8. m[1] = first /\ m[2] = CR /\ m[3] = LF
  <2>1. \A i \in 1..3 : m[i] = a[i]
    BY <1>1, <1>5
  <2> QED BY <1>1, <2>1
<1>9. m[p + 1] = CR /\ m[p + 2] = LF
  <2>1. \A i \in 1..2 : m[p + i] = c[i]
    BY <1>2, <1>5
  <2> QED BY <1>2, <2>1
<1>10. ASSUME NEW k \in 1..n
       PROVE m[3 * k + 1] = headers[k] /\ m[3 * k + 2] = CR /\ m[3 * k + 3] = LF
  <2>1. \A i \in 1..(3 * n) : m[3 + i] = b[i]
    BY <1>1, <1>3, <1>5
  <2>2. 3 * k - 2 \in 1..(3 * n) /\ 3 * k - 1 \in 1..(3 * n) /\ 3 * k \in 1..(3 * n)
        /\ 3 + (3 * k - 2) = 3 * k + 1 /\ 3 + (3 * k - 1) = 3 * k + 2 /\ 3 + 3 * k = 3 * k + 3
    BY <1>4
  <2>3. m[3 + (3 * k - 2)] = b[3 * k - 2] /\ m[3 + (3 * k - 1)] = b[3 * k - 1] /\ m[3 + 3 * k] = b[3 * k]
    BY <2>1, <2>2
  <2> HIDE DEF n
  <2> QED BY <1>3, <2>2, <2>3
<1>11. m \in Seq(Texts)
  BY <1>5
<1>12. IsMessage(m, first, headers, body)
  BY <1>6, <1>7, <1>8, <1>9, <1>10, <1>11 DEF IsMessage
<1> QED BY <1>12 DEF m
\* Where the header with the length is, which is the first of its kind.
LEMMA FoundHeader ==
  ASSUME NEW headers \in Seq(Headers), NEW i \in 1..Len(headers), headers[i].kind = "length",
         \A j \in 1..(i - 1) : headers[j].kind # "length"
  PROVE FindHeader(headers, "length") = i
<1> DEFINE S == {j \in 1..Len(headers) : headers[j].kind = "length"}
<1>1. i \in S /\ S \subseteq Int /\ \A j \in S : i <= j
  OBVIOUS
<1>2. S # {}
  BY <1>1
<1>3. FindHeader(headers, "length") = IF S # {} THEN Min(S) ELSE 0
  BY DEF FindHeader, SelectInSeq
<1> HIDE DEF S
<1> QED BY <1>1, <1>2, <1>3, LeastIsMin

LEMMA NoHeader ==
  ASSUME NEW headers \in Seq(Headers), \A j \in 1..Len(headers) : headers[j].kind # "length"
  PROVE FindHeader(headers, "length") = 0
<1> DEFINE S == {j \in 1..Len(headers) : headers[j].kind = "length"}
<1>1. FindHeader(headers, "length") = IF S # {} THEN Min(S) ELSE 0
  BY DEF FindHeader, SelectInSeq
<1>2. S = {}
  OBVIOUS
<1> HIDE DEF S
<1> QED BY <1>1, <1>2

\* Headers that tell the size of a body.
TellSize(headers, size) ==
  headers \in Seq(Headers) /\ Len(headers) \in 1..2 /\ BodyLength(headers) = size

LEMMA TextIs ==
  ASSUME NEW value \in Nat
  PROVE /\ Text("header", value) \in Headers /\ Text("header", value).kind = "header"
        /\ Text("length", value) \in Headers /\ Text("length", value).kind = "length"
        /\ Text("length", value).value = value
        /\ Text("status", value) \in Texts /\ Text("status", value).kind = "status"
        /\ Text("method", value) \in Texts /\ Text("method", value).kind = "method"
        /\ Text("status", value).value = value /\ Text("method", value).value = value
  BY DEF Text, Headers, Texts

LEMMA BodyIs ==
  ASSUME NEW size \in Nat
  PROVE Body(size) \in Seq(Texts) /\ Len(Body(size)) = size
<1>1. \A i \in 1..size : Text("body", i) \in Texts
  BY DEF Text, Texts
<1>2. Body(size) = [i \in 1..size |-> Text("body", i)]
  BY DEF Body
<1> QED BY <1>1, <1>2

LEMMA TwoOfOne == ASSUME NEW a, NEW b PROVE <<a>> \o <<b>> = <<a, b>> /\ Append(<<a>>, b) = <<a, b>>
<1> DEFINE T == {a, b}
           s == <<a>>
           t == <<b>>
           w == s \o t
           x == <<a, b>>
           y == Append(s, b)
<1>1. s \in Seq(T) /\ t \in Seq(T) /\ Len(s) = 1 /\ Len(t) = 1 /\ s[1] = a /\ t[1] = b
  OBVIOUS
<1>2. x \in Seq(T) /\ Len(x) = 2 /\ x[1] = a /\ x[2] = b
  OBVIOUS
<1>3. b \in T
  OBVIOUS
<1> HIDE DEF s, t, x, T
<1>4. w \in Seq(T) /\ Len(w) = 2 /\ w[1] = a /\ w[2] = b
  <2>1. IsJoin(w, s, t, T)
    BY <1>1, Joined
  <2> HIDE DEF w
  <2>2. 1 \in 1..Len(s) /\ 1 \in 1..Len(t) /\ Len(s) + 1 = 2
    BY <1>1
  <2>3. /\ w \in Seq(T) /\ Len(w) = Len(s) + Len(t) /\ (\A i \in 1..Len(s) : w[i] = s[i])
        /\ \A i \in 1..Len(t) : w[Len(s) + i] = t[i]
    BY <2>1 DEF IsJoin
  <2>4. w[1] = s[1] /\ w[2] = t[1]
    BY <2>2, <2>3
  <2> QED BY <1>1, <2>3, <2>4
<1>5. y \in Seq(T) /\ Len(y) = 2 /\ y[1] = a /\ y[2] = b
  <2>1. y \in Seq(T) /\ Len(y) = Len(s) + 1 /\ y[Len(s) + 1] = b /\ \A i \in 1..Len(s) : y[i] = s[i]
    <3>1. y \in Seq(T) /\ Len(y) = Len(s) + 1
      BY <1>1, <1>3, AppendProperties, ZenonT(30)
    <3>2. y[Len(s) + 1] = b
      BY <1>1, <1>3, AppendProperties
    <3>3. \A i \in 1..Len(s) : y[i] = s[i]
      BY <1>1, <1>3, AppendProperties
    <3> QED BY <3>1, <3>2, <3>3
  <2> HIDE DEF y
  <2>2. 1 \in 1..Len(s) /\ Len(s) + 1 = 2
    BY <1>1
  <2> QED BY <1>1, <2>1, <2>2
<1> HIDE DEF w, y
<1>6. \A i \in 1..2 : i = 1 \/ i = 2
  OBVIOUS
<1>7. w = x
  BY <1>2, <1>4, <1>6
<1>8. y = x
  BY <1>2, <1>5, <1>6
<1> QED BY <1>7, <1>8 DEF w, x, y, s, t

LEMMA ResponseHeadersTell ==
  ASSUME NEW n \in Nat, NEW size \in Nat
  PROVE TellSize(ResponseHeaders(n, size), size)
<1> DEFINE h == Text("header", n)
           l == Text("length", size)
           headers == ResponseHeaders(n, size)
<1>1. h \in Headers /\ l \in Headers /\ h.kind = "header" /\ l.kind = "length" /\ l.value = size
  BY TextIs
<1>2. CASE size = 0
  <2>1. headers = <<>> \o <<h>>
    BY <1>2 DEF ResponseHeaders
  <2> HIDE DEF h, headers
  <2>2. headers = <<h>>
    BY <2>1
  <2>3. headers \in Seq(Headers) /\ Len(headers) = 1 /\ headers[1] = h
    BY <1>1, <2>2
  <2>4. \A j \in 1..Len(headers) : headers[j].kind # "length"
    BY <1>1, <2>3
  <2>5. FindHeader(headers, "length") = 0
    BY <2>3, <2>4, NoHeader
  <2> QED BY <1>2, <2>3, <2>5 DEF TellSize, BodyLength, headers
<1>3. CASE size # 0
  <2>1. headers = <<l>> \o <<h>>
    BY <1>3 DEF ResponseHeaders
  <2> HIDE DEF h, l, headers
  <2>2. headers = <<l, h>>
    BY <2>1, TwoOfOne
  <2>3. headers \in Seq(Headers) /\ Len(headers) = 2 /\ headers[1] = l
    BY <1>1, <2>2
  <2>4. 1 \in 1..Len(headers) /\ \A j \in 1..(1 - 1) : headers[j].kind # "length"
    BY <2>3
  <2>5. FindHeader(headers, "length") = 1
    BY <1>1, <2>3, <2>4, FoundHeader
  <2>6. BodyLength(headers) = size
    BY <1>1, <2>3, <2>5 DEF BodyLength
  <2> QED BY <2>3, <2>6 DEF TellSize, headers
<1> QED BY <1>2, <1>3

RequestHeaders(n, size) == MakeHeaderRequest(<<Text("header", n)>>, Body(size))

\* evrtsp_make_header_request gives a body a length.
LEMMA RequestHeadersTell ==
  ASSUME NEW n \in Nat, NEW size \in Nat
  PROVE TellSize(RequestHeaders(n, size), size)
<1> DEFINE h == Text("header", n)
           l == Text("length", size)
           given == <<h>>
           headers == RequestHeaders(n, size)
<1>1. h \in Headers /\ l \in Headers /\ h.kind = "header" /\ l.kind = "length" /\ l.value = size
  BY TextIs
<1> HIDE DEF h, l
<1>2. given \in Seq(Headers) /\ Len(given) = 1 /\ given[1] = h
  BY <1>1
<1>3. FindHeader(given, "length") = 0
  <2>1. \A j \in 1..Len(given) : given[j].kind # "length"
    BY <1>1, <1>2
  <2> HIDE DEF given
  <2> QED BY <1>2, <2>1, NoHeader
<1>4. Body(size) \in Seq(Texts) /\ Len(Body(size)) = size
  BY BodyIs
<1>5. CASE size = 0
  <2>1. Body(size) = <<>>
    BY <1>4, <1>5, EmptySeq
  <2>2. headers = given
    BY <2>1 DEF RequestHeaders, MakeHeaderRequest, h
  <2> HIDE DEF headers, given
  <2> QED BY <1>2, <1>3, <1>5, <2>2 DEF TellSize, BodyLength, headers
<1>6. CASE size # 0
  <2>1. Body(size) # <<>>
    BY <1>4, <1>6, EmptySeq
  <2>2. headers = Append(given, l)
    <3>1. given = <<Text("header", n)>> /\ l = Text("length", Len(Body(size)))
      BY <1>4 DEF h, l
    <3> HIDE DEF given
    <3> QED BY <1>3, <2>1, <3>1 DEF RequestHeaders, MakeHeaderRequest, AddHeader
  <2> HIDE DEF headers
  <2>3. headers = <<h, l>>
    BY <2>2, TwoOfOne
  <2>4. headers \in Seq(Headers) /\ Len(headers) = 2 /\ headers[1] = h /\ headers[2] = l
    BY <1>1, <2>3
  <2>5. 2 \in 1..Len(headers) /\ \A j \in 1..(2 - 1) : headers[j].kind # "length"
    <3>1. \A j \in 1..(2 - 1) : j = 1
      OBVIOUS
    <3> QED BY <1>1, <2>4, <3>1
  <2>6. FindHeader(headers, "length") = 2
    BY <1>1, <2>4, <2>5, FoundHeader
  <2>7. BodyLength(headers) = size
    BY <1>1, <2>4, <2>6 DEF BodyLength
  <2> QED BY <2>4, <2>7 DEF TellSize, headers
<1> QED BY <1>5, <1>6

LEMMA ResponseIsMessage ==
  ASSUME NEW n \in Nat, NEW size \in Nat
  PROVE IsMessage(Response(n, size), Text("status", n), ResponseHeaders(n, size), Body(size))
<1> DEFINE hs == ResponseHeaders(n, size)
           b == Body(size)
           f == Text("status", n)
<1>1. Response(n, size) = Message(f, hs, b)
  BY DEF Response, Message
<1>2. hs \in Seq(Headers) /\ Len(hs) \in 1..2
  BY ResponseHeadersTell DEF TellSize
<1>3. b \in Seq(Texts) /\ f \in Texts
  BY BodyIs, TextIs
<1> HIDE DEF hs, b, f
<1>4. IsMessage(Message(f, hs, b), f, hs, b)
  BY <1>2, <1>3, MessageIs
<1> QED BY <1>1, <1>4 DEF hs, b, f

RequestText(n, size) == MakeHeader(n, <<Text("header", n)>>, Body(size))

LEMMA RequestIsMessage ==
  ASSUME NEW n \in Nat, NEW size \in Nat
  PROVE IsMessage(RequestText(n, size), Text("method", n), RequestHeaders(n, size), Body(size))
<1> DEFINE hs == RequestHeaders(n, size)
           b == Body(size)
           f == Text("method", n)
<1>1. RequestText(n, size) = Message(f, hs, b)
  BY DEF RequestText, MakeHeader, Message, RequestLine, RequestHeaders
<1>2. hs \in Seq(Headers) /\ Len(hs) \in 1..2
  BY RequestHeadersTell DEF TellSize
<1>3. b \in Seq(Texts) /\ f \in Texts
  BY BodyIs, TextIs
<1> HIDE DEF hs, b, f
<1>4. IsMessage(Message(f, hs, b), f, hs, b)
  BY <1>2, <1>3, MessageIs
<1> QED BY <1>1, <1>4 DEF hs, b, f
-----------------------------------------------------------------------------
(* Parsing what came of a message *)

\* Of a text, what follows position p of the first c.
Window(m, p, c) == SubSeq(m, p + 1, c)

IsWindow(w, m, p, c, T) == w \in Seq(T) /\ Len(w) = c - p /\ \A i \in 1..(c - p) : w[i] = m[p + i]

LEMMA WindowIs ==
  ASSUME NEW T, NEW m \in Seq(T), NEW c \in 0..Len(m), NEW p \in 0..c
  PROVE IsWindow(Window(m, p, c), m, p, c, T)
<1> DEFINE w == Window(m, p, c)
<1>1. w = SubSeq(m, p + 1, c)
  BY DEF Window
<1> HIDE DEF w
<1>2. Len(m) \in Nat /\ p + 1 \in 1..(c + 1) /\ \A i \in (p + 1)..c : i \in 1..Len(m)
  BY LenProperties
<1>3. w \in Seq(T) /\ Len(w) = c - p
  BY <1>1, <1>2, SubSeqProperties
<1>4. \A i \in 1..(c - p) : w[i] = m[p + i]
  BY <1>1, <1>2
<1>5. IsWindow(w, m, p, c, T)
  BY <1>3, <1>4 DEF IsWindow
<1> QED BY <1>5 DEF w

LEMMA SameSeq ==
  ASSUME NEW T, NEW s \in Seq(T), NEW t \in Seq(T), Len(s) = Len(t), \A i \in 1..Len(s) : s[i] = t[i]
  PROVE s = t
OBVIOUS

LEMMA WindowAfter ==
  ASSUME NEW T, NEW m \in Seq(T), NEW c \in 0..Len(m), NEW p \in 0..c, NEW i \in 0..(c - p)
  PROVE After(Window(m, p, c), i) = Window(m, p + i, c)
<1> DEFINE w == Window(m, p, c)
           a == Window(w, i, c - p)
           b == Window(m, p + i, c)
<1>1. IsWindow(w, m, p, c, T)
  BY WindowIs
<1> HIDE DEF w
<1>2. w \in Seq(T) /\ Len(w) = c - p /\ \A j \in 1..(c - p) : w[j] = m[p + j]
  BY <1>1 DEF IsWindow
<1>3. Len(m) \in Nat /\ c \in Nat /\ p \in Nat /\ c - p \in 0..Len(w) /\ i \in 0..(c - p) /\ p + i \in 0..c
  BY <1>2, LenProperties
<1>4. IsWindow(a, w, i, c - p, T)
  <2> DEFINE d == c - p
  <2>1. d \in 0..Len(w) /\ i \in 0..d
    BY <1>3
  <2> HIDE DEF d
  <2>2. IsWindow(Window(w, i, d), w, i, d, T)
    BY <1>2, <2>1, WindowIs
  <2> QED BY <2>2 DEF d
<1>5. IsWindow(b, m, p + i, c, T)
  <2> DEFINE d == p + i
  <2>1. d \in 0..c
    BY <1>3
  <2> HIDE DEF d
  <2>2. IsWindow(Window(m, d, c), m, d, c, T)
    BY <2>1, WindowIs
  <2> QED BY <2>2 DEF d
<1>6. After(w, i) = a
  BY <1>2 DEF After, Window
<1> HIDE DEF a, b
<1>7. a \in Seq(T) /\ Len(a) = (c - p) - i /\ \A j \in 1..((c - p) - i) : a[j] = w[i + j]
  BY <1>4 DEF IsWindow
<1>8. b \in Seq(T) /\ Len(b) = c - (p + i) /\ \A j \in 1..(c - (p + i)) : b[j] = m[(p + i) + j]
  BY <1>5 DEF IsWindow
<1>9. ASSUME NEW j \in 1..Len(a) PROVE a[j] = b[j]
  <2>1. j \in 1..((c - p) - i) /\ j \in 1..(c - (p + i)) /\ i + j \in 1..(c - p) /\ p + (i + j) = (p + i) + j
    BY <1>3, <1>7
  <2> QED BY <1>2, <1>7, <1>8, <2>1
<1>10. Len(a) = Len(b)
  BY <1>3, <1>7, <1>8
<1>11. a = b
  BY <1>7, <1>8, <1>9, <1>10, SameSeq
<1> QED BY <1>6, <1>11 DEF w, b

LEMMA WindowJoin ==
  ASSUME NEW T, NEW m \in Seq(T), NEW d \in 0..Len(m), NEW c \in 0..d, NEW p \in 0..c
  PROVE Window(m, p, c) \o Window(m, c, d) = Window(m, p, d)
<1> DEFINE a == Window(m, p, c)
           b == Window(m, c, d)
           w == a \o b
           x == Window(m, p, d)
<1>1. Len(m) \in Nat /\ c \in 0..Len(m) /\ p \in 0..d
  BY LenProperties
<1>2. IsWindow(a, m, p, c, T) /\ IsWindow(b, m, c, d, T) /\ IsWindow(x, m, p, d, T)
  BY <1>1, WindowIs
<1> HIDE DEF a, b, x
<1>3. IsJoin(w, a, b, T)
  BY <1>2, Joined DEF IsWindow
<1> HIDE DEF w
<1>4. a \in Seq(T) /\ Len(a) = c - p /\ \A i \in 1..(c - p) : a[i] = m[p + i]
  BY <1>2 DEF IsWindow
<1>5. b \in Seq(T) /\ Len(b) = d - c /\ \A i \in 1..(d - c) : b[i] = m[c + i]
  BY <1>2 DEF IsWindow
<1>6. x \in Seq(T) /\ Len(x) = d - p /\ \A i \in 1..(d - p) : x[i] = m[p + i]
  BY <1>2 DEF IsWindow
<1>7. w \in Seq(T) /\ Len(w) = Len(a) + Len(b) /\ (\A i \in 1..Len(a) : w[i] = a[i])
      /\ \A i \in 1..Len(b) : w[Len(a) + i] = b[i]
  BY <1>3 DEF IsJoin
<1>8. Len(w) = Len(x)
  BY <1>1, <1>4, <1>5, <1>6, <1>7
<1>9. ASSUME NEW i \in 1..Len(x) PROVE w[i] = x[i]
  <2>1. x[i] = m[p + i]
    BY <1>6
  <2>2. CASE i <= c - p
    <3>1. i \in 1..(c - p) /\ i \in 1..Len(a)
      BY <1>1, <1>4, <2>2
    <3> QED BY <1>4, <1>7, <2>1, <3>1
  <2>3. CASE i > c - p
    <3> DEFINE j == i - (c - p)
    <3>1. j \in 1..(d - c) /\ j \in 1..Len(b) /\ Len(a) + j = i /\ c + j = p + i
      BY <1>1, <1>4, <1>5, <1>6, <2>3
    <3> HIDE DEF j
    <3> QED BY <1>5, <1>7, <2>1, <3>1
  <2> QED BY <1>1, <2>2, <2>3
<1>10. w = x
  BY <1>6, <1>7, <1>8, <1>9, SameSeq
<1> QED BY <1>10 DEF w, a, b, x

\* Where the first line ends.
LEMMA LineEndIs ==
  ASSUME NEW text \in Seq(Texts), NEW e \in Nat \ {0},
         \A i \in 1..Len(text) : i < e => text[i] # LF, e <= Len(text) => text[e] = LF
  PROVE LineEnd(text) = IF e <= Len(text) THEN e ELSE 0
<1> DEFINE S == {i \in 1..Len(text) : text[i] = LF}
<1>1. LineEnd(text) = IF S # {} THEN Min(S) ELSE 0
  BY DEF LineEnd, SelectInSeq
<1>2. Len(text) \in Nat
  BY LenProperties
<1>3. CASE e <= Len(text)
  <2>1. e \in S /\ S \subseteq Int /\ \A i \in S : e <= i
    BY <1>2, <1>3
  <2>2. S # {}
    BY <2>1
  <2> HIDE DEF S
  <2>3. Min(S) = e
    BY <2>1, LeastIsMin
  <2> QED BY <1>1, <1>3, <2>2, <2>3
<1>4. CASE ~(e <= Len(text))
  <2>1. S = {}
    BY <1>2, <1>4
  <2> HIDE DEF S
  <2> QED BY <1>1, <1>4, <2>1
<1> QED BY <1>3, <1>4
\* Where the k-th line after the first one starts: a header, the empty line, the body.
Position(headers, k) ==
  IF k <= Len(headers) THEN 3 * (k + 1) ELSE 3 * (Len(headers) + 1) + 2

\* The connection when k of these lines are parsed of what came of the message m.
Stage(m, headers, code, came, k) ==
  [state |-> IF k <= Len(headers) THEN "READING_HEADERS" ELSE "READING_BODY",
   input |-> Window(m, Position(headers, k), came),
   req |-> [code |-> code, headers |-> SubSeq(headers, 1, IF k <= Len(headers) THEN k ELSE Len(headers)),
            body |-> <<>>]]

\* A turn parses the next line, if all of it came, or nothing.
HeaderTurnsAt(m, headers, code, came, k) ==
  /\ k <= Len(headers) /\ Position(headers, k + 1) <= came
         => HeaderTurn(Stage(m, headers, code, came, k)) = Stage(m, headers, code, came, k + 1)
  /\ ~(k <= Len(headers) /\ Position(headers, k + 1) <= came)
         => HeaderTurn(Stage(m, headers, code, came, k)) = Stage(m, headers, code, came, k)

LEMMA HeaderTurnIs ==
  ASSUME NEW m, NEW first, NEW headers \in Seq(Headers), NEW body \in Seq(Texts), NEW code \in Nat,
         IsMessage(m, first, headers, body), NEW came \in 0..Len(m),
         NEW k \in 0..(Len(headers) + 1), Position(headers, k) <= came
  PROVE HeaderTurnsAt(m, headers, code, came, k)
<1> DEFINE n == Len(headers)
           p == Position(headers, k)
           q == Position(headers, k + 1)
           w == Window(m, p, came)
           e == q - p
           s == Stage(m, headers, code, came, k)
           t == Stage(m, headers, code, came, k + 1)
<1>1. n \in Nat /\ m \in Seq(Texts) /\ Len(m) \in Nat
  BY LenProperties DEF IsMessage
<1>2. p \in 0..came /\ q \in Nat
  <2>1. p \in Nat /\ q \in Nat
    BY <1>1 DEF Position
  <2>2. p <= came
    OBVIOUS
  <2> HIDE DEF p, q
  <2> QED BY <2>1, <2>2
<1>3. IsWindow(w, m, p, came, Texts)
  BY <1>1, <1>2, WindowIs
<1>4. CASE k = n + 1
  <2>1. ~(k <= n)
    BY <1>1, <1>4
  <2>2. s.state = "READING_BODY"
    BY <2>1 DEF Stage
  <2>3. HeaderTurn(s) = s
    <3> HIDE DEF s
    <3> QED BY <2>2 DEF HeaderTurn
  <2> QED BY <2>1, <2>3 DEF HeaderTurnsAt
<1>5. CASE k <= n
  <2>1. s = [state |-> "READING_HEADERS", input |-> w,
             req |-> [code |-> code, headers |-> SubSeq(headers, 1, k), body |-> <<>>]]
    BY <1>5 DEF Stage
  <2>2. p = 3 * (k + 1) /\ e = (IF k < n THEN 3 ELSE 2) /\ q = p + e
    <3>1. p = 3 * (k + 1)
      BY <1>5 DEF Position
    <3>2. CASE k < n
      <4>1. q = 3 * ((k + 1) + 1)
        BY <1>1, <3>2 DEF Position
      <4> HIDE DEF p, q
      <4> QED BY <3>1, <3>2, <4>1
    <3>3. CASE k = n
      <4>1. q = 3 * (n + 1) + 2
        BY <1>1, <3>3 DEF Position
      <4> HIDE DEF p, q, n
      <4> QED BY <1>1, <3>1, <3>3, <4>1
    <3> QED BY <1>1, <1>5, <3>2, <3>3
  <2> HIDE DEF p, q, w, e, s
  <2>3. w \in Seq(Texts) /\ Len(w) = came - p /\ \A i \in 1..(came - p) : w[i] = m[p + i]
    BY <1>3 DEF IsWindow
  <2>4. m[p + (e - 1)] = CR /\ m[p + e] = LF /\ (k < n => m[p + 1] = headers[k + 1] /\ headers[k + 1] \in Headers)
    <3>1. CASE k < n
      <4> DEFINE h == k + 1
      <4>1. h \in 1..n /\ 3 * h = p /\ e - 1 = 2 /\ e = 3
        BY <1>1, <2>2, <3>1
      <4>2. \A i \in 1..n : m[3 * i + 1] = headers[i] /\ m[3 * i + 2] = CR /\ m[3 * i + 3] = LF
        BY DEF IsMessage
      <4>3. headers[h] \in Headers
        BY <4>1
      <4> HIDE DEF h, n
      <4>4. m[3 * h + 1] = headers[h] /\ m[3 * h + 2] = CR /\ m[3 * h + 3] = LF
        BY <4>1, <4>2
      <4>5. m[p + 1] = headers[h] /\ m[p + 2] = CR /\ m[p + 3] = LF
        BY <4>1, <4>4
      <4> QED BY <4>1, <4>3, <4>5 DEF h
    <3>2. CASE k = n
      <4>1. m[3 * (n + 1) + 1] = CR /\ m[3 * (n + 1) + 2] = LF
        BY DEF IsMessage
      <4>2. e - 1 = 1 /\ e = 2 /\ p = 3 * (n + 1) /\ ~(k < n)
        BY <1>1, <2>2, <3>2
      <4> HIDE DEF n
      <4> QED BY <4>1, <4>2
    <3> QED BY <1>1, <1>5, <3>1, <3>2
  <2>5. \A i \in 1..Len(w) : i < e => w[i] # LF
    <3> SUFFICES ASSUME NEW i \in 1..Len(w), i < e PROVE w[i] # LF
      OBVIOUS
    <3>1. i \in 1..(came - p)
      BY <2>3
    <3>2. w[i] = m[p + i]
      BY <2>3, <3>1
    <3>3. i = e - 1 \/ (k < n /\ i = 1)
      BY <1>1, <2>2, <3>1
    <3> QED BY <2>4, <3>2, <3>3, EolTexts
  <2>6. e <= Len(w) => w[e] = LF /\ w[e - 1] = CR /\ (k < n => w[1] = headers[k + 1])
    <3> SUFFICES ASSUME e <= Len(w) PROVE w[e] = LF /\ w[e - 1] = CR /\ (k < n => w[1] = headers[k + 1])
      OBVIOUS
    <3>1. e \in 1..(came - p) /\ e - 1 \in 1..(came - p) /\ 1 \in 1..(came - p)
      BY <1>2, <2>2, <2>3
    <3> QED BY <2>3, <2>4, <3>1
  <2>7. e \in Nat \ {0} /\ e > 1
    BY <2>2
  <2>8. LineEnd(w) = IF e <= Len(w) THEN e ELSE 0
    BY <2>3, <2>5, <2>6, <2>7, LineEndIs
  <2>9. CASE q <= came
    <3>1. e <= Len(w) /\ LineEnd(w) = e /\ e \in 0..(came - p) /\ Len(w) \in Nat
      BY <1>2, <2>2, <2>3, <2>8, <2>9
    <3>2. FirstLine(w) = SubSeq(w, 1, e - 2)
      BY <2>6, <2>7, <3>1 DEF FirstLine
    <3>3. After(w, e) = Window(m, q, came)
      <4>1. After(Window(m, p, came), e) = Window(m, p + e, came)
        BY <1>1, <1>2, <3>1, WindowAfter
      <4> QED BY <2>2, <4>1 DEF w
    <3>4. CASE k < n
      <4> DEFINE h == headers[k + 1]
                 line == <<h>>
      <4>1. e = 3 /\ w[1] = h /\ h \in Headers
        BY <2>2, <2>4, <2>6, <3>1, <3>4
      <4>2. FirstLine(w) = line
        <5>1. FirstLine(w) = SubSeq(w, 1, 1)
          BY <3>2, <4>1
        <5>2. 1 \in 0..Len(w) /\ 1 \in 1..1
          BY <3>1, <4>1
        <5>3. Len(SubSeq(w, 1, 1)) = 1 /\ SubSeq(w, 1, 1) \in Seq(Texts) /\ SubSeq(w, 1, 1)[1] = w[1]
          BY <2>3, <5>2, Cut DEF IsCut
        <5> DEFINE x == SubSeq(w, 1, 1)
        <5>4. Len(x) = 1 /\ x \in Seq(Texts) /\ x[1] = h
          BY <4>1, <5>3
        <5> HIDE DEF x, h
        <5>5. x = <<h>>
          <6>1. h \in Texts
            BY <4>1, EolTexts
          <6>2. <<h>> \in Seq(Texts) /\ Len(<<h>>) = 1 /\ (<<h>>)[1] = h
            BY <6>1
          <6>3. \A i \in 1..1 : i = 1
            OBVIOUS
          <6> DEFINE y == <<h>>
          <6> HIDE DEF y
          <6>4. y \in Seq(Texts) /\ Len(y) = 1 /\ y[1] = h
            BY <6>2 DEF y
          <6>5. x = y
            BY <5>4, <6>3, <6>4, SameSeq
          <6> QED BY <6>5 DEF y
        <5> QED BY <5>1, <5>5 DEF x
      <4>3. line # <<>> /\ line[1] = h /\ IsHeader(line) = TRUE
        <5>1. line # <<>> /\ line[1] = h /\ Len(line) = 1
          OBVIOUS
        <5>2. h.kind \in {"length", "header"}
          BY <4>1 DEF Headers
        <5> HIDE DEF line, h
        <5> QED BY <5>1, <5>2 DEF IsHeader
      <4>4. AddHeader(SubSeq(headers, 1, k), h) = SubSeq(headers, 1, k + 1)
        <5>1. k \in 0..Len(headers) /\ k + 1 \in 0..Len(headers) /\ k + 1 \in 1..(k + 1)
          BY <1>1, <3>4
        <5> DEFINE x == SubSeq(headers, 1, k)
                   y == SubSeq(headers, 1, k + 1)
                   z == Append(x, h)
        <5>2. x \in Seq(Headers) /\ Len(x) = k /\ \A i \in 1..k : x[i] = headers[i]
          BY <5>1, Cut DEF IsCut
        <5>3. y \in Seq(Headers) /\ Len(y) = k + 1 /\ \A i \in 1..(k + 1) : y[i] = headers[i]
          <6> DEFINE c == k + 1
          <6>1. c \in 0..Len(headers)
            BY <5>1
          <6> HIDE DEF c
          <6>2. /\ SubSeq(headers, 1, c) \in Seq(Headers) /\ Len(SubSeq(headers, 1, c)) = c
                /\ \A i \in 1..c : SubSeq(headers, 1, c)[i] = headers[i]
            BY <6>1, Cut DEF IsCut
          <6> QED BY <6>2 DEF c
        <5> HIDE DEF x, y
        <5>4. z \in Seq(Headers) /\ Len(z) = Len(x) + 1
          BY <4>1, <5>2, AppendProperties
        <5>5. z[Len(x) + 1] = h
          BY <4>1, <5>2, AppendProperties
        <5>6. \A i \in 1..Len(x) : z[i] = x[i]
          BY <4>1, <5>2, AppendProperties
        <5> HIDE DEF z
        <5>7. \A i \in 1..Len(z) : z[i] = y[i]
          <6> SUFFICES ASSUME NEW i \in 1..Len(z) PROVE z[i] = y[i]
            OBVIOUS
          <6>1. i \in 1..(k + 1) /\ (i = k + 1 \/ i \in 1..k)
            BY <5>2, <5>4
          <6>2. y[i] = headers[i]
            BY <5>3, <6>1
          <6>3. CASE i = k + 1
            BY <5>2, <5>5, <6>2, <6>3
          <6>4. CASE i \in 1..k
            BY <5>2, <5>6, <6>2, <6>4
          <6> QED BY <6>1, <6>3, <6>4
        <5>8. Len(z) = Len(y)
          BY <5>2, <5>3, <5>4
        <5>9. z = y
          BY <5>3, <5>4, <5>7, <5>8, SameSeq
        <5> QED BY <5>9 DEF z, y, x, AddHeader
      <4>5. t = [state |-> "READING_HEADERS", input |-> Window(m, q, came),
                 req |-> [code |-> code, headers |-> SubSeq(headers, 1, k + 1), body |-> <<>>]]
        <5>1. k + 1 <= n
          BY <1>1, <3>4
        <5> QED BY <5>1 DEF Stage, q
      <4> DEFINE before == SubSeq(headers, 1, k)
                 after == SubSeq(headers, 1, k + 1)
                 rest == Window(m, q, came)
      <4> HIDE DEF before, after, rest, line, h, t
      <4>6. LineEnd(w) # 0
        BY <2>7, <3>1
      <4>7. HeaderTurn(s) = [state |-> "READING_HEADERS", input |-> rest,
                             req |-> [code |-> code, headers |-> after, body |-> <<>>]]
        <5>1. s = [state |-> "READING_HEADERS", input |-> w,
                   req |-> [code |-> code, headers |-> before, body |-> <<>>]]
          BY <2>1 DEF before
        <5>2. AddHeader(before, h) = after /\ After(w, LineEnd(w)) = rest
          BY <3>1, <3>3, <4>4 DEF before, after, rest
        <5> QED BY <4>2, <4>3, <4>6, <5>1, <5>2 DEF HeaderTurn
      <4>8. HeaderTurn(s) = t
        BY <4>5, <4>7 DEF rest, after
      <4> QED BY <1>5, <2>9, <4>8 DEF HeaderTurnsAt, s, t, q
    <3>5. CASE k = n
      <4>1. e = 2
        BY <1>1, <2>2, <3>5
      <4>2. FirstLine(w) = <<>>
        <5>1. FirstLine(w) = SubSeq(w, 1, 0)
          BY <3>2, <4>1
        <5> QED BY <5>1, <2>3, EmptySeq
      <4>3. t = [state |-> "READING_BODY", input |-> Window(m, q, came),
                 req |-> [code |-> code, headers |-> SubSeq(headers, 1, k), body |-> <<>>]]
        <5>1. ~(k + 1 <= n)
          BY <1>1, <3>5
        <5> QED BY <3>5, <5>1 DEF Stage, q
      <4> DEFINE before == SubSeq(headers, 1, k)
                 rest == Window(m, q, came)
      <4> HIDE DEF before, rest, t
      <4>6. LineEnd(w) # 0
        BY <2>7, <3>1
      <4>7. HeaderTurn(s) = [state |-> "READING_BODY", input |-> rest,
                             req |-> [code |-> code, headers |-> before, body |-> <<>>]]
        <5>1. s = [state |-> "READING_HEADERS", input |-> w,
                   req |-> [code |-> code, headers |-> before, body |-> <<>>]]
          BY <2>1 DEF before
        <5>2. After(w, LineEnd(w)) = rest
          BY <3>1, <3>3 DEF rest
        <5> QED BY <4>2, <4>6, <5>1, <5>2 DEF HeaderTurn
      <4>8. HeaderTurn(s) = t
        BY <4>3, <4>7 DEF rest, before
      <4> QED BY <1>5, <2>9, <4>8 DEF HeaderTurnsAt, s, t, q
    <3> QED BY <1>1, <1>5, <3>4, <3>5
  <2>10. CASE ~(q <= came)
    <3>1. ~(e <= Len(w))
      BY <1>2, <2>2, <2>3, <2>10
    <3>2. LineEnd(w) = 0 /\ s.input = w
      BY <2>1, <2>8, <3>1
    <3>3. HeaderTurn(s) = s
      BY <3>2 DEF HeaderTurn
    <3> QED BY <2>10, <3>3 DEF HeaderTurnsAt, s, q
  <2> QED BY <2>9, <2>10
<1> QED BY <1>1, <1>4, <1>5
\* The loop of evrtsp_parse_headers, turn by turn.
ParseRuns(c, f) ==
  /\ ParseHeaders(c) = f[Len(c.input)] /\ f[0] = c
  /\ \A n \in 1..Len(c.input) : f[n] = HeaderTurn(f[n - 1])

LEMMA ParseTurns ==
  ASSUME NEW c, Len(c.input) \in Nat
  PROVE \E f : ParseRuns(c, f)
<1> DEFINE size == Len(c.input)
           Turned(h, n) == IF n = 0 THEN c ELSE HeaderTurn(h[n - 1])
           Runs(h, n) == h = [k \in 0..n |-> Turned(h, k)]
           Stuck == {n \in 0..size : ~\E h : Runs(h, n)}
<1>1. Stuck = {}
  <2> SUFFICES ASSUME Stuck # {} PROVE FALSE
    OBVIOUS
  <2>1. PICK n \in Stuck : \A m \in Stuck : n <= m
    <3>1. Stuck \subseteq Nat /\ Stuck # {}
      OBVIOUS
    <3> HIDE DEF Stuck
    <3> QED BY <3>1, LeastOf
  <2>2. CASE n = 0
    <3> DEFINE h == [k \in 0..0 |-> c]
    <3>1. Runs(h, 0)
      OBVIOUS
    <3> HIDE DEF Runs, h
    <3> QED BY <2>1, <2>2, <3>1
  <2>3. CASE n # 0
    <3>1. n \in 1..size /\ n - 1 \in 0..size /\ n - 1 \notin Stuck
      <4>1. n \in 0..size /\ size \in Nat
        BY <2>1
      <4> HIDE DEF size
      <4>2. n \in 1..size /\ n - 1 \in 0..size /\ ~(n <= n - 1)
        BY <2>3, <4>1
      <4> HIDE DEF Stuck
      <4> QED BY <2>1, <4>2
    <3>2. PICK b : Runs(b, n - 1)
      BY <3>1
    <3> DEFINE h == [k \in 0..n |-> IF k = n THEN HeaderTurn(b[n - 1]) ELSE b[k]]
    <3>3. ASSUME NEW k \in 0..n PROVE h[k] = Turned(h, k)
      <4>1. CASE k = n
        BY <3>1, <4>1
      <4>2. CASE k \in 0..(n - 1)
        <5>1. b[k] = Turned(b, k)
          BY <3>2, <4>2
        <5>2. h[k] = b[k] /\ (k # 0 => h[k - 1] = b[k - 1])
          BY <3>1, <4>2
        <5> QED BY <5>1, <5>2
      <4> QED BY <3>1, <4>1, <4>2
    <3>4. h = [k \in 0..n |-> h[k]]
      OBVIOUS
    <3> HIDE DEF h, Turned
    <3>5. h = [k \in 0..n |-> Turned(h, k)]
      BY <3>3, <3>4
    <3>6. Runs(h, n)
      BY <3>5
    <3> HIDE DEF Runs
    <3> QED BY <2>1, <3>6
  <2> QED BY <2>2, <2>3
<1> DEFINE f == CHOOSE h : Runs(h, size)
<1>2. ParseHeaders(c) = f[size]
  BY DEF ParseHeaders
<1>3. \E h : Runs(h, size)
  <2>1. size \in 0..size
    OBVIOUS
  <2> HIDE DEF Runs
  <2> QED BY <1>1, <2>1
<1>4. Runs(f, size)
  <2> HIDE DEF Runs
  <2> QED BY <1>3
<1> HIDE DEF f
<1>5. \A k \in 0..size : f[k] = Turned(f, k)
  <2> HIDE DEF Turned
  <2> QED BY <1>4
<1>6. ParseRuns(c, f)
  BY <1>2, <1>5 DEF ParseRuns
<1> QED BY <1>6

\* When a turn does nothing, nor does the loop.
LEMMA NoTurn ==
  ASSUME NEW c, Len(c.input) \in Nat, HeaderTurn(c) = c
  PROVE ParseHeaders(c) = c
<1>1. PICK f : ParseRuns(c, f)
  BY ParseTurns
<1> DEFINE size == Len(c.input)
           Wrong == {n \in 0..size : f[n] # c}
<1> HIDE DEF size
<1>2. /\ ParseHeaders(c) = f[size] /\ f[0] = c /\ size \in Nat
      /\ \A n \in 1..size : f[n] = HeaderTurn(f[n - 1])
  BY <1>1 DEF ParseRuns, size
<1>3. Wrong = {}
  <2> SUFFICES ASSUME Wrong # {} PROVE FALSE
    OBVIOUS
  <2>1. PICK n \in Wrong : \A l \in Wrong : n <= l
    <3>1. Wrong \subseteq Nat
      BY <1>2
    <3> HIDE DEF Wrong
    <3> QED BY <3>1, LeastOf
  <2>2. n \in 1..size /\ n - 1 \in 0..size /\ n - 1 \notin Wrong
    BY <1>2, <2>1
  <2>3. f[n - 1] = c /\ f[n] = HeaderTurn(f[n - 1])
    BY <1>2, <2>2
  <2> QED BY <2>1, <2>3
<1> QED BY <1>2, <1>3

LEMMA PositionsGrow ==
  ASSUME NEW headers \in Seq(Headers), NEW k \in 0..(Len(headers) + 1), NEW j \in 0..k
  PROVE /\ Position(headers, j) \in Nat /\ Position(headers, k) \in Nat
        /\ Position(headers, j) + (k - j) <= Position(headers, k)
<1> DEFINE n == Len(headers)
<1>1. n \in Nat
  BY LenProperties
<1>2. /\ Position(headers, j) = IF j <= n THEN 3 * (j + 1) ELSE 3 * (n + 1) + 2
      /\ Position(headers, k) = IF k <= n THEN 3 * (k + 1) ELSE 3 * (n + 1) + 2
  BY DEF Position
<1> HIDE DEF n
<1>3. k \in 0..(n + 1) /\ j \in 0..k
  BY DEF n
<1> QED BY <1>1, <1>2, <1>3

\* The lines that came whole are parsed, and no more.
HeadersParsed(m, headers, code, came, k) ==
  \E last \in k..(Len(headers) + 1) :
    /\ Position(headers, last) <= came
    /\ last <= Len(headers) => Position(headers, last + 1) > came
    /\ ParseHeaders(Stage(m, headers, code, came, k)) = Stage(m, headers, code, came, last)

LEMMA ParseHeadersIs ==
  ASSUME NEW m, NEW first, NEW headers \in Seq(Headers), NEW body \in Seq(Texts), NEW code \in Nat,
         IsMessage(m, first, headers, body), NEW came \in 0..Len(m),
         NEW k \in 0..(Len(headers) + 1), Position(headers, k) <= came
  PROVE HeadersParsed(m, headers, code, came, k)
<1> DEFINE n == Len(headers)
           p(i) == Position(headers, i)
           s(i) == Stage(m, headers, code, came, i)
           c == s(k)
           size == Len(c.input)
           Ends == {i \in k..(n + 1) : i = n + 1 \/ p(i + 1) > came}
<1>1. n \in Nat /\ m \in Seq(Texts) /\ Len(m) \in Nat /\ k \in Nat /\ came \in Nat
  BY LenProperties DEF IsMessage
<1>2. \A i \in 0..(n + 1) : p(i) \in Nat
  BY PositionsGrow
<1>3. size = came - p(k) /\ size \in Nat
  <2> DEFINE q == p(k)
             w == Window(m, q, came)
  <2>1. c.input = w
    BY DEF Stage
  <2>2. q \in 0..came
    BY <1>2
  <2> HIDE DEF q
  <2>3. IsWindow(w, m, q, came, Texts)
    BY <1>1, <2>2, WindowIs
  <2> HIDE DEF w, c
  <2> QED BY <1>1, <2>1, <2>2, <2>3 DEF IsWindow, q
<1>4. PICK last \in Ends : \A i \in Ends : last <= i
  <2>1. n + 1 \in Ends /\ Ends \subseteq Nat
    BY <1>1
  <2> HIDE DEF Ends
  <2> QED BY <2>1, LeastOf
<1>5. last \in k..(n + 1) /\ (last <= n => p(last + 1) > came)
  BY <1>1, <1>4
<1>6. \A i \in k..(last - 1) : i <= n /\ p(i + 1) <= came
  <2> SUFFICES ASSUME NEW i \in k..(last - 1) PROVE i <= n /\ p(i + 1) <= came
    OBVIOUS
  <2>1. i \in k..(n + 1) /\ i # n + 1 /\ i < last /\ i + 1 \in 0..(n + 1) /\ i <= n
    BY <1>1, <1>5
  <2>2. i \notin Ends
    BY <1>4, <2>1
  <2>3. ~(p(i + 1) > came)
    BY <2>1, <2>2
  <2> HIDE DEF p
  <2> QED BY <1>1, <1>2, <2>1, <2>3
<1> HIDE DEF Ends
<1>7. \A i \in k..last : p(i) <= came
  <2> SUFFICES ASSUME NEW i \in k..last PROVE p(i) <= came
    OBVIOUS
  <2>1. CASE i = k
    BY <2>1
  <2>2. CASE i # k
    <3> DEFINE j == i - 1
    <3>1. j \in k..(last - 1) /\ j + 1 = i
      BY <1>1, <1>5, <2>2
    <3> HIDE DEF j, p
    <3> QED BY <1>6, <3>1
  <2> QED BY <2>1, <2>2
<1>8. last - k <= size
  <2>1. p(k) + (last - k) <= p(last)
    BY <1>1, <1>5, PositionsGrow
  <2>2. p(last) <= came /\ p(last) \in Nat /\ p(k) \in Nat
    BY <1>1, <1>2, <1>5, <1>7
  <2> HIDE DEF p, size
  <2> QED BY <1>1, <1>3, <1>5, <2>1, <2>2
<1>9. ASSUME NEW i \in k..last
      PROVE HeaderTurn(s(i)) = IF i = last THEN s(i) ELSE s(i + 1)
  <2>1. HeaderTurnsAt(m, headers, code, came, i)
    <3>1. i \in 0..(Len(headers) + 1) /\ Position(headers, i) <= came
      BY <1>1, <1>5, <1>7
    <3> QED BY <3>1, HeaderTurnIs
  <2>2. CASE i = last
    <3>1. ~(i <= n /\ p(i + 1) <= came)
      <4>1. i <= n => p(i + 1) > came /\ p(i + 1) \in Nat
        BY <1>1, <1>2, <1>5, <2>2
      <4> HIDE DEF p
      <4> QED BY <1>1, <4>1
    <3> QED BY <2>1, <2>2, <3>1 DEF HeaderTurnsAt
  <2>3. CASE i # last
    <3>1. i \in k..(last - 1)
      BY <1>1, <1>5, <2>3
    <3>2. i <= n /\ p(i + 1) <= came
      BY <1>6, <3>1
    <3> QED BY <2>1, <2>3, <3>2 DEF HeaderTurnsAt
  <2> QED BY <2>2, <2>3
<1>10. PICK f : ParseRuns(c, f)
  <2> HIDE DEF c
  <2> QED BY <1>3, ParseTurns
<1> HIDE DEF s, p, size
<1>11. /\ ParseHeaders(c) = f[size] /\ f[0] = c
       /\ \A i \in 1..size : f[i] = HeaderTurn(f[i - 1])
  BY <1>10 DEF ParseRuns, size
<1> DEFINE at(i) == IF k + i < last THEN k + i ELSE last
           Wrong == {i \in 0..size : f[i] # s(at(i))}
<1> HIDE DEF c
<1>12. Wrong = {}
  <2> SUFFICES ASSUME Wrong # {} PROVE FALSE
    OBVIOUS
  <2>1. PICK i \in Wrong : \A l \in Wrong : i <= l
    <3>1. Wrong \subseteq Nat
      BY <1>3
    <3> HIDE DEF Wrong
    <3> QED BY <3>1, LeastOf
  <2>2. i # 0
    <3>1. at(0) = k
      BY <1>1, <1>5
    <3> HIDE DEF at
    <3> QED BY <1>11, <2>1, <3>1 DEF c
  <2>3. i \in 1..size /\ i - 1 \in 0..size /\ i - 1 \notin Wrong
    BY <1>3, <2>1, <2>2
  <2>4. f[i - 1] = s(at(i - 1))
    BY <2>3
  <2>5. f[i] = HeaderTurn(s(at(i - 1)))
    <3> HIDE DEF at
    <3> QED BY <1>11, <2>3, <2>4
  <2>6. at(i - 1) \in k..last /\ (at(i - 1) # last => at(i) = at(i - 1) + 1) /\ (at(i - 1) = last => at(i) = last)
    BY <1>1, <1>5, <2>3
  <2>7. f[i] = s(at(i))
    <3> HIDE DEF at
    <3> QED BY <1>9, <2>5, <2>6
  <2> QED BY <2>1, <2>7
<1>13. ParseHeaders(c) = s(last)
  <2>1. size \in 0..size /\ at(size) = last
    BY <1>1, <1>3, <1>5, <1>8
  <2> HIDE DEF at
  <2> QED BY <1>11, <1>12, <2>1
<1>14. p(last) <= came
  BY <1>1, <1>5, <1>7
<1>15. last \in k..(Len(headers) + 1) /\ Position(headers, last) <= came
       /\ (last <= Len(headers) => Position(headers, last + 1) > came)
  BY <1>5, <1>14 DEF p
<1>16. ParseHeaders(Stage(m, headers, code, came, k)) = Stage(m, headers, code, came, last)
  BY <1>13 DEF c, s
<1> QED BY <1>15, <1>16 DEF HeadersParsed
\* A connection on which what came of the response is parsed as far as it can be.
Connection(st, text, r) == [state |-> st, input |-> text, req |-> r]
ParsedHeaders(n, k, size) == [code |-> n, headers |-> SubSeq(ResponseHeaders(n, size), 1, k), body |-> <<>>]
ParsedRight(c, n, size, came) ==
  \/ c = Connection("READING_FIRSTLINE", Window(Response(n, size), 0, came), NewRequest)
  \/ \E k \in 0..Len(ResponseHeaders(n, size)) :
       /\ 3 * (k + 1) <= came
       /\ c = Connection("READING_HEADERS", Window(Response(n, size), 3 * (k + 1), came), ParsedHeaders(n, k, size))
  \/ LET head == Len(Response(n, size)) - size IN
       /\ head <= came
       /\ c = Connection("READING_BODY", Window(Response(n, size), head, came),
                ParsedHeaders(n, Len(ResponseHeaders(n, size)), size))

LEMMA FirstlineParsed ==
  ASSUME NEW n \in Nat \ {0}, NEW size \in Nat, NEW came \in 0..Len(Response(n, size))
  PROVE LET c == Connection("READING_FIRSTLINE", Window(Response(n, size), 0, came), NewRequest) IN
        /\ came < 2 => ParseFirstline(c) = c
        /\ came > 2 => ParseFirstline(c) = Stage(Response(n, size), ResponseHeaders(n, size), n, came, 0)
<1> DEFINE m == Response(n, size)
           hs == ResponseHeaders(n, size)
           first == Text("status", n)
           w == Window(m, 0, came)
           c == Connection("READING_FIRSTLINE", w, NewRequest)
           E == {i \in 1..Len(w) : IsEol(w[i])}
           eol == SelectInSeq(w, IsEol)
           F(e) == {i \in e..Len(w) : ~IsEol(w[i])}
           next(e) == SelectInSubSeq(w, e, Len(w), LAMBDA t : ~IsEol(t))
<1>1. /\ m \in Seq(Texts) /\ Len(m) >= 4 /\ Len(m) \in Nat
      /\ m[1] = first /\ m[2] = CR /\ m[3] = LF /\ m[4] \in Headers
  <2> DEFINE b == Body(size)
  <2>1. IsMessage(m, first, hs, b)
    BY ResponseIsMessage
  <2>2. hs \in Seq(Headers) /\ Len(hs) \in 1..2
    BY ResponseHeadersTell DEF TellSize
  <2>3. Len(b) \in Nat
    BY BodyIs
  <2> HIDE DEF m, hs, b, first
  <2>4. m \in Seq(Texts) /\ Len(m) = 3 * (Len(hs) + 1) + 2 + Len(b) /\ m[1] = first /\ m[2] = CR /\ m[3] = LF
        /\ \A k \in 1..Len(hs) : m[3 * k + 1] = hs[k]
    BY <2>1 DEF IsMessage
  <2>5. 1 \in 1..Len(hs) /\ 3 * 1 + 1 = 4
    <3> DEFINE l == Len(hs)
    <3>1. l \in 1..2
      BY <2>2
    <3> HIDE DEF l
    <3>2. 1 \in 1..l
      BY <3>1
    <3>3. 3 * 1 + 1 = 4
      OBVIOUS
    <3> QED BY <3>2, <3>3 DEF l
  <2>6. m[4] = hs[1] /\ hs[1] \in Headers
    BY <2>2, <2>4, <2>5
  <2> QED BY <2>2, <2>3, <2>4, <2>6, LenProperties
<1> HIDE DEF m
<1>2. w \in Seq(Texts) /\ Len(w) = came /\ \A i \in 1..came : w[i] = m[i]
  <2>1. IsWindow(w, m, 0, came, Texts)
    BY <1>1, WindowIs DEF m
  <2> HIDE DEF w
  <2>2. came \in Nat /\ came - 0 = came /\ \A i \in 1..came : 0 + i = i
    BY <1>1
  <2> QED BY <2>1, <2>2 DEF IsWindow
<1>3. ~IsEol(first) /\ IsEol(CR) /\ IsEol(LF) /\ ~IsEol(m[4]) /\ first.kind = "status" /\ first.value = n
  BY <1>1 DEF IsEol, CR, LF, Text, Headers
<1>4. eol = IF E # {} THEN Min(E) ELSE 0
  BY DEF SelectInSeq
<1>5. \A e : next(e) = IF F(e) # {} THEN Min(F(e)) ELSE 0
  BY DEF SelectInSubSeq
<1>6. c.state = "READING_FIRSTLINE" /\ c.input = w /\ c.req = NewRequest
  BY DEF Connection
<1>7. ParseFirstline(c) =
        IF eol = 0 THEN c
        ELSE IF ~ResponseLine(SubSeq(w, 1, eol - 1)) THEN [c EXCEPT !.state = "CORRUPTED"]
        ELSE [c EXCEPT !.input = IF next(eol) = 0 THEN <<>> ELSE After(@, next(eol) - 1),
                       !.req.code = w[1].value, !.state = "READING_HEADERS"]
  <2> HIDE DEF w
  <2> QED BY <1>6 DEF ParseFirstline
<1> HIDE DEF w, first
<1>8. CASE came < 2
  <2>1. \A i \in 1..Len(w) : i = 1
    BY <1>1, <1>2, <1>8
  <2>2. \A i \in 1..Len(w) : w[i] = first
    BY <1>1, <1>2, <2>1
  <2>3. E = {}
    BY <1>3, <2>2
  <2> HIDE DEF E, eol
  <2>4. eol = 0
    BY <1>4, <2>3
  <2>5. ParseFirstline(c) = c
    BY <1>7, <2>4
  <2>6. ~(came > 2)
    BY <1>8
  <2> QED BY <2>5, <2>6 DEF w, m
<1>9. CASE came > 2
  <2>1. 1 \in 1..came /\ 2 \in 1..came /\ 3 \in 1..came
    BY <1>9
  <2>2. w[1] = first /\ w[2] = CR /\ w[3] = LF
    BY <1>1, <1>2, <2>1
  <2>3. eol = 2
    <3>1. 2 \in E /\ 1 \notin E /\ E \subseteq Int /\ \A i \in E : i = 1 \/ 2 <= i
      BY <1>2, <1>3, <2>1, <2>2
    <3>2. \A i \in E : 2 <= i
      BY <3>1
    <3>3. E # {}
      BY <3>1
    <3> HIDE DEF E, eol
    <3>4. Min(E) = 2
      BY <3>1, <3>2, LeastIsMin
    <3> QED BY <1>4, <3>3, <3>4
  <2>4. SubSeq(w, 1, 1) = <<first>>
    <3> DEFINE x == SubSeq(w, 1, 1)
    <3>1. x \in Seq(Texts) /\ Len(x) = 1 /\ \A i \in 1..1 : x[i] = w[i]
      <4>1. 1 \in 0..Len(w)
        BY <1>2, <2>1
      <4> QED BY <1>2, <4>1, Cut DEF IsCut
    <3> HIDE DEF x
    <3>2. x[1] = first /\ first \in Texts
      BY <2>2, <3>1, TextIs DEF first
    <3> DEFINE y == <<first>>
    <3>3. y \in Seq(Texts) /\ Len(y) = 1 /\ \A i \in 1..1 : y[i] = first /\ i = 1
      BY <3>2
    <3> HIDE DEF y
    <3>4. x = y
      BY <3>1, <3>2, <3>3, SameSeq
    <3> QED BY <3>4 DEF x, y
  <2>5. ResponseLine(SubSeq(w, 1, eol - 1))
    <3>1. Len(<<first>>) = 1 /\ (<<first>>)[1] = first
      OBVIOUS
    <3>2. SubSeq(w, 1, eol - 1) = <<first>>
      <4> HIDE DEF eol
      <4> QED BY <2>3, <2>4
    <3> DEFINE y == <<first>>
    <3> HIDE DEF y, eol
    <3>3. Len(y) = 1 /\ y[1] = first /\ SubSeq(w, 1, eol - 1) = y
      BY <3>1, <3>2 DEF y
    <3> QED BY <1>3, <3>3 DEF ResponseLine
  <2> DEFINE text == IF next(eol) = 0 THEN <<>> ELSE After(w, next(eol) - 1)
  <2>6. text = Window(m, 3, came)
    <3>1. IsWindow(Window(m, 3, came), m, 3, came, Texts)
      <4>1. came \in 0..Len(m) /\ 3 \in 0..came
        BY <2>1 DEF m
      <4> QED BY <1>1, <4>1, WindowIs
    <3>2. CASE came = 3
      <4>1. F(2) = {}
        <5>1. \A i \in 2..Len(w) : i = 2 \/ i = 3
          BY <1>2, <3>2
        <5> QED BY <1>3, <2>2, <5>1
      <4>2. next(2) = 0
        <5> HIDE DEF F, next
        <5> QED BY <1>5, <4>1
      <4>3. text = <<>>
        <5> HIDE DEF next, eol
        <5> QED BY <2>3, <4>2
      <4>4. Window(m, 3, came) \in Seq(Texts) /\ Len(Window(m, 3, came)) = 0
        BY <3>1, <3>2 DEF IsWindow
      <4> HIDE DEF text
      <4> QED BY <4>3, <4>4, EmptySeq
    <3>3. CASE came > 3
      <4>1. w[4] = m[4] /\ 4 \in 2..Len(w)
        <5>1. 4 \in 1..came
          BY <3>3
        <5> QED BY <1>2, <5>1
      <4>2. 4 \in F(2) /\ F(2) \subseteq Int /\ 2 \notin F(2) /\ 3 \notin F(2)
        BY <1>3, <2>2, <4>1
      <4>3. \A i \in F(2) : 4 <= i
        <5>1. \A i \in F(2) : i \in Int /\ 2 <= i
          OBVIOUS
        <5> HIDE DEF F
        <5> QED BY <4>2, <5>1
      <4>4. next(2) = 4
        <5> DEFINE f == F(2)
        <5> HIDE DEF F, next
        <5>1. Min(f) = 4
          <6> HIDE DEF f
          <6>1. 4 \in f /\ f \subseteq Int /\ \A i \in f : 4 <= i
            BY <4>2, <4>3 DEF f
          <6> QED BY <6>1, LeastIsMin
        <5>2. next(2) = IF F(2) # {} THEN Min(F(2)) ELSE 0
          BY <1>5
        <5> QED BY <4>2, <5>1, <5>2
      <4>5. text = After(w, 3)
        <5> HIDE DEF next, eol
        <5> QED BY <2>3, <4>4
      <4>6. After(Window(m, 0, came), 3) = Window(m, 0 + 3, came)
        <5>1. came \in 0..Len(m) /\ 0 \in 0..came /\ 3 \in 0..(came - 0)
          BY <2>1 DEF m
        <5> QED BY <1>1, <5>1, WindowAfter
      <4> HIDE DEF text
      <4> QED BY <4>5, <4>6 DEF w
    <3> QED BY <1>9, <3>2, <3>3
  <2> DEFINE rest == Window(m, 3, came)
  <2>7. w[1].value = n
    BY <1>3, <2>2
  <2>8. ParseFirstline(c) = Connection("READING_HEADERS", rest, [code |-> n, headers |-> <<>>, body |-> <<>>])
    <3>1. c = [state |-> "READING_FIRSTLINE", input |-> w, req |-> [code |-> 0, headers |-> <<>>, body |-> <<>>]]
      BY DEF Connection, NewRequest
    <3>2. eol # 0
      <4> HIDE DEF eol
      <4> QED BY <2>3
    <3>3. ParseFirstline(c) = [c EXCEPT !.input = text, !.req.code = n, !.state = "READING_HEADERS"]
      <4> HIDE DEF eol, next, c
      <4> QED BY <1>6, <1>7, <2>5, <2>7, <3>2
    <3> HIDE DEF text, rest, c
    <3>4. text = rest
      BY <2>6 DEF rest
    <3> QED BY <3>1, <3>3, <3>4 DEF Connection
  <2>9. Stage(m, hs, n, came, 0) = Connection("READING_HEADERS", rest, [code |-> n, headers |-> <<>>, body |-> <<>>])
    <3>1. hs \in Seq(Headers) /\ Len(hs) \in 1..2
      BY ResponseHeadersTell DEF TellSize
    <3> HIDE DEF hs
    <3>2. 0 <= Len(hs) /\ 3 * (0 + 1) = 3
      BY <3>1
    <3>3. SubSeq(hs, 1, 0) = <<>>
      BY <3>1, EmptySeq
    <3> QED BY <3>2, <3>3 DEF Stage, Position, Connection
  <2>10. ParseFirstline(c) = Stage(m, hs, n, came, 0)
    <3> HIDE DEF c, rest, hs
    <3> QED BY <2>8, <2>9
  <2>11. ~(came < 2)
    BY <1>9
  <2> QED BY <2>10, <2>11 DEF w, m
<1>10. CASE came = 2
  <2>1. ~(came < 2) /\ ~(came > 2)
    BY <1>10
  <2> QED BY <2>1
<1> QED BY <1>8, <1>9, <1>10
\* The stages of a response.
LEMMA StageIs ==
  ASSUME NEW n \in Nat \ {0}, NEW size \in Nat, NEW came
  PROVE LET m == Response(n, size)
            hs == ResponseHeaders(n, size)
        IN /\ \A k \in 0..Len(hs) :
                /\ Position(hs, k) = 3 * (k + 1)
                /\ Stage(m, hs, n, came, k)
                     = Connection("READING_HEADERS", Window(m, 3 * (k + 1), came), ParsedHeaders(n, k, size))
           /\ Position(hs, Len(hs) + 1) = Len(m) - size
           /\ Stage(m, hs, n, came, Len(hs) + 1)
                = Connection("READING_BODY", Window(m, Len(m) - size, came), ParsedHeaders(n, Len(hs), size))
           /\ Len(m) - size \in Nat /\ Len(m) \in Nat /\ Len(hs) \in 1..2 /\ m \in Seq(Texts)
<1> DEFINE m == Response(n, size)
           hs == ResponseHeaders(n, size)
           b == Body(size)
<1>1. hs \in Seq(Headers) /\ Len(hs) \in 1..2 /\ Len(b) = size
  BY ResponseHeadersTell, BodyIs DEF TellSize
<1>2. m \in Seq(Texts) /\ Len(m) = 3 * (Len(hs) + 1) + 2 + Len(b)
  <2>1. IsMessage(m, Text("status", n), hs, b)
    BY ResponseIsMessage
  <2> HIDE DEF m, hs, b
  <2> QED BY <2>1 DEF IsMessage
<1> DEFINE p == 3 * (Len(hs) + 1) + 2
<1>3. Len(m) - size = p /\ p \in Nat /\ Len(m) \in Nat
  <2> HIDE DEF m, hs, b
  <2> QED BY <1>1, <1>2
<1>4. ~(Len(hs) + 1 <= Len(hs))
  <2> HIDE DEF hs
  <2> QED BY <1>1
<1>5. Position(hs, Len(hs) + 1) = p
  <2> HIDE DEF hs
  <2> QED BY <1>4 DEF Position
<1>6. ASSUME NEW k \in 0..Len(hs)
      PROVE /\ Position(hs, k) = 3 * (k + 1)
            /\ Stage(m, hs, n, came, k)
                 = Connection("READING_HEADERS", Window(m, 3 * (k + 1), came), ParsedHeaders(n, k, size))
  <2>1. k <= Len(hs)
    OBVIOUS
  <2>2. Position(hs, k) = 3 * (k + 1)
    BY <2>1 DEF Position
  <2> QED BY <2>1, <2>2 DEF Stage, Connection, ParsedHeaders
<1>7. Stage(m, hs, n, came, Len(hs) + 1)
        = Connection("READING_BODY", Window(m, Len(m) - size, came), ParsedHeaders(n, Len(hs), size))
  <2> HIDE DEF p
  <2> QED BY <1>3, <1>4, <1>5 DEF Stage, Connection, ParsedHeaders
<1> HIDE DEF p
<1> QED BY <1>1, <1>2, <1>3, <1>5, <1>6, <1>7

\* What evrtsp_read_message comes to.
ParsedTo(r, n, size, came) ==
  \/ /\ ParsedRight(r, n, size, came) /\ came < Len(Response(n, size))
     /\ r.state \in {"READING_FIRSTLINE", "READING_HEADERS", "READING_BODY"}
  \/ r = Connection("DONE", <<>>, WholeResponse(n, size)) /\ came = Len(Response(n, size))

\* The body is read when all of it came.
LEMMA BodyRead ==
  ASSUME NEW n \in Nat \ {0}, NEW size \in Nat, NEW came \in 0..Len(Response(n, size)),
         NEW last \in 0..(Len(ResponseHeaders(n, size)) + 1),
         Position(ResponseHeaders(n, size), last) <= came,
         last <= Len(ResponseHeaders(n, size)) => Position(ResponseHeaders(n, size), last + 1) > came
  PROVE ParsedTo(ReadBody(Stage(Response(n, size), ResponseHeaders(n, size), n, came, last)), n, size, came)
<1> DEFINE m == Response(n, size)
           hs == ResponseHeaders(n, size)
           c == Stage(m, hs, n, came, last)
           p == Len(m) - size
           w == Window(m, p, came)
           l == Len(hs)
           r == ReadBody(c)
<1>1. /\ \A k \in 0..l :
           /\ Position(hs, k) = 3 * (k + 1)
           /\ Stage(m, hs, n, came, k)
                = Connection("READING_HEADERS", Window(m, 3 * (k + 1), came), ParsedHeaders(n, k, size))
      /\ Position(hs, l + 1) = p
      /\ Stage(m, hs, n, came, l + 1) = Connection("READING_BODY", w, ParsedHeaders(n, l, size))
      /\ p \in Nat /\ Len(m) \in Nat /\ l \in 1..2 /\ m \in Seq(Texts)
  BY StageIs
<1>2. hs \in Seq(Headers) /\ BodyLength(hs) = size /\ came \in 0..Len(m) /\ last \in 0..(l + 1)
  BY ResponseHeadersTell DEF TellSize
<1> HIDE DEF m, hs
<1>3. CASE last <= l
  <2>1. last \in 0..l
    BY <1>1, <1>2, <1>3
  <2>2. c = Connection("READING_HEADERS", Window(m, 3 * (last + 1), came), ParsedHeaders(n, last, size))
    BY <1>1, <2>1
  <2>3. 3 * (last + 1) <= came
    <3>1. Position(hs, last) <= came
      BY DEF hs
    <3> QED BY <1>1, <2>1, <3>1
  <2>4. r = c /\ c.state = "READING_HEADERS"
    <3> HIDE DEF c
    <3>1. c.state = "READING_HEADERS"
      BY <2>2 DEF Connection
    <3> QED BY <3>1 DEF ReadBody
  <2>5. came < Len(m)
    <3>1. last + 1 \in 0..(l + 1) /\ Position(hs, last + 1) > came
      BY <1>1, <1>3, <2>1 DEF hs
    <3>2. Position(hs, last + 1) <= Position(hs, l + 1) /\ Position(hs, last + 1) \in Nat
      <4> DEFINE j == last + 1
                 k == l + 1
      <4>1. k \in 0..(Len(hs) + 1) /\ j \in 0..k
        BY <1>1, <3>1
      <4> HIDE DEF j, k
      <4>2. Position(hs, j) \in Nat /\ Position(hs, k) \in Nat /\ Position(hs, j) + (k - j) <= Position(hs, k)
        BY <1>2, <4>1, PositionsGrow
      <4> DEFINE x == Position(hs, j)
                 y == Position(hs, k)
      <4>3. x <= y
        <5>1. x \in Nat /\ y \in Nat /\ x + (k - j) <= y /\ k - j \in Nat
          BY <1>1, <4>1, <4>2
        <5> HIDE DEF x, y
        <5> QED BY <5>1
      <4> QED BY <4>2, <4>3 DEF j, k
    <3> DEFINE x == Position(hs, last + 1)
    <3>3. x \in Nat /\ x > came /\ x <= p /\ p <= Len(m)
      BY <1>1, <3>1, <3>2
    <3> HIDE DEF x, p
    <3> QED BY <1>1, <1>2, <3>3
  <2>6. ParsedRight(c, n, size, came)
    <3> HIDE DEF c
    <3> QED BY <2>1, <2>2, <2>3 DEF ParsedRight, m, hs
  <2> HIDE DEF c, r
  <2>7. ParsedTo(r, n, size, came)
    BY <2>4, <2>5, <2>6 DEF ParsedTo, m
  <2> QED BY <2>7 DEF r, c, m, hs
<1>4. CASE last = l + 1
  <2>1. c = Connection("READING_BODY", w, ParsedHeaders(n, l, size))
    BY <1>1, <1>4
  <2>2. p <= came
    <3>1. Position(hs, last) <= came
      BY DEF hs
    <3> QED BY <1>1, <1>4, <3>1
  <2>3. IsWindow(w, m, p, came, Texts)
    <3>1. p \in 0..came
      BY <1>1, <1>2, <2>2
    <3> HIDE DEF p
    <3> QED BY <1>1, <1>2, <3>1, WindowIs
  <2> DEFINE q == ParsedHeaders(n, l, size)
  <2>4. q = [code |-> n, headers |-> hs, body |-> <<>>]
    <3>1. SubSeq(hs, 1, Len(hs)) = hs
      BY <1>2
    <3> QED BY <3>1 DEF ParsedHeaders, hs
  <2>5. c = [state |-> "READING_BODY", input |-> w, req |-> q]
    BY <2>1 DEF Connection
  <2> HIDE DEF w, q, c
  <2>6. c.state = "READING_BODY" /\ c.input = w /\ c.req.headers = hs /\ w \in Seq(Texts) /\ Len(w) = came - p
    BY <2>3, <2>4, <2>5 DEF IsWindow
  <2>7. CASE came < Len(m)
    <3>1. Len(w) < size
      <4>1. Len(m) = p + size
        BY <1>1
      <4> HIDE DEF p
      <4> QED BY <1>1, <1>2, <2>6, <2>7, <4>1
    <3>2. r = c
      BY <1>2, <2>6, <3>1 DEF ReadBody
    <3>3. ParsedRight(c, n, size, came)
      BY <2>1, <2>2 DEF ParsedRight, m, hs, w, q
    <3> HIDE DEF r
    <3>4. ParsedTo(r, n, size, came)
      BY <2>6, <2>7, <3>2, <3>3 DEF ParsedTo, m
    <3> QED BY <3>4 DEF r, c, m, hs
  <2>8. CASE came = Len(m)
    <3>1. Len(w) = size /\ ~(Len(w) < size)
      <4>1. Len(m) = p + size
        BY <1>1
      <4> HIDE DEF p
      <4> QED BY <1>1, <1>2, <2>6, <2>8, <4>1
    <3> DEFINE text == SubSeq(w, 1, size)
               rest == After(w, size)
    <3>2. text = Body(size)
      <4>1. IsMessage(m, Text("status", n), hs, Body(size))
        BY ResponseIsMessage DEF m, hs
      <4>2. Body(size) \in Seq(Texts) /\ Len(Body(size)) = size
        BY BodyIs
      <4> DEFINE b == Body(size)
      <4> HIDE DEF b
      <4>3. Len(m) = 3 * (Len(hs) + 1) + 2 + Len(b) /\ \A i \in 1..Len(b) : m[3 * (Len(hs) + 1) + 2 + i] = b[i]
        BY <4>1 DEF IsMessage, b
      <4>4. 3 * (Len(hs) + 1) + 2 = p
        BY <1>1, <4>2, <4>3 DEF b
      <4>5. \A i \in 1..size : m[p + i] = b[i]
        <5> HIDE DEF p
        <5> QED BY <4>2, <4>3, <4>4 DEF b
      <4>6. \A i \in 1..size : w[i] = b[i]
        <5>1. came - p = size
          BY <2>6, <3>1
        <5> HIDE DEF p
        <5> QED BY <2>3, <4>5, <5>1 DEF IsWindow
      <4>7. text \in Seq(Texts) /\ Len(text) = size /\ \A i \in 1..size : text[i] = w[i]
        <5>1. size \in 0..Len(w)
          BY <3>1
        <5> QED BY <2>6, <5>1, Cut DEF IsCut
      <4>8. b \in Seq(Texts) /\ Len(b) = size
        BY <4>2 DEF b
      <4> HIDE DEF text
      <4>9. text = b
        BY <4>6, <4>7, <4>8, SameSeq
      <4> QED BY <4>9 DEF text, b
    <3>3. rest = <<>>
      <4>1. rest \in Seq(Texts) /\ Len(rest) = Len(w) - size
        <5>1. size \in 0..Len(w)
          BY <3>1
        <5> QED BY <2>6, <5>1, Cut DEF IsCut, After
      <4>2. Len(rest) = 0
        <5> HIDE DEF rest
        <5> QED BY <3>1, <4>1
      <4> HIDE DEF rest
      <4> QED BY <4>1, <4>2, EmptySeq
    <3>4. r = [c EXCEPT !.req.body = text, !.state = "DONE", !.input = rest]
      BY <1>2, <2>6, <3>1 DEF ReadBody
    <3> HIDE DEF text, rest
    <3>5. r = [state |-> "DONE", input |-> <<>>, req |-> [code |-> n, headers |-> hs, body |-> text]]
      <4>1. c = [state |-> "READING_BODY", input |-> w, req |-> [code |-> n, headers |-> hs, body |-> <<>>]]
        BY <2>4, <2>5
      <4> HIDE DEF r
      <4> QED BY <3>3, <3>4, <4>1
    <3>6. WholeResponse(n, size) = [code |-> n, headers |-> hs, body |-> text]
      BY <3>2 DEF WholeResponse, hs
    <3> HIDE DEF r
    <3>7. r = Connection("DONE", <<>>, WholeResponse(n, size))
      BY <3>5, <3>6 DEF Connection
    <3>8. ParsedTo(r, n, size, came)
      BY <2>8, <3>7 DEF ParsedTo, m
    <3> QED BY <3>8 DEF r, c, m, hs
  <2> QED BY <1>1, <1>2, <2>7, <2>8
<1> QED BY <1>1, <1>2, <1>3, <1>4
-----------------------------------------------------------------------------
(* The invariant of the connection *)

Responses == [code : Nat, headers : Seq(Texts), body : Seq(Texts)]

\* What a buffer holds of a text, with the ciphering on or off, and the blocks it takes.
BytesOf(cb) == IF cb THEN Wire(Texts) ELSE Texts
OnWire(cb, bytes, key, counter, text) ==
  IF cb THEN Ciphered(bytes, key, counter, text, Texts) ELSE bytes = text
BlocksOf(cb, text) == IF cb THEN Blocks(text) ELSE 0

ConnectionType ==
  /\ state \in {"IDLE", "WRITING", "READING_FIRSTLINE", "READING_HEADERS", "READING_BODY", "DISCONNECTED"}
  /\ encrypted \in Nat /\ decrypted \in Nat /\ written \in Nat /\ served \in Nat
  /\ ciphercb \in BOOLEAN /\ closed \in BOOLEAN
  /\ answered \in Seq(Responses) /\ delivered \in Seq(Responses)

\* Nothing of a response is on its way, in a buffer or parsed, and none was lost.
NothingRead ==
  /\ stream = <<>> /\ input_raw = <<>> /\ input = <<>> /\ req = NewRequest
  /\ delivered = answered /\ decrypted = encrypted

NothingWritten == output_raw = <<>> /\ arrived = <<>> /\ served = written

IdleRight == state = "IDLE" => NothingRead /\ NothingWritten

\* What the device has and what is still to write are the request of the given size.
WritingOf(size) ==
  LET text == RequestText(Len(answered) + 1, size) IN
  /\ OnWire(ciphercb, arrived \o output_raw, EncryptionKey(0), served, text)
  /\ written = served + BlocksOf(ciphercb, text)

WritingRight == state = "WRITING" =>
  /\ NothingRead /\ output_raw # <<>>
  /\ arrived \in Seq(BytesOf(ciphercb)) /\ output_raw \in Seq(BytesOf(ciphercb))
  /\ \E size \in Bodies : WritingOf(size)

\* Some of the response of the given size came and is parsed as far as it can be; the bytes not
\* decrypted and those to come are the rest of it.
ReadingOf(size, came) ==
  LET n == Len(answered)
      text == Window(Response(n, size), came, Len(Response(n, size))) IN
  /\ answered = Append(delivered, WholeResponse(n, size))
  /\ came \in 0..Len(Response(n, size))
  /\ OnWire(ciphercb, input_raw \o stream, Key, decrypted, text)
  /\ encrypted = decrypted + BlocksOf(ciphercb, text)
  /\ ParsedRight(Connection(state, input, req), n, size, came)

ReadingRight == Reading =>
  /\ NothingWritten /\ stream # <<>> /\ (~ciphercb => input_raw = <<>>)
  /\ input_raw \in Seq(BytesOf(ciphercb)) /\ stream \in Seq(BytesOf(ciphercb))
  /\ Len(answered) # 0
  /\ \E size \in Bodies, came \in Nat : ReadingOf(size, came)

DisconnectedRight == state = "DISCONNECTED" => stream = <<>> /\ IsPrefix(delivered, answered)

FailedRight == failed \in {"no", "timeout"} \/ (failed = "cipher" /\ "byte" \in cuts)

Sound ==
  ConnectionType /\ IdleRight /\ WritingRight /\ ReadingRight /\ DisconnectedRight /\ FailedRight

\* Once the device closed the connection, or a status line was cut, anything may be left of a
\* response.
ReadInv == closed \/ "cr" \in cuts \/ Sound
-----------------------------------------------------------------------------
\* What follows the first c of a text, cut in two.
SplitAt(m, c, data, rem) ==
  LET d == c + Len(data) IN
  d \in c..Len(m) /\ data = Window(m, c, d) /\ rem = Window(m, d, Len(m))
LEMMA SplitWindow ==
  ASSUME NEW T, NEW m \in Seq(T), NEW c \in 0..Len(m), NEW data \in Seq(T), NEW rem \in Seq(T),
         data \o rem = Window(m, c, Len(m))
  PROVE SplitAt(m, c, data, rem)
<1> DEFINE l == Len(m)
           d == c + Len(data)
           w == Window(m, c, l)
           a == Window(m, c, d)
           b == Window(m, d, l)
<1>1. l \in Nat /\ Len(data) \in Nat /\ Len(rem) \in Nat /\ c \in 0..l
  BY LenProperties
<1> HIDE DEF l
<1>2. IsWindow(w, m, c, l, T)
  <2>1. l \in 0..Len(m) /\ c \in 0..l
    BY <1>1 DEF l
  <2> QED BY <2>1, WindowIs
<1>3. IsJoin(w, data, rem, T)
  BY Joined DEF l
<1> HIDE DEF w
<1>4. w \in Seq(T) /\ Len(w) = l - c /\ \A i \in 1..(l - c) : w[i] = m[c + i]
  BY <1>2 DEF IsWindow
<1>5. Len(w) = Len(data) + Len(rem) /\ (\A i \in 1..Len(data) : w[i] = data[i])
      /\ \A i \in 1..Len(rem) : w[Len(data) + i] = rem[i]
  BY <1>3 DEF IsJoin
<1>6. d \in c..l /\ d \in Nat /\ d - c = Len(data) /\ l - d = Len(rem) /\ d \in 0..Len(m) /\ d \in 0..l
  <2>1. Len(data) + Len(rem) = l - c
    BY <1>4, <1>5
  <2>2. d \in c..l /\ d \in Nat /\ d - c = Len(data) /\ l - d = Len(rem) /\ d \in 0..l
    BY <1>1, <2>1
  <2> QED BY <2>2 DEF l
<1> HIDE DEF d
<1>7. IsWindow(a, m, c, d, T) /\ IsWindow(b, m, d, l, T)
  <2>1. c \in 0..d /\ l \in 0..Len(m)
    BY <1>1, <1>6 DEF l
  <2>2. IsWindow(Window(m, c, d), m, c, d, T)
    BY <1>6, <2>1, WindowIs
  <2>3. IsWindow(Window(m, d, l), m, d, l, T)
    BY <1>6, <2>1, WindowIs
  <2> QED BY <2>2, <2>3
<1> HIDE DEF a, b
<1>8. data = a
  <2>1. a \in Seq(T) /\ Len(a) = Len(data) /\ \A i \in 1..Len(data) : a[i] = m[c + i]
    BY <1>6, <1>7 DEF IsWindow
  <2>2. \A i \in 1..Len(data) : i \in 1..(l - c)
    BY <1>1, <1>4, <1>5
  <2>3. \A i \in 1..Len(data) : data[i] = a[i]
    BY <1>4, <1>5, <2>1, <2>2
  <2> QED BY <2>1, <2>3, SameSeq
<1>9. rem = b
  <2>1. b \in Seq(T) /\ Len(b) = Len(rem) /\ \A i \in 1..Len(rem) : b[i] = m[d + i]
    BY <1>6, <1>7 DEF IsWindow
  <2>2. ASSUME NEW i \in 1..Len(rem) PROVE rem[i] = b[i]
    <3>1. Len(data) + i \in 1..(l - c) /\ c + (Len(data) + i) = d + i
      BY <1>1, <1>4, <1>5, <1>6
    <3> QED BY <1>4, <1>5, <2>1, <3>1
  <2> QED BY <2>1, <2>2, SameSeq
<1> QED BY <1>6, <1>8, <1>9 DEF a, b, d, l, SplitAt

\* When more of the response comes.
LEMMA ParsedExtends ==
  ASSUME NEW n \in Nat \ {0}, NEW size \in Nat, NEW d \in 0..Len(Response(n, size)), NEW c \in 0..d,
         NEW st, NEW text, NEW r, ParsedRight(Connection(st, text, r), n, size, c)
  PROVE ParsedRight(Connection(st, text \o Window(Response(n, size), c, d), r), n, size, d)
<1> DEFINE m == Response(n, size)
           hs == ResponseHeaders(n, size)
           head == Len(m) - size
           more == text \o Window(m, c, d)
           x == Connection(st, text, r)
           y == Connection(st, more, r)
<1>1. head \in Nat /\ Len(m) \in Nat /\ Len(hs) \in 1..2 /\ m \in Seq(Texts)
  BY StageIs
<1> HIDE DEF m, hs, head
<1>2. ASSUME NEW p \in 0..c, text = Window(m, p, c) PROVE more = Window(m, p, d)
  <2>1. d \in 0..Len(m)
    BY DEF m
  <2> QED BY <1>1, <1>2, <2>1, WindowJoin
<1> HIDE DEF more
<1>3. \A s, t, q : x = Connection(s, t, q) => st = s /\ text = t /\ r = q
  BY DEF Connection
<1> HIDE DEF x, y
<1>4. CASE x = Connection("READING_FIRSTLINE", Window(m, 0, c), NewRequest)
  <2>1. st = "READING_FIRSTLINE" /\ text = Window(m, 0, c) /\ r = NewRequest
    BY <1>3, <1>4
  <2>2. more = Window(m, 0, d)
    BY <1>2, <2>1
  <2> QED BY <2>1, <2>2 DEF ParsedRight, m, more
<1>5. ASSUME NEW k \in 0..Len(hs), 3 * (k + 1) <= c,
             x = Connection("READING_HEADERS", Window(m, 3 * (k + 1), c), ParsedHeaders(n, k, size))
      PROVE ParsedRight(Connection(st, more, r), n, size, d)
  <2> DEFINE p == 3 * (k + 1)
  <2>1. p \in 0..c /\ p <= d
    BY <1>1, <1>5
  <2>2. st = "READING_HEADERS" /\ text = Window(m, p, c) /\ r = ParsedHeaders(n, k, size)
    BY <1>3, <1>5
  <2> HIDE DEF p
  <2>3. more = Window(m, p, d)
    BY <1>2, <2>1, <2>2
  <2> QED BY <2>1, <2>2, <2>3 DEF ParsedRight, m, hs, p
<1>6. ASSUME head <= c, x = Connection("READING_BODY", Window(m, head, c), ParsedHeaders(n, Len(hs), size))
      PROVE ParsedRight(Connection(st, more, r), n, size, d)
  <2>1. head \in 0..c /\ head <= d
    BY <1>1, <1>6
  <2>2. st = "READING_BODY" /\ text = Window(m, head, c) /\ r = ParsedHeaders(n, Len(hs), size)
    BY <1>3, <1>6
  <2>3. more = Window(m, head, d)
    BY <1>2, <2>1, <2>2
  <2> QED BY <2>1, <2>2, <2>3 DEF ParsedRight, m, hs, head
<1>7. ParsedRight(x, n, size, c)
  BY DEF x
<1> QED BY <1>4, <1>5, <1>6, <1>7 DEF ParsedRight, m, hs, head, more

\* evrtsp_read_message gives the whole response when it came, and nothing before.
LEMMA ParsedIs ==
  ASSUME NEW n \in Nat \ {0}, NEW size \in Nat, NEW came \in 0..Len(Response(n, size)),
         NEW c, ParsedRight(c, n, size, came), c.state = "READING_FIRSTLINE" => came # 2
  PROVE ParsedTo(Parsed(c), n, size, came)
<1> DEFINE m == Response(n, size)
           hs == ResponseHeaders(n, size)
           l == Len(hs)
           head == Len(m) - size
           s(k) == Stage(m, hs, n, came, k)
<1>1. /\ \A k \in 0..l :
           /\ Position(hs, k) = 3 * (k + 1)
           /\ s(k) = Connection("READING_HEADERS", Window(m, 3 * (k + 1), came), ParsedHeaders(n, k, size))
      /\ Position(hs, l + 1) = head
      /\ s(l + 1) = Connection("READING_BODY", Window(m, head, came), ParsedHeaders(n, l, size))
      /\ head \in Nat /\ Len(m) \in Nat /\ l \in 1..2 /\ m \in Seq(Texts)
  BY StageIs
<1>2. ASSUME NEW k \in 0..(l + 1), Position(hs, k) <= came, ParseFirstline(c) = s(k)
      PROVE ParsedTo(Parsed(c), n, size, came)
  <2>1. HeadersParsed(m, hs, n, came, k)
    <3> DEFINE b == Body(size)
               f == Text("status", n)
    <3>1. IsMessage(m, f, hs, b)
      BY ResponseIsMessage
    <3>2. hs \in Seq(Headers) /\ b \in Seq(Texts) /\ n \in Nat /\ came \in 0..Len(m)
      BY ResponseHeadersTell, BodyIs DEF TellSize
    <3> HIDE DEF m, hs, b, f
    <3> QED BY <1>2, <3>1, <3>2, ParseHeadersIs
  <2>2. PICK last \in k..(l + 1) :
          /\ Position(hs, last) <= came /\ (last <= l => Position(hs, last + 1) > came)
          /\ ParseHeaders(s(k)) = s(last)
    BY <2>1 DEF HeadersParsed
  <2>3. last \in 0..(l + 1)
    BY <1>1, <2>2
  <2>4. ParsedTo(ReadBody(s(last)), n, size, came)
    BY <2>2, <2>3, BodyRead
  <2>5. Parsed(c) = ReadBody(s(last))
    <3> HIDE DEF s
    <3> QED BY <1>2, <2>2 DEF Parsed
  <2> QED BY <2>4, <2>5
<1> HIDE DEF m, hs, head
<1>3. ASSUME NEW k \in 0..(l + 1), Position(hs, k) <= came, c = s(k)
      PROVE ParsedTo(Parsed(c), n, size, came)
  <2>1. c.state # "READING_FIRSTLINE"
    BY <1>3 DEF Stage
  <2>2. ParseFirstline(c) = c
    BY <2>1 DEF ParseFirstline
  <2> QED BY <1>2, <1>3, <2>2
<1>4. CASE c = Connection("READING_FIRSTLINE", Window(m, 0, came), NewRequest)
  <2>1. c.state = "READING_FIRSTLINE" /\ c.input = Window(m, 0, came) /\ came # 2
    BY <1>4 DEF Connection
  <2>2. (came < 2 => ParseFirstline(c) = c) /\ (came > 2 => ParseFirstline(c) = s(0))
    BY <1>4, FirstlineParsed DEF m, hs
  <2>3. CASE came < 2
    <3>1. ParseFirstline(c) = c
      BY <2>2, <2>3
    <3>2. HeaderTurn(c) = c
      BY <2>1 DEF HeaderTurn
    <3>3. Len(c.input) \in Nat
      <4>1. came \in 0..Len(m) /\ 0 \in 0..came
        BY DEF m
      <4>2. IsWindow(Window(m, 0, came), m, 0, came, Texts)
        BY <1>1, <4>1, WindowIs
      <4> QED BY <2>1, <4>2, LenProperties DEF IsWindow
    <3>4. ParseHeaders(c) = c
      BY <3>2, <3>3, NoTurn
    <3>5. ReadBody(c) = c
      BY <2>1 DEF ReadBody
    <3>6. Parsed(c) = c
      BY <3>1, <3>4, <3>5 DEF Parsed
    <3>7. came < Len(m)
      <4>1. Position(hs, l) = 3 * (l + 1) /\ Position(hs, l) + ((l + 1) - l) <= Position(hs, l + 1)
        <5>1. l \in 0..l /\ l + 1 \in 0..(l + 1) /\ l \in 0..(l + 1) /\ hs \in Seq(Headers)
          <6>1. hs \in Seq(Headers)
            BY ResponseHeadersTell DEF TellSize, hs
          <6> HIDE DEF l
          <6> QED BY <1>1, <6>1
        <5> DEFINE k == l + 1
        <5>2. k \in 0..(Len(hs) + 1) /\ l \in 0..k
          BY <5>1
        <5> HIDE DEF k
        <5>3. Position(hs, l) + (k - l) <= Position(hs, k)
          BY <5>1, <5>2, PositionsGrow
        <5> QED BY <1>1, <5>1, <5>3 DEF k
      <4>2. head = Len(m) - size
        BY DEF head
      <4> QED BY <1>1, <2>3, <4>1, <4>2
    <3> QED BY <2>1, <3>6, <3>7 DEF ParsedTo, m
  <2>4. CASE came > 2
    <3>1. 0 \in 0..(l + 1) /\ 0 \in 0..l /\ 3 * (0 + 1) <= came
      BY <1>1, <2>4
    <3>2. Position(hs, 0) <= came
      BY <1>1, <3>1
    <3> QED BY <1>2, <2>2, <2>4, <3>1, <3>2
  <2> QED BY <2>1, <2>3, <2>4
<1>5. ASSUME NEW k \in 0..l, 3 * (k + 1) <= came,
             c = Connection("READING_HEADERS", Window(m, 3 * (k + 1), came), ParsedHeaders(n, k, size))
      PROVE ParsedTo(Parsed(c), n, size, came)
  <2>1. k \in 0..(l + 1) /\ Position(hs, k) <= came /\ c = s(k)
    BY <1>1, <1>5
  <2> QED BY <1>3, <2>1
<1>6. ASSUME head <= came, c = Connection("READING_BODY", Window(m, head, came), ParsedHeaders(n, l, size))
      PROVE ParsedTo(Parsed(c), n, size, came)
  <2>1. l + 1 \in 0..(l + 1) /\ Position(hs, l + 1) <= came /\ c = s(l + 1)
    BY <1>1, <1>6
  <2> QED BY <1>3, <2>1
<1> QED BY <1>4, <1>5, <1>6 DEF ParsedRight, m, hs, head
-----------------------------------------------------------------------------
\* The device has all of a request and nothing before.
UnderstoodWhole(n, size, came) ==
  LET m == RequestText(n, size) IN
  /\ Understood(Window(m, 0, came)) <=> came = Len(m)
  /\ m \in Seq(Texts) /\ Len(m) \in Nat /\ Len(m) > 3 /\ m[1].value = n

LEMMA UnderstoodIs ==
  ASSUME NEW n \in Nat, NEW size \in Nat, NEW came \in 0..Len(RequestText(n, size))
  PROVE UnderstoodWhole(n, size, came)
<1> DEFINE m == RequestText(n, size)
           hs == RequestHeaders(n, size)
           b == Body(size)
           f == Text("method", n)
           l == Len(hs)
           p == 3 * (l + 1) + 2
           w == Window(m, 0, came)
           s(k) == Stage(m, hs, 0, came, k)
           c0 == [state |-> "READING_HEADERS", input |-> After(w, LineEnd(w)), req |-> NewRequest]
           c == ParseHeaders(c0)
<1>1. IsMessage(m, f, hs, b)
  BY RequestIsMessage
<1>2. hs \in Seq(Headers) /\ l \in 1..2 /\ BodyLength(hs) = size /\ b \in Seq(Texts) /\ Len(b) = size
  BY RequestHeadersTell, BodyIs DEF TellSize
<1>3. f \in Texts /\ f.kind = "method" /\ f.value = n
  BY TextIs
<1> HIDE DEF m, hs, b, f
<1>4. /\ m \in Seq(Texts) /\ Len(m) = p + size /\ m[1] = f /\ m[2] = CR /\ m[3] = LF
      /\ Len(m) \in Nat /\ p \in Nat /\ p > 3
  <2>1. m \in Seq(Texts) /\ Len(m) = p + Len(b) /\ m[1] = f /\ m[2] = CR /\ m[3] = LF
    BY <1>1 DEF IsMessage
  <2> HIDE DEF l
  <2> QED BY <1>2, <2>1
<1> HIDE DEF p
<1>5. came \in 0..Len(m) /\ came \in Nat
  BY <1>4 DEF m
<1>6. w \in Seq(Texts) /\ Len(w) = came /\ \A i \in 1..came : w[i] = m[i]
  <2>1. 0 \in 0..came
    BY <1>5
  <2>2. IsWindow(w, m, 0, came, Texts)
    BY <1>4, <1>5, <2>1, WindowIs
  <2> HIDE DEF w
  <2>3. came - 0 = came /\ \A i \in 1..came : 0 + i = i
    BY <1>5
  <2> QED BY <2>2, <2>3 DEF IsWindow
<1>7. LineEnd(w) = IF 3 <= came THEN 3 ELSE 0
  <2>1. f # LF /\ CR # LF
    BY <1>3 DEF LF, CR, Text
  <2> HIDE DEF w
  <2>2. \A i \in 1..Len(w) : i < 3 => w[i] # LF
    <3>1. \A i \in 1..Len(w) : i < 3 => i = 1 \/ i = 2
      BY <1>5, <1>6
    <3> QED BY <1>4, <1>6, <2>1, <3>1
  <2>3. 3 <= Len(w) => w[3] = LF
    <3>1. 3 <= Len(w) => 3 \in 1..came
      BY <1>5, <1>6
    <3> QED BY <1>4, <1>6, <3>1
  <2>4. 3 \in Nat \ {0}
    OBVIOUS
  <2> QED BY <1>6, <2>2, <2>3, <2>4, LineEndIs
<1>8. Understood(w) <=>
        /\ LineEnd(w) # 0 /\ w[1].kind = "method"
        /\ c.state = "READING_BODY" /\ Len(c.input) = BodyLength(c.req.headers)
  BY DEF Understood
<1>9. ASSUME came < 3 PROVE Understood(w) <=> came = Len(m)
  <2>1. LineEnd(w) = 0
    BY <1>5, <1>7, <1>9
  <2>2. came # Len(m)
    BY <1>4, <1>9, <1>2
  <2> QED BY <1>8, <2>1, <2>2
<1>10. ASSUME came >= 3 PROVE Understood(w) <=> came = Len(m)
  <2>1. LineEnd(w) = 3 /\ w[1] = f
    <3>1. 1 \in 1..came /\ 3 <= came
      BY <1>5, <1>10
    <3> HIDE DEF w
    <3> QED BY <1>4, <1>6, <1>7, <3>1
  <2>2. After(w, 3) = Window(m, 3, came)
    <3>1. 0 \in 0..came /\ 3 \in 0..(came - 0) /\ 0 + 3 = 3
      BY <1>5, <1>10
    <3>2. After(Window(m, 0, came), 3) = Window(m, 0 + 3, came)
      BY <1>4, <1>5, <3>1, WindowAfter
    <3> QED BY <3>1, <3>2
  <2>3. c0 = s(0)
    <3>1. 0 <= l /\ 3 * (0 + 1) = 3
      BY <1>2
    <3>2. SubSeq(hs, 1, 0) = <<>>
      BY <1>2, EmptySeq
    <3>3. c0 = [state |-> "READING_HEADERS", input |-> Window(m, 3, came), req |-> NewRequest]
      <4> HIDE DEF w
      <4> QED BY <2>1, <2>2
    <3>4. NewRequest = [code |-> 0, headers |-> <<>>, body |-> <<>>]
      BY DEF NewRequest
    <3> HIDE DEF c0
    <3> QED BY <3>1, <3>2, <3>3, <3>4 DEF Stage, Position
  <2>4. HeadersParsed(m, hs, 0, came, 0)
    <3>1. 0 \in Nat /\ 0 \in 0..(Len(hs) + 1) /\ Position(hs, 0) <= came
      <4>1. 0 <= Len(hs) /\ Len(hs) \in Nat
        BY <1>2
      <4>2. Position(hs, 0) = 3 * (0 + 1)
        BY <4>1 DEF Position
      <4> QED BY <1>5, <1>10, <4>1, <4>2
    <3> QED BY <1>1, <1>2, <1>5, <3>1, ParseHeadersIs
  <2>5. PICK last \in 0..(l + 1) :
          /\ Position(hs, last) <= came /\ (last <= l => Position(hs, last + 1) > came)
          /\ ParseHeaders(s(0)) = s(last)
    BY <2>4 DEF HeadersParsed
  <2>6. c = s(last)
    <3> HIDE DEF c0, s
    <3> QED BY <2>3, <2>5
  <2> HIDE DEF c, c0
  <2>7. CASE last <= l
    <3>1. c.state = "READING_HEADERS"
      BY <2>6, <2>7 DEF Stage
    <3>2. Position(hs, last + 1) <= p /\ Position(hs, last + 1) \in Nat
      <4> DEFINE j == last + 1
                 k == l + 1
      <4>1. k \in 0..(Len(hs) + 1) /\ j \in 0..k /\ ~(k <= Len(hs))
        <5> HIDE DEF l
        <5>1. k \in 0..(l + 1) /\ j \in 0..k /\ ~(k <= l)
          BY <1>2, <2>5, <2>7
        <5> QED BY <5>1 DEF l
      <4>2. Position(hs, k) = p
        BY <4>1 DEF Position, p
      <4> HIDE DEF j, k
      <4>3. Position(hs, j) \in Nat /\ Position(hs, j) + (k - j) <= Position(hs, k)
        BY <1>2, <4>1, PositionsGrow
      <4> DEFINE x == Position(hs, j)
      <4>4. x \in Nat /\ x + (k - j) <= p /\ k - j \in Nat
        <5> HIDE DEF l
        <5> QED BY <1>2, <4>1, <4>2, <4>3 DEF l
      <4> HIDE DEF x
      <4>5. x <= p
        BY <1>4, <4>4
      <4> QED BY <4>4, <4>5 DEF x, j
    <3>3. came # Len(m)
      <4> DEFINE x == Position(hs, last + 1)
      <4>1. x > came /\ x <= p /\ x \in Nat
        BY <2>5, <2>7, <3>2
      <4> HIDE DEF x
      <4> QED BY <1>2, <1>4, <1>5, <4>1
    <3> QED BY <1>8, <3>1, <3>3
  <2>8. CASE last = l + 1
    <3>1. ~(last <= l) /\ Position(hs, last) = p
      <4>1. ~(last <= l)
        <5> HIDE DEF l
        <5> QED BY <1>2, <2>8
      <4> QED BY <4>1 DEF Position, p
    <3>2. c.state = "READING_BODY" /\ c.input = Window(m, p, came) /\ c.req.headers = SubSeq(hs, 1, l)
      BY <2>6, <3>1 DEF Stage
    <3>3. SubSeq(hs, 1, l) = hs
      BY <1>2
    <3>4. p \in 0..came
      BY <1>4, <1>5, <2>5, <3>1
    <3>5. IsWindow(Window(m, p, came), m, p, came, Texts)
      BY <1>4, <1>5, <3>4, WindowIs
    <3>6. Len(c.input) = came - p /\ BodyLength(c.req.headers) = size
      BY <1>2, <3>2, <3>3, <3>5 DEF IsWindow
    <3>7. Understood(w) <=> came - p = size
      BY <1>3, <1>8, <2>1, <3>2, <3>6
    <3> QED BY <1>2, <1>4, <1>5, <3>7
  <2>9. last <= l \/ last = l + 1
    <3> HIDE DEF l
    <3> QED BY <1>2, <2>5
  <2> QED BY <2>7, <2>8, <2>9
<1>11. Understood(w) <=> came = Len(m)
  <2> HIDE DEF w
  <2> QED BY <1>5, <1>9, <1>10
<1>12. Len(m) > 3 /\ m[1].value = n
  BY <1>2, <1>3, <1>4
<1> QED BY <1>4, <1>11, <1>12 DEF UnderstoodWhole, m
-----------------------------------------------------------------------------
\* What is sent is the text on the wire.
LEMMA Sent ==
  ASSUME NEW cb \in BOOLEAN, NEW key \in Keys, NEW counter \in Nat, NEW text \in Seq(Texts)
  PROVE OnWire(cb, IF cb THEN Encrypted(key, counter, text) ELSE text, key, counter, text)
<1>1. CASE cb = TRUE
  <2>1. Ciphered(Encrypted(key, counter, text), key, counter, text, Texts)
    BY EncryptedIsCiphered
  <2> QED BY <1>1, <2>1 DEF OnWire
<1>2. CASE cb = FALSE
  BY <1>2 DEF OnWire
<1> QED BY <1>1, <1>2

\* Text takes bytes, in blocks more than their length.
WireSize(cb, bytes, text) ==
  bytes \in Seq(BytesOf(cb)) /\ (text # <<>> => bytes # <<>> /\ (cb => Len(bytes) >= LengthSize))

LEMMA WireSizeIs ==
  ASSUME NEW cb \in BOOLEAN, NEW key, NEW counter, NEW text \in Seq(Texts), NEW bytes,
         OnWire(cb, bytes, key, counter, text)
  PROVE WireSize(cb, bytes, text)
<1>1. CASE cb = FALSE
  BY <1>1 DEF OnWire, WireSize, BytesOf
<1>2. CASE cb = TRUE
  <2> DEFINE b == Blocks(text)
             t == LengthSize + AuthtagLength
  <2>1. Ciphered(bytes, key, counter, text, Texts)
    BY <1>2 DEF OnWire
  <2>2. bytes \in Seq(Wire(Texts)) /\ Len(bytes) = Offset(text, b)
    BY <2>1 DEF Ciphered
  <2>3. bytes \in Seq(BytesOf(cb))
    BY <1>2, <2>2 DEF BytesOf
  <2>4. ASSUME text # <<>> PROVE Len(bytes) >= LengthSize
    <3>1. Len(text) \in Nat \ {0}
      BY <2>4, LenProperties, EmptySeq
    <3>2. b \in Nat \ {0}
      <4>1. b = 1 + ((Len(text) - 1) \div EncryptedLenMax)
        BY <2>4 DEF Blocks
      <4> HIDE DEF b
      <4> QED BY <3>1, <4>1, BlockCount
    <3>3. Offset(text, b) = b * t + Len(text)
      BY DEF Offset, BlockEnd
    <3>4. t \in Nat /\ t >= LengthSize /\ LengthSize = 2
      BY PairCipherAssumption DEF LengthSize
    <3> HIDE DEF b, t
    <3>5. b * t >= t /\ b * t \in Nat
      BY <3>2, <3>4, Z3
    <3> DEFINE x == b * t
    <3> HIDE DEF x
    <3> QED BY <2>2, <3>1, <3>3, <3>4, <3>5 DEF x
  <2>5. text # <<>> => bytes # <<>>
    BY <2>2, <2>4 DEF LengthSize
  <2> QED BY <2>3, <2>4, <2>5 DEF WireSize
<1> QED BY <1>1, <1>2

LEMMA NothingOnWire ==
  ASSUME NEW cb \in BOOLEAN, NEW key, NEW counter, NEW bytes, OnWire(cb, bytes, key, counter, <<>>)
  PROVE bytes = <<>>
<1>1. CASE cb = TRUE
  <2>1. Ciphered(bytes, key, counter, <<>>, Texts)
    BY <1>1 DEF OnWire
  <2> QED BY <2>1, NothingCiphered
<1>2. CASE cb = FALSE
  BY <1>2 DEF OnWire
<1> QED BY <1>1, <1>2

\* What is right of a result d of rtsp_cipher when later is still to come.
PieceRight(d, cb, key, counter, text, later) ==
  \E rem \in Seq(Texts) :
    /\ d.ok = TRUE /\ d.data \in Seq(Texts) /\ d.data \o rem = text
    /\ d.rest \in Seq(BytesOf(cb)) /\ d.counter \in Nat
    /\ OnWire(cb, d.rest \o later, key, d.counter, rem)
    /\ d.counter + BlocksOf(cb, rem) = counter + BlocksOf(cb, text)
    /\ later = <<>> => rem = <<>> /\ d.rest = <<>>
    /\ ~cb => d.rest = <<>>

LEMMA DecipheredRight ==
  ASSUME ciphercb \in BOOLEAN, NEW key \in Keys, NEW counter \in Nat, NEW text \in Seq(Texts),
         NEW bytes \in Seq(BytesOf(ciphercb)), NEW later \in Seq(BytesOf(ciphercb)),
         OnWire(ciphercb, bytes \o later, key, counter, text), ciphercb => Len(bytes) >= LengthSize
  PROVE PieceRight(Deciphered(bytes, key, counter), ciphercb, key, counter, text, later)
<1> DEFINE d == Deciphered(bytes, key, counter)
<1>1. CASE ciphercb = TRUE
  <2>1. bytes \in Seq(Wire(Texts)) /\ later \in Seq(Wire(Texts)) /\ BytesOf(ciphercb) = Wire(Texts)
    BY <1>1 DEF BytesOf
  <2>2. Ciphered(bytes \o later, key, counter, text, Texts)
    BY <1>1 DEF OnWire
  <2>3. DecryptedRight(Decrypted(bytes, key, counter), key, counter, text, later, Texts)
    BY <1>1, <2>1, <2>2, DecryptedPart
  <2>4. d = Decrypted(bytes, key, counter)
    BY <1>1 DEF Deciphered
  <2> HIDE DEF d
  <2>5. PICK rem \in Seq(Texts) :
          /\ d.ok = TRUE /\ d.data \in Seq(Texts) /\ d.data \o rem = text
          /\ d.rest \in Seq(Wire(Texts)) /\ d.counter \in Nat
          /\ Ciphered(d.rest \o later, key, d.counter, rem, Texts)
          /\ d.counter + Blocks(rem) = counter + Blocks(text)
          /\ later = <<>> => rem = <<>> /\ d.rest = <<>>
    BY <2>3, <2>4 DEF DecryptedRight
  <2>6. OnWire(ciphercb, d.rest \o later, key, d.counter, rem)
    BY <1>1, <2>5 DEF OnWire
  <2>7. BlocksOf(ciphercb, rem) = Blocks(rem) /\ BlocksOf(ciphercb, text) = Blocks(text)
    BY <1>1 DEF BlocksOf
  <2>8. PieceRight(d, ciphercb, key, counter, text, later)
    BY <1>1, <2>1, <2>5, <2>6, <2>7 DEF PieceRight
  <2> QED BY <2>8 DEF d
<1>2. CASE ciphercb = FALSE
  <2>1. d = [ok |-> TRUE, data |-> bytes, rest |-> <<>>, counter |-> counter]
    BY <1>2 DEF Deciphered
  <2>2. bytes \in Seq(Texts) /\ later \in Seq(Texts) /\ BytesOf(ciphercb) = Texts /\ <<>> \in Seq(Texts)
    BY <1>2 DEF BytesOf
  <2>3. bytes \o later = text /\ <<>> \o later = later
    BY <1>2, <2>2, ConcatProperties DEF OnWire
  <2>4. OnWire(ciphercb, <<>> \o later, key, counter, later)
    BY <1>2, <2>3 DEF OnWire
  <2>5. BlocksOf(ciphercb, later) = 0 /\ BlocksOf(ciphercb, text) = 0
    BY <1>2 DEF BlocksOf
  <2> HIDE DEF d
  <2>6. d.ok = TRUE /\ d.data = bytes /\ d.rest = <<>> /\ d.counter = counter
    BY <2>1
  <2>7. PieceRight(d, ciphercb, key, counter, text, later)
    BY <1>2, <2>2, <2>3, <2>4, <2>5, <2>6 DEF PieceRight
  <2> QED BY <2>7 DEF d
<1> QED BY <1>1, <1>2
-----------------------------------------------------------------------------
(* The invariant is inductive *)

LEMMA KeysAre == /\ EncryptionKey(0) \in Keys /\ DecryptionKey(2) = EncryptionKey(0)
                 /\ Key \in Keys
<1>1. EncryptionKey(0) = "CONTROL_WRITE"
  BY DEF EncryptionKey
<1>2. DecryptionKey(2) = "CONTROL_WRITE"
  BY DEF DecryptionKey
<1>3. DecryptionKey(0) = "CONTROL_READ"
  BY DEF DecryptionKey
<1> QED BY <1>1, <1>2, <1>3 DEF Key, Keys

LEMMA SoundInit == ReadInit => Sound
<1> SUFFICES ASSUME ReadInit PROVE Sound
  OBVIOUS
<1>1. ConnectionType
  <2>1. answered \in Seq(Responses) /\ delivered \in Seq(Responses)
    BY DEF ReadInit
  <2>2. ciphercb \in BOOLEAN /\ closed \in BOOLEAN
    BY DEF ReadInit
  <2>3. state = "IDLE" /\ encrypted \in Nat /\ decrypted \in Nat /\ written \in Nat /\ served \in Nat
    BY DEF ReadInit
  <2> QED BY <2>1, <2>2, <2>3 DEF ConnectionType
<1>2. IdleRight /\ WritingRight /\ DisconnectedRight /\ FailedRight
  BY DEF ReadInit, IdleRight, WritingRight, DisconnectedRight, FailedRight, NothingRead, NothingWritten
<1>3. ReadingRight
  BY DEF ReadInit, ReadingRight, Reading
<1> QED BY <1>1, <1>2, <1>3 DEF Sound

LEMMA AppendPrefix ==
  ASSUME NEW T, NEW s \in Seq(T), NEW a \in T
  PROVE IsPrefix(s, s) /\ IsPrefix(s, Append(s, a)) /\ Append(s, a) \in Seq(T) /\ Len(Append(s, a)) = Len(s) + 1
<1> DEFINE t == Append(s, a)
           u == SubSeq(s, 1, Len(s))
           v == SubSeq(t, 1, Len(s))
<1>1. t \in Seq(T) /\ Len(t) = Len(s) + 1 /\ \A i \in 1..Len(s) : t[i] = s[i]
  BY AppendProperties
<1>2. Len(s) \in Nat
  BY LenProperties
<1> HIDE DEF t
<1>3. Len(s) \in 0..Len(s) /\ Len(s) \in 0..Len(t)
  BY <1>1, <1>2
<1>4. u \in Seq(T) /\ Len(u) = Len(s) /\ \A i \in 1..Len(s) : u[i] = s[i]
  BY <1>3, Cut DEF IsCut
<1>5. v \in Seq(T) /\ Len(v) = Len(s) /\ \A i \in 1..Len(s) : v[i] = t[i]
  BY <1>1, <1>3, Cut DEF IsCut
<1> HIDE DEF u, v
<1>6. u = v
  <2>1. \A i \in 1..Len(u) : u[i] = v[i]
    BY <1>1, <1>4, <1>5
  <2> QED BY <1>4, <1>5, <2>1, SameSeq
<1>7. IsPrefix(s, s)
  BY <1>2 DEF IsPrefix
<1>8. IsPrefix(s, t)
  BY <1>1, <1>2, <1>6 DEF IsPrefix, u, v
<1> QED BY <1>1, <1>7, <1>8 DEF t

LEMMA WholeResponseIs ==
  ASSUME NEW n \in Nat, NEW size \in Nat
  PROVE WholeResponse(n, size) \in Responses
<1>1. ResponseHeaders(n, size) \in Seq(Headers) /\ Body(size) \in Seq(Texts)
  BY ResponseHeadersTell, BodyIs DEF TellSize
<1>2. Headers \subseteq Texts
  BY DEF Headers, Texts
<1>3. ResponseHeaders(n, size) \in Seq(Texts)
  <2> DEFINE hs == ResponseHeaders(n, size)
  <2> HIDE DEF hs
  <2>1. hs \in Seq(Headers)
    BY <1>1 DEF hs
  <2>2. \A i \in 1..Len(hs) : hs[i] \in Texts
    BY <1>2, <2>1
  <2>3. hs \in Seq(Texts)
    BY <2>1, <2>2
  <2> QED BY <2>3 DEF hs
<1> QED BY <1>1, <1>3 DEF WholeResponse, Responses

\* What the callbacks got.
LEMMA DeliveredBefore ==
  ASSUME Sound PROVE IsPrefix(delivered, answered)
<1>1. answered \in Seq(Responses) /\ delivered \in Seq(Responses)
  BY DEF Sound, ConnectionType
<1>2. CASE delivered = answered
  <2>1. [code |-> 0, headers |-> <<>>, body |-> <<>>] \in Responses
    BY DEF Responses
  <2> QED BY <1>1, <1>2, <2>1, AppendPrefix
<1>3. CASE Reading
  <2>1. PICK size \in Bodies, came \in Nat : ReadingOf(size, came)
    BY <1>3 DEF Sound, ReadingRight
  <2>2. answered = Append(delivered, WholeResponse(Len(answered), size))
    BY <2>1 DEF ReadingOf
  <2>3. size \in Nat /\ Len(answered) \in Nat
    BY <1>1, RtspReadAssumption, LenProperties
  <2>4. WholeResponse(Len(answered), size) \in Responses
    BY <2>3, WholeResponseIs
  <2> DEFINE w == WholeResponse(Len(answered), size)
  <2> HIDE DEF w
  <2> QED BY <1>1, <2>2, <2>4, AppendPrefix DEF w
<1>4. CASE state = "IDLE" \/ state = "WRITING"
  <2>1. delivered = answered
    BY <1>4 DEF Sound, IdleRight, WritingRight, NothingRead
  <2> QED BY <1>2, <2>1
<1>5. CASE state = "DISCONNECTED"
  BY <1>5 DEF Sound, DisconnectedRight
<1> QED BY <1>3, <1>4, <1>5 DEF Sound, ConnectionType, Reading

\* A connection that fails.
LEMMA FailSound ==
  ASSUME Sound, NEW why, why = "timeout" \/ (why = "cipher" /\ "byte" \in cuts'), ConnectionFail(why),
         UNCHANGED <<writeVars, decrypted, closed>>
  PROVE Sound'
<1>1. state' = "DISCONNECTED" /\ failed' = why /\ stream' = <<>>
      /\ UNCHANGED <<delivered, ciphercb, answered, encrypted, decrypted, written, served, closed>>
  BY DEF ConnectionFail, writeVars
<1>2. ConnectionType'
  BY <1>1 DEF Sound, ConnectionType
<1>3. IdleRight' /\ WritingRight' /\ ReadingRight'
  BY <1>1 DEF IdleRight, WritingRight, ReadingRight, Reading
<1>4. DisconnectedRight'
  BY <1>1, DeliveredBefore DEF DisconnectedRight
<1>5. FailedRight'
  BY <1>1 DEF FailedRight
<1> QED BY <1>2, <1>3, <1>4, <1>5 DEF Sound

LEMMA RequestSound ==
  ASSUME Sound, Request PROVE Sound'
<1> DEFINE n == Len(answered) + 1
<1>1. PICK size \in Bodies : LET text == MakeHeader(n, <<Text("header", n)>>, Body(size)) IN
        /\ output_raw' = IF ciphercb THEN Encrypted(EncryptionKey(0), written, text) ELSE text
        /\ written' = written + (IF ciphercb THEN Blocks(text) ELSE 0)
  BY DEF Request
<1> DEFINE text == RequestText(n, size)
<1>2. /\ output_raw' = IF ciphercb THEN Encrypted(EncryptionKey(0), written, text) ELSE text
      /\ written' = written + BlocksOf(ciphercb, text)
  BY <1>1 DEF RequestText, BlocksOf
<1>3. state = "IDLE" /\ state' = "WRITING"
      /\ UNCHANGED <<arrived, served, encrypted, answered, stream, input_raw, input, req, delivered,
                     ciphercb, decrypted, closed, failed, cuts>>
  BY DEF Request
<1>4. NothingRead /\ NothingWritten
  BY <1>3 DEF Sound, IdleRight
<1>5. ciphercb \in BOOLEAN /\ written \in Nat /\ answered \in Seq(Responses) /\ n \in Nat /\ size \in Nat
  BY RtspReadAssumption, LenProperties DEF Sound, ConnectionType
<1>6. text \in Seq(Texts) /\ text # <<>>
  <2>1. UnderstoodWhole(n, size, 0)
    <3>1. Len(text) \in Nat
      <4>1. IsMessage(text, Text("method", n), RequestHeaders(n, size), Body(size))
        BY <1>5, RequestIsMessage
      <4> QED BY <4>1, LenProperties DEF IsMessage
    <3>2. 0 \in 0..Len(text)
      <4> HIDE DEF text
      <4> QED BY <3>1
    <3> HIDE DEF n
    <3> QED BY <1>5, <3>2, UnderstoodIs
  <2> HIDE DEF n
  <2> QED BY <2>1, EmptySeq DEF UnderstoodWhole
<1> HIDE DEF text
<1> DEFINE o == output_raw'
           key == EncryptionKey(0)
<1>7. OnWire(ciphercb, o, key, written, text)
  <2>1. OnWire(ciphercb, IF ciphercb THEN Encrypted(key, written, text) ELSE text, key, written, text)
    BY <1>5, <1>6, KeysAre, Sent
  <2> QED BY <1>2, <2>1
<1>8. o \in Seq(BytesOf(ciphercb)) /\ o # <<>>
  BY <1>5, <1>6, <1>7, WireSizeIs DEF WireSize
<1>9. written' \in Nat
  <2>1. BlocksOf(ciphercb, text) \in Nat
    BY <1>6, BlocksGrow DEF BlocksOf
  <2> QED BY <1>2, <1>5, <2>1
<1>10. ConnectionType'
  BY <1>3, <1>9 DEF Sound, ConnectionType
<1>11. WritingRight'
  <2>1. WritingOf(size)'
    <3>1. arrived' = <<>> /\ served' = written /\ <<>> \o o = o
      BY <1>3, <1>4, <1>8, ConcatProperties DEF NothingWritten
    <3>2. OnWire(ciphercb', arrived' \o output_raw', key, served', text)
      BY <1>3, <1>7, <3>1
    <3>3. written' = served' + BlocksOf(ciphercb', text)
      BY <1>2, <1>3, <3>1
    <3> QED BY <1>3, <3>2, <3>3 DEF WritingOf, text
  <2>2. NothingRead'
    BY <1>3, <1>4 DEF NothingRead
  <2>3. arrived' = <<>>
    BY <1>3, <1>4 DEF NothingWritten
  <2> QED BY <1>3, <1>8, <2>1, <2>2, <2>3 DEF WritingRight
<1>12. IdleRight' /\ ReadingRight' /\ DisconnectedRight'
  BY <1>3 DEF IdleRight, ReadingRight, Reading, DisconnectedRight
<1>13. FailedRight'
  BY <1>3 DEF Sound, FailedRight
<1> QED BY <1>10, <1>11, <1>12, <1>13 DEF Sound

\* decrypt of less than a length is an error.
LEMMA ShortFails ==
  ASSUME NEW bytes, NEW key, NEW counter, Len(bytes) \in Nat, Len(bytes) < LengthSize
  PROVE Decrypted(bytes, key, counter).ok = FALSE
<1>1. Most(bytes) = 0
  <2> DEFINE size == Len(bytes)
             t == LengthSize + 1 + AuthtagLength
  <2>1. t \in Nat \ {0} /\ size \in Nat /\ size < t
    BY PairCipherAssumption DEF LengthSize
  <2> HIDE DEF size, t
  <2>2. size \div t = 0
    BY <2>1, Z3
  <2>3. Most(bytes) = size \div t
    BY DEF Most, size, t
  <2> QED BY <2>2, <2>3
<1>2. PICK f : DecryptRuns(bytes, key, counter, f)
  BY <1>1, DecryptTurns
<1>3. Decrypted(bytes, key, counter) = Start(bytes, counter)
  BY <1>1, <1>2 DEF DecryptRuns
<1>4. ~(Len(bytes) >= LengthSize)
  BY DEF LengthSize
<1>5. (Len(bytes) >= LengthSize) = FALSE
  BY <1>4
<1>6. Start(bytes, counter) = [ok |-> FALSE, data |-> <<>>, rest |-> bytes, counter |-> counter]
  BY <1>5 DEF Start
<1> QED BY <1>3, <1>6
\* The device serves the request when all of it was written, and not before.
ServedRight(d, n, size, later) ==
  IF later = <<>>
  THEN /\ d.ok = TRUE /\ d.rest = <<>> /\ Understood(d.data) /\ d.data[1].value = n
       /\ d.counter = served + BlocksOf(ciphercb, RequestText(n, size))
  ELSE d.ok = FALSE \/ d.rest # <<>> \/ ~Understood(d.data)

LEMMA ServedWhole ==
  ASSUME ciphercb \in BOOLEAN, served \in Nat, NEW n \in Nat, NEW size \in Nat,
         NEW bytes \in Seq(BytesOf(ciphercb)), NEW later \in Seq(BytesOf(ciphercb)),
         OnWire(ciphercb, bytes \o later, EncryptionKey(0), served, RequestText(n, size))
  PROVE ServedRight(Deciphered(bytes, DecryptionKey(2), served), n, size, later)
<1> DEFINE text == RequestText(n, size)
           key == EncryptionKey(0)
           d == Deciphered(bytes, DecryptionKey(2), served)
<1>1. \A came \in 0..Len(text) : UnderstoodWhole(n, size, came)
  BY UnderstoodIs
<1>2. text \in Seq(Texts) /\ Len(text) \in Nat /\ Len(text) > 3 /\ text[1].value = n
  <2>1. Len(text) \in Nat
    <3>1. IsMessage(text, Text("method", n), RequestHeaders(n, size), Body(size))
      BY RequestIsMessage
    <3> HIDE DEF text
    <3> QED BY <3>1, LenProperties DEF IsMessage
  <2>2. 0 \in 0..Len(text)
    <3> HIDE DEF text
    <3> QED BY <2>1
  <2>3. UnderstoodWhole(n, size, 0)
    BY <1>1, <2>2
  <2> QED BY <2>3 DEF UnderstoodWhole
<1> HIDE DEF text
<1>3. key \in Keys /\ d = Deciphered(bytes, key, served)
  BY KeysAre
<1> HIDE DEF key, d
<1>4. CASE ciphercb => Len(bytes) >= LengthSize
  <2>1. PieceRight(d, ciphercb, key, served, text, later)
    <3>1. OnWire(ciphercb, bytes \o later, key, served, text)
      BY DEF text, key
    <3> QED BY <1>2, <1>3, <1>4, <3>1, DecipheredRight
  <2>2. PICK rem \in Seq(Texts) :
          /\ d.ok = TRUE /\ d.data \in Seq(Texts) /\ d.data \o rem = text
          /\ d.rest \in Seq(BytesOf(ciphercb)) /\ d.counter \in Nat
          /\ OnWire(ciphercb, d.rest \o later, key, d.counter, rem)
          /\ d.counter + BlocksOf(ciphercb, rem) = served + BlocksOf(ciphercb, text)
          /\ later = <<>> => rem = <<>> /\ d.rest = <<>>
    BY <2>1 DEF PieceRight
  <2> DEFINE data == d.data
             came == Len(data)
  <2>3. came \in 0..Len(text) /\ data = Window(text, 0, came) /\ rem = Window(text, came, Len(text))
    <3> HIDE DEF data
    <3>1. Window(text, 0, Len(text)) = text
      BY <1>2 DEF Window
    <3>2. 0 \in 0..Len(text) /\ data \in Seq(Texts) /\ data \o rem = Window(text, 0, Len(text))
      BY <1>2, <2>2, <3>1 DEF data
    <3>3. 0 + came = came /\ came \in Nat
      BY <3>2, LenProperties
    <3> HIDE DEF came
    <3>4. SplitAt(text, 0, data, rem)
      BY <1>2, <3>2, SplitWindow
    <3> HIDE DEF came
    <3> QED BY <3>3, <3>4 DEF SplitAt, came
  <2> HIDE DEF data, came
  <2>4. Understood(data) <=> came = Len(text)
    <3>1. UnderstoodWhole(n, size, came)
      BY <1>1, <2>3
    <3> QED BY <2>3, <3>1 DEF UnderstoodWhole, text
  <2>5. came = Len(text) => rem = <<>>
    <3>1. IsWindow(rem, text, came, Len(text), Texts)
      <4>1. Len(text) \in 0..Len(text)
        BY <1>2
      <4> QED BY <1>2, <2>3, <4>1, WindowIs
    <3> QED BY <1>2, <3>1, EmptySeq DEF IsWindow
  <2>6. ASSUME later = <<>>
        PROVE /\ d.ok = TRUE /\ d.rest = <<>> /\ Understood(data) /\ data[1].value = n
              /\ d.counter = served + BlocksOf(ciphercb, text)
    <3>1. rem = <<>> /\ d.rest = <<>>
      BY <2>2, <2>6
    <3>2. data = text
      <4>1. data \in Seq(Texts) /\ data \o <<>> = text
        BY <2>2, <3>1 DEF data
      <4> QED BY <4>1, ConcatProperties
    <3>3. came = Len(text)
      BY <3>2 DEF came
    <3>4. BlocksOf(ciphercb, <<>>) = 0
      BY DEF BlocksOf, Blocks
    <3>5. d.counter = served + BlocksOf(ciphercb, text)
      BY <2>2, <3>1, <3>4
    <3> QED BY <1>2, <2>2, <2>4, <3>1, <3>2, <3>3, <3>5
  <2>7. ASSUME later # <<>>, d.rest = <<>> PROVE ~Understood(data)
    <3>1. SUFFICES ASSUME Understood(data) PROVE FALSE
      OBVIOUS
    <3>2. rem = <<>>
      BY <2>4, <2>5, <3>1
    <3>3. d.rest \o later = <<>>
      BY <2>2, <3>2, NothingOnWire
    <3>4. <<>> \o later = later
      BY ConcatProperties
    <3> QED BY <2>7, <3>3, <3>4
  <2>8. ServedRight(d, n, size, later)
    <3>1. data = d.data
      BY DEF data
    <3> QED BY <2>6, <2>7, <3>1 DEF ServedRight, text
  <2> QED BY <2>8 DEF d
<1>5. CASE ciphercb = TRUE /\ ~(Len(bytes) >= LengthSize)
  <2>1. d = Decrypted(bytes, key, served)
    BY <1>3, <1>5 DEF Deciphered
  <2>2. Len(bytes) \in Nat /\ Len(bytes) < LengthSize
    BY <1>5, LenProperties DEF LengthSize
  <2>3. d.ok = FALSE
    BY <2>1, <2>2, ShortFails
  <2>4. later # <<>>
    <3>1. SUFFICES ASSUME later = <<>> PROVE FALSE
      OBVIOUS
    <3>2. bytes \o later = bytes
      BY <3>1, ConcatProperties
    <3>3. OnWire(ciphercb, bytes, key, served, text)
      BY <3>2 DEF key, text
    <3>4. WireSize(ciphercb, bytes, text) /\ text # <<>>
      BY <1>2, <3>3, WireSizeIs
    <3> QED BY <1>5, <3>4 DEF WireSize
  <2>5. ServedRight(d, n, size, later)
    BY <2>3, <2>4 DEF ServedRight
  <2> QED BY <2>5 DEF d
<1> QED BY <1>4, <1>5

\* Bytes that go from the start of t to the end of s.
Moved(s, t, n, T) ==
  LET first == SubSeq(t, 1, n)   later == SubSeq(t, n + 1, Len(t)) IN
  /\ s \o first \in Seq(T) /\ later \in Seq(T) /\ (s \o first) \o later = s \o t
  /\ n > 0 => Len(s \o first) > 0

LEMMA CutMoves ==
  ASSUME NEW T, NEW s \in Seq(T), NEW t \in Seq(T), NEW n \in 0..Len(t)
  PROVE Moved(s, t, n, T)
<1> DEFINE first == SubSeq(t, 1, n)
           later == SubSeq(t, n + 1, Len(t))
<1>1. IsCut(t, n, first, later, T)
  BY Cut
<1> HIDE DEF first, later
<1>2. first \in Seq(T) /\ Len(first) = n /\ later \in Seq(T)
  BY <1>1 DEF IsCut
<1>3. first \o later = t
  BY <1>1 DEF IsCut
<1>4. s \o first \in Seq(T) /\ Len(s \o first) = Len(s) + Len(first)
  BY <1>2, ConcatProperties
<1>5. (s \o first) \o later = s \o (first \o later)
  BY <1>2, ConcatAssociative, SMTT(30)
<1>6. n > 0 => Len(s \o first) > 0
  <2>1. Len(s) \in Nat
    BY LenProperties
  <2> QED BY <1>2, <1>4, <2>1
<1> QED BY <1>2, <1>3, <1>4, <1>5, <1>6 DEF first, later, Moved
\* The response is on its way and nothing of it came.
AllToCome(cb, counter, n, size, bytes) ==
  LET m == Response(n, size) IN
  /\ OnWire(cb, <<>> \o bytes, Key, counter, Window(m, 0, Len(m)))
  /\ Window(m, 0, Len(m)) = m
  /\ bytes # <<>> /\ bytes \in Seq(BytesOf(cb))
  /\ ParsedRight(Connection("READING_FIRSTLINE", <<>>, NewRequest), n, size, 0)
  /\ 0 \in 0..Len(m) /\ Blocks(m) \in Nat

LEMMA ResponseSent ==
  ASSUME NEW cb \in BOOLEAN, NEW counter \in Nat, NEW n \in Nat \ {0}, NEW size \in Nat,
         NEW bytes, bytes = <<>> \o (IF cb THEN Encrypted(Key, counter, Response(n, size)) ELSE Response(n, size))
  PROVE AllToCome(cb, counter, n, size, bytes)
<1> DEFINE m == Response(n, size)
           raw == IF cb THEN Encrypted(Key, counter, m) ELSE m
<1>1. m \in Seq(Texts) /\ Len(m) \in Nat /\ Len(m) > 0
  <2> DEFINE hs == ResponseHeaders(n, size)
             b == Body(size)
  <2>1. IsMessage(m, Text("status", n), hs, b)
    BY ResponseIsMessage
  <2>2. Len(hs) \in 1..2 /\ Len(b) \in Nat
    BY ResponseHeadersTell, BodyIs DEF TellSize
  <2> HIDE DEF m, hs, b
  <2>3. m \in Seq(Texts) /\ Len(m) = 3 * (Len(hs) + 1) + 2 + Len(b)
    BY <2>1 DEF IsMessage
  <2> DEFINE l == Len(hs)
  <2>4. l \in 1..2 /\ Len(m) = 3 * (l + 1) + 2 + Len(b)
    BY <2>2, <2>3
  <2> HIDE DEF l
  <2> QED BY <2>2, <2>3, <2>4
<1> HIDE DEF m
<1>2. Window(m, 0, Len(m)) = m
  BY <1>1 DEF Window
<1>3. OnWire(cb, raw, Key, counter, m)
  BY <1>1, KeysAre, Sent
<1>4. WireSize(cb, raw, m) /\ m # <<>>
  <2> HIDE DEF raw
  <2> QED BY <1>1, <1>3, WireSizeIs
<1>5. raw \in Seq(BytesOf(cb)) /\ raw # <<>>
  BY <1>4 DEF WireSize
<1>6. bytes = <<>> \o raw
  BY DEF m
<1> HIDE DEF raw
<1>7. bytes = raw /\ <<>> \o bytes = raw
  BY <1>5, <1>6, ConcatProperties
<1>8. 0 \in 0..Len(m)
  BY <1>1
<1>9. Window(m, 0, 0) = <<>>
  <2>1. IsWindow(Window(m, 0, 0), m, 0, 0, Texts)
    <3>1. 0 \in 0..0
      OBVIOUS
    <3> QED BY <1>1, <1>8, <3>1, WindowIs
  <2> QED BY <2>1, EmptySeq DEF IsWindow
<1>10. ParsedRight(Connection("READING_FIRSTLINE", <<>>, NewRequest), n, size, 0)
  BY <1>9 DEF ParsedRight, m
<1>11. Blocks(m) \in Nat
  BY <1>1, BlocksGrow
<1> QED BY <1>2, <1>3, <1>5, <1>7, <1>8, <1>10, <1>11 DEF m, AllToCome

LEMMA WriteSound ==
  ASSUME Sound, ~closed, NEW n \in Nat \ {0}, WriteSome(n) PROVE Sound'
<1> DEFINE first == SubSeq(output_raw, 1, n)
           later == SubSeq(output_raw, n + 1, Len(output_raw))
           bytes == arrived \o first
           num == Len(answered) + 1
           d == Deciphered(bytes, DecryptionKey(2), served)
<1>1. /\ state = "WRITING" /\ n <= Len(output_raw) /\ output_raw' = later
      /\ state' = (IF output_raw' = <<>> THEN "READING_FIRSTLINE" ELSE state) /\ Serve(bytes)
      /\ UNCHANGED <<written, input_raw, input, req, delivered, ciphercb, decrypted, closed, failed, cuts>>
  BY DEF WriteSome, WriteConnectioncb
<1>2. /\ NothingRead /\ output_raw # <<>>
      /\ arrived \in Seq(BytesOf(ciphercb)) /\ output_raw \in Seq(BytesOf(ciphercb))
      /\ \E size \in Bodies : WritingOf(size)
  BY <1>1 DEF Sound, WritingRight
<1>3. /\ ciphercb \in BOOLEAN /\ served \in Nat /\ written \in Nat /\ encrypted \in Nat /\ decrypted \in Nat
      /\ answered \in Seq(Responses) /\ delivered \in Seq(Responses) /\ Len(answered) \in Nat
  BY LenProperties DEF Sound, ConnectionType
<1>4. PICK size \in Bodies : WritingOf(size)
  BY <1>2
<1>5. size \in Nat /\ num \in Nat
  BY <1>3, RtspReadAssumption
<1> DEFINE text == RequestText(num, size)
<1>6. /\ OnWire(ciphercb, arrived \o output_raw, EncryptionKey(0), served, text)
      /\ written = served + BlocksOf(ciphercb, text)
  BY <1>4 DEF WritingOf
<1>7. bytes \in Seq(BytesOf(ciphercb)) /\ later \in Seq(BytesOf(ciphercb)) /\ bytes \o later = arrived \o output_raw
  <2>1. n \in 0..Len(output_raw)
    BY <1>1, <1>2, LenProperties
  <2>2. Moved(arrived, output_raw, n, BytesOf(ciphercb))
    BY <1>2, <2>1, CutMoves
  <2> QED BY <2>2 DEF Moved
<1> HIDE DEF first, later, bytes
<1>8. ServedRight(d, num, size, later)
  <2>1. OnWire(ciphercb, bytes \o later, EncryptionKey(0), served, RequestText(num, size))
    BY <1>6, <1>7
  <2> HIDE DEF num
  <2> QED BY <1>3, <1>5, <1>7, <2>1, ServedWhole
<1> HIDE DEF text, d, num
<1>9. FailedRight' /\ DisconnectedRight' /\ IdleRight'
  BY <1>1 DEF Sound, FailedRight, DisconnectedRight, IdleRight
<1>10. ASSUME later # <<>> PROVE Sound'
  <2>1. arrived' = bytes /\ UNCHANGED <<served, encrypted, answered, stream>>
    <3>1. d.ok = FALSE \/ d.rest # <<>> \/ ~Understood(d.data)
      BY <1>8, <1>10 DEF ServedRight
    <3> QED BY <1>1, <3>1 DEF Serve, d
  <2>2. state' = "WRITING"
    BY <1>1, <1>10
  <2>3. ConnectionType'
    BY <1>1, <2>1, <2>2 DEF Sound, ConnectionType
  <2>4. NothingRead'
    BY <1>1, <1>2, <2>1 DEF NothingRead
  <2>5. WritingOf(size)'
    <3>1. OnWire(ciphercb', arrived' \o output_raw', EncryptionKey(0), served', text)
      BY <1>1, <1>6, <1>7, <2>1
    <3>2. written' = served' + BlocksOf(ciphercb', text)
      BY <1>1, <1>6, <2>1
    <3> QED BY <2>1, <3>1, <3>2 DEF WritingOf, text, num
  <2>6. WritingRight'
    BY <1>1, <1>7, <1>10, <2>1, <2>4, <2>5 DEF WritingRight
  <2>7. ReadingRight'
    BY <2>2 DEF ReadingRight, Reading
  <2> QED BY <1>9, <2>3, <2>6, <2>7 DEF Sound
<1>11. ASSUME later = <<>> PROVE Sound'
  <2>1. /\ d.ok = TRUE /\ d.rest = <<>> /\ Understood(d.data) /\ d.data[1].value = num
        /\ d.counter = served + BlocksOf(ciphercb, text)
    BY <1>8, <1>11 DEF ServedRight, text
  <2>2. PICK s \in Bodies :
          /\ stream' = stream \o (IF ciphercb THEN Encrypted(Key, encrypted, Response(num, s)) ELSE Response(num, s))
          /\ encrypted' = encrypted + (IF ciphercb THEN Blocks(Response(num, s)) ELSE 0)
          /\ answered' = Append(answered, WholeResponse(num, s))
    BY <1>1, <2>1 DEF Serve, d
  <2>3. arrived' = <<>> /\ served' = d.counter
    BY <1>1, <2>1 DEF Serve, d
  <2>4. state' = "READING_FIRSTLINE" /\ output_raw' = <<>>
    BY <1>1, <1>11
  <2>5. s \in Nat /\ num \in Nat \ {0}
    BY <1>3, RtspReadAssumption DEF num
  <2>6. stream = <<>> /\ input_raw = <<>> /\ input = <<>> /\ req = NewRequest /\ delivered = answered /\ decrypted = encrypted
    BY <1>2 DEF NothingRead
  <2> DEFINE m == Response(num, s)
  <2>7. /\ OnWire(ciphercb, <<>> \o stream', Key, encrypted, Window(m, 0, Len(m)))
        /\ Window(m, 0, Len(m)) = m
        /\ stream' # <<>> /\ stream' \in Seq(BytesOf(ciphercb))
        /\ ParsedRight(Connection("READING_FIRSTLINE", <<>>, NewRequest), num, s, 0)
        /\ 0 \in 0..Len(m) /\ Blocks(m) \in Nat
    <3>1. stream' = <<>> \o (IF ciphercb THEN Encrypted(Key, encrypted, Response(num, s)) ELSE Response(num, s))
      BY <2>2, <2>6
    <3>2. AllToCome(ciphercb, encrypted, num, s, stream')
      <4> DEFINE x == stream'
      <4>1. x = <<>> \o (IF ciphercb THEN Encrypted(Key, encrypted, Response(num, s)) ELSE Response(num, s))
        BY <3>1
      <4> HIDE DEF x
      <4> QED BY <1>3, <2>5, <4>1, ResponseSent DEF x
    <3> QED BY <3>2 DEF AllToCome
  <2> HIDE DEF m
  <2>8. encrypted' = encrypted + BlocksOf(ciphercb, m) /\ BlocksOf(ciphercb, m) \in Nat
    BY <1>3, <2>2, <2>7 DEF BlocksOf, m
  <2>9. answered' \in Seq(Responses) /\ Len(answered') = num
    <3> DEFINE w == WholeResponse(num, s)
    <3>1. w \in Responses
      BY <2>5, WholeResponseIs
    <3>2. answered' = Append(answered, w)
      BY <2>2
    <3> HIDE DEF w
    <3> QED BY <1>3, <3>1, <3>2, AppendPrefix DEF num
  <2>10. served' = written' /\ served' \in Nat
    BY <1>1, <1>3, <1>6, <2>1, <2>3
  <2>11. ConnectionType'
    BY <1>1, <1>3, <2>4, <2>8, <2>9, <2>10 DEF Sound, ConnectionType
  <2>12. ReadingOf(s, 0)'
    <3>1. answered' = Append(delivered', WholeResponse(num, s))
      BY <1>1, <2>2, <2>6
    <3>2. OnWire(ciphercb', input_raw' \o stream', Key, decrypted', Window(m, 0, Len(m)))
      BY <1>1, <2>6, <2>7
    <3>3. encrypted' = decrypted' + BlocksOf(ciphercb', Window(m, 0, Len(m)))
      BY <1>1, <2>6, <2>7, <2>8
    <3>4. ParsedRight(Connection(state', input', req'), num, s, 0)
      BY <1>1, <2>4, <2>6, <2>7
    <3> QED BY <2>7, <2>9, <3>1, <3>2, <3>3, <3>4 DEF ReadingOf, m
  <2>13. ReadingRight'
    <3>1. NothingWritten'
      BY <2>3, <2>4, <2>10 DEF NothingWritten
    <3>2. input_raw' = <<>> /\ <<>> \in Seq(BytesOf(ciphercb')) /\ ciphercb' = ciphercb
      BY <1>1, <2>6
    <3>3. Len(answered') # 0 /\ 0 \in Nat
      BY <2>5, <2>9
    <3> QED BY <2>7, <2>12, <3>1, <3>2, <3>3 DEF ReadingRight
  <2>14. WritingRight'
    BY <2>4 DEF WritingRight
  <2> QED BY <1>9, <2>11, <2>13, <2>14 DEF Sound
<1> QED BY <1>10, <1>11

\* A status line of which the LF did not come yet.
EndsInCr(text) == text # <<>> /\ Last(text) = CR /\ LineEnd(text) = 0

LEMMA CrAlone ==
  ASSUME NEW n \in Nat \ {0}, NEW size \in Nat, 2 \in 0..Len(Response(n, size))
  PROVE EndsInCr(Window(Response(n, size), 0, 2))
<1> DEFINE m == Response(n, size)
           w == Window(m, 0, 2)
           f == Text("status", n)
           hs == ResponseHeaders(n, size)
           b == Body(size)
<1>1. IsMessage(m, f, hs, b)
  BY ResponseIsMessage
<1>2. 2 \in 0..Len(m)
  OBVIOUS
<1> HIDE DEF m, hs, b, f
<1>3. m \in Seq(Texts) /\ m[1] = f /\ m[2] = CR
  BY <1>1 DEF IsMessage
<1>4. IsWindow(w, m, 0, 2, Texts)
  <2>1. 0 \in 0..2
    OBVIOUS
  <2> QED BY <1>2, <1>3, <2>1, WindowIs
<1> HIDE DEF w
<1>5. w \in Seq(Texts) /\ Len(w) = 2 /\ w[1] = f /\ w[2] = CR
  <2>1. 1 \in 1..(2 - 0) /\ 2 \in 1..(2 - 0) /\ 0 + 1 = 1 /\ 0 + 2 = 2 /\ 2 - 0 = 2
    OBVIOUS
  <2> QED BY <1>3, <1>4, <2>1 DEF IsWindow
<1>6. f # LF /\ CR # LF
  BY DEF f, LF, CR, Text
<1>7. w # <<>> /\ Last(w) = CR
  <2>1. Last(w) = w[Len(w)]
    BY DEF Last
  <2>2. Len(<<>>) = 0
    OBVIOUS
  <2> QED BY <1>5, <2>1, <2>2
<1>8. LineEnd(w) = 0
  <2>1. \A i \in 1..Len(w) : i < 3 => w[i] # LF
    <3>1. \A i \in 1..Len(w) : i = 1 \/ i = 2
      BY <1>5
    <3> QED BY <1>5, <1>6, <3>1
  <2>2. ~(3 <= Len(w)) /\ 3 \in Nat \ {0}
    BY <1>5
  <2> QED BY <1>5, <2>1, <2>2, LineEndIs
<1> QED BY <1>7, <1>8 DEF EndsInCr, w, m

LEMMA ParsedIsConnection ==
  ASSUME NEW c, NEW n, NEW size, NEW came, ParsedRight(c, n, size, came)
  PROVE c = Connection(c.state, c.input, c.req)
<1>1. ASSUME NEW s, NEW t, NEW r, c = Connection(s, t, r) PROVE c = Connection(c.state, c.input, c.req)
  BY <1>1 DEF Connection
<1> QED BY <1>1 DEF ParsedRight

LEMMA ReadSound ==
  ASSUME Sound, ~closed, "cr" \notin cuts', NEW n \in Nat \ {0}, Read(n) PROVE Sound'
<1> DEFINE first == SubSeq(stream, 1, n)
           later == SubSeq(stream, n + 1, Len(stream))
           raw == input_raw \o first
           num == Len(answered)
           d == Deciphered(raw, Key, decrypted)
           x == Connection(state, input \o d.data, req)
           c == Parsed(x)
<1>1. /\ Reading /\ n <= Len(stream) /\ cuts' = cuts \cup CutsOf(raw, input \o d.data)
      /\ decrypted' = (IF d.ok THEN d.counter ELSE decrypted)
      /\ IF ~d.ok THEN ConnectionFail("cipher")
         ELSE IF c.state = "CORRUPTED" THEN ConnectionFail("header")
         ELSE /\ stream' = later /\ input' = c.input /\ input_raw' = d.rest
              /\ IF c.state = "DONE" THEN ConnectionDone(c.req)
                 ELSE state' = c.state /\ req' = c.req /\ UNCHANGED <<delivered, ciphercb, failed>>
      /\ UNCHANGED <<writeVars, closed>>
  BY DEF Read, Connection
<1>2. /\ NothingWritten /\ stream # <<>> /\ (~ciphercb => input_raw = <<>>)
      /\ input_raw \in Seq(BytesOf(ciphercb)) /\ stream \in Seq(BytesOf(ciphercb))
      /\ Len(answered) # 0
  BY <1>1 DEF Sound, ReadingRight
<1>3. PICK size \in Bodies, came \in Nat : ReadingOf(size, came)
  BY <1>1 DEF Sound, ReadingRight
<1>4. /\ ciphercb \in BOOLEAN /\ decrypted \in Nat /\ encrypted \in Nat /\ size \in Nat
      /\ answered \in Seq(Responses) /\ delivered \in Seq(Responses) /\ num \in Nat \ {0}
  BY <1>2, RtspReadAssumption, LenProperties DEF Sound, ConnectionType
<1> DEFINE m == Response(num, size)
           text == Window(m, came, Len(m))
<1>5. /\ answered = Append(delivered, WholeResponse(num, size)) /\ came \in 0..Len(m)
      /\ OnWire(ciphercb, input_raw \o stream, Key, decrypted, text)
      /\ encrypted = decrypted + BlocksOf(ciphercb, text)
      /\ ParsedRight(Connection(state, input, req), num, size, came)
  BY <1>3 DEF ReadingOf
<1>6. m \in Seq(Texts) /\ Len(m) \in Nat
  <2>1. num \in Nat
    BY <1>4
  <2>2. IsMessage(m, Text("status", num), ResponseHeaders(num, size), Body(size))
    <3> HIDE DEF num
    <3> QED BY <1>4, <2>1, ResponseIsMessage
  <2> HIDE DEF m
  <2> QED BY <2>2, LenProperties DEF IsMessage
<1>7. /\ raw \in Seq(BytesOf(ciphercb)) /\ later \in Seq(BytesOf(ciphercb)) /\ raw \o later = input_raw \o stream
      /\ Len(raw) > 0
  <2>1. n \in 0..Len(stream) /\ n > 0
    BY <1>1, <1>2, LenProperties
  <2>2. Moved(input_raw, stream, n, BytesOf(ciphercb))
    BY <1>2, <2>1, CutMoves
  <2> QED BY <2>1, <2>2 DEF Moved
<1> HIDE DEF first, later, raw, m, num
<1>8. IsWindow(text, m, came, Len(m), Texts)
  <2>1. Len(m) \in 0..Len(m)
    BY <1>6
  <2> QED BY <1>5, <1>6, <2>1, WindowIs
<1>9. text \in Seq(Texts)
  BY <1>8 DEF IsWindow
<1>10. CASE ciphercb = TRUE /\ ~(Len(raw) >= LengthSize)
  <2>1. Len(raw) \in Nat /\ Len(raw) < LengthSize /\ Len(raw) = 1
    <3>1. Len(raw) \in Nat
      BY <1>7, LenProperties
    <3>2. ~(Len(raw) >= LengthSize) /\ Len(raw) > 0
      BY <1>7, <1>10
    <3> DEFINE l == Len(raw)
    <3>3. l \in Nat /\ ~(l >= 2) /\ l > 0
      BY <3>1, <3>2 DEF LengthSize
    <3> HIDE DEF l
    <3>4. l < 2 /\ l = 1
      BY <3>3
    <3> QED BY <3>1, <3>4 DEF l, LengthSize
  <2>2. d.ok = FALSE
    <3>1. d = Decrypted(raw, Key, decrypted)
      BY <1>10 DEF Deciphered
    <3> QED BY <2>1, <3>1, ShortFails
  <2> HIDE DEF d, x, c
  <2>3. "byte" \in cuts'
    BY <1>1, <1>10, <2>1 DEF CutsOf
  <2>4. ConnectionFail("cipher") /\ decrypted' = decrypted /\ UNCHANGED <<writeVars, closed>>
    BY <1>1, <2>2
  <2>5. UNCHANGED <<writeVars, decrypted, closed>>
    BY <2>4
  <2> QED BY <2>3, <2>4, <2>5, FailSound
<1>11. CASE ciphercb => Len(raw) >= LengthSize
  <2>1. PieceRight(d, ciphercb, Key, decrypted, text, later)
    <3>1. OnWire(ciphercb, raw \o later, Key, decrypted, text)
      BY <1>5, <1>7 DEF m, num
    <3> HIDE DEF text
    <3> QED BY <1>4, <1>7, <1>9, <1>11, <3>1, KeysAre, DecipheredRight
  <2> HIDE DEF d
  <2>2. PICK rem \in Seq(Texts) :
          /\ d.ok = TRUE /\ d.data \in Seq(Texts) /\ d.data \o rem = text
          /\ d.rest \in Seq(BytesOf(ciphercb)) /\ d.counter \in Nat
          /\ OnWire(ciphercb, d.rest \o later, Key, d.counter, rem)
          /\ d.counter + BlocksOf(ciphercb, rem) = decrypted + BlocksOf(ciphercb, text)
          /\ later = <<>> => rem = <<>> /\ d.rest = <<>>
          /\ ~ciphercb => d.rest = <<>>
    BY <2>1 DEF PieceRight
  <2> DEFINE data == d.data
  <2>3. PICK e \in came..Len(m) : data = Window(m, came, e) /\ rem = Window(m, e, Len(m))
    <3>1. SplitAt(m, came, data, rem)
      <4> HIDE DEF data
      <4> QED BY <1>5, <1>6, <2>2, SplitWindow DEF data, m, num
    <3> QED BY <3>1 DEF SplitAt
  <2> HIDE DEF data
  <2>4. e \in 0..Len(m) /\ came \in 0..e /\ e \in Nat
    BY <1>6, <2>3
  <2>5. ParsedRight(x, num, size, e)
    <3>1. ParsedRight(Connection(state, input \o Window(m, came, e), req), num, size, e)
      BY <1>4, <1>5, <2>4, ParsedExtends DEF m, num
    <3> QED BY <2>3, <3>1 DEF data
  <2>6. x.state = "READING_FIRSTLINE" => e # 2
    <3>1. SUFFICES ASSUME x.state = "READING_FIRSTLINE", e = 2 PROVE FALSE
      OBVIOUS
    <3>2. x = Connection("READING_FIRSTLINE", Window(m, 0, e), NewRequest)
      BY <2>5, <3>1 DEF ParsedRight, Connection, m
    <3>3. state = "READING_FIRSTLINE" /\ input \o d.data = Window(m, 0, e)
      BY <3>2 DEF Connection
    <3>4. EndsInCr(input \o d.data)
      <4>1. 2 \in 0..Len(m)
        BY <2>4, <3>1
      <4>2. EndsInCr(Window(m, 0, 2))
        BY <1>4, <4>1, CrAlone DEF m, num
      <4> QED BY <3>1, <3>3, <4>2
    <3> DEFINE t == input \o d.data
    <3>5. t # <<>> /\ Last(t) = CR => LineEnd(t) # 0
      <4>1. "cr" \notin CutsOf(raw, t)
        BY <1>1
      <4> HIDE DEF t
      <4> QED BY <3>3, <4>1 DEF CutsOf
    <3> HIDE DEF t
    <3>6. EndsInCr(t)
      BY <3>4 DEF t
    <3> QED BY <3>5, <3>6 DEF EndsInCr
  <2>7. ParsedTo(c, num, size, e)
    <3> HIDE DEF x
    <3>1. ParsedTo(Parsed(x), num, size, e)
      BY <1>4, <2>4, <2>5, <2>6, ParsedIs DEF m, num
    <3> QED BY <3>1
  <2> HIDE DEF x, c
  <2>8. UNCHANGED <<output_raw, arrived, written, served, encrypted, answered, closed>> /\ decrypted' = d.counter
    BY <1>1, <2>2 DEF writeVars
  <2>9. NothingWritten' /\ num' = num
    BY <1>2, <2>8 DEF NothingWritten, num
  <2>10. CASE e < Len(m)
    <3>1. ParsedRight(c, num, size, e) /\ c.state \in {"READING_FIRSTLINE", "READING_HEADERS", "READING_BODY"}
      BY <2>7, <2>10 DEF ParsedTo, m
    <3>2. /\ stream' = later /\ input' = c.input /\ input_raw' = d.rest
          /\ state' = c.state /\ req' = c.req /\ UNCHANGED <<delivered, ciphercb, failed>>
      BY <1>1, <2>2, <3>1
    <3>3. rem # <<>>
      <4>1. IsWindow(rem, m, e, Len(m), Texts)
        <5>1. Len(m) \in 0..Len(m)
          BY <1>6
        <5> QED BY <1>6, <2>3, <2>4, <5>1, WindowIs
      <4>2. Len(rem) = Len(m) - e /\ Len(m) - e > 0
        BY <1>6, <2>4, <2>10, <4>1 DEF IsWindow
      <4> QED BY <4>2
    <3>4. later # <<>>
      BY <2>2, <3>3
    <3>5. ConnectionType'
      BY <2>2, <2>8, <3>1, <3>2 DEF Sound, ConnectionType
    <3>6. ReadingOf(size, e)'
      <4>1. answered' = Append(delivered', WholeResponse(num, size))
        BY <1>5, <2>8, <3>2 DEF num
      <4>2. OnWire(ciphercb', input_raw' \o stream', Key, decrypted', Window(m, e, Len(m)))
        BY <2>2, <2>3, <2>8, <3>2
      <4>3. encrypted' = decrypted' + BlocksOf(ciphercb', Window(m, e, Len(m)))
        BY <1>5, <2>2, <2>3, <2>8, <3>2 DEF m, num
      <4>4. ParsedRight(Connection(state', input', req'), num, size, e)
        <5>1. c = Connection(c.state, c.input, c.req)
          BY <3>1, ParsedIsConnection
        <5> QED BY <3>1, <3>2, <5>1
      <4>5. num = Len(answered')
        BY <2>8 DEF num
      <4> QED BY <2>4, <4>1, <4>2, <4>3, <4>4, <4>5 DEF ReadingOf, m
    <3>7. ReadingRight'
      <4>1. stream' # <<>> /\ (~ciphercb' => input_raw' = <<>>)
            /\ input_raw' \in Seq(BytesOf(ciphercb')) /\ stream' \in Seq(BytesOf(ciphercb'))
        BY <1>7, <2>2, <3>2, <3>4
      <4>2. Len(answered') # 0
        BY <1>2, <2>8
      <4> QED BY <2>4, <2>9, <3>6, <4>1, <4>2 DEF ReadingRight
    <3>8. IdleRight' /\ WritingRight' /\ DisconnectedRight'
      BY <3>1, <3>2 DEF IdleRight, WritingRight, DisconnectedRight
    <3>9. FailedRight'
      BY <1>1, <3>2 DEF Sound, FailedRight
    <3> QED BY <3>5, <3>7, <3>8, <3>9 DEF Sound
  <2>11. CASE e = Len(m)
    <3>1. c = Connection("DONE", <<>>, WholeResponse(num, size))
      BY <1>6, <2>7, <2>11 DEF ParsedTo, m
    <3>2. c.state = "DONE" /\ c.input = <<>> /\ c.req = WholeResponse(num, size)
      BY <3>1 DEF Connection
    <3>3. /\ stream' = later /\ input' = <<>> /\ input_raw' = d.rest
          /\ ConnectionDone(WholeResponse(num, size))
      BY <1>1, <2>2, <3>2
    <3>4. /\ state' = "IDLE" /\ delivered' = answered /\ req' = NewRequest
          /\ ciphercb' \in {ciphercb, ciphercb \/ WholeResponse(num, size).body # <<>>} /\ failed' = failed
      BY <1>5, <3>3 DEF ConnectionDone, num
    <3>5. rem = <<>>
      <4>1. IsWindow(rem, m, e, Len(m), Texts)
        <5>1. Len(m) \in 0..Len(m)
          BY <1>6
        <5> QED BY <1>6, <2>3, <2>4, <5>1, WindowIs
      <4> QED BY <1>6, <2>11, <4>1, EmptySeq DEF IsWindow
    <3>6. later = <<>> /\ d.rest = <<>>
      <4>1. d.rest \o later = <<>>
        BY <1>4, <2>2, <3>5, NothingOnWire
      <4>2. d.rest \in Seq(BytesOf(ciphercb)) /\ later \in Seq(BytesOf(ciphercb))
        BY <1>7, <2>2
      <4> DEFINE r == d.rest
      <4> HIDE DEF r
      <4>3. r \in Seq(BytesOf(ciphercb)) /\ r \o later = <<>>
        BY <4>1, <4>2 DEF r
      <4>4. r = <<>> /\ later = <<>>
        BY <4>2, <4>3, ConcatEqualIffEmpty
      <4> QED BY <4>4 DEF r
    <3>7. decrypted' = encrypted'
      <4>1. BlocksOf(ciphercb, rem) = 0
        BY <3>5 DEF BlocksOf, Blocks
      <4> QED BY <1>5, <2>2, <2>8, <4>1 DEF m, num
    <3>8. IdleRight'
      <4>1. NothingRead'
        BY <2>8, <3>3, <3>4, <3>6, <3>7 DEF NothingRead
      <4> QED BY <2>9, <4>1 DEF IdleRight
    <3>9. ConnectionType'
      <4>1. ciphercb' \in BOOLEAN
        BY <1>4, <3>4
      <4> QED BY <1>4, <2>2, <2>8, <3>4, <4>1 DEF Sound, ConnectionType
    <3>10. WritingRight' /\ ReadingRight' /\ DisconnectedRight'
      BY <3>4 DEF WritingRight, ReadingRight, Reading, DisconnectedRight
    <3>11. FailedRight'
      BY <1>1, <3>4 DEF Sound, FailedRight
    <3> QED BY <3>8, <3>9, <3>10, <3>11 DEF Sound
  <2> QED BY <1>6, <2>4, <2>10, <2>11
<1> QED BY <1>4, <1>10, <1>11

LEMMA StutterSound == ASSUME Sound, UNCHANGED readVars PROVE Sound'
<1>1. /\ UNCHANGED <<output_raw, arrived, written, served, encrypted, answered>>
      /\ UNCHANGED <<state, stream, input_raw, input, req, delivered, ciphercb, decrypted, closed, failed, cuts>>
  BY DEF readVars, writeVars
<1>2. ConnectionType'
  BY <1>1 DEF Sound, ConnectionType
<1>3. NothingRead' = NothingRead /\ NothingWritten' = NothingWritten
  BY <1>1 DEF NothingRead, NothingWritten
<1>4. IdleRight'
  BY <1>1, <1>3 DEF Sound, IdleRight
<1>5. WritingRight'
  <2>1. \A size : WritingOf(size)' = WritingOf(size)
    BY <1>1 DEF WritingOf
  <2> QED BY <1>1, <1>3, <2>1 DEF Sound, WritingRight
<1>6. ReadingRight'
  <2>1. \A size, came : ReadingOf(size, came)' = ReadingOf(size, came)
    BY <1>1 DEF ReadingOf
  <2> QED BY <1>1, <1>3, <2>1 DEF Sound, ReadingRight, Reading
<1>7. DisconnectedRight' /\ FailedRight'
  BY <1>1 DEF Sound, DisconnectedRight, FailedRight
<1> QED BY <1>2, <1>4, <1>5, <1>6, <1>7 DEF Sound

LEMMA ReadStep ==
  ASSUME ReadInv, [ReadNext]_readVars PROVE ReadInv'
<1> SUFFICES ASSUME "cr" \notin cuts' PROVE ReadInv'
  BY DEF ReadInv
<1>0. "cr" \notin cuts
  <2>1. CASE ReadNext
    <3>1. cuts \subseteq cuts'
      BY <2>1 DEF ReadNext, Request, WriteFails, Close, ReadClosed, DetectClose, ReadTimeout, WriteSome, Read
    <3> QED BY <3>1
  <2>2. CASE UNCHANGED readVars
    BY <2>2 DEF readVars
  <2> QED BY <2>1, <2>2
<1>1. CASE closed
  <2>1. CASE ReadNext
    <3>1. closed'
      BY <1>1, <2>1 DEF ReadNext, Request, WriteFails, Close, ReadClosed, DetectClose, ReadTimeout, WriteSome, Read
    <3> QED BY <3>1 DEF ReadInv
  <2>2. CASE UNCHANGED readVars
    BY <1>1, <2>2 DEF readVars, ReadInv
  <2> QED BY <2>1, <2>2
<1>2. CASE ~closed
  <2>1. Sound
    BY <1>0, <1>2 DEF ReadInv
  <2>2. CASE Request
    BY <2>1, <2>2, RequestSound DEF ReadInv
  <2>3. CASE WriteFails
    <3>1. ConnectionFail("timeout") /\ UNCHANGED <<writeVars, decrypted, closed>>
      BY <1>2, <2>3 DEF WriteFails
    <3>2. UNCHANGED <<writeVars, decrypted, closed>>
      BY <3>1
    <3> QED BY <2>1, <3>1, <3>2, FailSound DEF ReadInv
  <2>4. CASE Close
    <3>1. closed' = TRUE
      BY <2>4 DEF Close
    <3> QED BY <3>1 DEF ReadInv
  <2>5. CASE ReadClosed
    BY <1>2, <2>5 DEF ReadClosed
  <2>6. CASE DetectClose
    BY <1>2, <2>1, <2>6 DEF DetectClose, Sound, IdleRight, NothingRead
  <2>7. CASE ReadTimeout
    <3>1. ConnectionFail("timeout") /\ UNCHANGED <<writeVars, decrypted, closed>>
      BY <2>7 DEF ReadTimeout
    <3>2. UNCHANGED <<writeVars, decrypted, closed>>
      BY <3>1
    <3> QED BY <2>1, <3>1, <3>2, FailSound DEF ReadInv
  <2>8. ASSUME NEW n \in 1..MaxWire, WriteSome(n) PROVE ReadInv'
    <3>1. n \in Nat \ {0}
      BY DEF MaxWire
    <3> QED BY <1>2, <2>1, <2>8, <3>1, WriteSound DEF ReadInv
  <2>9. ASSUME NEW n \in 1..MaxWire, Read(n) PROVE ReadInv'
    <3>1. n \in Nat \ {0}
      BY DEF MaxWire
    <3> QED BY <1>2, <2>1, <2>9, <3>1, ReadSound DEF ReadInv
  <2>10. CASE UNCHANGED readVars
    BY <2>1, <2>10, StutterSound DEF ReadInv
  <2> QED BY <2>2, <2>3, <2>4, <2>5, <2>6, <2>7, <2>8, <2>9, <2>10 DEF ReadNext
<1> QED BY <1>1, <1>2

LEMMA ReadInvCorrect == ReadSpec => []ReadInv
<1>1. ReadInit => ReadInv
  BY SoundInit DEF ReadInv
<1>2. ReadInv /\ [ReadNext]_readVars => ReadInv'
  BY ReadStep
<1> QED BY <1>1, <1>2, PTL DEF ReadSpec

(* evrtsp_read: in whatever pieces the bytes of requests and responses are taken and delivered, *)
(* while the device keeps the connection the callbacks get the responses of the device, whole   *)
(* and in order, until a read ends between the CR and the LF of a status line.                  *)
THEOREM ResponsesCorrect == ReadSpec => []ResponseExact
<1>1. ReadInv => ResponseExact
  BY DeliveredBefore DEF ReadInv, ResponseExact
<1> QED BY <1>1, ReadInvCorrect, PTL

(* evrtsp_connection_fail: until such a read, a connection the device keeps fails for a timeout, *)
(* or in the cipher, and that only if a read left it a single byte.                              *)
THEOREM FailuresCorrect == ReadSpec => []OnlyTimeoutFails
<1>1. ReadInv => OnlyTimeoutFails
  BY DEF ReadInv, Sound, FailedRight, OnlyTimeoutFails
<1> QED BY <1>1, ReadInvCorrect, PTL

(* evrtsp_read: no part of a response waits in a buffer for a read event that never comes, and    *)
(* the counters of the ciphering agree at both ends, until a read ends between the CR and the LF  *)
(* of a status line.                                                                              *)
THEOREM WaitingCorrect == ReadSpec => []NothingWaits
<1>1. ReadInv => NothingWaits
  <2> SUFFICES ASSUME ReadInv, stream = <<>>, ~closed, "cr" \notin cuts
               PROVE /\ ~Reading
                     /\ state = "IDLE" => /\ input = <<>> /\ input_raw = <<>> /\ decrypted = encrypted
                                          /\ arrived = <<>> /\ served = written
    BY DEF NothingWaits
  <2>1. Sound
    BY DEF ReadInv
  <2>2. ~Reading
    BY <2>1 DEF Sound, ReadingRight
  <2>3. state = "IDLE" => NothingRead /\ NothingWritten
    BY <2>1 DEF Sound, IdleRight
  <2> QED BY <2>2, <2>3 DEF NothingRead, NothingWritten
<1> QED BY <1>1, ReadInvCorrect, PTL
=============================================================================
