---------------------------- MODULE PairingProofs ----------------------------
(***************************************************************************)
(* Proofs about Pairing, for any group whose generator has an inverse, any *)
(* pins, salts and secrets, and chunks of any size.                        *)
(***************************************************************************)
EXTENDS Pairing, SequenceTheorems, WellFoundedInduction, TLAPS

LEMMA LeastOf == ASSUME NEW T, T \subseteq Nat, T # {} PROVE \E x \in T : \A y \in T : x <= y
<1>1. IsWellFoundedOn(OpToRel(<, Nat), Nat)
  BY NatLessThanWellFounded
<1>2. PICK x \in T : \A y \in T : ~(<<y, x>> \in OpToRel(<, Nat))
  <2>1. IsWellFoundedOn(OpToRel(<, Nat), T)
    BY <1>1, IsWellFoundedOnSubset
  <2>2. PICK x \in T : \A y \in T : ~(<<y, x>> \in OpToRel(<, Nat))
    BY <2>1, WFMin
  <2> QED BY <2>2
<1>3. \A y \in T : ~(y < x)
  BY <1>2 DEF OpToRel
<1> QED BY <1>3

LEMMA LeastIsMin ==
  ASSUME NEW S, S \subseteq Int, NEW x \in S, \A y \in S : x <= y
  PROVE Min(S) = x
<1>1. \A z \in S : (\A y \in S : z <= y) => z = x
  OBVIOUS
<1> QED BY <1>1 DEF Min

-----------------------------------------------------------------------------
(* Lists of typed values *)

LEMMA ChunkCountPositive == ASSUME NEW size \in Nat \ {0} PROVE ChunkCount(size) \in Nat \ {0}
<1> DEFINE q == (size + ChunkMax - 1) \div ChunkMax
<1>1. ChunkMax \in Nat \ {0} /\ size + ChunkMax - 1 \in Nat /\ size + ChunkMax - 1 >= ChunkMax
  BY PairTlvAssumption
<1>2. q \in Int /\ q >= 1
  BY <1>1, Z3
<1> QED BY <1>2 DEF ChunkCount

\* One turn of the loop of TlvFormat, after which n values are written.
Turn(list, n, before) == before \o TlvChunks(list[n])
(* The loop is well defined: each turn writes after what the turns before it wrote.        *)
LEMMA Written ==
  ASSUME NEW list, Len(list) \in Nat
  PROVE \E f : /\ TlvFormat(list) = f[Len(list)] /\ f[0] = <<>>
               /\ \A n \in 1..Len(list) : f[n] = Turn(list, n, f[n - 1])
<1> DEFINE size == Len(list)
           Turned(h, n) == IF n = 0 THEN <<>> ELSE Turn(list, n, h[n - 1])
           Runs(h, n) == h = [k \in 0..n |-> Turned(h, k)]
           Stuck == {n \in 0..size : ~\E h : Runs(h, n)}
<1>1. Stuck = {}
  <2> SUFFICES ASSUME Stuck # {} PROVE FALSE
    OBVIOUS
  <2>1. PICK n \in Stuck : \A m \in Stuck : n <= m
    <3>1. Stuck \subseteq Nat /\ Stuck # {}
      OBVIOUS
    <3> HIDE DEF Stuck
    <3> QED BY <3>1, LeastOf
  <2>2. CASE n = 0
    <3> DEFINE h == [k \in 0..0 |-> <<>>]
    <3>1. Runs(h, 0)
      OBVIOUS
    <3> HIDE DEF Runs, h
    <3> QED BY <2>1, <2>2, <3>1
  <2>3. CASE n # 0
    <3>1. n \in 1..size /\ n - 1 \in 0..size /\ n - 1 \notin Stuck
      BY <2>1, <2>3
    <3>2. PICK b : Runs(b, n - 1)
      BY <3>1
    <3> DEFINE h == [k \in 0..n |-> IF k = n THEN Turn(list, n, b[n - 1]) ELSE b[k]]
    <3>3. ASSUME NEW k \in 0..n PROVE h[k] = Turned(h, k)
      <4>1. CASE k = n
        BY <3>1, <4>1
      <4>2. CASE k \in 0..(n - 1)
        <5>1. b[k] = Turned(b, k)
          BY <3>2, <4>2
        <5>2. h[k] = b[k] /\ (k # 0 => h[k - 1] = b[k - 1])
          BY <3>1, <4>2
        <5> QED BY <5>1, <5>2
      <4> QED BY <3>1, <4>1, <4>2
    <3>4. h = [k \in 0..n |-> h[k]]
      OBVIOUS
    <3> HIDE DEF h, Turned
    <3>5. h = [k \in 0..n |-> Turned(h, k)]
      BY <3>3, <3>4
    <3>6. Runs(h, n)
      BY <3>5
    <3> HIDE DEF Runs
    <3> QED BY <2>1, <3>6
  <2> QED BY <2>2, <2>3
<1> DEFINE f == CHOOSE h : Runs(h, size)
<1>2. TlvFormat(list) = f[size]
  BY DEF TlvFormat, Turn
<1>3. \E h : Runs(h, size)
  <2>1. size \in 0..size
    OBVIOUS
  <2> HIDE DEF Runs
  <2> QED BY <1>1, <2>1
<1>4. Runs(f, size)
  <2> HIDE DEF Runs
  <2> QED BY <1>3
<1> HIDE DEF f
<1>5. \A k \in 0..size : f[k] = Turned(f, k)
  <2> HIDE DEF Turned
  <2> QED BY <1>4
<1> QED BY <1>2, <1>5

\* The chunks hold the value once: those from o + 1 on are its chunks, and no others are of its type.
HeldAt(chunks, tlv, o) ==
  /\ o \in Nat /\ o + ChunkCount(tlv.size) <= Len(chunks)
  /\ \A k \in 1..ChunkCount(tlv.size) : chunks[o + k] = TlvChunks(tlv)[k]
  /\ \A j \in 1..Len(chunks) :
       chunks[j].type = tlv.type => j \in (o + 1)..(o + ChunkCount(tlv.size))
Held(chunks, tlv) == \E o : HeldAt(chunks, tlv, o)

\* A list that can be sent: no empty values and one of each type.
Sendable(list) ==
  /\ Len(list) \in Nat
  /\ \A i \in 1..Len(list) : list[i].size \in Nat \ {0}
  /\ \A i, j \in 1..Len(list) : list[i].type = list[j].type => i = j

(* What pair_tlv_format writes holds each value of the list, and nothing of another type.  *)
LEMMA FormatHolds ==
  ASSUME NEW list, Sendable(list)
  PROVE /\ Len(TlvFormat(list)) \in Nat /\ DOMAIN TlvFormat(list) = 1..Len(TlvFormat(list))
        /\ \A i \in 1..Len(list) : Held(TlvFormat(list), list[i])
        /\ \A j \in DOMAIN TlvFormat(list) : \E i \in 1..Len(list) : TlvFormat(list)[j].type = list[i].type
<1> DEFINE size == Len(list)
           T == UNION {{TlvChunks(list[i])[k] : k \in 1..ChunkCount(list[i].size)} : i \in 1..size}
<1>1. PICK f : /\ TlvFormat(list) = f[size] /\ f[0] = <<>>
               /\ \A n \in 1..size : f[n] = Turn(list, n, f[n - 1])
  BY Written DEF Sendable
<1>2. ASSUME NEW i \in 1..size
      PROVE /\ ChunkCount(list[i].size) \in Nat \ {0}
            /\ TlvChunks(list[i]) \in Seq(T) /\ Len(TlvChunks(list[i])) = ChunkCount(list[i].size)
            /\ \A k \in 1..ChunkCount(list[i].size) : TlvChunks(list[i])[k].type = list[i].type
  <2> DEFINE c == ChunkCount(list[i].size)
             s == TlvChunks(list[i])
  <2>1. c \in Nat \ {0}
    BY ChunkCountPositive DEF Sendable
  <2>2. s = [k \in 1..c |-> s[k]] /\ \A k \in 1..c : s[k].type = list[i].type
    BY DEF TlvChunks
  <2>3. \A k \in 1..c : s[k] \in T
    OBVIOUS
  <2> HIDE DEF T, c, s
  <2>4. s \in Seq(T) /\ Len(s) = c
    <3>1. s \in [1..c -> T]
      BY <2>2, <2>3
    <3> QED BY <2>1, <3>1
  <2> QED BY <2>1, <2>2, <2>4 DEF c, s
<1> DEFINE P(n) == /\ f[n] \in Seq(T)
                   /\ \A i \in 1..n : Held(f[n], list[i])
                   /\ \A j \in 1..Len(f[n]) : \E i \in 1..n : f[n][j].type = list[i].type
           Wrong == {n \in 0..size : ~P(n)}
<1> HIDE DEF T
<1>3. P(0)
  BY <1>1
<1>4. ASSUME NEW n \in 1..size, P(n - 1) PROVE P(n)
  <2> DEFINE a == f[n - 1]
             b == TlvChunks(list[n])
             c == ChunkCount(list[n].size)
  <2>1. f[n] = a \o b
    BY <1>1 DEF Turn
  <2>2. a \in Seq(T) /\ b \in Seq(T) /\ Len(b) = c /\ c \in Nat \ {0} /\ Len(a) \in Nat
        /\ \A k \in 1..c : b[k].type = list[n].type
    BY <1>2, <1>4
  <2> HIDE DEF a, b, c
  <2>3. /\ f[n] \in Seq(T) /\ Len(f[n]) = Len(a) + c
        /\ \A j \in 1..Len(a) : f[n][j] = a[j]
        /\ \A k \in 1..c : f[n][Len(a) + k] = b[k]
    <3>1. (a \o b) \in Seq(T) /\ Len(a \o b) = Len(a) + Len(b)
      BY <2>2, ConcatProperties
    <3>2. \A j \in 1..Len(a) : (a \o b)[j] = a[j]
      BY <2>2
    <3>3. ASSUME NEW k \in 1..c PROVE (a \o b)[Len(a) + k] = b[k]
      BY <2>2
    <3> QED BY <2>1, <2>2, <3>1, <3>2, <3>3
  <2>4. \A j \in 1..Len(f[n]) : j \in 1..Len(a) \/ \E k \in 1..c : j = Len(a) + k
    <3> SUFFICES ASSUME NEW j \in 1..Len(f[n]), j \notin 1..Len(a) PROVE \E k \in 1..c : j = Len(a) + k
      OBVIOUS
    <3>1. j - Len(a) \in 1..c /\ j = Len(a) + (j - Len(a))
      BY <2>2, <2>3
    <3> QED BY <3>1
  <2>5. ASSUME NEW i \in 1..(n - 1) PROVE Held(f[n], list[i])
    <3>1. PICK o : HeldAt(a, list[i], o)
      BY <1>4 DEF Held, a
    <3>2. list[i].type # list[n].type /\ ChunkCount(list[i].size) \in Nat \ {0}
      BY <1>2 DEF Sendable
    <3> DEFINE d == ChunkCount(list[i].size)
    <3>3. o \in Nat /\ o + d <= Len(a) /\ \A k \in 1..d : a[o + k] = TlvChunks(list[i])[k]
      BY <3>1 DEF HeldAt
    <3>4. \A j \in 1..Len(a) : a[j].type = list[i].type => j \in (o + 1)..(o + d)
      BY <3>1 DEF HeldAt
    <3> HIDE DEF d
    <3>5. o + d <= Len(f[n]) /\ \A k \in 1..d : f[n][o + k] = TlvChunks(list[i])[k]
      <4>1. \A k \in 1..d : o + k \in 1..Len(a)
        BY <2>2, <3>2, <3>3 DEF d
      <4> QED BY <2>2, <2>3, <3>2, <3>3, <4>1 DEF d
    <3>6. ASSUME NEW j \in 1..Len(f[n]), f[n][j].type = list[i].type PROVE j \in (o + 1)..(o + d)
      <4>1. CASE j \in 1..Len(a)
        BY <2>3, <3>4, <3>6, <4>1
      <4>2. ASSUME NEW k \in 1..c, j = Len(a) + k PROVE FALSE
        BY <2>2, <2>3, <3>2, <3>6, <4>2
      <4> QED BY <2>4, <4>1, <4>2
    <3>7. HeldAt(f[n], list[i], o)
      BY <3>3, <3>5, <3>6 DEF HeldAt, d
    <3> QED BY <3>7 DEF Held
  <2>6. Held(f[n], list[n])
    <3>1. ASSUME NEW j \in 1..Len(a), f[n][j].type = list[n].type PROVE FALSE
      <4>1. PICK i \in 1..(n - 1) : a[j].type = list[i].type
        BY <1>4 DEF a
      <4>2. list[i].type # list[n].type
        BY DEF Sendable
      <4> QED BY <2>3, <3>1, <4>1, <4>2
    <3>2. \A j \in 1..Len(f[n]) : f[n][j].type = list[n].type => j \in (Len(a) + 1)..(Len(a) + c)
      BY <2>2, <2>3, <3>1
    <3>3. HeldAt(f[n], list[n], Len(a))
      BY <2>2, <2>3, <3>2 DEF HeldAt, b, c
    <3> QED BY <3>3 DEF Held
  <2>7. ASSUME NEW j \in 1..Len(f[n]) PROVE \E i \in 1..n : f[n][j].type = list[i].type
    <3>1. CASE j \in 1..Len(a)
      <4>1. PICK i \in 1..(n - 1) : a[j].type = list[i].type
        BY <1>4, <3>1 DEF a
      <4> QED BY <2>3, <3>1, <4>1
    <3>2. ASSUME NEW k \in 1..c, j = Len(a) + k PROVE f[n][j].type = list[n].type
      BY <2>2, <2>3, <3>2
    <3> QED BY <2>4, <3>1, <3>2
  <2>8. \A i \in 1..n : i \in 1..(n - 1) \/ i = n
    OBVIOUS
  <2> QED BY <2>3, <2>5, <2>6, <2>7, <2>8
<1>5. Wrong = {}
  <2> SUFFICES ASSUME Wrong # {} PROVE FALSE
    OBVIOUS
  <2> HIDE DEF P
  <2>1. PICK n \in Wrong : \A m \in Wrong : n <= m
    <3>1. Wrong \subseteq Nat /\ Wrong # {}
      BY DEF Sendable
    <3> HIDE DEF Wrong
    <3> QED BY <3>1, LeastOf
  <2>2. n \in 0..size /\ ~P(n)
    BY <2>1
  <2>3. n \in 1..size
    BY <1>3, <2>2 DEF Sendable
  <2>4. n - 1 \in 0..size /\ n - 1 \notin Wrong
    BY <2>1, <2>3 DEF Sendable
  <2> QED BY <1>4, <2>2, <2>3, <2>4
<1>6. P(size)
  <2>1. size \in 0..size
    BY DEF Sendable
  <2> HIDE DEF P
  <2> QED BY <1>5, <2>1
<1>7. TlvFormat(list) \in Seq(T)
  BY <1>1, <1>6
<1>8. DOMAIN TlvFormat(list) = 1..Len(TlvFormat(list)) /\ Len(TlvFormat(list)) \in Nat
  BY <1>7
<1> HIDE DEF P
<1>9. \A i \in 1..size : Held(f[size], list[i])
  BY <1>6 DEF P
<1>10. \A j \in 1..Len(f[size]) : \E i \in 1..size : f[size][j].type = list[i].type
  BY <1>6 DEF P
<1> QED BY <1>1, <1>8, <1>9, <1>10
(* Of chunks that hold a value the parser takes it: the scan for its end stops at its last  *)
(* chunk, whatever the size of that, because no more of its type follow.                    *)
LEMMA EndFound ==
  ASSUME NEW chunks, Len(chunks) \in Nat, DOMAIN chunks = 1..Len(chunks),
         NEW tlv, tlv.size \in Nat \ {0}, NEW o, HeldAt(chunks, tlv, o)
  PROVE TlvEnd(chunks, o + 1) = o + ChunkCount(tlv.size)
<1> DEFINE c == ChunkCount(tlv.size)
           all == Len(chunks)
<1>1. c \in Nat \ {0} /\ o \in Nat /\ o + c <= all /\ all \in Nat
  BY ChunkCountPositive DEF HeldAt
<1>2. ASSUME NEW k \in 1..c
      PROVE chunks[o + k].type = tlv.type /\ (k < c => chunks[o + k].size = ChunkMax)
  <2>1. chunks[o + k] = TlvChunks(tlv)[k]
    BY <1>2 DEF HeldAt
  <2> QED BY <2>1 DEF TlvChunks
<1>3. \A j \in 1..all : chunks[j].type = tlv.type => j \in (o + 1)..(o + c)
  BY DEF HeldAt
<1> HIDE DEF c, all
<1>4. chunks[o + 1].type = tlv.type
  BY <1>1, <1>2
<1>5. ASSUME NEW n \in (o + 1)..(o + c)
      PROVE chunks[n].type = tlv.type /\ (n < o + c => chunks[n].size = ChunkMax)
  <2>1. n - o \in 1..c /\ o + (n - o) = n
    BY <1>1
  <2> DEFINE k == n - o
  <2>2. k \in 1..c /\ o + k = n /\ (n < o + c => k < c)
    BY <1>1, <2>1
  <2> HIDE DEF k
  <2> QED BY <1>2, <2>2
<1> DEFINE Ends(last) ==
             /\ \A n \in (o + 1)..(last - 1) : chunks[n].size = ChunkMax /\ chunks[n + 1].type = chunks[o + 1].type
             /\ \/ chunks[last].size # ChunkMax
                \/ last = all \/ chunks[last + 1].type # chunks[o + 1].type
<1>6. o + c \in (o + 1)..all /\ Ends(o + c)
  <2>1. \A n \in (o + 1)..(o + c - 1) : n \in (o + 1)..(o + c) /\ n + 1 \in (o + 1)..(o + c) /\ n < o + c
    BY <1>1
  <2>2. \A n \in (o + 1)..(o + c - 1) : chunks[n].size = ChunkMax /\ chunks[n + 1].type = chunks[o + 1].type
    BY <1>4, <1>5, <2>1
  <2>3. o + c = all \/ chunks[o + c + 1].type # chunks[o + 1].type
    <3>1. o + c + 1 \notin (o + 1)..(o + c) /\ (o + c # all => o + c + 1 \in 1..all)
      BY <1>1
    <3> QED BY <1>3, <1>4, <3>1
  <2> QED BY <1>1, <2>2, <2>3
<1>7. ASSUME NEW last \in (o + 1)..all, Ends(last) PROVE last = o + c
  <2>1. CASE last < o + c
    <3>1. last \in (o + 1)..(o + c) /\ last + 1 \in (o + 1)..(o + c) /\ last # all
      BY <1>1, <2>1
    <3> QED BY <1>4, <1>5, <1>7, <2>1, <3>1
  <2>2. CASE last > o + c
    <3>1. o + c \in (o + 1)..(last - 1) /\ o + c + 1 \in 1..all /\ o + c + 1 \notin (o + 1)..(o + c)
      BY <1>1, <2>2
    <3> QED BY <1>3, <1>4, <1>7, <3>1
  <2> QED BY <1>1, <2>1, <2>2
<1>8. TlvEnd(chunks, o + 1) = CHOOSE last \in (o + 1)..all : Ends(last)
  BY DEF TlvEnd, all
<1> HIDE DEF Ends
<1>9. (CHOOSE last \in (o + 1)..all : Ends(last)) = o + c
  BY <1>6, <1>7
<1> QED BY <1>8, <1>9 DEF c

LEMMA ValueTaken ==
  ASSUME NEW chunks, Len(chunks) \in Nat, DOMAIN chunks = 1..Len(chunks),
         NEW tlv, tlv.size \in Nat \ {0}, Held(chunks, tlv)
  PROVE TlvHas(chunks, tlv.type) /\ TlvGet(chunks, tlv.type).value = tlv.value
<1> DEFINE c == ChunkCount(tlv.size)
           all == Len(chunks)
<1>1. PICK o : HeldAt(chunks, tlv, o)
  BY DEF Held
<1>2. c \in Nat \ {0} /\ o \in Nat /\ o + c <= all /\ all \in Nat
  BY <1>1, ChunkCountPositive DEF HeldAt
<1>3. ASSUME NEW k \in 1..c
      PROVE /\ chunks[o + k].type = tlv.type /\ chunks[o + k].value = tlv.value
            /\ chunks[o + k].part = k /\ chunks[o + k].parts = c
  <2>1. chunks[o + k] = TlvChunks(tlv)[k]
    BY <1>1, <1>3 DEF HeldAt
  <2> QED BY <2>1 DEF TlvChunks
<1>4. \A j \in 1..all : chunks[j].type = tlv.type => j \in (o + 1)..(o + c)
  BY <1>1 DEF HeldAt
<1>5. TlvEnd(chunks, o + 1) = o + c
  BY <1>1, EndFound
<1> HIDE DEF c, all
<1>6. o + 1 \in 1..all /\ chunks[o + 1].type = tlv.type
  BY <1>2, <1>3
<1>7. SelectInSeq(chunks, LAMBDA x : x.type = tlv.type) = o + 1
  <2> DEFINE S == {i \in 1..Len(chunks) : chunks[i].type = tlv.type}
  <2>1. o + 1 \in S /\ \A y \in S : o + 1 <= y
    BY <1>2, <1>4, <1>6 DEF all
  <2>2. S # {} /\ S \subseteq Int
    BY <2>1
  <2>3. SelectInSeq(chunks, LAMBDA x : x.type = tlv.type) = IF S # {} THEN Min(S) ELSE 0
    BY DEF SelectInSeq
  <2> HIDE DEF S
  <2>4. Min(S) = o + 1
    BY <2>1, <2>2, LeastIsMin
  <2> QED BY <2>2, <2>3, <2>4
<1> DEFINE s == SubSeq(chunks, o + 1, o + c)
<1>8. Len(s) = c /\ DOMAIN s = 1..c /\ \A k \in 1..c : s[k] = chunks[o + k]
  <2>1. \A k \in 1..c : s[k] = chunks[o + k]
    BY <1>2, Z3
  <2> QED BY <1>2, <2>1
<1>9. TlvGet(chunks, tlv.type) = TlvJoined(s)
  BY <1>5, <1>7 DEF TlvGet
<1> HIDE DEF s
<1>10. s[1].parts = c /\ s[1].value = tlv.value /\ \A n \in 1..c : s[n].part = n /\ s[n].value = tlv.value
  BY <1>2, <1>3, <1>8
<1>11. TlvJoined(s).value = tlv.value
  BY <1>8, <1>10 DEF TlvJoined
<1> QED BY <1>6, <1>9, <1>11 DEF TlvHas, all

(* pair-tlv.c: what was sent of a list of values is read again as the same values, of      *)
(* however many chunks each is, and nothing is read that was not sent.                     *)
THEOREM TlvRoundTrip ==
  ASSUME NEW list, Sendable(list)
  PROVE /\ \A i \in 1..Len(list) : /\ TlvHas(TlvFormat(list), list[i].type)
                                   /\ TlvGet(TlvFormat(list), list[i].type).value = list[i].value
        /\ \A type : TlvHas(TlvFormat(list), type) => \E i \in 1..Len(list) : list[i].type = type
<1> DEFINE chunks == TlvFormat(list)
<1>1. /\ Len(chunks) \in Nat /\ DOMAIN chunks = 1..Len(chunks)
      /\ \A i \in 1..Len(list) : Held(chunks, list[i])
      /\ \A j \in DOMAIN chunks : \E i \in 1..Len(list) : chunks[j].type = list[i].type
  BY FormatHolds
<1> HIDE DEF chunks
<1>2. ASSUME NEW i \in 1..Len(list)
      PROVE TlvHas(chunks, list[i].type) /\ TlvGet(chunks, list[i].type).value = list[i].value
  <2>1. list[i].size \in Nat \ {0} /\ Held(chunks, list[i])
    BY <1>1 DEF Sendable
  <2> QED BY <1>1, <2>1, ValueTaken
<1>3. ASSUME NEW type, TlvHas(chunks, type) PROVE \E i \in 1..Len(list) : list[i].type = type
  BY <1>1, <1>3 DEF TlvHas
<1> QED BY <1>2, <1>3 DEF chunks
-----------------------------------------------------------------------------
(* Messages *)

Entry(m, n) == [type |-> Fields[n], size |-> FieldSize(m, Fields[n]), value |-> m[Fields[n]]]

\* One turn of the loop of FormattedMessage.
FieldTurn(m, n, before) == IF Present(m, Fields[n]) THEN Append(before, Entry(m, n)) ELSE before

LEMMA FieldNames ==
  /\ Len(Fields) = 7 /\ DOMAIN Message = {Fields[n] : n \in 1..7}
  /\ \A i, j \in 1..7 : Fields[i] = Fields[j] => i = j
<1>1. /\ Fields[1] = "state" /\ Fields[2] = "error" /\ Fields[3] = "transient" /\ Fields[4] = "salt"
      /\ Fields[5] = "pk" /\ Fields[6] = "proof" /\ Fields[7] = "data" /\ Len(Fields) = 7
  BY DEF Fields
<1>2. DOMAIN Message = {"state", "error", "transient", "salt", "pk", "proof", "data"}
  BY DEF Message
<1>3. \A i \in 1..7 : i = 1 \/ i = 2 \/ i = 3 \/ i = 4 \/ i = 5 \/ i = 6 \/ i = 7
  OBVIOUS
<1>4. DOMAIN Message = {Fields[n] : n \in 1..7}
  <2>1. ASSUME NEW f \in DOMAIN Message PROVE f \in {Fields[n] : n \in 1..7}
    BY <1>1, <1>2
  <2>2. ASSUME NEW n \in 1..7 PROVE Fields[n] \in DOMAIN Message
    BY <1>1, <1>2, <1>3
  <2> QED BY <2>1, <2>2
<1> QED BY <1>1, <1>3, <1>4

(* The fields that are there are added one after the other.                                *)
LEMMA FieldsAdded ==
  ASSUME NEW m
  PROVE \E f : /\ FormattedMessage(m) = TlvFormat(f[7]) /\ f[0] = <<>>
               /\ \A n \in 1..7 : f[n] = FieldTurn(m, n, f[n - 1])
<1> DEFINE Turned(h, n) == IF n = 0 THEN <<>> ELSE FieldTurn(m, n, h[n - 1])
           Runs(h, n) == h = [k \in 0..n |-> Turned(h, k)]
<1>1. \E h : Runs(h, 0)
  <2> DEFINE h == [k \in 0..0 |-> <<>>]
  <2>1. Runs(h, 0)
    OBVIOUS
  <2> HIDE DEF Runs, h
  <2> QED BY <2>1
<1>2. ASSUME NEW n \in 1..7, \E h : Runs(h, n - 1) PROVE \E h : Runs(h, n)
  <2>1. PICK b : Runs(b, n - 1)
    BY <1>2
  <2> DEFINE h == [k \in 0..n |-> IF k = n THEN FieldTurn(m, n, b[n - 1]) ELSE b[k]]
  <2>2. ASSUME NEW k \in 0..n PROVE h[k] = Turned(h, k)
    <3>1. CASE k = n
      BY <3>1
    <3>2. CASE k \in 0..(n - 1)
      <4>1. b[k] = Turned(b, k)
        BY <2>1, <3>2
      <4>2. h[k] = b[k] /\ (k # 0 => h[k - 1] = b[k - 1])
        BY <3>2
      <4> QED BY <4>1, <4>2
    <3> QED BY <3>1, <3>2
  <2>3. h = [k \in 0..n |-> h[k]]
    OBVIOUS
  <2> HIDE DEF h, Turned
  <2>4. h = [k \in 0..n |-> Turned(h, k)]
    BY <2>2, <2>3
  <2> QED BY <2>4
<1> DEFINE f == CHOOSE h : Runs(h, 7)
<1>3. FormattedMessage(m) = TlvFormat(f[7])
  BY FieldNames DEF FormattedMessage, FieldTurn, Entry, TlvAdded
<1> DEFINE Some(n) == \E h : Runs(h, n)
<1>4. Some(7)
  <2> HIDE DEF Runs
  <2>1. Some(0) /\ \A n \in 1..7 : Some(n - 1) => Some(n)
    BY <1>1, <1>2
  <2> HIDE DEF Some
  <2>2. Some(1) /\ (Some(1) => Some(2)) /\ (Some(2) => Some(3)) /\ (Some(3) => Some(4))
    BY <2>1
  <2>3. (Some(4) => Some(5)) /\ (Some(5) => Some(6)) /\ (Some(6) => Some(7))
    BY <2>1
  <2> QED BY <2>2, <2>3
<1>5. Runs(f, 7)
  <2> HIDE DEF Runs
  <2> QED BY <1>4
<1> HIDE DEF f
<1>6. \A k \in 0..7 : f[k] = Turned(f, k)
  <2> HIDE DEF Turned
  <2> QED BY <1>5
<1> QED BY <1>3, <1>6

(* Every field that is there is one entry of the list, which has no others.                *)
LEMMA FieldsListed ==
  ASSUME NEW m
  PROVE \E list :
          /\ FormattedMessage(m) = TlvFormat(list) /\ Sendable(list)
          /\ \A n \in 1..7 : Present(m, Fields[n]) => \E i \in 1..Len(list) : list[i] = Entry(m, n)
          /\ \A i \in 1..Len(list) : \E n \in 1..7 : Present(m, Fields[n]) /\ list[i] = Entry(m, n)
<1>1. PICK f : /\ FormattedMessage(m) = TlvFormat(f[7]) /\ f[0] = <<>>
               /\ \A n \in 1..7 : f[n] = FieldTurn(m, n, f[n - 1])
  BY FieldsAdded
<1> DEFINE T == {Entry(m, n) : n \in 1..7}
           P(n) == /\ f[n] \in Seq(T)
                   /\ \A k \in 1..n : Present(m, Fields[k]) => \E i \in 1..Len(f[n]) : f[n][i] = Entry(m, k)
                   /\ \A i \in 1..Len(f[n]) : \E k \in 1..n : Present(m, Fields[k]) /\ f[n][i] = Entry(m, k)
                   /\ \A i, j \in 1..Len(f[n]) : f[n][i].type = f[n][j].type => i = j
<1>2. \A n \in 1..7 : Entry(m, n) \in T /\ Entry(m, n).type = Fields[n]
  BY DEF Entry
<1> HIDE DEF T
<1>3. P(0)
  BY <1>1
<1>4. ASSUME NEW n \in 1..7, P(n - 1) PROVE P(n)
  <2> DEFINE a == f[n - 1]
             e == Entry(m, n)
  <2>1. a \in Seq(T) /\ Len(a) \in Nat /\ e \in T /\ e.type = Fields[n]
    BY <1>2, <1>4
  <2>2. \A k \in 1..n : k \in 1..(n - 1) \/ k = n
    OBVIOUS
  <2>3. CASE ~Present(m, Fields[n])
    <3>1. f[n] = a
      BY <1>1, <2>3 DEF FieldTurn
    <3>2. f[n] \in Seq(T) /\ \A i, j \in 1..Len(f[n]) : f[n][i].type = f[n][j].type => i = j
      BY <1>4, <3>1
    <3>3. ASSUME NEW k \in 1..n, Present(m, Fields[k])
          PROVE \E i \in 1..Len(f[n]) : f[n][i] = Entry(m, k)
      <4>1. k \in 1..(n - 1)
        BY <2>2, <2>3, <3>3
      <4> QED BY <1>4, <3>1, <3>3, <4>1
    <3>4. ASSUME NEW i \in 1..Len(f[n])
          PROVE \E k \in 1..n : Present(m, Fields[k]) /\ f[n][i] = Entry(m, k)
      <4>1. PICK k \in 1..(n - 1) : Present(m, Fields[k]) /\ f[n][i] = Entry(m, k)
        BY <1>4, <3>1
      <4> QED BY <4>1
    <3> QED BY <3>2, <3>3, <3>4
  <2>4. CASE Present(m, Fields[n])
    <3>1. f[n] = Append(a, e)
      BY <1>1, <2>4 DEF FieldTurn
    <3> HIDE DEF a, e
    <3>2. /\ f[n] \in Seq(T) /\ Len(f[n]) = Len(a) + 1 /\ f[n][Len(a) + 1] = e
          /\ \A i \in 1..Len(a) : f[n][i] = a[i]
      BY <2>1, <3>1
    <3>3. \A i \in 1..Len(f[n]) : i \in 1..Len(a) \/ i = Len(a) + 1
      BY <2>1, <3>2
    <3>4. ASSUME NEW k \in 1..n, Present(m, Fields[k])
          PROVE \E i \in 1..Len(f[n]) : f[n][i] = Entry(m, k)
      <4>1. CASE k = n
        <5>1. Len(a) + 1 \in 1..Len(f[n])
          BY <2>1, <3>2
        <5> QED BY <3>2, <4>1, <5>1 DEF e
      <4>2. CASE k \in 1..(n - 1)
        <5>1. PICK i \in 1..Len(a) : a[i] = Entry(m, k)
          BY <1>4, <3>4, <4>2 DEF a
        <5>2. i \in 1..Len(f[n])
          BY <2>1, <3>2
        <5> QED BY <3>2, <5>1, <5>2
      <4> QED BY <2>2, <4>1, <4>2
    <3>5. ASSUME NEW i \in 1..Len(f[n])
          PROVE \E k \in 1..n : Present(m, Fields[k]) /\ f[n][i] = Entry(m, k)
      <4>1. CASE i \in 1..Len(a)
        <5>1. PICK k \in 1..(n - 1) : Present(m, Fields[k]) /\ a[i] = Entry(m, k)
          BY <1>4, <4>1 DEF a
        <5> QED BY <3>2, <4>1, <5>1
      <4>2. CASE i = Len(a) + 1
        BY <2>4, <3>2, <4>2 DEF e
      <4> QED BY <3>3, <4>1, <4>2
    <3>6. ASSUME NEW i \in 1..Len(a) PROVE a[i].type # e.type
      <4>1. PICK k \in 1..(n - 1) : a[i] = Entry(m, k)
        BY <1>4 DEF a
      <4>2. a[i].type = Fields[k] /\ Fields[k] # Fields[n]
        BY <1>2, <4>1, FieldNames
      <4> QED BY <2>1, <4>2
    <3>7. \A i, j \in 1..Len(a) : a[i].type = a[j].type => i = j
      BY <1>4 DEF a
    <3>8. ASSUME NEW i \in 1..Len(f[n]), NEW j \in 1..Len(f[n]), f[n][i].type = f[n][j].type PROVE i = j
      <4>1. CASE i \in 1..Len(a) /\ j \in 1..Len(a)
        BY <3>2, <3>7, <3>8, <4>1
      <4>2. CASE i = Len(a) + 1 /\ j \in 1..Len(a)
        BY <3>2, <3>6, <3>8, <4>2
      <4>3. CASE i \in 1..Len(a) /\ j = Len(a) + 1
        BY <3>2, <3>6, <3>8, <4>3
      <4> QED BY <3>3, <4>1, <4>2, <4>3
    <3> QED BY <3>2, <3>4, <3>5, <3>8
  <2> QED BY <2>3, <2>4
<1>5. P(7)
  <2>1. \A n \in 1..7 : P(n - 1) => P(n)
    BY <1>4
  <2> HIDE DEF P
  <2>2. P(1) /\ (P(1) => P(2)) /\ (P(2) => P(3)) /\ (P(3) => P(4))
    BY <1>3, <2>1
  <2>3. (P(4) => P(5)) /\ (P(5) => P(6)) /\ (P(6) => P(7))
    BY <2>1
  <2> QED BY <2>2, <2>3
<1> DEFINE list == f[7]
<1>6. /\ Len(list) \in Nat
      /\ \A k \in 1..7 : Present(m, Fields[k]) => \E i \in 1..Len(list) : list[i] = Entry(m, k)
      /\ \A i \in 1..Len(list) : \E k \in 1..7 : Present(m, Fields[k]) /\ list[i] = Entry(m, k)
      /\ \A i, j \in 1..Len(list) : list[i].type = list[j].type => i = j
  BY <1>5
<1> HIDE DEF list
<1>7. ASSUME NEW i \in 1..Len(list) PROVE list[i].size \in Nat \ {0}
  <2>1. PICK k \in 1..7 : list[i] = Entry(m, k)
    BY <1>6
  <2>2. FieldSize(m, Fields[k]) \in Nat \ {0}
    <3>1. Fields[k] \in {"state", "error", "transient", "salt", "pk", "proof", "data"}
      BY FieldNames DEF Message
    <3> QED BY <3>1 DEF FieldSize
  <2> QED BY <2>1, <2>2 DEF Entry
<1>8. Sendable(list)
  BY <1>6, <1>7 DEF Sendable
<1> QED BY <1>1, <1>6, <1>8 DEF list

IsMessage(m) == m = [field \in DOMAIN Message |-> m[field]]

(* A message is read as it was written.                                                    *)
LEMMA MessageRoundTrip ==
  ASSUME NEW m, IsMessage(m)
  PROVE /\ ParsedMessage(FormattedMessage(m)) = m /\ FormattedMessage(m) # <<>>
<1>1. PICK list :
        /\ FormattedMessage(m) = TlvFormat(list) /\ Sendable(list)
        /\ \A n \in 1..7 : Present(m, Fields[n]) => \E i \in 1..Len(list) : list[i] = Entry(m, n)
        /\ \A i \in 1..Len(list) : \E n \in 1..7 : Present(m, Fields[n]) /\ list[i] = Entry(m, n)
  BY FieldsListed
<1> DEFINE chunks == TlvFormat(list)
<1>2. /\ \A i \in 1..Len(list) : /\ TlvHas(chunks, list[i].type)
                                 /\ TlvGet(chunks, list[i].type).value = list[i].value
      /\ \A type : TlvHas(chunks, type) => \E i \in 1..Len(list) : list[i].type = type
  BY <1>1, TlvRoundTrip
<1> HIDE DEF chunks
<1>3. ASSUME NEW n \in 1..7, Present(m, Fields[n])
      PROVE TlvHas(chunks, Fields[n]) /\ TlvGet(chunks, Fields[n]).value = m[Fields[n]]
  <2>1. PICK i \in 1..Len(list) : list[i] = Entry(m, n)
    BY <1>1, <1>3
  <2>2. list[i].type = Fields[n] /\ list[i].value = m[Fields[n]]
    BY <2>1 DEF Entry
  <2> QED BY <1>2, <2>2
<1>4. ASSUME NEW n \in 1..7, TlvHas(chunks, Fields[n]) PROVE Present(m, Fields[n])
  <2>1. PICK i \in 1..Len(list) : list[i].type = Fields[n]
    BY <1>2, <1>4
  <2>2. PICK k \in 1..7 : Present(m, Fields[k]) /\ list[i] = Entry(m, k)
    BY <1>1
  <2>3. Fields[k] = Fields[n]
    BY <2>1, <2>2 DEF Entry
  <2> QED BY <2>2, <2>3
<1>5. ASSUME NEW field \in DOMAIN Message
      PROVE (IF TlvHas(chunks, field) THEN TlvGet(chunks, field).value ELSE Message[field]) = m[field]
  <2>1. PICK n \in 1..7 : field = Fields[n]
    BY FieldNames
  <2>2. CASE Present(m, field)
    BY <1>3, <2>1, <2>2
  <2>3. CASE ~Present(m, field)
    <3>1. ~TlvHas(chunks, field) /\ Message[field] = m[field]
      BY <1>4, <2>1, <2>3 DEF Present
    <3> QED BY <3>1
  <2> QED BY <2>2, <2>3
<1>6. ParsedMessage(chunks) = m
  BY <1>5 DEF ParsedMessage, IsMessage
<1>7. TlvHas(chunks, "state")
  <2>1. Fields[1] = "state" /\ Present(m, "state")
    BY DEF Fields, Present
  <2> QED BY <1>3, <2>1
<1>8. chunks # <<>>
  BY <1>7 DEF TlvHas
<1> QED BY <1>1, <1>6, <1>8 DEF chunks

-----------------------------------------------------------------------------
(* SRP: arithmetic modulo N *)

Same(x, y) == \E q \in Int : x = y + N * q

LEMMA Remainder == ASSUME NEW x \in Int PROVE x % N \in Elements /\ Same(x, x % N)
<1>1. N \in Nat \ {0}
  BY PairCryptoAssumption
<1>2. x % N \in 0..(N - 1) /\ x = (x % N) + N * (x \div N) /\ x \div N \in Int
  BY <1>1, Z3
<1> QED BY <1>2 DEF Same, Elements

LEMMA SameSmall == ASSUME NEW x \in Elements, NEW y \in Elements, Same(x, y) PROVE x = y
<1>1. PICK q \in Int : x = y + N * q
  BY DEF Same
<1> DEFINE p == N * q
<1>2. /\ N \in Nat /\ x \in 0..(N - 1) /\ y \in 0..(N - 1)
  BY PairCryptoAssumption DEF Elements
<1>3. p \in Int /\ (q = 0 => p = 0) /\ (q >= 1 => p >= N) /\ (q <= -1 => p <= -N)
  BY <1>2, Z3
<1> HIDE DEF p
<1>4. x = y + p
  BY <1>1 DEF p
<1> QED BY <1>2, <1>3, <1>4

LEMMA SameBack == ASSUME NEW x \in Int, NEW y \in Int, Same(x, y) PROVE Same(y, x)
<1>1. PICK q \in Int : x = y + N * q
  BY DEF Same
<1>2. y = x + N * (-q) /\ -q \in Int
  BY <1>1, PairCryptoAssumption, Z3
<1> QED BY <1>2 DEF Same

LEMMA SameOn ==
  ASSUME NEW x \in Int, NEW y \in Int, NEW z \in Int, Same(x, y), Same(y, z) PROVE Same(x, z)
<1>1. PICK q \in Int, r \in Int : x = y + N * q /\ y = z + N * r
  BY DEF Same
<1>2. x = z + N * (q + r) /\ q + r \in Int
  BY <1>1, PairCryptoAssumption, Z3
<1> QED BY <1>2 DEF Same

LEMMA SameTimes ==
  ASSUME NEW x \in Int, NEW y \in Int, NEW z \in Int, Same(x, y) PROVE Same(z * x, z * y)
<1>1. PICK q \in Int : x = y + N * q
  BY DEF Same
<1>2. z * (y + N * q) = z * y + N * (z * q) /\ z * q \in Int
  BY PairCryptoAssumption, Z3
<1>3. z * x = z * y + N * (z * q)
  BY <1>1, <1>2
<1> QED BY <1>2, <1>3 DEF Same

LEMMA SameRemainder ==
  ASSUME NEW x \in Int, NEW y \in Int, Same(x, y) PROVE x % N = y % N
<1> DEFINE a == x % N
           b == y % N
<1>1. a \in Elements /\ Same(x, a) /\ b \in Elements /\ Same(y, b)
  BY Remainder
<1>2. a \in Int /\ b \in Int
  BY <1>1 DEF Elements
<1> HIDE DEF a, b
<1>3. Same(a, x)
  BY <1>1, <1>2, SameBack
<1>4. Same(a, y)
  BY <1>2, <1>3, SameOn
<1>5. Same(a, b)
  BY <1>1, <1>2, <1>4, SameOn
<1> QED BY <1>1, <1>5, SameSmall DEF a, b

LEMMA ReduceFactor ==
  ASSUME NEW x \in Int, NEW y \in Int PROVE (x * (y % N)) % N = (x * y) % N
<1> DEFINE r == y % N
<1>1. r \in Int /\ Same(y, r)
  BY Remainder DEF Elements
<1> HIDE DEF r
<1>2. x * y \in Int /\ x * r \in Int
  BY <1>1
<1>3. Same(x * y, x * r)
  BY <1>1, SameTimes
<1> QED BY <1>2, <1>3, SameRemainder DEF r

LEMMA ReduceSmall == ASSUME NEW x \in Elements PROVE x % N = x
BY PairCryptoAssumption, Z3 DEF Elements

-----------------------------------------------------------------------------
(* SRP: powers *)

PowerTurn(b, n, h) == IF n = 0 THEN 1 ELSE (b * h[n - 1]) % N
PowerRuns(b, h, n) == h = [k \in 0..n |-> PowerTurn(b, k, h)]

LEMMA PowerExists == ASSUME NEW b, NEW e \in Nat PROVE \E h : PowerRuns(b, h, e)
<1> DEFINE Stuck == {n \in Nat : ~\E h : PowerRuns(b, h, n)}
<1> SUFFICES ASSUME Stuck # {} PROVE FALSE
  OBVIOUS
<1>1. PICK n \in Stuck : \A m \in Stuck : n <= m
  <2>1. Stuck \subseteq Nat
    OBVIOUS
  <2> HIDE DEF Stuck
  <2> QED BY <2>1, LeastOf
<1>2. CASE n = 0
  <2> DEFINE h == [k \in 0..0 |-> 1]
  <2>1. PowerRuns(b, h, 0)
    BY DEF PowerRuns, PowerTurn
  <2> HIDE DEF h
  <2> QED BY <1>1, <1>2, <2>1
<1>3. CASE n # 0
  <2>1. n \in Nat \ {0} /\ n - 1 \in Nat /\ n - 1 \notin Stuck
    BY <1>1, <1>3
  <2>2. PICK p : PowerRuns(b, p, n - 1)
    BY <2>1
  <2> DEFINE h == [k \in 0..n |-> IF k = n THEN (b * p[n - 1]) % N ELSE p[k]]
  <2>3. ASSUME NEW k \in 0..n PROVE h[k] = PowerTurn(b, k, h)
    <3>1. CASE k = n
      BY <2>1, <3>1 DEF PowerTurn
    <3>2. CASE k \in 0..(n - 1)
      <4>1. p[k] = PowerTurn(b, k, p)
        BY <2>2, <3>2 DEF PowerRuns
      <4>2. h[k] = p[k] /\ (k # 0 => h[k - 1] = p[k - 1])
        BY <2>1, <3>2
      <4> QED BY <4>1, <4>2 DEF PowerTurn
    <3> QED BY <2>1, <3>1, <3>2
  <2>4. h = [k \in 0..n |-> h[k]]
    OBVIOUS
  <2> HIDE DEF h
  <2>5. PowerRuns(b, h, n)
    BY <2>3, <2>4 DEF PowerRuns
  <2> QED BY <1>1, <2>5
<1> QED BY <1>2, <1>3

LEMMA PowerIs ==
  ASSUME NEW b, NEW e \in Nat
  PROVE \E h : /\ Modexp(b, e) = h[e] /\ h[0] = 1
               /\ \A k \in 1..e : h[k] = (b * h[k - 1]) % N
<1> DEFINE h == CHOOSE f : PowerRuns(b, f, e)
<1>1. Modexp(b, e) = h[e]
  BY DEF Modexp, PowerRuns, PowerTurn
<1>2. PowerRuns(b, h, e)
  BY PowerExists
<1> HIDE DEF h
<1>3. \A k \in 0..e : h[k] = PowerTurn(b, k, h)
  BY <1>2 DEF PowerRuns
<1> QED BY <1>1, <1>3 DEF PowerTurn

(* bnum_modexp is defined by its exponent one less.                                        *)
LEMMA PowerStep ==
  ASSUME NEW b, NEW e \in Nat
  PROVE Modexp(b, 0) = 1 /\ Modexp(b, e + 1) = (b * Modexp(b, e)) % N
<1>1. PICK h : /\ Modexp(b, e) = h[e] /\ h[0] = 1
               /\ \A k \in 1..e : h[k] = (b * h[k - 1]) % N
  BY PowerIs
<1>2. PICK f : /\ Modexp(b, e + 1) = f[e + 1] /\ f[0] = 1
               /\ \A k \in 1..(e + 1) : f[k] = (b * f[k - 1]) % N
  <2>1. e + 1 \in Nat
    OBVIOUS
  <2> QED BY <2>1, PowerIs
<1> DEFINE Apart == {k \in 0..e : f[k] # h[k]}
<1>3. Apart = {}
  <2> SUFFICES ASSUME Apart # {} PROVE FALSE
    OBVIOUS
  <2>1. PICK k \in Apart : \A j \in Apart : k <= j
    <3>1. Apart \subseteq Nat
      OBVIOUS
    <3> HIDE DEF Apart
    <3> QED BY <3>1, LeastOf
  <2>2. CASE k = 0
    BY <1>1, <1>2, <2>1, <2>2
  <2>3. CASE k # 0
    <3>1. k \in 1..e /\ k \in 1..(e + 1) /\ k - 1 \in 0..e /\ k - 1 \notin Apart
      BY <2>1, <2>3
    <3>2. f[k - 1] = h[k - 1]
      BY <3>1
    <3> QED BY <1>1, <1>2, <2>1, <3>1, <3>2
  <2> QED BY <2>2, <2>3
<1>4. f[e] = h[e]
  BY <1>3
<1>5. e + 1 \in 1..(e + 1) /\ (e + 1) - 1 = e
  OBVIOUS
<1>6. f[e + 1] = (b * f[e]) % N
  BY <1>2, <1>5
<1>7. Modexp(b, 0) = 1
  <2>1. PICK p : Modexp(b, 0) = p[0] /\ p[0] = 1
    BY PowerIs
  <2> QED BY <2>1
<1> QED BY <1>1, <1>2, <1>4, <1>6, <1>7

LEMMA PowerType == ASSUME NEW b \in Int, NEW e \in Nat PROVE Modexp(b, e) \in Elements
<1> DEFINE Wrong == {n \in Nat : Modexp(b, n) \notin Elements}
<1> SUFFICES ASSUME Wrong # {} PROVE FALSE
  OBVIOUS
<1>1. PICK n \in Wrong : \A m \in Wrong : n <= m
  <2>1. Wrong \subseteq Nat
    OBVIOUS
  <2> HIDE DEF Wrong
  <2> QED BY <2>1, LeastOf
<1>2. CASE n = 0
  <2>1. Modexp(b, 0) = 1 /\ 1 \in Elements
    BY PowerStep, PairCryptoAssumption DEF Elements
  <2> QED BY <1>1, <1>2, <2>1
<1>3. CASE n # 0
  <2> DEFINE m == n - 1
  <2>1. m \in Nat /\ m + 1 = n /\ m \notin Wrong
    BY <1>1, <1>3
  <2>2. Modexp(b, m) \in Elements
    BY <2>1
  <2> HIDE DEF m
  <2>3. b * Modexp(b, m) \in Int
    BY <2>2 DEF Elements
  <2>4. Modexp(b, m + 1) = (b * Modexp(b, m)) % N
    BY <2>1, PowerStep
  <2>5. Modexp(b, m + 1) \in Elements
    BY <2>3, <2>4, Remainder
  <2> QED BY <1>1, <2>1, <2>5
<1> QED BY <1>2, <1>3

LEMMA PowerSum ==
  ASSUME NEW b \in Int, NEW e \in Nat, NEW d \in Nat
  PROVE Modexp(b, e + d) = (Modexp(b, e) * Modexp(b, d)) % N
<1> DEFINE Wrong == {n \in Nat : Modexp(b, e + n) # (Modexp(b, e) * Modexp(b, n)) % N}
<1> SUFFICES ASSUME Wrong # {} PROVE FALSE
  OBVIOUS
<1>1. PICK n \in Wrong : \A m \in Wrong : n <= m
  <2>1. Wrong \subseteq Nat
    OBVIOUS
  <2> HIDE DEF Wrong
  <2> QED BY <2>1, LeastOf
<1> DEFINE p == Modexp(b, e)
<1>2. p \in Elements /\ p \in Int
  BY PowerType DEF Elements
<1>3. CASE n = 0
  <2>1. Modexp(b, 0) = 1 /\ e + 0 = e
    BY PowerStep
  <2>2. (p * 1) % N = p
    BY <1>2, ReduceSmall
  <2> QED BY <1>1, <1>3, <2>1, <2>2
<1>4. CASE n # 0
  <2> DEFINE m == n - 1
             q == Modexp(b, m)
  <2>1. m \in Nat /\ m + 1 = n /\ m \notin Wrong /\ e + m \in Nat /\ e + n = (e + m) + 1
    BY <1>1, <1>4
  <2>2. Modexp(b, e + m) = (p * q) % N
    BY <2>1
  <2>3. q \in Int
    BY <2>1, PowerType DEF Elements
  <2>4. Modexp(b, n) = (b * q) % N
    BY <2>1, PowerStep
  <2>5. Modexp(b, e + n) = (b * Modexp(b, e + m)) % N
    BY <2>1, PowerStep
  <2> HIDE DEF p, q, m, Wrong
  <2>6. (b * ((p * q) % N)) % N = (b * (p * q)) % N
    BY <1>2, <2>3, ReduceFactor
  <2>7. (p * ((b * q) % N)) % N = (p * (b * q)) % N
    BY <1>2, <2>3, ReduceFactor
  <2>8. p * (b * q) = b * (p * q)
    BY <1>2, <2>3, Z3
  <2>9. Modexp(b, e + n) = (p * Modexp(b, n)) % N
    BY <2>2, <2>4, <2>5, <2>6, <2>7, <2>8
  <2> QED BY <1>1, <2>9 DEF Wrong, p
<1> QED BY <1>3, <1>4

LEMMA PowerProduct ==
  ASSUME NEW b \in Int, NEW e \in Nat, NEW d \in Nat
  PROVE e * d \in Nat /\ Modexp(Modexp(b, e), d) = Modexp(b, e * d)
<1> DEFINE Wrong == {n \in Nat : Modexp(Modexp(b, e), n) # Modexp(b, e * n)}
<1>0. \A n \in Nat : e * n \in Nat
  OBVIOUS
<1> SUFFICES ASSUME Wrong # {} PROVE FALSE
  BY <1>0
<1>1. PICK n \in Wrong : \A m \in Wrong : n <= m
  <2>1. Wrong \subseteq Nat
    OBVIOUS
  <2> HIDE DEF Wrong
  <2> QED BY <2>1, LeastOf
<1>2. CASE n = 0
  <2>1. e * 0 = 0
    OBVIOUS
  <2>2. Modexp(b, 0) = 1 /\ Modexp(Modexp(b, e), 0) = 1
    BY PowerStep
  <2> QED BY <1>1, <1>2, <2>1, <2>2
<1>3. CASE n # 0
  <2> DEFINE m == n - 1
  <2>1. m \in Nat /\ m + 1 = n /\ m \notin Wrong
    BY <1>1, <1>3
  <2>2. Modexp(Modexp(b, e), m) = Modexp(b, e * m)
    BY <2>1
  <2> HIDE DEF m
  <2>3. Modexp(Modexp(b, e), m + 1) = (Modexp(b, e) * Modexp(b, e * m)) % N
    BY <2>1, <2>2, PowerStep
  <2>4. Modexp(b, e + e * m) = (Modexp(b, e) * Modexp(b, e * m)) % N
    BY <1>0, <2>1, PowerSum
  <2>5. e + e * m = e * n
    <3>1. e * (m + 1) = e + e * m
      BY <2>1, Z3
    <3> QED BY <2>1, <3>1
  <2> QED BY <1>1, <2>1, <2>3, <2>4, <2>5
<1> QED BY <1>2, <1>3

(* The client's public key is never refused: no power of the generator is a multiple of N. *)
LEMMA PublicAccepted == ASSUME NEW a \in Nat PROVE PublicA(a) \in Elements /\ SafeA(PublicA(a))
<1>1. g \in Int /\ N \in Nat /\ N > 2
  BY PairCryptoAssumption
<1>2. PICK h \in Int : (g * h) % N = 1
  BY PairCryptoAssumption
<1> DEFINE Wrong == {n \in Nat : Modexp(g, n) = 0}
<1>3. Wrong = {}
  <2> SUFFICES ASSUME Wrong # {} PROVE FALSE
    OBVIOUS
  <2>1. PICK n \in Wrong : \A m \in Wrong : n <= m
    <3>1. Wrong \subseteq Nat
      OBVIOUS
    <3> HIDE DEF Wrong
    <3> QED BY <3>1, LeastOf
  <2>2. CASE n = 0
    BY <2>1, <2>2, PowerStep
  <2>3. CASE n # 0
    <3> DEFINE m == n - 1
               p == Modexp(g, m)
    <3>1. m \in Nat /\ m + 1 = n /\ m \notin Wrong
      BY <2>1, <2>3
    <3>2. p \in Elements /\ p \in Int /\ p # 0
      BY <1>1, <3>1, PowerType DEF Elements
    <3>3. (g * p) % N = 0
      BY <2>1, <3>1, PowerStep
    <3> HIDE DEF p, m
    <3>4. (h * ((g * p) % N)) % N = (h * (g * p)) % N
      BY <1>1, <3>2, ReduceFactor
    <3>5. (h * 0) % N = 0
      BY <1>1, ReduceSmall DEF Elements
    <3>6. h * (g * p) = p * (g * h) /\ g * h \in Int
      BY <1>1, <3>2, Z3
    <3>7. (p * ((g * h) % N)) % N = (p * (g * h)) % N
      BY <3>2, <3>6, ReduceFactor
    <3>8. (p * 1) % N = p
      BY <3>2, ReduceSmall
    <3> QED BY <1>2, <3>2, <3>3, <3>4, <3>5, <3>6, <3>7, <3>8
  <2> QED BY <2>2, <2>3
<1>4. Modexp(g, a) \in Elements /\ Modexp(g, a) # 0
  BY <1>1, <1>3, PowerType
<1> QED BY <1>4, ReduceSmall DEF PublicA, SafeA
LEMMA HashesAreNumbers ==
  ASSUME NEW salt \in Nat, NEW typed \in Nat, NEW A \in Elements, NEW B \in Elements
  PROVE calculate_x(salt, typed) \in Nat /\ Scrambler(A, B) \in Nat /\ Multiplier \in Nat
<1>1. N \in Nat \ {0} /\ N - 1 \in Nat \ {0} /\ g \in Nat /\ A \in Nat /\ B \in Nat
  BY PairCryptoAssumption DEF Elements
<1>2. ASSUME NEW n \in Nat, NEW d \in Nat \ {0} PROVE n % d \in Nat
  BY Z3
<1>3. salt + 2 * typed \in Nat /\ A + 3 * B \in Nat /\ N + g \in Nat
  BY <1>1
<1>4. /\ (salt + 2 * typed) % (N - 1) \in Nat /\ (A + 3 * B) % N \in Nat /\ (N + g) % N \in Nat
  BY <1>1, <1>2, <1>3
<1> QED BY <1>4 DEF calculate_x, H_ns, Scrambler, Multiplier

(* SRP-6a, srp_user_process_challenge and srp_verifier_new: for the same salt and pin the  *)
(* two sides compute the same session key, (B - k g^x)^(a + u x) and (A v^u)^b.            *)
THEOREM SrpAgrees ==
  ASSUME NEW a \in Nat, NEW b \in Nat, NEW salt \in Nat, NEW typed \in Nat,
         NEW v, v = VerificationKey(salt, typed), NEW A, A = PublicA(a), NEW B, B = PublicB(b, v)
  PROVE UserKey(a, A, B, salt, typed) = VerifierKey(b, v, A, B)
<1> DEFINE x == calculate_x(salt, typed)
           u == Scrambler(A, B)
           k == Multiplier
           gb == Modexp(g, b)
<1>1. g \in Int /\ N \in Nat \ {0}
  BY PairCryptoAssumption
<1>2. A = Modexp(g, a) /\ A \in Elements /\ gb \in Elements
  BY <1>1, PowerType DEF PublicA
<1>3. B = (k * v + gb) % N
  BY DEF PublicB
<1>4. x \in Nat /\ k \in Nat
  BY HashesAreNumbers, PairCryptoAssumption DEF Elements
<1>5. v = Modexp(g, x) /\ v \in Elements
  BY <1>1, <1>4, PowerType DEF VerificationKey
<1>6. UserKey(a, A, B, salt, typed) = Modexp((B - k * v) % N, a + u * x)
  BY <1>5 DEF UserKey
<1>7. VerifierKey(b, v, A, B) = Modexp((A * Modexp(v, u)) % N, b)
  BY DEF VerifierKey
<1> HIDE DEF x, k, gb
<1>8. A \in Int /\ gb \in Int /\ v \in Int /\ k * v \in Int /\ k * v + gb \in Int
  BY <1>2, <1>4, <1>5 DEF Elements
<1>9. B \in Elements /\ B \in Int /\ Same(k * v + gb, B)
  BY <1>3, <1>8, Remainder DEF Elements
<1>10. u \in Nat
  BY <1>2, <1>9, HashesAreNumbers
<1> HIDE DEF u
<1>11. (B - k * v) % N = gb
  <2> DEFINE kv == k * v
  <2>1. PICK q \in Int : kv + gb = B + N * q
    BY <1>9 DEF Same
  <2>2. kv \in Int
    BY <1>8
  <2> HIDE DEF kv
  <2>3. N * (-q) = -(N * q) /\ N * q \in Int /\ -q \in Int
    BY <1>1, Z3
  <2> DEFINE nq == N * q
             nr == N * (-q)
  <2>4. nr = -nq /\ nq \in Int /\ kv + gb = B + nq
    BY <2>1, <2>3
  <2> HIDE DEF nq, nr
  <2>5. B - kv = gb + nr
    BY <1>8, <1>9, <2>2, <2>4
  <2>6. Same(B - kv, gb)
    BY <2>3, <2>5 DEF Same, nr
  <2>7. B - kv \in Int
    BY <1>9, <2>2
  <2>8. (B - kv) % N = gb % N
    BY <1>8, <2>6, <2>7, SameRemainder
  <2> QED BY <1>2, <2>8, ReduceSmall DEF kv
<1>12. Modexp(v, u) = Modexp(g, x * u) /\ x * u \in Nat
  BY <1>1, <1>4, <1>5, <1>10, PowerProduct
<1>13. (A * Modexp(v, u)) % N = Modexp(g, a + x * u)
  BY <1>1, <1>2, <1>12, PowerSum
<1> DEFINE e == a + x * u
<1>14. e \in Nat /\ a + u * x = e
  <2>1. u * x = x * u
    BY <1>4, <1>10, Z3
  <2> QED BY <1>12, <2>1
<1> HIDE DEF e
<1>15. Modexp(Modexp(g, e), b) = Modexp(g, e * b) /\ Modexp(Modexp(g, b), e) = Modexp(g, b * e)
  BY <1>1, <1>14, PowerProduct
<1>16. e * b = b * e
  BY <1>14, Z3
<1> QED BY <1>6, <1>7, <1>11, <1>13, <1>14, <1>15, <1>16 DEF e, gb
-----------------------------------------------------------------------------
(* The invariant: what the contexts are, and what each message on its way tells of them *)

Proofs == Nat \X Elements \X Elements \X Elements
States == {"IN_PROGRESS", "COMPLETED", "AUTH_FAILED", "INVALID"}
OrNone(S) == S \cup {None}

ClientSetups ==
  [pin : Pins, a : Nat, A : Elements, K : OrNone(Elements), M : OrNone(Proofs), transient : BOOLEAN,
   key : Nat, B : Elements, salt : Nat, status : States, secret : OrNone(Elements),
   server : OrNone({ServerKey})]

ServerSetups ==
  [pin : Pins, transient : BOOLEAN, salt : Nat, v : Elements, b : Nat, B : Elements, A : Elements,
   K : OrNone(Elements), M2 : OrNone(Elements \X Proofs \X Elements), client : OrNone(Nat),
   status : States, secret : OrNone(Elements)]

ClientVerifies ==
  [key : Nat, server : OrNone({ServerKey}), eph : Secrets, server_eph : OrNone(Secrets),
   shared : OrNone(SUBSET Secrets), status : States, secret : OrNone(SUBSET Secrets)]

ServerVerifies ==
  [client_eph : OrNone(Secrets), eph : OrNone(Secrets), shared : OrNone(SUBSET Secrets),
   status : States, secret : OrNone(SUBSET Secrets)]

Fresh(context) == context.status = "IN_PROGRESS" /\ context.secret = None

\* What the device answered with.
Offers(s) ==
  /\ s.salt \in Salts /\ s.b \in Secrets
  /\ s.v = VerificationKey(s.salt, s.pin) /\ s.B = PublicB(s.b, s.v)

\* What the client made of it, unless a number was zero.
Proves(c) ==
  /\ c.a \in Secrets /\ c.A = PublicA(c.a)
  /\ c.M # None => /\ c.K = UserKey(c.a, c.A, c.B, c.salt, c.pin)
                   /\ c.M = calculate_M(c.salt, c.A, c.B, c.K)

\* The messages of a setup, by their state
Setup1 == message = ClientSetupRequest1(client) /\ Fresh(server) /\ client.M = None
Setup2 ==
  /\ message = [Message EXCEPT !.state = 2, !.salt = server.salt, !.pk = server.B]
  /\ Fresh(server) /\ Offers(server) /\ server.transient = client.transient /\ client.M = None
Setup3 ==
  /\ message = ClientSetupRequest2(client)
  /\ Fresh(server) /\ Offers(server) /\ server.transient = client.transient
  /\ client.salt = server.salt /\ client.B = server.B /\ Proves(client)
Setup4Failed == message = AuthFailed(4) /\ client.pin # pin
Setup4 ==
  /\ message = [Message EXCEPT !.state = 4, !.proof = calculate_H_AMK(client.A, client.M, client.K)]
  /\ client.M \in Proofs \ {None} /\ client.K \in Elements /\ server.K = client.K
  /\ IF client.transient THEN server.status = "COMPLETED" /\ server.secret = server.K ELSE Fresh(server)
Setup5 ==
  /\ message = ClientSetupRequest3(client)
  /\ Fresh(server) /\ client.K \in Elements /\ server.K = client.K
Setup6 ==
  /\ message = [Message EXCEPT !.state = 6, !.data = SealedIntroduction(client.K)]
  /\ server.status = "COMPLETED" /\ server.secret = None /\ client.K \in Elements
  /\ known \in {None, client.key}

SetupSound ==
  /\ client \in ClientSetups /\ server \in ServerSetups
  /\ Fresh(client) /\ client.key = attempts /\ server.pin = pin
  /\ sent # <<>> => Setup1 \/ Setup2 \/ Setup3 \/ Setup4Failed \/ Setup4 \/ Setup5 \/ Setup6

\* The public keys of both and the secret the device has of them.
Exchanged ==
  /\ Fresh(server) /\ server.eph \in Secrets
  /\ server.client_eph = client.eph /\ server.shared = Shared(server.eph, client.eph)

\* The messages of a verification, by their state
Verify1 == message = ClientVerifyRequest1(client) /\ Fresh(server)
Verify2 ==
  /\ message = [Message EXCEPT !.state = 2, !.pk = server.eph,
                               !.data = SealedIdentity(server.shared, server.eph, client.eph)]
  /\ Exchanged
Verify3 ==
  /\ message = ClientVerifyRequest2(client)
  /\ Exchanged /\ client.server_eph = server.eph /\ client.shared = server.shared
Verify4Failed == message = AuthFailed(4) /\ known # client.key
Verify4 ==
  /\ message = [Message EXCEPT !.state = 4]
  /\ server.status = "COMPLETED" /\ server.secret = client.shared

VerifySound ==
  /\ client \in ClientVerifies /\ server \in ServerVerifies /\ Fresh(client)
  /\ sent # <<>> => Verify1 \/ Verify2 \/ Verify3 \/ Verify4Failed \/ Verify4

\* The keys are those of tasks, and the device has the newer ones.
KeysSound ==
  /\ attempts \in Nat /\ known \in OrNone(0..attempts)
  /\ keys # None => keys \in [key : 0..attempts, server : {ServerKey}]
  /\ DeviceKnowsFirst

PairingInv ==
  /\ pin \in Pins /\ task \in {"idle", "setup", "verify"}
  /\ KeysSound /\ SecretsAgree
  /\ task = "idle" => sent = <<>>
  /\ task = "setup" => SetupSound
  /\ task = "verify" => VerifySound
-----------------------------------------------------------------------------
(* Sending and reading *)

LEMMA Sends ==
  ASSUME NEW m, IsMessage(m), sent' = FormattedMessage(m) PROVE message' = m /\ sent' # <<>>
BY MessageRoundTrip DEF message

LEMMA IsAuthFailed == \A s : IsMessage(AuthFailed(s))
BY DEF IsMessage, Message, AuthFailed

LEMMA IsAnswer ==
  ASSUME NEW s, NEW x, NEW y
  PROVE
    /\ IsMessage([Message EXCEPT !.state = s]) /\ IsMessage([Message EXCEPT !.state = s, !.transient = x])
    /\ IsMessage([Message EXCEPT !.state = s, !.pk = x]) /\ IsMessage([Message EXCEPT !.state = s, !.data = x])
    /\ IsMessage([Message EXCEPT !.state = s, !.proof = x])
    /\ IsMessage([Message EXCEPT !.state = s, !.salt = x, !.pk = y])
    /\ IsMessage([Message EXCEPT !.state = s, !.pk = x, !.proof = y])
    /\ IsMessage([Message EXCEPT !.state = s, !.pk = x, !.data = y])
<1>1. IsMessage([Message EXCEPT !.state = s])
  BY DEF IsMessage, Message
<1>2. IsMessage([Message EXCEPT !.state = s, !.transient = x])
  BY DEF IsMessage, Message
<1>3. IsMessage([Message EXCEPT !.state = s, !.pk = x])
  BY DEF IsMessage, Message
<1>4. IsMessage([Message EXCEPT !.state = s, !.data = x])
  BY DEF IsMessage, Message
<1>5. IsMessage([Message EXCEPT !.state = s, !.proof = x])
  BY DEF IsMessage, Message
<1>6. IsMessage([Message EXCEPT !.state = s, !.salt = x, !.pk = y])
  BY DEF IsMessage, Message
<1>7. IsMessage([Message EXCEPT !.state = s, !.pk = x, !.proof = y])
  BY DEF IsMessage, Message
<1>8. IsMessage([Message EXCEPT !.state = s, !.pk = x, !.data = y])
  BY DEF IsMessage, Message
<1> QED BY <1>1, <1>2, <1>3, <1>4, <1>5, <1>6, <1>7, <1>8

\* What is read of the messages of a setup.
LEMMA SetupReads ==
  /\ Setup1 => message.state = 1 /\ message.error = FALSE /\ message.transient = client.transient
  /\ Setup2 => /\ message.state = 2 /\ message.error = FALSE
               /\ message.salt = server.salt /\ message.pk = server.B
  /\ Setup3 => /\ message.state = 3 /\ message.error = FALSE
               /\ message.pk = client.A /\ message.proof = client.M
  /\ Setup4Failed => message.state = 4 /\ message.error = TRUE
  /\ Setup4 => /\ message.state = 4 /\ message.error = FALSE
               /\ message.proof = calculate_H_AMK(client.A, client.M, client.K)
  /\ Setup5 => /\ message.state = 5 /\ message.error = FALSE
               /\ message.data = Sealed(client.K, "Msg05", Introduction(client.K, "ControllerSign", ClientId, client.key))
  /\ Setup6 => message.state = 6 /\ message.error = FALSE /\ message.data = SealedIntroduction(client.K)
<1>1. Setup1 => message.state = 1 /\ message.error = FALSE /\ message.transient = client.transient
  BY DEF Setup1, ClientSetupRequest1, Message
<1>2. Setup2 => /\ message.state = 2 /\ message.error = FALSE
                /\ message.salt = server.salt /\ message.pk = server.B
  BY DEF Setup2, Message
<1>3. Setup3 => /\ message.state = 3 /\ message.error = FALSE
                /\ message.pk = client.A /\ message.proof = client.M
  BY DEF Setup3, ClientSetupRequest2, Message
<1>4. Setup4Failed => message.state = 4 /\ message.error = TRUE
  BY DEF Setup4Failed, AuthFailed, Message
<1>5. Setup4 => /\ message.state = 4 /\ message.error = FALSE
                /\ message.proof = calculate_H_AMK(client.A, client.M, client.K)
  BY DEF Setup4, Message
<1>6. Setup5 => /\ message.state = 5 /\ message.error = FALSE
                /\ message.data = Sealed(client.K, "Msg05", Introduction(client.K, "ControllerSign", ClientId, client.key))
  BY DEF Setup5, ClientSetupRequest3, Message
<1>7. Setup6 => message.state = 6 /\ message.error = FALSE /\ message.data = SealedIntroduction(client.K)
  BY DEF Setup6, Message
<1> QED BY <1>1, <1>2, <1>3, <1>4, <1>5, <1>6, <1>7

LEMMA VerifyReads ==
  /\ Verify1 => message.state = 1 /\ message.error = FALSE /\ message.pk = client.eph
  /\ Verify2 => /\ message.state = 2 /\ message.error = FALSE /\ message.pk = server.eph
                /\ message.data = SealedIdentity(server.shared, server.eph, client.eph)
  /\ Verify3 => /\ message.state = 3 /\ message.error = FALSE
                /\ message.data = Sealed(client.shared, "Verify03",
                     [id |-> ClientId,
                      signature |-> Signature(client.key, <<client.eph, ClientId, client.server_eph>>)])
  /\ Verify4Failed => message.state = 4 /\ message.error = TRUE
  /\ Verify4 => message.state = 4 /\ message.error = FALSE
<1>1. Verify1 => message.state = 1 /\ message.error = FALSE /\ message.pk = client.eph
  BY DEF Verify1, ClientVerifyRequest1, Message
<1>2. Verify2 => /\ message.state = 2 /\ message.error = FALSE /\ message.pk = server.eph
                 /\ message.data = SealedIdentity(server.shared, server.eph, client.eph)
  BY DEF Verify2, Message
<1>3. Verify3 => /\ message.state = 3 /\ message.error = FALSE
                 /\ message.data = Sealed(client.shared, "Verify03",
                      [id |-> ClientId,
                       signature |-> Signature(client.key, <<client.eph, ClientId, client.server_eph>>)])
  BY DEF Verify3, ClientVerifyRequest2, Message
<1>4. Verify4Failed => message.state = 4 /\ message.error = TRUE
  BY DEF Verify4Failed, AuthFailed, Message
<1>5. Verify4 => message.state = 4 /\ message.error = FALSE
  BY DEF Verify4, Message
<1> QED BY <1>1, <1>2, <1>3, <1>4, <1>5

(* So a message of a state is the one the invariant has for it.                            *)
LEMMA SetupAt ==
  ASSUME PairingInv, task = "setup", sent # <<>>
  PROVE /\ message.error \in BOOLEAN
        /\ message.state = 1 => Setup1
        /\ message.state = 2 => Setup2
        /\ message.state = 3 => Setup3
        /\ message.state = 4 => Setup4Failed \/ Setup4
        /\ message.state = 5 => Setup5
        /\ message.state = 6 => Setup6
<1>1. Setup1 \/ Setup2 \/ Setup3 \/ Setup4Failed \/ Setup4 \/ Setup5 \/ Setup6
  BY DEF PairingInv, SetupSound
<1>2. message.error = TRUE \/ message.error = FALSE
  BY <1>1, SetupReads, Zenon
<1>3. message.error \in BOOLEAN
  BY <1>2
<1> DEFINE s == message.state
<1>4. /\ (Setup1 => s = 1) /\ (Setup2 => s = 2) /\ (Setup3 => s = 3) /\ (Setup4Failed => s = 4)
      /\ (Setup4 => s = 4) /\ (Setup5 => s = 5) /\ (Setup6 => s = 6)
  BY SetupReads
<1> HIDE DEF s
<1>5. /\ (s = 1 => Setup1) /\ (s = 2 => Setup2) /\ (s = 3 => Setup3)
      /\ (s = 4 => Setup4Failed \/ Setup4) /\ (s = 5 => Setup5) /\ (s = 6 => Setup6)
  BY <1>1, <1>4
<1> QED BY <1>3, <1>5 DEF s

LEMMA VerifyAt ==
  ASSUME PairingInv, task = "verify", sent # <<>>
  PROVE /\ message.error \in BOOLEAN
        /\ message.state = 1 => Verify1
        /\ message.state = 2 => Verify2
        /\ message.state = 3 => Verify3
        /\ message.state = 4 => Verify4Failed \/ Verify4
<1>1. Verify1 \/ Verify2 \/ Verify3 \/ Verify4Failed \/ Verify4
  BY DEF PairingInv, VerifySound
<1>2. message.error = TRUE \/ message.error = FALSE
  BY <1>1, VerifyReads, Zenon
<1>3. message.error \in BOOLEAN
  BY <1>2
<1> DEFINE s == message.state
<1>4. /\ (Verify1 => s = 1) /\ (Verify2 => s = 2) /\ (Verify3 => s = 3)
      /\ (Verify4Failed => s = 4) /\ (Verify4 => s = 4)
  BY VerifyReads
<1> HIDE DEF s
<1>5. /\ (s = 1 => Verify1) /\ (s = 2 => Verify2) /\ (s = 3 => Verify3)
      /\ (s = 4 => Verify4Failed \/ Verify4)
  BY <1>1, <1>4
<1> QED BY <1>3, <1>5 DEF s

\* What the device is asked is there, and no error.
LEMMA Asked ==
  ASSUME NEW what, NEW state \in 1..6, Incoming(what, state)
  PROVE task = what /\ sent # <<>> /\ ~message.error /\ message.state = state
BY DEF Incoming, StateGet, Processed, message
-----------------------------------------------------------------------------
(* The steps of the client *)

LEMMA SetupGoesOn ==
  ASSUME PairingInv, task' = "setup", pin' = pin, KeysSound', SetupSound' PROVE PairingInv'
BY DEF PairingInv, SetupSound, SecretsAgree, Fresh

LEMMA VerifyGoesOn ==
  ASSUME PairingInv, task' = "verify", pin' = pin, KeysSound', VerifySound' PROVE PairingInv'
BY DEF PairingInv, VerifySound, SecretsAgree, Fresh

LEMMA TaskEnds ==
  ASSUME PairingInv, task' = "idle", sent' = <<>>, pin' = pin, KeysSound', SecretsAgree'
  PROVE PairingInv'
BY DEF PairingInv

LEMMA KeysKept ==
  ASSUME KeysSound, UNCHANGED <<keys, known>>, attempts' \in Nat, attempts <= attempts'
  PROVE KeysSound'
BY DEF KeysSound, DeviceKnowsFirst, OrNone

LEMMA PairingInitial == PairingInit => PairingInv
BY DEF PairingInit, PairingInv, KeysSound, DeviceKnowsFirst, SecretsAgree, OrNone

LEMMA ContextsBegin ==
  ASSUME NEW transient \in BOOLEAN, NEW typed \in Pins, NEW key \in Nat, NEW p \in Pins
  PROVE /\ ClientSetupNew(transient, typed, key) \in ClientSetups /\ Fresh(ClientSetupNew(transient, typed, key))
        /\ ClientSetupNew(transient, typed, key).key = key /\ ClientSetupNew(transient, typed, key).M = None
        /\ ServerSetupNew(p) \in ServerSetups /\ Fresh(ServerSetupNew(p)) /\ ServerSetupNew(p).pin = p
<1> DEFINE c == ClientSetupNew(transient, typed, key)
<1>0. 0 \in Elements
  BY PairCryptoAssumption DEF Elements
<1>1. c \in ClientSetups /\ Fresh(c) /\ c.key = key /\ c.M = None
  BY <1>0, PairingAssumption DEF ClientSetupNew, ClientSetups, Fresh, OrNone, States
<1>2. ServerSetupNew(p) \in ServerSetups /\ Fresh(ServerSetupNew(p)) /\ ServerSetupNew(p).pin = p
  BY <1>0, PairingAssumption DEF ServerSetupNew, ServerSetups, Fresh, OrNone, States
<1> QED BY <1>1, <1>2

LEMMA SetupBegins ==
  ASSUME PairingInv, NEW transient \in BOOLEAN, NEW typed \in Pins, SetupBegin(transient, typed)
  PROVE PairingInv'
<1>1. /\ task' = "setup" /\ pin' = pin /\ pin \in Pins /\ attempts' = attempts + 1 /\ attempts \in Nat
      /\ UNCHANGED <<keys, known>> /\ KeysSound
  BY DEF SetupBegin, Begin, PairingInv, KeysSound
<1>2. /\ client' = ClientSetupNew(transient, typed, attempts') /\ server' = ServerSetupNew(pin)
      /\ sent' = FormattedMessage(ClientSetupRequest1(client'))
  BY DEF SetupBegin, SetupNew
<1>3. /\ client' \in ClientSetups /\ Fresh(client') /\ client'.key = attempts' /\ client'.M = None
      /\ server' \in ServerSetups /\ Fresh(server') /\ server'.pin = pin
  BY <1>1, <1>2, ContextsBegin
<1>4. message' = ClientSetupRequest1(client')
  BY <1>2, IsAnswer, Sends DEF ClientSetupRequest1
<1>5. Setup1'
  BY <1>3, <1>4 DEF Setup1
<1>6. SetupSound'
  BY <1>1, <1>3, <1>5 DEF SetupSound
<1>7. KeysSound'
  BY <1>1, KeysKept
<1> QED BY <1>1, <1>6, <1>7, SetupGoesOn

LEMMA VerifyBegins ==
  ASSUME PairingInv, NEW eph \in Secrets, NEW complete \in BOOLEAN, VerifyBegin(eph, complete)
  PROVE PairingInv'
<1> DEFINE saved == IF complete THEN keys ELSE [keys EXCEPT !.server = None]
<1>1. /\ task' = "verify" /\ pin' = pin /\ attempts' = attempts + 1 /\ attempts \in Nat
      /\ UNCHANGED <<keys, known>> /\ KeysSound /\ keys # None
  BY DEF VerifyBegin, Begin, PairingInv, KeysSound
<1>2. /\ client' = ClientVerifyNew(saved, eph) /\ server' = ServerVerifyNew
      /\ sent' = FormattedMessage(ClientVerifyRequest1(client'))
  BY DEF VerifyBegin, VerifyNew
<1>3. keys \in [key : 0..attempts, server : {ServerKey}]
  BY <1>1 DEF KeysSound
<1>4. saved.key \in Nat /\ saved.server \in OrNone({ServerKey})
  BY <1>1, <1>3 DEF OrNone
<1> HIDE DEF saved
<1>5. /\ client' \in ClientVerifies /\ Fresh(client')
      /\ server' \in ServerVerifies /\ Fresh(server')
  BY <1>2, <1>4 DEF ClientVerifyNew, ServerVerifyNew, ClientVerifies, ServerVerifies, Fresh, OrNone, States
<1>6. message' = ClientVerifyRequest1(client')
  BY <1>2, IsAnswer, Sends DEF ClientVerifyRequest1
<1>7. Verify1'
  BY <1>5, <1>6 DEF Verify1
<1>8. VerifySound'
  BY <1>5, <1>7 DEF VerifySound
<1>9. KeysSound'
  BY <1>1, KeysKept
<1> QED BY <1>1, <1>8, <1>9, VerifyGoesOn

LEMMA SetupResponds1 == ASSUME PairingInv, SetupResponse1 PROVE PairingInv'
<1>1. /\ task = "setup" /\ sent # <<>> /\ message.state = 2 /\ SetupSound /\ KeysSound /\ attempts \in Nat
  BY DEF SetupResponse1, Answer, PairingInv, KeysSound
<1>2. Setup2 /\ message.pk = server.B /\ message.salt = server.salt /\ client.M = None
  BY <1>1, SetupAt, SetupReads DEF Setup2
<1> DEFINE read == ClientSetupResponse1(client, message)
           made(a) == ClientChallenged(read, a)
<1>3. PICK a \in Secrets :
        /\ client' = made(a) /\ sent' = FormattedMessage(ClientSetupRequest2(client'))
        /\ UNCHANGED <<pin, task, server, keys, known, attempts>>
  BY DEF SetupResponse1, Continue
<1>4. /\ server \in ServerSetups /\ server.salt \in Nat /\ server.B \in Elements /\ a \in Nat
      /\ client \in ClientSetups /\ Fresh(client) /\ client.key = attempts
  BY <1>1, <1>2, PairingAssumption DEF SetupSound, ServerSetups
<1>5. read = [client EXCEPT !.B = server.B, !.salt = server.salt]
  BY <1>2 DEF ClientSetupResponse1
<1>6. /\ read \in ClientSetups /\ Fresh(read) /\ read.key = attempts /\ read.transient = client.transient
      /\ read.salt = server.salt /\ read.B = server.B /\ read.M = None
  BY <1>2, <1>4, <1>5 DEF ClientSetups, Fresh
<1> HIDE DEF read
<1> DEFINE A == PublicA(a)
           K == UserKey(a, A, read.B, read.salt, read.pin)
           M == calculate_M(read.salt, A, read.B, K)
<1>7. A \in Elements /\ read.B \in Elements /\ read.salt \in Nat /\ read.pin \in Nat
  BY <1>4, <1>6, PublicAccepted, PairingAssumption DEF ClientSetups
<1>8. K \in Elements
  <2> DEFINE x == calculate_x(read.salt, read.pin)
             u == Scrambler(A, read.B)
             base == (read.B - Multiplier * Modexp(g, x)) % N
  <2>1. x \in Nat /\ u \in Nat /\ Multiplier \in Nat
    BY <1>7, HashesAreNumbers
  <2>2. Modexp(g, x) \in Int
    BY <2>1, PowerType, PairCryptoAssumption DEF Elements
  <2>3. K = Modexp(base, u * x + a)
    <3>1. a + u * x = u * x + a
      BY <1>4, <2>1
    <3>2. K = Modexp(base, a + u * x)
      BY DEF UserKey
    <3> HIDE DEF K, base, x, u
    <3> QED BY <3>1, <3>2
  <2> HIDE DEF x, u
  <2>4. u * x \in Nat /\ u * x + a \in Nat
    BY <1>4, <2>1
  <2>5. base \in Int
    <3>1. read.B - Multiplier * Modexp(g, x) \in Int
      BY <1>7, <2>1, <2>2 DEF Elements
    <3> QED BY <3>1, Remainder DEF Elements
  <2> HIDE DEF base, K
  <2> QED BY <2>3, <2>4, <2>5, PowerType
<1>9. M \in Proofs
  BY <1>7, <1>8 DEF calculate_M, Proofs
<1>10. client' = IF SafeChallenge(A, read.B) THEN [read EXCEPT !.a = a, !.A = A, !.K = K, !.M = M]
                 ELSE [read EXCEPT !.a = a, !.A = A]
  BY <1>3 DEF ClientChallenged
<1> HIDE DEF A, K, M
<1> DEFINE c == client'
<1>11. /\ c \in ClientSetups /\ Fresh(c) /\ c.key = attempts /\ c.transient = client.transient
       /\ c.salt = server.salt /\ c.B = server.B /\ c.a = a /\ c.A = A
       /\ c.pin = read.pin /\ c.salt = read.salt /\ c.B = read.B
       /\ c.M # None => c.K = K /\ c.M = M
  <2>1. CASE SafeChallenge(A, read.B)
    <3>1. c = [read EXCEPT !.a = a, !.A = A, !.K = K, !.M = M]
      BY <1>10, <2>1
    <3> HIDE DEF c
    <3>2. c \in ClientSetups
      BY <1>4, <1>6, <1>7, <1>8, <1>9, <3>1 DEF ClientSetups, OrNone
    <3>3. /\ c.a = a /\ c.A = A /\ c.K = K /\ c.M = M /\ c.status = read.status /\ c.secret = read.secret
          /\ c.key = read.key /\ c.transient = read.transient /\ c.salt = read.salt /\ c.B = read.B
          /\ c.pin = read.pin
      BY <1>6, <3>1 DEF ClientSetups
    <3> QED BY <1>6, <3>2, <3>3 DEF Fresh
  <2>2. CASE ~SafeChallenge(A, read.B)
    <3>1. c = [read EXCEPT !.a = a, !.A = A]
      BY <1>10, <2>2
    <3> HIDE DEF c
    <3>2. c \in ClientSetups
      BY <1>4, <1>6, <1>7, <3>1 DEF ClientSetups
    <3>3. /\ c.a = a /\ c.A = A /\ c.M = read.M /\ c.status = read.status /\ c.secret = read.secret
          /\ c.key = read.key /\ c.transient = read.transient /\ c.salt = read.salt /\ c.B = read.B
          /\ c.pin = read.pin
      BY <1>6, <3>1 DEF ClientSetups
    <3> QED BY <1>6, <3>2, <3>3 DEF Fresh
  <2> QED BY <2>1, <2>2
<1>12. message' = ClientSetupRequest2(c) /\ sent' # <<>>
  <2>1. IsMessage(ClientSetupRequest2(c))
    BY IsAnswer DEF ClientSetupRequest2
  <2> QED BY <1>3, <2>1, Sends
<1>13. Proves(c)
  BY <1>11 DEF Proves, A, K, M
<1>14. Setup3'
  <2>1. Fresh(server') /\ Offers(server') /\ server'.transient = c.transient
    BY <1>2, <1>3, <1>11 DEF Setup2, Offers, Fresh
  <2> QED BY <1>3, <1>11, <1>12, <1>13, <2>1 DEF Setup3
<1>15. SetupSound'
  BY <1>1, <1>3, <1>4, <1>11, <1>14 DEF SetupSound
<1>16. KeysSound'
  BY <1>1, <1>3, KeysKept
<1> QED BY <1>1, <1>3, <1>15, <1>16, SetupGoesOn
LEMMA SetupResponds2 == ASSUME PairingInv, SetupResponse2 PROVE PairingInv'
<1>1. /\ task = "setup" /\ sent # <<>> /\ message.state = 4 /\ ~message.error
      /\ SetupSound /\ KeysSound /\ attempts \in Nat
  BY DEF SetupResponse2, Answer, SetupAccepts, ClientAccepts2, Processed, PairingInv, KeysSound
<1>2. Setup4
  BY <1>1, SetupAt, SetupReads
<1> DEFINE c == ClientSetupResponse2(client, message)
<1>3. client \in ClientSetups /\ Fresh(client) /\ client.key = attempts /\ server \in ServerSetups /\ server.pin = pin
  BY <1>1 DEF SetupSound
<1>4. CASE client.transient
  <2>1. c = [client EXCEPT !.status = "COMPLETED", !.secret = client.K]
    BY <1>4 DEF ClientSetupResponse2
  <2>2. c.status = "COMPLETED" /\ c.secret = client.K /\ c.transient
    BY <1>3, <1>4, <2>1 DEF ClientSetups
  <2>3. client' = c /\ keys' = keys /\ task' = "idle" /\ sent' = <<>> /\ UNCHANGED <<pin, server, known, attempts>>
    BY <2>2 DEF SetupResponse2, End
  <2>4. SecretsAgree'
    BY <1>2, <1>4, <2>2, <2>3 DEF SecretsAgree, Setup4
  <2>5. KeysSound'
    BY <1>1, <2>3, KeysKept
  <2> QED BY <2>3, <2>4, <2>5, TaskEnds
<1>5. CASE ~client.transient
  <2>1. c = client
    BY <1>5 DEF ClientSetupResponse2
  <2>2. /\ client' = client /\ sent' = FormattedMessage(ClientSetupRequest3(client))
        /\ UNCHANGED <<pin, task, server, keys, known, attempts>>
    BY <1>5, <2>1 DEF SetupResponse2, Continue
  <2>3. message' = ClientSetupRequest3(client) /\ sent' # <<>>
    <3>1. IsMessage(ClientSetupRequest3(client))
      BY IsAnswer DEF ClientSetupRequest3
    <3> QED BY <2>2, <3>1, Sends
  <2>4. Setup5'
    BY <1>2, <1>5, <2>2, <2>3 DEF Setup4, Setup5, Fresh
  <2>5. SetupSound'
    BY <1>1, <1>3, <2>2, <2>4 DEF SetupSound
  <2>6. KeysSound'
    BY <1>1, <2>2, KeysKept
  <2> QED BY <1>1, <2>2, <2>5, <2>6, SetupGoesOn
<1> QED BY <1>4, <1>5

\* What the device introduces itself with is what the client checks, and the other way round.
LEMMA IntroductionOpens ==
  ASSUME NEW K, NEW use, NEW sign, NEW id, NEW key, NEW d, d = Sealed(K, use, Introduction(K, sign, id, key))
  PROVE Opens(d, K, use) /\ Introduces(d.data, K, sign) /\ d.data.pk = key
<1>1. d.key = Derived(K, use) /\ d.data = Introduction(K, sign, id, key)
  BY DEF Sealed
<1>2. /\ d.data.id = id /\ d.data.pk = key
      /\ d.data.signature = Signature(key, <<Derived(K, sign), id, key>>)
  BY <1>1 DEF Introduction
<1> QED BY <1>1, <1>2 DEF Opens, Introduces, Verifies

LEMMA Accepted6 == ASSUME PairingInv, task = "setup", sent # <<>>, message.state = 6
                   PROVE Setup6 /\ ClientAccepts3(client, message) /\ message.data.data.pk = ServerKey
<1>1. Setup6 /\ message.error = FALSE /\ message.data = SealedIntroduction(client.K)
  BY SetupAt, SetupReads
<1>2. message.data # None
  BY <1>1, PairingAssumption DEF Setup6
<1>3. /\ Opens(message.data, client.K, "Msg06") /\ Introduces(message.data.data, client.K, "AccessorySign")
      /\ message.data.data.pk = ServerKey
  BY <1>1, IntroductionOpens DEF SealedIntroduction
<1> QED BY <1>1, <1>2, <1>3 DEF ClientAccepts3, Processed

LEMMA SetupResponds3 == ASSUME PairingInv, SetupResponse3 PROVE PairingInv'
<1>1. task = "setup" /\ sent # <<>> /\ message.state = 6 /\ SetupSound /\ KeysSound /\ attempts \in Nat
  BY DEF SetupResponse3, Answer, PairingInv, KeysSound
<1>2. Setup6 /\ message.data.data.pk = ServerKey
  BY <1>1, Accepted6
<1> DEFINE c == ClientSetupResponse3(client, message)
<1>3. client \in ClientSetups /\ Fresh(client) /\ client.key = attempts /\ attempts \in Nat
  BY <1>1 DEF SetupSound
<1>4. c.status = "COMPLETED" /\ c.secret = None /\ c.key = attempts /\ c.server = ServerKey
  BY <1>2, <1>3 DEF ClientSetupResponse3, ClientSetups, Fresh
<1>5. /\ client' = c /\ keys' = [key |-> attempts, server |-> ServerKey]
      /\ task' = "idle" /\ sent' = <<>> /\ UNCHANGED <<pin, server, known, attempts>>
  BY <1>4 DEF SetupResponse3, End, SetupResult, ClientSetupResult
<1> HIDE DEF c
<1>6. SecretsAgree'
  BY <1>2, <1>4, <1>5 DEF SecretsAgree, Setup6
<1>7. known' = None \/ known' = attempts
  BY <1>2, <1>3, <1>5 DEF Setup6
<1>8. KeysSound'
  <2>1. known' \in OrNone(0..attempts)
    BY <1>1, <1>5 DEF KeysSound
  <2>2. keys' # None => keys' \in [key : 0..attempts, server : {ServerKey}]
    BY <1>3, <1>5
  <2> QED BY <1>3, <1>5, <1>7, <2>1, <2>2 DEF KeysSound, DeviceKnowsFirst
<1> QED BY <1>5, <1>6, <1>8, TaskEnds
LEMMA SetupFailing == ASSUME PairingInv, SetupFails PROVE PairingInv'
<1>1. task = "setup" /\ SetupSound /\ KeysSound /\ attempts \in Nat
  BY DEF SetupFails, SetupRefused, Answer, PairingInv, KeysSound
<1>2. /\ client' = client /\ keys' = keys /\ task' = "idle" /\ sent' = <<>>
      /\ UNCHANGED <<pin, server, known, attempts>>
  BY DEF SetupFails, End
<1>3. SecretsAgree'
  BY <1>2 DEF PairingInv, SecretsAgree
<1>4. KeysSound'
  BY <1>1, <1>2, KeysKept
<1> QED BY <1>2, <1>3, <1>4, TaskEnds

LEMMA VerifyResponds1 == ASSUME PairingInv, VerifyResponse1 PROVE PairingInv'
<1>1. task = "verify" /\ sent # <<>> /\ message.state = 2 /\ VerifySound /\ KeysSound /\ attempts \in Nat
  BY DEF VerifyResponse1, Answer, PairingInv, KeysSound
<1>2. Verify2 /\ message.pk = server.eph
  BY <1>1, VerifyAt, VerifyReads
<1> DEFINE c == ClientVerifyResponse1(client, message)
<1>3. /\ client' = c /\ sent' = FormattedMessage(ClientVerifyRequest2(c))
      /\ UNCHANGED <<pin, task, server, keys, known, attempts>>
  BY DEF VerifyResponse1, Continue
<1>4. client \in ClientVerifies /\ Fresh(client) /\ server \in ServerVerifies
  BY <1>1 DEF VerifySound
<1>5. Exchanged /\ server.eph \in Secrets /\ client.eph \in Secrets
  BY <1>2, <1>4 DEF Verify2, Exchanged, ClientVerifies
<1>6. Shared(client.eph, server.eph) = server.shared /\ server.shared \in SUBSET Secrets
  BY <1>5 DEF Exchanged, Shared
<1>7. c = [client EXCEPT !.server_eph = server.eph, !.shared = server.shared]
  BY <1>2, <1>6 DEF ClientVerifyResponse1
<1>8. /\ c \in ClientVerifies /\ Fresh(c) /\ c.server_eph = server.eph /\ c.shared = server.shared
      /\ c.eph = client.eph
  BY <1>4, <1>5, <1>6, <1>7 DEF ClientVerifies, Fresh, OrNone
<1> HIDE DEF c
<1>9. message' = ClientVerifyRequest2(c) /\ sent' # <<>>
  <2>1. IsMessage(ClientVerifyRequest2(c))
    BY IsAnswer DEF ClientVerifyRequest2
  <2> QED BY <1>3, <2>1, Sends
<1>10. Verify3'
  BY <1>3, <1>5, <1>8, <1>9 DEF Verify3, Exchanged, Fresh
<1>11. VerifySound'
  BY <1>3, <1>4, <1>8, <1>10 DEF VerifySound
<1>12. KeysSound'
  BY <1>1, <1>3, KeysKept
<1> QED BY <1>1, <1>3, <1>11, <1>12, VerifyGoesOn

LEMMA VerifyResponds2 == ASSUME PairingInv, VerifyResponse2 PROVE PairingInv'
<1>1. /\ task = "verify" /\ sent # <<>> /\ message.state = 4 /\ ~message.error
      /\ VerifySound /\ KeysSound /\ attempts \in Nat
  BY DEF VerifyResponse2, Answer, VerifyAccepts, Processed, PairingInv, KeysSound
<1>2. Verify4
  BY <1>1, VerifyAt, VerifyReads
<1> DEFINE c == ClientVerifyResponse2(client)
<1>3. /\ client' = c /\ keys' = keys /\ task' = "idle" /\ sent' = <<>>
      /\ UNCHANGED <<pin, server, known, attempts>>
  BY DEF VerifyResponse2, End
<1>4. client \in ClientVerifies
  BY <1>1 DEF VerifySound
<1>5. c.secret = client.shared
  BY <1>4 DEF ClientVerifyResponse2, ClientVerifies
<1> HIDE DEF c
<1>6. SecretsAgree'
  BY <1>2, <1>3, <1>5 DEF SecretsAgree, Verify4
<1>7. KeysSound'
  BY <1>1, <1>3, KeysKept
<1> QED BY <1>3, <1>6, <1>7, TaskEnds

LEMMA VerifyFailing == ASSUME PairingInv, VerifyFails PROVE PairingInv'
<1>1. task = "verify" /\ KeysSound /\ attempts \in Nat
  BY DEF VerifyFails, VerifyRefused, Answer, PairingInv, KeysSound
<1>2. /\ client' = client /\ keys' = None /\ task' = "idle" /\ sent' = <<>>
      /\ UNCHANGED <<pin, server, known, attempts>>
  BY DEF VerifyFails, End
<1>3. SecretsAgree'
  BY <1>2 DEF PairingInv, SecretsAgree
<1>4. KeysSound'
  BY <1>1, <1>2 DEF KeysSound, DeviceKnowsFirst
<1> QED BY <1>2, <1>3, <1>4, TaskEnds

LEMMA ConnectionLost == ASSUME PairingInv, Lost PROVE PairingInv'
<1>1. /\ task' = "idle" /\ sent' = <<>> /\ UNCHANGED <<pin, client, server, keys, known, attempts>>
  BY DEF Lost
<1>2. SecretsAgree' /\ KeysSound'
  BY <1>1, KeysKept DEF PairingInv, SecretsAgree, KeysSound
<1> QED BY <1>1, <1>2, TaskEnds
-----------------------------------------------------------------------------
(* The steps of the device *)

LEMMA DeviceNumbers ==
  ASSUME NEW salt \in Nat, NEW p \in Nat, NEW b \in Nat, NEW v \in Elements, NEW A \in Elements,
         NEW B \in Elements
  PROVE /\ VerificationKey(salt, p) \in Elements /\ PublicB(b, v) \in Elements
        /\ VerifierKey(b, v, A, B) \in Elements
<1>1. /\ calculate_x(salt, p) \in Nat /\ Scrambler(A, B) \in Nat /\ Multiplier \in Nat
      /\ g \in Int /\ v \in Int /\ A \in Int
  <2>1. calculate_x(salt, p) \in Nat /\ Scrambler(A, B) \in Nat /\ Multiplier \in Nat
    BY HashesAreNumbers
  <2>2. g \in Int /\ v \in Int /\ A \in Int
    BY PairCryptoAssumption DEF Elements
  <2> QED BY <2>1, <2>2
<1>2. VerificationKey(salt, p) \in Elements
  <2> DEFINE x == calculate_x(salt, p)
  <2>1. x \in Nat
    BY <1>1
  <2> HIDE DEF x
  <2>2. Modexp(g, x) \in Elements
    BY <1>1, <2>1, PowerType
  <2> QED BY <2>2 DEF VerificationKey, x
<1>3. Modexp(g, b) \in Int /\ Modexp(v, Scrambler(A, B)) \in Int
  <2>1. Modexp(g, b) \in Elements /\ Modexp(v, Scrambler(A, B)) \in Elements
    BY <1>1, PowerType
  <2> QED BY <2>1 DEF Elements
<1>4. Multiplier * v + Modexp(g, b) \in Int /\ A * Modexp(v, Scrambler(A, B)) \in Int
  <2> DEFINE p1 == Modexp(g, b)
             p2 == Modexp(v, Scrambler(A, B))
  <2>1. p1 \in Int /\ p2 \in Int
    BY <1>3
  <2> HIDE DEF p1, p2
  <2>2. Multiplier * v + p1 \in Int /\ A * p2 \in Int
    BY <1>1, <2>1
  <2> QED BY <2>2 DEF p1, p2
<1>5. PublicB(b, v) \in Elements
  BY <1>4, Remainder DEF PublicB
<1>6. (A * Modexp(v, Scrambler(A, B))) % N \in Int
  BY <1>4, Remainder DEF Elements
<1>7. VerifierKey(b, v, A, B) \in Elements
  BY <1>6, PowerType DEF VerifierKey
<1> QED BY <1>2, <1>5, <1>7

LEMMA SetupServed1 == ASSUME PairingInv, ServeSetup1 PROVE PairingInv'
<1>1. task = "setup" /\ sent # <<>> /\ ~message.error /\ message.state = 1
  BY Asked DEF ServeSetup1
<1>2. SetupSound /\ KeysSound /\ attempts \in Nat /\ pin \in Pins
  BY <1>1 DEF PairingInv, KeysSound
<1>3. Setup1 /\ message.transient = client.transient
  BY <1>1, SetupAt, SetupReads
<1>4. PICK salt \in Salts, b \in Secrets :
        LET s == ServerSetupRequest1(server, message, salt, b) IN Reply(s, s, ServerSetupResponse1(s))
  BY DEF ServeSetup1
<1> DEFINE s == ServerSetupRequest1(server, message, salt, b)
           v == VerificationKey(salt, server.pin)
           B == PublicB(b, v)
<1>5. /\ client \in ClientSetups /\ client.transient \in BOOLEAN /\ server \in ServerSetups
      /\ server.pin = pin /\ Fresh(server) /\ client.M = None
  BY <1>2, <1>3 DEF SetupSound, ClientSetups, Setup1
<1>6. salt \in Nat /\ b \in Nat /\ server.pin \in Nat
  BY <1>2, <1>5, PairingAssumption
<1>7. v \in Elements /\ B \in Elements
  <2>1. 0 \in Elements
    BY PairCryptoAssumption DEF Elements
  <2>2. v \in Elements
    BY <1>6, <2>1, DeviceNumbers
  <2> HIDE DEF v
  <2> QED BY <1>6, <2>1, <2>2, DeviceNumbers
<1>8. s = [server EXCEPT !.transient = client.transient, !.salt = salt, !.v = v, !.b = b, !.B = B]
  BY <1>1, <1>3 DEF ServerSetupRequest1, Processed
<1> HIDE DEF v, B
<1>9. /\ s \in ServerSetups
      /\ s.transient = client.transient /\ s.salt = salt /\ s.v = v /\ s.b = b /\ s.B = B
      /\ s.pin = server.pin /\ s.status = server.status /\ s.secret = server.secret
  BY <1>5, <1>6, <1>7, <1>8 DEF ServerSetups
<1> HIDE DEF s
<1>10. s.status = "IN_PROGRESS" /\ s.secret = None /\ Fresh(s)
  BY <1>5, <1>9 DEF Fresh
<1>11. Offers(s)
  BY <1>9 DEF Offers, v, B
<1>12. /\ server' = s /\ sent' = FormattedMessage([Message EXCEPT !.state = 2, !.salt = s.salt, !.pk = s.B])
       /\ UNCHANGED <<pin, task, client, keys, attempts, known>>
  BY <1>4, <1>10 DEF Reply, ServeSetup1, ServerSetupResponse1, s
<1>13. message' = [Message EXCEPT !.state = 2, !.salt = s.salt, !.pk = s.B] /\ sent' # <<>>
  <2>1. IsMessage([Message EXCEPT !.state = 2, !.salt = s.salt, !.pk = s.B])
    BY IsAnswer
  <2> QED BY <1>12, <2>1, Sends
<1>14. Setup2'
  BY <1>5, <1>9, <1>10, <1>11, <1>12, <1>13 DEF Setup2
<1>15. SetupSound'
  BY <1>2, <1>5, <1>9, <1>12, <1>14 DEF SetupSound
<1>16. KeysSound'
  BY <1>2, <1>12, KeysKept
<1> QED BY <1>1, <1>12, <1>15, <1>16, SetupGoesOn

\* A message the device cannot use gets no answer.
LEMMA NoAnswer ==
  ASSUME PairingInv, task \in {"setup", "verify"},
         server' = [server EXCEPT !.status = "INVALID"], sent' = <<>>,
         UNCHANGED <<pin, task, client, keys, attempts, known>>
  PROVE PairingInv'
<1>1. KeysSound' /\ attempts \in Nat
  BY KeysKept DEF PairingInv, KeysSound
<1>2. CASE task = "setup"
  <2>1. SetupSound /\ client' = client
    BY <1>2 DEF PairingInv
  <2>2. server' \in ServerSetups /\ server'.pin = server.pin
    BY <2>1 DEF SetupSound, ServerSetups, States
  <2>3. SetupSound'
    BY <2>1, <2>2 DEF SetupSound
  <2> QED BY <1>1, <1>2, <2>3, SetupGoesOn
<1>3. CASE task = "verify"
  <2>1. VerifySound /\ client' = client
    BY <1>3 DEF PairingInv
  <2>2. server' \in ServerVerifies
    BY <2>1 DEF VerifySound, ServerVerifies, States
  <2>3. VerifySound'
    BY <2>1, <2>2 DEF VerifySound
  <2> QED BY <1>1, <1>3, <2>3, VerifyGoesOn
<1> QED BY <1>2, <1>3

LEMMA SetupServed2 == ASSUME PairingInv, ServeSetup2 PROVE PairingInv'
<1>1. task = "setup" /\ sent # <<>> /\ ~message.error /\ message.state = 3
  BY Asked DEF ServeSetup2
<1>2. SetupSound /\ KeysSound /\ attempts \in Nat /\ pin \in Pins
  BY <1>1 DEF PairingInv, KeysSound
<1>3. Setup3 /\ message.pk = client.A /\ message.proof = client.M
  BY <1>1, SetupAt, SetupReads
<1> DEFINE s == ServerSetupRequest2(server, message)
<1>4. Reply(s, ServerAnswered2(s), ServerSetupResponse2(s)) /\ known' = known
  BY DEF ServeSetup2
<1>5. /\ client \in ClientSetups /\ server \in ServerSetups /\ server.pin = pin
      /\ Fresh(client) /\ client.key = attempts
      /\ Fresh(server) /\ Offers(server) /\ server.transient = client.transient
      /\ client.salt = server.salt /\ client.B = server.B /\ Proves(client)
  BY <1>2, <1>3 DEF SetupSound, Setup3
<1>6. CASE client.M = None
  <2>1. s = [server EXCEPT !.status = "INVALID"]
    BY <1>3, <1>6 DEF ServerSetupRequest2
  <2>2. s.status = "INVALID"
    BY <1>5, <2>1 DEF ServerSetups
  <2>3. server' = s /\ sent' = <<>> /\ UNCHANGED <<pin, task, client, keys, attempts, known>>
    BY <1>4, <2>2 DEF Reply
  <2> HIDE DEF s
  <2> QED BY <1>1, <2>1, <2>3, NoAnswer
<1>7. CASE client.M # None
  <2> DEFINE A == client.A
             K == VerifierKey(server.b, server.v, A, server.B)
             M == calculate_M(server.salt, A, server.B, K)
  <2>1. /\ A \in Elements /\ server.v \in Elements /\ server.b \in Nat /\ server.B \in Elements
        /\ client.a \in Nat /\ server.salt \in Nat /\ client.pin \in Pins /\ client.M \in Proofs
        /\ client.K \in OrNone(Elements) /\ client.transient \in BOOLEAN
    BY <1>5, <1>7 DEF ClientSetups, ServerSetups, OrNone
  <2>2. A # None /\ SafeA(A) /\ A = PublicA(client.a)
    <3>1. A = PublicA(client.a)
      BY <1>5 DEF Proves
    <3>2. SafeA(A)
      BY <2>1, <3>1, PublicAccepted
    <3>3. A # None
      BY <2>1, PairingAssumption DEF Elements
    <3> QED BY <3>1, <3>2, <3>3
  <2>3. K \in Elements
    <3>1. 0 \in Nat
      OBVIOUS
    <3> QED BY <2>1, <3>1, DeviceNumbers
  <2>4. client.K = UserKey(client.a, A, server.B, server.salt, client.pin)
        /\ client.M = calculate_M(server.salt, A, server.B, client.K)
    BY <1>5, <1>7 DEF Proves
  <2>5. client.pin = pin => client.M = M
    <3>1. SUFFICES ASSUME client.pin = pin PROVE client.K = K
      BY <2>4
    <3>2. server.v = VerificationKey(server.salt, client.pin) /\ server.B = PublicB(server.b, server.v)
      BY <1>5, <3>1 DEF Offers
    <3>3. client.pin \in Nat
      BY <2>1, PairingAssumption
    <3>4. UserKey(client.a, A, server.B, server.salt, client.pin) = K
      <4> HIDE DEF K, A
      <4> QED BY <2>1, <2>2, <3>2, <3>3, SrpAgrees DEF K
    <3> QED BY <2>4, <3>4
  <2>6. client.M = M => client.K = K
    BY <2>4 DEF calculate_M
  <2>7. CASE client.M # M
    <3>1. s = [server EXCEPT !.A = A, !.status = "AUTH_FAILED", !.K = K]
      BY <1>1, <1>3, <1>5, <1>7, <2>2, <2>7 DEF ServerSetupRequest2, Processed, ServerSetups
    <3> HIDE DEF s, A, K, M
    <3>2. s \in ServerSetups /\ s.status = "AUTH_FAILED" /\ s.pin = pin
      BY <1>5, <2>1, <2>3, <3>1 DEF ServerSetups, OrNone, States
    <3>3. ServerAnswered2(s) = s /\ ServerSetupResponse2(s) = AuthFailed(4)
      BY <3>2 DEF ServerAnswered2, ServerSetupResponse2
    <3>4. /\ server' = s /\ sent' = FormattedMessage(AuthFailed(4))
          /\ UNCHANGED <<pin, task, client, keys, attempts, known>>
      BY <1>4, <3>2, <3>3 DEF Reply
    <3>5. message' = AuthFailed(4) /\ sent' # <<>>
      BY <3>4, IsAuthFailed, Sends
    <3>6. Setup4Failed'
      BY <2>5, <2>7, <3>4, <3>5 DEF Setup4Failed
    <3>7. SetupSound'
      BY <1>5, <3>2, <3>4, <3>6 DEF SetupSound
    <3>8. KeysSound'
      BY <1>2, <3>4, KeysKept
    <3> QED BY <1>1, <3>4, <3>7, <3>8, SetupGoesOn
  <2>8. CASE client.M = M
    <3> DEFINE M2 == calculate_H_AMK(A, M, K)
    <3>1. s = [server EXCEPT !.A = A, !.K = K, !.M2 = M2]
      BY <1>1, <1>3, <1>5, <1>7, <2>2, <2>8 DEF ServerSetupRequest2, Processed, ServerSetups
    <3>2. M2 \in Elements \X Proofs \X Elements
      BY <2>1, <2>3, <2>8 DEF calculate_H_AMK
    <3>3. M2 = calculate_H_AMK(A, client.M, client.K)
      BY <2>6, <2>8
    <3> HIDE DEF s, A, K, M, M2
    <3>4. /\ s \in ServerSetups /\ s.status = "IN_PROGRESS" /\ s.pin = pin /\ s.secret = None
          /\ s.K = K /\ s.M2 = M2 /\ s.transient = client.transient
      BY <1>5, <2>1, <2>3, <3>1, <3>2 DEF ServerSetups, OrNone, Fresh
    <3> DEFINE t == ServerAnswered2(s)
               m == [Message EXCEPT !.state = 4, !.proof = M2]
    <3>5. ServerSetupResponse2(s) = m
      BY <3>4 DEF ServerSetupResponse2
    <3>6. t = IF client.transient THEN [s EXCEPT !.status = "COMPLETED", !.secret = K] ELSE s
      BY <3>4 DEF ServerAnswered2
    <3> HIDE DEF t
    <3>7. /\ t \in ServerSetups /\ t.pin = pin /\ t.K = K
          /\ IF client.transient THEN t.status = "COMPLETED" /\ t.secret = K
             ELSE t.status = "IN_PROGRESS" /\ t.secret = None
      <4>1. CASE client.transient
        BY <2>3, <3>4, <3>6, <4>1 DEF ServerSetups, OrNone, States
      <4>2. CASE ~client.transient
        BY <3>4, <3>6, <4>2
      <4> QED BY <4>1, <4>2
    <3>8. /\ server' = t /\ sent' = FormattedMessage(m)
          /\ UNCHANGED <<pin, task, client, keys, attempts, known>>
      BY <1>4, <3>4, <3>5 DEF Reply, t
    <3>9. message' = m /\ sent' # <<>>
      <4>1. IsMessage(m)
        BY IsAnswer
      <4> HIDE DEF m
      <4> QED BY <3>8, <4>1, Sends
    <3>10. Setup4'
      <4>1. client.K = K /\ K \in Elements /\ client.M \in Proofs \ {None}
        BY <1>7, <2>1, <2>3, <2>6, <2>8
      <4>2. message' = [Message EXCEPT !.state = 4, !.proof = calculate_H_AMK(client'.A, client'.M, client'.K)]
        BY <3>3, <3>8, <3>9 DEF A
      <4>3. IF client'.transient THEN server'.status = "COMPLETED" /\ server'.secret = server'.K ELSE Fresh(server')
        BY <3>7, <3>8 DEF Fresh
      <4> QED BY <3>7, <3>8, <4>1, <4>2, <4>3 DEF Setup4
    <3>11. SetupSound'
      BY <1>5, <3>7, <3>8, <3>10 DEF SetupSound
    <3>12. KeysSound'
      BY <1>2, <3>8, KeysKept
    <3> QED BY <1>1, <3>8, <3>11, <3>12, SetupGoesOn
  <2> QED BY <2>7, <2>8
<1> QED BY <1>6, <1>7

LEMMA SetupServed3 == ASSUME PairingInv, ServeSetup3 PROVE PairingInv'
<1>1. task = "setup" /\ sent # <<>> /\ ~message.error /\ message.state = 5
  BY Asked DEF ServeSetup3
<1>2. SetupSound /\ KeysSound /\ attempts \in Nat
  BY <1>1 DEF PairingInv, KeysSound
<1> DEFINE d == Sealed(client.K, "Msg05", Introduction(client.K, "ControllerSign", ClientId, client.key))
<1>3. Setup5 /\ message.data = d
  BY <1>1, SetupAt, SetupReads
<1>4. /\ client \in ClientSetups /\ server \in ServerSetups /\ server.pin = pin
      /\ Fresh(client) /\ client.key = attempts /\ client.key \in Nat
      /\ Fresh(server) /\ client.K \in Elements /\ server.K = client.K
  BY <1>2, <1>3 DEF SetupSound, Setup5, ClientSetups
<1> DEFINE s == ServerSetupRequest3(server, message)
<1>5. /\ Reply(s, ServerAnswered3(s), ServerSetupResponse3(s))
      /\ known' = IF s.status = "IN_PROGRESS" THEN s.client ELSE known
  BY DEF ServeSetup3
<1>6. Opens(d, client.K, "Msg05") /\ Introduces(d.data, client.K, "ControllerSign") /\ d.data.pk = client.key
  BY IntroductionOpens
<1> HIDE DEF d
<1>7. CASE d = None
  <2>1. s = [server EXCEPT !.status = "INVALID"]
    BY <1>3, <1>7 DEF ServerSetupRequest3
  <2> HIDE DEF s
  <2>2. s.status = "INVALID"
    BY <1>4, <2>1 DEF ServerSetups
  <2>3. server' = s /\ sent' = <<>> /\ UNCHANGED <<pin, task, client, keys, attempts, known>>
    BY <1>5, <2>2 DEF Reply
  <2> QED BY <1>1, <2>1, <2>3, NoAnswer
<1>8. CASE d # None
  <2>1. s = [server EXCEPT !.client = client.key]
    BY <1>1, <1>3, <1>4, <1>6, <1>8 DEF ServerSetupRequest3, Processed
  <2> HIDE DEF s
  <2>2. s \in ServerSetups /\ s.status = "IN_PROGRESS" /\ s.secret = None /\ s.pin = pin /\ s.K = client.K
        /\ s.client = client.key
    BY <1>4, <2>1 DEF ServerSetups, Fresh, OrNone
  <2> DEFINE t == ServerAnswered3(s)
             m == [Message EXCEPT !.state = 6, !.data = SealedIntroduction(client.K)]
  <2>3. ServerSetupResponse3(s) = m /\ t = [s EXCEPT !.status = "COMPLETED"]
    BY <2>2 DEF ServerSetupResponse3, ServerAnswered3
  <2> HIDE DEF t
  <2>4. t \in ServerSetups /\ t.pin = pin /\ t.status = "COMPLETED" /\ t.secret = None
    BY <2>2, <2>3 DEF ServerSetups, States
  <2>5. /\ server' = t /\ sent' = FormattedMessage(m) /\ known' = client.key
        /\ UNCHANGED <<pin, task, client, keys, attempts>>
    BY <1>5, <2>2, <2>3 DEF Reply, t
  <2>6. message' = m /\ sent' # <<>>
    <3>1. IsMessage(m)
      BY IsAnswer
    <3> HIDE DEF m
    <3> QED BY <2>5, <3>1, Sends
  <2>7. Setup6'
    BY <1>4, <2>4, <2>5, <2>6 DEF Setup6
  <2>8. SetupSound'
    BY <1>4, <2>4, <2>5, <2>7 DEF SetupSound
  <2>9. KeysSound'
    <3>1. known' = attempts /\ attempts' = attempts /\ keys' = keys
      BY <1>4, <2>5
    <3>2. known' \in OrNone(0..attempts')
      BY <1>2, <3>1 DEF OrNone
    <3>3. keys' # None => keys' \in [key : 0..attempts', server : {ServerKey}]
      BY <1>2, <3>1 DEF KeysSound
    <3>4. DeviceKnowsFirst'
      BY <1>2, <3>1, <3>3 DEF DeviceKnowsFirst
    <3> QED BY <1>2, <3>1, <3>2, <3>3, <3>4 DEF KeysSound
  <2> QED BY <1>1, <2>5, <2>8, <2>9, SetupGoesOn
<1> QED BY <1>7, <1>8

LEMMA VerifyServed1 == ASSUME PairingInv, ServeVerify1 PROVE PairingInv'
<1>1. task = "verify" /\ sent # <<>> /\ ~message.error /\ message.state = 1
  BY Asked DEF ServeVerify1
<1>2. VerifySound /\ KeysSound /\ attempts \in Nat
  BY <1>1 DEF PairingInv, KeysSound
<1>3. Verify1 /\ message.pk = client.eph
  BY <1>1, VerifyAt, VerifyReads
<1>4. client \in ClientVerifies /\ server \in ServerVerifies /\ Fresh(client) /\ Fresh(server)
      /\ client.eph \in Secrets /\ client.eph # None
  BY <1>2, <1>3, PairingAssumption DEF VerifySound, Verify1, ClientVerifies
<1> DEFINE read == ServerVerifyRequest1(server, message)
           made(e) == ServerVerifyAnswered1(read, e)
<1>5. PICK eph \in Secrets : Reply(read, made(eph), ServerVerifyResponse1(made(eph))) /\ known' = known
  BY DEF ServeVerify1
<1>6. read = [server EXCEPT !.client_eph = client.eph]
  BY <1>1, <1>3, <1>4 DEF ServerVerifyRequest1, Processed
<1> HIDE DEF read
<1>7. read \in ServerVerifies /\ read.status = "IN_PROGRESS" /\ read.secret = None /\ read.client_eph = client.eph
  BY <1>4, <1>6 DEF ServerVerifies, Fresh, OrNone
<1> DEFINE s == made(eph)
           shared == Shared(eph, client.eph)
<1>8. s = [read EXCEPT !.eph = eph, !.shared = shared]
  BY <1>7 DEF ServerVerifyAnswered1
<1>9. shared \in SUBSET Secrets
  BY <1>4 DEF Shared
<1> HIDE DEF s, made, shared
<1>10. /\ s \in ServerVerifies /\ s.status = "IN_PROGRESS" /\ s.secret = None
       /\ s.client_eph = client.eph /\ s.eph = eph /\ s.shared = shared
  BY <1>7, <1>8, <1>9 DEF ServerVerifies, OrNone
<1> DEFINE m == [Message EXCEPT !.state = 2, !.pk = eph, !.data = SealedIdentity(shared, eph, client.eph)]
<1>11. ServerVerifyResponse1(s) = m
  BY <1>10 DEF ServerVerifyResponse1
<1>12. server' = s /\ sent' = FormattedMessage(m) /\ UNCHANGED <<pin, task, client, keys, attempts, known>>
  BY <1>5, <1>7, <1>11 DEF Reply, s
<1>13. message' = m /\ sent' # <<>>
  <2>1. IsMessage(m)
    BY IsAnswer
  <2> HIDE DEF m
  <2> QED BY <1>12, <2>1, Sends
<1>14. Exchanged'
  BY <1>10, <1>12 DEF Exchanged, Fresh, shared
<1>15. Verify2'
  BY <1>10, <1>12, <1>13, <1>14 DEF Verify2
<1>16. VerifySound'
  BY <1>4, <1>10, <1>12, <1>15 DEF VerifySound
<1>17. KeysSound'
  BY <1>2, <1>12, KeysKept
<1> QED BY <1>1, <1>12, <1>16, <1>17, VerifyGoesOn

LEMMA VerifyServed2 == ASSUME PairingInv, ServeVerify2 PROVE PairingInv'
<1>1. task = "verify" /\ sent # <<>> /\ ~message.error /\ message.state = 3
  BY Asked DEF ServeVerify2
<1>2. VerifySound /\ KeysSound /\ attempts \in Nat
  BY <1>1 DEF PairingInv, KeysSound
<1> DEFINE info == <<client.eph, ClientId, client.server_eph>>
           d == Sealed(client.shared, "Verify03", [id |-> ClientId, signature |-> Signature(client.key, info)])
<1>3. Verify3 /\ message.data = d
  BY <1>1, VerifyAt, VerifyReads
<1>4. /\ client \in ClientVerifies /\ server \in ServerVerifies /\ Fresh(client) /\ Fresh(server)
      /\ server.client_eph = client.eph /\ client.server_eph = server.eph /\ client.shared = server.shared
      /\ server.shared \in SUBSET Secrets
  <2>1. server.shared = Shared(server.eph, client.eph) /\ server.eph \in Secrets
    BY <1>3 DEF Verify3, Exchanged
  <2>2. client.eph \in Secrets
    BY <1>2 DEF VerifySound, ClientVerifies
  <2> QED BY <1>2, <1>3, <2>1, <2>2 DEF VerifySound, Verify3, Exchanged, Shared
<1> DEFINE s == ServerVerifyRequest2(server, message, known)
<1>5. Reply(s, ServerVerifyAnswered2(s), ServerVerifyResponse2(s)) /\ known' = known
  BY DEF ServeVerify2
<1>6. /\ Opens(d, server.shared, "Verify03") /\ d.data.id = ClientId
      /\ d.data.signature = Signature(client.key, info)
  BY <1>4 DEF Sealed, Opens
<1> HIDE DEF d, s
<1>7. CASE d = None
  <2>1. s = [server EXCEPT !.status = "INVALID"]
    BY <1>3, <1>7 DEF ServerVerifyRequest2, s
  <2>2. s.status = "INVALID"
    BY <1>4, <2>1 DEF ServerVerifies
  <2>3. server' = s /\ sent' = <<>> /\ UNCHANGED <<pin, task, client, keys, attempts, known>>
    BY <1>5, <2>2 DEF Reply
  <2> QED BY <1>1, <2>1, <2>3, NoAnswer
<1>8. CASE d # None /\ known # client.key
  <2>1. known = None \/ ~Verifies(d.data.signature, known, <<server.client_eph, d.data.id, server.eph>>)
    <3>1. Signature(client.key, info).key = client.key
      BY DEF Signature
    <3>2. \A other : Signature(known, other).key = known
      BY DEF Signature
    <3> QED BY <1>6, <1>8, <3>1, <3>2 DEF Verifies
  <2>2. s = [server EXCEPT !.status = "AUTH_FAILED"]
    BY <1>1, <1>3, <1>6, <1>8, <2>1 DEF ServerVerifyRequest2, Processed, s
  <2>3. s \in ServerVerifies /\ s.status = "AUTH_FAILED"
    BY <1>4, <2>2 DEF ServerVerifies, States
  <2>4. ServerVerifyAnswered2(s) = s /\ ServerVerifyResponse2(s) = AuthFailed(4)
    BY <2>3 DEF ServerVerifyAnswered2, ServerVerifyResponse2
  <2>5. /\ server' = s /\ sent' = FormattedMessage(AuthFailed(4))
        /\ UNCHANGED <<pin, task, client, keys, attempts, known>>
    BY <1>5, <2>3, <2>4 DEF Reply
  <2>6. message' = AuthFailed(4) /\ sent' # <<>>
    BY <2>5, IsAuthFailed, Sends
  <2>7. Verify4Failed'
    BY <1>8, <2>5, <2>6 DEF Verify4Failed
  <2>8. VerifySound'
    BY <1>4, <2>3, <2>5, <2>7 DEF VerifySound
  <2>9. KeysSound'
    BY <1>2, <2>5, KeysKept
  <2> QED BY <1>1, <2>5, <2>8, <2>9, VerifyGoesOn
<1>9. CASE d # None /\ known = client.key
  <2>1. known # None /\ Verifies(d.data.signature, known, <<server.client_eph, d.data.id, server.eph>>)
    <3>1. known # None
      BY <1>4, <1>9, PairingAssumption DEF ClientVerifies
    <3> QED BY <1>4, <1>6, <1>9, <3>1 DEF Verifies
  <2>2. s = server
    BY <1>1, <1>3, <1>6, <1>9, <2>1 DEF ServerVerifyRequest2, Processed, s
  <2> DEFINE t == ServerVerifyAnswered2(s)
             m == [Message EXCEPT !.state = 4]
  <2>3. t = [server EXCEPT !.secret = server.shared, !.status = "COMPLETED"] /\ ServerVerifyResponse2(s) = m
    BY <1>4, <2>2 DEF Fresh, ServerVerifyAnswered2, ServerVerifyResponse2
  <2> HIDE DEF t
  <2>4. t \in ServerVerifies /\ t.status = "COMPLETED" /\ t.secret = client.shared
    BY <1>4, <2>3 DEF ServerVerifies, OrNone, States
  <2>5. /\ server' = t /\ sent' = FormattedMessage(m)
        /\ UNCHANGED <<pin, task, client, keys, attempts, known>>
    BY <1>4, <1>5, <2>2, <2>3 DEF Reply, Fresh, t
  <2>6. message' = m /\ sent' # <<>>
    <3>1. IsMessage(m)
      BY IsAnswer
    <3> HIDE DEF m
    <3> QED BY <2>5, <3>1, Sends
  <2>7. Verify4'
    BY <2>4, <2>5, <2>6 DEF Verify4
  <2>8. VerifySound'
    BY <1>4, <2>4, <2>5, <2>7 DEF VerifySound
  <2>9. KeysSound'
    BY <1>2, <2>5, KeysKept
  <2> QED BY <1>1, <2>5, <2>8, <2>9, VerifyGoesOn
<1> QED BY <1>7, <1>8, <1>9

\* The device that forgets the client breaks none of this: it only makes the key unknown.
LEMMA Forgets == ASSUME PairingInv, Forget PROVE PairingInv'
<1>1. known' = None /\ UNCHANGED <<pin, task, client, server, sent, keys, attempts>> /\ message' = message
  BY DEF Forget, message
<1>2. KeysSound'
  BY <1>1 DEF PairingInv, KeysSound, DeviceKnowsFirst, OrNone
<1>3. CASE task = "setup"
  <2>1. SetupSound
    BY <1>3 DEF PairingInv
  <2>2. sent # <<>> => Setup1' \/ Setup2' \/ Setup3' \/ Setup4Failed' \/ Setup4' \/ Setup5' \/ Setup6'
    <3>1. /\ (Setup1 => Setup1') /\ (Setup2 => Setup2') /\ (Setup3 => Setup3')
          /\ (Setup4Failed => Setup4Failed') /\ (Setup4 => Setup4') /\ (Setup5 => Setup5')
      BY <1>1 DEF Setup1, Setup2, Setup3, Setup4Failed, Setup4, Setup5, Fresh, Offers, Proves
    <3>2. Setup6 => Setup6'
      BY <1>1 DEF Setup6
    <3> QED BY <2>1, <3>1, <3>2 DEF SetupSound
  <2>3. SetupSound'
    BY <1>1, <2>1, <2>2 DEF SetupSound, Fresh
  <2> QED BY <1>1, <1>2, <1>3, <2>3, SetupGoesOn
<1>4. CASE task = "verify"
  <2>1. VerifySound
    BY <1>4 DEF PairingInv
  <2>2. sent # <<>> => Verify1' \/ Verify2' \/ Verify3' \/ Verify4Failed' \/ Verify4'
    <3>1. (Verify1 => Verify1') /\ (Verify2 => Verify2') /\ (Verify3 => Verify3') /\ (Verify4 => Verify4')
      BY <1>1 DEF Verify1, Verify2, Verify3, Verify4, Fresh, Exchanged
    <3>2. Verify4Failed => Verify4Failed'
      <4>1. client.key # None
        BY <2>1, PairingAssumption DEF VerifySound, ClientVerifies
      <4> QED BY <1>1, <4>1 DEF Verify4Failed
    <3> QED BY <2>1, <3>1, <3>2 DEF VerifySound
  <2>3. VerifySound'
    BY <1>1, <2>1, <2>2 DEF VerifySound, Fresh
  <2> QED BY <1>1, <1>2, <1>4, <2>3, VerifyGoesOn
<1>5. CASE task = "idle"
  <2>1. sent = <<>> /\ SecretsAgree'
    BY <1>1, <1>5 DEF PairingInv, SecretsAgree
  <2> QED BY <1>1, <1>2, <1>5, <2>1, TaskEnds
<1> QED BY <1>3, <1>4, <1>5 DEF PairingInv

LEMMA PairingStutters == ASSUME PairingInv, UNCHANGED pairingVars PROVE PairingInv'
<1>1. UNCHANGED <<pin, task, client, server, sent, keys, known, attempts>> /\ message' = message
  BY DEF pairingVars, message
<1>2. KeysSound' /\ SecretsAgree'
  BY <1>1 DEF PairingInv, KeysSound, DeviceKnowsFirst, SecretsAgree
<1>3. task = "setup" => SetupSound'
  BY <1>1 DEF PairingInv, SetupSound, Setup1, Setup2, Setup3, Setup4Failed, Setup4, Setup5, Setup6,
              Fresh, Offers, Proves
<1>4. task = "verify" => VerifySound'
  BY <1>1 DEF PairingInv, VerifySound, Verify1, Verify2, Verify3, Verify4Failed, Verify4, Fresh, Exchanged
<1> QED BY <1>1, <1>2, <1>3, <1>4 DEF PairingInv

LEMMA PairingInductive == PairingInv /\ [PairingNext]_pairingVars => PairingInv'
<1> SUFFICES ASSUME PairingInv, [PairingNext]_pairingVars PROVE PairingInv'
  OBVIOUS
<1>1. CASE Client
  <2>1. ASSUME NEW transient \in BOOLEAN, NEW typed \in Pins, SetupBegin(transient, typed) PROVE PairingInv'
    BY <2>1, SetupBegins
  <2>2. ASSUME NEW eph \in Secrets, NEW complete \in BOOLEAN, VerifyBegin(eph, complete) PROVE PairingInv'
    BY <2>2, VerifyBegins
  <2> QED BY <1>1, <2>1, <2>2, SetupResponds1, SetupResponds2, SetupResponds3, SetupFailing,
             VerifyResponds1, VerifyResponds2, VerifyFailing DEF Client
<1>2. CASE Device
  BY <1>2, SetupServed1, SetupServed2, SetupServed3, VerifyServed1, VerifyServed2, Forgets DEF Device
<1>3. CASE Lost
  BY <1>3, ConnectionLost
<1>4. CASE UNCHANGED pairingVars
  BY <1>4, PairingStutters
<1> QED BY <1>1, <1>2, <1>3, <1>4 DEF PairingNext

LEMMA PairingInvariant == PairingSpec => []PairingInv
<1> QED BY PairingInitial, PairingInductive, PTL DEF PairingSpec
-----------------------------------------------------------------------------
(* What a setup is refused for *)

LEMMA SetupRefusedForCause ==
  ASSUME PairingInv, SetupRefused PROVE client.pin # pin \/ message.salt \in ShortSalts
<1>1. task = "setup" /\ sent # <<>> /\ SetupSound /\ client \in ClientSetups /\ server \in ServerSetups
  BY DEF SetupRefused, Answer, PairingInv, SetupSound
<1>2. PICK state \in {2, 4, 6} : message.state = state /\ ~SetupAccepts(state)
  BY DEF SetupRefused, Answer
<1>3. CASE state = 2
  <2>1. Setup2 /\ ~message.error /\ message.salt = server.salt /\ message.pk = server.B
    BY <1>1, <1>2, <1>3, SetupAt, SetupReads
  <2>2. message.pk # None /\ message.salt # None
    BY <1>1, <2>1, PairingAssumption DEF ServerSetups, Elements
  <2> QED BY <1>2, <1>3, <2>1, <2>2 DEF SetupAccepts, ClientAccepts1, Processed
<1>4. CASE state = 4
  <2>1. Setup4Failed \/ Setup4
    BY <1>1, <1>2, <1>4, SetupAt
  <2>2. Setup4 => ClientAccepts2(client, message)
    <3> SUFFICES ASSUME Setup4 PROVE ClientAccepts2(client, message)
      OBVIOUS
    <3> DEFINE M2 == calculate_H_AMK(client.A, client.M, client.K)
    <3>1. ~message.error /\ message.proof = M2
      BY SetupReads
    <3>2. client.A \in Elements /\ client.M \in Proofs /\ client.K \in Elements
      BY <1>1 DEF Setup4, ClientSetups
    <3>3. M2 \in Elements \X Proofs \X Elements
      BY <3>2 DEF calculate_H_AMK
    <3> HIDE DEF M2
    <3>4. M2 # None
      BY <3>3, PairingAssumption DEF Proofs
    <3>5. client.M # None
      BY DEF Setup4
    <3> QED BY <3>1, <3>4, <3>5 DEF ClientAccepts2, Processed, M2
  <2> QED BY <1>2, <1>4, <2>1, <2>2 DEF SetupAccepts, Setup4Failed
<1>5. CASE state = 6
  BY <1>1, <1>2, <1>5, Accepted6 DEF SetupAccepts
<1> QED BY <1>2, <1>3, <1>4, <1>5

LEMMA VerifyRefusedForCause == ASSUME PairingInv, VerifyRefused PROVE known # client.key
<1>1. /\ task = "verify" /\ sent # <<>>
      /\ VerifySound /\ client \in ClientVerifies /\ server \in ServerVerifies
  BY DEF VerifyRefused, Answer, PairingInv, VerifySound
<1>2. PICK state \in {2, 4} : message.state = state /\ ~VerifyAccepts(state)
  BY DEF VerifyRefused, Answer
<1>3. CASE state = 2
  <2> DEFINE shared == Shared(server.eph, client.eph)
             d == SealedIdentity(shared, server.eph, client.eph)
  <2>1. Verify2 /\ ~message.error /\ message.pk = server.eph /\ server.shared = shared /\ message.data = d
    BY <1>1, <1>2, <1>3, VerifyAt, VerifyReads DEF Verify2, Exchanged
  <2>2. server.eph \in Secrets /\ client.eph \in Secrets
    BY <1>1, <2>1 DEF Verify2, Exchanged, ClientVerifies
  <2>3. server.eph # None /\ d # None
    BY <2>2, PairingAssumption
  <2>4. shared = Shared(client.eph, server.eph)
    BY DEF Shared
  <2>5. Opens(d, shared, "Verify02") /\ d.data.id = ServerId
        /\ d.data.signature = Signature(ServerKey, <<server.eph, ServerId, client.eph>>)
    BY DEF SealedIdentity, Sealed, Opens
  <2> HIDE DEF d, shared
  <2>6. client.server # None => Verifies(d.data.signature, client.server, <<server.eph, d.data.id, client.eph>>)
    BY <1>1, <2>5 DEF ClientVerifies, OrNone, Verifies
  <2> QED BY <1>2, <1>3, <2>1, <2>3, <2>4, <2>5, <2>6 DEF VerifyAccepts, ClientVerifyAccepts1, Processed
<1>4. CASE state = 4
  <2>1. Verify4Failed \/ Verify4
    BY <1>1, <1>2, <1>4, VerifyAt
  <2>2. ~Verify4
    BY <1>2, <1>4, VerifyReads DEF VerifyAccepts, Processed
  <2> QED BY <2>1, <2>2 DEF Verify4Failed
<1> QED BY <1>2, <1>3, <1>4

-----------------------------------------------------------------------------
(* The theorems *)

(* client_setup_response2, client_setup_response3 and client_verify_response2 complete a   *)
(* pairing only when the server_ functions have completed it too, and pair_setup_result    *)
(* and pair_verify_result then give both sides the same secret: for every group, number of *)
(* attempts, pin, salt and private value, and a connection that may be lost at any moment. *)
THEOREM SecretsCorrect == PairingSpec => []SecretsAgree
<1>1. PairingInv => SecretsAgree
  BY DEF PairingInv
<1> QED BY <1>1, PairingInvariant, PTL

(* The device saves the key of a client in add_cb, before server_setup_response3 answers:  *)
(* the keys response_handler_pair_setup3 saves are never newer than the device's, whatever *)
(* becomes of the answer, and a client left behind by a lost one has the older keys.       *)
THEOREM DeviceFirstCorrect == PairingSpec => []DeviceKnowsFirst
<1>1. PairingInv => DeviceKnowsFirst
  BY DEF PairingInv, KeysSound
<1> QED BY <1>1, PairingInvariant, PTL

(* The checks of the client_ functions (the proof of the server, what the ciphertexts hold *)
(* and their signatures, a state and error as they are read of a TLV message in chunks) do *)
(* not refuse a device that has the pin: a setup fails for a wrong pin or the short salt   *)
(* bnum_bn2bin makes of one that begins with zero, a verification for an unknown key.      *)
THEOREM RefusedCorrect == PairingSpec => []RefusedForCause
<1>1. PairingInv => RefusedForCause
  BY SetupRefusedForCause, VerifyRefusedForCause DEF RefusedForCause
<1> QED BY <1>1, PairingInvariant, PTL
=============================================================================
