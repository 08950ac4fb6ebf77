------------------------------ MODULE RtpLemmas ------------------------------
(***************************************************************************)
(* Arithmetic modulo n and what the operators of RtpCommon make of it: how *)
(* sequence numbers, positions and places of the ring move and how far     *)
(* apart they are, for every modulus and size of the ring.                 *)
(***************************************************************************)
EXTENDS RtpCommon, TLAPS

\* Remainders of a number less than one modulus away from the range.
LEMMA ModIn == ASSUME NEW n \in Nat \ {0}, NEW x \in 0..(n - 1) PROVE x % n = x
  BY SMT
LEMMA ModUp == ASSUME NEW n \in Nat \ {0}, NEW x \in n..(2 * n - 1) PROVE x % n = x - n
  BY SMT
LEMMA ModDown == ASSUME NEW n \in Nat \ {0}, NEW x \in (-n)..(-1) PROVE x % n = x + n
  BY SMT
LEMMA ModRange == ASSUME NEW n \in Nat \ {0}, NEW x \in Int PROVE x % n \in 0..(n - 1)
  BY SMT
LEMMA ModDownTwice ==
  ASSUME NEW n \in Nat \ {0}, NEW x \in (-(2 * n))..(-n - 1) PROVE x % n = x + 2 * n
  BY SMT

\* A modulus more or less changes no remainder, within a few moduli.
LEMMA ModShift ==
  ASSUME NEW n \in Nat \ {0}, NEW x \in (-(2 * n))..(2 * n - 1), NEW y \in {x + n, x - n},
         y \in (-(2 * n))..(2 * n - 1)
  PROVE  y % n = x % n
<1>1. \A z \in (-(2 * n))..(2 * n - 1) :
        /\ z \in 0..(n - 1) => z % n = z
        /\ z \in n..(2 * n - 1) => z % n = z - n
        /\ z \in (-n)..(-1) => z % n = z + n
        /\ z \in (-(2 * n))..(-n - 1) => z % n = z + 2 * n
  BY ModIn, ModUp, ModDown, ModDownTwice
<1> QED BY <1>1

\* A remainder is the number itself, up to one modulus.
LEMMA ModNear ==
  ASSUME NEW n \in Nat \ {0}, NEW x \in (-n)..(2 * n - 1)
  PROVE  x % n \in {x, x + n, x - n}
<1>1. CASE x \in 0..(n - 1)
  BY <1>1, ModIn
<1>2. CASE x \in n..(2 * n - 1)
  BY <1>2, ModUp
<1>3. CASE x \in (-n)..(-1)
  BY <1>3, ModDown
<1> QED BY <1>1, <1>2, <1>3

\* Counting k back from the successor is counting k - 1 back.
LEMMA ModBack ==
  ASSUME NEW n \in Nat \ {0}, NEW x \in 0..(n - 1), NEW k \in 1..n
  PROVE  /\ (x + 1) % n \in 0..(n - 1)
         /\ (((x + 1) % n) - k) % n = (x - (k - 1)) % n
         /\ k = 1 => (((x + 1) % n) - k) % n = x
         /\ (k # 1) => (x - (k - 1)) % n # x
<1>1. CASE x + 1 < n
  <2>1. (x + 1) % n = x + 1
    BY <1>1, ModIn
  <2>2. x - (k - 1) \in 0..(n - 1) => (x - (k - 1)) % n = x - (k - 1)
    BY ModIn
  <2>3. x - (k - 1) \in (-n)..(-1) => (x - (k - 1)) % n = x - (k - 1) + n
    BY ModDown
  <2> QED BY <1>1, <2>1, <2>2, <2>3
<1>2. CASE x + 1 = n
  <2>1. (x + 1) % n = 0
    BY <1>2
  <2>2. (0 - k) % n = (n - k) % n
    BY ModDown
  <2>3. (x - (k - 1)) % n = n - k
    BY <1>2, ModIn
  <2> QED BY <1>2, <2>1, <2>2, <2>3
<1> QED BY <1>1, <1>2

\* The two-XOR test holds exactly for the len numbers before q.
LEMMA BufferedDistance ==
  ASSUME NEW m \in Nat \ {0}, NEW q \in 0..(m - 1), NEW s \in 0..(m - 1),
         NEW len \in 1..(m - 1)
  PROVE  /\ Buffered((q - len) % m, (q - 1) % m, s) <=> (q - s) % m \in 1..len
         /\ (q - ((q - s) % m)) % m = s
<1>1. /\ q >= len => (q - len) % m = q - len
      /\ q < len => (q - len) % m = q - len + m
  BY ModIn, ModDown
<1>2. /\ q >= 1 => (q - 1) % m = q - 1
      /\ q = 0 => (q - 1) % m = m - 1
  BY ModIn, ModDown
<1>3. /\ q >= s => (q - s) % m = q - s
      /\ q < s => (q - s) % m = q - s + m
  BY ModIn, ModDown
<1>4. Buffered((q - len) % m, (q - 1) % m, s) <=> (q - s) % m \in 1..len
  <2> DEFINE f == (q - len) % m
             l == (q - 1) % m
             d == (q - s) % m
  <2>1. f \in Int /\ l \in Int /\ d \in Int
    BY <1>1, <1>2, <1>3
  <2> HIDE DEF f, l, d
  <2>2. Buffered(f, l, s) <=> d \in 1..len
    BY <1>1, <1>2, <1>3, <2>1 DEF Buffered, f, l, d
  <2> QED BY <2>2 DEF f, l, d
<1>5. (q - ((q - s) % m)) % m = s
  <2>1. CASE q >= s
    <3>1. q - ((q - s) % m) = s
      BY <1>3, <2>1
    <3> QED BY <3>1, ModIn
  <2>2. CASE q < s
    <3>1. q - ((q - s) % m) = s - m
      BY <1>3, <2>2
    <3>2. (s - m) % m = s
      BY ModDown
    <3> QED BY <3>1, <3>2
  <2> QED BY <2>1, <2>2
<1> QED BY <1>4, <1>5

\* A number in the window, found by its distance from the next number.
LEMMA DistanceBack ==
  ASSUME NEW m \in Nat \ {0}, NEW q \in 0..(m - 1), NEW k \in 1..(m - 1)
  PROVE  (q - ((q - k) % m)) % m = k
<1>1. CASE k <= q
  <2>1. (q - k) % m = q - k
    BY <1>1, ModIn
  <2>2. q - ((q - k) % m) = k
    BY <2>1
  <2> QED BY <2>2, ModIn
<1>2. CASE k > q
  <2>1. (q - k) % m = q - k + m
    BY <1>2, ModDown
  <2>2. q - ((q - k) % m) = k - m
    BY <2>1
  <2>3. (k - m) % m = k
    BY ModDown
  <2> QED BY <2>2, <2>3
<1> QED BY <1>1, <1>2

\* The code's index, with the ring size added first, is the slot d back.
LEMMA IndexBack ==
  ASSUME NEW n \in Nat \ {0}, NEW x \in 0..(n - 1), NEW d \in 1..n
  PROVE  (x + n - d) % n = (x - d) % n
<1>1. CASE d <= x
  BY <1>1, ModIn, ModUp
<1>2. CASE d > x
  BY <1>2, ModIn, ModDown
<1> QED BY <1>1, <1>2

\* A number of moduli more or less changes no remainder.
LEMMA ModMultiple ==
  ASSUME NEW n \in Nat \ {0}, NEW r \in 0..(n - 1), NEW q \in Int
  PROVE  (q * n + r) % n = r
  BY SMT

\* A remainder may be taken before a step as well as after it.
LEMMA ModStep ==
  ASSUME NEW n \in Nat \ {0}, NEW x \in Int, NEW d \in Int
  PROVE  ((x % n) + d) % n = (x + d) % n
<1> DEFINE q == x \div n
           r == x % n
           y == r + d
           p == y \div n
           t == y % n
<1>1. q \in Int /\ r \in 0..(n - 1) /\ x = q * n + r
  BY SMT
<1> HIDE DEF q, r
<1>2. y \in Int /\ x + d = q * n + y
  BY <1>1
<1> HIDE DEF y
<1>3. p \in Int /\ t \in 0..(n - 1) /\ y = p * n + t
  BY <1>2, SMT
<1> HIDE DEF p, t
<1>4. x + d = (q + p) * n + t /\ q + p \in Int
  BY <1>1, <1>2, <1>3
<1>5. (x + d) % n = t
  BY <1>3, <1>4, ModMultiple
<1> QED BY <1>5 DEF t, y, r
=============================================================================
