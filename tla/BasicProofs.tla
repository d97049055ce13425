----------------------------- MODULE BasicProofs -----------------------------
(***************************************************************************)
(* What the proofs need of natural numbers: the least number of a set,     *)
(* which stands for induction, remainders, recursive functions, and powers *)
(* by squaring; and of sequences of a known length, which are put together *)
(* and taken apart.                                                        *)
(***************************************************************************)
EXTENDS Powers, Sequences, WellFoundedInduction, SequenceTheorems, TLAPS

\* A set of natural numbers that is not empty has a least one.
LEMMA Least ==
  ASSUME NEW T, T \subseteq Nat, T # {}
  PROVE  \E m \in T : \A k \in T : m <= k
<1>1. IsWellFoundedOn(OpToRel(<, Nat), Nat)
  BY NatLessThanWellFounded
<1>2. PICK m \in T : \A k \in T : ~ (<<k, m>> \in OpToRel(<, Nat))
  BY <1>1, WFMin
<1>3. \A k \in T : ~ (k < m)
  BY <1>2 DEF OpToRel
<1> QED
  BY <1>3

\* What holds of 0 and of the successor of every number it holds of holds of all.
LEMMA Induction ==
  ASSUME NEW T, 0 \in T, \A k \in Nat : k \in T => k + 1 \in T
  PROVE  Nat \subseteq T
<1> DEFINE S == Nat \ T
<1>1. SUFFICES ASSUME S # {} PROVE FALSE
  OBVIOUS
<1>2. S \subseteq Nat
  OBVIOUS
<1>3. PICK m \in S : \A k \in S : m <= k
  BY <1>1, <1>2, Least
<1>4. m \in Nat /\ m \notin T /\ m # 0
  OBVIOUS
<1>5. m - 1 \in Nat /\ m - 1 \notin S /\ (m - 1) + 1 = m
  BY <1>3, <1>4
<1> QED
  BY <1>4, <1>5

-----------------------------------------------------------------------------
(* Remainders *)

LEMMA Division ==
  ASSUME NEW a \in Int, NEW n \in Nat \ {0}
  PROVE  /\ a \div n \in Int /\ a % n \in 0 .. n - 1
         /\ a = n * (a \div n) + (a % n)
  BY Z3

LEMMA RemainderIs ==
  ASSUME NEW n \in Nat \ {0}, NEW k \in Int, NEW r \in 0 .. n - 1, NEW a \in Int,
         a = n * k + r
  PROVE  a % n = r
<1>1. PICK q \in Int, s \in 0 .. n - 1 : a = n * q + s /\ a % n = s
  BY Division
<1>2. ASSUME k < q PROVE FALSE
  <2>1. n * q = n * k + n * (q - k)
    BY Z3
  <2>2. n * (q - k) >= n
    BY <1>2, Z3
  <2>3. n * q \in Int /\ n * k \in Int /\ n * (q - k) \in Int
    OBVIOUS
  <2> QED
    BY <1>1, <2>1, <2>2, <2>3
<1>3. ASSUME q < k PROVE FALSE
  <2>1. n * k = n * q + n * (k - q)
    BY Z3
  <2>2. n * (k - q) >= n
    BY <1>3, Z3
  <2>3. n * q \in Int /\ n * k \in Int /\ n * (k - q) \in Int
    OBVIOUS
  <2> QED
    BY <1>1, <2>1, <2>2, <2>3
<1>4. k = q
  BY <1>2, <1>3
<1> QED
  BY <1>1, <1>4

\* Multiples of n do not count.
LEMMA RemainderOfSum ==
  ASSUME NEW n \in Nat \ {0}, NEW a \in Int, NEW k \in Int
  PROVE  (a + n * k) % n = a % n
<1>1. PICK q \in Int, s \in 0 .. n - 1 : a = n * q + s /\ a % n = s
  BY Division
<1>2. a + n * k = n * (q + k) + s /\ q + k \in Int /\ a + n * k \in Int
  BY <1>1, Z3
<1> QED
  BY <1>1, <1>2, RemainderIs

\* A factor may be reduced before it is multiplied.
LEMMA RemainderOfProduct ==
  ASSUME NEW n \in Nat \ {0}, NEW a \in Int, NEW b \in Int
  PROVE  /\ ((a % n) * b) % n = (a * b) % n
         /\ (b * (a % n)) % n = (a * b) % n
<1>1. PICK q \in Int, s \in 0 .. n - 1 : a = n * q + s /\ a % n = s
  BY Division
<1>2. /\ a * b = s * b + n * (q * b)
      /\ s * b \in Int /\ q * b \in Int /\ b * s = s * b
  BY <1>1, Z3
<1>3. (s * b) % n = (a * b) % n
  BY <1>2, RemainderOfSum
<1> QED
  BY <1>1, <1>2, <1>3

LEMMA RemainderOfRemainder ==
  ASSUME NEW n \in Nat \ {0}, NEW a \in Int
  PROVE  (a % n) % n = a % n
<1>1. a % n \in 0 .. n - 1 /\ a % n \in Int
  BY Division
<1>2. a % n = n * 0 + (a % n)
  BY <1>1
<1> QED
  BY <1>1, <1>2, RemainderIs

-----------------------------------------------------------------------------
(* Powers *)

\* The first powers of b modulo n, up to b^last.
ArePowers(f, b, n, last) ==
  f = [k \in 0 .. last |-> IF k = 0 THEN 1 % n ELSE (f[k - 1] * b) % n]

LEMMA PowersExist ==
  ASSUME NEW b, NEW n
  PROVE  \A last \in Nat : \E f : ArePowers(f, b, n, last)
<1> DEFINE T == {last \in Nat : \E f : ArePowers(f, b, n, last)}
<1>1. 0 \in T
  <2>1. ArePowers([k \in 0 .. 0 |-> 1 % n], b, n, 0)
    BY DEF ArePowers
  <2> QED
    BY <2>1
<1>2. ASSUME NEW last \in Nat, last \in T PROVE last + 1 \in T
  <2>1. PICK f : ArePowers(f, b, n, last)
    BY <1>2
  <2>2. PICK g : g = [k \in 0 .. last + 1 |-> IF k = last + 1 THEN (f[last] * b) % n ELSE f[k]]
    OBVIOUS
  <2>3. ASSUME NEW k \in 0 .. last + 1
        PROVE  g[k] = IF k = 0 THEN 1 % n ELSE (g[k - 1] * b) % n
    <3>1. CASE k = last + 1
      <4>1. k # 0 /\ k - 1 = last /\ last \in 0 .. last + 1 /\ last # last + 1
        BY <3>1
      <4> QED
        BY <2>2, <3>1, <4>1
    <3>2. CASE k # last + 1
      <4>1. k \in 0 .. last /\ (k # 0 => k - 1 \in 0 .. last + 1 /\ k - 1 # last + 1)
        BY <3>2
      <4>2. f[k] = IF k = 0 THEN 1 % n ELSE (f[k - 1] * b) % n
        BY <2>1, <4>1 DEF ArePowers
      <4>3. g[k] = f[k] /\ (k # 0 => g[k - 1] = f[k - 1])
        BY <2>2, <3>2, <4>1
      <4> QED
        BY <4>2, <4>3
    <3> QED
      BY <3>1, <3>2
  <2>4. g = [k \in 0 .. last + 1 |-> g[k]]
    BY <2>2
  <2>5. ArePowers(g, b, n, last + 1)
    BY <2>3, <2>4 DEF ArePowers
  <2> QED
    BY <2>5
<1> HIDE DEF T
<1>3. Nat \subseteq T
  BY <1>1, <1>2, Induction
<1> QED
  BY <1>3 DEF T

LEMMA PowersUnique ==
  ASSUME NEW b, NEW n, NEW l1 \in Nat, NEW l2 \in Nat, l1 <= l2, NEW f, NEW g,
         ArePowers(f, b, n, l1), ArePowers(g, b, n, l2)
  PROVE  \A k \in 0 .. l1 : f[k] = g[k]
<1> DEFINE T == {k \in Nat : k <= l1 => f[k] = g[k]}
<1>1. 0 \in T
  BY DEF ArePowers
<1>2. ASSUME NEW k \in Nat, k \in T PROVE k + 1 \in T
  <2> SUFFICES ASSUME k + 1 <= l1 PROVE f[k + 1] = g[k + 1]
    OBVIOUS
  <2>1. f[k] = g[k]
    BY <1>2
  <2>2. k + 1 \in 0 .. l1 /\ k + 1 \in 0 .. l2 /\ k + 1 # 0 /\ (k + 1) - 1 = k
    OBVIOUS
  <2>3. f[k + 1] = (f[k] * b) % n
    BY <2>2 DEF ArePowers
  <2>4. g[k + 1] = (g[k] * b) % n
    BY <2>2 DEF ArePowers
  <2> QED
    BY <2>1, <2>3, <2>4
<1> HIDE DEF T
<1>3. Nat \subseteq T
  BY <1>1, <1>2, Induction
<1> QED
  BY <1>3 DEF T

\* The recursion of PowerMod has a solution.
LEMMA PowerModRecursion ==
  ASSUME NEW b, NEW n
  PROVE  /\ PowerMod(b, 0, n) = 1 % n
         /\ \A e \in Nat : PowerMod(b, e + 1, n) = (PowerMod(b, e, n) * b) % n
<1> DEFINE Of(last) == CHOOSE f : ArePowers(f, b, n, last)
           all == [k \in Nat |-> Of(k)[k]]
<1>1. \A last \in Nat : ArePowers(Of(last), b, n, last)
  BY PowersExist
<1> HIDE DEF Of
<1>2. all = [k \in Nat |-> IF k = 0 THEN 1 % n ELSE (all[k - 1] * b) % n]
  <2> SUFFICES ASSUME NEW k \in Nat
               PROVE  all[k] = IF k = 0 THEN 1 % n ELSE (all[k - 1] * b) % n
    OBVIOUS
  <2>1. Of(k)[k] = IF k = 0 THEN 1 % n ELSE (Of(k)[k - 1] * b) % n
    <3>1. k \in 0 .. k /\ ArePowers(Of(k), b, n, k)
      BY <1>1
    <3> QED
      BY <3>1 DEF ArePowers
  <2>2. CASE k # 0
    <3>1. k - 1 \in Nat /\ k - 1 <= k /\ k - 1 \in 0 .. k - 1
      BY <2>2
    <3>2. Of(k - 1)[k - 1] = Of(k)[k - 1]
      BY <1>1, <3>1, PowersUnique
    <3> QED
      BY <2>1, <2>2, <3>1, <3>2
  <2> QED
    BY <2>1, <2>2
<1>3. PICK power : /\ power = [k \in Nat |-> IF k = 0 THEN 1 % n ELSE (power[k - 1] * b) % n]
                   /\ \A e : PowerMod(b, e, n) = power[e]
  BY <1>2 DEF PowerMod
<1>4. power[0] = 1 % n
  BY <1>3
<1>5. ASSUME NEW e \in Nat PROVE power[e + 1] = (power[e] * b) % n
  <2>1. e + 1 \in Nat /\ e + 1 # 0 /\ (e + 1) - 1 = e
    OBVIOUS
  <2> QED
    BY <1>3, <2>1
<1> QED
  BY <1>3, <1>4, <1>5

LEMMA PowerModType ==
  ASSUME NEW b \in Nat, NEW n \in Nat \ {0}
  PROVE  \A e \in Nat : PowerMod(b, e, n) \in 0 .. n - 1
<1> DEFINE T == {e \in Nat : PowerMod(b, e, n) \in 0 .. n - 1}
<1>1. 0 \in T
  <2>1. 1 % n \in 0 .. n - 1 /\ PowerMod(b, 0, n) = 1 % n
    BY PowerModRecursion, Division
  <2> QED
    BY <2>1
<1>2. ASSUME NEW e \in Nat, e \in T PROVE e + 1 \in T
  <2>1. PowerMod(b, e, n) \in Nat
    BY <1>2
  <2>2. PowerMod(b, e, n) * b \in Int
    BY <2>1
  <2>3. PowerMod(b, e + 1, n) = (PowerMod(b, e, n) * b) % n
    BY PowerModRecursion
  <2>4. (PowerMod(b, e, n) * b) % n \in 0 .. n - 1
    BY <2>2, Division
  <2> QED
    BY <2>3, <2>4
<1> HIDE DEF T
<1>3. Nat \subseteq T
  BY <1>1, <1>2, Induction
<1> QED
  BY <1>3 DEF T

\* The base may be reduced first.
LEMMA PowerOfRemainder ==
  ASSUME NEW b \in Nat, NEW n \in Nat \ {0}
  PROVE  \A e \in Nat : PowerMod(b % n, e, n) = PowerMod(b, e, n)
<1> DEFINE c == b % n
           T == {e \in Nat : PowerMod(c, e, n) = PowerMod(b, e, n)}
<1>0. c \in Nat /\ c \in Int
  BY Division
<1>1. 0 \in T
  BY PowerModRecursion
<1>2. ASSUME NEW e \in Nat, e \in T PROVE e + 1 \in T
  <2>1. PowerMod(c, e, n) = PowerMod(b, e, n)
    BY <1>2
  <2>2. PICK x \in Int : x = PowerMod(b, e, n)
    BY PowerModType
  <2>3. (x * c) % n = (x * b) % n
    <3>0. b \in Int
      OBVIOUS
    <3>1. (x * (b % n)) % n = (b * x) % n
      BY <3>0, RemainderOfProduct, Zenon
    <3>2. b * x = x * b
      OBVIOUS
    <3> QED
      BY <3>1, <3>2
  <2>4. /\ PowerMod(c, e + 1, n) = (PowerMod(c, e, n) * c) % n
        /\ PowerMod(b, e + 1, n) = (PowerMod(b, e, n) * b) % n
    BY PowerModRecursion
  <2> HIDE DEF c
  <2> QED
    BY <2>1, <2>2, <2>3, <2>4
<1> HIDE DEF T
<1>3. Nat \subseteq T
  BY <1>1, <1>2, Induction
<1> QED
  BY <1>3 DEF T

\* An even power is a power of the square.
LEMMA PowerOfSquare ==
  ASSUME NEW b \in Nat, NEW n \in Nat \ {0}
  PROVE  \A e \in Nat : PowerMod((b * b) % n, e, n) = PowerMod(b, e + e, n)
<1> DEFINE c == (b * b) % n
           T == {e \in Nat : PowerMod(c, e, n) = PowerMod(b, e + e, n)}
<1>0. b * b \in Int /\ c \in Nat
  <2>1. b * b \in Int
    OBVIOUS
  <2> QED
    BY <2>1, Division
<1>1. 0 \in T
  BY PowerModRecursion
<1>2. ASSUME NEW e \in Nat, e \in T PROVE e + 1 \in T
  <2>1. PowerMod(c, e, n) = PowerMod(b, e + e, n)
    BY <1>2
  <2>2. PICK x \in Int : x = PowerMod(b, e + e, n)
    BY PowerModType
  <2>3. PowerMod(c, e + 1, n) = (x * c) % n
    BY <2>1, <2>2, PowerModRecursion
  <2>4. (x * c) % n = (x * (b * b)) % n
    <3>1. (x * ((b * b) % n)) % n = ((b * b) * x) % n
      BY <1>0, RemainderOfProduct, Zenon
    <3>2. (b * b) * x = x * (b * b)
      OBVIOUS
    <3> QED
      BY <3>1, <3>2
  <2>5. e + e \in Nat /\ (e + e) + 1 \in Nat /\ b \in Int
    OBVIOUS
  <2>6. PowerMod(b, ((e + e) + 1) + 1, n) = (((x * b) % n) * b) % n
    <3>1. PowerMod(b, (e + e) + 1, n) = (x * b) % n
      BY <2>2, <2>5, PowerModRecursion, Zenon
    <3> QED
      BY <2>5, <3>1, PowerModRecursion, Zenon
  <2>7. (((x * b) % n) * b) % n = (x * (b * b)) % n
    <3>1. x * b \in Int /\ (x * b) * b = x * (b * b)
      BY Z3
    <3>2. (((x * b) % n) * b) % n = ((x * b) * b) % n
      BY <2>5, <3>1, RemainderOfProduct, Zenon
    <3> QED
      BY <3>1, <3>2, Zenon
  <2>8. ((e + e) + 1) + 1 = (e + 1) + (e + 1)
    OBVIOUS
  <2> HIDE DEF c
  <2>9. PowerMod(c, e + 1, n) = PowerMod(b, (e + 1) + (e + 1), n)
    BY <2>3, <2>4, <2>6, <2>7, <2>8
  <2> QED
    BY <2>9
<1> HIDE DEF T
<1>3. Nat \subseteq T
  BY <1>1, <1>2, Induction
<1> QED
  BY <1>3 DEF T

\* One bit of the exponent: what is left to multiply stays the same.
LEMMA SquareAndMultiply ==
  ASSUME NEW n \in Nat \ {0}, NEW m \in Nat, NEW e \in Nat, NEW r \in Nat
  PROVE  ((IF e % 2 = 1 THEN (r * m) % n ELSE r) * PowerMod((m * m) % n, e \div 2, n)) % n
           = (r * PowerMod(m, e, n)) % n
<1> DEFINE k == e \div 2
<1>1. k \in Nat /\ (e = k + k \/ e = (k + k) + 1) /\ (e % 2 = 1 <=> e = (k + k) + 1)
  OBVIOUS
<1> HIDE DEF k
<1>2. k + k \in Nat /\ m \in Int
  BY <1>1
<1>3. PICK x \in Int : x = PowerMod(m, k + k, n)
  BY <1>2, PowerModType
<1>4. PowerMod((m * m) % n, k, n) = x
  BY <1>1, <1>3, PowerOfSquare, Zenon
<1>5. CASE e = k + k
  BY <1>1, <1>3, <1>4, <1>5 DEF k
<1>6. CASE e = (k + k) + 1
  <2>1. PowerMod(m, e, n) = (x * m) % n
    BY <1>2, <1>3, <1>6, PowerModRecursion, Zenon
  <2>2. /\ r * m \in Int /\ x * m \in Int /\ r \in Int
        /\ (r * m) * x = (x * m) * r
    BY Z3
  <2>3. (((r * m) % n) * x) % n = ((r * m) * x) % n
    BY <2>2, RemainderOfProduct, Zenon
  <2>4. (r * ((x * m) % n)) % n = ((x * m) * r) % n
    BY <2>2, RemainderOfProduct, Zenon
  <2>5. e % 2 = 1
    BY <1>1, <1>6
  <2> QED
    BY <1>4, <2>1, <2>2, <2>3, <2>4, <2>5, Zenon DEF k
<1> QED
  BY <1>1, <1>5, <1>6

\* When nothing is left of the exponent, the product so far is the power.
LEMMA NothingLeft ==
  ASSUME NEW n \in Nat \ {0}, NEW m, NEW r \in 0 .. n - 1
  PROVE  (r * PowerMod(m, 0, n)) % n = r
<1>1. 1 \in Int /\ r \in Int /\ 1 * r = r /\ r = n * 0 + r
  OBVIOUS
<1>2. PowerMod(m, 0, n) = 1 % n
  BY PowerModRecursion
<1>3. (r * (1 % n)) % n = (1 * r) % n
  BY <1>1, RemainderOfProduct, Zenon
<1>4. r % n = r
  BY <1>1, RemainderIs
<1> QED
  BY <1>1, <1>2, <1>3, <1>4

\* A power that has not been begun.
LEMMA AllLeft ==
  ASSUME NEW n \in Nat \ {0}, NEW b \in Nat, NEW e \in Nat
  PROVE  (1 * PowerMod(b % n, e, n)) % n = PowerMod(b, e, n)
<1>1. PICK y \in 0 .. n - 1 : y = PowerMod(b, e, n)
  BY PowerModType
<1>2. y \in Int /\ y = n * 0 + y /\ 1 * y = y
  OBVIOUS
<1>3. y % n = y
  BY <1>2, RemainderIs
<1>4. PowerMod(b % n, e, n) = y
  BY <1>1, PowerOfRemainder
<1> QED
  BY <1>1, <1>2, <1>3, <1>4

-----------------------------------------------------------------------------
(* Functions that are defined by recursion from one number to the next. *)

\* The natural numbers, or those up to one of them.
IsSegment(D) == D \subseteq Nat /\ \A k \in D : k = 0 \/ k - 1 \in D

\* From a value in X and the next number to a value in X.
IsStep(step, D, X) == step \in [D \X X -> X]

LEMMA SegmentUpTo ==
  ASSUME NEW n \in Nat
  PROVE  IsSegment(0 .. n)
BY DEF IsSegment

\* The first values of a recursion over D, up to that of last.
ArePrefix(f, D, X, start, step, last) ==
  /\ f \in [D \cap (0 .. last) -> X]
  /\ \A k \in D \cap (0 .. last) : f[k] = IF k = 0 THEN start ELSE step[<<k, f[k - 1]>>]

LEMMA PrefixesExist ==
  ASSUME NEW D, IsSegment(D),
         NEW X, NEW start \in X, NEW step, IsStep(step, D, X)
  PROVE  \A last \in Nat : \E f : ArePrefix(f, D, X, start, step, last)
<1> DEFINE T == {last \in Nat : \E f : ArePrefix(f, D, X, start, step, last)}
<1>1. 0 \in T
  <2>1. ArePrefix([k \in D \cap (0 .. 0) |-> start], D, X, start, step, 0)
    BY DEF ArePrefix
  <2> QED
    BY <2>1
<1>2. ASSUME NEW last \in Nat, last \in T PROVE last + 1 \in T
  <2>1. PICK f : ArePrefix(f, D, X, start, step, last)
    BY <1>2
  <2> DEFINE g == [k \in D \cap (0 .. last + 1) |->
                     IF k = last + 1 THEN step[<<k, f[k - 1]>>] ELSE f[k]]
  <2>2. ASSUME NEW k \in D \cap (0 .. last + 1)
        PROVE  g[k] \in X /\ g[k] = IF k = 0 THEN start ELSE step[<<k, g[k - 1]>>]
    <3>1. CASE k = last + 1
      <4>1. k # 0 /\ k - 1 = last /\ k - 1 \in D \cap (0 .. last) /\ k - 1 \in D \cap (0 .. last + 1)
            /\ k - 1 # last + 1
        BY <3>1 DEF IsSegment
      <4>2. f[k - 1] \in X /\ g[k - 1] = f[k - 1]
        BY <2>1, <4>1 DEF ArePrefix
      <4>3. step[<<k, f[k - 1]>>] \in X
        BY <4>2 DEF IsStep
      <4> QED
        BY <3>1, <4>1, <4>2, <4>3
    <3>2. CASE k # last + 1
      <4>1. k \in D \cap (0 .. last)
            /\ (k # 0 => k - 1 \in D \cap (0 .. last + 1) /\ k - 1 # last + 1)
        BY <3>2 DEF IsSegment
      <4>2. f[k] \in X /\ f[k] = IF k = 0 THEN start ELSE step[<<k, f[k - 1]>>]
        BY <2>1, <4>1 DEF ArePrefix
      <4>3. g[k] = f[k] /\ (k # 0 => g[k - 1] = f[k - 1])
        BY <3>2, <4>1
      <4> QED
        BY <4>2, <4>3
    <3> QED
      BY <3>1, <3>2
  <2>3. ArePrefix(g, D, X, start, step, last + 1)
    <3>1. g \in [D \cap (0 .. last + 1) -> X]
      BY <2>2
    <3> HIDE DEF g
    <3> QED
      BY <2>2, <3>1 DEF ArePrefix
  <2> QED
    BY <2>3
<1> HIDE DEF T
<1>3. Nat \subseteq T
  BY <1>1, <1>2, Induction
<1> QED
  BY <1>3 DEF T

LEMMA PrefixesAgree ==
  ASSUME NEW D, IsSegment(D),
         NEW X, NEW start \in X, NEW step, IsStep(step, D, X),
         NEW l1 \in Nat, NEW l2 \in Nat, l1 <= l2
  PROVE  \A f, g : /\ ArePrefix(f, D, X, start, step, l1)
                   /\ ArePrefix(g, D, X, start, step, l2)
                   => \A k \in D \cap (0 .. l1) : f[k] = g[k]
<1> SUFFICES ASSUME NEW f, NEW g, ArePrefix(f, D, X, start, step, l1),
                    ArePrefix(g, D, X, start, step, l2)
             PROVE  \A k \in D \cap (0 .. l1) : f[k] = g[k]
  OBVIOUS
<1> DEFINE T == {k \in Nat : k \in D /\ k <= l1 => f[k] = g[k]}
<1>1. 0 \in T
  <2> SUFFICES ASSUME 0 \in D PROVE f[0] = g[0]
    OBVIOUS
  <2>1. 0 \in D \cap (0 .. l1) /\ 0 \in D \cap (0 .. l2)
    OBVIOUS
  <2> QED
    BY <2>1 DEF ArePrefix
<1>2. ASSUME NEW k \in Nat, k \in T PROVE k + 1 \in T
  <2> SUFFICES ASSUME k + 1 \in D, k + 1 <= l1 PROVE f[k + 1] = g[k + 1]
    OBVIOUS
  <2>1. k + 1 # 0 /\ (k + 1) - 1 = k
    OBVIOUS
  <2>2. k \in D
    BY <2>1 DEF IsSegment
  <2>3. f[k] = g[k]
    BY <1>2, <2>2
  <2>4. k + 1 \in D \cap (0 .. l1) /\ k + 1 \in D \cap (0 .. l2)
    OBVIOUS
  <2>5. f[k + 1] = step[<<k + 1, f[k]>>]
    BY <2>1, <2>4 DEF ArePrefix
  <2>6. g[k + 1] = step[<<k + 1, g[k]>>]
    BY <2>1, <2>4 DEF ArePrefix
  <2> QED
    BY <2>3, <2>5, <2>6
<1> HIDE DEF T
<1>3. Nat \subseteq T
  BY <1>1, <1>2, Induction
<1> QED
  BY <1>3 DEF T

\* A recursion from each number to the next one has a solution.
LEMMA Recursion ==
  ASSUME NEW D, IsSegment(D),
         NEW X, NEW start \in X, NEW step, IsStep(step, D, X)
  PROVE  \E f \in [D -> X] :
           \A k \in D : f[k] = IF k = 0 THEN start ELSE step[<<k, f[k - 1]>>]
<1> DEFINE Of(last) == CHOOSE f : ArePrefix(f, D, X, start, step, last)
           all == [k \in D |-> Of(k)[k]]
<1>1. \A last \in Nat : ArePrefix(Of(last), D, X, start, step, last)
  BY PrefixesExist
<1> HIDE DEF Of
<1> DEFINE Agree(l1, l2) == \A f, g : /\ ArePrefix(f, D, X, start, step, l1)
                                     /\ ArePrefix(g, D, X, start, step, l2)
                                     => \A i \in D \cap (0 .. l1) : f[i] = g[i]
<1>5. ASSUME NEW l1 \in Nat, NEW l2 \in Nat, l1 <= l2 PROVE Agree(l1, l2)
  BY PrefixesAgree, <1>5
<1> HIDE DEF Agree
<1>2. ASSUME NEW k \in D
      PROVE  all[k] \in X /\ all[k] = IF k = 0 THEN start ELSE step[<<k, all[k - 1]>>]
  <2>1. k \in Nat /\ k \in D \cap (0 .. k)
    BY DEF IsSegment
  <2>2. Of(k)[k] \in X /\ Of(k)[k] = IF k = 0 THEN start ELSE step[<<k, Of(k)[k - 1]>>]
    BY <1>1, <2>1 DEF ArePrefix
  <2>3. CASE k # 0
    <3>1. k - 1 \in Nat /\ k - 1 <= k /\ k - 1 \in D \cap (0 .. k - 1)
      BY <2>1, <2>3 DEF IsSegment
    <3>2. /\ ArePrefix(Of(k - 1), D, X, start, step, k - 1)
          /\ ArePrefix(Of(k), D, X, start, step, k)
      BY <1>1, <2>1, <3>1
    <3>3. Agree(k - 1, k)
      BY <1>5, <2>1, <3>1
    <3>4. \A i \in D \cap (0 .. k - 1) : Of(k - 1)[i] = Of(k)[i]
      BY <3>2, <3>3 DEF Agree
    <3> QED
      BY <2>2, <2>3, <3>1, <3>4
  <2> QED
    BY <2>2, <2>3
<1>3. all \in [D -> X]
  BY <1>2
<1> HIDE DEF all
<1> QED
  BY <1>2, <1>3

\* A step that is defined up to some number.
IsStepUpTo(step, last, X) == IsStep(step, 0 .. last, X)

LEMMA RecursionUpTo ==
  ASSUME NEW last \in Nat, NEW X, NEW start \in X, NEW step, IsStepUpTo(step, last, X)
  PROVE  \E f \in [0 .. last -> X] :
           f[0] = start /\ \A k \in 1 .. last : f[k] = step[<<k, f[k - 1]>>]
<1> DEFINE D == 0 .. last
<1>1. IsSegment(D) /\ IsStep(step, D, X)
  BY SegmentUpTo DEF IsStepUpTo
<1>2. 0 \in D /\ \A k \in 1 .. last : k \in D /\ k # 0
  OBVIOUS
<1> HIDE DEF D
<1>3. PICK f \in [D -> X] :
        \A k \in D : f[k] = IF k = 0 THEN start ELSE step[<<k, f[k - 1]>>]
  BY <1>1, Recursion
<1>4. f[0] = start /\ \A k \in 1 .. last : f[k] = step[<<k, f[k - 1]>>]
  BY <1>2, <1>3
<1> QED
  BY <1>4 DEF D

-----------------------------------------------------------------------------
(* Texts: sequences of a known length, of bytes mostly *)

\* A text of n bytes, all of them in T.
IsText(s, n, T) == s \in Seq(T) /\ Len(s) = n

\* A text ab of na bytes, those of a, and nb more, those of b.
IsConcat(a, na, b, nb, ab, T) ==
  /\ IsText(ab, na + nb, T)
  /\ \A i \in 1 .. na : ab[i] = a[i]
  /\ \A i \in 1 .. nb : ab[na + i] = b[i]

LEMMA TextIs ==
  ASSUME NEW T, NEW n, NEW s, IsText(s, n, T)
  PROVE  n \in Nat /\ Len(s) = n /\ s \in [1 .. n -> T] /\ \A i \in 1 .. n : s[i] \in T
BY LenProperties DEF IsText

LEMMA ConcatIs ==
  ASSUME NEW T, NEW na, NEW a, IsText(a, na, T), NEW nb, NEW b, IsText(b, nb, T)
  PROVE  IsConcat(a, na, b, nb, a \o b, T)
<1>1. a \in Seq(T) /\ b \in Seq(T) /\ Len(a) = na /\ Len(b) = nb /\ na \in Nat /\ nb \in Nat
  BY LenProperties DEF IsText
<1>2. /\ a \o b \in Seq(T) /\ Len(a \o b) = na + nb
      /\ \A i \in 1 .. na + nb : (a \o b)[i] = IF i <= na THEN a[i] ELSE b[i - na]
  BY <1>1, ConcatProperties
<1> DEFINE ab == a \o b
<1> HIDE DEF ab
<1>3. \A i \in 1 .. na : ab[i] = a[i]
  BY <1>1, <1>2 DEF ab
<1>4. ASSUME NEW i \in 1 .. nb PROVE ab[na + i] = b[i]
  <2>1. na + i \in 1 .. na + nb /\ ~ (na + i <= na) /\ (na + i) - na = i
    BY <1>1
  <2> QED
    BY <1>2, <2>1 DEF ab
<1> QED
  BY <1>2, <1>3, <1>4 DEF ab, IsConcat, IsText

LEMMA ConcatIsText ==
  ASSUME NEW T, NEW na, NEW a, IsText(a, na, T), NEW nb, NEW b, IsText(b, nb, T)
  PROVE  IsText(a \o b, na + nb, T)
BY ConcatIs DEF IsConcat

\* The elements of a part of a sequence.
LEMMA SubText ==
  ASSUME NEW T, NEW n, NEW s, IsText(s, n, T), NEW m \in 1 .. n + 1, NEW l \in m - 1 .. n
  PROVE  /\ IsText(SubSeq(s, m, l), l - m + 1, T)
         /\ \A i \in 1 .. l - m + 1 : SubSeq(s, m, l)[i] = s[m + i - 1]
<1>1. n \in Nat /\ m \in Int /\ l \in Int /\ \A i \in m .. l : s[i] \in T
  BY TextIs
<1>2. /\ SubSeq(s, m, l) \in Seq(T)
      /\ Len(SubSeq(s, m, l)) = IF m <= l THEN l - m + 1 ELSE 0
      /\ \A i \in 1 .. l - m + 1 : SubSeq(s, m, l)[i] = s[m + i - 1]
  BY <1>1, SubSeqProperties
<1>3. (IF m <= l THEN l - m + 1 ELSE 0) = l - m + 1
  BY <1>1
<1> QED
  BY <1>2, <1>3 DEF IsText

LEMMA SameText ==
  ASSUME NEW T, NEW n, NEW s, IsText(s, n, T), NEW t, IsText(t, n, T),
         \A i \in 1 .. n : s[i] = t[i]
  PROVE  s = t
BY SeqEqual DEF IsText

\* What is written before something else is its beginning.
LEMMA FirstOfConcat ==
  ASSUME NEW T, NEW na, NEW a, IsText(a, na, T), NEW nb \in Nat, NEW b, NEW ab,
         IsConcat(a, na, b, nb, ab, T)
  PROVE  SubSeq(ab, 1, na) = a
<1>1. na \in Nat /\ IsText(ab, na + nb, T) /\ \A i \in 1 .. na : ab[i] = a[i]
  BY TextIs DEF IsConcat
<1>2. 1 \in 1 .. (na + nb) + 1 /\ na \in 1 - 1 .. na + nb /\ na - 1 + 1 = na
  BY <1>1
<1>3. /\ IsText(SubSeq(ab, 1, na), na - 1 + 1, T)
      /\ \A i \in 1 .. na - 1 + 1 : SubSeq(ab, 1, na)[i] = ab[1 + i - 1]
  BY <1>1, <1>2, SubText
<1>4. \A i \in 1 .. na : SubSeq(ab, 1, na)[i] = a[i]
  BY <1>1, <1>2, <1>3
<1> QED
  BY <1>2, <1>3, <1>4, SameText

\* More may be in the bytes of a text.
LEMMA TextIn ==
  ASSUME NEW T, NEW U, T \subseteq U, NEW n, NEW s, IsText(s, n, T)
  PROVE  IsText(s, n, U)
BY SeqMonotonic DEF IsText

LEMMA ConstantIs ==
  ASSUME NEW n \in Nat, NEW b, NEW T, b \in T
  PROVE  IsText([i \in 1 .. n |-> b], n, T)
<1>1. [i \in 1 .. n |-> b] \in [1 .. n -> T]
  OBVIOUS
<1> QED
  BY <1>1, SeqDef, LenProperties DEF IsText

IsTable(s, n, T) == s \in [1 .. n -> T]

LEMMA IsTextOf ==
  ASSUME NEW n \in Nat, NEW T, NEW s, IsTable(s, n, T)
  PROVE  IsText(s, n, T)
<1>0. s \in [1 .. n -> T]
  BY DEF IsTable
<1>1. s \in Seq(T)
  BY <1>0, SeqDef
<1>2. DOMAIN s = 1 .. n /\ Len(s) \in Nat /\ DOMAIN s = 1 .. Len(s)
  BY <1>0, <1>1, LenProperties
<1>3. Len(s) = n
  BY <1>2
<1> QED
  BY <1>1, <1>3 DEF IsText
-----------------------------------------------------------------------------
(* Sequences of anything *)

IsSequence(s) == Len(s) \in Nat /\ s = [k \in 1 .. Len(s) |-> s[k]]

LEMMA SequenceIs ==
  ASSUME NEW s, IsSequence(s), NEW T, \A k \in 1 .. Len(s) : s[k] \in T
  PROVE  IsText(s, Len(s), T)
<1> DEFINE n == Len(s)
<1>1. n \in Nat /\ s = [k \in 1 .. n |-> s[k]]
  BY DEF IsSequence
<1>2. \A k \in 1 .. n : s[k] \in T
  OBVIOUS
<1> HIDE DEF n
<1>3. s \in [1 .. n -> T]
  BY <1>1, <1>2
<1>4. IsText(s, n, T)
  BY <1>1, <1>3, IsTextOf DEF IsTable
<1> QED
  BY <1>4 DEF n

LEMMA TextIsSequence ==
  ASSUME NEW s, NEW n, NEW T, IsText(s, n, T)
  PROVE  IsSequence(s)
<1>1. s \in [1 .. n -> T] /\ n \in Nat /\ Len(s) = n
  BY TextIs
<1> QED
  BY <1>1 DEF IsSequence

LEMMA AppendedIs ==
  ASSUME NEW s, IsSequence(s), NEW e
  PROVE  /\ IsSequence(Append(s, e)) /\ Len(Append(s, e)) = Len(s) + 1
         /\ \A k \in 1 .. Len(s) : Append(s, e)[k] = s[k]
         /\ Append(s, e)[Len(s) + 1] = e
<1> DEFINE T == {s[k] : k \in 1 .. Len(s)} \cup {e}
<1>1. \A k \in 1 .. Len(s) : s[k] \in T
  OBVIOUS
<1>2. e \in T
  OBVIOUS
<1> HIDE DEF T
<1>3. s \in Seq(T) /\ Len(s) \in Nat
  BY <1>1, SequenceIs DEF IsText, IsSequence
<1>4. /\ Append(s, e) \in Seq(T) /\ Len(Append(s, e)) = Len(s) + 1
      /\ \A k \in 1 .. Len(s) : Append(s, e)[k] = s[k]
      /\ Append(s, e)[Len(s) + 1] = e
  BY <1>2, <1>3, AppendProperties
<1>5. IsText(Append(s, e), Len(s) + 1, T)
  BY <1>4 DEF IsText
<1> QED
  BY <1>4, <1>5, TextIsSequence

AreJoined(a, b, ab) ==
  /\ IsSequence(ab) /\ Len(ab) = Len(a) + Len(b)
  /\ \A k \in 1 .. Len(a) : ab[k] = a[k]
  /\ \A k \in 1 .. Len(b) : ab[Len(a) + k] = b[k]

LEMMA SequencesJoined ==
  ASSUME NEW a, IsSequence(a), NEW b, IsSequence(b)
  PROVE  AreJoined(a, b, a \o b)
<1> DEFINE T == {a[k] : k \in 1 .. Len(a)} \cup {b[k] : k \in 1 .. Len(b)}
           ab == a \o b
<1>1. (\A k \in 1 .. Len(a) : a[k] \in T) /\ (\A k \in 1 .. Len(b) : b[k] \in T)
  OBVIOUS
<1> HIDE DEF T
<1>2. IsText(a, Len(a), T) /\ IsText(b, Len(b), T)
  BY <1>1, SequenceIs
<1>3. IsConcat(a, Len(a), b, Len(b), ab, T)
  BY <1>2, ConcatIs
<1> HIDE DEF ab
<1>4. IsText(ab, Len(a) + Len(b), T)
  BY <1>3 DEF IsConcat
<1>5. IsSequence(ab) /\ Len(ab) = Len(a) + Len(b)
  BY <1>4, TextIsSequence DEF IsText
<1> QED
  BY <1>3, <1>5 DEF IsConcat, AreJoined, ab

LEMMA TuplesAreSequences ==
  ASSUME NEW a, NEW b
  PROVE  /\ IsSequence(<<a>>) /\ Len(<<a>>) = 1 /\ <<a>>[1] = a
         /\ IsSequence(<<a, b>>) /\ Len(<<a, b>>) = 2 /\ <<a, b>>[1] = a /\ <<a, b>>[2] = b
<1>1. IsText(<<a>>, 1, {a, b}) /\ IsText(<<a, b>>, 2, {a, b})
  BY DEF IsText
<1>2. IsSequence(<<a>>) /\ IsSequence(<<a, b>>)
  BY <1>1, TextIsSequence
<1> QED
  BY <1>2

=============================================================================
