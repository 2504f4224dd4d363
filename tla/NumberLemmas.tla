---------------------------- MODULE NumberLemmas ----------------------------
(***************************************************************************)
(* What the proofs need to know of numbers: division with remainder by a   *)
(* number the provers do not know (sequence numbers, ring indices, blocks  *)
(* of an image), induction, in a form without an operator parameter, and sets *)
(* of numbers in order; and a few facts about sequences.                   *)
(***************************************************************************)
EXTENDS Ordering, Functions, WellFoundedInduction, FiniteSetTheorems, TLAPS

\* Division with remainder, as the provers need it.
LEMMA DivMod ==
  ASSUME NEW n \in Int, NEW m \in Nat \ {0}
  PROVE  /\ n = m * (n \div m) + (n % m)
         /\ n % m \in 0 .. m - 1
         /\ n \div m \in Int
OBVIOUS

\* A remainder is determined by any decomposition.
LEMMA ModUnique ==
  ASSUME NEW m \in Nat \ {0}, NEW q \in Int, NEW r \in 0 .. m - 1
  PROVE  (m * q + r) % m = r
<1> DEFINE n == m * q + r
<1>0. n \in Int
  OBVIOUS
<1>1. /\ n = m * (n \div m) + (n % m) /\ n % m \in 0 .. m - 1 /\ n \div m \in Int
  BY <1>0, DivMod
<1> DEFINE p == n \div m
<1> DEFINE t == n % m
<1> HIDE DEF p, t
<1>2. m * q + r = m * p + t /\ t \in 0 .. m - 1 /\ p \in Int
  BY <1>1 DEF p, t
<1>3. CASE p > q
  <2>1. m * p >= m * (q + 1)
    BY <1>2, <1>3
  <2>2. QED
    BY <1>2, <2>1
<1>4. CASE p < q
  <2>1. m * q >= m * (p + 1)
    BY <1>2, <1>4
  <2>2. QED
    BY <1>2, <2>1
<1>5. CASE p = q
  BY <1>2, <1>5 DEF t
<1>6. QED
  BY <1>2, <1>3, <1>4, <1>5

\* Counting on by one: the remainder starts over after m - 1.
LEMMA NextRemainder ==
  ASSUME NEW n \in Nat, NEW m \in Nat \ {0}
  PROVE  (n + 1) % m = IF n % m = m - 1 THEN 0 ELSE (n % m) + 1
<1> DEFINE q == n \div m
<1> DEFINE r == n % m
<1>1. n = m * q + r /\ r \in 0 .. m - 1 /\ q \in Int
  BY DivMod
<1> HIDE DEF q, r
<1>2. CASE r = m - 1
  <2>1. n + 1 = m * (q + 1) + 0
    BY <1>1, <1>2
  <2>2. (m * (q + 1) + 0) % m = 0
    BY <1>1, ModUnique
  <2>3. QED
    BY <1>2, <2>1, <2>2 DEF r
<1>3. CASE r # m - 1
  <2>1. n + 1 = m * q + (r + 1) /\ r + 1 \in 0 .. m - 1
    BY <1>1, <1>3
  <2>2. (m * q + (r + 1)) % m = r + 1
    BY <1>1, <2>1, ModUnique
  <2>3. QED
    BY <1>3, <2>1, <2>2 DEF r
<1>4. QED
  BY <1>2, <1>3

\* Numbers with one remainder are whole rounds apart.
LEMMA SameRemainder ==
  ASSUME NEW a \in Nat, NEW b \in Nat, NEW m \in Nat \ {0}, a % m = b % m
  PROVE  (a - b) % m = 0
<1> DEFINE p == a \div m
<1> DEFINE q == b \div m
<1>1. a = m * p + (a % m) /\ p \in Int /\ a % m \in Int
  BY DivMod
<1>2. b = m * q + (b % m) /\ q \in Int
  BY DivMod
<1> HIDE DEF p, q
<1>3. a - b = m * (p - q) + 0
  BY <1>1, <1>2
<1>4. (m * (p - q) + 0) % m = 0
  BY <1>1, <1>2, ModUnique
<1>5. QED
  BY <1>3, <1>4

\* A whole round on, the remainder is the same.
LEMMA RoundOn ==
  ASSUME NEW n \in Int, NEW m \in Nat \ {0}
  PROVE  (n + m) % m = n % m
<1> DEFINE q == n \div m
<1> DEFINE r == n % m
<1>1. n = m * q + r /\ r \in 0 .. m - 1 /\ q \in Int
  BY DivMod
<1> HIDE DEF q, r
<1>2. n + m = m * (q + 1) + r
  BY <1>1
<1>3. (m * (q + 1) + r) % m = r
  BY <1>1, ModUnique
<1>4. QED
  BY <1>2, <1>3 DEF r

\* Two multiples that are less than a round apart.
LEMMA Multiples ==
  ASSUME NEW a \in Int, NEW b \in Int, NEW m \in Nat \ {0},
         a % m = 0, b % m = 0, a < b + m
  PROVE  a <= b
<1> DEFINE p == a \div m
           q == b \div m
<1>1. a = m * p /\ b = m * q /\ p \in Int /\ q \in Int
  BY DivMod
<1> HIDE DEF p, q
<1>2. CASE p <= q
  <2>1. m * p <= m * q
    BY <1>1, <1>2
  <2>2. QED
    BY <1>1, <2>1
<1>3. CASE p >= q + 1
  <2>1. m * p >= m * (q + 1)
    BY <1>1, <1>3
  <2>2. QED
    BY <1>1, <2>1
<1>4. QED
  BY <1>1, <1>2, <1>3

\* Quotients are not above, and not below, what they should be.
LEMMA Quotient ==
  ASSUME NEW n \in Nat, NEW m \in Nat \ {0}
  PROVE  n \div m \in Nat /\ m * (n \div m) <= n
BY DivMod

LEMMA AtLeast ==
  ASSUME NEW n \in Nat, NEW m \in Nat \ {0}, NEW k \in Nat, n >= k * m
  PROVE  n \div m >= k /\ n \div m \in Nat
<1> DEFINE q == n \div m
<1>1. q \in Int /\ n = m * q + (n % m) /\ n % m \in 0 .. m - 1
  BY DivMod
<1> HIDE DEF q
<1>2. n < m * q + m
  BY <1>1
<1>3. ASSUME q < k PROVE FALSE
  <2>1. m * (q + 1) <= m * k
    BY <1>1, <1>3
  <2>2. m * (q + 1) = m * q + m /\ m * k = k * m
    BY <1>1
  <2> DEFINE x == m * q
             y == k * m
  <2>3. x \in Int /\ y \in Int /\ x + m <= y /\ n < x + m /\ n >= y
    BY <1>1, <1>2, <2>1, <2>2
  <2> HIDE DEF x, y
  <2>4. QED
    BY <2>3
<1>4. QED
  BY <1>1, <1>3 DEF q

\* Numbers cut into pieces of length L: where two of them lie, counted from 1.
Placed(L, m, i) ==
  LET F == m \div L
      G == i \div L
      c == (m % L) + 1
      e == (i % L) + 1
  IN /\ F \in Nat /\ G \in Nat /\ c \in 1 .. L /\ e \in 1 .. L
     /\ G = F => e = c + (i - m)
     /\ G = F + 1 => e = c + (i - m) - L
     /\ G + 1 = F => e = c + (i - m) + L
     /\ G >= F + 2 => i - m > L
     /\ G + 2 <= F => m - i > L
LEMMA PlaceValues ==
  ASSUME NEW L \in Nat \ {0}, NEW m \in Nat, NEW i \in Nat
  PROVE  Placed(L, m, i)
<1> DEFINE F == m \div L
           G == i \div L
           c == (m % L) + 1
           e == (i % L) + 1
<1>1. F \in Nat /\ G \in Nat
  BY Quotient
<1>2. m = L * F + (c - 1) /\ c \in 1 .. L
  <2>1. m = L * (m \div L) + (m % L) /\ m % L \in 0 .. L - 1
    BY DivMod
  <2> DEFINE r == m % L
             LF == L * F
  <2>2. m = LF + r /\ r \in 0 .. L - 1 /\ c = r + 1
    BY <2>1
  <2>3. LF \in Int
    BY <1>1
  <2> HIDE DEF r, LF
  <2>4. m = LF + (c - 1) /\ c \in 1 .. L
    BY <2>2, <2>3
  <2>5. QED
    BY <2>4 DEF LF
<1>3. i = L * G + (e - 1) /\ e \in 1 .. L
  <2>1. i = L * (i \div L) + (i % L) /\ i % L \in 0 .. L - 1
    BY DivMod
  <2> DEFINE r == i % L
             LG == L * G
  <2>2. i = LG + r /\ r \in 0 .. L - 1 /\ e = r + 1
    BY <2>1
  <2>3. LG \in Int
    BY <1>1
  <2> HIDE DEF r, LG
  <2>4. i = LG + (e - 1) /\ e \in 1 .. L
    BY <2>2, <2>3
  <2>5. QED
    BY <2>4 DEF LG
<1> DEFINE f == L * F
           g == L * G
<1>4. f \in Int /\ g \in Int
  BY <1>1
<1>5. m = f + (c - 1) /\ i = g + (e - 1)
  BY <1>2, <1>3
<1>6. /\ G = F => g = f
      /\ G = F + 1 => g = f + L
      /\ G + 1 = F => f = g + L
      /\ G >= F + 2 => g >= f + 2 * L
      /\ G + 2 <= F => f >= g + 2 * L
  <2>1. ASSUME NEW x \in Nat, NEW y \in Nat, y >= x + 2 PROVE L * y >= L * x + 2 * L
    <3>1. PICK z \in Nat : y = x + 2 + z
      <4>1. y - x - 2 \in Nat /\ y = x + 2 + (y - x - 2)
        BY <2>1
      <4>2. QED
        BY <4>1
    <3>2. L * y = L * x + 2 * L + L * z
      BY <3>1
    <3>3. L * z \in Nat /\ L * x \in Nat
      OBVIOUS
    <3> DEFINE lx == L * x
               ly == L * y
               lz == L * z
    <3>4. ly = lx + 2 * L + lz /\ lz \in Nat /\ lx \in Nat
      BY <3>2, <3>3
    <3> HIDE DEF lx, ly, lz
    <3>5. ly >= lx + 2 * L
      BY <3>4
    <3>6. QED
      BY <3>5 DEF lx, ly
  <2>2. ASSUME NEW x \in Nat PROVE L * (x + 1) = L * x + L
    OBVIOUS
  <2>3. G >= F + 2 => g >= f + 2 * L
    BY <1>1, <2>1
  <2>4. G + 2 <= F => f >= g + 2 * L
    BY <1>1, <2>1
  <2>5. /\ G = F + 1 => g = f + L
        /\ G + 1 = F => f = g + L
    <3>1. G + 1 = F => L * F = L * (G + 1)
      OBVIOUS
    <3>2. QED
      BY <1>1, <2>2, <3>1
  <2>6. QED
    BY <2>3, <2>4, <2>5
<1> HIDE DEF f, g, F, G, c, e
<1>7. c \in 1 .. L /\ e \in 1 .. L
  BY <1>2, <1>3
<1>8. /\ G = F => e = c + (i - m)
      /\ G = F + 1 => e = c + (i - m) - L
      /\ G + 1 = F => e = c + (i - m) + L
  BY <1>4, <1>5, <1>6, <1>7
<1>9. /\ G >= F + 2 => i - m > L
      /\ G + 2 <= F => m - i > L
  BY <1>4, <1>5, <1>6, <1>7
<1>10. QED
  BY <1>1, <1>7, <1>8, <1>9 DEF Placed

\* Every inhabited set of natural numbers has a least element.
LEMMA LeastNumber ==
  ASSUME NEW T \in SUBSET Nat, T # {}
  PROVE  \E x \in T : \A y \in T : x <= y
<1> DEFINE R == OpToRel(<, Nat)
<1>1. IsWellFoundedOn(R, Nat)
  BY NatLessThanWellFounded
<1>2. R = {ss \in Nat \X Nat : ss[1] < ss[2]}
  BY DEF OpToRel
<1> HIDE DEF R
<1>3. \E x \in T : \A y \in T : ~(<<y, x>> \in R)
  BY <1>1, WFMin
<1>4. PICK x \in T : \A y \in T : ~(<<y, x>> \in R)
  BY <1>3
<1>5. ASSUME NEW y \in T PROVE x <= y
  <2>1. ~(<<y, x>> \in {ss \in Nat \X Nat : ss[1] < ss[2]})
    BY <1>2, <1>4
  <2>2. ~(y < x)
    BY <2>1
  <2>3. QED
    BY <2>2
<1>6. QED
  BY <1>5

\* A set that holds 0 and, with each number, the next one holds them all.
LEMMA SetInduction ==
  ASSUME NEW S, 0 \in S, \A n \in Nat : n \in S => n + 1 \in S
  PROVE  Nat \subseteq S
<1> SUFFICES ASSUME Nat \ S # {} PROVE FALSE
  OBVIOUS
<1>1. PICK x \in Nat \ S : \A y \in Nat \ S : x <= y
  BY LeastNumber
<1>2. x # 0 /\ x - 1 \in Nat
  BY <1>1
<1>3. x - 1 \in S
  BY <1>1, <1>2
<1>4. (x - 1) + 1 \in S
  BY <1>2, <1>3
<1>5. QED
  BY <1>1, <1>4

-----------------------------------------------------------------------------
(* Sets of numbers in order *)

\* The increasing enumerations of a set of numbers.
Enumerations(S, n) ==
  {f \in [1 .. n -> S] : /\ \A i, j \in 1 .. n : i < j => f[i] < f[j]
                         /\ \A x \in S : \E i \in 1 .. n : f[i] = x}

\* Every set of numbers below a bound has one.
LEMMA EnumerationsExist ==
  ASSUME NEW N \in Nat, NEW S \in SUBSET (0 .. (N - 1))
  PROVE  \E n \in Nat : Enumerations(S, n) # {}
<1> DEFINE P(m) == \A T \in SUBSET (0 .. (m - 1)) : \E n \in Nat : Enumerations(T, n) # {}
           Good == {m \in Nat : P(m)}
<1>1. 0 \in Good
  <2>1. ASSUME NEW T \in SUBSET (0 .. (0 - 1)) PROVE \E n \in Nat : Enumerations(T, n) # {}
    <3>1. T = {}
      OBVIOUS
    <3>2. [i \in 1 .. 0 |-> i] \in Enumerations(T, 0)
      BY <3>1 DEF Enumerations
    <3>3. QED
      BY <3>2
  <2>2. QED
    BY <2>1
<1>2. ASSUME NEW m \in Nat, m \in Good PROVE m + 1 \in Good
  <2>1. ASSUME NEW T \in SUBSET (0 .. ((m + 1) - 1)) PROVE \E n \in Nat : Enumerations(T, n) # {}
    <3>1. T \ {m} \in SUBSET (0 .. (m - 1))
      OBVIOUS
    <3>2. PICK n \in Nat : Enumerations(T \ {m}, n) # {}
      BY <1>2, <3>1
    <3>3. PICK f \in Enumerations(T \ {m}, n) : TRUE
      BY <3>2
    <3>4. /\ f \in [1 .. n -> T \ {m}]
          /\ \A i, j \in 1 .. n : i < j => f[i] < f[j]
          /\ \A x \in T \ {m} : \E i \in 1 .. n : f[i] = x
      BY <3>3 DEF Enumerations
    <3>5. CASE m \notin T
      <4>1. T \ {m} = T
        BY <3>5
      <4>2. QED
        BY <3>2, <4>1
    <3>6. CASE m \in T
      <4> DEFINE g == [i \in 1 .. (n + 1) |-> IF i = n + 1 THEN m ELSE f[i]]
      <4>1. g \in [1 .. (n + 1) -> T]
        BY <3>4, <3>6
      <4>2. ASSUME NEW i \in 1 .. (n + 1), NEW j \in 1 .. (n + 1), i < j PROVE g[i] < g[j]
        <5>0. i \in 1 .. n /\ i # n + 1
          BY <4>2
        <5>1. i \in 1 .. n /\ g[i] = f[i] /\ f[i] < m
          <6>1. f[i] \in T \ {m}
            BY <5>0, <3>4
          <6>2. f[i] \in 0 .. (m - 1)
            BY <6>1, <3>1
          <6>3. QED
            BY <5>0, <6>2
        <5>2. CASE j = n + 1
          BY <5>1, <5>2
        <5>3. CASE j # n + 1
          BY <3>4, <4>2, <5>1, <5>3
        <5>4. QED
          BY <5>2, <5>3
      <4>3. ASSUME NEW x \in T PROVE \E i \in 1 .. (n + 1) : g[i] = x
        <5>1. CASE x = m
          <6>1. n + 1 \in 1 .. (n + 1) /\ g[n + 1] = m
            OBVIOUS
          <6>2. QED
            BY <5>1, <6>1
        <5>2. CASE x # m
          <6>1. PICK i \in 1 .. n : f[i] = x
            BY <3>4, <5>2
          <6>2. i \in 1 .. (n + 1) /\ g[i] = x
            BY <6>1
          <6>3. QED
            BY <6>2
        <5>3. QED
          BY <5>1, <5>2
      <4>4. g \in Enumerations(T, n + 1)
        BY <4>1, <4>2, <4>3 DEF Enumerations
      <4>5. QED
        BY <4>4
    <3>7. QED
      BY <3>5, <3>6
  <2>2. QED
    BY <2>1
<1> HIDE DEF Good
<1>3. Nat \subseteq Good
  BY <1>1, <1>2, SetInduction
<1>4. QED
  BY <1>3 DEF Good

LEMMA IncreasingInjective ==
  ASSUME NEW N \in Nat, NEW S \in SUBSET (0 .. (N - 1)), NEW n \in Nat, NEW f \in [1 .. n -> S],
         \A i, j \in 1 .. n : i < j => f[i] < f[j]
  PROVE  f \in Injection(1 .. n, S)
<1>1. ASSUME NEW i \in 1 .. n, NEW j \in 1 .. n, f[i] = f[j] PROVE i = j
  <2>1. i < j \/ j < i \/ i = j
    OBVIOUS
  <2>2. f[i] \in S /\ f[j] \in S
    OBVIOUS
  <2>3. f[i] \in 0 .. (N - 1) /\ f[j] \in 0 .. (N - 1)
    BY <2>2
  <2>4. f[i] \in Int /\ f[j] \in Int
    BY <2>3
  <2>5. QED
    BY <1>1, <2>1, <2>4
<1>2. QED
  BY <1>1 DEF Injection, IsInjective

\* What Ascending(S) is: all of S, in order.
LEMMA AscendingOrder ==
  ASSUME NEW N \in Nat, NEW S \in SUBSET (0 .. (N - 1))
  PROVE  /\ Cardinality(S) \in Nat
         /\ Ascending(S) \in [1 .. Cardinality(S) -> S]
         /\ \A i, j \in 1 .. Cardinality(S) : i < j => Ascending(S)[i] < Ascending(S)[j]
         /\ \A x \in S : \E i \in 1 .. Cardinality(S) : Ascending(S)[i] = x
<1>1. PICK n \in Nat : Enumerations(S, n) # {}
  BY EnumerationsExist
<1>2. PICK f \in Enumerations(S, n) : TRUE
  BY <1>1
<1>3. /\ f \in [1 .. n -> S]
      /\ \A i, j \in 1 .. n : i < j => f[i] < f[j]
      /\ \A x \in S : \E i \in 1 .. n : f[i] = x
  BY <1>2 DEF Enumerations
<1>4. f \in Injection(1 .. n, S) /\ f \in Surjection(1 .. n, S)
  BY <1>3, IncreasingInjective DEF Surjection
<1>5. ExistsBijection(1 .. n, S)
  BY <1>4 DEF ExistsBijection, Bijection
<1>6. Cardinality(S) = n
  BY <1>5, FS_CountingElements
<1>7. \E g \in [1 .. Cardinality(S) -> S] : \A i, j \in DOMAIN g : i < j => g[i] < g[j]
  BY <1>3, <1>6
<1>8. /\ Ascending(S) \in [1 .. n -> S]
      /\ \A i, j \in DOMAIN Ascending(S) : i < j => Ascending(S)[i] < Ascending(S)[j]
  BY <1>6, <1>7 DEF Ascending
<1>9. \A x \in S : \E i \in 1 .. n : Ascending(S)[i] = x
  <2> DEFINE g == Ascending(S)
  <2>1. g \in [1 .. n -> S] /\ \A i, j \in 1 .. n : i < j => g[i] < g[j]
    BY <1>8
  <2> HIDE DEF g
  <2>2. g \in Injection(1 .. n, S)
    BY <2>1, IncreasingInjective
  <2>3. IsFiniteSet(1 .. n) /\ Cardinality(1 .. n) = n
    BY FS_Interval
  <2>4. IsFiniteSet(S)
    BY <1>4, <2>3, FS_Surjection
  <2>5. g \in Surjection(1 .. n, S)
    BY <1>6, <2>2, <2>3, <2>4, FS_Injection
  <2>6. QED
    BY <2>5 DEF Surjection, g
<1>10. QED
  BY <1>6, <1>8, <1>9

\* A filtered list: the places its items had before rise.
LEMMA PickedItems ==
  ASSUME NEW V, NEW q \in Seq(V), NEW S \in SUBSET DOMAIN q
  PROVE  /\ Picked(q, S) \in Seq(V)
         /\ \E f \in [DOMAIN Picked(q, S) -> S] :
              /\ \A k \in DOMAIN Picked(q, S) : Picked(q, S)[k] = q[f[k]]
              /\ \A j, k \in DOMAIN Picked(q, S) : j < k => f[j] < f[k]
<1> DEFINE N == Len(q) + 1
           f == Ascending(S)
           p == [k \in DOMAIN f |-> q[f[k]]]
           n == Cardinality(S)
<1>1. N \in Nat /\ S \in SUBSET (0 .. (N - 1))
  OBVIOUS
<1>2. n \in Nat /\ f \in [1 .. n -> S] /\ \A i, j \in 1 .. n : i < j => f[i] < f[j]
  BY <1>1, AscendingOrder
<1>3. Picked(q, S) = p
  BY DEF Picked
<1> HIDE DEF f, n
<1>4. DOMAIN p = 1 .. n /\ p \in [1 .. n -> V]
  BY <1>2
<1>5. p \in Seq(V)
  BY <1>2, <1>4
<1>6. QED
  BY <1>2, <1>3, <1>4, <1>5

-----------------------------------------------------------------------------
(* How many: Cardinality under a name of its own, for the modules that reach it *)
(* through BagsExt too, where the provers take the two for different operators. *)

Finite(S) == IsFiniteSet(S)
Count(S)  == Cardinality(S)

LEMMA CountNone == Finite({}) /\ Count({}) = 0
BY FS_EmptySet DEF Finite, Count

LEMMA CountNat ==
  ASSUME NEW S, Finite(S)
  PROVE  Count(S) \in Nat /\ (Count(S) = 0 <=> S = {})
BY FS_CardinalityType, FS_EmptySet DEF Finite, Count

LEMMA CountMore ==
  ASSUME NEW S, Finite(S), NEW x, x \notin S
  PROVE  Finite(S \cup {x}) /\ Count(S \cup {x}) = Count(S) + 1
BY FS_AddElement DEF Finite, Count

LEMMA CountLess ==
  ASSUME NEW S, Finite(S), NEW x \in S
  PROVE  Finite(S \ {x}) /\ Count(S \ {x}) = Count(S) - 1
BY FS_RemoveElement DEF Finite, Count

LEMMA CountPart ==
  ASSUME NEW S, Finite(S), NEW T, T \subseteq S
  PROVE  Finite(T) /\ Count(T) <= Count(S)
BY FS_Subset DEF Finite, Count

LEMMA CountTwo ==
  ASSUME NEW S, Finite(S), NEW T, Finite(T), S \cap T = {}
  PROVE  Finite(S \cup T) /\ Count(S \cup T) = Count(S) + Count(T)
<1>1. Cardinality(S \cap T) = 0 /\ Cardinality(S) \in Nat /\ Cardinality(T) \in Nat
  BY FS_EmptySet, FS_CardinalityType DEF Finite
<1>2. Cardinality(S \cup T) = Cardinality(S) + Cardinality(T) - Cardinality(S \cap T)
  BY FS_Union DEF Finite
<1>3. QED
  BY <1>1, <1>2, FS_Union DEF Finite, Count

LEMMA CountRange ==
  ASSUME NEW m \in Int, NEW n \in Int
  PROVE  Finite(m .. n) /\ Count(m .. n) = IF m > n THEN 0 ELSE n - m + 1
BY FS_Interval DEF Finite, Count

-----------------------------------------------------------------------------
(* Sequences *)

\* What Append adds to a range, and what Head and Tail take from it.
LEMMA AppendRange ==
  ASSUME NEW S, NEW w \in Seq(S), NEW x
  PROVE  Range(Append(w, x)) = Range(w) \cup {x}
<1> DEFINE v == Append(w, x)
<1>1. /\ Len(w) \in Nat /\ DOMAIN w = 1 .. Len(w) /\ DOMAIN v = 1 .. (Len(w) + 1)
      /\ v[Len(w) + 1] = x /\ \A i \in 1 .. Len(w) : v[i] = w[i]
  OBVIOUS
<1> HIDE DEF v
<1>2. Range(v) = Range(w) \cup {x}
  BY <1>1 DEF Range
<1>3. QED
  BY <1>2 DEF v

LEMMA HeadTailRange ==
  ASSUME NEW S, NEW w \in Seq(S), w # <<>>
  PROVE  /\ Head(w) \in Range(w)
         /\ Range(Tail(w)) \subseteq Range(w)
BY DEF Range

\* The number of places of a sequence something is at.
LEMMA AtMostOnce ==
  ASSUME NEW S, NEW w \in Seq(S), \A i, j \in DOMAIN w : w[i] = w[j] => i = j, NEW b
  PROVE  /\ Cardinality({i \in DOMAIN w : w[i] = b}) \in {0, 1}
         /\ b \notin Range(w) => Cardinality({i \in DOMAIN w : w[i] = b}) = 0
<1>1. CASE b \in Range(w)
  <2>1. PICK k \in DOMAIN w : w[k] = b
    BY <1>1 DEF Range
  <2>2. {i \in DOMAIN w : w[i] = b} = {k}
    BY <2>1
  <2>3. QED
    BY <1>1, <2>2, FS_Singleton
<1>2. CASE b \notin Range(w)
  <2>1. {i \in DOMAIN w : w[i] = b} = {}
    BY <1>2 DEF Range
  <2>2. QED
    BY <2>1, FS_EmptySet
<1>3. QED
  BY <1>1, <1>2
=============================================================================
