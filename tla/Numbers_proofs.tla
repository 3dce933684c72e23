----------------------------- MODULE Numbers_proofs ----------------------------
(***************************************************************************)
(* Lemmas about numbers that the theorems of several components cite: the  *)
(* least and greatest of a set, products and quotients, induction,         *)
(* functions defined by recursion over numbers, and finite sets lined up   *)
(* by their keys.                                                          *)
(***************************************************************************)
EXTENDS Integers, FiniteSetsExt, Functions, FiniteSetTheorems, WellFoundedInduction, TLAPS

\* A set of numbers that is not empty has a least one, and a greatest if it is bounded.
LEMMA LeastNumber ==
    ASSUME NEW S \in SUBSET Nat, S # {} PROVE \E x \in S : \A y \in S : x <= y
  <1>1. PICK x \in S : \A y \in S : ~(<<y, x>> \in OpToRel(<, Nat))
    BY NatLessThanWellFounded, WFMin
  <1>2. \A y \in S : ~(y < x)
    BY <1>1 DEF OpToRel
  <1>3. QED
    BY <1>2

LEMMA MinOf ==
    ASSUME NEW S \in SUBSET Nat, S # {} PROVE Min(S) \in S /\ \A y \in S : Min(S) <= y
  <1>1. \E x \in S : \A y \in S : x <= y
    BY LeastNumber
  <1>2. QED
    BY <1>1 DEF Min

LEMMA GreatestNumber ==
    ASSUME NEW n \in Nat, NEW S \in SUBSET (1 .. n), S # {} PROVE \E x \in S : \A y \in S : y <= x
  <1> DEFINE Below == {n - x : x \in S}
  <1>1. Below \in SUBSET Nat /\ Below # {}
    <2>1. \A x \in 1 .. n : n - x \in Nat
      OBVIOUS
    <2>2. \A x \in S : n - x \in Nat
      BY <2>1
    <2>3. QED
      BY <2>2
  <1>2. PICK d \in Below : \A y \in Below : d <= y
    BY <1>1, LeastNumber
  <1>3. PICK x \in S : d = n - x
    BY <1>2
  <1>4. \A y \in S : n - y \in Below
    OBVIOUS
  <1>5. \A y \in S : n - x <= n - y
    <2> HIDE DEF Below
    <2>1. QED
      BY <1>2, <1>3, <1>4
  <1>6. \A y \in S : y <= x
    BY <1>5
  <1>7. QED
    BY <1>6

\* A bounded set of numbers has the greatest one that Max names.
LEMMA MaxOf ==
    ASSUME NEW n \in Nat, NEW S \in SUBSET (1 .. n), S # {} PROVE Max(S) \in S /\ \A y \in S : y <= Max(S)
  <1>1. \E x \in S : \A y \in S : y <= x
    BY GreatestNumber
  <1>2. \A x, y \in S : y <= x <=> x >= y
    OBVIOUS
  <1>3. \E x \in S : \A y \in S : x >= y
    BY <1>1, <1>2
  <1>4. Max(S) \in S /\ \A y \in S : Max(S) >= y
    BY <1>3 DEF Max
  <1>5. QED
    BY <1>2, <1>4

\* Induction, on a set of numbers.
LEMMA AllNumbers ==
    ASSUME NEW S \in SUBSET Nat, 0 \in S, \A n \in S : n + 1 \in S PROVE \A n \in Nat : n \in S
  <1> DEFINE Left == {n \in Nat : n \notin S}
  <1> SUFFICES ASSUME Left # {} PROVE FALSE
    OBVIOUS
  <1>1. PICK n \in Left : \A m \in Left : n <= m
    BY LeastNumber
  <1>2. n # 0 /\ n - 1 \in Nat /\ n - 1 \notin Left
    BY <1>1
  <1>3. (n - 1) + 1 \in S /\ (n - 1) + 1 = n
    BY <1>1, <1>2
  <1>4. QED
    BY <1>1, <1>3

\* The functions that go from a first value through n steps.
Runs(X, x0, next, n) ==
    {g \in [0 .. n -> X] : g[0] = x0 /\ \A i \in 1 .. n : g[i] = next[<<i, g[i - 1]>>]}

\* Whatever the first value and the step, there is one.
LEMMA StepByStep ==
    ASSUME NEW X, NEW x0 \in X, NEW next \in [Nat \X X -> X]
    PROVE  \A n \in Nat : Runs(X, x0, next, n) # {}
  <1> DEFINE Good == {n \in Nat : Runs(X, x0, next, n) # {}}
  <1>1. 0 \in Good
    <2>1. [i \in 0 .. 0 |-> x0] \in Runs(X, x0, next, 0)
      BY DEF Runs
    <2>2. QED
      BY <2>1
  <1>2. ASSUME NEW n \in Good PROVE n + 1 \in Good
    <2>1. PICK g \in [0 .. n -> X] : g[0] = x0 /\ \A i \in 1 .. n : g[i] = next[<<i, g[i - 1]>>]
      BY <1>2 DEF Runs
    <2>2. n \in Nat /\ n + 1 \in Nat /\ n \in 0 .. n
      BY <1>2
    <2> HIDE DEF Good
    <2> DEFINE h == [i \in 0 .. n + 1 |-> IF i = n + 1 THEN next[<<n + 1, g[n]>>] ELSE g[i]]
    <2>3. next[<<n + 1, g[n]>>] \in X
      BY <2>1, <2>2
    <2>4. \A i \in 0 .. n + 1 : i = n + 1 \/ i \in 0 .. n
      BY <2>2
    <2>5. h \in [0 .. n + 1 -> X]
      BY <2>1, <2>3, <2>4
    <2>6. h[0] = x0 /\ h[n + 1] = next[<<n + 1, g[n]>>] /\ \A i \in 0 .. n : h[i] = g[i]
      <3>1. /\ 0 \in 0 .. n /\ 0 \in 0 .. n + 1 /\ 0 # n + 1 /\ n + 1 \in 0 .. n + 1
            /\ \A i \in 0 .. n : i \in 0 .. n + 1 /\ i # n + 1
        BY <2>2
      <3>2. \A i \in 0 .. n + 1 : h[i] = IF i = n + 1 THEN next[<<n + 1, g[n]>>] ELSE g[i]
        OBVIOUS
      <3> HIDE DEF h
      <3>3. QED
        BY <2>1, <3>1, <3>2
    <2> HIDE DEF h
    <2>7. ASSUME NEW i \in 1 .. n + 1 PROVE h[i] = next[<<i, h[i - 1]>>]
      <3>1. i - 1 \in 0 .. n /\ (i = n + 1 \/ (i \in 1 .. n /\ i \in 0 .. n))
        BY <2>2
      <3>2. h[i - 1] = g[i - 1]
        BY <2>6, <3>1
      <3>3. CASE i = n + 1
        <4>1. i - 1 = n
          BY <2>2, <3>3
        <4>2. QED
          BY <2>6, <3>2, <3>3, <4>1
      <3>4. CASE i \in 1 .. n /\ i \in 0 .. n
        BY <2>1, <2>6, <3>2, <3>4
      <3>5. QED
        BY <3>1, <3>3, <3>4
    <2>8. h \in Runs(X, x0, next, n + 1)
      BY <2>5, <2>6, <2>7 DEF Runs
    <2>9. QED
      BY <2>2, <2>8 DEF Good
  <1>3. Good \in SUBSET Nat
    OBVIOUS
  <1> HIDE DEF Good
  <1>4. \A n \in Nat : n \in Good
    BY <1>1, <1>2, <1>3, AllNumbers
  <1>5. QED
    BY <1>4 DEF Good

-------------------------------------------------------------------------------
(* Finite sets in an order. *)

\* The ways to line up a set by falling keys.
Falling(S, key) ==
    {s \in Bijection(1 .. Cardinality(S), S) : \A i, j \in 1 .. Cardinality(S) : i < j => key[s[i]] > key[s[j]]}

LEMMA LastAndRest ==
    ASSUME NEW n \in Nat, NEW T, NEW x \in T, NEW s0 \in Bijection(1 .. n, T \ {x})
    PROVE  [i \in 1 .. n + 1 |-> IF i = n + 1 THEN x ELSE s0[i]] \in Bijection(1 .. n + 1, T)
  <1> DEFINE s == [i \in 1 .. n + 1 |-> IF i = n + 1 THEN x ELSE s0[i]]
  <1>1. /\ s0 \in [1 .. n -> T \ {x}]
        /\ \A i, j \in 1 .. n : s0[i] = s0[j] => i = j
        /\ \A t \in T \ {x} : \E i \in 1 .. n : s0[i] = t
    BY DEF Bijection, Injection, Surjection, IsInjective
  <1>2. \A i \in 1 .. n + 1 : (i = n + 1) # (i \in 1 .. n)
    OBVIOUS
  <1>3. n + 1 \in 1 .. n + 1 /\ \A i \in 1 .. n : i \in 1 .. n + 1
    OBVIOUS
  <1>4. s[n + 1] = x /\ \A i \in 1 .. n : s[i] = s0[i]
    BY <1>2, <1>3
  <1>5. s \in [1 .. n + 1 -> T]
    BY <1>1, <1>2
  <1> HIDE DEF s
  <1>6. \A i, j \in 1 .. n + 1 : s[i] = s[j] => i = j
    <2> TAKE i, j \in 1 .. n + 1
    <2>1. CASE i \in 1 .. n /\ j \in 1 .. n
      BY <1>1, <1>4, <2>1
    <2>2. CASE i = n + 1 /\ j = n + 1
      BY <2>2
    <2>3. CASE i = n + 1 /\ j \in 1 .. n
      BY <1>1, <1>4, <2>3
    <2>4. CASE j = n + 1 /\ i \in 1 .. n
      BY <1>1, <1>4, <2>4
    <2>5. QED
      BY <1>2, <2>1, <2>2, <2>3, <2>4
  <1>7. \A t \in T : \E i \in 1 .. n + 1 : s[i] = t
    <2> TAKE t \in T
    <2>1. CASE t = x
      BY <1>3, <1>4, <2>1
    <2>2. CASE t # x
      <3>1. PICK i \in 1 .. n : s0[i] = t
        BY <1>1, <2>2
      <3>2. QED
        BY <1>3, <1>4, <3>1
    <2>3. QED
      BY <2>1, <2>2
  <1>8. DOMAIN s = 1 .. n + 1
    BY <1>5
  <1>9. s \in Bijection(1 .. n + 1, T)
    BY <1>5, <1>6, <1>7, <1>8 DEF Bijection, Injection, Surjection, IsInjective
  <1>10. QED
    BY <1>9 DEF s

\* A finite set whose members have keys of their own can be lined up by falling keys.
LEMMA FallingExists ==
    ASSUME NEW S, IsFiniteSet(S), NEW key \in [S -> Nat], \A x, y \in S : key[x] = key[y] => x = y
    PROVE  Falling(S, key) # {}
  <1> DEFINE Good == {n \in Nat : \A T \in SUBSET S : Cardinality(T) = n => Falling(T, key) # {}}
  <1>1. 0 \in Good
    <2> SUFFICES ASSUME NEW T \in SUBSET S, Cardinality(T) = 0 PROVE Falling(T, key) # {}
      OBVIOUS
    <2>1. T = {}
      BY FS_Subset, FS_EmptySet
    <2>2. 1 .. 0 = {}
      OBVIOUS
    <2> DEFINE s == [i \in 1 .. 0 |-> 0]
    <2>3. s \in Bijection(1 .. 0, T) /\ \A i \in 1 .. 0 : FALSE
      BY <2>1, <2>2 DEF Bijection, Injection, Surjection, IsInjective
    <2> HIDE DEF s
    <2>4. s \in Falling(T, key)
      BY <2>3 DEF Falling
    <2>5. QED
      BY <2>4
  <1>2. ASSUME NEW n \in Good PROVE n + 1 \in Good
    <2>1. n \in Nat /\ n + 1 \in Nat
      OBVIOUS
    <2> SUFFICES ASSUME NEW T \in SUBSET S, Cardinality(T) = n + 1 PROVE Falling(T, key) # {}
      BY <2>1
    <2>2. IsFiniteSet(T) /\ T # {}
      BY <2>1, FS_Subset, FS_EmptySet
    <2> DEFINE K == {key[x] : x \in T}
    <2>3. K \in SUBSET Nat /\ K # {}
      BY <2>2
    <2>4. PICK k \in K : \A y \in K : k <= y
      BY <2>3, LeastNumber
    <2>5. PICK x \in T : key[x] = k
      BY <2>4
    <2>6. \A y \in T \ {x} : key[y] > key[x]
      <3> TAKE y \in T \ {x}
      <3>1. key[y] \in K /\ key[y] \in Nat /\ key[x] \in Nat /\ key[y] # key[x]
        OBVIOUS
      <3> HIDE DEF K
      <3>2. QED
        BY <2>4, <2>5, <3>1
    <2>7. Cardinality(T \ {x}) = n /\ T \ {x} \in SUBSET S
      <3>1. Cardinality(T \ {x}) = Cardinality(T) - 1
        BY <2>2, <2>5, FS_RemoveElement
      <3>2. (n + 1) - 1 = n
        BY <2>1
      <3>3. QED
        BY <3>1, <3>2
    <2>8. PICK s0 \in Bijection(1 .. n, T \ {x}) : \A i, j \in 1 .. n : i < j => key[s0[i]] > key[s0[j]]
      BY <2>7 DEF Falling
    <2> DEFINE s == [i \in 1 .. n + 1 |-> IF i = n + 1 THEN x ELSE s0[i]]
    <2>9. s \in Bijection(1 .. n + 1, T)
      BY <2>1, <2>8, LastAndRest
    <2>10. s[n + 1] = x /\ \A i \in 1 .. n : s[i] = s0[i] /\ s0[i] \in T \ {x}
      <3>1. n + 1 \in 1 .. n + 1 /\ \A i \in 1 .. n : i \in 1 .. n + 1 /\ i # n + 1
        BY <2>1
      <3>2. \A i \in 1 .. n : s0[i] \in T \ {x}
        BY <2>8 DEF Bijection, Injection
      <3>3. QED
        BY <3>1, <3>2
    <2> HIDE DEF s
    <2>11. \A i, j \in 1 .. n + 1 : i < j => key[s[i]] > key[s[j]]
      <3> SUFFICES ASSUME NEW i \in 1 .. n + 1, NEW j \in 1 .. n + 1, i < j PROVE key[s[i]] > key[s[j]]
        OBVIOUS
      <3>1. i \in 1 .. n /\ (j = n + 1 \/ j \in 1 .. n)
        BY <2>1
      <3>2. QED
        BY <2>6, <2>8, <2>10, <3>1
    <2>12. s \in Falling(T, key)
      BY <2>9, <2>11 DEF Falling
    <2>13. QED
      BY <2>12
  <1>3. Good \in SUBSET Nat
    OBVIOUS
  <1> HIDE DEF Good
  <1>4. Cardinality(S) \in Good
    BY <1>1, <1>2, <1>3, AllNumbers, FS_CardinalityType
  <1>5. QED
    BY <1>4 DEF Good

\* The ways to line up a set by rising keys, of which there is one too.
Rising(S, key) ==
    {s \in Bijection(1 .. Cardinality(S), S) : \A i, j \in 1 .. Cardinality(S) : i < j => key[s[i]] < key[s[j]]}

LEMMA RisingExists ==
    ASSUME NEW S, IsFiniteSet(S), NEW key \in [S -> Nat], \A x, y \in S : key[x] = key[y] => x = y
    PROVE  Rising(S, key) # {}
  <1>1. PICK n \in Nat : n = Cardinality(S)
    BY FS_CardinalityType
  <1>2. PICK s \in Bijection(1 .. n, S) : \A i, j \in 1 .. n : i < j => key[s[i]] > key[s[j]]
    BY <1>1, FallingExists DEF Falling
  <1>3. /\ s \in [1 .. n -> S]
        /\ \A i, j \in 1 .. n : s[i] = s[j] => i = j
        /\ \A t \in S : \E i \in 1 .. n : s[i] = t
    BY <1>2 DEF Bijection, Injection, Surjection, IsInjective
  <1>4. \A i \in 1 .. n : n + 1 - i \in 1 .. n /\ n + 1 - (n + 1 - i) = i
    OBVIOUS
  <1> DEFINE r == [i \in 1 .. n |-> s[n + 1 - i]]
  <1>5. r \in [1 .. n -> S] /\ \A i \in 1 .. n : r[i] = s[n + 1 - i]
    BY <1>3, <1>4
  <1> HIDE DEF r
  <1>6. \A i, j \in 1 .. n : r[i] = r[j] => i = j
    <2> SUFFICES ASSUME NEW i \in 1 .. n, NEW j \in 1 .. n, r[i] = r[j] PROVE i = j
      OBVIOUS
    <2>1. n + 1 - i = n + 1 - j
      BY <1>3, <1>4, <1>5
    <2>2. QED
      BY <2>1
  <1>7. \A t \in S : \E i \in 1 .. n : r[i] = t
    <2> TAKE t \in S
    <2>1. PICK i \in 1 .. n : s[i] = t
      BY <1>3
    <2>2. n + 1 - i \in 1 .. n /\ r[n + 1 - i] = t
      BY <1>4, <1>5, <2>1
    <2>3. QED
      BY <2>2
  <1>8. \A i, j \in 1 .. n : i < j => key[r[i]] < key[r[j]]
    <2> SUFFICES ASSUME NEW i \in 1 .. n, NEW j \in 1 .. n, i < j PROVE key[r[i]] < key[r[j]]
      OBVIOUS
    <2>1. n + 1 - j < n + 1 - i
      OBVIOUS
    <2>2. key[s[n + 1 - j]] > key[s[n + 1 - i]]
      BY <1>2, <1>4, <2>1
    <2>3. key[s[n + 1 - j]] \in Nat /\ key[s[n + 1 - i]] \in Nat
      BY <1>3, <1>4
    <2>4. QED
      BY <1>5, <2>2, <2>3
  <1>9. DOMAIN r = 1 .. n
    BY <1>5
  <1>10. r \in Bijection(1 .. n, S)
    BY <1>5, <1>6, <1>7, <1>9 DEF Bijection, Injection, Surjection, IsInjective
  <1>11. r \in Rising(S, key)
    BY <1>1, <1>8, <1>10 DEF Rising
  <1>12. QED
    BY <1>11

\* A finite set of numbers has a greatest, which Max names.
LEMMA MaxOfFinite ==
    ASSUME NEW S \in SUBSET Nat, IsFiniteSet(S), S # {} PROVE Max(S) \in S /\ \A y \in S : y <= Max(S)
  <1>1. PICK size \in [S -> Nat] : \A x \in S : size[x] = x
    <2>1. [x \in S |-> x] \in [S -> Nat] /\ \A x \in S : [y \in S |-> y][x] = x
      OBVIOUS
    <2>2. QED
      BY <2>1
  <1>2. PICK n \in Nat : n = Cardinality(S)
    BY FS_CardinalityType
  <1>3. PICK s \in Bijection(1 .. n, S) : \A i, j \in 1 .. n : i < j => size[s[i]] > size[s[j]]
    <2>1. \A x, y \in S : size[x] = size[y] => x = y
      BY <1>1
    <2>2. Falling(S, size) # {}
      BY <2>1, FallingExists
    <2>3. QED
      BY <1>2, <2>2 DEF Falling
  <1>4. s \in [1 .. n -> S] /\ \A t \in S : \E i \in 1 .. n : s[i] = t
    BY <1>3 DEF Bijection, Injection, Surjection
  <1>5. n > 0 /\ 1 \in 1 .. n
    <2>1. PICK y \in S : TRUE
      OBVIOUS
    <2>2. PICK i \in 1 .. n : s[i] = y
      BY <1>4
    <2>3. QED
      BY <2>2
  <1>6. s[1] \in S
    BY <1>4, <1>5
  <1>7. \A y \in S : y <= s[1]
    <2> TAKE y \in S
    <2>1. PICK i \in 1 .. n : s[i] = y
      BY <1>4
    <2>2. CASE i = 1
      BY <2>1, <2>2
    <2>3. CASE i # 1
      <3>1. size[s[1]] > size[s[i]]
        BY <1>3, <1>5, <2>3
      <3>2. size[s[1]] = s[1] /\ size[s[i]] = y /\ s[1] \in Nat /\ y \in Nat
        BY <1>1, <1>6, <2>1
      <3>3. QED
        BY <3>1, <3>2
    <2>4. QED
      BY <2>2, <2>3
  <1>8. \E x \in S : \A y \in S : x >= y
    <2>1. \A y \in S : s[1] >= y
      BY <1>6, <1>7
    <2>2. QED
      BY <1>6, <2>1
  <1>9. PICK m : m = Max(S)
    OBVIOUS
  <1>10. m \in S /\ \A y \in S : m >= y
    BY <1>8, <1>9 DEF Max
  <1>11. \A y \in S : y <= m
    BY <1>10
  <1>12. QED
    BY <1>9, <1>10, <1>11

\* A greater factor makes a product no smaller.
LEMMA ProductsKeepOrder ==
    ASSUME NEW a \in Nat, NEW b \in Nat, NEW c \in Nat, a <= b PROVE a * c <= b * c /\ c * a <= c * b
  OBVIOUS

\* A quotient is the largest number of times the divisor fits.
LEMMA QuotientIsLargest ==
    ASSUME NEW a \in Nat, NEW b \in Nat \ {0}, NEW k \in Nat
    PROVE  /\ a \div b \in Nat /\ (a \div b) * b <= a /\ a < (a \div b + 1) * b
           /\ k <= a \div b <=> k * b <= a
  <1>1. PICK q : q = a \div b
    OBVIOUS
  <1>2. q \in Nat /\ q * b <= a /\ a < (q + 1) * b
    BY <1>1
  <1>3. k <= q => k * b <= a
    <2> SUFFICES ASSUME k <= q PROVE k * b <= a
      OBVIOUS
    <2>1. k * b <= q * b
      BY <1>2, ProductsKeepOrder
    <2>2. QED
      BY <1>2, <2>1
  <1>4. ~(k <= q) => ~(k * b <= a)
    <2> SUFFICES ASSUME ~(k <= q) PROVE ~(k * b <= a)
      OBVIOUS
    <2>1. q + 1 <= k /\ q + 1 \in Nat
      BY <1>2
    <2>2. (q + 1) * b <= k * b
      BY <2>1, ProductsKeepOrder
    <2>3. (q + 1) * b \in Nat /\ k * b \in Nat
      BY <1>2
    <2>4. QED
      BY <1>2, <2>2, <2>3
  <1>5. QED
    BY <1>1, <1>2, <1>3, <1>4

===============================================================================
