------------------------------ MODULE Induction -----------------------------
(***************************************************************************)
(* Induction over numbers and finite sets, and recursion over an interval, *)
(* for first-order provers: what is to be shown is a set, not an operator, *)
(* and a step of the recursion is a function.  Then the arithmetic of      *)
(* products, quotients and powers that rests on it.                        *)
(***************************************************************************)
EXTENDS Integers, WellFoundedInduction, FiniteSetTheorems, TLAPS

\* A set of naturals with 0 and every successor is all of them.
LEMMA NaturalInduction ==
  ASSUME NEW S \in SUBSET Nat, 0 \in S, \A n \in S : n + 1 \in S
  PROVE  S = Nat
<1> DEFINE Less == OpToRel(<, Nat)
<1>1. IsWellFoundedOn(Less, Nat)
  BY NatLessThanWellFounded
<1>2. \A m, n \in Nat : m < n => <<m, n>> \in Less
  BY DEF OpToRel
<1> HIDE DEF Less
<1>3. ASSUME Nat \ S # {} PROVE FALSE
  <2>1. PICK n \in Nat \ S : \A m \in Nat \ S : ~ (<<m, n>> \in Less)
    BY <1>1, <1>3, WFMin
  <2>2. n - 1 \in Nat /\ n - 1 < n
    OBVIOUS
  <2>3. n - 1 \in S
    BY <1>2, <2>1, <2>2
  <2> QED
    BY <2>1, <2>3
<1> QED
  BY <1>3

\* A set of naturals with every number whose predecessors it has is all of them,
LEMMA CompleteInduction ==
  ASSUME NEW S \in SUBSET Nat, \A n \in Nat : (\A m \in 0..(n - 1) : m \in S) => n \in S
  PROVE  S = Nat
<1> DEFINE T == {n \in Nat : \A m \in 0..(n - 1) : m \in S}
<1>1. 0 \in T
  OBVIOUS
<1>2. ASSUME NEW n \in T PROVE n + 1 \in T
  <2>1. n \in Nat /\ n \in S
    OBVIOUS
  <2>2. \A m \in 0..((n + 1) - 1) : m \in 0..(n - 1) \/ m = n
    BY <2>1
  <2> QED
    BY <2>1, <2>2
<1>3. T = Nat
  <2> HIDE DEF T
  <2>1. T \in SUBSET Nat
    BY DEF T
  <2> QED
    BY <1>1, <1>2, <2>1, NaturalInduction
<1> QED
  BY <1>3

\* and one that is not empty has a least element.
LEMMA LeastElement ==
  ASSUME NEW S \in SUBSET Nat, S # {}
  PROVE  \E n \in S : \A m \in S : n <= m
<1> DEFINE C == Nat \ S
<1>1. SUFFICES ASSUME \A n \in S : \E m \in S : m < n PROVE FALSE
  OBVIOUS
<1>2. ASSUME NEW n \in Nat, \A m \in 0..(n - 1) : m \in C PROVE n \in C
  <2>1. SUFFICES ASSUME n \in S PROVE FALSE
    OBVIOUS
  <2>2. PICK m \in S : m < n
    BY <1>1, <2>1
  <2>3. m \in 0..(n - 1)
    BY <2>2
  <2> QED
    BY <1>2, <2>3
<1>3. C = Nat
  <2>1. C \in SUBSET Nat
    OBVIOUS
  <2> HIDE DEF C
  <2> QED
    BY <1>2, <2>1, CompleteInduction
<1> QED
  BY <1>3

\* An interval lies in a set with its first element and every successor.
LEMMA IntervalInduction ==
  ASSUME NEW N \in Nat, NEW S, 0 \in S, \A n \in 0..(N - 1) : n \in S => n + 1 \in S
  PROVE  0..N \subseteq S
<1> DEFINE T == {n \in Nat : n <= N => n \in S}
<1>1. 0 \in T
  OBVIOUS
<1>2. \A n \in T : n + 1 \in T
  OBVIOUS
<1>3. T = Nat
  <2> HIDE DEF T
  <2>1. T \in SUBSET Nat
    BY DEF T
  <2> QED
    BY <1>1, <1>2, <2>1, NaturalInduction
<1> QED
  BY <1>3

\* A family of subsets of a finite set with the empty one and every extension by an
\* element has the set itself.
LEMMA SubsetInduction ==
  ASSUME NEW S, IsFiniteSet(S), NEW F, {} \in F,
         \A T \in SUBSET S : T \in F => \A x \in S \ T : T \cup {x} \in F
  PROVE  S \in F
<1> DEFINE N == {n \in Nat : \A T \in SUBSET S : Cardinality(T) = n => T \in F}
<1>1. 0 \in N
  BY FS_Subset, FS_EmptySet
<1>2. ASSUME NEW n \in N PROVE n + 1 \in N
  <2>1. ASSUME NEW T \in SUBSET S, Cardinality(T) = n + 1 PROVE T \in F
    <3>1. IsFiniteSet(T)
      BY FS_Subset
    <3>2. T # {}
      BY <2>1, FS_EmptySet
    <3>3. PICK x \in T : TRUE
      BY <3>2
    <3>4. Cardinality(T \ {x}) = n
      <4>1. Cardinality(T \ {x}) = Cardinality(T) - 1
        BY <3>1, <3>3, FS_RemoveElement
      <4>2. n \in Nat
        OBVIOUS
      <4> HIDE DEF N
      <4> QED
        BY <2>1, <4>1, <4>2
    <3>5. T \ {x} \in F
      BY <3>4
    <3>6. T = (T \ {x}) \cup {x}
      OBVIOUS
    <3> QED
      BY <3>5, <3>6
  <2> QED
    BY <2>1
<1>3. N = Nat
  <2> HIDE DEF N
  <2>1. N \in SUBSET Nat
    BY DEF N
  <2> QED
    BY <1>1, <1>2, <2>1, NaturalInduction
<1> QED
  BY <1>3, FS_CardinalityType

\* The steps of a loop over 1..N, each from a value to a value,
IsLoop(step, N, V) == \A n \in 1..N, v \in V : step[n][v] \in V

\* and the values it takes.
Runs(f, first, step, N, V) == /\ f \in [0..N -> V]
                              /\ f[0] = first
                              /\ \A n \in 1..N : f[n] = step[n][f[n - 1]]

\* Every loop runs: recursion over an interval defines a function.
LEMMA Recursion ==
  ASSUME NEW N \in Nat, NEW V, NEW first \in V, NEW step, IsLoop(step, N, V)
  PROVE  \E f : Runs(f, first, step, N, V)
<1> DEFINE S == {k \in 0..N : \E f : Runs(f, first, step, k, V)}
<1>1. 0 \in S
  <2>1. Runs([n \in 0..0 |-> first], first, step, 0, V)
    BY DEF Runs
  <2> QED
    BY <2>1
<1>2. ASSUME NEW k \in 0..(N - 1), k \in S PROVE k + 1 \in S
  <2>1. PICK f : Runs(f, first, step, k, V)
    BY <1>2
  <2> DEFINE g == [n \in 0..(k + 1) |-> IF n = k + 1 THEN step[k + 1][f[k]] ELSE f[n]]
  <2>2. step[k + 1][f[k]] \in V
    <3>1. k + 1 \in 1..N /\ k \in 0..k
      OBVIOUS
    <3>2. f[k] \in V
      BY <2>1, <3>1 DEF Runs
    <3> QED
      BY <3>1, <3>2 DEF IsLoop
  <2>3. g \in [0..(k + 1) -> V]
    BY <2>1, <2>2 DEF Runs
  <2>4. g[0] = first
    BY <2>1 DEF Runs
  <2>5. ASSUME NEW n \in 1..(k + 1) PROVE g[n] = step[n][g[n - 1]]
    <3>1. CASE n = k + 1
      BY <3>1
    <3>2. CASE n \in 1..k
      BY <2>1, <3>2 DEF Runs
    <3> QED
      BY <3>1, <3>2
  <2>6. Runs(g, first, step, k + 1, V)
    BY <2>3, <2>4, <2>5 DEF Runs
  <2> QED
    BY <2>6
<1>3. N \in S
  <2> HIDE DEF S
  <2>1. 0..N \subseteq S
    BY <1>1, <1>2, IntervalInduction
  <2> QED
    BY <2>1
<1> QED
  BY <1>3

\* A loop has one run up to every N,
LEMMA RunUnique ==
  ASSUME NEW N \in Nat, NEW V, NEW first, NEW step, NEW f, NEW g, NEW M \in Nat, N <= M,
         Runs(f, first, step, N, V), Runs(g, first, step, M, V)
  PROVE  \A n \in 0..N : f[n] = g[n]
<1> DEFINE S == {n \in Nat : f[n] = g[n]}
<1>1. 0 \in S
  BY DEF Runs
<1>2. ASSUME NEW n \in 0..(N - 1), n \in S PROVE n + 1 \in S
  <2>1. n + 1 \in 1..N /\ n + 1 \in 1..M /\ (n + 1) - 1 = n
    OBVIOUS
  <2>2. f[n + 1] = step[n + 1][f[n]] /\ g[n + 1] = step[n + 1][g[n]]
    BY <2>1 DEF Runs
  <2> QED
    BY <1>2, <2>2
<1>3. 0..N \subseteq S
  <2> HIDE DEF S
  <2> QED
    BY <1>1, <1>2, IntervalInduction
<1> QED
  BY <1>3

\* and, when it has no end, one without end.
IsEndless(step, V) == \A n \in Nat \ {0}, v \in V : step[n][v] \in V

RunsOn(f, first, step, V) == /\ f \in [Nat -> V]
                             /\ f[0] = first
                             /\ \A n \in Nat \ {0} : f[n] = step[n][f[n - 1]]

\* Recursion over the naturals defines a function.
LEMMA NaturalRecursion ==
  ASSUME NEW V, NEW first \in V, NEW step, IsEndless(step, V)
  PROVE  \E f : RunsOn(f, first, step, V)
<1> DEFINE run(N) == CHOOSE f : Runs(f, first, step, N, V)
           g == [n \in Nat |-> run(n)[n]]
<1>1. ASSUME NEW N \in Nat PROVE Runs(run(N), first, step, N, V)
  <2>1. IsLoop(step, N, V)
    BY DEF IsLoop, IsEndless
  <2> QED
    BY <2>1, Recursion
<1> HIDE DEF run
<1>2. g \in [Nat -> V]
  <2>1. ASSUME NEW n \in Nat PROVE run(n)[n] \in V
    <3>1. n \in 0..n
      OBVIOUS
    <3> QED
      BY <1>1, <3>1 DEF Runs
  <2> QED
    BY <2>1
<1>3. g[0] = first
  BY <1>1 DEF Runs
<1>4. ASSUME NEW n \in Nat \ {0} PROVE g[n] = step[n][g[n - 1]]
  <2>1. n - 1 \in Nat /\ n - 1 <= n /\ n - 1 \in 0..(n - 1) /\ n \in 1..n
    OBVIOUS
  <2>2. Runs(run(n - 1), first, step, n - 1, V) /\ Runs(run(n), first, step, n, V)
    BY <1>1, <2>1
  <2>3. run(n - 1)[n - 1] = run(n)[n - 1]
    BY <2>1, <2>2, RunUnique
  <2>4. run(n)[n] = step[n][run(n)[n - 1]]
    BY <2>1, <2>2 DEF Runs
  <2> QED
    BY <2>1, <2>3, <2>4
<1>5. RunsOn(g, first, step, V)
  <2> HIDE DEF g
  <2> QED
    BY <1>2, <1>3, <1>4 DEF RunsOn
<1> QED
  BY <1>5

-----------------------------------------------------------------------------
\* Products of naturals: order, and division with its remainder.
LEMMA Products ==
  ASSUME NEW a \in Nat, NEW b \in Nat, NEW c \in Nat
  PROVE  /\ a * b \in Nat /\ a * b = b * a
         /\ (a + 1) * c = a * c + c
         /\ a <= b => a * c <= b * c
         /\ a < b /\ c > 0 => a * c < b * c
<1>1. a * b \in Nat /\ a * b = b * a /\ (a + 1) * c = a * c + c
  OBVIOUS
<1>2. ASSUME a <= b PROVE a * c <= b * c
  <2>1. PICK d \in Nat : b = a + d
    <3>1. b - a \in Nat /\ b = a + (b - a)
      BY <1>2
    <3> QED
      BY <3>1
  <2>2. b * c = a * c + d * c /\ d * c \in Nat /\ a * c \in Nat
    BY <2>1
  <2> QED
    BY <2>2
<1>3. ASSUME a < b, c > 0 PROVE a * c < b * c
  <2>1. PICK d \in Nat : b = a + 1 + d
    <3>1. b - a - 1 \in Nat /\ b = a + 1 + (b - a - 1)
      BY <1>3
    <3> QED
      BY <3>1
  <2>2. b * c = a * c + c + d * c /\ d * c \in Nat /\ a * c \in Nat
    BY <2>1
  <2> QED
    BY <1>3, <2>2
<1> QED
  BY <1>1, <1>2, <1>3

LEMMA Division ==
  ASSUME NEW u \in Nat, NEW x \in Nat \ {0}
  PROVE  /\ u \div x \in Nat /\ u % x \in 0..(x - 1)
         /\ u = (u \div x) * x + (u % x)
OBVIOUS

LEMMA Quotient ==
  ASSUME NEW u \in Nat, NEW x \in Nat \ {0}, NEW low \in Nat, NEW high \in Nat,
         low * x <= u, u < high * x
  PROVE  u \div x \in low..(high - 1)
<1> DEFINE q == u \div x
           r == u % x
<1>1. q \in Nat /\ r \in 0..(x - 1) /\ u = q * x + r
  BY Division
<1> HIDE DEF q, r
<1>2. q >= low
  <2>1. SUFFICES ASSUME q + 1 <= low PROVE FALSE
    BY <1>1
  <2>2. (q + 1) * x <= low * x /\ (q + 1) * x = q * x + x
    BY <1>1, <2>1, Products
  <2>3. q * x \in Nat /\ low * x \in Nat
    BY <1>1
  <2> QED
    BY <1>1, <2>2, <2>3
<1>3. q < high
  <2>1. SUFFICES ASSUME high <= q PROVE FALSE
    BY <1>1
  <2>2. high * x <= q * x
    BY <1>1, <2>1, Products
  <2>3. q * x \in Nat /\ high * x \in Nat
    BY <1>1
  <2> QED
    BY <1>1, <2>2, <2>3
<1> QED
  BY <1>1, <1>2, <1>3 DEF q

LEMMA Cancel ==
  ASSUME NEW a \in Nat, NEW b \in Nat, NEW c \in Nat \ {0}
  PROVE  a * c <= b * c => a <= b
<1>1. ASSUME a * c <= b * c, b < a PROVE FALSE
  <2>1. b * c < a * c /\ a * c \in Nat /\ b * c \in Nat
    BY <1>1, Products
  <2> QED
    BY <1>1, <2>1
<1> QED
  BY <1>1

\* The powers of a number,
IsPower(pow, b) == /\ pow \in [Nat -> Nat \ {0}]
                   /\ pow[0] = 1
                   /\ \A n \in Nat : pow[n + 1] = b * pow[n]

\* as a loop computes them.
LEMMA Powers ==
  ASSUME NEW b \in Nat \ {0}, NEW pow,
         pow = CHOOSE g : g = [n \in Nat |-> IF n = 0 THEN 1 ELSE b * g[n - 1]]
  PROVE  IsPower(pow, b)
<1> DEFINE P == Nat \ {0}
           step == [n \in Nat |-> [v \in P |-> b * v]]
           Builds(g) == g = [n \in Nat |-> IF n = 0 THEN 1 ELSE b * g[n - 1]]
<1>1. \A v \in P : b * v \in P
  OBVIOUS
<1>2. 1 \in P
  OBVIOUS
<1> HIDE DEF P
<1>3. IsEndless(step, P)
  BY <1>1 DEF IsEndless
<1>4. PICK f : RunsOn(f, 1, step, P)
  <2> HIDE DEF step
  <2> QED
    BY <1>2, <1>3, NaturalRecursion
<1>5. ASSUME NEW n \in Nat \ {0} PROVE f[n] = b * f[n - 1]
  <2>1. n \in Nat /\ n - 1 \in Nat
    OBVIOUS
  <2>2. f[n - 1] \in P
    BY <1>4, <2>1 DEF RunsOn
  <2>3. f[n] = step[n][f[n - 1]]
    BY <1>4 DEF RunsOn
  <2> QED
    BY <2>1, <2>2, <2>3
<1>6. Builds(f)
  <2> HIDE DEF step
  <2> QED
    BY <1>4, <1>5 DEF RunsOn
<1>7. Builds(pow)
  <2> HIDE DEF Builds
  <2>1. pow = CHOOSE g : Builds(g)
    BY DEF Builds
  <2> QED
    BY <1>6, <2>1
<1>8. pow[0] = 1 /\ \A n \in Nat : n # 0 => pow[n] = b * pow[n - 1]
  BY <1>7, Zenon
<1>9. ASSUME NEW n \in Nat PROVE pow[n + 1] = b * pow[n]
  <2>1. n + 1 \in Nat /\ n + 1 # 0 /\ (n + 1) - 1 = n
    OBVIOUS
  <2> QED
    BY <1>8, <2>1
<1>10. \A n \in Nat : pow[n] \in P
  <2> DEFINE S == {n \in Nat : pow[n] \in P}
  <2>1. 0 \in S
    BY <1>2, <1>8
  <2>2. \A n \in S : n + 1 \in S
    BY <1>1, <1>9
  <2>3. S = Nat
    <3>1. S \in SUBSET Nat
      OBVIOUS
    <3> HIDE DEF S
    <3> QED
      BY <2>1, <2>2, <3>1, NaturalInduction
  <2> QED
    BY <2>3
<1>11. pow \in [Nat -> P]
  BY <1>7, <1>10
<1> QED
  BY <1>8, <1>9, <1>11 DEF P, IsPower

\* There are powers of every number.
LEMMA PowerExists ==
  ASSUME NEW b \in Nat \ {0}
  PROVE  \E pow : IsPower(pow, b)
<1> DEFINE f == CHOOSE g : g = [n \in Nat |-> IF n = 0 THEN 1 ELSE b * g[n - 1]]
<1>1. IsPower(f, b)
  BY Powers
<1> QED
  BY <1>1

\* The exponents of a product add up.
LEMMA PowerSum ==
  ASSUME NEW b \in Nat \ {0}, NEW pow, IsPower(pow, b), NEW a \in Nat, NEW c \in Nat
  PROVE  pow[a + c] = pow[a] * pow[c]
<1> DEFINE S == {n \in Nat : pow[a + n] = pow[a] * pow[n]}
<1>1. 0 \in S
  <2>1. a + 0 = a /\ pow[a] \in Nat
    BY DEF IsPower
  <2> QED
    BY <2>1 DEF IsPower
<1>2. ASSUME NEW n \in S PROVE n + 1 \in S
  <2>1. n \in Nat /\ a + n \in Nat /\ a + (n + 1) = (a + n) + 1
    OBVIOUS
  <2>2. pow[a + (n + 1)] = b * pow[a + n] /\ pow[n + 1] = b * pow[n]
    BY <2>1 DEF IsPower
  <2>3. pow[a] \in Nat /\ pow[n] \in Nat
    BY <2>1 DEF IsPower
  <2>4. b * (pow[a] * pow[n]) = pow[a] * (b * pow[n])
    BY <2>3
  <2> QED
    BY <2>1, <2>2, <2>4
<1>3. S = Nat
  <2>1. S \in SUBSET Nat
    OBVIOUS
  <2> HIDE DEF S
  <2> QED
    BY <1>1, <1>2, <2>1, NaturalInduction
<1> QED
  BY <1>3

\* They grow,
LEMMA PowerMonotone ==
  ASSUME NEW b \in Nat \ {0}, NEW pow, IsPower(pow, b), NEW a \in Nat, NEW c \in Nat, a <= c
  PROVE  pow[a] <= pow[c]
<1>1. c - a \in Nat /\ a + (c - a) = c
  OBVIOUS
<1>2. pow[c] = pow[a] * pow[c - a]
  BY <1>1, PowerSum
<1>3. pow[a] \in Nat /\ pow[c - a] \in Nat /\ 1 <= pow[c - a]
  BY <1>1 DEF IsPower
<1>4. 1 * pow[a] <= pow[c - a] * pow[a] /\ pow[c - a] * pow[a] = pow[a] * pow[c - a]
  BY <1>3, Products
<1> QED
  BY <1>2, <1>3, <1>4

\* and every number but 0 lies between two of them.
LEMMA PowerLog ==
  ASSUME NEW b \in Nat, b > 1, NEW pow, IsPower(pow, b), NEW n \in Nat \ {0}
  PROVE  \E l \in 1..n : pow[l - 1] <= n /\ n < pow[l]
<1> DEFINE Fits(k, l) == pow[l - 1] <= k /\ k < pow[l]
           S == {k \in Nat : k # 0 => \E l \in 1..k : Fits(k, l)}
<1>1. 0 \in S
  OBVIOUS
<1>2. ASSUME NEW k \in S PROVE k + 1 \in S
  <2>1. CASE k = 0
    <3>1. pow[1] = b * 1 /\ pow[1 - 1] = 1
      <4>1. 1 = 0 + 1 /\ 1 - 1 = 0
        OBVIOUS
      <4> QED
        BY <4>1 DEF IsPower
    <3>2. Fits(1, 1)
      BY <3>1
    <3> HIDE DEF Fits
    <3> QED
      BY <2>1, <3>2
  <2>2. CASE k # 0
    <3>1. PICK l \in 1..k : Fits(k, l)
      BY <2>2
    <3>2. l \in Nat /\ k \in Nat /\ (l + 1) - 1 = l /\ l \in 1..(k + 1) /\ l + 1 \in 1..(k + 1)
      OBVIOUS
    <3>3. pow[l + 1] = b * pow[l] /\ pow[l] \in Nat \ {0} /\ pow[l - 1] \in Nat
      BY <3>2 DEF IsPower
    <3>4. pow[l] < b * pow[l] /\ b * pow[l] \in Nat
      <4>1. 1 * pow[l] < b * pow[l]
        BY <3>3, Products
      <4> QED
        BY <3>3, <4>1
    <3>5. Fits(k + 1, l) \/ Fits(k + 1, l + 1)
      BY <3>1, <3>2, <3>3, <3>4
    <3> HIDE DEF Fits
    <3> QED
      BY <3>2, <3>5
  <2> QED
    BY <2>1, <2>2
<1>3. S = Nat
  <2>1. S \in SUBSET Nat
    OBVIOUS
  <2> HIDE DEF S
  <2> QED
    BY <1>1, <1>2, <2>1, NaturalInduction
<1> QED
  BY <1>3
=============================================================================
