-------------------------- MODULE TronAddressProofs -------------------------
(***************************************************************************)
(* For addresses, checksums and runs of zeros of any length, any checksum  *)
(* function and any misspelling: HexToBase58 and Base58ToHex are inverse   *)
(* to one another.  Numbers have one numeral without leading zeros in each *)
(* base; the carries of the encoder and the divisions of the decoder both  *)
(* give it, and the buffer of the encoder is long enough.                  *)
(***************************************************************************)
EXTENDS TronAddress, Induction, SequenceTheorems

\* A set of sequences with the empty one and every extension of one at its end is all
\* of them.
LEMMA SequenceInduction ==
  ASSUME NEW S, NEW F \in SUBSET Seq(S), <<>> \in F,
         \A s \in F, e \in S : Append(s, e) \in F
  PROVE  F = Seq(S)
<1> DEFINE N == {n \in Nat : \A s \in Seq(S) : Len(s) = n => s \in F}
<1>1. 0 \in N
  BY EmptySeq
<1>2. ASSUME NEW n \in N PROVE n + 1 \in N
  <2>1. n \in Nat /\ \A s \in Seq(S) : Len(s) = n => s \in F
    OBVIOUS
  <2>2. ASSUME NEW t \in Seq(S), Len(t) = n + 1 PROVE t \in F
    <3>1. t # <<>>
      BY <2>1, <2>2, EmptySeq
    <3>2. PICK s \in Seq(S), e \in S : t = Append(s, e)
      BY <3>1, SequenceEmptyOrAppend
    <3>3. Len(s) \in Nat /\ Len(t) = Len(s) + 1
      BY <3>2, LenProperties, AppendProperties
    <3>4. Len(s) = n
      BY <2>1, <2>2, <3>3
    <3> QED
      BY <2>1, <3>2, <3>4
  <2> QED
    BY <2>1, <2>2
<1>3. N = Nat
  <2>1. N \in SUBSET Nat
    OBVIOUS
  <2> HIDE DEF N
  <2> QED
    BY <1>1, <1>2, <2>1, NaturalInduction
<1> QED
  BY <1>3, LenProperties

-----------------------------------------------------------------------------
\* The digits of a base.
Numerals(base) == Seq(0..(base - 1))

\* The values the loop of Number takes.
NumberStep(base, s) == [i \in 1..Len(s) |-> [v \in Nat |-> base * v + s[i]]]

LEMMA NumberRuns ==
  ASSUME NEW base \in Nat, NEW s \in Seq(Nat)
  PROVE  \E n : Runs(n, 0, NumberStep(base, s), Len(s), Nat) /\ Number(base, s) = n[Len(s)]
<1> DEFINE L == Len(s)
           step == NumberStep(base, s)
           Builds(g) == g = [i \in 0..Len(s) |-> IF i = 0 THEN 0 ELSE base * g[i - 1] + s[i]]
           num == CHOOSE g : Builds(g)
<1>1. L \in Nat /\ \A i \in 1..L : s[i] \in Nat
  BY LenProperties, ElementOfSeq
<1>2. \A i \in 1..L, v \in Nat : step[i][v] = base * v + s[i] /\ step[i][v] \in Nat
  BY <1>1 DEF NumberStep
<1>3. PICK n : Runs(n, 0, step, L, Nat)
  <2>1. IsLoop(step, L, Nat)
    BY <1>2 DEF IsLoop
  <2> HIDE DEF step, L
  <2> QED
    BY <1>1, <2>1, Recursion
<1>4. ASSUME NEW i \in 1..L PROVE n[i] = base * n[i - 1] + s[i]
  <2>1. i - 1 \in 0..L
    BY <1>1
  <2>2. n[i - 1] \in Nat
    BY <1>3, <2>1 DEF Runs
  <2> QED
    BY <1>2, <1>3, <2>2 DEF Runs
<1>5. Builds(n)
  <2>1. n = [i \in 0..L |-> n[i]]
    BY <1>3 DEF Runs
  <2>2. n[0] = 0
    BY <1>3 DEF Runs
  <2> HIDE DEF step
  <2>3. \A i \in 0..L : n[i] = IF i = 0 THEN 0 ELSE base * n[i - 1] + s[i]
    BY <1>1, <1>4, <2>2
  <2> QED
    BY <2>1, <2>3
<1>6. Builds(num)
  <2> HIDE DEF Builds
  <2> QED
    BY <1>5
<1>7. num = [i \in 0..L |-> IF i = 0 THEN 0 ELSE base * num[i - 1] + s[i]]
  BY <1>6
<1>8. Number(base, s) = num[L]
  BY DEF Number
<1>9. Runs(num, 0, step, L, Nat)
  <2>1. num[0] = 0 /\ \A i \in 1..L : num[i] = base * num[i - 1] + s[i]
    <3> HIDE DEF num, Builds
    <3> QED
      BY <1>1, <1>7
  <2>2. \A i \in 0..L : num[i] \in Nat
    <3> DEFINE S == {i \in Nat : num[i] \in Nat}
    <3> HIDE DEF num, Builds
    <3>1. 0 \in S
      BY <2>1
    <3>2. ASSUME NEW i \in 0..(L - 1), i \in S PROVE i + 1 \in S
      <4>1. i + 1 \in 1..L /\ (i + 1) - 1 = i /\ num[i] \in Nat
        BY <1>1, <3>2
      <4>2. num[i + 1] = base * num[i] + s[i + 1] /\ s[i + 1] \in Nat
        BY <1>1, <2>1, <4>1
      <4>3. base * num[i] \in Nat
        BY <4>1
      <4> QED
        BY <4>1, <4>2, <4>3
    <3> HIDE DEF S
    <3>3. 0..L \subseteq S
      BY <1>1, <3>1, <3>2, IntervalInduction
    <3> QED
      BY <3>3 DEF S
  <2>3. num \in [0..L -> Nat]
    <3> HIDE DEF num, Builds
    <3> QED
      BY <1>7, <2>2
  <2>4. ASSUME NEW i \in 1..L PROVE num[i] = step[i][num[i - 1]]
    <3> HIDE DEF num, Builds, step
    <3>1. i - 1 \in 0..L
      BY <1>1
    <3> QED
      BY <1>2, <2>1, <2>2, <3>1
  <2> HIDE DEF num, Builds, step
  <2> QED
    BY <2>1, <2>3, <2>4 DEF Runs
<1> QED
  BY <1>8, <1>9

\* A digit more: the rest times the base, and the digit.
LEMMA NumberAppend ==
  ASSUME NEW base \in Nat
  PROVE  /\ Number(base, <<>>) = 0
         /\ \A s \in Seq(Nat), d \in Nat :
              /\ Number(base, s) \in Nat
              /\ Number(base, Append(s, d)) = base * Number(base, s) + d
<1>1. Number(base, <<>>) = 0
  <2>1. <<>> \in Seq(Nat) /\ Len(<<>>) = 0
    BY EmptySeq
  <2> QED
    BY <2>1, NumberRuns DEF Runs
<1>2. ASSUME NEW s \in Seq(Nat), NEW d \in Nat
      PROVE  /\ Number(base, s) \in Nat
             /\ Number(base, Append(s, d)) = base * Number(base, s) + d
  <2> DEFINE t == Append(s, d)
             L == Len(s)
  <2>1. /\ t \in Seq(Nat) /\ Len(t) = L + 1 /\ L \in Nat
        /\ \A i \in 1..L : t[i] = s[i]
        /\ t[L + 1] = d
    BY AppendProperties, LenProperties
  <2>2. PICK n : Runs(n, 0, NumberStep(base, s), L, Nat) /\ Number(base, s) = n[L]
    BY NumberRuns
  <2> HIDE DEF t
  <2>3. PICK m : Runs(m, 0, NumberStep(base, t), L + 1, Nat) /\ Number(base, t) = m[L + 1]
    BY <2>1, NumberRuns
  <2> DEFINE k == [i \in 0..L |-> m[i]]
  <2>4. Runs(k, 0, NumberStep(base, s), L, Nat)
    <3>1. /\ m \in [0..(L + 1) -> Nat] /\ m[0] = 0
          /\ \A i \in 1..(L + 1) : m[i] = NumberStep(base, t)[i][m[i - 1]]
      BY <2>3 DEF Runs
    <3>2. ASSUME NEW i \in 1..L PROVE m[i] = NumberStep(base, s)[i][m[i - 1]]
      <4>1. i \in 1..(L + 1) /\ i \in 1..Len(t) /\ t[i] = s[i]
        BY <2>1
      <4>2. NumberStep(base, t)[i] = NumberStep(base, s)[i]
        BY <4>1 DEF NumberStep
      <4> QED
        BY <3>1, <4>1, <4>2
    <3>3. k \in [0..L -> Nat] /\ k[0] = 0
      <4> HIDE DEF L
      <4> QED
        BY <2>1, <3>1
    <3>4. ASSUME NEW i \in 1..L PROVE k[i] = NumberStep(base, s)[i][k[i - 1]]
      <4> HIDE DEF L
      <4>1. i \in 0..L /\ i - 1 \in 0..L
        BY <2>1
      <4> QED
        BY <3>2, <4>1
    <3> HIDE DEF k
    <3> QED
      BY <3>3, <3>4 DEF Runs
  <2>5. m[L] = n[L]
    <3>1. L \in 0..L /\ L <= L
      BY <2>1
    <3>2. k[L] = m[L]
      BY <3>1
    <3> HIDE DEF k, L
    <3> QED
      BY <2>1, <2>2, <2>4, <3>1, <3>2, RunUnique
  <2>6. m[L + 1] = base * m[L] + d /\ m[L] \in Nat
    <3>1. L + 1 \in 1..(L + 1) /\ L \in 0..(L + 1) /\ (L + 1) - 1 = L
      BY <2>1
    <3>2. m[L] \in Nat
      BY <2>3, <3>1 DEF Runs
    <3>3. NumberStep(base, t)[L + 1] = [v \in Nat |-> base * v + t[L + 1]]
      BY <2>1, <3>1 DEF NumberStep
    <3> QED
      BY <2>1, <2>3, <3>1, <3>2, <3>3 DEF Runs
  <2> QED
    BY <2>2, <2>3, <2>5, <2>6 DEF t
<1> QED
  BY <1>1, <1>2

\* A multiple and a remainder are found back.
LEMMA OneRemainder ==
  ASSUME NEW x \in Nat, NEW a \in Nat, NEW b \in Nat, NEW r \in 0..(x - 1), NEW q \in 0..(x - 1),
         x * a + r = x * b + q
  PROVE  a = b /\ r = q
<1>1. ASSUME NEW c \in Nat, NEW d \in Nat, NEW e \in 0..(x - 1), NEW f \in 0..(x - 1),
             x * c + e = x * d + f, c < d
      PROVE  FALSE
  <2>1. (c + 1) * x <= d * x /\ (c + 1) * x = c * x + x
    BY <1>1, Products
  <2>2. c * x = x * c /\ d * x = x * d /\ c * x \in Nat /\ d * x \in Nat
    BY Products
  <2> QED
    BY <1>1, <2>1, <2>2
<1>2. a = b
  BY <1>1
<1>3. x * a \in Nat
  BY Products
<1> QED
  BY <1>2, <1>3

LEMMA ZerosFacts ==
  ASSUME NEW z \in Nat
  PROVE  /\ Zeros(z) \in Seq({0}) /\ Zeros(z) \in Seq(Nat)
         /\ Len(Zeros(z)) = z
         /\ \A i \in 1..z : Zeros(z)[i] = 0
BY DEF Zeros

\* Zeros in front change nothing.
LEMMA ZerosInFront ==
  ASSUME NEW base \in Nat, NEW z \in Nat, NEW s \in Seq(Nat)
  PROVE  Number(base, Zeros(z) \o s) = Number(base, s)
<1>1. ASSUME NEW n \in Nat PROVE Number(base, Zeros(n)) = 0
  <2> DEFINE S == {k \in Nat : Number(base, Zeros(k)) = 0}
  <2>1. 0 \in S
    <3>1. Zeros(0) = <<>>
      BY ZerosFacts, EmptySeq
    <3> QED
      BY <3>1, NumberAppend
  <2>2. ASSUME NEW k \in S PROVE k + 1 \in S
    <3>1. k \in Nat /\ Number(base, Zeros(k)) = 0
      OBVIOUS
    <3>2. Zeros(k) \in Seq(Nat) /\ 0 \in Nat
      BY ZerosFacts
    <3>3. Zeros(k + 1) = Append(Zeros(k), 0)
      <4> DEFINE a == Append(Zeros(k), 0)
      <4>1. a \in Seq(Nat) /\ Len(a) = k + 1 /\ \A i \in 1..k : a[i] = 0
        BY <3>1, <3>2, ZerosFacts, AppendProperties
      <4>2. a[k + 1] = 0
        BY <3>1, <3>2, ZerosFacts, AppendProperties
      <4>3. /\ Zeros(k + 1) \in Seq(Nat) /\ Len(Zeros(k + 1)) = k + 1
            /\ \A i \in 1..(k + 1) : Zeros(k + 1)[i] = 0
        BY <3>1, ZerosFacts
      <4> HIDE DEF a
      <4>4. \A i \in 1..(k + 1) : a[i] = Zeros(k + 1)[i]
        BY <3>1, <4>1, <4>2, <4>3
      <4>5. Zeros(k + 1) = a
        BY <4>1, <4>3, <4>4, SeqEqual
      <4> QED
        BY <4>5 DEF a
    <3>4. Number(base, Append(Zeros(k), 0)) = base * Number(base, Zeros(k)) + 0
      BY <3>2, NumberAppend
    <3>5. base * 0 + 0 = 0
      OBVIOUS
    <3>6. Number(base, Zeros(k + 1)) = 0
      BY <3>1, <3>3, <3>4, <3>5
    <3> QED
      BY <3>1, <3>6
  <2>3. S = Nat
    <3>1. S \in SUBSET Nat
      OBVIOUS
    <3> HIDE DEF S
    <3> QED
      BY <2>1, <2>2, <3>1, NaturalInduction
  <2> QED
    BY <2>3
<1> DEFINE F == {t \in Seq(Nat) : Number(base, Zeros(z) \o t) = Number(base, t)}
           Z == Zeros(z)
<1>2. Z \in Seq(Nat)
  BY ZerosFacts
<1>3. <<>> \in F
  <2>1. Z \o <<>> = Z
    BY <1>2, ConcatEmptySeq
  <2> QED
    BY <1>1, <2>1, EmptySeq, NumberAppend
<1>4. ASSUME NEW t \in F, NEW d \in Nat PROVE Append(t, d) \in F
  <2>1. t \in Seq(Nat) /\ Number(base, Z \o t) = Number(base, t)
    OBVIOUS
  <2> HIDE DEF F, Z
  <2>2. Z \o Append(t, d) = Append(Z \o t, d)
    <3>1. Append(t, d) = t \o <<d>> /\ <<d>> \in Seq(Nat) /\ Z \o t \in Seq(Nat)
      BY <1>2, <2>1, AppendIsConcat, ConcatProperties
    <3>2. Append(Z \o t, d) = (Z \o t) \o <<d>>
      BY <3>1, AppendIsConcat
    <3> QED
      BY <1>2, <2>1, <3>1, <3>2, ConcatAssociative
  <2>3. Z \o t \in Seq(Nat) /\ Append(t, d) \in Seq(Nat)
    BY <1>2, <2>1, ConcatProperties, AppendProperties
  <2>4. Number(base, Z \o Append(t, d)) = Number(base, Append(t, d))
    <3>1. Number(base, Append(Z \o t, d)) = base * Number(base, Z \o t) + d
      BY <2>3, NumberAppend
    <3>2. Number(base, Append(t, d)) = base * Number(base, t) + d
      BY <2>1, NumberAppend
    <3> QED
      BY <2>1, <2>2, <3>1, <3>2
  <2> QED
    BY <2>3, <2>4 DEF F, Z
<1>5. F = Seq(Nat)
  <2>1. F \in SUBSET Seq(Nat)
    OBVIOUS
  <2> HIDE DEF F
  <2> QED
    BY <1>3, <1>4, <2>1, SequenceInduction
<1> QED
  BY <1>5

\* Digits of one length stand for different numbers,
LEMMA SameLength ==
  ASSUME NEW base \in Nat, NEW s \in Numerals(base), NEW t \in Numerals(base),
         Len(s) = Len(t), Number(base, s) = Number(base, t)
  PROVE  s = t
<1> DEFINE D == 0..(base - 1)
           Only(u) == \A v \in Seq(D) : Len(u) = Len(v) /\ Number(base, u) = Number(base, v) => u = v
           F == {u \in Seq(D) : Only(u)}
<1>1. D \subseteq Nat
  OBVIOUS
<1>2. \A u \in Seq(D) : u \in Seq(Nat)
  <2> HIDE DEF D
  <2> QED
    BY <1>1, SeqMonotonic
<1>3. <<>> \in F
  <2> HIDE DEF D
  <2> QED
    BY EmptySeq
<1>4. ASSUME NEW u \in F, NEW d \in D PROVE Append(u, d) \in F
  <2>1. u \in Seq(D) /\ Only(u)
    OBVIOUS
  <2> DEFINE a == Append(u, d)
  <2>2. a \in Seq(D) /\ Len(a) = Len(u) + 1 /\ Len(u) \in Nat
    BY <2>1, AppendProperties, LenProperties
  <2>3. ASSUME NEW v \in Seq(D), Len(a) = Len(v), Number(base, a) = Number(base, v) PROVE a = v
    <3> HIDE DEF D, a, F, Only
    <3>1. v # <<>>
      BY <2>2, <2>3, EmptySeq
    <3>2. PICK w \in Seq(D), e \in D : v = Append(w, e)
      BY <3>1, SequenceEmptyOrAppend
    <3>3. Len(w) \in Nat /\ Len(v) = Len(w) + 1
      BY <3>2, LenProperties, AppendProperties
    <3>4. Len(u) = Len(w)
      BY <2>2, <2>3, <3>3
    <3>5. base * Number(base, u) + d = base * Number(base, w) + e
          /\ Number(base, u) \in Nat /\ Number(base, w) \in Nat
      BY <1>1, <1>2, <2>1, <2>3, <3>2, NumberAppend DEF a
    <3>6. Number(base, u) = Number(base, w) /\ d = e
      <4> DEFINE i == Number(base, u)
                 j == Number(base, w)
      <4>1. i \in Nat /\ j \in Nat /\ base * i + d = base * j + e
        BY <3>5
      <4>2. d \in 0..(base - 1) /\ e \in 0..(base - 1)
        BY <3>2 DEF D
      <4> HIDE DEF i, j
      <4>3. i = j /\ d = e
        BY <4>1, <4>2, OneRemainder
      <4> QED
        BY <4>3 DEF i, j
    <3>7. u = w
      BY <2>1, <3>4, <3>6 DEF Only
    <3> QED
      BY <3>2, <3>6, <3>7 DEF a
  <2>4. Only(a)
    BY <2>3
  <2> HIDE DEF Only, D, a
  <2>5. a \in F
    BY <2>2, <2>4
  <2> QED
    BY <2>5 DEF a
<1>5. F = Seq(D)
  <2>1. F \in SUBSET Seq(D)
    OBVIOUS
  <2> HIDE DEF F, D
  <2> QED
    BY <1>3, <1>4, <2>1, SequenceInduction
<1>6. s \in F /\ t \in Seq(D)
  BY <1>5 DEF Numerals
<1> HIDE DEF D
<1> QED
  BY <1>6

\* and so do digits of any length that do not begin with a zero.
Canonical(s) == Len(s) > 0 => s[1] # 0

LEMMA OneNumeral ==
  ASSUME NEW base \in Nat \ {0}, NEW s \in Numerals(base), NEW t \in Numerals(base),
         Canonical(s), Canonical(t), Number(base, s) = Number(base, t)
  PROVE  s = t
<1> DEFINE D == 0..(base - 1)
<1>1. D \subseteq Nat /\ 0 \in D
  OBVIOUS
<1> HIDE DEF D
<1>2. ASSUME NEW u \in Seq(D), NEW v \in Seq(D), Canonical(v),
             Number(base, u) = Number(base, v), Len(u) < Len(v)
      PROVE  FALSE
  <2> DEFINE z == Len(v) - Len(u)
             w == Zeros(z) \o u
  <2>1. z \in Nat /\ z > 0 /\ Len(u) \in Nat /\ Len(v) \in Nat
    BY <1>2, LenProperties
  <2>2. Zeros(z) \in Seq(D)
    <3> HIDE DEF z
    <3>1. {0} \subseteq D
      BY <1>1
    <3> QED
      BY <2>1, <3>1, ZerosFacts, SeqMonotonic
  <2>3. w \in Seq(D) /\ Len(w) = Len(v) /\ w[1] = 0
    <3>1. Len(Zeros(z)) = z /\ Zeros(z)[1] = 0
      <4> HIDE DEF z
      <4>1. 1 \in 1..z
        BY <2>1
      <4> QED
        BY <2>1, <4>1, ZerosFacts
    <3>2. 1 \in 1..(Len(Zeros(z)) + Len(u)) /\ 1 <= Len(Zeros(z))
      BY <2>1, <3>1
    <3> QED
      BY <2>1, <2>2, <3>1, <3>2, ConcatProperties
  <2>4. Number(base, w) = Number(base, v)
    <3>1. u \in Seq(Nat)
      BY <1>1, SeqMonotonic
    <3> QED
      BY <1>2, <2>1, <3>1, ZerosInFront
  <2>5. w = v
    <3> HIDE DEF w
    <3> QED
      BY <2>3, <2>4, SameLength DEF D, Numerals
  <2> HIDE DEF w, z
  <2> QED
    BY <1>2, <2>1, <2>3, <2>5 DEF Canonical
<1>3. s \in Seq(D) /\ t \in Seq(D)
  BY DEF D, Numerals
<1>4. Len(s) \in Nat /\ Len(t) \in Nat
  BY <1>3, LenProperties
<1>5. Len(s) = Len(t)
  BY <1>2, <1>3, <1>4
<1> QED
  BY <1>5, SameLength

-----------------------------------------------------------------------------
\* The zeros a sequence begins with.
StartsWith(z, s) == /\ z \in 0..Len(s)
                    /\ \A j \in 1..z : s[j] = 0
                    /\ z < Len(s) => s[z + 1] # 0

LEMMA LeadingZerosFacts ==
  ASSUME NEW s \in Seq(Nat)
  PROVE  StartsWith(LeadingZeros(s), s)
<1> DEFINE L == Len(s)
           First(i) == s[i] # 0 /\ \A j \in 1..(i - 1) : s[j] = 0
<1>1. L \in Nat /\ DOMAIN s = 1..L
  BY LenProperties
<1>2. CASE \E i \in DOMAIN s : s[i] # 0
  <2> DEFINE S == {i \in 1..L : s[i] # 0}
  <2>1. \E i \in S : \A m \in S : i <= m
    <3>1. S \in SUBSET Nat /\ S # {}
      BY <1>1, <1>2
    <3> HIDE DEF S
    <3> QED
      BY <3>1, LeastElement
  <2>2. PICK i \in 1..L : s[i] # 0 /\ \A m \in 1..L : s[m] # 0 => i <= m
    BY <2>1
  <2>3. First(i)
    <3>1. \A j \in 1..(i - 1) : j \in 1..L /\ ~ (i <= j)
      BY <1>1
    <3> QED
      BY <2>2, <3>1
  <2> DEFINE c == CHOOSE k \in DOMAIN s : First(k)
  <2>4. c \in 1..L /\ First(c)
    <3> HIDE DEF First
    <3> QED
      BY <1>1, <2>3
  <2>5. LeadingZeros(s) = c - 1
    BY <1>2 DEF LeadingZeros
  <2> HIDE DEF c
  <2>6. (c - 1) + 1 = c /\ c - 1 \in 0..L
    BY <1>1, <2>4
  <2> QED
    BY <2>4, <2>5, <2>6 DEF StartsWith
<1>3. CASE ~ (\E i \in DOMAIN s : s[i] # 0)
  <2>1. LeadingZeros(s) = L
    BY <1>3 DEF LeadingZeros
  <2> QED
    BY <1>1, <1>3, <2>1 DEF StartsWith
<1> QED
  BY <1>2, <1>3

LEMMA OneStart ==
  ASSUME NEW s \in Seq(Nat), NEW a, NEW b, StartsWith(a, s), StartsWith(b, s)
  PROVE  a = b
<1>1. Len(s) \in Nat
  BY LenProperties
<1>2. a \in Nat /\ b \in Nat /\ a <= Len(s) /\ b <= Len(s)
  BY <1>1 DEF StartsWith
<1>3. ASSUME a < b PROVE FALSE
  <2>1. a + 1 \in 1..b /\ a < Len(s)
    BY <1>1, <1>2, <1>3
  <2> QED
    BY <2>1 DEF StartsWith
<1>4. ASSUME b < a PROVE FALSE
  <2>1. b + 1 \in 1..a /\ b < Len(s)
    BY <1>1, <1>2, <1>4
  <2> QED
    BY <2>1 DEF StartsWith
<1> QED
  BY <1>2, <1>3, <1>4

LEMMA ZerosThen ==
  ASSUME NEW D, 0 \in D, NEW z \in Nat, NEW t \in Seq(D)
  PROVE  /\ Zeros(z) \o t \in Seq(D)
         /\ Len(Zeros(z) \o t) = z + Len(t)
         /\ Len(t) \in Nat
         /\ \A i \in 1..(z + Len(t)) : (Zeros(z) \o t)[i] = IF i <= z THEN 0 ELSE t[i - z]
<1> DEFINE y == Zeros(z)
           w == y \o t
<1>1. y \in Seq(D) /\ Len(y) = z /\ \A i \in 1..z : y[i] = 0
  <2>1. {0} \subseteq D
    OBVIOUS
  <2> QED
    BY <2>1, ZerosFacts, SeqMonotonic
<1>2. /\ y \o t \in Seq(D)
      /\ Len(y \o t) = Len(y) + Len(t)
      /\ \A i \in 1..(Len(y) + Len(t)) : (y \o t)[i] = IF i <= Len(y) THEN y[i] ELSE t[i - Len(y)]
  BY <1>1, ConcatProperties, Zenon
<1>4. Len(t) \in Nat
  BY LenProperties
<1>5. /\ w \in Seq(D)
      /\ Len(w) = Len(y) + Len(t)
      /\ \A i \in 1..(Len(y) + Len(t)) : w[i] = IF i <= Len(y) THEN y[i] ELSE t[i - Len(y)]
  BY <1>2
<1> HIDE DEF y, w
<1>6. /\ w \in Seq(D) /\ Len(w) = z + Len(t) /\ Len(t) \in Nat
      /\ \A i \in 1..(z + Len(t)) : w[i] = IF i <= z THEN 0 ELSE t[i - z]
  BY <1>1, <1>4, <1>5
<1> QED
  BY <1>6 DEF w, y

\* A sequence is its leading zeros and a canonical rest.
LEMMA ZerosAndRest ==
  ASSUME NEW base \in Nat \ {0}, NEW s \in Numerals(base)
  PROVE  /\ LeadingZeros(s) \in Nat
         /\ SkipZeros(s) \in Numerals(base) /\ Canonical(SkipZeros(s))
         /\ s = Zeros(LeadingZeros(s)) \o SkipZeros(s)
<1> DEFINE D == 0..(base - 1)
           z == LeadingZeros(s)
           t == SkipZeros(s)
           L == Len(s)
<1>1. D \subseteq Nat /\ 0 \in D /\ {0} \subseteq D
  OBVIOUS
<1>2. s \in Seq(D)
  BY DEF Numerals
<1> HIDE DEF D
<1>3. s \in Seq(Nat) /\ L \in Nat /\ \A i \in 1..L : s[i] \in D
  BY <1>1, <1>2, SeqMonotonic, LenProperties, ElementOfSeq
<1>4. /\ z \in 0..L
      /\ \A j \in 1..z : s[j] = 0
      /\ z < L => s[z + 1] # 0
  BY <1>3, LeadingZerosFacts DEF StartsWith
<1> HIDE DEF z
<1>5. /\ t \in Seq(D)
      /\ Len(t) = L - z
      /\ \A i \in 1..(L - z) : t[i] = s[z + i]
  <2>1. z + 1 \in Int /\ L \in Int /\ \A i \in (z + 1)..L : s[i] \in D
    BY <1>3, <1>4
  <2>2. /\ t \in Seq(D)
        /\ Len(t) = IF z + 1 <= L THEN L - (z + 1) + 1 ELSE 0
        /\ \A i \in 1..(L - (z + 1) + 1) : t[i] = s[(z + 1) + i - 1]
    BY <2>1, SubSeqProperties DEF SkipZeros, z
  <2>3. L - (z + 1) + 1 = L - z /\ \A i \in Int : (z + 1) + i - 1 = z + i
    BY <1>3, <1>4
  <2> HIDE DEF t, L
  <2> QED
    BY <1>3, <1>4, <2>2, <2>3
<1> HIDE DEF t, L
<1>6. Canonical(t)
  <2>1. SUFFICES ASSUME Len(t) > 0 PROVE t[1] # 0
    BY DEF Canonical
  <2>2. z < L /\ 1 \in 1..(L - z)
    BY <1>3, <1>4, <1>5, <2>1
  <2> QED
    BY <1>4, <1>5, <2>2
<1>7. s = Zeros(z) \o t
  <2> DEFINE w == Zeros(z) \o t
  <2>1. z \in Nat
    BY <1>3, <1>4
  <2>2. /\ w \in Seq(D)
        /\ Len(w) = z + Len(t)
        /\ Len(t) \in Nat
        /\ \A i \in 1..(z + Len(t)) : w[i] = IF i <= z THEN 0 ELSE t[i - z]
    BY <1>1, <1>5, <2>1, ZerosThen, Zenon
  <2> HIDE DEF w
  <2>3. ASSUME NEW i \in 1..L PROVE w[i] = s[i]
    <3>1. z + Len(t) = L
      BY <1>3, <1>4, <1>5
    <3>2. CASE i <= z
      <4>1. i \in 1..z
        BY <2>1, <3>2
      <4> QED
        BY <1>4, <2>1, <2>2, <3>1, <3>2, <4>1
    <3>3. CASE ~ (i <= z)
      <4>1. i - z \in 1..(L - z) /\ z + (i - z) = i
        BY <1>3, <2>1, <3>3
      <4> QED
        BY <1>5, <2>2, <3>1, <3>3, <4>1
    <3> QED
      BY <3>2, <3>3
  <2>4. s = w
    <3>1. Len(w) = Len(s)
      BY <1>3, <1>4, <1>5, <2>2 DEF L
    <3>2. \A i \in 1..Len(w) : w[i] = s[i]
      BY <2>3, <3>1 DEF L
    <3> QED
      BY <1>2, <2>2, <3>1, <3>2, SeqEqual
  <2> QED
    BY <2>4 DEF w
<1>8. z \in Nat
  BY <1>3, <1>4
<1> QED
  BY <1>5, <1>6, <1>7, <1>8 DEF z, t, D, Numerals

\* Zeros in front of a canonical sequence are its leading zeros.
LEMMA ZerosOfCanonical ==
  ASSUME NEW z \in Nat, NEW t \in Seq(Nat), Canonical(t)
  PROVE  LeadingZeros(Zeros(z) \o t) = z
<1> DEFINE w == Zeros(z) \o t
<1>1. /\ w \in Seq(Nat)
      /\ Len(w) = z + Len(t)
      /\ Len(t) \in Nat
      /\ \A i \in 1..(z + Len(t)) : w[i] = IF i <= z THEN 0 ELSE t[i - z]
  <2>1. 0 \in Nat
    OBVIOUS
  <2> QED
    BY <2>1, ZerosThen, Zenon
<1> HIDE DEF w
<1>2. ASSUME NEW i \in 1..z PROVE w[i] = 0
  <2>1. i \in 1..(z + Len(t)) /\ i <= z
    BY <1>1
  <2> QED
    BY <1>1, <2>1
<1>3. ASSUME z < Len(w) PROVE w[z + 1] # 0
  <2>1. z + 1 \in 1..(z + Len(t)) /\ ~ (z + 1 <= z) /\ (z + 1) - z = 1 /\ Len(t) > 0
    BY <1>1, <1>3
  <2>2. w[z + 1] = t[1]
    BY <1>1, <2>1
  <2> QED
    BY <2>1, <2>2 DEF Canonical
<1>4. StartsWith(z, w)
  <2>1. z \in 0..Len(w)
    BY <1>1
  <2> QED
    BY <1>2, <1>3, <2>1 DEF StartsWith
<1>5. LeadingZeros(w) = z
  BY <1>1, <1>4, LeadingZerosFacts, OneStart
<1> QED
  BY <1>5 DEF w

-----------------------------------------------------------------------------
\* A last digit leaves a numeral canonical, unless it is a zero alone.
LEMMA CanonicalAppend ==
  ASSUME NEW base \in Nat \ {0}, NEW s \in Numerals(base), Canonical(s),
         NEW d \in 0..(base - 1), Len(s) = 0 => d # 0
  PROVE  Append(s, d) \in Numerals(base) /\ Canonical(Append(s, d))
<1> DEFINE D == 0..(base - 1)
           a == Append(s, d)
<1>1. s \in Seq(D) /\ d \in D
  BY DEF Numerals
<1> HIDE DEF D
<1>2. /\ a \in Seq(D) /\ Len(a) = Len(s) + 1 /\ Len(s) \in Nat
      /\ \A i \in 1..Len(s) : a[i] = s[i]
      /\ a[Len(s) + 1] = d
  BY <1>1, AppendProperties, LenProperties
<1> HIDE DEF a
<1>3. Canonical(a)
  <2>1. CASE Len(s) = 0
    BY <1>2, <2>1 DEF Canonical
  <2>2. CASE Len(s) > 0
    <3>1. 1 \in 1..Len(s)
      BY <1>2, <2>2
    <3> QED
      BY <1>2, <2>2, <3>1 DEF Canonical
  <2> QED
    BY <1>2, <2>1, <2>2
<1> QED
  BY <1>2, <1>3 DEF a, D, Numerals

\* The bytes of a number: no zero in front, and the number is found back.
BytesOf(s, n) == s \in Numerals(256) /\ Canonical(s) /\ Number(256, s) = n

LEMMA BytesAppend ==
  ASSUME NEW n \in Nat \ {0}, NEW s, BytesOf(s, n \div 256)
  PROVE  BytesOf(Append(s, n % 256), n)
<1> DEFINE q == n \div 256
           d == n % 256
<1>1. q \in Nat /\ d \in 0..255 /\ n = 256 * q + d
  OBVIOUS
<1> HIDE DEF q, d
<1>2. s \in Seq(0..255) /\ s \in Seq(Nat) /\ Canonical(s) /\ Number(256, s) = q
  <2>1. s \in Seq(0..255) /\ Canonical(s) /\ Number(256, s) = q
    BY DEF BytesOf, Numerals, q
  <2>2. 0..255 \subseteq Nat
    OBVIOUS
  <2> QED
    BY <2>1, <2>2, SeqMonotonic
<1>3. ASSUME Len(s) = 0 PROVE d # 0
  <2>1. s = <<>>
    BY <1>2, <1>3, EmptySeq
  <2>2. q = 0
    BY <1>2, <2>1, NumberAppend
  <2> QED
    BY <1>1, <2>2
<1>4. Append(s, d) \in Numerals(256) /\ Canonical(Append(s, d))
  <2>1. 256 \in Nat \ {0} /\ d \in 0..(256 - 1) /\ s \in Numerals(256)
    BY <1>1, <1>2 DEF Numerals
  <2> QED
    BY <1>2, <1>3, <2>1, CanonicalAppend
<1>5. Number(256, Append(s, d)) = 256 * Number(256, s) + d
  BY <1>1, <1>2, NumberAppend
<1> QED
  BY <1>1, <1>2, <1>4, <1>5 DEF d, BytesOf

LEMMA NoBytes == BytesOf(<<>>, 0)
<1>1. <<>> \in Seq(0..(256 - 1)) /\ Len(<<>>) = 0
  BY EmptySeq
<1> QED
  BY <1>1, NumberAppend DEF BytesOf, Canonical, Numerals

LEMMA Halving ==
  ASSUME NEW n \in Nat \ {0}
  PROVE  n \div 256 \in 0..(n - 1) /\ n \div 256 \in Nat
OBVIOUS

LEMMA OneSequenceOfBytes ==
  ASSUME NEW n, NEW s, NEW t, BytesOf(s, n), BytesOf(t, n)
  PROVE  s = t
<1>1. 256 \in Nat \ {0}
  OBVIOUS
<1> QED
  BY <1>1, OneNumeral DEF BytesOf

\* big.Int.Bytes gives them.
LEMMA NumBytesFacts ==
  ASSUME NEW n \in Nat
  PROVE  BytesOf(NumBytes[n], n)
<1> DEFINE Builds(g) == g = [k \in Nat |-> IF k = 0 THEN <<>> ELSE Append(g[k \div 256], k % 256)]
           S == {k \in Nat : \E s : BytesOf(s, k)}
           f == [k \in Nat |-> CHOOSE s : BytesOf(s, k)]
<1>1. S = Nat
  <2>1. S \in SUBSET Nat
    OBVIOUS
  <2>2. ASSUME NEW k \in Nat, \A m \in 0..(k - 1) : m \in S PROVE k \in S
    <3>1. CASE k = 0
      BY <3>1, NoBytes
    <3>2. CASE k # 0
      <4>1. k \div 256 \in S
        <5> HIDE DEF S
        <5> QED
          BY <2>2, <3>2, Halving
      <4>2. PICK s : BytesOf(s, k \div 256)
        BY <4>1
      <4>3. BytesOf(Append(s, k % 256), k)
        BY <3>2, <4>2, BytesAppend
      <4> QED
        BY <4>3
    <3> QED
      BY <3>1, <3>2
  <2> HIDE DEF S
  <2> QED
    BY <2>1, <2>2, CompleteInduction
<1>2. \A k \in Nat : BytesOf(f[k], k)
  <2>1. ASSUME NEW k \in Nat PROVE BytesOf(CHOOSE s : BytesOf(s, k), k)
    <3>1. \E s : BytesOf(s, k)
      BY <1>1
    <3> QED
      BY <3>1
  <2> QED
    BY <2>1
<1>3. Builds(f)
  <2>1. ASSUME NEW k \in Nat PROVE f[k] = IF k = 0 THEN <<>> ELSE Append(f[k \div 256], k % 256)
    <3> HIDE DEF f
    <3>1. CASE k = 0
      BY <1>2, <3>1, NoBytes, OneSequenceOfBytes
    <3>2. CASE k # 0
      <4>1. BytesOf(f[k \div 256], k \div 256)
        BY <1>2, <3>2, Halving
      <4>2. BytesOf(Append(f[k \div 256], k % 256), k)
        BY <3>2, <4>1, BytesAppend
      <4> QED
        BY <1>2, <3>2, <4>2, OneSequenceOfBytes
    <3> QED
      BY <3>1, <3>2
  <2>2. f = [k \in Nat |-> f[k]]
    OBVIOUS
  <2> HIDE DEF f
  <2> QED
    BY <2>1, <2>2, Zenon
<1>4. Builds(NumBytes)
  <2>1. NumBytes = CHOOSE g : Builds(g)
    BY DEF NumBytes
  <2> HIDE DEF Builds
  <2> QED
    BY <1>3, <2>1
<1>5. \A k \in Nat : NumBytes[k] = IF k = 0 THEN <<>> ELSE Append(NumBytes[k \div 256], k % 256)
  BY <1>4, Zenon
<1> DEFINE T == {k \in Nat : BytesOf(NumBytes[k], k)}
<1>6. T = Nat
  <2>1. T \in SUBSET Nat
    OBVIOUS
  <2>2. ASSUME NEW k \in Nat, \A m \in 0..(k - 1) : m \in T PROVE k \in T
    <3>1. CASE k = 0
      BY <1>5, <3>1, NoBytes
    <3>2. CASE k # 0
      <4>1. k \div 256 \in T
        <5> HIDE DEF T
        <5> QED
          BY <2>2, <3>2, Halving
      <4>2. BytesOf(Append(NumBytes[k \div 256], k % 256), k)
        BY <3>2, <4>1, BytesAppend
      <4> QED
        BY <1>5, <3>2, <4>2
    <3> QED
      BY <3>1, <3>2
  <2> HIDE DEF T
  <2> QED
    BY <2>1, <2>2, CompleteInduction
<1> QED
  BY <1>6

-----------------------------------------------------------------------------
\* The values the carry of AddByte takes, and the digits it leaves.
Carry(d, x) == (256 * d + x) \div 58
Rest(d, x) == (256 * d + x) % 58
CarryStep(b) == [j \in 1..Len(b) |-> [x \in Nat |-> Carry(b[Len(b) + 1 - j], x)]]
Left(b, c) == [j \in 1..Len(b) |-> Rest(b[j], c[Len(b) - j])]

LEMMA CarryType ==
  ASSUME NEW d \in Nat, NEW x \in Nat
  PROVE  /\ Carry(d, x) \in Nat /\ Rest(d, x) \in Digits
         /\ 256 * d + x = 58 * Carry(d, x) + Rest(d, x)
<1>1. 256 * d + x \in Nat
  OBVIOUS
<1> QED
  BY <1>1 DEF Carry, Rest, Digits

LEMMA CarryRuns ==
  ASSUME NEW b \in Seq(Nat), NEW v \in Nat
  PROVE  \E c : Runs(c, v, CarryStep(b), Len(b), Nat) /\ AddByte(b, v) = Left(b, c)
<1> DEFINE L == Len(b)
           step == CarryStep(b)
           Value(j, x) == Carry(b[L + 1 - j], x)
           Builds(g) == g = [j \in 0..Len(b) |->
              IF j = 0 THEN v ELSE (256 * b[Len(b) + 1 - j] + g[j - 1]) \div 58]
           car == CHOOSE g : Builds(g)
<1>1. L \in Nat /\ \A i \in 1..L : b[i] \in Nat
  BY LenProperties, ElementOfSeq
<1>2. \A j \in 1..L, x \in Nat : step[j][x] = Value(j, x) /\ step[j][x] \in Nat
  <2> HIDE DEF L
  <2>1. ASSUME NEW j \in 1..L, NEW x \in Nat PROVE Value(j, x) \in Nat
    <3>1. L + 1 - j \in 1..L
      BY <1>1
    <3> QED
      BY <1>1, <3>1, CarryType
  <2> QED
    BY <1>1, <2>1 DEF CarryStep, L
<1>3. PICK n : Runs(n, v, step, L, Nat)
  <2>1. IsLoop(step, L, Nat)
    BY <1>2 DEF IsLoop
  <2> HIDE DEF step, L
  <2> QED
    BY <1>1, <2>1, Recursion
<1> HIDE DEF Value
<1>4. ASSUME NEW i \in 1..L PROVE n[i] = Value(i, n[i - 1])
  <2>1. i - 1 \in 0..L
    BY <1>1
  <2>2. n[i - 1] \in Nat
    BY <1>3, <2>1 DEF Runs
  <2> QED
    BY <1>2, <1>3, <2>2 DEF Runs
<1>5. Builds(n)
  <2>1. n = [i \in 0..L |-> n[i]]
    BY <1>3 DEF Runs
  <2>2. n[0] = v
    BY <1>3 DEF Runs
  <2> HIDE DEF step
  <2>3. \A i \in 0..L : n[i] = IF i = 0 THEN v ELSE Value(i, n[i - 1])
    BY <1>1, <1>4, <2>2
  <2> QED
    BY <2>1, <2>3 DEF Value, Carry
<1>6. Builds(car)
  <2> HIDE DEF Builds
  <2> QED
    BY <1>5
<1>7. car = [i \in 0..L |-> IF i = 0 THEN v ELSE Value(i, car[i - 1])]
  BY <1>6 DEF Value, Carry
<1>8. AddByte(b, v) = Left(b, car)
  BY DEF AddByte, Left, Rest
<1>9. Runs(car, v, step, L, Nat)
  <2> HIDE DEF car, Builds, step
  <2>1. car[0] = v /\ \A i \in 1..L : car[i] = Value(i, car[i - 1])
    BY <1>1, <1>7
  <2>2. \A i \in 0..L : car[i] \in Nat
    <3> DEFINE S == {i \in Nat : car[i] \in Nat}
    <3>1. 0 \in S
      BY <2>1
    <3>2. ASSUME NEW i \in 0..(L - 1), i \in S PROVE i + 1 \in S
      <4>1. i + 1 \in 1..L /\ (i + 1) - 1 = i /\ car[i] \in Nat
        BY <1>1, <3>2
      <4>2. car[i + 1] = Value(i + 1, car[i])
        BY <2>1, <4>1
      <4>3. Value(i + 1, car[i]) \in Nat
        BY <1>2, <4>1
      <4> QED
        BY <4>1, <4>2, <4>3
    <3> HIDE DEF S
    <3>3. 0..L \subseteq S
      BY <1>1, <3>1, <3>2, IntervalInduction
    <3> QED
      BY <3>3 DEF S
  <2>3. car \in [0..L -> Nat]
    BY <1>7, <2>2
  <2>4. ASSUME NEW i \in 1..L PROVE car[i] = step[i][car[i - 1]]
    <3>1. i - 1 \in 0..L
      BY <1>1
    <3> QED
      BY <1>2, <2>1, <2>2, <3>1
  <2> QED
    BY <2>1, <2>3, <2>4 DEF Runs
<1> QED
  BY <1>8, <1>9

LEMMA AddByteType ==
  ASSUME NEW b \in Seq(Nat), NEW v \in Nat
  PROVE  AddByte(b, v) \in Seq(Digits) /\ Len(AddByte(b, v)) = Len(b)
<1> DEFINE w == AddByte(b, v)
           L == Len(b)
<1>1. PICK n : Runs(n, v, CarryStep(b), L, Nat) /\ w = Left(b, n)
  BY CarryRuns
<1>2. L \in Nat
  BY LenProperties
<1>3. w = [j \in 1..L |-> Rest(b[j], n[L - j])]
  BY <1>1 DEF Left
<1>4. ASSUME NEW j \in 1..L PROVE Rest(b[j], n[L - j]) \in Digits
  <2>1. L - j \in 0..L /\ b[j] \in Nat
    BY <1>2, ElementOfSeq
  <2>2. n[L - j] \in Nat
    BY <1>1, <2>1 DEF Runs
  <2> QED
    BY <2>1, <2>2, CarryType
<1> HIDE DEF w, L
<1>5. w \in [1..L -> Digits]
  BY <1>3, <1>4
<1>6. w \in Seq(Digits) /\ Len(w) = L
  BY <1>2, <1>5
<1> QED
  BY <1>6 DEF w, L

\* A byte is added to the last digit, and its carry to the digits before.
LEMMA AddByteAppend ==
  ASSUME NEW b \in Seq(Nat), NEW d \in Nat, NEW v \in Nat
  PROVE  AddByte(Append(b, d), v) = Append(AddByte(b, Carry(d, v)), Rest(d, v))
<1> DEFINE q == Carry(d, v)
           r == Rest(d, v)
           t == Append(b, d)
           L == Len(b)
           k(m) == [j \in 0..L |-> m[j + 1]]
<1>1. /\ t \in Seq(Nat) /\ Len(t) = L + 1 /\ L \in Nat
      /\ \A i \in 1..L : t[i] = b[i]
      /\ t[L + 1] = d
  BY AppendProperties, LenProperties
<1>2. q \in Nat /\ r \in Digits
  BY CarryType
<1> HIDE DEF q, r
<1>3. PICK n : Runs(n, q, CarryStep(b), L, Nat) /\ AddByte(b, q) = Left(b, n)
  BY <1>2, CarryRuns
<1> HIDE DEF t
<1>4. PICK m : Runs(m, v, CarryStep(t), L + 1, Nat) /\ AddByte(t, v) = Left(t, m)
  BY <1>1, CarryRuns
<1>5. /\ m \in [0..(L + 1) -> Nat] /\ m[0] = v
      /\ \A i \in 1..(L + 1) : m[i] = CarryStep(t)[i][m[i - 1]]
  BY <1>4 DEF Runs
<1> HIDE DEF L
<1>6. ASSUME NEW i \in 1..(L + 1) PROVE m[i] = Carry(t[L + 2 - i], m[i - 1])
  <2>1. i - 1 \in 0..(L + 1) /\ (L + 1) + 1 - i = L + 2 - i
    BY <1>1
  <2>2. CarryStep(t)[i] = [x \in Nat |-> Carry(t[(L + 1) + 1 - i], x)]
    BY <1>1 DEF CarryStep
  <2>3. m[i - 1] \in Nat
    BY <1>5, <2>1
  <2> QED
    BY <1>5, <2>1, <2>2, <2>3
<1>7. Runs(k(m), q, CarryStep(b), L, Nat)
  <2>1. k(m) \in [0..L -> Nat]
    <3>1. \A j \in 0..L : j + 1 \in 0..(L + 1)
      BY <1>1
    <3> QED
      BY <1>5, <3>1
  <2>2. k(m)[0] = q
    <3>1. 1 \in 1..(L + 1) /\ L + 2 - 1 = L + 1 /\ 1 - 1 = 0 /\ 0 \in 0..L /\ 0 + 1 = 1
      BY <1>1
    <3>2. m[1] = Carry(d, v)
      BY <1>1, <1>5, <1>6, <3>1 DEF q
    <3> QED
      BY <3>1, <3>2 DEF q
  <2>3. ASSUME NEW j \in 1..L PROVE k(m)[j] = CarryStep(b)[j][k(m)[j - 1]]
    <3>1. /\ j \in 0..L /\ j - 1 \in 0..L /\ (j - 1) + 1 = j /\ j + 1 \in 1..(L + 1)
          /\ L + 2 - (j + 1) = L + 1 - j /\ L + 1 - j \in 1..L /\ (j + 1) - 1 = j
          /\ j \in 0..(L + 1)
      BY <1>1
    <3>2. k(m)[j] = m[j + 1] /\ k(m)[j - 1] = m[j]
      BY <3>1
    <3>3. m[j + 1] = Carry(b[L + 1 - j], m[j])
      BY <1>1, <1>6, <3>1
    <3>4. CarryStep(b)[j] = [x \in Nat |-> Carry(b[L + 1 - j], x)]
      BY DEF CarryStep, L
    <3>5. m[j] \in Nat
      BY <1>5, <3>1
    <3> QED
      BY <3>2, <3>3, <3>4, <3>5
  <2> HIDE DEF k
  <2> QED
    BY <2>1, <2>2, <2>3 DEF Runs
<1>8. \A j \in 0..L : m[j + 1] = n[j]
  <2>1. \A j \in 0..L : k(m)[j] = m[j + 1]
    OBVIOUS
  <2>2. L \in Nat /\ L <= L
    BY <1>1
  <2> HIDE DEF k
  <2>3. \A j \in 0..L : k(m)[j] = n[j]
    BY <1>3, <1>7, <2>2, RunUnique
  <2> QED
    BY <2>1, <2>3
<1>9. /\ AddByte(b, q) \in Seq(Digits) /\ Len(AddByte(b, q)) = L
      /\ \A j \in 1..L : AddByte(b, q)[j] = Rest(b[j], n[L - j])
  <2>1. AddByte(b, q) = [j \in 1..L |-> Rest(b[j], n[L - j])]
    BY <1>3 DEF Left, L
  <2> QED
    BY <1>2, <2>1, AddByteType DEF L
<1>10. AddByte(t, v) = Append(AddByte(b, q), r)
  <2> DEFINE a == Append(AddByte(b, q), r)
             w == AddByte(t, v)
  <2>1. /\ a \in Seq(Digits) /\ Len(a) = L + 1
        /\ \A j \in 1..L : a[j] = Rest(b[j], n[L - j])
        /\ a[L + 1] = r
    <3>1. /\ a \in Seq(Digits) /\ Len(a) = Len(AddByte(b, q)) + 1
          /\ \A j \in 1..Len(AddByte(b, q)) : a[j] = AddByte(b, q)[j]
          /\ a[Len(AddByte(b, q)) + 1] = r
      BY <1>2, <1>9, AppendProperties
    <3> HIDE DEF a
    <3> QED
      BY <1>9, <3>1
  <2>2. w = [j \in 1..(L + 1) |-> Rest(t[j], m[(L + 1) - j])]
    BY <1>1, <1>4 DEF Left
  <2> HIDE DEF a, w
  <2>3. ASSUME NEW j \in 1..(L + 1) PROVE w[j] = a[j] /\ w[j] \in Digits
    <3>1. CASE j = L + 1
      <4>1. (L + 1) - j = 0
        BY <1>1, <3>1
      <4>2. w[j] = Rest(d, v)
        BY <1>1, <1>5, <2>2, <3>1, <4>1
      <4> QED
        BY <1>2, <2>1, <3>1, <4>2 DEF r
    <3>2. CASE j \in 1..L
      <4>1. L - j \in 0..L /\ (L + 1) - j = (L - j) + 1
        BY <1>1, <3>2
      <4>2. m[(L + 1) - j] = n[L - j]
        BY <1>8, <4>1
      <4>3. t[j] = b[j]
        BY <1>1, <3>2
      <4>4. w[j] = Rest(b[j], n[L - j])
        BY <2>2, <4>2, <4>3
      <4>5. a[j] \in Digits
        BY <2>1, ElementOfSeq
      <4> QED
        BY <2>1, <3>2, <4>4, <4>5
    <3> QED
      BY <1>1, <3>1, <3>2
  <2>4. w \in [1..(L + 1) -> Digits]
    BY <2>2, <2>3
  <2>5. w \in Seq(Digits) /\ Len(w) = L + 1
    <3>1. L + 1 \in Nat
      BY <1>1
    <3> QED
      BY <2>4, <3>1
  <2>6. w = a
    BY <2>1, <2>3, <2>5, SeqEqual
  <2> QED
    BY <2>6 DEF a, w
<1> QED
  BY <1>10 DEF t, q, r

\* The buffer times 256 and the byte, but for what the carry takes out of the buffer.
LEMMA AddByteNumber ==
  ASSUME NEW pow, IsPower(pow, 58), NEW b \in Seq(Digits), NEW v \in Nat
  PROVE  \E c \in Nat :
           256 * Number(58, b) + v = c * pow[Len(b)] + Number(58, AddByte(b, v))
<1> DEFINE Carries(s, x, c) ==
             256 * Number(58, s) + x = c * pow[Len(s)] + Number(58, AddByte(s, x))
           F == {s \in Seq(Digits) : \A x \in Nat : \E c \in Nat : Carries(s, x, c)}
<1>1. Digits \subseteq Nat
  BY DEF Digits
<1>2. \A s \in Seq(Digits) : s \in Seq(Nat)
  BY <1>1, SeqMonotonic
<1>3. <<>> \in F
  <2>1. <<>> \in Seq(Digits) /\ Len(<<>>) = 0
    BY EmptySeq
  <2>2. ASSUME NEW x \in Nat PROVE Carries(<<>>, x, x)
    <3>1. AddByte(<<>>, x) \in Seq(Digits) /\ Len(AddByte(<<>>, x)) = 0
      BY <1>2, <2>1, AddByteType
    <3>2. AddByte(<<>>, x) = <<>>
      BY <3>1, EmptySeq
    <3>3. Number(58, <<>>) = 0 /\ Number(58, AddByte(<<>>, x)) = 0
      BY <3>2, NumberAppend
    <3>4. pow[Len(<<>>)] = 1
      BY <2>1 DEF IsPower
    <3>5. 256 * 0 + x = x * 1 + 0
      OBVIOUS
    <3> QED
      BY <3>3, <3>4, <3>5
  <2> HIDE DEF Carries
  <2> QED
    BY <2>1, <2>2
<1>4. ASSUME NEW s \in F, NEW d \in Digits PROVE Append(s, d) \in F
  <2> DEFINE a == Append(s, d)
  <2>1. s \in Seq(Digits) /\ s \in Seq(Nat) /\ d \in Nat
    BY <1>1, <1>2
  <2>2. a \in Seq(Digits) /\ Len(a) = Len(s) + 1 /\ Len(s) \in Nat
    BY <2>1, AppendProperties, LenProperties
  <2>3. ASSUME NEW x \in Nat PROVE \E c \in Nat : Carries(a, x, c)
    <3> DEFINE q == Carry(d, x)
               r == Rest(d, x)
    <3>1. q \in Nat /\ r \in Digits /\ r \in Nat /\ 256 * d + x = 58 * q + r
      <4>1. q \in Nat /\ r \in Digits /\ 256 * d + x = 58 * q + r
        BY <2>1, CarryType
      <4> HIDE DEF q, r
      <4> QED
        BY <1>1, <4>1
    <3> HIDE DEF q, r
    <3>2. PICK c \in Nat : Carries(s, q, c)
      BY <3>1
    <3> DEFINE P == pow[Len(s)]
               N == Number(58, s)
               A == Number(58, AddByte(s, q))
    <3>3. AddByte(s, q) \in Seq(Nat)
      BY <1>2, <2>1, <3>1, AddByteType
    <3>4. N \in Nat /\ A \in Nat /\ P \in Nat /\ pow[Len(a)] = 58 * P
      BY <2>1, <2>2, <3>3, NumberAppend DEF IsPower
    <3>5. Number(58, a) = 58 * N + d
      BY <2>1, NumberAppend
    <3>6. Number(58, AddByte(a, x)) = 58 * A + r
      <4>1. AddByte(a, x) = Append(AddByte(s, q), r)
        BY <2>1, AddByteAppend DEF q, r
      <4> QED
        BY <3>1, <3>3, <4>1, NumberAppend
    <3>7. 256 * N + q = c * P + A
      BY <3>2
    <3> HIDE DEF P, N, A
    <3>8. c * (58 * P) = 58 * (c * P) /\ c * P \in Nat
      BY <3>4
    <3>9. 256 * (58 * N + d) + x = c * (58 * P) + (58 * A + r)
      BY <2>1, <3>1, <3>4, <3>7, <3>8
    <3>10. Carries(a, x, c)
      BY <3>4, <3>5, <3>6, <3>9
    <3> HIDE DEF Carries
    <3> QED
      BY <3>10
  <2> HIDE DEF Carries
  <2> QED
    BY <2>2, <2>3
<1>5. F = Seq(Digits)
  <2>1. F \in SUBSET Seq(Digits)
    OBVIOUS
  <2> HIDE DEF F
  <2> QED
    BY <1>3, <1>4, <2>1, SequenceInduction
<1> QED
  BY <1>5

\* What fits is below the power of the length.
LEMMA NumberBound ==
  ASSUME NEW base \in Nat \ {0}, NEW pow, IsPower(pow, base), NEW s \in Numerals(base)
  PROVE  Number(base, s) \in Nat /\ Number(base, s) < pow[Len(s)]
<1> DEFINE D == 0..(base - 1)
           F == {u \in Seq(D) : Number(base, u) < pow[Len(u)]}
<1>1. D \subseteq Nat
  OBVIOUS
<1>2. \A u \in Seq(D) : u \in Seq(Nat) /\ Number(base, u) \in Nat
  <2> HIDE DEF D
  <2>1. \A u \in Seq(D) : u \in Seq(Nat)
    BY <1>1, SeqMonotonic
  <2> QED
    BY <2>1, NumberAppend
<1>3. <<>> \in F
  <2>1. Number(base, <<>>) = 0 /\ Len(<<>>) = 0 /\ <<>> \in Seq(D) /\ pow[0] = 1
    <3> HIDE DEF D
    <3> QED
      BY EmptySeq, NumberAppend DEF IsPower
  <2> QED
    BY <2>1
<1>4. ASSUME NEW u \in F, NEW d \in D PROVE Append(u, d) \in F
  <2> DEFINE N == Number(base, u)
             P == pow[Len(u)]
             a == Append(u, d)
  <2>1. u \in Seq(D) /\ u \in Seq(Nat) /\ N \in Nat /\ N < P /\ d \in Nat /\ d < base
    BY <1>2
  <2>2. /\ a \in Seq(D) /\ Len(a) = Len(u) + 1 /\ Len(u) \in Nat
        /\ Number(base, a) = base * N + d
    <3> HIDE DEF D
    <3> QED
      BY <2>1, AppendProperties, LenProperties, NumberAppend
  <2>3. P \in Nat /\ pow[Len(a)] = base * P
    BY <2>2 DEF IsPower
  <2>4. base * N + d < base * P
    <3> HIDE DEF N, P
    <3>1. (N + 1) * base <= P * base /\ (N + 1) * base = N * base + base
      BY <2>1, <2>3, Products
    <3>2. N * base = base * N /\ P * base = base * P /\ N * base \in Nat /\ P * base \in Nat
      BY <2>1, <2>3, Products
    <3> QED
      BY <2>1, <3>1, <3>2
  <2> QED
    BY <2>2, <2>3, <2>4
<1>5. F = Seq(D)
  <2>1. F \in SUBSET Seq(D)
    OBVIOUS
  <2> HIDE DEF F, D
  <2> QED
    BY <1>3, <1>4, <2>1, SequenceInduction
<1> QED
  BY <1>2, <1>5 DEF Numerals

-----------------------------------------------------------------------------
\* The length of the buffer: 58^11 is more than 256^8, and 138 / 100 more than 11 / 8.
Size(n) == (n * 138) \div 100 + 1

LEMMA FirstPowers ==
  ASSUME NEW p, IsPower(p, 256), NEW s, IsPower(s, 58)
  PROVE  /\ p[0] <= s[1] /\ p[1] <= s[2] /\ p[2] <= s[3] /\ p[3] <= s[5] /\ p[4] <= s[6]
         /\ p[5] <= s[7] /\ p[6] <= s[9] /\ p[7] <= s[10] /\ p[8] <= s[11]
<1>1. \A n \in Nat : p[n + 1] = 256 * p[n] /\ s[n + 1] = 58 * s[n]
  BY DEF IsPower
<1>2. /\ p[0 + 1] = 256 * p[0] /\ p[1 + 1] = 256 * p[1] /\ p[2 + 1] = 256 * p[2]
      /\ p[3 + 1] = 256 * p[3] /\ p[4 + 1] = 256 * p[4] /\ p[5 + 1] = 256 * p[5]
      /\ p[6 + 1] = 256 * p[6] /\ p[7 + 1] = 256 * p[7]
  BY <1>1
<1>3. /\ s[0 + 1] = 58 * s[0] /\ s[1 + 1] = 58 * s[1] /\ s[2 + 1] = 58 * s[2]
      /\ s[3 + 1] = 58 * s[3] /\ s[4 + 1] = 58 * s[4] /\ s[5 + 1] = 58 * s[5]
      /\ s[6 + 1] = 58 * s[6] /\ s[7 + 1] = 58 * s[7] /\ s[8 + 1] = 58 * s[8]
      /\ s[9 + 1] = 58 * s[9] /\ s[10 + 1] = 58 * s[10]
  BY <1>1
<1>4. p[0] = 1 /\ s[0] = 1
  BY DEF IsPower
<1> QED
  BY <1>2, <1>3, <1>4

LEMMA BufferFits ==
  ASSUME NEW p, IsPower(p, 256), NEW s, IsPower(s, 58), NEW n \in Nat
  PROVE  p[n] <= s[Size(n)]
<1> DEFINE S == {k \in Nat : p[k] <= s[Size(k)]}
<1>1. \A k \in Nat : Size(k) \in Nat /\ p[k] \in Nat
  BY DEF Size, IsPower
<1>2. ASSUME NEW k \in Nat, \A m \in 0..(k - 1) : m \in S PROVE k \in S
  <2>1. CASE k \in 0..7
    <3>1. /\ Size(0) = 1 /\ Size(1) = 2 /\ Size(2) = 3 /\ Size(3) = 5 /\ Size(4) = 6
          /\ Size(5) = 7 /\ Size(6) = 9 /\ Size(7) = 10
      BY DEF Size
    <3>2. k = 0 \/ k = 1 \/ k = 2 \/ k = 3 \/ k = 4 \/ k = 5 \/ k = 6 \/ k = 7
      BY <2>1
    <3> QED
      BY <3>1, <3>2, FirstPowers
  <2>2. CASE k \notin 0..7
    <3> DEFINE m == k - 8
    <3>1. m \in 0..(k - 1) /\ m \in Nat /\ k = m + 8
      BY <2>2
    <3>2. p[m] <= s[Size(m)]
      BY <1>2, <3>1
    <3> HIDE DEF m
    <3>3. Size(m) + 11 <= Size(k)
      BY <3>1 DEF Size
    <3>4. p[k] = p[m] * p[8] /\ s[Size(m) + 11] = s[Size(m)] * s[11]
      <4>1. p[m + 8] = p[m] * p[8]
        BY <3>1, PowerSum
      <4>2. s[Size(m) + 11] = s[Size(m)] * s[11]
        <5>1. Size(m) \in Nat /\ 11 \in Nat /\ 58 \in Nat \ {0}
          BY <1>1, <3>1
        <5> HIDE DEF S
        <5> QED
          BY <5>1, PowerSum
      <4> QED
        BY <3>1, <4>1, <4>2
    <3> DEFINE a == p[m]
               b == p[8]
               c == s[Size(m)]
               d == s[11]
    <3>5. a \in Nat /\ b \in Nat /\ c \in Nat /\ d \in Nat /\ b <= d
      BY <1>1, <3>1, FirstPowers DEF IsPower
    <3>6. a * b <= c * d
      <4> HIDE DEF a, b, c, d
      <4>1. a <= c
        BY <3>2 DEF a, c
      <4>2. a * b <= c * b /\ b * c <= d * c
        BY <3>5, <4>1, Products
      <4>3. b * c = c * b /\ d * c = c * d /\ a * b \in Nat /\ c * b \in Nat /\ c * d \in Nat
        BY <3>5, Products
      <4> QED
        BY <4>2, <4>3
    <3>7. s[Size(m) + 11] <= s[Size(k)]
      BY <1>1, <3>1, <3>3, PowerMonotone
    <3>8. s[Size(m) + 11] \in Nat /\ s[Size(k)] \in Nat /\ p[k] \in Nat
      <4>1. Size(m) + 11 \in Nat /\ Size(k) \in Nat
        BY <1>1, <3>1
      <4> QED
        BY <1>1, <4>1 DEF IsPower
    <3>9. p[k] <= s[Size(k)]
      BY <3>4, <3>6, <3>7, <3>8
    <3> QED
      BY <3>9
  <2> QED
    BY <2>1, <2>2
<1>3. S = Nat
  <2>1. S \in SUBSET Nat
    OBVIOUS
  <2> HIDE DEF S
  <2> QED
    BY <1>2, <2>1, CompleteInduction
<1> QED
  BY <1>3

\* The buffer takes every byte: in the end it holds the number the bytes are.
BufferStep(b) == [i \in 1..Len(b) |-> [x \in Seq(Digits) |-> AddByte(x, b[i])]]

LEMMA BufferRuns ==
  ASSUME NEW b \in Seq(Nat)
  PROVE  \E h : /\ Runs(h, Zeros(Size(Len(b))), BufferStep(b), Len(b), Seq(Digits))
                /\ Buffer(b) = h[Len(b)]
<1> DEFINE L == Len(b)
           V == Seq(Digits)
           first == Zeros(Size(L))
           step == BufferStep(b)
           Builds(g) == g = [i \in 0..Len(b) |->
              IF i = 0 THEN Zeros((Len(b) * 138) \div 100 + 1) ELSE AddByte(g[i - 1], b[i])]
           buf == CHOOSE g : Builds(g)
<1>1. L \in Nat /\ \A i \in 1..L : b[i] \in Nat
  BY LenProperties, ElementOfSeq
<1>2. first \in V
  <2>1. Size(L) \in Nat
    BY <1>1 DEF Size
  <2>2. {0} \subseteq Digits
    BY DEF Digits
  <2> QED
    BY <2>1, <2>2, ZerosFacts, SeqMonotonic
<1>3. \A i \in 1..L, x \in V : step[i][x] = AddByte(x, b[i]) /\ step[i][x] \in V
  <2>1. Digits \subseteq Nat
    BY DEF Digits
  <2>2. ASSUME NEW i \in 1..L, NEW x \in V PROVE AddByte(x, b[i]) \in V
    BY <1>1, <2>1, SeqMonotonic, AddByteType
  <2> QED
    BY <2>2 DEF BufferStep
<1> HIDE DEF V, step, first
<1>4. PICK n : Runs(n, first, step, L, V)
  <2>1. IsLoop(step, L, V)
    BY <1>3 DEF IsLoop
  <2> HIDE DEF L
  <2> QED
    BY <1>1, <1>2, <2>1, Recursion
<1>5. ASSUME NEW i \in 1..L PROVE n[i] = AddByte(n[i - 1], b[i])
  <2>1. i - 1 \in 0..L
    BY <1>1
  <2>2. n[i - 1] \in V
    BY <1>4, <2>1 DEF Runs
  <2> QED
    BY <1>3, <1>4, <2>2 DEF Runs
<1>6. Builds(n)
  <2>1. n = [i \in 0..L |-> n[i]]
    BY <1>4 DEF Runs
  <2>2. n[0] = first
    BY <1>4 DEF Runs
  <2>3. \A i \in 0..L : n[i] = IF i = 0 THEN first ELSE AddByte(n[i - 1], b[i])
    BY <1>1, <1>5, <2>2
  <2> QED
    BY <2>1, <2>3 DEF first, Size
<1>7. Builds(buf)
  <2> HIDE DEF Builds
  <2> QED
    BY <1>6
<1>8. buf = [i \in 0..L |-> IF i = 0 THEN first ELSE AddByte(buf[i - 1], b[i])]
  BY <1>7 DEF first, Size
<1>9. Buffer(b) = buf[L]
  BY DEF Buffer
<1>10. Runs(buf, first, step, L, V)
  <2> HIDE DEF buf, Builds, L
  <2>1. buf[0] = first /\ \A i \in 1..L : buf[i] = AddByte(buf[i - 1], b[i])
    BY <1>1, <1>8
  <2>2. \A i \in 0..L : buf[i] \in V
    <3> DEFINE S == {i \in Nat : buf[i] \in V}
    <3>1. 0 \in S
      BY <1>2, <2>1
    <3>2. ASSUME NEW i \in 0..(L - 1), i \in S PROVE i + 1 \in S
      <4>1. i + 1 \in 1..L /\ (i + 1) - 1 = i /\ buf[i] \in V
        BY <1>1, <3>2
      <4>2. buf[i + 1] = step[i + 1][buf[i]]
        BY <1>3, <2>1, <4>1
      <4> QED
        BY <1>3, <4>1, <4>2
    <3> HIDE DEF S
    <3>3. 0..L \subseteq S
      BY <1>1, <3>1, <3>2, IntervalInduction
    <3> QED
      BY <3>3 DEF S
  <2>3. buf \in [0..L -> V]
    BY <1>8, <2>2
  <2>4. ASSUME NEW i \in 1..L PROVE buf[i] = step[i][buf[i - 1]]
    <3>1. i - 1 \in 0..L
      BY <1>1
    <3> QED
      BY <1>3, <2>1, <2>2, <3>1
  <2> QED
    BY <2>1, <2>3, <2>4 DEF Runs
<1> QED
  BY <1>9, <1>10 DEF first, step, V

\* The number the first bytes are.
First(b, i) == Number(256, SubSeq(b, 1, i))

LEMMA FirstNumbers ==
  ASSUME NEW b \in Numerals(256), NEW p, IsPower(p, 256)
  PROVE  /\ First(b, 0) = 0
         /\ First(b, Len(b)) = Number(256, b)
         /\ \A i \in 0..Len(b) : First(b, i) \in Nat /\ First(b, i) < p[i]
         /\ \A i \in 0..(Len(b) - 1) : First(b, i + 1) = 256 * First(b, i) + b[i + 1]
<1> DEFINE D == 0..255
           L == Len(b)
<1>1. b \in Seq(D) /\ D \subseteq Nat
  BY DEF Numerals
<1> HIDE DEF D
<1>2. L \in Nat /\ \A i \in 1..L : b[i] \in D
  BY <1>1, LenProperties, ElementOfSeq
<1>3. ASSUME NEW i \in 0..L
      PROVE  SubSeq(b, 1, i) \in Seq(D) /\ Len(SubSeq(b, 1, i)) = i
  <2>1. 1 \in Int /\ i \in Int /\ \A j \in 1..i : b[j] \in D
    BY <1>2
  <2>2. SubSeq(b, 1, i) \in Seq(D) /\ Len(SubSeq(b, 1, i)) = IF 1 <= i THEN i - 1 + 1 ELSE 0
    BY <2>1, SubSeqProperties
  <2>3. (IF 1 <= i THEN i - 1 + 1 ELSE 0) = i
    BY <1>2
  <2> QED
    BY <2>2, <2>3
<1>4. First(b, 0) = 0
  <2>1. SubSeq(b, 1, 0) = <<>>
    <3>1. 1 \in Int /\ 0 \in Int /\ 0 < 1
      OBVIOUS
    <3> QED
      BY <3>1, SubSeqEmpty
  <2>2. 256 \in Nat
    OBVIOUS
  <2>3. Number(256, <<>>) = 0
    BY <2>2, NumberAppend
  <2> QED
    BY <2>1, <2>3 DEF First
<1>5. First(b, L) = Number(256, b)
  BY <1>1, SubSeqFull DEF First
<1>6. ASSUME NEW i \in 0..L PROVE First(b, i) \in Nat /\ First(b, i) < p[i]
  <2>1. SubSeq(b, 1, i) \in Numerals(256) /\ Len(SubSeq(b, 1, i)) = i
    BY <1>3 DEF D, Numerals
  <2>2. 256 \in Nat \ {0}
    OBVIOUS
  <2> QED
    BY <2>1, <2>2, NumberBound DEF First
<1>7. ASSUME NEW i \in 0..(L - 1) PROVE First(b, i + 1) = 256 * First(b, i) + b[i + 1]
  <2>1. i \in 0..L /\ i + 1 \in 1..L /\ (i + 1) - 1 = i /\ 1 \in 1..L /\ i + 1 \in 0..L
    BY <1>2
  <2>2. SubSeq(b, 1, i + 1) = SubSeq(b, 1, i) \o <<b[i + 1]>>
    BY <1>1, <2>1, SubSeqRecursiveSecond DEF L
  <2>3. SubSeq(b, 1, i) \in Seq(Nat) /\ b[i + 1] \in Nat
    BY <1>1, <1>2, <1>3, <2>1, SeqMonotonic
  <2>4. SubSeq(b, 1, i + 1) = Append(SubSeq(b, 1, i), b[i + 1])
    BY <2>2, <2>3, AppendIsConcat
  <2>5. 256 \in Nat
    OBVIOUS
  <2> DEFINE u == SubSeq(b, 1, i)
             d == b[i + 1]
  <2>6. u \in Seq(Nat) /\ d \in Nat
    BY <2>3
  <2> HIDE DEF u, d
  <2>7. Number(256, Append(u, d)) = 256 * Number(256, u) + d
    BY <2>5, <2>6, NumberAppend
  <2> QED
    BY <2>4, <2>7 DEF First, u, d
<1> QED
  BY <1>4, <1>5, <1>6, <1>7

LEMMA BufferNumber ==
  ASSUME NEW b \in Numerals(256)
  PROVE  Buffer(b) \in Numerals(58) /\ Number(58, Buffer(b)) = Number(256, b)
<1> DEFINE L == Len(b)
           N == Size(L)
<1>1. b \in Seq(0..255) /\ b \in Seq(Nat)
  <2>1. b \in Seq(0..255)
    BY DEF Numerals
  <2>2. 0..255 \subseteq Nat
    OBVIOUS
  <2> QED
    BY <2>1, <2>2, SeqMonotonic
<1>2. L \in Nat /\ N \in Nat /\ \A i \in 1..L : b[i] \in 0..255
  BY <1>1, LenProperties, ElementOfSeq DEF Size
<1>3. PICK p : IsPower(p, 256)
  <2>1. 256 \in Nat \ {0}
    OBVIOUS
  <2> QED
    BY <2>1, PowerExists
<1>4. PICK s : IsPower(s, 58)
  <2>1. 58 \in Nat \ {0}
    OBVIOUS
  <2> QED
    BY <2>1, PowerExists
<1>5. PICK h : Runs(h, Zeros(N), BufferStep(b), L, Seq(Digits)) /\ Buffer(b) = h[L]
  BY <1>1, BufferRuns
<1>6. /\ h \in [0..L -> Seq(Digits)] /\ h[0] = Zeros(N)
      /\ \A i \in 1..L : h[i] = AddByte(h[i - 1], b[i])
  <2>1. /\ h \in [0..L -> Seq(Digits)] /\ h[0] = Zeros(N)
        /\ \A i \in 1..L : h[i] = BufferStep(b)[i][h[i - 1]]
    BY <1>5 DEF Runs
  <2>2. ASSUME NEW i \in 1..L PROVE h[i] = AddByte(h[i - 1], b[i])
    <3>1. i - 1 \in 0..L
      BY <1>2
    <3>2. h[i - 1] \in Seq(Digits)
      BY <2>1, <3>1
    <3>3. BufferStep(b)[i] = [x \in Seq(Digits) |-> AddByte(x, b[i])]
      BY DEF BufferStep
    <3> QED
      BY <2>1, <3>2, <3>3
  <2> QED
    BY <2>1, <2>2
<1>7. \A x \in Seq(Digits) : x \in Seq(Nat) /\ x \in Numerals(58) /\ Number(58, x) \in Nat
  <2>1. Digits \subseteq Nat /\ Digits = 0..(58 - 1)
    BY DEF Digits
  <2>2. \A x \in Seq(Digits) : x \in Seq(Nat)
    BY <2>1, SeqMonotonic
  <2> QED
    BY <2>1, <2>2, NumberAppend DEF Numerals
<1> DEFINE Holds(i) == Len(h[i]) = N /\ Number(58, h[i]) = First(b, i)
           S == {i \in Nat : Holds(i)}
<1> HIDE DEF N, L
<1>8. Holds(0)
  <2>1. Len(h[0]) = N
    BY <1>2, <1>6, ZerosFacts
  <2>2. Number(58, h[0]) = 0
    <3>1. <<>> \in Seq(Nat) /\ Zeros(N) \in Seq(Nat)
      BY <1>2, EmptySeq, ZerosFacts
    <3>2. Zeros(N) \o <<>> = Zeros(N)
      BY <3>1, ConcatEmptySeq
    <3>3. 58 \in Nat
      OBVIOUS
    <3>4. Number(58, Zeros(N) \o <<>>) = Number(58, <<>>)
      BY <1>2, <3>1, <3>3, ZerosInFront
    <3>5. Number(58, <<>>) = 0
      BY <3>3, NumberAppend
    <3> QED
      BY <1>6, <3>2, <3>4, <3>5
  <2> QED
    BY <1>3, <2>1, <2>2, FirstNumbers
<1>9. ASSUME NEW i \in 0..(L - 1), Holds(i) PROVE Holds(i + 1)
  <2> DEFINE v == b[i + 1]
             x == h[i]
             y == AddByte(x, v)
  <2>1. i \in 0..L /\ i + 1 \in 1..L /\ (i + 1) - 1 = i /\ i + 1 \in Nat /\ i + 1 <= L
    BY <1>2
  <2>2. x \in Seq(Digits) /\ v \in Nat
    <3>1. v \in 0..255
      BY <1>2, <2>1
    <3>2. x \in Seq(Digits)
      BY <1>6, <2>1
    <3>3. v \in Nat
      <4> HIDE DEF v
      <4> QED
        BY <3>1
    <3> QED
      BY <3>2, <3>3, Zenon
  <2>3. h[i + 1] = y /\ Len(x) = N /\ Number(58, x) = First(b, i)
    BY <1>6, <1>9, <2>1
  <2> HIDE DEF v, x, Holds
  <2>4. y \in Seq(Digits) /\ Len(y) = N
    BY <1>7, <2>2, <2>3, AddByteType
  <2> DEFINE f == First(b, i + 1)
             w == Number(58, y)
             P == s[N]
  <2>5. f = 256 * First(b, i) + v
    BY <1>3, FirstNumbers DEF v, L
  <2>6. PICK c \in Nat : 256 * Number(58, x) + v = c * P + w
    BY <1>4, <2>2, <2>3, AddByteNumber
  <2>7. f \in Nat /\ f < P
    <3>1. First(b, i + 1) \in Nat /\ First(b, i + 1) < p[i + 1]
      BY <1>2, <1>3, <2>1, FirstNumbers DEF L
    <3>2. p[i + 1] <= p[L]
      BY <1>2, <1>3, <2>1, PowerMonotone
    <3>3. p[L] <= P
      BY <1>2, <1>3, <1>4, BufferFits DEF N
    <3>4. p[i + 1] \in Nat /\ p[L] \in Nat /\ P \in Nat
      BY <1>2, <1>3, <1>4, <2>1 DEF IsPower
    <3> QED
      BY <3>1, <3>2, <3>3, <3>4
  <2>8. f = c * P + w /\ w \in Nat /\ P \in Nat
    <3>1. w \in Nat
      BY <1>7, <2>4
    <3>2. P \in Nat
      BY <1>2, <1>4 DEF IsPower
    <3> QED
      BY <2>3, <2>5, <2>6, <3>1, <3>2
  <2> HIDE DEF f, w, P
  <2>9. c = 0
    <3>1. SUFFICES ASSUME 1 <= c PROVE FALSE
      BY <2>6
    <3>2. 1 * P <= c * P /\ 1 * P = P /\ c * P \in Nat
      BY <2>6, <2>8, <3>1, Products
    <3> QED
      BY <2>7, <2>8, <3>2
  <2>10. w = f
    <3>1. c * P = 0
      BY <2>8, <2>9
    <3> QED
      BY <2>8, <3>1
  <2> QED
    BY <2>3, <2>4, <2>10 DEF Holds, f, w
<1>10. Holds(L)
  <2>1. 0 \in S
    BY <1>8
  <2>2. \A i \in 0..(L - 1) : i \in S => i + 1 \in S
    BY <1>9
  <2> HIDE DEF S
  <2>3. 0..L \subseteq S
    BY <1>2, <2>1, <2>2, IntervalInduction
  <2>4. L \in S
    BY <1>2, <2>3
  <2> QED
    BY <2>4 DEF S
<1>11. First(b, L) = Number(256, b)
  BY <1>3, FirstNumbers DEF L
<1>12. h[L] \in Seq(Digits)
  BY <1>2, <1>6
<1> QED
  BY <1>5, <1>7, <1>10, <1>11, <1>12

-----------------------------------------------------------------------------
\* Without its leading zeros a text stands for the same number.
LEMMA RestNumber ==
  ASSUME NEW base \in Nat \ {0}, NEW s \in Numerals(base)
  PROVE  Number(base, SkipZeros(s)) = Number(base, s)
<1> DEFINE z == LeadingZeros(s)
           t == SkipZeros(s)
<1>1. z \in Nat /\ t \in Numerals(base) /\ s = Zeros(z) \o t
  BY ZerosAndRest
<1> HIDE DEF z, t
<1>2. t \in Seq(Nat)
  <2>1. t \in Seq(0..(base - 1)) /\ 0..(base - 1) \subseteq Nat
    BY <1>1 DEF Numerals
  <2> QED
    BY <2>1, SeqMonotonic
<1>3. Number(base, Zeros(z) \o t) = Number(base, t)
  BY <1>1, <1>2, ZerosInFront
<1>4. Number(base, t) = Number(base, s)
  BY <1>1, <1>3
<1> QED
  BY <1>4 DEF t

\* What base58Encode writes of bytes, base58Decode reads,
LEMMA EncodeDecode ==
  ASSUME NEW b \in Seq(0..255)
  PROVE  Base58Encode(b) \in Seq(Digits) /\ Base58Decode(Base58Encode(b)) = b
<1> DEFINE z == LeadingZeros(b)
           r == SkipZeros(b)
           t == SkipZeros(Buffer(b))
           u == Zeros(z) \o t
<1>1. b \in Numerals(256) /\ 256 \in Nat \ {0} /\ 58 \in Nat \ {0}
  BY DEF Numerals
<1>2. z \in Nat /\ r \in Numerals(256) /\ Canonical(r) /\ b = Zeros(z) \o r
  BY <1>1, ZerosAndRest
<1>3. Buffer(b) \in Numerals(58) /\ Number(58, Buffer(b)) = Number(256, b)
  BY <1>1, BufferNumber
<1>4. /\ LeadingZeros(Buffer(b)) \in Nat /\ t \in Numerals(58) /\ Canonical(t)
      /\ Buffer(b) = Zeros(LeadingZeros(Buffer(b))) \o t
  BY <1>1, <1>3, ZerosAndRest
<1> HIDE DEF z, r, t
<1>5. t \in Seq(Digits) /\ t \in Seq(Nat) /\ r \in Seq(Nat)
  <2>1. t \in Seq(0..(58 - 1)) /\ r \in Seq(0..(256 - 1))
    BY <1>2, <1>4 DEF Numerals
  <2>2. 0..(58 - 1) \subseteq Nat /\ 0..(256 - 1) \subseteq Nat /\ Digits = 0..(58 - 1)
    BY DEF Digits
  <2>3. t \in Seq(Digits)
    BY <2>1, <2>2
  <2>4. t \in Seq(Nat)
    BY <2>1, <2>2, SeqMonotonic
  <2>5. r \in Seq(Nat)
    <3> DEFINE D == 0..(256 - 1)
    <3>1. r \in Seq(D) /\ D \subseteq Nat
      BY <2>1, <2>2
    <3> HIDE DEF D
    <3> QED
      BY <3>1, SeqMonotonic
  <2> QED
    BY <2>3, <2>4, <2>5
<1>6. Number(58, t) = Number(256, r)
  <2>1. Number(58, t) = Number(58, Buffer(b))
    BY <1>1, <1>3, RestNumber DEF t
  <2>2. Number(256, r) = Number(256, b)
    BY <1>1, RestNumber DEF r
  <2> QED
    BY <1>3, <2>1, <2>2
<1>7. Number(58, u) = Number(256, r) /\ LeadingZeros(u) = z
  BY <1>1, <1>2, <1>4, <1>5, <1>6, ZerosInFront, ZerosOfCanonical
<1>8. NumBytes[Number(256, r)] = r
  <2>1. Number(256, r) \in Nat
    BY <1>1, <1>5, NumberAppend
  <2>2. BytesOf(NumBytes[Number(256, r)], Number(256, r))
    BY <2>1, NumBytesFacts
  <2>3. BytesOf(r, Number(256, r))
    BY <1>2 DEF BytesOf
  <2> QED
    BY <2>2, <2>3, OneSequenceOfBytes
<1>9. u \in Seq(Digits)
  <2>1. 0 \in Digits
    BY DEF Digits
  <2> QED
    BY <1>2, <1>5, <2>1, ZerosThen
<1>10. Base58Encode(b) = u
  BY DEF Base58Encode, u, z, t
<1> HIDE DEF u
<1>11. Base58Decode(u) = b
  BY <1>2, <1>7, <1>8 DEF Base58Decode
<1> QED
  BY <1>9, <1>10, <1>11

\* and what it reads of a text, base58Encode writes.
LEMMA DecodeEncode ==
  ASSUME NEW s \in Seq(Digits)
  PROVE  Base58Decode(s) \in Seq(0..255) /\ Base58Encode(Base58Decode(s)) = s
<1> DEFINE z == LeadingZeros(s)
           r == SkipZeros(s)
           t == NumBytes[Number(58, s)]
           u == Zeros(z) \o t
           k == SkipZeros(Buffer(u))
<1>1. s \in Numerals(58) /\ 256 \in Nat \ {0} /\ 58 \in Nat \ {0}
  <2>1. Digits = 0..(58 - 1)
    BY DEF Digits
  <2> QED
    BY <2>1 DEF Numerals
<1>2. z \in Nat /\ r \in Numerals(58) /\ Canonical(r) /\ s = Zeros(z) \o r
  BY <1>1, ZerosAndRest
<1>3. s \in Seq(Nat) /\ r \in Seq(Nat)
  <2>1. s \in Seq(0..(58 - 1)) /\ r \in Seq(0..(58 - 1))
    BY <1>1, <1>2 DEF Numerals
  <2>2. 0..(58 - 1) \subseteq Nat
    OBVIOUS
  <2> QED
    BY <2>1, <2>2, SeqMonotonic
<1>4. Number(58, s) \in Nat
  BY <1>1, <1>3, NumberAppend
<1>5. t \in Numerals(256) /\ Canonical(t) /\ Number(256, t) = Number(58, s)
  BY <1>4, NumBytesFacts DEF BytesOf
<1> HIDE DEF z, r, t
<1>6. t \in Seq(0..255) /\ t \in Seq(Nat)
  <2>1. t \in Seq(0..(256 - 1))
    BY <1>5 DEF Numerals
  <2>2. 0..(256 - 1) = 0..255 /\ 0..255 \subseteq Nat
    OBVIOUS
  <2> QED
    BY <2>1, <2>2, SeqMonotonic
<1>7. /\ u \in Seq(0..255) /\ LeadingZeros(u) = z
      /\ Number(256, u) = Number(58, s)
  <2>1. 0 \in 0..255
    OBVIOUS
  <2>2. u \in Seq(0..255)
    BY <1>2, <1>6, <2>1, ZerosThen
  <2> QED
    BY <1>1, <1>2, <1>5, <1>6, <2>2, ZerosInFront, ZerosOfCanonical
<1> HIDE DEF u
<1>8. Buffer(u) \in Numerals(58) /\ Number(58, Buffer(u)) = Number(58, s)
  <2>1. u \in Numerals(256)
    BY <1>7 DEF Numerals
  <2> QED
    BY <1>7, <2>1, BufferNumber
<1>9. /\ LeadingZeros(Buffer(u)) \in Nat /\ k \in Numerals(58) /\ Canonical(k)
      /\ Buffer(u) = Zeros(LeadingZeros(Buffer(u))) \o k
  BY <1>1, <1>8, ZerosAndRest
<1> HIDE DEF k
<1>10. k = r
  <2>1. Number(58, k) = Number(58, Buffer(u))
    BY <1>1, <1>8, RestNumber DEF k
  <2>2. Number(58, r) = Number(58, s)
    BY <1>1, RestNumber DEF r
  <2> QED
    BY <1>1, <1>2, <1>8, <1>9, <2>1, <2>2, OneNumeral
<1>11. Base58Decode(s) = u
  BY DEF Base58Decode, u, z, t
<1>12. Base58Encode(u) = s
  BY <1>2, <1>7, <1>10 DEF Base58Encode, k
<1> QED
  BY <1>7, <1>11, <1>12

LEMMA DecodeEmpty == Base58Decode(<<>>) = <<>>
<1>1. <<>> \in Seq(Nat) /\ Len(<<>>) = 0
  BY EmptySeq
<1>2. LeadingZeros(<<>>) = 0
  <2>1. StartsWith(LeadingZeros(<<>>), <<>>)
    BY <1>1, LeadingZerosFacts
  <2> QED
    BY <1>1, <2>1 DEF StartsWith
<1>3. Number(58, <<>>) = 0
  <2>1. 58 \in Nat
    OBVIOUS
  <2> QED
    BY <2>1, NumberAppend
<1>4. NumBytes[0] = <<>>
  <2>1. BytesOf(NumBytes[0], 0)
    <3>1. 0 \in Nat
      OBVIOUS
    <3> QED
      BY <3>1, NumBytesFacts
  <2> QED
    BY <2>1, NoBytes, OneSequenceOfBytes
<1>5. Zeros(0) \o <<>> = <<>>
  <2>1. Zeros(0) \in Seq(Nat) /\ Len(Zeros(0)) = 0
    BY ZerosFacts
  <2>2. Zeros(0) = <<>>
    BY <2>1, EmptySeq
  <2> QED
    BY <1>1, <2>2, ConcatEmptySeq
<1> QED
  BY <1>2, <1>3, <1>4, <1>5 DEF Base58Decode

\* An address, its prefix in front and its checksum behind.
Payload(a) == <<Prefix>> \o a
Full(a) == Payload(a) \o Checksum(Payload(a))

LEMMA PayloadFacts ==
  ASSUME NEW a \in Addresses
  PROVE  /\ a \in Seq(0..255) /\ Len(a) = AddressLen
         /\ Payload(a) \in Seq(0..255) /\ Len(Payload(a)) = AddressLen + 1
         /\ Payload(a)[1] = Prefix /\ Tail(Payload(a)) = a
         /\ Checksum(Payload(a)) \in Seq(0..255) /\ Len(Checksum(Payload(a))) = CheckLen
<1> DEFINE D == 0..255
           p == Payload(a)
           f == <<Prefix>>
<1>1. Bytes \subseteq D /\ Prefix \in D /\ AddressLen \in Nat /\ CheckLen \in Nat
  BY AddressAssumption
<1> HIDE DEF D
<1>2. a \in [1..AddressLen -> D]
  BY <1>1 DEF Addresses
<1>3. a \in Seq(D) /\ Len(a) = AddressLen
  BY <1>1, <1>2
<1>4. f \in Seq(D) /\ Len(f) = 1 /\ f[1] = Prefix
  BY <1>1
<1> HIDE DEF f
<1>5. /\ f \o a \in Seq(D)
      /\ Len(f \o a) = Len(f) + Len(a)
      /\ \A i \in 1..(Len(f) + Len(a)) : (f \o a)[i] = IF i <= Len(f) THEN f[i] ELSE a[i - Len(f)]
  BY <1>3, <1>4, ConcatProperties, Zenon
<1>6. p = f \o a
  BY DEF Payload, f
<1>7. /\ p \in Seq(D) /\ Len(p) = AddressLen + 1
      /\ p[1] = Prefix
      /\ \A i \in 1..AddressLen : p[i + 1] = a[i]
  <2> DEFINE w == f \o a
  <2>1. /\ w \in Seq(D) /\ Len(w) = AddressLen + 1
        /\ \A i \in 1..(AddressLen + 1) : w[i] = IF i <= 1 THEN f[i] ELSE a[i - 1]
    <3> HIDE DEF w
    <3>1. 1 + AddressLen = AddressLen + 1
      BY <1>1
    <3> QED
      BY <1>3, <1>4, <1>5, <3>1 DEF w
  <2>2. w = p
    BY <1>6
  <2> HIDE DEF w, p
  <2>3. w[1] = Prefix
    BY <1>1, <1>4, <2>1
  <2>4. ASSUME NEW i \in 1..AddressLen PROVE w[i + 1] = a[i]
    <3>1. i + 1 \in 1..(AddressLen + 1) /\ ~ (i + 1 <= 1) /\ (i + 1) - 1 = i
      BY <1>1
    <3> QED
      BY <2>1, <3>1
  <2> QED
    BY <2>1, <2>2, <2>3, <2>4
<1> HIDE DEF p
<1>8. Tail(p) = a
  <2>1. p # <<>>
    BY <1>1, <1>7, EmptySeq
  <2>2. /\ Tail(p) \in Seq(D) /\ Len(Tail(p)) = Len(p) - 1
        /\ \A i \in 1..Len(Tail(p)) : Tail(p)[i] = p[i + 1]
    BY <1>7, <2>1, HeadTailProperties
  <2>3. Len(Tail(p)) = AddressLen
    BY <1>1, <1>7, <2>2
  <2> QED
    BY <1>3, <1>7, <2>2, <2>3, SeqEqual
<1>9. Checksum(p) \in Seq(D) /\ Len(Checksum(p)) = CheckLen
  <2>1. Checksum(p) \in [1..CheckLen -> D]
    BY ChecksumAssumption DEF p, Payload, D
  <2> QED
    BY <1>1, <2>1
<1> QED
  BY <1>3, <1>7, <1>8, <1>9 DEF D, p

LEMMA FullFacts ==
  ASSUME NEW a \in Addresses
  PROVE  /\ Full(a) \in Seq(0..255) /\ Len(Full(a)) = AddressLen + 1 + CheckLen
         /\ SubSeq(Full(a), 1, AddressLen + 1) = Payload(a)
         /\ SubSeq(Full(a), AddressLen + 2, Len(Full(a))) = Checksum(Payload(a))
<1> DEFINE D == 0..255
           A == AddressLen + 1
           p == Payload(a)
           c == Checksum(p)
           w == p \o c
<1>1. A \in Nat /\ A > 0 /\ CheckLen \in Nat /\ AddressLen + 2 = A + 1
  BY AddressAssumption
<1>2. p \in Seq(D) /\ Len(p) = A /\ c \in Seq(D) /\ Len(c) = CheckLen
  BY PayloadFacts
<1> HIDE DEF D, A, p, c
<1>3. /\ p \o c \in Seq(D)
      /\ Len(p \o c) = Len(p) + Len(c)
      /\ \A i \in 1..(Len(p) + Len(c)) : (p \o c)[i] = IF i <= Len(p) THEN p[i] ELSE c[i - Len(p)]
  BY <1>2, ConcatProperties, Zenon
<1>4. /\ w \in Seq(D) /\ Len(w) = A + CheckLen
      /\ \A i \in 1..(A + CheckLen) : w[i] = IF i <= A THEN p[i] ELSE c[i - A]
  <2>1. /\ w \in Seq(D) /\ Len(w) = Len(p) + Len(c)
        /\ \A i \in 1..(Len(p) + Len(c)) : w[i] = IF i <= Len(p) THEN p[i] ELSE c[i - Len(p)]
    BY <1>3
  <2> HIDE DEF w
  <2> QED
    BY <1>2, <2>1
<1> HIDE DEF w
<1>5. \A i \in 1..Len(w) : w[i] \in D
  BY <1>4, ElementOfSeq
<1>6. SubSeq(w, 1, A) = p
  <2> DEFINE u == SubSeq(w, 1, A)
  <2>1. 1 \in Int /\ A \in Int /\ \A i \in 1..A : w[i] \in D
    BY <1>1, <1>4, <1>5
  <2>2. /\ u \in Seq(D) /\ Len(u) = IF 1 <= A THEN A - 1 + 1 ELSE 0
        /\ \A i \in 1..(A - 1 + 1) : u[i] = w[1 + i - 1]
    BY <2>1, SubSeqProperties
  <2> HIDE DEF u
  <2>3. Len(u) = A /\ \A i \in 1..A : u[i] = w[i]
    BY <1>1, <2>2
  <2>4. \A i \in 1..A : u[i] = p[i]
    BY <1>1, <1>4, <2>3
  <2>5. u = p
    BY <1>2, <2>2, <2>3, <2>4, SeqEqual
  <2> QED
    BY <2>5 DEF u
<1>7. SubSeq(w, A + 1, Len(w)) = c
  <2> DEFINE B == A + 1
             L == A + CheckLen
             u == SubSeq(w, B, L)
  <2>1. B \in Int /\ L \in Int /\ \A i \in B..L : w[i] \in D
    BY <1>1, <1>4, <1>5
  <2>2. /\ u \in Seq(D) /\ Len(u) = IF B <= L THEN L - B + 1 ELSE 0
        /\ \A i \in 1..(L - B + 1) : u[i] = w[B + i - 1]
    BY <2>1, SubSeqProperties
  <2> HIDE DEF u
  <2>3. Len(u) = CheckLen /\ L - B + 1 = CheckLen
    BY <1>1, <2>2
  <2>4. ASSUME NEW i \in 1..CheckLen PROVE u[i] = c[i]
    <3>1. B + i - 1 \in 1..(A + CheckLen) /\ ~ (B + i - 1 <= A) /\ (B + i - 1) - A = i
      BY <1>1
    <3>2. u[i] = w[B + i - 1]
      BY <2>2, <2>3
    <3> QED
      BY <1>4, <3>1, <3>2
  <2>5. u = c
    BY <1>2, <2>2, <2>3, <2>4, SeqEqual
  <2> QED
    BY <1>4, <2>5 DEF u
<1>8. Full(a) = w
  BY DEF Full, w, c, p
<1>9. A + CheckLen = AddressLen + 1 + CheckLen
  BY DEF A
<1> QED
  BY <1>1, <1>4, <1>6, <1>7, <1>8, <1>9 DEF D, A, p, c

\* What HexToBase58 writes of an address, Base58ToHex reads,
LEMMA WriteRead ==
  ASSUME NEW a \in Addresses
  PROVE  /\ HexToBase58(a) \in Seq(Digits) /\ HexToBase58(a) # <<>>
         /\ Base58ToHex(HexToBase58(a)) = a
<1> DEFINE s == HexToBase58(a)
           f == Full(a)
           A == AddressLen + 1
<1>1. /\ f \in Seq(0..255) /\ Len(f) = AddressLen + 1 + CheckLen
      /\ SubSeq(f, 1, AddressLen + 1) = Payload(a)
      /\ SubSeq(f, AddressLen + 2, Len(f)) = Checksum(Payload(a))
  BY FullFacts
<1>2. s = Base58Encode(f)
  BY DEF HexToBase58, Full, Payload
<1> HIDE DEF f, s
<1>3. s \in Seq(Digits) /\ Base58Decode(s) = f
  BY <1>1, <1>2, EncodeDecode
<1>4. s # <<>>
  <2>1. Len(f) > 0
    BY <1>1, AddressAssumption
  <2>2. f # <<>>
    BY <2>1, EmptySeq
  <2> QED
    BY <1>3, <2>2, DecodeEmpty
<1>5. Base58ToHex(s) = a
  BY <1>1, <1>3, <1>4, PayloadFacts DEF Base58ToHex
<1> QED
  BY <1>3, <1>4, <1>5 DEF s

\* and whatever it accepts, HexToBase58 writes.
LEMMA ReadWrite ==
  ASSUME NEW s \in Seq(Digits), Base58ToHex(s) # Error
  PROVE  HexToBase58(Base58ToHex(s)) = s
<1> DEFINE d == Base58Decode(s)
           p == SubSeq(d, 1, AddressLen + 1)
           c == SubSeq(d, AddressLen + 2, Len(d))
           A == AddressLen + 1
           D == 0..255
<1>1. /\ Base58ToHex(s) = Tail(p) /\ Len(d) = AddressLen + 1 + CheckLen
      /\ c = Checksum(p) /\ p[1] = Prefix
  BY DEF Base58ToHex
<1>2. d \in Seq(D) /\ Base58Encode(d) = s
  BY DecodeEncode
<1>3. /\ A \in Nat /\ 1 \in 1..A /\ AddressLen + 2 = A + 1 /\ A + CheckLen \in Nat
      /\ AddressLen + 1 + CheckLen = A + CheckLen /\ CheckLen \in Nat
  BY AddressAssumption
<1> DEFINE q == SubSeq(d, 1, A)
           e == SubSeq(d, A + 1, Len(d))
<1>4. p = q /\ c = e
  BY <1>3
<1> HIDE DEF A, D, d, p, c
<1>5. Len(d) = A + CheckLen
  BY <1>1, <1>3
<1>6. q \in Seq(D) /\ Len(q) = A
  <2>1. 1 \in Int /\ A \in Int /\ \A i \in 1..A : d[i] \in D
    BY <1>2, <1>3, <1>5, ElementOfSeq
  <2>2. q \in Seq(D) /\ Len(q) = IF 1 <= A THEN A - 1 + 1 ELSE 0
    BY <2>1, SubSeqProperties
  <2> HIDE DEF q
  <2> QED
    BY <1>3, <2>2
<1>7. q \o e = d
  <2>1. 1 \in 1..(Len(d) + 1) /\ A \in (1 - 1)..Len(d) /\ Len(d) \in A..Len(d)
    BY <1>3, <1>5
  <2>2. q \o e = SubSeq(d, 1, Len(d))
    BY <1>2, <2>1, ConcatAdjacentSubSeq
  <2> QED
    BY <1>2, <2>2, SubSeqFull
<1> HIDE DEF q, e
<1>8. q = <<Prefix>> \o Tail(q)
  <2>1. q # <<>>
    BY <1>3, <1>6, EmptySeq
  <2>2. /\ Tail(q) \in Seq(D) /\ Len(Tail(q)) = A - 1
        /\ \A i \in 1..Len(Tail(q)) : Tail(q)[i] = q[i + 1]
    BY <1>6, <2>1, HeadTailProperties
  <2> DEFINE f == <<Prefix>>
             t == Tail(q)
             w == f \o t
  <2>3. f \in Seq(D) /\ Len(f) = 1 /\ f[1] = Prefix
    BY AddressAssumption DEF D
  <2>4. t \in Seq(D)
    BY <2>2
  <2> HIDE DEF f, t
  <2>5. /\ f \o t \in Seq(D)
        /\ Len(f \o t) = Len(f) + Len(t)
        /\ \A i \in 1..(Len(f) + Len(t)) : (f \o t)[i] = IF i <= Len(f) THEN f[i] ELSE t[i - Len(f)]
    BY <2>3, <2>4, ConcatProperties, Zenon
  <2>6. /\ w \in Seq(D) /\ Len(w) = Len(f) + Len(t)
        /\ \A i \in 1..(Len(f) + Len(t)) : w[i] = IF i <= Len(f) THEN f[i] ELSE t[i - Len(f)]
    BY <2>5
  <2> HIDE DEF w
  <2>7. /\ Len(w) = A
        /\ \A i \in 1..A : w[i] = IF i <= 1 THEN f[i] ELSE t[i - 1]
    <3>1. 1 + (A - 1) = A
      BY <1>3
    <3> QED
      BY <2>2, <2>3, <2>6, <3>1 DEF t
  <2>8. ASSUME NEW i \in 1..A PROVE w[i] = q[i]
    <3>1. CASE i = 1
      BY <1>1, <1>4, <2>3, <2>7, <3>1
    <3>2. CASE i # 1
      <4>1. ~ (i <= 1) /\ i - 1 \in 1..(A - 1) /\ (i - 1) + 1 = i
        BY <1>3, <3>2
      <4>2. t[i - 1] = q[i]
        BY <2>2, <4>1 DEF t
      <4> QED
        BY <2>7, <4>1, <4>2
    <3> QED
      BY <3>1, <3>2
  <2>9. q = w
    BY <1>6, <2>6, <2>7, <2>8, SeqEqual
  <2> QED
    BY <2>9 DEF w, f, t
<1>9. HexToBase58(Tail(q)) = Base58Encode(q \o Checksum(q))
  BY <1>8 DEF HexToBase58
<1>10. e = Checksum(q)
  BY <1>1, <1>4
<1> QED
  BY <1>1, <1>2, <1>4, <1>7, <1>9, <1>10

-----------------------------------------------------------------------------
\* A text is base58, the one HexToBase58 gave while nobody misspelt it, and what is
\* read is what Base58ToHex makes of it.
AddressInv == /\ address \in Addresses /\ text \in Seq(Digits)
              /\ intact => text = HexToBase58(address)
              /\ back \in {Unread, Base58ToHex(text)}

THEOREM AddressInvariant == Spec => []AddressInv
<1>1. Init => AddressInv
  BY WriteRead DEF Init, AddressInv
<1>2. ASSUME AddressInv, [Next]_vars PROVE AddressInv'
  <2>1. CASE Misspell
    <3>1. /\ text \in Seq(Digits) /\ text # <<>> /\ ~ intact'
          /\ back' = Unread /\ address' = address
      BY <1>2, <2>1, WriteRead DEF AddressInv, Misspell
    <3>2. text' \in Seq(Digits)
      <4>1. CASE \E i \in DOMAIN text, d \in Digits : text' = [text EXCEPT ![i] = d]
        BY <3>1, <4>1, LenProperties, ExceptSeq
      <4>2. CASE \E d \in {0, text[1]} : text' = <<d>> \o text
        <5>1. Len(text) \in Nat \ {0}
          BY <3>1, EmptySeq
        <5>2. text[1] \in Digits /\ 0 \in Digits
          <6>1. 1 \in 1..Len(text)
            BY <5>1
          <6>2. text[1] \in Digits
            BY <3>1, <6>1, ElementOfSeq
          <6>3. 0 \in Digits
            BY DEF Digits
          <6> QED
            BY <6>2, <6>3
        <5>3. PICK d \in Digits : text' = <<d>> \o text
          BY <4>2, <5>2
        <5>4. <<d>> \in Seq(Digits)
          OBVIOUS
        <5> QED
          BY <3>1, <5>3, <5>4, ConcatProperties
      <4>3. CASE text' = Tail(text)
        BY <3>1, <4>3, HeadTailProperties
      <4> QED
        BY <2>1, <4>1, <4>2, <4>3 DEF Misspell
    <3> QED
      BY <1>2, <3>1, <3>2 DEF AddressInv
  <2>2. CASE Read
    BY <1>2, <2>2 DEF AddressInv, Read
  <2>3. CASE UNCHANGED vars
    BY <1>2, <2>3 DEF AddressInv, vars
  <2> QED
    BY <1>2, <2>1, <2>2, <2>3 DEF Next
<1> QED
  BY <1>1, <1>2, PTL DEF Spec

\* What HexToBase58 writes, Base58ToHex reads: addresses, checksums and zeros of any
\* length.
THEOREM ReadBack == Spec => []RoundTrip
<1>1. AddressInv => RoundTrip
  BY WriteRead DEF AddressInv, RoundTrip
<1> QED
  BY <1>1, AddressInvariant, PTL

\* A text Base58ToHex accepts is the text HexToBase58 writes of the address it read.
THEOREM OneText == Spec => []OneSpelling
<1>1. AddressInv => OneSpelling
  BY ReadWrite DEF AddressInv, OneSpelling
<1> QED
  BY <1>1, AddressInvariant, PTL
=============================================================================
