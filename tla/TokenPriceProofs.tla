--------------------------- MODULE TokenPriceProofs -------------------------
(***************************************************************************)
(* For any precision of the floats and any width of the integers, any      *)
(* number of decimals and any price: ParsePrice asks for the exact amount  *)
(* or one unit less, and for the exact amount of whole coins.              *)
(***************************************************************************)
EXTENDS TokenPrice, Induction

-----------------------------------------------------------------------------
LEMMA PowersOf10 == IsPower(Pow10, 10)
BY Powers DEF Pow10

LEMMA PowersOf2 == IsPower(Pow2, 2)
BY Powers DEF Pow2

LEMMA Pow10Facts == /\ Pow10 \in [Nat -> Nat \ {0}]
                    /\ Pow10[0] = 1
                    /\ \A n \in Nat : Pow10[n + 1] = 10 * Pow10[n]
BY PowersOf10 DEF IsPower

LEMMA Pow2Facts == /\ Pow2 \in [Nat -> Nat \ {0}]
                   /\ Pow2[0] = 1
                   /\ \A n \in Nat : Pow2[n + 1] = 2 * Pow2[n]
BY PowersOf2 DEF IsPower

LEMMA PowSums ==
  ASSUME NEW a \in Nat, NEW b \in Nat
  PROVE  Pow2[a + b] = Pow2[a] * Pow2[b] /\ Pow10[a + b] = Pow10[a] * Pow10[b]
BY PowersOf2, PowersOf10, PowerSum

\* Every number but 0 has a length in binary.
LEMMA BitsFacts ==
  ASSUME NEW n \in Nat \ {0}
  PROVE  Bits(n) \in Nat \ {0} /\ Pow2[Bits(n) - 1] <= n /\ n < Pow2[Bits(n)]
<1>1. \E b \in 1..n : Pow2[b - 1] <= n /\ n < Pow2[b]
  BY PowersOf2, PowerLog
<1>2. Bits(n) \in 1..n /\ Pow2[Bits(n) - 1] <= n /\ n < Pow2[Bits(n)]
  BY <1>1 DEF Bits
<1> QED
  BY <1>2

-----------------------------------------------------------------------------
\* Half and all of what Precision bits hold.
Half == Pow2[Precision - 1]
Whole == Pow2[Precision]

LEMMA Halves == /\ Half \in Nat \ {0} /\ Whole = 2 * Half
                /\ Half = 2 * Pow2[Precision - 2] /\ Pow2[Precision - 2] \in Nat \ {0}
<1>1. /\ Precision - 2 \in Nat /\ Precision - 1 \in Nat
      /\ (Precision - 2) + 1 = Precision - 1 /\ (Precision - 1) + 1 = Precision
  BY PriceAssumption
<1> QED
  BY <1>1, Pow2Facts DEF Half, Whole

LEMMA ScaledType ==
  ASSUME NEW num \in Nat \ {0}, NEW den \in Nat \ {0}, NEW s \in Int
  PROVE  Scaled(num, den, s) \in [num : Nat \ {0}, den : Nat \ {0}]
<1>1. CASE s >= 0
  <2>1. Pow2[s] \in Nat \ {0}
    BY <1>1, Pow2Facts
  <2>2. num * Pow2[s] \in Nat \ {0}
    BY <2>1
  <2> QED
    BY <1>1, <2>2 DEF Scaled
<1>2. CASE ~ (s >= 0)
  <2>1. -s \in Nat
    BY <1>2
  <2>2. Pow2[-s] \in Nat \ {0}
    BY <2>1, Pow2Facts
  <2>3. den * Pow2[-s] \in Nat \ {0}
    BY <2>2
  <2> QED
    BY <1>2, <2>3 DEF Scaled
<1> QED
  BY <1>1, <1>2

\* By the lengths of num and den their quotient is known up to one bit,
LEMMA AboutRight ==
  ASSUME NEW num \in Nat \ {0}, NEW den \in Nat \ {0}, NEW s \in Int,
         s = Precision - 1 - Bits(num) + Bits(den), NEW u, NEW x,
         u = Scaled(num, den, s).num, x = Scaled(num, den, s).den
  PROVE  u < Whole * x /\ Half * x <= 2 * u
<1> DEFINE a == Bits(num)
           b == Bits(den)
<1>1. /\ a \in Nat \ {0} /\ Pow2[a - 1] <= num /\ num < Pow2[a]
      /\ b \in Nat \ {0} /\ Pow2[b - 1] <= den /\ den < Pow2[b]
  BY BitsFacts
<1> HIDE DEF a, b
<1>2. /\ Pow2[a] = 2 * Pow2[a - 1] /\ Pow2[a] \in Nat \ {0} /\ Pow2[a - 1] \in Nat \ {0}
      /\ Pow2[b] = 2 * Pow2[b - 1] /\ Pow2[b] \in Nat \ {0} /\ Pow2[b - 1] \in Nat \ {0}
  <2>1. a - 1 \in Nat /\ b - 1 \in Nat /\ (a - 1) + 1 = a /\ (b - 1) + 1 = b
    BY <1>1
  <2> QED
    BY <1>1, <2>1, Pow2Facts
<1>3. Precision - 1 \in Nat /\ Half \in Nat \ {0} /\ Whole = 2 * Half
  BY PriceAssumption, Halves
<1>4. CASE s >= 0
  <2> DEFINE c == Pow2[s]
  <2>1. s \in Nat /\ c \in Nat \ {0} /\ u = num * c /\ x = den
    BY <1>4, Pow2Facts DEF Scaled
  <2>2. Pow2[a] * c = Half * Pow2[b]
    <3>1. a + s = (Precision - 1) + b
      BY <1>1, <1>3 DEF a, b
    <3>2. Pow2[a + s] = Pow2[a] * c
      BY <1>1, <2>1, PowSums
    <3>3. Pow2[(Precision - 1) + b] = Half * Pow2[b]
      BY <1>1, <1>3, PowSums DEF Half
    <3> QED
      BY <3>1, <3>2, <3>3
  <2> HIDE DEF c
  <2>3. num * c < Pow2[a] * c
    BY <1>1, <1>2, <2>1, Products
  <2>4. Pow2[b - 1] * Whole <= den * Whole
    BY <1>1, <1>2, <1>3, Products
  <2>5. Pow2[a] * c = Pow2[b - 1] * Whole
    BY <1>2, <1>3, <2>2
  <2>6. Whole * den = den * Whole /\ den * Whole \in Nat /\ num * c \in Nat
        /\ Pow2[b - 1] * Whole \in Nat
    BY <1>2, <1>3, <2>1
  <2>7. u < Whole * x
    BY <2>1, <2>3, <2>4, <2>5, <2>6
  <2>8. Pow2[a - 1] * c <= num * c
    BY <1>1, <1>2, <2>1, Products
  <2>9. den * Half <= Pow2[b] * Half
    BY <1>1, <1>2, <1>3, Products
  <2>10. 2 * (Pow2[a - 1] * c) = Half * Pow2[b]
    BY <1>2, <2>1, <2>2
  <2>11. Half * Pow2[b] = Pow2[b] * Half /\ Half * den = den * Half /\ den * Half \in Nat
         /\ Pow2[a - 1] * c \in Nat
    BY <1>2, <1>3, <2>1
  <2>12. Half * x <= 2 * u
    BY <2>1, <2>6, <2>8, <2>9, <2>10, <2>11
  <2> QED
    BY <2>7, <2>12
<1>5. CASE ~ (s >= 0)
  <2> DEFINE t == -s
             c == Pow2[t]
  <2>1. t \in Nat /\ c \in Nat \ {0} /\ u = num /\ x = den * c
    BY <1>5, Pow2Facts DEF Scaled
  <2>2. Pow2[a] = Half * (Pow2[b] * c)
    <3>1. a = (Precision - 1) + (b + t)
      BY <1>1, <1>3 DEF a, b
    <3>2. Pow2[b + t] = Pow2[b] * c
      BY <1>1, <2>1, PowSums
    <3>3. b + t \in Nat
      BY <1>1, <2>1
    <3>4. Pow2[(Precision - 1) + (b + t)] = Half * Pow2[b + t]
      BY <1>3, <3>3, PowSums DEF Half
    <3> QED
      BY <3>1, <3>2, <3>4
  <2> HIDE DEF t, c
  <2>3. Pow2[b - 1] * (c * Whole) <= den * (c * Whole)
    BY <1>1, <1>2, <1>3, <2>1, Products
  <2>4. Pow2[a] = Pow2[b - 1] * (c * Whole)
    BY <1>2, <1>3, <2>1, <2>2
  <2>5. den * (c * Whole) = Whole * (den * c) /\ den * (c * Whole) \in Nat
    BY <1>3, <2>1
  <2>6. u < Whole * x
    BY <1>1, <1>2, <2>1, <2>3, <2>4, <2>5
  <2>7. den * (c * Half) <= Pow2[b] * (c * Half)
    BY <1>1, <1>2, <1>3, <2>1, Products
  <2>8. /\ den * (c * Half) = Half * (den * c) /\ Pow2[b] * (c * Half) = Half * (Pow2[b] * c)
        /\ Half * (den * c) \in Nat
    BY <1>2, <1>3, <2>1
  <2>9. Half * x <= 2 * u
    BY <1>1, <1>2, <2>1, <2>2, <2>7, <2>8
  <2> QED
    BY <2>6, <2>9
<1> QED
  BY <1>4, <1>5

\* so one of the two shifts that Shift tries leaves exactly Precision bits.
LEMMA ShiftFits ==
  ASSUME NEW num \in Nat \ {0}, NEW den \in Nat \ {0}, NEW s, s = Shift(num, den)
  PROVE  /\ s \in Int
         /\ Scaled(num, den, s).num \div Scaled(num, den, s).den \in Half..(Whole - 1)
<1> DEFINE about == Precision - 1 - Bits(num) + Bits(den)
           Fits(i) == Scaled(num, den, i).num \div Scaled(num, den, i).den \in Half..(Whole - 1)
           u == Scaled(num, den, about).num
           x == Scaled(num, den, about).den
           v == Scaled(num, den, about + 1).num
           y == Scaled(num, den, about + 1).den
<1>1. about \in Int /\ about + 1 \in Int
  BY BitsFacts, PriceAssumption
<1>2. u \in Nat \ {0} /\ x \in Nat \ {0} /\ v \in Nat \ {0} /\ y \in Nat \ {0}
  <2> HIDE DEF about
  <2> QED
    BY <1>1, ScaledType
<1>3. u < Whole * x /\ Half * x <= 2 * u
  <2>1. about = Precision - 1 - Bits(num) + Bits(den)
    OBVIOUS
  <2> HIDE DEF about
  <2> QED
    BY <1>1, <2>1, AboutRight
<1>4. Half \in Nat \ {0} /\ Whole \in Nat /\ Whole = 2 * Half
  BY Halves
<1>5. (v = 2 * u /\ y = x) \/ (v = u /\ x = 2 * y)
  <2> HIDE DEF about
  <2>1. CASE about >= 0
    <3>1. Pow2[about + 1] = 2 * Pow2[about] /\ Pow2[about] \in Nat
      BY <1>1, <2>1, Pow2Facts
    <3> QED
      BY <1>1, <2>1, <3>1 DEF Scaled
  <2>2. CASE ~ (about >= 0) /\ about + 1 >= 0
    <3>1. Pow2[1] = 2 /\ Pow2[0] = 1
      <4>1. 1 = 0 + 1 /\ 0 \in Nat
        OBVIOUS
      <4> QED
        BY <4>1, Pow2Facts
    <3>2. about + 1 = 0 /\ -about = 1
      BY <1>1, <2>2
    <3> QED
      BY <2>2, <3>1, <3>2 DEF Scaled
  <2>3. CASE ~ (about + 1 >= 0)
    <3>1. /\ -(about + 1) \in Nat /\ -about = -(about + 1) + 1
          /\ ~ (about >= 0) /\ ~ (about + 1 >= 0)
      BY <1>1, <2>3
    <3>2. Pow2[-about] = 2 * Pow2[-(about + 1)] /\ Pow2[-(about + 1)] \in Nat
      BY <3>1, Pow2Facts
    <3> QED
      BY <3>1, <3>2 DEF Scaled
  <2> QED
    BY <1>1, <2>1, <2>2, <2>3
<1> HIDE DEF u, x, v, y
<1>6. Fits(about) \/ Fits(about + 1)
  <2>1. CASE Half * x <= u
    <3>1. u \div x \in Half..(Whole - 1)
      BY <1>2, <1>3, <1>4, <2>1, Quotient
    <3> QED
      BY <3>1 DEF u, x
  <2>2. CASE u < Half * x
    <3>1. Half * x \in Nat /\ Whole * x = 2 * (Half * x)
      BY <1>2, <1>4
    <3>2. Half * y <= v /\ v < Whole * y
      <4>1. CASE v = 2 * u /\ y = x
        BY <1>2, <1>3, <2>2, <3>1, <4>1
      <4>2. CASE v = u /\ x = 2 * y
        <5>1. Half * y \in Nat /\ Half * x = 2 * (Half * y) /\ Whole * y = 2 * (Half * y)
          BY <1>2, <1>4, <4>2
        <5> QED
          BY <1>2, <1>3, <2>2, <4>2, <5>1
      <4> QED
        BY <1>5, <4>1, <4>2
    <3>3. v \div y \in Half..(Whole - 1)
      BY <1>2, <1>4, <3>2, Quotient
    <3> QED
      BY <3>3 DEF v, y
  <2> QED
    BY <1>2, <1>4, <2>1, <2>2
<1>7. s = CHOOSE i \in {about, about + 1} : Fits(i)
  BY DEF Shift, Half, Whole
<1> HIDE DEF Fits, about
<1>8. s \in {about, about + 1} /\ Fits(s)
  BY <1>6, <1>7
<1> QED
  BY <1>1, <1>8 DEF Fits

\* Rounding moves a quotient by half a unit at most.
LEMMA Rounding ==
  ASSUME NEW u \in Nat, NEW x \in Nat \ {0}, NEW n, n = Nearest(u, x)
  PROVE  /\ n \in Nat
         /\ 2 * (n * x) <= 2 * u + x
         /\ 2 * u <= 2 * (n * x) + x
<1> DEFINE q == u \div x
           r == u % x
<1>1. q \in Nat /\ r \in 0..(x - 1) /\ u = q * x + r
  BY Division
<1>2. (n = q /\ 2 * r <= x) \/ (n = q + 1 /\ 2 * r >= x)
  BY <1>1 DEF Nearest
<1> HIDE DEF q, r
<1>3. (q + 1) * x = q * x + x /\ q * x \in Nat
  BY <1>1
<1> QED
  BY <1>1, <1>2, <1>3

\* A float is within one part in 2^Precision of the number it stands for,
LEMMA FloatNear ==
  ASSUME NEW num \in Nat, NEW den \in Nat \ {0}, NEW m, NEW d,
         m = Float(num, den).m, d = Float(num, den).den
  PROVE  /\ m \in Nat /\ d \in Nat \ {0}
         /\ Whole * (m * den) <= (Whole + 1) * (num * d)
         /\ (Whole - 1) * (num * d) <= Whole * (m * den)
<1>1. Half \in Nat \ {0} /\ Whole = 2 * Half
  BY Halves
<1>2. CASE num = 0
  <2>1. m = 0 /\ d = 1
    BY <1>2 DEF Float
  <2> QED
    BY <1>1, <1>2, <2>1
<1>3. CASE num # 0
  <2> DEFINE s == Shift(num, den)
             u == Scaled(num, den, s).num
             x == Scaled(num, den, s).den
             n == Nearest(u, x)
  <2>1. s \in Int /\ u \div x \in Half..(Whole - 1)
    BY <1>3, ShiftFits
  <2>2. u \in Nat \ {0} /\ x \in Nat \ {0}
    <3> HIDE DEF s
    <3> QED
      BY <1>3, <2>1, ScaledType
  <2>3. m = IF s >= 0 THEN n ELSE n * Pow2[-s]
    BY <1>3 DEF Float
  <2>4. d = IF s >= 0 THEN Pow2[s] ELSE 1
    BY <1>3 DEF Float
  <2> HIDE DEF s
  <2>5. s >= 0 => Pow2[s] \in Nat \ {0} /\ u = num * Pow2[s] /\ x = den
    BY <2>1, Pow2Facts DEF Scaled
  <2>6. ~ (s >= 0) => Pow2[-s] \in Nat \ {0} /\ u = num /\ x = den * Pow2[-s]
    BY <2>1, Pow2Facts DEF Scaled
  <2> HIDE DEF u, x, n
  <2>7. n \in Nat /\ 2 * (n * x) <= 2 * u + x /\ 2 * u <= 2 * (n * x) + x
    <3>1. n = Nearest(u, x)
      BY DEF n
    <3> QED
      BY <2>2, <3>1, Rounding
  <2>8. Half * x <= u
    <3>1. u = (u \div x) * x + (u % x) /\ u % x \in 0..(x - 1) /\ u \div x \in Nat
      BY <2>2, Division
    <3>2. Half * x <= (u \div x) * x
      BY <1>1, <2>1, <2>2, <3>1, Products
    <3>3. (u \div x) * x \in Nat /\ Half * x \in Nat
      BY <1>1, <2>2, <3>1
    <3> QED
      BY <2>2, <3>1, <3>2, <3>3
  <2>9. Whole * (n * x) <= (Whole + 1) * u /\ (Whole - 1) * u <= Whole * (n * x)
    <3> DEFINE N == n * x
    <3>1. N \in Nat /\ 2 * N <= 2 * u + x /\ 2 * u <= 2 * N + x
      BY <2>2, <2>7
    <3> HIDE DEF N
    <3>2. (2 * N) * Half <= (2 * u + x) * Half /\ (2 * u) * Half <= (2 * N + x) * Half
      BY <1>1, <2>2, <3>1, Products
    <3>3. /\ (2 * N) * Half = Whole * N /\ (2 * u + x) * Half = Whole * u + Half * x
          /\ (2 * u) * Half = Whole * u /\ (2 * N + x) * Half = Whole * N + Half * x
          /\ (Whole + 1) * u = Whole * u + u /\ (Whole - 1) * u = Whole * u - u
          /\ Whole * N \in Nat /\ Whole * u \in Nat /\ Half * x \in Nat
      BY <1>1, <2>2, <3>1
    <3>4. Whole * N <= (Whole + 1) * u /\ (Whole - 1) * u <= Whole * N
      BY <2>2, <2>8, <3>2, <3>3
    <3> QED
      BY <3>4 DEF N
  <2>10. CASE s >= 0
    <3>1. m = n /\ d \in Nat \ {0} /\ u = num * d /\ x = den
      BY <2>3, <2>4, <2>5, <2>10
    <3> QED
      BY <2>7, <2>9, <3>1
  <2>11. CASE ~ (s >= 0)
    <3> DEFINE c == Pow2[-s]
    <3>1. c \in Nat \ {0} /\ m = n * c /\ d = 1 /\ u = num /\ x = den * c
      BY <2>3, <2>4, <2>6, <2>11
    <3> HIDE DEF c
    <3>2. m * den = n * x /\ num * d = u
      BY <2>7, <3>1
    <3>3. m \in Nat /\ d \in Nat \ {0}
      BY <2>7, <3>1
    <3> QED
      BY <2>9, <3>2, <3>3
  <2> QED
    BY <2>10, <2>11
<1> QED
  BY <1>2, <1>3

\* and is a whole number that fits in one bit less.
LEMMA FloatExact ==
  ASSUME NEW k \in Nat, NEW den \in Nat \ {0}, k < Half, NEW num, num = k * den,
         NEW m, NEW d, m = Float(num, den).m, d = Float(num, den).den
  PROVE  m = k * d /\ d \in Nat \ {0}
<1>1. Half \in Nat \ {0} /\ Whole = 2 * Half /\ num \in Nat
  BY Halves
<1>2. CASE k = 0
  <2>1. num = 0
    BY <1>2
  <2>2. m = 0 /\ d = 1
    BY <2>1 DEF Float
  <2> QED
    BY <1>2, <2>2
<1>3. CASE k # 0
  <2>0. num \in Nat \ {0}
    BY <1>3
  <2> DEFINE s == Shift(num, den)
             u == Scaled(num, den, s).num
             x == Scaled(num, den, s).den
             n == Nearest(u, x)
  <2>1. s \in Int /\ u \div x \in Half..(Whole - 1)
    BY <2>0, ShiftFits
  <2>2. u \in Nat \ {0} /\ x \in Nat \ {0}
    <3> HIDE DEF s
    <3> QED
      BY <2>0, <2>1, ScaledType
  <2>3. m = IF s >= 0 THEN n ELSE n * Pow2[-s]
    BY <2>0 DEF Float
  <2>4. d = IF s >= 0 THEN Pow2[s] ELSE 1
    BY <2>0 DEF Float
  <2> HIDE DEF s
  <2>5. s >= 0 => Pow2[s] \in Nat \ {0} /\ u = num * Pow2[s] /\ x = den
    BY <2>1, Pow2Facts DEF Scaled
  <2>6. ~ (s >= 0) => Pow2[-s] \in Nat \ {0} /\ u = num /\ x = den * Pow2[-s]
    BY <2>1, Pow2Facts DEF Scaled
  <2>7. n = Nearest(u, x)
    OBVIOUS
  <2> HIDE DEF u, x, n
  <2>8. s >= 0
    <3>1. SUFFICES ASSUME ~ (s >= 0) PROVE FALSE
      OBVIOUS
    <3> DEFINE c == Pow2[-s]
    <3>2. c \in Nat \ {0} /\ u = k * den /\ x = den * c
      BY <2>6, <3>1
    <3> HIDE DEF c
    <3>3. u < Half * den
      BY <1>1, <3>2, Products
    <3>4. Half * den <= Half * x
      <4>1. den <= x
        <5>1. 1 * den <= c * den /\ x = c * den
          BY <3>2, Products
        <5> QED
          BY <5>1
      <4>2. den * Half <= x * Half
        BY <1>1, <2>2, <4>1, Products
      <4> QED
        BY <1>1, <2>2, <4>2
    <3>5. 0 * x <= u /\ u < Half * x
      <4>1. Half * den \in Nat /\ Half * x \in Nat
        BY <1>1, <2>2
      <4> QED
        BY <2>2, <3>3, <3>4, <4>1
    <3>6. u \div x \in 0..(Half - 1)
      BY <1>1, <2>2, <3>5, Quotient
    <3> QED
      BY <1>1, <2>1, <3>6
  <2>9. Pow2[s] \in Nat \ {0} /\ d = Pow2[s] /\ m = n /\ u = k * den * d /\ x = den
    BY <2>3, <2>4, <2>5, <2>8
  <2>10. u = (k * d) * x /\ k * d \in Nat
    BY <2>9
  <2>11. u % x = 0 /\ u \div x = k * d
    <3> DEFINE K == k * d
    <3>1. K \in Nat /\ u = K * x /\ (K + 1) * x = K * x + x /\ K * x \in Nat
      BY <2>2, <2>10
    <3> HIDE DEF K
    <3>2. u \div x \in K..((K + 1) - 1)
      BY <2>2, <3>1, Quotient
    <3>3. u \div x = K
      BY <3>1, <3>2
    <3>4. u = K * x + (u % x) /\ u % x \in 0..(x - 1)
      BY <2>2, <3>3, Division
    <3> QED
      BY <3>1, <3>3, <3>4 DEF K
  <2>12. n = k * d
    BY <2>2, <2>7, <2>10, <2>11 DEF Nearest
  <2> QED
    BY <2>9, <2>12
<1> QED
  BY <1>2, <1>3

-----------------------------------------------------------------------------
\* The smallest units before they become an integer: the product of the two floats.
Product(a, g, d) == LET amt == Float(a, Pow10[g])
                    IN  Float(amt.m * Pow10[d], amt.den)

\* The two roundings, one after the other.
LEMMA ProductNear ==
  ASSUME NEW a \in Nat, NEW g \in Nat, NEW d \in Nat,
         NEW m, NEW e, m = Product(a, g, d).m, e = Product(a, g, d).den
  PROVE  /\ m \in Nat /\ e \in Nat \ {0}
         /\ (Whole * Whole) * (m * Pow10[g])
              <= ((Whole + 1) * (Whole + 1)) * ((a * Pow10[d]) * e)
         /\ ((Whole - 1) * (Whole - 1)) * ((a * Pow10[d]) * e)
              <= (Whole * Whole) * (m * Pow10[g])
<1> DEFINE B == Whole
           D == Pow10[g]
           T == Pow10[d]
           n == Float(a, D).m
           c == Float(a, D).den
<1>1. B \in Nat \ {0} /\ B - 1 \in Nat
  BY Halves
<1>2. D \in Nat \ {0} /\ T \in Nat \ {0}
  BY Pow10Facts
<1>3. m = Float(n * T, c).m /\ e = Float(n * T, c).den
  BY DEF Product
<1> HIDE DEF D, T
<1>4. /\ n \in Nat /\ c \in Nat \ {0}
      /\ B * (n * D) <= (B + 1) * (a * c)
      /\ (B - 1) * (a * c) <= B * (n * D)
  BY <1>2, FloatNear
<1> HIDE DEF n, c
<1>5. n * T \in Nat
  BY <1>2, <1>4
<1>6. /\ m \in Nat /\ e \in Nat \ {0}
      /\ B * (m * c) <= (B + 1) * ((n * T) * e)
      /\ (B - 1) * ((n * T) * e) <= B * (m * c)
  BY <1>3, <1>4, <1>5, FloatNear
<1> HIDE DEF B
<1>7. (B * B) * (m * D) <= ((B + 1) * (B + 1)) * ((a * T) * e)
  <2> DEFINE C == B + 1
             x == (B * B) * (m * D)
             y == (C * C) * ((a * T) * e)
             z == (C * ((n * T) * e)) * (B * D)
  <2>0. C \in Nat /\ B * (n * D) <= C * (a * c) /\ B * (m * c) <= C * ((n * T) * e)
    BY <1>1, <1>4, <1>6
  <2> HIDE DEF C
  <2>1. x * c <= z
    <3>1. /\ B * (m * c) \in Nat /\ C * ((n * T) * e) \in Nat /\ B * D \in Nat
          /\ x * c = (B * (m * c)) * (B * D)
      BY <1>1, <1>2, <1>4, <1>6, <2>0
    <3> HIDE DEF x
    <3>2. (B * (m * c)) * (B * D) <= (C * ((n * T) * e)) * (B * D)
      BY <2>0, <3>1, Products
    <3> QED
      BY <3>1, <3>2
  <2>2. z <= y * c
    <3> DEFINE w == C * (T * e)
    <3>1. B * (n * D) \in Nat /\ C * (a * c) \in Nat /\ w \in Nat
      BY <1>1, <1>2, <1>4, <1>6, <2>0
    <3>2. z = (B * (n * D)) * w
      BY <1>1, <1>2, <1>4, <1>6, <2>0
    <3>3. y * c = (C * (a * c)) * w
      BY <1>1, <1>2, <1>4, <1>6, <2>0
    <3> HIDE DEF w, y, z
    <3>4. (B * (n * D)) * w <= (C * (a * c)) * w
      BY <2>0, <3>1, Products
    <3> QED
      BY <3>2, <3>3, <3>4
  <2>3. x \in Nat /\ y \in Nat /\ z \in Nat
    BY <1>1, <1>2, <1>4, <1>6, <2>0
  <2> HIDE DEF x, y, z
  <2>4. x * c \in Nat /\ y * c \in Nat
    BY <1>4, <2>3
  <2>5. x * c <= y * c
    BY <2>1, <2>2, <2>3, <2>4
  <2>6. x <= y
    BY <1>4, <2>3, <2>5, Cancel
  <2> QED
    BY <2>6 DEF x, y, C
<1>8. ((B - 1) * (B - 1)) * ((a * T) * e) <= (B * B) * (m * D)
  <2> DEFINE C == B - 1
             x == (C * C) * ((a * T) * e)
             y == (B * B) * (m * D)
             z == (C * ((n * T) * e)) * (B * D)
  <2>0. C \in Nat /\ C * (a * c) <= B * (n * D) /\ C * ((n * T) * e) <= B * (m * c)
    BY <1>1, <1>4, <1>6
  <2> HIDE DEF C
  <2>1. x * c <= z
    <3> DEFINE w == C * (T * e)
    <3>1. B * (n * D) \in Nat /\ C * (a * c) \in Nat /\ w \in Nat
      BY <1>1, <1>2, <1>4, <1>6, <2>0
    <3>2. z = (B * (n * D)) * w /\ x * c = (C * (a * c)) * w
      BY <1>1, <1>2, <1>4, <1>6, <2>0
    <3> HIDE DEF w, x, z
    <3>3. (C * (a * c)) * w <= (B * (n * D)) * w
      BY <2>0, <3>1, Products
    <3> QED
      BY <3>2, <3>3
  <2>2. z <= y * c
    <3>1. /\ B * (m * c) \in Nat /\ C * ((n * T) * e) \in Nat /\ B * D \in Nat
          /\ y * c = (B * (m * c)) * (B * D)
      BY <1>1, <1>2, <1>4, <1>6, <2>0
    <3> HIDE DEF y
    <3>2. (C * ((n * T) * e)) * (B * D) <= (B * (m * c)) * (B * D)
      BY <2>0, <3>1, Products
    <3> QED
      BY <3>1, <3>2
  <2>3. x \in Nat /\ y \in Nat /\ z \in Nat
    BY <1>1, <1>2, <1>4, <1>6, <2>0
  <2> HIDE DEF x, y, z
  <2>4. x * c \in Nat /\ y * c \in Nat
    BY <1>4, <2>3
  <2>5. x * c <= y * c
    BY <2>1, <2>2, <2>3, <2>4
  <2>6. x <= y
    BY <1>4, <2>3, <2>5, Cancel
  <2> QED
    BY <2>6 DEF x, y, C
<1> QED
  BY <1>6, <1>7, <1>8 DEF B, D, T

\* What is asked for is not more than one unit below k units that the price is worth.
LEMMA NotTooLow ==
  ASSUME NEW a \in Nat, NEW g \in Nat, NEW d \in Nat, NEW k \in Nat, k < Half,
         k * Pow10[g] <= a * Pow10[d],
         NEW m, NEW e, m = Product(a, g, d).m, e = Product(a, g, d).den
  PROVE  k * e <= m + e
<1> DEFINE B == Whole
           D == Pow10[g]
           N == a * Pow10[d]
           C == (B - 1) * (B - 1)
           G == B * B
           y == k * e
<1>1. B \in Nat \ {0} /\ 2 * k <= B
  BY Halves
<1>2. D \in Nat \ {0} /\ N \in Nat /\ k * D <= N
  BY Pow10Facts
<1>3. m \in Nat /\ e \in Nat \ {0} /\ C * (N * e) <= G * (m * D)
  BY ProductNear
<1>4. C \in Nat /\ G \in Nat \ {0} /\ G * y = C * y + (2 * (B * y) - y) /\ y \in Nat
  BY <1>1, <1>3
<1>5. B * (2 * y) <= G * e
  <2>1. (2 * k) * (B * e) <= B * (B * e)
    BY <1>1, <1>3, Products
  <2> QED
    BY <1>1, <1>3, <2>1
<1> HIDE DEF D, N, C, G
<1>6. C * y <= G * m
  <2>1. (k * D) * (C * e) <= N * (C * e)
    BY <1>2, <1>3, <1>4, Products
  <2>2. (C * y) * D = (k * D) * (C * e) /\ N * (C * e) = C * (N * e)
    BY <1>2, <1>3, <1>4
  <2>3. G * (m * D) = (G * m) * D /\ G * m \in Nat /\ C * y \in Nat
    BY <1>2, <1>3, <1>4
  <2>4. C * (N * e) \in Nat /\ (C * y) * D \in Nat /\ (G * m) * D \in Nat
    BY <1>2, <1>3, <1>4
  <2>5. (C * y) * D <= (G * m) * D
    BY <1>3, <2>1, <2>2, <2>3, <2>4
  <2> QED
    BY <1>2, <2>3, <2>5, Cancel
<1> HIDE DEF y
<1>7. ASSUME m + e < y PROVE FALSE
  <2>1. (m + e) * G < y * G
    BY <1>3, <1>4, <1>7, Products
  <2>2. (m + e) * G = G * m + G * e /\ y * G = G * y
    BY <1>3, <1>4
  <2>3. G * m \in Nat /\ G * e \in Nat /\ G * y \in Nat /\ C * y \in Nat /\ B * y \in Nat
        /\ B * (2 * y) = 2 * (B * y)
    BY <1>1, <1>3, <1>4
  <2> QED
    BY <1>4, <1>5, <1>6, <2>1, <2>2, <2>3
<1>8. m + e \in Nat /\ y \in Nat
  BY <1>3, <1>4
<1>9. y <= m + e
  BY <1>7, <1>8
<1> QED
  BY <1>9 DEF y

\* Nor is it more than k, where the price is worth k units and no part of one,
LEMMA NotTooHighWhole ==
  ASSUME NEW a \in Nat, NEW g \in Nat, NEW d \in Nat, NEW k \in Nat, k < Half,
         a * Pow10[d] = k * Pow10[g],
         NEW m, NEW e, m = Product(a, g, d).m, e = Product(a, g, d).den
  PROVE  m < (k + 1) * e
<1> DEFINE B == Whole
           D == Pow10[g]
           C == (B + 1) * (B + 1)
           G == B * B
           y == k * e
<1>1. Half \in Nat \ {0} /\ B = 2 * Half
  BY Halves
<1>2. D \in Nat \ {0}
  BY Pow10Facts
<1>3. m \in Nat /\ e \in Nat \ {0} /\ G * (m * D) <= C * ((k * D) * e)
  BY ProductNear
<1>4. C = G + (2 * B + 1) /\ C \in Nat /\ G \in Nat \ {0} /\ y \in Nat /\ 2 * B + 1 \in Nat
  BY <1>1, <1>3
<1>5. (2 * B + 1) * k < G
  <2>1. k + 1 <= Half
    BY <1>1
  <2>2. (k + 1) * (2 * B + 1) <= Half * (2 * B + 1)
    BY <1>1, <1>4, <2>1, Products
  <2>3. Half * (2 * B + 1) = G + Half /\ (k + 1) * (2 * B + 1) = (2 * B + 1) * k + (2 * B + 1)
    BY <1>1
  <2>4. (2 * B + 1) * k \in Nat
    BY <1>4
  <2> QED
    BY <1>1, <1>4, <2>2, <2>3, <2>4
<1> HIDE DEF B, D, C, G
<1>6. G * m <= C * y
  <2>1. G * (m * D) = (G * m) * D /\ C * ((k * D) * e) = (C * y) * D
    BY <1>2, <1>3, <1>4
  <2>2. G * m \in Nat /\ C * y \in Nat
    BY <1>3, <1>4
  <2>3. (G * m) * D <= (C * y) * D
    BY <1>3, <2>1
  <2> QED
    BY <1>2, <2>2, <2>3, Cancel
<1>7. C * y = G * y + ((2 * B + 1) * k) * e
  BY <1>3, <1>4
<1> HIDE DEF y
<1>8. ASSUME y + e <= m PROVE FALSE
  <2>1. (y + e) * G <= m * G
    BY <1>3, <1>4, <1>8, Products
  <2>2. (y + e) * G = G * y + G * e /\ m * G = G * m
    BY <1>3, <1>4
  <2>3. (2 * B + 1) * k \in Nat
    BY <1>4
  <2>4. ((2 * B + 1) * k) * e < G * e
    BY <1>3, <1>4, <1>5, <2>3, Products
  <2>5. G * y \in Nat /\ G * e \in Nat /\ G * m \in Nat /\ ((2 * B + 1) * k) * e \in Nat
    BY <1>3, <1>4, <2>3
  <2> QED
    BY <1>6, <1>7, <2>1, <2>2, <2>4, <2>5
<1>9. m < y + e
  BY <1>3, <1>4, <1>8
<1>10. (k + 1) * e = y + e
  <2>1. e \in Nat
    BY <1>3
  <2>2. (k + 1) * e = k * e + e
    BY <2>1, Products
  <2> QED
    BY <2>2 DEF y
<1> QED
  BY <1>9, <1>10

\* or where the price has more digits than the token.
LEMMA NotTooHighCut ==
  ASSUME NEW a \in Nat, NEW g \in Nat, NEW d \in Nat, NEW k \in Nat, a < Pow2[Precision - 2],
         NEW E \in Nat \ {0}, Pow10[g] = Pow10[d] * E, a + 1 <= (k + 1) * E,
         NEW m, NEW e, m = Product(a, g, d).m, e = Product(a, g, d).den
  PROVE  m < (k + 1) * e
<1> DEFINE B == Whole
           T == Pow10[d]
           C == (B + 1) * (B + 1)
           G == B * B
           Q == Pow2[Precision - 2]
           K == k + 1
<1>1. Q \in Nat \ {0} /\ B = 4 * Q
  BY Halves
<1>2. T \in Nat \ {0}
  BY Pow10Facts
<1>3. m \in Nat /\ e \in Nat \ {0} /\ G * (m * (T * E)) <= C * ((a * T) * e)
  BY ProductNear
<1>4. C = G + (2 * B + 1) /\ C \in Nat /\ G \in Nat \ {0} /\ 2 * B + 1 \in Nat
  BY <1>1
<1>5. (2 * B + 1) * a < G
  <2>1. a + 1 <= Q
    BY <1>1
  <2>2. (a + 1) * (2 * B + 1) <= Q * (2 * B + 1)
    BY <1>1, <1>4, <2>1, Products
  <2>3. /\ Q * (2 * B + 1) = 8 * (Q * Q) + Q /\ G = 16 * (Q * Q) /\ Q * Q \in Nat
        /\ (a + 1) * (2 * B + 1) = (2 * B + 1) * a + (2 * B + 1)
    BY <1>1
  <2>4. (2 * B + 1) * a \in Nat
    BY <1>4
  <2> QED
    BY <1>1, <1>4, <2>2, <2>3, <2>4
<1> HIDE DEF B, T, C, G, Q
<1>6. G * (m * E) <= C * (a * e)
  <2>1. G * (m * (T * E)) = (G * (m * E)) * T /\ C * ((a * T) * e) = (C * (a * e)) * T
    BY <1>2, <1>3, <1>4
  <2>2. G * (m * E) \in Nat /\ C * (a * e) \in Nat
    BY <1>3, <1>4
  <2>3. (G * (m * E)) * T <= (C * (a * e)) * T
    BY <1>3, <2>1
  <2> QED
    BY <1>2, <2>2, <2>3, Cancel
<1>7. K \in Nat /\ a + 1 <= K * E /\ K * e \in Nat
  BY <1>3
<1> HIDE DEF K
<1>8. ASSUME K * e <= m PROVE FALSE
  <2>1. (K * e) * (G * E) <= m * (G * E)
    BY <1>3, <1>4, <1>7, <1>8, Products
  <2>2. (a + 1) * (G * e) <= (K * E) * (G * e)
    BY <1>3, <1>4, <1>7, Products
  <2> DEFINE F == 2 * B + 1
  <2>0. m \in Nat /\ e \in Nat /\ K \in Nat /\ G \in Nat /\ F \in Nat /\ C = G + F
    BY <1>3, <1>4, <1>7
  <2> HIDE DEF F
  <2>3. /\ (K * e) * (G * E) = (K * E) * (G * e) /\ m * (G * E) = G * (m * E)
        /\ (a + 1) * (G * e) = G * (a * e) + G * e
        /\ C * (a * e) = G * (a * e) + (F * a) * e
    BY <2>0
  <2> USE DEF F
  <2>4. (2 * B + 1) * a \in Nat
    BY <1>4
  <2>5. ((2 * B + 1) * a) * e < G * e
    BY <1>3, <1>4, <1>5, <2>4, Products
  <2>6. /\ G * (a * e) \in Nat /\ G * e \in Nat /\ ((2 * B + 1) * a) * e \in Nat
        /\ (K * E) * (G * e) \in Nat /\ G * (m * E) \in Nat
    BY <1>3, <1>4, <1>7, <2>4
  <2> QED
    BY <1>6, <2>1, <2>2, <2>3, <2>5, <2>6
<1>9. m < K * e
  BY <1>3, <1>7, <1>8
<1> QED
  BY <1>9 DEF K

\* In range, the product's integer part is k or one less.
LEMMA ProductInRange ==
  ASSUME NEW a \in Nat, NEW g \in Nat, NEW d \in Nat,
         NEW k, k = (a * Pow10[d]) \div Pow10[g], a < Pow2[Precision - 2], k < Half,
         NEW m, NEW e, m = Product(a, g, d).m, e = Product(a, g, d).den
  PROVE  m \div e \in Nat /\ k \in Nat /\ m \div e \in {k - 1, k}
<1> DEFINE D == Pow10[g]
           T == Pow10[d]
           N == a * T
<1>1. D \in Nat \ {0} /\ T \in Nat \ {0} /\ N \in Nat
  BY Pow10Facts
<1>2. m \in Nat /\ e \in Nat \ {0}
  BY ProductNear
<1>3. k \in Nat /\ k * D <= N /\ N < (k + 1) * D
  <2>1. k = N \div D
    OBVIOUS
  <2> HIDE DEF N, D
  <2>2. k \in Nat /\ N % D \in 0..(D - 1) /\ N = k * D + (N % D)
    BY <1>1, <2>1, Division
  <2>3. (k + 1) * D = k * D + D /\ k * D \in Nat
    BY <1>1, <2>2, Products
  <2> QED
    BY <1>1, <2>2, <2>3
<1>4. k * e <= m + e
  BY <1>3, NotTooLow
<1>5. m < (k + 1) * e
  <2>1. CASE g <= d
    <3> DEFINE F == Pow10[d - g]
    <3>1. F \in Nat \ {0} /\ T = D * F
      <4>1. d - g \in Nat /\ g + (d - g) = d
        BY <2>1
      <4>2. Pow10[g + (d - g)] = Pow10[g] * Pow10[d - g]
        BY <4>1, PowSums
      <4> QED
        BY <4>1, <4>2, Pow10Facts
    <3> HIDE DEF F
    <3>2. N = k * D
      <4> DEFINE K == a * F
      <4>1. K \in Nat /\ N = K * D
        <5>1. D \in Nat /\ F \in Nat /\ N = a * (D * F)
          BY <1>1, <3>1
        <5> HIDE DEF D, N
        <5> QED
          BY <5>1
      <4> HIDE DEF K, N, D
      <4>2. K * D < (k + 1) * D
        BY <1>3, <4>1
      <4>3. K <= k
        <5>1. SUFFICES ASSUME k + 1 <= K PROVE FALSE
          BY <1>3, <4>1
        <5>2. (k + 1) * D <= K * D /\ (k + 1) * D \in Nat /\ K * D \in Nat
          BY <1>1, <1>3, <4>1, <5>1, Products
        <5> QED
          BY <4>2, <5>2
      <4>4. k <= K
        BY <1>1, <1>3, <4>1, Cancel
      <4> QED
        BY <1>3, <4>1, <4>3, <4>4
    <3> QED
      BY <1>3, <3>2, NotTooHighWhole
  <2>2. CASE d < g
    <3> DEFINE E == Pow10[g - d]
    <3>1. E \in Nat \ {0} /\ D = T * E
      <4>1. g - d \in Nat /\ d + (g - d) = g
        BY <2>2
      <4>2. Pow10[d + (g - d)] = Pow10[d] * Pow10[g - d]
        BY <4>1, PowSums
      <4> QED
        BY <4>1, <4>2, Pow10Facts
    <3> HIDE DEF E
    <3>2. a + 1 <= (k + 1) * E
      <4> DEFINE K == (k + 1) * E
      <4>1. K \in Nat /\ (k + 1) * D = K * T
        <5>1. T \in Nat /\ k \in Nat /\ E \in Nat /\ (k + 1) * D = (k + 1) * (T * E)
          BY <1>1, <1>3, <3>1
        <5> HIDE DEF D, T
        <5> QED
          BY <5>1
      <4> HIDE DEF K
      <4>2. a * T < K * T
        BY <1>3, <4>1
      <4>3. a < K
        <5>1. SUFFICES ASSUME K <= a PROVE FALSE
          BY <4>1
        <5>2. K * T <= a * T /\ K * T \in Nat /\ a * T \in Nat
          BY <1>1, <4>1, <5>1, Products
        <5> QED
          BY <4>2, <5>2
      <4>4. a + 1 <= K
        BY <4>1, <4>3
      <4> QED
        BY <4>4 DEF K
    <3> QED
      BY <1>3, <3>1, <3>2, NotTooHighCut
  <2> QED
    BY <2>1, <2>2
<1> HIDE DEF D, T, N
<1>6. m \div e \in Nat
  BY <1>2, Division
<1>7. CASE k = 0
  <2>1. 0 * e <= m /\ m < 1 * e
    BY <1>2, <1>5, <1>7
  <2>2. m \div e \in 0..(1 - 1)
    BY <1>2, <2>1, Quotient
  <2> QED
    BY <1>6, <1>7, <2>2
<1>8. CASE k # 0
  <2> DEFINE j == k - 1
  <2>1. j \in Nat /\ k = j + 1
    BY <1>3, <1>8
  <2> HIDE DEF j
  <2>2. k * e = j * e + e /\ j * e \in Nat
    BY <1>2, <2>1, Products
  <2>3. j * e <= m
    BY <1>2, <1>4, <2>2
  <2> DEFINE h == k + 1
  <2>4. h \in Nat /\ m < h * e
    BY <1>3, <1>5
  <2> HIDE DEF h
  <2>5. m \div e \in j..(h - 1)
    BY <1>2, <2>1, <2>3, <2>4, Quotient
  <2> QED
    BY <1>3, <1>6, <2>1, <2>5 DEF h
<1> QED
  BY <1>3, <1>6, <1>7, <1>8

\* Whole coins lose nothing in either float.
LEMMA ProductExact ==
  ASSUME NEW a \in Nat, NEW d \in Nat, a < Half, a * Pow10[d] < Half,
         NEW m, NEW e, m = Product(a, 0, d).m, e = Product(a, 0, d).den
  PROVE  m \div e = a * Pow10[d]
<1> DEFINE T == Pow10[d]
           n == Float(a, 1).m
           c == Float(a, 1).den
           k == a * T
<1>1. T \in Nat \ {0} /\ k \in Nat /\ Pow10[0] = 1
  BY Pow10Facts
<1>2. n = a * c /\ c \in Nat \ {0}
  <2>1. a = a * 1
    OBVIOUS
  <2> QED
    BY <2>1, FloatExact
<1>3. m = Float(n * T, c).m /\ e = Float(n * T, c).den
  BY <1>1 DEF Product
<1> HIDE DEF n, c, T
<1>4. n * T = k * c
  BY <1>1, <1>2
<1>5. k < Half
  BY DEF T
<1> HIDE DEF k
<1>6. m = k * e /\ e \in Nat \ {0}
  <2> DEFINE num == n * T
  <2>1. num = k * c /\ m = Float(num, c).m /\ e = Float(num, c).den
    BY <1>3, <1>4
  <2> HIDE DEF num
  <2> QED
    BY <1>1, <1>2, <1>5, <2>1, FloatExact
<1>7. k * e <= m /\ m < (k + 1) * e /\ m \in Nat
  <2>1. (k + 1) * e = k * e + e /\ k * e \in Nat
    BY <1>1, <1>6, Products
  <2> QED
    BY <1>6, <2>1
<1>8. m \div e \in k..((k + 1) - 1)
  BY <1>1, <1>6, <1>7, Quotient
<1>9. m \div e = k
  BY <1>1, <1>8
<1> QED
  BY <1>9 DEF k, T

-----------------------------------------------------------------------------
\* What is asked for is computed from the price once, and it is an integer.
PriceInv == /\ price \in Prices /\ decimals \in 0..MaxDecimals
            /\ amount \in {Unparsed, Smallest(price, decimals)}

LEMMA PriceInvariant == Spec => []PriceInv
<1>1. Init => PriceInv
  BY DEF Init, PriceInv
<1>2. PriceInv /\ [Next]_vars => PriceInv'
  BY DEF PriceInv, Next, ParsePrice, vars
<1> QED
  BY <1>1, <1>2, PTL DEF Spec

\* The parts of an amount asked for.
LEMMA AmountParts ==
  ASSUME PriceInv, amount # Unparsed, InRange
  PROVE  /\ price.num \in Nat /\ price.digits \in Nat /\ decimals \in Nat
         /\ price.num < Pow2[Precision - 2] /\ Exact < Half /\ Exact < Pow2[Width - 1]
         /\ amount = ToInt(Product(price.num, price.digits, decimals).m
                             \div Product(price.num, price.digits, decimals).den)
<1>1. price.num \in 0..MaxPrice /\ price.digits \in 0..MaxDigits
  BY DEF PriceInv, Prices
<1>2. amount = Smallest(price, decimals)
  BY DEF PriceInv
<1> QED
  BY <1>1, <1>2, PriceAssumption DEF PriceInv, InRange, Half, Smallest, Product

\* ParsePrice, in the range of both its types, asks for the exact amount or for one of
\* the token's smallest units less: two roundings of a float64 never make a price dearer,
\* whatever the token's decimals and the digits of the price.
THEOREM PriceWithinOneUnit == Spec => []WithinOneUnit
<1>1. PriceInv => WithinOneUnit
  <2> SUFFICES ASSUME PriceInv, amount # Unparsed, InRange PROVE amount \in {Exact - 1, Exact}
    BY DEF WithinOneUnit
  <2> DEFINE a == price.num
             g == price.digits
             n == Product(a, g, decimals).m \div Product(a, g, decimals).den
  <2>1. /\ a \in Nat /\ g \in Nat /\ decimals \in Nat
        /\ a < Pow2[Precision - 2] /\ Exact < Half /\ Exact < Pow2[Width - 1]
        /\ amount = ToInt(n)
    BY AmountParts
  <2>2. n \in Nat /\ Exact \in Nat /\ n \in {Exact - 1, Exact}
    <3>1. Exact = (a * Pow10[decimals]) \div Pow10[g]
      BY DEF Exact
    <3> HIDE DEF a, g
    <3> QED
      BY <2>1, <3>1, ProductInRange
  <2>3. Pow2[Width - 1] \in Nat
    <3>1. Width - 1 \in Nat
      BY PriceAssumption
    <3> QED
      BY <3>1, Pow2Facts
  <2> HIDE DEF n
  <2>4. n < Pow2[Width - 1]
    BY <2>1, <2>2, <2>3
  <2>5. amount = n
    BY <2>1, <2>4 DEF ToInt
  <2> QED
    BY <2>2, <2>5
<1> QED
  BY <1>1, PriceInvariant, PTL

\* A whole number of coins in range is asked for exactly: neither float rounds it.
THEOREM WholeCoinsExact == Spec => []WholePriceExact
<1>1. PriceInv => WholePriceExact
  <2> SUFFICES ASSUME PriceInv, amount # Unparsed, InRange, price.digits = 0
               PROVE  amount = price.num * Pow10[decimals]
    BY DEF WholePriceExact
  <2> DEFINE a == price.num
             k == a * Pow10[decimals]
             n == Product(a, 0, decimals).m \div Product(a, 0, decimals).den
  <2>1. /\ a \in Nat /\ decimals \in Nat
        /\ a < Pow2[Precision - 2] /\ Exact < Half /\ Exact < Pow2[Width - 1]
        /\ amount = ToInt(n)
    BY AmountParts
  <2>2. Pow10[decimals] \in Nat \ {0} /\ k \in Nat
    BY <2>1, Pow10Facts
  <2>3. Exact = k
    <3>1. Exact = k \div 1
      BY Pow10Facts DEF Exact
    <3> HIDE DEF k
    <3> QED
      BY <2>2, <3>1
  <2>4. a < Half
    BY <2>1, Halves
  <2>5. n = k
    <3> HIDE DEF a
    <3> QED
      BY <2>1, <2>3, <2>4, ProductExact
  <2> HIDE DEF n, k
  <2>6. amount = k
    BY <2>1, <2>3, <2>5 DEF ToInt
  <2> QED
    BY <2>6 DEF k
<1> QED
  BY <1>1, PriceInvariant, PTL
=============================================================================
