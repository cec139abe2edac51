------------------------------ MODULE TokenPrice ----------------------------
(***************************************************************************)
(* tokens.ParsePrice: the price of a resource, a decimal number of coins,  *)
(* becomes a whole number of the token's smallest units, by way of a       *)
(* float64 and an int64.  Both widths are scaled down: a float keeps       *)
(* Precision bits of its value, an integer has Width bits.                 *)
(***************************************************************************)
EXTENDS Integers

CONSTANTS Precision,      \* 53 in the code
          Width,          \* 64 in the code
          MaxDecimals,    \* bound: decimals of a token, 6 and 18 in the registry
          MaxDigits,      \* bound: digits of a price after its point
          MaxPrice,       \* bound: a price without its point
          Unparsed

VARIABLES price,          \* [num, digits]: num / 10^digits coins
          decimals,       \* of the token
          amount          \* the smallest units asked for, or Unparsed

vars == <<price, decimals, amount>>

ASSUME PriceAssumption ==
  /\ Precision \in Nat /\ Precision > 1
  /\ Width \in Nat \ {0}
  /\ MaxDecimals \in Nat /\ MaxDigits \in Nat /\ MaxPrice \in Nat

\* The loop of pow10, and powers of two.
Pow10[n \in Nat] == IF n = 0 THEN 1 ELSE 10 * Pow10[n - 1]
Pow2[n \in Nat] == IF n = 0 THEN 1 ELSE 2 * Pow2[n - 1]

\* The length of n in binary.
Bits(n) == CHOOSE b \in 1..n : Pow2[b - 1] <= n /\ n < Pow2[b]

\* num / den times 2^s, as a fraction.
Scaled(num, den, s) == IF s >= 0 THEN [num |-> num * Pow2[s], den |-> den]
                                 ELSE [num |-> num, den |-> den * Pow2[-s]]

\* num / den as the nearest float (ties to even): the shift s by which Precision bits
\* of it come before the point,
Shift(num, den) ==
  LET about == Precision - 1 - Bits(num) + Bits(den)
  IN  CHOOSE s \in {about, about + 1} :
        LET f == Scaled(num, den, s)
        IN  f.num \div f.den \in Pow2[Precision - 1]..(Pow2[Precision] - 1)

Nearest(num, den) == LET q == num \div den
                         r == 2 * (num % den)
                     IN  IF r > den \/ (r = den /\ q % 2 = 1) THEN q + 1 ELSE q

\* and these bits, again as a fraction m / den.
Float(num, den) ==
  IF num = 0 THEN [m |-> 0, den |-> 1]
  ELSE LET s == Shift(num, den)
           f == Scaled(num, den, s)
           n == Nearest(f.num, f.den)
       IN  IF s >= 0 THEN [m |-> n, den |-> Pow2[s]] ELSE [m |-> n * Pow2[-s], den |-> 1]

\* int64(f): toward zero; out of range, amd64 yields the least integer.
MinInt == -Pow2[Width - 1]

\* mutant: half the width
ToHalfInt(n) == IF n < Pow2[Width \div 2] THEN n ELSE MinInt

ToInt(n) == IF n < Pow2[Width - 1] THEN n ELSE MinInt

\* mutant: the coins are truncated before they are scaled
TruncateFirst(p, d) == ToInt((p.num \div Pow10[p.digits]) * Pow10[d])

\* int64(amt * float64(pow10(decimals))): the parsed float, the rounded product,
\* its integer part.
Smallest(p, d) == LET amt == Float(p.num, Pow10[p.digits])
                      product == Float(amt.m * Pow10[d], amt.den)
                  IN  ToInt(product.m \div product.den)

Prices == [num : 0..MaxPrice, digits : 0..MaxDigits]

Init == /\ price \in Prices
        /\ decimals \in 0..MaxDecimals
        /\ amount = Unparsed

ParsePrice == /\ amount = Unparsed
              /\ amount' = Smallest(price, decimals)
              /\ UNCHANGED <<price, decimals>>

Next == ParsePrice

Spec == Init /\ [][Next]_vars

-----------------------------------------------------------------------------
\* The reference: the price times 10^decimals, cut to whole units.
Exact == (price.num * Pow10[decimals]) \div Pow10[price.digits]

\* What neither the float's precision nor the integer's width cuts off.
InRange == /\ price.num < Pow2[Precision - 2]
           /\ Exact < Pow2[Precision - 1] /\ Exact < Pow2[Width - 1]

\* A price in the range of both types is never asked too high, and at most one
\* unit too low.
WithinOneUnit == amount # Unparsed /\ InRange => amount \in {Exact - 1, Exact}

\* A whole number of coins in range is asked exactly.
WholePriceExact ==
  amount # Unparsed /\ InRange /\ price.digits = 0 => amount = price.num * Pow10[decimals]

\* tokens/registry.go: 'ParsePrice parses "100 USDC" style price': a whole number of
\* coins is asked for exactly, whatever the token's decimals.
StylePriceExact ==
  amount # Unparsed /\ price.digits = 0 => amount = price.num * Pow10[decimals]
=============================================================================
