--------------------------- MODULE FacilitatorTerms -------------------------
(***************************************************************************)
(* The terms a facilitator quotes and checks: getBaseFee, FeeQuote,        *)
(* validatePermit and validateAuthorization.  An address is a value, and   *)
(* written as the registry writes it: PermitEncoding has the other         *)
(* spellings.  Amounts are big.Int where the code uses big.Int and         *)
(* saturate where it uses strconv.ParseInt.                                *)
(***************************************************************************)
EXTENDS Integers, ServerRequirements

CONSTANTS Known,          \* the facilitator's own registry: from <<network, symbol>> to
                          \* the name and version of the token
          FeeTo,          \* the facilitator's fee address
          Zero,           \* the zero address: the permit carries no fee
          MaxInt,         \* 2^63 - 1, scaled down
          UnknownToken    \* the domain "Unknown Token", version "1"

ASSUME TermsAssumption == MaxInt \in Nat /\ FeeTo # Zero

MinInt == -MaxInt - 1

\* Out of range, ParseInt gives the nearest number in range, and an error nobody reads.
ParseInt(n) == IF n > MaxInt THEN MaxInt ELSE IF n < MinInt THEN MinInt ELSE n

\* The registry of the facilitator's own build has the token.
FindByAddress(asset) == asset \in DOMAIN Known

\* Name and version of a token's EIP-712 domain, as the registry of a party's build
\* knows them.
TokenDomain(registry, asset) ==
  IF asset \in DOMAIN registry THEN registry[asset] ELSE UnknownToken

\* -1 for a token the registry does not know, 0 for one without an entry.
GetBaseFee(fees, asset) ==
  IF ~FindByAddress(asset) THEN -1
  ELSE IF asset[2] \in DOMAIN fees THEN fees[asset[2]] ELSE 0

\* permit402: a token the facilitator does not know has no quote.
PermitQuote(fees, asset) ==
  IF GetBaseFee(fees, asset) < 0 THEN NoFee
  ELSE [feeTo |-> FeeTo, feeAmount |-> GetBaseFee(fees, asset)]

\* transfer_auth is free of fees, and quotes just that.
AuthorizationQuote == [feeTo |-> FeeTo, feeAmount |-> 0]

FeeQuote(fees, req) ==
  IF req.scheme = "permit402" THEN PermitQuote(fees, req.asset) ELSE AuthorizationQuote

InTime(p, now) == IF p.validBefore < now THEN "expired"
                  ELSE IF p.validAfter > now THEN "not_yet_valid" ELSE "valid"

\* mutant: the amount of the fee is not compared
FeeToOnly(fees, p) == IF p.feeTo # Zero /\ p.feeTo # FeeTo THEN "fee_to_mismatch" ELSE "valid"

\* The fee of a permit is only looked at when it goes to somebody.
CheckFee(fees, p) ==
  IF p.feeTo = Zero THEN "valid"
  ELSE IF p.feeTo # FeeTo THEN "fee_to_mismatch"
  ELSE IF GetBaseFee(fees, p.payToken) < 0 THEN "unsupported_token"
  ELSE IF ParseInt(p.feeAmount) < GetBaseFee(fees, p.payToken) THEN "fee_amount_mismatch"
  ELSE "valid"

ValidatePermit(fees, p, req, now) ==
  IF p.payAmount < req.amount THEN "amount_mismatch"
  ELSE IF p.payTo # req.payTo THEN "payto_mismatch"
  ELSE IF p.payToken # req.asset THEN "token_mismatch"
  ELSE IF CheckFee(fees, p) # "valid" THEN CheckFee(fees, p)
  ELSE InTime(p, now)

\* transfer_auth has no fee to check, but compares amounts after ParseInt.
ValidateAuthorization(allowed, a, req, now) ==
  IF req.asset \notin allowed THEN "token_not_allowed"
  ELSE IF ParseInt(a.payAmount) < ParseInt(req.amount) THEN "amount_mismatch"
  ELSE IF a.payTo # req.payTo THEN "payto_mismatch"
  ELSE InTime(a, now)

\* The authorization is signed for a domain the facilitator makes up itself.
VerifyAuthorization(allowed, a, req, now) ==
  LET reason == ValidateAuthorization(allowed, a, req, now)
  IN  IF reason = "valid" /\ a.domain # TokenDomain(Known, req.asset)
      THEN "invalid_signature" ELSE reason
=============================================================================
