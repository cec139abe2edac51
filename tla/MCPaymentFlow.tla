---------------------------- MODULE MCPaymentFlow ---------------------------
(***************************************************************************)
(* Two small instances: one request whose paid request is delivered twice, *)
(* and two requests of one buyer, each delivered once.                     *)
(***************************************************************************)
EXTENDS PaymentFlow

CONSTANTS r1, r2, b1, d1, d2

Buyer        == {b1}
TwoDeliveries == {d1, d2}

OneRequest   == {r1}
OneBuyerOf   == [r \in OneRequest |-> b1]
OneOwner     == [d \in TwoDeliveries |-> r1]

TwoRequests  == {r1, r2}
TwoBuyerOf   == [r \in TwoRequests |-> b1]
TwoOwner     == [d \in TwoDeliveries |-> IF d = d1 THEN r1 ELSE r2]

\* Out of the range of the clock, so that a nonce tells its origin.
RandomNonces(requests) == [r \in requests |-> IF r = r1 THEN 11 ELSE 12]
OneRandom    == RandomNonces(OneRequest)
TwoRandom    == RandomNonces(TwoRequests)

BothSchemes  == {"permit402", "transfer_auth"}

\* EVM receipts have Status 0 or 1, and the node estimates the gas of a call before
\* it takes it; the Tron node takes it unseen, and receipt.result is FAILED.
EvmCodes     == {"reverted"}
TronCodes    == {"FAILED"}
=============================================================================
