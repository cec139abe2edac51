--------------------------- MODULE Permit402Chain ---------------------------
(***************************************************************************)
(* The chain with the Permit402 contract and a token that has EIP-3009's   *)
(* transferWithAuthorization, as the Go code uses them: of the contracts   *)
(* only the ABIs and the error names NonceAlreadyUsed and InvalidTimestamp *)
(* are under src/.  A permit is a permit402 permit or an authorization of  *)
(* transfer_auth.  A delivery of a payment owns at most one transaction    *)
(* (one settle call submits at most one of the two calls).  One unit of    *)
(* balance is one price; all permits of the model are for one price.       *)
(***************************************************************************)
EXTENDS Integers

CONSTANTS Buyers, Deliveries,
          Funds,          \* bound: prices each buyer starts with
          FailureCodes,   \* receipt codes of a transaction that moved nothing
          MaxClock        \* bound: the last tick of the clock

VARIABLES clock,          \* time.Now() of server and facilitator, and block time
          tx,             \* state of the transaction of a delivery
          used,           \* keys <<scheme, buyer, nonce>> the contracts have consumed
          balance         \* prices left to each buyer

chainVars == <<clock, tx, used, balance>>

TxStates == {"none", "pending", "confirmed", "dropped"} \union FailureCodes

Schemes == {"permit402", "transfer_auth"}

Permits == [scheme : Schemes, nonce : Nat, validAfter : Int, validBefore : Nat]

\* Permit402 and the token each keep the nonces of their own permits.
Key(b, p) == <<p.scheme, b, p.nonce>>

ASSUME ChainAssumption ==
  /\ Funds \in Nat
  /\ MaxClock \in Nat
  /\ FailureCodes # {}
  /\ FailureCodes \intersect {"none", "pending", "confirmed", "dropped"} = {}

ChainTypeOK == /\ clock \in Nat
               /\ tx \in [Deliveries -> TxStates]
               /\ used \subseteq (Schemes \X Buyers \X Nat)
               /\ balance \in [Buyers -> Nat]

ChainInit == /\ clock = 1
             /\ tx = [d \in Deliveries |-> "none"]
             /\ used = {}
             /\ balance = [b \in Buyers |-> Funds]

\* Permit402's window includes both ends, that of EIP-3009 neither.
InWindow(p) == IF p.scheme = "permit402"
               THEN p.validAfter <= clock /\ clock <= p.validBefore
               ELSE p.validAfter < clock /\ clock < p.validBefore

\* The call that redeems permit p succeeds for buyer b in the present state.
Redeemable(b, p) == /\ InWindow(p)
                    /\ Key(b, p) \notin used
                    /\ balance[b] > 0

\* A node takes the transaction of delivery d into its pool.
Submit(d) == tx' = [tx EXCEPT ![d] = "pending"]

\* The transaction enters a block: it moves the price and consumes the nonce,
Transfer(d, b, p) == /\ tx[d] = "pending"
                     /\ Redeemable(b, p)
                     /\ tx' = [tx EXCEPT ![d] = "confirmed"]
                     /\ used' = used \union {Key(b, p)}
                     /\ balance' = [balance EXCEPT ![b] = @ - 1]
                     /\ UNCHANGED clock

\* or fails and moves nothing (a refused permit, no gas, no energy),
Fail(d) == /\ tx[d] = "pending"
           /\ \E code \in FailureCodes : tx' = [tx EXCEPT ![d] = code]
           /\ UNCHANGED <<clock, used, balance>>

\* or never does: evicted, or replaced by a later one with the same account nonce.
Drop(d) == /\ tx[d] = "pending"
           /\ tx' = [tx EXCEPT ![d] = "dropped"]
           /\ UNCHANGED <<clock, used, balance>>

Tick == /\ clock < MaxClock
        /\ clock' = clock + 1
        /\ UNCHANGED <<tx, used, balance>>
=============================================================================
