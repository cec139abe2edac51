----------------------------- MODULE PaymentFlow ----------------------------
(***************************************************************************)
(* The x402 flow end to end: X402HTTPClient requests, the paywall, the     *)
(* facilitator's settle calls and the chain.  A request is one call of     *)
(* RequestWithPayment; it obtains one 402, signs one permit402 permit or   *)
(* one transfer_auth authorization and sends it in one delivery, or in     *)
(* several when net/http's Transport sends the paid request again over a   *)
(* new connection.                                                         *)
(***************************************************************************)
EXTENDS PaywallServer

CONSTANTS Requests,
          BuyerOf,        \* the buyer whose client makes a request
          Owner,          \* the request that a delivery carries
          NoDelivery,
          OfferedSchemes, \* the schemes the server's 402s may ask for
          RandomOf,       \* what CreateNonce draws for a request
          Buffer          \* ValidityBufferSeconds: 30 s before the client's clock

VARIABLES client,         \* the phase of a request at its client
          permit,         \* the permit a request was asked to sign, then what it signed
          current         \* the delivery whose answer the client awaits

vars == <<chainVars, call, handler, client, permit, current>>

Finished == {"granted", "denied", "error"}

ASSUME FlowAssumption == /\ BuyerOf \in [Requests -> Buyers]
                         /\ Owner \in [Deliveries -> Requests]
                         /\ NoDelivery \notin Deliveries
                         /\ OfferedSchemes \subseteq Schemes
                         /\ Buffer \in Nat

\* 32 random bytes are never drawn twice.
ASSUME RandomAssumption == /\ RandomOf \in [Requests -> Nat]
                           /\ \A r, q \in Requests : RandomOf[r] = RandomOf[q] => r = q

TypeOK == /\ ChainTypeOK
          /\ CallTypeOK
          /\ HandlerTypeOK
          /\ client \in [Requests -> {"idle", "asked", "quoted", "paying"} \union Finished]
          /\ permit \in [Requests -> Permits]
          /\ current \in [Requests -> Deliveries \union {NoDelivery}]

Init == /\ ChainInit
        /\ CallInit
        /\ HandlerInit
        /\ client = [r \in Requests |-> "idle"]
        /\ permit = [r \in Requests |-> [scheme |-> "permit402", nonce |-> 0,
                                     validAfter |-> 0, validBefore |-> 0]]
        /\ current = [r \in Requests |-> NoDelivery]

Ends(r, phase) == client' = [client EXCEPT ![r] = phase]

KeyOf(r) == Key(BuyerOf[r], permit[r])

serverVars == <<chainVars, call, handler>>

\* The first request, without payment.
Ask(r) == /\ client[r] = "idle"
          /\ Ends(r, "asked")
          /\ UNCHANGED <<serverVars, permit, current>>

\* The paywall answers it with a 402 that asks for a permit, or with a 500 when
\* it cannot build the requirements.
ReturnPaymentRequired(r) ==
  /\ client[r] = "asked"
  /\ \/ \E scheme \in OfferedSchemes :
           /\ Ends(r, "quoted")
           /\ permit' = [permit EXCEPT ![r] = PaymentRequired(scheme)]
     \/ Ends(r, "denied") /\ UNCHANGED permit
  /\ UNCHANGED <<serverVars, current>>

\* mutant: the authorization takes its nonce from the clock, as permit402 does
ClockAuthorization(r) == [scheme |-> "transfer_auth", nonce |-> clock,
                          validAfter |-> clock - Buffer, validBefore |-> clock + Window]

\* The authorization of a transfer_auth client: CreateValidityWindow, CreateNonce.
Authorization(r) == [scheme |-> "transfer_auth", nonce |-> RandomOf[r],
                     validAfter |-> clock - Buffer, validBefore |-> clock + Window]

\* permit402 signs the context of the 402, transfer_auth what it makes itself.
Signed(r) == IF permit[r].scheme = "permit402" THEN permit[r] ELSE Authorization(r)

\* HandlePayment signs and retryWithPayment sends; no mechanism, no allowance or
\* no signature ends the request.  It need not come to this: HandlePayment may wait
\* for an approve for ever.
RetryWithPayment(r) ==
  /\ client[r] = "quoted"
  /\ \/ \E d \in Deliveries : /\ Owner[d] = r
                              /\ ProcessPayment(d)
                              /\ current' = [current EXCEPT ![r] = d]
                              /\ Ends(r, "paying")
        /\ permit' = [permit EXCEPT ![r] = Signed(r)]
     \/ Ends(r, "error") /\ UNCHANGED <<handler, current, permit>>
  /\ UNCHANGED <<chainVars, call>>

\* The Transport lost the connection before any byte of the answer and sends the
\* same bytes again; the handler of the first delivery runs on.
TransportRetry(r) ==
  /\ client[r] = "paying"
  /\ \E d \in Deliveries : /\ Owner[d] = r
                           /\ ProcessPayment(d)
                           /\ current' = [current EXCEPT ![r] = d]
  /\ UNCHANGED <<chainVars, call, client, permit>>

\* The answer to the paid request; a server that died closes the connection.
Receive(r) ==
  /\ client[r] = "paying"
  /\ \/ handler[current[r]] = "served" /\ Ends(r, "granted")
     \/ handler[current[r]] = "refused" /\ Ends(r, "denied")
     \/ handler[current[r]] = "gone" /\ Ends(r, "error")
  /\ UNCHANGED <<serverVars, permit, current>>

\* An answer is lost: Client.Do returns an error, the server does not know.
ConnectionLost(r) ==
  /\ client[r] \in {"asked", "paying"}
  /\ Ends(r, "error")
  /\ UNCHANGED <<serverVars, permit, current>>

ClientStep(r) == \/ Ask(r)
                 \/ ReturnPaymentRequired(r)
                 \/ RetryWithPayment(r)
                 \/ TransportRetry(r)
                 \/ Receive(r)
                 \/ ConnectionLost(r)

HandlerStep(d) == \/ VerifyPayment(d, permit[Owner[d]])
                  \/ SettlePayment(d)
                  \/ SettleAnswer(d)
                  \/ RunNext(d)
                  \/ SettleTimeout(d)

\* Settle of the mechanism that the payment's scheme names.
CallStep(d) == \/ SettleVerify(d, permit[Owner[d]])
               \/ WriteContract(d, BuyerOf[Owner[d]], permit[Owner[d]])
               \/ ReceiptArrives(d)
               \/ ReceiptTimeout(d)

ChainStep(d) == \/ Transfer(d, BuyerOf[Owner[d]], permit[Owner[d]])
                \/ Fail(d)
                \/ Drop(d)

clientVars == <<client, permit, current>>

\* All requests are over and nothing is in flight any more.
Quiescent == /\ \A r \in Requests : client[r] \in Finished
             /\ \A d \in Deliveries : /\ handler[d] \in {"none", "served", "refused", "gone"}
                                      /\ call[d] \in {"none"} \union Results
                                      /\ tx[d] # "pending"
             /\ UNCHANGED vars

Next == \/ \E r \in Requests : ClientStep(r)
        \/ \E d \in Deliveries : HandlerStep(d) /\ UNCHANGED clientVars
        \/ \E d \in Deliveries : CallStep(d) /\ UNCHANGED <<handler, clientVars>>
        \/ \E d \in Deliveries : ChainStep(d) /\ UNCHANGED <<call, handler, clientVars>>
        \/ ServerCrash /\ UNCHANGED clientVars
        \/ Tick /\ UNCHANGED <<call, handler, clientVars>>
        \/ Quiescent

Spec == Init /\ [][Next]_vars

(***************************************************************************)
(* Fairness: the server's goroutine is scheduled, and its facilitator      *)
(* client, as NewHTTPFacilitatorClient makes it, gives up after 30 s.      *)
(* Nothing is assumed of the buyer's client, whose HandlePayment may wait  *)
(* for an approve for ever and whose http.Client need have no timeout, of  *)
(* the protected handler, which is the user's code, of the facilitator, of *)
(* the chain or of the clock.                                              *)
(***************************************************************************)
PaywallStep(d) == VerifyPayment(d, permit[Owner[d]]) \/ SettlePayment(d)
                  \/ SettleAnswer(d) \/ SettleTimeout(d)

Fairness == \A d \in Deliveries : WF_vars(PaywallStep(d) /\ UNCHANGED clientVars)

FairSpec == Spec /\ Fairness

-----------------------------------------------------------------------------
\* Access is only granted for a payment the chain confirmed: a handler that ran
\* next did so after the transaction of its own settle call moved the price.  This
\* needs every failure code of the chain to be reported as one: an EVM receipt says 0
\* or 1, but of java-tron's codes the Tron signer knows only FAILED
\* (rpc.go:301), and with another one an unpaid request is served.
ServedIsPaid == \A d \in Deliveries : handler[d] = "served" => tx[d] = "confirmed"

\* A permit buys one access.  However often the paid request is delivered, and
\* even when two 402 responses named the same nonce, at most one handler serves.
\* On Tron as far as a failed transaction is reported as FAILED, see ServedIsPaid.
ServedOnce == \A d, e \in Deliveries :
                /\ handler[d] = "served" /\ handler[e] = "served"
                /\ KeyOf(Owner[d]) = KeyOf(Owner[e])
                => d = e

\* A settle call that reports the permit as invalid or the transaction as failed
\* on the chain charged nothing and never will; the reasons transaction_failed
\* and receipt_failed promise no such thing.
DefiniteFailureIsFree == \A d \in Deliveries :
  call[d] \in {"invalid", "failed_on_chain"} => tx[d] \notin {"pending", "confirmed"}

\* What uses up a transfer_auth authorization is a delivery of the request that
\* signed it, never the payment of another request, even of the same second.
AuthorizationIsOwn == \A d \in Deliveries :
  /\ handler[d] # "none"
  /\ permit[Owner[d]].scheme = "transfer_auth"
  /\ KeyOf(Owner[d]) \in used
  => \E e \in Deliveries : Owner[e] = Owner[d] /\ tx[e] = "confirmed"

\* The flow implements PaidAccess: one charge of one price per request, before
\* the only access it gives; on Tron with the same proviso on the receipt's code.
PA == INSTANCE PaidAccess WITH
        paid <- {r \in Requests : \E d \in Deliveries : Owner[d] = r /\ tx[d] = "confirmed"},
        granted <- {d \in Deliveries : handler[d] = "served"},
        purse <- balance

ImplementsPaidAccess == PA!Spec

\* The paywall decides on every payment it is given, even when the facilitator or the
\* chain stop and the settlement goes on without it: the handler refuses, or hands
\* the request on, unless its process dies.  Whether the client then gets an answer
\* depends on the network and on the protected handler, and whether it pays at all on
\* its wait for an approve.
PaymentDecided == \A d \in Deliveries :
  handler[d] = "verify" ~> handler[d] \in {"settled", "served", "refused", "gone"}

\* README.md: "Settlement confirmed -> Server returns resource".
SettledIsServed == \A d \in Deliveries :
  tx[d] = "confirmed" => handler[d] # "refused"
=============================================================================
