---------------------------- MODULE PaywallServer ---------------------------
(***************************************************************************)
(* The resource server: middleware/paywall.go over X402Server and the      *)
(* HTTPFacilitatorClient.  A handler keeps nothing between requests; a     *)
(* delivery of a paid request is one run of verifyAndSettle, and its two   *)
(* calls to the facilitator may fail, time out after 30 s, or be answered. *)
(***************************************************************************)
EXTENDS FacilitatorSettle

CONSTANT Window           \* 3600 s: the life of every permit, in ticks

VARIABLE handler          \* the phase of the handler of a delivery

inFlight == {"verify", "settle", "waiting", "settled"}

handlerPhases == {"none", "served", "refused", "gone"} \union inFlight

ASSUME ServerAssumption == Window \in Nat

HandlerTypeOK == handler \in [Deliveries -> handlerPhases]

HandlerInit == handler = [d \in Deliveries |-> "none"]

Goes(d, phase) == handler' = [handler EXCEPT ![d] = phase]

\* A 402 response for a scheme with its permit402Context, whose nonce is the
\* server's clock.
PaymentRequired(scheme) == [scheme |-> scheme, nonce |-> clock,
                            validAfter |-> clock, validBefore |-> clock + Window]

\* ProcessPayment on a request with a PAYMENT-SIGNATURE header.
ProcessPayment(d) == handler[d] = "none" /\ Goes(d, "verify")

\* VerifyPayment: the facilitator's verdict, or an error on the way to it.
VerifyPayment(d, p) ==
  /\ handler[d] = "verify"
  /\ \/ ValidPermit(p) /\ Goes(d, "settle")
     \/ Goes(d, "refused")
  /\ UNCHANGED <<chainVars, call>>

\* SettlePayment: the request reaches the facilitator, or the connection fails.
SettlePayment(d) ==
  /\ handler[d] = "settle"
  /\ \/ Goes(d, "waiting") /\ Becomes(d, "check")
     \/ Goes(d, "refused") /\ UNCHANGED call
  /\ UNCHANGED chainVars

\* mutant: settleResp.Success is not looked at
AnswerUnchecked(d) ==
  /\ handler[d] = "waiting"
  /\ call[d] \in Results
  /\ Goes(d, "settled")
  /\ UNCHANGED <<chainVars, call>>

\* The answer of the settle call; only on Success is there a result.
SettleAnswer(d) ==
  /\ handler[d] = "waiting"
  /\ call[d] \in Results
  /\ Goes(d, IF call[d] = "success" THEN "settled" ELSE "refused")
  /\ UNCHANGED <<chainVars, call>>

\* The adapter of net/http, gin or goframe runs the protected handler: after the
\* settlement, and whatever becomes of it the payment is not undone.
RunNext(d) == /\ handler[d] = "settled"
              /\ Goes(d, "served")
              /\ UNCHANGED <<chainVars, call>>

\* mutant: the facilitator client has no timeout
NoTimeout(d) == FALSE /\ UNCHANGED <<chainVars, call, handler>>

\* postJSON fails while the call runs on: the 30 s timeout, a broken connection,
\* a status that is not 2xx, or the context of a client that went away.
SettleTimeout(d) ==
  /\ handler[d] = "waiting"
  /\ Goes(d, "refused")
  /\ UNCHANGED <<chainVars, call>>

\* The server process dies: every handler in flight is lost, nothing persists.
ServerCrash ==
  /\ \E d \in Deliveries : handler[d] \in inFlight
  /\ handler' = [d \in Deliveries |->
                   IF handler[d] \in inFlight THEN "gone" ELSE handler[d]]
  /\ UNCHANGED <<chainVars, call>>
=============================================================================
