-------------------------- MODULE FacilitatorSettle -------------------------
(***************************************************************************)
(* The facilitator's side of a settlement: Verify and Settle of the        *)
(* permit402 mechanisms and of transfer_auth, which have the same phases,  *)
(* over the signers' WriteContract and WaitForTransactionReceipt.  Each    *)
(* settle call runs in its own goroutine, so its steps interleave with     *)
(* those of every other call, with the clock and with the chain.  The      *)
(* permit is the one the SDK's client signs for the accepted requirements; *)
(* how each of its fields is compared is the business of FacilitatorTerms, *)
(* here only the window can fail.                                          *)
(***************************************************************************)
EXTENDS Permit402Chain

CONSTANTS ReportedFailed, \* receipt codes the signer reports as status "failed"
          GasEstimated    \* TRUE: the node refuses to sign a call that would revert

VARIABLE call             \* the settle call of a delivery: its phase or its result

\* The ErrorReasons of SettleResponse; "invalid" stands for those of Verify.
Failures == {"invalid", "transaction_failed", "receipt_failed", "failed_on_chain"}
Results  == {"success"} \union Failures

ASSUME FacilitatorAssumption ==
  /\ ReportedFailed \subseteq FailureCodes
  /\ GasEstimated \in BOOLEAN

CallTypeOK == call \in [Deliveries -> {"none", "check", "write", "wait"} \union Results]

CallInit == call = [d \in Deliveries |-> "none"]

\* The window of validatePermit and of validateAuthorization: "expired" when validBefore < now,
\* "not_yet_valid" when validAfter > now.
ValidPermit(p) == ~ (p.validBefore < clock) /\ ~ (p.validAfter > clock)

Becomes(d, result) == call' = [call EXCEPT ![d] = result]

\* Settle first verifies once more, whatever an earlier Verify said.
SettleVerify(d, p) == /\ call[d] = "check"
                      /\ Becomes(d, IF ValidPermit(p) THEN "write" ELSE "invalid")
                      /\ UNCHANGED chainVars

\* WriteContract sends nothing (no client, estimation reverts, the node refuses),
NotSent(d) == /\ call[d] = "write"
              /\ Becomes(d, "transaction_failed")
              /\ UNCHANGED chainVars

\* mutant: a lost answer of the node is taken for a failure on the chain
SentLostOnChain(d, b, p) ==
  /\ call[d] = "write"
  /\ GasEstimated => Redeemable(b, p)
  /\ Submit(d)
  /\ Becomes(d, "wait") \/ Becomes(d, "failed_on_chain")
  /\ UNCHANGED <<clock, used, balance>>

\* or the node takes the transaction, and its answer may still be lost.
Sent(d, b, p) ==
  /\ call[d] = "write"
  /\ GasEstimated => Redeemable(b, p)
  /\ Submit(d)
  /\ Becomes(d, "wait") \/ Becomes(d, "transaction_failed")
  /\ UNCHANGED <<clock, used, balance>>

WriteContract(d, b, p) == NotSent(d) \/ Sent(d, b, p)

\* mutant: a receipt is a success, whatever its status
StatusIgnored(code) == "success"

\* mutant: an unknown status has a result of its own
StatusPassedOn(code) == IF code = "confirmed" THEN "success" ELSE code

\* What Settle makes of the receipt of a transaction that ended with code.
ReceiptResult(code) ==
  IF code \in ReportedFailed THEN "failed_on_chain" ELSE "success"

\* The receipt is there once the transaction is in a block.
ReceiptArrives(d) == /\ call[d] = "wait"
                     /\ tx[d] \in {"confirmed"} \union FailureCodes
                     /\ Becomes(d, ReceiptResult(tx[d]))
                     /\ UNCHANGED chainVars

\* The 120 polls are used up, the context ends or the node does not answer: the
\* transaction may still be pending, or even be in a block.
ReceiptTimeout(d) == /\ call[d] = "wait"
                     /\ Becomes(d, "receipt_failed")
                     /\ UNCHANGED chainVars
=============================================================================
