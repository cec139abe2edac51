--------------------------- MODULE ClientAllowance --------------------------
(***************************************************************************)
(* EnsureAllowance of signers/evm_client_signer.go and                     *)
(* signers/tron_client_signer.go, and the token contract it prepares: one  *)
(* buyer, one token, one spender (the Permit402 contract).  A payment asks *)
(* for the allowance, signs its permit, and is later drawn by the          *)
(* facilitator's permitTransferFrom.  Nothing keeps the payments apart: a  *)
(* client that makes one request at a time may start the next while the    *)
(* permit of an earlier call, which ended with the server's 30 s timeout,  *)
(* can still be drawn.                                                     *)
(***************************************************************************)
EXTENDS Naturals, FiniteSets

CONSTANTS Payments,
          Total,          \* payAmount + feeAmount of a payment
          Mode,           \* "auto" (what the mechanisms pass), "interactive", "skip"
          Max,            \* 2^256 - 1, the amount that is approved
          Allowances      \* bound: the allowances the buyer may start with

VARIABLES tron,           \* TRUE for the Tron signer, FALSE for the EVM signer
          allowance,      \* external: what the spender may still draw
          approval,       \* external: state of the approve transaction of a payment
          pay,            \* the phase of a payment
          contended       \* history: another payment drew while this one's permit was out

vars == <<tron, allowance, approval, pay, contended>>

Over == {"error", "drawn", "refused"}

ASSUME AllowanceAssumption ==
  /\ Total \in [Payments -> Nat \ {0}]
  /\ Mode \in [Payments -> {"auto", "interactive", "skip"}]
  /\ Max \in Nat
  /\ \A p \in Payments : Total[p] <= Max
  /\ Allowances \subseteq 0..Max

\* What a set of payments draws together,
Together[S \in SUBSET Payments] ==
  IF S = {} THEN 0 ELSE LET p == CHOOSE p \in S : TRUE IN Total[p] + Together[S \ {p}]

\* which the unlimited approval covers.
ASSUME ApprovalAssumption == IsFiniteSet(Payments) /\ Together[Payments] <= Max

TypeOK ==
  /\ tron \in BOOLEAN
  /\ allowance \in Nat
  /\ approval \in [Payments -> {"none", "pending", "mined", "failed", "dropped"}]
  /\ pay \in [Payments -> {"idle", "check", "approve", "mining", "ensured", "signed"}
                            \union Over]
  /\ contended \subseteq Payments

Init == /\ tron \in BOOLEAN
        /\ allowance \in Allowances
        /\ approval = [p \in Payments |-> "none"]
        /\ pay = [p \in Payments |-> "idle"]
        /\ contended = {}

Goes(p, phase) == pay' = [pay EXCEPT ![p] = phase]

\* CreatePaymentPayload calls EnsureAllowance with the total; "skip" returns true.
Start(p) == /\ pay[p] = "idle"
            /\ Goes(p, IF Mode[p] = "skip" THEN "ensured" ELSE "check")
            /\ UNCHANGED <<allowance, approval>>

\* mutant: the fee is left out of the comparison
CheckWithoutFee(p) ==
  /\ pay[p] = "check"
  /\ \/ allowance + 1 >= Total[p] /\ Goes(p, "ensured")
     \/ allowance + 1 < Total[p] /\ Goes(p, IF Mode[p] = "interactive" THEN "error" ELSE "approve")
     \/ Goes(p, "error")
  /\ UNCHANGED <<allowance, approval>>

\* CheckAllowance reads the chain; enough is enough, interactive never approves.
CheckAllowance(p) ==
  /\ pay[p] = "check"
  /\ \/ allowance >= Total[p] /\ Goes(p, "ensured")
     \/ allowance < Total[p] /\ Goes(p, IF Mode[p] = "interactive" THEN "error" ELSE "approve")
     \/ Goes(p, "error")
  /\ UNCHANGED <<allowance, approval>>

\* mutant: a sent transaction is given a state of its own
SendApproveUntracked(p) ==
  /\ pay[p] = "approve"
  /\ approval' = [approval EXCEPT ![p] = "sent"]
  /\ Goes(p, "mining")
  /\ UNCHANGED allowance

\* The approve transaction is sent, or not.  The EVM signer then waits for it to
\* be mined, the Tron signer returns true when the node took it.
SendApprove(p) ==
  /\ pay[p] = "approve"
  /\ \/ /\ approval' = [approval EXCEPT ![p] = "pending"]
        /\ Goes(p, IF tron THEN "ensured" ELSE "mining") \/ Goes(p, "error")
     \/ Goes(p, "error") /\ UNCHANGED approval
  /\ UNCHANGED allowance

\* mutant: the receipt's status is not looked at
WaitAnyReceipt(p) ==
  /\ pay[p] = "mining"
  /\ \/ approval[p] \in {"mined", "failed"} /\ Goes(p, "ensured")
     \/ Goes(p, "error")
  /\ UNCHANGED <<allowance, approval>>

\* mutant: only a receipt is waited for, and only a good one
WaitGoodReceipt(p) ==
  /\ pay[p] = "mining"
  /\ approval[p] = "mined"
  /\ Goes(p, "ensured")
  /\ UNCHANGED <<allowance, approval>>

\* bind.WaitMined and the test of receipt.Status; the context may end the wait.
WaitMined(p) ==
  /\ pay[p] = "mining"
  /\ \/ approval[p] = "mined" /\ Goes(p, "ensured")
     \/ approval[p] = "failed" /\ Goes(p, "error")
  /\ UNCHANGED <<allowance, approval>>

ContextEnds(p) == /\ pay[p] = "mining"
                  /\ Goes(p, "error")
                  /\ UNCHANGED <<allowance, approval>>

Sign(p) == /\ pay[p] = "ensured"
           /\ Goes(p, "signed")
           /\ UNCHANGED <<allowance, approval>>

\* mutant: the approve is for what this payment needs
ApprovedTotal(p) == Total[p]

\* maxApproval, whatever the payment needs.
Approved(p) == Max

\* External: the chain executes an approve, reverts it, or never includes it: it is
\* dropped, or replaced by another transaction of the buyer's account.
Approve(p) == /\ approval[p] = "pending"
              /\ \/ /\ approval' = [approval EXCEPT ![p] = "mined"]
                    /\ allowance' = Approved(p)
                 \/ /\ \E end \in {"failed", "dropped"} : approval' = [approval EXCEPT ![p] = end]
                    /\ UNCHANGED allowance
              /\ UNCHANGED <<pay, contended>>

\* The payments that count on the allowance they have seen.
Out == {p \in Payments : pay[p] \in {"ensured", "signed"}}

\* External: the facilitator's transfer, any time after the permit was signed, whether
\* or not the client's call has returned.
Draw(p) == /\ pay[p] = "signed"
           /\ IF allowance >= Total[p]
              THEN /\ Goes(p, "drawn")
                   /\ allowance' = allowance - Total[p]
                   /\ contended' = contended \union (Out \ {p})
              ELSE Goes(p, "refused") /\ UNCHANGED <<allowance, contended>>
           /\ UNCHANGED approval

Ensure(p) == CheckAllowance(p) \/ SendApprove(p) \/ WaitMined(p)

ClientStep(p) == (Start(p) \/ Ensure(p) \/ ContextEnds(p) \/ Sign(p)) /\ UNCHANGED contended

Next == /\ \E p \in Payments : ClientStep(p) \/ Approve(p) \/ Draw(p)
        /\ UNCHANGED tron

Spec == Init /\ [][Next]_vars

\* The client's goroutine is scheduled, and each single RPC call of it returns.
\* Nothing is assumed of the chain.
FairSpec == /\ Spec
            /\ \A p \in Payments : WF_vars(Ensure(p) /\ UNCHANGED <<contended, tron>>)

-----------------------------------------------------------------------------
\* A payment is only refused for want of allowance when another one drew while its
\* permit was out, be it a concurrent one or the late permit of a call that had
\* returned; or, with the Tron signer, which does not wait for its approve, when it had
\* to approve.  Whoever saw or awaited the allowance finds it otherwise.
RefusedOnlyOverdrawn == \A p \in Payments :
  pay[p] = "refused" /\ Mode[p] # "skip" => p \in contended \/ (tron /\ approval[p] # "none")

\* One approve is for ever: once any approve of the client was mined no permit of its
\* payments is refused for want of allowance, however many of them overlap and on
\* whichever chain (the unlimited approval covers all they can draw together).
LastingApproval == \A p \in Payments :
  pay[p] # "refused" /\ pay'[p] = "refused" => \A q \in Payments : approval[q] # "mined"

ApprovalLasts == [][LastingApproval]_vars

\* An approve that failed never lets EnsureAllowance return true: whoever passed
\* through the approval finds the allowance there, even when other payments drew from
\* it meanwhile.
ApprovedCovers ==
  [][\A p \in Payments : pay[p] = "mining" /\ pay'[p] = "ensured" => allowance >= Total[p]]_vars

\* EnsureAllowance returns, whatever the outcome of the approve, unless its approve
\* never gets a receipt: bind.WaitMined has no timeout of its own.
EnsureReturns == \A p \in Payments :
  pay[p] \in {"check", "approve", "mining"}
    ~> \/ pay[p] \in {"ensured", "error"}
       \/ [](approval[p] \in {"pending", "dropped"})
=============================================================================
