----------------------------- MODULE ReceiptWait ----------------------------
(***************************************************************************)
(* WaitForTransactionReceipt of both facilitator signers: the EVM loop of  *)
(* signers/evm_facilitator_signer.go and the Tron loop of                  *)
(* signers/tron_facilitator_signer.go over tron.GetTransactionInfo.  The   *)
(* node includes the transaction at any time, may fail to answer a poll,   *)
(* and the caller's context may end at any time.                           *)
(***************************************************************************)
EXTENDS Naturals

CONSTANTS Timeout,        \* the polls Settle grants, 120 in the code
          Codes,          \* receipt codes: "confirmed" and failures
          ReportedFailed, \* the codes either signer reports as "failed"
          MaxErrors       \* bound: polls the node fails to answer

VARIABLES tron,           \* TRUE for the Tron loop, FALSE for the EVM loop; fixed
          block,          \* external: "unmined", or the code of the receipt
          ctxDone,        \* external: the caller's context has ended
          errors,         \* external: polls left unanswered so far
          answer,         \* what the function returned, or "waiting"
          pc,             \* "client", "poll", "test" or "done"
          left,           \* timeout, or timeout - i in the Tron loop
          polls,          \* history: polls made
          slept           \* history: seconds slept

vars == <<tron, block, ctxDone, errors, answer, pc, left, polls, slept>>
env  == <<tron, block, ctxDone, errors>>

ASSUME ReceiptAssumption ==
  /\ Timeout \in Nat \ {0}
  /\ MaxErrors \in Nat
  /\ "unmined" \notin Codes
  /\ ReportedFailed \subseteq Codes

\* mutant: the node's code is passed on as it is
RawStatus(code) == code

\* "failed" for Status 0 of EVM and for receipt.result "FAILED" of Tron.
StatusOf(code) == IF code \in ReportedFailed THEN "failed" ELSE "confirmed"

TypeOK == /\ tron \in BOOLEAN
          /\ block \in Codes \union {"unmined"}
          /\ ctxDone \in BOOLEAN
          /\ errors \in Nat
          /\ answer \in {"waiting", "confirmed", "failed", "error"}
          /\ pc \in {"client", "poll", "test", "done"}
          /\ left \in 0..Timeout
          /\ polls \in Nat
          /\ slept \in Nat

Init == /\ tron \in BOOLEAN
        /\ block = "unmined"
        /\ ctxDone = FALSE
        /\ errors = 0
        /\ answer = "waiting"
        /\ pc = "client"
        /\ left = Timeout
        /\ polls = 0
        /\ slept = 0

Return(value) == answer' = value /\ pc' = "done"

\* getClient, or the lookup of the RPC URL; the EVM loop polls before it tests.
GetClient == /\ pc = "client"
             /\ \/ Return("error")
                \/ /\ pc' = IF tron THEN "test" ELSE "poll"
                   /\ UNCHANGED answer
             /\ UNCHANGED <<env, left, polls, slept>>

\* One request for the receipt.
PollFinds == /\ pc = "poll"
             /\ block # "unmined"
             /\ Return(StatusOf(block))
             /\ polls' = polls + 1
             /\ UNCHANGED <<env, left, slept>>

\* mutant: a transaction of block 0 counts as confirmed
UnminedConfirmed == /\ pc = "poll"
                    /\ block = "unmined"
                    /\ polls' = polls + 1
                    /\ Return("confirmed")
                    /\ UNCHANGED <<env, left, slept>>

\* Not in a block yet: an error of ethclient, block number "0" of Tron.
PollUnmined == /\ pc = "poll"
               /\ block = "unmined"
               /\ polls' = polls + 1
               /\ pc' = "test"
               /\ UNCHANGED <<env, answer, left, slept>>

Unanswered == /\ pc = "poll"
              /\ errors < MaxErrors \/ ctxDone
              /\ errors' = IF ctxDone THEN errors ELSE errors + 1
              /\ polls' = polls + 1
              /\ UNCHANGED <<tron, block, ctxDone, left, slept>>

\* mutant: the first error of the node ends the wait on EVM too
PollErrorReturns == Unanswered /\ Return("error")

\* No answer, as always once the context is done: the EVM loop goes on, the Tron
\* function returns the error at once.
PollError == Unanswered /\ IF tron THEN Return("error") ELSE pc' = "test" /\ UNCHANGED answer

OutOfTime    == left = 0 \/ ctxDone
Leave        == Return("error") /\ UNCHANGED <<left, slept>>
Poll(pause)  == pc' = "poll" /\ slept' = slept + pause /\ UNCHANGED answer
Round(pause) == Poll(pause) /\ left' = left - 1

\* mutant: out of time, the loop waits for the context alone
EvmStuck == IF ctxDone THEN Leave ELSE left > 0 /\ Round(1)

\* for err != nil && timeout > 0 { ctx.Done, or sleep; timeout-- }
EvmLoop == IF OutOfTime THEN Leave ELSE Round(1)

\* mutant: the loop sleeps after its last poll as well
TronSleepsLast == IF ctxDone THEN Leave
                  ELSE IF left = 0 THEN Return("error") /\ slept' = slept + 1 /\ UNCHANGED left
                  ELSE Round(IF polls > 0 THEN 1 ELSE 0)

\* mutant: i <= timeout
TronOneMore == IF ctxDone \/ polls > Timeout THEN Leave
               ELSE Poll(1) /\ left' = IF left > 0 THEN left - 1 ELSE 0

\* for i < timeout { ctx.Done, or poll; sleep unless it was the last round }: the
\* sleep of a round is counted with the poll it leads to.
TronLoop == IF OutOfTime THEN Leave ELSE Round(IF polls > 0 THEN 1 ELSE 0)

LoopTest == /\ pc = "test"
            /\ IF tron THEN TronLoop ELSE EvmLoop
            /\ UNCHANGED <<env, polls>>

\* The environment: a block includes the transaction, the context ends.
Include == /\ block = "unmined"
           /\ block' \in Codes
           /\ UNCHANGED <<tron, ctxDone, errors, answer, pc, left, polls, slept>>

Cancel == /\ ~ ctxDone
          /\ ctxDone' = TRUE
          /\ UNCHANGED <<tron, block, errors, answer, pc, left, polls, slept>>

Step == GetClient \/ PollFinds \/ PollUnmined \/ PollError \/ LoopTest

Next == Step \/ Include \/ Cancel

\* The goroutine of the settle call is scheduled; the chain promises nothing.
Spec == Init /\ [][Next]_vars /\ WF_vars(Step)

-----------------------------------------------------------------------------
\* The wait is over after Timeout seconds of sleep, however the node behaves:
\* one poll more than sleeps on EVM, at most as many polls as rounds on Tron.
BoundedWait == /\ slept <= Timeout
               /\ polls <= IF tron THEN Timeout ELSE Timeout + 1

\* Giving up by timeout is honest: with the context alive, the receipt was asked
\* for once more after the last second slept.
LastSecondPolled == /\ answer = "error"
                    /\ left = 0
                    /\ ~ ctxDone
                    => polls = slept + 1

\* On EVM a poll the node did not answer never ends the wait by itself.
ErrorsAreRetried == [][~ tron /\ pc = "poll" /\ pc' = "done" => answer' # "error"]_vars

RA == INSTANCE ReceiptAnswer
ImplementsReceiptAnswer == RA!Spec
=============================================================================
