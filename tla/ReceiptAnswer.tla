---------------------------- MODULE ReceiptAnswer ---------------------------
(***************************************************************************)
(* What Settle may rely on when it waits for a receipt, and all that       *)
(* FacilitatorSettle assumes of it: a status is only reported once the     *)
(* transaction is in a block, it is the status of that block, it is never  *)
(* revised, and an error may come instead at any time.                     *)
(***************************************************************************)
CONSTANTS Codes,          \* receipt codes a transaction can end with
          StatusOf(_)     \* the status a signer reports for a code

VARIABLES block,          \* "unmined", or the code of the receipt
          answer          \* "waiting", a status, or "error"

Init == block = "unmined" /\ answer = "waiting"

Include == /\ block = "unmined"
           /\ block' \in Codes
           /\ UNCHANGED answer

Report == /\ answer = "waiting"
          /\ block # "unmined"
          /\ answer' = StatusOf(block)
          /\ UNCHANGED block

GiveUp == /\ answer = "waiting"
          /\ answer' = "error"
          /\ UNCHANGED block

Next == Include \/ Report \/ GiveUp

Spec == Init /\ [][Next]_<<block, answer>>
=============================================================================
