----------------------------- MODULE PaidAccess -----------------------------
(***************************************************************************)
(* What the payment protocol promises, without the parties that carry it   *)
(* out: a request is charged at most once and by exactly one price, and    *)
(* access is granted to at most one delivery of a request, after the       *)
(* request was charged.  PaymentFlow implements this specification.        *)
(***************************************************************************)
EXTENDS Naturals

CONSTANTS Buyers, Requests, Deliveries,
          BuyerOf,        \* the buyer that makes a request
          Owner           \* the request that a delivery carries

VARIABLES paid,           \* the requests that have been charged
          granted,        \* the deliveries that reached the resource
          purse           \* the prices each buyer can still afford

Init == /\ paid = {}
        /\ granted = {}
        /\ purse \in [Buyers -> Nat]

\* A request is charged once, by one price of its own buyer.
Pay(r) == /\ r \notin paid
          /\ purse[BuyerOf[r]] > 0
          /\ paid' = paid \union {r}
          /\ purse' = [purse EXCEPT ![BuyerOf[r]] = @ - 1]
          /\ UNCHANGED granted

\* Access follows the charge, and a request is served once.
Grant(d) == /\ Owner[d] \in paid
            /\ \A e \in granted : Owner[e] # Owner[d]
            /\ granted' = granted \union {d}
            /\ UNCHANGED <<paid, purse>>

Next == \/ \E r \in Requests : Pay(r)
        \/ \E d \in Deliveries : Grant(d)

Spec == Init /\ [][Next]_<<paid, granted, purse>>
=============================================================================
