-------------------------- MODULE MCClientAllowance -------------------------
(***************************************************************************)
(* Three payments of one client, for 1, 2 and 2 units; the third does not  *)
(* let the client approve.                                                 *)
(***************************************************************************)
EXTENDS ClientAllowance

CONSTANTS p1, p2, p3

MCPayments   == {p1, p2, p3}
MCTotal      == [p \in MCPayments |-> IF p = p1 THEN 1 ELSE 2]
MCMode       == [p \in MCPayments |-> IF p = p3 THEN "interactive" ELSE "auto"]
MCAllowances == 0..3
=============================================================================
