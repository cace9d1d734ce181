-------------------------- MODULE MCPaymentService --------------------------
(***************************************************************************)
(* Instances of PaymentService for TLC.  Confirmations are interchangeable:*)
(* the one issued with the order, if any, is not c2.                       *)
(***************************************************************************)
EXTENDS PaymentService

CONSTANTS c1, c2

MCInit == Init /\ confirmation[c2] = "none"

MCSpec == MCInit /\ [][Next]_vars /\ Fairness

=============================================================================
