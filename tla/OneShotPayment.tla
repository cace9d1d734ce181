--------------------------- MODULE OneShotPayment ---------------------------
(***************************************************************************)
(* What paying promises for one order: the decision to pay is taken once,  *)
(* is never taken back, and leads to at most one request to the upstream.  *)
(* An order that turns out to be settled or unpayable is closed: nobody    *)
(* can decide to pay it any more.                                          *)
(***************************************************************************)
CONSTANT Payer

VARIABLES
  phase,  (* "due", "committed" (somebody decided to pay), "closed"         *)
  asked   (* who asked the upstream for payment                             *)

vars == <<phase, asked>>

Init == phase \in {"due", "closed"} /\ asked = {}

Commit == phase = "due" /\ phase' = "committed" /\ UNCHANGED asked

Close == phase = "due" /\ phase' = "closed" /\ UNCHANGED asked

Ask ==
  /\ phase = "committed" /\ asked = {}
  /\ \E p \in Payer : asked' = {p}
  /\ UNCHANGED phase

Next == Commit \/ Close \/ Ask

Spec == Init /\ [][Next]_vars

=============================================================================
