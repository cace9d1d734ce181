---------------------------- MODULE OneShotOrder ----------------------------
(***************************************************************************)
(* What order creation promises for one booking, whoever calls it, however *)
(* often and whatever fails: the upstream is asked again only after it     *)
(* definitely refused, so at most one order is ever placed; an outcome,    *)
(* once recorded, stays; and a recorded order is the one that was placed.  *)
(***************************************************************************)
CONSTANTS Order, NoOrder

VARIABLES
  attempt,  (* what the booking says of its order attempt                   *)
  saved,    (* the order the booking names, or NoOrder                      *)
  placed    (* the orders the upstream holds for the booking                *)

vars == <<attempt, saved, placed>>

Init == attempt = "ready" /\ saved = NoOrder /\ placed = {}

Begin ==
  /\ attempt = "ready"
  /\ attempt' = "creating"
  /\ UNCHANGED <<saved, placed>>

(* The upstream acts on the request, possibly after the caller gave up.    *)
Place(o) ==
  /\ attempt \in {"creating", "unknown"} /\ placed = {}
  /\ placed' = {o}
  /\ UNCHANGED <<attempt, saved>>

Reopen ==
  /\ attempt = "creating" /\ placed = {}
  /\ attempt' = "ready"
  /\ UNCHANGED <<saved, placed>>

Record ==
  /\ attempt = "creating"
  /\ \E o \in placed : saved' = o
  /\ attempt' = "created"
  /\ UNCHANGED placed

GiveUp ==
  /\ attempt = "creating"
  /\ attempt' = "unknown"
  /\ UNCHANGED <<saved, placed>>

Next == Begin \/ (\E o \in Order : Place(o)) \/ Reopen \/ Record \/ GiveUp

Spec == Init /\ [][Next]_vars

=============================================================================
