--------------------------- MODULE MCOrderService ---------------------------
(***************************************************************************)
(* Instances of OrderService for TLC: one segment, one seat, one bag.      *)
(***************************************************************************)
EXTENDS OrderService

CONSTANTS seat1, bag1, seg1

MCKindOf == [o \in Option |-> IF o = seat1 THEN "seat" ELSE "baggage"]
MCSegmentOf == [o \in Option |-> seg1]
MCSignatureOf == [o \in Option |-> "20kg"]
MCDirectionOf == [s \in Segment |-> "outbound"]

(* One of the two commands always comes with a seat policy.                *)
MCInit == Init /\ \A p \in Faulty : policy[p]

MCSpec == MCInit /\ [][Next]_vars /\ Fairness

=============================================================================
