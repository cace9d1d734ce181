------------------------- MODULE MCAncillaryService -------------------------
(***************************************************************************)
(* Instances of AncillaryService for TLC: two connected segments, a bag on *)
(* each and another allowance on the second, and a seat; the processes are *)
(* interchangeable.                                                        *)
(***************************************************************************)
EXTENDS AncillaryService, TLC

CONSTANTS bag1, bag2, bag2x, seat1, seg1, seg2

MCKindOf == [o \in Option |-> IF o = seat1 THEN "seat" ELSE "baggage"]
MCSegmentOf == [o \in Option |-> IF o \in {bag2, bag2x} THEN seg2 ELSE seg1]
MCSignatureOf == [o \in Option |-> IF o = bag2x THEN "30kg" ELSE "20kg"]
MCDirectionOf == [s \in Segment |-> "outbound"]

MCSymmetry == Permutations(Process)

=============================================================================
