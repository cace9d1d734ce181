--------------------------- MODULE MCBookingStore ---------------------------
(***************************************************************************)
(* Instances of BookingStore for TLC: two connected outbound segments, two *)
(* bags with different allowances on the second one, and a seat.           *)
(***************************************************************************)
EXTENDS BookingStore

CONSTANTS bag1, bag2, bag2x, seat1, seg1, seg2

MCKindOf == [o \in Option |-> IF o = seat1 THEN "seat" ELSE "baggage"]
MCSegmentOf == [o \in Option |-> IF o \in {bag2, bag2x} THEN seg2 ELSE seg1]
MCSignatureOf == [o \in Option |-> IF o = bag2x THEN "30kg" ELSE "20kg"]
MCDirectionOf == [s \in Segment |-> "outbound"]

=============================================================================
