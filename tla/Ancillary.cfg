\* Two ancillary commands at a time beside order attempts on the booking, with
\* every answer the upstream may give to a listing.
CONSTANTS
  bag1 = bag1
  bag2 = bag2
  bag2x = bag2x
  seat1 = seat1
  seg1 = seg1
  seg2 = seg2
  Traveler = {t1}
  Segment = {seg1, seg2}
  Option = {bag1, bag2, bag2x, seat1}
  Generation = {g1}
  Order = {o1}
  NoOrder = NoOrder
  Process = {p1, p2}
  Life = 1
  MaxTime = 1
  KindOf <- MCKindOf
  SegmentOf <- MCSegmentOf
  SignatureOf <- MCSignatureOf
  DirectionOf <- MCDirectionOf
SPECIFICATION Spec
SYMMETRY MCSymmetry
INVARIANTS TypeOK ClosedOnlyWhenDeclined
PROPERTIES SelectionsByCommand
\* The clock stops at its bound once the booking is over.
CHECK_DEADLOCK FALSE
