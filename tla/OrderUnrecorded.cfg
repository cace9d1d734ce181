\* One command, no failure of the machine: the passengers bring a document whose
\* number the summary of the order does not accept.
CONSTANTS
  seat1 = seat1
  bag1 = bag1
  seg1 = seg1
  Traveler = {t1}
  Segment = {seg1}
  Option = {}
  Generation = {g1}
  Order = {o1}
  NoOrder = NoOrder
  Process = {p1}
  Life = 1
  MaxTime = 1
  Faulty = {}
  Unmaskable = {p1}
  KindOf <- MCKindOf
  SegmentOf <- MCSegmentOf
  SignatureOf <- MCSignatureOf
  DirectionOf <- MCDirectionOf
SPECIFICATION Spec
INVARIANTS CreatedOrderAccounted
\* The commands end and the clock stops at its bound.
CHECK_DEADLOCK FALSE
