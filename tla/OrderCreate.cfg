\* Two invocations of `order create` beside edits of the booking; answers are
\* late, lost or refusals; one command may die, its store operations fail, and
\* the summary of its order cannot be made; the other settles its attempt.
CONSTANTS
  seat1 = seat1
  bag1 = bag1
  seg1 = seg1
  Traveler = {t1}
  Segment = {seg1}
  Option = {seat1}
  Generation = {g1}
  Order = {o1, o2}
  NoOrder = NoOrder
  Process = {p1, p2}
  Life = 1
  MaxTime = 1
  Faulty = {p1}
  Unmaskable = {p1}
  KindOf <- MCKindOf
  SegmentOf <- MCSegmentOf
  SignatureOf <- MCSignatureOf
  DirectionOf <- MCDirectionOf
SPECIFICATION MCSpec
INVARIANTS TypeOK OneOrderPerBooking ReadyMeansNothingSent SavedOrderIsReal OrderedAsSelected
PROPERTIES OneShotSpec AttemptSettled
\* The commands end and the clock stops at its bound.
CHECK_DEADLOCK FALSE
