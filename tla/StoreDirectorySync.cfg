\* The directory cannot be synced after os.replace took effect.
CONSTANTS
  bag1 = bag1
  bag2 = bag2
  bag2x = bag2x
  seat1 = seat1
  seg1 = seg1
  seg2 = seg2
  Traveler = {t1}
  Segment = {seg1}
  Option = {bag1}
  Generation = {g1}
  Order = {o1}
  NoOrder = NoOrder
  Booking = {k1}
  NoContext = NoContext
  NoSecret = NoSecret
  NoTxn = NoTxn
  Life = 2
  MaxTime = 3
  MaxRevision = 3
  DirectorySyncFails = TRUE
  KindOf <- MCKindOf
  SegmentOf <- MCSegmentOf
  SignatureOf <- MCSignatureOf
  DirectionOf <- MCDirectionOf
SPECIFICATION Spec
INVARIANTS FailedCommitKeepsPrevious
\* The clock and the revisions stop at their bounds.
CHECK_DEADLOCK FALSE
