\* One booking over two segments, three bags and a seat: every interleaving of
\* crashes, keyring and file failures with the operations of the store and the
\* expiry of the booking.
CONSTANTS
  bag1 = bag1
  bag2 = bag2
  bag2x = bag2x
  seat1 = seat1
  seg1 = seg1
  seg2 = seg2
  Traveler = {t1}
  Segment = {seg1, seg2}
  Option = {bag1, bag2, bag2x, seat1}
  Generation = {g1}
  Order = {o1}
  NoOrder = NoOrder
  Booking = {k1}
  NoContext = NoContext
  NoSecret = NoSecret
  NoTxn = NoTxn
  Life = 1
  MaxTime = 1
  MaxRevision = 3
  DirectorySyncFails = FALSE
  KindOf <- MCKindOf
  SegmentOf <- MCSegmentOf
  SignatureOf <- MCSignatureOf
  DirectionOf <- MCDirectionOf
SPECIFICATION Spec
INVARIANTS TypeOK SecretsBound FinishedRestorable FailedCommitKeepsPrevious NoStraySecret SelectionsSound
PROPERTIES AttemptSteps AtomicSpec
\* The clock and the revisions stop at their bounds.
CHECK_DEADLOCK FALSE
