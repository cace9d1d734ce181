\* A history of two searches, four saves: crashes, keyring and file failures
\* between any two writes, and searches that grow old.
CONSTANTS
  Routing = {r1}
  Generation = {g1}
  HistoryLimit = 2
  MaxAge = 0
  NoTxn = NoTxn
  MaxTime = 1
  MaxSearches = 4
SPECIFICATION Spec
INVARIANTS TypeOK LatestSearchesUsable HistoryIsLatest NoStraySearchSecret
\* The clock and the searches stop at their bounds.
CHECK_DEADLOCK FALSE
