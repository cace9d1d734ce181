\* A search and an offer command synchronize beside each other while the user,
\* the accounts and their keys change.
CONSTANTS
  Searcher = {s1}
  Reader = {r1}
  NoAccount = NoAccount
  Account = {a1, a2}
  NoKey = NoKey
  MaxChanges = 2
SPECIFICATION Spec
SYMMETRY MCSymmetry
INVARIANTS TypeOK RequestKeyIsOwn OfferBoundToItsRoute
PROPERTIES RejectedAfterTwoRotations
\* The commands end and the changes stop at their bound.
CHECK_DEADLOCK FALSE
