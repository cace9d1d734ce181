\* One offer from search to order request, for every pair of routings.
CONSTANTS
  Request <- MCRequest
  Routing <- MCRouting
  KeySet <- MCKeySet
  Input <- MCInput
  Policy <- MCPolicy
  Product <- MCProduct
  ProductKind <- MCProductKind
  FlightOf <- MCFlightOf
  FirstDay = 2
  LastDay = 3
SPECIFICATION Spec
INVARIANTS TypeOK PriceAgreed PayloadFaithful
\* An order that has been sent is the end.
CHECK_DEADLOCK FALSE
