\* A payer beside a status command, without any failure.
CONSTANTS
  c1 = c1
  c2 = c2
  Payer = {p1}
  Watcher = {w1}
  Confirmation = {c1}
  Deadline = 1
  MaxTime = 1
  Faulty = {}
SPECIFICATION Spec
PROPERTIES NoSecondPaymentSignal
\* The commands end and the clock stops at its bound.
CHECK_DEADLOCK FALSE
