\* Two payers and a status command; one payer and the status command may die
\* and their writes fail, answers are late or lost; the other payer gets on.
CONSTANTS
  c1 = c1
  c2 = c2
  Payer = {p1, p2}
  Watcher = {w1}
  Confirmation = {c1, c2}
  Deadline = 1
  MaxTime = 1
  Faulty = {p1}
SPECIFICATION MCSpec
INVARIANTS TypeOK OnePaymentRequest ConfirmationSpentOnce RecordIsReal
PROPERTIES NeverAwaitingAgain OneShotSpec PayingResolved
\* The commands end and the clock stops at its bound.
CHECK_DEADLOCK FALSE
