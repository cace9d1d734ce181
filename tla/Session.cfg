\* A command that refreshes its token, `auth refresh` and two polls, beside a user who
\* logs in twice, to any of two accounts; processes die and tokens expire at any time.
CONSTANTS
  Caller = {c1}
  Refresher = {r1}
  Poller = {p1, p2}
  Account = {a1, a2}
  NoCredentials = NoCredentials
  NoPending = NoPending
  MaxTokens = 3
  MaxLogins = 2
SPECIFICATION Spec
CONSTRAINT MCBound
VIEW MCView
INVARIANTS TypeOK AccountKept NoRefusedTokenResent
PROPERTIES PendingClearedWhenDone
\* The commands end and the tokens and logins stop at their bounds.
CHECK_DEADLOCK FALSE
