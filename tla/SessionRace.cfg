\* Two commands whose token has expired refresh it at the same time.
CONSTANTS
  Caller = {c1, c2}
  Refresher = {}
  Poller = {}
  Account = {a1}
  NoCredentials = NoCredentials
  NoPending = NoPending
  MaxTokens = 2
  MaxLogins = 0
SPECIFICATION Spec
PROPERTIES OnlyRefusedTokenCleared
\* The commands end and the tokens stop at their bound.
CHECK_DEADLOCK FALSE
