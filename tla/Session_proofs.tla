---------------------------- MODULE Session_proofs ----------------------------
(***************************************************************************)
(* Theorems about Session, for any commands, accounts and bounds.          *)
(*                                                                         *)
(* The argument for AccountKept: a refreshed token is of the account of    *)
(* the token it replaces, and is saved with the very record that token was *)
(* read from, whatever the keyring holds by then.  For the retries: until  *)
(* a call is repeated it was refused at most the token it used, and it is  *)
(* repeated with another one of the keyring or with a fresh one.           *)
(***************************************************************************)
EXTENDS Session, TLAPS

Paired(c) == c.token.account = c.account

KeyringSound ==
  credentials # NoCredentials => Paired(credentials) /\ credentials.token.id <= issued

Unrefused == {"start", "loading", "sending", "waiting", "polling", "exchanging", "storing"}

RefusedOnce == {"refused", "refreshing", "denied", "granted", "saving"}

TokenSound(p) ==
  /\ used[p].id <= issued
  /\ seen[p] # NoCredentials => Paired(seen[p])
  /\ pc[p] = "refreshing" => seen[p] # NoCredentials /\ used[p] = seen[p].token
  /\ pc[p] \in {"granted", "saving"} =>
       /\ seen[p] # NoCredentials
       /\ fresh[p].account = seen[p].account
       /\ fresh[p] # used[p]
  /\ pc[p] \in {"granted", "saving", "storing"} => fresh[p].id <= issued
  /\ pc[p] \in Unrefused => refused[p] = {}
  /\ pc[p] \in RefusedOnce => refused[p] \subseteq {used[p]}
  /\ pc[p] = "retrying" => used[p] \notin refused[p]

InCall ==
  {"sending", "waiting", "refused", "refreshing", "granted", "denied", "saving",
   "retrying", "settling"}

LoginSound(p) ==
  /\ login[p] # NoPending => p \in Poller
  /\ pc[p] \in {"start", "loading"} => login[p] = NoPending
  /\ pc[p] \in {"polling", "exchanging", "storing", "settling", "expiring"} => login[p] # NoPending
  /\ pc[p] \in InCall /\ login[p] # NoPending => login[p].id \in delivered
  /\ pc[p] = "expiring" => login[p].id \in lapsed
  /\ pc[p] = "storing" => fresh[p].account = login[p].account

SessionInv ==
  /\ TypeOK
  /\ KeyringSound
  /\ \A p \in Process : TokenSound(p) /\ LoginSound(p)

-----------------------------------------------------------------------------
(* The pieces of a step.                                                   *)

(* What a step does not touch stays sound while tokens, deliveries and     *)
(* lapses only grow in number.                                             *)
LEMMA Untouched ==
  ASSUME SessionInv, NEW q \in Process,
         pc'[q] = pc[q], seen'[q] = seen[q], used'[q] = used[q], fresh'[q] = fresh[q],
         login'[q] = login[q], refused'[q] = refused[q],
         issued \in Nat, issued' \in Nat, issued <= issued',
         delivered \subseteq delivered', lapsed \subseteq lapsed'
  PROVE  TokenSound(q)' /\ LoginSound(q)'
<1>1. TokenSound(q) /\ LoginSound(q)
  BY DEF SessionInv
<1>2. used[q].id \in Nat /\ fresh[q].id \in Nat
  BY DEF SessionInv, TypeOK, Token
<1>3. TokenSound(q)'
  BY <1>1, <1>2 DEF TokenSound
<1>4. LoginSound(q)'
  BY <1>1 DEF LoginSound
<1> QED BY <1>3, <1>4

(* A grant is a token nobody has yet, of the account asked for.            *)
LEMMA GrantFresh ==
  ASSUME TypeOK, NEW p \in Process, NEW account \in Account, NEW replaced, Grant(p, account, replaced)
  PROVE  /\ issued' = issued + 1 /\ issued \in Nat
         /\ fresh' = [fresh EXCEPT ![p] = [id |-> issued + 1, account |-> account]]
         /\ fresh' \in [Process -> Token]
         /\ live' \subseteq Token
         /\ UNCHANGED <<approved, lapsed>>
<1>1. [id |-> issued + 1, account |-> account] \in Token
  BY DEF TypeOK, Token
<1> QED BY <1>1 DEF TypeOK, Grant, Becomes

(* It holds at the start.                                                  *)
LEMMA InitSessionInv == Init => SessionInv
<1> SUFFICES ASSUME Init PROVE SessionInv
  OBVIOUS
<1>1. Nobody \in Token /\ Nobody.id = 0
  BY SessionAssumption DEF Nobody, Token
<1>2. TypeOK /\ KeyringSound
  <2>1. CASE credentials = NoCredentials /\ issued = 0 /\ live = {}
    BY <1>1, <2>1 DEF Init, TypeOK, KeyringSound, Control
  <2>2. CASE \E b \in Account :
          LET token == [id |-> 1, account |-> b]
          IN  /\ credentials = [account |-> b, token |-> token]
              /\ issued = 1 /\ live = {token}
    <3>1. PICK b \in Account :
            /\ credentials = [account |-> b, token |-> [id |-> 1, account |-> b]]
            /\ issued = 1 /\ live = {[id |-> 1, account |-> b]}
      BY <2>2
    <3>2. [id |-> 1, account |-> b] \in Token /\ credentials \in Credentials
      BY <3>1 DEF Token, Credentials
    <3>3. KeyringSound
      BY <3>1 DEF KeyringSound, Paired
    <3>4. TypeOK
      BY <1>1, <3>1, <3>2 DEF Init, TypeOK, Control
    <3> QED BY <3>3, <3>4
  <2> QED BY <2>1, <2>2 DEF Init
<1>3. ASSUME NEW p \in Process PROVE TokenSound(p) /\ LoginSound(p)
  <2>1. /\ pc[p] = "start" /\ used[p] = Nobody /\ fresh[p] = Nobody /\ issued \in Nat
        /\ seen[p] = NoCredentials /\ login[p] = NoPending /\ refused[p] = {}
    BY <1>2 DEF Init, TypeOK
  <2>2. TokenSound(p)
    BY <1>1, <2>1 DEF TokenSound, Unrefused, RefusedOnce
  <2>3. LoginSound(p)
    BY <2>1 DEF LoginSound, InCall
  <2> QED BY <2>2, <2>3
<1> QED BY <1>2, <1>3 DEF SessionInv

(* Load: The credentials, as the keyring has them.                         *)
LEMMA LoadSafe ==
  ASSUME SessionInv, NEW p \in Process, Load(p)
  PROVE  SessionInv'
<1> USE DEF Goto, Becomes, keyring, service, work
<1>0. TypeOK /\ KeyringSound /\ TokenSound(p) /\ LoginSound(p)
  BY DEF SessionInv
<1>4. TypeOK'
  BY <1>0 DEF TypeOK, Control, Credentials, Load, Loading
<1>5. KeyringSound'
  BY <1>0 DEF KeyringSound, Paired, Load, Loading, TypeOK, Credentials, Token
<1>6. TokenSound(p)'
  BY <1>0 DEF TokenSound, KeyringSound, Paired, Unrefused, RefusedOnce, Load, Loading, TypeOK, Credentials, Token, LoginSound
<1>7. LoginSound(p)'
  BY <1>0 DEF LoginSound, InCall, Load, Loading, TypeOK
<1>8. ASSUME NEW q \in Process, q # p PROVE TokenSound(q)' /\ LoginSound(q)'
  BY <1>0, <1>8, Untouched DEF Load, Loading, TypeOK
<1> QED BY <1>4, <1>5, <1>6, <1>7, <1>8 DEF SessionInv

(* Send: The token of the keyring, or the one read before.                 *)
LEMMA SendSafe ==
  ASSUME SessionInv, NEW p \in Process, Send(p)
  PROVE  SessionInv'
<1> USE DEF Goto, Becomes, keyring, service, work
<1>0. TypeOK /\ KeyringSound /\ TokenSound(p) /\ LoginSound(p)
  BY DEF SessionInv
<1>4. TypeOK'
  BY <1>0 DEF TypeOK, Control, Credentials, Send
<1>5. KeyringSound'
  BY <1>0 DEF KeyringSound, Paired, Send, TypeOK, Credentials, Token
<1>6. TokenSound(p)'
  BY <1>0 DEF TokenSound, KeyringSound, Paired, Unrefused, RefusedOnce, Send, TypeOK, Credentials, Token
<1>7. LoginSound(p)'
  BY <1>0 DEF LoginSound, InCall, Send, TypeOK
<1>8. ASSUME NEW q \in Process, q # p PROVE TokenSound(q)' /\ LoginSound(q)'
  BY <1>0, <1>8, Untouched DEF Send, TypeOK
<1> QED BY <1>4, <1>5, <1>6, <1>7, <1>8 DEF SessionInv

(* Accepted: The call is done.                                             *)
LEMMA AcceptedSafe ==
  ASSUME SessionInv, NEW p \in Process, Accepted(p)
  PROVE  SessionInv'
<1> USE DEF Goto, Becomes, keyring, service, work
<1>0. TypeOK /\ KeyringSound /\ TokenSound(p) /\ LoginSound(p)
  BY DEF SessionInv
<1>4. TypeOK'
  BY <1>0 DEF TypeOK, Control, Accepted, AfterCall
<1>5. KeyringSound'
  BY <1>0 DEF KeyringSound, Paired, Accepted, AfterCall, TypeOK, Credentials, Token
<1>6. TokenSound(p)'
  BY <1>0 DEF TokenSound, KeyringSound, Paired, Unrefused, RefusedOnce, Accepted, AfterCall, TypeOK, Credentials, Token, LoginSound
<1>7. LoginSound(p)'
  BY <1>0 DEF LoginSound, InCall, Accepted, AfterCall, TypeOK
<1>8. ASSUME NEW q \in Process, q # p PROVE TokenSound(q)' /\ LoginSound(q)'
  BY <1>0, <1>8, Untouched DEF Accepted, AfterCall, TypeOK
<1> QED BY <1>4, <1>5, <1>6, <1>7, <1>8 DEF SessionInv

(* Refused: The first refusal, or the last.                                *)
LEMMA RefusedSafe ==
  ASSUME SessionInv, NEW p \in Process, Refused(p)
  PROVE  SessionInv'
<1> USE DEF Goto, Becomes, keyring, service, work
<1>0. TypeOK /\ KeyringSound /\ TokenSound(p) /\ LoginSound(p)
  BY DEF SessionInv
<1>4. TypeOK'
  BY <1>0 DEF TypeOK, Control, Refused
<1>5. KeyringSound'
  BY <1>0 DEF KeyringSound, Paired, Refused, TypeOK, Credentials, Token
<1>6. TokenSound(p)'
  BY <1>0 DEF TokenSound, KeyringSound, Paired, Unrefused, RefusedOnce, Refused, TypeOK, Credentials, Token
<1>7. LoginSound(p)'
  BY <1>0 DEF LoginSound, InCall, Refused, TypeOK
<1>8. ASSUME NEW q \in Process, q # p PROVE TokenSound(q)' /\ LoginSound(q)'
  BY <1>0, <1>8, Untouched DEF Refused, TypeOK
<1> QED BY <1>4, <1>5, <1>6, <1>7, <1>8 DEF SessionInv

(* CallFails: The command ends.                                            *)
LEMMA CallFailsSafe ==
  ASSUME SessionInv, NEW p \in Process, CallFails(p)
  PROVE  SessionInv'
<1> USE DEF Goto, Becomes, keyring, service, work
<1>0. TypeOK /\ KeyringSound /\ TokenSound(p) /\ LoginSound(p)
  BY DEF SessionInv
<1>4. TypeOK'
  BY <1>0 DEF TypeOK, Control, CallFails
<1>5. KeyringSound'
  BY <1>0 DEF KeyringSound, Paired, CallFails, TypeOK, Credentials, Token
<1>6. TokenSound(p)'
  BY <1>0 DEF TokenSound, KeyringSound, Paired, Unrefused, RefusedOnce, CallFails, TypeOK, Credentials, Token
<1>7. LoginSound(p)'
  BY <1>0 DEF LoginSound, InCall, CallFails, TypeOK
<1>8. ASSUME NEW q \in Process, q # p PROVE TokenSound(q)' /\ LoginSound(q)'
  BY <1>0, <1>8, Untouched DEF CallFails, TypeOK
<1> QED BY <1>4, <1>5, <1>6, <1>7, <1>8 DEF SessionInv

(* Reload: Another token of the keyring, or a refresh of the same one.     *)
LEMMA ReloadSafe ==
  ASSUME SessionInv, NEW p \in Process, Reload(p)
  PROVE  SessionInv'
<1> USE DEF Goto, Becomes, keyring, service, work
<1>0. TypeOK /\ KeyringSound /\ TokenSound(p) /\ LoginSound(p)
  BY DEF SessionInv
<1>4. TypeOK'
  BY <1>0 DEF TypeOK, Control, Credentials, Reload, Concurrent
<1>5. KeyringSound'
  BY <1>0 DEF KeyringSound, Paired, Reload, Concurrent, TypeOK, Credentials, Token
<1>6. TokenSound(p)'
  BY <1>0 DEF TokenSound, KeyringSound, Paired, Unrefused, RefusedOnce, Reload, Concurrent, TypeOK, Credentials, Token
<1>7. LoginSound(p)'
  BY <1>0 DEF LoginSound, InCall, Reload, Concurrent, TypeOK
<1>8. ASSUME NEW q \in Process, q # p PROVE TokenSound(q)' /\ LoginSound(q)'
  BY <1>0, <1>8, Untouched DEF Reload, Concurrent, TypeOK
<1> QED BY <1>4, <1>5, <1>6, <1>7, <1>8 DEF SessionInv

(* RefreshGranted: A fresh token of the same account.                      *)
LEMMA RefreshGrantedSafe ==
  ASSUME SessionInv, NEW p \in Process, RefreshGranted(p)
  PROVE  SessionInv'
<1> USE DEF Goto, Becomes, keyring, service, work
<1>0. TypeOK /\ KeyringSound /\ TokenSound(p) /\ LoginSound(p)
  BY DEF SessionInv
<1>1. used[p].account \in Account
  BY <1>0 DEF TypeOK, Token
<1>2. Grant(p, used[p].account, {used[p]})
  BY DEF RefreshGranted
<1>3. /\ issued' = issued + 1 /\ issued \in Nat
      /\ fresh' = [fresh EXCEPT ![p] = [id |-> issued + 1, account |-> used[p].account]]
      /\ fresh' \in [Process -> Token]
      /\ live' \subseteq Token
      /\ UNCHANGED <<approved, lapsed>>
  BY <1>0, <1>1, <1>2, GrantFresh
<1>4. TypeOK'
  BY <1>0, <1>3 DEF TypeOK, Control, RefreshGranted
<1>5. KeyringSound'
  BY <1>0, <1>3 DEF KeyringSound, Paired, RefreshGranted, TypeOK, Credentials, Token
<1>6. TokenSound(p)'
  BY <1>0, <1>3 DEF TokenSound, KeyringSound, Paired, Unrefused, RefusedOnce, RefreshGranted, TypeOK, Credentials, Token
<1>7. LoginSound(p)'
  BY <1>0, <1>3 DEF LoginSound, InCall, RefreshGranted, TypeOK
<1>8. ASSUME NEW q \in Process, q # p PROVE TokenSound(q)' /\ LoginSound(q)'
  BY <1>0, <1>3, <1>8, Untouched DEF RefreshGranted, TypeOK
<1> QED BY <1>4, <1>5, <1>6, <1>7, <1>8 DEF SessionInv

(* RefreshRefused: The same token refused again.                           *)
LEMMA RefreshRefusedSafe ==
  ASSUME SessionInv, NEW p \in Process, RefreshRefused(p)
  PROVE  SessionInv'
<1> USE DEF Goto, Becomes, keyring, service, work
<1>0. TypeOK /\ KeyringSound /\ TokenSound(p) /\ LoginSound(p)
  BY DEF SessionInv
<1>4. TypeOK'
  BY <1>0 DEF TypeOK, Control, RefreshRefused
<1>5. KeyringSound'
  BY <1>0 DEF KeyringSound, Paired, RefreshRefused, TypeOK, Credentials, Token
<1>6. TokenSound(p)'
  BY <1>0 DEF TokenSound, KeyringSound, Paired, Unrefused, RefusedOnce, RefreshRefused, TypeOK, Credentials, Token
<1>7. LoginSound(p)'
  BY <1>0 DEF LoginSound, InCall, RefreshRefused, TypeOK
<1>8. ASSUME NEW q \in Process, q # p PROVE TokenSound(q)' /\ LoginSound(q)'
  BY <1>0, <1>8, Untouched DEF RefreshRefused, TypeOK
<1> QED BY <1>4, <1>5, <1>6, <1>7, <1>8 DEF SessionInv

(* LookAgain: Another token of the keyring, or none.                       *)
LEMMA LookAgainSafe ==
  ASSUME SessionInv, NEW p \in Process, LookAgain(p)
  PROVE  SessionInv'
<1> USE DEF Goto, Becomes, keyring, service, work
<1>0. TypeOK /\ KeyringSound /\ TokenSound(p) /\ LoginSound(p)
  BY DEF SessionInv
<1>4. TypeOK'
  BY <1>0 DEF TypeOK, Control, Credentials, LookAgain, Concurrent
<1>5. KeyringSound'
  BY <1>0 DEF KeyringSound, Paired, LookAgain, Concurrent, TypeOK, Credentials, Token
<1>6. TokenSound(p)'
  BY <1>0 DEF TokenSound, KeyringSound, Paired, Unrefused, RefusedOnce, LookAgain, Concurrent, TypeOK, Credentials, Token
<1>7. LoginSound(p)'
  BY <1>0 DEF LoginSound, InCall, LookAgain, Concurrent, TypeOK
<1>8. ASSUME NEW q \in Process, q # p PROVE TokenSound(q)' /\ LoginSound(q)'
  BY <1>0, <1>8, Untouched DEF LookAgain, Concurrent, TypeOK
<1> QED BY <1>4, <1>5, <1>6, <1>7, <1>8 DEF SessionInv

(* SaveRefreshed: The fresh token joins the record of the one it replaces. *)
LEMMA SaveRefreshedSafe ==
  ASSUME SessionInv, NEW p \in Process, SaveRefreshed(p)
  PROVE  SessionInv'
<1> USE DEF Goto, Becomes, keyring, service, work
<1>0. TypeOK /\ KeyringSound /\ TokenSound(p) /\ LoginSound(p)
  BY DEF SessionInv
<1>4. TypeOK'
  BY <1>0 DEF TypeOK, Control, Credentials, SaveRefreshed, Refreshed, TokenSound
<1>5. KeyringSound'
  BY <1>0 DEF KeyringSound, Paired, SaveRefreshed, Refreshed, TypeOK, Credentials, Token, LoginSound, TokenSound
<1>6. TokenSound(p)'
  BY <1>0 DEF TokenSound, KeyringSound, Paired, Unrefused, RefusedOnce, SaveRefreshed, Refreshed, TypeOK, Credentials, Token
<1>7. LoginSound(p)'
  BY <1>0 DEF LoginSound, InCall, SaveRefreshed, Refreshed, TypeOK
<1>8. ASSUME NEW q \in Process, q # p PROVE TokenSound(q)' /\ LoginSound(q)'
  BY <1>0, <1>8, Untouched DEF SaveRefreshed, Refreshed, TypeOK
<1> QED BY <1>4, <1>5, <1>6, <1>7, <1>8 DEF SessionInv

(* Unauthorized: The credentials are dropped or stay.                      *)
LEMMA UnauthorizedSafe ==
  ASSUME SessionInv, NEW p \in Process, Unauthorized(p)
  PROVE  SessionInv'
<1> USE DEF Goto, Becomes, keyring, service, work
<1>0. TypeOK /\ KeyringSound /\ TokenSound(p) /\ LoginSound(p)
  BY DEF SessionInv
<1>4. TypeOK'
  BY <1>0 DEF TypeOK, Control, Unauthorized
<1>5. KeyringSound'
  BY <1>0 DEF KeyringSound, Paired, Unauthorized, TypeOK, Credentials, Token
<1>6. TokenSound(p)'
  BY <1>0 DEF TokenSound, KeyringSound, Paired, Unrefused, RefusedOnce, Unauthorized, TypeOK, Credentials, Token
<1>7. LoginSound(p)'
  BY <1>0 DEF LoginSound, InCall, Unauthorized, TypeOK
<1>8. ASSUME NEW q \in Process, q # p PROVE TokenSound(q)' /\ LoginSound(q)'
  BY <1>0, <1>8, Untouched DEF Unauthorized, TypeOK
<1> QED BY <1>4, <1>5, <1>6, <1>7, <1>8 DEF SessionInv

(* StartPoll: The pending login the poll works on.                         *)
LEMMA StartPollSafe ==
  ASSUME SessionInv, NEW p \in Process, StartPoll(p)
  PROVE  SessionInv'
<1> USE DEF Goto, Becomes, keyring, service, work
<1>0. TypeOK /\ KeyringSound /\ TokenSound(p) /\ LoginSound(p)
  BY DEF SessionInv
<1>4. TypeOK'
  BY <1>0 DEF TypeOK, Control, StartPoll
<1>5. KeyringSound'
  BY <1>0 DEF KeyringSound, Paired, StartPoll, TypeOK, Credentials, Token
<1>6. TokenSound(p)'
  BY <1>0 DEF TokenSound, KeyringSound, Paired, Unrefused, RefusedOnce, StartPoll, TypeOK, Credentials, Token
<1>7. LoginSound(p)'
  BY <1>0 DEF LoginSound, InCall, StartPoll, TypeOK
<1>8. ASSUME NEW q \in Process, q # p PROVE TokenSound(q)' /\ LoginSound(q)'
  BY <1>0, <1>8, Untouched DEF StartPoll, TypeOK
<1> QED BY <1>4, <1>5, <1>6, <1>7, <1>8 DEF SessionInv

(* PollCompleted: The login was approved.                                  *)
LEMMA PollCompletedSafe ==
  ASSUME SessionInv, NEW p \in Process, PollCompleted(p)
  PROVE  SessionInv'
<1> USE DEF Goto, Becomes, keyring, service, work
<1>0. TypeOK /\ KeyringSound /\ TokenSound(p) /\ LoginSound(p)
  BY DEF SessionInv
<1>4. TypeOK'
  BY <1>0 DEF TypeOK, Control, PollCompleted
<1>5. KeyringSound'
  BY <1>0 DEF KeyringSound, Paired, PollCompleted, TypeOK, Credentials, Token
<1>6. TokenSound(p)'
  BY <1>0 DEF TokenSound, KeyringSound, Paired, Unrefused, RefusedOnce, PollCompleted, TypeOK, Credentials, Token
<1>7. LoginSound(p)'
  BY <1>0 DEF LoginSound, InCall, PollCompleted, TypeOK
<1>8. ASSUME NEW q \in Process, q # p PROVE TokenSound(q)' /\ LoginSound(q)'
  BY <1>0, <1>8, Untouched DEF PollCompleted, TypeOK
<1> QED BY <1>4, <1>5, <1>6, <1>7, <1>8 DEF SessionInv

(* Exchanged: A fresh token of the account that approved the login.        *)
LEMMA ExchangedSafe ==
  ASSUME SessionInv, NEW p \in Process, Exchanged(p)
  PROVE  SessionInv'
<1> USE DEF Goto, Becomes, keyring, service, work
<1>0. TypeOK /\ KeyringSound /\ TokenSound(p) /\ LoginSound(p)
  BY DEF SessionInv
<1>1. login[p].account \in Account
  BY <1>0 DEF TypeOK, PendingAuth, LoginSound, Exchanged
<1>2. Grant(p, login[p].account, {})
  BY DEF Exchanged
<1>3. /\ issued' = issued + 1 /\ issued \in Nat
      /\ fresh' = [fresh EXCEPT ![p] = [id |-> issued + 1, account |-> login[p].account]]
      /\ fresh' \in [Process -> Token]
      /\ live' \subseteq Token
      /\ UNCHANGED <<approved, lapsed>>
  BY <1>0, <1>1, <1>2, GrantFresh
<1>4. TypeOK'
  BY <1>0, <1>3 DEF TypeOK, Control, Exchanged
<1>5. KeyringSound'
  BY <1>0, <1>3 DEF KeyringSound, Paired, Exchanged, TypeOK, Credentials, Token
<1>6. TokenSound(p)'
  BY <1>0, <1>3 DEF TokenSound, KeyringSound, Paired, Unrefused, RefusedOnce, Exchanged, TypeOK, Credentials, Token
<1>7. LoginSound(p)'
  BY <1>0, <1>3 DEF LoginSound, InCall, Exchanged, TypeOK
<1>8. ASSUME NEW q \in Process, q # p PROVE TokenSound(q)' /\ LoginSound(q)'
  BY <1>0, <1>3, <1>8, Untouched DEF Exchanged, TypeOK
<1> QED BY <1>4, <1>5, <1>6, <1>7, <1>8 DEF SessionInv

(* ExchangeDenied: The keyring is blamed for the answer to the exchange.   *)
LEMMA ExchangeDeniedSafe ==
  ASSUME SessionInv, NEW p \in Process, ExchangeDenied(p)
  PROVE  SessionInv'
<1> USE DEF Goto, Becomes, keyring, service, work
<1>0. TypeOK /\ KeyringSound /\ TokenSound(p) /\ LoginSound(p)
  BY DEF SessionInv
<1>4. TypeOK'
  BY <1>0 DEF TypeOK, Control, ExchangeDenied
<1>5. KeyringSound'
  BY <1>0 DEF KeyringSound, Paired, ExchangeDenied, TypeOK, Credentials, Token
<1>6. TokenSound(p)'
  BY <1>0 DEF TokenSound, KeyringSound, Paired, Unrefused, RefusedOnce, ExchangeDenied, TypeOK, Credentials, Token
<1>7. LoginSound(p)'
  BY <1>0 DEF LoginSound, InCall, ExchangeDenied, TypeOK
<1>8. ASSUME NEW q \in Process, q # p PROVE TokenSound(q)' /\ LoginSound(q)'
  BY <1>0, <1>8, Untouched DEF ExchangeDenied, TypeOK
<1> QED BY <1>4, <1>5, <1>6, <1>7, <1>8 DEF SessionInv

(* PollExpired: The login is past its lifetime.                            *)
LEMMA PollExpiredSafe ==
  ASSUME SessionInv, NEW p \in Process, PollExpired(p)
  PROVE  SessionInv'
<1> USE DEF Goto, Becomes, keyring, service, work
<1>0. TypeOK /\ KeyringSound /\ TokenSound(p) /\ LoginSound(p)
  BY DEF SessionInv
<1>4. TypeOK'
  BY <1>0 DEF TypeOK, Control, PollExpired
<1>5. KeyringSound'
  BY <1>0 DEF KeyringSound, Paired, PollExpired, TypeOK, Credentials, Token
<1>6. TokenSound(p)'
  BY <1>0 DEF TokenSound, KeyringSound, Paired, Unrefused, RefusedOnce, PollExpired, TypeOK, Credentials, Token
<1>7. LoginSound(p)'
  BY <1>0 DEF LoginSound, InCall, PollExpired, TypeOK
<1>8. ASSUME NEW q \in Process, q # p PROVE TokenSound(q)' /\ LoginSound(q)'
  BY <1>0, <1>8, Untouched DEF PollExpired, TypeOK
<1> QED BY <1>4, <1>5, <1>6, <1>7, <1>8 DEF SessionInv

(* PollEnds: The command ends.                                             *)
LEMMA PollEndsSafe ==
  ASSUME SessionInv, NEW p \in Process, PollEnds(p)
  PROVE  SessionInv'
<1> USE DEF Goto, Becomes, keyring, service, work
<1>0. TypeOK /\ KeyringSound /\ TokenSound(p) /\ LoginSound(p)
  BY DEF SessionInv
<1>4. TypeOK'
  BY <1>0 DEF TypeOK, Control, PollEnds
<1>5. KeyringSound'
  BY <1>0 DEF KeyringSound, Paired, PollEnds, TypeOK, Credentials, Token
<1>6. TokenSound(p)'
  BY <1>0 DEF TokenSound, KeyringSound, Paired, Unrefused, RefusedOnce, PollEnds, TypeOK, Credentials, Token
<1>7. LoginSound(p)'
  BY <1>0 DEF LoginSound, InCall, PollEnds, TypeOK
<1>8. ASSUME NEW q \in Process, q # p PROVE TokenSound(q)' /\ LoginSound(q)'
  BY <1>0, <1>8, Untouched DEF PollEnds, TypeOK
<1> QED BY <1>4, <1>5, <1>6, <1>7, <1>8 DEF SessionInv

(* Store: The login is delivered.                                          *)
LEMMA StoreSafe ==
  ASSUME SessionInv, NEW p \in Process, Store(p)
  PROVE  SessionInv'
<1> USE DEF Goto, Becomes, keyring, service, work
<1>0. TypeOK /\ KeyringSound /\ TokenSound(p) /\ LoginSound(p)
  BY DEF SessionInv
<1>4. TypeOK'
  BY <1>0 DEF TypeOK, Control, Credentials, PendingAuth, Store, LoginSound
<1>5. KeyringSound'
  BY <1>0 DEF KeyringSound, Paired, Store, TypeOK, Credentials, Token, LoginSound, TokenSound
<1>6. TokenSound(p)'
  BY <1>0 DEF TokenSound, KeyringSound, Paired, Unrefused, RefusedOnce, Store, TypeOK, Credentials, Token, LoginSound
<1>7. LoginSound(p)'
  BY <1>0 DEF LoginSound, InCall, Store, TypeOK
<1>8. ASSUME NEW q \in Process, q # p PROVE TokenSound(q)' /\ LoginSound(q)'
  BY <1>0, <1>8, Untouched DEF Store, TypeOK
<1> QED BY <1>4, <1>5, <1>6, <1>7, <1>8 DEF SessionInv

(* ClearPending: The pending login is cleared.                             *)
LEMMA ClearPendingSafe ==
  ASSUME SessionInv, NEW p \in Process, ClearPending(p)
  PROVE  SessionInv'
<1> USE DEF Goto, Becomes, keyring, service, work
<1>0. TypeOK /\ KeyringSound /\ TokenSound(p) /\ LoginSound(p)
  BY DEF SessionInv
<1>4. TypeOK'
  BY <1>0 DEF TypeOK, Control, ClearPending
<1>5. KeyringSound'
  BY <1>0 DEF KeyringSound, Paired, ClearPending, TypeOK, Credentials, Token
<1>6. TokenSound(p)'
  BY <1>0 DEF TokenSound, KeyringSound, Paired, Unrefused, RefusedOnce, ClearPending, TypeOK, Credentials, Token
<1>7. LoginSound(p)'
  BY <1>0 DEF LoginSound, InCall, ClearPending, TypeOK
<1>8. ASSUME NEW q \in Process, q # p PROVE TokenSound(q)' /\ LoginSound(q)'
  BY <1>0, <1>8, Untouched DEF ClearPending, TypeOK
<1> QED BY <1>4, <1>5, <1>6, <1>7, <1>8 DEF SessionInv

(* Crash: The command ends.                                                *)
LEMMA CrashSafe ==
  ASSUME SessionInv, NEW p \in Process, Crash(p)
  PROVE  SessionInv'
<1> USE DEF Goto, Becomes, keyring, service, work
<1>0. TypeOK /\ KeyringSound /\ TokenSound(p) /\ LoginSound(p)
  BY DEF SessionInv
<1>4. TypeOK'
  BY <1>0 DEF TypeOK, Control, Crash
<1>5. KeyringSound'
  BY <1>0 DEF KeyringSound, Paired, Crash, TypeOK, Credentials, Token
<1>6. TokenSound(p)'
  BY <1>0 DEF TokenSound, KeyringSound, Paired, Unrefused, RefusedOnce, Crash, TypeOK, Credentials, Token
<1>7. LoginSound(p)'
  BY <1>0 DEF LoginSound, InCall, Crash, TypeOK
<1>8. ASSUME NEW q \in Process, q # p PROVE TokenSound(q)' /\ LoginSound(q)'
  BY <1>0, <1>8, Untouched DEF Crash, TypeOK
<1> QED BY <1>4, <1>5, <1>6, <1>7, <1>8 DEF SessionInv

(* The service, the user and the login command touch no process.           *)
LEMMA OutsideSafe ==
  ASSUME SessionInv, Login \/ Approve \/ Lapse \/ ExpireToken \/ UNCHANGED vars
  PROVE  SessionInv'
<1> USE DEF keyring, service, work
<1>0. TypeOK /\ KeyringSound
  BY DEF SessionInv
<1>1. /\ UNCHANGED <<credentials, issued, pc, seen, used, fresh, login, refused, delivered>>
      /\ lapsed \subseteq lapsed'
  <2>1. CASE Login BY <2>1 DEF Login
  <2>2. CASE Approve BY <2>2 DEF Approve
  <2>3. CASE Lapse BY <2>3 DEF Lapse
  <2>4. CASE ExpireToken BY <2>4 DEF ExpireToken
  <2>5. CASE UNCHANGED vars BY <2>5 DEF vars
  <2> QED BY <2>1, <2>2, <2>3, <2>4, <2>5
<1>2. TypeOK'
  <2>1. CASE Login
    BY <1>0, <2>1 DEF Login, TypeOK, PendingAuth
  <2>2. CASE Approve
    BY <1>0, <2>2 DEF Approve, TypeOK
  <2>3. CASE Lapse
    BY <1>0, <2>3 DEF Lapse, TypeOK
  <2>4. CASE ExpireToken
    BY <1>0, <2>4 DEF ExpireToken, TypeOK
  <2>5. CASE UNCHANGED vars
    BY <1>0, <2>5 DEF vars, TypeOK
  <2> QED BY <2>1, <2>2, <2>3, <2>4, <2>5
<1>3. KeyringSound'
  BY <1>0, <1>1 DEF KeyringSound
<1>4. ASSUME NEW q \in Process PROVE TokenSound(q)' /\ LoginSound(q)'
  <2>1. issued \in Nat
    BY <1>0 DEF TypeOK
  <2> QED BY <1>1, <2>1, Untouched
<1> QED BY <1>2, <1>3, <1>4 DEF SessionInv

-----------------------------------------------------------------------------
(* The theorems.                                                           *)

(* Every step keeps the invariant.                                         *)
LEMMA NextSafe ==
  ASSUME SessionInv, [Next]_vars
  PROVE  SessionInv'
<1>1. ASSUME NEW p \in Process, Call(p) PROVE SessionInv'
  BY <1>1, SendSafe, AcceptedSafe, RefusedSafe, CallFailsSafe, ReloadSafe, RefreshGrantedSafe,
     RefreshRefusedSafe, LookAgainSafe, SaveRefreshedSafe, UnauthorizedSafe DEF Call
<1>2. ASSUME NEW p \in Process, Poll(p) PROVE SessionInv'
  BY <1>2, StartPollSafe, PollCompletedSafe, ExchangedSafe, ExchangeDeniedSafe, PollExpiredSafe,
     PollEndsSafe, StoreSafe, ClearPendingSafe DEF Poll
<1>3. ASSUME NEW p \in Process, Load(p) \/ Crash(p) PROVE SessionInv'
  BY <1>3, LoadSafe, CrashSafe
<1>4. CASE Login \/ Approve \/ Lapse \/ ExpireToken \/ UNCHANGED vars
  BY <1>4, OutsideSafe
<1> QED BY <1>1, <1>2, <1>3, <1>4 DEF Next

(* The invariant holds in every reachable state.                           *)
THEOREM SessionInvariant == Spec => []SessionInv
BY InitSessionInv, NextSafe, PTL DEF Spec

(* The variables keep their types.                                         *)
THEOREM SessionTypeOK == Spec => []TypeOK
<1>1. SessionInv => TypeOK
  BY DEF SessionInv
<1> QED BY <1>1, SessionInvariant, PTL

(* The keyring never pairs a token with the client of another account,     *)
(* for any number of commands, accounts and logins.                        *)
THEOREM CredentialsPaired == Spec => []AccountKept
<1>1. SessionInv => AccountKept
  BY DEF SessionInv, KeyringSound, Paired, AccountKept
<1> QED BY <1>1, SessionInvariant, PTL

(* A protected call is never repeated with the token it was refused.       *)
THEOREM RetryUsesAnotherToken == Spec => []NoRefusedTokenResent
<1>1. SessionInv => NoRefusedTokenResent
  BY DEF SessionInv, TokenSound, NoRefusedTokenResent
<1> QED BY <1>1, SessionInvariant, PTL

(* A pending login is cleared only by a poll whose own login is delivered  *)
(* or past its lifetime.                                                   *)
THEOREM LoginsCleared == Spec => PendingClearedWhenDone
<1> DEFINE Done == \E p \in Poller :
                     /\ pc'[p] # pc[p]
                     /\ login[p] # NoPending /\ login[p].id \in lapsed \cup delivered
<1>1. ASSUME SessionInv, Next, pending # NoPending, pending' = NoPending
      PROVE  Done
  <2>1. Login \/ \E p \in Process : ClearPending(p)
    BY <1>1 DEF Next, Call, Poll, Load, Send, Accepted, Refused, CallFails, Reload, RefreshGranted,
       RefreshRefused, LookAgain, SaveRefreshed, Unauthorized, StartPoll, PollCompleted, Exchanged,
       ExchangeDenied, PollExpired, PollEnds, Store, Crash, Approve, Lapse, ExpireToken, keyring
  <2>2. ~Login
    BY <1>1, SessionAssumption DEF Login, SessionInv, TypeOK, PendingAuth
  <2>3. PICK p \in Process : ClearPending(p)
    BY <2>1, <2>2
  <2>4. LoginSound(p) /\ pc[p] \in {"settling", "expiring"}
    BY <1>1, <2>3 DEF ClearPending, Goto, SessionInv
  <2>5. pc'[p] # pc[p]
    BY <1>1, <2>3 DEF ClearPending, Goto, SessionInv, TypeOK
  <2> QED BY <2>4, <2>5 DEF LoginSound, InCall
<1>2. SessionInv /\ [Next]_vars =>
        [pending # NoPending /\ pending' = NoPending => Done]_vars
  BY <1>1
<1> QED BY <1>2, SessionInvariant, PTL DEF Spec, PendingClearedWhenDone

-----------------------------------------------------------------------------
(* Commands that do not overlap.                                           *)

Active(p) == pc[p] \notin {"start", "over"}

(* The hypothesis of CommandsInTurnClearRefused: a command is started only *)
(* when the one before has ended.  `login` has no state of its own.        *)
OneAtATime == \A p, q \in Process : Active(p) /\ Active(q) => p = q

AtCall ==
  {"sending", "waiting", "refused", "refreshing", "granted", "denied", "saving", "retrying"}

(* A poll that gives up on the credentials though no token was refused to  *)
(* it: the service denied the exchange of its login.                       *)
DeniedExchange(p) == login[p] # NoPending /\ refused[p] = {}

(* What a command works with is then what the keyring holds.               *)
OwnToken(p) ==
  credentials # NoCredentials =>
    /\ pc[p] \in AtCall => used[p] = credentials.token
    /\ pc[p] = "denied" => used[p] \in refused[p]
    /\ pc[p] = "unauthorized" => credentials.token \in refused[p] \/ DeniedExchange(p)

(* One process moves, and only an active one writes the credentials.       *)
LEMMA OthersWait ==
  ASSUME SessionInv, OneAtATime, NEW p \in Process, NEW q \in Process, q # p, OwnToken(q),
         Load(p) \/ Call(p) \/ Poll(p) \/ Crash(p)
  PROVE  OwnToken(q)'
<1> USE DEF Goto, Becomes, keyring, service, work
<1>0. TypeOK
  BY DEF SessionInv
<1>1. pc'[q] = pc[q] /\ used'[q] = used[q] /\ refused'[q] = refused[q] /\ login'[q] = login[q]
  <2>1. CASE Load(p) BY <1>0, <2>1 DEF Load, Loading, TypeOK
  <2>2. CASE Crash(p) BY <1>0, <2>2 DEF Crash, TypeOK
  <2>3. CASE Call(p)
    <3>1. CASE Send(p) BY <1>0, <3>1 DEF Send, TypeOK
    <3>2. CASE Accepted(p) BY <1>0, <3>2 DEF Accepted, TypeOK
    <3>3. CASE Refused(p) BY <1>0, <3>3 DEF Refused, TypeOK
    <3>4. CASE CallFails(p) BY <1>0, <3>4 DEF CallFails, TypeOK
    <3>5. CASE Reload(p) BY <1>0, <3>5 DEF Reload, TypeOK
    <3>6. CASE RefreshGranted(p) BY <1>0, <3>6 DEF RefreshGranted, TypeOK
    <3>7. CASE RefreshRefused(p) BY <1>0, <3>7 DEF RefreshRefused, TypeOK
    <3>8. CASE LookAgain(p) BY <1>0, <3>8 DEF LookAgain, TypeOK
    <3>9. CASE SaveRefreshed(p) BY <1>0, <3>9 DEF SaveRefreshed, TypeOK
    <3>10. CASE Unauthorized(p) BY <1>0, <3>10 DEF Unauthorized, TypeOK
    <3> QED BY <2>3, <3>1, <3>2, <3>3, <3>4, <3>5, <3>6, <3>7, <3>8, <3>9, <3>10 DEF Call
  <2>4. CASE Poll(p)
    <3>1. CASE StartPoll(p) BY <1>0, <3>1 DEF StartPoll, TypeOK
    <3>2. CASE PollCompleted(p) BY <1>0, <3>2 DEF PollCompleted, TypeOK
    <3>3. CASE Exchanged(p) BY <1>0, <3>3 DEF Exchanged, TypeOK
    <3>4. CASE PollExpired(p) BY <1>0, <3>4 DEF PollExpired, TypeOK
    <3>5. CASE PollEnds(p) BY <1>0, <3>5 DEF PollEnds, TypeOK
    <3>6. CASE Store(p) BY <1>0, <3>6 DEF Store, TypeOK
    <3>7. CASE ClearPending(p) BY <1>0, <3>7 DEF ClearPending, TypeOK
    <3>8. CASE ExchangeDenied(p) BY <1>0, <3>8 DEF ExchangeDenied, TypeOK
    <3> QED BY <2>4, <3>1, <3>2, <3>3, <3>4, <3>5, <3>6, <3>7, <3>8 DEF Poll
  <2> QED BY <2>1, <2>2, <2>3, <2>4
<1>2. credentials' = credentials \/ pc[p] \in {"saving", "unauthorized", "storing"}
  <2>1. CASE SaveRefreshed(p) \/ Unauthorized(p) \/ Store(p)
    BY <2>1 DEF SaveRefreshed, Unauthorized, Store
  <2>2. CASE ~(SaveRefreshed(p) \/ Unauthorized(p) \/ Store(p))
    BY <2>2 DEF Call, Poll, Load, Send, Accepted, Refused, CallFails, Reload, RefreshGranted,
       RefreshRefused, LookAgain, StartPoll, PollCompleted, Exchanged, ExchangeDenied,
       PollExpired, PollEnds, ClearPending, Crash
  <2> QED BY <2>1, <2>2
<1>3. CASE credentials' = credentials
  BY <1>1, <1>3 DEF OwnToken, DeniedExchange
<1>4. CASE pc[p] \in {"saving", "unauthorized", "storing"}
  <2>1. ~Active(q)
    BY <1>4 DEF OneAtATime, Active
  <2> QED BY <1>1, <2>1 DEF Active, OwnToken, AtCall
<1> QED BY <1>2, <1>3, <1>4

(* The process that moves: what it looks at, it sends, and what it saves,  *)
(* it uses next.                                                           *)
LEMMA MoverKeepsToken ==
  ASSUME SessionInv, NEW p \in Process, OwnToken(p),
         Load(p) \/ Call(p) \/ Poll(p) \/ Crash(p)
  PROVE  OwnToken(p)'
<1> USE DEF Goto, Becomes, keyring, service, work
<1>0. TypeOK
  BY DEF SessionInv
<1>1. CASE Load(p) BY <1>0, <1>1 DEF Load, Loading, TypeOK, OwnToken, AtCall
<1>2. CASE Crash(p) BY <1>0, <1>2 DEF Crash, TypeOK, OwnToken, AtCall
<1>3. CASE Call(p)
  <2>1. CASE Send(p) BY <1>0, <2>1 DEF Send, TypeOK, OwnToken, AtCall
  <2>2. CASE Accepted(p) BY <1>0, <2>2 DEF Accepted, AfterCall, TypeOK, OwnToken, AtCall
  <2>3. CASE Refused(p) BY <1>0, <2>3 DEF Refused, TypeOK, OwnToken, AtCall
  <2>4. CASE CallFails(p) BY <1>0, <2>4 DEF CallFails, TypeOK, OwnToken, AtCall
  <2>5. CASE Reload(p) BY <1>0, <2>5 DEF Reload, Concurrent, TypeOK, OwnToken, AtCall
  <2>6. CASE RefreshGranted(p) BY <1>0, <2>6 DEF RefreshGranted, TypeOK, OwnToken, AtCall
  <2>7. CASE RefreshRefused(p) BY <1>0, <2>7 DEF RefreshRefused, TypeOK, OwnToken, AtCall
  <2>8. CASE LookAgain(p) BY <1>0, <2>8 DEF LookAgain, Concurrent, TypeOK, OwnToken, AtCall
  <2>9. CASE SaveRefreshed(p)
    <3>1. pc[p] = "saving" /\ seen[p] # NoCredentials
      BY <2>9 DEF SaveRefreshed, SessionInv, TokenSound
    <3>2. credentials'.token = fresh[p]
      BY <1>0, <2>9, <3>1 DEF SaveRefreshed, Refreshed, TypeOK, Credentials
    <3>3. used'[p] = fresh[p] /\ pc'[p] \in {"over", "retrying"}
      BY <1>0, <2>9 DEF SaveRefreshed, TypeOK
    <3> QED BY <3>2, <3>3 DEF OwnToken
  <2>10. CASE Unauthorized(p) BY <1>0, <2>10 DEF Unauthorized, TypeOK, OwnToken, AtCall
  <2> QED BY <1>3, <2>1, <2>2, <2>3, <2>4, <2>5, <2>6, <2>7, <2>8, <2>9, <2>10 DEF Call
<1>4. CASE Poll(p)
  <2>1. CASE StartPoll(p) BY <1>0, <2>1 DEF StartPoll, TypeOK, OwnToken, AtCall
  <2>2. CASE PollCompleted(p) BY <1>0, <2>2 DEF PollCompleted, TypeOK, OwnToken, AtCall
  <2>3. CASE Exchanged(p) BY <1>0, <2>3 DEF Exchanged, TypeOK, OwnToken, AtCall
  <2>4. CASE PollExpired(p) BY <1>0, <2>4 DEF PollExpired, TypeOK, OwnToken, AtCall
  <2>5. CASE PollEnds(p) BY <1>0, <2>5 DEF PollEnds, TypeOK, OwnToken, AtCall
  <2>6. CASE Store(p) BY <1>0, <2>6 DEF Store, TypeOK, OwnToken, AtCall
  <2>7. CASE ClearPending(p) BY <1>0, <2>7 DEF ClearPending, TypeOK, OwnToken, AtCall
  <2>8. CASE ExchangeDenied(p)
    <3>1. refused[p] = {} /\ login[p] # NoPending
      BY <2>8 DEF ExchangeDenied, SessionInv, TokenSound, LoginSound, Unrefused
    <3> QED BY <1>0, <2>8, <3>1 DEF ExchangeDenied, TypeOK, OwnToken, AtCall, DeniedExchange
  <2> QED BY <1>4, <2>1, <2>2, <2>3, <2>4, <2>5, <2>6, <2>7, <2>8 DEF Poll
<1> QED BY <1>1, <1>2, <1>3, <1>4

(* Every step keeps a command's token the one of the keyring, as long as   *)
(* commands do not overlap.                                                *)
LEMMA OwnTokenStep ==
  ASSUME SessionInv, OneAtATime, \A p \in Process : OwnToken(p), [Next]_vars
  PROVE  \A p \in Process : OwnToken(p)'
<1>1. ASSUME NEW p \in Process, Load(p) \/ Call(p) \/ Poll(p) \/ Crash(p), NEW q \in Process
      PROVE  OwnToken(q)'
  <2>1. OwnToken(q)
    OBVIOUS
  <2>2. CASE q = p
    BY <1>1, <2>1, <2>2, MoverKeepsToken
  <2>3. CASE q # p
    BY <1>1, <2>1, <2>3, OthersWait
  <2> QED BY <2>2, <2>3
<1>2. CASE Login \/ Approve \/ Lapse \/ ExpireToken \/ UNCHANGED vars
  <2>1. UNCHANGED <<credentials, pc, used, refused, login>>
    BY <1>2 DEF Login, Approve, Lapse, ExpireToken, vars, keyring, work
  <2> QED BY <2>1 DEF OwnToken, DeniedExchange
<1> QED BY <1>1, <1>2 DEF Next

(* As long as no two commands overlap, a command that clears the           *)
(* credentials has had their token refused to it, or is a poll whose       *)
(* exchange was denied (auth.py clears them after either answer): besides  *)
(* a denied exchange, only an overlap can cost the user a good session.    *)
THEOREM CommandsInTurnClearRefused ==
  Spec /\ []OneAtATime =>
    [][ credentials # NoCredentials /\ credentials' = NoCredentials =>
          \E p \in Process :
            /\ pc[p] = "unauthorized"
            /\ credentials.token \in refused[p] \/ (p \in Poller /\ DeniedExchange(p)) ]_vars
<1> DEFINE Own == \A p \in Process : OwnToken(p)
           Blamed == \E p \in Process :
                       /\ pc[p] = "unauthorized"
                       /\ credentials.token \in refused[p] \/ (p \in Poller /\ DeniedExchange(p))
<1>1. Init => Own
  BY DEF Init, OwnToken, AtCall
<1>2. SessionInv /\ OneAtATime /\ Own /\ [Next]_vars => Own'
  BY OwnTokenStep
<1>3. SessionInv /\ Own /\ [Next]_vars =>
        [credentials # NoCredentials /\ credentials' = NoCredentials => Blamed]_vars
  <2> SUFFICES ASSUME SessionInv, Own, Next,
                      credentials # NoCredentials, credentials' = NoCredentials
               PROVE  Blamed
    OBVIOUS
  <2>1. \E p \in Process : SaveRefreshed(p) \/ Unauthorized(p) \/ Store(p)
    BY DEF Next, Call, Poll, Load, Send, Accepted, Refused, CallFails, Reload, RefreshGranted,
       RefreshRefused, LookAgain, StartPoll, PollCompleted, Exchanged, ExchangeDenied,
       PollExpired, PollEnds, ClearPending, Crash, Login, Approve, Lapse, ExpireToken, keyring
  <2>2. PICK p \in Process : SaveRefreshed(p) \/ Unauthorized(p) \/ Store(p)
    BY <2>1
  <2>3. TypeOK'
    BY NextSafe DEF SessionInv
  <2>4. ~SaveRefreshed(p)
    <3> SUFFICES ASSUME SaveRefreshed(p) PROVE FALSE
      OBVIOUS
    <3>1. seen[p] # NoCredentials /\ fresh[p] \in Token /\ seen[p] \in Credentials \cup {NoCredentials}
      BY DEF SaveRefreshed, Goto, SessionInv, TypeOK, TokenSound
    <3>2. Refreshed(p) \in Credentials
      BY <3>1 DEF Refreshed, Credentials
    <3> QED BY <3>2, SessionAssumption DEF SaveRefreshed
  <2>5. ~Store(p)
    <3> SUFFICES ASSUME Store(p) PROVE FALSE
      OBVIOUS
    <3>1. login[p] \in PendingAuth /\ fresh[p] \in Token
      BY DEF Store, Goto, SessionInv, TypeOK, LoginSound
    <3>2. credentials' \in Credentials
      BY <3>1 DEF Store, Credentials, PendingAuth
    <3> QED BY <3>2, SessionAssumption
  <2>6. pc[p] = "unauthorized"
    BY <2>2, <2>4, <2>5 DEF Unauthorized, Goto
  <2>7. login[p] # NoPending => p \in Poller
    BY DEF SessionInv, LoginSound
  <2> QED BY <2>6, <2>7 DEF OwnToken, DeniedExchange
<1> HIDE DEF Own, Blamed
<1>4. Spec /\ []OneAtATime =>
        [][credentials # NoCredentials /\ credentials' = NoCredentials => Blamed]_vars
  BY <1>1, <1>2, <1>3, SessionInvariant, PTL DEF Spec
<1> QED BY <1>4 DEF Blamed

=============================================================================
