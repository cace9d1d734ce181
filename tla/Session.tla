------------------------------ MODULE Session ------------------------------
(***************************************************************************)
(* Login and session: the credentials and the pending login that all       *)
(* commands of a user share in the OS keyring, without any lock.  Each     *)
(* keyring access and each answer of the control service is a step.        *)
(*                                                                         *)
(* A caller is a command that makes a protected call: a refused token is   *)
(* refreshed once and the call repeated (AtlasApiClient._refresh_and_retry *)
(* of api_client.py).  A refresher is `auth refresh`, a poller `auth poll`.*)
(* A command may make several protected calls; each reads the credentials  *)
(* anew, so one stands for all.                                            *)
(*                                                                         *)
(* A token stands for a session of an account at the service; credentials  *)
(* are a token and the client_code and cid of an account.                  *)
(***************************************************************************)
EXTENDS Naturals

CONSTANTS
  Caller,         (* commands that make a protected call: `auth status`,    *)
                  (* `search`, the booking commands                         *)
  Refresher,      (* invocations of `auth refresh`                          *)
  Poller,         (* invocations of `auth poll`                             *)
  Account,        (* accounts a user may log in to                          *)
  NoCredentials,  (* no credentials in the keyring                          *)
  NoPending,      (* no pending login in the keyring                        *)
  MaxTokens,      (* bound: tokens granted                                  *)
  MaxLogins       (* bound: logins started                                  *)

Process == Caller \cup Refresher \cup Poller

Token == [id : Nat, account : Account]

Credentials == [account : Account, token : Token]

(* A login, with the account it will be approved for in the browser.       *)
PendingAuth == [id : Nat, account : Account]

ASSUME SessionAssumption ==
  /\ Caller \cap Refresher = {} /\ Caller \cap Poller = {} /\ Refresher \cap Poller = {}
  /\ Account # {}
  /\ MaxTokens \in Nat /\ MaxLogins \in Nat
  /\ NoCredentials \notin Credentials /\ NoPending \notin PendingAuth

VARIABLES
  credentials,  (* credentials record of the keyring                        *)
  pending,      (* pending-auth record of the keyring                       *)
  issued,       (* tokens granted so far; a token is fresh                  *)
  started,      (* logins started so far                                    *)
  live,         (* tokens the service accepts                               *)
  approved,     (* logins the user completed in the browser                 *)
  lapsed,       (* logins whose lifetime is over                            *)
  pc,           (* where each process is                                    *)
  seen,         (* the credentials the process works from                   *)
  used,         (* the token of its last request                            *)
  fresh,        (* the token a refresh granted it                           *)
  login,        (* the pending login a poller works on                      *)
  refused,      (* history: the tokens refused to the process               *)
  delivered     (* history: logins whose credentials reached the keyring    *)

keyring == <<credentials, pending>>
service == <<issued, live, approved, lapsed>>
work == <<seen, used, fresh, login, refused, delivered>>
vars == <<credentials, pending, issued, started, live, approved, lapsed, pc,
          seen, used, fresh, login, refused, delivered>>

Control ==
  {"start", "loading", "sending", "waiting", "refused", "refreshing", "granted", "denied",
   "saving", "retrying", "unauthorized", "polling", "exchanging",
   "storing", "settling", "expiring", "over"}

-----------------------------------------------------------------------------
Goto(p, from, to) == pc[p] = from /\ pc' = [pc EXCEPT ![p] = to]

Becomes(f, p, x) == [f EXCEPT ![p] = x]

(* A fresh token of an account; the service may drop the one it replaces.  *)
Grant(p, account, replaced) ==
  /\ issued < MaxTokens /\ issued' = issued + 1
  /\ LET token == [id |-> issued + 1, account |-> account]
     IN  /\ fresh' = Becomes(fresh, p, token)
         /\ live' \in {live \cup {token}, (live \ replaced) \cup {token}}
  /\ UNCHANGED <<approved, lapsed>>

(* A mistake a change to the code could make, for the mutation runs: what  *)
(* is in the keyring is tried again, whatever it is.                       *)
AnyStored(p) == credentials # NoCredentials

(* The keyring holds another token than the one that failed.               *)
Concurrent(p) == credentials # NoCredentials /\ credentials.token # used[p]

-----------------------------------------------------------------------------
(* The command starts.                                                     *)

Loading(p) == IF p \in Poller THEN "loading" ELSE "start"

Load(p) ==
  /\ IF credentials = NoCredentials
     THEN Goto(p, Loading(p), "over") /\ UNCHANGED <<seen, used>>
     ELSE /\ Goto(p, Loading(p), IF p \in Refresher THEN "refreshing" ELSE "sending")
          /\ seen' = Becomes(seen, p, credentials)
          /\ used' = Becomes(used, p, credentials.token)
  /\ UNCHANGED <<keyring, started, service, fresh, login, refused, delivered>>

-----------------------------------------------------------------------------
(* A protected call.                                                       *)

(* _current_session_headers: the token of the keyring, if there is one.    *)
Send(p) ==
  /\ Goto(p, "sending", "waiting")
  /\ used' = Becomes(used, p, IF credentials = NoCredentials THEN used[p] ELSE credentials.token)
  /\ UNCHANGED <<keyring, started, service, seen, fresh, login, refused, delivered>>

AfterCall(p) == IF p \in Poller /\ login[p] # NoPending THEN "settling" ELSE "over"

Accepted(p) ==
  /\ used[p] \in live
  /\ Goto(p, "waiting", AfterCall(p)) \/ Goto(p, "retrying", AfterCall(p))
  /\ UNCHANGED <<keyring, started, service, work>>

(* HTTP 401 or 461, or code 5107 or 5555, refuses a token that may be      *)
(* refreshed once; code 5120 refuses it for good at the first answer.      *)
Refused(p) ==
  /\ used[p] \notin live
  /\ \/ Goto(p, "waiting", "refused")
     \/ Goto(p, "waiting", "unauthorized")
     \/ Goto(p, "retrying", "unauthorized")
  /\ refused' = Becomes(refused, p, refused[p] \cup {used[p]})
  /\ UNCHANGED <<keyring, started, service, seen, used, fresh, login, delivered>>

(* Any other error, of a protected call or of a refresh, ends the command. *)
CallFails(p) ==
  /\ pc[p] \in {"waiting", "retrying", "refreshing"}
  /\ Goto(p, pc[p], "over")
  /\ UNCHANGED <<keyring, started, service, work>>

(* _refresh_and_retry, its first look at the keyring.                      *)
Reload(p) ==
  /\ \/ /\ credentials = NoCredentials
        /\ Goto(p, "refused", "unauthorized")
        /\ UNCHANGED <<seen, used>>
     \/ /\ Concurrent(p)
        /\ Goto(p, "refused", "retrying")
        /\ used' = Becomes(used, p, credentials.token)
        /\ UNCHANGED seen
     \/ /\ credentials # NoCredentials /\ ~Concurrent(p)
        /\ Goto(p, "refused", "refreshing")
        /\ seen' = Becomes(seen, p, credentials)
        /\ UNCHANGED used
  /\ UNCHANGED <<keyring, started, service, fresh, login, refused, delivered>>

RefreshGranted(p) ==
  /\ Goto(p, "refreshing", IF p \in Refresher THEN "saving" ELSE "granted")
  /\ Grant(p, used[p].account, {used[p]})
  /\ UNCHANGED <<keyring, started, seen, used, login, refused, delivered>>

(* Code 5120, or a session error.                                          *)
RefreshRefused(p) ==
  /\ used[p] \notin live
  /\ Goto(p, "refreshing", IF p \in Refresher THEN "unauthorized" ELSE "denied")
  /\ refused' = Becomes(refused, p, refused[p] \cup {used[p]})
  /\ UNCHANGED <<keyring, started, service, seen, used, fresh, login, delivered>>

(* The second look, after a refresh that was refused or granted: another   *)
(* command may have saved a token meanwhile.                               *)
LookAgain(p) ==
  /\ \/ /\ Concurrent(p)
        /\ Goto(p, "denied", "retrying") \/ Goto(p, "granted", "retrying")
        /\ used' = Becomes(used, p, credentials.token)
     \/ /\ ~Concurrent(p)
        /\ Goto(p, "denied", "unauthorized") \/ Goto(p, "granted", "saving")
        /\ UNCHANGED used
  /\ UNCHANGED <<keyring, started, service, seen, fresh, login, refused, delivered>>

(* A mistake: the token merged into whatever the keyring holds by now.     *)
SavedIntoCurrent(p) ==
  IF credentials = NoCredentials THEN [seen[p] EXCEPT !.token = fresh[p]]
  ELSE [credentials EXCEPT !.token = fresh[p]]

(* A mistake: the token saved in place of the credentials.                 *)
SavedBare(p) == fresh[p]

Refreshed(p) == [seen[p] EXCEPT !.token = fresh[p]]

SaveRefreshed(p) ==
  /\ Goto(p, "saving", IF p \in Refresher THEN "over" ELSE "retrying")
  /\ credentials' = Refreshed(p)
  /\ used' = Becomes(used, p, fresh[p])
  /\ UNCHANGED <<pending, started, service, seen, fresh, login, refused, delivered>>

(* The auth commands and search clear the credentials, whatever they are   *)
(* by now and whatever was refused; the booking commands leave them.       *)
Unauthorized(p) ==
  /\ Goto(p, "unauthorized", "over")
  /\ credentials' \in {NoCredentials} \cup {c \in {credentials} : p \in Caller}
  /\ UNCHANGED <<pending, started, service, work>>

-----------------------------------------------------------------------------
(* Login and poll.                                                         *)

Login ==
  /\ started < MaxLogins /\ started' = started + 1
  /\ \E a \in Account : pending' = [id |-> started + 1, account |-> a]
  /\ UNCHANGED <<credentials, service, pc, work>>

(* A pending login, or else the stored credentials, which are validated.   *)
(* A login whose expires_at cannot be read has no lifetime left: Lapse,    *)
(* which may come at once, stands for it too.                              *)
StartPoll(p) ==
  /\ p \in Poller
  /\ \/ /\ pending # NoPending
        /\ Goto(p, "start", IF pending.id \in lapsed THEN "expiring" ELSE "polling")
        /\ login' = Becomes(login, p, pending)
     \/ /\ pending = NoPending
        /\ Goto(p, "start", "loading")
        /\ UNCHANGED login
  /\ UNCHANGED <<keyring, started, service, seen, used, fresh, refused, delivered>>

PollCompleted(p) ==
  /\ login[p] # NoPending /\ login[p].id \in approved
  /\ Goto(p, "polling", "exchanging")
  /\ UNCHANGED <<keyring, started, service, work>>

Exchanged(p) ==
  /\ Goto(p, "exchanging", "storing")
  /\ Grant(p, login[p].account, {})
  /\ UNCHANGED <<keyring, started, seen, used, login, refused, delivered>>

(* The exchange carries the login and no session token; when the service   *)
(* answers 5120 to it, the credentials of the keyring are dropped as if    *)
(* they had been refused.                                                  *)
ExchangeDenied(p) ==
  /\ Goto(p, "exchanging", "unauthorized")
  /\ UNCHANGED <<keyring, started, service, work>>

(* The service says that the login expired: to the status query, to the    *)
(* exchange, or (AUTH_EXPIRED is handled there too) while synchronizing.   *)
PollExpired(p) ==
  /\ login[p] # NoPending /\ login[p].id \in lapsed
  /\ pc[p] \in {"polling", "exchanging", "waiting", "refreshing", "retrying"}
  /\ Goto(p, pc[p], "expiring")
  /\ UNCHANGED <<keyring, started, service, work>>

(* A mistake: a poll that did not end in time given up for good.           *)
PollGivesUp(p) ==
  /\ pc[p] \in {"polling", "exchanging", "storing", "settling"}
  /\ Goto(p, pc[p], "expiring")
  /\ UNCHANGED <<keyring, started, service, work>>

(* The time is up, the service fails (5120 to the status query is a        *)
(* failure like any other), or the keyring does.                           *)
PollEnds(p) ==
  /\ pc[p] \in {"polling", "exchanging", "storing", "settling"}
  /\ Goto(p, pc[p], "over")
  /\ UNCHANGED <<keyring, started, service, work>>

(* The credentials are saved, and then synchronized by protected calls.    *)
Store(p) ==
  /\ Goto(p, "storing", "sending")
  /\ credentials' = [account |-> login[p].account, token |-> fresh[p]]
  /\ used' = Becomes(used, p, fresh[p])
  /\ delivered' = delivered \cup {login[p].id}
  /\ UNCHANGED <<pending, started, service, seen, fresh, login, refused>>

ClearPending(p) ==
  /\ Goto(p, "settling", "over") \/ Goto(p, "expiring", "over")
  /\ pending' = NoPending
  /\ UNCHANGED <<credentials, started, service, work>>

-----------------------------------------------------------------------------
(* The service and the user.                                               *)

Approve ==
  /\ \E id \in (1..started) \ (approved \cup lapsed) : approved' = approved \cup {id}
  /\ UNCHANGED <<keyring, started, issued, live, lapsed, pc, work>>

Lapse ==
  /\ \E id \in (1..started) \ lapsed : lapsed' = lapsed \cup {id}
  /\ UNCHANGED <<keyring, started, issued, live, approved, pc, work>>

ExpireToken ==
  /\ \E t \in live : live' = live \ {t}
  /\ UNCHANGED <<keyring, started, issued, approved, lapsed, pc, work>>

(* A killed process; a keyring that fails ends a command just as well.     *)
Crash(p) ==
  /\ pc[p] \notin {"start", "over"}
  /\ pc' = Becomes(pc, p, "over")
  /\ UNCHANGED <<keyring, started, service, work>>

-----------------------------------------------------------------------------
Nobody == [id |-> 0, account |-> CHOOSE a \in Account : TRUE]

(* A user who is not logged in, or who is.                                 *)
Init ==
  /\ \/ credentials = NoCredentials /\ issued = 0 /\ live = {}
     \/ \E a \in Account :
          LET token == [id |-> 1, account |-> a]
          IN  /\ credentials = [account |-> a, token |-> token]
              /\ issued = 1 /\ live = {token}
  /\ pending = NoPending
  /\ started = 0
  /\ approved = {}
  /\ lapsed = {}
  /\ pc = [p \in Process |-> "start"]
  /\ seen = [p \in Process |-> NoCredentials]
  /\ used = [p \in Process |-> Nobody]
  /\ fresh = [p \in Process |-> Nobody]
  /\ login = [p \in Process |-> NoPending]
  /\ refused = [p \in Process |-> {}]
  /\ delivered = {}

Call(p) ==
  \/ Send(p)
  \/ Accepted(p)
  \/ Refused(p)
  \/ CallFails(p)
  \/ Reload(p)
  \/ RefreshGranted(p)
  \/ RefreshRefused(p)
  \/ LookAgain(p)
  \/ SaveRefreshed(p)
  \/ Unauthorized(p)

Poll(p) ==
  \/ StartPoll(p)
  \/ PollCompleted(p)
  \/ Exchanged(p)
  \/ ExchangeDenied(p)
  \/ PollExpired(p)
  \/ PollEnds(p)
  \/ Store(p)
  \/ ClearPending(p)

Next ==
  \/ \E p \in Process : Load(p) \/ Call(p) \/ Poll(p) \/ Crash(p)
  \/ Login
  \/ Approve
  \/ Lapse
  \/ ExpireToken

Spec == Init /\ [][Next]_vars

-----------------------------------------------------------------------------
TypeOK ==
  /\ credentials \in Credentials \cup {NoCredentials}
  /\ pending \in PendingAuth \cup {NoPending}
  /\ issued \in Nat /\ started \in Nat
  /\ live \subseteq Token
  /\ approved \subseteq Nat /\ lapsed \subseteq Nat
  /\ pc \in [Process -> Control]
  /\ seen \in [Process -> Credentials \cup {NoCredentials}]
  /\ used \in [Process -> Token]
  /\ fresh \in [Process -> Token]
  /\ login \in [Process -> PendingAuth \cup {NoPending}]
  /\ refused \in [Process -> SUBSET Token]
  /\ delivered \subseteq Nat

(* However refreshes, logins to other accounts and clears interleave, the  *)
(* keyring never pairs a token with the client of another account.         *)
AccountKept == credentials # NoCredentials => credentials.token.account = credentials.account

(* A call is never repeated with a token that was refused to it.           *)
NoRefusedTokenResent ==
  \A p \in Process : pc[p] = "retrying" => used[p] \notin refused[p]

(* A pending login is cleared only by a poll whose own login is past its   *)
(* lifetime or whose credentials reached the keyring before: a failure in  *)
(* between leaves the login to the next poll.                              *)
PendingClearedWhenDone ==
  [][ pending # NoPending /\ pending' = NoPending =>
        \E p \in Poller :
          /\ pc'[p] # pc[p]
          /\ login[p] # NoPending /\ login[p].id \in lapsed \cup delivered ]_vars

(* What a command clears after a refusal is the token that was refused,    *)
(* never one that another command saved since.                             *)
OnlyRefusedTokenCleared ==
  [][ credentials # NoCredentials /\ credentials' = NoCredentials =>
        \E p \in Process : credentials.token \in refused[p] ]_vars

=============================================================================
