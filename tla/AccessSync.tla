----------------------------- MODULE AccessSync -----------------------------
(***************************************************************************)
(* How `search`, `offer list` and `offer verify` come by an API key and    *)
(* what they do with it.  Each command asks the control service for the    *)
(* standing of the account and then for its keys, merges them into the     *)
(* keyring record api-credentials, and goes to the business service with   *)
(* the key of its route.  A search whose key is rejected synchronizes and  *)
(* searches once more.                                                     *)
(*                                                                         *)
(* The record is read before and written after a call of the control       *)
(* service, without a lock, and each such call is made for the account     *)
(* whose token is in the keyring at that time.  Meanwhile other commands   *)
(* do the same, the user logs in to another account or switches the mode,  *)
(* accounts are activated and topped up, and keys are replaced.            *)
(***************************************************************************)
EXTENDS Endpoints, Naturals

CONSTANTS
  Searcher,      (* invocations of `search`                                 *)
  Reader,        (* invocations of `offer list` and `offer verify`          *)
  Account,       (* accounts a user may log in to                           *)
  NoAccount,     (* a command that has not loaded a token                   *)
  NoKey,         (* an empty slot                                           *)
  MaxChanges     (* bound: logins, mode switches, activations, top-ups and  *)
                 (* replacements of keys                                    *)

Process == Searcher \cup Reader

Key == [account : Account, slot : CredentialSlot, serial : Nat]

Keys == [CredentialSlot -> Key \cup {NoKey}]

(* A stored search, with the route that its offers really came from.       *)
Search == [generation : {Generation(r) : r \in SearchRoute}, from : SearchRoute]

ASSUME AccessAssumption ==
  /\ Searcher \cap Reader = {}
  /\ Account # {} /\ NoAccount \notin Account
  /\ NoKey \notin Key
  /\ MaxChanges \in Nat

VARIABLES
  mode,      (* the configured customer mode                                *)
  loggedIn,  (* the account whose token is in the keyring                   *)
  stored,    (* api-credentials record of the keyring                       *)
  searches,  (* the searches SearchStore holds                              *)
  standing,  (* [Account -> Standing], at the control service               *)
  serial,    (* [Account -> Nat], the keys the business service accepts     *)
  changes,   (* changes so far, for the bound                               *)
  pc,        (* where each command is                                       *)
  cmd,       (* what it has read                                            *)
  since      (* history: what happened since it began                       *)

local == <<mode, loggedIn, stored, searches>>
service == <<standing, serial, changes>>
vars == <<mode, loggedIn, stored, searches, standing, serial, changes, pc, cmd, since>>

Control ==
  {"start", "checking", "loading", "fetching", "saving", "reading", "calling", "storing", "rejected", "over"}

Command ==
  [ job      : {"search", "list", "verify"},
    mode     : CustomerMode,
    account  : Account \cup {NoAccount},   \* whose token the command loaded
    standing : Standing,
    keys     : Keys,                       \* as loaded, then as merged
    key      : Key \cup {NoKey},           \* the credential of its route
    attempt  : 1..2,
    offers   : SUBSET Search ]             \* the search its offer is from

Since == [login : BOOLEAN, empty : BOOLEAN, rotations : 0..2]

NoKeys == [s \in CredentialSlot |-> NoKey]

Blank ==
  [ job |-> "search", mode |-> "prod", account |-> NoAccount,
    standing |-> [live |-> FALSE, topped |-> FALSE],
    keys |-> NoKeys, key |-> NoKey, attempt |-> 1, offers |-> {} ]

Nothing == [login |-> FALSE, empty |-> FALSE, rotations |-> 0]

-----------------------------------------------------------------------------
Goto(p, from, to) == pc[p] = from /\ pc' = [pc EXCEPT ![p] = to]

(* A command that ends leaves nothing behind but what it stored; one whose *)
(* key was rejected for good is told apart.                                *)
Ended == {"rejected", "over"}

End(p, from, how) ==
  /\ Goto(p, from, how)
  /\ cmd' = [cmd EXCEPT ![p] = Blank]
  /\ since' = [since EXCEPT ![p] = Nothing]

Becomes(p, c) == cmd' = [cmd EXCEPT ![p] = c]

Route(p) == ResolveSearch(cmd[p].mode, cmd[p].standing)

(* The token of the keyring replaces the one the command loaded: each call *)
(* of the control service is made for the account logged in at that time.  *)
Caller(p) == loggedIn

Accepted(p) == cmd[p].key.serial = serial[cmd[p].key.account]

-----------------------------------------------------------------------------
(* The command starts, with the mode the configuration has then.           *)
Begin(p) ==
  /\ Goto(p, "start", "checking")
  /\ \E job \in {j \in {"search", "list", "verify"} : j = "search" <=> p \in Searcher} :
       Becomes(p, [Blank EXCEPT !.job = job, !.mode = mode, !.account = loggedIn])
  /\ UNCHANGED <<local, service, since>>

(* check_access_info.                                                      *)
Check(p) ==
  /\ Goto(p, "checking", "loading")
  /\ Becomes(p, [cmd[p] EXCEPT !.standing = standing[Caller(p)]])
  /\ UNCHANGED <<local, service, since>>

LoadKeys(p) ==
  /\ Goto(p, "loading", "fetching")
  /\ Becomes(p, [cmd[p] EXCEPT !.keys = stored])
  /\ UNCHANGED <<local, service, since>>

(* get_preproduction_access_infos or, for a live account, get_or_create_-  *)
(* production_access_infos.  The answer has a complete key of the caller   *)
(* in each slot, or none.                                                  *)
Answers(p) ==
  {[s \in CredentialSlot |->
      IF s \in filled THEN [account |-> Caller(p), slot |-> s, serial |-> serial[Caller(p)]]
                      ELSE NoKey] : filled \in SUBSET Granted(cmd[p].standing)}

Fetch(p) ==
  /\ pc[p] = "fetching"
  /\ \E answer \in Answers(p) :
       LET merged == Merged(cmd[p].keys, answer, NoKey)
       IN  IF cmd[p].job # "verify" /\ CredentialForRoute(merged, Route(p)) = NoKey
           THEN End(p, "fetching", "over")
           ELSE /\ Goto(p, "fetching", "saving")
                /\ Becomes(p, [cmd[p] EXCEPT !.keys = merged])
                /\ since' = [since EXCEPT ![p].empty = @ \/ answer[Route(p).slot] = NoKey]
  /\ UNCHANGED <<local, service>>

(* An error of a service or of the keyring, or the deadline.  Session shows *)
(* what becomes of a login whose token the control service refuses.        *)
Fails(p) ==
  /\ pc[p] \notin {"start"} \cup Ended
  /\ End(p, pc[p], "over")
  /\ UNCHANGED <<local, service>>

-----------------------------------------------------------------------------
(* save_api_credentials, and then the route that the standing allows.      *)

Reachable(p) == BusinessReachable(cmd[p].mode, cmd[p].standing)

Save(p) ==
  /\ pc[p] = "saving"
  /\ stored' = cmd[p].keys
  /\ LET key == CredentialForRoute(cmd[p].keys, Route(p))
     IN  \/ /\ cmd[p].job = "verify" /\ ~Reachable(p)
            /\ End(p, "saving", "over")
         \/ /\ cmd[p].job = "verify" /\ Reachable(p) /\ key = NoKey
            /\ End(p, "saving", "over")
         \/ /\ cmd[p].job = "verify" => Reachable(p) /\ key # NoKey
            /\ Goto(p, "saving", IF cmd[p].job = "search" THEN "calling" ELSE "reading")
            /\ Becomes(p, [cmd[p] EXCEPT !.keys = NoKeys, !.key = key])
            /\ UNCHANGED since
  /\ UNCHANGED <<mode, loggedIn, searches, service>>

(* load_search and load_offer of the search that the user names, and       *)
(* _routing_identifier, which takes no reference price.                    *)
Read(p) ==
  /\ pc[p] = "reading"
  /\ \E s \in searches :
       \/ /\ s.generation # Generation(Route(p))
          /\ End(p, "reading", "over")
       \/ /\ s.generation = Generation(Route(p)) /\ cmd[p].job = "list"
          /\ End(p, "reading", "over")
       \/ /\ s.generation = Generation(Route(p)) /\ cmd[p].job = "verify"
          /\ IF s.from.provider = "fare_compare"
             THEN End(p, "reading", "over")
             ELSE /\ Goto(p, "reading", "calling")
                  /\ Becomes(p, [cmd[p] EXCEPT !.offers = {s}])
                  /\ UNCHANGED since
  /\ UNCHANGED <<local, service>>

-----------------------------------------------------------------------------
(* The call of the business service.                                       *)

(* Results, which for a search may be no offers at all.                    *)
CallSucceeds(p) ==
  /\ pc[p] = "calling" /\ Accepted(p)
  /\ IF cmd[p].job = "search"
     THEN Goto(p, "calling", "storing") /\ UNCHANGED <<cmd, since>>
     ELSE End(p, "calling", "over")
  /\ UNCHANGED <<local, service>>

(* A mistake: the rejected key is tried again.                             *)
RetryUnchanged(p) ==
  /\ pc[p] = "calling" /\ ~Accepted(p)
  /\ IF cmd[p].job = "search" /\ cmd[p].attempt = 1
     THEN /\ Becomes(p, [cmd[p] EXCEPT !.attempt = 2])
          /\ UNCHANGED <<pc, since>>
     ELSE End(p, "calling", "rejected")
  /\ UNCHANGED <<local, service>>

(* HTTP 401 or status 900.  _retry_after_credential_refresh: synchronized  *)
(* anew, from the check on.                                                *)
CallRejected(p) ==
  /\ pc[p] = "calling" /\ ~Accepted(p)
  /\ IF cmd[p].job = "search" /\ cmd[p].attempt = 1
     THEN /\ Goto(p, "calling", "checking")
          /\ Becomes(p, [cmd[p] EXCEPT !.attempt = 2])
          /\ UNCHANGED since
     ELSE End(p, "calling", "rejected")
  /\ UNCHANGED <<local, service>>

(* A mistake: as often as the error comes.                                 *)
VerifyUntilDone(p) ==
  /\ cmd[p].job = "verify" /\ pc[p] = "calling"
  /\ cmd[p].attempt < 4
  /\ Becomes(p, [cmd[p] EXCEPT !.attempt = @ + 1])
  /\ UNCHANGED <<local, service, pc, since>>

(* _verify_with_retry: a transient error is answered by one more call.     *)
VerifyAgain(p) ==
  /\ cmd[p].job = "verify" /\ cmd[p].attempt = 1
  /\ pc[p] = "calling"
  /\ Becomes(p, [cmd[p] EXCEPT !.attempt = 2])
  /\ UNCHANGED <<local, service, pc, since>>

(* A mistake: the results kept under the route of the mode configured now. *)
StoreUnderCurrentMode(p) ==
  /\ pc[p] = "storing"
  /\ searches' = searches \cup
       {[generation |-> Generation(ResolveSearch(mode, cmd[p].standing)), from |-> Route(p)]}
  /\ End(p, "storing", "over")
  /\ UNCHANGED <<mode, loggedIn, stored, service>>

StoreSearch(p) ==
  /\ pc[p] = "storing"
  /\ searches' = searches \cup {[generation |-> Generation(Route(p)), from |-> Route(p)]}
  /\ End(p, "storing", "over")
  /\ UNCHANGED <<mode, loggedIn, stored, service>>

-----------------------------------------------------------------------------
(* The user and the services.                                              *)

Running(p) == pc[p] \notin {"start"} \cup Ended

Changed == changes < MaxChanges /\ changes' = changes + 1

(* `auth poll` completes a login.                                          *)
Login(a) ==
  /\ loggedIn # a
  /\ Changed
  /\ loggedIn' = a
  /\ since' = [p \in Process |-> [since[p] EXCEPT !.login = @ \/ Running(p)]]
  /\ UNCHANGED <<mode, stored, searches, standing, serial, pc, cmd>>

SwitchMode ==
  /\ Changed
  /\ mode' \in CustomerMode \ {mode}
  /\ UNCHANGED <<loggedIn, stored, searches, standing, serial, pc, cmd, since>>

(* An account is activated for ticketing, or its top-up takes effect.      *)
Promote(a) ==
  /\ Changed
  /\ \/ ~standing[a].live /\ standing' = [standing EXCEPT ![a].live = TRUE]
     \/ ~standing[a].topped /\ standing' = [standing EXCEPT ![a].topped = TRUE]
  /\ UNCHANGED <<local, serial, pc, cmd, since>>

Rotate(a) ==
  /\ Changed
  /\ serial' = [serial EXCEPT ![a] = @ + 1]
  /\ since' = [p \in Process |->
       [since[p] EXCEPT !.rotations =
          IF Running(p) /\ cmd[p].job = "search" /\ @ < 2 THEN @ + 1 ELSE @]]
  /\ UNCHANGED <<local, standing, pc, cmd>>

-----------------------------------------------------------------------------
Init ==
  /\ mode \in CustomerMode
  /\ loggedIn \in Account
  /\ stored = NoKeys
  /\ searches = {}
  /\ standing \in [Account -> {st \in Standing : st.topped => st.live}]
  /\ serial = [a \in Account |-> 0]
  /\ changes = 0
  /\ pc = [p \in Process |-> "start"]
  /\ cmd = [p \in Process |-> Blank]
  /\ since = [p \in Process |-> Nothing]

Step(p) ==
  \/ Begin(p)
  \/ Check(p)
  \/ LoadKeys(p)
  \/ Fetch(p)
  \/ Fails(p)
  \/ Save(p)
  \/ Read(p)
  \/ CallSucceeds(p)
  \/ CallRejected(p)
  \/ VerifyAgain(p)
  \/ StoreSearch(p)

Next ==
  \/ \E p \in Process : Step(p)
  \/ \E a \in Account : Login(a) \/ Promote(a) \/ Rotate(a)
  \/ SwitchMode

Spec == Init /\ [][Next]_vars

-----------------------------------------------------------------------------
TypeOK ==
  /\ mode \in CustomerMode
  /\ loggedIn \in Account
  /\ stored \in Keys
  /\ searches \subseteq Search
  /\ standing \in [Account -> Standing]
  /\ serial \in [Account -> Nat]
  /\ changes \in Nat
  /\ pc \in [Process -> Control]
  /\ cmd \in [Process -> Command]
  /\ since \in [Process -> Since]

(* Whatever other commands put into the record between the load and the    *)
(* save, a request carries a key of its route and of the account the       *)
(* command started with, and a transaction outside the sandbox is made for *)
(* an account that is live and topped up; unless the user logged in to     *)
(* another account meanwhile, or the control service had no such key.      *)
RequestKeyIsOwn ==
  \A p \in Process : pc[p] = "calling" =>
    /\ cmd[p].key # NoKey /\ cmd[p].key.slot = Route(p).slot
    /\ \/ since[p].login \/ since[p].empty
       \/ /\ cmd[p].key.account = cmd[p].account
          /\ cmd[p].job = "verify" /\ cmd[p].mode = "prod"
               => TicketingAvailable(standing[cmd[p].key.account])

(* A search ends with its key rejected only if keys were replaced twice    *)
(* while it ran: its second attempt does not suffer from what the first    *)
(* one, or another command, left in the record.                            *)
RejectedAfterTwoRotations ==
  [][ \A p \in Process :
        pc[p] = "calling" /\ cmd[p].job = "search" /\ pc'[p] = "rejected"
          => since[p].empty \/ since[p].rotations = 2 ]_vars

(* An offer is bound to the route it was found on and to nothing else: it  *)
(* is listed and verified on that route only, verified never when its      *)
(* price was a reference price, and neither a top-up nor another login     *)
(* makes it expire.                                                        *)
OfferBoundToItsRoute ==
  /\ \A p \in Process : \A s \in cmd[p].offers :
       /\ s.from.mode = Route(p).mode /\ s.from.slot = Route(p).slot
       /\ s.from.provider = "standard"
  /\ \A s \in searches, m \in CustomerMode, st \in Standing :
       LET r == ResolveSearch(m, st)
       IN  s.generation = Generation(r) <=> s.from.mode = r.mode /\ s.from.slot = r.slot

=============================================================================
