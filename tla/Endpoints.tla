----------------------------- MODULE Endpoints -----------------------------
(***************************************************************************)
(* Which service a command talks to, with which of the API keys, and what  *)
(* an offer found there is bound to: the pure part of endpoints.py and     *)
(* access.py.  A base URL follows from the mode and a search path from the *)
(* provider, so a route names neither.                                     *)
(***************************************************************************)

CustomerMode == {"prod", "sandbox"}

CredentialSlot == {"pre", "sandbox", "production"}

SearchProvider == {"fare_compare", "standard"}

(* What the control service says of an account: activation_status = 3, and *)
(* top_up_completed.                                                       *)
Standing == [live : BOOLEAN, topped : BOOLEAN]

SearchRoute ==
  [mode : CustomerMode, provider : SearchProvider, slot : CredentialSlot, bookable : BOOLEAN]

TicketingAvailable(standing) == standing.live /\ standing.topped

ResolveSearch(mode, standing) ==
  CASE mode = "sandbox" ->
         [mode |-> mode, provider |-> "standard", slot |-> "sandbox", bookable |-> TRUE]
    [] mode = "prod" /\ ~standing.live ->
         [mode |-> mode, provider |-> "fare_compare", slot |-> "pre", bookable |-> FALSE]
    [] OTHER ->
         [mode |-> mode, provider |-> "standard", slot |-> "production",
          bookable |-> TicketingAvailable(standing)]

(* resolve_business raises where this is FALSE.                            *)
BusinessReachable(mode, standing) == mode = "sandbox" \/ TicketingAvailable(standing)

(* The digest of a route that its offers and bookings are kept under.      *)
Generation(route) == [mode |-> route.mode, provider |-> route.provider, slot |-> route.slot]

-----------------------------------------------------------------------------
(* The keys of the keyring record api-credentials, [CredentialSlot -> key  *)
(* or NoKey], and what an answer of the control service makes of them.     *)

(* The slots an account is given keys for.                                 *)
Granted(standing) == {"sandbox", IF standing.live THEN "production" ELSE "pre"}

(* A mistake a change to the code could make, for the mutation runs: a key *)
(* at hand is preferred to the one in the answer.                          *)
MergedKeepingOld(existing, answer, NoKey) ==
  [s \in CredentialSlot |-> IF existing[s] # NoKey THEN existing[s] ELSE answer[s]]

(* The first complete key of the answer, or else the key at hand.          *)
Merged(existing, answer, NoKey) ==
  [s \in CredentialSlot |-> IF answer[s] # NoKey THEN answer[s] ELSE existing[s]]

CredentialForRoute(keys, route) == keys[route.slot]

=============================================================================
