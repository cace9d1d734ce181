-------------------------- MODULE AccessSync_proofs --------------------------
(***************************************************************************)
(* Proofs about AccessSync, for any commands and accounts and any number   *)
(* of changes around them: the types, that a request carries a key of its  *)
(* own route and account, that an offer is used on its own route only, and *)
(* that a search is rejected only after two replacements of keys.          *)
(***************************************************************************)
EXTENDS AccessSync, TLAPS

(* Keys are kept in their slots.                                           *)
InSlots(keys) == \A s \in CredentialSlot : keys[s] # NoKey => keys[s].slot = s

(* The key a command holds for its route: merged, or taken from the merge. *)
RouteKey(p) ==
  IF pc[p] = "saving" THEN CredentialForRoute(cmd[p].keys, Route(p)) ELSE cmd[p].key

(* What the route key of a command is, unless the answer had none.         *)
KeySound(p) ==
  /\ RouteKey(p) # NoKey => RouteKey(p).slot = Route(p).slot
  /\ ~since[p].empty =>
       /\ RouteKey(p) # NoKey
       /\ ~since[p].login => RouteKey(p).account = cmd[p].account
       /\ cmd[p].job = "search" =>
            \/ RouteKey(p).serial = serial[RouteKey(p).account]
            \/ since[p].rotations >= cmd[p].attempt

(* What a command knows of the account it works for.                       *)
CallerSound(p) ==
  /\ pc[p] = "start" => since[p] = Nothing
  /\ Running(p) /\ ~since[p].login =>
       /\ cmd[p].account = loggedIn
       /\ pc[p] # "checking" /\ TicketingAvailable(cmd[p].standing)
            => TicketingAvailable(standing[loggedIn])
  /\ Running(p) /\ cmd[p].job = "search" /\ ~since[p].empty
       => since[p].rotations >= cmd[p].attempt - 1

OfferSound(p) ==
  \A s \in cmd[p].offers :
    /\ pc[p] = "calling" /\ cmd[p].job = "verify"
    /\ s \in searches /\ s.from.provider = "standard"
    /\ s.generation = Generation(Route(p))

Sound(p) ==
  /\ InSlots(cmd[p].keys)
  /\ CallerSound(p)
  /\ OfferSound(p)
  /\ pc[p] \in {"saving", "reading", "calling"} => KeySound(p)
  /\ pc[p] = "saving" /\ cmd[p].job # "verify" => RouteKey(p) # NoKey
  /\ pc[p] \in {"reading", "calling"} =>
       cmd[p].key # NoKey /\ (cmd[p].job = "verify" => Reachable(p))

(* A stored search is kept under the generation of a route that exists.    *)
SearchSound(s) ==
  /\ s.generation = Generation(s.from)
  /\ \E m \in CustomerMode, st \in Standing : s.from = ResolveSearch(m, st)

AccessInv ==
  /\ TypeOK
  /\ InSlots(stored)
  /\ \A s \in searches : SearchSound(s)
  /\ \A p \in Process : Sound(p)

-----------------------------------------------------------------------------
(* Routes and keys.                                                        *)

(* Every mode and standing has a route.                                    *)
LEMMA ResolvedRoute ==
  ASSUME NEW m \in CustomerMode, NEW st \in Standing
  PROVE  ResolveSearch(m, st) \in SearchRoute
<1>1. TicketingAvailable(st) \in BOOLEAN
  BY DEF TicketingAvailable, Standing
<1>2. CASE m = "sandbox"
  BY <1>2 DEF ResolveSearch, SearchRoute, CustomerMode, SearchProvider, CredentialSlot
<1>3. CASE m = "prod" /\ ~st.live
  BY <1>3 DEF ResolveSearch, SearchRoute, CustomerMode, SearchProvider, CredentialSlot
<1>4. CASE m = "prod" /\ st.live
  BY <1>1, <1>4 DEF ResolveSearch, SearchRoute, CustomerMode, SearchProvider, CredentialSlot
<1> QED BY <1>2, <1>3, <1>4 DEF CustomerMode

(* The provider of a route follows from its mode and slot, so generations  *)
(* tell routes apart exactly by those two.                                 *)
LEMMA RoutesByModeAndSlot ==
  ASSUME NEW m1 \in CustomerMode, NEW st1 \in Standing,
         NEW m2 \in CustomerMode, NEW st2 \in Standing
  PROVE  LET r1 == ResolveSearch(m1, st1)
             r2 == ResolveSearch(m2, st2)
         IN  Generation(r1) = Generation(r2) <=> r1.mode = r2.mode /\ r1.slot = r2.slot
<1> DEFINE r1 == ResolveSearch(m1, st1)
           r2 == ResolveSearch(m2, st2)
<1>1. ASSUME NEW m \in CustomerMode, NEW st \in Standing
      PROVE  LET r == ResolveSearch(m, st)
             IN  r.provider = IF r.slot = "pre" THEN "fare_compare" ELSE "standard"
  <2>1. CASE m = "sandbox"
    BY <2>1 DEF ResolveSearch
  <2>2. CASE m = "prod" /\ ~st.live
    BY <2>2 DEF ResolveSearch
  <2>3. CASE m = "prod" /\ st.live
    BY <2>3 DEF ResolveSearch
  <2> QED BY <1>1, <2>1, <2>2, <2>3 DEF CustomerMode
<1>2. /\ r1.provider = IF r1.slot = "pre" THEN "fare_compare" ELSE "standard"
      /\ r2.provider = IF r2.slot = "pre" THEN "fare_compare" ELSE "standard"
  BY <1>1
<1> HIDE DEF r1, r2
<1> QED BY <1>2 DEF Generation, r1, r2

(* A merge keeps the keys in their slots.                                  *)
LEMMA MergedKeys ==
  ASSUME NEW old \in Keys, NEW answer \in Keys, InSlots(old), InSlots(answer)
  PROVE  Merged(old, answer, NoKey) \in Keys /\ InSlots(Merged(old, answer, NoKey))
BY DEF Merged, Keys, InSlots

(* An answer has keys of the caller, in their slots, or none.              *)
LEMMA AnswersAreKeys ==
  ASSUME TypeOK, NEW p \in Process, NEW answer \in Answers(p)
  PROVE  /\ answer \in Keys /\ InSlots(answer)
         /\ \A s \in CredentialSlot : answer[s] # NoKey =>
              answer[s] = [account |-> loggedIn, slot |-> s, serial |-> serial[loggedIn]]
<1>1. PICK filled \in SUBSET Granted(cmd[p].standing) :
        answer = [s \in CredentialSlot |->
          IF s \in filled THEN [account |-> loggedIn, slot |-> s, serial |-> serial[loggedIn]]
                          ELSE NoKey]
  BY DEF Answers, Caller
<1>2. \A s \in CredentialSlot :
        [account |-> loggedIn, slot |-> s, serial |-> serial[loggedIn]] \in Key
  BY DEF TypeOK, Key
<1> QED BY <1>1, <1>2 DEF Keys, InSlots

(* A command starts out with no keys.                                      *)
LEMMA BlankCommand == Blank \in Command /\ NoKeys \in Keys /\ InSlots(NoKeys)
BY DEF Blank, Command, NoKeys, Keys, InSlots, CustomerMode, Standing

-----------------------------------------------------------------------------
(* The commands that a step leaves alone stay sound.                       *)
LEMMA OthersSound ==
  ASSUME NEW q \in Process, Sound(q), pc'[q] = pc[q], cmd'[q] = cmd[q], since'[q] = since[q],
         UNCHANGED <<loggedIn, standing, serial>>, searches \subseteq searches'
  PROVE  Sound(q)'
BY DEF Sound, CallerSound, OfferSound, KeySound, RouteKey, Route, Reachable, Running, Ended

(* A step of a command keeps the invariant when it keeps its own part.     *)
LEMMA StepKeepsInv ==
  ASSUME AccessInv, NEW p \in Process,
         NEW to \in Control, pc' = [pc EXCEPT ![p] = to],
         NEW c \in Command, cmd' = [cmd EXCEPT ![p] = c],
         NEW s \in Since, since' = [since EXCEPT ![p] = s],
         UNCHANGED <<mode, loggedIn, standing, serial, changes>>,
         stored' \in Keys, InSlots(stored)',
         searches \subseteq searches', searches' \subseteq Search,
         \A x \in searches' \ searches : SearchSound(x),
         Sound(p)'
  PROVE  AccessInv'
<1>1. TypeOK'
  BY DEF AccessInv, TypeOK
<1>2. \A q \in Process \ {p} : Sound(q)'
  <2> TAKE q \in Process \ {p}
  <2>1. pc'[q] = pc[q] /\ cmd'[q] = cmd[q] /\ since'[q] = since[q]
    BY DEF AccessInv, TypeOK
  <2> QED BY <2>1, OthersSound DEF AccessInv
<1> QED BY <1>1, <1>2 DEF AccessInv, SearchSound

(* A command that ends holds nothing.                                      *)
LEMMA EndKeepsInv ==
  ASSUME AccessInv, NEW p \in Process, NEW from, NEW how \in Ended, End(p, from, how),
         UNCHANGED <<mode, loggedIn, standing, serial, changes>>,
         stored' \in Keys, InSlots(stored)',
         searches \subseteq searches', searches' \subseteq Search,
         \A x \in searches' \ searches : SearchSound(x)
  PROVE  AccessInv'
<1>1. Nothing \in Since /\ how \in Control
  BY DEF Nothing, Since, Ended, Control
<1>2. pc'[p] = how /\ cmd'[p] = Blank
  BY DEF End, Goto, AccessInv, TypeOK
<1>3. Sound(p)'
  BY <1>2, BlankCommand DEF Sound, CallerSound, OfferSound, Running, Ended, Blank
<1> QED BY <1>1, <1>3, BlankCommand, StepKeepsInv DEF End, Goto

-----------------------------------------------------------------------------
(* The steps of a command that goes on.                                    *)
(* A command begins for the account that is logged in.                     *)
LEMMA BeginKeepsInv ==
  ASSUME AccessInv, NEW p \in Process, Begin(p)
  PROVE  AccessInv'
<1>1. PICK job \in {"search", "list", "verify"} :
        cmd' = [cmd EXCEPT ![p] = [Blank EXCEPT !.job = job, !.mode = mode, !.account = loggedIn]]
  BY DEF Begin, Becomes
<1> DEFINE c == [Blank EXCEPT !.job = job, !.mode = mode, !.account = loggedIn]
<1>2. c \in Command
  BY BlankCommand DEF AccessInv, TypeOK, Command
<1>3. /\ pc'[p] = "checking" /\ cmd'[p] = c /\ since'[p] = Nothing
      /\ since[p] = Nothing /\ since' = [since EXCEPT ![p] = Nothing]
  BY <1>1 DEF Begin, Goto, AccessInv, Sound, CallerSound, TypeOK
<1>4. c.keys = NoKeys /\ c.offers = {} /\ c.account = loggedIn /\ c.attempt = 1
  BY DEF Blank
<1> HIDE DEF c
<1>5. Sound(p)'
  BY <1>3, <1>4, BlankCommand DEF Begin, local, Sound, CallerSound, OfferSound, Nothing, Running, Ended
<1>6. Nothing \in Since
  BY DEF Nothing, Since
<1> QED BY <1>1, <1>2, <1>3, <1>5, <1>6, StepKeepsInv
    DEF Begin, Goto, local, service, AccessInv, TypeOK, Control, c

(* The standing it reads is the one that this account has.                 *)
LEMMA CheckKeepsInv ==
  ASSUME AccessInv, NEW p \in Process, Check(p)
  PROVE  AccessInv'
<1> DEFINE c == [cmd[p] EXCEPT !.standing = standing[loggedIn]]
<1>1. c \in Command /\ since[p] \in Since
  BY DEF AccessInv, TypeOK, Command
<1>2. /\ pc[p] = "checking" /\ pc'[p] = "loading" /\ cmd'[p] = c /\ since'[p] = since[p]
      /\ since' = [since EXCEPT ![p] = since[p]]
  BY DEF Check, Goto, Becomes, Caller, AccessInv, TypeOK
<1>3. /\ c.keys = cmd[p].keys /\ c.offers = cmd[p].offers /\ c.account = cmd[p].account
      /\ c.attempt = cmd[p].attempt /\ c.job = cmd[p].job /\ c.standing = standing[loggedIn]
  BY DEF AccessInv, TypeOK, Command
<1> HIDE DEF c
<1>4. Sound(p)'
  BY <1>2, <1>3 DEF Check, local, service, AccessInv, Sound, CallerSound, OfferSound, Running, Ended
<1> QED BY <1>1, <1>2, <1>4, StepKeepsInv
    DEF Check, Goto, Becomes, Caller, local, service, AccessInv, TypeOK, Control, c

(* The record it loads has its keys in their slots, whosever they are.     *)
LEMMA LoadKeysKeepsInv ==
  ASSUME AccessInv, NEW p \in Process, LoadKeys(p)
  PROVE  AccessInv'
<1> DEFINE c == [cmd[p] EXCEPT !.keys = stored]
<1>1. c \in Command /\ since[p] \in Since
  BY DEF AccessInv, TypeOK, Command
<1>2. /\ pc[p] = "loading" /\ pc'[p] = "fetching" /\ cmd'[p] = c /\ since'[p] = since[p]
      /\ since' = [since EXCEPT ![p] = since[p]]
  BY DEF LoadKeys, Goto, Becomes, AccessInv, TypeOK
<1>3. /\ c.keys = stored /\ c.offers = cmd[p].offers /\ c.account = cmd[p].account
      /\ c.attempt = cmd[p].attempt /\ c.job = cmd[p].job /\ c.standing = cmd[p].standing
  BY DEF AccessInv, TypeOK, Command
<1> HIDE DEF c
<1>4. Sound(p)'
  BY <1>2, <1>3 DEF LoadKeys, local, service, AccessInv, Sound, CallerSound, OfferSound, Running, Ended
<1> QED BY <1>1, <1>2, <1>4, StepKeepsInv
    DEF LoadKeys, Goto, Becomes, local, service, AccessInv, TypeOK, Control, c

(* The route key of a fetch is the answer's, of the account logged in.     *)
LEMMA FetchKeepsInv ==
  ASSUME AccessInv, NEW p \in Process, Fetch(p)
  PROVE  AccessInv'
<1>1. PICK answer \in Answers(p) :
        LET merged == Merged(cmd[p].keys, answer, NoKey)
        IN  IF cmd[p].job # "verify" /\ CredentialForRoute(merged, Route(p)) = NoKey
            THEN End(p, "fetching", "over")
            ELSE /\ Goto(p, "fetching", "saving")
                 /\ Becomes(p, [cmd[p] EXCEPT !.keys = merged])
                 /\ since' = [since EXCEPT ![p].empty = @ \/ answer[Route(p).slot] = NoKey]
  BY DEF Fetch
<1> DEFINE merged == Merged(cmd[p].keys, answer, NoKey)
           slot == Route(p).slot
           c == [cmd[p] EXCEPT !.keys = merged]
           s == [since[p] EXCEPT !.empty = @ \/ answer[slot] = NoKey]
<1>2. UNCHANGED <<mode, loggedIn, stored, searches, standing, serial, changes>>
  BY DEF Fetch, local, service
<1>3. cmd[p] \in Command /\ cmd[p].keys \in Keys /\ InSlots(cmd[p].keys) /\ since[p] \in Since
  BY DEF AccessInv, TypeOK, Command, Sound
<1>4. merged \in Keys /\ InSlots(merged)
  BY <1>3, AnswersAreKeys, MergedKeys DEF AccessInv
<1>5. slot \in CredentialSlot
  BY <1>3, ResolvedRoute DEF Route, Command, SearchRoute
<1>6. CASE cmd[p].job # "verify" /\ CredentialForRoute(merged, Route(p)) = NoKey
  BY <1>1, <1>2, <1>6, EndKeepsInv DEF AccessInv, TypeOK, Ended
<1>7. CASE ~(cmd[p].job # "verify" /\ CredentialForRoute(merged, Route(p)) = NoKey)
  <2>1. c \in Command /\ s \in Since
    BY <1>3, <1>4 DEF Command, Since
  <2>2. /\ c.keys = merged /\ c.offers = cmd[p].offers /\ c.account = cmd[p].account
        /\ c.attempt = cmd[p].attempt /\ c.job = cmd[p].job /\ c.standing = cmd[p].standing
        /\ c.mode = cmd[p].mode
        /\ s.login = since[p].login /\ s.rotations = since[p].rotations
        /\ s.empty = (since[p].empty \/ answer[slot] = NoKey)
    BY <1>3 DEF Command, Since
  <2>3. /\ pc[p] = "fetching" /\ pc' = [pc EXCEPT ![p] = "saving"] /\ pc'[p] = "saving"
        /\ cmd' = [cmd EXCEPT ![p] = c] /\ cmd'[p] = c
        /\ since' = [since EXCEPT ![p] = s] /\ since'[p] = s
    BY <1>1, <1>7 DEF Goto, Becomes, AccessInv, TypeOK
  <2>4. merged[slot] = IF answer[slot] # NoKey THEN answer[slot] ELSE cmd[p].keys[slot]
    BY <1>5 DEF Merged
  <2>5. answer[slot] # NoKey =>
          /\ merged[slot].account = loggedIn /\ merged[slot].serial = serial[loggedIn]
    <3> HIDE DEF c, s, merged, slot
    <3>1. answer[slot] # NoKey =>
            answer[slot] = [account |-> loggedIn, slot |-> slot, serial |-> serial[loggedIn]]
      BY <1>5, AnswersAreKeys DEF AccessInv
    <3> QED BY <2>4, <3>1
  <2> HIDE DEF c, s, merged
  <2>6. Route(p)' = Route(p) /\ RouteKey(p)' = merged[slot]
    BY <2>2, <2>3 DEF Route, RouteKey, CredentialForRoute
  <2> HIDE DEF slot
  <2>7. CallerSound(p) /\ OfferSound(p)
    BY DEF AccessInv, Sound
  <2>8. CallerSound(p)'
    BY <1>2, <2>2, <2>3, <2>7 DEF CallerSound, Running, Ended
  <2>9. OfferSound(p)'
    BY <2>2, <2>3, <2>7 DEF OfferSound
  <2>10. KeySound(p)'
    <3>1. merged[slot] # NoKey => merged[slot].slot = Route(p).slot
      BY <1>4, <1>5 DEF InSlots, slot
    <3>2. ~s.empty => answer[slot] # NoKey
      BY <2>2
    <3>3. ~s.empty =>
            /\ merged[slot] # NoKey
            /\ ~s.login => merged[slot].account = cmd[p].account
            /\ merged[slot].serial = serial[merged[slot].account]
      BY <2>2, <2>3, <2>4, <2>5, <2>7, <3>2 DEF CallerSound, Running, Ended
    <3> QED BY <1>2, <2>2, <2>3, <2>6, <3>1, <3>3 DEF KeySound
  <2>11. cmd'[p].job # "verify" => RouteKey(p)' # NoKey
    BY <1>7, <2>2, <2>3, <2>6 DEF CredentialForRoute, slot, merged
  <2>12. Sound(p)'
    BY <1>4, <2>2, <2>3, <2>8, <2>9, <2>10, <2>11 DEF Sound
  <2> QED BY <1>2, <2>1, <2>3, <2>12, StepKeepsInv DEF AccessInv, TypeOK, Control
<1> QED BY <1>6, <1>7

(* The command keeps the route key and the rest of what it knows.          *)
LEMMA SaveKeepsInv ==
  ASSUME AccessInv, NEW p \in Process, Save(p)
  PROVE  AccessInv'
<1> DEFINE key == CredentialForRoute(cmd[p].keys, Route(p))
<1>1. /\ pc[p] = "saving" /\ stored' = cmd[p].keys
      /\ UNCHANGED <<mode, loggedIn, searches, standing, serial, changes>>
  BY DEF Save, service
<1>2. cmd[p] \in Command /\ since[p] \in Since /\ stored' \in Keys /\ InSlots(stored)'
  BY <1>1 DEF AccessInv, TypeOK, Command, Sound, InSlots
<1>3. CASE End(p, "saving", "over")
  BY <1>1, <1>2, <1>3, EndKeepsInv DEF AccessInv, TypeOK, Ended
<1>4. CASE /\ cmd[p].job = "verify" => Reachable(p) /\ key # NoKey
           /\ Goto(p, "saving", IF cmd[p].job = "search" THEN "calling" ELSE "reading")
           /\ Becomes(p, [cmd[p] EXCEPT !.keys = NoKeys, !.key = key])
           /\ UNCHANGED since
  <2> DEFINE c == [cmd[p] EXCEPT !.keys = NoKeys, !.key = key]
             to == IF cmd[p].job = "search" THEN "calling" ELSE "reading"
  <2>1. KeySound(p) /\ CallerSound(p) /\ OfferSound(p) /\ RouteKey(p) = key /\ key # NoKey
    BY <1>1, <1>4 DEF AccessInv, Sound, RouteKey
  <2>2. key \in Key \cup {NoKey}
    <3>1. Route(p).slot \in CredentialSlot
      BY <1>2, ResolvedRoute DEF Route, Command, SearchRoute
    <3> QED BY <1>2, <3>1 DEF CredentialForRoute, Command, Keys
  <2> HIDE DEF key
  <2>3. c \in Command /\ to \in Control
    BY <1>2, <2>2, BlankCommand DEF Command, Control
  <2>4. /\ c.keys = NoKeys /\ c.key = key /\ c.offers = cmd[p].offers
        /\ c.account = cmd[p].account /\ c.attempt = cmd[p].attempt /\ c.job = cmd[p].job
        /\ c.standing = cmd[p].standing /\ c.mode = cmd[p].mode
    BY <1>2 DEF Command
  <2>5. /\ pc' = [pc EXCEPT ![p] = to] /\ pc'[p] \in {"reading", "calling"}
        /\ cmd' = [cmd EXCEPT ![p] = c] /\ cmd'[p] = c
        /\ since' = [since EXCEPT ![p] = since[p]] /\ since'[p] = since[p]
    BY <1>4 DEF Goto, Becomes, AccessInv, TypeOK
  <2> HIDE DEF c, to
  <2>6. Route(p)' = Route(p) /\ RouteKey(p)' = key /\ Reachable(p)' = Reachable(p)
    BY <2>4, <2>5 DEF Route, RouteKey, Reachable
  <2>7. KeySound(p)'
    BY <1>1, <2>1, <2>4, <2>5, <2>6 DEF KeySound
  <2>8. CallerSound(p)'
    BY <1>1, <2>1, <2>4, <2>5 DEF CallerSound, Running, Ended
  <2>9. OfferSound(p)'
    BY <1>1, <2>1, <2>4, <2>5 DEF OfferSound
  <2>10. Sound(p)'
    BY <1>4, <2>1, <2>4, <2>5, <2>6, <2>7, <2>8, <2>9, BlankCommand DEF Sound
  <2> QED BY <1>1, <1>2, <2>3, <2>5, <2>10, StepKeepsInv DEF AccessInv, TypeOK
<1> QED BY <1>3, <1>4 DEF Save

(* An offer is taken on the route that its search was made on.             *)
LEMMA ReadKeepsInv ==
  ASSUME AccessInv, NEW p \in Process, Read(p)
  PROVE  AccessInv'
<1>1. pc[p] = "reading" /\ UNCHANGED <<mode, loggedIn, stored, searches, standing, serial, changes>>
  BY DEF Read, local, service
<1>2. PICK s \in searches :
        \/ End(p, "reading", "over")
        \/ /\ s.generation = Generation(Route(p)) /\ cmd[p].job = "verify"
           /\ s.from.provider # "fare_compare"
           /\ Goto(p, "reading", "calling")
           /\ Becomes(p, [cmd[p] EXCEPT !.offers = {s}])
           /\ UNCHANGED since
  BY DEF Read
<1>3. CASE End(p, "reading", "over")
  BY <1>1, <1>3, EndKeepsInv DEF AccessInv, TypeOK, Ended
<1>4. CASE ~End(p, "reading", "over")
  <2> DEFINE c == [cmd[p] EXCEPT !.offers = {s}]
  <2>1. cmd[p] \in Command /\ since[p] \in Since /\ s \in Search
    BY DEF AccessInv, TypeOK
  <2>2. s.from.provider = "standard"
    BY <1>2, <1>4, <2>1 DEF Search, SearchRoute, SearchProvider
  <2>3. c \in Command
    BY <2>1 DEF Command
  <2>4. /\ c.keys = cmd[p].keys /\ c.key = cmd[p].key /\ c.offers = {s}
        /\ c.account = cmd[p].account /\ c.attempt = cmd[p].attempt /\ c.job = cmd[p].job
        /\ c.standing = cmd[p].standing /\ c.mode = cmd[p].mode
    BY <2>1 DEF Command
  <2>5. /\ pc' = [pc EXCEPT ![p] = "calling"] /\ pc'[p] = "calling"
        /\ cmd' = [cmd EXCEPT ![p] = c] /\ cmd'[p] = c
        /\ since' = [since EXCEPT ![p] = since[p]] /\ since'[p] = since[p]
    BY <1>2, <1>4 DEF Goto, Becomes, AccessInv, TypeOK
  <2> HIDE DEF c
  <2>6. Route(p)' = Route(p) /\ RouteKey(p)' = RouteKey(p) /\ Reachable(p)' = Reachable(p)
    BY <1>1, <2>4, <2>5 DEF Route, RouteKey, Reachable
  <2>7. Sound(p)
    BY DEF AccessInv
  <2>8. KeySound(p)'
    BY <1>1, <2>4, <2>5, <2>6, <2>7 DEF Sound, KeySound
  <2>9. CallerSound(p)'
    BY <1>1, <2>4, <2>5, <2>7 DEF Sound, CallerSound, Running, Ended
  <2>10. OfferSound(p)'
    BY <1>1, <1>2, <1>4, <2>2, <2>4, <2>5, <2>6 DEF OfferSound
  <2>11. Sound(p)'
    BY <1>1, <2>4, <2>5, <2>6, <2>7, <2>8, <2>9, <2>10 DEF Sound
  <2> QED BY <1>1, <2>1, <2>3, <2>5, <2>11, StepKeepsInv DEF AccessInv, TypeOK, Control
<1> QED BY <1>3, <1>4

-----------------------------------------------------------------------------
(* The call of the business service.                                       *)

(* A search goes on to store what it found, every other command ends.      *)
LEMMA CallSucceedsKeepsInv ==
  ASSUME AccessInv, NEW p \in Process, CallSucceeds(p)
  PROVE  AccessInv'
<1>1. /\ pc[p] = "calling"
      /\ UNCHANGED <<mode, loggedIn, stored, searches, standing, serial, changes>>
  BY DEF CallSucceeds, local, service
<1>2. CASE End(p, "calling", "over")
  BY <1>1, <1>2, EndKeepsInv DEF AccessInv, TypeOK, Ended
<1>3. CASE cmd[p].job = "search" /\ Goto(p, "calling", "storing") /\ UNCHANGED <<cmd, since>>
  <2>1. /\ cmd[p] \in Command /\ since[p] \in Since /\ Sound(p)
        /\ pc' = [pc EXCEPT ![p] = "storing"] /\ pc'[p] = "storing"
        /\ cmd' = [cmd EXCEPT ![p] = cmd[p]] /\ since' = [since EXCEPT ![p] = since[p]]
    BY <1>3 DEF Goto, AccessInv, TypeOK
  <2>2. Sound(p)'
    BY <1>1, <1>3, <2>1 DEF Sound, CallerSound, OfferSound, Running, Ended
  <2> QED BY <1>1, <2>1, <2>2, StepKeepsInv DEF AccessInv, TypeOK, Control
<1> QED BY <1>2, <1>3 DEF CallSucceeds

(* The key was replaced since the search was given it, so that a further   *)
(* attempt is one replacement behind.                                      *)
LEMMA CallRejectedKeepsInv ==
  ASSUME AccessInv, NEW p \in Process, CallRejected(p)
  PROVE  AccessInv'
<1>1. /\ pc[p] = "calling" /\ ~Accepted(p)
      /\ UNCHANGED <<mode, loggedIn, stored, searches, standing, serial, changes>>
  BY DEF CallRejected, local, service
<1>2. CASE End(p, "calling", "rejected")
  BY <1>1, <1>2, EndKeepsInv DEF AccessInv, TypeOK, Ended
<1>3. CASE ~End(p, "calling", "rejected")
  <2> DEFINE c == [cmd[p] EXCEPT !.attempt = 2]
  <2>1. /\ cmd[p].job = "search" /\ cmd[p].attempt = 1
        /\ Goto(p, "calling", "checking") /\ Becomes(p, c) /\ UNCHANGED since
    BY <1>3 DEF CallRejected
  <2>2. cmd[p] \in Command /\ since[p] \in Since /\ Sound(p) /\ c \in Command
    BY DEF AccessInv, TypeOK, Command
  <2>3. /\ c.keys = cmd[p].keys /\ c.offers = cmd[p].offers /\ c.account = cmd[p].account
        /\ c.job = "search" /\ c.attempt = 2
    BY <2>1, <2>2 DEF Command
  <2>4. /\ pc' = [pc EXCEPT ![p] = "checking"] /\ pc'[p] = "checking"
        /\ cmd' = [cmd EXCEPT ![p] = c] /\ cmd'[p] = c
        /\ since' = [since EXCEPT ![p] = since[p]] /\ since'[p] = since[p]
    BY <2>1 DEF Goto, Becomes, AccessInv, TypeOK
  <2> HIDE DEF c
  <2>5. ~since[p].empty => since[p].rotations >= 1
    BY <1>1, <2>1, <2>2 DEF Sound, KeySound, RouteKey, Accepted
  <2>6. c.offers = {}
    BY <2>1, <2>2, <2>3 DEF Sound, OfferSound
  <2>7. CallerSound(p)'
    BY <1>1, <2>2, <2>3, <2>4, <2>5 DEF Sound, CallerSound, Running, Ended
  <2>8. Sound(p)'
    BY <2>2, <2>3, <2>4, <2>6, <2>7 DEF Sound, OfferSound, InSlots
  <2> QED BY <1>1, <2>2, <2>4, <2>8, StepKeepsInv DEF AccessInv, TypeOK, Control
<1> QED BY <1>2, <1>3

(* The one further call is made with the same key for the same offer.      *)
LEMMA VerifyAgainKeepsInv ==
  ASSUME AccessInv, NEW p \in Process, VerifyAgain(p)
  PROVE  AccessInv'
<1> DEFINE c == [cmd[p] EXCEPT !.attempt = 2]
<1>1. /\ pc[p] = "calling" /\ cmd[p].job = "verify" /\ Becomes(p, c) /\ UNCHANGED <<pc, since>>
      /\ UNCHANGED <<mode, loggedIn, stored, searches, standing, serial, changes>>
  BY DEF VerifyAgain, local, service
<1>2. cmd[p] \in Command /\ since[p] \in Since /\ Sound(p) /\ c \in Command
  BY DEF AccessInv, TypeOK, Command
<1>3. /\ c.keys = cmd[p].keys /\ c.key = cmd[p].key /\ c.offers = cmd[p].offers
      /\ c.account = cmd[p].account /\ c.job = "verify"
      /\ c.standing = cmd[p].standing /\ c.mode = cmd[p].mode
  BY <1>1, <1>2 DEF Command
<1>4. /\ pc' = [pc EXCEPT ![p] = "calling"] /\ pc'[p] = "calling"
      /\ cmd' = [cmd EXCEPT ![p] = c] /\ cmd'[p] = c
      /\ since' = [since EXCEPT ![p] = since[p]] /\ since'[p] = since[p]
  BY <1>1 DEF Becomes, AccessInv, TypeOK
<1> HIDE DEF c
<1>5. Route(p)' = Route(p) /\ RouteKey(p)' = RouteKey(p) /\ Reachable(p)' = Reachable(p)
  BY <1>1, <1>3, <1>4 DEF Route, RouteKey, Reachable
<1>6. KeySound(p)'
  BY <1>1, <1>2, <1>3, <1>4, <1>5 DEF Sound, KeySound
<1>7. CallerSound(p)'
  BY <1>1, <1>2, <1>3, <1>4 DEF Sound, CallerSound, Running, Ended
<1>8. OfferSound(p)'
  BY <1>1, <1>2, <1>3, <1>4, <1>5 DEF Sound, OfferSound
<1>9. Sound(p)'
  BY <1>1, <1>2, <1>3, <1>4, <1>5, <1>6, <1>7, <1>8 DEF Sound
<1> QED BY <1>1, <1>2, <1>4, <1>9, StepKeepsInv DEF AccessInv, TypeOK, Control

(* A search is kept under the generation of the route that it was made on. *)
LEMMA StoreSearchKeepsInv ==
  ASSUME AccessInv, NEW p \in Process, StoreSearch(p)
  PROVE  AccessInv'
<1> DEFINE x == [generation |-> Generation(Route(p)), from |-> Route(p)]
<1>1. /\ searches' = searches \cup {x} /\ End(p, "storing", "over")
      /\ UNCHANGED <<mode, loggedIn, stored, standing, serial, changes>>
  BY DEF StoreSearch, service
<1>2. cmd[p].mode \in CustomerMode /\ cmd[p].standing \in Standing
  BY DEF AccessInv, TypeOK, Command
<1>3. Route(p) \in SearchRoute
  BY <1>2, ResolvedRoute DEF Route
<1>4. x \in Search /\ SearchSound(x)
  BY <1>2, <1>3 DEF Search, SearchSound, Route
<1> HIDE DEF x
<1> QED BY <1>1, <1>4, EndKeepsInv DEF AccessInv, TypeOK, Ended, InSlots

-----------------------------------------------------------------------------
(* The user and the services.                                              *)

(* The commands that run are noted to have run across the login.           *)
LEMMA LoginKeepsInv ==
  ASSUME AccessInv, NEW a \in Account, Login(a)
  PROVE  AccessInv'
<1>1. /\ loggedIn' = a /\ changes' = changes + 1
      /\ since' = [p \in Process |-> [since[p] EXCEPT !.login = @ \/ Running(p)]]
      /\ UNCHANGED <<mode, stored, searches, standing, serial, pc, cmd>>
  BY DEF Login, Changed
<1>2. TypeOK'
  <2>1. ASSUME NEW p \in Process
        PROVE  [since[p] EXCEPT !.login = @ \/ Running(p)] \in Since
    <3>1. since[p] \in Since
      BY <2>1 DEF AccessInv, TypeOK
    <3>2. \A b \in BOOLEAN : [since[p] EXCEPT !.login = b] \in Since
      BY <3>1 DEF Since
    <3>3. (since[p].login \/ Running(p)) \in BOOLEAN
      OBVIOUS
    <3> QED BY <3>2, <3>3, Zenon
  <2>2. since' \in [Process -> Since]
    BY <1>1, <2>1
  <2>3. /\ loggedIn' \in Account /\ changes' \in Nat
        /\ UNCHANGED <<mode, stored, searches, standing, serial, pc, cmd>>
    BY <1>1 DEF AccessInv, TypeOK
  <2> QED BY <2>2, <2>3 DEF AccessInv, TypeOK
<1>3. ASSUME NEW p \in Process
      PROVE  Sound(p)'
  <2>1. since[p] \in Since /\ Sound(p)
    BY <1>3 DEF AccessInv, TypeOK
  <2>2. /\ since'[p].login = (since[p].login \/ Running(p))
        /\ since'[p].empty = since[p].empty /\ since'[p].rotations = since[p].rotations
        /\ ~Running(p) => since'[p] = since[p]
    BY <1>1, <1>3, <2>1 DEF Since
  <2>3. Route(p)' = Route(p) /\ RouteKey(p)' = RouteKey(p) /\ Reachable(p)' = Reachable(p)
        /\ Running(p)' = Running(p)
    BY <1>1 DEF Route, RouteKey, Reachable, Running
  <2>4. KeySound(p) => KeySound(p)'
    BY <1>1, <2>2, <2>3 DEF KeySound
  <2>5. CallerSound(p)'
    BY <1>1, <2>1, <2>2, <2>3 DEF Sound, CallerSound, Running
  <2>6. OfferSound(p)'
    BY <1>1, <2>1, <2>3 DEF Sound, OfferSound
  <2> QED BY <1>1, <2>1, <2>3, <2>4, <2>5, <2>6 DEF Sound
<1> QED BY <1>1, <1>2, <1>3 DEF AccessInv, InSlots, SearchSound

(* A command goes by the mode it began with.                               *)
LEMMA SwitchKeepsInv ==
  ASSUME AccessInv, SwitchMode
  PROVE  AccessInv'
<1>1. /\ mode' \in CustomerMode /\ changes' = changes + 1
      /\ UNCHANGED <<loggedIn, stored, searches, standing, serial, pc, cmd, since>>
  BY DEF SwitchMode, Changed
<1>2. TypeOK'
  BY <1>1 DEF AccessInv, TypeOK
<1>3. \A p \in Process : Sound(p)'
  BY <1>1, OthersSound DEF AccessInv
<1> QED BY <1>1, <1>2, <1>3 DEF AccessInv, InSlots, SearchSound

(* An account that was live and topped up remains so.                      *)
LEMMA PromoteKeepsInv ==
  ASSUME AccessInv, NEW a \in Account, Promote(a)
  PROVE  AccessInv'
<1>1. /\ changes' = changes + 1
      /\ \/ standing' = [standing EXCEPT ![a].live = TRUE]
         \/ standing' = [standing EXCEPT ![a].topped = TRUE]
      /\ UNCHANGED <<mode, loggedIn, stored, searches, serial, pc, cmd, since>>
  BY DEF Promote, Changed, local
<1>2. standing' \in [Account -> Standing]
  BY <1>1 DEF AccessInv, TypeOK, Standing
<1>3. \A b \in Account : TicketingAvailable(standing[b]) => TicketingAvailable(standing'[b])
  BY <1>1 DEF AccessInv, TypeOK, Standing, TicketingAvailable
<1>4. TypeOK'
  BY <1>1, <1>2 DEF AccessInv, TypeOK
<1>5. ASSUME NEW p \in Process
      PROVE  Sound(p)'
  <2>1. Sound(p) /\ loggedIn \in Account
    BY <1>5 DEF AccessInv, TypeOK
  <2>2. Route(p)' = Route(p) /\ RouteKey(p)' = RouteKey(p) /\ Reachable(p)' = Reachable(p)
    BY <1>1 DEF Route, RouteKey, Reachable
  <2>3. KeySound(p) => KeySound(p)'
    BY <1>1, <2>2 DEF KeySound
  <2>4. CallerSound(p)'
    BY <1>1, <1>3, <2>1 DEF Sound, CallerSound, Running
  <2>5. OfferSound(p)'
    BY <1>1, <2>1, <2>2 DEF Sound, OfferSound
  <2> QED BY <1>1, <2>1, <2>2, <2>3, <2>4, <2>5 DEF Sound
<1> QED BY <1>1, <1>4, <1>5 DEF AccessInv, InSlots, SearchSound

(* A search whose key is replaced is noted to have seen one replacement    *)
(* more than its attempts before this one account for.                     *)
LEMMA RotateKeepsInv ==
  ASSUME AccessInv, NEW a \in Account, Rotate(a)
  PROVE  AccessInv'
<1>1. /\ changes' = changes + 1 /\ serial' = [serial EXCEPT ![a] = @ + 1]
      /\ since' = [p \in Process |->
           [since[p] EXCEPT !.rotations =
              IF Running(p) /\ cmd[p].job = "search" /\ @ < 2 THEN @ + 1 ELSE @]]
      /\ UNCHANGED <<mode, loggedIn, stored, searches, standing, pc, cmd>>
  BY DEF Rotate, Changed, local
<1>2. \A p \in Process : since[p] \in Since /\ cmd[p] \in Command /\ Sound(p)
  BY DEF AccessInv, TypeOK
<1>3. ASSUME NEW p \in Process
      PROVE  LET counted == Running(p) /\ cmd[p].job = "search" /\ since[p].rotations < 2
             IN  /\ since'[p].rotations = IF counted THEN since[p].rotations + 1
                                                     ELSE since[p].rotations
                 /\ since'[p].login = since[p].login /\ since'[p].empty = since[p].empty
                 /\ since'[p] \in Since /\ (~counted => since'[p] = since[p])
  BY <1>1, <1>2, <1>3 DEF Since
<1>4. TypeOK'
  <2>1. serial' \in [Account -> Nat] /\ changes' \in Nat
    BY <1>1 DEF AccessInv, TypeOK
  <2>2. since' \in [Process -> Since]
    BY <1>1, <1>3
  <2> QED BY <1>1, <2>1, <2>2 DEF AccessInv, TypeOK
<1>5. ASSUME NEW p \in Process
      PROVE  Sound(p)'
  <2>1. since[p] \in Since /\ cmd[p].attempt \in 1..2 /\ since[p].rotations \in 0..2 /\ Sound(p)
    BY <1>2, <1>5 DEF Command, Since
  <2>2. /\ since'[p].login = since[p].login /\ since'[p].empty = since[p].empty
        /\ since'[p].rotations >= since[p].rotations
        /\ pc[p] = "start" => since'[p] = since[p]
    BY <1>3, <1>5, <2>1 DEF Running
  <2>3. /\ Route(p)' = Route(p) /\ RouteKey(p)' = RouteKey(p) /\ Reachable(p)' = Reachable(p)
        /\ Running(p)' = Running(p)
    BY <1>1 DEF Route, RouteKey, Reachable, Running
  <2>4. Running(p) /\ cmd[p].job = "search" /\ ~since[p].empty
          => since'[p].rotations >= cmd[p].attempt
    <3> SUFFICES ASSUME Running(p), cmd[p].job = "search", ~since[p].empty
                 PROVE  since'[p].rotations >= cmd[p].attempt
      OBVIOUS
    <3>1. since[p].rotations >= cmd[p].attempt - 1
      BY <2>1 DEF Sound, CallerSound
    <3>2. since'[p].rotations = IF since[p].rotations < 2 THEN since[p].rotations + 1
                                                         ELSE since[p].rotations
      BY <1>3, <1>5
    <3> QED BY <2>1, <3>1, <3>2
  <2>5. CallerSound(p)'
    <3>1. CallerSound(p)
      BY <2>1 DEF Sound
    <3>2. /\ pc[p] = "start" => since'[p] = Nothing
          /\ Running(p) /\ ~since'[p].login =>
               /\ cmd[p].account = loggedIn
               /\ pc[p] # "checking" /\ TicketingAvailable(cmd[p].standing)
                    => TicketingAvailable(standing[loggedIn])
      BY <2>2, <3>1 DEF CallerSound
    <3>3. Running(p) /\ cmd[p].job = "search" /\ ~since'[p].empty
            => since'[p].rotations >= cmd[p].attempt - 1
      <4>1. since'[p].rotations \in 0..2
        BY <1>3, <1>5 DEF Since
      <4> QED BY <2>1, <2>2, <2>4, <4>1
    <3>4. UNCHANGED <<loggedIn, standing, pc, cmd>>
      BY <1>1
    <3> QED BY <2>3, <3>2, <3>3, <3>4 DEF CallerSound
  <2>6. KeySound(p) /\ Running(p) => KeySound(p)'
    BY <1>1, <2>1, <2>2, <2>3, <2>4 DEF KeySound
  <2>7. OfferSound(p)'
    BY <1>1, <2>1, <2>3 DEF Sound, OfferSound
  <2> QED BY <1>1, <2>1, <2>3, <2>5, <2>6, <2>7 DEF Sound, Running, Ended
<1> QED BY <1>1, <1>4, <1>5 DEF AccessInv, InSlots, SearchSound

-----------------------------------------------------------------------------
(* Nothing is stored and no command has begun.                             *)
LEMMA InitIsSound == Init => AccessInv
<1> SUFFICES ASSUME Init PROVE AccessInv
  OBVIOUS
<1>1. Nothing \in Since /\ stored \in Keys
  BY BlankCommand DEF Init, Nothing, Since
<1>2. TypeOK
  BY <1>1, BlankCommand DEF Init, TypeOK, Standing, Control
<1>3. \A p \in Process : pc[p] = "start" /\ cmd[p] = Blank /\ since[p] = Nothing
  BY DEF Init
<1>4. \A p \in Process : Sound(p)
  BY <1>3, BlankCommand DEF Sound, CallerSound, OfferSound, Running, Blank
<1> QED BY <1>2, <1>4, BlankCommand DEF Init, AccessInv

(* The invariant is inductive.                                             *)
LEMMA NextKeepsInv == AccessInv /\ [Next]_vars => AccessInv'
<1> SUFFICES ASSUME AccessInv, [Next]_vars PROVE AccessInv'
  OBVIOUS
<1>1. ASSUME NEW p \in Process, Step(p)
      PROVE  AccessInv'
  <2>1. CASE Fails(p)
    BY <1>1, <2>1, EndKeepsInv DEF Fails, local, service, AccessInv, TypeOK, Ended
  <2> QED BY <1>1, <2>1, BeginKeepsInv, CheckKeepsInv, LoadKeysKeepsInv, FetchKeepsInv,
             SaveKeepsInv, ReadKeepsInv, CallSucceedsKeepsInv, CallRejectedKeepsInv,
             VerifyAgainKeepsInv, StoreSearchKeepsInv DEF Step
<1>2. CASE UNCHANGED vars
  <2>1. TypeOK'
    BY <1>2 DEF AccessInv, TypeOK, vars
  <2>2. \A p \in Process : Sound(p)'
    BY <1>2, OthersSound DEF AccessInv, vars
  <2> QED BY <1>2, <2>1, <2>2 DEF AccessInv, InSlots, SearchSound, vars
<1> QED BY <1>1, <1>2, LoginKeepsInv, SwitchKeepsInv, PromoteKeepsInv, RotateKeepsInv DEF Next

(* The keys of the record and of every command are in their slots, and a   *)
(* command knows whom it works for until a login or an empty answer.       *)
THEOREM AccessInvHolds == Spec => []AccessInv
BY InitIsSound, NextKeepsInv, PTL DEF Spec

(* The store, the record and what each command has read keep their types.  *)
THEOREM AccessTypeOK == Spec => []TypeOK
<1>1. AccessInv => TypeOK
  BY DEF AccessInv
<1> QED BY <1>1, AccessInvHolds, PTL

(* Whatever the commands beside it put into the record, a request carries  *)
(* a key of its route and of the account the command started with.         *)
THEOREM RequestKeysOwn == Spec => []RequestKeyIsOwn
<1>1. AccessInv => RequestKeyIsOwn
  <2> SUFFICES ASSUME AccessInv, NEW p \in Process, pc[p] = "calling"
               PROVE  /\ cmd[p].key # NoKey /\ cmd[p].key.slot = Route(p).slot
                      /\ \/ since[p].login \/ since[p].empty
                         \/ /\ cmd[p].key.account = cmd[p].account
                            /\ cmd[p].job = "verify" /\ cmd[p].mode = "prod"
                                 => TicketingAvailable(standing[cmd[p].key.account])
    BY DEF RequestKeyIsOwn
  <2>1. Sound(p) /\ cmd[p].mode \in CustomerMode
    BY DEF AccessInv, TypeOK, Command
  <2>2. RouteKey(p) = cmd[p].key /\ KeySound(p) /\ CallerSound(p)
    BY <2>1 DEF RouteKey, Sound
  <2>3. cmd[p].key # NoKey /\ (cmd[p].job = "verify" => Reachable(p))
    BY <2>1 DEF Sound
  <2>4. cmd[p].key.slot = Route(p).slot
    BY <2>2, <2>3 DEF KeySound
  <2>5. ~since[p].login /\ ~since[p].empty => cmd[p].key.account = cmd[p].account
    BY <2>2 DEF KeySound
  <2>6. ~since[p].login /\ cmd[p].job = "verify" /\ cmd[p].mode = "prod"
          => TicketingAvailable(standing[cmd[p].account])
    BY <2>2, <2>3 DEF CallerSound, Running, Ended, Reachable, BusinessReachable
  <2> QED BY <2>3, <2>4, <2>5, <2>6
<1> QED BY <1>1, AccessInvHolds, PTL

(* An offer is used on the route it was found on only, and neither a       *)
(* top-up nor another login makes it expire.                               *)
THEOREM OffersBound == Spec => []OfferBoundToItsRoute
<1>1. ASSUME AccessInv, NEW s \in searches, NEW m \in CustomerMode, NEW st \in Standing
      PROVE  LET r == ResolveSearch(m, st)
             IN  s.generation = Generation(r) <=> s.from.mode = r.mode /\ s.from.slot = r.slot
  <2>1. SearchSound(s)
    BY <1>1 DEF AccessInv
  <2>2. PICK m1 \in CustomerMode, st1 \in Standing : s.from = ResolveSearch(m1, st1)
    BY <2>1 DEF SearchSound
  <2> QED BY <1>1, <2>1, <2>2, RoutesByModeAndSlot DEF SearchSound
<1>2. ASSUME AccessInv, NEW p \in Process, NEW s \in cmd[p].offers
      PROVE  /\ s.from.mode = Route(p).mode /\ s.from.slot = Route(p).slot
             /\ s.from.provider = "standard"
  <2>1. s \in searches /\ s.from.provider = "standard" /\ s.generation = Generation(Route(p))
    BY <1>2 DEF AccessInv, Sound, OfferSound
  <2>2. cmd[p].mode \in CustomerMode /\ cmd[p].standing \in Standing
    BY <1>2 DEF AccessInv, TypeOK, Command
  <2> QED BY <1>1, <1>2, <2>1, <2>2 DEF Route
<1>3. AccessInv => OfferBoundToItsRoute
  BY <1>1, <1>2 DEF OfferBoundToItsRoute
<1> QED BY <1>3, AccessInvHolds, PTL

(* A search that ends rejected saw its key replaced twice while it ran.    *)
THEOREM RejectedLate == Spec => RejectedAfterTwoRotations
<1> DEFINE Late ==
      \A p \in Process :
        pc[p] = "calling" /\ cmd[p].job = "search" /\ pc'[p] = "rejected"
          => since[p].empty \/ since[p].rotations = 2
<1>1. AccessInv /\ [Next]_vars => [Late]_vars
  <2> SUFFICES ASSUME AccessInv, Next, NEW p \in Process, pc[p] = "calling",
                      cmd[p].job = "search", pc'[p] = "rejected", ~since[p].empty
               PROVE  since[p].rotations = 2
    OBVIOUS
  <2>1. cmd[p].attempt \in 1..2 /\ since[p].rotations \in 0..2
    BY DEF AccessInv, TypeOK, Command, Since
  <2>2. \/ cmd[p].key.serial = serial[cmd[p].key.account]
        \/ since[p].rotations >= cmd[p].attempt
    BY DEF AccessInv, Sound, KeySound, RouteKey
  <2>3. CallRejected(p)
    <3>1. PICK q \in Process : Step(q)
      BY DEF Next, Login, Promote, Rotate, SwitchMode, local, service
    <3>2. q = p
      BY <3>1 DEF Step, Begin, Check, LoadKeys, Fetch, Fails, Save, Read, CallSucceeds,
                  CallRejected, VerifyAgain, StoreSearch, End, Goto, AccessInv, TypeOK
    <3>3. ~(CallSucceeds(p) \/ VerifyAgain(p) \/ Fails(p))
      BY DEF CallSucceeds, VerifyAgain, Fails, End, Goto, AccessInv, TypeOK
    <3> QED BY <3>1, <3>2, <3>3 DEF Step, Begin, Check, LoadKeys, Fetch, Save, Read,
                                    StoreSearch, End, Goto
  <2>4. ~Accepted(p) /\ cmd[p].attempt # 1
    BY <2>3 DEF CallRejected, Goto, AccessInv, TypeOK
  <2> QED BY <2>1, <2>2, <2>4 DEF Accepted
<1>2. Spec => [][Late]_vars
  BY <1>1, AccessInvHolds, PTL DEF Spec
<1> QED BY <1>2 DEF RejectedAfterTwoRotations

=============================================================================
