---------------------------- MODULE SearchStore ----------------------------
(***************************************************************************)
(* SearchStore: searches.json under a file lock, which keeps the latest    *)
(* searches, and the keyring records that hold the routing identifiers of  *)
(* their offers.  A user is given search and offer identifiers by one      *)
(* command and names them in a later one, so a search must stay usable     *)
(* until enough newer ones push it out.                                    *)
(*                                                                         *)
(* As in BookingStore, the lock admits one `save` at a time, whose writes  *)
(* are steps of their own: each may fail, and the process may die between  *)
(* any two.  The secret of a search is saved before the file names it, and *)
(* the secrets of evicted searches are cleared after.  A search_id and its *)
(* secret_ref are fresh tokens made together; one number stands for both.  *)
(* The readers (load_search, load_offer, replay_request) change nothing:   *)
(* what they find is Hydratable, Loadable and the last search.       *)
(***************************************************************************)
EXTENDS Naturals, Sequences

CONSTANTS
  Routing,            (* what an upstream may offer                         *)
  Generation,         (* route generations                                  *)
  HistoryLimit,       (* history_limit: 20 in the code                      *)
  MaxAge,             (* max_age of load_offer: six hours in the code       *)
  NoTxn,              (* nobody holds the file lock                         *)
  MaxTime,            (* bound: the clock stops here                        *)
  MaxSearches         (* bound: searches saved                              *)

ASSUME SearchAssumption ==
  /\ HistoryLimit \in Nat \ {0} /\ MaxAge \in Nat
  /\ MaxTime \in Nat /\ MaxSearches \in Nat

VARIABLES
  now,          (* the wall clock                                           *)
  searches,     (* searches.json, oldest first                              *)
  keyring,      (* search-secrets records of the OS keyring                 *)
  issued,       (* identifiers handed out so far                            *)
  txn,          (* the save in progress                                     *)
  saved,        (* history: every search that entered searches.json         *)
  misreported,  (* history: those of them whose save raised                 *)
  faulted       (* history: a crash or a keyring failure has happened       *)

history == <<saved, misreported>>
vars == <<now, searches, keyring, issued, txn, saved, misreported, faulted>>

(* All offers of one search have the same price_status: an offer of the    *)
(* booking route is current and comes with a routing identifier, an offer  *)
(* of the fare comparison is a reference and has none.                     *)
PersistedSearch ==
  [ id : Nat, generation : Generation, status : {"reference", "current"},
    offers : SUBSET Routing, created : Nat ]

SearchSecrets == [id : Nat, generation : Generation, offers : SUBSET Routing]

Transaction ==
  [stage : {"save", "write", "clear", "undo"}, search : PersistedSearch, evicted : SUBSET Nat]

ASSUME SearchTransactionAssumption == NoTxn \notin Transaction

-----------------------------------------------------------------------------
Elements(h) == {h[i] : i \in 1..Len(h)}

(* searches[-history_limit:]                                               *)
Newest(h) ==
  IF Len(h) > HistoryLimit THEN SubSeq(h, Len(h) - HistoryLimit + 1, Len(h)) ELSE h

Identified(s) == IF s.status = "current" THEN s.offers ELSE {}

(* A mistake a change to the code could make, for the mutation runs: a     *)
(* secret that is not bound to its route.                                  *)
SecretUnbound(s) == [id |-> s.id, offers |-> Identified(s)]

SecretOf(s) == [id |-> s.id, generation |-> s.generation, offers |-> Identified(s)]

(* _hydrate, on the record load_search_secrets finds.                       *)
Hydratable(s) ==
  \E r \in keyring :
    /\ r.id = s.id
    /\ r.generation = s.generation
    /\ r.offers = {o \in s.offers : s.status = "current"}

(* load_offer finds an offer for a route: it passes over the searches of   *)
(* other generations and over those that are too old.                      *)
Loadable(id, offer, generation) ==
  \E s \in Elements(searches) :
    /\ s.id = id
    /\ s.generation = generation
    /\ now - s.created <= MaxAge
    /\ offer \in s.offers
    /\ Hydratable(s)

At(stage) == txn # NoTxn /\ txn.stage = stage

Release == txn' = NoTxn

-----------------------------------------------------------------------------
(* save, up to its first write.                                            *)
Save ==
  /\ txn = NoTxn
  /\ issued < MaxSearches /\ issued' = issued + 1
  /\ \E g \in Generation, status \in {"reference", "current"}, offers \in SUBSET Routing :
       txn' = [ stage |-> "save", evicted |-> {},
                search |-> [id |-> issued + 1, generation |-> g, status |-> status,
                            offers |-> offers, created |-> now] ]
  /\ UNCHANGED <<now, searches, keyring, history, faulted>>

SaveSecret ==
  /\ At("save")
  /\ keyring' = keyring \cup {SecretOf(txn.search)}
  /\ txn' = [txn EXCEPT !.stage = "write"]
  /\ UNCHANGED <<now, searches, issued, history, faulted>>

(* The save or its read-back fails; the clear that follows is best effort. *)
SaveSecretFails ==
  /\ At("save")
  /\ keyring' \in {keyring, keyring \cup {SecretOf(txn.search)}}
  /\ Release /\ faulted' = TRUE
  /\ UNCHANGED <<now, searches, issued, history>>

(* Mistakes: the oldest searches kept, and the secrets of the kept ones    *)
(* cleared in place of those of the evicted ones.                          *)
OldestKept(h) == SubSeq(h, 1, IF Len(h) > HistoryLimit THEN HistoryLimit ELSE Len(h))

EvictedKept(old, new) == {s.id : s \in Elements(old) \cap Elements(new)}

Evicted(old, new) == {s.id : s \in Elements(old)} \ {s.id : s \in Elements(new)}

Bounded(h) == Newest(h)

Replace ==
  /\ searches' = Bounded(Append(searches, txn.search))
  /\ saved' = Append(saved, txn.search)

AtomicWrite ==
  /\ At("write")
  /\ Replace
  /\ LET evicted == Evicted(searches, searches')
     IN  IF evicted = {} THEN Release
         ELSE txn' = [txn EXCEPT !.stage = "clear", !.evicted = evicted]
  /\ UNCHANGED <<now, keyring, issued, misreported, faulted>>

(* A mistake: no exception handler around the write.                       *)
WriteAbandoned == Release

(* The exception handler of the write.                                     *)
UndoWrite == txn' = [txn EXCEPT !.stage = "undo"]

AtomicWriteFails ==
  /\ At("write")
  /\ UndoWrite
  /\ UNCHANGED <<now, searches, keyring, issued, history, faulted>>

(* os.replace took effect and the directory could not be synced: the       *)
(* handler clears the secret of a search the file now names.               *)
DirectorySyncFailure ==
  /\ At("write")
  /\ Replace /\ UndoWrite
  /\ misreported' = misreported \cup {txn.search.id}
  /\ faulted' = TRUE
  /\ UNCHANGED <<now, keyring, issued>>

(* _clear_secret_best_effort, for one secret after the other.              *)
ClearEvicted ==
  /\ At("clear")
  /\ \E id \in txn.evicted :
       /\ \/ /\ keyring' = {r \in keyring : r.id # id}
             /\ UNCHANGED faulted
          \/ UNCHANGED keyring /\ faulted' = TRUE
       /\ IF txn.evicted = {id} THEN Release
          ELSE txn' = [txn EXCEPT !.evicted = @ \ {id}]
  /\ UNCHANGED <<now, searches, issued, history>>

ClearSaved ==
  /\ At("undo")
  /\ \/ keyring' = {r \in keyring : r.id # txn.search.id} /\ UNCHANGED faulted
     \/ UNCHANGED keyring /\ faulted' = TRUE
  /\ Release
  /\ UNCHANGED <<now, searches, issued, history>>

Crash ==
  /\ txn # NoTxn
  /\ Release /\ faulted' = TRUE
  /\ UNCHANGED <<now, searches, keyring, issued, history>>

Tick ==
  /\ now < MaxTime
  /\ now' = now + 1
  /\ UNCHANGED <<searches, keyring, issued, txn, history, faulted>>

-----------------------------------------------------------------------------
Init ==
  /\ now = 0
  /\ searches = <<>>
  /\ keyring = {}
  /\ issued = 0
  /\ txn = NoTxn
  /\ saved = <<>>
  /\ misreported = {}
  /\ faulted = FALSE

Next ==
  \/ Save
  \/ SaveSecret
  \/ SaveSecretFails
  \/ AtomicWrite
  \/ AtomicWriteFails
  \/ DirectorySyncFailure
  \/ ClearEvicted
  \/ ClearSaved
  \/ Crash
  \/ Tick

Spec == Init /\ [][Next]_vars

-----------------------------------------------------------------------------
TypeOK ==
  /\ now \in Nat
  /\ searches \in Seq(PersistedSearch)
  /\ keyring \subseteq SearchSecrets
  /\ issued \in Nat
  /\ txn \in Transaction \cup {NoTxn}
  /\ saved \in Seq(PersistedSearch)
  /\ misreported \subseteq Nat
  /\ faulted \in BOOLEAN

(* The identifiers a search gave out stay usable: each of the latest       *)
(* HistoryLimit searches is in the file and hydrates, and unless it is too *)
(* old load_offer finds its offers for their route.  (A save that raised   *)
(* gave out none.)                                                         *)
LatestSearchesUsable ==
  \A i \in 1..Len(saved) :
    LET s == saved[i]
    IN  Len(saved) - i < HistoryLimit /\ s.id \notin misreported =>
        /\ s \in Elements(searches)
        /\ Hydratable(s)
        /\ now - s.created <= MaxAge =>
             \A o \in s.offers : Loadable(s.id, o, s.generation)

(* The file holds nothing but the latest searches, in their order; the     *)
(* last one is what a search without arguments repeats.                    *)
HistoryIsLatest == searches = Newest(saved)

(* Unless a process died or the keyring failed, no secret outlives its     *)
(* search: between saves the keyring holds those of the file, no others.   *)
NoStraySearchSecret ==
  ~faulted /\ txn = NoTxn =>
    {r.id : r \in keyring} = {s.id : s \in Elements(searches)}

=============================================================================
