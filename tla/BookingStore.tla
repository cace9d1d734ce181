---------------------------- MODULE BookingStore ----------------------------
(***************************************************************************)
(* BookingStore: contexts.json under a file lock, and the keyring records  *)
(* that hold the session and the product codes of the bookings that are    *)
(* still open.                                                             *)
(*                                                                         *)
(* Any number of CLI processes call the store.  The file lock admits one   *)
(* operation at a time, so what the processes share is one transaction in  *)
(* progress, `txn`: the operation has read the file, passed its guards and *)
(* computed the record it will write; what is left are the writes, each of *)
(* which may fail, and between any two of which the process may die (the   *)
(* operating system then drops the lock).  The secret of a new revision is *)
(* saved before the file names it, and the secret it replaces is cleared   *)
(* after, so that the file never names a record the keyring lacks.         *)
(*                                                                         *)
(* A call that carries the generation of another route, or that fails a    *)
(* guard, raises before any write and changes nothing: it is a stuttering  *)
(* step.  The payment and ticketing updates of an order are in             *)
(* PaymentService, which needs no keyring record.                          *)
(***************************************************************************)
EXTENDS BookingRecords

CONSTANTS
  Booking,            (* booking_id                                         *)
  NoContext,          (* no such booking in contexts.json                   *)
  NoSecret,           (* the transaction writes no keyring record           *)
  NoTxn,              (* nobody holds the file lock                         *)
  Life,               (* expires_at - creation: two hours in the code       *)
  MaxTime,            (* bound: the clock stops here                        *)
  MaxRevision,        (* bound: revisions handed out                        *)
  DirectorySyncFails  (* may os.fsync of the directory fail after the       *)
                      (* replacement took effect?                           *)

ASSUME StoreAssumption ==
  /\ Life \in Nat \ {0} /\ MaxTime \in Nat /\ MaxRevision \in Nat
  /\ DirectorySyncFails \in BOOLEAN
  /\ NoContext \notin BookingContext

VARIABLES
  now,       (* the wall clock all processes read                           *)
  file,      (* contexts.json: [Booking -> BookingContext or NoContext]     *)
  keyring,   (* booking-secrets records of the OS keyring                   *)
  issued,    (* revisions handed out so far; a revision is a fresh token    *)
  txn,       (* the transaction of the holder of contexts.lock              *)
  faulted    (* history: a crash or a keyring failure has happened          *)

vars == <<now, file, keyring, issued, txn, faulted>>

NoRevision == 0

BookingSecrets ==
  [booking : Booking, revision : Nat, generation : Generation, products : SUBSET Option]

Transaction ==
  [ stage   : {"save", "write", "clear", "undo"},
    booking : Booking,
    context : BookingContext,              \* the record to write
    secret  : BookingSecrets \cup {NoSecret}, \* the record to save before
    retired : Nat ]                        \* the revision to clear after

ASSUME TransactionAssumption ==
  NoSecret \notin BookingSecrets /\ NoTxn \notin Transaction

-----------------------------------------------------------------------------
Exists(b) == file[b] # NoContext

(* hydrate_booking_context succeeds on the record and its keyring secret.   *)
Hydratable(b, c) ==
  \E s \in keyring :
    s.booking = b /\ s.revision = c.revision /\ Hydrates(c, s.generation, s.products)

(* _active_context and _active_context_with_secret.                         *)
ActiveContext(b) ==
  /\ Exists(b)
  /\ now < file[b].expiresAt
  /\ Hydratable(b, file[b])

SecretOf(b, c) ==
  [booking |-> b, revision |-> c.revision, generation |-> c.generation, products |-> c.options]

(* updated_at is a second reading of the clock, not before the first.       *)
Stamp(t) == t \in now..MaxTime /\ now' = t

FreshRevision == issued < MaxRevision /\ issued' = issued + 1

(* The operation writes the file, then clears `retired`, if any.            *)
WriteThenClear(b, c, retired) ==
  /\ txn = NoTxn
  /\ txn' = [stage |-> "write", booking |-> b, context |-> c, secret |-> NoSecret, retired |-> retired]
  /\ UNCHANGED <<file, keyring, issued, faulted>>

(* The operation saves a secret, writes the file and clears `retired`.      *)
SaveThenWrite(b, c, retired) ==
  /\ txn = NoTxn
  /\ FreshRevision
  /\ txn' = [stage |-> "save", booking |-> b, context |-> c, secret |-> SecretOf(b, c), retired |-> retired]
  /\ UNCHANGED <<file, keyring, faulted>>

-----------------------------------------------------------------------------
(* The operations, up to their first write.                                *)

CreateFromVerified(b) ==
  /\ ~Exists(b)
  /\ \E g \in Generation, inc \in BOOLEAN, sup \in SUBSET AncillaryKind, t \in now..MaxTime :
       /\ Stamp(t)
       /\ SaveThenWrite(b, VerifiedContext(g, issued + 1, inc, sup, t, now + Life), NoRevision)

(* A mistake: a price confirmed whatever has become of the order attempt.  *)
ConfirmPriceAnytime(b) ==
  /\ ActiveContext(b)
  /\ \E t \in now..MaxTime :
       Stamp(t) /\ WriteThenClear(b, PriceConfirmed(file[b], t), NoRevision)

ConfirmPrice(b) ==
  /\ ActiveContext(b) /\ Ready(file[b])
  /\ \E t \in now..MaxTime :
       Stamp(t) /\ WriteThenClear(b, PriceConfirmed(file[b], t), NoRevision)

ReplaceOptions(b) ==
  /\ ActiveContext(b) /\ Ready(file[b])
  /\ \E kind \in AncillaryKind, t \in now..MaxTime :
     \E listed \in SUBSET OfKind(kind, Option) :
       /\ listed # {}
       /\ Stamp(t)
       /\ SaveThenWrite(b, OptionsReplaced(file[b], kind, listed, issued + 1, t), file[b].revision)

CloseAncillary(b) ==
  /\ ActiveContext(b) /\ Ready(file[b])
  /\ \E kind \in AncillaryKind, t \in now..MaxTime :
       /\ Stamp(t)
       /\ SaveThenWrite(b, AncillaryClosed(file[b], kind, issued + 1, t), file[b].revision)

Select(b) ==
  /\ ActiveContext(b) /\ Ready(file[b])
  /\ \E sel \in AncillarySelection, t \in now..MaxTime :
       /\ CurrentSelection(file[b], sel)
       /\ Stamp(t)
       /\ WriteThenClear(b, Selected(file[b], sel, t), NoRevision)

Remove(b) ==
  /\ ActiveContext(b) /\ Ready(file[b])
  /\ \E kind \in AncillaryKind, tr \in Traveler, seg \in Segment, t \in now..MaxTime :
       /\ Stamp(t)
       /\ WriteThenClear(b, SelectionRemoved(file[b], kind, tr, seg, t), NoRevision)

ExpireContext(b) ==
  /\ ActiveContext(b)
  /\ \E t \in now..MaxTime :
       Stamp(t) /\ WriteThenClear(b, ContextExpired(file[b], t), file[b].revision)

BeginOrder(b) ==
  /\ ActiveContext(b) /\ Ready(file[b]) /\ PriceSettled(file[b])
  /\ \E t \in now..MaxTime :
       Stamp(t) /\ WriteThenClear(b, OrderBegun(file[b], t), NoRevision)

(* Neither the generation nor the expiry is looked at; the record must     *)
(* still hydrate.                                                          *)
ResetOrderAttempt(b) ==
  /\ Exists(b) /\ Hydratable(b, file[b]) /\ Creating(file[b])
  /\ \E t \in now..MaxTime :
       Stamp(t) /\ WriteThenClear(b, AttemptReset(file[b], t), NoRevision)

(* _finish_order reads no secret: it works on an expired context too.      *)
FinishOrder(b) ==
  /\ Exists(b) /\ Creating(file[b])
  /\ \E t \in now..MaxTime, o \in Order \cup {NoOrder} :
       LET attempt == IF o = NoOrder THEN "unknown" ELSE "created"
       IN  Stamp(t) /\ WriteThenClear(b, OrderFinished(file[b], attempt, o, t), file[b].revision)

-----------------------------------------------------------------------------
(* The writes.                                                             *)

At(stage) == txn # NoTxn /\ txn.stage = stage

Matches(s, b, revision) == s.booking = b /\ s.revision = revision

Cleared(b, revision) == {s \in keyring : ~Matches(s, b, revision)}

Release == txn' = NoTxn

(* Mistakes: the retired secret cleared before the file is written, and no *)
(* exception handler around the write.                                     *)
SaveSecretEagerly ==
  /\ At("save")
  /\ keyring' = Cleared(txn.booking, txn.retired) \cup {txn.secret}
  /\ txn' = [txn EXCEPT !.stage = "write"]
  /\ UNCHANGED <<now, file, issued, faulted>>

WriteAbandoned == Release /\ UNCHANGED <<now, keyring, issued>>

SaveSecret ==
  /\ At("save")
  /\ keyring' = keyring \cup {txn.secret}
  /\ txn' = [txn EXCEPT !.stage = "write"]
  /\ UNCHANGED <<now, file, issued, faulted>>

(* The save or its read-back fails; the clear that follows is best effort. *)
SaveSecretFails ==
  /\ At("save")
  /\ keyring' \in {keyring, keyring \cup {txn.secret}}
  /\ Release /\ faulted' = TRUE
  /\ UNCHANGED <<now, file, issued>>

Written == [file EXCEPT ![txn.booking] = txn.context]

Replace == file' = Written

AtomicWrite ==
  /\ At("write")
  /\ Replace
  /\ IF txn.retired = NoRevision THEN Release ELSE txn' = [txn EXCEPT !.stage = "clear"]
  /\ UNCHANGED <<now, keyring, issued, faulted>>

(* The exception handler of the write clears the new secret, if any.       *)
UndoWrite ==
  /\ IF txn.secret = NoSecret THEN Release ELSE txn' = [txn EXCEPT !.stage = "undo"]
  /\ UNCHANGED <<now, keyring, issued>>

(* If os.replace took effect and the directory could not be synced, the    *)
(* caller sees the same exception as when nothing was written.             *)
AtomicWriteFails ==
  /\ At("write")
  /\ \E replaced \in BOOLEAN :
       /\ replaced => DirectorySyncFails
       /\ file' = IF replaced THEN Written ELSE file
       /\ faulted' = (faulted \/ replaced)
  /\ UndoWrite

ClearRetired ==
  /\ At("clear")
  /\ keyring' = Cleared(txn.booking, txn.retired)
  /\ Release
  /\ UNCHANGED <<now, file, issued, faulted>>

ClearSaved ==
  /\ At("undo")
  /\ keyring' = Cleared(txn.booking, txn.secret.revision)
  /\ Release
  /\ UNCHANGED <<now, file, issued, faulted>>

(* _clear_secret_best_effort suppresses the failure.                       *)
ClearFails ==
  /\ At("clear") \/ At("undo")
  /\ Release /\ faulted' = TRUE
  /\ UNCHANGED <<now, file, keyring, issued>>

Crash ==
  /\ txn # NoTxn
  /\ Release /\ faulted' = TRUE
  /\ UNCHANGED <<now, file, keyring, issued>>

Tick ==
  /\ now < MaxTime
  /\ now' = now + 1
  /\ UNCHANGED <<file, keyring, issued, txn, faulted>>

-----------------------------------------------------------------------------
Init ==
  /\ now = 0
  /\ file = [b \in Booking |-> NoContext]
  /\ keyring = {}
  /\ issued = 0
  /\ txn = NoTxn
  /\ faulted = FALSE

Operation(b) ==
  \/ CreateFromVerified(b)
  \/ ConfirmPrice(b)
  \/ ReplaceOptions(b)
  \/ CloseAncillary(b)
  \/ Select(b)
  \/ Remove(b)
  \/ ExpireContext(b)
  \/ BeginOrder(b)
  \/ ResetOrderAttempt(b)
  \/ FinishOrder(b)

Write ==
  \/ SaveSecret
  \/ SaveSecretFails
  \/ AtomicWrite
  \/ AtomicWriteFails
  \/ ClearRetired
  \/ ClearSaved
  \/ ClearFails

Next == (\E b \in Booking : Operation(b)) \/ Write \/ Crash \/ Tick

Spec == Init /\ [][Next]_vars

-----------------------------------------------------------------------------
TypeOK ==
  /\ now \in Nat
  /\ file \in [Booking -> BookingContext \cup {NoContext}]
  /\ keyring \subseteq BookingSecrets
  /\ issued \in Nat
  /\ txn \in Transaction \cup {NoTxn}
  /\ faulted \in BOOLEAN

(* A booking that is still open can always be loaded: whatever failed and  *)
(* wherever a process died, the keyring holds the secret of the revision   *)
(* that contexts.json names, with exactly the options it lists.            *)
SecretsBound ==
  \A b \in Booking : Exists(b) /\ ~IsTerminal(file[b]) => Hydratable(b, file[b])

(* The selections an order would be made of are sound.                     *)
SelectionsSound == \A b \in Booking : Exists(b) => SoundSelections(file[b])

(* An outcome of an order attempt, known or unknown, can be read back      *)
(* without the keyring.                                                    *)
FinishedRestorable ==
  \A b \in Booking : Exists(b) /\ Finished(file[b]) => Restorable(file[b])

(* An ancillary change whose commit raised changed nothing: the file still *)
(* names the previous revision, and the booking, if open, still loads.     *)
FailedCommitKeepsPrevious ==
  At("undo") /\ txn.retired # NoRevision =>
    /\ file[txn.booking].revision = txn.retired
    /\ ~IsTerminal(file[txn.booking]) => Hydratable(txn.booking, file[txn.booking])

(* Unless a process died or the keyring failed, no secret outlives its     *)
(* use: between operations the keyring holds only the current revisions of *)
(* bookings whose order attempt is not over.                               *)
NoStraySecret ==
  ~faulted /\ txn = NoTxn =>
    \A s \in keyring :
      /\ Exists(s.booking)
      /\ s.revision = file[s.booking].revision
      /\ ~Finished(file[s.booking])

(* The life of an order attempt: begun when ready; reset, finished or left *)
(* when begun; never reopened when over, and its order never replaced; and *)
(* while it is under way nothing the order is made of changes: options,    *)
(* selections and price stay until the attempt is over or expires.  A      *)
(* record that is terminal, also one that only its own stamp made so (the  *)
(* clock is read once for the guard and once for updated_at), is changed   *)
(* by nothing but the outcome of the attempt it is in.                     *)
AttemptMove ==
  {<<"ready", "creating">>, <<"creating", "ready">>, <<"creating", "created">>,
   <<"creating", "unknown">>}

Frozen(c, d) ==
  \/ Finished(d) \/ d.expiresAt <= d.updatedAt
  \/ /\ d.options = c.options /\ d.selections = c.selections
     /\ d.confirmed = c.confirmed /\ d.revision = c.revision

AttemptSteps ==
  [][ \A b \in Booking : Exists(b) =>
        /\ Exists(b)'
        /\ \/ file'[b].attempt = file[b].attempt
           \/ <<file[b].attempt, file'[b].attempt>> \in AttemptMove
        /\ IsTerminal(file[b]) =>
             file'[b] = file[b] \/ (Creating(file[b]) /\ Finished(file'[b]))
        /\ file[b].attempt = "creating" => Frozen(file[b], file'[b]) ]_vars

(* The file and the keyring together behave as a store whose calls are     *)
(* atomic: the guards of an operation, checked when it read the file, still*)
(* hold of the record it replaces.                                         *)
Atomic ==
  INSTANCE AtomicStore WITH Key <- Booking, Absent <- NoContext, records <- file,
                            Created <- CreatedContext, Called <- StoreCall

AtomicSpec == Atomic!Spec

=============================================================================
