------------------------ MODULE BookingStore_proofs ------------------------
(***************************************************************************)
(* Theorems about BookingStore, for any number of bookings, options,       *)
(* processes and failures.                                                 *)
(*                                                                         *)
(* The invariant that carries them describes the transaction in progress:  *)
(* what its record will look like, that the secret of a record about to be *)
(* written is in the keyring, and that what it will clear is not what the  *)
(* file names.                                                             *)
(***************************************************************************)
EXTENDS BookingStore, TLAPS

-----------------------------------------------------------------------------
(* What an operation makes of a record is a record.                        *)

(* create_from_verified makes a well-formed record.                        *)
LEMMA VerifiedIsContext ==
  ASSUME NEW g \in Generation, NEW r \in Nat, NEW inc \in BOOLEAN,
         NEW sup \in SUBSET AncillaryKind, NEW t \in Nat, NEW e \in Nat
  PROVE  VerifiedContext(g, r, inc, sup, t, e) \in BookingContext
BY DEF VerifiedContext, BookingContext, OrderAttemptState

(* The edits of a booking keep its record well-formed.                     *)
LEMMA PriceConfirmedIsContext ==
  ASSUME NEW c \in BookingContext, NEW t \in Nat
  PROVE  PriceConfirmed(c, t) \in BookingContext
BY DEF PriceConfirmed, BookingContext

(* replace_options makes a record of a record when the options are known.  *)
LEMMA OptionsReplacedIsContext ==
  ASSUME NEW c \in BookingContext, NEW kind \in AncillaryKind,
         NEW listed \in SUBSET Option, NEW r \in Nat, NEW t \in Nat
  PROVE  OptionsReplaced(c, kind, listed, r, t) \in BookingContext
<1>1. (c.options \ OfKind(kind, c.options)) \cup listed \in SUBSET Option
  BY DEF BookingContext
<1>2. SelectionsWithout(c, kind) \in SUBSET AncillarySelection
  BY DEF BookingContext, SelectionsWithout
<1> QED BY <1>1, <1>2 DEF OptionsReplaced, BookingContext

(* close_ancillary makes a record of a record.                             *)
LEMMA AncillaryClosedIsContext ==
  ASSUME NEW c \in BookingContext, NEW kind \in AncillaryKind,
         NEW r \in Nat, NEW t \in Nat
  PROVE  AncillaryClosed(c, kind, r, t) \in BookingContext
<1>1. c.options \ OfKind(kind, c.options) \in SUBSET Option
  BY DEF BookingContext
<1>2. SelectionsWithout(c, kind) \in SUBSET AncillarySelection
  BY DEF BookingContext, SelectionsWithout
<1>3. c.supported \ {kind} \in SUBSET AncillaryKind
  BY DEF BookingContext
<1> QED BY <1>1, <1>2, <1>3 DEF AncillaryClosed, BookingContext

(* select makes a record of a record.                                      *)
LEMMA SelectedIsContext ==
  ASSUME NEW c \in BookingContext, NEW sel \in AncillarySelection, NEW t \in Nat
  PROVE  Selected(c, sel, t) \in BookingContext
<1>1. {s \in c.selections : ~SameSlot(s, sel)} \cup {sel} \in SUBSET AncillarySelection
  BY DEF BookingContext
<1> QED BY <1>1 DEF Selected, BookingContext

(* remove makes a record of a record.                                      *)
LEMMA SelectionRemovedIsContext ==
  ASSUME NEW c \in BookingContext, NEW kind, NEW tr, NEW seg, NEW t \in Nat
  PROVE  SelectionRemoved(c, kind, tr, seg, t) \in BookingContext
BY DEF SelectionRemoved, BookingContext

(* So do the expiry and the steps of an order attempt.                     *)
LEMMA ContextExpiredIsContext ==
  ASSUME NEW c \in BookingContext, NEW t \in Nat
  PROVE  ContextExpired(c, t) \in BookingContext
BY DEF ContextExpired, BookingContext

(* begin_order makes a record of a record.                                 *)
LEMMA OrderBegunIsContext ==
  ASSUME NEW c \in BookingContext, NEW t \in Nat
  PROVE  OrderBegun(c, t) \in BookingContext
BY DEF OrderBegun, BookingContext, OrderAttemptState

(* reset_order_attempt makes a record of a record.                         *)
LEMMA AttemptResetIsContext ==
  ASSUME NEW c \in BookingContext, NEW t \in Nat
  PROVE  AttemptReset(c, t) \in BookingContext
BY DEF AttemptReset, BookingContext, OrderAttemptState

(* _finish_order makes a record of a record, for every outcome it saves.   *)
LEMMA OrderFinishedIsContext ==
  ASSUME NEW c \in BookingContext, NEW attempt \in OrderAttemptState,
         NEW o \in Order \cup {NoOrder}, NEW t \in Nat
  PROVE  OrderFinished(c, attempt, o, t) \in BookingContext
BY DEF OrderFinished, BookingContext

-----------------------------------------------------------------------------
(* Every edit of a booking keeps its selections sound.                     *)

(* Fewer selections, of options and kinds that stay, are as sound.         *)
LEMMA FewerSelectionsSound ==
  ASSUME NEW c, NEW d, SoundSelections(c),
         d.selections \subseteq c.selections,
         \A s \in d.selections :
           /\ KindOf[s.option] \in c.supported => KindOf[s.option] \in d.supported
           /\ s.option \in c.options => s.option \in d.options
  PROVE  SoundSelections(d)
BY DEF SoundSelections

(* A record without selections is sound.                                   *)
LEMMA NoSelectionsSound ==
  ASSUME NEW c, c.selections = {}
  PROVE  SoundSelections(c)
BY DEF SoundSelections

(* A new list of options of a kind leaves the selections of the other sound. *)
LEMMA OptionsReplacedSound ==
  ASSUME NEW c \in BookingContext, SoundSelections(c), NEW kind, NEW listed, NEW r, NEW t
  PROVE  SoundSelections(OptionsReplaced(c, kind, listed, r, t))
<1> DEFINE d == OptionsReplaced(c, kind, listed, r, t)
<1>1. /\ d.selections = SelectionsWithout(c, kind)
      /\ d.options = (c.options \ OfKind(kind, c.options)) \cup listed
      /\ d.supported = c.supported
  BY DEF OptionsReplaced, BookingContext
<1> HIDE DEF d
<1> QED BY <1>1, FewerSelectionsSound DEF d, SelectionsWithout, OfKind

(* Closing a kind leaves the selections of the other sound.                *)
LEMMA AncillaryClosedSound ==
  ASSUME NEW c \in BookingContext, SoundSelections(c), NEW kind, NEW r, NEW t
  PROVE  SoundSelections(AncillaryClosed(c, kind, r, t))
<1> DEFINE d == AncillaryClosed(c, kind, r, t)
<1>1. /\ d.selections = SelectionsWithout(c, kind)
      /\ d.options = c.options \ OfKind(kind, c.options)
      /\ d.supported = c.supported \ {kind}
  BY DEF AncillaryClosed, BookingContext
<1> HIDE DEF d
<1> QED BY <1>1, FewerSelectionsSound DEF d, SelectionsWithout, OfKind

(* Removing a selection leaves the others sound.                           *)
LEMMA SelectionRemovedSound ==
  ASSUME NEW c \in BookingContext, SoundSelections(c), NEW kind, NEW tr, NEW seg, NEW t
  PROVE  SoundSelections(SelectionRemoved(c, kind, tr, seg, t))
<1> DEFINE d == SelectionRemoved(c, kind, tr, seg, t)
<1>1. /\ d.selections \subseteq c.selections
      /\ d.options = c.options /\ d.supported = c.supported
  BY DEF SelectionRemoved, BookingContext
<1> HIDE DEF d
<1> QED BY <1>1, FewerSelectionsSound DEF d

(* A selection the store accepts agrees with those it stands beside, and   *)
(* they agree with it.                                                     *)
LEMMA SelectedSound ==
  ASSUME NEW c \in BookingContext, SoundSelections(c), NEW sel, CurrentSelection(c, sel), NEW t
  PROVE  SoundSelections(Selected(c, sel, t))
<1> DEFINE d == Selected(c, sel, t)
<1>1. /\ d.selections = {s \in c.selections : ~SameSlot(s, sel)} \cup {sel}
      /\ d.options = c.options /\ d.supported = c.supported
  BY DEF Selected, BookingContext
<1> HIDE DEF d
<1>2. ASSUME NEW s1 \in d.selections
      PROVE  /\ KindOf[s1.option] \in d.supported
             /\ s1.option \in d.options
             /\ SegmentOf[s1.option] = s1.segment
  BY <1>1 DEF SoundSelections, CurrentSelection
<1>4. ASSUME NEW s \in c.selections, ~SameSlot(s, sel), Bag(s), Bag(sel),
             s.traveler = sel.traveler, Connected(s.segment, sel.segment)
      PROVE  SignatureOf[s.option] = SignatureOf[sel.option]
  <2>1. s.segment # sel.segment
    BY <1>4 DEF SameSlot, Bag
  <2> QED BY <1>4, <2>1 DEF CurrentSelection, ConsistentBaggage, Bag
<1>5. ASSUME NEW s1 \in d.selections, NEW s2 \in d.selections, Bag(s1), Bag(s2),
             s1.traveler = s2.traveler, Connected(s1.segment, s2.segment)
      PROVE  SignatureOf[s1.option] = SignatureOf[s2.option]
  <2>1. CASE s1 = sel /\ s2 # sel
    BY <1>1, <1>4, <1>5, <2>1 DEF Connected
  <2>2. CASE s2 = sel /\ s1 # sel
    BY <1>1, <1>4, <1>5, <2>2 DEF Connected
  <2>3. CASE s1 # sel /\ s2 # sel
    BY <1>1, <1>5, <2>3 DEF SoundSelections
  <2> QED BY <2>1, <2>2, <2>3
<1>3. ASSUME NEW s1 \in d.selections, NEW s2 \in d.selections, SameSlot(s1, s2)
      PROVE  s1 = s2
  BY <1>1, <1>3 DEF SoundSelections, SameSlot
<1> QED BY <1>2, <1>3, <1>5 DEF SoundSelections, d

(* What leaves options, kinds and selections alone keeps them sound.       *)
LEMMA SelectionsKeptSound ==
  ASSUME NEW c, NEW d, SoundSelections(c),
         d.selections = c.selections, d.options = c.options, d.supported = c.supported
  PROVE  SoundSelections(d)
BY FewerSelectionsSound

-----------------------------------------------------------------------------

SelectionsListed(c) == \A sel \in c.selections : sel.option \in c.options

RevisionsIssued ==
  /\ \A b \in Booking : Exists(b) => file[b].revision <= issued
  /\ txn # NoTxn => txn.context.revision <= issued

(* What a transaction with a new secret carries.                           *)
SecretPrepared ==
  txn # NoTxn /\ txn.secret # NoSecret =>
    /\ txn.secret = SecretOf(txn.booking, txn.context)
    /\ SelectionsListed(txn.context)

(* The record about to be written can be loaded.                           *)
WriteLoadable ==
  At("write") =>
    IsTerminal(txn.context) \/ Hydratable(txn.booking, txn.context)

(* Until the write, the file names the revision to retire, and no new one. *)
PreviousNamed ==
  txn # NoTxn /\ txn.stage # "clear" =>
    /\ txn.retired # NoRevision =>
         Exists(txn.booking) /\ file[txn.booking].revision = txn.retired
    /\ txn.secret # NoSecret /\ Exists(txn.booking) =>
         file[txn.booking].revision # txn.context.revision

(* What is retired is not what the new record needs.                       *)
RetiredUnneeded ==
  txn # NoTxn /\ txn.retired # NoRevision =>
    txn.retired # txn.context.revision \/ IsTerminal(txn.context)

ClearAfterWrite ==
  At("clear") => file[txn.booking] = txn.context /\ txn.retired # NoRevision

SecretForStage == At("save") \/ At("undo") => txn.secret # NoSecret

StoreInv ==
  /\ TypeOK
  /\ RevisionsIssued
  /\ SecretPrepared
  /\ WriteLoadable
  /\ PreviousNamed
  /\ RetiredUnneeded
  /\ ClearAfterWrite
  /\ SecretForStage
  /\ SecretsBound

-----------------------------------------------------------------------------
(* The two ways an operation begins.                                       *)
LEMMA WriteOnlySound ==
  ASSUME StoreInv, NEW b \in Booking, NEW c \in BookingContext, NEW retired \in Nat,
         WriteThenClear(b, c, retired), now' \in Nat,
         c.revision <= issued,
         IsTerminal(c) \/ Hydratable(b, c),
         retired # NoRevision =>
           Exists(b) /\ file[b].revision = retired /\ IsTerminal(c)
  PROVE  StoreInv'
<1> USE DEF StoreInv, WriteThenClear
<1>1. txn' \in Transaction
  BY DEF Transaction
<1>2. txn' # NoTxn /\ txn'.secret = NoSecret /\ txn'.stage = "write" /\ txn'.booking = b
        /\ txn'.context = c /\ txn'.retired = retired
  BY <1>1, TransactionAssumption
<1>3. TypeOK'
  BY <1>1 DEF TypeOK
<1>4. RevisionsIssued'
  BY <1>2 DEF RevisionsIssued, Exists
<1>5. SecretPrepared' /\ ClearAfterWrite' /\ SecretForStage'
  BY <1>2 DEF SecretPrepared, ClearAfterWrite, SecretForStage, At
<1>6. WriteLoadable'
  BY <1>2 DEF WriteLoadable, Hydratable, At
<1>7. PreviousNamed' /\ RetiredUnneeded'
  BY <1>2 DEF PreviousNamed, RetiredUnneeded, Exists
<1>8. SecretsBound'
  BY DEF SecretsBound, Hydratable, Exists
<1> QED BY <1>3, <1>4, <1>5, <1>6, <1>7, <1>8

(* A transaction that saves a secret first is well formed when its record is. *)
LEMMA SaveFirstSound ==
  ASSUME StoreInv, NEW b \in Booking, NEW c \in BookingContext, NEW retired \in Nat,
         SaveThenWrite(b, c, retired), now' \in Nat,
         c.revision = issued + 1,
         SelectionsListed(c),
         retired # NoRevision => Exists(b) /\ file[b].revision = retired
  PROVE  StoreInv'
<1> USE DEF StoreInv, SaveThenWrite, FreshRevision
<1>a. issued \in Nat /\ issued' = issued + 1
  BY DEF TypeOK
<1>b. SecretOf(b, c) \in BookingSecrets
  BY DEF SecretOf, BookingSecrets, BookingContext
<1>1. txn' \in Transaction
  BY <1>b DEF Transaction
<1>2. txn' # NoTxn /\ txn'.secret = SecretOf(b, c) /\ txn'.stage = "save" /\ txn'.booking = b
        /\ txn'.context = c /\ txn'.retired = retired
  BY <1>1, TransactionAssumption
<1>c. SecretOf(b, c) # NoSecret
  BY <1>b, TransactionAssumption
<1>3. TypeOK'
  BY <1>1, <1>a DEF TypeOK
<1>d. \A k \in Booking : Exists(k) => file[k] \in BookingContext /\ file[k].revision \in Nat
  BY DEF TypeOK, Exists, BookingContext
<1>4. RevisionsIssued'
  BY <1>2, <1>a, <1>d DEF RevisionsIssued, Exists
<1>5. SecretPrepared' /\ ClearAfterWrite' /\ SecretForStage' /\ WriteLoadable'
  BY <1>2, <1>c DEF SecretPrepared, ClearAfterWrite, SecretForStage, At, WriteLoadable,
    SecretOf, SelectionsListed
<1>6. Exists(b) => file[b].revision # c.revision
  BY <1>a, <1>d DEF RevisionsIssued
<1>7. PreviousNamed' /\ RetiredUnneeded'
  BY <1>2, <1>6 DEF PreviousNamed, RetiredUnneeded, Exists
<1>8. SecretsBound'
  BY DEF SecretsBound, Hydratable, Exists
<1> QED BY <1>3, <1>4, <1>5, <1>7, <1>8

-----------------------------------------------------------------------------
(* What a guard that hydrates the record tells of it.                      *)
LEMMA HydratedRecord ==
  ASSUME TypeOK, NEW b \in Booking, Exists(b), Hydratable(b, file[b])
  PROVE  /\ file[b] \in BookingContext
         /\ file[b].revision \in Nat
         /\ ~IsTerminal(file[b])
         /\ SelectionsListed(file[b])
<1>1. file[b] \in BookingContext
  BY DEF TypeOK, Exists
<1> QED BY <1>1 DEF BookingContext, Hydratable, Hydrates, SelectionsListed

(* A record that keeps revision, generation and options keeps its secret.  *)
LEMMA SecretKept ==
  ASSUME NEW b, NEW c, NEW d, Hydratable(b, c),
         d.revision = c.revision, d.generation = c.generation, d.options = c.options,
         SelectionsListed(d)
  PROVE  IsTerminal(d) \/ Hydratable(b, d)
BY DEF Hydratable, Hydrates, SelectionsListed

(* A stamp of the clock.                                                   *)
LEMMA StampIsNat ==
  ASSUME TypeOK, NEW t, Stamp(t)
  PROVE  t \in Nat /\ now' \in Nat
BY StoreAssumption DEF TypeOK, Stamp

(* Each operation keeps the invariant.                                     *)
LEMMA OperationSound ==
  ASSUME StoreInv, NEW b \in Booking, Operation(b)
  PROVE  StoreInv'
<1> TypeOK /\ RevisionsIssued
  BY DEF StoreInv
<1>a. NoRevision \in Nat /\ issued \in Nat
  BY DEF NoRevision, TypeOK
<1>b. Exists(b) => file[b] \in BookingContext /\ file[b].revision \in Nat /\ file[b].revision <= issued
  BY DEF TypeOK, Exists, BookingContext, RevisionsIssued
<1>1. CASE CreateFromVerified(b)
  <2>1. PICK g \in Generation, inc \in BOOLEAN, sup \in SUBSET AncillaryKind, t \in now..MaxTime :
          Stamp(t) /\ SaveThenWrite(b, VerifiedContext(g, issued + 1, inc, sup, t, now + Life), NoRevision)
    BY <1>1 DEF CreateFromVerified
  <2> DEFINE c == VerifiedContext(g, issued + 1, inc, sup, t, now + Life)
  <2>2. t \in Nat /\ now' \in Nat
    BY <2>1, StampIsNat
  <2>3. now + Life \in Nat /\ issued + 1 \in Nat
    BY StoreAssumption DEF TypeOK
  <2>4. c \in BookingContext
    BY <2>2, <2>3, VerifiedIsContext
  <2>5. c.revision = issued + 1 /\ SelectionsListed(c)
    BY DEF VerifiedContext, SelectionsListed
  <2> HIDE DEF c
  <2> QED BY <2>1, <2>2, <2>4, <2>5, <1>a, SaveFirstSound DEF c
<1>2. CASE ConfirmPrice(b)
  <2>1. PICK t \in now..MaxTime :
          Stamp(t) /\ WriteThenClear(b, PriceConfirmed(file[b], t), NoRevision)
    BY <1>2 DEF ConfirmPrice
  <2>2. Exists(b) /\ Hydratable(b, file[b])
    BY <1>2 DEF ConfirmPrice, ActiveContext
  <2>3. t \in Nat /\ now' \in Nat
    BY <2>1, StampIsNat
  <2> DEFINE c == PriceConfirmed(file[b], t)
  <2>4. c \in BookingContext
    BY <2>2, <2>3, <1>b, PriceConfirmedIsContext
  <2>5. /\ c.revision = file[b].revision /\ c.generation = file[b].generation
        /\ c.options = file[b].options /\ c.selections = file[b].selections
    BY <1>b, <2>2 DEF PriceConfirmed, BookingContext
  <2>6. IsTerminal(c) \/ Hydratable(b, c)
    <3>1. SelectionsListed(c)
      BY <2>2, <2>5, HydratedRecord DEF SelectionsListed
    <3> HIDE DEF c
    <3> QED BY <2>2, <2>5, <3>1, SecretKept
  <2> HIDE DEF c
  <2> QED BY <2>1, <2>2, <2>3, <2>4, <2>5, <2>6, <1>a, <1>b, WriteOnlySound DEF c
<1>3. CASE ReplaceOptions(b)
  <2>1. PICK kind \in AncillaryKind, t \in now..MaxTime, listed \in SUBSET Option :
          Stamp(t) /\ SaveThenWrite(b, OptionsReplaced(file[b], kind, listed, issued + 1, t), file[b].revision)
    BY <1>3 DEF ReplaceOptions, OfKind
  <2>2. Exists(b) /\ Hydratable(b, file[b])
    BY <1>3 DEF ReplaceOptions, ActiveContext
  <2>3. t \in Nat /\ now' \in Nat /\ issued + 1 \in Nat
    BY <2>1, <1>a, StampIsNat
  <2> DEFINE c == OptionsReplaced(file[b], kind, listed, issued + 1, t)
  <2>4. c \in BookingContext
    BY <2>2, <2>3, <1>b, OptionsReplacedIsContext
  <2>5. c.revision = issued + 1
    BY <1>b, <2>2 DEF OptionsReplaced, BookingContext
  <2>6. SelectionsListed(c)
    <3>1. /\ c.options = (file[b].options \ OfKind(kind, file[b].options)) \cup listed
          /\ c.selections = SelectionsWithout(file[b], kind)
      BY <1>b, <2>2 DEF OptionsReplaced, BookingContext, SelectionsWithout
    <3> HIDE DEF c
    <3> QED BY <3>1, <2>2, HydratedRecord DEF SelectionsListed, SelectionsWithout, OfKind
  <2> HIDE DEF c
  <2> QED BY <2>1, <2>2, <2>3, <2>4, <2>5, <2>6, <1>b, SaveFirstSound DEF c
<1>4. CASE CloseAncillary(b)
  <2>1. PICK kind \in AncillaryKind, t \in now..MaxTime :
          Stamp(t) /\ SaveThenWrite(b, AncillaryClosed(file[b], kind, issued + 1, t), file[b].revision)
    BY <1>4 DEF CloseAncillary
  <2>2. Exists(b) /\ Hydratable(b, file[b])
    BY <1>4 DEF CloseAncillary, ActiveContext
  <2>3. t \in Nat /\ now' \in Nat /\ issued + 1 \in Nat
    BY <2>1, <1>a, StampIsNat
  <2> DEFINE c == AncillaryClosed(file[b], kind, issued + 1, t)
  <2>4. c \in BookingContext
    BY <2>2, <2>3, <1>b, AncillaryClosedIsContext
  <2>5. c.revision = issued + 1
    BY <1>b, <2>2 DEF AncillaryClosed, BookingContext
  <2>6. SelectionsListed(c)
    <3>1. /\ c.options = file[b].options \ OfKind(kind, file[b].options)
          /\ c.selections = SelectionsWithout(file[b], kind)
      BY <1>b, <2>2 DEF AncillaryClosed, BookingContext, SelectionsWithout
    <3> HIDE DEF c
    <3> QED BY <3>1, <2>2, HydratedRecord DEF SelectionsListed, SelectionsWithout, OfKind
  <2> HIDE DEF c
  <2> QED BY <2>1, <2>2, <2>3, <2>4, <2>5, <2>6, <1>b, SaveFirstSound DEF c
<1>5. CASE Select(b)
  <2>1. PICK sel \in AncillarySelection, t \in now..MaxTime :
          /\ CurrentSelection(file[b], sel)
          /\ Stamp(t)
          /\ WriteThenClear(b, Selected(file[b], sel, t), NoRevision)
    BY <1>5 DEF Select
  <2>2. Exists(b) /\ Hydratable(b, file[b])
    BY <1>5 DEF Select, ActiveContext
  <2>3. t \in Nat /\ now' \in Nat
    BY <2>1, StampIsNat
  <2> DEFINE c == Selected(file[b], sel, t)
  <2>4. c \in BookingContext
    BY <2>2, <2>3, <1>b, SelectedIsContext
  <2>5. /\ c.revision = file[b].revision /\ c.generation = file[b].generation
        /\ c.options = file[b].options
        /\ c.selections = {s \in file[b].selections : ~SameSlot(s, sel)} \cup {sel}
    BY <1>b, <2>2 DEF Selected, BookingContext
  <2>6. IsTerminal(c) \/ Hydratable(b, c)
    <3>1. SelectionsListed(c)
      <4> HIDE DEF c
      <4> QED BY <2>1, <2>2, <2>5, HydratedRecord DEF SelectionsListed, CurrentSelection
    <3> HIDE DEF c
    <3> QED BY <2>2, <2>5, <3>1, SecretKept
  <2> HIDE DEF c
  <2> QED BY <2>1, <2>2, <2>3, <2>4, <2>5, <2>6, <1>a, <1>b, WriteOnlySound DEF c
<1>6. CASE Remove(b)
  <2>1. PICK kind \in AncillaryKind, tr \in Traveler, seg \in Segment, t \in now..MaxTime :
          Stamp(t) /\ WriteThenClear(b, SelectionRemoved(file[b], kind, tr, seg, t), NoRevision)
    BY <1>6 DEF Remove
  <2>2. Exists(b) /\ Hydratable(b, file[b])
    BY <1>6 DEF Remove, ActiveContext
  <2>3. t \in Nat /\ now' \in Nat
    BY <2>1, StampIsNat
  <2> DEFINE c == SelectionRemoved(file[b], kind, tr, seg, t)
  <2>4. c \in BookingContext
    BY <2>2, <2>3, <1>b, SelectionRemovedIsContext
  <2>5. /\ c.revision = file[b].revision /\ c.generation = file[b].generation
        /\ c.options = file[b].options /\ c.selections \subseteq file[b].selections
    BY <1>b, <2>2 DEF SelectionRemoved, BookingContext
  <2>6. IsTerminal(c) \/ Hydratable(b, c)
    <3>1. SelectionsListed(c)
      <4> HIDE DEF c
      <4> QED BY <2>2, <2>5, HydratedRecord DEF SelectionsListed
    <3> HIDE DEF c
    <3> QED BY <2>2, <2>5, <3>1, SecretKept
  <2> HIDE DEF c
  <2> QED BY <2>1, <2>2, <2>3, <2>4, <2>5, <2>6, <1>a, <1>b, WriteOnlySound DEF c
<1>7. CASE ExpireContext(b)
  <2>1. PICK t \in now..MaxTime :
          Stamp(t) /\ WriteThenClear(b, ContextExpired(file[b], t), file[b].revision)
    BY <1>7 DEF ExpireContext
  <2>2. Exists(b)
    BY <1>7 DEF ExpireContext, ActiveContext
  <2>3. t \in Nat /\ now' \in Nat
    BY <2>1, StampIsNat
  <2> DEFINE c == ContextExpired(file[b], t)
  <2>4. c \in BookingContext
    BY <2>2, <2>3, <1>b, ContextExpiredIsContext
  <2>5. c.revision = file[b].revision /\ IsTerminal(c)
    BY <1>b, <2>2, <2>3 DEF ContextExpired, BookingContext, IsTerminal
  <2> HIDE DEF c
  <2> QED BY <2>1, <2>2, <2>3, <2>4, <2>5, <1>b, WriteOnlySound DEF c
<1>8. CASE BeginOrder(b)
  <2>1. PICK t \in now..MaxTime :
          Stamp(t) /\ WriteThenClear(b, OrderBegun(file[b], t), NoRevision)
    BY <1>8 DEF BeginOrder
  <2>2. Exists(b) /\ Hydratable(b, file[b])
    BY <1>8 DEF BeginOrder, ActiveContext
  <2>3. t \in Nat /\ now' \in Nat
    BY <2>1, StampIsNat
  <2> DEFINE c == OrderBegun(file[b], t)
  <2>4. c \in BookingContext
    BY <2>2, <2>3, <1>b, OrderBegunIsContext
  <2>5. /\ c.revision = file[b].revision /\ c.generation = file[b].generation
        /\ c.options = file[b].options /\ c.selections = file[b].selections
    BY <1>b, <2>2 DEF OrderBegun, BookingContext
  <2>6. IsTerminal(c) \/ Hydratable(b, c)
    <3>1. SelectionsListed(c)
      BY <2>2, <2>5, HydratedRecord DEF SelectionsListed
    <3> HIDE DEF c
    <3> QED BY <2>2, <2>5, <3>1, SecretKept
  <2> HIDE DEF c
  <2> QED BY <2>1, <2>2, <2>3, <2>4, <2>5, <2>6, <1>a, <1>b, WriteOnlySound DEF c
<1>9. CASE ResetOrderAttempt(b)
  <2>1. PICK t \in now..MaxTime :
          Stamp(t) /\ WriteThenClear(b, AttemptReset(file[b], t), NoRevision)
    BY <1>9 DEF ResetOrderAttempt
  <2>2. Exists(b) /\ Hydratable(b, file[b])
    BY <1>9 DEF ResetOrderAttempt
  <2>3. t \in Nat /\ now' \in Nat
    BY <2>1, StampIsNat
  <2> DEFINE c == AttemptReset(file[b], t)
  <2>4. c \in BookingContext
    BY <2>2, <2>3, <1>b, AttemptResetIsContext
  <2>5. /\ c.revision = file[b].revision /\ c.generation = file[b].generation
        /\ c.options = file[b].options /\ c.selections = file[b].selections
    BY <1>b, <2>2 DEF AttemptReset, BookingContext
  <2>6. IsTerminal(c) \/ Hydratable(b, c)
    <3>1. SelectionsListed(c)
      BY <2>2, <2>5, HydratedRecord DEF SelectionsListed
    <3> HIDE DEF c
    <3> QED BY <2>2, <2>5, <3>1, SecretKept
  <2> HIDE DEF c
  <2> QED BY <2>1, <2>2, <2>3, <2>4, <2>5, <2>6, <1>a, <1>b, WriteOnlySound DEF c
<1>10. CASE FinishOrder(b)
  <2>1. PICK t \in now..MaxTime, o \in Order \cup {NoOrder},
             attempt \in {"unknown", "created"} :
          /\ attempt = IF o = NoOrder THEN "unknown" ELSE "created"
          /\ Stamp(t)
          /\ WriteThenClear(b, OrderFinished(file[b], attempt, o, t), file[b].revision)
    BY <1>10 DEF FinishOrder
  <2>2. Exists(b)
    BY <1>10 DEF FinishOrder
  <2>3. t \in Nat /\ now' \in Nat
    BY <2>1, StampIsNat
  <2> DEFINE c == OrderFinished(file[b], attempt, o, t)
  <2>4. c \in BookingContext
    <3>1. attempt \in OrderAttemptState
      BY DEF OrderAttemptState
    <3> QED BY <3>1, <2>2, <2>3, <1>b, OrderFinishedIsContext
  <2>5. c.revision = file[b].revision /\ IsTerminal(c)
    BY <1>b, <2>2, <2>3 DEF OrderFinished, BookingContext, IsTerminal, Finished
  <2> HIDE DEF c
  <2> QED BY <2>1, <2>2, <2>3, <2>4, <2>5, <1>b, WriteOnlySound DEF c
<1> QED
  BY <1>1, <1>2, <1>3, <1>4, <1>5, <1>6, <1>7, <1>8, <1>9, <1>10 DEF Operation

-----------------------------------------------------------------------------
(* What the records of a transaction look like, once it is known to run.   *)
LEMMA TransactionRecord ==
  ASSUME TypeOK, txn # NoTxn
  PROVE  /\ txn \in Transaction
         /\ txn.booking \in Booking
         /\ txn.context \in BookingContext /\ txn.context # NoContext
         /\ txn.secret # NoSecret => txn.secret \in BookingSecrets
         /\ txn.retired \in Nat
         /\ \A stage \in {"save", "write", "clear", "undo"} :
              /\ [txn EXCEPT !.stage = stage] \in Transaction
              /\ [txn EXCEPT !.stage = stage].stage = stage
              /\ [txn EXCEPT !.stage = stage].booking = txn.booking
              /\ [txn EXCEPT !.stage = stage].context = txn.context
              /\ [txn EXCEPT !.stage = stage].secret = txn.secret
              /\ [txn EXCEPT !.stage = stage].retired = txn.retired
BY StoreAssumption DEF TypeOK, Transaction

(* Between two operations only the file and the keyring matter.            *)
LEMMA ReleaseSound ==
  ASSUME StoreInv, txn # NoTxn, Release, TypeOK',
         \A b \in Booking : Exists(b)' => file'[b].revision <= issued',
         SecretsBound'
  PROVE  StoreInv'
BY DEF StoreInv, Release, RevisionsIssued, SecretPrepared, WriteLoadable, PreviousNamed,
  RetiredUnneeded, ClearAfterWrite, SecretForStage, At, Exists

(* A clear of a revision that no open record names unbinds nobody.         *)
LEMMA ClearBinds ==
  ASSUME SecretsBound, UNCHANGED file, NEW b \in Booking, NEW revision,
         keyring' = Cleared(b, revision),
         Exists(b) /\ ~IsTerminal(file[b]) => file[b].revision # revision
  PROVE  SecretsBound'
BY DEF SecretsBound, Cleared, Matches, Hydratable, Exists

(* More secrets unbind nobody.                                             *)
LEMMA SaveBinds ==
  ASSUME SecretsBound, UNCHANGED file, keyring \subseteq keyring'
  PROVE  SecretsBound'
BY DEF SecretsBound, Hydratable, Exists

(* Each write keeps the invariant, if a failed replacement replaced nothing.*)
LEMMA WriteSound ==
  ASSUME StoreInv, DirectorySyncFails = FALSE, Write
  PROVE  StoreInv'
<1> USE DEF StoreInv
<1>1. CASE SaveSecret
  <2>1. txn # NoTxn /\ txn.stage = "save" /\ txn.secret # NoSecret
    BY <1>1 DEF SaveSecret, At, SecretForStage
  <2> DEFINE b == txn.booking
             c == txn.context
  <2>2. txn.secret = SecretOf(b, c) /\ SelectionsListed(c) /\ txn.secret \in keyring'
    BY <1>1, <2>1 DEF SaveSecret, SecretPrepared
  <2>3. txn'.stage = "write" /\ txn' \in Transaction /\ txn' # NoTxn /\ txn'.booking = b
          /\ txn'.context = c /\ txn'.secret = txn.secret /\ txn'.retired = txn.retired
    BY <1>1, <2>1, TransactionRecord, TransactionAssumption DEF SaveSecret
  <2>4. TypeOK'
    BY <1>1, <2>1, <2>3, TransactionRecord DEF SaveSecret, TypeOK
  <2>5. IsTerminal(c) \/ \E s \in keyring' :
          s.booking = b /\ s.revision = c.revision /\ Hydrates(c, s.generation, s.products)
    <3>1. txn.secret.booking = b /\ txn.secret.revision = c.revision
            /\ txn.secret.generation = c.generation /\ txn.secret.products = c.options
      BY <2>2 DEF SecretOf
    <3>2. IsTerminal(c) \/ Hydrates(c, txn.secret.generation, txn.secret.products)
      BY <2>2, <3>1 DEF Hydrates, SelectionsListed
    <3> QED BY <2>2, <3>1, <3>2
  <2>6. WriteLoadable'
    BY <2>3, <2>5 DEF WriteLoadable, At, Hydratable
  <2>7. RevisionsIssued' /\ SecretPrepared' /\ PreviousNamed' /\ RetiredUnneeded'
    BY <1>1, <2>1, <2>3 DEF SaveSecret, RevisionsIssued, SecretPrepared, PreviousNamed,
      RetiredUnneeded, Exists, SecretOf, SelectionsListed
  <2>8. ClearAfterWrite' /\ SecretForStage'
    BY <2>3 DEF ClearAfterWrite, SecretForStage, At
  <2>9. SecretsBound'
    BY <1>1, SaveBinds DEF SaveSecret
  <2> QED BY <2>4, <2>6, <2>7, <2>8, <2>9
<1>2. CASE SaveSecretFails
  <2>1. txn # NoTxn /\ txn.secret # NoSecret
    BY <1>2 DEF SaveSecretFails, At, SecretForStage
  <2>2. TypeOK'
    BY <1>2, <2>1, TransactionRecord DEF SaveSecretFails, TypeOK, Release
  <2>3. SecretsBound'
    BY <1>2, SaveBinds DEF SaveSecretFails
  <2> QED
    BY <1>2, <2>1, <2>2, <2>3, ReleaseSound DEF SaveSecretFails, RevisionsIssued, Exists
<1>3. CASE AtomicWrite
  <2> DEFINE b == txn.booking
             c == txn.context
  <2>1. txn # NoTxn /\ txn.stage = "write" /\ b \in Booking /\ c \in BookingContext /\ c # NoContext
    BY <1>3, TransactionRecord DEF AtomicWrite, At
  <2>2. /\ file' = [file EXCEPT ![b] = c] /\ keyring' = keyring /\ issued' = issued
        /\ now' = now /\ faulted' = faulted
    BY <1>3 DEF AtomicWrite, Replace, Written
  <2>3. file'[b] = c /\ \A k \in Booking : k # b => file'[k] = file[k]
    BY <2>1, <2>2 DEF TypeOK
  <2>4. file' \in [Booking -> BookingContext \cup {NoContext}]
    BY <2>1, <2>2 DEF TypeOK
  <2>5. SecretsBound'
    BY <2>1, <2>2, <2>3 DEF SecretsBound, Exists, Hydratable, WriteLoadable, At
  <2>6. \A k \in Booking : Exists(k)' => file'[k].revision <= issued'
    BY <2>1, <2>2, <2>3 DEF RevisionsIssued, Exists
  <2>7. CASE txn.retired = NoRevision
    <3>1. Release
      BY <1>3, <2>7 DEF AtomicWrite
    <3>2. TypeOK'
      BY <2>2, <2>4, <3>1 DEF TypeOK, Release
    <3> QED BY <2>1, <2>5, <2>6, <3>1, <3>2, ReleaseSound
  <2>8. CASE txn.retired # NoRevision
    <3>1. txn'.stage = "clear" /\ txn' \in Transaction /\ txn' # NoTxn /\ txn'.booking = b
            /\ txn'.context = c /\ txn'.secret = txn.secret /\ txn'.retired = txn.retired
      BY <1>3, <2>1, <2>8, TransactionRecord, TransactionAssumption DEF AtomicWrite
    <3>2. TypeOK'
      BY <2>2, <2>4, <3>1 DEF TypeOK
    <3>3. RevisionsIssued'
      BY <2>1, <2>2, <2>6, <3>1 DEF RevisionsIssued
    <3>4. SecretPrepared' /\ RetiredUnneeded'
      BY <2>1, <3>1 DEF SecretPrepared, RetiredUnneeded, SecretOf, SelectionsListed
    <3>5. WriteLoadable' /\ SecretForStage' /\ PreviousNamed'
      BY <3>1 DEF WriteLoadable, SecretForStage, PreviousNamed, At
    <3>6. ClearAfterWrite'
      BY <2>3, <2>8, <3>1 DEF ClearAfterWrite
    <3> QED BY <2>5, <3>2, <3>3, <3>4, <3>5, <3>6
  <2> QED BY <2>7, <2>8
<1>4. CASE AtomicWriteFails
  <2>1. txn # NoTxn /\ txn.stage = "write"
    BY <1>4 DEF AtomicWriteFails, At
  <2>a. PICK replaced \in BOOLEAN :
          /\ replaced => DirectorySyncFails
          /\ file' = IF replaced THEN Written ELSE file
          /\ faulted' = (faulted \/ replaced)
    BY <1>4, Zenon DEF AtomicWriteFails
  <2>b. ~replaced
    BY <2>a
  <2>c. file' = file
    BY <2>a, <2>b, Zenon
  <2>d. faulted' = faulted
    <3>1. faulted' = (faulted \/ FALSE)
      BY <2>a, <2>b, Zenon
    <3>2. faulted \in BOOLEAN
      BY DEF TypeOK
    <3> QED BY <3>1, <3>2
  <2>2. UNCHANGED <<now, file, keyring, issued, faulted>>
    BY <1>4, <2>c, <2>d DEF AtomicWriteFails, UndoWrite
  <2>3. SecretsBound'
    BY <2>2, SaveBinds
  <2>4. CASE txn.secret = NoSecret
    <3>1. Release
      BY <1>4, <2>4 DEF AtomicWriteFails, UndoWrite
    <3>2. TypeOK'
      BY <2>2, <3>1 DEF TypeOK, Release
    <3> QED BY <2>1, <2>2, <2>3, <3>1, <3>2, ReleaseSound DEF RevisionsIssued, Exists
  <2>5. CASE txn.secret # NoSecret
    <3>1. txn'.stage = "undo" /\ txn' \in Transaction /\ txn' # NoTxn /\ txn'.booking = txn.booking
            /\ txn'.context = txn.context /\ txn'.secret = txn.secret /\ txn'.retired = txn.retired
      BY <1>4, <2>1, <2>5, TransactionRecord, TransactionAssumption DEF AtomicWriteFails, UndoWrite
    <3>2. TypeOK'
      BY <2>2, <3>1 DEF TypeOK
    <3>3. RevisionsIssued' /\ SecretPrepared' /\ RetiredUnneeded' /\ PreviousNamed'
      BY <2>1, <2>2, <3>1 DEF RevisionsIssued, SecretPrepared, RetiredUnneeded,
        PreviousNamed, Exists, SecretOf, SelectionsListed
    <3>4. WriteLoadable' /\ SecretForStage' /\ ClearAfterWrite'
      BY <2>5, <3>1 DEF WriteLoadable, SecretForStage, ClearAfterWrite, At
    <3> QED BY <2>3, <3>2, <3>3, <3>4
  <2> QED BY <2>4, <2>5
<1>6. CASE ClearRetired
  <2>1. txn # NoTxn /\ txn.stage = "clear" /\ txn.booking \in Booking
    BY <1>6, TransactionRecord DEF ClearRetired, At
  <2>2. Exists(txn.booking) /\ ~IsTerminal(file[txn.booking])
          => file[txn.booking].revision # txn.retired
    BY <2>1 DEF ClearAfterWrite, RetiredUnneeded, At
  <2>3. SecretsBound'
    BY <1>6, <2>1, <2>2, ClearBinds DEF ClearRetired
  <2>4. TypeOK'
    BY <1>6 DEF ClearRetired, TypeOK, Cleared, Release
  <2> QED
    BY <1>6, <2>1, <2>3, <2>4, ReleaseSound DEF ClearRetired, RevisionsIssued, Exists
<1>7. CASE ClearSaved
  <2>1. txn # NoTxn /\ txn.stage = "undo" /\ txn.booking \in Booking /\ txn.secret # NoSecret
    BY <1>7, TransactionRecord DEF ClearSaved, At, SecretForStage
  <2>2. Exists(txn.booking) => file[txn.booking].revision # txn.secret.revision
    BY <2>1 DEF PreviousNamed, SecretPrepared, SecretOf
  <2>3. SecretsBound'
    BY <1>7, <2>1, <2>2, ClearBinds DEF ClearSaved
  <2>4. TypeOK'
    BY <1>7 DEF ClearSaved, TypeOK, Cleared, Release
  <2> QED
    BY <1>7, <2>1, <2>3, <2>4, ReleaseSound DEF ClearSaved, RevisionsIssued, Exists
<1>8. CASE ClearFails
  <2>1. txn # NoTxn /\ UNCHANGED <<file, keyring, issued>>
    BY <1>8 DEF ClearFails, At
  <2>2. TypeOK'
    BY <1>8 DEF ClearFails, TypeOK, Release
  <2> QED
    BY <1>8, <2>1, <2>2, SaveBinds, ReleaseSound DEF ClearFails, RevisionsIssued, Exists
<1> QED BY <1>1, <1>2, <1>3, <1>4, <1>6, <1>7, <1>8 DEF Write

(* The invariant holds whatever fails, as long as a failed replacement of  *)
(* contexts.json replaced nothing.                                         *)
LEMMA StoreInvariant ==
  ASSUME DirectorySyncFails = FALSE
  PROVE  Spec => []StoreInv
<1>1. Init => StoreInv
  <2> SUFFICES ASSUME Init PROVE StoreInv
    OBVIOUS
  <2>1. TypeOK
    BY DEF Init, TypeOK
  <2>2. \A b \in Booking : ~Exists(b)
    BY DEF Init, Exists
  <2>3. txn = NoTxn
    BY DEF Init
  <2> QED BY <2>1, <2>2, <2>3 DEF StoreInv, RevisionsIssued, SecretPrepared, WriteLoadable,
    PreviousNamed, RetiredUnneeded, ClearAfterWrite, SecretForStage, SecretsBound, At
<1>2. StoreInv /\ [Next]_vars => StoreInv'
  <2> SUFFICES ASSUME StoreInv, [Next]_vars
               PROVE  StoreInv'
    OBVIOUS
  <2>1. CASE \E b \in Booking : Operation(b)
    BY <2>1, OperationSound
  <2>2. CASE Write
    BY <2>2, WriteSound
  <2>3. CASE Crash
    <3>1. txn # NoTxn /\ Release /\ UNCHANGED <<file, keyring, issued>>
      BY <2>3 DEF Crash
    <3>2. TypeOK'
      BY <2>3 DEF Crash, StoreInv, TypeOK, Release
    <3>3. SecretsBound'
      BY <3>1, SaveBinds DEF StoreInv
    <3> QED BY <3>1, <3>2, <3>3, ReleaseSound DEF StoreInv, RevisionsIssued, Exists
  <2>4. CASE Tick \/ UNCHANGED vars
    BY <2>4 DEF Tick, vars, StoreInv, TypeOK, RevisionsIssued, SecretPrepared, WriteLoadable,
      PreviousNamed, RetiredUnneeded, ClearAfterWrite, SecretForStage, SecretsBound,
      Hydratable, At, Exists, SelectionsListed, SecretOf
  <2> QED BY <2>1, <2>2, <2>3, <2>4 DEF Next
<1> QED BY <1>1, <1>2, PTL DEF Spec

(* A booking that is still open can always be loaded.                      *)
THEOREM OpenBookingsLoad ==
  ASSUME DirectorySyncFails = FALSE
  PROVE  Spec => []SecretsBound
<1>1. StoreInv => SecretsBound
  BY DEF StoreInv
<1> QED BY <1>1, StoreInvariant, PTL

(* An ancillary change whose commit raised changed nothing.                *)
THEOREM FailedCommitHarmless ==
  ASSUME DirectorySyncFails = FALSE
  PROVE  Spec => []FailedCommitKeepsPrevious
<1>1. StoreInv => FailedCommitKeepsPrevious
  <2> SUFFICES ASSUME StoreInv, At("undo"), txn.retired # NoRevision
               PROVE  /\ file[txn.booking].revision = txn.retired
                      /\ ~IsTerminal(file[txn.booking]) => Hydratable(txn.booking, file[txn.booking])
    BY DEF FailedCommitKeepsPrevious
  <2>1. txn # NoTxn /\ txn.stage = "undo" /\ txn.booking \in Booking
    BY TransactionRecord DEF StoreInv, At
  <2> QED BY <2>1 DEF StoreInv, PreviousNamed, SecretsBound
<1> QED BY <1>1, StoreInvariant, PTL

-----------------------------------------------------------------------------
(* What a call makes of a record.                                          *)

(* An edit changes no attempt and keeps the selections sound.              *)
LEMMA EditKeeps ==
  ASSUME NEW c \in BookingContext, NEW d, Edits(c, d)
  PROVE  /\ d.attempt = c.attempt /\ d.order = c.order
         /\ SoundSelections(c) => SoundSelections(d)
<1>1. CASE d = PriceConfirmed(c, d.updatedAt)
  <2>1. /\ d.attempt = c.attempt /\ d.order = c.order
        /\ d.selections = c.selections /\ d.options = c.options /\ d.supported = c.supported
    BY <1>1 DEF PriceConfirmed, BookingContext
  <2> QED BY <2>1, SelectionsKeptSound
<1>2. ASSUME NEW kind \in AncillaryKind, NEW listed,
             d = OptionsReplaced(c, kind, listed, d.revision, d.updatedAt)
      PROVE  /\ d.attempt = c.attempt /\ d.order = c.order
             /\ SoundSelections(c) => SoundSelections(d)
  <2>1. d.attempt = c.attempt /\ d.order = c.order
    BY <1>2 DEF OptionsReplaced, BookingContext
  <2> QED BY <1>2, <2>1, OptionsReplacedSound
<1>3. ASSUME NEW kind \in AncillaryKind, d = AncillaryClosed(c, kind, d.revision, d.updatedAt)
      PROVE  /\ d.attempt = c.attempt /\ d.order = c.order
             /\ SoundSelections(c) => SoundSelections(d)
  <2>1. d.attempt = c.attempt /\ d.order = c.order
    BY <1>3 DEF AncillaryClosed, BookingContext
  <2> QED BY <1>3, <2>1, AncillaryClosedSound
<1>4. ASSUME NEW sel \in AncillarySelection, CurrentSelection(c, sel), d = Selected(c, sel, d.updatedAt)
      PROVE  /\ d.attempt = c.attempt /\ d.order = c.order
             /\ SoundSelections(c) => SoundSelections(d)
  <2>1. d.attempt = c.attempt /\ d.order = c.order
    BY <1>4 DEF Selected, BookingContext
  <2> QED BY <1>4, <2>1, SelectedSound
<1>5. ASSUME NEW kind, NEW traveler, NEW segment,
             d = SelectionRemoved(c, kind, traveler, segment, d.updatedAt)
      PROVE  /\ d.attempt = c.attempt /\ d.order = c.order
             /\ SoundSelections(c) => SoundSelections(d)
  <2>1. d.attempt = c.attempt /\ d.order = c.order
    BY <1>5 DEF SelectionRemoved, BookingContext
  <2> QED BY <1>5, <2>1, SelectionRemovedSound
<1> QED BY <1>1, <1>2, <1>3, <1>4, <1>5 DEF Edits

(* A call finds an attempt that is not over and moves it as its life       *)
(* allows; of a terminal record it makes the outcome of its attempt only;  *)
(* an outcome it leaves needs no keyring; the selections stay sound; and   *)
(* an attempt that is under way freezes what it is made of.                *)
LEMMA CallKeeps ==
  ASSUME NEW c \in BookingContext, NEW d \in BookingContext, StoreCall(c, d)
  PROVE  /\ ~Finished(c)
         /\ IsTerminal(c) => Creating(c) /\ Finished(d)
         /\ d.attempt = c.attempt \/ <<c.attempt, d.attempt>> \in AttemptMove
         /\ Finished(d) => Restorable(d)
         /\ SoundSelections(c) => SoundSelections(d)
         /\ c.attempt = "creating" => Frozen(c, d)
<1>1. CASE Ready(c) /\ ~IsTerminal(c) /\ Edits(c, d)
  <2>1. /\ d.attempt = c.attempt /\ d.order = c.order
        /\ SoundSelections(c) => SoundSelections(d)
    BY <1>1, EditKeeps
  <2> QED BY <1>1, <2>1 DEF Ready, Finished
<1>2. CASE ~IsTerminal(c) /\ d = ContextExpired(c, d.updatedAt)
  <2>1. /\ d.attempt = c.attempt /\ d.order = c.order /\ d.selections = {}
        /\ d.expiresAt = d.updatedAt
    BY <1>2 DEF ContextExpired, BookingContext
  <2>2. d.updatedAt <= d.updatedAt
    BY DEF BookingContext
  <2>3. SoundSelections(d)
    BY <2>1, NoSelectionsSound
  <2> QED BY <1>2, <2>1, <2>2, <2>3 DEF IsTerminal, Finished, Frozen
<1>3. CASE Ready(c) /\ ~IsTerminal(c) /\ d = OrderBegun(c, d.updatedAt)
  <2>1. /\ d.attempt = "creating" /\ d.order = c.order
        /\ d.selections = c.selections /\ d.options = c.options /\ d.supported = c.supported
    BY <1>3 DEF OrderBegun, BookingContext
  <2> QED BY <1>3, <2>1, SelectionsKeptSound DEF Ready, Finished, AttemptMove
<1>4. CASE Creating(c) /\ ~IsTerminal(c) /\ d = AttemptReset(c, d.updatedAt)
  <2>1. /\ d.attempt = "ready" /\ d.order = c.order /\ d.revision = c.revision
        /\ d.selections = c.selections /\ d.options = c.options /\ d.supported = c.supported
        /\ d.confirmed = c.confirmed
    BY <1>4 DEF AttemptReset, BookingContext
  <2> QED BY <1>4, <2>1, SelectionsKeptSound DEF Creating, Finished, AttemptMove, Frozen
<1>5. ASSUME NEW o, NEW attempt \in {"created", "unknown"}, Creating(c),
             d = OrderFinished(c, attempt, o, d.updatedAt)
      PROVE  /\ ~Finished(c)
             /\ IsTerminal(c) => Creating(c) /\ Finished(d)
             /\ d.attempt = c.attempt \/ <<c.attempt, d.attempt>> \in AttemptMove
             /\ Finished(d) => Restorable(d)
             /\ SoundSelections(c) => SoundSelections(d)
             /\ c.attempt = "creating" => Frozen(c, d)
  <2>1. d.attempt = attempt /\ d.options = {} /\ d.selections = {}
    BY <1>5 DEF OrderFinished, BookingContext
  <2>2. Finished(d) /\ SoundSelections(d)
    BY <2>1, NoSelectionsSound DEF Finished
  <2> QED BY <1>5, <2>1, <2>2 DEF Creating, Finished, Restorable, IsTerminal, AttemptMove, Frozen
<1> QED BY <1>1, <1>2, <1>3, <1>4, <1>5 DEF StoreCall, Attempts

-----------------------------------------------------------------------------
(* How an operation begins.                                                *)

(* The record c is one that a call may make of what the file has.          *)
Calls(b, c) == IF Exists(b) THEN StoreCall(file[b], c) ELSE CreatedContext(c)

(* A transaction retires the revision the file names, unless the new       *)
(* record keeps it.                                                        *)
Retires(b, c, secret, retired) ==
  \/ Exists(b) /\ retired = file[b].revision
  \/ ~Exists(b) /\ retired = NoRevision
  \/ /\ Exists(b) /\ retired = NoRevision /\ secret = NoSecret
     /\ c.revision = file[b].revision /\ ~Finished(c)

Begins(b, c) ==
  /\ txn = NoTxn /\ txn' \in Transaction
  /\ txn'.booking = b /\ txn'.context = c /\ txn'.stage \in {"save", "write"}
  /\ txn'.stage = "save" => txn'.secret # NoSecret
  /\ txn'.secret # NoSecret => txn'.secret = SecretOf(b, c) /\ ~Finished(c)
  /\ Calls(b, c)
  /\ Retires(b, c, txn'.secret, txn'.retired)
  /\ c.updatedAt <= now' /\ c.revision # NoRevision
  /\ UNCHANGED <<file, keyring, faulted>>
  /\ issued' \in Nat /\ now' \in Nat /\ now <= now'

(* No record is stamped later than now, and each names a revision.         *)
Recorded ==
  \A b \in Booking : Exists(b) =>
    file[b].updatedAt <= now /\ file[b].revision # NoRevision

(* A stamp is of the clock as the operation leaves it.                     *)
LEMMA StampIsLater ==
  ASSUME TypeOK, NEW t, Stamp(t)
  PROVE  t \in Nat /\ now' = t /\ now <= t
BY StoreAssumption DEF TypeOK, Stamp

(* Beginning a transaction that only writes.                               *)
LEMMA WriteBegins ==
  ASSUME TypeOK, Recorded, NEW b \in Booking, NEW c \in BookingContext, NEW retired, NEW t,
         Stamp(t), WriteThenClear(b, c, retired),
         c.updatedAt = t, c.revision = file[b].revision, Exists(b), Calls(b, c),
         retired = file[b].revision \/ (retired = NoRevision /\ ~Finished(c))
  PROVE  Begins(b, c)
<1>1. t \in Nat /\ now' = t /\ now <= t
  BY StampIsLater
<1>2. file[b].revision \in Nat /\ file[b].revision # NoRevision /\ retired \in Nat
  BY DEF TypeOK, Exists, BookingContext, Recorded, NoRevision
<1>3. /\ txn' \in Transaction /\ txn'.booking = b /\ txn'.context = c /\ txn'.stage = "write"
      /\ txn'.secret = NoSecret /\ txn'.retired = retired
  BY <1>2 DEF WriteThenClear, Transaction
<1>4. Retires(b, c, NoSecret, retired)
  BY DEF Retires
<1> QED BY <1>1, <1>2, <1>3, <1>4 DEF WriteThenClear, Begins, TypeOK

(* Beginning a transaction that saves a secret.                            *)
LEMMA SaveBegins ==
  ASSUME TypeOK, NEW b \in Booking, NEW c \in BookingContext, NEW retired, NEW t,
         Stamp(t), SaveThenWrite(b, c, retired),
         c.updatedAt = t, c.revision = issued + 1, ~Finished(c), Calls(b, c),
         retired = IF Exists(b) THEN file[b].revision ELSE NoRevision
  PROVE  Begins(b, c)
<1>1. t \in Nat /\ now' = t /\ now <= t /\ issued \in Nat
  BY StampIsLater DEF TypeOK
<1>2. retired \in Nat /\ issued + 1 \in Nat /\ issued + 1 # NoRevision
  BY <1>1 DEF TypeOK, Exists, BookingContext, NoRevision
<1>3. SecretOf(b, c) \in BookingSecrets /\ SecretOf(b, c) # NoSecret
  BY TransactionAssumption DEF SecretOf, BookingSecrets, BookingContext
<1>4. /\ txn' \in Transaction /\ txn'.booking = b /\ txn'.context = c /\ txn'.stage = "save"
      /\ txn'.secret = SecretOf(b, c) /\ txn'.retired = retired
  BY <1>2, <1>3 DEF SaveThenWrite, Transaction
<1>5. Retires(b, c, SecretOf(b, c), retired)
  BY DEF Retires
<1> QED BY <1>1, <1>2, <1>3, <1>4, <1>5 DEF SaveThenWrite, FreshRevision, Begins

(* Every operation begins with a record that its call may make of what the *)
(* file has, and retires what that record will not need.                   *)
LEMMA OperationBegins ==
  ASSUME TypeOK, Recorded, NEW b \in Booking, Operation(b)
  PROVE  \E c \in BookingContext : Begins(b, c)
<1>a. Exists(b) =>
        /\ file[b] \in BookingContext /\ file[b].revision \in Nat
        /\ file[b].updatedAt \in Nat /\ file[b].updatedAt <= now /\ now \in Nat
  BY DEF TypeOK, Exists, BookingContext, Recorded
<1>b. Exists(b) /\ Hydratable(b, file[b]) => ~IsTerminal(file[b])
  BY HydratedRecord
<1>1. CASE CreateFromVerified(b)
  <2>1. PICK g \in Generation, inc \in BOOLEAN, sup \in SUBSET AncillaryKind, t \in now..MaxTime :
          Stamp(t) /\ SaveThenWrite(b, VerifiedContext(g, issued + 1, inc, sup, t, now + Life), NoRevision)
    BY <1>1 DEF CreateFromVerified
  <2>2. ~Exists(b)
    BY <1>1 DEF CreateFromVerified
  <2>3. t \in Nat /\ now + Life \in Nat /\ issued + 1 \in Nat
    BY <2>1, StampIsLater, StoreAssumption DEF TypeOK
  <2> DEFINE c == VerifiedContext(g, issued + 1, inc, sup, t, now + Life)
  <2>4. c \in BookingContext
    BY <2>3, VerifiedIsContext
  <2>5. /\ c.generation = g /\ c.updatedAt = t /\ c.revision = issued + 1
        /\ c.expiresAt = now + Life /\ c.order = NoOrder /\ c.attempt = "ready"
    BY DEF VerifiedContext
  <2> HIDE DEF c
  <2>6. ~Finished(c)
    BY <2>5 DEF Finished
  <2>7. Calls(b, c)
    BY <2>2, <2>5 DEF Calls, CreatedContext, c
  <2> QED BY <2>1, <2>2, <2>4, <2>5, <2>6, <2>7, SaveBegins DEF c
<1>2. CASE ConfirmPrice(b)
  <2>1. PICK t \in now..MaxTime :
          Stamp(t) /\ WriteThenClear(b, PriceConfirmed(file[b], t), NoRevision)
    BY <1>2 DEF ConfirmPrice
  <2>2. Exists(b) /\ Hydratable(b, file[b]) /\ Ready(file[b])
    BY <1>2 DEF ConfirmPrice, ActiveContext
  <2>3. t \in Nat /\ now <= t /\ issued + 1 \in Nat
    BY <2>1, StampIsLater DEF TypeOK
  <2> DEFINE c == PriceConfirmed(file[b], t)
  <2>4. c \in BookingContext
    BY <2>2, <2>3, <1>a, PriceConfirmedIsContext
  <2>5. /\ c.updatedAt = t /\ c.order = file[b].order /\ c.attempt = file[b].attempt
        /\ c.revision = file[b].revision
    BY <1>a, <2>2 DEF PriceConfirmed, BookingContext
  <2> HIDE DEF c
  <2>6. ~Finished(c)
    BY <2>2, <2>5, <1>b DEF Finished, IsTerminal
  <2>7. Calls(b, c)
    <3>1. Edits(file[b], c)
      BY <2>1, <2>5 DEF Edits, c
    <3> QED BY <2>2, <2>3, <2>5, <3>1, <1>a, <1>b DEF Calls, StoreCall
  <2> QED BY <2>1, <2>2, <2>3, <2>4, <2>5, <2>6, <2>7, <1>a, WriteBegins DEF c
<1>3. CASE ReplaceOptions(b)
  <2>1. PICK kind \in AncillaryKind, t \in now..MaxTime, listed \in SUBSET Option :
          /\ listed \in SUBSET OfKind(kind, Option) /\ listed # {} /\ Stamp(t)
          /\ SaveThenWrite(b, OptionsReplaced(file[b], kind, listed, issued + 1, t), file[b].revision)
    BY <1>3 DEF ReplaceOptions, OfKind
  <2>2. Exists(b) /\ Hydratable(b, file[b]) /\ Ready(file[b])
    BY <1>3 DEF ReplaceOptions, ActiveContext
  <2>3. t \in Nat /\ now <= t /\ issued + 1 \in Nat
    BY <2>1, StampIsLater DEF TypeOK
  <2> DEFINE c == OptionsReplaced(file[b], kind, listed, issued + 1, t)
  <2>4. c \in BookingContext
    BY <2>2, <2>3, <1>a, OptionsReplacedIsContext
  <2>5. /\ c.updatedAt = t /\ c.order = file[b].order /\ c.attempt = file[b].attempt
        /\ c.revision = issued + 1
    BY <1>a, <2>2 DEF OptionsReplaced, BookingContext
  <2> HIDE DEF c
  <2>6. ~Finished(c)
    BY <2>2, <2>5, <1>b DEF Finished, IsTerminal
  <2>7. Calls(b, c)
    <3>1. Edits(file[b], c)
      BY <2>1, <2>5 DEF Edits, c
    <3> QED BY <2>2, <2>3, <2>5, <3>1, <1>a, <1>b DEF Calls, StoreCall
  <2> QED BY <2>1, <2>2, <2>3, <2>4, <2>5, <2>6, <2>7, <1>a, SaveBegins DEF c
<1>4. CASE CloseAncillary(b)
  <2>1. PICK kind \in AncillaryKind, t \in now..MaxTime :
          Stamp(t) /\ SaveThenWrite(b, AncillaryClosed(file[b], kind, issued + 1, t), file[b].revision)
    BY <1>4 DEF CloseAncillary
  <2>2. Exists(b) /\ Hydratable(b, file[b]) /\ Ready(file[b])
    BY <1>4 DEF CloseAncillary, ActiveContext
  <2>3. t \in Nat /\ now <= t /\ issued + 1 \in Nat
    BY <2>1, StampIsLater DEF TypeOK
  <2> DEFINE c == AncillaryClosed(file[b], kind, issued + 1, t)
  <2>4. c \in BookingContext
    BY <2>2, <2>3, <1>a, AncillaryClosedIsContext
  <2>5. /\ c.updatedAt = t /\ c.order = file[b].order /\ c.attempt = file[b].attempt
        /\ c.revision = issued + 1
    BY <1>a, <2>2 DEF AncillaryClosed, BookingContext
  <2> HIDE DEF c
  <2>6. ~Finished(c)
    BY <2>2, <2>5, <1>b DEF Finished, IsTerminal
  <2>7. Calls(b, c)
    <3>1. Edits(file[b], c)
      BY <2>1, <2>5 DEF Edits, c
    <3> QED BY <2>2, <2>3, <2>5, <3>1, <1>a, <1>b DEF Calls, StoreCall
  <2> QED BY <2>1, <2>2, <2>3, <2>4, <2>5, <2>6, <2>7, <1>a, SaveBegins DEF c
<1>5. CASE Select(b)
  <2>1. PICK sel \in AncillarySelection, t \in now..MaxTime :
          /\ CurrentSelection(file[b], sel)
          /\ Stamp(t)
          /\ WriteThenClear(b, Selected(file[b], sel, t), NoRevision)
    BY <1>5 DEF Select
  <2>2. Exists(b) /\ Hydratable(b, file[b]) /\ Ready(file[b])
    BY <1>5 DEF Select, ActiveContext
  <2>3. t \in Nat /\ now <= t /\ issued + 1 \in Nat
    BY <2>1, StampIsLater DEF TypeOK
  <2> DEFINE c == Selected(file[b], sel, t)
  <2>4. c \in BookingContext
    BY <2>2, <2>3, <1>a, SelectedIsContext
  <2>5. /\ c.updatedAt = t /\ c.order = file[b].order /\ c.attempt = file[b].attempt
        /\ c.revision = file[b].revision
    BY <1>a, <2>2 DEF Selected, BookingContext
  <2> HIDE DEF c
  <2>6. ~Finished(c)
    BY <2>2, <2>5, <1>b DEF Finished, IsTerminal
  <2>7. Calls(b, c)
    <3>1. Edits(file[b], c)
      BY <2>1, <2>5 DEF Edits, c
    <3> QED BY <2>2, <2>3, <2>5, <3>1, <1>a, <1>b DEF Calls, StoreCall
  <2> QED BY <2>1, <2>2, <2>3, <2>4, <2>5, <2>6, <2>7, <1>a, WriteBegins DEF c
<1>6. CASE Remove(b)
  <2>1. PICK kind \in AncillaryKind, tr \in Traveler, seg \in Segment, t \in now..MaxTime :
          Stamp(t) /\ WriteThenClear(b, SelectionRemoved(file[b], kind, tr, seg, t), NoRevision)
    BY <1>6 DEF Remove
  <2>2. Exists(b) /\ Hydratable(b, file[b]) /\ Ready(file[b])
    BY <1>6 DEF Remove, ActiveContext
  <2>3. t \in Nat /\ now <= t /\ issued + 1 \in Nat
    BY <2>1, StampIsLater DEF TypeOK
  <2> DEFINE c == SelectionRemoved(file[b], kind, tr, seg, t)
  <2>4. c \in BookingContext
    BY <2>2, <2>3, <1>a, SelectionRemovedIsContext
  <2>5. /\ c.updatedAt = t /\ c.order = file[b].order /\ c.attempt = file[b].attempt
        /\ c.revision = file[b].revision
    BY <1>a, <2>2 DEF SelectionRemoved, BookingContext
  <2> HIDE DEF c
  <2>6. ~Finished(c)
    BY <2>2, <2>5, <1>b DEF Finished, IsTerminal
  <2>7. Calls(b, c)
    <3>1. Edits(file[b], c)
      BY <2>1, <2>5 DEF Edits, c
    <3> QED BY <2>2, <2>3, <2>5, <3>1, <1>a, <1>b DEF Calls, StoreCall
  <2> QED BY <2>1, <2>2, <2>3, <2>4, <2>5, <2>6, <2>7, <1>a, WriteBegins DEF c
<1>7. CASE ExpireContext(b)
  <2>1. PICK t \in now..MaxTime :
          Stamp(t) /\ WriteThenClear(b, ContextExpired(file[b], t), file[b].revision)
    BY <1>7 DEF ExpireContext
  <2>2. Exists(b) /\ Hydratable(b, file[b])
    BY <1>7 DEF ExpireContext, ActiveContext
  <2>3. t \in Nat /\ now <= t /\ issued + 1 \in Nat
    BY <2>1, StampIsLater DEF TypeOK
  <2> DEFINE c == ContextExpired(file[b], t)
  <2>4. c \in BookingContext
    BY <2>2, <2>3, <1>a, ContextExpiredIsContext
  <2>5. /\ c.updatedAt = t /\ c.order = file[b].order /\ c.attempt = file[b].attempt
        /\ c.revision = file[b].revision
    BY <1>a, <2>2 DEF ContextExpired, BookingContext
  <2> HIDE DEF c
  <2>6. ~Finished(c)
    BY <2>2, <2>5, <1>b DEF Finished, IsTerminal
  <2>7. Calls(b, c)
    BY <2>2, <2>3, <2>5, <1>a, <1>b DEF Calls, StoreCall, c
  <2> QED BY <2>1, <2>2, <2>3, <2>4, <2>5, <2>6, <2>7, <1>a, WriteBegins DEF c
<1>8. CASE BeginOrder(b)
  <2>1. PICK t \in now..MaxTime :
          Stamp(t) /\ WriteThenClear(b, OrderBegun(file[b], t), NoRevision)
    BY <1>8 DEF BeginOrder
  <2>2. Exists(b) /\ Hydratable(b, file[b]) /\ Ready(file[b]) /\ PriceSettled(file[b])
    BY <1>8 DEF BeginOrder, ActiveContext
  <2>3. t \in Nat /\ now <= t /\ issued + 1 \in Nat
    BY <2>1, StampIsLater DEF TypeOK
  <2> DEFINE c == OrderBegun(file[b], t)
  <2>4. c \in BookingContext
    BY <2>2, <2>3, <1>a, OrderBegunIsContext
  <2>5. /\ c.updatedAt = t /\ c.order = file[b].order /\ c.attempt = "creating"
        /\ c.revision = file[b].revision
    BY <1>a, <2>2 DEF OrderBegun, BookingContext
  <2> HIDE DEF c
  <2>6. ~Finished(c)
    BY <2>2, <2>5, <1>b DEF Finished, IsTerminal
  <2>7. Calls(b, c)
    <3>1. Attempts(file[b], c)
      BY <2>2, <2>5, <1>b DEF Attempts, c
    <3> QED BY <2>2, <2>3, <2>5, <3>1, <1>a DEF Calls, StoreCall
  <2> QED BY <2>1, <2>2, <2>3, <2>4, <2>5, <2>6, <2>7, <1>a, WriteBegins DEF c
<1>9. CASE ResetOrderAttempt(b)
  <2>1. PICK t \in now..MaxTime :
          Stamp(t) /\ WriteThenClear(b, AttemptReset(file[b], t), NoRevision)
    BY <1>9 DEF ResetOrderAttempt
  <2>2. Exists(b) /\ Hydratable(b, file[b]) /\ Creating(file[b])
    BY <1>9 DEF ResetOrderAttempt
  <2>3. t \in Nat /\ now <= t /\ issued + 1 \in Nat
    BY <2>1, StampIsLater DEF TypeOK
  <2> DEFINE c == AttemptReset(file[b], t)
  <2>4. c \in BookingContext
    BY <2>2, <2>3, <1>a, AttemptResetIsContext
  <2>5. /\ c.updatedAt = t /\ c.order = file[b].order /\ c.attempt = "ready"
        /\ c.revision = file[b].revision
    BY <1>a, <2>2 DEF AttemptReset, BookingContext
  <2> HIDE DEF c
  <2>6. ~Finished(c)
    BY <2>2, <2>5, <1>b DEF Finished, IsTerminal
  <2>7. Calls(b, c)
    <3>1. Attempts(file[b], c)
      BY <2>2, <2>5, <1>b DEF Attempts, c
    <3> QED BY <2>2, <2>3, <2>5, <3>1, <1>a DEF Calls, StoreCall
  <2> QED BY <2>1, <2>2, <2>3, <2>4, <2>5, <2>6, <2>7, <1>a, WriteBegins DEF c
<1>10. CASE FinishOrder(b)
  <2>1. PICK t \in now..MaxTime, o \in Order \cup {NoOrder},
             attempt \in {"unknown", "created"} :
          /\ attempt = IF o = NoOrder THEN "unknown" ELSE "created"
          /\ Stamp(t)
          /\ WriteThenClear(b, OrderFinished(file[b], attempt, o, t), file[b].revision)
    BY <1>10 DEF FinishOrder
  <2>2. Exists(b) /\ Creating(file[b])
    BY <1>10 DEF FinishOrder
  <2>3. t \in Nat /\ now <= t
    BY <2>1, StampIsLater
  <2> DEFINE c == OrderFinished(file[b], attempt, o, t)
  <2>4. c \in BookingContext
    <3>1. attempt \in OrderAttemptState
      BY DEF OrderAttemptState
    <3> QED BY <3>1, <2>2, <2>3, <1>a, OrderFinishedIsContext
  <2>5. c.updatedAt = t /\ c.revision = file[b].revision
    BY <1>a, <2>2 DEF OrderFinished, BookingContext
  <2> HIDE DEF c
  <2>6. Attempts(file[b], c)
    <3>1. CASE o = NoOrder
      BY <2>1, <2>2, <2>5, <3>1 DEF Attempts, c
    <3>2. CASE o # NoOrder
      BY <2>1, <2>2, <2>5, <3>2 DEF Attempts, c
    <3> QED BY <3>1, <3>2
  <2>7. Calls(b, c)
    BY <2>2, <2>3, <2>5, <2>6, <1>a DEF Calls, StoreCall
  <2> QED BY <2>1, <2>2, <2>4, <2>5, <2>7, WriteBegins DEF c
<1> QED
  BY <1>1, <1>2, <1>3, <1>4, <1>5, <1>6, <1>7, <1>8, <1>9, <1>10 DEF Operation

-----------------------------------------------------------------------------
(* The store, whatever fails.                                              *)

(* A transaction that has not written yet will make of the record what its *)
(* call promises for the record as it still is.                            *)
CallPending == At("save") \/ At("write") => Calls(txn.booking, txn.context)

Pending ==
  txn # NoTxn =>
    /\ txn.context.updatedAt <= now /\ txn.context.revision # NoRevision
    /\ txn.secret # NoSecret =>
         txn.secret = SecretOf(txn.booking, txn.context) /\ ~Finished(txn.context)

OutcomesBare ==
  /\ \A b \in Booking : Exists(b) /\ Finished(file[b]) => Restorable(file[b])
  /\ txn # NoTxn /\ Finished(txn.context) => Restorable(txn.context)

RecordsSound ==
  /\ SelectionsSound
  /\ txn # NoTxn => SoundSelections(txn.context)

LifeInv ==
  /\ TypeOK
  /\ SecretForStage
  /\ Recorded
  /\ Pending
  /\ CallPending
  /\ OutcomesBare
  /\ RecordsSound

(* The transaction goes on with the same records.                          *)
SameRecords ==
  /\ txn # NoTxn /\ txn' # NoTxn
  /\ txn'.booking = txn.booking /\ txn'.context = txn.context
  /\ txn'.secret = txn.secret /\ txn'.retired = txn.retired

(* What a step of the transaction in progress, or of nobody, does: nothing *)
(* to the file, or the pending record replaces the booking's.              *)
LEMMA WriteSteps ==
  ASSUME TypeOK, SecretForStage, Write \/ Crash \/ Tick \/ UNCHANGED vars
  PROVE  /\ TypeOK' /\ SecretForStage'
         /\ UNCHANGED file \/ (At("write") /\ Replace)
         /\ now <= now'
         /\ \/ txn' = NoTxn
            \/ UNCHANGED <<txn, file>>
            \/ /\ SameRecords
               /\ \/ txn'.stage \in {"clear", "undo"}
                  \/ txn.stage = "save" /\ UNCHANGED file
<1>a. ASSUME txn # NoTxn, Replace
      PROVE  file' \in [Booking -> BookingContext \cup {NoContext}]
  BY <1>a, TransactionRecord DEF TypeOK, Replace, Written
<1>b. ASSUME At("write"), UndoWrite, faulted' \in BOOLEAN, UNCHANGED file \/ Replace
      PROVE  /\ TypeOK' /\ SecretForStage'
             /\ txn' = NoTxn \/ (SameRecords /\ txn'.stage = "undo")
  <2>1. txn # NoTxn /\ file' \in [Booking -> BookingContext \cup {NoContext}]
    BY <1>a, <1>b DEF At, TypeOK
  <2>2. txn' = NoTxn \/ (txn' \in Transaction /\ SameRecords /\ txn'.stage = "undo" /\ txn'.secret # NoSecret)
    BY <1>b, <2>1, TransactionRecord, TransactionAssumption DEF UndoWrite, Release, SameRecords
  <2>3. TypeOK'
    BY <1>b, <2>1, <2>2 DEF TypeOK, UndoWrite
  <2> QED BY <2>1, <2>2, <2>3 DEF SecretForStage, At
<1>c. ASSUME Release, UNCHANGED <<now, file, issued>>, keyring' \subseteq BookingSecrets,
             faulted' \in BOOLEAN
      PROVE  TypeOK' /\ SecretForStage' /\ now <= now'
  BY <1>c DEF TypeOK, SecretForStage, At, Release
<1>d. now \in Nat
  BY DEF TypeOK
<1>1. CASE SaveSecret
  <2>1. txn # NoTxn /\ txn.stage = "save" /\ UNCHANGED <<now, file, issued, faulted>>
    BY <1>1 DEF SaveSecret, At
  <2>2. txn' \in Transaction /\ SameRecords /\ txn'.stage = "write"
    BY <1>1, <2>1, TransactionRecord, TransactionAssumption DEF SaveSecret, SameRecords
  <2>3. txn.secret \in BookingSecrets
    BY <2>1, TransactionRecord DEF SecretForStage, At
  <2>4. TypeOK'
    BY <1>1, <2>1, <2>2, <2>3 DEF SaveSecret, TypeOK
  <2>5. SecretForStage'
    BY <2>2 DEF SecretForStage, At
  <2> QED BY <1>d, <2>1, <2>2, <2>4, <2>5
<1>2. CASE SaveSecretFails
  <2>1. txn # NoTxn /\ txn.secret \in BookingSecrets
    BY <1>2, TransactionRecord DEF SaveSecretFails, SecretForStage, At
  <2>2. keyring' \subseteq BookingSecrets
    BY <1>2, <2>1 DEF SaveSecretFails, TypeOK
  <2> QED BY <1>2, <1>c, <2>2 DEF SaveSecretFails, Release
<1>3. CASE AtomicWrite
  <2>1. txn # NoTxn /\ At("write") /\ Replace /\ UNCHANGED <<now, keyring, issued, faulted>>
    BY <1>3 DEF AtomicWrite, At
  <2>2. txn' = NoTxn \/ (txn' \in Transaction /\ SameRecords /\ txn'.stage = "clear")
    BY <1>3, <2>1, TransactionRecord, TransactionAssumption DEF AtomicWrite, Release, SameRecords
  <2>3. TypeOK'
    BY <1>a, <2>1, <2>2 DEF TypeOK
  <2>4. SecretForStage'
    BY <2>2 DEF SecretForStage, At
  <2> QED BY <1>d, <2>1, <2>2, <2>3, <2>4
<1>4. CASE AtomicWriteFails
  <2>1. At("write") /\ UndoWrite /\ faulted' \in BOOLEAN /\ (UNCHANGED file \/ Replace)
    BY <1>4 DEF AtomicWriteFails, Replace, TypeOK
  <2>2. UNCHANGED now
    BY <2>1 DEF UndoWrite
  <2> QED BY <1>b, <1>d, <2>1, <2>2
<1>6. CASE ClearRetired \/ ClearSaved
  <2>1. Release /\ UNCHANGED <<now, file, issued, faulted>> /\ keyring' \subseteq keyring
    BY <1>6 DEF ClearRetired, ClearSaved, Cleared
  <2> QED BY <1>c, <2>1 DEF TypeOK, Release
<1>7. CASE ClearFails \/ Crash
  <2>1. Release /\ UNCHANGED <<now, file, keyring, issued>> /\ faulted' = TRUE
    BY <1>7 DEF ClearFails, Crash
  <2> QED BY <1>c, <2>1 DEF TypeOK, Release
<1>8. CASE Tick \/ UNCHANGED vars
  <2>1. UNCHANGED <<file, keyring, issued, txn, faulted>> /\ now' \in Nat /\ now <= now'
    BY <1>8, <1>d DEF Tick, vars
  <2> QED BY <2>1 DEF TypeOK, SecretForStage, At
<1> QED
  BY <1>1, <1>2, <1>3, <1>4, <1>6, <1>7, <1>8 DEF Write

(* What the pending record has of the invariant, the booking has when it is*)
(* written.                                                                *)
LEMMA CallIsSound ==
  ASSUME LifeInv, NEW b \in Booking, NEW c \in BookingContext, Calls(b, c)
  PROVE  /\ Finished(c) => Restorable(c)
         /\ SoundSelections(c)
<1>1. CASE Exists(b)
  <2>1. file[b] \in BookingContext /\ SoundSelections(file[b]) /\ StoreCall(file[b], c)
    BY <1>1 DEF LifeInv, TypeOK, Exists, RecordsSound, SelectionsSound, Calls
  <2> QED BY <2>1, CallKeeps
<1>2. CASE ~Exists(b)
  <2>1. c.attempt = "ready" /\ c.order = NoOrder /\ c.selections = {}
    BY <1>2 DEF Calls, CreatedContext, VerifiedContext
  <2> QED BY <2>1, NoSelectionsSound DEF Finished
<1> QED BY <1>1, <1>2

(* One step of the store.                                                  *)
LEMMA LifeStep ==
  ASSUME LifeInv, [Next]_vars
  PROVE  /\ LifeInv'
         /\ UNCHANGED file \/ (At("write") /\ Replace)
<1> TypeOK /\ SecretForStage /\ Recorded /\ Pending /\ CallPending /\ OutcomesBare /\ RecordsSound
  BY DEF LifeInv
<1>a. /\ now \in Nat
      /\ \A b \in Booking : Exists(b) => file[b].updatedAt \in Nat
      /\ txn # NoTxn => txn.context.updatedAt \in Nat
  BY TransactionRecord DEF TypeOK, Exists, BookingContext
<1>1. ASSUME NEW b \in Booking, Operation(b)
      PROVE  LifeInv' /\ UNCHANGED file
  <2>1. PICK c \in BookingContext : Begins(b, c)
    BY <1>1, OperationBegins
  <2>2. /\ txn' # NoTxn /\ txn'.context = c /\ txn'.booking = b /\ UNCHANGED file
        /\ now' \in Nat /\ now <= now' /\ c.updatedAt <= now' /\ c.revision # NoRevision
    BY <2>1, TransactionAssumption DEF Begins
  <2>3. TypeOK'
    BY <2>1 DEF Begins, TypeOK
  <2>4. (Finished(c) => Restorable(c)) /\ SoundSelections(c)
    BY <2>1, CallIsSound DEF Begins
  <2>5. SecretForStage' /\ OutcomesBare' /\ RecordsSound'
    BY <2>1, <2>2, <2>4 DEF Begins, SecretForStage, OutcomesBare, RecordsSound, SelectionsSound, At, Exists
  <2>6. Recorded'
    BY <1>a, <2>2 DEF Recorded, Exists
  <2>7. Pending' /\ CallPending'
    BY <2>1, <2>2 DEF Begins, Pending, CallPending, Calls, Exists
  <2> QED BY <2>2, <2>3, <2>5, <2>6, <2>7 DEF LifeInv
<1>2. ASSUME Write \/ Crash \/ Tick \/ UNCHANGED vars
      PROVE  LifeInv' /\ (UNCHANGED file \/ (At("write") /\ Replace))
  <2>1. TypeOK' /\ SecretForStage' /\ (UNCHANGED file \/ (At("write") /\ Replace)) /\ now <= now'
    BY <1>2, WriteSteps
  <2>2. \/ txn' = NoTxn
        \/ UNCHANGED <<txn, file>>
        \/ /\ SameRecords
           /\ \/ txn'.stage \in {"clear", "undo"}
              \/ txn.stage = "save" /\ UNCHANGED file
    BY <1>2, WriteSteps
  <2>n. now \in Nat /\ now' \in Nat
    BY <2>1 DEF TypeOK
  <2>3. \A b \in Booking : Exists(b)' =>
          /\ Finished(file'[b]) => Restorable(file'[b])
          /\ SoundSelections(file'[b])
          /\ file'[b].updatedAt <= now' /\ file'[b].revision # NoRevision
    <3>1. CASE UNCHANGED file
      BY <1>a, <2>1, <2>n, <3>1 DEF OutcomesBare, RecordsSound, SelectionsSound, Exists, Recorded
    <3>2. CASE At("write") /\ Replace
      <4>1. txn # NoTxn /\ \A b \in Booking : file'[b] = txn.context \/ file'[b] = file[b]
        BY <3>2 DEF At, Replace, Written, TypeOK
      <4> QED BY <1>a, <2>1, <2>n, <4>1 DEF OutcomesBare, RecordsSound, SelectionsSound, Exists, Recorded, Pending
    <3> QED BY <2>1, <3>1, <3>2
  <2>4. OutcomesBare' /\ RecordsSound' /\ Recorded'
    BY <2>2, <2>3 DEF OutcomesBare, RecordsSound, SelectionsSound, Recorded, SameRecords
  <2>5. Pending'
    <3>1. CASE txn' = NoTxn
      BY <3>1 DEF Pending
    <3>2. CASE txn' = txn
      BY <1>a, <2>1, <2>n, <3>2 DEF Pending
    <3>3. CASE SameRecords
      BY <1>a, <2>1, <2>n, <3>3 DEF Pending, SameRecords, SecretOf
    <3> QED BY <2>2, <3>1, <3>2, <3>3
  <2>6. CallPending'
    BY <2>2 DEF CallPending, Calls, At, Exists, SameRecords
  <2> QED BY <2>1, <2>4, <2>5, <2>6 DEF LifeInv
<1> QED BY <1>1, <1>2 DEF Next

(* The invariant behind the theorems that hold whatever fails.             *)
LEMMA LifeInvariant == Spec => []LifeInv
<1>1. Init => LifeInv
  <2> SUFFICES ASSUME Init PROVE LifeInv
    OBVIOUS
  <2>1. TypeOK
    BY DEF Init, TypeOK
  <2>2. (\A b \in Booking : ~Exists(b)) /\ txn = NoTxn
    BY DEF Init, Exists
  <2> QED BY <2>1, <2>2 DEF LifeInv, SecretForStage, OutcomesBare, CallPending, Pending, Recorded,
    RecordsSound, SelectionsSound, At
<1>2. LifeInv /\ [Next]_vars => LifeInv'
  BY LifeStep
<1> QED BY <1>1, <1>2, PTL DEF Spec

(* The records the store writes are well-formed, whatever fails.           *)
THEOREM StoreTypeOK == Spec => []TypeOK
<1>1. LifeInv => TypeOK
  BY DEF LifeInv
<1> QED BY <1>1, LifeInvariant, PTL

(* An outcome, known or unknown, can be read back without the keyring.     *)
THEOREM OutcomesRestorable == Spec => []FinishedRestorable
<1>1. LifeInv => FinishedRestorable
  BY DEF LifeInv, OutcomesBare, FinishedRestorable
<1> QED BY <1>1, LifeInvariant, PTL

(* The selections an order would be made of are sound in every state: edits*)
(* of options, kinds and selections, in any order and failing anywhere,    *)
(* leave no selection without its option, no slot taken twice and no two   *)
(* bags of one traveler that differ on connected segments.                 *)
THEOREM SelectionsAlwaysSound == Spec => []SelectionsSound
<1>1. LifeInv => SelectionsSound
  BY DEF LifeInv, RecordsSound
<1> QED BY <1>1, LifeInvariant, PTL

(* A step changes no record, or one, as a call promises.                   *)
LEMMA FileSteps ==
  ASSUME LifeInv, [Next]_vars
  PROVE  \/ UNCHANGED file
         \/ \E b \in Booking, c \in BookingContext :
              /\ c # NoContext /\ Calls(b, c)
              /\ file' = [file EXCEPT ![b] = c]
              /\ file'[b] = c /\ \A k \in Booking : k # b => file'[k] = file[k]
<1>1. SUFFICES ASSUME At("write"), Replace
               PROVE  \E b \in Booking, c \in BookingContext :
                        /\ c # NoContext /\ Calls(b, c)
                        /\ file' = [file EXCEPT ![b] = c]
                        /\ file'[b] = c /\ \A k \in Booking : k # b => file'[k] = file[k]
  BY LifeStep
<1>2. /\ txn # NoTxn /\ txn.booking \in Booking
      /\ txn.context \in BookingContext /\ txn.context # NoContext
  BY <1>1, TransactionRecord DEF LifeInv, At
<1>3. Calls(txn.booking, txn.context)
  BY <1>1 DEF LifeInv, CallPending
<1>4. /\ file' = [file EXCEPT ![txn.booking] = txn.context]
      /\ file'[txn.booking] = txn.context
      /\ \A k \in Booking : k # txn.booking => file'[k] = file[k]
  BY <1>1, <1>2 DEF Replace, Written, LifeInv, TypeOK
<1> QED BY <1>2, <1>3, <1>4

(* An attempt moves only as its life allows, an outcome never changes, a   *)
(* record terminal by its stamp takes the outcome of its attempt only, and *)
(* nothing an order is made of changes while it is being created.          *)
THEOREM AttemptLife == Spec => AttemptSteps
<1> DEFINE Step ==
      \A b \in Booking : Exists(b) =>
        /\ Exists(b)'
        /\ \/ file'[b].attempt = file[b].attempt
           \/ <<file[b].attempt, file'[b].attempt>> \in AttemptMove
        /\ IsTerminal(file[b]) =>
             file'[b] = file[b] \/ (Creating(file[b]) /\ Finished(file'[b]))
        /\ file[b].attempt = "creating" => Frozen(file[b], file'[b])
<1>1. LifeInv /\ [Next]_vars => Step
  <2> SUFFICES ASSUME LifeInv, [Next]_vars, NEW b \in Booking, Exists(b)
               PROVE  /\ Exists(b)'
                      /\ \/ file'[b].attempt = file[b].attempt
                         \/ <<file[b].attempt, file'[b].attempt>> \in AttemptMove
                      /\ IsTerminal(file[b]) =>
                           file'[b] = file[b] \/ (Creating(file[b]) /\ Finished(file'[b]))
                      /\ file[b].attempt = "creating" => Frozen(file[b], file'[b])
    OBVIOUS
  <2>1. CASE file'[b] = file[b]
    BY <2>1 DEF Exists, Frozen
  <2>2. ASSUME NEW c \in BookingContext, c # NoContext, Calls(b, c), file'[b] = c
        PROVE  /\ Exists(b)'
               /\ \/ file'[b].attempt = file[b].attempt
                  \/ <<file[b].attempt, file'[b].attempt>> \in AttemptMove
               /\ IsTerminal(file[b]) =>
                    file'[b] = file[b] \/ (Creating(file[b]) /\ Finished(file'[b]))
               /\ file[b].attempt = "creating" => Frozen(file[b], file'[b])
    <3>1. file[b] \in BookingContext /\ StoreCall(file[b], c)
      BY <2>2 DEF LifeInv, TypeOK, Exists, Calls
    <3> QED BY <2>2, <3>1, CallKeeps DEF Exists
  <2> QED BY <2>1, <2>2, FileSteps
<1> HIDE DEF Step
<1>2. Spec => [][Step]_vars
  BY <1>1, LifeInvariant, PTL DEF Spec
<1> QED BY <1>2 DEF AttemptSteps, Step

-----------------------------------------------------------------------------
(* The file and the keyring, with the operations of any number of          *)
(* processes, implement a store whose calls are atomic: whatever fails, and*)
(* wherever a process dies, the records change by whole calls only, each   *)
(* as it promises for the record it replaces.                              *)
THEOREM StoreIsAtomic == Spec => AtomicSpec
<1>1. Init => Atomic!Init
  BY DEF Init, Atomic!Init
<1>2. LifeInv /\ [Next]_vars => [Atomic!Next]_file
  <2> SUFFICES ASSUME LifeInv, [Next]_vars, ~UNCHANGED file
               PROVE  Atomic!Next
    OBVIOUS
  <2>1. PICK b \in Booking, c \in BookingContext :
          /\ c # NoContext /\ Calls(b, c)
          /\ file' = [file EXCEPT ![b] = c]
          /\ file'[b] = c
    BY FileSteps
  <2>2. Atomic!Call(b)
    BY <2>1 DEF Atomic!Call, Calls, Exists
  <2> QED BY <2>2 DEF Atomic!Next
<1>3. Spec => Atomic!Init /\ [][Atomic!Next]_file
  BY <1>1, <1>2, LifeInvariant, PTL DEF Spec
<1> QED BY <1>3 DEF AtomicSpec, Atomic!Spec

-----------------------------------------------------------------------------
(* No secret outlives its use, unless a process died or the keyring failed.*)

RetiresPending ==
  At("save") \/ At("write") => Retires(txn.booking, txn.context, txn.secret, txn.retired)

Current(s) ==
  /\ Exists(s.booking)
  /\ s.revision = file[s.booking].revision
  /\ ~Finished(file[s.booking])

(* The transaction in progress will make the secret current, or clear it.  *)
OfTxn(s) ==
  \/ /\ At("write") \/ At("undo")
     /\ txn.secret # NoSecret /\ Matches(s, txn.booking, txn.context.revision)
  \/ At("clear") /\ Matches(s, txn.booking, txn.retired)

KeyringAccounted == ~faulted => \A s \in keyring : Current(s) \/ OfTxn(s)

StrayInv == LifeInv /\ RetiresPending /\ KeyringAccounted

(* The replacement of the file makes the saved secret current, and leaves  *)
(* the one it replaces to the clear that follows.                          *)
LEMMA ReplaceAccounts ==
  ASSUME StrayInv, ~faulted, At("write"), Replace,
         NEW s \in keyring, Current(s) \/ OfTxn(s)
  PROVE  \/ Current(s)'
         \/ txn.retired # NoRevision /\ Matches(s, txn.booking, txn.retired)
<1>1. /\ txn # NoTxn /\ txn.stage = "write" /\ txn.booking \in Booking
      /\ txn.context \in BookingContext /\ txn.context # NoContext
  BY TransactionRecord DEF StrayInv, LifeInv, At
<1>2. s.booking \in Booking
  BY DEF StrayInv, LifeInv, TypeOK, BookingSecrets
<1>3. /\ file'[txn.booking] = txn.context
      /\ \A k \in Booking : k # txn.booking => file'[k] = file[k]
  BY <1>1 DEF Replace, Written, StrayInv, LifeInv, TypeOK
<1>4. CASE s.booking # txn.booking
  BY <1>1, <1>2, <1>3, <1>4 DEF Current, OfTxn, Matches, At, Exists
<1>5. CASE s.booking = txn.booking /\ Current(s)
  <2>1. Retires(txn.booking, txn.context, txn.secret, txn.retired)
    BY DEF StrayInv, RetiresPending
  <2>2. file[txn.booking].revision # NoRevision
    BY <1>1, <1>5 DEF StrayInv, LifeInv, Recorded, Current
  <2> QED BY <1>1, <1>3, <1>5, <2>1, <2>2 DEF Retires, Current, Matches, Exists
<1>6. CASE s.booking = txn.booking /\ OfTxn(s)
  <2>1. txn.secret # NoSecret /\ s.revision = txn.context.revision
    BY <1>1, <1>6 DEF OfTxn, At, Matches
  <2>2. ~Finished(txn.context)
    BY <1>1, <2>1 DEF StrayInv, LifeInv, Pending
  <2> QED BY <1>1, <1>3, <1>6, <2>1, <2>2 DEF Current, Exists
<1> QED BY <1>4, <1>5, <1>6

(* Each write keeps the keyring accounted for.                             *)
LEMMA WriteAccounts ==
  ASSUME StrayInv, Write
  PROVE  KeyringAccounted'
<1> SUFFICES ASSUME ~faulted' PROVE (\A s \in keyring : Current(s) \/ OfTxn(s))'
  BY DEF KeyringAccounted
<1> LifeInv /\ TypeOK /\ SecretForStage /\ Pending
  BY DEF StrayInv, LifeInv
<1>1. CASE SaveSecret
  <2>1. txn # NoTxn /\ txn.stage = "save" /\ UNCHANGED file /\ ~faulted
    BY <1>1 DEF SaveSecret, At
  <2>2. /\ txn' # NoTxn /\ txn'.stage = "write" /\ txn'.booking = txn.booking
        /\ txn'.context = txn.context /\ txn'.secret = txn.secret
    BY <1>1, <2>1, TransactionRecord, TransactionAssumption DEF SaveSecret
  <2>3. txn.secret # NoSecret /\ txn.secret = SecretOf(txn.booking, txn.context)
    BY <2>1 DEF SecretForStage, At, Pending
  <2>4. OfTxn(txn.secret)'
    BY <2>2, <2>3 DEF OfTxn, At, Matches, SecretOf
  <2>5. \A s \in keyring : Current(s)'
    BY <2>1 DEF StrayInv, KeyringAccounted, Current, OfTxn, At, Exists
  <2>6. keyring' = keyring \cup {txn.secret} /\ txn'.secret = txn.secret
    BY <1>1, <2>2 DEF SaveSecret
  <2> QED BY <2>2, <2>4, <2>5, <2>6 DEF OfTxn, At, Matches, Current, Exists
<1>2. CASE SaveSecretFails \/ ClearFails
  BY <1>2 DEF SaveSecretFails, ClearFails
<1>3. CASE AtomicWrite
  <2>1. /\ txn # NoTxn /\ At("write") /\ Replace /\ keyring' = keyring /\ ~faulted
    BY <1>3 DEF AtomicWrite, At
  <2>2. txn.retired # NoRevision =>
          txn' # NoTxn /\ txn'.stage = "clear" /\ txn'.booking = txn.booking /\ txn'.retired = txn.retired
    BY <1>3, <2>1, TransactionRecord, TransactionAssumption DEF AtomicWrite
  <2>3. \A s \in keyring :
          Current(s)' \/ (txn.retired # NoRevision /\ Matches(s, txn.booking, txn.retired))
    BY <2>1, ReplaceAccounts DEF StrayInv, KeyringAccounted
  <2>4. \A s \in keyring : txn.retired # NoRevision /\ Matches(s, txn.booking, txn.retired) => OfTxn(s)'
    BY <2>2 DEF OfTxn, At, Matches
  <2> QED BY <2>1, <2>3, <2>4 DEF Current, OfTxn
<1>4. CASE AtomicWriteFails
  <2>a. PICK replaced \in BOOLEAN :
          /\ file' = IF replaced THEN Written ELSE file
          /\ faulted' = (faulted \/ replaced)
    BY <1>4, Zenon DEF AtomicWriteFails
  <2>b. ~replaced /\ ~faulted
    BY <2>a, Zenon
  <2>1. /\ txn # NoTxn /\ txn.stage = "write" /\ file' = file /\ keyring' = keyring /\ ~faulted
    BY <1>4, <2>a, <2>b, Zenon DEF AtomicWriteFails, UndoWrite, At
  <2>2. \A s \in keyring :
          \/ Current(s)'
          \/ txn.secret # NoSecret /\ Matches(s, txn.booking, txn.context.revision)
    BY <2>1 DEF StrayInv, KeyringAccounted, Current, OfTxn, At, Exists
  <2>3. txn.secret # NoSecret =>
          /\ txn' # NoTxn /\ txn'.stage = "undo" /\ txn'.booking = txn.booking
          /\ txn'.context = txn.context /\ txn'.secret = txn.secret
    BY <1>4, <2>1, TransactionRecord, TransactionAssumption DEF AtomicWriteFails, UndoWrite
  <2>4. \A s \in keyring :
          txn.secret # NoSecret /\ Matches(s, txn.booking, txn.context.revision) => OfTxn(s)'
    BY <2>3 DEF OfTxn, At, Matches
  <2> QED BY <2>1, <2>2, <2>4 DEF Current, OfTxn
<1>5. CASE ClearRetired \/ ClearSaved
  <2>1. /\ txn # NoTxn /\ UNCHANGED file /\ ~faulted
        /\ \/ txn.stage = "clear" /\ keyring' = Cleared(txn.booking, txn.retired)
           \/ txn.stage = "undo" /\ keyring' = Cleared(txn.booking, txn.secret.revision)
    BY <1>5 DEF ClearRetired, ClearSaved, At
  <2>2. txn.stage = "undo" => txn.secret.revision = txn.context.revision
    BY <2>1 DEF SecretForStage, Pending, SecretOf, At
  <2>3. \A s \in keyring' : s \in keyring /\ Current(s)
    BY <2>1, <2>2 DEF StrayInv, KeyringAccounted, OfTxn, At, Cleared, Matches
  <2> QED BY <2>1, <2>3 DEF Current, Exists
<1> QED BY <1>1, <1>2, <1>3, <1>4, <1>5 DEF Write

(* What is retired stays what it was until the record is written.          *)
LEMMA RetiresKept ==
  ASSUME LifeInv, RetiresPending, Write \/ Crash \/ Tick \/ UNCHANGED vars
  PROVE  RetiresPending'
<1>1. TypeOK /\ SecretForStage
  BY DEF LifeInv
<1>2. \/ txn' = NoTxn
      \/ UNCHANGED <<txn, file>>
      \/ /\ SameRecords
         /\ \/ txn'.stage \in {"clear", "undo"}
            \/ txn.stage = "save" /\ UNCHANGED file
  BY <1>1, WriteSteps
<1> QED BY <1>2 DEF RetiresPending, Retires, At, Exists, SameRecords

(* No secret outlives its use: between operations, unless a process died or*)
(* the keyring failed, the keyring holds only the current revisions of     *)
(* bookings whose order attempt is not over.                               *)
THEOREM NoSecretLeft == Spec => []NoStraySecret
<1>1. Init => LifeInv /\ RetiresPending /\ KeyringAccounted
  <2> SUFFICES ASSUME Init PROVE LifeInv /\ RetiresPending /\ KeyringAccounted
    OBVIOUS
  <2>1. TypeOK
    BY DEF Init, TypeOK
  <2>2. (\A b \in Booking : ~Exists(b)) /\ txn = NoTxn /\ keyring = {}
    BY DEF Init, Exists
  <2> QED BY <2>1, <2>2 DEF LifeInv, SecretForStage, OutcomesBare, CallPending, Pending, Recorded,
    RecordsSound, SelectionsSound, At, RetiresPending, KeyringAccounted
<1>2. StrayInv /\ [Next]_vars => StrayInv'
  <2> SUFFICES ASSUME StrayInv, [Next]_vars
               PROVE  RetiresPending' /\ KeyringAccounted'
    BY LifeStep DEF StrayInv
  <2>1. ASSUME NEW b \in Booking, Operation(b)
        PROVE  RetiresPending' /\ KeyringAccounted'
    <3>1. PICK c \in BookingContext : Begins(b, c)
      BY <2>1, OperationBegins DEF StrayInv, LifeInv
    <3>2. /\ txn = NoTxn /\ UNCHANGED <<file, keyring, faulted>>
          /\ txn'.booking = b /\ txn'.context = c
          /\ Retires(b, c, txn'.secret, txn'.retired)
      BY <3>1 DEF Begins
    <3>3. RetiresPending'
      BY <3>2 DEF RetiresPending, Retires, Exists
    <3>4. KeyringAccounted'
      BY <3>2 DEF StrayInv, KeyringAccounted, Current, OfTxn, At, Exists
    <3> QED BY <3>3, <3>4
  <2>2. CASE Write
    BY <2>2, RetiresKept, WriteAccounts DEF StrayInv
  <2>3. CASE Crash
    BY <2>3, RetiresKept DEF StrayInv, KeyringAccounted, Crash
  <2>4. CASE Tick \/ UNCHANGED vars
    <3>1. UNCHANGED <<file, keyring, txn, faulted>>
      BY <2>4 DEF Tick, vars
    <3> QED BY <2>4, <3>1, RetiresKept DEF StrayInv, KeyringAccounted, Current, OfTxn, Exists, At
  <2> QED BY <2>1, <2>2, <2>3, <2>4 DEF Next
<1>3. StrayInv => NoStraySecret
  BY DEF StrayInv, KeyringAccounted, NoStraySecret, Current, OfTxn, At
<1>4. Init => StrayInv
  BY <1>1 DEF StrayInv
<1> QED BY <1>2, <1>3, <1>4, PTL DEF Spec

=============================================================================
