---------------------- MODULE AncillaryService_proofs ----------------------
(***************************************************************************)
(* Proofs about AncillaryService, for any number of commands, options,     *)
(* segments and travelers, and any life of the booking: the types, that a  *)
(* kind is closed only when the upstream declined it, that selections come *)
(* and go by the commands they belong to, and that all the commands do to  *)
(* the booking is to call the store.                                       *)
(***************************************************************************)
EXTENDS AncillaryService, TLAPS

(* The record of the booking is stamped by the clock.                      *)
Stamped == ctx.updatedAt <= now

(* A command holds listed options only between its reading and its store   *)
(* call, a listing stores some, and one that is about to close a kind was  *)
(* told so.                                                                *)
AncillaryInv ==
  /\ TypeOK
  /\ Stamped
  /\ \A p \in Process :
       /\ pc[p] # "storing" => listed[p] = {}
       /\ pc[p] = "storing" /\ job[p].op = "list" => listed[p] # {}
       /\ pc[p] = "closing" => job[p].kind \in declined
  /\ ClosedOnlyWhenDeclined

-----------------------------------------------------------------------------
(* The status table and the service's own sets of statuses agree: an       *)
(* answer that closes a kind declines it, whatever was read before it.     *)
LEMMA ClosingDeclines ==
  ASSUME NEW kind \in AncillaryKind, NEW at, NEW a \in Answer(kind),
         AfterRead(kind, at, a) = "closing"
  PROVE  Declines(kind, a)
<1>1. (a.status = 0 /\ a.listed = {}) \/ Downgrades(kind, a)
  BY DEF AfterRead
<1>2. CASE Downgrades(kind, a) /\ kind = "baggage"
  BY <1>2 DEF Downgrades, Declines, Unavailable, RetryableStatus, SuccessStatus
<1>3. CASE Downgrades(kind, a) /\ kind = "seat"
  BY <1>3 DEF Downgrades, Declines, Unavailable, RetryableStatus, SuccessStatus
<1> QED BY <1>1, <1>2, <1>3 DEF Declines, AncillaryKind

(* Only the answer that lists options lets a command go on to store them,  *)
(* and they are of the kind it asked for.                                  *)
LEMMA ReadingLists ==
  ASSUME NEW kind \in AncillaryKind, NEW at, NEW a \in Answer(kind)
  PROVE  /\ AfterRead(kind, at, a) \in {"rereading", "storing", "closing", "over"}
         /\ a.listed \subseteq OfKind(kind, Option)
         /\ AfterRead(kind, at, a) # "storing" <=> a.listed = {}
<1>1. AfterRead(kind, at, a) \in {"rereading", "storing", "closing", "over"}
  BY DEF AfterRead
<1>2. a.listed \subseteq OfKind(kind, Option)
  BY DEF Answer
<1>3. ASSUME a.listed # {}
      PROVE  AfterRead(kind, at, a) = "storing"
  <2>1. a.status = 0
    BY <1>3 DEF Answer
  <2>2. ~Transient(kind, a)
    BY <2>1 DEF Transient, RetryableStatus, NoResponse, AncillaryKind
  <2> QED BY <1>3, <2>1, <2>2 DEF AfterRead
<1>4. ASSUME AfterRead(kind, at, a) = "storing"
      PROVE  a.listed # {}
  BY <1>4 DEF AfterRead
<1> QED BY <1>1, <1>2, <1>3, <1>4

(* The clock and its stamps are naturals.                                  *)
LEMMA StampsAreNat ==
  ASSUME now \in Nat, NEW t \in now..MaxTime
  PROVE  t \in Nat
BY AncillaryAssumption

-----------------------------------------------------------------------------
(* What changes the booking is a call of the store.                        *)

(* A call of the store makes a record of a record.                         *)
LEMMA CallIsContext ==
  ASSUME NEW c \in BookingContext, NEW d, StoreCall(c, d),
         d.updatedAt \in Nat, d.revision \in Nat
  PROVE  d \in BookingContext
<1> DEFINE t == d.updatedAt
           r == d.revision
<1>1. ASSUME NEW kind \in AncillaryKind, NEW offered \in SUBSET OfKind(kind, Option),
             d = OptionsReplaced(c, kind, offered, r, t)
      PROVE  d \in BookingContext
  <2>1. (c.options \ OfKind(kind, c.options)) \cup offered \in SUBSET Option
    BY DEF BookingContext, OfKind
  <2>2. SelectionsWithout(c, kind) \in SUBSET AncillarySelection
    BY DEF BookingContext, SelectionsWithout
  <2> QED BY <1>1, <2>1, <2>2 DEF OptionsReplaced, BookingContext
<1>2. ASSUME NEW kind \in AncillaryKind, d = AncillaryClosed(c, kind, r, t)
      PROVE  d \in BookingContext
  <2>1. c.options \ OfKind(kind, c.options) \in SUBSET Option
    BY DEF BookingContext
  <2>2. SelectionsWithout(c, kind) \in SUBSET AncillarySelection
    BY DEF BookingContext, SelectionsWithout
  <2>3. c.supported \ {kind} \in SUBSET AncillaryKind
    BY DEF BookingContext
  <2> QED BY <1>2, <2>1, <2>2, <2>3 DEF AncillaryClosed, BookingContext
<1>3. ASSUME NEW sel \in AncillarySelection, d = Selected(c, sel, t)
      PROVE  d \in BookingContext
  <2>1. {s \in c.selections : ~SameSlot(s, sel)} \cup {sel} \in SUBSET AncillarySelection
    BY DEF BookingContext
  <2> QED BY <1>3, <2>1 DEF Selected, BookingContext
<1>4. ASSUME NEW kind, NEW tr, NEW seg, d = SelectionRemoved(c, kind, tr, seg, t)
      PROVE  d \in BookingContext
  BY <1>4 DEF SelectionRemoved, BookingContext
<1>5. ASSUME NEW attempt \in OrderAttemptState, NEW o \in Order \cup {NoOrder},
             d = OrderFinished(c, attempt, o, t)
      PROVE  d \in BookingContext
  BY <1>5 DEF OrderFinished, BookingContext
<1>6. CASE d = PriceConfirmed(c, t)
  BY <1>6 DEF PriceConfirmed, BookingContext
<1>7. CASE d = ContextExpired(c, t) \/ d = OrderBegun(c, t) \/ d = AttemptReset(c, t)
  BY <1>7 DEF ContextExpired, OrderBegun, AttemptReset, BookingContext, OrderAttemptState
<1>8. CASE Edits(c, d)
  BY <1>1, <1>2, <1>3, <1>4, <1>6, <1>8 DEF Edits
<1>9. CASE Attempts(c, d)
  BY <1>5, <1>7, <1>9 DEF Attempts, OrderAttemptState
<1> QED BY <1>7, <1>8, <1>9 DEF StoreCall

(* A record stamped now keeps its revision unless it says otherwise.       *)
LEMMA Restamped ==
  ASSUME NEW c \in BookingContext, NEW t, NEW kind, NEW offered, NEW sel, NEW traveler,
         NEW segment, NEW attempt, NEW order
  PROVE  /\ PriceConfirmed(c, t).updatedAt = t
         /\ OptionsReplaced(c, kind, offered, c.revision, t).updatedAt = t
         /\ AncillaryClosed(c, kind, c.revision, t).updatedAt = t
         /\ Selected(c, sel, t).updatedAt = t
         /\ SelectionRemoved(c, kind, traveler, segment, t).updatedAt = t
         /\ ContextExpired(c, t).updatedAt = t
         /\ OrderBegun(c, t).updatedAt = t
         /\ AttemptReset(c, t).updatedAt = t
         /\ OrderFinished(c, attempt, order, t).updatedAt = t
         /\ PriceConfirmed(c, t).revision = c.revision
         /\ OptionsReplaced(c, kind, offered, c.revision, t).revision = c.revision
         /\ AncillaryClosed(c, kind, c.revision, t).revision = c.revision
         /\ Selected(c, sel, t).revision = c.revision
         /\ SelectionRemoved(c, kind, traveler, segment, t).revision = c.revision
         /\ ContextExpired(c, t).revision = c.revision
         /\ OrderBegun(c, t).revision = c.revision
         /\ AttemptReset(c, t).revision = c.revision
         /\ OrderFinished(c, attempt, order, t).revision = c.revision
BY DEF BookingContext, PriceConfirmed, OptionsReplaced, AncillaryClosed, Selected,
  SelectionRemoved, ContextExpired, OrderBegun, AttemptReset, OrderFinished

(* Each store call of a command is one that the store offers.              *)
LEMMA CommandCalls ==
  ASSUME AncillaryInv, NEW p \in Process,
         ReplaceOptions(p) \/ CloseAncillary(p) \/ Select(p) \/ Remove(p)
  PROVE  /\ now' \in Nat /\ now <= now'
         /\ Edits(ctx, ctx') /\ Ready(ctx) /\ ~IsTerminal(ctx)
         /\ ctx'.updatedAt = now' /\ ctx'.revision = ctx.revision
<1>c. ctx \in BookingContext /\ ctx.revision \in Nat /\ now \in Nat /\ job[p] \in Job
  BY DEF AncillaryInv, TypeOK, BookingContext
<1>1. Active(ctx) /\ Ready(ctx) /\ ~IsTerminal(ctx)
  BY DEF ReplaceOptions, CloseAncillary, Select, Remove, Stores, Active, Hydratable, Hydrates
<1>2. PICK t \in now..MaxTime : Stamp(t)
  BY DEF ReplaceOptions, CloseAncillary, Select, Remove
<1>3. now' = t /\ t \in Nat /\ now <= now'
  BY <1>c, <1>2, StampsAreNat DEF Stamp
<1>4. CASE ReplaceOptions(p)
  <2>1. ctx' = OptionsReplaced(ctx, job[p].kind, listed[p], ctx.revision, now')
    BY <1>4 DEF ReplaceOptions, Stamp
  <2>2. ctx'.updatedAt = now' /\ ctx'.revision = ctx.revision
    BY <1>c, <2>1, Restamped
  <2>3. job[p].kind \in AncillaryKind
    BY <1>c, <1>4 DEF ReplaceOptions, Stores, Job
  <2>4. listed[p] \in SUBSET OfKind(job[p].kind, Option) /\ listed[p] # {}
    BY <1>4 DEF AncillaryInv, TypeOK, ReplaceOptions, Stores
  <2>5. ctx' = OptionsReplaced(ctx, job[p].kind, listed[p], ctx'.revision, ctx'.updatedAt)
    BY <2>1, <2>2
  <2> QED BY <1>1, <1>3, <2>2, <2>3, <2>4, <2>5 DEF Edits
<1>5. CASE CloseAncillary(p)
  <2>1. ctx' = AncillaryClosed(ctx, job[p].kind, ctx.revision, now')
    BY <1>5 DEF CloseAncillary, Stamp
  <2>2. ctx'.updatedAt = now' /\ ctx'.revision = ctx.revision
    BY <1>c, <2>1, Restamped
  <2>3. job[p].kind \in AncillaryKind
    BY <1>c, <1>5 DEF CloseAncillary, Stores, Job
  <2>4. ctx' = AncillaryClosed(ctx, job[p].kind, ctx'.revision, ctx'.updatedAt)
    BY <2>1, <2>2
  <2> QED BY <1>1, <1>3, <2>2, <2>3, <2>4 DEF Edits
<1>6. CASE Select(p)
  <2>1. ctx' = Selected(ctx, job[p].selection, now') /\ CurrentSelection(ctx, job[p].selection)
    BY <1>6 DEF Select, Stamp
  <2>2. ctx'.updatedAt = now' /\ ctx'.revision = ctx.revision
    BY <1>c, <2>1, Restamped
  <2>3. job[p].selection \in AncillarySelection
    BY <1>c, <1>6 DEF Select, Stores, Job
  <2>4. ctx' = Selected(ctx, job[p].selection, ctx'.updatedAt)
    BY <2>1, <2>2
  <2> QED BY <1>1, <1>3, <2>1, <2>2, <2>3, <2>4 DEF Edits
<1>7. CASE Remove(p)
  <2> DEFINE slot == job[p].slot
  <2>1. ctx' = SelectionRemoved(ctx, slot.kind, slot.traveler, slot.segment, now')
    BY <1>7 DEF Remove, Stamp
  <2>2. ctx'.updatedAt = now' /\ ctx'.revision = ctx.revision
    BY <1>c, <2>1, Restamped
  <2>3. slot.kind \in AncillaryKind /\ slot.traveler \in Traveler /\ slot.segment \in Segment
    BY <1>c, <1>7 DEF Remove, Stores, Job, Slot
  <2>4. ctx' = SelectionRemoved(ctx, slot.kind, slot.traveler, slot.segment, ctx'.updatedAt)
    BY <2>1, <2>2
  <2> QED BY <1>1, <1>3, <2>2, <2>3, <2>4 DEF Edits
<1> QED BY <1>4, <1>5, <1>6, <1>7

(* So are the steps of an order attempt.                                   *)
LEMMA OrderCalls ==
  ASSUME AncillaryInv, OrderCommand
  PROVE  /\ now' \in Nat /\ now <= now'
         /\ \/ Attempts(ctx, ctx')
            \/ ~IsTerminal(ctx) /\ ctx' = ContextExpired(ctx, ctx'.updatedAt)
         /\ ctx'.updatedAt = now' /\ ctx'.revision = ctx.revision
<1>c. ctx \in BookingContext /\ now \in Nat
  BY DEF AncillaryInv, TypeOK
<1>o. {"created", "unknown"} \subseteq OrderAttemptState
  BY DEF OrderAttemptState
<1>1. PICK t \in now..MaxTime :
        /\ Stamp(t)
        /\ \/ Active(ctx) /\ Ready(ctx) /\ PriceSettled(ctx) /\ ctx' = OrderBegun(ctx, t)
           \/ Creating(ctx) /\ Hydratable(ctx) /\ ctx' = AttemptReset(ctx, t)
           \/ Creating(ctx) /\ Active(ctx) /\ ctx' = ContextExpired(ctx, t)
           \/ Creating(ctx) /\ \E attempt \in OrderAttemptState, o \in Order \cup {NoOrder} :
                /\ ctx' = OrderFinished(ctx, attempt, o, t)
                /\ \/ attempt = "created" /\ o \in Order
                   \/ attempt = "unknown" /\ o = NoOrder
  BY <1>o DEF OrderCommand, OrderOutcome
<1>2. now' = t /\ t \in Nat /\ now <= now'
  BY <1>c, <1>1, StampsAreNat DEF Stamp
<1>3. ctx'.updatedAt = now' /\ ctx'.revision = ctx.revision
  BY <1>c, <1>1, <1>2, Restamped
<1>4. (Active(ctx) => ~IsTerminal(ctx)) /\ (Hydratable(ctx) => ~IsTerminal(ctx))
  BY DEF Active, Hydratable, Hydrates
<1> QED BY <1>1, <1>2, <1>3, <1>4 DEF Attempts

(* Whatever changes the booking is one call of the store, and leaves a     *)
(* record stamped by the clock.                                            *)
LEMMA BookingStep ==
  ASSUME AncillaryInv, [Next]_vars
  PROVE  /\ now' \in Nat /\ ctx' \in BookingContext /\ Stamped'
         /\ ctx' = ctx \/ StoreCall(ctx, ctx')
<1>c. /\ ctx \in BookingContext /\ ctx.revision \in Nat /\ ctx.updatedAt \in Nat
      /\ now \in Nat /\ ctx.updatedAt <= now
  BY DEF AncillaryInv, TypeOK, BookingContext, Stamped
<1>1. ASSUME NEW p \in Process, Load(p) \/ Read(p) \/ Ends(p)
      PROVE  ctx' = ctx /\ now' = now
  BY <1>1 DEF Load, Read, Ends
<1>2. ASSUME Tick
      PROVE  ctx' = ctx /\ now' \in Nat /\ now <= now'
  BY <1>c, <1>2 DEF Tick
<1>3. ASSUME UNCHANGED vars
      PROVE  ctx' = ctx /\ now' = now
  BY <1>3 DEF vars
<1>4. /\ now' \in Nat /\ now <= now'
      /\ \/ ctx' = ctx
         \/ /\ ctx'.updatedAt = now' /\ ctx'.revision = ctx.revision
            /\ \/ Edits(ctx, ctx') /\ Ready(ctx) /\ ~IsTerminal(ctx)
               \/ Attempts(ctx, ctx')
               \/ ~IsTerminal(ctx) /\ ctx' = ContextExpired(ctx, ctx'.updatedAt)
  BY <1>c, <1>1, <1>2, <1>3, CommandCalls, OrderCalls DEF Next
<1>5. CASE ctx' = ctx
  BY <1>c, <1>4, <1>5 DEF Stamped
<1>6. CASE ctx' # ctx
  <2>1. ctx.updatedAt <= ctx'.updatedAt
    BY <1>c, <1>4, <1>6
  <2>2. StoreCall(ctx, ctx')
    BY <1>4, <1>6, <2>1 DEF StoreCall
  <2>3. ctx' \in BookingContext
    BY <1>c, <1>4, <1>6, <2>2, CallIsContext
  <2> QED BY <1>4, <1>6, <2>2, <2>3 DEF Stamped
<1> QED BY <1>5, <1>6

-----------------------------------------------------------------------------
(* Each action keeps the invariant; one lemma for those that change the    *)
(* booking and one for those that do not.                                  *)

(* The store calls, by the booking each makes.                             *)
LEMMA StoreKeepsInv ==
  ASSUME AncillaryInv, NEW p \in Process,
         pc' = [pc EXCEPT ![p] = "over"], listed' = [listed EXCEPT ![p] = {}],
         UNCHANGED <<job, declined>>, now' \in Nat, ctx' \in BookingContext, Stamped',
         AncillaryKind \ ctx'.supported \subseteq declined
  PROVE  AncillaryInv'
<1>1. /\ pc' \in [Process -> Control] /\ listed' \in [Process -> SUBSET Option]
      /\ pc'[p] = "over" /\ listed'[p] = {}
      /\ \A q \in Process \ {p} : pc'[q] = pc[q] /\ listed'[q] = listed[q]
  BY DEF AncillaryInv, TypeOK, Control
<1>2. TypeOK'
  BY <1>1 DEF AncillaryInv, TypeOK
<1>3. \A q \in Process :
        /\ pc'[q] # "storing" => listed'[q] = {}
        /\ pc'[q] = "storing" /\ job'[q].op = "list" => listed'[q] # {}
        /\ pc'[q] = "closing" => job'[q].kind \in declined'
  BY <1>1 DEF AncillaryInv
<1> QED BY <1>2, <1>3 DEF AncillaryInv, ClosedOnlyWhenDeclined

(* A listing that is stored leaves the kinds of the booking as they are.   *)
LEMMA ReplaceKeepsInv ==
  ASSUME AncillaryInv, [Next]_vars, NEW p \in Process, ReplaceOptions(p)
  PROVE  AncillaryInv'
<1>1. ctx'.supported = ctx.supported
  BY DEF ReplaceOptions, OptionsReplaced, AncillaryInv, TypeOK, BookingContext
<1> QED BY <1>1, BookingStep, StoreKeepsInv
    DEF ReplaceOptions, Stores, AncillaryInv, ClosedOnlyWhenDeclined

(* A kind is closed by a listing whose answer declined it.                 *)
LEMMA CloseKeepsInv ==
  ASSUME AncillaryInv, [Next]_vars, NEW p \in Process, CloseAncillary(p)
  PROVE  AncillaryInv'
<1>1. ctx'.supported = ctx.supported \ {job[p].kind}
  BY DEF CloseAncillary, AncillaryClosed, AncillaryInv, TypeOK, BookingContext
<1>2. AncillaryKind \ ctx'.supported \subseteq declined
  BY <1>1 DEF CloseAncillary, Stores, AncillaryInv, ClosedOnlyWhenDeclined
<1> QED BY <1>2, BookingStep, StoreKeepsInv DEF CloseAncillary, Stores

(* A selection leaves the kinds of the booking as they are.                *)
LEMMA SelectKeepsInv ==
  ASSUME AncillaryInv, [Next]_vars, NEW p \in Process, Select(p)
  PROVE  AncillaryInv'
<1>1. ctx'.supported = ctx.supported
  BY DEF Select, Selected, AncillaryInv, TypeOK, BookingContext
<1> QED BY <1>1, BookingStep, StoreKeepsInv
    DEF Select, Stores, AncillaryInv, ClosedOnlyWhenDeclined

(* So does the removal of one.                                             *)
LEMMA RemoveKeepsInv ==
  ASSUME AncillaryInv, [Next]_vars, NEW p \in Process, Remove(p)
  PROVE  AncillaryInv'
<1>1. ctx'.supported = ctx.supported
  BY DEF Remove, SelectionRemoved, AncillaryInv, TypeOK, BookingContext
<1> QED BY <1>1, BookingStep, StoreKeepsInv
    DEF Remove, Stores, AncillaryInv, ClosedOnlyWhenDeclined

(* A command begins with nothing listed.                                   *)
LEMMA LoadKeepsInv ==
  ASSUME AncillaryInv, [Next]_vars, NEW p \in Process, Load(p)
  PROVE  AncillaryInv'
<1>1. PICK j \in Job :
        /\ job' = [job EXCEPT ![p] = j]
        /\ pc' = [pc EXCEPT ![p] = IF j.op = "list" THEN "reading" ELSE "storing"]
  BY DEF Load
<1>2. pc[p] = "over" /\ listed[p] = {} /\ UNCHANGED <<now, ctx, listed, declined>>
  BY DEF Load, AncillaryInv
<1>3. TypeOK'
  BY <1>1, <1>2 DEF AncillaryInv, TypeOK, Control
<1>4. \A q \in Process :
        /\ pc'[q] # "storing" => listed'[q] = {}
        /\ pc'[q] = "storing" /\ job'[q].op = "list" => listed'[q] # {}
        /\ pc'[q] = "closing" => job'[q].kind \in declined'
  BY <1>1, <1>2 DEF AncillaryInv, TypeOK
<1> QED BY <1>2, <1>3, <1>4, BookingStep DEF AncillaryInv, ClosedOnlyWhenDeclined

(* An answer sends a command on to close a kind only if it declined it.    *)
LEMMA ReadKeepsInv ==
  ASSUME AncillaryInv, [Next]_vars, NEW p \in Process, Read(p)
  PROVE  AncillaryInv'
<1> DEFINE kind == job[p].kind
<1>1. kind \in AncillaryKind /\ job[p].op = "list"
  BY DEF AncillaryInv, TypeOK, Read, Job
<1>2. PICK a \in Answer(kind) :
        /\ pc' = [pc EXCEPT ![p] = AfterRead(kind, pc[p], a)]
        /\ listed' = [listed EXCEPT ![p] = a.listed]
        /\ declined' = declined \cup {k \in {kind} : Declines(k, a)}
        /\ UNCHANGED <<now, ctx, job>>
  BY DEF Read
<1> DEFINE to == AfterRead(kind, pc[p], a)
<1>3. /\ to \in {"rereading", "storing", "closing", "over"}
      /\ a.listed \subseteq OfKind(kind, Option)
      /\ to # "storing" <=> a.listed = {}
      /\ to = "closing" => Declines(kind, a)
  BY <1>1, ReadingLists, ClosingDeclines
<1> HIDE DEF to
<1>t. /\ pc' \in [Process -> Control] /\ listed' \in [Process -> SUBSET Option]
      /\ pc'[p] = to /\ listed'[p] = a.listed
      /\ \A q \in Process \ {p} : pc'[q] = pc[q] /\ listed'[q] = listed[q]
  <2>1. pc \in [Process -> Control] /\ listed \in [Process -> SUBSET Option]
    BY DEF AncillaryInv, TypeOK
  <2>2. a.listed \subseteq Option /\ to \in Control
    BY <1>3 DEF OfKind, Control
  <2> QED BY <1>2, <2>1, <2>2 DEF to
<1>4. TypeOK'
  BY <1>1, <1>2, <1>3, <1>t DEF AncillaryInv, TypeOK
<1>5. \A q \in Process :
        /\ pc'[q] # "storing" => listed'[q] = {}
        /\ pc'[q] = "storing" /\ job'[q].op = "list" => listed'[q] # {}
        /\ pc'[q] = "closing" => job'[q].kind \in declined'
  BY <1>2, <1>3, <1>t DEF AncillaryInv
<1> QED BY <1>2, <1>4, <1>5, BookingStep DEF AncillaryInv, ClosedOnlyWhenDeclined

(* An order attempt leaves the kinds of the booking as they are.           *)
LEMMA OrderCommandKeepsInv ==
  ASSUME AncillaryInv, [Next]_vars, OrderCommand
  PROVE  AncillaryInv'
<1>1. PICK t \in now..MaxTime :
        \/ ctx' = OrderBegun(ctx, t)
        \/ ctx' \in {AttemptReset(ctx, t), ContextExpired(ctx, t)}
        \/ \E attempt \in {"created", "unknown"}, o \in Order \cup {NoOrder} :
             ctx' = OrderFinished(ctx, attempt, o, t)
  BY DEF OrderCommand, OrderOutcome
<1>2. ctx'.supported = ctx.supported
  BY <1>1 DEF AncillaryInv, TypeOK, BookingContext, OrderBegun, AttemptReset, ContextExpired,
    OrderFinished
<1> QED BY <1>2, BookingStep DEF OrderCommand, AncillaryInv, TypeOK, ClosedOnlyWhenDeclined

(* The invariant holds throughout.                                         *)
LEMMA AncillaryInvHolds == Spec => []AncillaryInv
<1>1. Init => AncillaryInv
  <2> SUFFICES ASSUME Init PROVE AncillaryInv
    OBVIOUS
  <2>1. PICK g \in Generation, sup \in SUBSET AncillaryKind :
          ctx = VerifiedContext(g, 1, FALSE, sup, 0, Life)
    BY DEF Init
  <2>2. ctx \in BookingContext
    BY <2>1, AncillaryAssumption DEF VerifiedContext, BookingContext, OrderAttemptState
  <2>3. TypeOK
    BY <2>2 DEF Init, TypeOK, Control, Job, AncillaryKind
  <2>4. Stamped
    BY <2>1 DEF Init, Stamped, VerifiedContext
  <2> QED BY <2>3, <2>4 DEF Init, AncillaryInv, ClosedOnlyWhenDeclined, TypeOK
<1>2. AncillaryInv /\ [Next]_vars => AncillaryInv'
  <2> SUFFICES ASSUME AncillaryInv, [Next]_vars PROVE AncillaryInv'
    OBVIOUS
  <2>1. ASSUME NEW p \in Process, Ends(p)
        PROVE  AncillaryInv'
    <3>1. AncillaryKind \ ctx'.supported \subseteq declined
      BY <2>1 DEF Ends, AncillaryInv, ClosedOnlyWhenDeclined
    <3> QED BY <2>1, <3>1, BookingStep, StoreKeepsInv DEF Ends
  <2>2. CASE Tick \/ UNCHANGED vars
    BY <2>2, BookingStep DEF Tick, vars, AncillaryInv, TypeOK, ClosedOnlyWhenDeclined
  <2> QED BY <2>1, <2>2, LoadKeepsInv, ReadKeepsInv, ReplaceKeepsInv, CloseKeepsInv,
      SelectKeepsInv, RemoveKeepsInv, OrderCommandKeepsInv DEF Next
<1> QED BY <1>1, <1>2, PTL DEF Spec

-----------------------------------------------------------------------------
(* The state of the ancillary commands keeps its types: what a listing     *)
(* stores are options of the kind it asked for.                            *)
THEOREM AncillaryTypeOK == Spec => []TypeOK
BY AncillaryInvHolds, PTL DEF AncillaryInv

(* A kind is closed only after the upstream declined it, for any number of *)
(* commands and any sequence of answers to them.                           *)
THEOREM ClosedMeansDeclined == Spec => []ClosedOnlyWhenDeclined
BY AncillaryInvHolds, PTL DEF AncillaryInv

-----------------------------------------------------------------------------
(* What a step may do to the selections.                                   *)
SelectionStep ==
  /\ \A sel \in ctx'.selections \ ctx.selections :
       \E p \in Process :
         Acts(p, "select") /\ job[p].selection = sel /\ CurrentSelection(ctx, sel)
  /\ \A sel \in ctx.selections \ ctx'.selections :
       \/ IsTerminal(ctx')
       \/ \E p \in Process :
            \/ Acts(p, "list") /\ job[p].kind = SlotOf(sel).kind
            \/ Acts(p, "select") /\ SlotOf(job[p].selection) = SlotOf(sel)
            \/ Acts(p, "remove") /\ job[p].slot = SlotOf(sel)

(* A store call ends its command.                                          *)
LEMMA StoresActs ==
  ASSUME TypeOK, NEW p \in Process, NEW op, NEW at \in {"storing", "closing"}, Stores(p, op, at)
  PROVE  Acts(p, op)
BY DEF TypeOK, Stores, Acts

(* A listing drops the selections of its kind.                             *)
LEMMA ListStep ==
  ASSUME TypeOK, NEW p \in Process, Acts(p, "list"),
         ctx'.selections = SelectionsWithout(ctx, job[p].kind)
  PROVE  SelectionStep
BY DEF SelectionStep, SelectionsWithout, SlotOf

(* A selection takes the place of the one of its slot.                     *)
LEMMA SelectStep ==
  ASSUME TypeOK, NEW p \in Process, Select(p)
  PROVE  SelectionStep
<1> DEFINE sel == job[p].selection
<1>1. Acts(p, "select") /\ CurrentSelection(ctx, sel)
  BY StoresActs DEF Select
<1>2. ctx'.selections = {s \in ctx.selections : ~SameSlot(s, sel)} \cup {sel}
  BY DEF Select, Selected, TypeOK, BookingContext
<1>3. \A s : SameSlot(s, sel) => SlotOf(sel) = SlotOf(s)
  BY DEF SameSlot, SlotOf
<1> QED BY <1>1, <1>2, <1>3 DEF SelectionStep

(* A removal empties its slot.                                             *)
LEMMA RemoveStep ==
  ASSUME TypeOK, NEW p \in Process, Remove(p)
  PROVE  SelectionStep
<1> DEFINE slot == job[p].slot
<1>1. Acts(p, "remove") /\ slot \in Slot
  BY StoresActs DEF Remove, Stores, TypeOK, Job
<1>2. ctx'.selections =
        {s \in ctx.selections : ~( /\ KindOf[s.option] = slot.kind
                                   /\ s.traveler = slot.traveler
                                   /\ s.segment = slot.segment )}
  BY DEF Remove, SelectionRemoved, TypeOK, BookingContext
<1>3. ASSUME NEW s, KindOf[s.option] = slot.kind, s.traveler = slot.traveler,
             s.segment = slot.segment
      PROVE  slot = SlotOf(s)
  BY <1>1, <1>3 DEF Slot, SlotOf
<1> QED BY <1>1, <1>2, <1>3 DEF SelectionStep

(* An order attempt keeps the selections until the booking is over.        *)
LEMMA OrderStep ==
  ASSUME TypeOK, OrderCommand
  PROVE  SelectionStep
<1>1. PICK t \in now..MaxTime :
        \/ ctx' = OrderBegun(ctx, t)
        \/ ctx' \in {AttemptReset(ctx, t), ContextExpired(ctx, t)}
        \/ \E attempt \in {"created", "unknown"}, o \in Order \cup {NoOrder} :
             ctx' = OrderFinished(ctx, attempt, o, t)
  BY DEF OrderCommand, OrderOutcome
<1>2. t \in Nat
  BY StampsAreNat DEF TypeOK
<1>3. CASE ctx' = OrderBegun(ctx, t) \/ ctx' = AttemptReset(ctx, t)
  BY <1>3 DEF SelectionStep, OrderBegun, AttemptReset, TypeOK, BookingContext
<1>4. CASE ctx' = ContextExpired(ctx, t)
  BY <1>2, <1>4 DEF SelectionStep, ContextExpired, IsTerminal, TypeOK, BookingContext
<1>5. CASE \E attempt \in {"created", "unknown"}, o \in Order \cup {NoOrder} :
             ctx' = OrderFinished(ctx, attempt, o, t)
  BY <1>5 DEF SelectionStep, OrderFinished, IsTerminal, Finished, TypeOK, BookingContext
<1> QED BY <1>1, <1>3, <1>4, <1>5

(* A selection enters the booking by its own command and only while the    *)
(* booking admits it, and leaves it by a command for its slot, a listing   *)
(* of its kind or the end of the booking.                                  *)
THEOREM SelectionsOnlyByCommand == Spec => SelectionsByCommand
<1>1. TypeOK /\ [Next]_vars => [SelectionStep]_vars
  <2> SUFFICES ASSUME TypeOK, [Next]_vars PROVE [SelectionStep]_vars
    OBVIOUS
  <2>1. ASSUME NEW p \in Process, ReplaceOptions(p)
        PROVE  SelectionStep
    <3>1. ctx'.selections = SelectionsWithout(ctx, job[p].kind)
      BY <2>1 DEF ReplaceOptions, OptionsReplaced, TypeOK, BookingContext
    <3> QED BY <2>1, <3>1, StoresActs, ListStep DEF ReplaceOptions
  <2>2. ASSUME NEW p \in Process, CloseAncillary(p)
        PROVE  SelectionStep
    <3>1. ctx'.selections = SelectionsWithout(ctx, job[p].kind)
      BY <2>2 DEF CloseAncillary, AncillaryClosed, TypeOK, BookingContext
    <3> QED BY <2>2, <3>1, StoresActs, ListStep DEF CloseAncillary
  <2>3. CASE ctx' = ctx
    BY <2>3 DEF SelectionStep
  <2>4. ASSUME NEW p \in Process, Load(p) \/ Read(p) \/ Ends(p)
        PROVE  ctx' = ctx
    BY <2>4 DEF Load, Read, Ends
  <2>5. ASSUME Tick PROVE ctx' = ctx
    BY <2>5 DEF Tick
  <2> QED BY <2>1, <2>2, <2>3, <2>4, <2>5, SelectStep, RemoveStep, OrderStep DEF Next
<1>2. SelectionsByCommand <=> [][SelectionStep]_vars
  BY DEF SelectionsByCommand, SelectionStep
<1> QED BY <1>1, <1>2, AncillaryTypeOK, PTL DEF Spec

(* All that ancillary commands and order attempts ever do to the booking   *)
(* is to call the store: each change is one call, as BookingStore promises *)
(* it (BookingStore!AtomicSpec) whatever its processes do.                 *)
THEOREM CommandsCallStore == Spec => [][StoreCall(ctx, ctx')]_ctx
<1>1. AncillaryInv /\ [Next]_vars => [StoreCall(ctx, ctx')]_ctx
  BY BookingStep
<1> QED BY <1>1, AncillaryInvHolds, PTL DEF Spec

=============================================================================
