------------------------ MODULE OrderService_proofs ------------------------
(***************************************************************************)
(* Theorems about OrderService, for any number of commands and options:    *)
(* order creation implements OneShotOrder, and the upstream never holds    *)
(* two orders for a booking.                                               *)
(*                                                                         *)
(* The argument: an attempt has one owner, the command whose compare-and-  *)
(* set began it; as long as it owns the attempt nobody else can change the *)
(* booking, and it gives it back for another try only when no request is   *)
(* on its way and nothing was placed.                                      *)
(***************************************************************************)
EXTENDS OrderService, TLAPS

(* From begin_order to the end of the command's work on its attempt.       *)
Working == {"begun", "waiting", "saving", "unknowing", "resetting", "expiring"}

NothingSent == inflight = {} /\ placed = {}

OneOwner == \A p, q \in Process : pc[p] \in Working /\ pc[q] \in Working => p = q

SentOnce ==
  /\ ReadyMeansNothingSent
  /\ OneOrderPerBooking
  /\ \A r1, r2 \in inflight : r1 = r2
  /\ inflight = {} \/ placed = {}

OwnerSound ==
  \A p \in Process :
    /\ pc[p] \in Working => Creating(ctx)
    /\ pc[p] \in {"begun", "resetting", "expiring"} => NothingSent
    /\ pc[p] = "begun" => seen[p] = ctx
    /\ pc[p] = "waiting" /\ answer[p].kind \in {"refused", "expired"} => NothingSent
    /\ pc[p] = "saving" => answer[p].kind = "created"
    /\ pc[p] \in {"start", "checked", "begun"} =>
         answer[p].kind = "none" /\ \A r \in inflight : r.by # p

AnswersReal ==
  \A p \in Process : answer[p].kind = "created" =>
    \E o \in placed : o.order = answer[p].order

RecordSound ==
  /\ SavedOrderIsReal
  /\ ctx.order = NoOrder => confirmed = {}
  /\ ctx.attempt = "created" <=> ctx.order # NoOrder

OrderInv ==
  /\ TypeOK
  /\ OneOwner
  /\ SentOnce
  /\ OwnerSound
  /\ AnswersReal
  /\ RecordSound
  /\ OrderedAsSelected

-----------------------------------------------------------------------------
(* Types.                                                                  *)

(* A stamp is a natural number, and so is the clock after it.              *)
LEMMA OrderStampIsNat ==
  ASSUME TypeOK, NEW t, Stamp(t)
  PROVE  t \in Nat /\ now' \in Nat
BY ServiceAssumption DEF TypeOK, Stamp

(* Moving a process keeps pc a function into Control.                      *)
LEMMA GotoTyped ==
  ASSUME TypeOK, NEW p \in Process, NEW to \in Control, pc' = [pc EXCEPT ![p] = to]
  PROVE  pc' \in [Process -> Control]
BY DEF TypeOK

(* A failed call has one of three outcomes, and is uncertain whenever the  *)
(* order may have been placed.                                             *)
LEMMA FailureKinds ==
  /\ FailedAnswer \subseteq {"refused", "expired", "uncertain"}
  /\ UnsettledAnswer = {"uncertain"}
<1>1. FailedAnswer \subseteq {"refused", "expired", "uncertain"}
  BY DEF FailedAnswer, AnswerKind
<1>2. ASSUME NEW s \in UnsettledStatus
      PROVE  SideEffectUncertain("order", s) /\ s # 308
  BY <1>2 DEF UnsettledStatus, SideEffectUncertain, UncertainStatus, Known, RetryableStatus,
    SuccessStatus, ActionStatus, TerminalStatus, NoResponse, Malformed, Unlisted
<1>3. ASSUME NEW s \in UnsettledStatus
      PROVE  AnswerKind(s) = "uncertain"
  BY <1>2, <1>3 DEF AnswerKind
<1>4. UnsettledStatus # {}
  BY DEF UnsettledStatus
<1> QED BY <1>1, <1>3, <1>4 DEF UnsettledAnswer

(* An answer that created an order carries one.                            *)
LEMMA AnswerOrder ==
  ASSUME TypeOK, NEW p \in Process, answer[p].kind = "created"
  PROVE  answer[p].order \in Order
BY DEF TypeOK, Answer

(* Every answer leads to a known control state.                            *)
LEMMA AnswerStateIsControl ==
  ASSUME NEW kind
  PROVE  AnswerState(kind) \in Control
BY DEF AnswerState, Control

(* A call of the store makes a record of a record.                         *)
LEMMA CallIsContext ==
  ASSUME NEW c \in BookingContext, NEW d, StoreCall(c, d),
         d.updatedAt \in Nat, d.revision \in Nat
  PROVE  d \in BookingContext
<1> DEFINE t == d.updatedAt
           r == d.revision
<1>1. ASSUME NEW kind \in AncillaryKind, NEW offered \in SUBSET OfKind(kind, Option),
             d = OptionsReplaced(c, kind, offered, r, t)
      PROVE  d \in BookingContext
  <2>1. (c.options \ OfKind(kind, c.options)) \cup offered \in SUBSET Option
    BY DEF BookingContext, OfKind
  <2>2. SelectionsWithout(c, kind) \in SUBSET AncillarySelection
    BY DEF BookingContext, SelectionsWithout
  <2> QED BY <1>1, <2>1, <2>2 DEF OptionsReplaced, BookingContext
<1>2. ASSUME NEW kind \in AncillaryKind, d = AncillaryClosed(c, kind, r, t)
      PROVE  d \in BookingContext
  <2>1. c.options \ OfKind(kind, c.options) \in SUBSET Option
    BY DEF BookingContext
  <2>2. SelectionsWithout(c, kind) \in SUBSET AncillarySelection
    BY DEF BookingContext, SelectionsWithout
  <2>3. c.supported \ {kind} \in SUBSET AncillaryKind
    BY DEF BookingContext
  <2> QED BY <1>2, <2>1, <2>2, <2>3 DEF AncillaryClosed, BookingContext
<1>3. ASSUME NEW sel \in AncillarySelection, d = Selected(c, sel, t)
      PROVE  d \in BookingContext
  <2>1. {s \in c.selections : ~SameSlot(s, sel)} \cup {sel} \in SUBSET AncillarySelection
    BY DEF BookingContext
  <2> QED BY <1>3, <2>1 DEF Selected, BookingContext
<1>4. ASSUME NEW kind, NEW tr, NEW seg, d = SelectionRemoved(c, kind, tr, seg, t)
      PROVE  d \in BookingContext
  BY <1>4 DEF SelectionRemoved, BookingContext
<1>5. ASSUME NEW attempt \in OrderAttemptState, NEW o \in Order \cup {NoOrder},
             d = OrderFinished(c, attempt, o, t)
      PROVE  d \in BookingContext
  BY <1>5 DEF OrderFinished, BookingContext
<1>6. CASE d = PriceConfirmed(c, t)
  BY <1>6 DEF PriceConfirmed, BookingContext
<1>7. CASE d = ContextExpired(c, t) \/ d = OrderBegun(c, t) \/ d = AttemptReset(c, t)
  BY <1>7 DEF ContextExpired, OrderBegun, AttemptReset, BookingContext, OrderAttemptState
<1>8. CASE Edits(c, d)
  BY <1>1, <1>2, <1>3, <1>4, <1>6, <1>8 DEF Edits
<1>9. CASE Attempts(c, d)
  BY <1>5, <1>7, <1>9 DEF Attempts, OrderAttemptState
<1> QED BY <1>7, <1>8, <1>9 DEF StoreCall

(* The record of the booking is stamped by the clock.                      *)
Stamped == ctx.updatedAt <= now

(* A record stamped now keeps its revision unless it says otherwise.       *)
LEMMA Restamped ==
  ASSUME NEW c \in BookingContext, NEW t, NEW kind, NEW offered, NEW sel, NEW traveler,
         NEW segment, NEW attempt, NEW order
  PROVE  /\ PriceConfirmed(c, t).updatedAt = t
         /\ OptionsReplaced(c, kind, offered, c.revision, t).updatedAt = t
         /\ AncillaryClosed(c, kind, c.revision, t).updatedAt = t
         /\ Selected(c, sel, t).updatedAt = t
         /\ SelectionRemoved(c, kind, traveler, segment, t).updatedAt = t
         /\ ContextExpired(c, t).updatedAt = t
         /\ OrderBegun(c, t).updatedAt = t
         /\ AttemptReset(c, t).updatedAt = t
         /\ OrderFinished(c, attempt, order, t).updatedAt = t
         /\ PriceConfirmed(c, t).revision = c.revision
         /\ OptionsReplaced(c, kind, offered, c.revision, t).revision = c.revision
         /\ AncillaryClosed(c, kind, c.revision, t).revision = c.revision
         /\ Selected(c, sel, t).revision = c.revision
         /\ SelectionRemoved(c, kind, traveler, segment, t).revision = c.revision
         /\ ContextExpired(c, t).revision = c.revision
         /\ OrderBegun(c, t).revision = c.revision
         /\ AttemptReset(c, t).revision = c.revision
         /\ OrderFinished(c, attempt, order, t).revision = c.revision
BY DEF BookingContext, PriceConfirmed, OptionsReplaced, AncillaryClosed, Selected,
  SelectionRemoved, ContextExpired, OrderBegun, AttemptReset, OrderFinished

(* A booking that can be acted on is not terminal.                         *)
LEMMA ActiveIsOpen ==
  ASSUME Active(ctx) \/ Loads(ctx)
  PROVE  ~IsTerminal(ctx)
BY DEF Active, Loads, Hydrates

(* An edit is a call of the store.                                         *)
LEMMA EditCalls ==
  ASSUME TypeOK, Stamped, Active(ctx), Ready(ctx), NEW t \in Nat, t >= now, NEW c \in Edited(t)
  PROVE  StoreCall(ctx, c) /\ c.updatedAt = t /\ c.revision = ctx.revision
<1>1. ctx \in BookingContext /\ ctx.revision \in Nat
  BY DEF TypeOK, BookingContext
<1>2. Edits(ctx, c) /\ c.updatedAt = t /\ c.revision = ctx.revision
  <2>1. CASE c = PriceConfirmed(ctx, t)
    BY <1>1, <2>1, Restamped DEF Edits
  <2>2. ASSUME NEW kind \in AncillaryKind, OfKind(kind, Option) # {},
               c = OptionsReplaced(ctx, kind, OfKind(kind, Option), ctx.revision, t)
        PROVE  Edits(ctx, c) /\ c.updatedAt = t /\ c.revision = ctx.revision
    <3>1. c.updatedAt = t /\ c.revision = ctx.revision
      BY <1>1, <2>2, Restamped
    <3>2. OfKind(kind, Option) \in SUBSET OfKind(kind, Option)
      OBVIOUS
    <3> QED BY <2>2, <3>1, <3>2 DEF Edits
  <2>3. ASSUME NEW kind \in AncillaryKind, c = AncillaryClosed(ctx, kind, ctx.revision, t)
        PROVE  Edits(ctx, c) /\ c.updatedAt = t /\ c.revision = ctx.revision
    BY <1>1, <2>3, Restamped DEF Edits
  <2>4. ASSUME NEW sel \in AncillarySelection, CurrentSelection(ctx, sel), c = Selected(ctx, sel, t)
        PROVE  Edits(ctx, c) /\ c.updatedAt = t /\ c.revision = ctx.revision
    BY <1>1, <2>4, Restamped DEF Edits
  <2>5. ASSUME NEW sel \in [kind : AncillaryKind, traveler : Traveler, segment : Segment],
               c = SelectionRemoved(ctx, sel.kind, sel.traveler, sel.segment, t)
        PROVE  Edits(ctx, c) /\ c.updatedAt = t /\ c.revision = ctx.revision
    <3>1. sel.kind \in AncillaryKind /\ sel.traveler \in Traveler /\ sel.segment \in Segment
      OBVIOUS
    <3>2. c.updatedAt = t /\ c.revision = ctx.revision
      BY <1>1, <2>5, Restamped
    <3> QED BY <2>5, <3>1, <3>2 DEF Edits
  <2> QED BY <2>1, <2>2, <2>3, <2>4, <2>5 DEF Edited
<1>3. ctx.updatedAt <= c.updatedAt
  BY <1>1, <1>2 DEF Stamped, TypeOK, BookingContext
<1> QED BY <1>2, <1>3, ActiveIsOpen DEF StoreCall

(* Whatever changes the booking is one call of the store.                  *)
LEMMA BookingStep ==
  ASSUME TypeOK, Stamped, [Next]_vars,
         \A p \in Process : pc[p] = "saving" => answer[p].kind = "created"
  PROVE  /\ now' \in Nat /\ now <= now'
         /\ \/ ctx' = ctx
            \/ StoreCall(ctx, ctx') /\ ctx'.updatedAt = now' /\ ctx'.revision = ctx.revision
<1> USE DEF saved, upstream, process
<1>c. ctx \in BookingContext /\ ctx.revision \in Nat /\ ctx.updatedAt \in Nat /\ now \in Nat
  BY DEF TypeOK, BookingContext
<1>1. CASE Tick \/ UNCHANGED vars
  BY <1>c, <1>1 DEF Tick, vars
<1>2. CASE Edit
  <2>1. PICK t \in now..MaxTime : \E c \in Edited(t) : Stamp(t) /\ Store(c)
    BY <1>2 DEF Edit
  <2>2. t \in Nat /\ t >= now /\ now' = t
    BY <1>c, <2>1, OrderStampIsNat DEF Stamp
  <2>3. ctx' \in Edited(t)
    BY <2>1 DEF Store
  <2> QED BY <1>2, <2>2, <2>3, EditCalls DEF Edit
<1>3. CASE Upstream
  BY <1>c, <1>3 DEF Upstream
<1>4. ASSUME NEW p \in Process, Create(p) \/ Crash(p), ctx' # ctx
      PROVE  /\ now' \in Nat /\ now <= now'
             /\ StoreCall(ctx, ctx') /\ ctx'.updatedAt = now' /\ ctx'.revision = ctx.revision
  <2>1. \/ Begin(p) \/ SaveOrder(p) \/ MarkUnknown(p) \/ ResetAttempt(p) \/ Expire(p)
    BY <1>4 DEF Create, Load, LoadRefused, BeginRefused, Submit, LockedCheckFails, Receive,
      TimeOut, SummaryFails, SaveOrderFails, HandlerRaises, Crash
  <2>2. PICK t \in now..MaxTime :
          /\ Stamp(t)
          /\ \/ Begin(p) /\ ctx' = OrderBegun(ctx, t)
             \/ SaveOrder(p) /\ ctx' = OrderFinished(ctx, "created", answer[p].order, t)
             \/ MarkUnknown(p) /\ ctx' = OrderFinished(ctx, "unknown", NoOrder, t)
             \/ ResetAttempt(p) /\ ctx' = AttemptReset(ctx, t)
             \/ Expire(p) /\ ctx' = ContextExpired(ctx, t)
    BY <2>1 DEF Begin, SaveOrder, MarkUnknown, ResetAttempt, Expire, Store
  <2>3. t \in Nat /\ t >= now /\ now' = t
    BY <1>c, <2>2, OrderStampIsNat DEF Stamp
  <2>4. ctx'.updatedAt = t /\ ctx'.revision = ctx.revision
    BY <1>c, <2>2, Restamped
  <2>5. \/ Attempts(ctx, ctx')
        \/ ~IsTerminal(ctx) /\ ctx' = ContextExpired(ctx, ctx'.updatedAt)
    <3>1. CASE Begin(p) /\ ctx' = OrderBegun(ctx, t)
      BY <2>4, <3>1, ActiveIsOpen DEF Begin, Attempts
    <3>2. CASE SaveOrder(p) /\ ctx' = OrderFinished(ctx, "created", answer[p].order, t)
      <4>1. answer[p].order \in Order /\ Creating(ctx)
        BY <3>2, AnswerOrder DEF SaveOrder, Goto
      <4> QED BY <2>4, <3>2, <4>1 DEF Attempts
    <3>3. CASE MarkUnknown(p) /\ ctx' = OrderFinished(ctx, "unknown", NoOrder, t)
      BY <2>4, <3>3 DEF MarkUnknown, Attempts
    <3>4. CASE ResetAttempt(p) /\ ctx' = AttemptReset(ctx, t)
      BY <2>4, <3>4, ActiveIsOpen DEF ResetAttempt, Attempts
    <3>5. CASE Expire(p) /\ ctx' = ContextExpired(ctx, t)
      BY <2>4, <3>5, ActiveIsOpen DEF Expire
    <3> QED BY <2>2, <3>1, <3>2, <3>3, <3>4, <3>5
  <2>6. ctx.updatedAt <= ctx'.updatedAt
    BY <1>c, <2>3, <2>4 DEF Stamped
  <2> QED BY <2>3, <2>4, <2>5, <2>6 DEF StoreCall
<1>5. ASSUME NEW p \in Process, Create(p) \/ Crash(p), ctx' = ctx
      PROVE  now' \in Nat /\ now <= now'
  <2>1. CASE now' = now
    BY <1>c, <2>1
  <2>2. CASE \E t \in now..MaxTime : Stamp(t)
    BY <1>c, <2>2, OrderStampIsNat DEF Stamp
  <2> QED BY <1>5, <2>1, <2>2 DEF Create, Load, LoadRefused, Begin, BeginRefused, Submit,
      LockedCheckFails, Receive, TimeOut, SummaryFails, SaveOrder, SaveOrderFails, MarkUnknown,
      ResetAttempt, Expire, HandlerRaises, Crash
<1> QED BY <1>1, <1>2, <1>3, <1>4, <1>5 DEF Next

(* So the booking stays a record, and stays stamped.                       *)
LEMMA BookingKept ==
  ASSUME TypeOK, Stamped, [Next]_vars,
         \A p \in Process : pc[p] = "saving" => answer[p].kind = "created"
  PROVE  now' \in Nat /\ ctx' \in BookingContext /\ Stamped'
<1>1. ctx \in BookingContext /\ ctx.revision \in Nat /\ ctx.updatedAt \in Nat /\ now \in Nat
  BY DEF TypeOK, BookingContext
<1>2. now' \in Nat /\ ctx' \in BookingContext
  BY <1>1, BookingStep, CallIsContext
<1>3. Stamped'
  BY <1>1, <1>2, BookingStep DEF Stamped
<1> QED BY <1>2, <1>3

(* Every step keeps the types of the state.                                *)
LEMMA OrderTypeStep ==
  ASSUME TypeOK, Stamped, [Next]_vars,
         \A p \in Process : pc[p] = "saving" => answer[p].kind = "created"
  PROVE  TypeOK' /\ Stamped'
<1> USE DEF saved, upstream, process
<1>0. now' \in Nat /\ ctx' \in BookingContext /\ Stamped'
  BY BookingKept
<1>1. CASE Tick \/ UNCHANGED vars
  BY <1>0, <1>1 DEF Tick, vars, TypeOK
<1>2. CASE Edit
  BY <1>0, <1>2 DEF Edit, Store, TypeOK
<1>3. CASE Upstream
  <2>1. PICK r \in inflight :
          /\ Places(r) \/ Refuses(r)
          /\ inflight' = inflight \ {r}
          /\ UNCHANGED <<now, ctx, saved, pc, process>>
    BY <1>3 DEF Upstream
  <2>2. r \in Request
    BY DEF TypeOK
  <2>3. placed' \subseteq PlacedOrder /\ answer' \in [Process -> Answer]
    <3>1. CASE Places(r)
      <4>1. PICK o \in Order :
              /\ placed' = placed \cup
                   {[by |-> r.by, order |-> o, selections |-> r.selections, policy |-> r.policy]}
              /\ \/ \E deadline \in now..MaxTime, balance \in BOOLEAN :
                      answer' = [answer EXCEPT ![r.by] =
                        [kind |-> "created", order |-> o, deadline |-> deadline, balance |-> balance]]
                 \/ answer' = [answer EXCEPT ![r.by] = [kind |-> "uncertain"]]
        BY <3>1, FailureKinds DEF Places
      <4>2. [by |-> r.by, order |-> o, selections |-> r.selections, policy |-> r.policy] \in PlacedOrder
        BY <2>2 DEF Request, PlacedOrder
      <4>3. answer' \in [Process -> Answer]
        <5>1. CASE answer' = [answer EXCEPT ![r.by] = [kind |-> "uncertain"]]
          BY <5>1 DEF TypeOK, Answer
        <5>2. CASE \E deadline \in now..MaxTime, balance \in BOOLEAN :
                answer' = [answer EXCEPT ![r.by] =
                  [kind |-> "created", order |-> o, deadline |-> deadline, balance |-> balance]]
          <6>1. PICK deadline \in now..MaxTime, balance \in BOOLEAN :
                  answer' = [answer EXCEPT ![r.by] =
                    [kind |-> "created", order |-> o, deadline |-> deadline, balance |-> balance]]
            BY <5>2
          <6>2. deadline \in Nat
            BY ServiceAssumption DEF TypeOK
          <6>3. [kind |-> "created", order |-> o, deadline |-> deadline, balance |-> balance] \in Answer
            BY <6>2 DEF Answer
          <6> QED BY <6>1, <6>3 DEF TypeOK
        <5> QED BY <4>1, <5>1, <5>2
      <4> QED BY <4>1, <4>2, <4>3 DEF TypeOK
    <3>2. CASE Refuses(r)
      <4>1. PICK kind \in {"refused", "expired", "uncertain"} :
              answer' = [answer EXCEPT ![r.by] = [kind |-> kind]]
        BY <3>2, FailureKinds DEF Refuses
      <4>2. [kind |-> kind] \in Answer
        BY DEF Answer
      <4> QED BY <3>2, <4>1, <4>2 DEF Refuses, TypeOK
    <3> QED BY <2>1, <3>1, <3>2
  <2> QED BY <1>0, <2>1, <2>3 DEF TypeOK
<1>4. ASSUME NEW p \in Process, Create(p) \/ Crash(p)
      PROVE  TypeOK'
  <2>1. CASE Load(p)
    BY <2>1, GotoTyped DEF Load, Goto, TypeOK, Control
  <2>2. CASE LoadRefused(p) \/ BeginRefused(p) \/ LockedCheckFails(p) \/ TimeOut(p)
             \/ SummaryFails(p) \/ SaveOrderFails(p) \/ HandlerRaises(p) \/ Crash(p)
    BY <2>2, GotoTyped DEF LoadRefused, BeginRefused, LockedCheckFails, TimeOut, SummaryFails,
      SaveOrderFails, HandlerRaises, Crash, Goto, TypeOK, Control
  <2>3. CASE Begin(p)
    <3>1. seen' = [seen EXCEPT ![p] = ctx']
      BY <2>3 DEF Begin
    <3> QED BY <1>0, <2>3, <3>1, GotoTyped DEF Begin, Goto, TypeOK, Control
  <2>4. CASE Submit(p)
    <3>1. [by |-> p, selections |-> seen[p].selections, policy |-> policy[p]] \in Request
      BY DEF Request, TypeOK, BookingContext
    <3> QED BY <2>4, <3>1, GotoTyped DEF Submit, Goto, TypeOK, Control
  <2>5. CASE Receive(p)
    BY <2>5, GotoTyped, AnswerStateIsControl DEF Receive, Goto, TypeOK
  <2>6. CASE SaveOrder(p)
    <3>0. answer[p].kind = "created"
      BY <2>6 DEF SaveOrder, Goto
    <3>1. payment' \in {"none", "awaiting", "unavailable"} /\ confirmed' \subseteq Order
      BY <2>6, <3>0, AnswerOrder DEF SaveOrder, PaymentOf, TypeOK
    <3> QED BY <1>0, <2>6, <3>1, GotoTyped DEF SaveOrder, Goto, TypeOK, Control
  <2>7. CASE MarkUnknown(p) \/ ResetAttempt(p) \/ Expire(p)
    BY <1>0, <2>7, GotoTyped DEF MarkUnknown, ResetAttempt, Expire, Store, Goto, TypeOK, Control
  <2> QED
    BY <1>4, <2>1, <2>2, <2>3, <2>4, <2>5, <2>6, <2>7 DEF Create
<1> QED BY <1>0, <1>1, <1>2, <1>3, <1>4 DEF Next

-----------------------------------------------------------------------------
(* The invariant.                                                          *)

(* A step of one command that only moves its own control, not into a new   *)
(* attempt: to a check, to giving back an attempt for which nothing was    *)
(* sent, to saving an order it was told of, or out.                        *)
LEMMA ControlStep ==
  ASSUME OrderInv, TypeOK', NEW p \in Process, NEW to \in Control,
         pc' = [pc EXCEPT ![p] = to],
         UNCHANGED <<now, ctx, saved, upstream, policy>>,
         \/ UNCHANGED seen
         \/ to = "checked" /\ \A q \in Process : q # p => seen'[q] = seen[q],
         to \notin {"start", "begun", "waiting"},
         to = "checked" => pc[p] = "start",
         to \in Working => pc[p] \in Working,
         to \in {"resetting", "expiring"} => NothingSent,
         to = "saving" => answer[p].kind = "created"
  PROVE  OrderInv'
<1> USE DEF OrderInv, saved, upstream
<1>1. \A q \in Process : pc'[q] = IF q = p THEN to ELSE pc[q]
  BY DEF TypeOK
<1>2. OneOwner'
  BY <1>1 DEF OneOwner
<1>3. SentOnce'
  BY DEF SentOnce, ReadyMeansNothingSent, OneOrderPerBooking
<1>4. OwnerSound'
  <2> SUFFICES ASSUME NEW q \in Process
               PROVE  /\ pc'[q] \in Working => Creating(ctx)
                      /\ pc'[q] \in {"begun", "resetting", "expiring"} => NothingSent
                      /\ pc'[q] = "begun" => seen'[q] = ctx
                      /\ pc'[q] = "waiting" /\ answer[q].kind \in {"refused", "expired"} => NothingSent
                      /\ pc'[q] = "saving" => answer[q].kind = "created"
                      /\ pc'[q] \in {"start", "checked", "begun"} =>
                           answer[q].kind = "none" /\ \A r \in inflight : r.by # q
    BY DEF OwnerSound, NothingSent
  <2>1. CASE q = p
    BY <1>1, <2>1 DEF OwnerSound
  <2>2. CASE q # p
    BY <1>1, <2>2 DEF OwnerSound
  <2> QED BY <2>1, <2>2
<1>5. AnswersReal' /\ RecordSound' /\ OrderedAsSelected'
  BY DEF AnswersReal, RecordSound, SavedOrderIsReal, OrderedAsSelected
<1> QED BY <1>2, <1>3, <1>4, <1>5

(* A step that ends an attempt, or its booking: the owner is done, and the *)
(* record changes.                                                         *)
LEMMA OwnerLeaves ==
  ASSUME OrderInv, TypeOK', NEW p \in Process,
         pc[p] \in Working, pc' = [pc EXCEPT ![p] = "over"],
         UNCHANGED <<upstream, process>>,
         ReadyMeansNothingSent', RecordSound',
         ~Creating(ctx)' \/ IsTerminal(ctx)'
  PROVE  OrderInv'
<1> USE DEF OrderInv, process, upstream
<1>1. \A q \in Process : pc'[q] = IF q = p THEN "over" ELSE pc[q]
  BY DEF TypeOK
<1>2. \A q \in Process : pc'[q] \notin Working
  BY <1>1 DEF OneOwner, Working
<1>3. OneOwner'
  BY <1>2 DEF OneOwner
<1>4. SentOnce'
  BY DEF SentOnce, OneOrderPerBooking
<1>5. OwnerSound'
  BY <1>1, <1>2 DEF OwnerSound, Working
<1>6. AnswersReal'
  BY DEF AnswersReal
<1>7. OrderedAsSelected'
  BY DEF OrderedAsSelected
<1> QED BY <1>3, <1>4, <1>5, <1>6, <1>7

(* A command begins an attempt.                                            *)
LEMMA BeginStep ==
  ASSUME OrderInv, TypeOK', NEW p \in Process, Begin(p)
  PROVE  OrderInv'
<1> USE DEF OrderInv, saved, upstream
<1>1. PICK t : ctx' = OrderBegun(ctx, t) /\ seen' = [seen EXCEPT ![p] = OrderBegun(ctx, t)]
  BY DEF Begin
<1>2. Ready(ctx) /\ pc[p] = "checked" /\ pc' = [pc EXCEPT ![p] = "begun"]
        /\ UNCHANGED <<confirmed, payment, inflight, placed, answer, policy>>
  BY DEF Begin, Goto
<1>3. \A q \in Process : pc'[q] = IF q = p THEN "begun" ELSE pc[q]
  BY <1>2 DEF TypeOK
<1>4. \A q \in Process : pc[q] \notin Working
  BY <1>2 DEF OwnerSound, Ready, Creating
<1>5. /\ ctx'.attempt = "creating" /\ ctx'.order = ctx.order /\ ctx.order = NoOrder
      /\ seen'[p] = ctx'
  BY <1>1, <1>2 DEF OrderBegun, TypeOK, BookingContext, Ready
<1>6. inflight = {} /\ placed = {}
  BY <1>2 DEF SentOnce, ReadyMeansNothingSent, Ready
<1>7. OneOwner' /\ SentOnce'
  BY <1>2, <1>3, <1>4, <1>6 DEF OneOwner, SentOnce, ReadyMeansNothingSent, OneOrderPerBooking
<1>8. OwnerSound'
  <2> SUFFICES ASSUME NEW q \in Process
               PROVE  /\ pc'[q] \in Working => Creating(ctx')
                      /\ NothingSent'
                      /\ pc'[q] = "begun" => seen'[q] = ctx'
                      /\ pc'[q] = "saving" => answer[q].kind = "created"
                      /\ pc'[q] \in {"start", "checked", "begun"} => answer[q].kind = "none"
    BY <1>2, <1>6 DEF OwnerSound
  <2>1. NothingSent' /\ Creating(ctx')
    BY <1>2, <1>5, <1>6 DEF NothingSent, Creating
  <2>2. pc'[q] = "begun" => q = p
    BY <1>3, <1>4 DEF Working
  <2> QED BY <1>2, <1>3, <1>5, <2>1, <2>2 DEF OwnerSound
<1>9. AnswersReal' /\ RecordSound' /\ OrderedAsSelected'
  BY <1>2, <1>5, <1>6 DEF AnswersReal, RecordSound, SavedOrderIsReal, OrderedAsSelected
<1> QED BY <1>7, <1>8, <1>9

(* The request of the owner leaves.                                        *)
LEMMA SubmitStep ==
  ASSUME OrderInv, TypeOK', NEW p \in Process, Submit(p)
  PROVE  OrderInv'
<1> USE DEF OrderInv, saved, process
<1> DEFINE r == [by |-> p, selections |-> seen[p].selections, policy |-> policy[p]]
<1>1. /\ pc[p] = "begun" /\ pc' = [pc EXCEPT ![p] = "waiting"]
      /\ PolicyGiven(p, seen[p]) /\ inflight' = inflight \cup {r}
      /\ UNCHANGED <<now, ctx, confirmed, payment, placed, answer, policy, seen>>
  BY DEF Submit, Goto
<1>2. inflight = {} /\ placed = {} /\ Creating(ctx) /\ seen[p] = ctx /\ answer[p].kind = "none"
  BY <1>1 DEF OwnerSound, NothingSent, Working
<1>3. \A q \in Process : pc'[q] = IF q = p THEN "waiting" ELSE pc[q]
  BY <1>1 DEF TypeOK
<1>4. \A q \in Process : q # p => pc[q] \notin Working
  BY <1>1 DEF OneOwner, Working
<1>5. OneOwner' /\ SentOnce'
  BY <1>1, <1>2, <1>3, <1>4 DEF OneOwner, SentOnce, ReadyMeansNothingSent, OneOrderPerBooking, Creating
<1>6. inflight' = {r} /\ r.by = p /\ r.selections = ctx.selections /\ r.policy = policy[p]
  BY <1>1, <1>2
<1> HIDE DEF r
<1>7. OwnerSound'
  <2> SUFFICES ASSUME NEW q \in Process
               PROVE  /\ pc'[q] \in Working => Creating(ctx)
                      /\ pc'[q] \notin {"begun", "resetting", "expiring"}
                      /\ pc'[q] = "waiting" => answer[q].kind \notin {"refused", "expired"}
                      /\ pc'[q] = "saving" => answer[q].kind = "created"
                      /\ pc'[q] \in {"start", "checked", "begun"} => answer[q].kind = "none" /\ p # q
    BY <1>1, <1>6 DEF OwnerSound
  <2>1. CASE q = p
    BY <1>2, <1>3, <2>1
  <2>2. CASE q # p
    BY <1>2, <1>3, <1>4, <2>2 DEF OwnerSound, Working
  <2> QED BY <2>1, <2>2
<1>8. AnswersReal' /\ RecordSound'
  BY <1>1 DEF AnswersReal, RecordSound, SavedOrderIsReal
<1>9. OrderedAsSelected'
  BY <1>1, <1>2, <1>6 DEF OrderedAsSelected, PolicyGiven, HasSeat
<1> QED BY <1>5, <1>7, <1>8, <1>9

(* The upstream deals with the one request that is on its way.             *)
LEMMA UpstreamStep ==
  ASSUME OrderInv, TypeOK', Upstream
  PROVE  OrderInv'
<1> USE DEF OrderInv, saved, process
<1>1. PICK r \in inflight :
        /\ Places(r) \/ Refuses(r)
        /\ inflight' = inflight \ {r}
        /\ UNCHANGED <<now, ctx, confirmed, payment, pc, policy, seen>>
  BY DEF Upstream
<1>2. inflight = {r} /\ inflight' = {} /\ placed = {} /\ r.by \in Process
  BY <1>1 DEF SentOnce, TypeOK, Request
<1>3. /\ ctx.attempt # "ready" /\ pc[r.by] \notin {"start", "checked", "begun"}
      /\ \A q \in Process : pc[q] \notin {"begun", "resetting", "expiring"}
  BY <1>1, <1>2 DEF SentOnce, ReadyMeansNothingSent, OwnerSound, NothingSent
<1>4. \A q \in Process : q # r.by => answer'[q] = answer[q]
  BY <1>1, <1>2 DEF Places, Refuses, TypeOK
<1>5. \/ placed' = {} /\ answer'[r.by].kind \in {"refused", "expired", "uncertain"}
      \/ \E o \in PlacedOrder :
           /\ placed' = {o} /\ o.selections = r.selections /\ o.policy = r.policy
           /\ answer'[r.by].kind # "refused" /\ answer'[r.by].kind # "expired"
           /\ answer'[r.by].kind # "none"
           /\ answer'[r.by].kind = "created" => answer'[r.by].order = o.order
  <2>1. CASE Refuses(r)
    <3>1. PICK kind \in {"refused", "expired", "uncertain"} :
            answer' = [answer EXCEPT ![r.by] = [kind |-> kind]]
      BY <2>1, FailureKinds DEF Refuses
    <3>2. answer'[r.by].kind = kind
      BY <1>2, <3>1 DEF TypeOK
    <3> QED BY <1>2, <2>1, <3>2 DEF Refuses
  <2>2. CASE Places(r)
    <3>1. PICK o \in Order :
            /\ placed' = placed \cup
                 {[by |-> r.by, order |-> o, selections |-> r.selections, policy |-> r.policy]}
            /\ \/ \E deadline \in now..MaxTime, balance \in BOOLEAN :
                    answer' = [answer EXCEPT ![r.by] =
                      [kind |-> "created", order |-> o, deadline |-> deadline, balance |-> balance]]
               \/ answer' = [answer EXCEPT ![r.by] = [kind |-> "uncertain"]]
      BY <2>2, FailureKinds DEF Places
    <3> DEFINE x == [by |-> r.by, order |-> o, selections |-> r.selections, policy |-> r.policy]
    <3>2. x \in PlacedOrder /\ x.selections = r.selections /\ x.policy = r.policy /\ x.order = o
      BY <1>1 DEF PlacedOrder, TypeOK, Request
    <3>3. placed' = {x}
      BY <1>2, <3>1
    <3>4. answer'[r.by].kind = "uncertain"
            \/ (answer'[r.by].kind = "created" /\ answer'[r.by].order = o)
      <4>1. CASE answer' = [answer EXCEPT ![r.by] = [kind |-> "uncertain"]]
        BY <1>2, <4>1 DEF TypeOK
      <4>2. CASE \E deadline \in now..MaxTime, balance \in BOOLEAN :
              answer' = [answer EXCEPT ![r.by] =
                [kind |-> "created", order |-> o, deadline |-> deadline, balance |-> balance]]
        BY <1>2, <4>2 DEF TypeOK
      <4> QED BY <3>1, <4>1, <4>2
    <3> HIDE DEF x
    <3> QED BY <3>2, <3>3, <3>4
  <2> QED BY <1>1, <2>1, <2>2
<1>a. \A q \in Process : answer[q].kind # "created"
  BY <1>2 DEF AnswersReal
<1>b. \A q \in Process : pc[q] # "saving"
  BY <1>a DEF OwnerSound
<1>6. OneOwner' /\ SentOnce'
  BY <1>1, <1>2, <1>3, <1>5 DEF OneOwner, SentOnce, ReadyMeansNothingSent, OneOrderPerBooking
<1>7. OwnerSound'
  <2> SUFFICES ASSUME NEW q \in Process
               PROVE  /\ pc[q] \in Working => Creating(ctx)
                      /\ pc[q] = "waiting" /\ answer'[q].kind \in {"refused", "expired"} => NothingSent'
                      /\ pc[q] \in {"start", "checked", "begun"} => answer'[q].kind = "none"
    BY <1>1, <1>2, <1>3, <1>b DEF OwnerSound
  <2>1. CASE q = r.by
    BY <1>2, <1>3, <1>5, <2>1 DEF OwnerSound, NothingSent
  <2>2. CASE q # r.by
    BY <1>2, <1>3, <1>4, <2>2 DEF OwnerSound, NothingSent
  <2> QED BY <2>1, <2>2
<1>8. AnswersReal'
  <2> SUFFICES ASSUME NEW q \in Process, answer'[q].kind = "created"
               PROVE  \E o \in placed' : o.order = answer'[q].order
    BY DEF AnswersReal
  <2>1. q = r.by
    BY <1>a, <1>4
  <2> QED BY <1>5, <2>1
<1>c. ctx.order = NoOrder
  BY <1>2 DEF RecordSound, SavedOrderIsReal
<1>9. RecordSound'
  BY <1>1, <1>c DEF RecordSound, SavedOrderIsReal
<1>10. OrderedAsSelected'
  BY <1>1, <1>2, <1>5 DEF OrderedAsSelected
<1> QED BY <1>6, <1>7, <1>8, <1>9, <1>10

(* The owner saves the order it was told of.                               *)
LEMMA SaveOrderStep ==
  ASSUME OrderInv, TypeOK', NEW p \in Process, SaveOrder(p)
  PROVE  OrderInv'
<1> USE DEF OrderInv
<1>1. /\ Creating(ctx) /\ pc[p] = "saving" /\ pc' = [pc EXCEPT ![p] = "over"]
      /\ payment' = PaymentOf(answer[p], now)
      /\ confirmed' = confirmed \cup {o \in {answer[p].order} : PaymentOf(answer[p], now) = "awaiting"}
      /\ UNCHANGED <<upstream, process>>
  BY DEF SaveOrder, Goto
<1>2. PICK t : ctx' = OrderFinished(ctx, "created", answer[p].order, t)
  BY DEF SaveOrder
<1>3. ctx'.attempt = "created" /\ ctx'.order = answer[p].order
  BY <1>2 DEF OrderFinished, TypeOK, BookingContext
<1>4. answer[p].kind = "created" /\ answer[p].order \in Order
  BY <1>1, AnswerOrder DEF OwnerSound
<1>5. \E o \in placed : o.order = answer[p].order
  BY <1>4 DEF AnswersReal
<1>6. confirmed = {} /\ ctx'.order # NoOrder
  BY <1>1, <1>3, <1>4, NoOrderAssumption DEF RecordSound, Creating
<1>7. RecordSound' /\ ReadyMeansNothingSent'
  BY <1>1, <1>3, <1>5, <1>6 DEF RecordSound, SavedOrderIsReal, ReadyMeansNothingSent, upstream
<1>8. ~Creating(ctx)' /\ pc[p] \in Working
  BY <1>1, <1>3 DEF Creating, Working
<1> QED BY <1>1, <1>7, <1>8, OwnerLeaves

(* mark_order_unknown preserves the invariant.                             *)
LEMMA MarkUnknownStep ==
  ASSUME OrderInv, TypeOK', NEW p \in Process, MarkUnknown(p)
  PROVE  OrderInv'
<1> USE DEF OrderInv
<1>1. /\ Creating(ctx) /\ pc[p] = "unknowing" /\ pc' = [pc EXCEPT ![p] = "over"]
      /\ UNCHANGED <<confirmed, payment, upstream, process>>
  BY DEF MarkUnknown, Goto, Store, saved
<1>2. PICK t : ctx' = OrderFinished(ctx, "unknown", NoOrder, t)
  BY DEF MarkUnknown, Store
<1>3. ctx'.attempt = "unknown" /\ ctx'.order = NoOrder
  BY <1>2 DEF OrderFinished, TypeOK, BookingContext
<1>4. RecordSound' /\ ReadyMeansNothingSent'
  BY <1>1, <1>3 DEF RecordSound, SavedOrderIsReal, ReadyMeansNothingSent, Creating
<1>5. ~Creating(ctx)' /\ pc[p] \in Working
  BY <1>1, <1>3 DEF Creating, Working
<1> QED BY <1>1, <1>4, <1>5, OwnerLeaves

(* reset_order_attempt preserves the invariant: only a refused attempt is reset. *)
LEMMA ResetStep ==
  ASSUME OrderInv, TypeOK', NEW p \in Process, ResetAttempt(p)
  PROVE  OrderInv'
<1> USE DEF OrderInv
<1>1. /\ Creating(ctx) /\ pc[p] = "resetting" /\ pc' = [pc EXCEPT ![p] = "over"]
      /\ UNCHANGED <<confirmed, payment, upstream, process>>
  BY DEF ResetAttempt, Goto, Store, saved
<1>2. PICK t : ctx' = AttemptReset(ctx, t)
  BY DEF ResetAttempt, Store
<1>3. ctx'.attempt = "ready" /\ ctx'.order = NoOrder
  BY <1>1, <1>2 DEF AttemptReset, TypeOK, BookingContext, Creating
<1>4. RecordSound' /\ ReadyMeansNothingSent'
  BY <1>1, <1>3 DEF RecordSound, SavedOrderIsReal, ReadyMeansNothingSent, Creating, upstream,
    OwnerSound, NothingSent
<1>5. ~Creating(ctx)' /\ pc[p] \in Working
  BY <1>1, <1>3 DEF Creating, Working
<1> QED BY <1>1, <1>4, <1>5, OwnerLeaves

(* expire_context preserves the invariant.                                 *)
LEMMA ExpireStep ==
  ASSUME OrderInv, TypeOK', NEW p \in Process, Expire(p)
  PROVE  OrderInv'
<1> USE DEF OrderInv
<1>1. /\ pc[p] = "expiring" /\ pc' = [pc EXCEPT ![p] = "over"] /\ Creating(ctx)
      /\ UNCHANGED <<confirmed, payment, upstream, process>>
  BY DEF Expire, Goto, Store, saved, OwnerSound, Working
<1>2. PICK t \in now..MaxTime : ctx' = ContextExpired(ctx, t)
  BY DEF Expire, Store
<1>3. t \in Nat
  BY ServiceAssumption DEF TypeOK
<1>4. /\ ctx'.attempt = ctx.attempt /\ ctx'.order = ctx.order
      /\ ctx'.expiresAt = t /\ ctx'.updatedAt = t
  BY <1>2 DEF ContextExpired, TypeOK, BookingContext
<1>5. RecordSound' /\ ReadyMeansNothingSent'
  BY <1>1, <1>4 DEF RecordSound, SavedOrderIsReal, ReadyMeansNothingSent, Creating
<1>6. IsTerminal(ctx)' /\ pc[p] \in Working
  BY <1>1, <1>3, <1>4 DEF IsTerminal, Working
<1> QED BY <1>1, <1>5, <1>6, OwnerLeaves

(* The other commands on the booking leave its attempt alone.              *)
LEMMA EditedKeepsAttempt ==
  ASSUME TypeOK, NEW t, NEW c \in Edited(t)
  PROVE  c.attempt = ctx.attempt /\ c.order = ctx.order
BY DEF Edited, PriceConfirmed, OptionsReplaced, AncillaryClosed, Selected, SelectionRemoved,
  TypeOK, BookingContext

(* The other commands preserve the invariant: they run when nothing was sent. *)
LEMMA EditStep ==
  ASSUME OrderInv, TypeOK', Edit
  PROVE  OrderInv'
<1> USE DEF OrderInv, saved, upstream, process
<1>1. Ready(ctx) /\ UNCHANGED <<confirmed, payment, inflight, placed, answer, policy, seen, pc>>
  BY DEF Edit, Store
<1>2. ctx'.attempt = ctx.attempt /\ ctx'.order = ctx.order
  BY EditedKeepsAttempt DEF Edit, Store
<1>3. inflight = {} /\ placed = {} /\ ~Creating(ctx)
  BY <1>1 DEF SentOnce, ReadyMeansNothingSent, Ready, Creating
<1>4. OneOwner' /\ SentOnce'
  BY <1>1, <1>3 DEF OneOwner, SentOnce, ReadyMeansNothingSent, OneOrderPerBooking
<1>5. \A q \in Process : pc[q] \notin Working
  BY <1>3 DEF OwnerSound
<1>6. OwnerSound'
  BY <1>1, <1>3, <1>5 DEF OwnerSound, NothingSent, Working
<1>7. AnswersReal' /\ RecordSound' /\ OrderedAsSelected'
  BY <1>1, <1>2, <1>3 DEF AnswersReal, RecordSound, SavedOrderIsReal, OrderedAsSelected
<1> QED BY <1>4, <1>6, <1>7

(* Every step preserves the invariant.                                     *)
LEMMA OrderInvStep ==
  ASSUME OrderInv, Stamped, [Next]_vars
  PROVE  OrderInv' /\ Stamped'
<1>0. TypeOK' /\ Stamped'
  BY OrderTypeStep DEF OrderInv, OwnerSound
<1>1. CASE Tick \/ UNCHANGED vars
  BY <1>0, <1>1 DEF Tick, vars, saved, upstream, process, OrderInv, OneOwner, SentOnce, OwnerSound,
    NothingSent, AnswersReal, RecordSound, SavedOrderIsReal, OrderedAsSelected,
    ReadyMeansNothingSent, OneOrderPerBooking
<1>2. CASE Edit
  BY <1>0, <1>2, EditStep
<1>3. CASE Upstream
  BY <1>0, <1>3, UpstreamStep
<1>4. ASSUME NEW p \in Process, Create(p) \/ Crash(p)
      PROVE  OrderInv'
  <2>1. CASE Load(p)
    <3>1. pc[p] = "start" /\ pc' = [pc EXCEPT ![p] = "checked"] /\ seen' = [seen EXCEPT ![p] = ctx]
            /\ UNCHANGED <<now, ctx, saved, upstream, policy>>
      BY <2>1 DEF Load, Goto
    <3>2. \A q \in Process : q # p => seen'[q] = seen[q]
      BY <3>1 DEF OrderInv, TypeOK
    <3> QED BY <1>0, <3>1, <3>2, ControlStep DEF Control, Working
  <2>2. CASE LoadRefused(p) \/ BeginRefused(p) \/ SummaryFails(p) \/ HandlerRaises(p)
            \/ Crash(p)
    <3>1. pc' = [pc EXCEPT ![p] = "over"] /\ UNCHANGED <<now, ctx, saved, upstream, policy, seen>>
      BY <2>2 DEF LoadRefused, BeginRefused, SummaryFails, HandlerRaises, Crash, Goto, process
    <3> QED BY <1>0, <3>1, ControlStep DEF Control, Working
  <2>3. CASE TimeOut(p) \/ SaveOrderFails(p)
    <3>1. pc[p] \in {"waiting", "saving"} /\ pc' = [pc EXCEPT ![p] = "unknowing"]
            /\ UNCHANGED <<now, ctx, saved, upstream, policy, seen>>
      BY <2>3 DEF TimeOut, SaveOrderFails, Goto, process
    <3> QED BY <1>0, <3>1, ControlStep DEF Control, Working
  <2>4. CASE LockedCheckFails(p)
    <3>1. pc[p] = "begun" /\ pc' = [pc EXCEPT ![p] = "resetting"]
            /\ UNCHANGED <<now, ctx, saved, upstream, policy, seen>>
      BY <2>4 DEF LockedCheckFails, Goto, process
    <3>2. NothingSent
      BY <3>1 DEF OrderInv, OwnerSound
    <3> QED BY <1>0, <3>1, <3>2, ControlStep DEF Control, Working
  <2>5. CASE Receive(p)
    <3> DEFINE to == AnswerState(answer[p].kind)
    <3>1. pc[p] = "waiting" /\ pc' = [pc EXCEPT ![p] = to]
            /\ UNCHANGED <<now, ctx, saved, upstream, policy, seen>>
      BY <2>5 DEF Receive, Goto, process
    <3>2. /\ to \in {"saving", "resetting", "expiring", "unknowing"}
          /\ to \in {"resetting", "expiring"} => answer[p].kind \in {"refused", "expired"}
          /\ to = "saving" => answer[p].kind = "created"
      BY DEF AnswerState
    <3> HIDE DEF to
    <3>3. to \in {"resetting", "expiring"} => NothingSent
      BY <3>1, <3>2 DEF OrderInv, OwnerSound
    <3> QED BY <1>0, <3>1, <3>2, <3>3, ControlStep DEF Control, Working
  <2>6. CASE Begin(p)
    BY <1>0, <2>6, BeginStep
  <2>7. CASE Submit(p)
    BY <1>0, <2>7, SubmitStep
  <2>8. CASE SaveOrder(p)
    BY <1>0, <2>8, SaveOrderStep
  <2>9. CASE MarkUnknown(p)
    BY <1>0, <2>9, MarkUnknownStep
  <2>10. CASE ResetAttempt(p)
    BY <1>0, <2>10, ResetStep
  <2>11. CASE Expire(p)
    BY <1>0, <2>11, ExpireStep
  <2> QED
    BY <1>4, <2>1, <2>2, <2>3, <2>4, <2>5, <2>6, <2>7, <2>8, <2>9, <2>10, <2>11 DEF Create
<1> QED BY <1>0, <1>1, <1>2, <1>3, <1>4 DEF Next

(* The invariant behind the theorems of this module.                       *)
LEMMA OrderInvariant == Spec => [](OrderInv /\ Stamped)
<1>1. Init => OrderInv /\ Stamped
  <2> SUFFICES ASSUME Init PROVE OrderInv /\ Stamped
    OBVIOUS
  <2>1. PICK g \in Generation, inc \in BOOLEAN :
          ctx = VerifiedContext(g, 1, inc, AncillaryKind, 0, Life)
    BY DEF Init
  <2>2. ctx \in BookingContext
    BY <2>1, ServiceAssumption DEF VerifiedContext, BookingContext, OrderAttemptState
  <2>3. ctx.attempt = "ready" /\ ctx.order = NoOrder /\ ctx.updatedAt = 0
    BY <2>1 DEF VerifiedContext
  <2>4. \A p \in Process : pc[p] = "start" /\ answer[p].kind = "none"
    BY DEF Init, NoAnswer
  <2>5. TypeOK
    BY <2>2 DEF Init, TypeOK, Control, Answer, NoAnswer
  <2>6. OneOwner /\ OwnerSound
    BY <2>4 DEF OneOwner, OwnerSound, Working, Init
  <2>7. SentOnce /\ AnswersReal /\ RecordSound /\ OrderedAsSelected
    BY <2>3, <2>4 DEF Init, SentOnce, AnswersReal, RecordSound, OrderedAsSelected,
      ReadyMeansNothingSent, OneOrderPerBooking, SavedOrderIsReal
  <2> QED BY <2>3, <2>5, <2>6, <2>7 DEF OrderInv, Stamped, Init
<1>2. OrderInv /\ Stamped /\ [Next]_vars => (OrderInv /\ Stamped)'
  BY OrderInvStep
<1> QED BY <1>1, <1>2, PTL DEF Spec

-----------------------------------------------------------------------------
(* However many commands run, die, time out and are run again, the         *)
(* upstream holds at most one order for the booking.                       *)
THEOREM AtMostOneOrder == Spec => []OneOrderPerBooking
<1>1. OrderInv => OneOrderPerBooking
  BY DEF OrderInv, SentOnce
<1> QED BY <1>1, OrderInvariant, PTL

(* The booking is open for an attempt only when nothing was placed and     *)
(* nothing can be.                                                         *)
THEOREM RetryOnlyWhenSafe == Spec => []ReadyMeansNothingSent
<1>1. OrderInv => ReadyMeansNothingSent
  BY DEF OrderInv, SentOnce
<1> QED BY <1>1, OrderInvariant, PTL

(* A recorded order exists, and is payable exactly with a confirmation.    *)
THEOREM RecordedOrderExists == Spec => []SavedOrderIsReal
<1>1. OrderInv => SavedOrderIsReal
  BY DEF OrderInv, RecordSound
<1> QED BY <1>1, OrderInvariant, PTL

(* An order is made of the ancillaries the booking holds under the lock.   *)
THEOREM OrderMatchesBooking == Spec => []OrderedAsSelected
<1>1. OrderInv => OrderedAsSelected
  BY DEF OrderInv
<1> QED BY <1>1, OrderInvariant, PTL

(* The records the service works with are well-formed.                     *)
THEOREM OrderServiceTypeOK == Spec => []TypeOK
<1>1. OrderInv => TypeOK
  BY DEF OrderInv
<1> QED BY <1>1, OrderInvariant, PTL

-----------------------------------------------------------------------------
(* What becomes of an order that was created.                              *)

(* A command that is over either left the attempt with an outcome, or did  *)
(* not learn of an order and has no request on its way that could tell it. *)
Accounted ==
  \A p \in Process \ (Faulty \cup Unmaskable) : pc[p] = "over" =>
    \/ Finished(ctx)
    \/ answer[p].kind # "created" /\ \A r \in inflight : r.by # p

(* A call of the store finds no outcome, so an outcome stays.              *)
LEMMA CallFindsNoOutcome ==
  ASSUME NEW c, NEW d, StoreCall(c, d)
  PROVE  ~Finished(c)
BY DEF StoreCall, Attempts, Creating, IsTerminal, Finished

(* Nothing else ends a command that lives: its handlers find the attempt it*)
(* began still under way, and an attempt is reset or expired only if       *)
(* nothing was sent.                                                       *)
LEMMA AccountedStep ==
  ASSUME OrderInv, Stamped, Accounted, [Next]_vars
  PROVE  Accounted'
<1> USE DEF saved, upstream, process
<1>t. ctx \in BookingContext
  BY DEF OrderInv, TypeOK
<1>1. Finished(ctx) => Finished(ctx')
  <2>1. ctx' = ctx \/ StoreCall(ctx, ctx')
    BY BookingStep DEF OrderInv, OwnerSound
  <2> QED BY <2>1, CallFindsNoOutcome
<1>2. SUFFICES ASSUME NEW p \in Process \ (Faulty \cup Unmaskable), pc'[p] = "over",
                      ~Finished(ctx')
               PROVE  answer'[p].kind # "created" /\ \A r \in inflight' : r.by # p
  BY DEF Accounted
<1>3. ~Finished(ctx)
  BY <1>1, <1>2
<1>4. CASE pc[p] = "over"
  <2>1. answer[p].kind # "created" /\ \A r \in inflight : r.by # p
    BY <1>2, <1>3, <1>4 DEF Accounted
  <2>2. CASE Tick \/ Edit \/ UNCHANGED vars
    BY <2>1, <2>2 DEF Tick, Edit, Store, vars
  <2>3. CASE Upstream
    <3>1. PICK r \in inflight :
            (Places(r) \/ Refuses(r)) /\ inflight' = inflight \ {r}
      BY <2>3 DEF Upstream
    <3>2. answer'[p] = answer[p]
      BY <2>1, <3>1 DEF Places, Refuses, OrderInv, TypeOK
    <3> QED BY <2>1, <3>1, <3>2
  <2>4. ASSUME NEW q \in Process, Create(q) \/ Crash(q)
        PROVE  answer'[p].kind # "created" /\ \A r \in inflight' : r.by # p
    <3>1. q # p \/ ~Submit(q)
      BY <1>4 DEF Submit, Goto
    <3>2. answer' = answer /\ (inflight' = inflight \/ Submit(q))
      BY <2>4 DEF Create, Load, LoadRefused, Begin, BeginRefused, LockedCheckFails, Submit,
        Receive, TimeOut, SummaryFails, SaveOrder, SaveOrderFails, MarkUnknown, ResetAttempt,
        Expire, HandlerRaises, Crash, Store
    <3> QED BY <2>1, <3>1, <3>2 DEF Submit
  <2> QED BY <2>2, <2>3, <2>4 DEF Next
<1>5. CASE pc[p] # "over"
  <2>1. PICK q \in Process : Create(q) \/ Crash(q)
    <3>1. pc' # pc
      BY <1>2, <1>5
    <3> QED BY <3>1 DEF Next, vars, Tick, Edit, Upstream
  <2>2. q = p /\ ~Crash(p) /\ ~SummaryFails(p)
    <3>1. q = p
      BY <1>2, <1>5, <2>1 DEF Create, Load, LoadRefused, Begin, BeginRefused, LockedCheckFails,
        Submit, Receive, TimeOut, SummaryFails, SaveOrder, SaveOrderFails, MarkUnknown,
        ResetAttempt, Expire, HandlerRaises, Crash, Goto, OrderInv, TypeOK
    <3> QED BY <1>2, <3>1 DEF Crash, SummaryFails
  <2>3. answer' = answer /\ inflight' = inflight
    BY <1>2, <1>5, <2>1, <2>2 DEF Create, Load, LoadRefused, Begin, BeginRefused,
      LockedCheckFails, Submit, Receive, TimeOut, SummaryFails, SaveOrder, SaveOrderFails,
      MarkUnknown, ResetAttempt, Expire, HandlerRaises, Goto, Store, OrderInv, TypeOK, AnswerState
  <2>4. \/ pc[p] \in {"start", "checked", "resetting", "expiring"}
        \/ SaveOrder(p) \/ MarkUnknown(p)
        \/ pc[p] = "unknowing" /\ ~Creating(ctx)
    BY <1>2, <2>1, <2>2 DEF Create, Load, LoadRefused, Begin, BeginRefused, LockedCheckFails,
      Submit, Receive, TimeOut, SaveOrderFails, ResetAttempt, Expire, HandlerRaises, Goto,
      OrderInv, TypeOK, AnswerState
  <2>5. CASE pc[p] \in {"start", "checked"}
    BY <2>3, <2>5 DEF OrderInv, OwnerSound
  <2>6. CASE pc[p] \in {"resetting", "expiring"}
    <3>1. inflight = {} /\ placed = {}
      BY <2>6 DEF OrderInv, OwnerSound, NothingSent
    <3> QED BY <2>3, <3>1 DEF OrderInv, AnswersReal
  <2>7. CASE SaveOrder(p) \/ MarkUnknown(p)
    <3>1. Finished(ctx')
      BY <1>t, <2>7 DEF SaveOrder, MarkUnknown, Store, OrderFinished, Finished, BookingContext
    <3> QED BY <1>2, <3>1
  <2>8. CASE pc[p] = "unknowing" /\ ~Creating(ctx)
    BY <2>8 DEF OrderInv, OwnerSound, Working
  <2> QED BY <2>4, <2>5, <2>6, <2>7, <2>8
<1> QED BY <1>4, <1>5

(* A command that lives, with documents the summary can mask, and that     *)
(* learnt that its order was created leaves it recorded, or the attempt    *)
(* marked unknown, whatever the store does and whatever happens to the     *)
(* other commands: CreatedOrderAccounted, but for the failing summary.     *)
THEOREM CreatedOrdersAccounted ==
  Spec => [](\A p \in Process \ (Faulty \cup Unmaskable) :
               pc[p] = "over" /\ answer[p].kind = "created" => Finished(ctx))
<1> DEFINE Told == \A p \in Process \ (Faulty \cup Unmaskable) :
                     pc[p] = "over" /\ answer[p].kind = "created" => Finished(ctx)
<1>1. Init => Accounted
  BY DEF Init, Accounted
<1>2. (OrderInv /\ Stamped) /\ Accounted /\ [Next]_vars => Accounted'
  BY AccountedStep
<1>3. Accounted => Told
  BY DEF Accounted
<1> HIDE DEF Told
<1>4. Spec => []Told
  BY <1>1, <1>2, <1>3, OrderInvariant, PTL DEF Spec
<1> QED BY <1>4 DEF Told

-----------------------------------------------------------------------------
(* The refinement: a step of OrderService is a step of the protocol or none.*)

(* A step that leaves the attempt, the order and the upstream alone stutters. *)
LEMMA OneShotStutter ==
  ASSUME ctx'.attempt = ctx.attempt, ctx'.order = ctx.order, placed' = placed
  PROVE  UNCHANGED OneShot!vars
BY DEF OneShot!vars

(* Every step is a step of OneShotOrder, or stutters.                      *)
LEMMA OneShotStep ==
  ASSUME OrderInv, [Next]_vars
  PROVE  [OneShot!Next]_(OneShot!vars)
<1> USE DEF saved, upstream, process
<1>t. ctx \in BookingContext
  BY DEF OrderInv, TypeOK
<1>1. CASE Tick \/ UNCHANGED vars
  BY <1>1, OneShotStutter DEF Tick, vars
<1>2. CASE Edit
  <2>1. ctx'.attempt = ctx.attempt /\ ctx'.order = ctx.order /\ placed' = placed
    BY <1>2, EditedKeepsAttempt DEF Edit, Store, OrderInv
  <2> QED BY <2>1, OneShotStutter
<1>3. CASE Upstream
  <2>1. PICK r \in inflight : Places(r) \/ Refuses(r)
    BY <1>3 DEF Upstream
  <2>2. ctx' = ctx
    BY <1>3 DEF Upstream
  <2>3. CASE Refuses(r)
    BY <2>2, <2>3, OneShotStutter DEF Refuses
  <2>4. CASE Places(r)
    <3>1. placed = {} /\ ctx.attempt \in {"creating", "unknown"}
      <4>1. placed = {} /\ ctx.attempt # "ready"
        BY DEF OrderInv, SentOnce, ReadyMeansNothingSent
      <4>2. ctx.attempt # "created"
        BY <4>1 DEF OrderInv, RecordSound, SavedOrderIsReal
      <4> QED BY <1>t, <4>1, <4>2 DEF BookingContext, OrderAttemptState
    <3>2. PICK o \in Order : placed' = placed \cup
            {[by |-> r.by, order |-> o, selections |-> r.selections, policy |-> r.policy]}
      BY <2>4 DEF Places
    <3>3. {q.order : q \in placed} = {} /\ {q.order : q \in placed'} = {o}
      BY <3>1, <3>2
    <3>4. OneShot!Place(o)
      BY <2>2, <3>1, <3>3 DEF OneShot!Place
    <3> QED BY <3>4 DEF OneShot!Next
  <2> QED BY <2>1, <2>3, <2>4
<1>4. ASSUME NEW p \in Process, Create(p) \/ Crash(p)
      PROVE  [OneShot!Next]_(OneShot!vars)
  <2>1. CASE Begin(p)
    <3>1. ctx.attempt = "ready" /\ ctx'.attempt = "creating" /\ ctx'.order = ctx.order
            /\ placed' = placed
      BY <1>t, <2>1 DEF Begin, Ready, OrderBegun, BookingContext
    <3>2. OneShot!Begin
      BY <3>1 DEF OneShot!Begin
    <3> QED BY <3>2 DEF OneShot!Next
  <2>2. CASE SaveOrder(p)
    <3>1. PICK t : ctx' = OrderFinished(ctx, "created", answer[p].order, t)
      BY <2>2 DEF SaveOrder
    <3>2. ctx.attempt = "creating" /\ ctx'.attempt = "created" /\ ctx'.order = answer[p].order
            /\ placed' = placed
      BY <1>t, <2>2, <3>1 DEF SaveOrder, Creating, OrderFinished, BookingContext
    <3>3. \E o \in placed : o.order = answer[p].order
      BY <2>2 DEF SaveOrder, Goto, OrderInv, OwnerSound, AnswersReal
    <3>4. \E o \in {q.order : q \in placed} : ctx'.order = o
      BY <3>2, <3>3
    <3>5. OneShot!Record
      BY <3>2, <3>4 DEF OneShot!Record
    <3> QED BY <3>5 DEF OneShot!Next
  <2>3. CASE MarkUnknown(p)
    <3>1. PICK t : ctx' = OrderFinished(ctx, "unknown", NoOrder, t)
      BY <2>3 DEF MarkUnknown, Store
    <3>2. ctx.attempt = "creating" /\ ctx'.attempt = "unknown" /\ ctx'.order = ctx.order
            /\ placed' = placed
      BY <1>t, <2>3, <3>1 DEF MarkUnknown, Store, Creating, OrderFinished, BookingContext
    <3>3. OneShot!GiveUp
      BY <3>2 DEF OneShot!GiveUp
    <3> QED BY <3>3 DEF OneShot!Next
  <2>4. CASE ResetAttempt(p)
    <3>1. PICK t : ctx' = AttemptReset(ctx, t)
      BY <2>4 DEF ResetAttempt, Store
    <3>2. ctx.attempt = "creating" /\ ctx'.attempt = "ready" /\ ctx'.order = ctx.order
            /\ placed' = placed
      BY <1>t, <2>4, <3>1 DEF ResetAttempt, Store, Creating, AttemptReset, BookingContext
    <3>3. placed = {}
      BY <2>4 DEF ResetAttempt, Goto, OrderInv, OwnerSound, NothingSent
    <3>4. OneShot!Reopen
      BY <3>2, <3>3 DEF OneShot!Reopen
    <3> QED BY <3>4 DEF OneShot!Next
  <2>5. CASE Expire(p)
    <3>1. ctx'.attempt = ctx.attempt /\ ctx'.order = ctx.order /\ placed' = placed
      BY <1>t, <2>5 DEF Expire, Store, ContextExpired, BookingContext
    <3> QED BY <3>1, OneShotStutter
  <2>6. CASE Load(p) \/ LoadRefused(p) \/ BeginRefused(p) \/ Submit(p) \/ LockedCheckFails(p)
             \/ Receive(p) \/ TimeOut(p) \/ SummaryFails(p) \/ SaveOrderFails(p)
             \/ HandlerRaises(p) \/ Crash(p)
    <3>1. ctx' = ctx /\ placed' = placed
      BY <2>6 DEF Load, LoadRefused, BeginRefused, Submit, LockedCheckFails, Receive, TimeOut,
        SummaryFails, SaveOrderFails, HandlerRaises, Crash
    <3> QED BY <3>1, OneShotStutter
  <2> QED BY <1>4, <2>1, <2>2, <2>3, <2>4, <2>5, <2>6 DEF Create
<1> QED BY <1>1, <1>2, <1>3, <1>4 DEF Next

(* All that order creation and the commands beside it ever do to the       *)
(* booking is to call the store: each change is one call, as BookingStore  *)
(* promises it (BookingStore!AtomicSpec) whatever its processes do.        *)
THEOREM OrderCallsStore == Spec => [][StoreCall(ctx, ctx')]_ctx
<1>1. OrderInv /\ Stamped /\ [Next]_vars => [StoreCall(ctx, ctx')]_ctx
  <2> SUFFICES ASSUME OrderInv, Stamped, [Next]_vars PROVE [StoreCall(ctx, ctx')]_ctx
    OBVIOUS
  <2> QED BY BookingStep DEF OrderInv, OwnerSound
<1> QED BY <1>1, OrderInvariant, PTL DEF Spec

(* Order creation implements the one-shot protocol: asked again only after *)
(* a definite refusal, an outcome once recorded stays, and a recorded order*)
(* is the one that was placed.                                             *)
THEOREM OrderCreationIsOneShot == Spec => OneShotSpec
<1>1. Init => OneShot!Init
  <2> SUFFICES ASSUME Init PROVE OneShot!Init
    OBVIOUS
  <2>1. ctx.attempt = "ready" /\ ctx.order = NoOrder
    BY DEF Init, VerifiedContext
  <2>2. {o.order : o \in placed} = {}
    BY DEF Init
  <2> QED BY <2>1, <2>2 DEF OneShot!Init
<1>2. OrderInv /\ [Next]_vars => [OneShot!Next]_(OneShot!vars)
  BY OneShotStep
<1> QED BY <1>1, <1>2, OrderInvariant, PTL DEF Spec, OneShotSpec, OneShot!Spec

=============================================================================
