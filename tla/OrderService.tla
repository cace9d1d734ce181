---------------------------- MODULE OrderService ----------------------------
(***************************************************************************)
(* `atlas-flight order create` for one booking: several invocations of the *)
(* command run as processes of their own beside the commands that edit the *)
(* booking, share contexts.json through BookingStore, and call an upstream *)
(* whose answers may be late, lost or refusals.                            *)
(*                                                                         *)
(* A store operation is one step here: it runs under the file lock, and    *)
(* BookingStore shows what its crashes leave behind.  A process that dies, *)
(* or whose store operation raises something the service does not handle,  *)
(* is over.  The booking's keyring record exists as long as the record is  *)
(* not terminal (BookingStore!SecretsBound).                               *)
(***************************************************************************)
EXTENDS BookingRecords, BusinessStatus

CONSTANTS
  Process,    (* invocations of `order create`, each a process              *)
  Life,       (* expires_at of the booking                                  *)
  MaxTime,    (* bound: the clock stops here                                *)
  Faulty,     (* processes that may die and whose store operations may fail *)
  Unmaskable  (* processes that may be given a document number that the     *)
              (* passenger rules accept and the masked summary of an order  *)
              (* does not: its end is not four capitals or digits           *)

ASSUME ServiceAssumption ==
  /\ Life \in Nat \ {0} /\ MaxTime \in Nat
  /\ Faulty \subseteq Process /\ Unmaskable \subseteq Process

VARIABLES
  now,          (* the wall clock                                           *)
  ctx,          (* the booking in contexts.json                             *)
  confirmed,    (* orders for which contexts.json holds a confirmation      *)
  payment,      (* payment_state of ctx.order                               *)
  inflight,     (* requests the upstream has not dealt with                 *)
  placed,       (* the orders the upstream holds for this booking           *)
  pc,           (* where each process is in OrderService.create             *)
  policy,       (* did the process get a valid --seat-policy?               *)
  seen,         (* the context the process works from                       *)
  answer        (* the upstream's answer to the process                     *)

process == <<policy, seen>>
upstream == <<inflight, placed, answer>>
saved == <<confirmed, payment>>
vars == <<now, ctx, confirmed, payment, inflight, placed, pc, policy, seen, answer>>

Control ==
  {"start", "checked", "begun", "waiting", "saving", "unknowing", "resetting",
   "expiring", "over"}

Request == [by : Process, selections : SUBSET AncillarySelection, policy : BOOLEAN]

PlacedOrder ==
  [by : Process, order : Order, selections : SUBSET AncillarySelection, policy : BOOLEAN]

(* "created" carries the order; "refused" is a definite rejection, "expired" *)
(* status 308, "uncertain" a status or an answer that settles nothing.     *)
Answer ==
  [kind : {"none", "refused", "expired", "uncertain"}]
    \cup [kind : {"created"}, order : Order, deadline : Nat, balance : BOOLEAN]

NoAnswer == [kind |-> "none"]

-----------------------------------------------------------------------------
HasSeat(c) == \E sel \in c.selections : KindOf[sel.option] = "seat"

PolicyGiven(p, c) == HasSeat(c) => policy[p]

(* The keyring record of an open booking is the one of its revision.       *)
Loads(c) == Hydrates(c, c.generation, c.options)

Active(c) == now < c.expiresAt /\ Loads(c)

Stamp(t) == t \in now..MaxTime /\ now' = t

Goto(p, from, to) == pc[p] = from /\ pc' = [pc EXCEPT ![p] = to]

(* A store operation that succeeds: the booking becomes c.                 *)
Store(c) == ctx' = c /\ UNCHANGED <<saved, upstream, process>>

-----------------------------------------------------------------------------
(* OrderService.create, before the upstream call.                          *)

(* load, and the checks on what it returned: a finished or expired booking *)
(* is loaded too if it can be restored.                                    *)
Load(p) ==
  /\ Restorable(ctx) \/ Active(ctx)
  /\ PriceSettled(ctx) /\ PolicyGiven(p, ctx)
  /\ Goto(p, "start", "checked")
  /\ seen' = [seen EXCEPT ![p] = ctx]
  /\ UNCHANGED <<now, ctx, saved, upstream, policy>>

LoadRefused(p) ==
  /\ Goto(p, "start", "over")
  /\ UNCHANGED <<now, ctx, saved, upstream, process>>

(* A mistake a change to the code could make, for the mutation runs: the   *)
(* order made of the booking as it was loaded.                             *)
BeginStale(p) ==
  /\ Active(ctx) /\ Ready(ctx) /\ PriceSettled(ctx)
  /\ Goto(p, "checked", "begun")
  /\ \E t \in now..MaxTime : Stamp(t) /\ Store(OrderBegun(ctx, t))

(* The compare-and-set that admits one process; it works from the record   *)
(* as it is now.                                                           *)
Begin(p) ==
  /\ Active(ctx) /\ Ready(ctx) /\ PriceSettled(ctx)
  /\ Goto(p, "checked", "begun")
  /\ \E t \in now..MaxTime :
       /\ Stamp(t)
       /\ ctx' = OrderBegun(ctx, t)
       /\ seen' = [seen EXCEPT ![p] = OrderBegun(ctx, t)]
  /\ UNCHANGED <<saved, upstream, policy>>

BeginRefused(p) ==
  /\ ~(Active(ctx) /\ Ready(ctx) /\ PriceSettled(ctx))
  /\ Goto(p, "checked", "over")
  /\ UNCHANGED <<now, ctx, saved, upstream, process>>

(* _validate_locked_context passes and the request leaves.                 *)
Submit(p) ==
  /\ PriceSettled(seen[p]) /\ PolicyGiven(p, seen[p])
  /\ Goto(p, "begun", "waiting")
  /\ inflight' = inflight \cup {[by |-> p, selections |-> seen[p].selections, policy |-> policy[p]]}
  /\ UNCHANGED <<now, ctx, saved, placed, answer, process>>

(* It fails: on the price, the seat policy, or the passengers, whose       *)
(* documents are checked against today's date.                             *)
LockedCheckFails(p) ==
  /\ Goto(p, "begun", "resetting")
  /\ UNCHANGED <<now, ctx, saved, upstream, process>>

-----------------------------------------------------------------------------
(* The upstream.                                                           *)

(* What the handlers of create tell apart in an answer that is no order:   *)
(* every error below the table is a BusinessApiError, hence uncertain.     *)
AnswerKind(s) ==
  CASE s = 308                                   -> "expired"
    [] s < 0 \/ SideEffectUncertain("order", s)  -> "uncertain"
    [] OTHER                                     -> "refused"

(* What an upstream that did place the order may still answer: that it is  *)
(* a duplicate or is not settled yet, nothing, or what nobody knows.       *)
UnsettledStatus == {318, 330, NoResponse, Malformed, Unlisted}

UnsettledAnswer == {AnswerKind(s) : s \in UnsettledStatus}
FailedAnswer == {AnswerKind(s) : s \in Failure("order")}

Places(r) ==
  \E o \in Order :
    /\ \A q \in placed : q.order # o
    /\ placed' = placed \cup
         {[by |-> r.by, order |-> o, selections |-> r.selections, policy |-> r.policy]}
    /\ \/ \E deadline \in now..MaxTime, balance \in BOOLEAN :
            answer' = [answer EXCEPT ![r.by] =
              [kind |-> "created", order |-> o, deadline |-> deadline, balance |-> balance]]
       \/ \E kind \in UnsettledAnswer :
            answer' = [answer EXCEPT ![r.by] = [kind |-> kind]]

Refuses(r) ==
  /\ \E kind \in FailedAnswer :
       answer' = [answer EXCEPT ![r.by] = [kind |-> kind]]
  /\ UNCHANGED placed

Upstream ==
  \E r \in inflight :
    /\ Places(r) \/ Refuses(r)
    /\ inflight' = inflight \ {r}
    /\ UNCHANGED <<now, ctx, saved, pc, process>>

-----------------------------------------------------------------------------
(* OrderService.create, after the upstream call.                           *)

(* A mistake: an uncertain answer that is not recorded.                    *)
UncertainDropped(kind) == IF kind = "created" THEN "saving" ELSE "over"

AnswerState(kind) ==
  CASE kind = "created" -> "saving"
    [] kind = "refused" -> "resetting"
    [] kind = "expired" -> "expiring"
    [] OTHER            -> "unknowing"

Receive(p) ==
  /\ answer[p].kind # "none"
  /\ Goto(p, "waiting", AnswerState(answer[p].kind))
  /\ UNCHANGED <<now, ctx, saved, upstream, process>>

(* A mistake: a request that timed out is allowed again.                   *)
TimeOutReopens(p) ==
  /\ Goto(p, "waiting", "resetting")
  /\ UNCHANGED <<now, ctx, saved, upstream, process>>

(* The client gives up waiting: a BusinessApiError, uncertain.  The        *)
(* request may still be on its way.                                        *)
TimeOut(p) ==
  /\ Goto(p, "waiting", "unknowing")
  /\ UNCHANGED <<now, ctx, saved, upstream, process>>

PaymentOf(a, t) == IF t < a.deadline /\ a.balance THEN "awaiting" ELSE "unavailable"

(* A mistake: the confirmation left to a later write.                      *)
SaveOrderOnly(p) ==
  /\ Creating(ctx)
  /\ Goto(p, "saving", "over")
  /\ \E t \in now..MaxTime :
       /\ Stamp(t)
       /\ ctx' = OrderFinished(ctx, "created", answer[p].order, t)
  /\ payment' = PaymentOf(answer[p], now)
  /\ UNCHANGED <<confirmed, upstream, process>>

(* _order_state: the summary of the created order rejects the masked       *)
(* document with a ValidationError, which create does not handle.          *)
SummaryFails(p) ==
  /\ p \in Unmaskable
  /\ Goto(p, "saving", "over")
  /\ UNCHANGED <<now, ctx, saved, upstream, process>>

(* save_order or save_order_with_confirmation, by the deadline and the     *)
(* payment methods of the answer.                                          *)
SaveOrder(p) ==
  /\ Creating(ctx)
  /\ Goto(p, "saving", "over")
  /\ \E t \in now..MaxTime :
       /\ Stamp(t)
       /\ ctx' = OrderFinished(ctx, "created", answer[p].order, t)
  /\ payment' = PaymentOf(answer[p], now)
  /\ confirmed' = confirmed \cup
       {o \in {answer[p].order} : PaymentOf(answer[p], now) = "awaiting"}
  /\ UNCHANGED <<upstream, process>>

(* The save is refused or fails with a BookingStoreError.                  *)
SaveOrderFails(p) ==
  /\ ~Creating(ctx) \/ p \in Faulty
  /\ Goto(p, "saving", "unknowing")
  /\ UNCHANGED <<now, ctx, saved, upstream, process>>

MarkUnknown(p) ==
  /\ Creating(ctx)
  /\ Goto(p, "unknowing", "over")
  /\ \E t \in now..MaxTime : Stamp(t) /\ Store(OrderFinished(ctx, "unknown", NoOrder, t))

ResetAttempt(p) ==
  /\ Loads(ctx) /\ Creating(ctx)
  /\ Goto(p, "resetting", "over")
  /\ \E t \in now..MaxTime : Stamp(t) /\ Store(AttemptReset(ctx, t))

Expire(p) ==
  /\ Active(ctx)
  /\ Goto(p, "expiring", "over")
  /\ \E t \in now..MaxTime : Stamp(t) /\ Store(ContextExpired(ctx, t))

(* The store refuses inside an exception handler: the command ends with an *)
(* internal error and the attempt stays as it is.                          *)
HandlerRaises(p) ==
  /\ \/ pc[p] = "unknowing" /\ ~Creating(ctx)
     \/ pc[p] = "resetting" /\ ~(Loads(ctx) /\ Creating(ctx))
     \/ pc[p] = "expiring" /\ ~Active(ctx)
  /\ pc' = [pc EXCEPT ![p] = "over"]
  /\ UNCHANGED <<now, ctx, saved, upstream, process>>

(* The process is killed, or a store operation raises an error of the      *)
(* keyring, the disk or the lock that the service does not handle.         *)
Crash(p) ==
  /\ p \in Faulty
  /\ pc[p] \notin {"start", "over"}
  /\ pc' = [pc EXCEPT ![p] = "over"]
  /\ UNCHANGED <<now, ctx, saved, upstream, process>>

-----------------------------------------------------------------------------
(* The other commands on the booking: booking confirm-price, baggage and   *)
(* seat list, select and remove.                                           *)
Edited(t) ==
  {PriceConfirmed(ctx, t)}
    \cup {OptionsReplaced(ctx, kind, OfKind(kind, Option), ctx.revision, t) :
            kind \in {k \in AncillaryKind : OfKind(k, Option) # {}}}
    \cup {AncillaryClosed(ctx, kind, ctx.revision, t) : kind \in AncillaryKind}
    \cup {Selected(ctx, sel, t) : sel \in {s \in AncillarySelection : CurrentSelection(ctx, s)}}
    \cup {SelectionRemoved(ctx, sel.kind, sel.traveler, sel.segment, t) :
            sel \in [kind : AncillaryKind, traveler : Traveler, segment : Segment]}

Edit ==
  /\ Active(ctx) /\ Ready(ctx)
  /\ \E t \in now..MaxTime : \E c \in Edited(t) : Stamp(t) /\ Store(c)
  /\ UNCHANGED pc

Tick ==
  /\ now < MaxTime
  /\ now' = now + 1
  /\ UNCHANGED <<ctx, saved, upstream, pc, process>>

-----------------------------------------------------------------------------
Init ==
  /\ now = 0
  /\ \E g \in Generation, inc \in BOOLEAN :
       ctx = VerifiedContext(g, 1, inc, AncillaryKind, 0, Life)
  /\ confirmed = {}
  /\ payment = "none"
  /\ inflight = {}
  /\ placed = {}
  /\ pc = [p \in Process |-> "start"]
  /\ policy \in [Process -> BOOLEAN]
  /\ seen = [p \in Process |-> ctx]
  /\ answer = [p \in Process |-> NoAnswer]

Create(p) ==
  \/ Load(p)
  \/ LoadRefused(p)
  \/ Begin(p)
  \/ BeginRefused(p)
  \/ Submit(p)
  \/ LockedCheckFails(p)
  \/ Receive(p)
  \/ TimeOut(p)
  \/ SummaryFails(p)
  \/ SaveOrder(p)
  \/ SaveOrderFails(p)
  \/ MarkUnknown(p)
  \/ ResetAttempt(p)
  \/ Expire(p)
  \/ HandlerRaises(p)

Next ==
  \/ \E p \in Process : Create(p) \/ Crash(p)
  \/ Upstream
  \/ Edit
  \/ Tick

Spec == Init /\ [][Next]_vars

(* A command that does not die takes its next step; the HTTP client gives  *)
(* up on the upstream by itself (TimeOut), so nothing is assumed of the    *)
(* upstream, nor of the processes that may die.                            *)
Fairness == \A p \in Process \ Faulty : WF_vars(Create(p))

-----------------------------------------------------------------------------
TypeOK ==
  /\ now \in Nat
  /\ ctx \in BookingContext
  /\ confirmed \subseteq Order
  /\ payment \in {"none", "awaiting", "unavailable"}
  /\ inflight \subseteq Request
  /\ placed \subseteq PlacedOrder
  /\ pc \in [Process -> Control]
  /\ policy \in [Process -> BOOLEAN]
  /\ seen \in [Process -> BookingContext]
  /\ answer \in [Process -> Answer]

(* However many commands run, die, time out and are run again, the         *)
(* upstream holds at most one order for the booking.                       *)
OneOrderPerBooking == \A o1, o2 \in placed : o1 = o2

(* The booking is open for an attempt only when no order was placed and    *)
(* none can still be: no request is on its way.                            *)
ReadyMeansNothingSent == ctx.attempt = "ready" => inflight = {} /\ placed = {}

(* A recorded order is the upstream's, and can be paid with a confirmation *)
(* exactly when its payment state says so.                                 *)
SavedOrderIsReal ==
  ctx.order # NoOrder =>
    /\ \E o \in placed : o.order = ctx.order
    /\ payment = "awaiting" <=> ctx.order \in confirmed

(* An order is placed for the ancillaries the booking held when its        *)
(* attempt began, and never for a seat without a policy: edits between the *)
(* first checks and the lock are seen, edits after it are refused.         *)
OrderedAsSelected ==
  /\ \A r \in inflight \cup placed :
       (\E sel \in r.selections : KindOf[sel.option] = "seat") => r.policy
  /\ \A r \in inflight \cup placed :
       Creating(ctx) /\ ~IsTerminal(ctx) => r.selections = ctx.selections

(* The attempt of a process that lives, and whose summary is made, is      *)
(* settled, or its booking runs out, whatever the upstream and the other   *)
(* processes do or fail to do.                                             *)
AttemptSettled ==
  \A p \in Process \ (Faulty \cup Unmaskable) :
    pc[p] = "begun" ~> (ctx.attempt # "creating" \/ now >= ctx.expiresAt)

(* A command that lives and learnt that its order was created leaves it    *)
(* recorded, or the attempt marked unknown: an order that cannot be        *)
(* recorded is reported as one.                                            *)
CreatedOrderAccounted ==
  \A p \in Process \ Faulty :
    pc[p] = "over" /\ answer[p].kind = "created" => Finished(ctx)

(* Order creation implements the one-shot protocol.                        *)
OneShot ==
  INSTANCE OneShotOrder WITH attempt <- ctx.attempt, saved <- ctx.order,
                             placed <- {o.order : o \in placed}

OneShotSpec == OneShot!Spec

=============================================================================
