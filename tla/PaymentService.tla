--------------------------- MODULE PaymentService ---------------------------
(***************************************************************************)
(* `order pay` and `order status` for one created order.  Invocations of   *)
(* both commands run as processes of their own and share the order record  *)
(* in contexts.json.  A payer consumes a confirmation, asks the upstream   *)
(* for payment, records what it learnt, and then polls as `order status`   *)
(* does; a status command only polls.  A poller reads the local order      *)
(* once, before its first query, and writes what each answer says, whatever*)
(* the record holds by then.                                               *)
(*                                                                         *)
(* A store operation is one step: it runs under the file lock.  What a     *)
(* retry-able query error leaves behind is nothing, so it is a stuttering  *)
(* step; the 120 second budget may run out before any query.               *)
(***************************************************************************)
EXTENDS Naturals, FiniteSets, BusinessStatus

CONSTANTS
  Payer,         (* invocations of `order pay`                              *)
  Watcher,       (* invocations of `order status`                           *)
  Confirmation,  (* payment confirmations of the order                      *)
  Deadline,      (* payment_deadline, and expires_at of the confirmations   *)
  MaxTime,       (* bound: the clock stops here                             *)
  Faulty         (* processes that may die and whose store operations may   *)
                 (* fail                                                    *)

Process == Payer \cup Watcher

ASSUME PaymentAssumption ==
  /\ Payer \cap Watcher = {}
  /\ Deadline \in Nat /\ MaxTime \in Nat
  /\ Faulty \subseteq Process

VARIABLES
  now,            (* the wall clock                                         *)
  payment,        (* payment_state of the order record                      *)
  ticketing,      (* ticketing_state; the ticket numbers come with it       *)
  confirmation,   (* [Confirmation -> "none", "open" or "consumed"]         *)
  status,         (* what the upstream would answer to a query              *)
  inflight,       (* payers whose request the upstream has not dealt with   *)
  calls,          (* history: payers that sent a payment request            *)
  pc,             (* where each process is                                  *)
  clock,          (* the time a payer read before it took the file lock     *)
  local,          (* payment_state a poller read before its first query     *)
  answer,         (* what the upstream answered last                        *)
  result          (* what the command reports, where it matters             *)

record == <<payment, ticketing>>
upstream == <<status, inflight, calls>>
vars == <<now, payment, ticketing, confirmation, status, inflight, calls, pc,
          clock, local, answer, result>>

PaymentState ==
  {"awaiting", "unavailable", "paying", "submitted", "processing", "unknown", "paid"}

TicketingState == {"not_started", "pending", "ticketed", "cancelled"}

(* orderStatus "0"; "1", or "2" with tickets missing; "2" with all tickets;*)
(* "-3".                                                                   *)
UpstreamStatus == {"unpaid", "paid", "ticketed", "cancelled"}

PayAnswer == {"ok", "mismatch", "processing", "unclear", "refused"}

Control ==
  {"start", "timed", "consumed", "waiting", "recording", "loading", "asking",
   "answered", "halfway", "over"}

-----------------------------------------------------------------------------
Goto(p, from, to) == pc[p] = from /\ pc' = [pc EXCEPT ![p] = to]

(* A mistake a change to the code could make, for the mutation runs: a     *)
(* confirmation checked without the state of its order.                    *)
PayableOnceMore(t) == t < Deadline

(* The guards of consume_payment_confirmation on the order.                *)
Payable(t) == t < Deadline /\ payment = "awaiting"

ReadClock(p) ==
  /\ Goto(p, "start", "timed")
  /\ clock' = [clock EXCEPT ![p] = now]
  /\ UNCHANGED <<now, record, confirmation, upstream, local, answer, result>>

Consume(p) ==
  /\ Payable(clock[p])
  /\ \E c \in Confirmation :
       /\ confirmation[c] = "open"
       /\ confirmation' = [confirmation EXCEPT ![c] = "consumed"]
  /\ payment' = "paying"
  /\ Goto(p, "timed", "consumed")
  /\ UNCHANGED <<now, ticketing, upstream, clock, local, answer, result>>

(* PAYMENT_CONFIRMATION_INVALID, or the store fails before the write.      *)
ConsumeRefused(p) ==
  /\ Goto(p, "timed", "over")
  /\ UNCHANGED <<now, record, confirmation, upstream, clock, local, answer, result>>

(* No command calls issue_payment_confirmation; the store offers it.       *)
IssueConfirmation(c) ==
  /\ confirmation[c] = "none" /\ payment = "awaiting"
  /\ confirmation' = [confirmation EXCEPT ![c] = "open"]
  /\ UNCHANGED <<now, record, upstream, pc, clock, local, answer, result>>

SendPayment(p) ==
  /\ Goto(p, "consumed", "waiting")
  /\ inflight' = inflight \cup {p}
  /\ calls' = calls \cup {p}
  /\ UNCHANGED <<now, record, confirmation, status, clock, local, answer, result>>

ReceivePayment(p) ==
  /\ answer[p] # "none"
  /\ Goto(p, "waiting", "recording")
  /\ UNCHANGED <<now, record, confirmation, upstream, clock, local, answer, result>>

(* A mistake: a command that ends on a timeout without recording it.       *)
TimeOutUnrecorded(p) ==
  /\ Goto(p, "waiting", "over")
  /\ UNCHANGED <<now, record, confirmation, upstream, clock, local, answer, result>>

(* A BusinessApiError; the request may still be on its way.                *)
TimeOutPayment(p) ==
  /\ Goto(p, "waiting", "recording")
  /\ answer' = [answer EXCEPT ![p] = "unclear"]
  /\ UNCHANGED <<now, record, confirmation, upstream, clock, local, result>>

(* Mistakes: a refused payment offered again, and a state nobody knows.    *)
RefusedOfferedAgain(a) == IF a = "refused" THEN "awaiting" ELSE "unknown"

StateUnnamed(a) == a

StateAfterPayment(a) ==
  CASE a = "ok"         -> "submitted"
    [] a = "processing" -> "processing"
    [] OTHER            -> "unknown"

AfterRecording(a) == IF a = "refused" THEN "over" ELSE "loading"

(* _update_payment_best_effort, then the poll unless payment was refused.  *)
RecordPayment(p) ==
  /\ Goto(p, "recording", AfterRecording(answer[p]))
  /\ \/ payment' = StateAfterPayment(answer[p])
     \/ p \in Faulty /\ UNCHANGED payment
  /\ UNCHANGED <<now, ticketing, confirmation, upstream, clock, local, answer, result>>

-----------------------------------------------------------------------------
(* TicketingService.poll.                                                  *)

(* load_order; an order the store cannot read is polled without a record.  *)
LoadLocal(p) ==
  /\ Goto(p, "loading", "asking")
  /\ local' \in {[local EXCEPT ![p] = x] : x \in {payment} \cup {y \in {"none"} : p \in Faulty}}
  /\ UNCHANGED <<now, record, confirmation, upstream, clock, answer, result>>

Query(p) ==
  /\ Goto(p, "asking", "answered")
  /\ answer' = [answer EXCEPT ![p] = status]
  /\ UNCHANGED <<now, record, confirmation, upstream, clock, local, result>>

(* The budget runs out, or the query ends in an error that is not retried. *)
GiveUp(p) ==
  /\ Goto(p, "asking", "over")
  /\ UNCHANGED <<now, record, confirmation, upstream, clock, local, answer, result>>

(* A write that local_order = None skips and a BookingStoreError prevents. *)
Persists(p, assignment, unchanged) ==
  \/ local[p] # "none" /\ assignment
  \/ local[p] = "none" /\ unchanged
  \/ p \in Faulty /\ unchanged

Pays(p, state) == Persists(p, payment' = state, payment' = payment)
Tickets(p, state) == Persists(p, ticketing' = state, ticketing' = ticketing)

Cancelled(p) ==
  /\ answer[p] = "cancelled"
  /\ Tickets(p, "cancelled")
  /\ Goto(p, "answered", "over")
  /\ UNCHANGED <<now, payment, confirmation, upstream, clock, local, answer, result>>

(* _unpaid_result decides by the record as it was before the first query.  *)
Unpaid(p) ==
  /\ answer[p] = "unpaid"
  /\ Tickets(p, "pending")
  /\ Goto(p, "answered", IF local[p] \in {"awaiting", "unavailable"} THEN "over" ELSE "halfway")
  /\ result' = [result EXCEPT ![p] = IF local[p] = "awaiting" THEN "confirm" ELSE "none"]
  /\ UNCHANGED <<now, payment, confirmation, upstream, clock, local, answer>>

UnpaidUnknown(p) ==
  /\ answer[p] = "unpaid"
  /\ Pays(p, "unknown")
  /\ Goto(p, "halfway", "over")
  /\ UNCHANGED <<now, ticketing, confirmation, upstream, clock, local, answer, result>>

(* A mistake: a settled order taken for a ticketed one.                    *)
SettledMeansTicketed(p) ==
  /\ answer[p] \in {"paid", "ticketed"}
  /\ Pays(p, "paid")
  /\ Goto(p, "answered", "halfway")
  /\ UNCHANGED <<now, ticketing, confirmation, upstream, clock, local, answer, result>>

(* Paid and ticketed, or paid and pending: two writes, payment first.      *)
SettledPayment(p) ==
  /\ answer[p] \in {"paid", "ticketed"}
  /\ Pays(p, IF answer[p] = "ticketed" THEN "paid" ELSE "processing")
  /\ Goto(p, "answered", "halfway")
  /\ UNCHANGED <<now, ticketing, confirmation, upstream, clock, local, answer, result>>

SettledTickets(p) ==
  /\ answer[p] \in {"paid", "ticketed"}
  /\ Tickets(p, IF answer[p] = "ticketed" THEN "ticketed" ELSE "pending")
  /\ Goto(p, "halfway", IF answer[p] = "ticketed" THEN "over" ELSE "asking")
  /\ UNCHANGED <<now, payment, confirmation, upstream, clock, local, answer, result>>

(* The process is killed, or the store raises an error nobody handles.     *)
Crash(p) ==
  /\ p \in Faulty
  /\ pc[p] # "over"
  /\ pc' = [pc EXCEPT ![p] = "over"]
  /\ UNCHANGED <<now, record, confirmation, upstream, clock, local, answer, result>>

-----------------------------------------------------------------------------
(* The upstream: it deals with payment requests, possibly late, and with   *)
(* payments made on its web site; it issues tickets and cancels.           *)

(* What pay makes of an answer that is no success: errors below the table  *)
(* and unknown statuses are recovered like an unclear one.                 *)
PaymentKind(s) ==
  CASE s \in SuccessStatus.pay                                     -> "processing"
    [] s < 0 \/ s \in {402, 404} \/ SideEffectUncertain("pay", s) -> "unclear"
    [] OTHER                                                       -> "refused"

PayFailure == {PaymentKind(s) : s \in Failure("pay")}

DealWithPayment(p) ==
  /\ p \in inflight
  /\ inflight' = inflight \ {p}
  /\ \/ status = "unpaid" /\ status' = "paid"
     \/ UNCHANGED status
  /\ IF pc[p] = "waiting"
     THEN \E a \in {"ok", "mismatch"} \cup PayFailure :
            /\ a \in {"ok", "refused"} => (a = "ok" <=> status' # status)
            /\ answer' = [answer EXCEPT ![p] = a]
     ELSE UNCHANGED answer
  /\ UNCHANGED <<now, record, confirmation, calls, pc, clock, local, result>>

Progress ==
  /\ \/ status = "unpaid" /\ status' \in {"paid", "cancelled"}
     \/ status = "paid" /\ status' \in {"ticketed", "cancelled"}
  /\ UNCHANGED <<now, record, confirmation, inflight, calls, pc, clock, local, answer, result>>

Tick ==
  /\ now < MaxTime
  /\ now' = now + 1
  /\ UNCHANGED <<record, confirmation, upstream, pc, clock, local, answer, result>>

-----------------------------------------------------------------------------
(* The order as OrderService saves it: awaiting payment, with one          *)
(* confirmation, or unavailable, with none.                                *)
Init ==
  /\ now = 0
  /\ \/ /\ payment = "awaiting"
        /\ \E c \in Confirmation :
             confirmation = [d \in Confirmation |-> IF d = c THEN "open" ELSE "none"]
     \/ /\ payment = "unavailable"
        /\ confirmation = [d \in Confirmation |-> "none"]
  /\ ticketing = "not_started"
  /\ status = "unpaid"
  /\ inflight = {}
  /\ calls = {}
  /\ pc = [p \in Process |-> IF p \in Payer THEN "start" ELSE "loading"]
  /\ clock = [p \in Process |-> 0]
  /\ local = [p \in Process |-> "none"]
  /\ answer = [p \in Process |-> "none"]
  /\ result = [p \in Process |-> "none"]

Pay(p) ==
  \/ ReadClock(p)
  \/ Consume(p)
  \/ ConsumeRefused(p)
  \/ SendPayment(p)
  \/ ReceivePayment(p)
  \/ TimeOutPayment(p)
  \/ RecordPayment(p)

Poll(p) ==
  \/ LoadLocal(p)
  \/ Query(p)
  \/ GiveUp(p)
  \/ Cancelled(p)
  \/ Unpaid(p)
  \/ UnpaidUnknown(p)
  \/ SettledPayment(p)
  \/ SettledTickets(p)

Next ==
  \/ \E p \in Process : Pay(p) \/ Poll(p) \/ Crash(p)
  \/ \E c \in Confirmation : IssueConfirmation(c)
  \/ \E p \in Payer : DealWithPayment(p)
  \/ Progress
  \/ Tick

Spec == Init /\ [][Next]_vars

(* A payer that does not die takes its next step: the HTTP client gives    *)
(* up on the upstream by itself, and the poll budget bounds the queries.   *)
Fairness == \A p \in Payer \ Faulty : WF_vars(Pay(p) \/ Poll(p))

-----------------------------------------------------------------------------
TypeOK ==
  /\ now \in Nat
  /\ payment \in PaymentState
  /\ ticketing \in TicketingState
  /\ confirmation \in [Confirmation -> {"none", "open", "consumed"}]
  /\ status \in UpstreamStatus
  /\ inflight \subseteq Payer
  /\ calls \subseteq Payer
  /\ pc \in [Process -> Control]
  /\ clock \in [Process -> Nat]
  /\ local \in [Process -> PaymentState \cup {"none"}]
  /\ answer \in [Process -> UpstreamStatus \cup PayAnswer \cup {"none"}]
  /\ result \in [Process -> {"none", "confirm"}]

(* Whatever is lost, late, repeated or killed, the upstream is asked for   *)
(* payment of the order at most once.                                      *)
OnePaymentRequest == \A p, q \in calls : p = q

(* A consumed confirmation closes the order to every other one.            *)
ConfirmationSpentOnce ==
  \A c \in Confirmation : confirmation[c] = "consumed" =>
    /\ payment # "awaiting"
    /\ \A d \in Confirmation : confirmation[d] = "consumed" => c = d

(* The record never claims more than the upstream said: tickets, payment   *)
(* and cancellation are recorded only after they happened.                 *)
RecordIsReal ==
  /\ payment = "paid" \/ ticketing = "ticketed" => status = "ticketed"
  /\ ticketing = "cancelled" => status = "cancelled"

(* The order is never again presented as payable once somebody decided to  *)
(* pay or the upstream was seen to have it settled.                        *)
NeverAwaitingAgain == [][payment # "awaiting" => payment' # "awaiting"]_vars

(* An unpaid answer after payment was attempted is not reported as a call  *)
(* to confirm the payment.                                                 *)
NoSecondPaymentSignal ==
  [][ \A p \in Process :
        result'[p] = "confirm" /\ result[p] # "confirm" => payment = "awaiting" ]_vars

(* The payment of a payer that lives gets an outcome, whatever the upstream*)
(* and the other processes do or fail to do; and when it is told of tickets*)
(* they reach the record, also after another process recorded the payment  *)
(* and died before it recorded its tickets.                                *)
PayingResolved ==
  \A p \in Payer \ Faulty :
    /\ pc[p] = "consumed" ~> payment # "paying"
    /\ pc[p] = "answered" /\ answer[p] = "ticketed" ~> ticketing = "ticketed"

(* Paying implements the one-shot protocol.                                *)
Phase ==
  IF payment = "awaiting" THEN "due"
  ELSE IF \E c \in Confirmation : confirmation[c] = "consumed" THEN "committed"
  ELSE "closed"

OneShot == INSTANCE OneShotPayment WITH phase <- Phase, asked <- calls

OneShotSpec == OneShot!Spec

=============================================================================
