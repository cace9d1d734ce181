----------------------- MODULE PaymentService_proofs -----------------------
(***************************************************************************)
(* Theorems about PaymentService, for any number of payers, status         *)
(* commands and confirmations: paying implements OneShotPayment, and the   *)
(* record never claims more than the upstream said.                        *)
(*                                                                         *)
(* The argument: whoever consumed a confirmation took the record out of    *)
(* "awaiting" in the same write, nothing ever puts it back, and a payment  *)
(* request is sent only by a command that consumed a confirmation.         *)
(***************************************************************************)
EXTENDS PaymentService, TLAPS

Spent(c) == confirmation[c] = "consumed"

Spender(p) == p \in calls \/ pc[p] = "consumed"

(* A status command never takes the path of a payer.                       *)
WatchersPoll ==
  \A p \in Process : pc[p] \in {"start", "timed", "consumed", "waiting", "recording"} => p \in Payer

OneSpender ==
  \A p \in Process :
    /\ Spender(p) => payment # "awaiting" /\ \E c \in Confirmation : Spent(c)
    /\ pc[p] \in {"start", "timed", "consumed"} => p \notin calls
    /\ \A q \in Process : Spender(p) /\ Spender(q) => p = q

(* Tickets and cancellation are final, so an old answer still holds.       *)
AnswersReal ==
  \A p \in Process :
    /\ answer[p] = "ticketed" => status = "ticketed"
    /\ answer[p] = "cancelled" => status = "cancelled"

PaymentInv ==
  /\ TypeOK
  /\ WatchersPoll
  /\ ConfirmationSpentOnce
  /\ OneSpender
  /\ AnswersReal
  /\ RecordIsReal

-----------------------------------------------------------------------------
(* Types.                                                                  *)

(* A failed call is unclear, processing or refused.                        *)
LEMMA PaymentKindIsAnswer == PayFailure \subseteq {"processing", "unclear", "refused"}
BY DEF PayFailure, PaymentKind

(* Moving a process keeps pc a function into Control.                      *)
LEMMA GotoControl ==
  ASSUME TypeOK, NEW p \in Process, NEW from, NEW to \in Control, Goto(p, from, to)
  PROVE  /\ pc[p] = from
         /\ pc' \in [Process -> Control]
         /\ pc'[p] = to
         /\ \A q \in Process : q # p => pc'[q] = pc[q]
BY DEF Goto, TypeOK

(* A payment answer leads to a payment state.                              *)
LEMMA StateAfterPaymentType ==
  ASSUME NEW a
  PROVE  StateAfterPayment(a) \in {"submitted", "processing", "unknown"}
BY DEF StateAfterPayment

(* A payer that recorded its answer ends or polls.                         *)
LEMMA AfterRecordingType ==
  ASSUME NEW a
  PROVE  AfterRecording(a) \in {"over", "loading"}
BY DEF AfterRecording

(* A poller's write records a state of its kind, or nothing.               *)
LEMMA PaysType ==
  ASSUME TypeOK, NEW p, NEW state, Pays(p, state)
  PROVE  payment' = state \/ payment' = payment
BY DEF Pays, Persists

(* A ticketing write keeps the type of ticketing_state.                    *)
LEMMA TicketsType ==
  ASSUME TypeOK, NEW p, NEW state, Tickets(p, state)
  PROVE  ticketing' = state \/ ticketing' = ticketing
BY DEF Tickets, Persists

(* Every step keeps the types of the state.                                *)
LEMMA PaymentTypeStep ==
  ASSUME TypeOK, WatchersPoll, [Next]_vars
  PROVE  TypeOK'
<1> USE DEF record, upstream
<1>1. CASE Tick \/ UNCHANGED vars
  BY <1>1 DEF Tick, vars, TypeOK
<1>2. CASE Progress
  BY <1>2 DEF Progress, TypeOK, UpstreamStatus
<1>3. CASE \E c \in Confirmation : IssueConfirmation(c)
  BY <1>3 DEF IssueConfirmation, TypeOK
<1>4. ASSUME NEW p \in Payer, DealWithPayment(p)
      PROVE  TypeOK'
  <2>1. p \in Process /\ UNCHANGED <<now, payment, ticketing, confirmation, calls, pc, clock, local, result>>
    BY <1>4 DEF DealWithPayment, Process
  <2>2. status' \in UpstreamStatus /\ inflight' \subseteq Payer
    BY <1>4 DEF DealWithPayment, TypeOK, UpstreamStatus
  <2>3. answer' \in [Process -> UpstreamStatus \cup PayAnswer \cup {"none"}]
    BY <1>4, <2>1, PaymentKindIsAnswer DEF DealWithPayment, TypeOK, PayAnswer
  <2> QED BY <2>1, <2>2, <2>3 DEF TypeOK
<1>5. ASSUME NEW p \in Process, Pay(p)
      PROVE  TypeOK'
  <2>1. CASE ReadClock(p)
    BY <2>1, GotoControl DEF ReadClock, TypeOK, Control
  <2>2. CASE Consume(p)
    <3>1. confirmation' \in [Confirmation -> {"none", "open", "consumed"}]
      BY <2>2 DEF Consume, TypeOK
    <3> QED BY <2>2, <3>1, GotoControl DEF Consume, TypeOK, Control, PaymentState
  <2>3. CASE ConsumeRefused(p)
    BY <2>3, GotoControl DEF ConsumeRefused, TypeOK, Control
  <2>4. CASE SendPayment(p)
    <3>1. p \in Payer
      BY <2>4 DEF SendPayment, Goto, WatchersPoll
    <3> QED BY <2>4, <3>1, GotoControl DEF SendPayment, TypeOK, Control
  <2>5. CASE ReceivePayment(p)
    BY <2>5, GotoControl DEF ReceivePayment, TypeOK, Control
  <2>6. CASE TimeOutPayment(p)
    BY <2>6, GotoControl DEF TimeOutPayment, TypeOK, Control, PayAnswer
  <2>7. CASE RecordPayment(p)
    <3>1. payment' \in PaymentState
      BY <2>7, StateAfterPaymentType DEF RecordPayment, TypeOK, PaymentState
    <3>2. AfterRecording(answer[p]) \in Control
      BY AfterRecordingType DEF Control
    <3> QED BY <2>7, <3>1, <3>2, GotoControl DEF RecordPayment, TypeOK
  <2> QED BY <1>5, <2>1, <2>2, <2>3, <2>4, <2>5, <2>6, <2>7 DEF Pay
<1>6. ASSUME NEW p \in Process, Poll(p) \/ Crash(p)
      PROVE  TypeOK'
  <2>1. CASE LoadLocal(p)
    BY <2>1, GotoControl DEF LoadLocal, TypeOK, Control
  <2>2. CASE Query(p)
    BY <2>2, GotoControl DEF Query, TypeOK, Control
  <2>3. CASE GiveUp(p)
    BY <2>3, GotoControl DEF GiveUp, TypeOK, Control
  <2>4. CASE Cancelled(p)
    BY <2>4, GotoControl, TicketsType DEF Cancelled, TypeOK, Control, TicketingState
  <2>5. CASE Unpaid(p)
    <3>1. (IF local[p] \in {"awaiting", "unavailable"} THEN "over" ELSE "halfway") \in Control
      BY DEF Control
    <3> QED BY <2>5, <3>1, GotoControl, TicketsType DEF Unpaid, TypeOK, TicketingState
  <2>6. CASE UnpaidUnknown(p)
    BY <2>6, GotoControl, PaysType DEF UnpaidUnknown, TypeOK, Control, PaymentState
  <2>7. CASE SettledPayment(p)
    <3>1. payment' \in PaymentState
      BY <2>7, PaysType DEF SettledPayment, TypeOK, PaymentState
    <3> QED BY <2>7, <3>1, GotoControl DEF SettledPayment, TypeOK, Control
  <2>8. CASE SettledTickets(p)
    <3>1. ticketing' \in TicketingState
      BY <2>8, TicketsType DEF SettledTickets, TypeOK, TicketingState
    <3>2. (IF answer[p] = "ticketed" THEN "over" ELSE "asking") \in Control
      BY DEF Control
    <3> QED BY <2>8, <3>1, <3>2, GotoControl DEF SettledTickets, TypeOK
  <2>9. CASE Crash(p)
    BY <2>9 DEF Crash, TypeOK, Control
  <2> QED BY <1>6, <2>1, <2>2, <2>3, <2>4, <2>5, <2>6, <2>7, <2>8, <2>9 DEF Poll
<1> QED BY <1>1, <1>2, <1>3, <1>4, <1>5, <1>6 DEF Next

-----------------------------------------------------------------------------
(* What a step can do to each part of the state.                           *)

(* Nothing makes an order payable again.                                   *)
LEMMA PaymentNeverBack ==
  ASSUME TypeOK, [Next]_vars, payment # "awaiting"
  PROVE  payment' # "awaiting"
<1> USE DEF record
<1>1. ASSUME NEW p \in Process, Pay(p) \/ Poll(p) \/ Crash(p)
      PROVE  payment' # "awaiting"
  <2>1. CASE RecordPayment(p)
    BY <2>1, StateAfterPaymentType DEF RecordPayment
  <2>2. CASE UnpaidUnknown(p) \/ SettledPayment(p)
    BY <2>2, PaysType DEF UnpaidUnknown, SettledPayment
  <2>3. CASE ReadClock(p) \/ Consume(p) \/ ConsumeRefused(p) \/ SendPayment(p) \/ ReceivePayment(p)
             \/ TimeOutPayment(p) \/ LoadLocal(p) \/ Query(p) \/ GiveUp(p) \/ Cancelled(p)
             \/ Unpaid(p) \/ SettledTickets(p) \/ Crash(p)
    BY <2>3 DEF ReadClock, Consume, ConsumeRefused, SendPayment, ReceivePayment, TimeOutPayment,
      LoadLocal, Query, GiveUp, Cancelled, Unpaid, SettledTickets, Crash
  <2> QED BY <1>1, <2>1, <2>2, <2>3 DEF Pay, Poll
<1>2. CASE \/ \E c \in Confirmation : IssueConfirmation(c)
           \/ \E p \in Payer : DealWithPayment(p)
           \/ Progress \/ Tick \/ UNCHANGED vars
  BY <1>2 DEF IssueConfirmation, DealWithPayment, Progress, Tick, vars
<1> QED BY <1>1, <1>2 DEF Next

(* Only Consume spends a confirmation, and only it makes a spender.        *)
LEMMA SpendingSteps ==
  ASSUME TypeOK, [Next]_vars, ~ \E p \in Process : Consume(p)
  PROVE  /\ \A c \in Confirmation : Spent(c)' <=> Spent(c)
         /\ \A p \in Process : Spender(p)' => Spender(p)
<1> USE DEF upstream, Spent
<1>1. ASSUME NEW p \in Process, Pay(p) \/ Poll(p) \/ Crash(p)
      PROVE  UNCHANGED confirmation /\ \A q \in Process : Spender(q)' => Spender(q)
  <2>1. CASE SendPayment(p)
    <3>1. UNCHANGED confirmation /\ calls' = calls \cup {p} /\ pc[p] = "consumed"
            /\ \A q \in Process : q # p => pc'[q] = pc[q]
      BY <2>1, GotoControl DEF SendPayment, Control
    <3> QED BY <3>1 DEF Spender
  <2>2. CASE RecordPayment(p)
    <3>1. pc'[p] # "consumed" /\ \A q \in Process : q # p => pc'[q] = pc[q]
      BY <2>2, AfterRecordingType DEF RecordPayment, Goto, TypeOK
    <3> QED BY <2>2, <3>1 DEF RecordPayment, Spender
  <2>3. CASE ReadClock(p) \/ ConsumeRefused(p) \/ ReceivePayment(p)
             \/ TimeOutPayment(p) \/ LoadLocal(p) \/ Query(p) \/ GiveUp(p) \/ Cancelled(p)
             \/ Unpaid(p) \/ UnpaidUnknown(p) \/ SettledPayment(p) \/ SettledTickets(p) \/ Crash(p)
    <3>1. UNCHANGED <<confirmation, calls>>
      BY <2>3 DEF ReadClock, ConsumeRefused, ReceivePayment, TimeOutPayment, LoadLocal, Query,
        GiveUp, Cancelled, Unpaid, UnpaidUnknown, SettledPayment, SettledTickets, Crash
    <3>2. pc'[p] # "consumed" /\ \A q \in Process : q # p => pc'[q] = pc[q]
      BY <2>3 DEF ReadClock, ConsumeRefused, ReceivePayment, TimeOutPayment, LoadLocal, Query,
        GiveUp, Cancelled, Unpaid, UnpaidUnknown, SettledPayment, SettledTickets, Crash, Goto, TypeOK
    <3> QED BY <3>1, <3>2 DEF Spender
  <2> QED BY <1>1, <2>1, <2>2, <2>3 DEF Pay, Poll
<1>2. CASE \E c \in Confirmation : IssueConfirmation(c)
  BY <1>2 DEF IssueConfirmation, TypeOK, Spender
<1>3. CASE (\E p \in Payer : DealWithPayment(p)) \/ Progress \/ Tick \/ UNCHANGED vars
  BY <1>3 DEF DealWithPayment, Progress, Tick, vars, Spender
<1> QED BY <1>1, <1>2, <1>3 DEF Next

(* The path of a payer is entered at its start only, and a request is sent *)
(* on leaving its first half.                                              *)
LEMMA PathSteps ==
  ASSUME TypeOK, [Next]_vars, NEW q \in Process
  PROVE  /\ pc'[q] \in {"start", "timed", "consumed"} => pc[q] \in {"start", "timed", "consumed"}
         /\ pc'[q] \in {"waiting", "recording"} =>
              pc[q] \in {"consumed", "waiting", "recording"}
         /\ q \in calls' => q \in calls \/ pc'[q] = "waiting"
         /\ pc'[q] \in {"start", "timed", "consumed"} => (q \in calls' => q \in calls)
<1> USE DEF upstream
<1>1. ASSUME NEW p \in Process, Pay(p) \/ Poll(p) \/ Crash(p)
      PROVE  /\ p # q => pc'[q] = pc[q] /\ (q \in calls' => q \in calls)
             /\ pc'[p] \in {"start", "timed", "consumed"} => pc[p] \in {"start", "timed"}
             /\ pc'[p] \in {"waiting", "recording"} => pc[p] \in {"consumed", "waiting"}
             /\ calls' = calls \/ pc'[p] = "waiting"
  <2>1. CASE RecordPayment(p)
    BY <2>1, AfterRecordingType DEF RecordPayment, Goto, TypeOK
  <2>2. CASE ReadClock(p) \/ Consume(p) \/ ConsumeRefused(p) \/ ReceivePayment(p) \/ TimeOutPayment(p)
    BY <2>2 DEF ReadClock, Consume, ConsumeRefused, ReceivePayment, TimeOutPayment, Goto, TypeOK
  <2>3. CASE SendPayment(p)
    BY <2>3 DEF SendPayment, Goto, TypeOK
  <2>4. CASE LoadLocal(p) \/ Query(p) \/ GiveUp(p) \/ Cancelled(p)
    BY <2>4 DEF LoadLocal, Query, GiveUp, Cancelled, Goto, TypeOK
  <2>5. CASE Unpaid(p) \/ UnpaidUnknown(p) \/ SettledPayment(p) \/ SettledTickets(p) \/ Crash(p)
    BY <2>5 DEF Unpaid, UnpaidUnknown, SettledPayment, SettledTickets, Crash, Goto, TypeOK
  <2> QED BY <1>1, <2>1, <2>2, <2>3, <2>4, <2>5 DEF Pay, Poll
<1>2. CASE \/ \E c \in Confirmation : IssueConfirmation(c)
           \/ \E p \in Payer : DealWithPayment(p)
           \/ Progress \/ Tick \/ UNCHANGED vars
  BY <1>2 DEF IssueConfirmation, DealWithPayment, Progress, Tick, vars
<1> QED BY <1>1, <1>2 DEF Next

(* Tickets and cancellation are final; answers and the record follow them. *)
LEMMA RealSteps ==
  ASSUME TypeOK, AnswersReal, RecordIsReal, [Next]_vars
  PROVE  AnswersReal' /\ RecordIsReal'
<1> USE DEF record, upstream
<1>1. status \in {"ticketed", "cancelled"} => status' = status
  <2>1. ASSUME NEW p \in Process, Pay(p) \/ Poll(p) \/ Crash(p)
        PROVE  UNCHANGED status
    BY <2>1 DEF Pay, Poll, Crash, ReadClock, Consume, ConsumeRefused, SendPayment, ReceivePayment,
      TimeOutPayment, RecordPayment, LoadLocal, Query, GiveUp, Cancelled, Unpaid, UnpaidUnknown,
      SettledPayment, SettledTickets
  <2>2. CASE \/ \E c \in Confirmation : IssueConfirmation(c)
             \/ \E p \in Payer : DealWithPayment(p)
             \/ Progress \/ Tick \/ UNCHANGED vars
    BY <2>2 DEF IssueConfirmation, DealWithPayment, Progress, Tick, vars
  <2> QED BY <2>1, <2>2 DEF Next
<1>2. ASSUME NEW q \in Process, answer'[q] \in {"ticketed", "cancelled"}
      PROVE  answer[q] = answer'[q] \/ status = answer'[q]
  <2>1. ASSUME NEW p \in Process, Pay(p) \/ Poll(p) \/ Crash(p)
        PROVE  answer[q] = answer'[q] \/ status = answer'[q]
    <3>1. CASE Query(p)
      BY <3>1 DEF Query, TypeOK
    <3>2. CASE TimeOutPayment(p)
      BY <1>2, <3>2 DEF TimeOutPayment, TypeOK
    <3>3. CASE UNCHANGED answer
      BY <3>3
    <3> QED BY <2>1, <3>1, <3>2, <3>3 DEF Pay, Poll, Crash, ReadClock, Consume, ConsumeRefused,
      SendPayment, ReceivePayment, RecordPayment, LoadLocal, GiveUp, Cancelled, Unpaid,
      UnpaidUnknown, SettledPayment, SettledTickets
  <2>2. CASE \E p \in Payer : DealWithPayment(p)
    BY <1>2, <2>2, PaymentKindIsAnswer DEF DealWithPayment, PayAnswer, TypeOK, Process
  <2>3. CASE (\E c \in Confirmation : IssueConfirmation(c)) \/ Progress \/ Tick \/ UNCHANGED vars
    BY <2>3 DEF IssueConfirmation, Progress, Tick, vars
  <2> QED BY <2>1, <2>2, <2>3 DEF Next
<1>3. AnswersReal'
  BY <1>1, <1>2 DEF AnswersReal
<1>4. /\ payment' = "paid" => payment = "paid" \/ status = "ticketed"
      /\ ticketing' = "ticketed" => ticketing = "ticketed" \/ status = "ticketed"
      /\ ticketing' = "cancelled" => ticketing = "cancelled" \/ status = "cancelled"
  <2>1. ASSUME NEW p \in Process, Pay(p) \/ Poll(p) \/ Crash(p)
        PROVE  /\ payment' = "paid" => payment = "paid" \/ status = "ticketed"
               /\ ticketing' = "ticketed" => ticketing = "ticketed" \/ status = "ticketed"
               /\ ticketing' = "cancelled" => ticketing = "cancelled" \/ status = "cancelled"
    <3>1. CASE RecordPayment(p)
      BY <3>1, StateAfterPaymentType DEF RecordPayment
    <3>2. CASE Cancelled(p)
      BY <3>2, TicketsType DEF Cancelled, AnswersReal
    <3>3. CASE Unpaid(p)
      BY <3>3, TicketsType DEF Unpaid
    <3>4. CASE UnpaidUnknown(p)
      BY <3>4, PaysType DEF UnpaidUnknown
    <3>5. CASE SettledPayment(p)
      BY <3>5, PaysType DEF SettledPayment, AnswersReal
    <3>6. CASE SettledTickets(p)
      BY <3>6, TicketsType DEF SettledTickets, AnswersReal
    <3>7. CASE Consume(p)
      BY <3>7 DEF Consume
    <3>8. CASE UNCHANGED <<payment, ticketing>>
      BY <3>8
    <3> QED BY <2>1, <3>1, <3>2, <3>3, <3>4, <3>5, <3>6, <3>7, <3>8 DEF Pay, Poll, Crash, ReadClock,
      ConsumeRefused, SendPayment, ReceivePayment, TimeOutPayment, LoadLocal, Query, GiveUp
  <2>2. CASE \/ \E c \in Confirmation : IssueConfirmation(c)
             \/ \E p \in Payer : DealWithPayment(p)
             \/ Progress \/ Tick \/ UNCHANGED vars
    BY <2>2 DEF IssueConfirmation, DealWithPayment, Progress, Tick, vars
  <2> QED BY <2>1, <2>2 DEF Next
<1>5. RecordIsReal'
  BY <1>1, <1>4 DEF RecordIsReal
<1> QED BY <1>3, <1>5

-----------------------------------------------------------------------------
(* What Consume does, as the spending of a confirmation.                   *)
LEMMA ConsumeSpends ==
  ASSUME TypeOK, NEW p \in Process, Consume(p)
  PROVE  /\ payment = "awaiting" /\ payment' = "paying" /\ calls' = calls
         /\ \E c \in Confirmation :
              /\ ~Spent(c) /\ Spent(c)'
              /\ \A d \in Confirmation : d # c => (Spent(d)' <=> Spent(d))
         /\ \A q \in Process : q # p => (Spender(q)' <=> Spender(q))
<1>1. PICK c \in Confirmation :
        confirmation[c] = "open" /\ confirmation' = [confirmation EXCEPT ![c] = "consumed"]
  BY DEF Consume
<1>2. ~Spent(c) /\ Spent(c)' /\ \A d \in Confirmation : d # c => (Spent(d)' <=> Spent(d))
  BY <1>1 DEF Spent, TypeOK
<1>3. \A q \in Process : q # p => pc'[q] = pc[q]
  BY GotoControl DEF Consume, Control
<1> QED BY <1>2, <1>3 DEF Consume, Payable, upstream, Spender

(* Every step preserves the invariant.                                     *)
LEMMA PaymentInvStep ==
  ASSUME PaymentInv, [Next]_vars
  PROVE  PaymentInv'
<1> TypeOK /\ WatchersPoll /\ ConfirmationSpentOnce /\ OneSpender /\ AnswersReal /\ RecordIsReal
  BY DEF PaymentInv
<1>1. TypeOK'
  BY PaymentTypeStep
<1>2. WatchersPoll'
  <2> SUFFICES ASSUME NEW p \in Process,
                      pc'[p] \in {"start", "timed", "consumed", "waiting", "recording"}
               PROVE  p \in Payer
    BY DEF WatchersPoll
  <2>1. pc[p] \in {"start", "timed", "consumed", "waiting", "recording"}
    BY PathSteps
  <2> QED BY <2>1 DEF WatchersPoll
<1>3. \A p \in Process : pc'[p] \in {"start", "timed", "consumed"} => p \notin calls'
  BY PathSteps DEF OneSpender
<1>4. CASE \E p \in Process : Consume(p)
  <2>1. PICK p \in Process : Consume(p)
    BY <1>4
  <2>2. \A c \in Confirmation : ~Spent(c)
    BY <2>1, ConsumeSpends DEF ConfirmationSpentOnce, Spent
  <2>3. \A q \in Process : ~Spender(q)
    BY <2>1, ConsumeSpends DEF OneSpender
  <2>4. payment' # "awaiting" /\ \E c \in Confirmation :
          Spent(c)' /\ \A d \in Confirmation : d # c => ~Spent(d)'
    BY <2>1, <2>2, ConsumeSpends
  <2>5. ConfirmationSpentOnce'
    BY <2>4 DEF ConfirmationSpentOnce, Spent
  <2>6. OneSpender'
    BY <1>3, <2>1, <2>3, <2>4, ConsumeSpends DEF OneSpender
  <2> QED BY <1>1, <1>2, <2>5, <2>6, RealSteps DEF PaymentInv
<1>5. CASE ~ \E p \in Process : Consume(p)
  <2>1. payment # "awaiting" => payment' # "awaiting"
    BY PaymentNeverBack
  <2>2. ConfirmationSpentOnce'
    BY <1>5, <2>1, SpendingSteps DEF ConfirmationSpentOnce, Spent
  <2>3. OneSpender'
    BY <1>3, <1>5, <2>1, SpendingSteps DEF OneSpender
  <2> QED BY <1>1, <1>2, <2>2, <2>3, RealSteps DEF PaymentInv
<1> QED BY <1>4, <1>5

(* The invariant behind the theorems of this module.                       *)
LEMMA PaymentInvariant == Spec => []PaymentInv
<1>1. Init => PaymentInv
  <2> SUFFICES ASSUME Init PROVE PaymentInv
    OBVIOUS
  <2>1. TypeOK
    BY DEF Init, TypeOK, PaymentState, TicketingState, UpstreamStatus, Control
  <2>2. \A c \in Confirmation : confirmation[c] # "consumed"
    BY DEF Init
  <2>3. \A p \in Process : pc[p] = IF p \in Payer THEN "start" ELSE "loading"
    BY DEF Init
  <2>4. calls = {} /\ \A p \in Process : answer[p] = "none"
    BY DEF Init
  <2>5. RecordIsReal
    BY DEF Init, RecordIsReal
  <2> QED BY <2>1, <2>2, <2>3, <2>4, <2>5 DEF PaymentInv, WatchersPoll, ConfirmationSpentOnce,
    OneSpender, Spender, AnswersReal
<1>2. PaymentInv /\ [Next]_vars => PaymentInv'
  BY PaymentInvStep
<1> QED BY <1>1, <1>2, PTL DEF Spec

-----------------------------------------------------------------------------
(* The records the commands share are well-formed.                         *)
THEOREM PaymentTypeOK == Spec => []TypeOK
<1>1. PaymentInv => TypeOK
  BY DEF PaymentInv
<1> QED BY <1>1, PaymentInvariant, PTL

(* The upstream is asked for payment of the order at most once.            *)
THEOREM AtMostOnePaymentRequest == Spec => []OnePaymentRequest
<1>1. PaymentInv => OnePaymentRequest
  <2> SUFFICES ASSUME PaymentInv, NEW p \in calls, NEW q \in calls
               PROVE  p = q
    BY DEF OnePaymentRequest
  <2>1. p \in Process /\ q \in Process
    BY DEF PaymentInv, TypeOK, Process
  <2> QED BY <2>1 DEF PaymentInv, OneSpender, Spender
<1> QED BY <1>1, PaymentInvariant, PTL

(* A consumed confirmation closes the order to every other one.            *)
THEOREM OneConfirmationConsumed == Spec => []ConfirmationSpentOnce
<1>1. PaymentInv => ConfirmationSpentOnce
  BY DEF PaymentInv
<1> QED BY <1>1, PaymentInvariant, PTL

(* The record never claims tickets, payment or cancellation too early.     *)
THEOREM RecordNeverAhead == Spec => []RecordIsReal
<1>1. PaymentInv => RecordIsReal
  BY DEF PaymentInv
<1> QED BY <1>1, PaymentInvariant, PTL

(* The order is never presented as payable again.                          *)
THEOREM NeverPayableAgain == Spec => NeverAwaitingAgain
<1>1. TypeOK /\ [Next]_vars => (payment # "awaiting" => payment' # "awaiting")
  BY PaymentNeverBack
<1> QED BY <1>1, PaymentTypeOK, PTL DEF Spec, NeverAwaitingAgain

(* A payer polls only after the record left "awaiting", reads it after     *)
(* that, and so never reports that the order waits for confirmation.       *)
PayersInformed ==
  \A p \in Payer :
    /\ pc[p] \notin {"start", "timed", "over"} => payment # "awaiting"
    /\ local[p] # "awaiting"
    /\ result[p] # "confirm"

(* Each step keeps this: the way into the poll leads through Consume.      *)
LEMMA PayersInformedStep ==
  ASSUME TypeOK, PayersInformed, [Next]_vars
  PROVE  PayersInformed'
<1> USE DEF record, upstream
<1>0. Payer \subseteq Process
  BY DEF Process
<1>1. payment # "awaiting" => payment' # "awaiting"
  BY PaymentNeverBack
<1>2. SUFFICES ASSUME NEW p \in Payer
               PROVE  /\ pc'[p] \notin {"start", "timed", "over"} => payment' # "awaiting"
                      /\ local'[p] # "awaiting"
                      /\ result'[p] # "confirm"
  BY DEF PayersInformed
<1>3. /\ pc[p] \notin {"start", "timed", "over"} => payment # "awaiting"
      /\ local[p] # "awaiting"
      /\ result[p] # "confirm"
  BY DEF PayersInformed
<1>4. pc'[p] \notin {"start", "timed", "over"} =>
        pc[p] \notin {"start", "timed", "over"} \/ Consume(p)
  <2>1. CASE pc' = pc
    BY <2>1
  <2>2. ASSUME NEW q \in Process, Pay(q) \/ Poll(q) \/ Crash(q)
        PROVE  pc'[p] \notin {"start", "timed", "over"} =>
                 pc[p] \notin {"start", "timed", "over"} \/ Consume(p)
    <3>1. CASE q = p
      BY <1>0, <2>2, <3>1 DEF Pay, ReadClock, Consume, ConsumeRefused, SendPayment,
        ReceivePayment, TimeOutPayment, RecordPayment, Poll, LoadLocal, Query, GiveUp, Cancelled,
        Unpaid, UnpaidUnknown, SettledPayment, SettledTickets, Crash, Goto, TypeOK
    <3>2. CASE q # p
      BY <1>0, <2>2, <3>2 DEF Pay, ReadClock, Consume, ConsumeRefused, SendPayment,
        ReceivePayment, TimeOutPayment, RecordPayment, Poll, LoadLocal, Query, GiveUp, Cancelled,
        Unpaid, UnpaidUnknown, SettledPayment, SettledTickets, Crash, Goto, TypeOK
    <3> QED BY <3>1, <3>2
  <2> QED BY <2>1, <2>2 DEF Next, vars, IssueConfirmation, DealWithPayment, Progress, Tick
<1>5. pc'[p] \notin {"start", "timed", "over"} => payment' # "awaiting"
  BY <1>1, <1>3, <1>4 DEF Consume
<1>6. local'[p] # "awaiting"
  <2>1. CASE LoadLocal(p)
    <3>1. payment # "awaiting"
      BY <1>3, <2>1 DEF LoadLocal, Goto
    <3>2. PICK x \in {payment} \cup {y \in {"none"} : p \in Faulty} : local' = [local EXCEPT ![p] = x]
      BY <2>1 DEF LoadLocal
    <3> QED BY <1>0, <3>1, <3>2 DEF TypeOK
  <2>2. CASE \E q \in Process : q # p /\ LoadLocal(q)
    BY <1>0, <1>3, <2>2 DEF LoadLocal, TypeOK
  <2>3. CASE local' = local
    BY <1>3, <2>3
  <2> QED BY <2>1, <2>2, <2>3 DEF Next, vars, IssueConfirmation, DealWithPayment, Progress, Tick,
    Pay, ReadClock, Consume, ConsumeRefused, SendPayment, ReceivePayment, TimeOutPayment,
    RecordPayment, Poll, Query, GiveUp, Cancelled, Unpaid, UnpaidUnknown, SettledPayment,
    SettledTickets, Crash
<1>7. result'[p] # "confirm"
  <2>1. CASE \E q \in Process : Unpaid(q)
    <3>1. PICK q \in Process :
            result' = [result EXCEPT ![q] = IF local[q] = "awaiting" THEN "confirm" ELSE "none"]
      BY <2>1 DEF Unpaid
    <3> QED BY <1>0, <1>3, <3>1 DEF TypeOK
  <2>2. CASE result' = result
    BY <1>3, <2>2
  <2> QED BY <2>1, <2>2 DEF Next, vars, IssueConfirmation, DealWithPayment, Progress, Tick,
    Pay, ReadClock, Consume, ConsumeRefused, SendPayment, ReceivePayment, TimeOutPayment,
    RecordPayment, Poll, LoadLocal, Query, GiveUp, Cancelled, UnpaidUnknown, SettledPayment,
    SettledTickets, Crash
<1> QED BY <1>5, <1>6, <1>7

(* A command that pays never calls for a second payment, however many run, *)
(* whatever status commands run beside them and however often their stores *)
(* fail: only a command that polls an order it does not pay can.           *)
THEOREM PayersNeverSignal == Spec => [](\A p \in Payer : result[p] # "confirm")
<1>1. Init => PayersInformed
  <2>1. Payer \subseteq Process
    BY DEF Process
  <2> QED BY <2>1 DEF Init, PayersInformed
<1>2. TypeOK /\ PayersInformed /\ [Next]_vars => PayersInformed'
  BY PayersInformedStep
<1>3. PayersInformed => \A p \in Payer : result[p] # "confirm"
  BY DEF PayersInformed
<1> QED BY <1>1, <1>2, <1>3, PaymentTypeOK, PTL DEF Spec

-----------------------------------------------------------------------------
(* The refinement: a step of PaymentService is a step of the protocol or   *)
(* none.                                                                   *)
LEMMA OneShotStep ==
  ASSUME PaymentInv, [Next]_vars
  PROVE  [OneShot!Next]_(OneShot!vars)
<1> TypeOK /\ WatchersPoll /\ ConfirmationSpentOnce /\ OneSpender
  BY DEF PaymentInv
<1>1. payment # "awaiting" => payment' # "awaiting"
  BY PaymentNeverBack
<1>2. CASE \E p \in Process : Consume(p)
  <2>1. PICK p \in Process : Consume(p)
    BY <1>2
  <2>2. Phase = "due" /\ calls' = calls
    BY <2>1, ConsumeSpends DEF Phase
  <2>3. Phase' = "committed"
    BY <2>1, ConsumeSpends DEF Phase, Spent
  <2> QED BY <2>2, <2>3 DEF OneShot!Next, OneShot!Commit
<1>3. CASE \E p \in Process : SendPayment(p)
  <2>1. PICK p \in Process : SendPayment(p)
    BY <1>3
  <2>2. pc[p] = "consumed" /\ calls' = calls \cup {p} /\ UNCHANGED <<payment, confirmation>>
    BY <2>1 DEF SendPayment, Goto, record
  <2>3. p \in Payer /\ Spender(p) /\ p \notin calls
    BY <2>2 DEF WatchersPoll, OneSpender, Spender
  <2>4. calls = {}
    <3>1. \A q \in calls : q \in Process /\ Spender(q)
      BY DEF TypeOK, Process, Spender
    <3> QED BY <2>3, <3>1 DEF OneSpender
  <2>5. Phase = "committed" /\ Phase' = Phase
    BY <2>2, <2>3 DEF Phase, OneSpender, Spent
  <2> QED BY <2>2, <2>3, <2>4, <2>5 DEF OneShot!Next, OneShot!Ask
<1>4. CASE ~(\E p \in Process : Consume(p)) /\ ~(\E p \in Process : SendPayment(p))
  <2>1. \A c \in Confirmation : Spent(c)' <=> Spent(c)
    BY <1>4, SpendingSteps
  <2>2. calls' = calls
    <3> USE DEF upstream
    <3>1. ASSUME NEW p \in Process, Pay(p) \/ Poll(p) \/ Crash(p), ~SendPayment(p)
          PROVE  UNCHANGED calls
      BY <3>1 DEF Pay, Poll, Crash, ReadClock, Consume, ConsumeRefused, ReceivePayment,
        TimeOutPayment, RecordPayment, LoadLocal, Query, GiveUp, Cancelled, Unpaid, UnpaidUnknown,
        SettledPayment, SettledTickets
    <3>2. CASE \/ \E c \in Confirmation : IssueConfirmation(c)
               \/ \E p \in Payer : DealWithPayment(p)
               \/ Progress \/ Tick \/ UNCHANGED vars
      BY <3>2 DEF IssueConfirmation, DealWithPayment, Progress, Tick, vars
    <3> QED BY <1>4, <3>1, <3>2 DEF Next
  <2>3. payment = "awaiting" => \A c \in Confirmation : ~Spent(c)'
    BY <2>1 DEF ConfirmationSpentOnce, Spent
  <2>4. Phase' = Phase \/ (Phase = "due" /\ Phase' = "closed")
    BY <1>1, <2>1, <2>3 DEF Phase, Spent
  <2> QED BY <2>2, <2>4 DEF OneShot!Next, OneShot!Close, OneShot!vars
<1> QED BY <1>2, <1>3, <1>4

(* Paying implements the one-shot protocol: the decision to pay is taken   *)
(* once, never taken back, and leads to at most one request.               *)
THEOREM PayingIsOneShot == Spec => OneShotSpec
<1>1. Init => OneShot!Init
  BY DEF Init, OneShot!Init, Phase
<1>2. PaymentInv /\ [Next]_vars => [OneShot!Next]_(OneShot!vars)
  BY OneShotStep
<1> QED BY <1>1, <1>2, PaymentInvariant, PTL DEF Spec, OneShotSpec, OneShot!Spec

=============================================================================
