-------------------------- MODULE AncillaryService --------------------------
(***************************************************************************)
(* `atlas-flight booking baggage|seat list|select|remove` for one booking: *)
(* any number of commands, as many at a time as there are processes, beside*)
(* order attempts on the same booking.  A command loads the booking, checks*)
(* its arguments against what it loaded, perhaps asks the upstream (twice, *)
(* if the first answer is a passing trouble), and then calls the store,    *)
(* which looks at the booking as it is by then.                            *)
(*                                                                         *)
(* A command whose access, load, checks, store call or process fails ends  *)
(* without a change (BookingStore shows that a failed call has none).      *)
(***************************************************************************)
EXTENDS BookingRecords, BusinessStatus

CONSTANTS
  Process,    (* commands running at a time                                 *)
  Life,       (* expires_at of the booking                                  *)
  MaxTime     (* bound: the clock stops here                                *)

ASSUME AncillaryAssumption == Life \in Nat \ {0} /\ MaxTime \in Nat

VARIABLES
  now,        (* the wall clock                                             *)
  ctx,        (* the booking in contexts.json                               *)
  pc,         (* where each process is in its command                       *)
  job,        (* what its command was asked for                             *)
  listed,     (* the options the upstream listed to it                      *)
  declined    (* history: kinds that verification or a listing declined     *)

vars == <<now, ctx, pc, job, listed, declined>>

Control == {"over", "reading", "rereading", "storing", "closing"}

Slot == [kind : AncillaryKind, traveler : Traveler, segment : Segment]

Job ==
  [op : {"list"}, kind : AncillaryKind]
    \cup [op : {"select"}, selection : AncillarySelection]
    \cup [op : {"remove"}, slot : Slot]

SlotOf(sel) ==
  [kind |-> KindOf[sel.option], traveler |-> sel.traveler, segment |-> sel.segment]

(* An answer to a listing: a status, and with status 0 the free options.   *)
Answer(kind) ==
  [status : Failure(kind), listed : {{}}]
    \cup [status : {0}, listed : SUBSET OfKind(kind, Option)]

-----------------------------------------------------------------------------
(* What the service makes of an answer.                                    *)

(* _transient: an error worth a second reading.                            *)
Transient(kind, a) == a.status \in RetryableStatus[kind] \cup {NoResponse}

(* A mistake: every error of a passing kind closes the kind for good.      *)
DowngradesOnTrouble(kind, a) ==
  \/ Transient(kind, a)
  \/ a.status \in IF kind = "baggage" THEN {214} ELSE {214, 218, 219, 221, 223, 225}

(* _BAGGAGE_DOWNGRADE_STATUSES, _SEAT_DOWNGRADE_STATUSES and seat 214.     *)
Downgrades(kind, a) ==
  a.status \in IF kind = "baggage"
               THEN {205, 214, 299, 9999}
               ELSE {214, 216, 217, 218, 219, 221, 223, 225}

AfterRead(kind, at, a) ==
  IF at = "reading" /\ Transient(kind, a) THEN "rereading"
  ELSE IF a.status = 0 /\ a.listed # {}    THEN "storing"
  ELSE IF a.status = 0 \/ Downgrades(kind, a) THEN "closing"
  ELSE "over"

(* In the upstream's own terms: nothing of the kind is free, its service   *)
(* says that the kind is unavailable (not that it was called too often),   *)
(* or the offer of the seats is gone.                                      *)
Declines(kind, a) ==
  \/ a.status = 0 /\ a.listed = {}
  \/ a.status \in Unavailable(kind) \ {429}
  \/ kind = "seat" /\ a.status = 214

-----------------------------------------------------------------------------
(* The keyring has the secret of an open booking (BookingStore).           *)
Hydratable(c) == Hydrates(c, c.generation, c.options)

Active(c) == now < c.expiresAt /\ Hydratable(c)

Stamp(t) == t \in now..MaxTime /\ now' = t

(* _access_context, and the checks on the booking as it was loaded: a      *)
(* finished booking is loaded too.                                         *)
Load(p) ==
  /\ pc[p] = "over"
  /\ Restorable(ctx) \/ Active(ctx)
  /\ \E j \in Job :
       /\ j.op = "list" => j.kind \in ctx.supported
       /\ j.op = "select" => CurrentSelection(ctx, j.selection)
       /\ job' = [job EXCEPT ![p] = j]
       /\ pc' = [pc EXCEPT ![p] = IF j.op = "list" THEN "reading" ELSE "storing"]
  /\ UNCHANGED <<now, ctx, listed, declined>>

(* _read_with_retry, one reading at a time.                                *)
Read(p) ==
  /\ pc[p] \in {"reading", "rereading"}
  /\ \E a \in Answer(job[p].kind) :
       /\ pc' = [pc EXCEPT ![p] = AfterRead(job[p].kind, pc[p], a)]
       /\ listed' = [listed EXCEPT ![p] = a.listed]
       /\ declined' = declined \cup {k \in {job[p].kind} : Declines(k, a)}
  /\ UNCHANGED <<now, ctx, job>>

(* A call of the store succeeds and the command is over.                   *)
Stores(p, op, at) ==
  /\ pc[p] = at /\ job[p].op = op
  /\ Active(ctx) /\ Ready(ctx)
  /\ pc' = [pc EXCEPT ![p] = "over"]
  /\ listed' = [listed EXCEPT ![p] = {}]
  /\ UNCHANGED <<job, declined>>

ReplaceOptions(p) ==
  /\ Stores(p, "list", "storing")
  /\ \E t \in now..MaxTime :
       Stamp(t) /\ ctx' = OptionsReplaced(ctx, job[p].kind, listed[p], ctx.revision, t)

CloseAncillary(p) ==
  /\ Stores(p, "list", "closing")
  /\ \E t \in now..MaxTime :
       Stamp(t) /\ ctx' = AncillaryClosed(ctx, job[p].kind, ctx.revision, t)

(* A mistake: the store trusts the check made on the loaded booking.       *)
SelectAsLoaded(p) ==
  /\ Stores(p, "select", "storing")
  /\ \E t \in now..MaxTime : Stamp(t) /\ ctx' = Selected(ctx, job[p].selection, t)

Select(p) ==
  /\ Stores(p, "select", "storing")
  /\ CurrentSelection(ctx, job[p].selection)
  /\ \E t \in now..MaxTime : Stamp(t) /\ ctx' = Selected(ctx, job[p].selection, t)

Remove(p) ==
  /\ Stores(p, "remove", "storing")
  /\ \E t \in now..MaxTime :
       LET slot == job[p].slot
       IN  Stamp(t) /\ ctx' = SelectionRemoved(ctx, slot.kind, slot.traveler, slot.segment, t)

(* The command ends with an error, or its process dies.                    *)
Ends(p) ==
  /\ pc[p] # "over"
  /\ pc' = [pc EXCEPT ![p] = "over"]
  /\ listed' = [listed EXCEPT ![p] = {}]
  /\ UNCHANGED <<now, ctx, job, declined>>

(* `order create` on the booking: OrderService has its steps.  A reset     *)
(* looks at no expiry, an outcome at no secret either.                     *)
OrderOutcome(t) ==
  {OrderFinished(ctx, "created", o, t) : o \in Order}
    \cup {OrderFinished(ctx, "unknown", NoOrder, t)}

OrderCommand ==
  /\ \E t \in now..MaxTime :
       /\ Stamp(t)
       /\ \/ Active(ctx) /\ Ready(ctx) /\ PriceSettled(ctx) /\ ctx' = OrderBegun(ctx, t)
          \/ Creating(ctx) /\ Hydratable(ctx) /\ ctx' = AttemptReset(ctx, t)
          \/ Creating(ctx) /\ Active(ctx) /\ ctx' = ContextExpired(ctx, t)
          \/ Creating(ctx) /\ ctx' \in OrderOutcome(t)
  /\ UNCHANGED <<pc, job, listed, declined>>

Tick ==
  /\ now < MaxTime
  /\ now' = now + 1
  /\ UNCHANGED <<ctx, pc, job, listed, declined>>

-----------------------------------------------------------------------------
(* A verified booking; what it does not support verification declined.     *)
Init ==
  /\ now = 0
  /\ \E g \in Generation, sup \in SUBSET AncillaryKind :
       ctx = VerifiedContext(g, 1, FALSE, sup, 0, Life)
  /\ pc = [p \in Process |-> "over"]
  /\ job \in [Process -> [op : {"list"}, kind : {"baggage"}]]
  /\ listed = [p \in Process |-> {}]
  /\ declined = AncillaryKind \ ctx.supported

Next ==
  \/ \E p \in Process :
       \/ Load(p)
       \/ Read(p)
       \/ ReplaceOptions(p)
       \/ CloseAncillary(p)
       \/ Select(p)
       \/ Remove(p)
       \/ Ends(p)
  \/ OrderCommand
  \/ Tick

Spec == Init /\ [][Next]_vars

-----------------------------------------------------------------------------
TypeOK ==
  /\ now \in Nat
  /\ ctx \in BookingContext
  /\ pc \in [Process -> Control]
  /\ job \in [Process -> Job]
  /\ listed \in [Process -> SUBSET Option]
  /\ \A p \in Process :
       /\ pc[p] \in {"reading", "rereading", "closing"} => job[p].op = "list"
       /\ listed[p] # {} => listed[p] \subseteq OfKind(job[p].kind, Option)
  /\ declined \subseteq AncillaryKind

(* A kind is closed only after the upstream declined it: an outage, a rate *)
(* limit or an answer nobody understands, once or twice in a row, leaves   *)
(* the kind open for a later listing, whatever other commands do.          *)
ClosedOnlyWhenDeclined == AncillaryKind \ ctx.supported \subseteq declined

(* A selection enters the booking by the command that asked for it, and    *)
(* only if the booking admits it at that time, however stale what the      *)
(* command loaded is.  It leaves by a command for its own slot, by a       *)
(* listing of its own kind, or with the whole attempt: concurrent commands *)
(* lose no other selection.                                                *)
Acts(p, op) == pc[p] # "over" /\ pc'[p] = "over" /\ job[p].op = op

SelectionsByCommand ==
  [][ /\ \A sel \in ctx'.selections \ ctx.selections :
           \E p \in Process :
             Acts(p, "select") /\ job[p].selection = sel /\ CurrentSelection(ctx, sel)
      /\ \A sel \in ctx.selections \ ctx'.selections :
           \/ IsTerminal(ctx')
           \/ \E p \in Process :
                \/ Acts(p, "list") /\ job[p].kind = SlotOf(sel).kind
                \/ Acts(p, "select") /\ SlotOf(job[p].selection) = SlotOf(sel)
                \/ Acts(p, "remove") /\ job[p].slot = SlotOf(sel) ]_vars

=============================================================================
