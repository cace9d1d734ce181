--------------------------- MODULE BookingRecords ---------------------------
(***************************************************************************)
(* The record that contexts.json keeps for one booking, the secret record  *)
(* that the OS keyring keeps beside it, and what each operation of         *)
(* booking_store.py makes of a booking record.  Everything here is a pure  *)
(* operator: the modules that EXTEND this one decide when an operation is  *)
(* called, by whom, and what may fail on the way to the disk.              *)
(*                                                                         *)
(* An ancillary option stands for a BaggageOption or a SeatOption with its *)
(* product code: option identifiers are random and never reused, so an     *)
(* identifier determines the product code.                                 *)
(***************************************************************************)
EXTENDS Naturals, FiniteSets

CONSTANTS
  Traveler,      (* traveler_id of the travelers of the verified offer      *)
  Segment,       (* segment_id of its segments                              *)
  DirectionOf,   (* [Segment -> direction], "outbound" or "inbound"         *)
  Option,        (* every ancillary option the upstream may ever list       *)
  KindOf,        (* [Option -> AncillaryKind]                               *)
  SegmentOf,     (* [Option -> Segment]                                     *)
  SignatureOf,   (* [Option -> (piece, weight, size, category)] of a bag    *)
  Generation,    (* route generations: a booking is bound to one            *)
  Order,         (* orders the upstream may create                          *)
  NoOrder        (* "order": null                                           *)

AncillaryKind == {"baggage", "seat"}

ASSUME OptionAssumption ==
  /\ KindOf \in [Option -> AncillaryKind]
  /\ SegmentOf \in [Option -> Segment]
  /\ DOMAIN SignatureOf = Option
  /\ DOMAIN DirectionOf = Segment

ASSUME NoOrderAssumption == NoOrder \notin Order

OrderAttemptState == {"ready", "creating", "created", "unknown"}

AncillarySelection == [traveler : Traveler, segment : Segment, option : Option]

BookingContext ==
  [ generation : Generation,
    revision   : Nat,
    increased  : BOOLEAN,                  \* price_change = "increased"
    confirmed  : BOOLEAN,                  \* increased_price_confirmed
    supported  : SUBSET AncillaryKind,     \* baggage_supported, seat_supported
    options    : SUBSET Option,            \* baggage_options and seat_options
    selections : SUBSET AncillarySelection,
    attempt    : OrderAttemptState,
    order      : Order \cup {NoOrder},
    updatedAt  : Nat,
    expiresAt  : Nat ]

-----------------------------------------------------------------------------
(* What booking_persistence.py says of a stored record.                    *)

Finished(c) == c.order # NoOrder \/ c.attempt \in {"created", "unknown"}

IsTerminal(c) == Finished(c) \/ c.expiresAt <= c.updatedAt

(* The keyring record `products` under the context's revision hydrates it. *)
Hydrates(c, generation, products) ==
  /\ ~IsTerminal(c)
  /\ generation = c.generation
  /\ products = c.options
  /\ \A sel \in c.selections : sel.option \in c.options

(* restore_terminal_booking_context: readable without the keyring.          *)
Restorable(c) == IsTerminal(c) /\ c.options = {} /\ c.selections = {}

-----------------------------------------------------------------------------
(* The guards of the store's operations on a hydrated record.              *)

(* Mistakes a change to the code could make, for the mutation runs: an      *)
(* attempt in progress taken for none, and bags compared with nothing.     *)
AnyAttempt(c) == c.order = NoOrder

BagsUnchecked(c, sel) == TRUE

Ready(c) == c.attempt = "ready" /\ c.order = NoOrder

Creating(c) == c.attempt = "creating" /\ c.order = NoOrder

SameSlot(s1, s2) ==
  /\ KindOf[s1.option] = KindOf[s2.option]
  /\ s1.traveler = s2.traveler
  /\ s1.segment = s2.segment

Connected(seg1, seg2) == DirectionOf[seg1] = DirectionOf[seg2]

(* Bags of one traveler on the connected segments of one direction must    *)
(* have the same allowance.                                                *)
ConsistentBaggage(c, sel) ==
  KindOf[sel.option] = "baggage" =>
    \A other \in c.selections :
      ( /\ KindOf[other.option] = "baggage"
        /\ other.traveler = sel.traveler
        /\ other.segment # sel.segment
        /\ Connected(other.segment, sel.segment) )
      => /\ other.option \in c.options
         /\ SegmentOf[other.option] = other.segment
         /\ SignatureOf[other.option] = SignatureOf[sel.option]

CurrentSelection(c, sel) ==
  /\ KindOf[sel.option] \in c.supported
  /\ sel.option \in c.options
  /\ SegmentOf[sel.option] = sel.segment
  /\ ConsistentBaggage(c, sel)

PriceSettled(c) == c.increased => c.confirmed

Bag(s) == KindOf[s.option] = "baggage"

(* What the selections of a record must be at all times: each is of an     *)
(* offered kind and of a currently listed option on its own segment, no    *)
(* slot is taken twice, and the bags of a traveler on connected segments   *)
(* have the same allowance.                                                *)
SoundSelections(c) ==
  \A s1 \in c.selections :
    /\ KindOf[s1.option] \in c.supported
    /\ s1.option \in c.options
    /\ SegmentOf[s1.option] = s1.segment
    /\ \A s2 \in c.selections :
         /\ SameSlot(s1, s2) => s1 = s2
         /\ Bag(s1) /\ Bag(s2) /\ s1.traveler = s2.traveler /\ Connected(s1.segment, s2.segment)
            => SignatureOf[s1.option] = SignatureOf[s2.option]

-----------------------------------------------------------------------------
(* What the operations make of a record; `t` is the stamp of updated_at.   *)

OfKind(kind, options) == {o \in options : KindOf[o] = kind}

(* A mistake: an outcome saved without dropping the selections.            *)
FinishedUncleared(c, attempt, order, t) ==
  [c EXCEPT !.attempt = attempt, !.order = order, !.updatedAt = t]

SelectionsWithout(c, kind) == {sel \in c.selections : KindOf[sel.option] # kind}

VerifiedContext(generation, revision, increased, supported, t, expiresAt) ==
  [ generation |-> generation, revision |-> revision,
    increased |-> increased, confirmed |-> FALSE,
    supported |-> supported, options |-> {}, selections |-> {},
    attempt |-> "ready", order |-> NoOrder,
    updatedAt |-> t, expiresAt |-> expiresAt ]

PriceConfirmed(c, t) == [c EXCEPT !.confirmed = TRUE, !.updatedAt = t]

OptionsReplaced(c, kind, listed, revision, t) ==
  [c EXCEPT !.options = (@ \ OfKind(kind, @)) \cup listed,
            !.selections = SelectionsWithout(c, kind),
            !.revision = revision,
            !.updatedAt = t]

AncillaryClosed(c, kind, revision, t) ==
  [c EXCEPT !.supported = @ \ {kind},
            !.options = @ \ OfKind(kind, @),
            !.selections = SelectionsWithout(c, kind),
            !.revision = revision,
            !.updatedAt = t]

Selected(c, sel, t) ==
  [c EXCEPT !.selections = {s \in @ : ~SameSlot(s, sel)} \cup {sel},
            !.updatedAt = t]

SelectionRemoved(c, kind, traveler, segment, t) ==
  [c EXCEPT !.selections = {s \in @ : ~( /\ KindOf[s.option] = kind
                                         /\ s.traveler = traveler
                                         /\ s.segment = segment )},
            !.updatedAt = t]

ContextExpired(c, t) ==
  [c EXCEPT !.options = {}, !.selections = {}, !.expiresAt = t, !.updatedAt = t]

(* A mistake: a state that no reader of the record knows.                  *)
BegunUnnamed(c, t) == [c EXCEPT !.attempt = "pending", !.updatedAt = t]

OrderBegun(c, t) == [c EXCEPT !.attempt = "creating", !.updatedAt = t]

AttemptReset(c, t) == [c EXCEPT !.attempt = "ready", !.updatedAt = t]

(* save_order, save_order_with_confirmation and mark_order_unknown.        *)
OrderFinished(c, attempt, order, t) ==
  [c EXCEPT !.attempt = attempt, !.order = order,
            !.options = {}, !.selections = {}, !.updatedAt = t]

-----------------------------------------------------------------------------
(* What one call of the store promises of the record it finds and the one  *)
(* it leaves: the relation between them that a caller may rely on, whatever*)
(* ran before, after or beside the call.  A call that raises leaves the    *)
(* record as it was.                                                       *)

CreatedContext(c) ==
  \E inc \in BOOLEAN, sup \in SUBSET AncillaryKind :
    c = VerifiedContext(c.generation, c.revision, inc, sup, c.updatedAt, c.expiresAt)

Edits(c, d) ==
  \/ d = PriceConfirmed(c, d.updatedAt)
  \/ \E kind \in AncillaryKind : \E listed \in SUBSET OfKind(kind, Option) :
       listed # {} /\ d = OptionsReplaced(c, kind, listed, d.revision, d.updatedAt)
  \/ \E kind \in AncillaryKind : d = AncillaryClosed(c, kind, d.revision, d.updatedAt)
  \/ \E sel \in AncillarySelection :
       CurrentSelection(c, sel) /\ d = Selected(c, sel, d.updatedAt)
  \/ \E kind \in AncillaryKind, traveler \in Traveler, segment \in Segment :
       d = SelectionRemoved(c, kind, traveler, segment, d.updatedAt)

Attempts(c, d) ==
  \/ Ready(c) /\ PriceSettled(c) /\ ~IsTerminal(c) /\ d = OrderBegun(c, d.updatedAt)
  \/ Creating(c) /\ ~IsTerminal(c) /\ d = AttemptReset(c, d.updatedAt)
  \/ Creating(c) /\ \E o \in Order : d = OrderFinished(c, "created", o, d.updatedAt)
  \/ Creating(c) /\ d = OrderFinished(c, "unknown", NoOrder, d.updatedAt)

StoreCall(c, d) ==
  /\ c.updatedAt <= d.updatedAt
  /\ \/ Ready(c) /\ ~IsTerminal(c) /\ Edits(c, d)
     \/ ~IsTerminal(c) /\ d = ContextExpired(c, d.updatedAt)
     \/ Attempts(c, d)

=============================================================================
