----------------------------- MODULE OrderData ------------------------------
(***************************************************************************)
(* What goes into an order: one offer on its way from the search through   *)
(* its verification, the confirmation of a price that rose and the         *)
(* selection of ancillaries, to the request that creates the order.  The   *)
(* other modules say when a booking may be ordered; this one says what the *)
(* order is then for.                                                      *)
(*                                                                         *)
(* `order create` checks the booking it loaded and, after begin_order,     *)
(* the booking it locked; other commands and midnight may come between.    *)
(* A command that fails changes nothing here, and is left out.  Which      *)
(* listed options the store admits beside each other is in BookingRecords. *)
(***************************************************************************)
EXTENDS Offers, Passengers, FiniteSets

CONSTANTS
  Request,    (* bound: the search requests, of SearchRequest               *)
  Routing,    (* bound: the raw routings of the upstream                    *)
  KeySet,     (* bound: sets of keys the upstream may require               *)
  Input,      (* bound: passenger inputs                                    *)
  Policy,     (* bound: values of --seat-policy                             *)
  Product,    (* ancillary products of the upstream                         *)
  ProductKind, (* [Product -> {"baggage", "seat"}]                          *)
  FlightOf,   (* [Product -> flight]                                        *)
  FirstDay, LastDay  (* bound: the dates                                    *)

ASSUME OrderDataAssumption ==
  /\ Request \subseteq SearchRequest
  /\ Routing \subseteq RawRouting
  /\ KeySet \subseteq SUBSET Key
  /\ FirstDay \in Nat \ {None} /\ LastDay \in Nat /\ FirstDay <= LastDay

VARIABLES
  today,      (* the date                                                   *)
  pc,         (* how far the offer has come                                 *)
  request,    (* the search request                                         *)
  searched,   (* history: the raw routing the search returned               *)
  offer,      (* the offer of the search store                              *)
  verified,   (* history: the raw routing and keys the verification returned*)
  ctx,        (* the booking                                                *)
  agreed,     (* history: the highest charge the user has agreed to         *)
  job,        (* input and seat policy of `order create`                    *)
  sent        (* the order request                                          *)

vars == <<today, pc, request, searched, offer, verified, ctx, agreed, job, sent>>

Nothing == <<>>

SEAT_POLICIES ==
  [ policy \in {"continue-without-seat", "cancel-order", "accept-similar-seat"} |->
      CASE policy = "continue-without-seat" -> "STOP_SEAT"
        [] policy = "cancel-order"          -> "STOP_TICKET"
        [] policy = "accept-similar-seat"   -> "SIMILAR_SEAT" ]

-----------------------------------------------------------------------------
(* What a routing costs a party, counted passenger by passenger and fee by *)
(* fee: the reference for the totals that Offers computes.                 *)
Group(r, type) == {type} \X (1..r[type])

TravelersOf(r) == UNION {Group(r, type) : type \in PassengerType}

FeeUnits(raw, r) ==
  CASE raw.mode = "PER_BOOKING" -> {"booking"}
    [] raw.mode = "PER_PAX"     -> TravelersOf(r)
    [] raw.mode = "PER_SEGMENT" -> TravelersOf(r) \X (DOMAIN Flights(raw))
    [] raw.mode = "PER_TICKET"  ->
         TravelersOf(r) \X (IF raw.separate THEN {"first", "second"} ELSE {"only"})

Charge(raw, r) ==
  LET Fares(type) == (raw.fare[type] + raw.tax[type]) * Cardinality(Group(r, type))
  IN  Fares("adult") + Fares("child") + Fares("infant") + raw.fee * Cardinality(FeeUnits(raw, r))

-----------------------------------------------------------------------------
(* The offer the user takes from a search: routings with FR are left out   *)
(* of the answer.  `reference` prices are those of a fare comparison.      *)
Search ==
  /\ pc = "idle"
  /\ \E r \in Request, raw \in Routing, status \in {"current", "reference"} :
       /\ Normal(raw, r) /\ ~RejectsFR(Flights(raw))
       /\ request' = r
       /\ searched' = raw
       /\ offer' = Offer(raw, r, status)
       /\ agreed' = Charge(raw, r)
  /\ pc' = "searched"
  /\ UNCHANGED <<today, verified, ctx, job, sent>>

PriceChange(old, new) ==
  CASE new.total > old.total -> "increased"
    [] new.total < old.total -> "decreased"
    [] OTHER                 -> "unchanged"

(* VerifyService.verify and create_from_verified.                          *)
Verify ==
  /\ pc = "searched"
  /\ offer.priceStatus = "current" /\ ~RejectsFR(offer.flights)
  /\ \E raw \in Routing, keys \in KeySet :
       LET new == Offer(raw, request, "verified")
       IN  /\ Normal(raw, request) /\ ~RejectsFR(Flights(raw))
           /\ new.currency = offer.currency
           /\ verified' = [routing |-> raw, keys |-> keys]
           /\ ctx' = [ priceChange |-> PriceChange(offer, new), confirmed |-> FALSE,
                       required |-> RequiredFields(keys),
                       travelers |-> TravelerSlots(request),
                       segments |-> SegmentSlots(new.flights),
                       supported |-> offer.supported \cap new.supported,
                       selections |-> {} ]
  /\ pc' = "verified"
  /\ UNCHANGED <<today, request, searched, offer, agreed, job, sent>>

(* confirm_price, of a price the user has been shown.                      *)
ConfirmPrice ==
  /\ pc \in {"verified", "checked"}
  /\ ctx' = [ctx EXCEPT !.confirmed = TRUE]
  /\ agreed' = Charge(verified.routing, request)
  /\ UNCHANGED <<today, pc, request, searched, offer, verified, job, sent>>

(* The upstream lists a product under the index of its flight, _segment    *)
(* finds the segment of that index, and the user selects it there.         *)
Select ==
  /\ pc \in {"verified", "checked"}
  /\ \E t \in DOMAIN ctx.travelers, p \in Product, i \in DOMAIN Flights(verified.routing) :
       /\ ProductKind[p] \in ctx.supported
       /\ Flights(verified.routing)[i] = FlightOf[p]
       /\ \E slot \in ctx.segments :
            /\ slot.index = i
            /\ LET sel == [traveler |-> t, flight |-> slot.flight, product |-> p, index |-> i]
                   Same(s) == /\ ProductKind[s.product] = ProductKind[p]
                              /\ s.traveler = t /\ s.flight = slot.flight
               IN  ctx' = [ctx EXCEPT !.selections = {s \in @ : ~Same(s)} \cup {sel}]
  /\ UNCHANGED <<today, pc, request, searched, offer, verified, agreed, job, sent>>

Remove ==
  /\ pc \in {"verified", "checked"}
  /\ \E sel \in ctx.selections : ctx' = [ctx EXCEPT !.selections = @ \ {sel}]
  /\ UNCHANGED <<today, pc, request, searched, offer, verified, agreed, job, sent>>

-----------------------------------------------------------------------------
SeatSelected == \E sel \in ctx.selections : ProductKind[sel.product] = "seat"

(* What create() asks of the booking, before and after begin_order.        *)
Acceptable(input, policy) ==
  /\ ~\E slot \in ctx.segments : "FR" \in {slot.flight.carrier, slot.flight.operating}
  /\ ctx.priceChange = "increased" => ctx.confirmed
  /\ Validates(input, ctx.required, ctx.travelers, today)
  /\ SeatSelected => policy \in DOMAIN SEAT_POLICIES

Check ==
  /\ pc = "verified"
  /\ \E input \in Input, policy \in Policy :
       /\ Acceptable(input, policy)
       /\ job' = [input |-> input, policy |-> policy]
  /\ pc' = "checked"
  /\ UNCHANGED <<today, request, searched, offer, verified, ctx, agreed, sent>>

Payload ==
  [ passengers |-> OrderPassengers(job.input, ctx.selections),
    ifSeatOccupied |-> IF SeatSelected THEN SEAT_POLICIES[job.policy] ELSE "",
    day |-> today ]

(* begin_order, _validate_locked_context and the call, or the reset.  The  *)
(* request is built right after the validation and leaves with the call;   *)
(* both are one step, so `day` is the day of the validation: a midnight    *)
(* between it and the arrival of the request is beyond the command.        *)
Send ==
  /\ pc = "checked"
  /\ IF Acceptable(job.input, job.policy)
     THEN pc' = "ordered" /\ sent' = Payload /\ UNCHANGED job
     ELSE pc' = "verified" /\ job' = Nothing /\ UNCHANGED sent
  /\ UNCHANGED <<today, request, searched, offer, verified, ctx, agreed>>

Midnight ==
  /\ today < LastDay
  /\ today' = today + 1
  /\ UNCHANGED <<pc, request, searched, offer, verified, ctx, agreed, job, sent>>

-----------------------------------------------------------------------------
Init ==
  /\ today = FirstDay
  /\ pc = "idle"
  /\ agreed = 0
  /\ request = Nothing /\ searched = Nothing /\ offer = Nothing /\ verified = Nothing
  /\ ctx = Nothing /\ job = Nothing /\ sent = Nothing

Next ==
  \/ Search
  \/ Verify
  \/ ConfirmPrice
  \/ Select
  \/ Remove
  \/ Check
  \/ Send
  \/ Midnight

Spec == Init /\ [][Next]_vars

-----------------------------------------------------------------------------
PublicField == {FieldOf[key] : key \in Key}

Verified == pc \in {"verified", "checked", "ordered"}

TypeOK ==
  /\ today \in FirstDay..LastDay /\ agreed \in Nat
  /\ pc \in {"idle", "searched", "verified", "checked", "ordered"}
  /\ pc # "idle" => request \in Request /\ searched \in Routing /\ offer.total \in Nat
  /\ Verified =>
       /\ verified.routing \in Routing /\ verified.keys \subseteq Key
       /\ ctx.priceChange \in {"unchanged", "decreased", "increased"}
       /\ ctx.confirmed \in BOOLEAN
       /\ ctx.required \subseteq PublicField
       /\ ctx.travelers \in Seq(PassengerType)
       /\ ctx.supported \subseteq {"baggage", "seat"}
  /\ pc \in {"checked", "ordered"} => job \in [input : Input, policy : Policy]

(* An order is requested only if the charge of the verified routing,       *)
(* counted by passenger and fee unit, is one the user agreed to: the price *)
(* of the search, or a risen price that was confirmed.  No kind of fee, no *)
(* change of flights or of separate tickets between search and             *)
(* verification slips a rise past the comparison of two totals.            *)
PriceAgreed == pc = "ordered" => Charge(verified.routing, request) <= agreed

(* The request names every traveler of the searched party once and under   *)
(* the type searched for, with what the upstream requires of each, whatever*)
(* the order of the input; no date had gone bad on the day the locked      *)
(* booking was validated, the last look the command takes.                 *)
PassengersComplete ==
  LET ps == sent.passengers
  IN  /\ {ps[i].traveler : i \in DOMAIN ps} = 1..Party(request)
      /\ \A type \in PassengerType :
           Cardinality({i \in DOMAIN ps : ps[i].passengerType = TypeCode[type]}) = request[type]
      /\ \A i \in DOMAIN ps :
           /\ verified.keys \subseteq ps[i].keys
           /\ ps[i].birthday < sent.day
           /\ ps[i].cardExpired # None => sent.day < ps[i].cardExpired

(* Every ancillary of the booking is sent, once, for its traveler and with *)
(* the index of the flight it is for, and is of a kind that the search and *)
(* the verification offered; a seat goes with a rule for its loss.         *)
AncillariesPlaced ==
  LET ps == sent.passengers
      flights == Flights(verified.routing)
      Sent(i) == {<<i, a>> : a \in ps[i].ancillaries}
  IN  /\ Cardinality(UNION {Sent(i) : i \in DOMAIN ps}) = Cardinality(ctx.selections)
      /\ \A i \in DOMAIN ps : \A a \in ps[i].ancillaries :
           /\ flights[a.index] = FlightOf[a.product]
           /\ ProductKind[a.product]
                \in AncillarySupported(searched) \cap AncillarySupported(verified.routing)
           /\ \E sel \in ctx.selections :
                sel.product = a.product /\ sel.traveler = ps[i].traveler
           /\ ProductKind[a.product] = "seat" => sent.ifSeatOccupied # ""

PayloadFaithful ==
  pc = "ordered" =>
    PassengersComplete /\ AncillariesPlaced /\ ~RejectsFR(Flights(verified.routing))

=============================================================================
