-------------------------- MODULE OrderData_proofs --------------------------
(***************************************************************************)
(* Theorems about OrderData, for any requests, routings, keys, inputs,     *)
(* products and dates: the totals of the normalizer are what a count by    *)
(* passenger and fee unit gives, an order is requested only at a charge    *)
(* the user agreed to, and its payload names every traveler and every      *)
(* ancillary of the booking once.                                          *)
(*                                                                         *)
(* The argument: the offer and the booking stay functions of the raw       *)
(* routings they were made of, so whatever the commands do in between, the *)
(* comparison of two totals was one of two charges; and the payload is     *)
(* made of a booking and an input that match each other, traveler by       *)
(* traveler, on the day the locked booking is validated.                   *)
(***************************************************************************)
EXTENDS OrderData, FiniteSetTheorems, TLAPS

(* The offer is the one of the raw routing of the search.                  *)
OfferAsSearched ==
  pc # "idle" =>
    /\ request \in Request /\ searched \in Routing /\ Normal(searched, request)
    /\ offer.priceStatus \in {"current", "reference"}
    /\ offer = Offer(searched, request, offer.priceStatus)

Selection == [traveler : Nat, flight : Flight, product : Product, index : Nat]

Booking ==
  [ priceChange : {"unchanged", "decreased", "increased"}, confirmed : BOOLEAN,
    required : SUBSET PublicField, travelers : Seq(PassengerType),
    segments : SUBSET [index : Nat, flight : Flight],
    supported : SUBSET {"baggage", "seat"}, selections : SUBSET Selection ]

(* The booking says of the verification what create_from_verified made of  *)
(* it, whatever the user has done to it since.                             *)
BookingAsVerified ==
  Verified =>
    LET raw == verified.routing
    IN  /\ raw \in Routing /\ Normal(raw, request) /\ ~RejectsFR(Flights(raw))
        /\ verified.keys \in KeySet
        /\ ctx \in Booking
        /\ ctx.priceChange = PriceChange(offer, Offer(raw, request, "verified"))
        /\ ctx.required = RequiredFields(verified.keys)
        /\ ctx.travelers = TravelerSlots(request)
        /\ ctx.segments = SegmentSlots(Flights(raw))
        /\ ctx.supported = AncillarySupported(searched) \cap AncillarySupported(raw)

(* The user agreed to the charge of the search, or of the verification     *)
(* once a price was confirmed.                                             *)
AgreedCharge ==
  pc # "idle" =>
    agreed = Charge(IF Verified /\ ctx.confirmed THEN verified.routing ELSE searched, request)

(* Each selection is for a traveler of the party, and of an offered        *)
(* product that is listed for the flight the selection names.              *)
SelectionsPlaced ==
  Verified =>
    LET flights == Flights(verified.routing)
    IN  /\ IsFiniteSet(ctx.selections)
        /\ \A sel \in ctx.selections :
             /\ sel.flight = flights[sel.index]
             /\ sel.traveler \in 1..Party(request) /\ sel.index \in DOMAIN flights
             /\ flights[sel.index] = FlightOf[sel.product]
             /\ ProductKind[sel.product] \in ctx.supported

(* What was sent is the payload of a day on which all was acceptable.      *)
SentAsAccepted ==
  pc = "ordered" =>
    /\ sent = [ passengers |-> OrderPassengers(job.input, ctx.selections),
                ifSeatOccupied |-> IF SeatSelected THEN SEAT_POLICIES[job.policy] ELSE "",
                day |-> sent.day ]
    /\ sent.day \in Nat \ {None}
    /\ ctx.priceChange = "increased" => ctx.confirmed
    /\ Validates(job.input, ctx.required, ctx.travelers, sent.day)
    /\ SeatSelected => job.policy \in DOMAIN SEAT_POLICIES

JobGiven ==
  pc \in {"checked", "ordered"} =>
    job = [input |-> job.input, policy |-> job.policy] /\ job.input \in Input /\ job.policy \in Policy

Control ==
  /\ pc \in {"idle", "searched", "verified", "checked", "ordered"}
  /\ today \in FirstDay..LastDay
  /\ pc = "idle" => agreed = 0

DataInv ==
  /\ Control
  /\ OfferAsSearched
  /\ BookingAsVerified
  /\ AgreedCharge
  /\ SelectionsPlaced
  /\ JobGiven
  /\ SentAsAccepted

-----------------------------------------------------------------------------
(* Prices.                                                                 *)

(* A product of amounts is an amount.                                      *)
LEMMA ProductIsNat == \A a, b \in Nat : a * b \in Nat
OBVIOUS

(* A search is for at most nine of each type, and for someone.             *)
LEMMA PartyCounts ==
  ASSUME NEW r \in SearchRequest
  PROVE  /\ r.adult \in Nat /\ r.child \in Nat /\ r.infant \in Nat
         /\ Party(r) \in Nat /\ Party(r) = r.adult + r.child + r.infant
BY DEF SearchRequest, Party

(* Disjoint sets add up.                                                   *)
LEMMA DisjointUnion ==
  ASSUME NEW S, NEW T, IsFiniteSet(S), IsFiniteSet(T), S \cap T = {}
  PROVE  /\ IsFiniteSet(S \cup T)
         /\ Cardinality(S \cup T) = Cardinality(S) + Cardinality(T)
<1>1. /\ IsFiniteSet(S \cup T)
      /\ Cardinality(S \cup T) = Cardinality(S) + Cardinality(T) - Cardinality(S \cap T)
  BY FS_Union
<1>2. Cardinality(S \cap T) = 0
  BY FS_EmptySet
<1>3. Cardinality(S) \in Nat /\ Cardinality(T) \in Nat
  BY FS_CardinalityType
<1> QED BY <1>1, <1>2, <1>3

(* The travelers of one type are as many as were searched for.             *)
LEMMA GroupSize ==
  ASSUME NEW r, NEW type, r[type] \in Nat
  PROVE  IsFiniteSet(Group(r, type)) /\ Cardinality(Group(r, type)) = r[type]
<1>1. IsFiniteSet(1..r[type]) /\ Cardinality(1..r[type]) = r[type]
  BY FS_Interval
<1>2. IsFiniteSet({type}) /\ Cardinality({type}) = 1
  BY FS_Singleton
<1>3. /\ IsFiniteSet({type} \X (1..r[type]))
      /\ Cardinality({type} \X (1..r[type])) = Cardinality({type}) * Cardinality(1..r[type])
  BY <1>1, <1>2, FS_Product
<1> QED BY <1>1, <1>2, <1>3 DEF Group

(* And all of them are the party.                                          *)
LEMMA TravelersSize ==
  ASSUME NEW r \in SearchRequest
  PROVE  IsFiniteSet(TravelersOf(r)) /\ Cardinality(TravelersOf(r)) = Party(r)
<1> DEFINE A == Group(r, "adult")
           C == Group(r, "child")
           I == Group(r, "infant")
<1>1. /\ IsFiniteSet(A) /\ Cardinality(A) = r.adult
      /\ IsFiniteSet(C) /\ Cardinality(C) = r.child
      /\ IsFiniteSet(I) /\ Cardinality(I) = r.infant
  BY PartyCounts, GroupSize
<1>2. A \cap C = {} /\ (A \cup C) \cap I = {}
  BY DEF Group
<1>3. TravelersOf(r) = (A \cup C) \cup I
  BY DEF TravelersOf, PassengerType
<1> HIDE DEF A, C, I
<1>4. /\ IsFiniteSet(A \cup C)
      /\ Cardinality(A \cup C) = Cardinality(A) + Cardinality(C)
  BY <1>1, <1>2, DisjointUnion
<1>5. /\ IsFiniteSet((A \cup C) \cup I)
      /\ Cardinality((A \cup C) \cup I) = Cardinality(A \cup C) + Cardinality(I)
  BY <1>1, <1>2, <1>4, DisjointUnion
<1> QED BY <1>1, <1>3, <1>4, <1>5, PartyCounts

(* The flights of a routing, numbered from 1 through both directions.      *)
LEMMA FlightsNumbered ==
  ASSUME NEW raw \in RawRouting
  PROVE  /\ Flights(raw) \in Seq(Flight)
         /\ Len(Flights(raw)) \in Nat
         /\ DOMAIN Flights(raw) = 1..Len(Flights(raw))
BY DEF Flights, RawRouting

(* A fee is charged as often as the fee mode has units.                    *)
LEMMA FeesAreUnits ==
  ASSUME NEW r \in SearchRequest, NEW raw \in RawRouting, Normal(raw, r)
  PROVE  /\ IsFiniteSet(FeeUnits(raw, r))
         /\ FeeTotal(raw, r, Len(Flights(raw))) = raw.fee * Cardinality(FeeUnits(raw, r))
         /\ FeeTotal(raw, r, Len(Flights(raw))) \in Nat
<1> DEFINE T == TravelersOf(r)
           D == DOMAIN Flights(raw)
           n == Len(Flights(raw))
<1>1. IsFiniteSet(T) /\ Cardinality(T) = Party(r) /\ Party(r) \in Nat
  BY TravelersSize, PartyCounts
<1>2. IsFiniteSet(D) /\ Cardinality(D) = n /\ n \in Nat
  BY FlightsNumbered, FS_Interval
<1>3. raw.fee \in Nat /\ raw.mode \in FeeMode /\ raw.separate \in BOOLEAN
  BY DEF Normal, RawRouting, Amount
<1> HIDE DEF T, D, n
<1>4. CASE raw.mode = "PER_BOOKING"
  <2>1. FeeUnits(raw, r) = {"booking"}
    BY <1>4 DEF FeeUnits
  <2>2. IsFiniteSet(FeeUnits(raw, r)) /\ Cardinality(FeeUnits(raw, r)) = 1
    BY <2>1, FS_Singleton
  <2>3. FeeTotal(raw, r, n) = raw.fee * 1
    BY <1>4 DEF FeeTotal
  <2> QED BY <1>3, <2>2, <2>3 DEF n
<1>5. CASE raw.mode = "PER_PAX"
  <2>1. FeeUnits(raw, r) = T
    BY <1>5 DEF FeeUnits, T
  <2>2. FeeTotal(raw, r, n) = raw.fee * Party(r)
    BY <1>5 DEF FeeTotal
  <2> QED BY <1>1, <1>3, <2>1, <2>2, ProductIsNat DEF n
<1>6. CASE raw.mode = "PER_SEGMENT"
  <2>1. FeeUnits(raw, r) = T \X D
    BY <1>6 DEF FeeUnits, T, D
  <2>2. IsFiniteSet(T \X D) /\ Cardinality(T \X D) = Party(r) * n
    BY <1>1, <1>2, FS_Product
  <2>3. FeeTotal(raw, r, n) = raw.fee * (Party(r) * n)
    BY <1>6 DEF FeeTotal
  <2> QED BY <1>1, <1>2, <1>3, <2>1, <2>2, <2>3, ProductIsNat DEF n
<1>7. CASE raw.mode = "PER_TICKET"
  <2> DEFINE tickets == IF raw.separate THEN {"first", "second"} ELSE {"only"}
             k == IF raw.separate THEN 2 ELSE 1
  <2>1. FeeUnits(raw, r) = T \X tickets
    BY <1>7 DEF FeeUnits, T
  <2>2. IsFiniteSet(tickets) /\ Cardinality(tickets) = k
    <3>1. /\ IsFiniteSet({"only"}) /\ Cardinality({"only"}) = 1
          /\ IsFiniteSet({"first"}) /\ Cardinality({"first"}) = 1
      BY FS_Singleton
    <3>2. /\ IsFiniteSet({"second"}) /\ Cardinality({"second"}) = 1
          /\ {"first"} \cap {"second"} = {}
      BY FS_Singleton
    <3>3. /\ IsFiniteSet({"first"} \cup {"second"})
          /\ Cardinality({"first"} \cup {"second"}) = Cardinality({"first"}) + Cardinality({"second"})
      BY <3>1, <3>2, DisjointUnion
    <3>4. {"first"} \cup {"second"} = {"first", "second"}
      OBVIOUS
    <3> QED BY <3>1, <3>2, <3>3, <3>4
  <2>3. k \in Nat
    OBVIOUS
  <2>4. FeeTotal(raw, r, n) = raw.fee * (Party(r) * k)
    BY <1>7 DEF FeeTotal
  <2> HIDE DEF tickets, k
  <2>5. IsFiniteSet(T \X tickets) /\ Cardinality(T \X tickets) = Party(r) * k
    BY <1>1, <2>2, FS_Product
  <2> QED BY <1>1, <1>3, <2>1, <2>3, <2>4, <2>5, ProductIsNat DEF n
<1> QED BY <1>3, <1>4, <1>5, <1>6, <1>7 DEF FeeMode

(* The total that normalize computes is what the travelers and the fee     *)
(* units of a routing come to, for every routing it lets through.          *)
THEOREM TotalIsCharge ==
  ASSUME NEW r \in SearchRequest, NEW raw \in RawRouting, Normal(raw, r)
  PROVE  Total(raw, r) = Charge(raw, r) /\ Total(raw, r) \in Nat
<1>1. ASSUME NEW type \in PassengerType
      PROVE  /\ Subtotal(raw, r, type) =
                  (raw.fare[type] + raw.tax[type]) * Cardinality(Group(r, type))
             /\ Subtotal(raw, r, type) \in Nat
  <2>1. r[type] \in Nat
    BY PartyCounts DEF PassengerType
  <2>2. Cardinality(Group(r, type)) = r[type]
    BY <2>1, GroupSize
  <2>3. raw.fare[type] + raw.tax[type] \in Int
    BY DEF RawRouting, Amount, Unreadable
  <2>4. CASE r[type] = 0
    BY <2>2, <2>3, <2>4 DEF Subtotal
  <2>5. CASE r[type] > 0
    <3>1. raw.fare[type] + raw.tax[type] \in Nat
      BY <2>5 DEF RawRouting, Amount, Normal
    <3>2. Subtotal(raw, r, type) = (raw.fare[type] + raw.tax[type]) * r[type]
      BY <2>1, <2>5 DEF Subtotal
    <3> QED BY <2>1, <2>2, <3>1, <3>2, ProductIsNat
  <2> QED BY <2>1, <2>4, <2>5
<1>2. "adult" \in PassengerType /\ "child" \in PassengerType /\ "infant" \in PassengerType
  BY DEF PassengerType
<1>3. /\ Subtotal(raw, r, "adult") \in Nat /\ Subtotal(raw, r, "child") \in Nat
      /\ Subtotal(raw, r, "infant") \in Nat
      /\ FeeTotal(raw, r, Len(Flights(raw))) \in Nat
  BY <1>1, <1>2, FeesAreUnits
<1>4. Charge(raw, r) =
        Subtotal(raw, r, "adult") + Subtotal(raw, r, "child") + Subtotal(raw, r, "infant")
          + FeeTotal(raw, r, Len(Flights(raw)))
  BY <1>1, <1>2, FeesAreUnits DEF Charge
<1> QED BY <1>3, <1>4 DEF Total


-----------------------------------------------------------------------------
(* The invariant.                                                          *)

(* Types of what the booking is made of.                                   *)
LEMMA FieldsArePublic ==
  ASSUME NEW keys \in SUBSET Key
  PROVE  RequiredFields(keys) \in SUBSET PublicField
<1>1. AlwaysRequired \subseteq PublicField
  <2>1. /\ FieldOf["name"] = "name" /\ FieldOf["passengerType"] = "passenger_type"
        /\ FieldOf["gender"] = "gender" /\ {"name", "passengerType", "gender"} \subseteq Key
    BY DEF FieldOf, Key
  <2> QED BY <2>1 DEF AlwaysRequired, PublicField
<1> QED BY <1>1 DEF RequiredFields, PublicField

(* The slots of a party are types, in the places of the party.             *)
LEMMA SlotsTyped ==
  ASSUME NEW r \in SearchRequest
  PROVE  TravelerSlots(r) \in Seq(PassengerType)
<1>1. Party(r) \in Nat
  BY PartyCounts
<1>2. TravelerSlots(r) \in [1..Party(r) -> PassengerType]
  BY DEF TravelerSlots, PassengerType
<1> QED BY <1>1, <1>2

(* The slots of the flights are flights, in the places of the routing.     *)
LEMMA SegmentsTyped ==
  ASSUME NEW raw \in RawRouting
  PROVE  SegmentSlots(Flights(raw)) \in SUBSET [index : Nat, flight : Flight]
BY FlightsNumbered DEF SegmentSlots

(* What the actions leave alone, each but the search and the verification. *)
LEMMA DataKept ==
  ASSUME DataInv, UNCHANGED <<request, searched, offer>>,
         pc' # "idle" => pc # "idle"
  PROVE  OfferAsSearched'
BY DEF DataInv, OfferAsSearched

(* A search: the offer is the one of its routing, and the user has agreed  *)
(* to what that comes to.                                                  *)
LEMMA SearchKeepsInv ==
  ASSUME DataInv, Search
  PROVE  DataInv'
<1>1. PICK r \in Request, raw \in Routing, status \in {"current", "reference"} :
        /\ Normal(raw, r)
        /\ request' = r /\ searched' = raw
        /\ offer' = Offer(raw, r, status)
        /\ agreed' = Charge(raw, r)
  BY DEF Search
<1>2. pc = "idle" /\ pc' = "searched" /\ UNCHANGED <<today, verified, ctx, job, sent>>
  BY DEF Search
<1>3. OfferAsSearched'
  <2>1. Offer(raw, r, status).priceStatus = status
    BY DEF Offer
  <2> QED BY <1>1, <2>1 DEF OfferAsSearched
<1>4. ~Verified'
  BY <1>2 DEF Verified
<1>5. AgreedCharge'
  BY <1>1, <1>4 DEF AgreedCharge
<1> QED BY <1>2, <1>3, <1>4, <1>5
    DEF DataInv, Control, BookingAsVerified, SelectionsPlaced, JobGiven, SentAsAccepted

(* A verification: the booking is made of its routing and keys, and of the *)
(* offer; it has no selections, and no price of it is confirmed.           *)
LEMMA VerifyKeepsInv ==
  ASSUME DataInv, Verify
  PROVE  DataInv'
<1>1. PICK raw \in Routing, keys \in KeySet :
        /\ Normal(raw, request) /\ ~RejectsFR(Flights(raw))
        /\ verified' = [routing |-> raw, keys |-> keys]
        /\ ctx' = [ priceChange |-> PriceChange(offer, Offer(raw, request, "verified")),
                    confirmed |-> FALSE,
                    required |-> RequiredFields(keys),
                    travelers |-> TravelerSlots(request),
                    segments |-> SegmentSlots(Offer(raw, request, "verified").flights),
                    supported |-> offer.supported \cap Offer(raw, request, "verified").supported,
                    selections |-> {} ]
  BY DEF Verify
<1>2. pc = "searched" /\ pc' = "verified"
        /\ UNCHANGED <<today, request, searched, offer, agreed, job, sent>>
  BY DEF Verify
<1>3. /\ verified'.routing = raw /\ verified'.keys = keys
      /\ ctx'.confirmed = FALSE /\ ctx'.selections = {}
  BY <1>1
<1>4. OfferAsSearched'
  BY <1>2, DataKept
<1>5. /\ Offer(raw, request, "verified").flights = Flights(raw)
      /\ Offer(raw, request, "verified").supported = AncillarySupported(raw)
      /\ offer.supported = AncillarySupported(searched)
  BY <1>2 DEF Offer, DataInv, OfferAsSearched
<1>6. BookingAsVerified'
  <2>1. raw \in RawRouting /\ request \in SearchRequest /\ keys \in SUBSET Key
    BY <1>2, OrderDataAssumption DEF DataInv, OfferAsSearched
  <2>2. RequiredFields(keys) \in SUBSET PublicField
    BY <2>1, FieldsArePublic
  <2>3. TravelerSlots(request) \in Seq(PassengerType)
    BY <2>1, SlotsTyped
  <2>4. SegmentSlots(Flights(raw)) \in SUBSET [index : Nat, flight : Flight]
    BY <2>1, SegmentsTyped
  <2>5. PriceChange(offer, Offer(raw, request, "verified")) \in {"unchanged", "decreased", "increased"}
    BY DEF PriceChange
  <2>6. AncillarySupported(searched) \cap AncillarySupported(raw) \in SUBSET {"baggage", "seat"}
    BY DEF AncillarySupported
  <2>7. ctx' = [ priceChange |-> PriceChange(offer, Offer(raw, request, "verified")),
                 confirmed |-> FALSE,
                 required |-> RequiredFields(keys),
                 travelers |-> TravelerSlots(request),
                 segments |-> SegmentSlots(Flights(raw)),
                 supported |-> AncillarySupported(searched) \cap AncillarySupported(raw),
                 selections |-> {} ]
    BY <1>1, <1>5
  <2>8. ctx' \in Booking
    BY <2>2, <2>3, <2>4, <2>5, <2>6, <2>7 DEF Booking
  <2> QED BY <1>1, <1>2, <1>3, <2>7, <2>8 DEF BookingAsVerified
<1>7. AgreedCharge'
  BY <1>2, <1>3 DEF DataInv, AgreedCharge, Verified
<1>8. SelectionsPlaced'
  BY <1>3, FS_EmptySet DEF SelectionsPlaced
<1> QED BY <1>2, <1>4, <1>6, <1>7, <1>8 DEF DataInv, Control, JobGiven, SentAsAccepted

(* What confirm_price, select and remove may change of a booking.          *)
LEMMA EditKeepsBooking ==
  ASSUME DataInv, pc \in {"verified", "checked"}, ctx' \in Booking,
         ctx'.priceChange = ctx.priceChange, ctx'.required = ctx.required,
         ctx'.travelers = ctx.travelers, ctx'.segments = ctx.segments,
         ctx'.supported = ctx.supported,
         UNCHANGED <<today, pc, request, searched, offer, verified, job, sent>>
  PROVE  Control' /\ OfferAsSearched' /\ BookingAsVerified' /\ JobGiven' /\ SentAsAccepted'
<1>1. Verified /\ Verified' /\ pc' = pc
  BY DEF Verified
<1>2. BookingAsVerified'
  BY <1>1 DEF DataInv, BookingAsVerified
<1>3. SentAsAccepted'
  BY DEF SentAsAccepted
<1> QED BY <1>1, <1>2, <1>3, DataKept DEF DataInv, Control, JobGiven

(* A booking with another confirmation is one.                             *)
LEMMA Reconfirmed ==
  ASSUME NEW b \in Booking
  PROVE  \A d \in BOOLEAN :
           LET c == [b EXCEPT !.confirmed = d]
           IN  /\ c \in Booking /\ c.confirmed = d
               /\ c.priceChange = b.priceChange /\ c.required = b.required
               /\ c.travelers = b.travelers /\ c.segments = b.segments
               /\ c.supported = b.supported /\ c.selections = b.selections
BY DEF Booking

(* So is one with other selections.                                        *)
LEMMA Reselected ==
  ASSUME NEW b \in Booking, NEW S \in SUBSET Selection
  PROVE  LET c == [b EXCEPT !.selections = S]
         IN  /\ c \in Booking /\ c.selections = S
             /\ c.priceChange = b.priceChange /\ c.required = b.required
             /\ c.travelers = b.travelers /\ c.segments = b.segments
             /\ c.supported = b.supported /\ c.confirmed = b.confirmed
BY DEF Booking

(* A confirmed price is the one of the verification.                       *)
LEMMA ConfirmKeepsInv ==
  ASSUME DataInv, ConfirmPrice
  PROVE  DataInv'
<1>1. Verified /\ Verified' /\ ctx \in Booking
  BY DEF ConfirmPrice, Verified, DataInv, BookingAsVerified
<1>2. ctx' = [ctx EXCEPT !.confirmed = TRUE]
  BY DEF ConfirmPrice
<1>3. /\ ctx' \in Booking /\ ctx'.confirmed = TRUE
      /\ ctx'.priceChange = ctx.priceChange /\ ctx'.required = ctx.required
      /\ ctx'.travelers = ctx.travelers /\ ctx'.segments = ctx.segments
      /\ ctx'.supported = ctx.supported /\ ctx'.selections = ctx.selections
  <2> DEFINE c == [ctx EXCEPT !.confirmed = TRUE]
  <2>1. TRUE \in BOOLEAN
    OBVIOUS
  <2>2. /\ c \in Booking /\ c.confirmed = TRUE
        /\ c.priceChange = ctx.priceChange /\ c.required = ctx.required
        /\ c.travelers = ctx.travelers /\ c.segments = ctx.segments
        /\ c.supported = ctx.supported /\ c.selections = ctx.selections
    BY <1>1, <2>1, Reconfirmed, Zenon
  <2> QED BY <1>2, <2>2, Zenon
<1>4. Control' /\ OfferAsSearched' /\ BookingAsVerified' /\ JobGiven' /\ SentAsAccepted'
  BY <1>3, EditKeepsBooking DEF ConfirmPrice
<1>5. AgreedCharge'
  BY <1>1, <1>3 DEF ConfirmPrice, AgreedCharge
<1>6. SelectionsPlaced'
  BY <1>1, <1>3 DEF ConfirmPrice, DataInv, SelectionsPlaced
<1> QED BY <1>4, <1>5, <1>6 DEF DataInv

(* A selection is placed where the upstream listed its product.            *)
LEMMA SelectKeepsInv ==
  ASSUME DataInv, Select
  PROVE  DataInv'
<1> DEFINE flights == Flights(verified.routing)
<1>1. PICK t \in DOMAIN ctx.travelers, p \in Product, i \in DOMAIN flights :
        /\ ProductKind[p] \in ctx.supported
        /\ flights[i] = FlightOf[p]
        /\ \E slot \in ctx.segments :
             /\ slot.index = i
             /\ LET sel == [traveler |-> t, flight |-> slot.flight, product |-> p, index |-> i]
                    Same(s) == /\ ProductKind[s.product] = ProductKind[p]
                               /\ s.traveler = t /\ s.flight = slot.flight
                IN  ctx' = [ctx EXCEPT !.selections = {s \in @ : ~Same(s)} \cup {sel}]
  BY DEF Select
<1>2. PICK slot \in ctx.segments :
        /\ slot.index = i
        /\ ctx' = [ctx EXCEPT !.selections =
                     {s \in ctx.selections :
                        ~( /\ ProductKind[s.product] = ProductKind[p]
                           /\ s.traveler = t /\ s.flight = slot.flight )}
                     \cup {[traveler |-> t, flight |-> slot.flight, product |-> p, index |-> i]}]
  BY <1>1
<1> DEFINE kept == {s \in ctx.selections :
                      ~( /\ ProductKind[s.product] = ProductKind[p]
                         /\ s.traveler = t /\ s.flight = slot.flight )}
           sel == [traveler |-> t, flight |-> slot.flight, product |-> p, index |-> i]
<1>3. /\ Verified /\ Verified' /\ pc \in {"verified", "checked"}
      /\ UNCHANGED <<today, pc, request, searched, offer, verified, agreed, job, sent>>
  BY DEF Select, Verified
<1>4. slot.flight = flights[i] /\ DOMAIN ctx.travelers = 1..Party(request)
  <2>1. ctx.segments = SegmentSlots(flights) /\ ctx.travelers = TravelerSlots(request)
    BY <1>3 DEF DataInv, BookingAsVerified
  <2> QED BY <1>2, <2>1 DEF SegmentSlots, TravelerSlots
<1>5. sel \in Selection /\ kept \in SUBSET Selection /\ ctx \in Booking
  <2>1. ctx \in Booking /\ verified.routing \in RawRouting /\ request \in SearchRequest
    BY <1>3, OrderDataAssumption DEF DataInv, BookingAsVerified, OfferAsSearched, Verified
  <2>2. flights[i] \in Flight /\ i \in Nat /\ t \in Nat
    BY <1>1, <1>4, <2>1, FlightsNumbered
  <2>3. ctx.selections \in SUBSET Selection
    BY <2>1 DEF Booking
  <2> QED BY <1>4, <2>1, <2>2, <2>3 DEF Selection
<1>6. ctx' = [ctx EXCEPT !.selections = kept \cup {sel}]
  BY <1>2
<1> HIDE DEF kept
<1>7. /\ ctx' \in Booking /\ ctx'.selections = kept \cup {sel}
      /\ ctx'.priceChange = ctx.priceChange /\ ctx'.required = ctx.required
      /\ ctx'.travelers = ctx.travelers /\ ctx'.segments = ctx.segments
      /\ ctx'.supported = ctx.supported /\ ctx'.confirmed = ctx.confirmed
  <2> HIDE DEF sel
  <2>1. kept \cup {sel} \in SUBSET Selection
    BY <1>5
  <2> QED BY <1>5, <1>6, <2>1, Reselected
<1>t. Control' /\ OfferAsSearched' /\ BookingAsVerified' /\ JobGiven' /\ SentAsAccepted'
  BY <1>3, <1>7, EditKeepsBooking
<1>8. AgreedCharge'
  BY <1>3, <1>7 DEF DataInv, AgreedCharge, Verified
<1>9. SelectionsPlaced'
  <2>1. IsFiniteSet(ctx.selections) /\ kept \in SUBSET ctx.selections
    BY <1>3 DEF DataInv, SelectionsPlaced, kept
  <2>2. IsFiniteSet(kept)
    BY <2>1, FS_Subset
  <2>3. IsFiniteSet(kept \cup {sel})
    BY <2>2, FS_AddElement
  <2>4. ASSUME NEW s \in kept \cup {sel}
        PROVE  /\ s.flight = flights[s.index]
               /\ s.traveler \in 1..Party(request) /\ s.index \in DOMAIN flights
               /\ flights[s.index] = FlightOf[s.product]
               /\ ProductKind[s.product] \in ctx.supported
    <3>1. CASE s \in kept
      BY <1>3, <2>1, <3>1 DEF DataInv, SelectionsPlaced
    <3>2. CASE s = sel
      BY <1>1, <1>4, <3>2
    <3> QED BY <3>1, <3>2
  <2>5. verified' = verified /\ request' = request
    BY <1>3
  <2> HIDE DEF sel
  <2> QED BY <1>7, <2>3, <2>4, <2>5 DEF SelectionsPlaced
<1> QED BY <1>t, <1>8, <1>9 DEF DataInv

(* The other selections stay where they are.                               *)
LEMMA RemoveKeepsInv ==
  ASSUME DataInv, Remove
  PROVE  DataInv'
<1>1. PICK sel \in ctx.selections : ctx' = [ctx EXCEPT !.selections = @ \ {sel}]
  BY DEF Remove
<1> DEFINE left == ctx.selections \ {sel}
<1>2. /\ Verified /\ Verified' /\ pc \in {"verified", "checked"}
      /\ UNCHANGED <<today, pc, request, searched, offer, verified, agreed, job, sent>>
  BY DEF Remove, Verified
<1>3. ctx \in Booking /\ left \in SUBSET Selection
  BY <1>2 DEF DataInv, BookingAsVerified, Booking
<1>4. ctx' = [ctx EXCEPT !.selections = left]
  BY <1>1
<1>5. IsFiniteSet(ctx.selections) /\ left \in SUBSET ctx.selections
  BY <1>2 DEF DataInv, SelectionsPlaced
<1>6. IsFiniteSet(left)
  BY <1>5, FS_Subset
<1> HIDE DEF left
<1>7. /\ ctx' \in Booking /\ ctx'.selections = left
      /\ ctx'.priceChange = ctx.priceChange /\ ctx'.required = ctx.required
      /\ ctx'.travelers = ctx.travelers /\ ctx'.segments = ctx.segments
      /\ ctx'.supported = ctx.supported /\ ctx'.confirmed = ctx.confirmed
  BY <1>3, <1>4, Reselected
<1>t. Control' /\ OfferAsSearched' /\ BookingAsVerified' /\ JobGiven' /\ SentAsAccepted'
  BY <1>2, <1>7, EditKeepsBooking
<1>8. AgreedCharge'
  BY <1>2, <1>7 DEF DataInv, AgreedCharge, Verified
<1>9. SelectionsPlaced'
  BY <1>2, <1>5, <1>6, <1>7 DEF DataInv, SelectionsPlaced
<1> QED BY <1>t, <1>8, <1>9 DEF DataInv

(* A first check changes nothing but the job.                              *)
LEMMA CheckKeepsInv ==
  ASSUME DataInv, Check
  PROVE  DataInv'
<1>1. PICK input \in Input, policy \in Policy : job' = [input |-> input, policy |-> policy]
  BY DEF Check
<1>2. /\ pc = "verified" /\ pc' = "checked" /\ Verified /\ Verified'
      /\ UNCHANGED <<today, request, searched, offer, verified, ctx, agreed, sent>>
  BY DEF Check, Verified
<1>3. JobGiven'
  BY <1>1 DEF JobGiven
<1>4. OfferAsSearched' /\ BookingAsVerified' /\ AgreedCharge' /\ SelectionsPlaced'
  BY <1>2 DEF DataInv, OfferAsSearched, BookingAsVerified, AgreedCharge, SelectionsPlaced
<1> QED BY <1>2, <1>3, <1>4 DEF DataInv, Control, SentAsAccepted

(* What is sent was accepted on the day of its validation.                 *)
LEMMA SendKeepsInv ==
  ASSUME DataInv, Send
  PROVE  DataInv'
<1>1. /\ pc = "checked" /\ pc' \in {"ordered", "verified"} /\ Verified /\ Verified'
      /\ UNCHANGED <<today, request, searched, offer, verified, ctx, agreed>>
  BY DEF Send, Verified
<1>2. OfferAsSearched' /\ BookingAsVerified' /\ AgreedCharge' /\ SelectionsPlaced'
  BY <1>1 DEF DataInv, OfferAsSearched, BookingAsVerified, AgreedCharge, SelectionsPlaced
<1>3. CASE pc' = "ordered"
  <2>1. Acceptable(job.input, job.policy) /\ sent' = Payload /\ job' = job
    BY <1>3 DEF Send
  <2>2. today \in Nat \ {None} /\ sent'.day = today
    <3>1. today \in FirstDay..LastDay
      BY DEF DataInv, Control
    <3>2. sent'.day = today
      BY <2>1 DEF Payload
    <3> QED BY <3>1, <3>2, OrderDataAssumption DEF None
  <2>3. SeatSelected' <=> SeatSelected
    BY <1>1 DEF SeatSelected
  <2>4. SentAsAccepted'
    BY <1>1, <2>1, <2>2, <2>3 DEF SentAsAccepted, Payload, Acceptable
  <2>5. JobGiven'
    BY <1>1, <2>1 DEF DataInv, JobGiven
  <2> QED BY <1>1, <1>2, <2>4, <2>5 DEF DataInv, Control
<1>4. CASE pc' = "verified"
  BY <1>1, <1>2, <1>4 DEF DataInv, Control, JobGiven, SentAsAccepted
<1> QED BY <1>1, <1>3, <1>4

(* Midnight changes the date, and a step that changes nothing nothing.     *)
LEMMA MidnightKeepsInv ==
  ASSUME DataInv, Midnight \/ UNCHANGED vars
  PROVE  DataInv'
<1>1. UNCHANGED <<pc, request, searched, offer, verified, ctx, agreed, job, sent>>
  BY DEF Midnight, vars
<1>2. today' \in FirstDay..LastDay
  BY OrderDataAssumption DEF Midnight, vars, DataInv, Control
<1>3. OfferAsSearched' /\ BookingAsVerified' /\ AgreedCharge' /\ SelectionsPlaced' /\ JobGiven'
  BY <1>1 DEF DataInv, OfferAsSearched, BookingAsVerified, AgreedCharge, SelectionsPlaced,
    Verified, JobGiven
<1>4. SentAsAccepted'
  BY <1>1 DEF DataInv, SentAsAccepted, SeatSelected
<1> QED BY <1>1, <1>2, <1>3, <1>4 DEF DataInv, Control

(* The invariant holds throughout.                                         *)
LEMMA DataInvariant == Spec => []DataInv
<1>1. Init => DataInv
  BY OrderDataAssumption DEF Init, DataInv, Control, OfferAsSearched, BookingAsVerified,
    AgreedCharge, SelectionsPlaced, JobGiven, SentAsAccepted, Verified
<1>2. DataInv /\ [Next]_vars => DataInv'
  BY SearchKeepsInv, VerifyKeepsInv, ConfirmKeepsInv, SelectKeepsInv, RemoveKeepsInv,
    CheckKeepsInv, SendKeepsInv, MidnightKeepsInv DEF Next
<1> QED BY <1>1, <1>2, PTL DEF Spec


-----------------------------------------------------------------------------
(* The types: the totals are natural numbers, what is required of a        *)
(* passenger is named as the command names it, and the travelers of a      *)
(* booking have the types that were searched for.                          *)
THEOREM OrderDataTypeOK == Spec => []TypeOK
<1>1. DataInv => TypeOK
  <2> SUFFICES ASSUME DataInv PROVE TypeOK
    OBVIOUS
  <2>1. pc # "idle" =>
          /\ request \in Request /\ searched \in Routing
          /\ offer.total \in Nat /\ agreed \in Nat
    <3> SUFFICES ASSUME pc # "idle" PROVE offer.total \in Nat /\ agreed \in Nat
      BY DEF DataInv, OfferAsSearched
    <3>1. /\ request \in SearchRequest /\ searched \in RawRouting /\ Normal(searched, request)
          /\ offer = Offer(searched, request, offer.priceStatus)
      BY OrderDataAssumption DEF DataInv, OfferAsSearched
    <3>2. Charge(searched, request) \in Nat /\ Total(searched, request) \in Nat
      BY <3>1, TotalIsCharge
    <3>3. offer.total = Total(searched, request)
      BY <3>1 DEF Offer
    <3>4. Verified => Charge(verified.routing, request) \in Nat
      <4> SUFFICES ASSUME Verified PROVE Charge(verified.routing, request) \in Nat
        OBVIOUS
      <4>1. verified.routing \in RawRouting /\ Normal(verified.routing, request)
        BY OrderDataAssumption DEF DataInv, BookingAsVerified
      <4> QED BY <3>1, <4>1, TotalIsCharge
    <3> QED BY <3>2, <3>3, <3>4 DEF DataInv, AgreedCharge
  <2>2. pc = "idle" => agreed \in Nat
    BY DEF DataInv, Control
  <2>3. Verified =>
          /\ verified.routing \in Routing /\ verified.keys \subseteq Key
          /\ ctx.priceChange \in {"unchanged", "decreased", "increased"}
          /\ ctx.confirmed \in BOOLEAN
          /\ ctx.required \subseteq PublicField
          /\ ctx.travelers \in Seq(PassengerType)
          /\ ctx.supported \subseteq {"baggage", "seat"}
    BY OrderDataAssumption DEF DataInv, BookingAsVerified, Booking
  <2>4. pc \in {"checked", "ordered"} => job \in [input : Input, policy : Policy]
    BY DEF DataInv, JobGiven
  <2> QED BY <2>1, <2>2, <2>3, <2>4 DEF DataInv, Control, TypeOK
<1> QED BY <1>1, DataInvariant, PTL

-----------------------------------------------------------------------------
(* An offer that is no increase costs no more.                             *)
LEMMA NoIncrease ==
  ASSUME NEW old, NEW new, NEW a \in Nat, NEW b \in Nat, old.total = a, new.total = b,
         PriceChange(old, new) # "increased"
  PROVE  b <= a
<1>1. ~(new.total > old.total)
  BY DEF PriceChange
<1> QED BY <1>1

(* An order is requested only at a charge the user agreed to: the total of *)
(* a verification that is no rise over the total of the search is, counted *)
(* by passenger and fee unit, no rise over the charge of the search,       *)
(* whatever the flights, fee modes and separate tickets of the two.        *)
THEOREM OnlyAgreedPrices == Spec => []PriceAgreed
<1>1. DataInv => PriceAgreed
  <2> SUFFICES ASSUME DataInv, pc = "ordered"
               PROVE  Charge(verified.routing, request) <= agreed
    BY DEF PriceAgreed
  <2>1. /\ Verified /\ request \in SearchRequest
        /\ searched \in RawRouting /\ Normal(searched, request)
        /\ verified.routing \in RawRouting /\ Normal(verified.routing, request)
        /\ offer = Offer(searched, request, offer.priceStatus)
        /\ ctx.priceChange = PriceChange(offer, Offer(verified.routing, request, "verified"))
    BY OrderDataAssumption DEF DataInv, OfferAsSearched, BookingAsVerified, Verified
  <2>2. /\ Total(searched, request) = Charge(searched, request)
        /\ Charge(searched, request) \in Nat
        /\ Total(verified.routing, request) = Charge(verified.routing, request)
        /\ Charge(verified.routing, request) \in Nat
    BY <2>1, TotalIsCharge
  <2>3. CASE ctx.confirmed
    <3>1. agreed = Charge(verified.routing, request)
      BY <2>1, <2>3 DEF DataInv, AgreedCharge
    <3> QED BY <2>2, <3>1
  <2>4. CASE ~ctx.confirmed
    <3>1. agreed = Charge(searched, request)
      BY <2>1, <2>4 DEF DataInv, AgreedCharge
    <3>2. ctx.priceChange # "increased"
      BY <2>4 DEF DataInv, SentAsAccepted
    <3>3. /\ offer.total = Charge(searched, request)
          /\ Offer(verified.routing, request, "verified").total = Charge(verified.routing, request)
      BY <2>1, <2>2 DEF Offer
    <3>4. PriceChange(offer, Offer(verified.routing, request, "verified")) # "increased"
      BY <2>1, <3>2
    <3>5. Charge(verified.routing, request) <= Charge(searched, request)
      BY <2>2, <3>3, <3>4, NoIncrease
    <3> QED BY <3>1, <3>5
  <2> QED BY <2>3, <2>4
<1> QED BY <1>1, DataInvariant, PTL

-----------------------------------------------------------------------------
(* The passengers of the request.                                          *)

(* The size of an interval.                                                *)
LEMMA IntervalSize ==
  ASSUME NEW a \in Nat, NEW n \in Nat
  PROVE  IsFiniteSet((a + 1)..(a + n)) /\ Cardinality((a + 1)..(a + n)) = n
<1> DEFINE first == a + 1
           last == a + n
<1>1. first \in Int /\ last \in Int
  OBVIOUS
<1>2. n = (IF first > last THEN 0 ELSE last - first + 1)
  OBVIOUS
<1> HIDE DEF first, last
<1>3. /\ IsFiniteSet(first..last)
      /\ Cardinality(first..last) = IF first > last THEN 0 ELSE last - first + 1
  BY <1>1, FS_Interval
<1>4. Cardinality(first..last) = n
  BY <1>2, <1>3
<1> QED BY <1>3, <1>4 DEF first, last

(* The slots of a type are as many as were searched for.                   *)
LEMMA SlotsOfType ==
  ASSUME NEW r \in SearchRequest, NEW type \in PassengerType
  PROVE  LET S == {t \in 1..Party(r) : TravelerSlots(r)[t] = type}
         IN  IsFiniteSet(S) /\ Cardinality(S) = r[type]
<1> DEFINE S == {t \in 1..Party(r) : TravelerSlots(r)[t] = type}
<1>1. /\ r.adult \in Nat /\ r.child \in Nat /\ r.infant \in Nat
      /\ Party(r) = r.adult + r.child + r.infant
  BY PartyCounts
<1>2. \A t \in 1..Party(r) :
        TravelerSlots(r)[t] = CASE t <= r.adult          -> "adult"
                                [] t > r.adult + r.child -> "infant"
                                [] OTHER                 -> "child"
  BY DEF TravelerSlots
<1>3. CASE type = "adult"
  <2>1. S = (0 + 1)..(0 + r.adult)
    BY <1>1, <1>2, <1>3
  <2>2. IsFiniteSet((0 + 1)..(0 + r.adult)) /\ Cardinality((0 + 1)..(0 + r.adult)) = r.adult
    BY <1>1, IntervalSize
  <2> QED BY <1>3, <2>1, <2>2
<1>4. CASE type = "child"
  <2>1. S = (r.adult + 1)..(r.adult + r.child)
    BY <1>1, <1>2, <1>4
  <2>2. /\ IsFiniteSet((r.adult + 1)..(r.adult + r.child))
        /\ Cardinality((r.adult + 1)..(r.adult + r.child)) = r.child
    BY <1>1, IntervalSize
  <2> QED BY <1>4, <2>1, <2>2
<1>5. CASE type = "infant"
  <2> DEFINE a == r.adult + r.child
  <2>0. a \in Nat
    BY <1>1
  <2>1. S = (a + 1)..(a + r.infant)
    BY <1>1, <1>2, <1>5
  <2> HIDE DEF a
  <2>2. IsFiniteSet((a + 1)..(a + r.infant)) /\ Cardinality((a + 1)..(a + r.infant)) = r.infant
    BY <1>1, <2>0, IntervalSize
  <2> QED BY <1>5, <2>1, <2>2
<1> QED BY <1>3, <1>4, <1>5 DEF PassengerType

(* A key of the upstream is sent of a passenger who gave what it asks for. *)
LEMMA GivenIsSent ==
  ASSUME NEW p, NEW keys \in SUBSET Key, RequiredFields(keys) \subseteq Given(p)
  PROVE  keys \subseteq KeysSent(p)
<1> SUFFICES ASSUME NEW key \in keys PROVE key \in KeysSent(p)
  OBVIOUS
<1>1. FieldOf[key] \in Given(p) /\ key \in Key
  BY DEF RequiredFields
<1> QED BY <1>1 DEF Key, FieldOf, Given, AlwaysRequired, KeysSent

(* An input that validates names each traveler of the booking in one place.*)
LEMMA OnePlaceEach ==
  ASSUME NEW input, NEW required, NEW travelers, NEW day,
         Validates(input, required, travelers, day)
  PROVE  \E place \in [DOMAIN travelers -> DOMAIN input] :
           /\ \A t \in DOMAIN travelers : input[place[t]].traveler = t
           /\ \A i \in DOMAIN input :
                input[i].traveler \in DOMAIN travelers /\ place[input[i].traveler] = i
<1> DEFINE place == [t \in DOMAIN travelers |-> CHOOSE i \in DOMAIN input : input[i].traveler = t]
<1>1. {input[i].traveler : i \in DOMAIN input} = DOMAIN travelers
  BY DEF Validates
<1>2. \A i, j \in DOMAIN input : i # j => input[i].traveler # input[j].traveler
  BY DEF Validates
<1>3. ASSUME NEW t \in DOMAIN travelers
      PROVE  place[t] \in DOMAIN input /\ input[place[t]].traveler = t
  <2>1. \E i \in DOMAIN input : input[i].traveler = t
    BY <1>1
  <2> QED BY <2>1
<1>4. place \in [DOMAIN travelers -> DOMAIN input]
  BY <1>3
<1>5. ASSUME NEW i \in DOMAIN input
      PROVE  input[i].traveler \in DOMAIN travelers /\ place[input[i].traveler] = i
  <2>1. input[i].traveler \in DOMAIN travelers
    BY <1>1
  <2> HIDE DEF place
  <2> QED BY <1>2, <1>3, <2>1
<1> HIDE DEF place
<1> QED BY <1>3, <1>4, <1>5


-----------------------------------------------------------------------------
(* The payload.                                                            *)

(* Sets that a bijection relates have one size.                            *)
LEMMA SameSize ==
  ASSUME NEW S, NEW T, IsFiniteSet(S), NEW f \in [S -> T],
         \A a, b \in S : f[a] = f[b] => a = b,
         \A t \in T : \E s \in S : f[s] = t
  PROVE  Cardinality(T) = Cardinality(S)
<1>1. f \in Bijection(S, T)
  BY DEF Bijection, Injection, IsInjective, Surjection
<1>2. ExistsBijection(S, T)
  BY <1>1 DEF ExistsBijection
<1> QED BY <1>2, FS_Bijection

(* What the invariant says of an order that has been sent: its passengers  *)
(* are those of an input that validates against the searched party.        *)
LEMMA SentPassengers ==
  ASSUME DataInv, pc = "ordered"
  PROVE  /\ request \in SearchRequest /\ verified.routing \in RawRouting
         /\ verified.keys \in SUBSET Key /\ Verified /\ sent.day \in Nat \ {None}
         /\ DOMAIN TravelerSlots(request) = 1..Party(request)
         /\ Validates(job.input, RequiredFields(verified.keys), TravelerSlots(request), sent.day)
         /\ DOMAIN sent.passengers = DOMAIN job.input
         /\ \A i \in DOMAIN job.input :
              LET p == job.input[i]
              IN  /\ sent.passengers[i].traveler = p.traveler
                  /\ sent.passengers[i].passengerType = TypeCode[p.type]
                  /\ sent.passengers[i].keys = KeysSent(p)
                  /\ sent.passengers[i].birthday = p.birthday
                  /\ sent.passengers[i].cardExpired = p.document.expires
                  /\ sent.passengers[i].ancillaries =
                       {[product |-> s.product, index |-> s.index] :
                          s \in {s \in ctx.selections : s.traveler = p.traveler}}
<1>1. Verified
  BY DEF Verified
<1>2. /\ request \in SearchRequest /\ verified.routing \in RawRouting
      /\ verified.keys \in SUBSET Key
      /\ ctx.required = RequiredFields(verified.keys) /\ ctx.travelers = TravelerSlots(request)
  BY <1>1, OrderDataAssumption DEF DataInv, OfferAsSearched, BookingAsVerified
<1>3. /\ sent.passengers = OrderPassengers(job.input, ctx.selections)
      /\ sent.day \in Nat \ {None}
      /\ Validates(job.input, ctx.required, ctx.travelers, sent.day)
  <2>1. SentAsAccepted
    BY DEF DataInv
  <2>2. /\ sent.day \in Nat \ {None}
        /\ Validates(job.input, ctx.required, ctx.travelers, sent.day)
    BY <2>1, Zenon DEF SentAsAccepted
  <2> DEFINE seat == IF SeatSelected THEN SEAT_POLICIES[job.policy] ELSE ""
             passengers == OrderPassengers(job.input, ctx.selections)
  <2>3. sent = [passengers |-> passengers, ifSeatOccupied |-> seat, day |-> sent.day]
    BY <2>1, Zenon DEF SentAsAccepted
  <2> HIDE DEF passengers, seat
  <2>4. sent.passengers = passengers
    BY <2>3
  <2> QED BY <2>2, <2>4 DEF passengers
<1>4. DOMAIN TravelerSlots(request) = 1..Party(request)
  BY DEF TravelerSlots
<1>5. Validates(job.input, RequiredFields(verified.keys), TravelerSlots(request), sent.day)
  BY <1>2, <1>3, Zenon
<1> DEFINE Chosen(t) == {[product |-> s.product, index |-> s.index] :
                           s \in {s \in ctx.selections : s.traveler = t}}
           Item(p) == [ traveler |-> p.traveler, passengerType |-> TypeCode[p.type],
                        keys |-> KeysSent(p), birthday |-> p.birthday,
                        cardExpired |-> p.document.expires, ancillaries |-> Chosen(p.traveler) ]
<1>6. /\ DOMAIN sent.passengers = DOMAIN job.input
      /\ \A i \in DOMAIN job.input : sent.passengers[i] = Item(job.input[i])
  BY <1>3 DEF OrderPassengers
<1>7. \A i \in DOMAIN job.input :
        LET p == job.input[i]
        IN  /\ sent.passengers[i].traveler = p.traveler
            /\ sent.passengers[i].passengerType = TypeCode[p.type]
            /\ sent.passengers[i].keys = KeysSent(p)
            /\ sent.passengers[i].birthday = p.birthday
            /\ sent.passengers[i].cardExpired = p.document.expires
            /\ sent.passengers[i].ancillaries = Chosen(p.traveler)
  <2> TAKE i \in DOMAIN job.input
  <2> DEFINE p == job.input[i]
             keys == KeysSent(p)
             item == sent.passengers[i]
  <2>1. item = Item(p)
    BY <1>6, Zenon
  <2> HIDE DEF Chosen, item, p, keys
  <2>2. item = [ traveler |-> p.traveler, passengerType |-> TypeCode[p.type], keys |-> keys,
                 birthday |-> p.birthday, cardExpired |-> p.document.expires,
                 ancillaries |-> Chosen(p.traveler) ]
    BY <2>1, Zenon DEF keys
  <2>3. /\ item.traveler = p.traveler /\ item.passengerType = TypeCode[p.type]
        /\ item.keys = keys /\ item.birthday = p.birthday
        /\ item.cardExpired = p.document.expires /\ item.ancillaries = Chosen(p.traveler)
    BY <2>2
  <2> QED BY <2>3, Zenon DEF item, p, keys
<1> QED BY <1>1, <1>2, <1>3, <1>4, <1>5, <1>6, <1>7, Zenon

(* Every traveler of the party is in the request, once, under the type     *)
(* searched for, with what the upstream requires and with good dates.      *)
LEMMA PartyIsSent ==
  ASSUME DataInv, pc = "ordered"
  PROVE  PassengersComplete
<1> DEFINE ps == sent.passengers
           input == job.input
           slots == TravelerSlots(request)
<1>1. PICK place \in [DOMAIN slots -> DOMAIN input] :
        /\ \A t \in DOMAIN slots : input[place[t]].traveler = t
        /\ \A i \in DOMAIN input :
             input[i].traveler \in DOMAIN slots /\ place[input[i].traveler] = i
  BY SentPassengers, OnePlaceEach
<1>2. {ps[i].traveler : i \in DOMAIN ps} = 1..Party(request)
  BY SentPassengers DEF Validates
<1>3. ASSUME NEW type \in PassengerType
      PROVE  Cardinality({i \in DOMAIN ps : ps[i].passengerType = TypeCode[type]}) = request[type]
  <2> DEFINE S == {t \in 1..Party(request) : slots[t] = type}
             T == {i \in DOMAIN ps : ps[i].passengerType = TypeCode[type]}
             f == [t \in S |-> place[t]]
  <2>1. IsFiniteSet(S) /\ Cardinality(S) = request[type]
    BY SentPassengers, SlotsOfType
  <2>2. \A i \in DOMAIN input : input[i].type = slots[input[i].traveler]
    BY SentPassengers DEF Validates
  <2>3. \A t \in 1..Party(request) : slots[t] \in PassengerType
    BY DEF TravelerSlots, PassengerType
  <2>4. \A y \in PassengerType : TypeCode[y] = TypeCode[type] => y = type
    BY DEF TypeCode, PassengerType
  <2>5. T = {i \in DOMAIN input : slots[input[i].traveler] = type}
    BY SentPassengers, <1>1, <2>2, <2>3, <2>4
  <2> HIDE DEF T
  <2>6. f \in [S -> T]
    BY SentPassengers, <1>1, <2>5
  <2>7. \A a, b \in S : f[a] = f[b] => a = b
    BY SentPassengers, <1>1
  <2>8. \A i \in T : \E t \in S : f[t] = i
    <3> SUFFICES ASSUME NEW i \in T PROVE input[i].traveler \in S /\ f[input[i].traveler] = i
      OBVIOUS
    <3> QED BY SentPassengers, <1>1, <2>5
  <2> HIDE DEF S, f
  <2>9. Cardinality(T) = Cardinality(S)
    BY <2>1, <2>6, <2>7, <2>8, SameSize
  <2> QED BY <2>1, <2>9 DEF T
<1>4. ASSUME NEW i \in DOMAIN ps
      PROVE  /\ verified.keys \subseteq ps[i].keys
             /\ ps[i].birthday < sent.day
             /\ ps[i].cardExpired # None => sent.day < ps[i].cardExpired
  <2>1. /\ RequiredFields(verified.keys) \subseteq Given(input[i])
        /\ DatesGood(input[i], sent.day)
    BY SentPassengers DEF Validates
  <2>2. verified.keys \subseteq KeysSent(input[i])
    BY <2>1, SentPassengers, GivenIsSent
  <2>3. /\ input[i].birthday < sent.day
        /\ input[i].document.expires # None => sent.day < input[i].document.expires
    BY <2>1, SentPassengers DEF DatesGood, None
  <2> QED BY <2>2, <2>3, SentPassengers
<1> QED BY <1>2, <1>3, <1>4 DEF PassengersComplete

(* Every selection is in the request, once: its traveler has one place,    *)
(* and no two selections of a traveler are of one product and index.       *)
LEMMA SelectionsAreSent ==
  ASSUME DataInv, pc = "ordered"
  PROVE  AncillariesPlaced
<1> DEFINE ps == sent.passengers
           input == job.input
           slots == TravelerSlots(request)
           flights == Flights(verified.routing)
           Placed(i) == {<<i, a>> : a \in ps[i].ancillaries}
           U == UNION {Placed(i) : i \in DOMAIN ps}
<1>1. PICK place \in [DOMAIN slots -> DOMAIN input] :
        /\ \A t \in DOMAIN slots : input[place[t]].traveler = t
        /\ \A i \in DOMAIN input :
             input[i].traveler \in DOMAIN slots /\ place[input[i].traveler] = i
  BY SentPassengers, OnePlaceEach
<1>2. /\ IsFiniteSet(ctx.selections)
      /\ \A sel \in ctx.selections :
           /\ sel.flight = flights[sel.index]
           /\ sel.traveler \in DOMAIN slots
           /\ flights[sel.index] = FlightOf[sel.product]
           /\ ProductKind[sel.product] \in ctx.supported
  BY SentPassengers DEF DataInv, SelectionsPlaced
<1>3. /\ ctx.selections \subseteq Selection
      /\ ctx.supported = AncillarySupported(searched) \cap AncillarySupported(verified.routing)
  BY SentPassengers DEF DataInv, BookingAsVerified, Booking
<1>4. \A i \in DOMAIN ps : \A a \in ps[i].ancillaries : \E sel \in ctx.selections :
        sel.traveler = input[i].traveler /\ a = [product |-> sel.product, index |-> sel.index]
  BY SentPassengers
<1>5. \A sel \in ctx.selections :
        /\ place[sel.traveler] \in DOMAIN ps
        /\ [product |-> sel.product, index |-> sel.index] \in ps[place[sel.traveler]].ancillaries
  BY SentPassengers, <1>1, <1>2
<1>6. Cardinality(U) = Cardinality(ctx.selections)
  <2> DEFINE f == [sel \in ctx.selections |->
                     <<place[sel.traveler], [product |-> sel.product, index |-> sel.index]>>]
  <2>1. f \in [ctx.selections -> U]
    <3> SUFFICES ASSUME NEW sel \in ctx.selections
                 PROVE  <<place[sel.traveler], [product |-> sel.product, index |-> sel.index]>> \in U
      OBVIOUS
    <3> DEFINE i == place[sel.traveler]
               a == [product |-> sel.product, index |-> sel.index]
    <3>1. i \in DOMAIN ps /\ a \in ps[i].ancillaries
      BY <1>5
    <3> HIDE DEF i, a
    <3>2. <<i, a>> \in Placed(i)
      BY <3>1
    <3>3. <<i, a>> \in U
      BY <3>1, <3>2
    <3> QED BY <3>3 DEF i, a
  <2>2. ASSUME NEW r \in ctx.selections, NEW s \in ctx.selections, f[r] = f[s]
        PROVE  r = s
    <3>1. place[r.traveler] = place[s.traveler] /\ r.product = s.product /\ r.index = s.index
      <4>1. /\ [product |-> r.product, index |-> r.index].product
                 = [product |-> s.product, index |-> s.index].product
            /\ [product |-> r.product, index |-> r.index].index
                 = [product |-> s.product, index |-> s.index].index
        BY <2>2
      <4> QED BY <2>2, <4>1
    <3>2. r.traveler = s.traveler
      BY <1>1, <1>2, <3>1
    <3>3. r.flight = s.flight
      BY <1>2, <3>1
    <3> QED BY <1>3, <3>1, <3>2, <3>3 DEF Selection
  <2>3. ASSUME NEW u \in U PROVE \E sel \in ctx.selections : f[sel] = u
    <3>1. PICK i \in DOMAIN ps : u \in Placed(i)
      BY <2>3
    <3>2. PICK a \in ps[i].ancillaries : u = <<i, a>>
      BY <3>1
    <3>3. PICK sel \in ctx.selections :
            sel.traveler = input[i].traveler /\ a = [product |-> sel.product, index |-> sel.index]
      BY <1>4
    <3>4. place[sel.traveler] = i
      BY <1>1, <3>3, SentPassengers
    <3> QED BY <3>2, <3>3, <3>4
  <2> HIDE DEF f, U
  <2> QED BY <1>2, <2>1, <2>2, <2>3, SameSize
<1>7. ASSUME NEW i \in DOMAIN ps, NEW a \in ps[i].ancillaries
      PROVE  /\ flights[a.index] = FlightOf[a.product]
             /\ ProductKind[a.product]
                  \in AncillarySupported(searched) \cap AncillarySupported(verified.routing)
             /\ \E sel \in ctx.selections :
                  sel.product = a.product /\ sel.traveler = ps[i].traveler
             /\ ProductKind[a.product] = "seat" => sent.ifSeatOccupied # ""
  <2>1. PICK sel \in ctx.selections :
          sel.traveler = input[i].traveler /\ a = [product |-> sel.product, index |-> sel.index]
    BY <1>4
  <2>2. a.product = sel.product /\ a.index = sel.index
    BY <2>1
  <2>3. ASSUME ProductKind[a.product] = "seat" PROVE sent.ifSeatOccupied # ""
    <3>1. SeatSelected
      BY <2>2, <2>3 DEF SeatSelected
    <3>2. job.policy \in DOMAIN SEAT_POLICIES /\ sent.ifSeatOccupied = SEAT_POLICIES[job.policy]
      BY <3>1 DEF DataInv, SentAsAccepted
    <3> QED BY <3>2 DEF SEAT_POLICIES
  <2>4. ps[i].traveler = input[i].traveler
    BY SentPassengers
  <2> QED BY <1>2, <1>3, <2>1, <2>2, <2>3, <2>4
<1> QED BY <1>6, <1>7 DEF AncillariesPlaced

(* The payload of an order names every traveler of the search and every    *)
(* selection of the booking once and as the upstream needs it, in whatever *)
(* order the input came, and is never for a flight of FR.                  *)
THEOREM PayloadIsFaithful == Spec => []PayloadFaithful
<1>1. DataInv => PayloadFaithful
  <2> SUFFICES ASSUME DataInv, pc = "ordered"
               PROVE  /\ PassengersComplete /\ AncillariesPlaced
                      /\ ~RejectsFR(Flights(verified.routing))
    BY DEF PayloadFaithful
  <2>1. ~RejectsFR(Flights(verified.routing))
    BY DEF DataInv, BookingAsVerified, Verified
  <2> QED BY <2>1, PartyIsSent, SelectionsAreSent
<1> QED BY <1>1, DataInvariant, PTL
=============================================================================
