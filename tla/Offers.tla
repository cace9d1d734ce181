------------------------------- MODULE Offers -------------------------------
(***************************************************************************)
(* What the commands make of a routing of the upstream, in a search and in *)
(* the verification of an offer: the flights in their order, the price for *)
(* the whole party (routing_normalizer.py), and the travelers and segments *)
(* of the booking it becomes (verify.py).                                  *)
(*                                                                         *)
(* A raw routing has: the currency; the fare and tax of each passenger     *)
(* type; transactionFee, its mode and separateBookings; the outbound and   *)
(* inbound flights (fromSegments, retSegments), each with its marketing    *)
(* and operating carrier; and ancillarySupported.  Amounts are in the      *)
(* smallest unit; one that is no number, or is negative, is Unreadable.    *)
(* The code adds Decimals but hands subtotals and totals on as floats;     *)
(* integers stand for both, which is exact for amounts of up to fifteen    *)
(* digits: these come back from a float unchanged.                         *)
(***************************************************************************)
EXTENDS Integers, Sequences

PassengerType == {"adult", "child", "infant"}

Unreadable == -1

FeeMode == {"PER_PAX", "PER_SEGMENT", "PER_TICKET", "PER_BOOKING"}

Amount == Nat \cup {Unreadable}

Flight == [number : Nat, carrier : STRING, operating : STRING]

RawRouting ==
  [ currency : STRING, fare : [PassengerType -> Amount], tax : [PassengerType -> Amount],
    fee : Amount, mode : STRING, separate : BOOLEAN,
    outbound : Seq(Flight), inbound : Seq(Flight), ancillaries : SUBSET STRING ]

SearchRequest ==
  {r \in [adult : 1..9, child : 0..8, infant : 0..9] :
     r.adult + r.child <= 9 /\ r.infant <= r.adult}

Party(r) == r.adult + r.child + r.infant

Flights(raw) == raw.outbound \o raw.inbound

RejectsFR(flights) ==
  \E i \in DOMAIN flights : "FR" \in {flights[i].carrier, flights[i].operating}

(* normalize() raises no ValueError: only the amounts of the types that    *)
(* travel are read.                                                        *)
Normal(raw, r) ==
  /\ raw.outbound # <<>>
  /\ raw.fee # Unreadable /\ raw.mode \in FeeMode
  /\ \A type \in PassengerType :
       r[type] > 0 => raw.fare[type] # Unreadable /\ raw.tax[type] # Unreadable

(* A mistake: the fee of a segment charged once for each passenger.        *)
FeeOfOneSegment(raw, r, segments) ==
  raw.fee * CASE raw.mode \in {"PER_PAX", "PER_SEGMENT"} -> Party(r)
              [] raw.mode = "PER_TICKET" -> Party(r) * IF raw.separate THEN 2 ELSE 1
              [] OTHER                   -> 1

FeeTotal(raw, r, segments) ==
  raw.fee * CASE raw.mode = "PER_PAX"     -> Party(r)
              [] raw.mode = "PER_SEGMENT" -> Party(r) * segments
              [] raw.mode = "PER_TICKET"  -> Party(r) * IF raw.separate THEN 2 ELSE 1
              [] OTHER                    -> 1

Subtotal(raw, r, type) ==
  IF r[type] = 0 THEN 0 ELSE (raw.fare[type] + raw.tax[type]) * r[type]

Total(raw, r) ==
  Subtotal(raw, r, "adult") + Subtotal(raw, r, "child") + Subtotal(raw, r, "infant")
    + FeeTotal(raw, r, Len(Flights(raw)))

AncillarySupported(raw) ==
  {kind \in {"baggage", "seat"} :
     (IF kind = "baggage" THEN "luggage" ELSE "seat") \in raw.ancillaries}

(* NormalizedOffer *)
Offer(raw, r, priceStatus) ==
  [ currency |-> raw.currency, total |-> Total(raw, r), flights |-> Flights(raw),
    supported |-> AncillarySupported(raw), priceStatus |-> priceStatus ]

(* _traveler_slots: adults first, then children, then infants; the place   *)
(* of a slot stands for its random traveler_id.                            *)
TravelerSlots(r) ==
  [i \in 1..Party(r) |-> CASE i <= r.adult           -> "adult"
                           [] i > r.adult + r.child -> "infant"
                           [] OTHER                 -> "child"]

(* _segment_slots: indices run through both directions, from 1.            *)
SegmentSlots(flights) == {[index |-> i, flight |-> flights[i]] : i \in DOMAIN flights}

=============================================================================
