---------------------------- MODULE MCOrderData -----------------------------
(***************************************************************************)
(* An instance of OrderData for TLC: parties of up to three, routings that *)
(* differ in flights, fare, fee mode and separate bookings, two days, and  *)
(* inputs with every kind of gap, wrong type, doubled, unknown or missing  *)
(* traveler.                                                               *)
(***************************************************************************)
EXTENDS OrderData

MCRequest ==
  {[adult |-> a, child |-> 0, infant |-> 0] : a \in 1..2}
    \cup {[adult |-> 1, child |-> 1, infant |-> 1]}

out == [number |-> 1, carrier |-> "AA", operating |-> "AA"]
connection == [number |-> 2, carrier |-> "AA", operating |-> "BB"]
back == [number |-> 3, carrier |-> "BB", operating |-> "BB"]
ryanair == [number |-> 4, carrier |-> "FR", operating |-> "FR"]
codeshare == [number |-> 5, carrier |-> "AA", operating |-> "FR"]

(* A child flies for 5, an infant for 0, each with a tax of 1; the last    *)
(* routing has no fare for children, and four cannot be offered.           *)
Quote(outbound, inbound, adult, fee, mode, separate, ancillaries) ==
  [ currency |-> "EUR", fare |-> [adult |-> adult, child |-> 5, infant |-> 0],
    tax |-> [type \in PassengerType |-> 1], fee |-> fee, mode |-> mode,
    separate |-> separate, outbound |-> outbound, inbound |-> inbound,
    ancillaries |-> ancillaries ]

Both == {"luggage", "seat", "lounge"}

MCRouting ==
  { Quote(<<out>>, <<back>>, 10, 2, "PER_PAX", FALSE, Both),
    Quote(<<out>>, <<back>>, 9, 2, "PER_PAX", FALSE, Both),
    Quote(<<out>>, <<back>>, 10, 2, "PER_SEGMENT", FALSE, Both),
    Quote(<<out, connection>>, <<back>>, 10, 2, "PER_SEGMENT", FALSE, {"luggage"}),
    Quote(<<out>>, <<back>>, 10, 2, "PER_TICKET", FALSE, Both),
    Quote(<<out>>, <<back>>, 10, 2, "PER_TICKET", TRUE, Both),
    Quote(<<out>>, <<back>>, 10, 2, "PER_BOOKING", TRUE, Both),
    Quote(<<out>>, <<>>, 10, 2, "PER_MILE", FALSE, Both),
    Quote(<<out>>, <<codeshare>>, 10, 2, "PER_PAX", FALSE, Both),
    Quote(<<ryanair>>, <<back>>, 10, 2, "PER_PAX", FALSE, Both),
    [Quote(<<out>>, <<>>, 10, 2, "PER_BOOKING", FALSE, {"seat"})
       EXCEPT !.fare["child"] = Unreadable] }

MCKeySet == { {"birthday", "nationality"}, {"cardType", "cardNum", "cardIssuePlace", "cardExpired"} }

(* Complete; complete until midnight; no papers; born today, no country.   *)
Passenger(t, y, b, n, d) ==
  [traveler |-> t, type |-> y, birthday |-> b, nationality |-> n, document |-> d]

Papers(country, expires) == [held |-> TRUE, country |-> country, expires |-> expires]

Complete(t, y) == Passenger(t, y, 1, TRUE, Papers(TRUE, 4))

Candidates(t, y) ==
  { Complete(t, y), Passenger(t, y, 1, TRUE, Papers(TRUE, 3)),
    Passenger(t, y, 1, TRUE, NoDocument), Passenger(t, y, 2, TRUE, Papers(FALSE, 4)) }

Candidate == UNION {Candidates(t, y) : t \in 1..2, y \in PassengerType}

MCInput ==
  {<<a>> : a \in Candidate}
    \cup {<<Complete(t, y), b>> : t \in 1..2, y \in PassengerType, b \in Candidate}
    \cup {<<Complete(2, "child"), Complete(t, "infant"), Complete(1, "adult")>> : t \in 1..3}

MCPolicy == {"", "cancel-order"}

MCProduct == {"bag", "seat"}
MCProductKind == [p \in MCProduct |-> IF p = "seat" THEN "seat" ELSE "baggage"]
MCFlightOf == [p \in MCProduct |-> IF p = "bag" THEN back ELSE out]

=============================================================================
