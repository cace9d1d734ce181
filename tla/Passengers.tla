----------------------------- MODULE Passengers -----------------------------
(***************************************************************************)
(* The passengers that the user gives for an order, what the booking asks  *)
(* of them, and the passengers of the order request (passengers.py; the    *)
(* requirements of the booking: verify.py).                                *)
(*                                                                         *)
(* A passenger names a traveler (a place in the slots of the booking) and  *)
(* a type, and may give a birthday, a nationality and a document; name and *)
(* gender are always there, and the formats of the texts are left out.     *)
(* Dates are days; a document has a type and a number.                     *)
(***************************************************************************)
EXTENDS Naturals, Sequences

None == 0     \* a date that is not given: days count from 1

NoDocument == [held |-> FALSE, country |-> FALSE, expires |-> None]

(* REQUIREMENT_FIELDS: the upstream's key of a field, and the command's.   *)
FieldOf ==
  [ name |-> "name", passengerType |-> "passenger_type", gender |-> "gender",
    birthday |-> "birthday", cardType |-> "document.type",
    cardNum |-> "document.number", cardIssuePlace |-> "document.issuing_country",
    cardExpired |-> "document.expires", nationality |-> "nationality" ]

Key == DOMAIN FieldOf

AlwaysRequired == {"name", "passenger_type", "gender"}

(* A mistake: the keys are kept as the upstream names them.               *)
KeysUntranslated(keys) == AlwaysRequired \cup keys

(* normalize_requirements, of the keys that the upstream requires.         *)
RequiredFields(keys) == AlwaysRequired \cup {FieldOf[key] : key \in keys}

(* _required_value is not None *)
Given(p) ==
  AlwaysRequired
    \cup {f \in {"birthday"} : p.birthday # None}
    \cup {f \in {"nationality"} : p.nationality}
    \cup {f \in {"document.type", "document.number"} : p.document.held}
    \cup {f \in {"document.issuing_country"} : p.document.country}
    \cup {f \in {"document.expires"} : p.document.expires # None}

DatesGood(p, today) ==
  /\ p.birthday # None => p.birthday < today
  /\ p.document.expires # None => p.document.expires > today

(* A mistake: a traveler may be given twice.                               *)
ValidateCoverOnly(input, required, travelers, today) ==
  /\ {input[i].traveler : i \in DOMAIN input} = DOMAIN travelers
  /\ \A i \in DOMAIN input :
       /\ input[i].type = travelers[input[i].traveler]
       /\ required \subseteq Given(input[i])
       /\ DatesGood(input[i], today)

(* validate_requirements raises nothing *)
Validates(input, required, travelers, today) ==
  /\ {input[i].traveler : i \in DOMAIN input} = DOMAIN travelers
  /\ \A i, j \in DOMAIN input : i # j => input[i].traveler # input[j].traveler
  /\ \A i \in DOMAIN input :
       /\ input[i].type = travelers[input[i].traveler]
       /\ required \subseteq Given(input[i])
       /\ DatesGood(input[i], today)

(* The keys that to_order_payload sends of a passenger.                    *)
KeysSent(p) ==
  {"name", "passengerType", "gender"}
    \cup {k \in {"birthday"} : p.birthday # None}
    \cup {k \in {"cardType", "cardNum"} : p.document.held}
    \cup {k \in {"cardIssuePlace"} : p.document.country}
    \cup {k \in {"cardExpired"} : p.document.expires # None}
    \cup {k \in {"nationality"} : p.nationality}

TypeCode == [adult |-> 0, child |-> 1, infant |-> 2]

(* to_order_payload; the traveler is in the place of the name.             *)
OrderPassengers(input, selections) ==
  [i \in DOMAIN input |->
     [ traveler |-> input[i].traveler,
       passengerType |-> TypeCode[input[i].type],
       keys |-> KeysSent(input[i]),
       birthday |-> input[i].birthday,
       cardExpired |-> input[i].document.expires,
       ancillaries |-> {[product |-> s.product, index |-> s.index] :
                          s \in {s \in selections : s.traveler = input[i].traveler}} ]]

=============================================================================
