--------------------------- MODULE BusinessStatus ---------------------------
(***************************************************************************)
(* What the status of a business answer means at the stages of a booking   *)
(* whose commands act on it (business_status.py): listing ancillaries,     *)
(* creating an order and paying for it.  Of a meaning its class is kept,   *)
(* and whether the side effect of the request is uncertain.  An HTTP call  *)
(* that yields no business status is a negative number.                    *)
(***************************************************************************)
EXTENDS Integers

NoResponse == -1     \* SERVICE_TEMPORARILY_UNAVAILABLE: network error, 429, 5xx
Rejected == -2       \* CREDENTIAL_REJECTED: 401, or business status 900
Malformed == -3      \* SERVICE_RESPONSE_INVALID, or another HTTP status
Unlisted == 999      \* a status the table does not know

RetryableStatus ==
  [baggage |-> {205, 299, 429, 9999}, seat |-> {216, 217, 429}, order |-> {}, pay |-> {}]

SuccessStatus ==
  [baggage |-> {214}, seat |-> {218, 219, 221, 223, 225}, order |-> {}, pay |-> {406, 615}]

ActionStatus ==
  [baggage |-> {}, seat |-> {},
   order |-> {308, 309, 318, 320, 322, 323, 327, 328, 330, 407, 408, 409, 410},
   pay |-> {402, 404, 411}]

TerminalStatus ==
  [baggage |-> {212}, seat |-> {214, 215, 220},
   order |-> 301..305 \cup {307, 310, 312, 313, 315, 316, 317, 319, 321, 324, 325, 326, 329},
   pay |-> {400, 401, 403, 407, 408, 409, 410, 412, 413, 414, 415}]

Known(stage) ==
  RetryableStatus[stage] \cup SuccessStatus[stage] \cup ActionStatus[stage]
    \cup TerminalStatus[stage]

(* What a call of the stage may return instead of a success.               *)
Failure(stage) == Known(stage) \cup {NoResponse, Rejected, Malformed, Unlisted}

(* BAGGAGE_UNAVAILABLE and SEAT_UNAVAILABLE: every retryable status of the *)
(* stage, and every one that the table counts as a success.                *)
Unavailable(stage) == RetryableStatus[stage] \cup SuccessStatus[stage]

UncertainStatus == [order |-> {318, 330}, pay |-> {411}]

(* Mistake: an unknown status read as a refusal.                           *)
UncertainIfListed(stage, status) == status \in UncertainStatus[stage]

(* map_business_status: an unknown status of a request that has an effect  *)
(* leaves the effect uncertain.                                            *)
SideEffectUncertain(stage, status) ==
  \/ status \in UncertainStatus[stage]
  \/ status \notin Known(stage)

=============================================================================
