----------------------------- MODULE AtomicStore -----------------------------
(***************************************************************************)
(* What a store of records promises to any number of callers: each call    *)
(* that changes something changes one record, at one moment, as the call   *)
(* promises for the record as it is at that moment; a call that raises, or *)
(* whose process dies, did so either then or never; and a record is never  *)
(* lost.                                                                   *)
(***************************************************************************)
CONSTANTS
  Key,            (* the names of the records                               *)
  Absent,         (* no record of that name                                 *)
  Created(_),     (* what a new record may be                               *)
  Called(_, _)    (* what a call may make of a record                       *)

VARIABLE records

Init == records = [k \in Key |-> Absent]

Call(k) ==
  /\ records' = [records EXCEPT ![k] = records'[k]]
  /\ records'[k] # Absent
  /\ IF records[k] = Absent THEN Created(records'[k]) ELSE Called(records[k], records'[k])

Next == \E k \in Key : Call(k)

Spec == Init /\ [][Next]_records

=============================================================================
