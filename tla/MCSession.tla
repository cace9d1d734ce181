------------------------------ MODULE MCSession ------------------------------
(***************************************************************************)
(* An instance of Session for TLC.                                         *)
(***************************************************************************)
EXTENDS Session, FiniteSets, TLC

Begun(P) == {p \in P : pc[p] # "start"}

(* Any two of the commands with both logins, or a command, `auth refresh`  *)
(* and a poll with one.                                                    *)
MCBound ==
  \/ Cardinality(Begun(Process)) <= 2
  \/ Cardinality(Begun(Poller)) <= 1 /\ started <= 1

-----------------------------------------------------------------------------
(* States are told apart by what a command may still read of its memory    *)
(* and by the tokens and logins that somebody holds: no later step, and no *)
(* property of the run, reads the rest.                                    *)

Saving == {"granted", "saving"}

Calling == {"sending", "waiting", "refused", "refreshing", "denied", "retrying"} \cup Saving

Memory(p) ==
  IF pc[p] = "over" THEN <<>>
  ELSE << pc[p], login[p],
          IF pc[p] \in {"refreshing"} \cup Saving THEN seen[p] ELSE NoCredentials,
          IF pc[p] \in {"storing"} \cup Saving THEN fresh[p] ELSE Nobody,
          IF pc[p] \in Calling THEN <<used[p], refused[p]>> ELSE <<>> >>

(* The tokens and logins somebody holds: no request names any other.       *)
Held(p) ==
  (IF pc[p] \in Calling THEN {used[p]} ELSE {})
    \cup (IF pc[p] \in {"storing"} \cup Saving THEN {fresh[p]} ELSE {})

Tokens ==
  UNION {Held(p) : p \in Process} \cup {c.token : c \in {credentials} \cap Credentials}

Logins ==
  {l.id : l \in ({pending} \cup {login[p] : p \in {q \in Poller : pc[q] # "over"}}) \ {NoPending}}

(* Commands of a kind, of which there are at most two, are interchangeable.*)
MCView ==
  << keyring, issued, started, live \cap Tokens,
     approved \cap Logins, lapsed \cap Logins, delivered \cap Logins,
     {Memory(p) : p \in Poller}, {Memory(p) : p \in Caller}, {Memory(p) : p \in Refresher} >>

=============================================================================
