-------------------------- MODULE SearchStore_proofs --------------------------
(***************************************************************************)
(* Theorems about SearchStore, for any history limit, routes and offers:   *)
(* the latest searches are the ones in the file, and each of them, unless  *)
(* its save raised, has its secret in the keyring.                         *)
(*                                                                         *)
(* The argument: identifiers grow along the file, so the one search a save *)
(* adds is distinct from all others, and a clear, of it or of the evicted  *)
(* ones, touches no search that the file still names.                      *)
(***************************************************************************)
EXTENDS SearchStore, SequenceTheorems, TLAPS

Ordered ==
  \A i, j \in 1..Len(searches) : i < j => searches[i].id < searches[j].id

IdsIssued == \A i \in 1..Len(searches) : searches[i].id <= issued

Bound ==
  \A i \in 1..Len(searches) :
    searches[i].id \notin misreported => SecretOf(searches[i]) \in keyring

TxnSound ==
  txn # NoTxn =>
    /\ txn.search.id <= issued
    /\ txn.stage \in {"save", "write"} =>
         \A i \in 1..Len(searches) : searches[i].id < txn.search.id
    /\ txn.stage = "write" => SecretOf(txn.search) \in keyring
    /\ txn.stage = "undo" =>
         \A i \in 1..Len(searches) : searches[i].id = txn.search.id => searches[i].id \in misreported
    /\ txn.stage = "clear" =>
         \A i \in 1..Len(searches) : searches[i].id \notin txn.evicted

SearchInv ==
  /\ TypeOK
  /\ HistoryIsLatest
  /\ Ordered
  /\ IdsIssued
  /\ Bound
  /\ TxnSound

-----------------------------------------------------------------------------
(* The latest elements of a sequence.                                      *)

(* Newest keeps the elements at the end, at most HistoryLimit of them.     *)
LEMMA NewestProperties ==
  ASSUME NEW S, NEW h \in Seq(S)
  PROVE  /\ Newest(h) \in Seq(S)
         /\ Len(Newest(h)) = IF Len(h) > HistoryLimit THEN HistoryLimit ELSE Len(h)
         /\ \A i \in 1..Len(Newest(h)) : Newest(h)[i] = h[Len(h) - Len(Newest(h)) + i]
<1>0. Len(h) \in Nat /\ HistoryLimit \in Nat \ {0}
  BY LenProperties, SearchAssumption
<1>1. CASE Len(h) > HistoryLimit
  <2> DEFINE m == Len(h) - HistoryLimit + 1
  <2>1. m \in Int /\ Len(h) \in Int /\ m <= Len(h) /\ m >= 1
    BY <1>0, <1>1
  <2>2. \A i \in m..Len(h) : h[i] \in S
    BY <1>0, <2>1, ElementOfSeq
  <2>3. /\ SubSeq(h, m, Len(h)) \in Seq(S)
        /\ Len(SubSeq(h, m, Len(h))) = Len(h) - m + 1
        /\ \A i \in 1..(Len(h) - m + 1) : SubSeq(h, m, Len(h))[i] = h[m + i - 1]
    BY <2>1, <2>2, SubSeqProperties
  <2>4. Newest(h) = SubSeq(h, m, Len(h))
    BY <1>1 DEF Newest
  <2>5. Len(h) - m + 1 = HistoryLimit
    BY <1>0
  <2>6. \A i \in 1..HistoryLimit : m + i - 1 = Len(h) - HistoryLimit + i
    BY <1>0
  <2> HIDE DEF m
  <2> QED BY <1>1, <2>3, <2>4, <2>5, <2>6
<1>2. CASE ~(Len(h) > HistoryLimit)
  BY <1>0, <1>2 DEF Newest
<1> QED BY <1>1, <1>2

(* Bounding a bounded history once more is bounding the whole of it.       *)
LEMMA NewestAppend ==
  ASSUME NEW S, NEW h \in Seq(S), NEW x \in S
  PROVE  Newest(Append(Newest(h), x)) = Newest(Append(h, x))
<1> DEFINE a == Append(Newest(h), x)
           b == Append(h, x)
<1>0. Len(h) \in Nat /\ HistoryLimit \in Nat \ {0} /\ Newest(h) \in Seq(S) /\ Len(Newest(h)) \in Nat
  BY LenProperties, SearchAssumption, NewestProperties
<1>1. a \in Seq(S) /\ b \in Seq(S) /\ Len(a) = Len(Newest(h)) + 1 /\ Len(b) = Len(h) + 1
  BY <1>0
<1>2. \A i \in 1..Len(a) : a[i] = IF i = Len(a) THEN x ELSE Newest(h)[i]
  BY <1>0, <1>1
<1>3. \A i \in 1..Len(b) : b[i] = IF i = Len(b) THEN x ELSE h[i]
  BY <1>0, <1>1
<1> HIDE DEF a, b
<1>4. Len(Newest(h)) = IF Len(h) > HistoryLimit THEN HistoryLimit ELSE Len(h)
  BY NewestProperties
<1>5. /\ Newest(a) \in Seq(S) /\ Newest(b) \in Seq(S)
      /\ Len(Newest(a)) = IF Len(a) > HistoryLimit THEN HistoryLimit ELSE Len(a)
      /\ Len(Newest(b)) = IF Len(b) > HistoryLimit THEN HistoryLimit ELSE Len(b)
  BY <1>1, NewestProperties
<1>6. Len(Newest(a)) = Len(Newest(b)) /\ Len(Newest(a)) \in Nat /\ Len(Newest(a)) <= Len(a)
  BY <1>0, <1>1, <1>4, <1>5
<1>7. ASSUME NEW i \in 1..Len(Newest(a))
      PROVE  Newest(a)[i] = Newest(b)[i]
  <2> DEFINE j == Len(a) - Len(Newest(a)) + i
             k == Len(b) - Len(Newest(b)) + i
  <2>1. Newest(a)[i] = a[j] /\ Newest(b)[i] = b[k]
    BY <1>1, <1>6, NewestProperties
  <2>2. j \in 1..Len(a) /\ k \in 1..Len(b) /\ (j = Len(a) <=> k = Len(b))
    <3>1. i \in Nat /\ 1 <= i /\ i <= Len(Newest(a)) /\ i <= Len(Newest(b))
      BY <1>6
    <3>2. Len(a) \in Nat /\ Len(b) \in Nat /\ Len(Newest(b)) \in Nat /\ Len(Newest(b)) <= Len(b)
      BY <1>0, <1>1, <1>5, <1>6
    <3> QED BY <1>6, <3>1, <3>2
  <2>3. CASE j = Len(a)
    BY <1>2, <1>3, <2>1, <2>2, <2>3
  <2>4. CASE j # Len(a)
    <3>1. j \in Int /\ 1 <= j /\ j <= Len(Newest(h))
      <4>1. j \in Int /\ 1 <= j /\ j <= Len(a)
        BY <2>2
      <4> HIDE DEF j
      <4> QED BY <1>0, <1>1, <2>4, <4>1
    <3>2. i \in Int /\ Len(Newest(a)) \in Int /\ Len(Newest(b)) = Len(Newest(a))
      BY <1>6
    <3>3. k = Len(h) - Len(Newest(h)) + j
      BY <1>0, <1>1, <3>2
    <3>4. Newest(h)[j] = h[k]
      <4>1. j \in 1..Len(Newest(h))
        BY <1>0, <3>1
      <4>2. Newest(h)[j] = h[Len(h) - Len(Newest(h)) + j]
        BY <4>1, NewestProperties
      <4> QED BY <3>3, <4>2
    <3> QED BY <1>2, <1>3, <2>1, <2>2, <2>4, <3>4
  <2> QED BY <2>3, <2>4
<1> QED BY <1>5, <1>6, <1>7, SeqEqual DEF a, b

-----------------------------------------------------------------------------
(* The invariant.                                                          *)

(* A secret carries the identifier of its search.                          *)
LEMMA SecretTyped ==
  ASSUME NEW s \in PersistedSearch
  PROVE  SecretOf(s) \in SearchSecrets /\ SecretOf(s).id = s.id
BY DEF SecretOf, Identified, PersistedSearch, SearchSecrets

(* The searches of the file are searches.                                  *)
LEMMA SearchesTyped ==
  ASSUME TypeOK, NEW i \in 1..Len(searches)
  PROVE  searches[i] \in PersistedSearch /\ searches[i].id \in Nat
<1>1. searches \in Seq(PersistedSearch)
  BY DEF TypeOK
<1>2. searches[i] \in PersistedSearch
  BY <1>1, ElementOfSeq
<1> QED BY <1>2 DEF PersistedSearch

(* No search is saved at the start.                                        *)
LEMMA InitSearchInv == Init => SearchInv
<1> SUFFICES ASSUME Init PROVE SearchInv
  OBVIOUS
<1>1. Len(<<>>) = 0 /\ <<>> \in Seq(PersistedSearch)
  OBVIOUS
<1>2. 1..0 = {}
  OBVIOUS
<1>3. TypeOK
  BY <1>1 DEF Init, TypeOK
<1>4. HistoryIsLatest
  BY <1>1, SearchAssumption DEF Init, HistoryIsLatest, Newest
<1>5. Ordered /\ IdsIssued /\ Bound /\ TxnSound
  BY <1>1, <1>2 DEF Init, Ordered, IdsIssued, Bound, TxnSound
<1> QED BY <1>3, <1>4, <1>5 DEF SearchInv

(* A search is given an identifier newer than all others.                  *)
LEMMA SaveSafe ==
  ASSUME SearchInv, Save
  PROVE  SearchInv'
<1> USE DEF SearchInv
<1>1. PICK g \in Generation, status \in {"reference", "current"}, offers \in SUBSET Routing :
        txn' = [ stage |-> "save", evicted |-> {},
                 search |-> [id |-> issued + 1, generation |-> g, status |-> status,
                             offers |-> offers, created |-> now] ]
  BY DEF Save
<1>2. /\ issued' = issued + 1 /\ issued \in Nat /\ now \in Nat
      /\ UNCHANGED <<now, searches, keyring, saved, misreported, faulted>>
  BY DEF Save, history, TypeOK
<1>3. txn'.search \in PersistedSearch /\ txn'.search.id = issued'
      /\ txn'.stage = "save" /\ txn' \in Transaction
  BY <1>1, <1>2 DEF PersistedSearch, Transaction
<1>4. TypeOK'
  BY <1>2, <1>3 DEF TypeOK
<1>5. HistoryIsLatest' /\ Ordered' /\ Bound'
  BY <1>2 DEF HistoryIsLatest, Ordered, Bound
<1>6. \A i \in 1..Len(searches) : searches[i] \in PersistedSearch /\ searches[i].id \in Nat
  BY SearchesTyped
<1>7. IdsIssued' /\ \A i \in 1..Len(searches) : searches[i].id < issued'
  BY <1>2, <1>6 DEF IdsIssued
<1>8. TxnSound'
  BY <1>2, <1>3, <1>7 DEF TxnSound
<1> QED BY <1>4, <1>5, <1>7, <1>8

(* The two outcomes of saving the secret.                                  *)
LEMMA SaveSecretSafe ==
  ASSUME SearchInv, SaveSecret \/ SaveSecretFails
  PROVE  SearchInv'
<1> USE DEF SearchInv
<1>1. /\ txn # NoTxn /\ txn \in Transaction /\ txn.stage = "save"
      /\ txn.search \in PersistedSearch
      /\ UNCHANGED <<now, searches, issued, saved, misreported>>
      /\ keyring \subseteq keyring'
      /\ keyring' \subseteq keyring \cup {SecretOf(txn.search)}
  BY DEF SaveSecret, SaveSecretFails, At, history, TypeOK, Transaction
<1>2. keyring' \subseteq SearchSecrets
  BY <1>1, SecretTyped DEF TypeOK
<1>3. HistoryIsLatest' /\ Ordered' /\ IdsIssued' /\ Bound'
  BY <1>1 DEF HistoryIsLatest, Ordered, IdsIssued, Bound
<1>4. CASE SaveSecret
  <2>1. /\ txn' = [txn EXCEPT !.stage = "write"] /\ faulted' = faulted
        /\ SecretOf(txn.search) \in keyring'
    BY <1>4 DEF SaveSecret
  <2>2. txn' \in Transaction /\ txn'.search = txn.search /\ txn'.stage = "write"
    BY <1>1, <2>1 DEF Transaction
  <2>3. TypeOK'
    BY <1>1, <1>2, <2>1, <2>2 DEF TypeOK
  <2>4. TxnSound'
    BY <1>1, <2>1, <2>2 DEF TxnSound
  <2> QED BY <1>3, <2>3, <2>4
<1>5. CASE SaveSecretFails
  <2>1. txn' = NoTxn /\ faulted' = TRUE
    BY <1>5 DEF SaveSecretFails, Release
  <2>2. TypeOK' /\ TxnSound'
    BY <1>1, <1>2, <2>1 DEF TypeOK, TxnSound
  <2> QED BY <1>3, <2>2
<1> QED BY <1>4, <1>5

(* The file is replaced, whether or not its directory could be synced.     *)
LEMMA ReplaceSafe ==
  ASSUME SearchInv, AtomicWrite \/ DirectorySyncFailure
  PROVE  SearchInv'
<1> USE DEF SearchInv
<1> DEFINE x == txn.search
<1>1. /\ txn # NoTxn /\ txn \in Transaction /\ txn.stage = "write"
      /\ x \in PersistedSearch /\ x.id \in Nat
      /\ searches' = Newest(Append(searches, x)) /\ saved' = Append(saved, x)
      /\ UNCHANGED <<now, keyring, issued>>
  BY DEF AtomicWrite, DirectorySyncFailure, Replace, Bounded, At, TypeOK, Transaction, PersistedSearch
<1>2. /\ searches \in Seq(PersistedSearch) /\ Len(searches) \in Nat
      /\ saved \in Seq(PersistedSearch) /\ issued \in Nat
  BY DEF TypeOK
<1> DEFINE h == Append(searches, x)
<1>3. /\ h \in Seq(PersistedSearch) /\ Len(h) = Len(searches) + 1
      /\ \A i \in 1..Len(h) : h[i] = IF i = Len(h) THEN x ELSE searches[i]
  BY <1>1, <1>2
<1>4. /\ x.id <= issued /\ SecretOf(x) \in keyring
      /\ \A i \in 1..Len(searches) : searches[i].id < x.id
  BY <1>1 DEF TxnSound
<1> HIDE DEF x, h
<1>5. \A i, j \in 1..Len(h) : i < j => h[i].id < h[j].id
  BY <1>2, <1>3, <1>4 DEF Ordered
<1>6. \A i \in 1..Len(h) : h[i].id <= issued
  BY <1>2, <1>3, <1>4 DEF IdsIssued
<1>7. misreported \subseteq misreported'
  BY DEF AtomicWrite, DirectorySyncFailure
<1>8. \A i \in 1..Len(h) : h[i].id \notin misreported' => SecretOf(h[i]) \in keyring
  BY <1>2, <1>3, <1>4, <1>7 DEF Bound
<1> DEFINE d == Len(h) - Len(searches')
<1>9. /\ searches' \in Seq(PersistedSearch) /\ Len(searches') \in Nat /\ d \in Nat
      /\ \A i \in 1..Len(searches') : d + i \in 1..Len(h) /\ searches'[i] = h[d + i]
  <2>1. searches' = Newest(h)
    BY <1>1 DEF h
  <2>2. /\ Newest(h) \in Seq(PersistedSearch)
        /\ Len(Newest(h)) = IF Len(h) > HistoryLimit THEN HistoryLimit ELSE Len(h)
        /\ \A i \in 1..Len(Newest(h)) : Newest(h)[i] = h[Len(h) - Len(Newest(h)) + i]
    BY <1>3, NewestProperties
  <2>3. Len(h) \in Nat /\ HistoryLimit \in Nat \ {0}
    BY <1>2, <1>3, SearchAssumption
  <2>4. Len(searches') \in Nat /\ Len(searches') <= Len(h)
    BY <2>1, <2>2, <2>3
  <2>5. d \in Nat /\ \A i \in 1..Len(searches') : d + i \in 1..Len(h)
    BY <2>3, <2>4
  <2> QED BY <2>1, <2>2, <2>4, <2>5
<1> HIDE DEF d
<1>10. Ordered' /\ IdsIssued' /\ Bound'
  <2>1. \A i, j \in 1..Len(searches') : i < j => d + i < d + j
    BY <1>9
  <2>2. Ordered'
    BY <1>5, <1>9, <2>1 DEF Ordered
  <2>3. IdsIssued'
    BY <1>1, <1>6, <1>9 DEF IdsIssued
  <2>4. Bound'
    BY <1>1, <1>8, <1>9 DEF Bound
  <2> QED BY <2>2, <2>3, <2>4
<1>11. HistoryIsLatest'
  <2>1. searches = Newest(saved)
    BY DEF HistoryIsLatest
  <2>2. Newest(Append(Newest(saved), x)) = Newest(Append(saved, x))
    BY <1>1, <1>2, NewestAppend DEF x
  <2> QED BY <1>1, <2>1, <2>2 DEF HistoryIsLatest, x
<1>12. saved' \in Seq(PersistedSearch)
  BY <1>1, <1>2
<1>13. CASE AtomicWrite
  <2> DEFINE evicted == Evicted(searches, searches')
  <2>1. /\ UNCHANGED <<misreported, faulted>>
        /\ txn' = NoTxn \/ txn' = [txn EXCEPT !.stage = "clear", !.evicted = evicted]
    BY <1>13 DEF AtomicWrite, Release
  <2>2. \A i \in 1..Len(searches) : searches[i].id \in Nat
    BY SearchesTyped
  <2>3. evicted \subseteq Nat
    BY <2>2 DEF Evicted, Elements
  <2>4. \A i \in 1..Len(searches') : searches'[i].id \notin evicted
    BY DEF Evicted, Elements
  <2> HIDE DEF evicted
  <2>5. TypeOK'
    BY <1>1, <1>9, <1>12, <2>1, <2>3 DEF TypeOK, Transaction
  <2>6. TxnSound'
    BY <1>1, <1>4, <2>1, <2>4 DEF TxnSound, Transaction, x
  <2> QED BY <1>10, <1>11, <2>5, <2>6
<1>14. CASE DirectorySyncFailure
  <2>1. /\ txn' = [txn EXCEPT !.stage = "undo"] /\ faulted' = TRUE
        /\ misreported' = misreported \cup {x.id}
    BY <1>14 DEF DirectorySyncFailure, UndoWrite, x
  <2>2. TypeOK'
    BY <1>1, <1>9, <1>12, <2>1 DEF TypeOK, Transaction
  <2>3. txn'.search = x /\ txn'.stage = "undo"
    BY <1>1, <2>1 DEF Transaction, x
  <2>4. TxnSound'
    BY <1>1, <1>4, <2>1, <2>3 DEF TxnSound
  <2> QED BY <1>10, <1>11, <2>2, <2>4
<1> QED BY <1>13, <1>14

(* A failed write leaves the file as it was.                               *)
LEMMA AtomicWriteFailsSafe ==
  ASSUME SearchInv, AtomicWriteFails
  PROVE  SearchInv'
<1> USE DEF SearchInv
<1>1. /\ txn # NoTxn /\ txn \in Transaction /\ txn.stage = "write"
      /\ txn' = [txn EXCEPT !.stage = "undo"]
      /\ UNCHANGED <<now, searches, keyring, issued, saved, misreported, faulted>>
  BY DEF AtomicWriteFails, UndoWrite, At, history, TypeOK
<1>2. /\ txn' \in Transaction /\ txn'.search = txn.search /\ txn'.stage = "undo"
      /\ txn.search.id \in Nat
  BY <1>1 DEF Transaction, PersistedSearch
<1>3. TypeOK'
  BY <1>1, <1>2 DEF TypeOK
<1>4. HistoryIsLatest' /\ Ordered' /\ IdsIssued' /\ Bound'
  BY <1>1 DEF HistoryIsLatest, Ordered, IdsIssued, Bound
<1>5. \A i \in 1..Len(searches) : searches[i].id < txn.search.id /\ searches[i].id \in Nat
  BY <1>1, SearchesTyped DEF TxnSound
<1>6. TxnSound'
  BY <1>1, <1>2, <1>5 DEF TxnSound
<1> QED BY <1>3, <1>4, <1>6

(* Clearing the secrets of the evicted searches, or of one that was not    *)
(* saved, leaves those of the file alone.                                  *)
LEMMA ClearSafe ==
  ASSUME SearchInv, ClearEvicted \/ ClearSaved
  PROVE  SearchInv'
<1> USE DEF SearchInv
<1>1. /\ txn # NoTxn /\ txn \in Transaction
      /\ UNCHANGED <<now, searches, issued, saved, misreported>>
      /\ faulted' \in BOOLEAN /\ keyring' \subseteq keyring
  BY DEF ClearEvicted, ClearSaved, At, history, TypeOK
<1>2. \A i \in 1..Len(searches) :
        searches[i] \in PersistedSearch /\ SecretOf(searches[i]).id = searches[i].id
  BY SecretTyped, SearchesTyped
<1>3. HistoryIsLatest' /\ Ordered' /\ IdsIssued'
  BY <1>1 DEF HistoryIsLatest, Ordered, IdsIssued
<1>4. CASE ClearEvicted
  <2>1. PICK id \in txn.evicted :
          /\ keyring' = {r \in keyring : r.id # id} \/ keyring' = keyring
          /\ txn' = NoTxn \/ txn' = [txn EXCEPT !.evicted = @ \ {id}]
    BY <1>4 DEF ClearEvicted, Release
  <2>2. txn.stage = "clear" /\ \A i \in 1..Len(searches) : searches[i].id # id
    BY <1>1, <1>4 DEF ClearEvicted, At, TxnSound
  <2>3. Bound'
    BY <1>1, <1>2, <2>1, <2>2 DEF Bound
  <2>4. TypeOK'
    BY <1>1, <2>1 DEF TypeOK, Transaction
  <2>5. TxnSound'
    BY <1>1, <2>1, <2>2 DEF TxnSound, Transaction
  <2> QED BY <1>3, <2>3, <2>4, <2>5
<1>5. CASE ClearSaved
  <2>1. /\ keyring' = {r \in keyring : r.id # txn.search.id} \/ keyring' = keyring
        /\ txn' = NoTxn /\ txn.stage = "undo"
    BY <1>5 DEF ClearSaved, At, Release
  <2>2. \A i \in 1..Len(searches) : searches[i].id = txn.search.id => searches[i].id \in misreported
    BY <1>1, <2>1 DEF TxnSound
  <2>3. Bound'
    BY <1>1, <1>2, <2>1, <2>2 DEF Bound
  <2>4. TypeOK' /\ TxnSound'
    BY <1>1, <2>1 DEF TypeOK, TxnSound
  <2> QED BY <1>3, <2>3, <2>4
<1> QED BY <1>4, <1>5

(* A crash, the clock, a stutter.                                          *)
LEMMA OthersSafe ==
  ASSUME SearchInv, Crash \/ Tick \/ UNCHANGED vars
  PROVE  SearchInv'
<1> USE DEF SearchInv
<1>1. /\ UNCHANGED <<searches, keyring, issued, saved, misreported>>
      /\ txn' = NoTxn \/ txn' = txn
      /\ faulted' \in BOOLEAN /\ now' \in Nat
  <2>1. CASE Crash
    BY <2>1 DEF Crash, Release, history, TypeOK
  <2>2. CASE Tick
    BY <2>2 DEF Tick, history, TypeOK
  <2>3. CASE UNCHANGED vars
    BY <2>3 DEF vars, TypeOK
  <2> QED BY <2>1, <2>2, <2>3
<1>2. TypeOK'
  BY <1>1 DEF TypeOK
<1>3. HistoryIsLatest' /\ Ordered' /\ IdsIssued' /\ Bound'
  BY <1>1 DEF HistoryIsLatest, Ordered, IdsIssued, Bound
<1>4. TxnSound'
  BY <1>1 DEF TxnSound
<1> QED BY <1>2, <1>3, <1>4

-----------------------------------------------------------------------------
(* The theorems.                                                           *)

(* The invariant holds in every reachable state.                           *)
THEOREM SearchInvariant == Spec => []SearchInv
<1>1. ASSUME SearchInv, [Next]_vars
      PROVE  SearchInv'
  BY <1>1, SaveSafe, SaveSecretSafe, ReplaceSafe, AtomicWriteFailsSafe, ClearSafe, OthersSafe DEF Next
<1> QED BY <1>1, InitSearchInv, PTL DEF Spec

(* The variables keep their types, through crashes and failed writes.      *)
THEOREM SearchStoreTypeOK == Spec => []TypeOK
<1>1. SearchInv => TypeOK
  BY DEF SearchInv
<1> QED BY <1>1, SearchInvariant, PTL

(* The file holds the latest searches and no others, whatever the limit:   *)
(* bounding the history at every save is bounding the history of all.      *)
THEOREM HistoryKept == Spec => []HistoryIsLatest
<1>1. SearchInv => HistoryIsLatest
  BY DEF SearchInv
<1> QED BY <1>1, SearchInvariant, PTL

(* The latest searches are usable: in the file, with their secret, their   *)
(* offers loadable until they are too old.                                 *)
THEOREM SearchesUsable == Spec => []LatestSearchesUsable
<1>1. ASSUME SearchInv PROVE LatestSearchesUsable
  <2> USE <1>1 DEF SearchInv
  <2> SUFFICES ASSUME NEW i \in 1..Len(saved), Len(saved) - i < HistoryLimit, saved[i].id \notin misreported
               PROVE  /\ saved[i] \in Elements(searches)
                      /\ Hydratable(saved[i])
                      /\ now - saved[i].created <= MaxAge =>
                           \A o \in saved[i].offers : Loadable(saved[i].id, o, saved[i].generation)
    BY DEF LatestSearchesUsable
  <2>1. /\ saved \in Seq(PersistedSearch) /\ Len(saved) \in Nat /\ HistoryLimit \in Nat \ {0}
        /\ searches = Newest(saved)
    BY SearchAssumption DEF TypeOK, HistoryIsLatest
  <2>2. /\ Len(searches) = IF Len(saved) > HistoryLimit THEN HistoryLimit ELSE Len(saved)
        /\ \A j \in 1..Len(searches) : searches[j] = saved[Len(saved) - Len(searches) + j]
    BY <2>1, NewestProperties
  <2> DEFINE j == i - (Len(saved) - Len(searches))
  <2>3. j \in 1..Len(searches) /\ Len(saved) - Len(searches) + j = i
    <3>1. i \in Nat /\ 1 <= i /\ i <= Len(saved) /\ Len(searches) \in Nat
      BY <2>1, <2>2
    <3>2. CASE Len(saved) > HistoryLimit
      <4>1. Len(searches) = HistoryLimit
        BY <2>2, <3>2
      <4> QED BY <2>1, <3>1, <4>1
    <3>3. CASE ~(Len(saved) > HistoryLimit)
      <4>1. Len(searches) = Len(saved)
        BY <2>2, <3>3
      <4> QED BY <2>1, <3>1, <4>1
    <3> QED BY <3>2, <3>3
  <2>4. searches[j] = saved[i]
    BY <2>2, <2>3
  <2> HIDE DEF j
  <2>5. saved[i] \in Elements(searches)
    BY <2>3, <2>4 DEF Elements
  <2>6. SecretOf(saved[i]) \in keyring
    BY <2>3, <2>4 DEF Bound
  <2>7. Hydratable(saved[i])
    <3>1. SecretOf(saved[i]).offers = {o \in saved[i].offers : saved[i].status = "current"}
      BY DEF SecretOf, Identified
    <3>2. SecretOf(saved[i]).id = saved[i].id /\ SecretOf(saved[i]).generation = saved[i].generation
      BY DEF SecretOf
    <3> QED BY <2>6, <3>1, <3>2 DEF Hydratable
  <2> QED BY <2>5, <2>7 DEF Loadable
<1> QED BY <1>1, SearchInvariant, PTL

-----------------------------------------------------------------------------
(* No secret outlives its search, unless a process died or the keyring     *)
(* failed.                                                                 *)

(* The save in progress will name the search in the file, or clear it.     *)
OfTxn(id) ==
  \/ At("write") /\ id = txn.search.id
  \/ At("undo") /\ id = txn.search.id
  \/ At("clear") /\ id \in txn.evicted

InFile(id) == id \in {s.id : s \in Elements(searches)}

(* Every secret is that of a search of the file or of the save in progress;*)
(* and only an unsynced directory makes a save raise after it was done.    *)
KeyringAccounted ==
  ~faulted =>
    /\ misreported = {}
    /\ \A r \in keyring : InFile(r.id) \/ OfTxn(r.id)

(* The search that a save adds is in the file that the save writes.        *)
LEMMA NewSearchInFile ==
  ASSUME TypeOK, txn # NoTxn, Replace, NEW id, id = txn.search.id
  PROVE  InFile(id)'
<1> DEFINE x == txn.search
           h == Append(searches, x)
<1>1. /\ x \in PersistedSearch /\ searches \in Seq(PersistedSearch) /\ Len(searches) \in Nat
      /\ searches' = Newest(h)
  BY DEF TypeOK, Transaction, Replace, Bounded
<1>2. h \in Seq(PersistedSearch) /\ Len(h) = Len(searches) + 1 /\ h[Len(h)] = x
  BY <1>1
<1> HIDE DEF h
<1>3. /\ Len(Newest(h)) = IF Len(h) > HistoryLimit THEN HistoryLimit ELSE Len(h)
      /\ \A i \in 1..Len(Newest(h)) : Newest(h)[i] = h[Len(h) - Len(Newest(h)) + i]
  BY <1>2, NewestProperties
<1>4. Len(Newest(h)) \in Nat \ {0} /\ Len(h) \in Nat
  BY <1>1, <1>2, <1>3, SearchAssumption
<1>5. Len(Newest(h)) \in 1..Len(Newest(h)) /\ Len(h) - Len(Newest(h)) + Len(Newest(h)) = Len(h)
  BY <1>4
<1>6. Newest(h)[Len(Newest(h))] = x
  BY <1>2, <1>3, <1>5
<1>7. x \in Elements(searches)'
  BY <1>1, <1>5, <1>6 DEF Elements
<1> QED BY <1>7 DEF InFile

(* Each step keeps the keyring accounted for.                              *)
LEMMA StepAccounts ==
  ASSUME SearchInv, KeyringAccounted, [Next]_vars
  PROVE  KeyringAccounted'
<1> SUFFICES ASSUME ~faulted'
             PROVE  misreported' = {} /\ \A r \in keyring' : (InFile(r.id) \/ OfTxn(r.id))'
  BY DEF KeyringAccounted
<1>a. TypeOK
  BY DEF SearchInv
<1>b. txn # NoTxn => txn \in Transaction
  BY <1>a DEF TypeOK
<1>1. CASE Save
  <2>1. txn = NoTxn /\ UNCHANGED <<searches, keyring, misreported, faulted>>
    BY <1>1 DEF Save, history
  <2> QED BY <2>1 DEF KeyringAccounted, OfTxn, InFile, At
<1>2. CASE SaveSecret
  <2>1. /\ txn # NoTxn /\ txn.stage = "save" /\ UNCHANGED <<searches, misreported, faulted>>
        /\ keyring' = keyring \cup {SecretOf(txn.search)}
        /\ txn' = [txn EXCEPT !.stage = "write"]
    BY <1>2 DEF SaveSecret, At, history
  <2>2. txn' # NoTxn /\ txn'.stage = "write" /\ txn'.search = txn.search /\ txn.search \in PersistedSearch
    BY <1>b, <2>1, SearchTransactionAssumption DEF Transaction
  <2>3. SecretOf(txn.search).id = txn.search.id
    BY <2>2, SecretTyped
  <2>4. OfTxn(txn.search.id)'
    BY <2>2 DEF OfTxn, At
  <2> QED BY <2>1, <2>3, <2>4 DEF KeyringAccounted, OfTxn, InFile, At
<1>3. CASE SaveSecretFails \/ DirectorySyncFailure \/ Crash
  BY <1>3 DEF SaveSecretFails, DirectorySyncFailure, Crash
<1>4. CASE AtomicWrite
  <2> DEFINE evicted == Evicted(searches, searches')
  <2>1. /\ txn # NoTxn /\ txn.stage = "write" /\ Replace
        /\ UNCHANGED <<keyring, misreported, faulted>>
        /\ IF evicted = {} THEN Release
           ELSE txn' = [txn EXCEPT !.stage = "clear", !.evicted = evicted]
    BY <1>4 DEF AtomicWrite, At
  <2>2. \A id : id = txn.search.id => InFile(id)'
    BY <1>a, <2>1, NewSearchInFile
  <2>3. \A id : InFile(id) => InFile(id)' \/ id \in evicted
    BY DEF InFile, Evicted
  <2>n. evicted \subseteq Nat
    BY <1>a, SearchesTyped DEF Evicted, Elements
  <2> HIDE DEF evicted
  <2>4. \A id \in evicted : OfTxn(id)'
    <3>1. evicted # {} => txn' # NoTxn /\ txn'.stage = "clear" /\ txn'.evicted = evicted
      BY <1>b, <2>n, <2>1, SearchTransactionAssumption DEF Transaction
    <3> QED BY <3>1 DEF OfTxn, At
  <2>5. misreported = {} /\ \A r \in keyring : InFile(r.id) \/ r.id = txn.search.id
    BY <2>1 DEF KeyringAccounted, OfTxn, At
  <2>6. ASSUME NEW r \in keyring PROVE (InFile(r.id) \/ OfTxn(r.id))'
    <3>1. CASE InFile(r.id)
      BY <2>3, <2>4, <3>1
    <3>2. CASE r.id = txn.search.id
      BY <2>2, <3>2
    <3> QED BY <2>5, <3>1, <3>2
  <2> QED BY <2>1, <2>5, <2>6
<1>5. CASE AtomicWriteFails
  <2>1. /\ txn # NoTxn /\ txn.stage = "write" /\ txn' = [txn EXCEPT !.stage = "undo"]
        /\ UNCHANGED <<searches, keyring, misreported, faulted>>
    BY <1>5 DEF AtomicWriteFails, UndoWrite, At, history
  <2>2. txn' # NoTxn /\ txn'.stage = "undo" /\ txn'.search = txn.search
    BY <1>b, <2>1, SearchTransactionAssumption DEF Transaction
  <2> QED BY <2>1, <2>2 DEF KeyringAccounted, OfTxn, InFile, At
<1>6. CASE ClearEvicted
  <2>1. PICK id \in txn.evicted :
          /\ keyring' = {r \in keyring : r.id # id} /\ UNCHANGED faulted
          /\ IF txn.evicted = {id} THEN Release ELSE txn' = [txn EXCEPT !.evicted = @ \ {id}]
    BY <1>6 DEF ClearEvicted
  <2>2. txn # NoTxn /\ txn.stage = "clear" /\ UNCHANGED <<searches, misreported>>
    BY <1>6 DEF ClearEvicted, At, history
  <2>3. \A r \in keyring' : InFile(r.id) \/ (r.id \in txn.evicted /\ r.id # id)
    BY <2>1, <2>2 DEF KeyringAccounted, OfTxn, At
  <2>4. \A k \in txn.evicted : k # id => OfTxn(k)'
    <3>1. txn.evicted # {id} =>
            txn' # NoTxn /\ txn'.stage = "clear" /\ txn'.evicted = txn.evicted \ {id}
      BY <1>b, <2>1, <2>2, SearchTransactionAssumption DEF Transaction
    <3> QED BY <2>1, <3>1 DEF OfTxn, At
  <2> QED BY <2>1, <2>2, <2>3, <2>4 DEF KeyringAccounted, InFile
<1>7. CASE ClearSaved
  <2>1. /\ txn # NoTxn /\ txn.stage = "undo" /\ UNCHANGED <<searches, misreported, faulted>>
        /\ keyring' = {r \in keyring : r.id # txn.search.id}
    BY <1>7 DEF ClearSaved, At, history
  <2> QED BY <2>1 DEF KeyringAccounted, OfTxn, InFile, At
<1>8. CASE Tick \/ UNCHANGED vars
  <2>1. UNCHANGED <<searches, keyring, txn, misreported, faulted>>
    BY <1>8 DEF Tick, vars, history
  <2> QED BY <2>1 DEF KeyringAccounted, OfTxn, InFile, At
<1> QED BY <1>1, <1>2, <1>3, <1>4, <1>5, <1>6, <1>7, <1>8 DEF Next

(* Unless a process died or the keyring failed, the keyring holds between  *)
(* saves the secrets of the searches in the file, no fewer and no others.  *)
THEOREM NoSecretLeft == Spec => []NoStraySearchSecret
<1>1. Init => KeyringAccounted
  BY DEF Init, KeyringAccounted
<1>2. SearchInv /\ KeyringAccounted /\ [Next]_vars => KeyringAccounted'
  BY StepAccounts
<1>3. ASSUME SearchInv, KeyringAccounted PROVE NoStraySearchSecret
  <2> SUFFICES ASSUME ~faulted, txn = NoTxn
               PROVE  {r.id : r \in keyring} = {s.id : s \in Elements(searches)}
    BY DEF NoStraySearchSecret
  <2>1. misreported = {} /\ \A r \in keyring : InFile(r.id)
    BY <1>3 DEF KeyringAccounted, OfTxn, At
  <2>2. \A i \in 1..Len(searches) :
          SecretOf(searches[i]) \in keyring /\ SecretOf(searches[i]).id = searches[i].id
    BY <1>3, <2>1, SearchesTyped, SecretTyped DEF SearchInv, Bound
  <2>3. \A s \in Elements(searches) : \E r \in keyring : r.id = s.id
    BY <2>2 DEF Elements
  <2> QED BY <2>1, <2>3 DEF InFile
<1> QED BY <1>1, <1>2, <1>3, SearchInvariant, PTL DEF Spec

=============================================================================
