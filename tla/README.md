# A TLA+ verification of atlas-flight-booking

`atlas-flight` is a command line program with which an agent searches flights,
verifies an offer, chooses ancillaries, orders, pays and waits for tickets.
Every command is a short-lived process. What the commands of one user share is
on disk and in the keyring of the operating system, and what they act on is a
remote service whose answers may be late, lost or refusals. A mistake costs
money: an order placed twice, a payment asked for twice, an outcome nobody can
read any more.

The modules here model that core; TLC checks them on small instances, and TLAPS
proves the safety properties for every value of the constants.

## The system and its parts

Paths are under `src/src/atlas_cli/`.

| part | state it keeps | operations | who it interacts with |
|---|---|---|---|
| booking records (`booking_models.py`, `booking_persistence.py`) | none: what a record of `contexts.json` means | hydrate, restore, terminal, guards | booking store |
| booking store (`booking_store.py`, `durable_io.py`) | `contexts.json` under `contexts.lock`; `booking-secrets` records in the keyring | create, confirm price, replace or close options, select, remove, expire, begin, reset, save order, mark unknown, issue and consume a confirmation, update payment and ticketing | every booking command |
| search store (`search_store.py`, `search_models.py`) | `searches.json` under `searches.lock`; `search-secrets` records | save, load search, load offer, replay | search, verify |
| keyring (`secure_store.py`) | credentials, pending login, API credentials, workflow secrets | save, load, clear | all |
| order creation (`orders.py`) | none of its own | `order create` | booking store, upstream `order.do` |
| payment (`payments.py`) | none of its own | `order pay` | booking store, upstream `pay.do`, ticketing |
| ticketing (`ticketing.py`) | none of its own | `order status`, the poll after payment | booking store, upstream order query |
| verification (`verify.py`) | none of its own | `verify`, `booking confirm-price` | search store, booking store, upstream |
| ancillaries (`ancillaries.py`) | none of its own | baggage and seat list, select, remove | booking store, upstream |
| search (`search.py`, `search_adapters.py`, `routing_normalizer.py`) | none of its own | `search`, `search replay` | search store, upstream |
| login and session (`auth.py`, `api_client.py`, `api_models.py`) | credentials and pending login, in the keyring | login, poll, status, refresh; the refresh inside any protected call | control service |
| access and endpoints (`access.py`, `endpoints.py`) | API credentials, in the keyring | synchronize, resolve a route | login, all business commands |
| business client, status table (`business_client.py`, `business_status.py`) | none | one HTTP call; what a status means | all business commands |
| passengers (`passengers.py`) | none | validate one input document | order creation |
| command line (`cli.py`, `booking_runtime.py`, `output.py`, ...) | none | wiring and formatting | all |

What is hard about it:

- **Crashes and partial failures.** A booking is a file and a keyring record
  that are written one after the other. A process may die, and a write may
  fail, anywhere between.
- **Concurrent commands.** The file lock covers one store operation, not a
  command: a command loads, decides, calls the upstream and writes, and other
  commands run in between. The credentials have no lock at all.
- **Late and lost answers.** A client that gives up does not know whether the
  upstream acted, and the upstream may still act later.
- **Answers of every kind.** Each upstream call has a table of statuses, and a
  status the table does not know must be taken the safe way: as an order that
  may exist, as an option that may be back later.
- **Expiry.** Bookings, offers, confirmations and logins run out while commands
  work on them, and the code reads the clock several times in one operation.

What makes the parts correct:

- booking store: an open booking can be loaded, a finished one can be read back,
  a failed commit changes nothing, no secret outlives its use, selections are
  sound, a finished order attempt never changes;
- order creation: one order per booking, made of what the booking held, opened
  again only when nothing was and nothing can still be placed;
- payment and ticketing: one payment request per order, one confirmation spent,
  a record that never runs ahead of the upstream;
- search store: the latest searches stay usable, and no others stay;
- ancillary commands: a kind is closed only when the upstream declined it, and
  commands that overlap lose none of each other's selections;
- what an order is for: the price the user agreed to, every traveler searched
  for with the data required of them, every ancillary for its traveler and
  flight;
- login and access: a token and a key that belong to the account that is logged
  in; a refreshed token that is not thrown away; a login that is not lost; an
  offer used only on the route it was found on.

## The modules

```
BookingRecords ──┬── BookingStore ──── MCBookingStore      AtomicStore    (refined)
                 │        └─ BookingStore_proofs
                 ├── OrderService ──── MCOrderService      OneShotOrder   (refined)
                 │        └─ OrderService_proofs
                 └── AncillaryService ── MCAncillaryService
                          └─ AncillaryService_proofs
PaymentService ──┬── MCPaymentService                      OneShotPayment (refined)
                 └── PaymentService_proofs
BusinessStatus ───── extended by OrderService, PaymentService, AncillaryService
Offers, Passengers ─ OrderData ─┬─ MCOrderData
                                └─ OrderData_proofs
SearchStore ──────── SearchStore_proofs
Session ──────────┬─ MCSession
                  └─ Session_proofs
Endpoints ────────── AccessSync ─┬─ MCAccessSync
                                 └─ AccessSync_proofs
```

How they compose: `OrderService` and `AncillaryService` act on the record of
`BookingRecords` with atomic store operations. That this is sound is stated and
proved from both sides: `BookingStore`, with its two writes, its failures and
its crashes, implements `AtomicStore` (`AtomicSpec`), whose calls are those of
`StoreCall`; and each step of the two services changes the record by one such
call (`OrderCallsStore`, `CommandsCallStore`). The three services read the statuses of one table; `AccessSync` uses the routes
of `Endpoints`; `OrderData` carries one offer through the pure parts of search,
verification, selection and order.

### BookingRecords

The record of one booking, as `contexts.json` has it, and what each operation of
`booking_store.py` makes of it: pure operators (`OptionsReplaced`, `Selected`,
`OrderBegun`, ...), the guards (`Ready`, `CurrentSelection`, `PriceSettled`) and
the three ways to read a record (`Hydrates`, `Restorable`, `IsTerminal`). An
ancillary option is a constant with its kind, its segment and its allowance,
since the code makes option identifiers at random and never uses one again.
Names, prices, dates and passengers are left out. `StoreCall(c, d)` is the
disjunction of all of it: what one call of the store may make of a record `c`,
under the guards the call checks.

### BookingStore

The file, the keyring and the transaction of whoever holds the file lock. An
operation (`Select`, `BeginOrder`, `FinishOrder`, ...) is one action: its guards
read the record and compute the one to write. What follows are the writes of
`_mutate_active` and `_mutate_secrets`, each an action: save and read back the
new secret, replace the file, clear the retired secret, or, when the write
raised, clear the new one. `SaveSecretFails`, `AtomicWriteFails`, `ClearFails`
and `Crash` are what can go wrong in between; `AtomicWriteFails` leaves the old
file or, where `DirectorySyncFails`, perhaps the new one. `updated_at` is a
second reading of the clock (`Stamp`), as in the code, so a record may be
stamped at or after its expiry.

A revision is a fresh token and is modelled by a counter. A call that names
another route generation, or fails a guard, raises before it writes: a
stuttering step. `save_order`, `save_order_with_confirmation` and
`mark_order_unknown` are one action with the outcome as a parameter, since all
three are `_finish_order`.

`AtomicStore` is what the store promises: a call changes one record, at one
moment, as the call promises for the record as it is at that moment; a call
that raises, or whose process dies, did so either then or never. `AtomicSpec`
says that BookingStore implements it with the records of the file. The moment
is the replacement of the file, which may come long after the guards were
looked at and long before the call returns, raises or dies.

### OrderService

`OrderService.create`, run by any number of processes beside commands that edit
the booking (`Edit`). A store operation is one step here, for it runs under the
lock, and BookingStore shows what its crashes leave behind; `Loads` is the
abstraction BookingStore's `SecretsBound` licenses. `pc` follows the code: load
and check, begin the attempt (the compare-and-set, which also returns the record
the command then works from), check again, send, and then by the answer save,
mark unknown, reset or expire. A request that left is in `inflight` until the
upstream deals with it, also when its sender gave up (`TimeOut`) or died.
`HandlerRaises` is an exception handler whose own store operation is refused.
`SummaryFails` is the summary of the passengers that raises after the upstream
created the order, for a process in `Unmaskable`: one that may be given a
document number the passenger rules accept and the masked summary does not.
Only a process in `Faulty` may die or have its store operations fail.

An answer that is no order is a status of `BusinessStatus`, kept as what the
handlers of `create` tell apart in it (`AnswerKind`). The upstream is external
and is assumed to refuse definitely only what it did not place: an order that
exists is answered by its number, by a status that reports a duplicate or a
pending order, by nothing, or by something nobody knows (`UnsettledStatus`).

`OneShotOrder` is what this promises to one booking: begin, place at most once,
record, reopen only after a definite refusal. `OneShotSpec` says that
`OrderService` implements it, with `attempt`, `saved` and `placed` read off the
booking and the upstream.

### PaymentService

`PaymentService.pay` and `TicketingService.poll` and `query_once`, run by payers
and watchers on one order. A payer reads the clock, consumes a confirmation
under the lock, sends the request, records what it learnt, and polls. A poller
reads the record once, before its first query, and then writes what each answer
says, in the code's order: payment, then ticketing, two writes. A store that
fails is swallowed where the code swallows it (`Persists`). What a failed
`pay.do` means follows from its status (`PaymentKind`). `OneShotPayment` is
the abstract promise: the decision to pay is taken once and leads to at most one
request.

### SearchStore

`SearchStore.save` in the same style as BookingStore: the secret, the file cut
to `history_limit`, the secrets of the evicted searches. `Hydratable` and
`Loadable` are what the readers find.

### Session

The credentials and the pending login of a user, which all commands read and
write in the keyring without a lock: every keyring access and every answer of
the control service is a step. A caller is any command with a protected call:
`Send` is `_current_session_headers`; `Reload`, `RefreshGranted` or
`RefreshRefused`, `LookAgain` and `SaveRefreshed` are `_refresh_and_retry` in
its order, with its two looks at the keyring; `Unauthorized` is what a command
does with a final refusal: `search` and the auth commands clear the credentials,
the booking commands leave them. A refresher is `auth refresh`, which reads and
saves once. A poller is `auth poll`: it exchanges a login that was completed in
the browser, saves the credentials (`Store`), synchronizes by protected calls
of its own, and only then clears the pending login (`ClearPending`); a poll
without a pending login validates the stored credentials. When the service
answers 5120 to the exchange, the handler takes this for a refused session and
clears the stored credentials (`ExchangeDenied`), although the exchange carries
none.

The control service is external. It is assumed to refuse only tokens it does
not accept any more, to grant a refresh or an exchange as a token nobody has
yet, of the account asked for, and to keep or drop the token a refresh replaces.
`refused` and `delivered` are history variables.

### BusinessStatus

The status table of `business_status.py` for the stages whose commands act on
it: the retryable, success, action and terminal statuses of listing baggage,
listing seats, ordering and paying. A call without a business status is a
negative number. `SideEffectUncertain` is the rule that matters: a status of
the uncertain set, or one the table does not know, leaves open whether the
request took effect. `Unavailable` is what `map_business_status` calls
`BAGGAGE_UNAVAILABLE` and `SEAT_UNAVAILABLE`. A status table has no steps, so it
is checked through the services that use it: an unknown status read as a
refusal breaks `ReadyMeansNothingSent`.

### AncillaryService

The listing, selection and removal of baggage and seats by any number of
processes, each running one command after another. `Load` is `_access_context`
with the checks on the record as it was loaded; `Read` is one reading of
`_read_with_retry`, which repeats once after a passing trouble; `AfterRead` is
the downgrade by status. `ReplaceOptions`, `CloseAncillary`, `Select` and
`Remove` are the store calls, which look at the record as it is by then.
`OrderCommand` is an order attempt on the same booking: it begins, is reset or
expires, or ends with its outcome (`OrderOutcome`). The answers are all
statuses of the stage and all sets of options; what the upstream means by a
status (`Declines`) is stated apart from what the service does with it
(`Downgrades`): the table and the two frozen sets of `ancillaries.py` are
written in different files.

### Endpoints and AccessSync

`Endpoints` has the pure parts: which service, provider and key slot a mode and
a standing lead to (`ResolveSearch`), the generation that offers are kept under,
and the merge of the keys in an answer into those at hand (`Merged`).

`AccessSync` is what `search`, `offer list` and `offer verify` do before they go
upstream: check the account, load the record `api-credentials`, fetch keys,
merge, save, take the key of the route. Each is a step, and all commands share
the record without a lock. Meanwhile `Login`, `SwitchMode`, `Promote` and
`Rotate` change the account logged in, the mode, the standing of an account and
its keys. A search whose key is rejected starts over once
(`CallRejected`); a verification is repeated once after a passing trouble
(`VerifyAgain`). A search that succeeds is stored with its generation, and
`from` remembers the route that it was really made on. `since` is a history
variable: whether a login or an answer without a key came in between, and how
often keys were replaced. The control service is external, and is assumed to
answer with keys of the caller that are valid, for slots of its standing.

### Offers, Passengers and OrderData

`Offers` is the normaliser of routings (prices for the whole party, flights,
supported ancillaries) with the traveler and segment slots of `verify.py`.
`Passengers` is the translation of the required fields, the validation of the
input and the passengers of the request. Amounts are integers, which is exact
as long as the floats that subtotals and totals pass through hold them (fifteen
digits); dates are days, and formats of texts are left out; a passenger names the traveler by place.

`OrderData` puts them together: one offer, from `Search` through `Verify`,
`ConfirmPrice`, `Select`, `Remove`, `Check` to `Send`, with `Midnight` anywhere
between. `Send` is the validation of the locked booking and the request built
right after it, so its `day` is the day of that validation. The routing a
verification returns is any routing the normaliser takes.
`Charge` is the reference for the price: the cardinality of the sets of
passengers and of fee units, where the code multiplies totals.

## What TLC checks

| run | question | bounds |
|---|---|---|
| `Store` | Does any crash, failed keyring call or failed write, at any point of any operation, before or after the booking expires, lose a booking, an outcome or a secret? Can a sequence of listings and selections make an order hold an unsound selection? Is what an attempt is made of frozen, and is a record that is over, be it by its own stamp, left alone but for the outcome of its attempt? Does it implement `AtomicStore`? | one booking, two connected segments, three bags of two allowances, a seat, three revisions, clock to the expiry |
| `StoreDirectorySync` | the same failed commit, when the directory cannot be synced | one segment, one bag; a violation |
| `OrderCreate` | Can two `order create`, editing commands, a crash, timeouts and late answers order twice, order the wrong thing, or record an order that is not there? Does it implement `OneShotOrder`? Is the attempt of the process that lives settled, or its booking expired? | two processes, one of them faulty, two orders, one seat, expiry and clock at 1 |
| `OrderUnrecorded` | Is an order the upstream created always recorded or marked unknown, without any crash? | one process; a violation |
| `Payment` | Can two payers, a watcher and two confirmations pay twice, or the record run ahead? Does it implement `OneShotPayment`? Does a payment in progress get an outcome, and a record the tickets its payer was told of, also after another process recorded the payment and died? | two payers, one of them faulty, clock to the deadline |
| `PaymentSignal` | Is an order that is being paid ever reported as waiting for confirmation? | one payer, one watcher; a violation |
| `SearchHistory` | Do the latest searches stay usable, and their secrets only, when the history overflows? | four searches, a history of two, one failure anywhere |
| `Session` | When refreshes, logins to another account, polls, crashes and expiring tokens interleave: is the stored token of the stored account, is a refused token sent again, does a poll clear a pending login before its own has lapsed or its credentials are saved? | one caller, one refresher, two polls, two logins, two accounts, three tokens; any two of the commands with both logins, or three (one poll) with one |
| `SessionRace` | Does a refused command clear only the token that was refused? | two callers, two tokens; a violation |
| `AccessSync` | When commands, logins, mode switches and key replacements interleave: does a request carry a key of its slot and account, is an offer used on its own route, is a search rejected for good while one of its keys was good? | one search, one offer command, two accounts, two changes |
| `Ancillary` | Does any answer, or any overlap with another command or an order, close a kind that is not declined, admit a selection the booking does not, or lose one? | two processes, two segments, three bags, a seat, expiry and clock at 1 |
| `OrderData` | Does any pair of routings, any input or a midnight in between lead to an order the user did not agree to, or one that leaves out or misplaces a traveler, a required field or an ancillary? | three parties, eleven routings, two sets of required keys, two days, two products |

Why the bounds are enough. A booking's keyring records are told apart by booking
and revision, and an operation touches one booking, so bookings do not
interact; three revisions give a current one, a retired one and one more. The
clock needs the moments before, at and after the expiry. A second process is
what every race here takes; a third would only repeat what one of the two does,
for every guard looks at the record and not at who wrote it. Four searches in a
history of two evict twice, so that a stray or a missing secret of an earlier
eviction shows. Three tokens let a refresh be overtaken by another refresh and
by a login to the other account; two logins and two polls let a poll end while a
newer login is pending, and the next poll find what the last one left.
`MCSession` bounds how many commands overlap (`MCBound`) and tells states apart
by what a command may still read of its memory and by the tokens and logins that
somebody holds (`MCView`): the rest occurs in no later step and in no property
but the types. Two changes in `AccessSync` are what it takes
to replace a key twice under one search, or to log in elsewhere and have a key
replaced or the mode switched as well; `RejectedAfterTwoRotations` needs no
more. In `Ancillary` two commands overlap in every way a third could add to,
since a command keeps nothing between its load and its store call but its own
arguments and options. The routings of `OrderData` differ pairwise in one thing
(a fare, a fee mode, the number of flights, separate tickets, the ancillaries,
a carrier, an amount that does not parse), so that a search and a verification
may disagree in each; its inputs have every kind of gap and every assignment
of travelers and types, in any order, for one or two passengers, and three
for the party with an infant. The proofs below do not depend on the bounds.

Each property of a passing run is broken by a mutant listed in `PROJECT.json`: a
definition replaced by a plausible mistake (the retired secret cleared before
the file is written, a timeout taken for a refusal, the record of the first
load ordered, the oldest searches kept), which stands before the definition it
replaces.

**Fairness.** Only `AttemptSettled` and `PayingResolved` assume any, and only of
the commands themselves: a running command that is not faulty takes its next
step (`Fairness`: the processes of `Process \ Faulty`, the payers of
`Payer \ Faulty`). The HTTP client has a timeout, so waiting ends without the
upstream (`TimeOut`, `TimeOutPayment`), and the poll has a budget (`GiveUp`).
Nothing is assumed of the upstream, of a user who might run another command, or
of the clock. Beside the fair process another one may die or have its writes
fail, at any step. An attempt whose own process died stays as it is: no process
finishes what a dead one began, and the code has no recovery that would. That
an abandoned attempt stays `creating` is the design, and `OneOrderPerBooking` is
why. The MC modules fix the part of the initial state that symmetry would:
`MCInit` gives the faulty process a seat policy, or the second confirmation to
be issued later, and `MCSpec` is `MCInit` with the steps and the fairness of the
module.

## What is proved

| theorem | module | states |
|---|---|---|
| `StoreTypeOK` | BookingStore_proofs | types |
| `OpenBookingsLoad` | | `SecretsBound`, if a failed write never replaced the file |
| `FailedCommitHarmless` | | `FailedCommitKeepsPrevious`, same assumption |
| `OutcomesRestorable` | | `FinishedRestorable` |
| `SelectionsAlwaysSound` | | `SelectionsSound` |
| `AttemptLife` | | `AttemptSteps` |
| `NoSecretLeft` | | `NoStraySecret` |
| `StoreIsAtomic` | | `AtomicSpec`: `BookingStore` implements `AtomicStore` |
| `OrderServiceTypeOK` | OrderService_proofs | types |
| `AtMostOneOrder` | | `OneOrderPerBooking` |
| `RetryOnlyWhenSafe` | | `ReadyMeansNothingSent` |
| `RecordedOrderExists` | | `SavedOrderIsReal` |
| `OrderMatchesBooking` | | `OrderedAsSelected` |
| `OrderCreationIsOneShot` | | `OrderService` implements `OneShotOrder` |
| `CreatedOrdersAccounted` | | `CreatedOrderAccounted` for the processes outside `Unmaskable` |
| `OrderCallsStore` | | every change of the booking is one `StoreCall` |
| `PaymentTypeOK` | PaymentService_proofs | types |
| `AtMostOnePaymentRequest` | | `OnePaymentRequest` |
| `OneConfirmationConsumed` | | `ConfirmationSpentOnce` |
| `RecordNeverAhead` | | `RecordIsReal` |
| `NeverPayableAgain` | | `NeverAwaitingAgain` |
| `PayingIsOneShot` | | `PaymentService` implements `OneShotPayment` |
| `PayersNeverSignal` | | no payer ever reports that the order waits for confirmation |
| `SearchStoreTypeOK` | SearchStore_proofs | types |
| `HistoryKept` | | `HistoryIsLatest` |
| `SearchesUsable` | | `LatestSearchesUsable` |
| `NoSecretLeft` | | `NoStraySearchSecret` |
| `SessionTypeOK` | Session_proofs | types |
| `CredentialsPaired` | | `AccountKept` |
| `RetryUsesAnotherToken` | | `NoRefusedTokenResent` |
| `LoginsCleared` | | `PendingClearedWhenDone` |
| `CommandsInTurnClearRefused` | | `OnlyRefusedTokenCleared` but for a poll whose exchange was denied, if commands do not overlap |
| `AncillaryTypeOK` | AncillaryService_proofs | types |
| `ClosedMeansDeclined` | | `ClosedOnlyWhenDeclined` |
| `SelectionsOnlyByCommand` | | `SelectionsByCommand` |
| `CommandsCallStore` | | every change of the booking is one `StoreCall` |
| `AccessTypeOK` | AccessSync_proofs | types |
| `RequestKeysOwn` | | `RequestKeyIsOwn` |
| `OffersBound` | | `OfferBoundToItsRoute` |
| `RejectedLate` | | `RejectedAfterTwoRotations` |
| `TotalIsCharge` | OrderData_proofs | the normaliser's total is `Charge` |
| `OrderDataTypeOK` | | types |
| `OnlyAgreedPrices` | | `PriceAgreed` |
| `PayloadIsFaithful` | | `PayloadFaithful` |

Assumptions: only the ASSUMEs of the modules (the shape of the constants, null
values that are not values), and, for `OpenBookingsLoad` and
`FailedCommitHarmless`, `~DirectorySyncFails`; `StoreDirectorySync` shows that
they fail without it. `CommandsInTurnClearRefused` assumes `[]OneAtATime` of the
behaviour: a command is active only when no other is. The code does not enforce
this, and `SessionRace` shows what an overlap costs. The theorem says that
besides an overlap only one thing costs a user a stored session that was not
refused: the exchange of a poll that is answered with 5120 (`DeniedExchange`). `CreatedOrdersAccounted` and `PayersNeverSignal` bound the
findings 4 and 2 in the same way: who they leave out is whom those runs show.

The arguments:

- *BookingStore.* `SecretsBound` alone is not inductive. A step that clears a
  secret is safe because of what the transaction in progress is known to be:
  its record was computed from the record the file still names (nobody else
  writes while the lock is held), a fresh revision is greater than every one in
  use, and the retired revision is the one the file named before. The invariant
  `StoreInv` says this for each stage of the transaction, together with the
  soundness of the record about to be written. That operations keep selections
  sound is a lemma of each record operator, at the head of the module. For
  `NoStraySecret`, `StrayInv` adds what the inclusion does not say: unless a
  process died or the keyring failed, each secret in the keyring is the current
  one of an unfinished booking, or the one the transaction in progress is about
  to make current or to clear, and a transaction that ends an attempt retires
  its secret. For `AtomicSpec`, the transaction's record remembers that it is a
  `StoreCall` of the record it was computed from (`LifeInv`), which is still the
  record of the file when the file is replaced, since nobody else holds the
  lock; every other step leaves the records alone, also the undo of a write that
  raised after it took effect.
- *OrderService.* The invariant says who the attempt belongs to: at most one
  process is between begin and the end of its handlers, while it is the attempt
  is `creating`, and the upstream holds a request or an order only of a process
  that went past its submission. A process is in `resetting` only if the
  upstream definitely refused or nothing was sent. A process that dies there
  leaves the attempt to nobody, and then nobody can get past `Begin`.
  For `CreatedOrdersAccounted`, a command that is over left an outcome, or
  learnt of no order and has no request on its way that could tell it
  (`Accounted`); an outcome stays, since every store call finds none.
- *PaymentService.* At most one payer is past `Consume`, for `Consume` needs
  `awaiting` and leaves `paying`, and no step leads back. `RecordIsReal` needs
  what a poller carries between its query and its writes: an answer of the
  upstream stays true, since the upstream's status only moves forward. A payer
  polls only after the record left `awaiting`, and reads it after that
  (`PayersInformed`).
- *SearchStore.* Identifiers grow along the file, so the search being saved is
  distinct from all in it and the clears touch no other search. That the file
  holds the latest searches rests on a lemma about sequences: bounding a bounded
  history once more is bounding the whole history. For `NoStraySearchSecret` the
  secrets in the keyring are accounted for one by one, as in BookingStore:
  each is of a search in the file, of the save in progress, or evicted by it.
- *Session.* A process that refreshes holds the credentials it read together
  with the very token it refreshes, so what it is granted is of their account,
  and it saves the whole record, whatever the keyring holds by then. Until a
  call is repeated, only the token it used last was refused to it, and the token
  it is repeated with differs: another one of the keyring, or a fresh one, whose
  identifier is greater than any in use. A poll that reaches a clear either
  stored its credentials on the way or found its login past its lifetime. For
  `CommandsInTurnClearRefused`, what a command uses once it has sent something is
  what the keyring holds (`OwnToken`), for only it could have changed that.
- *AncillaryService.* A process is about to close a kind only if an answer to it
  declined the kind, which rests on a comparison of the status table with the
  service's own sets (`ClosingDeclines`), and an order attempt never changes
  what a booking supports. For the selections each store call is shown to add
  and drop exactly those of its own slot or kind; a record operation of an
  attempt leaves them alone until the booking is over.
- *AccessSync.* The invariant says of every command that its keys are in their
  slots and, unless a login or an empty answer came in between, that its route
  key is of the account it began with and is good or was replaced since: the
  merge prefers the answer, so what others left in the record is never the
  route key of a command that was answered. A search has seen at least as many
  replacements as attempts that failed. An offer is bound to a route because
  the provider follows from mode and slot (`RoutesByModeAndSlot`), so two routes
  with one generation differ at most in whether they are bookable.
- *OrderData.* That a total computed by multiplication is a count of passengers
  and fee units is a fact about finite sets (`TotalIsCharge`): the groups of the
  party are disjoint, and the fee units are a product of them with the flights
  or the tickets. The invariant `DataInv` says that the offer and the booking
  stay functions of the two raw routings (`OfferAsSearched`,
  `BookingAsVerified`), whatever is selected, removed or confirmed in between,
  so the comparison of totals was one of charges; and that the payload is made
  of an input that the booking accepts on the day of its validation (`SentAsAccepted`).
  For `PayloadFaithful`, the validation makes the passengers of the input a
  permutation of the travelers, and each selection names its own traveler and
  flight, so the two lists of the payload are in bijection with them.

**Only model-checked.** The liveness properties `AttemptSettled` and
`PayingResolved`: fairness is out of the prover's reach. Every safety property,
action property and refinement that a passing run checks is also proved.

## Findings

1. *A commit that raised may have happened* (`StoreDirectorySync`). On POSIX,
   `durable_replace` replaces the file and then syncs the directory. If the
   directory cannot be opened or synced, it raises, and `_mutate_secrets` clears
   the new secret: the file names a revision the keyring does not hold, and the
   open booking cannot be loaded any more. `tests/unit/test_booking_store.py:946`
   tests the promise with a write that fails before it took effect.
   `SearchStore.save` has the same handler; there `LatestSearchesUsable` excludes
   the searches of saves that raised.
2. *A second payment signal* (`PaymentSignal`). `_unpaid_result` decides by the
   record that was loaded before the first query. A status command that overlaps
   a payment may report `PAYMENT_CONFIRMATION_REQUIRED` although the order is
   being paid, which `tests/unit/test_ticketing.py:280` rules out by name.
   `OnePaymentRequest` shows that nothing worse follows: the store refuses the
   second confirmation.
3. *A token that was just saved is cleared* (`SessionRace`). Two commands find
   the same token expired. The first is granted a new one and saves it after the
   second looked at the keyring for the last time; the second is refused
   (code 5120) and `_result_from_protected_api_error` clears whatever the keyring
   holds, now the new token. The user has to log in again.
   `tests/integration/test_session_refresh.py:98` says that the *old* token is
   cleared, and `_refresh_and_retry` looks twice at the keyring to keep to it.
   `search` has the same handler (`search.py:194`). The same clear follows an
   exchange that the service denies with 5120 (`auth.py:307-310`): a single poll
   then drops the stored credentials, which no request had used. No document
   speaks of that case, so it is modelled and bounded by
   `CommandsInTurnClearRefused` but is no finding of its own.
4. *An order nobody records* (`OrderUnrecorded`). After the upstream created the
   order, `_order_state` masks each document. The mask ends in the last four
   characters, and the models accept four capitals or digits there, while the
   passenger rules let any printable number through
   (`tests/unit/test_passengers.py:270` insists on it). A number such as `ab-12`
   raises a validation error that no handler of `create` takes: the command
   reports an internal error, and the attempt stays `creating` with the order
   number neither saved nor shown. `tests/unit/test_orders.py:304` says what
   should become of an order that exists and cannot be saved: marked unknown,
   with its number reported. `AttemptSettled` excepts such processes.

## What is not modelled, and why

- A `contexts.json` or `searches.json` of an older schema is wiped by `_read`:
  one version of the program is modelled, and none of its records is of an old
  schema.
- HTTP, JSON, URLs, formatting, messages, logging, the wiring of the command
  line: pure I/O.
- The statuses of verification and of the order query: a failed verification
  changes nothing, and what the query reports is in the answers of
  PaymentService.
- The reference search (its prices, their parsing and sorting) and `search
  replay`: formatting of results that are never bookable; that such an offer is
  never verified is in AccessSync and OrderData.
- The masked summary, ticket numbers, labels and descriptions: texts that no
  property here tells apart, but for the summary that fails (OrderService).
- Prices of ancillary options are summed by the code without a look at their
  currency, and are shown, not sent: no property is about them. That a
  verification may return other flights than the search did is in OrderData,
  where only the price has to be agreed to, as in the code.
- Two services of a command, its ancillary work and its access, are checked
  apart: AncillaryService takes a failed access as a command that ends.
- The order in which `ticketing_state` is written by several pollers: a late
  answer may take the record from ticketed back to pending until the next query.
  No document promises otherwise.
- In Session, that a poll which ends clears whatever login is pending by then,
  also one another command started meanwhile, is modelled but no property
  forbids it: no document does. `PendingClearedWhenDone` says only which polls
  may clear.

## Plan

Done, in this order: BookingRecords, BookingStore, OrderService with
OneShotOrder, PaymentService with OneShotPayment, SearchStore, Session, and the
proofs of each; then AccessSync with Endpoints, AncillaryService with
BusinessStatus, OrderData with Offers and Passengers, and the proofs of the
first two; then AtomicStore and its refinement, the stray secrets, the proofs of
OrderData, and what bounds findings 2, 3 and 4.

Left: an abstract store of searches that SearchStore implements as BookingStore
does AtomicStore; an abstract session (one account logged in, its token replaced
by fresh ones) that Session implements between overlaps.
