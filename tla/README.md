# A TLA+ model of card-backend

card-backend is the HTTP service between a Vultisig wallet and the card issuer
REAP. A wallet (a *vault*, identified by its ECDSA public key) logs in with a
signature, gets a REAP user, and through it opens accounts, issues cards and ships
them. REAP keeps the money and the cards; this service keeps, in PostgreSQL, *who
owns what*, and its correctness is that this record stays right although REAP calls
time out, requests are retried, handlers interleave and the server dies between two
statements.

This directory holds TLA+ modules of those protocols, TLC configurations that check
them on small instances, and TLAPS proofs of their main properties for all
instances. `PROJECT.json` relates every definition to the lines it models.

    tlc -workers 2 -config MCUserCreate.cfg MCUserCreate    # a model-checking run
    tlapm UserCreateProofs.tla                              # a proof module

## 1. The system and its parts

All paths are under `src/`. "2xx passed back" means that the service answers with
REAP's own status and body.

| Part | Where | State it keeps | Operations |
|---|---|---|---|
| Authentication | `internal/service/auth.go`, `internal/reapmapping`, `internal/vaulttoken` | mapping row: `nonce`, `hex_chain_code`; rows of `vault_tokens` | `GET /nonce`, `POST /auth`, the RequireAuth middleware |
| User creation | `internal/service/user.go`, `internal/reapmapping` | mapping row: `reap_user_id`, `reap_user_create_started_at` | `POST /user` |
| User profile | `internal/service/user.go` | none | get user, change email and phone, advance the application |
| Accounts | `internal/service/account.go`, `internal/accountownership` | `vultisig_account_ownership` | create, list, get, balance, assets, signer message |
| Cards | `internal/service/card.go`, `internal/cardownership`, `internal/usercardownership` | `vultisig_card_ownership`, `vultisig_user_card_ownership` | create, list, and some twenty operations on one card; 3DS challenges |
| Card shipments | `internal/service/cardshipment.go` | none (REAP has the shipments) | create, list, get, update, delete, add and remove a card, submit |
| Fraud alerts, transactions, activities, simulation | `internal/service/*.go` | none | pass-through behind ownership checks |
| REAP webhooks | `internal/service/webhook.go`, `internal/reap/webhook.go`, `internal/reapwebhookevent` | `vultisig_reap_webhook_events` | `POST /webhooks/reap` |
| Notifications | `internal/notification` | a Redis queue read by another service | enqueue |
| REAP client | `internal/reap` | none | one HTTP call, 10 s timeout, no retry |
| Startup, shutdown, pool | `cmd/server`, `internal/db` | 20 connections; schema | migrate, serve, drain for 20 s |
| Key derivation | `internal/bip32`, `verifySignature` in `auth.go` | none | a child of a private or a public key, a path |
| Metrics | `internal/statsd` | a UDP socket | count and timing, sent on the request path |
| Card designs | `internal/service/carddesign.go` | none | list, get: passed on as they are |
| Vaultkey | `cmd/vaultkey` | none | the wallet's side of a login; prints addresses |
| Configuration | `internal/config` | none | read once |

How they interact. Every REST handler but `/nonce` and `/auth` is behind RequireAuth,
which turns a token into the vault's public key. User creation binds that key to a
REAP user; account and card creation resolve it; all later operations on a card or
an account look at the ownership rows. Webhooks come in on the side: they are
matched to a vault through the same rows, and notified under the vault's chain code,
which a login recorded. There are no in-process locks, caches or background workers:
the shared state is PostgreSQL's rows and REAP's records, the concurrency that of
the HTTP handlers (and of several server processes, which is the same thing here).
What they do share inside a process is the pool's connections, and the end: on a
signal the server stops taking requests, gives the running ones 20 seconds, and
closes the pool under whatever is left.

What is hard:

- *Exclusion without a lock.* `POST /user` must not make two REAP users; the claim
  that prevents it is a timestamp that goes stale, so it is a race against time.
- *Two systems, no transaction.* Each create is a REAP call and then one or two
  INSERTs; anything can fail in between, and the reply to anything can be lost.
- *Check, then act.* Nonces, owners and shipments are read in one step and relied on
  in a later one.
- *At-least-once delivery* of webhooks, overlapping with itself and with the REST
  handlers that write the rows needed to route them.
- *A shutdown with a budget.* Whether a create gets its row written before the pool
  closes is a sum of timeouts, statements and turns in a queue.
- *One computation written twice.* The wallet derives a key from a private key, the
  server from a public one; at the edges (overflow, zero, infinity) the two differ.

What makes each part correct:

| Part | Correct if |
|---|---|
| Authentication | a signed nonce buys one token; a vault keeps one chain code; only recorded, unrevoked, unexpired tokens admit |
| User creation | a vault gets one REAP user, written once; a 2xx means it is recorded; nobody is locked out for ever |
| Accounts, cards | rows agree with REAP and with each other; a 2xx means owned; only the owner acts on a card; a key makes one thing |
| Shipments | a shipment is changed and shown for one vault only |
| Profile, reads, alerts, transactions, activities, simulation | a vault is shown, and changes, its own things only |
| Webhooks | acknowledged means stored; one notification at most, and to the owner; none only for a reason outside the handler; every event is stored in the end |
| Creates and webhooks together | the rows come out as the webhook handler assumes; who is notified is who REAP made the thing for |
| Startup, shutdown, pool | no statement before its table; connections held for statements only; no create cut off from its row; every request and every shutdown ends |
| Key derivation, vaultkey | both sides reach the same key; the wallet's key, and no other, logs in |

The hazards behind these properties, each at its line, are listed in `PROJECT.json`.

## 2. The modules

| Module | Models |
|---|---|
| `VaultUser` | abstract specification of the mapping table: bind an unbound vault to an unused user, and nothing else |
| `UserCreate` | `UserService.CreateUser` and the statements `ClaimReapUserCreate`, `ReleaseReapUserCreate`, `GetReapUserID`, `SetReapUserID`; implements `VaultUser` |
| `Auth` | `AuthService.Authenticate`, `ClaimNonce`, the token row, the RequireAuth middleware |
| `Webhook` | `WebhookService.HandleEvent`, signature check, event row, vault resolution, enqueue |
| `Ownership` | `CreateAccount`, `CreateCard` and the card operations; uses `VaultUser` for the mapping |
| `Shipment` | the eight operations of `CardShipmentService` |
| `ScopedAccess` | the operations that keep nothing here: user profile, account and card reads, 3DS challenges, transactions, fraud alerts, activities, simulations |
| `CardBackend` | `Ownership`, which it extends, and `Webhook` composed over one database and one REAP |
| `Lifecycle` | `main`, the pool, and every handler as the statements, calls and sends it makes |
| `KeyDerivation` | `bip32` on both sides of a login, signing and `verifySignature` |
| `MC...` | constants and symmetry for TLC |
| `...Proofs` | inductive invariants and theorems; those of `Ownership` are in `CardBackendProofs` |

Conventions. A handler is a *slot* that serves one request after another, so the
number of slots bounds concurrency and nothing else. A slot's `pc` (or `job.stage`)
says which statement or call comes next. Each SQL statement is one atomic step, as
PostgreSQL runs it; everything between two statements is local and belongs to the
step before it. A statement or REAP call that *fails* may have taken effect (the
reply is lost, the context is cancelled late) or not: the `...Fails` actions leave
both open. `Crash` ends a request anywhere. What REAP does is modelled from how the
code uses it and is marked external in the map.

### UserCreate

| Model | Code |
|---|---|
| `reapUserID`, `claimAge` | columns `reap_user_id`, `reap_user_create_started_at` (as an age) |
| `ClaimGranted`, `ClaimRefused`, `LookupRefusal` | the conditional upsert and the lookup that tells "exists" from "in flight" |
| `CallReap`, `ReapCreates`, `ReapCreatesNoID`, `ReapRejects`, `ReapFails` | the REAP call: 2xx with an ID, 2xx without a usable one, refusal, timeout |
| `Release`, `ReleaseFails` | `releaseCreateClaim`, on a context of its own with its own timeout; it clears whatever claim the row has |
| `Record`, `RecordLoses`, `RecordFails` | `SetReapUserID`: bound, refused because another ID is there, failed |
| `Tick`, `left` | time, and how long a request may still stay in its stage |

`Tick` cannot pass a request's deadline. For the REAP call and the release the
deadline is the code's own timeout. For the other statements the code has none;
`DbBound` is the assumption one has to make about the database, and the predicate
`Timing` says how much of it the claim's minute can carry:

    DbBound + ReapTimeout + max(DbBound, ReleaseTimeout) <= StaleAfter

With 60 s, 10 s and 5 s that holds as long as no statement (waiting for one of the
20 connections included) takes more than 25 s. What depends on `Timing` is exclusion
and what a 2xx means. What does not is that the table is write-once and injective,
and that every user in it is REAP's own for that vault.

### Auth

`nonce` and `chainCode` are the row's columns; a row from before `hex_chain_code`
existed has the first and not the second, and Init allows it. A submission is any
vault, any spelling of a chain code, any nonce and a signature kept as what it was
made over and with, so replays, copies and mismatches are all inputs. `CheckPasses`
is the early comparison of nonces and the verification; `Claim` the upsert that
decides. `RecordToken` inserts the token's row and returns the token. `Arrive` is the
check of the JWT, `Admit` and `Refuse` the look at its row (`Touch`); revocation and
the loss of a row come from outside.

### Webhook

`Content` enumerates the shapes of event data the code distinguishes, each with the
resource it is *about*, which the handler does not see. Cards, accounts and users
share one set of IDs with different owners, so an ID taken from the wrong field
reaches the wrong vault. Data may also not parse, and the data of a tokenization, for
which REAP publishes no schema (`webhook.go:171-176`), may name the card or not; events
whose data says nothing are `Silent`. `Deliver` is the verification with its two-sided timestamp
tolerance; `RecordNew`, `RecordDuplicate`, `RecordFails` the INSERT .. ON CONFLICT DO
NOTHING; `Resolve`, `GetHexChainCode`, `Notify` are `notifyVault`, and `Unresolved`,
`NoChainCode`, `LookupFails` its early returns. Meanwhile `RecordOwner` and
`RecordChainCode` fill the tables. A nil notification client is an initial choice.

Notifications are best effort, and it would be easy to lose them all and call it
that. `excused` is a history variable that records, at the moment it happens, each
reason a notification may be missed for: the insert or a lookup or the enqueue
failed, the server died, no row says whose the resource is, the vault has no chain
code, or the handler finds no vault for an event that is about none or is `Silent`.
`MissedOnlyIfExcused` says that there is no other way to miss one. In particular the
subject is found in every shape of data that says what the event is about; the
exceptions are the two of `Silent`, and for those a notification is really missed.

### Ownership

A job runs user lookup, for cards the account check, the REAP call under the
client's Idempotency-Key, then one row (account) or two rows in two statements
(card). REAP answers a repeated request with the same key with the first result and
refuses a different request under that key. A card operation is a check of the row
and, in another step, the call. `BindUser` takes steps of `VaultUser`: `UserCreate`
is shown to implement it, so the two compose.

A card REAP has made and whose rows were not written is nobody's here; only the
client can repair that, by repeating the request under its key. `CardIsOwnedInTheEnd`
says that this is enough, whatever failed before. (`made` gives each account and card
the key it was made under, so `OneResourcePerKey` is about second accounts, second
cards, and one of each.)

### Shipment

No table says whose a shipment is: each operation fetches it, checks every card in
the answer with a query each, and then makes its call, on a shipment others may have
changed. A shipment without cards is refused. `AddCardToShipment` checks the new card
too. `ListCardShipments` checks one card and shows whole shipments. The cards come
from `Ownership`, of which only "a row is written once" is used. That REAP only
changes drafts is taken from the operations' comments.

### ScopedAccess

Some thirty endpoints have one shape: checks, each a query or a REAP call of its own,
and then a REAP call under a key that reaches every vault's things. A job carries
what the request names, and passes, in this order, the checks that apply: the user
(`resolveReapUserID`), the named card, the named thing (a transaction, an alert or a
challenge, fetched to learn its card), that thing's card, the named account. The
model has one action per check and one per kind of call. The filters of the listings
have a checked first value and, in `extra`, further values of the same parameter;
`Kept` is what the code forwards. Meanwhile `Elsewhere` writes rows, as `Ownership`
does, and REAP's cards are used, so everything checked may have been otherwise a step
before. The transaction a simulation names is looked up and its card checked, but for
that of a 3DS simulation, which the code passes on unchecked (`simulation.go:114-119`;
`LooksUp`): REAP may act on it or not, and `ChangedIsOwn` leaves out that change and
no other. REAP's records of users, accounts and cards are constants: what `Ownership`
proves of the rows (`RowsAreReal`) is built into when a row may be written.

Two things are assumed of REAP: a thing stays on its card, and a listing narrows by
every filter it is given. The second matters for `ListActivities`, which leaves a
parameter whose first value is empty as it came.

### CardBackend

`Webhook` on its own takes the vault of each resource as given and has its rows
written by somebody who knows. Here the rows are `Ownership`'s (`ownerRow` is read off
its tables; a user's row is the mapping's), REAP emits events about what it has made
(`Reported`), perhaps before the create's answer has arrived, or about a user whose row
`POST /user` has yet to write, and every step is a step
of one component. `OwnerIn` becomes a prophecy: `Foretold` restricts REAP's choice of
IDs to the ones that come out as it says, which loses no behaviour over all choices
of `OwnerIn`. `RowsAsForetold` then says that whenever the tables `ownerRow` is read off change, it changes
by a `RecordOwner` step of `Webhook`, so the assumption `Webhook` makes of its
environment is met; `NotifiedIsReapOwner` is the end-to-end statement.

### Lifecycle

A request is the sequence of steps it has left: statements (`db`; `row` for one that
records what a create made), REAP calls, metric sends, an enqueue. `Handler` is the
set of these sequences, by shape of handler; each is the longest way through, and a
step that fails goes on with what `AfterFailing` says (the metrics of a failed call,
the release of a user's claim). A statement waits in `queue` for one of `Conns`
connections, which are given out first come first served.

| Model | Code |
|---|---|
| `Connect`, `Migrate`, `Start` | `main` up to `srv.Start`; all DDL is one `Exec`, hence one transaction, and harmless to repeat |
| `Signal`, `DrainEnds` | the first signal, and `srv.Shutdown` returning: all requests done, or the window over |
| `ArriveLate` | the first request of a connection that was there at the signal (`fresh`): `net/http` keeps those open for 5 s, `Grace` |
| `Exit` | the deferred `pool.Close`, which waits for the connections in use, and the end |
| `Die` | `log.Fatal`, a second signal (`stop()` has restored the default), a kill |
| `Grant`, `StepEnds`, `StepFails` | the pool, and what a handler does next |
| `Tick`, `left`, `window` | time, what is left of a step's timeout, of `shutdownTimeout` |

As in `UserCreate`, a statement's duration is not bounded by the code; `StoreBound` is
what one has to assume. A request is not cancelled when the window runs out; it goes
on while the pool refuses it connections.

`NoRowLostToShutdown` is what the comment at `main.go:89` is about: when the pool
closes, no request has a create under way or a row left to write. It holds if

    shutdownTimeout > Grace + 5 * turns * StoreBound + requestTimeout + 2 * writeTimeout

where `turns` is how often the pool has to go round for all requests (1 if there is a
connection for each): a card takes RequireAuth's statement, two lookups, the call
with its two sends, and two rows, and may begin at the end of the grace. For the code's
20 s, 10 s and 2 x 2 s, and 5 s of grace, that leaves 0.2 s for a statement, waiting for
a connection included; without a late request 1.2 s. (The bound is tight: a window one
unit shorter loses a row.) Handlers that make two REAP calls may take
longer and may be cut off, but they write no rows.

### KeyDerivation

The wallet walks the path from its private key and signs; the server walks it from
the public key and the chain code it was sent, and verifies. The curve is any set of
scalars and points with a one-to-one homomorphism `Times`; the MAC is any function
from chain code, public key and index to a digest, whose left half may be zero or
may overflow the group order. `PrivateRefuses` and `PublicRefuses` are the error
returns of the two `Child` functions, which are not the same: only the private one
notices a sum of zero. A signature is the key it was made with and the nonce it was
made over, and `SomeoneSigns` makes any. What `Verify` says of the point at infinity
is left open.

## 3. The runs

Runs that pass:

| Run | Shows | Instance |
|---|---|---|
| `user_create` | under `Timing`: `ClaimExclusive`, `ClaimCovers`, `SuccessIsRecorded`; `RecordedIsReal` | 2 slots on one vault, 1 on another, 3 users; 1.0 M states |
| `user_create_slow_db` | without `Timing`, where takeovers from live requests happen: `ImplementsVaultUser`, `NeverLockedOut` | 2 slots on one vault, 3 users, statements slower than the claim's life, fairness; 53 k states |
| `auth` | `OneTokenPerNonce`, `OneChainCodePerVault`, `AdmittedWasLive` | 2 logins, 1 caller, 2 tokens, nonces 0..1, 2 chain codes in 3 spellings; 1.3 M states |
| `webhook` | `AckedIsRecorded`, `NoDoubleNotify`, `OwnerIsNotified`, `MissedOnlyIfExcused`, `EmittedIsRecorded` | 1 event, 2 deliveries at a time, 2 IDs, 2 vaults, fairness; 0.4 M states |
| `ownership` | `RowsAreReal`, `GrantedIsOwned`, `OnlyOwnerActs`, `OneResourcePerKey`, `CardIsOwnedInTheEnd` | 2 vaults, 2 users, 2 accounts, 1 card, 2 keys, 2 slots, fairness; 0.7 M states |
| `shipment` | `StaysWithVault`, `SeenIsOwned`, with creates sent twice | 2 vaults, 2 cards, 2 shipments, 2 slots; 2.7 M states |
| `scoped_access` | `ShownIsOwn`, `ChangedIsOwn` | 2 vaults, 3 users, 2 accounts, 3 cards, 2 things, 1 slot; 0.5 M states |
| `card_backend` | `NotifiedIsReapOwner`, `RowsAsForetold` | 2 vaults, 2 users, 1 account, 1 card, 2 keys, 1 request, 1 event, 1 delivery, a notification client; 0.6 M states |
| `lifecycle` | `PoolDiscipline`, `NoRowLostToShutdown`, `InFlightCallsFinish`, `RequestsEnd`, `StopsWhenTold` | all handlers, 2 requests on 1 connection, a window just long enough for that, fairness; 45 k states |
| `key_derivation` | `DerivationsMatch`, `AcceptsTheKey` | a group of order 5, 2 chain codes, 10 MACs, paths of 2 and 3 with a hardened index |

Each module's `TypeOK` is checked along, except that of `KeyDerivation`, which is only proved.

Why the bounds are enough to be interesting. Two slots give every pair of
interleaved requests, and since a slot is used again and again, any number of
requests one after the other; for creates, a third slot on another vault shows that
vaults do not disturb each other. `StaleAfter` is exactly the sum `Timing` needs, so
a claim that lives one unit less breaks exclusion. The IDs REAP can give out bound
the creates that succeed: with three, a vault can be created for, lose the answer
and be created for again while the other vault goes on. Two tokens and two nonces
suffice for two logins to contend for one nonce, and for a nonce to be used twice.
One webhook event is enough since events share nothing. In `user_create_slow_db` both
slots are on one vault: it is about what they do to each other, and the theorem
`Refinement` is about any number of vaults. In `scoped_access` one slot is
enough: what another request can change (things) `Elsewhere` changes as well, at any
time, and a request's own state is its own; three users for two vaults leave one that
a vault lost track of, and two things a transaction and the alert raised on it. In
`ownership` two accounts and a card are what two vaults and two slots contend for: one
slot retries a create, under its key or under one used for something else, while the
other does so too, acts on the result or names it as the wrong vault. So a retry could
make a second account, or an account and a card, under one key; a second card is left to
the theorem `KeyMakesOne` (for a card, `ReapServes` does what it does for an account).
Two shipments and two cards suffice for a retried create: two drafts with the same
card, each at a different point of some operation. In `card_backend` one request and
one delivery at a time are enough for the two sides to interleave in every way; what
each side does to itself is the components' own runs, and without a notification
client, which `WithClient` leaves out, nobody is notified; operations that only read rows
are left to `Ownership`. `lifecycle` has fewer connections than
requests, so that they wait for each other; its `Window` of 14 is one more than
the grace, 5 statements at two turns each, a call and its metrics. A group of order five has a zero,
sums that wrap, and enough points for ten MACs that between them overflow, vanish, and
reach infinity.

Symmetry is declared over sets whose members no formula distinguishes; in
`MCUserCreate` only over the two slots of the same vault and over user IDs, in
`MCAuth` over slots, tokens and the two spellings of one chain code, in `MCShipment`
over all sets, in `MCScopedAccess` over things, in `MCCardBackend` over keys. The runs that check liveness
(`user_create_slow_db`, `webhook`, `ownership`, `lifecycle`) use none.

Every passing run but `key_derivation`, which follows one login to its end, checks for
deadlock as well: a system whose clients may always send another request never stops.

Each property has a mutant in `PROJECT.json`: a change to one definition of the kind
a slip in that code would make (a dropped WHERE, an unchecked status, a missing
reset) under which the run finds the property violated. The mutated definitions
stand, marked as such, before the ones they replace.

### Fairness

`UserCreate`: weak fairness of the clock and of each request's next step. Go
schedules every runnable handler, the timeouts end the waits, and time passes;
nothing is assumed of clients, and crashes may happen for ever. `NeverLockedOut`
then rests on claims going stale.

`Webhook`: REAP redelivers an event it has had no 2xx for, and not always too late
(strong fairness, since a delivery needs a free slot): for some difference between
the clocks within the tolerance, whichever of the two is ahead; handlers are scheduled; and
an insert that is tried again and again does not fail every single time. The first
and last are REAP's and the database's part, without which no server could keep
every event.

`Ownership`: handlers run (weak fairness); the client of a card that was made, and that
it was not told of, repeats its request, key and all (strong fairness); and the requests
for that card are disturbed (`Disturbed`: a look-up, a call or a statement that could
have succeeded fails, or the server dies) any number of times, but not for ever. The
code has no repair of its own, so it is the client that repairs.

`Lifecycle`: weak fairness of the clock, of each request that runs or could be given a
connection, and of `Shutdown` and `Close` returning. A request that waits for a
connection is not assumed to be cut short: that every request ends rests on the
others giving theirs back. Nothing is assumed of signals.

### Where the code and its documents disagree

Two runs check what a comment or document says, and find it violated.

- `user_create_takeover`: `user.go:30` says that after a minute "only a dead
  request's claim is taken over". The minute is compared with the claim's age; no
  deadline bounds the statements around the REAP call, so a request held up by the
  database is alive when its claim is taken over. Two creates then run at once, and a
  release clears the other's claim. The table survives it (`user_create_slow_db`);
  a REAP user nobody records is left, and one client gets a 2xx for it.
- `user_create_retry`: `user.go:77-79` keeps the claim after a 2xx, since "a retry
  would make a second one". The claim is kept for a minute; a retry after that makes
  the second one. (The alternative, a claim that never expires, would shut the vault
  out; the two wishes conflict, and `NeverLockedOut` is the one that holds.)

## 4. What is proved

Theorems hold for every value of the constants that satisfies the modules' ASSUMEs,
that is for any number of vaults, requests, IDs and any durations. All are of the
form `Spec => []Inv`, shown by an inductive invariant, except the refinements and one
action property. Every safety property a run checks is stated by a theorem.

**UserCreateProofs.** `RecordedUsersAreReal` rests on `RealInv`: the ID a recording
request carries was made for its vault and acknowledged. From it `Refinement` follows
for all timings: `Record` and the effective half of `RecordFails` are `Bind` steps of
`VaultUser`, since the upsert only fires on a NULL column and the UNIQUE constraint
keeps IDs apart; all other steps stutter. `Exclusion`, `Coverage` and
`SuccessMeansRecorded` assume `Timing`. Exclusion alone is not inductive: that a
second request cannot claim has to follow from the row, so `ExclInv` adds
`ClaimCovers`: a request past the claim has its claim in the row, and its age plus
the time the request has left is within the stages' budget. By `Timing` that is never
more than `StaleAfter`, so the claim is not `Claimable`; and since only one request
holds it, a release is always of one's own claim. `ClaimCovers` also says that no
request past the claim runs for a vault that has a user, so `RecordLoses` does not
happen; `SuccInv` puts both together with `RealInv` and the fact that a request in
flight has not answered yet.

**AuthProofs.** `NonceBuysOneToken` rests on `IssueInv`: every token of a vault was
issued for a nonce below the row's. The early comparison plays no part; a claim
either inserts the row, with no token before it, or matches the row's nonce, above all
tokens', and raises it. `ChainCodeIsFixed`: the row's chain code, once there, does not
change, and a claim that makes a token agrees with it. `OnlyLiveTokensAdmit` rests on
`DoorInv`: revoked or lost tokens do not come back, so a token that is admissible at
the second look was live at the first.

**WebhookProofs.** For any events, deliveries, vaults and tolerance, `AckedMeansRecorded`,
`NotifiedAtMostOnce`, `NotifiesTheOwner` and `MissesNothing` come from
`WebInv`. `NoDoubleNotify` alone is not inductive: what keeps two deliveries of one event
from both enqueueing is that only the one whose INSERT made the row goes past it
(`OneHandler`), and that while it is there nothing has been queued (`SlotsOK`). A
redelivery finds the row and stops, also after a crash. For the owner the point is the
lemma `Routing`: in every shape of data, `eventSubjectIDs` finds the resource the event is
about, whichever other IDs the data carries, or nothing, and nothing only where the event
is about no vault's resource or is `Silent`. `MissedOnlyIfExcused` is kept because every
early return of `notifyVault` either is an excuse or stands for such an event.

**CardBackendProofs**, first part, about `Ownership`. `RowsTellTheTruth`,
`GrantedMeansOwned`, `OnlyOwnersAct` and `KeyMakesOne` come from one invariant, `OwnInv`.
Beyond the four properties it says what each stage of a job has established (`JobsOK`:
the user is the vault's, the account is the vault's, the ID was made for exactly this
request), that each resource is the recorded result of its own key (`KeyIsReplayed`),
that no user belongs to two vaults (`OneVaultPerUser`, from `VaultUser`) and that a card's
account has a row. The ON CONFLICT DO NOTHING keeps an existing row; that it is the *same*
vault's follows since both rows come from one request's user.

Second part, about the composition. `ImplementsOwnership`: every step of the whole is a
step of `Ownership` or leaves its variables alone, so `OwnInv` holds of the whole.
`ImplementsWebhook`: it is also a step of `Webhook`, with `ownerRow` read off the tables
(`W` is the instance). The step to show is the handlers' (`RestFillsTable`): a statement
that writes a row changes one entry of `ownerRow`, from none to the foretold vault. It is
the foretold one because the resource was made for the user of the request's vault
(`JobsOK`) and no other vault has this user (`OneVaultPerUser`). So what `Webhook` assumes
of its environment is a theorem about these handlers, `RowsComeAsForetold`, and
`WebhookProofs` applies to the whole. `NotifiesReapsOwner` adds `EmittedIsMade`: an event
on a card or an account is about something REAP has made, and REAP does not unmake it. An
event on a user may come before the user's row; whoever is notified of it has that row.

**ShipmentProofs.** `ShipmentStays` and `ShownCardsAreOwned` come from `ShipInv`:
cards checked so far are the vault's and stay so (`Checked`), and a shipment some
vault has touched, or fetched with cards, holds only that vault's cards (`Belongs`).
That a decision on a stale copy is still right follows: the copy had at least one
card, that card is the vault's, so the whole shipment was and is.

**ScopedAccessProofs.** `ShownToItsOwner` and `ChangedForItsOwner` come from
`ScopedInv`. `RowsAgree`: a row names the vault REAP's record names. `Passed`: what a
job's earlier checks established, about the user, the card, the thing's card and the
account, is still so; it can be, since rows are written once and a thing stays on its
card, so nothing established is undone by what happens before the call. `Shape`: a
job at the call has been through the check of each thing it names, in whatever
combination, but for the transaction of a 3DS simulation; a change to that one is what
`ChangedIsOwn`, and so the theorem, leaves out. For the listings the point is `Kept`: with a checked value REAP sees
that value alone, and `AskAlerts` and `AskActivities` see to it that there is one.

**KeyDerivationProofs.** For any group, MAC, path, root key and chain code:
`DerivationsAgree` and `AcceptsOnlyTheKey` come from `Inv`. `Trace`: each key of a walk is
the child of the one before, under an index the walk did not refuse. `DerivationsMatch`: at equal
depth the two keys are the halves of one, so the two digests are the same and the
children are too, by the homomorphism; a step the server refuses the wallet refuses;
where only the wallet refused, the server's child is `Times(Zero)`, infinity. `Judged`: a
verdict was reached on a finished walk or an error. `AcceptsOnlyTheKey` needs that
`Times` is one-to-one, and that a wallet which has its key never met zero, so that the
server did not meet infinity.

**LifecycleProofs.** For any number of requests and connections and any times:
`PoolIsDisciplined`, `CallsFinish` and `ShutdownLosesNoRow` come from `LifeInv`. A request is
in the line at most once, and not while it holds a connection (`QueueOK`). A call under
way at the signal has used up what has passed of the window (`CallsOK`: `left` plus the
whole window is at most the client's timeout plus what is left of the window), so if the
window is longer it ends first. For rows one has to bound a wait that depends on others.
`Served`: whoever is at place `p` of the line has a connection within
`d + q * StoreBound`, if `p` and the number of connections held for longer than `d` are
together at most `q + 1` rounds of the pool. The bound shrinks with every `Tick`, holds
through `Grant` (the line moves up by one, and one connection is late for `StoreBound`
more), and is not harmed by requests that join or leave the line. `Planned` lists what a
request with a row to write can have before it and what that costs, a statement counting
as a full `Turn`; `RowsDue` says that the time the current step is due by and the cost of
the rest fit into what is left of the window. At the signal that is `EnoughWindow`, with
every request at its worst; a request that comes in the grace has the window less
`Grace` for all it does. `StoreBound`, that statements end in bounded time, is the
assumption; the code has no deadline there.

Only model-checked: the liveness properties `NeverLockedOut`, `EmittedIsRecorded`,
`CardIsOwnedInTheEnd`, `RequestsEnd` and `StopsWhenTold` (liveness under fairness is beyond
this prover). Of the two runs that expect a violation, one refutes `ClaimExclusive`
where `Timing` does not hold, and the other a property that no theorem states. The composition of `UserCreate` with `Ownership` is by refinement of `VaultUser`
(`Refinement` on the one side, `BindUser` taking its steps on the other) and is not a
theorem of its own.

## 5. What is not modelled

- The content of the signer message, of card designs and of `SimulateCompanyStatus`
  (which refuses always): none concerns a vault; `Lifecycle` has them as the calls they
  make.
- The arithmetic of the curve, HMAC, ECDSA itself and the encodings of keys, which
  `KeyDerivation` takes as a group, a function and a relation; `MasterFromSeed`; of the
  vaultkey tool Solana's derivation (a chain of HMACs without a decision), Ethereum
  addresses, the EIP-191 hash and `base58Encode`, which formats what is printed.
- Configuration: what it chooses appears as constants and initial states.
- The HTTP server's own timeouts for headers, bodies and idle connections. They close
  connections and stop no handler. A request's body is taken to have arrived with it:
  one that trickles in may hold up its handler for most of `readTimeout`, 30 s, which is
  more than the shutdown window; `NoRowLostToShutdown` does not speak of such a create.
- A database statement that never returns: `Lifecycle` assumes that each ends. The code
  sets no deadline, so one that hangs keeps `pool.Close`, and the process, from ending
  until a second signal. `StopsWhenTold` and `RequestsEnd` do not cover that.
- Metric names and tags (`metricPath`), path escaping (`pathf`), request validation, JSON,
  headers, logging, the wording of notifications (`notificationBody` and what it calls:
  formatting on which nothing depends).
- REAP's retention of Idempotency-Keys (a key is honoured for ever here), and a
  database restored from a backup, except for lost token rows: nonces rolled back
  would make old signatures good again.
- A shipment's entries with an empty card ID, which `shipmentCardIDs` skips.

Observations on the way:

- The repository's README (`README.md:62-64`) says the webhook endpoint "doesn't yet act on
  any event type". It notifies the vault (`webhook.go:80-126`).
- A shipment whose last card is removed is out of its owner's reach too: it names no
  owner, so every operation refuses it (`cardshipment.go:65-67`).
- `CreateCardShipment` sends no Idempotency-Key; a retry makes a second draft
  (the `shipment` run shows that both stay with the vault).
- The 20 s of `shutdownTimeout` cover a create if no statement takes more than 1.2 s,
  waiting for a connection included; one that begins after the signal, on a connection
  made before, if none takes more than 0.2 s. Requests with two REAP calls (shipments, alerts,
  simulations) may need more than 20 s and are then cut off; none of them leaves a row
  behind.
- Metrics go out on the request path, with up to 4 s between REAP's answer and the
  next statement. `UserCreate`'s `Timing` has room for it: `ReapTimeout` there is to be
  read as 14 s rather than 10 s, which leaves 23 s for a statement.
- The public `Child` does not notice a child at infinity (`bip32.go:108`) where the private
  one refuses (`bip32.go:58`). A wallet has no key there, so `AcceptsTheKey` says nothing
  about it; the chance of meeting it is that of guessing a key.
- A 3DS simulation passes its `transactionId` on unchecked (`simulation.go:114-119`), unlike
  its neighbours. What REAP makes of it cannot be told from here (`reap/client.go:627-630`
  says that not every field applies to every endpoint).
- Notifications are best effort: a crash after the event's row is stored, or an
  ownership row written after the webhook came, loses one for good.
- `POST /card` with somebody else's account is answered with a 500; other handlers
  map the same error to a 404.
- The vault is the `public_key` string as sent; two spellings are two vaults.

## 6. Plan

Done: all modules above, with proofs of the safety properties of each.

Next:

1. `UserCreate` and `Ownership` in one specification, as `CardBackend` does for `Webhook`:
   the composed handlers implement both, so that what a 2xx of `POST /user` promises is
   what `POST /card` relies on.
2. `Shipment` and `ScopedAccess` over `Ownership`'s tables: both assume of the rows what
   `RowsTellTheTruth` proves.
3. `Timing` with the pool: `DbBound` of `UserCreate` from `StoreBound` and `Served` of
   `Lifecycle`, which bounds a statement with its wait.
