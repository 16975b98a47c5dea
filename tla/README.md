# Verification of the pet-store API server

TLA+ specifications of the server in `src/`: a Gin HTTP API over three bounded
contexts (pets, store orders, users), each with an in-memory and a Postgres
backend, a partner system that is told about pets, an optional Temporal worker
that performs pet creation as a workflow, and a session purger. TLC checks the
modules on small instances; TLAPS proves theorems about them for every value of
the constants. All paths below are relative to `src/`.

## 1. Inventory

| Component | State it keeps | Operations | Talks to |
|---|---|---|---|
| Pet handlers and use cases: `generated/go/api_pet.go`, `internal/domains/pets/application` | none shared; each request is a goroutine holding a loaded aggregate | AddPet, UpdatePet, UpdatePetWithForm, GroomPet, DeletePet; read-only find, get, list, uploadImage | pet repository, idempotency store, partner, Temporal |
| Pet repositories: `internal/domains/pets/adapters/memory`, `.../persistence/postgres` | the pets; in Postgres also the id sequence | Save, GetByID, Delete, FindByStatus, FindByTags, List | called by the use cases and by the worker's activities |
| Idempotency stores (same directories) | key -> (payload hash, pet id) | Get, Save | AddPet only |
| Pet aggregate: `internal/domains/pets/domain` | none | NewPet, Rename, Groom, UpdateStatus, ReplaceTags, ... | pure |
| Partner sync: `adapters/external/partner`, `internal/clients/http/partner` | the partner's own copy of each pet (outside the repository) | Sync, an HTTP PUT with a five-second timeout | called after every save |
| Temporal creation: `adapters/workflows/orchestrator.go`, `internal/platform/temporal`, `cmd/worker` | executions per workflow id, activity attempts, heartbeats (in Temporal) | CreatePet, PersistPet, SyncPetWithPartner | pet repository, partner |
| Store orders: `internal/domains/store` | the orders and their ids | PlaceOrder, GetOrderByID, DeleteOrder, GetInventory | its two repositories |
| Users and sessions: `internal/domains/users`, `cmd/session-purger` | accounts, sessions with an expiry | create, update, delete, login, logout, purge | its two repositories, two session stores |
| Process wiring: `internal/app/api`, `cmd/worker/main.go`, `internal/platform/postgres`, `.../migrations` | which backend and which creation path a process uses, for as long as it lives | Run, LoadConfig, Connect, the memory fallbacks, the migrations, the health endpoints | everything |
| Telemetry, generated client, router | exporters | none of the program's own logic | not modelled |

Behaviours that are hard to test, and what would make each component correct:

* **Pets.** Every request runs concurrently with every other one, and a use case
  makes several calls to shared stores with nothing held between them. Correct
  means: one key stands for one payload and one pet, however requests race and
  wherever they fail; a retry that comes after the fact never saves again; an
  update nobody interfered with changes what it was asked to change; the partner
  ends with what was stored.
* **Temporal creation.** Activities are retried after crashes and timeouts, a
  second start under one workflow id joins the first, and persistence and partner
  sync are separate activities. Correct means: one workflow is one pet, attempts
  do not repeat what an earlier attempt finished, and no update is undone.
* **Orders.** Ids come from the client or the backend, and the inventory is a sum
  in 32 bits. Correct means: an id given out is nobody's, `Save` answers with the
  order it saved, no quantity is lost from the sum.
* **Users and sessions.** Logins race deletes and purges across two stores without a
  transaction. Correct means: sessions end with their accounts, purges take what
  has expired and nothing else, an update keeps an account's id.
* **Wiring.** API and worker choose their backend independently, once, and only the
  API migrates and gives up. Correct means: a key is bound once in every store,
  an answered pet stays where it was stored, no execution of an API in Postgres
  meets a database that lacks a table, and callers are answered while a worker is there.

`PROJECT.json` lists each hazard at the line where it bites, with the property
that covers it or the reason why none does yet.

## 2. Plan

In order of importance. All modules are written, with their runs and proofs.

1. `KeyRegistry`: what an idempotency key promises (abstract).
2. `PetService`: pets with inline creation, both backends, partner; implements
   `KeyRegistry`. Proofs in `PetServiceProofs`.
3. `PetWorkflow`: the Temporal path; implements `KeyRegistry` too. Proofs in
   `PetWorkflowProofs`.
4. `UserSessions`: accounts, sessions of both stores, login racing delete and
   purge. Proofs in `UserSessionsProofs`.
5. `OrderStore`: ids given and chosen on both backends, what `Save` answers, the
   inventory's 32-bit sum. Proofs in `OrderStoreProofs`.
6. `PetAggregate`: one pet's fields on the way through the wire, the aggregate's
   rules, the columns of its row, the queries, the partner's payload and its hash.
   Proofs in `PetAggregateProofs`.
7. `Deployment`: the processes around their shared services, from start to end;
   implements `KeyRegistry` once per store. Proofs in `DeploymentProofs`.

`SetFolds` has no state: it proves what the folds of the community modules
compute, for `OrderStoreProofs` and `PetAggregateProofs`.

What could come next: lemmas of `OrderStore` and `PetAggregate` that are stated
about one fold each could be stated about any; the hazards without a property in
`PROJECT.json`, where a document says what the code should do.

`PetService`, `PetWorkflow` and `Deployment` implement `KeyRegistry`: both creation
paths make the same promise about keys, by different means, and a deployment
makes it for each of its stores. `Deployment` composes what the first two take
apart: it takes their creations as one step (the service's `AddPet`) or two
(the execution's activities) and adds the processes that perform them.

## 3. The modules

### KeyRegistry

`bound[k]` is the record key `k` is bound to, `answered[k]` the records its 200
answers were given for. A free key may be bound, a bound one never changes, and
answers are for the bound record. `Forget`, the loss of everything at a restart,
is only there when the registry is not `Durable`.

### PetService

A *client* is one HTTP request goroutine after another. `pc[c]` is the next call
it makes to something shared, so that a TLA+ step is one critical section or one
SQL statement and any other request may run between two of them.

| Variable | In the code |
|---|---|
| `pets` | the `pets` map, or the `pets` table |
| `seq` | the sequence behind the `pets.id` column |
| `idem` | the idempotency map or table |
| `partner` | what the partner received last for each id |
| `pc`, `req`, `held`, `syncFailed` | a goroutine: where it is, its input, the aggregate it holds, `syncErr` |
| `reply` | the status of the last HTTP answer |
| `answered`, `stale`, `overtaken`, `late` | history variables, read by no guard: answers per key, ids the partner may disagree about, copies written over by someone else, requests that came when their key was bound |

A keyed create walks `handlerLookup` (`tryReplayIdempotent`), `serviceLookup`
(`Service.AddPet`), `save`, `reread` (Postgres reads the row back in a second
statement), `sync`, `record`, and `recheck` when the connection translates a
unique violation; a replay goes to `reload`. Updates walk `load`, `save`,
`reread`, `sync`. `DeletePet` is one repository call.

The two pet fields `name` and `hair` stand for all: a form update can reach the
first and not the second, grooming the second and not the first, and the
partner's payload has the first only (`ToPayload`). A fingerprint is the input
itself without its key, so hashes do not collide. A payload the aggregate
refuses is the single value `Invalid`. In memory a pet without id is stored under
key 0; in Postgres the sequence supplies the id and knows nothing of ids the
clients chose.

Failures: any SQL statement may fail (`StoreFails`), with or without having taken
effect: a pet whose upsert is committed and not heard of is one whose reread
fails, a record committed and not heard of is `RecordUnheard`, and a deletion has
no step after it whose answer could matter. A process may die and
leave its writes in the database (`Abandon`), a memory process may restart and
forget everything (`Restart`), and the partner call may fail with or without
having been applied (`SyncFails`).

### PetWorkflow

The handler of `POST /pet` looks a key up and starts an execution, or joins the
one that runs under the same workflow id; a worker performs its two activities.
API and worker share one Postgres.

| Variable | In the code |
|---|---|
| `pets`, `seq`, `idem`, `partner` | as above, with a pet's `partner_sync_hash` attribute |
| `pc`, `req`, `reply` | an API request: where it is, its input, its answer |
| `stage[f]` | the next step of execution `f`; `closed` when none runs |
| `attempt[f]`, `made[f]`, `beaten[f]` | what Temporal keeps: the attempt's number, the result of `PersistPet`, the heartbeat details |
| `input[f]`, `held[f]` | the execution's request, the aggregate in the attempt's hands |
| `answered`, `overtaken` | history: pets each key was answered with, writes by others to the pet an attempt has loaded |
| `chosen`, `deleted` | history: ids that clients chose and the sequence has not reached, ids whose pet was deleted |

`PersistPet` walks `persistTask`, `lookup`, `replay` or `save`, `reread`,
`record`, `persisted`; `SyncPetWithPartner` walks `syncTask`, `load`, `send`,
`mark`, `remark`, `beat`, `synced`. `AttemptFails` may strike at any step (an
error, a timeout, a dead worker); `Retry` starts the activity again from its
first step until the policy's attempts are used up, then the execution fails and
its callers with it.

The Temporal server is external, and modelled by its contract: one running
execution per workflow id, one attempt of an activity at a time, the retry
limits of the code's policies, heartbeat details handed to the next attempt. A
lost attempt makes no further call, because its context ends with its timeout
and every call it makes takes that context. The partner hash is a hash of the
title and of the attributes, the previous hash among them; the chain of hashes
is folded to a parity, which tells apart exactly consecutive ones. Updates and
deletes through the API are one step each here, because `PetService` has their
steps; an unkeyed request's workflow id, its pet id (or the time) and its trace id
in the code (`orchestrator.go:91-99`), is the client's own name.

### UserSessions

The use cases of `users/application/service.go`, with one step per call of a
store. `backend` is chosen in `Init`, so that one run covers both.

| Variable | In the code |
|---|---|
| `users` | the accounts by name (folded to lower case in memory, as spelled in Postgres) |
| `seq` | the sequence behind `users.id` |
| `sessions` | the session map or table; a token is its user and the time it was made |
| `now`, `cutoff` | the clock, and the time a purge under way compares with |
| `pc`, `op`, `todo`, `at` | a call: where it is, which use case, the accounts it is still to handle, the time in its token |
| `crossed` | history: the account was deleted (for an update, written) by another call since it was loaded |

The HTTP login and logout endpoints check the password themselves and keep no
session, so sessions exist for callers of the service. `CreateUsers` saves a
list one account at a time and stops at the first error. `DeleteUser` drops the
sessions, ignoring an error, and then the account. Payloads arrive validated.
A token is its user and the nanosecond it was made: two logins of one user in one
tick of the model share a token.
One purge runs at a time (a bound), and only in Postgres.

### OrderStore

| Variable | In the code |
|---|---|
| `orders` | the order map, or the `orders` table; quantity and status stand for an order's fields |
| `lastId` | `nextID` of the memory store, the sequence behind `orders.id` |
| `pc`, `held` | a request: where it is, the order in its hands |
| `used`, `chosen`, `wrapped`, `crossed` | history: ids ever stored under, those clients chose, a counter past its maximum, a row written between `Save`'s two statements |

`MaxId` and `MaxQuantity` are the largest 64-bit and 32-bit integers, not bounds
of the model: the run takes tiny ones, the proofs any. The memory counter wraps
as Go's `++` does; the sequence ends with an error. The inventory is an operator
on the orders listed, because one call of the store reads them all.

### PetAggregate

The same calls go to two deployments, one in memory and one in Postgres, one
after the other: what differs is what happens to the data.

| Variable | In the code |
|---|---|
| `memory` | the pet in the memory store's map |
| `row` | its row of the `pets` table, with tag ids and tag names in two arrays |

A call is a payload (`Creates`, `Updates`, `Forms`, `Grooms`) or a delete; refused
payloads are among them and change nothing. `FromCreate`, `WithForm`, `Applied` and
`Answer` say which fields are present when: a creation drops empty tags, status
and hair length, an update keeps them, a category or a reference that is empty
is absent on both, so that no update ever removes one. `ReplaceTags`, `Refuses` and
`Groomed` are the aggregate's methods, `ToRecord` and `ToDomain` the mapping to
columns and back. Names are a few words with `strings.TrimSpace` and
`strings.ToLower` as functions on them. The two loops over tags (`KeepFirst` of
`ReplaceTags`, `KeepNamed` of `extractTagNames`) are folds from the left. Photos and hair length
are what the properties need of them: a list that may be empty, a number that may
be negative. The partner hash is the tuple that is hashed, with the bag of tags
for their sorted list. `ToDomainPet` and `FromPayload` are called by nothing and
left out.

### Deployment

One API and one worker, each *down*, on its way up (`migrate`, `dial`) or *serving*.

| Variable | In the code |
|---|---|
| `inline`, `partner` | `TEMPORAL_DISABLED`, `PARTNER_API_BASE_URL`: the environment, the same at every start |
| `up` | Temporal answers |
| `tables` | which of the tables `pets` and `pet_idempotency_keys` exist |
| `phase[p]`, `db[p]` | where process `p` is in `Run` or `main`; whether `db` is not nil |
| `pets[s]`, `keys[s]`, `seq` | the three stores: the database, the memory of the API, the memory of the worker |
| `run[k]` | the execution of key `k` in Temporal: its activity, attempt, heartbeat, the pet it made |
| `pc`, `key` | an API request |
| `answered`, `deleted`, and `store` and `wired` of `run[k]` | history: pets answered per store and key, pets deleted, the store an execution's pet is in, whether its API was in Postgres |

`Start` includes the one attempt to connect: whatever the reason (no DSN, a failed
ping), a process without Postgres keeps to its memory until it ends. `Migrate` is
the API's only and makes one table after the other, so that an API that ends in
between leaves the first one alone; the other three tables are no keyed create's
matter. `Dial` needs Temporal, unless the API runs inline; `GiveUp` is
the way out of both (`run.go:70-72`, `:115-117`, `main.go:75-78`). `Exit` takes the
process's memory and the API's requests with it; executions stay in Temporal,
and the next worker goes on with them in the store *it* is wired to. Outages of
Postgres are statements that fail: `Fail` and `Retry` are always possible there.

A process is started again any number of times, nothing bounds the starts. The
requests carry one payload without an id, since mismatches and chosen ids are
`PetService`'s and `PetWorkflow`'s matter; so are the steps inside `AddPet` and inside
an activity, of which this module keeps the outcomes: saved but not recorded,
recorded but answered with a partner failure, done but the result lost.

## 4. The runs

Every run but `fields`, which has none, has two clients, enough for each race of
two calls; bounds are named in each `.cfg`. Deadlock is checked in all of them.

| Run | Instance | Shows |
|---|---|---|
| `memory` | memory, one key, ids 0 and 1, AddPet and DeletePet, failing partner, restarts; 180 652 states | `TypeOK`, `OneFingerprintPerKey`, `LateRequestsNeverSave`, `AnsweredCreatesAreRecorded`, `ImplementsRegistry`, and, under `FairSpec`, `RequestsAreAnswered` |
| `postgres` | Postgres with error translation and partner, one id, one key, keyed creates of a pet with and without an id, unkeyed ones of its opposite, two names, two lengths, every operation, failing statements, dying processes; 993 290 states | the branch that looks a taken key up again keeps `LateRequestsNeverSave` and `AnsweredCreatesAreRecorded`; `PartnerAgrees`, `IsolatedUpdateTouchesOnlyItsFields` |
| `keyed` | Temporal, one key, payloads with and without id and a refused one, ids to 2, deletes, two attempts of the first activity and one of the second; 465 544 states | `TypeOK`, `KeyIsFree`, `RecordedPetsExist`, `AssignedIdsOverwriteChosenOnes`, `ImplementsPetRegistry`, and, under `FairSpec`, `CallersAreAnswered` |
| `writers` | Temporal, two unkeyed executions on one id, updates and deletes; 2 554 735 states | `CompletedRunsAreSynced`, `MarkChangesOnlyTheHash` |
| `users` | both backends, two names that fold to one, a list whose second id is taken, two passwords, one tick of lifetime; 266 683 states | `TypeOK`, `SessionsHaveAccounts`, `IsolatedUpdatesKeepTheId`, `LiveSessionsEndByUser`, and, under `FairSpec`, `ExpiredSessionsArePurged` |
| `orders` | both backends, ids from -3 to 2, quantities to 3, six valid payloads and a refused one; 463 727 states | `TypeOK`, `AssignedIdsAreFresh`, `SavedOrdersAreAnswered`, `InventoryIsTheTotal` |
| `fields` | five words that differ in case and blanks, 21 payloads for creation, 24 for updates, 9 forms, 3 groomings, deletes; 3 565 states | `TypeOK`, `BackendsAgree`, `QueriesAgree`, `NamedTagsAreUnique`, `PutBackChangesNothing`, `HashCoversPayload` |
| `deployment` | an API and a worker, one key, sequence ids to 2, two attempts each, every environment; 233 568 states | `TypeOK`, `AnsweredPetsAreStored`, `CreationsFindTables`, `ImplementsRegistry`, and, under `FairSpec`, `CallersAreAnswered` |
| `twopets` | Postgres as `run.go` opens it | violated: two identical creates without id leave two pets (`ports/idempotency.go:21`) |
| `takenkey` | Postgres as `run.go` opens it | violated: a taken key ends in a bare failure (`idempotency_store.go:40-41`) |
| `mismatch` | as `keyed`, ids to 1, two attempts each, no deletes | violated: a mismatching payload joins the running execution and is answered 200 (`README.md:46`) |
| `resent` | as `mismatch` | violated: a retry sends the unchanged pet again (`activities/pets/pet.go:115`) |

**Bounds.** One key is enough for the idempotency properties: nothing relates two
keys, a store is read and written one key at a time. Two ids give a keyed create
a pet of its own and one to collide with. `postgres` has one row for all to race on
and two values of each field, so that each can be seen to change without the
other; the sequence's own races are in `twopets` and `keyed`. There the sequence can give
out two ids: an attempt lost after its save is followed by one that saves again
under the next, and a creation without an id meets the pet of another one as well as
one whose id a client chose. Two attempts per activity (the code has five and three)
are one to be lost and one that is the last; every further one is another lost one.
`keyed` has a single attempt of the sync activity, whose loss ends the execution;
its retries are in `writers`.
In `users` one tick of lifetime and two times are enough for a session to expire
between the two steps of a purge. In `orders` the widths are small enough for
counter and sums to wrap. In `fields` the tag lists have one of each kind the
code tells apart (equal up to case, blank, unnamed before and after a named one,
none), and a pet meets every sequence of them. In `deployment` two clients are one
to start an execution and one to join it, and two ids are one for the pet of a
lost attempt and one for its retry; the number of starts is not bounded. Symmetry over the clients is used where no
liveness is checked.

**Fairness.** In `PetService`, weak fairness on the next step of each goroutine and
nothing else: the Go scheduler runs every runnable goroutine, the mutexes of the
memory stores are held for one map access, gorm calls return, and the partner's
HTTP client gives up after five seconds (`internal/clients/http/partner/client.go:39`).
In `PetWorkflow`, the same for handlers, and weak fairness on the work of each
execution: a worker polls for tasks, and an attempt that hangs is ended by its
StartToClose timeout (`pet_persistence_sequence.go:19` and `:28`) and retried or
given up. In `UserSessions`, weak fairness on the start of a purge, since the
ticker goes on after an error (`run.go:240-255`; the purger runs when
`SESSION_PURGE_INTERVAL_MINUTES` is set), and strong fairness on its delete: a
statement tried again and again is not refused for ever. In `Deployment`, the
same as in `PetWorkflow`, for requests of a serving API and tasks of a serving
worker; that a process is started again or that Temporal comes back is not
assumed, and the property says so: callers are answered unless the worker or
Temporal is away again and again. Arrivals, failures, deaths and restarts are
never assumed.

**What documents say otherwise**, found while modelling and not the subject of a run,
because each is a single statement of the code that the model takes over as it is:

* `docs/pet-domain-layers.md:84`: "Partner sync failure after save → response includes
  saved pet; sync error surfaces". The service does return the pet with the error
  (`service.go:81-83`), but the decorator drops it (`observability/service.go:80-84`), so
  that the answer carries no pet; a retry under the same key is then a plain 200.
* `docs/pet-domain-layers.md:81`: "Domain validation ... → 400-level response". So it is
  inline; through Temporal the refused payload is retried (`PersistRefuse`), loses its
  kind, and is a 500.
* `description.md:23`: "Temporal client if reachable ..., otherwise inline execution". An
  API that cannot reach Temporal at its start ends (`run.go:113-117`, `GiveUp`);
  `docker-compose.yml` starts it when Temporal's container is started, not ready, and
  never again.
* `session_store.go:43`: sessions are "keyed by username". In Postgres each login of one
  user is a row of its own (`Replaced`), where the memory store keeps one per user.

`docs/pet-domain-layers.md:75` ("heartbeat prevents duplicate sends after success") is
what `resent` shows to be untrue together with the comment it quotes: the attempt is
lost after the partner's success and before the heartbeat. The same run shows that the
comparison with the stored hash (`pet.go:107`) never holds, so that
`HashCoversPayload` is about the hash alone, as something an unchanged pet could be
told by, and about no skip the code takes.

**Partings that no document settles**, and that no run therefore calls wrong: a replay
after a delete answers 404 for good; a create that loses the race for its key is
answered 409 after its own pet was saved and sent to the partner; an attempt lost
between save and record of a pet without id leaves a second pet behind; a worker that
falls back to memory answers for pets that an API in Postgres does not find, an API
that falls back to memory may start executions on a worker whose Postgres has no
tables yet (their attempts fail, their callers are answered), and `/readyz` of a
process in memory reports "disabled" with 200; an order placed without an id in
Postgres may overwrite one whose id a client chose (`OrderStore`'s `chosen`), and
in memory after the counter wrapped; the inventory of a status is negative when
its total passes 2147483647; a tag without a name before one with a name
shifts the names in Postgres (`extractTagNames` skips it, `extractTagIDs` does
not), where memory keeps them in place; a query for the empty tag name finds pets
with such a tag in memory only.

**Premises.** Where the code lets one request undo another, the properties say what
holds for those it does not happen to: `overtaken` in `PetService` and `PetWorkflow`,
`stale` for the partner's copy, `crossed` in `UserSessions` and `OrderStore`, `wired` in
`Deployment`. They are history variables that name the race and nothing more, so
that the property fails as soon as anything else breaks it; the race itself is a
behaviour of the code that no document calls wrong.

## 5. The proofs

All from the modules' named assumptions on the constants only, for any sets of
clients, ids, keys, names and field values, any widths of integers and any number
of attempts. The assumptions say that distinguished values differ from ordinary
ones, that bounds are naturals, and in `UserSessions` that folding names is
idempotent. Those of `PetAggregate` are about `strings.TrimSpace` and
`strings.ToLower` (the empty name is trimmed to itself, lower case leaves no name
empty that was not, doing either or both again changes nothing), and about
payloads: the types of their fields, and that name and photos are never absent
on creation, where they are no pointers (`generated/go/model_pet_create.go`).
Each is evaluated by TLC in the runs of its module.

| Module | Theorem | States |
|---|---|---|
| `PetServiceProofs` | `TypeCorrect` | `Spec => []TypeOK` |
| | `OneFingerprint` | `Spec => []OneFingerprintPerKey` |
| | `LateNeverSaves` | `Spec => []LateRequestsNeverSave` |
| | `CreatesAreRecorded` | `Spec => AnsweredCreatesAreRecorded` |
| | `RegistryImplemented` | `Spec => ImplementsRegistry` |
| | `PartnerInAgreement` | `Spec => []PartnerAgrees` |
| | `UpdatesAreIsolated` | `Spec => IsolatedUpdateTouchesOnlyItsFields` |
| `UserSessionsProofs` | `TypeCorrect` | `Spec => []TypeOK` |
| | `SessionsOwned` | `Spec => []SessionsHaveAccounts` |
| | `UpdatesKeepTheId` | `Spec => IsolatedUpdatesKeepTheId` |
| | `LiveSessionsEndOneUserAtATime` | `Spec => LiveSessionsEndByUser` |
| `OrderStoreProofs` | `TypeCorrect` | `Spec => []TypeOK` |
| | `AssignedIdsFresh` | `Spec => AssignedIdsAreFresh` |
| | `OwnOrdersAnswered` | `Spec => []SavedOrdersAreAnswered` |
| | `InventoryTotals` | `Spec => []InventoryIsTheTotal` |
| `PetWorkflowProofs` | `TypeCorrect` | `Spec => []TypeOK` |
| | `RetriesFindTheirKey` | `Spec => []KeyIsFree` |
| | `RecordsHaveTheirPets` | `Spec => []RecordedPetsExist` |
| | `AssignedIdsAreNew` | `Spec => AssignedIdsOverwriteChosenOnes` |
| | `CompletedRunsInSync` | `Spec => []CompletedRunsAreSynced` |
| | `MarksAreIsolated` | `Spec => MarkChangesOnlyTheHash` |
| | `PetRegistryImplemented` | `Spec => ImplementsPetRegistry` |
| `DeploymentProofs` | `TypeCorrect` | `Spec => []TypeOK` |
| | `AnsweredPetsStay` | `Spec => []AnsweredPetsAreStored` |
| | `CreationsFindTheirTables` | `Spec => []CreationsFindTables` |
| | `RegistriesImplemented` | `Spec => ImplementsRegistry` |
| `PetAggregateProofs` | `TypeCorrect` | `Spec => []TypeOK` |
| | `BackendsInAgreement` | `Spec => []BackendsAgree` |
| | `QueriesInAgreement` | `Spec => []QueriesAgree` |
| | `TagsStayUnique` | `Spec => []NamedTagsAreUnique` |
| | `PutBackIsIdentity` | `Spec => []PutBackChangesNothing` |
| | `HashesCoverPayloads` | `Spec => HashCoversPayload` |

The theorems about `PetService` hold for both backends, with or without
translation and partner. In particular `RegistryImplemented` covers Postgres as
`run.go` opens it, of which only `twopets` and `takenkey` run an instance.

None of the properties is inductive alone. The invariants are built in layers,
each proved on top of the one before. In `PetServiceProofs`:

* `Typed`: `TypeOK` and `Placed`, which says what a goroutine at each `pc` has in
  hand (an update at `save` holds a pet, only a keyed create is at `record`, ...).
  Types alone would not survive a step, because `Answer` and the saves depend on
  what the request is.
* `KeysInv`: `OneFingerprintPerKey`, plus `Replaying` (a goroutine at `reload` has
  the key's record for its own fingerprint and that record's pet) and `LateBound`
  (a late request's key is bound and the request is on a lookup or a replay).
  The registry's refinement and `CreateIsRecorded` follow step by step.
* `CopiesInv`: `RowZero` (in Postgres nothing is ever under id 0), `PartnerAgrees`
  and `CopyOK` (the copy a goroutine holds at `save` or `sync` is the row, unless
  someone overtook it).

In `UserSessionsProofs`:

* `Typed`: `TypeOK` and `Purging`, which bounds a purge's time by the clock.
* `Owners`: a row is *kept* when it has an account and no delete has dropped the
  row's sessions and not yet the row. Every session not excused belongs to a kept
  row (`SessionKept`); so does every login that has loaded its account and was not
  crossed (`LoginKept`), which is what makes the session it saves next belong;
  and an update not crossed still finds the account it read, id and all
  (`UpdateKept`). `SessionsHaveAccounts` alone does not survive the delete's second
  step: it is the drop of the sessions before that makes it safe.

In `OrderStoreProofs`:

* `Typed`: `TypeOK`, and only Postgres reads back.
* `Counted`: in memory no id was used beyond the counter unless it wrapped; in
  Postgres only chosen ids were used beyond the sequence. `AssignedIdsAreFresh` is
  a property of one step and says nothing of the counter; this does.

`LiveSessionsEndByUser` needs `Typed` only: `OneUserEnds` names, for each action,
the one user whose sessions it may end, and a purge none that are live, because
its cutoff is not past the clock; `KeepsIsEnough` turns "everyone else keeps
theirs" into the cardinality the property counts.

`InventoryIsTheTotal` is an induction over the set of orders. It compares two
folds, one that wraps at 32 bits after every addition and one that does not, and
each step of the induction takes one order out of both.

In `PetWorkflowProofs`:

* `Typed`: `TypeOK`, and what an execution and a handler hold at each step
  (`PlacedFlow`, `PlacedCaller`): a pet where one was saved or loaded, its id in the
  second activity.
* `KeysInv`: while an execution is between `save` and `record` its key is free, and
  from `replay` on the key is bound to the pet the execution goes on with
  (`KeyOK`). `KeyIsFree` alone says nothing of what an attempt leaves to the next;
  the binding does, and is what the refinement takes its answers from.
* `RowsInv`: `RecordedPetsExist`, plus that every pet in the table has an id that
  the sequence gave out or a client chose, and that an execution's pet is there
  (`RowsOK`) between its save and its record.
* `SyncInv`: until somebody overtakes an execution, the copy it holds is the row
  (`Current`) and, once sent, what the partner has (`Told`); heartbeat details imply
  it too (`beaten`), which is what lets a retry skip the call.

In `DeploymentProofs`, `TypeOK` is inductive alone. `DeploymentInv` adds what spans
the ends and starts of processes: an API past its migration has both tables, requests
are with a serving API, every answered pet is in its store or was deleted there,
and what an execution has in a store is bound to its key in that store for as
long as the store lives. For the refinements every action is one `StoreStep` of
each store (nothing, a binding, an answer, or a memory forgetting everything),
and each kind of `StoreStep` is a step of `KeyRegistry`.

In `PetAggregateProofs` one invariant, `FieldsInv`, carries all but the last theorem:
the pet in memory is well formed (`PetOK`: `TypeOK`, plus a trimmed category and a
reference that are not empty ones, and clean and unique tags), and **the row is the
record of the pet in memory**. It is the record that survives and not the tags:
the columns may move a name to another tag, but a second trip through them
changes nothing more (`ColumnsComeBack`). `LoadedPets` says what a load gives for a
well-formed pet, `AppliedOK` that an accepted change leaves one, `AppliedAlike` that
the same change to two pets of one record leaves two such pets. About the loops over
tags, `ReplacedTags` says that what they leave is clean and unique and that such
tags stay as they are, `NamesKept` that no named tag is lost, none is made up, and
aligned ones stay in place. `HashesCoverPayloads` compares two pets directly.

**Induction over data.** The library's induction rules take an operator, which
the provers cannot instantiate. These proofs take a smallest counterexample
instead: `SmallestSubset` of `SetFolds` (from the well-foundedness of strict
inclusion on the subsets of a finite set, a fact and not a rule) and, for prefixes
of a list, `SmallestNumber`. A fold is a recursive function chosen inside of
the community modules' definition; `SetFolds` proves that it satisfies its two
equations on every finite set, and each fold of the models is an instance of that
module with its own operator, base and choice of the next element.

Each `TypeCorrect` has one case per action; the later layers group the actions
that leave their variables alone through frame lemmas (`KeysFrame`, `CopiesFrame`,
`OwnersFrame`), and have one lemma or case per action that does not. Every layer
was checked by TLC as an invariant of its module's run before it was proved.

Only model-checked: liveness under fairness (`RequestsAreAnswered`, both
`CallersAreAnswered`, `ExpiredSessionsArePurged`), which is out of the prover's
reach, and the violated statements, which are counterexamples. Every invariant
and action property that a passing run checks is proved.

## 6. Not modelled

* Reads other than the two queries of `PetAggregate`, and `UploadImage`: they change
  no state.
* JSON binding, rendering, logging, metrics and tracing.
* The decorators in `adapters/observability` and `internal/platform/observability`: they
  pass every call on and nothing reads what they write.
* Generated HTTP client and router: generated code without state.
* `AutoMigrate` on a schema that differs, which it would alter: a table is there as
  it should be or not at all. The tables of orders, users and sessions: their
  modules take them for granted.
* A worker and an API with different environments, and several of each: every
  process meets every outcome of its own start, and what two processes of one
  kind share they share through Postgres or Temporal.
