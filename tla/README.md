# SirenaIX messaging gateway: a TLA+ development

The gateway connects tenants' phones (Google Messages, through `pkg/libgm`) to an
HTTP/Kafka API. All durable state is in Postgres; several gateway processes may
run at once, and any of them may stop, pause or die at any point. What is hard is
therefore not any single function but the protocol between processes, their
goroutines, the database rows they share and a provider that answers late or not
at all. This directory models that protocol, checks it with TLC on small
instances and proves its central safety properties with TLAPS.

## 1. Inventory

Paths are under `src/internal/gateway/` unless they start with `pkg/` or `cmd/`.

| Component | State | Operations | Hard behaviour |
|---|---|---|---|
| Connection lease (`store/postgres/connection_actor.go`) | `connection_leases`: owner, fencing token, expiry | acquire, renew, release, control-plane fence | expiry against a paused owner, restart under the same owner id, token reuse |
| Connection actor (`connectionactor/`) | generation state, session snapshot and pending session, `connection_actor_health`, pool tombstones | run, renew, debounce and swap the session, tear down, back off, quarantine, resume | callbacks against the loop, join timeouts, writes after the lease is lost |
| Control plane (`store/postgres/connections.go`) | `connections.state`, `connection_sessions` | create, begin, restore and commit a pairing, require reauthorization, quarantine | against a running or a starting generation |
| Outbound dispatch (`messaging/dispatch.go`, `store/postgres/dispatch.go`) | `messages`, `message_lanes`, `message_attempts`, `message_status_history` | list, claim, recover, begin I/O, renew, complete, release | crash between any two transactions, lost replies, late completion |
| Provider sender (`provider/gmessages/messaging_runtime.go`) | none | `SendOnce` as an actor operation | operation outlives its caller or its generation |
| Message state (`domain/message.go`) | none | fold of the status history | receipts in any order |
| Submission (`messaging/service.go`, `CreateOutbound`) | `messages`, `message_idempotency`, command audit | create once per key, read, list | lost answers, shared and conflicting keys, Kafka redelivery |
| Ingress (`ingress/`, `durable_sink.go`, `CommitEnvelope`, libgm's ACK queue) | inbox, reservations, rejected responses, pending ACKs | commit an envelope, poison, coordinate ACKs | persist before ACK, redelivery, conflicting duplicates, bounded queues |
| Canonical lanes (`RecordCreatedConversationFenced`) | ordering key of a conversation | move a conversation to the lane that created it | queued and open work while it moves |
| Webhooks (`webhook/`, `store/postgres/delivery.go`) | endpoints, secrets, deliveries, claims, DLQ | create, rotate, delete; claim, admit, renew, complete, replay | late workers, revocation and rotation while a request is in flight |
| Kafka (`kafka/`) | offsets, dead letters, outbox claims | handle, dead-letter, commit; claim, publish, mark | rebalances, a record that may not be passed, lost commits |
| Pairing (`pairing/service.go`, `provider/gmessages/pairing.go`, libgm's `pair*.go`) | attempt registry, handle, connection row | start, select, approve, complete, cancel, sweep, reconcile | late completion, cleanup retries, foreign answers |
| Media (`media/`, `store/postgres/media*.go`) | objects, rows, fetch jobs | upload, claim, fetch, complete, read | overlapping workers on one object, repeated downloads, parsing limits |
| Backfill (`messaging/backfill.go`, `backfill_runtime.go`, `store/postgres/backfill.go`) | checkpoints, cursor history and budget | stage a page, mark items, complete | change of owner in the middle of a page, poison, looping cursors |
| Contacts (`contacts/`, `contactsync/`, `store/postgres/contacts.go`) | contacts, identities, labels, aliases | sync, create labels, list | handlers of several transactions that interleave |
| Supervisor (`app/supervisor.go`, `app/gateway.go`, `main.go`) | failure counters, loops, servers | discover, dispatch, drain, back-fill, stop | error budgets, shutdown order |
| Tenant administration (`store/postgres/tenant_admin.go`) | tenants, suspended states | provision, suspend, resume | statements against actors, pairings, quarantines |
| Migrations (`store/postgres/migration_runner.go`) | ledger, schema, advisory lock | adopt, apply, record, check readiness | crash or lost answer around a commit, releases that disagree |
| Google Messages client (`pkg/libgm`) | generations, waiters, pings, tokens | connect, poll, reconnect, reset, request | joins that wait on their caller, channels closed by two parties |
| Bridge (`pkg/connector`) | message rows, resyncs, logins, phone alert | send, echo, update, resync, login | events in any order and repeated |
| Others | | | session vault, HTTP parsing, auth, metrics, generated protobuf code |

Interaction: the supervisor starts actors and dispatches lanes; the dispatcher
runs its send *inside* the actor of the connection (`Pool.Execute`); every
durable write of a generation repeats the lease fence; provider events return
through the ingress, which also changes message states; webhooks and Kafka drain
the events those transactions insert; the control plane and tenant administration
change connection states and fence leases from outside.

What makes each part correct: a fencing token names one owner and handover
advances it; the stored session is never lost or rolled back; a message reaches
the wire at most once, its lane and its conversation are serial, its visible state
is the fold of its history, and it eventually leaves the queue; inbound data is
durable before it is acknowledged and announced once; an event reaches every
endpoint that was there for it; a committed Kafka offset hides nothing; a late
attempt of anything changes nothing; whatever is stopped ends.

The hazards, each with the line where it bites and the properties that cover it,
are in `PROJECT.json`.

## 2. Modules

| Module | Models | Role |
|---|---|---|
| `ConnectionLease` | the lease row and the tokens generations hold | abstract protocol; base of dispatch, actor, ingress and backfill |
| `MessageState`, `StatusHistory` | `domain/message.go`; the history of one message | pure operators, checked against a declarative reference |
| `OutboundDispatch` | dispatch, recovery, the operations of the actor, provider evidence | composes lease, fold and dispatch |
| `OutboundPromise` | what the submission API promises of one message | abstract specification, implemented by `OutboundDispatch` |
| `ConnectionActor` | `Actor.Run`, pool, health, session, control plane | composes actor and lease |
| `Ingress` | `CommitEnvelope`, durable sink, ACK coordination | composes libgm's ACK queue, store and lease |
| `Backfill` | listing and conversation pages, checkpoints | composes worker, store and lease |
| `CanonicalLane` | lanes of conversations | |
| `Submission` | submissions over HTTP and Kafka, reading them | |
| `MediaStore`, `ImageScan` | fetch jobs and uploads; the image inspection | `ImageScan` is a pure walk against a definition |
| `ContactBook` | contacts, labels and their handlers | |
| `WebhookDelivery`, `WebhookRegistry` | deliveries and workers; endpoints and secrets | |
| `KafkaBridge` | command consumer and outbox worker | |
| `Pairing`, `LoginFlow` | attempts and the connection row; the exchange with the phone | |
| `TenantControl` | tenant administration against connections and actors | |
| `Migrations` | migration runner, readiness | |
| `Supervisor` | loops, servers, exit of the process | |
| `ClientLifecycle`, `PhoneLink` | generations of the client; requests, pings, the alert | |
| `BridgeRoom` | messages of a bridged room | |
| `MC*` | | constants, symmetry and the sums of section 3 |
| `ConnectionLeaseProofs`, `ConnectionActorProofs`, `OutboundProofs` | | theorems on the lease and on what runs under it |
| `MessagingProofs`, `ContentProofs`, `PlatformProofs`, `PhoneProofs` | | theorems on lanes, submission, backfill, ingress; media, images, contacts; tenants, pairing, supervisor, webhooks, Kafka, migrations, the fold; client, link, room, login |
| `PagingLemmas` | | least and greatest elements, and what a page after a cursor leaves out |

### ConnectionLease

`lease` is the row: `live` is the result of `expires_at > clock_timestamp()`, the
only thing the code ever does with the time, so time passing is the action
`LeaseLapses` and a successful renewal is a stuttering step. `held[o]` is the token
in the memory of process `o`'s generation: it outlives the lease (a paused
process) and dies with the process. `AcquiredToken` is the `CASE` of the acquire
statement: only the unexpired lease of the same owner keeps its token.

### OutboundDispatch

One connection, any number of processes, lanes and messages. Every store
operation is one transaction that locks the connection row first, so it is one
action; between two of them anything may happen. `disp[o][l]` is the
`DispatchLane` call of a process on a lane:

    idle -> listed -> claimed -> sending -> responding -> completing -> idle
                         \-> releasing -> idle

`att[l][t]` are the attempts by lane token, `op[l][t]` the goroutine of the actor
operation run for an attempt, `sends[m]` counts `SendMessage` calls on the wire
(an observation variable), `derived[m]` the fold of the message's status history,
`st[m]` the stored `current_state`. The claim query's branches are the disjuncts
of `ClaimNext`; its recovery is `RecoverLane`. `...Fails` actions are calls whose
transaction committed or not while the caller saw an error. A message is its rank
in the creation order; messages may appear in any order because the creation time
is taken before the insert commits. Submission retries with the same idempotency
key return the stored message and are stuttering steps.

### ConnectionActor

`gen[o]` is one run of `Actor.Run` with its program counter, exit kind, joined
cause, session snapshot, callback mailbox and pending session. `link[o]` says that a
provider client is up, including one whose join timed out. `tomb[o]` is the pool
entry left behind. Sessions are numbered in the order they were produced. Writes on
the run's own context do nothing once the run is cancelled (`done`); detached writes
may be lost, and a flush may fail before its commit (store or key service) and leave
the stored session as it was. The supervisor's quarantine is two calls, the store's
and the pool's, with anything in between (`due`). `Pool.Resume` has no caller in
this commit; it is modelled because the pool exports it and its comment makes a
promise about it. The unfenced `MarkReauthorizationRequired` is two statements
(`MarkUnfenced`, `MarkUnfencedEnds`) and its lease fence covers only a lease that is
owned when it runs: an acquisition in flight passes it. "No lease owner has a client
up on a connection out of service" is therefore *not* a property of this code, and
is not claimed; what the fence does guarantee is `LeaseSpec`. The same shape in
tenant suspension contradicts a document (`tenant_suspend`).

### Ingress and Backfill

`row[r]` joins the reservation of a response id with the inbox or rejected row its
disposition names. `HandleEnvelope` is the whole commit with its branches:
duplicate, conflicting bytes, poison (and no capacity for it), attachment conflict,
projection. `queue[o]` is libgm's bounded ACK queue, `batch[o]` the ACK transaction
of a process, which keeps its locks across the network call and is therefore the
only transaction of more than one step. `wired` collects what was ever named to the
provider. An inbound message is announced as received when it is live and complete;
one that is still arriving is an update until it is complete. In `Backfill` the
worker asks, waits and writes under the lease, and another owner may have done the
same in between; `finished` and `moves` observe which conversations were filled and
how often the listing moved.

### CanonicalLane and Submission

`orderingKey[c]` is the conversation's lane, `work[m]` where a message stands and
on which lane. `RecordCreatedConversation` moves a conversation to the lane of the
message that created it unless another lane has work for it. `Submission` keeps
the idempotency rows, the messages and the Kafka audit; a caller may lose its
answer after a commit as well as before one and repeats the request. A request is
its canonical digest, and normalisation is what `CanonicalDigest` forgets.

### Media, contacts, webhooks, Kafka

`MediaStore` separates object, row and job because the code writes them in that
order with nothing atomic between the first two; the key of an object follows from
the media id, so overlapping workers write the same object. A read finds a row only
while no fetch job of it has failed: a worker that lost its claim may make a row
ready which the last attempt then announces as failed, and from there it is not
found, although readers may have been offered it. `ImageScan` walks the parts of a
file as the code does and compares the verdict with `AcceptableImage`, which does
not walk (the header is read with 30 bytes, so a lossless WebP of 26 or 28 bytes is
refused although it is whole; a file with two VP8X chunks is measured by the last
one for consistency and recorded with the first one's size: both respect the limit,
which is what the property asks). `ContactBook` interleaves HTTP handlers between
their transactions. `WebhookDelivery` has one task per goroutine of `RunBatch`;
`WebhookRegistry` follows one delivery and the secret its claim read. `KafkaBridge`
has the consumer with its barrier (an unauthenticated record is never committed
past) and the outbox worker; the broker is external. A record may be signed, and its
signature lapses, so one that is delivered again may no longer be authenticated. A
command may also fail for good without being a rejection: one with an unknown
connection violates a foreign key at every delivery. The code then ends
`RunCommands`, and with it the process, without a dead letter or a commit; the
partition is blocked, and since every process that is given it goes down, possibly
everything. `CommandsSettle` is stated up to that (`AtFailingRecord`). The refusals
of an outbox event before it is published are left out: every writer of events gives
them a connection, and a constraint of the table bounds their bodies. A fetch is a
sequence of runs, one per partition, each a range of offsets the consumer has still
to handle: what franz-go returns, without building the list of records.

### Pairing, LoginFlow, TenantControl, Migrations, Supervisor

`Pairing` has several processes' attempts competing for one row; each repository and
provider call returns in a step of its own and may fail or lose its reply. When a
discovery returns, the attempt is idle and unlocked until the approval reserves it
again (`StartApproval`), without a look at the registry: a sweep, a cancellation or
another `Start` may have disposed of its handle by then. If the attempt is gone its
state refuses the approval; if its cleanup failed, the provider is asked to approve
without a handle and refuses. Both are in the model, and the property says what is
left. `LoginFlow` is the exchange with the phone, whose answers may come late, again
or to the poll of another login. `TenantControl` splits `Suspend` into its
statements and its commit, because single statements of other transactions
interleave with them at READ COMMITTED; everything else is one action. `Migrations`
runs several releases' catalogues against one ledger; a migration is its digest, its
text the transaction control in it, and what it leaves behind the tables and columns
that the adoption probes ask for. A probe belongs to a version, so a schema made by
hand from a variant of a migration is adopted and recorded under the shipped digest,
as `docs/migrations-and-operations.md` warns; the property says so. `Supervisor`
sees the pool through what it returns; an error of its quarantine fails the pass.

### ClientLifecycle, PhoneLink, BridgeRoom

`ClientLifecycle` keeps the steps between two acquisitions of a lock or two channel
operations of `Connect`, `Disconnect`, `ClearSessionSecrets`, the goroutines of a
generation and the auxiliary poll. `PhoneLink` has the waiter map, the channels,
the pinger and the bridge's alert; the ping of the loop counts one more timeout for
each time it goes round its backoff. `BridgeRoom` has the rows of messages with the
flags that say what was reported, in a direct chat or a group, and what
`HandleMatrixMessage` returned. The readers of a group message are remembered in the
row too, but an edit, or a status text that does not name them, makes the row
forget them, and the bridge then reports them again: reads of a group are not
reported once by this code, and the property does not say they are.

## 3. Runs

| Run | Instance | Question |
|---|---|---|
| `dispatch` | 2 processes, 1 lane, 2 messages, 3 claims, 3 tokens, 2 faults | safety of dispatch |
| `dispatch_live` | the same with 1 fault and fairness | refinement of `OutboundPromise`; queued messages drain |
| `dispatch_stuck` (violation) | 1 message | "Timed-out sends become uncertain" |
| `connection` | sum of actor (2 processes, 3 tokens with 1 session or 2 tokens with 2, `ShortHistory`), client, link, bridge room, login | lease refinement, tombstones, quarantine; safety of the phone's side |
| `actor_auth` (violation) | 1 process | "no earlier exit kind can discard the joined cause" |
| `shutdown` | sum of actor (1 process, 3 sessions), supervisor, client; fairness | session pipeline, cancelled runs, failing loops, resets |
| `messaging` | sum of ingress, backfill, lanes, submission, media, images, contacts | safety of the message path |
| `platform` | sum of status fold, tenants, webhooks, registry, Kafka, pairing, supervisor, migrations | safety around it |
| `live` | sum of ingress, webhooks, Kafka, pairing; fairness | what must eventually happen |
| `phone_alert` (violation) | 2 pings, 1 outage, an alert after 2 timeouts, fairness | "if PhoneNotResponding was sent, send PhoneRespondingAgain" |
| `tenant_suspend` (violation) | 1 connection | "Suspension ... fences live connection leases" |
| `backfill_budget` (violation) | 1 process, 3 cursors, a history of 2, a budget of 4 | "A durable ... advance budget bounds pagination" |

**Sum runs.** The components of a sum share no state (or only the lease, which
`Ingress` and `Backfill` share by using one module). A behaviour picks one of them
at the start and takes its steps only; the others rest in their initial states. So
a sum run checks each component separately, over the union and not the product of
their state spaces, and what it shows of a component is what a run of its own would
show. Fairness is owed only in the behaviours that run the component.

**Bounds.** Two processes (owners, workers, gateways) are the smallest number with
a stale and a current one; three tokens allow a hand-over, a fence and a
re-acquisition in one behaviour. Two messages of one lane are needed for order,
serialisation and for a second message to trigger recovery of the first; three
claims let the first be claimed twice and the second once. `MaxFaults` bounds
crashes, lost replies, control-plane fences and premature expiries together: two
cover a lost reply during the recovery from a crash. Ingress has one message under
three response ids and one outbound message, every id also with other bytes, and
queues, batches and poison tables of size one, so that each limit is met. Backfill
has two cursors that may loop and a budget of two advances. Lanes need three
messages and two recipients that are one conversation: one creates it, one is
queued on its own lane, one comes later. Images are all files of up to three parts
on and over a limit of six pixels. The Kafka logs contain a valid record before and
after an unauthenticated one, a key used twice with different bodies and an invalid
record, one with a signature that may lapse and one that fails for good. Pairing needs two attempts of two processes for a take-over; the client two
generations for an overlap; a room three updates around one resync, or one between
two that overlap (`ShortHistory`); the registry three secrets for two rotations
within a grace period; the supervisor two connections on two pages that exhaust an
error budget of one (`platform`), or one connection and a budget of two
(`shutdown`); migrations three releases, of which two disagree. Every counter bound
stops its counter by disabling an action, so behaviours end there and the runs say
`CHECK_DEADLOCK FALSE`: an idle gateway also legitimately stops. Interchangeable
processes are symmetric only in runs without liveness properties.

**Fairness.** Dispatch: a step of a started `DispatchLane` call is taken (every
call has a timeout), the supervisor's ticker lists lanes and starts actors again, a
refused renewal stops a generation, abandoned operations end, abandoned leases and
claims pass their expiry; nothing for submissions, sends, faults or evidence.
Actor: every step of `Run` outside the loop ends because its calls carry timeouts,
the loop's `select` notices `ctx.Done()`, and the renewal timer notices a lost
lease. Supervisor: loops tick and their joins have timeouts. Client: goroutines are
scheduled and requests bounded by their contexts. Ingress: `OnReady` runs once the
client polls and the ACK ticker never stops; sending and completing a batch are
strongly fair, since a provider that keeps being asked answers now and then.
Webhooks: a delivery that is due again and again is claimed (claims are taken in
the order of `available_at`: strong fairness), and every task ends. Kafka: outbox
and consumer loops run, an orphaned partition is assigned, a claim nothing renews
expires. Pairing: calls return, time passes and the timer sweeps; nobody has to
select, complete or cancel. Phone link: goroutines run, the bridge reconnects, and
a phone that is back answers.

**What the five violations show.**

* `dispatch_stuck`: recovery of an abandoned `dispatching` message happens only in
  the claim query, and the claim query runs only for lanes that have a `queued`
  message. The last message of a lane stays `dispatching` after a crash, for ever
  if nothing else is submitted to the lane and no evidence arrives. Safety is not
  affected: it is never sent twice.
* `actor_auth`: an authorization failure joined during a shutdown is recorded with
  the cancelled context, so the record is lost, although the comment above it
  promises that no exit kind discards the cause.
* `tenant_suspend`: `Suspend` fences the leases that have an owner when its
  statement runs. `AcquireConnectionLease` locks neither the tenant nor the
  connection, so an actor that acquires between the statement and the commit keeps
  its lease, has read the state `connected`, and runs on in a suspended tenant. The
  stored states are not affected: `SuspensionKeepsState` holds and is proved.
* `phone_alert`: the bridge resets its alert before it stops the client. A ping
  that times out in between raises it again, and the pinger of the next connection
  does not know that it was sent and never withdraws it.
* `backfill_budget`: a cursor is charged only when the pruned history does not know
  it. A page that was committed and never staged lies between a forgotten cursor
  and the entry of its successor; the next round of a loop writes the forgotten one
  again, and from there every cursor of the loop is known with its base. The
  listing moves without a charge, past the budget.

## 4. Proofs

Every theorem holds for all values of the constants: any sets of processes,
messages, lanes, connections, keys, endpoints, partitions, files, contacts and
attempts, and any bounds. The assumptions are the named `ASSUME`s of the modules,
and TLC evaluates each of them in a run. They say that bounds are naturals, that
null values are members of none of the sets (`UnsetIsNoRow`, `BookAssumption`,
`MediaConstants`), that what is ordered in the code (messages of a lane, contact
and endpoint ids) is a natural, and what kind of value an input is: a migration
catalogue is a sequence without repetitions (`CatalogAssumption`), the log of each of
finitely many Kafka partitions is finite (`KafkaAssumption`), a file is a sequence of
parts with unsigned sizes (`ImageAssumption`).

Each proof has the same shape: an inductive invariant, a lemma that it holds
initially, lemmas that one action or a group of actions keeps it, a step lemma with
one case per disjunct of the next-state relation, and the theorem.

**The lease and what runs under it**

* *Lease.* `TokenNamesOneOwner` is not inductive: it says nothing about a
  generation that is behind the row. `HoldersBehindRow` (no generation is ahead of
  the row; one that is level with it is its owner) is, and gives it: two level
  holders are both the owner, and an acquisition that does not re-use its own
  unexpired token moves the row past everyone.
* *Two refinements of it.* `DispatchImplementsLease` and `ActorImplementsLease`: the
  identity mapping; each step leaves the lease alone or is a step of `LeaseNext`, a
  crash being a lost release. The lease theorems hold of both for that reason
  (`ActorTokenNamesOneOwner`), and `Ingress` and `Backfill` use them directly.
* *Actor* (`ActorInvariant`). The record of a run keeps its type under every step
  of `Run`; snapshots are the stored session or an older one, and what waits in
  mailbox or pending is newer than the snapshot (`SessionsInOrder`,
  `FreshBeforeLoad`); a client is up only in a run that has not joined it or behind
  a tombstone (`LinkAccounted`); until a run gives a session up, the newest one it
  accepted is the latest of mailbox, pending and snapshot (`NewestAccounted`); and
  while the connection is suspended no owner of the lease is past reading its
  state (`SuspendedIsQuiet`). From these, in this order: `SessionNeverRegresses`,
  `ReplacementNeverOverlaps`, `FlushedIsNewest` and `QuarantineSticks`.
* *At most one send* (`DispatchInv`). That a dispatcher may send depends on rows
  that other processes rewrite. The invariant follows the permission to send:
  attempts exist exactly for the tokens handed out (`AttemptsRecorded`); a call
  owns its attempt (`CallsOwnAttempts`); an attempt before I/O is its lane's
  current claim on a dispatching message that no other attempt has begun
  (`ClaimedIsCurrent`); a message begins I/O in one attempt and is out of the queue
  from then on (`IoOnce`); whoever may still send has not sent (`SendsAccounted`).
  `LaneSerial` and `ClaimedLaneHasOpenAttempt` are conjuncts because recovery sees
  only the lane row, and they say that this is all there is to recover.
  `StateIsDerived` is one because the ingress overwrites the state with the fold,
  which must not put a message back into the queue.
* *The promise* (`DispatchKeepsPromise`). `OutboundDispatch` implements
  `OutboundPromise`: a message is submitted, committed to when its first I/O begins,
  put on the wire once, and then only gains evidence. The mapping sends attempts to
  "some attempt of it began I/O" and the count of sends to "it was sent".
  `PromiseInv` adds to `DispatchInv` that an attempt in provider I/O has begun it and
  that no message stays `provider_accepted`, since `awaiting_phone` is written with
  it. A step that leaves states, begun attempts and sends alone is a stutter; any
  other one changes a single message and is matched with a step of the promise.
  Recovery is the interesting case: it returns a message to the queue only if no
  attempt of it began I/O, which `IoOnce` and `ClaimedIsCurrent` give.

**The path of a message**

* *Lanes* (`LaneInv`). `ConversationSerial` speaks of conversations, the code of
  lanes: unfinished work that names a conversation is on the conversation's lane,
  and a lane has one open attempt. `RecordCreatedConversation` keeps this because
  it refuses to move a conversation for which another lane has work.
* *Submission* (`SubmissionInv`) ties the three tables together: a key in use names
  a stored message with its digest, a stored message has one key, an audited
  command has the message of its key, and a listing has all it owes up to its
  cursor. `SubmittedOnce` needs the last part for the pages.
* *Backfill* (`BackfillInv`) is about the process that owns the lease: what it asks
  for is still pending in the checkpoint, and its last page of a conversation is
  committed before it completes the item. What another process holds is fenced off
  by its token. `ListingMovesAfterChildren` is an action property.
* *Ingress* (`IngressInv`): a row has its envelope and, unless poisoned, its message
  and an event; what an open batch names is stored, and the batch's locks keep a
  conflict out; an announced transition lies behind the state of its message, which
  is why the id of its event can not be taken when the transition comes.

**Content**

* *Media* (`MediaInv`) follows a body from the worker or the upload that has it to
  the object and from there to the row. The object of a fetched media may be
  written by several workers: who comes second verifies the digest of what is there.
  A media that announced `media.ready` has its job closed in that state, so the
  reader's guard against a failed job lets it through.
* *Images* (`ImageInv`) says what the walk has seen: the parts before the current one
  are good, it counted their pictures and remembers the last canvas. Both
  directions are proved: a walk to the end has found the file acceptable, and no
  part of an acceptable file is refused. The arithmetic `w <= limit \div h` against
  `w * h <= limit` is a lemma.
* *Contacts* (`BookInv`): tags name stored labels, ids do not change, the book only
  grows, and a listing has what it owes up to its cursor.

**Platform**

* *Suspension* (`TenantInv`): until `Suspend` commits the tenant is active and
  nothing is being paired (`SuspendIsCurrent`, because `BeginPairing` waits for the
  tenant's row), and a suspended row has a state to go back to.
* *Pairing* (`PairingInv`): the row in `pairing` names the attempt begun last, and
  where an attempt stands determines what is left of its provider handle; between a
  discovery and the approval the handle may be gone, whoever disposed of it.
* *Supervisor* (`LoopInv`): where loops and supervisor are; a loop ends only while
  nobody polls or with its error in the buffered channel.
* *Webhooks* (`WebhookInv`): a claim closes an event only when every active endpoint
  has its delivery; a settled row has its evidence, also when a stale worker's
  completion arrives. *Registry* (`RegistryInv`): a row and the history of its
  secrets agree, a secret is sealed for one endpoint, and the request in flight is
  at an entry of that history.
* *Kafka* (`CommandInv`): whatever lies between the committed offset and a
  consumer's position is settled or still in its fetch, or the partition is paused.
  A command whose submission fails for good settles nowhere: whichever process is
  given its partition goes down, and `CommandsSettle` names it as the one way out.
* *Migrations* (`MigrationInv`): one runner at a time is past the advisory lock, and
  the ledger it has read is a prefix of its catalogue; a version in the ledger was
  applied, or the schema made by hand had all that the version's probe asks for.
* *The fold* (`HistoryInv`). What a recursive function computes cannot be proved by
  induction over its argument with these provers. The history grows by one row at a
  time, so the induction runs over the behaviour: a fold over the history exists
  and its last value is explained by the observations. It is the one
  `DeriveMessageState` chooses because two folds have no first difference. The
  same device (a least counterexample, from the well-foundedness of `<`) carries
  the paging lemmas.

**The phone's side**

* *Waiters* (`LinkInv`): open channels are in the map or with the reader that took
  one out, never both; a channel is closed only by whoever removed it.
* *Client* (`ClientInv`): a generation is the current one until it is done, at most
  one call creates a generation, and a new token is handed over by a call, by a
  late reader or by the signal of a generation that is not done.
* *Room* (`RoomInv`, `EchoInv`): the flags of a row count what was told, and the
  readers it remembers were told; a send without a certain answer is awaited or was
  echoed. *Login* (`LoginInv`):
  what was exchanged with the phone before the place a login is at; nothing is
  posted or saved before the two agreed.

Only model-checked: the liveness properties `QueuedDrains`, `CancelledRunEnds`,
`SharedFailureStopsProcess`, `ResetReturns`, `PendingACKDrains`, `DeliverySettles`,
`CommandsSettle` and `AttemptEnds`, since fairness and ENABLED are out of the
prover's reach, and the five violations, which are counterexamples. Every safety
property of a passing run is stated by a theorem.


## 5. Not modelled, and why

* Generated code (`pkg/libgm/gmproto`), request encoding, cryptography, the session
  vault and key wrapping: data without protocol. Secrets and sessions are opaque,
  bound to the scope they were sealed for.
* Text, media content, routing data and wording: no property depends on them.
  Durations appear only as the order of expiry and use; of a backoff only that it
  ends.
* HTTP routing, parsing, token verification and rate limits; metrics; object storage
  and the URL policy of media: I/O or stateless.
* The event buffer of the actor's callbacks (a `Ready` event may be dropped when 64
  are waiting) and the actor's operation queue beyond one operation at a time.
* An authorization failure joined together with a refused final session swap
  (`connectionactor/actor.go:642`) only writes the health row. The model takes this
  path, but nothing in the repository says what should happen, so no property does.
* `connections.state` values that no statement writes (`degraded`,
  `disconnected`); line replacement; read-only listings of connections.
* The bridge's formatting, media conversion, commands, search and database
  upgrades. The local actor manager, which only its tests use.
* The components of a sum run do not interact in it. Interactions are modelled where
  the code shares state: lease with dispatch, actor, ingress and backfill; actor
  with control plane; tenants with actors; provider evidence with dispatch.

## 6. Plan

1. Proofs: the safety half of the liveness arguments (what a fair step decreases),
   and theorems that name the bounds the code relies on (pending ACKs, poison
   capacity, cursor history), which the invariants already imply.
2. Composition of submission, dispatch and canonical lanes over one set of message
   rows, with the theorems carried over as the lease's are.
3. The actor's event buffer and operation queue.
