# BitBrat: a verification project

BitBrat is an event-driven platform of Node/TypeScript services ("Bits") that
talk over a message bus (NATS JetStream locally, Google Pub/Sub in the cloud).
Delivery is at-least-once, an event carries its own route (the routing slip),
and state is kept in PostgreSQL or Firestore and in Redis. This directory holds
TLA+ modules of the parts of the platform that are decided by interleavings,
redeliveries, crashes and limits; TLC configurations that check them on small
instances; and theorems about them, for every value of the constants, whose
proofs TLAPS checks.

Paths below are relative to the repository root; the TypeScript sources are in
its `src/`.

## 1. Inventory

### 1.1 Components that keep state

| Component | State | Operations | Hard behaviour | What makes it correct |
|---|---|---|---|---|
| Delivery path: `src/common/base-server.ts` (`onMessage`), `src/services/message-bus/*`, `src/common/idempotency-middleware.ts` | broker state per consumer; copies in client buffers; the in-process dedupe map; Redis keys | receive, dedupe, parse, `SET NX EX`, run the handler against `qos.maxResponseMs`, ack, nack | redelivery by ack wait or lapsed lease beside a running handler; QoS race; crash; Redis failing open | one run per memory of a key; nothing acked untried; every message finally settled |
| Dedupe map: `message-bus/dedupe.ts` | `Map` key → time in insertion order, `lastPrune` | `dedupeShouldDrop` | lazy prune, eviction by size, boundary of the TTL | drops only recent repetitions; lets one through only after an eviction; bounded |
| Routing slip: `Bit.next`, `Bit.complete`, `updateCurrentStep`, and the services' catch blocks | slip, attempts and status in each copy of the event; the copy a handler holds; a Redis key per checked step | mark the current step, dispatch to the first pending one, egress, fail, nack, fall back, skip a duplicate | failed or half-failed publication, redelivery with the old slip, two copies with different slips, a duplicate detection that takes an original for a copy | the event is where its slip says; verdicts are the services' own; it leaves; it is lost only for a cause |
| Event persistence: `src/apps/persistence-service.ts`, `src/services/persistence/*`, `src/common/persistence/postgres-store.ts` | aggregate and snapshots per `correlationId` | ingress upsert, snapshot, dead letter, finalization | five subscriptions side by side, any order, redelivery, read-modify-write without a transaction, ack on error | numbers are dense and unique, recorded once, nothing applied is lost, an end is final |
| Event router: `src/apps/event-router-service.ts`, `src/services/router/*`, `src/services/routing/*` | cached rules | match, plan the slip, first `next` | polls that overlap, reload while matching | the slip it plans is the one that is followed |
| State engine: `src/apps/state-engine*.ts` | versioned keys, mutation log | propose, commit, log a rejection, evaluate rules | optimistic check without a transaction; state and log written apart; redelivery | one winner per version; the log tells what took effect |
| Scheduler: `src/apps/scheduler-service.ts`, `src/services/scheduler/repository.ts` | schedules with `nextRun`, the snapshot of each tick | tick, publish, settle; create, update, delete | overlapping ticks, writes from an old snapshot, crash between publish and update | one event per value of `nextRun`; no slot slept over; a deletion is final |
| Feedback: `src/common/middleware/feedback-middleware.ts` | progress per correlation | `beforeNext` | state updated after the await; nothing completes an operation | one message per stage |
| MCP clients and tool gateway: `src/common/mcp/*`, `src/apps/tool-gateway.ts` | per server: configuration, client, signature, status, timers, tools on offer | connect, disconnect, reconnect, discover, refresh | calls that nobody awaits, timers with captured configurations, connections lost silently | no connection without an owner; connections and tools follow the registry and the server |
| Twitch tokens: `src/services/twitch-token-manager.ts` | cached token, shared refresh promise | get, force refresh | forced refresh beside one in flight | a spent refresh token is not used again |
| Reflex: `src/apps/reflex-service.ts`, `src/services/reflex/*` | reflexes table, the repository's copy, the cache | load, subscribe, poll, change and refresh, match, execute | reads that overtake each other, failure after the execution | an answered change is in effect; the cache converges; an event takes one way |
| Stream analyzer: `src/services/event-stream-analyzer/*` | windows, snapshots on disk | open, close, snapshot, recover | crash while a window is open | no event counted twice |
| API gateway, auth, OAuth, disposition, stream analyst, context packs, story state | sessions, users, tokens, scores, summaries | HTTP and WebSocket handlers, one document per request | third-party I/O | outside these models (section 7) |

### 1.2 How they interact

An ingress connector publishes an event on `internal.ingress.v1`. The event
router and the persistence service both consume it (two queue groups of one
topic). The router plans a slip and calls `next`; each service on the slip is
reached through its own topic, runs its handler inside `onMessage`, and calls
`next` or `complete`, which publish to the next service's topic or to the
egress topic. So every arrow between two Bits is one pass through the delivery
path (BusDelivery, DedupeStore), the contents that travel along it are the slip
(RoutingSlip), and beside the route the services publish snapshots of the event
to the persistence service (EventPersistence). Redis is shared by all replicas;
the dedupe map is private to a process; the document store is shared and, except
in Firestore transactions, accessed one call at a time.

## 2. Modules

| Module | Models | State | Actions |
|---|---|---|---|
| `BusDelivery` | one topic from the broker to the handlers of its services and back | `broker` (state of each message per consumer), `copy` (copies held by clients, with the stage they are in), `seen` (the dedupe map, unexpired keys), `redis` | `Deliver`, `AckWaitEnds`, `LeaseLapses`; `DropDuplicate`, `Admit`; `RejectMalformed`, `StartUnguarded`, `StartFresh`, `SkipDuplicate`, `StartFailOpen`; `Act`, `AnswerAck`, `AnswerNack`, `GiveUp`, `QosTimeout`, `EndLate`; `Crash`, `ForgetKey`, `RedisExpires` |
| `DedupeStore` | the dedupe map itself | `stamp`, `older` (insertion order), `lastPrune`, `now` | `Tick`, `Offer` |
| `DedupeMemory` | what the map promises: a memory that forgets on time, or early on overflow | `remembered` | `Tick`, `Offer` |
| `RoutingSlip` | the journey of one event | `copy` (free, queued at a service, held by its handler; each with its slip), `taken` (the Redis keys), `ended` | `Skip`, `Drop`, `Expire`; `Handle`, `Finish`, `Throw`, `Timeout`; `Forward`, `Deliver`, `NoTarget`; `Requeue`, `FallBack`, `Lose`; `Crash`, `Redeliver`, `StoredUnseen`, `DeliveredUnseen` |
| `StateMutation` | proposals, `commitMutation` on both stores, the log, the rules | `proposal`, `bus`, `state`, `log`, `handler` | `Propose`, `Receive`, `Redeliver`; `CommitFirestore`, `Mismatch`, `Compare`, `SetState`, `SetLog`, `CommitFails`; `EvaluateRules`, `LogRejection`, `Acknowledge`, `Die` |
| `VersionedState` | what the state engine promises: a register with a version | `reg` | `Propose`, `Accept`, `Forfeit` |
| `ScheduleTicks` | ticks and the tools beside them, on both stores | `row`, `tick`, `job` (a `processSingleSchedule` per tick and row), `edit`, `clock` | `StartTick`, `ReadDue`, `StartBatch`, `Publish`, `ExecuteThrows`, `Calculate`, `Settle`, `EndTick`; `Create`, `Delete`, `BeginEdit`, `MergeEdit`, `WriteEdit`; `ReadFails`, `PublishFails`, `SettleFails`, `EditFails`, `Die`; `Pass` |
| `McpConnections` | one MCP server: registry entry, watcher, the manager's maps under its name | `registry`, `seen`, `previous`; `cfg`, `client`, `signature`, `status`, `timer`; `offered`, `tracked`, `refresh`; `open`, `listens`, `listed`; `call` | `ChangeRegistry`, `SnapshotActive`, `SnapshotInactive`; `Reclosed`, `Closed`, `Opened`, `OpenFails`, `ToolsAnswer`, `ToolsFail`, `EndConnect`; `Monitor`, `TimerFires`, `RefreshFires`; `ListChanges`, `LoseConnection` |
| `ReflexService` | table, cache and handler of the reflex service, on both stores | `row`, `cache`, `held`, `read`, `phase`; `tool`; `bus`, `handler` | `Initialize`, `InitialAnswer`, `BeginPoll`, `PollAnswer`, `ReadFails`, `Listen`; `BeginTool`, `ToolWrites`, `WriteFails`, `ToolReads`, `ToolAnswers`, `RefreshFails`; `Select`, `Execute`, `Route`, `Acknowledge`, `Redeliver` |
| `EventPersistence` | the documents of one event | `agg`, `snaps`, `due`, `work` (a handler per worker: `read`, `query`, `set`, `add`) | `Take`, `Finalize`, `Transact`, `Read`, `Query`, `SetAggregate`, `AddSnapshot`, `Throw`, `Die`, `Redeliver` |
| `EventLedger` | what the persistence service promises of one event: a ledger nothing is taken back from | `entries`, `count`, `status` | `Enter`, `Finalize`, `Tear` |

`MC*` modules give the constants their values for TLC; `*_proofs` modules hold
the theorems. `PROJECT.json` maps every definition to its source lines.

How they relate. `DedupeStore` refines `DedupeMemory`, and `BusDelivery.seen` is
that memory seen from the delivery path: a key is there until `ForgetKey` (time
or eviction) or `Crash`. `RoutingSlip` takes from `BusDelivery` that a message
may arrive twice (`Redeliver`), that a nack or a crash brings it back as it was,
that a publication may be stored without an answer, and that the QoS timeout acks
under a running handler (`Timeout`). Both duplicate detections stand before its
handlers: the dedupe of the process (`Drop`), which may take a redelivery for a
duplicate when a living process has seen the message, and the Redis check of the
services in `Guarded` (`Passes`, `Skip`, `Expire`), whose key is the step's topic
and the event's correlation. `auth` (`auth-service.ts:192-198`) and `llm-bot`
(`llm-bot-service.ts:252`) are the guarded services a slip can name; the
services of a slip have topics of their own, so a key belongs to a step. A handler
that throws before `next`, or returns without it (`llm-bot` with an event it
cannot use), is a `Throw`. `EventPersistence`, `StateMutation` and
`ReflexService` take redeliveries from `BusDelivery` and leave the dedupe out: what
they promise must hold of what is handled, and the dedupe can only make that less;
the liveness properties of `StateMutation` and `ReflexService` say that a message
is finally acked, which the drop of a duplicate does too. `StateMutation` refines `VersionedState`,
and `EventPersistence` refines `EventLedger`: the entries are the snapshots stored
and those whose handler has counted them and is about to store them.
`ReflexService`'s `Route` is a `next` or a `complete` of `RoutingSlip`: there the
event moves, here only whether it does and what is acked.
`McpConnections` models one server name, because every map of the manager is
keyed by it.

The four modules with two backends choose one at `Init`, as the factories do from
the configuration: Firestore, where an update names fields and a transaction is
atomic, or a document store over PostgreSQL, where an update is a read and a
write of the whole row. One run then says of both what holds.

What is abstracted. A message is a model value, time is a counter only where it
decides something (`DedupeStore`, `ScheduleTicks`), payloads and annotations are absent, and a
service is reduced to how it calls `next` and what its catch block does
(`RoutingSlip!Styles`). Keys are kept as they come out of the code, attribute
names lower-cased included (`BusDelivery!DedupeKey`, `RedisKey`). History
variables (`dispatched`, `forgotten`, `guarded`, `lapses`, `outcome`,
`lastOffer`, `ask`, the `said`, `runs` and `errs` of an event, `harm`, `applied`,
`torn`, and those each module lists under that heading) are written by the
actions and read by properties only. In the reflex service a table is the number
of the write it was read after and the set of its active ids; in the scheduler a
cron expression is any function from an instant to a later slot that does not
decrease.

## 3. Runs

| Run | Instance | Shows |
|---|---|---|
| `bus_pubsub` | 2 services on one topic, 3 processes, callbacks, Redis on one service, 2 copies, 2 faults | a process dispatches a key once per memory of it, replicas start it once per Redis key, nothing acked untried in either service |
| `bus_live` | 2 messages (one malformed, one timed), 2 replicas, sequential iterator, 1 fault, fairness | every message is finally acked in every service |
| `dedupe_store` | 4 keys, limit 2, TTL 3, prune every tick, the clock from 2 to 6 | bound, both boundaries of the TTL, refinement of `DedupeMemory` |
| `slip_journey` | 3 steps (fallback, retry behind the Redis check, finish), 2 copies, 1 ERROR, 2 faults, fairness | the safety properties of the slip, what it takes to lose the event, and that every copy leaves it |
| `persist_stores` | both stores, ingress, update, final twice under one key, keyless dead letter, finalization; 2 handlers, 1 fault | numbering, nothing applied lost, an end is final, refinement of `EventLedger` |
| `state_commits` | both stores, 2 proposals (one with a rule), an allowed and a foreign key, 2 handlers, 2 faults, fairness | one winner per version, a truthful log, refinement of `VersionedState`, every proposal settles |
| `schedule_ticks` | both stores, 1 schedule, 2 ticks at a time, 1 update of five kinds, 1 fault, 3 instants, fairness | what a repeated event needs, `nextRun` never late, deletion, what is due is served |
| `mcp_calls` | 4 configurations (two of one signature, one parked), 1 tool, 2 calls at a time, 3 connections, 3 changes, 1 fault, fairness | ownership, agreement with registry and server at rest, healing |
| `reflex_cache` | both stores, 1 reflex, 2 tool calls, 1 poll and 1 handler at a time, 1 event, 2 writes, 1 fault, fairness | answered means in effect, the cache catches up, one way per event, no event blocked |
| `bus_nack`, `slip_own`, `schedule_partial` | the smallest instance that shows it | a statement of a comment or a document that the code does not keep (section 5) |

Why the bounds are enough. The delivery hazards are about two copies of one
message at one or two processes; two copies and two faults contain a lapse
under a running handler followed by a crash or an expiry. More
messages only interact through keys, and under the published attribute names a
key is a transport id. In the store, four keys over a limit of two overflow it
twice, and four ticks contain a TTL of three with both boundaries. On the slip,
three steps are the least with a step before, at and after the failing one; two
copies are the least that can carry different slips, or be an original and its
duplicate; the ERROR bound keeps attempts finite, since the code itself has no
limit, and one ERROR is enough to bring the event to the checked step a second
time. Each of the four causes of `LossHasCause` occurs in this instance: without any
one of them the property fails. In persistence, two
handlers are all that a lost update, a missed duplicate or an ingress race
needs, and each kind of message occurs once with one kind repeated. In the state
engine two proposals on one key are the least that can win one version, and two
faults allow a torn write followed by a redelivery. In the scheduler schedules
meet only in batches (a batch of one is the smallest), two ticks are an overlap,
and three instants hold two slots of a cron schedule. With MCP two calls are an
overlap and the third connection lets an orphan exist beside a replacement; three
changes are an entry, its removal and its return. In the reflex service two tool
calls, a poll and the initial read are four reads that can overtake each other;
two writes are enough for an older table to differ from a newer one. Each bound
is a constant named in the module (`MaxFaults`, `MaxErrors`, `MaxTime`,
`MaxEdits`, `MaxChanges`, `MaxWrites`, `Copy`, `Worker`, `Handler`, `Tick`,
`Call`, ...); the theorems do not depend on their values.

`persist_stores` stops at the states after a tear (constraint `Untorn`): its
properties claim nothing of them. It uses the symmetry of the two workers, the
`bus_pubsub` run that of the copies; no run with a liveness property uses
symmetry. Deadlock is checked in the bus, slip, state and scheduler runs, where
the end is an explicit step (`Drained`, `Done`) or ticks go on for ever, and in
`dedupe_store`. In the persistence, MCP and reflex runs the system may stop: all
messages are handled, or the world outside has used up its changes.

## 4. Properties

`BusDelivery`
- `DispatchedOncePerMemory`: redeliveries, lapses and nacks never buy a second
  run in a process; only losing the key does.
- `GuardedOncePerKey`: all replicas together start a guarded handler once per
  Redis key, plus expiries and checks that failed open.
- `AckedWasTried`: what a service acks was tried for, duplicates included: by a
  run of that service that works, ended or was cut off by a crash, or, with the
  Redis check, by a run that went past the check under the message's Redis key.
  Since services share that key (section 5), that run may be another service's;
  and since the key precedes the handler, no more can be said: a crash after
  `SET NX` leaves the message skipped.
- `EveryMessageSettles`: no redelivery storm.

`DedupeStore`
- `HeldBound` (limit plus one: the prune precedes the insertion), `AnswerIsRight`
  (a drop means an offer at most a TTL ago; a repetition let through within the
  TTL means an eviction since), `ImplementsMemory`.

`RoutingSlip`
- `WaitsAtFirstPending`: the event waits only at the service of its first step
  with the status PENDING, with two search predicates and old slips coming back;
  until a service says ERROR this is also the step the JSDoc of `next` means, the
  first neither OK nor SKIP. After an ERROR it is not: section 5,
  `DispatchesUnsettled`.
- `VerdictsCarry`: as long as nobody said ERROR, each status is that service's own
  (`OwnVerdicts`), and an event that left by `next` was served by every step
  (`EgressMeansServed`).
- `RunsAccounted`: handler runs of a copy ≤ settled steps + ERRORs.
- `LossHasCause`: when every copy is gone and the end was never reached, one of
  four things has happened. A publication failed (`failed`) and the catch block
  acked; a handler threw before `next` and the message was acked (`threw`,
  `base-server.ts:761-765`); a process died past its `SET NX`, or after the QoS timeout
  or for a message with a second delivery (`died`), so that the redelivery is skipped,
  dropped or never comes; or the event came to a checked step a second time, after
  an ERROR, and its own key took it for a duplicate (`repeat`). These are losses of
  the code, and the property does not hold without any of them. What it excludes is
  that anything else loses the event: redeliveries, QoS timeouts, publications
  stored unseen, lost keys and failed checks, the death of a process that holds
  an unanswered message of an unchecked step, and whatever the dedupe and the Redis
  check drop on account of these. What they drop then has its original further on.
- `EventLeaves`: with finitely many faults and ERRORs every copy leaves the slip.

`EventPersistence`
- `CountIsExact`, `AppliedIsKept`, `EndIsFinal` and, proved only, `RecordedOnce`
  (no two snapshots under one key), all under `~torn`: until the aggregate has changed between a handler's read and its
  write, a duplicate check has missed a handling about to write, or a handler
  has ended between its two writes. A transaction never tears, so for the
  Firestore store the properties hold outright; for the document store they say
  exactly which interleavings break the bookkeeping. They do hold for every
  *order* of the messages, for handlers that overlap without a conflict, for
  redeliveries, and for throws and deaths before the first write.
- `ImplementsLedger`: `EventLedger`, in Firestore outright, in a document store
  until the tear. An entry is never changed, replaced or renumbered, a key is
  entered once, and the status is what the entries give in their order.

`StateMutation`
- `OneWinnerPerVersion`: no two accepted entries of the log name one version of a
  key, until the key was written from an outdated read (`raced`).
- `LogTellsTheTruth`: the entry of a settled mutation no fault touched says
  whether it took effect, once, and its rule fired exactly then.
- `ImplementsRegister`: `VersionedState`, in Firestore outright; a document store
  forfeits a key with the first write from an outdated read.
- `EveryProposalSettles`: no proposal goes round for ever.

`ScheduleTicks`
- `RepeatNeedsRaceOrFault`: a value of `nextRun` is published twice only if two
  ticks held the row together, a write landed on a row changed since it was read,
  or a fault fell between publication and update.
- `NeverOversleeps`: the stored `nextRun` of a cron schedule is never after the
  next slot, whatever is edited, disabled, fails or dies, without such a race.
- `DeletedStaysDeleted`: only a document store's write from a read before the
  deletion brings a row back.
- `DueIsServed`: what is due does not stay due.

`McpConnections`
- `NoOrphan`: without overlapping calls, at most one connection is up and it is the
  one in the map of clients, at every step of a connect, disconnect or reconnect.
- `FollowsRegistry`, `OffersServerTools`: at rest the manager is connected to what
  the registry asks for, and offers the server's tools. Their conditions name what
  breaks them: calls that overlap, faults, an entry that came back unchanged
  (`restored`), a tool that was withdrawn (`shrunk`), a list that changed before
  the notification handlers were set (`missed`). The other half needs neither the
  absence of faults nor of returned entries: a server the registry has given up has
  no connection, and one without a connection no tools on offer, whatever failed
  and whichever timer fired late.
- `MonitorHeals`: a known server is connected in the end or given up by the
  registry, whatever overlaps and fails. A connection lost *silently* counts as
  connected, to the manager and here: no handler sets the status.

`ReflexService`
- `AnsweredIsInEffect`: on a document store a change whose tool answered is in the
  cache, unless an overtaken read has put an older table back; `CacheCatchesUp`:
  then the next poll repairs it.
- `ReflexSkipsAnalysis`: an acked event took one way, reflex or analysis, whatever
  fails; `EveryEventSettles`.

Each property of a passing run has a mutant in `PROJECT.json`: a definition of
the model changed as a plausible bug would change the code, under which TLC
finds the property violated.

### Fairness

`BusDelivery!Fairness`: the broker delivers ready messages (JetStream and
Pub/Sub both push until the consumer's limit, which acks free), an ack wait that
is due ends (`getAckWaitSeconds`, a broker timer), and a copy in a process moves
on: the iterator and the callbacks are run by the event loop and a handler
returns or throws. No fault is fair, no choice between ack and nack is, and the
QoS timeout need not happen. `RoutingSlip!Fairness`: a queued message is skipped by the
Redis check or handled, and a held one's publication is answered unless it fails;
failures, throws, drops and timeouts are not fair. Every `Forward` consumes a pending step, and what brings steps
back is bounded by `MaxErrors` and `MaxFaults`. `StateMutation!Fairness` and the
handlers of `ReflexService`: the broker delivers and the calls of a handler are
answered or throw. `ScheduleTicks!Fairness`: `setInterval` keeps firing
(`StartTick` is part of `TickStep`) and calls end; no tool must be called and time
need not pass. `McpConnections!Fairness`: watcher snapshots, timers and the
monitor's interval fire, a call of the MCP SDK ends; the registry and the server
come to rest because `MaxChanges` is used up. `ReflexService!Fairness`: the poll
interval or the listener goes on. For the listener this is an assumption about the
Firestore SDK: its error callback only logs (`reflex-repository.ts:323-326`), and a
comment there relies on the SDK to retry; a listener that ends for good is not
modelled. No fault is fair anywhere, and all fairness is
weak: each action stays enabled until it or a rival of it is taken.

## 5. Where code and documents disagree

Checked by a run:
- `bus_nack`: "nack to retry" (`src/apps/event-router-service.ts:175`). The
  dedupe key is recorded before the handler, so the redelivery to the same
  process is dropped and acked.
- `slip_own`: "Consumers should only flip their own step."
  (`src/services/routing/slip.ts:12`). After an ERROR the next service's verdict
  overwrites it.
- `schedule_partial`: "Partial Updates Supported"
  (`documentation/guides/scheduler.md:307`). `update_schedule` passes
  `event: undefined` for a call that does not name the event
  (`scheduler-service.ts:363`), and the document store's merge erases the field:
  every later run of the schedule throws.

Stated in the modules, each with the line it comes from; every one of them fails
in a small instance when it is made the one `INVARIANT` (the last one the one
`PROPERTY`) of a configuration like those above:
- `BusDelivery!EveryServiceHandles`, two services with the Redis check and one
  topic: the documented Redis key ends with the consuming service
  (`idempotency-middleware.ts:73`), but the spread of `mergedConfig` overwrites
  it with `undefined` (`base-server.ts:603`), so the two share a key.
- `RoutingSlip!RetryIsSafe`, a fallback step and one fault: the mark is cleared
  "to allow safe retry by caller" (`base-server.ts:1144`), but the retry marks
  the following service's step.
- `RoutingSlip!NextAdvances`, a service that gives `next` no status: `next(event)`
  "Advance[s] the routing slip"
  (`documentation/concepts/agent-flow-patterns.md:50`); it dispatches the caller
  again.
- `RoutingSlip!DispatchesUnsettled`, plain services, one ERROR: `next` "Finds the
  first pending step (status not in OK|SKIP)" (`base-server.ts:1004`). The code takes
  the first step with status PENDING (`:1037-1038`, as its comment says) and passes
  over those marked ERROR: step 1 says ERROR and the event is dispatched to step 2.
  The proved `FirstPendingAlways` is what is left of the JSDoc: it is right until the
  first ERROR. The same two predicates are behind `slip_own`.
- `RoutingSlip!RepeatsAreDelivered`, a fallback step before a checked one, one
  ERROR, no fault: "Transport delivery remains at-least-once"
  (`documentation/services/base-server-routing.md:61`). `story-engine` says ERROR,
  `llm-bot` says OK, which is written on the first step, and `next` dispatches its own
  step once more; the Redis key of the first visit, made of topic and correlation
  without the attempt, takes the second for a duplicate, and the event is gone.
- `EventPersistence!TransactionalApply`, two updates and two handlers:
  `applySnapshotEvent` works "with transaction support"
  (`src/services/persistence/repository.ts:55`); on the document store two
  updates can take one number, the second replacing the first. For Firestore it
  is proved (`FirestoreKeeps`).
- `StateMutation!SimilarSemantics`, two proposals and two handlers, no fault: the
  document store's check "provides similar semantics for single-document updates"
  (`state-engine-repository.ts:193`), but two proposals that expect one version
  are both accepted and one value is lost.
- `McpConnections!NoToolMissed`: setting the handlers after discovery "solves the
  startup race condition" (`client-manager.ts:289`); a list that changes between
  the answer and the handlers is not noticed.
- `McpConnections!ReconnectsWithLatest`: "cache latest config for reconnects"
  (`client-manager.ts:203`); the timer uses the configuration it captured when it
  was set.

Seen while modelling, described here only:
- Published attribute names are lower-cased on the wire and the dedupe looks
  them up in camel and kebab case (`documentation/runbooks/messaging-reliability.md:11-12`
  against `message-bus/attributes.ts` and `dedupe.ts:61-68`): logical duplicates
  keep distinct keys.
- `SET NX` precedes the handler: a crash between them loses the message for the
  guarded services, although `architecture.yaml:319` speaks of at-least-once. This is
  the cause `died` of `RoutingSlip!LossHasCause`.
- `MESSAGE_DEDUP_MAX` can be exceeded by one, and a refreshed key keeps its
  place in the eviction order (`dedupe.ts:102,121`).
- `maxAttempts` (`documentation/reference/messaging-system.md:145`) is never
  compared with `attempt`; "attempt is 0-based per contract"
  (`base-server.ts:1083`), but the first dispatch carries 1.
- An ingress event that arrives after a snapshot leaves no initial snapshot
  ("Upsert the aggregate + initial snapshot", `store.ts:43`).
- A dead letter without an `idempotencyKey` gets one made of the time, so its
  redelivery is recorded again (`model.ts:320`).
- The `op` of a mutation (`set`, `delete`, `increment`, `push`) is logged and
  never applied: `commitMutation` replaces the value whatever it says.
- `feedback-middleware.ts`: two publications of one `correlationId` can both send
  the message of a stage, since the stage is recorded after the await (`:211-215`),
  and nothing but a test calls `completeOperation`, so its map grows (`:226`).
- Event stream analyzer: `currentBuffer = []` in a session window
  (`rxjs-window-manager.ts:202`) assigns a variable while `scan` keeps its
  accumulator, so each session repeats the events of those before it;
  `active: false` "Pause the observer"
  (`documentation/guides/event-stream-observers.md:424`) leaves the window
  running, because only a change of window or source removes it
  (`event-stream-analyzer-service.ts:528`); `close` destroys the windows
  (`:347`, `:938`) before the shutdown hook takes the final snapshot
  (`:903`, "Zero data loss" in the guide, `:604`), which is therefore empty;
  `trackWindowClosed` also deletes the ids of events that arrived during the
  analysis; an eviction is not reported to the `MemoryManager`, which goes on
  counting the evicted events (`:190-250`).

## 6. Proofs

All theorems hold for every value of the constants under the modules' named
assumptions (`DeliveryAssumption`, `StoreAssumption`, `SlipAssumption`,
`MessageAssumption`, `MutationAssumption`, `ScheduleAssumption`, `McpAssumption`,
`ReflexAssumption`), which only give the constants their types, keep values that
stand for nothing apart from the others, and say what keys or slots have in
common. Every invariant and every safety property that a passing run checks is
proved; the liveness properties are not.

`BusDelivery_proofs`: `TypeCorrect`, `DispatchBound`, `GuardBound`,
`AckedTriedAlways`. The two guard bounds need that a key is in memory exactly
when it was dispatched more often than it was forgotten. `AckedTriedAlways`
needs that a message whose key is in a process's memory is *covered*: a copy of it
is past the dedupe of the service, a run of it has ended or was cut off, or a run
was started under its Redis key (`WorkLeavesMark`, `CoveredStable`,
`RecordedStep`); that a Redis key that is set was started under (`RedisStep`); and that a dedupe key belongs to one
message, which holds because of the spellings above (`KeyIsTransportId`).

`DedupeStore_proofs`: the invariant adds to the type that the map is finite, that
a stamp is the time of the last offer, and that a key missing within its TTL
fell to an eviction not older than its offer. From it follow `MapIsBounded`,
`AnswersAreRight` and, step by step, `StoreImplementsMemory` under the mapping
*remembered = the unexpired stamps*.

`RoutingSlip_proofs`: the invariant is one about a single event (`EventInv`:
pending steps are a suffix; statuses are the services' own before the first
ERROR; runs are paid for), required of the event a handler received as well as
of the one it works on, since the former comes back after a nack or a crash. It
gives `TypeCorrect`, `FirstPendingAlways`, `RunsBound` (assuming that every
service gives a status) and `VerdictsCarryAlways`. `LossHasCauseAlways` needs two
more. `Attempts`: the attempts count the dispatches, so that a first visit of a step
can be told from a later one (an event about to be dispatched to its holder's own
step has more than one attempt there). `OnItsWay`: while no harm is done and the
end is not reached, there is a copy that no duplicate detection can drop (`Sound`:
held, or queued for the first time), and for every Redis key that is set there is
one past the check of that step (`Beyond`: held there or further on, or dispatched
further on, or to the step once more). So what `Skip` takes for a duplicate of
a first visit has its original elsewhere, and `Drop` never meets a sound copy; the
other steps move the copy on (`HandlerOnWay`, `ForwardOnWay`), add copies
(`CopiesOnWay`), put back a message whose step has no key (`CrashOnWay`), do harm, or
reach the end. That the steps before a held event's own are settled
(`Passed`) gives two statements of the direction it travels in: `AdvancesAlways`,
what is left of `NextAdvances` when its exceptions are named (`next` dispatches
forward, or to its caller only without a status or after an ERROR), and
`NeverBack`, no nack, crash, redelivery or fallback takes a copy back to a step
before the one it has reached.

`EventPersistence_proofs`: the invariant counts a snapshot from the moment its
handler has written the aggregate (`Counted`), so that writing the snapshot
changes nothing. `CountIsExact` alone is not inductive: a handler between its
query and its writes must be tied to what is stored. While nothing is torn the
count it read is never above the stored one (`Behind`), and as long as the two
are equal no snapshot has taken its key (`KeysFree`); a write with a smaller
count is itself the tear. That a snapshot's key tells its kind (`KeysTell`) is
what lets a duplicate of a final snapshot be acked: the end it asks for is
already there. It gives `TypeCorrect`, `NumbersExact`, `RecordedOnceAlways`,
`NothingAppliedLost` and `EndsStay`, and, because nobody is ever between a read
and a write of a transaction, `FirestoreNeverTears`, hence `FirestoreKeeps`: with
that store what was handled is kept without the condition `~torn`, the statement
that fails for the document store. `PersistenceImplementsLedger` shows step by
step that a write of the aggregate makes an entry (`SetCounts`, `EntersLedger`), that
writing the snapshot leaves what is counted alone (`AddCounts`), that a transaction
does both at once (`Transacted`), and that the step that tears is the ledger's
`Tear` (`TearsLedger`).

`StateMutation_proofs`: `TypeCorrect`, `OneWinnerAlways`, `LogIsTrue`,
`EngineImplementsRegister`. A version is *claimed* by a mutation whose log entry
is accepted with it or whose handler has set the state and not yet logged it
(`Claims`); `Winner` says that claims of one key that was not raced for are
distinct and not ahead of the row. It needs that what is handled was proposed
(`Sent`) and that a handler past the comparison holds an allowed key and a version
that matches its expectation and is not ahead of the row (`Checked`). `TruthInv`
says, stage by stage, what log, writes and announcements of an undisturbed
mutation are; that at most one handler holds it is part of it. `Expected` says that
a mutation accepted with an expectation was given the version after it; with
`Winner` it gives `OneAcceptanceAlways`, the statement of a client:
of two proposals that expect one version at most one is accepted. On Firestore
nothing is ever raced, so there both hold without a condition (`FirestoreIsSerial`):
the statement `SimilarSemantics`, which fails for the document store, is true of
the store it compares with. The refinement
shows each step to be a `Propose`, an `Accept`, a `Forfeit` or a stutter of
`VersionedState`; the write that races is the `Forfeit`.

`ScheduleTicks_proofs`: `TypeCorrect`, `PublishedOnce`, `AwakeAlways`,
`DeletionIsFinal`. A holder that no write has overtaken works on the row as it
is (`Current`, `JobsOf`); a row that is gone leaves everybody outdated (`Gone`),
which is all that the deletion needs. Every stored or computed run of a cron
schedule is timely (`Awake`), since slots do not decrease with time. For the
repetition: at most one tick holds a row that was not raced for (`OneTick`), what
it is about to publish, or to settle on, was not published yet (`NotYet`), and a
published occurrence that is still the row's `nextRun` has a tick that will move
it on (`MovesOn`). Everything published lies at or before the clock (`Past`), and
a recurring slot lies after it. `NothingIsEarly` needs no condition: whatever is
edited, retried or raced for, no occurrence is published before its time.
`NothingIsSkipped` is the other side of `PublishedOnce`: what a job settles on was
published (`Announced`), and an update that keeps the rule gives a `nextRun` only to
a row that has none (`Revives`), so that without a race a row leaves an occurrence
only once it was published, or by a deletion or a new rule. Together: an occurrence
that nobody races for, changes or interrupts is published exactly once and in time.
`Authored` says that on Firestore every live row, and every copy of one that a tick
works on, has the event its author gave it; with it the guide's promise,
which `schedule_partial` refutes for the document store, is proved for Firestore
(`FirestoreKeepsEvent`), and so is that no tick ever throws there for want of an
event (`FirestoreNeverThrows`).

`McpConnections_proofs`: `TypeCorrect`, `NoOrphanAlways`, `FollowsRegistryAlways`,
`OffersAlways`. Without overlap at most one call is under way (`Solo`), and it
holds the client of the map or the map has none (`Holds`). A connection that is up
is in the map or in the hands of a call (`Owns`); `NoOrphan` follows from `Owns`
and `Holds`. `GivenUp` says that once the last snapshot gives a server up, no timer
is set, no call opens a connection and the one there was is being closed; that the
watcher remembers what it handled last (`Remembers`) is what makes the snapshots
it ignores harmless. `Follows` and `Offers` say what each stage of a healthy call
has already reached of the registry's configuration (`Serves`, `Rests`) and of the
server's tools, so that the end of the call is what the properties ask for.

`ReflexService_proofs`: `TypeCorrect`, `AnsweredAlways`, `OneWayAlways`. `Budget`
keeps the number of writes in its range while calls are pending. `Seen` says that
a table, in the cache, in the repository's copy or under way, shows every reflex
not written since as it is (`Faithful`), so the newest table is right about the
reflexes that were settled by a read after their last write. `Ways` follows one
undisturbed event through its handler: at most one handler has it, and its stage
tells which of `executed`, `passed` and `completed` it can be in.
`StaleOnlyWhereWritten` bounds how wrong a running cache can be on either store:
it differs from the table only in reflexes written since it was read (`Seen`, with
writes numbered upwards, `Numbered`). On Firestore nothing but the first read is a
read, and the cache is the newest table it was ever given (`Listening`), so it never
goes back to an earlier one (`ListenerNeverBack`): what overlapping reads do on a
document store, and `AnsweredIsInEffect` has to exclude.

Only model-checked: the liveness properties `EveryMessageSettles`, `EventLeaves`,
`EveryProposalSettles`, `DueIsServed`, `MonitorHeals`, `CacheCatchesUp` and
`EveryEventSettles` (fairness and ENABLED are beyond the prover).

## 7. Not modelled, and why

Platform connectors, HTTP and WebSocket endpoints, OAuth, model calls and
prompts: I/O with third parties, or formatting. Contents of projections and
annotations: data no property here distinguishes. The `sources` collection: one
merge per message. `query-analyzer`'s replacement of the slip by a pending
route, and the debug and feedback messages of `next`, which are awaited and
caught before the publication and change nothing of the slip. Connecting,
creating consumers and the drain at shutdown. Rule and reflex matching: pure
functions of an event. Resources and prompts of MCP servers, which are discovered
and withdrawn as tools are, and the gateway's sessions.

The event stream analyzer: when a window closes and what it holds is decided by
rxjs operators outside this repository, and the guarantees its guide states do
not hold of the code around them (section 5), so a model would have few
properties to keep. `TwitchTokenManager` has no caller but its test. The command
line tool, infrastructure, planning documents and deprecated sources are not part
of the running platform; they are also most of the repository's lines, beside
the connectors.

A composition of `RoutingSlip` over `BusDelivery`: processes, acks, leases and the
dedupe map stay in `BusDelivery`, and `RoutingSlip` takes from them what they may do
to an event. A dedupe key is a transport id (`KeyIsTransportId`), so the dedupe can
drop only another delivery of one message; `Drop` lets it drop any of those which a
living process may have seen (`once` tells them), whichever process they reach. The
retry of a nack that the dedupe swallows is the subject of `bus_nack`; here its
nack has a cause of its own, `failed` or `threw`.

## 8. Plan

Done: `DedupeStore`/`DedupeMemory`, `BusDelivery`, `RoutingSlip`,
`EventPersistence`/`EventLedger`, `StateMutation`/`VersionedState`, `ScheduleTicks`,
`McpConnections`, `ReflexService`, each with its safety properties proved.

Worth adding, in this order:
1. An abstract reflex cache (the table, some reads behind) that `ReflexService`
   implements.
2. Several schedules in `schedule_ticks`, for batches that mix good and failing
   rows; one schedule is what TLC finishes in a few minutes with two ticks.
3. `FeedbackProgress`, the stages of an operation over concurrent publications.
4. `query-analyzer`'s replacement of the slip in `RoutingSlip`.
