# angzarr-client-rust in TLA+

Specifications of the angzarr client library: what `src/` runs inside a hosted
service when a coordinator sends it commands, events and books, how that service
says whether it is ready, and what a program meets that calls such services through
the crate's clients. The modules are translated from the code; the line ranges are
in `PROJECT.json` ("map"). `tlc -config X.cfg M` checks a run, `tlapm M.tla` the
proofs of one of the eight `*Proofs` modules.

## 1. The system

A *coordinator* (another program) keeps event logs and calls services over gRPC.
A service registers *handlers*, user types whose `impl` blocks carry macros
(`#[command_handler]`, `#[saga]`, `#[process_manager]`, `#[projector]`,
`#[upcaster]`), with `Router::new(..).with_handler(..)`; `build()` turns them into
the router of their kind, a gRPC adapter wraps it, and `run_*_server` hosts it. On
every request the router invokes the registered *factories* in order, so each
request sees handler values of its own: what requests share is the log that the
coordinator keeps, the outside world that projectors write, and the health names.
Programs reach the coordinator through the *clients*: they resolve an endpoint,
connect under a retry policy, and read and write with the builders.

| Component | Source | State | Operations | Modelled in |
|---|---|---|---|---|
| Service runner | `src/src/server.rs` | health names, listener, supervisor handle | register, spawn, bind, mark bound, serve, abort, join, flip | `Runner` |
| Readiness supervisor and probes | `src/src/readiness.rs` | one tick's `all_ok`, an atomic flag | probe, time out, publish, sleep | `Runner` |
| Router builder | `router/builder.rs` | factories in order | register, build | `RouterBuilder` |
| Command handler router | `router/runtime.rs` | `running_seq` and merged pages of one dispatch | command, rejection, fact, replay | `CommandRouter` |
| gRPC adapters | `handler.rs` | none | gate, forward | partly: `CommandRouter`, `PageRouters` |
| Generated command handler | `angzarr-macros/src/lib.rs` | state rebuilt per request | apply, decide, handle fact, replay | `AggregateHandler` |
| Saga and process-manager routers, Generated sagas and process managers | `router/runtime.rs`, macros | merged response of one dispatch, rebuilt state | dispatch; output domains | `EventRouter` |
| Projector and upcaster routers, Generated projectors and upcasters | `router/runtime.rs`, `router/upcaster.rs`, macros | current page; side effects outside | dispatch, speculate | `PageRouters` |
| Destinations | `router/state.rs` | sequences by domain | stamp, deferred header | `SagaDelivery` |
| Compensation helpers | `compensation.rs`, `router/responses.rs` | none | read a notification, build responses | partly: `SagaDelivery`, `CommandRouter` |
| Retry policy | `retry.rs` | attempt count | compute a delay, execute | `Connection`, `CommandClient` |
| Clients, transport | `client.rs`, `traits.rs`, `transport.rs` | channel | resolve, connect, read, stream, execute | partly: `Connection`, `CommandClient` |
| Command and query builders | `builder.rs` | fields set so far | set, select, build, execute | partly: `CommandClient` |
| Proto extensions | `proto_ext/` | none | next sequence, page headers, accessors | partly: `SagaDelivery` |
| Errors, conversions, validation, identity | several | none | predicates, functions | partly: `CommandClient` (predicates, statuses) |
| Macro attributes, Testing helpers, Generated protobuf code and build | several | none | | not modelled |

Where it is hard:

- *Concurrency* is in the runner: `run_kind`, the supervisor task and the
  endpoints interleave at every await, the supervisor may be aborted at any of
  them, the caller may drop the future, and start-up may panic with the supervisor
  already running. It is correct if no health name promises more than one tick saw
  and if nothing is promised after the shutdown.
- *Requests in flight together* meet in the log: each rebuilds from the book it was
  sent, which may be old when its answer arrives. It is correct if persisted
  decisions are those of some one-at-a-time order, on the state of the whole log.
- *Fan-outs* run several handlers for one request and can fail in the middle. They
  are correct if the reply stands for all matching handlers, in order, or for none.
- *Redelivery*: a delivery that failed comes again, to projectors that have already
  had part of it, and to sagas whose commands may have been lost, delayed or
  answered. No projection may end up with a gap, and no trigger may take effect
  twice.
- *Lost and late messages*: `execute` repeats a request whose first attempt may still
  be on its way or may have been applied. It is correct if all attempts together
  have one effect, and if the program can tell from the answer whether there was one.
- *Poison*: payloads that do not decode are met in each of the four rebuilding
  loops and must end the request, never be passed over.

## 2. Modules

Services:

- **`ReadinessGate`**, abstract: health names are shown only while a gate is open,
  it opens once, and closing it withdraws all of them for good.
- **`Runner`** is `run_kind` and `run_supervisor`, one action per await or visible
  step. `runner` and `sup` are the two program counters; `bound` is the flag that
  `TransportProbe` reads, `listener` the socket itself, `status` what the
  `HealthReporter` holds. Probe 0 is the transport's, the others connect to `dep`s
  that go up, down, hang or panic at will. `wasUp` is a history variable.
- **`RouterBuilder`**: `factories` and `built`, `build()` with its three errors.
  The three router modules extend it: every router they examine is one `build()`
  accepted.
- **`OrderedFanOut`**, abstract: the matching handlers are settled when a request
  arrives and run in registration order; the reply stands for all or for none.
- **`CommandRouter`** is `CommandHandlerRouter` behind its gRPC adapter, one action per
  iteration of the loop over the factories. `at` is the loop's position, `seq` is
  `running_seq` (wrapping at `SeqLimit`, which stands for 2^32), `pages` the merged
  pages by the handler they came from. `handed` and `revoked` are history.
- **`EventRouter`** is the same for sagas and process managers, whose loops differ
  only in how many source domains a handler declares and in the rebuilt state. `out`
  is the merged response, `decided` a history of the states decisions were made on.
- **`PageRouters`** is the pages-then-factories double loop of projectors and of
  upcasters; `turn` is the factory that the inner loop is at. `log` and `acked` belong
  to the coordinator, `seen` is what each projector has done to the outside world,
  over all calls.
- **`AtomicAggregate`**, abstract: a log that only grows, each decision made in one
  step on the state of the whole log.
- **`AggregateHandler`** is what `#[command_handler]` expands to, with several
  requests in flight (`calls`), and the coordinator as environment: it sends books,
  persists answers under a sequence check, and stores snapshots. A fact may be
  persisted as it came, also one that its method cannot decode.

From one aggregate to others:

- **`OncePerTrigger`**, abstract: a trigger takes its place in the history of a target
  once.
- **`SagaDelivery`** composes the bus, a saga, `Destinations`, the destination aggregates
  and the compensation at the aggregate of the trigger. `due` is what the bus still
  delivers, `cmds` the command books on their way, `log` the histories of the
  targets, `notes` and `revoked` the notifications on their way and answered. A
  draft's `style` is what the saga's method does with the header: nothing,
  `deferred_header`, `stamp_command`, both, or `calculate_next_sequence` of the
  target's own book. Bus, coordinators and their checks are external.

Programs that call services:

- **`BoundedRetry`**, abstract: at most `limit` tries, the first success or the last
  failure, and no try at all when trying makes no sense.
- **`Connection`** is every constructor of the four clients down to `create_channel`:
  `env` and `call` decide the endpoint and the policy, `up` is the service, which
  starts and stops at will, `attempt`, `sleeps` and `slept` are the locals of the loop.
- **`CommandClient`** is a program per caller: `call[c]` is the record of its position
  (`pc`), its `QueryBuilder`, what it read, its command book, attempts and last
  result; `reqs` are the requests that have reached nobody yet, and outlive the attempt that
  sent them. It reads, builds for the sequence after the last event it read,
  executes, and may start over.

`MCAggregateHandler`, `MCCommandRouter`, `MCEventRouter`, `MCPageRouters`,
`MCSagaDelivery`, `MCConnection` and `MCCommandClient` give the small sets of
configurations, plans and messages that the runs use. `RunnerProofs`,
`CommandRouterProofs`, `AggregateHandlerProofs`, `EventRouterProofs`,
`PageRoutersProofs`, `SagaDeliveryProofs`, `ConnectionProofs` and
`CommandClientProofs` hold the theorems.

User code is nondeterministic: it answers with up to a bounded number of events or
messages, or fails. Definitions named `X_Y` with the comment "Mutant of X" are slips
that each property must notice; no specification uses them.

## 3. Runs

| Run | Instance | Distinct states | Shows |
|---|---|---|---|
| `runner` (`Runner.cfg`) | 2 endpoints, 2 names, UDS and TCP | 31,079 | safety, refinement of `ReadinessGate`, liveness of readiness and shutdown |
| `command_router` | up to 3 registrations out of 15 configurations | 389,868 | one owner per command, rejections shown to all with threaded sequences, refinement of `OrderedFanOut` |
| `command_router_fact_miss` | 2 registrations | | violation: a fact misses the handler that declares it |
| `command_router_delegation` | 1 registration | | violation: a delegated rejection looks like one nobody handles |
| `event_router` | up to 2 registrations out of 7, books of 2 pages | 46,815 | listeners served, process state, poison, probed endpoints, refinement of `OrderedFanOut` |
| `event_router_rejection` | 2 registrations | | violation: `#[rejected]` of a saga or process manager is never run |
| `page_routers` | up to 2 registrations out of 7, logs of 3 pages | 1,055,892 | no gaps and no lost event under redelivery, complete upcasts |
| `aggregate` (`AggregateHandler.cfg`) | 2 requests at once, logs of 3 events | 1,960,020 | rebuilt states, poison, snapshots, refinement of `AtomicAggregate` |
| `aggregate_snapshot` | 1 request at a time | | violation: a command book with a snapshot is rebuilt without it |
| `saga_delivery` | 5 plans, 2 triggers, 3 targets | 27,080 | one effect per trigger, compensation of the right trigger, commands in their place, liveness |
| `connection` | 6 policies, 18 environments | 14,898 | backoff, refinement of `BoundedRetry`, every constructor returns |
| `command_client` | 2 programs, 2 attempts, 2 rounds | 194,892 | one effect per command, true answers, whole reads, refinement of `BoundedRetry`, every call returns |

Properties and what would break them:

- `UdsShownIsBound`, `ShownIsRecent`, `ShownOnlyByFullTick`: `all_ok` is built up
  over a tick while endpoints change; a SERVING must rest on all its probes.
- `NamesAgree`, `ShutdownIsFinal`: names are written one await at a time and the
  supervisor may be aborted in between, or be about to write.
- `RecoversWhenUp`, `DrainsWhenDown`, `ShutdownCompletes`: a hung or panicking probe
  must hold up neither the next tick nor the shutdown.
- `CommandHasOneOwner` rests on the check in `build()`; `RejectionServesAll` and
  `RejectionSequencesThread` on a counter that passes through handlers which emit
  nothing or delegate, and wraps. `FanOutSpec`, in both routers: after a failure the
  reply is empty, those before have run, and those after have not.
- `ListenersServed`, `DecidedOnRequestState`: process managers of one request do not
  see each other's events. `PoisonStopsDispatch`: none decides on part of its history.
- `EmitsThroughProbed`: whatever is emitted has its endpoint probed, also when
  handlers share a target in different modes.
- `NoGaps`, `CaughtUp`: of failures at any page and redeliveries of any overlapping
  window. `UpcastLeavesNothing` holds for upcasters registered oldest first, which is
  the order `upcaster.rs` asks for.
- `MethodsSeeTheirHistory`, `SnapshotIsTrue`, `PoisonEndsCommands`, `AggregateSpec`: a
  rebuilt state is that of the events before `next_sequence`, a snapshot that of the
  events it covers, nothing is decided after an event that cannot be decoded, and
  decisions serialize.
- `DeliverySpec`: commands with a deferred header take effect once for their trigger,
  though commands are lost, repeated, rejected and answered from the cache, and other
  triggers meet them at the target. `CompensationHitsItsTrigger`: what a `#[rejected]`
  method reads is the event that caused the command, of several on their way.
  `BookedLandsWhereRead`: a command numbered from a book, with or without its
  snapshot, takes effect right after that book or not at all. `AcknowledgedIsSettled`:
  what the bus does not deliver again took effect at every target, or the aggregate
  of the trigger is told; no trigger is taken for another and answered from the
  cache. `Settles`: it comes to that in the end.
- `BackoffWithinPolicy`: between half of what the policy allows and all of it, no
  sleep after the last attempt, also for a maximum below the minimum. `RetrySpec`:
  a configuration that cannot work is tried once or never. `Returns`: services may
  come and go for ever.
- `AppliedAtMostOnce`: a command takes effect right after the events it was built on,
  so at most once; attempts repeat one sequence, and a program that starts over after `is_precondition_failed`, with no attempt ended
  by `is_connection_error`, adds no second. `AnswersAreTrue` relates what `execute`
  returns to the history and to requests still on their way. `ReadsAreWhole`: a
  stream that broke is no answer, and one that ended has all there was at its begin.
  `EveryCallReturns`.

### Bounds

Two endpoints tell "all probes succeeded" from "the last one did", two names the
loop over names from a single write. Three command handlers give a fan-out a first,
a middle and a last; two suffice where nothing passes between handlers but the
position in the loop. `SeqLimit` 8 with first sequences 0 and 5 and up to two pages
each makes the sequence wrap within a dispatch. Logs of three pages give a window a
first, a middle and a last page and leave room for overlapping windows. A counter
with three states stands for the aggregate state: it tells the orders of `inc` and
`reset` apart. The type `spoiled` has a fact method but no decodable payload: what
a fact leaves in the log then differs from what a method would have made of it.

In `saga_delivery` two triggers meet at one target, a saga has two destinations, two
targets share a domain, and others write to a target; one root is enough, since a
header that names a wrong event of the right root is the harder case to tell.
`MaxLog` 2 bounds writes that are not deduplicated, so that a second writer comes
before or after a command. In `connection` four attempts let the delays double and
reach their maximum; there is a policy without attempts, one with a single attempt
and one whose maximum is below its minimum. In `command_client` two attempts tell the
first from the last, two rounds let a program start over, and a second program makes
the sequences collide. Bounds in guards: `MaxHandlers`, `MaxPages`, `MaxFacts`,
`MaxBook`, `MaxOut`, `MaxLog`, `MaxRounds`. The set of workers of `aggregate` is a
symmetry set.

Deadlock checking is off where the system may stop: a builder that ended in an
error serves nothing, a delivery ends, a constructor returns, a program is done.

### Fairness

`Runner` assumes weak fairness of the runner's own steps and of the supervisor's:
tokio polls a woken task, and timers fire. It assumes nothing of endpoints, of
`serve` returning, of start-up panics or of a dropped future. `SagaDelivery` assumes
that the bus delivers what is not acknowledged (weak), that a command which is sent
again and again is answered once (strong, per trigger and target: commands may be
lost any number of times), and that notifications arrive. `Connection` assumes weak
fairness of the constructor's steps and nothing of the service. `CommandClient` assumes that
programs are scheduled and that a request which stays with the coordinator is
answered; no method of the clients sets a deadline. The other modules state safety
only.

## 4. Proofs

All for every value of the constants that the named assumptions allow. No property
below is inductive; `IInv` of each module adds the named parts, each with a step per
action, and the theorems follow from it. Where a module implements an abstract one,
a lemma maps each step to an abstract step or a stutter.

- **`RunnerProofs`**: `TypeCorrect`, `UdsBound`, `Recent`, `Agree`, `ShutdownFinal`, the
  action property `ShownByFullTick`, and `ImplementsGate`. `Counters` says where one
  task may be while the other is at some point; `TickIsHonest` that `all_ok`, while it
  is true, means that the probes passed so far saw their endpoints up; `Withdrawn`,
  `ShownIsSignalled` and `Alike` what loops over the names have written so far.
  `ShutdownRunsOut`: `run_kind` joins only a supervisor that was aborted, and from the
  abort on every step of either leaves fewer to come (`RunnerLeft`, `SupLeft`).
  `RecoveryRunsOut` and `DrainRunsOut`: while all endpoints are up, or one is not, the
  supervisor is fewer than two ticks from saying so for all names (`RecoveryLeft`,
  `DrainLeft`: the rest of this tick and, if it began too early to lead there, the
  next), its steps lead nearer, and no step of anybody else leads back.
- **`CommandRouterProofs`**: type correctness and every property of the run
  `command_router`. `Accepted` is what `build()` guarantees for the registered
  handlers; what a dispatch has done is that of the positions passed, for a command
  (`ForCommand`), a rejection (`ForRejection`) and the requests that only the first
  factory gets (`ForFirst`); `Threaded` is the sequence, modulo `SeqLimit`.
  `BuildsExactly`: `build()` refuses the handlers that declare a type of a domain
  twice and no others (that it refuses those is not enough: a `build()` that refuses
  everything does, too). `FactsMissExactly` gives the divergence of
  `command_router_fact_miss` its exact extent.
- **`AggregateHandlerProofs`**: type correctness and `PoisonEndsCommands` for all
  coordinators and initial states. The others need what they need and no more:
  `SnapshotIsTrue` that a `#[state_factory]` makes the default state (`Initial =
  Default`), the refinement that command books carry no snapshots
  (`~SendsSnapshots`), `MethodsSeeTheirHistory` both. Without them they are false: the
  run `aggregate_snapshot` shows it for snapshots, and section 5 has the case of the
  initial state. `WholeBookSeen` needs neither: a request whose book begins with
  the first event is served on its whole history. `OnLog`: a request's book is a
  prefix of the log, whatever was persisted since; `TrueState`: the state rebuilt so
  far is that of the pages passed, where the history variable `truth` has the state
  after each event. `TruthIsHistory` shows that `truth` blocks no step of the
  program: every extended log has exactly one history.
- **`EventRouterProofs`**: type correctness and every property of the run `event_router`.
  `Accepted` as above, `Served` (which handlers the positions passed have run), `Sent`
  (the response is theirs, in order), `Decided` (the states were rebuilt from the
  request).
- **`PageRoutersProofs`**: type correctness, `NoGaps`, `CaughtUp`, `UpcastLeavesNothing`.
  `Along` relates what a projector has done to the page and the factory the double
  loop is at; `Outputs` says that each page so far became what the upcasters passed
  make of it (`Became`).
- **`SagaDeliveryProofs`**: type correctness, `CompensationHitsItsTrigger`, `DeliverySpec`,
  `BookedLandsWhereRead`, `AcknowledgedIsSettled`. `HeadersNameTrigger`: a deferred header,
  wherever its command is by now, names its trigger, so that two commands of one
  trigger that meet at a target have one key (`KeyNamesTrigger`) and an answer from
  the cache is an answer to this trigger (`AnswerSettles`); nothing undoes it
  (`StaysSettled`). `BookedHeaders`: the sequence in such a command is the length its
  saga saw.
- **`ConnectionProofs`**: type correctness, `RetrySpec` and `BackoffWithinPolicy`.
  `Hopeless`: no attempt is made with a configuration that cannot work; `Tried`: a
  call that gave up has made all its attempts, with a backoff before each but the
  first; `InStep` and `Waited`: the attempts are never two ahead of the sleeps, and all
  sleeps together lie between half of what `compute_delay` adds up to (`Patience`),
  rounded down for each, and all of it. `StepsRunOut`: a connection makes at most `1 + 2 * max_attempts`
  steps, and one is open until it returns.
- **`CommandClientProofs`**: type correctness, `AppliedAtMostOnce`, `AnswersAreTrue`,
  `ReadsAreWhole`, `RetrySpec`. `InFlight` and `Written`: a request on its way, or an
  event that is written, is what its program waits for or knows of, or has left the
  program in doubt. A program in doubt does not start over, so all its requests are
  one book, and its sequence is the next one only once. `OkIsWritten`, `SeenIsPast`,
  `Fresh` and `Trying` tie the program's position to its attempts, its answers and
  what it read. `CallsMoveForward`: a program waits only for answers that somebody can
  give, and each of its steps takes it to a later round, attempt or stage, while
  others leave it where it is. `LastSelectionWins` says what the fold `QueryOf`
  computes for a chain of builder calls of any length.

*Induction.* The library's induction rule takes an operator, which the provers at hand
cannot instantiate; for a set of naturals it follows from facts about finite
sets (`SetInduction`). That is enough for the recursive functions of the
models: `Shifted` and `Patience` in `ConnectionProofs`, the history of a log in
`AggregateHandlerProofs`, `QueryOf` in `CommandClientProofs`.

*Left to TLC*: the six properties under fairness (`RecoversWhenUp`, `DrainsWhenDown`,
`ShutdownCompletes`, `Settles`, `Returns`, `EveryCallReturns`), which need ENABLED. Of
all but `Settles` the safety half is proved: `RecoveryRunsOut`, `DrainRunsOut`,
`ShutdownRunsOut`, `StepsRunOut` and `CallsMoveForward` show that steps only lead
forward and that nobody waits for what cannot come. `Settles` has no such measure,
since commands may be lost any number of times. Every invariant, action
property and refinement that a passing run checks is a theorem.

## 5. Code and documents that disagree

Shown by violation runs and listed in `PROJECT.json`: facts routed to the first
handler; delegated rejections that vanish; snapshots that commands do not start from;
`#[rejected]` on sagas and process managers. Seen while modelling, without a run of
their own:

- Over TCP `mark_bound` comes before the bind (`server.rs:368`, against the comment at
  284): `UdsShownIsBound` is stated for UDS only.
- A speculative call of a projector runs its handler with all its side effects
  (`handler.rs:176`; `traits.rs:44` says without persisting side effects).
- `create_channel` computes the delays of its policy but never calls `on_retry`
  (`client.rs:61`, `retry.rs:45`).
- `execute` retries after any error. When the first attempt was applied and its answer
  lost, the second is refused: FAILED_PRECONDITION may be the answer to a command that
  took effect, which `error.rs:219` calls retryable after refreshing state.
  `doubt` in `CommandClient` is what a program must remember to be safe.
- `stamp_command` replaces a deferred header (`router/state.rs:119`), and with it what a
  rejection could be traced by: `from_notification` then finds no source.
- `CompensationContext::dispatch_key` has the full type name, the key that routers look
  up the short one.
- `for_domain` gives a distributed endpoint no scheme.
- `README.md:156` gives all clients a `connect(endpoint, retry)`; the code has `connect(endpoint)`
  and `connect_with_retry`.
- `build()` invokes the factories of command handlers to look for duplicates;
  `router/builder.rs:60` says factories are not invoked at build time.
- A replay treats a base snapshot that encodes to no bytes as none
  (`angzarr-macros/src/lib.rs:377`, against the comment at 370). It matters only when
  the `#[state_factory]` state is not the default; `StartState` has the behaviour.
- `running_seq` starts from 0 for a rejection without an event book and is then
  threaded to nobody (`router/runtime.rs:146`).
- A generated `#[rejected]` method is given the notification and the state, never
  the sequence the router threads.

## 6. Not modelled, and why

- Macro attributes: parsing runs in the compiler and keeps no state.
- Testing helpers: constructors used by tests only.
- Generated protobuf code and build: it comes from another repository's `.proto` files;
  messages are records of the fields the models tell apart. Payloads either decode or do not.
- Of the gRPC adapters, those that only forward one call; of the clients, the
  speculative calls that forward one request and return its answer, and `close`.
- Of the compensation helpers, the constructors of responses; only their choice between
  events and a revocation reaches the router (`CommandRouter`).
- Of the builders, the helpers that decode event pages; of the proto extensions, the
  accessors of covers, editions and metadata; of errors, conversions, validation and
  identity, everything but the predicates and statuses: functions of one message or string, without a step in between.
- `on_retry` observers, texts of errors and logs, and the parsing of endpoints beyond
  the form that decides.
- `execute` with `max_attempts` 0 panics in a release build and asserts in a debug one
  (`retry.rs:156`): `CommandClientAssumption` excludes it.
- What the coordinator does, beyond the environment actions marked external.
- Which of a trigger book's pages are new: only its last page is dispatched, and
  whether a book holds several new events is the coordinator's business.
