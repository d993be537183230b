# Verification of aiops-control-lab

TLA+ models of the control plane, its plugins and web console, the agent and the
fault laboratory, with TLC runs on small instances and TLAPS proofs for every value of the constants.
Everything is translated from the source; line numbers are in `PROJECT.json`
(`map`).

## The system

| Component | State | Operations | Talks to |
|---|---|---|---|
| Agent action service (`agent/internal/application`) | execution records by idempotency key, bound nonces; in memory, under one mutex | `Execute`: verify, bind the nonce, admit once or wait, call Docker, publish | control plane over HTTP (`httpserver`) and the gRPC stream (`grpcstream`), Docker |
| Remediation (`remediation_service.py`) | tables plans, approvals, action_runs, incidents | `approve_and_execute`, `_rollback` | agent through `HttpAgentDispatcher`, recovery verifier |
| Incidents and correlation (`incident_service.py`, `incident_correlation_service.py`) | tables incidents, remediation_plans | `evaluate_signal`, `find_match` | shares both tables with Remediation |
| Evidence collection (`evidence_collection_service.py`) | table incidents | `attach_metric_evidence`, `attach_log_evidence`, in worker threads | Prometheus, Loki |
| Agent telemetry client (`grpcstream/client.go`) | sequence number, instance id, stream | `Run`, `runConnection`, `sendTelemetry` | gRPC gateway |
| Agent ingestion and metric store (`agent_ingestion_service.py`, `agent_metric_store.py`, `grpc_agent_gateway.py`) | last sequence number per instance, latest metrics, tables nodes/assets/topology | `connect`, `ingest`, `accept_batch` | telemetry client, monitoring |
| Monitoring (`monitoring_service.py`, `monitoring_scheduler.py`) | streaks in memory, tables incidents, evaluations | `evaluate_all` under an advisory lock, once a minute per process | metric store, incidents |
| Fault laboratory (`routers/lab.py`, `http_lab_fault_injector.py`, `lab/app/fault_state.py`) | containers and application faults, scheduled resets | inject, observe, reset, `activate`/`clear`/`active` and the CPU worker | agent, lab API |
| Plugin runtime and SDK (`grpc_plugin_runtime.py`, `routers/plugins.py`, `sdk/`) | registry, processes, sockets, shared connections | install, call, health, uninstall, close | plugin processes |
| Kubernetes plugin (`plugins/kubernetes/plugin.py`) | none; the cluster's Deployments | its eight RPCs | plugin runtime, Kubernetes API |
| Repositories (`memory_repository.py`, `postgres_repository.py`) | dictionaries, or tables of JSON rows | save, get, find, list of ten kinds of entities | every service |
| Rate limiter (`rate_limit_service.py`) | request times per visitor | `allow` | the laboratory's inject route |
| Web console (`web/src`) | the state of the mounted page | demo, incidents, approvals, laboratory | `labs.inject`, `plans`, `approve`, `incident-contexts` |
| Collectors (`procfs`, `docker`, `telemetry_service.go`) | the CPU baseline | `Collect` | `/proc`, Docker, both callers of a snapshot |

Stateless parts (root cause ranking, SLO and capacity arithmetic, detectors,
parsers, retrieval, read-only console queries), deployment files and experiments
are listed in `PROJECT.json` and not modelled: they compute over floating-point
numbers or text and keep nothing.

**What runs concurrently.** The agent serves HTTP requests and stream tasks in
goroutines of their own. In the control plane, approvals, signals, gRPC
messages and the rate limiter run on the event loop of a process and do not
await between their saves, so within a process they exclude each other;
evidence collection, monitoring cycles, fault injection and resets run in
threads and do not. Several processes may share one PostgreSQL (the advisory
lock and the UNIQUE idempotency key exist for that). Every save is a
transaction of its own, so a crash or an error can separate any two of them.

**Hard behaviours.** Duplicates racing for admission; nonces and expiry under
clocks read at different moments; approval, run and incident written in up to
eight transactions; evidence threads writing back an old copy; streams that
break between a batch and its acknowledgement; restarts on either side.
`PROJECT.json` lists each at its line under `hazards`.

**What makes each part correct.** Agent: one run per key and life, one answer
for all copies, success only if Docker did this task. Remediation: nothing
executed that is not approved and recorded, one execution per key, final
results stay, success and rollback are earned. Incidents: plan, incident and
run tell one story, evidence is not lost. Telemetry: batches accepted in order,
numbers advance only on acknowledgement, everything sent is settled.
Monitoring: an incident opens after the configured streak and closes after the
recovery streak, one at a time. Laboratory: every fault ends. Plugins: a
registered plugin stays reachable while candidates fail, no process or socket
is left behind. Repositories: what a service sees does not depend on which of the
two it was given. Limiter: no window holds more than the limit, and whoever is
refused has used it. Console: a page never invites a user to repeat what may
have been done. Collectors: a percentage is the share of busy time between two
readings, a batch is about containers as they were.

## Modules

### AgentAction, OneAnswer

`ActionService.Execute` by its atomic steps: `Receive` (expiry and
`TaskAuthenticator.Verify`, before the lock), `RefuseNonce` and `Admit` (the
locked block: prune, bind the nonce, then `Claim` a new record or `Join` an
existing one), `CallDocker` and `ExecutorReturns` (the executor outside of the
lock), `Publish` (result stored, channel closed), `Return`, `Wake`,
`CancelWait`. `records`, `nonces` are the maps of the service; `pc`, `task`,
`outcome` the locals of the goroutines; `admitted` and `runs` are history.
`Restart` clears the maps and ends every goroutine. `OneAnswer` is what the
service promises: per key one answer is chosen once and callers are told it;
`PromiseKept` says AgentAction implements it under a refinement mapping.

### Remediation, Ledger

One action per save of `evaluate_signal`, the two `attach_*` functions and
`approve_and_execute`; between two of them an actor can fail (`Raise`) or its
process die (`Crash`). `incidents`, `plans`, `approvals`, `runs` are the
tables; `copy` and `draft` are the Python objects an actor holds, saved whole,
stale or not. `Free(h)` is the event loop: a signal or an approval starts only
when its process has no other one under way; collectors are threads and ignore
it. `Dispatch` is the agent as the control plane sees it: one answer per key
(plan hash, action, target), repeated until the agent restarts (`Forget`). `Ledger`
is what the service promises: per idempotency key one row, written by an approved
request, acted on by its owner while it is open, ended once, and told to everyone
who asks under the key; `LedgerKept` says Remediation implements it.

### Telemetry

The client (`Connect`, `Send`, `ReceiveAck`, `Notice`, `Break`,
`AgentRestart`), the streams between (queues, which can hold frames of a
connection that was replaced), and the control plane (`Greet`, `Ingest` with
`Known`, `AcceptBatch`, `Repeat`, `Cancel`, `ServerRestart`).

### Monitoring

`MonitoringScheduler.run` and `MonitoringService.evaluate_all` of several
processes over one database: `ListRules` and `WriteRule` (the default rules, a
transaction each), `Begin` (the advisory lock, tried once), per rule `Evaluate`
(the streaks, `Count`), `Look` and `Update` (find the active incident, open or
resolve one), `EndCycle`; `Fail` and `Crash` at any point. `streak` is the
memory of each service, `sample` what its metric store says of a rule: a value
within bounds, a value that breaches, none. `Take`, `Put` and `Drop` are the
threads and requests that hold a copy of an incident and save it later. `window`
and `armed` are history: the last evaluations themselves, from which the
properties say what the streaks stand for without using them.

The ids of resolved incidents nobody holds are used again, so the run needs two.
The evaluations' table is written only and left out.

### FaultState, FaultLab

`FaultState` is the laboratory API's state: deadlines, and the CPU thread by
the steps other threads can see (`Start`, `SeeInactive`, `Leave`). `FaultLab`
extends it with the rest of the loop: a request stops a container through the
agent or activates an application fault (`StopContainer`,
`SetApplicationFault`), registers a task (`ScheduleReset`), watches the health
of the API (`Observe`); a task wakes after two minutes (`Wake`) and clears the
fault or checks the container and starts it (`CheckHealth`,
`RestartContainer`), while approved plans do the same (`Remediate`). Restarting
the API ends its process and with it the faults (`Reset`). Calls get lost
before or after their effect (`LoseInjection`, `LoseReset`), the control plane
forgets its tasks (`Crash`).

### PluginRuntime, KubernetesPlugin

`PluginRuntime` has the event loop's one task at a time (`Install` from manifest
checks through start, wait for the socket, the `Health` call and replacement of the
predecessor; `Uninstall`; `Close`) and beside it the plugin processes, which start to listen, hang, exit and unlink their socket
when they like. A socket path is a hash of id and version. Channels of one
process to one address share a connection (gRPC's subchannel pool, external), so
`conn` belongs to a path. The control plane is process 1 of its container: its
restart ends the plugins. `twins` is history: processes whose version was
installed again while they were registered. `KubernetesPlugin` extends it with
calls: the deadline of the control plane (5 s) is shorter than the plugin's own
towards the cluster (8 s), so a call given up goes on, in the plugin's thread or
in the cluster when the plugin has died. `replicas` is the cluster's; `word`, the count
of the last scaling that was confirmed, and `unsure` are history. In `unsure` are the
counts of calls answered with a failure that may have taken effect since a call that was
waited for last did: when such a call takes effect, only those still `Adrift` remain.
`LastWordStands` then says that a confirmed scaling stands but for these. The code
refuses no request that was given up, so one that is adrift does land late.

### Collectors

Counters in `/proc/stat` modulo `Width`, read by two goroutines (the stream and
`GET /metrics`) that exchange the baseline under the lock later; the kernel may
take `iowait` back. The stream then lists the containers and inspects each, while
they stop, restart and go. A container listed as stopped is reported so whether or not
its statistics can be read, and a restart count that cannot be read is 0; when the
statistics of one listed as running cannot be read, the whole batch fails.
The run looks at two hosts, one with callers and counters, one with containers,
because the two halves share no state but the order of a pass.

### RateLimiter, Console

`RateLimiter` keeps the deque as all times ever appended and the number popped,
with a step per `popleft`. `Console` extends it: pages of several browsers, their
requests under way, answered in any order or lost, and the routes. `visitor_identity`
is in it, since who shares a limit is the composition of the proxy's header and
the limiter.

### Repositories

Both implementations driven by the same calls: `object`, `order`, `actionKeys`
are memory's, `table` is PostgreSQL's. `held` is what a caller works on: in
memory the stored object itself, so a change is seen before it is saved;
in PostgreSQL a copy. `contended` is history: entities changed by a caller that had
not seen the last change. On those, and on them only, the two may differ, and
`SameEntity` says so; lists and lookups do not depend on it. A behaviour is about one
kind of entity. Memory's sorted lists are arrangements of a set (`NewestFirst`), in the
order of the keys where the times are the same, as a stable sort leaves them.

Left out there: connections that fail (memory has none), the order of the lists
of assets, rules and edges, on which nothing depends, and the text of an edge's
key. Three corners of the two differ and no caller reaches them, so they are not
among the inputs: an empty `service` is a filter in one and none in the other, and
a second run under a taken key is overwritten in one and refused in the other
(Remediation looks the key up before and models the refusal).

| Run | What it asks | Bounds |
|---|---|---|
| `agent_action` | the safety of the action service, `EveryoneAnswered` and the refinement | 3 goroutines, 4 tasks that share keys and nonces, clock to 1, one restart. Every hazard is about two callers; the third competes with both |
| `remediation` | two processes, one database: records and replies are true, and Ledger is implemented | 2 processes, 2 requests, 2 plans of 2 steps, 2 keys, 2 faults. Symmetry over processes and requests. One plan has two reversible steps, so a rollback has an order, and its first compensation can fail before the second; they act on different containers, since the agent's key is plan, action and target. The other plan has a reversible and an irreversible step |
| `remediation_loop` | one process with signals, evidence threads and a clock: what stays in step | 1 signal, 1 collector, 2 approvals, clock to 3 (a plan expires after 2), 1 fault |
| `remediation_sync` | violated: an evidence thread writes back an old incident | as above, no fault |
| `telemetry` | ordering and settlement of batches | 4 batches, 3 streams, 2 lives on each side, 2 failures: a resend over a third stream after both sides restarted is in range |
| `telemetry_ack` | violated: a batch acknowledged and not persisted | 2 batches, 2 streams, 1 failure |
| `monitoring` | one active incident, opened and resolved by evaluations that justify it, raised and calmed in the end | 2 processes, 1 rule, 2 cycles each way, 4 changes of the metrics, 1 stale save, 1 fault. Rules do not interact; two processes and one fault give every order of two cycles and a takeover |
| `fault_lab` | resets, expiry and the CPU thread under visitors, plans, losses and restarts | 2 requests over 3 of the 5 scenarios (the other two are a second application fault and a second container), 4 half-minutes, 2 plans, 1 lost call, 1 restart. Two requests cover a shared container and a container whose API holds the other's fault |
| `plugins` | a registered plugin stays reachable, nothing leaks, a confirmed scaling is undone by nothing but a call given up that was still under way or came later | 2 processes at a time, 2 calls, 10 manifests (two plugins, two versions, one refused for every reason), 14 payloads. An upgrade has two processes; two calls are one given up and one after it. Symmetry over processes and over calls |
| `collectors` | percentages against the integers, batches against containers | one host with 3 goroutines and counters to 3, one with a single goroutine and 3 containers, 2 of them monitored, usage to 2, one restart. Counters modulo 16: twice the largest total, so a difference that wraps (the kernel took `iowait` back, or the readings are in the wrong order) cannot be taken for a small one. Three goroutines are an exchange between two and a third reading between them |
| `console` | no page is stuck or asks for a harmful repetition; the limiter as the console meets it | 2 browsers of one visitor behind the proxy, 2 requests under way, 2 plans, 5 clicks, clock to 3, 1 request in a window of 2. A demo takes two clicks; five are one and a half by two users |
| `repositories` | memory and PostgreSQL answer alike | 2 callers, 3 identities, 2 groups, times to 2, 3 changes, pages of 1 and 2. Three entities are one more than a page |

Deadlock is checked in `collectors` and `plugins`. The other configurations say
`CHECK_DEADLOCK FALSE`: their inputs (requests, signals, batches, clicks) are
finite, and a system without further input rests.

The number of runs is kept small on purpose: one per question. Type invariants are
in every module; where a theorem proves them (below) no run repeats it.

**Fairness.** AgentAction: weak fairness of every goroutine's own steps (the Go
scheduler) and of `ExecutorReturns` (the Docker client has a timeout of 30
seconds); none of deliveries, cancellations, clock or restarts. Telemetry: weak
fairness of connecting, of delivery on a live stream and of noticing a dead one
(TCP resets it); none of sending, breaking, failing or restarting. Remediation
is checked for safety only. Monitoring: time passes, a scheduler that did not
stop goes on, a query returns or times out; none of reports, faults and saves.
FaultLab: time passes, requests, resets and the CPU thread go on; none of new
requests, plans, losses and restarts. In both, `Tick` waits for what is shorter
than half a minute (queries have timeouts of 8 s, calls of 10 s, the probe
gives up after 10 attempts of 2 s, a burst of load takes 0.2 s): a premise about
speed, which leaves every order of the steps of different actors within a tick.

## Proofs

`AgentActionProofs` proves for every value of the constants that the action
service keeps `TypeOK`, `AtMostOneRun`, `SameAnswer`, `SuccessIsReal` and
`NonceServesOneKey`. None of them is inductive. The invariant `IInv` adds
who may be where: the admitted of this life and their stages (`AdmissionInv`),
that owners and waiters find the record with their own fingerprint and a key
has one owner (`RecordInv`), that a run of this life left a record whose owner
is past the call (`RunInv`), that results told are those in the record
(`ReplyInv`), and that the nonces of the admitted remain bound while valid
(`NonceInv`). There is one lemma per action, and `Inductive` puts them
together. The assumptions are `TaskAssumption` and `NonceAssumption` on the constants.

It ends with the proof that the service keeps the promise of `OneAnswer`
(`PromiseKept`): whoever came has asked for the key of its task (`Asked`), a key is
decided when its record is done (`Decided`), and replies are what callers are told.
Under this mapping `Receive` is the promise's `Ask`, `Publish` its `Decide`,
`Return` and `Wake` its `Report`, a refused nonce, another task under the key and a
cancelled wait its `Refuse`, `Restart` its `Forget`; everything else stutters.
`RecordInv` gives that a key is decided once and that the owner's own result is the
published one. The one invariant added is that whoever is done was told something
(`AnsweredInv`), since `Forget` tells whoever waits that its answer is lost, and the code
tells nobody who has left.

`FaultLabProofs` proves `TypeOK`, `OneWorker` and `ResetPending` of FaultLab.
`OneWorker` needs `WorkerInv` (the flag is set if and only if there is exactly
one thread, about to start, in the loop or on its way out): with the bound
alone, nothing would keep an activation from starting a second thread.
`ResetPending` is nearly inductive: besides types it needs `RestartInv`, that
only resets of containers get as far as a restart. Its argument is `CaresFor`:
the step that ends the care for a container either started it or is a loss.
The assumptions are those of FaultState and FaultLab on their constants.

`ConsoleProofs` begins with the limiter and proves `LimitIsKept`: for every window
that ends at a request let in, not more than `Limit` requests of the visitor lie in it (`WindowHolds`,
which `console` checks), and `RefusalsAreDue`: who is refused has `Limit` requests
in the window. `WindowHolds` is not inductive. `LimiterIInv` adds types, that no time is
later than the clock (`Clock`), that times are in order (`Ordered`), that what was
popped had left the window (`GoneIsOld`) and that at most `Limit` are held
(`FewHeld`). The step that matters is `Admit`, in `Bound`: if the times of one
window were more than the limit, then the oldest of them is still held, because
what is gone is a window older than the newest, and the held ones are too few.

Of the console it proves `SafeToRepeat` and `NoStuckPage`, for every number of
browsers, requests and plans, and that the console is a user of the limiter
(`Spec => LimiterSpec`), so that `WindowHolds` is a theorem of the console too.
`ConsoleIInv` follows a request from the page that made it to the answer it hears. A
run belongs to the one plan its key is of, which is no longer pending (`Stored`); the
limiter is asked about the injection being served (`Served`); what a request was
answered was true when it was answered and has remained so, since plans and runs only
move on (`Requested`, `Told`); a page shows plans that exist (`Shown`); only the
demonstration asks for a plan (`DemoAsks`); and a page with disabled buttons has a
request that is heard (`Attended`, which is `NoStuckPage` one request at a time).

`TelemetryProofs` proves `TypeOK`, `AcceptedInOrder`, `AdvanceIsEarned` and
`MetricsMoveForward`, whatever breaks, is sent again or restarts. They are about
all streams, and what could break them is a batch of an old stream in front of a
handler that still runs. So `IInv` is about those batches and the accepted ones
together (`Sent`, `SentInv`, `OrderInv`): of one instance, a higher number is a
later snapshot. Only `Send` adds to them, a batch collected after all of them under
the highest number of its instance. `StreamInv` says whose streams these are, `LastInv` that
the number the control plane keeps is that of an accepted batch, `AckInv` that
an acknowledgement under way is of an accepted batch, `MetricsInv` that the
metrics are of the last one.

The end of `TelemetryProofs` is about Collectors, a specification of its own
(`CollectorsSpec`): `PercentIsTrue` and `BatchIsMeasured` for every set of callers
and containers and every length of time. Readings are exchanged in another order than
they were made in, so the baseline may be the later one. But all are readings of
counters that only grow (`ReadInv`), so of any two one is nowhere below the other, and
the one later in total is the later in both parts: no unsigned difference wraps
(`PercentIs`). The same holds for the two samples of a container that was not started in
between (`SampleInv`). `CollectorsAssumption` says that the sum of two counters of
the host, and the usage of a container, fit into the width.

`RemediationProofs` proves `TypeOK`, `NothingUnapproved`, `OneExecutionPerKey`,
`RepliesStand`, `RollbackIsComplete`, `SuccessIsVerified` and `LedgerKept` for
every number of processes, requests, plans, steps and failures. The row of a key
and the request that inserted it know each other (`RunInv`, `OwnInv`): that is
what UNIQUE gives, and from there everything is about the log of one request,
which no other one writes. `StageInv` and `LogInv` say for every stage what the
log has in it: the steps so far answered with success, then the failure, then the
inverses in reverse order. `SuccessIsVerified` is `SuccessIsEarned` without its last
clause, that every step was really performed. This one is proved (`SuccessesEarned`)
of plans in which no two steps, and no step and an inverse, are the same call
(`StepsDiffer`): the agent's key has plan, action and target, and a plan that repeats
itself would be answered with what it did before. With it, every decision of the agent
belongs to one step or inverse of one plan, and who is answered with success was
preceded by one that performed it (`AnswerInv`, `DecidedInv`). The plan
`evaluate_signal` makes is such a plan (`NoStepTwice`), and so are the stored ones of the
runs. Of one that repeats a step the clause is not claimed, and would not hold: the
agent answers the second from memory. No code makes one. `LedgerKept` is the refinement: `Route` is Ledger's `Ask`, the
saved approval its `Approve`, `InsertRun` its `Begin` unless the key is taken, every
dispatch its `Act`, `SaveRun` its `End`, and a looked-up result or the last save its
`Tell`; all else stutters, crashes too. That a rollback comes after something was done
(`UndoInv`) is the invariant it adds, for `End`.

The last part of `RemediationProofs` is about one process (`OneProcess`, the condition of
`remediation_sync`): `OneRunPerPlan`, `InSync` and `EvidenceKept`, each
`OneProcess => (Spec => ...)`. Signals and approvals of one process share the event loop
and give it up only at their end, so at most one is in flight (`TurnInv`); rows come in
the order incident, plan, run (`RowsInv`); who is in flight holds a plan that is the
row, with the status its stage says, and no run of it before its own (`PlanInv`), and an
incident that is the row but for what the next save changes, or for what an evidence
thread has put back (`HeldInv`). Then the story changes only between the second save of an
approval and its last (`StoryInv`), where somebody works on the plan. All of them
together are `SyncInv`. A failed call or a crash gives the loop up in the middle:
`InSync` leaves out the plans it was about (`Broken`), and the two other properties
hold of these, too.

Evidence threads are not left out. `InSync` says of every incident, whoever copied it,
that plan and run agree and that its status fits them or is one of those that threads
read and saved again (`PutBack`). `EvidenceKept` is about the saves of signals and
approvals: when one loses evidence, some of what is lost is a thread's. A loop's own copy
and the row differ only by what threads saved, and the argument is about the latest
such save: the thread adds its own name, which no row and no copy had before
(`FreshInv`), so the copy does not have it. That nothing else has the name of a thread
is in `NilAssumption`.

`MonitoringProofs` proves `TypeOK`, `OneActive`, `AlertIsEarned` and
`RecoveryIsEarned` for every number of processes and rules and every length of the
two streaks. `StageInv` says that whoever is in a cycle holds the lock, and that
what it saw since it took the lock is still so, as long as nobody saved a copy: no
active incident of its rule when it found none. `HeldInv` says that an incident somebody holds a copy of stays one
of the same rule. `StreakInv` is the link between the code and the history the
properties are stated with: a counter is at least n exactly when the last n
evaluations say the same (`Says`), although counters stop at what the rule asks
for, and `alerting` is `armed`. `CountValue` proves that one evaluation keeps it.

`RepositoriesProofs` proves `SameEntity` for every kind of entity and any number of
callers, identities and changes, `SameLookup` and `SameLists`. `SameEntity` is about
entities that everybody saved, so it needs what is true of the others (`UnsavedInv`): of
an entity nobody raced for, a caller with an unsaved change has the object of memory
as it is, and is the only one; PostgreSQL does not have it yet. Its save then makes the
row equal to the object, and no later save can put an older copy back. `ReadBack` is the
lemma that what is written as JSON is read back as it was, for every kind. The assumption
is `RepositoriesAssumption`.

The lookups and lists hold in races too, since what they select and sort by never
changes: the object, the row with its column, and every copy have one group and one time
(`KeptInv`; a newer node, asset or edge brings a new time, and its column is set with it).
`KeyInv` gives the run of a key (`RunsAreFound`). The others rest on what memory's order
is: `NewestFirst` is *some* arrangement in which each entity comes `Before` the later
ones, newer or inserted earlier, and `OrderExists` shows that there is one, without
induction: the place of an entity is how many come before it; the relation is a strict
total order on what is stored, so no two have the same place, and as many places as
entities are all taken. `FirstAnswers` then says that the first n of it are an answer to
`ORDER BY ... DESC LIMIT n`: distinct rows, as many, newest first, and nothing left out
is newer than what is given, although the query may take other rows of one time than
memory does. `RowsAre` is the filter, which PostgreSQL evaluates in the row and memory
on the object.

`KubernetesPluginProofs` proves `TypeOK`, `StaysReachable`, `NoLeak`, `HealthIsOwn`
and `LastWordStands` for every set of processes, manifests, calls and payloads. The
event loop does one thing at a time, and only that is about a process which is not
registered (`TaskInv`); so whoever runs is registered or the candidate, and whoever
ends is being stopped (`StageInv`), which is `NoLeak` once nothing is under way.
Sockets and shared connections lead only to processes started under their path
(`PathInv`), and a plugin whose version was not installed over it shares its path
with nobody who runs (`TwinInv`): so its requests reach it, and a candidate's health
check is answered by the candidate. For the cluster, `CallInv` says that at most one
call is awaited, that the count of a call nobody waits for is among the unsure ones,
and that a count applied by the awaited call is still there, unless an unsure one came
after it. When the awaited call takes effect, all but the counts still adrift leave
`unsure`, and the invariant asks for no more of them.

Each `IInv` was an invariant of a run of TLC on the module's instance before it was
proved. The assumptions are `NilAssumption` (what is absent is none of the values) and
the assumption on the constants each module declares; `SuccessesEarned` has `StepsDiffer`
for a hypothesis, and the theorems on one process have `OneProcess`, which are the
conditions they are about.

Model-checked only: liveness (`EveryoneAnswered`, `SentIsSettled`,
`AlarmRaised`, `CalmRestored`, `FaultsExpire`, `ContainersRecover`), which is
out of the provers' reach. Every safety and action property the passing runs check is
stated by a theorem. `SuccessIsEarned` is not claimed of plans that repeat a step, nor
`InSync`, `OneRunPerPlan` and `EvidenceKept` of several processes: there they do not
hold.

## Findings

Two runs show the code doing something else than its comments or documents say;
`PROJECT.json` quotes them: an evidence thread takes an incident back
(`remediation_sync`), and a batch is acknowledged that was not persisted
(`telemetry_ack`).

Recorded as hazards, and as premises of the properties that meet them: two processes can
find a plan pending and execute it under two keys (`OneRunPerPlan` is of one process); an
expired plan leaves its incident waiting (a state `InSync` accepts); a failure
between the saves of incident and plan leaves an incident that waits for no plan
(`Broken`); a start that stops in the middle leaves some default rules out, since
the next start finds the table not empty; an activation of the CPU fault while the
thread is on its way out starts no other (`OneWorker` bounds the threads from
above only); a lost answer of an injection schedules no reset (`ResetPending`
excludes it); the advisory lock keeps two cycles from overlapping and not from
running within the same minute; a version installed over itself shares the socket
path with its predecessor (`twins`).

## Plan

Written, in this order: AgentAction with OneAnswer and its proofs, Remediation (with
Ledger last),
Telemetry, Monitoring, FaultState and FaultLab with its proofs, PluginRuntime and
KubernetesPlugin, Collectors, RateLimiter with its proofs and Console,
Repositories, then the
proofs of Telemetry, of Remediation, of Monitoring, of the refinements of
OneAnswer and Ledger, of the plugins, of the console, of the one process, of the
collectors and of the repositories.

What would come next: the match of a signal to an incident over the topology, and an
advisory lock that is lost with its session, both listed below.

## Not modelled

- Detectors, parsers, root cause ranking, SLO and capacity arithmetic, retrieval:
  pure computations over floating-point numbers or text, called with their whole
  input. There is no behaviour to explore, and bounded integers would not say what
  floating point does.
- The match of a signal to an incident by assets adjacent in the topology: the
  models have the match by asset and time.
- External queries and the plugins other than Kubernetes: one HTTP call each; that
  it fails is a step of the models that use them.
- Cryptography: a signature is a Boolean of a task, taken as sound.
- The pages of the console that only read, and what a page looks like.
- Memory, disk, network and load of a host: read without state.
- Deployment files and experiments: configuration, shell scripts and offline
  evaluation on recorded data.
- An advisory lock that is lost with its database session while the cycle goes on.

`PROJECT.json` gives the reason for each component.
