# Verification of the auto-remediation platform

TLA+ models of the stateful core of this repository, the TLC runs that check
them on small instances, and TLAPS proofs for every value of the constants.
`PROJECT.json` lists, for every definition that models code, the lines it
stands for.

    tlc -workers 2 -config LadderLoop.cfg MCRemediationLadder
    tlapm RemediationLadderProofs.tla

## 1. The system

A platform engineer's assistant for Kubernetes. One half is an MCP server that
answers questions about a cluster and only reads. The other half, which this
project is about, finds sick workloads and repairs them: a watcher turns
cluster events into work, a restart-first ladder tries the cheap repair, a
sandbox tries candidate fixes in a throw-away cluster, a GitOps generator
turns verified fixes into pull requests, and a worklist hands the development
tasks of an audit to agents that work in parallel.

| Part | Source (src/) | State it keeps | Operations | What must hold |
|---|---|---|---|---|
| Restart-first ladder | `auto_remediate/remediation_ladder.py` | sessions, breaker counts, the locals of each watch; the cluster's rollouts | detect, restart, watch, analyze, sandbox_verify, apply, escalate, advance, acquire, release | nothing is changed in a trading namespace or in dry run; restarts are budgeted; one watcher per session; restart first; a driven session settles |
| Worklist, tasks | `worklist.py` | table `tasks`, one lock per process | seed, claim_next, mark_in_progress, complete, fail | a task has one owner; a row waits for the rows its blockers name; the list drains |
| Worklist, audit run | `worklist.py` | table `audit_runs` | ensure_audit_run, advance_phase, increment_iteration, escalate | an exhausted run is escalated |
| Worklist seed | `worklist_seed.py` | none | topological_sort | blockers first, cycles reported |
| Event watcher | `watchers/event_watcher.py` | resource version, rate-limit stamps, table `work_queue` | run, _consume_stream, _upsert | bounded queue, deduplication, no event unaccounted for, catches up |
| vcluster sandbox | `auto_remediate/vcluster_sandbox.py` | semaphore, vclusters and kubeconfigs on the host | run_sandbox | torn down on every path, permits come back |
| GitOps pull requests | `gitops/pr_generator.py` | pull requests on GitHub | create_remediation_pr | one open pull request per fix, auto-merge only where allowed |
| Safety gate | `safety_gate.py`, `audit.py`, `safety_config.py` | configuration, decision log | load, check | nothing is done that was not logged as allowed; trading and system namespaces are left alone |
| Observer runtime | `auto_remediate/runtime.py`, `analyzers/pod_analyzer.py` | rolling dedup window, health and audit files | _run_loop, _process_findings | a finding that persists is reported, and is silent for a bounded time only |
| Finding cache, LLM backends | `auto_remediate/finding_cache.py`, `nim_backend.py` | SQLite cache with TTL | explain, get, set, evict_expired | the backend is asked once within the TTL; every call ends |
| Redis runner scripts | `scripts/runner/*.py` | sorted set and hashes in Redis | claim_task, mark_done, mark_failed | a task has one holder, is lost only with its agent, and the queue is worked off |
| Audit logger | `auto_remediate/audit_logger.py`, `audit_query.py` | file descriptor, file | append, reopen, read | every record is in one file, or its loss is accounted for |
| Pod watchdog | `auto_remediate/watchdog.py` | baseline, events seen | run_watchdog | a pod called healed is healed; a verdict by the deadline |
| Orphan job cleaner | `analyzers/orphan_job_cleaner.py` | none, two listings | find_orphan_jobs, cleanup | only Jobs whose CronJob is gone are deleted |
| Resource analyzers | `analyzers/*_analyzer.py` | none | analyze, run_safe | a call that fails invents no finding |
| Deterministic remediation | `auto_remediate/deterministic_remediation.py` | none | dispatch | the first handler's fix improves something |
| GitHub issues manager | `github_issues_manager.py` | SQLite cache | initialize, background update, clean-up, stop | rows follow GitHub |
| DPO pairs, finding store, guards, documentation manager | `dpo_pair.py`, `finding_store.py`, `namespace_guard.py`, `documentation_manager.py` | files, SQLite | validation, upserts | not modelled (section 6) |
| MCP server, managers, reports, configuration | `mcp_server.py`, `main.py`, `*_manager.py` | none or canned | read-only | not modelled (section 6) |

How they interact: the watcher writes `work_queue`, whose consumer is not in
this repository; ladder, sandbox and pull-request generator are libraries that
a driver is to call in that order, and the driver is not in this repository
either; agents on several machines share the worklist file. Apart from SQLite
and GitHub, state is private to one process, and `k8s/auto-remediate.yaml`
(lines 59-60) runs one replica and recreates it, so there is never a second
process beside the one being modelled. The exceptions are the worklist,
the Redis queue, the audit file and the issues database, which several processes
open, and are modelled with several.

The hard behaviours are listed, each at its line, under `hazards` in
`PROJECT.json`: coroutines that suspend inside a watch, steps of one operation
that are separate transactions, calls that fail after they took effect,
restarts, streams that expire, permits and caps.

## 2. Modules

| Module | Models | Runs |
|---|---|---|
| `RemediationLadder` | the ladder and its breaker: `Spec` (any call, any order), `LoopSpec` (advance() only) | LadderApi, LadderLoop, LadderAwareTimestamps, LadderSlotLeak |
| `LadderContract` | abstract: the state diagram a driven session walks | implemented in LadderLoop |
| `Worklist` | the tasks table: `Spec` (any call), `AgentSpec` (one task at a time) | WorkQueues, WorklistOrder |
| `AuditRun` | the audit-run row | WorkQueues |
| `RunnerQueue` | the Redis queue and the scripts, one command a step | WorkQueues |
| `EventWatcher` | the watcher, the API server's log, the workers | EventWatcher |
| `VclusterSandbox`, `PrGenerator`, `RemediationRuns` | the two halves of a run | composed by RemediationPath |
| `RemediationPath` | both halves in one event loop, GitHub, restarts | RemediationPath, RedMerge |
| `ObserverRuntime` | the observer loop around PodAnalyzer | Observers |
| `AuditFile` | the audit log of several processes under rotation | Observers |
| `SafetyGate` | configuration, decisions and what callers do after them | Observers |
| `ExplainCache` | concurrent explain() over the TTL cache, retries | Observers |
| `Watchdog` | poll loop and event task on one event loop | Observers, PolledOnTime |
| `OrphanCleaner` | two listings and deletes in a changing cluster | Observers |
| `ResourceAnalyzers` | the decision rules of eleven analyzers under failing calls | Server |
| `FixTable` | dispatch over the ten handlers | Server |
| `TopologicalSort` | Kahn's algorithm, one loop iteration a step | Server |
| `IssuesCache` | servers that copy pages of issues into SQLite | Server |
| `MC*` | small instances | |
| `FiniteOrders` | lemmas: least and greatest elements, sequences without repetition | |
| `*Proofs` | theorems | |

### RemediationLadder

All methods run in one event loop and only the `asyncio.sleep` of `_watchdog`
yields, so every other method is one action and `watch()` is `Watch` (up to
the first sleep) followed by one `WatchWakes` per wake-up. `watch[t]` holds
what task `t` keeps in the locals of `_watchdog`; `state`, `res`, `restarted`,
`cycles` and `dpo` are the fields of a `LadderSession`; `counts` is
`NamespaceCircuitBreaker._counts`. `rollouts`, `fixed`, `notified` and `lost`
are the world: what the patches and the webhook did, and which patches landed
although their call raised. A call that raises before it assigns anything is
no step. `DeadlinePassed` may come at any wake-up, because slow API calls can
use up the 300 seconds, and must come after `WatchPolls` sleeps.
`AwareTimestamps` says whether event timestamps carry a timezone. `detect()`
sees any list of container statuses of `PodStatuses`; `LastReason` and
`LastRestartCount` keep what its loop keeps.

### Worklist and AuditRun

A method holds its process's `threading.Lock`, and what it writes is one SQL
statement or transaction, so it is one action; a SELECT that follows only to
return the row is left out. `seed()` is an `executemany` in autocommit mode, so
it is one `SeedRow` per entry, other processes act in between and the process may
die there. `seq` is `sqlite_sequence`: it grows even when `INSERT OR IGNORE`
skips a row (SQLite: ids 1, 2, 3 and then 7, 8, 9 after a seed of three was
repeated).

A declared id is never stored. Rows get ids in the order of insertion, and
`claim_next` compares the blockers, which are declared ids, with row ids. So two
properties have to be told apart: `DependencyOrder`, which the repository's
documents promise and which the code breaks for its own sorted list
(`WorklistOrder`), and `RowOrder`, what `claim_next` does keep for any list: a row
starts only when every row its blockers name, up to its own id, is done.
A row inserted later that has an id from the blockers was not there to wait for,
which is why `RowOrder` says "up to its own id". For a list written in the order
of its ids, seeded once into a new database, row ids are declared ids and the two
are the same; `CANONICAL_TASKS` as it stands in the file is such a list, and what
`topological_sort` makes of it is not.

`increment_iteration` commits its UPDATE (`IncrementIteration`), reads the count
back (`ReadBack`, the caller is in `reading` until then), lets the lock go, and
calls `escalate()` when that count has reached the limit (`EscalateOwed`, the
caller is in `owing`). Another process may write in each of the gaps and a caller
may die there.

### EventWatcher

`log` is the API server's event log and a resource version is a position in
it; `oldest` is where its watch cache begins. A notice takes the actions
`Deliver`, `Depth`, `Select` and `Write`, one per statement that another
connection can get between; `Raise` is any of them raising and `Crash` a
restart of the process. `Connect` either opens the stream or gets 410.
`Take` is a worker changing a row's status; only the table is known of the
workers. The clock does not advance while a notice is being handled: a unit is
tens of seconds and SQLite's lock timeout is five. The wall clock and the
monotonic clock advance together.

### RemediationPath

`VclusterSandbox` has one action per awaited command of `_sandbox_lifecycle`,
each with the outcomes the code ignores as well as those it tests, and
`Return` for the paths that lead to the finally block. `PrGenerator` has one
action per `gh` command; `create_remediation_pr` never awaits, so while a call
is in progress (`Blocked`) no coroutine runs and only GitHub acts. A driver
that is not in this repository is assumed: it calls `run_sandbox` and then
`create_remediation_pr` with the verdict. The search for an existing pull
request is taken to be current.

### RunnerQueue

Each script is a sequence of Redis commands and each command is an action, so
scripts of other agents run in between; `at[a]` is the command the script of
agent `a` runs next, `on[a]` its task. `mark_failed` whose last reply is lost
leaves the agent `"unsure"`: it runs the script again, and by then the task may
be somebody else's. `OneHolder` therefore says `reruns = 0`; what a second run
can do is in the model, and `LossesAccounted` holds with it. After a second run
the head of the queue can be a task that every claim pops, rejects and puts
back, which is why `RunnersFinish` also says `reruns = 0`.

### ObserverRuntime, AuditFile, SafetyGate

One interval of `_run_loop` is one step, because the process does nothing else
meanwhile; `seen` is the deque `_SEEN` with, for each entry, `left` = how long
it still counts by the wall clock, and its true age, which only the property
reads. `content` holds the lines of each file of the log; a line cut short by a
full disk has no newline, so the next one is glued to it. `path` is the file the
log path names and `fd[w]` the one a process's descriptor denotes: after a
`reopen()` that raised, `_fd` keeps the number of the closed descriptor, and
that number may come to denote something else (`NumberReused`). `Check` logs
and answers in one step, `Act` is what the caller then does, and edits of the
file, restarts and other callers come in between.

### ExplainCache

`explain()` runs without an await from the lookup to the request (`Ask`) and
from the reply to the INSERT OR REPLACE (`Reply`; `ReplyLost` when that raises);
`TTL` is counted in ticks. A row is the model and its age: what the text says,
and whether the backend or its fallback table made it, no lookup asks. `known`
is history: how old a caller's last answer about a finding is, until a caller
with another model overwrites the row. A commit that fails after its INSERT,
which leaves the row in the open transaction, is not modelled.

### Watchdog

The stream of events is a synchronous iterator inside a coroutine, so `stream`
says whether it holds the event loop (`"blocked"`), has given it up after an
event (`"yielding"`) or has ended, which the server may bring about at any time
up to its timeout; `Poll` needs the loop. `restarted` and
`replaced` are what happened to the pod since the baseline: history that only
the property reads.

### OrphanCleaner

`snapshot` is what `list_job` returned, `orphans` the names cleanup() still has
to look at. The environment creates, changes and deletes Jobs and CronJobs
between any two calls; a CronJob has a uid and does not come back.

### ResourceAnalyzers and FixTable

Pure rules: an object is a record of the facts a rule asks about it, and `Scan`
and `DispatchReport` apply the rules to every object or finding of the instance.
`down` is the set of API calls that raise while an object is looked at: an
analyzer takes a failed call for an empty answer, skips the check, or raises,
and `Analyze` has for each call what the code does. A handler of `FixTable` is
whether it applies, whether it raises and the numbers it may propose. `bump` and
`growth` are `raw["bump_percent"]` and `raw["growth_percent"]`, with the code's
defaults. The code multiplies floats, and a product that should be a whole
number of units may come out just below it and lose the unit (`int(100 * 1.13)`
is 112, not 113): `RaisedBy` allows both values there, except for percentages
whose factor is exact in binary. That is right for limits up to 2^44 bytes and
claims up to 2^40 Gi, where a float still tells units apart, and for whole
percentages of 0 and more; negative and fractional ones, which nothing in the
repository writes, are not modelled. When the listing call of an analyzer fails
it finds nothing (`Unlisted`), but `NetworkPolicyAnalyzer` goes on with the
namespace `default`; `CronJobAnalyzer` has no `run_safe` and raises, which finds
nothing either.

### IssuesCache

One repository of the list; the others share only the database lock, whose
effect (a transaction that fails) is `Fails`. `FetchPage` is a response,
`ProcessIssues` its transaction, and GitHub changes in between. A page is the
`PageSize` issues that changed last.

## 3. Runs

| Run | Checks | Bounds, and why they are enough |
|---|---|---|
| LadderApi | `OnlyAllowedMutations`, `RestartsAccounted`, `BreakerExact` | two sessions, a watching task, a cap of 1 so that a second session contends, a Deployment, a Pod and a resource in a trading namespace, one failing call |
| LadderLoop | `OneWatcher`, `RestartFirst`, `ImplementsContract`, `LadderSettles` | two tasks so that one session can be driven twice, three polls so that the healthy count can reach two, be reset, or miss the deadline |
| LadderAwareTimestamps (violation) | `WatchDecides` | one recent Warning event is enough |
| LadderSlotLeak (violation) | `OpenOnlyWhenBusy` | the cap's number of finished sessions |
| WorkQueues | `OneRowPerTask`, `ExclusiveJobs`, `TeamOrder`, `EscalationNotLost`, `OneHolder`, `LossesAccounted`, `ClaimIsFinal`, `EscalationFollows`, `TeamDrains`, `RunnersFinish` | worklist: two processes that both seed, a crash inside a seed, four tasks in the order `topological_sort` gives them, with the ids 1, 4, 2, 3, so that a row names the row after it and one waits for two others, tasks may fail; audit run: three callers, the code's threshold of 5 and two increments beyond, one death; Redis: two agents, two tasks of different priority, two failures, one re-run script, one agent killed |
| WorklistOrder (violation) | `DependencyOrder` | all 25 tasks of the repository in sorted order, one seed, two agents, no crash, no failure |
| EventWatcher | `DepthBounded`, `RowsApart`, `Accounted`, `UnhealthyNotMerged`, `EventuallyCaughtUp` | two keys and an ignored reason, a limit of 2, windows of 2 against a clock of 4, two faults of any kind; replays make four deliveries of two notices |
| RemediationPath | `AutoMergeGate`, `OneOpenPr`, `TornDown`, `RerunNeverEscalates`, `EveryRunEnds` | two runs that share one permit, a fix that may be merged and one that may not, one sandbox fault, one failing gh command, one restart |
| RedMerge (violation) | `RedNeverMerges` | a green run and a red re-run |
| Observers | `SilenceBounded`, `RuntimeReports`, `RecordsKept`, `GateFirst`, `AskedOnce`, `EveryCallEnds`, `HealedJustified`, `VerdictReached`, `DeletesJustified` | loop: one pod of two conditions with three findings, a window of 2 intervals, one clock step as long as the window, one failing interval, one restart; log: two writers, four records, one rotation, one refused, one torn write, one failing reopen; gate: two callers, a namespace on two lists, two server starts; cache: three callers, two of one model and one of another, two findings, one retry, any number of restarts; watchdog: a deadline of 4 with intervals 1, 2 and 3, four looks of the pod, two restarts, an event that is delivered twice, a stream that the server closes at any time, one failing call; cleaner: one name, two CronJobs, one new Job |
| Server | `FindingsGrounded`, `FixesSound`, `SortCorrect`, `EventuallySynced` | objects on both sides of every threshold and every set of their calls failing; findings that no, one and several handlers match, with the quantities and percentages at which rounding matters (4 Mi by 10 %, 100 Mi by 13 %, 1 Gi by 50 %); every graph of four tasks, self-loops included; two servers, an issue and a pull request on pages of one, one change, one fault |
| PolledOnTime (violation) | `PolledOnTime` | a quiet stream is enough |

WorkQueues, Observers and Server check several modules that share no state in
one run: the variable `part` picks the module a behaviour is about in the
initial state, its next-state relation moves only that module's variables, and
the others keep one initial value. Nothing is composed that way that interacts;
it makes one run out of several small ones, and a property says `part = ...`
only where an untouched module would not meet it.

Every bound that is not in the code is a CONSTANT whose name begins with
`Max` (or `ExtraIterations`, `StartTimes`). Deadlock checking is off
everywhere: sessions end, lists drain and bounds are reached, and then the
modelled part really has nothing to do. What must go on is stated as a
liveness property instead.

Fairness. `LadderLoop`: the event loop runs ready coroutines and some driver
keeps calling advance() on each session, as its docstring asks. `EventWatcher`:
`run()` reconnects for ever and the executor thread runs; nothing is assumed of
workers or of the server. `RemediationPath`: external commands end and the event
loop is fair; entering the sandbox is strongly fair because `asyncio.Semaphore`
serves its waiters in order while the loop may be blocked again and again by
another call. No run has to be requested. `WorkQueues`: processes finish a
seed() they began, agents keep asking for work and run the script they started,
a thread inside increment_iteration runs on; that work succeeds is not assumed,
failures are bounded. `Observers`: the loop goes on and the kubelet restarts a
container that ended, as the pods of a Deployment are, a request returns or
times out, sleeps end, the server closes a watch by its timeout; nothing is
assumed of the cluster, and no outage has to end other than by its bound.
`Server`: requests of a running server return; that a server is running is the
premise of `EventuallySynced`, that it was started is not assumed.

Each passing run has, for every property, a mutant of the code's model (listed
under `mutants`) that makes it fail.

## 4. Disagreements the runs show

1. **A watch dies on the first Warning event** (`LadderAwareTimestamps`).
   `_watchdog` compares an aware `last_timestamp` with the naive `restart_ts`;
   the session stays in `WATCH_HEALING`, which `advance()` takes for a watch in
   progress. `LadderSettles` therefore excepts sessions whose watch raised.
2. **Slots are never released** (`LadderSlotLeak`): the breaker counts sessions
   ever detected, not sessions in flight.
3. **Tasks are claimed before their blockers** (`WorklistOrder`). Rows do not keep
   the declared ids that blockers refer to. It takes no crash: in the sorted list
   row 2 is task 10, and with it done task 20 is handed out although its
   blocker, task 2 in row 7, is queued. The same confusion has more faces. A
   process that dies inside `seed()` and a second seed shift the ids of the rows
   that were missing, whatever the list's order. A sorted list can wait for
   itself: tasks 1, 2 (after 3) and 3 are sorted to 1, 3, 2, so row 3 names row 3
   and is never claimed; two seeds that interleave or a crash can shift a row onto
   its own blocker id in the same way.
4. **A red re-run leaves auto-merge on** (`RedMerge`).
5. **A quiet event stream stops the readiness poll** (`PolledOnTime`): the
   iterator blocks the event loop; the polls every 5 seconds that the design
   promises take place when events arrive, or when the server closes the stream, at the
   deadline at the latest.

Smaller divergences met while reading, without a run of their own: `advance()`
ends in APPLY or ESCALATE through `sandbox_verify` without `apply()` or
`escalate()` having run; `detect()` neither refuses trading namespaces nor reads
`last_state`, where OOMKilled is reported; a failed blocker keeps its dependents
queued for ever; `advance_phase` and `increment_iteration` move runs out of
terminal phases; nothing under `src/src` calls `topological_sort` or `seed` on
the canonical list, documents and tests do; the SELECT of `_upsert` is outside
the write transaction although the design calls both branches atomic, so a row
claimed in between absorbs a notice; the first Unhealthy notice within 120 s of
host boot is suppressed (default stamp 0.0); `DeploymentRolloutSmoke` only
watches `sandbox-probe`, so a candidate that applies but never starts passes;
the result of `vcluster delete` is ignored; only open pull requests are
searched, so a fix gets a new one after its first was closed; the
`sandbox-verified/*` label is created and never attached.

And of the parts modelled last. Gate: `default_policy` and overrides are read by
no code, verbs outside `MUTATING_ACTIONS` are permitted anywhere, and nothing
calls the gate yet. Cache: `make_backend` does not wrap its backend in the
cache; the client's own two retries make up to nine requests of three attempts;
an answer of the fallback table is cached under the model's name for the whole
TTL; two models share one row per finding and displace each other's answers, so
with both in use a finding is explained again and again. Runner scripts: see
RunnerQueue in section 2. Watchdog: an event that is repeated keeps the first
`last_timestamp`, so a recent repetition does not count; the result "timeout" is
never returned; an exception of the stream replaces a verdict that was reached.
Audit log: `read_entries` raises on a torn line that the query skips; what can
be read (`Readable`) is what the query finds. Cleaner: a Job with two CronJob
owners is an orphan when one of them is gone; the delete is by name, so it can
hit a Job created under the name since; activity is judged by the listing.
Issues: an issue without body rolls its whole page back; an issue that falls off
its page keeps its last row; a closed issue older than a year is stored and
deleted again at every update. Analyzers: with two StatefulSets in a namespace,
`_list_pods` returns the pods of both and "ordinal-gap" is reported although no
pod is missing; Service and PVC analyzers take a failed call for an empty answer
(`FalseAlarms` of `ResourceAnalyzers` lists what that invents); the largest CPU
and memory may be of different nodes; a history limit of 0 is read as the
default; the used bytes of a volume are not implemented. Dispatch: a handler
that raises hides a later one in the two orders of `Hides`; a raise of one unit
or less may be no raise (a limit of 4 Mi with a bump of 10 % stays 4 Mi, a claim
of 1 Gi is "expanded" to 1 Gi), and `int()` of a float product may lose one more
unit; ProbeTuning puts a `tcpSocket` under `httpGet`.

## 5. Proofs

`tlapm` checks every theorem to the last leaf, for every value of the
constants. Each safety invariant of the passing runs is a theorem, and so are the
refinement and the action properties `ClaimIsFinal` and `RerunNeverEscalates`.

Assumptions. Only the named `ASSUME`s of the modules, which TLC evaluates on every
run. Most give constants their types. Those that say more:

- `WindowsNested` (`EventWatcher`): the dedup window does not outlast the Unhealthy
  rate limit, 60 and 120 seconds in the code; the part `Limited` of the
  watcher's one invariant needs it, for `UnhealthyNeverMerged`.
- `RuntimeBounds`: there are finitely many pods and the dedup window is at least
  one interval; a window of 0 would prune an entry in the interval it was made in.
- `ObjectsAssumption` (`ResourceAnalyzers`): quantities are numbers, lists are
  finite, and a pod of a StatefulSet is named by its set and ordinal, so no two pods
  have both in common.
- `ReportsAssumption` (`FixTable`): the fields of a finding have their types. It
  does not say that they belong together: see `Misfiled` below.
- `TaskIdsAssumption` (`TopologicalSort`): the ids are finitely many numbers.

Each argument is an inductive invariant that TLC found true of every reachable
state of the run's instance before it was proved (`KahnInv` on three tasks), with
one lemma per action.

| Module | Theorems | Inductive invariant, and why the property alone is not inductive |
|---|---|---|
| `RemediationLadderProofs` | `TypeCorrect`, `MutationsGuarded`, `RestartBudget`, `BreakerCorrect` (for `Spec`) | what is charged to a namespace is the set of sessions that hold a slot in it, and rollouts are accounted per session: a patch says nothing about the session that sent it |
| | `SingleWatcher`, `RestartComesFirst`, `TerminalIsFinal`, `ContractImplemented` (for `LoopSpec`) | a task that is inside watch() belongs to a session in `WATCH_HEALING`, one task per session, and `advance()` enters no session that is being watched; the refinement needs this, since a second watcher could move a decided session back |
| `WorklistProofs` | `WorklistTypeCorrect`, `SeedIdempotent`, `ClaimsAreFinal` (for `Spec`), `JobsExclusive`, `WorkInOrder` (for `AgentSpec`) | a row is absent exactly when it has no task, rows without an owner are exactly the queued ones, the next row id is free; an agent's job is a row it owns; `RowOrder` needs that rows are never removed, that done is final for disciplined agents, and that a new row has a higher id than all others (`OrderInv`); nothing is assumed of the list |
| `WorkQueueProofs` | `AuditTypeCorrect`, `EscalationKept` | until the stop reason is written, the calls that had to escalate are no more than the callers still inside `increment_iteration` plus those killed there (`Owed`); a caller may read a count others raised, so it is an inequality |
| | `NoSharedTask`, `LossesBounded` | a script is idle exactly when it has no task, and only a lost reply makes one unsure; no step of a script touches the task of another; tasks that are neither queued nor done and that no script will bring on (`Abandoned`) are no more than the agents killed; this counts a task early whose claim was overwritten while its script still holds it, because `mark_done` will turn that script away |
| | `TeamInOrder` (for the composition `MCSpec`) | the invariant of `WorkInOrder` while `part = "team"`: every step of the composition is then a step of the agents or leaves the table alone |
| `EventWatcherProofs` | `WatcherTypeCorrect`, `QueueBounded`, `RowsKeptApart`, `UnhealthyNeverMerged`, `NoticesAccounted` | what one statement read still holds, weakened by what workers may do, when the next statement uses it: the depth was below the limit (`RoomLeft`), no row of the key is in the window, or the one found is (`Selected`); a row of a limited key that can still count was last seen before the stamp that lets the next notice in (`Limited`). `NoticesAccounted` needs the same: the UPDATE must hit a row that is there, and what rows count is a finite set of (row, number) that an insert or an update extends by one |
| `RemediationPathProofs` | `PathTypeCorrect`, `AutoMergeGuarded`, `SingleOpenPr`, `SandboxesTornDown`, `RerunsNeverEscalate` | one call is in progress at a time, and while it creates no pull request of its fix is open (`Calls`): GitHub and people only close them meanwhile; a pull request stems from a call with that verdict (`Opened`) |
| `ObserverProofs` | `BackendAskedOnce`, `GateComesFirst`, `OnlyOrphansDeleted`, `HealedIsHealed` | what a caller was told within the TTL is in the cache, under the caller's model and no older than what it was told (`ExplainInv`), so it neither expires nor is evicted before; what a caller was granted is in the log and permitted by the configuration of the running server (`GateInv`); a Job that still is the listed one kept its owners, and a CronJob missing from the second listing was created and is gone (`CleanerInv`); a restart since the baseline shows in the count unless another pod took the name (`HealedInv`) |
| | `SilenceIsBounded` | `RuntimeInv`: the time an entry has left and its true age add up to no more than the window and all the steps of the clock, and the deque is oldest first. Pruning stops at the first entry that has time left, so only the sum bounds the age of that one, and only the order bounds the ages of those behind it, which may have expired |
| | `FileTyped`, `RecordsAreKept` | `FileInv`: every record that was sent is stored, was reported, or strayed; a record is in one file; records increase along a file, also past torn lines; the torn lines that are stored are no more than the torn writes. `RecordsKept` speaks of records that can be read, and follows by counting: a stored record is unreadable because its line or the one before it is torn, which maps the missing records two to one into the torn lines |
| `ServerProofs` | `SortIsCorrect` | `KahnInv`: an in-degree is the number of blockers that are not put out yet, and the tasks put out or queued are exactly those that wait for none. Nothing less will do: `BlockersFirst` alone does not say why a task may be queued, and a cycle is what is left when the queue is empty (the tasks left block each other; conversely the first member of a cycle to be put out would have a blocker before it) |
| | `ScanIsGrounded`, `FixesAreSound` | the findings are those of the object and the outage looked at last (`ScanInv`), the fix is one the first matching handler may make of the report (`FixInv`); the work is in the lemmas about the rules, one per kind of object and one per pair of handlers, and about integer division (`RaisedByBounds`) |
| `FiniteOrders` | | lemmas that several of them need: finite sets of numbers have a least and a greatest element, and what concatenation and moving the head do to sequences without repetition |

Type invariants are proved where a theorem above names one and are conjuncts of
the invariants otherwise; no run spends a property on them.

What the proofs changed in the models. Proving `ScanIsGrounded` showed that
`Analyze` was a CASE whose guards overlapped when the listing call of an
analyzer failed, so that its value was left to CHOOSE; the failed listing is now
decided first, as in the code. `FixesSound` took two restrictions. It is false
of arbitrary findings: handlers test `behavior` and `reason` and not `kind`, so
a finding that says of another object what analyzers say of Pods (`Misfiled`)
reaches handlers that raise and hide others in more orders than the two of
`Hides`; no analyzer files such a finding, and the property says so now. And a
number grows only if the raise asked for is more than one unit, because `int()`
may take that much. `Accounted` counts with a set instead of a fold.

Only model-checked: liveness (`LadderSettles`, `TeamDrains`,
`EscalationFollows`, `RunnersFinish`, `EventuallyCaughtUp`, `EveryRunEnds`,
`RuntimeReports`, `EveryCallEnds`, `VerdictReached`, `EventuallySynced`), which
is outside the prover's reach, because it rests on fairness. The violations of
section 4 are counterexamples and need no proof.

## 6. Not modelled, and why

Not modelled: DPO pairs (a pure check and JSON files), the finding store (one
upsert in one transaction), the RBAC and namespace guards (predicates over
constant tables), the documentation manager (a refresh loop like the one of
`IssuesCache` around a crawl whose result is text), the MCP server and its
managers (tools are called one after the other, are independent, and read or
return canned data), `root_cause.py` (groups findings for a report), reports and
documentation texts, configuration and logging, manifests, GPU and training
scripts, and the consumer of `work_queue` and the driver of the remediation path,
which this repository does not contain: what they may do to the shared state is
the environment of `EventWatcher` and `RemediationPath`.

Inside the modelled parts, abstracted: texts of logs, prompts, titles and
bodies; timestamps that nothing compares; the backoff delays of `run()` (any
delay is a stutter); manifests (a fix is a model value with the three facts
the code asks about it); event collection of the sandbox; severities, evidence
and remediation texts of findings; reads of an analyzer that see the cluster at
different times (each object is looked at in one state); the heartbeat script;
patterns of the gate (a namespace has the lists that match it).

## 7. Plan

Modules still worth writing, in this order: the documentation manager beside
`IssuesCache` on a shared shape; the finding store under the cache; torn reads
of the analyzers that make several calls (StatefulSet and PDB first).

Proofs planned: every safety property that a run checks is proved. Next are
facts the runs do not state: that rows of `IssuesCache` are copies of an issue as it
once was on GitHub, and that `SafetyGate` and `OrphanCleaner` keep their
types; and a contract of the worklist (a task goes from queued to one owner to done
or failed) that `Worklist` implements.
