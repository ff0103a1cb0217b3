# A verification project for kigumi

kigumi runs directed acyclic graphs of Python functions, most of which call a
language model or an agent. A run costs money, takes hours, is interrupted, and
is resumed; kigumi's promise is that what was paid for is kept, that nothing
uncertain is repeated silently, and that the durable records of a run stay
consistent and readable. This directory holds TLA+ specifications of the parts
that make this promise, model-checked with TLC on small instances. All safety
properties of the passing runs but two are also proved with TLAPS, for every
instance that meets the hypotheses.

Paths such as `_runstate.py:907` are relative to `src/kigumi/` of the repository.

## 1. The system

| component | state | operations | interacts with |
|---|---|---|---|
| **Durable run state** (`_runstate.py`, `AttemptStore`) | per run: `_run.json` (status, generation, chains of digests, recovery ledger), per target `attempts/<t>/state.json` with its receipts, run lock, target leases (flocks with tokens) | `initialize`, `update_manifest`, `prepare`, `mark_side_effect`, `mark_checkpoint`, `record_failure`, `save_candidate`, `mark_completed`, `resolve`, `record_recovery_decision`; `validate_durable_run` reads it without a lock | called by `Dag.run`, `resume`, `recover`, `retry_resolve`; validates the artifact pairs on every `prepare` |
| **Run artifacts** (`artifacts.py`, `_execution.py`) | `<t>.json`, `<t>.json.meta.json`, published outputs, the table of output owners | `write_artifact`, `write_sidecar`, `seal`, `materialize` | written by `Dag.run` between `save_candidate` and `mark_completed`, outside the run lock |
| **Scheduler and permit plane** (`dag.py`) | node states, ready list, in-flight futures, thread pool, semaphores and gates of resource pools, budget-abort flag | the loop of `Dag.run`, `_execute_map`, `_execute_scan`, `_ResourcePool.acquire`, `_PermitPlane.acquire` | runs jobs that use all other components |
| **Keys and the node cache** (`dag.py`, `_execution.py`) | key components, file snapshots, ledger of dynamic files, cache envelopes | `_key_components`, `_node_key_decision`, lookup, seal, `plan`, `explain` | reads artifacts of dependencies, sources and declared files |
| **Declarations** (`dag.py`, `subgraph.py`, `declarations.py`) | `Dag._nodes`, `Dag._subgraphs`, `Subgraph._nodes`, `_frozen` | `node`, `agent`, `map`, `scan`, `foreach`, `mount`; topological order, downstream | what the scheduler runs |
| **LLM calling** (`calling.py`) | L1 cache, call records, the table of single-flight locks, `Budget`, attached files | `LLMCaller.call`, `Budget.reserve/commit/cancel` | many threads of several processes; asks `AttemptStore.mark_side_effect` before a request goes out |
| **File slots** (`slots.py`) | lock files `slot_<n>.lock`, `key_<digest>.lock`; capacity file and streak file | `FileSlots.acquire`, `acquire_key`, `AdaptiveCapacity` | cross-process admission for the caller |
| **Store** (`store.py`, `blobs.py`) | run directories, node cache, outputs, blobs, history | `allocate_run_id`, publish and roll back outputs, `gc_artifacts` | read and written by runs of several processes |
| **Agents** (`agents.py`, `pi.py`) | capsule, process and its output, reader thread, evidence, staging workspace | `AgentSpec.load`, `execute_agent_task`, `PiRpcAdapter.run` | executed by a node, after the side-effect boundary |
| **Retry policy, transport, failures** (`retry.py`, `transport.py`, `failures.py`) | none | `schedule`, `send`, classification | consulted by `record_failure` and the caller |
| **File primitives** (`_safe_io.py`) | none | bound reads, atomic replacement | under all of the above |
| **Repair, optimize, bench, evals; prompt, evidence; guards, docs, CLI, views, config, testing** | none to speak of | loops around a caller, pure functions, projections | |

`PROJECT.json` lists each with its files and what became of it.

### Which behaviours are hard, and what makes each component correct

* **Durable run state.** Several stores exist for one run, in different
  processes and in one; a process may die between any two calls, and between any
  two files of one call. Correct means: one live lease per target; no second call
  of the provider for an attempt whose effect may have happened; every decision
  of an operator is kept and reflected; a status that was published is one that
  readers accept; completed is final; what a crash tore is refused, nothing else.
* **Materialization and publication.** Several replacements, outside the run
  lock, any of which may fail. Correct means: a completed target keeps the sidecar
  that it pinned; outputs are published together or not at all; nobody takes
  away what another has published.
* **Scheduler.** Nested use of one thread pool, units of several pools taken one
  by one, timeouts, budget abort, parked and skipped branches. Correct means: no
  deadlock, no lost permit, no node without an outcome, aggregates only of
  complete results.
* **Keys.** Keys are computed from sources, files and artifacts that change
  between the moments they are read. Correct means: no artifact is taken for
  inputs other than its own; what `plan` and `explain` say is what a run does.
* **Caller.** Four nested admissions (flight, key lock, budget, slot), any of
  which may fail, entries that appear while one waits, files that change. Correct
  means: one flight per key and process, no request for an answer that is there,
  exact reservations on every path, every call returns, the request carries what
  its key names.
* **Slots.** A capacity that several processes lower and raise while others read
  it. Correct means: no report lost, a fall heeded at once.
* **Store.** Collection beside running processes. Correct means: what retained
  runs refer to stays.
* **Agents.** A foreign process, a thread and a deadline that race. Correct
  means: delivered is what was submitted once; every end cleans up; an end comes,
  unless a write to the process blocks for ever.

## 2. The modules

| module | what it is |
|---|---|
| `AttemptStore` | the durable state of one run and the executors (AttemptStore instances) that work on it |
| `AttemptLifecycle` | its abstract promise: numbered attempts, no replay, completion is final |
| `AttemptStoreProofs` | theorems about `AttemptStore`, and that it implements `AttemptLifecycle` |
| `ReceiptChain` | the files of one write, a crash between any two of them, the reader without a lock |
| `RunLog` | its abstract promise: logs that grow one entry at a time, and stop once damaged |
| `ReceiptChainProofs` | theorems about `ReceiptChain` and its reader, and that it implements `RunLog` |
| `Publication` | claims of output places, publication of staged outputs, rollback |
| `Retention` | run directories, cache entries, blobs, and their collection |
| `StoreProofs` | theorems about `Publication` and `Retention` |
| `Scheduler`, `SchedulerProofs` | one `Dag.run`: loop, pool, permit plane, budget abort; theorems about it |
| `NodeCache` | keys, snapshots, cache lookups and seals, plan, explain, over several runs |
| `Registry` | declaration, mounting, topological order, downstream |
| `DagProofs` | theorems about `NodeCache` and `Registry` |
| `LLMCaller` | the call path: single flight, lock files, budget, slots, records |
| `LLMCallerProofs` | theorems about `LLMCaller` |
| `Throttle` | slots under an adaptive capacity, transient failures, delays |
| `CapacityCount` | the abstract promise of the two capacity files |
| `FileReads` | reads of a file that changes, for the cache, the key and the request |
| `CallPartsProofs` | theorems about `Throttle` and `FileReads`, and that `Throttle` implements `CapacityCount` |
| `AgentTask` | one agent execution |
| `Capsule` | the load of an agent's directory |
| `AgentTaskProofs` | theorems about `AgentTask` and `Capsule` |
| `MCAttemptStore`, `MCReceiptChain`, `MCScheduler`, `MCNodeCache`, `MCLLMCaller` | instances for TLC |
| `MCParts`, `MCEnds` | several small specifications that share no state, in one run each: a variable `part` says of which a behaviour is. `MCParts` extends its six components, `MCEnds` extends `AgentTask` and `LLMCaller`, so that a run checks the very definitions the theorems are about; the store in `MCEnds` is an instance on variables of its own |

`AttemptStore`, `LLMCaller` and `Scheduler` meet at two actions. `Scheduler`'s
`Bypass`, `Admit` and `Return` are what is left of the sequence `PrepareRun` ...
`MarkCompleted` of `AttemptStore` when only the outcome of a job counts;
`LLMCaller`'s `Send` and `BoundaryRefused` are the two results of
`MarkSideEffect`. `ReceiptChain` is one `WriteState` of `AttemptStore` taken
apart; `Publication` is what happens in front of `WriteArtifact`; `Throttle`
takes `LLMCaller`'s slot apart; `FileReads` its lookups and its attached file.
They are checked apart: a product of the state spaces is out of reach, and no
property of one mentions a variable of another.

### AttemptStore

Every public method of `AttemptStore` runs under the run lock, so each is one
action. What is outside that lock is a step of its own: the two replacements of
a materialized pair (`WriteArtifact`, `WriteSidecar`), the decision about the
final status (`Conclude`) and its publication (`Publish`), and every gap between
two methods, where another executor may step or a process may die. A call works on several targets
at a time (`Workers`): one is submitted when what it depends on (`Deps`) has
succeeded, and skipped when something above it was parked or skipped (`Skip`,
`classify_ready`). A target whose record is already "completed" does not succeed
by that alone: its pair is validated and its outputs are restored (`PrepareDone`,
then `Restore`), outside the run lock, and that may fail (`MaterializeError`).

| variable | code |
|---|---|
| `runStatus`, `ledger` | `status` and `recovery_decisions` of `_run.json` |
| `state[t]` | `attempts/<t>/state.json`: `status`, `attempt`, `next` (`next_attempt`), `effect` (`side_effect_started`), `owner` (`owner_token`), `resolved`, `pin` (the sidecar it was completed with) |
| `pair[t]` | `<t>.json` (there or not) and its sidecar: 0 for none, or one of two stamps; each writing makes another than the pinned one |
| `lease[e][t]` | `_target_leases` and the flock behind it; `fenced` is an entry whose handle another store of the process closed |
| `insync[e]`, `mutated[e]`, `admitted[e]` | `_manifest_generation`, `_state_mutated_since_status`, `_terminal_status_admission_generation` |
| `session[e]`, `stage[e][t]`, `verdict[e]` | where a `Dag.run`/`resume`/`recover`/`retry_resolve` call is |
| `crossed[t]` | history: how many executions crossed the effect boundary of the current attempt since it was last admitted from a record |

`Readable`, `MaterializationsReadable`, `Agrees` and `LedgerReflected` are the
validators every method starts with; a method that finds one false raises, which
is an action too (`PrepareRefused`, `RecordRefused`, `AdmitRefused`,
`MarkCompletedRefused`). `Crash(p)` ends a process at any moment: its flocks are
dropped by the kernel, its stores vanish, its files stay.

Abstractions: a lease token is the executor that minted it; a generation
number is only ever compared for equality; a sidecar is a stamp, since each one
names the moment it was made and is only ever compared with the pinned digest;
the files of one method are one step;
whether `RetryPolicy` allows a failure's kind is a free choice, whether attempts
are left (`MaxAttempts`) is not. `LastAttempt` bounds the attempts that operators
may queue, the only counter that could grow without end.

### AttemptLifecycle

`PhaseOf` and `NumberOf` map a `state.json` to a phase and a number; `over` is
"the run was published as completed". The abstract specification has no
executors, leases, crashes or files. A crash is a stuttering step, a restart
after a crash that happened before the effect boundary is one as well (the
attempt is "started" before and after), and there is no step from "exposed" back
to "started": that is the promise.

### LLMCaller

A thread's `pc` walks through `LLMCaller.call`: first lookup (`Call`), the
flight of the key (`Join`, `Enter`, `Leave`, `Drop`: `_lock_for_key`), the lock
file (`OpenKey`, `LockKey`, `KeyTimedOut`, `UnlockKey`, `UnlinkKey`:
`FileSlots.acquire_key`), second lookup and reservation (`Admit`, `Answer`), slot
(`TakeSlot`), durable boundary (`Send`, `BoundaryRefused`), provider
(`SendFails`, `Respond`), records and charging (`StoreResponse`, `StoreFails`,
`Settle`). Flights and lock files are objects with an identity, because the code
removes the names (`_key_locks.pop`, `unlink`) while others may still hold the
object. Ids are reused when nobody refers to them, as inodes and objects are.

Abstractions: a finite budget for each process; requests are all estimated at
the same number of tokens and may use more (`Usage`); the dry run,
cached-answer validation and the contents of the records are left
out; an error that is no `Exception` (`KeyboardInterrupt`) is left out; `Crash`
stands for a process that dies at any moment.

### Scheduler

The scheduler thread's `phase` is the position in `Dag.run`'s loop: `Top`,
`Submit`, `SubmitDone`, `Collect`; `NextItem`, `NextBatch`, `FinishDynamic` are
`_execute_map` and `_execute_scan`, which run on that thread. A job's `pc` goes
through the pool's queue (`Begin`), the checks before the function (`Abort`,
`Bypass`, `Admit`), the permit plane one unit at a time (`EnterGate`, `TakeUnit`,
`TimedOut`), the function (`Run`, `Return`) and the recorded outcome (`Settle`).
`Barred`, `Classified` and `Enter` are `classify_ready` and the bookkeeping of
outcomes. `limited` (the caller's budget is finite) and `timed`
(`resource_timeout_seconds` is set) are chosen in `Init`, so a run of TLC covers
all four combinations.

A dynamic node may also fail before its items, where its inputs are bound, and
after them, where the aggregate is keyed and written (`MayFail`, `FinishDynamic`).

Abstractions: the graph is a constant (subgraphs are expanded before a run
starts); a job's durable effects are those of `AttemptStore` and here only its
outcome; `BudgetExceeded` comes only from the caller of the run and only with a
finite budget; two items are enough to make a batch and a carry.

### ReceiptChain

`job[w]` is the list of files that the holder of the run lock has still to
replace: receipt, `state.json` and manifest of one attempt record, in the order
of `_write_state_locked`, a candidate or a recovery receipt before them.
`WriteFile` replaces the next one, `Crash` drops the rest and remembers it in
`torn`. `Publish` is `update_manifest` by any store at any time, with any status
that `StatusAllowed` lets through, whatever leases are held. `Intact` is what
`_validate_all_attempt_receipts` demands of the records (`Bound`, `Anchored`,
`LedgerBound` and `RecoveryBound` are its parts), `Agrees` what it demands of the
published status, `Accepted` both. Every write starts from an accepted run. The
properties speak of `Intact`: a status that was legal to publish may disagree
with the records later (section 4), which is no damage to them. The reader
(`ReadManifest` ... `Report`) is `validate_durable_run`: manifest, directory,
state, anchor and receipts, one read after the other, between which writers
step. A record's content, place and predecessor are one fresh number.

### Publication and Retention

`Publication` follows `materialize` and `materialize_artifact`: `owners` is the
envelope's table of claims under the output lock, `backup` and `changes` are
the rollback directory and the list that `_commit_staged_outputs` keeps, and
every rename, unlink and removal may fail, also in the rollback itself. A
process may die at any point (`Stop`): `disk` stays, the table is gone.
`Validate` is a node that fails before its own turn, never inside it: the turn
ends through `Finish` or the rollback.

`Retention` follows one production after the other: a run directory is scanned
for and made, the cache consulted, blob, entry and artifact written, an earlier
artifact moved into the history. The collector lists runs, reads their files,
sweeps cache entries, then reads again and sweeps blobs; productions go on
between any two of its steps (`Alone = FALSE`).

### NodeCache and Registry

A process loads the code (`Load`), plans and starts a run (`Begin`: sources and
static files are read once), binds the items of dynamic nodes and their files to
the run (`Bind`), takes or makes each artifact (key, lookup, seal), crashes and
resumes. `text` and `disk` are sources and files, edited between the steps.
`from` is a history variable: what the function was given. Its equality with
what it would be given now, `Given`, is staleness, and no key enters it.

`Registry` keeps decorators that were made and not yet applied (`taken`), so that
a template can be mounted between the two. `Walk` and `Downstream` are the two
graph searches as the code does them; `OrderSound` and `InheritedUpstream`
compare them with `DependsOn`, a closure computed in another way.

### Throttle

A client looks at the capacity, tries the slots below it one by one, sends, and
reports under the lock of the capacity files: `Count` reads both,
`WriteCapacity` and `WriteStreak` replace them, and a crash may come between.
`Seen`, the capacity without one that is written before its streak, maps the
files to `CapacityCount`. `Delay` is `RetryPolicy.schedule`; jitter is a fraction
in quarters.

### FileReads, Capsule, AgentTask

A file in `FileReads` has two halves and the stamps that the descriptor checks
compare; a writer replaces it, unlinks it or writes one half in place, and the
stamps may be too coarse to tell (`silent`). `kind` chooses the reader: a cache
entry that may be replaced at any time, a file attached to a request and read
again when it is sent, a declared file read once. `Capsule` walks directories
that are edited, told by the directory's stamp; it assumes that each replacement
in a directory moves that stamp (a coarse clock is only in `FileReads`).

`AgentTask` has the agent's process, the thread that drains it, the loop that
judges its records against a deadline, and the steps of `execute_agent_task`
before and after, each of which may fail. That includes the step that files a
failure (`Fail`): the manifest of the workspace, the trajectory or the file itself
may raise, and what was going to be filed is lost ("unfiled"). Whether what is
written to the process fits into its pipe is the process's choice (`stuffed`): if
it does not, `SendPrompt` and `AnswerRequest` wait until it reads, closes its
input or dies (`Listen`, `Exit`), and no deadline runs meanwhile. `Interrupt` is a
`KeyboardInterrupt`, which passes the handler of failures by; one that falls into
a `finally` block is left out.

## 3. What is checked

| run | instance | shows |
|---|---|---|
| `alone` | one executor with two workers, three targets of which one depends on another, every fault, resumes, crashes, operators, 2 attempts (1,115,689 states) | `UnfailedReadable`, `CompletedPinned`, `CompletedRunDone` |
| `apart` | two executors of one process beside one of another, one target, failing writes of an artifact, crashes anywhere, 2 attempts (1,150,270) | `LeaseExclusive`, `CrossedOnce`, `LedgerSound`, `CompletedRunDone`, `OwnerRules`, and that `AttemptStore` implements `AttemptLifecycle` |
| `files` | two writers and the unlocked reader, one target, two attempts, five records, any legal status at any time (1,083,194) | `RefusedIffTorn`, `SentSurvives`, `ReportCommitted`, and that the files implement `RunLog` |
| `calls` | three threads, two processes, one key, timeouts, refusals, failures, crashes (80,684) | `OneFlight`, `NoResend`, `FlightsCounted` |
| `mix` | two static nodes, a map, a scan, a node below it; two pools, three workers, failures around the items; fairness (46,970) | `PermitsConserved`, `AllAccounted`, `ItemsSound`, `RunEnds` |
| `keys` | two runs of a list, a scan over it and a consumer of a view; an edit, a crash, a checkpoint (142,526) | `NothingStale`, `PlanBounds`, `ExplainAgrees` |
| `ends` | an agent task with four records, a pipe that may be full and an interrupt; a target that is resumed after every crash; two threads, two keys, one slot and answers beyond their estimate; fairness (425,580) | `Delivered`, `WellEnded`, `BudgetKept`, `AgentReturns`, `RunningSettles`, `CallReturns` |
| `parts` | the instances of `MCParts` (681,017) | `PublishedKept`, `AllOrNothing` (Publication), `SettledKept` (Retention), `WholeVersion`, `ReplacedReadable` (FileReads), `SkillWhole` (Capsule), `MountedAlike`, `DepsHeeded` (Registry), `FreshWithinCapacity`, `AskedFor`, `CapacityCounted` (Throttle) |
| `unlink`, `stale`, `parallel`, `refused` | small | the disagreements of section 4 |

**Why these bounds are enough.** A lease, a flock and a generation are contended
by two. Fencing happens within one process and flocks between two, hence two
executors in one and one in another (`apart`); it also lets a third find what two
others have left. A target's attempt matters by whether it is the first or the
last that policy allows, which needs two; operators' decisions start no other
kind. Two targets are needed where one target's step looks at another's records,
a third where one is skipped below a parked one while another works (`alone`).
`apart` has one kind of fault: what the kinds differ in is how far the files have
come, and `alone` has them all. In `files` five records are an attempt, its
effect, its failure, its successor and one more. For flights one needs the thread that
leaves, one that waits, and a newcomer: three threads, of which two share a
process. `Estimate = 1`, `Usage = {1, 2}` and a limit of two or three requests
make a budget that is exactly used up, and one that is overshot. In `mix` two
nodes want both pools and declare them in opposite order, the map's items want
all units of one, the scan's items the only unit of the other, and three workers
leave a window of two: each resource can run out while another is held. In
`keys` the list has two contents that name different items, one edit falls on
any source or file at any time, and the second run may be a repetition, a resume
or one after the edit. In `parts`: two producers that meet at two places, an
alias, an item with its aggregate, and two faults, so that a rollback can fail as
well; two processes, one key, two blobs and one run retained; three changes of a
path, as many as `_ATOMIC_REPLACE_MAX_ATTEMPTS` reads; two edits of a skill whose
directory has a directory; three decorators, two namespaces; three clients for two slots,
a streak of two, a delay above the cap, one crash. `MaxCalls` and the like bound
how often something happens: after that a system stops, as it does when all work
is done, which is why `CHECK_DEADLOCK FALSE` stands in the configurations; that
nothing stops *before* is `CallReturns`, `RunEnds`, `AgentReturns` and
`RunningSettles`. Symmetry is used only in runs without liveness.

**Fairness.** `AttemptStore`: a call that was made goes on (its thread is
scheduled, file operations return), a process whose calls are over exits, and
somebody resumes the run, the one obligation that kigumi's documentation gives
to an external supervisor. No operator has to act, and `RunningSettles` is
claimed only for behaviours in which processes stop dying. It is claimed for one
target: with two, a crash between artifact and sidecar makes the run unreadable
and the other attempt stays as it is (section 4). `AgentTask`: the thread that
executes the node is scheduled and its clock runs; of the agent's process nothing
is assumed, so the deadline has to end it. What the deadline does not cover is a
write to a process that runs and does not read: `AgentReturns` is claimed for
behaviours in which no such write blocks for ever (`[]<>~Blocked`). `LLMCaller`: each thread that
can step does, and a provider answers or fails (the transport has a timeout). A
weakly fair step is enough for the flight lock and the key lock since only
`MaxCalls` calls compete; that a lock is handed out fairly for ever is not
claimed, and neither is progress of a process beside one that crashes again and
again (the calls of `ends` have one process). `Scheduler`: threads run and node functions
return.

Every property of a passing run has a *mutant* in `PROJECT.json`: an operator of
the same module, marked `Mutant:` in its comment, that changes one definition
the way a plausible mistake would, and with which TLC finds the property
violated under the same configuration. Mutants are no part of a specification.

## 4. Where the code and its documentation disagree

Four disagreements are runs of their own:

1. **`unlink`** (`OneSenderPerKey`, `slots.py:196`). `acquire_key` unlinks the
   lock file after unlocking it. A process that waited on the old inode and a
   newcomer with a new one hold "the" key lock at the same time.
2. **`stale`** (`NothingStale` with `LiveEdits = TRUE`, `dag.py:10086`). The key
   of a node hashes the source text as it is on disk when the key is made, the
   process runs the code it has imported. An edit in between seals what the old
   code returned under the key of the new code, and every later run takes it.
   The passing run `keys` assumes that sources are not edited under a live process.
3. **`parallel`** (`ErrorsExplained`, `_runstate.py:907`; adoption.md:331). With
   two workers a node's `prepare` can fall between another node's artifact and its
   sidecar; it validates the pairs of all targets and fails a node that did
   nothing wrong.
4. **`refused`** (`PublishedAgrees`, `dag.py:1673`; recovery.md:3). A completed
   target that cannot be restored fails the call while its record stays
   completed; beside targets that are parked or completed, the run is published
   as failed although no attempt is, and every later reader rejects it. A key
   decision that raises (`dag.py:1641`) does the same. So does the failure of
   disagreement 3, with `Workers = 2` and no fault at all. What does hold of one
   executor is `UnfailedReadable`: a run published as anything else is accepted.

The others can be seen by changing what a configuration checks. Each is a
property stated in the module, which TLC finds violated at once:

5. `UnfailedReadable` with `SPECIFICATION UndisturbedSpec` and `Fault = {}`, and
   `CompletedPinned` with `Fault = {}`, both in `AttemptStore_apart.cfg`: an
   executor that concluded "pending retry" publishes it beside another that has
   since moved on; `prepare` hands out a candidate without a lease, and the later
   of two sidecars replaces the pinned one. No sentence of the documentation
   speaks of two stores that finish one run, so these two properties are claimed
   for one executor (`alone`).
6. `CompletedRunDone` with `Target = {t1, t3}`, `Deps <- Fork`,
   `Executor = {e1, e3}` and `Fault = {}` in `AttemptStore_apart.cfg`: an executor
   that skipped a target below a parked one finds nothing parked when it
   concludes, since another executor has settled it meanwhile, and publishes
   "completed" over a target that nobody has begun. The other begins it later.
   Claimed for one executor, or for targets that do not depend on one another.
7. `SentIsRecorded`, `LLMCaller_calls.cfg` with two keys (`calling.py:759`;
   admission.md:73). The estimate of a failed request is charged before its call
   record is written, and charging may raise `BudgetExceeded`: the call leaves no
   trace.
8. `Ceiling` of `Scheduler`, with a static node of one pool and a map of two
   items of another, one unit each, `Workers = 1`, `Restricted = FALSE`
   (comment at `dag.py:1486`). The scheduler thread executes items itself beside
   the node it has submitted.
9. `OriginKept`, `NodeCache_keys.cfg` (`dag.py:2040`; cache-key.md:146-148). A run
   that takes an entry over seals it again, and replaces its origin by its own.
10. `RefusalMeansDamage`, `ReceiptChain_files.cfg` (`_runstate.py:2936`;
    adoption.md:662). The unlocked reader may refuse a healthy run that is being
    written; what it does report is sound (`ReportCommitted`).
11. `ReusableKept` in `MCParts`, even with `Alone <- TRUE` (`store.py:788`;
    retention.md:11). The entry cached for a key may be that of a run retained no
    longer, whose blob is collected.
12. `CompletedKept` in `MCParts` (`_execution.py:148`; adoption.md:1782). The
    table of output owners is the process's: after a resume another producer may
    take a place that a completed one has.
13. `FailureKept` in `MCEnds` (`agents.py:982`; agent-node.md:86-87: after a
    failure of any kind the workspace is removed and a failure JSON is there). A session that cannot
    be read raises before the block that removes the workspace and files the
    failure; an interrupt passes the handler by (`agents.py:1182`); and the
    handler itself may raise before the file is written (`agents.py:1224`), for
    instance with the disk error that began it. `WellEnded` says what is left.
14. `AgentReturns` without its hypothesis (`pi.py:388`, `pi.py:761`). The prompt,
    and the answer to an extension's request, are written and flushed in a
    blocking call that no deadline covers, and an instruction has no limit: a
    process that runs and does not read holds the adapter for ever.
15. Outside `AskedFor`: a `Retry-After` that is a date is dropped
    (`failures.py:450`), so a provider that asks in that form is not heeded.

Two consequences of crashes are by design and worth knowing: a crash inside a
write leaves the run refused for good, also when nothing was sent
(retry-resume.md:50 says so; `RunLog`'s `Damage`), and a crash between an artifact
and its sidecar (`dag.py:2063`) leaves it refused as well.

## 5. What is proved

Each theorem holds for every value of the constants that its hypothesis admits.
The argument is always the same: an inductive invariant, which TLC has checked on
an instance as well, its preservation with one step per action, and the property
as a consequence. What follows says which facts had to be added to the
properties to make them inductive, since that is where the reasons are.

### AttemptStore

For any sets of targets, executors and processes and any bounds, from
`ConstantsOK` alone (each executor lives in one process, the null is no
executor, attempts are at least one):

| theorem | property | argument |
|---|---|---|
| `TypeCorrect` | `TypeOK` | one step per action; what the writers of records, fences and leases preserve are lemmas |
| `LeaseSafe` | `LeaseExclusive` | from `Ownership` |
| `CrossedAtMostOnce` | `CrossedOnce` | from `Ownership` |
| `EffectOnRecord` | `EffectRecorded` | from `Ownership` |
| `OwnersRule` | `OwnerRules` | from `Ownership` and the step summary |
| `NoReplay` | `NoSilentReplay` | from the step summary |
| `ArtifactsHaveCandidates` | `ArtifactHasCandidate` | the stages after `candidate` belong to a sealed attempt (`Sealed`) |
| `LedgerKept` | `LedgerSound` | a failed attempt leaves that status only by the decision that is entered (`Ledger`) |
| `ImplementsLifecycle` | `LifecycleSpec` | initial states map to initial states, every step to a step or a stutter; whoever writes a record has found the records in agreement (`WriterReads`), so that in a run published as completed nothing is under way when one is written (`QuietRun`) |

None of the first three safety invariants is inductive. `LeaseExclusive` alone does not
say that whoever holds the flock of a running attempt is the one its record
names; `CrossedOnce` alone does not say that an execution which could still cross
the boundary has not crossed it. `Ownership` adds this: an executor at work that
was not fenced off owns a running attempt (`RunningOwned`, `OwnerNotFenced`); an
execution before the boundary has a record that says so (`NotBegun`,
`Uncrossed`); an attempt that was crossed has the boundary on record
(`CrossedOnce`, `Live`). Its preservation is not proved per action but from
`StepKind`, a summary of what any step can do to one target's record, leases and
stages; the lemma `Kinds` shows once that every action is of one of these kinds,
and the refinement and the action properties use the same lemma.

Three more hold under a hypothesis: `Independent`, that no target depends on
another, or `OneExecutor`, that there is one executor, whose calls follow one
another with crashes and operators' decisions in between. It has any number of
workers, and every fault may occur.

| theorem | property | hypothesis |
|---|---|---|
| `CompletedRunsAreDone` | `CompletedRunDone` | `Independent \/ OneExecutor` |
| `UnfailedRunsReadable` | `UnfailedReadable` | `OneExecutor` |
| `CompletedKeepTheirPin` | `CompletedPinned` | `OneExecutor` |

Disagreements 5 and 6 of section 4 are the counterexamples without it. In
`CompletedRunsAreDone`, whoever is past waiting with a target has found or written
its record (`Processed`), unless it skipped it or met an error; who decides
"completed" has skipped nothing (`Thorough`), and what it decided stays true
(`Concluded`). With one executor `Thorough` is a consequence of `Placed`: where
the executor is with a target is what the target's files say, so that whatever it
parked is still parked when it concludes. `CompletedKeepTheirPin` rests on
`Placed` as well: a sidecar is written only over a pair whose record is not
completed. `UnfailedRunsReadable` takes `CompletedRunDone`, that a call is open
only on a run that is running or completed (`Opened`), and for each action that
it keeps status and records in agreement (`NextAgrees`), unless what it publishes
is "failed": that is where disagreement 4 lies, and `PublishedAgrees` and
`ErrorsExplained` are claimed nowhere.

### Scheduler

For any graph, pools and number of workers, from its own assumptions:

| theorem | property |
|---|---|
| `Invariance` | `[]Inv`, the inductive invariant |
| `PermitsAreConserved` | `PermitsConserved` |
| `ItemsAreSound` | `ItemsSound` |
| `AllAreAccounted` | `AllAccounted` |

`Inv` says what each phase of the loop means for the queues: a submitted job is in
exactly one of the pool's queue, the threads and the finished ones (`PlacesOK`),
a ready node has its dependencies behind it (`ReadyOK`, `GraphOK`), a job holds
no more of a pool than it has asked for (`HoldsOK`), a budget abort stops
submission only (`BudgetOK`), items settle in the order of their batches
(`ItemsOK`). That units taken one by one add up to a pool's capacity needs an
induction over numbers; the library's induction theorems take an operator, so
the proof looks at the first counterexample instead (`NatLeast`).

### LLMCaller

For any threads, processes, keys, slots and limits, with or without lock files,
from its `ConstantsOK` (the sets of threads, processes and keys are finite;
responses use numbers of tokens of which one is the largest):

| theorem | property | argument |
|---|---|---|
| `FlightsSound` | `FlightInv` | one lemma for the actions between `Join` and `Leave`, which touch no flight (`Moves`), one for each of the other five |
| `OneFlightAtATime` | `OneFlight` | two callers of one key refer to the flight its table names (`Refers`), and who holds a flight is alone (`Alone`) |
| `FlightsAreCounted` | `FlightsCounted` | `Called`, `Counted` |
| `NeverResent` | `NoResend` | who stores an answer is the only one inside for its key (`OneFlight`) |
| `BudgetIsKept` | `BudgetKept` | each action keeps, takes or settles one permit (`Keeps`, `Takes`, `Settles`); together with `Metered`, the types of the counters, it is inductive |

`OneFlight` is not inductive: a thread finds the flight of its key in the table
only because a flight stays there as long as somebody refers to it, which needs
the count of callers (`Counted`), and that a flight is in the table for one key
and never for nobody (`Apart`, `Called`). That the last caller out finds the
flight done is `Finished`. TLC agrees that `FlightInv` and `Metered` hold in both
instances. In `LLMCaller` a new flight takes the smallest number that nobody
refers to; the theorems hold whether or not there is one, and there is one: `Id`
has a number for each thread and each entry of a table, and the thread that looks
for one has none.

### ReceiptChain

For any targets, processes, attempts and numbers of writes, from its
`ReceiptChainAssumption` alone:

| theorem | establishes | argument |
|---|---|---|
| `ChainsGrow` | `Spec => []ChainInv` | what every method plans to replace has the shape of `Item`, and each manifest in it names all that the one before it names (`Growing`) |
| `ReportsAreCommitted` | `ReportCommitted` | what the reader has bound once was in a chain (`Committed`), and `Pending` says that no manifest still to come drops an entry |
| `TornIsRefused` | `Spec => [](Intact => ~torn)` | a torn run is `Damaged`: a directory without a record, or a record no chain names; nobody who opens it may write, so it stays so (`Stopped`) |
| `RefusedExactlyTorn` | `RefusedIffTorn` | whoever holds the lock has a plan for the files (`HasPlan`), and whenever nobody does and nothing was torn the files are `Sane`, which is what `Intact` demands and a little more |
| `SentIsRemembered` | `SentSurvives` | the state on disk, and every state still to be written, remembers each request (`Sound`), whether or not the run is accepted |
| `ImplementsRunLog` | `Spec => RunLogSpec` | each manifest among the files of a job is one entry ahead of the one before it (`Chaining`); replacing the first file leaves a rest of the same kind |

The invariants speak of the files still to be replaced, not only of those on
disk: `ReportCommitted` and the steps of `RunLog` hold when `WriteFile` puts a
manifest down only because of what was known when the lock was taken. That every
record is the latest attempt again or the next one needs what `Accepted` says to
whoever takes the lock (`Known`: the state is the head of its chain), and that a
scheduled retry names the attempt after it, or one that a recovery decision has
begun and nobody has executed (`Retries`); the same fact keeps a fresh record
from hiding a request. TLC agrees on an
instance with four records that `LogInv`, the conjunction of all this, holds.

`RefusedExactlyTorn` is the answer to whether legal writes can make the records
of a run unreadable. The files are one value there (`Now`), and `Applied` is what
it becomes when a file is replaced, so that a job can be judged before it is done:
each of the states it goes through is `Sane` or shows that a write is under way
(`MidIn`), and the last one is `Sane`. A crash then either leaves sane files or
is remembered as `torn`. `Sane` is stronger than `Intact` where a later method
needs it: a record that is not sealed names no candidate (`Proper`), and a target
without a directory has no ledger (`Founded`). The published status is no part of
it, so that any publication keeps it; that a status may come to disagree with
sane records is disagreements 4 and 5. Each method is shown to write what `Fits`
into sane files (`SaneWrite`). TLC agrees on an instance with four records, as far
as it can evaluate types.

### Throttle

For any clients and any numbers (`Numbers`: the bounds are integers, and so is
what `Delay` multiplies and caps, since the provers know nothing of powers), the
first of the properties for at least one slot (`SomeSlots`):

| theorem | establishes | argument |
|---|---|---|
| `CountsAlone` | `Spec => []IInv` | at most one client is between `Lock` and the release (`Locked`), and the numbers it carries are those that `CapacityCount` would make of the two files it has read (`Counts`) |
| `CapacityIsCounted` | `CapacityCounted` | a step elsewhere changes neither file nor `Seen`; `WriteCapacity` alone is a stutter, `WriteStreak` after it `Throttled` or `Succeeded`, `WriteStreak` without it `Succeeded`, a crash between the two `Interrupted` |
| `FreshStayWithin` | `FreshWithinCapacity` | a client that has looked since the capacity fell holds a slot below what it saw, and no two hold the same |
| `ProviderIsHeeded` | `AskedFor` | a delay is at least what the provider asked for, however the policy caps it, and the clock passes it before the next attempt |

`CapacityCounted` is not inductive, since it says nothing of a client that has
read the files and not written them yet: that is what `Counts` adds.

### FileReads

For any versions, readers and writers, with `Bounds` (the null is no number, a
read is attempted at least once):

| theorem | property |
|---|---|
| `ReadsSound` | `[]ReadsInv`, the inductive invariant |
| `VersionsAreWhole` | `WholeVersion` |
| `ReplacedStaysReadable` | `ReplacedReadable` |

What a reader holds is related to the file it has open and not to the one the
path names by now: the stamps bound at the start are those of an earlier state of
the path (`Opened`), and the halves read so far are those the open file still
holds, unless its stamps have moved since (`Reading`).

### Publication

With `Hypotheses`: a producer declares a sequence of names, each with its place,
the item of a map belongs to one map, and the nulls are no producers.

| theorem | property |
|---|---|
| `PublicationSound` | `[]IInv`, the inductive invariant |
| `PublishedStays` | `PublishedKept` |
| `EndsAreWhole` | `AllOrNothing` |

Neither property speaks of the middle of a publication, when the disk is neither
what it was nor what it will be. `Backed` does: for each step of the list of
changes it says which files are in the rollback directory and which are in place,
going forward and going back; `Held` says that what others have published is on
the disk as it was before the turn; `Owned` and `Claimed`, that the table of
owners gives a place to one producer and its items. The proof found a gap in an
earlier form of the model, in which a producer could fail its validation in the
middle of its own publication.

### Retention

For any processes, keys, blobs and number of retained runs, with or without
productions beside the collector (`RetHypotheses`: the marker of an absent entry
is no blob):

| theorem | property |
|---|---|
| `CollectionKeepsSettled` | `SettledKept` |

`SettledKept` speaks of entries and blobs that a settled artifact of a retained
run refers to, and none of what the collector has still to see: a sweep would be
free to take what it has not noted. `Owed` says, for each settled file of a
retained run, what keeps its entry and blob in each phase: while the collector
lists and reads, the file is still ahead of it (`Ahead`) or what it refers to has
been noted; while it sweeps, what the file refers to is not among the names to be
swept. `Registered` is what the producers keep to beside it: a file lies in a run
that is there, and a process that writes has a run, a key and a blob. That a run
retained now was retained when the collector listed the runs, since directories
are only added, is the lemma `RetainedShrinks`.

### AgentTask

For any records of the process, any limits and any file (`Bounds`: the null is
no failure and no set of files):

| theorem | property |
|---|---|
| `TaskSound` | `[]IInv`, the inductive invariant |
| `ArtifactsAreDelivered` | `Delivered` |
| `TasksEndWell` | `WellEnded` |

`IInv` says what has been heard from the process (`Streams`), which of the
resources exist at each place of the execution (`Progress`), which failure is on
its way while they are cleaned up (`Failing`) and what an end leaves (`Ending`, of
which `Filed` says: a result, or a failure on file, or one that could not be filed
or an interrupt).

### Capsule

For any tree of directories and files, any resources and any number of edits,
from `CapsuleAssumption`: directories and files are a tree, and what is declared
lies in nothing else that is declared. The first is what a file system is; the second is enforced by the table `owners`, which refuses a path
that is declared twice (agents.py:504-535).

| theorem | property |
|---|---|
| `SkillsAreWhole` | `SkillWhole` |

A directory is compared with its first stamp only when the walk leaves it, long
after its files were read, and `SkillWhole` is about the end. `CapInv` says what
holds on the way: nothing that is still to be read lies in anything else that is
still to be read, nor has in it a directory that the walk is in (`Apart`), so
nothing is read twice and what was read stays as it was noted; and a directory on
the stack whose stamp has not moved holds, for each name that is behind, what the
walk has noted of it (`Kept`). An edit either moves the stamp of a directory that
the walk has yet to leave, or falls on what it has not reached.

### NodeCache

For any nodes with any dependencies, items, files and runs:

| theorem | establishes | hypothesis |
|---|---|---|
| `KeysAreSound` | `Spec => []IInv` | `~LiveEdits` |
| `NothingIsStale` | `NothingStale` | `~LiveEdits` |
| `PlansAreExplained` | `ExplainAgrees` | none |

`~LiveEdits`, that no source is edited under a process that has it loaded, is
what disagreement 2 of section 4 shows to be needed: with it `NothingStale` is
false. `NodeCacheAssumption` says what the constants are: the order lists a node
once, the list of a dynamic node is one of its dependencies and has no item twice,
aggregates and what functions return are contents, nodes with one function and
the same inputs are gated alike, and the null is neither a content nor an item.
It does not say that a node stands behind its dependencies.

`NothingStale` compares what a function was given when an artifact was made with
what it would be given now, perhaps runs later. It holds because the key of an
entry names everything the function was given but the approvals, and what rests
on an approval never enters the cache (`Entered`); because the key that a target
of a run began with is the one it would have now (`OwnKey`), since what a run
knows of its nodes only grows (`Grown`, `Kept`) and the files and sources it has
bound stay bound; and because a key tells of which node it is (`Fitting`). That a
resume finds targets of an earlier process, not yet compared with their keys, is
`Checked`.

`ExplainAgrees` needs no history, only that the cache holds contents
(`ContentInv`): `plan` and `explain` walk along the same order, one to the end
and one to its target, and at each position the views that explain has are those
that plan has, and those it has it keeps (`AgreeAt`).

What the nodes contain is computed along the topological order by recursive
functions, and the library's induction theorems take an operator as a parameter.
These proofs therefore state what such a function is (`Follows`, `Links`,
`Judges`, `Shows`), prove that there is one by the set of positions up to which
there is, and carry every fact to the end of the order in the same way: if there
were a position without it there would be a smallest one.

### Registry

For any names, templates, ports and declarations, with `RegHypotheses` (what
marks a node outside of any namespace is not the name of one):

| theorem | property |
|---|---|
| `MountsAreAlike` | `MountedAlike` |

`MountedAlike` compares what is registered under two namespaces of one template;
it is violated by a decorator that was made before a mount and applied between
two. `RegInv` says for each namespace by itself that what it holds is what the
template has now (`AsTemplated`), and that a template which is mounted is frozen.

### What is only model-checked

* Liveness: `RunningSettles`, `CallReturns`, `RunEnds`, `AgentReturns`. The
  prover has no support for `ENABLED` and fairness.
* `DepsHeeded`: that the two graph searches of `Registry` visit what a node
  depends on, and each before what needs it, is what a recursive function over
  paths and folds (`Walk`) computes for every graph, an induction over data.
* `PlanBounds`, which bounds what a run makes by what the plan foretold. It is a
  fact about the instance: nodes that share a function, of which one is forced,
  can fill the cache for each other during the run, which no plan can see.

## 6. What is not modelled

* The static guards and the library-hash analyzer (`enforce.py`, a large part of
  `dag.py`): what they compute is right or wrong relative to Python's own
  semantics; `NodeCache` takes the digest as the source text.
* Prompt assembly, evidence policy, declarations of prompts, configuration
  parsing: sequential text and schema work without state.
* Repair, optimize, bench and evals: bounded loops whose every turn is one call
  of `LLMCaller`; they share nothing else.
* Views, inspection, profile, CLI, documentation, testing helpers: projections of
  what the store wrote. The one reader that races, `validate_durable_run`, is in
  `ReceiptChain`.
* Of the modelled components: formats of records and the checks of single
  fields, approvals and the doctor, the TypeScript bridge of Pi and everything a
  provider does, the walk over path components in `SecureDirectory`, network
  errors as such (only their class), the retry deadline, a `Retry-After` that is a
  date, and an interrupt that falls into a `finally` block of an agent task.

## 7. Running it

    tlc -workers 2 -config AttemptStore_apart.cfg MCAttemptStore
    tlapm AttemptStoreProofs.tla

Each configuration `<X>_<run>.cfg` belongs to `MC<X>` (`MCParts_parts.cfg` to
`MCParts`, `MCEnds_ends.cfg` to `MCEnds`). A run takes from a second to a little
over three minutes; a proof module one to several minutes.
