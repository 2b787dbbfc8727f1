# MAGI-Memo: specification and proofs

MAGI-Memo keeps a memory of Episodes for agents. SQLite holds the facts (Episodes,
Atoms with their evidence, entities and relations, their outbox rows); a graph
(Neo4j) and vector stores hold projections of them that can be rebuilt. A LightRAG
engine extracts and answers, a runtime opens exactly one workspace at a time and
hands out handles to callers. An HTTP server, a Python API, a TypeScript plugin for
an agent host (DSH) and a WebUI sit on top.

This directory holds TLA+ models of the parts whose correctness is a question of
order and failure, TLC configurations that check them on small instances, and
proofs checked by TLAPS. Source paths below are relative to `src/` of the
repository's checkout root (`src/src/...` in `PROJECT.json`).

## 1. Inventory

| Component | State | Operations | Interaction | Hard part |
|---|---|---|---|---|
| Projection outbox (`magi_core/memory/adapter.py`, `backend/sqlite/backend.py`) | registry rows, Atoms, `projection_outbox` (revision, status, retry time, locator); graph and vector contents, buffered and durable; the job holding `_projection_lock` | `start_projection_worker`, `reconcile_projections`, `delete_episode`, `commit`, `resolve_atom_conflict`, mark applied / failed, prune at start | SQLite transactions, store upserts and flush callbacks, worker task | revisions raised while a job projects, failures of one owner, crash before or after a flush, several processes |
| MagiRuntime (`magi_runtime/runtime.py`) | state, active workspace, backend, handles with calls in flight, lifecycle lock | init, destroy, switch, delete and create workspace, open / close / use handle | `WorkspaceManager`, `BackendBundle`, callers of `MagiAPI` | checks made before an `await`, waiting for calls, failing starts and shutdowns |
| WorkspaceManager (`magi_runtime/workspaces.py`) | `workspaces.json`: records and the persisted selection; directories | create, delete, set_active, get | called by the runtime under a thread lock | crash between directory and registry writes |
| MagiAPI (`interface/api.py`) | handles of its callers, extensions | each public method runs inside `runtime.use` | runtime | extensions that use their own handle |
| BackendBundle (`magi_core/backend/bundle.py`) | initialized flag | initialize, finalize, index, ingest_extracted | SQLite, engine, worker | partial start, caller timeout against live admission |
| SQLite store (`magi_core/backend/sqlite/`) | the memory itself, backups, checkpoints, Dreaming, exploration log | transactions on each | everything above | multi-transaction operations |
| Dreaming (`magi_core/memory/dreaming.py`) | runs, snapshots in SQLite; community labels in the graph | run, publish, restore | graph and SQLite publications | cancel or crash between the two |
| DSH plugin, exploration (`sages/dsh/magi-memo/src/index.ts`, `active-explorer.ts`) | `explorationAgents`: a context per subagent; the worker batch of each delegate | explore, expand, describe, note, delegate | subagents of the host, HTTP | workers that end in any order, aborts, failing starts |
| DSH plugin, session (`index.ts`, `client.ts`) | mode events of the session, their projection, `recallHandoffs`, `exploreApprovalDecisions` | `/memory`, recall, approval, create and activate a workspace | host, HTTP, other clients | what was read before a wait |
| Exploration log (`memory/exploration.py`, `memory_routes.py`) | numbered events per trace | register, expand, list, events after | plugin appends, WebUI polls | two transactions of one handler |
| WebUI, documents (`DocumentManager.tsx` and its dialogs) | query, refresh slot and pending slot, throttle, poll, probe | filter, page, sort, upload, delete, clear, scan | HTTP | answers and timers that outlive the query they were made for |
| WebUI, session and chat (`api/lightrag.ts`, `stores/state.ts`, `LoginPage.tsx`, `RetrievalView.tsx`) | tokens, previous user, persisted history, running query, shared guest refresh | login, logout, version check, renewal, ask, stop, clear | HTTP | answers that outlive their session |
| WebUI, graph (`useLightragGraph.tsx`, `stores/graph.ts`, layout controls) | query, fetch gate and signature, retries, the graph mutated in place, layout slot | fetch, refresh, expand, prune, edit and merge, layouts | HTTP, timers, layout workers | a fetch under way while another is asked for |
| WebUI, memory tab (`MemoryWorkspace.tsx`) | toolbar, lists, panels, dialogs | load, open, decide a contradiction, assign an alias | HTTP | loads are not cancelled |
| WebUI, workspace switcher (`SiteHeader.tsx`) | list, active workspace, dialogs | create, activate, delete | HTTP; reloads the page | answers lost or late |
| WebUI, Melchior (`MelchiorView.tsx`, `stores/exploration.ts`, `utils/explorationGraph.ts`) | followed trace, last number, events, frames, the event a replay stands at | two polls, replay | exploration log | the trace changes while events are asked for; events come while a replay stands still |
| WebUI, Balthasar (`BalthasarView.tsx`, `DreamingSettings.tsx`, `utils/dreamingGraph.ts`) | the poll's last answer, the graph and the reports loaded, the selection | poll, start a run, load, cancel | Dreaming, HTTP | polls overtake each other; the tab is left while a load is under way |
| WebUI, model settings (`RuntimeModelSettings.tsx`) | the form of one role | change role, discover, save | HTTP | the role changes while an update is under way |
| Document pipeline (`magi_core/pipeline.py`, `kg/pipeline_ingress.py`, `kg/scan_job_store.py`, `kg/shared_storage.py`, `kg/json_doc_status_impl.py`) | document status, queues, busy flags, process-shared locks | enqueue, process, delete, scan | engine, HTTP server | reservations, restarts |
| Storage drivers (`magi_core/kg/*_impl.py`) | external stores | upsert, delete, flush | outbox, pipeline | buffering |
| Extraction, query, parsers, chunkers, LLM bindings | none that outlives a call | pure or remote calls | pipeline | none of protocol |
| HTTP server (`magi_core/api/`) | proxies to the active backend | routes | all | bypass of handles |

What makes each correct:

- Outbox: an acknowledged owner is what SQLite says it is, in both stores and
  after a restart (but for one exception, section 9); a store is never set back to an older read; what is deleted
  disappears; every row is acknowledged in the end.
- Runtime: calls run only on the core that is up; there is one core; final means
  final; the served workspace is the persisted choice; every operation returns.
- WorkspaceManager: registry and directories agree after any crash.
- Dreaming: the graph shows the snapshot that SQLite calls published, whichever
  step of a run fails; a run has succeeded exactly when its snapshot is published;
  the one slot becomes free again.
- Plugin: what the agents of an exploration found reaches its report, whatever
  order they end in; no context outlives its exploration; nothing explores without
  the approval its mode asks for; a tool's claim about a workspace was true.
- WebUI: what is displayed belongs to the query, the session, the workspace and the
  trace the page says it does; it catches up with the server; requests end.
- Summary checkpoints: a stale compaction never replaces a newer one.
- Pipeline: no two exclusive jobs, no document lost or processed twice.

## 2. Plan

| Module | Composes / implements | Checked by | Proved in |
|---|---|---|---|
| `ProjectionOutbox` | implements `DurableReplica` | `OutboxSafety`, `OutboxLiveness` | `ProjectionOutboxProofs` |
| `Runtime` | implements `CoreService` | `RuntimeCalls`, `RuntimeSwitching`, `RuntimeOffline` | `RuntimeProofs` |
| `Dreaming` | | `DreamingRuns` | `DreamingProofs` |
| `MemoryExplorer` | | `ExplorerRuns` | `MemoryExplorerProofs` |
| `MemorySession` | | `SessionRuns` | `MemorySessionProofs` |
| `WebDocuments` | composes `WebUploads` (over `KeptSequences`) | `DocumentsRuns` | `WebConsoleProofs`, last part |
| `WebSession` | | `SessionChat` | `WebSessionProofs` |
| `WebGraph` | composes and implements `GraphLayouts` | `GraphRuns` | `WebGraphProofs` |
| `WebConsole` | composes `WebWorkspaces`, `WebMemory`, `ExplorationTrace`, `WebDreaming`, `WebModels` (over `WebTabs`, `KeptSequences`) | `ConsoleRuns` | `WebConsoleProofs` |

`MC*` modules give constants their values. Left, in this order:

1. `SummaryCheckpoint`: compare-and-set compaction. Theorem: coverage is exact.
2. `EpisodeAdmission`: index and ingest_extracted against the pipeline, timeouts
   and retries; then `PipelineReservation`, `PipelineIngress` and `ScanJobs`, with
   exclusion of the reservations as a theorem.
3. `AtomCommit`: decisions against stored Atoms, evolution, expiry, backup and
   restore, alias merge; it refines the commit steps `ProjectionOutbox` keeps
   abstract.
4. `WorkspaceRegistry`: crash windows of create, delete and initialize.

## 3. The projection outbox

`DurableReplica` is the promise: a set of owners, each with a version that grows,
and a copy; an owner may be acknowledged only when the copy is durable and has the
acknowledged version.

`ProjectionOutbox` is the detailed model. One process runs at most one job at a
time because commit, delete and reconcile take `_projection_lock`; the variables
of a job are indexed by process.

| Variable | Code |
|---|---|
| `live`, `atoms` | a registry row exists; the owner has Atoms |
| `rev`, `status`, `due`, `loc` | `target_revision`, `status`, `next_attempt_at` reached, a non-empty `owner_snapshot_json` |
| `mem`, `dur` | per store, what a reader sees and what survives a restart: which revision was read, and whether the owner is shown |
| `kept` | history: the row was acknowledged by a commit whose merge had left the stores as they were |
| `mode` | process down, reconciling at start, serving |
| `step`, `kind`, `todo`, `listed`, `done`, `bad`, `puts`, `skips`, `cur`, `end`, `view` | the program counter and locals of the job |
| `faults` | how many faults of each kind have happened |

The text of an owner is abstracted to the revision at which it was read, `View`.
Two texts read at one revision are the same for every property stated here.

Each transaction of SQLite, each upsert or delete in a store, and each flush
callback is an action: between two of them other tasks of the loop run, and
`ResolveConflict`, which takes no lock, does. `ListTasks`, `Describe`, `Fetch`,
`Merge`, `WriteGraph`, `WriteVdb`, `Flush`, `Acknowledge`, `MarkFailed` follow the
order of `_apply_projection_tasks_locked` and `_commit_serialized`. The failure
actions are `StoreFails` (the effect may or may not have landed), `FlushFails`,
`Abort` (any exception or cancellation of the job) and `Crash`. A crash loses what
a buffered store had not flushed.

A commit merges an owner with the sources it has (`operate.py:2384` and `:2725`).
An owner whose list of sources is full, 200 by default, takes no new source under the
default `KEEP`: the merge returns the copy of the graph and writes nothing
(`MergeKeeps`), and the commit projects that copy, flushes and acknowledges the row. If
the graph has no copy it raises a `ValueError` (`MergeRefused`). `Limited` are the
owners that may have a full list; a merge of such an owner may still write, for a
source that is in its list already, or while it is not full. Reconcile and delete have
no such limit: they write what SQLite says. `kept` marks an owner acknowledged in that
way, until its row is acknowledged by a job that projected it.

Two facts about stores come from outside: Neo4j (`WriteThrough`) commits each
write, matches both endpoints before it merges an edge and detaches the edges of a
deleted node; the local vector store keeps writes in memory until its callback.

### Runs

Two entities and one relation between them are enough for every interaction of the
code: a relation has two endpoints, and batches order entities before relations.
`MaxRev` bounds revisions (a second revision is what makes a first one stale),
`Limited` is the relation in `OutboxSafety` and the entity in `OutboxLiveness`,
`BatchLimit` stands for the 100 rows of one reconcile and is 1 or 2 so that it
bites, `MaxFaults` bounds each kind of fault.

- `OutboxSafety`: one process, the relation, batches of two, one failing store
  operation and one restart. `AppliedIsCurrent`, `AppliedIsVisible`,
  `NoGhostProjection`, `AtomsRegistered`, and for every step `ImplementsReplica`.
  The type invariant and `NoStaleOverwrite` (no write replaces a newer read by an
  older one) are theorems, and no longer run.
- `OutboxLiveness`: `EventuallyApplied` under fairness, with two processes on one
  entity, batches of one, a failing store operation and a cancelled job. A removal
  that finds a row without a locator happens only there: the start of one process
  drops a row the other has just registered.

An aborted commit together with a restart is in no run. With it the theorems below
still hold, but for `NoGhostProjection`, whose theorem leaves it out (section 9).

### Fairness

`FairSpec` has weak fairness of three things: a process that is down is started
(a supervisor's work, and what a restart means here), a process that runs makes
the next step of its job or takes up a due row (the event loop schedules the job,
and the worker wakes at least every five seconds), and a backoff runs out. Nothing
is assumed of requests or of faults, which are finitely many by `MaxFaults`: a store
that fails for ever cannot be written to.

### Proofs

`ProjectionOutboxProofs` proves `TypeCorrect`: the types and `JobShape`, which says
which locals are meaningful at which step (a job without the lock holds nothing, a
write has a current owner, ...). The other proofs read program counters off it.

Next comes `FenceInvariant`. `AppliedIsCurrent` (an applied row
that no commit kept old is in both stores, durably, as of its revision) is not inductive: acknowledging is
safe only because what the job wrote was read at, or after, the revision it listed,
and because whatever the job has written and not flushed will be flushed before it
acknowledges. `OutboxInvariant` adds those parts: copies are never from the future;
what the job has done is in `mem` and as new as its listing, unless its merge skipped
it (`skips`); what it has flushed is in `dur` too. It needs that no second job writes in between, hence the assumption

    SingleProcess == \A p, q \in Procs : p = q

on `_projection_lock` being the only one. It is needed: with two processes an older
read overwrites a newer projection (section 9), and the start of one
process can drop a registry row that a commit of the other has just written. The other assumptions
(`OwnersAssumption`, `BoundsAssumption`) only say what kind of values the constants
are. `AcknowledgedIsCurrent` and `AtomsKeepTheirOwner` follow from the invariant.

The last part proves that every step of the outbox is a step of
`DurableReplica` or a stutter (`OutboxImplementsReplica`), and `CopiesNeverGoBack`. An
owner is settled there when its row is applied and not `kept`: an acknowledgement of an
old copy is a stutter of the replica.

`AcknowledgedIsVisible` needs what `FenceInvariant` does not say: that a write shows an
owner exactly when SQLite has it registered. `VisibleInvariant` follows a
job: what it has read of a registry row holds while it writes, for with one process
nothing registers or drops an owner of a batch under the lock; before an edge is
upserted both endpoints are in the graph, whether this batch wrote them or
`_ensure_entity_nodes` did; an owner that is done is in the stores exactly if it is
registered. A merge that kept an old copy has looked at the graph only, so it answers
for the graph (`Answered`), not for the vector store. So nothing but a dropped owner can
be acknowledged and be missing in the graph.

`DroppedLeavesTheStores` is `NoGhostProjection` for every history that has no aborted
commit or no crash. The two cases need different invariants, the two halves of
`GhostInvariant`. Without an abort, an owner that is registered and that the startup
repair would drop (`Needed` says which it keeps) is one of a commit that is still
storing its Atoms, so whatever the repair drops had never been written. Without a
crash nothing is registered before the process serves, and the repair has nothing to
drop. With one of each TLC finds the ghost that section 9 describes, so the
condition cannot be removed.

`EventuallyApplied` is model-checked only, under fairness. What its promise rests on
is proved. `NoChangeIsForgotten`: with one process, as long as a store does not
durably show the latest state of an owner, the owner has an outstanding row, which is
due or waits for the backoff of its own failure, or a commit has acknowledged it with
the copy it kept. `RetriesGoOn`, for any number of
processes: a row that was queued again after a failure is due at once
(`BackoffIsEarned`), and the lock is held only in a running process by a job whose next
step is there to be done (`LockIsWorkedUnder`): an owner is left to register, to store
Atoms for, to project in the order of the batch, to acknowledge or to report as failed.
Its invariant, `RetryInvariant`, says what each step leaves for the next one: a commit
that registers owners has not registered them all and has Atoms to store, a batch that
is flushed has done something, and a job that reports failures has one to report.

## 4. The runtime

`CoreService` is the promise: a service is offered and withdrawn; calls begin while
it is offered and it is not withdrawn while a call runs.

`Runtime` models `MagiRuntime` as tasks of one asyncio loop. A task runs
without interruption from one `await` that suspends to the next; `turn` names the
task that must go on before any other does. The lifecycle lock is a FIFO lock as in
`asyncio.Lock`; `_handle_lock` is not modelled because no holder of it suspends.

| Variable | Code |
|---|---|
| `state`, `active`, `backend` | fields of the runtime |
| `hstate`, `known` | state of each handle, membership of `_handles` |
| `lock`, `queue` | `_lifecycle_lock` and its waiters |
| `stage` | each bundle: not built, starting, up, stopping, down |
| `reg`, `chosen` | registered workspaces and the persisted selection |
| `pc`, `op`, `tgt`, `mine`, `bun`, `hnd`, `drain` | a task's position and locals |

Operations: `Boot` (instance_init), `Shutdown` (final destroy), `Switch`, `Create`,
`DeleteActive` / `DeleteOther`, `OpenHandle`, `CloseHandle`, `UseBegin` / `UseEnd`.
Faults: a start, a registry write, a cleanup, a finalization, a drain that times
out. Bundles are numbered and their numbers reused, so the model is finite without
bounding the number of switches. Task cancellation and process death are not
modelled: a dead process leaves no runtime.

### Runs

Two tasks contend and a third makes the FIFO order of the lock matter; two handles
let one be drained while another is opened; two workspaces are a default and one
that can be deleted.

- `RuntimeCalls`: every fault once; `FinalizedForGood`, `ImplementsService`.
  `CallsOnLiveBackend` is a theorem, and no longer run.
- `RuntimeSwitching`: three tasks, a failing start and a drain that times out;
  `OneCore`, `ReadyIsChosen`, and under fairness `EveryoneReturns`. Registry writes
  succeed here: when persisting the selection fails after a start, `instance_init`
  drops the backend without finalizing it and the next one runs beside it.
- `RuntimeOffline`: a violation, section 9.

Deadlock is not checked: a finalized runtime without registered work has stopped.

### Fairness

Strong fairness of each task's own steps. asyncio runs its ready queue in order, so
a task that can go on does, and a task whose condition becomes true again and again
is queued when it does: both the lock and `Event.wait` hand over in FIFO order.
Calls return, starts and finalizations end. New requests are not assumed.

### Proofs

`RuntimeProofs` proves `RuntimeInvariantHolds`: types, the holder of the lock
against program counters, the state against who holds it, the stage of the bundle
in use, and, the heart of it, that a call in flight has a handle that a drain waits
for, so that a finalization can begin only when no call is left. From it follow
`CallsStayLive`, `RuntimeImplementsService` (refinement of `CoreService`) and
`FinalizedStays`. The only assumption is `RuntimeAssumption`, the kinds of the
constants.

`ServesTheChosen` and `OneCoreAtATime` need a second invariant, `SwitchInvariant`:
no task is at a step that only a deletion takes, a target that is being started is
registered, a ready runtime serves the persisted choice, and, until a registry write
fails, no bundle but the served one is up.
Both are theorems under `Deletable = {}`, and the second speaks of the time until a
registry write fails. Without these hypotheses they are false, for reasons the code
has: a deletion between the lookup and the initialization leaves the choice behind
(section 9), and an `instance_init` that cannot persist the selection drops its
backend without finalizing it. 
`EveryoneReturns` is model-checked only, for it needs fairness; that no circle of waits
stands in its way is proved for any tasks, handles, deletions and faults
(`NobodyWaitsInACircle`). A coroutine waits for the lock, for the calls in flight on the
handles it drains, or for those on the handle it closes. `WaitInvariant` says that the
holder of the lock is inside one of the two operations, and what they leave half done
is done under the lock (`HolderInside`); that who wants the lock and has suspended is in
its queue exactly once (`QueueOnce`), so that a free lock has somebody it goes to; and
that who keeps the event loop between two actions does not wait (`TurnBusy`). A drain or
a close waits for a call, a call waits for the backend only, and the lock is held by
somebody who drains or goes on. From `HolderInside` follows `DestroyFindsNothingHalfDone`:
the `RuntimeError` of `instance_destroy` guards against a state that is not reached.

## 5. Dreaming

`DreamingRunner.run` stages a snapshot in SQLite, replaces the graph's partition in
one transaction, and confirms in SQLite. No transaction spans the two stores, so a
failure after the second step is compensated by putting the previous partition
back. A snapshot belongs to one run and is identified with it.

| Variable | Code |
|---|---|
| `run`, `snap` | `dreaming_runs.status`, `dreaming_snapshots.status` |
| `latest` | the published snapshot with the latest `published_at` |
| `graph` | the `dream_snapshot_id` of the partition in Neo4j |
| `mode` | server down, serving, stopping (its lifespan's `finally`) |
| `pc`, `prev`, `cancelled` | per run: the task's next step, `previous_snapshot`, whether it is in a handler of `CancelledError` |
| `thread` | per run: the SQLite call whose waiting task was cancelled |
| `faults` | how many faults of each kind have happened |

`ProcStart` repairs what an earlier process left; `Start` reserves the slot and
creates the task; `Work`, `Stage`, `Load`, `Publish`, `Confirm`, `ReadStatus` are
the steps of `run`, `Restore` and `Record` those of its handlers. Each step can
fail: `WorkFails`, `PublishFails` (rolled back), `PublishLost` (committed, but the
answer is an error), `ConfirmFails`, `StatusFails`, `RestoreFails`, `RecordFails`.
`Shutdown` makes the server stop; `Cancelled` is the moment the cancellation
reaches a task, at whichever `await` it is; a SQLite call it was waiting for runs on
in its thread as `LeftBehind`. `Exit` waits for tasks and threads; `Crash` does not.
The slot is free once a run is confirmed, before its task has read the status, so
two tasks can be alive.

The order of `published_at` values is taken to be the order of publications. The
phase column, the contents of communities and reports, and the provisional
assignment of new nodes (cleared by every publication) are left out.

### Runs

`DreamingRuns` takes three runs, so that one can succeed, the next one fail and be
compensated, and a third follow; every fault happens up to once, a shutdown and a
crash among them.

- `RowsAgree`: a run has succeeded exactly when its snapshot is published, although
  the confirmation may commit in a thread after the handler has begun.
- `GraphIsStaged`: the graph shows only snapshots SQLite holds.
- `GraphShowsLatest`: between runs the graph shows what SQLite published last,
  unless an answer was lost, a restoration or the status read failed, or the server
  was shut down or died. In those cases the code leaves the graph as it is.
- `SuccessAgrees`, a theorem and no longer run: the next confirmed run brings both
  into agreement; the exception is a status read that fails, whose task may still restore over it.
- `SlotFreed`: a run that holds the slot gives it up, by its end or by a restart,
  unless recording its failure failed: then the slot is taken until the next start,
  which nothing in a serving process causes.

Deadlock is not checked: with all runs used up an idle server has nothing to do.

`FairSpec` has weak fairness of each task's next step and of the delivery of its
cancellation (the event loop), of a call left behind (a thread that ends), of the
exit of a stopping server and of its start (a supervisor). A step of a task that is
ready stays ready until it is taken, so weak fairness is enough. No request and no
fault is assumed.

### Proofs

`DreamingProofs` proves `DreamingInvariantHolds`. `RowsAgree` is inductive because
each SQLite transaction looks at the status it finds: three lemmas on `Staged`,
`Confirmed` and `Recorded` carry it through every action. The two claims about
the graph need more. `SlotOfTask` says that in a serving process every task before
its confirmation holds the slot, and no two runs hold it; so no other task publishes
between one task's `Publish` and `Confirm`, or makes another snapshot the latest
between its `Load` and `Restore`. `StoredByTask` says that what a task will show, or
put back, is stored, and `GraphOfTask` ties the graph to the task that is about to
confirm. `RowsAlwaysAgree`, `GraphAlwaysStaged`, `CompensationRestores` and
`SuccessLeavesAgreement` follow. The only assumption is `DreamingAssumption`, the
kinds of the constants.

`SlotFreed` is model-checked only. Its safety core is `SlotIsWorkedOn`: in a serving
process, as long as no failure failed to be recorded, a run that holds the slot has a
task that works on it. `SlotInvariant` adds that a task is in a handler of its
cancellation only in a stopping server. The hypothesis is needed: the failure of the
last `except` leaves the run `running` with nobody to end it, until a restart
(`ProcStart`) records it.

## 6. The plugin

The plugin is one JavaScript thread. An action runs from one `await` to the next;
what a function reads before a wait and uses after it is kept in the model too.

### MemoryExplorer

| Variable | Code |
|---|---|
| `explore`, `aborted` | a call of `magi_memory_explore`: its phase, seeds, whether it delegates, its report; `exec.signal.aborted` |
| `life`, `boss`, `batch` | a worker, the coordinator that started it, the workers one `delegate` waits for |
| `context`, `known` | the objects of `explorationAgents` and its keys |
| `call`, `calls` | the graph tool call an agent waits for, and how many it has made |
| `told` | history: the owners an agent has noted |

`ExploreBegin`, `StartFails`, `CoordinatorStart`, `TraceRegistered`,
`CoordinatorResolves`, `CoordinatorRejects`, `CoordinatorDisposed` are
`runActiveExplorer` and its cleanup; `Delegate`, `WorkerStart`, `WorkerStartFails`,
`WorkerResolves`, `WorkerRejects`, `WorkerDisposed`, `DelegateSettles` the delegate
tool; `ExpandSend`, `ExpandAnswers`, `DescribeSend`, `DescribeAnswers`, `CallFails`,
`Note` the graph tools. The disposal of a run (`index.ts:953`, `active-explorer.ts:461`) is
awaited and taken to succeed. `Interrupt` may happen at any moment; an abort settles a
`delegate` before its workers have ended (`DelegateSettlesEarly`).

`ExplorerRuns` has one coordinator, two workers and two names (three owners: two
entities and a relation). Two workers are what it takes to end in either order; the
coordinator makes up to three graph calls and each worker one, so a worker can fold
its findings into a context that has moved on. `ReportsAll`: the report is the
findings of the seeds, the coordinator and of every worker that came back, and no
others. `CleanReturn`: an exploration that returns undisturbed leaves no agent.
`Released`: with or without an abort, every context is released in the end.

Fairness: a request is answered or times out, a subagent ends (it has a token
budget and the signal), and what the plugin does next is run by its event loop. No
call, delegation or interruption is assumed.

`MemoryExplorerProofs` proves `ExplorerInvariantHolds` for any number of
coordinators, workers, names and calls. `ReportsAll` is not inductive. The parts
that make it so: a call that waits belongs to an agent whose context is registered;
the findings in a running worker's context are exactly what it noted; those in a
running coordinator's are its seeds', its own and those of the workers that have come
back; and unless it was aborted, a coordinator that goes on has no worker at work. From
it `NothingIsLost` and `NobodyIsLeft` follow. `Released` stays with TLC; what it rests on
is proved. `ContextsFollowAgents`: `explorationAgents` holds the contexts of the agents
at work and no other, after an abort that ends an exploration before its workers too.
`DelegatesAreServed`: a coordinator whose `delegate` waits can return, or waits for a
worker that itself waits for MAGI only.

### MemorySession

`log` is the session's event log, `projected` the mode the host shows, `handoff` and
`decision` the two maps that link a recall or an approval to a turn, `exists` and
`active` the server's workspaces, `tool` the workspace tool in progress. Commands are
logged twice, when they run and when they end (`CommandRun`, `CommandDone`; the
latter may be lost); `Decide` and `ApprovalThrows` are the ends of
an approval; `OtherClient` is anybody else who changes the active workspace.

`SessionRuns`: two commands, each once; two calls of explore in up to two turns,
because an outcome is kept for its turn; two workspaces and one change by another
client, which is enough to put it between any two requests of one tool. Logs with
the old spelling of `auto` are among the initial ones. Symmetry permutes calls and
workspaces; all its properties are invariants. `ProjectionAgrees`: the fold of the
log is the mode the host shows, on every prefix of it. `ApprovedOnly`: nothing
explores in auto mode without the one answer of its turn. `ActivatedMeanwhile`: what
a workspace tool reports was true at some moment of the call.

`MemorySessionProofs` proves all three, and `TypeOK`. For `ApprovedOnly` the invariant says that
a call that asks is of the current turn, alone in it and undecided, and that an
interrupted one still asks only between turns, so that a tool which begins never
meets a pending approval (`NobodyAsks`); an outcome of an earlier turn is never taken
for one of this turn. `ReportsAreTrue` needs that a tool under way remembers whether
its workspace has been active. Assumptions: `SessionAssumption`, the kinds of the
constants, and that the log of a resumed session is made of its events. For `ModesAgree`
the two readings of the log are compared event by event (`EventsAlike`: an outcome of
a command that chose no mode clears nothing), then as recursive functions on the whole
log by their least difference, and `LogInvariant` keeps the host's state, pending
commands included, equal to the fold. `SessionTyped` adds `ServerInvariant` for what is
left of `TypeOK`: the server's active workspace exists, and a handoff is of a turn
there has been.

## 7. The WebUI

A page is one JavaScript thread. An action runs from one callback to the next and
includes the effects React runs because of it. A callback keeps the values of the
render that made it; where that matters (a query, a toolbar, a token) the request
carries them. Wall-clock times are left out: a timer may fire at any moment.

### WebDocuments

`WebUploads` is the upload dialog: the files on its cards, the batch under way and
the errors, which are kept by name. In `WebDocuments`,
`picked`, `saved`, `shown` are the query chosen, the pages remembered by filter, and
the response on the screen with the query it was asked for; `running` and `pending`
are the loop of `runRefreshRequest` and `pendingRefreshRequestRef`; `timer`,
`poller`, `probe` the trailing throttle, the interval and the activity probe;
`dialog` a scan, upload, deletion or clear under way. `AnswerStale`, `AnswerBeyond`
(the page does not exist any more), `AnswerFetch`, `AnswerManual` (the refresh
button, which shrinks the page size) are the ends of a request.

`DocumentsRuns`: two filters, orders and page sizes, up to two documents (so up to
two pages). A run starts from one of three budgets: a choice, a change at the server and
a slow dialog; two of these and a drop of files; or two drops. Each is once because
the interesting cases lie in how one of each interleaves with requests that are
already out; a second drop is what brings the same name again. `OnlyLateMisleads`: an empty queue means the chosen query is
displayed, unless the callback of a dialog, which keeps the query of its render, was
the last to ask. `VerdictsShown`: a card shows an error exactly when its file was
refused, unless another file of the name was dropped. `Converges`: nothing changes for ever, so in the end the list is
the chosen one, as the server has it.

Fairness: weak for intervals, timers and the end of a probe; strong for answers,
because a server that is asked again and again is not assumed to answer each time.

The last part of `WebConsoleProofs` proves both safety properties, for any filters,
orders, sizes, drops and bounds. The assumptions are the kinds of the constants, and
that the values for no request and no batch are none. The two pages share no
variable; names that the console has taken are avoided in `WebDocuments`
(`DocumentsSpec`, `ListRequests`), so that one module can speak of both.
`OnlyLateMisleads` speaks of a queue that
is empty, so the invariant has to say what a queue that is not holds: `ListInvariant`
says that a request under way, its successor, the trailing call and the interval
each ask for the chosen query or come from a late callback, unless a change of the
query has marked them as stale, and that a stale request has a successor, which is
not. Every handler keeps it because a change of query replaces the
successor and the interval at once (`EffectsKeep`); a page that is shown changes the
query, and then counts as such a change (`FinishKeeps`). `VerdictsShown` needs
that a drop appends its cards behind the others (`DropAppends`) and that files wait
only while a batch runs.

### WebSession

`token`, `previous`, `history`, `checked` are what the browser stores; `auth`,
`page`, `typed`, `check` the auth store, the router, the login form, and the token a
version check holds; `messages`, `owner` the chat and the query its abort controller
belongs to; `reqs`, `refreshing` requests in flight and the shared refresh of a
guest's token; `live` the tokens the server accepts. `Unauthorized`,
`RefreshAnswers`, `RefreshFails` are the response interceptor; `Stop`, `Clear`,
`Reload` the user.

`SessionChat`: two users and a guest, two requests (that share a refresh, or of
which one outlives the other's session), three tokens (two logins and a renewal),
one reload. `HistoryIsShown`, `HistoryOwned`, and `Settles`: every request is
answered, sent once more, or given up. `late` marks what `HistoryOwned` excepts,
section 9. Fairness: the server answers or the request fails.

`WebSessionProofs` proves both properties for any users, requests, tokens and
reloads, and `SessionTypes`, that every variable keeps its type. `ChatShown` says how history, messages and the running query hang together,
at every place the tab can be, the login page included. `SessionOwned` is what
`HistoryOwned` lacks to be inductive: as long as no answer came late, history and
chat belong to the account that is logged in or, outside a session, to the one
remembered from before; the token stored is of the user the auth store names, and so
is the one a version check holds while the page loads.
What `Front` and `Append` do to a chat is in lemmas of their own. Assumption:
`SessionAssumption` (a guest is no user, `None` is no name and no token).

### WebGraph and GraphLayouts

`GraphLayouts` is the promise of `activeLayoutSupervisor` in `stores/graph.ts` with
the two components that use it: a layout moves the nodes exactly while it has the
slot. `WebGraph` adds the graph: `query` (label, depth, limit, version), `hook`
(`graphDataFetchAttempted`, the signature of the last fetch, the retry timer and
count, the fetch itself), `view` (graph, counts, selection), `restores` (labels
that a change of the node limit will put back), `expands`, `edit`, `server`.
`Effects` is the reset effect and the fetch effect of one render (`Rendered`); every
action that changes what they read ends in it, and it does nothing while the hook is not
mounted. The hook lives in the property panel, which `HidePanel` and `ShowPanel` unmount
and mount: its refs (`signature`, `tries`, `timer`) are lost, the pending timer is
cleared, the gate is a field of the store and stays. A fetch under way goes on, and if it
fails, the panel that is gone arms a timer that nobody clears (`strays`). `own` says
whether the panel of a fetch is still there, `placed` whether the store shows "Graph Is
Empty". `Follow` makes the layouts follow the graph.

`GraphRuns`: three entities in a chain and a spare name to rename to; one retry;
three choices of the user, e.g. a refresh during a fetch followed by another depth, or
a panel that is hidden, a refresh, and the panel shown again;
two depths and limits. `RefreshServed`, `OnlyLateMiscounts`, `Settles`,
`SingleOwner`. Fairness: the server answers or fails, and the retry timer fires.

`WebGraphProofs`: `LayoutsHaveOneOwner` for the layouts alone, `ViewImplementsLayouts`
(every step of the composed view is a step of `GraphLayouts` or leaves it alone), and
`ViewHasOneOwner` from both. `RefreshIsServed` and `CountsAreShown` come from
`GraphInvariant`, for any graph and any bounds. Its heart is `Gated`: when the gate
`graphDataFetchAttempted` is closed, the query that is chosen is being fetched, will
be tried again, or is the last one fetched, unless the panel is hidden or has dropped
a retry (`lost`); with the panel shown, only a view without a label leaves the gate open. For the counts, an expansion under way knows whether its graph is
still shown. `GraphTyped` is `TypeOK`: the selected node is on display, the layouts
know whether there is a graph, retries are bounded. Assumptions: `LayoutsAssumption`
and `GraphAssumption`, the kinds of the constants.

### WebConsole

`WebWorkspaces` (the switcher), `WebMemory` (the memory tab), `ExplorationTrace`
(the log and the Melchior tab), `WebDreaming` (the Balthasar tab) and `WebModels`
(the model settings) share the server: a change of workspace reloads the page, and
with it the state of all of them (`Again`). A logout, or a 401, and the next login mount
the tabs anew as well (`LogInAgain`, in one step: nobody sees the tabs in between), but
what lives in a module stays: the exploration store, and the graph, the reports and the
view of Balthasar. A login while the header is writing is left out. `WebTabs` says which
tab is in front.

- In `WebMemory` a load is never cancelled and its answer is displayed whatever the
  toolbar says by then (`Shown`); what an open dialog displays is read from the panel
  below it. `Atoms` are the two Atoms of one contradiction. A decision is two steps of the
  server (`Decide`): it reads the contradiction and checks its winner (`Checks`) before
  its transaction begins with the first `UPDATE`, and then overwrites what it finds
  (`Overwrites`). `unheard` are the decisions whose page has given up, was reloaded or has
  logged out: the server goes on with them (`ServeUnheard`).
- In `ExplorationTrace` the handlers of `memory_routes.py` are two transactions each;
  the tab polls the list of traces and the events after the last one it has. A replay
  reduces the events up to the one it stands at (`Visible`).
- In `WebDreaming` the status is polled whatever the tab, and a poll does not wait for
  the one before. A load reads graph and reports at two moments; the next one, or
  leaving the tab, cancels it. `asOf` says which partition was the latest when a
  graph was read, and `noticed` which success the page has seen end; `missed` says that a login has kept
  something older (`BalthasarKept`).
- In `WebModels` a configuration is the role it was made for; the role can change
  while its update or a discovery of models is under way.

`ConsoleRuns` starts from one of twenty budgets (`BudgetSet`), each a number of acts
on each part. Three acts on the toolbar overtake a load twice; four on the dialogs
decide, lose the answer and decide again; two on the header change the workspace
while a change is under way; five on a trace register two explorations, let an
expansion fall into a registration and replay; two runs of the Dreaming with two polls
under way overtake each other; five on the settings change the role around an update
and save what came. Five budgets have the header act once, and are about what another
part keeps of the workspace before; four have a login, which keeps what a reload does not. A full product of the budgets is out of reach and
is not claimed. `MCInit` starts a header without acts with both workspaces: which
ones exist matters to the header only. Answers hold two events of at most three, so
that a trace needs more than one. Two calls of two agents and five members in two
communities, one of them provisional, make every drawing differ from the others.

- `ListIsAsked`, `DialogTruthful`: the memory tab. `DecisionStands`: once a contradiction
  is decided and no decision for the other Atom is between its check and its write, that
  stays so, and so does the winner.
- `OneWorkspace`: the page is of one workspace, the one in its header.
- `ShownIsPrefix`, `VisitedStays`: Melchior shows a prefix of the log, what was visited
  stays drawn, and a scene of the history stands still.
- `FinishIsShown`: after a noticed finish the tab shows what was read after it, unless a
  login came first.
- `RolesApart`: no configuration reaches another role's route.
- `CatchesUp`: Melchior comes to show the whole log.

Fairness is weak or strong only for what `CatchesUp` needs: the two polls of Melchior
are sent, and one that is repeated for ever is answered again and again (strong).

`WebConsoleProofs` proves all of them but `CatchesUp`, for any values of the constants.
No budget appears in a proof, so what the runs split into budgets is proved of all
acts together. `ModelsMove`, `DreamMove`, `TraceMove`, `MemoryMove` and `HeaderMove` first
reduce a step of the whole page to what it does to one part; each part then has an
inductive invariant of its own, one lemma per handler:

- `ModelsInv`: as long as nothing was mixed, what is under way carries its own role.
- `DreamInv`: unless a login has kept something older, the graph shown, the load and its
  cancelled predecessor cannot be older than the success noticed; what is selected is
  drawn.
- `TraceInv`: what is shown is a prefix, the request for more names its end, and the
  frames are the reduction of the events. That reducing a longer prefix continues the
  reduction of a shorter one is a statement about a recursive function on sequences,
  shown by its least counterexample (`Least`, from the well-foundedness of the natural
  numbers) instead of by induction.
- `MemInv`: if the last answer was not late, the list shown, a request under way or the
  armed timer is of what the toolbar asks for; an open dialog that was not disturbed
  names the Atom on the panel or its rival.
- For `DecisionStands`, `Only`: all decisions that are checked and not yet written are for
  one Atom. No handler and no step of the server breaks it once that Atom is the winner.
- `PlaceInv` relates all parts: unless the page went astray or the answer of a change
  is landing, lists, panels, traces, loads and requests are of the active workspace.

`ConsoleTyped` is `TypeOK` of the whole page: with the invariants of the parts, every
request of the header names its workspace (`HeaderFormed`), and a flag of the memory
tab that makes a button busy stands for the one request of its kind (`CallsFormed`).

Assumptions are those of the five modules, the kinds of the constants. `MemoryAssumption`
says that there are two Atoms: the module has one contradiction.

Deadlock is not checked for the pages and the plugin: with budgets used up they rest.
The `TypeOK` of each module is a theorem (`SessionTyped`, `SessionTypes`, `GraphTyped`,
`ConsoleTyped`) or part of a proved invariant; no run spends time on it.

## 8. What is not covered

Liveness and ENABLED are beyond the prover and stay with TLC: `EventuallyApplied`,
`EveryoneReturns`, `SlotFreed`, `Released`, `Converges`, `Settles` and `CatchesUp`.
For four of them the state part is a theorem: that nobody waits for somebody who waits
for him, and that work which is due is never out of the reach of who does it
(`RetriesGoOn`, `NoChangeIsForgotten`, `NobodyWaitsInACircle`, `SlotIsWorkedOn`,
`ContextsFollowAgents`, `DelegatesAreServed`). What fairness adds stays with TLC.
Every invariant and action property of a passing run is a theorem. Some have a
condition, which the run meets: those of the outbox assume one process, and
`NoGhostProjection` no abort or no crash besides; `ReadyIsChosen` and `OneCore` assume
that no workspace is deleted, and `OneCore` that the registry can be written. The
strengthened invariants (`OutboxInvariant`, `VisibleInvariant`, `GhostInvariant`,
`RetryInvariant`, `RuntimeInvariant`, `SwitchInvariant`, `WaitInvariant`,
`DreamingInvariant`, `SlotInvariant`, `ExplorerInvariant`, `SessionInvariant`,
`GraphInvariant`, `ListInvariant` and the five of `WebConsoleProofs`) are in no
configuration: they are proved, and the runs check what follows from them.

The theorem schemas of the library that take an operator (induction over naturals or
sequences) cannot be instantiated. Where a proof needs induction it takes the least
counterexample of a set, as in `WebConsoleProofs` and `MemorySessionProofs`; recursion is written as a recursive
function (`KeptSequences`).

Not modelled, and why:

- Summary checkpoints, the document pipeline, its ingress and scan jobs, and the
  document status store: next in the plan. They have protocols of their own, which
  no module here stands for.
- Of the outbox: `clear_memory`, alias merge, expiry and evidence added outside a
  commit queue rows as `ResolveConflict` and `DeleteEpisode` do.
- Of the runtime: cancellation of a task, and death of the process.
- Of the explorer: a disposal of a run that rejects. A worker's then fails its `delegate`
  while the other workers go on.
- Of the graph view: a logout; of the model settings: the form on the login page.
- Of the log: archiving a trace; of Melchior: positions and colours of the drawing.
- Of the pages: selection of rows, positions, colours, texts and rendering of
  Markdown, the random graph, the log panel, the settings of a query.
- Texts, prompts, LLM answers, embeddings and their ranking, parsers, chunkers,
  bindings to services and the storage drivers other than Neo4j and the local vector
  store: data, or I/O against external services.

Hazards that the plan covers and no property does yet: `delete_workspace` is
separated from its check by a wait (`magi_runtime/runtime.py:162`); a failed registry
write drops a started backend (`runtime.py:93`); a commit dies between storing a
superseding Atom and expiring the old one (`adapter.py:1767`), and the deletion of
the superseding one leaves the old one expired (`sqlite/backend.py:3068`); a
cancelled `BackendBundle.initialize` leaves SQLite open (`backend/bundle.py:49`); an
extension that closes its own handle waits for itself (`interface/api.py:336`); HTTP
routes reach the engine without a handle (`lightrag_server.py:2406`); crash windows
of the workspace registry (`workspaces.py:185` and `:222`); document deletion against
the memory's projections (`magi_core.py:5564`); checkpoint compare-and-set
(`sqlite/backend.py:1424`); a caller that times out while its Episode is admitted
(`bundle.py:201`); an alias assigned while a commit resolves it
(`sqlite/backend.py:2207`).

## 9. Where code and documentation differ

`RuntimeOffline` ends in a counterexample to a comment: the target that
`switch_workspace` looked up before the destroy is deleted before the
initialization, and the runtime ends failed without any fault.

The other differences met while modelling are behaviours of the models whose
properties except them or whose runs leave out the fault that leads to them:

- Outbox. An aborted commit leaves a relation without Atoms; deleting the Episode
  keeps its endpoint, the repair of the next start removes both rows and queues
  nothing, and the node stays in the graph (`sqlite/backend.py:281`). An endpoint
  whose vector upsert failed is not retried, since the retry looks only at the graph
  (`adapter.py:859`). The projection lock is of one process: an older read overwrites
  a newer projection of another (`adapter.py:104`).
- Outbox, acknowledged and old. A commit for an owner whose list of sources is full
  acknowledges the row although its merge has written nothing: graph and vector store keep
  the older text until another job projects the owner (`operate.py:2478` and `:2846`,
  `adapter.py:2212`; the limit is 200, `constants.py:72`). The merge looks at the graph
  only: if an earlier commit had written the graph and failed on the vector store, the
  owner is acknowledged and missing there. TLC finds both when the properties do not
  except `kept`.
- Runtime. A handle can be opened while `delete_workspace` clears the storage
  (`runtime.py:287`; `workspace_cleanup.py:59` asks for none).
- Dreaming. A status read that fails or is cancelled after the confirmation restores
  the previous snapshot in the graph; SQLite keeps the run succeeded
  (`dreaming.py:312`).
- Documents. The comment at `DocumentManager.tsx:1016` drops the trailing refresh of
  an old query; callbacks of uploads, deletions, clears and scans are not dropped
  and bring an old query's list back. The dialogs of deletion and of clearing can be
  closed and opened again while their request runs.
- Graph. `stores/graph.ts:106` keeps the counts "as a store invariant"; an expansion
  answered after its graph was replaced writes the old graph's counts. Two changes of
  the node limit within 300 ms lose the label: the second remembers the empty one
  (`stores/settings.ts:148`).
- Graph, the panel. Hiding the property panel while a fetch waits for its retry, or while
  a fetch that will fail is under way, drops the retry and leaves the gate closed
  (`useLightragGraph.tsx:664`, `GraphViewer.tsx:314`): shown again, the panel does not
  fetch, and a later refresh or another depth is needed. `RefreshServed` excepts it
  (`lost`), and says nothing while the panel is hidden.
- Session. A version check (`App.tsx:114`) or a renewed token
  (`api/lightrag.ts:779`) answered after a logout puts the ended session back. A
  guest's automatic login on `LoginPage.tsx:53` does not clear the history of the
  user before.
- Decisions. `sqlite/backend.py:2979` reads the earlier winner in autocommit, checks it at
  `:3008`, and the write lock is taken by the `UPDATE` at `:3020`; `resolve_entity_alias`
  begins with `BEGIN IMMEDIATE` (`:2139`). Two decisions for different Atoms that overlap
  both pass, and the second one replaces the winner of the first, with both Atoms retired. `DecisionStands` speaks of the states without such an overlap. A decision that
  was given up counts: the server still carries it out.
- Memory tab. Typing in the search box leaves a page number that the search has not
  got. Confirming a contradiction or an alias closes its dialog at once, before the
  answer, although both have texts for the time in between. An alias of which one
  candidate was merged meanwhile is refused for all of them.
- Uploads. Errors are kept by name: two files of one name share theirs, and a later drop
  clears or sets the error of the other (`UploadDocumentsDialog.tsx:105`).
- Model settings. An update's or a discovery's answer that comes after the role was
  changed goes into the form of the other role; saved from there, it reconfigures that
  role (`RuntimeModelSettings.tsx:125`). `RolesApart` excepts it.
- Balthasar. A run that begins and ends between two polls is not noticed and the old
  partition stays on the screen (`DreamingSettings.tsx:47`); `FinishIsShown` speaks of
  the finishes that are. The cached graph survives a logout, `refreshKey` starts at 0 again
  and the load is skipped (`BalthasarView.tsx:285` and `:308`): a finish noticed on another
  tab before a login, or while its load was under way, is not shown after it until the next
  load. `FinishIsShown` excepts it (`missed`).
- Melchior. Traces are ordered by their last update, so two explorations at once
  take the tab from each other.

## 10. Running

    tlc -workers 2 -config OutboxSafety.cfg MCProjectionOutbox.tla
    tlc -workers 2 -config ExplorerRuns.cfg MCMemoryExplorer.tla
    tlc -workers 2 -config ConsoleRuns.cfg MCWebConsole.tla
    tlapm ProjectionOutboxProofs.tla
    tlapm RuntimeProofs.tla
    tlapm DreamingProofs.tla
    tlapm MemoryExplorerProofs.tla
    tlapm MemorySessionProofs.tla
    tlapm WebSessionProofs.tla
    tlapm WebGraphProofs.tla
    tlapm WebConsoleProofs.tla

Every run is listed with its configuration in `PROJECT.json`, which also maps each
definition to the lines it stands for and names, for each checked property, a
mutated definition under which TLC finds it violated.
