# TLA+ models of core-ai

The repository holds a dozen programs. Most are agents whose work is calls of
models and remote APIs behind a user interface. Two have a logic of their own
that interleaves, fails half way and must be right all the same, and this
project models those parts of them:

* **membrain** (`src/membrain`, Go): a memory substrate that stores records for
  agents, lets them revise and outcome-rate them, and lets background schedulers
  decay, delete and distil them, all at the same time and on one database.
* **Clawd Code** (`src/clawd-code`, TypeScript): a terminal agent. Most of its half
  million lines are screens, commands and wrappers, but four mechanisms under them
  decide what happens when: the executor that runs tool calls while the response
  still streams, the scheduler of cron tasks that several sessions share, the task
  list that a team of agents shares, and the queue and guard that let one turn run
  at a time.

Paths below are relative to `src/membrain/pkg/` in the parts on membrain and to
`src/clawd-code/src/` in the parts on Clawd Code, unless they start with `src/`.

## Inventory

membrain:

| component | state | operations | who it meets |
|---|---|---|---|
| Record store (`storage/`) | tables `memory_records`, `decay_profiles`, `payloads`, `relations`, `audit_log`, ... (SQLite or Postgres) | Create, Get, Update, Delete, List, UpdateSalience, AddAuditEntry, AddRelation | everybody |
| Transactions (`storage/transaction.go`) | open transactions, level serializable | Begin, the store calls, Commit, Rollback | revision, decay, consolidation |
| Ingestion (`ingestion/`) | none; a record in memory during IngestOutcome | IngestEvent, IngestToolOutput, IngestObservation, IngestWorkingState, IngestOutcome | store, *without* a transaction |
| Revision (`revision/`) | none | Supersede, Fork, Merge, Retract, Contest | store, one transaction each |
| Decay (`decay/`) | the listing a sweep works from | Reinforce, Penalize, ApplyDecayAll, Prune; a scheduler calls the last two | store, one transaction per record |
| Consolidation (`consolidation/`) | listings and indexes of a run | RunAll: compress, semantic, extractor, competence, plan graph; a scheduler calls it | store, one transaction per record |
| LLM extractor (`consolidation/semantic_extractor.go`) | claimed batch; queue table `episodic_extraction_log` (Postgres) | clean, claim, take, ask, find, reinforce or create, mark, release | store, decay service, LLM |
| Substrate (`membrane/membrane.go`) | wires the services to one store | Start, Stop and delegates | gRPC server |
| Retrieval, gRPC server, embedding, metrics | token buckets; otherwise none | reads, validation, best effort calls | store |

Clawd Code:

| component | state | operations | who it meets |
|---|---|---|---|
| Streaming tool executor (`services/tools/StreamingToolExecutor.ts`) | the tracked tools of one response, an abort controller for siblings | addTool, processQueue, executeTool, discard, getCompletedResults, getRemainingResults | query loop, tools |
| Query loop (`query.ts`) | the attempt at the response, the messages | stream, fall back, drain, attach commands, end | executor, command queue |
| Cron lock (`utils/cronTasksLock.ts`) | a lock file with session and pid | acquire, recover a stale one, release | schedulers of other sessions |
| Cron scheduler (`utils/cronScheduler.ts`, `utils/cronTasks.ts`) | the task file; per session the tasks loaded, next fire times, ids in flight | load, check, probe, start, stop; add, remove, mark | its lock, file watcher, CronCreate and CronDelete |
| Shared task list (`utils/tasks.ts`) | a file per task, a high water mark, lock files | createTask, updateTask, deleteTask, blockTask, claimTask, resetTaskList, unassignTeammateTasks | TaskUpdate, teammates, leader, hide timer |
| Command queue (`utils/messageQueueManager.ts`, `utils/queueProcessor.ts`) | commands with priorities and addressees | enqueue, dequeue, remove, pop editable ones | prompts, agents, cron, query loop |
| Query guard (`utils/QueryGuard.ts`) | idle, dispatching or running; a generation | reserve, cancelReservation, tryStart, end, forceEnd | turns |
| Turns (`utils/handlePromptSubmit.ts`, `hooks/useQueueProcessor.ts`, `screens/REPL.tsx`) | the turns under way, the abort controller | submit, process input, query, cancel, background | guard, queue |
| Teammates' mailboxes, permissions, session storage, background tasks, MCP, bridge, compaction, commands, screens | see `PROJECT.json` | | |

Clawd Grok, perps agent, CLI, MCP servers, v3, skills: see `PROJECT.json`, which
lists every component with its sources, what is left out and why.

**What is hard here.** In membrain several daemons may share a Postgres database,
and inside one daemon gRPC handlers, the decay scheduler and the consolidation
scheduler run concurrently. Revision, decay and consolidation change *one record*
per transaction; but whole sweeps and runs, IngestOutcome and the extractor *decide
from what they listed or read before*. So the hard behaviours are stale lists and
stale copies, operations that break off in the middle, claims that outlive their
worker, and reads that see half of a revision.

In Clawd Code one process runs one segment of JavaScript at a time, so every hard
behaviour sits at an `await`: what was read before it and is used after it. Between
processes there are only files: locks that can be found half written or left by the
dead, a file that is truncated before it is written, a watcher that reports late.
And a turn that was cancelled goes on until it notices, with the `finally` blocks of
a turn that no longer owns what they release. `PROJECT.json` "hazards" has each of
them at its line.

**What makes each component correct.**
Store: no relation to a record that is gone, logs only grow, deletion is final.
Revision: whole or not at all, auditable, both ends of a supersession agree,
the log of an episode never tells of a revision, facts have evidence. Decay: protected records
survive, faded ones go in the end. Consolidation: nothing twice. Extractor: an episode in
one hand at a time, nothing undone, everything extracted in the end.
Tool executor: exclusive calls alone and in turn, every call answered once, nothing
started after an abort. Cron: one owner, every task once when it is due, none that the
session knows to be deleted, none forgotten. Task list: an update has its task to itself,
no id twice, one claim per task, dependencies with two ends, no deadlock. Turns: one query,
no command lost, none told twice, no session stuck.

## Modules

| module | models | extends |
|---|---|---|
| `RecordStore` | the tables as a function from ids to records, the store calls as operators on a store value, `ON DELETE CASCADE` and the foreign key | |
| `Ingestion` | ingestion; `OutcomeRead` and `OutcomeWrite` are the two halves of IngestOutcome | `RecordStore` |
| `Revision` | the five revisions as single steps: the abstract specification of `RevisionTx` | `RecordStore` |
| `Decay` | Reinforce, Penalize, the sweep (`SweepStart`, `SweepDecay`, `SweepList`, `SweepPrune`, ...) | `RecordStore` |
| `Consolidation` | RunAll, stage by stage | `RecordStore` |
| `Membrain` | the composition of the four and its properties | those four |
| `RevisionTx` | revisions statement by statement with open transactions; `GetRecord` query by query; implements `Revision` | `Revision` |
| `Extraction` | the extractor, its queue, several workers | `Ingestion`, `Decay` |
| `ToolSchedule` | what the tool executor promises: the abstract specification of `ToolExecutor` | |
| `ToolExecutor` | the executor under the query loop, segment by segment; implements `ToolSchedule` (`Schedule == INSTANCE ToolSchedule WITH calls <- ScheduledCalls`) | |
| `CronLock` | the lock file, one file operation per step | |
| `Cron` | the schedulers of several sessions over one task file, composed with the lock | `CronLock` |
| `TaskList` | the shared task list and its callers, await by await | |
| `CommandQueue` | the queue: who may take what from it, in which order | |
| `Prompts` | guard, turns, cancellation and the query loop over the queue | `CommandQueue` |
| `MCMembrain`, `MCRevisionTx`, `MCExtraction` | inputs for TLC | |
| `ServiceProofs` | lemmas about the store; about ingestion, decay and revision in any composition | `Ingestion`, `Decay`, `Revision` |
| `MembrainProofs` | theorems on the composed system: types, logs, contents, deletion, protection, revised records, links | `Membrain`, `ServiceProofs` |
| `RevisionTxProofs` | theorems on transactions, their refinement of `Revision` among them, and on reads | `RevisionTx`, `ServiceProofs` |
| `ExtractionProofs` | theorems on the extraction queue | `Extraction`, `ServiceProofs` |
| `ToolExecutorProofs` | theorems on the executor, its refinement of `ToolSchedule` among them | `ToolExecutor` |
| `CronProofs` | theorems on the ownership of the scheduler and on what it fires | `Cron` |
| `TaskListProofs` | theorems on updates, locks, ids, claims and links | `TaskList` |
| `PromptsProofs` | theorems on the guard, the controller and the ways of a command | `Prompts` |

Definitions marked "wrong" or "Mutant" are mutated forms used to show that a
property can fail; no specification uses them.

### State and steps: membrain

`store[i]` is a record assembled from its tables, or
`NoRecord`. Salience is counted in units (`MaxSalience` of them are 1.0); the
audit log is the set of actions it has entries for, relations are pairs of
predicate and target; triple, event kind or tool signature are one member of
`Facts`. Creation times are left out, so whatever depends on age ("at least 24
hours old", "the last hour") is a nondeterministic choice or, where liveness
needs it, an action (`Expire`). Decay by the exponential curve is any lower
value not below the floor.

A step is what the code commits at once: one transaction
(`storage.WithTransaction`) or one statement or query outside of one. `sweeps`,
`runs`, `workers` and `outcomes` are the local variables a goroutine keeps
between its steps: the rest of a listing, the index of a run, the batch of
claims, the record an IngestOutcome call has read. `OutcomeTorn` is the case where
the several statements of an Update outside a transaction stop midway at the
foreign key.

`RevisionTx` goes below that grain. A transaction has the snapshot it began
with, its statements and how many of them are done. Both stores ask for the level
serializable: a row it rewrites must be as it read it, a row it refers to must
exist, otherwise the commit fails. Conflicts are judged per record, audit log and relations
included, because a revision reads all of it. The model is more permissive than SQLite,
which has one writer at a time.

### State and steps: Clawd Code

A step is what JavaScript runs between two awaits that leave the microtask queue, or
one operation on a file; whatever else can run meanwhile is another step.

`ToolExecutor`. `calls` are the tracked tools of every executor there has been (an
attempt that is given up leaves its executor behind, `discarded`, with its calls going
on). `status` is the code's; `stage` says how far the generator of the tool is.
`loops` are the `processQueue` calls suspended at the await of a call they have
started, `due` the completed calls whose `.finally` has still to run it. `phase` and
`at` are the program counter of the query loop. A tool is a kind: safe or exclusive,
Bash or not, with a context modifier or not, interruptible or not, unknown or not.
What the calls do is nondeterministic, their results are one of three messages.

`CronLock` and `Cron`. `lock` is the lock file, `pc` the file operation each session
does next on it, `process` its process (a resumed session has the same session id and
another pid). `file` maps the ids in the task file to the times of their creation and
last fire. A job reads the file, truncates it and lands; until it lands, readers find no
tasks, and neither do they when the read fails (`ReadNothing`: readCronTasks catches the
error). Time is the number of times the cron expressions have come round: jitter and the
expressions themselves are left out, so that a one-shot task is due one round after its
creation. The watcher reports a change when the file has been at rest for 300 ms, and
`check` ticks every second. `Timely = TRUE` restricts behaviours to those in which that
order holds for what one session does: the watcher is ready at once, reloads read a file
at rest and land one after the other, and what a tick has removed from the file is off the
session's list before its next tick (`RetiredLoaded`). It does not delay a tick for what others
change: CronDelete may land at any moment, and a tick may meet the old list. What happens
without `Timely` is in the list of disagreements. History variables: `recovered` (a session
has unlinked a lock as stale), `clobbered` (an operation has read the file half written, or
undone the change of another), `fired`, `retired`, `asked`, `deleted`.

`TaskList`. `files` are the task files by id, `Torn` one that is being written, which
`getTask` takes for none. `call` is the program counter and the local variables of the one
call an agent is in, `update` those of the `updateTask` inside it. The mark is empty,
which reads as 0, before it is written (`EmptyMark`, `WriteMark`), and a reset removes
the files it has listed one at a time (`ListToUnlink`, `UnlinkNext`). An agent that is killed
lets its locks turn stale and may leave a torn file or an empty mark behind. History
variables: `given` (how many tasks each id has been given to), `claimant`, `overlap` (two
calls have met that no lock keeps apart; `Serialised` says which may meet), `raced` (a
claim has been under way together with a start or an unassignment; `Races`).

`Prompts`. `turns` are all turns there have been with their place (input, query, drain,
over), generation and abort signal, `ctl` is the turn whose abort controller the session
knows, `seen` what the effect of `useQueueProcessor` has seen. The commands are of the
kinds that the code treats differently. A turn is told not to query when a bash or slash
command was local or a hook has stopped the first input (`AnswersLocally`). History
variables: `told`, `settled` (answered, failed or taken back), `cleared` (thrown away with the
queue when the agents are killed), `holder` (the turn of the latest reservation) and
`crossed`: a turn has, at the end of its input or of its query, released or taken over a
reservation that is another's, or cleared the controller of another. Only turns that were
cancelled come to that, while they processed their input or in the middle of their query.

## Runs

Bounds have names of their own in every module: `Ids` (records a behaviour may create; ids are
never reused, as uuids), `MaxCalls`, `MaxFaults`, `MaxBreaks`,
`MaxFailures` (errors from outside; errors that the interleaving itself causes,
such as a listed record that is gone, are not bounded), `MaxMisses` (relations
a run fails to read), `BatchSize`; `MaxAttempts`, `MaxGivenUp`, `MaxProgress`; `MaxNow`,
`MaxExits`, `MaxErrors`, `MaxEdits`; `MaxKills`; `MaxCommands`, `MaxActs`.

| run | instance | shows |
|---|---|---|
| `revision` | 3 ids, drafts with and without id and evidence, a late outcome, a sweep | `RevisionAudited`, `SupersessionAgrees`, `EpisodicUnrevised`, `FactsHaveEvidence`, `RelationsResolve`, `AuditAppendOnly`, `ContentImmutable`, `DeletedStayDeleted` under every sequence of revisions |
| `sweep` | 2 ids, 2 daemons, one error | `TypeOK`, `ProtectedSurvive`, `FadedIsPruned` |
| `consolidation` | 3 ids, 1 daemon with both schedulers, an outcome client, one error | `KnowledgeDistinct` |
| `transactions` | 3 ids, 2 sessions, 2 calls, 1 reader | `AtomicRevisions`: `RevisionTx` implements `Revision`; `RevisionExplained` |
| `extraction` | 2 ids, 2 workers, late claims, a failure, a sweep | `ExtractionTypeOK`, `ClaimExclusive`, `DoneStays` |
| `extractor` | 3 ids, 1 worker, a failure or crash, a sweep | `TriplesDistinct`, `EpisodesExtracted` |
| `tool_executor` | 3 calls of one response, safe and exclusive, both abort reasons | `KeepsSchedule`: `ToolExecutor` implements `ToolSchedule`; `ErrorAnswersOnce` |
| `fallback` | 2 calls over 2 attempts, a progress message, an interrupt | `TurnReportsAll`, `NoWorkAfterAbort`, `RemainingEnds` |
| `cron` | 2 sessions, 1 one-shot task, one crash or stop, late loads and ticks | `OneOwnerUnlessRecovered`, `DueIsHandled` |
| `cron_fires` | 1 session resumed after a crash, a one-shot and a recurring task, 2 edits, one failed file operation | `FiresOnceUnlessClobbered`, `SettledNeverFires` |
| `tasks` | 2 agents, 2 tasks, any 3 of nine calls, one kill | `UpdatesMerge`, `IdsNeverReused`, `BlocksAgree`, `ClaimedOnce`, `CallsEnd`, `TypeOK` |
| `prompts` | 3 commands of six kinds, one other act of the user | `GuardAgrees`, `OneQuery`, `NothingLost`, `ToldOnce`, `QueueDrains`, `TypeOK` |

Several properties are qualified by a history variable: `overlap` (`IdsNeverReused`,
`BlocksAgree`), `raced` (`ClaimedOnce`), `given` (`UpdatesMerge`), `recovered`
(`OneOwnerUnlessRecovered`), `clobbered` and `errors > 0` (together `Mishap`, in
`FiresOnceUnlessClobbered` and `SettledNeverFires`), `crossed` (`OneQuery`, `NothingLost`,
`ToldOnce`), `cleared` (`NothingLost`). The qualification is part of the result. It says
which single mechanism the promise of the code depends on: outside it the property holds
under every interleaving, inside it the behaviours listed below under "Disagreements of
code and comments" break it.

**Why the bounds are enough.** In membrain few records interact in one step: a revision
relates two sources and a result, a cascade a deleted record and the ones that
point at it, a distilled record its episodes. With three ids `consolidation`
has an episode with two facts or two plan graphs, and two episodes with a
competence; a second competence for the same pattern would need a fourth
record and is not covered (the index it depends on is the same code path in
the model as the one for facts). A stale write needs one reader and one writer.
Two daemons are enough to break each other's sweep off, two
workers to fight over a claim, two sessions to conflict. One outside error per
behaviour can hit any step; what follows an error is a state (idle, claims
left) that does not remember how many there were. `MaxSalience` is 1 where
only "faded or not" matters and 2 where a salience must be able to fall and
stay positive.

In Clawd Code three calls give every pattern of the executor: one that runs, one that
waits for it, one that is behind both; two attempts leave one executor discarded. A race
for the lock needs two sessions, a resumed one a crash. In `cron` there is one task, since
tasks meet only in the file, which `cron_fires` covers with two; it has one session because
`cron` shows when there is one owner. Two tasks of `tasks` can block each other, and a call that meets
another meets it with a third to see the result; two agents are enough for each of the
locks. In `prompts` a turn, one that replaces it and one that is queued behind are three
commands. Larger instances (four commands, four calls of a task list, three sessions) are
beyond the five minutes a run may take.

**Fairness.** membrain: `SchedulerFairness`: each scheduler goroutine keeps taking steps
and its ticker keeps ticking (weak fairness of `SweepNext(d)` and `RunNext(d)`; the loop of
`decay/scheduler.go:48-69` ends only at shutdown or a panic). Nothing is assumed of
clients. `ExtractionFairSpec` adds weak fairness of `Expire`: an hour passes.

Clawd Code: in `ToolExecutor` tools end and the event loop runs what is due, *unless* the
query loop spins without leaving the microtasks (`EventLoopFree`), because then no input
or output arrives. In `Cron` the timers (`setInterval` of check and of the lock probe)
and the operations of a live process go on; that sessions start, stop or
crash is up to the user, and so are edits. In `TaskList` a call that was made goes on; the
retries of the file lock are assumed to outlast the calls of others. In `Prompts` the
effect of the queue runs, input is processed and a query ends; that the user submits or
cancels is not assumed. No action is strongly fair.

Deadlock is checked in `sweep`, `consolidation`, `extraction` and `extractor`, where
schedulers never rest; elsewhere a behaviour ends when ids, calls or commands are used up:
a session without input is idle for good.

## Disagreements of code and comments

None of these is spent a run of its own; the modules show them, most of them as the
qualification of a property.

membrain:

* `ingestion/ingestion.go:328-330` "appends an audit entry, and persists the update":
  Update does not write `audit_log`; the entry of IngestOutcome is lost.
* `revision/supersede.go:43` "also record the superseded-by link": the id is assigned
  after the link is written, so a draft without an id leaves an empty link.
* `revision/revision.go:23` "partial revisions are never externally visible": Get is
  several queries outside a transaction (`GetRecord` in `RevisionTx`).
* `consolidation/consolidation.go:43-45` "will be retried later": a skipped episode is
  marked as extracted.
* `decay/decay.go:174` "Prune deletes records whose salience has dropped to
  their floor": `SweepPrune` deletes by the list of `SweepList`, so a record
  that `Reinforce` raised in between is deleted with a full salience.
* `consolidation/semantic.go:18` "the existing record is reinforced":
  `RunReinforce` writes the salience of the listing, raised, and can lower a record
  that was reinforced since.
* `decay/decay.go:116` "reduces a record's salience ... floored at MinSalience":
  `Penalize` raises a retracted record (salience 0) to its floor.
* `schema/lifecycle.go:16` "When true, salience will not decrease over time":
  `RunCompress` does not look at `pinned`.
* `revision/retract.go:11` "without deleting it, preserving auditability": a
  retracted record has salience 0 and is `Prunable` at once.
* `consolidation/plangraph.go:47` "to avoid creating duplicates": with
  `MaxMisses = 1` an error of GetRelations, which the code swallows, lets
  `RunIndexPlans` plan an episode again.

Tool executor (`services/tools/StreamingToolExecutor.ts`, `query.ts`):

* `:38` "Results are buffered and emitted in the order tools were received": among calls
  that run together `getCompletedResults` yields whichever is completed; only an exclusive
  call that executes holds back what is behind it (`Stopovers`).
* `:37` "Non-concurrent tools must execute alone": each attempt has an executor of its
  own, so an exclusive call of a discarded one runs beside those of the next. The contract
  therefore speaks of the calls of one *response*.
* `:465-484`: a call of an unknown tool is completed at once without a place in the queue,
  and getRemainingResults can spin on it without leaving the microtasks; `EventLoopFree`
  is why `RemainingEnds` is checked for known tools.
* `getUpdatedContext` is never called: the context modifiers of the tools that run while
  the response streams reach the next turn only if something is yielded afterwards.
* Calls that arrive after an abort are not tracked and get their answer elsewhere;
  calls that were queued when the stream failed still start.

Cron (`utils/cronTasksLock.ts`, `utils/cronScheduler.ts`):

* `cronTasksLock.ts:109` "only one create succeeds": a lock that is read half written, or
  found stale by two sessions one after the other, is unlinked although its new owner is
  alive. `OneOwner` without `recovered` fails.
* The answer of CronCreate, "It will fire once then auto-delete": when two tasks fall due
  in one tick, their removals overlap on the file and the one that lands last puts the
  other task back; likewise an operation that reads the file while another has truncated
  it. A removal that fails leaves the task to fire at every tick of the process, and one
  that lands just before a tick fires the task again at that tick, since it is no longer in
  flight and not yet off the list. A crash between the fire and the removal fires again
  after the restart.
* A deleted task fires at the tick before the reload: CronDelete writes the file at any
  moment and touches nothing in memory, the watcher waits 300 ms, `check` looks every
  second at what was loaded before. `SettledNeverFires` therefore speaks of sessions that are
  `UpToDate`; without that its half on deleted tasks fails.
* A deleted task comes back if a stamp of `markCronTasksFired` that read the file before
  lands after. A created one is lost to an overlapping write.
* `cronTasks.ts:95-100` returns no tasks when the read fails. addCronTask then overwrites the
  file with the new task alone, removeCronTasks finds nothing to remove and CronDelete
  reports success, and a load empties the list of the session, which runs nothing until the
  file changes again. A first load that meets a truncated file is the same. Changes
  between the first load and the watcher's being ready are not seen either.
* A session that is not the owner loads with `load(true)`, surfaces missed tasks and
  removes them; and its ticks forget the guard (`Infinity`) that keeps them from firing.
  An owner that is busy with a query lets a task become overdue: a session that
  starts meanwhile asks about it, although the owner still fires it. `SettledNeverFires`
  fails with two sessions.
* `stop` releases the lock while removals of fired tasks are still under way.

Task list (`utils/tasks.ts`, `hooks/useTasksV2.ts`):

* `:400` "prevent ID reuse": deleteTask takes no lock, so a high water mark can be written
  back lower than it was, or read while it is being written (empty, so 0), and an id be given
  twice.
* A reset removes the files one after the other: an update that writes one it has just
  removed brings that task through the reset.
* An update or claim of a task that is deleted or reset meanwhile writes the file anew;
  claimTask reports success for a task that has vanished (`:597-600`).
* A blocker whose file is being written is not in the listing of a claim, which therefore
  does not wait for it.
* The hide timer (`useTasksV2.ts:160`) looks at the tasks outside the lock and clears a
  task that was created since.
* An update merges the fields it is given into the task as it reads it under the lock, but the
  fields themselves come from copies read before the lock (`:463-483` and the callers):
  TaskUpdate decides on the owner without a lock, so that starting a task can override
  a claim. unassignTeammateTasks reopens what was completed or claimed since its listing.
  blockTask, and deleteTask for the references, write whole lists from stale copies and
  lose blocks. `UpdatesMerge` is about the other fields only.

Turns (`utils/handlePromptSubmit.ts`, `screens/REPL.tsx`, `query.ts`):

* `handlePromptSubmit.ts:417` and `:431-437` promise one executeUserInput at a time: the
  `finally` at `:597-603` of a turn that was cancelled releases the reservation the next
  one has made (`crossed`), and two run.
* A cancelled turn can take over another's reservation in tryStart; the controller of a
  running turn is disarmed by the end of a stale local command (`REPL.tsx:2743`), so
  escape does not reach it.
* `messageQueueManager.ts:320` "Used by ESC cancellation to discard queued notifications":
  clearCommandQueue throws away the whole queue, and it is not the escape key that calls it but
  the killing of the agents (`useCancelRequest.ts:249`). What the user had queued is neither
  answered nor given back to the prompt (`cleared`).
* A prompt the program wrote is dropped when onQuery finds the guard running
  (`REPL.tsx:2870-2885`); what the user wrote is put back, without its mode.
* A turn that takes several queued prompts queries or not as the first one says
  (`handlePromptSubmit.ts:526`): when a hook stops the first, the others are written to the
  transcript and get no answer of their own.
* `query.ts:1570` takes the snapshot of queued commands and `:1642` removes them; a cancel
  in between has them told twice.
* `queueProcessor.ts` "FIFO within same priority": equal modes are batched past slash
  commands that were queued in between.

**Hazards without a property of their own.** Besides those that `PROJECT.json` marks as
uncovered: a Create outside a transaction that fails midway (`storage/sqlite/sqlite.go:80`);
reinforcement from a listing's salience (`consolidation/semantic.go:88`); relations that
cannot be read (`consolidation/plangraph.go:59`); a panic and a double Stop of a scheduler
(`decay/scheduler.go`); extractors that retake each other's claims for ever
(`storage/postgres/postgres.go:922`); contesting a retracted record
(`revision/contest.go:24`); the order of shutdown (`src/membrain/cmd/membraned/main.go:104`);
the eviction of rate limits (`src/membrain/api/grpc/server.go:232`); the loss of context modifiers
(`query.ts:851`); `stop` before a pending removal (`utils/cronScheduler.ts:517`); stale
listings of `unassignTeammateTasks` (`utils/tasks.ts:818`).

## Proofs

`tlapm` checks every theorem for all values of the constants, from the
assumptions beside their declarations only: `NoId` and the like are not ids, `NoOne` is
not an agent, a torn file not a task, `None` is not a lock, kinds of call are what their names say,
`MaxSalience` is a positive number, bounds are numbers, drafts and ingested records are
records of the shape the code accepts. Every one of them is also evaluated by TLC in the
runs. None of the safety theorems uses fairness, and besides these and its specification
only five have a hypothesis, each of which the run of the property satisfies:

* the two on distinct knowledge: `OnlyConsolidator` and
  `OnlyExtractor` say that one daemon alone creates it, and no client. Two of them do create
  the same fact, each from an index without the other's
  (`src/membrain/pkg/consolidation/semantic.go:112`), and an index that cannot be read
  (`MaxMisses`) lets one daemon do it too (runs `consolidation` and `extractor`);
* the three on what the scheduler fires assume `Timely`, the behaviours in which a session
  loads what its own ticks have removed before the next one (above; it is the order of 300 ms
  and a second, and what happens when a slow disk breaks it is among the disagreements), and
  `SettledStay` also `OneSession`: with two, a session that starts while the owner is late
  asks about a task the owner then fires (run `cron_fires` has one session for that reason).

`PROJECT.json` lists the theorems with the property each one states.

Two habits run through the proofs. A property is rarely inductive, and what has to be
added is always the same kind of fact: what an actor *carries* between two steps (a
listing, a copy, a place in a call) still fits the shared state. And what a step may do is
said once, as a relation between two states (`Grown`, `LinkStep`, `MoveStep`, `CallsStep`,
`LocksOf`); a lemma per action shows that it is such a step, and one lemma that such a step keeps
the invariant.

### membrain

* `MembrainProofs!TypeCorrect`: `Spec => []TypeOK`. By a lemma per operator of
  the store and of each service, then one lemma per service.
* `AuditGrows`, `ContentStays`, `DeletionFinal`,
  `ProtectionHolds`. None of these is inductive, because a step may write or delete what an
  earlier step remembered. The strengthening is `Agree` (in `ServiceProofs`): every record lives
  under a used id (`UsedCovers`); what a pending IngestOutcome will write back
  agrees in content with the stored record, *if it is still there*
  (`PendingAgrees`); what a sweep will delete is gone or unprotected
  (`PruneListed`). The argument: `Grown(s, t, N)` says that outside the new ids `N` the
  store `t` is `s` with longer logs, the same contents, and only unprotected
  records missing. Every store call is growth, growth composes, so every service
  `Evolves` the store; and growth keeps `Agree`, since a record that has not
  changed its content or protection still agrees with a copy or a list.
  The four theorems are then read off one step.
* `RevisionIsAudited`, `EvidenceHolds`, `EpisodesUnrevised`. Inductive with
  `RowsOK` (facts about a row: for an episode, that its log has no entry of a revision and
  that nothing contests it) and `PendingUnrevised` (what a late
  IngestOutcome writes back is an unrevised episode, so it cannot undo the trace
  of a revision).
* `RelationsStand`, `SupersessionsStand`. A deletion cascades to the relations that lead to
  the record, so targets exist in every state; the difficulty is a stale
  copy, which IngestOutcome writes back with the relations it has read. The invariant `Linked`
  says what holds the links together: a record is named as superseding another only by
  one that lists it, the superseded one says in its log that it was revised, and an
  episode that supersedes something has no other relation (`LinksOK`); and a
  pending copy supersedes the same existing records as the row it
  will replace (`PendingLinks`). The last part survives because no step gives a
  stored record a new "supersedes" (`LinkStep`): only a new record, which nobody has
  a copy of, comes with one.
* `RevisionTxProofs`: `RevisionsAreAtomic` (`TxSpec => AtomicRevisions`, a refinement: the
  committed rows take the steps of module `Revision` and those of the other services).
  The invariant `TxsOK` says of every open transaction that it holds the statements
  one revision consists of on the rows of its snapshot (`Ours`), that a record which still
  stands has the type it had there, and that the id it will insert is unused and nobody
  else's (`Fits`). It survives what others commit because no step changes the type of
  a record or brings a deleted one back (`StoreStep`). At the commit (`CommitRevises`),
  serializability gives the rows to be rewritten as they were read, so the guards of the
  revision hold on the store of *now*; and its statements, one
  after the other, are the revision (`SupersedeAfter` ... `MergeAfter`). A merge
  has two statements for each of its sources and so goes by phases: the sources marked
  so far (`Marked`), then those with a log entry (`Logged`). A fork rewrites no row,
  hence nothing says its source is as it was read; its guard asks only
  for the type.
* `RevisionsExplained` (`RevisionExplained`): the log is the last of the five tables that
  GetRecord queries, and it only grows. So from the query of the status on, the log
  of the record explains that status (`Explained`), and the last query finds it. Read in the
  other order the invariant breaks, as the run's mutant shows.
* `OneConsolidatorNoDuplicates` (`OnlyConsolidator => (Spec => []KnowledgeDistinct)`): a stage of
  a consolidation looks into an index that it made when it began. `RunKnows` says that as
  long as the stage works its index names every record of its type there is; `OriginsKept`
  that no step makes a stored record one that is derived from an episode it was not
  derived from before (what a late IngestOutcome writes back is an episode); and `NoMore` that
  nobody else adds a record of a type of knowledge. The stage of plans has no such index of
  sources: it lists the episodes without a plan first, and its items are distinct.
* `ExtractionProofs`: `QueueTypeCorrect`, `ClaimsExclude`, `ExtractedForGood`. A row of
  the queue does not name its worker, so a claim excludes others only as long as nobody
  else resets it. The strengthening `HeldTracked` says that an episode in a
  worker's hand is still claimed, or was freed as stale (`expired`), or is
  deleted, and that the one under way is not also among the ones to come. So a new
  claim, which takes unclaimed rows of existing episodes, meets another worker
  only at an episode that was freed; and a release or a mark, which changes the row of an
  episode its worker lets go, cannot make another worker's claim untracked
  unless that was freed before. Deleted episodes do not come back because
  ids are fresh, which is `Evolves` again. `OneWorkerWritesOnce`
  (`OnlyExtractor => (ExtractionSpec => []TriplesDistinct)`): what the worker has looked for and not
  found is still not there when it writes it (`Searched`).

### Clawd Code

* `ToolExecutorProofs`: `AnsweredOnce`, `AllReported`, `AbortStopsWork` and the refinement
  `ImplementsSchedule` (`Spec => Schedule!Spec`). The executor promises that
  calls leave the queue in turn, although a loop suspended behind a call never looks again at
  what it has passed. `ExecutorInv` says why it need not: within an executor, whatever
  stands before a call that has left the queue has left it too (`InOrder`), and a loop goes on
  only behind a call that has left (`LoopsBehind`). It is kept because a queued call
  that may not start ends the loop, or may not start beside anything
  that runs later either. `CallOK` ties the status the
  code keeps to the stage of the tool's generator and to the number of answers; `CallsStep`
  says how the calls of all executors may change in one step and maps such a step to one of
  `ToolSchedule` or a stutter. The schedule has no fairness, so nothing remains to show.
* `CronProofs`: `OneRunsTheTasks`. A session checks the lock, unlinks it and writes it in
  separate operations. `NamedInLock` says that as long as nothing was recovered
  as stale, a session that owns the tasks, has won, or is about to write or unlink finds
  its own id in the file; two such sessions would both be named there. That crashes
  and stops are counted by `MaxExits` makes the process numbers fit (`ExitsBounded`). The
  steps on the task file have only to leave the lock alone (`FileInv` is their type).
* `FiresOnce` (`FiresOnceUnlessClobbered`), for any number of sessions, and
  `DeletedNeverFire`. A job that removes tasks, stamps them or adds one works on the file as
  it read it, and readers may meet a file that is empty because a job has truncated it.
  `Gone` says of a task that it is neither in the file nor in anything about to be written. That
  stays so unless `clobbered`: a job that still has the task from its read
  finds, as it truncates, a file other than the one it read. `Apart` says
  that no task is at once in the file and in a pending write, `RemovedIsGone` and
  `DeletedIsGone` when a removal has come that far. What a tick fires is `loaded`, which is
  the file as soon as no change waits for its load (`LoadsFit`). What has fired
  is gone, on its way there, or due later (`Spent`). What a tick has fired for the last time is
  kept in `retired` until its session forgets it (`Forgotten`), and since `Timely` has it off
  the list before the next tick, that tick cannot find it there.
* `SettledStay` (`SettledNeverFires`), for one session and its successors after a crash: a
  missed task is asked about in the first load and held back in the same step, but
  a crash forgets that. The load after the crash must find it missed again: all contents that
  are held agree on its creation (`SameBirth`), which was too long ago (`AskedOld`). So it is held back
  or gone (`AskedHeld`).
* `TaskListProofs`: `UpdatesNeverLost` (`UpdatesMerge`). An update reads the task under its
  lock and writes under it, so what it merges into could be old, or a second writer at work,
  only if somebody wrote the file without that lock, or two held it. `LocksHeld` says that whoever is past the lock
  of an update, or of a claim, holds it, and `OnePlace` that an agent in an update is in
  no other place of its call, so that nothing else it does can free the lock. The one writer
  without the task's lock is createTask: it holds the lock of the list instead. But
  an id that is filled for the first time cannot have been read (`FillsAlone`), and no file
  or update of an id exists before it is given (`NewUnused`). An id that is given twice is
  the case the property excludes. Deletion needs no lock in this argument: it only takes
  files away.
* `LocksReturned` (`TypeOK`): an agent holds a lock *iff* it is in a place of its call that needs it
  (`AgentFits`), so that no early return, exception or kill keeps one. Each call has
  its places (`Places`) and what it knows there (`CallFits`); the lists of updates a call
  works through come from a listing in the order of ids, which is where the recursive
  function `InOrder` comes in (below).
* `IdsStayDistinct` (`IdsNeverReused`): the next id is one above the files and the mark, read one after
  the other. `Numbered` says that as long as no two calls have met that no lock keeps apart,
  an id that was given is remembered, by the mark or by a file that is not below it
  (`Remembered`), and that a call between its reads and its write has counted every such id
  (`NumberFits`): a create that has listed the files but not the mark, a delete or a reset that has
  yet to raise it. Between truncating the mark and writing it the number is in no mark at
  all; then the file that the call has counted is still there.
* `ClaimedByOne` (`ClaimedOnce`): a task's claimant owns it in the file and in every copy that an
  update will write (`ClaimFits`), and an update that sets an owner sets none but its own
  where there is no other claimant (`OwnerFits`). A claim has looked at the owner under the lock
  it still holds; a start or an unassignment decides from an older copy, and meets
  a claim only where `raced` says so (`KeptApart`).
* `BlocksMatch` (`BlocksAgree`): when all calls are over both sides of a link agree, although a call
  writes the two files one after the other. What they agree with in between is one relation
  between the tasks that have a file (`LinksAre`): every content that can be read, every copy an
  update is about to write and the task a create is about to fill show it (`Shows`), except in the
  fields that somebody is still going to set (`ToSet`), and what these are set to shows it
  too. blockTask adds its pair when it has read both tasks; deleteTask takes the pairs of
  its task out with the file, and the references to it are excused (`Dangling`) until
  the listing has made an update of each. While a reset clears the list file after file
  the relation says nothing (`Clearing`); it has listed whatever is still there
  (`ListedToClear`), so nothing of what it said is left at the end. The calls that link tasks are alone unless
  there is an `overlap` (`LinksAlone`), which makes the listing complete, provided it can read
  every file: a torn one is being written by somebody (`TornInv`), as long as nobody was killed.
* `PromptsProofs`: `GuardHolds` (`GuardAgrees`). A turn ends its query by comparing the
  guard's generation with its own, so the guard agrees with the turns only if no two
  turns that still query have the same generation and none is ahead of the guard's
  (`GenerationsDistinct`). tryStart increments the generation as it hands it out,
  and forceEnd increments it as it takes the query away, so that the cancelled turn's own
  end finds it changed. A reservation is left only when its turn leaves its input, which is
  the second half.
* `CommandsInOnePlace`, `OneQueryAtATime`, `CommandsKept`, `CommandsToldOnce`. `Placed` says
  that a command waits in the queue or in the hands of one turn, once, and that what has
  been told is nowhere to be told again; `InControl` that a turn nobody has aborted has the
  controller and the guard. The one command in two places at a time is what a query
  attaches: it stays in the queue until its removal, under the identifier by which it is removed.
  That nobody else takes it in between follows from `InControl`, since only an idle session
  starts a turn, and this is where `crossed` and aborted turns are let off.
  `NothingLost` is inductive beside these. It lets off what was in the queue when the agents were
  killed (`cleared`), whoever wrote it, and what `crossed` covers.

**Recursion.** Three operators of the models are recursive functions: `InOrder` of `TaskList`,
`Only` of `CommandQueue` (the part of a queue with given members, in order) and `After` of
`RevisionTx` (statements one after the other). What they
compute for every input would be an induction over data, and the induction
theorems of the library cannot be instantiated here. The proofs get what they need from
well-foundedness instead: were some length a counterexample there would be a least one
(`WFMin`, `NatLessThanWellFounded`), and the equation of the function refutes it. That the
function exists at all is shown in the same way, from the sets of its graphs up to each
length (`IsListing`, `IsUpTo`, `CourseExists`).

**Only model-checked.** Liveness (`FadedIsPruned`, `EpisodesExtracted`, `RemainingEnds`,
`DueIsHandled`, `CallsEnd`, `QueueDrains`) is beyond the prover. Every invariant and
every action property that a run checks is stated by a theorem.


## Assumptions and what is not modelled

membrain:

* In the composed system Get and List see one state. That Get may not is the
  subject of `RevisionTx`; what a torn copy does to the services
  that use it is not followed up.
* Client-chosen ids are never reused and never collide with a uuid.
* Create outside a transaction is one step, although it is several statements.
* Confidence, scope, tags, sensitivity, embeddings and performance statistics
  are left out: nothing modelled decides by them.
* The classifier and the policy engine appear as the records they produce.
* Retrieval, the gRPC server, Start and Stop.

Clawd Code:

* A file operation is atomic except for writing, which truncates first. The
  operating system does not reorder operations on one file.
* `ToolExecutor`: hooks, permission dialogs and the contents of messages are part of "the
  tool runs"; compaction and the stop hooks of the loop are left out.
* `Cron`: session-only tasks, the unlink event of the watcher, the kill switch, jitter.
* `TaskList`: claimTaskWithBusyCheck, which nothing calls; an owner set by hand; the list
  watcher; metadata and hooks. A killed agent's locks are stale at once.
* `Prompts`: effects run from React's scheduler, so that the end of a query and the
  `finally` behind it are one step; state that was set is considered rendered. The
  priority "now", which only `cli/print.ts` uses, local JSX commands and remote sessions
  are left out. A prompt that a UserPromptSubmit hook stops is one whose turn ends with its
  input (`AnswersLocally`). A slash command may put the next input into the queue (`Chains`);
  one that also queries is left out; no command in the repository passes a next input.
* The mailboxes of teammates, permissions, session storage, background tasks, MCP, bridge
  and compaction, and the programs besides these two: see `PROJECT.json`.

## Plan

Done: the modules above. What would come next, in this order:

1. Session storage of Clawd Code: the write queue of transcripts and the chain of
   parents that is rebuilt on resume; the mailboxes of teammates.
2. `StoreStatements`: Create and Update of membrain outside a transaction, statement by
   statement, with a failure after each; refines `RecordStore` when nothing fails.
3. `Lifecycle`: stop channels of the schedulers and the order of shutdown in
   `src/membrain/cmd/membraned/main.go`; `RateLimiter`; `Retrieval` as operators against a
   reference definition.
4. Proofs: what is listed under "Only model-checked".
5. The scheduler of recurring runs of Clawd Grok; order and quote state of the perps agent.
