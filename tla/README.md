# GH-Pipeline: models, checks and proofs

TLA+ specifications of the GitHub-Issue-to-Implementation pipeline (`src/src`).
The pipeline turns an issue into an approved plan (the Planner, behind a
FastAPI server), turns the plan into tickets with one isolated Git worktree
each (Chief), and supervises one provider CLI per worktree until Chief has
accepted or rejected its result.

## 1. Inventory

Paths are relative to `src/src`.

| Component | State it keeps | Operations | What is hard | What makes it correct |
|---|---|---|---|---|
| Chief delegation: `agents/chief.py`, `chief_cli.py`, `api/chief_service.py` | none of its own but `_chiefs` of the API process | `accept_planner_handoff`, `create_tasks_from_handoff`, `delegate_tasks`, `retry_task`, `assign_task` | effects in three stores without a common transaction; sessions race without a lock; any call may fail | one base commit per run, one builder per worktree, no row that promises what is not there, resumable |
| State store: `agents/state_store.py` | SQLite tables runs, tasks, planner_handoffs, workers, queue_entries, worker_results, events; a schema version, a backup file | one transaction per call, upserts except `create_run`; `initialize` before each of them | lookups by half of a key, events next to rows; several processes upgrade at once and die in between | rows and events agree, a stored assignment is stable; an operation finds its schema, nothing old is changed before a copy of it was made |
| Worktree manager: `agents/worktrees.py` | Git branches and worktrees | `create_assignment` | check and `git worktree add` are two steps without a lock; the cleanup of a failed add removes whatever directory is there by then, another session's too, and keeps the branch | a worktree belongs to one worker and starts from the base commit; a slot is built once |
| Worker queue: `agents/worker_queue.py` | two append-only Markdown files per worker | `enqueue`, `append` | check, then append, without a lock; file, file, row | an id occurs once; Chief's file covers the worker's |
| Tickets: `agents/to_tickets.py` | none (pure) | `tasks_from_handoff` | step numbering | one ticket per step, in order |
| Skill catalog: `agents/skill_catalog.py` | context directories | `prepare_subagent_context` | several files, may raise half-way | context is there before the worker is recorded |
| Skill trace gate: `agents/worker_protocol.py` | none (pure) | `SkillTraceGate.check` | repeated phases, numbering by others | accepts exactly the routes that were followed |
| Runtime tools: `agents/tools/runtime_tools.py` | traces and audit events of one tool server | `record_skill_trace`, `apply_file_patch`, `run_check`, `git_commit` | threads between a comparison of hashes and the patch; status, add, commit and rev-parse as four commands; processes that outlive a check | no edit is lost, a commit holds what was judged, every call returns |
| Worker lifecycle: `agents/lifecycle.py` | `_active`: worker -> process | `start`, `stop`, `wait`, `recoverable_assignments` | timeouts against late answers, exceptions between steps, crashes | accepts only clean ends, loses no process, always ends |
| Providers: `agents/providers.py` | one process group, two log files | `start`, `poll`, `wait`, `stop` | processes outlive Chief and their leader; pids are reused; deadlines against late exits | a wait returns, a signal hits the own group only, a timeout asks before it kills, an output is the execution's own |
| Acceptance and report: `agents/chief.py` | rows and events | `accept_worker_result`, `integration_report` | row and decision are two transactions; the report judges again | the report lists what was accepted |
| Planner workflow: `agents/graph/*`, `issue_analyst.py`, `repo_explorer.py`, `implementer.py` | LangGraph checkpoint in memory | four nodes, one interrupt | resume after an interrupt, failing model calls | a plan is decided once, a revision uses its feedback |
| Run service and API: `api/service.py`, `api/routes.py` | `_known_threads`, one lock per thread | `start_run`, `get_run`, `submit_plan_decision`, `create_handoff` | coroutines interleave at awaits | approval is final, every request is answered |
| Handoff builder: `agents/handoff.py` | none | `build_planner_handoff` | reads the state without the lock | only an approved plan leaves |
| Exploration tools, prompts: `agents/tools/{repository,github,python}_tools.py`, `agents/shared.py` | none | read-only | - | not modelled |

Interactions. The Planner's handoff artifact is the only thing that crosses
from the API's run service to Chief. Chief writes the state store, Git and the
queue and context files; the lifecycle manager reads assignments from Chief and
calls `accept_worker_result`; a provider communicates with its supervisor
through its exit code and `.chief-worker/result.json` alone.

## 2. Modules

| Module | Models |
|---|---|
| `SlotLedger` | abstract: what becomes of a worker slot |
| `ChiefDelegation` | handoff, delegation and retry over the three stores; implements `SlotLedger` |
| `ChiefDelegationProofs` | its theorems |
| `StoreUpgrade` | `ChiefStateStore.initialize` by several processes |
| `StoreUpgradeProofs` | its theorems |
| `WorkerProtocol` | the gate, as operators on results and assignments |
| `SkillTraces` | how a trace comes about, and what the gate says of it |
| `SkillTracesProofs` | its theorems |
| `WorkerSupervision` | lifecycle manager, provider processes, acceptance, report; uses `WorkerProtocol` |
| `WorkerSupervisionProofs` | its theorems |
| `ProviderContract` | abstract: what a supervisor may rely on about its providers; implemented by `WorkerSupervision` and by `ProviderProcess` |
| `ProviderProcess` | the process group and the log files behind one worker slot |
| `ProviderProcessProofs` | its theorems |
| `PlanReview` | abstract: what a reviewer is promised |
| `PlannerRun` | the planner's graph under the run service; implements `PlanReview` |
| `PlannerRunProofs` | its theorems, the refinement among them |
| `AtomicEdits` | abstract: a patch is compared and written in one step |
| `RuntimeTools` | patches, checks and commits of one tool server in one worktree; implements `AtomicEdits` |
| `RuntimeToolsProofs` | its theorems |
| `MC*` | values of the constants for the runs |

**ChiefDelegation.** A session is a CLI process, a program that calls
`ChiefCoordinator`, or the API server (whose handlers call Chief synchronously,
so it is one session). `pc` names the statement a session executes next, `job`
its command and loop variables; every action is one durable effect: a SQLite
transaction, a Git command, the writing of one context directory, an append to
one queue file. Sessions interleave, fail (`Fail`) and restart (`ApiRestart`)
between any two. An event written in the transaction of its row is represented
by that row. `create_assignment` is three steps without a lock: the check of the
path (`CheckWorktree`), `git worktree add -b` (`AddWorktree`, or
`AddWorktreeFails` with the branch or all of it left), and, when that failed, the
forced removal of the directory (`RemoveWorktree`). So a session that has found no
directory and then loses the race removes the winner's worktree with its context
and queue files, wherever the winner is by then; the branch stays. `removed`
remembers these slots. A builder that goes on may make a part of the directory
again, which Git does not know (`DirectoryExists`).

**SlotLedger.** A slot is a run and a worker number. It is free, being built
by one session, recorded, queued, or orphaned: its builder gave up before the
worker row was written. Sessions that have found it without a worktree
(`Contend`) are rivals; one may `Claim` it, and one that does not get it leaves it
with `Withdraw`, which may take the worktree of the winner away at any stage. A
`git worktree add` that fails but leaves its branch behind is `Spoil`.
`ChiefDelegation!StageOf` reads the stage off Git, the workers table and the queue
table; `RivalsFor` and `BuilderOf` are the sessions whose `pc` is before the claim
or the removal, and inside `assign_task`, for the slot. The ledger says what the
statements add up to: one builder per slot, no second claim, one base commit per
run, no way back from `orphaned`, and no loss of a worktree but to a rival.

**StoreUpgrade.** Every connection initializes, so `Open`, `Connect`,
`CheckVersion`, `BeginCopy`, `EndCopy`, `CreateTable`, `Stamp` and `Use` are the
statements in front of any operation of the store. A database is a version and
a set of tables; `found` is the one that was there at first, possibly none, old,
partly created or newer. `shutil.copy2` takes two steps: a copy is whole only if
the database did not change between them (`Broken` stands for any other file).
All processes copy to one `.bak`: where two copies overlap (`alone` is FALSE), each
may leave the whole file or a broken one. `copies` is the history of the copies
that returned.
`executescript` commits statement by statement, so a process can die between
two tables.

**WorkerProtocol / SkillTraces.** A stage is a `<<skill, phase>>` pair. The
gate's dict comprehension keeps the last completed entry of a stage
(`LastCompletedAt`); both comparisons with `sorted` are non-strict.

**WorkerSupervision.** A `Cli` session executes `chief run` and dies of any
exception; a `Library` session calls the manager's operations in any order and
may catch what they raise. `process` is the history of all provider processes;
`resultFile[w]` remembers which process wrote it. Events carry the process they
are about. Every `chief run` is a process of its own: a session that begins again
owns none of the providers it started before (`Begin` disowns them, as the end of
a session does). `judged` is the history of the providers whose end led to a
recorded result. `integration_report` and `recoverable_assignments` are operators on
the tables.

**ProviderProcess.** `WorkerSupervision` takes a provider for one process; this
module opens it up. A launch has a leader (`running`, `killed`, `zombie`,
`reaped`) and a set of kinds of other members of its group: `unasked`, `asked`
(got SIGTERM), `late` (forked after it). `Managers` are Chief processes, each
with one active handle, that call `start`, `poll`, `stop` and `wait` in any
order and may die; `wait` has its three deadlines (`Expire`, `Kill`,
`LastWaitExpires`). `OwnGroup` says for how long a pid names the launch's group
and not somebody else's. `log` is the set of launches whose output stands in the
slot's two files. The kernel (fork, exit, signal delivery, reaping by init) is
external.

**ProviderContract.** A provider occupies a slot, runs or has ended, is held by
the managers that have it in `_active`, and has had reports: the execution
statuses of events, or the `WorkerExecution` a wait returned. A manager holds at
most one provider of a slot, lets go of it only when it is dead or with its own
death, and reports only on a dead one, with its end or as timed out.
`WorkerSupervision` reads this off `process`, `active` and `events`;
`ProviderProcess` reads it off leaders, handles and outcomes, where a killed
leader runs until it is a zombie. So the one process of the first module is
what the group of the second looks like to its manager. What the contract does
not promise is that the group is gone with its leader: see `TimedOutGroupAsked`
and `OutputOfThisRun`.

**PlannerRun.** One thread. `pc` says where each HTTP request is, with a step
at every `await`; `lock` is the thread's `asyncio.Lock` and its waiters, which
it serves in order. `sent` keeps, with each decision, the version of the plan
its sender was shown; the code does not transmit it, so it is only an observer.
LangGraph itself is external: the checkpoint names the next node, an interrupt
leaves the node as the next one, a node that raises leaves the checkpoint as it
was.

**PlanReview.** A plan is put up, decided once by one decision, replaced by a
new one if changes were requested; approval and cancellation end the review;
only the approved plan is handed out. `PlannerRun` implements it with `pending`
read off the checkpoint, `decisions` off the approval node, `handedOut` off the
exports.

**RuntimeTools.** A caller is a thread with one tool call at a time (a model may
ask for several in one turn). A file's content is the number of the write it
comes from, so equal hashes are equal numbers and `>=` means "that or something
newer". `git apply`, `git add`, `git commit` and `git rev-parse` are one action
each and may fail; a failing `git apply` leaves any part of its files written.
`Judge` stands for a `git_commit` whose status finds changes, all in scope; any
other ends without an effect. A check is its command and one child, either of
which may hold the output pipes, exit, or write the files of `CheckFiles` at any
time, also after the call has returned (`strays`). The ownership checks of
`WorktreeGuard` change nothing and appear as refusals.

**AtomicEdits.** A caller asks for a patch of some files with the contents it
has read; `Edit` compares all of them and writes some of them (a killed
`git apply` leaves the rest out) at once. In `RuntimeTools` the hashes are
compared one file at a time, and `git apply` runs later; both modules have the
same variables for contents, versions and patches, and the step at which
`RuntimeTools` writes is the `Edit`.

## 3. Runs

| Run | Shows | Bounds |
|---|---|---|
| `delegation_race` | the three stores agree with each other, whatever races or fails, but for a worktree that a losing session removed; every slot lives as `SlotLedger` allows | two runs of one ticket, one of them with an unusable plan, a retry of worker 1, a CLI and the API session, two base commits, one failure |
| `delegation_completes` | `delegate_tasks` returns a worker for every ticket; a user who keeps delegating gets every ticket queued, unless its slot was left half-built or its worker number went to another ticket (liveness) | one run of two tickets, a retry of worker 2 for a third sequence number, a CLI and the API session, one base commit, one failure |
| `delegation_shared_worker_ids` | violation: the second run of a workspace adopts the first one's workers | two runs, one session, no failure |
| `traces_routes` | the gate accepts exactly the followed routes; a route can be walked again from any history | traces of up to five entries, two statuses, six stages, a provider that numbers an entry 6 |
| `supervision_run` | `chief run`, repeated over failures and crashes: order of the log, dependencies, what it prints, recovery, termination | two dependent workers, three processes, one failure |
| `supervision_mixed` | the managers keep `ProviderContract`, and every recorded success is a cleanly ended provider's, also with a library program beside it that catches exceptions and a provider that reports for another worker | two workers, whose providers both report, if anything valid, the work of worker 2; no supervision begins after the first process; one failure |
| `supervision_scope` | violation: the report lists a rejected result as ready | two processes |
| `supervision_stale` | violation: the result of an earlier process is accepted | two processes |
| `planner_review` | the run is a `PlanReview`; decisions race, revise, fail; exports and a server stop in between | three decision requests, one failing model call |
| `runtime_tools` | edits are atomic (`AtomicEdits`), judged scope, complete commits, every call returns | two threads, a source file in scope and a cache file outside, checks that write both, two writes |
| `provider_group` | signals stay in the group, a timeout asks before it kills, an output is the execution's own, the group keeps `ProviderContract`, every wait ends | one manager, two launches of one slot, one failure or death of the manager |
| `store_open` | an operation finds the complete schema; an old database is copied before it changes, and only an overlapping copy can spoil that one; who insists gets in | two processes, three tables, five databases to be found, two failures |

Why these bounds are enough to be interesting: one failure is what a stop or an
exception is, and everything after it runs with whatever it left behind; two
sessions show every pair of racing statements, two base commits a handoff that
disagrees, two tickets a loop that is interrupted in its middle and a retry that
takes a later ticket's number; five trace entries are the route of four and one
repetition, interruption or stray entry; three processes are a run, its crash
and its repetition; two launches are a provider and the one that starts while
its group still lives; three decisions are a revision, the decision on the new
plan and a late one; two writes are an edit and another caller's or a check's
on top of it, and two commits in a row; three tables are a schema that can be
half created at two places, and two failures kill the process that upgrades and
the one that takes over. `MaxLaunches` bounds when a supervision may begin, not
what it does then. `MaxFaults`, `MaxFailures`, `MaxTrace`, `MaxLaunches` and
`MaxVersions` are the only bounds.

Deadlock. `delegation_*`, `runtime_tools` and `store_open` check it: a session,
thread or process that has ended can always begin again. The other modules
reach their bound on launches, trace entries or requests and stop there, so
their runs switch it off; that waits end is checked as `RunEnds`, `WaitEnds` and
`EveryRequestAnswered` instead.

Fairness.
- `ChiefDelegation!FairSpec`: a live session executes its next statement (weak
  fairness per session), and the user issues the delegate command of a handoff
  again and again (strong fairness: the command can be issued whenever some
  session is free). Beginning anything else, and failing, is never forced.
- `WorkerSupervision!FairSpec`: weak fairness of `Supervise` only. The clock of
  `Popen.wait(timeout)` runs; nothing is assumed of providers.
- `ProviderProcess!FairSpec`: weak fairness of a manager's `Proceed`: a call it
  has made goes on, and the deadlines of its waits pass. Whether a provider
  exits, forks or obeys SIGTERM is left to it.
- `StoreUpgrade!FairSpec`: a process executes its next statement. SQLite's
  own lock is inside each statement.
- `RuntimeTools!FairSpec`: weak fairness of each thread's next step, the passing
  of a check's deadline among them. Nothing is assumed of the processes of a
  check, nor of who gets the edit lock next: `threading.Lock` promises no order,
  so `CallsReturn` says that the lock is given back, not that each waiter gets it.
- `PlannerRun!FairSpec`: the event loop serves what it has accepted, and a
  model call ends, with an answer or an exception.

### What disagrees with the repository's words

`PROJECT.json` lists each with the line of the docstring, ADR or document and
what the code does.

1. The workers of a second run in one workspace are the first run's
   (`delegation_shared_worker_ids`).
2. A stop between `git worktree add` and the worker's row blocks the ticket for
   good (`Abandoned`). `TicketsSettle` names it as one of two reasons why a ticket
   is never queued; the other is that its worker number has a row for another
   ticket, of a retry or, where a workspace has several, of another run (`Taken`).
   The run `delegation_completes` has the retry; finding 1 is about the other run.
3. A rejected result is listed in a ready report (`supervision_scope`).
4. An earlier process's result file counts for the next one
   (`supervision_stale`).
5. A model call that fails in a revision leaves a thread that no request can
   continue. `IdleRunIsAnswerable` names it as the only way there.
6. The migration of the store is no transaction, and a second initialization
   overwrites the backup with the half-changed database. `BackedUpBeforeChange`
   says what does hold: before the first change a copy of the old database
   returned, and it was complete unless another process was copying to the same
   file. Where copies overlap, nothing is promised.
7. A session that loses the race for a slot removes the worktree of the session
   that won, although a cleanup is for the user to authorize.
   `RecordedWorkerPrepared` and `QueuesAgree` except the slots it happened to
   (`removed`), and say that nothing but the directory is lost: the branch, the
   rows and Chief's own files stay.

Some properties say exactly how far the code goes. `DecisionMeant`: a decision
may be applied to a plan its sender has not seen, but only once the plan it has
seen was decided. `ScopeJudged`: a file a check writes between `git status` and
`git add --all` is committed without having been judged. `OutputOfThisRun`: a
group that outlives its leader goes on writing into the log files of the next
launch, so an output may hold that of an earlier launch which was alive when the
files were opened (of later launches, which empty the files, it says nothing). `ImplementsAtomicEdits`: `git apply` killed by its timeout may leave half
a patch behind, although ADR 0008 calls the operation atomic, yet never
overwrites another caller's. Observed without a property: equal sequence numbers pass the
gate in any order; a provider may report in another worker's name, and is
accepted with it (`SuccessesAreClean` and `PrintedOutcomes` say what holds
even so); a retry may take the worker number of a later ticket, which
`delegate_tasks` then counts as done (`DelegatedCovers` says that nothing else
makes it do so); a library program that waits again after an exception forgets
that the first wait timed out; when a check's command has exited, a deadline kills none of its children.

## 4. Proofs

Each module of theorems extends the module it is about, and uses nothing but
the assumption named there on its constants: the theorems hold for every number
of runs, sessions, workers, processes, files, decisions and failures. Every
formula was checked by TLC on the small instance before it was proved. The
invariants that TLC checks are seldom inductive; what each proof adds is said
below.

### Delegation (`ChiefDelegationProofs`, from `DelegationAssumption`)

| Theorem | Property |
|---|---|
| `TypeCorrect` | `TypeOK` |
| `SharedBase` | `SharedBaseCommit`: one base commit per run |
| `OneBuilder` | `OneBuilderPerWorktree`: Git's refusal is all the mutual exclusion there is, and it is enough, even where the loser removes the winner's worktree |
| `WorkersArePrepared` | `RecordedWorkerPrepared` |
| `QueueRowsAreBacked` | `QueueRowBacked` |
| `AssignmentsAreStable` | `AssignmentStable` (action property) |
| `QueuesHaveNoDuplicates` | `NoDuplicateQueueEntry` |
| `WorkerQueuesAreCovered` | `WorkerQueueCovered` |
| `QueuePlacesAgree` | `QueuesAgree`, the conjunction of both |
| `DelegatingIsComplete` | `DelegatingHasTasks` |
| `DelegationIsComplete` | `DelegatedCovers`: one recorded worker per ticket, in order, with another ticket only after a retry that took its number |
| `OneRunIsDelegated` | `DelegatedToOwnRun` where the workspace has one run: finding 1 needs a second one |
| `ChiefKeepsTheLedger` | `ImplementsLedger`: every step is a step of `SlotLedger` or a stutter |

`BaseInv` adds to `SharedBaseCommit` what the program counters know: from
`record_handoff` on, a session's base commit is its run's, and a run's row never
changes. `BuildInv` adds that a session inside `assign_task` has created the
branch of its slot, which has no worker row until `record_worker`; that what the
calls before its `pc` wrote is there, unless the slot's worktree was removed; and
that two such sessions have different slots. A worktree may go, but its branch
never does (`BranchStays`), and `git worktree add -b` refuses an existing branch:
so a slot is entered once, and everything else follows. `QueueInv` adds that what
the unlocked check of the queue files found is still so when the session writes:
an id contains its slot, only one session builds a slot, and a removal only makes
the worker's file shorter. `TicketInv` follows the artifact and the loop
over the tickets up to `set_run_status("delegating")`, and needs only that both
stay. `CollectedInv` adds to `BuildInv` what the loop of `delegate_tasks` has
collected (`CollectedOK`: as many assignments as tickets are behind it, each
with a row) and where rows get their ticket from (`TicketOfRow`). For the refinement, `LedgerInv` adds to `BuildInv` that a slot is not in the
queue table before its entry is written; each action then contends for one slot, withdraws from it, claims, spoils, records, queues or
abandons it (`ContendStep` and its sisters), or leaves all slots alone
(`LedgerRests`). That a removal finds a rival and nobody else is where the check
of the path counts: a session that found the directory there never gets to it. Actions that leave the variables of a part
alone are dealt with once, by lemmas on framing.

### Supervision (`WorkerSupervisionProofs`, from `SupervisionAssumption`)

| Theorem | Property |
|---|---|
| `SupervisionTypes` | `TypeOK` |
| `RunningProcessesAreActive` | `RunningIsActive` |
| `OnlyCleanExitsAreAccepted` | `AcceptedAfterCleanExit` |
| `EventLogExplainsTables` | `TrailInOrder` |
| `StepsFollowTheirDependencies` | `DependenciesAccepted` |
| `PrintedOutcomesAreEarned` | `PrintedOutcomes` |
| `CompletedRowsWereEarned` | `CompletedRowsAreEarned` |
| `SuccessesWereClean` | `SuccessesAreClean`, of events and rows |
| `RestartsFindTheUnfinished` | `RestartFindsUnfinished`, if providers report in their own name (`OwnName`) |
| `SupervisionKeepsContract` | `ImplementsContract`: every step is a step of `ProviderContract` or a stutter |

`SInv` says for each session what its `pc` has established: `ActiveOK` about the
processes it started (a wait that is over has a process that does not run),
`JudgingOK` about the result it read (a `completed` one comes from a completed
execution; a decision comes after its row), `ProgressOK` that `chief run` has had
all earlier workers accepted. `Later` is what no step takes back: entries,
events, rows, the end of a process. A step of one session keeps what holds of
the others (`SessionFrame`), and what holds of itself action by action
(`OwnStep`). The events come from three places only (`NewEvents`), each of which
knows enough for `EventOK`. `OInv` sharpens `ProgressOK` for `chief run`: what was
accepted was accepted of a process the session still owns, and a new invocation
owns none. Files, reads and rows
each have one origin (`FileOrigin`, `JudgingOrigin`, `RowOrigin`); `CInv` follows a
success back through them to a claim of the worker whose process was waited for,
and `RInv` follows the worker's name the same way, and says that the process of
each recorded result was judged after its end (`judged`). For the refinement no more
than `SInv` is needed: the awaited process is in the session's table, dead and of
the current worker, when its end is reported. That steps are listed after those they depend on
(`SupervisionAssumption`) is what the plan's schema validates
(`dependencies_must_be_earlier_steps`).

### Provider processes (`ProviderProcessProofs`, from `ProcessAssumption`)

| Theorem | Property |
|---|---|
| `ProviderTypes` | `TypeOK` |
| `SignalsStayInTheGroup` | `NoStraySignal` |
| `TimeoutAsksTheGroup` | `TimedOutGroupAsked` |
| `OutputIsOwn` | `OutputOfThisRun` |
| `ProcessKeepsContract` | `ImplementsContract`: every step is a step of `ProviderContract` or a stutter |

`Held` ties a manager's `pc` to the pid it is about to signal: it is not reaped
before. `Asked` says that nothing is killed that was not asked, and `Shared` that
whoever of the earlier launches can still write into the log was there when the
next launch opened it. For the refinement, that a
leader is reported on only when `wait` has reaped it is read off `Held`;
polls, signals, deadlines and the kill of a leader that is dead already are
stutters (`CallsUnseen`). `ProcessAssumption` says of `None`, besides what keeps it
apart from launches, that it is no outcome.

### Store (`StoreUpgradeProofs`, from `UpgradeAssumption`)

| Theorem | Property |
|---|---|
| `StoreTypes` | `TypeOK` |
| `SchemaFound` | `OperationsFindSchema` |
| `BackupFirst` | `BackedUpBeforeChange` |

Databases are ordered by version and tables (`Below`), and every statement of
`initialize` goes up. So a copy during which the database did not change is a
copy of something between what was found and what is there, and a process that
is about to change an old database knows that a copy of what was found has
returned, complete unless it overlapped with another (`FoundCopied`, `Memory`).

### Planner (`PlannerRunProofs`, from `PlannerAssumption`)

| Theorem | Property |
|---|---|
| `PlannerTypes` | `TypeOK` |
| `DecisionsMeanTheirPlan` | `DecisionMeant` |
| `RevisionAnswersFeedback` | `RevisionUsesItsFeedback` |
| `OnlyFailedRevisionStrands` | `IdleRunIsAnswerable` |
| `PlannerReviews` | `ImplementsReview`: every step is a step of `PlanReview` or a stutter |

`Turns` is the lock's discipline: who is past it is the head of its queue, so one
request moves the graph. `Standing` and `Rounds` say where the checkpoint then is
and which decision the plan answers, `Moved` who moves a run that is neither over
nor waiting, `Shown` that a waiting decision's plan is pending or decided.

### Runtime tools (`RuntimeToolsProofs`, from `RuntimeToolsAssumption`)

| Theorem | Property |
|---|---|
| `TypesCorrect`, `CommitsAreCounted` | `Typed`; `TypeOK`, with the bound on the number of commits |
| `EditsAreNotLost` | `NoLostEdit` (action property) |
| `EditsAreAtomic` | `ImplementsAtomicEdits`: every step is a step of `AtomicEdits` or a stutter |
| `ReportsAreComplete` | `ReportedCommitHasChanges` |
| `ScopeIsJudged` | `ScopeJudged` (action property) |

`PatchInv` is what the loop over a patch's files has established: who is past
the lock holds it, and each file it has compared still has the expected content
or one a check wrote. It is needed because the comparison and the write are
separate steps; it is also all that `EditsAreAtomic` needs, for at `git apply` it
has been established for every file of the patch. For commits, `Ordered` says that HEAD lags behind the index and
the index behind the worktree, so that all three only move forward
(`ContentsGrow`), and `SeenInv` (`SeenBy` of each caller) follows what a status
saw from the worktree into the index and into HEAD. A file outside the scope is
unchanged at the status, hence at most HEAD then; in a commit that changes it,
it is newer. `Newer` says that what is not committed is newer than all of HEAD,
so each commit that is not empty stands for one more write.

### Skill traces (`SkillTracesProofs`, from `TraceAssumption`)

| Theorem | Property |
|---|---|
| `GateDecides` | `GateDecidesRoute`, for traces of any length |
| `HistoryNeverLocksOut` | `RouteCanBeRepeated` |

The gate looks at the last completion of each stage. That there is a last one
(`HasLast`) is kept as the trace grows, entry by entry, so no induction over
sequences is needed.

### Only model-checked

Liveness (`TicketsSettle`, `RunEnds`, `WaitEnds`, `OpensInTheEnd`,
`EveryRequestAnswered`, `CallsReturn`) is out of the prover's reach. Everything
else that a passing run checks is proved. The other way round, a few theorems
are about definitions no run lists: `NoLostEdit` and `RunningIsActive`, which say
less than `ImplementsAtomicEdits` and `ImplementsContract`; the parts of
`QueuesAgree` and `SuccessesAreClean`; and the type invariants of
`ProviderProcess` and `StoreUpgrade`, which are left to their proofs.

## 5. Not modelled

- Exploration tools and the model setup (`agents/tools/repository_tools.py`,
  `github_tools.py`, `python_tools.py`, `agents/shared.py`): they read files and
  the network for the planner's models and change no state of the system.
- Text: rendering of queue entries and tickets, prompts, logs, environments.
  What the parsers of `to_tickets` and `skill_catalog` decide is only whether
  they succeed, hence "partly".
- Deletion of `.chief` or of worktrees by the user; partially written files
  (an append is one write); a database that loses committed transactions.
- `accept_planner_handoff`'s check of the repository path: the CLI and the API
  open the workspace the handoff names, so it always holds there.
- Two tool servers in one worktree: the edit lock belongs to one Python
  process, and nothing in the code orders two of them.
- Which of several results of a worker counts: no statement of the repository
  says so. `RestartFindsUnfinished` is checked, and proved, for providers that
  report in their own name; no other theorem about the supervision needs that.
- Read-only operations (`status`, `events`, `get_run`, `git_status`,
  `git_diff`), and audit events, which no code reads.

## 6. What could follow

- A composition of delegation and supervision over one workers table: today
  `WorkerSupervision` starts where `delegate_tasks` has returned.
- Two tool servers in one worktree, and a group that outlives its leader next
  to the provider of the next run: both are beyond what the code orders, so
  only what goes wrong could be stated.
- Proofs of the liveness properties, once a prover is at hand.
