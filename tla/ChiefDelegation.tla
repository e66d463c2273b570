---------------------------- MODULE ChiefDelegation ----------------------------
(***************************************************************************)
(* Chief turns an approved Planner handoff into durable tickets, isolated  *)
(* Git worktrees and worker queue files.  The state lives in three stores  *)
(* that share no transaction: the SQLite state store (one transaction per  *)
(* call of ChiefStateStore), the Git repository, and plain files under     *)
(* .chief/ and .chief-worker/.  Every action below is one such durable     *)
(* effect, so sessions interleave, fail and die between any two of them.   *)
(*                                                                         *)
(* A session is one process that drives Chief: a `chief` command, a        *)
(* program that calls ChiefCoordinator, or the API server (session Api).   *)
(* The API handlers are `async def` functions that call Chief              *)
(* synchronously, so the server runs one request at a time: one session.   *)
(*                                                                         *)
(* An event row written in the same transaction as the row it describes is *)
(* represented by that row; `events` holds the two kinds written on their  *)
(* own.  Worker w stands for the id "worker-w", task i of run r for        *)
(* "r/step-i", and <<r, w, n>> for the queue id "r/worker-w/n".            *)
(***************************************************************************)
EXTENDS Naturals, Sequences, FiniteSets

CONSTANTS
    Runs,            \* run ids whose plans name this project workspace
    Bases,           \* commits a handoff may name as base_commit
    Sessions,        \* processes that drive Chief
    Api,             \* the session that is the API server, None without one
    Workers,         \* numbers n of the worker ids "worker-n"
    RetryWorkers,    \* the workers a caller of retry_task names
    RetrySequences,  \* the queue sequence numbers it passes
    PlanSize,        \* PlanSize[r]: number of steps of the plan of run r
    ContiguousPlans, \* runs whose plan steps are numbered 1, 2, ..., n
    MaxFaults,       \* bound on failed calls and killed processes
    None             \* no row, no directory, no command

ASSUME DelegationAssumption ==
    /\ Workers \subseteq Nat
    /\ RetryWorkers \subseteq Workers
    /\ RetrySequences \subseteq Nat
    /\ PlanSize \in [Runs -> Nat \ {0}]
    /\ \A r \in Runs : 1 .. PlanSize[r] \subseteq Workers
    /\ ContiguousPlans \subseteq Runs
    /\ Api \in Sessions \cup {None}
    /\ MaxFaults \in Nat
    /\ None \notin Bases
    /\ None \notin Runs
    /\ None \notin Sessions
    /\ None \notin [task : Nat, base : Bases]
    /\ None # "delegating"

VARIABLES
    runs,           \* runs table: base_commit of a run, or None
    status,         \* runs table: status column
    handoffs,       \* planner_handoffs table: base_commit of the artifact
    tasks,          \* tasks table: recorded <<run, task>>
    workerRow,      \* workers table: the stored assignment of a slot
    queueRows,      \* queue_entries table: recorded queue ids
    events,         \* events that no other row stands for
    branches,       \* Git: slots whose branch chief/<run>/<worker> exists
    worktree,       \* Git: base a slot's worktree was created from, or None
    removed,        \* history: slots whose worktree create_assignment removed
    chiefContext,   \* .chief/workers/<worker>/context: the run it describes
    workerContext,  \* slots whose worktree holds its context files
    chiefQueue,     \* .chief/workers/<worker>/sub_agent_queue.md
    workerQueue,    \* <worktree>/.chief-worker/sub_agent_queue.md
    pc,             \* where each session is
    job,            \* the command a session runs, with its loop index
    assigned,       \* assignments collected by delegate_tasks so far
    known,          \* ChiefApiService._chiefs: lost when the server stops
    faults          \* failures so far

dbVars   == <<runs, status, handoffs, tasks, workerRow, queueRows, events>>
gitVars  == <<branches, worktree, removed>>
fileVars == <<chiefContext, workerContext, chiefQueue, workerQueue>>
vars     == <<dbVars, gitVars, fileVars, pc, job, assigned, known, faults>>

-----------------------------------------------------------------------------
\* A worker slot: (run, worker) keys the workers table, a branch, a worktree.
Slots    == Runs \X Workers
QueueIds == Runs \X Workers \X Nat

Commands == {"handoff", "delegate", "retry"}

Jobs == [cmd : Commands, run : Runs, base : Bases \cup {None}, task : Nat,
         worker : Workers \cup {0}, seq : Nat]

\* The calls of one assign_task, in order, after create_assignment succeeded.
AssignSteps == {"chief_context", "worker_context", "context_event",
                "assign_record_task", "record_worker", "check_queue",
                "queue_chief", "queue_worker", "queue_row"}

BusySteps == AssignSteps \cup
    {"get_run", "create_run", "record_handoff", "plan_approved", "record_task",
     "set_delegating", "get_worker", "check_worktree", "add_worktree",
     "remove_worktree", "retry_get_run", "retry_event"}

\* idle: the session runs no command; returned: delegate_tasks has returned its
\* assignments.
Ready(s) == pc[s] \in {"idle", "returned"}
Busy(s)  == pc[s] \in BusySteps

Slot(s) == <<job[s].run, job[s].worker>>

QueueId(s) == <<job[s].run, job[s].worker, job[s].seq>>

\* Mutants of Goto: a call left out of the sequence.
GotoNoWorkerContext(s, step) ==
    pc' = [pc EXCEPT ![s] = IF step = "worker_context" THEN "context_event" ELSE step]
GotoNoWorkerQueue(s, step) ==
    pc' = [pc EXCEPT ![s] = IF step = "queue_worker" THEN "queue_row" ELSE step]
GotoNoTickets(s, step) ==
    pc' = [pc EXCEPT ![s] = IF step = "record_task" THEN "set_delegating" ELSE step]

\* The statement a session executes next.
Goto(s, step) == pc' = [pc EXCEPT ![s] = step]

\* The command ends with nothing to return: it raised, its process died, or
\* it was a handoff or a retry.  What it did is in the stores.
Quit(s) ==
    /\ Goto(s, "idle")
    /\ job' = [job EXCEPT ![s] = None]
    /\ assigned' = [assigned EXCEPT ![s] = <<>>]

\* It goes on, with the same ticket.
Continue(s, step) == Goto(s, step) /\ UNCHANGED <<job, assigned>>

Init ==
    /\ runs = [r \in Runs |-> None]
    /\ status = [r \in Runs |-> None]
    /\ handoffs = [r \in Runs |-> None]
    /\ tasks = {}
    /\ workerRow = [k \in Slots |-> None]
    /\ queueRows = {}
    /\ events = {}
    /\ branches = {}
    /\ worktree = [k \in Slots |-> None]
    /\ removed = {}
    /\ chiefContext = [w \in Workers |-> None]
    /\ workerContext = {}
    /\ chiefQueue = [w \in Workers |-> <<>>]
    /\ workerQueue = [k \in Slots |-> <<>>]
    /\ pc = [s \in Sessions |-> "idle"]
    /\ job = [s \in Sessions |-> None]
    /\ assigned = [s \in Sessions |-> <<>>]
    /\ known = {}
    /\ faults = 0

-----------------------------------------------------------------------------
(* Commands.  A handoff file names a run and a base commit; its plan is the *)
(* one the reviewer approved, so it is a function of the run.               *)

StartJob(s, cmd, r, b, i, w, n, step) ==
    /\ Ready(s)
    /\ job' = [job EXCEPT ![s] = [cmd |-> cmd, run |-> r, base |-> b,
                                  task |-> i, worker |-> w, seq |-> n]]
    /\ assigned' = [assigned EXCEPT ![s] = <<>>]
    /\ Goto(s, step)
    /\ UNCHANGED <<dbVars, gitVars, fileVars, known, faults>>

\* `chief handoff --file`, or POST /chief/handoffs on the API server.
BeginHandoff(s, r, b) == StartJob(s, "handoff", r, b, 1, 0, 0, "get_run")

\* `chief delegate --file`, or the first half of `chief run --file`.
BeginDelegate(s, r, b) ==
    s # Api /\ StartJob(s, "delegate", r, b, 1, 0, 0, "get_run")

\* POST /chief/runs/{run}/delegate: the run must be in this process's
\* _chiefs, and the handoff is the one stored in the database.
BeginApiDelegate(r) ==
    /\ r \in known
    /\ handoffs[r] # None
    /\ StartJob(Api, "delegate", r, handoffs[r], 1, 0, 0, "get_run")

\* retry_task, called with a recorded ticket of the run.
BeginRetry(s, r, i, w, n) ==
    /\ <<r, i>> \in tasks
    /\ StartJob(s, "retry", r, None, i, w, n, "retry_get_run")

-----------------------------------------------------------------------------
(* accept_planner_handoff and create_tasks_from_handoff                     *)

\* Mutant of GetRun: the base commit is not compared.
GetRunAnyBase(s) ==
    /\ pc[s] = "get_run"
    /\ \/ runs[job[s].run] = None /\ Goto(s, "create_run")
       \/ runs[job[s].run] # None /\ Goto(s, "record_handoff")
    /\ UNCHANGED <<dbVars, gitVars, fileVars, job, assigned, known, faults>>

\* The existing row decides which branch is taken; nothing is locked, so the
\* answer can be stale when the branch runs.
GetRun(s) ==
    /\ pc[s] = "get_run"
    /\ \/ runs[job[s].run] = None /\ Continue(s, "create_run")
       \/ runs[job[s].run] = job[s].base /\ Continue(s, "record_handoff")
       \/ runs[job[s].run] \notin {None, job[s].base} /\ Quit(s)
    /\ UNCHANGED <<dbVars, gitVars, fileVars, known, faults>>

\* Plain INSERT on the primary key run_id: an existing row raises.
CreateRun(s) ==
    /\ pc[s] = "create_run"
    /\ LET r == job[s].run IN
         \/ /\ runs[r] = None
            /\ runs' = [runs EXCEPT ![r] = job[s].base]
            /\ status' = [status EXCEPT ![r] = "created"]
            /\ Continue(s, "record_handoff")
         \/ /\ runs[r] # None
            /\ Quit(s)
            /\ UNCHANGED <<runs, status>>
    /\ UNCHANGED <<handoffs, tasks, workerRow, queueRows, events, gitVars,
                   fileVars, known, faults>>

RecordHandoff(s) ==
    /\ pc[s] = "record_handoff"
    /\ handoffs' = [handoffs EXCEPT ![job[s].run] = job[s].base]
    /\ Goto(s, "plan_approved")
    /\ UNCHANGED <<runs, status, tasks, workerRow, queueRows, events, gitVars,
                   fileVars, job, assigned, known, faults>>

\* set_run_status("plan_approved"), then tasks_from_handoff, which rejects a
\* plan whose steps are not numbered contiguously from 1.
SetPlanApproved(s) ==
    /\ pc[s] = "plan_approved"
    /\ status' = [status EXCEPT ![job[s].run] = "plan_approved"]
    /\ \/ job[s].run \in ContiguousPlans /\ Continue(s, "record_task")
       \/ job[s].run \notin ContiguousPlans /\ Quit(s)
    /\ UNCHANGED <<runs, handoffs, tasks, workerRow, queueRows, events,
                   gitVars, fileVars, known, faults>>

RecordTask(s) ==
    /\ pc[s] = "record_task"
    /\ tasks' = tasks \cup {<<job[s].run, job[s].task>>}
    /\ \/ /\ job[s].task < PlanSize[job[s].run]
          /\ job' = [job EXCEPT ![s].task = @ + 1]
          /\ UNCHANGED pc
       \/ /\ job[s].task = PlanSize[job[s].run]
          /\ Goto(s, "set_delegating")
          /\ UNCHANGED job
    /\ UNCHANGED <<runs, status, handoffs, workerRow, queueRows, events,
                   gitVars, fileVars, assigned, known, faults>>

\* Ends create_tasks_from_handoff.  Under the handoff command that is all,
\* and the API server remembers the coordinator; delegate_tasks goes on to
\* its first ticket.
SetDelegating(s) ==
    /\ pc[s] = "set_delegating"
    /\ status' = [status EXCEPT ![job[s].run] = "delegating"]
    /\ \/ /\ job[s].cmd = "handoff"
          /\ known' = IF s = Api THEN known \cup {job[s].run} ELSE known
          /\ Quit(s)
       \/ /\ job[s].cmd = "delegate"
          /\ job' = [job EXCEPT ![s].task = 1, ![s].worker = 1, ![s].seq = 1]
          /\ Goto(s, "get_worker")
          /\ UNCHANGED <<assigned, known>>
    /\ UNCHANGED <<runs, handoffs, tasks, workerRow, queueRows, events,
                   gitVars, fileVars, faults>>

-----------------------------------------------------------------------------
(* delegate_tasks and retry_task                                            *)

\* Mutant of NextTicket: one ticket too few.
NextTicketOneLess(s) ==
    \/ /\ job[s].task + 1 < PlanSize[job[s].run]
       /\ job' = [job EXCEPT ![s].task = @ + 1,
                             ![s].worker = job[s].task + 1,
                             ![s].seq = job[s].task + 1]
       /\ Goto(s, "get_worker")
    \/ job[s].task + 1 >= PlanSize[job[s].run] /\ Goto(s, "returned") /\ UNCHANGED job

\* The end of one iteration: the next ticket gets the next worker, and its
\* position is the sequence number of its queue entry.
NextTicket(s) ==
    \/ /\ job[s].task < PlanSize[job[s].run]
       /\ job' = [job EXCEPT ![s].task = @ + 1,
                             ![s].worker = job[s].task + 1,
                             ![s].seq = job[s].task + 1]
       /\ Goto(s, "get_worker")
    \/ /\ job[s].task = PlanSize[job[s].run]
       /\ Goto(s, "returned")
       /\ UNCHANGED job

\* get_worker selects on worker_id alone, although the table is keyed by
\* (run_id, worker_id), with no ORDER BY: any run's row may answer.
RowsOf(w) == {k \in Slots : k[2] = w /\ workerRow[k] # None}

GetWorker(s) ==
    /\ pc[s] = "get_worker"
    /\ \/ \E k \in RowsOf(job[s].worker) :
             /\ assigned' = [assigned EXCEPT ![s] = Append(@, k)]
             /\ NextTicket(s)
       \/ /\ RowsOf(job[s].worker) = {}
          /\ Goto(s, "check_worktree")
          /\ UNCHANGED <<job, assigned>>
    /\ UNCHANGED <<dbVars, gitVars, fileVars, known, faults>>

\* Mutant of RetryGetRun: the run's base commit is not taken over.
RetryWithoutBase(s) ==
    /\ pc[s] = "retry_get_run"
    /\ Goto(s, "check_worktree")
    /\ UNCHANGED <<dbVars, gitVars, fileVars, job, assigned, known, faults>>

\* A recorded ticket's run exists (foreign key), so the lookup succeeds.
RetryGetRun(s) ==
    /\ pc[s] = "retry_get_run"
    /\ job' = [job EXCEPT ![s].base = runs[job[s].run]]
    /\ Goto(s, "check_worktree")
    /\ UNCHANGED <<dbVars, gitVars, fileVars, assigned, known, faults>>

-----------------------------------------------------------------------------
(* WorktreeManager.create_assignment                                        *)

\* The directory of a slot is its worktree, or what was written there after
\* the worktree's removal: mkdir makes missing parents.
DirectoryExists(k) ==
    worktree[k] # None \/ k \in workerContext \/ workerQueue[k] # <<>>

\* Mutant of CheckWorktree: the directory is left for Git to refuse.
SkipWorktreeCheck(s) ==
    /\ pc[s] = "check_worktree"
    /\ Goto(s, "add_worktree")
    /\ UNCHANGED <<dbVars, gitVars, fileVars, job, assigned, known, faults>>

\* worktree_path.exists(): nothing is locked, so the answer can be stale when
\* Git is called.
CheckWorktree(s) ==
    /\ pc[s] = "check_worktree"
    /\ \/ DirectoryExists(Slot(s)) /\ Quit(s)
       \/ ~ DirectoryExists(Slot(s)) /\ Continue(s, "add_worktree")
    /\ UNCHANGED <<dbVars, gitVars, fileVars, known, faults>>

\* Mutant of AddWorktree: an existing worktree is taken over.
AddWorktreeReusing(s) ==
    /\ pc[s] = "add_worktree"
    /\ worktree' = [worktree EXCEPT ![Slot(s)] = IF @ = None THEN job[s].base ELSE @]
    /\ branches' = branches \cup {Slot(s)}
    /\ Goto(s, "chief_context")
    /\ UNCHANGED <<removed, dbVars, fileVars, job, assigned, known, faults>>

\* `git worktree add -b`: Git refuses a branch or a path that exists.
AddWorktree(s) ==
    /\ pc[s] = "add_worktree"
    /\ \/ /\ ~ DirectoryExists(Slot(s))
          /\ Slot(s) \notin branches
          /\ worktree' = [worktree EXCEPT ![Slot(s)] = job[s].base]
          /\ branches' = branches \cup {Slot(s)}
          /\ Goto(s, "chief_context")
       \/ /\ DirectoryExists(Slot(s)) \/ Slot(s) \in branches
          /\ Goto(s, "remove_worktree")
          /\ UNCHANGED <<branches, worktree>>
    /\ UNCHANGED <<removed, dbVars, fileVars, job, assigned, known, faults>>

\* `git worktree add` fails or exceeds its 20 seconds.  It creates the branch
\* before the checkout.
AddWorktreeFails(s) ==
    /\ pc[s] = "add_worktree"
    /\ ~ DirectoryExists(Slot(s))
    /\ Slot(s) \notin branches
    /\ faults < MaxFaults
    /\ faults' = faults + 1
    /\ \/ UNCHANGED <<branches, worktree>>
       \/ branches' = branches \cup {Slot(s)} /\ UNCHANGED worktree
       \/ /\ branches' = branches \cup {Slot(s)}
          /\ worktree' = [worktree EXCEPT ![Slot(s)] = job[s].base]
    /\ Goto(s, "remove_worktree")
    /\ UNCHANGED <<removed, dbVars, fileVars, job, assigned, known>>

\* A worktree that is there after the failure is removed with all it holds,
\* whichever session made it, and the branch stays.  The removal does nothing
\* when it comes before the directory or fails, as it does while the lock of
\* an unfinished or killed `git worktree add` is there: nobody looks.
RemoveWorktree(s) ==
    /\ pc[s] = "remove_worktree"
    /\ \/ /\ worktree[Slot(s)] # None
          /\ worktree' = [worktree EXCEPT ![Slot(s)] = None]
          /\ workerContext' = workerContext \ {Slot(s)}
          /\ workerQueue' = [workerQueue EXCEPT ![Slot(s)] = <<>>]
          /\ removed' = removed \cup {Slot(s)}
       \/ UNCHANGED <<worktree, workerContext, workerQueue, removed>>
    /\ Quit(s)
    /\ UNCHANGED <<dbVars, branches, chiefContext, chiefQueue, known, faults>>

-----------------------------------------------------------------------------
(* assign_task                                                              *)

\* .chief/workers/<worker>/context is shared by the runs of a workspace and
\* is overwritten.
PrepareChiefContext(s) ==
    /\ pc[s] = "chief_context"
    /\ chiefContext' = [chiefContext EXCEPT ![job[s].worker] = job[s].run]
    /\ Goto(s, "worker_context")
    /\ UNCHANGED <<dbVars, gitVars, workerContext, chiefQueue, workerQueue,
                   job, assigned, known, faults>>

PrepareWorkerContext(s) ==
    /\ pc[s] = "worker_context"
    /\ workerContext' = workerContext \cup {Slot(s)}
    /\ Goto(s, "context_event")
    /\ UNCHANGED <<dbVars, gitVars, chiefContext, chiefQueue, workerQueue,
                   job, assigned, known, faults>>

RecordContextEvent(s) ==
    /\ pc[s] = "context_event"
    /\ events' = events \cup {<<"subagent_context_prepared", Slot(s)>>}
    /\ Goto(s, "assign_record_task")
    /\ UNCHANGED <<runs, status, handoffs, tasks, workerRow, queueRows,
                   gitVars, fileVars, job, assigned, known, faults>>

AssignRecordTask(s) ==
    /\ pc[s] = "assign_record_task"
    /\ tasks' = tasks \cup {<<job[s].run, job[s].task>>}
    /\ Goto(s, "record_worker")
    /\ UNCHANGED <<runs, status, handoffs, workerRow, queueRows, events,
                   gitVars, fileVars, job, assigned, known, faults>>

\* Upsert: an existing row of the slot would be replaced.
RecordWorker(s) ==
    /\ pc[s] = "record_worker"
    /\ workerRow' = [workerRow EXCEPT ![Slot(s)] =
                        [task |-> job[s].task, base |-> job[s].base]]
    /\ Goto(s, "check_queue")
    /\ UNCHANGED <<runs, status, handoffs, tasks, queueRows, events, gitVars,
                   fileVars, job, assigned, known, faults>>

Contains(file, id) == \E i \in DOMAIN file : file[i] = id

\* append reads both files for the id, then writes them without a lock.  A
\* duplicate raises.
CheckQueue(s) ==
    /\ pc[s] = "check_queue"
    /\ IF \/ Contains(chiefQueue[job[s].worker], QueueId(s))
          \/ Contains(workerQueue[Slot(s)], QueueId(s))
       THEN Quit(s)
       ELSE Continue(s, "queue_chief")
    /\ UNCHANGED <<dbVars, gitVars, fileVars, known, faults>>

AppendChiefQueue(s) ==
    /\ pc[s] = "queue_chief"
    /\ chiefQueue' = [chiefQueue EXCEPT ![job[s].worker] =
                         Append(@, QueueId(s))]
    /\ Goto(s, "queue_worker")
    /\ UNCHANGED <<dbVars, gitVars, chiefContext, workerContext, workerQueue,
                   job, assigned, known, faults>>

AppendWorkerQueue(s) ==
    /\ pc[s] = "queue_worker"
    /\ workerQueue' = [workerQueue EXCEPT ![Slot(s)] = Append(@, QueueId(s))]
    /\ Goto(s, "queue_row")
    /\ UNCHANGED <<dbVars, gitVars, chiefContext, workerContext, chiefQueue,
                   job, assigned, known, faults>>

\* record_queue_entry ends assign_task: delegate_tasks keeps the assignment
\* and takes the next ticket, retry_task has its event left to record.
RecordQueueEntry(s) ==
    /\ pc[s] = "queue_row"
    /\ queueRows' = queueRows \cup {QueueId(s)}
    /\ \/ /\ job[s].cmd = "delegate"
          /\ assigned' = [assigned EXCEPT ![s] = Append(@, Slot(s))]
          /\ NextTicket(s)
       \/ /\ job[s].cmd = "retry"
          /\ Goto(s, "retry_event")
          /\ UNCHANGED <<job, assigned>>
    /\ UNCHANGED <<runs, status, handoffs, tasks, workerRow, events, gitVars,
                   fileVars, known, faults>>

RecordRetryEvent(s) ==
    /\ pc[s] = "retry_event"
    /\ events' = events \cup {<<"worker_retry_created", Slot(s)>>}
    /\ Quit(s)
    /\ UNCHANGED <<runs, status, handoffs, tasks, workerRow, queueRows,
                   gitVars, fileVars, known, faults>>

-----------------------------------------------------------------------------
(* Failures                                                                 *)

\* The next call raises without effect (a locked database, a full disk, a
\* project without a skill catalog), or the command's process is killed.
Fail(s) ==
    /\ Busy(s)
    /\ faults < MaxFaults
    /\ faults' = faults + 1
    /\ Quit(s)
    /\ UNCHANGED <<dbVars, gitVars, fileVars, known>>

\* The API server stops, in the middle of a request or not, and is started
\* again with an empty ChiefApiService.
ApiRestart ==
    /\ Api \in Sessions
    /\ faults < MaxFaults
    /\ faults' = faults + 1
    /\ known' = {}
    /\ Quit(Api)
    /\ UNCHANGED <<dbVars, gitVars, fileVars>>

-----------------------------------------------------------------------------
Begin(s) ==
    \/ \E r \in Runs, b \in Bases : BeginHandoff(s, r, b) \/ BeginDelegate(s, r, b)
    \/ \E r \in Runs : s = Api /\ BeginApiDelegate(r)
    \/ \E r \in Runs, w \in RetryWorkers, n \in RetrySequences :
          \E i \in 1 .. PlanSize[r] : BeginRetry(s, r, i, w, n)

\* What a live session does next.
SessionStep(s) ==
    \/ GetRun(s) \/ CreateRun(s) \/ RecordHandoff(s) \/ SetPlanApproved(s)
    \/ RecordTask(s) \/ SetDelegating(s) \/ GetWorker(s) \/ RetryGetRun(s)
    \/ CheckWorktree(s) \/ AddWorktree(s) \/ RemoveWorktree(s)
    \/ PrepareChiefContext(s) \/ PrepareWorkerContext(s)
    \/ RecordContextEvent(s) \/ AssignRecordTask(s) \/ RecordWorker(s)
    \/ CheckQueue(s) \/ AppendChiefQueue(s) \/ AppendWorkerQueue(s)
    \/ RecordQueueEntry(s) \/ RecordRetryEvent(s)

Next ==
    \/ \E s \in Sessions : \/ Begin(s)
                           \/ SessionStep(s)
                           \/ AddWorktreeFails(s)
                           \/ Fail(s)
    \/ ApiRestart

Spec == Init /\ [][Next]_vars

\* A live session keeps executing, and the user (who is told to resume a
\* stopped session) issues the delegate command of each handoff again and
\* again.
Fairness ==
    /\ \A s \in Sessions : WF_vars(SessionStep(s))
    /\ \A r \in Runs, b \in Bases :
          SF_vars(\E s \in Sessions : BeginDelegate(s, r, b))

FairSpec == Spec /\ Fairness

-----------------------------------------------------------------------------
(* Properties                                                               *)

\* The type of every store.
TypeOK ==
    /\ runs \in [Runs -> Bases \cup {None}]
    /\ status \in [Runs -> {None, "created", "plan_approved", "delegating"}]
    /\ handoffs \in [Runs -> Bases \cup {None}]
    /\ tasks \subseteq Runs \X Nat
    /\ workerRow \in [Slots -> [task : Nat, base : Bases] \cup {None}]
    /\ queueRows \subseteq QueueIds
    /\ events \subseteq {"subagent_context_prepared", "worker_retry_created"}
                         \X Slots
    /\ branches \subseteq Slots
    /\ worktree \in [Slots -> Bases \cup {None}]
    /\ removed \subseteq Slots
    /\ chiefContext \in [Workers -> Runs \cup {None}]
    /\ workerContext \subseteq Slots
    /\ chiefQueue \in [Workers -> Seq(QueueIds)]
    /\ workerQueue \in [Slots -> Seq(QueueIds)]
    /\ pc \in [Sessions -> {"idle", "returned"} \cup BusySteps]
    /\ job \in [Sessions -> Jobs \cup {None}]
    /\ assigned \in [Sessions -> Seq(Slots)]
    /\ known \subseteq Runs
    /\ faults \in 0 .. MaxFaults

\* Every worktree and every assignment of a run starts from the one base
\* commit recorded for the run, whoever created it: the check in
\* accept_planner_handoff runs before the first write, so a second handoff
\* with another base must not leak into a worktree or into the artifact.
SharedBaseCommit ==
    /\ \A k \in Slots :
          /\ worktree[k] # None => worktree[k] = runs[k[1]]
          /\ workerRow[k] # None => workerRow[k].base = runs[k[1]]
    /\ \A r \in Runs : handoffs[r] # None => handoffs[r] = runs[r]

\* At most one session is inside assign_task for a worker's slot, although
\* the directory is checked before Git is called and the session that loses
\* removes the directory the other one builds in: the branch outlives the
\* worktree, and `git worktree add -b` refuses it for good.
OneBuilderPerWorktree ==
    \A s, t \in Sessions :
        s # t /\ pc[s] \in AssignSteps /\ pc[t] \in AssignSteps
            => Slot(s) # Slot(t)

\* A worker found in the workers table has its branch, its recorded ticket and
\* the event about its context.  It can also be opened, in a worktree that
\* starts from the recorded base and holds the context files, unless a session
\* that lost the race for the slot has removed the worktree, which nobody
\* makes again.
RecordedWorkerPrepared ==
    \A k \in Slots : workerRow[k] # None =>
        /\ k \in branches
        /\ <<"subagent_context_prepared", k>> \in events
        /\ <<k[1], workerRow[k].task>> \in tasks
        /\ IF k \in removed
           THEN worktree[k] = None
           ELSE worktree[k] = workerRow[k].base /\ k \in workerContext

\* A queue id the database knows stands in the authoritative file, belongs to
\* a recorded worker, and stands in the worker's file unless that went with
\* its worktree.
QueueRowBacked ==
    \A q \in queueRows :
        /\ Contains(chiefQueue[q[2]], q)
        /\ workerRow[<<q[1], q[2]>>] # None
        /\ \/ Contains(workerQueue[<<q[1], q[2]>>], q)
           \/ <<q[1], q[2]>> \in removed

Unique(file) == \A i, j \in DOMAIN file : file[i] = file[j] => i = j

\* A queue id occurs once in a queue file, although append checks and writes
\* without a lock and queue files are shared by the runs of a workspace.
NoDuplicateQueueEntry ==
    /\ \A w \in Workers : Unique(chiefQueue[w])
    /\ \A k \in Slots : Unique(workerQueue[k])

\* The authoritative file is written first: a worker never sees an entry that
\* Chief's own record of the queue lacks.
WorkerQueueCovered ==
    \A k \in Slots : \A i \in DOMAIN workerQueue[k] :
        Contains(chiefQueue[k[2]], workerQueue[k][i])

\* The queue's three places are written in this order without a transaction:
\* whatever a later one says, the earlier ones say too, however sessions race
\* and die between them; only the file in the worktree can be lost again.
QueuesAgree == QueueRowBacked /\ WorkerQueueCovered

\* A run that says "delegating", or that the API server answers for, has its
\* artifact and all its tickets on disk.
DelegatingHasTasks ==
    \A r \in Runs : status[r] = "delegating" \/ r \in known =>
        /\ handoffs[r] # None
        /\ \A i \in 1 .. PlanSize[r] : <<r, i>> \in tasks

\* A stored assignment is never replaced, although record_worker is an upsert
\* that several sessions run.
AssignmentStable ==
    [][\A k \in Slots : workerRow[k] # None => workerRow'[k] = workerRow[k]]_vars

DelegateReturned(s) == pc[s] = "returned"

\* delegate_tasks takes an existing row for the ticket it has come to and looks
\* at nothing but the worker's number: whatever was retried, raced or stopped
\* before, it returns one recorded worker for each ticket of the plan, in
\* order, and one that was given another ticket only where a retry had taken
\* the worker's number.
DelegatedCovers ==
    \A s \in Sessions : DelegateReturned(s) =>
        /\ Len(assigned[s]) = PlanSize[job[s].run]
        /\ \A i \in DOMAIN assigned[s] :
              LET k == assigned[s][i]
              IN  /\ k[2] = i /\ workerRow[k] # None
                  /\ workerRow[k].task = i \/ i \in RetryWorkers

\* What delegate_tasks says it does ("Create isolated assignments and queues
\* for every approved task"): the assignments it returns are this run's, one
\* for each ticket in order.
DelegatedToOwnRun ==
    \A s \in Sessions : DelegateReturned(s) =>
        /\ Len(assigned[s]) = PlanSize[job[s].run]
        /\ \A i \in DOMAIN assigned[s] : assigned[s][i] = <<job[s].run, i>>

-----------------------------------------------------------------------------
(* The slots as SlotLedger sees them                                        *)

\* The session inside assign_task for slot k.
BuilderOf(k) ==
    LET builders == {s \in Sessions : pc[s] \in AssignSteps /\ Slot(s) = k}
    IN  IF builders = {} THEN None ELSE CHOOSE s \in builders : TRUE

\* The sessions that found slot k without a directory and are about to add
\* its worktree, or to remove it.
RivalsFor(k) ==
    {s \in Sessions : pc[s] \in {"add_worktree", "remove_worktree"} /\ Slot(s) = k}

Queued(k) == \E q \in queueRows : <<q[1], q[2]>> = k

StageOf(k) ==
    IF workerRow[k] # None
    THEN IF Queued(k) THEN "queued" ELSE "recorded"
    ELSE IF BuilderOf(k) # None THEN "building"
    ELSE IF k \in branches THEN "orphaned" ELSE "free"

Ledger == INSTANCE SlotLedger WITH
    stage   <- [k \in Slots |-> StageOf(k)],
    rivals  <- [k \in Slots |-> RivalsFor(k)],
    builder <- [k \in Slots |-> BuilderOf(k)],
    base    <- worktree

\* Chief's calls, however sessions interleave them, fail and die in them,
\* take each slot through the ledger's life: claimed once, recorded and
\* queued by its claimant only, never taken up again once abandoned, and its
\* worktree is taken away only by a session that had found none there.
ImplementsLedger == Ledger!Spec

\* A slot nobody builds any more, short of its queue entry.
Abandoned(k) == BuilderOf(k) = None /\ StageOf(k) \in {"orphaned", "recorded"}

\* Another run's worker has the number i, or a retry gave <<r, i>> its entry.
Taken(r, i) ==
    \/ \E k \in RowsOf(i) : k[1] # r
    \/ \E q \in queueRows : q[1] = r /\ q[2] = i /\ q[3] # i

\* If the user keeps delegating, every ticket of a well-formed plan is recorded
\* as queued, unless one of its slots was left half-built by a failure, or
\* a retry or another run took a worker's number.  Those are the only causes:
\* lost races, whether they cost a worktree or not, refused commands and stops
\* at any other place are not.
TicketsSettle ==
    \A r \in ContiguousPlans :
        <>(\/ \A i \in 1 .. PlanSize[r] : <<r, i, i>> \in queueRows
           \/ \E i \in 1 .. PlanSize[r] : Abandoned(<<r, i>>) \/ Taken(r, i))

=============================================================================
