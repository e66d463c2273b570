--------------------------- MODULE WorkerSupervision ---------------------------
(***************************************************************************)
(* Chief supervises provider processes: WorkerLifecycleManager starts one  *)
(* in the worktree of each assignment, waits for it, reads the             *)
(* WorkerResult it may have written, and has ChiefCoordinator gate and     *)
(* record it.  The assignments of one run are delegated; worker w has the  *)
(* ticket step-w.                                                          *)
(*                                                                         *)
(* A session of Cli executes `chief run`, which supervises the workers in  *)
(* order and stops at the first rejected outcome.  A session of Library is *)
(* a program that calls the manager's operations as it likes.  A provider  *)
(* runs in a session of its own: it survives the death of its supervisor.  *)
(***************************************************************************)
EXTENDS WorkerProtocol, FiniteSets

CONSTANTS
    NumWorkers,    \* number of assignments of the run
    Paths,         \* Paths[w]: files the assignment of w may change
    DependsOn,     \* DependsOn[w]: the plan steps that step w depends on
    Run,           \* the run id
    OtherRun,      \* a run id Chief has no row for
    Files,         \* the files a result may name
    Claims,        \* Claims[w]: WorkerResults a provider of w may write
    Invalid,       \* a file that is no valid WorkerResult
    Cli,           \* sessions that execute `chief run`
    Library,       \* sessions that call WorkerLifecycleManager
    MaxLaunches,   \* bound: no new supervision begins after so many processes
    MaxFaults,     \* bound on failed calls and killed sessions
    None

Workers  == 1 .. NumWorkers
Sessions == Cli \cup Library

\* The WorkerResult schema.  Worker and task 0 stand for ids Chief has not
\* given out.
WorkerResults ==
    [run : {Run, OtherRun}, worker : 0 .. NumWorkers, task : 0 .. NumWorkers,
     status : {"completed", "blocked", "failed"}, commit : BOOLEAN,
     files : SUBSET Files, errors : BOOLEAN,
     trace : Seq([stage : STRING \X STRING, sequence : Nat \ {0},
                  status : {"started", "completed", "failed"}])]

ASSUME SupervisionAssumption ==
    /\ NumWorkers \in Nat \ {0}
    /\ DependsOn \in [Workers -> SUBSET Workers]
    /\ \A w \in Workers : \A v \in DependsOn[w] : v < w
    /\ Cli \cap Library = {}
    /\ MaxLaunches \in Nat /\ MaxFaults \in Nat
    /\ Run # OtherRun
    /\ \A w \in Workers : Claims[w] \subseteq WorkerResults
    /\ None \notin WorkerResults /\ Invalid \notin WorkerResults
    /\ None \notin Sessions

VARIABLES
    process,       \* provider processes, in the order in which they started
    resultFile,    \* <worktree>/.chief-worker/result.json
    results,       \* worker_results table, keyed by worker and task
    judged,        \* history: processes whose end led to a recorded result
    events,        \* events table
    pc,            \* where each session is
    current,       \* the worker each session starts or waits for
    active,        \* WorkerLifecycleManager._active: worker -> process
    timedOut,      \* the wait of each session gave up on its process
    read,          \* the WorkerResult _read_result returned, and its writer
    decision,      \* the SkillTraceDecision on it
    faults         \* failures so far

vars == <<process, resultFile, results, judged, events, pc, current, active,
          timedOut, read, decision, faults>>

dbVars == <<results, judged, events>>

-----------------------------------------------------------------------------
Launches == DOMAIN process

Assignment(w) == [run |-> Run, worker |-> w, task |-> w, paths |-> Paths[w]]

States == {"running", "completed", "failed"}

Running(l) == process[l].state = "running"

Active(s) == DOMAIN active[s]

\* The process session s waits for.
Awaited(s) == active[s][current[s]]

\* Events also keep the process they are about, its execution status and the
\* process whose file was read, to tell repeated runs apart.
Event(type, l, worker, task, execution, writer) ==
    [type |-> type, launch |-> l, worker |-> worker, task |-> task,
     execution |-> execution, writer |-> writer]

RecordEvent(e) == events' = events \cup {e}

\* WorkerExecution.status of the process session s waits for.
Execution(s) == IF timedOut[s] THEN "timed_out" ELSE process[Awaited(s)].state

Goto(s, step) == pc' = [pc EXCEPT ![s] = step]

Steps == {"ready", "started", "waiting", "stopping", "read", "accept",
          "decided", "finish"}

Init ==
    /\ process = <<>>
    /\ resultFile = [w \in Workers |-> None]
    /\ results = [k \in (0 .. NumWorkers) \X (0 .. NumWorkers) |-> None]
    /\ judged = {}
    /\ events = {}
    /\ pc = [s \in Sessions |-> "idle"]
    /\ current = [s \in Sessions |-> 0]
    /\ active = [s \in Sessions |-> <<>>]
    /\ timedOut = [s \in Sessions |-> FALSE]
    /\ read = [s \in Sessions |-> None]
    /\ decision = [s \in Sessions |-> FALSE]
    /\ faults = 0

\* The session's manager is gone; its processes are not.
EndSession(s, how) ==
    /\ Goto(s, how)
    /\ active' = [active EXCEPT ![s] = <<>>]
    /\ process' = [l \in Launches |->
                      IF process[l].owner = s
                      THEN [process[l] EXCEPT !.owner = None] ELSE process[l]]

\* A call raised: `chief run` dies of it, a library program may catch it and
\* go on with the manager it has, whose active workers are then `left`.
Raise(s, left) ==
    \/ s \in Cli /\ EndSession(s, "raised")
    \/ /\ s \in Library
       /\ Goto(s, "ready")
       /\ active' = [active EXCEPT ![s] = left]
       /\ UNCHANGED process

-----------------------------------------------------------------------------
(* The sessions                                                             *)

\* `chief run` after delegate_tasks returned, or a new manager: what the same
\* session supervised before was another process's business.
Begin(s) ==
    /\ pc[s] \in {"idle", "done", "raised"}
    /\ Len(process) < MaxLaunches
    /\ EndSession(s, "ready")
    /\ current' = [current EXCEPT ![s] = 1]
    /\ UNCHANGED <<resultFile, dbVars, timedOut, read, decision, faults>>

\* WorkerLifecycleManager.start up to process.start.  The worker's row is in
\* the workers table, so nothing else is recorded than the event.
Start(s, w) ==
    /\ pc[s] = "ready"
    /\ w \notin Active(s)
    /\ \/ s \in Cli /\ w = current[s]
       \/ s \in Library /\ Len(process) < MaxLaunches
    /\ process' = Append(process, [worker |-> w, owner |-> s, state |-> "running"])
    /\ active' = [active EXCEPT ![s] =
                     [v \in Active(s) \cup {w} |->
                         IF v = w THEN Len(process) + 1 ELSE active[s][v]]]
    /\ current' = [current EXCEPT ![s] = w]
    /\ Goto(s, "started")
    /\ UNCHANGED <<resultFile, dbVars, timedOut, read, decision, faults>>

\* The worker_started event; `chief run` then waits for the worker.
RecordStarted(s) ==
    /\ pc[s] = "started"
    /\ RecordEvent(Event("started", Awaited(s), current[s], current[s], None, None))
    /\ Goto(s, IF s \in Cli THEN "waiting" ELSE "ready")
    /\ timedOut' = [timedOut EXCEPT ![s] = FALSE]
    /\ UNCHANGED <<process, resultFile, results, judged, current, active, read,
                   decision, faults>>

\* A library program waits for one of its active workers.
BeginWait(s, w) ==
    /\ s \in Library
    /\ pc[s] = "ready"
    /\ w \in Active(s)
    /\ current' = [current EXCEPT ![s] = w]
    /\ timedOut' = [timedOut EXCEPT ![s] = FALSE]
    /\ Goto(s, "waiting")
    /\ UNCHANGED <<process, resultFile, dbVars, active, read, decision, faults>>

\* stop asks the process to end, which it may do on its own terms, and
\* records that; the worker stays active.
Stop(s, w) ==
    /\ s \in Library
    /\ pc[s] = "ready"
    /\ w \in Active(s)
    /\ RecordEvent(Event("stop_requested", active[s][w], w, w, None, None))
    /\ UNCHANGED <<process, resultFile, results, judged, pc, current, active,
                   timedOut, read, decision, faults>>

\* The process has ended and wait returns.
Reap(s) ==
    /\ pc[s] \in {"waiting", "stopping"}
    /\ ~ Running(Awaited(s))
    /\ Goto(s, "read")
    /\ UNCHANGED <<process, resultFile, dbVars, current, active, timedOut,
                   read, decision, faults>>

\* Mutants of Timeout: the wait never gives up; it gives up on a process it
\* leaves running.
NoTimeout(s) == FALSE /\ UNCHANGED vars
TimeoutLeavesRunning(s) ==
    /\ pc[s] = "waiting"
    /\ Running(Awaited(s))
    /\ timedOut' = [timedOut EXCEPT ![s] = TRUE]
    /\ Goto(s, "read")
    /\ UNCHANGED <<process, resultFile, dbVars, current, active, read,
                   decision, faults>>

\* timeout_seconds have passed: the process group gets SIGTERM, and the
\* process may still write its result and exit with any code.
Timeout(s) ==
    /\ pc[s] = "waiting"
    /\ Running(Awaited(s))
    /\ timedOut' = [timedOut EXCEPT ![s] = TRUE]
    /\ Goto(s, "stopping")
    /\ UNCHANGED <<process, resultFile, dbVars, current, active, read,
                   decision, faults>>

\* Five seconds later it is killed.
Kill(s) ==
    /\ pc[s] = "stopping"
    /\ Running(Awaited(s))
    /\ process' = [process EXCEPT ![Awaited(s)].state = "failed"]
    /\ UNCHANGED <<resultFile, dbVars, pc, current, active, timedOut, read,
                   decision, faults>>

\* The result Chief makes up when it can use no file.
FailedResult(w) ==
    [run |-> Run, worker |-> w, task |-> w, status |-> "failed",
     commit |-> FALSE, files |-> {}, trace |-> <<>>, errors |-> TRUE]

\* Mutant of ReadResult: the execution status is ignored.
ReadResultOnly(s) ==
    /\ pc[s] = "read"
    /\ LET file == resultFile[current[s]] IN
         read' = [read EXCEPT ![s] =
           IF file \in {None, Invalid}
           THEN [result |-> FailedResult(current[s]), writer |-> None]
           ELSE file]
    /\ Goto(s, "accept")
    /\ UNCHANGED <<process, resultFile, dbVars, current, active, timedOut,
                   decision, faults>>

\* _read_result: a valid file counts whoever wrote it and when; unless the
\* execution completed it is turned into a failure.
ReadResult(s) ==
    /\ pc[s] = "read"
    /\ LET file == resultFile[current[s]] IN
         read' = [read EXCEPT ![s] =
           IF file \in {None, Invalid}
           THEN [result |-> FailedResult(current[s]), writer |-> None]
           ELSE IF Execution(s) = "completed"
           THEN file
           ELSE [file EXCEPT !.result.status = "failed", !.result.errors = TRUE]]
    /\ Goto(s, "accept")
    /\ UNCHANGED <<process, resultFile, dbVars, current, active, timedOut,
                   decision, faults>>

\* Mutant of AcceptResult: the row is left to the report.
AcceptWithoutRow(s) ==
    /\ pc[s] = "accept"
    /\ LET r == read[s].result IN
         decision' = [decision EXCEPT ![s] =
             r.worker \in Workers /\ AcceptedFor(r, Assignment(r.worker))]
    /\ Goto(s, "decided")
    /\ UNCHANGED <<process, resultFile, dbVars, current, active, timedOut,
                   read, faults>>

\* accept_worker_result: the assignment is the one of the worker the result
\* names, and the result is recorded whatever the decision.  A run without a
\* row raises.
AcceptResult(s) ==
    /\ pc[s] = "accept"
    /\ LET r == read[s].result IN
         \/ /\ r.run = Run
            /\ decision' = [decision EXCEPT ![s] =
                  r.worker \in Workers /\ AcceptedFor(r, Assignment(r.worker))]
            /\ results' = [results EXCEPT ![<<r.worker, r.task>>] = r]
            /\ judged' = judged \cup {Awaited(s)}
            /\ Goto(s, "decided")
            /\ UNCHANGED <<process, active>>
         \/ /\ r.run # Run
            /\ Raise(s, active[s])
            /\ UNCHANGED <<results, judged, decision>>
    /\ UNCHANGED <<resultFile, events, current, timedOut, read, faults>>

\* worker_result_accepted or worker_result_rejected.
RecordDecision(s) ==
    /\ pc[s] = "decided"
    /\ RecordEvent(Event(IF decision[s] THEN "accepted" ELSE "rejected",
                         Awaited(s), read[s].result.worker, read[s].result.task,
                         Execution(s), read[s].writer))
    /\ Goto(s, "finish")
    /\ UNCHANGED <<process, resultFile, results, judged, current, active,
                   timedOut, read, decision, faults>>

\* The rest of the active workers once the awaited one is popped.
Others(s) == [v \in Active(s) \ {current[s]} |-> active[s][v]]

\* Mutant of Finish: `chief run` goes on after a rejected outcome.
FinishAnyway(s) ==
    /\ pc[s] = "finish"
    /\ RecordEvent(Event(IF decision[s] THEN "finished_accepted"
                                        ELSE "finished_rejected",
                         Awaited(s), current[s], current[s], Execution(s), None))
    /\ active' = [active EXCEPT ![s] = Others(s)]
    /\ \/ s \in Library /\ Goto(s, "ready") /\ UNCHANGED current
       \/ /\ s \in Cli /\ current[s] < NumWorkers
          /\ current' = [current EXCEPT ![s] = @ + 1]
          /\ Goto(s, "ready")
       \/ /\ s \in Cli /\ current[s] = NumWorkers
          /\ Goto(s, "done")
          /\ UNCHANGED current
    /\ UNCHANGED <<process, resultFile, results, judged, timedOut, read, decision,
                   faults>>

\* Mutant of Finish: `chief run` looks for one assignment too many.
FinishOneMore(s) ==
    /\ pc[s] = "finish"
    /\ active' = [active EXCEPT ![s] = Others(s)]
    /\ current' = [current EXCEPT ![s] = @ + 1]
    /\ Goto(s, "ready")
    /\ UNCHANGED <<process, resultFile, results, judged, events, timedOut, read,
                   decision, faults>>

\* wait pops the worker and records worker_finished; `chief run` takes the
\* next assignment if the outcome was accepted.
Finish(s) ==
    /\ pc[s] = "finish"
    /\ RecordEvent(Event(IF decision[s] THEN "finished_accepted"
                                        ELSE "finished_rejected",
                         Awaited(s), current[s], current[s], Execution(s), None))
    /\ active' = [active EXCEPT ![s] = Others(s)]
    /\ \/ s \in Library /\ Goto(s, "ready") /\ UNCHANGED current
       \/ /\ s \in Cli /\ decision[s] /\ current[s] < NumWorkers
          /\ current' = [current EXCEPT ![s] = @ + 1]
          /\ Goto(s, "ready")
       \/ /\ s \in Cli /\ ~ (decision[s] /\ current[s] < NumWorkers)
          /\ Goto(s, "done")
          /\ UNCHANGED current
    /\ UNCHANGED <<process, resultFile, results, judged, timedOut, read, decision,
                   faults>>

-----------------------------------------------------------------------------
(* Provider processes                                                       *)

\* The provider writes its WorkerResult, or something that is none.
WriteResult(l, c) ==
    /\ Running(l)
    /\ resultFile' = [resultFile EXCEPT ![process[l].worker] =
                         IF c = Invalid THEN Invalid
                         ELSE [result |-> c, writer |-> l]]
    /\ UNCHANGED <<process, dbVars, pc, current, active, timedOut, read,
                   decision, faults>>

\* It exits with code 0, or with another one or by a signal.
Exit(l, state) ==
    /\ Running(l)
    /\ process' = [process EXCEPT ![l].state = state]
    /\ UNCHANGED <<resultFile, dbVars, pc, current, active, timedOut, read,
                   decision, faults>>

-----------------------------------------------------------------------------
(* Failures                                                                 *)

\* The store's call fails, or at "ready" the provider command does not start.
\* At "finish" the worker has been popped already.
Fail(s) ==
    /\ pc[s] \in {"ready", "started", "accept", "decided", "finish"}
    /\ faults < MaxFaults
    /\ faults' = faults + 1
    /\ Raise(s, IF pc[s] = "finish" THEN Others(s) ELSE active[s])
    /\ UNCHANGED <<resultFile, dbVars, current, timedOut, read, decision>>

\* The session's process is stopped or dies.
Crash(s) ==
    /\ pc[s] \in Steps
    /\ faults < MaxFaults
    /\ faults' = faults + 1
    /\ EndSession(s, "raised")
    /\ UNCHANGED <<resultFile, dbVars, current, timedOut, read, decision>>

-----------------------------------------------------------------------------
\* The steps of a session that supervises.
Supervise(s) ==
    \/ \E w \in Workers : s \in Cli /\ Start(s, w)
    \/ RecordStarted(s) \/ Reap(s) \/ Timeout(s) \/ Kill(s) \/ ReadResult(s)
    \/ AcceptResult(s) \/ RecordDecision(s) \/ Finish(s)

\* What a library program chooses to call.
Call(s) == \E w \in Workers : s \in Library /\ (Start(s, w) \/ BeginWait(s, w) \/ Stop(s, w))

Provider(l) ==
    \/ \E c \in Claims[process[l].worker] \cup {Invalid} : WriteResult(l, c)
    \/ \E state \in {"completed", "failed"} : Exit(l, state)

Next ==
    \/ \E s \in Sessions : Begin(s) \/ Supervise(s) \/ Call(s) \/ Fail(s) \/ Crash(s)
    \/ \E l \in Launches : Provider(l)

Spec == Init /\ [][Next]_vars

\* A live session executes its next call, and the clock of its wait runs.
\* Nothing is assumed of the providers: they may run and write for ever.
FairSpec == Spec /\ \A s \in Sessions : WF_vars(Supervise(s))

-----------------------------------------------------------------------------
(* integration_report                                                       *)

Rows == {k \in DOMAIN results : results[k] # None}

\* The report calls the gate without an assignment.
ReportAccepted == {k \in Rows : Accepted(results[k])}

\* The errors, missing phases and violations of a row.
RowHasErrors(k) == results[k].errors \/ ~ Accepted(results[k])

\* Two rows that name one file overlap.
Overlap == \E j, k \in Rows : j # k /\ results[j].files \cap results[k].files # {}

ReadyForHuman ==
    /\ ReportAccepted # {}
    /\ ~ Overlap
    /\ \A k \in Rows : ~ RowHasErrors(k)

\* recoverable_assignments: the assignments that no row answers.
Recoverable == {w \in Workers : <<w, w>> \notin Rows}

-----------------------------------------------------------------------------
(* Properties                                                               *)

\* The types of the state.
TypeOK ==
    /\ process \in Seq([worker : Workers, owner : Sessions \cup {None}, state : States])
    /\ resultFile \in [Workers -> {None, Invalid} \cup
                          [result : WorkerResults, writer : Launches]]
    /\ results \in [(0 .. NumWorkers) \X (0 .. NumWorkers) -> WorkerResults \cup {None}]
    /\ \A k \in Rows : <<results[k].worker, results[k].task>> = k
    /\ judged \subseteq Launches
    /\ \A e \in events : e.launch \in Launches
    /\ pc \in [Sessions -> Steps \cup {"idle", "done", "raised"}]
    /\ current \in [Sessions -> 0 .. NumWorkers]
    /\ active \in [Sessions -> UNION {[known -> Launches] : known \in SUBSET Workers}]
    /\ timedOut \in [Sessions -> BOOLEAN]
    /\ read \in [Sessions -> {None} \cup
                     [result : WorkerResults, writer : Launches \cup {None}]]
    /\ decision \in [Sessions -> BOOLEAN]
    /\ faults \in 0 .. MaxFaults

\* A wait accepts only what it saw end well: a wait that timed out never
\* accepts, even when the process answers SIGTERM by writing a perfect result
\* and exiting with 0, and neither does one whose process failed or was killed.
AcceptedAfterCleanExit ==
    \A e \in events : e.type = "accepted" =>
        e.execution = "completed" /\ process[e.launch].state = "completed"

\* The event log explains the tables whatever stops a session: a decision is
\* logged after its result row is durable and its process is dead, and the end
\* of a worker after the decision it repeats.
TrailInOrder ==
    \A e \in events :
        /\ e.type \in {"accepted", "rejected"} =>
              results[<<e.worker, e.task>>] # None /\ ~ Running(e.launch)
        /\ e.type = "finished_accepted" =>
              \E d \in events : d.type = "accepted" /\ d.launch = e.launch
        /\ e.type = "finished_rejected" =>
              \E d \in events : d.type = "rejected" /\ d.launch = e.launch

\* `chief run` ignores blocked_by and relies on its order: a provider starts
\* only after some process of every worker its step depends on was accepted.
DependenciesAccepted ==
    \A l \in Launches : process[l].owner \in Cli =>
        \A v \in DependsOn[process[l].worker] :
            \E e \in events : /\ e.type = "accepted"
                              /\ process[e.launch].worker = v
                              /\ e.launch < l

\* What `chief run` prints when it returns: the outcomes before the last one, and
\* the last one if it is accepted, are acceptances of processes this invocation
\* started, not of an earlier invocation's or another session's, and it stops at
\* an accepted outcome only when every worker of the run has one.  (A session
\* that begins again owns none of its earlier processes.)
PrintedOutcomes ==
    \A s \in Cli : pc[s] = "done" =>
        /\ \A v \in Workers : v < current[s] \/ (v = current[s] /\ decision[s]) =>
              \E e \in events : /\ e.type = "accepted"
                                /\ process[e.launch].worker = v
                                /\ process[e.launch].owner = s
        /\ decision[s] => current[s] = NumWorkers

\* A manager never loses sight of a process it started: one that still runs
\* is the active process of its worker, so a worktree has at most one running
\* provider per manager, through timeouts and caught exceptions.
RunningIsActive ==
    \A l \in Launches : Running(l) /\ process[l].owner # None =>
        LET s == process[l].owner
        IN  process[l].worker \in Active(s) /\ active[s][process[l].worker] = l

\* Who has l in its _active table, and what decisions and ends say of l.
Holders(l) == {s \in Sessions : \E w \in Active(s) : active[s][w] = l}

Reporting == {"accepted", "rejected", "finished_accepted", "finished_rejected"}

Reports(l) == {e.execution : e \in {d \in events : d.launch = l /\ d.type \in Reporting}}

Providers ==
    [l \in Launches |-> [slot |-> process[l].worker, state |-> process[l].state,
                         holders |-> Holders(l), reports |-> Reports(l)]]

Contract == INSTANCE ProviderContract WITH
    Supervisors <- Sessions, Slots <- Workers, providers <- Providers

\* The managers keep the contract with providers that the operating-system
\* side promises: sessions that time out, raise, die or supervise one worker
\* at the same time never drop a running process, and the events never report
\* on one that runs or in another way than it ended.
ImplementsContract == Contract!Spec

\* After a restart recoverable_assignments finds the workers that still need
\* one: every worker of which Chief has judged no process that had ended, as
\* where each was left to itself by a crash or failed with its supervisor
\* before its result was recorded, and no worker whose end was logged.
\* (Providers report in their own name.)
RestartFindsUnfinished ==
    \A w \in Workers :
        /\ w \notin Recoverable =>
              \E l \in judged : process[l].worker = w /\ ~ Running(l)
        /\ (\E e \in events : /\ e.type \in {"finished_accepted", "finished_rejected"}
                              /\ e.worker = w)
              => w \notin Recoverable

\* Nothing makes Chief record a success nobody had: a row that says completed,
\* which the report counts without its decision, is what a provider may have
\* written whose process ended with code 0.
CompletedRowsAreEarned ==
    \A k \in Rows : results[k].status = "completed" =>
        \E l \in Launches : /\ process[l].state = "completed"
                            /\ results[k] \in Claims[process[l].worker]

\* In the events as in the rows, a success rests on a provider that ended well,
\* although a process may write its best result while it is being stopped, and
\* files outlive their process, name any worker and task, and make Chief
\* overwrite the row of an earlier run.
SuccessesAreClean == AcceptedAfterCleanExit /\ CompletedRowsAreEarned

\* `chief run` ends, whatever its providers do.
RunEnds == \A s \in Cli : pc[s] = "ready" ~> pc[s] \in {"done", "raised"}

\* A ready report lists what Chief accepted ("The structured summary Chief
\* gives the user after it accepts WorkerResults"), once no session is between
\* recording a result and its decision.
ReportListsAccepted ==
    ReadyForHuman /\ (\A s \in Sessions : pc[s] # "decided") =>
        \A k \in Rows :
            \E e \in events : e.type = "accepted" /\ <<e.worker, e.task>> = k

\* An accepted outcome rests on a result its own process wrote ("Worker did
\* not write a WorkerResult file." is an error).
AcceptedOwnWork == \A e \in events : e.type = "accepted" => e.writer = e.launch

=============================================================================
