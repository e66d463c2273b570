------------------------- MODULE ChiefDelegationProofs -------------------------
(***************************************************************************)
(* What holds of ChiefDelegation for every number of runs, sessions,       *)
(* workers, steps and failures.                                            *)
(***************************************************************************)
EXTENDS ChiefDelegation, TLAPS

-----------------------------------------------------------------------------
(* Where a session is tells what its command has established.               *)

\* Still comparing the handoff with the recorded run.
Checking == {"get_run", "create_run"}

\* Recording the handoff and its tickets.
Recording == {"record_handoff", "plan_approved", "record_task", "set_delegating"}

\* Building the assignment of one worker.
Building == {"check_worktree", "add_worktree", "remove_worktree", "retry_event"}
              \cup AssignSteps

\* A session's command carries what its remaining calls use, and from the
\* moment it has passed the base check its base is the run's.
SessionOK(s) ==
    /\ pc[s] \in BusySteps => job[s] \in Jobs
    /\ pc[s] \in Checking \cup Recording =>
          /\ job[s].cmd \in {"handoff", "delegate"}
          /\ job[s].base \in Bases
    /\ pc[s] \in Checking \cup {"record_handoff", "plan_approved"} =>
          job[s].task = 1
    /\ pc[s] = "get_worker" => job[s].cmd = "delegate"
    /\ pc[s] = "retry_get_run" =>
          job[s].cmd = "retry" /\ runs[job[s].run] \in Bases
    /\ pc[s] \in Building => job[s].cmd \in {"delegate", "retry"}
    /\ pc[s] \in {"record_task", "get_worker", "retry_get_run"} \cup Building =>
          job[s].task \in 1 .. PlanSize[job[s].run]
    /\ pc[s] \in {"get_worker", "retry_get_run"} \cup Building =>
          job[s].worker \in Workers
    /\ pc[s] \in Recording \cup Building \cup {"get_worker"} =>
          job[s].base \in Bases /\ job[s].base = runs[job[s].run]

TasksOfRuns == \A t \in tasks : runs[t[1]] # None

BaseInv ==
    /\ TypeOK
    /\ \A s \in Sessions : SessionOK(s)
    /\ TasksOfRuns
    /\ SharedBaseCommit

-----------------------------------------------------------------------------

\* The empty stores satisfy the base invariant.
LEMMA InitBase == Init => BaseInv
BY DelegationAssumption DEF Init, BaseInv, TypeOK, SessionOK, TasksOfRuns,
   SharedBaseCommit, BusySteps, AssignSteps, Checking, Recording, Building,
   Slots

USE DEF dbVars, gitVars, fileVars

\* The fields of a busy session's command have their types.
LEMMA BusyTypes ==
    ASSUME TypeOK, NEW s \in Sessions, SessionOK(s), pc[s] \in BusySteps
    PROVE  /\ job[s] \in Jobs
           /\ job[s].cmd \in Commands
           /\ job[s].run \in Runs
           /\ job[s].base \in Bases \cup {None}
           /\ job[s].task \in Nat
           /\ job[s].worker \in Workers \cup {0}
           /\ job[s].seq \in Nat
BY DEF SessionOK, Jobs

\* A session that builds an assignment has a slot and a queue id.
LEMMA BuildingTypes ==
    ASSUME TypeOK, NEW s \in Sessions, SessionOK(s), pc[s] \in Building
    PROVE  /\ job[s].run \in Runs
           /\ job[s].base \in Bases
           /\ job[s].worker \in Workers
           /\ job[s].task \in Nat
           /\ Slot(s) \in Slots
           /\ QueueId(s) \in QueueIds
<1>1. pc[s] \in BusySteps
  BY DEF Building, BusySteps
<1>2. job[s].worker \in Workers /\ job[s].base \in Bases
  BY DEF SessionOK
<1> QED
  BY <1>1, <1>2, BusyTypes DEF Slot, Slots, QueueId, QueueIds

\* A changed loop index is still a command.
LEMMA JobUpdate ==
    ASSUME NEW j \in Jobs, NEW i \in Nat, NEW w \in Workers \cup {0}, NEW n \in Nat,
           NEW b \in Bases \cup {None}
    PROVE  /\ [j EXCEPT !.task = i] \in Jobs
           /\ [j EXCEPT !.base = b] \in Jobs
           /\ [j EXCEPT !.task = i, !.worker = w, !.seq = n] \in Jobs
BY DEF Jobs

\* A command starts with a well-typed job.
LEMMA StartJobType ==
    ASSUME TypeOK, NEW s \in Sessions, NEW cmd \in Commands, NEW r \in Runs,
           NEW b \in Bases \cup {None}, NEW i \in Nat, NEW w \in Workers \cup {0},
           NEW n \in Nat, NEW step \in {"get_run", "retry_get_run"},
           StartJob(s, cmd, r, b, i, w, n, step)
    PROVE  TypeOK'
<1>1. job' \in [Sessions -> Jobs \cup {None}]
  BY DEF StartJob, Jobs, TypeOK
<1>2. pc' \in [Sessions -> {"idle", "returned"} \cup BusySteps]
  BY DEF StartJob, Goto, Quit, Continue, BusySteps, TypeOK
<1> QED
  BY <1>1, <1>2 DEF StartJob, TypeOK

\* A command starts at the base check, or is a retry of a recorded ticket.
LEMMA BeginShape ==
    ASSUME TypeOK, NEW s \in Sessions, Begin(s)
    PROVE  \/ \E cmd \in {"handoff", "delegate"}, r \in Runs, b \in Bases :
                 StartJob(s, cmd, r, b, 1, 0, 0, "get_run")
           \/ \E r \in Runs, w \in RetryWorkers, n \in RetrySequences :
                 \E i \in 1 .. PlanSize[r] :
                    /\ <<r, i>> \in tasks
                    /\ StartJob(s, "retry", r, None, i, w, n, "retry_get_run")
<1>1. CASE \E r \in Runs, b \in Bases : BeginHandoff(s, r, b) \/ BeginDelegate(s, r, b)
  BY <1>1 DEF BeginHandoff, BeginDelegate
<1>2. CASE \E r \in Runs : s = Api /\ BeginApiDelegate(r)
  <2>1. PICK r \in Runs : s = Api /\ BeginApiDelegate(r)
    BY <1>2
  <2>2. handoffs[r] \in Bases
    BY <2>1 DEF BeginApiDelegate, TypeOK
  <2> QED
    BY <2>1, <2>2 DEF BeginApiDelegate
<1>3. CASE \E r \in Runs, w \in RetryWorkers, n \in RetrySequences :
              \E i \in 1 .. PlanSize[r] : BeginRetry(s, r, i, w, n)
  BY <1>3 DEF BeginRetry
<1> QED
  BY <1>1, <1>2, <1>3 DEF Begin

\* A session that quits has no command and no assignments.
LEMMA QuitTypes ==
    ASSUME TypeOK, NEW s \in Sessions
    PROVE  Quit(s) => /\ pc' \in [Sessions -> {"idle", "returned"} \cup BusySteps]
                      /\ job' \in [Sessions -> Jobs \cup {None}]
                      /\ assigned' \in [Sessions -> Seq(Slots)]
<1> SUFFICES ASSUME Quit(s)
             PROVE  /\ pc' \in [Sessions -> {"idle", "returned"} \cup BusySteps]
                    /\ job' \in [Sessions -> Jobs \cup {None}]
                    /\ assigned' \in [Sessions -> Seq(Slots)]
  OBVIOUS
<1>1. assigned \in [Sessions -> Seq(Slots)] /\ <<>> \in Seq(Slots)
  BY DEF TypeOK
<1>2. assigned' \in [Sessions -> Seq(Slots)]
  BY <1>1 DEF Quit
<1>3. pc' \in [Sessions -> {"idle", "returned"} \cup BusySteps]
  BY DEF Quit, Goto, TypeOK
<1> QED
  BY <1>2, <1>3 DEF Quit, TypeOK

\* Every step keeps the types.
LEMMA TypeStep ==
    ASSUME BaseInv, [Next]_vars
    PROVE  TypeOK'
<1> USE DEF BaseInv, Goto, Continue, BusySteps, AssignSteps
<1>1. ASSUME NEW s \in Sessions, GetRun(s) PROVE TypeOK'
  BY <1>1, QuitTypes, BusyTypes DEF GetRun, TypeOK, Building
<1>2. ASSUME NEW s \in Sessions, CreateRun(s) PROVE TypeOK'
  <2>1. job[s].run \in Runs /\ job[s].base \in Bases
    BY <1>2, BusyTypes DEF CreateRun, SessionOK, Checking
  <2>2. /\ runs' \in [Runs -> Bases \cup {None}]
        /\ status' \in [Runs -> {None, "created", "plan_approved", "delegating"}]
    <3>1. /\ runs \in [Runs -> Bases \cup {None}]
          /\ status \in [Runs -> {None, "created", "plan_approved", "delegating"}]
      BY DEF TypeOK
    <3> QED
      BY <1>2, <2>1, <3>1 DEF CreateRun
  <2> QED
    BY <1>2, <2>2, QuitTypes DEF CreateRun, TypeOK
<1>3. ASSUME NEW s \in Sessions, RecordHandoff(s) PROVE TypeOK'
  BY <1>3, BusyTypes DEF RecordHandoff, TypeOK, Building
<1>4. ASSUME NEW s \in Sessions, SetPlanApproved(s) PROVE TypeOK'
  BY <1>4, QuitTypes, BusyTypes DEF SetPlanApproved, TypeOK, Building
<1>5. ASSUME NEW s \in Sessions, RecordTask(s) PROVE TypeOK'
  <2>1. job[s] \in Jobs /\ job[s].run \in Runs /\ job[s].task \in Nat
    BY <1>5, BusyTypes DEF RecordTask, Building
  <2>2. job' \in [Sessions -> Jobs \cup {None}]
    <3>1. job \in [Sessions -> Jobs \cup {None}]
      BY DEF TypeOK
    <3>2. [job[s] EXCEPT !.task = job[s].task + 1] \in Jobs
      BY <2>1 DEF Jobs
    <3> QED
      BY <1>5, <3>1, <3>2 DEF RecordTask
  <2> QED
    <3>1. pc' \in [Sessions -> {"idle", "returned"} \cup BusySteps]
      BY <1>5 DEF RecordTask, TypeOK
    <3>2. tasks' \subseteq Runs \X Nat
      BY <1>5, <2>1 DEF RecordTask, TypeOK
    <3> QED
      BY <1>5, <2>2, <3>1, <3>2 DEF RecordTask, TypeOK
<1>6. ASSUME NEW s \in Sessions, SetDelegating(s) PROVE TypeOK'
  <2>1. job[s] \in Jobs /\ job[s].run \in Runs /\ job[s].task \in Nat
    BY <1>6, BusyTypes DEF SetDelegating, Building
  <2>2. job' \in [Sessions -> Jobs \cup {None}]
    <3>1. job \in [Sessions -> Jobs \cup {None}]
      BY DEF TypeOK
    <3>2. 1 \in Workers
      BY <2>1, DelegationAssumption
    <3>3. [job[s] EXCEPT !.task = 1, !.worker = 1, !.seq = 1] \in Jobs
      BY <2>1, <3>2, JobUpdate
    <3> QED
      BY <1>6, <3>1, <3>3 DEF SetDelegating, Quit
  <2> QED
    <3>1. CASE job[s].cmd = "handoff" /\ Quit(s)
      BY <1>6, <2>1, <3>1, QuitTypes DEF SetDelegating, TypeOK
    <3>2. CASE job[s].cmd = "delegate" /\ Goto(s, "get_worker") /\ UNCHANGED <<assigned, known>>
      BY <1>6, <2>1, <2>2, <3>2 DEF SetDelegating, TypeOK
    <3> QED
      BY <1>6, <3>1, <3>2 DEF SetDelegating
<1>7. ASSUME NEW s \in Sessions, GetWorker(s) PROVE TypeOK'
  <2>1. job[s] \in Jobs /\ job[s].run \in Runs /\ job[s].task \in Nat
    BY <1>7, BusyTypes DEF GetWorker, Building
  <2>2. job' \in [Sessions -> Jobs \cup {None}]
    <3>1. job \in [Sessions -> Jobs \cup {None}]
      BY DEF TypeOK
    <3>2. ASSUME job[s].task < PlanSize[job[s].run]
          PROVE  [job[s] EXCEPT !.task = job[s].task + 1, !.worker = job[s].task + 1,
                                !.seq = job[s].task + 1] \in Jobs
      <4>1. job[s].task + 1 \in Workers /\ job[s].task + 1 \in Nat
        BY <2>1, <3>2, DelegationAssumption
      <4> QED
        BY <2>1, <4>1, JobUpdate
    <3> QED
      BY <1>7, <3>1, <3>2 DEF GetWorker, NextTicket
  <2>3. assigned' \in [Sessions -> Seq(Slots)]
    <3>1. assigned \in [Sessions -> Seq(Slots)]
      BY DEF TypeOK
    <3>2. ASSUME NEW k \in Slots PROVE Append(assigned[s], k) \in Seq(Slots)
      BY <3>1
    <3> QED
      BY <1>7, <3>1, <3>2 DEF GetWorker, RowsOf
  <2> QED
    BY <1>7, <2>1, <2>2, <2>3 DEF GetWorker, NextTicket, TypeOK
<1>8. ASSUME NEW s \in Sessions, RetryGetRun(s) PROVE TypeOK'
  <2>1. job[s] \in Jobs /\ job[s].run \in Runs /\ job[s].task \in Nat
    BY <1>8, BusyTypes DEF RetryGetRun, Building
  <2>2. job' \in [Sessions -> Jobs \cup {None}]
    BY <1>8, <2>1, JobUpdate DEF RetryGetRun, TypeOK
  <2> QED
    BY <1>8, <2>1, <2>2 DEF RetryGetRun, TypeOK
<1>9. ASSUME NEW s \in Sessions, AddWorktree(s) PROVE TypeOK'
  <2>1. job[s].base \in Bases /\ Slot(s) \in Slots
    BY <1>9, BuildingTypes DEF AddWorktree, Building
  <2>2. branches' \subseteq Slots /\ worktree' \in [Slots -> Bases \cup {None}]
    BY <1>9, <2>1 DEF AddWorktree, TypeOK
  <2> QED
    BY <1>9, <2>2 DEF AddWorktree, TypeOK
<1>26. ASSUME NEW s \in Sessions, CheckWorktree(s) PROVE TypeOK'
  BY <1>26, QuitTypes DEF CheckWorktree, TypeOK
<1>25. ASSUME NEW s \in Sessions, RemoveWorktree(s) PROVE TypeOK'
  <2>1. Slot(s) \in Slots
    BY <1>25, BuildingTypes DEF RemoveWorktree, Building
  <2>2. /\ worktree' \in [Slots -> Bases \cup {None}] /\ workerContext' \subseteq Slots
        /\ removed' \subseteq Slots
    BY <1>25, <2>1 DEF RemoveWorktree, TypeOK
  <2>3. workerQueue' \in [Slots -> Seq(QueueIds)]
    <3>1. workerQueue \in [Slots -> Seq(QueueIds)] /\ <<>> \in Seq(QueueIds)
      BY DEF TypeOK
    <3> QED
      BY <1>25, <2>1, <3>1 DEF RemoveWorktree
  <2> QED
    BY <1>25, <2>2, <2>3, QuitTypes DEF RemoveWorktree, TypeOK
<1>10. ASSUME NEW s \in Sessions, PrepareChiefContext(s) PROVE TypeOK'
  BY <1>10, BuildingTypes DEF PrepareChiefContext, TypeOK, Building
<1>11. ASSUME NEW s \in Sessions, PrepareWorkerContext(s) PROVE TypeOK'
  BY <1>11, BuildingTypes DEF PrepareWorkerContext, TypeOK, Building
<1>12. ASSUME NEW s \in Sessions, RecordContextEvent(s) PROVE TypeOK'
  BY <1>12, BuildingTypes DEF RecordContextEvent, TypeOK, Building
<1>13. ASSUME NEW s \in Sessions, AssignRecordTask(s) PROVE TypeOK'
  BY <1>13, BuildingTypes DEF AssignRecordTask, TypeOK, Building
<1>14. ASSUME NEW s \in Sessions, RecordWorker(s) PROVE TypeOK'
  BY <1>14, BuildingTypes DEF RecordWorker, TypeOK, Building
<1>15. ASSUME NEW s \in Sessions, CheckQueue(s) PROVE TypeOK'
  BY <1>15, QuitTypes, BuildingTypes DEF CheckQueue, TypeOK, Building
<1>16. ASSUME NEW s \in Sessions, AppendChiefQueue(s) PROVE TypeOK'
  <2>1. job[s].worker \in Workers /\ QueueId(s) \in QueueIds
    BY <1>16, BuildingTypes DEF AppendChiefQueue, Building
  <2>2. chiefQueue' \in [Workers -> Seq(QueueIds)]
    <3>1. chiefQueue \in [Workers -> Seq(QueueIds)]
      BY DEF TypeOK
    <3>2. Append(chiefQueue[job[s].worker], QueueId(s)) \in Seq(QueueIds)
      BY <2>1, <3>1
    <3> QED
      BY <1>16, <2>1, <3>1, <3>2 DEF AppendChiefQueue
  <2> QED
    BY <1>16, <2>2 DEF AppendChiefQueue, TypeOK
<1>17. ASSUME NEW s \in Sessions, AppendWorkerQueue(s) PROVE TypeOK'
  BY <1>17, BuildingTypes DEF AppendWorkerQueue, TypeOK, Building
<1>18. ASSUME NEW s \in Sessions, RecordQueueEntry(s) PROVE TypeOK'
  <2>1. job[s] \in Jobs /\ job[s].run \in Runs /\ job[s].task \in Nat
    BY <1>18, BuildingTypes, BusyTypes DEF RecordQueueEntry, Building
  <2>2. job' \in [Sessions -> Jobs \cup {None}]
    <3>1. job \in [Sessions -> Jobs \cup {None}]
      BY DEF TypeOK
    <3>2. ASSUME job[s].task < PlanSize[job[s].run]
          PROVE  [job[s] EXCEPT !.task = job[s].task + 1, !.worker = job[s].task + 1,
                                !.seq = job[s].task + 1] \in Jobs
      <4>1. job[s].task + 1 \in Workers /\ job[s].task + 1 \in Nat
        BY <2>1, <3>2, DelegationAssumption
      <4> QED
        BY <2>1, <4>1, JobUpdate
    <3> QED
      BY <1>18, <3>1, <3>2 DEF RecordQueueEntry, NextTicket
  <2>3. /\ assigned' \in [Sessions -> Seq(Slots)]
        /\ queueRows' \subseteq QueueIds
    <3>1. assigned \in [Sessions -> Seq(Slots)] /\ queueRows \subseteq QueueIds
      BY DEF TypeOK
    <3>2. Slot(s) \in Slots /\ QueueId(s) \in QueueIds
      BY <1>18, BuildingTypes DEF RecordQueueEntry, Building
    <3>3. Append(assigned[s], Slot(s)) \in Seq(Slots)
      BY <3>1, <3>2
    <3> QED
      BY <1>18, <3>1, <3>2, <3>3 DEF RecordQueueEntry
  <2> QED
    BY <1>18, <2>1, <2>2, <2>3 DEF RecordQueueEntry, NextTicket, TypeOK
<1>19. ASSUME NEW s \in Sessions, RecordRetryEvent(s) PROVE TypeOK'
  BY <1>19, QuitTypes, BuildingTypes DEF RecordRetryEvent, TypeOK, Building
<1>20. ASSUME NEW s \in Sessions, AddWorktreeFails(s) PROVE TypeOK'
  <2>1. job[s].base \in Bases /\ Slot(s) \in Slots
    BY <1>20, BuildingTypes DEF AddWorktreeFails, Building
  <2>2. branches' \subseteq Slots /\ worktree' \in [Slots -> Bases \cup {None}]
    BY <1>20, <2>1 DEF AddWorktreeFails, TypeOK
  <2>3. faults' \in 0 .. MaxFaults
    BY <1>20, DelegationAssumption DEF AddWorktreeFails, TypeOK
  <2> QED
    BY <1>20, <2>2, <2>3 DEF AddWorktreeFails, TypeOK
<1>21. ASSUME NEW s \in Sessions, Fail(s) PROVE TypeOK'
  <2>1. faults' \in 0 .. MaxFaults /\ Quit(s)
    BY <1>21, DelegationAssumption DEF Fail, TypeOK
  <2>2. /\ pc' \in [Sessions -> {"idle", "returned"} \cup BusySteps]
        /\ job' \in [Sessions -> Jobs \cup {None}]
        /\ assigned' \in [Sessions -> Seq(Slots)]
    BY <1>21, <2>1, QuitTypes
  <2> QED
    BY <1>21, <2>1, <2>2 DEF Fail, TypeOK
<1>22. ASSUME ApiRestart PROVE TypeOK'
  <2>1. faults' \in 0 .. MaxFaults /\ known' \subseteq Runs /\ Api \in Sessions /\ Quit(Api)
    BY <1>22, DelegationAssumption DEF ApiRestart, TypeOK
  <2> QED
    BY <1>22, <2>1, QuitTypes DEF ApiRestart, TypeOK
<1>23. ASSUME NEW s \in Sessions, Begin(s) PROVE TypeOK'
  <2>1. CASE \E cmd \in {"handoff", "delegate"}, r \in Runs, b \in Bases :
                StartJob(s, cmd, r, b, 1, 0, 0, "get_run")
    BY <2>1, StartJobType DEF Commands
  <2>2. CASE \E r \in Runs, w \in RetryWorkers, n \in RetrySequences :
                \E i \in 1 .. PlanSize[r] :
                    /\ <<r, i>> \in tasks
                    /\ StartJob(s, "retry", r, None, i, w, n, "retry_get_run")
    <3>1. PICK r \in Runs, w \in RetryWorkers, n \in RetrySequences :
                 \E i \in 1 .. PlanSize[r] :
                    StartJob(s, "retry", r, None, i, w, n, "retry_get_run")
      BY <2>2
    <3>2. PICK i \in 1 .. PlanSize[r] :
                 StartJob(s, "retry", r, None, i, w, n, "retry_get_run")
      BY <3>1
    <3>3. w \in Workers /\ n \in Nat /\ i \in Nat
      BY DelegationAssumption
    <3> QED
      BY <3>2, <3>3, StartJobType DEF Commands
  <2> QED
    BY <1>23, <2>1, <2>2, BeginShape
<1>24. CASE UNCHANGED vars
  BY <1>24 DEF vars, TypeOK
<1> QED
  BY <1>1, <1>2, <1>3, <1>4, <1>5, <1>6, <1>7, <1>8, <1>9, <1>10, <1>11, <1>12, <1>13,
     <1>14, <1>15, <1>16, <1>17, <1>18, <1>19, <1>20, <1>21, <1>22, <1>23, <1>24, <1>25,
     <1>26 DEF Next, SessionStep

-----------------------------------------------------------------------------

\* A session's command fails or its process dies.
Stops(s) == Fail(s) \/ (s = Api /\ ApiRestart)

\* One step of one session.
StepOf(s) == Begin(s) \/ SessionStep(s) \/ AddWorktreeFails(s) \/ Stops(s)

\* Whatever happens is a step of a session.
LEMMA SomeStep == [Next]_vars => (\E s \in Sessions : StepOf(s)) \/ UNCHANGED vars
BY DEF Next, StepOf, Stops, ApiRestart

LEMMA StepIsNext ==
    ASSUME NEW s \in Sessions, StepOf(s)
    PROVE  [Next]_vars
BY DEF Next, StepOf, Stops

\* The base commit of a run never changes once recorded.
LEMMA RunsStable ==
    ASSUME TypeOK, NEW s \in Sessions, StepOf(s)
    PROVE  \A r \in Runs : runs[r] # None => runs'[r] = runs[r]
<1>1. CASE CreateRun(s)
  BY <1>1 DEF CreateRun, TypeOK
<1>2. CASE ~ CreateRun(s)
  BY <1>2 DEF StepOf, SessionStep, CheckWorktree, AddWorktreeFails, RemoveWorktree, Stops,
         Fail, ApiRestart, Begin, BeginHandoff,
         BeginDelegate, BeginApiDelegate, BeginRetry, StartJob, GetRun,
         RecordHandoff, SetPlanApproved, RecordTask,
         SetDelegating, GetWorker, RetryGetRun, AddWorktree, PrepareChiefContext,
         PrepareWorkerContext, RecordContextEvent, AssignRecordTask, RecordWorker, CheckQueue,
         AppendChiefQueue, AppendWorkerQueue, RecordQueueEntry, RecordRetryEvent
<1> QED
  BY <1>1, <1>2

\* A step of one session moves no other session.
LEMMA OthersWait ==
    ASSUME TypeOK, NEW s \in Sessions, StepOf(s), NEW t \in Sessions \ {s}
    PROVE  pc'[t] = pc[t] /\ job'[t] = job[t]
<1>1. /\ pc \in [Sessions -> {"idle", "returned"} \cup BusySteps]
      /\ job \in [Sessions -> Jobs \cup {None}]
  BY DEF TypeOK
<1>2. CASE Begin(s)
  <2>1. ASSUME NEW cmd, NEW r, NEW b, NEW i, NEW w, NEW n, NEW step,
               StartJob(s, cmd, r, b, i, w, n, step)
        PROVE  pc'[t] = pc[t] /\ job'[t] = job[t]
    BY <1>1, <2>1 DEF StartJob, Goto, Quit, Continue
  <2> QED
    BY <1>2, <2>1, BeginShape
<1>3. CASE GetRun(s) \/ CreateRun(s) \/ RecordHandoff(s) \/ SetPlanApproved(s)
  BY <1>1, <1>3 DEF GetRun, CreateRun, RecordHandoff, SetPlanApproved, Goto, Quit, Continue
<1>4. CASE RecordTask(s) \/ SetDelegating(s)
  BY <1>1, <1>4 DEF RecordTask, SetDelegating, Goto, Quit, Continue
<1>5. CASE GetWorker(s) \/ RetryGetRun(s)
  BY <1>1, <1>5 DEF GetWorker, RetryGetRun, NextTicket, Goto, Quit, Continue
<1>6. CASE \/ AddWorktree(s) \/ AddWorktreeFails(s) \/ Stops(s) \/ CheckWorktree(s)
           \/ RemoveWorktree(s) \/ PrepareChiefContext(s)
  BY <1>1, <1>6 DEF AddWorktree, AddWorktreeFails, Stops, Fail, ApiRestart,
     CheckWorktree, RemoveWorktree, PrepareChiefContext, Goto, Quit, Continue
<1>7. CASE PrepareWorkerContext(s) \/ RecordContextEvent(s) \/ AssignRecordTask(s) \/ RecordWorker(s)
  BY <1>1, <1>7 DEF PrepareWorkerContext, RecordContextEvent, AssignRecordTask,
     RecordWorker, Goto, Quit, Continue
<1>8. CASE CheckQueue(s) \/ AppendChiefQueue(s) \/ AppendWorkerQueue(s)
  BY <1>1, <1>8 DEF CheckQueue, AppendChiefQueue, AppendWorkerQueue, Goto, Quit, Continue
<1>9. CASE RecordQueueEntry(s) \/ RecordRetryEvent(s)
  BY <1>1, <1>9 DEF RecordQueueEntry, RecordRetryEvent, NextTicket, Goto, Quit, Continue
<1> QED
  BY <1>2, <1>3, <1>4, <1>5, <1>6, <1>7, <1>8, <1>9 DEF StepOf, SessionStep

\* What a session relies on survives the steps of the others.
LEMMA SessionFrame ==
    ASSUME TypeOK, NEW t \in Sessions, SessionOK(t), pc'[t] = pc[t], job'[t] = job[t],
           \A r \in Runs : runs[r] # None => runs'[r] = runs[r]
    PROVE  SessionOK(t)'
<1>1. ASSUME pc[t] \in BusySteps, runs[job[t].run] # None
      PROVE  runs'[job[t].run] = runs[job[t].run]
  BY <1>1, BusyTypes
<1> QED
  BY <1>1, DelegationAssumption
     DEF SessionOK, BusySteps, AssignSteps, Checking, Recording, Building

\* The loop of delegate_tasks goes on with a ticket of the plan, or ends.
LEMMA NextTicketOK ==
    ASSUME TypeOK, NEW s \in Sessions, SessionOK(s), NextTicket(s), runs' = runs,
           pc[s] \in {"get_worker"} \cup Building, job[s].cmd = "delegate"
    PROVE  SessionOK(s)'
<1> USE DEF Goto, Quit, Continue, BusySteps, AssignSteps, Checking, Recording, Building
<1>1. /\ job[s] \in Jobs /\ job[s].run \in Runs /\ job[s].task \in 1 .. PlanSize[job[s].run]
      /\ job[s].base \in Bases /\ job[s].base = runs[job[s].run]
  BY BusyTypes DEF SessionOK
<1>2. /\ pc \in [Sessions -> {"idle", "returned"} \cup BusySteps]
      /\ job \in [Sessions -> Jobs \cup {None}]
  BY DEF TypeOK
<1>3. CASE job[s].task < PlanSize[job[s].run]
  <2>1. job[s].task + 1 \in 1 .. PlanSize[job[s].run] /\ job[s].task + 1 \in Workers
    BY <1>1, <1>3, DelegationAssumption
  <2>2. /\ pc'[s] = "get_worker"
        /\ job'[s] = [job[s] EXCEPT !.task = job[s].task + 1, !.worker = job[s].task + 1,
                                    !.seq = job[s].task + 1]
    <3>1. job[s].task # PlanSize[job[s].run]
      BY <1>1, <1>3, DelegationAssumption
    <3> QED
      BY <1>2, <1>3, <3>1 DEF NextTicket
  <2>3. job'[s] \in Jobs /\ job'[s].task = job[s].task + 1 /\ job'[s].run = job[s].run
        /\ job'[s].worker = job[s].task + 1 /\ job'[s].cmd = "delegate"
        /\ job'[s].base = job[s].base
    <3>1. [job[s] EXCEPT !.task = job[s].task + 1, !.worker = job[s].task + 1,
                         !.seq = job[s].task + 1] \in Jobs
      <4>1. job[s].task + 1 \in Nat
        BY <1>1, DelegationAssumption
      <4> QED
        BY <1>1, <2>1, <4>1, JobUpdate
    <3> QED
      BY <1>1, <2>2, <3>1 DEF Jobs
  <2> QED
    BY <1>1, <2>1, <2>2, <2>3 DEF SessionOK
<1>4. CASE pc' = [pc EXCEPT ![s] = "returned"] /\ job' = job
  BY <1>2, <1>4 DEF SessionOK
<1> QED
  BY <1>3, <1>4 DEF NextTicket

\* The session that moves keeps its own facts.
LEMMA OwnStep ==
    ASSUME BaseInv, NEW s \in Sessions, StepOf(s)
    PROVE  SessionOK(s)'
<1> USE DEF Goto, Quit, Continue, BusySteps, AssignSteps, Checking, Recording, Building
<1>1. TypeOK /\ SessionOK(s)
  BY DEF BaseInv
<1>2. pc \in [Sessions -> {"idle", "returned"} \cup BusySteps]
      /\ job \in [Sessions -> Jobs \cup {None}] /\ runs \in [Runs -> Bases \cup {None}]
  BY DEF TypeOK, BaseInv
<1>3. TypeOK'
  BY TypeStep, StepIsNext
<1>4. CASE GetRun(s)
  BY <1>1, <1>2, <1>4, BusyTypes, DelegationAssumption DEF GetRun, SessionOK
<1>5. CASE CreateRun(s)
  BY <1>1, <1>2, <1>5, BusyTypes, DelegationAssumption DEF CreateRun, SessionOK
<1>6. CASE RecordHandoff(s)
  BY <1>1, <1>2, <1>6, BusyTypes, DelegationAssumption DEF RecordHandoff, SessionOK
<1>7. CASE SetPlanApproved(s)
  <2>1. /\ pc[s] = "plan_approved" /\ runs' = runs
        /\ pc'[s] = "idle" \/ (pc'[s] = "record_task" /\ job' = job)
    BY <1>2, <1>7 DEF SetPlanApproved
  <2>2. 1 \in 1 .. PlanSize[job[s].run]
    BY <1>1, <2>1, BusyTypes, DelegationAssumption
  <2> QED
    BY <1>1, <2>1, <2>2 DEF SessionOK
<1>8. CASE RecordTask(s)
  <2>1. pc[s] = "record_task" /\ runs' = runs
    BY <1>8 DEF RecordTask
  <2>2. job[s] \in Jobs /\ job[s].run \in Runs /\ PlanSize[job[s].run] \in Nat
    BY <1>1, <2>1, BusyTypes, DelegationAssumption
  <2>3. CASE job[s].task < PlanSize[job[s].run]
    <3>1. /\ pc' = pc
          /\ job'[s] = [job[s] EXCEPT !.task = job[s].task + 1]
      BY <1>2, <1>8, <2>2, <2>3 DEF RecordTask
    <3>2. job[s].task + 1 \in 1 .. PlanSize[job[s].run]
      BY <1>1, <2>1, <2>2, <2>3 DEF SessionOK
    <3>3. job'[s] \in Jobs /\ job'[s].task = job[s].task + 1 /\ job'[s].run = job[s].run
          /\ job'[s].cmd = job[s].cmd /\ job'[s].base = job[s].base
      BY <2>2, <3>1, <3>2 DEF Jobs
    <3> QED
      BY <1>1, <2>1, <3>1, <3>2, <3>3 DEF SessionOK
  <2>4. CASE job[s].task = PlanSize[job[s].run]
    <3>1. pc'[s] = "set_delegating" /\ job' = job
      BY <1>2, <1>8, <2>2, <2>4 DEF RecordTask
    <3> QED
      BY <1>1, <2>1, <3>1 DEF SessionOK
  <2> QED
    BY <1>8, <2>3, <2>4 DEF RecordTask
<1>9. CASE SetDelegating(s)
  <2>1. pc[s] = "set_delegating" /\ runs' = runs
    BY <1>9 DEF SetDelegating
  <2>2. job[s] \in Jobs /\ job[s].run \in Runs
    BY <1>1, <2>1, BusyTypes
  <2>3. CASE job[s].cmd = "handoff"
    <3>1. pc'[s] = "idle"
      BY <1>2, <1>9, <2>3 DEF SetDelegating
    <3> QED
      BY <3>1 DEF SessionOK
  <2>4. CASE job[s].cmd = "delegate"
    <3>1. /\ pc'[s] = "get_worker"
          /\ job'[s] = [job[s] EXCEPT !.task = 1, !.worker = 1, !.seq = 1]
      BY <1>2, <1>9, <2>4 DEF SetDelegating
    <3>2. 1 \in 1 .. PlanSize[job[s].run] /\ 1 \in Workers
      BY <2>2, DelegationAssumption
    <3>3. job'[s] \in Jobs /\ job'[s].task = 1 /\ job'[s].worker = 1 /\ job'[s].run = job[s].run
          /\ job'[s].cmd = "delegate" /\ job'[s].base = job[s].base
      <4>1. [job[s] EXCEPT !.task = 1, !.worker = 1, !.seq = 1] \in Jobs
        BY <2>2, <3>2, JobUpdate
      <4> QED
        BY <2>2, <2>4, <3>1, <4>1 DEF Jobs
    <3> QED
      BY <1>1, <2>1, <3>1, <3>2, <3>3 DEF SessionOK
  <2> QED
    BY <1>9, <2>3, <2>4 DEF SetDelegating
<1>10. CASE GetWorker(s)
  <2>1. pc[s] = "get_worker" /\ runs' = runs
    BY <1>10 DEF GetWorker
  <2>2. CASE NextTicket(s)
    BY <1>1, <2>1, <2>2, NextTicketOK DEF SessionOK
  <2>3. CASE pc' = [pc EXCEPT ![s] = "check_worktree"] /\ job' = job
    BY <1>1, <1>2, <2>1, <2>3 DEF SessionOK
  <2> QED
    BY <1>10, <2>2, <2>3 DEF GetWorker
<1>11. CASE RetryGetRun(s)
  <2>1. /\ pc[s] = "retry_get_run" /\ pc'[s] = "check_worktree" /\ runs' = runs
        /\ job'[s] = [job[s] EXCEPT !.base = runs[job[s].run]]
    BY <1>2, <1>11 DEF RetryGetRun
  <2>2. job[s] \in Jobs /\ runs[job[s].run] \in Bases
    BY <1>1, <2>1, BusyTypes DEF SessionOK
  <2>3. job'[s] \in Jobs /\ job'[s].base = runs[job[s].run] /\ job'[s].run = job[s].run
        /\ job'[s].cmd = job[s].cmd /\ job'[s].task = job[s].task
        /\ job'[s].worker = job[s].worker
    BY <2>1, <2>2 DEF Jobs
  <2> QED
    BY <1>1, <2>1, <2>2, <2>3 DEF SessionOK
<1>12. CASE CheckWorktree(s) \/ AddWorktree(s)
  BY <1>1, <1>2, <1>12, BusyTypes, DelegationAssumption DEF CheckWorktree, AddWorktree, SessionOK
<1>13. CASE PrepareChiefContext(s)
  BY <1>1, <1>2, <1>13, BusyTypes, DelegationAssumption DEF PrepareChiefContext, SessionOK
<1>14. CASE PrepareWorkerContext(s)
  BY <1>1, <1>2, <1>14, BusyTypes, DelegationAssumption DEF PrepareWorkerContext, SessionOK
<1>15. CASE RecordContextEvent(s)
  BY <1>1, <1>2, <1>15, BusyTypes, DelegationAssumption DEF RecordContextEvent, SessionOK
<1>16. CASE AssignRecordTask(s)
  BY <1>1, <1>2, <1>16, BusyTypes, DelegationAssumption DEF AssignRecordTask, SessionOK
<1>17. CASE RecordWorker(s)
  BY <1>1, <1>2, <1>17, BusyTypes, DelegationAssumption DEF RecordWorker, SessionOK
<1>18. CASE CheckQueue(s)
  BY <1>1, <1>2, <1>18, BusyTypes, DelegationAssumption DEF CheckQueue, SessionOK
<1>19. CASE AppendChiefQueue(s)
  BY <1>1, <1>2, <1>19, BusyTypes, DelegationAssumption DEF AppendChiefQueue, SessionOK
<1>20. CASE AppendWorkerQueue(s)
  BY <1>1, <1>2, <1>20, BusyTypes, DelegationAssumption DEF AppendWorkerQueue, SessionOK
<1>21. CASE RecordQueueEntry(s)
  <2>1. pc[s] = "queue_row" /\ runs' = runs
    BY <1>21 DEF RecordQueueEntry
  <2>2. CASE job[s].cmd = "delegate" /\ NextTicket(s)
    BY <1>1, <2>1, <2>2, NextTicketOK DEF SessionOK
  <2>3. CASE pc' = [pc EXCEPT ![s] = "retry_event"] /\ job' = job
    BY <1>1, <1>2, <2>1, <2>3 DEF SessionOK
  <2> QED
    BY <1>21, <2>2, <2>3 DEF RecordQueueEntry
<1>22. CASE RecordRetryEvent(s)
  BY <1>1, <1>2, <1>22, BusyTypes, DelegationAssumption DEF RecordRetryEvent, SessionOK
<1>23. CASE AddWorktreeFails(s)
  BY <1>1, <1>2, <1>23, BusyTypes, DelegationAssumption DEF AddWorktreeFails, SessionOK
<1>24. CASE RemoveWorktree(s) \/ Stops(s)
  <2>1. pc'[s] = "idle"
    BY <1>2, <1>24 DEF RemoveWorktree, Stops, Fail, ApiRestart
  <2> QED
    BY <2>1 DEF SessionOK
<1>25. CASE Begin(s)
  <2>1. ASSUME NEW cmd \in {"handoff", "delegate"}, NEW r \in Runs, NEW b \in Bases,
               StartJob(s, cmd, r, b, 1, 0, 0, "get_run")
        PROVE  SessionOK(s)'
    BY <1>2, <2>1 DEF StartJob, SessionOK, Jobs, Commands
  <2>2. ASSUME NEW r \in Runs, NEW w \in RetryWorkers, NEW n \in RetrySequences,
               NEW i \in 1 .. PlanSize[r], <<r, i>> \in tasks,
               StartJob(s, "retry", r, None, i, w, n, "retry_get_run")
        PROVE  SessionOK(s)'
    <3>1. w \in Workers /\ n \in Nat /\ i \in Nat
      BY DelegationAssumption
    <3>2. runs[r] \in Bases
      BY <1>2, <2>2 DEF BaseInv, TasksOfRuns
    <3>3. /\ pc'[s] = "retry_get_run" /\ runs' = runs
          /\ job'[s] = [cmd |-> "retry", run |-> r, base |-> None, task |-> i,
                        worker |-> w, seq |-> n]
      BY <1>2, <2>2 DEF StartJob
    <3>4. job'[s] \in Jobs
      BY <3>1, <3>3 DEF Jobs, Commands
    <3> QED
      BY <3>1, <3>2, <3>3, <3>4 DEF SessionOK
  <2> QED
    BY <1>1, <1>25, <2>1, <2>2, BeginShape
<1> QED
  BY <1>4, <1>5, <1>6, <1>7, <1>8, <1>9, <1>10, <1>11, <1>12, <1>13, <1>14, <1>15,
     <1>16, <1>17, <1>18, <1>19, <1>20, <1>21, <1>22, <1>23, <1>24, <1>25 DEF StepOf,
     SessionStep

\* The base of a worktree, of an assignment and of a handoff is written by a
\* session that has passed the base check.
LEMMA SharedStep ==
    ASSUME BaseInv, NEW s \in Sessions, StepOf(s)
    PROVE  TasksOfRuns' /\ SharedBaseCommit'
<1> USE DEF Goto, Quit, Continue, Recording, Building
<1>1. TypeOK /\ SessionOK(s) /\ TasksOfRuns /\ SharedBaseCommit
  BY DEF BaseInv
<1>2. \A r \in Runs : runs[r] # None => runs'[r] = runs[r]
  BY <1>1, RunsStable
<1>3. TypeOK'
  BY TypeStep, StepIsNext
<1>4. ASSUME UNCHANGED <<tasks, worktree, workerRow, handoffs>>
      PROVE  TasksOfRuns' /\ SharedBaseCommit'
  BY <1>1, <1>2, <1>4, DelegationAssumption DEF TypeOK, TasksOfRuns, SharedBaseCommit, Slots
<1>5. ASSUME tasks' = tasks \cup {<<job[s].run, job[s].task>>}, runs' = runs,
             UNCHANGED <<worktree, workerRow, handoffs>>, pc[s] \in Recording \cup Building
      PROVE  TasksOfRuns' /\ SharedBaseCommit'
  BY <1>1, <1>5, DelegationAssumption DEF SessionOK, TasksOfRuns, SharedBaseCommit
<1>6. CASE RecordTask(s) \/ AssignRecordTask(s)
  BY <1>5, <1>6 DEF RecordTask, AssignRecordTask, AssignSteps
<1>7. CASE RecordHandoff(s)
  BY <1>1, <1>7 DEF RecordHandoff, SessionOK, TypeOK, TasksOfRuns, SharedBaseCommit
<1>8. ASSUME worktree' = [worktree EXCEPT ![Slot(s)] = job[s].base], runs' = runs,
             UNCHANGED <<tasks, workerRow, handoffs>>, pc[s] = "add_worktree"
      PROVE  TasksOfRuns' /\ SharedBaseCommit'
  BY <1>1, <1>8 DEF SessionOK, TypeOK, TasksOfRuns, SharedBaseCommit, Slot
<1>9. CASE AddWorktree(s) \/ AddWorktreeFails(s)
  BY <1>4, <1>8, <1>9 DEF AddWorktree, AddWorktreeFails
<1>14. CASE RemoveWorktree(s)
  <2>1. Slot(s) \in Slots
    BY <1>1, <1>14, BuildingTypes DEF RemoveWorktree
  <2>2. \A k \in Slots : worktree'[k] \in {None, worktree[k]}
    BY <1>1, <1>14, <2>1 DEF RemoveWorktree, TypeOK
  <2> QED
    BY <1>1, <1>14, <2>2 DEF RemoveWorktree, TasksOfRuns, SharedBaseCommit
<1>10. CASE RecordWorker(s)
  BY <1>1, <1>10 DEF RecordWorker, SessionOK, TypeOK, TasksOfRuns, SharedBaseCommit, Slot,
                     AssignSteps
<1>11. CASE \/ GetRun(s) \/ CreateRun(s) \/ SetPlanApproved(s) \/ SetDelegating(s)
            \/ GetWorker(s) \/ RetryGetRun(s) \/ PrepareChiefContext(s)
            \/ PrepareWorkerContext(s) \/ RecordContextEvent(s)
  BY <1>4, <1>11 DEF GetRun, CreateRun, SetPlanApproved, SetDelegating, GetWorker, RetryGetRun,
                     PrepareChiefContext, PrepareWorkerContext, RecordContextEvent
<1>12. CASE \/ CheckQueue(s) \/ AppendChiefQueue(s) \/ AppendWorkerQueue(s)
            \/ RecordQueueEntry(s) \/ RecordRetryEvent(s) \/ Stops(s) \/ CheckWorktree(s)
  BY <1>4, <1>12 DEF CheckQueue, AppendChiefQueue, AppendWorkerQueue, RecordQueueEntry,
                     RecordRetryEvent, Stops, Fail, ApiRestart, CheckWorktree
<1>13. CASE Begin(s)
  <2>1. ASSUME NEW cmd, NEW r, NEW b, NEW i, NEW w, NEW n, NEW step,
               StartJob(s, cmd, r, b, i, w, n, step)
        PROVE  TasksOfRuns' /\ SharedBaseCommit'
    BY <1>4, <2>1 DEF StartJob
  <2> QED
    BY <1>1, <1>13, <2>1, BeginShape
<1> QED
  BY <1>6, <1>7, <1>9, <1>10, <1>11, <1>12, <1>13, <1>14 DEF StepOf, SessionStep

\* The inductive step: by a session, or a stutter.
LEMMA BaseStep == BaseInv /\ [Next]_vars => BaseInv'
<1> SUFFICES ASSUME BaseInv, [Next]_vars PROVE BaseInv'
  OBVIOUS
<1>1. TypeOK'
  BY TypeStep
<1>2. ASSUME NEW s \in Sessions, StepOf(s) PROVE BaseInv'
  <2>1. ASSUME NEW t \in Sessions PROVE SessionOK(t)'
    <3>1. CASE t = s
      BY <1>2, <3>1, OwnStep
    <3>2. CASE t # s
      BY <1>2, <3>2, RunsStable, OthersWait, SessionFrame DEF BaseInv
    <3> QED
      BY <3>1, <3>2
  <2> QED
    BY <1>1, <1>2, <2>1, SharedStep DEF BaseInv
<1>4. CASE UNCHANGED vars
  BY <1>1, <1>4 DEF vars, BaseInv, SessionOK, TasksOfRuns, SharedBaseCommit
<1> QED
  BY <1>2, <1>4, SomeStep

\* Every reachable state is well typed: the handlers never index a store with
\* a command's missing field, for any number of sessions, runs and failures.
THEOREM TypeCorrect == Spec => []TypeOK
<1>1. BaseInv => TypeOK
  BY DEF BaseInv
<1> QED
  BY InitBase, BaseStep, <1>1, PTL DEF Spec

\* accept_planner_handoff's check keeps every worktree, assignment and stored
\* handoff of a run on the one base commit of the run, for any number of
\* racing sessions, candidate commits, retries and failures.
THEOREM SharedBase == Spec => []SharedBaseCommit
<1>1. BaseInv => SharedBaseCommit
  BY DEF BaseInv
<1> QED
  BY InitBase, BaseStep, <1>1, PTL DEF Spec

-----------------------------------------------------------------------------
(* What assign_task has made durable when a session stands before a call.   *)

FromContextEvent == {"context_event", "assign_record_task", "record_worker",
                     "check_queue", "queue_chief", "queue_worker", "queue_row"}
FromRecordTask   == FromContextEvent \ {"context_event"}
FromRecordWorker == FromRecordTask \ {"assign_record_task"}
FromCheckQueue   == FromRecordWorker \ {"record_worker"}
BeforeRow        == AssignSteps \ FromCheckQueue

\* A session that builds may have lost its worktree to another one, but not
\* its branch.
BuildOK(s) ==
    /\ pc[s] \in AssignSteps =>
          /\ Slot(s) \in branches
          /\ worktree[Slot(s)] = runs[job[s].run] \/ Slot(s) \in removed
    /\ pc[s] \in FromContextEvent => Slot(s) \in workerContext \/ Slot(s) \in removed
    /\ pc[s] \in FromRecordTask => <<"subagent_context_prepared", Slot(s)>> \in events
    /\ pc[s] \in FromRecordWorker => <<job[s].run, job[s].task>> \in tasks
    /\ pc[s] \in BeforeRow => workerRow[Slot(s)] = None
    /\ pc[s] \in FromCheckQueue => workerRow[Slot(s)] # None
    /\ pc[s] \in {"queue_worker", "queue_row"} =>
          Contains(chiefQueue[job[s].worker], QueueId(s))
    /\ pc[s] = "queue_row" =>
          Contains(workerQueue[Slot(s)], QueueId(s)) \/ Slot(s) \in removed

\* The branch is what is left of a removed worktree, and what every directory
\* has: `git worktree add -b` cannot make either a second time.
BranchStays ==
    \A k \in Slots :
        /\ k \in removed => worktree[k] = None /\ k \in branches
        /\ DirectoryExists(k) => k \in branches

\* OneBuilderPerWorktree is what makes BuildOK survive other sessions: nobody
\* else writes the row of a slot that is being built.
BuildInv ==
    /\ BaseInv
    /\ OneBuilderPerWorktree
    /\ BranchStays
    /\ \A s \in Sessions : BuildOK(s)
    /\ RecordedWorkerPrepared
    /\ QueueRowBacked

\* Appending to a queue file keeps its ids and adds one.
LEMMA ContainsAppend ==
    ASSUME NEW S, NEW file \in Seq(S), NEW e \in S
    PROVE  /\ Contains(Append(file, e), e)
           /\ \A q : Contains(file, q) => Contains(Append(file, e), q)
<1>1. Append(file, e)[Len(file) + 1] = e /\ Len(file) + 1 \in DOMAIN Append(file, e)
  OBVIOUS
<1>2. ASSUME NEW i \in DOMAIN file
      PROVE  i \in DOMAIN Append(file, e) /\ Append(file, e)[i] = file[i]
  OBVIOUS
<1> QED
  BY <1>1, <1>2 DEF Contains

\* Nothing durable is taken back but a worktree with what it holds: branches,
\* events, tickets and Chief's queue entries stay.
Grown ==
    /\ branches \subseteq branches' /\ removed \subseteq removed'
    /\ events \subseteq events' /\ tasks \subseteq tasks'
    /\ \A w \in Workers : \A q : Contains(chiefQueue[w], q) => Contains(chiefQueue'[w], q)
    /\ \A k \in Slots : k \notin removed' =>
          /\ worktree[k] # None => worktree'[k] = worktree[k]
          /\ k \in workerContext => k \in workerContext'
          /\ \A q : Contains(workerQueue[k], q) => Contains(workerQueue'[k], q)

\* Every step of every session only adds to the stores, or removes a worktree.
LEMMA StepGrows ==
    ASSUME BaseInv, NEW s \in Sessions, StepOf(s)
    PROVE  Grown
<1>1. TypeOK /\ SessionOK(s)
  BY DEF BaseInv
<1>2. ASSUME UNCHANGED <<gitVars, fileVars, events, tasks>>
      PROVE  Grown
  BY <1>2 DEF Grown
<1>3. CASE \/ GetRun(s) \/ CreateRun(s) \/ RecordHandoff(s) \/ SetPlanApproved(s)
           \/ SetDelegating(s) \/ GetWorker(s) \/ RetryGetRun(s)
  BY <1>2, <1>3 DEF GetRun, CreateRun, RecordHandoff, SetPlanApproved, SetDelegating, GetWorker,
                    RetryGetRun
<1>4. CASE \/ CheckQueue(s) \/ Stops(s) \/ CheckWorktree(s) \/ RecordWorker(s)
           \/ RecordQueueEntry(s)
  BY <1>2, <1>4 DEF CheckQueue, Stops, Fail, ApiRestart, CheckWorktree, RecordWorker,
                    RecordQueueEntry
<1>5. CASE RecordTask(s) \/ AssignRecordTask(s)
  BY <1>5 DEF RecordTask, AssignRecordTask, Grown
<1>6. CASE AddWorktree(s) \/ AddWorktreeFails(s)
  BY <1>1, <1>6 DEF AddWorktree, AddWorktreeFails, DirectoryExists, Grown, TypeOK
<1>12. CASE RemoveWorktree(s)
  <2>1. Slot(s) \in Slots
    BY <1>1, <1>12, BuildingTypes DEF RemoveWorktree, Building
  <2>2. ASSUME NEW k \in Slots, k \notin removed'
        PROVE  /\ worktree'[k] = worktree[k] /\ workerQueue'[k] = workerQueue[k]
               /\ k \in workerContext => k \in workerContext'
    BY <1>1, <1>12, <2>1, <2>2 DEF RemoveWorktree, TypeOK
  <2> QED
    BY <1>12, <2>2 DEF RemoveWorktree, Grown
<1>7. CASE PrepareChiefContext(s) \/ PrepareWorkerContext(s)
  BY <1>7 DEF PrepareChiefContext, PrepareWorkerContext, Grown
<1>8. CASE RecordContextEvent(s) \/ RecordRetryEvent(s)
  BY <1>8 DEF RecordContextEvent, RecordRetryEvent, Grown
<1>9. CASE AppendChiefQueue(s)
  <2>1. chiefQueue \in [Workers -> Seq(QueueIds)] /\ job[s].worker \in Workers /\ QueueId(s) \in QueueIds
    BY <1>1, <1>9, BuildingTypes DEF AppendChiefQueue, TypeOK, Building, AssignSteps
  <2>2. ASSUME NEW w \in Workers, NEW q, Contains(chiefQueue[w], q)
        PROVE  Contains(chiefQueue'[w], q)
    <3>1. chiefQueue'[w] = IF w = job[s].worker THEN Append(chiefQueue[w], QueueId(s))
                                                ELSE chiefQueue[w]
      BY <1>9, <2>1 DEF AppendChiefQueue
    <3> QED
      BY <2>1, <2>2, <3>1, ContainsAppend
  <2> QED
    BY <1>9, <2>2 DEF AppendChiefQueue, Grown
<1>10. CASE AppendWorkerQueue(s)
  <2>1. workerQueue \in [Slots -> Seq(QueueIds)] /\ Slot(s) \in Slots /\ QueueId(s) \in QueueIds
    BY <1>1, <1>10, BuildingTypes DEF AppendWorkerQueue, TypeOK, Building, AssignSteps
  <2>2. ASSUME NEW k \in Slots, NEW q, Contains(workerQueue[k], q)
        PROVE  Contains(workerQueue'[k], q)
    <3>1. workerQueue'[k] = IF k = Slot(s) THEN Append(workerQueue[k], QueueId(s))
                                           ELSE workerQueue[k]
      BY <1>10, <2>1 DEF AppendWorkerQueue
    <3> QED
      BY <2>1, <2>2, <3>1, ContainsAppend
  <2> QED
    BY <1>10, <2>2 DEF AppendWorkerQueue, Grown
<1>11. CASE Begin(s)
  <2>1. ASSUME NEW cmd, NEW r, NEW b, NEW i, NEW w, NEW n, NEW step,
               StartJob(s, cmd, r, b, i, w, n, step)
        PROVE  Grown
    BY <1>2, <2>1 DEF StartJob
  <2> QED
    BY <1>1, <1>11, <2>1, BeginShape
<1> QED
  BY <1>3, <1>4, <1>5, <1>6, <1>7, <1>8, <1>9, <1>10, <1>11, <1>12 DEF StepOf, SessionStep

\* Only record_worker writes the workers table, only record_queue_entry the
\* queue_entries table.
LEMMA TableWriters ==
    ASSUME BaseInv, NEW s \in Sessions, StepOf(s)
    PROVE  /\ RecordWorker(s) \/ workerRow' = workerRow
           /\ RecordQueueEntry(s) \/ queueRows' = queueRows
<1>1. CASE \/ GetRun(s) \/ CreateRun(s) \/ RecordHandoff(s) \/ SetPlanApproved(s)
           \/ RecordTask(s) \/ SetDelegating(s) \/ GetWorker(s) \/ RetryGetRun(s)
  BY <1>1 DEF GetRun, CreateRun, RecordHandoff, SetPlanApproved, RecordTask, SetDelegating,
              GetWorker, RetryGetRun
<1>2. CASE \/ CheckWorktree(s) \/ AddWorktree(s) \/ AddWorktreeFails(s)
           \/ RemoveWorktree(s) \/ Stops(s) \/ PrepareChiefContext(s) \/ PrepareWorkerContext(s)
           \/ RecordContextEvent(s) \/ AssignRecordTask(s)
  BY <1>2 DEF CheckWorktree, AddWorktree, AddWorktreeFails, RemoveWorktree, Stops, Fail,
              ApiRestart, PrepareChiefContext, PrepareWorkerContext,
              RecordContextEvent, AssignRecordTask
<1>3. CASE \/ CheckQueue(s) \/ AppendChiefQueue(s) \/ AppendWorkerQueue(s)
           \/ RecordRetryEvent(s) \/ RecordWorker(s) \/ RecordQueueEntry(s)
  BY <1>3 DEF CheckQueue, AppendChiefQueue, AppendWorkerQueue, RecordRetryEvent, RecordWorker,
              RecordQueueEntry
<1>4. CASE Begin(s)
  <2>1. ASSUME NEW cmd, NEW r, NEW b, NEW i, NEW w, NEW n, NEW step,
               StartJob(s, cmd, r, b, i, w, n, step)
        PROVE  workerRow' = workerRow /\ queueRows' = queueRows
    BY <2>1 DEF StartJob
  <2> QED
    BY <1>4, <2>1, BeginShape DEF BaseInv
<1> QED
  BY <1>1, <1>2, <1>3, <1>4 DEF StepOf, SessionStep

\* A session enters assign_task by its own git worktree add, and keeps its
\* slot in it.
LEMMA AssigningStep ==
    ASSUME BaseInv, NEW s \in Sessions, StepOf(s), pc'[s] \in AssignSteps
    PROVE  /\ Slot(s)' = Slot(s)
           /\ \/ pc[s] \in AssignSteps
              \/ AddWorktree(s) /\ Slot(s) \in Slots /\ Slot(s) \notin branches
<1>1. pc \in [Sessions -> {"idle", "returned"} \cup BusySteps]
  BY DEF BaseInv, TypeOK
<1>2. CASE AddWorktree(s)
  <2>1. Slot(s) \in Slots
    BY <1>2, BuildingTypes DEF AddWorktree, Building, BaseInv
  <2> QED
    BY <1>1, <1>2, <2>1 DEF AddWorktree, Goto, Quit, Continue, AssignSteps, Slot
<1>3. CASE \/ PrepareChiefContext(s) \/ PrepareWorkerContext(s) \/ RecordContextEvent(s)
           \/ AssignRecordTask(s) \/ RecordWorker(s) \/ CheckQueue(s) \/ AppendChiefQueue(s)
           \/ AppendWorkerQueue(s)
  BY <1>1, <1>3 DEF PrepareChiefContext, PrepareWorkerContext, RecordContextEvent,
     AssignRecordTask, RecordWorker, CheckQueue, AppendChiefQueue, AppendWorkerQueue, Quit,
     Continue, Goto, AssignSteps, Slot
<1>4. CASE \/ GetRun(s) \/ CreateRun(s) \/ RecordHandoff(s) \/ SetPlanApproved(s)
           \/ RecordTask(s) \/ SetDelegating(s)
  BY <1>1, <1>4 DEF GetRun, CreateRun, RecordHandoff, SetPlanApproved, RecordTask,
                          SetDelegating, Goto, Quit, Continue, AssignSteps
<1>5. CASE \/ GetWorker(s) \/ RetryGetRun(s) \/ RecordQueueEntry(s) \/ RecordRetryEvent(s)
           \/ AddWorktreeFails(s) \/ Stops(s) \/ CheckWorktree(s) \/ RemoveWorktree(s)
  BY <1>1, <1>5 DEF GetWorker, RetryGetRun, RecordQueueEntry, RecordRetryEvent,
                          AddWorktreeFails, Stops, Fail, ApiRestart, CheckWorktree,
                          RemoveWorktree, NextTicket, Goto, Quit, Continue, AssignSteps
<1>6. CASE Begin(s)
  <2>1. pc'[s] \in {"get_run", "retry_get_run"}
    <3>1. ASSUME NEW cmd, NEW r, NEW b, NEW i, NEW w, NEW n, NEW step,
                 StartJob(s, cmd, r, b, i, w, n, step)
          PROVE  pc'[s] = step
      BY <1>1, <3>1 DEF StartJob, Goto, Quit, Continue
    <3> QED
      BY <1>6, <3>1, BeginShape DEF BaseInv
  <2> QED
    BY <2>1 DEF AssignSteps
<1> QED
  BY <1>2, <1>3, <1>4, <1>5, <1>6 DEF StepOf, SessionStep

\* Two sessions never build the same slot: the second is refused by Git.
LEMMA OneBuilderStep ==
    ASSUME BuildInv, NEW s \in Sessions, StepOf(s)
    PROVE  OneBuilderPerWorktree'
<1>1. BaseInv /\ TypeOK
  BY DEF BuildInv, BaseInv
<1>2. \A t \in Sessions \ {s} : pc'[t] = pc[t] /\ job'[t] = job[t]
  BY <1>1, OthersWait
<1>3. ASSUME pc'[s] \in AssignSteps
      PROVE  \/ pc[s] \in AssignSteps /\ Slot(s)' = Slot(s)
             \/ Slot(s)' = Slot(s) /\ Slot(s) \notin branches
  BY <1>1, <1>3, AssigningStep
<1>4. \A t \in Sessions : pc[t] \in AssignSteps => Slot(t) \in branches
  BY DEF BuildInv, BuildOK
<1> QED
  BY <1>2, <1>3, <1>4 DEF BuildInv, OneBuilderPerWorktree, Slot

\* What another session has made durable for its slot stays.
LEMMA BuildFrame ==
    ASSUME BuildInv, NEW s \in Sessions, StepOf(s), NEW t \in Sessions \ {s}
    PROVE  BuildOK(t)'
<1>1. BaseInv /\ TypeOK /\ SessionOK(t) /\ SessionOK(s) /\ BuildOK(t)
  BY DEF BuildInv, BaseInv
<1>2. pc'[t] = pc[t] /\ job'[t] = job[t] /\ Slot(t)' = Slot(t) /\ QueueId(t)' = QueueId(t)
  BY <1>1, OthersWait DEF Slot, QueueId
<1>3. Grown
  BY <1>1, StepGrows
<1>4. ASSUME pc[t] \in AssignSteps
      PROVE  BuildOK(t)'
  <2>1. /\ job[t].run \in Runs /\ job[t].worker \in Workers /\ Slot(t) \in Slots
        /\ runs[job[t].run] # None
    BY <1>1, <1>4, BuildingTypes, DelegationAssumption DEF Building, SessionOK
  <2>2. runs'[job[t].run] = runs[job[t].run]
    BY <1>1, <2>1, RunsStable
  <2>3. workerRow'[Slot(t)] = workerRow[Slot(t)]
    <3>1. CASE RecordWorker(s)
      <4>1. Slot(s) # Slot(t)
        BY <1>4, <3>1 DEF RecordWorker, AssignSteps, BuildInv, OneBuilderPerWorktree
      <4> QED
        BY <1>1, <2>1, <3>1, <4>1 DEF RecordWorker, TypeOK
    <3> QED
      BY <1>1, <3>1, TableWriters
  <2>4. worktree'[Slot(t)] = worktree[Slot(t)] \/ Slot(t) \in removed'
    BY <1>1, <1>3, <1>4, <2>1 DEF Grown, BuildOK
  <2> QED
    BY <1>1, <1>2, <1>3, <1>4, <2>1, <2>2, <2>3, <2>4 DEF BuildOK, Grown
<1> QED
  BY <1>2, <1>4 DEF BuildOK, AssignSteps, BeforeRow, FromContextEvent, FromRecordTask,
                    FromRecordWorker, FromCheckQueue

\* Each call of assign_task adds its own piece before the session moves on.
LEMMA BuildOwn ==
    ASSUME BuildInv, NEW s \in Sessions, StepOf(s)
    PROVE  BuildOK(s)'
<1> USE DEF AssignSteps, BeforeRow, FromContextEvent, FromRecordTask, FromRecordWorker,
            FromCheckQueue
<1>1. BaseInv /\ TypeOK /\ SessionOK(s) /\ BuildOK(s)
  BY DEF BuildInv, BaseInv
<1>2. pc \in [Sessions -> {"idle", "returned"} \cup BusySteps]
  BY <1>1 DEF TypeOK
<1>3. Grown
  BY <1>1, StepGrows
<1>4. ASSUME pc'[s] \notin AssignSteps PROVE BuildOK(s)'
  BY <1>4 DEF BuildOK
<1>5. ASSUME pc[s] \in Building
      PROVE  /\ Slot(s) \in Slots /\ job[s].worker \in Workers /\ QueueId(s) \in QueueIds
             /\ job[s].run \in Runs /\ job[s].base \in Bases
             /\ job[s].base = runs[job[s].run] /\ runs[job[s].run] # None
  BY <1>1, <1>5, BuildingTypes, DelegationAssumption DEF SessionOK
<1>6. CASE AddWorktree(s)
  <2>1. CASE pc'[s] = "remove_worktree"
    BY <1>4, <2>1
  <2>2. CASE Slot(s) \notin branches /\ pc'[s] = "chief_context"
             /\ worktree' = [worktree EXCEPT ![Slot(s)] = job[s].base]
             /\ branches' = branches \cup {Slot(s)}
    <3>1. workerRow[Slot(s)] = None
      BY <1>1, <1>5, <1>6, <2>2 DEF AddWorktree, Building, BuildInv, RecordedWorkerPrepared
    <3>2. job' = job /\ workerRow' = workerRow /\ runs' = runs
          /\ worktree'[Slot(s)] = job[s].base /\ Slot(s) \in branches'
      BY <1>1, <1>2, <1>5, <1>6, <2>2 DEF AddWorktree, Building, TypeOK
    <3> QED
      BY <1>5, <1>6, <2>2, <3>1, <3>2 DEF BuildOK, Slot, AddWorktree, Building
  <2> QED
    BY <1>2, <1>6, <2>1, <2>2 DEF AddWorktree, Goto
<1>7. CASE PrepareChiefContext(s) \/ PrepareWorkerContext(s)
  BY <1>1, <1>2, <1>7 DEF PrepareChiefContext, PrepareWorkerContext, Goto, Quit, Continue, BuildOK, Slot
<1>8. CASE RecordContextEvent(s) \/ AssignRecordTask(s)
  BY <1>1, <1>2, <1>8 DEF RecordContextEvent, AssignRecordTask, Goto, Quit, Continue, BuildOK, Slot
<1>9. CASE RecordWorker(s)
  <2>1. Slot(s) \in Slots
    BY <1>5, <1>9 DEF RecordWorker, Building
  <2>2. /\ pc[s] = "record_worker" /\ pc'[s] = "check_queue" /\ job' = job /\ runs' = runs
        /\ UNCHANGED <<worktree, branches, removed, workerContext, events, tasks>>
        /\ workerRow'[Slot(s)] = [task |-> job[s].task, base |-> job[s].base]
    BY <1>1, <1>2, <1>9, <2>1 DEF RecordWorker, Goto, Quit, Continue, TypeOK
  <2>3. workerRow'[Slot(s)] # None
    <3>1. [task |-> job[s].task, base |-> job[s].base] \in [task : Nat, base : Bases]
      BY <1>1, <1>5, <2>2, BuildingTypes DEF Building
    <3> QED
      BY <2>2, <3>1, DelegationAssumption
  <2> QED
    BY <1>1, <2>2, <2>3 DEF BuildOK, Slot
<1>10. CASE CheckQueue(s)
  BY <1>1, <1>2, <1>10 DEF CheckQueue, Goto, Quit, Continue, BuildOK, Slot
<1>11. CASE AppendChiefQueue(s)
  <2>1. /\ pc[s] = "queue_chief" /\ pc'[s] = "queue_worker" /\ job' = job /\ runs' = runs
        /\ UNCHANGED <<worktree, branches, removed, workerContext, events, tasks, workerRow>>
    BY <1>2, <1>11 DEF AppendChiefQueue, Goto, Quit, Continue
  <2>2. chiefQueue \in [Workers -> Seq(QueueIds)] /\ job[s].worker \in Workers
        /\ QueueId(s) \in QueueIds
    BY <1>1, <1>5, <2>1 DEF TypeOK, Building
  <2>3. chiefQueue'[job[s].worker] = Append(chiefQueue[job[s].worker], QueueId(s))
    BY <1>11, <2>2 DEF AppendChiefQueue
  <2>4. Contains(chiefQueue'[job[s].worker], QueueId(s))
    BY <2>2, <2>3, ContainsAppend
  <2> QED
    BY <1>1, <2>1, <2>4 DEF BuildOK, Slot, QueueId
<1>12. CASE AppendWorkerQueue(s)
  <2>1. /\ pc[s] = "queue_worker" /\ pc'[s] = "queue_row" /\ job' = job /\ runs' = runs
        /\ UNCHANGED <<worktree, branches, removed, workerContext, events, tasks, workerRow,
                       chiefQueue>>
    BY <1>2, <1>12 DEF AppendWorkerQueue, Goto, Quit, Continue
  <2>2. workerQueue \in [Slots -> Seq(QueueIds)] /\ Slot(s) \in Slots /\ QueueId(s) \in QueueIds
    BY <1>1, <1>5, <2>1 DEF TypeOK, Building
  <2>3. workerQueue'[Slot(s)] = Append(workerQueue[Slot(s)], QueueId(s))
    BY <1>12, <2>2 DEF AppendWorkerQueue
  <2>4. Contains(workerQueue'[Slot(s)], QueueId(s))
    BY <2>2, <2>3, ContainsAppend
  <2> QED
    BY <1>1, <2>1, <2>4 DEF BuildOK, Slot, QueueId
<1>13. CASE \/ GetRun(s) \/ CreateRun(s) \/ RecordHandoff(s) \/ SetPlanApproved(s)
            \/ RecordTask(s) \/ SetDelegating(s)
  BY <1>2, <1>4, <1>13 DEF GetRun, CreateRun, RecordHandoff, SetPlanApproved, RecordTask,
                           SetDelegating, Goto, Quit, Continue
<1>14. CASE \/ GetWorker(s) \/ RetryGetRun(s) \/ RecordQueueEntry(s) \/ RecordRetryEvent(s)
            \/ AddWorktreeFails(s) \/ Stops(s) \/ CheckWorktree(s) \/ RemoveWorktree(s)
  BY <1>2, <1>4, <1>14 DEF GetWorker, RetryGetRun, RecordQueueEntry, RecordRetryEvent,
                           AddWorktreeFails, Stops, Fail, ApiRestart, CheckWorktree,
                           RemoveWorktree, NextTicket, Goto, Quit, Continue
<1>15. CASE Begin(s)
  <2>1. ASSUME NEW cmd, NEW r, NEW b, NEW i, NEW w, NEW n,
               NEW step \in {"get_run", "retry_get_run"},
               StartJob(s, cmd, r, b, i, w, n, step)
        PROVE  BuildOK(s)'
    BY <1>2, <1>4, <2>1 DEF StartJob, Goto, Quit, Continue
  <2> QED
    BY <1>1, <1>15, <2>1, BeginShape
<1> QED
  BY <1>6, <1>7, <1>8, <1>9, <1>10, <1>11, <1>12, <1>13, <1>14, <1>15 DEF StepOf, SessionStep

\* Branches are never deleted, and nothing is written to a slot before it has one.
LEMMA BranchStep ==
    ASSUME BuildInv, NEW s \in Sessions, StepOf(s)
    PROVE  BranchStays'
<1>1. BaseInv /\ TypeOK /\ SessionOK(s) /\ BuildOK(s) /\ BranchStays /\ Grown
  BY StepGrows DEF BuildInv, BaseInv
<1>2. ASSUME UNCHANGED <<worktree, removed, workerContext, workerQueue>>
      PROVE  BranchStays'
  BY <1>1, <1>2 DEF BranchStays, DirectoryExists, Grown
<1>3. CASE AddWorktree(s) \/ AddWorktreeFails(s)
  <2>1. Slot(s) \in Slots /\ UNCHANGED <<removed, workerContext, workerQueue>>
        /\ \/ UNCHANGED worktree
           \/ /\ worktree' = [worktree EXCEPT ![Slot(s)] = job[s].base]
              /\ Slot(s) \in branches' /\ Slot(s) \notin branches
    BY <1>1, <1>3, BuildingTypes DEF AddWorktree, AddWorktreeFails, Building
  <2>2. CASE UNCHANGED worktree
    BY <1>2, <2>1, <2>2
  <2>3. CASE /\ worktree' = [worktree EXCEPT ![Slot(s)] = job[s].base]
             /\ Slot(s) \in branches' /\ Slot(s) \notin branches
    <3>1. \A k \in Slots : k # Slot(s) => worktree'[k] = worktree[k]
      BY <1>1, <2>1, <2>3 DEF TypeOK
    <3> QED
      BY <1>1, <2>1, <2>3, <3>1 DEF BranchStays, DirectoryExists, Grown
  <2> QED
    BY <2>1, <2>2, <2>3
<1>4. CASE PrepareWorkerContext(s) \/ AppendWorkerQueue(s)
  <2>1. Slot(s) \in branches /\ Slot(s) \in Slots /\ UNCHANGED <<worktree, removed, branches>>
    BY <1>1, <1>4, BuildingTypes
       DEF PrepareWorkerContext, AppendWorkerQueue, BuildOK, AssignSteps, Building
  <2>2. \A k \in Slots : k # Slot(s) => /\ k \in workerContext' <=> k \in workerContext
                                        /\ workerQueue'[k] = workerQueue[k]
    BY <1>1, <1>4, <2>1 DEF PrepareWorkerContext, AppendWorkerQueue, TypeOK
  <2> QED
    BY <1>1, <2>1, <2>2 DEF BranchStays, DirectoryExists
<1>5. CASE RemoveWorktree(s)
  <2>1. Slot(s) \in Slots /\ UNCHANGED branches
    BY <1>1, <1>5, BuildingTypes DEF RemoveWorktree, Building
  <2>2. CASE UNCHANGED <<worktree, workerContext, workerQueue, removed>>
    BY <1>2, <2>2
  <2>3. CASE /\ worktree[Slot(s)] # None
             /\ worktree' = [worktree EXCEPT ![Slot(s)] = None]
             /\ workerContext' = workerContext \ {Slot(s)}
             /\ workerQueue' = [workerQueue EXCEPT ![Slot(s)] = <<>>]
             /\ removed' = removed \cup {Slot(s)}
    <3>1. Slot(s) \in branches /\ worktree'[Slot(s)] = None
      BY <1>1, <2>1, <2>3 DEF BranchStays, DirectoryExists, TypeOK
    <3>2. \A k \in Slots : k # Slot(s) => /\ worktree'[k] = worktree[k]
                                          /\ workerQueue'[k] = workerQueue[k]
      BY <1>1, <2>1, <2>3 DEF TypeOK
    <3> QED
      BY <1>1, <2>1, <2>3, <3>1, <3>2 DEF BranchStays, DirectoryExists
  <2> QED
    BY <1>5, <2>2, <2>3 DEF RemoveWorktree
<1>6. CASE \/ GetRun(s) \/ CreateRun(s) \/ RecordHandoff(s) \/ SetPlanApproved(s)
           \/ RecordTask(s) \/ SetDelegating(s) \/ GetWorker(s) \/ RetryGetRun(s)
           \/ CheckWorktree(s) \/ Stops(s)
  BY <1>2, <1>6 DEF GetRun, CreateRun, RecordHandoff, SetPlanApproved, RecordTask,
                    SetDelegating, GetWorker, RetryGetRun, CheckWorktree, Stops, Fail, ApiRestart
<1>7. CASE \/ PrepareChiefContext(s) \/ RecordContextEvent(s) \/ AssignRecordTask(s)
           \/ RecordWorker(s) \/ CheckQueue(s) \/ AppendChiefQueue(s)
           \/ RecordQueueEntry(s) \/ RecordRetryEvent(s)
  BY <1>2, <1>7 DEF PrepareChiefContext, RecordContextEvent, AssignRecordTask, RecordWorker,
                    CheckQueue, AppendChiefQueue, RecordQueueEntry, RecordRetryEvent
<1>8. CASE Begin(s)
  <2>1. ASSUME NEW cmd, NEW r, NEW b, NEW i, NEW w, NEW n, NEW step,
               StartJob(s, cmd, r, b, i, w, n, step)
        PROVE  BranchStays'
    BY <1>2, <2>1 DEF StartJob
  <2> QED
    BY <1>1, <1>8, <2>1, BeginShape
<1> QED
  BY <1>3, <1>4, <1>5, <1>6, <1>7, <1>8 DEF StepOf, SessionStep

\* A recorded worker stays prepared until its worktree is removed, and is
\* recorded only when prepared.
LEMMA PreparedStep ==
    ASSUME BuildInv, NEW s \in Sessions, StepOf(s)
    PROVE  RecordedWorkerPrepared'
<1>1. BaseInv /\ TypeOK /\ SessionOK(s) /\ BuildOK(s) /\ RecordedWorkerPrepared /\ Grown
  BY StepGrows DEF BuildInv, BaseInv
<1>5. BranchStays'
  BY BranchStep
<1>2. ASSUME NEW k \in Slots, workerRow'[k] # None, workerRow'[k] = workerRow[k]
      PROVE  /\ k \in branches'
             /\ <<"subagent_context_prepared", k>> \in events'
             /\ <<k[1], workerRow'[k].task>> \in tasks'
             /\ IF k \in removed'
                THEN worktree'[k] = None
                ELSE worktree'[k] = workerRow'[k].base /\ k \in workerContext'
  <2>1. ASSUME k \notin removed'
        PROVE  worktree'[k] = workerRow'[k].base /\ k \in workerContext'
    <3>1. workerRow[k] \in [task : Nat, base : Bases]
      BY <1>1, <1>2 DEF TypeOK
    <3>2. k \notin removed
      BY <1>1, <2>1 DEF Grown
    <3>3. worktree[k] = workerRow[k].base /\ k \in workerContext /\ worktree[k] # None
      BY <1>1, <1>2, <3>1, <3>2, DelegationAssumption DEF RecordedWorkerPrepared
    <3> QED
      BY <1>1, <1>2, <2>1, <3>3 DEF Grown
  <2> QED
    BY <1>1, <1>2, <1>5, <2>1 DEF RecordedWorkerPrepared, Grown, BranchStays
<1>3. ASSUME RecordWorker(s)
      PROVE  RecordedWorkerPrepared'
  <2>1. /\ Slot(s) \in Slots /\ Slot(s)[1] = job[s].run /\ job[s].base = runs[job[s].run]
        /\ pc[s] = "record_worker"
    BY <1>1, <1>3, BuildingTypes DEF RecordWorker, Building, AssignSteps, SessionOK, Slot
  <2>2. /\ Slot(s) \in branches
        /\ IF Slot(s) \in removed
           THEN worktree[Slot(s)] = None
           ELSE worktree[Slot(s)] = job[s].base /\ Slot(s) \in workerContext
        /\ <<"subagent_context_prepared", Slot(s)>> \in events
        /\ <<job[s].run, job[s].task>> \in tasks
    BY <1>1, <2>1 DEF BuildOK, BuildInv, BranchStays, AssignSteps, FromContextEvent,
                      FromRecordTask, FromRecordWorker
  <2>3. workerRow' = [workerRow EXCEPT ![Slot(s)] = [task |-> job[s].task, base |-> job[s].base]]
        /\ UNCHANGED <<worktree, branches, removed, workerContext, events, tasks>>
    BY <1>3 DEF RecordWorker
  <2>4. ASSUME NEW k \in Slots, k # Slot(s) PROVE workerRow'[k] = workerRow[k]
    BY <1>1, <2>1, <2>3, <2>4 DEF TypeOK
  <2>5. workerRow'[Slot(s)] = [task |-> job[s].task, base |-> job[s].base]
    BY <1>1, <2>1, <2>3 DEF TypeOK
  <2> QED
    BY <1>2, <2>1, <2>2, <2>3, <2>4, <2>5 DEF RecordedWorkerPrepared
<1> QED
  BY <1>1, <1>2, <1>3, TableWriters DEF RecordedWorkerPrepared

\* A queue row is recorded after both files have the entry.
LEMMA QueueRowStep ==
    ASSUME BuildInv, NEW s \in Sessions, StepOf(s)
    PROVE  QueueRowBacked'
<1>1. BaseInv /\ TypeOK /\ SessionOK(s) /\ BuildOK(s) /\ QueueRowBacked /\ Grown
  BY StepGrows DEF BuildInv, BaseInv
<1>2. \A k \in Slots : workerRow[k] # None => workerRow'[k] # None
  <2>1. CASE RecordWorker(s)
    <3>1. Slot(s) \in Slots
          /\ [task |-> job[s].task, base |-> job[s].base] \in [task : Nat, base : Bases]
      BY <1>1, <2>1, BuildingTypes DEF RecordWorker, Building, AssignSteps
    <3> QED
      BY <1>1, <2>1, <3>1, DelegationAssumption DEF RecordWorker, TypeOK
  <2> QED
    BY <1>1, <2>1, TableWriters
<1>3. ASSUME NEW q \in QueueIds,
             /\ Contains(chiefQueue[q[2]], q)
             /\ Contains(workerQueue[<<q[1], q[2]>>], q) \/ <<q[1], q[2]>> \in removed
             /\ workerRow[<<q[1], q[2]>>] # None
      PROVE  /\ Contains(chiefQueue'[q[2]], q)
             /\ Contains(workerQueue'[<<q[1], q[2]>>], q) \/ <<q[1], q[2]>> \in removed'
             /\ workerRow'[<<q[1], q[2]>>] # None
  <2>1. q[2] \in Workers /\ <<q[1], q[2]>> \in Slots
    BY DEF QueueIds, Slots
  <2> QED
    BY <1>1, <1>2, <1>3, <2>1 DEF Grown
<1>4. CASE RecordQueueEntry(s)
  <2>1. /\ QueueId(s) \in QueueIds /\ pc[s] = "queue_row"
        /\ queueRows' = queueRows \cup {QueueId(s)}
    BY <1>1, <1>4, BuildingTypes DEF RecordQueueEntry, Building, AssignSteps
  <2>2. /\ Contains(chiefQueue[job[s].worker], QueueId(s))
        /\ Contains(workerQueue[Slot(s)], QueueId(s)) \/ Slot(s) \in removed
        /\ workerRow[Slot(s)] # None
    BY <1>1, <2>1 DEF BuildOK, FromCheckQueue, FromRecordWorker, FromRecordTask, FromContextEvent
  <2>3. QueueId(s)[2] = job[s].worker /\ <<QueueId(s)[1], QueueId(s)[2]>> = Slot(s)
    BY DEF QueueId, Slot
  <2> QED
    BY <1>1, <1>3, <2>1, <2>2, <2>3 DEF QueueRowBacked, TypeOK
<1>5. CASE queueRows' = queueRows
  BY <1>1, <1>3, <1>5 DEF QueueRowBacked, TypeOK
<1> QED
  BY <1>1, <1>4, <1>5, TableWriters

\* The empty stores satisfy the whole invariant.
LEMMA InitBuild == Init => BuildInv
BY InitBase DEF Init, BuildInv, OneBuilderPerWorktree, BuildOK, RecordedWorkerPrepared,
   QueueRowBacked, BranchStays, DirectoryExists, AssignSteps, BeforeRow,
    FromContextEvent, FromRecordTask, FromRecordWorker,
   FromCheckQueue

\* The inductive step of the whole invariant.
LEMMA BuildStep == BuildInv /\ [Next]_vars => BuildInv'
<1> SUFFICES ASSUME BuildInv, [Next]_vars PROVE BuildInv'
  OBVIOUS
<1>1. BaseInv'
  BY BaseStep DEF BuildInv
<1>2. ASSUME NEW s \in Sessions, StepOf(s) PROVE BuildInv'
  <2>1. ASSUME NEW t \in Sessions PROVE BuildOK(t)'
    <3>1. CASE t = s
      BY <1>2, <3>1, BuildOwn
    <3>2. CASE t # s
      BY <1>2, <3>2, BuildFrame
    <3> QED
      BY <3>1, <3>2
  <2> QED
    BY <1>1, <1>2, <2>1, OneBuilderStep, BranchStep, PreparedStep, QueueRowStep DEF BuildInv
<1>4. CASE UNCHANGED vars
  BY <1>1, <1>4 DEF vars, BuildInv, BuildOK, OneBuilderPerWorktree, RecordedWorkerPrepared,
                    QueueRowBacked, BranchStays, DirectoryExists, Slot, QueueId
<1> QED
  BY <1>2, <1>4, SomeStep

\* Without any lock, no two sessions are ever inside assign_task for one slot,
\* also when one has removed the worktree of the other: the branch stays, and
\* git worktree add refuses the second.
THEOREM OneBuilder == Spec => []OneBuilderPerWorktree
<1>1. BuildInv => OneBuilderPerWorktree
  BY DEF BuildInv
<1> QED
  BY InitBuild, BuildStep, <1>1, PTL DEF Spec

\* A worker in the workers table has its branch, context event and ticket,
\* whatever stopped which session, and its worktree with the context files
\* unless a session that lost the race for the slot removed it for good.
THEOREM WorkersArePrepared == Spec => []RecordedWorkerPrepared
<1>1. BuildInv => RecordedWorkerPrepared
  BY DEF BuildInv
<1> QED
  BY InitBuild, BuildStep, <1>1, PTL DEF Spec

\* A queue entry in the database always stands in Chief's queue file, and in
\* the worker's unless that was removed with its worktree.
THEOREM QueueRowsAreBacked == Spec => []QueueRowBacked
<1>1. BuildInv => QueueRowBacked
  BY DEF BuildInv
<1> QED
  BY InitBuild, BuildStep, <1>1, PTL DEF Spec

\* record_worker finds no row: its session made the slot's branch, which no
\* earlier session can have recorded.
LEMMA RowsStay ==
    ASSUME BuildInv, [Next]_vars, NEW k \in Slots, workerRow[k] # None
    PROVE  workerRow'[k] = workerRow[k]
<1>1. ASSUME NEW s \in Sessions, StepOf(s) PROVE workerRow'[k] = workerRow[k]
  <2>1. CASE RecordWorker(s)
    <3>1. workerRow[Slot(s)] = None
      BY <2>1 DEF RecordWorker, BuildInv, BuildOK, BeforeRow, AssignSteps, FromCheckQueue,
                  FromRecordWorker, FromRecordTask, FromContextEvent
    <3> QED
      BY <2>1, <3>1 DEF RecordWorker, BuildInv, BaseInv, TypeOK
  <2> QED
    BY <1>1, <2>1, TableWriters DEF BuildInv
<1> QED
  BY <1>1, SomeStep DEF vars

\* record_worker's upsert never replaces a stored assignment.
THEOREM AssignmentsAreStable == Spec => AssignmentStable
<1>1. BuildInv /\ [Next]_vars =>
        [\A k \in Slots : workerRow[k] # None => workerRow'[k] = workerRow[k]]_vars
  BY RowsStay
<1> QED
  BY InitBuild, BuildStep, <1>1, PTL DEF Spec, AssignmentStable

-----------------------------------------------------------------------------
(* What delegate_tasks returns.                                             *)

Loop == {"get_worker", "check_worktree", "add_worktree", "remove_worktree"}
          \cup AssignSteps

\* The assignments collected so far: recorded workers, in order.
Covered(s) ==
    \A i \in DOMAIN assigned[s] : assigned[s][i][2] = i /\ workerRow[assigned[s][i]] # None

\* delegate_tasks has one assignment for each ticket before the one it is at,
\* whose worker has its number; a retry's worker is one a caller named.
CollectedOK(s) ==
    /\ pc[s] \in Checking \cup Recording => assigned[s] = <<>>
    /\ pc[s] \in Loop /\ job[s].cmd = "delegate" =>
          /\ job[s].worker = job[s].task
          /\ Len(assigned[s]) = job[s].task - 1
          /\ Covered(s)
    /\ pc[s] \in Loop /\ job[s].cmd = "retry" => job[s].worker \in RetryWorkers
    /\ pc[s] = "retry_get_run" => job[s].worker \in RetryWorkers
    /\ pc[s] = "retry_event" => job[s].cmd = "retry"
    /\ DelegateReturned(s) =>
          /\ job[s] \in Jobs /\ Len(assigned[s]) = PlanSize[job[s].run] /\ Covered(s)

\* A worker has the ticket of its number, or a caller's.
TicketOfRow ==
    \A k \in Slots : workerRow[k] # None =>
        workerRow[k].task = k[2] \/ k[2] \in RetryWorkers

CollectedInv == BuildInv /\ (\A s \in Sessions : CollectedOK(s)) /\ TicketOfRow

\* Collected workers stay recorded.
LEMMA CoveredStays ==
    ASSUME BuildInv, [Next]_vars, NEW s \in Sessions, Covered(s), assigned'[s] = assigned[s]
    PROVE  Covered(s)'
<1>1. \A i \in DOMAIN assigned[s] : assigned[s][i] \in Slots
  BY DEF BuildInv, BaseInv, TypeOK
<1> QED
  BY <1>1, RowsStay DEF Covered

\* A session collects for itself.
LEMMA OthersCollect ==
    ASSUME BaseInv, NEW s \in Sessions, StepOf(s), NEW t \in Sessions \ {s}
    PROVE  assigned'[t] = assigned[t]
<1>1. assigned \in [Sessions -> Seq(Slots)]
  BY DEF BaseInv, TypeOK
<1>2. CASE Begin(s)
  <2>1. ASSUME NEW cmd, NEW r, NEW b, NEW i, NEW w, NEW n, NEW step,
               StartJob(s, cmd, r, b, i, w, n, step)
        PROVE  assigned'[t] = assigned[t]
    BY <1>1, <2>1 DEF StartJob
  <2> QED
    BY <1>2, <2>1, BeginShape DEF BaseInv
<1>3. CASE GetWorker(s) \/ RecordQueueEntry(s)
  BY <1>1, <1>3 DEF GetWorker, RecordQueueEntry
<1>4. CASE \/ GetRun(s) \/ CreateRun(s) \/ RecordHandoff(s) \/ SetPlanApproved(s)
           \/ RecordTask(s) \/ SetDelegating(s) \/ RetryGetRun(s) \/ CheckWorktree(s)
           \/ AddWorktree(s) \/ AddWorktreeFails(s) \/ RemoveWorktree(s) \/ Stops(s)
  BY <1>1, <1>4 DEF GetRun, CreateRun, RecordHandoff, SetPlanApproved, RecordTask,
              SetDelegating, RetryGetRun, Quit, Continue, AddWorktree, AddWorktreeFails, Stops, Fail,
              ApiRestart, CheckWorktree, RemoveWorktree
<1>5. CASE \/ PrepareChiefContext(s) \/ PrepareWorkerContext(s) \/ RecordContextEvent(s)
           \/ AssignRecordTask(s) \/ RecordWorker(s) \/ CheckQueue(s) \/ AppendChiefQueue(s)
           \/ AppendWorkerQueue(s) \/ RecordRetryEvent(s)
  BY <1>1, <1>5 DEF PrepareChiefContext, PrepareWorkerContext, RecordContextEvent,
              AssignRecordTask, RecordWorker, CheckQueue, AppendChiefQueue, AppendWorkerQueue,
              RecordRetryEvent, Quit, Continue
<1> QED
  BY <1>2, <1>3, <1>4, <1>5 DEF StepOf, SessionStep

\* The worker found or recorded for a ticket is collected, and the loop ends
\* exactly when the plan does.
LEMMA Collects ==
    ASSUME TypeOK, NEW s \in Sessions, SessionOK(s), CollectedOK(s),
           pc[s] \in {"get_worker", "queue_row"}, job[s].cmd = "delegate",
           NEW k \in Slots, k[2] = job[s].worker, workerRow[k] # None, UNCHANGED workerRow,
           assigned' = [assigned EXCEPT ![s] = Append(@, k)], NextTicket(s)
    PROVE  CollectedOK(s)'
<1> DEFINE size == PlanSize[job[s].run]
<1>1. /\ pc \in [Sessions -> {"idle", "returned"} \cup BusySteps]
      /\ job \in [Sessions -> Jobs \cup {None}]
      /\ assigned[s] \in Seq(Slots) /\ assigned'[s] = Append(assigned[s], k)
  BY DEF TypeOK
<1>2. /\ job[s] \in Jobs /\ job[s].task \in 1 .. size /\ size \in Nat
      /\ job[s].worker = job[s].task /\ Len(assigned[s]) = job[s].task - 1 /\ Covered(s)
  <2>1. job[s] \in Jobs /\ job[s].run \in Runs /\ job[s].task \in 1 .. size
    BY BusyTypes DEF SessionOK, Building, AssignSteps, BusySteps
  <2> QED
    BY <2>1, DelegationAssumption DEF CollectedOK, Loop, AssignSteps
<1>3. Len(assigned'[s]) = job[s].task
  BY <1>1, <1>2
<1>4. Covered(s)'
  <2>1. ASSUME NEW i \in DOMAIN assigned'[s]
        PROVE  assigned'[s][i][2] = i /\ workerRow[assigned'[s][i]] # None
    <3>1. CASE i = job[s].task
      BY <1>1, <1>2, <1>3, <3>1
    <3>2. CASE i # job[s].task
      <4>1. i \in DOMAIN assigned[s] /\ assigned'[s][i] = assigned[s][i]
        BY <1>1, <1>2, <1>3, <3>2
      <4> QED
        BY <1>2, <4>1 DEF Covered
    <3> QED
      BY <3>1, <3>2
  <2> QED
    BY <2>1 DEF Covered
<1>5. CASE job[s].task < size
  <2>1. /\ pc'[s] = "get_worker" /\ job'[s].cmd = "delegate"
        /\ job'[s].task = job[s].task + 1 /\ job'[s].worker = job[s].task + 1
    <3>0. job[s].task # size
      BY <1>2, <1>5
    <3>1. /\ pc'[s] = "get_worker"
          /\ job'[s] = [job[s] EXCEPT !.task = job[s].task + 1, !.worker = job[s].task + 1,
                                      !.seq = job[s].task + 1]
      BY <1>1, <3>0 DEF NextTicket, Goto, Quit, Continue
    <3> QED
      BY <1>2, <3>1 DEF Jobs
  <2>2. Len(assigned'[s]) = job'[s].task - 1
    BY <1>2, <1>3, <2>1
  <2> QED
    BY <1>4, <2>1, <2>2 DEF CollectedOK, Checking, Recording, DelegateReturned
<1>6. CASE job[s].task = size /\ job' = job /\ pc'[s] = "returned"
  BY <1>2, <1>3, <1>4, <1>6 DEF CollectedOK, Checking, Recording, Loop, AssignSteps, DelegateReturned
<1> QED
  BY <1>1, <1>2, <1>5, <1>6 DEF NextTicket, Goto, Quit, Continue

\* Within a command, the steps that collect nothing.
LEMMA CollectsNothing ==
    ASSUME BuildInv, [Next]_vars, NEW s \in Sessions, CollectedOK(s),
           assigned'[s] = assigned[s], job'[s] = job[s],
           \/ pc[s] \in Checking \cup Recording /\ pc'[s] \in Checking \cup Recording
           \/ pc[s] \in Loop /\ pc'[s] \in Loop
           \/ pc'[s] = pc[s]
           \/ pc'[s] = "retry_event" /\ job[s].cmd = "retry"
    PROVE  CollectedOK(s)'
BY CoveredStays DEF CollectedOK, Checking, Recording, Loop, AssignSteps, DelegateReturned

\* A session without a command has nothing to count.
LEMMA NothingToCollect ==
    ASSUME NEW s \in Sessions, pc'[s] = "idle"
    PROVE  CollectedOK(s)'
BY DEF CollectedOK, Checking, Recording, Loop, AssignSteps, DelegateReturned

\* The session that moves keeps its count.
LEMMA CollectedOwn ==
    ASSUME BuildInv, [Next]_vars, NEW s \in Sessions, CollectedOK(s), StepOf(s)
    PROVE  CollectedOK(s)'
<1> USE DEF Goto, Quit, Continue
<1>1. BaseInv /\ TypeOK /\ SessionOK(s) /\ BuildOK(s)
  BY DEF BuildInv, BaseInv
<1>2. /\ pc \in [Sessions -> {"idle", "returned"} \cup BusySteps]
      /\ job \in [Sessions -> Jobs \cup {None}]
      /\ assigned \in [Sessions -> Seq(Slots)]
  BY <1>1 DEF TypeOK
<1>3. CASE Begin(s)
  <2>1. ASSUME NEW cmd, NEW r, NEW b, NEW i, NEW w, NEW n,
               StartJob(s, cmd, r, b, i, w, n, "get_run")
        PROVE  CollectedOK(s)'
    BY <1>2, <2>1 DEF StartJob, CollectedOK, Loop, AssignSteps, DelegateReturned
  <2>2. ASSUME NEW r, NEW w \in RetryWorkers, NEW n, NEW i,
               StartJob(s, "retry", r, None, i, w, n, "retry_get_run")
        PROVE  CollectedOK(s)'
    BY <1>2, <2>2 DEF StartJob, CollectedOK, Checking, Recording, Loop, AssignSteps,
                      DelegateReturned
  <2> QED
    BY <1>1, <1>3, <2>1, <2>2, BeginShape
<1>4. CASE GetRun(s) \/ CreateRun(s) \/ RecordHandoff(s) \/ SetPlanApproved(s)
  <2>1. \/ pc'[s] = "idle"
        \/ /\ assigned'[s] = assigned[s] /\ job'[s] = job[s]
           /\ pc[s] \in Checking \cup Recording /\ pc'[s] \in Checking \cup Recording
    BY <1>2, <1>4 DEF GetRun, CreateRun, RecordHandoff, SetPlanApproved, Checking, Recording
  <2> QED
    BY <2>1, CollectsNothing, NothingToCollect
<1>5. CASE RecordTask(s)
  <2>1. assigned'[s] = <<>> /\ pc'[s] \in Recording
    BY <1>2, <1>5 DEF RecordTask, CollectedOK, Recording
  <2> QED
    BY <2>1 DEF CollectedOK, Recording, Loop, AssignSteps, DelegateReturned
<1>6. CASE SetDelegating(s)
  <2>1. assigned'[s] = <<>> /\ pc[s] = "set_delegating"
    BY <1>2, <1>6 DEF SetDelegating, CollectedOK, Recording
  <2>2. CASE pc'[s] = "idle"
    BY <2>2, NothingToCollect
  <2>3. CASE job[s].cmd = "delegate" /\ pc'[s] = "get_worker"
             /\ job'[s] = [job[s] EXCEPT !.task = 1, !.worker = 1, !.seq = 1]
    <3>1. job[s] \in Jobs
      BY <1>1, <2>1, BusyTypes DEF BusySteps
    <3>2. job'[s].cmd = "delegate" /\ job'[s].task = 1 /\ job'[s].worker = 1
      BY <2>3, <3>1 DEF Jobs
    <3>3. Len(assigned'[s]) = job'[s].task - 1 /\ Covered(s)'
      BY <2>1, <3>2 DEF Covered
    <3> QED
      BY <2>3, <3>2, <3>3 DEF CollectedOK, Checking, Recording, DelegateReturned
  <2> QED
    BY <1>2, <1>6, <2>2, <2>3 DEF SetDelegating
<1>7. CASE GetWorker(s)
  <2>1. CASE Goto(s, "check_worktree") /\ UNCHANGED <<job, assigned>>
    BY <1>2, <1>7, <2>1, CollectsNothing DEF GetWorker, Loop
  <2>2. ASSUME NEW k \in RowsOf(job[s].worker),
               assigned' = [assigned EXCEPT ![s] = Append(@, k)], NextTicket(s)
        PROVE  CollectedOK(s)'
    <3>1. k \in Slots /\ k[2] = job[s].worker /\ workerRow[k] # None
      BY DEF RowsOf
    <3>2. pc[s] = "get_worker" /\ job[s].cmd = "delegate" /\ UNCHANGED workerRow
      BY <1>1, <1>7 DEF GetWorker, SessionOK
    <3> QED
      BY <1>1, <2>2, <3>1, <3>2, Collects
  <2> QED
    BY <1>7, <2>1, <2>2 DEF GetWorker
<1>8. CASE RecordQueueEntry(s)
  <2>1. CASE job[s].cmd = "delegate" /\ assigned' = [assigned EXCEPT ![s] = Append(@, Slot(s))]
             /\ NextTicket(s)
    <3>1. pc[s] = "queue_row" /\ UNCHANGED workerRow
      BY <1>8 DEF RecordQueueEntry
    <3>2. Slot(s) \in Slots /\ Slot(s)[2] = job[s].worker /\ workerRow[Slot(s)] # None
      BY <1>1, <3>1, BuildingTypes
         DEF Building, AssignSteps, BuildOK, FromCheckQueue, FromRecordWorker, FromRecordTask,
             FromContextEvent, Slot
    <3> QED
      BY <1>1, <2>1, <3>1, <3>2, Collects
  <2>2. CASE job[s].cmd = "retry" /\ Goto(s, "retry_event") /\ UNCHANGED <<job, assigned>>
    BY <1>2, <2>2, CollectsNothing
  <2> QED
    BY <1>8, <2>1, <2>2 DEF RecordQueueEntry
<1>9. CASE RetryGetRun(s)
  <2>1. /\ pc[s] = "retry_get_run" /\ pc'[s] = "check_worktree" /\ assigned'[s] = assigned[s]
        /\ job'[s] = [job[s] EXCEPT !.base = runs[job[s].run]]
    BY <1>2, <1>9 DEF RetryGetRun
  <2>2. job[s] \in Jobs /\ job[s].cmd = "retry"
    BY <1>1, <2>1, BusyTypes DEF BusySteps, SessionOK
  <2>3. job'[s].cmd = "retry" /\ job'[s].worker = job[s].worker
    BY <2>1, <2>2 DEF Jobs
  <2> QED
    BY <2>1, <2>3 DEF CollectedOK, Checking, Recording, DelegateReturned
<1>10. CASE \/ CheckWorktree(s) \/ AddWorktree(s) \/ AddWorktreeFails(s)
            \/ PrepareChiefContext(s) \/ PrepareWorkerContext(s)
           \/ RecordContextEvent(s) \/ AssignRecordTask(s) \/ RecordWorker(s) \/ CheckQueue(s)
            \/ AppendChiefQueue(s) \/ AppendWorkerQueue(s)
  <2>1. \/ pc'[s] = "idle"
        \/ UNCHANGED <<job, assigned>> /\ pc[s] \in Loop /\ pc'[s] \in Loop
    BY <1>2, <1>10 DEF CheckWorktree, AddWorktree, AddWorktreeFails, PrepareChiefContext,
       PrepareWorkerContext, RecordContextEvent, AssignRecordTask, RecordWorker, CheckQueue,
       AppendChiefQueue, AppendWorkerQueue, Loop, AssignSteps
  <2> QED
    BY <2>1, CollectsNothing, NothingToCollect
<1>11. CASE RecordRetryEvent(s) \/ RemoveWorktree(s) \/ Stops(s)
  <2>1. pc'[s] = "idle"
    BY <1>2, <1>11 DEF RecordRetryEvent, RemoveWorktree, Stops, Fail, ApiRestart
  <2> QED
    BY <2>1, NothingToCollect
<1> QED
  BY <1>3, <1>4, <1>5, <1>6, <1>7, <1>8, <1>9, <1>10, <1>11 DEF StepOf, SessionStep

\* record_worker writes the ticket its session is at.
LEMMA TicketOfRowStep ==
    ASSUME CollectedInv, NEW s \in Sessions, StepOf(s)
    PROVE  TicketOfRow'
<1>1. BuildInv /\ BaseInv /\ TypeOK /\ SessionOK(s) /\ CollectedOK(s) /\ TicketOfRow
  BY DEF CollectedInv, BuildInv, BaseInv
<1>2. CASE RecordWorker(s)
  <2>1. Slot(s) \in Slots /\ Slot(s)[2] = job[s].worker /\ job[s].cmd \in {"delegate", "retry"}
    BY <1>1, <1>2, BuildingTypes DEF RecordWorker, Building, AssignSteps, SessionOK, Slot
  <2>2. job[s].task = job[s].worker \/ job[s].worker \in RetryWorkers
    BY <1>1, <1>2, <2>1 DEF RecordWorker, CollectedOK, Loop, AssignSteps
  <2>3. \A k \in Slots : workerRow'[k] = IF k = Slot(s) THEN [task |-> job[s].task, base |-> job[s].base]
                                                        ELSE workerRow[k]
    BY <1>1, <1>2, <2>1 DEF RecordWorker, TypeOK
  <2> QED
    BY <1>1, <2>1, <2>2, <2>3 DEF TicketOfRow
<1> QED
  BY <1>1, <1>2, TableWriters DEF TicketOfRow

LEMMA InitCollected == Init => CollectedInv
BY InitBuild DEF Init, CollectedInv, CollectedOK, TicketOfRow, Checking, Recording, Loop,
   AssignSteps, DelegateReturned

LEMMA CollectedStep == CollectedInv /\ [Next]_vars => CollectedInv'
<1> SUFFICES ASSUME CollectedInv, [Next]_vars PROVE CollectedInv'
  OBVIOUS
<1>1. BuildInv /\ BuildInv' /\ BaseInv /\ TypeOK
  BY BuildStep DEF CollectedInv, BuildInv, BaseInv
<1>2. ASSUME NEW s \in Sessions, StepOf(s), NEW t \in Sessions PROVE CollectedOK(t)'
  <2>1. CASE t = s
    BY <1>1, <1>2, <2>1, CollectedOwn DEF CollectedInv
  <2>2. CASE t # s
    <3>1. pc'[t] = pc[t] /\ job'[t] = job[t] /\ assigned'[t] = assigned[t]
      BY <1>1, <1>2, <2>2, OthersWait, OthersCollect
    <3> QED
      BY <1>1, <3>1, CollectsNothing DEF CollectedInv
  <2> QED
    BY <2>1, <2>2
<1>5. CASE UNCHANGED vars
  <2>1. ASSUME NEW t \in Sessions PROVE CollectedOK(t)'
    BY <1>1, <1>5, CollectsNothing DEF CollectedInv, vars
  <2> QED
    BY <1>1, <1>5, <2>1 DEF CollectedInv, TicketOfRow, vars
<1> QED
  BY <1>1, <1>2, <1>5, SomeStep, TicketOfRowStep DEF CollectedInv

\* delegate_tasks returns one recorded worker for every ticket of the plan, in
\* order, whatever failed, raced or was retried before; only a retry that took
\* a worker's number can have given it another ticket.
THEOREM DelegationIsComplete == Spec => []DelegatedCovers
<1>1. CollectedInv => DelegatedCovers
  <2> SUFFICES ASSUME CollectedInv, NEW s \in Sessions, DelegateReturned(s)
               PROVE  /\ Len(assigned[s]) = PlanSize[job[s].run] /\ Covered(s)
                      /\ \A i \in DOMAIN assigned[s] :
                            workerRow[assigned[s][i]].task = i \/ i \in RetryWorkers
    BY DEF DelegatedCovers, Covered
  <2>1. Len(assigned[s]) = PlanSize[job[s].run] /\ Covered(s)
    BY DEF CollectedInv, CollectedOK
  <2>2. \A i \in DOMAIN assigned[s] : assigned[s][i] \in Slots
    BY DEF CollectedInv, BuildInv, BaseInv, TypeOK
  <2> QED
    BY <2>1, <2>2 DEF Covered, CollectedInv, TicketOfRow
<1> QED
  BY InitCollected, CollectedStep, <1>1, PTL DEF Spec

\* Where all handoffs of a workspace are of one run, the lookup of workers by
\* their id alone returns this run's: delegate_tasks does what it says.
THEOREM OneRunIsDelegated ==
    ASSUME \A q, r \in Runs : q = r
    PROVE  Spec => []DelegatedToOwnRun
<1>1. CollectedInv => DelegatedToOwnRun
  <2> SUFFICES ASSUME CollectedInv, NEW s \in Sessions, DelegateReturned(s)
               PROVE  /\ Len(assigned[s]) = PlanSize[job[s].run]
                      /\ \A i \in DOMAIN assigned[s] : assigned[s][i] = <<job[s].run, i>>
    BY DEF DelegatedToOwnRun
  <2>1. Len(assigned[s]) = PlanSize[job[s].run] /\ Covered(s)
    BY DEF CollectedInv, CollectedOK
  <2>2. ASSUME NEW i \in DOMAIN assigned[s] PROVE assigned[s][i] = <<job[s].run, i>>
    <3>1. assigned[s][i] \in Slots /\ assigned[s][i][2] = i
      BY <2>1 DEF Covered, CollectedInv, BuildInv, BaseInv, TypeOK
    <3>2. job[s].run \in Runs
      BY DEF CollectedInv, CollectedOK, Jobs
    <3> QED
      BY <3>1, <3>2 DEF Slots
  <2> QED
    BY <2>1, <2>2
<1> QED
  BY InitCollected, CollectedStep, <1>1, PTL DEF Spec

-----------------------------------------------------------------------------
(* The queue files.                                                         *)

\* The answer of the check in append still holds when the file is written.
QueueOK(s) ==
    /\ pc[s] = "queue_chief" =>
          ~ Contains(chiefQueue[job[s].worker], QueueId(s))
    /\ pc[s] \in {"queue_chief", "queue_worker"} =>
          ~ Contains(workerQueue[Slot(s)], QueueId(s))

QueueInv ==
    /\ BuildInv
    /\ \A s \in Sessions : QueueOK(s)
    /\ NoDuplicateQueueEntry
    /\ WorkerQueueCovered

\* Appending a new id keeps a queue file free of duplicates, and adds no other.
LEMMA UniqueAppend ==
    ASSUME NEW S, NEW file \in Seq(S), NEW e \in S
    PROVE  /\ Unique(file) /\ ~ Contains(file, e) => Unique(Append(file, e))
           /\ \A q : Contains(Append(file, e), q) => q = e \/ Contains(file, q)
           /\ \A i \in DOMAIN Append(file, e) :
                 Append(file, e)[i] = e \/ \E j \in DOMAIN file : file[j] = Append(file, e)[i]
<1>1. ASSUME NEW i \in DOMAIN Append(file, e)
      PROVE  \/ i \in DOMAIN file /\ Append(file, e)[i] = file[i]
             \/ i = Len(file) + 1 /\ Append(file, e)[i] = e
  OBVIOUS
<1>2. \A q : Contains(Append(file, e), q) => q = e \/ Contains(file, q)
  BY <1>1 DEF Contains
<1>3. ASSUME Unique(file), ~ Contains(file, e)
      PROVE  Unique(Append(file, e))
  <2> SUFFICES ASSUME NEW i \in DOMAIN Append(file, e), NEW j \in DOMAIN Append(file, e),
                      Append(file, e)[i] = Append(file, e)[j]
               PROVE  i = j
    BY DEF Unique
  <2> QED
    BY <1>1, <1>3 DEF Unique, Contains
<1> QED
  BY <1>1, <1>2, <1>3

\* Only append writes queue files, and a session gets there by its check; a
\* worker's file can go with its worktree.
LEMMA QueueWriters ==
    ASSUME BaseInv, NEW s \in Sessions, StepOf(s)
    PROVE  /\ AppendChiefQueue(s) \/ chiefQueue' = chiefQueue
           /\ \/ AppendWorkerQueue(s) \/ workerQueue' = workerQueue
              \/ \A k \in Slots : workerQueue'[k] \in {workerQueue[k], <<>>}
           /\ pc'[s] = "queue_chief" => CheckQueue(s)
           /\ pc'[s] = "queue_worker" => AppendChiefQueue(s)
<1> USE DEF Goto, Quit, Continue
<1>1. pc \in [Sessions -> {"idle", "returned"} \cup BusySteps]
  BY DEF BaseInv, TypeOK
<1>2. CASE \/ GetRun(s) \/ CreateRun(s) \/ RecordHandoff(s) \/ SetPlanApproved(s)
           \/ RecordTask(s) \/ SetDelegating(s) \/ RetryGetRun(s)
  BY <1>1, <1>2 DEF GetRun, CreateRun, RecordHandoff, SetPlanApproved, RecordTask,
                    SetDelegating, RetryGetRun, fileVars
<1>3. CASE GetWorker(s) \/ RecordQueueEntry(s)
  BY <1>1, <1>3 DEF GetWorker, RecordQueueEntry, NextTicket, fileVars
<1>4. CASE \/ CheckWorktree(s) \/ AddWorktree(s) \/ AddWorktreeFails(s) \/ Stops(s)
           \/ PrepareChiefContext(s) \/ PrepareWorkerContext(s) \/ RecordContextEvent(s)
           \/ AssignRecordTask(s)
  BY <1>1, <1>4 DEF CheckWorktree, AddWorktree, AddWorktreeFails, Stops, Fail, ApiRestart,
                    PrepareChiefContext, PrepareWorkerContext, RecordContextEvent,
                    AssignRecordTask, fileVars
<1>8. CASE RemoveWorktree(s)
  <2>1. pc'[s] = "idle" /\ chiefQueue' = chiefQueue
    BY <1>1, <1>8 DEF RemoveWorktree
  <2>2. Slot(s) \in Slots
    BY <1>8, BuildingTypes DEF RemoveWorktree, Building, BaseInv
  <2>3. \A k \in Slots : workerQueue'[k] \in {workerQueue[k], <<>>}
    BY <1>8, <2>2 DEF RemoveWorktree, BaseInv, TypeOK
  <2> QED
    BY <2>1, <2>3
<1>5. CASE RecordRetryEvent(s) \/ RecordWorker(s)
  BY <1>1, <1>5 DEF RecordRetryEvent, RecordWorker, fileVars
<1>6. CASE CheckQueue(s) \/ AppendChiefQueue(s) \/ AppendWorkerQueue(s)
  BY <1>1, <1>6 DEF CheckQueue, AppendChiefQueue, AppendWorkerQueue, fileVars
<1>7. CASE Begin(s)
  <2>1. ASSUME NEW cmd, NEW r, NEW b, NEW i, NEW w, NEW n,
               NEW step \in {"get_run", "retry_get_run"},
               StartJob(s, cmd, r, b, i, w, n, step)
        PROVE  chiefQueue' = chiefQueue /\ workerQueue' = workerQueue
               /\ pc'[s] \in {"get_run", "retry_get_run"}
    BY <1>1, <2>1 DEF StartJob, fileVars
  <2> QED
    BY <1>7, <2>1, BeginShape DEF BaseInv
<1> QED
  BY <1>2, <1>3, <1>4, <1>5, <1>6, <1>7, <1>8 DEF StepOf, SessionStep

\* The queues as append leaves them.
LEMMA QueuesAppended ==
    ASSUME BaseInv, NEW s \in Sessions
    PROVE  /\ pc[s] \in AssignSteps => /\ Slot(s) \in Slots /\ job[s].worker \in Workers
                                       /\ QueueId(s) \in QueueIds
           /\ AppendChiefQueue(s) => \A w \in Workers : chiefQueue'[w] =
                 IF w = job[s].worker THEN Append(chiefQueue[w], QueueId(s)) ELSE chiefQueue[w]
           /\ AppendWorkerQueue(s) => \A k \in Slots : workerQueue'[k] =
                 IF k = Slot(s) THEN Append(workerQueue[k], QueueId(s)) ELSE workerQueue[k]
<1>1. TypeOK
  BY DEF BaseInv
<1>2. ASSUME pc[s] \in AssignSteps
      PROVE  Slot(s) \in Slots /\ job[s].worker \in Workers /\ QueueId(s) \in QueueIds
  BY <1>1, <1>2, BuildingTypes DEF BaseInv, Building
<1> QED
  BY <1>1, <1>2 DEF TypeOK, AppendChiefQueue, AppendWorkerQueue, AssignSteps

\* Another session's append puts the id of another slot.
LEMMA QueueFrame ==
    ASSUME QueueInv, NEW s \in Sessions, StepOf(s), NEW t \in Sessions \ {s}
    PROVE  QueueOK(t)'
<1>1. BaseInv /\ TypeOK /\ QueueOK(t)
  BY DEF QueueInv, BuildInv, BaseInv
<1>2. pc'[t] = pc[t] /\ job'[t] = job[t] /\ Slot(t)' = Slot(t) /\ QueueId(t)' = QueueId(t)
  BY <1>1, OthersWait DEF Slot, QueueId
<1>3. SUFFICES ASSUME pc[t] \in {"queue_chief", "queue_worker"}
               PROVE  QueueOK(t)'
  BY <1>2 DEF QueueOK
<1>4. Slot(t) \in Slots /\ job[t].worker \in Workers /\ QueueId(t) \in QueueIds
  BY <1>1, <1>3, QueuesAppended DEF AssignSteps
<1>5. ASSUME pc[s] \in AssignSteps
      PROVE  QueueId(s) # QueueId(t)
  <2>1. Slot(s) # Slot(t)
    BY <1>3, <1>5 DEF QueueInv, BuildInv, OneBuilderPerWorktree, AssignSteps
  <2> QED
    BY <2>1 DEF Slot, QueueId
<1>6. ASSUME ~ Contains(chiefQueue[job[t].worker], QueueId(t))
      PROVE  ~ Contains(chiefQueue'[job[t].worker], QueueId(t))
  <2>1. CASE AppendChiefQueue(s)
    <3>1. QueueId(s) # QueueId(t) /\ QueueId(s) \in QueueIds
      BY <1>1, <1>5, <2>1, QueuesAppended DEF AppendChiefQueue, AssignSteps
    <3>2. chiefQueue[job[t].worker] \in Seq(QueueIds)
      BY <1>1, <1>4 DEF TypeOK
    <3> QED
      BY <1>1, <1>4, <1>6, <2>1, <3>1, <3>2, QueuesAppended, UniqueAppend
  <2> QED
    BY <1>1, <1>6, <2>1, QueueWriters
<1>7. ASSUME ~ Contains(workerQueue[Slot(t)], QueueId(t))
      PROVE  ~ Contains(workerQueue'[Slot(t)], QueueId(t))
  <2>1. CASE AppendWorkerQueue(s)
    <3>1. Slot(s) # Slot(t)
      BY <1>3, <2>1 DEF AppendWorkerQueue, QueueInv, BuildInv, OneBuilderPerWorktree, AssignSteps
    <3> QED
      BY <1>1, <1>4, <1>7, <2>1, <3>1, QueuesAppended
  <2>2. CASE workerQueue'[Slot(t)] = <<>>
    BY <2>2 DEF Contains
  <2> QED
    BY <1>1, <1>4, <1>7, <2>1, <2>2, QueueWriters
<1> QED
  BY <1>1, <1>2, <1>6, <1>7 DEF QueueOK

\* A session passes the check with a new id, and writes one file after the other.
LEMMA QueueOwn ==
    ASSUME QueueInv, NEW s \in Sessions, StepOf(s)
    PROVE  QueueOK(s)'
<1>1. BaseInv /\ TypeOK /\ QueueOK(s)
  BY DEF QueueInv, BuildInv, BaseInv
<1>2. CASE CheckQueue(s)
  BY <1>1, <1>2 DEF CheckQueue, Goto, Quit, Continue, QueueOK, TypeOK, Slot, QueueId, fileVars
<1>3. CASE AppendChiefQueue(s)
  BY <1>1, <1>3 DEF AppendChiefQueue, Goto, Quit, Continue, QueueOK, TypeOK, Slot, QueueId
<1>4. CASE ~ CheckQueue(s) /\ ~ AppendChiefQueue(s)
  BY <1>1, <1>4, QueueWriters DEF QueueOK
<1> QED
  BY <1>2, <1>3, <1>4

\* No duplicates: the writer's id is still new when it writes.
LEMMA NoDuplicateStep ==
    ASSUME QueueInv, NEW s \in Sessions, StepOf(s)
    PROVE  NoDuplicateQueueEntry'
<1>1. BaseInv /\ TypeOK /\ QueueOK(s) /\ NoDuplicateQueueEntry
  BY DEF QueueInv, BuildInv, BaseInv
<1>2. ASSUME NEW w \in Workers
      PROVE  Unique(chiefQueue'[w])
  <2>1. CASE AppendChiefQueue(s) /\ w = job[s].worker
    <3>1. ~ Contains(chiefQueue[w], QueueId(s)) /\ QueueId(s) \in QueueIds
      BY <1>1, <2>1, QueuesAppended DEF AppendChiefQueue, QueueOK, AssignSteps
    <3>2. chiefQueue[w] \in Seq(QueueIds) /\ Unique(chiefQueue[w])
      BY <1>1, <1>2 DEF TypeOK, NoDuplicateQueueEntry
    <3> QED
      BY <1>1, <2>1, <3>1, <3>2, QueuesAppended, UniqueAppend
  <2> QED
    BY <1>1, <2>1, QueuesAppended, QueueWriters DEF NoDuplicateQueueEntry
<1>3. ASSUME NEW k \in Slots
      PROVE  Unique(workerQueue'[k])
  <2>1. CASE AppendWorkerQueue(s) /\ k = Slot(s)
    <3>1. ~ Contains(workerQueue[k], QueueId(s)) /\ QueueId(s) \in QueueIds
      BY <1>1, <2>1, QueuesAppended DEF AppendWorkerQueue, QueueOK, AssignSteps
    <3>2. workerQueue[k] \in Seq(QueueIds) /\ Unique(workerQueue[k])
      BY <1>1, <1>3 DEF TypeOK, NoDuplicateQueueEntry
    <3> QED
      BY <1>1, <2>1, <3>1, <3>2, QueuesAppended, UniqueAppend
  <2>2. CASE workerQueue'[k] = <<>>
    BY <2>2 DEF Unique
  <2> QED
    BY <1>1, <2>1, <2>2, QueuesAppended, QueueWriters DEF NoDuplicateQueueEntry
<1> QED
  BY <1>2, <1>3 DEF NoDuplicateQueueEntry

\* The worker's file gets an entry only after the authoritative one has it.
LEMMA CoveredStep ==
    ASSUME QueueInv, NEW s \in Sessions, StepOf(s)
    PROVE  WorkerQueueCovered'
<1>1. BaseInv /\ TypeOK /\ BuildOK(s) /\ WorkerQueueCovered /\ Grown
  BY StepGrows DEF QueueInv, BuildInv, BaseInv
<1> SUFFICES ASSUME NEW k \in Slots, NEW i \in DOMAIN workerQueue'[k]
             PROVE  Contains(chiefQueue'[k[2]], workerQueue'[k][i])
  BY DEF WorkerQueueCovered
<1>2. k[2] \in Workers
  BY DEF Slots
<1>3. ASSUME NEW j \in DOMAIN workerQueue[k], workerQueue[k][j] = workerQueue'[k][i]
      PROVE  Contains(chiefQueue'[k[2]], workerQueue'[k][i])
  BY <1>1, <1>2, <1>3 DEF WorkerQueueCovered, Grown
<1>4. CASE AppendWorkerQueue(s) /\ k = Slot(s)
  <2>1. QueueId(s) \in QueueIds /\ workerQueue[k] \in Seq(QueueIds)
        /\ workerQueue'[k] = Append(workerQueue[k], QueueId(s))
    BY <1>1, <1>4, QueuesAppended DEF AppendWorkerQueue, AssignSteps, TypeOK
  <2>2. workerQueue'[k][i] = QueueId(s)
        \/ \E j \in DOMAIN workerQueue[k] : workerQueue[k][j] = workerQueue'[k][i]
    BY <2>1, UniqueAppend
  <2>3. Contains(chiefQueue[k[2]], QueueId(s))
    BY <1>1, <1>4 DEF AppendWorkerQueue, BuildOK, Slot
  <2> QED
    BY <1>1, <1>2, <1>3, <2>2, <2>3 DEF Grown
<1>5. CASE ~ (AppendWorkerQueue(s) /\ k = Slot(s))
  <2>1. workerQueue'[k] \in {workerQueue[k], <<>>}
    BY <1>1, <1>5, QueuesAppended, QueueWriters
  <2> QED
    BY <1>3, <2>1
<1> QED
  BY <1>4, <1>5

\* The inductive step for the queues.
LEMMA QueueStep == QueueInv /\ [Next]_vars => QueueInv'
<1> SUFFICES ASSUME QueueInv, [Next]_vars PROVE QueueInv'
  OBVIOUS
<1>1. BuildInv'
  BY BuildStep DEF QueueInv
<1>2. ASSUME NEW s \in Sessions, StepOf(s) PROVE QueueInv'
  <2>1. ASSUME NEW t \in Sessions PROVE QueueOK(t)'
    <3>1. CASE t = s
      BY <1>2, <3>1, QueueOwn
    <3>2. CASE t # s
      BY <1>2, <3>2, QueueFrame
    <3> QED
      BY <3>1, <3>2
  <2> QED
    BY <1>1, <1>2, <2>1, NoDuplicateStep, CoveredStep DEF QueueInv
<1>5. CASE UNCHANGED vars
  <2>1. ASSUME NEW t \in Sessions PROVE QueueOK(t)'
    BY <1>5 DEF QueueInv, QueueOK, Slot, QueueId, vars
  <2> QED
    BY <1>1, <1>5, <2>1 DEF QueueInv, NoDuplicateQueueEntry, WorkerQueueCovered, vars
<1> QED
  BY <1>2, <1>5, SomeStep

LEMMA InitQueue == Init => QueueInv
BY InitBuild DEF Init, QueueInv, QueueOK, NoDuplicateQueueEntry, WorkerQueueCovered, Unique

\* append's check of the two files, made without a lock, is enough: whoever
\* could write the same id would have to be building the same worktree.
THEOREM QueuesHaveNoDuplicates == Spec => []NoDuplicateQueueEntry
<1>1. QueueInv => NoDuplicateQueueEntry
  BY DEF QueueInv
<1> QED
  BY InitQueue, QueueStep, <1>1, PTL DEF Spec

\* A worker never finds an entry in its queue that Chief's own record lacks.
THEOREM WorkerQueuesAreCovered == Spec => []WorkerQueueCovered
<1>1. QueueInv => WorkerQueueCovered
  BY DEF QueueInv
<1> QED
  BY InitQueue, QueueStep, <1>1, PTL DEF Spec

\* The two files and the table of the queue are written in that order, and a
\* later one never says more than an earlier one, but for the file that went
\* with a removed worktree.
THEOREM QueuePlacesAgree == Spec => []QueuesAgree
<1>1. QueueRowBacked /\ WorkerQueueCovered => QueuesAgree
  BY DEF QueuesAgree
<1> QED
  BY <1>1, QueueRowsAreBacked, WorkerQueuesAreCovered, PTL

-----------------------------------------------------------------------------
(* What "delegating" promises.                                              *)

\* How far the artifact and the tickets of a handoff have been written.
TicketOK(s) ==
    /\ pc[s] \in {"plan_approved", "record_task", "set_delegating"} =>
          handoffs[job[s].run] # None
    /\ pc[s] = "record_task" =>
          \A i \in 1 .. job[s].task - 1 : <<job[s].run, i>> \in tasks
    /\ pc[s] = "set_delegating" =>
          \A i \in 1 .. PlanSize[job[s].run] : <<job[s].run, i>> \in tasks

TicketInv ==
    /\ BaseInv
    /\ \A s \in Sessions : TicketOK(s)
    /\ DelegatingHasTasks

\* A stored artifact may be replaced but is never gone.
LEMMA HandoffsStay ==
    ASSUME BaseInv, NEW s \in Sessions, StepOf(s)
    PROVE  \A r \in Runs : handoffs[r] # None => handoffs'[r] # None
<1>1. CASE RecordHandoff(s)
  <2>1. job[s].base \in Bases
    BY <1>1 DEF RecordHandoff, BaseInv, SessionOK, Recording
  <2> QED
    BY <1>1, <2>1, DelegationAssumption DEF RecordHandoff, BaseInv, TypeOK
<1>2. CASE ~ RecordHandoff(s)
  BY <1>2 DEF StepOf, SessionStep, CheckWorktree, AddWorktreeFails, RemoveWorktree, Stops,
         Fail, ApiRestart, Begin, BeginHandoff,
         BeginDelegate, BeginApiDelegate, BeginRetry, StartJob, GetRun, CreateRun,
         SetPlanApproved, RecordTask, SetDelegating, GetWorker, RetryGetRun, AddWorktree,
         PrepareChiefContext, PrepareWorkerContext, RecordContextEvent, AssignRecordTask,
         RecordWorker, CheckQueue, AppendChiefQueue, AppendWorkerQueue, RecordQueueEntry,
         RecordRetryEvent
<1> QED
  BY <1>1, <1>2

\* Only set_run_status("delegating") makes a run delegating or known.
LEMMA DelegatingWriter ==
    ASSUME BaseInv, NEW s \in Sessions, StepOf(s), NEW r \in Runs,
           status'[r] = "delegating" \/ r \in known'
    PROVE  \/ status[r] = "delegating" \/ r \in known
           \/ SetDelegating(s) /\ r = job[s].run
<1>1. status \in [Runs -> {None, "created", "plan_approved", "delegating"}]
  BY DEF BaseInv, TypeOK
<1>2. CASE CreateRun(s) \/ SetPlanApproved(s) \/ SetDelegating(s)
  BY <1>1, <1>2 DEF CreateRun, SetPlanApproved, SetDelegating
<1>3. CASE ~ (CreateRun(s) \/ SetPlanApproved(s) \/ SetDelegating(s))
  BY <1>3 DEF StepOf, SessionStep, CheckWorktree, AddWorktreeFails, RemoveWorktree, Stops,
         Fail, ApiRestart, Begin, BeginHandoff,
         BeginDelegate, BeginApiDelegate, BeginRetry, StartJob, GetRun, RecordHandoff,
         RecordTask, GetWorker, RetryGetRun, AddWorktree,
         PrepareChiefContext, PrepareWorkerContext, RecordContextEvent, AssignRecordTask,
         RecordWorker, CheckQueue, AppendChiefQueue, AppendWorkerQueue, RecordQueueEntry,
         RecordRetryEvent
<1> QED
  BY <1>2, <1>3

\* The order in which a session gets to its tickets.
LEMMA TicketPath ==
    ASSUME BaseInv, NEW s \in Sessions, StepOf(s)
    PROVE  /\ pc'[s] = "plan_approved" => RecordHandoff(s)
           /\ pc'[s] = "record_task" => SetPlanApproved(s) \/ RecordTask(s)
           /\ pc'[s] = "set_delegating" => RecordTask(s)
<1> USE DEF Goto, Quit, Continue
<1>1. pc \in [Sessions -> {"idle", "returned"} \cup BusySteps]
  BY DEF BaseInv, TypeOK
<1>2. CASE GetRun(s) \/ CreateRun(s) \/ RecordHandoff(s) \/ SetPlanApproved(s)
  BY <1>1, <1>2 DEF GetRun, CreateRun, RecordHandoff, SetPlanApproved
<1>3. CASE RecordTask(s) \/ SetDelegating(s) \/ RetryGetRun(s)
  BY <1>1, <1>3 DEF RecordTask, SetDelegating, RetryGetRun
<1>4. CASE GetWorker(s) \/ RecordQueueEntry(s)
  BY <1>1, <1>4 DEF GetWorker, RecordQueueEntry, NextTicket
<1>5. CASE \/ CheckWorktree(s) \/ AddWorktree(s) \/ AddWorktreeFails(s)
           \/ RemoveWorktree(s) \/ Stops(s) \/ PrepareChiefContext(s) \/ PrepareWorkerContext(s)
           \/ RecordContextEvent(s) \/ AssignRecordTask(s)
  BY <1>1, <1>5 DEF CheckWorktree, AddWorktree, AddWorktreeFails, RemoveWorktree, Stops, Fail,
                    ApiRestart, PrepareChiefContext,
                    PrepareWorkerContext, RecordContextEvent, AssignRecordTask
<1>6. CASE \/ RecordRetryEvent(s) \/ RecordWorker(s) \/ CheckQueue(s)
           \/ AppendChiefQueue(s) \/ AppendWorkerQueue(s)
  BY <1>1, <1>6 DEF RecordRetryEvent, RecordWorker, CheckQueue, AppendChiefQueue,
                    AppendWorkerQueue
<1>7. CASE Begin(s)
  <2>1. ASSUME NEW cmd, NEW r, NEW b, NEW i, NEW w, NEW n,
               NEW step \in {"get_run", "retry_get_run"},
               StartJob(s, cmd, r, b, i, w, n, step)
        PROVE  pc'[s] \in {"get_run", "retry_get_run"}
    BY <1>1, <2>1 DEF StartJob
  <2> QED
    BY <1>7, <2>1, BeginShape DEF BaseInv
<1> QED
  BY <1>2, <1>3, <1>4, <1>5, <1>6, <1>7 DEF StepOf, SessionStep

\* Nobody takes a session's artifact or tickets away.
LEMMA TicketFrame ==
    ASSUME TicketInv, NEW s \in Sessions, StepOf(s), NEW t \in Sessions \ {s}
    PROVE  TicketOK(t)'
<1>1. BaseInv /\ TypeOK /\ TicketOK(t) /\ SessionOK(t)
  BY DEF TicketInv, BaseInv
<1>2. pc'[t] = pc[t] /\ job'[t] = job[t]
  BY <1>1, OthersWait
<1>3. tasks \subseteq tasks'
  BY <1>1, StepGrows DEF Grown
<1>4. pc[t] \in {"plan_approved", "record_task", "set_delegating"} => job[t].run \in Runs
  BY <1>1, BusyTypes DEF BusySteps
<1> QED
  BY <1>1, <1>2, <1>3, <1>4, HandoffsStay DEF TicketOK

\* Artifact first, then ticket after ticket to the end of the plan.
LEMMA TicketOwn ==
    ASSUME TicketInv, NEW s \in Sessions, StepOf(s)
    PROVE  TicketOK(s)'
<1> USE DEF Goto, Quit, Continue
<1>1. BaseInv /\ TypeOK /\ TicketOK(s) /\ SessionOK(s)
  BY DEF TicketInv, BaseInv
<1>2. /\ pc \in [Sessions -> {"idle", "returned"} \cup BusySteps]
      /\ job \in [Sessions -> Jobs \cup {None}]
  BY <1>1 DEF TypeOK
<1>3. ASSUME pc[s] \in Recording
      PROVE  job[s] \in Jobs /\ job[s].run \in Runs /\ job[s].base \in Bases /\ job[s].task \in Nat
             /\ PlanSize[job[s].run] \in Nat
  <2>1. pc[s] \in BusySteps
    BY <1>3 DEF Recording, BusySteps
  <2> QED
    BY <1>1, <1>3, <2>1, BusyTypes, DelegationAssumption DEF SessionOK
<1>4. CASE RecordHandoff(s)
  <2>1. pc'[s] = "plan_approved" /\ job' = job /\ handoffs'[job[s].run] = job[s].base
    BY <1>1, <1>2, <1>3, <1>4 DEF RecordHandoff, Recording, TypeOK
  <2> QED
    BY <1>3, <1>4, <2>1, DelegationAssumption DEF TicketOK, RecordHandoff, Recording
<1>5. CASE SetPlanApproved(s)
  <2>1. /\ pc'[s] = "idle" \/ (pc'[s] = "record_task" /\ job' = job)
        /\ UNCHANGED <<handoffs, tasks>> /\ job[s].task = 1 /\ pc[s] = "plan_approved"
    BY <1>1, <1>2, <1>5 DEF SetPlanApproved, SessionOK
  <2> QED
    BY <1>1, <2>1 DEF TicketOK
<1>6. CASE RecordTask(s)
  <2>1. /\ pc[s] = "record_task" /\ handoffs' = handoffs
        /\ tasks' = tasks \cup {<<job[s].run, job[s].task>>}
        /\ \A i \in 1 .. job[s].task - 1 : <<job[s].run, i>> \in tasks
        /\ handoffs[job[s].run] # None
    BY <1>1, <1>6 DEF RecordTask, TicketOK
  <2>2. job[s] \in Jobs /\ job[s].task \in Nat /\ PlanSize[job[s].run] \in Nat
    BY <1>3, <2>1 DEF Recording
  <2>3. \A i \in 1 .. job[s].task : <<job[s].run, i>> \in tasks'
    BY <2>1, <2>2
  <2>4. CASE job' = [job EXCEPT ![s].task = @ + 1] /\ pc' = pc
    <3>1. job'[s].run = job[s].run /\ job'[s].task = job[s].task + 1
      BY <1>2, <2>2, <2>4 DEF Jobs
    <3> QED
      BY <2>1, <2>2, <2>3, <2>4, <3>1 DEF TicketOK
  <2>5. CASE job[s].task = PlanSize[job[s].run] /\ pc'[s] = "set_delegating" /\ job' = job
    BY <2>1, <2>2, <2>3, <2>5 DEF TicketOK
  <2> QED
    BY <1>2, <1>6, <2>4, <2>5 DEF RecordTask
<1>7. CASE ~ (RecordHandoff(s) \/ SetPlanApproved(s) \/ RecordTask(s))
  BY <1>1, <1>7, TicketPath DEF TicketOK
<1> QED
  BY <1>4, <1>5, <1>6, <1>7

\* A run becomes delegating, or known to the server, with all its tickets.
LEMMA DelegatingStep ==
    ASSUME TicketInv, NEW s \in Sessions, StepOf(s)
    PROVE  DelegatingHasTasks'
<1>1. BaseInv /\ TicketOK(s) /\ SessionOK(s) /\ TypeOK /\ DelegatingHasTasks
  BY DEF TicketInv, BaseInv
<1>2. tasks \subseteq tasks'
  BY <1>1, StepGrows DEF Grown
<1> SUFFICES ASSUME NEW r \in Runs, status'[r] = "delegating" \/ r \in known'
             PROVE  handoffs'[r] # None /\ \A i \in 1 .. PlanSize[r] : <<r, i>> \in tasks'
  BY DEF DelegatingHasTasks
<1>3. handoffs[r] # None /\ \A i \in 1 .. PlanSize[r] : <<r, i>> \in tasks
  <2>1. CASE SetDelegating(s) /\ r = job[s].run
    BY <1>1, <2>1 DEF SetDelegating, TicketOK
  <2> QED
    BY <1>1, <2>1, DelegatingWriter DEF DelegatingHasTasks
<1> QED
  BY <1>1, <1>2, <1>3, HandoffsStay

LEMMA InitTickets == Init => TicketInv
<1> SUFFICES ASSUME Init PROVE (\A s \in Sessions : TicketOK(s)) /\ DelegatingHasTasks
  BY InitBase DEF TicketInv
<1>1. \A s \in Sessions : TicketOK(s)
  BY DEF Init, TicketOK
<1>2. \A r \in Runs : status[r] # "delegating" /\ r \notin known
  BY DelegationAssumption DEF Init
<1> QED
  BY <1>1, <1>2 DEF DelegatingHasTasks

LEMMA TicketStep == TicketInv /\ [Next]_vars => TicketInv'
<1> SUFFICES ASSUME TicketInv, [Next]_vars PROVE TicketInv'
  OBVIOUS
<1>1. BaseInv'
  BY BaseStep DEF TicketInv
<1>2. ASSUME NEW s \in Sessions, StepOf(s) PROVE TicketInv'
  <2>1. ASSUME NEW t \in Sessions PROVE TicketOK(t)'
    <3>1. CASE t = s
      BY <1>2, <3>1, TicketOwn
    <3>2. CASE t # s
      BY <1>2, <3>2, TicketFrame
    <3> QED
      BY <3>1, <3>2
  <2> QED
    BY <1>1, <1>2, <2>1, DelegatingStep DEF TicketInv
<1>5. CASE UNCHANGED vars
  BY <1>1, <1>5 DEF TicketInv, TicketOK, DelegatingHasTasks, vars
<1> QED
  BY <1>2, <1>5, SomeStep

\* Whatever races, fails or restarts, a run that says "delegating" or that the
\* API server answers for has its artifact and every ticket of its plan.
THEOREM DelegatingIsComplete == Spec => []DelegatingHasTasks
<1>1. TicketInv => DelegatingHasTasks
  BY DEF TicketInv
<1> QED
  BY InitTickets, TicketStep, <1>1, PTL DEF Spec

-----------------------------------------------------------------------------
(* The slots' ledger.                                                       *)

Builds(s, k) == pc[s] \in AssignSteps /\ Slot(s) = k

RivalSteps == {"add_worktree", "remove_worktree"}

\* s found slot k without a directory and has still to add it, or to remove it.
Rivals(s, k) == pc[s] \in RivalSteps /\ Slot(s) = k

Stage   == [k \in Slots |-> StageOf(k)]
Rival   == [k \in Slots |-> RivalsFor(k)]
Builder == [k \in Slots |-> BuilderOf(k)]

\* A slot that is being built has no queue entry yet.
NotYetQueued == \A s \in Sessions : pc[s] \in FromCheckQueue => ~ Queued(Slot(s))

LedgerInv == BuildInv /\ NotYetQueued

\* The builder of a slot is the one session inside assign_task for it.
LEMMA BuilderIs ==
    ASSUME OneBuilderPerWorktree, NEW k
    PROVE  /\ \A s \in Sessions : Builds(s, k) => BuilderOf(k) = s
           /\ (\A s \in Sessions : ~ Builds(s, k)) => BuilderOf(k) = None
           /\ BuilderOf(k) # None => BuilderOf(k) \in Sessions /\ Builds(BuilderOf(k), k)
<1> DEFINE builders == {s \in Sessions : pc[s] \in AssignSteps /\ Slot(s) = k}
<1>1. BuilderOf(k) = IF builders = {} THEN None ELSE CHOOSE s \in builders : TRUE
  BY DEF BuilderOf
<1>2. builders # {} => (CHOOSE s \in builders : TRUE) \in builders
  OBVIOUS
<1>3. \A s, t \in builders : s = t
  BY DEF OneBuilderPerWorktree
<1>4. \A s : s \in builders <=> s \in Sessions /\ Builds(s, k)
  BY DEF Builds
<1> HIDE DEF builders
<1> QED
  BY <1>1, <1>2, <1>3, <1>4

\* The same after a step.
LEMMA BuilderWillBe ==
    ASSUME OneBuilderPerWorktree', NEW k
    PROVE  /\ \A s \in Sessions : Builds(s, k)' => BuilderOf(k)' = s
           /\ (\A s \in Sessions : ~ Builds(s, k)') => BuilderOf(k)' = None
<1> DEFINE builders == {s \in Sessions : pc'[s] \in AssignSteps /\ Slot(s)' = k}
<1>1. BuilderOf(k)' = IF builders = {} THEN None ELSE CHOOSE s \in builders : TRUE
  BY DEF BuilderOf
<1>2. builders # {} => (CHOOSE s \in builders : TRUE) \in builders
  OBVIOUS
<1>3. \A s, t \in builders : s = t
  BY DEF OneBuilderPerWorktree
<1>4. \A s : s \in builders <=> s \in Sessions /\ Builds(s, k)'
  BY DEF Builds
<1> HIDE DEF builders
<1> QED
  BY <1>1, <1>2, <1>3, <1>4

\* A slot whose builders, rows and branch stay is at the same stage.
LEMMA SlotRests ==
    ASSUME NEW k, \A s \in Sessions : Builds(s, k)' <=> Builds(s, k)
    PROVE  /\ BuilderOf(k)' = BuilderOf(k)
           /\ (/\ workerRow'[k] = workerRow[k]
               /\ Queued(k)' <=> Queued(k)
               /\ k \in branches' <=> k \in branches)
              => StageOf(k)' = StageOf(k)
<1> DEFINE builders == {s \in Sessions : pc[s] \in AssignSteps /\ Slot(s) = k}
           Any(S) == IF S = {} THEN None ELSE CHOOSE s \in S : TRUE
<1>1. builders' = builders
  BY DEF Builds
<1>2. BuilderOf(k) = Any(builders) /\ BuilderOf(k)' = Any(builders')
  BY DEF BuilderOf
<1> HIDE DEF Any, builders
<1>3. BuilderOf(k)' = BuilderOf(k)
  BY <1>1, <1>2
<1>4. ASSUME workerRow'[k] = workerRow[k], Queued(k)' <=> Queued(k),
             k \in branches' <=> k \in branches
      PROVE  StageOf(k)' = StageOf(k)
  BY <1>3, <1>4 DEF StageOf
<1> QED
  BY <1>3, <1>4

\* The rivals of a slot, now and after a step.
LEMMA RivalsRest ==
    ASSUME NEW k
    PROVE  /\ \A s : s \in RivalsFor(k) <=> s \in Sessions /\ Rivals(s, k)
           /\ \A s : s \in RivalsFor(k)' <=> s \in Sessions /\ Rivals(s, k)'
           /\ (\A s \in Sessions : Rivals(s, k)' <=> Rivals(s, k))
              => RivalsFor(k)' = RivalsFor(k)
<1>1. \A s : s \in RivalsFor(k) <=> s \in Sessions /\ Rivals(s, k)
  BY DEF RivalsFor, Rivals, RivalSteps
<1>2. \A s : s \in RivalsFor(k)' <=> s \in Sessions /\ Rivals(s, k)'
  BY DEF RivalsFor, Rivals, RivalSteps
<1> QED
  BY <1>1, <1>2

\* A slot that is being built has its branch; one without a branch is free.
LEMMA StageFacts ==
    ASSUME LedgerInv, NEW k \in Slots
    PROVE  /\ \A s \in Sessions : Builds(s, k) =>
                 /\ BuilderOf(k) = s /\ k \in branches
                 /\ StageOf(k) = IF workerRow[k] = None THEN "building" ELSE "recorded"
           /\ k \notin branches => StageOf(k) = "free" /\ workerRow[k] = None /\ ~ Queued(k)
           /\ Queued(k) => workerRow[k] # None
<1>1. Queued(k) => workerRow[k] # None
  <2> SUFFICES ASSUME NEW q \in queueRows, <<q[1], q[2]>> = k PROVE workerRow[k] # None
    BY DEF Queued
  <2> QED
    BY DEF LedgerInv, BuildInv, QueueRowBacked
<1>2. ASSUME NEW s \in Sessions, Builds(s, k)
      PROVE  /\ BuilderOf(k) = s /\ k \in branches
             /\ StageOf(k) = IF workerRow[k] = None THEN "building" ELSE "recorded"
  <2>1. BuilderOf(k) = s /\ s # None
    BY <1>2, BuilderIs, DelegationAssumption DEF LedgerInv, BuildInv
  <2>2. k \in branches /\ (workerRow[k] # None => ~ Queued(k))
    BY <1>2 DEF Builds, LedgerInv, BuildInv, BuildOK, NotYetQueued, BeforeRow
  <2> QED
    BY <2>1, <2>2 DEF StageOf
<1>3. ASSUME k \notin branches
      PROVE  StageOf(k) = "free" /\ workerRow[k] = None /\ ~ Queued(k)
  <2>1. workerRow[k] = None
    BY <1>3 DEF LedgerInv, BuildInv, RecordedWorkerPrepared
  <2>2. BuilderOf(k) = None
    BY <1>2, <1>3, BuilderIs DEF LedgerInv, BuildInv
  <2> QED
    BY <1>1, <1>3, <2>1, <2>2 DEF StageOf
<1> QED
  BY <1>1, <1>2, <1>3

\* The worktrees of a run start from its base, which is the session's.
LEMMA BasesAgree ==
    ASSUME LedgerInv, NEW s \in Sessions, pc[s] = "add_worktree"
    PROVE  /\ Slot(s) \in Slots /\ job[s].base \in Bases
           /\ \A j \in Slots : j[1] = Slot(s)[1] => worktree[j] \in {None, job[s].base}
<1>1. TypeOK /\ SessionOK(s) /\ SharedBaseCommit
  BY DEF LedgerInv, BuildInv, BaseInv
<1>2. Slot(s) \in Slots /\ job[s].base \in Bases
  BY <1>1, BuildingTypes DEF Building
<1>3. job[s].base = runs[job[s].run]
  BY <1>1 DEF SessionOK, Building
<1> QED
  BY <1>1, <1>2, <1>3 DEF SharedBaseCommit, Slot

\* Only git worktree add and remove write to Git.
LEMMA GitWriters ==
    ASSUME BaseInv, NEW s \in Sessions, StepOf(s)
    PROVE  AddWorktree(s) \/ AddWorktreeFails(s) \/ RemoveWorktree(s) \/ UNCHANGED gitVars
<1>1. CASE \/ GetRun(s) \/ CreateRun(s) \/ RecordHandoff(s) \/ SetPlanApproved(s)
           \/ RecordTask(s) \/ SetDelegating(s) \/ GetWorker(s) \/ RetryGetRun(s)
  BY <1>1 DEF GetRun, CreateRun, RecordHandoff, SetPlanApproved, RecordTask, SetDelegating,
              GetWorker, RetryGetRun
<1>2. CASE \/ Stops(s) \/ CheckWorktree(s) \/ PrepareChiefContext(s) \/ PrepareWorkerContext(s)
           \/ RecordContextEvent(s) \/ AssignRecordTask(s) \/ RecordWorker(s)
  BY <1>2 DEF Stops, Fail, ApiRestart, CheckWorktree, PrepareChiefContext,
              PrepareWorkerContext, RecordContextEvent,
              AssignRecordTask, RecordWorker
<1>3. CASE \/ CheckQueue(s) \/ AppendChiefQueue(s) \/ AppendWorkerQueue(s)
           \/ RecordRetryEvent(s) \/ RecordQueueEntry(s)
  BY <1>3 DEF CheckQueue, AppendChiefQueue, AppendWorkerQueue, RecordRetryEvent,
              RecordQueueEntry
<1>4. CASE Begin(s)
  <2>1. ASSUME NEW cmd, NEW r, NEW b, NEW i, NEW w, NEW n, NEW step,
               StartJob(s, cmd, r, b, i, w, n, step)
        PROVE  UNCHANGED gitVars
    BY <2>1 DEF StartJob
  <2> QED
    BY <1>4, <2>1, BeginShape DEF BaseInv
<1> QED
  BY <1>1, <1>2, <1>3, <1>4 DEF StepOf, SessionStep

\* A session becomes a rival for a slot by finding no directory there, and
\* is one until its git worktree add has succeeded or it gives up.
LEMMA RivalStep ==
    ASSUME BaseInv, NEW s \in Sessions, StepOf(s)
    PROVE  /\ pc'[s] \in RivalSteps =>
                 /\ Slot(s)' = Slot(s) /\ Slot(s) \in Slots
                 /\ pc[s] \in RivalSteps \/ CheckWorktree(s)
           /\ pc[s] \in RivalSteps =>
                 AddWorktree(s) \/ AddWorktreeFails(s) \/ RemoveWorktree(s) \/ Stops(s)
<1> USE DEF Goto, RivalSteps
<1>1. pc \in [Sessions -> {"idle", "returned"} \cup BusySteps]
  BY DEF BaseInv, TypeOK
<1>2. CASE CheckWorktree(s) \/ AddWorktree(s) \/ AddWorktreeFails(s)
  <2>1. Slot(s) \in Slots
    BY <1>2, BuildingTypes DEF CheckWorktree, AddWorktree, AddWorktreeFails, Building, BaseInv
  <2> QED
    BY <1>1, <1>2, <2>1 DEF CheckWorktree, AddWorktree, AddWorktreeFails, Quit, Continue, Slot
<1>3. CASE RemoveWorktree(s) \/ Stops(s)
  BY <1>1, <1>3 DEF RemoveWorktree, Stops, Fail, ApiRestart, Quit
<1>4. CASE \/ PrepareChiefContext(s) \/ PrepareWorkerContext(s) \/ RecordContextEvent(s)
           \/ AssignRecordTask(s) \/ RecordWorker(s) \/ CheckQueue(s) \/ AppendChiefQueue(s)
           \/ AppendWorkerQueue(s)
  BY <1>1, <1>4 DEF PrepareChiefContext, PrepareWorkerContext, RecordContextEvent,
     AssignRecordTask, RecordWorker, CheckQueue, AppendChiefQueue, AppendWorkerQueue, Quit, Continue
<1>5. CASE \/ GetRun(s) \/ CreateRun(s) \/ RecordHandoff(s) \/ SetPlanApproved(s)
           \/ RecordTask(s) \/ SetDelegating(s)
  BY <1>1, <1>5 DEF GetRun, CreateRun, RecordHandoff, SetPlanApproved, RecordTask,
                    SetDelegating, Quit, Continue
<1>6. CASE GetWorker(s) \/ RetryGetRun(s) \/ RecordQueueEntry(s) \/ RecordRetryEvent(s)
  BY <1>1, <1>6 DEF GetWorker, RetryGetRun, RecordQueueEntry, RecordRetryEvent, NextTicket, Quit
<1>7. CASE Begin(s)
  <2>1. pc'[s] \in {"get_run", "retry_get_run"} /\ Ready(s)
    <3>1. ASSUME NEW cmd, NEW r, NEW b, NEW i, NEW w, NEW n, NEW step,
                 StartJob(s, cmd, r, b, i, w, n, step)
          PROVE  pc'[s] = step /\ Ready(s)
      BY <1>1, <3>1 DEF StartJob
    <3> QED
      BY <1>7, <3>1, BeginShape DEF BaseInv
  <2> QED
    BY <2>1 DEF Ready
<1> QED
  BY <1>2, <1>3, <1>4, <1>5, <1>6, <1>7 DEF StepOf, SessionStep

\* A session's step concerns its own slot alone, and nobody else builds that.
LEMMA OtherSlots ==
    ASSUME LedgerInv, NEW s \in Sessions, StepOf(s)
    PROVE  /\ \A k \in Slots : k # Slot(s) =>
                 /\ BuilderOf(k)' = BuilderOf(k) /\ StageOf(k)' = StageOf(k)
                 /\ worktree'[k] = worktree[k] /\ RivalsFor(k)' = RivalsFor(k)
           /\ \A t \in Sessions \ {s}, k \in Slots :
                 /\ Builds(t, k)' <=> Builds(t, k)
                 /\ Rivals(t, k)' <=> Rivals(t, k)
<1>1. BaseInv /\ TypeOK
  BY DEF LedgerInv, BuildInv, BaseInv
<1>2. \A t \in Sessions \ {s}, k \in Slots : /\ Builds(t, k)' <=> Builds(t, k)
                                             /\ Rivals(t, k)' <=> Rivals(t, k)
  BY <1>1, OthersWait DEF Builds, Rivals, Slot
<1>3. ASSUME NEW k \in Slots, k # Slot(s)
      PROVE  /\ BuilderOf(k)' = BuilderOf(k) /\ StageOf(k)' = StageOf(k)
             /\ worktree'[k] = worktree[k] /\ RivalsFor(k)' = RivalsFor(k)
  <2>1. ASSUME NEW t \in Sessions PROVE Builds(t, k)' <=> Builds(t, k)
    <3>1. CASE t = s
      BY <1>1, <1>3, <3>1, AssigningStep DEF Builds
    <3> QED
      BY <1>2, <3>1
  <2>2. workerRow'[k] = workerRow[k]
    <3>1. CASE RecordWorker(s)
      BY <1>1, <1>3, <3>1 DEF RecordWorker, TypeOK
    <3> QED
      BY <1>1, <3>1, TableWriters
  <2>3. Queued(k)' <=> Queued(k)
    <3>1. CASE RecordQueueEntry(s)
      <4>1. queueRows' = queueRows \cup {QueueId(s)} /\ <<QueueId(s)[1], QueueId(s)[2]>> = Slot(s)
        BY <3>1 DEF RecordQueueEntry, QueueId, Slot
      <4> QED
        BY <1>3, <4>1 DEF Queued
    <3>2. CASE queueRows' = queueRows
      BY <3>2 DEF Queued
    <3> QED
      BY <1>1, <3>1, <3>2, TableWriters
  <2>4. (k \in branches' <=> k \in branches) /\ worktree'[k] = worktree[k]
    <3>1. CASE AddWorktree(s) \/ AddWorktreeFails(s) \/ RemoveWorktree(s)
      BY <1>1, <1>3, <3>1 DEF AddWorktree, AddWorktreeFails, RemoveWorktree, TypeOK
    <3> QED
      BY <1>1, <3>1, GitWriters
  <2>5. RivalsFor(k)' = RivalsFor(k)
    <3>1. ~ Rivals(s, k) /\ ~ Rivals(s, k)'
      BY <1>1, <1>3, RivalStep DEF Rivals
    <3>2. \A t \in Sessions : Rivals(t, k)' <=> Rivals(t, k)
      BY <1>2, <3>1
    <3> QED
      BY <3>2, RivalsRest
  <2> QED
    BY <2>1, <2>2, <2>3, <2>4, <2>5, SlotRests
<1> QED
  BY <1>2, <1>3

\* An entry is recorded only by the session that leaves the slot with it.
LEMMA LedgerStep == LedgerInv /\ [Next]_vars => LedgerInv'
<1> SUFFICES ASSUME LedgerInv, [Next]_vars PROVE LedgerInv'
  OBVIOUS
<1> USE DEF FromCheckQueue, FromRecordWorker, FromRecordTask, FromContextEvent
<1>1. BuildInv' /\ BuildInv /\ BaseInv /\ TypeOK
  BY BuildStep DEF LedgerInv, BuildInv, BaseInv
<1>2. ASSUME NEW s \in Sessions, StepOf(s), NEW t \in Sessions, pc'[t] \in FromCheckQueue
      PROVE  ~ Queued(Slot(t))'
  <2>1. Slot(t)' = Slot(t) /\ pc[t] \in AssignSteps
    <3>1. CASE t = s
      <4>1. pc'[s] \in AssignSteps /\ pc'[s] \in FromCheckQueue
        BY <1>2, <3>1 DEF AssignSteps
      <4>2. /\ Slot(s)' = Slot(s)
            /\ pc[s] \in AssignSteps \/ AddWorktree(s)
        BY <1>1, <1>2, <4>1, AssigningStep
      <4>3. ~ AddWorktree(s)
        BY <1>1, <4>1 DEF AddWorktree, Goto, Quit, Continue, TypeOK
      <4> QED
        BY <3>1, <4>2, <4>3
    <3>2. CASE t # s
      BY <1>1, <1>2, <3>2, OthersWait DEF Slot, AssignSteps
    <3> QED
      BY <3>1, <3>2
  <2>2. ~ Queued(Slot(t))
    <3>1. Slot(t) \in Slots
      BY <1>1, <2>1, BuildingTypes DEF BaseInv, Building
    <3>2. Builds(t, Slot(t))
      BY <2>1 DEF Builds
    <3>3. CASE pc[t] \in FromCheckQueue
      BY <3>3 DEF LedgerInv, NotYetQueued
    <3>4. CASE pc[t] \notin FromCheckQueue
      <4>1. workerRow[Slot(t)] = None
        BY <1>1, <2>1, <3>4 DEF BuildInv, BuildOK, BeforeRow
      <4> QED
        BY <3>1, <4>1, StageFacts
    <3> QED
      BY <3>3, <3>4
  <2>3. CASE RecordQueueEntry(s)
    <3>1. t # s
      BY <1>1, <1>2, <2>3 DEF RecordQueueEntry, NextTicket, Goto, Quit, Continue, TypeOK
    <3>2. Slot(s) # Slot(t)
      BY <1>1, <2>1, <2>3, <3>1 DEF BuildInv, OneBuilderPerWorktree, RecordQueueEntry, AssignSteps
    <3>3. queueRows' = queueRows \cup {QueueId(s)} /\ <<QueueId(s)[1], QueueId(s)[2]>> = Slot(s)
      BY <2>3 DEF RecordQueueEntry, QueueId, Slot
    <3> QED
      BY <2>1, <2>2, <3>2, <3>3 DEF Queued
  <2>4. CASE queueRows' = queueRows
    BY <2>1, <2>2, <2>4 DEF Queued
  <2> QED
    BY <1>1, <1>2, <2>3, <2>4, TableWriters
<1>3. ASSUME UNCHANGED queueRows, \A t \in Sessions : pc'[t] \in FromCheckQueue =>
                                     pc'[t] = pc[t] /\ Slot(t)' = Slot(t)
      PROVE  NotYetQueued'
  BY <1>3 DEF NotYetQueued, LedgerInv, Queued
<1>5. CASE UNCHANGED vars
  <2>1. NotYetQueued'
    BY <1>3, <1>5 DEF vars, Slot
  <2> QED
    BY <1>1, <2>1 DEF LedgerInv
<1> QED
  BY <1>1, <1>2, <1>5, SomeStep DEF LedgerInv, NotYetQueued

\* A step that leaves Git and the two tables alone, and in which only s moves
\* and neither enters assign_task nor begins or ends as a rival, is an abandoned
\* slot or nothing.
LEMMA LedgerRests ==
    ASSUME LedgerInv, LedgerInv', UNCHANGED <<workerRow, queueRows, branches, worktree>>,
           NEW s \in Sessions,
           \A t \in Sessions \ {s}, k \in Slots : Builds(t, k)' <=> Builds(t, k),
           \A k \in Slots : RivalsFor(k)' = RivalsFor(k),
           pc'[s] \in AssignSteps => pc[s] \in AssignSteps /\ Slot(s)' = Slot(s)
    PROVE  \/ UNCHANGED <<Stage, Rival, Builder, worktree>>
           \/ \E k \in Slots : Ledger!Abandon(s, k)
<1>1. ASSUME NEW k \in Slots, Builds(s, k)' <=> Builds(s, k)
      PROVE  BuilderOf(k)' = BuilderOf(k) /\ StageOf(k)' = StageOf(k)
  <2>1. Queued(k)' <=> Queued(k)
    BY DEF Queued
  <2>2. \A t \in Sessions : Builds(t, k)' <=> Builds(t, k)
    BY <1>1
  <2> QED
    BY <2>1, <2>2, SlotRests
<1>2. CASE pc[s] \in AssignSteps => pc'[s] \in AssignSteps
  <2>1. \A k \in Slots : Builds(s, k)' <=> Builds(s, k)
    BY <1>2 DEF Builds
  <2> QED
    BY <1>1, <2>1 DEF Stage, Rival, Builder
<1>3. CASE pc[s] \in AssignSteps /\ pc'[s] \notin AssignSteps
  <2>1. PICK k \in Slots : k = Slot(s)
    BY <1>3, BuildingTypes DEF LedgerInv, BuildInv, BaseInv, Building
  <2>2. Builds(s, k)
    BY <1>3, <2>1 DEF Builds
  <2>3. ASSUME NEW j \in Slots, j # k
        PROVE  BuilderOf(j)' = BuilderOf(j) /\ StageOf(j)' = StageOf(j)
    BY <1>1, <1>3, <2>1, <2>3 DEF Builds
  <2>4. BuilderOf(k) = s /\ k \in branches
        /\ StageOf(k) = IF workerRow[k] = None THEN "building" ELSE "recorded"
    BY <2>2, StageFacts
  <2>5. BuilderOf(k)' = None
    <3>1. \A t \in Sessions : Builds(t, k) => t = s
      BY <2>4, BuilderIs DEF LedgerInv, BuildInv
    <3>2. \A t \in Sessions : ~ Builds(t, k)'
      BY <1>3, <3>1 DEF Builds
    <3> QED
      BY <3>2, BuilderWillBe DEF LedgerInv, BuildInv
  <2>6. StageOf(k)' = IF StageOf(k) = "building" THEN "orphaned" ELSE StageOf(k)
    <3>1. Queued(k)' <=> Queued(k)
      BY DEF Queued
    <3> QED
      BY <2>4, <2>5, <3>1 DEF StageOf
  <2>7. Stage' = [Stage EXCEPT ![k] = IF @ = "building" THEN "orphaned" ELSE @]
    BY <2>3, <2>6 DEF Stage
  <2>8. Builder' = [Builder EXCEPT ![k] = None]
    BY <2>3, <2>5 DEF Builder
  <2>9. Builder[k] = s
    BY <2>4 DEF Builder
  <2>10. Rival' = Rival
    BY DEF Rival
  <2> QED
    BY <2>7, <2>8, <2>9, <2>10 DEF Ledger!Abandon, Stage, Rival, Builder
<1> QED
  BY <1>2, <1>3

\* worktree_path.exists() answers no: the session contends for the slot.
LEMMA ContendStep ==
    ASSUME LedgerInv, LedgerInv', NEW s \in Sessions, CheckWorktree(s),
           ~ DirectoryExists(Slot(s))
    PROVE  \E k \in Slots : Ledger!Contend(s, k)
<1>1. BaseInv /\ TypeOK /\ StepOf(s)
  BY DEF LedgerInv, BuildInv, BaseInv, StepOf, SessionStep
<1>2. PICK k \in Slots : k = Slot(s)
  BY <1>1, BuildingTypes DEF CheckWorktree, BaseInv, Building
<1>3. pc[s] = "check_worktree" /\ pc'[s] = "add_worktree" /\ job' = job
      /\ UNCHANGED <<workerRow, queueRows, branches, worktree>> /\ worktree[k] = None
  BY <1>1, <1>2 DEF CheckWorktree, Continue, Goto, DirectoryExists, TypeOK
<1>4. \A t \in Sessions, j \in Slots : Builds(t, j)' <=> Builds(t, j)
  BY <1>1, <1>3, OtherSlots DEF Builds, AssignSteps
<1>5. \A j \in Slots : BuilderOf(j)' = BuilderOf(j) /\ StageOf(j)' = StageOf(j)
  <2>1. \A j \in Slots : Queued(j)' <=> Queued(j)
    BY <1>3 DEF Queued
  <2> QED
    BY <1>3, <1>4, <2>1, SlotRests
<1>6. \A j \in Slots : s \notin RivalsFor(j) /\ BuilderOf(j) # s
  <2>1. \A j \in Slots : ~ Rivals(s, j) /\ ~ Builds(s, j)
    BY <1>3 DEF Rivals, RivalSteps, Builds, AssignSteps
  <2>2. s # None
    BY DelegationAssumption
  <2> QED
    BY <2>1, <2>2, RivalsRest, BuilderIs DEF LedgerInv, BuildInv
<1>7. RivalsFor(k)' = RivalsFor(k) \cup {s}
  <2>1. Rivals(s, k)'
    BY <1>2, <1>3 DEF Rivals, RivalSteps, Slot
  <2>2. \A t : t \in RivalsFor(k)' <=> t \in RivalsFor(k) \/ t = s
    BY <1>1, <2>1, OtherSlots, RivalsRest
  <2> QED
    BY <2>2
<1>8. \A j \in Slots : j # k => RivalsFor(j)' = RivalsFor(j)
  BY <1>1, <1>2, OtherSlots
<1>9. Rival' = [Rival EXCEPT ![k] = @ \cup {s}]
  BY <1>7, <1>8 DEF Rival
<1>10. UNCHANGED <<Stage, Builder>> /\ \A j \in Slots : s \notin Rival[j] /\ Builder[j] # s
  BY <1>5, <1>6 DEF Stage, Builder, Rival
<1> QED
  BY <1>3, <1>9, <1>10 DEF Ledger!Contend, Ledger!Slots, Slots, Stage, Rival, Builder

\* A rival goes, and the worktree may go with it.
LEMMA WithdrawStep ==
    ASSUME LedgerInv, LedgerInv', NEW s \in Sessions, StepOf(s), pc[s] \in RivalSteps,
           pc'[s] \notin RivalSteps \cup AssignSteps, UNCHANGED <<workerRow, queueRows, branches>>,
           worktree' \in {worktree, [worktree EXCEPT ![Slot(s)] = None]}
    PROVE  \E k \in Slots : Ledger!Withdraw(s, k)
<1>1. BaseInv /\ TypeOK
  BY DEF LedgerInv, BuildInv, BaseInv
<1>2. PICK k \in Slots : k = Slot(s)
  BY <1>1, BuildingTypes DEF BaseInv, Building, RivalSteps
<1>3. \A t \in Sessions, j \in Slots : Builds(t, j)' <=> Builds(t, j)
  BY OtherSlots DEF Builds, AssignSteps, RivalSteps
<1>4. \A j \in Slots : BuilderOf(j)' = BuilderOf(j) /\ StageOf(j)' = StageOf(j)
  <2>1. \A j \in Slots : Queued(j)' <=> Queued(j)
    BY DEF Queued
  <2> QED
    BY <1>3, <2>1, SlotRests
<1>5. s \in RivalsFor(k) /\ RivalsFor(k)' = RivalsFor(k) \ {s}
  <2>1. Rivals(s, k) /\ ~ Rivals(s, k)'
    BY <1>2 DEF Rivals
  <2>2. \A t : t \in RivalsFor(k)' <=> t \in RivalsFor(k) /\ t # s
    BY <2>1, OtherSlots, RivalsRest
  <2> QED
    BY <2>1, <2>2, RivalsRest
<1>6. \A j \in Slots : j # k => RivalsFor(j)' = RivalsFor(j)
  BY <1>2, OtherSlots
<1>7. Rival' = [Rival EXCEPT ![k] = @ \ {s}] /\ s \in Rival[k]
  BY <1>5, <1>6 DEF Rival
<1>8. UNCHANGED <<Stage, Builder>>
  BY <1>4 DEF Stage, Builder
<1> QED
  BY <1>2, <1>7, <1>8 DEF Ledger!Withdraw, Stage, Rival, Builder

\* git worktree add claims a free slot.
LEMMA ClaimStep ==
    ASSUME LedgerInv, LedgerInv', NEW s \in Sessions, AddWorktree(s),
           Slot(s) \notin branches, ~ DirectoryExists(Slot(s))
    PROVE  \E k \in Slots, b \in Bases : Ledger!Claim(s, k, b)
<1>1. BaseInv /\ TypeOK /\ BaseInv'
  BY DEF LedgerInv, BuildInv, BaseInv
<1>2. pc[s] = "add_worktree" /\ StepOf(s)
  BY DEF AddWorktree, StepOf, SessionStep
<1>3. PICK k \in Slots, b \in Bases : k = Slot(s) /\ b = job[s].base
  BY <1>2, BasesAgree
<1>4. worktree' = [worktree EXCEPT ![k] = b] /\ pc'[s] = "chief_context"
      /\ workerRow' = workerRow /\ job' = job
  BY <1>1, <1>3 DEF AddWorktree, Goto, TypeOK
<1>5. StageOf(k) = "free" /\ workerRow[k] = None
  BY <1>3, StageFacts
<1>6. Builds(s, k)'
  BY <1>3, <1>4 DEF Builds, Slot, AssignSteps
<1>7. BuilderOf(k)' = s /\ s # None
  BY <1>6, BuilderWillBe, DelegationAssumption DEF LedgerInv, BuildInv
<1>8. StageOf(k)' = "building"
  BY <1>4, <1>5, <1>7 DEF StageOf
<1>9. s \in RivalsFor(k) /\ RivalsFor(k)' = RivalsFor(k) \ {s}
  <2>1. Rivals(s, k) /\ ~ Rivals(s, k)'
    BY <1>2, <1>3, <1>4 DEF Rivals, RivalSteps
  <2>2. \A t : t \in RivalsFor(k)' <=> t \in RivalsFor(k) /\ t # s
    BY <1>2, <2>1, OtherSlots, RivalsRest
  <2> QED
    BY <2>1, <2>2, RivalsRest
<1>10. \A j \in Slots : j # k => /\ BuilderOf(j)' = BuilderOf(j) /\ StageOf(j)' = StageOf(j)
                                /\ RivalsFor(j)' = RivalsFor(j)
  BY <1>2, <1>3, OtherSlots
<1>11. Stage' = [Stage EXCEPT ![k] = "building"] /\ Stage[k] = "free"
  BY <1>5, <1>8, <1>10 DEF Stage
<1>12. Builder' = [Builder EXCEPT ![k] = s]
  BY <1>7, <1>10 DEF Builder
<1>13. \A j \in Slots : j[1] = k[1] => worktree[j] \in {None, b}
  BY <1>2, <1>3, BasesAgree
<1>14. Rival' = [Rival EXCEPT ![k] = @ \ {s}] /\ s \in Rival[k]
  BY <1>9, <1>10 DEF Rival
<1> QED
  BY <1>4, <1>11, <1>12, <1>13, <1>14
     DEF Ledger!Claim, Ledger!Agreed, Ledger!Slots, Slots, Stage, Rival, Builder

\* A git worktree add that fails leaves nothing, or spoils the slot.
LEMMA SpoilStep ==
    ASSUME LedgerInv, LedgerInv', NEW s \in Sessions, AddWorktreeFails(s)
    PROVE  \/ UNCHANGED <<Stage, Rival, Builder, worktree>>
           \/ \E k \in Slots, b \in Bases : Ledger!Spoil(s, k, b)
<1>1. BaseInv /\ TypeOK
  BY DEF LedgerInv, BuildInv, BaseInv
<1>2. pc[s] = "add_worktree" /\ StepOf(s) /\ pc'[s] = "remove_worktree" /\ job' = job
  BY <1>1 DEF AddWorktreeFails, StepOf, Goto, TypeOK
<1>3. PICK k \in Slots, b \in Bases : k = Slot(s) /\ b = job[s].base
  BY <1>2, BasesAgree
<1>4. k \notin branches /\ workerRow' = workerRow /\ queueRows' = queueRows
      /\ \/ UNCHANGED gitVars
         \/ k \in branches' /\ worktree' \in {worktree, [worktree EXCEPT ![k] = b]}
  BY <1>3 DEF AddWorktreeFails
<1>5. \A t \in Sessions : /\ Builds(t, k)' <=> Builds(t, k)
                          /\ Rivals(t, k)' <=> Rivals(t, k)
  BY <1>2, OtherSlots DEF Builds, Rivals, AssignSteps, RivalSteps, Slot
<1>6. \A j \in Slots : j # k => /\ BuilderOf(j)' = BuilderOf(j) /\ StageOf(j)' = StageOf(j)
                               /\ RivalsFor(j)' = RivalsFor(j)
  BY <1>2, <1>3, OtherSlots
<1>7. StageOf(k) = "free" /\ workerRow[k] = None /\ BuilderOf(k) = None
  BY <1>4, StageFacts, BuilderIs DEF LedgerInv, BuildInv
<1>8. BuilderOf(k)' = BuilderOf(k) /\ RivalsFor(k)' = RivalsFor(k)
  BY <1>5, SlotRests, RivalsRest
<1>9. Builder' = Builder /\ Rival' = Rival
  BY <1>6, <1>8 DEF Builder, Rival
<1>10. CASE UNCHANGED gitVars
  <2>1. Queued(k)' <=> Queued(k)
    BY <1>4 DEF Queued
  <2>2. StageOf(k)' = StageOf(k)
    BY <1>4, <1>5, <1>10, <2>1, SlotRests
  <2> QED
    BY <1>6, <1>9, <1>10, <2>2 DEF Stage
<1>11. CASE k \in branches' /\ worktree' \in {worktree, [worktree EXCEPT ![k] = b]}
  <2>1. StageOf(k)' = "orphaned"
    BY <1>4, <1>7, <1>8, <1>11 DEF StageOf
  <2>2. Stage' = [Stage EXCEPT ![k] = "orphaned"] /\ Stage[k] = "free"
    BY <1>6, <1>7, <2>1 DEF Stage
  <2>3. \A j \in Slots : j[1] = k[1] => worktree[j] \in {None, b}
    BY <1>2, <1>3, BasesAgree
  <2>4. s \in Rival[k]
    BY <1>2, <1>3, RivalsRest DEF Rival, Rivals, RivalSteps
  <2> QED
    BY <1>9, <1>11, <2>2, <2>3, <2>4
       DEF Ledger!Spoil, Ledger!Agreed, Ledger!Slots, Slots, Stage, Rival, Builder
<1> QED
  BY <1>4, <1>10, <1>11

\* record_worker records the slot for the session that claimed it.
LEMMA RecordStep ==
    ASSUME LedgerInv, LedgerInv', NEW s \in Sessions, RecordWorker(s)
    PROVE  \E k \in Slots : Ledger!Record(s, k)
<1>1. BaseInv /\ TypeOK /\ StepOf(s)
  BY DEF LedgerInv, BuildInv, BaseInv, StepOf, SessionStep
<1>2. PICK k \in Slots : k = Slot(s)
  BY <1>1, BuildingTypes DEF RecordWorker, BaseInv, Building, AssignSteps
<1>3. pc[s] = "record_worker" /\ pc'[s] = "check_queue" /\ job' = job
      /\ UNCHANGED <<queueRows, branches, worktree>>
  BY <1>1 DEF RecordWorker, Goto, Quit, Continue, TypeOK
<1>4. Builds(s, k) /\ Builds(s, k)'
  BY <1>2, <1>3 DEF Builds, Slot, AssignSteps
<1>5. workerRow[k] = None /\ workerRow'[k] # None
  BY <1>2, <1>3 DEF LedgerInv, BuildInv, BuildOK, BeforeRow, AssignSteps, FromCheckQueue,
                    FromRecordWorker, FromRecordTask, FromContextEvent, Slot
<1>6. BuilderOf(k) = s /\ StageOf(k) = "building"
  BY <1>4, <1>5, StageFacts
<1>7. BuilderOf(k)' = s
  BY <1>4, BuilderWillBe DEF LedgerInv, BuildInv
<1>8. StageOf(k)' = "recorded"
  <2>1. ~ Queued(k)
    BY <1>5, StageFacts
  <2>2. ~ Queued(k)'
    BY <1>3, <2>1 DEF Queued
  <2> QED
    BY <1>5, <2>2 DEF StageOf
<1>9. \A j \in Slots : j # k => BuilderOf(j)' = BuilderOf(j) /\ StageOf(j)' = StageOf(j)
  BY <1>1, <1>2, OtherSlots
<1>12. Rival' = Rival
  <2>1. ~ Rivals(s, k) /\ ~ Rivals(s, k)'
    BY <1>1, <1>3, RivalStep DEF Rivals, RivalSteps, CheckWorktree
  <2>2. RivalsFor(k)' = RivalsFor(k)
    BY <1>1, <2>1, OtherSlots, RivalsRest
  <2>3. \A j \in Slots : j # k => RivalsFor(j)' = RivalsFor(j)
    BY <1>1, <1>2, OtherSlots
  <2> QED
    BY <2>2, <2>3 DEF Rival
<1>10. Stage' = [Stage EXCEPT ![k] = "recorded"] /\ Stage[k] = "building"
  BY <1>6, <1>8, <1>9 DEF Stage
<1>11. Builder' = Builder /\ Builder[k] = s
  BY <1>6, <1>7, <1>9 DEF Builder
<1> QED
  BY <1>3, <1>10, <1>11, <1>12 DEF Ledger!Record, Stage, Rival, Builder

\* record_queue_entry queues the slot and ends its building.
LEMMA QueueEntryStep ==
    ASSUME LedgerInv, LedgerInv', NEW s \in Sessions, RecordQueueEntry(s)
    PROVE  \E k \in Slots : Ledger!Queue(s, k)
<1>1. BaseInv /\ TypeOK /\ StepOf(s)
  BY DEF LedgerInv, BuildInv, BaseInv, StepOf, SessionStep
<1>2. PICK k \in Slots : k = Slot(s)
  BY <1>1, BuildingTypes DEF RecordQueueEntry, BaseInv, Building, AssignSteps
<1>3. /\ pc[s] = "queue_row" /\ pc'[s] \notin AssignSteps
      /\ queueRows' = queueRows \cup {QueueId(s)}
      /\ UNCHANGED <<workerRow, branches, worktree>>
  BY <1>1 DEF RecordQueueEntry, NextTicket, Goto, Quit, Continue, TypeOK, AssignSteps
<1>4. Builds(s, k)
  BY <1>2, <1>3 DEF Builds, AssignSteps
<1>5. workerRow[k] # None
  BY <1>2, <1>3 DEF LedgerInv, BuildInv, BuildOK, FromCheckQueue, FromRecordWorker,
                    FromRecordTask, FromContextEvent
<1>6. BuilderOf(k) = s /\ StageOf(k) = "recorded"
  BY <1>4, <1>5, StageFacts
<1>7. BuilderOf(k)' = None
  <2>1. \A t \in Sessions \ {s} : ~ Builds(t, k)'
    BY <1>1, <1>6, BuilderIs, OtherSlots DEF LedgerInv, BuildInv
  <2>2. ~ Builds(s, k)'
    BY <1>3 DEF Builds
  <2> QED
    BY <2>1, <2>2, BuilderWillBe DEF LedgerInv, BuildInv
<1>8. StageOf(k)' = "queued"
  <2>1. QueueId(s) \in queueRows' /\ <<QueueId(s)[1], QueueId(s)[2]>> = k
    BY <1>2, <1>3 DEF QueueId, Slot
  <2>2. Queued(k)'
    BY <2>1 DEF Queued
  <2> QED
    BY <1>3, <1>5, <2>2 DEF StageOf
<1>9. \A j \in Slots : j # k => BuilderOf(j)' = BuilderOf(j) /\ StageOf(j)' = StageOf(j)
  BY <1>1, <1>2, OtherSlots
<1>12. Rival' = Rival
  <2>1. ~ Rivals(s, k) /\ ~ Rivals(s, k)'
    BY <1>1, <1>3, RivalStep DEF Rivals, RivalSteps, CheckWorktree
  <2>2. RivalsFor(k)' = RivalsFor(k)
    BY <1>1, <2>1, OtherSlots, RivalsRest
  <2>3. \A j \in Slots : j # k => RivalsFor(j)' = RivalsFor(j)
    BY <1>1, <1>2, OtherSlots
  <2> QED
    BY <2>2, <2>3 DEF Rival
<1>10. Stage' = [Stage EXCEPT ![k] = "queued"] /\ Stage[k] = "recorded"
  BY <1>6, <1>8, <1>9 DEF Stage
<1>11. Builder' = [Builder EXCEPT ![k] = None] /\ Builder[k] = s
  BY <1>6, <1>7, <1>9 DEF Builder
<1> QED
  BY <1>3, <1>10, <1>11, <1>12 DEF Ledger!Queue, Stage, Rival, Builder

\* Chief's calls take each worker slot through the ledger's life, for any
\* sessions, races and failures: claimed once and from the run's base commit,
\* recorded and queued by its claimant only, never claimed again, and robbed of
\* its worktree only by a session that had found none there.
THEOREM ChiefKeepsTheLedger == Spec => ImplementsLedger
<1>1. Init => Ledger!Init
  <2> SUFFICES ASSUME Init PROVE Ledger!Init
    OBVIOUS
  <2>1. \A k \in Slots : BuilderOf(k) = None
    BY BuilderIs DEF Init, OneBuilderPerWorktree, Builds, AssignSteps
  <2>2. \A k \in Slots : StageOf(k) = "free"
    BY <2>1 DEF Init, StageOf
  <2>3. \A k \in Slots : RivalsFor(k) = {}
    BY RivalsRest DEF Init, Rivals, RivalSteps
  <2> QED
    BY <2>1, <2>2, <2>3 DEF Init, Ledger!Init, Ledger!Slots, Slots
<1>2. LedgerInv /\ LedgerInv' /\ [Next]_vars => [Ledger!Next]_(Ledger!vars)
  <2> SUFFICES ASSUME LedgerInv, LedgerInv', [Next]_vars
               PROVE  [Ledger!Next]_(Ledger!vars)
    OBVIOUS
  <2>1. BaseInv /\ TypeOK
    BY DEF LedgerInv, BuildInv, BaseInv
  <2>2. Ledger!Slots = Slots
    BY DEF Ledger!Slots, Slots
  <2>3. ASSUME UNCHANGED <<Stage, Rival, Builder, worktree>>
        PROVE  [Ledger!Next]_(Ledger!vars)
    BY <2>3 DEF Ledger!vars, Stage, Rival, Builder
  <2>4. ASSUME NEW s \in Sessions, NEW k \in Slots,
               \/ Ledger!Contend(s, k) \/ Ledger!Withdraw(s, k) \/ Ledger!Record(s, k)
               \/ Ledger!Queue(s, k) \/ Ledger!Abandon(s, k)
        PROVE  [Ledger!Next]_(Ledger!vars)
    BY <2>2, <2>4 DEF Ledger!Next
  <2>5. ASSUME NEW s \in Sessions, NEW k \in Slots, NEW b \in Bases,
               Ledger!Claim(s, k, b) \/ Ledger!Spoil(s, k, b)
        PROVE  [Ledger!Next]_(Ledger!vars)
    BY <2>2, <2>5 DEF Ledger!Next
  <2>6. ASSUME NEW s \in Sessions, StepOf(s),
               UNCHANGED <<workerRow, queueRows, branches, worktree>>,
               pc[s] \in RivalSteps <=> pc'[s] \in RivalSteps,
               pc'[s] \in AssignSteps => pc[s] \in AssignSteps /\ Slot(s)' = Slot(s)
        PROVE  [Ledger!Next]_(Ledger!vars)
    <3>1. \A k \in Slots : Rivals(s, k)' <=> Rivals(s, k)
      BY <2>1, <2>6, RivalStep DEF Rivals
    <3>2. \A k \in Slots : RivalsFor(k)' = RivalsFor(k)
      BY <2>6, <3>1, OtherSlots, RivalsRest
    <3> QED
      BY <2>3, <2>4, <2>6, <3>2, OtherSlots, LedgerRests
  <2>7. ASSUME NEW s \in Sessions, StepOf(s) PROVE [Ledger!Next]_(Ledger!vars)
    <3>1. CASE AddWorktree(s)
      <4>1. CASE Slot(s) \notin branches /\ ~ DirectoryExists(Slot(s))
        BY <2>5, <3>1, <4>1, ClaimStep
      <4>2. CASE ~ (Slot(s) \notin branches /\ ~ DirectoryExists(Slot(s)))
        <5>1. /\ pc[s] = "add_worktree" /\ pc'[s] = "remove_worktree"
              /\ UNCHANGED <<workerRow, queueRows, branches, worktree>>
          BY <2>1, <3>1, <4>2 DEF AddWorktree, Goto, TypeOK
        <5> QED
          BY <2>6, <2>7, <5>1 DEF AssignSteps, RivalSteps
      <4> QED
        BY <4>1, <4>2
    <3>2. CASE AddWorktreeFails(s)
      BY <2>3, <2>5, <3>2, SpoilStep
    <3>3. CASE RecordWorker(s)
      BY <2>4, <3>3, RecordStep
    <3>4. CASE RecordQueueEntry(s)
      BY <2>4, <3>4, QueueEntryStep
    <3>5. CASE CheckWorktree(s)
      <4>1. CASE ~ DirectoryExists(Slot(s))
        BY <2>4, <3>5, <4>1, ContendStep
      <4>2. CASE DirectoryExists(Slot(s))
        <5>1. /\ pc[s] = "check_worktree" /\ pc'[s] = "idle"
              /\ UNCHANGED <<workerRow, queueRows, branches, worktree>>
          BY <2>1, <3>5, <4>2 DEF CheckWorktree, Quit, Goto, TypeOK
        <5> QED
          BY <2>6, <2>7, <5>1 DEF AssignSteps, RivalSteps
      <4> QED
        BY <4>1, <4>2
    <3>6. CASE RemoveWorktree(s) \/ (Stops(s) /\ pc[s] \in RivalSteps)
      <4>1. /\ pc[s] \in RivalSteps /\ pc'[s] = "idle"
            /\ UNCHANGED <<workerRow, queueRows, branches>>
            /\ worktree' \in {worktree, [worktree EXCEPT ![Slot(s)] = None]}
        BY <2>1, <3>6 DEF RemoveWorktree, Stops, Fail, ApiRestart, Quit, Goto, TypeOK, RivalSteps
      <4>2. pc'[s] \notin RivalSteps \cup AssignSteps
        BY <4>1 DEF RivalSteps, AssignSteps
      <4>3. \E k \in Slots : Ledger!Withdraw(s, k)
        BY <2>7, <4>1, <4>2, WithdrawStep
      <4> QED
        BY <2>4, <4>3
    <3>7. CASE /\ ~ (CheckWorktree(s) \/ AddWorktree(s) \/ AddWorktreeFails(s) \/ RemoveWorktree(s))
               /\ ~ (RecordWorker(s) \/ RecordQueueEntry(s))
               /\ ~ (Stops(s) /\ pc[s] \in RivalSteps)
      <4>1. UNCHANGED <<workerRow, queueRows, branches, worktree>>
        BY <2>1, <2>7, <3>7, TableWriters, GitWriters
      <4>2. pc'[s] \in AssignSteps => pc[s] \in AssignSteps /\ Slot(s)' = Slot(s)
        BY <2>1, <2>7, <3>7, AssigningStep
      <4>3. pc[s] \notin RivalSteps /\ pc'[s] \notin RivalSteps
        BY <2>1, <2>7, <3>7, RivalStep
      <4> QED
        BY <2>6, <2>7, <4>1, <4>2, <4>3
    <3> QED
      BY <3>1, <3>2, <3>3, <3>4, <3>5, <3>6, <3>7
  <2>9. CASE UNCHANGED vars
    <3>1. \A k \in Slots : /\ BuilderOf(k)' = BuilderOf(k) /\ StageOf(k)' = StageOf(k)
                           /\ RivalsFor(k)' = RivalsFor(k)
      <4>1. \A t \in Sessions, k \in Slots : /\ Builds(t, k)' <=> Builds(t, k)
                                             /\ Rivals(t, k)' <=> Rivals(t, k)
        BY <2>9 DEF Builds, Rivals, Slot, vars
      <4>2. \A k \in Slots : Queued(k)' <=> Queued(k)
        BY <2>9 DEF Queued, vars
      <4> QED
        BY <2>9, <4>1, <4>2, SlotRests, RivalsRest DEF vars
    <3> QED
      BY <2>3, <2>9, <3>1 DEF Stage, Rival, Builder, vars
  <2> QED
    BY <2>7, <2>9, SomeStep
<1>3. Init => LedgerInv
  BY InitBuild DEF LedgerInv, NotYetQueued, Init, FromCheckQueue, FromRecordWorker,
                   FromRecordTask, FromContextEvent
<1> QED
  BY <1>1, <1>2, <1>3, LedgerStep, PTL DEF Spec, ImplementsLedger, Ledger!Spec

=============================================================================
