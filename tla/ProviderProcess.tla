---------------------------- MODULE ProviderProcess ----------------------------
(***************************************************************************)
(* SubprocessWorkerProcess: the operating-system side of one worker slot.  *)
(* WorkerSupervision takes a provider for one process; here it is a group: *)
(* the leader that Popen started in a session of its own, and whatever the *)
(* leader forked.  Chief can only wait for the leader, signals the group   *)
(* by the leader's pid, and reads the log files the whole group writes.    *)
(*                                                                         *)
(* A manager is one Chief process with a WorkerLifecycleManager, a single  *)
(* thread; its death leaves the group running.  The result file and the    *)
(* gate are WorkerSupervision's.  The kernel is external: fork, exit and   *)
(* signals.                                                                *)
(***************************************************************************)
EXTENDS Naturals, Sequences, FiniteSets

CONSTANTS
    Managers,     \* Chief processes that may supervise the slot
    MaxLaunches,  \* bound on providers started
    MaxFaults,    \* bound on dead managers and launches that fail
    None

ASSUME ProcessAssumption ==
    /\ MaxLaunches \in Nat /\ MaxFaults \in Nat
    /\ None \notin Managers \cup Nat
    /\ None \notin [status : {"completed", "failed", "timed_out"}, output : SUBSET Nat]

VARIABLES
    leader,     \* leader of each launch, in the order of the launches
    code,       \* its exit code, once it has one (9: killed)
    members,    \* kinds of other processes alive in its group
    termed,     \* its group got SIGTERM
    beside,     \* earlier launches with a live process when it opened the logs
    log,        \* launches whose output stands in the slot's log files
    outcome,    \* the WorkerExecution of a finished wait, or None
    pc,         \* where each manager is
    handle,     \* the launch of its active entry, or None
    stray,      \* a signal hit no group, or one that is not Chief's
    faults      \* failures so far

groupVars == <<leader, code, members, termed>>
logVars   == <<beside, log>>
vars == <<groupVars, logVars, outcome, pc, handle, stray, faults>>

-----------------------------------------------------------------------------
Launches == DOMAIN leader

\* running, dead but not yet waited for, killed but not yet dead, waited for.
LeaderStates == {"running", "killed", "zombie", "reaped"}

\* unasked: got no signal; asked: got SIGTERM, and ends on it or ignores it;
\* late: forked after the group's SIGTERM, and got none.
Kinds == {"unasked", "asked", "late"}

Steps == {"ready", "waiting", "stop", "signal", "wait_stop", "wait_signal",
          "grace", "last", "reaped", "expired", "dead"}

LeaderAlive(l) == leader[l] \in {"running", "killed"}
GroupAlive(l)  == LeaderAlive(l) \/ members[l] # {}

Goto(m, step) == pc' = [pc EXCEPT ![m] = step]

Init ==
    /\ leader = <<>> /\ code = <<>> /\ members = <<>> /\ termed = <<>>
    /\ beside = <<>> /\ outcome = <<>>
    /\ log = {}
    /\ pc = [m \in Managers |-> "ready"]
    /\ handle = [m \in Managers |-> None]
    /\ stray = FALSE
    /\ faults = 0

-----------------------------------------------------------------------------
(* start, poll and stop                                                     *)

\* Mutant of Launch: the log files are opened for appending.
LaunchAppending(m) ==
    /\ leader' = Append(leader, "running")
    /\ code' = Append(code, None)
    /\ members' = Append(members, {})
    /\ termed' = Append(termed, FALSE)
    /\ beside' = Append(beside, {l \in Launches : GroupAlive(l)})
    /\ outcome' = Append(outcome, None)
    /\ handle' = [handle EXCEPT ![m] = Len(leader')]
    /\ UNCHANGED log

\* The log files are truncated, then Popen starts the leader.  Whoever else
\* is alive in the slot goes on writing in the same files.
Launch(m) ==
    /\ leader' = Append(leader, "running")
    /\ code' = Append(code, None)
    /\ members' = Append(members, {})
    /\ termed' = Append(termed, FALSE)
    /\ beside' = Append(beside, {l \in Launches : GroupAlive(l)})
    /\ outcome' = Append(outcome, None)
    /\ handle' = [handle EXCEPT ![m] = Len(leader')]
    /\ log' = {}

\* start refuses a worker that is active.
Start(m) ==
    /\ pc[m] = "ready" /\ handle[m] = None
    /\ Len(leader) < MaxLaunches
    /\ Launch(m)
    /\ UNCHANGED <<pc, stray, faults>>

\* The command cannot be executed: the truncated logs are closed and start
\* raises.
StartFails(m) ==
    /\ pc[m] = "ready" /\ handle[m] = None
    /\ faults < MaxFaults
    /\ faults' = faults + 1
    /\ log' = {}
    /\ UNCHANGED <<groupVars, beside, outcome, pc, handle, stray>>

\* Popen.poll: a dead leader is waited for.
Reaped(l) == [leader EXCEPT ![l] = IF @ = "zombie" THEN "reaped" ELSE @]

\* poll answers for a leader that has ended; the entry stays active.
Poll(m) ==
    /\ pc[m] = "ready" /\ handle[m] # None
    /\ leader' = Reaped(handle[m])
    /\ UNCHANGED <<code, members, termed, logVars, outcome, pc,
                   handle, stray, faults>>

BeginStop(m) ==
    /\ pc[m] = "ready" /\ handle[m] # None
    /\ Goto(m, "stop")
    /\ UNCHANGED <<groupVars, logVars, outcome, handle, stray, faults>>

\* Mutant of CheckStop: the group is signalled without asking poll.
CheckNothing(m) ==
    /\ pc[m] \in {"stop", "wait_stop"}
    /\ Goto(m, IF pc[m] = "stop" THEN "signal" ELSE "wait_signal")
    /\ UNCHANGED <<groupVars, logVars, outcome, handle, stray, faults>>

\* stop's poll: nothing is done for a leader that has ended.
CheckStop(m) ==
    /\ pc[m] \in {"stop", "wait_stop"}
    /\ leader' = Reaped(handle[m])
    /\ \/ /\ leader'[handle[m]] = "reaped"
          /\ Goto(m, IF pc[m] = "stop" THEN "ready" ELSE "grace")
       \/ /\ leader'[handle[m]] # "reaped"
          /\ Goto(m, IF pc[m] = "stop" THEN "signal" ELSE "wait_signal")
    /\ UNCHANGED <<code, members, termed, logVars, outcome, handle,
                   stray, faults>>

\* What SIGTERM leaves of the members of a group.
Signalled(kinds) == IF kinds = {} THEN {} ELSE {"asked"}

\* The pid names the launch's own group while anything of it holds the pid;
\* after that no group, or the one of any later process of the machine.
OwnGroup(l) == leader[l] # "reaped" \/ members[l] # {}

\* Mutant of Signal: SIGTERM goes to the leader alone.
SignalLeader(m) ==
    /\ pc[m] \in {"signal", "wait_signal"}
    /\ termed' = [termed EXCEPT ![handle[m]] = TRUE]
    /\ Goto(m, IF pc[m] = "signal" THEN "ready" ELSE "grace")
    /\ UNCHANGED <<leader, code, members, stray, logVars, outcome,
                   handle, faults>>

\* os.killpg(pid, SIGTERM).
Signal(m) ==
    /\ pc[m] \in {"signal", "wait_signal"}
    /\ stray' = (stray \/ ~ OwnGroup(handle[m]))
    /\ termed' = [termed EXCEPT ![handle[m]] = TRUE]
    /\ members' = [members EXCEPT ![handle[m]] = Signalled(@)]
    /\ Goto(m, IF pc[m] = "signal" THEN "ready" ELSE "grace")
    /\ UNCHANGED <<leader, code, logVars, outcome, handle, faults>>

-----------------------------------------------------------------------------
(* wait                                                                     *)

BeginWait(m) ==
    /\ pc[m] = "ready" /\ handle[m] # None
    /\ Goto(m, "waiting")
    /\ UNCHANGED <<groupVars, logVars, outcome, handle, stray, faults>>

\* Mutant of Reap: the wait is for everything that holds the output open.
ReapGroup(m) ==
    /\ pc[m] \in {"waiting", "grace", "last"}
    /\ ~ LeaderAlive(handle[m]) /\ members[handle[m]] = {}
    /\ leader' = Reaped(handle[m])
    /\ Goto(m, IF pc[m] = "waiting" THEN "reaped" ELSE "expired")
    /\ UNCHANGED <<code, members, termed, logVars, outcome, handle,
                   stray, faults>>

\* The leader has ended; what else is in the group does not matter.
Reap(m) ==
    /\ pc[m] \in {"waiting", "grace", "last"}
    /\ ~ LeaderAlive(handle[m])
    /\ leader' = Reaped(handle[m])
    /\ Goto(m, IF pc[m] = "waiting" THEN "reaped" ELSE "expired")
    /\ UNCHANGED <<code, members, termed, logVars, outcome, handle,
                   stray, faults>>

\* timeout_seconds have passed: stop is called, then there are five seconds,
\* in which the leader may end on its own or by the signal.
Expire(m) ==
    /\ pc[m] = "waiting"
    /\ LeaderAlive(handle[m])
    /\ Goto(m, "wait_stop")
    /\ UNCHANGED <<groupVars, logVars, outcome, handle, stray, faults>>

\* Popen.kill: the leader alone.
Kill(m) ==
    /\ pc[m] = "grace"
    /\ LeaderAlive(handle[m])
    /\ leader' = [leader EXCEPT ![handle[m]] = "killed"]
    /\ Goto(m, "last")
    /\ UNCHANGED <<code, members, termed, logVars, outcome, handle,
                   stray, faults>>

\* Mutant of LastWaitExpires: what the last wait raises is caught.
LastWaitGivesUp(m) ==
    /\ pc[m] = "last"
    /\ LeaderAlive(handle[m])
    /\ Goto(m, "expired")
    /\ UNCHANGED <<groupVars, logVars, outcome, handle, stray, faults>>

\* It is not dead within five more seconds: wait raises, and the lifecycle's
\* wait with it, so the worker stays active.
LastWaitExpires(m) ==
    /\ pc[m] = "last"
    /\ LeaderAlive(handle[m])
    /\ Goto(m, "ready")
    /\ UNCHANGED <<groupVars, logVars, outcome, handle, stray, faults>>

\* _finish closes Chief's ends of the logs and reads them; then the lifecycle
\* judges the result and forgets the worker, or raises and keeps it.
Finish(m) ==
    /\ pc[m] \in {"reaped", "expired"}
    /\ LET l == handle[m] IN
         outcome' = [outcome EXCEPT ![l] =
             [status |-> IF pc[m] = "expired" THEN "timed_out"
                         ELSE IF code[l] = 0 THEN "completed" ELSE "failed",
              output |-> log]]
    /\ Goto(m, "ready")
    /\ handle' \in {handle, [handle EXCEPT ![m] = None]}
    /\ UNCHANGED <<groupVars, logVars, stray, faults>>

\* The manager's process dies; what it started lives on, and init waits for
\* its zombies.
Die(m) ==
    /\ pc[m] # "dead"
    /\ faults < MaxFaults
    /\ faults' = faults + 1
    /\ leader' = IF handle[m] = None THEN leader ELSE Reaped(handle[m])
    /\ handle' = [handle EXCEPT ![m] = None]
    /\ Goto(m, "dead")
    /\ UNCHANGED <<code, members, termed, logVars, outcome, stray>>

\* `chief run` is started again.
Restart(m) ==
    /\ pc[m] = "dead"
    /\ Goto(m, "ready")
    /\ UNCHANGED <<groupVars, logVars, outcome, handle, stray, faults>>

-----------------------------------------------------------------------------
(* The kernel and the provider                                              *)

Parented(l) == \E m \in Managers : handle[m] = l

LeaderEnds(l) ==
    /\ LeaderAlive(l)
    /\ code' \in IF leader[l] = "killed" THEN {[code EXCEPT ![l] = 9]}
                 ELSE {[code EXCEPT ![l] = c] : c \in {0, 1}}
    /\ leader' = [leader EXCEPT ![l] = IF Parented(l) THEN "zombie" ELSE "reaped"]
    /\ UNCHANGED <<members, termed, logVars, outcome, pc, handle,
                   stray, faults>>

Fork(l) ==
    /\ leader[l] = "running" \/ members[l] # {}
    /\ members' = [members EXCEPT ![l] =
                      @ \cup {IF termed[l] THEN "late" ELSE "unasked"}]
    /\ UNCHANGED <<leader, code, termed, logVars, outcome, pc, handle,
                   stray, faults>>

\* The last member of a kind ends.
MembersEnd(l, kind) ==
    /\ members' = [members EXCEPT ![l] = @ \ {kind}]
    /\ UNCHANGED <<leader, code, termed, logVars, outcome, pc, handle,
                   stray, faults>>

\* The log files are the slot's: whoever opened them writes on, whatever was
\* truncated since.
Write(l) ==
    /\ leader[l] = "running" \/ members[l] # {}
    /\ log' = log \cup {l}
    /\ UNCHANGED <<groupVars, beside, outcome, pc, handle, stray, faults>>

-----------------------------------------------------------------------------
\* What a manager inside a call does next.
Proceed(m) ==
    \/ CheckStop(m) \/ Signal(m) \/ Reap(m) \/ Expire(m) \/ Kill(m)
    \/ LastWaitExpires(m) \/ Finish(m)

Call(m) == Start(m) \/ Poll(m) \/ BeginStop(m) \/ BeginWait(m)

Provider(l) ==
    \/ LeaderEnds(l) \/ Fork(l) \/ Write(l)
    \/ \E kind \in members[l] : MembersEnd(l, kind)

Next ==
    \/ \E m \in Managers : Call(m) \/ Proceed(m) \/ StartFails(m) \/ Die(m) \/ Restart(m)
    \/ \E l \in Launches : Provider(l)

Spec == Init /\ [][Next]_vars

\* A manager that lives goes on with its call, and its clock runs.  Nothing
\* is assumed of the provider.
FairSpec == Spec /\ \A m \in Managers : WF_vars(Proceed(m))

-----------------------------------------------------------------------------
(* Properties                                                               *)

\* The types of the state.
TypeOK ==
    /\ leader \in Seq(LeaderStates)
    /\ code \in [Launches -> {None, 0, 1, 9}]
    /\ members \in [Launches -> SUBSET Kinds]
    /\ termed \in [Launches -> BOOLEAN]
    /\ beside \in [Launches -> SUBSET Launches]
    /\ log \subseteq Launches
    /\ outcome \in [Launches -> {None} \cup
                       [status : {"completed", "failed", "timed_out"},
                        output : SUBSET Launches]]
    /\ pc \in [Managers -> Steps]
    /\ handle \in [Managers -> Launches \cup {None}]
    /\ stray \in BOOLEAN
    /\ faults \in 0 .. MaxFaults

\* stop never signals a pid that may have been given to somebody else, and
\* never fails for want of a process: whatever was called before (a poll or a
\* wait that reaped the leader, a wait that raised and left the worker
\* active), the leader is still there to hold its pid.
NoStraySignal == ~ stray

\* After a timeout the provider is dead, it was asked to end before it was
\* killed, and all that remains of its group was asked as well or is younger
\* than that.  (Nobody is asked if the leader ends by itself between the
\* timeout and stop's poll.)
TimedOutGroupAsked ==
    \A l \in Launches :
        /\ code[l] = 9 => termed[l]
        /\ outcome[l] # None /\ outcome[l].status = "timed_out" =>
               /\ ~ LeaderAlive(l)
               /\ termed[l] => "unasked" \notin members[l]

\* The output of an execution is not an earlier one's: providers started one
\* after the other share the log files, and only one that was still alive when
\* they were opened again, its manager dead or its children left behind, can
\* add to them.
OutputOfThisRun ==
    \A l \in Launches : outcome[l] # None =>
        \A j \in outcome[l].output : j < l => j \in beside[l]

\* What a WorkerExecution says of a leader, and what the waits said of it.
StateOf(l) == IF LeaderAlive(l) THEN "running"
              ELSE IF code[l] = 0 THEN "completed" ELSE "failed"
Reports(l) == IF outcome[l] = None THEN {} ELSE {outcome[l].status}

Providers ==
    [l \in Launches |-> [slot |-> 1, state |-> StateOf(l),
                         holders |-> {m \in Managers : handle[m] = l},
                         reports |-> Reports(l)]]

Contract == INSTANCE ProviderContract WITH
    Supervisors <- Managers, Slots <- {1}, providers <- Providers

\* Behind signals, deadlines, zombies and second waits, a group is to its
\* managers the one process WorkerSupervision takes it for: it runs until its
\* leader ends, is reported on only then, and is never dropped before.
ImplementsContract == Contract!Spec

\* wait ends, though the leader may ignore SIGTERM and not even die of
\* SIGKILL in time, and its children may keep the log files open for ever.
WaitEnds ==
    \A m \in Managers : pc[m] = "waiting" ~> pc[m] \in {"ready", "dead"}

=============================================================================
