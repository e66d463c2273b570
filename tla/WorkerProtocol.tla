----------------------------- MODULE WorkerProtocol -----------------------------
(***************************************************************************)
(* SkillTraceGate.check: Chief's decision about a WorkerResult.            *)
(*                                                                         *)
(* A result is a record [run, worker, task, status, commit, files, trace,  *)
(* errors]: commit says whether it names one, files is the set of changed  *)
(* files, errors whether its error list is non-empty, and trace is the     *)
(* sequence of its Skill trace entries [stage, status, sequence], where a  *)
(* stage is a <<skill, phase>> pair.  An assignment is a record [run,      *)
(* worker, task, paths], paths being the set of files it may change.       *)
(***************************************************************************)
EXTENDS Naturals, Sequences

Pipeline == << <<"implement", "started">>, <<"tdd", "red">>, <<"tdd", "green">>,
               <<"code-review", "reviewed">> >>

Stages == {Pipeline[p] : p \in 1 .. 4}

\* Entry i of a trace records that a stage was completed.
CompletedAt(trace, stage, i) ==
    /\ i \in DOMAIN trace
    /\ trace[i].stage = stage
    /\ trace[i].status = "completed"

\* Mutant of LastCompletedAt: the first entry of a stage counts.
FirstCompletedAt(trace, stage, i) ==
    /\ CompletedAt(trace, stage, i)
    /\ \A j \in DOMAIN trace : CompletedAt(trace, stage, j) => i <= j

\* The dict comprehension over the trace keeps the last entry of a stage.
LastCompletedAt(trace, stage, i) ==
    /\ CompletedAt(trace, stage, i)
    /\ \A j \in DOMAIN trace : CompletedAt(trace, stage, j) => j <= i

Missing(trace) ==
    {stage \in Stages : \A i \in DOMAIN trace : ~ CompletedAt(trace, stage, i)}

SequencesOrdered(trace) ==
    \A i, j \in DOMAIN trace : i < j => trace[i].sequence <= trace[j].sequence

\* Mutant of PhasesOrdered: the order is not compared.
PhasesNotCompared(trace) == TRUE

\* The sequence numbers of the required phases do not decrease along the
\* pipeline.  Equal numbers pass, as they do in `sequences != sorted(sequences)`.
PhasesOrdered(trace) ==
    \A p, q \in 1 .. 4 : p < q =>
        \A i \in DOMAIN trace : LastCompletedAt(trace, Pipeline[p], i) =>
            \A j \in DOMAIN trace : LastCompletedAt(trace, Pipeline[q], j) =>
                trace[i].sequence <= trace[j].sequence

TraceAccepted(trace) ==
    Missing(trace) = {} /\ SequencesOrdered(trace) /\ PhasesOrdered(trace)

\* What check asks when it is given no assignment.
Accepted(result) ==
    /\ TraceAccepted(result.trace)
    /\ result.status = "completed"
    /\ result.commit

\* What it asks when Chief has found an assignment for the result.
AcceptedFor(result, assignment) ==
    /\ Accepted(result)
    /\ result.run = assignment.run
    /\ result.worker = assignment.worker
    /\ result.task = assignment.task
    /\ result.files \subseteq assignment.paths

=============================================================================
