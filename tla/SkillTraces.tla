------------------------------ MODULE SkillTraces ------------------------------
(***************************************************************************)
(* The Skill trace of one Runtime worker, and the gate that later judges   *)
(* it.  A worker that uses the Runtime tools records each phase through    *)
(* RuntimeToolService.record_skill_trace; a provider CLI that writes its   *)
(* own WorkerResult file numbers the entries as it likes.                  *)
(***************************************************************************)
EXTENDS WorkerProtocol

CONSTANTS
    RequiredSkills,   \* required_skills of the assignment
    OtherStages,      \* <<skill, phase>> pairs outside the pipeline
    Statuses,         \* SkillTrace.status values that are recorded
    OwnNumbers,       \* sequence numbers a provider writes itself
    MaxTrace          \* bound on the length of a trace

ASSUME TraceAssumption ==
    /\ Statuses \subseteq {"started", "completed", "failed"}
    /\ OwnNumbers \subseteq Nat \ {0}
    /\ MaxTrace \in Nat

VARIABLE skill_traces   \* the trace, in the order in which it was written

vars == <<skill_traces>>

Init == skill_traces = <<>>

Entry(stage, status, n) == [stage |-> stage, status |-> status, sequence |-> n]

\* RuntimeToolService.record_skill_trace: any other skill raises before
\* anything is recorded.
RecordSkillTrace(stage, status) ==
    /\ Len(skill_traces) < MaxTrace
    /\ stage[1] \in RequiredSkills
    /\ skill_traces' =
          Append(skill_traces, Entry(stage, status, Len(skill_traces) + 1))

\* The provider writes an entry of its result file itself.
WriteSkillTrace(stage, status, n) ==
    /\ Len(skill_traces) < MaxTrace
    /\ skill_traces' = Append(skill_traces, Entry(stage, status, n))

Next ==
    \E stage \in Stages \cup OtherStages, status \in Statuses :
        \/ RecordSkillTrace(stage, status)
        \/ \E n \in OwnNumbers : WriteSkillTrace(stage, status, n)

Spec == Init /\ [][Next]_vars

-----------------------------------------------------------------------------
(* Properties                                                               *)

Distinct(trace) ==
    \A i, j \in DOMAIN trace : trace[i].sequence = trace[j].sequence => i = j

\* No entry after i completes one of the first n stages of the pipeline.
NoneAfter(trace, n, i) ==
    \A p \in 1 .. n : \A j \in DOMAIN trace : CompletedAt(trace, Pipeline[p], j) => j <= i

\* The route was followed to its end: implementation started, then a failing
\* test, then a passing one, then a review, and after each of these nothing
\* of an earlier stage.
RouteFollowed(trace) ==
    \E started \in DOMAIN trace : CompletedAt(trace, Pipeline[1], started) /\
    \E red \in DOMAIN trace :
        /\ started < red
        /\ CompletedAt(trace, Pipeline[2], red) /\ NoneAfter(trace, 1, red)
        /\ \E green \in DOMAIN trace :
             /\ red < green
             /\ CompletedAt(trace, Pipeline[3], green) /\ NoneAfter(trace, 2, green)
             /\ \E review \in DOMAIN trace :
                  /\ green < review
                  /\ CompletedAt(trace, Pipeline[4], review)
                  /\ NoneAfter(trace, 3, review)

\* A trace whose numbers identify its entries passes the gate exactly when
\* the route was followed to its end, whatever was repeated on the way: work
\* recorded after the last review is never covered by that review.
GateDecidesRoute ==
    LET ordered == SequencesOrdered(skill_traces) /\ Distinct(skill_traces)
    IN  ordered => (TraceAccepted(skill_traces) <=> RouteFollowed(skill_traces))

\* The entries record_skill_trace appends to the trace when the route is
\* walked once (more).
RouteAgain(trace) ==
    trace \o [p \in 1 .. 4 |-> Entry(Pipeline[p], "completed", Len(trace) + p)]

\* A worker is never locked out by its own history: from any trace recorded
\* with the tool, also one the gate rejects, walking the route once more
\* gives an accepted trace.
RouteCanBeRepeated ==
    (\A i \in DOMAIN skill_traces : skill_traces[i].sequence = i)
        => TraceAccepted(RouteAgain(skill_traces))

=============================================================================
