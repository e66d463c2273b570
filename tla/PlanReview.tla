------------------------------- MODULE PlanReview -------------------------------
(***************************************************************************)
(* What the Planner promises a reviewer, whatever requests, model calls    *)
(* and restarts it takes: a plan is put up for review, decided once, by    *)
(* one decision; a revision is a new plan; approval and cancellation end   *)
(* the review; and only the approved plan leaves as a handoff.             *)
(* PlannerRun implements this specification.                               *)
(***************************************************************************)
EXTENDS Naturals, Sequences

CONSTANT None

VARIABLES
    pending,    \* the plan that awaits its decision, or None
    decisions,  \* the decisions taken, in order
    handedOut   \* the plans exported as handoffs

vars == <<pending, decisions, handedOut>>

Verdicts == {"approve", "request_changes", "cancel"}

Last == decisions[Len(decisions)]

\* Nothing was decided yet, or the last decision asked for another plan.
Open == decisions = <<>> \/ Last.verdict = "request_changes"

Init ==
    /\ pending = None
    /\ decisions = <<>>
    /\ handedOut = {}

\* A plan nobody has decided before goes up for review.
Propose ==
    /\ pending = None /\ Open
    /\ pending' \in Nat
    /\ \A i \in DOMAIN decisions : decisions[i].plan < pending'
    /\ UNCHANGED <<decisions, handedOut>>

Decide(verdict) ==
    /\ pending # None /\ Open
    /\ decisions' = Append(decisions, [plan |-> pending, verdict |-> verdict])
    /\ pending' = None
    /\ UNCHANGED handedOut

HandOut ==
    /\ decisions # <<>> /\ Last.verdict = "approve"
    /\ handedOut' = handedOut \cup {Last.plan}
    /\ UNCHANGED <<pending, decisions>>

Next ==
    \/ Propose
    \/ \E verdict \in Verdicts : Decide(verdict)
    \/ HandOut

Spec == Init /\ [][Next]_vars

=============================================================================
