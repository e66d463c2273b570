------------------------------- MODULE PlannerRun -------------------------------
(***************************************************************************)
(* One Planner run of the API server: the LangGraph workflow (analyst,     *)
(* explorer, planner, human approval) with its in-memory checkpoint, and   *)
(* RunService, whose coroutines interleave at every await.  A request is   *)
(* one HTTP call; a reviewer may give up on one and send another.          *)
(*                                                                         *)
(* LangGraph is external: after every node the checkpoint holds the state  *)
(* and the next node, an interrupt leaves the interrupted node as the next *)
(* one, and a node that raises leaves the checkpoint as it was.  Model     *)
(* calls are the awaits inside nodes; what they answer is chosen freely.   *)
(***************************************************************************)
EXTENDS Naturals, Sequences, FiniteSets

CONSTANTS
    Start,          \* the request POST /runs
    Decisions,      \* the requests POST /runs/{thread}/decision
    MaxFailures,    \* bound on model calls that fail
    Stops,          \* whether the server may stop
    None

Requests == {Start} \cup Decisions
Actions  == {"approve", "request_changes", "cancel"}
Outcomes == {"ok", "conflict", "not_found", "error", "lost"}

\* A decision request, and the version of the plan its sender was shown.
Messages == [action : Actions, feedback : BOOLEAN, seen : Nat]

ASSUME PlannerAssumption ==
    /\ Start \notin Decisions
    /\ MaxFailures \in Nat
    /\ Stops \in BOOLEAN
    /\ None \notin Decisions \cup Actions \cup Outcomes \cup Messages \cup Nat

VARIABLES
    known,        \* RunService._known_threads contains the thread
    next,         \* snapshot.next of the checkpoint
    interrupted,  \* the checkpoint carries the approval interrupt
    status,       \* state["status"]
    plan,         \* state["implementation_plan"] and what it was made from
    approval,     \* state["plan_approval"]
    feedback,     \* state["plan_feedback"], named by its request
    pc,           \* where each request is
    answer,       \* the HTTP outcome of each finished request
    sent,         \* the decision each request carries, and the plan its
                  \* sender was shown
    lock,         \* the thread's asyncio.Lock, first come first served: its
                  \* lock and the requests that wait for it
    applied,      \* decisions the approval node has taken, in order
    exported,     \* PlannerHandoffs handed out
    failures      \* failed model calls so far

checkpoint == <<next, interrupted, status, plan, approval, feedback>>
vars == <<known, checkpoint, pc, answer, sent, lock, applied, exported,
          failures>>

Goto(q, step) == pc' = [pc EXCEPT ![q] = step]

\* release wakes the request that has waited longest; only a lock leaves.
Leave(q) == IF lock # <<>> /\ Head(lock) = q THEN Tail(lock) ELSE lock

\* Mutant of Answer: an exception leaves the lock taken.
AnswerKeepingLock(q, outcome) ==
    /\ Goto(q, "answered")
    /\ answer' = [answer EXCEPT ![q] = outcome]
    /\ lock' = IF outcome = "error" THEN lock ELSE Leave(q)

\* The request is answered; a decision leaves the lock (`async with`).
Answer(q, outcome) ==
    /\ Goto(q, "answered")
    /\ answer' = [answer EXCEPT ![q] = outcome]
    /\ lock' = Leave(q)

Init ==
    /\ known = FALSE
    /\ next = "issue_analyst"
    /\ interrupted = FALSE
    /\ status = None
    /\ plan = [version |-> 0, ready |-> FALSE, previous |-> 0, feedback |-> None]
    /\ approval = None
    /\ feedback = None
    /\ pc = [q \in Requests |-> "unsent"]
    /\ answer = [q \in Requests |-> None]
    /\ sent = [q \in Requests |-> None]
    /\ lock = <<>>
    /\ applied = <<>>
    /\ exported = {}
    /\ failures = 0

-----------------------------------------------------------------------------
(* The requests of RunService                                               *)

\* start_run: the thread is known at once, but only its answer tells its id.
StartRun ==
    /\ pc[Start] = "unsent"
    /\ known' = TRUE
    /\ Goto(Start, "graph")
    /\ UNCHANGED <<checkpoint, answer, sent, lock, applied, exported,
                   failures>>

\* A client that knows the thread sends a decision, or sends one again after
\* a conflict.  Requests without the feedback their action requires do not get
\* past validation.  A known thread's request queues for the lock.
SendDecision(q, action, withFeedback) ==
    /\ answer[Start] = "ok"
    /\ pc[q] = "unsent" \/ answer[q] = "conflict"
    /\ action = "request_changes" => withFeedback
    /\ sent' = [sent EXCEPT ![q] = [action |-> action, feedback |-> withFeedback,
                               seen |-> plan.version]]
    /\ \/ /\ known
          /\ lock' = Append(lock, q)
          /\ Goto(q, "lock")
          /\ answer' = [answer EXCEPT ![q] = None]
       \/ ~ known /\ Answer(q, "not_found")
    /\ UNCHANGED <<known, checkpoint, applied, exported, failures>>

\* Mutant of AcquireLock: every run has a lock, nobody waits for it.
NoLock(q) ==
    /\ pc[q] = "lock"
    /\ Goto(q, "check")
    /\ UNCHANGED <<known, checkpoint, answer, sent, lock, applied, exported,
                   failures>>

AcquireLock(q) ==
    /\ pc[q] = "lock"
    /\ Head(lock) = q
    /\ Goto(q, "check")
    /\ UNCHANGED <<known, checkpoint, answer, sent, lock, applied, exported,
                   failures>>

\* aget_state: is the run waiting for a decision?
CheckPending(q) ==
    /\ pc[q] = "check"
    /\ \/ next = "plan_approval" /\ Goto(q, "resume") /\ UNCHANGED <<answer, lock>>
       \/ next # "plan_approval" /\ Answer(q, "conflict")
    /\ UNCHANGED <<known, checkpoint, sent, applied, exported, failures>>

\* get_run at the end of start_run or submit_plan_decision.
Respond(q) ==
    /\ pc[q] = "respond"
    /\ Answer(q, "ok")
    /\ UNCHANGED <<known, checkpoint, sent, applied, exported, failures>>

\* POST /runs/{thread}/handoff: takes no lock; the artifact validates that
\* its plan is ready and its approval an approval, and raises otherwise.
ExportHandoff ==
    /\ known /\ pc[Start] = "answered"
    /\ approval = "approve"
    /\ plan.ready
    /\ exported' = exported \cup {plan}
    /\ UNCHANGED <<known, checkpoint, pc, answer, sent, lock, applied,
                   failures>>

-----------------------------------------------------------------------------
(* The workflow, run by a request inside ainvoke                            *)

Runs(q, node) == pc[q] = "graph" /\ next = node

\* issue_analyst: an issue that is not actionable ends the run.
AnalyseIssue(q) ==
    /\ Runs(q, "issue_analyst")
    /\ \/ next' = "repository_explorer" /\ status' = "ready_for_exploration"
       \/ next' = "END" /\ status' = "needs_clarification"
    /\ Goto(q, IF next' = "END" THEN "respond" ELSE "graph")
    /\ UNCHANGED <<known, interrupted, plan, approval, feedback, answer, sent,
                   lock, applied, exported, failures>>

ExploreRepository(q) ==
    /\ Runs(q, "repository_explorer")
    /\ next' = "implementation_planner"
    /\ status' = "repository_explored"
    /\ UNCHANGED <<known, interrupted, plan, approval, feedback, pc, answer,
                   sent, lock, applied, exported, failures>>

\* Mutant of PlanImplementation: a plan that is not ready is left in the planner.
UnreadyPlanStays(q, ready) ==
    /\ Runs(q, "implementation_planner")
    /\ plan' = [version |-> plan.version + 1, ready |-> ready,
                previous |-> plan.version, feedback |-> feedback]
    /\ \/ ready /\ next' = "plan_approval" /\ status' = "ready_for_plan_review"
       \/ ~ ready /\ UNCHANGED next /\ status' = "needs_clarification"
    /\ Goto(q, IF ready THEN "graph" ELSE "respond")
    /\ UNCHANGED <<known, interrupted, approval, feedback, answer, sent, lock,
                   applied, exported, failures>>

\* Mutant of PlanImplementation: a plan that is not ready is planned again.
UnreadyPlanAgain(q, ready) ==
    /\ Runs(q, "implementation_planner")
    /\ plan' = [version |-> plan.version + 1, ready |-> ready,
                previous |-> plan.version, feedback |-> feedback]
    /\ plan.version < 3
    /\ \/ ready /\ next' = "plan_approval" /\ status' = "ready_for_plan_review"
       \/ ~ ready /\ UNCHANGED next /\ status' = "needs_clarification"
    /\ UNCHANGED <<known, interrupted, approval, feedback, pc, answer, sent, lock,
                   applied, exported, failures>>

\* implementation_planner: the model is given the previous plan and the last
\* feedback.  A plan that is not ready ends the run.
PlanImplementation(q, ready) ==
    /\ Runs(q, "implementation_planner")
    /\ plan' = [version |-> plan.version + 1, ready |-> ready,
                previous |-> plan.version, feedback |-> feedback]
    /\ \/ ready /\ next' = "plan_approval" /\ status' = "ready_for_plan_review"
       \/ ~ ready /\ next' = "END" /\ status' = "needs_clarification"
    /\ Goto(q, IF ready THEN "graph" ELSE "respond")
    /\ UNCHANGED <<known, interrupted, approval, feedback, answer, sent, lock,
                   applied, exported, failures>>

\* plan_approval up to interrupt: ainvoke returns.
AskHuman(q) ==
    /\ Runs(q, "plan_approval")
    /\ interrupted' = TRUE
    /\ Goto(q, "respond")
    /\ UNCHANGED <<known, next, status, plan, approval, feedback, answer, sent,
                   lock, applied, exported, failures>>

\* Mutant of StatusByAction: the action itself.
RawStatus(action) == action

StatusByAction(action) ==
    CASE action = "approve" -> "plan_approved"
      [] action = "request_changes" -> "plan_revision_requested"
      [] action = "cancel" -> "cancelled"

\* Mutant of FeedbackAfter: the state keeps its old feedback.
OldFeedback(q) == feedback

\* A decision without feedback leaves the previous feedback in the state.
FeedbackAfter(q) == IF sent[q].feedback THEN q ELSE feedback

\* ainvoke(Command(resume=...)): interrupt returns the decision, the node
\* updates the state and the run is routed by the action.
ResumeApproval(q) ==
    /\ pc[q] = "resume"
    /\ interrupted' = FALSE
    /\ approval' = sent[q].action
    /\ status' = StatusByAction(sent[q].action)
    /\ feedback' = FeedbackAfter(q)
    /\ applied' = Append(applied, [request |-> q, action |-> sent[q].action,
                                  version |-> plan.version])
    /\ \/ /\ sent[q].action \in {"approve", "cancel"}
          /\ next' = "END" /\ Goto(q, "respond")
       \/ /\ sent[q].action = "request_changes"
          /\ next' = "implementation_planner" /\ Goto(q, "graph")
    /\ UNCHANGED <<known, plan, answer, sent, lock, exported, failures>>

\* A model call fails after its retries, or its answer does not validate: the
\* node raises and so does ainvoke.  start_run forgets the thread.
ModelFails(q) ==
    /\ pc[q] = "graph"
    /\ next \in {"issue_analyst", "repository_explorer", "implementation_planner"}
    /\ failures < MaxFailures
    /\ failures' = failures + 1
    /\ Answer(q, "error")
    /\ known' = (known /\ q # Start)
    /\ UNCHANGED <<checkpoint, sent, applied, exported>>

\* The server stops: requests die, and the next server knows no thread.
StopServer ==
    /\ Stops /\ known
    /\ known' = FALSE
    /\ pc' = [q \in Requests |-> IF pc[q] = "unsent" THEN "unsent" ELSE "answered"]
    /\ answer' = [q \in Requests |->
                     IF pc[q] \in {"unsent", "answered"} THEN answer[q] ELSE "lost"]
    /\ lock' = <<>>
    /\ UNCHANGED <<checkpoint, sent, applied, exported, failures>>

-----------------------------------------------------------------------------
\* What the event loop does for a request, model failures included.
Serve(q) ==
    \/ AcquireLock(q) \/ CheckPending(q) \/ ResumeApproval(q) \/ Respond(q)
    \/ AnalyseIssue(q) \/ ExploreRepository(q)
    \/ \E ready \in BOOLEAN : PlanImplementation(q, ready)
    \/ AskHuman(q)
    \/ ModelFails(q)

Send(q) == \E action \in Actions, withFeedback \in BOOLEAN :
               SendDecision(q, action, withFeedback)

Next ==
    \/ StartRun \/ ExportHandoff \/ StopServer
    \/ \E q \in Requests : Serve(q)
    \/ \E q \in Decisions : Send(q)

Spec == Init /\ [][Next]_vars

\* The event loop serves every request it has accepted (a model call ends, at
\* the latest by its timeout); nobody has to send one.
FairSpec == Spec /\ \A q \in Requests : WF_vars(Serve(q))

-----------------------------------------------------------------------------
(* Properties                                                               *)

\* The types of the state.
TypeOK ==
    /\ known \in BOOLEAN /\ interrupted \in BOOLEAN
    /\ next \in {"issue_analyst", "repository_explorer",
                 "implementation_planner", "plan_approval", "END"}
    /\ status \in {None, "ready_for_exploration", "repository_explored",
                   "ready_for_plan_review", "needs_clarification",
                   "plan_revision_requested", "plan_approved", "cancelled"}
    /\ plan \in [version : Nat, ready : BOOLEAN, previous : Nat,
                 feedback : Decisions \cup {None}]
    /\ approval \in Actions \cup {None}
    /\ feedback \in Decisions \cup {None}
    /\ pc \in [Requests -> {"unsent", "graph", "lock", "check", "resume",
                            "respond", "answered"}]
    /\ answer \in [Requests -> Outcomes \cup {None}]
    /\ sent \in [Requests -> Messages \cup {None}]
    /\ lock \in Seq(Decisions)
    /\ applied \in Seq([request : Decisions, action : Actions, version : Nat])
    /\ failures \in 0 .. MaxFailures

LastApplied == applied[Len(applied)]

\* A decision carries no plan version, and is applied to whatever plan is
\* pending when its turn comes.  It reaches another plan than the one its
\* sender was shown only if somebody else decided that one in the meantime.
DecisionMeant ==
    \A i \in DOMAIN applied :
        LET seen == sent[applied[i].request].seen
        IN  applied[i].version # seen =>
                \E j \in 1 .. i - 1 : applied[j].version = seen

\* A revised plan is made from the rejected plan and the feedback that
\* rejected it, never from an older round.
RevisionUsesItsFeedback ==
    plan.version > 1 =>
        \E i \in DOMAIN applied :
            /\ applied[i].action = "request_changes"
            /\ applied[i].version = plan.previous
            /\ plan.previous = plan.version - 1
            /\ plan.feedback = applied[i].request

\* A run at rest is over or shows a plan whose decision is awaited; the one
\* thing that strands it is a model call that failed in a revision: the
\* checkpoint then waits for the planner, every decision conflicts, and no
\* operation of the service continues the graph.
IdleRunIsAnswerable ==
    (/\ known /\ pc[Start] = "answered"
     /\ \A q \in Decisions : pc[q] \in {"unsent", "lock", "check", "answered"})
        => \/ next = "END"
           \/ next = "plan_approval" /\ interrupted
           \/ /\ next = "implementation_planner" /\ failures > 0
              /\ applied # <<>> /\ LastApplied.action = "request_changes"

\* The run as its reviewers see it.
Review == INSTANCE PlanReview WITH
    pending   <- IF next = "plan_approval" THEN plan.version ELSE None,
    decisions <- [i \in DOMAIN applied |->
                     [plan |-> applied[i].version, verdict |-> applied[i].action]],
    handedOut <- {h.version : h \in exported}

\* However decisions race, conflict and are repeated, and exports, failing
\* model calls and stops fall between them: every plan is decided at most
\* once, nothing follows an approval, and only the approved plan is exported.
ImplementsReview == Review!Spec

\* Every request is answered, also behind a failing model call: the lock is
\* given back on every path.
EveryRequestAnswered ==
    \A q \in Requests : pc[q] # "unsent" ~> pc[q] = "answered"

=============================================================================
