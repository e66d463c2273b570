----------------------------- MODULE PlannerRunProofs -----------------------------
(***************************************************************************)
(* The Planner's review, for any number of decisions and failing model     *)
(* calls: the requests take their turns, a decision means the plan its     *)
(* sender saw unless another one came first, a revision answers the        *)
(* feedback that asked for it, a run is stranded only by a failed          *)
(* revision, and the whole implements PlanReview.                          *)
(***************************************************************************)
EXTENDS PlannerRun, SequenceTheorems, TLAPS

-----------------------------------------------------------------------------
(* The invariant                                                            *)

\* Inside the run's part of a request: before it, a decision waits its turn.
Active(q) == pc[q] \in {"check", "resume", "graph", "respond"}

Queued(q, queue) == \E i \in DOMAIN queue : queue[i] = q

\* Decisions are sent once the run is started, and served one after the other.
Turns ==
    /\ pc[Start] \in {"unsent", "graph", "respond", "answered"}
    /\ answer[Start] = "ok" => pc[Start] = "answered"
    /\ answer[Start] # "ok" \/ ~ known => lock = <<>>
    /\ \A q \in Decisions :
           /\ pc[q] # "unsent" => answer[Start] = "ok" /\ sent[q] # None
           /\ Active(q) => lock # <<>> /\ Head(lock) = q
           /\ pc[q] = "lock" => Queued(q, lock)
           /\ sent[q] # None /\ sent[q].action = "request_changes" => sent[q].feedback

\* Where the checkpoint stands when nobody moves it, and who has an answer.
Standing ==
    /\ \A q \in Requests : answer[q] # None => pc[q] = "answered"
    /\ pc[Start] = "unsent" => next = "issue_analyst" /\ ~ known
    /\ pc[Start] = "respond" \/ answer[Start] = "ok" => next # "issue_analyst" /\ next # "repository_explorer"
    /\ \A q \in Requests : pc[q] = "resume" => next = "plan_approval"
    /\ \A q \in Requests : pc[q] = "respond" => next \in {"END", "plan_approval"}

\* The decisions taken, and the plan they leave.
Rounds ==
    /\ next \in {"issue_analyst", "repository_explorer"} => plan.version = 0
    /\ next = "plan_approval" => plan.version > 0
    /\ plan.version = 0 => applied = <<>>
    /\ next # "END" => applied = <<>> \/ LastApplied.action = "request_changes"
    /\ next = "implementation_planner" /\ plan.version > 0 =>
           /\ applied # <<>>
           /\ LastApplied.version = plan.version
           /\ LastApplied.request = feedback
    /\ approval = "approve" =>
           /\ next = "END" /\ applied # <<>>
           /\ LastApplied.action = "approve" /\ LastApplied.version = plan.version
    /\ \A i \in DOMAIN applied : applied[i].version <= plan.version

\* Somebody moves a run that is neither over nor waiting, or a call failed.
Moved ==
    known =>
        /\ next \notin {"END", "plan_approval"} /\ plan.version = 0 => pc[Start] = "graph"
        /\ next = "implementation_planner" =>
               failures > 0 \/ \E q \in Requests : pc[q] = "graph"
        /\ next = "plan_approval" =>
               interrupted \/ \E q \in Requests : pc[q] = "graph"

\* The plan a waiting decision was shown is pending or decided by now, and a
\* decision that was taken is not sent again.
Decided(version) == \E j \in DOMAIN applied : applied[j].version = version

Shown ==
    /\ \A q \in Decisions : pc[q] \in {"lock", "check", "resume"} /\ next # "END" =>
           sent[q].seen = plan.version \/ Decided(sent[q].seen)
    /\ \A i \in DOMAIN applied :
           LET r == applied[i].request
           IN  pc[r] \in {"graph", "respond", "answered"} /\ answer[r] # "conflict"

PlInv ==
    /\ TypeOK /\ Turns /\ Standing /\ Rounds /\ Moved /\ Shown
    /\ DecisionMeant /\ RevisionUsesItsFeedback

-----------------------------------------------------------------------------
(* The queue of the lock                                                    *)

\* Who leaves the lock is its head: all the others stay in the queue.
LEMMA TailKeeps ==
  ASSUME NEW S, NEW s \in Seq(S), s # <<>>, NEW r, r # Head(s), Queued(r, s)
  PROVE  Queued(r, Tail(s))
<1>1. PICK i \in 1 .. Len(s) : s[i] = r
  BY LenProperties DEF Queued
<1>2. i # 1
  BY <1>1
<1>3. Len(Tail(s)) = Len(s) - 1 /\ Tail(s) \in Seq(S)
  BY HeadTailProperties
<1>4. i - 1 \in 1 .. Len(Tail(s)) /\ Tail(s)[i - 1] = s[i]
  BY <1>1, <1>2, <1>3
<1>5. QED
  BY <1>1, <1>3, <1>4, LenProperties DEF Queued

\* Who comes queues behind the others.
LEMMA AppendKeeps ==
  ASSUME NEW S, NEW s \in Seq(S), NEW e \in S
  PROVE  /\ Append(s, e) \in Seq(S) /\ Append(s, e) # <<>>
         /\ s # <<>> => Head(Append(s, e)) = Head(s)
         /\ Queued(e, Append(s, e))
         /\ \A r : Queued(r, s) => Queued(r, Append(s, e))
<1>1. /\ Append(s, e) \in Seq(S) /\ Append(s, e) # <<>>
      /\ Len(Append(s, e)) = Len(s) + 1
      /\ \A i \in 1 .. Len(s) : Append(s, e)[i] = s[i]
      /\ Append(s, e)[Len(s) + 1] = e
  BY AppendProperties
<1>2. Len(s) \in Nat /\ DOMAIN s = 1 .. Len(s) /\ DOMAIN Append(s, e) = 1 .. (Len(s) + 1)
  BY <1>1, LenProperties
<1>3. s # <<>> => Head(Append(s, e)) = Head(s)
  BY <1>1, HeadTailAppend
<1>4. Queued(e, Append(s, e)) /\ \A r : Queued(r, s) => Queued(r, Append(s, e))
  BY <1>1, <1>2 DEF Queued
<1>5. QED
  BY <1>1, <1>3, <1>4

\* One request at a time is inside the run.
LEMMA OneAtATime ==
  ASSUME Turns, NEW q \in Requests, NEW r \in Requests, Active(q), Active(r)
  PROVE  q = r
  BY PlannerAssumption DEF Turns, Active, Requests

\* What the request inside the run leaves in the queue when it is answered.
LEMMA Leaving ==
  ASSUME TypeOK, Turns, NEW q \in Requests, Active(q)
  PROVE  /\ Leave(q) \in Seq(Decisions)
         /\ lock = <<>> => Leave(q) = <<>>
         /\ \A r \in Decisions : pc[r] = "lock" => Queued(r, Leave(q))
<1>1. CASE q = Start
  BY <1>1, PlannerAssumption DEF Turns, Active, TypeOK, Leave
<1>2. CASE q \in Decisions
  <2>1. lock # <<>> /\ Head(lock) = q /\ lock \in Seq(Decisions) /\ Leave(q) = Tail(lock)
    BY <1>2 DEF Turns, TypeOK, Leave
  <2>2. \A r \in Decisions : pc[r] = "lock" => r # Head(lock) /\ Queued(r, lock)
    BY <2>1 DEF Turns, Active
  <2>3. QED
    BY <2>1, <2>2, TailKeeps, HeadTailProperties
<1>3. QED
  BY <1>1, <1>2 DEF Requests

-----------------------------------------------------------------------------
(* Type correctness                                                         *)

\* One step for each action; Answer keeps the types by Leaving.
LEMMA TypesKept ==
  ASSUME TypeOK, Turns, [Next]_vars
  PROVE  TypeOK'
<1> USE PlannerAssumption DEF Goto, checkpoint, Requests, Outcomes, Actions
<1>1. ASSUME NEW q \in Requests, Active(q), NEW outcome \in Outcomes, Answer(q, outcome)
      PROVE  /\ pc' \in [Requests -> {"unsent", "graph", "lock", "check", "resume",
                                      "respond", "answered"}]
             /\ answer' \in [Requests -> Outcomes \cup {None}]
             /\ lock' \in Seq(Decisions)
  BY <1>1, Leaving DEF Answer, TypeOK
<1>2. ASSUME StartRun PROVE TypeOK'
  BY <1>2 DEF StartRun, TypeOK
<1>3. ASSUME ExportHandoff PROVE TypeOK'
  BY <1>3 DEF ExportHandoff, TypeOK
<1>4. ASSUME StopServer PROVE TypeOK'
  <2>1. /\ pc' \in [Requests -> {"unsent", "graph", "lock", "check", "resume",
                                 "respond", "answered"}]
        /\ answer' \in [Requests -> Outcomes \cup {None}]
        /\ lock' \in Seq(Decisions)
    BY <1>4 DEF StopServer, TypeOK
  <2>2. known' \in BOOLEAN
    BY <1>4 DEF StopServer
  <2>3. QED
    BY <1>4, <2>1, <2>2 DEF StopServer, TypeOK
<1>5. ASSUME NEW q \in Decisions, Send(q) PROVE TypeOK'
  <2>1. PICK action \in Actions, withFeedback \in BOOLEAN : SendDecision(q, action, withFeedback)
    BY <1>5 DEF Send
  <2>2. sent' \in [Requests -> Messages \cup {None}]
    <3>1. [action |-> action, feedback |-> withFeedback, seen |-> plan.version]
              \in Messages
      BY DEF TypeOK, Messages
    <3>2. QED
      BY <2>1, <3>1 DEF SendDecision, TypeOK
  <2>3. /\ pc' \in [Requests -> {"unsent", "graph", "lock", "check", "resume",
                                 "respond", "answered"}]
        /\ answer' \in [Requests -> Outcomes \cup {None}]
    <3>1. /\ \/ pc' = [pc EXCEPT ![q] = "lock"]
             \/ pc' = [pc EXCEPT ![q] = "answered"]
          /\ \/ answer' = [answer EXCEPT ![q] = None]
             \/ answer' = [answer EXCEPT ![q] = "not_found"]
      BY <2>1 DEF SendDecision, Answer
    <3>2. pc' \in [Requests -> {"unsent", "graph", "lock", "check", "resume",
                                 "respond", "answered"}]
      BY <3>1 DEF TypeOK
    <3>3. answer' \in [Requests -> Outcomes \cup {None}]
      BY <3>1 DEF TypeOK
    <3>4. QED
      BY <3>2, <3>3
  <2>4. lock' \in Seq(Decisions)
    <3>1. CASE known
      <4>1. lock' = Append(lock, q)
        BY <2>1, <3>1 DEF SendDecision
      <4>2. QED
        BY <4>1, AppendKeeps DEF TypeOK
    <3>2. CASE ~ known
      BY <2>1, <3>2 DEF SendDecision, Answer, Leave, Turns, TypeOK
    <3>3. QED
      BY <3>1, <3>2
  <2>5. QED
    BY <2>1, <2>2, <2>3, <2>4 DEF SendDecision, TypeOK
<1>6. ASSUME NEW q \in Requests, AcquireLock(q) PROVE TypeOK'
  BY <1>6 DEF AcquireLock, TypeOK
<1>7. ASSUME NEW q \in Requests, CheckPending(q) PROVE TypeOK'
  <2>1. CASE Answer(q, "conflict")
    BY <1>7, <2>1, <1>1 DEF CheckPending, TypeOK, Active
  <2>2. CASE pc' = [pc EXCEPT ![q] = "resume"] /\ UNCHANGED <<answer, lock>>
    BY <1>7, <2>2 DEF CheckPending, TypeOK
  <2>3. QED
    BY <1>7, <2>1, <2>2 DEF CheckPending
<1>8. ASSUME NEW q \in Requests, Respond(q) PROVE TypeOK'
  BY <1>8, <1>1 DEF Respond, TypeOK, Active
<1>9. ASSUME NEW q \in Requests, AnalyseIssue(q) PROVE TypeOK'
  BY <1>9 DEF AnalyseIssue, TypeOK
<1>10. ASSUME NEW q \in Requests, ExploreRepository(q) PROVE TypeOK'
  BY <1>10 DEF ExploreRepository, TypeOK
<1>11. ASSUME NEW q \in Requests, NEW ready \in BOOLEAN, PlanImplementation(q, ready) PROVE TypeOK'
  <2>1. plan' \in [version : Nat, ready : BOOLEAN, previous : Nat,
                   feedback : Decisions \cup {None}]
    BY <1>11 DEF PlanImplementation, TypeOK
  <2>2. QED
    BY <1>11, <2>1 DEF PlanImplementation, TypeOK
<1>12. ASSUME NEW q \in Requests, AskHuman(q) PROVE TypeOK'
  BY <1>12 DEF AskHuman, TypeOK
<1>13. ASSUME NEW q \in Requests, ResumeApproval(q) PROVE TypeOK'
  <2>1. q \in Decisions /\ sent[q] \in Messages
    BY <1>13 DEF ResumeApproval, Turns, TypeOK
  <2>2. applied' \in Seq([request : Decisions, action : Actions, version : Nat])
    <3>1. [request |-> q, action |-> sent[q].action, version |-> plan.version]
              \in [request : Decisions, action : Actions, version : Nat]
      BY <2>1 DEF TypeOK, Messages
    <3>2. QED
      BY <1>13, <3>1, AppendProperties DEF ResumeApproval, TypeOK
  <2>3. approval' \in Actions \cup {None} /\ feedback' \in Decisions \cup {None}
    BY <1>13, <2>1 DEF ResumeApproval, FeedbackAfter, TypeOK, Messages
  <2>4. status' \in {"plan_approved", "plan_revision_requested", "cancelled"}
    BY <1>13, <2>1 DEF ResumeApproval, StatusByAction, Messages
  <2>5. pc' \in [Requests -> {"unsent", "graph", "lock", "check", "resume",
                              "respond", "answered"}]
    BY <1>13 DEF ResumeApproval, TypeOK
  <2>6. next' \in {"END", "implementation_planner"} /\ interrupted' \in BOOLEAN
    BY <1>13 DEF ResumeApproval
  <2>7. QED
    BY <1>13, <2>2, <2>3, <2>4, <2>5, <2>6 DEF ResumeApproval, TypeOK
<1>14. ASSUME NEW q \in Requests, ModelFails(q) PROVE TypeOK'
  <2>1. known' \in BOOLEAN
    BY <1>14 DEF ModelFails, TypeOK
  <2>2. failures' \in 0 .. MaxFailures
    BY <1>14 DEF ModelFails, TypeOK
  <2>3. QED
    BY <1>14, <1>1, <2>1, <2>2 DEF ModelFails, TypeOK, Active
<1>15. CASE UNCHANGED vars
  BY <1>15 DEF vars, TypeOK
<1>16. QED
  BY <1>2, <1>3, <1>4, <1>5, <1>6, <1>7, <1>8, <1>9, <1>10, <1>11, <1>12, <1>13, <1>14, <1>15
     DEF Next, Serve

-----------------------------------------------------------------------------
(* The parts of the invariant                                               *)

\* Only the request inside the run moves, or one that waits at the head.
LEMMA TurnsKept ==
  ASSUME TypeOK, Turns, [Next]_vars
  PROVE  Turns'
<1> USE PlannerAssumption DEF Goto, Requests, Active, Turns
<1>1. ASSUME NEW q \in Requests, UNCHANGED <<known, answer, sent, lock>>,
             pc[q] = "lock" \/ Active(q), lock # <<>> => Head(lock) = q,
             NEW step \in {"check", "resume", "graph", "respond"},
             q = Start => step \in {"graph", "respond"},
             pc' = [pc EXCEPT ![q] = step]
      PROVE  Turns'
  <2>1. pc'[q] = step /\ \A r \in Requests : r # q => pc'[r] = pc[r]
    BY <1>1 DEF TypeOK
  <2>2. CASE q = Start
    BY <1>1, <2>1, <2>2
  <2>3. CASE q \in Decisions
    <3>1. lock # <<>>
      BY <1>1, <2>3, LenProperties DEF Queued, TypeOK
    <3>2. QED
      BY <1>1, <2>1, <2>3, <3>1
  <2>4. QED
    BY <2>2, <2>3
<1>2. ASSUME NEW q \in Requests, Active(q), NEW outcome \in Outcomes, Answer(q, outcome),
             UNCHANGED sent, known => known' \/ q = Start
      PROVE  Turns'
  <2>1. /\ pc'[q] = "answered" /\ answer'[q] = outcome
        /\ \A r \in Requests : r # q => pc'[r] = pc[r] /\ answer'[r] = answer[r]
        /\ lock' = Leave(q)
    BY <1>2 DEF Answer, TypeOK
  <2>2. \A r \in Decisions : r # q => ~ Active(r)
    BY <1>2, OneAtATime
  <2>3. \A r \in Decisions : r # q /\ pc[r] = "lock" => Queued(r, lock')
    BY <1>2, <2>1, Leaving
  <2>4. lock = <<>> => lock' = <<>>
    BY <1>2, <2>1, Leaving
  <2>5. CASE q = Start
    BY <1>2, <2>1, <2>4, <2>5 DEF Queued
  <2>6. CASE q \in Decisions
    BY <1>2, <2>1, <2>2, <2>3, <2>4, <2>6
  <2>7. QED
    BY <2>5, <2>6
<1>3. ASSUME StartRun PROVE Turns'
  BY <1>3 DEF StartRun, TypeOK
<1>4. ASSUME StopServer PROVE Turns'
  BY <1>4 DEF StopServer, TypeOK
<1>5. ASSUME NEW q \in Decisions, Send(q) PROVE Turns'
  <2>1. PICK action \in Actions, withFeedback \in BOOLEAN : SendDecision(q, action, withFeedback)
    BY <1>5 DEF Send
  <2>2. /\ sent'[q] # None /\ sent'[q].action = "request_changes" => sent'[q].feedback
        /\ \A r \in Decisions : r # q => sent'[r] = sent[r]
        /\ sent'[q] # None
    <3>1. sent'[q] = [action |-> action, feedback |-> withFeedback, seen |-> plan.version]
          /\ \A r \in Decisions : r # q => sent'[r] = sent[r]
      BY <2>1 DEF SendDecision, TypeOK
    <3>2. action = "request_changes" => withFeedback
      BY <2>1 DEF SendDecision
    <3>3. sent'[q] # None
      <4>1. sent'[q] \in Messages
        BY <3>1 DEF TypeOK, Messages
      <4>2. QED
        BY <4>1
    <3>4. QED
      BY <3>1, <3>2, <3>3
  <2>3. CASE known
    <3>1. /\ answer[Start] = "ok" /\ known' = known /\ lock' = Append(lock, q)
          /\ pc' = [pc EXCEPT ![q] = "lock"] /\ answer' = [answer EXCEPT ![q] = None]
      BY <2>1, <2>3 DEF SendDecision
    <3>2. /\ lock' # <<>> /\ Queued(q, lock')
          /\ lock # <<>> => Head(lock') = Head(lock)
          /\ \A r : Queued(r, lock) => Queued(r, lock')
      BY <3>1, AppendKeeps DEF TypeOK
    <3>3. /\ pc'[q] = "lock" /\ \A r \in Requests : r # q => pc'[r] = pc[r]
          /\ answer'[Start] = "ok" /\ q # Start
      BY <3>1 DEF TypeOK
    <3>4. QED
      BY <2>2, <2>3, <3>1, <3>2, <3>3
  <2>4. CASE ~ known
    <3>1. /\ answer[Start] = "ok" /\ known' = known /\ lock = <<>> /\ lock' = lock
          /\ pc' = [pc EXCEPT ![q] = "answered"] /\ answer' = [answer EXCEPT ![q] = "not_found"]
      BY <2>1, <2>4 DEF SendDecision, Answer, Leave
    <3>2. /\ pc'[q] = "answered" /\ \A r \in Requests : r # q => pc'[r] = pc[r]
          /\ answer'[Start] = "ok" /\ q # Start
      BY <3>1 DEF TypeOK
    <3>3. QED
      BY <2>2, <2>4, <3>1, <3>2
  <2>5. QED
    BY <2>3, <2>4
<1>6. ASSUME NEW q \in Requests, AcquireLock(q) PROVE Turns'
  BY <1>6, <1>1 DEF AcquireLock
<1>7. ASSUME NEW q \in Requests, CheckPending(q) PROVE Turns'
  <2>1. q # Start /\ (lock # <<>> => Head(lock) = q)
    BY <1>7 DEF CheckPending
  <2>2. CASE Answer(q, "conflict")
    <3>1. UNCHANGED <<known, sent>>
      BY <1>7 DEF CheckPending
    <3>2. QED
      BY <1>7, <2>2, <3>1, <1>2 DEF CheckPending, Outcomes
  <2>3. CASE pc' = [pc EXCEPT ![q] = "resume"] /\ UNCHANGED <<answer, lock>>
    BY <1>7, <2>1, <2>3, <1>1 DEF CheckPending
  <2>4. QED
    BY <1>7, <2>2, <2>3 DEF CheckPending
<1>8. ASSUME NEW q \in Requests, Respond(q) PROVE Turns'
  <2>1. Answer(q, "ok") /\ UNCHANGED <<known, sent>>
    BY <1>8 DEF Respond
  <2>2. QED
    BY <1>8, <2>1, <1>2 DEF Respond, Outcomes
<1>9. ASSUME NEW q \in Requests, ModelFails(q) PROVE Turns'
  <2>1. Answer(q, "error") /\ UNCHANGED sent /\ (known => known' \/ q = Start)
    BY <1>9 DEF ModelFails
  <2>2. QED
    BY <1>9, <2>1, <1>2 DEF ModelFails, Outcomes
<1>10. ASSUME NEW q \in Requests, ResumeApproval(q) PROVE Turns'
  <2>1. q # Start /\ (lock # <<>> => Head(lock) = q)
    BY <1>10 DEF ResumeApproval
  <2>2. PICK step \in {"graph", "respond"} : pc' = [pc EXCEPT ![q] = step]
    BY <1>10 DEF ResumeApproval
  <2>3. QED
    BY <1>10, <2>1, <2>2, <1>1 DEF ResumeApproval
<1>11. ASSUME NEW q \in Requests, Active(q), pc[q] = "graph", UNCHANGED <<known, answer, sent, lock>>,
              pc' = pc \/ pc' = [pc EXCEPT ![q] = "graph"] \/ pc' = [pc EXCEPT ![q] = "respond"]
       PROVE  Turns'
  <2>1. lock # <<>> => Head(lock) = q
    BY <1>11
  <2>2. CASE pc' = pc
    BY <1>11, <2>2
  <2>3. CASE pc' # pc
    BY <1>11, <2>1, <2>3, <1>1
  <2>4. QED
    BY <2>2, <2>3
<1>12. ASSUME NEW q \in Requests, AnalyseIssue(q) \/ ExploreRepository(q) \/ AskHuman(q)
                 \/ \E ready \in BOOLEAN : PlanImplementation(q, ready)
       PROVE  Turns'
  BY <1>12, <1>11 DEF AnalyseIssue, ExploreRepository, AskHuman, PlanImplementation, Runs
<1>13. ASSUME ExportHandoff \/ UNCHANGED vars PROVE Turns'
  BY <1>13 DEF ExportHandoff, vars
<1>14. QED
  BY <1>3, <1>4, <1>5, <1>6, <1>7, <1>8, <1>9, <1>10, <1>12, <1>13 DEF Next, Serve

\* Whoever moves the checkpoint is alone inside the run.
LEMMA StandingKept ==
  ASSUME TypeOK, Turns, Standing, [Next]_vars
  PROVE  Standing'
<1> USE PlannerAssumption DEF Goto, Requests, Standing
<1>1. ASSUME NEW q \in Requests, pc[q] = "graph", UNCHANGED answer,
             NEW step \in {"graph", "respond"}, pc' = [pc EXCEPT ![q] = step],
             step = "respond" => next' \in {"END", "plan_approval"},
             next' # "issue_analyst",
             next' = "repository_explorer" => next = "issue_analyst" /\ step = "graph"
      PROVE  Standing'
  <2>1. pc'[q] = step /\ \A r \in Requests : r # q => pc'[r] = pc[r]
    BY <1>1 DEF TypeOK
  <2>2. \A r \in Requests : r # q => ~ Active(r)
    BY <1>1, OneAtATime DEF Active
  <2>3. pc[Start] # "unsent"
    BY <1>1 DEF Turns
  <2>4. QED
    BY <1>1, <2>1, <2>2, <2>3 DEF Active
<1>2. ASSUME NEW q \in Requests, Active(q), NEW outcome \in Outcomes, Answer(q, outcome),
             UNCHANGED next, q = Start /\ outcome = "ok" => pc[q] = "respond"
      PROVE  Standing'
  <2>1. /\ pc'[q] = "answered" /\ answer'[q] = outcome
        /\ \A r \in Requests : r # q => pc'[r] = pc[r] /\ answer'[r] = answer[r]
    BY <1>2 DEF Answer, TypeOK
  <2>2. pc[Start] # "unsent"
    BY <1>2 DEF Turns, Active
  <2>3. QED
    BY <1>2, <2>1, <2>2
<1>3. ASSUME StartRun PROVE Standing'
  BY <1>3 DEF StartRun, checkpoint, TypeOK, Turns
<1>4. ASSUME StopServer PROVE Standing'
  BY <1>4 DEF StopServer, checkpoint, TypeOK
<1>5. ASSUME NEW q \in Decisions, Send(q) PROVE Standing'
  <2>1. PICK action \in Actions, withFeedback \in BOOLEAN : SendDecision(q, action, withFeedback)
    BY <1>5 DEF Send
  <2>2. /\ \A r \in Requests : r # q => pc'[r] = pc[r] /\ answer'[r] = answer[r]
        /\ \/ pc'[q] = "lock" /\ answer'[q] = None
           \/ pc'[q] = "answered"
        /\ UNCHANGED <<next, known>>
    <3>1. CASE known
      BY <2>1, <3>1 DEF SendDecision, checkpoint, TypeOK
    <3>2. CASE ~ known
      BY <2>1, <3>2 DEF SendDecision, Answer, checkpoint, TypeOK
    <3>3. QED
      BY <3>1, <3>2
  <2>3. QED
    BY <2>2
<1>6. ASSUME NEW q \in Requests, AcquireLock(q) PROVE Standing'
  BY <1>6 DEF AcquireLock, checkpoint, TypeOK, Turns
<1>7. ASSUME NEW q \in Requests, CheckPending(q) PROVE Standing'
  <2>1. UNCHANGED <<next, known>> /\ q # Start /\ pc[q] = "check"
    BY <1>7 DEF CheckPending, checkpoint, Turns
  <2>2. CASE Answer(q, "conflict")
    BY <1>7, <2>1, <2>2, <1>2 DEF CheckPending, Outcomes, Active
  <2>3. CASE next = "plan_approval" /\ pc' = [pc EXCEPT ![q] = "resume"] /\ UNCHANGED answer
    <3>1. pc'[q] = "resume" /\ \A r \in Requests : r # q => pc'[r] = pc[r]
      BY <2>3 DEF TypeOK
    <3>2. QED
      BY <2>1, <2>3, <3>1
  <2>4. QED
    BY <1>7, <2>2, <2>3 DEF CheckPending
<1>8. ASSUME NEW q \in Requests, Respond(q) PROVE Standing'
  BY <1>8, <1>2 DEF Respond, checkpoint, Outcomes, Active
<1>9. ASSUME NEW q \in Requests, ModelFails(q) PROVE Standing'
  BY <1>9, <1>2 DEF ModelFails, checkpoint, Outcomes, Active
<1>10. ASSUME NEW q \in Requests, AnalyseIssue(q) PROVE Standing'
  BY <1>10, <1>1 DEF AnalyseIssue, Runs
<1>11. ASSUME NEW q \in Requests, ExploreRepository(q) PROVE Standing'
  <2>1. pc' = [pc EXCEPT ![q] = "graph"]
    BY <1>11 DEF ExploreRepository, Runs, TypeOK
  <2>2. QED
    BY <1>11, <2>1, <1>1 DEF ExploreRepository, Runs
<1>12. ASSUME NEW q \in Requests, NEW ready \in BOOLEAN, PlanImplementation(q, ready) PROVE Standing'
  BY <1>12, <1>1 DEF PlanImplementation, Runs
<1>13. ASSUME NEW q \in Requests, AskHuman(q) PROVE Standing'
  BY <1>13, <1>1 DEF AskHuman, Runs
<1>14. ASSUME NEW q \in Requests, ResumeApproval(q) PROVE Standing'
  <2>1. PICK step \in {"graph", "respond"} :
            /\ pc' = [pc EXCEPT ![q] = step] /\ UNCHANGED answer
            /\ \/ next' = "END"
               \/ next' = "implementation_planner" /\ step = "graph"
    BY <1>14 DEF ResumeApproval
  <2>2. pc'[q] = step /\ \A r \in Requests : r # q => pc'[r] = pc[r]
    BY <2>1 DEF TypeOK
  <2>3. \A r \in Requests : r # q => ~ Active(r)
    BY <1>14, OneAtATime DEF Active, ResumeApproval
  <2>4. q # Start /\ pc[Start] # "unsent" /\ pc[q] = "resume"
    BY <1>14 DEF ResumeApproval, Turns
  <2>5. QED
    BY <2>1, <2>2, <2>3, <2>4 DEF Active
<1>15. ASSUME ExportHandoff \/ UNCHANGED vars PROVE Standing'
  BY <1>15 DEF ExportHandoff, vars, checkpoint
<1>16. QED
  BY <1>3, <1>4, <1>5, <1>6, <1>7, <1>8, <1>9, <1>10, <1>11, <1>12, <1>13, <1>14, <1>15
     DEF Next, Serve

\* What TypeOK says of the decisions taken.
LEMMA AppliedRange ==
  ASSUME TypeOK
  PROVE  /\ Len(applied) \in Nat /\ DOMAIN applied = 1 .. Len(applied)
         /\ \A i \in DOMAIN applied :
                applied[i].request \in Decisions /\ applied[i].version \in Nat
<1> DEFINE Records == [request : Decisions, action : Actions, version : Nat]
<1>1. applied \in Seq(Records)
  BY DEF TypeOK
<1>2. \A r \in Records : r.request \in Decisions /\ r.version \in Nat
  OBVIOUS
<1> HIDE DEF Records
<1>3. QED
  BY <1>1, <1>2, LenProperties, ElementOfSeq

\* The decisions grow by the one that the approval node takes.
LEMMA Taking ==
  ASSUME TypeOK, Turns, NEW q \in Requests, ResumeApproval(q)
  PROVE  /\ q \in Decisions /\ sent[q] \in Messages
         /\ Len(applied) \in Nat /\ Len(applied') = Len(applied) + 1
         /\ DOMAIN applied = 1 .. Len(applied) /\ DOMAIN applied' = 1 .. (Len(applied) + 1)
         /\ \A i \in 1 .. Len(applied) : applied'[i] = applied[i]
         /\ applied' # <<>> /\ LastApplied' = applied'[Len(applied) + 1]
         /\ LastApplied' = [request |-> q, action |-> sent[q].action,
                            version |-> plan.version]
<1> DEFINE new == [request |-> q, action |-> sent[q].action, version |-> plan.version]
           Records == [request : Decisions, action : Actions, version : Nat]
<1>1. q \in Decisions /\ sent[q] \in Messages
  BY PlannerAssumption DEF ResumeApproval, Turns, TypeOK, Requests
<1>2. new \in Records /\ applied \in Seq(Records)
  BY <1>1 DEF TypeOK, Messages
<1>3. applied' = Append(applied, new)
  BY DEF ResumeApproval
<1> HIDE DEF new, Records
<1>4. /\ applied' \in Seq(Records) /\ applied' # <<>>
      /\ Len(applied') = Len(applied) + 1
      /\ \A i \in 1 .. Len(applied) : applied'[i] = applied[i]
      /\ applied'[Len(applied) + 1] = new
  BY <1>2, <1>3, AppendProperties
<1>5. QED
  BY <1>1, <1>2, <1>4, LenProperties DEF LastApplied, new

\* A plan is made, decided, and made again from its decision.
LEMMA RoundsKept ==
  ASSUME TypeOK, Turns, Standing, Rounds, [Next]_vars
  PROVE  Rounds'
<1> USE PlannerAssumption DEF Rounds
<1>1. ASSUME UNCHANGED <<next, plan, applied, approval, feedback>> PROVE Rounds'
  BY <1>1 DEF LastApplied
<1>2. ASSUME NEW q \in Requests, AnalyseIssue(q) \/ ExploreRepository(q) PROVE Rounds'
  BY <1>2 DEF AnalyseIssue, ExploreRepository, Runs, LastApplied
<1>3. ASSUME NEW q \in Requests, NEW ready \in BOOLEAN, PlanImplementation(q, ready) PROVE Rounds'
  <2>1. /\ plan'.version = plan.version + 1 /\ plan.version \in Nat
        /\ next = "implementation_planner" /\ next' \in {"END", "plan_approval"}
        /\ UNCHANGED <<applied, approval>>
    BY <1>3 DEF PlanImplementation, Runs, TypeOK
  <2>2. \A i \in DOMAIN applied : applied[i].version \in Nat
    BY AppliedRange
  <2>3. \A i \in DOMAIN applied : applied[i].version <= plan.version + 1
    BY <2>1, <2>2
  <2>4. approval # "approve"
    BY <2>1
  <2>5. QED
    BY <2>1, <2>3, <2>4 DEF LastApplied
<1>4. ASSUME NEW q \in Requests, ResumeApproval(q) PROVE Rounds'
  <2>1. next = "plan_approval" /\ plan.version > 0 /\ plan.version \in Nat
    BY <1>4 DEF ResumeApproval, Standing, TypeOK
  <2>2. /\ plan' = plan /\ approval' = sent[q].action
        /\ feedback' = FeedbackAfter(q)
        /\ \/ sent[q].action \in {"approve", "cancel"} /\ next' = "END"
           \/ sent[q].action = "request_changes" /\ next' = "implementation_planner"
    BY <1>4 DEF ResumeApproval
  <2>3. sent[q].action = "request_changes" => feedback' = q
    BY <1>4, <2>2, Taking DEF Turns, FeedbackAfter, ResumeApproval
  <2>4. /\ applied' # <<>> /\ LastApplied'.request = q
        /\ LastApplied'.action = sent[q].action /\ LastApplied'.version = plan.version
    <3>1. applied' # <<>> /\ LastApplied' = [request |-> q, action |-> sent[q].action,
                                             version |-> plan.version]
      BY <1>4, Taking
    <3>2. QED
      BY <3>1
  <2>5. \A i \in DOMAIN applied' : applied'[i].version <= plan.version
    <3>1. /\ DOMAIN applied = 1 .. Len(applied) /\ Len(applied) \in Nat
          /\ DOMAIN applied' = 1 .. (Len(applied) + 1)
          /\ \A i \in 1 .. Len(applied) : applied'[i] = applied[i]
          /\ LastApplied' = applied'[Len(applied) + 1]
      BY <1>4, Taking
    <3>2. QED
      BY <2>1, <2>4, <3>1
  <2>6. QED
    BY <2>1, <2>2, <2>3, <2>4, <2>5
<1>5. ASSUME NEW q \in Requests, AcquireLock(q) \/ CheckPending(q) \/ Respond(q) \/ AskHuman(q)
                \/ ModelFails(q)
      PROVE  UNCHANGED <<next, plan, applied, approval, feedback>>
  BY <1>5 DEF AcquireLock, CheckPending, Respond, AskHuman, ModelFails, checkpoint
<1>6. ASSUME StartRun \/ ExportHandoff \/ StopServer \/ UNCHANGED vars
      PROVE  UNCHANGED <<next, plan, applied, approval, feedback>>
  BY <1>6 DEF StartRun, ExportHandoff, StopServer, vars, checkpoint
<1>7. ASSUME NEW q \in Decisions, Send(q)
      PROVE  UNCHANGED <<next, plan, applied, approval, feedback>>
  BY <1>7 DEF Send, SendDecision, checkpoint
<1>8. QED
  BY <1>1, <1>2, <1>3, <1>4, <1>5, <1>6, <1>7 DEF Next, Serve

\* A step that takes nobody out of the graph keeps the run moved.
LEMMA MovedKept ==
  ASSUME TypeOK, Turns, Standing, Rounds, Moved, [Next]_vars
  PROVE  Moved'
<1> USE PlannerAssumption DEF Moved, Goto, Requests
<1>1. ASSUME UNCHANGED <<next, plan, interrupted, failures>>, known' => known,
             \A r \in Requests : pc[r] = "graph" => pc'[r] = "graph"
      PROVE  Moved'
  BY <1>1
<1>2. ASSUME StartRun PROVE Moved'
  BY <1>2 DEF StartRun, checkpoint, Standing, TypeOK
<1>3. ASSUME StopServer PROVE Moved'
  BY <1>3 DEF StopServer
<1>4. ASSUME NEW q \in Decisions, Send(q) PROVE Moved'
  <2>1. PICK action \in Actions, withFeedback \in BOOLEAN : SendDecision(q, action, withFeedback)
    BY <1>4 DEF Send
  <2>2. pc[q] # "graph"
    BY <2>1 DEF SendDecision, Standing, Outcomes
  <2>3. \A r \in Requests : r # q => pc'[r] = pc[r]
    <3>1. CASE known
      BY <2>1, <3>1 DEF SendDecision, TypeOK
    <3>2. CASE ~ known
      BY <2>1, <3>2 DEF SendDecision, Answer, TypeOK
    <3>3. QED
      BY <3>1, <3>2
  <2>4. UNCHANGED <<next, plan, interrupted, failures>> /\ (known' => known)
    BY <2>1 DEF SendDecision, checkpoint
  <2>5. QED
    BY <2>2, <2>3, <2>4, <1>1
<1>5. ASSUME NEW q \in Requests, AcquireLock(q) PROVE Moved'
  BY <1>5, <1>1 DEF AcquireLock, checkpoint, TypeOK
<1>6. ASSUME NEW q \in Requests, CheckPending(q) PROVE Moved'
  <2>1. pc[q] # "graph" /\ \A r \in Requests : r # q => pc'[r] = pc[r]
    BY <1>6 DEF CheckPending, Answer, TypeOK
  <2>2. UNCHANGED <<next, plan, interrupted, failures>> /\ (known' => known)
    BY <1>6 DEF CheckPending, checkpoint
  <2>3. QED
    BY <2>1, <2>2, <1>1
<1>7. ASSUME NEW q \in Requests, Respond(q) PROVE Moved'
  BY <1>7, <1>1 DEF Respond, Answer, checkpoint, TypeOK
<1>8. ASSUME NEW q \in Requests, ModelFails(q) PROVE Moved'
  <2>1. /\ (known' => known /\ q # Start)
        /\ UNCHANGED <<next, plan>> /\ next # "plan_approval"
    BY <1>8 DEF ModelFails, checkpoint
  <2>2. failures' > 0
    BY <1>8 DEF ModelFails, TypeOK
  <2>3. \A r \in Requests : r # q => pc'[r] = pc[r]
    BY <1>8 DEF ModelFails, Answer, TypeOK
  <2>4. QED
    BY <2>1, <2>2, <2>3
<1>9. ASSUME NEW q \in Requests, AnalyseIssue(q) PROVE Moved'
  <2>1. /\ pc[q] = "graph" /\ next = "issue_analyst" /\ UNCHANGED <<known, plan>>
        /\ \/ next' = "END"
           \/ next' = "repository_explorer" /\ pc' = [pc EXCEPT ![q] = "graph"]
    BY <1>9 DEF AnalyseIssue, Runs
  <2>2. pc' = [pc EXCEPT ![q] = "graph"] => pc' = pc
    BY <2>1 DEF TypeOK
  <2>3. known => pc[Start] = "graph"
    BY <2>1 DEF Rounds
  <2>4. QED
    BY <2>1, <2>2, <2>3
<1>10. ASSUME NEW q \in Requests, ExploreRepository(q) PROVE Moved'
  <2>1. /\ pc[q] = "graph" /\ next = "repository_explorer" /\ UNCHANGED <<known, plan, pc>>
        /\ next' = "implementation_planner"
    BY <1>10 DEF ExploreRepository, Runs
  <2>2. QED
    BY <2>1
<1>11. ASSUME NEW q \in Requests, NEW ready \in BOOLEAN, PlanImplementation(q, ready) PROVE Moved'
  <2>1. \/ next' = "END"
        \/ next' = "plan_approval" /\ pc' = [pc EXCEPT ![q] = "graph"]
    BY <1>11 DEF PlanImplementation
  <2>2. pc' = [pc EXCEPT ![q] = "graph"] => pc'[q] = "graph"
    BY DEF TypeOK
  <2>3. QED
    BY <2>1, <2>2
<1>12. ASSUME NEW q \in Requests, AskHuman(q) PROVE Moved'
  BY <1>12 DEF AskHuman, Runs
<1>13. ASSUME NEW q \in Requests, ResumeApproval(q) PROVE Moved'
  <2>1. /\ \/ next' = "END"
           \/ next' = "implementation_planner" /\ pc' = [pc EXCEPT ![q] = "graph"]
        /\ plan' = plan
    BY <1>13 DEF ResumeApproval
  <2>2. pc' = [pc EXCEPT ![q] = "graph"] => pc'[q] = "graph"
    BY DEF TypeOK
  <2>3. plan.version > 0 /\ plan.version \in Nat
    BY <1>13 DEF ResumeApproval, Standing, Rounds, TypeOK
  <2>4. QED
    BY <2>1, <2>2, <2>3
<1>14. ASSUME ExportHandoff \/ UNCHANGED vars PROVE Moved'
  BY <1>14, <1>1 DEF ExportHandoff, vars, checkpoint
<1>15. QED
  BY <1>2, <1>3, <1>4, <1>5, <1>6, <1>7, <1>8, <1>9, <1>10, <1>11, <1>12, <1>13, <1>14
     DEF Next, Serve

\* A waiting decision's plan is still pending, or was decided before.
LEMMA ShownKept ==
  ASSUME TypeOK, Turns, Standing, Rounds, Moved, Shown, [Next]_vars
  PROVE  Shown'
<1> USE PlannerAssumption DEF Shown, Goto, Requests
<1>1. \A i \in DOMAIN applied : applied[i].request \in Decisions
  BY AppliedRange
<1>2. ASSUME NEW q \in Requests, UNCHANGED <<plan, applied, sent>>,
             next' # "END" => next # "END",
             \A r \in Requests : r # q => pc'[r] = pc[r] /\ answer'[r] = answer[r],
             \/ /\ pc[q] = "lock" /\ pc'[q] = "check"
             \/ /\ pc[q] = "check" /\ pc'[q] \in {"resume", "answered"}
             \/ /\ pc[q] \in {"graph", "respond"} /\ pc'[q] \in {"graph", "respond", "answered"}
                /\ answer'[q] # "conflict"
      PROVE  Shown'
  BY <1>1, <1>2 DEF Decided
<1>3. \A q \in Requests : pc[q] # "answered" => answer[q] # "conflict"
  BY DEF Standing, Outcomes
<1>4. ASSUME StartRun PROVE Shown'
  BY <1>4, <1>1 DEF StartRun, checkpoint, TypeOK, Decided
<1>5. ASSUME StopServer PROVE Shown'
  <2>1. \A r \in Decisions : pc'[r] \in {"unsent", "answered"}
    BY <1>5 DEF StopServer
  <2>2. \A r \in Decisions : pc[r] # "unsent" /\ answer[r] # "conflict" =>
            pc'[r] = "answered" /\ answer'[r] # "conflict"
    BY <1>5 DEF StopServer
  <2>3. applied' = applied
    BY <1>5 DEF StopServer
  <2>4. QED
    BY <2>1, <2>2, <2>3, <1>1
<1>6. ASSUME NEW q \in Decisions, Send(q) PROVE Shown'
  <2>1. PICK action \in Actions, withFeedback \in BOOLEAN : SendDecision(q, action, withFeedback)
    BY <1>6 DEF Send
  <2>2. /\ \A r \in Requests : r # q => pc'[r] = pc[r] /\ answer'[r] = answer[r]
        /\ pc'[q] \in {"lock", "answered"}
    <3>1. CASE known
      BY <2>1, <3>1 DEF SendDecision, TypeOK
    <3>2. CASE ~ known
      BY <2>1, <3>2 DEF SendDecision, Answer, TypeOK
    <3>3. QED
      BY <3>1, <3>2
  <2>3. sent'[q].seen = plan.version /\ \A r \in Decisions : r # q => sent'[r] = sent[r]
    BY <2>1 DEF SendDecision, TypeOK
  <2>4. UNCHANGED <<next, plan, applied>> /\ (pc[q] = "unsent" \/ answer[q] = "conflict")
    BY <2>1 DEF SendDecision, checkpoint
  <2>5. QED
    BY <2>2, <2>3, <2>4, <1>1 DEF Decided
<1>7. ASSUME NEW q \in Requests, AcquireLock(q) PROVE Shown'
  BY <1>7, <1>2 DEF AcquireLock, checkpoint, TypeOK
<1>8. ASSUME NEW q \in Requests, CheckPending(q) PROVE Shown'
  <2>1. /\ UNCHANGED <<next, plan, applied, sent>> /\ pc[q] = "check"
        /\ pc'[q] \in {"resume", "answered"}
        /\ \A r \in Requests : r # q => pc'[r] = pc[r] /\ answer'[r] = answer[r]
    BY <1>8 DEF CheckPending, Answer, checkpoint, TypeOK
  <2>2. QED
    BY <2>1, <1>2
<1>9. ASSUME NEW q \in Requests, Respond(q) \/ ModelFails(q) PROVE Shown'
  <2>1. /\ UNCHANGED <<next, plan, applied, sent>> /\ pc[q] \in {"graph", "respond"}
        /\ pc'[q] = "answered" /\ answer'[q] # "conflict"
        /\ \A r \in Requests : r # q => pc'[r] = pc[r] /\ answer'[r] = answer[r]
    BY <1>9 DEF Respond, ModelFails, Answer, checkpoint, TypeOK
  <2>2. QED
    BY <2>1, <1>2
<1>10. ASSUME NEW q \in Requests, AnalyseIssue(q) \/ ExploreRepository(q) \/ AskHuman(q) PROVE Shown'
  <2>1. /\ UNCHANGED <<plan, applied, sent, answer>> /\ pc[q] = "graph"
        /\ pc'[q] \in {"graph", "respond"} /\ next # "END"
        /\ \A r \in Requests : r # q => pc'[r] = pc[r]
    BY <1>10 DEF AnalyseIssue, ExploreRepository, AskHuman, Runs, TypeOK
  <2>2. QED
    BY <2>1, <1>2, <1>3
<1>11. ASSUME NEW q \in Requests, NEW ready \in BOOLEAN, PlanImplementation(q, ready) PROVE Shown'
  <2>1. /\ UNCHANGED <<applied, sent, answer>> /\ pc[q] = "graph"
        /\ pc'[q] \in {"graph", "respond"} /\ next = "implementation_planner"
        /\ \A r \in Requests : r # q => pc'[r] = pc[r]
    BY <1>11 DEF PlanImplementation, Runs, TypeOK
  <2>2. ASSUME NEW r \in Decisions, pc[r] \in {"lock", "check", "resume"}
        PROVE  Decided(sent[r].seen)
    <3>1. lock # <<>>
      BY <2>2, LenProperties DEF Turns, Active, Queued, TypeOK
    <3>2. known /\ pc[Start] # "graph"
      BY <3>1, <2>2 DEF Turns
    <3>3. plan.version > 0 /\ applied # <<>> /\ LastApplied.version = plan.version
      BY <2>1, <3>2 DEF Moved, Rounds, TypeOK
    <3>4. Len(applied) \in DOMAIN applied
      BY <3>3, AppliedRange, EmptySeq DEF TypeOK
    <3>5. Decided(plan.version)
      BY <3>3, <3>4 DEF Decided, LastApplied
    <3>6. QED
      BY <2>1, <2>2, <3>5
  <2>3. QED
    BY <2>1, <2>2, <1>1, <1>3 DEF Decided
<1>12. ASSUME NEW q \in Requests, ResumeApproval(q) PROVE Shown'
  <2>1. /\ UNCHANGED <<plan, sent, answer>> /\ pc[q] = "resume" /\ pc'[q] \in {"graph", "respond"}
        /\ \A r \in Requests : r # q => pc'[r] = pc[r]
        /\ next = "plan_approval"
    BY <1>12 DEF ResumeApproval, Standing, TypeOK
  <2>2. \A version : Decided(version) => Decided(version)'
    BY <1>12, Taking DEF Decided
  <2>3. \A i \in DOMAIN applied' :
            \/ applied'[i].request = q
            \/ i \in DOMAIN applied /\ applied'[i] = applied[i]
    <3>1. /\ Len(applied) \in Nat /\ DOMAIN applied = 1 .. Len(applied)
          /\ DOMAIN applied' = 1 .. (Len(applied) + 1)
          /\ \A i \in 1 .. Len(applied) : applied'[i] = applied[i]
      BY <1>12, Taking
    <3>2. applied'[Len(applied) + 1].request = q
      <4>1. applied'[Len(applied) + 1] = [request |-> q, action |-> sent[q].action,
                                         version |-> plan.version]
        BY <1>12, Taking
      <4>2. QED
        BY <4>1
    <3>3. TAKE i \in DOMAIN applied'
    <3>4. CASE i = Len(applied) + 1
      BY <3>2, <3>4
    <3>5. CASE i \in 1 .. Len(applied)
      BY <3>1, <3>5
    <3>6. QED
      BY <3>1, <3>4, <3>5
  <2>4. QED
    BY <2>1, <2>2, <2>3, <1>1, <1>3
<1>13. ASSUME ExportHandoff \/ UNCHANGED vars PROVE Shown'
  BY <1>13 DEF ExportHandoff, vars, checkpoint, Decided
<1>14. QED
  BY <1>4, <1>5, <1>6, <1>7, <1>8, <1>9, <1>10, <1>11, <1>12, <1>13 DEF Next, Serve

-----------------------------------------------------------------------------
(* The properties                                                           *)

\* A sender's words change only before they are taken.
LEMMA MeantKept ==
  ASSUME TypeOK, Turns, Standing, Shown, DecisionMeant, [Next]_vars
  PROVE  DecisionMeant'
<1> USE PlannerAssumption DEF Requests
<1>1. ASSUME UNCHANGED applied,
             \A i \in DOMAIN applied :
                 sent'[applied[i].request].seen = sent[applied[i].request].seen
      PROVE  DecisionMeant'
  BY <1>1 DEF DecisionMeant
<1>2. ASSUME NEW q \in Decisions, Send(q) PROVE DecisionMeant'
  <2>1. PICK action \in Actions, withFeedback \in BOOLEAN : SendDecision(q, action, withFeedback)
    BY <1>2 DEF Send
  <2>2. UNCHANGED applied /\ (pc[q] = "unsent" \/ answer[q] = "conflict")
        /\ \A r \in Decisions : r # q => sent'[r] = sent[r]
    BY <2>1 DEF SendDecision, TypeOK
  <2>3. \A i \in DOMAIN applied : applied[i].request # q /\ applied[i].request \in Decisions
    BY <2>2, AppliedRange DEF Shown
  <2>4. QED
    BY <2>2, <2>3, <1>1
<1>3. ASSUME NEW q \in Requests, ResumeApproval(q) PROVE DecisionMeant'
  <2> DEFINE n == Len(applied) + 1
  <2>1. /\ q \in Decisions /\ Len(applied) \in Nat
        /\ DOMAIN applied = 1 .. Len(applied) /\ DOMAIN applied' = 1 .. n
        /\ \A i \in 1 .. Len(applied) : applied'[i] = applied[i]
        /\ sent' = sent
    BY <1>3, Taking DEF ResumeApproval
  <2>2. applied'[n].request = q /\ applied'[n].version = plan.version
    <3>1. applied'[n] = [request |-> q, action |-> sent[q].action, version |-> plan.version]
      BY <1>3, Taking
    <3>2. QED
      BY <3>1
  <2>3. sent[q].seen = plan.version \/ Decided(sent[q].seen)
    BY <1>3, <2>1 DEF ResumeApproval, Standing, Shown
  <2>4. SUFFICES ASSUME NEW i \in 1 .. n,
                        applied'[i].version # sent[applied'[i].request].seen
                 PROVE  \E j \in 1 .. i - 1 :
                            applied'[j].version = sent[applied'[i].request].seen
    BY <2>1 DEF DecisionMeant
  <2>5. CASE i = n
    BY <2>1, <2>2, <2>3, <2>4, <2>5 DEF Decided
  <2>6. CASE i \in 1 .. Len(applied)
    <3>1. PICK j \in 1 .. i - 1 : applied[j].version = sent[applied[i].request].seen
      BY <2>1, <2>4, <2>6 DEF DecisionMeant
    <3>2. j \in 1 .. Len(applied)
      BY <2>1, <2>6
    <3>3. QED
      BY <2>1, <2>6, <3>1, <3>2
  <2>7. QED
    BY <2>1, <2>5, <2>6
<1>4. ASSUME NEW q \in Requests, Serve(q), ~ ResumeApproval(q) PROVE UNCHANGED <<applied, sent>>
  BY <1>4 DEF Serve, AcquireLock, CheckPending, Respond, AnalyseIssue, ExploreRepository,
              PlanImplementation, AskHuman, ModelFails
<1>5. ASSUME StartRun \/ ExportHandoff \/ StopServer \/ UNCHANGED vars
      PROVE  UNCHANGED <<applied, sent>>
  BY <1>5 DEF StartRun, ExportHandoff, StopServer, vars
<1>6. QED
  BY <1>1, <1>2, <1>3, <1>4, <1>5 DEF Next

\* The planner runs again only after a decision that asks for it.
LEMMA RevisionKept ==
  ASSUME TypeOK, Turns, Standing, Rounds, RevisionUsesItsFeedback, [Next]_vars
  PROVE  RevisionUsesItsFeedback'
<1> USE DEF RevisionUsesItsFeedback
<1>1. ASSUME NEW q \in Requests, NEW ready \in BOOLEAN, PlanImplementation(q, ready)
      PROVE  RevisionUsesItsFeedback'
  <2>1. /\ next = "implementation_planner" /\ applied' = applied
        /\ plan'.version = plan.version + 1 /\ plan'.previous = plan.version
        /\ plan'.feedback = feedback /\ plan.version \in Nat
    BY <1>1 DEF PlanImplementation, Runs, TypeOK
  <2>2. SUFFICES ASSUME plan.version > 0 PROVE RevisionUsesItsFeedback'
    BY <2>1
  <2>3. /\ applied # <<>> /\ LastApplied.version = plan.version
        /\ LastApplied.request = feedback /\ LastApplied.action = "request_changes"
    BY <2>1, <2>2 DEF Rounds
  <2>4. Len(applied) \in DOMAIN applied
    BY <2>3, AppliedRange, EmptySeq DEF TypeOK
  <2>5. QED
    BY <2>1, <2>3, <2>4 DEF LastApplied
<1>2. ASSUME NEW q \in Requests, ResumeApproval(q) PROVE RevisionUsesItsFeedback'
  <2>1. plan' = plan
    BY <1>2 DEF ResumeApproval
  <2>2. \A i \in DOMAIN applied : i \in DOMAIN applied' /\ applied'[i] = applied[i]
    BY <1>2, Taking
  <2>3. QED
    BY <2>1, <2>2
<1>3. ASSUME NEW q \in Requests, Serve(q), ~ ResumeApproval(q),
             \A ready \in BOOLEAN : ~ PlanImplementation(q, ready)
      PROVE  UNCHANGED <<plan, applied>>
  BY <1>3 DEF Serve, AcquireLock, CheckPending, Respond, AnalyseIssue, ExploreRepository,
              AskHuman, ModelFails, checkpoint
<1>4. ASSUME StartRun \/ ExportHandoff \/ StopServer \/ UNCHANGED vars
      PROVE  UNCHANGED <<plan, applied>>
  BY <1>4 DEF StartRun, ExportHandoff, StopServer, vars, checkpoint
<1>5. ASSUME NEW q \in Decisions, Send(q) PROVE UNCHANGED <<plan, applied>>
  BY <1>5 DEF Send, SendDecision, checkpoint
<1>6. QED
  BY <1>1, <1>2, <1>3, <1>4, <1>5 DEF Next

\* The invariant holds, each part by its lemma.
LEMMA PlannerInvariant == Spec => []PlInv
<1>1. Init => PlInv
  <2> SUFFICES ASSUME Init PROVE PlInv
    OBVIOUS
  <2> USE PlannerAssumption DEF Init, Requests
  <2>1. TypeOK
    <3>1. known \in BOOLEAN /\ interrupted \in BOOLEAN
      OBVIOUS
    <3>2. plan \in [version : Nat, ready : BOOLEAN, previous : Nat,
                    feedback : Decisions \cup {None}]
      OBVIOUS
    <3>3. lock \in Seq(Decisions)
          /\ applied \in Seq([request : Decisions, action : Actions, version : Nat])
      OBVIOUS
    <3>4. QED
      BY <3>1, <3>2, <3>3 DEF TypeOK
  <2>2. Turns /\ Standing
    BY DEF Turns, Standing, Active, Outcomes
  <2>3. Rounds
    BY DEF Rounds, Actions
  <2>4. Moved /\ Shown
    BY DEF Moved, Shown
  <2>5. DecisionMeant /\ RevisionUsesItsFeedback
    BY DEF DecisionMeant, RevisionUsesItsFeedback
  <2>6. QED
    BY <2>1, <2>2, <2>3, <2>4, <2>5 DEF PlInv
<1>2. PlInv /\ [Next]_vars => PlInv'
  BY TypesKept, TurnsKept, StandingKept, RoundsKept, MovedKept, ShownKept, MeantKept,
     RevisionKept DEF PlInv
<1>3. QED
  BY <1>1, <1>2, PTL DEF Spec

\* The state stays within its types.
THEOREM PlannerTypes == Spec => []TypeOK
  BY PlannerInvariant, PTL DEF PlInv

\* However many reviewers race, a decision reaches a plan its sender did not
\* see only after somebody decided the one it was shown.
THEOREM DecisionsMeanTheirPlan == Spec => []DecisionMeant
  BY PlannerInvariant, PTL DEF PlInv

\* A revised plan answers the feedback that rejected the plan before it.
THEOREM RevisionAnswersFeedback == Spec => []RevisionUsesItsFeedback
  BY PlannerInvariant, PTL DEF PlInv

\* A run at rest is over, awaits a decision, or was stranded by a model call
\* that failed in a revision.
THEOREM OnlyFailedRevisionStrands == Spec => []IdleRunIsAnswerable
<1>1. PlInv => IdleRunIsAnswerable
  <2> SUFFICES ASSUME PlInv, known, pc[Start] = "answered",
                      \A q \in Decisions : pc[q] \in {"unsent", "lock", "check", "answered"},
                      next # "END"
               PROVE  \/ next = "plan_approval" /\ interrupted
                      \/ /\ next = "implementation_planner" /\ failures > 0
                         /\ applied # <<>> /\ LastApplied.action = "request_changes"
    BY DEF IdleRunIsAnswerable
  <2>1. \A q \in Requests : pc[q] # "graph"
    BY DEF Requests
  <2>2. CASE next = "plan_approval"
    BY <2>1, <2>2 DEF PlInv, Moved
  <2>3. CASE next # "plan_approval"
    <3>1. plan.version > 0 /\ next = "implementation_planner"
      BY <2>1, <2>3 DEF PlInv, Moved, Rounds, TypeOK, Requests
    <3>2. QED
      BY <2>1, <3>1 DEF PlInv, Moved, Rounds
  <2>4. QED
    BY <2>2, <2>3
<1>2. QED
  BY <1>1, PlannerInvariant, PTL

-----------------------------------------------------------------------------
(* The refinement                                                           *)

Records == [request : Decisions, action : Actions, version : Nat]
Reviews == [plan : Nat, verdict : Actions]

\* Decisions as the reviewers see them.
Seen(r)    == [plan |-> r.version, verdict |-> r.action]
TakenOf(s) == [i \in DOMAIN s |-> Seen(s[i])]

Taken   == TakenOf(applied)
Pending == IF next = "plan_approval" THEN plan.version ELSE None
Handed  == {h.version : h \in exported}

\* They are a sequence like the one they are seen of ...
LEMMA TakenRange ==
  ASSUME NEW s \in Seq(Records)
  PROVE  /\ TakenOf(s) \in Seq(Reviews) /\ Len(TakenOf(s)) = Len(s)
         /\ \A i \in 1 .. Len(s) : TakenOf(s)[i] = Seen(s[i])
         /\ TakenOf(s) = <<>> <=> s = <<>>
         /\ s # <<>> => TakenOf(s)[Len(TakenOf(s))] = Seen(s[Len(s)])
<1>1. \A r \in Records : Seen(r) \in Reviews
  BY DEF Seen, Records, Reviews
<1>2. Len(s) \in Nat /\ DOMAIN s = 1 .. Len(s) /\ \A i \in 1 .. Len(s) : s[i] \in Records
  BY LenProperties, ElementOfSeq
<1>3. TakenOf(s) \in [1 .. Len(s) -> Reviews]
  BY <1>1, <1>2 DEF TakenOf
<1>4. TakenOf(s) \in Seq(Reviews)
  BY <1>2, <1>3, SeqDef
<1>5. Len(TakenOf(s)) = Len(s) /\ \A i \in 1 .. Len(s) : TakenOf(s)[i] = Seen(s[i])
  BY <1>2, <1>3, <1>4, LenProperties DEF TakenOf
<1>6. TakenOf(s) = <<>> <=> s = <<>>
  BY <1>4, <1>5, EmptySeq
<1>7. s # <<>> => Len(s) \in 1 .. Len(s)
  BY <1>2, EmptySeq
<1>8. QED
  BY <1>4, <1>5, <1>6, <1>7

\* ... and grow with it.
LEMMA TakenGrows ==
  ASSUME NEW s \in Seq(Records), NEW r \in Records
  PROVE  TakenOf(Append(s, r)) = Append(TakenOf(s), Seen(r))
<1> DEFINE n == Len(s)
           t == Append(s, r)
           u == Append(TakenOf(s), Seen(r))
<1>1. Seen(r) \in Reviews
  BY DEF Seen, Records, Reviews
<1>2. /\ t \in Seq(Records) /\ Len(t) = n + 1 /\ n \in Nat
      /\ \A i \in 1 .. n : t[i] = s[i]
      /\ t[n + 1] = r
  BY AppendProperties, LenProperties
<1>3. /\ TakenOf(s) \in Seq(Reviews) /\ Len(TakenOf(s)) = n
      /\ \A i \in 1 .. n : TakenOf(s)[i] = Seen(s[i])
  BY TakenRange
<1>4. /\ u \in Seq(Reviews) /\ Len(u) = n + 1
      /\ \A i \in 1 .. n : u[i] = TakenOf(s)[i]
      /\ u[n + 1] = Seen(r)
  BY <1>1, <1>3, AppendProperties
<1> HIDE DEF n, t, u
<1>5. /\ TakenOf(t) \in Seq(Reviews) /\ Len(TakenOf(t)) = n + 1
      /\ \A i \in 1 .. (n + 1) : TakenOf(t)[i] = Seen(t[i])
  BY <1>2, TakenRange
<1>6. \A i \in 1 .. (n + 1) : i \in 1 .. n \/ i = n + 1
  BY <1>2
<1>7. \A i \in 1 .. (n + 1) : TakenOf(t)[i] = u[i]
  BY <1>2, <1>3, <1>4, <1>5, <1>6
<1>8. TakenOf(t) = u
  BY <1>4, <1>5, <1>7, SeqEqual
<1>9. QED
  BY <1>8 DEF t, u

\* The last decision, seen so.
LEMMA LastTaken ==
  ASSUME TypeOK
  PROVE  /\ Taken = <<>> <=> applied = <<>>
         /\ applied # <<>> =>
                /\ Taken[Len(Taken)].plan = LastApplied.version
                /\ Taken[Len(Taken)].verdict = LastApplied.action
<1>1. applied \in Seq(Records)
  BY DEF TypeOK, Records
<1>2. applied # <<>> => Taken[Len(Taken)] = Seen(LastApplied)
  BY <1>1, TakenRange DEF Taken, LastApplied
<1>3. Seen(LastApplied).plan = LastApplied.version
      /\ Seen(LastApplied).verdict = LastApplied.action
  BY DEF Seen
<1>4. Taken = <<>> <=> applied = <<>>
  BY <1>1, TakenRange DEF Taken
<1>5. QED
  BY <1>2, <1>3, <1>4

\* A ready plan is proposed, a decision decided, an export hands out; no other
\* step of the server shows in the review.
THEOREM PlannerReviews == Spec => ImplementsReview
<1> USE PlannerAssumption DEF Requests
<1>1. Init => Review!Init
  BY DEF Init, Review!Init
<1>2. PlInv /\ [Next]_vars => [Review!Next]_(Review!vars)
  <2> SUFFICES ASSUME PlInv, [Next]_vars PROVE [Review!Next]_(Review!vars)
    OBVIOUS
  <2> USE DEF PlInv
  <2>0. ASSUME UNCHANGED <<Taken, Pending, Handed>> PROVE UNCHANGED Review!vars
    BY <2>0 DEF Review!vars, Taken, TakenOf, Seen, Pending, Handed
  <2>1. ASSUME UNCHANGED <<next, plan, applied, exported>> PROVE UNCHANGED Review!vars
    BY <2>0, <2>1 DEF Taken, Pending, Handed
  <2>2. ASSUME NEW q \in Requests, AnalyseIssue(q) \/ ExploreRepository(q)
        PROVE  UNCHANGED Review!vars
    BY <2>0, <2>2 DEF AnalyseIssue, ExploreRepository, Runs, Taken, Pending, Handed
  <2>3. ASSUME NEW q \in Requests, PlanImplementation(q, FALSE) PROVE UNCHANGED Review!vars
    BY <2>0, <2>3 DEF PlanImplementation, Runs, Taken, Pending, Handed
  <2>4. ASSUME NEW q \in Requests, PlanImplementation(q, TRUE) PROVE Review!Propose
    <3>1. /\ next = "implementation_planner" /\ next' = "plan_approval"
          /\ plan'.version = plan.version + 1 /\ plan.version \in Nat
          /\ UNCHANGED <<applied, exported>>
      BY <2>4 DEF PlanImplementation, Runs, TypeOK
    <3>2. Pending = None /\ Pending' = plan.version + 1 /\ Pending' \in Nat
          /\ Taken' = Taken /\ Handed' = Handed
      BY <3>1 DEF Pending, Taken, Handed
    <3>3. Taken = <<>> \/ Taken[Len(Taken)].verdict = "request_changes"
      BY <3>1, LastTaken DEF Rounds
    <3>4. \A i \in DOMAIN Taken : Taken[i].plan < plan.version + 1
      <4>1. \A i \in DOMAIN applied : applied[i].version \in Nat /\ applied[i].version <= plan.version
        BY AppliedRange DEF Rounds
      <4>2. QED
        BY <3>1, <4>1 DEF Taken, TakenOf, Seen
    <3>5. QED
      BY <3>2, <3>3, <3>4 DEF Review!Propose, Review!Open, Review!Last, Taken, TakenOf,
         Seen, Pending, Handed
  <2>5. ASSUME NEW q \in Requests, ResumeApproval(q) PROVE Review!Decide(sent[q].action)
    <3>1. /\ next = "plan_approval" /\ next' # "plan_approval" /\ exported' = exported
          /\ plan.version \in Nat
      BY <2>5 DEF ResumeApproval, Standing, TypeOK
    <3>2. Pending = plan.version /\ Pending # None /\ Pending' = None /\ Handed' = Handed
      BY <3>1 DEF Pending, Handed
    <3>3. Taken = <<>> \/ Taken[Len(Taken)].verdict = "request_changes"
      BY <3>1, LastTaken DEF Rounds
    <3>4. Taken' = Append(Taken, [plan |-> Pending, verdict |-> sent[q].action])
      <4> DEFINE new == [request |-> q, action |-> sent[q].action, version |-> plan.version]
      <4>1. new \in Records /\ applied \in Seq(Records)
        BY <2>5, <3>1, Taking DEF TypeOK, Messages, Records
      <4>2. applied' = Append(applied, new)
        BY <2>5 DEF ResumeApproval
      <4>3. Seen(new) = [plan |-> Pending, verdict |-> sent[q].action]
        BY <3>2 DEF Seen
      <4> HIDE DEF new
      <4>4. QED
        BY <4>1, <4>2, <4>3, TakenGrows DEF Taken
    <3>5. QED
      BY <3>2, <3>3, <3>4 DEF Review!Decide, Review!Open, Review!Last, Taken, TakenOf,
         Seen, Pending, Handed
  <2>6. ASSUME NEW q \in Requests, ResumeApproval(q) PROVE sent[q].action \in Review!Verdicts
    BY <2>6, Taking DEF Review!Verdicts, Messages, Actions
  <2>7. ASSUME ExportHandoff PROVE Review!HandOut
    <3>1. /\ approval = "approve" /\ exported' = exported \cup {plan}
          /\ UNCHANGED <<next, plan, applied>>
      BY <2>7 DEF ExportHandoff, checkpoint
    <3>2. Taken # <<>> /\ Taken[Len(Taken)].verdict = "approve"
          /\ Taken[Len(Taken)].plan = plan.version
      BY <3>1, LastTaken DEF Rounds
    <3>3. Handed' = Handed \cup {plan.version} /\ Taken' = Taken /\ Pending' = Pending
      BY <3>1 DEF Handed, Taken, Pending
    <3>4. QED
      BY <3>2, <3>3 DEF Review!HandOut, Review!Last, Taken, TakenOf,
         Seen, Pending, Handed
  <2>8. ASSUME NEW q \in Requests, AcquireLock(q) \/ CheckPending(q) \/ Respond(q) \/ AskHuman(q)
                  \/ ModelFails(q)
        PROVE  UNCHANGED Review!vars
    BY <2>1, <2>8 DEF AcquireLock, CheckPending, Respond, AskHuman, ModelFails, checkpoint
  <2>9. ASSUME StartRun \/ StopServer \/ UNCHANGED vars PROVE UNCHANGED Review!vars
    BY <2>1, <2>9 DEF StartRun, StopServer, vars, checkpoint
  <2>10. ASSUME NEW q \in Decisions, Send(q) PROVE UNCHANGED Review!vars
    BY <2>1, <2>10 DEF Send, SendDecision, checkpoint
  <2>11. ASSUME NEW q \in Requests, NEW ready \in BOOLEAN, PlanImplementation(q, ready)
         PROVE  Review!Next \/ UNCHANGED Review!vars
    <3>1. CASE ready = TRUE
      BY <2>4, <2>11, <3>1 DEF Review!Next
    <3>2. CASE ready = FALSE
      BY <2>3, <2>11, <3>2
    <3>3. QED
      BY <3>1, <3>2
  <2>12. ASSUME NEW q \in Requests, Serve(q) PROVE Review!Next \/ UNCHANGED Review!vars
    <3>1. CASE ResumeApproval(q)
      <4>1. sent[q].action \in Review!Verdicts /\ Review!Decide(sent[q].action)
        BY <3>1, <2>5, <2>6
      <4>2. QED
        BY <4>1, Zenon DEF Review!Next, Review!Decide
    <3>2. CASE \E ready \in BOOLEAN : PlanImplementation(q, ready)
      BY <3>2, <2>11
    <3>3. CASE Serve(q) /\ ~ ResumeApproval(q)
               /\ ~ \E ready \in BOOLEAN : PlanImplementation(q, ready)
      BY <3>3, <2>2, <2>8 DEF Serve
    <3>4. QED
      BY <2>12, <3>1, <3>2, <3>3
  <2>13. QED
    BY <2>7, <2>9, <2>10, <2>12 DEF Next, Review!Next
<1>3. QED
  BY <1>1, <1>2, PlannerInvariant, PTL DEF Spec, ImplementsReview, Review!Spec

=============================================================================
