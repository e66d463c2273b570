------------------------- MODULE WorkerSupervisionProofs -------------------------
(***************************************************************************)
(* What the supervision of providers promises, for any number of workers,  *)
(* sessions, processes and failures: only clean ends are accepted, the     *)
(* event log is in order, a step starts after those it depends on, no      *)
(* process is lost sight of, and a restart finds the unfinished workers.   *)
(***************************************************************************)
EXTENDS WorkerSupervision, SequenceTheorems, TLAPS

-----------------------------------------------------------------------------
(* The invariant                                                            *)

Processes  == [worker : Workers, owner : Sessions \cup {None}, state : States]
Keys       == (0 .. NumWorkers) \X (0 .. NumWorkers)
ActiveMaps == UNION {[known -> Launches] : known \in SUBSET Workers}
Reads      == [result : WorkerResults, writer : Launches \cup {None}]

\* The process of worker w was accepted.
WasAccepted(w) == \E e \in events : e.type = "accepted" /\ process[e.launch].worker = w

\* The key under which the result a session has read is recorded.
Key(s) == <<read[s].result.worker, read[s].result.task>>

Judging  == {"accept", "decided", "finish"}
AfterWait == {"read"} \cup Judging
Watching == {"started", "waiting", "stopping"} \cup AfterWait

\* A manager's active workers are those of its own processes, and all of
\* these that run.
ActiveOK(s) ==
    /\ \A w \in Active(s) :
          process[active[s][w]].worker = w /\ process[active[s][w]].owner = s
    /\ \A l \in Launches : Running(l) /\ process[l].owner = s =>
          process[l].worker \in Active(s) /\ active[s][process[l].worker] = l
    /\ pc[s] \in Steps => current[s] \in Workers
    /\ pc[s] \in Watching => current[s] \in Active(s)
    /\ pc[s] \in AfterWait => ~ Running(Awaited(s))

\* What a session has found out about the process it waited for.
JudgingOK(s) ==
    /\ pc[s] \in Judging =>
          read[s] \in Reads /\ (read[s].result.status = "completed" => Execution(s) = "completed")
    /\ pc[s] \in {"decided", "finish"} =>
          /\ results[Key(s)] # None
          /\ decision[s] => Execution(s) = "completed"
    /\ pc[s] = "finish" =>
          \E d \in events : /\ d.type = IF decision[s] THEN "accepted" ELSE "rejected"
                            /\ d.launch = Awaited(s)

\* `chief run` has had the earlier workers accepted.
ProgressOK(s) ==
    s \in Cli /\ pc[s] \in Steps => \A v \in Workers : v < current[s] => WasAccepted(v)

SessionOK(s) == ActiveOK(s) /\ JudgingOK(s) /\ ProgressOK(s)

SInv == TypeOK /\ \A s \in Sessions : SessionOK(s)

-----------------------------------------------------------------------------
(* Processes                                                                *)

\* What TypeOK says of the processes, by their number.
LEMMA ProcessRange ==
  ASSUME TypeOK
  PROVE  /\ Len(process) \in Nat /\ Launches = 1 .. Len(process)
         /\ process \in [1 .. Len(process) -> Processes]
         /\ \A l \in Launches : /\ process[l] \in Processes
                                /\ process[l].worker \in Workers
<1>1. process \in Seq(Processes)
  BY DEF TypeOK, Processes
<1>2. \A l \in Launches : process[l] \in Processes
  BY <1>1 DEF Launches
<1> QED
  BY <1>1, <1>2 DEF Launches, Processes

\* Processes of the same number are a sequence of processes.
LEMMA ProcessFunction ==
  ASSUME TypeOK, NEW f \in [1 .. Len(process) -> Processes]
  PROVE  f \in Seq(Processes) /\ DOMAIN f = Launches /\ Len(f) = Len(process)
<1>1. Len(process) \in Nat /\ Launches = 1 .. Len(process)
  BY ProcessRange
<1>2. f \in Seq(Processes) /\ Len(f) = Len(process)
  BY <1>1, SeqDef
<1> QED
  BY <1>1, <1>2

\* Earlier entries stay, and what is known about them does not change: a
\* process keeps its worker, a dead one its end, and only its owner's end
\* leaves it without one.
Later ==
    /\ Launches \subseteq Launches'
    /\ \A l \in Launches :
          /\ process'[l].worker = process[l].worker
          /\ ~ Running(l) => process'[l].state = process[l].state
          /\ process'[l].owner \in {process[l].owner, None}
    /\ events \subseteq events' /\ judged \subseteq judged'
    /\ \A k \in Keys : results[k] # None => results'[k] # None

\* A session's end changes no process but for its owner.
LEMMA Disowned ==
  ASSUME TypeOK, NEW s \in Sessions, NEW how, EndSession(s, how)
  PROVE  /\ process' \in Seq(Processes) /\ Launches' = Launches
         /\ \A l \in Launches :
               /\ process'[l].worker = process[l].worker
               /\ process'[l].state = process[l].state
               /\ process'[l].owner = IF process[l].owner = s THEN None ELSE process[l].owner
         /\ pc' = [pc EXCEPT ![s] = how] /\ active' = [active EXCEPT ![s] = <<>>]
<1>1. Launches = 1 .. Len(process) /\ \A l \in Launches : process[l] \in Processes
  BY ProcessRange
<1>2. process' = [l \in Launches |-> IF process[l].owner = s
                                     THEN [process[l] EXCEPT !.owner = None] ELSE process[l]]
  BY DEF EndSession
<1>3. process' \in [1 .. Len(process) -> Processes]
  BY <1>1, <1>2 DEF Processes
<1>4. process' \in Seq(Processes) /\ Launches' = Launches
  BY <1>3, ProcessFunction DEF Launches
<1>5. \A l \in Launches :
               /\ process'[l].worker = process[l].worker
               /\ process'[l].state = process[l].state
               /\ process'[l].owner = IF process[l].owner = s THEN None ELSE process[l].owner
  BY <1>1, <1>2 DEF Processes
<1> QED
  BY <1>4, <1>5 DEF EndSession, Goto

\* A raised call ends a `chief run`, or goes back to the program's loop.
LEMMA Raised ==
  ASSUME TypeOK, NEW s \in Sessions, NEW left, Raise(s, left)
  PROVE  /\ process' \in Seq(Processes) /\ Launches' = Launches
         /\ \A l \in Launches :
               /\ process'[l].worker = process[l].worker
               /\ process'[l].state = process[l].state
               /\ process'[l].owner \in {process[l].owner, None}
               /\ process[l].owner # s => process'[l].owner = process[l].owner
         /\ \/ /\ EndSession(s, "raised")
            \/ /\ s \in Library /\ pc' = [pc EXCEPT ![s] = "ready"]
               /\ active' = [active EXCEPT ![s] = left] /\ process' = process
<1>1. CASE EndSession(s, "raised")
  BY <1>1, Disowned
<1>2. CASE ~ EndSession(s, "raised")
  BY <1>2 DEF Raise, Goto, TypeOK, Processes, Launches
<1> QED
  BY <1>1, <1>2

\* Launch n is the one with which session s starts worker w.
Launched(s, w, n) ==
    /\ process' \in Seq(Processes)
    /\ Launches' = Launches \cup {n} /\ n \notin Launches /\ n \in Nat
    /\ \A l \in Launches : process'[l] = process[l] /\ l < n
    /\ process'[n] = [worker |-> w, owner |-> s, state |-> "running"]
    /\ Active(s)' = Active(s) \cup {w} /\ w \notin Active(s)
    /\ active' = [active EXCEPT ![s] =
           [v \in Active(s) \cup {w} |-> IF v = w THEN n ELSE active[s][v]]]

\* A new process comes after all others.
LEMMA Started ==
  ASSUME TypeOK, NEW s \in Sessions, NEW w \in Workers, Start(s, w)
  PROVE  \E n : Launched(s, w, n)
<1>0. PICK n : n = Len(process) + 1
  OBVIOUS
<1>1. Len(process) \in Nat /\ Launches = 1 .. Len(process) /\ process \in Seq(Processes)
  BY ProcessRange DEF TypeOK, Processes
<1> DEFINE p == [worker |-> w, owner |-> s, state |-> "running"]
<1>2. process' = Append(process, p) /\ p \in Processes
  BY DEF Start, Processes, States
<1> HIDE DEF p
<1>3. /\ process' \in Seq(Processes) /\ Len(process') = Len(process) + 1
      /\ \A l \in 1 .. Len(process) : process'[l] = process[l]
      /\ process'[Len(process) + 1] = p
  BY <1>1, <1>2, AppendProperties
<1>4. Launches' = 1 .. n
  BY <1>0, <1>1, <1>3, LenProperties DEF Launches
<1>5. active' = [active EXCEPT ![s] =
                [v \in Active(s) \cup {w} |-> IF v = w THEN n ELSE active[s][v]]]
      /\ w \notin Active(s)
  BY <1>0 DEF Start
<1>6. Active(s)' = Active(s) \cup {w}
  BY <1>5 DEF TypeOK, Active
<1>7. Launched(s, w, n)
  BY <1>0, <1>1, <1>3, <1>4, <1>5, <1>6 DEF p, Launched
<1> QED
  BY <1>7

-----------------------------------------------------------------------------
(* What a step leaves alone                                                 *)

SessionStep(s) == Begin(s) \/ Supervise(s) \/ Call(s) \/ Fail(s) \/ Crash(s)

\* The active workers of a session, and the process it waits for.
LEMMA ActiveRange ==
  ASSUME TypeOK, NEW s \in Sessions
  PROVE  /\ Active(s) \in SUBSET Workers /\ active[s] \in [Active(s) -> Launches]
         /\ \A w \in Active(s) : active[s][w] \in Launches
         /\ active[s] \in ActiveMaps
<1>1. PICK known \in SUBSET Workers : active[s] \in [known -> Launches]
  BY DEF TypeOK
<1>2. Active(s) = known
  BY <1>1 DEF Active
<1> QED
  BY <1>1, <1>2 DEF ActiveMaps

\* A session that has a process to wait for knows it.
LEMMA AwaitedRange ==
  ASSUME TypeOK, NEW s \in Sessions, ActiveOK(s), pc[s] \in Watching
  PROVE  /\ current[s] \in Workers /\ current[s] \in Active(s)
         /\ Awaited(s) \in Launches /\ process[Awaited(s)] \in Processes
         /\ process[Awaited(s)].worker = current[s] /\ process[Awaited(s)].owner = s
         /\ pc[s] \in AfterWait => Execution(s) \in {"completed", "failed", "timed_out"}
<1>1. current[s] \in Active(s) /\ Active(s) \in SUBSET Workers /\ Awaited(s) \in Launches
  BY ActiveRange DEF ActiveOK, Awaited
<1>2. process[Awaited(s)] \in Processes
  BY <1>1, ProcessRange
<1> QED
  BY <1>1, <1>2 DEF ActiveOK, Awaited, Execution, Running, Processes, States

\* A session's step takes nothing back, and touches no other session's state
\* or process.
LEMMA SessionEffect ==
  ASSUME SInv, NEW s \in Sessions, SessionStep(s)
  PROVE  /\ Later
         /\ \A l \in Launches : process[l].owner # s => process'[l].owner = process[l].owner
         /\ \A l \in Launches' \ Launches : process'[l].owner = s
         /\ \A t \in Sessions \ {s} :
               /\ pc'[t] = pc[t] /\ current'[t] = current[t] /\ active'[t] = active[t]
               /\ timedOut'[t] = timedOut[t] /\ read'[t] = read[t] /\ decision'[t] = decision[t]
<1> DEFINE Local(t) == /\ pc'[t] = pc[t] /\ current'[t] = current[t] /\ active'[t] = active[t]
                       /\ timedOut'[t] = timedOut[t] /\ read'[t] = read[t]
                       /\ decision'[t] = decision[t]
           Owned == /\ \A l \in Launches : process[l].owner # s => process'[l].owner = process[l].owner
                    /\ \A l \in Launches' \ Launches : process'[l].owner = s
           Goal == Later /\ Owned /\ \A t \in Sessions \ {s} : Local(t)
<1>1. TypeOK /\ ActiveOK(s)
  BY DEF SInv, SessionOK
<1>2. /\ pc = [t \in Sessions |-> pc[t]] /\ current = [t \in Sessions |-> current[t]]
      /\ active = [t \in Sessions |-> active[t]] /\ timedOut = [t \in Sessions |-> timedOut[t]]
      /\ read = [t \in Sessions |-> read[t]] /\ decision = [t \in Sessions |-> decision[t]]
  BY <1>1 DEF TypeOK
<1>3. ASSUME UNCHANGED <<process, results, judged>>, events \subseteq events'
      PROVE  Later /\ Owned
  BY <1>3 DEF Later, Launches
<1>4. CASE \E w \in Workers : BeginWait(s, w) \/ Stop(s, w)
  <2>1. Later /\ Owned
    BY <1>3, <1>4 DEF BeginWait, Stop, dbVars, RecordEvent
  <2> QED
    BY <1>2, <1>4, <2>1 DEF BeginWait, Stop, Goto
<1>5. CASE RecordStarted(s) \/ Reap(s) \/ Timeout(s) \/ ReadResult(s)
  <2>1. Later /\ Owned
    BY <1>3, <1>5 DEF RecordStarted, Reap, Timeout, ReadResult, dbVars, RecordEvent
  <2> QED
    BY <1>2, <1>5, <2>1 DEF RecordStarted, Reap, Timeout, ReadResult, Goto
<1>6. CASE RecordDecision(s) \/ Finish(s)
  <2>1. Later /\ Owned
    BY <1>3, <1>6 DEF RecordDecision, Finish, RecordEvent
  <2> QED
    BY <1>2, <1>6, <2>1 DEF RecordDecision, Finish, Goto
<1>7. ASSUME NEW w \in Workers, Start(s, w) PROVE Goal
  <2>0. PICK n : Launched(s, w, n)
    BY <1>1, <1>7, Started
  <2>1. /\ Launches' = Launches \cup {n} /\ n \notin Launches
        /\ \A l \in Launches : process'[l] = process[l]
        /\ process'[n] = [worker |-> w, owner |-> s, state |-> "running"]
    BY <2>0 DEF Launched
  <2>2. UNCHANGED dbVars
    BY <1>7 DEF Start
  <2>3. Later /\ Owned
    BY <2>1, <2>2 DEF Later, dbVars
  <2> QED
    BY <1>2, <1>7, <2>3 DEF Start, Goto
<1>8. CASE Kill(s)
  <2>1. Awaited(s) \in Launches /\ Running(Awaited(s)) /\ UNCHANGED dbVars
        /\ process' = [process EXCEPT ![Awaited(s)].state = "failed"]
    BY <1>1, <1>8, AwaitedRange DEF Kill, Watching
  <2>2. /\ Launches' = Launches
        /\ \A l \in Launches : /\ process'[l].worker = process[l].worker
                               /\ process'[l].owner = process[l].owner
                               /\ ~ Running(l) => process'[l].state = process[l].state
    BY <1>1, <2>1, ProcessRange DEF Launches, Processes
  <2>3. Later /\ Owned
    BY <2>1, <2>2 DEF Later, dbVars
  <2> QED
    BY <1>8, <2>3 DEF Kill
<1>9. ASSUME UNCHANGED <<events, timedOut, read>>, judged \subseteq judged',
             \A t \in Sessions \ {s} : current'[t] = current[t],
             \A k \in Keys : results[k] # None => results'[k] # None,
             \A t \in Sessions \ {s} : decision'[t] = decision[t],
             NEW left, NEW how, Raise(s, left) \/ EndSession(s, how)
      PROVE  Goal
  <2>1. /\ Launches' = Launches
        /\ \A l \in Launches :
               /\ process'[l].worker = process[l].worker
               /\ process'[l].state = process[l].state
               /\ process'[l].owner \in {process[l].owner, None}
               /\ process[l].owner # s => process'[l].owner = process[l].owner
        /\ \E step, map : pc' = [pc EXCEPT ![s] = step] /\ active' = [active EXCEPT ![s] = map]
    <3>1. CASE Raise(s, left)
      BY <1>1, <3>1, Raised, Disowned
    <3>2. CASE EndSession(s, how)
      BY <1>1, <3>2, Disowned
    <3> QED
      BY <1>9, <3>1, <3>2
  <2>2. Later /\ Owned
    BY <1>9, <2>1 DEF Later
  <2> QED
    BY <1>2, <1>9, <2>1, <2>2
<1>10. CASE Begin(s) \/ Fail(s) \/ Crash(s)
  <2>1. /\ UNCHANGED <<dbVars, timedOut, read, decision>>
        /\ \A t \in Sessions \ {s} : current'[t] = current[t]
    BY <1>2, <1>10 DEF Begin, Fail, Crash
  <2>2. \E left, how : Raise(s, left) \/ EndSession(s, how)
    BY <1>10 DEF Begin, Fail, Crash
  <2>3. UNCHANGED <<results, judged, events>>
    BY <2>1 DEF dbVars
  <2> QED
    BY <1>9, <2>1, <2>2, <2>3
<1>11. CASE AcceptResult(s)
  <2> DEFINE Gone == /\ read[s].result.run # Run /\ Raise(s, active[s])
                     /\ UNCHANGED <<results, judged, decision>>
  <2>1. CASE Gone
    <3>1. UNCHANGED <<events, current, timedOut, read>>
      BY <1>11 DEF AcceptResult
    <3> QED
      BY <1>9, <2>1, <3>1
  <2>2. CASE ~ Gone
    <3>1. /\ UNCHANGED <<process, active, events, current, timedOut, read>>
          /\ judged \subseteq judged'
          /\ pc' = [pc EXCEPT ![s] = "decided"]
          /\ \E d : decision' = [decision EXCEPT ![s] = d]
          /\ results' = [results EXCEPT ![Key(s)] = read[s].result]
      BY <1>11, <2>2 DEF AcceptResult, Goto, Key
    <3>2. read[s].result # None
      BY <1>11, SupervisionAssumption DEF AcceptResult, SInv, SessionOK, JudgingOK, Judging, Reads
    <3>3. \A k \in Keys : results[k] # None => results'[k] # None
      BY <1>1, <3>1, <3>2 DEF TypeOK, Keys
    <3>4. Later /\ Owned
      BY <3>1, <3>3 DEF Later, Launches
    <3> QED
      BY <1>2, <3>1, <3>4
  <2> QED
    BY <2>1, <2>2
<1> QED
  BY <1>4, <1>5, <1>6, <1>7, <1>8, <1>10, <1>11 DEF SessionStep, Supervise, Call

\* A provider's step changes its own process or result file.
LEMMA ProviderEffect ==
  ASSUME TypeOK, NEW l \in Launches, Provider(l)
  PROVE  /\ Later /\ Launches' = Launches
         /\ \A j \in Launches : process'[j].owner = process[j].owner
         /\ process' \in Seq(Processes)
         /\ UNCHANGED <<dbVars, pc, current, active, timedOut, read, decision, faults>>
         /\ \/ UNCHANGED resultFile
            \/ \E c \in WorkerResults :
                  /\ resultFile' = [resultFile EXCEPT ![process[l].worker] = [result |-> c, writer |-> l]]
                  /\ c \in Claims[process[l].worker]
            \/ resultFile' = [resultFile EXCEPT ![process[l].worker] = Invalid]
<1>1. process[l] \in Processes /\ process[l].worker \in Workers
  BY ProcessRange
<1>2. ASSUME NEW c \in Claims[process[l].worker] \cup {Invalid}, WriteResult(l, c)
      PROVE  /\ UNCHANGED <<process, dbVars, pc, current, active, timedOut, read, decision, faults>>
             /\ \/ /\ resultFile' = [resultFile EXCEPT ![process[l].worker] = [result |-> c, writer |-> l]]
                   /\ c \in WorkerResults /\ c \in Claims[process[l].worker]
                \/ resultFile' = [resultFile EXCEPT ![process[l].worker] = Invalid]
  BY <1>1, <1>2, SupervisionAssumption DEF WriteResult
<1>3. ASSUME NEW state \in {"completed", "failed"}, Exit(l, state)
      PROVE  /\ process' \in [1 .. Len(process) -> Processes]
             /\ \A j \in Launches : /\ process'[j].worker = process[j].worker
                                    /\ process'[j].owner = process[j].owner
                                    /\ ~ Running(j) => process'[j].state = process[j].state
             /\ UNCHANGED <<resultFile, dbVars, pc, current, active, timedOut, read, decision, faults>>
  <2>1. process' = [process EXCEPT ![l].state = state] /\ Running(l)
    BY <1>3 DEF Exit
  <2>2. [process[l] EXCEPT !.state = state] \in Processes
    BY <1>1 DEF Processes, States
  <2>3. \A j \in Launches : process'[j] = IF j = l THEN [process[l] EXCEPT !.state = state]
                                                   ELSE process[j]
    BY <2>1, ProcessRange
  <2> QED
    BY <1>3, <2>1, <2>2, <2>3, ProcessRange DEF Exit, Processes
<1>4. CASE \E c \in Claims[process[l].worker] \cup {Invalid} : WriteResult(l, c)
  <2>1. process' = process /\ process \in Seq(Processes)
    BY <1>2, <1>4 DEF TypeOK, Processes
  <2>2. Later /\ Launches' = Launches
    BY <1>2, <1>4 DEF Later, Launches, dbVars
  <2> QED
    BY <1>2, <1>4, <2>1, <2>2
<1>5. CASE \E state \in {"completed", "failed"} : Exit(l, state)
  <2>1. process' \in Seq(Processes) /\ Launches' = Launches
    BY <1>3, <1>5, ProcessFunction DEF Launches
  <2>2. Later
    BY <1>3, <1>5, <2>1 DEF Later, dbVars
  <2> QED
    BY <1>3, <1>5, <2>1, <2>2
<1> QED
  BY <1>4, <1>5 DEF Provider

-----------------------------------------------------------------------------
(* The types                                                                *)

\* Maps over the old processes are maps over the new ones.
LEMMA MapsGrow ==
  ASSUME Launches \subseteq Launches', NEW f \in ActiveMaps
  PROVE  f \in ActiveMaps'
<1>1. PICK known \in SUBSET Workers : f \in [known -> Launches]
  BY DEF ActiveMaps
<1>2. f \in [known -> Launches']
  BY <1>1
<1> QED
  BY <1>2 DEF ActiveMaps

\* What Chief makes up, or turns into a failure, is a WorkerResult.
LEMMA ResultTypes ==
  ASSUME NEW w \in Workers
  PROVE  /\ FailedResult(w) \in WorkerResults
         /\ FailedResult(w).status = "failed" /\ FailedResult(w).worker = w
         /\ FailedResult(w).task = w
         /\ \A r \in WorkerResults :
               LET f == [[r EXCEPT !.status = "failed"] EXCEPT !.errors = TRUE]
               IN  f \in WorkerResults /\ f.status = "failed" /\ f.worker = r.worker /\ f.task = r.task
<1>1. w \in 0 .. NumWorkers
  BY SupervisionAssumption DEF Workers
<1>2. <<>> \in Seq([stage : STRING \X STRING, sequence : Nat \ {0},
                    status : {"started", "completed", "failed"}])
  OBVIOUS
<1> DEFINE T == Seq([stage : STRING \X STRING, sequence : Nat \ {0},
                     status : {"started", "completed", "failed"}])
<1>3. WorkerResults =
        [run : {Run, OtherRun}, worker : 0 .. NumWorkers, task : 0 .. NumWorkers,
         status : {"completed", "blocked", "failed"}, commit : BOOLEAN,
         files : SUBSET Files, errors : BOOLEAN, trace : T]
  BY DEF WorkerResults
<1> HIDE DEF T
<1> QED
  BY <1>1, <1>2, <1>3 DEF FailedResult, T

\* What ReadResult keeps: a WorkerResult, a failure unless the execution
\* completed.
LEMMA ReadType ==
  ASSUME TypeOK, NEW s \in Sessions, ActiveOK(s), ReadResult(s)
  PROVE  /\ read' = [read EXCEPT ![s] = read'[s]]
         /\ read'[s] \in Reads
         /\ read'[s].result.status = "completed" => Execution(s) = "completed"
         /\ (\A w \in Workers : resultFile[w] \notin {None, Invalid} =>
                resultFile[w].result.worker = w /\ resultFile[w].result.task = w)
            => read'[s].result.worker = current[s] /\ read'[s].result.task = current[s]
<1> DEFINE file == resultFile[current[s]]
           fail == [[file.result EXCEPT !.status = "failed"] EXCEPT !.errors = TRUE]
<1>1. current[s] \in Workers /\ pc[s] = "read"
  BY AwaitedRange DEF ReadResult, Watching, AfterWait
<1>2. file \in {None, Invalid} \cup [result : WorkerResults, writer : Launches]
  BY <1>1 DEF TypeOK
<1>3. \E x : read' = [read EXCEPT ![s] = x]
  BY DEF ReadResult
<1>4. read' = [read EXCEPT ![s] = read'[s]]
  BY <1>3 DEF TypeOK
<1>5. CASE file \in {None, Invalid}
  <2>1. read'[s] = [result |-> FailedResult(current[s]), writer |-> None]
    BY <1>5 DEF ReadResult, TypeOK
  <2>2. /\ FailedResult(current[s]) \in WorkerResults
        /\ FailedResult(current[s]).status = "failed"
        /\ FailedResult(current[s]).worker = current[s] /\ FailedResult(current[s]).task = current[s]
    BY <1>1, ResultTypes
  <2>3. read'[s] \in Reads
    BY <2>1, <2>2 DEF Reads
  <2>4. read'[s].result = FailedResult(current[s])
    BY <2>1
  <2> QED
    BY <1>4, <2>2, <2>3, <2>4
<1>6. CASE file \notin {None, Invalid} /\ Execution(s) = "completed"
  <2>1. read'[s] = file
    BY <1>6 DEF ReadResult, TypeOK
  <2> QED
    BY <1>1, <1>2, <1>4, <1>6, <2>1 DEF Reads
<1>7. CASE file \notin {None, Invalid} /\ Execution(s) # "completed"
  <2>1. read'[s] = [file EXCEPT !.result.status = "failed", !.result.errors = TRUE]
    BY <1>7 DEF ReadResult, TypeOK
  <2>2. file.result \in WorkerResults /\ file.writer \in Launches
    BY <1>2, <1>7
  <2>3. read'[s] = [result |-> fail, writer |-> file.writer]
    BY <1>2, <1>7, <2>1
  <2>4. fail \in WorkerResults /\ fail.status = "failed" /\ fail.worker = file.result.worker
        /\ fail.task = file.result.task
    BY <1>1, <2>2, ResultTypes
  <2> HIDE DEF fail, file
  <2>5. read'[s] \in Reads /\ read'[s].result = fail
    BY <2>2, <2>3, <2>4 DEF Reads
  <2>6. (\A w \in Workers : resultFile[w] \notin {None, Invalid} =>
                resultFile[w].result.worker = w /\ resultFile[w].result.task = w)
        => file.result.worker = current[s] /\ file.result.task = current[s]
    BY <1>1, <1>7 DEF file
  <2> QED
    BY <1>4, <2>4, <2>5, <2>6
<1> QED
  BY <1>5, <1>6, <1>7

\* What was judged is a process, and stays judged.
LEMMA JudgedKept ==
  ASSUME SInv, [Next]_vars
  PROVE  judged' \subseteq Launches'
<1>1. TypeOK /\ judged \subseteq Launches
  BY DEF SInv, TypeOK
<1>2. CASE UNCHANGED vars
  BY <1>1, <1>2 DEF vars, Launches
<1>3. ASSUME NEW l \in Launches, Provider(l) PROVE judged' \subseteq Launches'
  BY <1>1, <1>3, ProviderEffect DEF dbVars
<1>4. ASSUME NEW s \in Sessions, SessionStep(s) PROVE judged' \subseteq Launches'
  <2>1. Launches \subseteq Launches'
    BY <1>4, SessionEffect DEF Later
  <2>2. CASE AcceptResult(s)
    <3>1. Awaited(s) \in Launches
      BY <1>1, <2>2, AwaitedRange
         DEF AcceptResult, SInv, SessionOK, Watching, AfterWait, Judging
    <3> QED
      BY <1>1, <2>1, <2>2, <3>1 DEF AcceptResult
  <2>3. CASE ~ AcceptResult(s)
    <3>1. UNCHANGED judged
      BY <1>4, <2>3 DEF SessionStep, Supervise, Call, Begin, Start, RecordStarted, BeginWait,
            Stop, Reap, Timeout, Kill, ReadResult, RecordDecision, Finish, Fail, Crash, dbVars
    <3> QED
      BY <1>1, <2>1, <3>1
  <2> QED
    BY <2>2, <2>3
<1> QED
  BY <1>2, <1>3, <1>4 DEF Next, SessionStep

\* Every step keeps the types.
LEMMA TypesKept ==
  ASSUME SInv, [Next]_vars
  PROVE  TypeOK'
<1> USE DEF Goto, RecordEvent
<1> DEFINE Rest == /\ resultFile' \in [Workers -> {None, Invalid} \cup
                                         [result : WorkerResults, writer : Launches']]
                   /\ read' \in [Sessions -> {None} \cup Reads']
                   /\ active' \in [Sessions -> ActiveMaps']
           Events == \A e \in events' : e.launch \in Launches'
           Stores == /\ results' \in [Keys -> WorkerResults \cup {None}]
                     /\ \A k \in Rows' : <<results'[k].worker, results'[k].task>> = k
           Locals == /\ pc' \in [Sessions -> Steps \cup {"idle", "done", "raised"}]
                     /\ current' \in [Sessions -> 0 .. NumWorkers]
                     /\ timedOut' \in [Sessions -> BOOLEAN]
                     /\ decision' \in [Sessions -> BOOLEAN]
                     /\ faults' \in 0 .. MaxFaults
<1>1. TypeOK /\ \A s \in Sessions : ActiveOK(s) /\ JudgingOK(s)
  BY DEF SInv, SessionOK
<1>2. /\ resultFile \in [Workers -> {None, Invalid} \cup [result : WorkerResults, writer : Launches]]
      /\ read \in [Sessions -> {None} \cup Reads]
      /\ active \in [Sessions -> ActiveMaps]
      /\ results \in [Keys -> WorkerResults \cup {None}]
      /\ process \in Seq(Processes)
  BY <1>1 DEF TypeOK, Reads, ActiveMaps, Keys, Processes
<1>3. \A w \in Workers : w \in 0 .. NumWorkers
  BY SupervisionAssumption DEF Workers
<1>4. ASSUME process' \in Seq(Processes), Rest, Events, Stores, Locals PROVE TypeOK'
  BY <1>4, JudgedKept DEF TypeOK, Processes, Reads, ActiveMaps, Keys
<1>5. ASSUME Launches \subseteq Launches', UNCHANGED resultFile PROVE
        resultFile' \in [Workers -> {None, Invalid} \cup [result : WorkerResults, writer : Launches']]
  BY <1>2, <1>5
<1>6. ASSUME Launches \subseteq Launches', UNCHANGED read PROVE read' \in [Sessions -> {None} \cup Reads']
  BY <1>2, <1>6 DEF Reads
<1>7. ASSUME Launches \subseteq Launches', UNCHANGED active PROVE active' \in [Sessions -> ActiveMaps']
  BY <1>2, <1>7, MapsGrow
<1>8. ASSUME Launches \subseteq Launches', UNCHANGED events PROVE Events
  BY <1>1, <1>8 DEF TypeOK
<1>9. UNCHANGED results => Stores
  BY <1>1, <1>2 DEF TypeOK, Rows
<1>10. UNCHANGED process => process' \in Seq(Processes) /\ Launches' = Launches
  BY <1>2 DEF Launches
<1> HIDE DEF Rest, Events, Stores, Locals
<1>11. ASSUME NEW s \in Sessions,
              (\E w \in Workers : BeginWait(s, w) \/ Stop(s, w)) \/ Reap(s) \/ Timeout(s)
       PROVE  TypeOK'
  <2>1. UNCHANGED <<process, resultFile, read, active, results>>
    BY <1>11 DEF BeginWait, Stop, Reap, Timeout, dbVars
  <2>2. Rest /\ Stores
    BY <1>5, <1>6, <1>7, <1>9, <1>10, <2>1 DEF Rest
  <2>3. Events
    <3>1. CASE UNCHANGED events
      BY <1>8, <1>10, <2>1, <3>1
    <3>2. ASSUME NEW w \in Workers, Stop(s, w) PROVE Events
      BY <1>1, <1>10, <2>1, <3>2, ActiveRange DEF Stop, Event, Events, TypeOK
    <3> QED
      BY <1>11, <3>1, <3>2 DEF BeginWait, Reap, Timeout, dbVars
  <2>4. Locals
    <3>1. CASE \E w \in Workers : BeginWait(s, w)
      BY <1>1, <1>3, <3>1 DEF BeginWait, TypeOK, Locals, Steps
    <3>2. CASE (\E w \in Workers : Stop(s, w)) \/ Reap(s) \/ Timeout(s)
      BY <1>1, <3>2 DEF Stop, Reap, Timeout, TypeOK, Locals, Steps
    <3> QED
      BY <1>11, <3>1, <3>2
  <2> QED
    BY <1>4, <1>10, <2>1, <2>2, <2>3, <2>4
<1>12. ASSUME NEW s \in Sessions, NEW w \in Workers, Start(s, w) PROVE TypeOK'
  <2>0. PICK n : Launched(s, w, n)
    BY <1>1, <1>12, Started
  <2> DEFINE f == [v \in Active(s) \cup {w} |-> IF v = w THEN n ELSE active[s][v]]
  <2>1. /\ process' \in Seq(Processes) /\ Launches' = Launches \cup {n}
        /\ active' = [active EXCEPT ![s] = f]
    BY <2>0 DEF Launched
  <2>2. f \in ActiveMaps'
    <3>1. Active(s) \cup {w} \in SUBSET Workers
      BY <1>1, ActiveRange
    <3>2. f \in [Active(s) \cup {w} -> Launches']
      BY <1>1, <2>1, ActiveRange
    <3> QED
      BY <3>1, <3>2 DEF ActiveMaps
  <2> HIDE DEF f
  <2>3. UNCHANGED <<resultFile, dbVars, read>> /\ Launches \subseteq Launches'
    BY <1>12, <2>1 DEF Start
  <2>4. active' \in [Sessions -> ActiveMaps']
    <3>1. \A t \in Sessions : active[t] \in ActiveMaps'
      BY <1>2, <2>3, MapsGrow
    <3> QED
      BY <1>2, <2>1, <2>2, <3>1
  <2>5. Rest /\ Stores /\ Events
    BY <1>5, <1>6, <1>8, <1>9, <2>3, <2>4 DEF Rest, dbVars
  <2>6. Locals
    BY <1>1, <1>3, <1>12 DEF Start, TypeOK, Locals, Steps
  <2> QED
    BY <1>4, <2>1, <2>5, <2>6
<1>13. ASSUME NEW s \in Sessions, RecordStarted(s) \/ RecordDecision(s) PROVE TypeOK'
  <2>1. UNCHANGED <<process, resultFile, read, active, results>>
    BY <1>13 DEF RecordStarted, RecordDecision
  <2>2. Rest /\ Stores
    BY <1>5, <1>6, <1>7, <1>9, <1>10, <2>1 DEF Rest
  <2>3. Events
    BY <1>1, <1>10, <1>13, <2>1, AwaitedRange
       DEF RecordStarted, RecordDecision, Event, Events, TypeOK, Watching, AfterWait, Judging
  <2>4. Locals
    BY <1>1, <1>13 DEF RecordStarted, RecordDecision, TypeOK, Locals, Steps
  <2> QED
    BY <1>4, <1>10, <2>1, <2>2, <2>3, <2>4
<1>14. ASSUME NEW s \in Sessions, Kill(s) PROVE TypeOK'
  <2>1. Awaited(s) \in Launches /\ UNCHANGED <<resultFile, dbVars, read, active, pc, current, timedOut, decision, faults>>
        /\ process' = [process EXCEPT ![Awaited(s)].state = "failed"]
    BY <1>1, <1>14, AwaitedRange DEF Kill, Watching
  <2>2. process' \in [1 .. Len(process) -> Processes]
    BY <1>1, <2>1, ProcessRange DEF Processes, States
  <2>3. process' \in Seq(Processes) /\ Launches' = Launches
    BY <1>1, <2>2, ProcessFunction DEF Launches
  <2>4. Rest /\ Stores /\ Events
    BY <1>5, <1>6, <1>7, <1>8, <1>9, <2>1, <2>3 DEF Rest, dbVars
  <2>5. Locals
    BY <1>1, <2>1 DEF TypeOK, Locals
  <2> QED
    BY <1>4, <2>3, <2>4, <2>5
<1>15. ASSUME NEW s \in Sessions, ReadResult(s) PROVE TypeOK'
  <2>1. UNCHANGED <<process, resultFile, active, dbVars>>
    BY <1>15 DEF ReadResult
  <2>2. read' = [read EXCEPT ![s] = read'[s]] /\ read'[s] \in Reads
    BY <1>1, <1>15, ReadType
  <2>3. read' \in [Sessions -> {None} \cup Reads']
    BY <1>2, <1>10, <2>1, <2>2 DEF Reads
  <2>4. Rest /\ Stores /\ Events
    BY <1>5, <1>7, <1>8, <1>9, <1>10, <2>1, <2>3 DEF Rest, dbVars
  <2>5. Locals
    BY <1>1, <1>15 DEF ReadResult, TypeOK, Locals, Steps
  <2> QED
    BY <1>4, <1>10, <2>1, <2>4, <2>5
<1>16. ASSUME NEW s \in Sessions, Finish(s) PROVE TypeOK'
  <2>1. UNCHANGED <<process, resultFile, results, read>> /\ active' = [active EXCEPT ![s] = Others(s)]
    BY <1>16 DEF Finish
  <2>2. Others(s) \in ActiveMaps
    <3>1. Others(s) \in [Active(s) \ {current[s]} -> Launches] /\ Active(s) \ {current[s]} \in SUBSET Workers
      BY <1>1, ActiveRange DEF Others
    <3> QED
      BY <3>1 DEF ActiveMaps
  <2>3. active' \in [Sessions -> ActiveMaps']
    BY <1>2, <1>10, <2>1, <2>2 DEF ActiveMaps
  <2>4. Rest /\ Stores
    BY <1>5, <1>6, <1>9, <1>10, <2>1, <2>3 DEF Rest
  <2>5. Events
    BY <1>1, <1>10, <1>16, <2>1, AwaitedRange
       DEF Finish, Event, Events, TypeOK, Watching, AfterWait, Judging
  <2>6. Locals
    <3>1. current[s] \in Workers
      BY <1>1, <1>16, AwaitedRange DEF Finish, Watching, AfterWait, Judging
    <3>2. current' \in [Sessions -> 0 .. NumWorkers]
      <4>1. current' = current \/ (current[s] < NumWorkers /\ current' = [current EXCEPT ![s] = @ + 1])
        BY <1>16 DEF Finish
      <4>2. current[s] < NumWorkers => current[s] + 1 \in 0 .. NumWorkers
        BY <3>1, SupervisionAssumption DEF Workers
      <4>3. current \in [Sessions -> 0 .. NumWorkers]
        BY <1>1 DEF TypeOK
      <4> QED
        BY <4>1, <4>2, <4>3
    <3> QED
      BY <1>1, <1>16, <3>2 DEF Finish, TypeOK, Locals, Steps
  <2> QED
    BY <1>4, <1>10, <2>1, <2>4, <2>5, <2>6
<1>17. ASSUME NEW s \in Sessions, NEW left \in ActiveMaps, NEW how \in {"ready", "raised"},
              Raise(s, left) \/ EndSession(s, how),
              UNCHANGED <<resultFile, dbVars, read, timedOut, decision>>,
              current' \in [Sessions -> 0 .. NumWorkers], faults' \in 0 .. MaxFaults
       PROVE  TypeOK'
  <2>1. process' \in Seq(Processes) /\ Launches' = Launches
    BY <1>1, <1>17, Raised, Disowned
  <2>2. \E step \in {"ready", "raised"}, map \in {left, <<>>} :
           pc' = [pc EXCEPT ![s] = step] /\ active' = [active EXCEPT ![s] = map]
    BY <1>17 DEF Raise, EndSession
  <2>3. <<>> \in ActiveMaps
    <3>1. <<>> \in [{} -> Launches]
      OBVIOUS
    <3> QED
      BY <3>1 DEF ActiveMaps
  <2>4. active' \in [Sessions -> ActiveMaps']
    <3>1. ActiveMaps' = ActiveMaps
      BY <2>1 DEF ActiveMaps
    <3>2. PICK map \in ActiveMaps : active' = [active EXCEPT ![s] = map]
      BY <1>17, <2>2, <2>3
    <3> QED
      BY <1>2, <3>1, <3>2
  <2>5. Rest /\ Stores /\ Events
    BY <1>5, <1>6, <1>8, <1>9, <1>17, <2>1, <2>4 DEF Rest, dbVars
  <2>6. Locals
    BY <1>1, <1>17, <2>2 DEF TypeOK, Locals, Steps
  <2> QED
    BY <1>4, <2>1, <2>5, <2>6
<1>18. ASSUME NEW s \in Sessions, Begin(s) \/ Fail(s) \/ Crash(s) PROVE TypeOK'
  <2>1. /\ UNCHANGED <<resultFile, dbVars, read, timedOut, decision>>
        /\ current' \in [Sessions -> 0 .. NumWorkers] /\ faults' \in 0 .. MaxFaults
    BY <1>1, <1>18, SupervisionAssumption DEF Begin, Fail, Crash, TypeOK
  <2>2. active[s] \in ActiveMaps /\ Others(s) \in ActiveMaps
    <3>1. Others(s) \in [Active(s) \ {current[s]} -> Launches] /\ Active(s) \ {current[s]} \in SUBSET Workers
      BY <1>1, ActiveRange DEF Others
    <3> QED
      BY <1>1, <3>1, ActiveRange DEF ActiveMaps
  <2>3. \E left \in {active[s], Others(s)}, how \in {"ready", "raised"} :
           Raise(s, left) \/ EndSession(s, how)
    BY <1>18 DEF Begin, Fail, Crash
  <2> QED
    BY <1>17, <2>1, <2>2, <2>3
<1>19. ASSUME NEW s \in Sessions, AcceptResult(s) PROVE TypeOK'
  <2>1. UNCHANGED <<resultFile, events, read, current, timedOut, faults>>
    BY <1>19 DEF AcceptResult
  <2>2. CASE Raise(s, active[s]) /\ UNCHANGED <<results, judged, decision>>
    <3>1. active[s] \in ActiveMaps
      BY <1>2
    <3>2. current' \in [Sessions -> 0 .. NumWorkers] /\ faults' \in 0 .. MaxFaults
      BY <1>1, <2>1 DEF TypeOK
    <3> QED
      BY <1>17, <2>1, <2>2, <3>1, <3>2 DEF dbVars
  <2>3. CASE UNCHANGED <<process, active>> /\ pc' = [pc EXCEPT ![s] = "decided"]
             /\ results' = [results EXCEPT ![Key(s)] = read[s].result]
             /\ (\E d \in BOOLEAN : decision' = [decision EXCEPT ![s] = d])
    <3>1. read[s].result \in WorkerResults /\ Key(s) \in Keys
      BY <1>1, <1>19 DEF AcceptResult, JudgingOK, Judging, Reads, Key, Keys, WorkerResults
    <3>2. Stores
      <4>1. results' \in [Keys -> WorkerResults \cup {None}]
        BY <1>2, <2>3, <3>1
      <4>2. ASSUME NEW k \in Rows' PROVE <<results'[k].worker, results'[k].task>> = k
        BY <1>1, <1>2, <2>3, <3>1, <4>1, <4>2 DEF Rows, Key, TypeOK
      <4> QED
        BY <4>1, <4>2 DEF Stores
    <3>3. Rest /\ Events
      BY <1>5, <1>6, <1>7, <1>8, <1>10, <2>1, <2>3 DEF Rest
    <3>4. Locals
      BY <1>1, <2>1, <2>3 DEF TypeOK, Locals, Steps
    <3> QED
      BY <1>4, <1>10, <2>3, <3>2, <3>3, <3>4
  <2>4. \/ Raise(s, active[s]) /\ UNCHANGED <<results, judged, decision>>
        \/ UNCHANGED <<process, active>> /\ pc' = [pc EXCEPT ![s] = "decided"]
             /\ results' = [results EXCEPT ![Key(s)] = read[s].result]
             /\ (\E d \in BOOLEAN : decision' = [decision EXCEPT ![s] = d])
    BY <1>19 DEF AcceptResult, Key
  <2> QED
    BY <2>2, <2>3, <2>4
<1>20. ASSUME NEW l \in Launches, Provider(l) PROVE TypeOK'
  <2>1. /\ Launches' = Launches /\ process' \in Seq(Processes)
        /\ UNCHANGED <<dbVars, pc, current, active, timedOut, read, decision, faults>>
        /\ \/ UNCHANGED resultFile
           \/ \E x \in {Invalid} \cup [result : WorkerResults, writer : Launches] :
                 resultFile' = [resultFile EXCEPT ![process[l].worker] = x]
    BY <1>1, <1>20, ProviderEffect
  <2>2. resultFile' \in [Workers -> {None, Invalid} \cup [result : WorkerResults, writer : Launches']]
    BY <1>2, <2>1
  <2>3. Rest /\ Stores /\ Events
    BY <1>6, <1>7, <1>8, <1>9, <2>1, <2>2 DEF Rest, dbVars
  <2>4. Locals
    BY <1>1, <2>1 DEF TypeOK, Locals
  <2> QED
    BY <1>4, <2>1, <2>3, <2>4
<1>21. CASE UNCHANGED vars
  BY <1>1, <1>21 DEF vars, dbVars, TypeOK, Launches, Rows
<1> QED
  BY <1>11, <1>12, <1>13, <1>14, <1>15, <1>16, <1>18, <1>19, <1>20, <1>21
     DEF Next, Supervise, Call

-----------------------------------------------------------------------------
(* The invariant is kept                                                    *)

\* The part of ActiveOK that is about the processes of a session.
Tracked(s) ==
    /\ \A w \in Active(s) :
          process[active[s][w]].worker = w /\ process[active[s][w]].owner = s
    /\ \A l \in Launches : Running(l) /\ process[l].owner = s =>
          process[l].worker \in Active(s) /\ active[s][process[l].worker] = l

\* A session keeps track of its processes while its map and their owner stay
\* what they are.
LEMMA TrackedKept ==
  ASSUME TypeOK, NEW s \in Sessions, Tracked(s), Later, active'[s] = active[s],
         \A l \in Launches : process[l].owner = s => process'[l].owner = s,
         \A l \in Launches' \ Launches : process'[l].owner # s
  PROVE  Tracked(s)'
<1>1. Active(s)' = Active(s) /\ s # None
  BY SupervisionAssumption DEF Active
<1>2. \A w \in Active(s) : process'[active[s][w]].worker = w /\ process'[active[s][w]].owner = s
  BY ActiveRange DEF Tracked, Later
<1>3. ASSUME NEW l \in Launches', Running(l)', process'[l].owner = s
      PROVE  process'[l].worker \in Active(s) /\ active[s][process'[l].worker] = l
  <2>1. l \in Launches
    BY <1>3
  <2>2. Running(l) /\ process[l].owner = s /\ process'[l].worker = process[l].worker
    BY <1>1, <1>3, <2>1 DEF Later, Running
  <2> QED
    BY <2>1, <2>2 DEF Tracked
<1> QED
  BY <1>1, <1>2, <1>3 DEF Tracked

\* Accepted workers stay accepted.
LEMMA AcceptedStays ==
  ASSUME TypeOK, Later, NEW w, WasAccepted(w)
  PROVE  WasAccepted(w)'
<1>1. PICK e \in events : e.type = "accepted" /\ process[e.launch].worker = w
  BY DEF WasAccepted
<1>2. e \in events' /\ process'[e.launch].worker = w
  BY <1>1 DEF TypeOK, Later
<1> QED
  BY <1>1, <1>2 DEF WasAccepted

\* A process that was waited for to its end stays what it was.
LEMMA AwaitedStays ==
  ASSUME TypeOK, NEW s \in Sessions, ActiveOK(s), pc[s] \in AfterWait, Later,
         active'[s] = active[s], current'[s] = current[s], timedOut'[s] = timedOut[s]
  PROVE  Awaited(s)' = Awaited(s) /\ ~ Running(Awaited(s))' /\ Execution(s)' = Execution(s)
<1>1. Awaited(s) \in Launches /\ ~ Running(Awaited(s))
  BY AwaitedRange DEF Watching, ActiveOK
<1>2. Awaited(s)' = Awaited(s)
  BY DEF Awaited
<1>3. process'[Awaited(s)].state = process[Awaited(s)].state
  BY <1>1 DEF Later
<1> QED
  BY <1>1, <1>2, <1>3 DEF Running, Execution

\* A step that leaves a session's own state alone keeps what holds of it.
LEMMA SessionFrame ==
  ASSUME TypeOK, NEW s \in Sessions, SessionOK(s), Later,
         pc'[s] = pc[s], current'[s] = current[s], active'[s] = active[s],
         timedOut'[s] = timedOut[s], read'[s] = read[s], decision'[s] = decision[s],
         \A l \in Launches : process[l].owner = s => process'[l].owner = s,
         \A l \in Launches' \ Launches : process'[l].owner # s
  PROVE  SessionOK(s)'
<1>1. ActiveOK(s) /\ JudgingOK(s) /\ ProgressOK(s) /\ Tracked(s)
  BY DEF SessionOK, ActiveOK, Tracked
<1>2. Tracked(s)' /\ Active(s)' = Active(s)
  BY <1>1, TrackedKept DEF Active
<1>3. pc[s] \in AfterWait =>
        Awaited(s)' = Awaited(s) /\ ~ Running(Awaited(s))' /\ Execution(s)' = Execution(s)
  BY <1>1, AwaitedStays
<1>4. ActiveOK(s)'
  BY <1>1, <1>2, <1>3 DEF ActiveOK, Tracked
<1>5. JudgingOK(s)'
  <2>1. Key(s)' = Key(s)
    BY DEF Key
  <2>2. pc[s] \in Judging => read[s] \in Reads' /\ Key(s) \in Keys
    BY <1>1 DEF JudgingOK, Later, Reads, Key, Keys, WorkerResults
  <2>3. pc[s] \in {"decided", "finish"} => results'[Key(s)] # None
    BY <1>1, <2>2 DEF JudgingOK, Later, Judging
  <2>4. pc[s] = "finish" => \E d \in events' : /\ d.type = IF decision[s] THEN "accepted" ELSE "rejected"
                                               /\ d.launch = Awaited(s)
    BY <1>1 DEF JudgingOK, Later
  <2> QED
    BY <1>1, <1>3, <2>1, <2>2, <2>3, <2>4 DEF JudgingOK, Judging, AfterWait
<1>6. ProgressOK(s)'
  BY <1>1, AcceptedStays DEF ProgressOK
<1> QED
  BY <1>4, <1>5, <1>6 DEF SessionOK

\* The parts of SessionOK at a step that is none of a supervision.
LEMMA Outside ==
  ASSUME NEW s \in Sessions, Tracked(s)', pc'[s] \notin Watching,
         pc'[s] \in Steps => current'[s] \in Workers /\ ProgressOK(s)'
  PROVE  SessionOK(s)'
  BY DEF SessionOK, ActiveOK, Tracked, JudgingOK, ProgressOK, Watching, AfterWait, Judging

\* The parts of SessionOK before the end of a wait.
LEMMA Waiting ==
  ASSUME NEW s \in Sessions, Tracked(s)', pc'[s] \in {"started", "waiting", "stopping"},
         current'[s] \in Workers, current'[s] \in Active(s)', ProgressOK(s)'
  PROVE  SessionOK(s)'
  BY DEF SessionOK, ActiveOK, Tracked, JudgingOK, AfterWait, Judging

\* Others keeps track of all processes but the one that was waited for.
LEMMA OthersTracked ==
  ASSUME TypeOK, NEW s \in Sessions, ActiveOK(s), pc[s] \in AfterWait, UNCHANGED process,
         active'[s] = Others(s)
  PROVE  Tracked(s)'
<1>1. current[s] \in Active(s) /\ ~ Running(active[s][current[s]])
  BY DEF ActiveOK, Watching, Awaited
<1>2. Active(s)' = Active(s) \ {current[s]} /\ \A w \in Active(s)' : active'[s][w] = active[s][w]
  BY DEF Active, Others
<1>3. \A w \in Active(s)' :
          process'[active'[s][w]].worker = w /\ process'[active'[s][w]].owner = s
  BY <1>2 DEF ActiveOK
<1>4. \A l \in Launches : Running(l) /\ process[l].owner = s =>
          /\ process[l].worker \in Active(s) \ {current[s]}
          /\ active[s][process[l].worker] = l
  BY <1>1 DEF ActiveOK
<1>5. \A l \in Launches' : Running(l)' /\ process'[l].owner = s =>
          process'[l].worker \in Active(s)' /\ active'[s][process'[l].worker] = l
  BY <1>2, <1>4 DEF Launches, Running
<1> QED
  BY <1>3, <1>5 DEF Tracked

\* A session's own step keeps what holds of it.
LEMMA OwnStep ==
  ASSUME SInv, TypeOK', NEW s \in Sessions, SessionStep(s)
  PROVE  SessionOK(s)'
<1> USE DEF Goto
<1>1. TypeOK /\ ActiveOK(s) /\ JudgingOK(s) /\ ProgressOK(s) /\ Tracked(s)
  BY DEF SInv, SessionOK, ActiveOK, Tracked
<1>2. Later
  BY SessionEffect
<1>3. ASSUME active'[s] = active[s], UNCHANGED process PROVE Tracked(s)'
  BY <1>1, <1>2, <1>3, TrackedKept DEF Launches
<1>4. ASSUME ProgressOK(s), pc[s] \in Steps, current'[s] = current[s] PROVE ProgressOK(s)'
  BY <1>1, <1>2, <1>4, AcceptedStays DEF ProgressOK
<1>5. /\ pc = [t \in Sessions |-> pc[t]] /\ current = [t \in Sessions |-> current[t]]
      /\ active = [t \in Sessions |-> active[t]] /\ timedOut = [t \in Sessions |-> timedOut[t]]
      /\ read = [t \in Sessions |-> read[t]] /\ decision = [t \in Sessions |-> decision[t]]
  BY <1>1 DEF TypeOK
<1>6. CASE Begin(s)
  <2>1. /\ EndSession(s, "ready") /\ current'[s] = 1
    BY <1>5, <1>6 DEF Begin
  <2>2. /\ Launches' = Launches /\ pc'[s] = "ready" /\ active'[s] = <<>>
        /\ \A l \in Launches : process'[l].owner # s
    BY <1>1, <1>5, <2>1, Disowned, SupervisionAssumption
  <2>3. Tracked(s)'
    BY <2>2 DEF Tracked, Active
  <2>4. current'[s] \in Workers /\ ProgressOK(s)'
    BY <2>1, SupervisionAssumption DEF Workers, ProgressOK
  <2> QED
    BY <2>2, <2>3, <2>4, Outside DEF Watching, AfterWait, Judging
<1>7. ASSUME NEW w \in Workers, Start(s, w) PROVE SessionOK(s)'
  <2>0. PICK n : Launched(s, w, n)
    BY <1>1, <1>7, Started
  <2>1. /\ Launches' = Launches \cup {n} /\ n \notin Launches
        /\ \A l \in Launches : process'[l] = process[l]
        /\ process'[n] = [worker |-> w, owner |-> s, state |-> "running"]
        /\ Active(s)' = Active(s) \cup {w} /\ w \notin Active(s)
        /\ active' = [active EXCEPT ![s] =
               [v \in Active(s) \cup {w} |-> IF v = w THEN n ELSE active[s][v]]]
    BY <2>0 DEF Launched
  <2>2. /\ pc[s] = "ready" /\ pc'[s] = "started" /\ current'[s] = w
        /\ s \in Cli => w = current[s]
    BY <1>5, <1>7, SupervisionAssumption DEF Start
  <2>3. active'[s][w] = n /\ \A v \in Active(s) : active'[s][v] = active[s][v]
    BY <1>5, <2>1
  <2>4. Tracked(s)'
    <3>1. \A v \in Active(s)' : process'[active'[s][v]].worker = v /\ process'[active'[s][v]].owner = s
      <4>1. \A v \in Active(s) : active[s][v] \in Launches
        BY <1>1, ActiveRange
      <4> QED
        BY <1>1, <2>1, <2>3, <4>1 DEF Tracked
    <3>2. \A l \in Launches' : Running(l)' /\ process'[l].owner = s =>
            process'[l].worker \in Active(s)' /\ active'[s][process'[l].worker] = l
      BY <1>1, <2>1, <2>3 DEF Tracked, Running
    <3> QED
      BY <3>1, <3>2 DEF Tracked
  <2>5. ProgressOK(s)'
    BY <1>1, <1>2, <2>2, AcceptedStays DEF ProgressOK, Steps
  <2> QED
    BY <2>1, <2>2, <2>4, <2>5, Waiting
<1>8. CASE RecordStarted(s)
  <2>1. /\ pc[s] = "started" /\ pc'[s] \in {"waiting", "ready"} /\ UNCHANGED process
        /\ current'[s] = current[s] /\ active'[s] = active[s]
    BY <1>5, <1>8 DEF RecordStarted
  <2>2. current[s] \in Workers /\ current[s] \in Active(s) /\ Active(s)' = Active(s)
    BY <1>1, <2>1, AwaitedRange DEF Watching, Active
  <2>3. Tracked(s)' /\ ProgressOK(s)'
    BY <1>1, <1>3, <1>4, <2>1 DEF Steps
  <2> QED
    BY <2>1, <2>2, <2>3, Waiting, Outside DEF Watching, AfterWait, Judging
<1>9. ASSUME NEW w \in Workers, BeginWait(s, w) PROVE SessionOK(s)'
  <2>1. /\ pc[s] = "ready" /\ pc'[s] = "waiting" /\ UNCHANGED process
        /\ current'[s] = w /\ active'[s] = active[s] /\ w \in Active(s) /\ s \notin Cli
    BY <1>5, <1>9, SupervisionAssumption DEF BeginWait
  <2> QED
    BY <1>3, <2>1, Waiting DEF ProgressOK, Active
<1>10. ASSUME NEW w \in Workers, Stop(s, w) PROVE SessionOK(s)'
  <2>1. UNCHANGED <<process, pc, current, active, timedOut, read, decision>>
    BY <1>10 DEF Stop
  <2> QED
    BY <1>1, <1>2, <2>1, SessionFrame DEF SessionOK, Launches
<1>11. CASE Reap(s)
  <2>1. /\ pc[s] \in {"waiting", "stopping"} /\ pc'[s] = "read" /\ ~ Running(Awaited(s))
        /\ UNCHANGED <<process, current, active>>
    BY <1>5, <1>11 DEF Reap
  <2>2. current[s] \in Workers /\ current[s] \in Active(s)
    BY <1>1, <2>1, AwaitedRange DEF Watching
  <2>3. Tracked(s)' /\ ProgressOK(s)'
    BY <1>1, <1>3, <1>4, <2>1 DEF Steps
  <2>4. current'[s] \in Active(s)' /\ ~ Running(Awaited(s))'
    BY <2>1, <2>2 DEF Active, Awaited, Running
  <2> QED
    BY <2>1, <2>2, <2>3, <2>4
       DEF SessionOK, ActiveOK, Tracked, JudgingOK, Judging
<1>12. CASE Timeout(s)
  <2>1. /\ pc[s] = "waiting" /\ pc'[s] = "stopping" /\ UNCHANGED <<process, current, active>>
    BY <1>5, <1>12 DEF Timeout
  <2>2. current[s] \in Workers /\ current[s] \in Active(s)
    BY <1>1, <2>1, AwaitedRange DEF Watching
  <2>3. Tracked(s)' /\ ProgressOK(s)'
    BY <1>1, <1>3, <1>4, <2>1 DEF Steps
  <2> QED
    BY <2>1, <2>2, <2>3, Waiting DEF Active
<1>13. CASE Kill(s)
  <2>1. /\ UNCHANGED <<pc, current, active, timedOut, read, decision>> /\ pc[s] = "stopping"
        /\ process' = [process EXCEPT ![Awaited(s)].state = "failed"]
    BY <1>13 DEF Kill
  <2>2. Awaited(s) \in Launches
    BY <1>1, <2>1, AwaitedRange DEF Watching
  <2>3. Launches' = Launches /\ \A l \in Launches : process'[l].owner = process[l].owner
    BY <1>1, <2>1, <2>2, ProcessRange DEF Launches, Processes
  <2> QED
    BY <1>1, <1>2, <2>1, <2>3, SessionFrame DEF SessionOK
<1>14. CASE ReadResult(s)
  <2>1. /\ pc[s] = "read" /\ pc'[s] = "accept" /\ UNCHANGED <<process, current, active, timedOut>>
    BY <1>5, <1>14 DEF ReadResult
  <2>2. /\ read'[s] \in Reads
        /\ read'[s].result.status = "completed" => Execution(s) = "completed"
    BY <1>1, <1>14, ReadType
  <2>3. current[s] \in Workers /\ current[s] \in Active(s)
    BY <1>1, <2>1, AwaitedRange DEF Watching, AfterWait
  <2>4. Tracked(s)' /\ ProgressOK(s)'
    BY <1>1, <1>3, <1>4, <2>1 DEF Steps
  <2>5. ~ Running(Awaited(s))' /\ Execution(s)' = Execution(s)
    BY <1>1, <1>2, <2>1, AwaitedStays DEF AfterWait
  <2>6. read'[s] \in Reads'
    BY <2>1, <2>2 DEF Reads, Launches
  <2> QED
    BY <2>1, <2>2, <2>3, <2>4, <2>5, <2>6
       DEF SessionOK, ActiveOK, Tracked, JudgingOK, Active, AfterWait, Judging
<1>15. ASSUME NEW left, left = active[s] \/ (left = Others(s) /\ pc[s] = "finish"),
              Raise(s, left) \/ EndSession(s, "raised"), pc[s] \in Steps, UNCHANGED current
       PROVE  SessionOK(s)'
  <2>1. CASE EndSession(s, "raised")
    <3>1. /\ Launches' = Launches /\ pc'[s] = "raised" /\ active'[s] = <<>>
          /\ \A l \in Launches : process'[l].owner # s
      BY <1>1, <1>5, <2>1, Disowned, SupervisionAssumption
    <3>2. Tracked(s)'
      BY <3>1 DEF Tracked, Active
    <3> QED
      BY <3>1, <3>2, Outside DEF Watching, AfterWait, Judging, Steps
  <2>2. CASE ~ EndSession(s, "raised")
    <3>1. /\ s \in Library /\ pc'[s] = "ready" /\ active'[s] = left /\ UNCHANGED process
      BY <1>5, <1>15, <2>2 DEF Raise
    <3>2. Tracked(s)'
      BY <1>1, <1>3, <1>15, <3>1, OthersTracked DEF AfterWait, Judging
    <3>3. current'[s] \in Workers /\ ProgressOK(s)'
      BY <1>1, <1>15, <3>1, SupervisionAssumption DEF ActiveOK, ProgressOK
    <3> QED
      BY <3>1, <3>2, <3>3, Outside DEF Watching, AfterWait, Judging
  <2> QED
    BY <2>1, <2>2
<1>16. CASE Fail(s) \/ Crash(s)
  <2>1. pc[s] \in Steps /\ UNCHANGED current
    BY <1>16 DEF Fail, Crash, Steps
  <2>2. \E left : /\ left = active[s] \/ (left = Others(s) /\ pc[s] = "finish")
                  /\ Raise(s, left) \/ EndSession(s, "raised")
    BY <1>16 DEF Fail, Crash
  <2> QED
    BY <1>15, <2>1, <2>2
<1>17. CASE AcceptResult(s)
  <2>1. CASE Raise(s, active[s])
    BY <1>15, <1>17, <2>1 DEF AcceptResult, Steps
  <2>2. CASE ~ Raise(s, active[s])
    <3>1. /\ pc[s] = "accept" /\ pc'[s] = "decided"
          /\ UNCHANGED <<process, current, active, timedOut, read>>
          /\ results' = [results EXCEPT ![Key(s)] = read[s].result]
          /\ decision'[s] => read[s].result.status = "completed"
      BY <1>5, <1>17, <2>2 DEF AcceptResult, AcceptedFor, Accepted, Key
    <3>2. /\ read[s] \in Reads
          /\ read[s].result.status = "completed" => Execution(s) = "completed"
      BY <1>1, <3>1 DEF JudgingOK, Judging
    <3>3. Key(s)' = Key(s) /\ Key(s) \in Keys /\ read[s].result # None
      BY <3>1, <3>2, SupervisionAssumption DEF Key, Keys, Reads, WorkerResults
    <3>4. results'[Key(s)] # None
      BY <1>1, <3>1, <3>3 DEF TypeOK, Keys
    <3>5. current[s] \in Workers /\ current[s] \in Active(s)
      BY <1>1, <3>1, AwaitedRange DEF Watching, AfterWait, Judging
    <3>6. Tracked(s)' /\ ProgressOK(s)'
      BY <1>1, <1>3, <1>4, <3>1 DEF Steps
    <3>7. ~ Running(Awaited(s))' /\ Execution(s)' = Execution(s)
      BY <1>1, <1>2, <3>1, AwaitedStays DEF AfterWait, Judging
    <3>8. read'[s] \in Reads'
      BY <3>1, <3>2 DEF Reads, Launches
    <3>9. ActiveOK(s)'
      BY <3>1, <3>5, <3>6, <3>7 DEF ActiveOK, Tracked, Active
    <3>10. JudgingOK(s)'
      BY <3>1, <3>2, <3>3, <3>4, <3>7, <3>8 DEF JudgingOK
    <3> QED
      BY <3>6, <3>9, <3>10 DEF SessionOK
  <2> QED
    BY <2>1, <2>2
<1>18. CASE RecordDecision(s)
  <2>1. /\ pc[s] = "decided" /\ pc'[s] = "finish"
        /\ UNCHANGED <<process, results, current, active, timedOut, read, decision>>
    BY <1>5, <1>18 DEF RecordDecision
  <2> DEFINE e == Event(IF decision[s] THEN "accepted" ELSE "rejected",
                        Awaited(s), read[s].result.worker, read[s].result.task,
                        Execution(s), read[s].writer)
  <2>2. e \in events' /\ e.type = (IF decision[s] THEN "accepted" ELSE "rejected")
        /\ e.launch = Awaited(s)
    BY <1>18 DEF RecordDecision, RecordEvent, Event
  <2> HIDE DEF e
  <2>3. current[s] \in Workers /\ current[s] \in Active(s)
    BY <1>1, <2>1, AwaitedRange DEF Watching, AfterWait, Judging
  <2>4. Tracked(s)' /\ ProgressOK(s)'
    BY <1>1, <1>3, <1>4, <2>1 DEF Steps
  <2>5. Awaited(s)' = Awaited(s) /\ ~ Running(Awaited(s))' /\ Execution(s)' = Execution(s)
    BY <1>1, <1>2, <2>1, AwaitedStays DEF AfterWait, Judging
  <2>6. ActiveOK(s)'
    BY <2>1, <2>3, <2>4, <2>5 DEF ActiveOK, Tracked, Active
  <2>7. Key(s)' = Key(s) /\ read'[s] = read[s] /\ read[s] \in Reads' /\ decision'[s] = decision[s]
    BY <1>1, <2>1 DEF Key, Reads, Launches, JudgingOK, Judging
  <2>8. JudgingOK(s)'
    BY <1>1, <2>1, <2>5, <2>7, <2>2 DEF JudgingOK, Judging
  <2> QED
    BY <2>4, <2>6, <2>8 DEF SessionOK
<1>19. CASE Finish(s)
  <2>1. /\ pc[s] = "finish" /\ pc'[s] \in {"ready", "done"} /\ UNCHANGED process
        /\ active'[s] = Others(s)
    BY <1>5, <1>19 DEF Finish
  <2>2. Tracked(s)'
    BY <1>1, <2>1, OthersTracked DEF AfterWait, Judging
  <2>3. ASSUME pc'[s] = "ready" PROVE current'[s] \in Workers /\ ProgressOK(s)'
    <3>1. current[s] \in Workers /\ process[Awaited(s)].worker = current[s]
      BY <1>1, <2>1, AwaitedRange DEF Watching, AfterWait, Judging
    <3>2. CASE s \in Library
      <4>1. UNCHANGED current /\ s \notin Cli
        BY <1>19, <3>2, SupervisionAssumption DEF Finish
      <4> QED
        BY <3>1, <4>1 DEF ProgressOK
    <3>3. CASE s \in Cli
      <4>1. decision[s] /\ current[s] < NumWorkers /\ current'[s] = current[s] + 1
        BY <1>5, <1>19, <2>3, <3>3, SupervisionAssumption DEF Finish
      <4>2. WasAccepted(current[s])
        BY <1>1, <2>1, <3>1, <4>1 DEF JudgingOK, WasAccepted
      <4>3. \A v \in Workers : v < current'[s] => WasAccepted(v)
        <5>1. \A v \in Workers : v < current[s] => WasAccepted(v)
          BY <1>1, <2>1, <3>3 DEF ProgressOK, Steps
        <5> QED
          BY <3>1, <4>1, <4>2, <5>1, SupervisionAssumption DEF Workers
      <4>4. current'[s] \in Workers
        BY <3>1, <4>1, SupervisionAssumption DEF Workers
      <4> QED
        BY <1>1, <1>2, <4>3, <4>4, AcceptedStays DEF ProgressOK
    <3> QED
      BY <3>2, <3>3 DEF Sessions
  <2> QED
    BY <2>1, <2>2, <2>3, Outside DEF Watching, AfterWait, Judging, Steps
<1> QED
  BY <1>6, <1>7, <1>8, <1>9, <1>10, <1>11, <1>12, <1>13, <1>14, <1>16, <1>17, <1>18, <1>19
     DEF SessionStep, Supervise, Call

-----------------------------------------------------------------------------
(* The invariant holds                                                      *)

LEMMA Starts == Init => SInv
<1> SUFFICES ASSUME Init PROVE SInv
  OBVIOUS
<1>1. Launches = {} /\ process \in Seq(Processes)
  BY DEF Init, Launches
<1>2. <<>> \in ActiveMaps
  <2>1. <<>> \in [{} -> Launches]
    OBVIOUS
  <2> QED
    BY <2>1 DEF ActiveMaps
<1>3. TypeOK
  <2>1. active \in [Sessions -> ActiveMaps] /\ current \in [Sessions -> 0 .. NumWorkers]
    BY <1>2, SupervisionAssumption DEF Init
  <2>2. faults \in 0 .. MaxFaults /\ events = {} /\ Rows = {}
    BY SupervisionAssumption DEF Init, Rows
  <2> QED
    BY <1>1, <2>1, <2>2 DEF Init, TypeOK, ActiveMaps, Processes
<1>4. \A s \in Sessions : SessionOK(s)
  BY <1>1 DEF Init, SessionOK, ActiveOK, JudgingOK, ProgressOK, Active, Steps, Watching, AfterWait, Judging
<1> QED
  BY <1>3, <1>4 DEF SInv

LEMMA Kept == SInv /\ [Next]_vars => SInv'
<1> SUFFICES ASSUME SInv, [Next]_vars PROVE SInv'
  OBVIOUS
<1>1. TypeOK /\ TypeOK' /\ \A s \in Sessions : SessionOK(s)
  BY TypesKept DEF SInv
<1>2. ASSUME NEW s \in Sessions, SessionStep(s), NEW t \in Sessions PROVE SessionOK(t)'
  <2>1. CASE t = s
    BY <1>1, <1>2, <2>1, OwnStep
  <2>2. CASE t # s
    BY <1>1, <1>2, <2>2, SessionEffect, SessionFrame
  <2> QED
    BY <2>1, <2>2
<1>3. ASSUME NEW l \in Launches, Provider(l), NEW t \in Sessions PROVE SessionOK(t)'
  <2>1. /\ Later /\ Launches' = Launches /\ \A j \in Launches : process'[j].owner = process[j].owner
        /\ UNCHANGED <<pc, current, active, timedOut, read, decision>>
    BY <1>1, <1>3, ProviderEffect
  <2> QED
    BY <1>1, <2>1, SessionFrame
<1>4. ASSUME UNCHANGED vars, NEW t \in Sessions PROVE SessionOK(t)'
  <2>1. /\ Later /\ UNCHANGED <<process, pc, current, active, timedOut, read, decision>>
    BY <1>4 DEF vars, dbVars, Later, Launches
  <2> QED
    BY <1>1, <2>1, SessionFrame DEF Launches
<1> QED
  BY <1>1, <1>2, <1>3, <1>4 DEF SInv, Next, SessionStep

LEMMA Invariant == Spec => []SInv
  BY Starts, Kept, PTL DEF Spec

\* The state has its types: no provider, session or failure makes Chief keep
\* something that is no WorkerResult, or an active process it has no entry for.
THEOREM SupervisionTypes == Spec => []TypeOK
<1>1. SInv => TypeOK
  BY DEF SInv
<1> QED
  BY <1>1, Invariant, PTL

\* A manager never loses sight of a running process it started.
THEOREM RunningProcessesAreActive == Spec => []RunningIsActive
<1>1. SInv => RunningIsActive
  BY ProcessRange DEF SInv, SessionOK, ActiveOK, RunningIsActive, Processes
<1> QED
  BY <1>1, Invariant, PTL

-----------------------------------------------------------------------------
(* The event log                                                            *)

\* Every step takes nothing back.
LEMMA AlwaysLater ==
  ASSUME SInv, [Next]_vars
  PROVE  Later
<1>1. CASE UNCHANGED vars
  BY <1>1 DEF vars, dbVars, Later, Launches
<1>2. CASE Next
  BY <1>2, SessionEffect, ProviderEffect DEF Next, SessionStep, SInv
<1> QED
  BY <1>1, <1>2

DecisionEvent(s) == Event(IF decision[s] THEN "accepted" ELSE "rejected", Awaited(s),
                          read[s].result.worker, read[s].result.task, Execution(s), read[s].writer)

EndEvent(s) == Event(IF decision[s] THEN "finished_accepted" ELSE "finished_rejected",
                     Awaited(s), current[s], current[s], Execution(s), None)

\* Where the events come from.
LEMMA NewEvents ==
  ASSUME SInv, [Next]_vars, NEW e \in events', e \notin events
  PROVE  \/ e.type \in {"started", "stop_requested"}
         \/ \E s \in Sessions : pc[s] = "decided" /\ e = DecisionEvent(s)
         \/ \E s \in Sessions : pc[s] = "finish" /\ e = EndEvent(s)
<1>1. CASE UNCHANGED vars
  BY <1>1 DEF vars, dbVars
<1>2. ASSUME NEW l \in Launches, Provider(l) PROVE FALSE
  BY <1>2, ProviderEffect DEF SInv, dbVars
<1>3. ASSUME NEW s \in Sessions, SessionStep(s)
      PROVE  \/ e.type \in {"started", "stop_requested"}
             \/ pc[s] = "decided" /\ e = DecisionEvent(s)
             \/ pc[s] = "finish" /\ e = EndEvent(s)
  <2>1. CASE RecordStarted(s) \/ \E w \in Workers : Stop(s, w)
    BY <2>1 DEF RecordStarted, Stop, RecordEvent, Event
  <2>2. CASE RecordDecision(s)
    BY <2>2 DEF RecordDecision, RecordEvent, DecisionEvent
  <2>3. CASE Finish(s)
    BY <2>3 DEF Finish, RecordEvent, EndEvent
  <2>4. CASE Begin(s) \/ Reap(s) \/ Timeout(s) \/ Kill(s) \/ ReadResult(s) \/ AcceptResult(s)
             \/ (\E w \in Workers : Start(s, w) \/ BeginWait(s, w)) \/ Fail(s) \/ Crash(s)
    BY <2>4 DEF Begin, Reap, Timeout, Kill, ReadResult, AcceptResult, Start, BeginWait, Fail,
                Crash, dbVars
  <2> QED
    BY <1>3, <2>1, <2>2, <2>3, <2>4 DEF SessionStep, Supervise, Call
<1> QED
  BY <1>1, <1>2, <1>3 DEF Next, SessionStep

\* What an event says of its process, its row and the decision it repeats.
EventOK(e) ==
    /\ e.type = "accepted" => e.execution = "completed" /\ process[e.launch].state = "completed"
    /\ e.type \in {"accepted", "rejected"} =>
          /\ <<e.worker, e.task>> \in Keys /\ results[<<e.worker, e.task>>] # None
          /\ ~ Running(e.launch)
    /\ e.type = "finished_accepted" =>
          \E d \in events : d.type = "accepted" /\ d.launch = e.launch
    /\ e.type = "finished_rejected" =>
          \E d \in events : d.type = "rejected" /\ d.launch = e.launch

EInv == SInv /\ \A e \in events : EventOK(e)

LEMMA EventsKept == EInv /\ [Next]_vars => EInv'
<1> SUFFICES ASSUME EInv, [Next]_vars PROVE EInv'
  OBVIOUS
<1>1. SInv /\ SInv' /\ TypeOK /\ Later
  BY Kept, AlwaysLater DEF EInv, SInv
<1>2. ASSUME NEW e \in events PROVE EventOK(e)'
  <2>1. e.launch \in Launches /\ EventOK(e)
    BY <1>1 DEF TypeOK, EInv
  <2>2. ~ Running(e.launch) => process'[e.launch].state = process[e.launch].state
    BY <1>1, <2>1 DEF Later
  <2> QED
    BY <1>1, <2>1, <2>2 DEF EventOK, Later, Running
<1>3. ASSUME NEW e \in events', e \notin events PROVE EventOK(e)'
  <2>1. CASE e.type \in {"started", "stop_requested"}
    BY <2>1 DEF EventOK
  <2>2. ASSUME NEW s \in Sessions, pc[s] = "decided", e = DecisionEvent(s) PROVE EventOK(e)'
    <3>1. /\ ActiveOK(s) /\ Awaited(s) \in Launches /\ ~ Running(Awaited(s))
          /\ process'[Awaited(s)].state = process[Awaited(s)].state
      BY <1>1, <2>2, AwaitedRange
         DEF SInv, SessionOK, ActiveOK, Later, Watching, AfterWait, Judging
    <3>2. /\ results[Key(s)] # None /\ read[s] \in Reads
          /\ decision[s] => Execution(s) = "completed"
      BY <1>1, <2>2 DEF SInv, SessionOK, JudgingOK, Judging
    <3>3. Key(s) \in Keys /\ results'[Key(s)] # None
      BY <1>1, <3>2 DEF Key, Keys, Reads, WorkerResults, Later
    <3>4. /\ e.type = (IF decision[s] THEN "accepted" ELSE "rejected") /\ e.launch = Awaited(s)
          /\ <<e.worker, e.task>> = Key(s) /\ e.execution = Execution(s)
      BY <2>2 DEF DecisionEvent, Event, Key
    <3>5. Execution(s) = "completed" => process[Awaited(s)].state = "completed"
      BY DEF Execution
    <3> QED
      BY <3>1, <3>2, <3>3, <3>4, <3>5 DEF EventOK, Running
  <2>3. ASSUME NEW s \in Sessions, pc[s] = "finish", e = EndEvent(s) PROVE EventOK(e)'
    <3>1. PICK d \in events : /\ d.type = IF decision[s] THEN "accepted" ELSE "rejected"
                              /\ d.launch = Awaited(s)
      BY <1>1, <2>3 DEF SInv, SessionOK, JudgingOK
    <3>2. d \in events' /\ e.launch = Awaited(s)
          /\ e.type = (IF decision[s] THEN "finished_accepted" ELSE "finished_rejected")
      BY <1>1, <2>3, <3>1 DEF Later, EndEvent, Event
    <3> QED
      BY <3>1, <3>2 DEF EventOK
  <2> QED
    BY <1>1, <1>3, <2>1, <2>2, <2>3, NewEvents
<1> QED
  BY <1>1, <1>2, <1>3 DEF EInv

LEMMA EventInvariant == Spec => []EInv
<1>1. Init => EInv
  BY Starts DEF EInv, Init
<1> QED
  BY <1>1, EventsKept, PTL DEF Spec

\* Only clean ends are accepted, whatever a provider writes while it is stopped.
THEOREM OnlyCleanExitsAreAccepted == Spec => []AcceptedAfterCleanExit
<1>1. EInv => AcceptedAfterCleanExit
  BY DEF EInv, EventOK, AcceptedAfterCleanExit
<1> QED
  BY <1>1, EventInvariant, PTL

\* The event log explains the tables, whatever stops a session.
THEOREM EventLogExplainsTables == Spec => []TrailInOrder
<1>1. EInv => TrailInOrder
  BY DEF EInv, EventOK, TrailInOrder
<1> QED
  BY <1>1, EventInvariant, PTL

-----------------------------------------------------------------------------
(* The order of the steps, and what `chief run` prints                      *)

DInv == SInv /\ DependenciesAccepted

LEMMA DependenciesKept == DInv /\ [Next]_vars => DInv'
<1> SUFFICES ASSUME DInv, [Next]_vars PROVE DInv'
  OBVIOUS
<1>1. SInv /\ SInv' /\ TypeOK /\ Later
  BY Kept, AlwaysLater DEF DInv, SInv
<1> DEFINE Ok(l, v) == \E e \in events' : /\ e.type = "accepted" /\ process'[e.launch].worker = v
                                          /\ e.launch < l
<1>2. ASSUME NEW l \in Launches, process'[l].owner \in Cli, NEW v \in DependsOn[process'[l].worker]
      PROVE  Ok(l, v)
  <2>1. process[l].owner \in Cli /\ process'[l].worker = process[l].worker
    BY <1>1, <1>2, SupervisionAssumption DEF Later, Sessions
  <2>2. PICK e \in events : e.type = "accepted" /\ process[e.launch].worker = v /\ e.launch < l
    BY <1>2, <2>1 DEF DInv, DependenciesAccepted
  <2>3. e \in events' /\ process'[e.launch].worker = v
    BY <1>1, <2>2 DEF Later, TypeOK
  <2> QED
    BY <2>2, <2>3
<1>3. ASSUME NEW l \in Launches' \ Launches, process'[l].owner \in Cli,
             NEW v \in DependsOn[process'[l].worker]
      PROVE  Ok(l, v)
  <2>1. PICK s \in Sessions : SessionStep(s)
    BY <1>1, <1>3, ProviderEffect DEF Next, SessionStep, vars, Launches
  <2>2. PICK w \in Workers : Start(s, w)
    <3>1. CASE RecordStarted(s) \/ Reap(s) \/ Timeout(s) \/ ReadResult(s)
               \/ RecordDecision(s) \/ Finish(s) \/ \E w \in Workers : BeginWait(s, w) \/ Stop(s, w)
      BY <1>3, <3>1 DEF RecordStarted, Reap, Timeout, ReadResult, RecordDecision, Finish,
                        BeginWait, Stop, Launches
    <3>2. CASE Kill(s)
      BY <1>1, <1>3, <3>2, ProcessRange DEF Kill, Launches
    <3>3. CASE Begin(s) \/ Fail(s) \/ Crash(s) \/ AcceptResult(s)
      <4>1. UNCHANGED process \/ (\E how : EndSession(s, how)) \/ \E left : Raise(s, left)
        BY <3>3 DEF Begin, Fail, Crash, AcceptResult
      <4> QED
        BY <1>1, <1>3, <4>1, Raised, Disowned DEF Launches
    <3> QED
      BY <2>1, <3>1, <3>2, <3>3 DEF SessionStep, Supervise, Call
  <2>3. /\ l \in Nat /\ \A j \in Launches : process'[j] = process[j] /\ j < l
        /\ process'[l] = [worker |-> w, owner |-> s, state |-> "running"]
    <3>1. PICK n : Launched(s, w, n)
      BY <1>1, <2>2, Started
    <3>2. l = n
      BY <1>3, <3>1 DEF Launched
    <3> QED
      BY <3>1, <3>2 DEF Launched
  <2>4. /\ s \in Cli /\ w = current[s] /\ pc[s] \in Steps /\ UNCHANGED events
    <3>1. s \in Cli
      BY <1>3, <2>3
    <3>2. (s \in Cli => w = current[s]) /\ pc[s] \in Steps /\ UNCHANGED events
      BY <2>2, SupervisionAssumption DEF Start, Steps, dbVars
    <3> QED
      BY <3>1, <3>2
  <2>5. v \in Workers /\ v < w
    BY <1>3, <2>3, SupervisionAssumption
  <2>6. PICK e \in events : e.type = "accepted" /\ process[e.launch].worker = v
    BY <1>1, <2>4, <2>5 DEF SInv, SessionOK, ProgressOK, WasAccepted
  <2>7. e.launch \in Launches
    BY <1>1 DEF TypeOK
  <2> QED
    BY <2>3, <2>4, <2>6, <2>7
<1>4. DependenciesAccepted'
  BY <1>2, <1>3 DEF DependenciesAccepted
<1> QED
  BY <1>1, <1>4 DEF DInv

\* A provider of `chief run` starts after every worker its step depends on was
\* accepted: the order of the assignments, one at a time, is enough.
THEOREM StepsFollowTheirDependencies == Spec => []DependenciesAccepted
<1>1. Init => DInv
  BY Starts DEF DInv, DependenciesAccepted, Init, Launches
<1>2. DInv => DependenciesAccepted
  BY DEF DInv
<1> QED
  BY <1>1, <1>2, DependenciesKept, PTL DEF Spec

\* Worker v was accepted with a process of session s.
OwnAccepted(s, v) ==
    \E e \in events : /\ e.type = "accepted" /\ process[e.launch].worker = v
                      /\ process[e.launch].owner = s

\* `chief run` itself has had the earlier workers accepted, and at its end the
\* last one too unless that was rejected.
OutcomesOK(s) ==
    /\ pc[s] \in Steps \cup {"done"} => \A v \in Workers : v < current[s] => OwnAccepted(s, v)
    /\ pc[s] = "done" /\ decision[s] => OwnAccepted(s, current[s]) /\ current[s] = NumWorkers

OInv == SInv /\ \A s \in Cli : OutcomesOK(s)

\* What a session's own processes earned stays while it owns them.
LEMMA OwnAcceptedStays ==
  ASSUME TypeOK, Later, NEW s, NEW v, OwnAccepted(s, v),
         \A l \in Launches : process[l].owner = s => process'[l].owner = s
  PROVE  OwnAccepted(s, v)'
<1>1. PICK e \in events : /\ e.type = "accepted" /\ process[e.launch].worker = v
                          /\ process[e.launch].owner = s
  BY DEF OwnAccepted
<1>2. e \in events' /\ process'[e.launch].worker = v /\ process'[e.launch].owner = s
  BY <1>1 DEF TypeOK, Later
<1> QED
  BY <1>1, <1>2 DEF OwnAccepted

\* A session that does not move keeps its outcomes.
LEMMA OutcomesStay ==
  ASSUME TypeOK, Later, NEW s \in Cli, OutcomesOK(s),
         pc'[s] \in Steps \cup {"done"} => pc[s] \in Steps \cup {"done"} /\ current'[s] = current[s],
         pc'[s] = "done" => pc[s] = "done" /\ decision'[s] = decision[s],
         pc'[s] # "raised" =>
            \A l \in Launches : process[l].owner = s => process'[l].owner = s
  PROVE  OutcomesOK(s)'
<1>1. CASE pc'[s] \in Steps \cup {"done"}
  <2>1. \A v : OwnAccepted(s, v) => OwnAccepted(s, v)'
    BY <1>1, OwnAcceptedStays DEF Steps
  <2> QED
    BY <1>1, <2>1 DEF OutcomesOK
<1>2. CASE pc'[s] \notin Steps \cup {"done"}
  BY <1>2 DEF OutcomesOK
<1> QED
  BY <1>1, <1>2

\* The step to the next worker, or to the end, comes after the decision on a
\* process of the session itself.
LEMMA FinishedOutcomes ==
  ASSUME SInv, NEW s \in Cli, OutcomesOK(s), Finish(s)
  PROVE  OutcomesOK(s)'
<1>1. s \in Sessions /\ s \notin Library /\ TypeOK /\ ActiveOK(s) /\ JudgingOK(s)
  BY SupervisionAssumption DEF Sessions, SInv, SessionOK
<1>2. /\ pc[s] = "finish" /\ UNCHANGED <<process, decision>> /\ events \subseteq events'
      /\ \/ decision[s] /\ current[s] < NumWorkers /\ current'[s] = current[s] + 1 /\ pc'[s] = "ready"
         \/ /\ ~ (decision[s] /\ current[s] < NumWorkers)
            /\ current'[s] = current[s] /\ pc'[s] = "done"
  BY <1>1 DEF Finish, Goto, RecordEvent, TypeOK
<1>3. \A v : OwnAccepted(s, v) => OwnAccepted(s, v)'
  BY <1>2 DEF OwnAccepted
<1>4. current[s] \in Workers /\ current[s] \in Active(s)
  BY <1>1, <1>2 DEF ActiveOK, Steps, Watching, AfterWait, Judging
<1>5. decision[s] => OwnAccepted(s, current[s])
  <2>1. process[Awaited(s)].worker = current[s] /\ process[Awaited(s)].owner = s
    BY <1>1, <1>4 DEF ActiveOK, Awaited
  <2> QED
    BY <1>1, <1>2, <2>1 DEF JudgingOK, OwnAccepted
<1>6. \A v \in Workers : v < current[s] => OwnAccepted(s, v)
  BY <1>2 DEF OutcomesOK, Steps
<1>7. \A v \in Workers : v < current'[s] => OwnAccepted(s, v)'
  BY <1>2, <1>3, <1>4, <1>5, <1>6, SupervisionAssumption DEF Workers
<1>8. pc'[s] = "done" /\ decision[s] => current[s] = NumWorkers /\ OwnAccepted(s, current[s])'
  BY <1>2, <1>3, <1>4, <1>5, SupervisionAssumption DEF Workers
<1> QED
  BY <1>2, <1>7, <1>8 DEF OutcomesOK

LEMMA OutcomesKept == OInv /\ [Next]_vars => OInv'
<1> SUFFICES ASSUME OInv, [Next]_vars PROVE OInv'
  OBVIOUS
<1>1. SInv /\ SInv' /\ TypeOK /\ Later /\ \A s \in Cli : s \in Sessions /\ OutcomesOK(s)
  BY Kept, AlwaysLater DEF OInv, SInv, Sessions
<1>2. CASE UNCHANGED vars
  <2>1. UNCHANGED <<process, pc, current, decision>>
    BY <1>2 DEF vars
  <2>2. ASSUME NEW s \in Cli PROVE OutcomesOK(s)'
    <3>1. /\ pc'[s] = pc[s] /\ current'[s] = current[s] /\ decision'[s] = decision[s]
          /\ \A l \in Launches : process'[l].owner = process[l].owner
      BY <2>1
    <3> QED
      BY <1>1, <3>1, OutcomesStay
  <2> QED
    BY <1>1, <2>2 DEF OInv
<1>3. ASSUME NEW l \in Launches, Provider(l) PROVE \A s \in Cli : OutcomesOK(s)'
  <2>1. UNCHANGED <<pc, current, decision>> /\ \A j \in Launches : process'[j].owner = process[j].owner
    BY <1>1, <1>3, ProviderEffect
  <2> QED
    BY <1>1, <2>1, OutcomesStay
<1>4. ASSUME NEW s \in Sessions, SessionStep(s), NEW t \in Cli, t # s PROVE OutcomesOK(t)'
  <2>1. pc'[t] = pc[t] /\ current'[t] = current[t] /\ decision'[t] = decision[t]
    BY <1>1, <1>4, SessionEffect
  <2>2. \A l \in Launches : process[l].owner = t => process'[l].owner = t
    BY <1>1, <1>4, SessionEffect
  <2> QED
    BY <1>1, <1>4, <2>1, <2>2, OutcomesStay
<1>5. ASSUME NEW s \in Cli, SessionStep(s) PROVE OutcomesOK(s)'
  <2> USE DEF Goto
  <2>1. s \in Sessions /\ s \notin Library /\ TypeOK /\ OutcomesOK(s)
    BY <1>1, <1>5, SupervisionAssumption
  <2>2. CASE Begin(s)
    <3>1. pc'[s] = "ready" /\ current'[s] = 1
      BY <2>1, <2>2 DEF Begin, EndSession, TypeOK
    <3> QED
      BY <3>1 DEF OutcomesOK, Workers
  <2>3. CASE RecordStarted(s) \/ Reap(s) \/ Timeout(s) \/ ReadResult(s) \/ RecordDecision(s)
    <3>1. /\ pc[s] \in Steps /\ pc'[s] # "done" /\ UNCHANGED <<process, current>>
      BY <2>1, <2>3 DEF RecordStarted, Reap, Timeout, ReadResult, RecordDecision, TypeOK, Steps
    <3> QED
      BY <1>1, <2>1, <3>1, OutcomesStay
  <2>4. CASE Kill(s)
    <3>1. /\ pc[s] = "stopping" /\ pc' = pc /\ current' = current
          /\ \A l \in Launches : process[l].owner = s => process'[l].owner = s
      BY <1>1, <2>1, <2>4, ProcessRange DEF Kill, Launches
    <3> QED
      BY <1>1, <2>1, <3>1, OutcomesStay DEF Steps
  <2>5. ASSUME NEW w \in Workers, Start(s, w) PROVE OutcomesOK(s)'
    <3>1. /\ pc[s] = "ready" /\ pc'[s] = "started" /\ current'[s] = current[s]
      BY <2>1, <2>5 DEF Start, TypeOK
    <3>2. PICK n : Launched(s, w, n)
      BY <1>1, <2>1, <2>5, Started
    <3>3. \A l \in Launches : process'[l] = process[l]
      BY <3>2 DEF Launched
    <3> QED
      BY <1>1, <2>1, <3>1, <3>3, OutcomesStay DEF Steps
  <2>6. CASE AcceptResult(s) /\ UNCHANGED process
    <3>1. pc[s] = "accept" /\ pc'[s] # "done" /\ UNCHANGED current
      BY <2>1, <2>6 DEF AcceptResult, Raise, EndSession, TypeOK
    <3> QED
      BY <1>1, <2>1, <2>6, <3>1, OutcomesStay DEF Steps
  <2>7. CASE EndSession(s, "raised") \/ (\E left : Raise(s, left))
    <3>1. pc'[s] = "raised"
      BY <2>1, <2>7 DEF Raise, EndSession, TypeOK
    <3> QED
      BY <3>1 DEF OutcomesOK, Steps
  <2>8. CASE Finish(s)
    BY <1>1, <2>1, <2>8, FinishedOutcomes
  <2>9. CASE AcceptResult(s) \/ Fail(s) \/ Crash(s)
    BY <2>6, <2>7, <2>9 DEF AcceptResult, Fail, Crash
  <2> QED
    BY <1>5, <2>1, <2>2, <2>3, <2>4, <2>5, <2>8, <2>9 DEF SessionStep, Supervise, Call
<1> QED
  BY <1>1, <1>2, <1>3, <1>4, <1>5 DEF OInv, Next, SessionStep

\* What `chief run` prints is what its own processes earned, in this run of it.
THEOREM PrintedOutcomesAreEarned == Spec => []PrintedOutcomes
<1>1. Init => OInv
  BY Starts DEF OInv, OutcomesOK, Init, Steps, Sessions
<1>2. OInv => PrintedOutcomes
  BY DEF OInv, OutcomesOK, OwnAccepted, PrintedOutcomes
<1> QED
  BY <1>1, <1>2, OutcomesKept, PTL DEF Spec

-----------------------------------------------------------------------------
(* Where results come from                                                  *)

\* Only a provider of worker w writes the file of w.
LEMMA FileOrigin ==
  ASSUME SInv, [Next]_vars, NEW w \in Workers
  PROVE  resultFile'[w] \in {resultFile[w], Invalid} \/ resultFile'[w].result \in Claims[w]
<1>1. TypeOK
  BY DEF SInv
<1>2. ASSUME NEW l \in Launches, Provider(l)
      PROVE  resultFile'[w] \in {resultFile[w], Invalid} \/ resultFile'[w].result \in Claims[w]
  <2>1. process[l].worker \in Workers
    BY <1>1, ProcessRange
  <2>2. CASE \E c \in WorkerResults :
                /\ resultFile' = [resultFile EXCEPT ![process[l].worker] = [result |-> c, writer |-> l]]
                /\ c \in Claims[process[l].worker]
    BY <1>1, <2>1, <2>2 DEF TypeOK
  <2>3. CASE resultFile' = [resultFile EXCEPT ![process[l].worker] = Invalid]
    BY <1>1, <2>1, <2>3 DEF TypeOK
  <2> QED
    BY <1>1, <1>2, <2>2, <2>3, ProviderEffect
<1>3. ASSUME NEW s \in Sessions, SessionStep(s) PROVE UNCHANGED resultFile
  BY <1>3 DEF SessionStep, Supervise, Call, Begin, RecordStarted, Reap, Timeout, Kill, ReadResult,
              AcceptResult, RecordDecision, Finish, Start, BeginWait, Stop, Fail, Crash
<1> QED
  BY <1>2, <1>3 DEF Next, SessionStep, vars

\* A session judges what it read, until it reads again.
LEMMA JudgingOrigin ==
  ASSUME SInv, [Next]_vars, NEW s \in Sessions, pc'[s] \in Judging
  PROVE  \/ ReadResult(s)
         \/ pc[s] \in Judging /\ read'[s] = read[s] /\ current'[s] = current[s]
<1> DEFINE Same(t) == pc'[t] = pc[t] /\ read'[t] = read[t] /\ current'[t] = current[t]
<1>1. TypeOK
  BY DEF SInv
<1>2. CASE UNCHANGED vars
  BY <1>2 DEF vars
<1>3. ASSUME NEW l \in Launches, Provider(l) PROVE Same(s)
  BY <1>1, <1>3, ProviderEffect
<1>4. ASSUME NEW t \in Sessions, SessionStep(t), t # s PROVE Same(s)
  BY <1>4, SessionEffect
<1>5. CASE RecordDecision(s) \/ AcceptResult(s)
  BY <1>5 DEF RecordDecision, AcceptResult, Judging
<1>6. CASE Begin(s) \/ RecordStarted(s) \/ Reap(s) \/ Timeout(s) \/ Finish(s) \/ Fail(s) \/ Crash(s)
             \/ \E w \in Workers : Start(s, w) \/ BeginWait(s, w)
  <2>1. \E step \in {"ready", "started", "waiting", "read", "stopping", "done", "raised"} :
            pc' = [pc EXCEPT ![s] = step]
    BY <1>6 DEF Begin, RecordStarted, Reap, Timeout, Finish, Fail, Crash, Start, BeginWait, Goto,
                Raise, EndSession
  <2>2. pc'[s] \notin Judging
    BY <1>1, <2>1 DEF TypeOK, Judging
  <2> QED
    BY <2>2
<1>7. CASE Kill(s) \/ \E w \in Workers : Stop(s, w)
  BY <1>7 DEF Kill, Stop
<1> QED
  BY <1>2, <1>3, <1>4, <1>5, <1>6, <1>7 DEF Next, SessionStep, Supervise, Call

\* A row changes only when a session records the result it has read, of the
\* process it has then judged.
LEMMA RowOrigin ==
  ASSUME SInv, [Next]_vars, NEW k \in Keys, results'[k] # results[k]
  PROVE  \E s \in Sessions : /\ pc[s] = "accept" /\ k = Key(s)
                              /\ results'[k] = read[s].result /\ Awaited(s) \in judged'
<1>1. TypeOK
  BY DEF SInv
<1>2. ~ UNCHANGED vars /\ \A l \in Launches : ~ Provider(l)
  BY <1>1, ProviderEffect DEF vars, dbVars
<1>3. PICK s \in Sessions : SessionStep(s)
  BY <1>2 DEF Next, SessionStep
<1>4. AcceptResult(s)
  BY <1>3 DEF SessionStep, Supervise, Call, Begin, RecordStarted, Reap, Timeout, Kill,
        ReadResult, RecordDecision, Finish, Start, BeginWait, Stop, Fail, Crash, dbVars
<1>5. /\ pc[s] = "accept" /\ results' = [results EXCEPT ![Key(s)] = read[s].result]
      /\ Awaited(s) \in judged'
  BY <1>1, <1>2, <1>4 DEF AcceptResult, Key
<1>6. k = Key(s) /\ results'[k] = read[s].result
  BY <1>1, <1>5 DEF TypeOK, Keys
<1> QED
  BY <1>5, <1>6

\* A session that judges has waited for a process of its worker to its end.
LEMMA JudgedProcess ==
  ASSUME SInv, NEW s \in Sessions, pc[s] \in Judging
  PROVE  /\ current[s] \in Workers /\ Awaited(s) \in Launches
         /\ process[Awaited(s)].worker = current[s] /\ ~ Running(Awaited(s))
  BY AwaitedRange DEF SInv, SessionOK, ActiveOK, Watching, AfterWait, Judging

\* A file, and a success read from it, is a claim of the worker's providers.
FilesClaimed == \A w \in Workers : resultFile[w] \notin {None, Invalid} =>
                    resultFile[w].result \in Claims[w]
ReadsClaimed == \A s \in Sessions : pc[s] \in Judging /\ read[s].result.status = "completed" =>
                    read[s].result \in Claims[current[s]]

CInv == SInv /\ FilesClaimed /\ ReadsClaimed /\ CompletedRowsAreEarned

\* A success goes back to the end of a process.
LEMMA EarnedKept == CInv /\ [Next]_vars => CInv'
<1> SUFFICES ASSUME CInv, [Next]_vars PROVE CInv'
  OBVIOUS
<1>1. SInv /\ SInv' /\ TypeOK /\ TypeOK' /\ Later
  BY Kept, AlwaysLater DEF CInv, SInv
<1>2. FilesClaimed'
  BY <1>1, FileOrigin DEF CInv, FilesClaimed
<1>3. ASSUME NEW s \in Sessions, pc'[s] \in Judging, read'[s].result.status = "completed"
      PROVE  read'[s].result \in Claims[current'[s]]
  <2>1. CASE ReadResult(s)
    <3>1. UNCHANGED current /\ current[s] \in Workers
      BY <1>1, <2>1 DEF ReadResult, SInv, SessionOK, ActiveOK, Steps
    <3>2. resultFile[current[s]] \notin {None, Invalid} /\ read'[s].result = resultFile[current[s]].result
      BY <1>1, <1>3, <2>1, <3>1 DEF ReadResult, FailedResult, TypeOK
    <3> QED
      BY <3>1, <3>2 DEF CInv, FilesClaimed
  <2>2. CASE pc[s] \in Judging /\ read'[s] = read[s] /\ current'[s] = current[s]
    BY <1>3, <2>2 DEF CInv, ReadsClaimed
  <2> QED
    BY <1>1, <1>3, <2>1, <2>2, JudgingOrigin
<1>4. ASSUME NEW k \in Keys, results'[k] # None, results'[k].status = "completed"
      PROVE  \E l \in Launches' : process'[l].state = "completed" /\ results'[k] \in Claims[process'[l].worker]
  <2>1. PICK l \in Launches : process[l].state = "completed" /\ results'[k] \in Claims[process[l].worker]
    <3>1. CASE results'[k] = results[k]
      <4>1. k \in Rows
        BY <1>1, <1>4, <3>1 DEF TypeOK, Keys, Rows
      <4> QED
        BY <1>4, <3>1, <4>1 DEF CInv, CompletedRowsAreEarned
    <3>2. CASE results'[k] # results[k]
      <4>1. PICK s \in Sessions : pc[s] = "accept" /\ results'[k] = read[s].result
        BY <1>1, <3>2, RowOrigin
      <4>2. Awaited(s) \in Launches /\ process[Awaited(s)].worker = current[s]
        BY <1>1, <4>1, JudgedProcess DEF Judging
      <4>3. Execution(s) = "completed" /\ read[s].result \in Claims[current[s]]
        BY <1>1, <1>4, <4>1 DEF SInv, SessionOK, JudgingOK, Judging, CInv, ReadsClaimed
      <4>4. process[Awaited(s)].state = "completed"
        BY <4>3 DEF Execution
      <4> QED
        BY <4>1, <4>2, <4>3, <4>4
    <3> QED
      BY <3>1, <3>2
  <2>2. l \in Launches' /\ process'[l].state = "completed" /\ process'[l].worker = process[l].worker
    BY <1>1, <2>1 DEF Later, Running
  <2> QED
    BY <2>1, <2>2
<1>5. CompletedRowsAreEarned'
  <2>1. Rows' = {k \in Keys : results'[k] # None}
    BY <1>1 DEF Rows, TypeOK, Keys
  <2> QED
    BY <1>4, <2>1 DEF CompletedRowsAreEarned
<1> QED
  BY <1>1, <1>2, <1>3, <1>5 DEF CInv, ReadsClaimed

\* A row that says completed was earned by a process that ended well, whatever
\* files, worker ids and repeated runs are about.
THEOREM CompletedRowsWereEarned == Spec => []CompletedRowsAreEarned
<1>1. Init => CInv
  <2>1. Init => Rows = {}
    BY DEF Init, Rows
  <2> QED
    BY <2>1, Starts DEF CInv, FilesClaimed, ReadsClaimed, Judging, CompletedRowsAreEarned, Init
<1>2. CInv => CompletedRowsAreEarned
  BY DEF CInv
<1> QED
  BY <1>1, <1>2, EarnedKept, PTL DEF Spec

\* Events and rows alike name no success that no provider had.
THEOREM SuccessesWereClean == Spec => []SuccessesAreClean
<1>1. AcceptedAfterCleanExit /\ CompletedRowsAreEarned => SuccessesAreClean
  BY DEF SuccessesAreClean
<1> QED
  BY <1>1, OnlyCleanExitsAreAccepted, CompletedRowsWereEarned, PTL

-----------------------------------------------------------------------------
(* Restarts                                                                 *)

\* Providers report in the name and for the task of the worker they are.
OwnName == \A w \in Workers : \A c \in Claims[w] : c.worker = w /\ c.task = w

\* The files and what was read of them name their worker.
FilesOwn == \A w \in Workers : resultFile[w] \notin {None, Invalid} =>
                resultFile[w].result.worker = w /\ resultFile[w].result.task = w
ReadsOwn == \A s \in Sessions : pc[s] \in Judging =>
                read[s].result.worker = current[s] /\ read[s].result.task = current[s]

\* Of an answered worker a process was judged, after its end, and one whose end
\* was logged is answered.
Answered(w) ==
    /\ results[<<w, w>>] # None => \E l \in judged : process[l].worker = w /\ ~ Running(l)
    /\ (\E e \in events : e.type \in {"finished_accepted", "finished_rejected"} /\ e.worker = w)
          => results[<<w, w>>] # None

RInv == SInv /\ FilesOwn /\ ReadsOwn /\ \A w \in Workers : Answered(w)

\* A provider that reports in its own name leaves a file that does.
LEMMA FilesKept ==
  ASSUME OwnName, RInv, [Next]_vars
  PROVE  FilesOwn'
  BY FileOrigin DEF OwnName, RInv, FilesOwn

\* A session judges what its own worker reported.
LEMMA ReadsKept ==
  ASSUME OwnName, RInv, [Next]_vars
  PROVE  ReadsOwn'
<1> SUFFICES ASSUME NEW s \in Sessions, pc'[s] \in Judging
             PROVE  read'[s].result.worker = current'[s] /\ read'[s].result.task = current'[s]
  BY DEF ReadsOwn
<1>1. TypeOK /\ ActiveOK(s)
  BY DEF RInv, SInv, SessionOK
<1>2. CASE ReadResult(s)
  <2>1. UNCHANGED current
    BY <1>2 DEF ReadResult
  <2>2. \A w \in Workers : resultFile[w] \notin {None, Invalid} =>
            resultFile[w].result.worker = w /\ resultFile[w].result.task = w
    BY DEF RInv, FilesOwn
  <2> QED
    BY <1>1, <1>2, <2>1, <2>2, ReadType
<1> QED
  BY <1>2, JudgingOrigin DEF RInv, ReadsOwn

LEMMA RestartKept == ASSUME OwnName PROVE RInv /\ [Next]_vars => RInv'
<1> SUFFICES ASSUME RInv, [Next]_vars PROVE RInv'
  OBVIOUS
<1>1. SInv /\ SInv' /\ TypeOK /\ Later /\ FilesOwn' /\ ReadsOwn'
  BY Kept, AlwaysLater, FilesKept, ReadsKept DEF RInv, SInv
<1>2. ASSUME NEW w \in Workers, results'[<<w, w>>] # None
      PROVE  \E l \in judged' : process'[l].worker = w /\ ~ Running(l)'
  <2>1. CASE results[<<w, w>>] # None
    <3>1. PICK l \in judged : process[l].worker = w /\ ~ Running(l)
      BY <2>1 DEF RInv, Answered
    <3>2. l \in judged' /\ process'[l].worker = w /\ process'[l].state = process[l].state
      BY <1>1, <3>1 DEF Later, TypeOK
    <3> QED
      BY <3>1, <3>2 DEF Running
  <2>2. CASE results[<<w, w>>] = None
    <3>1. PICK s \in Sessions : pc[s] = "accept" /\ <<w, w>> = Key(s) /\ Awaited(s) \in judged'
      <4>1. <<w, w>> \in Keys
        BY SupervisionAssumption DEF Keys, Workers
      <4> QED
        BY <1>1, <1>2, <2>2, <4>1, RowOrigin
    <3>2. /\ current[s] \in Workers /\ Awaited(s) \in Launches
          /\ process[Awaited(s)].worker = current[s] /\ ~ Running(Awaited(s))
      BY <1>1, <3>1, JudgedProcess DEF Judging
    <3>3. Key(s) = <<current[s], current[s]>>
      BY <3>1 DEF RInv, ReadsOwn, Judging, Key
    <3>4. current[s] = w
      BY <3>1, <3>3
    <3>5. /\ process'[Awaited(s)].worker = w
          /\ process'[Awaited(s)].state = process[Awaited(s)].state
      BY <1>1, <3>2, <3>4 DEF Later
    <3> QED
      BY <3>1, <3>2, <3>5 DEF Running
  <2> QED
    BY <2>1, <2>2
<1>3. ASSUME NEW w \in Workers, NEW e \in events',
             e.type \in {"finished_accepted", "finished_rejected"}, e.worker = w
      PROVE  results'[<<w, w>>] # None
  <2>1. <<w, w>> \in Keys
    BY SupervisionAssumption DEF Keys, Workers
  <2>2. results[<<w, w>>] # None
    <3>1. CASE e \in events
      BY <1>3, <3>1 DEF RInv, Answered
    <3>2. CASE e \notin events
      <4>1. PICK s \in Sessions : pc[s] = "finish" /\ e = EndEvent(s)
        BY <1>1, <1>3, <3>2, NewEvents DEF DecisionEvent, Event
      <4>2. current[s] = w
        BY <1>3, <4>1 DEF EndEvent, Event
      <4>3. Key(s) = <<w, w>>
        BY <4>1, <4>2 DEF RInv, ReadsOwn, Judging, Key
      <4> QED
        BY <1>1, <4>1, <4>3 DEF SInv, SessionOK, JudgingOK
    <3> QED
      BY <3>1, <3>2
  <2> QED
    BY <1>1, <2>1, <2>2 DEF Later
<1>4. \A w \in Workers : Answered(w)'
  BY <1>2, <1>3 DEF Answered
<1> QED
  BY <1>1, <1>4 DEF RInv

\* After a restart recoverable_assignments finds every worker of which no ended
\* process was judged, and none whose end was logged, if every provider reports
\* in its own name.
THEOREM RestartsFindTheUnfinished == ASSUME OwnName PROVE Spec => []RestartFindsUnfinished
<1>1. Init => RInv
  <2>1. ASSUME Init PROVE \A w \in Workers : Answered(w)
    BY <2>1, SupervisionAssumption DEF Init, Answered, Workers
  <2> QED
    BY <2>1, Starts DEF RInv, FilesOwn, ReadsOwn, Judging, Init
<1>2. RInv => RestartFindsUnfinished
  <2> SUFFICES ASSUME RInv, NEW w \in Workers
               PROVE  /\ w \notin Recoverable => \E l \in judged : process[l].worker = w /\ ~ Running(l)
                      /\ (\E e \in events : /\ e.type \in {"finished_accepted", "finished_rejected"}
                                            /\ e.worker = w) => w \notin Recoverable
    BY DEF RestartFindsUnfinished
  <2>1. <<w, w>> \in Keys /\ DOMAIN results = Keys
    BY SupervisionAssumption DEF Keys, Workers, RInv, SInv, TypeOK
  <2>2. w \notin Recoverable <=> (results[<<w, w>>] # None)
    BY <2>1 DEF Recoverable, Rows
  <2> QED
    BY <2>2 DEF RInv, Answered
<1> QED
  BY <1>1, <1>2, RestartKept, PTL DEF Spec

-----------------------------------------------------------------------------
(* The contract with the providers                                          *)

\* A function on one more number is the old one with that entry appended.
LEMMA Appended ==
  ASSUME NEW n \in Nat, NEW f, NEW g, f = [l \in 1 .. n |-> f[l]],
         g = [l \in 1 .. n + 1 |-> g[l]], \A l \in 1 .. n : g[l] = f[l]
  PROVE  g = Append(f, g[n + 1])
<1> DEFINE T == {g[l] : l \in 1 .. n + 1}
<1>1. f \in [1 .. n -> T] /\ g \in [1 .. n + 1 -> T] /\ g[n + 1] \in T
  OBVIOUS
<1> HIDE DEF T
<1>2. f \in Seq(T) /\ Len(f) = n /\ g \in Seq(T) /\ Len(g) = n + 1
  BY <1>1, SeqDef
<1>3. /\ Append(f, g[n + 1]) \in Seq(T) /\ Len(Append(f, g[n + 1])) = n + 1
      /\ \A l \in 1 .. n : Append(f, g[n + 1])[l] = f[l]
      /\ Append(f, g[n + 1])[n + 1] = g[n + 1]
  BY <1>1, <1>2, AppendProperties
<1>4. ASSUME NEW l \in 1 .. n + 1 PROVE Append(f, g[n + 1])[l] = g[l]
  <2>1. l \in 1 .. n \/ l = n + 1
    OBVIOUS
  <2> QED
    BY <1>3, <2>1
<1> QED
  BY <1>2, <1>3, <1>4, SeqEqual

\* An event adds its execution to what is reported of its process.
LEMMA Recorded ==
  ASSUME NEW type, NEW l, NEW worker, NEW task, NEW execution, NEW writer,
         RecordEvent(Event(type, l, worker, task, execution, writer)), NEW k
  PROVE  Reports(k)' = IF k = l /\ type \in Reporting
                       THEN Reports(k) \cup {execution} ELSE Reports(k)
<1> DEFINE e == Event(type, l, worker, task, execution, writer)
<1>1. events' = events \cup {e} /\ e.type = type /\ e.launch = l /\ e.execution = execution
  BY DEF RecordEvent, Event
<1> HIDE DEF e
<1>2. CASE k = l /\ type \in Reporting
  BY <1>1, <1>2 DEF Reports
<1>3. CASE ~ (k = l /\ type \in Reporting)
  BY <1>1, <1>3 DEF Reports
<1> QED
  BY <1>2, <1>3

\* Nothing changes for the contract.
LEMMA ProvidersStay ==
  ASSUME UNCHANGED <<process, active>>, \A l \in Launches : Reports(l)' = Reports(l)
  PROVE  UNCHANGED Providers
BY DEF Providers, Launches, Holders, Active

\* The awaited process leaves the session's table, and no other does.
LEMMA OthersHold ==
  ASSUME TypeOK, NEW s \in Sessions, ActiveOK(s), pc[s] \in Watching,
         active' = [active EXCEPT ![s] = Others(s)], NEW l \in Launches
  PROVE  Holders(l)' = IF l = Awaited(s) THEN Holders(l) \ {s} ELSE Holders(l)
<1>1. /\ Active(s) \in SUBSET Workers /\ current[s] \in Active(s)
      /\ \A w \in Active(s) : process[active[s][w]].worker = w
  BY ActiveRange, AwaitedRange DEF ActiveOK
<1>2. \A t \in Sessions \ {s} : active'[t] = active[t] /\ Active(t)' = Active(t)
  BY DEF TypeOK, Active
<1>3. active'[s] = Others(s) /\ Active(s)' = Active(s) \ {current[s]}
  BY DEF TypeOK, Active, Others
<1>4. \A w \in Active(s) \ {current[s]} : active'[s][w] = active[s][w]
  BY <1>3 DEF Others
<1>5. \A t \in Sessions \ {s} : t \in Holders(l)' <=> t \in Holders(l)
  BY <1>2 DEF Holders
<1>6. s \in Holders(l)' <=> l # Awaited(s) /\ s \in Holders(l)
  BY <1>1, <1>3, <1>4 DEF Holders, Awaited
<1>7. /\ Awaited(s) = l => s \in Holders(l)
      /\ Holders(l) \subseteq Sessions /\ Holders(l)' \subseteq Sessions
  BY <1>1 DEF Holders, Awaited
<1> QED
  BY <1>5, <1>6, <1>7

\* Who ends loses all processes at once.
LEMMA EndingIsDying ==
  ASSUME TypeOK, NEW s \in Sessions, NEW how, EndSession(s, how), UNCHANGED events
  PROVE  Contract!Die(s)
<1>1. /\ Launches' = Launches
      /\ \A l \in Launches : /\ process'[l].worker = process[l].worker
                             /\ process'[l].state = process[l].state
      /\ active' = [active EXCEPT ![s] = <<>>]
  BY Disowned
<1>2. \A t \in Sessions \ {s} : active'[t] = active[t] /\ Active(t)' = Active(t)
  BY <1>1 DEF TypeOK, Active
<1>3. Active(s)' = {}
  BY <1>1 DEF TypeOK, Active
<1>4. \A l \in Launches : Holders(l)' = Holders(l) \ {s} /\ Reports(l)' = Reports(l)
  BY <1>2, <1>3 DEF Holders, Reports
<1> QED
  BY <1>1, <1>4 DEF Providers, Contract!Die

\* A raised call is a death, or takes at most the ended process from the table.
LEMMA RaisingKeepsContract ==
  ASSUME TypeOK, NEW s \in Sessions, ActiveOK(s), UNCHANGED events,
         \/ Raise(s, active[s])
         \/ pc[s] = "finish" /\ Raise(s, Others(s))
  PROVE  \/ Contract!Die(s) \/ UNCHANGED Providers
         \/ \E l \in DOMAIN Providers : Contract!LetGo(s, l)
<1>1. \A l \in Launches : Reports(l)' = Reports(l)
  BY DEF Reports
<1>2. CASE EndSession(s, "raised")
  BY <1>2, EndingIsDying
<1>3. CASE UNCHANGED process /\ active' = [active EXCEPT ![s] = active[s]]
  <2>1. active' = active
    BY <1>3 DEF TypeOK
  <2> QED
    BY <1>1, <1>3, <2>1, ProvidersStay
<1>4. CASE UNCHANGED process /\ active' = [active EXCEPT ![s] = Others(s)] /\ pc[s] = "finish"
  <2>1. /\ Awaited(s) \in Launches /\ ~ Running(Awaited(s))
        /\ process[Awaited(s)].state \in Contract!Ends
    BY <1>4, AwaitedRange
       DEF ActiveOK, Watching, AfterWait, Judging, Running, Processes, States, Contract!Ends
  <2>2. \A l \in Launches :
           Holders(l)' = IF l = Awaited(s) THEN Holders(l) \ {s} ELSE Holders(l)
    BY <1>4, OthersHold DEF Watching, AfterWait, Judging
  <2>3. Launches' = Launches
    BY <1>4 DEF Launches
  <2>4. Contract!LetGo(s, Awaited(s))
    BY <1>1, <1>4, <2>1, <2>2, <2>3 DEF Providers, Contract!LetGo
  <2>5. DOMAIN Providers = Launches
    BY DEF Providers
  <2> QED
    BY <2>1, <2>4, <2>5
<1> QED
  BY <1>2, <1>3, <1>4 DEF Raise

\* A process that ends, by itself or killed, ends in the contract.
LEMMA EndingAProcess ==
  ASSUME TypeOK, NEW l \in Launches, Running(l), NEW how \in {"completed", "failed"},
         process' = [process EXCEPT ![l].state = how], UNCHANGED <<active, events>>
  PROVE  Contract!End(l)
<1>1. /\ Launches' = Launches
      /\ \A k \in Launches : /\ process'[k].worker = process[k].worker
                             /\ process'[k].state = IF k = l THEN how ELSE process[k].state
  BY ProcessRange DEF Launches, Processes
<1>2. \A k \in Launches : Holders(k)' = Holders(k) /\ Reports(k)' = Reports(k)
  BY DEF Holders, Reports, Active
<1>3. Providers' = [Providers EXCEPT ![l].state = how]
  BY <1>1, <1>2 DEF Providers
<1>4. Providers[l].state = "running"
  BY DEF Running, Providers
<1> QED
  BY <1>3, <1>4 DEF Contract!End, Contract!Ends

\* Starting a worker launches a provider in its slot, which the session's table
\* had free.
LEMMA StartingLaunches ==
  ASSUME TypeOK, NEW s \in Sessions, ActiveOK(s), NEW w \in Workers, Start(s, w)
  PROVE  Contract!Launch(s, w)
<1>0. PICK n : Launched(s, w, n)
  BY Started
<1>1. Len(process) \in Nat /\ Launches = 1 .. Len(process)
  BY ProcessRange
<1>2. n = Len(process) + 1
  <2>1. Launches' = 1 .. Len(process')
    BY <1>0, LenProperties DEF Launched, Launches
  <2>2. process' = Append(process, [worker |-> w, owner |-> s, state |-> "running"])
    BY DEF Start
  <2>3. Len(process') = Len(process) + 1
    BY <2>2, AppendProperties, ProcessRange DEF TypeOK
  <2> QED
    BY <1>0, <1>1, <2>1, <2>3 DEF Launched
<1>3. UNCHANGED events /\ w \notin Active(s)
  BY DEF Start, dbVars
<1>4. \A t \in Sessions : \A v \in Active(t) : active[t][v] \in Launches
  BY ActiveRange
<1>5. \A t \in Sessions \ {s} : active'[t] = active[t] /\ Active(t)' = Active(t)
  BY <1>0 DEF Launched, TypeOK, Active
<1>6. /\ Active(s)' = Active(s) \cup {w}
      /\ \A v \in Active(s) \cup {w} : active'[s][v] = IF v = w THEN n ELSE active[s][v]
  BY <1>0 DEF Launched, TypeOK
<1>7. n \notin Launches /\ Launches' = Launches \cup {n}
  BY <1>0 DEF Launched
<1>8. ASSUME NEW l \in Launches PROVE Holders(l)' = Holders(l)
  <2>1. \A t \in Sessions \ {s} : t \in Holders(l)' <=> t \in Holders(l)
    BY <1>5 DEF Holders
  <2>2. s \in Holders(l)' <=> s \in Holders(l)
    BY <1>3, <1>6, <1>7 DEF Holders
  <2> QED
    BY <2>1, <2>2 DEF Holders
<1>9. Holders(n)' = {s}
  <2>1. \A t \in Sessions \ {s} : t \notin Holders(n)'
    BY <1>4, <1>5, <1>7 DEF Holders
  <2>2. s \in Holders(n)'
    BY <1>6 DEF Holders
  <2> QED
    BY <2>1, <2>2 DEF Holders
<1>10. Reports(n)' = {} /\ \A l \in Launches : Reports(l)' = Reports(l)
  BY <1>3, <1>7 DEF TypeOK, Reports
<1>11. Providers'[n] = [slot |-> w, state |-> "running", holders |-> {s}, reports |-> {}]
  <2>1. process'[n].worker = w /\ process'[n].state = "running" /\ n \in Launches'
    BY <1>0, <1>7 DEF Launched
  <2> QED
    BY <1>9, <1>10, <2>1 DEF Providers
<1>12. \A l \in Launches : Providers'[l] = Providers[l]
  <2>1. \A l \in Launches : process'[l] = process[l] /\ l \in Launches'
    BY <1>0, <1>7 DEF Launched
  <2> QED
    BY <1>8, <1>10, <2>1 DEF Providers
<1>13. Providers' = Append(Providers, Providers'[n])
  <2>1. Providers = [l \in 1 .. Len(process) |-> Providers[l]]
    BY <1>1 DEF Providers
  <2>2. Launches' = 1 .. Len(process) + 1
    BY <1>1, <1>2, <1>7
  <2>3. Providers' = [l \in 1 .. Len(process) + 1 |-> Providers'[l]]
    BY <2>2 DEF Providers
  <2> QED
    BY <1>1, <1>2, <1>12, <2>1, <2>3, Appended
<1>14. ASSUME NEW l \in Launches, Providers[l].slot = w PROVE s \notin Providers[l].holders
  <2>1. process[l].worker = w /\ Providers[l].holders = Holders(l)
    BY <1>14 DEF Providers
  <2> QED
    BY <1>3, <2>1 DEF Holders, ActiveOK
<1>15. DOMAIN Providers = Launches
  BY DEF Providers
<1> QED
  BY <1>11, <1>13, <1>14, <1>15 DEF Contract!Launch

\* The decision, and the end of the wait, report on a process that is held.
LEMMA ReportingKeepsContract ==
  ASSUME TypeOK, NEW s \in Sessions, ActiveOK(s), RecordDecision(s) \/ Finish(s)
  PROVE  Contract!Report(s, Awaited(s))
<1>1. pc[s] \in Watching /\ pc[s] \in AfterWait
  BY DEF RecordDecision, Finish, Watching, AfterWait, Judging
<1>2. /\ Awaited(s) \in Launches /\ current[s] \in Active(s) /\ ~ Running(Awaited(s))
      /\ process[Awaited(s)].state \in Contract!Ends
      /\ Execution(s) \in {process[Awaited(s)].state, "timed_out"}
  BY <1>1, AwaitedRange
     DEF ActiveOK, Running, Processes, States, Contract!Ends, Execution
<1>3. s \in Holders(Awaited(s))
  BY <1>2 DEF Holders, Awaited
<1>4. UNCHANGED process /\ Launches' = Launches
  BY DEF RecordDecision, Finish, Launches
<1>5. \A k \in Launches :
         Reports(k)' = IF k = Awaited(s) THEN Reports(k) \cup {Execution(s)} ELSE Reports(k)
  BY Recorded DEF RecordDecision, Finish, Reporting
<1>6. PICK holders \in {Holders(Awaited(s)), Holders(Awaited(s)) \ {s}} :
         \A k \in Launches : Holders(k)' = IF k = Awaited(s) THEN holders ELSE Holders(k)
  <2>1. CASE RecordDecision(s)
    <3>1. \A k \in Launches : Holders(k)' = Holders(k)
      BY <2>1 DEF RecordDecision, Holders, Active
    <3> QED
      BY <3>1
  <2>2. CASE Finish(s)
    <3>1. active' = [active EXCEPT ![s] = Others(s)]
      BY <2>2 DEF Finish
    <3>2. \A k \in Launches :
             Holders(k)' = IF k = Awaited(s) THEN Holders(k) \ {s} ELSE Holders(k)
      BY <1>1, <3>1, OthersHold
    <3> QED
      BY <3>2
  <2> QED
    BY <2>1, <2>2
<1> DEFINE l == Awaited(s)
           after == [Providers EXCEPT ![l].reports = Providers[l].reports \cup {Execution(s)},
                                      ![l].holders = holders]
<1>7. /\ Providers[l].reports = Reports(l) /\ Providers[l].holders = Holders(l)
      /\ Providers[l].state = process[l].state /\ DOMAIN Providers = Launches
  BY <1>2 DEF Providers
<1>8. Providers' = after
  <2>1. Providers' = [k \in Launches |-> [slot |-> process[k].worker, state |-> process[k].state,
                         holders |-> IF k = l THEN holders ELSE Holders(k),
                         reports |-> IF k = l THEN Reports(k) \cup {Execution(s)} ELSE Reports(k)]]
    BY <1>4, <1>5, <1>6 DEF Providers
  <2> QED
    BY <1>2, <2>1 DEF Providers
<1> HIDE DEF l, after
<1>9. /\ s \in Providers[l].holders /\ Providers[l].state \in Contract!Ends
      /\ Execution(s) \in {Providers[l].state, "timed_out"}
      /\ holders \in {Providers[l].holders, Providers[l].holders \ {s}}
  BY <1>2, <1>3, <1>6, <1>7 DEF l
<1> QED
  BY <1>8, <1>9 DEF l, after, Contract!Report

\* A session's step is at most one step of the contract.
LEMMA SessionKeepsContract ==
  ASSUME SInv, NEW s \in Sessions, SessionStep(s)
  PROVE  Contract!Next \/ UNCHANGED Providers
<1>1. TypeOK /\ ActiveOK(s)
  BY DEF SInv, SessionOK
<1>2. CASE (\E w \in Workers : BeginWait(s, w) \/ Stop(s, w)) \/ RecordStarted(s)
           \/ Reap(s) \/ Timeout(s) \/ ReadResult(s)
  <2>1. UNCHANGED <<process, active>>
    BY <1>2 DEF BeginWait, Stop, RecordStarted, Reap, Timeout, ReadResult
  <2>2. \A k \in Launches : Reports(k)' = Reports(k)
    <3>1. CASE UNCHANGED events
      BY <3>1 DEF Reports
    <3>2. CASE RecordStarted(s) \/ \E w \in Workers : Stop(s, w)
      BY <3>2, Recorded DEF RecordStarted, Stop, Reporting
    <3> QED
      BY <1>2, <3>1, <3>2 DEF BeginWait, Reap, Timeout, ReadResult, dbVars
  <2> QED
    BY <2>1, <2>2, ProvidersStay
<1>3. ASSUME NEW w \in Workers, Start(s, w) PROVE Contract!Next
  BY <1>1, <1>3, StartingLaunches DEF Contract!Next
<1>4. CASE Kill(s)
  <2>1. /\ Awaited(s) \in Launches /\ Running(Awaited(s)) /\ UNCHANGED <<active, events>>
        /\ process' = [process EXCEPT ![Awaited(s)].state = "failed"]
    BY <1>1, <1>4, AwaitedRange DEF Kill, dbVars, Watching
  <2>2. Contract!End(Awaited(s))
    BY <1>1, <2>1, EndingAProcess
  <2>3. DOMAIN Providers = Launches
    BY DEF Providers
  <2> QED
    BY <2>1, <2>2, <2>3 DEF Contract!Next
<1>5. CASE RecordDecision(s) \/ Finish(s)
  <2>1. Contract!Report(s, Awaited(s))
    BY <1>1, <1>5, ReportingKeepsContract
  <2>2. Awaited(s) \in DOMAIN Providers
    BY <1>1, <1>5, AwaitedRange
       DEF RecordDecision, Finish, Watching, AfterWait, Judging, Providers
  <2> QED
    BY <2>1, <2>2 DEF Contract!Next
<1>6. CASE AcceptResult(s) /\ UNCHANGED <<process, active>>
  <2>1. \A k \in Launches : Reports(k)' = Reports(k)
    BY <1>6 DEF AcceptResult, Reports
  <2> QED
    BY <1>6, <2>1, ProvidersStay
<1>7. ASSUME UNCHANGED events, \/ Raise(s, active[s]) \/ \E how : EndSession(s, how)
                               \/ pc[s] = "finish" /\ Raise(s, Others(s))
      PROVE  Contract!Next \/ UNCHANGED Providers
  BY <1>1, <1>7, RaisingKeepsContract, EndingIsDying DEF Contract!Next
<1>8. CASE AcceptResult(s) /\ Raise(s, active[s])
  BY <1>7, <1>8 DEF AcceptResult
<1>9. CASE Begin(s) \/ Fail(s) \/ Crash(s)
  BY <1>7, <1>9 DEF Begin, Fail, Crash, dbVars
<1>10. AcceptResult(s) => UNCHANGED <<process, active>> \/ Raise(s, active[s])
  BY DEF AcceptResult
<1> QED
  BY <1>2, <1>3, <1>4, <1>5, <1>6, <1>8, <1>9, <1>10 DEF SessionStep, Supervise, Call

\* So is a provider's: it ends, or only writes.
LEMMA ProviderKeepsContract ==
  ASSUME TypeOK, NEW l \in Launches, Provider(l)
  PROVE  Contract!Next \/ UNCHANGED Providers
<1>1. ASSUME NEW c, WriteResult(l, c) PROVE UNCHANGED Providers
  <2>1. UNCHANGED <<process, active, events>>
    BY <1>1 DEF WriteResult, dbVars
  <2> QED
    BY <2>1, ProvidersStay DEF Reports
<1>2. ASSUME NEW how \in {"completed", "failed"}, Exit(l, how) PROVE Contract!Next
  <2>1. Contract!End(l)
    BY <1>2, EndingAProcess DEF Exit, dbVars
  <2>2. DOMAIN Providers = Launches
    BY DEF Providers
  <2> QED
    BY <2>1, <2>2 DEF Contract!Next
<1> QED
  BY <1>1, <1>2 DEF Provider

\* The managers keep the contract with their providers, for any workers,
\* sessions, processes and failures.
THEOREM SupervisionKeepsContract == Spec => ImplementsContract
<1>1. Init => Contract!Init
  BY DEF Init, Launches, Providers, Contract!Init
<1>2. ASSUME SInv, [Next]_vars PROVE [Contract!Next]_Providers
  <2>1. CASE UNCHANGED vars
    BY <2>1, ProvidersStay DEF vars, dbVars, Reports
  <2>2. ASSUME NEW s \in Sessions, SessionStep(s) PROVE [Contract!Next]_Providers
    BY <1>2, <2>2, SessionKeepsContract
  <2>3. ASSUME NEW l \in Launches, Provider(l) PROVE [Contract!Next]_Providers
    BY <1>2, <2>3, ProviderKeepsContract DEF SInv
  <2> QED
    BY <1>2, <2>1, <2>2, <2>3 DEF Next, SessionStep
<1>3. SInv /\ [Next]_vars => [Contract!Next]_Providers
  BY <1>2
<1> QED
  BY <1>1, <1>3, Invariant, PTL DEF Spec, ImplementsContract, Contract!Spec

=============================================================================
