--------------------------- MODULE SkillTracesProofs ---------------------------
(***************************************************************************)
(* The Skill trace gate decides the route that was followed, for traces of *)
(* any length, with any skills and numbers.                                *)
(*                                                                         *)
(* The gate looks at the last completed entry of each stage.  That there   *)
(* is a last one is kept, entry by entry, as an invariant of the trace.    *)
(***************************************************************************)
EXTENDS SkillTraces, SequenceTheorems, TLAPS

-----------------------------------------------------------------------------
(* The trace                                                                *)

Entries == [stage : Stages \cup OtherStages, status : Statuses, sequence : Nat \ {0}]

\* A stage that was completed has a last entry that completed it.
HasLast(trace, stage) ==
    (\E i \in DOMAIN trace : CompletedAt(trace, stage, i))
        => \E i \in DOMAIN trace : LastCompletedAt(trace, stage, i)

TInv == skill_traces \in Seq(Entries) /\ \A stage \in Stages : HasLast(skill_traces, stage)

\* An entry more: it is the last of its own stage, and changes no other's.
LEMMA AppendKeepsLast ==
  ASSUME NEW trace \in Seq(Entries), NEW e \in Entries, NEW stage, HasLast(trace, stage)
  PROVE  HasLast(Append(trace, e), stage)
<1> DEFINE longer == Append(trace, e)
           n == Len(trace) + 1
<1>1. /\ DOMAIN trace = 1 .. Len(trace) /\ Len(trace) \in Nat /\ DOMAIN longer = 1 .. n
      /\ \A i \in 1 .. Len(trace) : longer[i] = trace[i]
      /\ longer[n] = e /\ n \in DOMAIN longer
      /\ \A i \in DOMAIN longer : i <= n /\ (i = n \/ i \in DOMAIN trace)
      /\ DOMAIN trace \subseteq DOMAIN longer
  OBVIOUS
<1> HIDE DEF longer, n
<1>2. \A i \in DOMAIN trace : CompletedAt(longer, stage, i) <=> CompletedAt(trace, stage, i)
  BY <1>1 DEF CompletedAt
<1>3. CASE CompletedAt(longer, stage, n)
  BY <1>1, <1>3 DEF HasLast, LastCompletedAt, longer
<1>4. CASE ~ CompletedAt(longer, stage, n)
  <2>1. ASSUME NEW i \in DOMAIN longer, CompletedAt(longer, stage, i)
        PROVE  i \in DOMAIN trace /\ CompletedAt(trace, stage, i)
    BY <1>1, <1>2, <1>4, <2>1
  <2>2. ASSUME NEW i \in DOMAIN trace, LastCompletedAt(trace, stage, i)
        PROVE  LastCompletedAt(longer, stage, i)
    BY <1>2, <2>1, <2>2 DEF LastCompletedAt
  <2> QED
    BY <1>1, <2>1, <2>2 DEF HasLast, longer
<1> QED
  BY <1>3, <1>4

LEMMA TraceInvariant == Spec => []TInv
<1>1. Init => TInv
  BY DEF Init, TInv, HasLast
<1>2. TInv /\ [Next]_vars => TInv'
  <2> SUFFICES ASSUME TInv, [Next]_vars PROVE TInv'
    OBVIOUS
  <2>1. ASSUME NEW e \in Entries, skill_traces' = Append(skill_traces, e) PROVE TInv'
    BY <2>1, AppendKeepsLast DEF TInv
  <2>2. CASE Next
    <3>1. PICK stage \in Stages \cup OtherStages, status \in Statuses :
             \/ RecordSkillTrace(stage, status)
             \/ \E n \in OwnNumbers : WriteSkillTrace(stage, status, n)
      BY <2>2 DEF Next
    <3>2. Len(skill_traces) + 1 \in Nat \ {0} /\ \A n \in OwnNumbers : n \in Nat \ {0}
      BY TraceAssumption DEF TInv
    <3>3. \E n \in Nat \ {0} : skill_traces' = Append(skill_traces, Entry(stage, status, n))
      BY <3>1, <3>2 DEF RecordSkillTrace, WriteSkillTrace
    <3>4. \A n \in Nat \ {0} : Entry(stage, status, n) \in Entries
      BY DEF Entry, Entries
    <3> QED
      BY <2>1, <3>3, <3>4
  <2>3. CASE UNCHANGED vars
    BY <2>3 DEF vars, TInv
  <2> QED
    BY <2>2, <2>3
<1> QED
  BY <1>1, <1>2, PTL DEF Spec

-----------------------------------------------------------------------------
(* The gate and the route                                                   *)

\* The four stages are different ones.
LEMMA PipelineStages ==
  /\ Stages = {Pipeline[1], Pipeline[2], Pipeline[3], Pipeline[4]}
  /\ \A p, q \in 1 .. 4 : p # q => Pipeline[p] # Pipeline[q]
  /\ \A p \in 1 .. 4 : Pipeline[p] \in Stages
<1>1. \A p \in 1 .. 4 : p = 1 \/ p = 2 \/ p = 3 \/ p = 4
  OBVIOUS
<1>2. /\ Pipeline[1] = <<"implement", "started">> /\ Pipeline[2] = <<"tdd", "red">>
      /\ Pipeline[3] = <<"tdd", "green">> /\ Pipeline[4] = <<"code-review", "reviewed">>
  BY DEF Pipeline
<1>3. /\ Pipeline[1] # Pipeline[2] /\ Pipeline[1] # Pipeline[3] /\ Pipeline[1] # Pipeline[4]
      /\ Pipeline[2] # Pipeline[3] /\ Pipeline[2] # Pipeline[4] /\ Pipeline[3] # Pipeline[4]
  BY <1>2
<1>4. Stages = {Pipeline[1], Pipeline[2], Pipeline[3], Pipeline[4]}
  BY <1>1 DEF Stages
<1> HIDE DEF Pipeline
<1>5. \A p, q \in 1 .. 4 : p # q => Pipeline[p] # Pipeline[q]
  BY <1>1, <1>3
<1> QED
  BY <1>4, <1>5 DEF Stages

\* One entry completes one stage.
LEMMA OneStage ==
  ASSUME NEW trace, NEW p \in 1 .. 4, NEW q \in 1 .. 4, p # q, NEW i, NEW j,
         CompletedAt(trace, Pipeline[p], i), CompletedAt(trace, Pipeline[q], j)
  PROVE  i # j
  BY PipelineStages DEF CompletedAt

\* A trace passes exactly when the last completions of the stages follow each
\* other, and these exist.
LEMMA AcceptedRoute ==
  ASSUME NEW trace \in Seq(Entries), \A stage \in Stages : HasLast(trace, stage),
         SequencesOrdered(trace), Distinct(trace)
  PROVE  TraceAccepted(trace) <=> RouteFollowed(trace)
<1>1. DOMAIN trace \in SUBSET Nat /\ \A i \in DOMAIN trace : trace[i].sequence \in Nat
  <2>1. DOMAIN trace = 1 .. Len(trace) /\ \A i \in DOMAIN trace : trace[i] \in Entries
    OBVIOUS
  <2> QED
    BY <2>1 DEF Entries
<1>2. \A i, j \in DOMAIN trace : i <= j <=> trace[i].sequence <= trace[j].sequence
  BY <1>1 DEF SequencesOrdered, Distinct
<1>3. ASSUME TraceAccepted(trace) PROVE RouteFollowed(trace)
  <2>1. \A p \in 1 .. 4 : \E i \in DOMAIN trace : LastCompletedAt(trace, Pipeline[p], i)
    BY <1>3, PipelineStages DEF TraceAccepted, Missing, HasLast
  <2>2. \A p, q \in 1 .. 4 : p < q =>
          \A i, j \in DOMAIN trace :
             LastCompletedAt(trace, Pipeline[p], i) /\ LastCompletedAt(trace, Pipeline[q], j) => i < j
    <3> SUFFICES ASSUME NEW p \in 1 .. 4, NEW q \in 1 .. 4, p < q,
                        NEW i \in DOMAIN trace, NEW j \in DOMAIN trace,
                        LastCompletedAt(trace, Pipeline[p], i), LastCompletedAt(trace, Pipeline[q], j)
                 PROVE  i < j
      OBVIOUS
    <3>1. trace[i].sequence <= trace[j].sequence
      BY <1>3 DEF TraceAccepted, PhasesOrdered
    <3>2. i # j
      BY OneStage DEF LastCompletedAt
    <3> QED
      BY <1>1, <1>2, <3>1, <3>2
  <2>3. PICK a \in DOMAIN trace : LastCompletedAt(trace, Pipeline[1], a)
    BY <2>1
  <2>4. PICK b \in DOMAIN trace : LastCompletedAt(trace, Pipeline[2], b)
    BY <2>1
  <2>5. PICK c \in DOMAIN trace : LastCompletedAt(trace, Pipeline[3], c)
    BY <2>1
  <2>6. PICK d \in DOMAIN trace : LastCompletedAt(trace, Pipeline[4], d)
    BY <2>1
  <2>7. a < b /\ b < c /\ c < d
    BY <2>2, <2>3, <2>4, <2>5, <2>6
  <2>8. NoneAfter(trace, 1, b) /\ NoneAfter(trace, 2, c) /\ NoneAfter(trace, 3, d)
    <3>1. \A j \in DOMAIN trace : CompletedAt(trace, Pipeline[1], j) => j <= b /\ j <= c /\ j <= d
      BY <1>1, <2>3, <2>7 DEF LastCompletedAt
    <3>2. \A j \in DOMAIN trace : CompletedAt(trace, Pipeline[2], j) => j <= c /\ j <= d
      BY <1>1, <2>4, <2>7 DEF LastCompletedAt
    <3>3. \A j \in DOMAIN trace : CompletedAt(trace, Pipeline[3], j) => j <= d
      BY <1>1, <2>5, <2>7 DEF LastCompletedAt
    <3>4. (\A p \in 1 .. 1 : p = 1) /\ (\A p \in 1 .. 2 : p = 1 \/ p = 2)
          /\ (\A p \in 1 .. 3 : p = 1 \/ p = 2 \/ p = 3)
      OBVIOUS
    <3> QED
      BY <3>1, <3>2, <3>3, <3>4 DEF NoneAfter
  <2> QED
    BY <2>3, <2>4, <2>5, <2>6, <2>7, <2>8 DEF RouteFollowed, LastCompletedAt
<1>4. ASSUME RouteFollowed(trace) PROVE TraceAccepted(trace)
  <2>1. PICK a \in DOMAIN trace, b \in DOMAIN trace, c \in DOMAIN trace, d \in DOMAIN trace :
           /\ CompletedAt(trace, Pipeline[1], a) /\ CompletedAt(trace, Pipeline[2], b)
           /\ CompletedAt(trace, Pipeline[3], c) /\ CompletedAt(trace, Pipeline[4], d)
           /\ NoneAfter(trace, 1, b) /\ NoneAfter(trace, 2, c) /\ NoneAfter(trace, 3, d)
    BY <1>4 DEF RouteFollowed
  <2>2. \A p \in 1 .. 4 : \E i \in DOMAIN trace : CompletedAt(trace, Pipeline[p], i)
    <3>1. \A p \in 1 .. 4 : p = 1 \/ p = 2 \/ p = 3 \/ p = 4
      OBVIOUS
    <3> QED
      BY <2>1, <3>1
  <2>3. Missing(trace) = {}
    BY <2>2 DEF Missing, Stages
  <2>4. ASSUME NEW p \in 1 .. 4, NEW q \in 1 .. 4, p < q,
               NEW i \in DOMAIN trace, LastCompletedAt(trace, Pipeline[p], i),
               NEW j \in DOMAIN trace, LastCompletedAt(trace, Pipeline[q], j)
        PROVE  i <= j
    <3>1. CompletedAt(trace, Pipeline[p], i)
          /\ \A k \in DOMAIN trace : CompletedAt(trace, Pipeline[q], k) => k <= j
      BY <2>4 DEF LastCompletedAt
    <3>2. \A k \in DOMAIN trace : i <= k /\ k <= j => i <= j
      BY <1>1
    <3>3. CASE q = 2
      <4>1. p \in 1 .. 1
        BY <2>4, <3>3
      <4>2. i <= b
        BY <2>1, <3>1, <4>1 DEF NoneAfter
      <4>3. b <= j
        BY <2>1, <3>1, <3>3
      <4> QED
        BY <3>2, <4>2, <4>3
    <3>4. CASE q = 3
      <4>1. p \in 1 .. 2
        BY <2>4, <3>4
      <4>2. i <= c
        BY <2>1, <3>1, <4>1 DEF NoneAfter
      <4>3. c <= j
        BY <2>1, <3>1, <3>4
      <4> QED
        BY <3>2, <4>2, <4>3
    <3>5. CASE q = 4
      <4>1. p \in 1 .. 3
        BY <2>4, <3>5
      <4>2. i <= d
        BY <2>1, <3>1, <4>1 DEF NoneAfter
      <4>3. d <= j
        BY <2>1, <3>1, <3>5
      <4> QED
        BY <3>2, <4>2, <4>3
    <3> QED
      BY <2>4, <3>3, <3>4, <3>5
  <2>5. PhasesOrdered(trace)
    BY <1>2, <2>4 DEF PhasesOrdered
  <2> QED
    BY <2>3, <2>5 DEF TraceAccepted
<1> QED
  BY <1>3, <1>4

\* The gate accepts a trace exactly when the route was followed to its end.
THEOREM GateDecides == Spec => []GateDecidesRoute
<1>1. TInv => GateDecidesRoute
  BY AcceptedRoute DEF TInv, GateDecidesRoute
<1> QED
  BY <1>1, TraceInvariant, PTL

-----------------------------------------------------------------------------
(* Walking the route again                                                  *)

\* The trace after one more walk: every number is its entry's place, and the
\* last four entries complete the stages in order.
LEMMA WalkedAgain ==
  ASSUME NEW trace \in Seq(Entries), \A i \in DOMAIN trace : trace[i].sequence = i
  PROVE  LET longer == RouteAgain(trace)
             n == Len(trace)
         IN  /\ n \in Nat /\ DOMAIN longer = 1 .. n + 4
             /\ \A i \in DOMAIN longer : longer[i].sequence = i
             /\ \A p \in 1 .. 4 : /\ n + p \in DOMAIN longer
                                  /\ longer[n + p] = Entry(Pipeline[p], "completed", n + p)
<1> DEFINE n == Len(trace)
           walk == [p \in 1 .. 4 |-> Entry(Pipeline[p], "completed", n + p)]
           Any == Entries \cup {walk[p] : p \in 1 .. 4}
<1>1. n \in Nat /\ DOMAIN trace = 1 .. n
  OBVIOUS
<1>2. walk \in [1 .. 4 -> Any]
  OBVIOUS
<1>3. walk \in Seq(Any) /\ Len(walk) = 4
  <2> HIDE DEF walk, Any
  <2>1. walk \in Seq(Any)
    BY <1>2, SeqDef
  <2>2. DOMAIN walk = 1 .. 4
    BY <1>2
  <2> QED
    BY <2>1, <2>2, LenProperties
<1>4. trace \in Seq(Any)
  <2> HIDE DEF walk
  <2> QED
    OBVIOUS
<1>5. \A p \in 1 .. 4 : walk[p] = Entry(Pipeline[p], "completed", n + p)
  OBVIOUS
<1>6. RouteAgain(trace) = trace \o walk
  BY DEF RouteAgain
<1> HIDE DEF walk, Any
<1> DEFINE longer == trace \o walk
<1>7. /\ DOMAIN longer = 1 .. n + 4
      /\ \A i \in 1 .. n : longer[i] = trace[i]
      /\ \A p \in 1 .. 4 : longer[n + p] = walk[p]
  <2>1. longer \in Seq(Any) /\ Len(longer) = n + 4
        /\ \A i \in 1 .. n + 4 : longer[i] = IF i <= n THEN trace[i] ELSE walk[i - n]
    <3>1. /\ longer \in Seq(Any) /\ Len(longer) = Len(trace) + Len(walk)
          /\ \A i \in 1 .. Len(trace) + Len(walk) :
                longer[i] = IF i <= Len(trace) THEN trace[i] ELSE walk[i - Len(trace)]
      BY <1>3, <1>4, ConcatProperties
    <3> QED
      BY <1>3, <3>1
  <2> HIDE DEF longer
  <2>2. \A i \in 1 .. n : i \in 1 .. n + 4 /\ i <= n
    BY <1>1
  <2>3. \A p \in 1 .. 4 : n + p \in 1 .. n + 4 /\ ~ (n + p <= n) /\ (n + p) - n = p
    BY <1>1
  <2> QED
    BY <2>1, <2>2, <2>3, LenProperties
<1> HIDE DEF longer
<1>8. \A p \in 1 .. 4 : /\ n + p \in DOMAIN longer
                        /\ longer[n + p] = Entry(Pipeline[p], "completed", n + p)
  BY <1>1, <1>5, <1>7
<1>9. \A i \in DOMAIN longer : longer[i].sequence = i
  <2>1. \A i \in 1 .. n : longer[i].sequence = i
    BY <1>1, <1>7
  <2>2. \A p \in 1 .. 4 : longer[n + p].sequence = n + p
    BY <1>8 DEF Entry
  <2>3. \A i \in 1 .. n + 4 : i \in 1 .. n \/ \E p \in 1 .. 4 : i = n + p
    <3> SUFFICES ASSUME NEW i \in 1 .. n + 4, i \notin 1 .. n PROVE i - n \in 1 .. 4 /\ i = n + (i - n)
      OBVIOUS
    <3> QED
      BY <1>1
  <2> QED
    BY <1>7, <2>1, <2>2, <2>3
<1> QED
  BY <1>1, <1>6, <1>7, <1>8, <1>9 DEF longer

\* Walking the route once more always gives an accepted trace.
LEMMA AgainAccepted ==
  ASSUME NEW trace \in Seq(Entries), \A i \in DOMAIN trace : trace[i].sequence = i
  PROVE  TraceAccepted(RouteAgain(trace))
<1> DEFINE longer == RouteAgain(trace)
           n == Len(trace)
<1>1. /\ n \in Nat /\ DOMAIN longer = 1 .. n + 4
      /\ \A i \in DOMAIN longer : longer[i].sequence = i
      /\ \A p \in 1 .. 4 : /\ n + p \in DOMAIN longer
                           /\ longer[n + p] = Entry(Pipeline[p], "completed", n + p)
  BY WalkedAgain
<1> HIDE DEF longer, n
<1>2. \A p \in 1 .. 4 : CompletedAt(longer, Pipeline[p], n + p)
  BY <1>1 DEF CompletedAt, Entry
<1>3. Missing(longer) = {}
  BY <1>1, <1>2 DEF Missing, Stages
<1>4. SequencesOrdered(longer)
  BY <1>1 DEF SequencesOrdered
<1>5. ASSUME NEW p \in 1 .. 4, NEW i \in DOMAIN longer, LastCompletedAt(longer, Pipeline[p], i)
      PROVE  i = n + p
  <2>1. n + p <= i /\ i \in 1 .. n + 4
    BY <1>1, <1>2, <1>5 DEF LastCompletedAt
  <2>2. PICK q \in 1 .. 4 : i = n + q
    <3>1. i - n \in 1 .. 4 /\ i = n + (i - n)
      BY <1>1, <2>1
    <3> QED
      BY <3>1
  <2>3. q = p
    BY <1>2, <1>5, <2>2, OneStage DEF LastCompletedAt
  <2> QED
    BY <2>2, <2>3
<1>6. PhasesOrdered(longer)
  BY <1>1, <1>5 DEF PhasesOrdered
<1> QED
  BY <1>3, <1>4, <1>6 DEF TraceAccepted, longer

\* No history of recorded entries locks a worker out.
THEOREM HistoryNeverLocksOut == Spec => []RouteCanBeRepeated
<1>1. TInv => RouteCanBeRepeated
  BY AgainAccepted DEF TInv, RouteCanBeRepeated
<1> QED
  BY <1>1, TraceInvariant, PTL

=============================================================================
