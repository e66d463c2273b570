-------------------------- MODULE ProviderProcessProofs --------------------------
(***************************************************************************)
(* What the process handling of a slot promises, for any number of         *)
(* managers, launches and failures: signals reach only the provider's own  *)
(* group, a timeout leaves nobody who was not asked to end, and an         *)
(* execution's output is its own.                                          *)
(***************************************************************************)
EXTENDS ProviderProcess, SequenceTheorems, TLAPS

-----------------------------------------------------------------------------
(* The invariant                                                            *)

\* Every manager has a launch of its own.
Handles ==
    /\ \A m, n \in Managers : m # n /\ handle[m] # None => handle[m] # handle[n]
    /\ \A m \in Managers : handle[m] = None => pc[m] \in {"ready", "dead"}

\* A pid is kept until its signal is sent, and given up when the wait is over.
Held == \A m \in Managers :
    /\ pc[m] \in {"signal", "wait_signal"} => leader[handle[m]] # "reaped"
    /\ pc[m] \in {"reaped", "expired"} => leader[handle[m]] = "reaped"
    /\ pc[m] = "grace" => termed[handle[m]] \/ leader[handle[m]] = "reaped"

\* The group is asked before the leader is killed.
Asked == \A l \in Launches :
    /\ leader[l] = "killed" \/ code[l] = 9 => termed[l]
    /\ termed[l] => "unasked" \notin members[l]
    /\ outcome[l] # None /\ outcome[l].status = "timed_out" => leader[l] = "reaped"

\* A group that lives, or has written since the logs were opened, was there
\* when any later launch opened them.
Shared == \A j, l \in Launches :
    j < l /\ (GroupAlive(j) \/ j \in log) => j \in beside[l]

PInv == TypeOK /\ Handles /\ Held /\ Asked /\ Shared /\ NoStraySignal /\ OutputOfThisRun

-----------------------------------------------------------------------------
(* Launches are numbered in their order                                     *)

\* g is f, a function on n launches, with e for one more.
Extends(g, f, n, e, S) ==
    /\ g \in [1 .. (n + 1) -> S]
    /\ \A i \in 1 .. n : g[i] = f[i]
    /\ g[n + 1] = e

\* Append gives such a function.
LEMMA OneMore ==
  ASSUME NEW S, NEW n \in Nat, NEW f \in [1 .. n -> S], NEW e \in S
  PROVE  Extends(Append(f, e), f, n, e, S)
<1>1. f \in Seq(S) /\ Len(f) = n
  BY SeqDef
<1>2. /\ Append(f, e) \in Seq(S)
      /\ Len(Append(f, e)) = n + 1
      /\ \A i \in 1 .. n : Append(f, e)[i] = f[i]
      /\ Append(f, e)[n + 1] = e
  BY <1>1, AppendProperties
<1>3. QED
  BY <1>2, LenProperties DEF Extends

\* What TypeOK says of the launches, by their number.
LEMMA LaunchRange ==
  ASSUME TypeOK
  PROVE  Len(leader) \in Nat /\ Launches = 1 .. Len(leader) /\ None \notin Launches
  BY ProcessAssumption DEF TypeOK, Launches

\* Launch n is the one that Start(m) adds.
Adds(m, n) ==
    /\ Launches' = Launches \cup {n} /\ n \notin Launches /\ n \in Nat
    /\ handle' = [handle EXCEPT ![m] = n]
    /\ \A l \in Launches :
           /\ l < n
           /\ leader'[l] = leader[l] /\ code'[l] = code[l]
           /\ members'[l] = members[l] /\ termed'[l] = termed[l]
           /\ beside'[l] = beside[l] /\ outcome'[l] = outcome[l]
    /\ leader'[n] = "running" /\ code'[n] = None /\ members'[n] = {}
    /\ termed'[n] = FALSE /\ outcome'[n] = None
    /\ beside'[n] = {l \in Launches : GroupAlive(l)}
    /\ log' = {}
    /\ TypeOK'

\* A new launch leaves what is known of the earlier ones as it was.
LEMMA StartAdds ==
  ASSUME TypeOK, NEW m \in Managers, Start(m)
  PROVE  \E n : Adds(m, n)
<1>0. PICK n : n = Len(leader) + 1
  OBVIOUS
<1> DEFINE N == Len(leader)
           Codes == {None, 0, 1, 9}
           Outcomes == {None} \cup [status : {"completed", "failed", "timed_out"},
                                    output : SUBSET (1 .. (N + 1))]
           Beside == {l \in Launches : GroupAlive(l)}
<1>1. N \in Nat /\ Launches = 1 .. N /\ None \notin Launches
  BY LaunchRange
<1>2. /\ leader \in [1 .. N -> LeaderStates] /\ leader \in Seq(LeaderStates)
      /\ code \in [1 .. N -> Codes]
      /\ members \in [1 .. N -> SUBSET Kinds]
      /\ termed \in [1 .. N -> BOOLEAN]
      /\ beside \in [1 .. N -> SUBSET (1 .. (N + 1))]
      /\ outcome \in [1 .. N -> Outcomes]
  BY <1>1 DEF TypeOK
<1>3. "running" \in LeaderStates /\ None \in Codes /\ None \in Outcomes
      /\ Beside \subseteq 1 .. (N + 1)
  BY <1>1 DEF LeaderStates
<1> HIDE DEF N, Codes, Outcomes, Beside
<1>4. /\ leader' = Append(leader, "running") /\ code' = Append(code, None)
      /\ members' = Append(members, {}) /\ termed' = Append(termed, FALSE)
      /\ beside' = Append(beside, Beside)
      /\ outcome' = Append(outcome, None) /\ log' = {}
      /\ UNCHANGED <<pc, stray, faults>>
  BY DEF Start, Launch, Beside
<1>5. Extends(leader', leader, N, "running", LeaderStates)
  <2>1. N \in Nat /\ leader \in [1 .. N -> LeaderStates] /\ "running" \in LeaderStates
    BY <1>1, <1>2, <1>3
  <2>2. QED
    BY <2>1, <1>4, OneMore
<1>6. Extends(code', code, N, None, Codes)
  <2>1. N \in Nat /\ code \in [1 .. N -> Codes] /\ None \in Codes
    BY <1>1, <1>2, <1>3
  <2>2. QED
    BY <2>1, <1>4, OneMore
<1>7. Extends(members', members, N, {}, SUBSET Kinds)
  <2>1. N \in Nat /\ members \in [1 .. N -> SUBSET Kinds] /\ {} \in SUBSET Kinds
    BY <1>1, <1>2, <1>3
  <2>2. QED
    BY <2>1, <1>4, OneMore
<1>8. Extends(termed', termed, N, FALSE, BOOLEAN)
  <2>1. N \in Nat /\ termed \in [1 .. N -> BOOLEAN] /\ FALSE \in BOOLEAN
    BY <1>1, <1>2, <1>3
  <2>2. QED
    BY <2>1, <1>4, OneMore
<1>9. Extends(beside', beside, N, Beside, SUBSET (1 .. (N + 1)))
  <2>1. N \in Nat /\ beside \in [1 .. N -> SUBSET (1 .. (N + 1))] /\ Beside \in SUBSET (1 .. (N + 1))
    BY <1>1, <1>2, <1>3
  <2>2. QED
    BY <2>1, <1>4, OneMore
<1>10. Extends(outcome', outcome, N, None, Outcomes)
  <2>1. N \in Nat /\ outcome \in [1 .. N -> Outcomes] /\ None \in Outcomes
    BY <1>1, <1>2, <1>3
  <2>2. QED
    BY <2>1, <1>4, OneMore
<1>11. Launches' = 1 .. (N + 1) /\ leader' \in Seq(LeaderStates) /\ Len(leader') = N + 1
  BY <1>1, <1>2, <1>3, <1>4, <1>5 DEF Launches, N, Extends
<1>12. handle' = [handle EXCEPT ![m] = N + 1]
  BY <1>11 DEF Start, Launch
<1>13. handle' \in [Managers -> Launches' \cup {None}]
  BY <1>1, <1>11, <1>12 DEF TypeOK
<1>14. TypeOK'
  BY <1>1, <1>4, <1>5, <1>6, <1>7, <1>8, <1>9, <1>10, <1>11, <1>13
     DEF TypeOK, Codes, Outcomes, Extends
<1>15. n = N + 1
  BY <1>0 DEF N
<1>16. Launches' = Launches \cup {n} /\ n \notin Launches /\ n \in Nat
       /\ \A l \in Launches : l < n
  BY <1>1, <1>11, <1>15
<1>17. /\ \A l \in Launches :
              /\ leader'[l] = leader[l] /\ code'[l] = code[l]
              /\ members'[l] = members[l]
              /\ beside'[l] = beside[l] /\ outcome'[l] = outcome[l]
       /\ leader'[n] = "running" /\ code'[n] = None /\ members'[n] = {}
       /\ beside'[n] = Beside /\ outcome'[n] = None
  BY <1>1, <1>5, <1>6, <1>7, <1>9, <1>10, <1>15 DEF Extends
<1>18. (\A l \in Launches : termed'[l] = termed[l]) /\ termed'[n] = FALSE
  BY <1>1, <1>8, <1>15, Zenon DEF Extends
<1>19. Adds(m, n)
  BY <1>4, <1>12, <1>14, <1>15, <1>16, <1>17, <1>18 DEF Adds, Beside
<1>20. QED
  BY <1>19

-----------------------------------------------------------------------------
(* Type correctness                                                         *)

\* A change of one leader's state leaves the launches as they are.
LEMMA LeaderChange ==
  ASSUME TypeOK, NEW l \in Launches, NEW s \in LeaderStates,
         leader' = [leader EXCEPT ![l] = s]
  PROVE  /\ leader' \in Seq(LeaderStates) /\ Launches' = Launches
         /\ leader'[l] = s
         /\ \A k \in Launches : k # l => leader'[k] = leader[k]
<1>1. leader \in Seq(LeaderStates) /\ Launches = 1 .. Len(leader)
  BY LaunchRange DEF TypeOK
<1>2. leader' \in Seq(LeaderStates) /\ Len(leader') = Len(leader)
  BY <1>1, ExceptSeq
<1>3. Launches' = 1 .. Len(leader')
  BY <1>2, LenProperties DEF Launches
<1>4. QED
  BY <1>1, <1>2, <1>3

\* What poll and wait do to it: only a zombie becomes another thing.
LEMMA Reaping ==
  ASSUME TypeOK, NEW l \in Launches, leader' = Reaped(l)
  PROVE  /\ leader' \in Seq(LeaderStates) /\ Launches' = Launches
         /\ leader'[l] = IF leader[l] = "zombie" THEN "reaped" ELSE leader[l]
         /\ \A k \in Launches : k # l => leader'[k] = leader[k]
<1>1. leader[l] \in LeaderStates
  BY LaunchRange, ElementOfSeq DEF TypeOK
<1>2. QED
  BY <1>1, LeaderChange DEF Reaped, LeaderStates

\* A manager inside a call has a launch.
LEMMA HandleRange ==
  ASSUME TypeOK, Handles, NEW m \in Managers, handle[m] # None
  PROVE  handle[m] \in Launches
  BY DEF TypeOK

\* One step for each action, or for those that change the same variables.
LEMMA TypesKept ==
  ASSUME TypeOK, Handles, [Next]_vars
  PROVE  TypeOK'
<1> USE ProcessAssumption DEF Goto, groupVars, logVars
<1>1. CASE UNCHANGED vars
  BY <1>1 DEF TypeOK, vars, Launches
<1>2. ASSUME NEW m \in Managers, Start(m) PROVE TypeOK'
  BY <1>2, StartAdds DEF Adds
<1>3. ASSUME NEW m \in Managers, StartFails(m) PROVE TypeOK'
  BY <1>3 DEF StartFails, TypeOK, Launches
<1>4. ASSUME NEW m \in Managers, BeginStop(m) \/ BeginWait(m) \/ Expire(m)
                                 \/ LastWaitExpires(m) \/ Restart(m)
      PROVE  TypeOK'
  BY <1>4 DEF BeginStop, BeginWait, Expire, LastWaitExpires, Restart, TypeOK, Launches, Steps
<1>5. ASSUME NEW m \in Managers, Poll(m) PROVE TypeOK'
  BY <1>5, Reaping DEF Poll, TypeOK
<1>6. ASSUME NEW m \in Managers, CheckStop(m) \/ Reap(m) PROVE TypeOK'
  <2>1. handle[m] \in Launches /\ leader' = Reaped(handle[m])
    BY <1>6 DEF CheckStop, Reap, TypeOK, Handles
  <2>2. pc' \in [Managers -> Steps]
    BY <1>6 DEF CheckStop, Reap, TypeOK, Steps
  <2>3. QED
    BY <1>6, <2>1, <2>2, Reaping DEF CheckStop, Reap, TypeOK
<1>7. ASSUME NEW m \in Managers, Signal(m) PROVE TypeOK'
  <2>1. handle[m] \in Launches
    BY <1>7 DEF Signal, TypeOK, Handles
  <2>2. /\ termed' \in [Launches -> BOOLEAN]
        /\ members' \in [Launches -> SUBSET Kinds]
        /\ pc' \in [Managers -> Steps]
    BY <1>7, <2>1 DEF Signal, TypeOK, Signalled, Kinds, Steps
  <2>3. stray' \in BOOLEAN
    BY <1>7 DEF Signal
  <2>4. QED
    BY <1>7, <2>2, <2>3 DEF Signal, TypeOK, Launches
<1>8. ASSUME NEW m \in Managers, Kill(m) PROVE TypeOK'
  <2>1. handle[m] \in Launches
    BY <1>8 DEF Kill, TypeOK, Handles
  <2>2. pc' \in [Managers -> Steps] /\ "killed" \in LeaderStates
    BY <1>8 DEF Kill, TypeOK, Steps, LeaderStates
  <2>3. QED
    BY <1>8, <2>1, <2>2, LeaderChange DEF Kill, TypeOK
<1>9. ASSUME NEW m \in Managers, Finish(m) PROVE TypeOK'
  <2>1. handle[m] \in Launches
    BY <1>9 DEF Finish, TypeOK, Handles
  <2>2. handle' \in [Managers -> Launches \cup {None}] /\ pc' \in [Managers -> Steps]
    BY <1>9 DEF Finish, TypeOK, Steps
  <2>3. outcome' \in [Launches -> {None} \cup
                         [status : {"completed", "failed", "timed_out"},
                          output : SUBSET Launches]]
    BY <1>9, <2>1 DEF Finish, TypeOK
  <2>4. QED
    BY <1>9, <2>2, <2>3 DEF Finish, TypeOK, Launches
<1>10. ASSUME NEW m \in Managers, Die(m) PROVE TypeOK'
  <2>1. leader' \in Seq(LeaderStates) /\ Launches' = Launches
    BY <1>10, Reaping DEF Die, TypeOK, Launches
  <2>2. /\ handle' \in [Managers -> Launches \cup {None}]
        /\ pc' \in [Managers -> Steps]
        /\ faults' \in 0 .. MaxFaults
    BY <1>10 DEF Die, TypeOK, Steps
  <2>3. QED
    BY <1>10, <2>1, <2>2 DEF Die, TypeOK
<1>11. ASSUME NEW l \in Launches, LeaderEnds(l) PROVE TypeOK'
  <2>1. /\ leader' = [leader EXCEPT ![l] = IF Parented(l) THEN "zombie" ELSE "reaped"]
        /\ code' \in [Launches -> {None, 0, 1, 9}]
    BY <1>11 DEF LeaderEnds, TypeOK
  <2>2. leader' \in Seq(LeaderStates) /\ Launches' = Launches
    BY <2>1, LeaderChange DEF LeaderStates
  <2>3. QED
    BY <1>11, <2>1, <2>2 DEF LeaderEnds, TypeOK
<1>12. ASSUME NEW l \in Launches, Fork(l) \/ \E kind \in members[l] : MembersEnd(l, kind)
       PROVE  TypeOK'
  <2>1. members' \in [Launches -> SUBSET Kinds]
    BY <1>12 DEF Fork, MembersEnd, TypeOK, Kinds
  <2>2. QED
    BY <1>12, <2>1 DEF Fork, MembersEnd, TypeOK, Launches
<1>13. ASSUME NEW l \in Launches, Write(l) PROVE TypeOK'
  BY <1>13 DEF Write, TypeOK, Launches
<1>14. QED
  BY <1>1, <1>2, <1>3, <1>4, <1>5, <1>6, <1>7, <1>8, <1>9, <1>10, <1>11, <1>12, <1>13
     DEF Next, Call, Proceed, Provider

-----------------------------------------------------------------------------
(* The parts of the invariant                                               *)

\* A new launch has a new number, and nobody takes another manager's.
LEMMA HandlesKept ==
  ASSUME TypeOK, Handles, [Next]_vars
  PROVE  Handles'
<1> USE DEF Handles, Goto
<1>1. ASSUME UNCHANGED <<handle, pc>> PROVE Handles'
  BY <1>1
<1>2. ASSUME NEW m \in Managers, Start(m) PROVE Handles'
  <2>0. PICK n : Adds(m, n)
    BY <1>2, StartAdds
  <2>1. handle' = [handle EXCEPT ![m] = n] /\ n \notin Launches
    BY <2>0 DEF Adds
  <2>2. pc' = pc /\ pc[m] = "ready"
    BY <1>2 DEF Start
  <2>3. QED
    BY <2>1, <2>2 DEF TypeOK
<1>3. ASSUME NEW m \in Managers, UNCHANGED handle, handle[m] # None \/ pc[m] = "dead",
             NEW step \in Steps, pc' = [pc EXCEPT ![m] = step],
             handle[m] = None => step \in {"ready", "dead"}
      PROVE  Handles'
  BY <1>3 DEF TypeOK
<1>4. ASSUME NEW m \in Managers, Proceed(m) \/ BeginStop(m) \/ BeginWait(m), ~ Finish(m)
      PROVE  Handles'
  <2>1. UNCHANGED handle /\ handle[m] # None
    BY <1>4 DEF Proceed, BeginStop, BeginWait, CheckStop, Signal, Reap, Expire, Kill,
                LastWaitExpires
  <2>2. PICK step \in Steps : pc' = [pc EXCEPT ![m] = step]
    BY <1>4 DEF Proceed, BeginStop, BeginWait, CheckStop, Signal, Reap, Expire, Kill,
                LastWaitExpires, Steps
  <2>3. QED
    BY <2>1, <2>2, <1>3
<1>5. ASSUME NEW m \in Managers, Finish(m) PROVE Handles'
  BY <1>5 DEF Finish, TypeOK
<1>6. ASSUME NEW m \in Managers, Die(m) PROVE Handles'
  BY <1>6 DEF Die, TypeOK
<1>7. ASSUME NEW m \in Managers, Restart(m) PROVE Handles'
  BY <1>7 DEF Restart, TypeOK
<1>8. ASSUME NEW m \in Managers, StartFails(m) \/ Poll(m) PROVE Handles'
  BY <1>8, <1>1 DEF StartFails, Poll
<1>9. ASSUME NEW l \in Launches, Provider(l) PROVE Handles'
  BY <1>9, <1>1 DEF Provider, LeaderEnds, Fork, Write, MembersEnd
<1>10. QED
  BY <1>1, <1>2, <1>4, <1>5, <1>6, <1>7, <1>8, <1>9 DEF Next, Call, vars

\* The launch of a manager's call is not the launch of another one's: what m
\* does to its own leader leaves the others' as they are.
LEMMA HeldKept ==
  ASSUME TypeOK, Handles, Held, [Next]_vars
  PROVE  Held'
<1> USE DEF Held, Goto
<1>1. CASE UNCHANGED vars
  BY <1>1 DEF vars, groupVars
<1>2. ASSUME NEW m \in Managers, Start(m) PROVE Held'
  <2>0. PICK n : Adds(m, n)
    BY <1>2, StartAdds
  <2>1. /\ handle' = [handle EXCEPT ![m] = n] /\ pc' = pc /\ pc[m] = "ready"
        /\ \A l \in Launches : leader'[l] = leader[l]
        /\ \A l \in Launches : termed'[l] = termed[l]
    <3>1. pc' = pc /\ pc[m] = "ready"
      BY <1>2 DEF Start
    <3>2. QED
      BY <2>0, <3>1 DEF Adds
  <2>2. \A k \in Managers : k # m => handle'[k] = handle[k]
    BY <2>1 DEF TypeOK
  <2>3. SUFFICES ASSUME NEW k \in Managers, k # m, pc[k] \notin {"ready", "dead"}
                 PROVE  leader'[handle'[k]] = leader[handle[k]]
                        /\ termed'[handle'[k]] = termed[handle[k]]
    BY <2>1
  <2>4. handle[k] \in Launches /\ handle'[k] = handle[k]
    BY <2>2, <2>3 DEF TypeOK, Handles
  <2>5. QED
    BY <2>1, <2>4
<1>3. ASSUME NEW m \in Managers, UNCHANGED <<leader, termed, handle>>,
             StartFails(m) \/ BeginStop(m) \/ BeginWait(m) \/ Expire(m) \/ LastWaitExpires(m)
                 \/ Restart(m)
      PROVE  Held'
  BY <1>3 DEF StartFails, BeginStop, BeginWait, Expire, LastWaitExpires, Restart, TypeOK
<1>4. ASSUME NEW m \in Managers, Finish(m) PROVE Held'
  BY <1>4 DEF Finish, groupVars, TypeOK
<1>5. ASSUME NEW m \in Managers, Signal(m) PROVE Held'
  <2>1. UNCHANGED <<leader, handle>> /\ termed' = [termed EXCEPT ![handle[m]] = TRUE]
    BY <1>5 DEF Signal
  <2>2. handle[m] \in Launches
    BY <1>5 DEF Signal, TypeOK, Handles
  <2>3. \A l \in Launches : termed[l] => termed'[l]
    BY <2>1, <2>2 DEF TypeOK
  <2>4. termed'[handle[m]]
    BY <2>1, <2>2 DEF TypeOK
  <2>5. pc' = [pc EXCEPT ![m] = IF pc[m] = "signal" THEN "ready" ELSE "grace"]
    BY <1>5 DEF Signal
  <2>6. \A k \in Managers : pc[k] = "grace" => handle[k] \in Launches
    BY DEF TypeOK, Handles
  <2>7. QED
    BY <2>1, <2>3, <2>4, <2>5, <2>6 DEF TypeOK
<1>6. ASSUME NEW m \in Managers, NEW l \in Launches, handle[m] = l,
             UNCHANGED <<termed, handle>>,
             \A k \in Launches : k # l => leader'[k] = leader[k],
             \A k \in Managers : k # m => pc'[k] = pc[k],
             pc'[m] \in {"signal", "wait_signal"} => leader'[l] # "reaped",
             pc'[m] \in {"reaped", "expired", "grace"} => leader'[l] = "reaped"
      PROVE  Held'
  <2>1. \A k \in Managers : k # m /\ pc[k] \notin {"ready", "dead"} =>
            leader'[handle[k]] = leader[handle[k]]
    BY <1>6 DEF Handles, TypeOK
  <2>2. QED
    BY <1>6, <2>1
<1>7. ASSUME NEW m \in Managers, Poll(m) PROVE Held'
  <2>1. handle[m] \in Launches /\ UNCHANGED <<termed, handle, pc>> /\ pc[m] = "ready"
        /\ leader' = Reaped(handle[m])
    BY <1>7 DEF Poll, TypeOK
  <2>2. QED
    BY <2>1, <1>6, Reaping
<1>8. ASSUME NEW m \in Managers, CheckStop(m) PROVE Held'
  <2>1. handle[m] \in Launches /\ UNCHANGED <<termed, handle>>
        /\ leader' = Reaped(handle[m])
    BY <1>8 DEF CheckStop, TypeOK, Handles
  <2>2. \A k \in Managers : k # m => pc'[k] = pc[k]
    BY <1>8 DEF CheckStop, TypeOK
  <2>3. \/ pc'[m] \in {"ready", "grace"} /\ leader'[handle[m]] = "reaped"
        \/ pc'[m] \in {"signal", "wait_signal"} /\ leader'[handle[m]] # "reaped"
    BY <1>8 DEF CheckStop, TypeOK
  <2>4. QED
    BY <2>1, <2>2, <2>3, <1>6, Reaping
<1>9. ASSUME NEW m \in Managers, Reap(m) PROVE Held'
  <2>1. handle[m] \in Launches /\ UNCHANGED <<termed, handle>>
        /\ leader' = Reaped(handle[m])
    BY <1>9 DEF Reap, TypeOK, Handles
  <2>2. \A k \in Managers : k # m => pc'[k] = pc[k]
    BY <1>9 DEF Reap, TypeOK
  <2>3. leader[handle[m]] \in {"zombie", "reaped"}
    BY <1>9, <2>1, LaunchRange, ElementOfSeq DEF Reap, LeaderAlive, TypeOK, LeaderStates
  <2>4. pc'[m] \in {"reaped", "expired"}
    BY <1>9 DEF Reap, TypeOK
  <2>5. QED
    BY <2>1, <2>2, <2>3, <2>4, <1>6, Reaping
<1>10. ASSUME NEW m \in Managers, Kill(m) PROVE Held'
  <2>1. handle[m] \in Launches /\ UNCHANGED <<termed, handle>>
        /\ leader' = [leader EXCEPT ![handle[m]] = "killed"]
    BY <1>10 DEF Kill, TypeOK, Handles
  <2>2. (\A k \in Managers : k # m => pc'[k] = pc[k]) /\ pc'[m] = "last"
    BY <1>10 DEF Kill, TypeOK
  <2>3. QED
    BY <2>1, <2>2, <1>6, LeaderChange DEF LeaderStates
<1>11. ASSUME NEW m \in Managers, Die(m) PROVE Held'
  <2>1. (\A k \in Managers : k # m => pc'[k] = pc[k] /\ handle'[k] = handle[k])
        /\ pc'[m] = "dead" /\ UNCHANGED termed
    BY <1>11 DEF Die, TypeOK
  <2>2. \A k \in Managers : k # m /\ pc[k] \notin {"ready", "dead"} =>
            leader'[handle[k]] = leader[handle[k]]
    BY <1>11, Reaping DEF Die, Handles, TypeOK
  <2>3. QED
    BY <2>1, <2>2
<1>12. ASSUME NEW l \in Launches, LeaderEnds(l) PROVE Held'
  <2>1. /\ leader' = [leader EXCEPT ![l] = IF Parented(l) THEN "zombie" ELSE "reaped"]
        /\ leader[l] \notin {"zombie", "reaped"} /\ UNCHANGED <<termed, pc, handle>>
    BY <1>12 DEF LeaderEnds, LeaderAlive
  <2>2. /\ leader'[l] = IF Parented(l) THEN "zombie" ELSE "reaped"
        /\ \A k \in Launches : k # l => leader'[k] = leader[k]
    BY <2>1, LeaderChange DEF LeaderStates
  <2>3. \A m \in Managers : handle[m] = l => leader'[l] = "zombie"
    BY <2>2 DEF Parented
  <2>4. \A m \in Managers : pc[m] \notin {"ready", "dead"} => handle[m] \in Launches
    BY DEF TypeOK, Handles
  <2>5. QED
    BY <2>1, <2>2, <2>3, <2>4
<1>13. ASSUME NEW l \in Launches, Fork(l) \/ Write(l) \/ \E kind \in members[l] : MembersEnd(l, kind)
       PROVE  Held'
  BY <1>13 DEF Fork, Write, MembersEnd, groupVars
<1>14. QED
  <2>1. ASSUME NEW m \in Managers, Call(m) \/ Proceed(m) \/ StartFails(m) \/ Die(m) \/ Restart(m)
        PROVE  Held'
    <3>1. StartFails(m) \/ BeginStop(m) \/ BeginWait(m) \/ Expire(m) \/ LastWaitExpires(m)
              \/ Restart(m) => UNCHANGED <<leader, termed, handle>>
      BY DEF StartFails, BeginStop, BeginWait, Expire, LastWaitExpires, Restart, groupVars
    <3>2. QED
      BY <2>1, <3>1, <1>2, <1>3, <1>4, <1>5, <1>7, <1>8, <1>9, <1>10, <1>11 DEF Call, Proceed
  <2>2. QED
    BY <2>1, <1>1, <1>12, <1>13 DEF Next, Provider

\* A step that kills no leader, ends none that runs and signals no group keeps
\* what is asked.
LEMMA AskedKept ==
  ASSUME TypeOK, Handles, Held, Asked, [Next]_vars
  PROVE  Asked'
<1> USE DEF Asked, Goto
<1>1. ASSUME UNCHANGED groupVars, UNCHANGED outcome PROVE Asked'
  BY <1>1 DEF groupVars, Launches
<1>2. ASSUME NEW m \in Managers, Start(m) PROVE Asked'
  <2>0. PICK n : Adds(m, n)
    BY <1>2, StartAdds
  <2>1. /\ Launches' = Launches \cup {n}
        /\ leader'[n] = "running" /\ code'[n] = None /\ termed'[n] = FALSE
        /\ outcome'[n] = None
        /\ \A l \in Launches :
               /\ leader'[l] = leader[l] /\ code'[l] = code[l] /\ termed'[l] = termed[l]
               /\ members'[l] = members[l] /\ outcome'[l] = outcome[l]
    BY <2>0 DEF Adds
  <2>2. None # 9
    BY ProcessAssumption
  <2>3. QED
    BY <2>1, <2>2
<1>3. ASSUME NEW l \in Launches, UNCHANGED <<code, members, termed, outcome>>,
             leader' = Reaped(l)
      PROVE  Asked'
  BY <1>3, Reaping
<1>4. ASSUME NEW m \in Managers, Poll(m) \/ CheckStop(m) \/ Reap(m) PROVE Asked'
  <2>1. handle[m] \in Launches
    BY <1>4 DEF Poll, CheckStop, Reap, TypeOK, Handles
  <2>2. QED
    BY <1>4, <2>1, <1>3 DEF Poll, CheckStop, Reap
<1>5. ASSUME NEW m \in Managers, Die(m) PROVE Asked'
  <2>1. CASE handle[m] = None
    BY <1>5, <2>1, <1>1 DEF Die, groupVars
  <2>2. CASE handle[m] # None
    BY <1>5, <2>2, <1>3 DEF Die, TypeOK
  <2>3. QED
    BY <2>1, <2>2
<1>6. ASSUME NEW m \in Managers, Signal(m) PROVE Asked'
  <2>1. /\ handle[m] \in Launches
        /\ termed' = [termed EXCEPT ![handle[m]] = TRUE]
        /\ members' = [members EXCEPT ![handle[m]] = Signalled(@)]
        /\ UNCHANGED <<leader, code, outcome>>
    BY <1>6 DEF Signal, TypeOK, Handles
  <2>2. Launches' = Launches
    BY <2>1 DEF Launches
  <2>3. \A l \in Launches : termed[l] => termed'[l]
    BY <2>1 DEF TypeOK
  <2>4. \A l \in Launches : l # handle[m] => termed'[l] = termed[l] /\ members'[l] = members[l]
    BY <2>1 DEF TypeOK
  <2>5. "unasked" \notin members'[handle[m]]
    BY <2>1 DEF TypeOK, Signalled
  <2>6. QED
    BY <2>1, <2>2, <2>3, <2>4, <2>5
<1>7. ASSUME NEW m \in Managers, Kill(m) PROVE Asked'
  <2>1. /\ handle[m] \in Launches /\ pc[m] = "grace" /\ leader[handle[m]] # "reaped"
        /\ leader' = [leader EXCEPT ![handle[m]] = "killed"]
        /\ UNCHANGED <<code, members, termed, outcome>>
    BY <1>7 DEF Kill, LeaderAlive, TypeOK, Handles
  <2>2. termed[handle[m]]
    BY <2>1 DEF Held
  <2>3. /\ Launches' = Launches /\ leader'[handle[m]] = "killed"
        /\ \A k \in Launches : k # handle[m] => leader'[k] = leader[k]
    BY <2>1, LeaderChange DEF LeaderStates
  <2>4. QED
    BY <2>1, <2>2, <2>3
<1>8. ASSUME NEW m \in Managers, Finish(m) PROVE Asked'
  <2>1. /\ handle[m] \in Launches /\ UNCHANGED groupVars
        /\ \A l \in Launches : l # handle[m] => outcome'[l] = outcome[l]
    BY <1>8 DEF Finish, TypeOK, Handles
  <2>2. leader[handle[m]] = "reaped"
    BY <1>8 DEF Finish, Held
  <2>3. QED
    BY <2>1, <2>2 DEF groupVars, Launches
<1>9. ASSUME NEW l \in Launches, LeaderEnds(l) PROVE Asked'
  <2>1. /\ leader' = [leader EXCEPT ![l] = IF Parented(l) THEN "zombie" ELSE "reaped"]
        /\ UNCHANGED <<members, termed, outcome>>
        /\ leader[l] # "reaped"
    BY <1>9 DEF LeaderEnds, LeaderAlive
  <2>2. /\ Launches' = Launches
        /\ leader'[l] \in {"zombie", "reaped"}
        /\ \A k \in Launches : k # l => leader'[k] = leader[k]
    BY <2>1, LeaderChange DEF LeaderStates
  <2>3. /\ \A k \in Launches : k # l => code'[k] = code[k]
        /\ code'[l] = 9 => leader[l] = "killed"
    BY <1>9 DEF LeaderEnds, TypeOK
  <2>4. QED
    BY <2>1, <2>2, <2>3
<1>10. ASSUME NEW l \in Launches, Fork(l) PROVE Asked'
  <2>1. /\ members' = [members EXCEPT ![l] =
                          @ \cup {IF termed[l] THEN "late" ELSE "unasked"}]
        /\ UNCHANGED <<leader, code, termed, outcome>>
    BY <1>10 DEF Fork
  <2>2. \A k \in Launches : termed[k] => "unasked" \notin members'[k]
    BY <2>1 DEF TypeOK
  <2>3. QED
    BY <2>1, <2>2 DEF Launches
<1>11. ASSUME NEW l \in Launches, NEW kind \in members[l], MembersEnd(l, kind) PROVE Asked'
  <2>1. members' = [members EXCEPT ![l] = @ \ {kind}] /\ UNCHANGED <<leader, code, termed, outcome>>
    BY <1>11 DEF MembersEnd
  <2>2. \A k \in Launches : members'[k] \subseteq members[k]
    BY <2>1 DEF TypeOK
  <2>3. QED
    BY <2>1, <2>2 DEF Launches
<1>12. QED
  <2>1. ASSUME NEW m \in Managers, Call(m) \/ Proceed(m) \/ StartFails(m) \/ Die(m) \/ Restart(m)
        PROVE  Asked'
    <3>1. StartFails(m) \/ BeginStop(m) \/ BeginWait(m) \/ Expire(m) \/ LastWaitExpires(m)
              \/ Restart(m) => UNCHANGED <<groupVars, outcome>>
      BY DEF StartFails, BeginStop, BeginWait, Expire, LastWaitExpires, Restart
    <3>2. QED
      BY <2>1, <3>1, <1>1, <1>2, <1>4, <1>5, <1>6, <1>7, <1>8 DEF Call, Proceed
  <2>2. ASSUME NEW l \in Launches, Write(l) PROVE Asked'
    BY <2>2, <1>1 DEF Write
  <2>3. CASE UNCHANGED vars
    BY <2>3, <1>1 DEF vars
  <2>4. QED
    BY <2>1, <2>2, <2>3, <1>9, <1>10, <1>11 DEF Next, Provider

\* A pid is signalled only while the leader holds it.
LEMMA NoStrayKept ==
  ASSUME TypeOK, Held, NoStraySignal, [Next]_vars
  PROVE  NoStraySignal'
<1> USE DEF NoStraySignal
<1>1. ASSUME NEW m \in Managers, Signal(m) PROVE NoStraySignal'
  BY <1>1 DEF Signal, OwnGroup, Held
<1>2. ASSUME NEW m \in Managers, Call(m) \/ StartFails(m) \/ Die(m) \/ Restart(m)
      PROVE  UNCHANGED stray
  BY <1>2 DEF Call, Start, Poll, BeginStop, BeginWait, StartFails, Die, Restart
<1>3. ASSUME NEW m \in Managers, Proceed(m), ~ Signal(m) PROVE UNCHANGED stray
  BY <1>3 DEF Proceed, CheckStop, Reap, Expire, Kill, LastWaitExpires, Finish
<1>4. ASSUME NEW l \in Launches, Provider(l) PROVE UNCHANGED stray
  BY <1>4 DEF Provider, LeaderEnds, Fork, Write, MembersEnd
<1>5. QED
  BY <1>1, <1>2, <1>3, <1>4 DEF Next, vars


-----------------------------------------------------------------------------
(* Who writes where                                                         *)

\* It lives, or has written since the logs were opened.
Present(j) == GroupAlive(j) \/ j \in log

\* Only Start brings a launch into the slot; nobody comes back.
LEMMA NothingRevives ==
  ASSUME TypeOK, Handles, [Next]_vars, \A m \in Managers : ~ Start(m)
  PROVE  /\ Launches' = Launches /\ beside' = beside
         /\ \A j \in Launches : Present(j)' => Present(j)
<1> DEFINE Faded == /\ Launches' = Launches /\ beside' = beside
                    /\ \A j \in Launches : Present(j)' => Present(j)
<1> USE DEF Present, GroupAlive, LeaderAlive
<1>1. ASSUME UNCHANGED <<leader, members, beside>>, log' \in {log, {}} PROVE Faded
  BY <1>1 DEF Launches
<1>2. ASSUME NEW l \in Launches, leader' = Reaped(l), UNCHANGED <<members, beside, log>>
      PROVE  Faded
  BY <1>2, Reaping
<1>3. ASSUME NEW m \in Managers, Poll(m) \/ CheckStop(m) \/ Reap(m) PROVE Faded
  <2>1. handle[m] \in Launches
    BY <1>3 DEF Poll, CheckStop, Reap, TypeOK, Handles
  <2>2. QED
    BY <1>3, <2>1, <1>2 DEF Poll, CheckStop, Reap, logVars
<1>4. ASSUME NEW m \in Managers, Die(m) PROVE Faded
  BY <1>4, <1>1, <1>2 DEF Die, TypeOK, logVars
<1>5. ASSUME NEW m \in Managers, Signal(m) PROVE Faded
  <2>1. /\ members' = [members EXCEPT ![handle[m]] = Signalled(@)]
        /\ UNCHANGED <<leader, beside, log>>
    BY <1>5 DEF Signal, logVars
  <2>2. \A j \in Launches : members'[j] # {} => members[j] # {}
    BY <2>1 DEF TypeOK, Signalled
  <2>3. QED
    BY <2>1, <2>2 DEF Launches
<1>6. ASSUME NEW m \in Managers, Kill(m) PROVE Faded
  <2>1. /\ handle[m] \in Launches /\ LeaderAlive(handle[m])
        /\ leader' = [leader EXCEPT ![handle[m]] = "killed"]
        /\ UNCHANGED <<members, beside, log>>
    BY <1>6 DEF Kill, TypeOK, Handles, logVars
  <2>2. QED
    BY <2>1, LeaderChange DEF LeaderStates
<1>7. ASSUME NEW l \in Launches, LeaderEnds(l) PROVE Faded
  <2>1. /\ leader' = [leader EXCEPT ![l] = IF Parented(l) THEN "zombie" ELSE "reaped"]
        /\ UNCHANGED <<members, beside, log>>
    BY <1>7 DEF LeaderEnds, logVars
  <2>2. QED
    BY <2>1, LeaderChange DEF LeaderStates
<1>8. ASSUME NEW l \in Launches, Fork(l) \/ \E kind \in members[l] : MembersEnd(l, kind)
      PROVE  Faded
  <2>1. UNCHANGED <<leader, beside, log>> /\ Present(l)
    BY <1>8 DEF Fork, MembersEnd, logVars
  <2>2. \A k \in Launches : k # l => members'[k] = members[k]
    BY <1>8 DEF Fork, MembersEnd, TypeOK
  <2>3. QED
    BY <2>1, <2>2 DEF Launches
<1>9. ASSUME NEW l \in Launches, Write(l) PROVE Faded
  BY <1>9 DEF Write, groupVars, Launches
<1>10. ASSUME NEW m \in Managers, StartFails(m) \/ BeginStop(m) \/ BeginWait(m) \/ Expire(m)
                 \/ LastWaitExpires(m) \/ Restart(m) \/ Finish(m)
       PROVE  Faded
  BY <1>10, <1>1 DEF StartFails, BeginStop, BeginWait, Expire, LastWaitExpires, Restart,
                     Finish, groupVars, logVars
<1>11. CASE UNCHANGED vars
  BY <1>11, <1>1 DEF vars, groupVars, logVars
<1>12. QED
  BY <1>3, <1>4, <1>5, <1>6, <1>7, <1>8, <1>9, <1>10, <1>11 DEF Next, Call, Proceed, Provider

\* A new launch lists those that are there; after that they can only fade.
LEMMA SharedKept ==
  ASSUME TypeOK, Handles, Shared, [Next]_vars
  PROVE  Shared'
<1> USE DEF Shared, Present
<1>1. CASE \A m \in Managers : ~ Start(m)
  BY <1>1, NothingRevives
<1>2. ASSUME NEW m \in Managers, Start(m) PROVE Shared'
  <2>0. PICK n : Adds(m, n)
    BY <1>2, StartAdds
  <2>1. /\ Launches' = Launches \cup {n} /\ n \in Nat /\ log' = {}
        /\ members'[n] = {} /\ beside'[n] = {l \in Launches : GroupAlive(l)}
        /\ \A l \in Launches : l < n /\ beside'[l] = beside[l]
        /\ \A l \in Launches : leader'[l] = leader[l] /\ members'[l] = members[l]
    BY <2>0 DEF Adds
  <2>2. \A l \in Launches : l \in Nat /\ GroupAlive(l)' = GroupAlive(l)
    BY <2>1, LaunchRange DEF GroupAlive, LeaderAlive
  <2>3. SUFFICES ASSUME NEW j \in Launches', NEW l \in Launches', j < l, GroupAlive(j)'
                 PROVE  j \in beside'[l]
    BY <2>1
  <2>4. j \in Launches
    BY <2>1, <2>2, <2>3
  <2>5. CASE l = n
    BY <2>1, <2>2, <2>3, <2>4, <2>5
  <2>6. CASE l \in Launches
    BY <2>1, <2>2, <2>3, <2>4, <2>6
  <2>7. QED
    BY <2>1, <2>5, <2>6
<1>3. QED
  BY <1>1, <1>2

\* The output is fixed by Finish, from a log that Shared speaks of.
LEMMA OutputKept ==
  ASSUME TypeOK, Handles, Shared, OutputOfThisRun, [Next]_vars
  PROVE  OutputOfThisRun'
<1> USE DEF OutputOfThisRun
<1>1. ASSUME NEW m \in Managers, Start(m) PROVE OutputOfThisRun'
  <2>0. PICK n : Adds(m, n)
    BY <1>1, StartAdds
  <2>1. /\ Launches' = Launches \cup {n} /\ outcome'[n] = None
        /\ \A l \in Launches : outcome'[l] = outcome[l] /\ beside'[l] = beside[l]
    BY <2>0 DEF Adds
  <2>2. QED
    BY <2>1
<1>2. ASSUME NEW m \in Managers, Finish(m) PROVE OutputOfThisRun'
  <2>1. /\ handle[m] \in Launches /\ UNCHANGED <<leader, beside>>
        /\ outcome'[handle[m]] # None => outcome'[handle[m]].output = log
        /\ \A l \in Launches : l # handle[m] => outcome'[l] = outcome[l]
    BY <1>2 DEF Finish, TypeOK, Handles, groupVars, logVars
  <2>2. log \subseteq Launches
    BY DEF TypeOK
  <2>3. QED
    BY <2>1, <2>2 DEF Shared, Launches
<1>3. ASSUME UNCHANGED <<outcome, beside>>, Launches' = Launches PROVE OutputOfThisRun'
  BY <1>3
<1>4. CASE \A m \in Managers : ~ Start(m) /\ ~ Finish(m)
  <2>1. UNCHANGED outcome
    BY <1>4 DEF Next, Call, Proceed, Provider, vars, StartFails, Poll, BeginStop, BeginWait,
                CheckStop, Signal, Reap, Expire, Kill, LastWaitExpires, Die, Restart,
                LeaderEnds, Fork, Write, MembersEnd
  <2>2. QED
    BY <2>1, <1>3, <1>4, NothingRevives
<1>5. QED
  BY <1>1, <1>2, <1>4

-----------------------------------------------------------------------------
(* The theorems                                                             *)

\* The invariant holds, each part by its lemma.
LEMMA ProcessInvariant == Spec => []PInv
<1>1. Init => PInv
  <2> SUFFICES ASSUME Init PROVE PInv
    OBVIOUS
  <2>1. Launches = {}
    BY DEF Init, Launches
  <2>2. TypeOK
    <3>1. leader \in Seq(LeaderStates)
      BY DEF Init
    <3>2. \A S : <<>> \in [{} -> S]
      OBVIOUS
    <3>3. /\ code \in [Launches -> {None, 0, 1, 9}]
          /\ members \in [Launches -> SUBSET Kinds]
          /\ termed \in [Launches -> BOOLEAN]
          /\ beside \in [Launches -> SUBSET Launches]
          /\ outcome \in [Launches -> {None} \cup
                             [status : {"completed", "failed", "timed_out"},
                              output : SUBSET Launches]]
      BY <2>1, <3>2 DEF Init
    <3>4. /\ log \subseteq Launches
          /\ pc \in [Managers -> Steps]
          /\ handle \in [Managers -> Launches \cup {None}]
          /\ faults \in 0 .. MaxFaults
      BY ProcessAssumption DEF Init, Steps
    <3>5. stray \in BOOLEAN
      BY DEF Init
    <3>6. QED
      BY <3>1, <3>3, <3>4, <3>5 DEF TypeOK
  <2>3. Handles /\ Held /\ NoStraySignal
    BY DEF Init, Handles, Held, NoStraySignal
  <2>4. Asked /\ Shared /\ OutputOfThisRun
    BY <2>1 DEF Asked, Shared, OutputOfThisRun
  <2>5. QED
    BY <2>2, <2>3, <2>4 DEF PInv
<1>2. PInv /\ [Next]_vars => PInv'
  BY TypesKept, HandlesKept, HeldKept, AskedKept, SharedKept, NoStrayKept, OutputKept DEF PInv
<1>3. QED
  BY <1>1, <1>2, PTL DEF Spec

\* The state stays within its types.
THEOREM ProviderTypes == Spec => []TypeOK
  BY ProcessInvariant, PTL DEF PInv

\* Whatever is called in which order, by however many managers, and whoever
\* dies: a signal never goes to a pid that is not the provider's own.
THEOREM SignalsStayInTheGroup == Spec => []NoStraySignal
  BY ProcessInvariant, PTL DEF PInv

\* A provider that timed out is dead when its execution is reported, was asked
\* before it was killed, and nobody older than the request is left unasked.
THEOREM TimeoutAsksTheGroup == Spec => []TimedOutGroupAsked
<1>1. PInv => TimedOutGroupAsked
  BY DEF PInv, Asked, TimedOutGroupAsked, LeaderAlive
<1>2. QED
  BY <1>1, ProcessInvariant, PTL

\* No earlier launch's output is in an execution's, but for launches that
\* still lived when its log files were opened.
THEOREM OutputIsOwn == Spec => []OutputOfThisRun
  BY ProcessInvariant, PTL DEF PInv

-----------------------------------------------------------------------------
(* The contract with the providers                                          *)

\* A function on one more number is the old one with that entry appended.
LEMMA Appended ==
  ASSUME NEW n \in Nat, NEW f, NEW g, f = [l \in 1 .. n |-> f[l]],
         g = [l \in 1 .. n + 1 |-> g[l]], \A l \in 1 .. n : g[l] = f[l]
  PROVE  g = Append(f, g[n + 1])
<1> DEFINE T == {g[l] : l \in 1 .. n + 1}
<1>1. f \in [1 .. n -> T] /\ g \in [1 .. n + 1 -> T] /\ g[n + 1] \in T
  OBVIOUS
<1> HIDE DEF T
<1>2. f \in Seq(T) /\ Len(f) = n /\ g \in Seq(T) /\ Len(g) = n + 1
  BY <1>1, SeqDef
<1>3. /\ Append(f, g[n + 1]) \in Seq(T) /\ Len(Append(f, g[n + 1])) = n + 1
      /\ \A l \in 1 .. n : Append(f, g[n + 1])[l] = f[l]
      /\ Append(f, g[n + 1])[n + 1] = g[n + 1]
  BY <1>1, <1>2, AppendProperties
<1>4. ASSUME NEW l \in 1 .. n + 1 PROVE Append(f, g[n + 1])[l] = g[l]
  <2>1. l \in 1 .. n \/ l = n + 1
    OBVIOUS
  <2> QED
    BY <1>3, <2>1
<1> QED
  BY <1>2, <1>3, <1>4, SeqEqual

Holders(l) == {m \in Managers : handle[m] = l}

\* The contract sees of a leader only whether it lives, and how it ended.
LEMMA SameStates ==
  ASSUME Launches' = Launches, UNCHANGED code,
         \A l \in Launches : LeaderAlive(l)' <=> LeaderAlive(l)
  PROVE  \A l \in Launches : StateOf(l)' = StateOf(l)
BY DEF StateOf

\* Waiting for a zombie changes neither.
LEMMA ReapingUnseen ==
  ASSUME TypeOK, NEW l \in Launches, leader' = Reaped(l), UNCHANGED code
  PROVE  Launches' = Launches /\ \A k \in Launches : StateOf(k)' = StateOf(k)
<1>1. Launches' = Launches /\ \A k \in Launches : LeaderAlive(k)' <=> LeaderAlive(k)
  BY Reaping DEF LeaderAlive
<1> QED
  BY <1>1, SameStates

\* Where the waits said nothing and nobody let go, nothing happened.
LEMMA ProvidersStay ==
  ASSUME Launches' = Launches, UNCHANGED <<handle, outcome>>,
         \A l \in Launches : StateOf(l)' = StateOf(l)
  PROVE  UNCHANGED Providers
BY DEF Providers, Reports

\* What a manager's calls do before they report is not seen: polls, signals,
\* deadlines, the killing of a leader that is not dead yet.
LEMMA CallsUnseen ==
  ASSUME TypeOK, Handles, NEW m \in Managers,
         \/ StartFails(m) \/ Poll(m) \/ BeginStop(m) \/ BeginWait(m) \/ Restart(m)
         \/ Proceed(m) /\ ~ Finish(m)
  PROVE  UNCHANGED Providers
<1>1. UNCHANGED <<code, handle, outcome>>
  BY DEF StartFails, Poll, BeginStop, BeginWait, Restart, Proceed, CheckStop, Signal, Reap,
         Expire, Kill, LastWaitExpires, groupVars
<1>2. CASE StartFails(m) \/ BeginStop(m) \/ BeginWait(m) \/ Restart(m) \/ Signal(m)
           \/ Expire(m) \/ LastWaitExpires(m)
  <2>1. UNCHANGED leader
    BY <1>2 DEF StartFails, BeginStop, BeginWait, Restart, Signal, Expire, LastWaitExpires,
                groupVars
  <2> QED
    BY <1>1, <2>1, ProvidersStay DEF Launches, StateOf, LeaderAlive
<1>3. CASE Poll(m) \/ CheckStop(m) \/ Reap(m)
  <2>1. handle[m] \in Launches /\ leader' = Reaped(handle[m])
    BY <1>3 DEF Poll, CheckStop, Reap, TypeOK, Handles
  <2> QED
    BY <1>1, <2>1, ReapingUnseen, ProvidersStay
<1>4. CASE Kill(m)
  <2>1. /\ handle[m] \in Launches /\ LeaderAlive(handle[m])
        /\ leader' = [leader EXCEPT ![handle[m]] = "killed"]
    BY <1>4 DEF Kill, TypeOK, Handles
  <2>2. Launches' = Launches /\ \A k \in Launches : LeaderAlive(k)' <=> LeaderAlive(k)
    BY <2>1, LeaderChange DEF LeaderAlive, LeaderStates
  <2> QED
    BY <1>1, <2>2, SameStates, ProvidersStay
<1> QED
  BY <1>2, <1>3, <1>4 DEF Proceed

\* Start launches a provider in the slot, of which the manager holds none.
LEMMA StartingLaunches ==
  ASSUME TypeOK, NEW m \in Managers, Start(m)
  PROVE  Contract!Launch(m, 1)
<1>0. PICK n : Adds(m, n)
  BY StartAdds
<1>1. Len(leader) \in Nat /\ Launches = 1 .. Len(leader) /\ None \notin Launches
  BY LaunchRange
<1>2. n = Len(leader) + 1
  <2>1. Launches' = 1 .. Len(leader')
    BY <1>0, LenProperties DEF Adds, TypeOK, Launches
  <2>2. Len(leader') = Len(leader) + 1
    BY AppendProperties DEF Start, Launch, TypeOK
  <2> QED
    BY <1>0, <1>1, <2>1, <2>2 DEF Adds
<1>3. /\ n \notin Launches /\ Launches' = Launches \cup {n}
      /\ handle' = [handle EXCEPT ![m] = n] /\ handle[m] = None
  BY <1>0 DEF Adds, Start
<1>4. ASSUME NEW l \in Launches PROVE Providers'[l] = Providers[l]
  <2>1. leader'[l] = leader[l] /\ code'[l] = code[l] /\ outcome'[l] = outcome[l]
    BY <1>0 DEF Adds
  <2>2. \A t \in Managers : handle'[t] = l <=> handle[t] = l
    BY <1>1, <1>3 DEF TypeOK
  <2>3. StateOf(l)' = StateOf(l) /\ Reports(l)' = Reports(l)
    BY <2>1 DEF StateOf, LeaderAlive, Reports
  <2> QED
    BY <1>3, <2>2, <2>3 DEF Providers
<1>5. Providers'[n] = [slot |-> 1, state |-> "running", holders |-> {m}, reports |-> {}]
  <2>1. leader'[n] = "running" /\ outcome'[n] = None
    BY <1>0 DEF Adds
  <2>2. {t \in Managers : handle'[t] = n} = {m}
    <3>1. n # None
      BY <1>0, ProcessAssumption DEF Adds
    <3>2. \A t \in Managers : handle'[t] = n <=> t = m
      BY <1>3, <3>1 DEF TypeOK
    <3> QED
      BY <3>2
  <2> QED
    BY <1>3, <2>1, <2>2 DEF Providers, StateOf, LeaderAlive, Reports
<1>6. Providers' = Append(Providers, Providers'[n])
  <2>1. Providers = [l \in 1 .. Len(leader) |-> Providers[l]]
    BY <1>1 DEF Providers
  <2>2. Launches' = 1 .. Len(leader) + 1
    BY <1>1, <1>2, <1>3
  <2>3. Providers' = [l \in 1 .. Len(leader) + 1 |-> Providers'[l]]
    BY <2>2 DEF Providers
  <2> QED
    BY <1>1, <1>2, <1>4, <2>1, <2>3, Appended
<1>7. \A l \in DOMAIN Providers : m \notin Providers[l].holders
  BY <1>1, <1>3 DEF Providers
<1> QED
  BY <1>5, <1>6, <1>7 DEF Contract!Launch

\* A leader that ends, of itself or killed, ends the provider.
LEMMA LeaderEnding ==
  ASSUME TypeOK, NEW l \in Launches, LeaderEnds(l)
  PROVE  Contract!End(l)
<1>1. /\ leader' = [leader EXCEPT ![l] = IF Parented(l) THEN "zombie" ELSE "reaped"]
      /\ LeaderAlive(l) /\ UNCHANGED <<handle, outcome>>
      /\ \A k \in Launches : k # l => code'[k] = code[k]
  BY DEF LeaderEnds, TypeOK
<1>2. Launches' = Launches /\ ~ LeaderAlive(l)'
      /\ \A k \in Launches : k # l => (LeaderAlive(k)' <=> LeaderAlive(k))
  BY <1>1, LeaderChange DEF LeaderAlive, LeaderStates
<1>3. PICK how \in Contract!Ends : StateOf(l)' = how
  BY <1>2 DEF StateOf, Contract!Ends
<1>4. Providers' = [k \in Launches |-> IF k = l
                       THEN [Providers[l] EXCEPT !.state = how] ELSE Providers[k]]
  BY <1>1, <1>2, <1>3 DEF Providers, Reports, StateOf
<1>5. Providers' = [Providers EXCEPT ![l].state = how]
  BY <1>4 DEF Providers
<1>6. Providers[l].state = "running"
  BY <1>1 DEF Providers, StateOf
<1> QED
  BY <1>3, <1>5, <1>6 DEF Contract!End

\* Finish reports on the manager's own leader, which was waited for.
LEMMA FinishingReports ==
  ASSUME TypeOK, Handles, Held, NEW m \in Managers, Finish(m)
  PROVE  Contract!Report(m, handle[m])
<1> DEFINE l == handle[m]
           status == IF pc[m] = "expired" THEN "timed_out"
                     ELSE IF code[l] = 0 THEN "completed" ELSE "failed"
<1>1. l \in Launches /\ leader[l] = "reaped" /\ None \notin Launches
  BY LaunchRange DEF Finish, TypeOK, Handles, Held
<1>2. StateOf(l) \in Contract!Ends /\ status \in {StateOf(l), "timed_out"}
  BY <1>1 DEF StateOf, LeaderAlive, Contract!Ends
<1>3. UNCHANGED <<leader, code>> /\ Launches' = Launches
  BY DEF Finish, groupVars, Launches
<1>4. \A k \in Launches : Reports(k)' = IF k = l THEN {status} ELSE Reports(k)
  <2>1. outcome' = [outcome EXCEPT ![l] = [status |-> status, output |-> log]]
    BY DEF Finish
  <2>2. [status |-> status, output |-> log] # None
    <3>1. status \in {"completed", "failed", "timed_out"} /\ log \in SUBSET Nat
      BY LaunchRange DEF TypeOK
    <3> HIDE DEF status
    <3>2. [status |-> status, output |-> log] \in
             [status : {"completed", "failed", "timed_out"}, output : SUBSET Nat]
      BY <3>1
    <3> QED
      BY <3>2, ProcessAssumption
  <2> HIDE DEF status, l
  <2> QED
    BY <1>1, <2>1, <2>2 DEF TypeOK, Reports
<1>5. PICK holders \in {Holders(l), Holders(l) \ {m}} :
         \A k \in Launches : Holders(k)' = IF k = l THEN holders ELSE Holders(k)
  <2>1. CASE handle' = handle
    BY <2>1 DEF Holders
  <2>2. CASE handle' = [handle EXCEPT ![m] = None]
    <3>1. \A k \in Launches : Holders(k)' = IF k = l THEN Holders(k) \ {m} ELSE Holders(k)
      BY <1>1, <2>2 DEF Holders, TypeOK
    <3> QED
      BY <3>1
  <2> QED
    BY <2>1, <2>2 DEF Finish
<1>6. /\ Providers[l].state = StateOf(l) /\ Providers[l].holders = Holders(l)
      /\ DOMAIN Providers = Launches
  BY <1>1 DEF Providers, Holders
<1>7. m \in Holders(l)
  BY DEF Holders
<1> HIDE DEF status, l
<1>8. Providers' = [k \in Launches |->
         [slot |-> 1, state |-> StateOf(k),
          holders |-> IF k = l THEN holders ELSE Holders(k),
          reports |-> IF k = l THEN {status} ELSE Reports(k)]]
  BY <1>3, <1>4, <1>5 DEF Providers, Holders, StateOf, LeaderAlive
<1>9. Providers' = [Providers EXCEPT ![l].reports = {} \cup {status}, ![l].holders = holders]
  BY <1>1, <1>8 DEF Providers, Holders
<1>10. /\ m \in Providers[l].holders /\ Providers[l].state \in Contract!Ends
       /\ status \in {Providers[l].state, "timed_out"}
       /\ holders \in {Providers[l].holders, Providers[l].holders \ {m}}
  BY <1>2, <1>5, <1>6, <1>7
<1> QED
  BY <1>9, <1>10 DEF l, Contract!Report

\* A manager's death leaves its group to nobody.
LEMMA DyingIsDying ==
  ASSUME TypeOK, NEW m \in Managers, Die(m)
  PROVE  Contract!Die(m)
<1>1. Launches' = Launches /\ UNCHANGED outcome
      /\ \A k \in Launches : StateOf(k)' = StateOf(k)
  <2>1. UNCHANGED <<code, outcome>> /\ (leader' = leader \/ leader' = Reaped(handle[m]))
    BY DEF Die, logVars
  <2>2. CASE leader' = leader
    BY <2>1, <2>2 DEF StateOf, LeaderAlive, Launches
  <2>3. CASE handle[m] # None /\ leader' = Reaped(handle[m])
    BY <2>1, <2>3, ReapingUnseen DEF TypeOK
  <2> QED
    BY <2>1, <2>2, <2>3 DEF Die
<1>2. \A k \in Launches : Holders(k)' = Holders(k) \ {m}
  BY LaunchRange DEF Die, Holders, TypeOK
<1> QED
  BY <1>1, <1>2 DEF Providers, Reports, Holders, Contract!Die

\* Whatever it takes to wait for a group and to stop it, for any managers,
\* launches and failures: its managers see one process that runs until its
\* leader ends, is reported on only then, and is not let go of before.
THEOREM ProcessKeepsContract == Spec => ImplementsContract
<1>1. Init => Contract!Init
  BY DEF Init, Launches, Providers, Contract!Init
<1>2. ASSUME PInv, [Next]_vars PROVE [Contract!Next]_Providers
  <2>0. TypeOK /\ Handles /\ Held /\ DOMAIN Providers = Launches
    BY <1>2 DEF PInv, Providers
  <2>1. CASE UNCHANGED vars
    BY <2>1 DEF vars, groupVars, logVars, Providers, Launches, StateOf, LeaderAlive, Reports
  <2>2. ASSUME NEW m \in Managers, Start(m) PROVE Contract!Next
    BY <2>0, <2>2, StartingLaunches DEF Contract!Next
  <2>3. ASSUME NEW m \in Managers, Finish(m) PROVE Contract!Next
    <3>1. handle[m] \in Launches
      BY <2>0, <2>3 DEF Finish, TypeOK, Handles
    <3> QED
      BY <2>0, <2>3, <3>1, FinishingReports DEF Contract!Next
  <2>4. ASSUME NEW m \in Managers, Die(m) PROVE Contract!Next
    BY <2>0, <2>4, DyingIsDying DEF Contract!Next
  <2>5. ASSUME NEW l \in Launches, LeaderEnds(l) PROVE Contract!Next
    BY <2>0, <2>5, LeaderEnding DEF Contract!Next
  <2>6. ASSUME NEW l \in Launches,
               Fork(l) \/ Write(l) \/ \E kind \in members[l] : MembersEnd(l, kind)
        PROVE  UNCHANGED Providers
    BY <2>6 DEF Fork, Write, MembersEnd, groupVars, Providers, Launches, StateOf, LeaderAlive,
                Reports
  <2> QED
    BY <1>2, <2>0, <2>1, <2>2, <2>3, <2>4, <2>5, <2>6, CallsUnseen DEF Next, Call, Proceed, Provider
<1>3. PInv /\ [Next]_vars => [Contract!Next]_Providers
  BY <1>2
<1> QED
  BY <1>1, <1>3, ProcessInvariant, PTL DEF Spec, ImplementsContract, Contract!Spec

=============================================================================
