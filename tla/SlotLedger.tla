------------------------------- MODULE SlotLedger -------------------------------
(***************************************************************************)
(* What Chief promises about worker slots, whatever stores, files and      *)
(* calls it takes: a slot of a run is claimed once, by one session, from   *)
(* the run's one base commit; only the session that claimed it records and *)
(* queues it; and a slot whose session gave up is never claimed again.     *)
(* Sessions race for a slot without a worktree.  One that loses may take   *)
(* away the worktree of the one that won, at any stage, and nobody makes   *)
(* it again; a session that found the worktree there may not.              *)
(* ChiefDelegation implements this specification.                          *)
(***************************************************************************)
CONSTANTS Runs, Workers, Sessions, Bases, None

VARIABLES
    stage,    \* how far each slot has come
    rivals,   \* the sessions that found it without a worktree and want it
    builder,  \* the session that is preparing it, or None
    base      \* the commit its worktree starts from, or None

vars == <<stage, rivals, builder, base>>

Slots  == Runs \X Workers
Stages == {"free", "building", "orphaned", "recorded", "queued"}

Init ==
    /\ stage = [k \in Slots |-> "free"]
    /\ rivals = [k \in Slots |-> {}]
    /\ builder = [k \in Slots |-> None]
    /\ base = [k \in Slots |-> None]

\* The worktrees a run already has all start from b.
Agreed(k, b) == \A j \in Slots : j[1] = k[1] => base[j] \in {None, b}

\* Session s finds no worktree; it wants one slot at a time.
Contend(s, k) ==
    /\ base[k] = None
    /\ \A j \in Slots : s \notin rivals[j] /\ builder[j] # s
    /\ rivals' = [rivals EXCEPT ![k] = @ \cup {s}]
    /\ UNCHANGED <<stage, builder, base>>

\* It takes a slot that is still free.
Claim(s, k, b) ==
    /\ s \in rivals[k]
    /\ stage[k] = "free"
    /\ Agreed(k, b)
    /\ stage' = [stage EXCEPT ![k] = "building"]
    /\ rivals' = [rivals EXCEPT ![k] = @ \ {s}]
    /\ builder' = [builder EXCEPT ![k] = s]
    /\ base' = [base EXCEPT ![k] = b]

\* A claim that fails half-way: the slot is lost, with or without a worktree.
Spoil(s, k, b) ==
    /\ s \in rivals[k]
    /\ stage[k] = "free"
    /\ Agreed(k, b)
    /\ stage' = [stage EXCEPT ![k] = "orphaned"]
    /\ base' \in {base, [base EXCEPT ![k] = b]}
    /\ UNCHANGED <<rivals, builder>>

\* A session that did not get the slot leaves it, and may take the worktree
\* away that is there by now.
Withdraw(s, k) ==
    /\ s \in rivals[k]
    /\ rivals' = [rivals EXCEPT ![k] = @ \ {s}]
    /\ base' \in {base, [base EXCEPT ![k] = None]}
    /\ UNCHANGED <<stage, builder>>

Record(s, k) ==
    /\ builder[k] = s /\ stage[k] = "building"
    /\ stage' = [stage EXCEPT ![k] = "recorded"]
    /\ UNCHANGED <<rivals, builder, base>>

\* The ticket is in the worker's queue: the session is done with the slot.
Queue(s, k) ==
    /\ builder[k] = s /\ stage[k] = "recorded"
    /\ stage' = [stage EXCEPT ![k] = "queued"]
    /\ builder' = [builder EXCEPT ![k] = None]
    /\ UNCHANGED <<rivals, base>>

\* The session fails, dies or gives up.
Abandon(s, k) ==
    /\ builder[k] = s
    /\ stage' = [stage EXCEPT ![k] = IF @ = "building" THEN "orphaned" ELSE @]
    /\ builder' = [builder EXCEPT ![k] = None]
    /\ UNCHANGED <<rivals, base>>

Next ==
    \E k \in Slots :
        \E s \in Sessions :
            \/ Contend(s, k) \/ Withdraw(s, k)
            \/ \E b \in Bases : Claim(s, k, b) \/ Spoil(s, k, b)
            \/ Record(s, k) \/ Queue(s, k) \/ Abandon(s, k)

Spec == Init /\ [][Next]_vars

=============================================================================
