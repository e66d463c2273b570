--------------------------- MODULE ProviderContract ---------------------------
(***************************************************************************)
(* What Chief may rely on about the providers it starts, whatever it does  *)
(* to wait for them and to stop them.  A supervisor holds at most one      *)
(* provider of a slot.  It lets go of one only when that has ended, or     *)
(* when it dies itself; nobody takes over.  Only an ended provider that is *)
(* held is reported on: with the way it ended, or as timed out.            *)
(*                                                                         *)
(* WorkerSupervision, where a provider is one process, and                 *)
(* ProviderProcess, where it is a group that is signalled, killed and      *)
(* waited for, both implement this specification.                          *)
(***************************************************************************)
EXTENDS Naturals, Sequences

CONSTANTS Supervisors, Slots

VARIABLE providers   \* every provider started, in the order of the starts

Ends == {"completed", "failed"}

Init == providers = <<>>

Launch(s, slot) ==
    /\ \A l \in DOMAIN providers :
          providers[l].slot = slot => s \notin providers[l].holders
    /\ providers' = Append(providers, [slot |-> slot, state |-> "running",
                                       holders |-> {s}, reports |-> {}])

End(l) ==
    /\ providers[l].state = "running"
    /\ \E how \in Ends : providers' = [providers EXCEPT ![l].state = how]

\* Supervisor s reports on provider l and lets go of it, or holds it still.
\* A log of reports keeps the earlier ones, a handle only the last.
Report(s, l) ==
    /\ s \in providers[l].holders
    /\ providers[l].state \in Ends
    /\ \E status \in {providers[l].state, "timed_out"},
          earlier \in {{}, providers[l].reports},
          holders \in {providers[l].holders, providers[l].holders \ {s}} :
             providers' = [providers EXCEPT ![l].reports = earlier \cup {status},
                                            ![l].holders = holders]

LetGo(s, l) ==
    /\ providers[l].state \in Ends
    /\ providers' = [providers EXCEPT ![l].holders = @ \ {s}]

Die(s) ==
    providers' = [l \in DOMAIN providers |->
                     [providers[l] EXCEPT !.holders = @ \ {s}]]

Next ==
    \/ \E s \in Supervisors :
          \/ \E slot \in Slots : Launch(s, slot)
          \/ \E l \in DOMAIN providers : Report(s, l) \/ LetGo(s, l)
          \/ Die(s)
    \/ \E l \in DOMAIN providers : End(l)

Spec == Init /\ [][Next]_providers

=============================================================================
