--------------------------- MODULE MCChiefDelegation ---------------------------
(* Small instances of ChiefDelegation: the values of its constant functions. *)
EXTENDS ChiefDelegation

CONSTANTS r1, r2, a, b, cli1, cli2, api

\* Every plan has one step, or two.
OneTicket == [r \in Runs |-> 1]

TwoTickets == [r \in Runs |-> 2]

\* The first plan has two steps, any other one.
TwoThenOne == [r \in Runs |-> IF r = r1 THEN 2 ELSE 1]

=============================================================================
