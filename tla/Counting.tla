------------------------------ MODULE Counting ------------------------------
(* What the semaphores of phase 3 promise: a unit is taken only if there   *)
(* is one.                                                                 *)
EXTENDS Naturals

CONSTANTS Sems, Values

VARIABLES
    exists,     \* the semaphores that have been created and not freed
    units       \* semaphore -> units that nobody has taken

vars == <<exists, units>>

Init == exists = {} /\ units \in [Sems -> Nat]

Create(s, value) ==
    /\ s \notin exists /\ exists' = exists \cup {s}
    /\ units' = [units EXCEPT ![s] = value]

P(s) == units[s] > 0 /\ units' = [units EXCEPT ![s] = @ - 1] /\ UNCHANGED exists

V(s) == units' = [units EXCEPT ![s] = @ + 1] /\ UNCHANGED exists

Free(s) == s \in exists /\ exists' = exists \ {s} /\ UNCHANGED units

Next == \E s \in Sems : P(s) \/ V(s) \/ Free(s) \/ \E n \in Values : Create(s, n)

Spec == Init /\ [][Next]_vars
=============================================================================
