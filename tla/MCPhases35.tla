----------------------------- MODULE MCPhases35 -----------------------------
(* Small instances of phases 3 and 5.  The parts share no state: each      *)
(* behaviour is of one of them, and the others stay as they begin.         *)
EXTENDS Semaphores, UserProcs, Pager, TLC

CONSTANTS p1, p2, p3

VARIABLE part

mcVars == <<semVars, upVars, pagerVars, part>>

MCInit ==
    /\ SemInit /\ ProcsInit /\ PagerInit
    /\ part \in {"semaphores", "processes", "pager"}
    /\ part # "processes" => kernel[Root].priority = 1

MCNext ==
    /\ UNCHANGED part
    /\ \/ part = "semaphores" /\ SemNext /\ UNCHANGED <<upVars, pagerVars>>
       \/ part = "processes" /\ ProcsNext /\ UNCHANGED <<semVars, pagerVars>>
       \/ part = "pager" /\ PagerNext /\ UNCHANGED <<semVars, upVars>>

MCSpec == MCInit /\ [][MCNext]_mcVars

(* The fairness that the modules state.  A behaviour is of one part, so    *)
(* that fairness of a disjunction is fairness of the disjunct of that part. *)
ProcessRuns(p) ==
    /\ UNCHANGED part
    /\ \/ part = "semaphores" /\ SemReturns(p) /\ UNCHANGED <<upVars, pagerVars>>
       \/ part = "processes" /\ ProcsRuns(p) /\ UNCHANGED <<semVars, pagerVars>>

MCFairSpec == MCSpec /\ \A p \in Procs : WF_mcVars(ProcessRuns(p))

(* The tables of the three parts hold only what their types allow.         *)
Phases35TypeOK == SemTypeOK /\ ProcsTypeOK /\ PagerTypeOK

MCTakers == [s \in Sems |-> IF s = 0 THEN {p1} ELSE {p2, p3}]
MCPagesOf == p1 :> {0, 1} @@ p2 :> {0}
=============================================================================
