------------------------------ MODULE Programs ------------------------------
(* The processes that phases 3 and 4 serve, and what those phases have in  *)
(* common.                                                                 *)
EXTENDS Integers, FiniteSets

CONSTANTS Procs, NULL

ASSUME ProgramsAssumption == IsFiniteSet(Procs) /\ NULL \notin Procs

(* Where a process stands in a call; one that links itself into a list     *)
(* holds the two entries between which it is to be.                        *)
Standing(loc) == [at |-> loc, before |-> NULL, after |-> NULL]
Linking(b, a) == [at |-> "linking", before |-> b, after |-> a]
=============================================================================
