----------------------------- MODULE MCPhase4 ------------------------------
(* Small instances of the parts of phase 4.  They share no state: each     *)
(* behaviour is of one of them, and the others stay as they begin.         *)
EXTENDS Sleep, Disk, Terminal, TLC

CONSTANTS p1, p2, p3

VARIABLE part

mcVars == <<sleepVars, diskVars, terminalVars, part>>

MCInit ==
    /\ SleepInit /\ DiskInit /\ TerminalInit
    /\ part \in {"sleep", "disk", "terminal"}

MCNext ==
    /\ UNCHANGED part
    /\ \/ part = "sleep" /\ SleepNext /\ UNCHANGED <<diskVars, terminalVars>>
       \/ part = "disk" /\ DiskNext /\ UNCHANGED <<sleepVars, terminalVars>>
       \/ part = "terminal" /\ TerminalNext /\ UNCHANGED <<sleepVars, diskVars>>

(* The fairness that the modules state.  A behaviour is of one part, so    *)
(* that fairness of a disjunction is fairness of the disjunct of that part. *)
DriverRuns ==
    /\ UNCHANGED part
    /\ \/ part = "sleep" /\ ClockDriverRuns /\ UNCHANGED <<diskVars, terminalVars>>
       \/ part = "disk" /\ DiskDriverRuns /\ UNCHANGED <<sleepVars, terminalVars>>

CallerRuns(p) ==
    /\ UNCHANGED part
    /\ \/ part = "sleep" /\ SleeperRuns(p) /\ UNCHANGED <<diskVars, terminalVars>>
       \/ part = "disk" /\ DiskCallerRuns(p) /\ UNCHANGED <<sleepVars, terminalVars>>

MCSpec ==
    /\ MCInit /\ [][MCNext]_mcVars
    /\ WF_sleepVars(part = "sleep" /\ Ticks)
    /\ WF_mcVars(DriverRuns)
    /\ \A p \in Procs : SF_mcVars(CallerRuns(p))

(* The three tables hold only what their types allow.                      *)
Phase4TypeOK == SleepTypeOK /\ DiskTypeOK /\ TerminalTypeOK

Request(t, s, n) == [requestType |-> t, startSector |-> s, sectors |-> n]
MCTrackOf == p1 :> 0 @@ p2 :> 1 @@ p3 :> 2
MCAsks ==
    p1 :> {Request("read", 1, 2)}
        @@ p2 :> {Request("write", 0, 1)}
        @@ p3 :> {Request("write", 1, 2)}
MCKeys == <<"newline", "char", "char">>
=============================================================================
