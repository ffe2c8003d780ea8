----------------------------- MODULE UserProcs ------------------------------
(* The user processes of phase 3 (src/phase3/phase3.c): Spawn, Wait and    *)
(* Terminate over fork1, join, zap and quit of phase 1.  A process is its  *)
(* slot of the two process tables.  A child that runs before its parent    *)
(* has filled its entry waits in a private mailbox for the parent.         *)
(*                                                                         *)
(* The calls of phase 1 are one step each; which of them go wrong when     *)
(* several processes zap at once is the subject of Phase1.                 *)
EXTENDS Programs

CONSTANTS
    Root,               \* the slot of start3
    Funcs,              \* functions that processes are spawned with
    Priorities,         \* a smaller number is a higher priority
    MaxSpawns,          \* bound: children that the programs spawn
    JoinsFirst          \* only Root terminates before all its children

ASSUME ProcsAssumption ==
    /\ Root \in Procs /\ NULL \notin Funcs
    /\ Priorities \subseteq Nat /\ MaxSpawns \in Nat
    /\ JoinsFirst \in BOOLEAN

VARIABLES
    procTable,  \* the table of phase 3
    kernel,     \* what phase 1 knows of a process
    at,         \* process -> where it stands, and the child it spawns
    runs,       \* process -> the user function that it runs (not in the code)
    spawned,    \* number of children spawned
    halted      \* why phase 1 halted or a spawn went wrong, or "no"

upVars == <<procTable, kernel, at, runs, spawned, halted>>

ProcEntry == [status : {"EMPTY", "ACTIVE", "WAIT_BLOCK"}, mboxID : {"none", "parent", "child"},
              parentPtr : Procs \cup {NULL}, childProcPtr : Procs \cup {NULL},
              nextSiblingPtr : Procs \cup {NULL}, userFunc : Funcs \cup {NULL}]

(* func is the function that the parent passed to Spawn.                   *)
KernelEntry == [state : {"none", "ready", "receive", "join", "zap", "quit"},
                parent : Procs \cup {NULL}, priority : Priorities \cup {0},
                func : Funcs \cup {NULL}, zapped : BOOLEAN, zappers : SUBSET Procs]

Place(loc, c) == [step |-> loc, child |-> c]
InUser == Place("user", NULL)

NoEntry == [status |-> "EMPTY", mboxID |-> "none", parentPtr |-> NULL, childProcPtr |-> NULL,
            nextSiblingPtr |-> NULL, userFunc |-> NULL]
ZeroProc == [state |-> "none", parent |-> NULL, priority |-> 0, func |-> NULL,
             zapped |-> FALSE, zappers |-> {}]
NewProc(parent, f, prio) ==
    [ZeroProc EXCEPT !.state = "ready", !.parent = parent, !.func = f, !.priority = prio]

(* start2 has spawned start3, whose entry has no parent.                   *)
ProcsInit ==
    /\ procTable = [p \in Procs |-> IF p = Root THEN [NoEntry EXCEPT !.status = "ACTIVE"] ELSE NoEntry]
    /\ \E prio \in Priorities :
          kernel = [p \in Procs |-> IF p = Root THEN NewProc(NULL, NULL, prio) ELSE ZeroProc]
    /\ at = [p \in Procs |-> InUser]
    /\ runs = [p \in Procs |-> NULL]
    /\ spawned = 0 /\ halted = "no"

Ready(p) == kernel[p].state = "ready"
Outranks(q, p) == Ready(q) /\ kernel[q].priority < kernel[p].priority
Alive(p) == kernel[p].state \notin {"none", "quit"}
Children(p) == {c \in Procs : kernel[c].parent = p /\ kernel[c].state # "none"}
Dead(p) == {c \in Children(p) : kernel[c].state = "quit"}

(* The dispatcher runs the ready process of highest priority.  A time      *)
(* slice may hand the processor to another of the same priority anywhere:  *)
(* fork1 and the mailbox calls have enabled interrupts.                    *)
Running(p) == halted = "no" /\ Ready(p) /\ ~\E q \in Procs : Outranks(q, p)

Stands(p, loc) == at[p].step = loc /\ Running(p)
Goes(p, loc) == at' = [at EXCEPT ![p] = Place(loc, NULL)]
-----------------------------------------------------------------------------
(* Spawning.                                                               *)

Fork(p, c, f, prio) ==
    /\ Stands(p, "user") /\ spawned < MaxSpawns
    /\ kernel[c].state = "none"
    /\ kernel' = [kernel EXCEPT ![c] = NewProc(p, f, prio)]
    /\ at' = [at EXCEPT ![p] = Place("forked", c), ![c] = Place("new", NULL)]
    /\ spawned' = spawned + 1
    /\ UNCHANGED <<procTable, runs, halted>>

(* The parent looks whether the child has entered itself; if not it makes  *)
(* a mailbox, which enables interrupts, and then enters it.                *)
LooksAtEntry(p) ==
    LET c == at[p].child
    IN /\ Stands(p, "forked")
       /\ at' = [at EXCEPT ![p].step = IF procTable[c].status = "EMPTY" THEN "mboxMade"
                                       ELSE "entered"]
       /\ UNCHANGED <<procTable, kernel, runs, spawned, halted>>

EntersMbox(p) ==
    LET c == at[p].child
    IN /\ Stands(p, "mboxMade")
       /\ procTable' = [procTable EXCEPT ![c].status = "ACTIVE", ![c].mboxID = "parent"]
       /\ at' = [at EXCEPT ![p].step = "entered"]
       /\ UNCHANGED <<kernel, runs, spawned, halted>>

(* The list of children in the order of the links, cut off if circular.    *)
Listed(p) ==
    LET nth[k \in 0..Cardinality(Procs)] ==
            IF k = 0 THEN procTable[p].childProcPtr
            ELSE IF nth[k - 1] = NULL THEN NULL ELSE procTable[nth[k - 1]].nextSiblingPtr
    IN {nth[k] : k \in DOMAIN nth} \ {NULL}

(* Mutant: the child comes first and the others are lost. *)
MutantAddChildToList(p, c, table) == [table EXCEPT ![p].childProcPtr = c]

AddChildToList(p, c, table) ==
    IF table[p].childProcPtr = NULL THEN [table EXCEPT ![p].childProcPtr = c]
    ELSE LET last == CHOOSE q \in Listed(p) : table[q].nextSiblingPtr = NULL
         IN [table EXCEPT ![last].nextSiblingPtr = c]

(* Mutant: the function of an earlier process stays in the entry. *)
MutantFilled(p, c, box) ==
    [procTable[c] EXCEPT !.status = "ACTIVE", !.mboxID = box, !.childProcPtr = NULL,
                         !.nextSiblingPtr = NULL, !.parentPtr = p,
                         !.userFunc = IF @ = NULL THEN kernel[c].func ELSE @]

Filled(p, c, box) ==
    [status |-> "ACTIVE", mboxID |-> box, childProcPtr |-> NULL, nextSiblingPtr |-> NULL,
     parentPtr |-> p, userFunc |-> kernel[c].func]

(* The child expects a message in a mailbox of its own.                   *)
Expects(c) == at[c].step \in {"entering", "made", "launched"}

(* The parent fills the entry, links the child and sends to the mailbox of *)
(* the entry, which wakes the child if it waits there; it is never woken   *)
(* if it waits elsewhere or only later.  What follows is left out.         *)
Register(p) ==
    LET c == at[p].child
        wakes == kernel[c].state = "receive" /\ procTable[c].mboxID = "child"
    IN /\ Stands(p, "entered")
       /\ procTable' = AddChildToList(p, c, [procTable EXCEPT ![c] = Filled(p, c, @.mboxID)])
       /\ kernel' = IF wakes THEN [kernel EXCEPT ![c].state = "ready"] ELSE kernel
       /\ halted' = IF Expects(c) /\ ~wakes THEN "wakeUpLost" ELSE "no"
       /\ Goes(p, "user")
       /\ UNCHANGED <<runs, spawned>>

(* The child runs first: it takes the entry, makes its mailbox and waits   *)
(* for the parent.                                                         *)
LaunchEnters(c) ==
    /\ Stands(c, "new") /\ procTable[c].status = "EMPTY"
    /\ procTable' = [procTable EXCEPT ![c].status = "ACTIVE"]
    /\ Goes(c, "entering")
    /\ UNCHANGED <<kernel, runs, spawned, halted>>

LaunchMakesMbox(c) ==
    /\ Stands(c, "entering")
    /\ procTable' = [procTable EXCEPT ![c].mboxID = "child"]
    /\ Goes(c, "made")
    /\ UNCHANGED <<kernel, runs, spawned, halted>>

LaunchWaits(c) ==
    /\ Stands(c, "made")
    /\ kernel' = [kernel EXCEPT ![c].state = "receive"]
    /\ Goes(c, "launched")
    /\ UNCHANGED <<procTable, runs, spawned, halted>>

(* The parent has not got as far as Register.                              *)
Unregistered(c) == \E p \in Procs : at[p].child = c

(* A child that has been zapped ends at once.  One that finds an entry in  *)
(* use which is not filled yet calls what function it finds there; what    *)
(* follows is left out.                                                    *)
Launch(c) ==
    /\ Stands(c, "launched") \/ (Stands(c, "new") /\ procTable[c].status # "EMPTY")
    /\ IF kernel[c].zapped THEN Goes(c, "terminate") /\ UNCHANGED runs
       ELSE Goes(c, "user") /\ runs' = [runs EXCEPT ![c] = procTable[c].userFunc]
    /\ halted' = IF Unregistered(c) THEN "launchedEarly" ELSE "no"
    /\ UNCHANGED <<procTable, kernel, spawned>>
-----------------------------------------------------------------------------
(* Waiting: join takes a child that has quit, or waits for one.            *)

Wait(p) ==
    /\ Stands(p, "user") /\ Children(p) # {}
    /\ procTable' = [procTable EXCEPT ![p].status = "WAIT_BLOCK"]
    /\ kernel' = IF Dead(p) = {} THEN [kernel EXCEPT ![p].state = "join"] ELSE kernel
    /\ Goes(p, "joining")
    /\ UNCHANGED <<runs, spawned, halted>>

Joined(p) ==
    /\ Stands(p, "joining")
    /\ \E c \in Dead(p) : kernel' = [kernel EXCEPT ![c] = ZeroProc]
    /\ procTable' = [procTable EXCEPT ![p].status = "ACTIVE"]
    /\ Goes(p, "user")
    /\ UNCHANGED <<runs, spawned, halted>>
-----------------------------------------------------------------------------
(* Terminating: by the program, or because its function has returned.      *)

MayTerminate(p) == JoinsFirst /\ p # Root => Children(p) = {}

Terminate(p) ==
    /\ Stands(p, "user") /\ MayTerminate(p)
    /\ Goes(p, "terminate")
    /\ UNCHANGED <<procTable, kernel, runs, spawned, halted>>

(* The first child is zapped: the process waits until that child has quit. *)
(* It halts the system to zap a process that does not exist, and a process *)
(* that is twice among the zappers of one target makes their list circular.*)
TerminateZaps(p) ==
    LET c == procTable[p].childProcPtr
    IN /\ Stands(p, "terminate") /\ c # NULL
       /\ halted' = IF kernel[c].state = "none" THEN "zapsNobody"
                    ELSE IF Alive(c) /\ p \in kernel[c].zappers THEN "zapsTwice" ELSE "no"
       /\ kernel' = IF Alive(c)
                    THEN [kernel EXCEPT ![p].state = "zap", ![c].zapped = TRUE,
                                        ![c].zappers = @ \cup {p}]
                    ELSE kernel
       /\ UNCHANGED <<procTable, at, runs, spawned>>

(* Mutant: the next child is not put in the place of the first. *)
MutantRemoveFromChildList(p, parent) ==
    IF procTable[parent].childProcPtr = p THEN [procTable EXCEPT ![parent].childProcPtr = NULL]
    ELSE procTable

RemoveFromChildList(p, parent) ==
    IF procTable[parent].childProcPtr = p
    THEN [procTable EXCEPT ![parent].childProcPtr = procTable[p].nextSiblingPtr]
    ELSE LET before == CHOOSE q \in Listed(parent) : procTable[q].nextSiblingPtr = p
         IN [procTable EXCEPT ![before].nextSiblingPtr = procTable[p].nextSiblingPtr]

Unlinked(p) ==
    LET parent == procTable[p].parentPtr
    IN IF parent = NULL THEN procTable ELSE RemoveFromChildList(p, parent)

(* What quit makes of the parent and of the zappers of p.  A process that  *)
(* leaves children that have quit frees them and wakes its parent whatever *)
(* the parent waits for.                                                   *)
AfterQuit(p) ==
    LET wakesParent(q) == /\ q = kernel[p].parent
                          /\ kernel[q].state = "join" \/ (Dead(p) # {} /\ Alive(q))
    IN [q \in Procs |->
          IF q = p THEN [kernel[p] EXCEPT !.state = "quit"]
          ELSE IF q \in Dead(p) THEN ZeroProc
          ELSE IF q \in kernel[p].zappers \/ wakesParent(q)
               THEN [kernel[q] EXCEPT !.state = "ready"]
          ELSE kernel[q]]

(* Mutant: the entry is not given back. *)
MutantFreed(p, table) == table

Freed(p, table) == [table EXCEPT ![p].status = "EMPTY"]

(* Without children the process leaves its parent's list and quits.        *)
TerminateEnds(p) ==
    /\ Stands(p, "terminate") /\ procTable[p].childProcPtr = NULL
    /\ procTable' = Freed(p, Unlinked(p))
    /\ \/ /\ \A c \in Children(p) : ~Alive(c)
          /\ kernel' = AfterQuit(p)
          /\ UNCHANGED halted
       \/ /\ \E c \in Children(p) : Alive(c)
          /\ halted' = "activeChildren"
          /\ UNCHANGED kernel
    /\ Goes(p, "user")
    /\ runs' = [runs EXCEPT ![p] = NULL]
    /\ UNCHANGED spawned
-----------------------------------------------------------------------------
Spawns(p) == \E c \in Procs, f \in Funcs, prio \in Priorities : Fork(p, c, f, prio)

ProcsContinue(p) ==
    \/ LooksAtEntry(p) \/ EntersMbox(p) \/ Register(p)
    \/ LaunchEnters(p) \/ LaunchMakesMbox(p) \/ LaunchWaits(p) \/ Launch(p) \/ Joined(p)
    \/ TerminateZaps(p) \/ TerminateEnds(p)

ProcsNext == \E p \in Procs : Spawns(p) \/ Wait(p) \/ Terminate(p) \/ ProcsContinue(p)

ProcsSpec == ProcsInit /\ [][ProcsNext]_upVars

(* Every program ends, and waits for its children if it has to.            *)
ProcsRuns(p) == ProcsContinue(p) \/ Terminate(p) \/ (~MayTerminate(p) /\ Wait(p))
ProcsFairness == \A p \in Procs : WF_upVars(ProcsRuns(p))
-----------------------------------------------------------------------------
ProcsTypeOK ==
    /\ procTable \in [Procs -> ProcEntry]
    /\ kernel \in [Procs -> KernelEntry]
    /\ \A p \in Procs : at[p].child \in Procs \cup {NULL}
    /\ runs \in [Procs -> Funcs \cup {NULL}]
    /\ spawned \in 0..MaxSpawns

(* A time slice in the middle of a spawn has kept parent and child from    *)
(* finding each other.                                                     *)
Slipped == halted \in {"wakeUpLost", "launchedEarly"}

(* A child runs the function that was passed to Spawn, whichever of parent *)
(* and child ran first, unless it runs before the parent filled the entry. *)
RunsItsFunction ==
    halted # "launchedEarly" => \A p \in Procs \ {Root} : runs[p] \in {NULL, kernel[p].func}

(* A process's list holds its children that have not quit, in any order of *)
(* spawning, ending and reuse of slots; only the child that is being       *)
(* spawned is missing.                                                     *)
ChildrenListed ==
    \A p \in Procs : Alive(p) =>
        Listed(p) = {c \in Children(p) : Alive(c) /\ at[p].child # c}

(* No process quits before its children, and none zaps a process that does *)
(* not exist or that it is zapping already.                                *)
NeverHalts == halted = "no" \/ Slipped

(* All programs end: no child waits in its launch for ever, no parent for  *)
(* a child that it cannot reach, unless a spawn has slipped.               *)
ProgramsEnd == spawned > 0 ~> (kernel[Root].state = "quit" \/ Slipped)
=============================================================================
