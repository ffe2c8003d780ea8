------------------------------- MODULE Phase1 -------------------------------
(* The process table and the scheduler of phase 1 (src/phase1/phase1.c):   *)
(* fork1, join, quit, zap, blockMe, unblockProc, the time slice and the    *)
(* dispatcher.                                                             *)
(*                                                                         *)
(* A system call runs with interrupts off, as one step, up to the point    *)
(* where it calls the dispatcher.  What it does after the dispatcher has   *)
(* returned is a later step of the same process, taken when it is          *)
(* dispatched again, with interrupts on.  frame[s] is what the stack of    *)
(* the process in slot s remembers in between.                             *)
(*                                                                         *)
(* The ready, child and quit lists are intrusive lists in the code and     *)
(* sequences of slots here; AddProcToReadyList says what linking a process *)
(* twice does to the list.  The zapper lists keep their pointers, since a  *)
(* link outlives the list it belonged to.                                  *)
EXTENDS Integers, Sequences, SequencesExt

CONSTANTS
    MAXPROC,        \* size of the process table
    PidLimit,       \* pids from here on do not fit the field pid (2^15: a short)
    MaxPid,         \* bound of the model: no process gets this pid or a higher one
    Priorities,     \* the priorities that programs pass to fork1
    Calls,          \* the system calls that programs make
    JoinsFirst,     \* programs join their dead children before they quit
    SoleZapper,     \* programs zap a process only if nobody else zaps it
    KernelPreempt   \* a time slice may end inside a system call

AllCalls == {"fork1", "badFork", "join", "quit", "zap", "blockMe", "unblockProc",
             "misuse"}

ASSUME TableAssumption == MAXPROC \in Nat /\ MAXPROC >= 3
ASSUME BoundAssumption == PidLimit \in Nat /\ PidLimit >= 3 /\ MaxPid \in Nat /\ MaxPid >= 3
ASSUME ProgramAssumption ==
    /\ Priorities \subseteq 1..5
    /\ Calls \subseteq AllCalls
    /\ {JoinsFirst, SoleZapper, KernelPreempt} \subseteq BOOLEAN

VARIABLES
    ProcTable,      \* slot -> process structure
    ReadyList,      \* slots, the running process included
    Current,        \* slot of the running process
    nextPid,
    intsOn,         \* interrupts are enabled
    frame,          \* slot -> where the process is, with its local variables
    halted          \* how USLOSS stopped, or "no"

vars == <<ProcTable, ReadyList, Current, nextPid, intsOn, frame, halted>>

NULL == -1
Slots == 0..(MAXPROC - 1)
SENTINEL == 1       \* slot of the sentinel: SENTINELPID % MAXPROC
SENTINELPRIORITY == 6

Statuses == {"EMPTY", "READY", "RUNNING", "QUIT", "JOIN_BLOCKED", "ZAP_BLOCKED",
             "BLOCKED"}     \* BLOCKED: any status above 10, set by blockMe

(* Locations: running its own code; in fork1, zap, blockMe or unblockProc  *)
(* after the dispatcher; before the wake-up of unblockProc; at the end of  *)
(* join, before and after it read the head of the quit list; in quit       *)
(* before its dispatcher; after quit.                                      *)
Locations == {"user", "fork1", "zap", "blockMe", "waking", "unblockProc",
              "join", "joinReap", "quitting", "gone"}

ProcStruct == [pid : Int, priority : Int, status : Statuses,
               parent : Slots \cup {NULL},
               children : Seq(Slots), quitChildren : Seq(Slots),
               whoZapped : Slots \cup {NULL}, nextWhoZapped : Slots \cup {NULL},
               zapped : BOOLEAN]

Frames == [at : Locations, arg : Int, todo : Seq(Slots)]

EmptyProc == [pid |-> -1, priority |-> -1, status |-> "EMPTY", parent |-> NULL,
              children |-> <<>>, quitChildren |-> <<>>,
              whoZapped |-> NULL, nextWhoZapped |-> NULL, zapped |-> FALSE]

At(loc, arg, todo) == [at |-> loc, arg |-> arg, todo |-> todo]
InUser == At("user", 0, <<>>)

(* nextPid as the field pid holds it, in two's complement. *)
AsShort(n) == ((n + PidLimit) % (2 * PidLimit)) - PidLimit

(* The slot a pid hashes to.  C's remainder keeps the sign: a negative pid *)
(* has no slot, and indexes memory in front of the table.                  *)
Hash(pid) == IF pid >= 0 THEN pid % MAXPROC ELSE NULL

-----------------------------------------------------------------------------
(* Lists and the dispatcher.                                               *)

(* Mutant: a process is queued behind everybody but the sentinel. *)
MutantFirstHigher(rl, pt, p) == Len(rl)

FirstHigher(rl, pt, p) ==
    CHOOSE i \in 1..Len(rl) :
        /\ pt[rl[i]].priority > pt[p].priority
        /\ \A j \in 1..(i - 1) : pt[rl[j]].priority <= pt[p].priority

(* Mutant: a process that is on the list already stays there as well. *)
MutantAddProcToReadyList(rl, pt, p) ==
    IF rl = <<>> THEN <<p>>
    ELSE SubSeq(rl, 1, FirstHigher(rl, pt, p) - 1) \o <<p>>
         \o SubSeq(rl, FirstHigher(rl, pt, p), Len(rl))

(* p goes behind the processes of its priority.  If it is linked already,  *)
(* its link is overwritten: whoever stood between p and the place where p  *)
(* is inserted is no longer reachable.                                     *)
AddProcToReadyList(rl, pt, p) ==
    IF rl = <<>> THEN <<p>>
    ELSE LET i == FirstHigher(rl, pt, p)
             kept == IF \E j \in 1..Len(rl) : rl[j] = p
                     THEN (CHOOSE j \in 1..Len(rl) : rl[j] = p) - 1
                     ELSE i - 1
         IN SubSeq(rl, 1, kept) \o <<p>> \o SubSeq(rl, i, Len(rl))

(* Mutant: the running process is taken to be the first of the list. *)
MutantRemoveFromReadyList(rl, p) == Tail(rl)

RemoveFromReadyList(rl, p) == RemoveFirst(rl, p)

(* Mutant: the quit list is overwritten when it is not empty. *)
MutantAddToQuitChildList(quitters) == <<Current>>

AddToQuitChildList(quitters) == Append(quitters, Current)

(* The running process goes from its mother's child list to her quit list. *)
ChildQuits(pt, mother) ==
    [pt EXCEPT ![mother].children = RemoveFirst(@, Current),
               ![mother].quitChildren = AddToQuitChildList(@)]

Dispatch(pt, rl) ==
    LET new == Head(rl)
        old == [pt EXCEPT ![Current].status = IF @ = "RUNNING" THEN "READY" ELSE @]
    IN /\ ReadyList' = AddProcToReadyList(Tail(rl), pt, new)
       /\ ProcTable' = [old EXCEPT ![new].status = "RUNNING"]
       /\ Current' = new
       /\ intsOn' = TRUE

(* The table after zeroProcStruct of the pids of the processes in S.       *)
Zeroed(pt, S) ==
    [s \in Slots |-> IF s \in {Hash(pt[q].pid) : q \in S} THEN EmptyProc ELSE pt[s]]

FramesWithout(S) ==
    [s \in Slots |-> IF s \in S THEN At("gone", 0, <<>>) ELSE frame[s]]

(* Freeing a slot that is still on the ready list, or that its pid does    *)
(* not name, leaves pointers into freed memory: the model stops there.     *)
MayZero(S) ==
    \A q \in S : /\ Hash(ProcTable[q].pid) = q
                 /\ \A i \in 1..Len(ReadyList) : ReadyList[i] # q

Stop(how) ==
    /\ halted' = how
    /\ UNCHANGED <<ProcTable, ReadyList, Current, nextPid, intsOn, frame>>

Init ==
    /\ ProcTable = [s \in Slots |->
                       CASE s = SENTINEL -> [EmptyProc EXCEPT !.pid = 1, !.priority = SENTINELPRIORITY,
                                                              !.status = "READY"]
                         [] s = 2        -> [EmptyProc EXCEPT !.pid = 2, !.priority = 1,
                                                              !.status = "READY"]
                         [] OTHER        -> EmptyProc]
    /\ ReadyList = <<2, SENTINEL>>
    /\ Current = 2
    /\ nextPid = 3
    /\ intsOn = TRUE
    /\ frame = [s \in Slots |-> IF s \in {SENTINEL, 2} THEN InUser ELSE At("gone", 0, <<>>)]
    /\ halted = "no"

InCall(loc) == halted = "no" /\ Current # SENTINEL /\ frame[Current].at = loc
MayCall(c) == InCall("user") /\ c \in Calls

-----------------------------------------------------------------------------
(* fork1.                                                                  *)

IsFree(k) == ProcTable[(nextPid + k) % MAXPROC].status = "EMPTY"

Fork1(prio) ==
    /\ MayCall("fork1")
    /\ \E k \in 0..(MAXPROC - 1) :
         /\ IsFree(k)
         /\ \A j \in 0..(k - 1) : ~IsFree(j)
         /\ nextPid + k < MaxPid
         /\ LET s  == (nextPid + k) % MAXPROC
                new == [EmptyProc EXCEPT !.pid = AsShort(nextPid + k), !.priority = prio,
                                         !.status = "READY", !.parent = Current]
                pt == [ProcTable EXCEPT ![s] = new, ![Current].children = Append(@, s)]
            IN /\ nextPid' = nextPid + k + 1
               /\ frame' = [frame EXCEPT ![s] = InUser, ![Current] = At("fork1", s, <<>>)]
               /\ Dispatch(pt, AddProcToReadyList(ReadyList, pt, s))
    /\ UNCHANGED halted

(* A bad priority or stack size, or a full table: fork1 returns at once    *)
(* and leaves interrupts off; the search of a full table moves nextPid on. *)
Fork1Fails ==
    /\ \/ MayCall("badFork") /\ UNCHANGED nextPid
       \/ /\ MayCall("fork1")
          /\ \A k \in 0..(MAXPROC - 1) : ~IsFree(k)
          /\ nextPid <= MaxPid
          /\ nextPid' = nextPid + MAXPROC + 1
    /\ intsOn' = FALSE
    /\ UNCHANGED <<ProcTable, ReadyList, Current, frame, halted>>

(* fork1, zap, blockMe or unblockProc returns to its caller. *)
Return ==
    /\ \E loc \in {"fork1", "zap", "blockMe", "unblockProc"} : InCall(loc)
    /\ frame' = [frame EXCEPT ![Current] = InUser]
    /\ UNCHANGED <<ProcTable, ReadyList, Current, nextPid, intsOn, halted>>

-----------------------------------------------------------------------------
(* join.                                                                   *)

JoinNoChild ==
    /\ MayCall("join")
    /\ ProcTable[Current].children = <<>> /\ ProcTable[Current].quitChildren = <<>>
    /\ intsOn' = FALSE
    /\ UNCHANGED <<ProcTable, ReadyList, Current, nextPid, frame, halted>>

JoinQuitChild ==
    /\ MayCall("join")
    /\ ProcTable[Current].quitChildren # <<>>
    /\ intsOn' = FALSE
    /\ frame' = [frame EXCEPT ![Current] = At("join", 0, <<>>)]
    /\ UNCHANGED <<ProcTable, ReadyList, Current, nextPid, halted>>

JoinBlocks ==
    /\ MayCall("join")
    /\ ProcTable[Current].children # <<>> /\ ProcTable[Current].quitChildren = <<>>
    /\ frame' = [frame EXCEPT ![Current] = At("join", 0, <<>>)]
    /\ Dispatch([ProcTable EXCEPT ![Current].status = "JOIN_BLOCKED"], RemoveFromReadyList(ReadyList, Current))
    /\ UNCHANGED <<nextPid, halted>>

(* join reads the head of the quit list and the link behind it ...         *)
JoinTake ==
    /\ InCall("join")
    /\ LET quitters == ProcTable[Current].quitChildren
       IN IF quitters = <<>>
          THEN Stop("crash")
          ELSE /\ frame' = [frame EXCEPT ![Current] = At("joinReap", Head(quitters), Tail(quitters))]
               /\ UNCHANGED <<ProcTable, ReadyList, Current, nextPid, intsOn, halted>>

(* ... makes the link it has read the head of the list, and frees the      *)
(* child's slot.                                                           *)
JoinReap ==
    /\ InCall("joinReap")
    /\ LET child == frame[Current].arg
           pt == [ProcTable EXCEPT ![Current].quitChildren =
                                      IF frame[Current].todo = <<>> THEN <<>>
                                      ELSE SubSeq(@, 2, Len(@))]
       IN IF MayZero({child})
          THEN /\ ProcTable' = Zeroed(pt, {child})
               /\ frame' = [FramesWithout({child}) EXCEPT ![Current] = InUser]
               /\ UNCHANGED <<ReadyList, Current, nextPid, intsOn, halted>>
          ELSE Stop("crash")

-----------------------------------------------------------------------------
(* quit.                                                                   *)

(* The zappers to wake: arg is the next one that unblockZappers visits.     *)
Quit ==
    /\ MayCall("quit")
    /\ JoinsFirst => ProcTable[Current].quitChildren = <<>>
    /\ ProcTable[Current].children = <<>>
    /\ frame' = [frame EXCEPT ![Current] =
                   At("quitting", IF ProcTable[Current].zapped THEN ProcTable[Current].whoZapped
                                  ELSE NULL, <<>>)]
    /\ ProcTable' = [ProcTable EXCEPT ![Current].status = "QUIT"]
    /\ ReadyList' = RemoveFromReadyList(ReadyList, Current)
    /\ intsOn' = FALSE
    /\ UNCHANGED <<Current, nextPid, halted>>

(* The recursion of unblockZappers reaches the end of the list before it   *)
(* wakes anybody; a circular list overflows the stack.                     *)
VisitZapper ==
    /\ InCall("quitting") /\ frame[Current].arg # NULL
    /\ LET z == frame[Current].arg
           visited == frame[Current].todo
       IN IF Len(visited) = MAXPROC
          THEN Stop("crash")
          ELSE /\ frame' = [frame EXCEPT ![Current] =
                              At("quitting", ProcTable[z].nextWhoZapped, Append(visited, z))]
               /\ UNCHANGED <<ProcTable, ReadyList, Current, nextPid, intsOn, halted>>

(* One visited process, the last one first, becomes ready. *)
UnblockZapper ==
    /\ InCall("quitting") /\ frame[Current].arg = NULL
    /\ frame[Current].todo # <<>>
    /\ LET z == Last(frame[Current].todo)
       IN /\ ProcTable' = [ProcTable EXCEPT ![z].status = "READY"]
          /\ ReadyList' = AddProcToReadyList(ReadyList, ProcTable, z)
    /\ frame' = [frame EXCEPT ![Current].todo = Front(@)]
    /\ UNCHANGED <<Current, nextPid, intsOn, halted>>

ZappersAwake ==
    /\ InCall("quitting")
    /\ frame[Current].arg = NULL /\ frame[Current].todo = <<>>

(* A child that leaves dead children of its own: they are freed, and the   *)
(* parent is made ready whatever it was doing.                             *)
QuitChildAndParent ==
    /\ ZappersAwake
    /\ ProcTable[Current].parent # NULL /\ ProcTable[Current].quitChildren # <<>>
    /\ LET dead   == ToSet(ProcTable[Current].quitChildren)
           mother == ProcTable[Current].parent
           freed  == [Zeroed(ProcTable, dead) EXCEPT ![Current].quitChildren = <<>>]
           pt     == [ChildQuits(freed, mother) EXCEPT ![mother].status = "READY"]
       IN IF MayZero(dead)
          THEN /\ frame' = [FramesWithout(dead) EXCEPT ![Current] = At("gone", 0, <<>>)]
               /\ Dispatch(pt, AddProcToReadyList(ReadyList, pt, mother))
               /\ UNCHANGED <<nextPid, halted>>
          ELSE Stop("crash")

(* Mutant: the parent is not woken. *)
MutantWaitsInJoin(mother) == FALSE

WaitsInJoin(mother) == ProcTable[mother].status = "JOIN_BLOCKED"

QuitChild ==
    /\ ZappersAwake
    /\ ProcTable[Current].parent # NULL /\ ProcTable[Current].quitChildren = <<>>
    /\ LET mother == ProcTable[Current].parent
           joining == WaitsInJoin(mother)
           pt == [ChildQuits(ProcTable, mother)
                    EXCEPT ![mother].status = IF joining THEN "READY" ELSE @]
       IN Dispatch(pt, IF joining THEN AddProcToReadyList(ReadyList, pt, mother) ELSE ReadyList)
    /\ frame' = [frame EXCEPT ![Current] = At("gone", 0, <<>>)]
    /\ UNCHANGED <<nextPid, halted>>

(* start1 has no parent: it frees its dead children and itself. *)
QuitParent ==
    /\ ZappersAwake
    /\ ProcTable[Current].parent = NULL
    /\ LET dead == ToSet(ProcTable[Current].quitChildren) \cup {Current}
       IN IF MayZero(dead)
          THEN /\ frame' = FramesWithout(dead)
               /\ Dispatch(Zeroed(ProcTable, dead), ReadyList)
               /\ UNCHANGED <<nextPid, halted>>
          ELSE Stop("crash")

(* A process that has quit is dispatched again: it returns from quit into  *)
(* code that does not expect it.                                           *)
QuitReturns == InCall("gone") /\ Stop("crash")

-----------------------------------------------------------------------------
(* zap, blockMe, unblockProc.                                              *)

Exists(s) == ProcTable[s].status # "EMPTY" /\ ProcTable[s].pid >= 0

(* Mutant: zap does not look whether its target has quit already. *)
MutantHasQuit(t) == FALSE

HasQuit(t) == ProcTable[t].status = "QUIT"

ZapQuitProcess ==
    /\ MayCall("zap")
    /\ \E t \in Slots : Exists(t) /\ HasQuit(t)
    /\ intsOn' = FALSE
    /\ UNCHANGED <<ProcTable, ReadyList, Current, nextPid, frame, halted>>

(* Mutant: the zapper's pid is stored where its table entry is meant. *)
MutantZapLink(t) == ProcTable[Current].pid

ZapLink(t) == Current

(* The sentinel is no target: programs zap processes that can quit.        *)
Zap(t) ==
    /\ MayCall("zap")
    /\ Exists(t) /\ t \notin {Current, SENTINEL} /\ ~HasQuit(t)
    /\ SoleZapper => ProcTable[t].whoZapped = NULL
    /\ LET first == ProcTable[t].whoZapped
           pt == [ProcTable EXCEPT ![Current].status = "ZAP_BLOCKED",
                                   ![Current].nextWhoZapped = IF first = NULL THEN @ ELSE first,
                                   ![t].zapped = TRUE,
                                   ![t].whoZapped = ZapLink(t)]
       IN Dispatch(pt, RemoveFromReadyList(ReadyList, Current))
    /\ frame' = [frame EXCEPT ![Current] = At("zap", ProcTable[t].pid, <<>>)]
    /\ UNCHANGED <<nextPid, halted>>

BlockMe ==
    /\ MayCall("blockMe")
    /\ frame' = [frame EXCEPT ![Current] = At("blockMe", 0, <<>>)]
    /\ Dispatch([ProcTable EXCEPT ![Current].status = "BLOCKED"], RemoveFromReadyList(ReadyList, Current))
    /\ UNCHANGED <<nextPid, halted>>

(* Mutant: unblockProc also accepts the statuses JOIN_BLOCKED (9) and      *)
(* ZAP_BLOCKED (10).                                                       *)
MutantBlockedByBlockMe(t) ==
    ProcTable[t].status \in {"BLOCKED", "JOIN_BLOCKED", "ZAP_BLOCKED"}

BlockedByBlockMe(t) == ProcTable[t].status = "BLOCKED"

(* unblockProc checks its target with interrupts as they are ...           *)
UnblockProc(t) ==
    /\ MayCall("unblockProc")
    /\ Exists(t) /\ t # Current /\ BlockedByBlockMe(t)
    /\ ~ProcTable[Current].zapped
    /\ frame' = [frame EXCEPT ![Current] = At("waking", t, <<>>)]
    /\ UNCHANGED <<ProcTable, ReadyList, Current, nextPid, intsOn, halted>>

(* ... and makes it ready.                                                 *)
MakeReady ==
    /\ InCall("waking")
    /\ LET t == frame[Current].arg
           pt == [ProcTable EXCEPT ![t].status = "READY"]
       IN Dispatch(pt, AddProcToReadyList(ReadyList, pt, t))
    /\ frame' = [frame EXCEPT ![Current] = At("unblockProc", 0, <<>>)]
    /\ UNCHANGED <<nextPid, halted>>

(* USLOSS halts: quit with live children, zap of oneself or of a pid that  *)
(* nobody has, blockMe with a status below 11.                             *)
Misuse ==
    /\ MayCall("misuse")
    /\ Stop("misuse")

-----------------------------------------------------------------------------
(* The clock and the sentinel.                                             *)

(* The clock handler finds that the running process has used up its slice. *)
TimeSlice ==
    /\ halted = "no" /\ Current # SENTINEL /\ intsOn
    /\ frame[Current].at = "user" \/ KernelPreempt
    /\ Dispatch(ProcTable, ReadyList)
    /\ UNCHANGED <<nextPid, frame, halted>>

CheckDeadlock ==
    /\ halted = "no" /\ Current = SENTINEL
    /\ Stop(IF \E s \in Slots \ {SENTINEL} : ProcTable[s].status # "EMPTY"
            THEN "deadlock" ELSE "completed")

(* The running process goes on with its own code. *)
ProgramRuns == InCall("user") /\ UNCHANGED vars

Halted == halted # "no" /\ UNCHANGED vars

Next ==
    \/ \E prio \in Priorities : Fork1(prio)
    \/ Fork1Fails
    \/ Return
    \/ JoinNoChild
    \/ JoinQuitChild
    \/ JoinBlocks
    \/ JoinTake
    \/ JoinReap
    \/ Quit
    \/ VisitZapper
    \/ UnblockZapper
    \/ QuitChildAndParent
    \/ QuitChild
    \/ QuitParent
    \/ QuitReturns
    \/ ZapQuitProcess
    \/ \E t \in Slots : Zap(t)
    \/ BlockMe
    \/ \E t \in Slots : UnblockProc(t)
    \/ MakeReady
    \/ Misuse
    \/ TimeSlice
    \/ CheckDeadlock
    \/ ProgramRuns
    \/ Halted

Spec == Init /\ [][Next]_vars

(* Programs end: a process that keeps getting the processor joins its       *)
(* children and quits; the kernel finishes what it has begun.               *)
KernelStep == Return \/ JoinTake \/ JoinReap \/ VisitZapper \/ UnblockZapper \/ QuitChildAndParent
              \/ QuitChild \/ QuitParent \/ MakeReady \/ CheckDeadlock
Ends(s) == Current = s /\ (Quit \/ JoinQuitChild \/ JoinBlocks)
Fairness == WF_vars(KernelStep) /\ \A s \in Slots : SF_vars(Ends(s))
FairSpec == Spec /\ Fairness
-----------------------------------------------------------------------------
Alive(s) == ProcTable[s].status \notin {"EMPTY", "QUIT"}
Runnable(s) == ProcTable[s].status \in {"READY", "RUNNING"}
Quitting == frame[Current].at = "quitting"

(* The state variables have the types of their declarations. *)
TypeOK ==
    /\ ProcTable \in [Slots -> ProcStruct]
    /\ ReadyList \in Seq(Slots)
    /\ Current \in Slots
    /\ nextPid \in 3..(MaxPid + MAXPROC + 1)
    /\ intsOn \in BOOLEAN
    /\ frame \in [Slots -> Frames]
    /\ halted \in {"no", "completed", "deadlock", "misuse", "crash"}

(* Whatever programs do, the dispatcher finds a process: the ready list    *)
(* ends in the sentinel, is sorted, holds nobody twice, and the running    *)
(* process is on it until it quits.                                        *)
ReadyListSafe ==
    /\ ReadyList # <<>> /\ Last(ReadyList) = SENTINEL
    /\ \A i, j \in 1..Len(ReadyList) :
          i < j => /\ ReadyList[i] # ReadyList[j]
                   /\ ProcTable[ReadyList[i]].priority <= ProcTable[ReadyList[j]].priority
    /\ Quitting \/ Current \in ToSet(ReadyList)

(* No process that can run is off the ready list, and none that cannot is  *)
(* on it.                                                                  *)
ReadyListComplete == ToSet(ReadyList) = {s \in Slots : Runnable(s)}

(* The scheduler is preemptive: no runnable process has a higher priority  *)
(* than the running one.                                                   *)
HighestPriorityRuns ==
    \A s \in Slots : Runnable(s) /\ ~Quitting
                        => ProcTable[s].priority >= ProcTable[Current].priority

(* A living child is on its living parent's child list, a dead one on its  *)
(* quit list, once: join and quit find every child.                        *)
FamilyListed ==
    \A s \in Slots :
        LET mother == ProcTable[s].parent
            listed == IF Alive(s) \/ (Quitting /\ s = Current)
                      THEN ProcTable[mother].children
                      ELSE ProcTable[mother].quitChildren
        IN ProcTable[s].status # "EMPTY" /\ mother # NULL
             => /\ Alive(mother)
                /\ \E i \in 1..Len(listed) :
                     listed[i] = s /\ \A j \in 1..Len(listed) : listed[j] = s => j = i

(* Nobody waits in join for a child that has quit, or for no child.        *)
JoinWaitsForChild ==
    \A s \in Slots : ProcTable[s].status = "JOIN_BLOCKED"
        => ProcTable[s].quitChildren = <<>> /\ ProcTable[s].children # <<>>

(* Each zapper that waits is the one its living target will wake.          *)
ZapWaitsForTarget ==
    \A s \in Slots : ProcTable[s].status = "ZAP_BLOCKED"
        => \E t \in Slots :
             /\ ProcTable[t].pid = frame[s].arg /\ ProcTable[t].zapped
             /\ Alive(t) \/ (Quitting /\ t = Current /\ (s = frame[t].arg \/ Contains(frame[t].todo, s)))
             /\ ProcTable[t].whoZapped = s

(* The kernel never follows a null pointer, and never runs the dead.       *)
NeverCrashes == halted # "crash"

(* zap returns only when its target has quit (phase1.c:485).               *)
ZapReturnsAfterQuit ==
    [][\A s \in Slots : frame[s].at = "zap" /\ frame'[s].at = "user"
          => \A t \in Slots : ProcTable[t].pid = frame[s].arg => ProcTable[t].status = "QUIT"]_vars

(* A program whose processes join their children and quit runs to the end: *)
(* the sentinel finds nobody left, and reports no deadlock.                *)
ProgramsComplete == <>(halted = "completed")
=============================================================================
