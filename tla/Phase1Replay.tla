---------------------------- MODULE Phase1Replay ----------------------------
(* Runs test programs on the kernel of Phase1, with its table of 50 slots, *)
(* and collects what they print.  The tests are short: no time slice ends. *)
(*                                                                         *)
(* Here are the results of the kernel's calls, which Phase1 leaves out.    *)
EXTENDS Scripts

CONSTANTS
    Programs,       \* the test programs
    Expected,       \* what each is expected to print
    Variables       \* their shared variables

VARIABLES
    ProcTable, ReadyList, Current, nextPid, intsOn, frame, halted,
    test,           \* index of the program that runs
    func,           \* slot -> the function of its process
    line,           \* slot -> index of its next call
    result,         \* slot -> what its last call returned
    quitStatus,     \* slot -> exit status
    kernelMode,     \* slot -> the process runs in kernel mode
    shared,         \* shared variables of the program
    printed         \* the lines printed

Kernel == INSTANCE Phase1
    WITH MAXPROC <- 50, PidLimit <- 32768, MaxPid <- 400, Priorities <- 1..5,
         Calls <- {"fork1", "badFork", "join", "quit", "zap", "blockMe", "unblockProc", "misuse"},
         JoinsFirst <- FALSE, SoleZapper <- FALSE, KernelPreempt <- FALSE

kernel  == <<ProcTable, ReadyList, Current, nextPid, intsOn, frame, halted>>
program == <<func, line, result, quitStatus, kernelMode, shared, printed>>

Start(tests) ==
    /\ Kernel!Init
    /\ test \in tests
    /\ func = [s \in Kernel!Slots |-> "start1"]
    /\ line = [s \in Kernel!Slots |-> 1]
    /\ result = [s \in Kernel!Slots |-> <<>>]
    /\ quitStatus = [s \in Kernel!Slots |-> 0]
    /\ kernelMode = [s \in Kernel!Slots |-> TRUE]
    /\ shared = [v \in Variables |-> <<>>]
    /\ printed = <<>>

-----------------------------------------------------------------------------
Me == ProcTable[Current]
Running(loc) == Kernel!InCall(loc)
Op == Programs[test][func[Current]][line[Current]]
IsZapped == IF Me.zapped THEN -1 ELSE 0

Value(v) ==
    CASE v = "pid"    -> <<Me.pid>>
      [] v = "zapped" -> <<-IsZapped>>
      [] v = "r"      -> result[Current]
      [] v \in {"kid", "size"} -> <<result[Current][1]>>
      [] v = "text"   -> <<result[Current][2]>>
      [] OTHER        -> shared[v]

Advance == line' = [line EXCEPT ![Current] = @ + 1]

(* The call of the running process returns v. *)
Returns(v) ==
    /\ IF Op.to = "r"
       THEN result' = [result EXCEPT ![Current] = v] /\ UNCHANGED shared
       ELSE shared' = [shared EXCEPT ![Op.to] = v] /\ UNCHANGED result
    /\ Advance
    /\ UNCHANGED <<func, quitStatus, kernelMode, printed>>

AtCall(c) == Running("user") /\ Op.call = c

-----------------------------------------------------------------------------
(* The program's own steps.                                                *)

PrintLine ==
    /\ AtCall("print") \/ (AtCall("print if") /\ result[Current][1] = Op.n)
    /\ printed' = Append(printed, <<func[Current]>> \o
                               FlattenSeq([i \in 1..Len(Op.vars) |-> Value(Op.vars[i])]))
    /\ Advance
    /\ UNCHANGED <<kernel, func, result, quitStatus, kernelMode, shared>>

PassOver ==
    /\ \/ AtCall("print if") /\ result[Current][1] # Op.n
       \/ AtCall("spin") /\ Me.zapped
       \/ AtCall("leave") /\ result[Current][1] >= 0
    /\ Advance
    /\ UNCHANGED <<kernel, func, result, quitStatus, kernelMode, shared, printed>>

Loop ==
    /\ \/ /\ AtCall("leave") /\ result[Current][1] < 0
          /\ line' = [line EXCEPT ![Current] = @ + Op.n]
       \/ /\ AtCall("repeat")
          /\ line' = [line EXCEPT ![Current] = @ - Op.n]
    /\ UNCHANGED <<kernel, func, result, quitStatus, kernelMode, shared, printed>>

Assign ==
    /\ \/ AtCall("set") /\ Returns(<<Op.n>>)
       \/ AtCall("count") /\ Returns(<<shared[Op.to][1] + 1>>)
    /\ UNCHANGED kernel

LeaveKernelMode ==
    /\ AtCall("user mode")
    /\ kernelMode' = [kernelMode EXCEPT ![Current] = FALSE]
    /\ Advance
    /\ UNCHANGED <<kernel, func, result, quitStatus, shared, printed>>

-----------------------------------------------------------------------------
(* The calls.  What halts the machine is Misuse.                           *)

Legal(prio) == prio \in 1..5

Fork ==
    /\ AtCall("fork1") /\ kernelMode[Current] /\ Legal(Op.n)
    /\ Kernel!Fork1(Op.n)
    /\ LET child == frame'[Current].arg
       IN /\ func' = [func EXCEPT ![child] = Op.f]
          /\ line' = [line EXCEPT ![child] = 1]
    /\ UNCHANGED <<result, quitStatus, kernelMode, shared, printed>>

(* A small stack gets -2, a bad priority or a full table -1. *)
ForkFails ==
    /\ kernelMode[Current]
    /\ \/ /\ AtCall("fork1 small")
          /\ Kernel!Fork1Fails /\ nextPid' = nextPid
          /\ Returns(<<-2>>)
       \/ /\ AtCall("fork1")
          /\ Kernel!Fork1Fails /\ (nextPid' = nextPid <=> ~Legal(Op.n))
          /\ Returns(<<-1>>)

Join ==
    /\ AtCall("join")
    /\ Kernel!JoinQuitChild \/ Kernel!JoinBlocks
    /\ UNCHANGED program

JoinNoChild ==
    /\ AtCall("join")
    /\ Kernel!JoinNoChild
    /\ Returns(<<-2>>)

Status == IF Op.call = "quit pid" THEN -Me.pid ELSE Op.n

Quit ==
    /\ AtCall("quit") \/ AtCall("quit pid")
    /\ kernelMode[Current]
    /\ Kernel!Quit
    /\ quitStatus' = [quitStatus EXCEPT ![Current] = Status]
    /\ UNCHANGED <<func, line, result, kernelMode, shared, printed>>

Target == IF Op.call = "zap pid" THEN Op.n ELSE Value(Op.vars[1])[1]
TargetSlot == Target % 50
Zapping == AtCall("zap") \/ AtCall("zap pid")
TargetExists == ProcTable[TargetSlot].pid = Target

Zap ==
    /\ Zapping /\ TargetExists
    /\ Kernel!Zap(TargetSlot)
    /\ UNCHANGED program

ZapQuitProcess ==
    /\ Zapping /\ TargetExists /\ Kernel!HasQuit(TargetSlot)
    /\ Kernel!ZapQuitProcess
    /\ Returns(<<IsZapped>>)

BlockMe ==
    /\ AtCall("blockMe")
    /\ Kernel!BlockMe
    /\ UNCHANGED program

UnblockProc ==
    /\ AtCall("unblockProc") /\ TargetExists
    /\ Kernel!UnblockProc(TargetSlot)
    /\ UNCHANGED program

(* In user mode any call, quit with live children, zap of oneself or of a  *)
(* pid that nobody has.                                                    *)
Misuse ==
    /\ Running("user")
    /\ \/ ~kernelMode[Current] /\ Op.call \in {"fork1", "quit"}
       \/ Op.call \in {"quit", "quit pid"} /\ Me.children # <<>>
       \/ Zapping /\ (Target = Me.pid \/ ~TargetExists)
    /\ Kernel!Misuse
    /\ UNCHANGED program

-----------------------------------------------------------------------------
(* The rest of a call.                                                     *)

Return ==
    /\ Kernel!Return
    /\ Returns(CASE Running("fork1") -> <<ProcTable[frame[Current].arg].pid>>
                 [] Running("zap") \/ Running("blockMe") -> <<IsZapped>>
                 [] OTHER -> <<0>>)

JoinReap ==
    /\ Kernel!JoinReap
    /\ LET child == frame[Current].arg
       IN Returns(<<IF Me.zapped THEN -1 ELSE ProcTable[child].pid, quitStatus[child]>>)

KernelStep ==
    /\ \/ Kernel!JoinTake
       \/ Kernel!VisitZapper
       \/ Kernel!UnblockZapper
       \/ Kernel!QuitChildAndParent
       \/ Kernel!QuitChild
       \/ Kernel!QuitParent
       \/ Kernel!QuitReturns
       \/ Kernel!MakeReady
       \/ Kernel!CheckDeadlock
       \/ Kernel!Halted
    /\ UNCHANGED program

Next ==
    /\ \/ PrintLine
       \/ PassOver
       \/ Loop
       \/ Assign
       \/ LeaveKernelMode
       \/ Fork
       \/ ForkFails
       \/ Join
       \/ JoinNoChild
       \/ Quit
       \/ Zap
       \/ ZapQuitProcess
       \/ BlockMe
       \/ UnblockProc
       \/ Misuse
       \/ Return
       \/ JoinReap
       \/ KernelStep
    /\ UNCHANGED test
-----------------------------------------------------------------------------
(* Each test prints the lines that its file in testResults lists, no other *)
(* ones and in that order, and ends as it says there.                      *)
PrintsExpected ==
    /\ IsPrefix(printed, Expected[test].lines)
    /\ halted # "no" => printed = Expected[test].lines /\ halted = Expected[test].ends
=============================================================================
