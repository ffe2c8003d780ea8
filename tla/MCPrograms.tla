----------------------------- MODULE MCPrograms -----------------------------
(* Questions about whole programs.  Either processes fork, join and quit   *)
(* as they like, on the small table that the configuration gives Phase1,   *)
(* or the kernel with 50 slots runs a test program of phase 1 or phase 2.  *)
EXTENDS Phase1

VARIABLES
    phase,          \* 0 for the free program, or whose test program runs
    test, func, line, result, quitStatus, kernelMode, shared, printed,
    MailBoxTable, SlotTable, MboxProcTable, clockCounter, intsOff, mboxFrame, delivery, mboxHalted,
    buffer, answer

script == <<test, func, line, result, quitStatus, kernelMode, shared, printed>>
mail   == <<MailBoxTable, SlotTable, MboxProcTable, clockCounter, intsOff, mboxFrame, delivery,
            mboxHalted, buffer, answer>>

P1 == INSTANCE Phase1Tests
P2 == INSTANCE Phase2Tests
Phase1Runs == INSTANCE Phase1Replay
    WITH Programs <- P1!Programs, Expected <- P1!Expected, Variables <- P1!Variables
Phase2Runs == INSTANCE Phase2Replay
    WITH Programs <- P2!Programs, Expected <- P2!Expected, Variables <- P2!Variables

Free == phase = 0

NoMail ==
    /\ MailBoxTable = <<>> /\ SlotTable = <<>> /\ MboxProcTable = <<>> /\ clockCounter = 0
    /\ intsOff = NULL /\ mboxFrame = <<>> /\ delivery = <<>> /\ mboxHalted = "no"
    /\ buffer = <<>> /\ answer = <<>>

ProgramsInit ==
    \/ /\ phase = 0 /\ Init /\ NoMail
       /\ test = 0
       /\ func = <<>> /\ line = <<>> /\ result = <<>> /\ quitStatus = <<>>
       /\ kernelMode = <<>> /\ shared = <<>> /\ printed = <<>>
    \/ phase = 1 /\ NoMail /\ Phase1Runs!Start(DOMAIN P1!Programs)
    \/ phase = 2 /\ Phase2Runs!StartPhase2(DOMAIN P2!Programs)

FreeNext   == phase = 0 /\ Next /\ UNCHANGED <<script, mail>>
Phase1Next == phase = 1 /\ Phase1Runs!Next /\ UNCHANGED mail
Phase2Next == phase = 2 /\ Phase2Runs!NextPhase2

ProgramsNext == (FreeNext \/ Phase1Next \/ Phase2Next) /\ UNCHANGED phase

ProgramsSpec ==
    /\ ProgramsInit /\ [][ProgramsNext]_<<vars, phase, script, mail>>
    /\ WF_vars(Free /\ KernelStep)
    /\ \A s \in Slots : SF_vars(Free /\ Ends(s))
-----------------------------------------------------------------------------
(* A program whose processes join their children and quit runs to the end: *)
(* the sentinel finds nobody left, and reports no deadlock.                *)
FreeProgramsComplete == Free => ProgramsComplete

(* Each test program of phases 1 and 2 prints what testResults expects of  *)
(* it, in that order and nothing else, and ends as it says there.          *)
TestsPass ==
    CASE phase = 0 -> TRUE
      [] phase = 1 -> Phase1Runs!PrintsExpected
      [] phase = 2 -> Phase2Runs!PrintsExpected
=============================================================================
