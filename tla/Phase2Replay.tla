---------------------------- MODULE Phase2Replay ----------------------------
(* Runs the test programs of phase 2: the mailboxes of Phase2 on the       *)
(* kernel of Phase1.  Who is blocked or zapped is read from the kernel's   *)
(* process table: a call that blocks its caller is a step of both modules, *)
(* and so is one that wakes a process.                                     *)
(*                                                                         *)
(* The tables are as large as the tests need that do not fill them.  No    *)
(* device interrupts: the sentinel of phase1.c does not wait for any.      *)
(* Here are the results of the mailbox calls, which Phase2 leaves out.     *)
EXTENDS Phase1Replay

VARIABLES
    MailBoxTable, SlotTable, MboxProcTable, clockCounter, intsOff,
    mboxFrame,      \* slot -> where its process stands in a mailbox call
    delivery,
    mboxHalted,
    buffer,         \* slot -> the text last received
    answer          \* slot -> what its call returns once it has woken somebody

MAX_MESSAGE == 150
Blocked == {s \in Kernel!Slots : ProcTable[s].status = "BLOCKED"}
Zapped  == {s \in Kernel!Slots : ProcTable[s].zapped}

Mbox == INSTANCE Phase2
    WITH Procs <- Kernel!Slots, NULL <- Kernel!NULL, MAXMBOX <- 10, MAXSLOTS <- 10, Devices <- 7,
         Ticks <- 5, Capacities <- {}, SlotSizes <- {}, Sizes <- 0..MAX_MESSAGE, IntSize <- 4,
         Calls <- {"create", "release", "send", "condSend", "receive", "condReceive"},
         Careful <- FALSE,
         frame <- mboxFrame, halted <- mboxHalted, blocked <- Blocked, zapped <- Zapped

mailboxes == <<MailBoxTable, SlotTable, MboxProcTable, clockCounter, intsOff, mboxFrame, delivery,
               mboxHalted>>

StartPhase2(tests) ==
    /\ Start(tests)
    /\ Mbox!Init
    /\ buffer = [s \in Kernel!Slots |-> 0]
    /\ answer = [s \in Kernel!Slots |-> 0]

-----------------------------------------------------------------------------
(* What a mailbox call does to the kernel.                                 *)

(* unblockProc up to its dispatcher, in one step: interrupts are off. *)
Wakes(t) ==
    /\ Running("user")
    /\ Kernel!Exists(t) /\ t # Current /\ Kernel!BlockedByBlockMe(t) /\ ~Me.zapped
    /\ LET pt == [ProcTable EXCEPT ![t].status = "READY"]
       IN Kernel!Dispatch(pt, Kernel!AddProcToReadyList(ReadyList, pt, t))
    /\ frame' = [frame EXCEPT ![Current] = Kernel!At("unblockProc", 0, <<>>)]
    /\ UNCHANGED <<nextPid, halted>>

WakesOne  == \E t \in Blocked : Wakes(t)
WakesNone == UNCHANGED kernel

(* isZapped() ? -3 : v, where v is not an error. *)
Final(v) == IF v[1] >= 0 /\ Me.zapped THEN <<-3>> ELSE v

(* The call returns v, at once or when its caller runs again. *)
Answers(v) ==
    \/ WakesNone /\ Returns(Final(v)) /\ UNCHANGED answer
    \/ WakesOne /\ answer' = [answer EXCEPT ![Current] = v] /\ UNCHANGED program

Fills == buffer' = IF delivery' = Mbox!NoDelivery THEN buffer
                   ELSE [buffer EXCEPT ![delivery'.to] = delivery'.message]

b == shared[Op.vars[1]][1]
Box == MailBoxTable[b]

-----------------------------------------------------------------------------
(* The calls.                                                              *)

Create ==
    /\ AtCall("MboxCreate") /\ WakesNone
    /\ \E new \in Mbox!Boxes : Mbox!MboxCreate(Current, new, Op.n, Op.size) /\ Returns(<<new>>)
    /\ Op.n >= 0 /\ Op.size \in 0..MAX_MESSAGE
    /\ UNCHANGED <<buffer, answer>>

TooBig == Box.numSlots # 0 /\ Op.size > Box.slotSize
UnfitReceiver == Box.blockRecvList # Kernel!NULL /\ Op.size > MboxProcTable[Box.blockRecvList].msgSize

(* What is refused before the caller is entered in the table. *)
Refused ==
    /\ mboxFrame[Current] = Mbox!InUser
    /\ \/ AtCall("MboxCreate") /\ ~(Op.n >= 0 /\ Op.size \in 0..MAX_MESSAGE)
       \/ /\ \E c \in {"MboxSend", "MboxReceive", "MboxCondReceive", "MboxRelease"} : AtCall(c)
          /\ Box.status = "EMPTY"
       \/ \E c \in {"MboxSend", "MboxCondSend"} : AtCall(c) /\ TooBig
    /\ Returns(<<-1>>)
    /\ intsOff' = Kernel!NULL
    /\ UNCHANGED <<kernel, MailBoxTable, SlotTable, MboxProcTable, clockCounter, mboxFrame, delivery,
                   mboxHalted, buffer, answer>>

Send ==
    /\ AtCall("MboxSend")
    /\ \/ /\ Kernel!BlockMe
          /\ Mbox!MboxSendBlocks(Current, b, Op.n, Op.size)
          /\ UNCHANGED <<program, answer>>
       \/ /\ Answers(IF UnfitReceiver THEN <<-1>> ELSE <<0>>)
          /\ Mbox!MboxSend(Current, b, Op.n, Op.size)
    /\ Fills

CondSend ==
    /\ AtCall("MboxCondSend")
    /\ Answers(CASE Box.numSlots # 0 /\ Box.numSlots = Box.slotsUsed -> <<-2>>
                 [] Box.numSlots = 0 /\ Box.blockRecvList = Kernel!NULL -> <<-1>>
                 [] UnfitReceiver -> <<-1>>
                 [] Box.blockRecvList = Kernel!NULL /\ Mbox!FreeSlots = {} -> <<-2>>
                 [] OTHER -> <<0>>)
    /\ Mbox!MboxCondSend(Current, b, Op.n, Op.size)
    /\ Fills

Receiving == AtCall("MboxReceive") \/ AtCall("MboxCondReceive")
FirstSlot == SlotTable[Head(Box.slotList)]

Receive ==
    /\ AtCall("MboxReceive")
    /\ Kernel!BlockMe
    /\ Mbox!MboxReceiveBlocks(Current, b, Op.size)
    /\ UNCHANGED <<program, buffer, answer>>

ReceiveFails ==
    /\ Receiving
    /\ Box.slotList = <<>> => Op.call = "MboxCondReceive"
    /\ WakesNone /\ Returns(IF Box.slotList = <<>> THEN <<-2>> ELSE <<-1>>)
    /\ Mbox!ReceiveFails(Current, b, Op.size)
    /\ UNCHANGED <<buffer, answer>>

ReceiveFromSlot ==
    /\ Receiving /\ Box.slotList # <<>>
    /\ Answers(<<FirstSlot.msgSize, FirstSlot.message>>)
    /\ Mbox!ReceiveFromSlot(Current, b, Op.size)
    /\ Fills

(* The size is read from the sender's entry after it has been woken. *)
ReceiveFromSender ==
    /\ Receiving
    /\ WakesOne \/ WakesNone
    /\ answer' = [answer EXCEPT ![Current] = Box.blockSendList]
    /\ Mbox!ReceiveFromSender(Current, b, Op.size)
    /\ Fills
    /\ UNCHANGED program

ReleaseStarts ==
    /\ AtCall("MboxRelease") /\ WakesNone
    /\ Mbox!ReleaseStarts(Current, b)
    /\ UNCHANGED <<program, buffer, answer>>

ReleasesOne ==
    /\ AtCall("MboxRelease")
    /\ WakesOne \/ WakesNone
    /\ Mbox!ReleaseSender(Current, b) \/ Mbox!ReleaseReceiver(Current, b)
    /\ UNCHANGED <<program, buffer, answer>>

Release ==
    /\ AtCall("MboxRelease") /\ WakesNone
    /\ Mbox!ReleaseIdle(Current, b) \/ Mbox!ReleaseEnds(Current, b)
    /\ Returns(Final(<<0>>))
    /\ UNCHANGED <<buffer, answer>>

(* No system call is installed: nullsys halts. *)
SystemCall ==
    /\ AtCall("system call")
    /\ Kernel!Misuse
    /\ UNCHANGED <<program, mailboxes, buffer, answer>>

-----------------------------------------------------------------------------
(* A process that was blocked or has woken another one goes on.            *)

At(loc) == mboxFrame[Current].at = loc
Entry == MboxProcTable[Current]

WaitReturns ==
    /\ Running("blockMe") /\ Kernel!Return
    /\ \/ At("sendWait") /\ Returns(IF Entry.mboxReleased \/ Me.zapped THEN <<-3>> ELSE <<0>>)
       \/ At("recvWait") /\ Returns(CASE Entry.mboxReleased \/ Me.zapped -> <<-3>>
                                      [] Entry.status = "FAILED" -> <<-1>>
                                      [] OTHER -> <<Entry.msgSize, buffer[Current]>>)
    /\ Mbox!Return(Current)
    /\ UNCHANGED <<buffer, answer>>

WakeReturns ==
    /\ Running("unblockProc") /\ Kernel!Return
    /\ \/ At("user") /\ Returns(Final(answer[Current]))
       \/ At("releasing") /\ UNCHANGED program
       \/ At("rendezvous") /\ UNCHANGED program
    /\ UNCHANGED <<mailboxes, buffer, answer>>

RendezvousReturns ==
    /\ Running("user") /\ At("rendezvous") /\ UNCHANGED kernel
    /\ Mbox!Return(Current)
    /\ Returns(<<MboxProcTable[answer[Current]].msgSize, buffer[Current]>>)
    /\ UNCHANGED <<buffer, answer>>

(* What phase 1 and the program do by themselves.  A call of phase 1 turns *)
(* interrupts on.                                                          *)
Phase1Step ==
    /\ Next
    /\ ~(Running("blockMe") \/ Running("unblockProc"))
    /\ intsOff' = IF kernel' = kernel THEN intsOff ELSE Kernel!NULL
    /\ UNCHANGED <<MailBoxTable, SlotTable, MboxProcTable, clockCounter, mboxFrame, delivery, mboxHalted,
                   buffer, answer>>

NextPhase2 ==
    /\ \/ Create
       \/ Refused
       \/ Send
       \/ CondSend
       \/ Receive
       \/ ReceiveFails
       \/ ReceiveFromSlot
       \/ ReceiveFromSender
       \/ ReleaseStarts
       \/ ReleasesOne
       \/ Release
       \/ SystemCall
       \/ WaitReturns
       \/ WakeReturns
       \/ RendezvousReturns
       \/ Phase1Step
    /\ UNCHANGED test
=============================================================================
