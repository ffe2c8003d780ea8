------------------------------- MODULE Phase2 -------------------------------
(* The mailboxes and the device handlers of phase 2 (src/phase2/phase2.c), *)
(* on the scheduler of phase 1.  The processes have one priority: whenever *)
(* interrupts are on, a time slice may hand the processor to another one.  *)
(* Several priorities would only allow fewer interleavings.                *)
(*                                                                         *)
(* A call is one step up to the point where it blocks or wakes somebody;   *)
(* frame[p] is where process p stands in between.  The lists of blocked    *)
(* processes keep their pointers, because a link outlives its list.        *)
EXTENDS Integers, Sequences, FiniteSets, SequencesExt

CONSTANTS
    Procs, NULL,
    MAXMBOX, MAXSLOTS,  \* sizes of the mailbox table and of the slot table
    Devices,            \* mailboxes of the devices: 0 is the clock (7 in the code)
    Ticks,              \* ticks for one message of the clock (5 in the code)
    Capacities, SlotSizes,  \* what programs pass to MboxCreate
    Sizes,              \* sizes of messages and of receive buffers
    IntSize,            \* size of a device's status
    Calls,              \* what programs call, and what happens to them
    Careful             \* see MayWait, MboxCreate and MboxCondSend

AllCalls == {"create", "release", "send", "condSend", "receive", "condReceive",
             "waitDevice", "quit", "zap", "interrupt"}

ASSUME TableAssumption2 ==
    /\ IsFiniteSet(Procs) /\ NULL \notin Procs
    /\ {MAXMBOX, MAXSLOTS, Devices, Ticks} \subseteq Nat \ {0}
    /\ Devices <= MAXMBOX
ASSUME ProgramAssumption2 ==
    /\ Capacities \subseteq Nat /\ SlotSizes \subseteq Nat
    /\ Sizes \subseteq Nat /\ IntSize \in Nat
    /\ Calls \subseteq AllCalls /\ Careful \in BOOLEAN

VARIABLES
    MailBoxTable, SlotTable, MboxProcTable, clockCounter,
    blocked,        \* processes that wait in blockMe
    zapped,         \* processes that have been zapped
    intsOff,        \* the process that runs with interrupts off, or NULL
    frame,          \* process -> where it stands in a call
    delivery,       \* the last message received, and by whom (not in the code)
    halted

procVars == <<zapped, clockCounter>>
vars == <<MailBoxTable, SlotTable, MboxProcTable, clockCounter, blocked,
          zapped, intsOff, frame, delivery, halted>>

Boxes == 0..(MAXMBOX - 1)
DeviceBoxes == 0..(Devices - 1)
Slots == 0..(MAXSLOTS - 1)

Messages == [from : Procs \cup {NULL}, to : Boxes]

MboxProc == [status : {"EMPTY", "ACTIVE", "FAILED"}, message : Messages \cup {NULL}, msgSize : Int,
             mboxReleased : BOOLEAN, nextBlockSend : Procs \cup {NULL},
             nextBlockRecv : Procs \cup {NULL}]

Mailbox == [status : {"EMPTY", "USED"}, numSlots : Int, slotsUsed : Int, slotSize : Int,
            blockSendList : Procs \cup {NULL}, blockRecvList : Procs \cup {NULL},
            slotList : Seq(Slots)]

MailSlot == [status : {"EMPTY", "USED"}, message : Messages \cup {NULL}, msgSize : Int]

Frames == [at : {"user", "sendWait", "recvWait", "rendezvous", "releasing", "gone"},
           box : Boxes \cup {NULL}]

ZeroMailbox == [status |-> "EMPTY", numSlots |-> -1, slotsUsed |-> -1, slotSize |-> -1,
                blockSendList |-> NULL, blockRecvList |-> NULL, slotList |-> <<>>]

(* zeroSlot leaves the message and its size, which nobody reads. *)
ZeroSlot == [status |-> "EMPTY", message |-> NULL, msgSize |-> 0]

ZeroMboxProc == [status |-> "EMPTY", message |-> NULL, msgSize |-> -1, mboxReleased |-> FALSE,
                 nextBlockSend |-> NULL, nextBlockRecv |-> NULL]

(* Mutant: the count of used slots keeps the value of zeroMailbox. *)
MutantCreated(box, slots, size) ==
    [box EXCEPT !.status = "USED", !.numSlots = slots, !.slotSize = size]

Created(box, slots, size) ==
    [box EXCEPT !.status = "USED", !.numSlots = slots, !.slotsUsed = 0, !.slotSize = size]

At(loc, b) == [at |-> loc, box |-> b]
InUser == At("user", NULL)

NoDelivery == [to |-> NULL, message |-> NULL]

Init ==
    /\ MailBoxTable = [b \in Boxes |-> IF b \in DeviceBoxes THEN Created(ZeroMailbox, 0, 0)
                                       ELSE ZeroMailbox]
    /\ SlotTable = [s \in Slots |-> ZeroSlot]
    /\ MboxProcTable = [p \in Procs |-> ZeroMboxProc]
    /\ clockCounter = 0
    /\ blocked = {} /\ zapped = {}
    /\ intsOff = NULL
    /\ frame = [p \in Procs |-> InUser]
    /\ delivery = NoDelivery
    /\ halted = "no"

-----------------------------------------------------------------------------
(* The processes, as phase 1 runs them.                                    *)

CanRun(p) == p \notin blocked /\ frame[p].at # "gone"

Runs(p) == halted = "no" /\ CanRun(p) /\ intsOff \in {NULL, p}

MayCall(p, c) == Runs(p) /\ frame[p].at = "user" /\ c \in Calls

(* Whom unblockProc wakes when process p calls it for q: nobody if p has   *)
(* been zapped.  Only if it wakes somebody does it call the dispatcher,    *)
(* which enables interrupts.                                               *)
Wakes(p, q) == q \in blocked /\ p \notin zapped

BlockedAfter(p, q) == IF Wakes(p, q) THEN blocked \ {q} ELSE blocked

(* The list that starts at a head pointer; a circular one is cut off when  *)
(* it is longer than the number of processes.                              *)
Chain(head, next) ==
    LET N == Cardinality(Procs)
        nth[k \in 0..N] == IF k = 0 THEN head
                           ELSE IF nth[k - 1] = NULL THEN NULL ELSE next[nth[k - 1]]
        last == {k \in 0..N : nth[k] # NULL}
    IN IF head = NULL THEN <<>> ELSE [i \in 1..Cardinality(last) |-> nth[i - 1]]

IsCircular(chain) == Len(chain) > Cardinality(Procs)

Senders(pt, b) ==
    Chain(MailBoxTable[b].blockSendList, [p \in Procs |-> pt[p].nextBlockSend])
Receivers(pt, b) ==
    Chain(MailBoxTable[b].blockRecvList, [p \in Procs |-> pt[p].nextBlockRecv])

(* Every call stores its arguments in the caller's entry.                  *)
Entered(p, x, n) ==
    IF p = NULL THEN MboxProcTable
    ELSE [MboxProcTable EXCEPT ![p].status = "ACTIVE", ![p].message = x, ![p].msgSize = n]

Stop(how) ==
    /\ halted' = how
    /\ UNCHANGED <<MailBoxTable, SlotTable, MboxProcTable, blocked, intsOff, frame, delivery>>
    /\ UNCHANGED procVars
-----------------------------------------------------------------------------
(* Slots.                                                                  *)

FreeSlots == {s \in Slots : SlotTable[s].status = "EMPTY"}

(* Mutant: the search does not look at the status. *)
MutantGetSlotIndex(st) == CHOOSE s \in Slots : \A r \in Slots : s <= r

(* getSlotIndex finds the first empty slot. *)
GetSlotIndex(st) ==
    CHOOSE s \in Slots : /\ st[s].status = "EMPTY"
                         /\ \A r \in Slots : r < s => st[r].status # "EMPTY"

InitSlot(x, n) == [status |-> "USED", message |-> x, msgSize |-> n]

(* Mutant: a new slot goes in front of the list. *)
MutantAddSlotToList(box, s) == [box EXCEPT !.slotList = <<s>> \o @, !.slotsUsed = @ + 1]

AddSlotToList(box, s) == [box EXCEPT !.slotList = Append(@, s), !.slotsUsed = @ + 1]

(* Sending: the branches of MboxSend and MboxCondSend.                     *)

(* The links that waits leave behind are never cleared.  Careful programs  *)
(* do not let a process wait again once another has queued behind it.      *)
MayWait(link) == Careful => link = NULL

(* A receiver waits, and the message fits: it is copied to the receiver's  *)
(* buffer.  p is the running process.                                      *)
HandOver(p, pt, b, x, n) ==
    LET r == MailBoxTable[b].blockRecvList
    IN /\ MboxProcTable' = [pt EXCEPT ![r].msgSize = n]
       /\ MailBoxTable' = [MailBoxTable EXCEPT ![b].blockRecvList = pt[r].nextBlockRecv]
       /\ delivery' = [to |-> r, message |-> x]
       /\ blocked' = BlockedAfter(p, r)
       /\ UNCHANGED SlotTable

ToSlot(pt, b, x, n) ==
    LET s == GetSlotIndex(SlotTable)
    IN /\ SlotTable' = [SlotTable EXCEPT ![s] = InitSlot(x, n)]
       /\ MailBoxTable' = [MailBoxTable EXCEPT ![b] = AddSlotToList(@, s)]
       /\ MboxProcTable' = pt
       /\ UNCHANGED <<blocked, delivery>>

Message(p, b) == [from |-> p, to |-> b]

(* What MboxSend and MboxCondSend check first. *)
SendCall(p, c, b, n) ==
    /\ MayCall(p, c)
    /\ b \in Boxes \ DeviceBoxes
    /\ n > MailBoxTable[b].slotSize => MailBoxTable[b].numSlots = 0

MboxSend(p, b, x, n) ==
    LET box == MailBoxTable[b]
        pt == Entered(p, x, n)
        r == box.blockRecvList
    IN /\ SendCall(p, "send", b, n) /\ box.status = "USED"
       /\ \/ r # NULL /\ n <= pt[r].msgSize /\ HandOver(p, pt, b, x, n)
          \/ /\ r # NULL /\ n > pt[r].msgSize
             /\ MboxProcTable' = [pt EXCEPT ![r].status = "FAILED"]
             /\ MailBoxTable' = [MailBoxTable EXCEPT ![b].blockRecvList = pt[r].nextBlockRecv]
             /\ blocked' = BlockedAfter(p, r)
             /\ UNCHANGED <<SlotTable, delivery>>
          \/ r = NULL /\ box.numSlots > box.slotsUsed /\ FreeSlots # {} /\ ToSlot(pt, b, x, n)
       /\ intsOff' = NULL
       /\ UNCHANGED procVars /\ UNCHANGED <<frame, halted>>

NoSlotsInSystem(p, b, n) ==
    /\ SendCall(p, "send", b, n) /\ MailBoxTable[b].status = "USED"
    /\ MailBoxTable[b].blockRecvList = NULL
    /\ MailBoxTable[b].numSlots > MailBoxTable[b].slotsUsed /\ FreeSlots = {}
    /\ Stop("noSlots")

(* The caller's entry is linked behind the last one of the list.           *)
MboxSendBlocks(p, b, x, n) ==
    LET box == MailBoxTable[b]
        pt == Entered(p, x, n)
        chain == Senders(pt, b)
    IN /\ SendCall(p, "send", b, n) /\ box.status = "USED"
       /\ box.numSlots <= box.slotsUsed /\ box.blockRecvList = NULL
       /\ MayWait(pt[p].nextBlockSend)
       /\ IF IsCircular(chain)
          THEN Stop("hang")
          ELSE /\ IF chain = <<>>
                  THEN /\ MailBoxTable' = [MailBoxTable EXCEPT ![b].blockSendList = p]
                       /\ MboxProcTable' = pt
                  ELSE /\ MboxProcTable' = [pt EXCEPT ![Last(chain)].nextBlockSend = p]
                       /\ UNCHANGED MailBoxTable
               /\ blocked' = blocked \cup {p}
               /\ frame' = [frame EXCEPT ![p] = At("sendWait", b)]
               /\ intsOff' = NULL
               /\ UNCHANGED procVars /\ UNCHANGED <<SlotTable, delivery, halted>>

(* MboxCondSend, on behalf of a program or of a device handler.  It does   *)
(* not look at the status of the mailbox; IsQuiet is when it fails without *)
(* enabling interrupts.                                                    *)
IsQuiet(b) ==
    LET box == MailBoxTable[b]
    IN \/ box.numSlots # 0 /\ box.numSlots = box.slotsUsed
       \/ box.blockRecvList = NULL /\ (box.numSlots = 0 \/ FreeSlots = {})

CondSend(p, b, x, n) ==
    LET pt == Entered(p, x, n)
        r == MailBoxTable[b].blockRecvList
    IN \/ ~IsQuiet(b) /\ r # NULL /\ n <= pt[r].msgSize /\ HandOver(p, pt, b, x, n)
       \/ ~IsQuiet(b) /\ r = NULL /\ ToSlot(pt, b, x, n)
       \/ /\ IsQuiet(b) \/ (r # NULL /\ n > pt[r].msgSize)
          /\ MboxProcTable' = pt
          /\ UNCHANGED <<MailBoxTable, SlotTable, blocked, delivery>>

(* Careful programs send to mailboxes that exist. *)
MboxCondSend(p, b, x, n) ==
    /\ SendCall(p, "condSend", b, n)
    /\ Careful => MailBoxTable[b].status = "USED"
    /\ CondSend(p, b, x, n)
    /\ intsOff' = IF IsQuiet(b) THEN p ELSE NULL
    /\ UNCHANGED procVars /\ UNCHANGED <<frame, halted>>
-----------------------------------------------------------------------------
(* Receiving: the branches of MboxReceive and MboxCondReceive.  waitDevice *)
(* receives a status from the mailbox of its device.                       *)

WaitDevice(p, b, n) == MayCall(p, "waitDevice") /\ b \in DeviceBoxes /\ n = IntSize

(* What MboxReceive and MboxCondReceive check first. *)
ReceiveCall(p, calls, b, n) ==
    /\ MailBoxTable[b].status = "USED"
    /\ \/ \E c \in calls \cap {"receive", "condReceive"} : MayCall(p, c)
          /\ b \notin DeviceBoxes /\ n \in Sizes
       \/ "waitDevice" \in calls /\ WaitDevice(p, b, n)

AnyReceive == {"receive", "condReceive", "waitDevice"}

(* Mutant: the receiver of a mailbox without slots looks at slots only. *)
MutantMeetsSender(b) == MailBoxTable[b].numSlots # 0 /\ MailBoxTable[b].blockSendList # NULL

MeetsSender(b) == MailBoxTable[b].numSlots = 0 /\ MailBoxTable[b].blockSendList # NULL

(* The mailbox has no slots: the message comes from the first blocked      *)
(* sender, whatever its size.  Interrupts stay off if nobody is woken.     *)
ReceiveFromSender(p, b, n) ==
    LET pt == Entered(p, NULL, n)
        sender == MailBoxTable[b].blockSendList
    IN /\ ReceiveCall(p, AnyReceive, b, n) /\ MeetsSender(b)
       /\ MboxProcTable' = pt
       /\ MailBoxTable' = [MailBoxTable EXCEPT ![b].blockSendList = pt[sender].nextBlockSend]
       /\ delivery' = [to |-> p, message |-> pt[sender].message]
       /\ blocked' = BlockedAfter(p, sender)
       /\ intsOff' = IF Wakes(p, sender) THEN NULL ELSE p
       /\ frame' = [frame EXCEPT ![p] = At("rendezvous", b)]
       /\ UNCHANGED procVars /\ UNCHANGED <<SlotTable, halted>>

MboxReceiveBlocks(p, b, n) ==
    LET pt == Entered(p, NULL, n)
        chain == Receivers(pt, b)
    IN /\ ReceiveCall(p, {"receive", "waitDevice"}, b, n)
       /\ ~MeetsSender(b) /\ MailBoxTable[b].slotList = <<>>
       /\ MayWait(pt[p].nextBlockRecv)
       /\ IF IsCircular(chain)
          THEN Stop("hang")
          ELSE /\ IF chain = <<>>
                  THEN /\ MailBoxTable' = [MailBoxTable EXCEPT ![b].blockRecvList = p]
                       /\ MboxProcTable' = pt
                  ELSE /\ MboxProcTable' = [pt EXCEPT ![Last(chain)].nextBlockRecv = p]
                       /\ UNCHANGED MailBoxTable
               /\ blocked' = blocked \cup {p}
               /\ frame' = [frame EXCEPT ![p] = At("recvWait", b)]
               /\ intsOff' = NULL
               /\ UNCHANGED procVars /\ UNCHANGED <<SlotTable, delivery, halted>>

(* Nothing to receive, or a message that does not fit and stays.           *)
ReceiveFails(p, b, n) ==
    LET box == MailBoxTable[b]
    IN /\ \/ ReceiveCall(p, {"condReceive"}, b, n) /\ box.slotList = <<>>
          \/ /\ ReceiveCall(p, AnyReceive, b, n) /\ box.slotList # <<>>
             /\ SlotTable[Head(box.slotList)].msgSize > n
       /\ ~MeetsSender(b)
       /\ MboxProcTable' = Entered(p, NULL, n)
       /\ intsOff' = NULL
       /\ UNCHANGED procVars
       /\ UNCHANGED <<MailBoxTable, SlotTable, blocked, frame, delivery, halted>>

(* Mutant: the blocked sender keeps its place on the list. *)
MutantNextSender(pt, sender) == sender

NextSender(pt, sender) == pt[sender].nextBlockSend

(* The first slot is received and freed; the first blocked sender gets a   *)
(* slot for its message.                                                   *)
ReceiveFromSlot(p, b, n) ==
    LET box == MailBoxTable[b]
        pt == Entered(p, NULL, n)
        s == Head(box.slotList)
        freed == [SlotTable EXCEPT ![s] = ZeroSlot]
        taken == [box EXCEPT !.slotList = Tail(@), !.slotsUsed = @ - 1]
        sender == box.blockSendList
        t == GetSlotIndex(freed)
    IN /\ ReceiveCall(p, AnyReceive, b, n) /\ ~MeetsSender(b)
       /\ box.slotList # <<>> /\ SlotTable[s].msgSize <= n
       /\ MboxProcTable' = pt
       /\ delivery' = [to |-> p, message |-> SlotTable[s].message]
       /\ \/ /\ sender = NULL
             /\ SlotTable' = freed
             /\ MailBoxTable' = [MailBoxTable EXCEPT ![b] = taken]
             /\ UNCHANGED blocked
          \/ /\ sender # NULL
             /\ SlotTable' = [freed EXCEPT ![t] = InitSlot(pt[sender].message, pt[sender].msgSize)]
             /\ MailBoxTable' = [MailBoxTable EXCEPT ![b] =
                   [AddSlotToList(taken, t) EXCEPT !.blockSendList = NextSender(pt, sender)]]
             /\ blocked' = BlockedAfter(p, sender)
       /\ intsOff' = NULL
       /\ UNCHANGED procVars /\ UNCHANGED <<frame, halted>>

(* A process that was woken returns to its program. *)
Return(p) ==
    /\ Runs(p) /\ frame[p].at \in {"sendWait", "recvWait", "rendezvous"}
    /\ frame' = [frame EXCEPT ![p] = InUser]
    /\ UNCHANGED procVars
    /\ UNCHANGED <<MailBoxTable, SlotTable, MboxProcTable, blocked, intsOff, delivery, halted>>

(* A call with arguments that are refused enables interrupts, which only a *)
(* conditional send or a receive that wakes nobody leaves off.             *)
BadCall(p) ==
    /\ intsOff = p
    /\ \E c \in Calls \ {"quit", "zap", "interrupt"} : MayCall(p, c)
    /\ intsOff' = NULL
    /\ UNCHANGED procVars
    /\ UNCHANGED <<MailBoxTable, SlotTable, MboxProcTable, blocked, frame, delivery, halted>>
-----------------------------------------------------------------------------
(* Mailboxes come and go.                                                  *)

(* Careful programs do not create a mailbox while one is being released:   *)
(* its entry is free before the release is over.                           *)
MboxCreate(p, b, slots, size) ==
    /\ MayCall(p, "create")
    /\ MailBoxTable[b].status = "EMPTY"
    /\ \A c \in Boxes : c < b => MailBoxTable[c].status # "EMPTY"
    /\ Careful => \A q \in Procs : frame[q].at # "releasing"
    /\ MailBoxTable' = [MailBoxTable EXCEPT ![b] = Created(@, slots, size)]
    /\ intsOff' = NULL
    /\ UNCHANGED procVars
    /\ UNCHANGED <<SlotTable, MboxProcTable, blocked, frame, delivery, halted>>

IsIdle(b) == MailBoxTable[b].blockSendList = NULL /\ MailBoxTable[b].blockRecvList = NULL

MayRelease(p, b) ==
    /\ MayCall(p, "release")
    /\ b \in Boxes \ DeviceBoxes /\ MailBoxTable[b].status = "USED"

(* Nobody is blocked on the mailbox.  Its slots are not given back.        *)
ReleaseIdle(p, b) ==
    /\ MayRelease(p, b) /\ IsIdle(b)
    /\ MailBoxTable' = [MailBoxTable EXCEPT ![b] = ZeroMailbox]
    /\ intsOff' = NULL
    /\ UNCHANGED procVars
    /\ UNCHANGED <<SlotTable, MboxProcTable, blocked, frame, delivery, halted>>

ReleaseStarts(p, b) ==
    /\ MayRelease(p, b) /\ ~IsIdle(b)
    /\ MailBoxTable' = [MailBoxTable EXCEPT ![b].status = "EMPTY"]
    /\ frame' = [frame EXCEPT ![p] = At("releasing", b)]
    /\ intsOff' = p
    /\ UNCHANGED procVars
    /\ UNCHANGED <<SlotTable, MboxProcTable, blocked, delivery, halted>>

Releases(p, b) == Runs(p) /\ frame[p] = At("releasing", b)

(* The first process of a list is marked and unblocked.  It may run before *)
(* the loop goes on.                                                       *)
ReleaseSender(p, b) ==
    LET q == MailBoxTable[b].blockSendList
    IN /\ Releases(p, b) /\ q # NULL
       /\ MboxProcTable' = [MboxProcTable EXCEPT ![q].mboxReleased = TRUE]
       /\ MailBoxTable' = [MailBoxTable EXCEPT ![b].blockSendList = NextSender(MboxProcTable, q)]
       /\ blocked' = BlockedAfter(p, q)
       /\ intsOff' = IF Wakes(p, q) THEN NULL ELSE p
       /\ UNCHANGED procVars /\ UNCHANGED <<SlotTable, frame, delivery, halted>>

ReleaseReceiver(p, b) ==
    LET q == MailBoxTable[b].blockRecvList
    IN /\ Releases(p, b) /\ MailBoxTable[b].blockSendList = NULL /\ q # NULL
       /\ MboxProcTable' = [MboxProcTable EXCEPT ![q].mboxReleased = TRUE]
       /\ MailBoxTable' = [MailBoxTable EXCEPT ![b].blockRecvList = MboxProcTable[q].nextBlockRecv]
       /\ blocked' = BlockedAfter(p, q)
       /\ intsOff' = IF Wakes(p, q) THEN NULL ELSE p
       /\ UNCHANGED procVars /\ UNCHANGED <<SlotTable, frame, delivery, halted>>

ReleaseEnds(p, b) ==
    /\ Releases(p, b) /\ IsIdle(b)
    /\ MailBoxTable' = [MailBoxTable EXCEPT ![b] = ZeroMailbox]
    /\ frame' = [frame EXCEPT ![p] = InUser]
    /\ intsOff' = NULL
    /\ UNCHANGED procVars
    /\ UNCHANGED <<SlotTable, MboxProcTable, blocked, delivery, halted>>
-----------------------------------------------------------------------------
(* Interrupts.                                                             *)

(* The process that an interrupt finds running: NULL is phase 1's sentinel *)
(* or start1, which runs when nobody else can.                             *)
Interrupts(c) ==
    /\ intsOff = NULL /\ "interrupt" \in Calls
    /\ IF c = NULL THEN halted = "no" /\ ~\E p \in Procs : CanRun(p) ELSE Runs(c)

(* A handler sends on behalf of the process it interrupts, whose entry it  *)
(* overwrites, and enables interrupts when it returns.                     *)
DeviceHandler(c, d) ==
    /\ Interrupts(c) /\ d # 0
    /\ CondSend(c, d, Message(NULL, d), IntSize)
    /\ UNCHANGED procVars /\ UNCHANGED <<intsOff, frame, halted>>

ClockHandler(c) ==
    /\ Interrupts(c)
    /\ IF clockCounter + 1 >= Ticks
       THEN CondSend(c, 0, Message(NULL, 0), IntSize) /\ clockCounter' = 0
       ELSE /\ clockCounter' = clockCounter + 1
            /\ UNCHANGED <<MailBoxTable, SlotTable, MboxProcTable, blocked, delivery>>
    /\ UNCHANGED <<zapped, intsOff, frame, halted>>

(* What phase 1 does to a process: quit, and zap by a process that is not  *)
(* modelled.                                                               *)
Quit(p) ==
    /\ MayCall(p, "quit")
    /\ frame' = [frame EXCEPT ![p] = At("gone", NULL)]
    /\ intsOff' = NULL
    /\ UNCHANGED procVars
    /\ UNCHANGED <<MailBoxTable, SlotTable, MboxProcTable, blocked, delivery, halted>>

GetsZapped(p) ==
    /\ halted = "no" /\ intsOff = NULL
    /\ "zap" \in Calls /\ frame[p].at # "gone"
    /\ zapped' = zapped \cup {p}
    /\ UNCHANGED <<MailBoxTable, SlotTable, MboxProcTable, clockCounter, blocked,
                   intsOff, frame, delivery, halted>>

(* Only the sentinel can run: it halts the system, or waits for a device.  *)
Sentinel ==
    /\ halted # "no" \/ ~\E p \in Procs : CanRun(p)
    /\ UNCHANGED vars

Step(p) ==
    \/ BadCall(p) \/ Return(p) \/ Quit(p) \/ GetsZapped(p)
    \/ \E b \in Boxes :
          \/ \E slots \in Capacities, size \in SlotSizes : MboxCreate(p, b, slots, size)
          \/ \E n \in Sizes : \/ MboxSend(p, b, Message(p, b), n) \/ NoSlotsInSystem(p, b, n)
                              \/ MboxSendBlocks(p, b, Message(p, b), n)
                              \/ MboxCondSend(p, b, Message(p, b), n)
          \/ \E n \in Sizes \cup {IntSize} :
                \/ ReceiveFromSender(p, b, n) \/ MboxReceiveBlocks(p, b, n)
                \/ ReceiveFails(p, b, n) \/ ReceiveFromSlot(p, b, n)
          \/ ReleaseIdle(p, b) \/ ReleaseStarts(p, b)
          \/ ReleaseSender(p, b) \/ ReleaseReceiver(p, b) \/ ReleaseEnds(p, b)

Interrupt(c) == ClockHandler(c) \/ \E d \in DeviceBoxes : DeviceHandler(c, d)

Next ==
    \/ \E p \in Procs : Step(p)
    \/ \E c \in Procs \cup {NULL} : Interrupt(c)
    \/ Sentinel

Spec == Init /\ [][Next]_vars
-----------------------------------------------------------------------------
(* The tables hold what their C types and the constants allow, and the     *)
(* counts of a mailbox are those of a mailbox that was initialised         *)
(* (MboxCreate sets slotsUsed, zeroMailbox makes it -1).                   *)
TypeOK ==
    /\ MailBoxTable \in [Boxes -> Mailbox]
    /\ \A b \in Boxes : MailBoxTable[b].status = "USED" =>
          MailBoxTable[b].slotsUsed \in 0..MailBoxTable[b].numSlots
    /\ SlotTable \in [Slots -> MailSlot]
    /\ MboxProcTable \in [Procs -> MboxProc]
    /\ clockCounter \in 0..(Ticks - 1)
    /\ blocked \subseteq Procs /\ zapped \subseteq Procs
    /\ intsOff \in Procs \cup {NULL}
    /\ frame \in [Procs -> Frames]
    /\ halted \in {"no", "noSlots", "hang"}

SendersNow(b) == Senders(MboxProcTable, b)
ReceiversNow(b) == Receivers(MboxProcTable, b)

(* A process that is blocked in MboxSend, MboxReceive or waitDevice is on  *)
(* the list of the mailbox it waits for, once, and on no other; nobody     *)
(* else is on a list.  A process on no list would never be unblocked, and  *)
(* one on two lists would be served in a mailbox it does not use.          *)
BlockedIsListed ==
    halted = "no" =>
    \A p \in Procs, b \in Boxes :
        /\ Cardinality({i \in DOMAIN SendersNow(b) : SendersNow(b)[i] = p}) =
              IF p \in blocked /\ frame[p] = At("sendWait", b) THEN 1 ELSE 0
        /\ Cardinality({i \in DOMAIN ReceiversNow(b) : ReceiversNow(b)[i] = p}) =
              IF p \in blocked /\ frame[p] = At("recvWait", b) THEN 1 ELSE 0

(* Nobody waits for what is there: while a receiver is blocked on a        *)
(* mailbox it has no message and no blocked sender, and while a sender is  *)
(* blocked its slots are all in use.                                       *)
NoNeedlessWait ==
    \A b \in Boxes :
        LET box == MailBoxTable[b]
        IN box.status = "USED" =>
             /\ box.blockRecvList # NULL => box.blockSendList = NULL /\ box.slotList = <<>>
             /\ box.blockSendList # NULL => box.slotsUsed = box.numSlots

(* slotsUsed counts the slots of a mailbox, and a slot that is in use by   *)
(* one mailbox is neither free nor in the list of another one.             *)
SlotsAccounted ==
    \A b, c \in Boxes :
        LET mine == MailBoxTable[b].slotList
            theirs == MailBoxTable[c].slotList
        IN /\ MailBoxTable[b].status = "USED" => MailBoxTable[b].slotsUsed = Len(mine)
           /\ \A i \in DOMAIN mine : SlotTable[mine[i]].status = "USED"
           /\ \A i \in DOMAIN mine, j \in DOMAIN theirs :
                 mine[i] = theirs[j] => b = c /\ i = j

(* The mailboxes implement queues: the messages in the slots, then those   *)
(* of the blocked senders.                                                 *)
QueueOf(b) ==
    IF MailBoxTable[b].status = "EMPTY" THEN <<>>
    ELSE [i \in DOMAIN MailBoxTable[b].slotList |-> SlotTable[MailBoxTable[b].slotList[i]].message]
         \o [i \in DOMAIN SendersNow(b) |-> MboxProcTable[SendersNow(b)[i]].message]

WaitingOf(b) == IF MailBoxTable[b].status = "EMPTY" THEN <<>> ELSE ReceiversNow(b)

Abstract == INSTANCE Channels WITH
    open <- {b \in Boxes : MailBoxTable[b].status = "USED"},
    queue <- [b \in Boxes |-> QueueOf(b)],
    waiting <- [b \in Boxes |-> WaitingOf(b)]

DeliversInOrder == Abstract!Spec

(* "Get a msg from a slot of the indicated mailbox": what a process        *)
(* receives was sent to the mailbox it receives from.                      *)
FromIndicatedMailbox ==
    [][\A p \in Procs : delivery' # delivery /\ delivery'.to = p /\ frame[p].at = "recvWait"
        => delivery'.message.to = frame[p].box]_vars

(* "Block the process on the device until the device sends msg": the       *)
(* process that has waited longest is no longer blocked after a handler    *)
(* has sent it the status of its device.                                   *)
WakesWhenDeviceSends ==
    [][\A p \in Procs : delivery' # delivery /\ delivery'.to = p /\ delivery'.message.from = NULL
        => p \notin blocked']_vars
=============================================================================
