---------------------------- MODULE Phase2Proofs ----------------------------
(* Proofs about the mailboxes of phase 2, for any sizes of the tables, any *)
(* number of processes and devices, and any calls, interrupts and zaps.    *)
(* Programs are careful: a mailbox that is released does not get its slots *)
(* back, so that one that is created in its place before the release is    *)
(* over would begin with the slots of the old one; and nobody who waits    *)
(* has a link left from an earlier wait.                                   *)
(* The first part is about the tables (SlotsInv), the second adds the      *)
(* lists of blocked processes (ListsInv) and maps each step to Channels.   *)
EXTENDS Phase2, Chains
-----------------------------------------------------------------------------
(* What holds of a mailbox by itself: its count is that of its slots, and  *)
(* nobody waits in it for what is there.                                   *)
GoodBox(box) ==
    box.status = "USED" =>
        /\ box.slotsUsed \in 0..box.numSlots /\ box.slotsUsed = Len(box.slotList)
        /\ box.blockRecvList # NULL => box.blockSendList = NULL /\ box.slotList = <<>>
        /\ box.blockSendList # NULL => box.slotsUsed = box.numSlots

BoxesGood == \A b \in Boxes : GoodBox(MailBoxTable[b])

(* Of all together: the slots on their lists are in use and differ.        *)
SlotLists == [b \in Boxes |-> MailBoxTable[b].slotList]

ListsApart(lists, st) ==
    /\ \A b \in Boxes : \A i \in 1..Len(lists[b]) : st[lists[b][i]].status = "USED"
    /\ \A b, c \in Boxes : \A i \in 1..Len(lists[b]), j \in 1..Len(lists[c]) :
          lists[b][i] = lists[c][j] => b = c /\ i = j

(* A free mailbox is blank, unless its release is not over.                *)
Blank(box) == box.slotList = <<>> /\ box.blockSendList = NULL /\ box.blockRecvList = NULL
Releasing(b) == \E q \in Procs : frame[q] = At("releasing", b)

FreeIsBlank ==
    \A b \in Boxes : /\ MailBoxTable[b].status = "EMPTY" => Blank(MailBoxTable[b]) \/ Releasing(b)
                     /\ Releasing(b) => MailBoxTable[b].status = "EMPTY"

DevicesUsed == \A d \in DeviceBoxes : MailBoxTable[d].status = "USED"

(* The types, but for the bounds of slotsUsed.                             *)
Shape ==
    /\ MailBoxTable \in [Boxes -> Mailbox]
    /\ SlotTable \in [Slots -> MailSlot]
    /\ MboxProcTable \in [Procs -> MboxProc]
    /\ blocked \subseteq Procs

Standings ==
    /\ clockCounter \in 0..(Ticks - 1)
    /\ zapped \subseteq Procs
    /\ intsOff \in Procs \cup {NULL}
    /\ frame \in [Procs -> Frames]
    /\ halted \in {"no", "noSlots", "hang"}

(* The inductive invariant: of the tables, and of who is where.            *)
TablesInv == Shape /\ BoxesGood /\ ListsApart(SlotLists, SlotTable) /\ DevicesUsed

SlotsInv == TablesInv /\ Standings /\ FreeIsBlank
-----------------------------------------------------------------------------
(* What assignments to the fields of an entry leave.                       *)
StatusSet(T, p, v) == [T EXCEPT ![p].status = v]
MessageSet(T, p, v) == [T EXCEPT ![p].message = v]
SizeSet(T, p, v) == [T EXCEPT ![p].msgSize = v]
ReleasedSet(T, p) == [T EXCEPT ![p].mboxReleased = TRUE]
SendSet(T, p, v) == [T EXCEPT ![p].nextBlockSend = v]
RecvSet(T, p, v) == [T EXCEPT ![p].nextBlockRecv = v]

LEMMA EntrySet ==
  ASSUME NEW T \in [Procs -> MboxProc], NEW p
  PROVE  /\ \A v \in {"EMPTY", "ACTIVE", "FAILED"} : StatusSet(T, p, v) \in [Procs -> MboxProc]
         /\ \A v \in Messages \cup {NULL} : MessageSet(T, p, v) \in [Procs -> MboxProc]
         /\ \A v \in Int : SizeSet(T, p, v) \in [Procs -> MboxProc]
         /\ ReleasedSet(T, p) \in [Procs -> MboxProc]
         /\ \A v \in Procs \cup {NULL} : SendSet(T, p, v) \in [Procs -> MboxProc]
         /\ \A v \in Procs \cup {NULL} : RecvSet(T, p, v) \in [Procs -> MboxProc]
  <1>1. ASSUME NEW U, NEW e, U = [T EXCEPT ![p] = e], p \in Procs => e \in MboxProc
        PROVE  U \in [Procs -> MboxProc]
    BY <1>1
  <1>2. ASSUME NEW v \in {"EMPTY", "ACTIVE", "FAILED"} PROVE StatusSet(T, p, v) \in [Procs -> MboxProc]
    <2>1. PICK e : e = [T[p] EXCEPT !.status = v]
      OBVIOUS
    <2>2. p \in Procs => e \in MboxProc
      BY <2>1 DEF MboxProc
    <2>3. StatusSet(T, p, v) = [T EXCEPT ![p] = e]
      BY <2>1 DEF StatusSet
    <2>4. QED
      BY <1>1, <2>2, <2>3
  <1>3. ASSUME NEW v \in Messages \cup {NULL} PROVE MessageSet(T, p, v) \in [Procs -> MboxProc]
    <2>1. PICK e : e = [T[p] EXCEPT !.message = v]
      OBVIOUS
    <2>2. p \in Procs => e \in MboxProc
      BY <2>1 DEF MboxProc
    <2>3. MessageSet(T, p, v) = [T EXCEPT ![p] = e]
      BY <2>1 DEF MessageSet
    <2>4. QED
      BY <1>1, <2>2, <2>3
  <1>4. ASSUME NEW v \in Int PROVE SizeSet(T, p, v) \in [Procs -> MboxProc]
    <2>1. PICK e : e = [T[p] EXCEPT !.msgSize = v]
      OBVIOUS
    <2>2. p \in Procs => e \in MboxProc
      BY <2>1 DEF MboxProc
    <2>3. SizeSet(T, p, v) = [T EXCEPT ![p] = e]
      BY <2>1 DEF SizeSet
    <2>4. QED
      BY <1>1, <2>2, <2>3
  <1>5. ReleasedSet(T, p) \in [Procs -> MboxProc]
    <2>1. PICK e : e = [T[p] EXCEPT !.mboxReleased = TRUE]
      OBVIOUS
    <2>2. p \in Procs => e \in MboxProc
      BY <2>1 DEF MboxProc
    <2>3. ReleasedSet(T, p) = [T EXCEPT ![p] = e]
      BY <2>1 DEF ReleasedSet
    <2>4. QED
      BY <1>1, <2>2, <2>3
  <1>6. ASSUME NEW v \in Procs \cup {NULL} PROVE SendSet(T, p, v) \in [Procs -> MboxProc]
    <2>1. PICK e : e = [T[p] EXCEPT !.nextBlockSend = v]
      OBVIOUS
    <2>2. p \in Procs => e \in MboxProc
      BY <2>1 DEF MboxProc
    <2>3. SendSet(T, p, v) = [T EXCEPT ![p] = e]
      BY <2>1 DEF SendSet
    <2>4. QED
      BY <1>1, <2>2, <2>3
  <1>7. ASSUME NEW v \in Procs \cup {NULL} PROVE RecvSet(T, p, v) \in [Procs -> MboxProc]
    <2>1. PICK e : e = [T[p] EXCEPT !.nextBlockRecv = v]
      OBVIOUS
    <2>2. p \in Procs => e \in MboxProc
      BY <2>1 DEF MboxProc
    <2>3. RecvSet(T, p, v) = [T EXCEPT ![p] = e]
      BY <2>1 DEF RecvSet
    <2>4. QED
      BY <1>1, <2>2, <2>3
  <1>8. QED
    BY <1>2, <1>3, <1>4, <1>5, <1>6, <1>7

LEMMA EnteredIs ==
  ASSUME Shape, NEW p \in Procs \cup {NULL}, NEW x \in Messages \cup {NULL}, NEW n \in Int
  PROVE  Entered(p, x, n) \in [Procs -> MboxProc]
  <1>1. MboxProcTable \in [Procs -> MboxProc]
    BY DEF Shape
  <1>2. PICK T : T = StatusSet(MboxProcTable, p, "ACTIVE")
    OBVIOUS
  <1>3. PICK U : U = MessageSet(T, p, x)
    OBVIOUS
  <1>4. T \in [Procs -> MboxProc] /\ U \in [Procs -> MboxProc]
    BY <1>1, <1>2, <1>3, EntrySet
  <1>5. SizeSet(U, p, n) \in [Procs -> MboxProc]
    BY <1>4, EntrySet
  <1>6. p # NULL => Entered(p, x, n) = SizeSet(U, p, n)
    BY <1>2, <1>3 DEF Entered, StatusSet, MessageSet, SizeSet
  <1>7. p = NULL => Entered(p, x, n) = MboxProcTable
    BY DEF Entered
  <1>8. QED
    BY <1>1, <1>5, <1>6, <1>7

LEMMA EntryFields ==
  ASSUME NEW T \in [Procs -> MboxProc], NEW p \in Procs
  PROVE  /\ T[p].message \in Messages \cup {NULL} /\ T[p].msgSize \in Int
         /\ T[p].nextBlockSend \in Procs \cup {NULL} /\ T[p].nextBlockRecv \in Procs \cup {NULL}
  BY DEF MboxProc

LEMMA BoxFields ==
  ASSUME Shape, NEW b \in Boxes
  PROVE  /\ MailBoxTable[b] \in Mailbox
         /\ MailBoxTable[b].status \in {"EMPTY", "USED"}
         /\ MailBoxTable[b].numSlots \in Int /\ MailBoxTable[b].slotsUsed \in Int
         /\ MailBoxTable[b].blockSendList \in Procs \cup {NULL}
         /\ MailBoxTable[b].blockRecvList \in Procs \cup {NULL}
         /\ MailBoxTable[b].slotList \in Seq(Slots)
  BY DEF Shape, Mailbox

LEMMA MessageIs ==
  ASSUME NEW p \in Procs \cup {NULL}, NEW b \in Boxes
  PROVE  Message(p, b) \in Messages \cup {NULL}
  BY DEF Message, Messages

LEMMA DevicesAreBoxes == DeviceBoxes \subseteq Boxes
  BY TableAssumption2 DEF DeviceBoxes, Boxes
-----------------------------------------------------------------------------
(* The lists of slots.                                                     *)

(* getSlotIndex finds a free slot, if there is one.                        *)
LEMMA SlotFound ==
  ASSUME NEW st, \E s \in Slots : st[s].status = "EMPTY"
  PROVE  GetSlotIndex(st) \in Slots /\ st[GetSlotIndex(st)].status = "EMPTY"
  <1> DEFINE T == {s \in Slots : st[s].status = "EMPTY"}
  <1>1. T \in SUBSET Nat /\ T # {}
    BY TableAssumption2 DEF Slots
  <1>2. PICK s \in T : \A r \in T : s <= r
    BY <1>1, LeastOf
  <1>3. \A r \in Slots : r < s => st[r].status # "EMPTY"
    <2>1. \A r \in Slots : r < s => ~(s <= r)
      BY <1>1, <1>2 DEF Slots
    <2>2. QED
      BY <1>2, <2>1
  <1>4. QED
    BY <1>2, <1>3 DEF GetSlotIndex

OthersSame(st, st2, s) == \A r \in Slots : r # s => st2[r] = st[r]

LEMMA ListsAppend ==
  ASSUME NEW L \in [Boxes -> Seq(Slots)], NEW st, ListsApart(L, st),
         NEW b \in Boxes, NEW s \in Slots, st[s].status = "EMPTY",
         NEW L2, NEW st2, L2 = [L EXCEPT ![b] = Append(L[b], s)],
         st2[s].status = "USED", OthersSame(st, st2, s)
  PROVE  ListsApart(L2, st2)
  <1> USE DEF OthersSame
  <1>1. PICK q : q = L[b]
    OBVIOUS
  <1>2. q \in Seq(Slots) /\ Len(q) \in Nat
    BY <1>1, LenProperties
  <1>3. /\ Len(Append(q, s)) = Len(q) + 1 /\ Append(q, s)[Len(q) + 1] = s
        /\ \A i \in 1..Len(q) : Append(q, s)[i] = q[i]
    BY <1>2, AppendProperties
  <1>4. \A c \in Boxes : L2[c] = IF c = b THEN Append(q, s) ELSE L[c]
    BY <1>1
  <1>5. \A c \in Boxes : Len(L[c]) \in Nat /\ \A i \in 1..Len(L[c]) : L[c][i] \in Slots /\ L[c][i] # s
    <2>1. ASSUME NEW c \in Boxes
          PROVE  Len(L[c]) \in Nat /\ \A i \in 1..Len(L[c]) : L[c][i] \in Slots
      <3>1. L[c] \in Seq(Slots)
        OBVIOUS
      <3>2. QED
        BY <3>1, ElementsOf
    <2>2. QED
      BY <2>1 DEF ListsApart
  <1>6. ASSUME NEW c \in Boxes, NEW i \in 1..Len(L2[c])
        PROVE  \/ i \in 1..Len(L[c]) /\ L2[c][i] = L[c][i]
               \/ c = b /\ i = Len(q) + 1 /\ L2[c][i] = s
    <2>1. CASE c = b
      BY <1>1, <1>2, <1>3, <1>4, <1>6, <2>1
    <2>2. CASE c # b
      BY <1>4, <1>6, <2>2
    <2>3. QED
      BY <2>1, <2>2
  <1>7. ASSUME NEW c \in Boxes, NEW i \in 1..Len(L2[c]) PROVE st2[L2[c][i]].status = "USED"
    BY <1>5, <1>6, <1>7 DEF ListsApart
  <1>8. ASSUME NEW c \in Boxes, NEW d \in Boxes, NEW i \in 1..Len(L2[c]), NEW j \in 1..Len(L2[d]),
               L2[c][i] = L2[d][j]
        PROVE  c = d /\ i = j
    <2>1. CASE i \in 1..Len(L[c]) /\ L2[c][i] = L[c][i]
      <3>1. L2[d][j] # s
        BY <1>5, <1>8, <2>1
      <3>2. j \in 1..Len(L[d]) /\ L2[d][j] = L[d][j]
        BY <1>6, <1>8, <3>1
      <3>3. QED
        BY <1>8, <2>1, <3>2 DEF ListsApart
    <2>2. CASE c = b /\ i = Len(q) + 1 /\ L2[c][i] = s
      <3>1. ~(j \in 1..Len(L[d]) /\ L2[d][j] = L[d][j])
        BY <1>5, <1>8, <2>2
      <3>2. QED
        BY <1>6, <1>8, <2>2, <3>1
    <2>3. QED
      BY <1>6, <1>8, <2>1, <2>2
  <1>9. QED
    BY <1>7, <1>8 DEF ListsApart

LEMMA ListsTail ==
  ASSUME NEW L \in [Boxes -> Seq(Slots)], NEW st, ListsApart(L, st),
         NEW b \in Boxes, L[b] # <<>>,
         NEW L2, NEW st2, L2 = [L EXCEPT ![b] = Tail(L[b])],
         OthersSame(st, st2, Head(L[b]))
  PROVE  ListsApart(L2, st2) /\ Head(L[b]) \in Slots
  <1> USE DEF OthersSame
  <1>1. PICK q : q = L[b]
    OBVIOUS
  <1>2. q \in Seq(Slots) /\ Len(q) \in Nat /\ q # <<>> /\ Len(q) > 0
    BY <1>1, LenProperties, EmptySeq
  <1>3. /\ Len(Tail(q)) = Len(q) - 1 /\ Head(q) = q[1] /\ 1 \in 1..Len(q)
        /\ \A i \in 1..Len(q) - 1 : Tail(q)[i] = q[i + 1] /\ i + 1 \in 1..Len(q)
    BY <1>2, HeadTailProperties
  <1>4. \A c \in Boxes : L2[c] = IF c = b THEN Tail(q) ELSE L[c]
    BY <1>1
  <1>5. \A c \in Boxes : Len(L[c]) \in Nat /\ \A i \in 1..Len(L[c]) : L[c][i] \in Slots
    <2>1. ASSUME NEW c \in Boxes
          PROVE  Len(L[c]) \in Nat /\ \A i \in 1..Len(L[c]) : L[c][i] \in Slots
      <3>1. L[c] \in Seq(Slots)
        OBVIOUS
      <3>2. QED
        BY <3>1, ElementsOf
    <2>2. QED
      BY <2>1
  <1> DEFINE Was(c, i) == IF c = b THEN i + 1 ELSE i
  <1>6. ASSUME NEW c \in Boxes, NEW i \in 1..Len(L2[c])
        PROVE  /\ Was(c, i) \in 1..Len(L[c]) /\ L2[c][i] = L[c][Was(c, i)]
               /\ L2[c][i] # Head(q) /\ L2[c][i] \in Slots /\ i \in Nat
    <2>1. i \in Nat /\ i >= 1
      OBVIOUS
    <2>2. CASE c = b
      <3>1. L2[c][i] = q[i + 1] /\ i + 1 \in 1..Len(q) /\ i + 1 # 1
        <4>1. L2[c] = Tail(q) /\ i \in 1..Len(q) - 1
          BY <1>3, <1>4, <1>6, <2>2
        <4>2. Tail(q)[i] = q[i + 1] /\ i + 1 \in 1..Len(q)
          BY <1>3, <4>1
        <4>3. i + 1 # 1
          BY <2>1
        <4>4. QED
          BY <4>1, <4>2, <4>3
      <3>2. q[i + 1] # q[1]
        BY <1>1, <1>3, <3>1 DEF ListsApart
      <3>3. QED
        BY <1>1, <1>3, <1>5, <2>1, <2>2, <3>1, <3>2
    <2>3. CASE c # b
      <3>1. L2[c][i] = L[c][i] /\ i \in 1..Len(L[c])
        BY <1>4, <1>6, <2>3
      <3>2. L[c][i] # q[1]
        BY <1>1, <1>3, <2>3, <3>1 DEF ListsApart
      <3>3. QED
        BY <1>3, <1>5, <2>1, <2>3, <3>1, <3>2
    <2>4. QED
      BY <2>2, <2>3
  <1>7. ASSUME NEW c \in Boxes, NEW i \in 1..Len(L2[c]) PROVE st2[L2[c][i]].status = "USED"
    <2>1. st2[L2[c][i]] = st[L2[c][i]]
      BY <1>1, <1>6
    <2>2. QED
      BY <1>6, <2>1 DEF ListsApart
  <1>8. ASSUME NEW c \in Boxes, NEW d \in Boxes, NEW i \in 1..Len(L2[c]), NEW j \in 1..Len(L2[d]),
               L2[c][i] = L2[d][j]
        PROVE  c = d /\ i = j
    <2>1. c = d /\ Was(c, i) = Was(d, j)
      BY <1>6, <1>8 DEF ListsApart
    <2>2. QED
      BY <1>6, <2>1
  <1>9. ListsApart(L2, st2)
    BY <1>7, <1>8 DEF ListsApart
  <1>10. Head(L[b]) \in Slots
    BY <1>1, <1>3, <1>5
  <1>11. QED
    BY <1>9, <1>10

LEMMA ListsClear ==
  ASSUME NEW L \in [Boxes -> Seq(Slots)], NEW st, ListsApart(L, st),
         NEW b \in Boxes, NEW L2, L2 = [L EXCEPT ![b] = <<>>]
  PROVE  ListsApart(L2, st)
  <1>1. \A c \in Boxes : L2[c] = IF c = b THEN <<>> ELSE L[c]
    OBVIOUS
  <1>2. \A i \in 1..Len(<<>>) : FALSE
    OBVIOUS
  <1>3. \A c \in Boxes : \A i \in 1..Len(L2[c]) : c # b /\ i \in 1..Len(L[c]) /\ L2[c][i] = L[c][i]
    BY <1>1, <1>2
  <1>4. QED
    BY <1>3 DEF ListsApart
-----------------------------------------------------------------------------
(* What a call does to one mailbox.                                        *)

(* Mailboxes do not come or go, and those that are free stay as they are.  *)
Kept(b) == /\ MailBoxTable'[b].status = MailBoxTable[b].status
           /\ MailBoxTable[b].status = "EMPTY" => MailBoxTable'[b] = MailBoxTable[b]
AllKept == \A b \in Boxes : Kept(b)

LEMMA ListsAre ==
  ASSUME Shape
  PROVE  SlotLists \in [Boxes -> Seq(Slots)] /\ \A b \in Boxes : SlotLists[b] = MailBoxTable[b].slotList
  BY BoxFields DEF SlotLists

LEMMA BoxStep ==
  ASSUME TablesInv, NEW b \in Boxes, NEW new \in Mailbox,
         MailBoxTable' = [MailBoxTable EXCEPT ![b] = new], GoodBox(new),
         b \in DeviceBoxes => new.status = "USED",
         SlotTable' \in [Slots -> MailSlot], MboxProcTable' \in [Procs -> MboxProc],
         blocked' \subseteq Procs,
         ListsApart([SlotLists EXCEPT ![b] = new.slotList], SlotTable')
  PROVE  /\ TablesInv'
         /\ \A c \in Boxes : MailBoxTable'[c] = IF c = b THEN new ELSE MailBoxTable[c]
  <1>1. MailBoxTable \in [Boxes -> Mailbox]
    BY DEF TablesInv, Shape
  <1>2. \A c \in Boxes : MailBoxTable'[c] = IF c = b THEN new ELSE MailBoxTable[c]
    BY <1>1
  <1>3. Shape'
    BY <1>1 DEF Shape
  <1>4. BoxesGood'
    BY <1>2 DEF TablesInv, BoxesGood
  <1>5. DevicesUsed'
    <2>1. \A d \in DeviceBoxes : d \in Boxes
      BY DevicesAreBoxes
    <2>2. \A d \in DeviceBoxes : MailBoxTable'[d].status = "USED"
      BY <1>2, <2>1 DEF TablesInv, DevicesUsed
    <2>3. QED
      BY <2>2 DEF DevicesUsed
  <1>6. SlotLists' = [SlotLists EXCEPT ![b] = new.slotList]
    <2>1. PICK L : L = [SlotLists EXCEPT ![b] = new.slotList]
      OBVIOUS
    <2>2. \A c \in Boxes : L[c] = IF c = b THEN new.slotList ELSE MailBoxTable[c].slotList
      BY <2>1 DEF SlotLists
    <2>3. \A c \in Boxes : L[c] = MailBoxTable'[c].slotList
      BY <1>2, <2>2
    <2>4. L = [c \in Boxes |-> L[c]]
      BY <2>1 DEF SlotLists
    <2>5. L = [c \in Boxes |-> MailBoxTable'[c].slotList]
      BY <2>3, <2>4
    <2>6. QED
      BY <2>1, <2>5 DEF SlotLists
  <1>7. QED
    BY <1>2, <1>3, <1>4, <1>5, <1>6 DEF TablesInv

LEMMA SameTables ==
  ASSUME TablesInv, MailBoxTable' = MailBoxTable, SlotTable' = SlotTable,
         MboxProcTable' \in [Procs -> MboxProc], blocked' \subseteq Procs
  PROVE  TablesInv' /\ AllKept
  <1>1. Shape'
    BY DEF TablesInv, Shape
  <1>2. BoxesGood' /\ DevicesUsed' /\ SlotLists' = SlotLists
    BY DEF TablesInv, BoxesGood, DevicesUsed, SlotLists
  <1>3. QED
    BY <1>1, <1>2 DEF TablesInv, AllKept, Kept

RecvListSet(box, v) == [box EXCEPT !.blockRecvList = v]
SendListSet(box, v) == [box EXCEPT !.blockSendList = v]

LEMMA ListSet ==
  ASSUME NEW box \in Mailbox, NEW v \in Procs \cup {NULL}
  PROVE  /\ RecvListSet(box, v) \in Mailbox /\ RecvListSet(box, v).blockRecvList = v
         /\ RecvListSet(box, v).blockSendList = box.blockSendList
         /\ RecvListSet(box, v).status = box.status /\ RecvListSet(box, v).slotList = box.slotList
         /\ RecvListSet(box, v).slotsUsed = box.slotsUsed
         /\ RecvListSet(box, v).numSlots = box.numSlots
         /\ SendListSet(box, v) \in Mailbox /\ SendListSet(box, v).blockSendList = v
         /\ SendListSet(box, v).blockRecvList = box.blockRecvList
         /\ SendListSet(box, v).status = box.status /\ SendListSet(box, v).slotList = box.slotList
         /\ SendListSet(box, v).slotsUsed = box.slotsUsed
         /\ SendListSet(box, v).numSlots = box.numSlots
  BY DEF RecvListSet, SendListSet, Mailbox

LEMMA SameSlotLists ==
  ASSUME TablesInv, NEW b \in Boxes, NEW list, list = MailBoxTable[b].slotList
  PROVE  ListsApart([SlotLists EXCEPT ![b] = list], SlotTable)
  <1>1. [SlotLists EXCEPT ![b] = list] = SlotLists
    BY ListsAre DEF TablesInv
  <1>2. QED
    BY <1>1 DEF TablesInv

(* The list of receivers, or that of senders, changes.                     *)
LEMMA ReceiversChange ==
  ASSUME TablesInv, NEW b \in Boxes, NEW v \in Procs \cup {NULL},
         MailBoxTable' = [MailBoxTable EXCEPT ![b].blockRecvList = v],
         MailBoxTable[b].status = "USED" /\ MailBoxTable[b].blockRecvList = NULL
           => MailBoxTable[b].blockSendList = NULL /\ MailBoxTable[b].slotList = <<>>,
         SlotTable' = SlotTable, MboxProcTable' \in [Procs -> MboxProc], blocked' \subseteq Procs
  PROVE  /\ TablesInv'
         /\ MailBoxTable[b].status = "USED" => AllKept
         /\ \A c \in Boxes : MailBoxTable'[c].status = MailBoxTable[c].status
         /\ \A c \in Boxes : c # b => MailBoxTable'[c] = MailBoxTable[c]
  <1>1. PICK box, new : box = MailBoxTable[b] /\ new = RecvListSet(box, v)
    OBVIOUS
  <1>2. box \in Mailbox /\ new \in Mailbox
    BY <1>1, BoxFields, ListSet DEF TablesInv
  <1>3. MailBoxTable' = [MailBoxTable EXCEPT ![b] = new]
    BY <1>1 DEF RecvListSet
  <1>4. GoodBox(box)
    BY <1>1 DEF TablesInv, BoxesGood
  <1>5. /\ new.blockSendList = box.blockSendList /\ new.status = box.status
        /\ new.slotList = box.slotList /\ new.slotsUsed = box.slotsUsed /\ new.numSlots = box.numSlots
    BY <1>1, <1>2, ListSet
  <1>6. GoodBox(new)
    BY <1>1, <1>4, <1>5 DEF GoodBox
  <1>7. b \in DeviceBoxes => new.status = "USED"
    BY <1>1, <1>5 DEF TablesInv, DevicesUsed
  <1>8. ListsApart([SlotLists EXCEPT ![b] = new.slotList], SlotTable')
    BY <1>1, <1>5, SameSlotLists
  <1>9. SlotTable' \in [Slots -> MailSlot]
    BY DEF TablesInv, Shape
  <1>10. TablesInv' /\ \A c \in Boxes : MailBoxTable'[c] = IF c = b THEN new ELSE MailBoxTable[c]
    BY <1>2, <1>3, <1>6, <1>7, <1>8, <1>9, BoxStep
  <1>11. QED
    BY <1>1, <1>5, <1>10 DEF AllKept, Kept

LEMMA SendersChange ==
  ASSUME TablesInv, NEW b \in Boxes, NEW v \in Procs \cup {NULL},
         MailBoxTable' = [MailBoxTable EXCEPT ![b].blockSendList = v],
         MailBoxTable[b].status = "USED" /\ MailBoxTable[b].blockSendList = NULL
           => /\ MailBoxTable[b].blockRecvList = NULL
              /\ MailBoxTable[b].slotsUsed = MailBoxTable[b].numSlots,
         SlotTable' = SlotTable, MboxProcTable' \in [Procs -> MboxProc], blocked' \subseteq Procs
  PROVE  /\ TablesInv'
         /\ MailBoxTable[b].status = "USED" => AllKept
         /\ \A c \in Boxes : MailBoxTable'[c].status = MailBoxTable[c].status
         /\ \A c \in Boxes : c # b => MailBoxTable'[c] = MailBoxTable[c]
  <1>1. PICK box, new : box = MailBoxTable[b] /\ new = SendListSet(box, v)
    OBVIOUS
  <1>2. box \in Mailbox /\ new \in Mailbox
    BY <1>1, BoxFields, ListSet DEF TablesInv
  <1>3. MailBoxTable' = [MailBoxTable EXCEPT ![b] = new]
    BY <1>1 DEF SendListSet
  <1>4. GoodBox(box)
    BY <1>1 DEF TablesInv, BoxesGood
  <1>5. /\ new.blockRecvList = box.blockRecvList /\ new.status = box.status
        /\ new.slotList = box.slotList /\ new.slotsUsed = box.slotsUsed /\ new.numSlots = box.numSlots
    BY <1>1, <1>2, ListSet
  <1>6. GoodBox(new)
    BY <1>1, <1>4, <1>5 DEF GoodBox
  <1>7. b \in DeviceBoxes => new.status = "USED"
    BY <1>1, <1>5 DEF TablesInv, DevicesUsed
  <1>8. ListsApart([SlotLists EXCEPT ![b] = new.slotList], SlotTable')
    BY <1>1, <1>5, SameSlotLists
  <1>9. SlotTable' \in [Slots -> MailSlot]
    BY DEF TablesInv, Shape
  <1>10. TablesInv' /\ \A c \in Boxes : MailBoxTable'[c] = IF c = b THEN new ELSE MailBoxTable[c]
    BY <1>2, <1>3, <1>6, <1>7, <1>8, <1>9, BoxStep
  <1>11. QED
    BY <1>1, <1>5, <1>10 DEF AllKept, Kept

(* A slot is added at the end of the list of a mailbox, or the first taken *)
(* off it.                                                                 *)
FirstTaken(box) == [box EXCEPT !.slotList = Tail(@), !.slotsUsed = @ - 1]

WithSlots(box, list, n) == [box EXCEPT !.slotList = list, !.slotsUsed = n]

LEMMA SlotsSet ==
  ASSUME NEW box \in Mailbox, NEW list \in Seq(Slots), NEW n \in Int
  PROVE  /\ WithSlots(box, list, n) \in Mailbox
         /\ WithSlots(box, list, n).slotList = list
         /\ WithSlots(box, list, n).slotsUsed = n
         /\ WithSlots(box, list, n).numSlots = box.numSlots
         /\ WithSlots(box, list, n).status = box.status
         /\ WithSlots(box, list, n).blockSendList = box.blockSendList
         /\ WithSlots(box, list, n).blockRecvList = box.blockRecvList
  BY DEF WithSlots, Mailbox

LEMMA SlotAdded ==
  ASSUME NEW box \in Mailbox, NEW s \in Slots
  PROVE  /\ AddSlotToList(box, s) \in Mailbox
         /\ AddSlotToList(box, s).slotList = Append(box.slotList, s)
         /\ AddSlotToList(box, s).slotsUsed = box.slotsUsed + 1
         /\ AddSlotToList(box, s).numSlots = box.numSlots
         /\ AddSlotToList(box, s).status = box.status
         /\ AddSlotToList(box, s).blockSendList = box.blockSendList
         /\ AddSlotToList(box, s).blockRecvList = box.blockRecvList
         /\ Len(Append(box.slotList, s)) = Len(box.slotList) + 1
         /\ Append(box.slotList, s) # <<>> /\ Len(box.slotList) \in Nat
  <1>1. box.slotList \in Seq(Slots)
    BY DEF Mailbox
  <1>2. PICK list : list = Append(box.slotList, s)
    OBVIOUS
  <1>3. /\ list \in Seq(Slots) /\ list # <<>>
        /\ Len(list) = Len(box.slotList) + 1 /\ Len(box.slotList) \in Nat
    BY <1>1, <1>2, AppendProperties, LenProperties
  <1>4. PICK n : n = box.slotsUsed + 1
    OBVIOUS
  <1>5. n \in Int
    BY <1>4 DEF Mailbox
  <1>6. PICK new : new = WithSlots(box, list, n)
    OBVIOUS
  <1>7. /\ new \in Mailbox /\ new.slotList = list /\ new.slotsUsed = n
        /\ new.numSlots = box.numSlots /\ new.status = box.status
        /\ new.blockSendList = box.blockSendList /\ new.blockRecvList = box.blockRecvList
    BY <1>3, <1>5, <1>6, SlotsSet
  <1>8. AddSlotToList(box, s) = new
    BY <1>2, <1>4, <1>6 DEF AddSlotToList, WithSlots
  <1>9. QED
    BY <1>2, <1>3, <1>4, <1>7, <1>8

LEMMA SlotTaken ==
  ASSUME NEW box \in Mailbox, box.slotList # <<>>
  PROVE  /\ FirstTaken(box) \in Mailbox
         /\ FirstTaken(box).slotList = Tail(box.slotList)
         /\ FirstTaken(box).slotsUsed = box.slotsUsed - 1
         /\ FirstTaken(box).numSlots = box.numSlots
         /\ FirstTaken(box).status = box.status
         /\ FirstTaken(box).blockSendList = box.blockSendList
         /\ FirstTaken(box).blockRecvList = box.blockRecvList
         /\ Len(Tail(box.slotList)) = Len(box.slotList) - 1
         /\ Len(box.slotList) \in Nat \ {0}
  <1>1. box.slotList \in Seq(Slots)
    BY DEF Mailbox
  <1>2. PICK list : list = Tail(box.slotList)
    OBVIOUS
  <1>3. list \in Seq(Slots) /\ Len(list) = Len(box.slotList) - 1
    BY <1>1, <1>2, HeadTailProperties
  <1>4. Len(box.slotList) \in Nat \ {0}
    BY <1>1, LenProperties, EmptySeq
  <1>5. PICK n : n = box.slotsUsed - 1
    OBVIOUS
  <1>6. n \in Int
    BY <1>5 DEF Mailbox
  <1>7. PICK new : new = WithSlots(box, list, n)
    OBVIOUS
  <1>8. /\ new \in Mailbox /\ new.slotList = list /\ new.slotsUsed = n
        /\ new.numSlots = box.numSlots /\ new.status = box.status
        /\ new.blockSendList = box.blockSendList /\ new.blockRecvList = box.blockRecvList
    BY <1>3, <1>6, <1>7, SlotsSet
  <1>9. FirstTaken(box) = new
    BY <1>2, <1>5, <1>7 DEF FirstTaken, WithSlots
  <1>10. QED
    BY <1>2, <1>3, <1>4, <1>5, <1>8, <1>9

SlotFilled(st, s, x, n) == [st EXCEPT ![s] = InitSlot(x, n)]
SlotFreed(st, s) == [st EXCEPT ![s] = ZeroSlot]

LEMMA SlotSet ==
  ASSUME NEW st \in [Slots -> MailSlot], NEW s \in Slots, NEW x \in Messages \cup {NULL}, NEW n \in Int
  PROVE  /\ SlotFilled(st, s, x, n) \in [Slots -> MailSlot]
         /\ SlotFilled(st, s, x, n)[s].status = "USED"
         /\ \A r \in Slots : r # s => SlotFilled(st, s, x, n)[r] = st[r]
  <1>1. InitSlot(x, n) \in MailSlot /\ InitSlot(x, n).status = "USED"
    BY DEF InitSlot, MailSlot
  <1>2. QED
    BY <1>1 DEF SlotFilled

LEMMA SlotZeroed ==
  ASSUME NEW st \in [Slots -> MailSlot], NEW s \in Slots
  PROVE  /\ SlotFreed(st, s) \in [Slots -> MailSlot]
         /\ SlotFreed(st, s)[s].status = "EMPTY"
         /\ \A r \in Slots : r # s => SlotFreed(st, s)[r] = st[r]
  <1>1. ZeroSlot \in MailSlot /\ ZeroSlot.status = "EMPTY"
    BY DEF ZeroSlot, MailSlot
  <1>2. QED
    BY <1>1 DEF SlotFreed

LEMMA ToSlotKeepsTables ==
  ASSUME TablesInv, NEW pt \in [Procs -> MboxProc], NEW b \in Boxes,
         NEW x \in Messages \cup {NULL}, NEW n \in Int, ToSlot(pt, b, x, n),
         MailBoxTable[b].status = "USED", MailBoxTable[b].blockRecvList = NULL,
         MailBoxTable[b].numSlots > MailBoxTable[b].slotsUsed, FreeSlots # {}
  PROVE  TablesInv' /\ AllKept
  <1>1. PICK s : s = GetSlotIndex(SlotTable)
    OBVIOUS
  <1>2. s \in Slots /\ SlotTable[s].status = "EMPTY"
    BY <1>1, SlotFound DEF FreeSlots
  <1>3. PICK box, new : box = MailBoxTable[b] /\ new = AddSlotToList(box, s)
    OBVIOUS
  <1>4. /\ SlotTable' = SlotFilled(SlotTable, s, x, n)
        /\ MailBoxTable' = [MailBoxTable EXCEPT ![b] = new]
        /\ MboxProcTable' = pt /\ blocked' = blocked
    BY <1>1, <1>3 DEF ToSlot, SlotFilled
  <1>5. /\ box \in Mailbox /\ box.numSlots \in Int /\ box.slotsUsed \in Int
        /\ SlotTable \in [Slots -> MailSlot] /\ blocked \subseteq Procs
    BY <1>3, BoxFields DEF TablesInv, Shape
  <1>6. /\ SlotTable' \in [Slots -> MailSlot] /\ SlotTable'[s].status = "USED"
        /\ OthersSame(SlotTable, SlotTable', s)
    <2>1. PICK st2 : st2 = SlotFilled(SlotTable, s, x, n)
      OBVIOUS
    <2>2. /\ st2 \in [Slots -> MailSlot] /\ st2[s].status = "USED"
          /\ OthersSame(SlotTable, st2, s)
      BY <1>2, <1>5, <2>1, SlotSet DEF OthersSame
    <2>3. QED
      BY <1>4, <2>1, <2>2
  <1>7. GoodBox(box)
    BY <1>3 DEF TablesInv, BoxesGood
  <1>8. /\ new \in Mailbox /\ new.slotList = Append(box.slotList, s)
        /\ new.slotsUsed = box.slotsUsed + 1 /\ new.numSlots = box.numSlots
        /\ new.status = box.status /\ new.blockSendList = box.blockSendList
        /\ new.blockRecvList = box.blockRecvList
        /\ Len(new.slotList) = Len(box.slotList) + 1
    <2>1. PICK list : list = Append(box.slotList, s)
      OBVIOUS
    <2>2. /\ new \in Mailbox /\ new.slotList = list
          /\ new.slotsUsed = box.slotsUsed + 1 /\ new.numSlots = box.numSlots
          /\ new.status = box.status /\ new.blockSendList = box.blockSendList
          /\ new.blockRecvList = box.blockRecvList
          /\ Len(list) = Len(box.slotList) + 1
      BY <1>2, <1>3, <1>5, <2>1, SlotAdded
    <2>3. QED
      BY <2>1, <2>2
  <1>9. GoodBox(new)
    <2>1. box.slotsUsed \in 0..box.numSlots /\ box.slotsUsed = Len(box.slotList) /\ box.blockSendList = NULL
      BY <1>3, <1>5, <1>7 DEF GoodBox
    <2>2. new.slotsUsed \in 0..new.numSlots /\ new.slotsUsed = Len(new.slotList)
      BY <1>3, <1>5, <1>8, <2>1
    <2>3. QED
      BY <1>3, <1>8, <2>1, <2>2 DEF GoodBox
  <1>10. ListsApart([SlotLists EXCEPT ![b] = new.slotList], SlotTable')
    <2>1. SlotLists \in [Boxes -> Seq(Slots)] /\ SlotLists[b] = box.slotList
      BY <1>3, ListsAre DEF TablesInv
    <2>2. ListsApart(SlotLists, SlotTable)
      BY DEF TablesInv
    <2>3. [SlotLists EXCEPT ![b] = new.slotList] = [SlotLists EXCEPT ![b] = Append(SlotLists[b], s)]
      BY <1>8, <2>1
    <2>4. QED
      BY <1>2, <1>6, <2>1, <2>2, <2>3, ListsAppend
  <1>11. /\ TablesInv'
         /\ \A c \in Boxes : MailBoxTable'[c] = IF c = b THEN new ELSE MailBoxTable[c]
    <2>1. MboxProcTable' \in [Procs -> MboxProc] /\ blocked' \subseteq Procs /\ new.status = "USED"
      BY <1>3, <1>4, <1>5, <1>8
    <2>2. QED
      BY <1>4, <1>6, <1>8, <1>9, <1>10, <2>1, BoxStep
  <1>12. QED
    BY <1>3, <1>8, <1>11 DEF AllKept, Kept

LEMMA BlockedAfterIs ==
  ASSUME TablesInv, NEW p, NEW q
  PROVE  BlockedAfter(p, q) \subseteq Procs
  BY DEF TablesInv, Shape, BlockedAfter

(* The slot that is received is freed; a blocked sender gets it, or        *)
(* another that is free.                                                   *)
LEMMA FreesSlot ==
  ASSUME TablesInv, NEW b \in Boxes, MailBoxTable[b].status = "USED",
         MailBoxTable[b].slotList # <<>>, NEW s, s = Head(MailBoxTable[b].slotList),
         NEW freed, freed = SlotFreed(SlotTable, s)
  PROVE  /\ s \in Slots /\ freed \in [Slots -> MailSlot] /\ freed[s].status = "EMPTY"
         /\ \A L2 : L2 = [SlotLists EXCEPT ![b] = Tail(MailBoxTable[b].slotList)]
                    => L2 \in [Boxes -> Seq(Slots)] /\ ListsApart(L2, freed)
  <1>1. /\ SlotLists \in [Boxes -> Seq(Slots)] /\ SlotLists[b] = MailBoxTable[b].slotList
        /\ SlotTable \in [Slots -> MailSlot] /\ ListsApart(SlotLists, SlotTable)
    BY ListsAre DEF TablesInv, Shape
  <1>2. PICK list : list = MailBoxTable[b].slotList
    OBVIOUS
  <1>3. list \in Seq(Slots) /\ list # <<>> /\ s = Head(list)
    BY <1>1, <1>2
  <1>4. s \in Slots /\ Tail(list) \in Seq(Slots)
    BY <1>3, HeadTailProperties
  <1>5. freed \in [Slots -> MailSlot] /\ freed[s].status = "EMPTY" /\ OthersSame(SlotTable, freed, s)
    BY <1>1, <1>4, SlotZeroed DEF OthersSame
  <1>6. ASSUME NEW L2, L2 = [SlotLists EXCEPT ![b] = Tail(list)]
        PROVE  L2 \in [Boxes -> Seq(Slots)] /\ ListsApart(L2, freed)
    <2>1. L2 \in [Boxes -> Seq(Slots)]
      BY <1>1, <1>4, <1>6
    <2>2. SlotLists[b] = list /\ L2 = [SlotLists EXCEPT ![b] = Tail(SlotLists[b])]
      BY <1>1, <1>2, <1>6
    <2>3. OthersSame(SlotTable, freed, Head(SlotLists[b])) /\ SlotLists[b] # <<>>
      BY <1>3, <1>5, <2>2
    <2>4. ListsApart(L2, freed)
      BY <1>1, <2>2, <2>3, ListsTail
    <2>5. QED
      BY <2>1, <2>4
  <1>7. QED
    BY <1>2, <1>4, <1>5, <1>6

LEMMA FromSlotKeepsTables ==
  ASSUME TablesInv, NEW p \in Procs, NEW b \in Boxes, NEW n \in Int, ReceiveFromSlot(p, b, n)
  PROVE  TablesInv' /\ AllKept
  <1>1. PICK box, s, pt, sender : /\ box = MailBoxTable[b] /\ s = Head(MailBoxTable[b].slotList)
                                  /\ pt = Entered(p, NULL, n) /\ sender = MailBoxTable[b].blockSendList
    OBVIOUS
  <1>2. PICK freed, taken : freed = SlotFreed(SlotTable, s) /\ taken = FirstTaken(box)
    OBVIOUS
  <1>3. PICK t : t = GetSlotIndex(freed)
    OBVIOUS
  <1>4. /\ box.status = "USED" /\ box.slotList # <<>> /\ MboxProcTable' = pt
        /\ \/ /\ sender = NULL /\ SlotTable' = freed
              /\ MailBoxTable' = [MailBoxTable EXCEPT ![b] = taken] /\ blocked' = blocked
           \/ /\ sender # NULL
              /\ SlotTable' = SlotFilled(freed, t, pt[sender].message, pt[sender].msgSize)
              /\ MailBoxTable' = [MailBoxTable EXCEPT ![b] =
                    SendListSet(AddSlotToList(taken, t), NextSender(pt, sender))]
              /\ blocked' = BlockedAfter(p, sender)
    BY <1>1, <1>2, <1>3 DEF ReceiveFromSlot, ReceiveCall, SlotFreed, FirstTaken, SlotFilled, SendListSet
  <1>5. pt \in [Procs -> MboxProc]
    BY <1>1, EnteredIs DEF TablesInv
  <1>6. /\ box \in Mailbox /\ box.numSlots \in Int /\ box.slotsUsed \in Int
        /\ sender \in Procs \cup {NULL} /\ sender = box.blockSendList /\ blocked \subseteq Procs
    BY <1>1, BoxFields DEF TablesInv, Shape
  <1>7. /\ box.slotsUsed \in 0..box.numSlots /\ box.slotsUsed = Len(box.slotList)
        /\ box.blockRecvList = NULL /\ (sender # NULL => box.slotsUsed = box.numSlots)
    BY <1>1, <1>4, <1>6 DEF TablesInv, BoxesGood, GoodBox
  <1>8. /\ s \in Slots /\ freed \in [Slots -> MailSlot] /\ freed[s].status = "EMPTY"
        /\ \A L2 : L2 = [SlotLists EXCEPT ![b] = Tail(box.slotList)]
                   => L2 \in [Boxes -> Seq(Slots)] /\ ListsApart(L2, freed)
    BY <1>1, <1>2, <1>4, FreesSlot
  <1>9. /\ taken \in Mailbox /\ taken.slotList = Tail(box.slotList)
        /\ taken.slotsUsed = box.slotsUsed - 1 /\ taken.numSlots = box.numSlots
        /\ taken.status = box.status /\ taken.blockSendList = box.blockSendList
        /\ taken.blockRecvList = box.blockRecvList
        /\ Len(taken.slotList) = Len(box.slotList) - 1 /\ Len(box.slotList) \in Nat \ {0}
    <2>1. PICK list : list = Tail(box.slotList)
      OBVIOUS
    <2>2. /\ taken \in Mailbox /\ taken.slotList = list
          /\ taken.slotsUsed = box.slotsUsed - 1 /\ taken.numSlots = box.numSlots
          /\ taken.status = box.status /\ taken.blockSendList = box.blockSendList
          /\ taken.blockRecvList = box.blockRecvList
          /\ Len(list) = Len(box.slotList) - 1 /\ Len(box.slotList) \in Nat \ {0}
      BY <1>2, <1>4, <1>6, <2>1, SlotTaken
    <2>3. QED
      BY <2>1, <2>2
  <1>10. PICK L2 : L2 = [SlotLists EXCEPT ![b] = taken.slotList]
    OBVIOUS
  <1>11. L2 \in [Boxes -> Seq(Slots)] /\ ListsApart(L2, freed) /\ L2[b] = taken.slotList
    <2>1. L2 \in [Boxes -> Seq(Slots)] /\ ListsApart(L2, freed)
      BY <1>8, <1>9, <1>10
    <2>2. L2[b] = taken.slotList
      BY <1>10, ListsAre DEF TablesInv
    <2>3. QED
      BY <2>1, <2>2
  <1>12. CASE sender = NULL
    <2>1. GoodBox(taken)
      BY <1>6, <1>7, <1>9, <1>12 DEF GoodBox
    <2>2. SlotTable' = freed /\ MailBoxTable' = [MailBoxTable EXCEPT ![b] = taken] /\ blocked' = blocked
      BY <1>4, <1>12
    <2>3. ListsApart([SlotLists EXCEPT ![b] = taken.slotList], SlotTable')
      BY <1>10, <1>11, <2>2
    <2>4. /\ MboxProcTable' \in [Procs -> MboxProc] /\ blocked' \subseteq Procs
          /\ SlotTable' \in [Slots -> MailSlot] /\ taken.status = "USED" /\ taken \in Mailbox
      BY <1>4, <1>5, <1>6, <1>8, <1>9, <2>2
    <2>5. TablesInv' /\ \A c \in Boxes : MailBoxTable'[c] = IF c = b THEN taken ELSE MailBoxTable[c]
      BY <2>1, <2>2, <2>3, <2>4, BoxStep
    <2>6. QED
      BY <1>1, <1>4, <2>4, <2>5 DEF AllKept, Kept
  <1>13. CASE sender # NULL
    <2>1. PICK x, k, v : x = pt[sender].message /\ k = pt[sender].msgSize /\ v = NextSender(pt, sender)
      OBVIOUS
    <2>2. x \in Messages \cup {NULL} /\ k \in Int /\ v \in Procs \cup {NULL}
      BY <1>5, <1>6, <1>13, <2>1, EntryFields DEF NextSender
    <2>3. t \in Slots /\ freed[t].status = "EMPTY"
      BY <1>3, <1>8, SlotFound
    <2>4. PICK more, new, st2 : /\ more = AddSlotToList(taken, t) /\ new = SendListSet(more, v)
                                /\ st2 = SlotFilled(freed, t, x, k)
      OBVIOUS
    <2>5. SlotTable' = st2 /\ MailBoxTable' = [MailBoxTable EXCEPT ![b] = new]
      BY <1>4, <1>13, <2>1, <2>4
    <2>6. /\ st2 \in [Slots -> MailSlot] /\ st2[t].status = "USED" /\ OthersSame(freed, st2, t)
      BY <1>8, <2>2, <2>3, <2>4, SlotSet DEF OthersSame
    <2>7. PICK list : list = Append(taken.slotList, t)
      OBVIOUS
    <2>8. /\ more \in Mailbox /\ more.slotList = list /\ more.slotsUsed = taken.slotsUsed + 1
          /\ more.numSlots = taken.numSlots /\ more.status = taken.status
          /\ more.blockRecvList = taken.blockRecvList
          /\ Len(list) = Len(taken.slotList) + 1
      BY <1>9, <2>3, <2>4, <2>7, SlotAdded
    <2>9. /\ new \in Mailbox /\ new.slotList = list /\ new.slotsUsed = more.slotsUsed
          /\ new.numSlots = more.numSlots /\ new.status = "USED" /\ new.blockRecvList = NULL
      <3>1. /\ new \in Mailbox /\ new.slotList = more.slotList /\ new.slotsUsed = more.slotsUsed
            /\ new.numSlots = more.numSlots /\ new.status = more.status
            /\ new.blockRecvList = more.blockRecvList
        <4>1. more \in Mailbox /\ v \in Procs \cup {NULL} /\ new = SendListSet(more, v)
          BY <2>2, <2>4, <2>8
        <4>2. QED
          BY <4>1, ListSet
      <3>2. more.slotList = list /\ more.status = "USED" /\ more.blockRecvList = NULL
        BY <1>4, <1>7, <1>9, <2>8
      <3>3. QED
        BY <3>1, <3>2
    <2>10. GoodBox(new)
      <3>1. new.slotsUsed = box.slotsUsed /\ new.numSlots = box.numSlots /\ Len(list) = Len(box.slotList)
        BY <1>6, <1>9, <2>8, <2>9
      <3>2. QED
        BY <1>7, <1>13, <2>9, <3>1 DEF GoodBox
    <2>11. ListsApart([SlotLists EXCEPT ![b] = new.slotList], SlotTable')
      <3>1. PICK L3 : L3 = [L2 EXCEPT ![b] = Append(L2[b], t)]
        OBVIOUS
      <3>2. ListsApart(L3, st2)
        BY <1>11, <2>3, <2>6, <3>1, ListsAppend
      <3>3. L3 = [SlotLists EXCEPT ![b] = list]
        <4>1. SlotLists \in [Boxes -> Seq(Slots)]
          BY ListsAre DEF TablesInv
        <4>2. L3 = [L2 EXCEPT ![b] = list]
          BY <1>11, <2>7, <3>1
        <4>3. QED
          BY <1>10, <4>1, <4>2
      <3>4. QED
        BY <2>5, <2>9, <3>2, <3>3
    <2>12. /\ MboxProcTable' \in [Procs -> MboxProc] /\ blocked' \subseteq Procs
           /\ SlotTable' \in [Slots -> MailSlot]
      BY <1>4, <1>5, <1>13, <2>5, <2>6, BlockedAfterIs
    <2>13. TablesInv' /\ \A c \in Boxes : MailBoxTable'[c] = IF c = b THEN new ELSE MailBoxTable[c]
      BY <2>5, <2>9, <2>10, <2>11, <2>12, BoxStep
    <2>14. QED
      BY <1>1, <1>4, <2>9, <2>13 DEF AllKept, Kept
  <1>14. QED
    BY <1>12, <1>13
-----------------------------------------------------------------------------
(* Sending.                                                                *)

LEMMA SizesAre == \A n \in Sizes \cup {IntSize} : n \in Int
  BY ProgramAssumption2

LEMMA HandOverKeepsTables ==
  ASSUME TablesInv, NEW p, NEW pt \in [Procs -> MboxProc], NEW b \in Boxes, NEW x, NEW n \in Int,
         HandOver(p, pt, b, x, n), MailBoxTable[b].status = "USED", MailBoxTable[b].blockRecvList # NULL
  PROVE  TablesInv' /\ AllKept
  <1>1. PICK r : r = MailBoxTable[b].blockRecvList
    OBVIOUS
  <1>2. r \in Procs
    BY <1>1, BoxFields DEF TablesInv
  <1>3. PICK v : v = pt[r].nextBlockRecv
    OBVIOUS
  <1>4. v \in Procs \cup {NULL}
    BY <1>2, <1>3, EntryFields
  <1>5. MboxProcTable' = SizeSet(pt, r, n) /\ SlotTable' = SlotTable /\ blocked' = BlockedAfter(p, r)
    BY <1>1 DEF HandOver, SizeSet
  <1>6. MailBoxTable' = [MailBoxTable EXCEPT ![b].blockRecvList = v]
    BY <1>1, <1>3 DEF HandOver
  <1>7. MboxProcTable' \in [Procs -> MboxProc] /\ blocked' \subseteq Procs
    BY <1>5, EntrySet, BlockedAfterIs
  <1>8. QED
    BY <1>4, <1>5, <1>6, <1>7, ReceiversChange

LEMMA SendKeepsTables ==
  ASSUME TablesInv, NEW p \in Procs, NEW b \in Boxes, NEW n \in Sizes, MboxSend(p, b, Message(p, b), n)
  PROVE  TablesInv' /\ AllKept
  <1>1. PICK x : x = Message(p, b)
    OBVIOUS
  <1>2. x \in Messages \cup {NULL} /\ n \in Int
    BY <1>1, MessageIs, SizesAre
  <1>3. PICK pt, r : pt = Entered(p, x, n) /\ r = MailBoxTable[b].blockRecvList
    OBVIOUS
  <1>4. pt \in [Procs -> MboxProc]
    BY <1>2, <1>3, EnteredIs DEF TablesInv
  <1>5. r \in Procs \cup {NULL}
    BY <1>3, BoxFields DEF TablesInv
  <1>6. /\ MailBoxTable[b].status = "USED"
        /\ \/ r # NULL /\ HandOver(p, pt, b, x, n)
           \/ /\ r # NULL
              /\ MboxProcTable' = StatusSet(pt, r, "FAILED")
              /\ MailBoxTable' = [MailBoxTable EXCEPT ![b].blockRecvList = pt[r].nextBlockRecv]
              /\ blocked' = BlockedAfter(p, r)
              /\ SlotTable' = SlotTable
           \/ /\ r = NULL /\ MailBoxTable[b].numSlots > MailBoxTable[b].slotsUsed
              /\ FreeSlots # {} /\ ToSlot(pt, b, x, n)
    BY <1>1, <1>3 DEF MboxSend, StatusSet
  <1>7. CASE r # NULL /\ HandOver(p, pt, b, x, n)
    BY <1>2, <1>3, <1>4, <1>6, <1>7, HandOverKeepsTables
  <1>8. CASE /\ r # NULL
             /\ MboxProcTable' = StatusSet(pt, r, "FAILED")
             /\ MailBoxTable' = [MailBoxTable EXCEPT ![b].blockRecvList = pt[r].nextBlockRecv]
             /\ blocked' = BlockedAfter(p, r)
             /\ SlotTable' = SlotTable
    <2>1. PICK v : v = pt[r].nextBlockRecv
      OBVIOUS
    <2>2. v \in Procs \cup {NULL}
      BY <1>4, <1>5, <1>8, <2>1, EntryFields
    <2>3. MailBoxTable' = [MailBoxTable EXCEPT ![b].blockRecvList = v]
      BY <1>8, <2>1
    <2>4. MboxProcTable' \in [Procs -> MboxProc] /\ blocked' \subseteq Procs
      BY <1>4, <1>8, EntrySet, BlockedAfterIs
    <2>5. MailBoxTable[b].blockRecvList # NULL /\ SlotTable' = SlotTable
      BY <1>3, <1>8
    <2>6. QED
      BY <1>6, <2>2, <2>3, <2>4, <2>5, ReceiversChange
  <1>9. CASE /\ r = NULL /\ MailBoxTable[b].numSlots > MailBoxTable[b].slotsUsed
             /\ FreeSlots # {} /\ ToSlot(pt, b, x, n)
    BY <1>2, <1>3, <1>4, <1>6, <1>9, ToSlotKeepsTables
  <1>10. QED
    BY <1>6, <1>7, <1>8, <1>9

LEMMA CondSendKeepsTables ==
  ASSUME TablesInv, NEW p \in Procs \cup {NULL}, NEW b \in Boxes, NEW x \in Messages \cup {NULL},
         NEW n \in Int, CondSend(p, b, x, n), MailBoxTable[b].status = "USED"
  PROVE  TablesInv' /\ AllKept
  <1>1. PICK pt, r : pt = Entered(p, x, n) /\ r = MailBoxTable[b].blockRecvList
    OBVIOUS
  <1>2. pt \in [Procs -> MboxProc]
    BY <1>1, EnteredIs DEF TablesInv
  <1>3. \/ r # NULL /\ HandOver(p, pt, b, x, n)
        \/ ~IsQuiet(b) /\ r = NULL /\ ToSlot(pt, b, x, n)
        \/ /\ MboxProcTable' = pt /\ MailBoxTable' = MailBoxTable
           /\ SlotTable' = SlotTable /\ blocked' = blocked
    BY <1>1 DEF CondSend
  <1>4. CASE r # NULL /\ HandOver(p, pt, b, x, n)
    BY <1>1, <1>2, <1>4, HandOverKeepsTables
  <1>5. CASE ~IsQuiet(b) /\ r = NULL /\ ToSlot(pt, b, x, n)
    <2>1. PICK box : box = MailBoxTable[b]
      OBVIOUS
    <2>2. /\ box.numSlots \in Int /\ box.slotsUsed \in Int /\ box.slotsUsed \in 0..box.numSlots
      BY <2>1, BoxFields DEF TablesInv, BoxesGood, GoodBox
    <2>3. box.numSlots # box.slotsUsed /\ FreeSlots # {}
      BY <1>1, <1>5, <2>1, <2>2 DEF IsQuiet
    <2>4. box.numSlots > box.slotsUsed
      BY <2>2, <2>3
    <2>5. QED
      BY <1>1, <1>2, <1>5, <2>1, <2>3, <2>4, ToSlotKeepsTables
  <1>6. CASE /\ MboxProcTable' = pt /\ MailBoxTable' = MailBoxTable
             /\ SlotTable' = SlotTable /\ blocked' = blocked
    <2>1. MboxProcTable' \in [Procs -> MboxProc] /\ blocked' \subseteq Procs
      BY <1>2, <1>6 DEF TablesInv, Shape
    <2>2. QED
      BY <1>6, <2>1, SameTables
  <1>7. QED
    BY <1>3, <1>4, <1>5, <1>6

LEMMA StopKeepsTables ==
  ASSUME TablesInv, NEW how, Stop(how)
  PROVE  TablesInv' /\ AllKept
  <1>1. /\ MailBoxTable' = MailBoxTable /\ SlotTable' = SlotTable
        /\ MboxProcTable' = MboxProcTable /\ blocked' = blocked
    BY DEF Stop
  <1>2. MboxProcTable' \in [Procs -> MboxProc] /\ blocked' \subseteq Procs
    BY <1>1 DEF TablesInv, Shape
  <1>3. QED
    BY <1>1, <1>2, SameTables

LEMMA SendBlocksKeepsTables ==
  ASSUME TablesInv, NEW p \in Procs, NEW b \in Boxes, NEW n \in Sizes,
         MboxSendBlocks(p, b, Message(p, b), n)
  PROVE  TablesInv' /\ AllKept
  <1>1. PICK x : x = Message(p, b)
    OBVIOUS
  <1>2. x \in Messages \cup {NULL} /\ n \in Int
    BY <1>1, MessageIs, SizesAre
  <1>3. PICK pt, last : pt = Entered(p, x, n) /\ last = Last(Senders(Entered(p, x, n), b))
    OBVIOUS
  <1>4. pt \in [Procs -> MboxProc]
    BY <1>2, <1>3, EnteredIs DEF TablesInv
  <1>5. /\ MailBoxTable[b].status = "USED" /\ MailBoxTable[b].numSlots <= MailBoxTable[b].slotsUsed
        /\ MailBoxTable[b].blockRecvList = NULL
        /\ \/ Stop("hang")
           \/ /\ MailBoxTable' = [MailBoxTable EXCEPT ![b].blockSendList = p]
              /\ MboxProcTable' = pt /\ blocked' = blocked \cup {p} /\ SlotTable' = SlotTable
           \/ /\ MboxProcTable' = SendSet(pt, last, p)
              /\ MailBoxTable' = MailBoxTable /\ blocked' = blocked \cup {p} /\ SlotTable' = SlotTable
    BY <1>1, <1>3 DEF MboxSendBlocks, SendSet
  <1>6. MailBoxTable[b].slotsUsed = MailBoxTable[b].numSlots
    <2>1. /\ MailBoxTable[b].numSlots \in Int /\ MailBoxTable[b].slotsUsed \in Int
          /\ MailBoxTable[b].slotsUsed \in 0..MailBoxTable[b].numSlots
      BY <1>5, BoxFields DEF TablesInv, BoxesGood, GoodBox
    <2>2. QED
      BY <1>5, <2>1
  <1>7. blocked \cup {p} \subseteq Procs
    BY DEF TablesInv, Shape
  <1>8. CASE Stop("hang")
    BY <1>8, StopKeepsTables
  <1>9. CASE /\ MailBoxTable' = [MailBoxTable EXCEPT ![b].blockSendList = p]
             /\ MboxProcTable' = pt /\ blocked' = blocked \cup {p} /\ SlotTable' = SlotTable
    <2>1. MboxProcTable' \in [Procs -> MboxProc] /\ blocked' \subseteq Procs
      BY <1>4, <1>7, <1>9
    <2>2. QED
      BY <1>5, <1>6, <1>9, <2>1, SendersChange
  <1>10. CASE /\ MboxProcTable' = SendSet(pt, last, p)
              /\ MailBoxTable' = MailBoxTable /\ blocked' = blocked \cup {p} /\ SlotTable' = SlotTable
    <2>1. MboxProcTable' \in [Procs -> MboxProc] /\ blocked' \subseteq Procs
      BY <1>4, <1>7, <1>10, EntrySet
    <2>2. QED
      BY <1>10, <2>1, SameTables
  <1>11. QED
    BY <1>5, <1>8, <1>9, <1>10
-----------------------------------------------------------------------------
(* Receiving.                                                              *)

LEMMA FromSenderKeepsTables ==
  ASSUME TablesInv, NEW p \in Procs, NEW b \in Boxes, NEW n \in Sizes \cup {IntSize},
         ReceiveFromSender(p, b, n)
  PROVE  TablesInv' /\ AllKept
  <1>1. PICK pt, sender : pt = Entered(p, NULL, n) /\ sender = MailBoxTable[b].blockSendList
    OBVIOUS
  <1>2. pt \in [Procs -> MboxProc]
    BY <1>1, EnteredIs, SizesAre DEF TablesInv
  <1>3. sender # NULL /\ MailBoxTable[b].status = "USED"
    BY <1>1 DEF ReceiveFromSender, ReceiveCall, MeetsSender
  <1>4. sender \in Procs
    BY <1>1, <1>3, BoxFields DEF TablesInv
  <1>5. PICK v : v = pt[sender].nextBlockSend
    OBVIOUS
  <1>6. v \in Procs \cup {NULL}
    BY <1>2, <1>4, <1>5, EntryFields
  <1>7. /\ MboxProcTable' = pt /\ SlotTable' = SlotTable /\ blocked' = BlockedAfter(p, sender)
        /\ MailBoxTable' = [MailBoxTable EXCEPT ![b].blockSendList = v]
    BY <1>1, <1>5 DEF ReceiveFromSender
  <1>8. MboxProcTable' \in [Procs -> MboxProc] /\ blocked' \subseteq Procs
    BY <1>2, <1>7, BlockedAfterIs
  <1>9. QED
    BY <1>1, <1>3, <1>6, <1>7, <1>8, SendersChange

LEMMA ReceiveBlocksKeepsTables ==
  ASSUME TablesInv, NEW p \in Procs, NEW b \in Boxes, NEW n \in Sizes \cup {IntSize},
         MboxReceiveBlocks(p, b, n)
  PROVE  TablesInv' /\ AllKept
  <1>1. PICK pt, last : pt = Entered(p, NULL, n) /\ last = Last(Receivers(Entered(p, NULL, n), b))
    OBVIOUS
  <1>2. pt \in [Procs -> MboxProc]
    BY <1>1, EnteredIs, SizesAre DEF TablesInv
  <1>3. /\ MailBoxTable[b].status = "USED" /\ ~MeetsSender(b) /\ MailBoxTable[b].slotList = <<>>
        /\ \/ Stop("hang")
           \/ /\ MailBoxTable' = [MailBoxTable EXCEPT ![b].blockRecvList = p]
              /\ MboxProcTable' = pt /\ blocked' = blocked \cup {p} /\ SlotTable' = SlotTable
           \/ /\ MboxProcTable' = RecvSet(pt, last, p)
              /\ MailBoxTable' = MailBoxTable /\ blocked' = blocked \cup {p} /\ SlotTable' = SlotTable
    BY <1>1 DEF MboxReceiveBlocks, ReceiveCall, RecvSet
  <1>4. MailBoxTable[b].blockSendList = NULL
    <2>1. /\ MailBoxTable[b].slotsUsed = Len(MailBoxTable[b].slotList)
          /\ MailBoxTable[b].blockSendList # NULL => MailBoxTable[b].slotsUsed = MailBoxTable[b].numSlots
      BY <1>3 DEF TablesInv, BoxesGood, GoodBox
    <2>2. MailBoxTable[b].slotsUsed = 0
      BY <1>3, <2>1
    <2>3. QED
      BY <1>3, <2>1, <2>2 DEF MeetsSender
  <1>5. blocked \cup {p} \subseteq Procs
    BY DEF TablesInv, Shape
  <1>6. CASE Stop("hang")
    BY <1>6, StopKeepsTables
  <1>7. CASE /\ MailBoxTable' = [MailBoxTable EXCEPT ![b].blockRecvList = p]
             /\ MboxProcTable' = pt /\ blocked' = blocked \cup {p} /\ SlotTable' = SlotTable
    <2>1. MboxProcTable' \in [Procs -> MboxProc] /\ blocked' \subseteq Procs
      BY <1>2, <1>5, <1>7
    <2>2. QED
      BY <1>3, <1>4, <1>7, <2>1, ReceiversChange
  <1>8. CASE /\ MboxProcTable' = RecvSet(pt, last, p)
             /\ MailBoxTable' = MailBoxTable /\ blocked' = blocked \cup {p} /\ SlotTable' = SlotTable
    <2>1. MboxProcTable' \in [Procs -> MboxProc] /\ blocked' \subseteq Procs
      BY <1>2, <1>5, <1>8, EntrySet
    <2>2. QED
      BY <1>8, <2>1, SameTables
  <1>9. QED
    BY <1>3, <1>6, <1>7, <1>8

LEMMA ReceiveFailsKeepsTables ==
  ASSUME TablesInv, NEW p \in Procs, NEW b \in Boxes, NEW n \in Sizes \cup {IntSize},
         ReceiveFails(p, b, n)
  PROVE  TablesInv' /\ AllKept
  <1>1. Entered(p, NULL, n) \in [Procs -> MboxProc]
    BY EnteredIs, SizesAre DEF TablesInv
  <1>2. /\ MailBoxTable' = MailBoxTable /\ SlotTable' = SlotTable
        /\ MboxProcTable' = Entered(p, NULL, n) /\ blocked' = blocked
    BY DEF ReceiveFails
  <1>3. MboxProcTable' \in [Procs -> MboxProc] /\ blocked' \subseteq Procs
    BY <1>1, <1>2 DEF TablesInv, Shape
  <1>4. QED
    BY <1>2, <1>3, SameTables
-----------------------------------------------------------------------------
(* Who is in the middle of a release.                                      *)

SameReleases == \A b \in Boxes : Releasing(b)' <=> Releasing(b)

LEMMA FrameSame ==
  ASSUME frame' = frame
  PROVE  SameReleases
  BY DEF SameReleases, Releasing

LEMMA FrameMoves ==
  ASSUME frame \in [Procs -> Frames], NEW p \in Procs, NEW f \in Frames,
         frame' = [frame EXCEPT ![p] = f],
         frame[p].at # "releasing", f.at # "releasing"
  PROVE  SameReleases /\ frame' \in [Procs -> Frames]
  <1>1. \A b : At("releasing", b).at = "releasing"
    BY DEF At
  <1>2. \A b : f # At("releasing", b) /\ frame[p] # At("releasing", b)
    BY <1>1
  <1>3. \A q \in Procs : frame'[q] = IF q = p THEN f ELSE frame[q]
    OBVIOUS
  <1>4. QED
    BY <1>2, <1>3 DEF SameReleases, Releasing

LEMMA FrameIs ==
  ASSUME NEW b \in Boxes \cup {NULL}
  PROVE  \A loc \in {"user", "sendWait", "recvWait", "rendezvous", "releasing", "gone"} :
            At(loc, b) \in Frames /\ At(loc, b).at = loc
  BY DEF At, Frames

LEMMA UserIs == InUser \in Frames /\ InUser.at = "user"
  BY FrameIs DEF InUser

(* A step that keeps the mailboxes and the releases.                       *)
LEMMA KeptInv ==
  ASSUME SlotsInv, TablesInv', AllKept, Standings', SameReleases
  PROVE  SlotsInv'
  <1>1. FreeIsBlank'
    BY DEF SlotsInv, FreeIsBlank, AllKept, Kept, SameReleases
  <1>2. QED
    BY <1>1 DEF SlotsInv

LEMMA StandingsKept ==
  ASSUME Standings, UNCHANGED procVars, intsOff' \in Procs \cup {NULL},
         frame' \in [Procs -> Frames], halted' \in {"no", "noSlots", "hang"}
  PROVE  Standings'
  BY DEF Standings, procVars

(* A step that leaves everybody where he is.                               *)
LEMMA StayingInv ==
  ASSUME SlotsInv, TablesInv', AllKept, UNCHANGED procVars, frame' = frame,
         intsOff' \in Procs \cup {NULL}, halted' \in {"no", "noSlots", "hang"}
  PROVE  SlotsInv'
  <1>1. frame' \in [Procs -> Frames]
    BY DEF SlotsInv, Standings
  <1>2. Standings'
    BY <1>1, StandingsKept DEF SlotsInv
  <1>3. QED
    BY <1>2, FrameSame, KeptInv

(* A step that moves one process, which does not release.                  *)
LEMMA MovingInv ==
  ASSUME SlotsInv, TablesInv', AllKept, UNCHANGED procVars, NEW p \in Procs, NEW f \in Frames,
         frame' = [frame EXCEPT ![p] = f], frame[p].at # "releasing", f.at # "releasing",
         intsOff' \in Procs \cup {NULL}, halted' = halted
  PROVE  SlotsInv'
  <1>1. SameReleases /\ frame' \in [Procs -> Frames]
    BY FrameMoves DEF SlotsInv, Standings
  <1>2. Standings'
    BY <1>1, StandingsKept DEF SlotsInv, Standings
  <1>3. QED
    BY <1>1, <1>2, KeptInv

LEMMA StopInv ==
  ASSUME SlotsInv, NEW how \in {"noSlots", "hang"}, Stop(how)
  PROVE  SlotsInv'
  <1>1. TablesInv' /\ AllKept
    BY StopKeepsTables DEF SlotsInv
  <1>2. /\ UNCHANGED procVars /\ frame' = frame /\ intsOff' \in Procs \cup {NULL}
        /\ halted' \in {"no", "noSlots", "hang"}
    BY DEF Stop, SlotsInv, Standings
  <1>3. QED
    BY <1>1, <1>2, StayingInv

LEMMA SendInv ==
  ASSUME SlotsInv, Careful, NEW p \in Procs, NEW b \in Boxes, NEW n \in Sizes,
         \/ MboxSend(p, b, Message(p, b), n) \/ NoSlotsInSystem(p, b, n)
         \/ MboxSendBlocks(p, b, Message(p, b), n) \/ MboxCondSend(p, b, Message(p, b), n)
  PROVE  SlotsInv'
  <1>1. PICK x : x = Message(p, b)
    OBVIOUS
  <1>2. TablesInv /\ Standings
    BY DEF SlotsInv
  <1>3. CASE MboxSend(p, b, Message(p, b), n)
    <2>1. TablesInv' /\ AllKept
      BY <1>2, <1>3, SendKeepsTables
    <2>2. UNCHANGED procVars /\ frame' = frame /\ intsOff' = NULL /\ halted' = halted
      BY <1>1, <1>3 DEF MboxSend
    <2>3. QED
      BY <1>2, <2>1, <2>2, StayingInv DEF Standings
  <1>4. CASE NoSlotsInSystem(p, b, n)
    BY <1>4, StopInv DEF NoSlotsInSystem
  <1>5. CASE MboxSendBlocks(p, b, Message(p, b), n)
    <2>1. TablesInv' /\ AllKept
      BY <1>2, <1>5, SendBlocksKeepsTables
    <2>2. /\ frame[p].at = "user"
          /\ \/ Stop("hang")
             \/ /\ UNCHANGED procVars /\ frame' = [frame EXCEPT ![p] = At("sendWait", b)]
                /\ intsOff' = NULL /\ halted' = halted
      BY <1>1, <1>5 DEF MboxSendBlocks, SendCall, MayCall
    <2>3. At("sendWait", b) \in Frames /\ At("sendWait", b).at = "sendWait"
      BY FrameIs
    <2>4. CASE Stop("hang")
      BY <2>4, StopInv
    <2>5. CASE /\ UNCHANGED procVars /\ frame' = [frame EXCEPT ![p] = At("sendWait", b)]
               /\ intsOff' = NULL /\ halted' = halted
      BY <2>1, <2>2, <2>3, <2>5, MovingInv
    <2>6. QED
      BY <2>2, <2>4, <2>5
  <1>6. CASE MboxCondSend(p, b, Message(p, b), n)
    <2>1. /\ MailBoxTable[b].status = "USED" /\ CondSend(p, b, x, n)
          /\ UNCHANGED procVars /\ frame' = frame /\ intsOff' \in {p, NULL} /\ halted' = halted
      BY <1>1, <1>6 DEF MboxCondSend
    <2>2. TablesInv' /\ AllKept
      <3>1. x \in Messages \cup {NULL} /\ n \in Int
        BY <1>1, MessageIs, SizesAre
      <3>2. QED
        BY <1>2, <2>1, <3>1, CondSendKeepsTables
    <2>3. QED
      BY <1>2, <2>1, <2>2, StayingInv DEF Standings
  <1>7. QED
    BY <1>3, <1>4, <1>5, <1>6

LEMMA CallerIsUser ==
  ASSUME NEW p, NEW calls, NEW b, NEW n, ReceiveCall(p, calls, b, n)
  PROVE  frame[p].at = "user"
  BY DEF ReceiveCall, WaitDevice, MayCall

LEMMA ReceiveInv ==
  ASSUME SlotsInv, NEW p \in Procs, NEW b \in Boxes, NEW n \in Sizes \cup {IntSize},
         \/ ReceiveFromSender(p, b, n) \/ MboxReceiveBlocks(p, b, n)
         \/ ReceiveFails(p, b, n) \/ ReceiveFromSlot(p, b, n)
  PROVE  SlotsInv'
  <1>1. TablesInv /\ Standings /\ n \in Int
    BY SizesAre DEF SlotsInv
  <1>2. CASE ReceiveFromSender(p, b, n)
    <2>1. TablesInv' /\ AllKept
      BY <1>1, <1>2, FromSenderKeepsTables
    <2>2. /\ frame[p].at = "user"
          /\ UNCHANGED procVars /\ frame' = [frame EXCEPT ![p] = At("rendezvous", b)]
          /\ intsOff' \in {p, NULL} /\ halted' = halted
      BY <1>2, CallerIsUser DEF ReceiveFromSender
    <2>3. At("rendezvous", b) \in Frames /\ At("rendezvous", b).at = "rendezvous"
      BY FrameIs
    <2>4. QED
      BY <2>1, <2>2, <2>3, MovingInv
  <1>3. CASE MboxReceiveBlocks(p, b, n)
    <2>1. TablesInv' /\ AllKept
      BY <1>1, <1>3, ReceiveBlocksKeepsTables
    <2>2. /\ frame[p].at = "user"
          /\ \/ Stop("hang")
             \/ /\ UNCHANGED procVars /\ frame' = [frame EXCEPT ![p] = At("recvWait", b)]
                /\ intsOff' = NULL /\ halted' = halted
      BY <1>3, CallerIsUser DEF MboxReceiveBlocks
    <2>3. At("recvWait", b) \in Frames /\ At("recvWait", b).at = "recvWait"
      BY FrameIs
    <2>4. CASE Stop("hang")
      BY <2>4, StopInv
    <2>5. CASE /\ UNCHANGED procVars /\ frame' = [frame EXCEPT ![p] = At("recvWait", b)]
               /\ intsOff' = NULL /\ halted' = halted
      BY <2>1, <2>2, <2>3, <2>5, MovingInv
    <2>6. QED
      BY <2>2, <2>4, <2>5
  <1>4. CASE ReceiveFails(p, b, n)
    <2>1. TablesInv' /\ AllKept
      BY <1>1, <1>4, ReceiveFailsKeepsTables
    <2>2. UNCHANGED procVars /\ frame' = frame /\ intsOff' = NULL /\ halted' = halted
      BY <1>4 DEF ReceiveFails
    <2>3. QED
      BY <1>1, <2>1, <2>2, StayingInv DEF Standings
  <1>5. CASE ReceiveFromSlot(p, b, n)
    <2>1. TablesInv' /\ AllKept
      BY <1>1, <1>5, FromSlotKeepsTables
    <2>2. UNCHANGED procVars /\ frame' = frame /\ intsOff' = NULL /\ halted' = halted
      BY <1>5 DEF ReceiveFromSlot
    <2>3. QED
      BY <1>1, <2>1, <2>2, StayingInv DEF Standings
  <1>6. QED
    BY <1>2, <1>3, <1>4, <1>5

(* A step that leaves the tables as they are.                              *)
LEMMA TablesStay ==
  ASSUME TablesInv, MailBoxTable' = MailBoxTable, SlotTable' = SlotTable,
         MboxProcTable' = MboxProcTable, blocked' = blocked
  PROVE  TablesInv' /\ AllKept
  <1>1. MboxProcTable' \in [Procs -> MboxProc] /\ blocked' \subseteq Procs
    BY DEF TablesInv, Shape
  <1>2. QED
    BY <1>1, SameTables

LEMMA OtherStepsInv ==
  ASSUME SlotsInv, NEW p \in Procs, BadCall(p) \/ Return(p) \/ Quit(p) \/ GetsZapped(p)
  PROVE  SlotsInv'
  <1>1. TablesInv' /\ AllKept
    <2>1. /\ MailBoxTable' = MailBoxTable /\ SlotTable' = SlotTable
          /\ MboxProcTable' = MboxProcTable /\ blocked' = blocked
      BY DEF BadCall, Return, Quit, GetsZapped
    <2>2. QED
      BY <2>1, TablesStay DEF SlotsInv
  <1>2. Standings
    BY DEF SlotsInv
  <1>3. CASE BadCall(p)
    <2>1. UNCHANGED procVars /\ frame' = frame /\ intsOff' = NULL /\ halted' = halted
      BY <1>3 DEF BadCall
    <2>2. QED
      BY <1>1, <1>2, <2>1, StayingInv DEF Standings
  <1>4. CASE Return(p)
    <2>1. /\ frame[p].at # "releasing" /\ UNCHANGED procVars /\ frame' = [frame EXCEPT ![p] = InUser]
          /\ intsOff' \in Procs \cup {NULL} /\ halted' = halted
      BY <1>2, <1>4 DEF Return, Standings
    <2>2. QED
      BY <1>1, <2>1, UserIs, MovingInv
  <1>5. CASE Quit(p)
    <2>1. /\ frame[p].at # "releasing" /\ UNCHANGED procVars
          /\ frame' = [frame EXCEPT ![p] = At("gone", NULL)]
          /\ intsOff' = NULL /\ halted' = halted
      BY <1>5 DEF Quit, MayCall
    <2>2. At("gone", NULL) \in Frames /\ At("gone", NULL).at = "gone"
      BY FrameIs
    <2>3. QED
      BY <1>1, <2>1, <2>2, MovingInv
  <1>6. CASE GetsZapped(p)
    <2>1. Standings' /\ frame' = frame
      BY <1>2, <1>6 DEF GetsZapped, Standings
    <2>2. QED
      BY <1>1, <2>1, FrameSame, KeptInv
  <1>7. QED
    BY <1>3, <1>4, <1>5, <1>6
-----------------------------------------------------------------------------
(* Mailboxes come and go.                                                  *)

CreatedIs(box, slots, size, new) ==
    /\ new = Created(box, slots, size) /\ new.status = "USED" /\ new.numSlots = slots
    /\ new.slotsUsed = 0 /\ new.slotList = box.slotList
    /\ new.blockSendList = box.blockSendList /\ new.blockRecvList = box.blockRecvList

CountsSet(box, v, n, k) == [box EXCEPT !.status = v, !.numSlots = n, !.slotsUsed = k]
SlotSizeSet(box, n) == [box EXCEPT !.slotSize = n]

LEMMA BoxSet ==
  ASSUME NEW box \in Mailbox, NEW v \in {"EMPTY", "USED"}, NEW n \in Int, NEW k \in Int, NEW new, new = CountsSet(box, v, n, k)
  PROVE  /\ new \in Mailbox /\ new.status = v /\ new.numSlots = n /\ new.slotsUsed = k
         /\ new.slotList = box.slotList /\ new.blockSendList = box.blockSendList
         /\ new.blockRecvList = box.blockRecvList
  BY DEF Mailbox, CountsSet

LEMMA SizeOfBoxSet ==
  ASSUME NEW box \in Mailbox, NEW n \in Int, NEW new, new = SlotSizeSet(box, n)
  PROVE  /\ new \in Mailbox /\ new.status = box.status /\ new.numSlots = box.numSlots
         /\ new.slotsUsed = box.slotsUsed
         /\ new.slotList = box.slotList /\ new.blockSendList = box.blockSendList
         /\ new.blockRecvList = box.blockRecvList
  BY DEF Mailbox, SlotSizeSet

LEMMA CreatedBox ==
  ASSUME NEW box \in Mailbox, NEW slots \in Nat, NEW size \in Nat
  PROVE  Created(box, slots, size) \in Mailbox /\ CreatedIs(box, slots, size, Created(box, slots, size))
  <1>1. PICK v, k : v = "USED" /\ k = 0
    OBVIOUS
  <1>2. PICK mid : mid = CountsSet(box, v, slots, k)
    OBVIOUS
  <1>3. /\ mid \in Mailbox /\ mid.status = v /\ mid.numSlots = slots /\ mid.slotsUsed = k
        /\ mid.slotList = box.slotList /\ mid.blockSendList = box.blockSendList
        /\ mid.blockRecvList = box.blockRecvList
    <2>1. v \in {"EMPTY", "USED"} /\ k \in Int
      BY <1>1
    <2>2. slots \in Int
      OBVIOUS
    <2>3. QED
      BY <1>2, <2>1, <2>2, BoxSet
  <1>4. PICK new : new = SlotSizeSet(mid, size)
    OBVIOUS
  <1>5. /\ new \in Mailbox /\ new.status = mid.status /\ new.numSlots = mid.numSlots
        /\ new.slotsUsed = mid.slotsUsed
        /\ new.slotList = mid.slotList /\ new.blockSendList = mid.blockSendList
        /\ new.blockRecvList = mid.blockRecvList
    BY <1>3, <1>4, SizeOfBoxSet
  <1>6. Created(box, slots, size) = new
    BY <1>1, <1>2, <1>4 DEF Created, CountsSet, SlotSizeSet
  <1>7. QED
    BY <1>1, <1>3, <1>5, <1>6 DEF CreatedIs

LEMMA EmptyList == Len(<<>>) = 0
  OBVIOUS

(* A mailbox that is free, with nobody releasing, is created without slots *)
(* or processes.                                                           *)
LEMMA CreateInv ==
  ASSUME SlotsInv, Careful, NEW p \in Procs, NEW b \in Boxes,
         NEW slots \in Capacities, NEW size \in SlotSizes, MboxCreate(p, b, slots, size)
  PROVE  SlotsInv'
  <1>1. TablesInv /\ Standings /\ FreeIsBlank /\ slots \in Nat /\ size \in Nat
    BY ProgramAssumption2 DEF SlotsInv
  <1>2. PICK box, new : box = MailBoxTable[b] /\ new = Created(MailBoxTable[b], slots, size)
    OBVIOUS
  <1>3. /\ box.status = "EMPTY" /\ MailBoxTable' = [MailBoxTable EXCEPT ![b] = new]
        /\ \A q \in Procs : frame[q].at # "releasing"
        /\ SlotTable' = SlotTable /\ MboxProcTable' = MboxProcTable /\ blocked' = blocked
        /\ UNCHANGED procVars /\ frame' = frame /\ intsOff' = NULL /\ halted' = halted
    BY <1>2 DEF MboxCreate
  <1>4. \A c \in Boxes : ~Releasing(c)
    <2>1. \A c : At("releasing", c).at = "releasing"
      BY DEF At
    <2>2. QED
      BY <1>3, <2>1 DEF Releasing
  <1>5. Blank(box)
    BY <1>1, <1>2, <1>3, <1>4 DEF FreeIsBlank
  <1>6. box \in Mailbox
    BY <1>1, <1>2, BoxFields DEF TablesInv
  <1>7. new \in Mailbox /\ CreatedIs(box, slots, size, new)
    BY <1>1, <1>2, <1>6, CreatedBox
  <1>8. GoodBox(new)
    <2>1. new.slotsUsed = 0 /\ new.numSlots = slots /\ 0 \in 0..slots
      BY <1>1, <1>7 DEF CreatedIs
    <2>2. new.slotList = <<>> /\ new.blockRecvList = NULL /\ new.blockSendList = NULL
      BY <1>5, <1>7 DEF CreatedIs, Blank
    <2>3. QED
      BY <2>1, <2>2, EmptyList DEF GoodBox
  <1>9. ListsApart([SlotLists EXCEPT ![b] = new.slotList], SlotTable')
    BY <1>1, <1>2, <1>3, <1>7, SameSlotLists DEF CreatedIs
  <1>10. /\ SlotTable' \in [Slots -> MailSlot] /\ MboxProcTable' \in [Procs -> MboxProc]
         /\ blocked' \subseteq Procs /\ new.status = "USED"
    BY <1>1, <1>3, <1>7 DEF TablesInv, Shape, CreatedIs
  <1>11. TablesInv' /\ \A c \in Boxes : MailBoxTable'[c] = IF c = b THEN new ELSE MailBoxTable[c]
    BY <1>1, <1>3, <1>7, <1>8, <1>9, <1>10, BoxStep
  <1>12. FreeIsBlank'
    <2>1. \A c \in Boxes : ~Releasing(c)'
      BY <1>3, <1>4 DEF Releasing
    <2>2. \A c \in Boxes : MailBoxTable'[c].status = "EMPTY" => Blank(MailBoxTable'[c])
      BY <1>1, <1>4, <1>10, <1>11 DEF FreeIsBlank
    <2>3. QED
      BY <2>1, <2>2 DEF FreeIsBlank
  <1>13. Standings'
    BY <1>1, <1>3, StandingsKept DEF Standings
  <1>14. QED
    BY <1>11, <1>12, <1>13 DEF SlotsInv

LEMMA ZeroIs ==
  /\ ZeroMailbox \in Mailbox /\ ZeroMailbox.status = "EMPTY" /\ ZeroMailbox.slotList = <<>>
  /\ Blank(ZeroMailbox)
  BY DEF ZeroMailbox, Mailbox, Blank

(* A mailbox that no device has is set to zero.                            *)
LEMMA ZeroKeepsTables ==
  ASSUME TablesInv, NEW b \in Boxes \ DeviceBoxes,
         MailBoxTable' = [MailBoxTable EXCEPT ![b] = ZeroMailbox],
         SlotTable' = SlotTable, MboxProcTable' = MboxProcTable, blocked' = blocked
  PROVE  /\ TablesInv' /\ MailBoxTable'[b] = ZeroMailbox
         /\ \A c \in Boxes : c # b => MailBoxTable'[c] = MailBoxTable[c]
  <1>1. PICK new : new = ZeroMailbox
    OBVIOUS
  <1>2. new \in Mailbox /\ new.status = "EMPTY" /\ new.slotList = <<>>
    BY <1>1, ZeroIs
  <1>3. GoodBox(new)
    BY <1>2 DEF GoodBox
  <1>4. ListsApart([SlotLists EXCEPT ![b] = new.slotList], SlotTable')
    <2>1. SlotLists \in [Boxes -> Seq(Slots)] /\ ListsApart(SlotLists, SlotTable)
      BY ListsAre DEF TablesInv
    <2>2. QED
      BY <1>2, <2>1, ListsClear
  <1>5. SlotTable' \in [Slots -> MailSlot] /\ MboxProcTable' \in [Procs -> MboxProc] /\ blocked' \subseteq Procs
    BY DEF TablesInv, Shape
  <1>6. TablesInv' /\ \A c \in Boxes : MailBoxTable'[c] = IF c = b THEN new ELSE MailBoxTable[c]
    BY <1>1, <1>2, <1>3, <1>4, <1>5, BoxStep
  <1>7. QED
    BY <1>1, <1>6

Emptied(box) == [box EXCEPT !.status = "EMPTY"]

LEMMA EmptiedBox ==
  ASSUME NEW box \in Mailbox
  PROVE  /\ Emptied(box) \in Mailbox /\ Emptied(box).status = "EMPTY"
         /\ Emptied(box).slotList = box.slotList
  BY DEF Emptied, Mailbox

LEMMA ReleaseIdleInv ==
  ASSUME SlotsInv, NEW p \in Procs, NEW b \in Boxes, ReleaseIdle(p, b)
  PROVE  SlotsInv'
  <1>1. TablesInv /\ Standings /\ FreeIsBlank
    BY DEF SlotsInv
  <1>2. /\ b \in Boxes \ DeviceBoxes /\ MailBoxTable' = [MailBoxTable EXCEPT ![b] = ZeroMailbox]
        /\ SlotTable' = SlotTable /\ MboxProcTable' = MboxProcTable /\ blocked' = blocked
        /\ UNCHANGED procVars /\ frame' = frame /\ intsOff' = NULL /\ halted' = halted
    BY DEF ReleaseIdle, MayRelease
  <1>3. /\ TablesInv' /\ MailBoxTable'[b] = ZeroMailbox
        /\ \A c \in Boxes : c # b => MailBoxTable'[c] = MailBoxTable[c]
    BY <1>1, <1>2, ZeroKeepsTables
  <1>4. SameReleases
    BY <1>2, FrameSame
  <1>5. FreeIsBlank'
    BY <1>1, <1>3, <1>4, ZeroIs DEF FreeIsBlank, SameReleases
  <1>6. Standings'
    BY <1>1, <1>2, StandingsKept DEF Standings
  <1>7. QED
    BY <1>3, <1>5, <1>6 DEF SlotsInv

LEMMA ReleaseStartsInv ==
  ASSUME SlotsInv, NEW p \in Procs, NEW b \in Boxes, ReleaseStarts(p, b)
  PROVE  SlotsInv'
  <1>1. TablesInv /\ Standings /\ FreeIsBlank /\ frame \in [Procs -> Frames]
    BY DEF SlotsInv, Standings
  <1>2. PICK box, new, f : /\ box = MailBoxTable[b] /\ new = Emptied(MailBoxTable[b])
                           /\ f = At("releasing", b)
    OBVIOUS
  <1>3. /\ b \notin DeviceBoxes /\ MailBoxTable' = [MailBoxTable EXCEPT ![b] = new]
        /\ frame[p].at = "user" /\ frame' = [frame EXCEPT ![p] = f]
        /\ SlotTable' = SlotTable /\ MboxProcTable' = MboxProcTable /\ blocked' = blocked
        /\ UNCHANGED procVars /\ intsOff' = p /\ halted' = halted
    BY <1>2 DEF ReleaseStarts, MayRelease, MayCall, Emptied
  <1>4. f \in Frames /\ \A c : At("releasing", c) = f => c = b
    BY <1>2, FrameIs DEF At
  <1>5. new \in Mailbox /\ new.status = "EMPTY" /\ new.slotList = box.slotList
    BY <1>1, <1>2, BoxFields, EmptiedBox DEF TablesInv
  <1>6. TablesInv' /\ \A c \in Boxes : MailBoxTable'[c] = IF c = b THEN new ELSE MailBoxTable[c]
    <2>1. GoodBox(new)
      BY <1>5 DEF GoodBox
    <2>2. ListsApart([SlotLists EXCEPT ![b] = new.slotList], SlotTable')
      BY <1>1, <1>2, <1>3, <1>5, SameSlotLists
    <2>3. /\ SlotTable' \in [Slots -> MailSlot] /\ MboxProcTable' \in [Procs -> MboxProc]
          /\ blocked' \subseteq Procs
      BY <1>1, <1>3 DEF TablesInv, Shape
    <2>4. QED
      BY <1>1, <1>3, <1>5, <2>1, <2>2, <2>3, BoxStep
  <1>7. \A q \in Procs : frame'[q] = IF q = p THEN f ELSE frame[q]
    BY <1>1, <1>3
  <1>8. Releasing(b)' /\ \A c \in Boxes : c # b => (Releasing(c)' <=> Releasing(c))
    <2>1. \A c : frame[p] # At("releasing", c)
      BY <1>3 DEF At
    <2>2. QED
      BY <1>2, <1>4, <1>7, <2>1 DEF Releasing
  <1>9. FreeIsBlank'
    BY <1>1, <1>5, <1>6, <1>8 DEF FreeIsBlank
  <1>10. Standings'
    <2>1. frame' \in [Procs -> Frames]
      BY <1>1, <1>3, <1>4
    <2>2. QED
      BY <1>1, <1>3, <2>1, StandingsKept DEF Standings
  <1>11. QED
    BY <1>6, <1>9, <1>10 DEF SlotsInv

(* A step of a release: the mailbox is free already.                       *)
LEMMA ReleaseStep ==
  ASSUME SlotsInv, TablesInv', NEW b \in Boxes, Releasing(b), UNCHANGED procVars,
         intsOff' \in Procs \cup {NULL}, frame' = frame, halted' = halted,
         \A c \in Boxes : MailBoxTable'[c].status = MailBoxTable[c].status,
         \A c \in Boxes : c # b => MailBoxTable'[c] = MailBoxTable[c]
  PROVE  SlotsInv'
  <1>1. SameReleases
    BY FrameSame
  <1>2. FreeIsBlank'
    BY <1>1 DEF SlotsInv, FreeIsBlank, SameReleases
  <1>3. Standings'
    BY StandingsKept DEF SlotsInv, Standings
  <1>4. QED
    BY <1>2, <1>3 DEF SlotsInv

LEMMA ReleaseWakesInv ==
  ASSUME SlotsInv, NEW p \in Procs, NEW b \in Boxes, ReleaseSender(p, b) \/ ReleaseReceiver(p, b)
  PROVE  SlotsInv'
  <1>1. TablesInv /\ FreeIsBlank /\ MboxProcTable \in [Procs -> MboxProc]
    BY DEF SlotsInv, TablesInv, Shape
  <1>2. Releasing(b) /\ MailBoxTable[b].status = "EMPTY"
    BY <1>1 DEF ReleaseSender, ReleaseReceiver, Releases, Releasing, FreeIsBlank
  <1>3. CASE ReleaseSender(p, b)
    <2>1. PICK q, v : q = MailBoxTable[b].blockSendList /\ v = NextSender(MboxProcTable, MailBoxTable[b].blockSendList)
      OBVIOUS
    <2>2. /\ q # NULL /\ MboxProcTable' = ReleasedSet(MboxProcTable, q)
          /\ MailBoxTable' = [MailBoxTable EXCEPT ![b].blockSendList = v]
          /\ blocked' = BlockedAfter(p, q) /\ SlotTable' = SlotTable
          /\ UNCHANGED procVars /\ intsOff' \in {p, NULL} /\ frame' = frame /\ halted' = halted
      BY <1>3, <2>1 DEF ReleaseSender, ReleasedSet
    <2>3. q \in Procs
      BY <1>1, <2>1, <2>2, BoxFields DEF TablesInv
    <2>4. v \in Procs \cup {NULL}
      BY <1>1, <2>1, <2>3, EntryFields DEF NextSender
    <2>5. MboxProcTable' \in [Procs -> MboxProc] /\ blocked' \subseteq Procs
      BY <1>1, <2>2, EntrySet, BlockedAfterIs
    <2>6. /\ TablesInv' /\ \A c \in Boxes : MailBoxTable'[c].status = MailBoxTable[c].status
          /\ \A c \in Boxes : c # b => MailBoxTable'[c] = MailBoxTable[c]
      BY <1>1, <1>2, <2>2, <2>4, <2>5, SendersChange
    <2>7. QED
      BY <1>2, <2>2, <2>6, ReleaseStep
  <1>4. CASE ReleaseReceiver(p, b)
    <2>1. PICK q, v : q = MailBoxTable[b].blockRecvList /\ v = MboxProcTable[MailBoxTable[b].blockRecvList].nextBlockRecv
      OBVIOUS
    <2>2. /\ q # NULL /\ MboxProcTable' = ReleasedSet(MboxProcTable, q)
          /\ MailBoxTable' = [MailBoxTable EXCEPT ![b].blockRecvList = v]
          /\ blocked' = BlockedAfter(p, q) /\ SlotTable' = SlotTable
          /\ UNCHANGED procVars /\ intsOff' \in {p, NULL} /\ frame' = frame /\ halted' = halted
      BY <1>4, <2>1 DEF ReleaseReceiver, ReleasedSet
    <2>3. q \in Procs
      BY <1>1, <2>1, <2>2, BoxFields DEF TablesInv
    <2>4. v \in Procs \cup {NULL}
      BY <1>1, <2>1, <2>3, EntryFields
    <2>5. MboxProcTable' \in [Procs -> MboxProc] /\ blocked' \subseteq Procs
      BY <1>1, <2>2, EntrySet, BlockedAfterIs
    <2>6. /\ TablesInv' /\ \A c \in Boxes : MailBoxTable'[c].status = MailBoxTable[c].status
          /\ \A c \in Boxes : c # b => MailBoxTable'[c] = MailBoxTable[c]
      BY <1>1, <1>2, <2>2, <2>4, <2>5, ReceiversChange
    <2>7. QED
      BY <1>2, <2>2, <2>6, ReleaseStep
  <1>5. QED
    BY <1>3, <1>4

LEMMA ReleaseEndsInv ==
  ASSUME SlotsInv, NEW p \in Procs, NEW b \in Boxes, ReleaseEnds(p, b)
  PROVE  SlotsInv'
  <1>1. TablesInv /\ Standings /\ FreeIsBlank /\ frame \in [Procs -> Frames]
    BY DEF SlotsInv, Standings
  <1>2. /\ frame[p] = At("releasing", b) /\ MailBoxTable' = [MailBoxTable EXCEPT ![b] = ZeroMailbox]
        /\ SlotTable' = SlotTable /\ MboxProcTable' = MboxProcTable /\ blocked' = blocked
        /\ UNCHANGED procVars /\ frame' = [frame EXCEPT ![p] = InUser]
        /\ intsOff' = NULL /\ halted' = halted
    BY DEF ReleaseEnds, Releases
  <1>3. MailBoxTable[b].status = "EMPTY" /\ b \in Boxes \ DeviceBoxes
    <2>1. MailBoxTable[b].status = "EMPTY"
      BY <1>1, <1>2 DEF FreeIsBlank, Releasing
    <2>2. QED
      BY <1>1, <2>1 DEF TablesInv, DevicesUsed
  <1>4. /\ TablesInv' /\ MailBoxTable'[b] = ZeroMailbox
        /\ \A c \in Boxes : c # b => MailBoxTable'[c] = MailBoxTable[c]
    BY <1>1, <1>2, <1>3, ZeroKeepsTables
  <1>5. \A q \in Procs : frame'[q] = IF q = p THEN InUser ELSE frame[q]
    BY <1>1, <1>2
  <1>6. \A c \in Boxes : c # b => (Releasing(c)' <=> Releasing(c))
    <2>1. \A c : At("releasing", c) # InUser
      BY UserIs DEF At
    <2>2. \A c : c # b => frame[p] # At("releasing", c)
      BY <1>2 DEF At
    <2>3. QED
      BY <1>5, <2>1, <2>2 DEF Releasing
  <1>7. FreeIsBlank'
    BY <1>1, <1>4, <1>6, ZeroIs DEF FreeIsBlank
  <1>8. Standings'
    <2>1. frame' \in [Procs -> Frames]
      BY <1>1, <1>2, UserIs
    <2>2. QED
      BY <1>1, <1>2, <2>1, StandingsKept DEF Standings
  <1>9. QED
    BY <1>4, <1>7, <1>8 DEF SlotsInv
-----------------------------------------------------------------------------
(* Interrupts.                                                             *)

LEMMA HandlerKeepsTables ==
  ASSUME TablesInv, NEW c \in Procs \cup {NULL}, NEW d \in DeviceBoxes,
         CondSend(c, d, Message(NULL, d), IntSize)
  PROVE  TablesInv' /\ AllKept
  <1>1. d \in Boxes /\ IntSize \in Int
    BY DevicesAreBoxes, SizesAre
  <1>2. PICK x : x = Message(NULL, d)
    OBVIOUS
  <1>3. x \in Messages \cup {NULL}
    BY <1>1, <1>2, MessageIs
  <1>4. MailBoxTable[d].status = "USED"
    BY DEF TablesInv, DevicesUsed
  <1>5. QED
    BY <1>1, <1>2, <1>3, <1>4, CondSendKeepsTables

LEMMA InterruptInv ==
  ASSUME SlotsInv, NEW c \in Procs \cup {NULL}, Interrupt(c)
  PROVE  SlotsInv'
  <1>1. TablesInv /\ Standings
    BY DEF SlotsInv
  <1>2. CASE ClockHandler(c)
    <2>1. /\ frame' = frame /\ zapped' = zapped /\ intsOff' = intsOff /\ halted' = halted
          /\ \/ CondSend(c, 0, Message(NULL, 0), IntSize) /\ clockCounter' = 0
             \/ /\ ~(clockCounter + 1 >= Ticks) /\ clockCounter' = clockCounter + 1
                /\ MailBoxTable' = MailBoxTable /\ SlotTable' = SlotTable
                /\ MboxProcTable' = MboxProcTable /\ blocked' = blocked
      BY <1>2 DEF ClockHandler
    <2>2. TablesInv' /\ AllKept
      <3>1. 0 \in DeviceBoxes
        BY TableAssumption2 DEF DeviceBoxes
      <3>2. QED
        BY <1>1, <2>1, <3>1, HandlerKeepsTables, TablesStay
    <2>3. clockCounter' \in 0..(Ticks - 1)
      <3>1. Ticks \in Nat \ {0} /\ clockCounter \in 0..(Ticks - 1)
        BY <1>1, TableAssumption2 DEF Standings
      <3>2. QED
        BY <2>1, <3>1
    <2>4. Standings'
      BY <1>1, <2>1, <2>3 DEF Standings
    <2>5. QED
      BY <2>1, <2>2, <2>4, FrameSame, KeptInv
  <1>3. CASE \E d \in DeviceBoxes : DeviceHandler(c, d)
    <2>1. PICK d \in DeviceBoxes : DeviceHandler(c, d)
      BY <1>3
    <2>2. TablesInv' /\ AllKept
      BY <1>1, <2>1, HandlerKeepsTables DEF DeviceHandler
    <2>3. UNCHANGED procVars /\ frame' = frame /\ intsOff' = intsOff /\ halted' = halted
      BY <2>1 DEF DeviceHandler
    <2>4. QED
      BY <1>1, <2>2, <2>3, StayingInv DEF Standings
  <1>4. QED
    BY <1>2, <1>3 DEF Interrupt
-----------------------------------------------------------------------------
LEMMA StepInv ==
  ASSUME SlotsInv, Careful, NEW p \in Procs, Step(p)
  PROVE  SlotsInv'
  <1>1. CASE BadCall(p) \/ Return(p) \/ Quit(p) \/ GetsZapped(p)
    BY <1>1, OtherStepsInv
  <1>2. ASSUME NEW b \in Boxes, NEW slots \in Capacities, NEW size \in SlotSizes,
               MboxCreate(p, b, slots, size)
        PROVE  SlotsInv'
    BY <1>2, CreateInv
  <1>3. ASSUME NEW b \in Boxes, NEW n \in Sizes,
               \/ MboxSend(p, b, Message(p, b), n) \/ NoSlotsInSystem(p, b, n)
               \/ MboxSendBlocks(p, b, Message(p, b), n) \/ MboxCondSend(p, b, Message(p, b), n)
        PROVE  SlotsInv'
    BY <1>3, SendInv
  <1>4. ASSUME NEW b \in Boxes, NEW n \in Sizes \cup {IntSize},
               \/ ReceiveFromSender(p, b, n) \/ MboxReceiveBlocks(p, b, n)
               \/ ReceiveFails(p, b, n) \/ ReceiveFromSlot(p, b, n)
        PROVE  SlotsInv'
    BY <1>4, ReceiveInv
  <1>5. ASSUME NEW b \in Boxes,
               \/ ReleaseIdle(p, b) \/ ReleaseStarts(p, b)
               \/ ReleaseSender(p, b) \/ ReleaseReceiver(p, b) \/ ReleaseEnds(p, b)
        PROVE  SlotsInv'
    BY <1>5, ReleaseIdleInv, ReleaseStartsInv, ReleaseWakesInv, ReleaseEndsInv
  <1>6. QED
    BY <1>1, <1>2, <1>3, <1>4, <1>5 DEF Step

LEMMA NextInv ==
  ASSUME SlotsInv, Careful, [Next]_vars
  PROVE  SlotsInv'
  <1>1. ASSUME vars' = vars PROVE SlotsInv'
    <2>1. TablesInv' /\ AllKept
      BY <1>1, TablesStay DEF SlotsInv, vars
    <2>2. UNCHANGED procVars /\ frame' = frame /\ intsOff' = intsOff /\ halted' = halted
      BY <1>1 DEF vars, procVars
    <2>3. QED
      BY <2>1, <2>2, StayingInv DEF SlotsInv, Standings
  <1>2. CASE \E p \in Procs : Step(p)
    BY <1>2, StepInv
  <1>3. CASE \E c \in Procs \cup {NULL} : Interrupt(c)
    BY <1>3, InterruptInv
  <1>4. CASE Sentinel
    BY <1>1, <1>4 DEF Sentinel
  <1>5. QED
    BY <1>1, <1>2, <1>3, <1>4 DEF Next

LEMMA InitInv ==
  ASSUME Init
  PROVE  SlotsInv
  <1>1. PICK made : made = Created(ZeroMailbox, 0, 0)
    OBVIOUS
  <1>2. /\ made \in Mailbox /\ made.status = "USED" /\ made.numSlots = 0 /\ made.slotsUsed = 0
        /\ made.slotList = <<>> /\ made.blockSendList = NULL /\ made.blockRecvList = NULL
    <2>1. made \in Mailbox /\ CreatedIs(ZeroMailbox, 0, 0, made)
      BY <1>1, ZeroIs, CreatedBox
    <2>2. QED
      BY <2>1, ZeroIs DEF CreatedIs, Blank
  <1>3. PICK zero : zero = ZeroMailbox
    OBVIOUS
  <1>4. zero \in Mailbox /\ zero.status = "EMPTY" /\ zero.slotList = <<>> /\ Blank(zero)
    BY <1>3, ZeroIs
  <1>5. MailBoxTable = [b \in Boxes |-> IF b \in DeviceBoxes THEN made ELSE zero]
    BY <1>1, <1>3 DEF Init
  <1>6. \A b \in Boxes : MailBoxTable[b] = IF b \in DeviceBoxes THEN made ELSE zero
    BY <1>5
  <1>7. Shape
    <2>1. MailBoxTable \in [Boxes -> Mailbox]
      BY <1>2, <1>4, <1>5
    <2>2. SlotTable \in [Slots -> MailSlot]
      <3>1. ZeroSlot \in MailSlot
        BY DEF ZeroSlot, MailSlot
      <3>2. QED
        BY <3>1 DEF Init
    <2>3. MboxProcTable \in [Procs -> MboxProc]
      <3>1. ZeroMboxProc \in MboxProc
        BY DEF ZeroMboxProc, MboxProc
      <3>2. QED
        BY <3>1 DEF Init
    <2>4. QED
      BY <2>1, <2>2, <2>3 DEF Shape, Init
  <1>8. BoxesGood
    <2>1. GoodBox(made)
      BY <1>2, EmptyList DEF GoodBox
    <2>2. GoodBox(zero)
      BY <1>4 DEF GoodBox
    <2>3. QED
      BY <1>6, <2>1, <2>2 DEF BoxesGood
  <1>9. ListsApart(SlotLists, SlotTable)
    <2>1. \A b \in Boxes : SlotLists[b] = <<>>
      BY <1>2, <1>4, <1>6 DEF SlotLists
    <2>2. \A i \in 1..Len(<<>>) : FALSE
      OBVIOUS
    <2>3. \A b \in Boxes : \A i \in 1..Len(SlotLists[b]) : FALSE
      BY <2>1, <2>2
    <2>4. QED
      BY <2>3 DEF ListsApart
  <1>10. DevicesUsed
    BY <1>2, <1>6, DevicesAreBoxes DEF DevicesUsed
  <1>11. Standings
    <2>1. 0 \in 0..(Ticks - 1)
      BY TableAssumption2
    <2>2. QED
      BY <2>1, UserIs DEF Init, Standings
  <1>12. FreeIsBlank
    <2>1. \A c : At("releasing", c) # InUser
      BY UserIs DEF At
    <2>2. \A b \in Boxes : ~Releasing(b)
      BY <2>1 DEF Init, Releasing
    <2>3. QED
      BY <1>2, <1>4, <1>6, <2>2 DEF FreeIsBlank
  <1>13. QED
    BY <1>7, <1>8, <1>9, <1>10, <1>11, <1>12 DEF SlotsInv, TablesInv

LEMMA SlotsInvAlways ==
  ASSUME Careful
  PROVE  Spec => []SlotsInv
  <1>1. Init => SlotsInv
    BY InitInv
  <1>2. SlotsInv /\ [Next]_vars => SlotsInv'
    BY NextInv
  <1>3. QED
    BY <1>1, <1>2, PTL DEF Spec

LEMMA InvTypeOK ==
  ASSUME SlotsInv
  PROVE  TypeOK
  <1>1. \A b \in Boxes : MailBoxTable[b].status = "USED" =>
           MailBoxTable[b].slotsUsed \in 0..MailBoxTable[b].numSlots
    BY DEF SlotsInv, TablesInv, BoxesGood, GoodBox
  <1>2. QED
    BY <1>1 DEF SlotsInv, TablesInv, Shape, Standings, TypeOK

LEMMA InvSlotsAccounted ==
  ASSUME SlotsInv
  PROVE  SlotsAccounted
  <1>1. TablesInv
    BY DEF SlotsInv
  <1>2. ASSUME NEW b \in Boxes
        PROVE  /\ MailBoxTable[b].slotList = SlotLists[b]
               /\ DOMAIN MailBoxTable[b].slotList = 1..Len(SlotLists[b])
               /\ MailBoxTable[b].status = "USED" => MailBoxTable[b].slotsUsed = Len(MailBoxTable[b].slotList)
    <2>1. MailBoxTable[b].slotList \in Seq(Slots) /\ MailBoxTable[b].slotList = SlotLists[b]
      BY <1>1, BoxFields, ListsAre DEF TablesInv
    <2>2. MailBoxTable[b].status = "USED" => MailBoxTable[b].slotsUsed = Len(MailBoxTable[b].slotList)
      BY <1>1 DEF TablesInv, BoxesGood, GoodBox
    <2>3. QED
      BY <2>1, <2>2
  <1>3. ASSUME NEW b \in Boxes, NEW c \in Boxes
        PROVE  /\ \A i \in 1..Len(SlotLists[b]) : SlotTable[SlotLists[b][i]].status = "USED"
               /\ \A i \in 1..Len(SlotLists[b]), j \in 1..Len(SlotLists[c]) :
                     SlotLists[b][i] = SlotLists[c][j] => b = c /\ i = j
    BY <1>1 DEF TablesInv, ListsApart
  <1>4. ASSUME NEW b \in Boxes, NEW c \in Boxes
        PROVE  /\ \A i \in DOMAIN MailBoxTable[b].slotList : SlotTable[MailBoxTable[b].slotList[i]].status = "USED"
               /\ \A i \in DOMAIN MailBoxTable[b].slotList, j \in DOMAIN MailBoxTable[c].slotList :
                     MailBoxTable[b].slotList[i] = MailBoxTable[c].slotList[j] => b = c /\ i = j
    <2>1. PICK mine, theirs : mine = SlotLists[b] /\ theirs = SlotLists[c]
      OBVIOUS
    <2>2. /\ MailBoxTable[b].slotList = mine /\ DOMAIN MailBoxTable[b].slotList = 1..Len(mine)
          /\ MailBoxTable[c].slotList = theirs /\ DOMAIN MailBoxTable[c].slotList = 1..Len(theirs)
      BY <1>2, <2>1
    <2>3. \A i \in 1..Len(mine) : SlotTable[mine[i]].status = "USED"
      BY <1>3, <2>1
    <2>4. \A i \in 1..Len(mine), j \in 1..Len(theirs) : mine[i] = theirs[j] => b = c /\ i = j
      BY <1>3, <2>1
    <2>5. QED
      BY <2>2, <2>3, <2>4
  <1>5. QED
    BY <1>2, <1>4, Zenon DEF SlotsAccounted

LEMMA InvNoNeedlessWait ==
  ASSUME SlotsInv
  PROVE  NoNeedlessWait
  BY DEF SlotsInv, TablesInv, BoxesGood, GoodBox, NoNeedlessWait

(* The tables keep their types, and a mailbox never counts more slots than *)
(* MboxCreate gave it, whatever programs call and devices interrupt.       *)
THEOREM BoxesTypeCorrect ==
  ASSUME Careful
  PROVE  Spec => []TypeOK
  <1>1. SlotsInv => TypeOK
    BY InvTypeOK
  <1>2. QED
    BY <1>1, SlotsInvAlways, PTL

(* getSlotIndex and addSlotToList keep the mailboxes apart: slotsUsed is   *)
(* the number of slots of a mailbox, each of them in use, and none on two  *)
(* lists or twice on one.                                                  *)
THEOREM SlotsAreAccounted ==
  ASSUME Careful
  PROVE  Spec => []SlotsAccounted
  <1>1. SlotsInv => SlotsAccounted
    BY InvSlotsAccounted
  <1>2. QED
    BY <1>1, SlotsInvAlways, PTL

(* In MboxSend, MboxReceive and their conditional forms nobody waits for   *)
(* what is there: no message or sender beside a receiver that waits, and   *)
(* no free slot of the mailbox beside a sender that waits.                 *)
THEOREM NobodyWaitsNeedlessly ==
  ASSUME Careful
  PROVE  Spec => []NoNeedlessWait
  <1>1. SlotsInv => NoNeedlessWait
    BY InvNoNeedlessWait
  <1>2. QED
    BY <1>1, SlotsInvAlways, PTL
-----------------------------------------------------------------------------
(* The lists of blocked processes, of both kinds.                          *)
Kinds == {"sendWait", "recvWait"}

HeadOf(k, b) ==
    IF k = "sendWait" THEN MailBoxTable[b].blockSendList ELSE MailBoxTable[b].blockRecvList
LinksOf(k) ==
    IF k = "sendWait" THEN [p \in Procs |-> MboxProcTable[p].nextBlockSend]
    ELSE [p \in Procs |-> MboxProcTable[p].nextBlockRecv]
ListOf(k, b) == Chain(HeadOf(k, b), LinksOf(k))
InWait(k, b) == {p \in blocked : frame[p] = At(k, b)}

(* The links of a list are a chain of processes that wait; of all of them, *)
(* unless a wake-up may have been lost because somebody was zapped.        *)
GoodList(q, h, links, waiters, all) ==
    /\ q \in Seq(Procs) /\ IsChain(q, h, links, NULL)
    /\ Elements(q) \subseteq waiters
    /\ all => waiters \subseteq Elements(q)

NoneZapped == zapped = {}

ListsGood ==
    \A k \in Kinds, b \in Boxes :
        GoodList(ListOf(k, b), HeadOf(k, b), LinksOf(k), InWait(k, b), NoneZapped)

(* The walk along the links of a chain is the chain.                       *)
LEMMA ChainIs ==
  ASSUME NEW q \in Seq(Procs), NEW h, NEW links, IsChain(q, h, links, NULL)
  PROVE  Chain(h, links) = q /\ ~IsCircular(q)
  <1>1. PICK n : n = Cardinality(Procs)
    OBVIOUS
  <1>2. n \in Nat /\ NULL \notin Procs
    BY <1>1, TableAssumption2, FS_CardinalityType
  <1>3. Len(q) \in Nat /\ Len(q) <= n
    BY <1>1, TableAssumption2, ChainFits DEF IsChain
  <1>4. PICK w : w = WalkAlong(q, n, NULL)
    OBVIOUS
  <1>5. (CHOOSE v : IsWalk(v, n, h, links, NULL)) = w
    BY <1>2, <1>4, ChosenWalk
  <1>6. /\ DOMAIN w = 0..n
        /\ \A k \in 0..n : w[k] = IF k < Len(q) THEN q[k + 1] ELSE NULL
    BY <1>4 DEF WalkAlong
  <1>7. PICK last : last = {k \in 0..n : w[k] # NULL}
    OBVIOUS
  <1>8. Chain(h, links) = IF h = NULL THEN <<>> ELSE [i \in 1..Cardinality(last) |-> w[i - 1]]
    <2>1. PICK c : c = CHOOSE v : IsWalk(v, n, h, links, NULL)
      OBVIOUS
    <2>2. Chain(h, links) = IF h = NULL THEN <<>>
             ELSE [i \in 1..Cardinality({k \in 0..n : c[k] # NULL}) |-> c[i - 1]]
      BY <1>1, <2>1 DEF Chain, IsWalk
    <2>3. QED
      BY <1>5, <1>7, <2>1, <2>2
  <1>9. \A i \in 1..Len(q) : q[i] \in Procs /\ q[i] # NULL
    BY <1>2, ElementsOf
  <1>10. CASE Len(q) = 0
    <2>1. h = NULL /\ q = <<>>
      BY <1>10, EmptySeq DEF IsChain
    <2>2. Chain(h, links) = q
      BY <1>8, <2>1
    <2>3. ~(Len(q) > n)
      BY <1>2, <1>10
    <2>4. QED
      BY <1>1, <2>2, <2>3 DEF IsCircular
  <1>11. CASE Len(q) # 0
    <2>1. h # NULL
      <3>1. 1 \in 1..Len(q) /\ h = q[1]
        BY <1>3, <1>11 DEF IsChain
      <3>2. QED
        BY <1>9, <3>1
    <2>2. last = 0..(Len(q) - 1)
      <3>1. ASSUME NEW k \in 0..n PROVE w[k] # NULL <=> k \in 0..(Len(q) - 1)
        <4>1. CASE k < Len(q)
          <5>1. k + 1 \in 1..Len(q) /\ k \in 0..(Len(q) - 1)
            BY <1>3, <4>1
          <5>2. QED
            BY <1>6, <1>9, <4>1, <5>1
        <4>2. CASE ~(k < Len(q))
          BY <1>3, <1>6, <4>2
        <4>3. QED
          BY <4>1, <4>2
      <3>2. 0..(Len(q) - 1) \subseteq 0..n
        BY <1>2, <1>3
      <3>3. QED
        BY <1>7, <3>1, <3>2
    <2>3. Cardinality(last) = Len(q)
      <3>1. Cardinality(0..(Len(q) - 1)) = (Len(q) - 1) - 0 + 1
        BY <1>3, <1>11, FS_Interval
      <3>2. QED
        BY <1>3, <2>2, <3>1
    <2>4. \A i \in 1..Len(q) : w[i - 1] = q[i]
      <3>1. ASSUME NEW i \in 1..Len(q) PROVE w[i - 1] = q[i]
        <4>1. i - 1 \in 0..n /\ i - 1 < Len(q) /\ (i - 1) + 1 = i
          BY <1>2, <1>3
        <4>2. QED
          BY <1>6, <4>1
      <3>2. QED
        BY <3>1
    <2>5. q = [i \in 1..Len(q) |-> q[i]]
      OBVIOUS
    <2>6. Chain(h, links) = [i \in 1..Len(q) |-> w[i - 1]]
      BY <1>8, <2>1, <2>3
    <2>7. Chain(h, links) = q
      BY <2>4, <2>5, <2>6
    <2>8. QED
      BY <1>1, <1>2, <1>3, <2>7 DEF IsCircular
  <1>12. QED
    BY <1>10, <1>11

LEMMA GoodListIs ==
  ASSUME NEW q, NEW h, NEW links, NEW waiters, NEW all, GoodList(q, h, links, waiters, all)
  PROVE  /\ q \in Seq(Procs) /\ Chain(h, links) = q /\ ~IsCircular(q)
         /\ (h = NULL <=> q = <<>>) /\ (h = NULL <=> Len(q) = 0) /\ Len(q) \in Nat
         /\ q # <<>> => h = Head(q) /\ h \in Elements(q)
  <1>1. q \in Seq(Procs) /\ IsChain(q, h, links, NULL)
    BY DEF GoodList
  <1>2. Chain(h, links) = q /\ ~IsCircular(q)
    BY <1>1, ChainIs
  <1>3. Len(q) \in Nat /\ (q = <<>> <=> Len(q) = 0)
    BY <1>1, LenProperties, EmptySeq
  <1>4. ASSUME Len(q) # 0 PROVE h \in Procs /\ h # NULL /\ h = Head(q) /\ h \in Elements(q)
    <2>1. 1 \in 1..Len(q) /\ h = q[1]
      BY <1>1, <1>3, <1>4 DEF IsChain
    <2>2. h \in Procs /\ h \in Elements(q)
      BY <1>1, <2>1, ElementsOf
    <2>3. Head(q) = q[1]
      BY <1>1, <1>3, <1>4, HeadTailProperties
    <2>4. QED
      BY <2>1, <2>2, <2>3, TableAssumption2
  <1>5. Len(q) = 0 => h = NULL
    BY <1>1 DEF IsChain
  <1>6. QED
    BY <1>1, <1>2, <1>3, <1>4, <1>5

(* What becomes of a good list: others' links change, the first is taken   *)
(* off, or one is put behind the last.                                     *)
LEMMA GoodListSame ==
  ASSUME NEW q, NEW h, NEW links, NEW waiters, NEW all, GoodList(q, h, links, waiters, all),
         NEW links2, \A x \in waiters : links2[x] = links[x]
  PROVE  GoodList(q, h, links2, waiters, all)
  <1>1. q \in Seq(Procs) /\ IsChain(q, h, links, NULL)
    BY DEF GoodList
  <1>2. \A i \in 1..Len(q) : links2[q[i]] = links[q[i]]
    BY <1>1, ElementsOf DEF GoodList
  <1>3. IsChain(q, h, links2, NULL)
    BY <1>1, <1>2, ChainOfSameLinks
  <1>4. QED
    BY <1>3 DEF GoodList

LEMMA GoodListTail ==
  ASSUME NEW q, NEW h, NEW links, NEW waiters, NEW all, GoodList(q, h, links, waiters, all),
         h # NULL, NEW rest, rest \subseteq waiters, waiters \ {h} \subseteq rest, all => h \notin rest
  PROVE  GoodList(Tail(q), links[h], links, rest, all)
  <1>1. q \in Seq(Procs) /\ IsChain(q, h, links, NULL) /\ Len(q) # 0 /\ Elements(q) \subseteq waiters
    <2>1. Len(q) # 0
      BY GoodListIs
    <2>2. QED
      BY <2>1 DEF GoodList
  <1>2. /\ Tail(q) \in Seq(Procs) /\ IsChain(Tail(q), links[h], links, NULL)
        /\ Elements(Tail(q)) = Elements(q) \ {h}
    BY <1>1, ChainLosesHead
  <1>3. Elements(Tail(q)) \subseteq rest
    BY <1>1, <1>2
  <1>4. ASSUME all PROVE rest \subseteq Elements(Tail(q))
    <2>1. rest \subseteq waiters \ {h} /\ waiters \subseteq Elements(q)
      BY <1>4 DEF GoodList
    <2>2. QED
      BY <1>2, <2>1
  <1>5. QED
    BY <1>2, <1>3, <1>4 DEF GoodList

LEMMA InsertedLast ==
  ASSUME NEW S, NEW q \in Seq(S), Len(q) # 0, NEW p \in S
  PROVE  Inserted(q, Len(q), p) = Append(q, p)
  <1>1. PICK r, a : r = Inserted(q, Len(q), p) /\ a = Append(q, p)
    OBVIOUS
  <1>2. Len(q) \in Nat /\ Len(q) \in 1..Len(q)
    BY LenProperties
  <1>3. r \in Seq(S) /\ Len(r) = Len(q) + 1
    BY <1>1, <1>2, InsertedIs
  <1>4. /\ a \in Seq(S) /\ Len(a) = Len(q) + 1 /\ a[Len(q) + 1] = p
        /\ \A i \in 1..Len(q) : a[i] = q[i]
    BY <1>1, AppendProperties
  <1>5. \A i \in 1..Len(q) + 1 :
           r[i] = IF i <= Len(q) THEN q[i] ELSE IF i = Len(q) + 1 THEN p ELSE q[i - 1]
    BY <1>1 DEF Inserted
  <1>6. \A i \in 1..Len(q) + 1 : r[i] = a[i]
    <2>1. ASSUME NEW i \in 1..Len(q) + 1 PROVE r[i] = a[i]
      <3>1. CASE i <= Len(q)
        BY <1>2, <1>4, <1>5, <3>1
      <3>2. CASE i = Len(q) + 1
        BY <1>2, <1>4, <1>5, <3>2
      <3>3. QED
        BY <1>2, <3>1, <3>2
    <2>2. QED
      BY <2>1
  <1>7. r = a
    BY <1>3, <1>4, <1>6, SeqEqual
  <1>8. QED
    BY <1>1, <1>7

LEMMA GoodListGrows ==
  ASSUME NEW q, NEW h, NEW links, NEW waiters, NEW all, GoodList(q, h, links, waiters, all),
         NEW p \in Procs \ waiters, links \in [Procs -> Procs \cup {NULL}], links[p] = NULL
  PROVE  /\ q = <<>> => GoodList(Append(q, p), p, links, waiters \cup {p}, all)
         /\ q # <<>> => GoodList(Append(q, p), h, [links EXCEPT ![Last(q)] = p], waiters \cup {p}, all)
  <1>1. q \in Seq(Procs) /\ IsChain(q, h, links, NULL) /\ Elements(q) \subseteq waiters /\ Len(q) \in Nat
    BY GoodListIs DEF GoodList
  <1>2. ASSUME q = <<>> PROVE GoodList(Append(q, p), p, links, waiters \cup {p}, all)
    <2>1. <<p>> \in Seq(Procs) /\ IsChain(<<p>>, p, links, NULL) /\ Elements(<<p>>) = {p}
      BY ChainBegins
    <2>2. Append(q, p) = <<p>>
      BY <1>2
    <2>3. Elements(q) = {}
      BY <1>2, EmptyList DEF Elements
    <2>4. all => waiters = {}
      BY <2>3 DEF GoodList
    <2>5. QED
      BY <2>1, <2>2, <2>4 DEF GoodList
  <1>3. ASSUME q # <<>> PROVE GoodList(Append(q, p), h, [links EXCEPT ![Last(q)] = p], waiters \cup {p}, all)
    <2>1. PICK n, links2 : n = Len(q) /\ links2 = [links EXCEPT ![Last(q)] = p]
      OBVIOUS
    <2>2. n \in Nat /\ n # 0 /\ n \in 1..n
      BY <1>1, <1>3, <2>1, EmptySeq
    <2>3. Last(q) = q[n] /\ q[n] \in Procs
      BY <1>1, <2>1, <2>2, ElementsOf DEF Last
    <2>4. links2[q[n]] = p /\ \A x \in Procs : x # q[n] => links2[x] = links[x]
      BY <2>1, <2>3
    <2>5. links[q[n]] = NULL /\ p \notin Elements(q)
      BY <1>1, <2>1, <2>2 DEF IsChain
    <2>6. \A i \in 1..n : i # n => q[i] # q[n] /\ q[i] \in Procs
      BY <1>1, <2>1, <2>2, ElementsOf DEF IsChain
    <2>7. p # q[n]
      BY <1>1, <2>1, <2>2, <2>5, ElementsOf
    <2>8. PutBehind(q, n, p, links, links2)
      BY <2>1, <2>4, <2>5, <2>6, <2>7 DEF PutBehind
    <2>9. Inserted(q, n, p) \in Seq(Procs) /\ IsChain(Inserted(q, n, p), h, links2, NULL)
      BY <1>1, <2>1, <2>2, <2>5, <2>8, ChainGrows
    <2>10. Elements(Inserted(q, n, p)) = Elements(q) \cup {p}
      BY <1>1, <2>1, <2>2, GrownElements
    <2>11. Inserted(q, n, p) = Append(q, p)
      BY <1>1, <2>1, <2>2, InsertedLast
    <2>12. all => waiters \subseteq Elements(q)
      BY DEF GoodList
    <2>13. QED
      BY <1>1, <2>1, <2>9, <2>10, <2>11, <2>12 DEF GoodList
  <1>4. QED
    BY <1>2, <1>3
-----------------------------------------------------------------------------
(* What a step does to the lists.                                          *)

LEMMA ListsGoodOf ==
  ASSUME ListsGood, NEW k \in Kinds, NEW b \in Boxes
  PROVE  /\ GoodList(ListOf(k, b), HeadOf(k, b), LinksOf(k), InWait(k, b), NoneZapped)
         /\ ListOf(k, b) \in Seq(Procs) /\ ~IsCircular(ListOf(k, b))
         /\ (HeadOf(k, b) = NULL <=> ListOf(k, b) = <<>>)
         /\ HeadOf(k, b) # NULL => HeadOf(k, b) = Head(ListOf(k, b)) /\ HeadOf(k, b) \in InWait(k, b)
  <1>1. GoodList(ListOf(k, b), HeadOf(k, b), LinksOf(k), InWait(k, b), NoneZapped)
    BY DEF ListsGood
  <1>2. PICK q, h, W : q = ListOf(k, b) /\ h = HeadOf(k, b) /\ W = InWait(k, b)
    OBVIOUS
  <1>3. /\ q \in Seq(Procs) /\ ~IsCircular(q) /\ (h = NULL <=> q = <<>>)
        /\ q # <<>> => h = Head(q) /\ h \in Elements(q)
    BY <1>1, <1>2, GoodListIs
  <1>4. Elements(q) \subseteq W
    BY <1>1, <1>2 DEF GoodList
  <1>5. QED
    BY <1>1, <1>2, <1>3, <1>4

BecomesList(k, b, q) ==
    ListOf(k, b)' = q /\ GoodList(ListOf(k, b), HeadOf(k, b), LinksOf(k), InWait(k, b), NoneZapped)'

LEMMA ListBecomes ==
  ASSUME NEW k, NEW b, NEW q, GoodList(q, HeadOf(k, b)', LinksOf(k)', InWait(k, b)', NoneZapped')
  PROVE  BecomesList(k, b, q)
  <1>1. Chain(HeadOf(k, b)', LinksOf(k)') = q
    BY GoodListIs
  <1>2. ListOf(k, b)' = q
    BY <1>1 DEF ListOf
  <1>3. QED
    BY <1>2 DEF BecomesList

LEMMA AllBecome ==
  ASSUME \A k \in Kinds, b \in Boxes : \E q : BecomesList(k, b, q)
  PROVE  ListsGood'
  BY DEF BecomesList, ListsGood

(* Those who wait stay where they are.                                     *)
WaitersStay == \A x \in blocked : frame'[x] = frame[x]
ZappedStay == zapped \subseteq zapped'
HeadsStay == \A k \in Kinds, b \in Boxes : HeadOf(k, b)' = HeadOf(k, b)
LinksStay == \A k \in Kinds : LinksOf(k)' = LinksOf(k)
ListsStay == \A k \in Kinds, b \in Boxes : ListOf(k, b)' = ListOf(k, b)

LEMMA ListsSame ==
  ASSUME ListsGood, HeadsStay, LinksStay, blocked' = blocked, WaitersStay, ZappedStay
  PROVE  ListsGood' /\ ListsStay
  <1>1. ASSUME NEW k \in Kinds, NEW b \in Boxes PROVE BecomesList(k, b, ListOf(k, b))
    <2>1. PICK q : q = ListOf(k, b)
      OBVIOUS
    <2>2. GoodList(q, HeadOf(k, b), LinksOf(k), InWait(k, b), NoneZapped)
      BY <2>1, ListsGoodOf
    <2>3. InWait(k, b)' = InWait(k, b)
      BY DEF InWait, WaitersStay
    <2>4. NoneZapped' => NoneZapped
      BY DEF NoneZapped, ZappedStay
    <2>5. HeadOf(k, b)' = HeadOf(k, b) /\ LinksOf(k)' = LinksOf(k)
      BY DEF HeadsStay, LinksStay
    <2>6. GoodList(q, HeadOf(k, b)', LinksOf(k)', InWait(k, b)', NoneZapped')
      BY <2>2, <2>3, <2>4, <2>5 DEF GoodList
    <2>7. QED
      BY <2>1, <2>6, ListBecomes
  <1>2. ListsStay
    BY <1>1 DEF BecomesList, ListsStay
  <1>3. QED
    BY <1>1, <1>2, AllBecome

OthersStay(k, b) ==
    \A j \in Kinds, c \in Boxes : <<j, c>> # <<k, b>> => ListOf(j, c)' = ListOf(j, c)

(* The first of a list is taken off and woken, if wake-ups are not lost.   *)
TakesFirst(k, b) ==
    /\ HeadOf(k, b) # NULL /\ HeadOf(k, b)' = LinksOf(k)[HeadOf(k, b)]
    /\ \A j \in Kinds, c \in Boxes : <<j, c>> # <<k, b>> => HeadOf(j, c)' = HeadOf(j, c)
    /\ LinksStay /\ WaitersStay /\ zapped' = zapped
    /\ blocked' \subseteq blocked /\ blocked \ {HeadOf(k, b)} \subseteq blocked'
    /\ NoneZapped => HeadOf(k, b) \notin blocked'

LEMMA AtIs ==
  ASSUME NEW k, NEW b, NEW j, NEW c
  PROVE  At(k, b) = At(j, c) <=> k = j /\ b = c
  BY DEF At

LEMMA ListsLoseFirst ==
  ASSUME ListsGood, NEW k \in Kinds, NEW b \in Boxes, TakesFirst(k, b)
  PROVE  /\ ListsGood' /\ OthersStay(k, b)
         /\ ListOf(k, b)' = Tail(ListOf(k, b))
         /\ ListOf(k, b) # <<>> /\ Head(ListOf(k, b)) = HeadOf(k, b)
  <1>1. PICK q, h : q = ListOf(k, b) /\ h = HeadOf(k, b)
    OBVIOUS
  <1>2. /\ GoodList(q, h, LinksOf(k), InWait(k, b), NoneZapped)
        /\ h # NULL /\ q # <<>> /\ h = Head(q) /\ h \in InWait(k, b)
    BY <1>1, ListsGoodOf DEF TakesFirst
  <1>3. /\ HeadOf(k, b)' = LinksOf(k)[h] /\ LinksOf(k)' = LinksOf(k) /\ NoneZapped' = NoneZapped
        /\ blocked' \subseteq blocked /\ blocked \ {h} \subseteq blocked'
        /\ NoneZapped => h \notin blocked'
        /\ \A x \in blocked : frame'[x] = frame[x]
    BY <1>1 DEF TakesFirst, LinksStay, NoneZapped, WaitersStay
  <1>4. BecomesList(k, b, Tail(q))
    <2>1. PICK rest : rest = InWait(k, b)'
      OBVIOUS
    <2>2. rest \subseteq InWait(k, b) /\ InWait(k, b) \ {h} \subseteq rest /\ (NoneZapped => h \notin rest)
      BY <1>3, <2>1 DEF InWait
    <2>3. GoodList(Tail(q), LinksOf(k)[h], LinksOf(k), rest, NoneZapped)
      BY <1>2, <2>2, GoodListTail
    <2>4. GoodList(Tail(q), HeadOf(k, b)', LinksOf(k)', InWait(k, b)', NoneZapped')
      BY <1>3, <2>1, <2>3
    <2>5. QED
      BY <2>4, ListBecomes
  <1>5. ASSUME NEW j \in Kinds, NEW c \in Boxes, <<j, c>> # <<k, b>>
        PROVE  BecomesList(j, c, ListOf(j, c))
    <2>1. GoodList(ListOf(j, c), HeadOf(j, c), LinksOf(j), InWait(j, c), NoneZapped)
      BY ListsGoodOf
    <2>2. InWait(j, c)' = InWait(j, c)
      <3>1. h \notin InWait(j, c)
        BY <1>2, <1>5, AtIs DEF InWait
      <3>2. QED
        BY <1>3, <3>1 DEF InWait
    <2>3. HeadOf(j, c)' = HeadOf(j, c) /\ LinksOf(j)' = LinksOf(j)
      BY <1>5 DEF TakesFirst, LinksStay
    <2>4. GoodList(ListOf(j, c), HeadOf(j, c)', LinksOf(j)', InWait(j, c)', NoneZapped')
      BY <1>3, <2>1, <2>2, <2>3
    <2>5. QED
      BY <2>4, ListBecomes
  <1>6. ListsGood'
    BY <1>4, <1>5, AllBecome
  <1>7. OthersStay(k, b)
    BY <1>5 DEF BecomesList, OthersStay
  <1>8. QED
    BY <1>1, <1>2, <1>4, <1>6, <1>7 DEF BecomesList

(* The process that runs is put behind the last of a list and blocks.      *)
PutLast(k, b, p) ==
    /\ LinksOf(k)[p] = NULL
    /\ blocked' = blocked \cup {p} /\ frame' = [frame EXCEPT ![p] = At(k, b)] /\ zapped' = zapped
    /\ \A j \in Kinds, c \in Boxes : <<j, c>> # <<k, b>> => HeadOf(j, c)' = HeadOf(j, c)
    /\ \A j \in Kinds : j # k => LinksOf(j)' = LinksOf(j)
    /\ \/ ListOf(k, b) = <<>> /\ HeadOf(k, b)' = p /\ LinksOf(k)' = LinksOf(k)
       \/ /\ ListOf(k, b) # <<>> /\ HeadOf(k, b)' = HeadOf(k, b)
          /\ LinksOf(k)' = [LinksOf(k) EXCEPT ![Last(ListOf(k, b))] = p]

LEMMA LinksType ==
  ASSUME Shape, NEW k \in Kinds
  PROVE  LinksOf(k) \in [Procs -> Procs \cup {NULL}]
  <1>1. MboxProcTable \in [Procs -> MboxProc]
    BY DEF Shape
  <1>2. QED
    BY <1>1, EntryFields DEF LinksOf

LEMMA ListsGainLast ==
  ASSUME ListsGood, Shape, frame \in [Procs -> Frames], NEW k \in Kinds, NEW b \in Boxes,
         NEW p \in Procs, p \notin blocked, PutLast(k, b, p)
  PROVE  ListsGood' /\ OthersStay(k, b) /\ ListOf(k, b)' = Append(ListOf(k, b), p)
  <1>1. PICK q, h, links, W : /\ q = ListOf(k, b) /\ h = HeadOf(k, b) /\ links = LinksOf(k)
                              /\ W = InWait(k, b)
    OBVIOUS
  <1>2. GoodList(q, h, links, W, NoneZapped) /\ q \in Seq(Procs) /\ W \subseteq Procs
    BY <1>1, ListsGoodOf DEF InWait, Shape
  <1>3. links \in [Procs -> Procs \cup {NULL}] /\ links[p] = NULL /\ p \in Procs \ W
    BY <1>1, LinksType DEF PutLast, InWait
  <1>4. /\ NoneZapped' = NoneZapped /\ blocked' = blocked \cup {p}
        /\ \A x \in Procs : frame'[x] = IF x = p THEN At(k, b) ELSE frame[x]
        /\ blocked \subseteq Procs
    BY DEF PutLast, NoneZapped, Shape
  <1>5. InWait(k, b)' = W \cup {p}
    BY <1>1, <1>4 DEF InWait
  <1>6. \/ q = <<>> /\ HeadOf(k, b)' = p /\ LinksOf(k)' = links
        \/ q # <<>> /\ HeadOf(k, b)' = h /\ LinksOf(k)' = [links EXCEPT ![Last(q)] = p]
    BY <1>1 DEF PutLast
  <1>7. BecomesList(k, b, Append(q, p))
    <2>1. GoodList(Append(q, p), HeadOf(k, b)', LinksOf(k)', InWait(k, b)', NoneZapped')
      <3>1. CASE q = <<>> /\ HeadOf(k, b)' = p /\ LinksOf(k)' = links
        <4>1. GoodList(Append(q, p), p, links, W \cup {p}, NoneZapped)
          BY <1>2, <1>3, <3>1, GoodListGrows
        <4>2. QED
          BY <1>4, <1>5, <3>1, <4>1
      <3>2. CASE q # <<>> /\ HeadOf(k, b)' = h /\ LinksOf(k)' = [links EXCEPT ![Last(q)] = p]
        <4>1. GoodList(Append(q, p), h, [links EXCEPT ![Last(q)] = p], W \cup {p}, NoneZapped)
          BY <1>2, <1>3, <3>2, GoodListGrows
        <4>2. QED
          BY <1>4, <1>5, <3>2, <4>1
      <3>3. QED
        BY <1>6, <3>1, <3>2
    <2>2. QED
      BY <2>1, ListBecomes
  <1>8. \A x \in Procs : x \notin W => LinksOf(k)'[x] = links[x]
    <2>1. q # <<>> => Last(q) \in W
      <3>1. ASSUME q # <<>> PROVE Last(q) \in Elements(q)
        <4>1. Len(q) \in Nat /\ Len(q) # 0 /\ Len(q) \in 1..Len(q)
          BY <1>2, <3>1, LenProperties, EmptySeq
        <4>2. QED
          BY <1>2, <4>1, ElementsOf DEF Last
      <3>2. QED
        BY <1>2, <3>1 DEF GoodList
    <2>2. QED
      BY <1>3, <1>6, <2>1
  <1>9. ASSUME NEW j \in Kinds, NEW c \in Boxes, <<j, c>> # <<k, b>>
        PROVE  BecomesList(j, c, ListOf(j, c))
    <2>1. PICK V : V = InWait(j, c)
      OBVIOUS
    <2>2. GoodList(ListOf(j, c), HeadOf(j, c), LinksOf(j), V, NoneZapped) /\ V \subseteq Procs
      BY <2>1, ListsGoodOf DEF InWait, Shape
    <2>3. InWait(j, c)' = V
      BY <1>4, <1>9, <2>1, AtIs DEF InWait
    <2>4. \A x \in V : LinksOf(j)'[x] = LinksOf(j)[x]
      <3>1. CASE j = k
        <4>1. \A x \in V : x \notin W
          BY <1>1, <1>9, <2>1, AtIs DEF InWait
        <4>2. QED
          BY <1>1, <1>8, <2>2, <3>1, <4>1
      <3>2. CASE j # k
        BY <3>2 DEF PutLast
      <3>3. QED
        BY <3>1, <3>2
    <2>5. HeadOf(j, c)' = HeadOf(j, c)
      BY <1>9 DEF PutLast
    <2>6. GoodList(ListOf(j, c), HeadOf(j, c), LinksOf(j)', V, NoneZapped)
      BY <2>2, <2>4, GoodListSame
    <2>7. GoodList(ListOf(j, c), HeadOf(j, c)', LinksOf(j)', InWait(j, c)', NoneZapped')
      BY <1>4, <2>3, <2>5, <2>6
    <2>8. QED
      BY <2>7, ListBecomes
  <1>10. ListsGood'
    BY <1>7, <1>9, AllBecome
  <1>11. OthersStay(k, b)
    BY <1>9 DEF BecomesList, OthersStay
  <1>12. QED
    BY <1>1, <1>7, <1>10, <1>11 DEF BecomesList
-----------------------------------------------------------------------------
(* What becomes of the links, and of the messages of those who wait.       *)
SameLinks(T, U) ==
    \A q \in Procs : /\ U[q].nextBlockSend = T[q].nextBlockSend
                     /\ U[q].nextBlockRecv = T[q].nextBlockRecv

SameMessages(T, U) == \A q \in blocked : U[q].message = T[q].message

LEMMA EntryKeeps ==
  ASSUME NEW T \in [Procs -> MboxProc], NEW p, NEW v
  PROVE  /\ SameLinks(T, StatusSet(T, p, v)) /\ SameLinks(T, MessageSet(T, p, v))
         /\ SameLinks(T, SizeSet(T, p, v)) /\ SameLinks(T, ReleasedSet(T, p))
         /\ \A q \in Procs :
               /\ StatusSet(T, p, v)[q].message = T[q].message
               /\ q # p => MessageSet(T, p, v)[q].message = T[q].message
               /\ SizeSet(T, p, v)[q].message = T[q].message
               /\ ReleasedSet(T, p)[q].message = T[q].message
               /\ SendSet(T, p, v)[q].message = T[q].message
               /\ RecvSet(T, p, v)[q].message = T[q].message
  <1>1. /\ SameLinks(T, StatusSet(T, p, v))
        /\ \A q \in Procs : StatusSet(T, p, v)[q].message = T[q].message
    BY DEF StatusSet, SameLinks, MboxProc
  <1>2. /\ SameLinks(T, MessageSet(T, p, v))
        /\ \A q \in Procs : q # p => MessageSet(T, p, v)[q].message = T[q].message
    BY DEF MessageSet, SameLinks, MboxProc
  <1>3. /\ SameLinks(T, SizeSet(T, p, v))
        /\ \A q \in Procs : SizeSet(T, p, v)[q].message = T[q].message
    BY DEF SizeSet, SameLinks, MboxProc
  <1>4. /\ SameLinks(T, ReleasedSet(T, p))
        /\ \A q \in Procs : ReleasedSet(T, p)[q].message = T[q].message
    BY DEF ReleasedSet, SameLinks, MboxProc
  <1>5. /\ \A q \in Procs : SendSet(T, p, v)[q].message = T[q].message
        /\ \A q \in Procs : RecvSet(T, p, v)[q].message = T[q].message
    BY DEF SendSet, RecvSet, MboxProc
  <1>6. QED
    BY <1>1, <1>2, <1>3, <1>4, <1>5

LEMMA LinksAre ==
  ASSUME NEW q \in Procs
  PROVE  /\ LinksOf("sendWait")[q] = MboxProcTable[q].nextBlockSend
         /\ LinksOf("recvWait")[q] = MboxProcTable[q].nextBlockRecv
  BY DEF LinksOf

LEMMA SameLinksStay ==
  ASSUME SameLinks(MboxProcTable, MboxProcTable')
  PROVE  LinksStay
  BY DEF SameLinks, LinksStay, LinksOf

(* A call writes into the entry of the process that runs.                  *)
LEMMA EnteredKeeps ==
  ASSUME Shape, NEW p \in Procs \cup {NULL}, p \notin blocked,
         NEW x \in Messages \cup {NULL}, NEW n \in Int, NEW pt, pt = Entered(p, x, n)
  PROVE  /\ pt \in [Procs -> MboxProc]
         /\ SameLinks(MboxProcTable, pt) /\ SameMessages(MboxProcTable, pt)
         /\ p \in Procs => pt[p].message = x
  <1>1. PICK M : M = MboxProcTable
    OBVIOUS
  <1>2. M \in [Procs -> MboxProc] /\ blocked \subseteq Procs /\ NULL \notin Procs
    BY <1>1, TableAssumption2 DEF Shape
  <1>3. PICK T : T = StatusSet(M, p, "ACTIVE")
    OBVIOUS
  <1>4. PICK U : U = MessageSet(T, p, x)
    OBVIOUS
  <1>5. PICK V : V = SizeSet(U, p, n)
    OBVIOUS
  <1>6. T \in [Procs -> MboxProc]
    BY <1>2, <1>3, EntrySet
  <1>7. U \in [Procs -> MboxProc]
    BY <1>4, <1>6, EntrySet
  <1>8. V \in [Procs -> MboxProc]
    BY <1>5, <1>7, EntrySet
  <1>9. SameLinks(M, T) /\ \A q \in Procs : T[q].message = M[q].message
    BY <1>2, <1>3, EntryKeeps
  <1>10. SameLinks(T, U) /\ \A q \in Procs : q # p => U[q].message = T[q].message
    BY <1>4, <1>6, EntryKeeps
  <1>11. SameLinks(U, V) /\ \A q \in Procs : V[q].message = U[q].message
    BY <1>5, <1>7, EntryKeeps
  <1>12. p \in Procs => U[p].message = x
    BY <1>4, <1>6 DEF MessageSet, MboxProc
  <1>13. SameLinks(M, V) /\ SameMessages(M, V)
    <2>1. SameLinks(M, V)
      BY <1>9, <1>10, <1>11 DEF SameLinks
    <2>2. SameMessages(M, V)
      BY <1>2, <1>9, <1>10, <1>11 DEF SameMessages
    <2>3. QED
      BY <2>1, <2>2
  <1>14. CASE p = NULL
    <2>1. pt = M
      BY <1>1, <1>14 DEF Entered
    <2>2. SameLinks(M, M) /\ SameMessages(M, M)
      BY DEF SameLinks, SameMessages
    <2>3. QED
      BY <1>1, <1>2, <1>14, <2>1, <2>2
  <1>15. CASE p # NULL
    <2>1. pt = V
      BY <1>1, <1>3, <1>4, <1>5, <1>15 DEF Entered, StatusSet, MessageSet, SizeSet
    <2>2. p \in Procs => V[p].message = x
      BY <1>11, <1>12
    <2>3. QED
      BY <1>1, <1>8, <1>13, <2>1, <2>2
  <1>16. QED
    BY <1>14, <1>15

OtherHeadsStay(k, b) ==
    \A j \in Kinds, c \in Boxes : <<j, c>> # <<k, b>> => HeadOf(j, c)' = HeadOf(j, c)

LEMMA SenderHeadSet ==
  ASSUME Shape, NEW b \in Boxes, NEW v, MailBoxTable' = [MailBoxTable EXCEPT ![b].blockSendList = v]
  PROVE  /\ HeadOf("sendWait", b)' = v /\ OtherHeadsStay("sendWait", b)
         /\ \A c \in Boxes : /\ MailBoxTable'[c].status = MailBoxTable[c].status
                             /\ MailBoxTable'[c].slotList = MailBoxTable[c].slotList
  <1>1. MailBoxTable \in [Boxes -> Mailbox]
    BY DEF Shape
  <1>2. \A c \in Boxes : /\ MailBoxTable'[c].blockSendList = IF c = b THEN v ELSE MailBoxTable[c].blockSendList
                         /\ MailBoxTable'[c].blockRecvList = MailBoxTable[c].blockRecvList
                         /\ MailBoxTable'[c].status = MailBoxTable[c].status
                         /\ MailBoxTable'[c].slotList = MailBoxTable[c].slotList
    BY <1>1 DEF Mailbox
  <1>3. QED
    BY <1>2 DEF HeadOf, OtherHeadsStay, Kinds

LEMMA ReceiverHeadSet ==
  ASSUME Shape, NEW b \in Boxes, NEW v, MailBoxTable' = [MailBoxTable EXCEPT ![b].blockRecvList = v]
  PROVE  /\ HeadOf("recvWait", b)' = v /\ OtherHeadsStay("recvWait", b)
         /\ \A c \in Boxes : /\ MailBoxTable'[c].status = MailBoxTable[c].status
                             /\ MailBoxTable'[c].slotList = MailBoxTable[c].slotList
  <1>1. MailBoxTable \in [Boxes -> Mailbox]
    BY DEF Shape
  <1>2. \A c \in Boxes : /\ MailBoxTable'[c].blockRecvList = IF c = b THEN v ELSE MailBoxTable[c].blockRecvList
                         /\ MailBoxTable'[c].blockSendList = MailBoxTable[c].blockSendList
                         /\ MailBoxTable'[c].status = MailBoxTable[c].status
                         /\ MailBoxTable'[c].slotList = MailBoxTable[c].slotList
    BY <1>1 DEF Mailbox
  <1>3. QED
    BY <1>2 DEF HeadOf, OtherHeadsStay, Kinds

LEMMA FirstLeaves ==
  ASSUME ListsGood, NEW k \in Kinds, NEW b \in Boxes, NEW p, HeadOf(k, b) # NULL,
         HeadOf(k, b)' = LinksOf(k)[HeadOf(k, b)], OtherHeadsStay(k, b), LinksStay, WaitersStay,
         zapped' = zapped, blocked' = BlockedAfter(p, HeadOf(k, b))
  PROVE  TakesFirst(k, b)
  <1>1. HeadOf(k, b) \in blocked
    BY ListsGoodOf DEF InWait
  <1>2. /\ blocked' \subseteq blocked /\ blocked \ {HeadOf(k, b)} \subseteq blocked'
        /\ NoneZapped => HeadOf(k, b) \notin blocked'
    BY <1>1 DEF BlockedAfter, Wakes, NoneZapped
  <1>3. QED
    BY <1>2 DEF TakesFirst, OtherHeadsStay
-----------------------------------------------------------------------------
(* The messages on a list of slots, or of the processes on a list.         *)
Msgs(T, list) == [i \in DOMAIN list |-> T[list[i]].message]

Carries(T, S, M) == \A s \in S : T[s].message \in M
Longer(more, list, x) == more = Append(list, x)
Shorter(rest, list) == rest = Tail(list)
IsFirst(x, list) == x = Head(list)

LEMMA MsgsAre ==
  ASSUME NEW S, NEW M, NEW list \in Seq(S), NEW T, Carries(T, S, M)
  PROVE  /\ Msgs(T, list) \in Seq(M) /\ Len(Msgs(T, list)) = Len(list) /\ Len(list) \in Nat
         /\ \A i \in 1..Len(list) : Msgs(T, list)[i] = T[list[i]].message
  <1>1. Len(list) \in Nat /\ DOMAIN list = 1..Len(list) /\ \A i \in 1..Len(list) : list[i] \in S
    BY LenProperties
  <1>2. PICK m : m = Msgs(T, list)
    OBVIOUS
  <1>3. m = [i \in 1..Len(list) |-> T[list[i]].message]
    BY <1>1, <1>2 DEF Msgs
  <1>4. m \in [1..Len(list) -> M]
    BY <1>1, <1>3 DEF Carries
  <1>5. m \in Seq(M) /\ Len(m) = Len(list)
    BY <1>1, <1>3, <1>4, SeqDef
  <1>6. QED
    BY <1>1, <1>2, <1>3, <1>5

LEMMA MsgsSame ==
  ASSUME NEW S, NEW list \in Seq(S), NEW T, NEW U,
         \A i \in 1..Len(list) : U[list[i]].message = T[list[i]].message
  PROVE  Msgs(U, list) = Msgs(T, list)
  <1>1. DOMAIN list = 1..Len(list)
    BY LenProperties
  <1>2. QED
    BY <1>1 DEF Msgs

LEMMA MsgsTail ==
  ASSUME NEW S, NEW M, NEW list \in Seq(S), NEW T, Carries(T, S, M), Len(list) # 0,
         NEW rest, Shorter(rest, list), NEW h \in S, IsFirst(h, list), NEW x, x = T[h].message
  PROVE  /\ Shorter(Msgs(T, rest), Msgs(T, list))
         /\ IsFirst(x, Msgs(T, list)) /\ Len(Msgs(T, list)) # 0
  <1>1. PICK m : m = Msgs(T, list)
    OBVIOUS
  <1>2. /\ m \in Seq(M) /\ Len(m) = Len(list) /\ Len(list) \in Nat
        /\ \A i \in 1..Len(list) : m[i] = T[list[i]].message
    <2>1. /\ Msgs(T, list) \in Seq(M) /\ Len(Msgs(T, list)) = Len(list) /\ Len(list) \in Nat
          /\ \A i \in 1..Len(list) : Msgs(T, list)[i] = T[list[i]].message
      BY MsgsAre
    <2>2. QED
      BY <1>1, <2>1
  <1>3. /\ rest \in Seq(S) /\ Len(rest) = Len(list) - 1
        /\ \A i \in 1..Len(rest) : rest[i] = list[i + 1]
    <2>1. list # <<>> /\ rest = Tail(list)
      BY EmptySeq DEF Shorter
    <2>2. QED
      BY <2>1, HeadTailProperties
  <1>4. PICK n : n = Msgs(T, rest)
    OBVIOUS
  <1>5. /\ n \in Seq(M) /\ Len(n) = Len(rest)
        /\ \A i \in 1..Len(rest) : n[i] = T[rest[i]].message
    <2>1. rest \in Seq(S)
      BY <1>3
    <2>2. /\ Msgs(T, rest) \in Seq(M) /\ Len(Msgs(T, rest)) = Len(rest)
          /\ \A i \in 1..Len(rest) : Msgs(T, rest)[i] = T[rest[i]].message
      BY <2>1, MsgsAre
    <2>3. QED
      BY <1>4, <2>2
  <1>6. PICK t : t = Tail(m)
    OBVIOUS
  <1>7. t \in Seq(M) /\ Len(t) = Len(m) - 1 /\ \A i \in 1..Len(t) : t[i] = m[i + 1]
    <2>1. m # <<>>
      BY <1>2, EmptySeq
    <2>2. QED
      BY <1>2, <1>6, <2>1, HeadTailProperties
  <1>8. Len(n) = Len(t)
    BY <1>2, <1>3, <1>5, <1>7
  <1>9. \A i \in 1..Len(n) : n[i] = t[i]
    <2>1. ASSUME NEW i \in 1..Len(n) PROVE n[i] = t[i]
      <3>1. i \in 1..Len(rest) /\ i \in 1..Len(t) /\ i + 1 \in 1..Len(list)
        BY <1>2, <1>3, <1>5, <1>8
      <3>2. n[i] = T[list[i + 1]].message
        BY <1>3, <1>5, <3>1
      <3>3. QED
        BY <1>2, <1>7, <3>1, <3>2
    <2>2. QED
      BY <2>1
  <1>10. n = t
    BY <1>5, <1>7, <1>8, <1>9, SeqEqual
  <1>11. IsFirst(x, m)
    <2>1. 1 \in 1..Len(list)
      BY <1>2
    <2>2. Head(m) = m[1] /\ h = list[1]
      BY <1>2 DEF IsFirst
    <2>3. QED
      BY <1>2, <2>1, <2>2 DEF IsFirst
  <1>12. QED
    BY <1>1, <1>2, <1>4, <1>6, <1>10, <1>11 DEF Shorter

LEMMA MsgsAppend ==
  ASSUME NEW S, NEW M, NEW list \in Seq(S), NEW T, Carries(T, S, M), NEW s \in S,
         NEW more, Longer(more, list, s), NEW x, x = T[s].message
  PROVE  Longer(Msgs(T, more), Msgs(T, list), x)
  <1>1. PICK m : m = Msgs(T, list)
    OBVIOUS
  <1>2. /\ m \in Seq(M) /\ Len(m) = Len(list) /\ Len(list) \in Nat /\ x \in M
        /\ \A i \in 1..Len(list) : m[i] = T[list[i]].message
    <2>1. x \in M
      BY <1>1 DEF Carries
    <2>2. QED
      BY <1>1, <2>1, MsgsAre
  <1>3. /\ more \in Seq(S) /\ Len(more) = Len(list) + 1 /\ more[Len(list) + 1] = s
        /\ \A i \in 1..Len(list) : more[i] = list[i]
    BY AppendProperties DEF Longer
  <1>4. PICK n, a : n = Msgs(T, more) /\ a = Append(m, x)
    OBVIOUS
  <1>5. /\ n \in Seq(M) /\ Len(n) = Len(more)
        /\ \A i \in 1..Len(more) : n[i] = T[more[i]].message
    BY <1>3, <1>4, MsgsAre
  <1>6. /\ a \in Seq(M) /\ Len(a) = Len(m) + 1 /\ a[Len(m) + 1] = x
        /\ \A i \in 1..Len(m) : a[i] = m[i]
    BY <1>2, <1>4, AppendProperties
  <1>7. \A i \in 1..Len(n) : n[i] = a[i]
    <2>1. ASSUME NEW i \in 1..Len(n) PROVE n[i] = a[i]
      <3>1. i \in 1..Len(more) /\ (i \in 1..Len(list) \/ i = Len(list) + 1)
        BY <1>2, <1>3, <1>5
      <3>2. CASE i \in 1..Len(list)
        BY <1>2, <1>3, <1>5, <1>6, <3>1, <3>2
      <3>3. CASE i = Len(list) + 1
        BY <1>1, <1>2, <1>3, <1>5, <1>6, <3>1, <3>3
      <3>4. QED
        BY <3>1, <3>2, <3>3
    <2>2. QED
      BY <2>1
  <1>8. n = a
    BY <1>2, <1>3, <1>5, <1>6, <1>7, SeqEqual
  <1>9. QED
    BY <1>1, <1>4, <1>8 DEF Longer

(* Queues that are made of two parts.                                      *)
LEMMA ConcatAppend ==
  ASSUME NEW M, NEW a \in Seq(M), NEW c \in Seq(M), NEW x \in M
  PROVE  a \o Append(c, x) = Append(a \o c, x)
  <1>1. PICK d, e, l, r : d = Append(c, x) /\ e = a \o c /\ l = a \o Append(c, x) /\ r = Append(a \o c, x)
    OBVIOUS
  <1>2. /\ d \in Seq(M) /\ Len(d) = Len(c) + 1 /\ d[Len(c) + 1] = x /\ \A i \in 1..Len(c) : d[i] = c[i]
        /\ Len(c) \in Nat /\ Len(a) \in Nat
    BY <1>1, AppendProperties, LenProperties
  <1>3. /\ e \in Seq(M) /\ Len(e) = Len(a) + Len(c)
        /\ \A i \in 1..Len(a) + Len(c) : e[i] = IF i <= Len(a) THEN a[i] ELSE c[i - Len(a)]
    BY <1>1, ConcatProperties
  <1>4. /\ l \in Seq(M) /\ Len(l) = Len(a) + Len(d)
        /\ \A i \in 1..Len(a) + Len(d) : l[i] = IF i <= Len(a) THEN a[i] ELSE d[i - Len(a)]
    BY <1>1, <1>2, ConcatProperties
  <1>5. /\ r \in Seq(M) /\ Len(r) = Len(e) + 1 /\ r[Len(e) + 1] = x /\ \A i \in 1..Len(e) : r[i] = e[i]
    BY <1>1, <1>3, AppendProperties
  <1>6. \A i \in 1..Len(l) : l[i] = r[i]
    <2>1. ASSUME NEW i \in 1..Len(l) PROVE l[i] = r[i]
      <3>1. CASE i <= Len(a)
        <4>1. l[i] = a[i] /\ i \in 1..Len(e) /\ e[i] = a[i]
          BY <1>2, <1>3, <1>4, <3>1
        <4>2. QED
          BY <1>5, <4>1
      <3>2. CASE ~(i <= Len(a)) /\ i <= Len(e)
        <4>1. l[i] = d[i - Len(a)] /\ i \in 1..Len(e) /\ e[i] = c[i - Len(a)] /\ i - Len(a) \in 1..Len(c)
          BY <1>2, <1>3, <1>4, <3>2
        <4>2. QED
          BY <1>2, <1>5, <4>1
      <3>3. CASE i = Len(e) + 1
        <4>1. l[i] = d[i - Len(a)] /\ i - Len(a) = Len(c) + 1
          BY <1>2, <1>3, <1>4, <3>3
        <4>2. QED
          BY <1>2, <1>5, <3>3, <4>1
      <3>4. /\ i \in Nat /\ i <= Len(l) /\ Len(l) = Len(e) + 1
            /\ Len(e) \in Nat /\ Len(a) \in Nat
        BY <1>2, <1>3, <1>4
      <3>5. i <= Len(a) \/ (~(i <= Len(a)) /\ i <= Len(e)) \/ i = Len(e) + 1
        BY <3>4
      <3>6. QED
        BY <3>1, <3>2, <3>3, <3>5
    <2>2. QED
      BY <2>1
  <1>7. l = r
    <2>1. Len(l) = Len(r)
      BY <1>2, <1>3, <1>4, <1>5
    <2>2. QED
      BY <1>4, <1>5, <1>6, <2>1, SeqEqual
  <1>8. QED
    BY <1>1, <1>7

LEMMA ConcatTail ==
  ASSUME NEW M, NEW a \in Seq(M), NEW c \in Seq(M), a # <<>>
  PROVE  Tail(a) \o c = Tail(a \o c) /\ Head(a \o c) = Head(a) /\ a \o c # <<>>
  <1>1. PICK d, e, l, r : d = Tail(a) /\ e = a \o c /\ l = Tail(a) \o c /\ r = Tail(a \o c)
    OBVIOUS
  <1>2. /\ d \in Seq(M) /\ Len(d) = Len(a) - 1 /\ \A i \in 1..Len(d) : d[i] = a[i + 1]
        /\ Len(c) \in Nat /\ Len(a) \in Nat \ {0}
    BY <1>1, HeadTailProperties, LenProperties, EmptySeq
  <1>3. /\ e \in Seq(M) /\ Len(e) = Len(a) + Len(c)
        /\ \A i \in 1..Len(a) + Len(c) : e[i] = IF i <= Len(a) THEN a[i] ELSE c[i - Len(a)]
    BY <1>1, ConcatProperties
  <1>4. /\ l \in Seq(M) /\ Len(l) = Len(d) + Len(c)
        /\ \A i \in 1..Len(d) + Len(c) : l[i] = IF i <= Len(d) THEN d[i] ELSE c[i - Len(d)]
    BY <1>1, <1>2, ConcatProperties
  <1>5. e # <<>> /\ Len(e) # 0
    <2>1. Len(e) # 0
      BY <1>2, <1>3
    <2>2. QED
      BY <2>1, EmptySeq
  <1>6. r \in Seq(M) /\ Len(r) = Len(e) - 1 /\ \A i \in 1..Len(r) : r[i] = e[i + 1]
    BY <1>1, <1>3, <1>5, HeadTailProperties
  <1>7. \A i \in 1..Len(l) : l[i] = r[i]
    <2>1. ASSUME NEW i \in 1..Len(l) PROVE l[i] = r[i]
      <3>1. i \in 1..Len(r) /\ i + 1 \in 1..Len(a) + Len(c) /\ i \in 1..Len(d) + Len(c)
        BY <1>2, <1>3, <1>4, <1>6
      <3>2. CASE i <= Len(d)
        <4>1. i + 1 <= Len(a) /\ i \in 1..Len(d)
          BY <1>2, <3>1, <3>2
        <4>2. QED
          BY <1>2, <1>3, <1>4, <1>6, <3>1, <3>2, <4>1
      <3>3. CASE ~(i <= Len(d))
        <4>1. ~(i + 1 <= Len(a)) /\ (i + 1) - Len(a) = i - Len(d)
          BY <1>2, <3>1, <3>3
        <4>2. QED
          BY <1>3, <1>4, <1>6, <3>1, <3>3, <4>1
      <3>4. QED
        BY <3>2, <3>3
    <2>2. QED
      BY <2>1
  <1>8. l = r
    <2>1. Len(l) = Len(r)
      BY <1>2, <1>3, <1>4, <1>6
    <2>2. QED
      BY <1>4, <1>6, <1>7, <2>1, SeqEqual
  <1>9. Head(e) = Head(a)
    <2>1. Head(e) = e[1] /\ Head(a) = a[1] /\ 1 \in 1..Len(a) + Len(c) /\ 1 <= Len(a)
      BY <1>2, <1>3, <1>5
    <2>2. QED
      BY <1>3, <2>1
  <1>10. QED
    BY <1>1, <1>5, <1>8, <1>9

LEMMA ConcatShift ==
  ASSUME NEW M, NEW a \in Seq(M), NEW c \in Seq(M), c # <<>>
  PROVE  Append(a, Head(c)) \o Tail(c) = a \o c
  <1>1. PICK x, t : x = Head(c) /\ t = Tail(c)
    OBVIOUS
  <1>2. /\ x \in M /\ t \in Seq(M) /\ Len(t) = Len(c) - 1 /\ x = c[1] /\ Len(c) \in Nat \ {0}
        /\ \A i \in 1..Len(t) : t[i] = c[i + 1]
    BY <1>1, HeadTailProperties, LenProperties, EmptySeq
  <1>3. PICK d : d = Append(a, x)
    OBVIOUS
  <1>4. /\ d \in Seq(M) /\ Len(d) = Len(a) + 1 /\ d[Len(a) + 1] = x /\ \A i \in 1..Len(a) : d[i] = a[i]
        /\ Len(a) \in Nat
    BY <1>2, <1>3, AppendProperties, LenProperties
  <1>5. PICK l, r : l = d \o t /\ r = a \o c
    OBVIOUS
  <1>6. /\ l \in Seq(M) /\ Len(l) = Len(d) + Len(t)
        /\ \A i \in 1..Len(d) + Len(t) : l[i] = IF i <= Len(d) THEN d[i] ELSE t[i - Len(d)]
    BY <1>2, <1>4, <1>5, ConcatProperties
  <1>7. /\ r \in Seq(M) /\ Len(r) = Len(a) + Len(c)
        /\ \A i \in 1..Len(a) + Len(c) : r[i] = IF i <= Len(a) THEN a[i] ELSE c[i - Len(a)]
    BY <1>5, ConcatProperties
  <1>8. \A i \in 1..Len(l) : l[i] = r[i]
    <2>1. ASSUME NEW i \in 1..Len(l) PROVE l[i] = r[i]
      <3>1. i \in 1..Len(d) + Len(t) /\ i \in 1..Len(a) + Len(c)
        BY <1>2, <1>4, <1>6
      <3>2. CASE i <= Len(a)
        BY <1>4, <1>6, <1>7, <3>1, <3>2
      <3>3. CASE i = Len(a) + 1
        <4>1. i <= Len(d) /\ ~(i <= Len(a)) /\ i - Len(a) = 1
          BY <1>4, <3>3
        <4>2. QED
          BY <1>2, <1>4, <1>6, <1>7, <3>1, <3>3, <4>1
      <3>4. CASE i > Len(a) + 1
        <4>1. /\ ~(i <= Len(d)) /\ ~(i <= Len(a)) /\ i - Len(d) \in 1..Len(t)
              /\ (i - Len(d)) + 1 = i - Len(a)
          BY <1>2, <1>4, <3>1, <3>4
        <4>2. QED
          BY <1>2, <1>6, <1>7, <3>1, <4>1
      <3>5. QED
        BY <1>4, <3>1, <3>2, <3>3, <3>4
    <2>2. QED
      BY <2>1
  <1>9. l = r
    <2>1. Len(l) = Len(r)
      BY <1>2, <1>4, <1>6, <1>7
    <2>2. QED
      BY <1>6, <1>7, <1>8, <2>1, SeqEqual
  <1>10. QED
    BY <1>1, <1>3, <1>5, <1>9
-----------------------------------------------------------------------------
(* The queues that the mailboxes implement.                                *)
LEMMA QueuesAre ==
  ASSUME NEW b \in Boxes
  PROVE  /\ SendersNow(b) = ListOf("sendWait", b) /\ ReceiversNow(b) = ListOf("recvWait", b)
         /\ QueueOf(b) = IF MailBoxTable[b].status = "EMPTY" THEN <<>>
                         ELSE Msgs(SlotTable, MailBoxTable[b].slotList)
                              \o Msgs(MboxProcTable, ListOf("sendWait", b))
         /\ WaitingOf(b) = IF MailBoxTable[b].status = "EMPTY" THEN <<>> ELSE ListOf("recvWait", b)
  <1>1. SendersNow(b) = ListOf("sendWait", b) /\ ReceiversNow(b) = ListOf("recvWait", b)
    BY DEF SendersNow, ReceiversNow, Senders, Receivers, ListOf, HeadOf, LinksOf
  <1>2. QED
    BY <1>1 DEF QueueOf, WaitingOf, Msgs

LEMMA QueuesBecome ==
  ASSUME NEW b \in Boxes
  PROVE  /\ QueueOf(b)' = IF MailBoxTable'[b].status = "EMPTY" THEN <<>>
                          ELSE Msgs(SlotTable', MailBoxTable'[b].slotList)
                               \o Msgs(MboxProcTable', ListOf("sendWait", b)')
         /\ WaitingOf(b)' = IF MailBoxTable'[b].status = "EMPTY" THEN <<>> ELSE ListOf("recvWait", b)'
  <1>1. SendersNow(b)' = ListOf("sendWait", b)' /\ ReceiversNow(b)' = ListOf("recvWait", b)'
    BY DEF SendersNow, ReceiversNow, Senders, Receivers, ListOf, HeadOf, LinksOf
  <1>2. QED
    BY <1>1 DEF QueueOf, WaitingOf, Msgs

AnyMessage == Messages \cup {NULL}

LEMMA MessagesIn ==
  ASSUME Shape
  PROVE  Carries(SlotTable, Slots, AnyMessage) /\ Carries(MboxProcTable, Procs, AnyMessage)
  BY DEF Shape, MailSlot, MboxProc, AnyMessage, Carries

LEMMA PartsAre ==
  ASSUME Shape, ListsGood, NEW b \in Boxes
  PROVE  /\ Msgs(SlotTable, MailBoxTable[b].slotList) \in Seq(AnyMessage)
         /\ Msgs(MboxProcTable, ListOf("sendWait", b)) \in Seq(AnyMessage)
         /\ MailBoxTable[b].slotList \in Seq(Slots)
         /\ ListOf("sendWait", b) \in Seq(Procs) /\ ListOf("recvWait", b) \in Seq(Procs)
  <1>1. PICK l, q : l = MailBoxTable[b].slotList /\ q = ListOf("sendWait", b)
    OBVIOUS
  <1>2. l \in Seq(Slots) /\ q \in Seq(Procs) /\ ListOf("recvWait", b) \in Seq(Procs)
    BY <1>1, BoxFields, ListsGoodOf DEF Kinds
  <1>3. Msgs(SlotTable, l) \in Seq(AnyMessage)
    BY <1>2, MessagesIn, MsgsAre
  <1>4. Msgs(MboxProcTable, q) \in Seq(AnyMessage)
    BY <1>2, MessagesIn, MsgsAre
  <1>5. QED
    BY <1>1, <1>2, <1>3, <1>4

LEMMA MembersWait ==
  ASSUME ListsGood, NEW k \in Kinds, NEW b \in Boxes
  PROVE  \A i \in 1..Len(ListOf(k, b)) : ListOf(k, b)[i] \in blocked
  <1>1. PICK q : q = ListOf(k, b)
    OBVIOUS
  <1>2. q \in Seq(Procs) /\ Elements(q) \subseteq InWait(k, b)
    BY <1>1, ListsGoodOf DEF GoodList
  <1>3. \A i \in 1..Len(q) : q[i] \in InWait(k, b)
    BY <1>2, ElementsOf
  <1>4. QED
    BY <1>1, <1>3 DEF InWait

(* What keeps the queue of a mailbox as it is.                             *)
Same(c) ==
    /\ MailBoxTable'[c].status = MailBoxTable[c].status
    /\ QueueOf(c)' = QueueOf(c) /\ WaitingOf(c)' = WaitingOf(c)

BoxStays(c) ==
    /\ MailBoxTable'[c].status = MailBoxTable[c].status
    /\ MailBoxTable'[c].slotList = MailBoxTable[c].slotList

SlotsStay(c) ==
    \A i \in 1..Len(MailBoxTable[c].slotList) :
        SlotTable'[MailBoxTable[c].slotList[i]].message = SlotTable[MailBoxTable[c].slotList[i]].message

LEMMA SendersSame ==
  ASSUME ListsGood, NEW c \in Boxes, SameMessages(MboxProcTable, MboxProcTable')
  PROVE  Msgs(MboxProcTable', ListOf("sendWait", c)) = Msgs(MboxProcTable, ListOf("sendWait", c))
  <1>1. PICK q : q = ListOf("sendWait", c)
    OBVIOUS
  <1>2. q \in Seq(Procs) /\ \A i \in 1..Len(q) : q[i] \in blocked
    BY <1>1, ListsGoodOf, MembersWait DEF Kinds
  <1>3. \A i \in 1..Len(q) : MboxProcTable'[q[i]].message = MboxProcTable[q[i]].message
    BY <1>2 DEF SameMessages
  <1>4. Msgs(MboxProcTable', q) = Msgs(MboxProcTable, q)
    BY <1>2, <1>3, MsgsSame
  <1>5. QED
    BY <1>1, <1>4

LEMMA SlotMsgsSame ==
  ASSUME Shape, NEW c \in Boxes, SlotsStay(c)
  PROVE  Msgs(SlotTable', MailBoxTable[c].slotList) = Msgs(SlotTable, MailBoxTable[c].slotList)
  <1>1. PICK l : l = MailBoxTable[c].slotList
    OBVIOUS
  <1>2. l \in Seq(Slots) /\ \A i \in 1..Len(l) : SlotTable'[l[i]].message = SlotTable[l[i]].message
    BY <1>1, BoxFields DEF SlotsStay
  <1>3. Msgs(SlotTable', l) = Msgs(SlotTable, l)
    BY <1>2, MsgsSame
  <1>4. QED
    BY <1>1, <1>3

LEMMA SameOf ==
  ASSUME Shape, ListsGood, NEW c \in Boxes, BoxStays(c), SlotsStay(c),
         SameMessages(MboxProcTable, MboxProcTable'),
         ListOf("sendWait", c)' = ListOf("sendWait", c), ListOf("recvWait", c)' = ListOf("recvWait", c)
  PROVE  Same(c)
  <1>1. Msgs(MboxProcTable', ListOf("sendWait", c)) = Msgs(MboxProcTable, ListOf("sendWait", c))
    BY SendersSame
  <1>2. Msgs(SlotTable', MailBoxTable[c].slotList) = Msgs(SlotTable, MailBoxTable[c].slotList)
    BY SlotMsgsSame
  <1>3. /\ MailBoxTable'[c].status = MailBoxTable[c].status
        /\ MailBoxTable'[c].slotList = MailBoxTable[c].slotList
    BY DEF BoxStays
  <1>4. QueueOf(c)' = QueueOf(c)
    BY <1>1, <1>2, <1>3, QueuesAre, QueuesBecome
  <1>5. WaitingOf(c)' = WaitingOf(c)
    BY <1>3, QueuesAre, QueuesBecome
  <1>6. QED
    BY <1>3, <1>4, <1>5 DEF Same

LEMMA SameIfFree ==
  ASSUME NEW c \in Boxes, MailBoxTable[c].status = "EMPTY", MailBoxTable'[c].status = "EMPTY"
  PROVE  Same(c)
  <1>1. QueueOf(c) = <<>> /\ WaitingOf(c) = <<>> /\ QueueOf(c)' = <<>> /\ WaitingOf(c)' = <<>>
    BY QueuesAre, QueuesBecome
  <1>2. QED
    BY <1>1 DEF Same

OpenNow == {b \in Boxes : MailBoxTable[b].status = "USED"}
QueuesNow == [b \in Boxes |-> QueueOf(b)]
WaitingNow == [b \in Boxes |-> WaitingOf(b)]

Apart(b) == \A c \in Boxes : c # b => Same(c)

LEMMA NowAre ==
  ASSUME NEW b \in Boxes, Apart(b), NEW q, NEW w, QueueOf(b)' = q, WaitingOf(b)' = w
  PROVE  /\ QueuesNow' = [QueuesNow EXCEPT ![b] = q]
         /\ WaitingNow' = [WaitingNow EXCEPT ![b] = w]
         /\ OpenNow' = IF MailBoxTable'[b].status = "USED" THEN OpenNow \cup {b} ELSE OpenNow \ {b}
         /\ QueuesNow[b] = QueueOf(b) /\ WaitingNow[b] = WaitingOf(b)
         /\ b \in OpenNow <=> MailBoxTable[b].status = "USED"
  <1>1. QueuesNow' = [c \in Boxes |-> QueueOf(c)'] /\ WaitingNow' = [c \in Boxes |-> WaitingOf(c)']
    BY DEF QueuesNow, WaitingNow, Boxes
  <1>2. \A c \in Boxes : c # b => /\ QueueOf(c)' = QueueOf(c) /\ WaitingOf(c)' = WaitingOf(c)
                                  /\ MailBoxTable'[c].status = MailBoxTable[c].status
    BY DEF Apart, Same
  <1>3. QueuesNow' = [QueuesNow EXCEPT ![b] = q]
    BY <1>1, <1>2 DEF QueuesNow
  <1>4. WaitingNow' = [WaitingNow EXCEPT ![b] = w]
    BY <1>1, <1>2 DEF WaitingNow
  <1>5. OpenNow' = IF MailBoxTable'[b].status = "USED" THEN OpenNow \cup {b} ELSE OpenNow \ {b}
    <2>1. OpenNow' = {c \in Boxes : MailBoxTable'[c].status = "USED"}
      BY DEF OpenNow, Boxes
    <2>2. QED
      BY <1>2, <2>1 DEF OpenNow
  <1>6. QED
    BY <1>3, <1>4, <1>5 DEF QueuesNow, WaitingNow, OpenNow

LEMMA Stutters ==
  ASSUME \A c \in Boxes : Same(c), delivery' = delivery
  PROVE  UNCHANGED Abstract!vars
  <1>1. QueuesNow' = QueuesNow /\ WaitingNow' = WaitingNow /\ OpenNow' = OpenNow
    <2>1. \A c \in Boxes : /\ QueueOf(c)' = QueueOf(c) /\ WaitingOf(c)' = WaitingOf(c)
                           /\ MailBoxTable'[c].status = MailBoxTable[c].status
      BY DEF Same
    <2>2. QED
      BY <2>1 DEF QueuesNow, WaitingNow, OpenNow, Boxes
  <1>2. QED
    BY <1>1 DEF Abstract!vars, QueuesNow, WaitingNow, OpenNow

LEMMA Opens ==
  ASSUME NEW b \in Boxes, Apart(b), delivery' = delivery,
         MailBoxTable[b].status = "EMPTY", MailBoxTable'[b].status = "USED",
         QueueOf(b)' = <<>>, WaitingOf(b)' = <<>>
  PROVE  Abstract!Next
  <1>1. QueueOf(b) = <<>> /\ WaitingOf(b) = <<>>
    BY QueuesAre
  <1>2. /\ QueuesNow' = [QueuesNow EXCEPT ![b] = <<>>] /\ WaitingNow' = [WaitingNow EXCEPT ![b] = <<>>]
        /\ OpenNow' = OpenNow \cup {b} /\ b \notin OpenNow
        /\ QueuesNow[b] = <<>> /\ WaitingNow[b] = <<>>
    BY <1>1, NowAre
  <1>3. QueuesNow' = QueuesNow /\ WaitingNow' = WaitingNow
    BY <1>2 DEF QueuesNow, WaitingNow
  <1>4. Abstract!Open(b)
    BY <1>2, <1>3 DEF Abstract!Open, QueuesNow, WaitingNow, OpenNow
  <1>5. QED
    BY <1>4 DEF Abstract!Next

LEMMA Closes ==
  ASSUME NEW b \in Boxes, Apart(b), delivery' = delivery,
         MailBoxTable[b].status = "USED", MailBoxTable'[b].status = "EMPTY"
  PROVE  Abstract!Next
  <1>1. QueueOf(b)' = <<>> /\ WaitingOf(b)' = <<>>
    BY QueuesBecome
  <1>2. /\ QueuesNow' = [QueuesNow EXCEPT ![b] = <<>>] /\ WaitingNow' = [WaitingNow EXCEPT ![b] = <<>>]
        /\ OpenNow' = OpenNow \ {b} /\ b \in OpenNow
    BY <1>1, NowAre
  <1>3. Abstract!Close(b)
    BY <1>2 DEF Abstract!Close, QueuesNow, WaitingNow, OpenNow
  <1>4. QED
    BY <1>3 DEF Abstract!Next

StaysOpen(b) == MailBoxTable[b].status = "USED" /\ MailBoxTable'[b].status = "USED"

LEMMA Accepts ==
  ASSUME NEW b \in Boxes, Apart(b), delivery' = delivery, StaysOpen(b),
         NEW x \in Messages, QueueOf(b) \in Seq(AnyMessage), QueueOf(b)' = Append(QueueOf(b), x),
         WaitingOf(b) = <<>>, WaitingOf(b)' = <<>>
  PROVE  Abstract!Next
  <1>1. PICK q, r : q = QueueOf(b) /\ r = Append(QueueOf(b), x)
    OBVIOUS
  <1>2. r # q
    <2>1. Len(r) = Len(q) + 1 /\ Len(q) \in Nat
      BY <1>1, AppendProperties, LenProperties DEF AnyMessage
    <2>2. QED
      BY <2>1
  <1>3. /\ QueuesNow' = [QueuesNow EXCEPT ![b] = r] /\ WaitingNow' = [WaitingNow EXCEPT ![b] = <<>>]
        /\ OpenNow' = OpenNow \cup {b} /\ b \in OpenNow
        /\ QueuesNow[b] = q /\ WaitingNow[b] = <<>>
    BY <1>1, NowAre DEF StaysOpen
  <1>4. OpenNow' = OpenNow /\ WaitingNow' = WaitingNow /\ QueuesNow'[b] = r
    BY <1>3 DEF QueuesNow, WaitingNow
  <1>5. QueuesNow' = [QueuesNow EXCEPT ![b] = Append(QueuesNow[b], x)] /\ QueuesNow'[b] # QueuesNow[b]
    BY <1>1, <1>2, <1>3, <1>4
  <1>6. Abstract!Accept(b)
    BY <1>3, <1>4, <1>5 DEF Abstract!Accept, QueuesNow, WaitingNow, OpenNow
  <1>7. QED
    BY <1>6 DEF Abstract!Next

LEMMA HandsOver ==
  ASSUME NEW b \in Boxes, Apart(b), StaysOpen(b), QueueOf(b)' = QueueOf(b),
         WaitingOf(b) # <<>>, WaitingOf(b)' = Tail(WaitingOf(b)),
         \/ delivery' = delivery
         \/ \E x \in Messages : delivery' = [to |-> Head(WaitingOf(b)), message |-> x]
  PROVE  Abstract!Next
  <1>1. PICK w : w = WaitingOf(b)
    OBVIOUS
  <1>2. /\ QueuesNow' = [QueuesNow EXCEPT ![b] = QueueOf(b)] /\ WaitingNow' = [WaitingNow EXCEPT ![b] = Tail(w)]
        /\ OpenNow' = OpenNow \cup {b} /\ b \in OpenNow
        /\ QueuesNow[b] = QueueOf(b) /\ WaitingNow[b] = w
    BY <1>1, NowAre DEF StaysOpen
  <1>3. OpenNow' = OpenNow /\ QueuesNow' = QueuesNow
    BY <1>2 DEF QueuesNow
  <1>4. WaitingNow' = [WaitingNow EXCEPT ![b] = Tail(WaitingNow[b])] /\ WaitingNow[b] # <<>>
    BY <1>1, <1>2
  <1>5. ASSUME delivery' = delivery PROVE Abstract!TooLarge(b)
    BY <1>2, <1>3, <1>4, <1>5 DEF Abstract!TooLarge, QueuesNow, WaitingNow, OpenNow
  <1>6. ASSUME \E x \in Messages : delivery' = [to |-> Head(WaitingOf(b)), message |-> x]
        PROVE  Abstract!HandOver(b)
    BY <1>1, <1>2, <1>3, <1>4, <1>6 DEF Abstract!HandOver, Abstract!Delivery, QueuesNow, WaitingNow, OpenNow
  <1>7. QED
    BY <1>5, <1>6 DEF Abstract!Next

LEMMA Takes ==
  ASSUME NEW b \in Boxes, Apart(b), StaysOpen(b), WaitingOf(b)' = WaitingOf(b),
         QueueOf(b) # <<>>, QueueOf(b)' = Tail(QueueOf(b)),
         NEW p \in Procs, delivery' = [to |-> p, message |-> Head(QueueOf(b))]
  PROVE  Abstract!Next
  <1>1. PICK q : q = QueueOf(b)
    OBVIOUS
  <1>2. /\ QueuesNow' = [QueuesNow EXCEPT ![b] = Tail(q)]
        /\ WaitingNow' = [WaitingNow EXCEPT ![b] = WaitingOf(b)]
        /\ OpenNow' = OpenNow \cup {b} /\ b \in OpenNow
        /\ QueuesNow[b] = q /\ WaitingNow[b] = WaitingOf(b)
    BY <1>1, NowAre DEF StaysOpen
  <1>3. OpenNow' = OpenNow /\ WaitingNow' = WaitingNow
    BY <1>2 DEF WaitingNow
  <1>4. QueuesNow' = [QueuesNow EXCEPT ![b] = Tail(QueuesNow[b])] /\ QueuesNow[b] # <<>>
    BY <1>1, <1>2
  <1>5. delivery' = [to |-> p, message |-> Head(QueuesNow[b])]
    BY <1>1, <1>2
  <1>6. Abstract!Take(p, b)
    BY <1>2, <1>3, <1>4, <1>5 DEF Abstract!Take, Abstract!Delivery, QueuesNow, WaitingNow, OpenNow
  <1>7. QED
    BY <1>6 DEF Abstract!Next

LEMMA Waits ==
  ASSUME NEW b \in Boxes, Apart(b), StaysOpen(b), delivery' = delivery,
         QueueOf(b) = <<>>, QueueOf(b)' = <<>>,
         NEW p \in Procs, WaitingOf(b)' = Append(WaitingOf(b), p)
  PROVE  Abstract!Next
  <1>1. PICK w : w = WaitingOf(b)
    OBVIOUS
  <1>2. /\ QueuesNow' = [QueuesNow EXCEPT ![b] = <<>>]
        /\ WaitingNow' = [WaitingNow EXCEPT ![b] = Append(w, p)]
        /\ OpenNow' = OpenNow \cup {b} /\ b \in OpenNow
        /\ QueuesNow[b] = <<>> /\ WaitingNow[b] = w
    BY <1>1, NowAre DEF StaysOpen
  <1>3. OpenNow' = OpenNow /\ QueuesNow' = QueuesNow
    BY <1>2 DEF QueuesNow
  <1>4. WaitingNow' = [WaitingNow EXCEPT ![b] = Append(WaitingNow[b], p)]
    BY <1>1, <1>2
  <1>5. Abstract!Wait(p, b)
    BY <1>2, <1>3, <1>4 DEF Abstract!Wait, QueuesNow, WaitingNow, OpenNow
  <1>6. QED
    BY <1>5 DEF Abstract!Next
-----------------------------------------------------------------------------
(* What each operation does to the lists and to the queues.                *)
ListsInv == SlotsInv /\ ListsGood
Promise == Abstract!Next \/ UNCHANGED Abstract!vars

(* A step that writes no link, and wakes or blocks nobody.                 *)
Calm == /\ SameLinks(MboxProcTable, MboxProcTable') /\ SameMessages(MboxProcTable, MboxProcTable')
        /\ blocked' = blocked /\ WaitersStay /\ ZappedStay

LEMMA HeadsSame ==
  ASSUME \A c \in Boxes : /\ MailBoxTable'[c].blockSendList = MailBoxTable[c].blockSendList
                          /\ MailBoxTable'[c].blockRecvList = MailBoxTable[c].blockRecvList
  PROVE  HeadsStay
  BY DEF HeadsStay, HeadOf

LEMMA CalmLists ==
  ASSUME ListsGood, HeadsStay, Calm
  PROVE  ListsGood' /\ ListsStay
  <1>1. LinksStay
    BY SameLinksStay DEF Calm
  <1>2. QED
    BY <1>1, ListsSame DEF Calm

LEMMA RunnerIsFree ==
  ASSUME NEW p, Runs(p)
  PROVE  p \notin blocked
  BY DEF Runs, CanRun

LEMMA OthersWait ==
  ASSUME frame \in [Procs -> Frames], blocked \subseteq Procs
  PROVE  /\ frame' = frame => WaitersStay
         /\ \A p \in Procs : \A f : p \notin blocked /\ frame' = [frame EXCEPT ![p] = f] => WaitersStay
  <1>1. ASSUME NEW p \in Procs, NEW f, p \notin blocked, frame' = [frame EXCEPT ![p] = f]
        PROVE  WaitersStay
    BY <1>1 DEF WaitersStay
  <1>2. frame' = frame => WaitersStay
    BY DEF WaitersStay
  <1>3. QED
    BY <1>1, <1>2

LEMMA NoMsgs ==
  ASSUME NEW T
  PROVE  Msgs(T, <<>>) = <<>>
  <1>1. DOMAIN <<>> = {}
    OBVIOUS
  <1>2. QED
    BY <1>1 DEF Msgs

(* Nobody waits on a list whose head is NULL.                              *)
LEMMA NobodyOn ==
  ASSUME ListsGood, NEW b \in Boxes
  PROVE  /\ MailBoxTable[b].blockSendList = NULL <=> ListOf("sendWait", b) = <<>>
         /\ MailBoxTable[b].blockRecvList = NULL <=> ListOf("recvWait", b) = <<>>
  <1>1. \A k \in Kinds : HeadOf(k, b) = NULL <=> ListOf(k, b) = <<>>
    BY ListsGoodOf
  <1>2. /\ HeadOf("sendWait", b) = MailBoxTable[b].blockSendList
        /\ HeadOf("recvWait", b) = MailBoxTable[b].blockRecvList
    BY DEF HeadOf
  <1>3. QED
    BY <1>1, <1>2 DEF Kinds

LEMMA ToSlotStep ==
  ASSUME ListsInv, NEW pt \in [Procs -> MboxProc], NEW b \in Boxes, NEW x \in Messages, NEW n \in Int,
         ToSlot(pt, b, x, n), SameLinks(MboxProcTable, pt), SameMessages(MboxProcTable, pt),
         MailBoxTable[b].status = "USED", MailBoxTable[b].blockRecvList = NULL,
         MailBoxTable[b].numSlots > MailBoxTable[b].slotsUsed, FreeSlots # {},
         frame' = frame, zapped' = zapped
  PROVE  ListsGood' /\ Promise
  <1>1. TablesInv /\ Shape /\ ListsGood /\ Standings /\ TablesInv'
    <2>1. TablesInv /\ Shape /\ ListsGood /\ Standings
      BY DEF ListsInv, SlotsInv, TablesInv
    <2>2. x \in Messages \cup {NULL}
      OBVIOUS
    <2>3. QED
      BY <2>1, <2>2, ToSlotKeepsTables
  <1>2. PICK s : s = GetSlotIndex(SlotTable)
    OBVIOUS
  <1>3. s \in Slots /\ SlotTable[s].status = "EMPTY"
    BY <1>2, SlotFound DEF FreeSlots
  <1>4. PICK box, new : box = MailBoxTable[b] /\ new = AddSlotToList(box, s)
    OBVIOUS
  <1>5. /\ SlotTable' = [SlotTable EXCEPT ![s] = InitSlot(x, n)]
        /\ MailBoxTable' = [MailBoxTable EXCEPT ![b] = new]
        /\ MboxProcTable' = pt /\ blocked' = blocked /\ delivery' = delivery
    BY <1>2, <1>4 DEF ToSlot
  <1>6. /\ box \in Mailbox /\ MailBoxTable \in [Boxes -> Mailbox] /\ SlotTable \in [Slots -> MailSlot]
        /\ blocked \subseteq Procs /\ frame \in [Procs -> Frames]
        /\ SlotTable' \in [Slots -> MailSlot]
    BY <1>1, <1>4, BoxFields DEF TablesInv, Shape, Standings
  <1>7. PICK list : list = Append(box.slotList, s)
    OBVIOUS
  <1>8. /\ new.slotList = list /\ new.status = box.status
        /\ new.blockSendList = box.blockSendList /\ new.blockRecvList = box.blockRecvList
    BY <1>3, <1>4, <1>6, <1>7, SlotAdded
  <1>9. \A c \in Boxes : MailBoxTable'[c] = IF c = b THEN new ELSE MailBoxTable[c]
    BY <1>5, <1>6
  <1>10. /\ SlotTable'[s].message = x
         /\ \A r \in Slots : r # s => SlotTable'[r].message = SlotTable[r].message
    <2>1. PICK z : z = InitSlot(x, n)
      OBVIOUS
    <2>2. z.message = x
      BY <2>1 DEF InitSlot
    <2>3. QED
      BY <1>3, <1>5, <1>6, <2>1, <2>2
  <1>11. HeadsStay
    <2>1. \A c \in Boxes : /\ MailBoxTable'[c].blockSendList = MailBoxTable[c].blockSendList
                           /\ MailBoxTable'[c].blockRecvList = MailBoxTable[c].blockRecvList
      BY <1>4, <1>8, <1>9
    <2>2. QED
      BY <2>1, HeadsSame
  <1>12. Calm
    <2>1. WaitersStay
      BY <1>6, OthersWait
    <2>2. QED
      BY <1>5, <2>1 DEF Calm, ZappedStay
  <1>13. ListsGood' /\ ListsStay
    BY <1>1, <1>11, <1>12, CalmLists
  <1>14. \A c \in Boxes : SlotsStay(c)
    <2>1. ASSUME NEW c \in Boxes, NEW i \in 1..Len(MailBoxTable[c].slotList)
          PROVE  SlotTable'[MailBoxTable[c].slotList[i]].message = SlotTable[MailBoxTable[c].slotList[i]].message
      <3>1. PICK l : l = MailBoxTable[c].slotList
        OBVIOUS
      <3>2. l \in Seq(Slots) /\ SlotLists[c] = l
        BY <1>1, <3>1, BoxFields, ListsAre
      <3>3. l[i] \in Slots /\ SlotTable[l[i]].status = "USED"
        BY <1>1, <2>1, <3>1, <3>2, ElementsOf DEF TablesInv, ListsApart
      <3>4. QED
        BY <1>3, <1>10, <3>1, <3>3
    <2>2. QED
      BY <2>1 DEF SlotsStay
  <1>15. Apart(b)
    <2>1. ASSUME NEW c \in Boxes, c # b PROVE Same(c)
      <3>1. BoxStays(c)
        BY <1>9, <2>1 DEF BoxStays
      <3>2. ListOf("sendWait", c)' = ListOf("sendWait", c) /\ ListOf("recvWait", c)' = ListOf("recvWait", c)
        BY <1>13 DEF ListsStay, Kinds
      <3>3. QED
        BY <1>1, <1>12, <1>14, <3>1, <3>2, SameOf DEF Calm
    <2>2. QED
      BY <2>1 DEF Apart
  <1>16. ListOf("sendWait", b) = <<>> /\ ListOf("recvWait", b) = <<>>
    <2>1. MailBoxTable[b].blockSendList = NULL
      <3>1. box.numSlots \in Int /\ box.slotsUsed \in Int
        BY <1>6 DEF Mailbox
      <3>2. GoodBox(box) /\ box.slotsUsed # box.numSlots
        BY <1>1, <1>4, <3>1 DEF TablesInv, BoxesGood
      <3>3. QED
        BY <1>4, <3>2 DEF GoodBox
    <2>2. QED
      BY <1>1, <2>1, NobodyOn
  <1>17. ListOf("sendWait", b)' = <<>> /\ ListOf("recvWait", b)' = <<>>
    BY <1>13, <1>16 DEF ListsStay, Kinds
  <1>18. PICK m, l : m = Msgs(SlotTable, box.slotList) /\ l = box.slotList
    OBVIOUS
  <1>19. m \in Seq(AnyMessage) /\ l \in Seq(Slots)
    BY <1>1, <1>4, <1>18, PartsAre
  <1>20. QueueOf(b) = m /\ WaitingOf(b) = <<>>
    <2>1. QueueOf(b) = m \o <<>> /\ WaitingOf(b) = <<>>
      BY <1>4, <1>16, <1>18, QueuesAre, NoMsgs
    <2>2. QED
      BY <1>19, <2>1, ConcatEmptySeq
  <1>21. Msgs(SlotTable', list) = Append(m, x)
    <2>1. Carries(SlotTable', Slots, AnyMessage)
      BY <1>6 DEF MailSlot, AnyMessage, Carries
    <2>2. PICK T : T = SlotTable'
      OBVIOUS
    <2>3. Carries(T, Slots, AnyMessage)
      BY <2>1, <2>2
    <2>4. Longer(Msgs(T, list), Msgs(T, l), x)
      <3>1. s \in Slots /\ l \in Seq(Slots) /\ x = T[s].message
        BY <1>3, <1>10, <1>19, <2>2
      <3>2. Longer(list, l, s)
        BY <1>7, <1>18 DEF Longer
      <3>3. QED
        BY <2>3, <3>1, <3>2, MsgsAppend
    <2>5. Msgs(SlotTable', l) = m
      BY <1>1, <1>4, <1>14, <1>18, SlotMsgsSame
    <2>6. QED
      BY <2>2, <2>4, <2>5 DEF Longer
  <1>22. QueueOf(b)' = Append(m, x) /\ WaitingOf(b)' = <<>>
    <2>1. MailBoxTable'[b].status = "USED" /\ MailBoxTable'[b].slotList = list
      BY <1>4, <1>8, <1>9
    <2>2. QueueOf(b)' = Append(m, x) \o <<>> /\ WaitingOf(b)' = <<>>
      BY <1>17, <1>21, <2>1, QueuesBecome, NoMsgs
    <2>3. Append(m, x) \in Seq(AnyMessage)
      BY <1>19, AppendProperties DEF AnyMessage
    <2>4. QED
      BY <2>2, <2>3, ConcatEmptySeq
  <1>23. StaysOpen(b)
    BY <1>4, <1>8, <1>9 DEF StaysOpen
  <1>24. Abstract!Next
    BY <1>5, <1>15, <1>19, <1>20, <1>22, <1>23, Accepts
  <1>25. QED
    BY <1>13, <1>24 DEF Promise

(* The first receiver is taken off the list of a mailbox.                  *)
LEMMA ReceiverLeaves ==
  ASSUME ListsInv, NEW b \in Boxes, NEW r, r = MailBoxTable[b].blockRecvList, r # NULL,
         NEW v, v = MboxProcTable[r].nextBlockRecv,
         MailBoxTable' = [MailBoxTable EXCEPT ![b].blockRecvList = v],
         SameLinks(MboxProcTable, MboxProcTable'), SameMessages(MboxProcTable, MboxProcTable'),
         NEW p, blocked' = BlockedAfter(p, r),
         SlotTable' = SlotTable, frame' = frame, zapped' = zapped
  PROVE  /\ ListsGood' /\ Apart(b) /\ MailBoxTable'[b].status = MailBoxTable[b].status
         /\ QueueOf(b)' = QueueOf(b)
         /\ MailBoxTable[b].status = "USED" =>
               /\ WaitingOf(b) # <<>> /\ Head(WaitingOf(b)) = r
               /\ WaitingOf(b)' = Tail(WaitingOf(b))
  <1>1. ListsGood /\ Shape /\ frame \in [Procs -> Frames] /\ blocked \subseteq Procs
    BY DEF ListsInv, SlotsInv, TablesInv, Shape, Standings
  <1>2. PICK k : k = "recvWait"
    OBVIOUS
  <1>3. k \in Kinds /\ HeadOf(k, b) = r
    BY <1>2 DEF Kinds, HeadOf
  <1>4. r \in Procs
    BY <1>1, BoxFields
  <1>5. LinksOf(k)[HeadOf(k, b)] = v
    BY <1>2, <1>3, <1>4, LinksAre
  <1>6. /\ HeadOf(k, b)' = v /\ OtherHeadsStay(k, b)
        /\ \A c \in Boxes : BoxStays(c)
    BY <1>1, <1>2, ReceiverHeadSet DEF BoxStays
  <1>7. LinksStay /\ WaitersStay
    BY <1>1, SameLinksStay, OthersWait
  <1>8. TakesFirst(k, b)
    BY <1>1, <1>3, <1>5, <1>6, <1>7, FirstLeaves
  <1>9. /\ ListsGood' /\ OthersStay(k, b) /\ ListOf(k, b)' = Tail(ListOf(k, b))
        /\ ListOf(k, b) # <<>> /\ Head(ListOf(k, b)) = r
    BY <1>1, <1>3, <1>8, ListsLoseFirst
  <1>10. \A c \in Boxes : /\ ListOf("sendWait", c)' = ListOf("sendWait", c)
                          /\ c # b => ListOf("recvWait", c)' = ListOf("recvWait", c)
    BY <1>2, <1>9 DEF OthersStay, Kinds
  <1>11. \A c \in Boxes : SlotsStay(c)
    BY DEF SlotsStay
  <1>12. Apart(b)
    BY <1>1, <1>6, <1>10, <1>11, SameOf DEF Apart
  <1>13. QueueOf(b)' = QueueOf(b)
    <2>1. Msgs(MboxProcTable', ListOf("sendWait", b)) = Msgs(MboxProcTable, ListOf("sendWait", b))
      BY <1>1, SendersSame
    <2>2. Msgs(SlotTable', MailBoxTable[b].slotList) = Msgs(SlotTable, MailBoxTable[b].slotList)
      BY <1>1, <1>11, SlotMsgsSame
    <2>3. BoxStays(b) /\ ListOf("sendWait", b)' = ListOf("sendWait", b)
      BY <1>6, <1>10
    <2>4. QED
      BY <2>1, <2>2, <2>3, QueuesAre, QueuesBecome DEF BoxStays
  <1>14. ASSUME MailBoxTable[b].status = "USED"
         PROVE  /\ WaitingOf(b) # <<>> /\ Head(WaitingOf(b)) = r
                /\ WaitingOf(b)' = Tail(WaitingOf(b))
    <2>1. MailBoxTable'[b].status = "USED"
      BY <1>6, <1>14 DEF BoxStays
    <2>2. WaitingOf(b) = ListOf(k, b) /\ WaitingOf(b)' = ListOf(k, b)'
      BY <1>2, <1>14, <2>1, QueuesAre, QueuesBecome
    <2>3. QED
      BY <1>9, <2>2
  <1>15. QED
    BY <1>6, <1>9, <1>12, <1>13, <1>14 DEF BoxStays

(* The first sender is taken off the list of a mailbox.                    *)
LEMMA SenderLeaves ==
  ASSUME ListsInv, NEW b \in Boxes, NEW r, r = MailBoxTable[b].blockSendList, r # NULL,
         NEW v, v = MboxProcTable[r].nextBlockSend,
         HeadOf("sendWait", b)' = v, OtherHeadsStay("sendWait", b),
         SameLinks(MboxProcTable, MboxProcTable'), SameMessages(MboxProcTable, MboxProcTable'),
         NEW p, blocked' = BlockedAfter(p, r), WaitersStay, zapped' = zapped
  PROVE  /\ ListsGood' /\ r \in blocked
         /\ \A c \in Boxes : /\ c # b => ListOf("sendWait", c)' = ListOf("sendWait", c)
                             /\ ListOf("recvWait", c)' = ListOf("recvWait", c)
         /\ ListOf("sendWait", b)' = Tail(ListOf("sendWait", b))
         /\ ListOf("sendWait", b) # <<>>
         /\ Msgs(MboxProcTable, ListOf("sendWait", b)) # <<>>
         /\ Head(Msgs(MboxProcTable, ListOf("sendWait", b))) = MboxProcTable[r].message
         /\ Msgs(MboxProcTable', ListOf("sendWait", b)') = Tail(Msgs(MboxProcTable, ListOf("sendWait", b)))
  <1>1. ListsGood /\ Shape /\ MboxProcTable \in [Procs -> MboxProc]
    BY DEF ListsInv, SlotsInv, TablesInv, Shape
  <1>2. PICK k : k = "sendWait"
    OBVIOUS
  <1>3. k \in Kinds /\ HeadOf(k, b) = r
    BY <1>2 DEF Kinds, HeadOf
  <1>4. r \in Procs
    BY <1>1, BoxFields
  <1>5. LinksOf(k)[HeadOf(k, b)] = v
    BY <1>2, <1>3, <1>4, LinksAre
  <1>6. LinksStay
    BY <1>1, SameLinksStay
  <1>7. TakesFirst(k, b)
    BY <1>1, <1>2, <1>3, <1>5, <1>6, FirstLeaves
  <1>8. PICK q : q = ListOf(k, b)
    OBVIOUS
  <1>9. /\ ListsGood' /\ OthersStay(k, b) /\ ListOf(k, b)' = Tail(q) /\ q # <<>> /\ Head(q) = r
        /\ q \in Seq(Procs) /\ r \in blocked
    BY <1>1, <1>3, <1>7, <1>8, ListsLoseFirst, ListsGoodOf DEF InWait
  <1>10. \A c \in Boxes : /\ c # b => ListOf("sendWait", c)' = ListOf("sendWait", c)
                          /\ ListOf("recvWait", c)' = ListOf("recvWait", c)
    BY <1>2, <1>9 DEF OthersStay, Kinds
  <1>11. /\ Msgs(MboxProcTable, Tail(q)) = Tail(Msgs(MboxProcTable, q))
         /\ Head(Msgs(MboxProcTable, q)) = MboxProcTable[r].message
         /\ Msgs(MboxProcTable, q) # <<>>
    <2>1. Carries(MboxProcTable, Procs, AnyMessage)
      BY <1>1, MessagesIn
    <2>2. PICK T, x : T = MboxProcTable /\ x = MboxProcTable[r].message
      OBVIOUS
    <2>3. PICK t : Shorter(t, q)
      BY DEF Shorter
    <2>4. r \in Procs /\ q \in Seq(Procs) /\ Len(q) # 0 /\ x = T[r].message /\ Carries(T, Procs, AnyMessage)
      BY <1>4, <1>9, <2>1, <2>2, EmptySeq
    <2>5. IsFirst(r, q)
      BY <1>9 DEF IsFirst
    <2>6. Shorter(Msgs(T, t), Msgs(T, q)) /\ IsFirst(x, Msgs(T, q)) /\ Len(Msgs(T, q)) # 0
      BY <2>3, <2>4, <2>5, MsgsTail
    <2>7. Msgs(T, q) # <<>>
      BY <2>6, EmptyList
    <2>8. QED
      BY <2>2, <2>3, <2>6, <2>7 DEF Shorter, IsFirst
  <1>12. Msgs(MboxProcTable', Tail(q)) = Msgs(MboxProcTable, Tail(q))
    <2>1. PICK t : t = Tail(q)
      OBVIOUS
    <2>2. t \in Seq(Procs) /\ Len(t) = Len(q) - 1 /\ Len(q) \in Nat /\ \A i \in 1..Len(t) : t[i] = q[i + 1]
      BY <1>9, <2>1, HeadTailProperties, LenProperties
    <2>3. \A i \in 1..Len(q) : q[i] \in blocked
      BY <1>1, <1>3, <1>8, MembersWait
    <2>4. \A i \in 1..Len(t) : t[i] \in blocked
      <3>1. ASSUME NEW i \in 1..Len(t) PROVE t[i] \in blocked
        <4>1. i + 1 \in 1..Len(q)
          BY <2>2
        <4>2. QED
          BY <2>2, <2>3, <4>1
      <3>2. QED
        BY <3>1
    <2>5. \A i \in 1..Len(t) : MboxProcTable'[t[i]].message = MboxProcTable[t[i]].message
      BY <2>4 DEF SameMessages
    <2>6. Msgs(MboxProcTable', t) = Msgs(MboxProcTable, t)
      BY <2>2, <2>5, MsgsSame
    <2>7. QED
      BY <2>1, <2>6
  <1>13. QED
    BY <1>2, <1>8, <1>9, <1>10, <1>11, <1>12

(* A step that leaves the mailboxes as they are.                           *)
LEMMA CalmStep ==
  ASSUME ListsInv, MailBoxTable' = MailBoxTable, SlotTable' = SlotTable, Calm, delivery' = delivery
  PROVE  ListsGood' /\ Promise
  <1>1. Shape /\ ListsGood
    BY DEF ListsInv, SlotsInv, TablesInv
  <1>2. ListsGood' /\ ListsStay
    BY <1>1, HeadsSame, CalmLists
  <1>3. ASSUME NEW c \in Boxes PROVE Same(c)
    <2>1. BoxStays(c) /\ SlotsStay(c)
      BY DEF BoxStays, SlotsStay
    <2>2. ListOf("sendWait", c)' = ListOf("sendWait", c) /\ ListOf("recvWait", c)' = ListOf("recvWait", c)
      BY <1>2 DEF ListsStay, Kinds
    <2>3. QED
      BY <1>1, <2>1, <2>2, SameOf DEF Calm
  <1>4. UNCHANGED Abstract!vars
    BY <1>3, Stutters
  <1>5. QED
    BY <1>2, <1>4 DEF Promise

LEMMA SameOn ==
  ASSUME NEW T, NEW U, NEW V, SameLinks(T, U), SameMessages(T, U), SameLinks(U, V),
         \A q \in Procs : V[q].message = U[q].message, blocked \subseteq Procs
  PROVE  SameLinks(T, V) /\ SameMessages(T, V)
  <1>1. SameLinks(T, V)
    BY DEF SameLinks
  <1>2. SameMessages(T, V)
    BY DEF SameMessages
  <1>3. QED
    BY <1>1, <1>2

LEMMA InvParts ==
  ASSUME ListsInv
  PROVE  /\ TablesInv /\ Shape /\ ListsGood /\ Standings /\ frame \in [Procs -> Frames]
         /\ MboxProcTable \in [Procs -> MboxProc] /\ blocked \subseteq Procs
         /\ MailBoxTable \in [Boxes -> Mailbox] /\ SlotTable \in [Slots -> MailSlot]
         /\ FreeIsBlank /\ DevicesUsed
  BY DEF ListsInv, SlotsInv, TablesInv, Shape, Standings

LEMMA MessageFrom ==
  ASSUME NEW p \in Procs \cup {NULL}, NEW b \in Boxes
  PROVE  Message(p, b) \in Messages
  BY DEF Message, Messages

(* The receiver that is first on the list leaves it.                       *)
LEMMA ReceiverStep ==
  ASSUME ListsInv, NEW b \in Boxes, NEW r, r = MailBoxTable[b].blockRecvList, r # NULL,
         MailBoxTable[b].status = "USED",
         NEW pt \in [Procs -> MboxProc], SameLinks(MboxProcTable, pt), SameMessages(MboxProcTable, pt),
         NEW v, v = pt[r].nextBlockRecv,
         MailBoxTable' = [MailBoxTable EXCEPT ![b].blockRecvList = v],
         SameLinks(pt, MboxProcTable'), \A q \in Procs : MboxProcTable'[q].message = pt[q].message,
         NEW p, blocked' = BlockedAfter(p, r),
         SlotTable' = SlotTable, frame' = frame, zapped' = zapped,
         delivery' = delivery \/ \E x \in Messages : delivery' = [to |-> r, message |-> x]
  PROVE  ListsGood' /\ Promise
  <1>1. Shape /\ blocked \subseteq Procs
    BY InvParts
  <1>2. r \in Procs
    BY <1>1, BoxFields
  <1>3. v = MboxProcTable[r].nextBlockRecv
    BY <1>2 DEF SameLinks
  <1>4. SameLinks(MboxProcTable, MboxProcTable') /\ SameMessages(MboxProcTable, MboxProcTable')
    BY <1>1, SameOn
  <1>5. /\ ListsGood' /\ Apart(b) /\ MailBoxTable'[b].status = MailBoxTable[b].status
        /\ QueueOf(b)' = QueueOf(b)
        /\ WaitingOf(b) # <<>> /\ Head(WaitingOf(b)) = r
        /\ WaitingOf(b)' = Tail(WaitingOf(b))
    BY <1>3, <1>4, ReceiverLeaves
  <1>6. StaysOpen(b)
    BY <1>5 DEF StaysOpen
  <1>7. delivery' = delivery \/ \E x \in Messages : delivery' = [to |-> Head(WaitingOf(b)), message |-> x]
    BY <1>5
  <1>8. Abstract!Next
    BY <1>5, <1>6, <1>7, HandsOver
  <1>9. QED
    BY <1>5, <1>8 DEF Promise

LEMMA HandOverStep ==
  ASSUME ListsInv, NEW p, NEW b \in Boxes, NEW x \in Messages, NEW n \in Int,
         NEW pt \in [Procs -> MboxProc], SameLinks(MboxProcTable, pt), SameMessages(MboxProcTable, pt),
         HandOver(p, pt, b, x, n), MailBoxTable[b].status = "USED", MailBoxTable[b].blockRecvList # NULL,
         frame' = frame, zapped' = zapped
  PROVE  ListsGood' /\ Promise
  <1>1. PICK r : r = MailBoxTable[b].blockRecvList
    OBVIOUS
  <1>2. PICK v : v = pt[r].nextBlockRecv
    OBVIOUS
  <1>3. /\ MboxProcTable' = SizeSet(pt, r, n) /\ SlotTable' = SlotTable
        /\ blocked' = BlockedAfter(p, r) /\ delivery' = [to |-> r, message |-> x]
    BY <1>1 DEF HandOver, SizeSet
  <1>4. MailBoxTable' = [MailBoxTable EXCEPT ![b].blockRecvList = v]
    BY <1>1, <1>2 DEF HandOver
  <1>5. SameLinks(pt, MboxProcTable') /\ \A q \in Procs : MboxProcTable'[q].message = pt[q].message
    BY <1>3, EntryKeeps
  <1>6. \E y \in Messages : delivery' = [to |-> r, message |-> y]
    BY <1>3
  <1>7. QED
    BY <1>1, <1>2, <1>3, <1>4, <1>5, <1>6, ReceiverStep

LEMMA SendStep ==
  ASSUME ListsInv, NEW p \in Procs, NEW b \in Boxes, NEW n \in Sizes, MboxSend(p, b, Message(p, b), n)
  PROVE  ListsGood' /\ Promise
  <1>1. PICK x : x = Message(p, b)
    OBVIOUS
  <1>2. x \in Messages /\ x \in Messages \cup {NULL} /\ n \in Int
    BY <1>1, MessageFrom, SizesAre
  <1>3. PICK pt, r : pt = Entered(p, x, n) /\ r = MailBoxTable[b].blockRecvList
    OBVIOUS
  <1>4. /\ MailBoxTable[b].status = "USED" /\ p \notin blocked /\ frame' = frame /\ zapped' = zapped
        /\ \/ r # NULL /\ HandOver(p, pt, b, x, n)
           \/ /\ r # NULL
              /\ MboxProcTable' = StatusSet(pt, r, "FAILED")
              /\ MailBoxTable' = [MailBoxTable EXCEPT ![b].blockRecvList = pt[r].nextBlockRecv]
              /\ blocked' = BlockedAfter(p, r)
              /\ SlotTable' = SlotTable /\ delivery' = delivery
           \/ /\ r = NULL /\ MailBoxTable[b].numSlots > MailBoxTable[b].slotsUsed
              /\ FreeSlots # {} /\ ToSlot(pt, b, x, n)
    BY <1>1, <1>3, RunnerIsFree DEF MboxSend, StatusSet, SendCall, MayCall, procVars
  <1>5. /\ pt \in [Procs -> MboxProc]
        /\ SameLinks(MboxProcTable, pt) /\ SameMessages(MboxProcTable, pt)
    BY <1>2, <1>3, <1>4, InvParts, EnteredKeeps
  <1>6. CASE r # NULL /\ HandOver(p, pt, b, x, n)
    BY <1>2, <1>3, <1>4, <1>5, <1>6, HandOverStep
  <1>7. CASE /\ r # NULL
             /\ MboxProcTable' = StatusSet(pt, r, "FAILED")
             /\ MailBoxTable' = [MailBoxTable EXCEPT ![b].blockRecvList = pt[r].nextBlockRecv]
             /\ blocked' = BlockedAfter(p, r)
             /\ SlotTable' = SlotTable /\ delivery' = delivery
    <2>1. PICK v : v = pt[r].nextBlockRecv
      OBVIOUS
    <2>2. MailBoxTable' = [MailBoxTable EXCEPT ![b].blockRecvList = v]
      BY <1>7, <2>1
    <2>3. SameLinks(pt, MboxProcTable') /\ \A q \in Procs : MboxProcTable'[q].message = pt[q].message
      <3>1. PICK f : f = "FAILED"
        OBVIOUS
      <3>2. MboxProcTable' = StatusSet(pt, r, f)
        BY <1>7, <3>1
      <3>3. QED
        BY <1>5, <3>2, EntryKeeps
    <2>4. /\ r # NULL /\ blocked' = BlockedAfter(p, r)
          /\ SlotTable' = SlotTable /\ delivery' = delivery
      BY <1>7
    <2>5. QED
      BY <1>3, <1>4, <1>5, <2>1, <2>2, <2>3, <2>4, ReceiverStep
  <1>8. CASE /\ r = NULL /\ MailBoxTable[b].numSlots > MailBoxTable[b].slotsUsed
             /\ FreeSlots # {} /\ ToSlot(pt, b, x, n)
    BY <1>2, <1>3, <1>4, <1>5, <1>8, ToSlotStep
  <1>9. QED
    BY <1>4, <1>6, <1>7, <1>8

LEMMA CondSendStep ==
  ASSUME ListsInv, NEW p \in Procs \cup {NULL}, p \notin blocked, NEW b \in Boxes, NEW x \in Messages,
         NEW n \in Int, CondSend(p, b, x, n), MailBoxTable[b].status = "USED",
         frame' = frame, zapped' = zapped
  PROVE  ListsGood' /\ Promise
  <1>1. PICK pt, r : pt = Entered(p, x, n) /\ r = MailBoxTable[b].blockRecvList
    OBVIOUS
  <1>2. /\ pt \in [Procs -> MboxProc]
        /\ SameLinks(MboxProcTable, pt) /\ SameMessages(MboxProcTable, pt)
    <2>1. x \in Messages \cup {NULL} /\ Shape
      BY InvParts
    <2>2. QED
      BY <1>1, <2>1, EnteredKeeps
  <1>3. \/ r # NULL /\ HandOver(p, pt, b, x, n)
        \/ ~IsQuiet(b) /\ r = NULL /\ ToSlot(pt, b, x, n)
        \/ /\ MboxProcTable' = pt /\ MailBoxTable' = MailBoxTable
           /\ SlotTable' = SlotTable /\ blocked' = blocked /\ delivery' = delivery
    BY <1>1 DEF CondSend
  <1>4. CASE r # NULL /\ HandOver(p, pt, b, x, n)
    BY <1>1, <1>2, <1>4, HandOverStep
  <1>5. CASE ~IsQuiet(b) /\ r = NULL /\ ToSlot(pt, b, x, n)
    <2>1. PICK box : box = MailBoxTable[b]
      OBVIOUS
    <2>2. /\ box.numSlots \in Int /\ box.slotsUsed \in Int /\ box.slotsUsed \in 0..box.numSlots
      BY <2>1, InvParts, BoxFields DEF TablesInv, BoxesGood, GoodBox
    <2>3. box.numSlots # box.slotsUsed /\ FreeSlots # {}
      BY <1>1, <1>5, <2>1, <2>2 DEF IsQuiet
    <2>4. box.numSlots > box.slotsUsed
      BY <2>2, <2>3
    <2>5. QED
      BY <1>1, <1>2, <1>5, <2>1, <2>3, <2>4, ToSlotStep
  <1>6. CASE /\ MboxProcTable' = pt /\ MailBoxTable' = MailBoxTable
             /\ SlotTable' = SlotTable /\ blocked' = blocked /\ delivery' = delivery
    <2>1. Calm
      BY <1>2, <1>6, InvParts, OthersWait DEF Calm, ZappedStay
    <2>2. QED
      BY <1>6, <2>1, CalmStep
  <1>7. QED
    BY <1>3, <1>4, <1>5, <1>6

LEMMA LinksWalked ==
  ASSUME NEW pt, SameLinks(MboxProcTable, pt), NEW b
  PROVE  Senders(pt, b) = ListOf("sendWait", b) /\ Receivers(pt, b) = ListOf("recvWait", b)
  <1>1. /\ [p \in Procs |-> pt[p].nextBlockSend] = [p \in Procs |-> MboxProcTable[p].nextBlockSend]
        /\ [p \in Procs |-> pt[p].nextBlockRecv] = [p \in Procs |-> MboxProcTable[p].nextBlockRecv]
    BY DEF SameLinks
  <1>2. QED
    BY <1>1 DEF Senders, Receivers, ListOf, HeadOf, LinksOf

LEMMA StopStep ==
  ASSUME ListsInv, NEW how, Stop(how)
  PROVE  ListsGood' /\ Promise
  <1>1. /\ MailBoxTable' = MailBoxTable /\ SlotTable' = SlotTable /\ MboxProcTable' = MboxProcTable
        /\ blocked' = blocked /\ frame' = frame /\ delivery' = delivery /\ zapped' = zapped
    BY DEF Stop, procVars
  <1>2. Calm
    BY <1>1, InvParts, OthersWait DEF Calm, ZappedStay, SameLinks, SameMessages
  <1>3. QED
    BY <1>1, <1>2, CalmStep

(* What putting a process behind the last of a list does to the links.     *)
LEMMA LinkSet ==
  ASSUME NEW T \in [Procs -> MboxProc], NEW q \in Procs, NEW v, NEW r \in Procs
  PROVE  /\ SendSet(T, q, v)[r].nextBlockSend = IF r = q THEN v ELSE T[r].nextBlockSend
         /\ SendSet(T, q, v)[r].nextBlockRecv = T[r].nextBlockRecv
         /\ RecvSet(T, q, v)[r].nextBlockRecv = IF r = q THEN v ELSE T[r].nextBlockRecv
         /\ RecvSet(T, q, v)[r].nextBlockSend = T[r].nextBlockSend
  BY DEF SendSet, RecvSet, MboxProc

LEMMA SendLinkSet ==
  ASSUME Shape, NEW pt \in [Procs -> MboxProc], SameLinks(MboxProcTable, pt),
         NEW q \in Procs, NEW v, MboxProcTable' = SendSet(pt, q, v)
  PROVE  /\ LinksOf("sendWait")' = [LinksOf("sendWait") EXCEPT ![q] = v]
         /\ LinksOf("recvWait")' = LinksOf("recvWait")
  <1>1. PICK T : T = SendSet(pt, q, v)
    OBVIOUS
  <1>2. \A r \in Procs : /\ T[r].nextBlockSend = IF r = q THEN v ELSE MboxProcTable[r].nextBlockSend
                         /\ T[r].nextBlockRecv = MboxProcTable[r].nextBlockRecv
    <2>1. ASSUME NEW r \in Procs
          PROVE  /\ T[r].nextBlockSend = IF r = q THEN v ELSE MboxProcTable[r].nextBlockSend
                 /\ T[r].nextBlockRecv = MboxProcTable[r].nextBlockRecv
      <3>1. /\ T[r].nextBlockSend = IF r = q THEN v ELSE pt[r].nextBlockSend
            /\ T[r].nextBlockRecv = pt[r].nextBlockRecv
        BY <1>1, LinkSet
      <3>2. QED
        BY <3>1 DEF SameLinks
    <2>2. QED
      BY <2>1
  <1>3. LinksOf("sendWait")' = [r \in Procs |-> T[r].nextBlockSend]
    BY <1>1 DEF LinksOf
  <1>4. LinksOf("recvWait")' = [r \in Procs |-> T[r].nextBlockRecv]
    BY <1>1 DEF LinksOf
  <1>5. LinksOf("sendWait") = [r \in Procs |-> MboxProcTable[r].nextBlockSend]
    BY DEF LinksOf
  <1>6. LinksOf("recvWait") = [r \in Procs |-> MboxProcTable[r].nextBlockRecv]
    BY DEF LinksOf
  <1>7. LinksOf("recvWait")' = LinksOf("recvWait")
    BY <1>2, <1>4, <1>6
  <1>8. LinksOf("sendWait")' = [LinksOf("sendWait") EXCEPT ![q] = v]
    BY <1>2, <1>3, <1>5
  <1>9. QED
    BY <1>7, <1>8

LEMMA RecvLinkSet ==
  ASSUME Shape, NEW pt \in [Procs -> MboxProc], SameLinks(MboxProcTable, pt),
         NEW q \in Procs, NEW v, MboxProcTable' = RecvSet(pt, q, v)
  PROVE  /\ LinksOf("recvWait")' = [LinksOf("recvWait") EXCEPT ![q] = v]
         /\ LinksOf("sendWait")' = LinksOf("sendWait")
  <1>1. PICK T : T = RecvSet(pt, q, v)
    OBVIOUS
  <1>2. \A r \in Procs : /\ T[r].nextBlockRecv = IF r = q THEN v ELSE MboxProcTable[r].nextBlockRecv
                         /\ T[r].nextBlockSend = MboxProcTable[r].nextBlockSend
    <2>1. ASSUME NEW r \in Procs
          PROVE  /\ T[r].nextBlockRecv = IF r = q THEN v ELSE MboxProcTable[r].nextBlockRecv
                 /\ T[r].nextBlockSend = MboxProcTable[r].nextBlockSend
      <3>1. /\ T[r].nextBlockRecv = IF r = q THEN v ELSE pt[r].nextBlockRecv
            /\ T[r].nextBlockSend = pt[r].nextBlockSend
        BY <1>1, LinkSet
      <3>2. QED
        BY <3>1 DEF SameLinks
    <2>2. QED
      BY <2>1
  <1>3. LinksOf("sendWait")' = [r \in Procs |-> T[r].nextBlockSend]
    BY <1>1 DEF LinksOf
  <1>4. LinksOf("recvWait")' = [r \in Procs |-> T[r].nextBlockRecv]
    BY <1>1 DEF LinksOf
  <1>5. LinksOf("sendWait") = [r \in Procs |-> MboxProcTable[r].nextBlockSend]
    BY DEF LinksOf
  <1>6. LinksOf("recvWait") = [r \in Procs |-> MboxProcTable[r].nextBlockRecv]
    BY DEF LinksOf
  <1>7. LinksOf("sendWait")' = LinksOf("sendWait")
    BY <1>2, <1>3, <1>5
  <1>8. LinksOf("recvWait")' = [LinksOf("recvWait") EXCEPT ![q] = v]
    BY <1>2, <1>4, <1>6
  <1>9. QED
    BY <1>7, <1>8

LEMMA LastIs ==
  ASSUME ListsGood, NEW k \in Kinds, NEW b \in Boxes, ListOf(k, b) # <<>>
  PROVE  Last(ListOf(k, b)) \in Procs
  <1>1. PICK q : q = ListOf(k, b)
    OBVIOUS
  <1>2. q \in Seq(Procs) /\ q # <<>>
    BY <1>1, ListsGoodOf
  <1>3. Len(q) \in 1..Len(q) /\ \A i \in 1..Len(q) : q[i] \in Procs
    BY <1>2, LenProperties, EmptySeq
  <1>4. q[Len(q)] \in Procs
    BY <1>3
  <1>5. QED
    BY <1>1, <1>4 DEF Last

SenderPutLast(b, p, pt) ==
    \/ /\ ListOf("sendWait", b) = <<>> /\ MboxProcTable' = pt
       /\ MailBoxTable' = [MailBoxTable EXCEPT ![b].blockSendList = p]
    \/ /\ ListOf("sendWait", b) # <<>> /\ MboxProcTable' = SendSet(pt, Last(ListOf("sendWait", b)), p)
       /\ MailBoxTable' = MailBoxTable

ReceiverPutLast(b, p, pt) ==
    \/ /\ ListOf("recvWait", b) = <<>> /\ MboxProcTable' = pt
       /\ MailBoxTable' = [MailBoxTable EXCEPT ![b].blockRecvList = p]
    \/ /\ ListOf("recvWait", b) # <<>> /\ MboxProcTable' = RecvSet(pt, Last(ListOf("recvWait", b)), p)
       /\ MailBoxTable' = MailBoxTable

LEMMA SenderGoesLast ==
  ASSUME ListsInv, NEW p \in Procs, NEW b \in Boxes, NEW pt \in [Procs -> MboxProc],
         SameLinks(MboxProcTable, pt), pt[p].nextBlockSend = NULL, SenderPutLast(b, p, pt),
         blocked' = blocked \cup {p}, frame' = [frame EXCEPT ![p] = At("sendWait", b)], zapped' = zapped
  PROVE  PutLast("sendWait", b, p) /\ \A c \in Boxes : BoxStays(c)
  <1>1. PICK k : k = "sendWait"
    OBVIOUS
  <1>2. Shape /\ ListsGood /\ k \in Kinds
    BY <1>1, InvParts DEF Kinds
  <1>3. LinksOf(k)[p] = NULL
    BY <1>1, LinksAre DEF SameLinks
  <1>4. CASE /\ ListOf(k, b) = <<>> /\ MboxProcTable' = pt
             /\ MailBoxTable' = [MailBoxTable EXCEPT ![b].blockSendList = p]
    <2>1. HeadOf(k, b)' = p /\ OtherHeadsStay(k, b) /\ \A c \in Boxes : BoxStays(c)
      BY <1>1, <1>2, <1>4, SenderHeadSet DEF BoxStays
    <2>2. LinksStay
      BY <1>4, SameLinksStay
    <2>3. QED
      BY <1>1, <1>2, <1>3, <1>4, <2>1, <2>2 DEF PutLast, OtherHeadsStay, LinksStay
  <1>5. CASE /\ ListOf(k, b) # <<>> /\ MboxProcTable' = SendSet(pt, Last(ListOf(k, b)), p)
             /\ MailBoxTable' = MailBoxTable
    <2>1. PICK last : last = Last(ListOf(k, b))
      OBVIOUS
    <2>2. last \in Procs
      BY <1>2, <1>5, <2>1, LastIs
    <2>3. /\ LinksOf("sendWait")' = [LinksOf("sendWait") EXCEPT ![last] = p]
          /\ LinksOf("recvWait")' = LinksOf("recvWait")
      BY <1>2, <1>5, <2>1, <2>2, SendLinkSet
    <2>4. HeadsStay /\ \A c \in Boxes : BoxStays(c)
      BY <1>5, HeadsSame DEF BoxStays
    <2>5. \A j \in Kinds : j # k => LinksOf(j)' = LinksOf(j)
      BY <1>1, <2>3 DEF Kinds
    <2>6. LinksOf(k)' = [LinksOf(k) EXCEPT ![Last(ListOf(k, b))] = p]
      BY <1>1, <2>1, <2>3
    <2>7. QED
      BY <1>1, <1>2, <1>3, <1>5, <2>4, <2>5, <2>6 DEF PutLast, HeadsStay
  <1>6. QED
    BY <1>1, <1>4, <1>5 DEF SenderPutLast

LEMMA ReceiverGoesLast ==
  ASSUME ListsInv, NEW p \in Procs, NEW b \in Boxes, NEW pt \in [Procs -> MboxProc],
         SameLinks(MboxProcTable, pt), pt[p].nextBlockRecv = NULL, ReceiverPutLast(b, p, pt),
         blocked' = blocked \cup {p}, frame' = [frame EXCEPT ![p] = At("recvWait", b)], zapped' = zapped
  PROVE  PutLast("recvWait", b, p) /\ \A c \in Boxes : BoxStays(c)
  <1>1. PICK k : k = "recvWait"
    OBVIOUS
  <1>2. Shape /\ ListsGood /\ k \in Kinds
    BY <1>1, InvParts DEF Kinds
  <1>3. LinksOf(k)[p] = NULL
    BY <1>1, LinksAre DEF SameLinks
  <1>4. CASE /\ ListOf(k, b) = <<>> /\ MboxProcTable' = pt
             /\ MailBoxTable' = [MailBoxTable EXCEPT ![b].blockRecvList = p]
    <2>1. HeadOf(k, b)' = p /\ OtherHeadsStay(k, b) /\ \A c \in Boxes : BoxStays(c)
      BY <1>1, <1>2, <1>4, ReceiverHeadSet DEF BoxStays
    <2>2. LinksStay
      BY <1>4, SameLinksStay
    <2>3. QED
      BY <1>1, <1>2, <1>3, <1>4, <2>1, <2>2 DEF PutLast, OtherHeadsStay, LinksStay
  <1>5. CASE /\ ListOf(k, b) # <<>> /\ MboxProcTable' = RecvSet(pt, Last(ListOf(k, b)), p)
             /\ MailBoxTable' = MailBoxTable
    <2>1. PICK last : last = Last(ListOf(k, b))
      OBVIOUS
    <2>2. last \in Procs
      BY <1>2, <1>5, <2>1, LastIs
    <2>3. /\ LinksOf("recvWait")' = [LinksOf("recvWait") EXCEPT ![last] = p]
          /\ LinksOf("sendWait")' = LinksOf("sendWait")
      BY <1>2, <1>5, <2>1, <2>2, RecvLinkSet
    <2>4. HeadsStay /\ \A c \in Boxes : BoxStays(c)
      BY <1>5, HeadsSame DEF BoxStays
    <2>5. \A j \in Kinds : j # k => LinksOf(j)' = LinksOf(j)
      BY <1>1, <2>3 DEF Kinds
    <2>6. LinksOf(k)' = [LinksOf(k) EXCEPT ![Last(ListOf(k, b))] = p]
      BY <1>1, <2>1, <2>3
    <2>7. QED
      BY <1>1, <1>2, <1>3, <1>5, <2>4, <2>5, <2>6 DEF PutLast, HeadsStay
  <1>6. QED
    BY <1>1, <1>4, <1>5 DEF ReceiverPutLast

LEMMA LastKeepsMessages ==
  ASSUME NEW p, NEW b, NEW pt \in [Procs -> MboxProc], blocked \subseteq Procs,
         SameMessages(MboxProcTable, pt), SenderPutLast(b, p, pt) \/ ReceiverPutLast(b, p, pt)
  PROVE  /\ SameMessages(MboxProcTable, MboxProcTable')
         /\ \A q \in Procs : MboxProcTable'[q].message = pt[q].message
  <1>1. ASSUME NEW k PROVE \A q \in Procs : /\ SendSet(pt, k, p)[q].message = pt[q].message
                                            /\ RecvSet(pt, k, p)[q].message = pt[q].message
    BY EntryKeeps
  <1>2. \A q \in Procs : MboxProcTable'[q].message = pt[q].message
    <2>1. PICK k, j : k = Last(ListOf("sendWait", b)) /\ j = Last(ListOf("recvWait", b))
      OBVIOUS
    <2>2. MboxProcTable' \in {pt, SendSet(pt, k, p), RecvSet(pt, j, p)}
      BY <2>1 DEF SenderPutLast, ReceiverPutLast
    <2>3. QED
      BY <1>1, <2>2
  <1>3. QED
    BY <1>2 DEF SameMessages

(* A sender goes to the end of its list: its message is the last.          *)
LEMMA SenderJoins ==
  ASSUME ListsInv, Shape', NEW p \in Procs, p \notin blocked, NEW b \in Boxes,
         NEW x \in Messages, NEW pt \in [Procs -> MboxProc],
         SameLinks(MboxProcTable, pt), SameMessages(MboxProcTable, pt),
         pt[p].message = x, pt[p].nextBlockSend = NULL, SenderPutLast(b, p, pt),
         blocked' = blocked \cup {p}, frame' = [frame EXCEPT ![p] = At("sendWait", b)], zapped' = zapped,
         SlotTable' = SlotTable, delivery' = delivery,
         MailBoxTable[b].status = "USED", MailBoxTable[b].blockRecvList = NULL
  PROVE  ListsGood' /\ Promise
  <1>1. Shape /\ ListsGood /\ frame \in [Procs -> Frames] /\ blocked \subseteq Procs
    BY InvParts
  <1>2. PutLast("sendWait", b, p) /\ \A c \in Boxes : BoxStays(c)
    BY SenderGoesLast
  <1>3. PICK k : k = "sendWait"
    OBVIOUS
  <1>4. PICK q : q = ListOf(k, b)
    OBVIOUS
  <1>5. /\ ListsGood' /\ OthersStay(k, b) /\ ListOf(k, b)' = Append(q, p)
        /\ k \in Kinds /\ q \in Seq(Procs)
    <2>1. k \in Kinds
      BY <1>3 DEF Kinds
    <2>2. ListsGood' /\ OthersStay(k, b) /\ ListOf(k, b)' = Append(ListOf(k, b), p)
      BY <1>1, <1>2, <1>3, <2>1, ListsGainLast
    <2>3. QED
      BY <1>1, <1>4, <2>1, <2>2, ListsGoodOf
  <1>6. /\ SameMessages(MboxProcTable, MboxProcTable') /\ MboxProcTable'[p].message = x
    BY <1>1, LastKeepsMessages
  <1>7. \A c \in Boxes : /\ ListOf("recvWait", c)' = ListOf("recvWait", c)
                         /\ c # b => ListOf("sendWait", c)' = ListOf("sendWait", c)
    BY <1>3, <1>5 DEF OthersStay, Kinds
  <1>8. \A c \in Boxes : SlotsStay(c)
    BY DEF SlotsStay
  <1>9. Apart(b)
    BY <1>1, <1>2, <1>6, <1>7, <1>8, SameOf DEF Apart
  <1>10. PICK m, l : m = Msgs(SlotTable, MailBoxTable[b].slotList) /\ l = Msgs(MboxProcTable, q)
    OBVIOUS
  <1>11. m \in Seq(AnyMessage) /\ l \in Seq(AnyMessage) /\ x \in AnyMessage
    BY <1>1, <1>3, <1>4, <1>10, PartsAre DEF AnyMessage
  <1>12. Msgs(MboxProcTable', Append(q, p)) = Append(l, x)
    <2>1. PICK T, more : T = MboxProcTable' /\ Longer(more, q, p)
      BY DEF Longer
    <2>2. Carries(T, Procs, AnyMessage) /\ x = T[p].message
      BY <1>6, <2>1 DEF Shape, MboxProc, AnyMessage, Carries
    <2>3. Longer(Msgs(T, more), Msgs(T, q), x)
      BY <1>5, <2>1, <2>2, MsgsAppend
    <2>4. Msgs(T, q) = l
      BY <1>1, <1>3, <1>4, <1>6, <1>10, <2>1, SendersSame
    <2>5. QED
      BY <2>1, <2>3, <2>4 DEF Longer
  <1>13. WaitingOf(b) = <<>> /\ WaitingOf(b)' = <<>> /\ QueueOf(b) = m \o l
    <2>1. ListOf("recvWait", b) = <<>>
      BY <1>1, NobodyOn
    <2>2. ListOf("recvWait", b)' = <<>>
      BY <1>7, <2>1
    <2>3. QED
      BY <1>3, <1>4, <1>10, <2>1, <2>2, QueuesAre, QueuesBecome
  <1>14. StaysOpen(b)
    BY <1>2 DEF StaysOpen, BoxStays
  <1>15. QueueOf(b)' = m \o Append(l, x)
    <2>1. Msgs(SlotTable', MailBoxTable'[b].slotList) = m
      BY <1>2, <1>10 DEF BoxStays
    <2>2. Msgs(MboxProcTable', ListOf("sendWait", b)') = Append(l, x)
      BY <1>3, <1>5, <1>12
    <2>3. QED
      BY <1>14, <2>1, <2>2, QueuesBecome DEF StaysOpen
  <1>16. QueueOf(b)' = Append(QueueOf(b), x) /\ QueueOf(b) \in Seq(AnyMessage)
    <2>1. m \o Append(l, x) = Append(m \o l, x)
      BY <1>11, ConcatAppend
    <2>2. m \o l \in Seq(AnyMessage)
      BY <1>11, ConcatProperties
    <2>3. QED
      BY <1>13, <1>15, <2>1, <2>2
  <1>17. Abstract!Next
    BY <1>9, <1>13, <1>14, <1>16, Accepts
  <1>18. QED
    BY <1>5, <1>17 DEF Promise

(* A receiver goes to the end of its list, while there is nothing to take. *)
LEMMA ReceiverJoins ==
  ASSUME ListsInv, NEW p \in Procs, p \notin blocked, NEW b \in Boxes,
         NEW pt \in [Procs -> MboxProc],
         SameLinks(MboxProcTable, pt), SameMessages(MboxProcTable, pt),
         pt[p].nextBlockRecv = NULL, ReceiverPutLast(b, p, pt),
         blocked' = blocked \cup {p}, frame' = [frame EXCEPT ![p] = At("recvWait", b)], zapped' = zapped,
         SlotTable' = SlotTable, delivery' = delivery,
         MailBoxTable[b].status = "USED", MailBoxTable[b].blockSendList = NULL,
         MailBoxTable[b].slotList = <<>>
  PROVE  ListsGood' /\ Promise
  <1>1. Shape /\ ListsGood /\ frame \in [Procs -> Frames] /\ blocked \subseteq Procs
    BY InvParts
  <1>2. PutLast("recvWait", b, p) /\ \A c \in Boxes : BoxStays(c)
    BY ReceiverGoesLast
  <1>3. PICK k : k = "recvWait"
    OBVIOUS
  <1>4. ListsGood' /\ OthersStay(k, b) /\ ListOf(k, b)' = Append(ListOf(k, b), p)
    <2>1. k \in Kinds
      BY <1>3 DEF Kinds
    <2>2. QED
      BY <1>1, <1>2, <1>3, <2>1, ListsGainLast
  <1>5. SameMessages(MboxProcTable, MboxProcTable')
    BY <1>1, LastKeepsMessages
  <1>6. \A c \in Boxes : /\ ListOf("sendWait", c)' = ListOf("sendWait", c)
                         /\ c # b => ListOf("recvWait", c)' = ListOf("recvWait", c)
    BY <1>3, <1>4 DEF OthersStay, Kinds
  <1>7. \A c \in Boxes : SlotsStay(c)
    BY DEF SlotsStay
  <1>8. Apart(b)
    BY <1>1, <1>2, <1>5, <1>6, <1>7, SameOf DEF Apart
  <1>9. StaysOpen(b)
    BY <1>2 DEF StaysOpen, BoxStays
  <1>10. ListOf("sendWait", b) = <<>> /\ ListOf("sendWait", b)' = <<>>
    BY <1>1, <1>6, NobodyOn
  <1>11. <<>> \o <<>> = <<>>
    BY ConcatEmptySeq, EmptySeq
  <1>12. QueueOf(b) = <<>>
    BY <1>10, <1>11, QueuesAre, NoMsgs
  <1>13. QueueOf(b)' = <<>>
    <2>1. MailBoxTable'[b].slotList = <<>> /\ MailBoxTable'[b].status = "USED"
      BY <1>2 DEF BoxStays
    <2>2. QueueOf(b)' = Msgs(SlotTable', <<>>) \o Msgs(MboxProcTable', <<>>)
      BY <1>10, <2>1, QueuesBecome
    <2>3. QED
      BY <1>11, <2>2, NoMsgs
  <1>14. WaitingOf(b)' = Append(WaitingOf(b), p)
    <2>1. WaitingOf(b)' = ListOf("recvWait", b)'
      BY <1>9, QueuesBecome DEF StaysOpen
    <2>2. WaitingOf(b) = ListOf("recvWait", b)
      BY <1>9, QueuesAre DEF StaysOpen
    <2>3. QED
      BY <1>3, <1>4, <2>1, <2>2
  <1>15. Abstract!Next
    BY <1>8, <1>9, <1>12, <1>13, <1>14, Waits
  <1>16. QED
    BY <1>4, <1>15 DEF Promise

LEMMA SendBlocksStep ==
  ASSUME ListsInv, Careful, NEW p \in Procs, NEW b \in Boxes, NEW n \in Sizes,
         MboxSendBlocks(p, b, Message(p, b), n)
  PROVE  ListsGood' /\ Promise
  <1>1. PICK x : x = Message(p, b)
    OBVIOUS
  <1>2. x \in Messages /\ x \in Messages \cup {NULL} /\ n \in Int
    BY <1>1, MessageFrom, SizesAre
  <1>3. PICK pt : pt = Entered(p, x, n)
    OBVIOUS
  <1>4. PICK q : q = Senders(pt, b)
    OBVIOUS
  <1>5. /\ MailBoxTable[b].status = "USED" /\ MailBoxTable[b].blockRecvList = NULL
        /\ pt[p].nextBlockSend = NULL /\ p \notin blocked
        /\ \/ Stop("hang")
           \/ /\ \/ q = <<>> /\ MailBoxTable' = [MailBoxTable EXCEPT ![b].blockSendList = p]
                    /\ MboxProcTable' = pt
                 \/ q # <<>> /\ MboxProcTable' = SendSet(pt, Last(q), p)
                    /\ MailBoxTable' = MailBoxTable
              /\ blocked' = blocked \cup {p} /\ frame' = [frame EXCEPT ![p] = At("sendWait", b)]
              /\ zapped' = zapped /\ SlotTable' = SlotTable /\ delivery' = delivery
    BY <1>1, <1>3, <1>4, RunnerIsFree
       DEF MboxSendBlocks, SendSet, SendCall, MayCall, MayWait, procVars
  <1>6. /\ pt \in [Procs -> MboxProc] /\ pt[p].message = x
        /\ SameLinks(MboxProcTable, pt) /\ SameMessages(MboxProcTable, pt)
    BY <1>2, <1>3, <1>5, InvParts, EnteredKeeps
  <1>7. q = ListOf("sendWait", b)
    BY <1>4, <1>6, LinksWalked
  <1>8. CASE Stop("hang")
    BY <1>8, StopStep
  <1>9. CASE /\ \/ q = <<>> /\ MailBoxTable' = [MailBoxTable EXCEPT ![b].blockSendList = p]
                   /\ MboxProcTable' = pt
                \/ q # <<>> /\ MboxProcTable' = SendSet(pt, Last(q), p)
                   /\ MailBoxTable' = MailBoxTable
             /\ blocked' = blocked \cup {p} /\ frame' = [frame EXCEPT ![p] = At("sendWait", b)]
             /\ zapped' = zapped /\ SlotTable' = SlotTable /\ delivery' = delivery
    <2>1. SenderPutLast(b, p, pt)
      BY <1>7, <1>9 DEF SenderPutLast
    <2>2. /\ blocked' = blocked \cup {p} /\ frame' = [frame EXCEPT ![p] = At("sendWait", b)]
          /\ zapped' = zapped /\ SlotTable' = SlotTable /\ delivery' = delivery
      BY <1>9
    <2>3. Shape'
      BY <1>1, InvParts, SendBlocksKeepsTables DEF TablesInv
    <2>4. QED
      BY <1>2, <1>5, <1>6, <2>1, <2>2, <2>3, SenderJoins
  <1>10. QED
    BY <1>5, <1>8, <1>9

LEMMA ReceiveBlocksStep ==
  ASSUME ListsInv, Careful, NEW p \in Procs, NEW b \in Boxes, NEW n \in Sizes \cup {IntSize},
         MboxReceiveBlocks(p, b, n)
  PROVE  ListsGood' /\ Promise
  <1>1. PICK x : x = NULL
    OBVIOUS
  <1>2. x \in Messages \cup {NULL} /\ n \in Int
    BY <1>1, SizesAre
  <1>3. PICK pt : pt = Entered(p, x, n)
    OBVIOUS
  <1>4. PICK q : q = Receivers(pt, b)
    OBVIOUS
  <1>5. /\ MailBoxTable[b].status = "USED" /\ ~MeetsSender(b) /\ MailBoxTable[b].slotList = <<>>
        /\ pt[p].nextBlockRecv = NULL
        /\ \/ Stop("hang")
           \/ /\ \/ q = <<>> /\ MailBoxTable' = [MailBoxTable EXCEPT ![b].blockRecvList = p]
                    /\ MboxProcTable' = pt
                 \/ q # <<>> /\ MboxProcTable' = RecvSet(pt, Last(q), p)
                    /\ MailBoxTable' = MailBoxTable
              /\ blocked' = blocked \cup {p} /\ frame' = [frame EXCEPT ![p] = At("recvWait", b)]
              /\ zapped' = zapped /\ SlotTable' = SlotTable /\ delivery' = delivery
    BY <1>1, <1>3, <1>4 DEF MboxReceiveBlocks, RecvSet, ReceiveCall, MayWait, procVars
  <1>6. p \notin blocked
    <2>1. Runs(p)
      BY DEF MboxReceiveBlocks, ReceiveCall, MayCall, WaitDevice
    <2>2. QED
      BY <2>1, RunnerIsFree
  <1>7. /\ pt \in [Procs -> MboxProc]
        /\ SameLinks(MboxProcTable, pt) /\ SameMessages(MboxProcTable, pt)
    BY <1>2, <1>3, <1>6, InvParts, EnteredKeeps
  <1>8. q = ListOf("recvWait", b)
    BY <1>4, <1>7, LinksWalked
  <1>9. MailBoxTable[b].blockSendList = NULL
    <2>1. /\ MailBoxTable[b].slotsUsed = Len(MailBoxTable[b].slotList)
          /\ MailBoxTable[b].blockSendList # NULL => MailBoxTable[b].slotsUsed = MailBoxTable[b].numSlots
      BY <1>5, InvParts DEF TablesInv, BoxesGood, GoodBox
    <2>2. MailBoxTable[b].slotsUsed = 0
      BY <1>5, <2>1, EmptyList
    <2>3. QED
      BY <1>5, <2>1, <2>2 DEF MeetsSender
  <1>10. CASE Stop("hang")
    BY <1>10, StopStep
  <1>11. CASE /\ \/ q = <<>> /\ MailBoxTable' = [MailBoxTable EXCEPT ![b].blockRecvList = p]
                    /\ MboxProcTable' = pt
                 \/ q # <<>> /\ MboxProcTable' = RecvSet(pt, Last(q), p)
                    /\ MailBoxTable' = MailBoxTable
              /\ blocked' = blocked \cup {p} /\ frame' = [frame EXCEPT ![p] = At("recvWait", b)]
              /\ zapped' = zapped /\ SlotTable' = SlotTable /\ delivery' = delivery
    <2>1. ReceiverPutLast(b, p, pt)
      BY <1>8, <1>11 DEF ReceiverPutLast
    <2>2. /\ blocked' = blocked \cup {p} /\ frame' = [frame EXCEPT ![p] = At("recvWait", b)]
          /\ zapped' = zapped /\ SlotTable' = SlotTable /\ delivery' = delivery
      BY <1>11
    <2>3. QED
      BY <1>5, <1>6, <1>7, <1>9, <2>1, <2>2, ReceiverJoins
  <1>12. QED
    BY <1>5, <1>10, <1>11

LEMMA ReceiverIsFree ==
  ASSUME NEW p, NEW calls, NEW b, NEW n, ReceiveCall(p, calls, b, n)
  PROVE  p \notin blocked /\ MailBoxTable[b].status = "USED"
  <1>1. Runs(p) /\ MailBoxTable[b].status = "USED"
    BY DEF ReceiveCall, MayCall, WaitDevice
  <1>2. QED
    BY <1>1, RunnerIsFree

LEMMA FromSenderStep ==
  ASSUME ListsInv, NEW p \in Procs, NEW b \in Boxes, NEW n \in Sizes \cup {IntSize},
         ReceiveFromSender(p, b, n)
  PROVE  ListsGood' /\ Promise
  <1>1. PICK x : x = NULL
    OBVIOUS
  <1>2. PICK pt, r : pt = Entered(p, x, n) /\ r = MailBoxTable[b].blockSendList
    OBVIOUS
  <1>3. PICK v : v = pt[r].nextBlockSend
    OBVIOUS
  <1>4. PICK f : f = At("rendezvous", b)
    OBVIOUS
  <1>5. /\ MailBoxTable[b].status = "USED" /\ p \notin blocked
        /\ MailBoxTable[b].numSlots = 0 /\ r # NULL
    BY <1>2, ReceiverIsFree DEF ReceiveFromSender, MeetsSender
  <1>6. /\ MboxProcTable' = pt /\ SlotTable' = SlotTable /\ zapped' = zapped
        /\ MailBoxTable' = [MailBoxTable EXCEPT ![b].blockSendList = v]
        /\ blocked' = BlockedAfter(p, r) /\ frame' = [frame EXCEPT ![p] = f]
    BY <1>1, <1>2, <1>3, <1>4 DEF ReceiveFromSender, procVars
  <1>7. delivery' = [to |-> p, message |-> pt[r].message]
    BY <1>1, <1>2 DEF ReceiveFromSender
  <1>8. Shape /\ ListsGood /\ frame \in [Procs -> Frames] /\ blocked \subseteq Procs /\ TablesInv
    BY InvParts
  <1>9. SameLinks(MboxProcTable, pt) /\ SameMessages(MboxProcTable, pt)
    <2>1. x \in Messages \cup {NULL} /\ n \in Int
      BY <1>1, SizesAre
    <2>2. QED
      BY <1>2, <1>5, <1>8, <2>1, EnteredKeeps
  <1>10. r \in Procs /\ v = MboxProcTable[r].nextBlockSend
    <2>1. r \in Procs
      BY <1>2, <1>5, <1>8, BoxFields
    <2>2. QED
      BY <1>3, <1>9, <2>1 DEF SameLinks
  <1>11. HeadOf("sendWait", b)' = v /\ OtherHeadsStay("sendWait", b) /\ \A c \in Boxes : BoxStays(c)
    BY <1>6, <1>8, SenderHeadSet DEF BoxStays
  <1>12. WaitersStay
    BY <1>5, <1>6, <1>8, OthersWait
  <1>13. PICK l : l = Msgs(MboxProcTable, ListOf("sendWait", b))
    OBVIOUS
  <1>14. /\ ListsGood' /\ r \in blocked
         /\ \A c \in Boxes : /\ c # b => ListOf("sendWait", c)' = ListOf("sendWait", c)
                             /\ ListOf("recvWait", c)' = ListOf("recvWait", c)
         /\ l # <<>> /\ Head(l) = MboxProcTable[r].message
         /\ Msgs(MboxProcTable', ListOf("sendWait", b)') = Tail(l)
    BY <1>2, <1>5, <1>6, <1>9, <1>10, <1>11, <1>12, <1>13, SenderLeaves
  <1>15. Apart(b)
    <2>1. \A c \in Boxes : SlotsStay(c)
      BY <1>6 DEF SlotsStay
    <2>2. QED
      BY <1>6, <1>8, <1>9, <1>11, <1>14, <2>1, SameOf DEF Apart
  <1>16. StaysOpen(b) /\ WaitingOf(b)' = WaitingOf(b)
    <2>1. StaysOpen(b)
      BY <1>5, <1>11 DEF StaysOpen, BoxStays
    <2>2. QED
      BY <1>14, <2>1, QueuesAre, QueuesBecome DEF StaysOpen
  <1>17. MailBoxTable[b].slotList = <<>>
    <2>1. PICK list, u : list = MailBoxTable[b].slotList /\ u = MailBoxTable[b].slotsUsed
      OBVIOUS
    <2>2. list \in Seq(Slots) /\ u \in 0..0 /\ u = Len(list)
      BY <1>5, <1>8, <2>1, BoxFields DEF TablesInv, BoxesGood, GoodBox
    <2>3. Len(list) = 0
      BY <2>2
    <2>4. QED
      BY <2>1, <2>2, <2>3, EmptySeq
  <1>18. l \in Seq(AnyMessage) /\ Tail(l) \in Seq(AnyMessage)
    <2>1. l \in Seq(AnyMessage)
      BY <1>8, <1>13, PartsAre
    <2>2. QED
      BY <1>14, <2>1, HeadTailProperties
  <1>19. QueueOf(b) = l
    <2>1. QueueOf(b) = <<>> \o l
      BY <1>13, <1>16, <1>17, QueuesAre, NoMsgs DEF StaysOpen
    <2>2. QED
      BY <1>18, <2>1, ConcatEmptySeq
  <1>20. QueueOf(b)' = Tail(l)
    <2>1. MailBoxTable'[b].slotList = <<>> /\ MailBoxTable'[b].status = "USED"
      BY <1>11, <1>16, <1>17 DEF BoxStays, StaysOpen
    <2>2. QueueOf(b)' = Msgs(SlotTable', <<>>) \o Tail(l)
      BY <1>14, <2>1, QueuesBecome
    <2>3. QueueOf(b)' = <<>> \o Tail(l)
      BY <2>2, NoMsgs
    <2>4. QED
      BY <1>18, <2>3, ConcatEmptySeq
  <1>21. delivery' = [to |-> p, message |-> Head(QueueOf(b))]
    <2>1. pt[r].message = Head(l)
      BY <1>9, <1>14 DEF SameMessages
    <2>2. QED
      BY <1>7, <1>19, <2>1
  <1>22. QueueOf(b) # <<>> /\ QueueOf(b)' = Tail(QueueOf(b))
    BY <1>14, <1>19, <1>20
  <1>23. Abstract!Next
    BY <1>15, <1>16, <1>21, <1>22, Takes
  <1>24. QED
    BY <1>14, <1>23 DEF Promise

LEMMA ReceiveFailsStep ==
  ASSUME ListsInv, NEW p \in Procs, NEW b \in Boxes, NEW n \in Sizes \cup {IntSize},
         ReceiveFails(p, b, n)
  PROVE  ListsGood' /\ Promise
  <1>1. PICK x : x = NULL
    OBVIOUS
  <1>2. PICK pt : pt = Entered(p, x, n)
    OBVIOUS
  <1>3. /\ p \notin blocked /\ MboxProcTable' = pt /\ zapped' = zapped
        /\ MailBoxTable' = MailBoxTable /\ SlotTable' = SlotTable /\ blocked' = blocked
        /\ frame' = frame /\ delivery' = delivery
    BY <1>1, <1>2, ReceiverIsFree DEF ReceiveFails, procVars
  <1>4. SameLinks(MboxProcTable, pt) /\ SameMessages(MboxProcTable, pt)
    <2>1. x \in Messages \cup {NULL} /\ n \in Int
      BY <1>1, SizesAre
    <2>2. QED
      BY <1>2, <1>3, <2>1, InvParts, EnteredKeeps
  <1>5. Calm
    BY <1>3, <1>4, InvParts, OthersWait DEF Calm, ZappedStay
  <1>6. QED
    BY <1>3, <1>5, CalmStep

(* The first slot of a mailbox is on no other list, nor a second time on   *)
(* its own: without it the rest of the messages are as they were.          *)
SlotsBut(s) ==
    \A r \in Slots : r # s /\ SlotTable[r].status = "USED" => SlotTable'[r].message = SlotTable[r].message

RestIs(list, s, rest) ==
    /\ Msgs(SlotTable', rest) = Tail(Msgs(SlotTable, list))
    /\ Head(Msgs(SlotTable, list)) = SlotTable[s].message /\ Msgs(SlotTable, list) # <<>>

LEMMA FirstSlotLeaves ==
  ASSUME ListsInv, NEW b \in Boxes, NEW list, list = MailBoxTable[b].slotList, list # <<>>,
         NEW s, s = Head(list), NEW rest, Shorter(rest, list), SlotsBut(s)
  PROVE  RestIs(list, s, rest) /\ \A c \in Boxes : c # b => SlotsStay(c)
  <1>1. Shape /\ ListsApart(SlotLists, SlotTable)
    BY InvParts DEF TablesInv
  <1>2. \A c \in Boxes : SlotLists[c] = MailBoxTable[c].slotList /\ MailBoxTable[c].slotList \in Seq(Slots)
    BY <1>1, ListsAre, BoxFields
  <1>3. list \in Seq(Slots) /\ Len(list) \in Nat \ {0}
    BY <1>2, LenProperties, EmptySeq
  <1>4. /\ s = list[1] /\ rest \in Seq(Slots) /\ Len(rest) = Len(list) - 1
        /\ \A i \in 1..Len(rest) : rest[i] = list[i + 1]
    BY <1>3, HeadTailProperties DEF Shorter
  <1>5. s \in Slots /\ 1 \in 1..Len(list)
    BY <1>3, <1>4, ElementsOf
  <1>6. ASSUME NEW c \in Boxes, NEW i \in 1..Len(MailBoxTable[c].slotList), c # b \/ i # 1
        PROVE  /\ MailBoxTable[c].slotList[i] \in Slots
               /\ SlotTable'[MailBoxTable[c].slotList[i]].message = SlotTable[MailBoxTable[c].slotList[i]].message
    <2>1. PICK l, z : l = MailBoxTable[c].slotList /\ z = l[i]
      OBVIOUS
    <2>2. l \in Seq(Slots) /\ i \in 1..Len(l) /\ SlotLists[c] = l /\ SlotLists[b] = list
      BY <1>2, <1>6, <2>1
    <2>3. z \in Slots /\ SlotTable[z].status = "USED"
      BY <1>1, <2>1, <2>2, ElementsOf DEF ListsApart
    <2>4. z # s
      BY <1>1, <1>4, <1>5, <1>6, <2>1, <2>2 DEF ListsApart
    <2>5. QED
      BY <2>1, <2>3, <2>4 DEF SlotsBut
  <1>7. \A c \in Boxes : c # b => SlotsStay(c)
    BY <1>6 DEF SlotsStay
  <1>8. Msgs(SlotTable', rest) = Msgs(SlotTable, rest)
    <2>1. ASSUME NEW i \in 1..Len(rest) PROVE SlotTable'[rest[i]].message = SlotTable[rest[i]].message
      <3>1. PICK j : j = i + 1
        OBVIOUS
      <3>2. j \in 1..Len(list) /\ j # 1 /\ rest[i] = list[j]
        BY <1>3, <1>4, <2>1, <3>1
      <3>3. j \in 1..Len(MailBoxTable[b].slotList) /\ rest[i] = MailBoxTable[b].slotList[j]
        BY <3>2
      <3>4. QED
        BY <1>6, <3>2, <3>3
    <2>2. QED
      BY <1>4, <2>1, MsgsSame
  <1>9. PICK T, x : T = SlotTable /\ x = SlotTable[s].message
    OBVIOUS
  <1>10. Shorter(Msgs(T, rest), Msgs(T, list)) /\ IsFirst(x, Msgs(T, list)) /\ Len(Msgs(T, list)) # 0
    <2>1. Carries(T, Slots, AnyMessage) /\ Len(list) # 0 /\ x = T[s].message
      BY <1>1, <1>3, <1>9, MessagesIn
    <2>2. IsFirst(s, list)
      BY DEF IsFirst
    <2>3. QED
      BY <1>3, <1>5, <2>1, <2>2, MsgsTail
  <1>11. Msgs(T, list) # <<>>
    BY <1>10, EmptyList
  <1>12. QED
    BY <1>7, <1>8, <1>9, <1>10, <1>11 DEF RestIs, Shorter, IsFirst

(* The first slot is received while no sender waits.                       *)
LEMMA TakesSlot ==
  ASSUME ListsInv, NEW p \in Procs, NEW b \in Boxes, MailBoxTable[b].status = "USED",
         MailBoxTable[b].slotList # <<>>, NEW s, s = Head(MailBoxTable[b].slotList),
         SlotTable' = SlotFreed(SlotTable, s), NEW new, new = FirstTaken(MailBoxTable[b]),
         MailBoxTable' = [MailBoxTable EXCEPT ![b] = new],
         SameLinks(MboxProcTable, MboxProcTable'), SameMessages(MboxProcTable, MboxProcTable'),
         blocked' = blocked, frame' = frame, zapped' = zapped,
         delivery' = [to |-> p, message |-> SlotTable[s].message]
  PROVE  ListsGood' /\ Promise
  <1>1. /\ Shape /\ ListsGood /\ MailBoxTable \in [Boxes -> Mailbox]
        /\ SlotTable \in [Slots -> MailSlot]
    BY InvParts
  <1>2. PICK list, rest : list = MailBoxTable[b].slotList /\ Shorter(rest, list)
    BY DEF Shorter
  <1>3. /\ new.slotList = rest /\ new.status = "USED"
        /\ new.blockSendList = MailBoxTable[b].blockSendList
        /\ new.blockRecvList = MailBoxTable[b].blockRecvList
    <2>1. PICK box : box = MailBoxTable[b]
      OBVIOUS
    <2>2. box \in Mailbox /\ box.slotList # <<>>
      BY <1>1, <2>1, BoxFields
    <2>3. /\ FirstTaken(box).slotList = Tail(box.slotList) /\ FirstTaken(box).status = box.status
          /\ FirstTaken(box).blockSendList = box.blockSendList
          /\ FirstTaken(box).blockRecvList = box.blockRecvList
      BY <2>2, SlotTaken
    <2>4. QED
      BY <1>2, <2>1, <2>3 DEF Shorter
  <1>4. \A c \in Boxes : MailBoxTable'[c] = IF c = b THEN new ELSE MailBoxTable[c]
    BY <1>1
  <1>5. HeadsStay
    BY <1>3, <1>4, HeadsSame
  <1>6. Calm
    BY InvParts, OthersWait DEF Calm, ZappedStay
  <1>7. ListsGood' /\ ListsStay
    BY <1>1, <1>5, <1>6, CalmLists
  <1>8. s \in Slots
    <2>1. list \in Seq(Slots) /\ list # <<>>
      BY <1>1, <1>2, BoxFields
    <2>2. QED
      BY <1>2, <2>1, HeadTailProperties
  <1>9. SlotsBut(s)
    BY <1>1, <1>8, SlotZeroed DEF SlotsBut
  <1>10. PICK a, l : a = Msgs(SlotTable, list) /\ l = Msgs(MboxProcTable, ListOf("sendWait", b))
    OBVIOUS
  <1>11. /\ \A c \in Boxes : c # b => SlotsStay(c)
         /\ Msgs(SlotTable', rest) = Tail(a) /\ Head(a) = SlotTable[s].message /\ a # <<>>
    <2>1. list # <<>> /\ s = Head(list)
      BY <1>2
    <2>2. RestIs(list, s, rest) /\ \A c \in Boxes : c # b => SlotsStay(c)
      BY <1>2, <1>9, <2>1, FirstSlotLeaves
    <2>3. QED
      BY <1>10, <2>2 DEF RestIs
  <1>12. a \in Seq(AnyMessage) /\ l \in Seq(AnyMessage)
    BY <1>1, <1>2, <1>10, PartsAre
  <1>13. Apart(b)
    <2>1. ASSUME NEW c \in Boxes, c # b PROVE Same(c)
      <3>1. BoxStays(c) /\ SlotsStay(c)
        BY <1>4, <1>11, <2>1 DEF BoxStays
      <3>2. ListOf("sendWait", c)' = ListOf("sendWait", c) /\ ListOf("recvWait", c)' = ListOf("recvWait", c)
        BY <1>7 DEF ListsStay, Kinds
      <3>3. QED
        BY <1>1, <3>1, <3>2, SameOf
    <2>2. QED
      BY <2>1 DEF Apart
  <1>14. StaysOpen(b)
    BY <1>3, <1>4 DEF StaysOpen
  <1>15. WaitingOf(b)' = WaitingOf(b)
    <2>1. ListOf("recvWait", b)' = ListOf("recvWait", b)
      BY <1>7 DEF ListsStay, Kinds
    <2>2. QED
      BY <1>14, <2>1, QueuesAre, QueuesBecome DEF StaysOpen
  <1>16. QueueOf(b) = a \o l
    BY <1>2, <1>10, <1>14, QueuesAre DEF StaysOpen
  <1>17. QueueOf(b)' = Tail(a) \o l
    <2>1. ListOf("sendWait", b)' = ListOf("sendWait", b)
      BY <1>7 DEF ListsStay, Kinds
    <2>2. Msgs(MboxProcTable', ListOf("sendWait", b)') = l
      BY <1>1, <1>10, <2>1, SendersSame
    <2>3. MailBoxTable'[b].slotList = rest
      BY <1>3, <1>4
    <2>4. QED
      BY <1>11, <1>14, <2>2, <2>3, QueuesBecome DEF StaysOpen
  <1>18. Tail(a) \o l = Tail(a \o l) /\ Head(a \o l) = Head(a) /\ a \o l # <<>>
    BY <1>11, <1>12, ConcatTail
  <1>19. /\ QueueOf(b) # <<>> /\ QueueOf(b)' = Tail(QueueOf(b))
         /\ delivery' = [to |-> p, message |-> Head(QueueOf(b))]
    BY <1>11, <1>16, <1>17, <1>18
  <1>20. Abstract!Next
    BY <1>13, <1>14, <1>15, <1>19, Takes
  <1>21. QED
    BY <1>7, <1>20 DEF Promise

(* The first slot is received, and the first sender's message gets one.    *)
LEMMA TakesSlotAndFills ==
  ASSUME ListsInv, NEW p \in Procs, p \notin blocked, NEW b \in Boxes, MailBoxTable[b].status = "USED",
         MailBoxTable[b].slotList # <<>>, NEW s, s = Head(MailBoxTable[b].slotList),
         NEW freed, freed = SlotFreed(SlotTable, s), NEW t, t = GetSlotIndex(freed),
         NEW r, r = MailBoxTable[b].blockSendList, r # NULL,
         NEW x, x = MboxProcTable[r].message, NEW k \in Int, SlotTable' = SlotFilled(freed, t, x, k),
         NEW v, v = MboxProcTable[r].nextBlockSend,
         NEW new, new = SendListSet(AddSlotToList(FirstTaken(MailBoxTable[b]), t), v),
         MailBoxTable' = [MailBoxTable EXCEPT ![b] = new],
         SameLinks(MboxProcTable, MboxProcTable'), SameMessages(MboxProcTable, MboxProcTable'),
         blocked' = BlockedAfter(p, r), frame' = frame, zapped' = zapped,
         delivery' = [to |-> p, message |-> SlotTable[s].message]
  PROVE  ListsGood' /\ Promise
  <1>1. /\ Shape /\ ListsGood /\ MailBoxTable \in [Boxes -> Mailbox]
        /\ SlotTable \in [Slots -> MailSlot] /\ MboxProcTable \in [Procs -> MboxProc]
        /\ blocked \subseteq Procs /\ frame \in [Procs -> Frames]
    BY InvParts
  <1>2. PICK list, rest : list = MailBoxTable[b].slotList /\ Shorter(rest, list)
    BY DEF Shorter
  <1>3. s \in Slots /\ list \in Seq(Slots) /\ rest \in Seq(Slots)
    <2>1. list \in Seq(Slots) /\ list # <<>>
      BY <1>1, <1>2, BoxFields
    <2>2. QED
      BY <1>2, <2>1, HeadTailProperties DEF Shorter
  <1>4. /\ freed \in [Slots -> MailSlot] /\ freed[s].status = "EMPTY"
        /\ \A z \in Slots : z # s => freed[z] = SlotTable[z]
    BY <1>1, <1>3, SlotZeroed
  <1>5. t \in Slots /\ freed[t].status = "EMPTY"
    BY <1>3, <1>4, SlotFound
  <1>6. r \in Procs /\ v \in Procs \cup {NULL} /\ x \in AnyMessage
    <2>1. r \in Procs
      BY <1>1, BoxFields
    <2>2. QED
      BY <1>1, <2>1, EntryFields DEF AnyMessage
  <1>7. /\ SlotTable'[t].message = x /\ SlotTable' \in [Slots -> MailSlot]
        /\ \A z \in Slots : z # t => SlotTable'[z] = freed[z]
    <2>1. PICK i : i = InitSlot(x, k)
      OBVIOUS
    <2>2. i.message = x
      BY <2>1 DEF InitSlot
    <2>3. SlotTable' = [freed EXCEPT ![t] = i]
      BY <2>1 DEF SlotFilled
    <2>4. SlotTable'[t].message = x
      BY <1>4, <1>5, <2>2, <2>3
    <2>5. x \in Messages \cup {NULL}
      BY <1>6 DEF AnyMessage
    <2>6. SlotTable' \in [Slots -> MailSlot] /\ \A z \in Slots : z # t => SlotTable'[z] = freed[z]
      BY <1>4, <1>5, <2>5, SlotSet
    <2>7. QED
      BY <2>4, <2>6
  <1>8. SlotsBut(s)
    <2>1. ASSUME NEW z \in Slots, z # s, SlotTable[z].status = "USED"
          PROVE  SlotTable'[z].message = SlotTable[z].message
      <3>1. freed[z] = SlotTable[z] /\ z # t
        BY <1>4, <1>5, <2>1
      <3>2. QED
        BY <1>7, <3>1
    <2>2. QED
      BY <2>1 DEF SlotsBut
  <1>9. PICK more : Longer(more, rest, t)
    BY DEF Longer
  <1>10. /\ new.slotList = more /\ new.status = "USED" /\ new.blockSendList = v
         /\ new.blockRecvList = MailBoxTable[b].blockRecvList
    <2>1. PICK box, taken : box = MailBoxTable[b] /\ taken = FirstTaken(box)
      OBVIOUS
    <2>2. box \in Mailbox /\ box.slotList # <<>>
      BY <1>1, <2>1, BoxFields
    <2>3. /\ taken \in Mailbox /\ taken.slotList = Tail(box.slotList) /\ taken.status = box.status
          /\ taken.blockRecvList = box.blockRecvList
      BY <2>1, <2>2, SlotTaken
    <2>4. taken.slotList = rest
      BY <1>2, <2>1, <2>3 DEF Shorter
    <2>5. PICK added : added = AddSlotToList(taken, t)
      OBVIOUS
    <2>6. /\ added \in Mailbox /\ added.slotList = Append(taken.slotList, t)
          /\ added.status = taken.status /\ added.blockRecvList = taken.blockRecvList
      BY <1>5, <2>3, <2>5, SlotAdded
    <2>7. added.slotList = more
      BY <1>9, <2>4, <2>6 DEF Longer
    <2>8. new = SendListSet(added, v)
      BY <2>1, <2>5
    <2>9. /\ new.slotList = added.slotList /\ new.status = added.status /\ new.blockSendList = v
          /\ new.blockRecvList = added.blockRecvList
      <3>1. added \in Mailbox /\ v \in Procs \cup {NULL}
        BY <1>6, <2>6
      <3>2. /\ SendListSet(added, v).slotList = added.slotList
            /\ SendListSet(added, v).status = added.status
            /\ SendListSet(added, v).blockSendList = v
            /\ SendListSet(added, v).blockRecvList = added.blockRecvList
        BY <3>1, ListSet
      <3>3. QED
        BY <2>8, <3>2
    <2>10. QED
      BY <2>1, <2>3, <2>6, <2>7, <2>9
  <1>11. \A c \in Boxes : MailBoxTable'[c] = IF c = b THEN new ELSE MailBoxTable[c]
    BY <1>1
  <1>12. HeadOf("sendWait", b)' = v /\ OtherHeadsStay("sendWait", b)
    <2>1. \A c \in Boxes :
             /\ MailBoxTable'[c].blockSendList = IF c = b THEN v ELSE MailBoxTable[c].blockSendList
             /\ MailBoxTable'[c].blockRecvList = MailBoxTable[c].blockRecvList
      BY <1>10, <1>11
    <2>2. QED
      BY <2>1 DEF HeadOf, OtherHeadsStay, Kinds
  <1>13. WaitersStay
    BY <1>1, OthersWait
  <1>14. PICK a, l : a = Msgs(SlotTable, list) /\ l = Msgs(MboxProcTable, ListOf("sendWait", b))
    OBVIOUS
  <1>15. /\ ListsGood'
         /\ \A c \in Boxes : /\ c # b => ListOf("sendWait", c)' = ListOf("sendWait", c)
                             /\ ListOf("recvWait", c)' = ListOf("recvWait", c)
         /\ l # <<>> /\ Head(l) = x
         /\ Msgs(MboxProcTable', ListOf("sendWait", b)') = Tail(l)
    BY <1>12, <1>13, <1>14, SenderLeaves
  <1>16. /\ \A c \in Boxes : c # b => SlotsStay(c)
         /\ Msgs(SlotTable', rest) = Tail(a) /\ Head(a) = SlotTable[s].message /\ a # <<>>
    <2>1. list # <<>> /\ s = Head(list)
      BY <1>2
    <2>2. RestIs(list, s, rest) /\ \A c \in Boxes : c # b => SlotsStay(c)
      BY <1>2, <1>8, <2>1, FirstSlotLeaves
    <2>3. QED
      BY <1>14, <2>2 DEF RestIs
  <1>17. a \in Seq(AnyMessage) /\ l \in Seq(AnyMessage)
    BY <1>1, <1>2, <1>14, PartsAre
  <1>18. Apart(b)
    <2>1. ASSUME NEW c \in Boxes, c # b PROVE Same(c)
      <3>1. BoxStays(c) /\ SlotsStay(c)
        BY <1>11, <1>16, <2>1 DEF BoxStays
      <3>2. ListOf("sendWait", c)' = ListOf("sendWait", c) /\ ListOf("recvWait", c)' = ListOf("recvWait", c)
        BY <1>15, <2>1
      <3>3. QED
        BY <1>1, <3>1, <3>2, SameOf
    <2>2. QED
      BY <2>1 DEF Apart
  <1>19. StaysOpen(b)
    BY <1>10, <1>11 DEF StaysOpen
  <1>20. WaitingOf(b)' = WaitingOf(b)
    <2>1. ListOf("recvWait", b)' = ListOf("recvWait", b)
      BY <1>15
    <2>2. QED
      BY <1>19, <2>1, QueuesAre, QueuesBecome DEF StaysOpen
  <1>21. QueueOf(b) = a \o l
    BY <1>2, <1>14, <1>19, QueuesAre DEF StaysOpen
  <1>22. Msgs(SlotTable', more) = Append(Tail(a), x)
    <2>1. PICK T : T = SlotTable'
      OBVIOUS
    <2>2. Carries(T, Slots, AnyMessage)
      BY <1>7, <2>1 DEF MailSlot, AnyMessage, Carries
    <2>3. x = T[t].message
      BY <1>7, <2>1
    <2>4. Longer(Msgs(T, more), Msgs(T, rest), x)
      BY <1>3, <1>5, <1>9, <2>2, <2>3, MsgsAppend
    <2>5. QED
      BY <1>16, <2>1, <2>4 DEF Longer
  <1>23. QueueOf(b)' = Append(Tail(a), Head(l)) \o Tail(l)
    <2>1. MailBoxTable'[b].slotList = more
      BY <1>10, <1>11
    <2>2. QED
      BY <1>15, <1>19, <1>22, <2>1, QueuesBecome DEF StaysOpen
  <1>24. QueueOf(b)' = Tail(a) \o l
    <2>1. Tail(a) \in Seq(AnyMessage)
      BY <1>16, <1>17, HeadTailProperties
    <2>2. Append(Tail(a), Head(l)) \o Tail(l) = Tail(a) \o l
      BY <1>15, <1>17, <2>1, ConcatShift
    <2>3. QED
      BY <1>23, <2>2
  <1>25. Tail(a) \o l = Tail(a \o l) /\ Head(a \o l) = Head(a) /\ a \o l # <<>>
    BY <1>16, <1>17, ConcatTail
  <1>26. /\ QueueOf(b) # <<>> /\ QueueOf(b)' = Tail(QueueOf(b))
         /\ delivery' = [to |-> p, message |-> Head(QueueOf(b))]
    BY <1>16, <1>21, <1>24, <1>25
  <1>27. Abstract!Next
    BY <1>18, <1>19, <1>20, <1>26, Takes
  <1>28. QED
    BY <1>15, <1>27 DEF Promise

LEMMA FromSlotStep ==
  ASSUME ListsInv, NEW p \in Procs, NEW b \in Boxes, NEW n \in Sizes \cup {IntSize},
         ReceiveFromSlot(p, b, n)
  PROVE  ListsGood' /\ Promise
  <1>1. PICK z : z = NULL
    OBVIOUS
  <1>2. PICK pt, r : pt = Entered(p, z, n) /\ r = MailBoxTable[b].blockSendList
    OBVIOUS
  <1>3. PICK s : s = Head(MailBoxTable[b].slotList)
    OBVIOUS
  <1>4. PICK freed : freed = SlotFreed(SlotTable, s)
    OBVIOUS
  <1>5. PICK t : t = GetSlotIndex(freed)
    OBVIOUS
  <1>6. p \notin blocked /\ MailBoxTable[b].status = "USED"
    BY ReceiverIsFree DEF ReceiveFromSlot
  <1>7. /\ MailBoxTable[b].slotList # <<>> /\ MboxProcTable' = pt
        /\ frame' = frame /\ zapped' = zapped
        /\ delivery' = [to |-> p, message |-> SlotTable[s].message]
    BY <1>1, <1>2, <1>3 DEF ReceiveFromSlot, procVars
  <1>8. \/ /\ r = NULL /\ SlotTable' = freed /\ blocked' = blocked
           /\ MailBoxTable' = [MailBoxTable EXCEPT ![b] = FirstTaken(MailBoxTable[b])]
        \/ /\ r # NULL /\ SlotTable' = SlotFilled(freed, t, pt[r].message, pt[r].msgSize)
           /\ MailBoxTable' = [MailBoxTable EXCEPT ![b] =
                 SendListSet(AddSlotToList(FirstTaken(MailBoxTable[b]), t), NextSender(pt, r))]
           /\ blocked' = BlockedAfter(p, r)
    BY <1>1, <1>2, <1>3, <1>4, <1>5 DEF ReceiveFromSlot, SlotFreed, FirstTaken, SlotFilled, SendListSet
  <1>9. /\ pt \in [Procs -> MboxProc]
        /\ SameLinks(MboxProcTable, pt) /\ SameMessages(MboxProcTable, pt)
    <2>1. z \in Messages \cup {NULL} /\ n \in Int
      BY <1>1, SizesAre
    <2>2. QED
      BY <1>2, <1>6, <2>1, InvParts, EnteredKeeps
  <1>10. CASE /\ r = NULL /\ SlotTable' = freed /\ blocked' = blocked
              /\ MailBoxTable' = [MailBoxTable EXCEPT ![b] = FirstTaken(MailBoxTable[b])]
    <2>1. PICK new : new = FirstTaken(MailBoxTable[b])
      OBVIOUS
    <2>2. MailBoxTable' = [MailBoxTable EXCEPT ![b] = new]
      BY <1>10, <2>1
    <2>3. SlotTable' = SlotFreed(SlotTable, s) /\ blocked' = blocked
      BY <1>4, <1>10
    <2>4. SameLinks(MboxProcTable, MboxProcTable') /\ SameMessages(MboxProcTable, MboxProcTable')
      BY <1>7, <1>9
    <2>5. QED
      BY <1>3, <1>6, <1>7, <2>1, <2>2, <2>3, <2>4, TakesSlot
  <1>11. CASE /\ r # NULL /\ SlotTable' = SlotFilled(freed, t, pt[r].message, pt[r].msgSize)
              /\ MailBoxTable' = [MailBoxTable EXCEPT ![b] =
                    SendListSet(AddSlotToList(FirstTaken(MailBoxTable[b]), t), NextSender(pt, r))]
              /\ blocked' = BlockedAfter(p, r)
    <2>1. PICK x, k, v : x = pt[r].message /\ k = pt[r].msgSize /\ v = pt[r].nextBlockSend
      OBVIOUS
    <2>2. r \in Procs /\ r \in blocked
      <3>1. r \in Procs
        BY <1>2, <1>11, InvParts, BoxFields
      <3>2. HeadOf("sendWait", b) = r
        BY <1>2 DEF HeadOf
      <3>3. r \in InWait("sendWait", b)
        BY <1>11, <3>2, InvParts, ListsGoodOf DEF Kinds
      <3>4. QED
        BY <3>1, <3>3 DEF InWait
    <2>3. k \in Int /\ x = MboxProcTable[r].message /\ v = MboxProcTable[r].nextBlockSend
      <3>1. k \in Int
        BY <1>9, <2>1, <2>2, EntryFields
      <3>2. QED
        BY <1>9, <2>1, <2>2, <3>1 DEF SameLinks, SameMessages
    <2>4. PICK new : new = SendListSet(AddSlotToList(FirstTaken(MailBoxTable[b]), t), v)
      OBVIOUS
    <2>5. MailBoxTable' = [MailBoxTable EXCEPT ![b] = new]
      BY <1>11, <2>1, <2>4 DEF NextSender
    <2>6. SlotTable' = SlotFilled(freed, t, x, k) /\ r # NULL /\ blocked' = BlockedAfter(p, r)
      BY <1>11, <2>1
    <2>7. SameLinks(MboxProcTable, MboxProcTable') /\ SameMessages(MboxProcTable, MboxProcTable')
      BY <1>7, <1>9
    <2>8. QED
      BY <1>2, <1>3, <1>4, <1>5, <1>6, <1>7, <2>3, <2>4, <2>5, <2>6, <2>7, TakesSlotAndFills
  <1>12. QED
    BY <1>8, <1>10, <1>11

LEMMA OtherSteps ==
  ASSUME ListsInv, NEW p \in Procs, BadCall(p) \/ Return(p) \/ Quit(p) \/ GetsZapped(p)
  PROVE  ListsGood' /\ Promise
  <1>1. /\ MailBoxTable' = MailBoxTable /\ SlotTable' = SlotTable /\ MboxProcTable' = MboxProcTable
        /\ blocked' = blocked /\ delivery' = delivery /\ zapped \subseteq zapped'
    BY DEF BadCall, Return, Quit, GetsZapped, procVars
  <1>2. frame' = frame \/ (p \notin blocked /\ \E f : frame' = [frame EXCEPT ![p] = f])
    <2>1. Return(p) \/ Quit(p) => p \notin blocked
      BY RunnerIsFree DEF Return, Quit, MayCall
    <2>2. QED
      BY <2>1 DEF BadCall, Return, Quit, GetsZapped
  <1>3. Calm
    BY <1>1, <1>2, InvParts, OthersWait DEF Calm, ZappedStay, SameLinks, SameMessages
  <1>4. QED
    BY <1>1, <1>3, CalmStep

(* One mailbox changes, but not the heads of its lists.                    *)
LEMMA OneBoxChanges ==
  ASSUME ListsInv, NEW b \in Boxes, NEW new, MailBoxTable' = [MailBoxTable EXCEPT ![b] = new],
         new.blockSendList = MailBoxTable[b].blockSendList,
         new.blockRecvList = MailBoxTable[b].blockRecvList,
         SlotTable' = SlotTable, MboxProcTable' = MboxProcTable, blocked' = blocked,
         WaitersStay, zapped' = zapped
  PROVE  ListsGood' /\ ListsStay /\ Apart(b) /\ MailBoxTable'[b] = new
  <1>1. Shape /\ ListsGood /\ MailBoxTable \in [Boxes -> Mailbox]
    BY InvParts
  <1>2. \A c \in Boxes : MailBoxTable'[c] = IF c = b THEN new ELSE MailBoxTable[c]
    BY <1>1
  <1>3. HeadsStay
    BY <1>2, HeadsSame
  <1>4. Calm
    BY DEF Calm, ZappedStay, SameLinks, SameMessages
  <1>5. ListsGood' /\ ListsStay
    BY <1>1, <1>3, <1>4, CalmLists
  <1>6. Apart(b)
    <2>1. ASSUME NEW c \in Boxes, c # b PROVE Same(c)
      <3>1. BoxStays(c) /\ SlotsStay(c)
        BY <1>2, <2>1 DEF BoxStays, SlotsStay
      <3>2. ListOf("sendWait", c)' = ListOf("sendWait", c) /\ ListOf("recvWait", c)' = ListOf("recvWait", c)
        BY <1>5 DEF ListsStay, Kinds
      <3>3. QED
        BY <1>1, <1>4, <3>1, <3>2, SameOf DEF Calm
    <2>2. QED
      BY <2>1 DEF Apart
  <1>7. QED
    BY <1>2, <1>5, <1>6

LEMMA CreateStep ==
  ASSUME ListsInv, Careful, NEW p \in Procs, NEW b \in Boxes,
         NEW slots \in Capacities, NEW size \in SlotSizes, MboxCreate(p, b, slots, size)
  PROVE  ListsGood' /\ Promise
  <1>1. /\ Shape /\ ListsGood /\ FreeIsBlank /\ frame \in [Procs -> Frames] /\ blocked \subseteq Procs
        /\ slots \in Nat /\ size \in Nat
    BY InvParts, ProgramAssumption2
  <1>2. PICK box, new : box = MailBoxTable[b] /\ new = Created(MailBoxTable[b], slots, size)
    OBVIOUS
  <1>3. /\ box.status = "EMPTY" /\ MailBoxTable' = [MailBoxTable EXCEPT ![b] = new]
        /\ \A q \in Procs : frame[q].at # "releasing"
        /\ SlotTable' = SlotTable /\ MboxProcTable' = MboxProcTable /\ blocked' = blocked
        /\ zapped' = zapped /\ frame' = frame /\ delivery' = delivery
    BY <1>2 DEF MboxCreate, procVars
  <1>4. Blank(box)
    <2>1. \A c : At("releasing", c).at = "releasing"
      BY DEF At
    <2>2. ~Releasing(b)
      BY <1>3, <2>1 DEF Releasing
    <2>3. QED
      BY <1>1, <1>2, <1>3, <2>2 DEF FreeIsBlank
  <1>5. CreatedIs(box, slots, size, new)
    BY <1>1, <1>2, BoxFields, CreatedBox
  <1>6. new.blockSendList = box.blockSendList /\ new.blockRecvList = box.blockRecvList
    BY <1>5 DEF CreatedIs
  <1>7. WaitersStay
    BY <1>1, <1>3, OthersWait
  <1>8. ListsGood' /\ ListsStay /\ Apart(b) /\ MailBoxTable'[b] = new
    BY <1>2, <1>3, <1>6, <1>7, OneBoxChanges
  <1>9. ListOf("sendWait", b)' = <<>> /\ ListOf("recvWait", b)' = <<>>
    <2>1. ListOf("sendWait", b) = <<>> /\ ListOf("recvWait", b) = <<>>
      BY <1>1, <1>2, <1>4, NobodyOn DEF Blank
    <2>2. QED
      BY <1>8, <2>1 DEF ListsStay, Kinds
  <1>10. new.status = "USED" /\ new.slotList = <<>>
    BY <1>4, <1>5 DEF CreatedIs, Blank
  <1>11. QueueOf(b)' = <<>> /\ WaitingOf(b)' = <<>>
    <2>1. QueueOf(b)' = Msgs(SlotTable', <<>>) \o Msgs(MboxProcTable', <<>>)
      BY <1>8, <1>9, <1>10, QueuesBecome
    <2>2. <<>> \o <<>> = <<>>
      BY ConcatEmptySeq, EmptySeq
    <2>3. WaitingOf(b)' = <<>>
      BY <1>8, <1>9, <1>10, QueuesBecome
    <2>4. QED
      BY <2>1, <2>2, <2>3, NoMsgs
  <1>12. MailBoxTable[b].status = "EMPTY" /\ MailBoxTable'[b].status = "USED"
    BY <1>2, <1>3, <1>8, <1>10
  <1>13. Abstract!Next
    BY <1>3, <1>8, <1>11, <1>12, Opens
  <1>14. QED
    BY <1>8, <1>13 DEF Promise

LEMMA ReleaseIdleStep ==
  ASSUME ListsInv, NEW p \in Procs, NEW b \in Boxes, ReleaseIdle(p, b)
  PROVE  ListsGood' /\ Promise
  <1>1. PICK new : new = ZeroMailbox
    OBVIOUS
  <1>2. /\ MailBoxTable[b].status = "USED" /\ IsIdle(b)
        /\ MailBoxTable' = [MailBoxTable EXCEPT ![b] = new]
        /\ SlotTable' = SlotTable /\ MboxProcTable' = MboxProcTable /\ blocked' = blocked
        /\ zapped' = zapped /\ frame' = frame /\ delivery' = delivery
    BY <1>1 DEF ReleaseIdle, MayRelease, procVars
  <1>3. new.status = "EMPTY" /\ new.blockSendList = NULL /\ new.blockRecvList = NULL
    BY <1>1, ZeroIs DEF Blank
  <1>4. new.blockSendList = MailBoxTable[b].blockSendList /\ new.blockRecvList = MailBoxTable[b].blockRecvList
    BY <1>2, <1>3 DEF IsIdle
  <1>5. WaitersStay
    BY <1>2, InvParts, OthersWait
  <1>6. ListsGood' /\ Apart(b) /\ MailBoxTable'[b] = new
    BY <1>2, <1>4, <1>5, OneBoxChanges
  <1>7. Abstract!Next
    BY <1>2, <1>3, <1>6, Closes
  <1>8. QED
    BY <1>6, <1>7 DEF Promise

LEMMA ReleaseStartsStep ==
  ASSUME ListsInv, NEW p \in Procs, NEW b \in Boxes, ReleaseStarts(p, b)
  PROVE  ListsGood' /\ Promise
  <1>1. PICK new, f : new = Emptied(MailBoxTable[b]) /\ f = At("releasing", b)
    OBVIOUS
  <1>2. /\ MailBoxTable[b].status = "USED" /\ p \notin blocked
        /\ MailBoxTable' = [MailBoxTable EXCEPT ![b] = new]
        /\ SlotTable' = SlotTable /\ MboxProcTable' = MboxProcTable /\ blocked' = blocked
        /\ zapped' = zapped /\ frame' = [frame EXCEPT ![p] = f] /\ delivery' = delivery
    BY <1>1, RunnerIsFree DEF ReleaseStarts, MayRelease, MayCall, Emptied, procVars
  <1>3. new.status = "EMPTY"
    BY <1>1, InvParts, BoxFields, EmptiedBox
  <1>4. new.blockSendList = MailBoxTable[b].blockSendList /\ new.blockRecvList = MailBoxTable[b].blockRecvList
    BY <1>1, InvParts, BoxFields DEF Emptied, Mailbox
  <1>5. WaitersStay
    BY <1>2, InvParts, OthersWait
  <1>6. ListsGood' /\ Apart(b) /\ MailBoxTable'[b] = new
    BY <1>2, <1>4, <1>5, OneBoxChanges
  <1>7. Abstract!Next
    BY <1>2, <1>3, <1>6, Closes
  <1>8. QED
    BY <1>6, <1>7 DEF Promise

LEMMA ReleaseEndsStep ==
  ASSUME ListsInv, NEW p \in Procs, NEW b \in Boxes, ReleaseEnds(p, b)
  PROVE  ListsGood' /\ Promise
  <1>1. PICK new, f : new = ZeroMailbox /\ f = InUser
    OBVIOUS
  <1>2. /\ Runs(p) /\ frame[p] = At("releasing", b) /\ IsIdle(b)
        /\ MailBoxTable' = [MailBoxTable EXCEPT ![b] = new]
        /\ SlotTable' = SlotTable /\ MboxProcTable' = MboxProcTable /\ blocked' = blocked
        /\ zapped' = zapped /\ frame' = [frame EXCEPT ![p] = f] /\ delivery' = delivery
    BY <1>1 DEF ReleaseEnds, Releases, procVars
  <1>3. p \notin blocked /\ MailBoxTable[b].status = "EMPTY"
    BY <1>2, InvParts, RunnerIsFree DEF FreeIsBlank, Releasing
  <1>4. new.status = "EMPTY" /\ new.blockSendList = NULL /\ new.blockRecvList = NULL
    BY <1>1, ZeroIs DEF Blank
  <1>5. new.blockSendList = MailBoxTable[b].blockSendList /\ new.blockRecvList = MailBoxTable[b].blockRecvList
    BY <1>2, <1>4 DEF IsIdle
  <1>6. WaitersStay
    BY <1>2, <1>3, InvParts, OthersWait
  <1>7. ListsGood' /\ Apart(b) /\ MailBoxTable'[b] = new
    BY <1>2, <1>5, <1>6, OneBoxChanges
  <1>8. Same(b)
    BY <1>3, <1>4, <1>7, SameIfFree
  <1>9. UNCHANGED Abstract!vars
    BY <1>2, <1>7, <1>8, Stutters DEF Apart
  <1>10. QED
    BY <1>7, <1>9 DEF Promise

LEMMA ReleaseSenderStep ==
  ASSUME ListsInv, NEW p \in Procs, NEW b \in Boxes, ReleaseSender(p, b)
  PROVE  ListsGood' /\ Promise
  <1>1. PICK r : r = MailBoxTable[b].blockSendList
    OBVIOUS
  <1>2. PICK v : v = MboxProcTable[r].nextBlockSend
    OBVIOUS
  <1>3. /\ r # NULL /\ MboxProcTable' = ReleasedSet(MboxProcTable, r)
        /\ MailBoxTable' = [MailBoxTable EXCEPT ![b].blockSendList = v]
        /\ blocked' = BlockedAfter(p, r) /\ SlotTable' = SlotTable /\ zapped' = zapped
        /\ frame' = frame /\ delivery' = delivery /\ frame[p] = At("releasing", b)
    BY <1>1, <1>2 DEF ReleaseSender, ReleasedSet, NextSender, Releases, procVars
  <1>4. /\ Shape /\ ListsGood /\ blocked \subseteq Procs /\ MboxProcTable \in [Procs -> MboxProc]
        /\ MailBoxTable[b].status = "EMPTY"
    BY <1>3, InvParts DEF FreeIsBlank, Releasing
  <1>5. SameLinks(MboxProcTable, MboxProcTable') /\ SameMessages(MboxProcTable, MboxProcTable')
    <2>1. PICK M : M = MboxProcTable
      OBVIOUS
    <2>2. /\ SameLinks(M, ReleasedSet(M, r)) /\ \A q \in Procs : ReleasedSet(M, r)[q].message = M[q].message
      BY <1>4, <2>1, EntryKeeps
    <2>3. QED
      BY <1>3, <1>4, <2>1, <2>2 DEF SameMessages
  <1>6. HeadOf("sendWait", b)' = v /\ OtherHeadsStay("sendWait", b) /\ \A c \in Boxes : BoxStays(c)
    BY <1>3, <1>4, SenderHeadSet DEF BoxStays
  <1>7. WaitersStay
    BY <1>3, InvParts, OthersWait
  <1>8. /\ ListsGood'
        /\ \A c \in Boxes : /\ c # b => ListOf("sendWait", c)' = ListOf("sendWait", c)
                            /\ ListOf("recvWait", c)' = ListOf("recvWait", c)
    BY <1>1, <1>2, <1>3, <1>5, <1>6, <1>7, SenderLeaves
  <1>9. ASSUME NEW c \in Boxes PROVE Same(c)
    <2>1. CASE c = b
      BY <1>4, <1>6, <2>1, SameIfFree DEF BoxStays
    <2>2. CASE c # b
      <3>1. SlotsStay(c)
        BY <1>3 DEF SlotsStay
      <3>2. QED
        BY <1>4, <1>5, <1>6, <1>8, <2>2, <3>1, SameOf
    <2>3. QED
      BY <2>1, <2>2
  <1>10. UNCHANGED Abstract!vars
    BY <1>3, <1>9, Stutters
  <1>11. QED
    BY <1>8, <1>10 DEF Promise

LEMMA ReleaseReceiverStep ==
  ASSUME ListsInv, NEW p \in Procs, NEW b \in Boxes, ReleaseReceiver(p, b)
  PROVE  ListsGood' /\ Promise
  <1>1. PICK r : r = MailBoxTable[b].blockRecvList
    OBVIOUS
  <1>2. PICK v : v = MboxProcTable[r].nextBlockRecv
    OBVIOUS
  <1>3. /\ r # NULL /\ MboxProcTable' = ReleasedSet(MboxProcTable, r)
        /\ MailBoxTable' = [MailBoxTable EXCEPT ![b].blockRecvList = v]
        /\ blocked' = BlockedAfter(p, r) /\ SlotTable' = SlotTable /\ zapped' = zapped
        /\ frame' = frame /\ delivery' = delivery /\ frame[p] = At("releasing", b)
    BY <1>1, <1>2 DEF ReleaseReceiver, ReleasedSet, Releases, procVars
  <1>4. /\ blocked \subseteq Procs /\ MboxProcTable \in [Procs -> MboxProc]
        /\ MailBoxTable[b].status = "EMPTY"
    BY <1>3, InvParts DEF FreeIsBlank, Releasing
  <1>5. SameLinks(MboxProcTable, MboxProcTable') /\ SameMessages(MboxProcTable, MboxProcTable')
    <2>1. PICK M : M = MboxProcTable
      OBVIOUS
    <2>2. /\ SameLinks(M, ReleasedSet(M, r)) /\ \A q \in Procs : ReleasedSet(M, r)[q].message = M[q].message
      BY <1>4, <2>1, EntryKeeps
    <2>3. QED
      BY <1>3, <1>4, <2>1, <2>2 DEF SameMessages
  <1>6. ListsGood' /\ Apart(b) /\ MailBoxTable'[b].status = MailBoxTable[b].status
    BY <1>1, <1>2, <1>3, <1>5, ReceiverLeaves
  <1>7. Same(b)
    BY <1>4, <1>6, SameIfFree
  <1>8. UNCHANGED Abstract!vars
    BY <1>3, <1>6, <1>7, Stutters DEF Apart
  <1>9. QED
    BY <1>6, <1>8 DEF Promise

(* A handler sends on behalf of the process it interrupts, or of nobody.   *)
LEMMA HandlerStep ==
  ASSUME ListsInv, NEW c \in Procs \cup {NULL}, Interrupts(c), NEW d \in DeviceBoxes,
         CondSend(c, d, Message(NULL, d), IntSize), frame' = frame, zapped' = zapped
  PROVE  ListsGood' /\ Promise
  <1>1. d \in Boxes /\ IntSize \in Int
    BY DevicesAreBoxes, SizesAre
  <1>2. PICK x : x = Message(NULL, d)
    OBVIOUS
  <1>3. x \in Messages
    BY <1>1, <1>2, MessageFrom
  <1>4. MailBoxTable[d].status = "USED"
    BY InvParts DEF DevicesUsed
  <1>5. c \notin blocked
    <2>1. blocked \subseteq Procs /\ NULL \notin Procs
      BY InvParts, TableAssumption2
    <2>2. c # NULL => Runs(c)
      BY DEF Interrupts
    <2>3. QED
      BY <2>1, <2>2, RunnerIsFree
  <1>6. QED
    BY <1>1, <1>2, <1>3, <1>4, <1>5, CondSendStep

LEMMA InterruptStep ==
  ASSUME ListsInv, NEW c \in Procs \cup {NULL}, Interrupt(c)
  PROVE  ListsGood' /\ Promise
  <1>1. CASE ClockHandler(c)
    <2>1. /\ Interrupts(c) /\ frame' = frame /\ zapped' = zapped
          /\ \/ CondSend(c, 0, Message(NULL, 0), IntSize)
             \/ /\ MailBoxTable' = MailBoxTable /\ SlotTable' = SlotTable
                /\ MboxProcTable' = MboxProcTable /\ blocked' = blocked /\ delivery' = delivery
      BY <1>1 DEF ClockHandler
    <2>2. PICK d : d = 0
      OBVIOUS
    <2>3. d \in DeviceBoxes
      BY <2>2, TableAssumption2 DEF DeviceBoxes
    <2>4. CASE CondSend(c, 0, Message(NULL, 0), IntSize)
      BY <2>1, <2>2, <2>3, <2>4, HandlerStep
    <2>5. CASE /\ MailBoxTable' = MailBoxTable /\ SlotTable' = SlotTable
               /\ MboxProcTable' = MboxProcTable /\ blocked' = blocked /\ delivery' = delivery
      <3>1. Calm
        BY <2>1, <2>5, InvParts, OthersWait DEF Calm, ZappedStay, SameLinks, SameMessages
      <3>2. QED
        BY <2>5, <3>1, CalmStep
    <2>6. QED
      BY <2>1, <2>4, <2>5
  <1>2. CASE \E d \in DeviceBoxes : DeviceHandler(c, d)
    <2>1. PICK d \in DeviceBoxes : DeviceHandler(c, d)
      BY <1>2
    <2>2. /\ Interrupts(c) /\ CondSend(c, d, Message(NULL, d), IntSize)
          /\ frame' = frame /\ zapped' = zapped
      BY <2>1 DEF DeviceHandler, procVars
    <2>3. QED
      BY <2>2, HandlerStep
  <1>3. QED
    BY <1>1, <1>2 DEF Interrupt

LEMMA CondSendCallStep ==
  ASSUME ListsInv, Careful, NEW p \in Procs, NEW b \in Boxes, NEW n \in Sizes,
         MboxCondSend(p, b, Message(p, b), n)
  PROVE  ListsGood' /\ Promise
  <1>1. PICK x : x = Message(p, b)
    OBVIOUS
  <1>2. x \in Messages /\ n \in Int
    BY <1>1, MessageFrom, SizesAre
  <1>3. /\ p \notin blocked /\ MailBoxTable[b].status = "USED" /\ CondSend(p, b, x, n)
        /\ frame' = frame /\ zapped' = zapped
    BY <1>1, RunnerIsFree DEF MboxCondSend, SendCall, MayCall, procVars
  <1>4. QED
    BY <1>2, <1>3, CondSendStep
-----------------------------------------------------------------------------
LEMMA StepLists ==
  ASSUME ListsInv, Careful, NEW p \in Procs, Step(p)
  PROVE  ListsGood' /\ Promise
  <1>1. CASE BadCall(p) \/ Return(p) \/ Quit(p) \/ GetsZapped(p)
    BY <1>1, OtherSteps
  <1>2. ASSUME NEW b \in Boxes, NEW slots \in Capacities, NEW size \in SlotSizes,
               MboxCreate(p, b, slots, size)
        PROVE  ListsGood' /\ Promise
    BY <1>2, CreateStep
  <1>3. ASSUME NEW b \in Boxes, NEW n \in Sizes,
               \/ MboxSend(p, b, Message(p, b), n) \/ NoSlotsInSystem(p, b, n)
               \/ MboxSendBlocks(p, b, Message(p, b), n) \/ MboxCondSend(p, b, Message(p, b), n)
        PROVE  ListsGood' /\ Promise
    <2>1. NoSlotsInSystem(p, b, n) => Stop("noSlots")
      BY DEF NoSlotsInSystem
    <2>2. QED
      BY <1>3, <2>1, SendStep, StopStep, SendBlocksStep, CondSendCallStep
  <1>4. ASSUME NEW b \in Boxes, NEW n \in Sizes \cup {IntSize},
               \/ ReceiveFromSender(p, b, n) \/ MboxReceiveBlocks(p, b, n)
               \/ ReceiveFails(p, b, n) \/ ReceiveFromSlot(p, b, n)
        PROVE  ListsGood' /\ Promise
    BY <1>4, FromSenderStep, ReceiveBlocksStep, ReceiveFailsStep, FromSlotStep
  <1>5. ASSUME NEW b \in Boxes,
               \/ ReleaseIdle(p, b) \/ ReleaseStarts(p, b)
               \/ ReleaseSender(p, b) \/ ReleaseReceiver(p, b) \/ ReleaseEnds(p, b)
        PROVE  ListsGood' /\ Promise
    BY <1>5, ReleaseIdleStep, ReleaseStartsStep, ReleaseSenderStep, ReleaseReceiverStep, ReleaseEndsStep
  <1>6. QED
    BY <1>1, <1>2, <1>3, <1>4, <1>5 DEF Step

LEMMA NextLists ==
  ASSUME ListsInv, Careful, [Next]_vars
  PROVE  ListsInv' /\ [Abstract!Next]_(Abstract!vars)
  <1>1. ASSUME vars' = vars PROVE ListsGood' /\ Promise
    <2>1. /\ MailBoxTable' = MailBoxTable /\ SlotTable' = SlotTable /\ MboxProcTable' = MboxProcTable
          /\ blocked' = blocked /\ frame' = frame /\ delivery' = delivery /\ zapped' = zapped
      BY <1>1 DEF vars
    <2>2. Calm
      BY <2>1, InvParts, OthersWait DEF Calm, ZappedStay, SameLinks, SameMessages
    <2>3. QED
      BY <2>1, <2>2, CalmStep
  <1>2. ASSUME NEW p \in Procs, Step(p) PROVE ListsGood' /\ Promise
    BY <1>2, StepLists
  <1>3. ASSUME NEW c \in Procs \cup {NULL}, Interrupt(c) PROVE ListsGood' /\ Promise
    BY <1>3, InterruptStep
  <1>4. Sentinel => vars' = vars
    BY DEF Sentinel
  <1>5. ListsGood' /\ Promise
    BY <1>1, <1>2, <1>3, <1>4 DEF Next
  <1>6. SlotsInv'
    BY NextInv DEF ListsInv
  <1>7. QED
    BY <1>5, <1>6 DEF ListsInv, Promise

LEMMA NobodyListed ==
  ASSUME NEW links, NEW all
  PROVE  GoodList(<<>>, NULL, links, {}, all)
  <1>1. PICK q : q = <<>>
    OBVIOUS
  <1>2. q \in Seq(Procs) /\ Len(q) = 0
    BY <1>1, EmptySeq, EmptyList
  <1>3. \A i \in 1..Len(q) : FALSE
    BY <1>2
  <1>4. IsChain(q, NULL, links, NULL) /\ Elements(q) = {}
    BY <1>2, <1>3 DEF IsChain, Elements
  <1>5. QED
    BY <1>1, <1>2, <1>4 DEF GoodList

LEMMA InitBlank ==
  ASSUME Init, NEW b \in Boxes
  PROVE  Blank(MailBoxTable[b])
  <1>1. PICK made, zero : made = Created(ZeroMailbox, 0, 0) /\ zero = ZeroMailbox
    OBVIOUS
  <1>2. Blank(zero)
    BY <1>1, ZeroIs
  <1>3. Blank(made)
    <2>1. CreatedIs(ZeroMailbox, 0, 0, made)
      BY <1>1, ZeroIs, CreatedBox
    <2>2. QED
      BY <1>1, <1>2, <2>1 DEF CreatedIs, Blank
  <1>4. MailBoxTable = [c \in Boxes |-> IF c \in DeviceBoxes THEN made ELSE zero]
    BY <1>1 DEF Init
  <1>5. MailBoxTable[b] = made \/ MailBoxTable[b] = zero
    BY <1>4
  <1>6. QED
    BY <1>2, <1>3, <1>5

LEMMA InitLists ==
  ASSUME Init
  PROVE  ListsInv /\ Abstract!Init
  <1>1. ASSUME NEW k \in Kinds, NEW b \in Boxes
        PROVE  /\ GoodList(ListOf(k, b), HeadOf(k, b), LinksOf(k), InWait(k, b), NoneZapped)
               /\ ListOf(k, b) = <<>>
    <2>1. PICK h, links, q : h = HeadOf(k, b) /\ links = LinksOf(k) /\ q = <<>>
      OBVIOUS
    <2>2. h = NULL
      BY <2>1, InitBlank DEF HeadOf, Blank
    <2>3. InWait(k, b) = {}
      BY DEF Init, InWait
    <2>4. GoodList(q, h, links, {}, NoneZapped)
      BY <2>1, <2>2, NobodyListed
    <2>5. Chain(h, links) = q
      BY <2>4, GoodListIs
    <2>6. ListOf(k, b) = q
      BY <2>1, <2>5 DEF ListOf
    <2>7. QED
      BY <2>1, <2>3, <2>4, <2>6
  <1>2. ListsInv
    BY <1>1, InitInv DEF ListsGood, ListsInv
  <1>3. ASSUME NEW b \in Boxes PROVE QueueOf(b) = <<>> /\ WaitingOf(b) = <<>>
    <2>1. ListOf("sendWait", b) = <<>> /\ ListOf("recvWait", b) = <<>>
      BY <1>1 DEF Kinds
    <2>2. MailBoxTable[b].slotList = <<>>
      BY InitBlank DEF Blank
    <2>3. <<>> \o <<>> = <<>>
      BY ConcatEmptySeq, EmptySeq
    <2>4. QED
      BY <2>1, <2>2, <2>3, QueuesAre, NoMsgs
  <1>4. /\ OpenNow \in SUBSET Boxes
        /\ QueuesNow = [b \in Boxes |-> <<>>] /\ WaitingNow = [b \in Boxes |-> <<>>]
    BY <1>3 DEF OpenNow, QueuesNow, WaitingNow
  <1>5. Abstract!Init
    BY <1>4 DEF Abstract!Init, Init, OpenNow, QueuesNow, WaitingNow
  <1>6. QED
    BY <1>2, <1>5

(* The mailboxes implement queues: what is accepted, of blocked senders    *)
(* too, is received once, in order, by the receiver that has waited        *)
(* longest.  Interrupts and zaps may come at any time.                     *)
THEOREM DeliversTruly ==
  ASSUME Careful
  PROVE  Spec => DeliversInOrder
  <1>1. Init => ListsInv /\ Abstract!Init
    BY InitLists
  <1>2. ListsInv /\ [Next]_vars => ListsInv' /\ [Abstract!Next]_(Abstract!vars)
    BY NextLists
  <1>3. QED
    BY <1>1, <1>2, PTL DEF Spec, DeliversInOrder, Abstract!Spec
-----------------------------------------------------------------------------
(* A list of everybody who waits holds each of them once.                  *)
Times(q, p) == Cardinality({i \in DOMAIN q : q[i] = p})

LEMMA TimesListed ==
  ASSUME NEW q, NEW h, NEW links, NEW W, NEW all,
         GoodList(q, h, links, W, all), all, NEW p
  PROVE  Times(q, p) = IF p \in W THEN 1 ELSE 0
  <1>1. /\ q \in Seq(Procs) /\ W = Elements(q) /\ \A i, j \in 1..Len(q) : q[i] = q[j] => i = j
    BY DEF GoodList, IsChain
  <1>2. DOMAIN q = 1..Len(q)
    BY <1>1, LenProperties
  <1>3. PICK T : T = {i \in DOMAIN q : q[i] = p}
    OBVIOUS
  <1>4. CASE p \in W
    <2>1. PICK i \in 1..Len(q) : q[i] = p
      BY <1>1, <1>4 DEF Elements
    <2>2. T = {i}
      BY <1>1, <1>2, <1>3, <2>1
    <2>3. Cardinality({i}) = 1
      BY FS_Singleton
    <2>4. QED
      BY <1>3, <1>4, <2>2, <2>3 DEF Times
  <1>5. CASE p \notin W
    <2>1. T = {}
      BY <1>1, <1>2, <1>3, <1>5 DEF Elements
    <2>2. Cardinality({}) = 0
      BY FS_EmptySet
    <2>3. QED
      BY <1>3, <1>5, <2>1, <2>2 DEF Times
  <1>6. QED
    BY <1>4, <1>5

LEMMA InvBlockedIsListed ==
  ASSUME ListsInv, NoneZapped
  PROVE  BlockedIsListed
  <1>1. ASSUME NEW k \in Kinds, NEW b \in Boxes, NEW p \in Procs
        PROVE  Times(ListOf(k, b), p) = IF p \in blocked /\ frame[p] = At(k, b) THEN 1 ELSE 0
    <2>1. PICK q, h, links, W : /\ q = ListOf(k, b) /\ h = HeadOf(k, b) /\ links = LinksOf(k)
                                /\ W = InWait(k, b)
      OBVIOUS
    <2>2. GoodList(q, h, links, W, NoneZapped)
      BY <2>1, InvParts, ListsGoodOf
    <2>3. Times(q, p) = IF p \in W THEN 1 ELSE 0
      BY <2>2, TimesListed
    <2>4. p \in W <=> p \in blocked /\ frame[p] = At(k, b)
      BY <2>1 DEF InWait
    <2>5. QED
      BY <2>1, <2>3, <2>4
  <1>2. QED
    BY <1>1, QueuesAre DEF BlockedIsListed, Kinds, Times

(* A process that is blocked in a mailbox is on its list, once, and nobody *)
(* else is: where nobody is zapped, who is listed will be woken.           *)
THEOREM TheBlockedAreListed ==
  ASSUME Careful, "zap" \notin Calls
  PROVE  Spec => []BlockedIsListed
  <1>1. Init => ListsInv /\ NoneZapped
    BY InitLists DEF Init, NoneZapped
  <1>2. ListsInv /\ NoneZapped /\ [Next]_vars => ListsInv' /\ NoneZapped'
    <2>1. ASSUME NoneZapped, [Next]_vars PROVE NoneZapped'
      <3>1. ASSUME NEW p \in Procs, Step(p) PROVE zapped' = zapped
        <4>1. ~GetsZapped(p)
          BY DEF GetsZapped
        <4>2. CASE BadCall(p) \/ Return(p) \/ Quit(p)
          BY <4>2 DEF BadCall, Return, Quit, procVars
        <4>3. ASSUME NEW b \in Boxes, NEW slots \in Capacities, NEW size \in SlotSizes,
                     MboxCreate(p, b, slots, size)
              PROVE  zapped' = zapped
          BY <4>3 DEF MboxCreate, procVars
        <4>4. ASSUME NEW b \in Boxes, NEW n \in Sizes,
                     \/ MboxSend(p, b, Message(p, b), n) \/ NoSlotsInSystem(p, b, n)
                     \/ MboxSendBlocks(p, b, Message(p, b), n) \/ MboxCondSend(p, b, Message(p, b), n)
              PROVE  zapped' = zapped
          <5>1. PICK x : x = Message(p, b)
            OBVIOUS
          <5>2. MboxSend(p, b, x, n) \/ MboxCondSend(p, b, x, n) => zapped' = zapped
            BY DEF MboxSend, MboxCondSend, procVars
          <5>3. NoSlotsInSystem(p, b, n) \/ MboxSendBlocks(p, b, x, n) => zapped' = zapped
            BY DEF NoSlotsInSystem, MboxSendBlocks, Stop, procVars
          <5>4. QED
            BY <4>4, <5>1, <5>2, <5>3
        <4>5. ASSUME NEW b \in Boxes, NEW n \in Sizes \cup {IntSize},
                     \/ ReceiveFromSender(p, b, n) \/ MboxReceiveBlocks(p, b, n)
                     \/ ReceiveFails(p, b, n) \/ ReceiveFromSlot(p, b, n)
              PROVE  zapped' = zapped
          <5>1. ReceiveFromSender(p, b, n) \/ ReceiveFails(p, b, n) => zapped' = zapped
            BY DEF ReceiveFromSender, ReceiveFails, procVars
          <5>2. MboxReceiveBlocks(p, b, n) => zapped' = zapped
            BY DEF MboxReceiveBlocks, Stop, procVars
          <5>3. ReceiveFromSlot(p, b, n) => zapped' = zapped
            BY DEF ReceiveFromSlot, procVars
          <5>4. QED
            BY <4>5, <5>1, <5>2, <5>3
        <4>6. ASSUME NEW b \in Boxes,
                     \/ ReleaseIdle(p, b) \/ ReleaseStarts(p, b)
                     \/ ReleaseSender(p, b) \/ ReleaseReceiver(p, b) \/ ReleaseEnds(p, b)
              PROVE  zapped' = zapped
          BY <4>6 DEF ReleaseIdle, ReleaseStarts, ReleaseSender, ReleaseReceiver, ReleaseEnds, procVars
        <4>7. QED
          BY <3>1, <4>1, <4>2, <4>3, <4>4, <4>5, <4>6 DEF Step
      <3>2. ASSUME NEW c \in Procs \cup {NULL}, Interrupt(c) PROVE zapped' = zapped
        BY <3>2 DEF Interrupt, ClockHandler, DeviceHandler, procVars
      <3>3. zapped' = zapped
        BY <2>1, <3>1, <3>2 DEF Next, Sentinel, vars
      <3>4. QED
        BY <2>1, <3>3 DEF NoneZapped
    <2>2. QED
      BY <2>1, NextLists
  <1>3. ListsInv /\ NoneZapped => BlockedIsListed
    BY InvBlockedIsListed
  <1>4. QED
    BY <1>1, <1>2, <1>3, PTL DEF Spec
=============================================================================
