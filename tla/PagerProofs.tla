---------------------------- MODULE PagerProofs ----------------------------
(* Theorems about the virtual memory of phase 5, for any programs, frames, *)
(* blocks and pagers.                                                      *)
(*                                                                         *)
(* The argument has three layers.  PagerShape says what the variables may  *)
(* be.  TablesInv says who may work on what: a page that is waited for is  *)
(* once in the mailbox or with one pager, no frame is with two pagers, and *)
(* each finds in the frame table and in the page table what it left there. *)
(* From that, the two tables match and the free frames are counted.        *)
(* KeptInv says where the contents of a page are, in terms of its frame,   *)
(* its block and its dirty bit.  TablesInv and KeptInv are claimed as long *)
(* as nothing is broken, which is where PagerNext stops; the pages that    *)
(* are spoilt are no part of KeptInv.                                      *)
EXTENDS Pager, SequenceTheorems, FiniteSetTheorems, WellFoundedInduction, TLAPS

-----------------------------------------------------------------------------
Data == PagesIn \cup {Zeroes, Old}
Entry == [frame : Frames \cup {-1}, accessed : BOOLEAN, diskTableIndex : Blocks \cup {-1}]
Bits == [ref : BOOLEAN, dirty : BOOLEAN]
Work == [at : {"pagerMbox", "entering", "pageOut", "pageIn"}, page : PagesIn \cup {NULL},
         frame : Frames \cup {-1}, block : Blocks \cup {-1}, buffer : Data]

PagerShape ==
    /\ pageTable \in [PagesIn -> Entry]
    /\ frameTable \in [Frames -> PagesIn \cup {NULL}]
    /\ access \in [Frames -> Bits]
    /\ clockHand \in Frames
    /\ disk \in [Blocks -> Data] /\ memory \in [Frames -> Data]
    /\ diskTable \in [Blocks -> PagesIn \cup {NULL}]
    /\ freeFrames \in Int
    /\ pagerMbox \in Seq(PagesIn)
    /\ program \in [VmProcs -> [at : {"runs", "faults", "gone"}, page : PagesIn \cup {NULL}]]
    /\ pager \in [Pagers -> Work]
    /\ written \subseteq PagesIn

(* A page that is waited for is in one place: once in the mailbox, or with *)
(* one pager.                                                              *)
Busy(g) == pager[g].at # "pagerMbox"
Waiting(x) == program[x[1]] = At("faults", x)

Queued ==
    /\ \A i \in 1..Len(pagerMbox) : Waiting(pagerMbox[i]) /\ FrameOf(pagerMbox[i]) = -1
    /\ \A i, j \in 1..Len(pagerMbox) : pagerMbox[i] = pagerMbox[j] => i = j

Served ==
    /\ \A g \in Pagers : Busy(g) => /\ pager[g].page \in PagesIn /\ Waiting(pager[g].page)
                                    /\ \A i \in 1..Len(pagerMbox) : pagerMbox[i] # pager[g].page
    /\ \A g, h \in Pagers : Busy(g) /\ Busy(h) /\ pager[g].page = pager[h].page => g = h

(* No two pagers work on one frame, and what each finds in its own.        *)
OwnFrame ==
    /\ \A g \in Pagers : Busy(g) <=> pager[g].frame # -1
    /\ \A g, h \in Pagers : Busy(g) /\ pager[g].frame = pager[h].frame => g = h

FrameKnown(g) ==
    LET d == pager[g]
    IN /\ d.at = "entering" => frameTable[d.frame] = NULL /\ FrameOf(d.page) = -1
       /\ d.at = "pageOut" => /\ frameTable[d.frame] # NULL /\ FrameOf(d.page) = -1
                              /\ d.block # -1
       /\ d.at = "pageIn" => /\ frameTable[d.frame] = d.page /\ d.block # -1
                             /\ d.block = pageTable[d.page].diskTableIndex

Matched ==
    /\ \A x \in PagesIn : FrameOf(x) # -1 => frameTable[FrameOf(x)] = x
    /\ \A f \in Frames : frameTable[f] # NULL => FrameOf(frameTable[f]) = f

FreeOnes == {f \in Frames : frameTable[f] = NULL}
Entering == {g \in Pagers : pager[g].at = "entering"}
Counted == freeFrames = Cardinality(FreeOnes) - Cardinality(Entering)

TablesInv ==
    /\ Queued /\ Served /\ OwnFrame
    /\ \A g \in Pagers : FrameKnown(g)
    /\ Matched /\ Counted

Gone(x) == program[x[1]].at = "gone"
BeingRead(x) == \E g \in Pagers : pager[g].at = "pageIn" /\ pager[g].page = x
OnDisk(x) ==
    /\ pageTable[x].diskTableIndex # -1
    /\ disk[pageTable[x].diskTableIndex] = Contents(x)
NeverWritten(x) == pageTable[x].diskTableIndex = -1 /\ x \notin written
Kept(x) ==
    IF FrameOf(x) = -1 THEN OnDisk(x) \/ (NeverWritten(x) /\ ~pageTable[x].accessed)
    ELSE IF BeingRead(x) THEN OnDisk(x)
    ELSE /\ memory[FrameOf(x)] = Contents(x)
         /\ access[FrameOf(x)].dirty \/ pageTable[x].diskTableIndex = -1 \/ OnDisk(x)

KeptInv ==
    /\ \A x \in PagesIn : Gone(x) => pageTable[x] = NewPage
    /\ \A x \in PagesIn \ spoilt : ~Gone(x) => Kept(x)
-----------------------------------------------------------------------------
(* The operators of the pager.                                             *)

LEMMA PagesAndFrames ==
  /\ IsFiniteSet(Frames) /\ Frames \subseteq Nat /\ -1 \notin Frames /\ -1 \notin Blocks
  /\ Blocks \subseteq Nat
  /\ NULL \notin PagesIn /\ Zeroes \notin PagesIn /\ Old \notin PagesIn
  /\ \A x \in PagesIn : x[1] \in VmProcs /\ x[2] \in PagesOf[x[1]] /\ x = <<x[1], x[2]>>
  <1>1. IsFiniteSet(Frames)
    BY PagerAssumption, FS_Interval DEF Frames
  <1>2. Frames \subseteq Nat /\ -1 \notin Frames /\ -1 \notin Blocks /\ Blocks \subseteq Nat
    BY PagerAssumption DEF Frames, Blocks
  <1>3. ASSUME NEW x \in PagesIn
        PROVE  x[1] \in VmProcs /\ x[2] \in PagesOf[x[1]] /\ x = <<x[1], x[2]>>
    BY DEF PagesIn
  <1>4. ASSUME NEW c PROVE <<c>> \notin PagesIn
    <2>1. SUFFICES ASSUME <<c>> \in PagesIn PROVE FALSE
      OBVIOUS
    <2>2. <<c>> = <<<<c>>[1], <<c>>[2]>>
      BY <1>3, <2>1
    <2>3. QED
      BY <2>2
  <1>5. QED
    BY <1>1, <1>2, <1>3, <1>4, PagerAssumption DEF Zeroes, Old

LEMMA LeastOf ==
  ASSUME NEW T \in SUBSET Nat, T # {}
  PROVE  \E n \in T : \A m \in T : n <= m
  <1>1. PICK n \in T : \A m \in T : ~ (<<m, n>> \in OpToRel(<, Nat))
    BY WFMin, NatLessThanWellFounded
  <1>2. \A m \in T : ~(m < n)
    BY <1>1 DEF OpToRel
  <1>3. QED
    BY <1>2

(* The first of the unused frames, if there is one. *)
FirstFree == CHOOSE f \in Frames : frameTable[f] = NULL /\ \A e \in 0..f - 1 : frameTable[e] # NULL

LEMMA FirstFreeIsFree ==
  ASSUME \E e \in Frames : frameTable[e] = NULL
  PROVE  FirstFree \in Frames /\ frameTable[FirstFree] = NULL
  <1>1. PICK f \in {e \in Frames : frameTable[e] = NULL} :
            \A e \in {e \in Frames : frameTable[e] = NULL} : f <= e
    BY LeastOf, PagesAndFrames
  <1>2. f \in Frames /\ frameTable[f] = NULL /\ \A e \in 0..f - 1 : frameTable[e] # NULL
    BY <1>1, PagerAssumption DEF Frames
  <1>3. QED
    BY <1>2 DEF FirstFree

(* The hand stops at a frame, and passing one only clears its reference    *)
(* bit.                                                                    *)
LEMMA AfterIsFrame ==
  ASSUME clockHand \in Frames, NEW n \in Nat PROVE After(n) \in Frames
  BY PagerAssumption DEF After, Frames

LEMMA PassedIsCount ==
  ASSUME clockHand \in Frames PROVE Passed \in Nat
  <1> DEFINE T == {n \in 0..frames : n < frames => ~access[After(n)].ref}
  <1>1. frames \in T /\ T \subseteq Nat
    BY PagerAssumption
  <1>2. PICK n \in T : \A m \in T : n <= m
    BY <1>1, LeastOf
  <1>3. \A m \in 0..n - 1 : access[After(m)].ref
    BY <1>2, PagerAssumption
  <1>4. \E k \in 0..frames : /\ k < frames => ~access[After(k)].ref
                             /\ \A m \in 0..k - 1 : access[After(m)].ref
    BY <1>2, <1>3
  <1>5. Passed \in 0..frames
    BY <1>4 DEF Passed
  <1>6. QED
    BY <1>5, PagerAssumption

LEMMA VictimIsFrame ==
  ASSUME clockHand \in Frames PROVE Victim \in Frames /\ (Victim + 1) % frames \in Frames
  BY AfterIsFrame, PassedIsCount, PagerAssumption DEF Victim, Frames

LEMMA SweptKeepsDirty ==
  ASSUME access \in [Frames -> Bits]
  PROVE  Swept \in [Frames -> Bits] /\ \A f \in Frames : Swept[f].dirty = access[f].dirty
  <1>1. \A f \in Frames : /\ Swept[f] \in Bits /\ Swept[f].dirty = access[f].dirty
    <2>1. SUFFICES ASSUME NEW f \in Frames
                   PROVE  Swept[f] \in Bits /\ Swept[f].dirty = access[f].dirty
      OBVIOUS
    <2>2. PICK a : a = access[f]
      OBVIOUS
    <2>3. a \in Bits
      BY <2>2
    <2>4. Swept[f] = IF PassedBy(f) THEN [a EXCEPT !.ref = FALSE] ELSE a
      BY <2>2 DEF Swept
    <2>5. QED
      BY <2>2, <2>3, <2>4 DEF Bits
  <1>2. QED
    BY <1>1 DEF Swept

(* The block that a page is written to is one, when there is one.          *)
LEMMA BlockForIsBlock ==
  ASSUME NEW p, NEW y, \E c \in Blocks : diskTable[c] = NULL \/ Holds(c, p, y)
  PROVE  BlockFor(p, y) \in Blocks
  <1>1. CASE \E b \in Blocks : Holds(b, p, y)
    <2>1. PICK b \in {d \in Blocks : Holds(d, p, y)} :
              \A c \in {d \in Blocks : Holds(d, p, y)} : b <= c
      BY <1>1, LeastOf, PagesAndFrames
    <2>2. b \in Blocks /\ Holds(b, p, y) /\ \A c \in Blocks : c < b => ~Holds(c, p, y)
      BY <2>1, PagesAndFrames
    <2>3. BlockFor(p, y) = CHOOSE d \in Blocks : Holds(d, p, y) /\ \A c \in Blocks : c < d => ~Holds(c, p, y)
      BY <1>1 DEF BlockFor, FirstBlock
    <2>4. QED
      BY <2>2, <2>3
  <1>2. CASE ~\E b \in Blocks : Holds(b, p, y)
    <2>1. PICK b \in {d \in Blocks : diskTable[d] = NULL} :
              \A c \in {d \in Blocks : diskTable[d] = NULL} : b <= c
      BY <1>2, LeastOf, PagesAndFrames
    <2>2. b \in Blocks /\ diskTable[b] = NULL /\ \A c \in Blocks : c < b => ~(diskTable[c] = NULL)
      BY <2>1, PagesAndFrames
    <2>3. BlockFor(p, y) = CHOOSE d \in Blocks : diskTable[d] = NULL /\ \A c \in Blocks : c < d => ~(diskTable[c] = NULL)
      BY <1>2 DEF BlockFor, FirstBlock
    <2>4. QED
      BY <2>2, <2>3
  <1>3. QED
    BY <1>1, <1>2

(* What Fill does, page by page.                                           *)
LEMMA EnteredEffect ==
  ASSUME NEW x \in PagesIn, NEW f \in Frames, NEW pt \in [PagesIn -> Entry]
  PROVE  /\ Entered(x, f, pt) \in [PagesIn -> Entry]
         /\ \A z \in PagesIn :
               /\ Entered(x, f, pt)[z].diskTableIndex = pt[z].diskTableIndex
               /\ Entered(x, f, pt)[z].accessed = pt[z].accessed
               /\ z = x => Entered(x, f, pt)[z].frame = f
               /\ z # x /\ z = frameTable[f] => Entered(x, f, pt)[z].frame = -1
               /\ z # x /\ z # frameTable[f] => Entered(x, f, pt)[z] = pt[z]
  <1>1. ASSUME NEW z \in PagesIn
        PROVE  /\ Entered(x, f, pt)[z] \in Entry
               /\ Entered(x, f, pt)[z].diskTableIndex = pt[z].diskTableIndex
               /\ Entered(x, f, pt)[z].accessed = pt[z].accessed
               /\ z = x => Entered(x, f, pt)[z].frame = f
               /\ z # x /\ z = frameTable[f] => Entered(x, f, pt)[z].frame = -1
               /\ z # x /\ z # frameTable[f] => Entered(x, f, pt)[z] = pt[z]
    <2>1. PICK e : e = pt[z]
      OBVIOUS
    <2>2. e \in Entry
      BY <2>1
    <2>3. Entered(x, f, pt)[z] = IF z = x THEN [e EXCEPT !.frame = f]
                                 ELSE IF z = frameTable[f] THEN [e EXCEPT !.frame = -1] ELSE e
      BY <2>1 DEF Entered
    <2>4. QED
      BY <2>1, <2>2, <2>3 DEF Entry
  <1>2. QED
    BY <1>1 DEF Entered

FillsFrame(g, x, f, pt, bits) ==
    LET read == pt[x].diskTableIndex # -1
        new == ~read /\ ~pt[x].accessed
    IN /\ frameTable' = [frameTable EXCEPT ![f] = x]
       /\ pageTable' \in [PagesIn -> Entry]
       /\ pageTable'[x].frame = f
       /\ \A z \in PagesIn : pageTable'[z].diskTableIndex = pt[z].diskTableIndex
       /\ \A z \in PagesIn \ {x} :
             /\ pageTable'[z].accessed = pt[z].accessed
             /\ z = frameTable[f] => pageTable'[z].frame = -1
             /\ z # frameTable[f] => pageTable'[z] = pt[z]
       /\ memory' = IF new THEN [memory EXCEPT ![f] = Zeroes] ELSE memory
       /\ access' = IF new THEN [bits EXCEPT ![f] = Clear] ELSE bits
       /\ read => /\ pager' = [pager EXCEPT ![g] = Doing("pageIn", x, f, pt[x].diskTableIndex, Zeroes)]
                  /\ program' = program
       /\ ~read => /\ pager' = [pager EXCEPT ![g] = Idle]
                   /\ program' = [program EXCEPT ![x[1]] = At("runs", NULL)]

LEMMA FillEffect ==
  ASSUME NEW g \in Pagers, NEW x \in PagesIn, NEW f \in Frames, NEW pt \in [PagesIn -> Entry],
         NEW bits, Fill(g, x, f, pt, bits)
  PROVE  FillsFrame(g, x, f, pt, bits)
  <1> DEFINE read == pt[x].diskTableIndex # -1
             new == ~read /\ ~pt[x].accessed
  <1>1. PICK t : t = Entered(x, f, pt)
    OBVIOUS
  <1>2. /\ t \in [PagesIn -> Entry] /\ t[x].frame = f
        /\ \A z \in PagesIn : /\ t[z].diskTableIndex = pt[z].diskTableIndex
                              /\ t[z].accessed = pt[z].accessed
        /\ \A z \in PagesIn \ {x} : /\ z = frameTable[f] => t[z].frame = -1
                                    /\ z # frameTable[f] => t[z] = pt[z]
    BY <1>1, EnteredEffect
  <1>3. pageTable' = IF new THEN [t EXCEPT ![x].accessed = TRUE] ELSE t
    BY <1>1 DEF Fill
  <1>4. CASE ~new
    <2>1. pageTable' = t
      BY <1>3, <1>4
    <2>2. QED
      BY <1>2, <1>4, <2>1 DEF Fill, Reply, FillsFrame
  <1>5. CASE new
    <2>1. PICK e : e = [t[x] EXCEPT !.accessed = TRUE]
      OBVIOUS
    <2>2. /\ e \in Entry /\ e.frame = f /\ e.diskTableIndex = t[x].diskTableIndex
      <3>1. PICK o : o = t[x]
        OBVIOUS
      <3>2. o \in Entry /\ o.frame = f
        BY <1>2, <3>1
      <3>3. QED
        BY <2>1, <3>1, <3>2 DEF Entry
    <2>3. pageTable' = [t EXCEPT ![x] = e]
      BY <1>3, <1>5, <2>1
    <2>4. /\ pageTable' \in [PagesIn -> Entry] /\ pageTable'[x] = e
          /\ \A z \in PagesIn \ {x} : pageTable'[z] = t[z]
      BY <1>2, <2>2, <2>3
    <2>5. /\ pageTable'[x].frame = f
          /\ \A z \in PagesIn : pageTable'[z].diskTableIndex = pt[z].diskTableIndex
          /\ \A z \in PagesIn \ {x} :
                /\ pageTable'[z].accessed = pt[z].accessed
                /\ z = frameTable[f] => pageTable'[z].frame = -1
                /\ z # frameTable[f] => pageTable'[z] = pt[z]
      BY <1>2, <2>2, <2>4
    <2>6. QED
      BY <1>5, <2>4, <2>5 DEF Fill, Reply, FillsFrame
  <1>6. QED
    BY <1>4, <1>5
-----------------------------------------------------------------------------
(* The shape.                                                              *)

LEMMA ValuesHaveShape ==
  /\ Idle \in Work /\ Clear \in Bits /\ NewPage \in Entry /\ {Zeroes, Old} \subseteq Data
  /\ At("runs", NULL) \in [at : {"runs", "faults", "gone"}, page : PagesIn \cup {NULL}]
  /\ At("gone", NULL) \in [at : {"runs", "faults", "gone"}, page : PagesIn \cup {NULL}]
  /\ \A x \in PagesIn : At("faults", x) \in [at : {"runs", "faults", "gone"}, page : PagesIn \cup {NULL}]
  /\ \A x \in PagesIn, c \in Data : Aged(x, c) \in Data
  BY DEF Idle, Doing, Work, Clear, Bits, NewPage, Entry, Data, At, Aged

LEMMA PagerInitShape == PagerInit => PagerShape
  <1>1. SUFFICES ASSUME PagerInit PROVE PagerShape
    OBVIOUS
  <1>2. 0 \in Frames /\ frames \in Int
    BY PagerAssumption DEF Frames
  <1>3. QED
    BY <1>1, <1>2, ValuesHaveShape DEF PagerInit, PagerShape

LEMMA FillKeepsShape ==
  ASSUME PagerShape, NEW g \in Pagers, NEW x \in PagesIn, NEW f \in Frames,
         NEW pt \in [PagesIn -> Entry], NEW bits \in [Frames -> Bits], FillsFrame(g, x, f, pt, bits),
         clockHand' \in Frames, freeFrames' \in Int, disk' \in [Blocks -> Data],
         diskTable' \in [Blocks -> PagesIn \cup {NULL}],
         pagerMbox' \in Seq(PagesIn), written' \subseteq PagesIn
  PROVE  PagerShape'
  <1>1. frameTable' \in [Frames -> PagesIn \cup {NULL}] /\ pageTable' \in [PagesIn -> Entry]
    BY DEF FillsFrame, PagerShape
  <1>2. memory' \in [Frames -> Data] /\ access' \in [Frames -> Bits]
    BY ValuesHaveShape DEF FillsFrame, PagerShape
  <1>3. pager' \in [Pagers -> Work]
    <2>1. pt[x].diskTableIndex \in Blocks \cup {-1}
      BY DEF Entry
    <2>2. Doing("pageIn", x, f, pt[x].diskTableIndex, Zeroes) \in Work
      BY <2>1, ValuesHaveShape DEF Doing, Work
    <2>3. QED
      BY <2>2, ValuesHaveShape DEF FillsFrame, PagerShape
  <1>4. program' \in [VmProcs -> [at : {"runs", "faults", "gone"}, page : PagesIn \cup {NULL}]]
    BY ValuesHaveShape DEF FillsFrame, PagerShape
  <1>5. QED
    BY <1>1, <1>2, <1>3, <1>4 DEF PagerShape

LEMMA ReadsKeepsShape ==
  ASSUME PagerShape, NEW x \in PagesIn, Reads(x) PROVE PagerShape'
  <1>1. FrameOf(x) \in Frames
    BY DEF PagerShape, Reads, FrameOf, Entry
  <1>2. PICK a : a = [access[FrameOf(x)] EXCEPT !.ref = TRUE]
    OBVIOUS
  <1>3. a \in Bits
    <2>1. PICK b : b = access[FrameOf(x)]
      OBVIOUS
    <2>2. b \in Bits
      BY <1>1, <2>1 DEF PagerShape
    <2>3. QED
      BY <1>2, <2>1, <2>2 DEF Bits
  <1>4. access' = [access EXCEPT ![FrameOf(x)] = a]
    BY <1>2 DEF Reads
  <1>5. access' \in [Frames -> Bits]
    BY <1>1, <1>3, <1>4 DEF PagerShape
  <1>6. QED
    BY <1>5 DEF PagerShape, Reads, store, ghosts

LEMMA WritesKeepsShape ==
  ASSUME PagerShape, NEW x \in PagesIn, Writes(x) PROVE PagerShape'
  <1>1. FrameOf(x) \in Frames
    BY DEF PagerShape, Writes, FrameOf, Entry
  <1>2. [ref |-> TRUE, dirty |-> TRUE] \in Bits
    BY DEF Bits
  <1>3. access' \in [Frames -> Bits]
    BY <1>1, <1>2 DEF PagerShape, Writes
  <1>4. memory' \in [Frames -> Data] /\ disk' \in [Blocks -> Data]
    BY ValuesHaveShape DEF PagerShape, Writes, Data
  <1>5. pager' \in [Pagers -> Work]
    <2>1. ASSUME NEW g \in Pagers PROVE [pager[g] EXCEPT !.buffer = Aged(x, @)] \in Work
      <3>1. PICK d : d = pager[g]
        OBVIOUS
      <3>2. d \in Work
        BY <3>1 DEF PagerShape
      <3>3. [d EXCEPT !.buffer = Aged(x, d.buffer)] \in Work
        BY <3>2, ValuesHaveShape DEF Work
      <3>4. QED
        BY <3>1, <3>3
    <2>2. QED
      BY <2>1 DEF Writes
  <1>6. written' \subseteq PagesIn
    BY DEF Writes, PagerShape
  <1>7. QED
    BY <1>3, <1>4, <1>5, <1>6 DEF PagerShape, Writes

LEMMA FaultHandlerKeepsShape ==
  ASSUME PagerShape, NEW x \in PagesIn, FaultHandler(x) PROVE PagerShape'
  <1>1. pagerMbox' \in Seq(PagesIn)
    BY DEF PagerShape, FaultHandler
  <1>2. program' \in [VmProcs -> [at : {"runs", "faults", "gone"}, page : PagesIn \cup {NULL}]]
    BY ValuesHaveShape DEF PagerShape, FaultHandler
  <1>3. QED
    BY <1>1, <1>2 DEF PagerShape, FaultHandler, tables, store, ghosts

LEMMA QuitKeepsShape ==
  ASSUME PagerShape, NEW p \in VmProcs, Quit(p) PROVE PagerShape'
  <1>1. program' \in [VmProcs -> [at : {"runs", "faults", "gone"}, page : PagesIn \cup {NULL}]]
    BY ValuesHaveShape DEF PagerShape, Quit
  <1>2. pageTable' \in [PagesIn -> Entry] /\ frameTable' \in [Frames -> PagesIn \cup {NULL}]
    BY ValuesHaveShape DEF PagerShape, Quit
  <1>3. access' \in [Frames -> Bits]
    BY ValuesHaveShape DEF PagerShape, Quit
  <1>4. freeFrames' \in Int
    <2>1. IsFiniteSet(FramesIn(p))
      BY PagesAndFrames, FS_Subset DEF FramesIn
    <2>2. Cardinality(FramesIn(p)) \in Nat
      BY <2>1, FS_CardinalityType
    <2>3. QED
      BY <2>2 DEF Quit, PagerShape
  <1>5. written' \subseteq PagesIn
    BY DEF Quit, PagerShape
  <1>6. QED
    BY <1>1, <1>2, <1>3, <1>4, <1>5 DEF PagerShape, Quit, store

LEMMA HeadIsPage ==
  ASSUME PagerShape, NEW g, Takes(g)
  PROVE  /\ Head(pagerMbox) \in PagesIn /\ Tail(pagerMbox) \in Seq(PagesIn)
         /\ Len(pagerMbox) \in Nat /\ Len(pagerMbox) > 0 /\ Head(pagerMbox) = pagerMbox[1]
         /\ Len(Tail(pagerMbox)) = Len(pagerMbox) - 1
         /\ \A i \in 1..Len(pagerMbox) - 1 : Tail(pagerMbox)[i] = pagerMbox[i + 1]
         /\ pagerMbox' = Tail(pagerMbox) /\ pager[g] = Idle
  BY HeadTailProperties, LenProperties, EmptySeq DEF PagerShape, Takes

LEMMA TakesFreeFrameKeepsShape ==
  ASSUME PagerShape, NEW g \in Pagers, TakesFreeFrame(g) PROVE PagerShape'
  <1>1. /\ Takes(g) /\ \E e \in Frames : frameTable[e] = NULL
        /\ pager' = [pager EXCEPT ![g] = Doing("entering", Head(pagerMbox), FirstFree, -1, Zeroes)]
    BY DEF TakesFreeFrame, FirstFree
  <1>2. Doing("entering", Head(pagerMbox), FirstFree, -1, Zeroes) \in Work
    BY <1>1, FirstFreeIsFree, HeadIsPage, ValuesHaveShape DEF Doing, Work
  <1>3. pager' \in [Pagers -> Work] /\ pagerMbox' \in Seq(PagesIn)
    BY <1>1, <1>2, HeadIsPage DEF PagerShape
  <1>4. QED
    BY <1>3 DEF PagerShape, TakesFreeFrame, store

LEMMA EntersFreeFrameFills ==
  ASSUME PagerShape, OwnFrame, Served, NEW g \in Pagers, EntersFreeFrame(g)
  PROVE  /\ pager[g].page \in PagesIn /\ pager[g].frame \in Frames
         /\ FillsFrame(g, pager[g].page, pager[g].frame, pageTable, access)
  <1>1. Busy(g) /\ pager[g] \in Work
    BY DEF EntersFreeFrame, Busy, PagerShape
  <1>2. pager[g].page \in PagesIn /\ pager[g].frame \in Frames
    BY <1>1 DEF OwnFrame, Served, Work
  <1>3. QED
    BY <1>2, FillEffect DEF EntersFreeFrame, PagerShape

LEMMA DropsCleanFills ==
  ASSUME PagerShape, NEW g \in Pagers, DropsClean(g)
  PROVE  /\ Takes(g) /\ Head(pagerMbox) \in PagesIn /\ Victim \in Frames
         /\ frameTable[Victim] \in PagesIn
         /\ FillsFrame(g, Head(pagerMbox), Victim, pageTable, Swept)
  <1>1. Takes(g) /\ Head(pagerMbox) \in PagesIn /\ Victim \in Frames
    BY HeadIsPage, VictimIsFrame DEF DropsClean, Replaces, PagerShape
  <1>2. frameTable[Victim] \in PagesIn
    BY <1>1 DEF DropsClean, Replaces, PagerShape
  <1>3. QED
    BY <1>1, <1>2, FillEffect DEF DropsClean, PagerShape

(* The page table in which the page that was written out has its block. *)
WrittenOut(g) ==
    LET d == pager[g]
        y == frameTable[d.frame]
    IN [pageTable EXCEPT ![y].diskTableIndex = d.block, ![y].frame = -1]

LEMMA WrittenOutEffect ==
  ASSUME PagerShape, OwnFrame, Served, NEW g \in Pagers, FrameKnown(g), pager[g].at = "pageOut"
  PROVE  /\ pager[g].page \in PagesIn /\ pager[g].frame \in Frames /\ pager[g].block \in Blocks
         /\ pager[g].buffer \in Data
         /\ frameTable[pager[g].frame] \in PagesIn
         /\ WrittenOut(g) \in [PagesIn -> Entry]
         /\ \A z \in PagesIn : WrittenOut(g)[z].accessed = pageTable[z].accessed
         /\ \A z \in PagesIn \ {frameTable[pager[g].frame]} : WrittenOut(g)[z] = pageTable[z]
         /\ WrittenOut(g)[frameTable[pager[g].frame]].diskTableIndex = pager[g].block
         /\ WrittenOut(g)[frameTable[pager[g].frame]].frame = -1
  <1>1. Busy(g) /\ pager[g] \in Work
    BY DEF Busy, PagerShape
  <1>2. /\ pager[g].page \in PagesIn /\ pager[g].frame \in Frames /\ pager[g].block \in Blocks
        /\ pager[g].buffer \in Data
    BY <1>1 DEF OwnFrame, Served, Work, FrameKnown
  <1>3. frameTable[pager[g].frame] \in PagesIn
    BY <1>2 DEF FrameKnown, PagerShape
  <1>4. PICK y : y = frameTable[pager[g].frame]
    OBVIOUS
  <1>5. PICK e : e = pageTable[y]
    OBVIOUS
  <1>6. y \in PagesIn /\ e \in Entry
    BY <1>3, <1>4, <1>5 DEF PagerShape
  <1>7. PICK e1 : e1 = [e EXCEPT !.diskTableIndex = pager[g].block]
    OBVIOUS
  <1>8. /\ e1 \in Entry /\ e1.diskTableIndex = pager[g].block /\ e1.accessed = e.accessed
    BY <1>2, <1>6, <1>7 DEF Entry
  <1>9. PICK e2 : e2 = [e1 EXCEPT !.frame = -1]
    OBVIOUS
  <1>10. /\ e2 \in Entry /\ e2.diskTableIndex = pager[g].block /\ e2.accessed = e.accessed
         /\ e2.frame = -1
    BY <1>8, <1>9 DEF Entry
  <1>11. WrittenOut(g) = [pageTable EXCEPT ![y] = e2]
    <2>1. PICK t : t = [pageTable EXCEPT ![y] = e1]
      OBVIOUS
    <2>2. t \in [PagesIn -> Entry] /\ t[y] = e1
      BY <1>6, <1>8, <2>1 DEF PagerShape
    <2>3. WrittenOut(g) = [[pageTable EXCEPT ![y].diskTableIndex = pager[g].block] EXCEPT ![y].frame = -1]
      BY <1>4 DEF WrittenOut
    <2>4. [pageTable EXCEPT ![y].diskTableIndex = pager[g].block] = t
      BY <1>5, <1>7, <2>1
    <2>5. WrittenOut(g) = [t EXCEPT ![y] = e2]
      BY <1>9, <2>2, <2>3, <2>4
    <2>6. QED
      BY <1>6, <2>1, <2>2, <2>5 DEF PagerShape
  <1>12. QED
    BY <1>2, <1>3, <1>4, <1>5, <1>6, <1>10, <1>11 DEF PagerShape

LEMMA EndsPageOutFills ==
  ASSUME PagerShape, OwnFrame, Served, NEW g \in Pagers, FrameKnown(g), EndsPageOut(g)
  PROVE  FillsFrame(g, pager[g].page, pager[g].frame, WrittenOut(g),
                    [access EXCEPT ![pager[g].frame] = Clear])
  <1>1. pager[g].at = "pageOut"
    BY DEF EndsPageOut
  <1>2. Fill(g, pager[g].page, pager[g].frame, WrittenOut(g), [access EXCEPT ![pager[g].frame] = Clear])
    BY DEF EndsPageOut, WrittenOut
  <1>3. QED
    BY <1>1, <1>2, WrittenOutEffect, FillEffect

LEMMA EndsPageInEffect ==
  ASSUME PagerShape, OwnFrame, Served, NEW g \in Pagers, FrameKnown(g), EndsPageIn(g)
  PROVE  /\ pager[g].page \in PagesIn /\ pager[g].frame \in Frames /\ pager[g].block \in Blocks
         /\ frameTable[pager[g].frame] = pager[g].page
         /\ memory' = [memory EXCEPT ![pager[g].frame] = disk[pager[g].block]]
         /\ access' = [access EXCEPT ![pager[g].frame] = Clear]
         /\ program' = [program EXCEPT ![pager[g].page[1]] = At("runs", NULL)]
         /\ pager' = [pager EXCEPT ![g] = Idle]
         /\ UNCHANGED <<pageTable, frameTable, clockHand, freeFrames, diskTable, disk, written, spoilt,
                        broken, pagerMbox>>
  <1>1. Busy(g) /\ pager[g] \in Work /\ pager[g].at = "pageIn"
    BY DEF EndsPageIn, Busy, PagerShape
  <1>2. QED
    BY <1>1 DEF OwnFrame, Served, Work, FrameKnown, EndsPageIn, Reply, store, ghosts

LEMMA PagerStepKeepsShape ==
  ASSUME PagerShape, OwnFrame, Served, NEW g \in Pagers, FrameKnown(g), PagerStep(g) PROVE PagerShape'
  <1>1. CASE EntersFreeFrame(g)
    BY <1>1, EntersFreeFrameFills, FillKeepsShape DEF EntersFreeFrame, PagerShape, store, ghosts
  <1>2. CASE DropsClean(g)
    <2>1. clockHand' \in Frames /\ pagerMbox' \in Seq(PagesIn) /\ Swept \in [Frames -> Bits]
      BY <1>2, DropsCleanFills, HeadIsPage, VictimIsFrame, SweptKeepsDirty
      DEF PagerShape, DropsClean, Replaces
    <2>2. UNCHANGED <<freeFrames, diskTable, disk, written>>
      BY <1>2 DEF DropsClean, store
    <2>3. QED
      BY <1>2, <2>1, <2>2, DropsCleanFills, FillKeepsShape DEF PagerShape
  <1>3. CASE BeginsPageOut(g)
    <2>1. Takes(g) /\ Head(pagerMbox) \in PagesIn /\ Victim \in Frames /\ memory[Victim] \in Data
      BY <1>3, HeadIsPage, VictimIsFrame DEF BeginsPageOut, PagerShape
    <2>2. BlockFor(Head(pagerMbox)[1], frameTable[Victim]) \in Blocks
      BY <1>3, BlockForIsBlock DEF BeginsPageOut
    <2>3. Doing("pageOut", Head(pagerMbox), Victim, BlockFor(Head(pagerMbox)[1], frameTable[Victim]), memory[Victim])
            \in Work
      BY <2>1, <2>2 DEF Doing, Work
    <2>4. pager' \in [Pagers -> Work]
      BY <1>3, <2>3 DEF BeginsPageOut, PagerShape
    <2>5. clockHand' \in Frames /\ pagerMbox' \in Seq(PagesIn) /\ access' \in [Frames -> Bits]
      BY <1>3, <2>1, HeadIsPage, VictimIsFrame, SweptKeepsDirty
      DEF PagerShape, BeginsPageOut, Replaces
    <2>6. QED
      BY <1>3, <2>4, <2>5 DEF PagerShape, BeginsPageOut, store
  <1>4. CASE NoBlock(g)
    BY <1>4, HeadIsPage DEF NoBlock, PagerShape, tables, store
  <1>5. CASE EndsPageOut(g)
    <2>1. pager[g].at = "pageOut"
      BY <1>5 DEF EndsPageOut
    <2>2. /\ disk' \in [Blocks -> Data] /\ diskTable' \in [Blocks -> PagesIn \cup {NULL}]
          /\ [access EXCEPT ![pager[g].frame] = Clear] \in [Frames -> Bits]
      BY <1>5, <2>1, WrittenOutEffect, ValuesHaveShape DEF EndsPageOut, PagerShape
    <2>3. UNCHANGED <<clockHand, freeFrames, written, broken, pagerMbox>>
      BY <1>5 DEF EndsPageOut
    <2>4. PICK pt, bits : pt = WrittenOut(g) /\ bits = [access EXCEPT ![pager[g].frame] = Clear]
      OBVIOUS
    <2>5. /\ pager[g].page \in PagesIn /\ pager[g].frame \in Frames /\ pt \in [PagesIn -> Entry]
          /\ bits \in [Frames -> Bits] /\ FillsFrame(g, pager[g].page, pager[g].frame, pt, bits)
      BY <1>5, <2>1, <2>2, <2>4, WrittenOutEffect, EndsPageOutFills
    <2>6. /\ clockHand' \in Frames /\ freeFrames' \in Int
          /\ pagerMbox' \in Seq(PagesIn) /\ written' \subseteq PagesIn
      BY <2>3 DEF PagerShape
    <2>7. QED
      BY <2>2, <2>5, <2>6, FillKeepsShape
  <1>6. CASE EndsPageIn(g)
    <2>1. disk[pager[g].block] \in Data
      BY <1>6, EndsPageInEffect DEF PagerShape
    <2>2. memory' \in [Frames -> Data] /\ access' \in [Frames -> Bits]
      <3>1. PICK d, c : d = disk[pager[g].block] /\ c = Clear
        OBVIOUS
      <3>2. d \in Data /\ c \in Bits
        BY <2>1, <3>1, ValuesHaveShape
      <3>3. /\ pager[g].frame \in Frames /\ memory' = [memory EXCEPT ![pager[g].frame] = d]
            /\ access' = [access EXCEPT ![pager[g].frame] = c]
        BY <1>6, <3>1, EndsPageInEffect
      <3>4. QED
        BY <3>2, <3>3 DEF PagerShape
    <2>3. pager' \in [Pagers -> Work]
      BY <1>6, EndsPageInEffect, ValuesHaveShape DEF PagerShape
    <2>4. program' \in [VmProcs -> [at : {"runs", "faults", "gone"}, page : PagesIn \cup {NULL}]]
      BY <1>6, EndsPageInEffect, ValuesHaveShape DEF PagerShape
    <2>5. QED
      BY <1>6, <2>2, <2>3, <2>4, EndsPageInEffect DEF PagerShape
  <1>7. QED
    BY <1>1, <1>2, <1>3, <1>4, <1>5, <1>6, TakesFreeFrameKeepsShape DEF PagerStep
-----------------------------------------------------------------------------
(* The steps of a pager that works on page x, or takes it from the mailbox. *)

InHand(g, x) ==
    \/ pagerMbox' = pagerMbox /\ Busy(g) /\ pager[g].page = x
    \/ Takes(g) /\ x = Head(pagerMbox)

Goes(g, x, d) ==
    /\ pager' = [pager EXCEPT ![g] = d]
    /\ \/ /\ program' = program
          /\ d.at # "pagerMbox" /\ d.page = x /\ d.frame # -1
          /\ \A h \in Pagers \ {g} : pager[h].frame # d.frame
       \/ program' = [program EXCEPT ![x[1]] = At("runs", NULL)] /\ d = Idle

LEMMA InHandFacts ==
  ASSUME PagerShape, Queued, Served, NEW g \in Pagers, NEW x, InHand(g, x)
  PROVE  /\ x \in PagesIn /\ Waiting(x)
         /\ \A h \in Pagers \ {g} : Busy(h) => pager[h].page # x
         /\ \A i \in 1..Len(pagerMbox') :
               /\ pagerMbox'[i] # x /\ Waiting(pagerMbox'[i]) /\ FrameOf(pagerMbox'[i]) = -1
               /\ pagerMbox'[i] \in PagesIn
               /\ \A h \in Pagers : Busy(h) => pager[h].page # pagerMbox'[i]
         /\ \A i, j \in 1..Len(pagerMbox') : pagerMbox'[i] = pagerMbox'[j] => i = j
  <1>1. CASE pagerMbox' = pagerMbox /\ Busy(g) /\ pager[g].page = x
    BY <1>1 DEF Queued, Served, PagerShape
  <1>2. CASE Takes(g) /\ x = Head(pagerMbox)
    <2>1. /\ x \in PagesIn /\ x = pagerMbox[1] /\ 1 \in 1..Len(pagerMbox)
          /\ \A i \in 1..Len(pagerMbox') : /\ pagerMbox'[i] = pagerMbox[i + 1]
                                          /\ i + 1 \in 1..Len(pagerMbox) /\ i + 1 # 1
      BY <1>2, HeadIsPage
    <2>2. Waiting(x) /\ \A h \in Pagers : Busy(h) => pager[h].page # x
      BY <2>1 DEF Queued, Served
    <2>3. ASSUME NEW i \in 1..Len(pagerMbox')
          PROVE  /\ pagerMbox'[i] # x /\ Waiting(pagerMbox'[i]) /\ FrameOf(pagerMbox'[i]) = -1
                 /\ pagerMbox'[i] \in PagesIn
                 /\ \A h \in Pagers : Busy(h) => pager[h].page # pagerMbox'[i]
      BY <2>1 DEF Queued, Served, PagerShape
    <2>4. ASSUME NEW i \in 1..Len(pagerMbox'), NEW j \in 1..Len(pagerMbox'), pagerMbox'[i] = pagerMbox'[j]
          PROVE  i = j
      <3>1. i + 1 = j + 1
        BY <2>1, <2>4 DEF Queued
      <3>2. QED
        BY <3>1
    <2>5. QED
      BY <2>1, <2>2, <2>3, <2>4
  <1>3. QED
    BY <1>1, <1>2 DEF InHand

(* A page that waits still does when another one has been served. *)
LEMMA OthersWait ==
  ASSUME PagerShape, NEW x \in PagesIn, NEW z \in PagesIn, Waiting(x), Waiting(z), z # x,
         program' = program \/ program' = [program EXCEPT ![x[1]] = At("runs", NULL)]
  PROVE  Waiting(z)'
  <1>1. x[1] # z[1]
    BY DEF Waiting, At
  <1>2. QED
    BY <1>1, PagesAndFrames DEF Waiting, PagerShape

LEMMA ServeStep ==
  ASSUME PagerShape, Queued, Served, OwnFrame,
         NEW g \in Pagers, NEW x, InHand(g, x), NEW d, Goes(g, x, d),
         \A z \in PagesIn \ {x} : FrameOf(z) = -1 => FrameOf(z)' = -1
  PROVE  Queued' /\ Served' /\ OwnFrame'
  <1>1. /\ \A h \in Pagers \ {g} : pager'[h] = pager[h] /\ (Busy(h)' <=> Busy(h))
        /\ pager'[g] = d
        /\ program' = program \/ program' = [program EXCEPT ![x[1]] = At("runs", NULL)]
    BY DEF Goes, PagerShape, Busy
  <1>2. Queued'
    <2>1. ASSUME NEW i \in 1..Len(pagerMbox')
          PROVE  /\ program'[pagerMbox'[i][1]] = At("faults", pagerMbox'[i])
                 /\ pageTable'[pagerMbox'[i]].frame = -1
      <3>1. PICK z : z = pagerMbox'[i]
        OBVIOUS
      <3>2. z \in PagesIn /\ z # x /\ Waiting(z) /\ FrameOf(z) = -1
        BY <3>1, InHandFacts
      <3>3. Waiting(z)' /\ FrameOf(z)' = -1
        BY <1>1, <3>2, InHandFacts, OthersWait
      <3>4. QED
        BY <3>1, <3>3 DEF Waiting, FrameOf
    <2>2. \A i, j \in 1..Len(pagerMbox') : pagerMbox'[i] = pagerMbox'[j] => i = j
      BY InHandFacts
    <2>3. QED
      BY <2>1, <2>2 DEF Queued, Waiting, FrameOf
  <1>3. Busy(g)' => /\ d.page = x /\ program' = program /\ d.frame # -1
                    /\ \A h \in Pagers \ {g} : pager[h].frame # d.frame
    BY <1>1 DEF Goes, Busy, Idle, Doing
  <1>4. ASSUME NEW h \in Pagers, Busy(h)'
        PROVE  /\ pager'[h].page \in PagesIn
               /\ program'[pager'[h].page[1]] = At("faults", pager'[h].page)
               /\ \A i \in 1..Len(pagerMbox') : pagerMbox'[i] # pager'[h].page
    <2>1. CASE h = g
      <3>1. pager'[h].page = x /\ program' = program
        BY <1>1, <1>3, <1>4, <2>1
      <3>2. QED
        BY <3>1, InHandFacts DEF Waiting
    <2>2. CASE h # g
      <3>1. pager'[h] = pager[h] /\ Busy(h)
        BY <1>1, <1>4, <2>2
      <3>2. PICK z : z = pager[h].page
        OBVIOUS
      <3>3. z \in PagesIn /\ Waiting(z) /\ z # x
        BY <2>2, <3>1, <3>2, InHandFacts DEF Served
      <3>4. Waiting(z)'
        BY <1>1, <3>3, InHandFacts, OthersWait
      <3>5. \A i \in 1..Len(pagerMbox') : pagerMbox'[i] # z
        BY <3>1, <3>2, InHandFacts
      <3>6. QED
        BY <3>1, <3>2, <3>3, <3>4, <3>5 DEF Waiting
    <2>3. QED
      BY <2>1, <2>2
  <1>5. ASSUME NEW h \in Pagers, NEW k \in Pagers, Busy(h)', Busy(k)', pager'[h].page = pager'[k].page
        PROVE  h = k
    <2>1. CASE h = g /\ k = g
      BY <2>1
    <2>2. CASE h # g /\ k # g
      BY <1>1, <1>5, <2>2 DEF Served
    <2>3. CASE (h = g /\ k # g) \/ (h # g /\ k = g)
      BY <1>1, <1>3, <1>5, <2>3, InHandFacts
    <2>4. QED
      BY <2>1, <2>2, <2>3
  <1>6. Served'
    BY <1>4, <1>5 DEF Served, Waiting
  <1>7. OwnFrame'
    <2>1. ASSUME NEW h \in Pagers PROVE Busy(h)' <=> pager'[h].frame # -1
      BY <1>1 DEF OwnFrame, Goes, Busy, Idle, Doing
    <2>2. ASSUME NEW h \in Pagers, NEW k \in Pagers, Busy(h)', pager'[h].frame = pager'[k].frame
          PROVE  h = k
      <3>1. Busy(k)' /\ pager'[h].frame # -1
        BY <2>1, <2>2
      <3>2. CASE h = g /\ k # g
        BY <1>1, <1>3, <2>2, <3>2
      <3>3. CASE h # g /\ k = g
        BY <1>1, <1>3, <2>2, <3>1, <3>3
      <3>4. CASE h # g /\ k # g
        BY <1>1, <2>2, <3>4 DEF OwnFrame
      <3>5. QED
        BY <3>2, <3>3, <3>4
    <2>3. QED
      BY <2>1, <2>2 DEF OwnFrame
  <1>8. QED
    BY <1>2, <1>6, <1>7
-----------------------------------------------------------------------------
(* The tables.  A page that is filled into a frame of nobody else takes    *)
(* the place of the one that was there, and leaves the other pagers alone. *)

LEMMA FillKeepsTables ==
  ASSUME PagerShape, Queued, Served, OwnFrame, Matched, \A h \in Pagers : FrameKnown(h),
         NEW g \in Pagers, NEW x, InHand(g, x), NEW f \in Frames, NEW pt \in [PagesIn -> Entry],
         NEW bits, FillsFrame(g, x, f, pt, bits),
         \A h \in Pagers \ {g} : pager[h].frame # f, FrameOf(x) = -1,
         \A z \in PagesIn : z # frameTable[f] => pt[z] = pageTable[z]
  PROVE  Queued' /\ Served' /\ OwnFrame' /\ (\A h \in Pagers : FrameKnown(h))' /\ Matched'
  <1>1. x \in PagesIn /\ x # frameTable[f] /\ f # -1
    BY InHandFacts, PagesAndFrames DEF Matched
  <1>2. /\ frameTable' = [frameTable EXCEPT ![f] = x] /\ pageTable' \in [PagesIn -> Entry]
        /\ pageTable'[x].frame = f /\ pageTable'[x].diskTableIndex = pt[x].diskTableIndex
    BY <1>1 DEF FillsFrame
  <1>3. \A z \in PagesIn \ {x} : /\ z = frameTable[f] => pageTable'[z].frame = -1
                                 /\ z # frameTable[f] => pageTable'[z] = pageTable[z]
    BY <1>1 DEF FillsFrame
  <1>4. Queued' /\ Served' /\ OwnFrame'
    <2>1. PICK d : /\ d = Idle \/ d = Doing("pageIn", x, f, pt[x].diskTableIndex, Zeroes)
                   /\ pager' = [pager EXCEPT ![g] = d]
                   /\ d = Idle => program' = [program EXCEPT ![x[1]] = At("runs", NULL)]
                   /\ d # Idle => program' = program
      <3>1. CASE pt[x].diskTableIndex = -1
        BY <3>1 DEF FillsFrame
      <3>2. CASE pt[x].diskTableIndex # -1
        <4>1. Doing("pageIn", x, f, pt[x].diskTableIndex, Zeroes) # Idle
          BY DEF Doing, Idle
        <4>2. QED
          BY <3>2, <4>1 DEF FillsFrame
      <3>3. QED
        BY <3>1, <3>2
    <2>2. Goes(g, x, d)
      <3>1. CASE d = Idle
        BY <2>1, <3>1 DEF Goes
      <3>2. CASE d # Idle
        <4>1. d.at = "pageIn" /\ d.page = x /\ d.frame = f
          BY <2>1, <3>2 DEF Doing
        <4>2. QED
          BY <1>1, <2>1, <3>2, <4>1 DEF Goes
      <3>3. QED
        BY <3>1, <3>2
    <2>3. ASSUME NEW z \in PagesIn \ {x}, FrameOf(z) = -1 PROVE FrameOf(z)' = -1
      <3>1. CASE z = frameTable[f]
        BY <1>3, <3>1 DEF FrameOf
      <3>2. CASE z # frameTable[f]
        <4>1. pageTable'[z] = pageTable[z]
          BY <1>3, <3>2
        <4>2. QED
          BY <2>3, <4>1 DEF FrameOf
      <3>3. QED
        BY <3>1, <3>2
    <2>4. QED
      BY <2>2, <2>3, ServeStep
  <1>5. ASSUME NEW h \in Pagers PROVE FrameKnown(h)'
    <2>1. CASE h = g
      <3>1. CASE pt[x].diskTableIndex = -1
        <4>1. pager'[g].at = "pagerMbox"
          BY <3>1 DEF FillsFrame, PagerShape, Idle, Doing
        <4>2. QED
          BY <2>1, <4>1 DEF FrameKnown
      <3>2. CASE pt[x].diskTableIndex # -1
        <4>1. /\ pager'[g].at = "pageIn" /\ pager'[g].page = x /\ pager'[g].frame = f
              /\ pager'[g].block = pt[x].diskTableIndex
          BY <3>2 DEF FillsFrame, PagerShape, Doing
        <4>2. frameTable'[f] = x
          BY <1>2 DEF PagerShape
        <4>3. QED
          BY <1>2, <2>1, <3>2, <4>1, <4>2 DEF FrameKnown
      <3>3. QED
        BY <3>1, <3>2
    <2>2. CASE h # g
      <3>1. pager'[h] = pager[h]
        BY <2>2 DEF FillsFrame, PagerShape
      <3>2. CASE ~Busy(h)
        BY <3>1, <3>2 DEF FrameKnown, Busy
      <3>3. CASE Busy(h)
        <4>1. PICK d : d = pager[h]
          OBVIOUS
        <4>2. d \in Work /\ d.frame # f /\ d.frame \in Frames /\ d.page \in PagesIn /\ d.page # x
          BY <2>2, <3>3, <4>1, InHandFacts DEF PagerShape, OwnFrame, Served, Work
        <4>3. frameTable'[d.frame] = frameTable[d.frame]
          BY <1>2, <4>2 DEF PagerShape
        <4>4. ASSUME FrameOf(d.page) = -1 PROVE pageTable'[d.page].frame = -1
          <5>1. CASE d.page = frameTable[f]
            BY <1>3, <4>2, <5>1
          <5>2. CASE d.page # frameTable[f]
            <6>1. pageTable'[d.page] = pageTable[d.page]
              BY <1>3, <4>2, <5>2
            <6>2. QED
              BY <4>4, <6>1 DEF FrameOf
          <5>3. QED
            BY <5>1, <5>2
        <4>5. frameTable[d.frame] = d.page => pageTable'[d.page] = pageTable[d.page]
          BY <1>3, <4>2, PagesAndFrames DEF Matched
        <4>6. QED
          BY <3>1, <4>1, <4>3, <4>4, <4>5 DEF FrameKnown, FrameOf
      <3>4. QED
        BY <3>2, <3>3
    <2>3. QED
      BY <2>1, <2>2
  <1>6. Matched'
    <2>1. ASSUME NEW z \in PagesIn, pageTable'[z].frame # -1
          PROVE  frameTable'[pageTable'[z].frame] = z
      <3>1. CASE z = x
        BY <1>2, <3>1 DEF PagerShape
      <3>2. CASE z # x
        <4>1. z # frameTable[f] /\ pageTable'[z] = pageTable[z]
          <5>1. z # frameTable[f]
            BY <1>3, <2>1, <3>2
          <5>2. QED
            BY <1>3, <3>2, <5>1
        <4>2. frameTable[FrameOf(z)] = z /\ FrameOf(z) # f /\ FrameOf(z) \in Frames
          BY <2>1, <4>1 DEF Matched, FrameOf, PagerShape, Entry
        <4>3. QED
          BY <1>2, <4>1, <4>2 DEF PagerShape, FrameOf
      <3>3. QED
        BY <3>1, <3>2
    <2>2. ASSUME NEW e \in Frames, frameTable'[e] # NULL
          PROVE  pageTable'[frameTable'[e]].frame = e
      <3>1. CASE e = f
        BY <1>2, <3>1 DEF PagerShape
      <3>2. CASE e # f
        <4>1. frameTable'[e] = frameTable[e]
          BY <1>2, <3>2 DEF PagerShape
        <4>2. PICK z : z = frameTable[e]
          OBVIOUS
        <4>3. z \in PagesIn /\ FrameOf(z) = e
          BY <2>2, <4>1, <4>2 DEF Matched, PagerShape
        <4>4. z # x /\ z # frameTable[f]
          BY <1>1, <3>2, <4>3, PagesAndFrames DEF Matched
        <4>5. QED
          BY <1>3, <4>1, <4>2, <4>3, <4>4 DEF FrameOf
      <3>3. QED
        BY <3>1, <3>2
    <2>3. QED
      BY <2>1, <2>2 DEF Matched, FrameOf
  <1>7. QED
    BY <1>4, <1>5, <1>6

(* The count of the free frames. *)
LEMMA CountsAreFinite ==
  /\ IsFiniteSet(FreeOnes) /\ Cardinality(FreeOnes) \in Nat
  /\ IsFiniteSet(Entering) /\ Cardinality(Entering) \in Nat
  <1>1. FreeOnes \subseteq Frames /\ Entering \subseteq Pagers
    BY DEF FreeOnes, Entering
  <1>2. IsFiniteSet(FreeOnes) /\ IsFiniteSet(Entering)
    BY <1>1, FS_Subset, PagesAndFrames, PagerAssumption
  <1>3. QED
    BY <1>2, FS_CardinalityType

LEMMA SameCount ==
  ASSUME Counted, freeFrames' = freeFrames,
         \A f \in Frames : (frameTable'[f] = NULL) <=> (frameTable[f] = NULL),
         \A g \in Pagers : (pager'[g].at = "entering") <=> (pager[g].at = "entering")
  PROVE  Counted'
  <1>1. FreeOnes' = FreeOnes /\ Entering' = Entering
    BY DEF FreeOnes, Entering
  <1>2. QED
    BY <1>1 DEF Counted

(* Only what the pagers hold in their buffers changes. *)
LEMMA BuffersDoNotMatter ==
  ASSUME TablesInv, UNCHANGED <<pageTable, frameTable, freeFrames, pagerMbox, program>>,
         \A g \in Pagers : /\ pager'[g].at = pager[g].at /\ pager'[g].page = pager[g].page
                           /\ pager'[g].frame = pager[g].frame /\ pager'[g].block = pager[g].block
  PROVE  TablesInv'
  <1>1. Queued'
    BY DEF TablesInv, Queued, Waiting, FrameOf
  <1>2. \A g \in Pagers : Busy(g)' <=> Busy(g)
    BY DEF Busy
  <1>3. Served'
    BY <1>2 DEF TablesInv, Served, Waiting
  <1>4. OwnFrame'
    BY <1>2 DEF TablesInv, OwnFrame
  <1>5. ASSUME NEW g \in Pagers PROVE FrameKnown(g)'
    <2>1. FrameKnown(g)
      BY DEF TablesInv
    <2>2. QED
      BY <2>1 DEF FrameKnown, FrameOf
  <1>6. Matched'
    BY DEF TablesInv, Matched, FrameOf
  <1>7. Counted'
    BY SameCount DEF TablesInv
  <1>8. QED
    BY <1>1, <1>3, <1>4, <1>5, <1>6, <1>7 DEF TablesInv

LEMMA ReadsKeepsTables ==
  ASSUME PagerShape, TablesInv, NEW x \in PagesIn, Reads(x) PROVE TablesInv'
  BY BuffersDoNotMatter DEF Reads

LEMMA WritesKeepsTables ==
  ASSUME PagerShape, TablesInv, NEW x \in PagesIn, Writes(x) PROVE TablesInv'
  <1>1. ASSUME NEW g \in Pagers
        PROVE  /\ pager'[g].at = pager[g].at /\ pager'[g].page = pager[g].page
               /\ pager'[g].frame = pager[g].frame /\ pager'[g].block = pager[g].block
    <2>1. PICK d : d = pager[g]
      OBVIOUS
    <2>2. PICK c : c = Aged(x, d.buffer)
      OBVIOUS
    <2>3. d \in Work
      BY <2>1 DEF PagerShape
    <2>4. pager'[g] = [d EXCEPT !.buffer = c]
      BY <2>1, <2>2 DEF Writes
    <2>5. QED
      BY <2>1, <2>3, <2>4 DEF Work
  <1>2. QED
    BY <1>1, BuffersDoNotMatter DEF Writes

LEMMA FaultHandlerKeepsTables ==
  ASSUME PagerShape, TablesInv, NEW x \in PagesIn, FaultHandler(x) PROVE TablesInv'
  <1>1. /\ Runs(x) /\ FrameOf(x) = -1 /\ program' = [program EXCEPT ![x[1]] = At("faults", x)]
        /\ pagerMbox' = Append(pagerMbox, x)
        /\ UNCHANGED <<pageTable, frameTable, freeFrames, pager>>
    BY DEF FaultHandler, tables
  <1>2. /\ Len(pagerMbox) \in Nat /\ Len(pagerMbox') = Len(pagerMbox) + 1
        /\ \A i \in 1..Len(pagerMbox) : pagerMbox'[i] = pagerMbox[i] /\ pagerMbox[i] \in PagesIn
        /\ pagerMbox'[Len(pagerMbox) + 1] = x
    BY <1>1, AppendProperties, LenProperties DEF PagerShape
  <1>3. Waiting(x)'
    BY <1>1, PagesAndFrames DEF Waiting, PagerShape
  <1>4. ASSUME NEW z \in PagesIn, Waiting(z) PROVE z # x /\ Waiting(z)'
    <2>1. z[1] # x[1]
      BY <1>1, <1>4 DEF Waiting, Runs, At
    <2>2. QED
      BY <1>1, <1>4, <2>1 DEF Waiting, PagerShape
  <1>5. Queued'
    <2>1. ASSUME NEW i \in 1..Len(pagerMbox')
          PROVE  program'[pagerMbox'[i][1]] = At("faults", pagerMbox'[i]) /\ pageTable'[pagerMbox'[i]].frame = -1
      <3>1. CASE i = Len(pagerMbox) + 1
        BY <1>1, <1>2, <1>3, <3>1 DEF Waiting, FrameOf
      <3>2. CASE i \in 1..Len(pagerMbox)
        <4>1. PICK z : z = pagerMbox[i]
          OBVIOUS
        <4>2. z \in PagesIn /\ Waiting(z) /\ FrameOf(z) = -1
          BY <1>2, <3>2, <4>1 DEF TablesInv, Queued
        <4>3. QED
          BY <1>1, <1>2, <1>4, <3>2, <4>1, <4>2 DEF Waiting, FrameOf
      <3>3. QED
        BY <1>2, <3>1, <3>2
    <2>2. ASSUME NEW i \in 1..Len(pagerMbox'), NEW j \in 1..Len(pagerMbox'), pagerMbox'[i] = pagerMbox'[j]
          PROVE  i = j
      <3>1. \A k \in 1..Len(pagerMbox) : pagerMbox'[k] # x
        BY <1>2, <1>4 DEF TablesInv, Queued
      <3>2. CASE i = Len(pagerMbox) + 1 \/ j = Len(pagerMbox) + 1
        BY <1>2, <2>2, <3>1, <3>2
      <3>3. CASE i \in 1..Len(pagerMbox) /\ j \in 1..Len(pagerMbox)
        BY <1>2, <2>2, <3>3 DEF TablesInv, Queued
      <3>4. QED
        BY <1>2, <3>2, <3>3
    <2>3. QED
      BY <2>1, <2>2 DEF Queued, Waiting, FrameOf
  <1>6. Served'
    <2>1. ASSUME NEW g \in Pagers, Busy(g)
          PROVE  /\ pager[g].page \in PagesIn /\ program'[pager[g].page[1]] = At("faults", pager[g].page)
                 /\ \A i \in 1..Len(pagerMbox') : pagerMbox'[i] # pager[g].page
      <3>1. PICK z : z = pager[g].page
        OBVIOUS
      <3>2. z \in PagesIn /\ Waiting(z) /\ \A i \in 1..Len(pagerMbox) : pagerMbox[i] # z
        BY <2>1, <3>1 DEF TablesInv, Served
      <3>3. z # x /\ Waiting(z)'
        BY <1>4, <3>2
      <3>4. \A i \in 1..Len(pagerMbox') : pagerMbox'[i] # z
        BY <1>2, <3>2, <3>3
      <3>5. QED
        BY <3>1, <3>2, <3>3, <3>4 DEF Waiting
    <2>2. \A g, h \in Pagers : Busy(g) /\ Busy(h) /\ pager[g].page = pager[h].page => g = h
      BY DEF TablesInv, Served
    <2>3. QED
      BY <1>1, <2>1, <2>2 DEF Served, Waiting, Busy
  <1>7. OwnFrame' /\ Matched'
    BY <1>1 DEF TablesInv, OwnFrame, Busy, Matched, FrameOf
  <1>8. ASSUME NEW g \in Pagers PROVE FrameKnown(g)'
    <2>1. FrameKnown(g)
      BY DEF TablesInv
    <2>2. QED
      BY <1>1, <2>1 DEF FrameKnown, FrameOf
  <1>9. Counted'
    BY <1>1, SameCount DEF TablesInv
  <1>10. QED
    BY <1>5, <1>6, <1>7, <1>8, <1>9 DEF TablesInv

(* A process that quits takes its pages out of both tables, and no pager   *)
(* is at work for it.                                                      *)
LEMMA FramesOfQuitter ==
  ASSUME PagerShape, Matched, NEW p \in VmProcs
  PROVE  /\ FramesIn(p) = {f \in Frames : frameTable[f] # NULL /\ frameTable[f][1] = p}
         /\ IsFiniteSet(FramesIn(p)) /\ FramesIn(p) \cap FreeOnes = {}
  <1>1. ASSUME NEW f \in FramesIn(p) PROVE frameTable[f] # NULL /\ frameTable[f][1] = p
    <2>1. PICK k \in PagesOf[p] : FrameOf(<<p, k>>) = f
      BY DEF FramesIn
    <2>2. <<p, k>> \in PagesIn
      BY DEF PagesIn
    <2>3. f \in Frames /\ f # -1
      BY PagesAndFrames DEF FramesIn
    <2>4. frameTable[f] = <<p, k>>
      BY <2>1, <2>2, <2>3 DEF Matched
    <2>5. QED
      BY <2>2, <2>4, PagesAndFrames
  <1>2. ASSUME NEW f \in Frames, frameTable[f] # NULL, frameTable[f][1] = p PROVE f \in FramesIn(p)
    <2>1. PICK y : y = frameTable[f]
      OBVIOUS
    <2>2. y \in PagesIn /\ FrameOf(y) = f /\ y[1] = p
      BY <1>2, <2>1 DEF Matched, PagerShape
    <2>3. y = <<p, y[2]>> /\ y[2] \in PagesOf[p]
      BY <2>2, PagesAndFrames
    <2>4. FrameOf(<<p, y[2]>>) = f
      BY <2>2, <2>3
    <2>5. QED
      BY <2>3, <2>4 DEF FramesIn
  <1>3. FramesIn(p) \subseteq Frames
    BY DEF FramesIn
  <1>4. FramesIn(p) = {f \in Frames : frameTable[f] # NULL /\ frameTable[f][1] = p}
    BY <1>1, <1>2, <1>3
  <1>5. QED
    BY <1>3, <1>4, PagesAndFrames, FS_Subset DEF FreeOnes

LEMMA QuitKeepsTables ==
  ASSUME PagerShape, TablesInv, NEW p \in VmProcs, Quit(p), broken' = {} PROVE TablesInv'
  <1>1. /\ program[p].at = "runs" /\ program' = [program EXCEPT ![p] = At("gone", NULL)]
        /\ pageTable' = [x \in PagesIn |-> IF x[1] = p THEN NewPage ELSE pageTable[x]]
        /\ frameTable' = [f \in Frames |-> IF f \in FramesIn(p) THEN NULL ELSE frameTable[f]]
        /\ freeFrames' = freeFrames + Cardinality(FramesIn(p))
        /\ UNCHANGED <<pagerMbox, pager>>
    BY DEF Quit
  <1>2. \A g \in Pagers : pager[g].frame \notin FramesIn(p)
    BY DEF Quit
  <1>3. ASSUME NEW z \in PagesIn, Waiting(z)
        PROVE  z[1] # p /\ Waiting(z)' /\ pageTable'[z] = pageTable[z]
    <2>1. z[1] # p
      BY <1>1, <1>3 DEF Waiting, At
    <2>2. QED
      BY <1>1, <1>3, <2>1 DEF Waiting, PagerShape
  <1>4. Queued'
    <2>1. ASSUME NEW i \in 1..Len(pagerMbox)
          PROVE  program'[pagerMbox[i][1]] = At("faults", pagerMbox[i]) /\ pageTable'[pagerMbox[i]].frame = -1
      <3>1. PICK z : z = pagerMbox[i]
        OBVIOUS
      <3>2. z \in PagesIn /\ Waiting(z) /\ FrameOf(z) = -1
        BY <3>1 DEF TablesInv, Queued, PagerShape
      <3>3. QED
        BY <1>3, <3>1, <3>2 DEF Waiting, FrameOf
    <2>2. QED
      BY <1>1, <2>1 DEF TablesInv, Queued, Waiting, FrameOf
  <1>5. Served'
    <2>1. ASSUME NEW g \in Pagers, Busy(g)
          PROVE  /\ pager[g].page \in PagesIn /\ program'[pager[g].page[1]] = At("faults", pager[g].page)
                 /\ \A i \in 1..Len(pagerMbox) : pagerMbox[i] # pager[g].page
      <3>1. PICK z : z = pager[g].page
        OBVIOUS
      <3>2. z \in PagesIn /\ Waiting(z) /\ \A i \in 1..Len(pagerMbox) : pagerMbox[i] # z
        BY <2>1, <3>1 DEF TablesInv, Served
      <3>3. QED
        BY <1>3, <3>1, <3>2 DEF Waiting
    <2>2. \A g, h \in Pagers : Busy(g) /\ Busy(h) /\ pager[g].page = pager[h].page => g = h
      BY DEF TablesInv, Served
    <2>3. QED
      BY <1>1, <2>1, <2>2 DEF Served, Waiting, Busy
  <1>6. OwnFrame'
    BY <1>1 DEF TablesInv, OwnFrame, Busy
  <1>7. ASSUME NEW g \in Pagers PROVE FrameKnown(g)'
    <2>1. CASE ~Busy(g)
      BY <1>1, <2>1 DEF Busy, FrameKnown
    <2>2. CASE Busy(g)
      <3>1. PICK d : d = pager[g]
        OBVIOUS
      <3>2. d.page \in PagesIn /\ Waiting(d.page) /\ d.frame \in Frames
        BY <2>2, <3>1 DEF TablesInv, Served, OwnFrame, PagerShape, Work
      <3>3. frameTable'[d.frame] = frameTable[d.frame] /\ pageTable'[d.page] = pageTable[d.page]
        BY <1>1, <1>2, <1>3, <3>1, <3>2
      <3>4. FrameKnown(g)
        BY DEF TablesInv
      <3>5. QED
        BY <1>1, <3>1, <3>3, <3>4 DEF FrameKnown, FrameOf
    <2>3. QED
      BY <2>1, <2>2
  <1>8. FramesIn(p) = {f \in Frames : frameTable[f] # NULL /\ frameTable[f][1] = p}
    BY FramesOfQuitter DEF TablesInv
  <1>9. Matched'
    <2>1. ASSUME NEW z \in PagesIn, pageTable'[z].frame # -1 PROVE frameTable'[pageTable'[z].frame] = z
      <3>1. z[1] # p /\ pageTable'[z] = pageTable[z]
        BY <1>1, <2>1 DEF NewPage
      <3>2. frameTable[FrameOf(z)] = z /\ FrameOf(z) \in Frames
        BY <2>1, <3>1 DEF TablesInv, Matched, FrameOf, PagerShape, Entry
      <3>3. QED
        BY <1>1, <1>8, <3>1, <3>2 DEF FrameOf
    <2>2. ASSUME NEW f \in Frames, frameTable'[f] # NULL PROVE pageTable'[frameTable'[f]].frame = f
      <3>1. PICK y : y = frameTable[f]
        OBVIOUS
      <3>2. frameTable'[f] = y /\ y \in PagesIn /\ y[1] # p /\ FrameOf(y) = f
        BY <1>1, <1>8, <2>2, <3>1 DEF TablesInv, Matched, PagerShape
      <3>3. QED
        BY <1>1, <3>2 DEF FrameOf
    <2>3. QED
      BY <2>1, <2>2 DEF Matched, FrameOf
  <1>10. Counted'
    <2>1. IsFiniteSet(FramesIn(p)) /\ FramesIn(p) \cap FreeOnes = {} /\ IsFiniteSet(FreeOnes)
      BY FramesOfQuitter, CountsAreFinite DEF TablesInv
    <2>2. FreeOnes' = FreeOnes \cup FramesIn(p)
      BY <1>1, <1>8 DEF FreeOnes
    <2>3. Cardinality(FreeOnes') = Cardinality(FreeOnes) + Cardinality(FramesIn(p))
      <3>1. Cardinality(FreeOnes \cup FramesIn(p))
               = Cardinality(FreeOnes) + Cardinality(FramesIn(p)) - Cardinality(FreeOnes \cap FramesIn(p))
        BY <2>1, FS_Union
      <3>2. Cardinality(FreeOnes \cap FramesIn(p)) = 0
        BY <2>1, FS_EmptySet
      <3>3. Cardinality(FreeOnes) \in Nat /\ Cardinality(FramesIn(p)) \in Nat
        BY <2>1, FS_CardinalityType
      <3>4. QED
        BY <2>2, <3>1, <3>2, <3>3
    <2>4. Entering' = Entering
      BY <1>1 DEF Entering
    <2>5. Cardinality(FreeOnes) \in Nat /\ Cardinality(FramesIn(p)) \in Nat /\ Cardinality(Entering) \in Nat
      BY <2>1, CountsAreFinite, FS_CardinalityType
    <2>6. QED
      BY <1>1, <2>3, <2>4, <2>5 DEF TablesInv, Counted
  <1>11. QED
    BY <1>4, <1>5, <1>6, <1>7, <1>9, <1>10 DEF TablesInv

(* A pager takes a frame that no other has.                                *)
LEMMA TakenAlone ==
  ASSUME NEW f \in Frames, broken' = TakenBefore(f), broken' = {}
  PROVE  \A h \in Pagers : pager[h].frame # f
  BY DEF TakenBefore

LEMMA TakesFreeFrameKeepsTables ==
  ASSUME PagerShape, TablesInv, NEW g \in Pagers, TakesFreeFrame(g), broken' = {} PROVE TablesInv'
  <1> DEFINE x == Head(pagerMbox)
             d == Doing("entering", x, FirstFree, -1, Zeroes)
  <1>1. /\ Takes(g) /\ pager' = [pager EXCEPT ![g] = d]
        /\ FirstFree \in Frames /\ frameTable[FirstFree] = NULL
        /\ broken' = TakenBefore(FirstFree) /\ freeFrames' = freeFrames - 1
        /\ UNCHANGED <<pageTable, frameTable, program>>
    BY FirstFreeIsFree DEF TakesFreeFrame, FirstFree
  <1>2. \A h \in Pagers : pager[h].frame # FirstFree
    BY <1>1, TakenAlone
  <1>3. /\ d.at = "entering" /\ d.page = x /\ d.frame = FirstFree /\ FirstFree # -1
        /\ pager[g].at = "pagerMbox"
    BY <1>1, HeadIsPage, PagesAndFrames DEF Doing, Idle
  <1>4. InHand(g, x)
    BY <1>1 DEF InHand
  <1>5. Goes(g, x, d)
    <2>1. d.at # "pagerMbox"
      BY <1>3
    <2>2. QED
      BY <1>1, <1>2, <1>3, <2>1 DEF Goes
  <1>6. Queued' /\ Served' /\ OwnFrame'
    BY <1>1, <1>4, <1>5, ServeStep DEF TablesInv, FrameOf
  <1>7. x \in PagesIn /\ FrameOf(x) = -1
    BY <1>1, HeadIsPage DEF TablesInv, Queued
  <1>8. /\ pager'[g] = d
        /\ \A h \in Pagers \ {g} : pager'[h] = pager[h]
    BY <1>1 DEF PagerShape
  <1>9. ASSUME NEW h \in Pagers PROVE FrameKnown(h)'
    <2>1. FrameKnown(h)
      BY DEF TablesInv
    <2>2. CASE h # g
      BY <1>1, <1>8, <2>1, <2>2 DEF FrameKnown, FrameOf
    <2>3. CASE h = g
      BY <1>1, <1>3, <1>7, <1>8, <2>3 DEF FrameKnown, FrameOf
    <2>4. QED
      BY <2>2, <2>3
  <1>10. Matched'
    BY <1>1 DEF TablesInv, Matched, FrameOf
  <1>11. Counted'
    <2>1. Entering' = Entering \cup {g} /\ g \notin Entering
      BY <1>3, <1>8 DEF Entering
    <2>2. Cardinality(Entering') = Cardinality(Entering) + 1
      BY <2>1, CountsAreFinite, FS_AddElement
    <2>3. FreeOnes' = FreeOnes
      BY <1>1 DEF FreeOnes
    <2>4. QED
      BY <1>1, <2>2, <2>3, CountsAreFinite DEF TablesInv, Counted
  <1>12. QED
    BY <1>6, <1>9, <1>10, <1>11 DEF TablesInv

LEMMA EntersFreeFrameKeepsTables ==
  ASSUME PagerShape, TablesInv, NEW g \in Pagers, EntersFreeFrame(g) PROVE TablesInv'
  <1> DEFINE x == pager[g].page
             f == pager[g].frame
  <1>1. x \in PagesIn /\ f \in Frames /\ FillsFrame(g, x, f, pageTable, access) /\ pager[g].at = "entering"
    BY EntersFreeFrameFills DEF TablesInv, EntersFreeFrame
  <1>2. frameTable[f] = NULL /\ FrameOf(x) = -1 /\ Busy(g)
    BY <1>1 DEF TablesInv, FrameKnown, Busy
  <1>3. \A h \in Pagers \ {g} : pager[h].frame # f
    BY <1>2 DEF TablesInv, OwnFrame
  <1>4. InHand(g, x) /\ UNCHANGED freeFrames
    BY <1>2 DEF InHand, EntersFreeFrame
  <1>5. Queued' /\ Served' /\ OwnFrame' /\ (\A h \in Pagers : FrameKnown(h))' /\ Matched'
    <2>1. pageTable \in [PagesIn -> Entry]
      BY DEF PagerShape
    <2>2. QED
      BY <1>1, <1>2, <1>3, <1>4, <2>1, FillKeepsTables DEF TablesInv
  <1>6. Counted'
    <2>1. FreeOnes' = FreeOnes \ {f} /\ f \in FreeOnes
      BY <1>1, <1>2, PagesAndFrames DEF FreeOnes, FillsFrame, PagerShape
    <2>2. Entering' = Entering \ {g} /\ g \in Entering
      <3>1. pager'[g].at # "entering" /\ \A h \in Pagers \ {g} : pager'[h] = pager[h]
        BY <1>1 DEF FillsFrame, PagerShape, Doing, Idle
      <3>2. QED
        BY <1>1, <3>1 DEF Entering
    <2>3. Cardinality(FreeOnes') = Cardinality(FreeOnes) - 1 /\ Cardinality(Entering') = Cardinality(Entering) - 1
      BY <2>1, <2>2, CountsAreFinite, FS_RemoveElement
    <2>4. QED
      BY <1>4, <2>3, CountsAreFinite DEF TablesInv, Counted
  <1>7. QED
    BY <1>5, <1>6 DEF TablesInv

(* Filling a frame that was in use changes no count.                       *)
LEMMA RefillKeepsCount ==
  ASSUME PagerShape, Counted, NEW g \in Pagers, pager[g].at # "entering", NEW x \in PagesIn, NEW f \in Frames,
         frameTable[f] # NULL, NEW pt, NEW bits, FillsFrame(g, x, f, pt, bits), UNCHANGED freeFrames
  PROVE  Counted'
  <1>1. \A e \in Frames : (frameTable'[e] = NULL) <=> (frameTable[e] = NULL)
    BY PagesAndFrames DEF FillsFrame, PagerShape
  <1>2. pager'[g].at # "entering" /\ \A h \in Pagers \ {g} : pager'[h] = pager[h]
    BY DEF FillsFrame, PagerShape, Doing, Idle
  <1>3. QED
    BY <1>1, <1>2, SameCount

LEMMA DropsCleanKeepsTables ==
  ASSUME PagerShape, TablesInv, NEW g \in Pagers, DropsClean(g), broken' = {} PROVE TablesInv'
  <1> DEFINE x == Head(pagerMbox)
  <1>1. /\ Takes(g) /\ x \in PagesIn /\ Victim \in Frames /\ frameTable[Victim] # NULL
        /\ FillsFrame(g, x, Victim, pageTable, Swept)
    BY DropsCleanFills, PagesAndFrames
  <1>2. broken' = TakenBefore(Victim) /\ UNCHANGED freeFrames
    BY DEF DropsClean, Replaces
  <1>3. FrameOf(x) = -1
    BY <1>1, HeadIsPage DEF TablesInv, Queued
  <1>4. InHand(g, x)
    BY <1>1 DEF InHand
  <1>5. Queued' /\ Served' /\ OwnFrame' /\ (\A h \in Pagers : FrameKnown(h))' /\ Matched'
    <2>1. pageTable \in [PagesIn -> Entry]
      BY DEF PagerShape
    <2>2. \A h \in Pagers : pager[h].frame # Victim
      BY <1>1, <1>2, TakenAlone
    <2>3. QED
      BY <1>1, <1>3, <1>4, <2>1, <2>2, FillKeepsTables DEF TablesInv
  <1>6. Counted'
    BY <1>1, <1>2, RefillKeepsCount, HeadIsPage DEF TablesInv, Idle, Doing
  <1>7. QED
    BY <1>5, <1>6 DEF TablesInv

LEMMA BeginsPageOutKeepsTables ==
  ASSUME PagerShape, TablesInv, NEW g \in Pagers, BeginsPageOut(g), broken' = {} PROVE TablesInv'
  <1> DEFINE x == Head(pagerMbox)
             b == BlockFor(x[1], frameTable[Victim])
             d == Doing("pageOut", x, Victim, b, memory[Victim])
  <1>1. /\ Takes(g) /\ pager' = [pager EXCEPT ![g] = d]
        /\ broken' = TakenBefore(Victim)
        /\ UNCHANGED <<pageTable, frameTable, freeFrames, program>>
        /\ x \in PagesIn /\ Victim \in Frames
    BY HeadIsPage, VictimIsFrame DEF BeginsPageOut, Replaces, PagerShape
  <1>2. b # -1 /\ frameTable[Victim] # NULL
    <2>1. b \in Blocks
      BY BlockForIsBlock DEF BeginsPageOut
    <2>2. QED
      BY <1>1, <2>1, PagesAndFrames DEF BeginsPageOut
  <1>3. \A h \in Pagers : pager[h].frame # Victim
    BY <1>1, TakenAlone
  <1>4. /\ d.at = "pageOut" /\ d.page = x /\ d.frame = Victim /\ d.block = b /\ Victim # -1
        /\ pager[g].at = "pagerMbox"
    BY <1>1, HeadIsPage, PagesAndFrames DEF Doing, Idle
  <1>5. InHand(g, x)
    BY <1>1 DEF InHand
  <1>6. Goes(g, x, d)
    <2>1. d.at # "pagerMbox"
      BY <1>4
    <2>2. QED
      BY <1>1, <1>3, <1>4, <2>1 DEF Goes
  <1>7. Queued' /\ Served' /\ OwnFrame'
    BY <1>1, <1>5, <1>6, ServeStep DEF TablesInv, FrameOf
  <1>8. FrameOf(x) = -1
    BY <1>1, HeadIsPage DEF TablesInv, Queued
  <1>9. /\ pager'[g] = d
        /\ \A h \in Pagers \ {g} : pager'[h] = pager[h]
    BY <1>1 DEF PagerShape
  <1>10. ASSUME NEW h \in Pagers PROVE FrameKnown(h)'
    <2>1. FrameKnown(h)
      BY DEF TablesInv
    <2>2. CASE h # g
      BY <1>1, <1>9, <2>1, <2>2 DEF FrameKnown, FrameOf
    <2>3. CASE h = g
      BY <1>1, <1>2, <1>4, <1>8, <1>9, <2>3 DEF FrameKnown, FrameOf
    <2>4. QED
      BY <2>2, <2>3
  <1>11. Matched'
    BY <1>1 DEF TablesInv, Matched, FrameOf
  <1>12. Counted'
    BY <1>1, <1>4, <1>9, SameCount DEF TablesInv
  <1>13. QED
    BY <1>7, <1>10, <1>11, <1>12 DEF TablesInv

LEMMA EndsPageOutKeepsTables ==
  ASSUME PagerShape, TablesInv, NEW g \in Pagers, EndsPageOut(g) PROVE TablesInv'
  <1> DEFINE x == pager[g].page
             f == pager[g].frame
             bits == [access EXCEPT ![f] = Clear]
  <1>1. /\ pager[g].at = "pageOut" /\ UNCHANGED <<freeFrames, pagerMbox>>
    BY DEF EndsPageOut
  <1>2. /\ x \in PagesIn /\ f \in Frames /\ frameTable[f] \in PagesIn
        /\ WrittenOut(g) \in [PagesIn -> Entry]
        /\ \A z \in PagesIn : z # frameTable[f] => WrittenOut(g)[z] = pageTable[z]
        /\ FillsFrame(g, x, f, WrittenOut(g), bits)
    BY <1>1, WrittenOutEffect, EndsPageOutFills DEF TablesInv
  <1>3. FrameOf(x) = -1 /\ Busy(g)
    BY <1>1 DEF TablesInv, FrameKnown, Busy
  <1>4. \A h \in Pagers \ {g} : pager[h].frame # f
    BY <1>3 DEF TablesInv, OwnFrame
  <1>5. InHand(g, x)
    BY <1>1, <1>3 DEF InHand
  <1>6. Queued' /\ Served' /\ OwnFrame' /\ (\A h \in Pagers : FrameKnown(h))' /\ Matched'
    BY <1>2, <1>3, <1>4, <1>5, FillKeepsTables DEF TablesInv
  <1>7. Counted'
    BY <1>1, <1>2, RefillKeepsCount, PagesAndFrames DEF TablesInv
  <1>8. QED
    BY <1>6, <1>7 DEF TablesInv

LEMMA EndsPageInKeepsTables ==
  ASSUME PagerShape, TablesInv, NEW g \in Pagers, EndsPageIn(g) PROVE TablesInv'
  <1> DEFINE x == pager[g].page
  <1>1. /\ x \in PagesIn /\ pager' = [pager EXCEPT ![g] = Idle]
        /\ program' = [program EXCEPT ![x[1]] = At("runs", NULL)]
        /\ UNCHANGED <<pageTable, frameTable, freeFrames, pagerMbox>>
        /\ pager[g].at = "pageIn"
    BY EndsPageInEffect DEF TablesInv, EndsPageIn
  <1>2. InHand(g, x) /\ Goes(g, x, Idle)
    BY <1>1 DEF InHand, Goes, Busy
  <1>3. Queued' /\ Served' /\ OwnFrame'
    BY <1>1, <1>2, ServeStep DEF TablesInv, FrameOf
  <1>4. /\ pager'[g].at = "pagerMbox"
        /\ \A h \in Pagers \ {g} : pager'[h] = pager[h]
    BY <1>1 DEF PagerShape, Idle, Doing
  <1>5. ASSUME NEW h \in Pagers PROVE FrameKnown(h)'
    <2>1. FrameKnown(h)
      BY DEF TablesInv
    <2>2. CASE h # g
      BY <1>1, <1>4, <2>1, <2>2 DEF FrameKnown, FrameOf
    <2>3. CASE h = g
      BY <1>4, <2>3 DEF FrameKnown
    <2>4. QED
      BY <2>2, <2>3
  <1>6. Matched' /\ Counted'
    BY <1>1, <1>4, SameCount DEF TablesInv, Matched, FrameOf
  <1>7. QED
    BY <1>3, <1>5, <1>6 DEF TablesInv
-----------------------------------------------------------------------------
TablesKnown == PagerShape /\ (broken = {} => TablesInv)

LEMMA PagerInitTables == PagerInit => TablesKnown
  <1>1. SUFFICES ASSUME PagerInit PROVE TablesInv
    BY PagerInitShape DEF TablesKnown
  <1>2. /\ pagerMbox = <<>> /\ pageTable = [x \in PagesIn |-> NewPage]
        /\ frameTable = [f \in Frames |-> NULL] /\ freeFrames = frames
        /\ \A g \in Pagers : pager[g].at = "pagerMbox" /\ pager[g].frame = -1
    BY <1>1 DEF PagerInit, Idle, Doing
  <1>3. Queued
    <2>1. Len(pagerMbox) = 0
      BY <1>2, EmptySeq
    <2>2. QED
      BY <2>1 DEF Queued
  <1>4. Served /\ OwnFrame /\ \A g \in Pagers : FrameKnown(g)
    BY <1>2 DEF Served, OwnFrame, FrameKnown, Busy
  <1>5. Matched
    BY <1>2 DEF Matched, FrameOf, NewPage
  <1>6. Counted
    <2>1. FreeOnes = 0..frames - 1 /\ Entering = {}
      BY <1>2 DEF FreeOnes, Entering, Frames
    <2>2. Cardinality(FreeOnes) = frames /\ Cardinality(Entering) = 0
      BY <2>1, FS_Interval, FS_EmptySet, PagerAssumption
    <2>3. QED
      BY <1>2, <2>2, PagerAssumption DEF Counted
  <1>7. QED
    BY <1>3, <1>4, <1>5, <1>6 DEF TablesInv

LEMMA PagerNextTables == TablesKnown /\ [PagerNext]_pagerVars => TablesKnown'
  <1>1. CASE UNCHANGED pagerVars
    <2>1. UNCHANGED <<pageTable, frameTable, access, clockHand, freeFrames, diskTable, disk, written,
                      spoilt, broken, memory, pagerMbox, program, pager>>
      BY <1>1 DEF pagerVars, tables, store, ghosts
    <2>2. QED
      BY <2>1 DEF TablesKnown, PagerShape, TablesInv, Queued, Served, OwnFrame, FrameKnown, Matched,
                  Counted, FreeOnes, Entering, Waiting, Busy, FrameOf
  <1>2. CASE TablesKnown /\ PagerNext
    <2>1. PagerShape /\ TablesInv
      BY <1>2 DEF TablesKnown, PagerNext
    <2>2. ASSUME NEW x \in PagesIn, Reads(x) \/ Writes(x) \/ FaultHandler(x) PROVE TablesKnown'
      BY <2>1, <2>2, ReadsKeepsShape, WritesKeepsShape, FaultHandlerKeepsShape, ReadsKeepsTables,
         WritesKeepsTables, FaultHandlerKeepsTables DEF TablesKnown
    <2>3. ASSUME NEW p \in VmProcs, Quit(p) PROVE TablesKnown'
      BY <2>1, <2>3, QuitKeepsShape, QuitKeepsTables DEF TablesKnown
    <2>4. ASSUME NEW g \in Pagers, PagerStep(g) PROVE TablesKnown'
      <3>1. PagerShape'
        BY <2>1, <2>4, PagerStepKeepsShape DEF TablesInv
      <3>2. ASSUME broken' = {} PROVE TablesInv'
        <4>1. ~NoBlock(g)
          BY <3>2 DEF NoBlock
        <4>2. QED
          BY <2>1, <2>4, <3>2, <4>1, TakesFreeFrameKeepsTables, EntersFreeFrameKeepsTables,
             DropsCleanKeepsTables, BeginsPageOutKeepsTables, EndsPageOutKeepsTables,
             EndsPageInKeepsTables DEF PagerStep
      <3>3. QED
        BY <3>1, <3>2 DEF TablesKnown
    <2>5. QED
      BY <1>2, <2>2, <2>3, <2>4 DEF PagerNext
  <1>3. QED
    BY <1>1, <1>2

(* However faults, page-outs of other programs' pages and quits interleave,*)
(* no frame is in two page tables, each page table and the frame table say *)
(* the same, and freeFrames counts the frames that no pager is about to    *)
(* use.                                                                    *)
THEOREM TablesStayInAgreement == PagerSpec => []TablesAgree
  <1>1. TablesKnown => TablesAgree
    BY DEF TablesKnown, TablesInv, TablesAgree, Matched, Counted, FreeOnes, Entering
  <1>2. QED
    BY <1>1, PagerInitTables, PagerNextTables, PTL DEF PagerSpec
-----------------------------------------------------------------------------
(* The contents of the pages.  A page whose entry, block and frame are left *)
(* alone keeps what it holds.                                              *)
LEMMA LeftAlone ==
  ASSUME NEW z \in PagesIn, Kept(z), pageTable'[z] = pageTable[z], (z \in written') <=> (z \in written),
         BeingRead(z)' <=> BeingRead(z),
         pageTable[z].diskTableIndex # -1 =>
            disk'[pageTable[z].diskTableIndex] = disk[pageTable[z].diskTableIndex],
         FrameOf(z) # -1 => /\ memory'[FrameOf(z)] = memory[FrameOf(z)]
                            /\ access'[FrameOf(z)].dirty = access[FrameOf(z)].dirty
  PROVE  Kept(z)'
  <1>1. FrameOf(z)' = FrameOf(z) /\ Contents(z)' = Contents(z)
    BY DEF FrameOf, Contents
  <1>2. OnDisk(z)' <=> OnDisk(z)
    BY <1>1 DEF OnDisk
  <1>3. NeverWritten(z)' <=> NeverWritten(z)
    BY DEF NeverWritten
  <1>4. CASE FrameOf(z) = -1
    BY <1>1, <1>2, <1>3, <1>4 DEF Kept
  <1>5. CASE FrameOf(z) # -1 /\ BeingRead(z)
    BY <1>1, <1>2, <1>5 DEF Kept
  <1>6. CASE FrameOf(z) # -1 /\ ~BeingRead(z)
    <2>1. /\ memory[FrameOf(z)] = Contents(z)
          /\ access[FrameOf(z)].dirty \/ pageTable[z].diskTableIndex = -1 \/ OnDisk(z)
      BY <1>6 DEF Kept
    <2>2. /\ memory'[pageTable'[z].frame] = Contents(z)'
          /\ access'[pageTable'[z].frame].dirty \/ pageTable'[z].diskTableIndex = -1 \/ OnDisk(z)'
      BY <1>1, <1>2, <1>6, <2>1 DEF FrameOf
    <2>3. QED
      BY <1>1, <1>6, <2>2 DEF Kept, FrameOf
  <1>7. QED
    BY <1>4, <1>5, <1>6

LEMMA FrameIsNumbered == PagerShape => \A z \in PagesIn : FrameOf(z) \in Frames \cup {-1}
  BY DEF PagerShape, FrameOf, Entry

LEMMA RunningIsNotRead ==
  ASSUME Served, NEW x, Runs(x) PROVE ~BeingRead(x)
  <1>1. SUFFICES ASSUME NEW g \in Pagers, pager[g].at = "pageIn", pager[g].page = x PROVE FALSE
    BY DEF BeingRead
  <1>2. Waiting(x)
    BY <1>1 DEF Served, Busy
  <1>3. QED
    BY <1>2 DEF Waiting, Runs, At

LEMMA ReadsKeepsPages ==
  ASSUME PagerShape, TablesInv, KeptInv, NEW x \in PagesIn, Reads(x) PROVE KeptInv'
  <1>1. UNCHANGED <<pageTable, disk, memory, written, spoilt, program, pager>>
    BY DEF Reads, store, ghosts
  <1>2. \A f \in Frames : access'[f].dirty = access[f].dirty
    <2>1. SUFFICES ASSUME NEW f \in Frames PROVE access'[f].dirty = access[f].dirty
      OBVIOUS
    <2>2. PICK a : a = access[f]
      OBVIOUS
    <2>3. a \in Bits
      BY <2>2 DEF PagerShape
    <2>4. access'[f] = IF f = FrameOf(x) THEN [a EXCEPT !.ref = TRUE] ELSE a
      BY <2>2 DEF Reads, PagerShape
    <2>5. QED
      BY <2>2, <2>3, <2>4 DEF Bits
  <1>3. ASSUME NEW z \in PagesIn \ spoilt, ~Gone(z) PROVE Kept(z)'
    <2>1. Kept(z)
      BY <1>3 DEF KeptInv
    <2>2. BeingRead(z)' <=> BeingRead(z)
      BY <1>1 DEF BeingRead
    <2>3. QED
      BY <1>1, <1>2, <2>1, <2>2, LeftAlone, FrameIsNumbered
  <1>4. QED
    BY <1>1, <1>3 DEF KeptInv, Gone

LEMMA WritesKeepsPages ==
  ASSUME PagerShape, TablesInv, KeptInv, NEW x \in PagesIn, Writes(x) PROVE KeptInv'
  <1>1. /\ Runs(x) /\ FrameOf(x) \in Frames
        /\ access' = [access EXCEPT ![FrameOf(x)] = [ref |-> TRUE, dirty |-> TRUE]]
        /\ written' = written \cup {x} /\ spoilt' = spoilt \ {x}
        /\ memory' = [f \in Frames |-> IF f = FrameOf(x) THEN x ELSE Aged(x, memory[f])]
        /\ disk' = [b \in Blocks |-> Aged(x, disk[b])]
        /\ UNCHANGED <<pageTable, program>>
    BY FrameIsNumbered DEF Writes
  <1>2. \A g \in Pagers : pager'[g].at = pager[g].at /\ pager'[g].page = pager[g].page
    <2>1. SUFFICES ASSUME NEW g \in Pagers
                   PROVE  pager'[g].at = pager[g].at /\ pager'[g].page = pager[g].page
      OBVIOUS
    <2>2. PICK d : d = pager[g]
      OBVIOUS
    <2>3. PICK c : c = Aged(x, d.buffer)
      OBVIOUS
    <2>4. d \in Work
      BY <2>2 DEF PagerShape
    <2>5. pager'[g] = [d EXCEPT !.buffer = c]
      BY <2>2, <2>3 DEF Writes
    <2>6. QED
      BY <2>2, <2>4, <2>5 DEF Work
  <1>3. \A z \in PagesIn : BeingRead(z)' <=> BeingRead(z)
    BY <1>2 DEF BeingRead
  <1>4. Kept(x)'
    <2>1. ~BeingRead(x)
      BY <1>1, RunningIsNotRead DEF TablesInv
    <2>2. access'[FrameOf(x)].dirty /\ memory'[FrameOf(x)] = x /\ Contents(x)' = x
      BY <1>1 DEF PagerShape, Contents
    <2>3. pageTable'[x].frame = FrameOf(x) /\ FrameOf(x) # -1
      BY <1>1, PagesAndFrames DEF FrameOf
    <2>4. QED
      BY <1>3, <2>1, <2>2, <2>3 DEF Kept, FrameOf
  <1>5. ASSUME NEW z \in PagesIn \ spoilt, ~Gone(z), z # x PROVE Kept(z)'
    <2>1. Kept(z)
      BY <1>5 DEF KeptInv
    <2>2. Contents(z) # x
      BY <1>5, PagesAndFrames DEF Contents
    <2>3. Aged(x, Contents(z)) = Contents(z)
      BY <2>2 DEF Aged
    <2>4. Contents(z)' = Contents(z)
      BY <1>1, <1>5 DEF Contents
    <2>5. OnDisk(z) => OnDisk(z)'
      <3>1. SUFFICES ASSUME OnDisk(z) PROVE OnDisk(z)'
        OBVIOUS
      <3>2. pageTable[z].diskTableIndex \in Blocks
        BY <3>1 DEF OnDisk, PagerShape, Entry
      <3>3. QED
        BY <1>1, <2>3, <2>4, <3>1, <3>2 DEF OnDisk
    <2>6. NeverWritten(z)' <=> NeverWritten(z)
      BY <1>1, <1>5 DEF NeverWritten
    <2>7. FrameOf(z)' = FrameOf(z)
      BY <1>1 DEF FrameOf
    <2>8. CASE FrameOf(z) = -1
      BY <1>1, <2>1, <2>5, <2>6, <2>7, <2>8 DEF Kept
    <2>9. CASE FrameOf(z) # -1 /\ BeingRead(z)
      BY <1>3, <2>1, <2>5, <2>7, <2>9 DEF Kept
    <2>10. CASE FrameOf(z) # -1 /\ ~BeingRead(z)
      <3>1. FrameOf(z) \in Frames /\ FrameOf(z) # FrameOf(x)
        BY <1>1, <1>5, <2>10, FrameIsNumbered, PagesAndFrames DEF TablesInv, Matched
      <3>2. memory'[FrameOf(z)] = Contents(z)' /\ access'[FrameOf(z)] = access[FrameOf(z)]
        BY <1>1, <2>1, <2>3, <2>4, <2>10, <3>1 DEF Kept, PagerShape
      <3>3. access'[FrameOf(z)].dirty \/ pageTable'[z].diskTableIndex = -1 \/ OnDisk(z)'
        BY <1>1, <2>1, <2>5, <2>10, <3>2 DEF Kept
      <3>4. QED
        BY <1>3, <2>7, <2>10, <3>2, <3>3 DEF Kept, FrameOf
    <2>11. QED
      BY <2>8, <2>9, <2>10
  <1>6. QED
    BY <1>1, <1>4, <1>5 DEF KeptInv, Gone

LEMMA FaultHandlerKeepsPages ==
  ASSUME PagerShape, TablesInv, KeptInv, NEW x \in PagesIn, FaultHandler(x) PROVE KeptInv'
  <1>1. UNCHANGED <<pageTable, disk, memory, access, written, spoilt, pager>>
    BY DEF FaultHandler, store, ghosts, tables
  <1>2. \A z \in PagesIn : Gone(z)' <=> Gone(z)
    BY PagesAndFrames DEF FaultHandler, Runs, Gone, At, PagerShape
  <1>3. ASSUME NEW z \in PagesIn \ spoilt, ~Gone(z) PROVE Kept(z)'
    <2>1. Kept(z)
      BY <1>3 DEF KeptInv
    <2>2. BeingRead(z)' <=> BeingRead(z)
      BY <1>1 DEF BeingRead
    <2>3. QED
      BY <1>1, <2>1, <2>2, LeftAlone
  <1>4. QED
    BY <1>1, <1>2, <1>3 DEF KeptInv

LEMMA QuitKeepsPages ==
  ASSUME PagerShape, TablesInv, KeptInv, NEW p \in VmProcs, Quit(p) PROVE KeptInv'
  <1>1. /\ program' = [program EXCEPT ![p] = At("gone", NULL)]
        /\ pageTable' = [x \in PagesIn |-> IF x[1] = p THEN NewPage ELSE pageTable[x]]
        /\ access' = [f \in Frames |-> IF f \in FramesIn(p) THEN Clear ELSE access[f]]
        /\ written' = {x \in written : x[1] # p} /\ spoilt' = {x \in spoilt : x[1] # p}
        /\ UNCHANGED <<disk, memory, pager>>
    BY DEF Quit, store
  <1>2. ASSUME NEW z \in PagesIn, z[1] = p PROVE Gone(z)' /\ pageTable'[z] = NewPage
    BY <1>1, <1>2 DEF Gone, At, PagerShape
  <1>3. ASSUME NEW z \in PagesIn, z[1] # p PROVE (Gone(z)' <=> Gone(z)) /\ pageTable'[z] = pageTable[z]
    BY <1>1, <1>3, PagesAndFrames DEF Gone, PagerShape
  <1>4. ASSUME NEW z \in PagesIn \ spoilt, ~Gone(z), z[1] # p PROVE Kept(z)'
    <2>1. Kept(z)
      BY <1>4 DEF KeptInv
    <2>2. BeingRead(z)' <=> BeingRead(z)
      BY <1>1 DEF BeingRead
    <2>3. ASSUME FrameOf(z) # -1 PROVE access'[FrameOf(z)] = access[FrameOf(z)]
      <3>1. FrameOf(z) \in Frames /\ frameTable[FrameOf(z)] = z
        BY <2>3, FrameIsNumbered DEF TablesInv, Matched
      <3>2. FrameOf(z) \notin FramesIn(p)
        BY <1>4, <3>1, FramesOfQuitter DEF TablesInv
      <3>3. QED
        BY <1>1, <3>1, <3>2
    <2>4. (z \in written') <=> (z \in written)
      BY <1>1, <1>4
    <2>5. QED
      BY <1>1, <1>3, <1>4, <2>1, <2>2, <2>3, <2>4, LeftAlone
  <1>5. QED
    BY <1>1, <1>2, <1>3, <1>4 DEF KeptInv

(* A process whose page is waited for has not quit, and goes on waiting or *)
(* runs.                                                                   *)
LEMMA NobodyLeaves ==
  ASSUME PagerShape, NEW x \in PagesIn, Waiting(x), NEW z \in PagesIn,
         program' = program \/ program' = [program EXCEPT ![x[1]] = At("runs", NULL)]
  PROVE  (Gone(z)' <=> Gone(z)) /\ ~Gone(x)
  <1>1. program[x[1]].at = "faults"
    BY DEF Waiting, At
  <1>2. program'[z[1]].at = "gone" <=> program[z[1]].at = "gone"
    <2>1. z[1] \in VmProcs /\ x[1] \in VmProcs
      BY PagesAndFrames
    <2>2. CASE z[1] = x[1] /\ program' # program
      <3>1. program'[z[1]].at = "runs"
        BY <2>1, <2>2 DEF PagerShape, At
      <3>2. QED
        BY <1>1, <2>2, <3>1
    <2>3. CASE ~(z[1] = x[1] /\ program' # program)
      <3>1. program'[z[1]] = program[z[1]]
        BY <2>1, <2>3 DEF PagerShape
      <3>2. QED
        BY <3>1
    <2>4. QED
      BY <2>2, <2>3
  <1>3. QED
    BY <1>1, <1>2 DEF Gone

(* Of the pages that are not lost, the one that comes into the frame is on *)
(* the disk or was never written, and the one that goes is on the disk.    *)
LEMMA FillKeepsPages ==
  ASSUME PagerShape, Queued, Served, Matched, KeptInv,
         NEW g \in Pagers, NEW x, InHand(g, x), NEW f \in Frames, NEW pt \in [PagesIn -> Entry],
         NEW bits \in [Frames -> Bits], FillsFrame(g, x, f, pt, bits),
         pager[g].at # "pageIn", FrameOf(x) = -1,
         \A z \in PagesIn : z # frameTable[f] => pt[z] = pageTable[z],
         \A e \in Frames \ {f} : bits[e].dirty = access[e].dirty,
         UNCHANGED written, spoilt \subseteq spoilt',
         \A z \in PagesIn \ spoilt' : z # frameTable[f] /\ pageTable[z].diskTableIndex # -1 =>
            disk'[pageTable[z].diskTableIndex] = disk[pageTable[z].diskTableIndex],
         \A z \in PagesIn \ spoilt' : z = frameTable[f] =>
            pt[z].diskTableIndex # -1 /\ disk'[pt[z].diskTableIndex] = Contents(z)
  PROVE  KeptInv'
  <1> DEFINE read == pt[x].diskTableIndex # -1
             new == ~read /\ ~pt[x].accessed
  <1>1. /\ x \in PagesIn /\ Waiting(x) /\ x # frameTable[f] /\ f # -1 /\ pt[x] = pageTable[x]
        /\ \A h \in Pagers \ {g} : Busy(h) => pager[h].page # x
    BY InHandFacts, PagesAndFrames DEF Matched
  <1>2. /\ frameTable' = [frameTable EXCEPT ![f] = x] /\ pageTable' \in [PagesIn -> Entry]
        /\ pageTable'[x].frame = f
        /\ \A z \in PagesIn : pageTable'[z].diskTableIndex = pt[z].diskTableIndex
        /\ memory' = IF new THEN [memory EXCEPT ![f] = Zeroes] ELSE memory
        /\ access' = IF new THEN [bits EXCEPT ![f] = Clear] ELSE bits
        /\ \A z \in PagesIn \ {x} : z # frameTable[f] => pageTable'[z] = pageTable[z]
        /\ \A z \in PagesIn \ {x} : z = frameTable[f] => pageTable'[z].frame = -1
    BY <1>1 DEF FillsFrame
  <1>3. program' = program \/ program' = [program EXCEPT ![x[1]] = At("runs", NULL)]
    BY DEF FillsFrame
  <1>4. \A z \in PagesIn : (Gone(z)' <=> Gone(z)) /\ ~Gone(x)
    BY <1>1, <1>3, NobodyLeaves
  <1>5. \A z \in PagesIn : Contents(z)' = Contents(z)
    BY DEF Contents
  <1>6. /\ \A h \in Pagers \ {g} : pager'[h] = pager[h]
        /\ read => pager'[g].at = "pageIn" /\ pager'[g].page = x
        /\ ~read => pager'[g].at = "pagerMbox"
    BY <1>1 DEF FillsFrame, PagerShape, Doing, Idle
  <1>7. \A z \in PagesIn \ {x} : BeingRead(z)' <=> BeingRead(z)
    BY <1>6 DEF BeingRead
  <1>8. ASSUME NEW z \in PagesIn, Gone(z) PROVE pageTable'[z] = NewPage
    <2>1. pageTable[z] = NewPage /\ z # x
      BY <1>4, <1>8 DEF KeptInv
    <2>2. FrameOf(z) = -1
      BY <2>1 DEF NewPage, FrameOf
    <2>3. z # frameTable[f]
      BY <1>1, <2>2, PagesAndFrames DEF Matched
    <2>4. QED
      BY <1>2, <2>1, <2>3
  <1>9. ASSUME x \notin spoilt' PROVE Kept(x)'
    <2>1. Kept(x)
      BY <1>1, <1>4, <1>9 DEF KeptInv
    <2>2. OnDisk(x) \/ (NeverWritten(x) /\ ~pageTable[x].accessed)
      BY <2>1 DEF Kept
    <2>3. CASE read
      <3>1. OnDisk(x) /\ BeingRead(x)'
        BY <1>1, <1>6, <2>2, <2>3 DEF NeverWritten, BeingRead
      <3>2. OnDisk(x)'
        BY <1>1, <1>2, <1>5, <1>9, <3>1 DEF OnDisk
      <3>3. QED
        BY <1>1, <1>2, <3>1, <3>2 DEF Kept, FrameOf
    <2>4. CASE ~read
      <3>1. new /\ x \notin written
        BY <1>1, <2>2, <2>4 DEF NeverWritten, OnDisk
      <3>2. memory'[f] = Contents(x)'
        BY <1>2, <1>5, <3>1 DEF Contents, PagerShape
      <3>3. ~BeingRead(x)'
        BY <1>1, <1>6, <2>4 DEF BeingRead, Busy
      <3>4. pageTable'[x].diskTableIndex = -1
        BY <1>1, <1>2, <2>4
      <3>5. QED
        BY <1>1, <1>2, <3>2, <3>3, <3>4 DEF Kept, FrameOf
    <2>5. QED
      BY <2>3, <2>4
  <1>10. ASSUME NEW z \in PagesIn \ spoilt', ~Gone(z), z # x, z = frameTable[f] PROVE Kept(z)'
    <2>1. pageTable'[z].frame = -1
      BY <1>2, <1>10
    <2>2. OnDisk(z)'
      BY <1>2, <1>5, <1>10 DEF OnDisk
    <2>3. QED
      BY <2>1, <2>2 DEF Kept, FrameOf
  <1>11. ASSUME NEW z \in PagesIn \ spoilt', ~Gone(z), z # x, z # frameTable[f] PROVE Kept(z)'
    <2>1. Kept(z) /\ pageTable'[z] = pageTable[z]
      BY <1>2, <1>11 DEF KeptInv
    <2>2. ASSUME FrameOf(z) # -1
          PROVE  memory'[FrameOf(z)] = memory[FrameOf(z)] /\ access'[FrameOf(z)].dirty = access[FrameOf(z)].dirty
      <3>1. FrameOf(z) \in Frames \ {f}
        BY <1>11, <2>2, FrameIsNumbered DEF Matched
      <3>2. memory'[FrameOf(z)] = memory[FrameOf(z)] /\ access'[FrameOf(z)] = bits[FrameOf(z)]
        BY <1>2, <3>1 DEF PagerShape
      <3>3. QED
        BY <3>1, <3>2
    <2>3. BeingRead(z)' <=> BeingRead(z)
      BY <1>7, <1>11
    <2>4. QED
      BY <1>11, <2>1, <2>2, <2>3, LeftAlone
  <1>12. QED
    BY <1>4, <1>8, <1>9, <1>10, <1>11 DEF KeptInv

(* A page that is in a frame, and is not lost, is on the disk if it has    *)
(* not been written and has a block.                                       *)
LEMMA CleanIsOnDisk ==
  ASSUME KeptInv, NEW z \in PagesIn \ spoilt, FrameOf(z) # -1,
         ~access[FrameOf(z)].dirty, pageTable[z].diskTableIndex # -1
  PROVE  disk[pageTable[z].diskTableIndex] = Contents(z)
  <1>1. ~Gone(z)
    BY DEF KeptInv, NewPage, FrameOf
  <1>2. Kept(z)
    BY <1>1 DEF KeptInv
  <1>3. QED
    BY <1>2 DEF Kept, OnDisk

LEMMA EntersFreeFrameKeepsPages ==
  ASSUME PagerShape, TablesInv, KeptInv, NEW g \in Pagers, EntersFreeFrame(g) PROVE KeptInv'
  <1> DEFINE x == pager[g].page
             f == pager[g].frame
  <1>1. x \in PagesIn /\ f \in Frames /\ FillsFrame(g, x, f, pageTable, access) /\ pager[g].at = "entering"
    BY EntersFreeFrameFills DEF TablesInv, EntersFreeFrame
  <1>2. frameTable[f] = NULL /\ FrameOf(x) = -1 /\ Busy(g) /\ pager[g].at # "pageIn"
    BY <1>1 DEF TablesInv, FrameKnown, Busy
  <1>3. InHand(g, x) /\ UNCHANGED <<written, spoilt, disk>>
    BY <1>2 DEF InHand, EntersFreeFrame, store, ghosts
  <1>4. pageTable \in [PagesIn -> Entry] /\ access \in [Frames -> Bits]
    BY DEF PagerShape
  <1>5. \A z \in PagesIn : z # frameTable[f]
    BY <1>2, PagesAndFrames
  <1>6. QED
    BY <1>1, <1>2, <1>3, <1>4, <1>5, FillKeepsPages DEF TablesInv

LEMMA DropsCleanKeepsPages ==
  ASSUME PagerShape, TablesInv, KeptInv, NEW g \in Pagers, DropsClean(g) PROVE KeptInv'
  <1> DEFINE x == Head(pagerMbox)
             f == Victim
  <1>1. /\ Takes(g) /\ x \in PagesIn /\ f \in Frames /\ frameTable[f] \in PagesIn
        /\ FillsFrame(g, x, f, pageTable, Swept)
    BY DropsCleanFills
  <1>2. /\ ~access[f].dirty /\ UNCHANGED <<disk, written>>
        /\ spoilt' = IF pageTable[frameTable[f]].diskTableIndex = -1
                     THEN spoilt \cup {frameTable[f]} ELSE spoilt
    BY DEF DropsClean, store
  <1>3. FrameOf(x) = -1 /\ pager[g].at # "pageIn"
    BY <1>1, HeadIsPage DEF TablesInv, Queued, Idle, Doing
  <1>4. InHand(g, x)
    BY <1>1 DEF InHand
  <1>5. /\ Swept \in [Frames -> Bits] /\ pageTable \in [PagesIn -> Entry]
        /\ \A e \in Frames \ {f} : Swept[e].dirty = access[e].dirty
    BY SweptKeepsDirty DEF PagerShape
  <1>6. ASSUME NEW z \in PagesIn \ spoilt', z = frameTable[f]
        PROVE  /\ pageTable[z].diskTableIndex # -1
               /\ disk'[pageTable[z].diskTableIndex] = Contents(z)
    <2>1. pageTable[z].diskTableIndex # -1 /\ z \notin spoilt
      BY <1>2, <1>6
    <2>2. FrameOf(z) = f /\ f # -1
      BY <1>1, <1>6, PagesAndFrames DEF TablesInv, Matched
    <2>3. disk[pageTable[z].diskTableIndex] = Contents(z)
      BY <1>2, <2>1, <2>2, CleanIsOnDisk
    <2>4. QED
      BY <1>2, <2>1, <2>3
  <1>7. spoilt \subseteq spoilt'
    BY <1>2
  <1>8. QED
    BY <1>1, <1>2, <1>3, <1>4, <1>5, <1>6, <1>7, FillKeepsPages DEF TablesInv

LEMMA EndsPageOutKeepsPages ==
  ASSUME PagerShape, TablesInv, KeptInv, NEW g \in Pagers, EndsPageOut(g) PROVE KeptInv'
  <1>0. PICK x, f, b, y, bits, pt : /\ x = pager[g].page /\ f = pager[g].frame /\ b = pager[g].block
                                   /\ y = frameTable[f] /\ bits = [access EXCEPT ![f] = Clear]
                                   /\ pt = WrittenOut(g)
    OBVIOUS
  <1>1. /\ pager[g].at = "pageOut" /\ UNCHANGED <<written, pagerMbox>>
        /\ disk' = [disk EXCEPT ![b] = pager[g].buffer]
        /\ spoilt' = spoilt \cup {z \in PagesIn \ {y} : pageTable[z].diskTableIndex = b}
                       \cup (IF pager[g].buffer # memory[f] THEN {y} ELSE {})
    BY <1>0 DEF EndsPageOut
  <1>2. /\ x \in PagesIn /\ f \in Frames /\ b \in Blocks /\ y \in PagesIn
        /\ pt \in [PagesIn -> Entry]
        /\ \A z \in PagesIn : z # y => pt[z] = pageTable[z]
        /\ pt[y].diskTableIndex = b
        /\ FillsFrame(g, x, f, pt, bits)
    BY <1>0, <1>1, WrittenOutEffect, EndsPageOutFills DEF TablesInv
  <1>3. FrameOf(x) = -1 /\ Busy(g) /\ pager[g].at # "pageIn"
    BY <1>0, <1>1 DEF TablesInv, FrameKnown, Busy
  <1>4. InHand(g, x)
    BY <1>0, <1>1, <1>3 DEF InHand
  <1>5. /\ bits \in [Frames -> Bits]
        /\ \A e \in Frames \ {f} : bits[e].dirty = access[e].dirty
    BY <1>0, <1>2, ValuesHaveShape DEF PagerShape
  <1>6. ASSUME NEW z \in PagesIn \ spoilt', z # y, pageTable[z].diskTableIndex # -1
        PROVE  disk'[pageTable[z].diskTableIndex] = disk[pageTable[z].diskTableIndex]
    <2>1. pageTable[z].diskTableIndex # b /\ pageTable[z].diskTableIndex \in Blocks
      BY <1>1, <1>6 DEF PagerShape, Entry
    <2>2. QED
      BY <1>1, <2>1 DEF PagerShape
  <1>7. ASSUME y \notin spoilt'
        PROVE  disk'[b] = Contents(y)
    <2>1. y \notin spoilt /\ pager[g].buffer = memory[f]
      BY <1>1, <1>7
    <2>2. FrameOf(y) = f /\ f # -1
      BY <1>0, <1>2, PagesAndFrames DEF TablesInv, Matched
    <2>3. ~Gone(y)
      BY <1>2, <2>2 DEF KeptInv, NewPage, FrameOf
    <2>4. Kept(y)
      BY <1>2, <2>1, <2>3 DEF KeptInv
    <2>5. ~BeingRead(y)
      <3>1. SUFFICES ASSUME NEW h \in Pagers, pager[h].at = "pageIn", pager[h].page = y PROVE FALSE
        BY DEF BeingRead
      <3>2. frameTable[pager[h].frame] = y /\ Busy(h) /\ pager[h].frame \in Frames
        BY <3>1 DEF TablesInv, FrameKnown, Busy, OwnFrame, PagerShape, Work
      <3>3. pager[h].frame = f
        BY <1>2, <2>2, <3>2, PagesAndFrames DEF TablesInv, Matched
      <3>4. h = g
        BY <1>0, <3>2, <3>3 DEF TablesInv, OwnFrame
      <3>5. QED
        BY <1>3, <3>1, <3>4
    <2>6. memory[f] = Contents(y)
      BY <2>2, <2>4, <2>5 DEF Kept
    <2>7. QED
      BY <1>1, <1>2, <2>1, <2>6 DEF PagerShape
  <1>8. b # -1 /\ spoilt \subseteq spoilt'
    BY <1>1, <1>2, PagesAndFrames
  <1>9. \A z \in PagesIn \ spoilt' : z = y =>
           pt[z].diskTableIndex # -1 /\ disk'[pt[z].diskTableIndex] = Contents(z)
    BY <1>2, <1>7, <1>8
  <1>10. /\ \A z \in PagesIn : z # frameTable[f] => pt[z] = pageTable[z]
         /\ \A z \in PagesIn \ spoilt' : z # frameTable[f] /\ pageTable[z].diskTableIndex # -1 =>
               disk'[pageTable[z].diskTableIndex] = disk[pageTable[z].diskTableIndex]
         /\ \A z \in PagesIn \ spoilt' : z = frameTable[f] =>
               pt[z].diskTableIndex # -1 /\ disk'[pt[z].diskTableIndex] = Contents(z)
    BY <1>0, <1>2, <1>6, <1>9
  <1>11. pt \in [PagesIn -> Entry] /\ FillsFrame(g, x, f, pt, bits) /\ f \in Frames /\ UNCHANGED written
    BY <1>1, <1>2
  <1>12. Queued /\ Served /\ Matched
    BY DEF TablesInv
  <1>13. QED
    BY <1>3, <1>4, <1>5, <1>8, <1>10, <1>11, <1>12, FillKeepsPages

LEMMA EndsPageInKeepsPages ==
  ASSUME PagerShape, TablesInv, KeptInv, NEW g \in Pagers, EndsPageIn(g) PROVE KeptInv'
  <1>0. PICK x, f, b : x = pager[g].page /\ f = pager[g].frame /\ b = pager[g].block
    OBVIOUS
  <1>1. /\ x \in PagesIn /\ f \in Frames /\ b \in Blocks /\ frameTable[f] = x
        /\ memory' = [memory EXCEPT ![f] = disk[b]] /\ access' = [access EXCEPT ![f] = Clear]
        /\ program' = [program EXCEPT ![x[1]] = At("runs", NULL)]
        /\ pager' = [pager EXCEPT ![g] = Idle]
        /\ UNCHANGED <<pageTable, disk, written, spoilt>>
    BY <1>0, EndsPageInEffect DEF TablesInv
  <1>2. /\ pager[g].at = "pageIn" /\ Busy(g) /\ Waiting(x)
        /\ b = pageTable[x].diskTableIndex /\ b # -1 /\ FrameOf(x) = f /\ f # -1
    <2>1. pager[g].at = "pageIn" /\ Busy(g) /\ FrameKnown(g) /\ f # -1
      BY <1>1, PagesAndFrames DEF EndsPageIn, TablesInv, Busy
    <2>2. Waiting(x) /\ b = pageTable[x].diskTableIndex /\ b # -1
      BY <1>0, <2>1 DEF TablesInv, Served, FrameKnown
    <2>3. FrameOf(x) = f
      BY <1>1, PagesAndFrames DEF TablesInv, Matched
    <2>4. QED
      BY <2>1, <2>2, <2>3
  <1>3. \A z \in PagesIn : (Gone(z)' <=> Gone(z)) /\ ~Gone(x)
    BY <1>1, <1>2, NobodyLeaves
  <1>4. pager'[g].at = "pagerMbox" /\ \A h \in Pagers \ {g} : pager'[h] = pager[h]
    BY <1>1 DEF PagerShape, Idle, Doing
  <1>5. ~BeingRead(x)'
    <2>1. SUFFICES ASSUME NEW h \in Pagers, pager'[h].at = "pageIn", pager'[h].page = x PROVE FALSE
      BY DEF BeingRead
    <2>2. h # g /\ Busy(h) /\ pager[h].page = pager[g].page
      BY <1>0, <1>4, <2>1 DEF Busy
    <2>3. QED
      BY <1>2, <2>2 DEF TablesInv, Served
  <1>6. \A z \in PagesIn \ {x} : BeingRead(z)' <=> BeingRead(z)
    BY <1>0, <1>4 DEF BeingRead
  <1>7. ASSUME x \notin spoilt PROVE Kept(x)'
    <2>1. Kept(x) /\ BeingRead(x)
      BY <1>0, <1>1, <1>2, <1>3, <1>7 DEF KeptInv, BeingRead
    <2>2. OnDisk(x)
      BY <1>2, <2>1 DEF Kept
    <2>3. /\ OnDisk(x)' /\ memory'[f] = Contents(x)' /\ pageTable'[x].frame = f
      BY <1>1, <1>2, <2>2 DEF OnDisk, Contents, PagerShape, FrameOf
    <2>4. QED
      BY <1>2, <1>5, <2>3 DEF Kept, FrameOf
  <1>8. ASSUME NEW z \in PagesIn \ spoilt, ~Gone(z), z # x PROVE Kept(z)'
    <2>1. Kept(z) /\ (BeingRead(z)' <=> BeingRead(z))
      BY <1>6, <1>8 DEF KeptInv
    <2>2. ASSUME FrameOf(z) # -1
          PROVE  memory'[FrameOf(z)] = memory[FrameOf(z)] /\ access'[FrameOf(z)] = access[FrameOf(z)]
      <3>1. FrameOf(z) \in Frames \ {f}
        BY <1>1, <1>8, <2>2, FrameIsNumbered DEF TablesInv, Matched
      <3>2. QED
        BY <1>1, <3>1 DEF PagerShape
    <2>3. QED
      BY <1>1, <1>8, <2>1, <2>2, LeftAlone
  <1>9. QED
    BY <1>1, <1>3, <1>7, <1>8 DEF KeptInv

(* Taking a frame changes no page.                                         *)
LEMMA TakesFrameKeepsPages ==
  ASSUME PagerShape, TablesInv, KeptInv, NEW g \in Pagers, TakesFreeFrame(g) \/ BeginsPageOut(g)
  PROVE  KeptInv'
  <1>1. PICK d : /\ pager' = [pager EXCEPT ![g] = d] /\ d.at \in {"entering", "pageOut"}
                 /\ UNCHANGED <<pageTable, disk, memory, written, spoilt, program>>
    BY DEF TakesFreeFrame, BeginsPageOut, store, Doing
  <1>2. \A f \in Frames : access'[f].dirty = access[f].dirty
    BY SweptKeepsDirty DEF TakesFreeFrame, BeginsPageOut, PagerShape
  <1>3. pager[g].at = "pagerMbox" /\ pager'[g] = d /\ \A h \in Pagers \ {g} : pager'[h] = pager[h]
    BY <1>1 DEF TakesFreeFrame, BeginsPageOut, Takes, PagerShape, Idle, Doing
  <1>4. ASSUME NEW z \in PagesIn \ spoilt, ~Gone(z) PROVE Kept(z)'
    <2>1. Kept(z)
      BY <1>4 DEF KeptInv
    <2>2. BeingRead(z)' <=> BeingRead(z)
      BY <1>1, <1>3 DEF BeingRead
    <2>3. QED
      BY <1>1, <1>2, <2>1, <2>2, LeftAlone, FrameIsNumbered
  <1>5. QED
    BY <1>1, <1>4 DEF KeptInv, Gone
-----------------------------------------------------------------------------
PagesKnown == TablesKnown /\ (broken = {} => KeptInv)

LEMMA PagerInitPages == PagerInit => PagesKnown
  <1>1. SUFFICES ASSUME PagerInit PROVE KeptInv
    BY PagerInitTables DEF PagesKnown
  <1>2. /\ pageTable = [x \in PagesIn |-> NewPage] /\ written = {}
        /\ program = [p \in VmProcs |-> At("runs", NULL)]
    BY <1>1 DEF PagerInit
  <1>3. \A x \in PagesIn : ~Gone(x)
    BY <1>2, PagesAndFrames DEF Gone, At
  <1>4. \A x \in PagesIn : Kept(x)
    BY <1>2 DEF Kept, FrameOf, NeverWritten, NewPage
  <1>5. QED
    BY <1>3, <1>4 DEF KeptInv

LEMMA PagerNextPages == PagesKnown /\ [PagerNext]_pagerVars => PagesKnown'
  <1>1. CASE PagesKnown /\ UNCHANGED pagerVars
    <2>1. TablesKnown'
      BY <1>1, PagerNextTables DEF PagesKnown
    <2>2. UNCHANGED <<pageTable, access, disk, written, spoilt, broken, memory, program, pager>>
      BY <1>1 DEF pagerVars, tables, store, ghosts
    <2>3. KeptInv => KeptInv'
      <3>1. \A z \in PagesIn : Kept(z) => Kept(z)'
        BY <2>2 DEF Kept, FrameOf, BeingRead, OnDisk, NeverWritten, Contents
      <3>2. QED
        BY <2>2, <3>1 DEF KeptInv, Gone
    <2>4. QED
      BY <1>1, <2>1, <2>2, <2>3 DEF PagesKnown
  <1>2. CASE PagesKnown /\ PagerNext
    <2>1. PagerShape /\ TablesInv /\ KeptInv /\ TablesKnown'
      BY <1>2, PagerNextTables DEF PagesKnown, TablesKnown, PagerNext
    <2>2. ASSUME NEW x \in PagesIn, Reads(x) \/ Writes(x) \/ FaultHandler(x) PROVE KeptInv'
      BY <2>1, <2>2, ReadsKeepsPages, WritesKeepsPages, FaultHandlerKeepsPages
    <2>3. ASSUME NEW p \in VmProcs, Quit(p) PROVE KeptInv'
      BY <2>1, <2>3, QuitKeepsPages
    <2>4. ASSUME NEW g \in Pagers, PagerStep(g), broken' = {} PROVE KeptInv'
      <3>1. ~NoBlock(g)
        BY <2>4 DEF NoBlock
      <3>2. QED
        BY <2>1, <2>4, <3>1, TakesFrameKeepsPages, EntersFreeFrameKeepsPages, DropsCleanKeepsPages,
           EndsPageOutKeepsPages, EndsPageInKeepsPages DEF PagerStep
    <2>5. QED
      BY <1>2, <2>1, <2>2, <2>3, <2>4 DEF PagerNext, PagesKnown
  <1>3. QED
    BY <1>1, <1>2

(* A program finds in a page what it last wrote there, however faults,     *)
(* page-outs and quits interleave, unless the page is one of those that    *)
(* the code loses: dropped unwritten without a copy on the disk, written   *)
(* to during its page-out, or robbed of its block.                         *)
THEOREM PagesAreKept == PagerSpec => []PagesKept
  <1>1. PagesKnown => PagesKept
    <2>1. SUFFICES ASSUME PagerShape, TablesInv, KeptInv, NEW x \in PagesIn \ spoilt
                   PROVE  /\ Runs(x) /\ FrameOf(x) # -1 => memory[FrameOf(x)] = Contents(x)
                          /\ FrameOf(x) = -1 /\ program[x[1]].at # "gone" =>
                                IF pageTable[x].diskTableIndex = -1 THEN x \notin written
                                ELSE disk[pageTable[x].diskTableIndex] = Contents(x)
      BY DEF PagesKnown, TablesKnown, PagesKept
    <2>2. ASSUME Runs(x), FrameOf(x) # -1 PROVE memory[FrameOf(x)] = Contents(x)
      <3>1. ~Gone(x) /\ ~BeingRead(x)
        BY <2>1, <2>2, RunningIsNotRead DEF Gone, Runs, TablesInv
      <3>2. Kept(x)
        BY <2>1, <3>1 DEF KeptInv
      <3>3. QED
        BY <2>2, <3>1, <3>2 DEF Kept
    <2>3. ASSUME FrameOf(x) = -1, program[x[1]].at # "gone"
          PROVE  IF pageTable[x].diskTableIndex = -1 THEN x \notin written
                 ELSE disk[pageTable[x].diskTableIndex] = Contents(x)
      <3>1. Kept(x)
        BY <2>1, <2>3 DEF KeptInv, Gone
      <3>2. QED
        BY <2>3, <3>1 DEF Kept, OnDisk, NeverWritten
    <2>4. QED
      BY <2>2, <2>3
  <1>2. QED
    BY <1>1, PagerInitPages, PagerNextPages, PTL DEF PagerSpec
-----------------------------------------------------------------------------
(* The types.  A process has at most one fault in the mailbox.             *)
LEMMA MailboxIsShort ==
  ASSUME PagerShape, Queued PROVE Len(pagerMbox) <= Cardinality(VmProcs)
  <1>1. Len(pagerMbox) \in Nat /\ \A i \in 1..Len(pagerMbox) : pagerMbox[i] \in PagesIn
    BY LenProperties DEF PagerShape
  <1>2. Cardinality(VmProcs) \in Nat /\ IsFiniteSet(VmProcs)
    BY PagerAssumption, FS_CardinalityType
  <1>3. IsFiniteSet(1..Len(pagerMbox)) /\ Cardinality(1..Len(pagerMbox)) = Len(pagerMbox)
    BY <1>1, FS_Interval
  <1>4. PICK f : f = [i \in 1..Len(pagerMbox) |-> pagerMbox[i][1]]
    OBVIOUS
  <1>5. f \in [1..Len(pagerMbox) -> VmProcs]
    BY <1>1, <1>4, PagesAndFrames
  <1>6. ASSUME Cardinality(VmProcs) < Len(pagerMbox) PROVE FALSE
    <2>1. PICK i, j \in 1..Len(pagerMbox) : i # j /\ f[i] = f[j]
      BY <1>2, <1>3, <1>5, <1>6, FS_PigeonHole
    <2>2. pagerMbox[i][1] = pagerMbox[j][1]
      BY <1>4, <2>1
    <2>3. program[pagerMbox[i][1]] = At("faults", pagerMbox[i]) /\ program[pagerMbox[j][1]] = At("faults", pagerMbox[j])
      BY <2>1 DEF Queued, Waiting
    <2>4. pagerMbox[i] = pagerMbox[j]
      BY <2>2, <2>3 DEF At
    <2>5. QED
      BY <2>1, <2>4 DEF Queued
  <1>7. QED
    BY <1>1, <1>2, <1>6

TypesKnown == TablesKnown /\ spoilt \subseteq PagesIn /\ Len(pagerMbox) <= Cardinality(VmProcs)

LEMMA MailboxShrinks ==
  ASSUME PagerShape, NEW g \in Pagers, PagerStep(g), Len(pagerMbox) <= Cardinality(VmProcs)
  PROVE  Len(pagerMbox') <= Cardinality(VmProcs)
  <1>1. Cardinality(VmProcs) \in Nat
    BY PagerAssumption, FS_CardinalityType
  <1>2. CASE pagerMbox' = pagerMbox
    BY <1>2
  <1>3. CASE Takes(g)
    <2>1. Len(pagerMbox) \in Nat /\ Len(pagerMbox') = Len(pagerMbox) - 1
      BY <1>3, HeadIsPage
    <2>2. QED
      BY <1>1, <2>1
  <1>4. QED
    BY <1>2, <1>3 DEF PagerStep, TakesFreeFrame, EntersFreeFrame, DropsClean, Replaces, BeginsPageOut,
                      NoBlock, EndsPageOut, EndsPageIn

LEMMA SpoiltArePages ==
  ASSUME PagerShape, TablesInv, NEW g \in Pagers, PagerStep(g), spoilt \subseteq PagesIn
  PROVE  spoilt' \subseteq PagesIn
  <1>1. CASE DropsClean(g)
    BY <1>1, DropsCleanFills DEF DropsClean
  <1>2. CASE EndsPageOut(g)
    <2>1. frameTable[pager[g].frame] \in PagesIn
      BY <1>2, WrittenOutEffect DEF TablesInv, EndsPageOut
    <2>2. spoilt' \subseteq spoilt \cup PagesIn \cup {frameTable[pager[g].frame]}
      BY <1>2 DEF EndsPageOut
    <2>3. QED
      BY <2>1, <2>2
  <1>3. QED
    BY <1>1, <1>2 DEF PagerStep, TakesFreeFrame, EntersFreeFrame, BeginsPageOut, NoBlock, EndsPageIn, ghosts

(* The variables keep their types, and no more faults wait in the mailbox  *)
(* than there are processes.                                               *)
THEOREM PagerTypeCorrect == PagerSpec => []PagerTypeOK
  <1>1. PagerInit => TypesKnown
    <2>1. SUFFICES ASSUME PagerInit PROVE TypesKnown
      OBVIOUS
    <2>2. TablesKnown /\ TablesInv
      BY <2>1, PagerInitTables DEF TablesKnown, PagerInit
    <2>3. QED
      BY <2>1, <2>2, MailboxIsShort DEF TypesKnown, TablesKnown, TablesInv, PagerInit
  <1>2. TypesKnown /\ [PagerNext]_pagerVars => TypesKnown'
    <2>1. SUFFICES ASSUME TypesKnown, [PagerNext]_pagerVars PROVE TypesKnown'
      OBVIOUS
    <2>2. TablesKnown'
      BY <2>1, PagerNextTables DEF TypesKnown
    <2>3. CASE UNCHANGED pagerVars
      BY <2>1, <2>2, <2>3 DEF TypesKnown, pagerVars, ghosts
    <2>4. CASE PagerNext
      <3>1. PagerShape /\ TablesInv
        BY <2>1, <2>4 DEF TypesKnown, TablesKnown, PagerNext
      <3>2. ASSUME NEW x \in PagesIn, Reads(x) \/ Writes(x) \/ FaultHandler(x) PROVE TypesKnown'
        <4>1. TablesInv' /\ PagerShape'
          BY <3>1, <3>2, ReadsKeepsShape, WritesKeepsShape, FaultHandlerKeepsShape, ReadsKeepsTables,
             WritesKeepsTables, FaultHandlerKeepsTables
        <4>2. (Len(pagerMbox) <= Cardinality(VmProcs))'
          <5>1. PagerShape' /\ Queued'
            BY <4>1 DEF TablesInv
          <5>2. (PagerShape /\ Queued => Len(pagerMbox) <= Cardinality(VmProcs))'
            BY MailboxIsShort, PTL
          <5>3. QED
            BY <5>1, <5>2
        <4>3. spoilt' \subseteq PagesIn
          BY <2>1, <3>2 DEF TypesKnown, Reads, Writes, FaultHandler, ghosts
        <4>4. QED
          BY <2>2, <4>2, <4>3 DEF TypesKnown
      <3>3. ASSUME NEW p \in VmProcs, Quit(p) PROVE TypesKnown'
        BY <2>1, <2>2, <3>3 DEF TypesKnown, Quit
      <3>4. ASSUME NEW g \in Pagers, PagerStep(g) PROVE TypesKnown'
        BY <2>1, <2>2, <3>1, <3>4, MailboxShrinks, SpoiltArePages DEF TypesKnown
      <3>5. QED
        BY <2>4, <3>2, <3>3, <3>4 DEF PagerNext
    <2>5. QED
      BY <2>1, <2>3, <2>4
  <1>3. TypesKnown => PagerTypeOK
    BY DEF TypesKnown, TablesKnown, PagerShape, PagerTypeOK, Entry, Bits
  <1>4. QED
    BY <1>1, <1>2, <1>3, PTL DEF PagerSpec
=============================================================================
