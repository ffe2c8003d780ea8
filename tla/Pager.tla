-------------------------------- MODULE Pager -------------------------------
(* The virtual memory of phase 5 (src/phase5/phase5.c, src/phase5/p1.c):   *)
(* programs touch their pages, and pagers bring in those that are not in a *)
(* frame, in the place of pages the clock algorithm picks, which go to the *)
(* disk when they have been written.                                       *)
EXTENDS Programs, Sequences

CONSTANTS
    Pagers,             \* the pager processes
    PagesOf,            \* process that uses the region -> the pages it touches
    frames,             \* number of frames
    blocks              \* number of entries of diskTable

VmProcs == DOMAIN PagesOf
PagesIn == UNION {{p} \X PagesOf[p] : p \in VmProcs}

ASSUME PagerAssumption ==
    /\ IsFiniteSet(VmProcs) /\ IsFiniteSet(Pagers) /\ NULL \notin Pagers /\ NULL \notin PagesIn
    /\ \A p \in VmProcs : PagesOf[p] \subseteq Nat
    /\ frames \in Nat \ {0} /\ blocks \in Nat

Frames == 0..frames - 1
Blocks == 0..blocks - 1

VARIABLES
    pageTable,      \* page -> its entry in the table of its process
    frameTable,     \* frame -> the page in it, or NULL when UNUSED
    access,         \* frame -> the reference and the dirty bit of the MMU
    clockHand,
    diskTable,      \* block -> the page on it, or NULL when UNUSED
    memory,         \* frame -> what it holds
    disk,           \* block -> what it holds
    freeFrames,     \* of vmStats
    pagerMbox,      \* the faults no pager has taken
    program,        \* process -> whether it runs, waits for a page, or has quit
    pager,          \* pager -> where it stands
    written,        \* pages their processes have written to (not in the code)
    spoilt,         \* pages whose contents are lost, for a reason (not in the code)
    broken          \* why the tables are no longer sound (not in the code)

tables == <<pageTable, frameTable, access, clockHand, freeFrames>>
store == <<diskTable, disk>>
ghosts == <<written, spoilt, broken>>
pagerVars == <<tables, store, ghosts, memory, pagerMbox, program, pager>>

(* What a frame, a block or a buffer holds: zeroes, what the process of a  *)
(* page last wrote to it, for which the page stands, or something older.   *)
Zeroes == <<"zeroes">>
Old == <<"old">>
Aged(x, contents) == IF contents = x THEN Old ELSE contents
Contents(x) == IF x \in written THEN x ELSE Zeroes

NewPage == [frame |-> -1, accessed |-> FALSE, diskTableIndex |-> -1]
Clear == [ref |-> FALSE, dirty |-> FALSE]
Doing(loc, x, f, b, buffer) == [at |-> loc, page |-> x, frame |-> f, block |-> b, buffer |-> buffer]
Idle == Doing("pagerMbox", NULL, -1, -1, Zeroes)
At(loc, x) == [at |-> loc, page |-> x]

PagerInit ==
    /\ pageTable = [x \in PagesIn |-> NewPage]
    /\ frameTable = [f \in Frames |-> NULL]
    /\ access = [f \in Frames |-> Clear]
    /\ clockHand = 0 /\ freeFrames = frames
    /\ diskTable = [b \in Blocks |-> NULL] /\ disk = [b \in Blocks |-> Zeroes]
    /\ memory = [f \in Frames |-> Zeroes]
    /\ pagerMbox = <<>>
    /\ program = [p \in VmProcs |-> At("runs", NULL)]
    /\ pager = [g \in Pagers |-> Idle]
    /\ written = {} /\ spoilt = {} /\ broken = {}
-----------------------------------------------------------------------------
Runs(x) == program[x[1]].at = "runs"
FrameOf(x) == pageTable[x].frame

(* p1_switch has mapped every page that is in a frame, for the MMU to note *)
(* what the program does.                                                  *)
Reads(x) ==
    /\ Runs(x) /\ FrameOf(x) # -1
    /\ access' = [access EXCEPT ![FrameOf(x)].ref = TRUE]
    /\ UNCHANGED <<pageTable, frameTable, clockHand, freeFrames, store, ghosts, memory,
                   pagerMbox, program, pager>>

Writes(x) ==
    /\ Runs(x) /\ FrameOf(x) # -1
    /\ access' = [access EXCEPT ![FrameOf(x)] = [ref |-> TRUE, dirty |-> TRUE]]
    /\ written' = written \cup {x}
    /\ memory' = [f \in Frames |-> IF f = FrameOf(x) THEN x ELSE Aged(x, memory[f])]
    /\ disk' = [b \in Blocks |-> Aged(x, disk[b])]
    /\ pager' = [g \in Pagers |-> [pager[g] EXCEPT !.buffer = Aged(x, @)]]
    /\ spoilt' = spoilt \ {x}
    /\ UNCHANGED <<pageTable, frameTable, clockHand, freeFrames, diskTable, broken, pagerMbox, program>>

(* Any other page is a fault.                                              *)
FaultHandler(x) ==
    /\ Runs(x) /\ FrameOf(x) = -1
    /\ program' = [program EXCEPT ![x[1]] = At("faults", x)]
    /\ pagerMbox' = Append(pagerMbox, x)
    /\ UNCHANGED <<tables, store, ghosts, memory, pager>>

(* p1_quit frees the frames of the process, and its page table, whoever    *)
(* works on them.                                                          *)
FramesIn(p) == {f \in Frames : \E k \in PagesOf[p] : FrameOf(<<p, k>>) = f}

Quit(p) ==
    /\ program[p].at = "runs"
    /\ program' = [program EXCEPT ![p] = At("gone", NULL)]
    /\ pageTable' = [x \in PagesIn |-> IF x[1] = p THEN NewPage ELSE pageTable[x]]
    /\ frameTable' = [f \in Frames |-> IF f \in FramesIn(p) THEN NULL ELSE frameTable[f]]
    /\ access' = [f \in Frames |-> IF f \in FramesIn(p) THEN Clear ELSE access[f]]
    /\ freeFrames' = freeFrames + Cardinality(FramesIn(p))
    /\ broken' = IF \E g \in Pagers : pager[g].frame \in FramesIn(p)
                 THEN broken \cup {"pageTableFreed"} ELSE broken
    /\ written' = {x \in written : x[1] # p} /\ spoilt' = {x \in spoilt : x[1] # p}
    /\ UNCHANGED <<clockHand, store, memory, pagerMbox, pager>>
-----------------------------------------------------------------------------
(* The clock algorithm: the first frame from the hand that has not been    *)
(* referenced; the frames it passes lose their reference bits, and after a *)
(* round that finds none it takes the one it began with.                   *)
After(n) == (clockHand + n) % frames
Passed == CHOOSE n \in 0..frames :
    /\ n < frames => ~access[After(n)].ref
    /\ \A m \in 0..n - 1 : access[After(m)].ref
Victim == After(Passed)

PassedBy(f) == \E m \in 0..Passed - 1 : f = After(m)

(* Mutant: the dirty bits of the frames passed are cleared too. *)
MutantSwept == [f \in Frames |-> IF PassedBy(f) THEN Clear ELSE access[f]]
Swept == [f \in Frames |-> IF PassedBy(f) THEN [access[f] EXCEPT !.ref = FALSE] ELSE access[f]]

(* The block for page y of the frame that is to hold a page of process p:  *)
(* the first that is said to hold the page of that number of p (not of y's *)
(* process), or else the first unused one.                                 *)
FirstBlock(Test(_)) == CHOOSE b \in Blocks : Test(b) /\ \A c \in Blocks : c < b => ~Test(c)
Holds(b, p, y) == diskTable[b] = <<p, y[2]>>
BlockFor(p, y) ==
    IF \E b \in Blocks : Holds(b, p, y) THEN FirstBlock(LAMBDA b : Holds(b, p, y))
    ELSE FirstBlock(LAMBDA b : diskTable[b] = NULL)

Reply(g, x) ==
    /\ program' = [program EXCEPT ![x[1]] = At("runs", NULL)]
    /\ pager' = [pager EXCEPT ![g] = Idle]

(* Mutant: the page that was in the frame is still entered as being there. *)
MutantEntered(x, f, pt) == [pt EXCEPT ![x].frame = f]
Entered(x, f, pt) ==
    [y \in PagesIn |-> IF y = x THEN [pt[y] EXCEPT !.frame = f]
                       ELSE IF y = frameTable[f] THEN [pt[y] EXCEPT !.frame = -1] ELSE pt[y]]

(* The faulting page x is entered in frame f.  It is read from the disk,   *)
(* or filled with zeroes the first time; otherwise the frame is left as it *)
(* is.                                                                     *)
Fill(g, x, f, pt, bits) ==
    LET read == pt[x].diskTableIndex # -1
        new == ~read /\ ~pt[x].accessed
        entered == Entered(x, f, pt)
    IN /\ frameTable' = [frameTable EXCEPT ![f] = x]
       /\ pageTable' = IF new THEN [entered EXCEPT ![x].accessed = TRUE] ELSE entered
       /\ memory' = IF new THEN [memory EXCEPT ![f] = Zeroes] ELSE memory
       /\ access' = IF new THEN [bits EXCEPT ![f] = Clear] ELSE bits
       /\ IF read THEN /\ pager' = [pager EXCEPT ![g] = Doing("pageIn", x, f, pt[x].diskTableIndex, Zeroes)]
                       /\ UNCHANGED program
          ELSE Reply(g, x)

Takes(g) ==
    /\ pager[g] = Idle /\ pagerMbox # <<>>
    /\ pagerMbox' = Tail(pagerMbox)

TakenBefore(f) ==
    IF \E h \in Pagers : pager[h].frame = f THEN broken \cup {"frameTakenTwice"} ELSE broken

(* Pager, when there is an unused frame: it may have to wait for the       *)
(* semaphore of the statistics before it marks the frame as used ...       *)
TakesFreeFrame(g) ==
    LET f == CHOOSE f \in Frames : frameTable[f] = NULL /\ \A e \in 0..f - 1 : frameTable[e] # NULL
    IN /\ Takes(g) /\ \E e \in Frames : frameTable[e] = NULL
       /\ pager' = [pager EXCEPT ![g] = Doing("entering", Head(pagerMbox), f, -1, Zeroes)]
       /\ freeFrames' = freeFrames - 1
       /\ broken' = TakenBefore(f)
       /\ UNCHANGED <<pageTable, frameTable, access, clockHand, store, written, spoilt, memory, program>>

EntersFreeFrame(g) ==
    /\ pager[g].at = "entering"
    /\ Fill(g, pager[g].page, pager[g].frame, pageTable, access)
    /\ UNCHANGED <<clockHand, freeFrames, store, ghosts, pagerMbox>>

(* ... and when there is none.                                             *)
Replaces(g) ==
    /\ Takes(g) /\ \A f \in Frames : frameTable[f] # NULL
    /\ clockHand' = (Victim + 1) % frames
    /\ broken' = TakenBefore(Victim)

(* A page that has not been written is dropped.                            *)
DropsClean(g) ==
    /\ Replaces(g) /\ ~access[Victim].dirty
    /\ Fill(g, Head(pagerMbox), Victim, pageTable, Swept)
    /\ spoilt' = IF pageTable[frameTable[Victim]].diskTableIndex = -1
                 THEN spoilt \cup {frameTable[Victim]} ELSE spoilt
    /\ UNCHANGED <<freeFrames, store, written>>

(* A page that has been is copied and written to the disk.                 *)
BeginsPageOut(g) ==
    LET x == Head(pagerMbox)
        b == BlockFor(x[1], frameTable[Victim])
    IN /\ Takes(g) /\ \A f \in Frames : frameTable[f] # NULL
       /\ access[Victim].dirty
       /\ \E c \in Blocks : diskTable[c] = NULL \/ Holds(c, x[1], frameTable[Victim])
       /\ Replaces(g)
       /\ access' = Swept
       /\ pager' = [pager EXCEPT ![g] = Doing("pageOut", x, Victim, b, memory[Victim])]
       /\ UNCHANGED <<pageTable, frameTable, freeFrames, store, written, spoilt, memory, program>>

(* Without a block the code uses an uninitialised index.                   *)
NoBlock(g) ==
    LET x == Head(pagerMbox)
    IN /\ Takes(g) /\ \A f \in Frames : frameTable[f] # NULL
       /\ access[Victim].dirty
       /\ \A c \in Blocks : diskTable[c] # NULL /\ ~Holds(c, x[1], frameTable[Victim])
       /\ broken' = broken \cup {"noBlock"}
       /\ UNCHANGED <<tables, store, written, spoilt, memory, program, pager>>

EndsPageOut(g) ==
    LET d == pager[g]
        y == frameTable[d.frame]
        others == {z \in PagesIn \ {y} : pageTable[z].diskTableIndex = d.block}
    IN /\ d.at = "pageOut"
       /\ disk' = [disk EXCEPT ![d.block] = d.buffer]
       /\ diskTable' = [diskTable EXCEPT ![d.block] = y]
       /\ Fill(g, d.page, d.frame, [pageTable EXCEPT ![y].diskTableIndex = d.block, ![y].frame = -1],
               [access EXCEPT ![d.frame] = Clear])
       /\ spoilt' = spoilt \cup others \cup (IF d.buffer # memory[d.frame] THEN {y} ELSE {})
       /\ UNCHANGED <<clockHand, freeFrames, written, broken, pagerMbox>>

EndsPageIn(g) ==
    LET d == pager[g]
    IN /\ d.at = "pageIn"
       /\ memory' = [memory EXCEPT ![d.frame] = disk[d.block]]
       /\ access' = [access EXCEPT ![d.frame] = Clear]
       /\ Reply(g, d.page)
       /\ UNCHANGED <<pageTable, frameTable, clockHand, freeFrames, store, ghosts, pagerMbox>>
-----------------------------------------------------------------------------
PagerStep(g) ==
    \/ TakesFreeFrame(g) \/ EntersFreeFrame(g) \/ DropsClean(g) \/ BeginsPageOut(g) \/ NoBlock(g)
    \/ EndsPageOut(g) \/ EndsPageIn(g)

(* What follows the use of a freed page table, of one frame by two pagers  *)
(* or of an index never set is left out, and what follows the loss of a    *)
(* second page.                                                            *)
PagerNext ==
    /\ broken = {} /\ Cardinality(spoilt) <= 1
    /\ \/ \E x \in PagesIn : Reads(x) \/ Writes(x) \/ FaultHandler(x)
       \/ \E p \in VmProcs : Quit(p)
       \/ \E g \in Pagers : PagerStep(g)

PagerSpec == PagerInit /\ [][PagerNext]_pagerVars

-----------------------------------------------------------------------------
PagerTypeOK ==
    /\ pageTable \in [PagesIn -> [frame : Frames \cup {-1}, accessed : BOOLEAN,
                                  diskTableIndex : Blocks \cup {-1}]]
    /\ frameTable \in [Frames -> PagesIn \cup {NULL}]
    /\ access \in [Frames -> [ref : BOOLEAN, dirty : BOOLEAN]]
    /\ clockHand \in Frames
    /\ diskTable \in [Blocks -> PagesIn \cup {NULL}]
    /\ Len(pagerMbox) <= Cardinality(VmProcs)
    /\ program \in [VmProcs -> [at : {"runs", "faults", "gone"}, page : PagesIn \cup {NULL}]]
    /\ spoilt \subseteq PagesIn /\ written \subseteq PagesIn

(* The page tables, the frame table and the count of free frames agree:    *)
(* no frame is in two page tables, however faults, page-outs of other      *)
(* programs' pages and quits interleave.                                   *)
TablesAgree ==
    broken = {} =>
        /\ \A x \in PagesIn : FrameOf(x) # -1 => frameTable[FrameOf(x)] = x
        /\ \A f \in Frames : frameTable[f] # NULL => FrameOf(frameTable[f]) = f
        /\ freeFrames = Cardinality({f \in Frames : frameTable[f] = NULL})
                          - Cardinality({g \in Pagers : pager[g].at = "entering"})

(* A program finds in a page what it last wrote there, unless the page was *)
(* dropped unwritten and without a copy on the disk, was written to while  *)
(* a pager wrote it out, or had its block taken for another page: one of   *)
(* the same number of another program, or one that a second pager wrote.   *)
PagesKept ==
    broken = {} => \A x \in PagesIn \ spoilt :
        /\ Runs(x) /\ FrameOf(x) # -1 => memory[FrameOf(x)] = Contents(x)
        /\ FrameOf(x) = -1 /\ program[x[1]].at # "gone" =>
              IF pageTable[x].diskTableIndex = -1 THEN x \notin written
              ELSE disk[pageTable[x].diskTableIndex] = Contents(x)
=============================================================================
