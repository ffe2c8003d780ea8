-------------------------- MODULE UserProcsProofs --------------------------
(* Proofs about the user processes of phase 3, for any number of processes *)
(* and spawns.  ProcsInv says that the list of every process is a chain    *)
(* without repetition of its live registered children (KidsLinked), that   *)
(* families are as fork1 and quit leave them (Kin), and that a child is in *)
(* its launch from the fork until its parent has registered it (Births):   *)
(* so the first of a list is a child that lives, and one that ends is in   *)
(* its parent's list.  Where only start3 leaves children behind, ZapInv    *)
(* says besides that a process waits for each one it zaps: nothing else    *)
(* wakes it.                                                               *)
EXTENDS UserProcs, Chains

(* The steps of a child that has not run yet, and of a parent in Spawn.    *)
Launching == {"new", "entering", "made", "launched"}
Spawning == {"forked", "mboxMade", "entered"}

(* All places where a process may stand.                                   *)
Steps == Launching \cup Spawning \cup {"user", "joining", "terminate"}
Places == [step : Steps, child : Procs \cup {NULL}]

(* The variables have their types.                                         *)
UserShape ==
    /\ procTable \in [Procs -> ProcEntry] /\ kernel \in [Procs -> KernelEntry]
    /\ at \in [Procs -> Places]
    /\ runs \in [Procs -> Funcs \cup {NULL}] /\ spawned \in 0..MaxSpawns

(* Who has a parent has one that has not quit; only a parent zaps.         *)
Kin == \A c \in Procs :
    /\ kernel[c].state = "none" \/ c = Root => kernel[c].parent = NULL
    /\ kernel[c].state # "none" /\ c # Root =>
          kernel[c].parent \in Procs \ {c} /\ Alive(kernel[c].parent)
    /\ Alive(c) => kernel[c].zappers \subseteq {kernel[c].parent}

(* The child that a process spawns is launched until it is registered.     *)
Births == \A p \in Procs :
    /\ at[p].child # NULL <=> at[p].step \in Spawning
    /\ at[p].child # NULL =>
          /\ Alive(p) /\ Alive(at[p].child) /\ kernel[at[p].child].parent = p
          /\ halted = "no" => at[at[p].child].step \in Launching

(* A process that is launched has no function and no child yet.            *)
Unborn == \A p \in Procs :
    /\ at[p].step \in Launching => runs[p] = NULL /\ p # Root /\ Children(p) = {}
    /\ ~Alive(p) => runs[p] = NULL

(* The entry of a registered child names its parent and its function.      *)
Registered ==
    /\ \A c \in Procs \ {Root} : Alive(c) /\ ~Unregistered(c) =>
          procTable[c].parentPtr = kernel[c].parent /\ procTable[c].userFunc = kernel[c].func
    /\ procTable[Root].parentPtr = NULL /\ kernel[Root].state # "none"

(* The list of children links the live ones that are registered.           *)
Siblings == [c \in Procs |-> procTable[c].nextSiblingPtr]
Kids(p) == {c \in Procs : kernel[c].parent = p /\ Alive(c) /\ at[p].child # c}
KidsLinked(p) == \E q \in Seq(Procs) : /\ IsChain(q, procTable[p].childProcPtr, Siblings, NULL)
                                       /\ Elements(q) = Kids(p)

(* No process zaps one that does not exist or quits before a live child.   *)
Survived == {"no", "wakeUpLost", "launchedEarly", "zapsTwice"}

(* The inductive invariant; it asks nothing of the programs.               *)
ProcsInv ==
    /\ UserShape /\ Kin /\ Births /\ Unborn /\ Registered /\ RunsItsFunction
    /\ \A p \in Procs : KidsLinked(p)
    /\ halted \in Survived

(* If only Root leaves children behind: who zaps a live process waits, and *)
(* for that one alone; the others terminate without children.              *)
ZapInv ==
    /\ \A c \in Procs : Alive(c) => \A q \in kernel[c].zappers :
         /\ kernel[q].state = "zap"
         /\ \A d \in Procs : Alive(d) /\ q \in kernel[d].zappers => d = c
    /\ \A p \in Procs \ {Root} : Alive(p) /\ at[p].step = "terminate" => Children(p) = {}
    /\ halted # "zapsTwice"
-----------------------------------------------------------------------------
(* The list of children, and what keeps it.                                *)
LEMMA ListedIs ==
  ASSUME UserShape, NEW p \in Procs, NEW q \in Seq(Procs),
         IsChain(q, procTable[p].childProcPtr, Siblings, NULL)
  PROVE  Listed(p) = Elements(q)
  <1>1. PICK n : n = Cardinality(Procs)
    OBVIOUS
  <1>2. n \in Nat /\ NULL \notin Procs
    BY <1>1, ProgramsAssumption, FS_CardinalityType
  <1>3. Len(q) \in Nat /\ Len(q) <= n
    BY <1>1, ProgramsAssumption, ChainFits DEF IsChain
  <1>4. PICK w : w = WalkAlong(q, n, NULL)
    OBVIOUS
  <1> DEFINE IsNth(v) == v = [k \in 0..n |->
            IF k = 0 THEN procTable[p].childProcPtr
            ELSE IF v[k - 1] = NULL THEN NULL ELSE procTable[v[k - 1]].nextSiblingPtr]
  <1>5. DOMAIN w = 0..n /\ \A k \in 0..n : w[k] = IF k < Len(q) THEN q[k + 1] ELSE NULL
    BY <1>4 DEF WalkAlong
  <1>6. \A k \in 0..n : w[k] \in Procs \cup {NULL}
    BY <1>2, <1>3, <1>5, ElementsOf
  <1>7. IsWalk(w, n, procTable[p].childProcPtr, Siblings, NULL)
    BY <1>2, <1>4, WalkExists
  <1>8. ASSUME NEW k \in 0..n, k # 0
        PROVE  k - 1 \in 0..n /\ w[k] = IF w[k - 1] = NULL THEN NULL ELSE procTable[w[k - 1]].nextSiblingPtr
    <2>1. k - 1 \in 0..n
      BY <1>2, <1>8
    <2>2. w[k - 1] = NULL \/ (w[k - 1] \in Procs /\ Siblings[w[k - 1]] = procTable[w[k - 1]].nextSiblingPtr)
      BY <1>6, <2>1 DEF Siblings
    <2>3. w[k] = IF w[k - 1] = NULL THEN NULL ELSE Siblings[w[k - 1]]
      BY <1>7, <1>8 DEF IsWalk
    <2>4. QED
      BY <2>1, <2>2, <2>3
  <1>9. 0 \in 0..n /\ w[0] = procTable[p].childProcPtr
    BY <1>2, <1>7 DEF IsWalk
  <1>10. IsNth(w)
    <2>1. w = [k \in 0..n |-> w[k]]
      BY <1>7 DEF IsWalk
    <2>2. \A k \in 0..n : w[k] = IF k = 0 THEN procTable[p].childProcPtr
            ELSE IF w[k - 1] = NULL THEN NULL ELSE procTable[w[k - 1]].nextSiblingPtr
      BY <1>8, <1>9
    <2>3. QED
      BY <2>1, <2>2
  <1>11. PICK v : v = CHOOSE u : IsNth(u)
    OBVIOUS
  <1>12. IsNth(v)
    BY <1>10, <1>11
  <1>13. v = w
    <2> DEFINE T == {k \in 0..n : v[k] # w[k]}
    <2>1. T = {}
      <3>1. SUFFICES ASSUME T # {} PROVE FALSE
        OBVIOUS
      <3>2. T \in SUBSET Nat
        BY <1>2
      <3>3. PICK k \in T : \A m \in T : k <= m
        BY <3>1, <3>2, LeastOf
      <3>4. k \in 0..n /\ v[k] # w[k]
        BY <3>3
      <3>5. k # 0
        BY <1>9, <1>12, <3>4
      <3>6. k - 1 \in 0..n /\ k - 1 \notin T
        BY <1>2, <3>2, <3>3, <3>5
      <3>7. v[k - 1] = w[k - 1]
        BY <3>6
      <3>8. v[k] = IF v[k - 1] = NULL THEN NULL ELSE procTable[v[k - 1]].nextSiblingPtr
        BY <1>12, <3>4, <3>5
      <3>9. QED
        BY <1>8, <3>4, <3>5, <3>7, <3>8
    <2>2. \A k \in 0..n : v[k] = w[k]
      BY <2>1
    <2>3. v = [k \in 0..n |-> v[k]] /\ w = [k \in 0..n |-> w[k]]
      BY <1>7, <1>12 DEF IsWalk
    <2>4. QED
      BY <2>2, <2>3
  <1>14. Listed(p) = {w[k] : k \in DOMAIN w} \ {NULL}
    <2>1. Listed(p) = {v[k] : k \in DOMAIN v} \ {NULL}
      BY <1>1, <1>11 DEF Listed
    <2>2. QED
      BY <1>13, <2>1
  <1>15. ASSUME NEW x \in Listed(p) PROVE x \in Elements(q)
    <2>1. PICK k \in 0..n : x = w[k] /\ x # NULL
      BY <1>14, <1>5
    <2>2. k < Len(q) /\ x = q[k + 1] /\ k + 1 \in 1..Len(q)
      BY <1>2, <1>3, <1>5, <2>1
    <2>3. QED
      BY <2>2 DEF Elements
  <1>16. ASSUME NEW x \in Elements(q) PROVE x \in Listed(p)
    <2>1. PICK i \in 1..Len(q) : x = q[i]
      BY DEF Elements
    <2>2. x \in Procs /\ x # NULL
      BY <1>2, <2>1, ElementsOf
    <2>3. i - 1 \in 0..n /\ i - 1 < Len(q) /\ (i - 1) + 1 = i
      BY <1>2, <1>3
    <2>4. w[i - 1] = x
      BY <1>5, <2>1, <2>3
    <2>5. QED
      BY <1>14, <1>5, <2>2, <2>3, <2>4
  <1>17. QED
    BY <1>15, <1>16

LEMMA ListedKids ==
  ASSUME UserShape, NEW p \in Procs, KidsLinked(p)
  PROVE  Listed(p) = Kids(p)
  BY ListedIs DEF KidsLinked

LEMMA SiblingsAre ==
  ASSUME NEW c \in Procs
  PROVE  Siblings[c] = procTable[c].nextSiblingPtr
  BY DEF Siblings

LEMMA SiblingsNext ==
  ASSUME NEW c \in Procs
  PROVE  (Siblings[c] = procTable[c].nextSiblingPtr)'
  <1>1. Siblings[c] = procTable[c].nextSiblingPtr
    BY SiblingsAre
  <1>2. QED
    BY <1>1, PTL

LEMMA LinksStay ==
  ASSUME NEW p \in Procs, KidsLinked(p), Kids(p)' = Kids(p),
         procTable'[p].childProcPtr = procTable[p].childProcPtr,
         \A c \in Kids(p) : procTable'[c].nextSiblingPtr = procTable[c].nextSiblingPtr
  PROVE  KidsLinked(p)'
  <1>1. PICK q \in Seq(Procs) : /\ IsChain(q, procTable[p].childProcPtr, Siblings, NULL)
                                /\ Elements(q) = Kids(p)
    BY DEF KidsLinked
  <1>2. \A i \in 1..Len(q) : q[i] \in Procs /\ q[i] \in Kids(p)
    BY <1>1, ElementsOf
  <1>3. \A i \in 1..Len(q) : Siblings'[q[i]] = Siblings[q[i]]
    BY <1>2, SiblingsAre, SiblingsNext
  <1>4. IsChain(q, procTable'[p].childProcPtr, Siblings', NULL)
    BY <1>1, <1>3, ChainOfSameLinks
  <1>5. QED
    BY <1>1, <1>4 DEF KidsLinked

(* The links, parents and births as they are before and after most steps.  *)
EntriesStay == \A c \in Procs :
    /\ procTable'[c].parentPtr = procTable[c].parentPtr
    /\ procTable'[c].childProcPtr = procTable[c].childProcPtr
    /\ procTable'[c].nextSiblingPtr = procTable[c].nextSiblingPtr
    /\ procTable'[c].userFunc = procTable[c].userFunc
FamiliesStay == \A c \in Procs :
    /\ kernel'[c].parent = kernel[c].parent /\ kernel'[c].func = kernel[c].func
    /\ kernel'[c].state = "none" <=> kernel[c].state = "none"
    /\ kernel'[c].state = "quit" <=> kernel[c].state = "quit"
BirthsStay == \A c \in Procs :
    /\ at'[c].child = at[c].child
    /\ at'[c].step \in Spawning <=> at[c].step \in Spawning
    /\ at'[c].step \in Launching => at[c].step \in Launching
    /\ halted' = "no" /\ at[c].step \in Launching =>
          at'[c].step \in Launching \/ ~Unregistered(c)

LEMMA MildStep ==
  ASSUME ProcsInv, UserShape', RunsItsFunction', EntriesStay, FamiliesStay, BirthsStay,
         halted = "no", halted' \in Survived,
         \A c \in Procs : Alive(c) => kernel'[c].zappers \subseteq {kernel[c].parent},
         \A c \in Procs : ~Alive(c) \/ at'[c].step \in Launching => runs'[c] = NULL
  PROVE  ProcsInv'
  <1>1. \A c \in Procs : (Alive(c)' <=> Alive(c)) /\ (Unregistered(c)' <=> Unregistered(c))
    BY DEF FamiliesStay, BirthsStay, Alive, Unregistered
  <1>2. \A c \in Procs : Children(c)' = Children(c)
    BY DEF FamiliesStay, Children
  <1>3. \A c \in Procs : Kids(c)' = Kids(c)
    BY <1>1 DEF FamiliesStay, BirthsStay, Kids
  <1>4. Kin'
    <2>1. Kin
      BY DEF ProcsInv
    <2>2. ASSUME NEW c \in Procs
          PROVE  /\ kernel'[c].state = "none" \/ c = Root => kernel'[c].parent = NULL
                 /\ kernel'[c].state # "none" /\ c # Root =>
                       kernel'[c].parent \in Procs \ {c} /\ Alive(kernel[c].parent)'
                 /\ Alive(c)' => kernel'[c].zappers \subseteq {kernel'[c].parent}
      BY <1>1, <2>1 DEF Kin, FamiliesStay
    <2>3. \A c \in Procs : kernel'[c].parent = kernel[c].parent
      BY DEF FamiliesStay
    <2>4. QED
      BY <2>2, <2>3 DEF Kin, Alive
  <1>5. Births'
    <2>1. Births
      BY DEF ProcsInv
    <2>2. ASSUME NEW p \in Procs
          PROVE  /\ at'[p].child # NULL <=> at'[p].step \in Spawning
                 /\ at'[p].child # NULL =>
                      /\ Alive(p)' /\ Alive(at[p].child)' /\ kernel'[at'[p].child].parent = p
                      /\ halted' = "no" => at'[at'[p].child].step \in Launching
      <3>1. at'[p].child = at[p].child /\ (at'[p].step \in Spawning <=> at[p].step \in Spawning)
        BY DEF BirthsStay
      <3>2. CASE at[p].child = NULL
        BY <2>1, <3>1, <3>2 DEF Births
      <3>3. CASE at[p].child # NULL
        <4>1. PICK c : c = at[p].child
          OBVIOUS
        <4>2. c \in Procs /\ Unregistered(c)
          BY <3>3, <4>1 DEF ProcsInv, UserShape, Places, Unregistered
        <4>3. Alive(p) /\ Alive(c) /\ kernel[c].parent = p /\ at[c].step \in Launching
          BY <2>1, <3>3, <4>1 DEF Births
        <4>4. Alive(p)' /\ Alive(c)' /\ kernel'[c].parent = p
          BY <1>1, <4>2, <4>3 DEF FamiliesStay
        <4>5. halted' = "no" => at'[c].step \in Launching
          BY <4>2, <4>3 DEF BirthsStay
        <4>6. Alive(at[p].child)'
          BY <3>1, <4>1, <4>4 DEF Alive
        <4>7. QED
          BY <2>1, <3>1, <3>3, <4>1, <4>4, <4>5, <4>6 DEF Births
      <3>4. QED
        BY <3>2, <3>3
    <2>3. \A p \in Procs : at'[p].child = at[p].child
      BY DEF BirthsStay
    <2>4. QED
      BY <2>2, <2>3 DEF Births, Alive
  <1>6. Unborn'
    <2>1. \A p \in Procs : at[p].step \in Launching => p # Root /\ Children(p) = {}
      BY DEF ProcsInv, Unborn
    <2>2. \A p \in Procs : at'[p].step \in Launching => p # Root /\ Children(p)' = {} /\ runs'[p] = NULL
      BY <1>2, <2>1 DEF BirthsStay
    <2>3. \A p \in Procs : ~Alive(p)' => runs'[p] = NULL
      BY <1>1
    <2>4. QED
      BY <2>2, <2>3 DEF Unborn
  <1>7. Registered'
    <2>1. Registered /\ Root \in Procs
      BY ProcsAssumption DEF ProcsInv
    <2>2. \A c \in Procs : /\ procTable'[c].parentPtr = procTable[c].parentPtr
                           /\ procTable'[c].userFunc = procTable[c].userFunc
                           /\ kernel'[c].parent = kernel[c].parent /\ kernel'[c].func = kernel[c].func
                           /\ kernel'[c].state = "none" <=> kernel[c].state = "none"
      BY DEF EntriesStay, FamiliesStay
    <2>3. \A c \in Procs \ {Root} : Alive(c)' /\ ~Unregistered(c)' =>
            procTable'[c].parentPtr = kernel'[c].parent /\ procTable'[c].userFunc = kernel'[c].func
      BY <1>1, <2>1, <2>2 DEF Registered
    <2>4. procTable'[Root].parentPtr = NULL /\ kernel'[Root].state # "none"
      BY <2>1, <2>2 DEF Registered
    <2>5. QED
      BY <2>3, <2>4 DEF Registered
  <1>8. \A p \in Procs : KidsLinked(p)'
    <2>1. ASSUME NEW p \in Procs PROVE KidsLinked(p)'
      <3>1. KidsLinked(p) /\ Kids(p)' = Kids(p)
        BY <1>3 DEF ProcsInv
      <3>2. \A c \in Kids(p) : procTable'[c].nextSiblingPtr = procTable[c].nextSiblingPtr
        BY DEF EntriesStay, Kids
      <3>3. procTable'[p].childProcPtr = procTable[p].childProcPtr
        BY DEF EntriesStay
      <3>4. QED
        BY <3>1, <3>2, <3>3, LinksStay
    <2>2. QED
      BY <2>1
  <1>9. QED
    BY <1>4, <1>5, <1>6, <1>7, <1>8 DEF ProcsInv
-----------------------------------------------------------------------------
(* What the assignments do.                                                *)
LEMMA StepSet ==
  ASSUME NEW p \in Procs, NEW x, NEW a \in [Procs -> Places], NEW b,
         b = [a EXCEPT ![p].step = x], x \in Steps
  PROVE  /\ b \in [Procs -> Places] /\ b[p].step = x /\ b[p].child = a[p].child
         /\ \A c \in Procs : c # p => b[c] = a[c]
  <1>1. PICK r : r = [a[p] EXCEPT !.step = x]
    OBVIOUS
  <1>2. a[p] \in Places
    OBVIOUS
  <1>3. r \in Places /\ r.step = x /\ r.child = a[p].child
    BY <1>1, <1>2 DEF Places
  <1>4. b = [a EXCEPT ![p] = r]
    BY <1>1
  <1>5. QED
    BY <1>3, <1>4

LEMMA PlaceSet ==
  ASSUME NEW p \in Procs, NEW x, NEW a \in [Procs -> Places], NEW b, NEW d \in Procs \cup {NULL},
         b = [a EXCEPT ![p] = Place(x, d)],
         x \in Steps
  PROVE  /\ b \in [Procs -> Places] /\ b[p].step = x /\ b[p].child = d
         /\ \A c \in Procs : c # p => b[c] = a[c]
  <1>1. PICK r : r = Place(x, d)
    OBVIOUS
  <1>2. r \in Places /\ r.step = x /\ r.child = d
    BY <1>1 DEF Place, Places
  <1>3. b = [a EXCEPT ![p] = r]
    BY <1>1
  <1>4. QED
    BY <1>2, <1>3

LEMMA EntrySet ==
  ASSUME NEW p \in Procs, NEW table \in [Procs -> ProcEntry], NEW table2, NEW e \in ProcEntry,
         table2 = [table EXCEPT ![p] = e]
  PROVE  /\ table2 \in [Procs -> ProcEntry] /\ table2[p] = e
         /\ \A c \in Procs : c # p => table2[c] = table[c]
  OBVIOUS

LEMMA EntryWith ==
  ASSUME NEW e \in ProcEntry, NEW s \in {"EMPTY", "ACTIVE", "WAIT_BLOCK"},
         NEW m \in {"none", "parent", "child"}
  PROVE  /\ [e EXCEPT !.status = s] \in ProcEntry /\ [e EXCEPT !.mboxID = m] \in ProcEntry
         /\ [e EXCEPT !.status = s].parentPtr = e.parentPtr
         /\ [e EXCEPT !.status = s].childProcPtr = e.childProcPtr
         /\ [e EXCEPT !.status = s].nextSiblingPtr = e.nextSiblingPtr
         /\ [e EXCEPT !.status = s].userFunc = e.userFunc
         /\ [e EXCEPT !.mboxID = m].parentPtr = e.parentPtr
         /\ [e EXCEPT !.mboxID = m].childProcPtr = e.childProcPtr
         /\ [e EXCEPT !.mboxID = m].nextSiblingPtr = e.nextSiblingPtr
         /\ [e EXCEPT !.mboxID = m].userFunc = e.userFunc
  BY DEF ProcEntry

SameLinks(table, table2) == \A c \in Procs :
    /\ table2[c].parentPtr = table[c].parentPtr
    /\ table2[c].childProcPtr = table[c].childProcPtr
    /\ table2[c].nextSiblingPtr = table[c].nextSiblingPtr
    /\ table2[c].userFunc = table[c].userFunc

LEMMA StatusSet ==
  ASSUME NEW p \in Procs, NEW s \in {"EMPTY", "ACTIVE", "WAIT_BLOCK"},
         NEW table \in [Procs -> ProcEntry], NEW table2, table2 = [table EXCEPT ![p].status = s]
  PROVE  table2 \in [Procs -> ProcEntry] /\ SameLinks(table, table2)
  <1>1. PICK o : o = table[p]
    OBVIOUS
  <1>2. PICK e : e = [o EXCEPT !.status = s]
    OBVIOUS
  <1>3. o \in ProcEntry
    BY <1>1
  <1>4. /\ e \in ProcEntry /\ e.parentPtr = o.parentPtr /\ e.childProcPtr = o.childProcPtr
        /\ e.nextSiblingPtr = o.nextSiblingPtr /\ e.userFunc = o.userFunc
    BY <1>2, <1>3, EntryWith
  <1>5. table2 = [table EXCEPT ![p] = e]
    BY <1>1, <1>2
  <1>6. table2 \in [Procs -> ProcEntry] /\ table2[p] = e /\ \A c \in Procs : c # p => table2[c] = table[c]
    BY <1>4, <1>5, EntrySet
  <1>7. QED
    BY <1>1, <1>4, <1>6 DEF SameLinks

LEMMA MboxSet ==
  ASSUME NEW p \in Procs, NEW m \in {"none", "parent", "child"},
         NEW table \in [Procs -> ProcEntry], NEW table2, table2 = [table EXCEPT ![p].mboxID = m]
  PROVE  table2 \in [Procs -> ProcEntry] /\ SameLinks(table, table2)
  <1>1. PICK o : o = table[p]
    OBVIOUS
  <1>2. PICK e : e = [o EXCEPT !.mboxID = m]
    OBVIOUS
  <1>3. o \in ProcEntry
    BY <1>1
  <1>4. /\ e \in ProcEntry /\ e.parentPtr = o.parentPtr /\ e.childProcPtr = o.childProcPtr
        /\ e.nextSiblingPtr = o.nextSiblingPtr /\ e.userFunc = o.userFunc
    BY <1>2, <1>3, EntryWith
  <1>5. table2 = [table EXCEPT ![p] = e]
    BY <1>1, <1>2
  <1>6. table2 \in [Procs -> ProcEntry] /\ table2[p] = e /\ \A c \in Procs : c # p => table2[c] = table[c]
    BY <1>4, <1>5, EntrySet
  <1>7. QED
    BY <1>1, <1>4, <1>6 DEF SameLinks

LEMMA StateSet ==
  ASSUME NEW p \in Procs, NEW s \in {"none", "ready", "receive", "join", "zap", "quit"},
         NEW k \in [Procs -> KernelEntry], NEW k2, k2 = [k EXCEPT ![p].state = s]
  PROVE  /\ k2 \in [Procs -> KernelEntry] /\ k2[p].state = s
         /\ \A c \in Procs : c # p => k2[c].state = k[c].state
         /\ \A c \in Procs : /\ k2[c].parent = k[c].parent /\ k2[c].func = k[c].func
                             /\ k2[c].zappers = k[c].zappers
  <1>1. PICK e : e = [k[p] EXCEPT !.state = s]
    OBVIOUS
  <1>2. PICK o : o = k[p]
    OBVIOUS
  <1>3. o \in KernelEntry
    BY <1>2
  <1>4. /\ e \in KernelEntry /\ e.state = s /\ e.parent = o.parent /\ e.func = o.func
        /\ e.zappers = o.zappers
    BY <1>1, <1>2, <1>3 DEF KernelEntry
  <1>5. k2 = [k EXCEPT ![p] = e]
    BY <1>1
  <1>6. k2 \in [Procs -> KernelEntry] /\ k2[p] = e /\ \A c \in Procs : c # p => k2[c] = k[c]
    BY <1>4, <1>5
  <1>7. QED
    BY <1>2, <1>4, <1>6

LEMMA MildZap ==
  ASSUME ZapInv, FamiliesStay, halted' # "zapsTwice",
         \A c \in Procs : kernel'[c].zappers = kernel[c].zappers,
         \A c \in Procs : kernel[c].state = "zap" => kernel'[c].state = "zap",
         UserShape,
         \A c \in Procs \ {Root} : at'[c].step = "terminate" =>
             at[c].step = "terminate" \/ Children(c) = {}
  PROVE  ZapInv'
  <1>1. \A c \in Procs : (Alive(c)' <=> Alive(c)) /\ Children(c)' = Children(c)
    BY DEF FamiliesStay, Alive, Children
  <1>2. \A c \in Procs : kernel[c].zappers \subseteq Procs
    BY DEF UserShape, KernelEntry
  <1>3. ASSUME NEW c \in Procs, Alive(c)', NEW q \in kernel'[c].zappers
        PROVE  /\ kernel'[q].state = "zap"
               /\ \A d \in Procs : Alive(d)' /\ q \in kernel'[d].zappers => d = c
    <2>1. q \in kernel[c].zappers /\ q \in Procs /\ Alive(c)
      BY <1>1, <1>2, <1>3
    <2>2. /\ kernel[q].state = "zap"
          /\ \A d \in Procs : Alive(d) /\ q \in kernel[d].zappers => d = c
      BY <2>1 DEF ZapInv
    <2>3. QED
      BY <1>1, <2>1, <2>2
  <1>4. \A p \in Procs \ {Root} : Alive(p)' /\ at'[p].step = "terminate" => Children(p)' = {}
    BY <1>1 DEF ZapInv
  <1>5. QED
    BY <1>3, <1>4 DEF ZapInv
-----------------------------------------------------------------------------
(* The steps that leave families and lists as they are.                    *)
LEMMA RunsStay ==
  ASSUME ProcsInv, FamiliesStay, halted = "no", runs' = runs
  PROVE  RunsItsFunction'
  BY DEF ProcsInv, RunsItsFunction, FamiliesStay

LEMMA Waiters ==
  ASSUME ProcsInv, NEW p \in Procs, Running(p)
  PROVE  /\ halted = "no" /\ kernel[p].state = "ready" /\ Alive(p)
         /\ UserShape /\ procTable \in [Procs -> ProcEntry] /\ kernel \in [Procs -> KernelEntry]
         /\ at \in [Procs -> Places] /\ runs \in [Procs -> Funcs \cup {NULL}]
         /\ spawned \in 0..MaxSpawns
         /\ \A c \in Procs : Alive(c) => kernel[c].zappers \subseteq {kernel[c].parent}
         /\ \A c \in Procs : ~Alive(c) \/ at[c].step \in Launching => runs[c] = NULL
         /\ at[p].child # NULL <=> at[p].step \in Spawning
  BY DEF ProcsInv, UserShape, Running, Ready, Alive, Kin, Unborn, Births

LEMMA GoesTo ==
  ASSUME ProcsInv, NEW p \in Procs, Running(p), NEW x, x \in Steps, Goes(p, x)
  PROVE  /\ at' \in [Procs -> Places] /\ at'[p].step = x /\ at'[p].child = NULL
         /\ \A c \in Procs : c # p => at'[c] = at[c]
  <1>1. at \in [Procs -> Places] /\ NULL \in Procs \cup {NULL}
    BY Waiters
  <1>2. at' = [at EXCEPT ![p] = Place(x, NULL)]
    BY DEF Goes
  <1>3. QED
    BY <1>1, <1>2, PlaceSet

LEMMA StateTo ==
  ASSUME ProcsInv, NEW p \in Procs, Running(p), NEW s,
         s \in {"none", "ready", "receive", "join", "zap", "quit"},
         NEW c \in Procs, kernel' = [kernel EXCEPT ![c].state = s]
  PROVE  /\ kernel' \in [Procs -> KernelEntry] /\ kernel'[c].state = s
         /\ \A d \in Procs : d # c => kernel'[d].state = kernel[d].state
         /\ \A d \in Procs : /\ kernel'[d].parent = kernel[d].parent
                             /\ kernel'[d].func = kernel[d].func
                             /\ kernel'[d].zappers = kernel[d].zappers
  <1>1. PICK k : k = kernel
    OBVIOUS
  <1>2. k \in [Procs -> KernelEntry] /\ kernel' = [k EXCEPT ![c].state = s]
    BY <1>1, Waiters
  <1>3. QED
    BY <1>1, <1>2, StateSet

(* Nothing changes but where p stands, and its entry's state and mailbox.  *)
LEMMA PlaceMoves ==
  ASSUME ProcsInv, NEW p \in Procs, Running(p), at' \in [Procs -> Places],
         \A c \in Procs : c # p => at'[c] = at[c], at'[p].child = at[p].child,
         at'[p].step \in Spawning <=> at[p].step \in Spawning,
         at'[p].step \in Launching <=> at[p].step \in Launching,
         procTable' \in [Procs -> ProcEntry], SameLinks(procTable, procTable'),
         UNCHANGED <<kernel, runs, spawned, halted>>
  PROVE  ProcsInv' /\ FamiliesStay
  <1>1. UserShape'
    BY Waiters DEF UserShape
  <1>2. EntriesStay /\ FamiliesStay
    BY DEF EntriesStay, SameLinks, FamiliesStay
  <1>3. BirthsStay
    BY DEF BirthsStay
  <1>4. RunsItsFunction'
    BY <1>2, Waiters, RunsStay
  <1>5. \A c \in Procs : ~Alive(c) \/ at'[c].step \in Launching => runs'[c] = NULL
    BY Waiters
  <1>6. ProcsInv'
    BY <1>1, <1>2, <1>3, <1>4, <1>5, Waiters, MildStep DEF ProcsInv
  <1>7. QED
    BY <1>2, <1>6

LEMMA PlaceMovesZap ==
  ASSUME ProcsInv, ZapInv, NEW p \in Procs, Running(p), FamiliesStay,
         \A c \in Procs : c # p => at'[c] = at[c], at'[p].step # "terminate",
         UNCHANGED <<kernel, halted>>
  PROVE  ZapInv'
  <1>1. /\ UserShape /\ halted' # "zapsTwice"
        /\ \A c \in Procs : kernel'[c].zappers = kernel[c].zappers
        /\ \A c \in Procs : kernel[c].state = "zap" => kernel'[c].state = "zap"
        /\ \A c \in Procs \ {Root} : at'[c].step = "terminate" =>
             at[c].step = "terminate" \/ Children(c) = {}
    BY Waiters
  <1>2. QED
    BY <1>1, MildZap

LEMMA SameTable ==
  ASSUME NEW t PROVE SameLinks(t, t)
  BY DEF SameLinks

LEMMA LooksKeepsInv ==
  ASSUME ProcsInv, NEW p \in Procs, LooksAtEntry(p)
  PROVE  ProcsInv' /\ (ZapInv => ZapInv')
  <1>1. /\ Running(p) /\ at[p].step = "forked" /\ UNCHANGED <<procTable, kernel, runs, spawned, halted>>
        /\ \E x \in {"mboxMade", "entered"} : at' = [at EXCEPT ![p].step = x]
    BY DEF LooksAtEntry, Stands
  <1>2. PICK x : at' = [at EXCEPT ![p].step = x] /\ x \in {"mboxMade", "entered"}
    BY <1>1
  <1>3. x \in Steps /\ x \in Spawning /\ x \notin Launching /\ x # "terminate"
    BY <1>2 DEF Steps, Spawning, Launching
  <1>4. /\ at' \in [Procs -> Places] /\ at'[p].step = x /\ at'[p].child = at[p].child
        /\ \A c \in Procs : c # p => at'[c] = at[c]
    <2>1. at \in [Procs -> Places] /\ x \in Steps /\ NULL \in Procs \cup {NULL}
      BY <1>1, <1>3, Waiters
    <2>2. at' = [at EXCEPT ![p].step = x]
      BY <1>2
    <2>3. QED
      BY <2>1, <2>2, StepSet
  <1>5. "forked" \in Spawning /\ "forked" \notin Launching
    BY DEF Spawning, Launching
  <1>6. ProcsInv' /\ FamiliesStay
    BY <1>1, <1>3, <1>4, <1>5, PlaceMoves, SameTable, Waiters
  <1>7. QED
    BY <1>1, <1>3, <1>4, <1>6, PlaceMovesZap

LEMMA EntersKeepsInv ==
  ASSUME ProcsInv, NEW p \in Procs, EntersMbox(p)
  PROVE  ProcsInv' /\ (ZapInv => ZapInv')
  <1>1. PICK c : c = at[p].child
    OBVIOUS
  <1>2. /\ Running(p) /\ at[p].step = "mboxMade" /\ UNCHANGED <<kernel, runs, spawned, halted>>
        /\ at' = [at EXCEPT ![p].step = "entered"]
        /\ procTable' = [procTable EXCEPT ![c].status = "ACTIVE", ![c].mboxID = "parent"]
    BY <1>1 DEF EntersMbox, Stands
  <1>3. "entered" \in Steps /\ {"mboxMade", "entered"} \subseteq Spawning /\ "entered" \notin Launching
        /\ "mboxMade" \notin Launching
    BY DEF Steps, Spawning, Launching
  <1>4. /\ at' \in [Procs -> Places] /\ at'[p].step = "entered" /\ at'[p].child = at[p].child
        /\ \A d \in Procs : d # p => at'[d] = at[d]
    BY <1>2, <1>3, Waiters, StepSet
  <1>5. c \in Procs
    BY <1>1, <1>2, <1>3, Waiters DEF Places
  <1>6. PICK t : t = [procTable EXCEPT ![c].status = "ACTIVE"]
    OBVIOUS
  <1>7. t \in [Procs -> ProcEntry] /\ SameLinks(procTable, t)
    BY <1>2, <1>5, <1>6, StatusSet, Waiters
  <1>8. procTable' = [t EXCEPT ![c].mboxID = "parent"]
    BY <1>2, <1>6
  <1>9. procTable' \in [Procs -> ProcEntry] /\ SameLinks(t, procTable')
    BY <1>5, <1>7, <1>8, MboxSet
  <1>10. SameLinks(procTable, procTable')
    BY <1>7, <1>9 DEF SameLinks
  <1>11. ProcsInv' /\ FamiliesStay
    BY <1>2, <1>3, <1>4, <1>9, <1>10, PlaceMoves, Waiters
  <1>12. QED
    BY <1>2, <1>4, <1>11, PlaceMovesZap

LEMMA LaunchEntersKeepsInv ==
  ASSUME ProcsInv, NEW p \in Procs, LaunchEnters(p) \/ LaunchMakesMbox(p)
  PROVE  ProcsInv' /\ (ZapInv => ZapInv')
  <1>1. /\ Running(p) /\ at[p].step \in Launching /\ UNCHANGED <<kernel, runs, spawned, halted>>
        /\ \E x \in {"entering", "made"} : Goes(p, x)
        /\ \/ procTable' = [procTable EXCEPT ![p].status = "ACTIVE"]
           \/ procTable' = [procTable EXCEPT ![p].mboxID = "child"]
    BY DEF LaunchEnters, LaunchMakesMbox, Stands, Launching
  <1>2. PICK x : Goes(p, x) /\ x \in {"entering", "made"}
    BY <1>1
  <1>3. x \in Steps /\ x \in Launching /\ x # "terminate" /\ Launching \cap Spawning = {}
    BY <1>2 DEF Steps, Launching, Spawning
  <1>4. /\ at' \in [Procs -> Places] /\ at'[p].step = x /\ at'[p].child = NULL
        /\ \A c \in Procs : c # p => at'[c] = at[c]
    BY <1>1, <1>2, <1>3, GoesTo
  <1>5. at'[p].child = at[p].child
    BY <1>1, <1>3, <1>4, Waiters
  <1>6. procTable' \in [Procs -> ProcEntry] /\ SameLinks(procTable, procTable')
    BY <1>1, Waiters, StatusSet, MboxSet
  <1>7. ProcsInv' /\ FamiliesStay
    BY <1>1, <1>3, <1>4, <1>5, <1>6, PlaceMoves
  <1>8. QED
    BY <1>1, <1>3, <1>4, <1>7, PlaceMovesZap

LEMMA SameFamilies ==
  ASSUME NEW p \in Procs, kernel[p].state \notin {"none", "quit"},
         NEW s, s \notin {"none", "quit"}, kernel'[p].state = s,
         \A c \in Procs : c # p => kernel'[c].state = kernel[c].state,
         \A c \in Procs : kernel'[c].parent = kernel[c].parent /\ kernel'[c].func = kernel[c].func
  PROVE  FamiliesStay
  BY DEF FamiliesStay

LEMMA LaunchWaitsKeepsInv ==
  ASSUME ProcsInv, NEW p \in Procs, LaunchWaits(p)
  PROVE  ProcsInv' /\ (ZapInv => ZapInv')
  <1>1. /\ Running(p) /\ at[p].step = "made" /\ UNCHANGED <<procTable, runs, spawned, halted>>
        /\ Goes(p, "launched")
        /\ kernel' = [kernel EXCEPT ![p].state = "receive"]
    BY DEF LaunchWaits, Stands
  <1>2. /\ "launched" \in Steps /\ {"made", "launched"} \subseteq Launching
        /\ Launching \cap Spawning = {} /\ NULL \in Procs \cup {NULL}
    BY DEF Steps, Launching, Spawning
  <1>3. /\ at' \in [Procs -> Places] /\ at'[p].step = "launched" /\ at'[p].child = NULL
        /\ \A c \in Procs : c # p => at'[c] = at[c]
    BY <1>1, <1>2, GoesTo
  <1>4. /\ kernel' \in [Procs -> KernelEntry] /\ kernel'[p].state = "receive"
        /\ \A c \in Procs : c # p => kernel'[c].state = kernel[c].state
        /\ \A c \in Procs : /\ kernel'[c].parent = kernel[c].parent /\ kernel'[c].func = kernel[c].func
                            /\ kernel'[c].zappers = kernel[c].zappers
    BY <1>1, StateTo
  <1>5. FamiliesStay
    BY <1>1, <1>4, Waiters, SameFamilies
  <1>6. EntriesStay
    BY <1>1 DEF EntriesStay
  <1>7. BirthsStay
    <2>1. at[p].child = NULL /\ at'[p].step \notin Spawning /\ at[p].step \notin Spawning
          /\ at'[p].step \in Launching /\ at[p].step \in Launching
      BY <1>1, <1>2, <1>3, Waiters
    <2>2. QED
      BY <2>1, <1>3 DEF BirthsStay
  <1>8. UserShape'
    BY <1>1, <1>3, <1>4, Waiters DEF UserShape
  <1>9. RunsItsFunction'
    BY <1>1, <1>5, Waiters, RunsStay
  <1>10. /\ \A c \in Procs : Alive(c) => kernel'[c].zappers \subseteq {kernel[c].parent}
         /\ \A c \in Procs : ~Alive(c) \/ at'[c].step \in Launching => runs'[c] = NULL
    BY <1>1, <1>2, <1>3, <1>4, Waiters
  <1>11. ProcsInv'
    BY <1>1, <1>5, <1>6, <1>7, <1>8, <1>9, <1>10, Waiters, MildStep DEF Survived
  <1>12. ASSUME ZapInv PROVE ZapInv'
    <2>1. /\ halted' # "zapsTwice" /\ UserShape
          /\ \A c \in Procs : kernel[c].state = "zap" => kernel'[c].state = "zap"
          /\ \A c \in Procs \ {Root} : at'[c].step = "terminate" =>
               at[c].step = "terminate" \/ Children(c) = {}
      BY <1>1, <1>3, <1>4, Waiters
    <2>2. QED
      BY <1>4, <1>5, <1>12, <2>1, MildZap
  <1>13. QED
    BY <1>11, <1>12

LEMMA LaunchKeepsInv ==
  ASSUME ProcsInv, NEW p \in Procs, Launch(p)
  PROVE  ProcsInv' /\ (ZapInv => ZapInv')
  <1>1. /\ Running(p) /\ at[p].step \in Launching /\ UNCHANGED <<procTable, kernel, spawned>>
        /\ \/ Goes(p, "terminate") /\ runs' = runs
           \/ /\ Goes(p, "user")
              /\ runs' = [runs EXCEPT ![p] = procTable[p].userFunc]
        /\ halted' = IF Unregistered(p) THEN "launchedEarly" ELSE "no"
    BY DEF Launch, Stands, Launching
  <1>2. /\ {"user", "terminate"} \subseteq Steps /\ Launching \cap Spawning = {}
        /\ {"user", "terminate"} \cap (Launching \cup Spawning) = {} /\ NULL \in Procs \cup {NULL}
    BY DEF Steps, Launching, Spawning
  <1>3. /\ at' \in [Procs -> Places] /\ at'[p].child = NULL /\ at'[p].step \notin Launching \cup Spawning
        /\ \A c \in Procs : c # p => at'[c] = at[c]
    <2>1. CASE Goes(p, "terminate")
      BY <1>1, <1>2, <2>1, GoesTo
    <2>2. CASE Goes(p, "user")
      BY <1>1, <1>2, <2>2, GoesTo
    <2>3. QED
      BY <1>1, <2>1, <2>2
  <1>4. EntriesStay /\ FamiliesStay
    BY <1>1 DEF EntriesStay, FamiliesStay
  <1>5. BirthsStay
    <2>1. at[p].child = NULL /\ at'[p].step \notin Spawning /\ at[p].step \notin Spawning
      BY <1>1, <1>2, <1>3, Waiters
    <2>2. halted' = "no" => ~Unregistered(p)
      BY <1>1
    <2>3. QED
      BY <2>1, <2>2, <1>3 DEF BirthsStay
  <1>6. procTable[p].userFunc \in Funcs \cup {NULL}
    BY <1>1, Waiters DEF ProcEntry
  <1>7. /\ runs' \in [Procs -> Funcs \cup {NULL}] /\ \A c \in Procs : c # p => runs'[c] = runs[c]
        /\ runs'[p] \in {runs[p], procTable[p].userFunc}
    BY <1>1, <1>6, Waiters
  <1>8. UserShape'
    BY <1>1, <1>3, <1>7, Waiters DEF UserShape
  <1>9. p # Root /\ runs[p] = NULL /\ Children(p) = {}
    BY <1>1 DEF ProcsInv, Unborn
  <1>10. RunsItsFunction'
    <2>1. SUFFICES ASSUME halted' # "launchedEarly", NEW c \in Procs \ {Root}
                   PROVE  runs'[c] \in {NULL, kernel[c].func}
      BY <1>1 DEF RunsItsFunction
    <2>2. CASE c # p
      BY <1>1, <1>7, <2>2, Waiters DEF ProcsInv, RunsItsFunction
    <2>3. CASE c = p
      <3>1. ~Unregistered(p)
        BY <1>1, <2>1
      <3>2. procTable[p].userFunc = kernel[p].func
        BY <1>1, <1>9, <3>1, Waiters DEF ProcsInv, Registered
      <3>3. QED
        BY <1>7, <1>9, <2>3, <3>2
    <2>4. QED
      BY <2>2, <2>3
  <1>11. /\ \A c \in Procs : Alive(c) => kernel'[c].zappers \subseteq {kernel[c].parent}
         /\ \A c \in Procs : ~Alive(c) \/ at'[c].step \in Launching => runs'[c] = NULL
    BY <1>1, <1>3, <1>7, Waiters
  <1>12. ProcsInv'
    BY <1>1, <1>4, <1>5, <1>8, <1>10, <1>11, Waiters, MildStep DEF Survived
  <1>13. ASSUME ZapInv PROVE ZapInv'
    <2>1. /\ halted' # "zapsTwice" /\ UserShape
          /\ \A c \in Procs : kernel'[c].zappers = kernel[c].zappers
          /\ \A c \in Procs : kernel[c].state = "zap" => kernel'[c].state = "zap"
          /\ \A c \in Procs \ {Root} : at'[c].step = "terminate" =>
               at[c].step = "terminate" \/ Children(c) = {}
      BY <1>1, <1>3, <1>9, Waiters
    <2>2. QED
      BY <1>4, <1>13, <2>1, MildZap
  <1>14. QED
    BY <1>12, <1>13

LEMMA WaitKeepsInv ==
  ASSUME ProcsInv, NEW p \in Procs, Wait(p)
  PROVE  ProcsInv' /\ (ZapInv => ZapInv')
  <1>1. /\ Running(p) /\ at[p].step = "user" /\ UNCHANGED <<runs, spawned, halted>>
        /\ Goes(p, "joining")
        /\ procTable' = [procTable EXCEPT ![p].status = "WAIT_BLOCK"]
        /\ kernel' = kernel \/ kernel' = [kernel EXCEPT ![p].state = "join"]
    BY DEF Wait, Stands
  <1>2. /\ "joining" \in Steps
        /\ {"user", "joining"} \cap (Launching \cup Spawning) = {}
    BY DEF Steps, Launching, Spawning
  <1>3. /\ at' \in [Procs -> Places] /\ at'[p].step = "joining" /\ at'[p].child = NULL
        /\ \A c \in Procs : c # p => at'[c] = at[c]
    BY <1>1, <1>2, GoesTo
  <1>4. /\ kernel' \in [Procs -> KernelEntry] /\ kernel'[p].state \in {"ready", "join"}
        /\ \A c \in Procs : c # p => kernel'[c].state = kernel[c].state
        /\ \A c \in Procs : /\ kernel'[c].parent = kernel[c].parent /\ kernel'[c].func = kernel[c].func
                            /\ kernel'[c].zappers = kernel[c].zappers
    <2>1. CASE kernel' = kernel
      BY <1>1, <2>1, Waiters
    <2>2. CASE kernel' = [kernel EXCEPT ![p].state = "join"]
      <3>1. /\ kernel' \in [Procs -> KernelEntry] /\ kernel'[p].state = "join"
            /\ \A d \in Procs : d # p => kernel'[d].state = kernel[d].state
            /\ \A d \in Procs : /\ kernel'[d].parent = kernel[d].parent
                                /\ kernel'[d].func = kernel[d].func
                                /\ kernel'[d].zappers = kernel[d].zappers
        BY <1>1, <2>2, StateTo
      <3>2. QED
        BY <3>1
    <2>3. QED
      BY <1>1, <2>1, <2>2
  <1>5. FamiliesStay
    <2>1. kernel[p].state \notin {"none", "quit"} /\ kernel'[p].state \notin {"none", "quit"}
      BY <1>1, <1>4, Waiters
    <2>2. QED
      BY <1>4, <2>1, SameFamilies
  <1>6. procTable' \in [Procs -> ProcEntry] /\ EntriesStay
    <2>1. procTable \in [Procs -> ProcEntry]
      BY <1>1, Waiters
    <2>2. procTable' \in [Procs -> ProcEntry] /\ SameLinks(procTable, procTable')
      BY <1>1, <2>1, StatusSet
    <2>3. QED
      BY <2>2 DEF EntriesStay, SameLinks
  <1>7. BirthsStay
    <2>1. /\ at[p].child = NULL /\ at'[p].step \notin Spawning /\ at[p].step \notin Spawning
          /\ at'[p].step \notin Launching /\ at[p].step \notin Launching
      BY <1>1, <1>2, <1>3, Waiters
    <2>2. QED
      BY <2>1, <1>3 DEF BirthsStay
  <1>8. UserShape'
    BY <1>1, <1>3, <1>4, <1>6, Waiters DEF UserShape
  <1>9. RunsItsFunction'
    BY <1>1, <1>5, Waiters, RunsStay
  <1>10. /\ \A c \in Procs : Alive(c) => kernel'[c].zappers \subseteq {kernel[c].parent}
         /\ \A c \in Procs : ~Alive(c) \/ at'[c].step \in Launching => runs'[c] = NULL
    BY <1>1, <1>2, <1>3, <1>4, Waiters
  <1>11. ProcsInv'
    BY <1>1, <1>5, <1>6, <1>7, <1>8, <1>9, <1>10, Waiters, MildStep DEF Survived
  <1>12. ASSUME ZapInv PROVE ZapInv'
    <2>1. /\ halted' # "zapsTwice" /\ UserShape
          /\ \A c \in Procs : kernel[c].state = "zap" => kernel'[c].state = "zap"
          /\ \A c \in Procs \ {Root} : at'[c].step = "terminate" =>
               at[c].step = "terminate" \/ Children(c) = {}
      BY <1>1, <1>3, <1>4, Waiters
    <2>2. QED
      BY <1>4, <1>5, <1>12, <2>1, MildZap
  <1>13. QED
    BY <1>11, <1>12

LEMMA TerminateKeepsInv ==
  ASSUME ProcsInv, NEW p \in Procs, Terminate(p)
  PROVE  ProcsInv' /\ (JoinsFirst /\ ZapInv => ZapInv')
  <1>1. /\ Running(p) /\ at[p].step = "user" /\ UNCHANGED <<procTable, kernel, runs, spawned, halted>>
        /\ Goes(p, "terminate") /\ MayTerminate(p)
    BY DEF Terminate, Stands
  <1>2. /\ "terminate" \in Steps
        /\ {"user", "terminate"} \cap (Launching \cup Spawning) = {}
    BY DEF Steps, Launching, Spawning
  <1>3. /\ at' \in [Procs -> Places] /\ at'[p].step = "terminate" /\ at'[p].child = NULL
        /\ \A c \in Procs : c # p => at'[c] = at[c]
    BY <1>1, <1>2, GoesTo
  <1>4. /\ at[p].child = NULL /\ at'[p].step \notin Spawning /\ at[p].step \notin Spawning
        /\ at'[p].step \notin Launching /\ at[p].step \notin Launching
    BY <1>1, <1>2, <1>3, Waiters
  <1>5. ProcsInv' /\ FamiliesStay
    BY <1>1, <1>3, <1>4, PlaceMoves, SameTable, Waiters
  <1>6. ASSUME JoinsFirst, ZapInv PROVE ZapInv'
    <2>1. p # Root => Children(p) = {}
      BY <1>1, <1>6 DEF MayTerminate
    <2>2. /\ halted' # "zapsTwice" /\ UserShape
          /\ \A c \in Procs : kernel'[c].zappers = kernel[c].zappers
          /\ \A c \in Procs : kernel[c].state = "zap" => kernel'[c].state = "zap"
          /\ \A c \in Procs \ {Root} : at'[c].step = "terminate" =>
               at[c].step = "terminate" \/ Children(c) = {}
      BY <1>1, <1>3, <2>1, Waiters
    <2>3. QED
      BY <1>5, <1>6, <2>2, MildZap
  <1>7. QED
    BY <1>5, <1>6

LEMMA HeadKid ==
  ASSUME NEW p \in Procs, KidsLinked(p)
  PROVE  IF procTable[p].childProcPtr = NULL THEN Kids(p) = {}
         ELSE procTable[p].childProcPtr \in Kids(p)
  <1>1. PICK q \in Seq(Procs) : /\ IsChain(q, procTable[p].childProcPtr, Siblings, NULL)
                                /\ Elements(q) = Kids(p)
    BY DEF KidsLinked
  <1>2. /\ Len(q) \in Nat /\ (Len(q) = 0 <=> Elements(q) = {})
        /\ \A i \in 1..Len(q) : q[i] \in Procs /\ q[i] \in Elements(q)
    BY ElementsOf
  <1>3. procTable[p].childProcPtr = IF Len(q) = 0 THEN NULL ELSE q[1]
    BY <1>1 DEF IsChain
  <1>4. CASE Len(q) = 0
    BY <1>1, <1>2, <1>3, <1>4
  <1>5. CASE Len(q) # 0
    <2>1. 1 \in 1..Len(q)
      BY <1>2, <1>5
    <2>2. q[1] \in Kids(p) /\ q[1] # NULL
      BY <1>1, <1>2, <2>1, ProgramsAssumption
    <2>3. QED
      BY <1>3, <1>5, <2>2
  <1>6. QED
    BY <1>4, <1>5

SetsZap(p, c) == kernel' = [kernel EXCEPT ![p].state = "zap", ![c].zapped = TRUE,
                                          ![c].zappers = @ \cup {p}]

LEMMA ZapSet ==
  ASSUME ProcsInv, NEW p \in Procs, NEW c \in Procs, Running(p), p # c, SetsZap(p, c)
  PROVE  /\ kernel' \in [Procs -> KernelEntry] /\ kernel'[p].state = "zap"
         /\ \A d \in Procs : d # p => kernel'[d].state = kernel[d].state
         /\ \A d \in Procs : kernel'[d].parent = kernel[d].parent /\ kernel'[d].func = kernel[d].func
         /\ kernel'[c].zappers = kernel[c].zappers \cup {p}
         /\ \A d \in Procs : d # c => kernel'[d].zappers = kernel[d].zappers
  <1>1. PICK k : k = [kernel EXCEPT ![p].state = "zap"]
    OBVIOUS
  <1>2. kernel \in [Procs -> KernelEntry]
    BY Waiters
  <1>3. /\ k \in [Procs -> KernelEntry] /\ k[p].state = "zap"
        /\ \A d \in Procs : d # p => k[d].state = kernel[d].state
        /\ \A d \in Procs : /\ k[d].parent = kernel[d].parent /\ k[d].func = kernel[d].func
                            /\ k[d].zappers = kernel[d].zappers
    <2>1. PICK j : j = kernel
      OBVIOUS
    <2>2. j \in [Procs -> KernelEntry] /\ k = [j EXCEPT ![p].state = "zap"]
      BY <1>1, <1>2, <2>1
    <2>3. QED
      BY <2>1, <2>2, StateSet
  <1>4. PICK o : o = k[c]
    OBVIOUS
  <1>5. PICK e : e = [o EXCEPT !.zapped = TRUE, !.zappers = o.zappers \cup {p}]
    OBVIOUS
  <1>6. o \in KernelEntry
    BY <1>3, <1>4
  <1>7. /\ e \in KernelEntry /\ e.state = o.state /\ e.parent = o.parent /\ e.func = o.func
        /\ e.zappers = o.zappers \cup {p}
    BY <1>5, <1>6 DEF KernelEntry
  <1>8. kernel' = [k EXCEPT ![c] = e]
    <2>1. PICK r : r = [[o EXCEPT !.zapped = TRUE] EXCEPT !.zappers = o.zappers \cup {p}]
      OBVIOUS
    <2>2. kernel' = [k EXCEPT ![c] = r]
      BY <1>1, <1>2, <1>4, <2>1 DEF SetsZap
    <2>3. r = e
      BY <1>5, <2>1
    <2>4. QED
      BY <2>2, <2>3
  <1>9. /\ kernel' \in [Procs -> KernelEntry] /\ kernel'[c] = e
        /\ \A d \in Procs : d # c => kernel'[d] = k[d]
    BY <1>3, <1>7, <1>8
  <1>10. QED
    BY <1>3, <1>4, <1>7, <1>9

LEMMA ZapsKeepsInv ==
  ASSUME ProcsInv, NEW p \in Procs, TerminateZaps(p)
  PROVE  ProcsInv' /\ (ZapInv => ZapInv')
  <1>1. PICK c : c = procTable[p].childProcPtr
    OBVIOUS
  <1>2. /\ Running(p) /\ at[p].step = "terminate" /\ c # NULL /\ UNCHANGED <<procTable, at, runs, spawned>>
        /\ halted' = IF kernel[c].state = "none" THEN "zapsNobody"
                     ELSE IF Alive(c) /\ p \in kernel[c].zappers THEN "zapsTwice" ELSE "no"
        /\ kernel' = IF Alive(c)
                     THEN [kernel EXCEPT ![p].state = "zap", ![c].zapped = TRUE,
                                         ![c].zappers = @ \cup {p}]
                     ELSE kernel
    BY <1>1 DEF TerminateZaps, Stands
  <1>3. c \in Kids(p)
    BY <1>1, <1>2, HeadKid DEF ProcsInv
  <1>4. c \in Procs /\ Alive(c) /\ kernel[c].parent = p /\ kernel[c].state # "none"
    BY <1>3 DEF Kids, Alive
  <1>5. c # p
    BY <1>4, ProcsAssumption, ProgramsAssumption DEF ProcsInv, Kin
  <1>6. /\ kernel' \in [Procs -> KernelEntry] /\ kernel'[p].state = "zap"
        /\ \A d \in Procs : d # p => kernel'[d].state = kernel[d].state
        /\ \A d \in Procs : kernel'[d].parent = kernel[d].parent /\ kernel'[d].func = kernel[d].func
        /\ kernel'[c].zappers = kernel[c].zappers \cup {p}
        /\ \A d \in Procs : d # c => kernel'[d].zappers = kernel[d].zappers
    <2>1. SetsZap(p, c)
      BY <1>2, <1>4 DEF SetsZap
    <2>2. QED
      BY <1>2, <1>4, <1>5, <2>1, ZapSet
  <1>7. FamiliesStay
    <2>1. kernel[p].state \notin {"none", "quit"} /\ kernel'[p].state \notin {"none", "quit"}
      BY <1>2, <1>6, Waiters
    <2>2. QED
      BY <1>6, <2>1, SameFamilies
  <1>8. EntriesStay /\ BirthsStay
    BY <1>2 DEF EntriesStay, BirthsStay
  <1>9. UserShape'
    BY <1>2, <1>6, Waiters DEF UserShape
  <1>10. /\ \A d \in Procs : Alive(d) => kernel'[d].zappers \subseteq {kernel[d].parent}
         /\ \A d \in Procs : ~Alive(d) \/ at'[d].step \in Launching => runs'[d] = NULL
    BY <1>2, <1>4, <1>6, Waiters
  <1>11. RunsItsFunction' /\ halted' \in Survived
    <2>1. halted = "no" /\ halted' \in {"zapsTwice", "no"}
      BY <1>2, <1>4, Waiters
    <2>2. QED
      BY <1>2, <1>6, <2>1 DEF ProcsInv, RunsItsFunction, Survived
  <1>12. ProcsInv'
    BY <1>2, <1>7, <1>8, <1>9, <1>10, <1>11, Waiters, MildStep
  <1>13. ASSUME ZapInv PROVE ZapInv'
    <2>1. \A d \in Procs : Alive(d) => p \notin kernel[d].zappers
      BY <1>2, <1>13, Waiters DEF ZapInv
    <2>2. halted' # "zapsTwice"
      BY <1>2, <1>4, <2>1
    <2>3. \A d \in Procs : (Alive(d)' <=> Alive(d)) /\ Children(d)' = Children(d)
      BY <1>7 DEF FamiliesStay, Alive, Children
    <2>4. \A d \in Procs : kernel[d].zappers \subseteq Procs
      BY <1>2, Waiters DEF KernelEntry
    <2>5. ASSUME NEW d \in Procs, Alive(d)', NEW q \in kernel'[d].zappers
          PROVE  /\ kernel'[q].state = "zap"
                 /\ \A r \in Procs : Alive(r)' /\ q \in kernel'[r].zappers => r = d
      <3>1. CASE q = p
        <4>1. d = c /\ \A r \in Procs : Alive(r)' /\ p \in kernel'[r].zappers => r = c
          BY <1>6, <2>1, <2>3, <2>5, <3>1
        <4>2. QED
          BY <1>6, <3>1, <4>1
      <3>2. CASE q # p
        <4>1. q \in kernel[d].zappers /\ Alive(d) /\ q \in Procs
          BY <1>4, <1>6, <2>3, <2>4, <2>5, <3>2
        <4>2. /\ kernel[q].state = "zap"
              /\ \A r \in Procs : Alive(r) /\ q \in kernel[r].zappers => r = d
          BY <1>13, <4>1 DEF ZapInv
        <4>3. \A r \in Procs : q \in kernel'[r].zappers => q \in kernel[r].zappers
          BY <1>6, <3>2
        <4>4. QED
          BY <1>6, <2>3, <3>2, <4>1, <4>2, <4>3
      <3>3. QED
        BY <3>1, <3>2
    <2>6. \A d \in Procs \ {Root} : Alive(d)' /\ at'[d].step = "terminate" => Children(d)' = {}
      BY <1>2, <1>13, <2>3 DEF ZapInv
    <2>7. QED
      BY <2>2, <2>5, <2>6 DEF ZapInv
  <1>14. QED
    BY <1>12, <1>13
-----------------------------------------------------------------------------
(* The steps that make families: fork, and the parent's entry for a child. *)
LEMMA NewIs ==
  ASSUME NEW p \in Procs, NEW f \in Funcs, NEW prio \in Priorities, NEW e, e = NewProc(p, f, prio)
  PROVE  /\ e \in KernelEntry /\ e.state = "ready" /\ e.parent = p /\ e.func = f /\ e.zappers = {}
  BY DEF NewProc, ZeroProc, KernelEntry

LEMMA ForkKeepsInv ==
  ASSUME ProcsInv, NEW p \in Procs, NEW c \in Procs, NEW f \in Funcs, NEW prio \in Priorities,
         Fork(p, c, f, prio)
  PROVE  ProcsInv' /\ (ZapInv => ZapInv')
  <1>1. PICK e : e = NewProc(p, f, prio)
    OBVIOUS
  <1>2. /\ Running(p) /\ at[p].step = "user" /\ UNCHANGED <<procTable, runs, halted>>
        /\ kernel[c].state = "none" /\ spawned < MaxSpawns
        /\ kernel' = [kernel EXCEPT ![c] = e]
        /\ at' = [at EXCEPT ![p] = Place("forked", c), ![c] = Place("new", NULL)]
        /\ spawned' = spawned + 1
    BY <1>1 DEF Fork, Stands
  <1>3. e \in KernelEntry /\ e.state = "ready" /\ e.parent = p /\ e.func = f /\ e.zappers = {}
    BY <1>1, NewIs
  <1>4. halted = "no" /\ kernel[p].state = "ready" /\ Alive(p) /\ ~Alive(c) /\ p # c /\ c # Root
    BY <1>2, Waiters DEF Alive, ProcsInv, Registered
  <1>5. /\ kernel' \in [Procs -> KernelEntry] /\ kernel'[c] = e
        /\ \A d \in Procs : d # c => kernel'[d] = kernel[d]
    BY <1>2, <1>3, Waiters
  <1>6. /\ "forked" \in Steps /\ "new" \in Steps /\ "forked" \in Spawning /\ "new" \in Launching
        /\ Launching \cap Spawning = {} /\ "user" \notin Launching \cup Spawning
    BY DEF Steps, Launching, Spawning
  <1>7. /\ at' \in [Procs -> Places] /\ at'[p].step = "forked" /\ at'[p].child = c
        /\ at'[c].step = "new" /\ at'[c].child = NULL
        /\ \A d \in Procs \ {p, c} : at'[d] = at[d]
    <2>1. PICK a : a = [at EXCEPT ![p] = Place("forked", c)]
      OBVIOUS
    <2>2. at \in [Procs -> Places] /\ NULL \in Procs \cup {NULL} /\ c \in Procs \cup {NULL}
      BY <1>2, Waiters
    <2>3. /\ a \in [Procs -> Places] /\ a[p].step = "forked" /\ a[p].child = c
          /\ \A d \in Procs : d # p => a[d] = at[d]
      <3>1. PICK j : j = at
        OBVIOUS
      <3>2. j \in [Procs -> Places] /\ a = [j EXCEPT ![p] = Place("forked", c)]
        BY <2>1, <2>2, <3>1
      <3>3. QED
        BY <1>6, <2>2, <3>1, <3>2, PlaceSet
    <2>4. at' = [a EXCEPT ![c] = Place("new", NULL)]
      BY <1>2, <2>1
    <2>5. /\ at' \in [Procs -> Places] /\ at'[c].step = "new" /\ at'[c].child = NULL
          /\ \A d \in Procs : d # c => at'[d] = a[d]
      BY <1>6, <2>2, <2>3, <2>4, PlaceSet
    <2>6. QED
      BY <1>4, <2>3, <2>5
  <1>8. UserShape'
    BY <1>2, <1>5, <1>7, Waiters, ProcsAssumption DEF UserShape
  <1>9. \A d \in Procs : Alive(d)' <=> Alive(d) \/ d = c
    BY <1>3, <1>5 DEF Alive
  <1>10. at[p].child = NULL /\ \A d \in Procs : at[d].child # c
    <2>1. at[p].child = NULL
      BY <1>2, <1>6, Waiters
    <2>2. QED
      BY <1>4, <2>1, ProgramsAssumption DEF ProcsInv, Births
  <1>11. \A d \in Procs : kernel[d].parent # c
    BY <1>2, <1>4, ProgramsAssumption DEF ProcsInv, Kin
  <1>12. Kin'
    <2>1. ASSUME NEW d \in Procs
          PROVE  /\ kernel'[d].state = "none" \/ d = Root => kernel'[d].parent = NULL
                 /\ kernel'[d].state # "none" /\ d # Root =>
                       kernel'[d].parent \in Procs \ {d} /\ Alive(kernel[d].parent)'
                 /\ Alive(d)' => kernel'[d].zappers \subseteq {kernel'[d].parent}
      <3>1. CASE d = c
        BY <1>3, <1>4, <1>5, <1>9, <3>1 DEF Alive
      <3>2. CASE d # c
        <4>1. kernel'[d] = kernel[d] /\ (Alive(d)' <=> Alive(d))
          BY <1>5, <1>9, <3>2
        <4>2. /\ kernel[d].state = "none" \/ d = Root => kernel[d].parent = NULL
              /\ kernel[d].state # "none" /\ d # Root =>
                       kernel[d].parent \in Procs \ {d} /\ Alive(kernel[d].parent)
              /\ Alive(d) => kernel[d].zappers \subseteq {kernel[d].parent}
          BY DEF ProcsInv, Kin
        <4>3. ASSUME kernel[d].parent \in Procs, Alive(kernel[d].parent) PROVE Alive(kernel[d].parent)'
          <5>1. kernel[d].parent # c
            BY <1>11
          <5>2. kernel'[kernel[d].parent] = kernel[kernel[d].parent]
            BY <1>5, <4>3, <5>1
          <5>3. QED
            BY <4>1, <4>3, <5>2 DEF Alive
        <4>4. QED
          BY <4>1, <4>2, <4>3
      <3>3. QED
        BY <3>1, <3>2
    <2>2. QED
      BY <2>1 DEF Kin, Alive
  <1>13. Births'
    <2>1. ASSUME NEW d \in Procs
          PROVE  /\ at'[d].child # NULL <=> at'[d].step \in Spawning
                 /\ at'[d].child # NULL =>
                       /\ Alive(d)' /\ Alive(at[d].child)' /\ kernel'[at'[d].child].parent = d
                       /\ halted' = "no" => at'[at'[d].child].step \in Launching
      <3>1. CASE d = p
        <4>1. Alive(p)' /\ kernel'[c].state = "ready" /\ kernel'[c].parent = p
          BY <1>3, <1>4, <1>5, <1>9
        <4>2. QED
          BY <1>6, <1>7, <3>1, <4>1, ProgramsAssumption DEF Alive
      <3>2. CASE d = c
        BY <1>6, <1>7, <3>2
      <3>3. CASE d # p /\ d # c
        <4>1. at'[d] = at[d] /\ (Alive(d)' <=> Alive(d))
          BY <1>7, <1>9, <3>3
        <4>2. CASE at[d].child = NULL
          BY <4>1, <4>2 DEF ProcsInv, Births
        <4>3. CASE at[d].child # NULL
          <5>1. PICK b : b = at[d].child
            OBVIOUS
          <5>2. b \in Procs /\ b # c
            BY <1>2, <1>10, <4>3, <5>1, Waiters DEF Places
          <5>3. Alive(d) /\ Alive(b) /\ kernel[b].parent = d /\ at[b].step \in Launching
                /\ at[d].step \in Spawning
            BY <1>4, <4>3, <5>1 DEF ProcsInv, Births
          <5>4. b # p
            BY <1>2, <1>6, <5>3
          <5>5. kernel'[b] = kernel[b] /\ at'[b] = at[b]
            BY <1>5, <1>7, <5>2, <5>4
          <5>6. at'[d].child = b /\ at'[d].step \in Spawning /\ Alive(d)'
            BY <4>1, <5>1, <5>3
          <5>7. Alive(b)' /\ kernel'[b].parent = d /\ at'[b].step \in Launching
            BY <5>3, <5>5 DEF Alive
          <5>8. Alive(at[d].child)'
            BY <5>6, <5>7 DEF Alive
          <5>9. QED
            BY <4>3, <5>1, <5>6, <5>7, <5>8
        <4>4. QED
          BY <4>2, <4>3
      <3>4. QED
        BY <3>1, <3>2, <3>3
    <2>2. QED
      BY <2>1 DEF Births, Alive
  <1>14. \A d \in Procs : d # p => Children(d)' = Children(d)
    BY <1>2, <1>3, <1>5 DEF Children
  <1>15. Children(c) = {} /\ Children(c)' = {}
    BY <1>4, <1>11, <1>14 DEF Children
  <1>16. Unborn'
    <2>1. ASSUME NEW d \in Procs
          PROVE  /\ at'[d].step \in Launching => runs'[d] = NULL /\ d # Root /\ Children(d)' = {}
                 /\ ~Alive(d)' => runs'[d] = NULL
      BY <1>2, <1>4, <1>6, <1>7, <1>9, <1>14, <1>15 DEF ProcsInv, Unborn
    <2>2. QED
      BY <2>1 DEF Unborn
  <1>17. Registered'
    <2>1. Unregistered(c)'
      BY <1>7 DEF Unregistered
    <2>2. ASSUME NEW d \in Procs \ {Root}, Alive(d)', ~Unregistered(d)'
          PROVE  procTable'[d].parentPtr = kernel'[d].parent /\ procTable'[d].userFunc = kernel'[d].func
      <3>1. d # c
        BY <2>1, <2>2
      <3>2. ~Unregistered(d)
        <4>1. ASSUME NEW b \in Procs PROVE at[b].child # d
          <5>1. CASE b = p \/ b = c
            BY <1>10, <5>1, <1>4, ProgramsAssumption DEF ProcsInv, Births
          <5>2. CASE b # p /\ b # c
            BY <1>7, <2>2, <5>2 DEF Unregistered
          <5>3. QED
            BY <5>1, <5>2
        <4>2. QED
          BY <4>1 DEF Unregistered
      <3>3. QED
        BY <1>2, <1>5, <1>9, <2>2, <3>1, <3>2 DEF ProcsInv, Registered
    <2>3. QED
      BY <1>2, <1>4, <1>5, <2>2, ProcsAssumption DEF ProcsInv, Registered
  <1>18. \A d \in Procs : Kids(d)' = Kids(d)
    <2>1. ASSUME NEW d \in Procs, NEW b \in Procs
          PROVE  (kernel'[b].parent = d /\ Alive(b)' /\ at'[d].child # b)
                   <=> (kernel[b].parent = d /\ Alive(b) /\ at[d].child # b)
      <3>1. CASE b = c
        BY <1>3, <1>4, <1>5, <1>7, <3>1
      <3>2. CASE b # c
        <4>1. kernel'[b] = kernel[b] /\ (Alive(b)' <=> Alive(b))
          BY <1>5, <1>9, <3>2
        <4>2. at'[d].child # b <=> at[d].child # b \/ d = c
          BY <1>7, <1>10, <3>2, <1>4, ProgramsAssumption
        <4>3. kernel[b].parent # c
          BY <1>11
        <4>4. QED
          BY <4>1, <4>2, <4>3
      <3>3. QED
        BY <3>1, <3>2
    <2>2. QED
      BY <2>1 DEF Kids
  <1>19. \A d \in Procs : KidsLinked(d)'
    BY <1>2, <1>18, LinksStay DEF ProcsInv
  <1>20. RunsItsFunction'
    BY <1>2, <1>4, <1>5 DEF ProcsInv, RunsItsFunction, Unborn
  <1>21. ProcsInv'
    BY <1>2, <1>8, <1>12, <1>13, <1>16, <1>17, <1>19, <1>20 DEF ProcsInv
  <1>22. ASSUME ZapInv PROVE ZapInv'
    <2>1. \A d \in Procs : kernel[d].zappers \subseteq Procs
      BY <1>2, Waiters DEF KernelEntry
    <2>2. ASSUME NEW d \in Procs, Alive(d)', NEW q \in kernel'[d].zappers
          PROVE  /\ kernel'[q].state = "zap"
                 /\ \A r \in Procs : Alive(r)' /\ q \in kernel'[r].zappers => r = d
      <3>1. d # c /\ Alive(d) /\ q \in kernel[d].zappers
        BY <1>3, <1>5, <1>9, <2>2
      <3>2. /\ kernel[q].state = "zap" /\ q \in Procs
            /\ \A r \in Procs : Alive(r) /\ q \in kernel[r].zappers => r = d
        BY <1>22, <2>1, <3>1 DEF ZapInv
      <3>3. q # c
        BY <1>2, <3>2
      <3>4. QED
        BY <1>3, <1>5, <1>9, <3>2, <3>3
    <2>3. \A d \in Procs \ {Root} : Alive(d)' /\ at'[d].step = "terminate" => Children(d)' = {}
      BY <1>7, <1>9, <1>14, <1>22 DEF ZapInv
    <2>4. QED
      BY <1>2, <1>22, <2>2, <2>3 DEF ZapInv
  <1>23. QED
    BY <1>21, <1>22
-----------------------------------------------------------------------------
(* How the lists of children change.                                       *)
WithHead(table, p, x) == [table EXCEPT ![p].childProcPtr = x]
WithNext(table, p, x) == [table EXCEPT ![p].nextSiblingPtr = x]
SameOwner(e, e2) == e2.parentPtr = e.parentPtr /\ e2.userFunc = e.userFunc

LEMMA HeadSet ==
  ASSUME NEW p \in Procs, NEW x \in Procs \cup {NULL}, NEW table \in [Procs -> ProcEntry], NEW table2,
         table2 = WithHead(table, p, x)
  PROVE  /\ table2 \in [Procs -> ProcEntry] /\ table2[p].childProcPtr = x
         /\ table2[p].nextSiblingPtr = table[p].nextSiblingPtr /\ SameOwner(table[p], table2[p])
         /\ \A d \in Procs : d # p => table2[d] = table[d]
  <1>1. PICK o : o = table[p]
    OBVIOUS
  <1>2. PICK e : e = [o EXCEPT !.childProcPtr = x]
    OBVIOUS
  <1>3. o \in ProcEntry
    BY <1>1
  <1>4. /\ e \in ProcEntry /\ e.childProcPtr = x /\ e.nextSiblingPtr = o.nextSiblingPtr
        /\ e.parentPtr = o.parentPtr /\ e.userFunc = o.userFunc
    BY <1>2, <1>3 DEF ProcEntry
  <1>5. table2 = [table EXCEPT ![p] = e]
    BY <1>1, <1>2 DEF WithHead
  <1>6. table2 \in [Procs -> ProcEntry] /\ table2[p] = e /\ \A d \in Procs : d # p => table2[d] = table[d]
    BY <1>4, <1>5, EntrySet
  <1>7. QED
    BY <1>1, <1>4, <1>6 DEF SameOwner

LEMMA NextSet ==
  ASSUME NEW p \in Procs, NEW x \in Procs \cup {NULL}, NEW table \in [Procs -> ProcEntry], NEW table2,
         table2 = WithNext(table, p, x)
  PROVE  /\ table2 \in [Procs -> ProcEntry] /\ table2[p].nextSiblingPtr = x
         /\ table2[p].childProcPtr = table[p].childProcPtr /\ SameOwner(table[p], table2[p])
         /\ \A d \in Procs : d # p => table2[d] = table[d]
  <1>1. PICK o : o = table[p]
    OBVIOUS
  <1>2. PICK e : e = [o EXCEPT !.nextSiblingPtr = x]
    OBVIOUS
  <1>3. o \in ProcEntry
    BY <1>1
  <1>4. /\ e \in ProcEntry /\ e.nextSiblingPtr = x /\ e.childProcPtr = o.childProcPtr
        /\ e.parentPtr = o.parentPtr /\ e.userFunc = o.userFunc
    BY <1>2, <1>3 DEF ProcEntry
  <1>5. table2 = [table EXCEPT ![p] = e]
    BY <1>1, <1>2 DEF WithNext
  <1>6. table2 \in [Procs -> ProcEntry] /\ table2[p] = e /\ \A d \in Procs : d # p => table2[d] = table[d]
    BY <1>4, <1>5, EntrySet
  <1>7. QED
    BY <1>1, <1>4, <1>6 DEF SameOwner

LEMMA OnlyKid ==
  ASSUME NEW c \in Procs, NEW next, next[c] = NULL
  PROVE  \E r \in Seq(Procs) : IsChain(r, c, next, NULL) /\ Elements(r) = {c}
  <1>1. PICK r : r = <<c>>
    OBVIOUS
  <1>2. r \in Seq(Procs) /\ IsChain(r, c, next, NULL) /\ Elements(r) = {c}
    BY <1>1, ChainBegins
  <1>3. QED
    BY <1>2

Adds(p, c, e, table) ==
    /\ e \in ProcEntry /\ e.nextSiblingPtr = NULL
    /\ table = [procTable EXCEPT ![c] = e]
    /\ procTable' = AddChildToList(p, c, table)

LEMMA Added ==
  ASSUME UserShape, NEW p \in Procs, NEW c \in Procs, p # c, KidsLinked(p), c \notin Kids(p),
         NEW e, NEW table, Adds(p, c, e, table), Kids(p)' = Kids(p) \cup {c}
  PROVE  /\ procTable' \in [Procs -> ProcEntry] /\ procTable'[c] = e
         /\ \A d \in Procs : d # c => SameOwner(procTable[d], procTable'[d])
         /\ \A d \in Procs \ {p, c} : procTable'[d].childProcPtr = procTable[d].childProcPtr
         /\ \A d \in Procs \ Kids(p) : d # c => procTable'[d].nextSiblingPtr = procTable[d].nextSiblingPtr
         /\ KidsLinked(p)'
  <1>1. /\ table \in [Procs -> ProcEntry] /\ table[c] = e
        /\ \A d \in Procs : d # c => table[d] = procTable[d]
    <2>1. procTable \in [Procs -> ProcEntry]
      BY DEF UserShape
    <2>2. QED
      BY <2>1, EntrySet DEF Adds
  <1>2. PICK q \in Seq(Procs) : /\ IsChain(q, procTable[p].childProcPtr, Siblings, NULL)
                                /\ Elements(q) = Kids(p)
    BY DEF KidsLinked
  <1>3. PICK n : n = Len(q)
    OBVIOUS
  <1>4. /\ n \in Nat /\ (n = 0 <=> Elements(q) = {}) /\ \A i \in 1..n : q[i] \in Procs /\ q[i] \in Elements(q)
    BY <1>3, ElementsOf
  <1>5. table[p].childProcPtr = procTable[p].childProcPtr
    BY <1>1
  <1>6. NULL \notin Procs
    BY ProgramsAssumption
  <1>7. CASE table[p].childProcPtr = NULL
    <2>1. procTable' = WithHead(table, p, c)
      BY <1>7 DEF Adds, AddChildToList, WithHead
    <2>2. c \in Procs \cup {NULL} /\ table \in [Procs -> ProcEntry]
      BY <1>1
    <2>3. /\ procTable' \in [Procs -> ProcEntry] /\ procTable'[p].childProcPtr = c
          /\ procTable'[p].nextSiblingPtr = table[p].nextSiblingPtr /\ SameOwner(table[p], procTable'[p])
          /\ \A d \in Procs : d # p => procTable'[d] = table[d]
      BY <2>1, <2>2, HeadSet
    <2>4. Kids(p) = {}
      BY <1>5, <1>7, HeadKid
    <2>5. procTable'[c] = e /\ Siblings'[c] = NULL
      <3>1. procTable'[c] = e
        BY <1>1, <2>3
      <3>2. e.nextSiblingPtr = NULL
        BY DEF Adds
      <3>3. QED
        BY <3>1, <3>2, SiblingsNext
    <2>6. PICK r \in Seq(Procs) : IsChain(r, c, Siblings', NULL) /\ Elements(r) = {c}
      BY <2>5, OnlyKid
    <2>7. KidsLinked(p)'
      BY <2>3, <2>4, <2>6 DEF KidsLinked
    <2>8. \A d \in Procs : d # c => SameOwner(procTable[d], procTable'[d])
      BY <1>1, <2>3 DEF SameOwner
    <2>9. QED
      BY <1>1, <2>3, <2>5, <2>7, <2>8
  <1>8. CASE table[p].childProcPtr # NULL
    <2>1. n # 0 /\ n \in 1..n
      BY <1>2, <1>3, <1>4, <1>5, <1>8 DEF IsChain
    <2>2. Listed(p) = Elements(q)
      BY <1>2, ListedIs
    <2>3. \A i \in 1..n : q[i] # c /\ table[q[i]].nextSiblingPtr = Siblings[q[i]]
      BY <1>1, <1>2, <1>4, SiblingsAre
    <2>4. PICK last : last = CHOOSE x \in Listed(p) : table[x].nextSiblingPtr = NULL
      OBVIOUS
    <2>5. \A i \in 1..n : Siblings[q[i]] = NULL <=> i = n
      BY <1>2, <1>3, <1>6, ChainLinks
    <2>6. last = q[n]
      <3>1. q[n] \in Listed(p) /\ table[q[n]].nextSiblingPtr = NULL
        BY <1>4, <2>1, <2>2, <2>3, <2>5
      <3>2. last \in Listed(p) /\ table[last].nextSiblingPtr = NULL
        BY <2>4, <3>1
      <3>3. PICK i \in 1..n : last = q[i]
        BY <1>3, <2>2, <3>2 DEF Elements
      <3>4. QED
        BY <2>3, <2>5, <3>2, <3>3
    <2>7. last \in Procs /\ last # c /\ last \in Kids(p)
      BY <1>2, <1>4, <2>1, <2>3, <2>6
    <2>8. procTable' = WithNext(table, last, c)
      BY <1>8, <2>4 DEF Adds, AddChildToList, WithNext
    <2>9. /\ procTable' \in [Procs -> ProcEntry] /\ procTable'[last].nextSiblingPtr = c
          /\ procTable'[last].childProcPtr = table[last].childProcPtr
          /\ SameOwner(table[last], procTable'[last])
          /\ \A d \in Procs : d # last => procTable'[d] = table[d]
      <3>1. table \in [Procs -> ProcEntry] /\ c \in Procs \cup {NULL} /\ last \in Procs
        BY <1>1, <2>7
      <3>2. QED
        BY <2>8, <3>1, NextSet
    <2>10. procTable'[c] = e /\ Siblings'[c] = NULL /\ Siblings'[last] = c
      <3>1. procTable'[c] = e
        BY <1>1, <2>7, <2>9
      <3>2. e.nextSiblingPtr = NULL
        BY DEF Adds
      <3>3. QED
        BY <2>7, <2>9, <3>1, <3>2, SiblingsNext
    <2>11. \A i \in 1..n : i # n => Siblings'[q[i]] = Siblings[q[i]]
      <3>1. \A i \in 1..n : i # n => q[i] # last
        BY <1>2, <1>3, <2>1, <2>6 DEF IsChain
      <3>2. \A i \in 1..n : i # n => procTable'[q[i]].nextSiblingPtr = Siblings[q[i]]
        BY <1>4, <2>3, <2>9, <3>1
      <3>3. \A i \in 1..n : Siblings'[q[i]] = procTable'[q[i]].nextSiblingPtr
        BY <1>4, SiblingsNext
      <3>4. QED
        BY <1>4, <3>2, <3>3
    <2>12. PutBehind(q, n, c, Siblings, Siblings')
      BY <1>3, <2>1, <2>5, <2>6, <2>10, <2>11 DEF PutBehind
    <2>13. /\ Inserted(q, n, c) \in Seq(Procs)
           /\ IsChain(Inserted(q, n, c), procTable[p].childProcPtr, Siblings', NULL)
      <3>1. n \in 1..Len(q) /\ c \notin Elements(q)
        BY <1>2, <1>3, <2>1
      <3>2. IsChain(q, procTable[p].childProcPtr, Siblings, NULL)
        BY <1>2
      <3>3. QED
        BY <2>12, <3>1, <3>2, ChainGrows
    <2>14. Elements(Inserted(q, n, c)) = Kids(p) \cup {c}
      BY <1>2, <1>3, <2>1, GrownElements
    <2>15. \A d \in Procs : d # c => procTable'[d].childProcPtr = procTable[d].childProcPtr
      BY <1>1, <2>7, <2>9
    <2>16. KidsLinked(p)'
      BY <2>13, <2>14, <2>15 DEF KidsLinked
    <2>17. \A d \in Procs : d # c => SameOwner(procTable[d], procTable'[d])
      BY <1>1, <2>9 DEF SameOwner
    <2>18. \A d \in Procs \ Kids(p) : d # c => procTable'[d].nextSiblingPtr = procTable[d].nextSiblingPtr
      BY <1>1, <2>7, <2>9
    <2>19. QED
      BY <2>9, <2>10, <2>15, <2>16, <2>17, <2>18
  <1>9. QED
    BY <1>7, <1>8

LEMMA HeadGone ==
  ASSUME NEW q \in Seq(Procs), NEW p, NEW next, IsChain(q, p, next, NULL), Len(q) # 0
  PROVE  \E r \in Seq(Procs) : IsChain(r, next[p], next, NULL) /\ Elements(r) = Elements(q) \ {p}
  <1>1. PICK r : r = Tail(q)
    OBVIOUS
  <1>2. r \in Seq(Procs) /\ IsChain(r, next[p], next, NULL) /\ Elements(r) = Elements(q) \ {p}
    BY <1>1, ProgramsAssumption, ChainLosesHead
  <1>3. QED
    BY <1>2

Drops(p, b, table) ==
    /\ p \in Kids(b) /\ procTable[p].parentPtr = b
    /\ table = Unlinked(p)
    /\ procTable' = Freed(p, table)

LEMMA Dropped ==
  ASSUME UserShape, NEW b \in Procs, NEW p \in Procs, KidsLinked(b),
         NEW table, Drops(p, b, table), Kids(b)' = Kids(b) \ {p}
  PROVE  /\ procTable' \in [Procs -> ProcEntry]
         /\ \A d \in Procs : SameOwner(procTable[d], procTable'[d])
         /\ \A d \in Procs : d # b => procTable'[d].childProcPtr = procTable[d].childProcPtr
         /\ \A d \in Procs \ Kids(b) : procTable'[d].nextSiblingPtr = procTable[d].nextSiblingPtr
         /\ KidsLinked(b)'
  <1>1. PICK q \in Seq(Procs) : /\ IsChain(q, procTable[b].childProcPtr, Siblings, NULL)
                                /\ Elements(q) = Kids(b)
    BY DEF KidsLinked
  <1>2. PICK n : n = Len(q)
    OBVIOUS
  <1>3. /\ n \in Nat /\ (n = 0 <=> Elements(q) = {}) /\ \A i \in 1..n : q[i] \in Procs /\ q[i] \in Elements(q)
    BY <1>2, ElementsOf
  <1>4. p \in Kids(b) /\ NULL \notin Procs /\ procTable \in [Procs -> ProcEntry]
    BY ProgramsAssumption DEF Drops, UserShape
  <1>5. PICK x : x = procTable[p].nextSiblingPtr
    OBVIOUS
  <1>6. x \in Procs \cup {NULL} /\ Siblings[p] = x
    BY <1>4, <1>5, SiblingsAre DEF ProcEntry
  <1>7. table = RemoveFromChildList(p, b)
    BY <1>4 DEF Drops, Unlinked
  <1>8. /\ table \in [Procs -> ProcEntry]
        /\ \A d \in Procs : SameOwner(procTable[d], table[d])
        /\ \A d \in Procs : d # b => table[d].childProcPtr = procTable[d].childProcPtr
        /\ \A d \in Procs \ Kids(b) : table[d].nextSiblingPtr = procTable[d].nextSiblingPtr
        /\ \E r \in Seq(Procs) :
              /\ Elements(r) = Kids(b) \ {p}
              /\ \A next : (\A d \in Procs : next[d] = table[d].nextSiblingPtr)
                              => IsChain(r, table[b].childProcPtr, next, NULL)
    <2>1. CASE procTable[b].childProcPtr = p
      <3>1. table = WithHead(procTable, b, x)
        BY <1>5, <1>7, <2>1 DEF RemoveFromChildList, WithHead
      <3>2. /\ table \in [Procs -> ProcEntry] /\ table[b].childProcPtr = x
            /\ table[b].nextSiblingPtr = procTable[b].nextSiblingPtr /\ SameOwner(procTable[b], table[b])
            /\ \A d \in Procs : d # b => table[d] = procTable[d]
        BY <1>4, <1>6, <3>1, HeadSet
      <3>3. IsChain(q, p, Siblings, NULL)
        BY <1>1, <2>1
      <3>4. Len(q) # 0
        BY <1>1, <1>2, <1>3, <1>4
      <3>5. PICK r \in Seq(Procs) : IsChain(r, Siblings[p], Siblings, NULL)
                                   /\ Elements(r) = Elements(q) \ {p}
        BY <3>3, <3>4, HeadGone
      <3>6. \A d \in Procs : table[d].nextSiblingPtr = Siblings[d]
        BY <3>2, SiblingsAre
      <3>7. ASSUME NEW next, \A d \in Procs : next[d] = table[d].nextSiblingPtr
            PROVE  IsChain(r, table[b].childProcPtr, next, NULL)
        <4>1. \A i \in 1..Len(r) : r[i] \in Procs
          BY <3>5, ElementsOf
        <4>2. \A i \in 1..Len(r) : next[r[i]] = Siblings[r[i]]
          BY <3>6, <3>7, <4>1
        <4>3. IsChain(r, x, Siblings, NULL)
          BY <1>6, <3>5
        <4>4. IsChain(r, x, next, NULL)
          BY <4>2, <4>3, ChainOfSameLinks
        <4>5. QED
          BY <3>2, <4>4
      <3>8. \A d \in Procs : SameOwner(procTable[d], table[d])
        BY <3>2 DEF SameOwner
      <3>9. QED
        BY <1>1, <3>2, <3>5, <3>7, <3>8
    <2>2. CASE procTable[b].childProcPtr # p
      <3>1. PICK k \in 1..n : p = q[k]
        BY <1>1, <1>2, <1>4 DEF Elements
      <3>2. k # 1 /\ k - 1 \in 1..n
        BY <1>1, <1>2, <1>3, <2>2, <3>1 DEF IsChain
      <3>3. Listed(b) = Elements(q)
        BY <1>1, ListedIs
      <3>4. \A i \in 1..n : procTable[q[i]].nextSiblingPtr = Siblings[q[i]]
        BY <1>3, SiblingsAre
      <3>5. \A i \in 1..n : Siblings[q[i]] = p <=> i = k - 1
        <4>1. ASSUME NEW i \in 1..n PROVE Siblings[q[i]] = q[k] <=> k = i + 1
          BY <1>1, <1>2, <1>4, <3>1, ChainLinks
        <4>2. QED
          BY <1>3, <3>1, <4>1
      <3>6. PICK before : before = CHOOSE y \in Listed(b) : procTable[y].nextSiblingPtr = p
        OBVIOUS
      <3>7. before = q[k - 1]
        <4>1. q[k - 1] \in Listed(b) /\ procTable[q[k - 1]].nextSiblingPtr = p
          BY <1>3, <3>2, <3>3, <3>4, <3>5
        <4>2. before \in Listed(b) /\ procTable[before].nextSiblingPtr = p
          BY <3>6, <4>1
        <4>3. PICK i \in 1..n : before = q[i]
          BY <1>2, <3>3, <4>2 DEF Elements
        <4>4. QED
          BY <3>4, <3>5, <4>2, <4>3
      <3>8. before \in Procs /\ before \in Kids(b)
        BY <1>1, <1>3, <3>2, <3>7
      <3>9. table = WithNext(procTable, before, x)
        BY <1>5, <1>7, <2>2, <3>6 DEF RemoveFromChildList, WithNext
      <3>10. /\ table \in [Procs -> ProcEntry] /\ table[before].nextSiblingPtr = x
             /\ table[before].childProcPtr = procTable[before].childProcPtr
             /\ SameOwner(procTable[before], table[before])
             /\ \A d \in Procs : d # before => table[d] = procTable[d]
        BY <1>4, <1>6, <3>8, <3>9, NextSet
      <3>11. PICK r : r = Removed(q, k)
        OBVIOUS
      <3>12. ASSUME NEW next, \A d \in Procs : next[d] = table[d].nextSiblingPtr
             PROVE  /\ r \in Seq(Procs) /\ IsChain(r, procTable[b].childProcPtr, next, NULL)
                    /\ Elements(r) = Elements(q) \ {q[k]}
        <4>1. next[q[k - 1]] = Siblings[q[k]]
          BY <1>6, <3>1, <3>7, <3>8, <3>10, <3>12
        <4>2. ASSUME NEW i \in 1..n, i # k - 1 PROVE next[q[i]] = Siblings[q[i]]
          <5>1. q[i] # before
            BY <1>1, <1>2, <3>2, <3>7, <4>2 DEF IsChain
          <5>2. QED
            BY <1>3, <3>4, <3>10, <3>12, <5>1
        <4>3. IsChain(q, procTable[b].childProcPtr, Siblings, NULL) /\ k \in 1..Len(q)
          BY <1>1, <1>2
        <4>4. \A i \in 1..Len(q) : i # k - 1 => next[q[i]] = Siblings[q[i]]
          BY <1>2, <4>2
        <4>5. k # 1
          BY <3>2
        <4>6. /\ Removed(q, k) \in Seq(Procs)
              /\ IsChain(Removed(q, k), procTable[b].childProcPtr, next, NULL)
              /\ Elements(Removed(q, k)) = Elements(q) \ {q[k]}
          <5>1. TakenOut(Procs, q, k, procTable[b].childProcPtr, Siblings, next, NULL)
            BY <4>1, <4>3, <4>4, <4>5 DEF TakenOut
          <5>2. QED
            BY <5>1, ChainLoses
        <4>7. QED
          BY <3>11, <4>6
      <3>13. PICK next : next = [d \in Procs |-> table[d].nextSiblingPtr]
        OBVIOUS
      <3>14. r \in Seq(Procs) /\ Elements(r) = Kids(b) \ {p}
        BY <1>1, <3>1, <3>12, <3>13
      <3>15. table[b].childProcPtr = procTable[b].childProcPtr
        BY <3>10
      <3>16. \A d \in Procs : SameOwner(procTable[d], table[d])
        BY <3>10 DEF SameOwner
      <3>17. \A d \in Procs : d # b => table[d].childProcPtr = procTable[d].childProcPtr
        BY <3>10
      <3>18. \A d \in Procs \ Kids(b) : table[d].nextSiblingPtr = procTable[d].nextSiblingPtr
        BY <3>8, <3>10
      <3>19. QED
        BY <3>10, <3>12, <3>14, <3>15, <3>16, <3>17, <3>18
    <2>3. QED
      BY <2>1, <2>2
  <1>9. procTable' \in [Procs -> ProcEntry] /\ SameLinks(table, procTable')
    <2>1. procTable' = [table EXCEPT ![p].status = "EMPTY"]
      BY DEF Drops, Freed
    <2>2. table \in [Procs -> ProcEntry]
      BY <1>8
    <2>3. QED
      BY <2>1, <2>2, StatusSet
  <1>10. PICK r \in Seq(Procs) :
              /\ Elements(r) = Kids(b) \ {p}
              /\ \A next : (\A d \in Procs : next[d] = table[d].nextSiblingPtr)
                              => IsChain(r, table[b].childProcPtr, next, NULL)
    BY <1>8
  <1>11. \A d \in Procs : Siblings'[d] = table[d].nextSiblingPtr
    <2>1. \A d \in Procs : Siblings'[d] = procTable'[d].nextSiblingPtr
      BY SiblingsNext
    <2>2. QED
      BY <1>9, <2>1 DEF SameLinks
  <1>12. IsChain(r, procTable'[b].childProcPtr, Siblings', NULL)
    <2>1. PICK next : next = Siblings'
      OBVIOUS
    <2>2. \A d \in Procs : next[d] = table[d].nextSiblingPtr
      BY <1>11, <2>1
    <2>3. IsChain(r, table[b].childProcPtr, next, NULL)
      BY <1>10, <2>2
    <2>4. procTable'[b].childProcPtr = table[b].childProcPtr
      BY <1>9 DEF SameLinks
    <2>5. QED
      BY <2>1, <2>3, <2>4
  <1>13. KidsLinked(b)'
    BY <1>10, <1>12 DEF KidsLinked
  <1>14. QED
    BY <1>8, <1>9, <1>13 DEF SameLinks, SameOwner
-----------------------------------------------------------------------------
(* A child that has quit is freed.                                         *)
LEMMA ZeroIs ==
  /\ ZeroProc \in KernelEntry /\ ZeroProc.state = "none" /\ ZeroProc.parent = NULL
  /\ ZeroProc.zappers = {} /\ ZeroProc.func = NULL
  BY DEF ZeroProc, KernelEntry

LEMMA JoinedKeepsInv ==
  ASSUME ProcsInv, NEW p \in Procs, Joined(p)
  PROVE  ProcsInv' /\ (ZapInv => ZapInv')
  <1>1. /\ Running(p) /\ at[p].step = "joining" /\ UNCHANGED <<runs, spawned, halted>>
        /\ procTable' = [procTable EXCEPT ![p].status = "ACTIVE"]
        /\ Goes(p, "user")
        /\ \E c \in Dead(p) : kernel' = [kernel EXCEPT ![c] = ZeroProc]
    BY DEF Joined, Stands
  <1>2. PICK c \in Dead(p) : kernel' = [kernel EXCEPT ![c] = ZeroProc]
    BY <1>1
  <1>3. /\ "user" \in Steps /\ {"joining", "user"} \cap (Launching \cup Spawning) = {}
    BY DEF Steps, Launching, Spawning
  <1>4. /\ at' \in [Procs -> Places] /\ at'[p].step = "user" /\ at'[p].child = NULL
        /\ \A d \in Procs : d # p => at'[d] = at[d]
    BY <1>1, <1>3, GoesTo
  <1>5. at[p].child = NULL
    BY <1>1, <1>3, Waiters
  <1>6. /\ c \in Procs /\ kernel[c].state = "quit" /\ kernel[c].parent = p /\ ~Alive(c)
        /\ kernel[p].state = "ready" /\ c # p /\ halted = "no"
    BY <1>1, <1>2, Waiters DEF Dead, Children, Alive
  <1>7. c # Root
    BY <1>6, ProgramsAssumption DEF ProcsInv, Kin
  <1>8. /\ kernel' \in [Procs -> KernelEntry] /\ kernel'[c] = ZeroProc
        /\ \A d \in Procs : d # c => kernel'[d] = kernel[d]
    BY <1>1, <1>2, <1>6, Waiters, ZeroIs
  <1>9. \A d \in Procs : Alive(d)' <=> Alive(d)
    BY <1>6, <1>8, ZeroIs DEF Alive
  <1>10. procTable' \in [Procs -> ProcEntry] /\ SameLinks(procTable, procTable')
    <2>1. procTable \in [Procs -> ProcEntry]
      BY <1>1, Waiters
    <2>2. QED
      BY <1>1, <2>1, StatusSet
  <1>11. UserShape'
    BY <1>1, <1>4, <1>8, <1>10, Waiters DEF UserShape
  <1>12. \A d \in Procs : at'[d].child = at[d].child
    BY <1>4, <1>5
  <1>13. Kin'
    <2>1. ASSUME NEW d \in Procs
          PROVE  /\ kernel'[d].state = "none" \/ d = Root => kernel'[d].parent = NULL
                 /\ kernel'[d].state # "none" /\ d # Root =>
                       kernel'[d].parent \in Procs \ {d} /\ Alive(kernel[d].parent)'
                 /\ Alive(d)' => kernel'[d].zappers \subseteq {kernel'[d].parent}
      <3>1. CASE d = c
        BY <1>6, <1>7, <1>8, <1>9, <3>1, ZeroIs
      <3>2. CASE d # c
        <4>1. kernel'[d] = kernel[d] /\ (Alive(d)' <=> Alive(d))
          BY <1>8, <1>9, <3>2
        <4>2. /\ kernel[d].state = "none" \/ d = Root => kernel[d].parent = NULL
              /\ kernel[d].state # "none" /\ d # Root =>
                       kernel[d].parent \in Procs \ {d} /\ Alive(kernel[d].parent)
              /\ Alive(d) => kernel[d].zappers \subseteq {kernel[d].parent}
          BY DEF ProcsInv, Kin
        <4>3. ASSUME kernel[d].parent \in Procs, Alive(kernel[d].parent) PROVE Alive(kernel[d].parent)'
          <5>1. kernel[d].parent # c
            BY <1>6, <4>3
          <5>2. kernel'[kernel[d].parent] = kernel[kernel[d].parent]
            BY <1>8, <4>3, <5>1
          <5>3. QED
            BY <4>1, <4>3, <5>2 DEF Alive
        <4>4. QED
          BY <4>1, <4>2, <4>3
      <3>3. QED
        BY <3>1, <3>2
    <2>2. QED
      BY <2>1 DEF Kin, Alive
  <1>14. Births'
    <2>1. ASSUME NEW d \in Procs
          PROVE  /\ at'[d].child # NULL <=> at'[d].step \in Spawning
                 /\ at'[d].child # NULL =>
                       /\ Alive(d)' /\ Alive(at[d].child)' /\ kernel'[at'[d].child].parent = d
                       /\ halted' = "no" => at'[at'[d].child].step \in Launching
      <3>1. CASE d = p
        BY <1>3, <1>4, <3>1
      <3>2. CASE d # p
        <4>1. at'[d] = at[d]
          BY <1>4, <3>2
        <4>2. CASE at[d].child = NULL
          BY <4>1, <4>2 DEF ProcsInv, Births
        <4>3. CASE at[d].child # NULL
          <5>1. PICK b : b = at[d].child
            OBVIOUS
          <5>2. b \in Procs
            BY <1>1, <4>3, <5>1, Waiters DEF Places
          <5>3. Alive(d) /\ Alive(b) /\ kernel[b].parent = d /\ at[b].step \in Launching
                /\ at[d].step \in Spawning
            BY <1>6, <4>3, <5>1 DEF ProcsInv, Births
          <5>4. b # p /\ b # c
            BY <1>1, <1>3, <1>6, <5>3
          <5>5. kernel'[b] = kernel[b] /\ at'[b] = at[b]
            BY <1>4, <1>8, <5>2, <5>4
          <5>6. at'[d].child = b /\ at'[d].step \in Spawning /\ Alive(d)'
            BY <1>9, <4>1, <5>1, <5>3
          <5>7. Alive(b)' /\ kernel'[b].parent = d /\ at'[b].step \in Launching
            BY <5>3, <5>5 DEF Alive
          <5>8. Alive(at[d].child)'
            BY <5>6, <5>7 DEF Alive
          <5>9. QED
            BY <4>3, <5>1, <5>6, <5>7, <5>8
        <4>4. QED
          BY <4>2, <4>3
      <3>3. QED
        BY <3>1, <3>2
    <2>2. QED
      BY <2>1 DEF Births, Alive
  <1>15. \A d \in Procs : Children(d)' \subseteq Children(d)
    BY <1>8, ZeroIs DEF Children
  <1>16. Unborn'
    <2>1. ASSUME NEW d \in Procs
          PROVE  /\ at'[d].step \in Launching => runs'[d] = NULL /\ d # Root /\ Children(d)' = {}
                 /\ ~Alive(d)' => runs'[d] = NULL
      <3>1. at'[d].step \in Launching => at[d].step \in Launching
        BY <1>3, <1>4
      <3>2. QED
        BY <1>1, <1>9, <1>15, <3>1 DEF ProcsInv, Unborn
    <2>2. QED
      BY <2>1 DEF Unborn
  <1>17. Registered'
    <2>1. ASSUME NEW d \in Procs \ {Root}, Alive(d)', ~Unregistered(d)'
          PROVE  procTable'[d].parentPtr = kernel'[d].parent /\ procTable'[d].userFunc = kernel'[d].func
      <3>1. Alive(d) /\ d # c /\ ~Unregistered(d)
        BY <1>6, <1>9, <1>12, <2>1 DEF Unregistered
      <3>2. kernel'[d] = kernel[d]
        BY <1>8, <3>1
      <3>3. QED
        BY <1>10, <3>1, <3>2 DEF ProcsInv, Registered, SameLinks
    <2>2. procTable'[Root].parentPtr = NULL /\ kernel'[Root].state # "none"
      BY <1>7, <1>8, <1>10, ProcsAssumption DEF ProcsInv, Registered, SameLinks
    <2>3. QED
      BY <2>1, <2>2 DEF Registered
  <1>18. \A d \in Procs : Kids(d)' = Kids(d)
    BY <1>6, <1>8, <1>9, <1>12 DEF Kids
  <1>19. \A d \in Procs : KidsLinked(d)'
    <2>1. ASSUME NEW d \in Procs PROVE KidsLinked(d)'
      <3>1. KidsLinked(d) /\ Kids(d)' = Kids(d)
        BY <1>18 DEF ProcsInv
      <3>2. \A b \in Kids(d) : procTable'[b].nextSiblingPtr = procTable[b].nextSiblingPtr
        BY <1>10 DEF SameLinks, Kids
      <3>3. procTable'[d].childProcPtr = procTable[d].childProcPtr
        BY <1>10 DEF SameLinks
      <3>4. QED
        BY <3>1, <3>2, <3>3, LinksStay
    <2>2. QED
      BY <2>1
  <1>20. RunsItsFunction'
    <2>1. \A d \in Procs : runs'[d] = runs[d]
      BY <1>1
    <2>2. runs[c] = NULL
      BY <1>6 DEF ProcsInv, Unborn
    <2>3. QED
      BY <1>1, <1>8, <2>1, <2>2 DEF ProcsInv, RunsItsFunction
  <1>21. ProcsInv'
    BY <1>1, <1>11, <1>13, <1>14, <1>16, <1>17, <1>19, <1>20 DEF ProcsInv
  <1>22. ASSUME ZapInv PROVE ZapInv'
    <2>1. \A d \in Procs : kernel[d].zappers \subseteq Procs
      BY <1>1, Waiters DEF KernelEntry
    <2>2. ASSUME NEW d \in Procs, Alive(d)', NEW q \in kernel'[d].zappers
          PROVE  /\ kernel'[q].state = "zap"
                 /\ \A r \in Procs : Alive(r)' /\ q \in kernel'[r].zappers => r = d
      <3>1. d # c /\ Alive(d) /\ q \in kernel[d].zappers
        BY <1>6, <1>8, <1>9, <2>2
      <3>2. /\ kernel[q].state = "zap" /\ q \in Procs
            /\ \A r \in Procs : Alive(r) /\ q \in kernel[r].zappers => r = d
        BY <1>22, <2>1, <3>1 DEF ZapInv
      <3>3. q # c
        BY <1>6, <3>2
      <3>4. QED
        BY <1>6, <1>8, <1>9, <3>2, <3>3
    <2>3. \A d \in Procs \ {Root} : Alive(d)' /\ at'[d].step = "terminate" => Children(d)' = {}
      <3>1. ASSUME NEW d \in Procs \ {Root}, Alive(d)', at'[d].step = "terminate" PROVE Children(d) = {}
        <4>1. d # p
          BY <1>4, <3>1
        <4>2. Alive(d) /\ at[d].step = "terminate"
          BY <1>4, <1>9, <3>1, <4>1
        <4>3. QED
          BY <1>22, <4>2 DEF ZapInv
      <3>2. QED
        BY <1>15, <3>1
    <2>4. QED
      BY <1>1, <1>22, <2>2, <2>3 DEF ZapInv
  <1>23. QED
    BY <1>21, <1>22
-----------------------------------------------------------------------------
(* The parent fills the entry of the child and links it.                   *)
LEMMA NoKids ==
  ASSUME NEW c \in Procs, procTable[c].childProcPtr = NULL, Kids(c) = {}
  PROVE  KidsLinked(c)
  <1>1. PICK q : q = <<>>
    OBVIOUS
  <1>2. q \in Seq(Procs) /\ Len(q) = 0
    BY <1>1
  <1>3. Elements(q) = {} /\ IsChain(q, NULL, Siblings, NULL)
    BY <1>2 DEF Elements, IsChain
  <1>4. QED
    BY <1>2, <1>3 DEF KidsLinked

LEMMA NoKidsNext ==
  ASSUME NEW c \in Procs
  PROVE  (procTable[c].childProcPtr = NULL /\ Kids(c) = {} => KidsLinked(c))'
  <1>1. procTable[c].childProcPtr = NULL /\ Kids(c) = {} => KidsLinked(c)
    BY NoKids
  <1>2. QED
    BY <1>1, PTL

LEMMA FilledIs ==
  ASSUME UserShape, NEW p \in Procs, NEW c \in Procs, NEW e, e = Filled(p, c, procTable[c].mboxID)
  PROVE  /\ e \in ProcEntry /\ e.nextSiblingPtr = NULL /\ e.childProcPtr = NULL
         /\ e.parentPtr = p /\ e.userFunc = kernel[c].func
  <1>1. procTable[c] \in ProcEntry /\ kernel[c] \in KernelEntry
    BY DEF UserShape
  <1>2. procTable[c].mboxID \in {"none", "parent", "child"} /\ kernel[c].func \in Funcs \cup {NULL}
    BY <1>1 DEF ProcEntry, KernelEntry
  <1>3. QED
    BY <1>2 DEF Filled, ProcEntry

LEMMA RegisterKeepsInv ==
  ASSUME ProcsInv, NEW p \in Procs, Register(p)
  PROVE  ProcsInv' /\ (ZapInv => ZapInv')
  <1>1. PICK c : c = at[p].child
    OBVIOUS
  <1>2. PICK table : table = [procTable EXCEPT ![c] = Filled(p, c, @.mboxID)]
    OBVIOUS
  <1>3. /\ Running(p) /\ at[p].step = "entered" /\ UNCHANGED <<runs, spawned>>
        /\ procTable' = AddChildToList(p, c, table)
        /\ kernel' = kernel \/ (kernel' = [kernel EXCEPT ![c].state = "ready"] /\ kernel[c].state = "receive")
        /\ halted' \in {"no", "wakeUpLost"} /\ Goes(p, "user")
    BY <1>1, <1>2 DEF Register, Stands
  <1>4. /\ {"user", "entered"} \subseteq Steps /\ "user" \notin Launching \cup Spawning
        /\ "entered" \in Spawning /\ "entered" \notin Launching
    BY DEF Steps, Launching, Spawning
  <1>5. /\ at' \in [Procs -> Places] /\ at'[p].step = "user" /\ at'[p].child = NULL
        /\ \A d \in Procs : d # p => at'[d] = at[d]
    BY <1>3, <1>4, GoesTo
  <1>6. c # NULL /\ c \in Procs /\ halted = "no"
    BY <1>1, <1>3, <1>4, Waiters DEF Places
  <1>7. Alive(c) /\ Alive(p) /\ kernel[c].parent = p /\ at[c].step \in Launching
    BY <1>1, <1>6 DEF ProcsInv, Births
  <1>8. c # p /\ c # Root /\ Children(c) = {}
    BY <1>3, <1>4, <1>6, <1>7 DEF ProcsInv, Unborn
  <1>9. /\ kernel' \in [Procs -> KernelEntry]
        /\ \A d \in Procs : \/ kernel'[d].state = kernel[d].state
                            \/ kernel[d].state = "receive" /\ kernel'[d].state = "ready"
        /\ \A d \in Procs : /\ kernel'[d].parent = kernel[d].parent /\ kernel'[d].func = kernel[d].func
                            /\ kernel'[d].zappers = kernel[d].zappers
    <2>1. CASE kernel' = kernel
      BY <1>3, <2>1, Waiters
    <2>2. CASE kernel' = [kernel EXCEPT ![c].state = "ready"] /\ kernel[c].state = "receive"
      <3>1. /\ kernel' \in [Procs -> KernelEntry] /\ kernel'[c].state = "ready"
            /\ \A d \in Procs : d # c => kernel'[d].state = kernel[d].state
            /\ \A d \in Procs : /\ kernel'[d].parent = kernel[d].parent
                                /\ kernel'[d].func = kernel[d].func
                                /\ kernel'[d].zappers = kernel[d].zappers
        BY <1>3, <1>6, <2>2, StateTo
      <3>2. QED
        BY <2>2, <3>1
    <2>3. QED
      BY <1>3, <2>1, <2>2
  <1>10. FamiliesStay
    <2>1. \A d \in Procs : /\ kernel'[d].state = "none" <=> kernel[d].state = "none"
                           /\ kernel'[d].state = "quit" <=> kernel[d].state = "quit"
      BY <1>9
    <2>2. QED
      BY <1>9, <2>1 DEF FamiliesStay
  <1>11. \A d \in Procs : (Alive(d)' <=> Alive(d)) /\ Children(d)' = Children(d)
    BY <1>10 DEF FamiliesStay, Alive, Children
  <1>12. \A d \in Procs : at[d].child = c <=> d = p
    BY <1>1, <1>6, <1>7 DEF ProcsInv, Births
  <1>13. \A d \in Procs \ {c} : Unregistered(d)' <=> Unregistered(d)
    BY <1>1, <1>5, <1>6, ProgramsAssumption DEF Unregistered
  <1>14. Kids(p)' = Kids(p) \cup {c} /\ c \notin Kids(p) /\ \A d \in Procs : d # p => Kids(d)' = Kids(d)
    <2>1. \A d, b \in Procs : (kernel'[b].parent = d /\ Alive(b)') <=> (kernel[b].parent = d /\ Alive(b))
      BY <1>9, <1>11
    <2>2. \A d \in Procs : d # p => at'[d].child = at[d].child
      BY <1>5
    <2>3. \A b \in Procs : at[p].child # b <=> b # c
      BY <1>1
    <2>4. \A b \in Procs : at'[p].child # b
      BY <1>5, ProgramsAssumption
    <2>5. Kids(p)' = Kids(p) \cup {c}
      <3>1. \A b \in Procs : b \in Kids(p)' <=> kernel[b].parent = p /\ Alive(b)
        BY <2>1, <2>4 DEF Kids
      <3>2. \A b \in Procs : b \in Kids(p) <=> kernel[b].parent = p /\ Alive(b) /\ b # c
        BY <2>3 DEF Kids
      <3>3. Kids(p)' \subseteq Procs /\ Kids(p) \subseteq Procs
        BY DEF Kids
      <3>4. QED
        BY <1>6, <1>7, <3>1, <3>2, <3>3
    <2>6. ASSUME NEW d \in Procs, d # p PROVE Kids(d)' = Kids(d)
      BY <2>1, <2>2, <2>6 DEF Kids
    <2>7. c \notin Kids(p)
      BY <1>1 DEF Kids
    <2>8. QED
      BY <2>5, <2>6, <2>7
  <1>15. PICK e : e = Filled(p, c, procTable[c].mboxID)
    OBVIOUS
  <1>16. /\ e \in ProcEntry /\ e.nextSiblingPtr = NULL /\ e.childProcPtr = NULL
         /\ e.parentPtr = p /\ e.userFunc = kernel[c].func
    BY <1>3, <1>6, <1>15, FilledIs, Waiters
  <1>17. Adds(p, c, e, table)
    <2>1. table = [procTable EXCEPT ![c] = e]
      BY <1>2, <1>15
    <2>2. QED
      BY <1>3, <1>16, <2>1 DEF Adds
  <1>18. /\ procTable' \in [Procs -> ProcEntry] /\ procTable'[c] = e
         /\ \A d \in Procs : d # c => SameOwner(procTable[d], procTable'[d])
         /\ \A d \in Procs \ {p, c} : procTable'[d].childProcPtr = procTable[d].childProcPtr
         /\ \A d \in Procs \ Kids(p) : d # c => procTable'[d].nextSiblingPtr = procTable[d].nextSiblingPtr
         /\ KidsLinked(p)'
    BY <1>6, <1>8, <1>14, <1>17, Added DEF ProcsInv
  <1>19. UserShape'
    BY <1>3, <1>5, <1>9, <1>18, Waiters DEF UserShape
  <1>20. Kin'
    <2>1. ASSUME NEW d \in Procs
          PROVE  /\ kernel'[d].state = "none" \/ d = Root => kernel'[d].parent = NULL
                 /\ kernel'[d].state # "none" /\ d # Root =>
                       kernel'[d].parent \in Procs \ {d} /\ Alive(kernel[d].parent)'
                 /\ Alive(d)' => kernel'[d].zappers \subseteq {kernel'[d].parent}
      <3>1. /\ kernel[d].state = "none" \/ d = Root => kernel[d].parent = NULL
            /\ kernel[d].state # "none" /\ d # Root =>
                     kernel[d].parent \in Procs \ {d} /\ Alive(kernel[d].parent)
            /\ Alive(d) => kernel[d].zappers \subseteq {kernel[d].parent}
        BY DEF ProcsInv, Kin
      <3>2. /\ kernel'[d].parent = kernel[d].parent /\ kernel'[d].zappers = kernel[d].zappers
            /\ kernel'[d].state = "none" <=> kernel[d].state = "none"
            /\ Alive(d)' <=> Alive(d)
        BY <1>9, <1>10, <1>11 DEF FamiliesStay
      <3>3. PICK b : b = kernel[d].parent
        OBVIOUS
      <3>4. b \in Procs /\ Alive(b) => Alive(b)'
        BY <1>11
      <3>5. Alive(b)' => Alive(kernel[d].parent)'
        BY <3>2, <3>3 DEF Alive
      <3>6. QED
        BY <3>1, <3>2, <3>3, <3>4, <3>5
    <2>2. QED
      BY <1>9, <2>1 DEF Kin, Alive
  <1>21. Births'
    <2>1. ASSUME NEW d \in Procs
          PROVE  /\ at'[d].child # NULL <=> at'[d].step \in Spawning
                 /\ at'[d].child # NULL =>
                       /\ Alive(d)' /\ Alive(at[d].child)' /\ kernel'[at'[d].child].parent = d
                       /\ halted' = "no" => at'[at'[d].child].step \in Launching
      <3>1. CASE d = p
        BY <1>4, <1>5, <3>1
      <3>2. CASE d # p
        <4>1. at'[d] = at[d]
          BY <1>5, <3>2
        <4>2. CASE at[d].child = NULL
          BY <4>1, <4>2 DEF ProcsInv, Births
        <4>3. CASE at[d].child # NULL
          <5>1. PICK b : b = at[d].child
            OBVIOUS
          <5>2. b \in Procs
            BY <1>3, <4>3, <5>1, Waiters DEF Places
          <5>3. Alive(d) /\ Alive(b) /\ kernel[b].parent = d /\ at[b].step \in Launching
                /\ at[d].step \in Spawning
            BY <1>6, <4>3, <5>1 DEF ProcsInv, Births
          <5>4. b # p
            BY <1>3, <1>4, <5>3
          <5>5. at'[b] = at[b] /\ Alive(b)' /\ kernel'[b].parent = d
            BY <1>5, <1>9, <1>11, <5>2, <5>3, <5>4
          <5>6. at'[d].child = b /\ at'[d].step \in Spawning /\ Alive(d)'
            BY <1>11, <4>1, <5>1, <5>3
          <5>7. at'[b].step \in Launching
            BY <5>3, <5>5
          <5>8. Alive(at[d].child)'
            BY <5>5, <5>6 DEF Alive
          <5>9. QED
            BY <4>3, <5>1, <5>5, <5>6, <5>7, <5>8
        <4>4. QED
          BY <4>2, <4>3
      <3>3. QED
        BY <3>1, <3>2
    <2>2. QED
      BY <2>1 DEF Births, Alive
  <1>22. Unborn'
    <2>1. ASSUME NEW d \in Procs
          PROVE  /\ at'[d].step \in Launching => runs'[d] = NULL /\ d # Root /\ Children(d)' = {}
                 /\ ~Alive(d)' => runs'[d] = NULL
      <3>1. at'[d].step \in Launching => at[d].step \in Launching
        BY <1>4, <1>5
      <3>2. QED
        BY <1>3, <1>11, <3>1 DEF ProcsInv, Unborn
    <2>2. QED
      BY <2>1 DEF Unborn
  <1>23. Registered'
    <2>1. ASSUME NEW d \in Procs \ {Root}, Alive(d)', ~Unregistered(d)'
          PROVE  procTable'[d].parentPtr = kernel'[d].parent /\ procTable'[d].userFunc = kernel'[d].func
      <3>1. CASE d = c
        BY <1>7, <1>9, <1>16, <1>18, <3>1
      <3>2. CASE d # c
        <4>1. Alive(d) /\ ~Unregistered(d)
          BY <1>11, <1>13, <2>1, <3>2
        <4>2. procTable[d].parentPtr = kernel[d].parent /\ procTable[d].userFunc = kernel[d].func
          BY <4>1 DEF ProcsInv, Registered
        <4>3. SameOwner(procTable[d], procTable'[d])
          BY <1>18, <3>2
        <4>4. QED
          BY <1>9, <4>2, <4>3 DEF SameOwner
      <3>3. QED
        BY <3>1, <3>2
    <2>2. procTable'[Root].parentPtr = NULL /\ kernel'[Root].state # "none"
      <3>1. procTable[Root].parentPtr = NULL /\ kernel[Root].state # "none" /\ Root \in Procs
        BY ProcsAssumption DEF ProcsInv, Registered
      <3>2. SameOwner(procTable[Root], procTable'[Root])
        BY <1>8, <1>18, <3>1
      <3>3. QED
        BY <1>9, <3>1, <3>2 DEF SameOwner
    <2>3. QED
      BY <2>1, <2>2 DEF Registered
  <1>24. \A d \in Procs : KidsLinked(d)'
    <2>1. ASSUME NEW d \in Procs PROVE KidsLinked(d)'
      <3>1. CASE d = p
        BY <1>18, <3>1
      <3>2. CASE d = c
        <4>1. procTable'[c].childProcPtr = NULL
          BY <1>16, <1>18
        <4>2. Kids(c)' = {}
          <5>1. Kids(c)' = Kids(c)
            BY <1>6, <1>8, <1>14
          <5>2. \A b \in Procs : ~(kernel[b].parent = c /\ Alive(b))
            BY <1>8 DEF Children, Alive
          <5>3. QED
            BY <5>1, <5>2 DEF Kids
        <4>3. QED
          BY <1>6, <3>2, <4>1, <4>2, NoKidsNext
      <3>3. CASE d # p /\ d # c
        <4>1. KidsLinked(d) /\ Kids(d)' = Kids(d)
          BY <1>14, <3>3 DEF ProcsInv
        <4>2. \A b \in Kids(d) : b \in Procs /\ b \notin Kids(p) /\ b # c
          BY <1>7, <3>3 DEF Kids
        <4>3. \A b \in Kids(d) : procTable'[b].nextSiblingPtr = procTable[b].nextSiblingPtr
          BY <1>18, <4>2
        <4>4. procTable'[d].childProcPtr = procTable[d].childProcPtr
          BY <1>18, <3>3
        <4>5. QED
          BY <4>1, <4>3, <4>4, LinksStay
      <3>4. QED
        BY <3>1, <3>2, <3>3
    <2>2. QED
      BY <2>1
  <1>25. RunsItsFunction'
    <2>1. \A d \in Procs : runs'[d] = runs[d] /\ kernel'[d].func = kernel[d].func
      BY <1>3, <1>9
    <2>2. QED
      BY <1>6, <2>1 DEF ProcsInv, RunsItsFunction
  <1>26. ProcsInv'
    BY <1>3, <1>19, <1>20, <1>21, <1>22, <1>23, <1>24, <1>25 DEF ProcsInv, Survived
  <1>27. ASSUME ZapInv PROVE ZapInv'
    <2>1. /\ halted' # "zapsTwice" /\ UserShape
          /\ \A d \in Procs : kernel[d].state = "zap" => kernel'[d].state = "zap"
          /\ \A d \in Procs \ {Root} : at'[d].step = "terminate" =>
               at[d].step = "terminate" \/ Children(d) = {}
      BY <1>3, <1>5, <1>9, Waiters
    <2>2. QED
      BY <1>9, <1>10, <1>27, <2>1, MildZap
  <1>28. QED
    BY <1>26, <1>27
-----------------------------------------------------------------------------
(* A process ends.                                                         *)
Wakes(p, q) == \/ q \in kernel[p].zappers
               \/ q = kernel[p].parent /\ (kernel[q].state = "join" \/ Dead(p) # {})

SameKin(k, k2) == k2.parent = k.parent /\ k2.func = k.func /\ k2.zappers = k.zappers

WithState(k, s) == [k EXCEPT !.state = s]

LEMMA StateOf ==
  ASSUME NEW k \in KernelEntry, NEW s, s \in {"ready", "quit"}, NEW k2, k2 = WithState(k, s)
  PROVE  k2 \in KernelEntry /\ k2.state = s /\ SameKin(k, k2)
  BY DEF KernelEntry, SameKin, WithState

LEMMA QuitDoes ==
  ASSUME ProcsInv, NEW p \in Procs, Running(p), kernel' = AfterQuit(p)
  PROVE  /\ kernel' \in [Procs -> KernelEntry]
         /\ kernel'[p].state = "quit" /\ SameKin(kernel[p], kernel'[p])
         /\ \A q \in Dead(p) : q # p /\ kernel'[q] = ZeroProc
         /\ \A q \in Procs \ Dead(p) : q # p =>
              \/ kernel'[q] = kernel[q]
              \/ /\ Wakes(p, q) /\ Alive(q) /\ kernel'[q].state = "ready"
                 /\ SameKin(kernel[q], kernel'[q])
  <1>1. /\ kernel[p].state = "ready" /\ Alive(p) /\ \A q \in Procs : kernel[q] \in KernelEntry
    BY Waiters
  <1>2. p \notin Dead(p)
    BY <1>1 DEF Dead
  <1>3. \A q \in Procs : q \in kernel[p].zappers => Alive(q)
    <2>1. ASSUME NEW q \in Procs, q \in kernel[p].zappers PROVE Alive(q)
      <3>1. q = kernel[p].parent
        BY <1>1, <2>1 DEF ProcsInv, Kin
      <3>2. p # Root /\ kernel[p].state # "none"
        BY <1>1, <2>1, <3>1, ProgramsAssumption DEF ProcsInv, Kin
      <3>3. QED
        BY <3>1, <3>2 DEF ProcsInv, Kin
    <2>2. QED
      BY <2>1
  <1>4. ASSUME NEW q \in Procs
        PROVE  /\ kernel'[q] \in KernelEntry
               /\ q = p => kernel'[p].state = "quit" /\ SameKin(kernel[p], kernel'[p])
               /\ q \in Dead(p) => kernel'[q] = ZeroProc
               /\ q # p /\ q \notin Dead(p) =>
                     \/ kernel'[q] = kernel[q]
                     \/ /\ Wakes(p, q) /\ Alive(q) /\ kernel'[q].state = "ready"
                        /\ SameKin(kernel[q], kernel'[q])
    <2>1. CASE q = p
      <3>1. kernel'[q] = WithState(kernel[p], "quit")
        BY <2>1 DEF AfterQuit, WithState
      <3>2. QED
        BY <1>1, <1>2, <2>1, <3>1, StateOf
    <2>2. CASE q \in Dead(p)
      <3>1. kernel'[q] = ZeroProc
        BY <1>2, <2>2 DEF AfterQuit
      <3>2. QED
        BY <1>2, <2>2, <3>1, ZeroIs
    <2>3. CASE q # p /\ q \notin Dead(p)
      <3>1. \/ kernel'[q] = kernel[q]
            \/ /\ kernel'[q] = WithState(kernel[q], "ready")
               /\ \/ q \in kernel[p].zappers
                  \/ q = kernel[p].parent /\ (kernel[q].state = "join" \/ (Dead(p) # {} /\ Alive(q)))
        BY <2>3 DEF AfterQuit, WithState
      <3>2. CASE kernel'[q] = kernel[q]
        BY <1>1, <2>3, <3>2
      <3>3. CASE /\ kernel'[q] = WithState(kernel[q], "ready")
                 /\ \/ q \in kernel[p].zappers
                    \/ q = kernel[p].parent /\ (kernel[q].state = "join" \/ (Dead(p) # {} /\ Alive(q)))
        <4>1. Wakes(p, q)
          BY <3>3 DEF Wakes
        <4>2. Alive(q)
          BY <1>3, <3>3 DEF Alive
        <4>3. kernel'[q] \in KernelEntry /\ kernel'[q].state = "ready" /\ SameKin(kernel[q], kernel'[q])
          BY <1>1, <3>3, StateOf
        <4>4. QED
          BY <2>3, <4>1, <4>2, <4>3
      <3>4. QED
        BY <3>1, <3>2, <3>3
    <2>4. QED
      BY <2>1, <2>2, <2>3
  <1>5. kernel' \in [Procs -> KernelEntry]
    <2>1. DOMAIN kernel' = Procs /\ kernel' = [q \in Procs |-> kernel'[q]]
      BY DEF AfterQuit
    <2>2. QED
      BY <1>4, <2>1
  <1>6. Dead(p) \subseteq Procs
    BY DEF Dead, Children
  <1>7. QED
    BY <1>2, <1>4, <1>5, <1>6

LEMMA EndsBy ==
  ASSUME ProcsInv, NEW p \in Procs, TerminateEnds(p)
  PROVE  /\ Running(p) /\ at[p].step = "terminate" /\ at[p].child = NULL
         /\ halted = "no" /\ halted' = "no" /\ spawned' = spawned
         /\ kernel' = AfterQuit(p) /\ procTable' = Freed(p, Unlinked(p)) /\ Goes(p, "user")
         /\ runs' = [runs EXCEPT ![p] = NULL]
         /\ Children(p) = Dead(p) /\ Kids(p) = {}
  <1>1. /\ Running(p) /\ at[p].step = "terminate" /\ spawned' = spawned
        /\ procTable[p].childProcPtr = NULL
        /\ procTable' = Freed(p, Unlinked(p)) /\ Goes(p, "user")
        /\ runs' = [runs EXCEPT ![p] = NULL]
        /\ \/ (\E c \in Children(p) : Alive(c))
           \/ (kernel' = AfterQuit(p) /\ halted' = halted)
    BY DEF TerminateEnds, Stands
  <1>2. at[p].child = NULL /\ halted = "no"
    <2>1. "terminate" \notin Spawning
      BY DEF Spawning
    <2>2. QED
      BY <1>1, <2>1, Waiters
  <1>3. Kids(p) = {}
    BY <1>1, HeadKid DEF ProcsInv
  <1>4. \A c \in Children(p) : ~Alive(c)
    BY <1>2, <1>3, ProgramsAssumption DEF Kids, Children
  <1>5. Children(p) = Dead(p)
    BY <1>4 DEF Dead, Children, Alive
  <1>6. QED
    BY <1>1, <1>2, <1>3, <1>4, <1>5

LEMMA EndsKeepsInv ==
  ASSUME ProcsInv, NEW p \in Procs, TerminateEnds(p)
  PROVE  ProcsInv' /\ (ZapInv => ZapInv')
  <1>1. /\ Running(p) /\ at[p].step = "terminate" /\ at[p].child = NULL
        /\ halted = "no" /\ halted' = "no" /\ spawned' = spawned
        /\ kernel' = AfterQuit(p) /\ procTable' = Freed(p, Unlinked(p)) /\ Goes(p, "user")
        /\ runs' = [runs EXCEPT ![p] = NULL]
        /\ Children(p) = Dead(p) /\ Kids(p) = {}
    BY EndsBy
  <1>2. PICK b : b = kernel[p].parent
    OBVIOUS
  <1>3. /\ {"user", "terminate"} \subseteq Steps
        /\ {"user", "terminate"} \cap (Launching \cup Spawning) = {}
    BY DEF Steps, Launching, Spawning
  <1>4. /\ at' \in [Procs -> Places] /\ at'[p].step = "user" /\ at'[p].child = NULL
        /\ \A d \in Procs : d # p => at'[d] = at[d]
    BY <1>1, <1>3, GoesTo
  <1>5. kernel[p].state = "ready" /\ Alive(p) /\ UserShape /\ runs \in [Procs -> Funcs \cup {NULL}]
    BY <1>1, Waiters
  <1>6. /\ kernel' \in [Procs -> KernelEntry]
        /\ kernel'[p].state = "quit" /\ SameKin(kernel[p], kernel'[p])
        /\ \A q \in Dead(p) : q # p /\ kernel'[q] = ZeroProc
        /\ \A q \in Procs \ Dead(p) : q # p =>
             \/ kernel'[q] = kernel[q]
             \/ /\ Wakes(p, q) /\ Alive(q) /\ kernel'[q].state = "ready"
                /\ SameKin(kernel[q], kernel'[q])
    BY <1>1, QuitDoes
  <1>7. \A d \in Dead(p) : d \in Procs /\ kernel[d].parent = p /\ ~Alive(d) /\ kernel[d].state = "quit"
    BY DEF Dead, Children, Alive
  <1>8. \A d \in Procs \ Dead(p) : SameKin(kernel[d], kernel'[d])
    BY <1>6 DEF SameKin
  <1>9. \A d \in Procs : Alive(d)' <=> Alive(d) /\ d # p
    <2>1. ASSUME NEW d \in Procs PROVE Alive(d)' <=> Alive(d) /\ d # p
      <3>1. CASE d = p
        BY <1>6, <3>1 DEF Alive
      <3>2. CASE d \in Dead(p)
        BY <1>6, <1>7, <3>2, ZeroIs DEF Alive
      <3>3. CASE d # p /\ d \notin Dead(p)
        BY <1>6, <3>3 DEF Alive
      <3>4. QED
        BY <3>1, <3>2, <3>3
    <2>2. QED
      BY <2>1
  <1>10. \A d \in Procs \ Dead(p) : kernel'[d].state = "none" <=> kernel[d].state = "none"
    <2>1. ASSUME NEW d \in Procs \ Dead(p) PROVE kernel'[d].state = "none" <=> kernel[d].state = "none"
      <3>1. CASE d = p
        BY <1>5, <1>6, <3>1
      <3>2. CASE d # p
        BY <1>6, <3>2 DEF Alive
      <3>3. QED
        BY <3>1, <3>2
    <2>2. QED
      BY <2>1
  <1>11. \A d \in Procs : Children(d)' \subseteq Children(d) \ Dead(p)
    <2>1. ASSUME NEW d \in Procs, NEW c \in Children(d)' PROVE c \in Children(d) \ Dead(p)
      <3>1. c \in Procs /\ kernel'[c].parent = d /\ kernel'[c].state # "none"
        BY DEF Children
      <3>2. c \notin Dead(p)
        BY <1>6, <3>1, ZeroIs
      <3>3. QED
        BY <1>8, <1>10, <3>1, <3>2 DEF Children, SameKin
    <2>2. QED
      BY <2>1
  <1>12. \A d \in Procs : kernel[d].parent = p /\ kernel[d].state # "none" => d \in Dead(p)
    BY <1>1 DEF Children
  <1>13. \A d \in Procs : at'[d].child = at[d].child
    BY <1>1, <1>4
  <1>14. \A d \in Procs : Kids(d)' = Kids(d) \ {p}
    <2>1. \A d, c \in Procs : Alive(c) => (kernel'[c].parent = d <=> kernel[c].parent = d)
      BY <1>7, <1>8 DEF SameKin
    <2>2. \A d, c \in Procs : c \in Kids(d)' <=> c \in Kids(d) \ {p}
      BY <1>9, <1>13, <2>1 DEF Kids
    <2>3. \A d \in Procs : Kids(d) \subseteq Procs /\ Kids(d)' \subseteq Procs
      BY DEF Kids
    <2>4. QED
      BY <2>2, <2>3
  <1>15. /\ procTable' \in [Procs -> ProcEntry]
         /\ \A d \in Procs : SameOwner(procTable[d], procTable'[d])
         /\ \A d \in Procs : KidsLinked(d)'
    <2>1. CASE p = Root
      <3>1. procTable[p].parentPtr = NULL /\ kernel[p].parent = NULL
        BY <2>1, ProcsAssumption DEF ProcsInv, Registered, Kin
      <3>2. procTable' = [procTable EXCEPT ![p].status = "EMPTY"]
        BY <1>1, <3>1 DEF Freed, Unlinked
      <3>3. procTable \in [Procs -> ProcEntry]
        BY <1>5 DEF UserShape
      <3>4. procTable' \in [Procs -> ProcEntry] /\ SameLinks(procTable, procTable')
        BY <3>2, <3>3, StatusSet
      <3>5. \A d \in Procs : p \notin Kids(d)
        BY <3>1, ProgramsAssumption DEF Kids
      <3>6. ASSUME NEW d \in Procs PROVE KidsLinked(d)'
        <4>1. KidsLinked(d) /\ Kids(d)' = Kids(d)
          BY <1>14, <3>5 DEF ProcsInv
        <4>2. \A c \in Kids(d) : procTable'[c].nextSiblingPtr = procTable[c].nextSiblingPtr
          BY <3>4 DEF SameLinks, Kids
        <4>3. procTable'[d].childProcPtr = procTable[d].childProcPtr
          BY <3>4 DEF SameLinks
        <4>4. QED
          BY <4>1, <4>2, <4>3, LinksStay
      <3>7. QED
        BY <3>4, <3>6 DEF SameLinks, SameOwner
    <2>2. CASE p # Root
      <3>1. b \in Procs \ {p} /\ Alive(b)
        BY <1>2, <1>5, <2>2 DEF ProcsInv, Kin, Alive
      <3>2. \A q \in Procs : at[q].child # p
        <4>1. ASSUME NEW q \in Procs, at[q].child = p PROVE FALSE
          <5>1. at[p].step \in Launching
            BY <1>1, <4>1, ProgramsAssumption DEF ProcsInv, Births
          <5>2. QED
            BY <1>1, <1>3, <5>1
        <4>2. QED
          BY <4>1
      <3>3. procTable[p].parentPtr = b
        BY <1>2, <1>5, <2>2, <3>2 DEF ProcsInv, Registered, Unregistered
      <3>4. p \in Kids(b)
        BY <1>2, <1>5, <3>1, <3>2 DEF Kids
      <3>5. PICK table : table = Unlinked(p)
        OBVIOUS
      <3>6. Drops(p, b, table)
        BY <1>1, <3>3, <3>4, <3>5 DEF Drops
      <3>7. KidsLinked(b) /\ Kids(b)' = Kids(b) \ {p}
        BY <1>14, <3>1 DEF ProcsInv
      <3>8. /\ procTable' \in [Procs -> ProcEntry]
            /\ \A d \in Procs : SameOwner(procTable[d], procTable'[d])
            /\ \A d \in Procs : d # b => procTable'[d].childProcPtr = procTable[d].childProcPtr
            /\ \A d \in Procs \ Kids(b) : procTable'[d].nextSiblingPtr = procTable[d].nextSiblingPtr
            /\ KidsLinked(b)'
        BY <1>5, <3>1, <3>6, <3>7, Dropped
      <3>9. ASSUME NEW d \in Procs, d # b PROVE KidsLinked(d)'
        <4>1. p \notin Kids(d)
          BY <1>2, <3>9 DEF Kids
        <4>2. KidsLinked(d) /\ Kids(d)' = Kids(d)
          BY <1>14, <4>1 DEF ProcsInv
        <4>3. \A c \in Kids(d) : c \in Procs \ Kids(b)
          BY <3>9 DEF Kids
        <4>4. \A c \in Kids(d) : procTable'[c].nextSiblingPtr = procTable[c].nextSiblingPtr
          BY <3>8, <4>3
        <4>5. procTable'[d].childProcPtr = procTable[d].childProcPtr
          BY <3>8, <3>9
        <4>6. QED
          BY <4>2, <4>4, <4>5, LinksStay
      <3>10. QED
        BY <3>8, <3>9
    <2>3. QED
      BY <2>1, <2>2
  <1>16. runs' \in [Procs -> Funcs \cup {NULL}] /\ runs'[p] = NULL
         /\ \A d \in Procs : d # p => runs'[d] = runs[d]
    BY <1>1, <1>5
  <1>17. UserShape'
    BY <1>1, <1>4, <1>5, <1>6, <1>15, <1>16 DEF UserShape
  <1>18. Kin'
    <2>1. ASSUME NEW d \in Procs
          PROVE  /\ kernel'[d].state = "none" \/ d = Root => kernel'[d].parent = NULL
                 /\ kernel'[d].state # "none" /\ d # Root =>
                       kernel'[d].parent \in Procs \ {d} /\ Alive(kernel[d].parent)'
                 /\ Alive(d)' => kernel'[d].zappers \subseteq {kernel'[d].parent}
      <3>1. /\ kernel[d].state = "none" \/ d = Root => kernel[d].parent = NULL
            /\ kernel[d].state # "none" /\ d # Root =>
                     kernel[d].parent \in Procs \ {d} /\ Alive(kernel[d].parent)
            /\ Alive(d) => kernel[d].zappers \subseteq {kernel[d].parent}
        BY DEF ProcsInv, Kin
      <3>2. CASE d \in Dead(p)
        <4>1. d # Root
          BY <1>7, <3>1, <3>2, ProgramsAssumption
        <4>2. kernel'[d].state = "none" /\ kernel'[d].parent = NULL /\ ~Alive(d)'
          BY <1>6, <1>7, <1>9, <3>2, ZeroIs
        <4>3. QED
          BY <4>1, <4>2
      <3>3. CASE d \notin Dead(p)
        <4>1. kernel'[d].parent = kernel[d].parent /\ kernel'[d].zappers = kernel[d].zappers
          BY <1>8, <3>3 DEF SameKin
        <4>2. kernel'[d].state = "none" <=> kernel[d].state = "none"
          BY <1>10, <3>3
        <4>3. PICK c : c = kernel[d].parent
          OBVIOUS
        <4>4. kernel[d].state # "none" => c # p
          BY <1>12, <3>3, <4>3
        <4>5. c \in Procs /\ Alive(c) /\ c # p => Alive(c)'
          BY <1>9
        <4>6. Alive(c)' => Alive(kernel[d].parent)'
          BY <4>1, <4>3 DEF Alive
        <4>7. Alive(d)' => Alive(d)
          BY <1>9
        <4>8. QED
          BY <3>1, <4>1, <4>2, <4>3, <4>4, <4>5, <4>6, <4>7
      <3>4. QED
        BY <3>2, <3>3
    <2>2. \A d \in Procs : Alive(d)' => d \notin Dead(p)
      BY <1>7, <1>9
    <2>3. ASSUME NEW d \in Procs, kernel'[d].state # "none" PROVE kernel'[d].parent = kernel[d].parent
      BY <1>6, <1>8, <2>3, ZeroIs DEF SameKin
    <2>4. QED
      BY <2>1, <2>3 DEF Kin, Alive
  <1>19. Births'
    <2>1. ASSUME NEW d \in Procs
          PROVE  /\ at'[d].child # NULL <=> at'[d].step \in Spawning
                 /\ at'[d].child # NULL =>
                       /\ Alive(d)' /\ Alive(at[d].child)' /\ kernel'[at'[d].child].parent = d
                       /\ halted' = "no" => at'[at'[d].child].step \in Launching
      <3>1. CASE d = p
        BY <1>3, <1>4, <3>1
      <3>2. CASE d # p
        <4>1. at'[d] = at[d]
          BY <1>4, <3>2
        <4>2. CASE at[d].child = NULL
          BY <4>1, <4>2 DEF ProcsInv, Births
        <4>3. CASE at[d].child # NULL
          <5>1. PICK c : c = at[d].child
            OBVIOUS
          <5>2. c \in Procs
            BY <1>5, <4>3, <5>1 DEF UserShape, Places
          <5>3. Alive(d) /\ Alive(c) /\ kernel[c].parent = d /\ at[c].step \in Launching
                /\ at[d].step \in Spawning
            BY <1>1, <4>3, <5>1 DEF ProcsInv, Births
          <5>4. c # p /\ c \notin Dead(p)
            BY <1>1, <1>3, <1>7, <5>3
          <5>5. at'[c] = at[c] /\ Alive(c)' /\ kernel'[c].parent = d
            BY <1>4, <1>8, <1>9, <5>2, <5>3, <5>4 DEF SameKin
          <5>6. at'[d].child = c /\ at'[d].step \in Spawning /\ Alive(d)'
            BY <1>9, <3>2, <4>1, <5>1, <5>3
          <5>7. at'[c].step \in Launching
            BY <5>3, <5>5
          <5>8. Alive(at[d].child)'
            BY <5>5, <5>6 DEF Alive
          <5>9. QED
            BY <4>3, <5>1, <5>5, <5>6, <5>7, <5>8
        <4>4. QED
          BY <4>2, <4>3
      <3>3. QED
        BY <3>1, <3>2
    <2>2. QED
      BY <2>1 DEF Births, Alive
  <1>20. Unborn'
    <2>1. ASSUME NEW d \in Procs
          PROVE  /\ at'[d].step \in Launching => runs'[d] = NULL /\ d # Root /\ Children(d)' = {}
                 /\ ~Alive(d)' => runs'[d] = NULL
      <3>1. CASE d = p
        BY <1>3, <1>4, <1>16, <3>1
      <3>2. CASE d # p
        BY <1>4, <1>9, <1>11, <1>16, <3>2 DEF ProcsInv, Unborn
      <3>3. QED
        BY <3>1, <3>2
    <2>2. QED
      BY <2>1 DEF Unborn
  <1>21. Registered'
    <2>1. ASSUME NEW d \in Procs \ {Root}, Alive(d)', ~Unregistered(d)'
          PROVE  procTable'[d].parentPtr = kernel'[d].parent /\ procTable'[d].userFunc = kernel'[d].func
      <3>1. Alive(d) /\ d \notin Dead(p) /\ ~Unregistered(d)
        BY <1>7, <1>9, <1>13, <2>1 DEF Unregistered
      <3>2. SameKin(kernel[d], kernel'[d]) /\ SameOwner(procTable[d], procTable'[d])
        BY <1>8, <1>15, <3>1
      <3>3. QED
        BY <3>1, <3>2 DEF ProcsInv, Registered, SameKin, SameOwner
    <2>2. procTable'[Root].parentPtr = NULL /\ kernel'[Root].state # "none"
      <3>1. /\ procTable[Root].parentPtr = NULL /\ kernel[Root].state # "none" /\ Root \in Procs
            /\ kernel[Root].parent = NULL
        BY ProcsAssumption DEF ProcsInv, Registered, Kin
      <3>2. Root \notin Dead(p)
        BY <1>7, <3>1, ProgramsAssumption
      <3>3. QED
        BY <1>10, <1>15, <3>1, <3>2 DEF SameOwner
    <2>3. QED
      BY <2>1, <2>2 DEF Registered
  <1>22. RunsItsFunction'
    <2>1. ASSUME NEW d \in Procs \ {Root} PROVE runs'[d] \in {NULL, kernel'[d].func}
      <3>1. CASE d = p
        BY <1>16, <3>1
      <3>2. CASE d \in Dead(p)
        BY <1>6, <1>7, <1>16, <3>2 DEF ProcsInv, Unborn
      <3>3. CASE d # p /\ d \notin Dead(p)
        BY <1>1, <1>8, <1>16, <3>3 DEF ProcsInv, RunsItsFunction, SameKin
      <3>4. QED
        BY <3>1, <3>2, <3>3
    <2>2. QED
      BY <2>1 DEF RunsItsFunction
  <1>23. ProcsInv'
    BY <1>1, <1>15, <1>17, <1>18, <1>19, <1>20, <1>21, <1>22 DEF ProcsInv
  <1>24. ASSUME ZapInv PROVE ZapInv'
    <2>1. \A d \in Procs : kernel[d].zappers \subseteq Procs
      BY <1>5 DEF UserShape, KernelEntry
    <2>2. Dead(p) # {} => b = NULL
      <3>1. CASE p = Root
        BY <1>2, <3>1 DEF ProcsInv, Kin
      <3>2. CASE p # Root
        BY <1>1, <1>5, <1>24, <3>2 DEF ZapInv
      <3>3. QED
        BY <3>1, <3>2
    <2>3. ASSUME NEW d \in Procs, Alive(d)', NEW q \in kernel'[d].zappers
          PROVE  /\ kernel'[q].state = "zap"
                 /\ \A r \in Procs : Alive(r)' /\ q \in kernel'[r].zappers => r = d
      <3>1. Alive(d) /\ d # p /\ d \notin Dead(p)
        BY <1>7, <1>9, <2>3
      <3>2. q \in kernel[d].zappers /\ q \in Procs
        BY <1>8, <2>1, <2>3, <3>1 DEF SameKin
      <3>3. /\ kernel[q].state = "zap"
            /\ \A r \in Procs : Alive(r) /\ q \in kernel[r].zappers => r = d
        BY <1>24, <3>1, <3>2 DEF ZapInv
      <3>4. q # p /\ q \notin Dead(p)
        BY <1>5, <1>7, <3>3
      <3>5. q \notin kernel[p].zappers
        BY <1>5, <3>1, <3>3
      <3>6. ~Wakes(p, q)
        BY <1>2, <2>2, <3>2, <3>3, <3>5, ProgramsAssumption DEF Wakes
      <3>7. kernel'[q] = kernel[q]
        BY <1>6, <3>2, <3>4, <3>6
      <3>8. \A r \in Procs : Alive(r)' => Alive(r) /\ kernel'[r].zappers = kernel[r].zappers
        BY <1>7, <1>8, <1>9 DEF SameKin
      <3>9. QED
        BY <3>3, <3>7, <3>8
    <2>4. \A d \in Procs \ {Root} : Alive(d)' /\ at'[d].step = "terminate" => Children(d)' = {}
      <3>1. ASSUME NEW d \in Procs \ {Root}, Alive(d)', at'[d].step = "terminate" PROVE Children(d)' = {}
        <4>1. d # p
          BY <1>4, <3>1
        <4>2. Alive(d) /\ at[d].step = "terminate"
          BY <1>4, <1>9, <3>1, <4>1
        <4>3. QED
          BY <1>11, <1>24, <4>2 DEF ZapInv
      <3>2. QED
        BY <3>1
    <2>5. QED
      BY <1>1, <2>3, <2>4 DEF ZapInv
  <1>25. QED
    BY <1>23, <1>24
-----------------------------------------------------------------------------
(* From the start, and over every step.                                    *)
LEMMA RootIs ==
  ASSUME NEW prio \in Priorities, NEW k, k = NewProc(NULL, NULL, prio)
  PROVE  k \in KernelEntry /\ k.state = "ready" /\ k.parent = NULL /\ k.zappers = {}
  <1>1. k = [state |-> "ready", parent |-> NULL, priority |-> prio, func |-> NULL,
             zapped |-> FALSE, zappers |-> {}]
    BY DEF NewProc, ZeroProc
  <1>2. QED
    BY <1>1 DEF KernelEntry

LEMMA InitHasInv ==
  ASSUME ProcsInit
  PROVE  ProcsInv /\ ZapInv
  <1>1. PICK prio \in Priorities :
            kernel = [p \in Procs |-> IF p = Root THEN NewProc(NULL, NULL, prio) ELSE ZeroProc]
    BY DEF ProcsInit
  <1>2. PICK k : k = NewProc(NULL, NULL, prio)
    OBVIOUS
  <1>3. k \in KernelEntry /\ k.state = "ready" /\ k.parent = NULL /\ k.zappers = {}
    BY <1>2, RootIs
  <1>4. /\ kernel \in [Procs -> KernelEntry] /\ kernel[Root] = k /\ Root \in Procs
        /\ \A p \in Procs : p # Root => kernel[p] = ZeroProc
    BY <1>1, <1>2, <1>3, ZeroIs, ProcsAssumption
  <1>5. PICK e : e = [NoEntry EXCEPT !.status = "ACTIVE"]
    OBVIOUS
  <1>6. /\ e \in ProcEntry /\ NoEntry \in ProcEntry
        /\ \A x \in {e, NoEntry} : x.parentPtr = NULL /\ x.childProcPtr = NULL
    BY <1>5 DEF NoEntry, ProcEntry
  <1>7. procTable \in [Procs -> ProcEntry] /\ \A p \in Procs : procTable[p] \in {e, NoEntry}
    BY <1>5, <1>6 DEF ProcsInit
  <1>8. /\ at \in [Procs -> Places] /\ runs \in [Procs -> Funcs \cup {NULL}]
        /\ \A p \in Procs : at[p].step = "user" /\ at[p].child = NULL /\ runs[p] = NULL
        /\ spawned = 0 /\ halted = "no"
    BY DEF ProcsInit, InUser, Place, Places, Steps
  <1>9. UserShape
    BY <1>4, <1>7, <1>8, ProcsAssumption DEF UserShape
  <1>10. /\ \A p \in Procs : kernel[p].parent = NULL /\ kernel[p].zappers = {}
         /\ \A p \in Procs : Alive(p) => p = Root
         /\ \A p \in Procs : p # Root => kernel[p].state = "none"
    BY <1>3, <1>4, ZeroIs DEF Alive
  <1>11. Kin
    BY <1>10 DEF Kin
  <1>12. Births /\ Unborn
    <2>1. "user" \notin Launching \cup Spawning
      BY DEF Launching, Spawning
    <2>2. QED
      BY <1>8, <2>1 DEF Births, Unborn
  <1>13. Registered
    BY <1>3, <1>4, <1>6, <1>7, <1>10 DEF Registered
  <1>14. RunsItsFunction
    BY <1>8 DEF RunsItsFunction
  <1>15. \A p \in Procs : KidsLinked(p)
    <2>1. \A p \in Procs : procTable[p].childProcPtr = NULL /\ Kids(p) = {}
      BY <1>6, <1>7, <1>10, ProgramsAssumption DEF Kids
    <2>2. QED
      BY <2>1, NoKids
  <1>16. ZapInv
    BY <1>8, <1>10 DEF ZapInv
  <1>17. QED
    BY <1>8, <1>9, <1>11, <1>12, <1>13, <1>14, <1>15, <1>16 DEF ProcsInv, Survived

LEMMA IdleKeepsInv ==
  ASSUME ProcsInv, UNCHANGED upVars
  PROVE  ProcsInv' /\ (ZapInv => ZapInv')
  <1>1. /\ procTable' = procTable /\ kernel' = kernel /\ at' = at /\ runs' = runs
        /\ spawned' = spawned /\ halted' = halted
    BY DEF upVars
  <1>2. UserShape' /\ Kin' /\ Births' /\ Unborn' /\ Registered' /\ RunsItsFunction'
    BY <1>1 DEF ProcsInv, UserShape, Kin, Births, Unborn, Registered, RunsItsFunction, Alive,
                Children, Unregistered
  <1>3. \A p \in Procs : KidsLinked(p)'
    <2>1. ASSUME NEW p \in Procs PROVE KidsLinked(p)'
      <3>1. KidsLinked(p) /\ Kids(p)' = Kids(p)
        BY <1>1 DEF ProcsInv, Kids, Alive
      <3>2. QED
        BY <1>1, <3>1, LinksStay
    <2>2. QED
      BY <2>1
  <1>4. ZapInv => ZapInv'
    BY <1>1 DEF ZapInv, Alive, Children
  <1>5. QED
    BY <1>1, <1>2, <1>3, <1>4 DEF ProcsInv

LEMMA StepKeepsInv ==
  ASSUME ProcsInv, [ProcsNext]_upVars
  PROVE  ProcsInv' /\ (JoinsFirst /\ ZapInv => ZapInv')
  <1>1. CASE UNCHANGED upVars
    BY <1>1, IdleKeepsInv
  <1>2. CASE ProcsNext
    <2>1. PICK p \in Procs : Spawns(p) \/ Wait(p) \/ Terminate(p) \/ ProcsContinue(p)
      BY <1>2 DEF ProcsNext
    <2>2. CASE Spawns(p)
      BY <2>2, ForkKeepsInv DEF Spawns
    <2>3. CASE Wait(p)
      BY <2>3, WaitKeepsInv
    <2>4. CASE Terminate(p)
      BY <2>4, TerminateKeepsInv
    <2>5. CASE LooksAtEntry(p)
      BY <2>5, LooksKeepsInv
    <2>6. CASE EntersMbox(p)
      BY <2>6, EntersKeepsInv
    <2>7. CASE Register(p)
      BY <2>7, RegisterKeepsInv
    <2>8. CASE LaunchEnters(p) \/ LaunchMakesMbox(p)
      BY <2>8, LaunchEntersKeepsInv
    <2>9. CASE LaunchWaits(p)
      BY <2>9, LaunchWaitsKeepsInv
    <2>10. CASE Launch(p)
      BY <2>10, LaunchKeepsInv
    <2>11. CASE Joined(p)
      BY <2>11, JoinedKeepsInv
    <2>12. CASE TerminateZaps(p)
      BY <2>12, ZapsKeepsInv
    <2>13. CASE TerminateEnds(p)
      BY <2>13, EndsKeepsInv
    <2>14. QED
      BY <2>1, <2>2, <2>3, <2>4, <2>5, <2>6, <2>7, <2>8, <2>9, <2>10, <2>11, <2>12, <2>13
         DEF ProcsContinue
  <1>3. QED
    BY <1>1, <1>2

LEMMA ProcsInvAlways == ProcsSpec => []ProcsInv
  <1>1. ProcsInit => ProcsInv
    BY InitHasInv
  <1>2. ProcsInv /\ [ProcsNext]_upVars => ProcsInv'
    BY StepKeepsInv
  <1>3. QED
    BY <1>1, <1>2, PTL DEF ProcsSpec
-----------------------------------------------------------------------------
(* The table, what phase 1 knows of a process and the functions that run   *)
(* keep their types, and no more children are spawned than the bound says. *)
THEOREM ProcsTypeCorrect == ProcsSpec => []ProcsTypeOK
  <1>1. ProcsInv => ProcsTypeOK
    BY DEF ProcsInv, UserShape, ProcsTypeOK, Places
  <1>2. QED
    BY <1>1, ProcsInvAlways, PTL

(* A child runs the function that its parent passed to Spawn, whichever of *)
(* the two ran first, unless a time slice let it run unregistered.         *)
THEOREM TheRightFunction == ProcsSpec => []RunsItsFunction
  <1>1. ProcsInv => RunsItsFunction
    BY DEF ProcsInv
  <1>2. QED
    BY <1>1, ProcsInvAlways, PTL

(* The list of children that Terminate zaps one after the other is the     *)
(* list of those that phase 1 keeps, less those that have quit and the one *)
(* that is being spawned.                                                  *)
THEOREM NoChildUnlisted == ProcsSpec => []ChildrenListed
  <1>1. ASSUME ProcsInv PROVE ChildrenListed
    <2>1. ASSUME NEW p \in Procs
          PROVE  Listed(p) = {c \in Children(p) : Alive(c) /\ at[p].child # c}
      <3>1. Listed(p) = Kids(p)
        BY <1>1, ListedKids DEF ProcsInv
      <3>2. Kids(p) = {c \in Children(p) : Alive(c) /\ at[p].child # c}
        BY DEF Kids, Children, Alive
      <3>3. QED
        BY <3>1, <3>2
    <2>2. QED
      BY <2>1 DEF ChildrenListed
  <1>2. QED
    BY <1>1, ProcsInvAlways, PTL

(* Whatever the programs do, no process zaps one that does not exist and   *)
(* none quits before a child that lives; only zapping twice is left.       *)
THEOREM OnlyTwiceHalts == ProcsSpec => [](halted \notin {"zapsNobody", "activeChildren"})
  <1>1. ProcsInv => halted \notin {"zapsNobody", "activeChildren"}
    BY DEF ProcsInv, Survived
  <1>2. QED
    BY <1>1, ProcsInvAlways, PTL

(* Where all but start3 wait for their children before they terminate, no  *)
(* process halts phase 1: none zaps a process twice or one that does not   *)
(* exist, and none quits before a child.                                   *)
THEOREM NobodyHalts ==
  ASSUME JoinsFirst
  PROVE  ProcsSpec => []NeverHalts
  <1>1. ProcsInit => ProcsInv /\ ZapInv
    BY InitHasInv
  <1>2. ProcsInv /\ ZapInv /\ [ProcsNext]_upVars => (ProcsInv /\ ZapInv)'
    BY StepKeepsInv
  <1>3. ProcsInv /\ ZapInv => NeverHalts
    BY DEF ProcsInv, Survived, ZapInv, NeverHalts, Slipped
  <1>4. QED
    BY <1>1, <1>2, <1>3, PTL DEF ProcsSpec
=============================================================================
