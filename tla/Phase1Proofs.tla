---------------------------- MODULE Phase1Proofs ----------------------------
(* Proofs about Phase1, for every table size and every bound.              *)
(*                                                                         *)
(* The first part is about every program: the types, and that the ready    *)
(* list always lets the dispatcher find a process.  The second is about    *)
(* careful programs, which keep clear of what the code gets wrong: the     *)
(* ready list is exact, the highest priority runs, families are listed,    *)
(* whoever waits in join or zap is woken, and the kernel never crashes.    *)
EXTENDS Phase1, SequenceTheorems, WellFoundedInduction, TLAPS

Processes == Slots \ {SENTINEL}

(* What the ready list relies on in the process table: only the sentinel   *)
(* has the lowest priority, it never blocks, and no link leads to it.      *)
EntryOK(s, e) ==
    /\ e \in ProcStruct
    /\ IF s = SENTINEL
       THEN e.priority = SENTINELPRIORITY /\ e.status \in {"READY", "RUNNING"}
       ELSE e.priority <= 5
    /\ e.parent # SENTINEL /\ e.whoZapped # SENTINEL /\ e.nextWhoZapped # SENTINEL

TableOK(pt) ==
    /\ pt = [s \in Slots |-> pt[s]]
    /\ \A s \in Slots : EntryOK(s, pt[s])

ListOK(rl, pt) ==
    /\ rl \in Seq(Slots)
    /\ rl # <<>>
    /\ rl[Len(rl)] = SENTINEL
    /\ \A i, j \in 1..Len(rl) :
          i < j => rl[i] # rl[j] /\ pt[rl[i]].priority <= pt[rl[j]].priority

(* A slot on the ready list is never free: fork1 does not take it. *)
ListTaken(rl, pt) == \A i \in 1..Len(rl) : pt[rl[i]].status # "EMPTY"

(* What the frames remember of other processes: never the sentinel.        *)
FrameOK(f) ==
    /\ f \in Frames
    /\ f.at = "waking" => f.arg \in Processes
    /\ f.at = "joinReap" => f.arg \in Slots
    /\ f.at = "quitting" => f.arg \in Processes \cup {NULL} /\ f.todo \in Seq(Processes)

FramesOK ==
    /\ frame = [s \in Slots |-> frame[s]]
    /\ \A s \in Slots : FrameOK(frame[s])

ScalarsOK ==
    /\ nextPid \in 3..(MaxPid + MAXPROC + 1)
    /\ intsOn \in BOOLEAN
    /\ halted \in {"no", "completed", "deadlock", "misuse", "crash"}

CurrentOK ==
    /\ Current \in Slots
    /\ Quitting \/ \E i \in 1..Len(ReadyList) : ReadyList[i] = Current

IInv ==
    /\ TableOK(ProcTable)
    /\ ListOK(ReadyList, ProcTable)
    /\ ListTaken(ReadyList, ProcTable)
    /\ FramesOK
    /\ ScalarsOK
    /\ CurrentOK
-----------------------------------------------------------------------------
(* Sequences.                                                              *)

(* A non-empty set of natural numbers has a least element. *)
LEMMA LeastNat ==
    ASSUME NEW T, T \subseteq Nat, T # {}
    PROVE  \E x \in T : \A y \in T : x <= y
<1>1. PICK x \in T : \A y \in T : ~(<<y, x>> \in OpToRel(<, Nat))
  BY WFMin, NatLessThanWellFounded
<1>2. \A y \in T : ~(y < x)
  BY <1>1 DEF OpToRel
<1> QED BY <1>2

(* RemoveFirst takes one occurrence out of a list. *)
LEMMA RemoveFirstSplit ==
    ASSUME NEW S, NEW q \in Seq(S), NEW k \in 1..Len(q)
    PROVE  \E i \in 1..Len(q) :
             /\ q[i] = q[k]
             /\ RemoveFirst(q, q[k]) = SubSeq(q, 1, i - 1) \o SubSeq(q, i + 1, Len(q))
<1> DEFINE I == {i \in 1..Len(q) : q[i] = q[k]}
<1>1. RemoveFirst(q, q[k]) = RemoveAt(q, Min(I))
  BY DEF RemoveFirst, SelectInSeq
<1>2. Min(I) \in I
  <2>1. I # {} /\ I \subseteq Nat
    OBVIOUS
  <2>2. \E x \in I : \A y \in I : x <= y
    BY <2>1, LeastNat
  <2> QED BY <2>2 DEF Min
<1> QED BY <1>1, <1>2 DEF RemoveAt

(* Removing keeps the type, whether or not the element is there. *)
LEMMA RemoveFirstType ==
    ASSUME NEW S, NEW q \in Seq(S), NEW e
    PROVE  RemoveFirst(q, e) \in Seq(S)
<1>1. CASE \E k \in 1..Len(q) : q[k] = e
  <2>1. PICK k \in 1..Len(q) : q[k] = e
    BY <1>1
  <2>2. PICK i \in 1..Len(q) :
            RemoveFirst(q, e) = SubSeq(q, 1, i - 1) \o SubSeq(q, i + 1, Len(q))
    BY <2>1, RemoveFirstSplit
  <2>3. SubSeq(q, 1, i - 1) \in Seq(S) /\ SubSeq(q, i + 1, Len(q)) \in Seq(S)
    BY SubSeqProperties, ElementOfSeq, LenProperties
  <2> QED BY <2>2, <2>3, ConcatProperties
<1>2. CASE ~(\E k \in 1..Len(q) : q[k] = e)
  BY <1>2 DEF RemoveFirst
<1> QED BY <1>1, <1>2

(* What a list with an element between two parts holds. *)
LEMMA ElementBetween ==
    ASSUME NEW S, NEW q \in Seq(S), NEW e \in S, NEW r \in Seq(S)
    PROVE  /\ q \o <<e>> \o r \in Seq(S)
           /\ Len(q \o <<e>> \o r) = Len(q) + 1 + Len(r)
           /\ \A m \in 1..(Len(q) + 1 + Len(r)) :
                 (q \o <<e>> \o r)[m] = IF m <= Len(q) THEN q[m]
                                        ELSE IF m = Len(q) + 1 THEN e ELSE r[m - (Len(q) + 1)]
<1> DEFINE c == q \o <<e>>
<1>1. Len(q) \in Nat /\ Len(r) \in Nat
  OBVIOUS
<1>2. <<e>> \in Seq(S) /\ Len(<<e>>) = 1 /\ <<e>>[1] = e
  OBVIOUS
<1>3. /\ c \in Seq(S) /\ Len(c) = Len(q) + 1
      /\ \A m \in 1..(Len(q) + 1) : c[m] = IF m <= Len(q) THEN q[m] ELSE e
  <2>1. /\ c \in Seq(S) /\ Len(c) = Len(q) + Len(<<e>>)
        /\ \A m \in 1..(Len(q) + Len(<<e>>)) :
              c[m] = IF m <= Len(q) THEN q[m] ELSE <<e>>[m - Len(q)]
    BY <1>2, ConcatProperties
  <2> QED BY <1>1, <1>2, <2>1
<1> HIDE DEF c
<1>4. /\ c \o r \in Seq(S) /\ Len(c \o r) = Len(c) + Len(r)
      /\ \A m \in 1..(Len(c) + Len(r)) :
            (c \o r)[m] = IF m <= Len(c) THEN c[m] ELSE r[m - Len(c)]
  BY <1>3, ConcatProperties
<1>5. \A m \in 1..(Len(q) + 1 + Len(r)) :
         (c \o r)[m] = IF m <= Len(q) THEN q[m]
                       ELSE IF m = Len(q) + 1 THEN e ELSE r[m - (Len(q) + 1)]
  BY <1>1, <1>3, <1>4
<1> QED BY <1>3, <1>4, <1>5 DEF c

-----------------------------------------------------------------------------
(* The ready list.                                                         *)

(* Taking a process off the ready list leaves a ready list without it. *)
LEMMA RemovalKeepsList ==
    ASSUME NEW pt, NEW rl, ListOK(rl, pt), NEW p \in Processes,
           NEW k \in 1..Len(rl), rl[k] = p
    PROVE  LET new == RemoveFromReadyList(rl, p)
           IN /\ ListOK(new, pt)
              /\ \A m \in 1..Len(new) : new[m] # p /\ \E j \in 1..Len(rl) : new[m] = rl[j]
<1> USE DEF ListOK
<1>1. PICK i \in 1..Len(rl) :
         /\ rl[i] = p
         /\ RemoveFromReadyList(rl, p) = SubSeq(rl, 1, i - 1) \o SubSeq(rl, i + 1, Len(rl))
  BY RemoveFirstSplit DEF RemoveFromReadyList
<1>a. PICK a : a = SubSeq(rl, 1, i - 1)
  OBVIOUS
<1>b. PICK b : b = SubSeq(rl, i + 1, Len(rl))
  OBVIOUS
<1>n. PICK new : new = a \o b
  OBVIOUS
<1>2. Len(rl) \in Nat /\ i < Len(rl)
  BY <1>1, LenProperties DEF Processes
<1>3. /\ a \in Seq(Slots) /\ Len(a) = i - 1
      /\ \A m \in 1..(i - 1) : a[m] = rl[m]
  BY <1>2, <1>a, SubSeqProperties, ElementOfSeq
<1>4. /\ b \in Seq(Slots) /\ Len(b) = Len(rl) - i
      /\ \A m \in 1..(Len(rl) - i) : b[m] = rl[m + i]
  BY <1>2, <1>b, SubSeqProperties, ElementOfSeq
<1>5. /\ new \in Seq(Slots) /\ Len(new) = Len(rl) - 1
      /\ \A m \in 1..(Len(rl) - 1) : new[m] = IF m < i THEN rl[m] ELSE rl[m + 1]
  <2>1. /\ new \in Seq(Slots) /\ Len(new) = Len(a) + Len(b)
        /\ \A m \in 1..(Len(a) + Len(b)) :
              new[m] = IF m <= Len(a) THEN a[m] ELSE b[m - Len(a)]
    <3>1. a \in Seq(Slots) /\ b \in Seq(Slots)
      BY <1>3, <1>4
    <3> HIDE DEF ListOK
    <3> QED BY <3>1, <1>n, ConcatProperties
  <2>2. ASSUME NEW m \in 1..(Len(rl) - 1)
        PROVE  new[m] = IF m < i THEN rl[m] ELSE rl[m + 1]
    <3>1. m \in 1..(Len(a) + Len(b)) /\ m \in Nat /\ Len(a) = i - 1
      BY <1>2, <1>3, <1>4
    <3>2. CASE m < i
      <4>1. m \in 1..(i - 1) /\ m <= Len(a)
        BY <3>1, <3>2
      <4> QED BY <1>3, <2>1, <3>1, <3>2, <4>1
    <3>3. CASE ~(m < i)
      <4>1. m - Len(a) \in 1..(Len(rl) - i) /\ (m - Len(a)) + i = m + 1 /\ ~(m <= Len(a))
        BY <1>2, <3>1, <3>3
      <4> QED BY <1>4, <2>1, <3>1, <3>3, <4>1
    <3> QED BY <3>2, <3>3
  <2> QED BY <1>2, <1>3, <1>4, <2>1, <2>2
<1>6. ListOK(new, pt)
  <2>1. new # <<>> /\ new[Len(new)] = SENTINEL
    BY <1>2, <1>5
  <2>2. ASSUME NEW x \in 1..Len(new), NEW y \in 1..Len(new), x < y
        PROVE  new[x] # new[y] /\ pt[new[x]].priority <= pt[new[y]].priority
    <3>1. /\ x \in 1..(Len(rl) - 1) /\ y \in 1..(Len(rl) - 1) /\ x \in 1..Len(rl) /\ y \in 1..Len(rl)
          /\ x + 1 \in 1..Len(rl) /\ y + 1 \in 1..Len(rl)
      BY <1>2, <1>5
    <3>2. CASE y < i
      <4>1. new[x] = rl[x] /\ new[y] = rl[y]
        BY <1>2, <1>5, <2>2, <3>1, <3>2
      <4> QED BY <2>2, <3>1, <4>1
    <3>3. CASE x < i /\ ~(y < i)
      <4>1. new[x] = rl[x] /\ new[y] = rl[y + 1] /\ x < y + 1
        BY <1>5, <2>2, <3>1, <3>3
      <4> QED BY <3>1, <4>1
    <3>4. CASE ~(x < i)
      <4>1. new[x] = rl[x + 1] /\ new[y] = rl[y + 1] /\ x + 1 < y + 1
        BY <1>2, <1>5, <2>2, <3>1, <3>4
      <4> QED BY <3>1, <4>1
    <3> QED BY <1>2, <2>2, <3>1, <3>2, <3>3, <3>4
  <2> QED BY <1>5, <2>1, <2>2
<1>7. \A m \in 1..Len(new) : new[m] # p /\ \E j \in 1..Len(rl) : new[m] = rl[j]
  <2>1. ASSUME NEW m \in 1..Len(new)
        PROVE  \E j \in 1..Len(rl) : new[m] = rl[j] /\ (j < i \/ i < j)
    BY <1>2, <1>5
  <2>2. \A j \in 1..Len(rl) : j < i \/ i < j => rl[j] # p
    BY <1>1
  <2> QED BY <2>1, <2>2
<1> HIDE DEF ListOK
<1>8. new = RemoveFromReadyList(rl, p)
  BY <1>1, <1>a, <1>b, <1>n
<1> QED BY <1>6, <1>7, <1>8

(* A list holds all the elements of another. *)
HoldsAll(made, rl) == \A j \in 1..Len(rl) : \E m \in 1..Len(made) : made[m] = rl[j]

(* Linking a process gives a ready list that holds it and nobody new,      *)
(* whether or not it was linked already; if it was not, nobody is lost.    *)
LEMMA AdditionKeepsList ==
    ASSUME NEW pt, TableOK(pt), NEW rl, ListOK(rl, pt), NEW p \in Processes,
           NEW made, made = AddProcToReadyList(rl, pt, p)
    PROVE  /\ ListOK(made, pt)
           /\ \E m \in 1..Len(made) : made[m] = p
           /\ \A m \in 1..Len(made) : made[m] = p \/ \E j \in 1..Len(rl) : made[m] = rl[j]
           /\ (\A j \in 1..Len(rl) : rl[j] # p) => HoldsAll(made, rl)
<1>n. PICK n : n = Len(rl)
  OBVIOUS
<1>i. PICK i : i = FirstHigher(rl, pt, p)
  OBVIOUS
<1>k. PICK k : k = IF \E j \in 1..n : rl[j] = p
                   THEN (CHOOSE j \in 1..n : rl[j] = p) - 1 ELSE i - 1
  OBVIOUS
<1>a. PICK a : a = SubSeq(rl, 1, k)
  OBVIOUS
<1>b. PICK b : b = SubSeq(rl, i, n)
  OBVIOUS
<1>c. PICK new : new = a \o <<p>> \o b
  OBVIOUS
<1>1. /\ n \in Nat \ {0} /\ rl \in Seq(Slots) /\ rl[n] = SENTINEL
      /\ \A j \in 1..n : rl[j] \in Slots
  BY <1>n, LenProperties, ElementOfSeq, EmptySeq DEF ListOK
<1>2. \A s \in Slots : pt[s].priority \in Int
  BY DEF TableOK, EntryOK, ProcStruct
<1>3. /\ i \in 1..n
      /\ pt[rl[i]].priority > pt[p].priority
      /\ \A j \in 1..(i - 1) : pt[rl[j]].priority <= pt[p].priority
  <2>a. PICK I : I = {j \in 1..n : pt[rl[j]].priority > pt[p].priority}
    OBVIOUS
  <2>1. n \in I /\ I \subseteq Nat
    BY <1>1, <1>2, <2>a DEF TableOK, EntryOK, Processes, SENTINELPRIORITY
  <2>2. PICK x \in I : \A y \in I : x <= y
    BY <2>1, LeastNat
  <2>3. x \in 1..n /\ pt[rl[x]].priority > pt[p].priority
    BY <2>2, <2>a
  <2>4. ASSUME NEW j \in 1..(x - 1) PROVE pt[rl[j]].priority <= pt[p].priority
    <3>1. j \in 1..n /\ ~(x <= j)
      BY <1>1, <2>3
    <3> QED BY <1>1, <1>2, <2>2, <2>a, <3>1 DEF Processes
  <2> QED BY <1>i, <1>n, <2>3, <2>4 DEF FirstHigher
<1>4. /\ k \in 0..(i - 1)
      /\ \A j \in 1..k : rl[j] # p /\ pt[rl[j]].priority <= pt[p].priority
  <2>1. CASE \E j \in 1..n : rl[j] = p
    <3>1. PICK h \in 1..n : rl[h] = p /\ k = h - 1
      BY <1>k, <2>1
    <3>2. \A x, y \in 1..n : x < y => rl[x] # rl[y] /\ pt[rl[x]].priority <= pt[rl[y]].priority
      BY <1>n DEF ListOK
    <3>3. h < i
      BY <1>1, <1>2, <1>3, <3>1, <3>2
    <3> QED BY <1>1, <1>3, <3>1, <3>2, <3>3
  <2>2. CASE ~(\E j \in 1..n : rl[j] = p)
    BY <1>1, <1>3, <1>k, <2>2
  <2> QED BY <2>1, <2>2
<1>5. \A j \in i..n : pt[rl[j]].priority > pt[p].priority /\ rl[j] # p
  BY <1>1, <1>2, <1>3, <1>n DEF ListOK, Processes
<1>t. n \in Nat /\ i \in 1..n /\ k \in Nat /\ k < i
  BY <1>1, <1>3, <1>4
<1>6. a \in Seq(Slots) /\ Len(a) = k /\ \A m \in 1..k : a[m] = rl[m]
  BY <1>1, <1>3, <1>4, <1>a, SubSeqProperties
<1>7. /\ b \in Seq(Slots) /\ Len(b) = n - i + 1
      /\ \A m \in 1..(n - i + 1) : b[m] = rl[i + m - 1]
  BY <1>1, <1>3, <1>b, SubSeqProperties
<1>8. /\ new \in Seq(Slots) /\ Len(new) = k + 1 + (n - i + 1)
      /\ \A m \in 1..Len(new) : new[m] = IF m <= k THEN rl[m]
                                         ELSE IF m = k + 1 THEN p ELSE rl[i + m - k - 2]
  <2>1. /\ a \o <<p>> \o b \in Seq(Slots)
        /\ Len(a \o <<p>> \o b) = Len(a) + 1 + Len(b)
        /\ \A m \in 1..(Len(a) + 1 + Len(b)) :
              (a \o <<p>> \o b)[m] = IF m <= Len(a) THEN a[m]
                                      ELSE IF m = Len(a) + 1 THEN p ELSE b[m - (Len(a) + 1)]
    <3>1. p \in Slots /\ a \in Seq(Slots) /\ b \in Seq(Slots)
      BY <1>6, <1>7 DEF Processes
    <3> QED BY <3>1, ElementBetween
  <2>2. ASSUME NEW m \in 1..(k + 1 + (n - i + 1)), m > k + 1
        PROVE  b[m - (k + 1)] = rl[i + m - k - 2]
    <3>1. m - (k + 1) \in 1..(n - i + 1) /\ i + (m - (k + 1)) - 1 = i + m - k - 2
      BY <1>t, <2>2
    <3> QED BY <1>7, <3>1
  <2> QED BY <1>1, <1>3, <1>4, <1>6, <1>7, <1>c, <2>1, <2>2
<1>9. new = AddProcToReadyList(rl, pt, p)
  BY <1>n, <1>i, <1>k, <1>a, <1>b, <1>c DEF AddProcToReadyList, ListOK
<1>10. ListOK(new, pt)
  <2>1. new # <<>> /\ new[Len(new)] = SENTINEL
    BY <1>1, <1>3, <1>4, <1>8
  <2>2. ASSUME NEW x \in 1..Len(new), NEW y \in 1..Len(new), x < y
        PROVE  new[x] # new[y] /\ pt[new[x]].priority <= pt[new[y]].priority
    <3>1. /\ new[x] = IF x <= k THEN rl[x] ELSE IF x = k + 1 THEN p ELSE rl[i + x - k - 2]
          /\ new[y] = IF y <= k THEN rl[y] ELSE IF y = k + 1 THEN p ELSE rl[i + y - k - 2]
      BY <1>8
    <3>2. /\ x <= k => x \in 1..k /\ x \in 1..n
          /\ y <= k => y \in 1..k /\ y \in 1..n
          /\ x > k + 1 => i + x - k - 2 \in i..n
          /\ y > k + 1 => i + y - k - 2 \in i..n
          /\ i..n \subseteq 1..n /\ k < i /\ k \in Nat
      BY <1>t, <1>8
    <3>3. \A h, j \in 1..n : h < j => rl[h] # rl[j] /\ pt[rl[h]].priority <= pt[rl[j]].priority
      BY <1>n DEF ListOK
    <3>4. /\ p \in Slots
          /\ \A j \in 1..n : rl[j] \in Slots /\ pt[rl[j]].priority \in Int
          /\ pt[p].priority \in Int
      BY <1>1, <1>2 DEF Processes
    <3>5. CASE x <= k
      <4>1. CASE y <= k
        BY <2>2, <3>1, <3>2, <3>3, <3>5, <4>1
      <4>2. CASE y = k + 1
        <5>1. new[x] = rl[x] /\ x \in 1..k /\ new[y] = p
          BY <1>t, <3>1, <3>2, <3>5, <4>2
        <5> QED BY <1>4, <5>1
      <4>3. CASE y > k + 1
        <5>1. new[x] = rl[x] /\ x \in 1..n
          BY <3>1, <3>2, <3>5
        <5>2. PICK j \in i..n : j = i + y - k - 2 /\ new[y] = rl[j]
          BY <1>t, <3>1, <3>2, <4>3
        <5>3. x < j /\ j \in 1..n
          BY <1>t, <3>2, <3>5, <5>1, <5>2
        <5> QED BY <3>3, <5>1, <5>2, <5>3
      <4> QED BY <3>2, <4>1, <4>2, <4>3
    <3>6. CASE x = k + 1
      <4>1. new[x] = p /\ y > k + 1
        BY <1>t, <2>2, <3>1, <3>6
      <4>2. PICK j \in i..n : j = i + y - k - 2 /\ new[y] = rl[j]
        BY <1>t, <3>1, <3>2, <4>1
      <4>3. pt[rl[j]].priority > pt[p].priority /\ rl[j] # p
        BY <1>5
      <4> QED BY <3>2, <3>4, <4>1, <4>2, <4>3
    <3>7. CASE x > k + 1
      <4>1. PICK h \in i..n : h = i + x - k - 2 /\ new[x] = rl[h]
        BY <1>t, <3>1, <3>2, <3>7
      <4>2. PICK j \in i..n : j = i + y - k - 2 /\ new[y] = rl[j]
        BY <1>t, <2>2, <3>1, <3>2, <3>7
      <4>3. h < j
        BY <1>t, <2>2, <4>1, <4>2
      <4> QED BY <3>2, <3>3, <4>1, <4>2, <4>3
    <3> QED BY <3>2, <3>5, <3>6, <3>7
  <2> QED BY <1>8, <2>1, <2>2 DEF ListOK
<1>11. k + 1 \in 1..Len(new) /\ new[k + 1] = p
  <2>1. k + 1 \in 1..Len(new) /\ ~(k + 1 <= k)
    BY <1>t, <1>8
  <2> QED BY <1>8, <2>1
<1>12. \A m \in 1..Len(new) : new[m] = p \/ \E j \in 1..Len(rl) : new[m] = rl[j]
  <2>1. SUFFICES ASSUME NEW m \in 1..Len(new)
                 PROVE  new[m] = p \/ \E j \in 1..n : new[m] = rl[j]
    BY <1>n
  <2>2. CASE m <= k
    <3>1. new[m] = rl[m] /\ m \in 1..n
      BY <1>t, <1>8, <2>2
    <3> QED BY <3>1
  <2>3. CASE m = k + 1
    BY <1>t, <1>8, <2>3
  <2>4. CASE m > k + 1
    <3>1. i + m - k - 2 \in 1..n
      BY <1>t, <1>8, <2>4
    <3>2. new[m] = rl[i + m - k - 2]
      BY <1>t, <1>8, <2>4
    <3> QED BY <3>1, <3>2
  <2> QED BY <1>t, <1>8, <2>2, <2>3, <2>4
<1>13. ASSUME \A j \in 1..Len(rl) : rl[j] # p PROVE HoldsAll(new, rl)
  <2> SUFFICES ASSUME NEW j \in 1..Len(rl) PROVE \E m \in 1..Len(new) : new[m] = rl[j]
    BY DEF HoldsAll
  <2>1. k = i - 1 /\ j \in 1..n
    BY <1>k, <1>n, <1>13
  <2>2. CASE j < i
    <3>1. j <= k /\ j \in 1..Len(new)
      BY <1>1, <1>t, <1>8, <2>1, <2>2
    <3> QED BY <1>8, <3>1
  <2>3. CASE ~(j < i)
    <3>1. j + 1 \in 1..Len(new) /\ ~(j + 1 <= k) /\ j + 1 # k + 1 /\ i + (j + 1) - k - 2 = j
      BY <1>1, <1>t, <1>8, <2>1, <2>3
    <3>2. new[j + 1] = rl[j]
      BY <1>8, <3>1
    <3> QED BY <3>1, <3>2
  <2> QED BY <2>2, <2>3
<1> QED BY <1>9, <1>10, <1>11, <1>12, <1>13

(* The ready list depends on the table only through the priorities. *)
LEMMA SamePriorities ==
    ASSUME NEW pt, NEW rl, ListOK(rl, pt), NEW qt,
           \A i \in 1..Len(rl) : qt[rl[i]].priority = pt[rl[i]].priority
    PROVE  ListOK(rl, qt)
BY DEF ListOK

(* Changing the status of an entry keeps what the ready list relies on,    *)
(* unless the sentinel is blocked.                                         *)
LEMMA StatusKeepsEntry ==
    ASSUME NEW s, NEW e, EntryOK(s, e), NEW st \in Statuses,
           s = SENTINEL => st \in {"READY", "RUNNING"}
    PROVE  EntryOK(s, [e EXCEPT !.status = st])
BY DEF EntryOK, ProcStruct

(* The table with the status of one process changed. *)
WithStatus(pt, p, st) == [pt EXCEPT ![p].status = st]

(* Only the status changes, and the table stays sound. *)
LEMMA StatusUpdate ==
    ASSUME NEW pt, TableOK(pt), NEW p \in Slots, NEW st \in Statuses,
           p \in Processes \/ st \in {"READY", "RUNNING"}
    PROVE  /\ TableOK(WithStatus(pt, p, st))
           /\ \A s \in Slots :
                 /\ WithStatus(pt, p, st)[s].priority = pt[s].priority
                 /\ WithStatus(pt, p, st)[s].status = IF s = p THEN st ELSE pt[s].status
<1>q. PICK qt : qt = WithStatus(pt, p, st)
  OBVIOUS
<1>1. /\ pt = [s \in Slots |-> pt[s]]
      /\ \A s \in Slots : EntryOK(s, pt[s])
  BY DEF TableOK
<1>2. PICK r : r = [pt[p] EXCEPT !.status = st]
  OBVIOUS
<1>3. EntryOK(p, r)
  BY <1>1, <1>2, StatusKeepsEntry DEF Processes
<1>4. r.status = st /\ r.priority = pt[p].priority
  BY <1>1, <1>2 DEF EntryOK, ProcStruct
<1>5. /\ qt = [s \in Slots |-> qt[s]]
      /\ \A s \in Slots : qt[s] = IF s = p THEN r ELSE pt[s]
  BY <1>1, <1>2, <1>q DEF WithStatus
<1>6. TableOK(qt)
  BY <1>1, <1>3, <1>5 DEF TableOK
<1> QED BY <1>4, <1>5, <1>6, <1>q

(* The dispatcher keeps the list, and the process it starts is on it. *)
LEMMA DispatchKeepsList ==
    ASSUME NEW pt, TableOK(pt), NEW rl, ListOK(rl, pt), ListTaken(rl, pt),
           Current \in Slots, Dispatch(pt, rl)
    PROVE  /\ TableOK(ProcTable')
           /\ ListOK(ReadyList', ProcTable')
           /\ ListTaken(ReadyList', ProcTable')
           /\ Current' \in Slots
           /\ \E i \in 1..Len(ReadyList') : ReadyList'[i] = Current'
           /\ intsOn' = TRUE
<1>0. PICK new : new = Head(rl)
  OBVIOUS
<1>t. PICK tl : tl = Tail(rl)
  OBVIOUS
<1>1. /\ rl \in Seq(Slots) /\ Len(rl) \in Nat \ {0} /\ new = rl[1] /\ new \in Slots
      /\ tl \in Seq(Slots) /\ Len(tl) = Len(rl) - 1
      /\ \A i \in 1..Len(tl) : tl[i] = rl[i + 1]
  BY <1>0, <1>t, HeadTailProperties, EmptySeq DEF ListOK
<1>2. /\ ReadyList' = AddProcToReadyList(tl, pt, new)
      /\ ProcTable' = [[pt EXCEPT ![Current].status = IF @ = "RUNNING" THEN "READY" ELSE @]
                         EXCEPT ![new].status = "RUNNING"]
      /\ Current' = new
      /\ intsOn' = TRUE
  BY <1>0, <1>t DEF Dispatch
<1>3. /\ TableOK(ProcTable')
      /\ \A s \in Slots : ProcTable'[s].priority = pt[s].priority
      /\ \A s \in Slots : pt[s].status # "EMPTY" => ProcTable'[s].status # "EMPTY"
  <2>1. PICK st : st = IF pt[Current].status = "RUNNING" THEN "READY" ELSE pt[Current].status
    OBVIOUS
  <2>2. PICK qt : qt = WithStatus(pt, Current, st)
    OBVIOUS
  <2>3. /\ st \in Statuses
        /\ Current \in Processes \/ st \in {"READY", "RUNNING"}
        /\ pt[Current].status # "EMPTY" => st # "EMPTY"
    BY <2>1 DEF TableOK, EntryOK, ProcStruct, Statuses, Processes
  <2>4. /\ TableOK(qt)
        /\ \A s \in Slots : /\ qt[s].priority = pt[s].priority
                            /\ qt[s].status = IF s = Current THEN st ELSE pt[s].status
    BY <2>2, <2>3, StatusUpdate
  <2>5. ProcTable' = WithStatus(qt, new, "RUNNING")
    BY <1>2, <2>1, <2>2 DEF WithStatus
  <2>6. /\ TableOK(ProcTable')
        /\ \A s \in Slots : /\ ProcTable'[s].priority = qt[s].priority
                            /\ ProcTable'[s].status = IF s = new THEN "RUNNING" ELSE qt[s].status
    <3>1. "RUNNING" \in Statuses
      BY DEF Statuses
    <3>2. PICK r : r = WithStatus(qt, new, "RUNNING")
      OBVIOUS
    <3>3. TableOK(qt) /\ new \in Slots
      BY <1>1, <2>4
    <3>4. /\ TableOK(r)
          /\ \A s \in Slots : /\ r[s].priority = qt[s].priority
                              /\ r[s].status = IF s = new THEN "RUNNING" ELSE qt[s].status
      BY <3>1, <3>2, <3>3, StatusUpdate
    <3> QED BY <2>5, <3>2, <3>4
  <2> QED BY <2>3, <2>4, <2>6
<1>4. new = SENTINEL <=> tl = <<>>
  BY <1>1, EmptySeq DEF ListOK
<1>5. /\ ListOK(ReadyList', pt)
      /\ \E i \in 1..Len(ReadyList') : ReadyList'[i] = new
      /\ \A i \in 1..Len(ReadyList') : \E j \in 1..Len(rl) : ReadyList'[i] = rl[j]
  <2>1. CASE tl = <<>>
    <3>1. ReadyList' = <<new>>
      BY <1>2, <2>1 DEF AddProcToReadyList
    <3>2. /\ <<new>> \in Seq(Slots) /\ Len(<<new>>) = 1 /\ <<new>>[1] = new /\ <<new>> # <<>>
      BY <1>1
    <3>3. /\ ListOK(<<new>>, pt)
          /\ \A i \in 1..1 : <<new>>[i] = rl[1]
      BY <1>1, <1>4, <2>1, <3>2 DEF ListOK
    <3> QED BY <1>1, <3>1, <3>2, <3>3
  <2>2. CASE tl # <<>>
    <3>1. Len(tl) \in Nat \ {0}
      BY <1>1, <2>2, EmptySeq
    <3>2. ListOK(tl, pt)
      <4>1. tl[Len(tl)] = SENTINEL
        BY <1>1, <3>1 DEF ListOK
      <4>2. ASSUME NEW x \in 1..Len(tl), NEW y \in 1..Len(tl), x < y
            PROVE  tl[x] # tl[y] /\ pt[tl[x]].priority <= pt[tl[y]].priority
        <5>1. PICK h \in 1..Len(rl), j \in 1..Len(rl) : h < j /\ tl[x] = rl[h] /\ tl[y] = rl[j]
          BY <1>1, <4>2, SMTT(20)
        <5> QED BY <5>1 DEF ListOK
      <4> QED BY <1>1, <2>2, <4>1, <4>2 DEF ListOK
    <3>3. new \in Processes
      BY <1>1, <1>4, <2>2 DEF Processes
    <3>4. /\ ListOK(ReadyList', pt)
          /\ \E i \in 1..Len(ReadyList') : ReadyList'[i] = new
          /\ \A i \in 1..Len(ReadyList') :
                ReadyList'[i] = new \/ \E j \in 1..Len(tl) : ReadyList'[i] = tl[j]
      <4>1. PICK q : q = AddProcToReadyList(tl, pt, new)
        OBVIOUS
      <4>2. /\ ListOK(q, pt)
            /\ \E i \in 1..Len(q) : q[i] = new
            /\ \A i \in 1..Len(q) : q[i] = new \/ \E j \in 1..Len(tl) : q[i] = tl[j]
        BY <3>2, <3>3, <4>1, AdditionKeepsList, SMTT(20)
      <4>3. ReadyList' = q
        BY <1>2, <4>1
      <4> QED BY <4>2, <4>3
    <3>5. ASSUME NEW i \in 1..Len(ReadyList')
          PROVE  \E j \in 1..Len(rl) : ReadyList'[i] = rl[j]
      <4>1. CASE ReadyList'[i] = new
        BY <1>1, <4>1
      <4>2. CASE \E j \in 1..Len(tl) : ReadyList'[i] = tl[j]
        <5>1. PICK j \in 1..Len(tl) : ReadyList'[i] = tl[j]
          BY <4>2
        <5>2. j + 1 \in 1..Len(rl) /\ tl[j] = rl[j + 1]
          BY <1>1
        <5> QED BY <5>1, <5>2
      <4> QED BY <3>4, <4>1, <4>2
    <3> QED BY <3>4, <3>5
  <2> QED BY <2>1, <2>2
<1>6. \A i \in 1..Len(ReadyList') : ReadyList'[i] \in Slots
  BY <1>5, ElementOfSeq DEF ListOK
<1>7. ListOK(ReadyList', ProcTable')
  <2>1. \A i \in 1..Len(ReadyList') : ProcTable'[ReadyList'[i]].priority = pt[ReadyList'[i]].priority
    BY <1>3, <1>6
  <2>2. ListOK(ReadyList', pt)
    BY <1>5
  <2> QED BY <2>1, <2>2, SamePriorities
<1>8. ListTaken(ReadyList', ProcTable')
  BY <1>1, <1>3, <1>5, ElementOfSeq DEF ListTaken
<1> QED BY <1>1, <1>2, <1>3, <1>5, <1>7, <1>8

(* What an action that ends in the dispatcher has to show. *)
LEMMA DispatchKeepsIInv ==
    ASSUME NEW pt, TableOK(pt), NEW rl, ListOK(rl, pt), ListTaken(rl, pt),
           Current \in Slots, Dispatch(pt, rl),
           FramesOK', nextPid' \in 3..(MaxPid + MAXPROC + 1), halted' = "no"
    PROVE  IInv'
<1>1. /\ TableOK(ProcTable') /\ ListOK(ReadyList', ProcTable')
      /\ ListTaken(ReadyList', ProcTable') /\ Current' \in Slots
      /\ \E i \in 1..Len(ReadyList') : ReadyList'[i] = Current'
      /\ intsOn' = TRUE
  BY DispatchKeepsList
<1> QED BY <1>1 DEF IInv, ScalarsOK, CurrentOK

(* A stop changes nothing but halted. *)
LEMMA StopKeepsIInv ==
    ASSUME IInv, NEW how \in {"completed", "deadlock", "misuse", "crash"}, Stop(how)
    PROVE  IInv'
BY DEF IInv, Stop, FramesOK, ScalarsOK, CurrentOK, Quitting
-----------------------------------------------------------------------------
(* The actions keep the invariant.                                         *)

(* A step that sets one frame. *)
LEMMA FrameUpdate ==
    ASSUME FramesOK, NEW p \in Slots, NEW f, FrameOK(f), frame' = [frame EXCEPT ![p] = f]
    PROVE  FramesOK'
BY DEF FramesOK

(* A step that frees the processes of a set and sets one frame. *)
LEMMA FramesWithoutUpdate ==
    ASSUME FramesOK, NEW S, NEW p \in Slots, NEW f, FrameOK(f),
           frame' = [FramesWithout(S) EXCEPT ![p] = f]
    PROVE  FramesOK'
<1>1. FrameOK(At("gone", 0, <<>>))
  BY DEF FrameOK, Frames, At, Locations
<1> QED BY <1>1 DEF FramesOK, FramesWithout

(* Frames that remember nobody. *)
LEMMA FrameAt ==
    ASSUME NEW loc \in Locations \ {"waking", "joinReap", "quitting"}, NEW arg \in Int
    PROVE  FrameOK(At(loc, arg, <<>>))
BY DEF FrameOK, Frames, At

(* A process in a call other than quit is on the ready list. *)
LEMMA CallerOnList ==
    ASSUME IInv, Current # SENTINEL, frame[Current].at # "quitting"
    PROVE  /\ Current \in Processes
           /\ \E k \in 1..Len(ReadyList) : ReadyList[k] = Current
BY DEF IInv, CurrentOK, Quitting, Processes

(* Taking the caller off the ready list. *)
LEMMA CallerRemoved ==
    ASSUME IInv, Current # SENTINEL, frame[Current].at # "quitting"
    PROVE  LET rl == RemoveFromReadyList(ReadyList, Current)
           IN /\ ListOK(rl, ProcTable)
              /\ ListTaken(rl, ProcTable)
              /\ \A m \in 1..Len(rl) : rl[m] # Current
<1>r. PICK rl : rl = RemoveFromReadyList(ReadyList, Current)
  OBVIOUS
<1>1. PICK k \in 1..Len(ReadyList) : ReadyList[k] = Current
  BY CallerOnList
<1>2. Current \in Processes
  BY CallerOnList
<1>3. ListOK(ReadyList, ProcTable) /\ ListTaken(ReadyList, ProcTable)
  BY DEF IInv
<1>4. /\ ListOK(rl, ProcTable)
      /\ \A m \in 1..Len(rl) :
            rl[m] # Current /\ \E j \in 1..Len(ReadyList) : rl[m] = ReadyList[j]
  BY <1>1, <1>2, <1>3, <1>r, RemovalKeepsList
<1>5. ListTaken(rl, ProcTable)
  BY <1>3, <1>4 DEF ListTaken
<1> QED BY <1>4, <1>5, <1>r

(* The sentinel, like everybody on the ready list, keeps its slot. *)
LEMMA ZeroedKeeps ==
    ASSUME NEW pt, TableOK(pt), NEW rl, ListOK(rl, pt), ListTaken(rl, pt),
           NEW S \in SUBSET Slots,
           \A q \in S : Hash(pt[q].pid) = q /\ \A i \in 1..Len(rl) : rl[i] # q
    PROVE  /\ TableOK(Zeroed(pt, S))
           /\ ListOK(rl, Zeroed(pt, S))
           /\ ListTaken(rl, Zeroed(pt, S))
<1>q. PICK qt : qt = Zeroed(pt, S)
  OBVIOUS
<1>1. qt = [s \in Slots |-> IF s \in S THEN EmptyProc ELSE pt[s]]
  BY <1>q DEF Zeroed
<1>2. /\ qt = [s \in Slots |-> qt[s]]
      /\ \A s \in Slots : qt[s] = IF s \in S THEN EmptyProc ELSE pt[s]
  BY <1>1
<1>3. SENTINEL \notin S
  BY LenProperties, EmptySeq DEF ListOK
<1>4. \A s \in Slots : s # SENTINEL => EntryOK(s, EmptyProc)
  BY DEF EntryOK, EmptyProc, ProcStruct, Statuses, NULL, SENTINEL
<1>5. TableOK(qt)
  BY <1>2, <1>3, <1>4 DEF TableOK
<1>6. \A i \in 1..Len(rl) : qt[rl[i]] = pt[rl[i]]
  BY <1>2, ElementOfSeq DEF ListOK
<1>7. ListOK(rl, qt)
  BY <1>6, SamePriorities
<1>8. ListTaken(rl, qt)
  BY <1>6 DEF ListTaken
<1> QED BY <1>5, <1>7, <1>8, <1>q

(* The parts of the invariant that an action may cite. *)
LEMMA Parts ==
    ASSUME IInv
    PROVE  /\ TableOK(ProcTable)
           /\ ListOK(ReadyList, ProcTable) /\ ListTaken(ReadyList, ProcTable)
           /\ FramesOK /\ ScalarsOK /\ Current \in Slots
           /\ \A s \in Slots : EntryOK(s, ProcTable[s]) /\ FrameOK(frame[s])
BY DEF IInv, TableOK, FramesOK, CurrentOK

(* Steps within a call: they set a frame, and change no table. *)
LEMMA FrameStep ==
    ASSUME IInv, Current # SENTINEL, halted = "no", NEW f, FrameOK(f),
           frame' = [frame EXCEPT ![Current] = f],
           frame[Current].at # "quitting" \/ f.at = "quitting",
           intsOn' \in BOOLEAN,
           UNCHANGED <<ProcTable, ReadyList, Current, nextPid, halted>>
    PROVE  IInv'
<1>1. FramesOK'
  BY Parts, FrameUpdate
<1>2. frame'[Current].at = f.at
  BY Parts DEF FramesOK
<1>3. CurrentOK'
  BY <1>2, CallerOnList, Parts DEF CurrentOK, Quitting
<1> QED BY <1>1, <1>3 DEF IInv, ScalarsOK

(* The process table that startup leaves, with start1 running. *)
LEMMA InitIInv == Init => IInv
<1> SUFFICES ASSUME Init PROVE IInv
  OBVIOUS
<1>1. SENTINEL \in Slots /\ 2 \in Slots /\ 0 \in Slots /\ SENTINEL = 1 /\ NULL = -1
  BY TableAssumption DEF Slots, SENTINEL, NULL
<1>2. /\ ProcTable = [s \in Slots |-> ProcTable[s]]
      /\ \A s \in Slots :
            ProcTable[s] = IF s = 1 THEN [EmptyProc EXCEPT !.pid = 1, !.priority = 6, !.status = "READY"]
                           ELSE IF s = 2 THEN [EmptyProc EXCEPT !.pid = 2, !.priority = 1, !.status = "READY"]
                           ELSE EmptyProc
  BY DEF Init, SENTINEL, SENTINELPRIORITY
<1>3. \A s \in Slots : EntryOK(s, ProcTable[s])
  <2>1. EntryOK(1, [EmptyProc EXCEPT !.pid = 1, !.priority = 6, !.status = "READY"])
    <3>1. PICK e : e = [EmptyProc EXCEPT !.pid = 1, !.priority = 6, !.status = "READY"]
      OBVIOUS
    <3>2. e = [pid |-> 1, priority |-> 6, status |-> "READY", parent |-> NULL,
               children |-> <<>>, quitChildren |-> <<>>,
               whoZapped |-> NULL, nextWhoZapped |-> NULL, zapped |-> FALSE]
      BY <3>1 DEF EmptyProc
    <3>3. e \in ProcStruct
      BY <3>2 DEF ProcStruct, Statuses
    <3>4. EntryOK(1, e)
      BY <3>2, <3>3 DEF EntryOK, SENTINEL, SENTINELPRIORITY, NULL
    <3> QED BY <3>1, <3>4
  <2>2. EntryOK(2, [EmptyProc EXCEPT !.pid = 2, !.priority = 1, !.status = "READY"])
    <3>1. PICK e : e = [EmptyProc EXCEPT !.pid = 2, !.priority = 1, !.status = "READY"]
      OBVIOUS
    <3>2. e = [pid |-> 2, priority |-> 1, status |-> "READY", parent |-> NULL,
               children |-> <<>>, quitChildren |-> <<>>,
               whoZapped |-> NULL, nextWhoZapped |-> NULL, zapped |-> FALSE]
      BY <3>1 DEF EmptyProc
    <3>3. e \in ProcStruct
      BY <3>2 DEF ProcStruct, Statuses
    <3>4. EntryOK(2, e)
      BY <3>2, <3>3 DEF EntryOK, SENTINEL, SENTINELPRIORITY, NULL
    <3> QED BY <3>1, <3>4
  <2>3. \A s \in Slots : s # 1 => EntryOK(s, EmptyProc)
    BY DEF EntryOK, EmptyProc, ProcStruct, Statuses, NULL, SENTINEL
  <2> QED BY <1>2, <2>1, <2>2, <2>3
<1>4. TableOK(ProcTable)
  BY <1>2, <1>3 DEF TableOK
<1>5. /\ ReadyList = <<2, 1>> /\ ReadyList \in Seq(Slots) /\ Len(ReadyList) = 2
      /\ ReadyList[1] = 2 /\ ReadyList[2] = 1
  BY <1>1 DEF Init
<1>6. /\ ProcTable[1].priority = 6 /\ ProcTable[1].status = "READY"
      /\ ProcTable[2].priority = 1 /\ ProcTable[2].status = "READY"
  BY <1>1, <1>2 DEF EmptyProc
<1>7. ListOK(ReadyList, ProcTable) /\ ListTaken(ReadyList, ProcTable)
  BY <1>5, <1>6 DEF ListOK, ListTaken, SENTINEL
<1>8. FramesOK
  <2>1. FrameOK(InUser) /\ FrameOK(At("gone", 0, <<>>))
    BY FrameAt DEF InUser, Locations
  <2> QED BY <2>1 DEF Init, FramesOK
<1>9. ScalarsOK
  BY TableAssumption, BoundAssumption DEF Init, ScalarsOK
<1>10. CurrentOK
  BY <1>1, <1>5 DEF Init, CurrentOK
<1> QED BY <1>4, <1>7, <1>8, <1>9, <1>10 DEF IInv

(* The entry of a new process, and the table and the list that fork1 gives *)
(* to the dispatcher.                                                      *)
Child(n, prio) == [EmptyProc EXCEPT !.pid = AsShort(n), !.priority = prio,
                                    !.status = "READY", !.parent = Current]

ForkTable(s, new) == [ProcTable EXCEPT ![s] = new, ![Current].children = Append(@, s)]

(* fork1: the slot it takes is free, hence on no ready list. *)
LEMMA Fork1Prepares ==
    ASSUME IInv, NEW prio \in Priorities, Fork1(prio)
    PROVE  /\ Current \in Processes /\ frame[Current].at # "quitting"
           /\ \E k \in 0..(MAXPROC - 1), s \in Processes : \E new, pt, rl :
                 /\ s = (nextPid + k) % MAXPROC /\ nextPid + k < MaxPid /\ nextPid' = nextPid + k + 1
                 /\ s # Current /\ ProcTable[s].status = "EMPTY"
                 /\ \A i \in 1..Len(ReadyList) : ReadyList[i] # s
                 /\ new = Child(nextPid + k, prio) /\ new \in ProcStruct
                 /\ pt = ForkTable(s, new) /\ TableOK(pt)
                 /\ rl = AddProcToReadyList(ReadyList, pt, s)
                 /\ ListOK(ReadyList, pt) /\ ListTaken(ReadyList, pt)
                 /\ ListOK(rl, pt) /\ ListTaken(rl, pt)
                 /\ frame' = [frame EXCEPT ![s] = InUser, ![Current] = At("fork1", s, <<>>)]
                 /\ Dispatch(pt, rl)
<1>1. Current \in Processes /\ Current \in Slots /\ halted = "no" /\ frame[Current].at # "quitting"
      /\ Current # SENTINEL
  BY Parts DEF Fork1, MayCall, InCall, Processes
<1>2. PICK k \in 0..(MAXPROC - 1) :
         /\ IsFree(k)
         /\ nextPid + k < MaxPid
         /\ LET s  == (nextPid + k) % MAXPROC
                new == [EmptyProc EXCEPT !.pid = AsShort(nextPid + k), !.priority = prio,
                                         !.status = "READY", !.parent = Current]
                pt == [ProcTable EXCEPT ![s] = new, ![Current].children = Append(@, s)]
            IN /\ nextPid' = nextPid + k + 1
               /\ frame' = [frame EXCEPT ![s] = InUser, ![Current] = At("fork1", s, <<>>)]
               /\ Dispatch(pt, AddProcToReadyList(ReadyList, pt, s))
  BY DEF Fork1
<1>s. PICK s : s = (nextPid + k) % MAXPROC
  OBVIOUS
<1>n. PICK new : new = [EmptyProc EXCEPT !.pid = AsShort(nextPid + k), !.priority = prio,
                                         !.status = "READY", !.parent = Current]
  OBVIOUS
<1>p. PICK pt : pt = [ProcTable EXCEPT ![s] = new, ![Current].children = Append(@, s)]
  OBVIOUS
<1>l. PICK rl : rl = AddProcToReadyList(ReadyList, pt, s)
  OBVIOUS
<1>3. /\ nextPid \in Nat /\ nextPid' \in 3..(MaxPid + MAXPROC + 1)
      /\ frame' = [frame EXCEPT ![s] = InUser, ![Current] = At("fork1", s, <<>>)]
      /\ Dispatch(pt, rl)
  BY <1>2, <1>s, <1>n, <1>p, <1>l, Parts, TableAssumption, BoundAssumption DEF ScalarsOK
<1>4. s \in Slots
  BY <1>2, <1>3, <1>s, TableAssumption DEF Slots
<1>5. ProcTable[s].status = "EMPTY" /\ s \in Processes
  BY <1>2, <1>4, <1>s, Parts DEF IsFree, EntryOK, Processes
<1>6. \A i \in 1..Len(ReadyList) : ReadyList[i] # s
  BY <1>5, Parts DEF ListTaken
<1>7. EntryOK(s, new) /\ new.status = "READY"
  <2>1. AsShort(nextPid + k) \in Int
    BY <1>2, <1>3, BoundAssumption DEF AsShort
  <2>2. prio \in 1..5
    BY ProgramAssumption
  <2>3. new = [pid |-> AsShort(nextPid + k), priority |-> prio, status |-> "READY",
               parent |-> Current, children |-> <<>>, quitChildren |-> <<>>,
               whoZapped |-> NULL, nextWhoZapped |-> NULL, zapped |-> FALSE]
    BY <1>n DEF EmptyProc
  <2>4. new \in ProcStruct
    BY <1>1, <2>1, <2>2, <2>3 DEF ProcStruct, Statuses, NULL
  <2> QED BY <1>1, <1>5, <2>2, <2>3, <2>4 DEF EntryOK, NULL, SENTINEL, Processes
<1>8. /\ TableOK(pt)
      /\ \A q \in Slots \ {s} : pt[q].priority = ProcTable[q].priority
                              /\ pt[q].status = ProcTable[q].status
      /\ pt[s].status # "EMPTY"
  <2>1. PICK pt1 : pt1 = [ProcTable EXCEPT ![s] = new]
    OBVIOUS
  <2>2. pt1 = [q \in Slots |-> pt1[q]] /\ \A q \in Slots : pt1[q] = IF q = s THEN new ELSE ProcTable[q]
    BY <1>4, <2>1, Parts DEF TableOK
  <2>3. \A q \in Slots : EntryOK(q, pt1[q])
    BY <1>7, <2>2, Parts
  <2>4. PICK kids : kids = Append(pt1[Current].children, s)
    OBVIOUS
  <2>5. PICK e : e = [pt1[Current] EXCEPT !.children = kids]
    OBVIOUS
  <2>6. EntryOK(Current, e) /\ e.priority = pt1[Current].priority /\ e.status = pt1[Current].status
    <3>1. EntryOK(Current, pt1[Current])
      BY <1>1, <2>3
    <3>2. kids \in Seq(Slots)
      BY <1>4, <2>4, <3>1, AppendProperties DEF EntryOK, ProcStruct
    <3> QED BY <2>5, <3>1, <3>2 DEF EntryOK, ProcStruct
  <2>7. pt = [q \in Slots |-> pt[q]] /\ \A q \in Slots : pt[q] = IF q = Current THEN e ELSE pt1[q]
    <3>1. s # Current
      BY <1>1, <1>6, CallerOnList
    <3>2. pt = [pt1 EXCEPT ![Current].children = kids]
      BY <1>1, <1>p, <2>1, <2>2, <2>4, <3>1
    <3>3. pt = [pt1 EXCEPT ![Current] = e]
      BY <3>2, <2>5
    <3> QED BY <1>1, <2>2, <3>3
  <2> QED BY <1>4, <1>7, <2>2, <2>3, <2>6, <2>7 DEF TableOK
<1>9. ListOK(ReadyList, pt) /\ ListTaken(ReadyList, pt)
  <2>1. \A i \in 1..Len(ReadyList) : ReadyList[i] \in Slots \ {s}
    BY <1>6, Parts, ElementOfSeq DEF ListOK
  <2>2. \A i \in 1..Len(ReadyList) : pt[ReadyList[i]].priority = ProcTable[ReadyList[i]].priority
                                   /\ pt[ReadyList[i]].status = ProcTable[ReadyList[i]].status
    BY <1>8, <2>1
  <2> QED BY <2>2, Parts, SamePriorities DEF ListTaken
<1>10. ListOK(rl, pt) /\ ListTaken(rl, pt)
  <2>1. /\ ListOK(rl, pt)
        /\ \A m \in 1..Len(rl) : rl[m] = s \/ \E j \in 1..Len(ReadyList) : rl[m] = ReadyList[j]
    BY <1>5, <1>8, <1>9, <1>l, AdditionKeepsList
  <2> QED BY <1>8, <1>9, <2>1 DEF ListTaken
<1>11. new = Child(nextPid + k, prio) /\ new \in ProcStruct /\ pt = ForkTable(s, new)
  BY <1>n, <1>p, <1>7 DEF Child, ForkTable, EntryOK
<1>12. s # Current
  BY <1>1, <1>6, CallerOnList
<1> QED BY <1>1, <1>2, <1>3, <1>5, <1>6, <1>8, <1>9, <1>10, <1>11, <1>12, <1>s, <1>l

(* fork1 makes a sound entry, and dispatches. *)
LEMMA Fork1KeepsIInv ==
    ASSUME IInv, NEW prio \in Priorities, Fork1(prio)
    PROVE  IInv'
<1>0. PICK k \in 0..(MAXPROC - 1), s \in Processes : \E new, pt, rl :
         /\ nextPid + k < MaxPid /\ nextPid' = nextPid + k + 1
         /\ TableOK(pt) /\ ListOK(rl, pt) /\ ListTaken(rl, pt) /\ Dispatch(pt, rl)
         /\ frame' = [frame EXCEPT ![s] = InUser, ![Current] = At("fork1", s, <<>>)]
  BY Fork1Prepares
<1>1. PICK new, pt, rl :
         /\ nextPid + k < MaxPid /\ nextPid' = nextPid + k + 1
         /\ TableOK(pt) /\ ListOK(rl, pt) /\ ListTaken(rl, pt) /\ Dispatch(pt, rl)
         /\ frame' = [frame EXCEPT ![s] = InUser, ![Current] = At("fork1", s, <<>>)]
  BY <1>0
<1>2. Current \in Slots /\ s \in Slots
  BY Parts DEF Processes
<1>3. FramesOK'
  <2>1. FrameOK(InUser) /\ FrameOK(At("fork1", s, <<>>))
    BY <1>2, FrameAt DEF InUser, Locations, Slots
  <2> QED BY <1>1, <1>2, <2>1, Parts DEF FramesOK
<1>4. nextPid' \in 3..(MaxPid + MAXPROC + 1)
  BY <1>1, Parts, TableAssumption, BoundAssumption DEF ScalarsOK
<1>5. halted' = "no"
  BY DEF Fork1, MayCall, InCall
<1> QED BY <1>1, <1>2, <1>3, <1>4, <1>5, DispatchKeepsIInv

(* Failing calls, and calls that return. *)
LEMMA ReturnsKeepIInv ==
    ASSUME IInv, Fork1Fails \/ Return \/ JoinNoChild \/ JoinQuitChild \/ ZapQuitProcess
    PROVE  IInv'
<1>1. CASE Fork1Fails
  <2>1. nextPid' \in 3..(MaxPid + MAXPROC + 1)
    BY <1>1, Parts, TableAssumption, BoundAssumption DEF Fork1Fails, ScalarsOK
  <2> QED BY <1>1, <2>1 DEF Fork1Fails, IInv, FramesOK, ScalarsOK, CurrentOK, Quitting
<1>2. CASE Return
  <2>1. FrameOK(InUser) /\ InUser.at # "quitting"
    BY FrameAt DEF InUser, At, Locations
  <2> QED BY <1>2, <2>1, Parts, FrameStep DEF Return, InCall, ScalarsOK
<1>3. CASE JoinNoChild \/ ZapQuitProcess
  BY <1>3 DEF JoinNoChild, ZapQuitProcess, IInv, FramesOK, ScalarsOK, CurrentOK, Quitting
<1>4. CASE JoinQuitChild
  <2>1. FrameOK(At("join", 0, <<>>)) /\ At("join", 0, <<>>).at # "quitting"
    BY FrameAt DEF At, Locations
  <2> QED BY <1>4, <2>1, FrameStep DEF JoinQuitChild, MayCall, InCall
<1> QED BY <1>1, <1>2, <1>3, <1>4

(* A call in which the caller blocks: another table entry may be linked    *)
(* to it.                                                                  *)
LEMMA CallerBlocks ==
    ASSUME IInv, Current # SENTINEL, frame[Current].at # "quitting", halted' = "no",
           NEW pt, TableOK(pt),
           \A s \in Slots : pt[s].priority = ProcTable[s].priority,
           \A s \in Slots : s # Current => pt[s].status = ProcTable[s].status,
           Dispatch(pt, RemoveFromReadyList(ReadyList, Current)),
           NEW f, FrameOK(f), frame' = [frame EXCEPT ![Current] = f], UNCHANGED nextPid
    PROVE  IInv'
<1>r. PICK rl : rl = RemoveFromReadyList(ReadyList, Current)
  OBVIOUS
<1>1. ListOK(rl, ProcTable) /\ ListTaken(rl, ProcTable) /\ \A m \in 1..Len(rl) : rl[m] # Current
  BY <1>r, CallerRemoved
<1>2. \A m \in 1..Len(rl) : rl[m] \in Slots
  BY <1>1, ElementOfSeq DEF ListOK
<1>3. ListOK(rl, pt)
  BY <1>1, <1>2, SamePriorities
<1>4. ListTaken(rl, pt)
  BY <1>1, <1>2 DEF ListTaken
<1>5. FramesOK'
  BY Parts, FrameUpdate
<1>6. nextPid' \in 3..(MaxPid + MAXPROC + 1) /\ Current \in Slots
  BY Parts DEF ScalarsOK
<1>7. Dispatch(pt, rl)
  BY <1>r
<1> QED BY <1>3, <1>4, <1>5, <1>6, <1>7, DispatchKeepsIInv

(* join with live children only. *)
LEMMA JoinBlocksKeepsIInv ==
    ASSUME IInv, JoinBlocks
    PROVE  IInv'
<1>1. Current # SENTINEL /\ frame[Current].at # "quitting" /\ halted' = "no" /\ Current \in Processes
  BY Parts DEF JoinBlocks, MayCall, InCall, Processes
<1>p. PICK pt : pt = WithStatus(ProcTable, Current, "JOIN_BLOCKED")
  OBVIOUS
<1>2. "JOIN_BLOCKED" \in Statuses
  BY DEF Statuses
<1>3. /\ TableOK(pt)
      /\ \A s \in Slots : /\ pt[s].priority = ProcTable[s].priority
                          /\ pt[s].status = IF s = Current THEN "JOIN_BLOCKED" ELSE ProcTable[s].status
  BY <1>1, <1>2, <1>p, Parts, StatusUpdate
<1>4. Dispatch(pt, RemoveFromReadyList(ReadyList, Current)) /\ UNCHANGED nextPid
  BY <1>p DEF JoinBlocks, WithStatus
<1>5. FrameOK(At("join", 0, <<>>))
  BY FrameAt DEF Locations
<1>6. frame' = [frame EXCEPT ![Current] = At("join", 0, <<>>)]
  BY DEF JoinBlocks
<1> QED BY <1>1, <1>3, <1>4, <1>5, <1>6, CallerBlocks

(* blockMe. *)
LEMMA BlockMeKeepsIInv ==
    ASSUME IInv, BlockMe
    PROVE  IInv'
<1>1. Current # SENTINEL /\ frame[Current].at # "quitting" /\ halted' = "no" /\ Current \in Processes
  BY Parts DEF BlockMe, MayCall, InCall, Processes
<1>p. PICK pt : pt = WithStatus(ProcTable, Current, "BLOCKED")
  OBVIOUS
<1>2. "BLOCKED" \in Statuses
  BY DEF Statuses
<1>3. /\ TableOK(pt)
      /\ \A s \in Slots : /\ pt[s].priority = ProcTable[s].priority
                          /\ pt[s].status = IF s = Current THEN "BLOCKED" ELSE ProcTable[s].status
  BY <1>1, <1>2, <1>p, Parts, StatusUpdate
<1>4. Dispatch(pt, RemoveFromReadyList(ReadyList, Current)) /\ UNCHANGED nextPid
  BY <1>p DEF BlockMe, WithStatus
<1>5. FrameOK(At("blockMe", 0, <<>>))
  BY FrameAt DEF Locations
<1>6. frame' = [frame EXCEPT ![Current] = At("blockMe", 0, <<>>)]
  BY DEF BlockMe
<1> QED BY <1>1, <1>3, <1>4, <1>5, <1>6, CallerBlocks

(* zap: the links it writes lead to the caller and to an earlier zapper.   *)
LEMMA ZapKeepsIInv ==
    ASSUME IInv, NEW t \in Slots, Zap(t)
    PROVE  IInv'
<1>1. /\ Current # SENTINEL /\ frame[Current].at # "quitting" /\ halted' = "no"
      /\ Current \in Processes /\ Current \in Slots /\ t # Current
  BY Parts DEF Zap, MayCall, InCall, Processes
<1>f. PICK first : first = ProcTable[t].whoZapped
  OBVIOUS
<1>p. PICK pt : pt = [ProcTable EXCEPT ![Current].status = "ZAP_BLOCKED",
                                       ![Current].nextWhoZapped = IF first = NULL THEN @ ELSE first,
                                       ![t].zapped = TRUE,
                                       ![t].whoZapped = Current]
  OBVIOUS
<1>c. PICK c : c = [ProcTable[Current] EXCEPT !.status = "ZAP_BLOCKED",
                          !.nextWhoZapped = IF first = NULL THEN ProcTable[Current].nextWhoZapped ELSE first]
  OBVIOUS
<1>d. PICK d : d = [ProcTable[t] EXCEPT !.zapped = TRUE, !.whoZapped = Current]
  OBVIOUS
<1>2. EntryOK(Current, ProcTable[Current]) /\ EntryOK(t, ProcTable[t])
  BY <1>1, Parts
<1>3. EntryOK(Current, c) /\ c.priority = ProcTable[Current].priority
  BY <1>1, <1>2, <1>f, <1>c DEF EntryOK, ProcStruct, Statuses, Processes
<1>4. EntryOK(t, d) /\ d.priority = ProcTable[t].priority /\ d.status = ProcTable[t].status
  BY <1>1, <1>2, <1>d DEF EntryOK, ProcStruct, Statuses, Processes
<1>5. /\ pt = [s \in Slots |-> pt[s]]
      /\ \A s \in Slots : pt[s] = IF s = Current THEN c ELSE IF s = t THEN d ELSE ProcTable[s]
  BY <1>1, <1>p, <1>c, <1>d, Parts DEF TableOK
<1>6. TableOK(pt)
  BY <1>3, <1>4, <1>5, Parts DEF TableOK
<1>7. /\ \A s \in Slots : pt[s].priority = ProcTable[s].priority
      /\ \A s \in Slots : s # Current => pt[s].status = ProcTable[s].status
  BY <1>3, <1>4, <1>5
<1>8. Dispatch(pt, RemoveFromReadyList(ReadyList, Current)) /\ UNCHANGED nextPid
  BY <1>f, <1>p DEF Zap, ZapLink
<1>9. FrameOK(At("zap", ProcTable[t].pid, <<>>))
  BY <1>2, FrameAt DEF Locations, EntryOK, ProcStruct
<1>10. frame' = [frame EXCEPT ![Current] = At("zap", ProcTable[t].pid, <<>>)]
  BY DEF Zap
<1> QED BY <1>1, <1>6, <1>7, <1>8, <1>9, <1>10, CallerBlocks

(* A list to which a process is added that a step makes READY. *)
LEMMA MadeReady ==
    ASSUME NEW pt, TableOK(pt), NEW rl, ListOK(rl, pt), ListTaken(rl, pt),
           NEW p \in Processes, pt[p].status # "EMPTY"
    PROVE  LET new == AddProcToReadyList(rl, pt, p)
           IN ListOK(new, pt) /\ ListTaken(new, pt)
<1>1. PICK new : new = AddProcToReadyList(rl, pt, p)
  OBVIOUS
<1>2. /\ ListOK(new, pt)
      /\ \A m \in 1..Len(new) : new[m] = p \/ \E j \in 1..Len(rl) : new[m] = rl[j]
  BY <1>1, AdditionKeepsList
<1>3. ListTaken(new, pt)
  BY <1>2 DEF ListTaken
<1> QED BY <1>1, <1>2, <1>3

(* Making a process READY keeps its place, or its absence, on the list. *)
LEMMA ReadyKeepsList ==
    ASSUME NEW pt, TableOK(pt), NEW rl, ListOK(rl, pt), ListTaken(rl, pt), NEW p \in Processes
    PROVE  LET qt == WithStatus(pt, p, "READY")
           IN /\ TableOK(qt) /\ ListOK(rl, qt) /\ ListTaken(rl, qt)
              /\ qt[p].status # "EMPTY"
              /\ \A s \in Slots : qt[s].priority = pt[s].priority
<1>q. PICK qt : qt = WithStatus(pt, p, "READY")
  OBVIOUS
<1>1. p \in Slots /\ "READY" \in Statuses
  BY DEF Processes, Statuses
<1>2. /\ TableOK(qt)
      /\ \A s \in Slots : /\ qt[s].priority = pt[s].priority
                          /\ qt[s].status = IF s = p THEN "READY" ELSE pt[s].status
  BY <1>1, <1>q, StatusUpdate
<1>3. \A i \in 1..Len(rl) : rl[i] \in Slots
  BY ElementOfSeq DEF ListOK
<1>4. ListOK(rl, qt)
  BY <1>2, <1>3, SamePriorities
<1>5. ListTaken(rl, qt)
  BY <1>2, <1>3 DEF ListTaken
<1> QED BY <1>1, <1>2, <1>4, <1>5, <1>q

(* unblockProc: its target is blocked, so it is not the sentinel. *)
LEMMA UnblockProcKeepsIInv ==
    ASSUME IInv, NEW t \in Slots, UnblockProc(t)
    PROVE  IInv'
<1>1. /\ Current # SENTINEL /\ halted = "no" /\ frame[Current].at # "quitting"
      /\ frame' = [frame EXCEPT ![Current] = At("waking", t, <<>>)]
      /\ UNCHANGED <<ProcTable, ReadyList, Current, nextPid, intsOn, halted>>
  BY DEF UnblockProc, MayCall, InCall
<1>2. t \in Processes
  BY Parts DEF UnblockProc, BlockedByBlockMe, EntryOK, Processes
<1>3. FrameOK(At("waking", t, <<>>))
  BY <1>2 DEF FrameOK, Frames, At, Locations, Processes, Slots
<1>4. intsOn' \in BOOLEAN
  BY <1>1, Parts DEF ScalarsOK
<1> QED BY <1>1, <1>3, <1>4, FrameStep

(* The end of unblockProc links a process that is not the sentinel. *)
LEMMA MakeReadyKeepsIInv ==
    ASSUME IInv, MakeReady
    PROVE  IInv'
<1>t. PICK t : t = frame[Current].arg
  OBVIOUS
<1>p. PICK pt : pt = WithStatus(ProcTable, t, "READY")
  OBVIOUS
<1>l. PICK rl : rl = AddProcToReadyList(ReadyList, pt, t)
  OBVIOUS
<1>1. t \in Processes /\ halted' = "no" /\ Current \in Slots
  BY <1>t, Parts DEF MakeReady, InCall, FrameOK
<1>2. /\ TableOK(pt) /\ ListOK(ReadyList, pt) /\ ListTaken(ReadyList, pt)
      /\ pt[t].status # "EMPTY"
  BY <1>1, <1>p, Parts, ReadyKeepsList
<1>3. ListOK(rl, pt) /\ ListTaken(rl, pt)
  BY <1>1, <1>2, <1>l, MadeReady
<1>4. Dispatch(pt, rl) /\ frame' = [frame EXCEPT ![Current] = At("unblockProc", 0, <<>>)]
  BY <1>t, <1>p, <1>l DEF MakeReady, WithStatus
<1>5. FramesOK'
  <2>1. FrameOK(At("unblockProc", 0, <<>>))
    BY FrameAt DEF Locations
  <2> QED BY <1>1, <1>4, <2>1, Parts, FrameUpdate
<1>6. nextPid' \in 3..(MaxPid + MAXPROC + 1)
  BY Parts DEF MakeReady, ScalarsOK
<1> QED BY <1>1, <1>2, <1>3, <1>4, <1>5, <1>6, DispatchKeepsIInv

(* join reads the quit list of the caller. *)
LEMMA JoinTakeKeepsIInv ==
    ASSUME IInv, JoinTake
    PROVE  IInv'
<1>1. /\ Current # SENTINEL /\ halted = "no" /\ frame[Current].at # "quitting"
  BY DEF JoinTake, InCall
<1>q. PICK quitters : quitters = ProcTable[Current].quitChildren
  OBVIOUS
<1>2. CASE quitters = <<>>
  <2>1. Stop("crash")
    BY <1>2, <1>q DEF JoinTake
  <2> QED BY <2>1, StopKeepsIInv
<1>3. CASE quitters # <<>>
  <2>1. /\ frame' = [frame EXCEPT ![Current] = At("joinReap", Head(quitters), Tail(quitters))]
        /\ UNCHANGED <<ProcTable, ReadyList, Current, nextPid, intsOn, halted>>
    BY <1>3, <1>q DEF JoinTake
  <2>2. quitters \in Seq(Slots)
    BY <1>q, Parts DEF EntryOK, ProcStruct
  <2>3. Head(quitters) \in Slots /\ Tail(quitters) \in Seq(Slots)
    BY <1>3, <2>2, HeadTailProperties
  <2>4. PICK f : f = At("joinReap", Head(quitters), Tail(quitters))
    OBVIOUS
  <2>5. FrameOK(f) /\ f.at # "quitting"
    BY <2>3, <2>4 DEF FrameOK, Frames, At, Locations, Slots
  <2>6. frame' = [frame EXCEPT ![Current] = f] /\ intsOn' \in BOOLEAN
    BY <2>1, <2>4, Parts DEF ScalarsOK
  <2> QED BY <1>1, <2>1, <2>5, <2>6, FrameStep
<1> QED BY <1>2, <1>3

(* join frees a slot only if it is off the ready list. *)
LEMMA JoinReapKeepsIInv ==
    ASSUME IInv, JoinReap
    PROVE  IInv'
<1>1. /\ Current # SENTINEL /\ halted = "no" /\ frame[Current].at # "quitting"
      /\ Current \in Processes /\ Current \in Slots
  BY Parts DEF JoinReap, InCall, Processes
<1>c. PICK child : child = frame[Current].arg
  OBVIOUS
<1>r. PICK rest : rest = IF frame[Current].todo = <<>> THEN <<>>
                         ELSE SubSeq(ProcTable[Current].quitChildren, 2,
                                     Len(ProcTable[Current].quitChildren))
  OBVIOUS
<1>p. PICK pt : pt = [ProcTable EXCEPT ![Current].quitChildren = rest]
  OBVIOUS
<1>2. child \in Slots
  BY <1>1, <1>c, Parts DEF JoinReap, InCall, FrameOK
<1>3. CASE ~MayZero({child})
  <2>1. Stop("crash")
    BY <1>3, <1>c DEF JoinReap
  <2> QED BY <2>1, StopKeepsIInv
<1>4. CASE MayZero({child})
  <2>1. /\ ProcTable' = Zeroed(pt, {child})
        /\ frame' = [FramesWithout({child}) EXCEPT ![Current] = InUser]
        /\ UNCHANGED <<ReadyList, Current, nextPid, intsOn, halted>>
    BY <1>4, <1>c, <1>r, <1>p DEF JoinReap
  <2>2. EntryOK(Current, ProcTable[Current])
    BY <1>1, Parts
  <2>3. rest \in Seq(Slots)
    <3>1. PICK q : q = ProcTable[Current].quitChildren
      OBVIOUS
    <3>2. q \in Seq(Slots)
      BY <2>2, <3>1 DEF EntryOK, ProcStruct
    <3>3. SubSeq(q, 2, Len(q)) \in Seq(Slots)
      BY <3>2, SubSeqProperties, ElementOfSeq, LenProperties
    <3> QED BY <1>r, <3>1, <3>3
  <2>4. PICK e : e = [ProcTable[Current] EXCEPT !.quitChildren = rest]
    OBVIOUS
  <2>5. /\ EntryOK(Current, e) /\ e.priority = ProcTable[Current].priority
        /\ e.status = ProcTable[Current].status /\ e.pid = ProcTable[Current].pid
    BY <2>2, <2>3, <2>4 DEF EntryOK, ProcStruct
  <2>6. pt = [s \in Slots |-> pt[s]] /\ \A s \in Slots : pt[s] = IF s = Current THEN e ELSE ProcTable[s]
    BY <1>1, <1>p, <2>4, Parts DEF TableOK
  <2>7. TableOK(pt)
    BY <2>5, <2>6, Parts DEF TableOK
  <2>8. /\ \A i \in 1..Len(ReadyList) : ReadyList[i] \in Slots
    BY Parts, ElementOfSeq DEF ListOK
  <2>9. \A s \in Slots : /\ pt[s].priority = ProcTable[s].priority
                        /\ pt[s].status = ProcTable[s].status
                        /\ pt[s].pid = ProcTable[s].pid
    BY <2>5, <2>6
  <2>10. ListOK(ReadyList, pt) /\ ListTaken(ReadyList, pt)
    BY <2>8, <2>9, Parts, SamePriorities DEF ListTaken
  <2>11. /\ {child} \in SUBSET Slots
         /\ \A q \in {child} : Hash(pt[q].pid) = q /\ \A i \in 1..Len(ReadyList) : ReadyList[i] # q
    BY <1>2, <1>4, <2>9 DEF MayZero
  <2>12. TableOK(ProcTable') /\ ListOK(ReadyList, ProcTable') /\ ListTaken(ReadyList, ProcTable')
    BY <2>1, <2>7, <2>10, <2>11, ZeroedKeeps
  <2>13. FrameOK(InUser) /\ InUser.at # "quitting"
    BY FrameAt DEF InUser, At, Locations
  <2>14. FramesOK'
    BY <1>1, <2>1, <2>13, Parts, FramesWithoutUpdate
  <2>15. CurrentOK'
    BY <1>1, <2>1, CallerOnList DEF CurrentOK
  <2> QED BY <2>1, <2>12, <2>14, <2>15, Parts DEF IInv, ScalarsOK
<1> QED BY <1>3, <1>4

(* quit: the caller leaves the ready list and may be off it from here on.  *)
LEMMA QuitKeepsIInv ==
    ASSUME IInv, Quit
    PROVE  IInv'
<1>1. /\ Current # SENTINEL /\ halted = "no" /\ frame[Current].at # "quitting"
      /\ Current \in Processes /\ Current \in Slots
  BY Parts DEF Quit, MayCall, InCall, Processes
<1>r. PICK rl : rl = RemoveFromReadyList(ReadyList, Current)
  OBVIOUS
<1>f. PICK f : f = At("quitting", IF ProcTable[Current].zapped THEN ProcTable[Current].whoZapped
                                  ELSE NULL, <<>>)
  OBVIOUS
<1>2. /\ ReadyList' = rl /\ ProcTable' = WithStatus(ProcTable, Current, "QUIT")
      /\ frame' = [frame EXCEPT ![Current] = f] /\ intsOn' = FALSE
      /\ UNCHANGED <<Current, nextPid, halted>>
  BY <1>r, <1>f DEF Quit, WithStatus
<1>3. "QUIT" \in Statuses
  BY DEF Statuses
<1>4. /\ TableOK(ProcTable')
      /\ \A s \in Slots : /\ ProcTable'[s].priority = ProcTable[s].priority
                          /\ ProcTable'[s].status = IF s = Current THEN "QUIT" ELSE ProcTable[s].status
  BY <1>1, <1>2, <1>3, Parts, StatusUpdate
<1>5. ListOK(rl, ProcTable) /\ ListTaken(rl, ProcTable) /\ \A m \in 1..Len(rl) : rl[m] # Current
  BY <1>1, <1>r, CallerRemoved
<1>6. \A m \in 1..Len(rl) : rl[m] \in Slots
  BY <1>5, ElementOfSeq DEF ListOK
<1>7. ListOK(rl, ProcTable')
  BY <1>4, <1>5, <1>6, SamePriorities
<1>8. ListTaken(rl, ProcTable')
  BY <1>4, <1>5, <1>6 DEF ListTaken
<1>9. FrameOK(f) /\ f.at = "quitting"
  <2>1. EntryOK(Current, ProcTable[Current])
    BY <1>1, Parts
  <2>2. ProcTable[Current].whoZapped \in Processes \cup {NULL}
    BY <2>1 DEF EntryOK, ProcStruct, Processes
  <2> QED BY <1>f, <2>2 DEF FrameOK, Frames, At, Locations, Processes, Slots, NULL
<1>10. FramesOK'
  BY <1>1, <1>2, <1>9, Parts, FrameUpdate
<1>11. CurrentOK'
  BY <1>1, <1>2, <1>9, Parts DEF CurrentOK, Quitting, FramesOK
<1> QED BY <1>2, <1>4, <1>7, <1>8, <1>10, <1>11, Parts DEF IInv, ScalarsOK

(* unblockZappers follows links that never lead to the sentinel. *)
LEMMA VisitZapperKeepsIInv ==
    ASSUME IInv, VisitZapper
    PROVE  IInv'
<1>1. /\ Current # SENTINEL /\ halted = "no" /\ frame[Current].at = "quitting"
      /\ Current \in Slots /\ frame[Current].arg # NULL
  BY Parts DEF VisitZapper, InCall
<1>z. PICK z : z = frame[Current].arg
  OBVIOUS
<1>v. PICK visited : visited = frame[Current].todo
  OBVIOUS
<1>2. z \in Processes /\ visited \in Seq(Processes)
  BY <1>1, <1>z, <1>v, Parts DEF FrameOK
<1>f. PICK f : f = At("quitting", ProcTable[z].nextWhoZapped, Append(visited, z))
  OBVIOUS
<1>3. FrameOK(f) /\ f.at = "quitting"
  <2>1. EntryOK(z, ProcTable[z])
    BY <1>2, Parts DEF Processes
  <2>2. ProcTable[z].nextWhoZapped \in Processes \cup {NULL}
    BY <2>1 DEF EntryOK, ProcStruct, Processes
  <2>3. PICK w : w = Append(visited, z)
    OBVIOUS
  <2>4. w \in Seq(Processes)
    BY <1>2, <2>3, AppendProperties
  <2>5. w \in Seq(Slots)
    BY <2>4, SeqMonotonic DEF Processes
  <2> QED BY <1>f, <2>2, <2>3, <2>4, <2>5 DEF FrameOK, Frames, At, Locations, Processes, Slots, NULL
<1>4. CASE Len(visited) = MAXPROC
  <2>1. Stop("crash")
    BY <1>4, <1>v DEF VisitZapper
  <2> QED BY <2>1, StopKeepsIInv
<1>5. CASE Len(visited) # MAXPROC
  <2>1. /\ frame' = [frame EXCEPT ![Current] = f]
        /\ UNCHANGED <<ProcTable, ReadyList, Current, nextPid, intsOn, halted>>
    BY <1>5, <1>v, <1>z, <1>f DEF VisitZapper
  <2>2. intsOn' \in BOOLEAN
    BY <2>1, Parts DEF ScalarsOK
  <2> QED BY <1>1, <1>3, <2>1, <2>2, FrameStep
<1> QED BY <1>4, <1>5

(* unblockZappers links a process even if it is linked already. *)
LEMMA UnblockZapperKeepsIInv ==
    ASSUME IInv, UnblockZapper
    PROVE  IInv'
<1>1. /\ Current # SENTINEL /\ halted = "no" /\ frame[Current].at = "quitting"
      /\ Current \in Slots
  BY Parts DEF UnblockZapper, InCall
<1>v. PICK todo : todo = frame[Current].todo
  OBVIOUS
<1>z. PICK z : z = Last(todo)
  OBVIOUS
<1>f. PICK f : f = [frame[Current] EXCEPT !.todo = Front(todo)]
  OBVIOUS
<1>2. todo \in Seq(Processes) /\ todo # <<>> /\ FrameOK(frame[Current])
  BY <1>1, <1>v, Parts DEF UnblockZapper, FrameOK
<1>3. z \in Processes /\ Front(todo) \in Seq(Processes)
  <2>1. Len(todo) \in Nat \ {0}
    BY <1>2, EmptySeq, LenProperties
  <2>2. Front(todo) = SubSeq(todo, 1, Len(todo) - 1) /\ z = todo[Len(todo)]
    BY <1>z DEF Front, Last
  <2>3. todo[Len(todo)] \in Processes
    BY <1>2, <2>1, ElementOfSeq
  <2>4. SubSeq(todo, 1, Len(todo) - 1) \in Seq(Processes)
    BY <1>2, <2>1, SubSeqProperties, ElementOfSeq
  <2> QED BY <2>2, <2>3, <2>4
<1>4. FrameOK(f) /\ f.at = "quitting"
  <2>1. PICK w : w = Front(todo)
    OBVIOUS
  <2>2. w \in Seq(Processes) /\ w \in Seq(Slots)
    BY <1>3, <2>1, SeqMonotonic DEF Processes
  <2> QED BY <1>1, <1>2, <1>f, <2>1, <2>2 DEF FrameOK, Frames
<1>q. PICK qt : qt = WithStatus(ProcTable, z, "READY")
  OBVIOUS
<1>l. PICK rl : rl = AddProcToReadyList(ReadyList, ProcTable, z)
  OBVIOUS
<1>5. /\ ProcTable' = qt /\ ReadyList' = rl
      /\ frame' = [frame EXCEPT ![Current] = f]
      /\ UNCHANGED <<Current, nextPid, intsOn, halted>>
  BY <1>v, <1>z, <1>f, <1>q, <1>l DEF UnblockZapper, WithStatus
<1>6. /\ TableOK(qt) /\ ListOK(ReadyList, qt) /\ ListTaken(ReadyList, qt)
      /\ qt[z].status # "EMPTY" /\ \A s \in Slots : qt[s].priority = ProcTable[s].priority
  BY <1>3, <1>q, Parts, ReadyKeepsList
<1>7. /\ ListOK(rl, ProcTable)
      /\ \A m \in 1..Len(rl) : rl[m] = z \/ \E j \in 1..Len(ReadyList) : rl[m] = ReadyList[j]
  <2>1. TableOK(ProcTable) /\ ListOK(ReadyList, ProcTable)
    BY Parts
  <2> QED BY <1>3, <1>l, <2>1, AdditionKeepsList
<1>8. \A m \in 1..Len(rl) : rl[m] \in Slots
  BY <1>7, ElementOfSeq DEF ListOK
<1>9. ListOK(rl, qt)
  BY <1>6, <1>7, <1>8, SamePriorities
<1>10. ListTaken(rl, qt)
  BY <1>6, <1>7 DEF ListTaken
<1>11. FramesOK'
  BY <1>1, <1>4, <1>5, Parts, FrameUpdate
<1>12. CurrentOK'
  BY <1>1, <1>4, <1>5, Parts DEF CurrentOK, Quitting, FramesOK
<1> QED BY <1>5, <1>6, <1>9, <1>10, <1>11, <1>12, Parts DEF IInv, ScalarsOK

(* The family lists have no part in what the ready list relies on. *)
LEMMA ChildQuitsKeeps ==
    ASSUME NEW pt, TableOK(pt), NEW mother \in Slots, Current \in Slots
    PROVE  /\ TableOK(ChildQuits(pt, mother))
           /\ \A s \in Slots : /\ ChildQuits(pt, mother)[s].priority = pt[s].priority
                               /\ ChildQuits(pt, mother)[s].status = pt[s].status
<1>q. PICK qt : qt = ChildQuits(pt, mother)
  OBVIOUS
<1>k. PICK kids : kids = RemoveFirst(pt[mother].children, Current)
  OBVIOUS
<1>u. PICK quitters : quitters = Append(pt[mother].quitChildren, Current)
  OBVIOUS
<1>e. PICK e : e = [pt[mother] EXCEPT !.children = kids, !.quitChildren = quitters]
  OBVIOUS
<1>1. /\ pt = [s \in Slots |-> pt[s]]
      /\ \A s \in Slots : EntryOK(s, pt[s])
  BY DEF TableOK
<1>2. kids \in Seq(Slots) /\ quitters \in Seq(Slots)
  <2>1. pt[mother].children \in Seq(Slots) /\ pt[mother].quitChildren \in Seq(Slots)
    BY <1>1 DEF EntryOK, ProcStruct
  <2> QED BY <1>k, <1>u, <2>1, RemoveFirstType, AppendProperties
<1>3. EntryOK(mother, e) /\ e.priority = pt[mother].priority /\ e.status = pt[mother].status
  <2>1. EntryOK(mother, pt[mother])
    BY <1>1
  <2> QED BY <1>2, <1>e, <2>1 DEF EntryOK, ProcStruct
<1>4. qt = [s \in Slots |-> qt[s]] /\ \A s \in Slots : qt[s] = IF s = mother THEN e ELSE pt[s]
  BY <1>1, <1>q, <1>k, <1>u, <1>e DEF ChildQuits, AddToQuitChildList
<1>5. TableOK(qt)
  BY <1>1, <1>3, <1>4 DEF TableOK
<1> QED BY <1>3, <1>4, <1>5, <1>q

(* The mother is woken whatever she does: she is linked at most once.       *)
LEMMA QuitChildAndParentKeepsIInv ==
    ASSUME IInv, QuitChildAndParent
    PROVE  IInv'
<1>d. PICK dead : dead = ToSet(ProcTable[Current].quitChildren)
  OBVIOUS
<1>m. PICK mother : mother = ProcTable[Current].parent
  OBVIOUS
<1>z. PICK zt : zt = Zeroed(ProcTable, dead)
  OBVIOUS
<1>f. PICK freed : freed = [zt EXCEPT ![Current].quitChildren = <<>>]
  OBVIOUS
<1>c. PICK ct : ct = ChildQuits(freed, mother)
  OBVIOUS
<1>p. PICK pt : pt = WithStatus(ct, mother, "READY")
  OBVIOUS
<1>l. PICK rl : rl = AddProcToReadyList(ReadyList, pt, mother)
  OBVIOUS
<1>1. /\ Current # SENTINEL /\ halted = "no" /\ Current \in Slots
      /\ ProcTable[Current].parent # NULL /\ EntryOK(Current, ProcTable[Current])
  BY Parts DEF QuitChildAndParent, ZappersAwake, InCall
<1>2. mother \in Processes /\ mother \in Slots
  BY <1>1, <1>m DEF EntryOK, ProcStruct, Processes
<1>3. dead \in SUBSET Slots
  <2>1. ProcTable[Current].quitChildren \in Seq(Slots)
    BY <1>1 DEF EntryOK, ProcStruct
  <2> QED BY <1>d, <2>1, ElementOfSeq DEF ToSet
<1>4. CASE ~MayZero(dead)
  <2>1. Stop("crash")
    BY <1>4, <1>d DEF QuitChildAndParent
  <2> QED BY <2>1, StopKeepsIInv
<1>5. CASE MayZero(dead)
  <2>1. /\ frame' = [FramesWithout(dead) EXCEPT ![Current] = At("gone", 0, <<>>)]
        /\ Dispatch(pt, rl) /\ UNCHANGED <<nextPid, halted>>
    BY <1>5, <1>d, <1>m, <1>z, <1>f, <1>c, <1>p, <1>l DEF QuitChildAndParent, WithStatus
  <2>2. TableOK(zt) /\ ListOK(ReadyList, zt) /\ ListTaken(ReadyList, zt)
    <3>1. TableOK(ProcTable) /\ ListOK(ReadyList, ProcTable) /\ ListTaken(ReadyList, ProcTable)
      BY Parts
    <3>2. \A q \in dead : Hash(ProcTable[q].pid) = q /\ \A i \in 1..Len(ReadyList) : ReadyList[i] # q
      BY <1>5 DEF MayZero
    <3> QED BY <1>3, <1>z, <3>1, <3>2, ZeroedKeeps
  <2>3. /\ TableOK(freed)
        /\ \A s \in Slots : freed[s].priority = zt[s].priority /\ freed[s].status = zt[s].status
    <3>1. /\ zt = [s \in Slots |-> zt[s]]
          /\ \A s \in Slots : EntryOK(s, zt[s])
      BY <2>2 DEF TableOK
    <3>n. PICK none \in Seq(Slots) : none = <<>>
      <4>1. <<>> \in Seq(Slots)
        OBVIOUS
      <4> QED BY <4>1
    <3>2. PICK e : e = [zt[Current] EXCEPT !.quitChildren = none]
      OBVIOUS
    <3>3. EntryOK(Current, e) /\ e.priority = zt[Current].priority /\ e.status = zt[Current].status
      <4>1. EntryOK(Current, zt[Current])
        BY <1>1, <3>1
      <4> QED BY <3>n, <3>2, <4>1 DEF EntryOK, ProcStruct
    <3>4. freed = [s \in Slots |-> freed[s]] /\ \A s \in Slots : freed[s] = IF s = Current THEN e ELSE zt[s]
      BY <1>1, <1>f, <3>1, <3>n, <3>2
    <3> QED BY <3>1, <3>3, <3>4 DEF TableOK
  <2>4. /\ TableOK(ct)
        /\ \A s \in Slots : ct[s].priority = freed[s].priority /\ ct[s].status = freed[s].status
    BY <1>1, <1>2, <1>c, <2>3, ChildQuitsKeeps
  <2>5. ListOK(ReadyList, ct) /\ ListTaken(ReadyList, ct)
    <3>1. \A i \in 1..Len(ReadyList) : ReadyList[i] \in Slots
      BY <2>2, ElementOfSeq DEF ListOK
    <3>2. \A i \in 1..Len(ReadyList) : ct[ReadyList[i]].priority = zt[ReadyList[i]].priority
      BY <2>3, <2>4, <3>1
    <3>3. ListOK(ReadyList, ct)
      BY <2>2, <3>2, SamePriorities
    <3> QED BY <2>2, <2>3, <2>4, <3>1, <3>3 DEF ListTaken
  <2>6. TableOK(pt) /\ ListOK(ReadyList, pt) /\ ListTaken(ReadyList, pt) /\ pt[mother].status # "EMPTY"
    BY <1>2, <1>p, <2>4, <2>5, ReadyKeepsList
  <2>7. ListOK(rl, pt) /\ ListTaken(rl, pt)
    BY <1>2, <1>l, <2>6, MadeReady
  <2>8. FramesOK'
    <3>1. FrameOK(At("gone", 0, <<>>))
      BY FrameAt DEF Locations
    <3> QED BY <1>1, <2>1, <3>1, Parts, FramesWithoutUpdate
  <2>9. nextPid' \in 3..(MaxPid + MAXPROC + 1) /\ halted' = "no"
    BY <1>1, <2>1, Parts DEF ScalarsOK
  <2> QED BY <1>1, <2>1, <2>6, <2>7, <2>8, <2>9, DispatchKeepsIInv
<1> QED BY <1>4, <1>5

(* What quit gives to the dispatcher: the mother that waits in join is     *)
(* linked.                                                                 *)
LEMMA QuitChildPrepares ==
    ASSUME IInv, QuitChild
    PROVE  /\ Current \in Slots /\ halted' = "no" /\ ProcTable[Current].parent \in Processes
           /\ \E ct, pt, rl :
                 LET mother  == ProcTable[Current].parent
                     joining == WaitsInJoin(mother)
                 IN /\ ct = ChildQuits(ProcTable, mother) /\ TableOK(ct) /\ ListOK(ReadyList, ct)
                    /\ pt = IF joining THEN WithStatus(ct, mother, "READY") ELSE ct
                    /\ rl = IF joining THEN AddProcToReadyList(ReadyList, pt, mother) ELSE ReadyList
                    /\ TableOK(pt) /\ ListOK(ReadyList, pt) /\ ListOK(rl, pt) /\ ListTaken(rl, pt)
                    /\ Dispatch(pt, rl) /\ UNCHANGED nextPid
                    /\ frame' = [frame EXCEPT ![Current] = At("gone", 0, <<>>)]
<1>m. PICK mother : mother = ProcTable[Current].parent
  OBVIOUS
<1>j. PICK joining \in BOOLEAN : joining = WaitsInJoin(mother)
  BY DEF WaitsInJoin
<1>c. PICK ct : ct = ChildQuits(ProcTable, mother)
  OBVIOUS
<1>p. PICK pt : pt = [ct EXCEPT ![mother].status = IF joining THEN "READY" ELSE @]
  OBVIOUS
<1>l. PICK rl : rl = IF joining THEN AddProcToReadyList(ReadyList, pt, mother) ELSE ReadyList
  OBVIOUS
<1>1. /\ Current # SENTINEL /\ halted = "no" /\ halted' = "no" /\ Current \in Slots
      /\ ProcTable[Current].parent # NULL /\ EntryOK(Current, ProcTable[Current])
  BY Parts DEF QuitChild, ZappersAwake, InCall
<1>2. mother \in Processes /\ mother \in Slots
  BY <1>1, <1>m DEF EntryOK, ProcStruct, Processes
<1>3. /\ TableOK(ProcTable) /\ ListOK(ReadyList, ProcTable) /\ ListTaken(ReadyList, ProcTable)
      /\ \A i \in 1..Len(ReadyList) : ReadyList[i] \in Slots
  BY Parts, ElementOfSeq DEF ListOK
<1>4. /\ TableOK(ct)
      /\ \A s \in Slots : ct[s].priority = ProcTable[s].priority /\ ct[s].status = ProcTable[s].status
  BY <1>1, <1>2, <1>3, <1>c, ChildQuitsKeeps
<1>5. ListOK(ReadyList, ct) /\ ListTaken(ReadyList, ct)
  BY <1>3, <1>4, SamePriorities DEF ListTaken
<1>6. /\ TableOK(pt) /\ ListOK(ReadyList, pt) /\ ListOK(rl, pt) /\ ListTaken(rl, pt)
      /\ pt = IF joining THEN WithStatus(ct, mother, "READY") ELSE ct
  <2>1. CASE joining
    <3>1. pt = WithStatus(ct, mother, "READY") /\ rl = AddProcToReadyList(ReadyList, pt, mother)
      BY <1>p, <1>l, <2>1 DEF WithStatus
    <3>2. TableOK(pt) /\ ListOK(ReadyList, pt) /\ ListTaken(ReadyList, pt) /\ pt[mother].status # "EMPTY"
      BY <1>2, <1>4, <1>5, <3>1, ReadyKeepsList
    <3> QED BY <1>2, <2>1, <3>1, <3>2, MadeReady
  <2>2. CASE ~joining
    <3>1. pt = ct /\ rl = ReadyList
      <4>1. pt = [ct EXCEPT ![mother].status = @]
        BY <1>p, <2>2
      <4>2. \A s \in Slots : EntryOK(s, ct[s])
        BY <1>4 DEF TableOK
      <4>3. [ct[mother] EXCEPT !.status = @] = ct[mother]
        BY <1>2, <4>2 DEF EntryOK, ProcStruct
      <4> QED BY <1>2, <1>4, <1>l, <2>2, <4>1, <4>3 DEF TableOK
    <3> QED BY <1>4, <1>5, <2>2, <3>1
  <2> QED BY <2>1, <2>2
<1>7. Dispatch(pt, rl) /\ UNCHANGED nextPid /\ frame' = [frame EXCEPT ![Current] = At("gone", 0, <<>>)]
  BY <1>m, <1>j, <1>c, <1>p, <1>l DEF QuitChild
<1> QED BY <1>1, <1>2, <1>4, <1>5, <1>6, <1>7, <1>m, <1>j, <1>c, <1>l

(* The end of the quit of a child dispatches. *)
LEMMA QuitChildKeepsIInv ==
    ASSUME IInv, QuitChild
    PROVE  IInv'
<1>1. PICK pt, rl :
         /\ TableOK(pt) /\ ListOK(rl, pt) /\ ListTaken(rl, pt)
         /\ Dispatch(pt, rl) /\ UNCHANGED nextPid
         /\ frame' = [frame EXCEPT ![Current] = At("gone", 0, <<>>)]
  BY QuitChildPrepares
<1>2. Current \in Slots /\ halted' = "no"
  BY QuitChildPrepares
<1>3. FramesOK'
  <2>1. FrameOK(At("gone", 0, <<>>))
    BY FrameAt DEF Locations
  <2> QED BY <1>1, <1>2, <2>1, Parts, FrameUpdate
<1>4. nextPid' \in 3..(MaxPid + MAXPROC + 1)
  BY <1>1, Parts DEF ScalarsOK
<1> QED BY <1>1, <1>2, <1>3, <1>4, DispatchKeepsIInv

(* start1 frees itself, off the ready list by now. *)
LEMMA QuitParentKeepsIInv ==
    ASSUME IInv, QuitParent
    PROVE  IInv'
<1>d. PICK dead : dead = ToSet(ProcTable[Current].quitChildren) \cup {Current}
  OBVIOUS
<1>z. PICK pt : pt = Zeroed(ProcTable, dead)
  OBVIOUS
<1>1. /\ Current # SENTINEL /\ halted = "no" /\ Current \in Slots /\ EntryOK(Current, ProcTable[Current])
  BY Parts DEF QuitParent, ZappersAwake, InCall
<1>2. dead \in SUBSET Slots
  <2>1. ProcTable[Current].quitChildren \in Seq(Slots)
    BY <1>1 DEF EntryOK, ProcStruct
  <2> QED BY <1>1, <1>d, <2>1, ElementOfSeq DEF ToSet
<1>3. CASE ~MayZero(dead)
  <2>1. Stop("crash")
    BY <1>3, <1>d DEF QuitParent
  <2> QED BY <2>1, StopKeepsIInv
<1>4. CASE MayZero(dead)
  <2>1. /\ frame' = FramesWithout(dead) /\ Dispatch(pt, ReadyList) /\ UNCHANGED <<nextPid, halted>>
    BY <1>4, <1>d, <1>z DEF QuitParent
  <2>2. TableOK(pt) /\ ListOK(ReadyList, pt) /\ ListTaken(ReadyList, pt)
    <3>1. TableOK(ProcTable) /\ ListOK(ReadyList, ProcTable) /\ ListTaken(ReadyList, ProcTable)
      BY Parts
    <3>2. \A q \in dead : Hash(ProcTable[q].pid) = q /\ \A i \in 1..Len(ReadyList) : ReadyList[i] # q
      BY <1>4 DEF MayZero
    <3> QED BY <1>2, <1>z, <3>1, <3>2, ZeroedKeeps
  <2>3. FramesOK'
    <3>1. FrameOK(At("gone", 0, <<>>))
      BY FrameAt DEF Locations
    <3> QED BY <2>1, <3>1, Parts DEF FramesOK, FramesWithout
  <2>4. nextPid' \in 3..(MaxPid + MAXPROC + 1) /\ halted' = "no"
    BY <1>1, <2>1, Parts DEF ScalarsOK
  <2> QED BY <1>1, <2>1, <2>2, <2>3, <2>4, DispatchKeepsIInv
<1> QED BY <1>3, <1>4

(* The end of a time slice only dispatches. *)
LEMMA TimeSliceKeepsIInv ==
    ASSUME IInv, TimeSlice
    PROVE  IInv'
<1>1. Dispatch(ProcTable, ReadyList) /\ halted' = "no" /\ UNCHANGED <<nextPid, frame>>
  BY DEF TimeSlice
<1>2. /\ TableOK(ProcTable) /\ ListOK(ReadyList, ProcTable) /\ ListTaken(ReadyList, ProcTable)
      /\ Current \in Slots
  BY Parts
<1>3. FramesOK' /\ nextPid' \in 3..(MaxPid + MAXPROC + 1)
  BY <1>1, Parts DEF FramesOK, ScalarsOK
<1> QED BY <1>1, <1>2, <1>3, DispatchKeepsIInv

(* One step per action of Next. *)
LEMMA NextKeepsIInv == IInv /\ [Next]_vars => IInv'
<1> SUFFICES ASSUME IInv, [Next]_vars PROVE IInv'
  OBVIOUS
<1>1. ASSUME NEW prio \in Priorities, Fork1(prio) PROVE IInv'
  BY <1>1, Fork1KeepsIInv
<1>2. CASE Fork1Fails \/ Return \/ JoinNoChild \/ JoinQuitChild \/ ZapQuitProcess
  BY <1>2, ReturnsKeepIInv
<1>3. CASE JoinBlocks
  BY <1>3, JoinBlocksKeepsIInv
<1>4. CASE JoinTake
  BY <1>4, JoinTakeKeepsIInv
<1>5. CASE JoinReap
  BY <1>5, JoinReapKeepsIInv
<1>6. CASE Quit
  BY <1>6, QuitKeepsIInv
<1>7. CASE VisitZapper
  BY <1>7, VisitZapperKeepsIInv
<1>8. CASE UnblockZapper
  BY <1>8, UnblockZapperKeepsIInv
<1>9. CASE QuitChildAndParent
  BY <1>9, QuitChildAndParentKeepsIInv
<1>10. CASE QuitChild
  BY <1>10, QuitChildKeepsIInv
<1>11. CASE QuitParent
  BY <1>11, QuitParentKeepsIInv
<1>12. CASE QuitReturns
  BY <1>12, StopKeepsIInv DEF QuitReturns
<1>13. ASSUME NEW t \in Slots, Zap(t) PROVE IInv'
  BY <1>13, ZapKeepsIInv
<1>14. CASE BlockMe
  BY <1>14, BlockMeKeepsIInv
<1>15. ASSUME NEW t \in Slots, UnblockProc(t) PROVE IInv'
  BY <1>15, UnblockProcKeepsIInv
<1>16. CASE MakeReady
  BY <1>16, MakeReadyKeepsIInv
<1>17. CASE Misuse
  BY <1>17, StopKeepsIInv DEF Misuse
<1>18. CASE TimeSlice
  BY <1>18, TimeSliceKeepsIInv
<1>19. CASE CheckDeadlock
  BY <1>19, StopKeepsIInv DEF CheckDeadlock
<1>20. CASE ProgramRuns \/ Halted \/ UNCHANGED vars
  BY <1>20 DEF ProgramRuns, Halted, vars, IInv, FramesOK, ScalarsOK, CurrentOK, Quitting
<1> QED BY <1>1, <1>2, <1>3, <1>4, <1>5, <1>6, <1>7, <1>8, <1>9, <1>10, <1>11, <1>12, <1>13,
           <1>14, <1>15, <1>16, <1>17, <1>18, <1>19, <1>20 DEF Next
-----------------------------------------------------------------------------
(* The theorems.                                                           *)

(* The invariant holds in every state that can be reached. *)
LEMMA AlwaysIInv == Spec => []IInv
<1>1. Init => IInv
  BY InitIInv
<1>2. IInv /\ [Next]_vars => IInv'
  BY NextKeepsIInv
<1> QED BY <1>1, <1>2, PTL DEF Spec

(* Whatever programs call, in whatever order, the process table and the    *)
(* frames keep their types (phase1.c, all calls).                          *)
THEOREM TypeCorrect == Spec => []TypeOK
<1>1. IInv => TypeOK
  BY Parts DEF TableOK, EntryOK, ListOK, FramesOK, FrameOK, ScalarsOK, TypeOK
<1> QED BY <1>1, AlwaysIInv, PTL

(* Whatever programs call, the ready list is sorted, holds nobody twice,   *)
(* ends in the sentinel and holds the running process until it quits: the  *)
(* dispatcher (phase1.c:588-629) always finds a process.                   *)
THEOREM ReadyListAlwaysSafe == Spec => []ReadyListSafe
<1>1. IInv => ReadyListSafe
  <2> SUFFICES ASSUME IInv PROVE ReadyListSafe
    OBVIOUS
  <2>1. ListOK(ReadyList, ProcTable) /\ CurrentOK
    BY DEF IInv
  <2> QED BY <2>1 DEF ListOK, CurrentOK, ReadyListSafe, Last, ToSet
<1> QED BY <1>1, AlwaysIInv, PTL
-----------------------------------------------------------------------------
(* Careful programs: they join their dead children before they quit, no    *)
(* process is zapped by two, a time slice ends only outside system calls,  *)
(* and pids do not outgrow their field.  Without any of the four, some     *)
(* property below is false.                                                *)
CarefulPrograms == JoinsFirst /\ SoleZapper /\ ~KernelPreempt /\ MaxPid <= PidLimit

Lists(q, x) == \E i \in 1..Len(q) : q[i] = x
NoTwice(q) == \A i, j \in 1..Len(q) : q[i] = q[j] => i = j

CanRun(st) == st \in {"READY", "RUNNING"}
MidCall(f) == f.at \in {"joinReap", "waking", "quitting"}

(* A pid names the slot that it hashes to; a free slot has none.           *)
PidsKnown(pt, n) ==
    \A s \in Slots : IF pt[s].status = "EMPTY" THEN pt[s].pid = -1 /\ pt[s].parent = NULL
                     ELSE pt[s].pid \in 1..(n - 1) /\ Hash(pt[s].pid) = s

(* The status of a process says where it is.                               *)
Placed(pt, fr) ==
    \A s \in Slots :
        /\ fr[s].at = "gone" => pt[s].status \in {"EMPTY", "QUIT"}
        /\ fr[s].at = "quitting" => pt[s].status = "QUIT"
        /\ pt[s].status = "EMPTY" => fr[s].at = "gone"
        /\ pt[s].status = "QUIT" => fr[s].at \in {"gone", "quitting"}
        /\ pt[s].status = "JOIN_BLOCKED" => fr[s].at = "join"
        /\ pt[s].status = "ZAP_BLOCKED" => fr[s].at = "zap"
        /\ pt[s].status = "BLOCKED" => fr[s].at = "blockMe"
        /\ fr[s].at = "waking" => pt[fr[s].arg].status = "BLOCKED"

(* The lists of a mother hold her children, living and dead, each once.    *)
Family(pt, fr) ==
    \A m \in Slots :
        /\ NoTwice(pt[m].children) /\ NoTwice(pt[m].quitChildren)
        /\ \A s \in Slots :
              /\ Lists(pt[m].children, s) <=> pt[s].parent = m /\ fr[s].at # "gone"
              /\ Lists(pt[m].quitChildren, s) <=> pt[s].parent = m /\ fr[s].at = "gone"
        /\ fr[m].at \in {"gone", "quitting"} => pt[m].children = <<>> /\ pt[m].quitChildren = <<>>

(* What join finds.                                                        *)
Joins(pt, fr) ==
    \A m \in Slots :
        LET quitters == pt[m].quitChildren
        IN /\ pt[m].status = "JOIN_BLOCKED" => quitters = <<>> /\ pt[m].children # <<>>
           /\ fr[m].at = "join" => pt[m].status = "JOIN_BLOCKED" \/ quitters # <<>>
           /\ fr[m].at = "joinReap" => /\ quitters # <<>> /\ fr[m].arg = Head(quitters)
                                       /\ fr[m].todo = Tail(quitters)

(* A process that will still wake its zapper: it lives, or is on its way   *)
(* through unblockZappers.                                                 *)
WillWake(fr, t) ==
    /\ fr[t].at # "gone"
    /\ fr[t].at = "quitting" => fr[t].arg # NULL \/ fr[t].todo # <<>>

(* The zapper of a process waits for it and for nobody else, and nobody    *)
(* waits behind it.                                                        *)
Targets(pt, fr) ==
    \A t \in Slots :
        LET z == pt[t].whoZapped
        IN /\ pt[t].zapped <=> z # NULL
           /\ pt[t].nextWhoZapped = NULL
           /\ WillWake(fr, t) /\ z # NULL => pt[z].status = "ZAP_BLOCKED" /\ fr[z].arg = pt[t].pid
           /\ fr[t].at = "quitting" => \/ fr[t].arg = NULL /\ fr[t].todo = <<>>
                                       \/ z # NULL /\ fr[t].arg = z /\ fr[t].todo = <<>>
                                       \/ z # NULL /\ fr[t].arg = NULL /\ fr[t].todo = <<z>>

(* A zapper that waits has a target that leads to it; one that waits no    *)
(* more had a target that has quit, whose pid nobody gets again.           *)
Zappers(pt, fr, n) ==
    \A z \in Slots :
        /\ pt[z].status = "ZAP_BLOCKED" =>
              \E t \in Slots : pt[t].whoZapped = z /\ WillWake(fr, t)
        /\ fr[z].at = "zap" =>
              /\ fr[z].arg \in 1..(n - 1)
              /\ pt[z].status = "ZAP_BLOCKED"
                    \/ \A t \in Slots : pt[t].pid = fr[z].arg => pt[t].status = "QUIT"

World(pt, fr, n) ==
    /\ PidsKnown(pt, n) /\ Placed(pt, fr) /\ Family(pt, fr) /\ Joins(pt, fr)
    /\ Targets(pt, fr) /\ Zappers(pt, fr, n)

(* The ready list holds those that can run, and no others.                 *)
Exact(rl, pt) == \A s \in Slots : Lists(rl, s) <=> CanRun(pt[s].status)

(* Only the running process is in the middle of a call, and nobody with a  *)
(* higher priority can run.                                                *)
OneRuns ==
    /\ \A s \in Slots : MidCall(frame[s]) => s = Current
    /\ ~Quitting => \A s \in Slots :
                       CanRun(ProcTable[s].status) => ProcTable[Current].priority <= ProcTable[s].priority

CarefulInv ==
    IInv /\ World(ProcTable, frame, nextPid) /\ Exact(ReadyList, ProcTable) /\ OneRuns /\ halted # "crash"
-----------------------------------------------------------------------------
(* Lists without repetition.                                               *)

LEMMA NothingListed ==
    ASSUME NEW S, NEW q \in Seq(S), \A x \in S : ~Lists(q, x)
    PROVE  q = <<>>
<1>1. SUFFICES ASSUME q # <<>> PROVE FALSE
  OBVIOUS
<1>2. 1 \in 1..Len(q) /\ q[1] \in S
  BY <1>1, EmptySeq, LenProperties, ElementOfSeq
<1> QED BY <1>2 DEF Lists

LEMMA AppendLists ==
    ASSUME NEW S, NEW q \in Seq(S), NEW e \in S, ~Lists(q, e), NoTwice(q)
    PROVE  /\ NoTwice(Append(q, e))
           /\ \A x : Lists(Append(q, e), x) <=> Lists(q, x) \/ x = e
           /\ Append(q, e) # <<>>
<1>a. PICK a : a = Append(q, e)
  OBVIOUS
<1>1. /\ a \in Seq(S) /\ Len(a) = Len(q) + 1 /\ Len(q) \in Nat
      /\ \A i \in 1..(Len(q) + 1) : a[i] = IF i = Len(q) + 1 THEN e ELSE q[i]
  <2>1. Len(q) \in Nat
    BY LenProperties
  <2>2. /\ a \in Seq(S) /\ Len(a) = Len(q) + 1
        /\ \A i \in 1..Len(q) : a[i] = q[i]
        /\ a[Len(q) + 1] = e
    BY <1>a, AppendProperties
  <2> QED BY <2>1, <2>2
<1>2. NoTwice(a)
  BY <1>1 DEF NoTwice, Lists
<1>3. ASSUME NEW x PROVE Lists(a, x) <=> Lists(q, x) \/ x = e
  <2>1. ASSUME Lists(q, x) \/ x = e PROVE Lists(a, x)
    <3>1. CASE x = e
      <4>1. Len(q) + 1 \in 1..Len(a) /\ a[Len(q) + 1] = x
        BY <1>1, <3>1
      <4> QED BY <4>1 DEF Lists
    <3>2. CASE Lists(q, x)
      <4>1. PICK i \in 1..Len(q) : q[i] = x
        BY <3>2 DEF Lists
      <4>2. i \in 1..Len(a) /\ a[i] = x
        BY <1>1, <4>1
      <4> QED BY <4>2 DEF Lists
    <3> QED BY <2>1, <3>1, <3>2
  <2>2. ASSUME Lists(a, x) PROVE Lists(q, x) \/ x = e
    BY <1>1, <2>2 DEF Lists
  <2> QED BY <2>1, <2>2
<1>4. a # <<>>
  BY <1>1, EmptySeq
<1> QED BY <1>2, <1>3, <1>4, <1>a

LEMMA RemoveLists ==
    ASSUME NEW S, NEW q \in Seq(S), NEW e \in S, Lists(q, e), NoTwice(q)
    PROVE  /\ NoTwice(RemoveFirst(q, e))
           /\ \A x : Lists(RemoveFirst(q, e), x) <=> Lists(q, x) /\ x # e
<1>r. PICK r : r = RemoveFirst(q, e)
  OBVIOUS
<1>k. PICK k \in 1..Len(q) : q[k] = e
  BY DEF Lists
<1>i. PICK i \in 1..Len(q) :
         /\ q[i] = e
         /\ r = SubSeq(q, 1, i - 1) \o SubSeq(q, i + 1, Len(q))
  BY <1>r, <1>k, RemoveFirstSplit
<1>1. Len(q) \in Nat /\ i \in Nat
  BY LenProperties
<1>2. /\ SubSeq(q, 1, i - 1) \in Seq(S) /\ Len(SubSeq(q, 1, i - 1)) = i - 1
      /\ \A m \in 1..(i - 1) : SubSeq(q, 1, i - 1)[m] = q[m]
  BY <1>1, SubSeqProperties, ElementOfSeq
<1>3. /\ SubSeq(q, i + 1, Len(q)) \in Seq(S) /\ Len(SubSeq(q, i + 1, Len(q))) = Len(q) - i
      /\ \A m \in 1..(Len(q) - i) : SubSeq(q, i + 1, Len(q))[m] = q[m + i]
  BY <1>1, SubSeqProperties, ElementOfSeq
<1>a. PICK a : a = SubSeq(q, 1, i - 1)
  OBVIOUS
<1>b. PICK b : b = SubSeq(q, i + 1, Len(q))
  OBVIOUS
<1>4. /\ Len(r) = Len(a) + Len(b)
      /\ \A m \in 1..(Len(a) + Len(b)) : r[m] = IF m <= Len(a) THEN a[m] ELSE b[m - Len(a)]
  <2>1. a \in Seq(S) /\ b \in Seq(S) /\ r = a \o b
    BY <1>2, <1>3, <1>i, <1>a, <1>b
  <2> QED BY <2>1, ConcatProperties
<1>5. /\ Len(r) = Len(q) - 1
      /\ \A m \in 1..(Len(q) - 1) : r[m] = IF m < i THEN q[m] ELSE q[m + 1]
  <2>1. Len(a) = i - 1 /\ Len(b) = Len(q) - i
    BY <1>2, <1>3, <1>a, <1>b
  <2>2. ASSUME NEW m \in 1..(Len(q) - 1) PROVE r[m] = IF m < i THEN q[m] ELSE q[m + 1]
    <3>1. CASE m < i
      <4>1. m \in 1..(i - 1) /\ m <= Len(a) /\ m \in 1..(Len(a) + Len(b))
        BY <1>1, <2>1, <3>1
      <4> QED BY <1>2, <1>4, <1>a, <3>1, <4>1
    <3>2. CASE ~(m < i)
      <4>1. /\ m - Len(a) \in 1..(Len(q) - i) /\ (m - Len(a)) + i = m + 1 /\ ~(m <= Len(a))
            /\ m \in 1..(Len(a) + Len(b))
        BY <1>1, <2>1, <3>2
      <4> QED BY <1>3, <1>4, <1>b, <3>2, <4>1
    <3> QED BY <3>1, <3>2
  <2> QED BY <1>1, <1>4, <2>1, <2>2
<1>6. NoTwice(r)
  <2>1. ASSUME NEW x \in 1..Len(r), NEW y \in 1..Len(r), r[x] = r[y] PROVE x = y
    <3>1. PICK h \in 1..Len(q) : r[x] = q[h] /\ h = IF x < i THEN x ELSE x + 1
      BY <1>1, <1>5
    <3>2. PICK j \in 1..Len(q) : r[y] = q[j] /\ j = IF y < i THEN y ELSE y + 1
      BY <1>1, <1>5
    <3>3. h = j
      BY <2>1, <3>1, <3>2 DEF NoTwice
    <3> QED BY <1>1, <1>5, <3>1, <3>2, <3>3
  <2> QED BY <2>1 DEF NoTwice
<1>7. ASSUME NEW x PROVE Lists(r, x) <=> Lists(q, x) /\ x # e
  <2>1. ASSUME Lists(r, x) PROVE Lists(q, x) /\ x # e
    <3>1. PICK m \in 1..Len(r) : r[m] = x
      BY <2>1 DEF Lists
    <3>2. PICK h \in 1..Len(q) : x = q[h] /\ h = IF m < i THEN m ELSE m + 1
      BY <1>1, <1>5, <3>1
    <3>3. h # i
      BY <1>1, <1>5, <3>2
    <3> QED BY <1>i, <3>2, <3>3 DEF Lists, NoTwice
  <2>2. ASSUME Lists(q, x), x # e PROVE Lists(r, x)
    <3>1. PICK h \in 1..Len(q) : q[h] = x
      BY <2>2 DEF Lists
    <3>2. h # i
      BY <1>i, <2>2, <3>1
    <3>3. CASE h < i
      <4>1. h \in 1..Len(r) /\ r[h] = x
        BY <1>1, <1>5, <3>1, <3>3
      <4> QED BY <4>1 DEF Lists
    <3>4. CASE i < h
      <4>1. h - 1 \in 1..Len(r) /\ ~(h - 1 < i) /\ (h - 1) + 1 = h
        BY <1>1, <1>5, <3>1, <3>4
      <4>2. r[h - 1] = x
        BY <1>1, <1>5, <3>1, <4>1
      <4> QED BY <4>1, <4>2 DEF Lists
    <3> QED BY <1>1, <3>2, <3>3, <3>4
  <2> QED BY <2>1, <2>2
<1> QED BY <1>6, <1>7, <1>r

LEMMA TailLists ==
    ASSUME NEW S, NEW q \in Seq(S), q # <<>>, NoTwice(q)
    PROVE  /\ NoTwice(Tail(q)) /\ Lists(q, Head(q))
           /\ \A x : Lists(Tail(q), x) <=> Lists(q, x) /\ x # Head(q)
<1>t. PICK t : t = Tail(q)
  OBVIOUS
<1>1. /\ Len(q) \in Nat \ {0} /\ Head(q) = q[1] /\ Len(t) = Len(q) - 1
      /\ \A i \in 1..Len(t) : t[i] = q[i + 1]
  BY <1>t, HeadTailProperties, EmptySeq, LenProperties
<1>2. Lists(q, Head(q))
  BY <1>1 DEF Lists
<1>3. NoTwice(t)
  BY <1>1 DEF NoTwice
<1>4. ASSUME NEW x PROVE Lists(t, x) <=> Lists(q, x) /\ x # Head(q)
  <2>1. ASSUME Lists(t, x) PROVE Lists(q, x) /\ x # Head(q)
    <3>1. PICK i \in 1..Len(t) : t[i] = x
      BY <2>1 DEF Lists
    <3>2. i + 1 \in 1..Len(q) /\ q[i + 1] = x /\ i + 1 # 1 /\ 1 \in 1..Len(q)
      BY <1>1, <3>1
    <3> QED BY <1>1, <3>2 DEF Lists, NoTwice
  <2>2. ASSUME Lists(q, x), x # Head(q) PROVE Lists(t, x)
    <3>1. PICK i \in 1..Len(q) : q[i] = x
      BY <2>2 DEF Lists
    <3>2. i - 1 \in 1..Len(t) /\ (i - 1) + 1 = i
      BY <1>1, <2>2, <3>1
    <3>3. t[i - 1] = x
      BY <1>1, <3>1, <3>2
    <3> QED BY <3>2, <3>3 DEF Lists
  <2> QED BY <2>1, <2>2
<1> QED BY <1>2, <1>3, <1>4, <1>t
-----------------------------------------------------------------------------
(* The ready list is exact.                                                *)

LEMMA AddExact ==
    ASSUME NEW pt, TableOK(pt), NEW rl, ListOK(rl, pt), NEW p \in Processes, ~Lists(rl, p)
    PROVE  \A x : Lists(AddProcToReadyList(rl, pt, p), x) <=> Lists(rl, x) \/ x = p
<1>n. PICK new : new = AddProcToReadyList(rl, pt, p)
  OBVIOUS
<1>a. \E m \in 1..Len(new) : new[m] = p
  BY <1>n, AdditionKeepsList
<1>b. \A m \in 1..Len(new) : new[m] = p \/ \E j \in 1..Len(rl) : new[m] = rl[j]
  BY <1>n, AdditionKeepsList
<1>c. ASSUME NEW j \in 1..Len(rl) PROVE \E m \in 1..Len(new) : new[m] = rl[j]
  <2>1. \A i \in 1..Len(rl) : rl[i] # p
    BY DEF Lists
  <2>2. HoldsAll(new, rl)
    BY <1>n, <2>1, AdditionKeepsList
  <2> QED BY <2>2 DEF HoldsAll
<1>2. \A x : Lists(new, x) <=> Lists(rl, x) \/ x = p
  BY <1>a, <1>b, <1>c DEF Lists
<1> QED BY <1>n, <1>2

LEMMA RemoveExact ==
    ASSUME NEW pt, NEW rl, ListOK(rl, pt), NEW p \in Slots, Lists(rl, p)
    PROVE  \A x : Lists(RemoveFromReadyList(rl, p), x) <=> Lists(rl, x) /\ x # p
<1>1. rl \in Seq(Slots) /\ NoTwice(rl)
  <2>1. \A i, j \in 1..Len(rl) : i < j => rl[i] # rl[j]
    BY DEF ListOK
  <2>2. Len(rl) \in Nat
    BY LenProperties DEF ListOK
  <2> QED BY <2>1, <2>2 DEF ListOK, NoTwice
<1> QED BY <1>1, RemoveLists DEF RemoveFromReadyList

(* The fields of two entries other than the status and the priority.       *)
Alike(a, b) ==
    /\ a.pid = b.pid /\ a.parent = b.parent
    /\ a.children = b.children /\ a.quitChildren = b.quitChildren
    /\ a.whoZapped = b.whoZapped /\ a.nextWhoZapped = b.nextWhoZapped /\ a.zapped = b.zapped

LEMMA StatusFields ==
    ASSUME NEW pt, TableOK(pt), NEW p \in Slots, NEW st
    PROVE  \A s \in Slots : /\ Alike(WithStatus(pt, p, st)[s], pt[s])
                            /\ WithStatus(pt, p, st)[s].status = IF s = p THEN st ELSE pt[s].status
<1>1. /\ pt = [s \in Slots |-> pt[s]]
      /\ \A s \in Slots : pt[s] \in ProcStruct
  BY DEF TableOK, EntryOK
<1>2. PICK e : e = [pt[p] EXCEPT !.status = st]
  OBVIOUS
<1>3. Alike(e, pt[p]) /\ e.status = st
  BY <1>1, <1>2 DEF ProcStruct, Alike
<1>4. \A s \in Slots : WithStatus(pt, p, st)[s] = IF s = p THEN e ELSE pt[s]
  BY <1>1, <1>2 DEF WithStatus
<1> QED BY <1>3, <1>4 DEF Alike

(* To go from READY to RUNNING or back changes nothing else.               *)
LEMMA WorldSame ==
    ASSUME NEW pt, NEW qt, NEW fr, NEW n, World(pt, fr, n), \A s \in Slots : FrameOK(fr[s]),
           \A s \in Slots : /\ Alike(qt[s], pt[s])
                            /\ \/ qt[s].status = pt[s].status
                               \/ CanRun(qt[s].status) /\ CanRun(pt[s].status),
           \A t \in Slots : pt[t].whoZapped \in Slots \cup {NULL}
    PROVE  World(qt, fr, n)
<1>1. PidsKnown(qt, n)
  BY DEF World, PidsKnown, Alike, CanRun
<1>2. Placed(qt, fr)
  <2>1. \A s \in Slots : fr[s].at = "waking" => fr[s].arg \in Slots
    BY DEF FrameOK, Processes
  <2> QED BY <2>1 DEF World, Placed, Alike, CanRun
<1>3. Family(qt, fr)
  BY DEF World, Family, Alike
<1>4. Joins(qt, fr)
  BY DEF World, Joins, Alike, CanRun
<1>5. Targets(qt, fr)
  BY DEF World, Targets, Alike, CanRun
<1>6. Zappers(qt, fr, n)
  BY DEF World, Zappers, Alike, CanRun
<1> QED BY <1>1, <1>2, <1>3, <1>4, <1>5, <1>6 DEF World

(* The dispatcher keeps the list exact, and runs who comes first.          *)
LEMMA DispatchKeepsCareful ==
    ASSUME NEW pt, TableOK(pt), NEW rl, ListOK(rl, pt), Current \in Slots, Dispatch(pt, rl),
           World(pt, frame', nextPid'), Exact(rl, pt),
           \A s \in Slots : ~MidCall(frame'[s]),
           IInv', halted' = "no"
    PROVE  CarefulInv'
<1>0. PICK new : new = Head(rl)
  OBVIOUS
<1>t. PICK tl : tl = Tail(rl)
  OBVIOUS
<1>1. /\ rl \in Seq(Slots) /\ Len(rl) \in Nat \ {0} /\ new = rl[1] /\ new \in Slots
      /\ tl \in Seq(Slots) /\ Len(tl) = Len(rl) - 1
      /\ \A i \in 1..Len(tl) : tl[i] = rl[i + 1]
  BY <1>0, <1>t, HeadTailProperties, EmptySeq DEF ListOK
<1>2. /\ ReadyList' = AddProcToReadyList(tl, pt, new)
      /\ ProcTable' = [[pt EXCEPT ![Current].status = IF @ = "RUNNING" THEN "READY" ELSE @]
                         EXCEPT ![new].status = "RUNNING"]
      /\ Current' = new
  BY <1>0, <1>t DEF Dispatch
<1>3. NoTwice(rl)
  <2>1. \A i, j \in 1..Len(rl) : i < j => rl[i] # rl[j]
    BY DEF ListOK
  <2> QED BY <1>1, <2>1 DEF NoTwice
<1>4. \A x : Lists(tl, x) <=> Lists(rl, x) /\ x # new
  BY <1>0, <1>t, <1>1, <1>3, TailLists, EmptySeq
<1>5. Lists(rl, new)
  BY <1>1 DEF Lists
<1>6. \A s \in Slots : /\ Alike(ProcTable'[s], pt[s]) /\ ProcTable'[s].priority = pt[s].priority
                       /\ \/ ProcTable'[s].status = pt[s].status
                          \/ CanRun(ProcTable'[s].status) /\ CanRun(pt[s].status)
  <2>1. PICK st : st = IF pt[Current].status = "RUNNING" THEN "READY" ELSE pt[Current].status
    OBVIOUS
  <2>2. PICK qt : qt = WithStatus(pt, Current, st)
    OBVIOUS
  <2>3. /\ st \in Statuses /\ "RUNNING" \in Statuses
        /\ Current \in Processes \/ st \in {"READY", "RUNNING"}
    BY <2>1 DEF TableOK, EntryOK, ProcStruct, Statuses, Processes
  <2>4. /\ TableOK(qt)
        /\ \A s \in Slots : /\ qt[s].priority = pt[s].priority
                            /\ qt[s].status = IF s = Current THEN st ELSE pt[s].status
    BY <2>2, <2>3, StatusUpdate
  <2>5. \A s \in Slots : Alike(qt[s], pt[s])
    BY <2>2, StatusFields
  <2>r. PICK r : r = WithStatus(qt, new, "RUNNING")
    OBVIOUS
  <2>6. ProcTable' = r
    BY <1>2, <2>1, <2>2, <2>r DEF WithStatus
  <2>7. \A s \in Slots : /\ r[s].priority = qt[s].priority
                         /\ r[s].status = IF s = new THEN "RUNNING" ELSE qt[s].status
    BY <1>1, <2>3, <2>4, <2>r, StatusUpdate, SMTT(20)
  <2>8. \A s \in Slots : Alike(r[s], qt[s])
    BY <1>1, <2>4, <2>r, StatusFields
  <2>9. CanRun(pt[new].status)
    BY <1>1, <1>5 DEF Exact
  <2> QED BY <2>1, <2>4, <2>5, <2>6, <2>7, <2>8, <2>9 DEF Alike, CanRun
<1>7. Exact(ReadyList', ProcTable')
  <2>1. \A x : Lists(ReadyList', x) <=> Lists(rl, x)
    <3>1. CASE tl = <<>>
      <4>1. ReadyList' = <<new>>
        BY <1>2, <3>1 DEF AddProcToReadyList
      <4>2. \A x : ~Lists(tl, x)
        BY <3>1 DEF Lists
      <4>3. \A x : Lists(<<new>>, x) <=> x = new
        BY DEF Lists
      <4> QED BY <1>4, <1>5, <4>1, <4>2, <4>3
    <3>2. CASE tl # <<>>
      <4>0. Len(tl) \in Nat \ {0}
        BY <1>1, <3>2, EmptySeq
      <4>1. ListOK(tl, pt)
        <5>1. tl[Len(tl)] = SENTINEL
          BY <1>1, <4>0 DEF ListOK
        <5>2. ASSUME NEW x \in 1..Len(tl), NEW y \in 1..Len(tl), x < y
              PROVE  tl[x] # tl[y] /\ pt[tl[x]].priority <= pt[tl[y]].priority
          <6>1. PICK h \in 1..Len(rl), j \in 1..Len(rl) : h < j /\ tl[x] = rl[h] /\ tl[y] = rl[j]
            <7>1. /\ x + 1 \in 1..Len(rl) /\ y + 1 \in 1..Len(rl) /\ x + 1 < y + 1
              BY <1>1, <5>2
            <7>2. tl[x] = rl[x + 1] /\ tl[y] = rl[y + 1]
              BY <1>1, <5>2
            <7> QED BY <7>1, <7>2
          <6> QED BY <6>1 DEF ListOK
        <5> QED BY <1>1, <3>2, <5>1, <5>2 DEF ListOK
      <4>2. new \in Processes
        <5>1. tl[Len(tl)] = SENTINEL /\ Len(tl) \in 1..Len(tl)
          BY <4>0, <4>1 DEF ListOK
        <5>2. Lists(tl, SENTINEL)
          BY <5>1 DEF Lists
        <5> QED BY <1>1, <1>4, <5>2 DEF Processes
      <4>3. ~Lists(tl, new)
        BY <1>4
      <4>4. \A x : Lists(AddProcToReadyList(tl, pt, new), x) <=> Lists(tl, x) \/ x = new
        BY <4>1, <4>2, <4>3, AddExact
      <4> QED BY <1>2, <1>4, <1>5, <4>4
    <3> QED BY <3>1, <3>2
  <2> QED BY <1>6, <2>1 DEF Exact
<1>8. World(ProcTable', frame', nextPid')
  <2>1. \A s \in Slots : FrameOK(frame'[s])
    BY DEF IInv, FramesOK
  <2>2. \A t \in Slots : pt[t].whoZapped \in Slots \cup {NULL}
    BY DEF TableOK, EntryOK, ProcStruct
  <2> QED BY <1>6, <2>1, <2>2, WorldSame
<1>9. OneRuns'
  <2>1. \A s \in Slots : CanRun(pt[s].status) => pt[new].priority <= pt[s].priority
    <3>1. ASSUME NEW s \in Slots, CanRun(pt[s].status) PROVE pt[new].priority <= pt[s].priority
      <4>1. PICK j \in 1..Len(rl) : rl[j] = s
        BY <3>1 DEF Exact, Lists
      <4>2. pt[s].priority \in Int
        BY DEF TableOK, EntryOK, ProcStruct
      <4>3. 1 \in 1..Len(rl) /\ (1 < j \/ j = 1)
        BY <1>1
      <4> QED BY <1>1, <4>1, <4>2, <4>3 DEF ListOK
    <3> QED BY <3>1
  <2>2. \A s \in Slots : CanRun(ProcTable'[s].status) => CanRun(pt[s].status)
    BY <1>6
  <2> QED BY <1>1, <1>2, <1>6, <2>1, <2>2 DEF OneRuns
<1> QED BY <1>7, <1>8, <1>9 DEF CarefulInv
-----------------------------------------------------------------------------
(* What the actions do to the world, without the dispatcher.               *)

LEMMA EntryTypes ==
    ASSUME NEW pt, TableOK(pt), NEW s \in Slots
    PROVE  /\ pt[s].pid \in Int /\ pt[s].status \in Statuses
           /\ pt[s].parent \in Slots \cup {NULL} /\ pt[s].whoZapped \in Slots \cup {NULL}
           /\ pt[s].children \in Seq(Slots) /\ pt[s].quitChildren \in Seq(Slots)
           /\ pt[s].priority \in Int
BY DEF TableOK, EntryOK, ProcStruct

(* The running process goes on to another place of its calls, and may      *)
(* block there: only its own status and its own frame change.              *)
LEMMA CallerMoves ==
    ASSUME NEW pt, NEW qt, NEW fr, NEW gr, NEW n, World(pt, fr, n), TableOK(pt),
           \A s \in Slots : FrameOK(fr[s]),
           NEW p \in Slots, CanRun(pt[p].status),
           \A s \in Slots : Alike(qt[s], pt[s]),
           \A s \in Slots : s # p => qt[s].status = pt[s].status /\ gr[s] = fr[s],
           gr[p].at \notin {"gone", "quitting", "zap"},
           gr[p].at = "waking" => gr[p].arg \in Slots /\ qt[gr[p].arg].status = "BLOCKED",
           gr[p].at = "join" => qt[p].status = "JOIN_BLOCKED" \/ pt[p].quitChildren # <<>>,
           gr[p].at = "joinReap" => /\ pt[p].quitChildren # <<>>
                                    /\ gr[p].arg = Head(pt[p].quitChildren)
                                    /\ gr[p].todo = Tail(pt[p].quitChildren),
           \/ CanRun(qt[p].status)
           \/ qt[p].status = "BLOCKED" /\ gr[p].at = "blockMe"
           \/ /\ qt[p].status = "JOIN_BLOCKED" /\ gr[p].at = "join"
              /\ pt[p].quitChildren = <<>> /\ pt[p].children # <<>>
    PROVE  World(qt, gr, n)
<1>1. fr[p].at \notin {"gone", "quitting"}
  BY DEF World, Placed, CanRun
<1>2. \A s \in Slots : /\ gr[s].at = "gone" <=> fr[s].at = "gone"
                       /\ gr[s].at = "quitting" <=> fr[s].at = "quitting"
  BY <1>1
<1>3. PidsKnown(qt, n)
  BY DEF World, PidsKnown, Alike, CanRun
<1>4. Placed(qt, gr)
  <2>1. \A s \in Slots : fr[s].at = "waking" => fr[s].arg \in Slots
    BY DEF FrameOK, Processes
  <2>2. \A s \in Slots : s # p /\ fr[s].at = "waking" => qt[fr[s].arg].status = "BLOCKED"
    BY <2>1 DEF World, Placed, CanRun
  <2> QED BY <2>2 DEF World, Placed, CanRun
<1>5. Family(qt, gr)
  BY <1>2 DEF World, Family, Alike
<1>6. Joins(qt, gr)
  BY DEF World, Joins, Alike, CanRun
<1>7. \A t \in Slots : WillWake(gr, t) <=> WillWake(fr, t)
  BY <1>1 DEF WillWake
<1>8. \A t \in Slots : pt[t].whoZapped \in Slots \cup {NULL}
  BY EntryTypes
<1>9. Targets(qt, gr)
  BY <1>1, <1>7, <1>8 DEF World, Targets, Alike, CanRun
<1>10. Zappers(qt, gr, n)
  <2>1. \A z \in Slots : qt[z].status = "ZAP_BLOCKED" => pt[z].status = "ZAP_BLOCKED"
    BY DEF CanRun
  <2>2. \A z \in Slots : gr[z].at = "zap" => z # p /\ gr[z] = fr[z]
    OBVIOUS
  <2>3. \A t \in Slots : qt[t].pid = pt[t].pid /\ (pt[t].status = "QUIT" => qt[t].status = "QUIT")
    BY DEF Alike, CanRun
  <2> QED BY <1>7, <2>1, <2>2, <2>3 DEF World, Zappers, Alike
<1> QED BY <1>3, <1>4, <1>5, <1>6, <1>9, <1>10 DEF World

(* zap: the target is linked to the caller, who waits for its pid.         *)
LEMMA CallerZaps ==
    ASSUME NEW pt, NEW qt, NEW fr, NEW gr, NEW n, World(pt, fr, n), TableOK(pt),
           \A s \in Slots : FrameOK(fr[s]),
           NEW p \in Slots, CanRun(pt[p].status), qt[p].status = "ZAP_BLOCKED",
           NEW t \in Slots, t # p, pt[t].status \notin {"EMPTY", "QUIT"}, pt[t].whoZapped = NULL,
           \A s \in Slots : /\ qt[s].pid = pt[s].pid /\ qt[s].parent = pt[s].parent
                            /\ qt[s].children = pt[s].children
                            /\ qt[s].quitChildren = pt[s].quitChildren
                            /\ qt[s].nextWhoZapped = pt[s].nextWhoZapped,
           \A s \in Slots : s # t => qt[s].whoZapped = pt[s].whoZapped /\ qt[s].zapped = pt[s].zapped,
           qt[t].whoZapped = p, qt[t].zapped,
           \A s \in Slots : s # p => qt[s].status = pt[s].status /\ gr[s] = fr[s],
           gr[p].at = "zap", gr[p].arg = pt[t].pid
    PROVE  World(qt, gr, n)
<1>1. /\ fr[p].at \notin {"gone", "quitting"} /\ fr[t].at \notin {"gone", "quitting"}
      /\ p # NULL
  BY DEF World, Placed, CanRun, Slots, NULL
<1>2. \A s \in Slots : /\ gr[s].at = "gone" <=> fr[s].at = "gone"
                       /\ gr[s].at = "quitting" <=> fr[s].at = "quitting"
  BY <1>1
<1>3. PidsKnown(qt, n)
  BY DEF World, PidsKnown, CanRun
<1>4. Placed(qt, gr)
  <2>1. \A s \in Slots : fr[s].at = "waking" => fr[s].arg \in Slots
    BY DEF FrameOK, Processes
  <2>2. \A s \in Slots : s # p /\ fr[s].at = "waking" => qt[fr[s].arg].status = "BLOCKED"
    BY <2>1 DEF World, Placed, CanRun
  <2> QED BY <2>2 DEF World, Placed, CanRun
<1>5. Family(qt, gr)
  BY <1>2 DEF World, Family
<1>6. Joins(qt, gr)
  BY DEF World, Joins, CanRun
<1>7. \A s \in Slots : WillWake(gr, s) <=> WillWake(fr, s)
  BY <1>1 DEF WillWake
<1>8. \A s \in Slots : pt[s].whoZapped \in Slots \cup {NULL}
  BY EntryTypes
<1>9. Targets(qt, gr)
  <2>1. \A s \in Slots : WillWake(fr, s) /\ pt[s].whoZapped # NULL => pt[s].whoZapped # p
    BY DEF World, Targets, CanRun
  <2>2. ASSUME NEW s \in Slots
        PROVE  LET z == qt[s].whoZapped
               IN WillWake(gr, s) /\ z # NULL => qt[z].status = "ZAP_BLOCKED" /\ gr[z].arg = qt[s].pid
    <3>1. CASE s = t
      BY <1>1, <3>1
    <3>2. CASE s # t
      BY <1>7, <1>8, <2>1, <3>2 DEF World, Targets
    <3> QED BY <3>1, <3>2
  <2>3. \A s \in Slots : qt[s].nextWhoZapped = NULL /\ (qt[s].zapped <=> qt[s].whoZapped # NULL)
    BY <1>1 DEF World, Targets
  <2>4. \A s \in Slots : gr[s].at = "quitting" => s # t /\ s # p
    BY <1>1
  <2> QED BY <2>2, <2>3, <2>4 DEF World, Targets
<1>10. Zappers(qt, gr, n)
  <2>1. ASSUME NEW z \in Slots, qt[z].status = "ZAP_BLOCKED"
        PROVE  \E s \in Slots : qt[s].whoZapped = z /\ WillWake(gr, s)
    <3>1. CASE z = p
      <4>1. WillWake(gr, t)
        BY <1>1, <1>7 DEF WillWake
      <4> QED BY <3>1, <4>1
    <3>2. CASE z # p
      <4>1. PICK s \in Slots : pt[s].whoZapped = z /\ WillWake(fr, s)
        BY <2>1, <3>2 DEF World, Zappers
      <4>2. s # t
        BY <4>1 DEF Slots, NULL
      <4> QED BY <1>7, <4>1, <4>2
    <3> QED BY <3>1, <3>2
  <2>2. pt[t].pid \in 1..(n - 1)
    BY DEF World, PidsKnown
  <2>3. \A s \in Slots : pt[s].status = "QUIT" => qt[s].status = "QUIT"
    BY DEF CanRun
  <2>4. ASSUME NEW z \in Slots, gr[z].at = "zap"
        PROVE  /\ gr[z].arg \in 1..(n - 1)
               /\ qt[z].status = "ZAP_BLOCKED"
                     \/ \A s \in Slots : qt[s].pid = gr[z].arg => qt[s].status = "QUIT"
    <3>1. CASE z = p
      BY <2>2, <3>1
    <3>2. CASE z # p
      BY <2>3, <2>4, <3>2 DEF World, Zappers
    <3> QED BY <3>1, <3>2
  <2> QED BY <2>1, <2>4 DEF Zappers
<1> QED BY <1>3, <1>4, <1>5, <1>6, <1>9, <1>10 DEF World

(* quit: a childless process is on its way to wake its zapper, if any.     *)
LEMMA CallerQuits ==
    ASSUME NEW pt, NEW qt, NEW fr, NEW gr, NEW n, World(pt, fr, n), TableOK(pt),
           \A s \in Slots : FrameOK(fr[s]),
           NEW p \in Slots, CanRun(pt[p].status), qt[p].status = "QUIT",
           pt[p].children = <<>>, pt[p].quitChildren = <<>>,
           \A s \in Slots : Alike(qt[s], pt[s]),
           \A s \in Slots : s # p => qt[s].status = pt[s].status /\ gr[s] = fr[s],
           gr[p].at = "quitting", gr[p].arg = pt[p].whoZapped, gr[p].todo = <<>>
    PROVE  World(qt, gr, n)
<1>1. fr[p].at \notin {"gone", "quitting"}
  BY DEF World, Placed, CanRun
<1>2. \A s \in Slots : gr[s].at = "gone" <=> fr[s].at = "gone"
  BY <1>1
<1>3. PidsKnown(qt, n)
  BY DEF World, PidsKnown, Alike, CanRun
<1>4. Placed(qt, gr)
  <2>1. \A s \in Slots : fr[s].at = "waking" => fr[s].arg \in Slots
    BY DEF FrameOK, Processes
  <2>2. \A s \in Slots : s # p /\ fr[s].at = "waking" => qt[fr[s].arg].status = "BLOCKED"
    BY <2>1 DEF World, Placed, CanRun
  <2> QED BY <2>2 DEF World, Placed, CanRun
<1>5. Family(qt, gr)
  BY <1>2 DEF World, Family, Alike
<1>6. Joins(qt, gr)
  BY DEF World, Joins, Alike, CanRun
<1>7. \A t \in Slots : WillWake(gr, t) <=> WillWake(fr, t) /\ (t = p => pt[p].whoZapped # NULL)
  BY <1>1 DEF WillWake
<1>8. \A t \in Slots : pt[t].whoZapped \in Slots \cup {NULL}
  BY EntryTypes
<1>9. Targets(qt, gr)
  BY <1>1, <1>7, <1>8 DEF World, Targets, Alike, CanRun
<1>10. Zappers(qt, gr, n)
  <2>1. ASSUME NEW z \in Slots, qt[z].status = "ZAP_BLOCKED"
        PROVE  \E s \in Slots : qt[s].whoZapped = z /\ WillWake(gr, s)
    <3>1. PICK s \in Slots : pt[s].whoZapped = z /\ WillWake(fr, s)
      BY <2>1 DEF World, Zappers
    <3>2. z # NULL
      BY DEF Slots, NULL
    <3> QED BY <1>7, <3>1, <3>2 DEF Alike
  <2>2. \A z \in Slots : gr[z].at = "zap" => z # p /\ gr[z] = fr[z]
    OBVIOUS
  <2>3. \A t \in Slots : qt[t].pid = pt[t].pid /\ (pt[t].status = "QUIT" => qt[t].status = "QUIT")
    BY DEF Alike, CanRun
  <2> QED BY <2>1, <2>2, <2>3 DEF World, Zappers
<1> QED BY <1>3, <1>4, <1>5, <1>6, <1>9, <1>10 DEF World

(* unblockZappers visits the zapper, the only one.                         *)
LEMMA ZapperVisited ==
    ASSUME NEW pt, NEW fr, NEW gr, NEW n, World(pt, fr, n), TableOK(pt),
           NEW p \in Slots, fr[p].at = "quitting", fr[p].arg # NULL,
           \A s \in Slots : s # p => gr[s] = fr[s],
           gr[p].at = "quitting", gr[p].arg = NULL, gr[p].todo = <<fr[p].arg>>
    PROVE  World(pt, gr, n)
<1>1. fr[p].arg = pt[p].whoZapped
  BY DEF World, Targets
<1>2. \A s \in Slots : gr[s].at = fr[s].at
  OBVIOUS
<1>3. Placed(pt, gr)
  BY <1>2 DEF World, Placed
<1>4. Family(pt, gr)
  BY <1>2 DEF World, Family
<1>5. Joins(pt, gr)
  BY DEF World, Joins
<1>6. \A t \in Slots : WillWake(gr, t) <=> WillWake(fr, t)
  <2>1. <<fr[p].arg>> # <<>>
    OBVIOUS
  <2> QED BY <2>1 DEF WillWake
<1>7. \A t \in Slots : pt[t].whoZapped \in Slots \cup {NULL}
  BY EntryTypes
<1>8. \A z \in Slots : pt[z].status = "ZAP_BLOCKED" => z # p
  BY DEF World, Placed
<1>9. Targets(pt, gr)
  BY <1>1, <1>6, <1>7, <1>8 DEF World, Targets
<1>10. Zappers(pt, gr, n)
  BY <1>6 DEF World, Zappers
<1> QED BY <1>3, <1>4, <1>5, <1>9, <1>10 DEF World

(* unblockZappers makes the zapper ready: its target has quit.             *)
LEMMA ZapperReady ==
    ASSUME NEW pt, NEW qt, NEW fr, NEW gr, NEW n, World(pt, fr, n), TableOK(pt),
           \A s \in Slots : FrameOK(fr[s]),
           NEW p \in Slots, fr[p].at = "quitting",
           NEW z \in Slots, fr[p].arg = NULL, fr[p].todo = <<z>>,
           \A s \in Slots : Alike(qt[s], pt[s]),
           \A s \in Slots : s # z => qt[s].status = pt[s].status,
           qt[z].status = "READY",
           \A s \in Slots : s # p => gr[s] = fr[s],
           gr[p].at = "quitting", gr[p].arg = NULL, gr[p].todo = <<>>
    PROVE  World(qt, gr, n)
<1>1. /\ WillWake(fr, p) /\ pt[p].whoZapped = z /\ z # NULL
      /\ pt[z].status = "ZAP_BLOCKED" /\ fr[z].arg = pt[p].pid /\ pt[p].status = "QUIT"
  <2>1. <<z>> # <<>> /\ <<z>>[1] = z /\ z # NULL
    BY DEF Slots, NULL
  <2>2. WillWake(fr, p)
    BY <2>1 DEF WillWake
  <2>3. pt[p].whoZapped = z
    <3>1. PICK w : w = pt[p].whoZapped
      OBVIOUS
    <3>2. fr[p].todo = <<w>>
      BY <2>1, <3>1 DEF World, Targets
    <3>3. <<w>>[1] = w
      OBVIOUS
    <3> QED BY <2>1, <3>1, <3>2, <3>3
  <2> QED BY <2>1, <2>2, <2>3 DEF World, Targets, Placed
<1>2. \A s \in Slots : gr[s].at = fr[s].at
  OBVIOUS
<1>3. PidsKnown(qt, n)
  BY <1>1 DEF World, PidsKnown, Alike
<1>4. Placed(qt, gr)
  <2>1. \A s \in Slots : fr[s].at = "waking" => fr[s].arg \in Slots /\ s # p
    BY DEF FrameOK, Processes
  <2>2. \A s \in Slots : fr[s].at = "waking" => qt[fr[s].arg].status = "BLOCKED"
    BY <1>1, <2>1 DEF World, Placed
  <2> QED BY <1>1, <1>2, <2>1, <2>2 DEF World, Placed
<1>5. Family(qt, gr)
  BY <1>2 DEF World, Family, Alike
<1>6. Joins(qt, gr)
  BY <1>1 DEF World, Joins, Alike
<1>7. \A t \in Slots : WillWake(gr, t) <=> WillWake(fr, t) /\ t # p
  BY DEF WillWake
<1>8. \A t \in Slots : pt[t].whoZapped \in Slots \cup {NULL}
  BY EntryTypes
<1>9. \A t \in Slots : pt[t].pid = pt[p].pid => t = p
  <2>1. pt[p].pid \in 1..(n - 1) /\ Hash(pt[p].pid) = p
    BY <1>1 DEF World, PidsKnown
  <2>2. \A t \in Slots : pt[t].status # "EMPTY" => Hash(pt[t].pid) = t
    BY DEF World, PidsKnown
  <2>3. \A t \in Slots : pt[t].status = "EMPTY" => pt[t].pid = -1
    BY DEF World, PidsKnown
  <2>4. pt[p].pid # -1
    BY <2>1
  <2> QED BY <2>1, <2>2, <2>3, <2>4
<1>10. \A t \in Slots : WillWake(fr, t) /\ pt[t].whoZapped = z => t = p
  BY <1>1, <1>9 DEF World, Targets
<1>11. \A y \in Slots : pt[y].status = "ZAP_BLOCKED" => y # p
  BY <1>1
<1>12. Targets(qt, gr)
  <2>1. ASSUME NEW t \in Slots, WillWake(gr, t), qt[t].whoZapped # NULL
        PROVE  qt[qt[t].whoZapped].status = "ZAP_BLOCKED" /\ gr[qt[t].whoZapped].arg = qt[t].pid
    <3>1. PICK y \in Slots : y = qt[t].whoZapped /\ y = pt[t].whoZapped
      BY <1>8, <2>1 DEF Alike
    <3>2. y # z /\ pt[y].status = "ZAP_BLOCKED" /\ fr[y].arg = pt[t].pid
      BY <1>1, <1>7, <1>10, <2>1, <3>1 DEF World, Targets
    <3> QED BY <1>11, <3>1, <3>2 DEF Alike
  <2> QED BY <2>1 DEF World, Targets, Alike
<1>13. Zappers(qt, gr, n)
  <2>1. ASSUME NEW y \in Slots, qt[y].status = "ZAP_BLOCKED"
        PROVE  \E s \in Slots : qt[s].whoZapped = y /\ WillWake(gr, s)
    <3>1. y # z /\ pt[y].status = "ZAP_BLOCKED"
      BY <2>1
    <3>2. PICK s \in Slots : pt[s].whoZapped = y /\ WillWake(fr, s)
      BY <3>1 DEF World, Zappers
    <3> QED BY <1>1, <1>7, <3>1, <3>2 DEF Alike
  <2>2. ASSUME NEW y \in Slots, gr[y].at = "zap"
        PROVE  /\ gr[y].arg \in 1..(n - 1)
               /\ qt[y].status = "ZAP_BLOCKED"
                     \/ \A s \in Slots : qt[s].pid = gr[y].arg => qt[s].status = "QUIT"
    <3>1. gr[y] = fr[y]
      BY <2>2
    <3>2. \A t \in Slots : pt[t].status = "QUIT" => qt[t].status = "QUIT"
      BY <1>1
    <3>3. CASE y = z
      BY <1>1, <1>9, <2>2, <3>1, <3>2, <3>3 DEF World, Zappers, Alike
    <3>4. CASE y # z
      BY <2>2, <3>1, <3>2, <3>4 DEF World, Zappers, Alike
    <3> QED BY <3>3, <3>4
  <2> QED BY <2>1, <2>2 DEF Zappers
<1> QED BY <1>1, <1>3, <1>4, <1>5, <1>6, <1>12, <1>13 DEF World

(* What the end of the quit of p does to the tables pt and fr: its mother m *)
(* lists it with the dead, and is woken if she waits in join.              *)
ChildLeft(pt, qt, fr, gr, p, m) ==
    /\ p \in Slots /\ fr[p].at = "quitting" /\ fr[p].arg = NULL /\ fr[p].todo = <<>>
    /\ m \in Slots /\ pt[p].parent = m /\ fr[m].at # "joinReap"
    /\ \A s \in Slots : s # m => /\ qt[s].children = pt[s].children
                                 /\ qt[s].quitChildren = pt[s].quitChildren
                                 /\ qt[s].status = pt[s].status
    /\ qt[m].children = RemoveFirst(pt[m].children, p)
    /\ qt[m].quitChildren = Append(pt[m].quitChildren, p)
    /\ qt[m].status = IF pt[m].status = "JOIN_BLOCKED" THEN "READY" ELSE pt[m].status
    /\ \A s \in Slots : /\ qt[s].pid = pt[s].pid /\ qt[s].parent = pt[s].parent
                        /\ qt[s].whoZapped = pt[s].whoZapped
                        /\ qt[s].nextWhoZapped = pt[s].nextWhoZapped
                        /\ qt[s].zapped = pt[s].zapped
    /\ \A s \in Slots : s # p => gr[s] = fr[s]
    /\ gr[p].at = "gone"

(* The end of the quit of a child: its mother finds it on her quit list,   *)
(* and is ready if she waited in join.                                     *)
LEMMA ChildGone ==
    ASSUME NEW pt, NEW qt, NEW fr, NEW gr, NEW n, World(pt, fr, n), TableOK(pt),
           \A s \in Slots : FrameOK(fr[s]), NEW p, NEW m, ChildLeft(pt, qt, fr, gr, p, m)
    PROVE  World(qt, gr, n)
<1>0. /\ p \in Slots /\ fr[p].at = "quitting" /\ fr[p].arg = NULL /\ fr[p].todo = <<>>
      /\ m \in Slots /\ pt[p].parent = m /\ fr[m].at # "joinReap"
      /\ \A s \in Slots : s # m => /\ qt[s].children = pt[s].children
                                   /\ qt[s].quitChildren = pt[s].quitChildren
                                   /\ qt[s].status = pt[s].status
      /\ qt[m].children = RemoveFirst(pt[m].children, p)
      /\ qt[m].quitChildren = Append(pt[m].quitChildren, p)
      /\ qt[m].status = IF pt[m].status = "JOIN_BLOCKED" THEN "READY" ELSE pt[m].status
      /\ \A s \in Slots : /\ qt[s].pid = pt[s].pid /\ qt[s].parent = pt[s].parent
                          /\ qt[s].whoZapped = pt[s].whoZapped
                          /\ qt[s].nextWhoZapped = pt[s].nextWhoZapped
                          /\ qt[s].zapped = pt[s].zapped
      /\ \A s \in Slots : s # p => gr[s] = fr[s]
      /\ gr[p].at = "gone"
  BY DEF ChildLeft
<1> USE <1>0
<1>1. pt[p].status = "QUIT"
  BY DEF World, Placed
<1>2. Lists(pt[m].children, p) /\ ~Lists(pt[m].quitChildren, p)
  BY DEF World, Family
<1>3. fr[m].at \notin {"gone", "quitting"}
  <2>1. pt[m].children # <<>>
    <3>1. PICK q : q = pt[m].children
      OBVIOUS
    <3>2. Lists(q, p) => q # <<>>
      <4>1. Len(<<>>) = 0
        OBVIOUS
      <4> QED BY <4>1 DEF Lists
    <3> QED BY <1>2, <3>1, <3>2
  <2> QED BY <2>1 DEF World, Family
<1>4. m # p
  BY <1>3
<1>5. PidsKnown(qt, n)
  BY <1>1 DEF World, PidsKnown
<1>6. Placed(qt, gr)
  <2>1. \A s \in Slots : fr[s].at = "waking" => fr[s].arg \in Slots
    BY DEF FrameOK, Processes
  <2>2. \A s \in Slots : fr[s].at = "waking" => qt[fr[s].arg].status = "BLOCKED"
    BY <2>1 DEF World, Placed
  <2> QED BY <1>1, <1>4, <2>2 DEF World, Placed
<1>7. /\ NoTwice(qt[m].children) /\ NoTwice(qt[m].quitChildren)
      /\ \A x : Lists(qt[m].children, x) <=> Lists(pt[m].children, x) /\ x # p
      /\ \A x : Lists(qt[m].quitChildren, x) <=> Lists(pt[m].quitChildren, x) \/ x = p
      /\ qt[m].quitChildren # <<>>
  <2>1. pt[m].children \in Seq(Slots) /\ pt[m].quitChildren \in Seq(Slots)
    BY EntryTypes
  <2>2. NoTwice(pt[m].children) /\ NoTwice(pt[m].quitChildren)
    BY DEF World, Family
  <2>3. /\ NoTwice(qt[m].children)
        /\ \A x : Lists(qt[m].children, x) <=> Lists(pt[m].children, x) /\ x # p
    BY <1>2, <2>1, <2>2, RemoveLists
  <2>4. /\ NoTwice(qt[m].quitChildren) /\ qt[m].quitChildren # <<>>
        /\ \A x : Lists(qt[m].quitChildren, x) <=> Lists(pt[m].quitChildren, x) \/ x = p
    BY <1>2, <2>1, <2>2, AppendLists
  <2> QED BY <2>3, <2>4
<1>8. Family(qt, gr)
  <2>1. ASSUME NEW h \in Slots, h # m
        PROVE  /\ NoTwice(qt[h].children) /\ NoTwice(qt[h].quitChildren)
               /\ \A s \in Slots :
                     /\ Lists(qt[h].children, s) <=> qt[s].parent = h /\ gr[s].at # "gone"
                     /\ Lists(qt[h].quitChildren, s) <=> qt[s].parent = h /\ gr[s].at = "gone"
               /\ gr[h].at \in {"gone", "quitting"} => qt[h].children = <<>> /\ qt[h].quitChildren = <<>>
    <3>1. \A s \in Slots : s # p => gr[s].at = fr[s].at
      OBVIOUS
    <3>2. gr[h].at \in {"gone", "quitting"} => fr[h].at \in {"gone", "quitting"}
      OBVIOUS
    <3>3. qt[h].children = pt[h].children /\ qt[h].quitChildren = pt[h].quitChildren
      BY <2>1
    <3> QED BY <2>1, <3>1, <3>2, <3>3 DEF World, Family
  <2>2. \A s \in Slots :
           /\ Lists(qt[m].children, s) <=> qt[s].parent = m /\ gr[s].at # "gone"
           /\ Lists(qt[m].quitChildren, s) <=> qt[s].parent = m /\ gr[s].at = "gone"
    <3>1. SUFFICES ASSUME NEW s \in Slots
                   PROVE  /\ Lists(qt[m].children, s) <=> qt[s].parent = m /\ gr[s].at # "gone"
                          /\ Lists(qt[m].quitChildren, s) <=> qt[s].parent = m /\ gr[s].at = "gone"
      OBVIOUS
    <3>2. /\ Lists(pt[m].children, s) <=> pt[s].parent = m /\ fr[s].at # "gone"
          /\ Lists(pt[m].quitChildren, s) <=> pt[s].parent = m /\ fr[s].at = "gone"
      BY DEF World, Family
    <3>3. CASE s = p
      BY <1>7, <3>3
    <3>4. CASE s # p
      BY <1>7, <3>2, <3>4
    <3> QED BY <3>3, <3>4
  <2>3. gr[m].at \notin {"gone", "quitting"}
    BY <1>3, <1>4
  <2>4. SUFFICES ASSUME NEW h \in Slots
                 PROVE  /\ NoTwice(qt[h].children) /\ NoTwice(qt[h].quitChildren)
                        /\ \A s \in Slots :
                              /\ Lists(qt[h].children, s) <=> qt[s].parent = h /\ gr[s].at # "gone"
                              /\ Lists(qt[h].quitChildren, s) <=> qt[s].parent = h /\ gr[s].at = "gone"
                        /\ gr[h].at \in {"gone", "quitting"}
                              => qt[h].children = <<>> /\ qt[h].quitChildren = <<>>
    BY DEF Family
  <2>5. CASE h # m
    BY <2>1, <2>5
  <2>6. CASE h = m
    BY <1>7, <2>2, <2>3, <2>6
  <2> QED BY <2>5, <2>6
<1>9. Joins(qt, gr)
  <2>1. ASSUME NEW h \in Slots, h # m
        PROVE  LET quitters == qt[h].quitChildren
               IN /\ qt[h].status = "JOIN_BLOCKED" => quitters = <<>> /\ qt[h].children # <<>>
                  /\ gr[h].at = "join" => qt[h].status = "JOIN_BLOCKED" \/ quitters # <<>>
                  /\ gr[h].at = "joinReap" => /\ quitters # <<>> /\ gr[h].arg = Head(quitters)
                                              /\ gr[h].todo = Tail(quitters)
    BY <2>1 DEF World, Joins
  <2>2. qt[m].status # "JOIN_BLOCKED" /\ gr[m].at # "joinReap"
    BY <1>4
  <2> QED BY <1>7, <2>1, <2>2 DEF Joins
<1>10. \A t \in Slots : WillWake(gr, t) <=> WillWake(fr, t)
  BY DEF WillWake
<1>11. \A t \in Slots : pt[t].whoZapped \in Slots \cup {NULL}
  BY EntryTypes
<1>12. \A z \in Slots : /\ qt[z].status = "ZAP_BLOCKED" <=> pt[z].status = "ZAP_BLOCKED"
                        /\ pt[z].status = "ZAP_BLOCKED" => z # p
                        /\ qt[z].status = "QUIT" <=> pt[z].status = "QUIT"
  BY <1>1
<1>13. Targets(qt, gr)
  BY <1>10, <1>11, <1>12 DEF World, Targets
<1>14. Zappers(qt, gr, n)
  BY <1>10, <1>12 DEF World, Zappers
<1> QED BY <1>5, <1>6, <1>8, <1>9, <1>13, <1>14 DEF World

(* What freeing the slot p of a dead process does to the tables pt and fr. *)
Freed(pt, qt, fr, gr, p) ==
    /\ p \in Slots /\ pt[p].status = "QUIT" /\ ~WillWake(fr, p)
    /\ fr[p].at = "gone" \/ pt[p].parent = NULL
    /\ qt[p] = EmptyProc /\ gr[p].at = "gone"
    /\ \A s \in Slots : s # p => /\ qt[s].pid = pt[s].pid /\ qt[s].parent = pt[s].parent
                                 /\ qt[s].children = pt[s].children
                                 /\ qt[s].whoZapped = pt[s].whoZapped
                                 /\ qt[s].nextWhoZapped = pt[s].nextWhoZapped
                                 /\ qt[s].zapped = pt[s].zapped
                                 /\ qt[s].status = pt[s].status
    /\ \A s \in Slots : s # p => \/ gr[s] = fr[s] /\ qt[s].quitChildren = pt[s].quitChildren
                                 \/ fr[s].at = "joinReap" /\ gr[s] = InUser
    /\ \A s \in Slots : s # p => /\ NoTwice(qt[s].quitChildren)
                                 /\ \A x \in Slots : Lists(qt[s].quitChildren, x)
                                                  <=> Lists(pt[s].quitChildren, x) /\ x # p

(* A slot is freed whose process is gone, or is start1 at the end of quit: *)
(* join has taken it off its mother's list.                                *)
LEMMA SlotFreed ==
    ASSUME NEW pt, NEW qt, NEW fr, NEW gr, NEW n, World(pt, fr, n), TableOK(pt),
           \A s \in Slots : FrameOK(fr[s]), NEW p, Freed(pt, qt, fr, gr, p)
    PROVE  World(qt, gr, n)
<1>0. /\ p \in Slots /\ pt[p].status = "QUIT" /\ ~WillWake(fr, p)
      /\ fr[p].at = "gone" \/ pt[p].parent = NULL
      /\ qt[p] = EmptyProc /\ gr[p].at = "gone"
      /\ \A s \in Slots : s # p => /\ qt[s].pid = pt[s].pid /\ qt[s].parent = pt[s].parent
                                   /\ qt[s].children = pt[s].children
                                   /\ qt[s].whoZapped = pt[s].whoZapped
                                   /\ qt[s].nextWhoZapped = pt[s].nextWhoZapped
                                   /\ qt[s].zapped = pt[s].zapped
                                   /\ qt[s].status = pt[s].status
      /\ \A s \in Slots : s # p => \/ gr[s] = fr[s] /\ qt[s].quitChildren = pt[s].quitChildren
                                   \/ fr[s].at = "joinReap" /\ gr[s] = InUser
      /\ \A s \in Slots : s # p => /\ NoTwice(qt[s].quitChildren)
                                   /\ \A x \in Slots : Lists(qt[s].quitChildren, x)
                                                    <=> Lists(pt[s].quitChildren, x) /\ x # p
  BY DEF Freed
<1> USE <1>0
<1>1. /\ qt[p].pid = -1 /\ qt[p].parent = NULL /\ qt[p].status = "EMPTY"
      /\ qt[p].children = <<>> /\ qt[p].quitChildren = <<>>
      /\ qt[p].whoZapped = NULL /\ qt[p].nextWhoZapped = NULL /\ ~qt[p].zapped
  BY DEF EmptyProc
<1>2. fr[p].at \in {"gone", "quitting"} /\ pt[p].children = <<>> /\ pt[p].quitChildren = <<>>
  <2>1. fr[p].at \in {"gone", "quitting"}
    BY DEF World, Placed
  <2> QED BY <2>1 DEF World, Family
<1>3. \A x : ~Lists(<<>>, x)
  <2>1. Len(<<>>) = 0
    OBVIOUS
  <2> QED BY <2>1 DEF Lists
<1>4. \A s \in Slots : pt[s].parent # p
  BY <1>2, <1>3 DEF World, Family
<1>5. InUser.at = "user"
  BY DEF InUser, At
<1>6. PidsKnown(qt, n)
  BY <1>1 DEF World, PidsKnown
<1>7. Placed(qt, gr)
  <2>1. \A s \in Slots : fr[s].at = "waking" => fr[s].arg \in Slots /\ fr[s].arg # p
    BY DEF FrameOK, Processes, World, Placed
  <2>2. \A s \in Slots : s # p /\ gr[s].at = "waking" => gr[s] = fr[s]
    BY <1>5
  <2>3. \A s \in Slots : gr[s].at = "waking" => qt[gr[s].arg].status = "BLOCKED"
    BY <2>1, <2>2 DEF World, Placed
  <2>4. \A s \in Slots : s # p => gr[s].at = fr[s].at \/ (fr[s].at = "joinReap" /\ gr[s].at = "user")
    BY <1>5
  <2> QED BY <1>1, <2>3, <2>4 DEF World, Placed
<1>8. Family(qt, gr)
  <2>1. ASSUME NEW h \in Slots, h # p
        PROVE  /\ NoTwice(qt[h].children) /\ NoTwice(qt[h].quitChildren)
               /\ \A s \in Slots :
                     /\ Lists(qt[h].children, s) <=> qt[s].parent = h /\ gr[s].at # "gone"
                     /\ Lists(qt[h].quitChildren, s) <=> qt[s].parent = h /\ gr[s].at = "gone"
               /\ gr[h].at \in {"gone", "quitting"} => qt[h].children = <<>> /\ qt[h].quitChildren = <<>>
    <3>1. NoTwice(qt[h].children) /\ NoTwice(qt[h].quitChildren)
      BY <2>1 DEF World, Family
    <3>2. ASSUME NEW s \in Slots
          PROVE  /\ Lists(qt[h].children, s) <=> qt[s].parent = h /\ gr[s].at # "gone"
                 /\ Lists(qt[h].quitChildren, s) <=> qt[s].parent = h /\ gr[s].at = "gone"
      <4>1. CASE s = p
        <5>1. h # NULL
          BY DEF Slots, NULL
        <5>2. ~Lists(pt[h].children, p)
          BY <5>1 DEF World, Family
        <5> QED BY <1>1, <2>1, <4>1, <5>1, <5>2
      <4>2. CASE s # p
        <5>1. gr[s].at = "gone" <=> fr[s].at = "gone"
          BY <1>5, <4>2
        <5> QED BY <2>1, <4>2, <5>1 DEF World, Family
      <4> QED BY <4>1, <4>2
    <3>3. gr[h].at \in {"gone", "quitting"} => qt[h].children = <<>> /\ qt[h].quitChildren = <<>>
      BY <1>5, <2>1 DEF World, Family
    <3> QED BY <3>1, <3>2, <3>3
  <2>2. /\ NoTwice(qt[p].children) /\ NoTwice(qt[p].quitChildren)
    <3>1. Len(<<>>) = 0
      OBVIOUS
    <3> QED BY <1>1, <3>1 DEF NoTwice
  <2>3. \A s \in Slots : /\ qt[s].parent # p
                         /\ ~Lists(qt[p].children, s) /\ ~Lists(qt[p].quitChildren, s)
    BY <1>1, <1>3, <1>4 DEF Slots, NULL
  <2> QED BY <1>1, <2>1, <2>2, <2>3 DEF Family
<1>9. Joins(qt, gr)
  <2>1. ASSUME NEW h \in Slots, h # p
        PROVE  LET quitters == qt[h].quitChildren
               IN /\ qt[h].status = "JOIN_BLOCKED" => quitters = <<>> /\ qt[h].children # <<>>
                  /\ gr[h].at = "join" => qt[h].status = "JOIN_BLOCKED" \/ quitters # <<>>
                  /\ gr[h].at = "joinReap" => /\ quitters # <<>> /\ gr[h].arg = Head(quitters)
                                              /\ gr[h].todo = Tail(quitters)
    <3>1. CASE gr[h] = fr[h] /\ qt[h].quitChildren = pt[h].quitChildren
      BY <2>1, <3>1 DEF World, Joins
    <3>2. CASE fr[h].at = "joinReap" /\ gr[h] = InUser
      <4>1. qt[h].status # "JOIN_BLOCKED"
        BY <2>1, <3>2 DEF World, Placed
      <4> QED BY <1>5, <3>2, <4>1
    <3> QED BY <2>1, <3>1, <3>2
  <2> QED BY <1>1, <2>1 DEF Joins
<1>10. \A t \in Slots : t # p => (WillWake(gr, t) <=> WillWake(fr, t))
  BY <1>5 DEF WillWake
<1>11. \A t \in Slots : pt[t].whoZapped \in Slots \cup {NULL}
  BY EntryTypes
<1>12. \A z \in Slots : pt[z].status = "ZAP_BLOCKED" => z # p /\ fr[z].at = "zap" /\ gr[z] = fr[z]
  BY DEF World, Placed
<1>13. Targets(qt, gr)
  <2>1. \A t \in Slots : gr[t].at = "quitting" => t # p /\ gr[t] = fr[t]
    BY <1>5
  <2>2. ASSUME NEW t \in Slots, WillWake(gr, t), qt[t].whoZapped # NULL
        PROVE  qt[qt[t].whoZapped].status = "ZAP_BLOCKED" /\ gr[qt[t].whoZapped].arg = qt[t].pid
    <3>1. t # p
      BY <1>1, <2>2
    <3>2. PICK y \in Slots : y = qt[t].whoZapped /\ y = pt[t].whoZapped
      BY <1>11, <2>2, <3>1
    <3>3. pt[y].status = "ZAP_BLOCKED" /\ fr[y].arg = pt[t].pid
      BY <1>10, <2>2, <3>1, <3>2 DEF World, Targets
    <3> QED BY <1>12, <3>1, <3>2, <3>3
  <2>3. \A t \in Slots : qt[t].nextWhoZapped = NULL /\ (qt[t].zapped <=> qt[t].whoZapped # NULL)
    BY <1>1 DEF World, Targets
  <2> QED BY <2>1, <2>2, <2>3 DEF World, Targets
<1>14. Zappers(qt, gr, n)
  <2>1. ASSUME NEW y \in Slots, qt[y].status = "ZAP_BLOCKED"
        PROVE  \E s \in Slots : qt[s].whoZapped = y /\ WillWake(gr, s)
    <3>1. y # p /\ pt[y].status = "ZAP_BLOCKED"
      BY <1>1, <2>1
    <3>2. PICK s \in Slots : pt[s].whoZapped = y /\ WillWake(fr, s)
      BY <3>1 DEF World, Zappers
    <3>3. s # p
      BY <3>2
    <3> QED BY <1>10, <3>2, <3>3
  <2>2. ASSUME NEW y \in Slots, gr[y].at = "zap"
        PROVE  /\ gr[y].arg \in 1..(n - 1)
               /\ qt[y].status = "ZAP_BLOCKED"
                     \/ \A s \in Slots : qt[s].pid = gr[y].arg => qt[s].status = "QUIT"
    <3>1. y # p /\ gr[y] = fr[y]
      BY <1>5, <2>2
    <3>2. fr[y].arg \in 1..(n - 1)
      BY <2>2, <3>1 DEF World, Zappers
    <3>3. fr[y].arg # -1
      BY <3>2
    <3> QED BY <1>1, <2>2, <3>1, <3>2, <3>3 DEF World, Zappers
  <2> QED BY <2>1, <2>2 DEF Zappers
<1> QED BY <1>6, <1>7, <1>8, <1>9, <1>13, <1>14 DEF World

(* The end of unblockProc: a process that blockMe blocked is ready.        *)
LEMMA TargetReady ==
    ASSUME NEW pt, NEW qt, NEW fr, NEW gr, NEW n, World(pt, fr, n), TableOK(pt),
           NEW p \in Slots, CanRun(pt[p].status), fr[p].at = "waking",
           \A s \in Slots : s # p => fr[s].at # "waking",
           NEW t \in Slots, t = fr[p].arg,
           \A s \in Slots : Alike(qt[s], pt[s]),
           \A s \in Slots : s # t => qt[s].status = pt[s].status,
           qt[t].status = "READY",
           \A s \in Slots : s # p => gr[s] = fr[s],
           gr[p].at = "unblockProc"
    PROVE  World(qt, gr, n)
<1>1. pt[t].status = "BLOCKED" /\ t # p
  BY DEF World, Placed, CanRun
<1>2. \A s \in Slots : /\ gr[s].at = "gone" <=> fr[s].at = "gone"
                       /\ gr[s].at = "quitting" <=> fr[s].at = "quitting"
  OBVIOUS
<1>3. PidsKnown(qt, n)
  BY <1>1 DEF World, PidsKnown, Alike
<1>4. Placed(qt, gr)
  BY <1>1 DEF World, Placed, CanRun
<1>5. Family(qt, gr)
  BY <1>2 DEF World, Family, Alike
<1>6. Joins(qt, gr)
  BY <1>1 DEF World, Joins, Alike
<1>7. \A s \in Slots : WillWake(gr, s) <=> WillWake(fr, s)
  BY DEF WillWake
<1>8. \A s \in Slots : pt[s].whoZapped \in Slots \cup {NULL}
  BY EntryTypes
<1>9. \A z \in Slots : /\ qt[z].status = "ZAP_BLOCKED" <=> pt[z].status = "ZAP_BLOCKED"
                       /\ pt[z].status = "ZAP_BLOCKED" => z # p
                       /\ qt[z].status = "QUIT" <=> pt[z].status = "QUIT"
  BY <1>1 DEF CanRun
<1>10. Targets(qt, gr)
  BY <1>7, <1>8, <1>9 DEF World, Targets, Alike
<1>11. Zappers(qt, gr, n)
  <2>1. \A z \in Slots : gr[z].at = "zap" => gr[z] = fr[z]
    OBVIOUS
  <2> QED BY <1>7, <1>9, <2>1 DEF World, Zappers, Alike
<1> QED BY <1>1, <1>3, <1>4, <1>5, <1>6, <1>10, <1>11 DEF World

(* What fork1 makes of the tables pt and fr: process p has a child in the   *)
(* free slot c, with pid i.                                                *)
Forked(pt, qt, fr, gr, n, m, p, c, i) ==
    /\ p \in Slots /\ c \in Slots /\ CanRun(pt[p].status) /\ pt[c].status = "EMPTY"
    /\ Hash(i) = c /\ i \in 1..(m - 1)
    /\ \A j \in 1..(n - 1) : j \in 1..(m - 1) /\ j # i
    /\ qt[c].pid = i /\ qt[c].status = "READY" /\ qt[c].parent = p
    /\ qt[c].children = <<>> /\ qt[c].quitChildren = <<>>
    /\ qt[c].whoZapped = NULL /\ qt[c].nextWhoZapped = NULL /\ ~qt[c].zapped
    /\ \A s \in Slots : s # c => /\ qt[s].pid = pt[s].pid /\ qt[s].parent = pt[s].parent
                                 /\ qt[s].quitChildren = pt[s].quitChildren
                                 /\ qt[s].whoZapped = pt[s].whoZapped
                                 /\ qt[s].nextWhoZapped = pt[s].nextWhoZapped
                                 /\ qt[s].zapped = pt[s].zapped
                                 /\ qt[s].status = pt[s].status
    /\ \A s \in Slots : s \notin {c, p} => qt[s].children = pt[s].children /\ gr[s] = fr[s]
    /\ qt[p].children = Append(pt[p].children, c)
    /\ gr[p].at = "fork1" /\ gr[c].at = "user"

(* fork1: a free slot gets a pid that nobody had, and its mother lists it. *)
LEMMA ChildMade ==
    ASSUME NEW pt, NEW qt, NEW fr, NEW gr, NEW n, World(pt, fr, n), TableOK(pt),
           \A s \in Slots : FrameOK(fr[s]),
           NEW m, NEW p, NEW c, NEW i, Forked(pt, qt, fr, gr, n, m, p, c, i)
    PROVE  World(qt, gr, m)
<1>0. /\ p \in Slots /\ c \in Slots /\ CanRun(pt[p].status) /\ pt[c].status = "EMPTY"
      /\ Hash(i) = c /\ i \in 1..(m - 1)
      /\ \A j \in 1..(n - 1) : j \in 1..(m - 1) /\ j # i
      /\ qt[c].pid = i /\ qt[c].status = "READY" /\ qt[c].parent = p
      /\ qt[c].children = <<>> /\ qt[c].quitChildren = <<>>
      /\ qt[c].whoZapped = NULL /\ qt[c].nextWhoZapped = NULL /\ ~qt[c].zapped
      /\ \A s \in Slots : s # c => /\ qt[s].pid = pt[s].pid /\ qt[s].parent = pt[s].parent
                                   /\ qt[s].quitChildren = pt[s].quitChildren
                                   /\ qt[s].whoZapped = pt[s].whoZapped
                                   /\ qt[s].nextWhoZapped = pt[s].nextWhoZapped
                                   /\ qt[s].zapped = pt[s].zapped
                                   /\ qt[s].status = pt[s].status
      /\ \A s \in Slots : s \notin {c, p} => qt[s].children = pt[s].children /\ gr[s] = fr[s]
      /\ qt[p].children = Append(pt[p].children, c)
      /\ gr[p].at = "fork1" /\ gr[c].at = "user"
  BY DEF Forked
<1> USE <1>0
<1>1. /\ fr[c].at = "gone" /\ c # p /\ fr[p].at \notin {"gone", "quitting"}
      /\ pt[c].pid = -1 /\ pt[c].parent = NULL /\ c # NULL /\ p # NULL
  BY DEF World, Placed, PidsKnown, CanRun, Slots, NULL
<1>2. \A x : ~Lists(<<>>, x)
  <2>1. Len(<<>>) = 0
    OBVIOUS
  <2> QED BY <2>1 DEF Lists
<1>3. \A s \in Slots : pt[s].parent # c
  BY <1>1, <1>2 DEF World, Family
<1>4. PidsKnown(qt, m)
  <2>1. ASSUME NEW s \in Slots
        PROVE  IF qt[s].status = "EMPTY" THEN qt[s].pid = -1 /\ qt[s].parent = NULL
               ELSE qt[s].pid \in 1..(m - 1) /\ Hash(qt[s].pid) = s
    <3>1. CASE s = c
      BY <3>1
    <3>2. CASE s # c
      BY <3>2 DEF World, PidsKnown
    <3> QED BY <3>1, <3>2
  <2> QED BY <2>1 DEF PidsKnown
<1>5. Placed(qt, gr)
  <2>1. \A s \in Slots : fr[s].at = "waking" => fr[s].arg \in Slots /\ fr[s].arg # c
    BY DEF FrameOK, Processes, World, Placed
  <2>2. \A s \in Slots : gr[s].at = "waking" => s # c /\ gr[s] = fr[s]
    OBVIOUS
  <2>3. \A s \in Slots : gr[s].at = "waking" => qt[gr[s].arg].status = "BLOCKED"
    BY <2>1, <2>2 DEF World, Placed
  <2> QED BY <1>1, <2>3 DEF World, Placed, CanRun
<1>6. /\ NoTwice(qt[p].children)
      /\ \A x : Lists(qt[p].children, x) <=> Lists(pt[p].children, x) \/ x = c
  <2>1. pt[p].children \in Seq(Slots)
    BY EntryTypes
  <2>2. NoTwice(pt[p].children)
    BY DEF World, Family
  <2>3. ~Lists(pt[p].children, c)
    BY <1>1 DEF World, Family
  <2> QED BY <2>1, <2>2, <2>3, AppendLists
<1>7. Family(qt, gr)
  <2>1. SUFFICES ASSUME NEW h \in Slots
                 PROVE  /\ NoTwice(qt[h].children) /\ NoTwice(qt[h].quitChildren)
                        /\ \A s \in Slots :
                              /\ Lists(qt[h].children, s) <=> qt[s].parent = h /\ gr[s].at # "gone"
                              /\ Lists(qt[h].quitChildren, s) <=> qt[s].parent = h /\ gr[s].at = "gone"
                        /\ gr[h].at \in {"gone", "quitting"}
                              => qt[h].children = <<>> /\ qt[h].quitChildren = <<>>
    BY DEF Family
  <2>2. CASE h = c
    <3>1. NoTwice(qt[h].children) /\ NoTwice(qt[h].quitChildren)
      <4>1. Len(<<>>) = 0
        OBVIOUS
      <4> QED BY <2>2, <4>1 DEF NoTwice
    <3>2. \A s \in Slots : qt[s].parent # c
      BY <1>1, <1>3
    <3> QED BY <1>2, <2>2, <3>1, <3>2
  <2>3. CASE h # c
    <3>1. NoTwice(qt[h].children) /\ NoTwice(qt[h].quitChildren)
      BY <1>6, <2>3 DEF World, Family
    <3>2. ASSUME NEW s \in Slots
          PROVE  /\ Lists(qt[h].children, s) <=> qt[s].parent = h /\ gr[s].at # "gone"
                 /\ Lists(qt[h].quitChildren, s) <=> qt[s].parent = h /\ gr[s].at = "gone"
      <4>1. /\ Lists(pt[h].children, s) <=> pt[s].parent = h /\ fr[s].at # "gone"
            /\ Lists(pt[h].quitChildren, s) <=> pt[s].parent = h /\ fr[s].at = "gone"
        BY DEF World, Family
      <4>2. Lists(qt[h].quitChildren, s) <=> Lists(pt[h].quitChildren, s)
        BY <2>3
      <4>3. Lists(qt[h].children, s) <=> Lists(pt[h].children, s) \/ (s = c /\ h = p)
        BY <1>6, <2>3
      <4>4. CASE s = c
        BY <1>1, <2>3, <4>1, <4>2, <4>3, <4>4 DEF Slots, NULL
      <4>5. CASE s # c
        <5>1. gr[s].at = "gone" <=> fr[s].at = "gone"
          BY <1>1, <4>5
        <5> QED BY <2>3, <4>1, <4>2, <4>3, <4>5, <5>1
      <4> QED BY <4>4, <4>5
    <3>3. gr[h].at \in {"gone", "quitting"} => qt[h].children = <<>> /\ qt[h].quitChildren = <<>>
      BY <2>3 DEF World, Family
    <3> QED BY <3>1, <3>2, <3>3
  <2> QED BY <2>2, <2>3
<1>8. Joins(qt, gr)
  <2>1. SUFFICES ASSUME NEW h \in Slots
                 PROVE  LET quitters == qt[h].quitChildren
                        IN /\ qt[h].status = "JOIN_BLOCKED" => quitters = <<>> /\ qt[h].children # <<>>
                           /\ gr[h].at = "join" => qt[h].status = "JOIN_BLOCKED" \/ quitters # <<>>
                           /\ gr[h].at = "joinReap" => /\ quitters # <<>> /\ gr[h].arg = Head(quitters)
                                                       /\ gr[h].todo = Tail(quitters)
    BY DEF Joins
  <2>2. CASE h \in {c, p}
    BY <1>1, <2>2 DEF CanRun
  <2>3. CASE h \notin {c, p}
    BY <2>3 DEF World, Joins
  <2> QED BY <2>2, <2>3
<1>9. \A t \in Slots : t # c => (WillWake(gr, t) <=> WillWake(fr, t))
  BY <1>1 DEF WillWake
<1>10. ~WillWake(fr, c)
  BY <1>1 DEF WillWake
<1>11. \A t \in Slots : pt[t].whoZapped \in Slots \cup {NULL}
  BY EntryTypes
<1>12. \A z \in Slots : pt[z].status = "ZAP_BLOCKED" => z \notin {c, p}
  BY DEF CanRun
<1>13. Targets(qt, gr)
  <2>1. \A t \in Slots : gr[t].at = "quitting" => t \notin {c, p}
    OBVIOUS
  <2>2. ASSUME NEW t \in Slots, WillWake(gr, t), qt[t].whoZapped # NULL
        PROVE  qt[qt[t].whoZapped].status = "ZAP_BLOCKED" /\ gr[qt[t].whoZapped].arg = qt[t].pid
    <3>1. t # c
      BY <2>2
    <3>2. PICK y \in Slots : y = qt[t].whoZapped /\ y = pt[t].whoZapped
      BY <1>11, <2>2, <3>1
    <3>3. pt[y].status = "ZAP_BLOCKED" /\ fr[y].arg = pt[t].pid
      BY <1>9, <2>2, <3>1, <3>2 DEF World, Targets
    <3> QED BY <1>12, <3>1, <3>2, <3>3
  <2>3. \A t \in Slots : qt[t].nextWhoZapped = NULL /\ (qt[t].zapped <=> qt[t].whoZapped # NULL)
    BY DEF World, Targets
  <2> QED BY <2>1, <2>2, <2>3 DEF World, Targets
<1>14. Zappers(qt, gr, m)
  <2>1. ASSUME NEW y \in Slots, qt[y].status = "ZAP_BLOCKED"
        PROVE  \E s \in Slots : qt[s].whoZapped = y /\ WillWake(gr, s)
    <3>1. pt[y].status = "ZAP_BLOCKED"
      BY <2>1
    <3>2. PICK s \in Slots : pt[s].whoZapped = y /\ WillWake(fr, s)
      BY <3>1 DEF World, Zappers
    <3>3. s # c
      BY <1>10, <3>2
    <3> QED BY <1>9, <3>2, <3>3
  <2>2. ASSUME NEW y \in Slots, gr[y].at = "zap"
        PROVE  /\ gr[y].arg \in 1..(m - 1)
               /\ qt[y].status = "ZAP_BLOCKED"
                     \/ \A s \in Slots : qt[s].pid = gr[y].arg => qt[s].status = "QUIT"
    <3>1. y \notin {c, p} /\ gr[y] = fr[y]
      BY <2>2
    <3>2. fr[y].arg \in 1..(n - 1)
      BY <2>2, <3>1 DEF World, Zappers
    <3>3. fr[y].arg # i /\ fr[y].arg \in 1..(m - 1)
      BY <3>2
    <3>4. pt[y].status = "ZAP_BLOCKED" \/ \A s \in Slots : pt[s].pid = fr[y].arg => pt[s].status = "QUIT"
      BY <2>2, <3>1 DEF World, Zappers
    <3>5. qt[y].status = pt[y].status
      BY <3>1
    <3>6. \A s \in Slots : qt[s].pid = fr[y].arg
                           => s # c /\ pt[s].pid = fr[y].arg /\ qt[s].status = pt[s].status
      BY <3>3
    <3> QED BY <3>1, <3>3, <3>4, <3>5, <3>6
  <2> QED BY <2>1, <2>2 DEF Zappers
<1> QED BY <1>4, <1>5, <1>7, <1>8, <1>13, <1>14 DEF World

(* fork1 with a full table only moves nextPid on.                          *)
LEMMA PidsPassed ==
    ASSUME NEW pt, NEW fr, NEW n, World(pt, fr, n), n \in Nat, NEW m \in Nat, n <= m
    PROVE  World(pt, fr, m)
<1>1. \A i \in 1..(n - 1) : i \in 1..(m - 1)
  OBVIOUS
<1>2. PidsKnown(pt, m)
  BY <1>1 DEF World, PidsKnown
<1>3. Zappers(pt, fr, m)
  BY <1>1 DEF World, Zappers
<1> QED BY <1>2, <1>3 DEF World
-----------------------------------------------------------------------------
(* The actions keep the invariant of careful programs.                     *)

(* What an action may cite: the running process can run until it quits.    *)
LEMMA CarefulParts ==
    ASSUME CarefulInv
    PROVE  /\ IInv /\ TableOK(ProcTable) /\ ListOK(ReadyList, ProcTable) /\ Current \in Slots
           /\ frame = [s \in Slots |-> frame[s]] /\ \A s \in Slots : FrameOK(frame[s])
           /\ World(ProcTable, frame, nextPid) /\ Exact(ReadyList, ProcTable)
           /\ \A s \in Slots : MidCall(frame[s]) => s = Current
           /\ nextPid \in Nat /\ nextPid > 0
           /\ frame[Current].at # "quitting"
                 => CanRun(ProcTable[Current].status) /\ Lists(ReadyList, Current)
           /\ frame[Current].at = "quitting" => ProcTable[Current].status = "QUIT"
<1>1. IInv /\ World(ProcTable, frame, nextPid) /\ Exact(ReadyList, ProcTable) /\ OneRuns
  BY DEF CarefulInv
<1>2. frame[Current].at # "quitting" => Lists(ReadyList, Current)
  BY <1>1 DEF IInv, CurrentOK, Quitting, Lists
<1>3. nextPid \in Nat /\ nextPid > 0
  BY <1>1, Parts DEF ScalarsOK
<1> QED BY <1>1, <1>2, <1>3, Parts DEF FramesOK, Exact, OneRuns, World, Placed

(* A step of the running process from one place of its calls to another.   *)
LEMMA InCallStep ==
    ASSUME CarefulInv, IInv', frame[Current].at # "quitting",
           NEW f, frame' = [frame EXCEPT ![Current] = f],
           f.at \notin {"gone", "quitting", "zap"},
           f.at = "waking" => f.arg \in Slots /\ ProcTable[f.arg].status = "BLOCKED",
           f.at = "join" => ProcTable[Current].quitChildren # <<>>,
           f.at = "joinReap" => /\ ProcTable[Current].quitChildren # <<>>
                                /\ f.arg = Head(ProcTable[Current].quitChildren)
                                /\ f.todo = Tail(ProcTable[Current].quitChildren),
           UNCHANGED <<ProcTable, ReadyList, Current, nextPid, halted>>
    PROVE  CarefulInv'
<1>1. frame'[Current] = f /\ \A s \in Slots : s # Current => frame'[s] = frame[s]
  BY CarefulParts
<1>2. \A s \in Slots : Alike(ProcTable[s], ProcTable[s])
  BY DEF Alike
<1>3. World(ProcTable, frame', nextPid)
  BY <1>1, <1>2, CarefulParts, CallerMoves, ZenonT(30)
<1>4. OneRuns'
  BY <1>1, CarefulParts DEF CarefulInv, OneRuns, Quitting
<1> QED BY <1>3, <1>4 DEF CarefulInv

LEMMA ReturnIsCareful ==
    ASSUME CarefulInv, IInv', Return
    PROVE  CarefulInv'
<1>1. /\ frame[Current].at # "quitting" /\ frame' = [frame EXCEPT ![Current] = InUser]
      /\ UNCHANGED <<ProcTable, ReadyList, Current, nextPid, halted>>
  BY DEF Return, InCall
<1>2. InUser.at = "user"
  BY DEF InUser, At
<1> QED BY <1>1, <1>2, InCallStep

LEMMA JoinQuitChildIsCareful ==
    ASSUME CarefulInv, IInv', JoinQuitChild
    PROVE  CarefulInv'
<1>f. PICK f : f = At("join", 0, <<>>)
  OBVIOUS
<1>1. /\ frame[Current].at # "quitting" /\ frame' = [frame EXCEPT ![Current] = f]
      /\ ProcTable[Current].quitChildren # <<>>
      /\ UNCHANGED <<ProcTable, ReadyList, Current, nextPid, halted>>
  BY <1>f DEF JoinQuitChild, MayCall, InCall
<1>2. f.at = "join"
  BY <1>f DEF At
<1> QED BY <1>1, <1>2, InCallStep

(* After join has blocked, its caller runs again only when a child has     *)
(* quit: there is a dead child to take.                                    *)
LEMMA JoinTakeIsCareful ==
    ASSUME CarefulInv, IInv', JoinTake
    PROVE  CarefulInv'
<1>q. PICK quitters : quitters = ProcTable[Current].quitChildren
  OBVIOUS
<1>f. PICK f : f = At("joinReap", Head(quitters), Tail(quitters))
  OBVIOUS
<1>1. frame[Current].at = "join" /\ frame[Current].at # "quitting"
  BY DEF JoinTake, InCall
<1>2. ProcTable[Current].status # "JOIN_BLOCKED"
  BY <1>1, CarefulParts DEF CanRun
<1>3. quitters # <<>>
  BY <1>1, <1>2, <1>q, CarefulParts DEF World, Joins
<1>4. /\ frame' = [frame EXCEPT ![Current] = f]
      /\ UNCHANGED <<ProcTable, ReadyList, Current, nextPid, halted>>
  BY <1>3, <1>q, <1>f DEF JoinTake
<1>5. f.at = "joinReap" /\ f.arg = Head(quitters) /\ f.todo = Tail(quitters)
  BY <1>f DEF At
<1> QED BY <1>1, <1>3, <1>4, <1>5, <1>q, InCallStep

LEMMA UnblockProcIsCareful ==
    ASSUME CarefulInv, IInv', NEW t \in Slots, UnblockProc(t)
    PROVE  CarefulInv'
<1>f. PICK f : f = At("waking", t, <<>>)
  OBVIOUS
<1>1. /\ frame[Current].at # "quitting" /\ frame' = [frame EXCEPT ![Current] = f]
      /\ ProcTable[t].status = "BLOCKED"
      /\ UNCHANGED <<ProcTable, ReadyList, Current, nextPid, halted>>
  BY <1>f DEF UnblockProc, MayCall, InCall, BlockedByBlockMe
<1>2. f.at = "waking" /\ f.arg = t
  BY <1>f DEF At
<1> QED BY <1>1, <1>2, InCallStep

(* Steps that leave the table, the list and the frames alone.              *)
LEMMA FailingCallIsCareful ==
    ASSUME CarefulInv, IInv', Fork1Fails \/ JoinNoChild \/ ZapQuitProcess
    PROVE  CarefulInv'
<1>1. /\ UNCHANGED <<ProcTable, ReadyList, Current, frame, halted>>
      /\ nextPid' \in Nat /\ nextPid <= nextPid'
  BY CarefulParts, TableAssumption DEF Fork1Fails, JoinNoChild, ZapQuitProcess
<1>2. World(ProcTable, frame, nextPid')
  BY <1>1, CarefulParts, PidsPassed
<1>3. OneRuns'
  BY <1>1 DEF CarefulInv, OneRuns, Quitting
<1> QED BY <1>1, <1>2, <1>3 DEF CarefulInv

(* The caller of join or blockMe blocks: it is off the list, and can run   *)
(* no more.                                                                *)
LEMMA BlockingCall ==
    ASSUME CarefulInv, IInv', Current # SENTINEL, frame[Current].at # "quitting", halted' = "no",
           NEW st, NEW f, NEW pt, pt = WithStatus(ProcTable, Current, st),
           \/ st = "BLOCKED" /\ f.at = "blockMe"
           \/ /\ st = "JOIN_BLOCKED" /\ f.at = "join"
              /\ ProcTable[Current].quitChildren = <<>> /\ ProcTable[Current].children # <<>>,
           frame' = [frame EXCEPT ![Current] = f],
           Dispatch(pt, RemoveFromReadyList(ReadyList, Current)), UNCHANGED nextPid
    PROVE  CarefulInv'
<1>r. PICK rl : rl = RemoveFromReadyList(ReadyList, Current)
  OBVIOUS
<1>1. Current \in Processes /\ st \in Statuses
  BY CarefulParts DEF Processes, Statuses
<1>2. frame'[Current] = f /\ \A s \in Slots : s # Current => frame'[s] = frame[s]
  BY CarefulParts
<1>3. /\ TableOK(pt)
      /\ \A s \in Slots : /\ pt[s].priority = ProcTable[s].priority
                          /\ pt[s].status = IF s = Current THEN st ELSE ProcTable[s].status
  BY <1>1, CarefulParts, StatusUpdate
<1>4. \A s \in Slots : Alike(pt[s], ProcTable[s])
  BY CarefulParts, StatusFields
<1>5. World(pt, frame', nextPid)
  <2>1. /\ World(ProcTable, frame, nextPid) /\ TableOK(ProcTable) /\ Current \in Slots
        /\ \A s \in Slots : FrameOK(frame[s])
        /\ CanRun(ProcTable[Current].status)
    BY CarefulParts
  <2>2. \A s \in Slots : s # Current => pt[s].status = ProcTable[s].status /\ frame'[s] = frame[s]
    BY <1>2, <1>3
  <2>3. /\ frame'[Current].at \in {"join", "blockMe"}
        /\ frame'[Current].at = "join" => pt[Current].status = "JOIN_BLOCKED"
        /\ \/ pt[Current].status = "BLOCKED" /\ frame'[Current].at = "blockMe"
           \/ /\ pt[Current].status = "JOIN_BLOCKED" /\ frame'[Current].at = "join"
              /\ ProcTable[Current].quitChildren = <<>> /\ ProcTable[Current].children # <<>>
    BY <1>2, <1>3, <2>1
  <2>4. /\ frame'[Current].at \notin {"gone", "quitting", "zap"}
        /\ frame'[Current].at = "waking" => frame'[Current].arg \in Slots /\ pt[frame'[Current].arg].status = "BLOCKED"
        /\ frame'[Current].at = "join" => pt[Current].status = "JOIN_BLOCKED" \/ ProcTable[Current].quitChildren # <<>>
        /\ frame'[Current].at = "joinReap" => /\ ProcTable[Current].quitChildren # <<>>
                                    /\ frame'[Current].arg = Head(ProcTable[Current].quitChildren)
                                    /\ frame'[Current].todo = Tail(ProcTable[Current].quitChildren)
        /\ \/ CanRun(pt[Current].status)
           \/ pt[Current].status = "BLOCKED" /\ frame'[Current].at = "blockMe"
           \/ /\ pt[Current].status = "JOIN_BLOCKED" /\ frame'[Current].at = "join"
              /\ ProcTable[Current].quitChildren = <<>> /\ ProcTable[Current].children # <<>>
    BY <2>3
  <2> QED BY ONLY <1>4, <2>1, <2>2, <2>4, CallerMoves
<1>6. ListOK(rl, ProcTable)
  BY <1>r, CarefulParts, CallerRemoved
<1>7. \A i \in 1..Len(rl) : rl[i] \in Slots
  BY <1>6, ElementOfSeq DEF ListOK
<1>8. ListOK(rl, pt)
  BY <1>3, <1>6, <1>7, SamePriorities
<1>9. \A x : Lists(rl, x) <=> Lists(ReadyList, x) /\ x # Current
  BY <1>r, CarefulParts, RemoveExact
<1>10. Exact(rl, pt)
  BY <1>3, <1>9, CarefulParts DEF Exact, CanRun
<1>11. \A s \in Slots : ~MidCall(frame'[s])
  BY <1>2, CarefulParts DEF MidCall
<1>12. Dispatch(pt, rl) /\ Current \in Slots /\ World(pt, frame', nextPid')
  BY <1>5, <1>r, CarefulParts
<1> QED BY <1>3, <1>8, <1>10, <1>11, <1>12, DispatchKeepsCareful

LEMMA JoinBlocksIsCareful ==
    ASSUME CarefulInv, IInv', JoinBlocks
    PROVE  CarefulInv'
<1>p. PICK pt : pt = WithStatus(ProcTable, Current, "JOIN_BLOCKED")
  OBVIOUS
<1>f. PICK f : f = At("join", 0, <<>>)
  OBVIOUS
<1>1. /\ Current # SENTINEL /\ frame[Current].at # "quitting" /\ halted' = "no"
      /\ ProcTable[Current].quitChildren = <<>> /\ ProcTable[Current].children # <<>>
      /\ frame' = [frame EXCEPT ![Current] = f]
      /\ Dispatch(pt, RemoveFromReadyList(ReadyList, Current)) /\ UNCHANGED nextPid
  BY <1>p, <1>f DEF JoinBlocks, MayCall, InCall, WithStatus
<1>2. f.at = "join"
  BY <1>f DEF At
<1> QED BY <1>1, <1>2, <1>p, BlockingCall

LEMMA BlockMeIsCareful ==
    ASSUME CarefulInv, IInv', BlockMe
    PROVE  CarefulInv'
<1>p. PICK pt : pt = WithStatus(ProcTable, Current, "BLOCKED")
  OBVIOUS
<1>f. PICK f : f = At("blockMe", 0, <<>>)
  OBVIOUS
<1>1. /\ Current # SENTINEL /\ frame[Current].at # "quitting" /\ halted' = "no"
      /\ frame' = [frame EXCEPT ![Current] = f]
      /\ Dispatch(pt, RemoveFromReadyList(ReadyList, Current)) /\ UNCHANGED nextPid
  BY <1>p, <1>f DEF BlockMe, MayCall, InCall, WithStatus
<1>2. f.at = "blockMe"
  BY <1>f DEF At
<1> QED BY <1>1, <1>2, <1>p, BlockingCall

(* zap by the only zapper of its target. *)
LEMMA ZapIsCareful ==
    ASSUME CarefulPrograms, CarefulInv, IInv', NEW t \in Slots, Zap(t)
    PROVE  CarefulInv'
<1>p. PICK pt : pt = [ProcTable EXCEPT ![Current].status = "ZAP_BLOCKED",
                                       ![Current].nextWhoZapped = ProcTable[Current].nextWhoZapped,
                                       ![t].zapped = TRUE,
                                       ![t].whoZapped = Current]
  OBVIOUS
<1>f. PICK f : f = At("zap", ProcTable[t].pid, <<>>)
  OBVIOUS
<1>r. PICK rl : rl = RemoveFromReadyList(ReadyList, Current)
  OBVIOUS
<1>1. /\ Current # SENTINEL /\ frame[Current].at # "quitting" /\ halted' = "no" /\ t # Current
      /\ ProcTable[t].status \notin {"EMPTY", "QUIT"} /\ ProcTable[t].whoZapped = NULL
      /\ frame' = [frame EXCEPT ![Current] = f] /\ UNCHANGED nextPid
  BY <1>f DEF Zap, MayCall, InCall, Exists, HasQuit, CarefulPrograms
<1>2. Dispatch(pt, rl)
  BY <1>1, <1>p, <1>r DEF Zap, ZapLink
<1>3. Current \in Processes /\ Current \in Slots /\ CanRun(ProcTable[Current].status)
  BY <1>1, CarefulParts DEF Processes
<1>c. PICK c : c = [ProcTable[Current] EXCEPT !.status = "ZAP_BLOCKED",
                                              !.nextWhoZapped = ProcTable[Current].nextWhoZapped]
  OBVIOUS
<1>d. PICK d : d = [ProcTable[t] EXCEPT !.zapped = TRUE, !.whoZapped = Current]
  OBVIOUS
<1>4. EntryOK(Current, ProcTable[Current]) /\ EntryOK(t, ProcTable[t])
  BY <1>3, CarefulParts DEF TableOK
<1>5. /\ pt = [s \in Slots |-> pt[s]]
      /\ \A s \in Slots : pt[s] = IF s = Current THEN c ELSE IF s = t THEN d ELSE ProcTable[s]
  BY <1>1, <1>3, <1>p, <1>c, <1>d, CarefulParts DEF TableOK
<1>6. /\ EntryOK(Current, c) /\ c.status = "ZAP_BLOCKED"
      /\ c.pid = ProcTable[Current].pid /\ c.parent = ProcTable[Current].parent
      /\ c.children = ProcTable[Current].children /\ c.quitChildren = ProcTable[Current].quitChildren
      /\ c.whoZapped = ProcTable[Current].whoZapped /\ c.zapped = ProcTable[Current].zapped
      /\ c.nextWhoZapped = ProcTable[Current].nextWhoZapped /\ c.priority = ProcTable[Current].priority
  BY <1>3, <1>4, <1>c DEF EntryOK, ProcStruct, Statuses, Processes
<1>7. /\ EntryOK(t, d) /\ d.whoZapped = Current /\ d.zapped
      /\ d.pid = ProcTable[t].pid /\ d.parent = ProcTable[t].parent
      /\ d.children = ProcTable[t].children /\ d.quitChildren = ProcTable[t].quitChildren
      /\ d.nextWhoZapped = ProcTable[t].nextWhoZapped /\ d.priority = ProcTable[t].priority
      /\ d.status = ProcTable[t].status
  BY <1>3, <1>4, <1>d DEF EntryOK, ProcStruct, Statuses, Processes
<1>8. TableOK(pt)
  BY <1>5, <1>6, <1>7, CarefulParts DEF TableOK
<1>9. /\ \A s \in Slots : /\ pt[s].pid = ProcTable[s].pid /\ pt[s].parent = ProcTable[s].parent
                          /\ pt[s].children = ProcTable[s].children
                          /\ pt[s].quitChildren = ProcTable[s].quitChildren
                          /\ pt[s].nextWhoZapped = ProcTable[s].nextWhoZapped
      /\ \A s \in Slots : s # t => /\ pt[s].whoZapped = ProcTable[s].whoZapped
                                   /\ pt[s].zapped = ProcTable[s].zapped
      /\ pt[t].whoZapped = Current /\ pt[t].zapped
      /\ pt[Current].status = "ZAP_BLOCKED"
      /\ \A s \in Slots : pt[s].priority = ProcTable[s].priority
  BY <1>1, <1>3, <1>5, <1>6, <1>7
<1>10. /\ frame'[Current].at = "zap" /\ frame'[Current].arg = ProcTable[t].pid
       /\ \A s \in Slots : s # Current => pt[s].status = ProcTable[s].status /\ frame'[s] = frame[s]
  BY <1>1, <1>3, <1>5, <1>7, <1>f, CarefulParts DEF At
<1>11. World(pt, frame', nextPid)
  <2>1. /\ World(ProcTable, frame, nextPid) /\ TableOK(ProcTable) /\ Current \in Slots
        /\ \A s \in Slots : FrameOK(frame[s])
    BY CarefulParts
  <2>2. /\ t \in Slots /\ t # Current
        /\ ProcTable[t].status \notin {"EMPTY", "QUIT"} /\ ProcTable[t].whoZapped = NULL
    BY <1>1
  <2> QED BY ONLY <1>3, <1>9, <1>10, <2>1, <2>2, CallerZaps
<1>12. ListOK(rl, ProcTable)
  BY <1>1, <1>r, CarefulParts, CallerRemoved
<1>13. \A i \in 1..Len(rl) : rl[i] \in Slots
  BY <1>12, ElementOfSeq DEF ListOK
<1>14. ListOK(rl, pt)
  BY <1>9, <1>12, <1>13, SamePriorities
<1>15. \A x : Lists(rl, x) <=> Lists(ReadyList, x) /\ x # Current
  BY <1>1, <1>r, CarefulParts, RemoveExact
<1>16. Exact(rl, pt)
  BY <1>9, <1>10, <1>15, CarefulParts DEF Exact, CanRun
<1>17. \A s \in Slots : ~MidCall(frame'[s])
  BY <1>10, CarefulParts DEF MidCall
<1>18. World(pt, frame', nextPid')
  BY <1>1, <1>11
<1> QED BY <1>1, <1>2, <1>3, <1>8, <1>14, <1>16, <1>17, <1>18, DispatchKeepsCareful

(* quit by a process that has joined its dead children. *)
LEMMA QuitIsCareful ==
    ASSUME CarefulPrograms, CarefulInv, IInv', Quit
    PROVE  CarefulInv'
<1>f. PICK f : f = At("quitting", IF ProcTable[Current].zapped THEN ProcTable[Current].whoZapped
                                  ELSE NULL, <<>>)
  OBVIOUS
<1>1. /\ Current # SENTINEL /\ frame[Current].at # "quitting" /\ halted = "no"
      /\ ProcTable[Current].children = <<>> /\ ProcTable[Current].quitChildren = <<>>
      /\ frame' = [frame EXCEPT ![Current] = f]
      /\ ProcTable' = WithStatus(ProcTable, Current, "QUIT")
      /\ ReadyList' = RemoveFromReadyList(ReadyList, Current)
      /\ UNCHANGED <<Current, nextPid, halted>>
  BY <1>f DEF Quit, MayCall, InCall, CarefulPrograms, WithStatus
<1>2. /\ TableOK(ProcTable) /\ Current \in Slots /\ CanRun(ProcTable[Current].status)
      /\ World(ProcTable, frame, nextPid) /\ \A s \in Slots : FrameOK(frame[s])
  BY <1>1, CarefulParts
<1>3. /\ f.at = "quitting" /\ f.todo = <<>> /\ f.arg = ProcTable[Current].whoZapped
  BY <1>2, <1>f DEF At, World, Targets
<1>4. /\ frame'[Current] = f /\ \A s \in Slots : s # Current => frame'[s] = frame[s]
  BY <1>1, CarefulParts
<1>5. \A s \in Slots : /\ Alike(ProcTable'[s], ProcTable[s])
                       /\ ProcTable'[s].status = IF s = Current THEN "QUIT" ELSE ProcTable[s].status
  BY <1>1, <1>2, StatusFields
<1>6. World(ProcTable', frame', nextPid)
  <2>1. /\ frame'[Current].at = "quitting" /\ frame'[Current].arg = ProcTable[Current].whoZapped
        /\ frame'[Current].todo = <<>> /\ ProcTable'[Current].status = "QUIT"
        /\ \A s \in Slots : Alike(ProcTable'[s], ProcTable[s])
        /\ \A s \in Slots : s # Current => /\ ProcTable'[s].status = ProcTable[s].status
                                           /\ frame'[s] = frame[s]
    BY <1>2, <1>3, <1>4, <1>5
  <2>2. ProcTable[Current].children = <<>> /\ ProcTable[Current].quitChildren = <<>>
    BY <1>1
  <2> QED BY ONLY <1>2, <2>1, <2>2, CallerQuits
<1>7. \A x : Lists(ReadyList', x) <=> Lists(ReadyList, x) /\ x # Current
  BY <1>1, CarefulParts, RemoveExact
<1>8. Exact(ReadyList', ProcTable')
  BY <1>5, <1>7, CarefulParts DEF Exact, CanRun
<1>9. OneRuns'
  BY <1>1, <1>2, <1>3, <1>4, CarefulParts DEF OneRuns, Quitting
<1> QED BY <1>1, <1>6, <1>8, <1>9 DEF CarefulInv

(* unblockZappers visits one zapper at most. *)
LEMMA VisitZapperIsCareful ==
    ASSUME CarefulInv, IInv', VisitZapper
    PROVE  CarefulInv'
<1>z. PICK z : z = frame[Current].arg
  OBVIOUS
<1>1. /\ frame[Current].at = "quitting" /\ z # NULL /\ halted = "no"
  BY <1>z DEF VisitZapper, InCall
<1>2. /\ TableOK(ProcTable) /\ Current \in Slots /\ World(ProcTable, frame, nextPid)
  BY CarefulParts
<1>3. frame[Current].todo = <<>> /\ z = ProcTable[Current].whoZapped
  BY <1>1, <1>2, <1>z DEF World, Targets
<1>4. z \in Slots /\ ProcTable[z].nextWhoZapped = NULL
  BY <1>1, <1>2, <1>3, EntryTypes DEF World, Targets
<1>5. Len(frame[Current].todo) # MAXPROC
  <2>1. Len(<<>>) = 0
    OBVIOUS
  <2> QED BY <1>3, <2>1, TableAssumption
<1>6. Append(<<>>, z) = <<z>>
  OBVIOUS
<1>7. /\ frame' = [frame EXCEPT ![Current] = At("quitting", NULL, <<z>>)]
      /\ UNCHANGED <<ProcTable, ReadyList, Current, nextPid, halted>>
  BY <1>3, <1>4, <1>5, <1>6, <1>z DEF VisitZapper
<1>8. /\ frame'[Current].at = "quitting" /\ frame'[Current].arg = NULL /\ frame'[Current].todo = <<z>>
      /\ \A s \in Slots : s # Current => frame'[s] = frame[s]
  <2>1. frame'[Current] = At("quitting", NULL, <<z>>) /\ \A s \in Slots : s # Current => frame'[s] = frame[s]
    BY <1>7, CarefulParts
  <2> QED BY <2>1 DEF At
<1>9. World(ProcTable, frame', nextPid)
  <2>1. frame'[Current].todo = <<frame[Current].arg>> /\ frame[Current].arg # NULL
    BY <1>1, <1>8, <1>z
  <2> QED BY ONLY <1>1, <1>2, <1>8, <2>1, ZapperVisited
<1>10. OneRuns'
  BY <1>7, <1>8, CarefulParts DEF OneRuns, Quitting
<1> QED BY <1>1, <1>7, <1>9, <1>10 DEF CarefulInv

(* unblockZappers wakes it: it was blocked, and off the list. *)
LEMMA UnblockZapperIsCareful ==
    ASSUME CarefulInv, IInv', UnblockZapper
    PROVE  CarefulInv'
<1>1. /\ frame[Current].at = "quitting" /\ frame[Current].arg = NULL /\ frame[Current].todo # <<>>
      /\ halted = "no"
  BY DEF UnblockZapper, InCall
<1>2. /\ TableOK(ProcTable) /\ Current \in Slots /\ World(ProcTable, frame, nextPid)
      /\ ListOK(ReadyList, ProcTable) /\ \A s \in Slots : FrameOK(frame[s])
  BY CarefulParts
<1>z. PICK z : z = ProcTable[Current].whoZapped
  OBVIOUS
<1>3. frame[Current].todo = <<z>> /\ z # NULL
  BY <1>1, <1>2, <1>z DEF World, Targets
<1>4. z \in Slots /\ Last(<<z>>) = z /\ Front(<<z>>) = <<>>
  <2>1. Len(<<z>>) = 1 /\ <<z>>[1] = z /\ SubSeq(<<z>>, 1, 0) = <<>>
    OBVIOUS
  <2>2. z \in Slots
    BY <1>2, <1>3, <1>z, EntryTypes
  <2> QED BY <2>1, <2>2 DEF Last, Front
<1>5. /\ ProcTable' = WithStatus(ProcTable, z, "READY")
      /\ ReadyList' = AddProcToReadyList(ReadyList, ProcTable, z)
      /\ frame' = [frame EXCEPT ![Current].todo = <<>>]
      /\ UNCHANGED <<Current, nextPid, halted>>
  BY <1>3, <1>4 DEF UnblockZapper, WithStatus
<1>6. /\ frame'[Current].at = "quitting" /\ frame'[Current].arg = NULL /\ frame'[Current].todo = <<>>
      /\ \A s \in Slots : s # Current => frame'[s] = frame[s]
  <2>f. PICK f : f = [frame[Current] EXCEPT !.todo = <<>>]
    OBVIOUS
  <2>1. frame'[Current] = f /\ \A s \in Slots : s # Current => frame'[s] = frame[s]
    BY <1>5, <2>f, CarefulParts
  <2>2. frame[Current] \in Frames
    BY <1>2 DEF FrameOK
  <2>3. f.at = frame[Current].at /\ f.arg = frame[Current].arg /\ f.todo = <<>>
    BY <2>f, <2>2 DEF Frames
  <2> QED BY <1>1, <2>1, <2>3
<1>7. \A s \in Slots : /\ Alike(ProcTable'[s], ProcTable[s])
                       /\ ProcTable'[s].status = IF s = z THEN "READY" ELSE ProcTable[s].status
  BY <1>2, <1>4, <1>5, StatusFields
<1>8. World(ProcTable', frame', nextPid) /\ ProcTable[z].status = "ZAP_BLOCKED"
  <2>1. /\ \A s \in Slots : Alike(ProcTable'[s], ProcTable[s])
        /\ \A s \in Slots : s # z => ProcTable'[s].status = ProcTable[s].status
        /\ ProcTable'[z].status = "READY"
    BY <1>4, <1>7
  <2>2. World(ProcTable', frame', nextPid)
    BY ONLY <1>1, <1>2, <1>3, <1>4, <1>6, <2>1, ZapperReady
  <2>3. ProcTable[z].status = "ZAP_BLOCKED"
    <3>1. <<z>> # <<>>
      OBVIOUS
    <3> QED BY <1>1, <1>2, <1>3, <1>z, <3>1 DEF World, Targets, WillWake
  <2> QED BY <2>2, <2>3
<1>9. \A x : Lists(ReadyList', x) <=> Lists(ReadyList, x) \/ x = z
  <2>1. z \in Processes
    BY <1>2, <1>4, <1>8 DEF Processes, TableOK, EntryOK
  <2>2. ~Lists(ReadyList, z)
    BY <1>4, <1>8, CarefulParts DEF Exact, CanRun
  <2> QED BY <1>2, <1>5, <2>1, <2>2, AddExact
<1>10. Exact(ReadyList', ProcTable')
  BY <1>4, <1>7, <1>9, CarefulParts DEF Exact, CanRun
<1>11. OneRuns'
  BY <1>5, <1>6, CarefulParts DEF OneRuns, Quitting
<1> QED BY <1>1, <1>5, <1>8, <1>10, <1>11 DEF CarefulInv

(* The end of unblockProc: whoever blockMe blocked is still blocked.       *)
LEMMA MakeReadyIsCareful ==
    ASSUME CarefulInv, IInv', MakeReady
    PROVE  CarefulInv'
<1>t. PICK t : t = frame[Current].arg
  OBVIOUS
<1>p. PICK pt : pt = WithStatus(ProcTable, t, "READY")
  OBVIOUS
<1>l. PICK rl : rl = AddProcToReadyList(ReadyList, pt, t)
  OBVIOUS
<1>f. PICK f : f = At("unblockProc", 0, <<>>)
  OBVIOUS
<1>1. /\ frame[Current].at = "waking" /\ halted' = "no" /\ UNCHANGED nextPid
      /\ frame' = [frame EXCEPT ![Current] = f] /\ Dispatch(pt, rl)
  BY <1>t, <1>p, <1>l, <1>f DEF MakeReady, InCall, WithStatus
<1>2. /\ World(ProcTable, frame, nextPid) /\ TableOK(ProcTable) /\ Current \in Slots
      /\ CanRun(ProcTable[Current].status) /\ t \in Processes /\ t \in Slots
      /\ \A s \in Slots : s # Current => frame[s].at # "waking"
  BY <1>1, <1>t, CarefulParts DEF MidCall, FrameOK, Processes
<1>3. ProcTable[t].status = "BLOCKED"
  BY <1>1, <1>2, <1>t DEF World, Placed
<1>4. /\ frame'[Current].at = "unblockProc"
      /\ \A s \in Slots : s # Current => frame'[s] = frame[s]
  BY <1>1, <1>f, CarefulParts DEF At
<1>5. \A s \in Slots : /\ Alike(pt[s], ProcTable[s])
                       /\ pt[s].status = IF s = t THEN "READY" ELSE ProcTable[s].status
  BY <1>2, <1>p, StatusFields
<1>6. World(pt, frame', nextPid)
  <2>1. /\ \A s \in Slots : Alike(pt[s], ProcTable[s])
        /\ \A s \in Slots : s # t => pt[s].status = ProcTable[s].status
        /\ pt[t].status = "READY" /\ frame[Current].at = "waking"
    BY <1>1, <1>2, <1>5
  <2> QED BY ONLY <1>2, <1>4, <1>t, <2>1, TargetReady
<1>7. /\ TableOK(pt) /\ ListOK(ReadyList, pt) /\ ListOK(rl, pt)
  <2>1. ListOK(ReadyList, ProcTable) /\ ListTaken(ReadyList, ProcTable)
    BY CarefulParts DEF IInv
  <2>2. /\ TableOK(pt) /\ ListOK(ReadyList, pt) /\ ListTaken(ReadyList, pt)
        /\ pt[t].status # "EMPTY"
    BY <1>2, <1>p, <2>1, ReadyKeepsList
  <2> QED BY <1>2, <1>l, <2>2, MadeReady
<1>8. \A x : Lists(rl, x) <=> Lists(ReadyList, x) \/ x = t
  <2>1. ~Lists(ReadyList, t)
    BY <1>2, <1>3, CarefulParts DEF Exact, CanRun
  <2> QED BY <1>2, <1>7, <1>l, <2>1, AddExact
<1>9. Exact(rl, pt)
  BY <1>2, <1>5, <1>8, CarefulParts DEF Exact, CanRun
<1>10. \A s \in Slots : ~MidCall(frame'[s])
  BY <1>4, CarefulParts DEF MidCall
<1>11. World(pt, frame', nextPid')
  BY <1>1, <1>6
<1> QED BY <1>1, <1>2, <1>7, <1>9, <1>10, <1>11, DispatchKeepsCareful

(* A time slice ends only outside the system calls. *)
LEMMA TimeSliceIsCareful ==
    ASSUME CarefulPrograms, CarefulInv, IInv', TimeSlice
    PROVE  CarefulInv'
<1>1. /\ frame[Current].at = "user" /\ halted' = "no" /\ UNCHANGED <<nextPid, frame>>
      /\ Dispatch(ProcTable, ReadyList)
  BY DEF TimeSlice, CarefulPrograms
<1>2. \A s \in Slots : ~MidCall(frame'[s])
  BY <1>1, CarefulParts DEF MidCall
<1>3. World(ProcTable, frame', nextPid')
  BY <1>1, CarefulParts
<1> QED BY <1>1, <1>2, <1>3, CarefulParts, DispatchKeepsCareful

(* fork1: the pid fits its field, so that it names the slot it was made for. *)
LEMMA Fork1IsCareful ==
    ASSUME CarefulPrograms, CarefulInv, IInv', NEW prio \in Priorities, Fork1(prio)
    PROVE  CarefulInv'
<1>0. IInv
  BY CarefulParts
<1>1. PICK k \in 0..(MAXPROC - 1), c \in Processes : \E new, pt, rl :
         /\ c = (nextPid + k) % MAXPROC /\ nextPid + k < MaxPid /\ nextPid' = nextPid + k + 1
         /\ c # Current /\ ProcTable[c].status = "EMPTY"
         /\ \A i \in 1..Len(ReadyList) : ReadyList[i] # c
         /\ new = Child(nextPid + k, prio) /\ new \in ProcStruct
         /\ pt = ForkTable(c, new) /\ TableOK(pt)
         /\ rl = AddProcToReadyList(ReadyList, pt, c)
         /\ ListOK(ReadyList, pt) /\ ListTaken(ReadyList, pt)
         /\ ListOK(rl, pt) /\ ListTaken(rl, pt)
         /\ frame' = [frame EXCEPT ![c] = InUser, ![Current] = At("fork1", c, <<>>)]
         /\ Dispatch(pt, rl)
  BY <1>0, Fork1Prepares
<1>2. PICK new, pt, rl :
         /\ c = (nextPid + k) % MAXPROC /\ nextPid + k < MaxPid /\ nextPid' = nextPid + k + 1
         /\ c # Current /\ ProcTable[c].status = "EMPTY"
         /\ \A i \in 1..Len(ReadyList) : ReadyList[i] # c
         /\ new = Child(nextPid + k, prio)
         /\ pt = ForkTable(c, new) /\ TableOK(pt)
         /\ rl = AddProcToReadyList(ReadyList, pt, c)
         /\ ListOK(ReadyList, pt) /\ ListOK(rl, pt)
         /\ frame' = [frame EXCEPT ![c] = InUser, ![Current] = At("fork1", c, <<>>)]
         /\ Dispatch(pt, rl)
  BY <1>1
<1>3. /\ TableOK(ProcTable) /\ Current \in Slots /\ World(ProcTable, frame, nextPid)
      /\ nextPid \in Nat /\ nextPid > 0 /\ \A s \in Slots : FrameOK(frame[s])
      /\ k \in Nat /\ c \in Slots
  BY CarefulParts, TableAssumption DEF Processes
<1>4. halted = "no" /\ halted' = "no" /\ CanRun(ProcTable[Current].status)
  BY CarefulParts DEF Fork1, MayCall, InCall
<1>5. AsShort(nextPid + k) = nextPid + k /\ Hash(nextPid + k) = c
  <2>1. nextPid + k < PidLimit /\ nextPid + k \in Nat
    BY <1>2, <1>3, BoundAssumption DEF CarefulPrograms
  <2>2. ((nextPid + k) + PidLimit) % (2 * PidLimit) = (nextPid + k) + PidLimit
    BY <2>1, BoundAssumption
  <2> QED BY <1>2, <2>1, <2>2, BoundAssumption DEF AsShort, Hash
<1>6. /\ new.pid = nextPid + k /\ new.status = "READY" /\ new.parent = Current
      /\ new.children = <<>> /\ new.quitChildren = <<>>
      /\ new.whoZapped = NULL /\ new.nextWhoZapped = NULL /\ ~new.zapped
  <2>1. new = [pid |-> nextPid + k, priority |-> prio, status |-> "READY",
               parent |-> Current, children |-> <<>>, quitChildren |-> <<>>,
               whoZapped |-> NULL, nextWhoZapped |-> NULL, zapped |-> FALSE]
    BY <1>2, <1>5 DEF Child, EmptyProc
  <2> QED BY <2>1
<1>7. /\ pt[c] = new
      /\ \A s \in Slots : s \notin {c, Current} => pt[s] = ProcTable[s]
      /\ pt[Current] = [ProcTable[Current] EXCEPT !.children = Append(@, c)]
  <2>1. ProcTable = [s \in Slots |-> ProcTable[s]]
    BY <1>3 DEF TableOK
  <2> QED BY <1>2, <1>3, <2>1 DEF ForkTable
<1>8. /\ pt[Current].children = Append(ProcTable[Current].children, c)
      /\ pt[Current].pid = ProcTable[Current].pid /\ pt[Current].parent = ProcTable[Current].parent
      /\ pt[Current].quitChildren = ProcTable[Current].quitChildren
      /\ pt[Current].whoZapped = ProcTable[Current].whoZapped
      /\ pt[Current].nextWhoZapped = ProcTable[Current].nextWhoZapped
      /\ pt[Current].zapped = ProcTable[Current].zapped
      /\ pt[Current].status = ProcTable[Current].status
  <2>1. ProcTable[Current] \in ProcStruct
    BY <1>3 DEF TableOK, EntryOK
  <2> QED BY <1>7, <2>1 DEF ProcStruct
<1>9. /\ frame'[Current].at = "fork1" /\ frame'[c].at = "user"
      /\ \A s \in Slots : s \notin {c, Current} => frame'[s] = frame[s]
  BY <1>2, <1>3, CarefulParts DEF At, InUser
<1>10. /\ pt[c].pid = nextPid + k /\ pt[c].status = "READY" /\ pt[c].parent = Current
       /\ pt[c].children = <<>> /\ pt[c].quitChildren = <<>>
       /\ pt[c].whoZapped = NULL /\ pt[c].nextWhoZapped = NULL /\ ~pt[c].zapped
       /\ \A s \in Slots : s # c => /\ pt[s].pid = ProcTable[s].pid /\ pt[s].parent = ProcTable[s].parent
                                    /\ pt[s].quitChildren = ProcTable[s].quitChildren
                                    /\ pt[s].whoZapped = ProcTable[s].whoZapped
                                    /\ pt[s].nextWhoZapped = ProcTable[s].nextWhoZapped
                                    /\ pt[s].zapped = ProcTable[s].zapped
                                    /\ pt[s].status = ProcTable[s].status
       /\ \A s \in Slots : s \notin {c, Current} => /\ pt[s].children = ProcTable[s].children
                                                    /\ frame'[s] = frame[s]
  BY <1>6, <1>7, <1>8, <1>9, ZenonT(30)
<1>11. World(pt, frame', nextPid + k + 1)
  <2>1. PICK i, m, p, old, fr, gr, n :
           /\ i \in Nat /\ i = nextPid + k /\ m = nextPid + k + 1 /\ n = nextPid
           /\ p = Current /\ old = ProcTable /\ fr = frame /\ gr = frame'
    BY <1>3
  <2>2. /\ World(old, fr, n) /\ TableOK(old) /\ \A s \in Slots : FrameOK(fr[s])
        /\ p \in Slots /\ CanRun(old[p].status) /\ c \in Slots /\ old[c].status = "EMPTY"
    BY <1>2, <1>3, <1>4, <2>1
  <2>3. Hash(i) = c /\ i \in 1..(m - 1) /\ \A j \in 1..(n - 1) : j \in 1..(m - 1) /\ j # i
    BY <1>3, <1>5, <2>1
  <2>4. /\ pt[c].pid = i /\ pt[c].status = "READY" /\ pt[c].parent = p
        /\ pt[c].children = <<>> /\ pt[c].quitChildren = <<>>
        /\ pt[c].whoZapped = NULL /\ pt[c].nextWhoZapped = NULL /\ ~pt[c].zapped
    BY <1>10, <2>1
  <2>5. \A s \in Slots : s # c => /\ pt[s].pid = old[s].pid /\ pt[s].parent = old[s].parent
                                   /\ pt[s].quitChildren = old[s].quitChildren
                                   /\ pt[s].whoZapped = old[s].whoZapped
                                   /\ pt[s].nextWhoZapped = old[s].nextWhoZapped
                                   /\ pt[s].zapped = old[s].zapped
                                   /\ pt[s].status = old[s].status
    BY <1>10, <2>1
  <2>6. /\ \A s \in Slots : s \notin {c, p} => pt[s].children = old[s].children /\ gr[s] = fr[s]
        /\ pt[p].children = Append(old[p].children, c)
        /\ gr[p].at = "fork1" /\ gr[c].at = "user"
    BY <1>8, <1>9, <1>10, <2>1
  <2>7. Forked(old, pt, fr, gr, n, m, p, c, i)
    BY ONLY <2>2, <2>3, <2>4, <2>5, <2>6 DEF Forked
  <2>8. World(pt, gr, m)
    BY ONLY <2>2, <2>7, ChildMade
  <2> QED BY <2>1, <2>8
<1>12. \A x : Lists(rl, x) <=> Lists(ReadyList, x) \/ x = c
  <2>1. ~Lists(ReadyList, c)
    BY <1>2 DEF Lists
  <2> QED BY <1>2, <2>1, AddExact
<1>13. Exact(rl, pt)
  BY <1>3, <1>10, <1>12, CarefulParts DEF Exact, CanRun
<1>14. \A s \in Slots : ~MidCall(frame'[s])
  <2>1. \A s \in Slots : s \notin {c, Current} => ~MidCall(frame'[s])
    BY <1>9, CarefulParts
  <2> QED BY <1>9, <2>1 DEF MidCall
<1>15. World(pt, frame', nextPid')
  BY <1>2, <1>11
<1> QED BY <1>2, <1>3, <1>4, <1>13, <1>14, <1>15, DispatchKeepsCareful

(* What join frees: the oldest of the caller's dead children, which is off *)
(* the ready list and has the slot that its pid names.                     *)
LEMMA JoinReapPrepares ==
    ASSUME CarefulInv, JoinReap
    PROVE  LET child == frame[Current].arg
               quitters == ProcTable[Current].quitChildren
           IN /\ child \in Slots /\ child # Current /\ frame[child].at = "gone"
              /\ ProcTable[child].parent = Current /\ ProcTable[child].status = "QUIT"
              /\ ProcTable' = Zeroed([ProcTable EXCEPT ![Current].quitChildren = Tail(quitters)], {child})
              /\ frame' = [FramesWithout({child}) EXCEPT ![Current] = InUser]
              /\ UNCHANGED <<ReadyList, Current, nextPid, halted>> /\ halted = "no"
              /\ quitters # <<>> /\ child = Head(quitters)
<1>c. PICK child : child = frame[Current].arg
  OBVIOUS
<1>q. PICK quitters : quitters = ProcTable[Current].quitChildren
  OBVIOUS
<1>1. /\ frame[Current].at = "joinReap" /\ halted = "no" /\ Current \in Slots
      /\ World(ProcTable, frame, nextPid) /\ TableOK(ProcTable)
  BY CarefulParts DEF JoinReap, InCall
<1>2. /\ quitters # <<>> /\ child = Head(quitters) /\ frame[Current].todo = Tail(quitters)
      /\ quitters \in Seq(Slots) /\ NoTwice(quitters)
  BY <1>1, <1>c, <1>q, EntryTypes DEF World, Joins, Family
<1>3. Lists(quitters, child) /\ child \in Slots
  <2>1. 1 \in 1..Len(quitters) /\ Head(quitters) = quitters[1]
    BY <1>2, EmptySeq, LenProperties, HeadTailProperties
  <2> QED BY <1>2, <2>1, ElementOfSeq DEF Lists
<1>4. ProcTable[child].parent = Current /\ frame[child].at = "gone"
  BY <1>1, <1>3, <1>q DEF World, Family
<1>5. ProcTable[child].status = "QUIT"
  BY <1>1, <1>3, <1>4 DEF World, Placed, PidsKnown, Slots, NULL
<1>6. MayZero({child})
  <2>1. Hash(ProcTable[child].pid) = child
    BY <1>1, <1>3, <1>5 DEF World, PidsKnown
  <2>2. ~Lists(ReadyList, child)
    BY <1>3, <1>5, CarefulParts DEF Exact, CanRun
  <2> QED BY <2>1, <2>2 DEF MayZero, Lists
<1>7. Tail(quitters) = IF frame[Current].todo = <<>> THEN <<>> ELSE SubSeq(quitters, 2, Len(quitters))
  <2>1. Tail(quitters) = SubSeq(quitters, 2, Len(quitters))
    BY <1>2
  <2> QED BY <1>2, <2>1
<1>8. /\ ProcTable' = Zeroed([ProcTable EXCEPT ![Current].quitChildren = Tail(quitters)], {child})
      /\ frame' = [FramesWithout({child}) EXCEPT ![Current] = InUser]
      /\ UNCHANGED <<ReadyList, Current, nextPid, halted>>
  <2>1. [ProcTable EXCEPT ![Current].quitChildren = IF frame[Current].todo = <<>> THEN <<>>
                                                     ELSE SubSeq(@, 2, Len(@))]
           = [ProcTable EXCEPT ![Current].quitChildren = Tail(quitters)]
    BY <1>7, <1>q
  <2> QED BY <1>6, <1>c, <2>1 DEF JoinReap
<1>9. child # Current
  BY <1>1, <1>4
<1> QED BY <1>1, <1>2, <1>3, <1>4, <1>5, <1>8, <1>9, <1>c, <1>q

LEMMA JoinReapIsCareful ==
    ASSUME CarefulInv, IInv', JoinReap
    PROVE  CarefulInv'
<1>c. PICK child : child = frame[Current].arg
  OBVIOUS
<1>q. PICK quitters : quitters = ProcTable[Current].quitChildren
  OBVIOUS
<1>p. PICK pt : pt = [ProcTable EXCEPT ![Current].quitChildren = Tail(quitters)]
  OBVIOUS
<1>1. /\ child \in Slots /\ child # Current /\ frame[child].at = "gone"
      /\ ProcTable[child].parent = Current /\ ProcTable[child].status = "QUIT"
      /\ ProcTable' = Zeroed(pt, {child})
      /\ frame' = [FramesWithout({child}) EXCEPT ![Current] = InUser]
      /\ UNCHANGED <<ReadyList, Current, nextPid, halted>> /\ halted = "no"
      /\ quitters # <<>> /\ child = Head(quitters)
  BY <1>c, <1>q, <1>p, JoinReapPrepares
<1>2. /\ World(ProcTable, frame, nextPid) /\ TableOK(ProcTable) /\ Current \in Slots
      /\ \A s \in Slots : FrameOK(frame[s])
      /\ frame[Current].at = "joinReap" /\ CanRun(ProcTable[Current].status)
  BY CarefulParts DEF JoinReap, InCall
<1>3. Hash(ProcTable[child].pid) = child
  BY <1>1, <1>2 DEF World, PidsKnown
<1>4. /\ pt[Current] = [ProcTable[Current] EXCEPT !.quitChildren = Tail(quitters)]
      /\ \A s \in Slots : s # Current => pt[s] = ProcTable[s]
  <2>1. ProcTable = [s \in Slots |-> ProcTable[s]]
    BY <1>2 DEF TableOK
  <2> QED BY <1>2, <1>p, <2>1
<1>5. /\ pt[Current].quitChildren = Tail(quitters) /\ pt[Current].children = ProcTable[Current].children
      /\ pt[Current].pid = ProcTable[Current].pid /\ pt[Current].parent = ProcTable[Current].parent
      /\ pt[Current].whoZapped = ProcTable[Current].whoZapped
      /\ pt[Current].nextWhoZapped = ProcTable[Current].nextWhoZapped
      /\ pt[Current].zapped = ProcTable[Current].zapped
      /\ pt[Current].status = ProcTable[Current].status
      /\ pt[Current].priority = ProcTable[Current].priority
  <2>1. ProcTable[Current] \in ProcStruct
    BY <1>2 DEF TableOK, EntryOK
  <2> QED BY <1>4, <2>1 DEF ProcStruct
<1>6. ProcTable'[child] = EmptyProc /\ \A s \in Slots : s # child => ProcTable'[s] = pt[s]
  <2>1. {Hash(pt[q].pid) : q \in {child}} = {child}
    BY <1>1, <1>3, <1>4
  <2> QED BY <1>1, <2>1 DEF Zeroed
<1>7. /\ frame'[child].at = "gone" /\ frame'[Current] = InUser
      /\ \A s \in Slots : s \notin {child, Current} => frame'[s] = frame[s]
  BY <1>1, <1>2 DEF FramesWithout, At
<1>8. /\ NoTwice(Tail(quitters))
      /\ \A x \in Slots : Lists(Tail(quitters), x) <=> Lists(quitters, x) /\ x # child
  <2>1. quitters \in Seq(Slots) /\ NoTwice(quitters)
    BY <1>2, <1>q, EntryTypes DEF World, Family
  <2> QED BY <1>1, <2>1, TailLists
<1>9. ASSUME NEW s \in Slots, s # child
      PROVE  /\ ProcTable'[s].pid = ProcTable[s].pid /\ ProcTable'[s].parent = ProcTable[s].parent
             /\ ProcTable'[s].children = ProcTable[s].children
             /\ ProcTable'[s].whoZapped = ProcTable[s].whoZapped
             /\ ProcTable'[s].nextWhoZapped = ProcTable[s].nextWhoZapped
             /\ ProcTable'[s].zapped = ProcTable[s].zapped
             /\ ProcTable'[s].status = ProcTable[s].status
             /\ ProcTable'[s].priority = ProcTable[s].priority
  BY <1>4, <1>5, <1>6, <1>9
<1>10. ASSUME NEW s \in Slots, s # child
       PROVE  \/ frame'[s] = frame[s] /\ ProcTable'[s].quitChildren = ProcTable[s].quitChildren
              \/ frame[s].at = "joinReap" /\ frame'[s] = InUser
  BY <1>2, <1>4, <1>6, <1>7, <1>10
<1>11. ASSUME NEW s \in Slots, s # child
       PROVE  /\ NoTwice(ProcTable'[s].quitChildren)
              /\ \A x \in Slots : Lists(ProcTable'[s].quitChildren, x)
                                     <=> Lists(ProcTable[s].quitChildren, x) /\ x # child
  <2>1. CASE s = Current
    BY <1>1, <1>5, <1>6, <1>8, <1>q, <1>11, <2>1, ZenonT(30)
  <2>2. CASE s # Current
    <3>1. ProcTable'[s].quitChildren = ProcTable[s].quitChildren
      BY <1>4, <1>6, <1>11, <2>2
    <3>2. NoTwice(ProcTable[s].quitChildren) /\ ~Lists(ProcTable[s].quitChildren, child)
      BY <1>1, <1>2, <2>2 DEF World, Family
    <3> QED BY <3>1, <3>2
  <2> QED BY <2>1, <2>2
<1>12. World(ProcTable', frame', nextPid)
  <2>1. ~WillWake(frame, child)
    BY <1>1 DEF WillWake
  <2>2. Freed(ProcTable, ProcTable', frame, frame', child)
    BY <1>1, <1>6, <1>7, <1>9, <1>10, <1>11, <2>1 DEF Freed
  <2> QED BY ONLY <1>2, <2>2, SlotFreed
<1>13. Exact(ReadyList', ProcTable')
  <2>1. ProcTable'[child].status = "EMPTY"
    BY <1>6 DEF EmptyProc
  <2> QED BY <1>1, <1>9, <2>1, CarefulParts DEF Exact, CanRun
<1>14. OneRuns'
  <2>1. \A s \in Slots : ~MidCall(frame'[s])
    <3>1. \A s \in Slots : s \notin {child, Current} => ~MidCall(frame'[s])
      BY <1>7, CarefulParts
    <3> QED BY <1>7, <3>1 DEF MidCall, InUser, At
  <2>2. \A s \in Slots : CanRun(ProcTable[s].status) => ProcTable[Current].priority <= ProcTable[s].priority
    BY <1>2 DEF CarefulInv, OneRuns, Quitting
  <2>3. ProcTable'[child].status = "EMPTY"
    BY <1>6 DEF EmptyProc
  <2>4. \A s \in Slots : CanRun(ProcTable'[s].status) => ProcTable'[Current].priority <= ProcTable'[s].priority
    BY <1>1, <1>2, <1>9, <2>2, <2>3 DEF CanRun
  <2> QED BY <1>1, <2>1, <2>4 DEF OneRuns
<1> QED BY <1>1, <1>12, <1>13, <1>14 DEF CarefulInv

(* The end of the quit of a child.                                         *)
LEMMA QuitChildIsCareful ==
    ASSUME CarefulInv, IInv', QuitChild
    PROVE  CarefulInv'
<1>m. PICK mother : mother = ProcTable[Current].parent
  OBVIOUS
<1>j. PICK joining \in BOOLEAN : joining = WaitsInJoin(mother)
  BY DEF WaitsInJoin
<1>1. /\ World(ProcTable, frame, nextPid) /\ TableOK(ProcTable) /\ Current \in Slots
      /\ ListOK(ReadyList, ProcTable) /\ \A s \in Slots : FrameOK(frame[s])
      /\ frame[Current].at = "quitting" /\ frame[Current].arg = NULL /\ frame[Current].todo = <<>>
      /\ ProcTable[Current].status = "QUIT"
  BY CarefulParts DEF QuitChild, ZappersAwake, InCall
<1>2. /\ halted' = "no" /\ mother \in Processes /\ mother \in Slots
  BY <1>m, QuitChildPrepares, CarefulParts DEF Processes
<1>3. PICK ct, pt, rl :
         /\ ct = ChildQuits(ProcTable, mother) /\ TableOK(ct)
         /\ pt = IF joining THEN WithStatus(ct, mother, "READY") ELSE ct
         /\ rl = IF joining THEN AddProcToReadyList(ReadyList, pt, mother) ELSE ReadyList
         /\ TableOK(pt) /\ ListOK(ReadyList, pt) /\ ListOK(rl, pt)
         /\ Dispatch(pt, rl) /\ UNCHANGED nextPid
         /\ frame' = [frame EXCEPT ![Current] = At("gone", 0, <<>>)]
  <2>1. IInv
    BY CarefulParts
  <2> QED BY <1>m, <1>j, <2>1, QuitChildPrepares
<1>4. /\ ct[mother].children = RemoveFirst(ProcTable[mother].children, Current)
      /\ ct[mother].quitChildren = Append(ProcTable[mother].quitChildren, Current)
      /\ \A s \in Slots : s # mother => /\ ct[s].children = ProcTable[s].children
                                        /\ ct[s].quitChildren = ProcTable[s].quitChildren
      /\ \A s \in Slots : /\ ct[s].pid = ProcTable[s].pid /\ ct[s].parent = ProcTable[s].parent
                          /\ ct[s].whoZapped = ProcTable[s].whoZapped
                          /\ ct[s].nextWhoZapped = ProcTable[s].nextWhoZapped
                          /\ ct[s].zapped = ProcTable[s].zapped
                          /\ ct[s].status = ProcTable[s].status
  <2>k. PICK kids : kids = RemoveFirst(ProcTable[mother].children, Current)
    OBVIOUS
  <2>u. PICK quitters : quitters = Append(ProcTable[mother].quitChildren, Current)
    OBVIOUS
  <2>e. PICK e : e = [ProcTable[mother] EXCEPT !.children = kids, !.quitChildren = quitters]
    OBVIOUS
  <2>1. ProcTable = [s \in Slots |-> ProcTable[s]] /\ ProcTable[mother] \in ProcStruct
    BY <1>1, <1>2 DEF TableOK, EntryOK
  <2>2. \A s \in Slots : ct[s] = IF s = mother THEN e ELSE ProcTable[s]
    BY <1>3, <2>1, <2>k, <2>u, <2>e DEF ChildQuits, AddToQuitChildList
  <2>3. /\ e.children = kids /\ e.quitChildren = quitters
        /\ e.pid = ProcTable[mother].pid /\ e.parent = ProcTable[mother].parent
        /\ e.whoZapped = ProcTable[mother].whoZapped
        /\ e.nextWhoZapped = ProcTable[mother].nextWhoZapped
        /\ e.zapped = ProcTable[mother].zapped /\ e.status = ProcTable[mother].status
    BY <2>1, <2>e DEF ProcStruct
  <2> QED BY <1>2, <2>2, <2>3, <2>k, <2>u
<1>5. \A s \in Slots : /\ Alike(pt[s], ct[s])
                       /\ pt[s].status = IF s = mother /\ joining THEN "READY" ELSE ct[s].status
  <2>1. CASE joining
    BY <1>2, <1>3, <2>1, StatusFields
  <2>2. CASE ~joining
    BY <1>3, <2>2 DEF Alike
  <2> QED BY <2>1, <2>2
<1>6. joining <=> ProcTable[mother].status = "JOIN_BLOCKED"
  BY <1>j DEF WaitsInJoin
<1>7. frame'[Current].at = "gone" /\ \A s \in Slots : s # Current => frame'[s] = frame[s]
  BY <1>1, <1>3, CarefulParts DEF At
<1>8. World(pt, frame', nextPid)
  <2>1. frame[mother].at # "joinReap"
    BY <1>1, <1>2, CarefulParts DEF MidCall
  <2>2. /\ \A s \in Slots : s # mother => /\ pt[s].children = ProcTable[s].children
                                          /\ pt[s].quitChildren = ProcTable[s].quitChildren
                                          /\ pt[s].status = ProcTable[s].status
        /\ pt[mother].children = RemoveFirst(ProcTable[mother].children, Current)
        /\ pt[mother].quitChildren = Append(ProcTable[mother].quitChildren, Current)
    BY <1>2, <1>4, <1>5 DEF Alike
  <2>3. pt[mother].status = IF ProcTable[mother].status = "JOIN_BLOCKED" THEN "READY"
                            ELSE ProcTable[mother].status
    BY <1>2, <1>4, <1>5, <1>6
  <2>4. \A s \in Slots : /\ pt[s].pid = ProcTable[s].pid /\ pt[s].parent = ProcTable[s].parent
                         /\ pt[s].whoZapped = ProcTable[s].whoZapped
                         /\ pt[s].nextWhoZapped = ProcTable[s].nextWhoZapped
                         /\ pt[s].zapped = ProcTable[s].zapped
    BY <1>4, <1>5 DEF Alike
  <2>5. ChildLeft(ProcTable, pt, frame, frame', Current, mother)
    BY ONLY <1>1, <1>2, <1>7, <1>m, <2>1, <2>2, <2>3, <2>4 DEF ChildLeft
  <2> QED BY ONLY <1>1, <2>5, ChildGone
<1>9. Exact(rl, pt)
  <2>1. CASE joining
    <3>1. ~Lists(ReadyList, mother)
      BY <1>2, <1>6, <2>1, CarefulParts DEF Exact, CanRun
    <3>2. \A x : Lists(rl, x) <=> Lists(ReadyList, x) \/ x = mother
      BY <1>2, <1>3, <2>1, <3>1, AddExact
    <3> QED BY <1>2, <1>4, <1>5, <2>1, <3>2, CarefulParts DEF Exact, CanRun
  <2>2. CASE ~joining
    BY <1>3, <1>4, <1>5, <2>2, CarefulParts DEF Exact, CanRun
  <2> QED BY <2>1, <2>2
<1>10. \A s \in Slots : ~MidCall(frame'[s])
  BY <1>7, CarefulParts DEF MidCall
<1>11. World(pt, frame', nextPid')
  BY <1>3, <1>8
<1> QED BY <1>1, <1>2, <1>3, <1>9, <1>10, <1>11, DispatchKeepsCareful

(* start1 has no children left, and nobody to wake.                        *)
LEMMA QuitParentIsCareful ==
    ASSUME CarefulInv, IInv', QuitParent
    PROVE  CarefulInv'
<1>z. PICK pt : pt = Zeroed(ProcTable, {Current})
  OBVIOUS
<1>1. /\ World(ProcTable, frame, nextPid) /\ TableOK(ProcTable) /\ Current \in Slots
      /\ ListOK(ReadyList, ProcTable) /\ \A s \in Slots : FrameOK(frame[s])
      /\ frame[Current].at = "quitting" /\ frame[Current].arg = NULL /\ frame[Current].todo = <<>>
      /\ ProcTable[Current].status = "QUIT" /\ ProcTable[Current].parent = NULL /\ halted = "no"
  BY CarefulParts DEF QuitParent, ZappersAwake, InCall
<1>2. ToSet(ProcTable[Current].quitChildren) \cup {Current} = {Current}
  <2>1. ProcTable[Current].quitChildren = <<>>
    BY <1>1 DEF World, Family
  <2>2. ToSet(<<>>) = {}
    BY DEF ToSet
  <2> QED BY <2>1, <2>2
<1>3. MayZero({Current}) /\ Hash(ProcTable[Current].pid) = Current
  <2>1. Hash(ProcTable[Current].pid) = Current
    BY <1>1 DEF World, PidsKnown
  <2>2. ~Lists(ReadyList, Current)
    BY <1>1, CarefulParts DEF Exact, CanRun
  <2> QED BY <2>1, <2>2 DEF MayZero, Lists
<1>4. frame' = FramesWithout({Current}) /\ Dispatch(pt, ReadyList) /\ UNCHANGED <<nextPid, halted>>
  BY <1>2, <1>3, <1>z DEF QuitParent
<1>5. pt[Current] = EmptyProc /\ \A s \in Slots : s # Current => pt[s] = ProcTable[s]
  <2>1. {Hash(ProcTable[q].pid) : q \in {Current}} = {Current}
    BY <1>3
  <2> QED BY <1>1, <1>z, <2>1 DEF Zeroed
<1>6. frame'[Current].at = "gone" /\ \A s \in Slots : s # Current => frame'[s] = frame[s]
  BY <1>1, <1>4 DEF FramesWithout, At
<1>7. /\ TableOK(pt) /\ ListOK(ReadyList, pt)
  <2>1. \A q \in {Current} : Hash(ProcTable[q].pid) = q /\ \A i \in 1..Len(ReadyList) : ReadyList[i] # q
    BY <1>3 DEF MayZero
  <2>2. ListTaken(ReadyList, ProcTable) /\ {Current} \in SUBSET Slots
    BY <1>1, CarefulParts DEF IInv
  <2> QED BY <1>1, <1>z, <2>1, <2>2, ZeroedKeeps
<1>8. World(pt, frame', nextPid)
  <2>1. ~WillWake(frame, Current)
    BY <1>1 DEF WillWake
  <2>2. \A s \in Slots : /\ NoTwice(ProcTable[s].quitChildren)
                         /\ ~Lists(ProcTable[s].quitChildren, Current)
    BY <1>1 DEF World, Family
  <2>3. Freed(ProcTable, pt, frame, frame', Current)
    BY <1>1, <1>5, <1>6, <2>1, <2>2 DEF Freed
  <2> QED BY ONLY <1>1, <2>3, SlotFreed
<1>9. Exact(ReadyList, pt)
  <2>1. pt[Current].status = "EMPTY"
    BY <1>5 DEF EmptyProc
  <2> QED BY <1>1, <1>5, <2>1, CarefulParts DEF Exact, CanRun
<1>10. \A s \in Slots : ~MidCall(frame'[s])
  BY <1>6, CarefulParts DEF MidCall
<1>11. World(pt, frame', nextPid') /\ halted' = "no"
  BY <1>1, <1>4, <1>8
<1> QED BY <1>1, <1>4, <1>7, <1>9, <1>10, <1>11, DispatchKeepsCareful

(* Nobody quits with dead children, and nobody that has quit runs again.   *)
LEMMA NeverReached ==
    ASSUME CarefulInv
    PROVE  ~QuitChildAndParent /\ ~QuitReturns
<1>1. frame[Current].at = "quitting" => ProcTable[Current].quitChildren = <<>>
  BY CarefulParts DEF World, Family
<1>2. frame[Current].at # "gone"
  BY CarefulParts DEF World, Placed, CanRun
<1> QED BY <1>1, <1>2 DEF QuitChildAndParent, QuitReturns, ZappersAwake, InCall

(* The program stops by itself, or does nothing that the kernel sees.      *)
LEMMA StopIsCareful ==
    ASSUME CarefulInv, IInv', NEW how, how # "crash", Stop(how) \/ UNCHANGED vars
    PROVE  CarefulInv'
<1>1. UNCHANGED <<ProcTable, ReadyList, Current, nextPid, frame>> /\ halted' # "crash"
  BY DEF CarefulInv, Stop, vars
<1>2. OneRuns'
  BY <1>1 DEF CarefulInv, OneRuns, Quitting
<1> QED BY <1>1, <1>2 DEF CarefulInv
-----------------------------------------------------------------------------
(* What holds of careful programs.                                         *)

LEMMA InitCareful == Init => CarefulInv
<1> SUFFICES ASSUME Init PROVE CarefulInv
  OBVIOUS
<1>i. IInv /\ TableOK(ProcTable)
  BY InitIInv, Parts
<1>1. SENTINEL \in Slots /\ 2 \in Slots /\ SENTINEL = 1 /\ NULL = -1 /\ \A s \in Slots : s # NULL /\ s >= 0
  BY TableAssumption DEF Slots, SENTINEL, NULL
<1>p. PICK pt : pt = ProcTable
  OBVIOUS
<1>f. PICK fr : fr = frame
  OBVIOUS
<1>2. \A s \in Slots :
         /\ pt[s].parent = NULL /\ pt[s].children = <<>> /\ pt[s].quitChildren = <<>>
         /\ pt[s].whoZapped = NULL /\ pt[s].nextWhoZapped = NULL /\ ~pt[s].zapped
         /\ pt[s].status = IF s \in {1, 2} THEN "READY" ELSE "EMPTY"
         /\ pt[s].pid = IF s \in {1, 2} THEN s ELSE -1
         /\ s = 1 => pt[s].priority = 6
         /\ s = 2 => pt[s].priority = 1
  <2>e. PICK e : e = [EmptyProc EXCEPT !.pid = 1, !.priority = 6, !.status = "READY"]
    OBVIOUS
  <2>d. PICK d : d = [EmptyProc EXCEPT !.pid = 2, !.priority = 1, !.status = "READY"]
    OBVIOUS
  <2>1. \A s \in Slots : pt[s] = IF s = 1 THEN e ELSE IF s = 2 THEN d ELSE EmptyProc
    BY <1>p, <2>e, <2>d DEF Init, SENTINEL, SENTINELPRIORITY
  <2>2. e = [pid |-> 1, priority |-> 6, status |-> "READY", parent |-> NULL,
             children |-> <<>>, quitChildren |-> <<>>,
             whoZapped |-> NULL, nextWhoZapped |-> NULL, zapped |-> FALSE]
    BY <2>e DEF EmptyProc
  <2>3. d = [pid |-> 2, priority |-> 1, status |-> "READY", parent |-> NULL,
             children |-> <<>>, quitChildren |-> <<>>,
             whoZapped |-> NULL, nextWhoZapped |-> NULL, zapped |-> FALSE]
    BY <2>d DEF EmptyProc
  <2>4. ASSUME NEW s \in Slots, s = 1
        PROVE  /\ pt[s].parent = NULL /\ pt[s].children = <<>> /\ pt[s].quitChildren = <<>>
               /\ pt[s].whoZapped = NULL /\ pt[s].nextWhoZapped = NULL /\ ~pt[s].zapped
               /\ pt[s].status = "READY" /\ pt[s].pid = 1 /\ pt[s].priority = 6
    BY <2>1, <2>2, <2>4
  <2>5. ASSUME NEW s \in Slots, s = 2
        PROVE  /\ pt[s].parent = NULL /\ pt[s].children = <<>> /\ pt[s].quitChildren = <<>>
               /\ pt[s].whoZapped = NULL /\ pt[s].nextWhoZapped = NULL /\ ~pt[s].zapped
               /\ pt[s].status = "READY" /\ pt[s].pid = 2 /\ pt[s].priority = 1
    BY <2>1, <2>3, <2>5
  <2>6. ASSUME NEW s \in Slots, s \notin {1, 2}
        PROVE  /\ pt[s].parent = NULL /\ pt[s].children = <<>> /\ pt[s].quitChildren = <<>>
               /\ pt[s].whoZapped = NULL /\ pt[s].nextWhoZapped = NULL /\ ~pt[s].zapped
               /\ pt[s].status = "EMPTY" /\ pt[s].pid = -1
    BY <2>1, <2>6 DEF EmptyProc
  <2> QED BY <2>4, <2>5, <2>6
<1>3. /\ \A s \in Slots : fr[s].at = IF s \in {1, 2} THEN "user" ELSE "gone"
      /\ Current = 2 /\ nextPid = 3 /\ ReadyList = <<2, 1>>
      /\ frame[Current].at = "user"
  BY <1>1, <1>f DEF Init, InUser, At
<1>4. \A x : ~Lists(<<>>, x)
  <2>1. Len(<<>>) = 0
    OBVIOUS
  <2> QED BY <2>1 DEF Lists
<1>5. NoTwice(<<>>)
  <2>1. Len(<<>>) = 0
    OBVIOUS
  <2> QED BY <2>1 DEF NoTwice
<1>6. PidsKnown(pt, 3)
  <2>1. Hash(1) = 1 /\ Hash(2) = 2
    BY TableAssumption DEF Hash
  <2> QED BY <1>2, <2>1 DEF PidsKnown
<1>7. Placed(pt, fr)
  BY <1>2, <1>3, <1>f DEF Placed
<1>8. Family(pt, fr)
  BY <1>1, <1>2, <1>4, <1>5 DEF Family
<1>9. Joins(pt, fr)
  BY <1>2, <1>3, <1>f DEF Joins
<1>10. Targets(pt, fr)
  BY <1>2, <1>3, <1>f DEF Targets, WillWake
<1>11. Zappers(pt, fr, 3)
  BY <1>2, <1>3, <1>f DEF Zappers
<1>12. World(ProcTable, frame, nextPid)
  BY <1>3, <1>6, <1>7, <1>8, <1>9, <1>10, <1>11, <1>p, <1>f DEF World
<1>13. Exact(ReadyList, ProcTable)
  <2>1. \A x : Lists(<<2, 1>>, x) <=> x \in {1, 2}
    <3>1. Len(<<2, 1>>) = 2 /\ <<2, 1>>[1] = 2 /\ <<2, 1>>[2] = 1
      OBVIOUS
    <3> QED BY <3>1 DEF Lists
  <2> QED BY <1>2, <1>3, <1>p, <2>1 DEF Exact, CanRun
<1>14. OneRuns
  <2>1. \A s \in Slots : ~MidCall(frame[s])
    BY <1>3, <1>f DEF MidCall
  <2>2. \A s \in Slots : CanRun(ProcTable[s].status) => ProcTable[Current].priority <= ProcTable[s].priority
    BY <1>1, <1>2, <1>3, <1>p DEF CanRun
  <2> QED BY <2>1, <2>2 DEF OneRuns
<1>15. halted # "crash"
  BY DEF Init
<1> QED BY <1>i, <1>12, <1>13, <1>14, <1>15 DEF CarefulInv

LEMMA NextKeepsCareful ==
    ASSUME CarefulPrograms, CarefulInv, [Next]_vars
    PROVE  CarefulInv'
<1>i. IInv'
  BY NextKeepsIInv DEF CarefulInv
<1>1. ASSUME NEW prio \in Priorities, Fork1(prio) PROVE CarefulInv'
  BY <1>i, <1>1, Fork1IsCareful
<1>2. CASE Fork1Fails \/ JoinNoChild \/ ZapQuitProcess
  BY <1>i, <1>2, FailingCallIsCareful
<1>3. CASE Return
  BY <1>i, <1>3, ReturnIsCareful
<1>4. CASE JoinQuitChild
  BY <1>i, <1>4, JoinQuitChildIsCareful
<1>5. CASE JoinBlocks
  BY <1>i, <1>5, JoinBlocksIsCareful
<1>6. CASE JoinTake
  BY <1>i, <1>6, JoinTakeIsCareful
<1>7. CASE JoinReap
  BY <1>i, <1>7, JoinReapIsCareful
<1>8. CASE Quit
  BY <1>i, <1>8, QuitIsCareful
<1>9. CASE VisitZapper
  BY <1>i, <1>9, VisitZapperIsCareful
<1>10. CASE UnblockZapper
  BY <1>i, <1>10, UnblockZapperIsCareful
<1>11. CASE QuitChildAndParent \/ QuitReturns
  BY <1>11, NeverReached
<1>12. CASE QuitChild
  BY <1>i, <1>12, QuitChildIsCareful
<1>13. CASE QuitParent
  BY <1>i, <1>13, QuitParentIsCareful
<1>14. ASSUME NEW t \in Slots, Zap(t) PROVE CarefulInv'
  BY <1>i, <1>14, ZapIsCareful
<1>15. CASE BlockMe
  BY <1>i, <1>15, BlockMeIsCareful
<1>16. ASSUME NEW t \in Slots, UnblockProc(t) PROVE CarefulInv'
  BY <1>i, <1>16, UnblockProcIsCareful
<1>17. CASE MakeReady
  BY <1>i, <1>17, MakeReadyIsCareful
<1>18. CASE TimeSlice
  BY <1>i, <1>18, TimeSliceIsCareful
<1>19. CASE Misuse
  <2>1. Stop("misuse") /\ "misuse" # "crash"
    BY <1>19 DEF Misuse
  <2> QED BY <1>i, <2>1, StopIsCareful
<1>20. CASE CheckDeadlock
  <2>1. PICK how : how \in {"deadlock", "completed"} /\ Stop(how)
    BY <1>20 DEF CheckDeadlock
  <2> QED BY <1>i, <2>1, StopIsCareful
<1>21. CASE ProgramRuns \/ Halted \/ UNCHANGED vars
  <2>1. UNCHANGED vars /\ "no" # "crash"
    BY <1>21 DEF ProgramRuns, Halted
  <2> QED BY <1>i, <2>1, StopIsCareful
<1> QED BY <1>1, <1>2, <1>3, <1>4, <1>5, <1>6, <1>7, <1>8, <1>9, <1>10, <1>11, <1>12, <1>13, <1>14,
           <1>15, <1>16, <1>17, <1>18, <1>19, <1>20, <1>21 DEF Next

(* The invariant holds in every state that careful programs reach. *)
LEMMA AlwaysCareful == ASSUME CarefulPrograms PROVE Spec => []CarefulInv
<1>1. Init => CarefulInv
  BY InitCareful
<1>2. CarefulInv /\ [Next]_vars => CarefulInv'
  BY NextKeepsCareful
<1> QED BY <1>1, <1>2, PTL DEF Spec

(* The ready list of careful programs holds whoever can run, and nobody    *)
(* else: a process is linked and unlinked (phase1.c:730-763, 1107-1121) as *)
(* often as its status changes.                                            *)
THEOREM RunnableListed == ASSUME CarefulPrograms PROVE Spec => []ReadyListComplete
<1>1. ASSUME CarefulInv PROVE ReadyListComplete
  <2>1. ReadyList \in Seq(Slots) /\ DOMAIN ReadyList = 1..Len(ReadyList)
    BY <1>1, CarefulParts, LenProperties DEF ListOK
  <2>2. \A s : Lists(ReadyList, s) <=> s \in ToSet(ReadyList)
    BY <2>1 DEF Lists, ToSet
  <2>3. \A s \in ToSet(ReadyList) : s \in Slots
    BY <2>1, ElementOfSeq DEF ToSet
  <2> QED BY <1>1, <2>2, <2>3, CarefulParts DEF Exact, CanRun, Runnable, ReadyListComplete
<1>2. Spec => []CarefulInv
  BY AlwaysCareful
<1> QED BY <1>1, <1>2, PTL

(* The dispatcher runs a process of the highest priority that can run      *)
(* (phase1.c:588-629): every call that makes one ready ends in it.         *)
THEOREM HighestRuns == ASSUME CarefulPrograms PROVE Spec => []HighestPriorityRuns
<1>1. ASSUME CarefulInv PROVE HighestPriorityRuns
  <2>1. OneRuns /\ TableOK(ProcTable) /\ Current \in Slots
    BY <1>1, CarefulParts DEF CarefulInv
  <2>2. \A s \in Slots : ProcTable[s].priority \in Int
    BY <2>1, EntryTypes
  <2> QED BY <2>1, <2>2 DEF OneRuns, CanRun, Runnable, HighestPriorityRuns
<1>2. Spec => []CarefulInv
  BY AlwaysCareful
<1> QED BY <1>1, <1>2, PTL

(* The child and quit lists of a mother hold her children, living and      *)
(* dead, each once (phase1.c:236-249, 323-378, 394-480).                   *)
THEOREM FamilyKnown == ASSUME CarefulPrograms PROVE Spec => []FamilyListed
<1>1. ASSUME CarefulInv PROVE FamilyListed
  <2>1. /\ World(ProcTable, frame, nextPid) /\ TableOK(ProcTable) /\ Current \in Slots
        /\ \A s \in Slots : MidCall(frame[s]) => s = Current
    BY <1>1, CarefulParts
  <2>2. SUFFICES ASSUME NEW s \in Slots, NEW mother, mother = ProcTable[s].parent,
                        ProcTable[s].status # "EMPTY", mother # NULL,
                        NEW listed, listed = IF Alive(s) \/ (Quitting /\ s = Current)
                                             THEN ProcTable[mother].children
                                             ELSE ProcTable[mother].quitChildren
                 PROVE  /\ Alive(mother)
                        /\ \E i \in 1..Len(listed) :
                             listed[i] = s /\ \A j \in 1..Len(listed) : listed[j] = s => j = i
    BY DEF FamilyListed
  <2>3. mother \in Slots
    BY <2>1, <2>2, EntryTypes
  <2>4. frame[s].at # "gone" <=> Alive(s) \/ (Quitting /\ s = Current)
    BY <2>1, <2>2 DEF World, Placed, Alive, Quitting, MidCall
  <2>5. Lists(listed, s) /\ NoTwice(listed)
    BY <2>1, <2>2, <2>3, <2>4 DEF World, Family
  <2>6. Alive(mother)
    <3>1. ProcTable[mother].children # <<>> \/ ProcTable[mother].quitChildren # <<>>
      <4>1. listed # <<>>
        <5>1. Len(<<>>) = 0
          OBVIOUS
        <5> QED BY <2>5, <5>1 DEF Lists
      <4> QED BY <2>2, <4>1
    <3>2. frame[mother].at \notin {"gone", "quitting"}
      BY <2>1, <2>3, <3>1 DEF World, Family
    <3> QED BY <2>1, <2>3, <3>2 DEF World, Placed, Alive
  <2>7. \E i \in 1..Len(listed) : listed[i] = s /\ \A j \in 1..Len(listed) : listed[j] = s => j = i
    BY <2>5 DEF Lists, NoTwice
  <2> QED BY <2>6, <2>7
<1>2. Spec => []CarefulInv
  BY AlwaysCareful
<1> QED BY <1>1, <1>2, PTL

(* Whoever is blocked in join has a child that has not quit yet, and none  *)
(* that has: a child's quit wakes its mother (phase1.c:323-480).           *)
THEOREM JoinIsWoken == ASSUME CarefulPrograms PROVE Spec => []JoinWaitsForChild
<1>1. ASSUME CarefulInv PROVE JoinWaitsForChild
  BY <1>1, CarefulParts DEF World, Joins, JoinWaitsForChild
<1>2. Spec => []CarefulInv
  BY AlwaysCareful
<1> QED BY <1>1, <1>2, PTL

(* Whoever waits in zap is linked to a target that still lives, or that is *)
(* on its way through unblockZappers (phase1.c:499-565, 1137-1144).        *)
THEOREM ZapIsWoken == ASSUME CarefulPrograms PROVE Spec => []ZapWaitsForTarget
<1>1. ASSUME CarefulInv PROVE ZapWaitsForTarget
  <2>1. /\ World(ProcTable, frame, nextPid) /\ TableOK(ProcTable) /\ Current \in Slots
        /\ \A s \in Slots : MidCall(frame[s]) => s = Current
    BY <1>1, CarefulParts
  <2>2. SUFFICES ASSUME NEW s \in Slots, ProcTable[s].status = "ZAP_BLOCKED"
                 PROVE  \E t \in Slots :
                          /\ ProcTable[t].pid = frame[s].arg /\ ProcTable[t].zapped
                          /\ \/ Alive(t)
                             \/ Quitting /\ t = Current
                                /\ (s = frame[t].arg \/ Contains(frame[t].todo, s))
                          /\ ProcTable[t].whoZapped = s
    BY DEF ZapWaitsForTarget
  <2>3. PICK t \in Slots : ProcTable[t].whoZapped = s /\ WillWake(frame, t)
    BY <2>1, <2>2 DEF World, Zappers
  <2>4. s # NULL
    BY <2>2 DEF Slots, NULL
  <2>5. ProcTable[t].zapped /\ ProcTable[t].pid = frame[s].arg
    BY <2>1, <2>3, <2>4 DEF World, Targets
  <2>6. CASE frame[t].at = "quitting"
    <3>1. Quitting /\ t = Current
      BY <2>1, <2>6 DEF MidCall, Quitting
    <3>2. frame[t].arg = s \/ frame[t].todo = <<s>>
      BY <2>1, <2>3, <2>6 DEF World, Targets, WillWake
    <3>3. Contains(<<s>>, s)
      <4>1. Len(<<s>>) = 1 /\ <<s>>[1] = s
        OBVIOUS
      <4> QED BY <4>1 DEF Contains
    <3> QED BY <2>3, <2>5, <3>1, <3>2, <3>3
  <2>7. CASE frame[t].at # "quitting"
    <3>1. Alive(t)
      BY <2>1, <2>3, <2>7 DEF World, Placed, WillWake, Alive
    <3> QED BY <2>3, <2>5, <3>1
  <2> QED BY <2>6, <2>7
<1>2. Spec => []CarefulInv
  BY AlwaysCareful
<1> QED BY <1>1, <1>2, PTL

(* No call of a careful program follows a null pointer, frees a process    *)
(* that is still linked, or runs one that has quit (phase1.c:323-480).     *)
THEOREM CarefulNeverCrash == ASSUME CarefulPrograms PROVE Spec => []NeverCrashes
<1>1. CarefulInv => NeverCrashes
  BY DEF CarefulInv, NeverCrashes
<1>2. Spec => []CarefulInv
  BY AlwaysCareful
<1> QED BY <1>1, <1>2, PTL

(* A process leaves zap for its program by Return, as the running process. *)
LEMMA LeavesZap ==
    ASSUME CarefulInv, Next, NEW s \in Slots, frame[s].at = "zap", frame'[s].at = "user"
    PROVE  s = Current /\ frame[Current].at # "quitting"
<1>1. /\ Current \in Slots
      /\ frame = [x \in Slots |-> frame[x]] /\ InUser.at = "user"
  BY CarefulParts DEF InUser, At
<1>2. CASE s = Current
  BY <1>2
<1>3. ASSUME s # Current PROVE FALSE
  <2>1. ASSUME NEW prio \in Priorities, Fork1(prio) PROVE FALSE
    <3>1. IInv
      BY CarefulParts
    <3>2. PICK c \in Processes : /\ ProcTable[c].status = "EMPTY"
                                 /\ frame' = [frame EXCEPT ![c] = InUser, ![Current] = At("fork1", c, <<>>)]
      BY <2>1, <3>1, Fork1Prepares
    <3>3. frame[c].at = "gone"
      BY CarefulParts, <3>2 DEF World, Placed, Processes
    <3>4. frame'[s] = frame[s]
      BY <1>1, <1>3, <3>2, <3>3
    <3> QED BY <3>4
  <2>2. CASE JoinReap
    <3>1. PICK child \in Slots : /\ frame[child].at = "gone"
                                 /\ frame' = [FramesWithout({child}) EXCEPT ![Current] = InUser]
      BY <2>2, JoinReapPrepares
    <3> QED BY <1>1, <1>3, <3>1 DEF FramesWithout
  <2>3. CASE QuitParent
    <3>1. frame'[s].at \in {frame[s].at, "gone"}
      BY <1>1, <2>3 DEF QuitParent, FramesWithout, At, Stop
    <3> QED BY <3>1
  <2>4. CASE QuitChildAndParent \/ QuitReturns
    BY <2>4, NeverReached
  <2>5. ASSUME \/ Fork1Fails \/ Return \/ JoinNoChild \/ JoinQuitChild \/ JoinBlocks \/ JoinTake
               \/ Quit \/ VisitZapper \/ UnblockZapper \/ QuitChild \/ ZapQuitProcess
               \/ \E t \in Slots : Zap(t)
               \/ BlockMe
               \/ \E t \in Slots : UnblockProc(t)
               \/ MakeReady \/ Misuse \/ TimeSlice \/ CheckDeadlock \/ ProgramRuns \/ Halted
        PROVE  FALSE
    <3>1. frame' = frame \/ \E f : frame' = [frame EXCEPT ![Current] = f]
      BY <2>5 DEF Fork1Fails, Return, JoinNoChild, JoinQuitChild, JoinBlocks, JoinTake, Quit,
                  VisitZapper, UnblockZapper, QuitChild, ZapQuitProcess, Zap, BlockMe, UnblockProc,
                  MakeReady, Misuse, TimeSlice, CheckDeadlock, ProgramRuns, Halted, Stop, vars
    <3> QED BY <1>1, <1>3, <3>1
  <2> QED BY <2>1, <2>2, <2>3, <2>4, <2>5 DEF Next
<1>4. frame[Current].at # "quitting"
  BY <1>2, <1>3
<1> QED BY <1>3, <1>4

(* zap returns to a careful program only when its target has quit          *)
(* (phase1.c:485): the waker was that target, at the end of its quit.      *)
THEOREM ZapReturnsLate == ASSUME CarefulPrograms PROVE Spec => ZapReturnsAfterQuit
<1>1. ASSUME CarefulInv, [Next]_vars
      PROVE  [\A s \in Slots : frame[s].at = "zap" /\ frame'[s].at = "user"
                => \A t \in Slots : ProcTable[t].pid = frame[s].arg
                                       => ProcTable[t].status = "QUIT"]_vars
  <2>1. SUFFICES ASSUME Next, NEW s \in Slots, frame[s].at = "zap", frame'[s].at = "user",
                        NEW t \in Slots, ProcTable[t].pid = frame[s].arg
                 PROVE  ProcTable[t].status = "QUIT"
    BY <1>1
  <2>2. s = Current /\ frame[Current].at # "quitting"
    BY <1>1, <2>1, LeavesZap
  <2>3. ProcTable[s].status # "ZAP_BLOCKED"
    BY <1>1, <2>2, CarefulParts DEF CanRun
  <2> QED BY <1>1, <2>1, <2>3, CarefulParts DEF World, Zappers
<1>2. Spec => []CarefulInv
  BY AlwaysCareful
<1> QED BY <1>1, <1>2, PTL DEF Spec, ZapReturnsAfterQuit
=============================================================================
