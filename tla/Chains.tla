------------------------------- MODULE Chains -------------------------------
(* Linked lists as the phases keep them: a head, and a link in every       *)
(* element.  A list is described by the sequence of its elements; the      *)
(* lemmas say what a walk along the links meets, and which sequence        *)
(* describes the list after an element is put in or taken off.             *)
EXTENDS Integers, Sequences, SequenceTheorems, FiniteSetTheorems, WellFoundedInduction, TLAPS

(* q holds the elements from head to the end, none of them twice.          *)
IsChain(q, head, next, none) ==
    /\ \A i, j \in 1..Len(q) : q[i] = q[j] => i = j
    /\ head = IF Len(q) = 0 THEN none ELSE q[1]
    /\ \A i \in 1..Len(q) : next[q[i]] = IF i < Len(q) THEN q[i + 1] ELSE none

Elements(q) == {q[i] : i \in 1..Len(q)}

(* The first n + 1 elements that a walk along the links meets, and then    *)
(* none; and what they are.                                                *)
IsWalk(w, n, h, next, none) ==
    w = [k \in 0..n |-> IF k = 0 THEN h ELSE IF w[k - 1] = none THEN none ELSE next[w[k - 1]]]

WalkAlong(q, n, none) == [k \in 0..n |-> IF k < Len(q) THEN q[k + 1] ELSE none]

Inserted(q, k, p) ==
    [i \in 1..Len(q) + 1 |-> IF i <= k THEN q[i] ELSE IF i = k + 1 THEN p ELSE q[i - 1]]

(* The links are set so that p comes behind the k-th element.              *)
PutBehind(q, k, p, next, next2) ==
    /\ next2[q[k]] = p /\ next2[p] = next[q[k]]
    /\ \A i \in 1..Len(q) : i # k => next2[q[i]] = next[q[i]]

(* The links are set so that p comes in front of all.                      *)
PutInFront(q, p, h, next, next2) ==
    next2[p] = h /\ \A i \in 1..Len(q) : next2[q[i]] = next[q[i]]

Removed(q, k) == [i \in 1..Len(q) - 1 |-> IF i < k THEN q[i] ELSE q[i + 1]]

(* A chain whose links are set so that the k-th element is skipped.        *)
TakenOut(S, q, k, h, next, next2, none) ==
    /\ q \in Seq(S) /\ IsChain(q, h, next, none)
    /\ k \in 1..Len(q) /\ k # 1
    /\ next2[q[k - 1]] = next[q[k]]
    /\ \A i \in 1..Len(q) : i # k - 1 => next2[q[i]] = next[q[i]]
-----------------------------------------------------------------------------
LEMMA LeastOf ==
  ASSUME NEW T \in SUBSET Nat, T # {}
  PROVE  \E n \in T : \A m \in T : n <= m
  <1>1. PICK n \in T : \A m \in T : ~ (<<m, n>> \in OpToRel(<, Nat))
    BY WFMin, NatLessThanWellFounded
  <1>2. \A m \in T : ~(m < n)
    BY <1>1 DEF OpToRel
  <1>3. QED
    BY <1>2

(* A list of distinct elements of a finite set is no longer than the set.  *)
LEMMA ChainFits ==
  ASSUME NEW S, IsFiniteSet(S), NEW q \in Seq(S), \A i, j \in 1..Len(q) : q[i] = q[j] => i = j
  PROVE  Len(q) \in Nat /\ Len(q) <= Cardinality(S)
  <1>1. Len(q) \in Nat /\ Cardinality(S) \in Nat
    BY LenProperties, FS_CardinalityType
  <1>2. IsFiniteSet(1..Len(q)) /\ Cardinality(1..Len(q)) = Len(q)
    <2>1. \A n \in Nat : IsFiniteSet(1..n) /\ Cardinality(1..n) = n
      BY FS_Interval
    <2>2. QED
      BY <1>1, <2>1
  <1>3. q \in [1..Len(q) -> S]
    BY LenProperties
  <1>4. ~(Cardinality(S) < Len(q))
    <2>1. SUFFICES ASSUME Cardinality(S) < Len(q) PROVE FALSE
      OBVIOUS
    <2>2. PICK i, j \in 1..Len(q) : i # j /\ q[i] = q[j]
      BY <1>2, <1>3, <2>1, FS_PigeonHole
    <2>3. QED
      BY <2>2
  <1>5. QED
    BY <1>1, <1>4

(* The walk that a list fixes, and that it is the only one.                *)
LEMMA WalkExists ==
  ASSUME NEW S, NEW none, none \notin S, NEW q \in Seq(S), NEW n \in Nat, NEW h, NEW next,
         IsChain(q, h, next, none)
  PROVE  IsWalk(WalkAlong(q, n, none), n, h, next, none)
  <1>1. Len(q) \in Nat /\ \A i \in 1..Len(q) : q[i] \in S
    BY LenProperties
  <1>2. ASSUME NEW k \in 0..n
        PROVE  WalkAlong(q, n, none)[k] = IF k = 0 THEN h
                            ELSE IF WalkAlong(q, n, none)[k - 1] = none THEN none
                            ELSE next[WalkAlong(q, n, none)[k - 1]]
    <2>1. CASE k = 0
      BY <1>1, <2>1 DEF IsChain, WalkAlong
    <2>2. CASE k # 0
      <3>1. k - 1 \in 0..n /\ k \in Nat /\ k - 1 \in Nat /\ (k - 1) + 1 = k
        BY <2>2
      <3>2. WalkAlong(q, n, none)[k - 1] = IF k - 1 < Len(q) THEN q[k] ELSE none
        BY <3>1 DEF WalkAlong
      <3>3. WalkAlong(q, n, none)[k] = IF k < Len(q) THEN q[k + 1] ELSE none
        BY DEF WalkAlong
      <3>4. CASE k - 1 < Len(q)
        <4>1. k \in 1..Len(q)
          BY <1>1, <3>1, <3>4
        <4>2. next[q[k]] = IF k < Len(q) THEN q[k + 1] ELSE none
          BY <4>1 DEF IsChain
        <4>3. QED
          BY <1>1, <2>2, <3>2, <3>3, <3>4, <4>1, <4>2
      <3>5. CASE ~(k - 1 < Len(q))
        <4>1. ~(k < Len(q))
          BY <1>1, <3>1, <3>5
        <4>2. QED
          BY <2>2, <3>2, <3>3, <3>5, <4>1
      <3>6. QED
        BY <3>4, <3>5
    <2>3. QED
      BY <2>1, <2>2
  <1>3. QED
    BY <1>2 DEF WalkAlong, IsWalk

LEMMA WalkIsUnique ==
  ASSUME NEW none, NEW n \in Nat, NEW h, NEW next, NEW v, NEW w,
         IsWalk(v, n, h, next, none), IsWalk(w, n, h, next, none)
  PROVE  v = w
  <1> DEFINE T == {k \in 0..n : v[k] # w[k]}
  <1>1. T = {}
    <2>1. SUFFICES ASSUME T # {} PROVE FALSE
      OBVIOUS
    <2>2. PICK k \in T : \A m \in T : k <= m
      <3>1. T \in SUBSET Nat
        OBVIOUS
      <3>2. QED
        BY <2>1, <3>1, LeastOf
    <2>3. k \in 0..n /\ v[k] # w[k]
      BY <2>2
    <2>4. CASE k = 0
      BY <2>3, <2>4 DEF IsWalk
    <2>5. CASE k # 0
      <3>1. k - 1 \in 0..n /\ ~(k <= k - 1)
        BY <2>3, <2>5
      <3>2. v[k - 1] = w[k - 1]
        BY <2>2, <3>1
      <3>3. /\ v[k] = IF v[k - 1] = none THEN none ELSE next[v[k - 1]]
            /\ w[k] = IF w[k - 1] = none THEN none ELSE next[w[k - 1]]
        BY <2>3, <2>5 DEF IsWalk
      <3>4. QED
        BY <2>3, <3>2, <3>3
    <2>6. QED
      BY <2>4, <2>5
  <1>2. v = [k \in 0..n |-> v[k]] /\ w = [k \in 0..n |-> w[k]]
    BY DEF IsWalk
  <1>3. \A k \in 0..n : v[k] = w[k]
    BY <1>1
  <1>4. QED
    BY <1>2, <1>3

(* So that the walk that is chosen is the one along the list.              *)
LEMMA ChosenWalk ==
  ASSUME NEW S, NEW none, none \notin S, NEW q \in Seq(S), NEW n \in Nat, NEW h, NEW next,
         IsChain(q, h, next, none)
  PROVE  (CHOOSE w : IsWalk(w, n, h, next, none)) = WalkAlong(q, n, none)
  <1>1. IsWalk(WalkAlong(q, n, none), n, h, next, none)
    BY WalkExists
  <1>2. IsWalk(CHOOSE w : IsWalk(w, n, h, next, none), n, h, next, none)
    BY <1>1
  <1>3. QED
    BY <1>1, <1>2, WalkIsUnique

(* A list is that of its links as long as these stay.                      *)
LEMMA ChainOfSameLinks ==
  ASSUME NEW q, NEW h, NEW next, NEW next2, NEW none, IsChain(q, h, next, none),
         \A i \in 1..Len(q) : next2[q[i]] = next[q[i]]
  PROVE  IsChain(q, h, next2, none)
  BY DEF IsChain

LEMMA ElementsOf ==
  ASSUME NEW S, NEW q \in Seq(S)
  PROVE  /\ Elements(q) \subseteq S /\ Len(q) \in Nat
         /\ \A i \in 1..Len(q) : q[i] \in S /\ q[i] \in Elements(q)
         /\ Len(q) = 0 <=> Elements(q) = {}
  <1>1. Len(q) \in Nat /\ \A i \in 1..Len(q) : q[i] \in S
    BY LenProperties
  <1>2. \A i \in 1..Len(q) : q[i] \in Elements(q)
    BY DEF Elements
  <1>3. ASSUME Len(q) # 0 PROVE Elements(q) # {}
    <2>1. 1 \in 1..Len(q)
      BY <1>1, <1>3
    <2>2. QED
      BY <1>2, <2>1
  <1>4. Len(q) = 0 => Elements(q) = {}
    BY DEF Elements
  <1>5. QED
    BY <1>1, <1>2, <1>3, <1>4 DEF Elements
-----------------------------------------------------------------------------
(* What becomes of a list.                                                 *)

LEMMA ChainBegins ==
  ASSUME NEW S, NEW none, NEW p \in S, NEW next, next[p] = none
  PROVE  <<p>> \in Seq(S) /\ IsChain(<<p>>, p, next, none) /\ Elements(<<p>>) = {p}
  <1>1. Len(<<p>>) = 1 /\ <<p>>[1] = p /\ <<p>> \in Seq(S)
    OBVIOUS
  <1>2. \A i \in 1..Len(<<p>>) : i = 1
    BY <1>1
  <1>3. QED
    BY <1>1, <1>2 DEF IsChain, Elements

(* An element is put in front.                                             *)
LEMMA ChainPrepends ==
  ASSUME NEW S, NEW none, NEW q \in Seq(S), NEW h, NEW next, NEW next2, IsChain(q, h, next, none),
         NEW p \in S, p \notin Elements(q), PutInFront(q, p, h, next, next2)
  PROVE  \E r \in Seq(S) : IsChain(r, p, next2, none) /\ Elements(r) = Elements(q) \cup {p}
  <1> USE DEF PutInFront
  <1>1. PICK n : n = Len(q)
    OBVIOUS
  <1>2. n \in Nat /\ n + 1 \in Nat /\ \A i \in 1..n : q[i] \in S /\ q[i] \in Elements(q)
    BY <1>1, ElementsOf
  <1>3. PICK r : r = [i \in 1..n + 1 |-> IF i = 1 THEN p ELSE q[i - 1]]
    OBVIOUS
  <1>4. \A i \in 1..n + 1 : i # 1 => i - 1 \in 1..n
    BY <1>2
  <1>5. \A i \in 1..n + 1 : r[i] \in S
    BY <1>2, <1>3, <1>4
  <1>6. r \in Seq(S) /\ Len(r) = n + 1
    <2>1. r \in [1..n + 1 -> S]
      BY <1>3, <1>5
    <2>2. QED
      BY <1>2, <2>1
  <1>7. 1 \in 1..n + 1 /\ r[1] = p /\ \A i \in 1..n + 1 : i # 1 => r[i] = q[i - 1]
    BY <1>2, <1>3
  <1>8. ASSUME NEW i \in 1..n + 1, NEW j \in 1..n + 1, r[i] = r[j] PROVE i = j
    <2>1. CASE i = 1 \/ j = 1
      BY <1>2, <1>4, <1>7, <1>8, <2>1
    <2>2. CASE i # 1 /\ j # 1
      <3>1. i - 1 \in 1..n /\ j - 1 \in 1..n /\ q[i - 1] = q[j - 1]
        BY <1>4, <1>7, <1>8, <2>2
      <3>2. i - 1 = j - 1
        BY <1>1, <3>1 DEF IsChain
      <3>3. QED
        BY <1>2, <3>2
    <2>3. QED
      BY <2>1, <2>2
  <1>9. ASSUME NEW i \in 1..n + 1 PROVE next2[r[i]] = IF i < n + 1 THEN r[i + 1] ELSE none
    <2>1. CASE i = 1
      <3>1. next2[r[i]] = IF n = 0 THEN none ELSE q[1]
        BY <1>1, <1>7, <2>1 DEF IsChain
      <3>2. CASE n = 0
        BY <2>1, <3>1, <3>2
      <3>3. CASE n # 0
        <4>1. 2 \in 1..n + 1 /\ 1 < n + 1 /\ r[2] = q[1]
          BY <1>2, <1>7, <3>3
        <4>2. QED
          BY <2>1, <3>1, <3>3, <4>1
      <3>4. QED
        BY <3>2, <3>3
    <2>2. CASE i # 1
      <3>1. i - 1 \in 1..n /\ r[i] = q[i - 1]
        BY <1>4, <1>7, <2>2
      <3>2. next2[q[i - 1]] = IF i - 1 < n THEN q[(i - 1) + 1] ELSE none
        BY <1>1, <3>1 DEF IsChain
      <3>3. (i - 1) + 1 = i /\ (i - 1 < n <=> i < n + 1) /\ i + 1 # 1 /\ (i + 1) - 1 = i
        BY <1>2
      <3>4. CASE i < n + 1
        <4>1. i + 1 \in 1..n + 1 /\ r[i + 1] = q[i]
          BY <1>2, <1>7, <3>3, <3>4
        <4>2. QED
          BY <3>1, <3>2, <3>3, <3>4, <4>1
      <3>5. CASE ~(i < n + 1)
        BY <3>1, <3>2, <3>3, <3>5
      <3>6. QED
        BY <3>4, <3>5
    <2>3. QED
      BY <2>1, <2>2
  <1>10. Elements(r) = Elements(q) \cup {p}
    <2>1. ASSUME NEW x \in Elements(r) PROVE x \in Elements(q) \cup {p}
      <3>1. PICK i \in 1..n + 1 : x = r[i]
        BY <1>6 DEF Elements
      <3>2. QED
        BY <1>2, <1>4, <1>7, <3>1
    <2>2. ASSUME NEW x \in Elements(q) PROVE x \in Elements(r)
      <3>1. PICK i \in 1..n : x = q[i]
        BY <1>1 DEF Elements
      <3>2. i + 1 \in 1..n + 1 /\ i + 1 # 1 /\ (i + 1) - 1 = i
        BY <1>2
      <3>3. r[i + 1] = x
        BY <1>7, <3>1, <3>2
      <3>4. QED
        BY <1>6, <3>2, <3>3 DEF Elements
    <2>3. p \in Elements(r)
      BY <1>6, <1>7 DEF Elements
    <2>4. QED
      BY <2>1, <2>2, <2>3
  <1>11. IsChain(r, p, next2, none)
    <2>1. n + 1 # 0
      BY <1>2
    <2>2. QED
      BY <1>6, <1>7, <1>8, <1>9, <2>1 DEF IsChain
  <1>12. QED
    BY <1>6, <1>10, <1>11

(* An element is put behind the k-th.                                      *)
LEMMA InsertedIs ==
  ASSUME NEW S, NEW q \in Seq(S), NEW i \in 1..Len(q), NEW p \in S
  PROVE  /\ Inserted(q, i, p) \in Seq(S) /\ Len(Inserted(q, i, p)) = Len(q) + 1
  <1>1. Len(q) \in Nat /\ 1 <= i
    BY ElementsOf
  <1>2. Inserted(q, i, p) \in [1..Len(q) + 1 -> S]
    <2>1. ASSUME NEW k \in 1..Len(q) + 1
          PROVE  (IF k <= i THEN q[k] ELSE IF k = i + 1 THEN p ELSE q[k - 1]) \in S
      <3>1. CASE k <= i
        BY <1>1, <3>1, ElementsOf
      <3>2. CASE k = i + 1
        BY <1>1, <3>2
      <3>3. CASE k > i + 1
        <4>1. k - 1 \in 1..Len(q) /\ ~(k <= i) /\ k # i + 1
          BY <1>1, <3>3
        <4>2. QED
          BY <4>1, ElementsOf
      <3>4. QED
        BY <1>1, <3>1, <3>2, <3>3
    <2>2. QED
      BY <2>1 DEF Inserted
  <1>3. Inserted(q, i, p) \in Seq(S) /\ Len(Inserted(q, i, p)) = Len(q) + 1
    BY <1>1, <1>2
  <1>4. QED
    BY <1>3

LEMMA GrownElements ==
  ASSUME NEW S, NEW q \in Seq(S), NEW k \in 1..Len(q), NEW p \in S
  PROVE  Elements(Inserted(q, k, p)) = Elements(q) \cup {p}
  <1>1. PICK n : n = Len(q)
    OBVIOUS
  <1>2. n \in Nat /\ n + 1 \in Nat /\ k \in 1..n
    BY <1>1, ElementsOf
  <1>3. PICK r : r = Inserted(q, k, p)
    OBVIOUS
  <1>4. /\ r \in Seq(S) /\ Len(r) = n + 1
        /\ \A i \in 1..n + 1 : /\ i <= k => r[i] = q[i] /\ i \in 1..n
                               /\ i = k + 1 => r[i] = p
                               /\ i > k + 1 => r[i] = q[i - 1] /\ i - 1 \in 1..n
    <2>1. \A i \in 1..n + 1 : /\ i <= k => i \in 1..n
                              /\ i > k + 1 => i - 1 \in 1..n
      BY <1>2
    <2>2. QED
      <3>1. r \in Seq(S) /\ Len(r) = n + 1
        BY <1>1, <1>3, InsertedIs
      <3>2. r = [i \in 1..n + 1 |-> IF i <= k THEN q[i] ELSE IF i = k + 1 THEN p ELSE q[i - 1]]
        BY <1>1, <1>3 DEF Inserted
      <3>3. QED
        BY <1>2, <2>1, <3>1, <3>2
  <1>5. ASSUME NEW i \in 1..n + 1 PROVE r[i] \in Elements(q) \cup {p}
    <2>1. CASE i <= k
      BY <1>1, <1>4, <2>1 DEF Elements
    <2>2. CASE i = k + 1
      BY <1>4, <2>2
    <2>3. CASE i > k + 1
      BY <1>1, <1>4, <2>3 DEF Elements
    <2>4. QED
      BY <1>2, <2>1, <2>2, <2>3
  <1>6. ASSUME NEW i \in 1..n PROVE q[i] \in Elements(r)
    <2>1. CASE i <= k
      <3>1. i \in 1..n + 1 /\ r[i] = q[i]
        BY <1>2, <1>4, <2>1
      <3>2. QED
        BY <1>4, <3>1 DEF Elements
    <2>2. CASE i > k
      <3>1. i + 1 \in 1..n + 1 /\ i + 1 > k + 1 /\ (i + 1) - 1 = i
        BY <1>2, <2>2
      <3>2. r[i + 1] = q[i]
        BY <1>4, <3>1
      <3>3. QED
        BY <1>4, <3>1, <3>2 DEF Elements
    <2>3. QED
      BY <1>2, <2>1, <2>2
  <1>7. p \in Elements(r)
    <2>1. k + 1 \in 1..n + 1 /\ r[k + 1] = p
      BY <1>2, <1>4
    <2>2. QED
      BY <1>4, <2>1 DEF Elements
  <1>8. Elements(r) \subseteq Elements(q) \cup {p}
    BY <1>4, <1>5 DEF Elements
  <1>9. Elements(q) \subseteq Elements(r)
    BY <1>1, <1>6 DEF Elements
  <1>10. QED
    BY <1>3, <1>7, <1>8, <1>9

LEMMA ChainGrows ==
  ASSUME NEW S, NEW none, NEW q \in Seq(S), NEW h, NEW next, NEW next2,
         IsChain(q, h, next, none), NEW p \in S, p \notin Elements(q), NEW k \in 1..Len(q),
         PutBehind(q, k, p, next, next2)
  PROVE  /\ Inserted(q, k, p) \in Seq(S) /\ Len(Inserted(q, k, p)) = Len(q) + 1
         /\ IsChain(Inserted(q, k, p), h, next2, none)
  <1> USE DEF PutBehind
  <1>1. PICK n : n = Len(q)
    OBVIOUS
  <1>2. n \in Nat /\ n + 1 \in Nat /\ k \in 1..n /\ \A i \in 1..n : q[i] \in S /\ q[i] # p
    BY <1>1, ElementsOf
  <1>3. PICK r : r = Inserted(q, k, p)
    OBVIOUS
  <1>4. r = [i \in 1..n + 1 |-> IF i <= k THEN q[i] ELSE IF i = k + 1 THEN p ELSE q[i - 1]]
    BY <1>1, <1>3 DEF Inserted
  <1>5. \A i \in 1..n + 1 : /\ i <= k => r[i] = q[i] /\ i \in 1..n
                            /\ i = k + 1 => r[i] = p
                            /\ i > k + 1 => r[i] = q[i - 1] /\ i - 1 \in 1..n
    BY <1>2, <1>4
  <1>6. r \in Seq(S) /\ Len(r) = n + 1
    <2>1. r \in [1..n + 1 -> S]
      BY <1>2, <1>4, <1>5
    <2>2. QED
      BY <1>2, <2>1
  <1>7. ASSUME NEW i \in 1..n + 1, NEW j \in 1..n + 1, r[i] = r[j] PROVE i = j
    <2>1. \A a, b \in 1..n : q[a] = q[b] => a = b
      BY <1>1 DEF IsChain
    <2>2. CASE i <= k /\ j <= k
      BY <1>5, <1>7, <2>1, <2>2
    <2>3. CASE i <= k /\ j > k + 1
      <3>1. i = j - 1
        BY <1>5, <1>7, <2>1, <2>3
      <3>2. QED
        BY <1>2, <2>3, <3>1
    <2>4. CASE i > k + 1 /\ j <= k
      <3>1. i - 1 = j
        BY <1>5, <1>7, <2>1, <2>4
      <3>2. QED
        BY <1>2, <2>4, <3>1
    <2>5. CASE i > k + 1 /\ j > k + 1
      <3>1. i - 1 = j - 1
        BY <1>5, <1>7, <2>1, <2>5
      <3>2. QED
        BY <3>1
    <2>6. CASE i = k + 1 \/ j = k + 1
      BY <1>2, <1>5, <1>7, <2>6
    <2>7. QED
      BY <1>2, <2>2, <2>3, <2>4, <2>5, <2>6
  <1>8. h = IF Len(r) = 0 THEN none ELSE r[1]
    <2>1. h = q[1] /\ 1 <= k /\ 1 \in 1..n + 1
      BY <1>1, <1>2 DEF IsChain
    <2>2. QED
      BY <1>2, <1>5, <1>6, <2>1
  <1>9. ASSUME NEW i \in 1..n + 1 PROVE next2[r[i]] = IF i < n + 1 THEN r[i + 1] ELSE none
    <2>1. \A a \in 1..n : next[q[a]] = IF a < n THEN q[a + 1] ELSE none
      BY <1>1 DEF IsChain
    <2>2. CASE i < k
      <3>1. i \in 1..n /\ i + 1 <= k /\ i + 1 \in 1..n + 1 /\ i # k /\ i < n
        BY <1>2, <2>2
      <3>2. r[i] = q[i] /\ r[i + 1] = q[i + 1]
        BY <1>5, <2>2, <3>1
      <3>3. next2[q[i]] = q[i + 1]
        BY <1>1, <2>1, <3>1
      <3>4. i < n + 1
        BY <1>2, <3>1
      <3>5. QED
        BY <3>2, <3>3, <3>4
    <2>3. CASE i = k
      <3>1. r[i] = q[k] /\ r[i + 1] = p /\ i < n + 1
        BY <1>2, <1>5, <2>3
      <3>2. QED
        BY <3>1
    <2>4. CASE i = k + 1
      <3>1. r[i] = p
        BY <1>5, <2>4
      <3>2. next2[p] = IF k < n THEN q[k + 1] ELSE none
        BY <1>2, <2>1
      <3>3. ASSUME k < n PROVE r[i + 1] = q[k + 1]
        <4>1. i + 1 \in 1..n + 1 /\ i + 1 > k + 1 /\ (i + 1) - 1 = k + 1
          BY <1>2, <2>4, <3>3
        <4>2. QED
          BY <1>5, <4>1
      <3>4. CASE k < n
        <4>1. i < n + 1
          BY <1>2, <2>4, <3>4
        <4>2. QED
          BY <3>1, <3>2, <3>3, <3>4, <4>1
      <3>5. CASE ~(k < n)
        <4>1. ~(i < n + 1)
          BY <1>2, <2>4, <3>5
        <4>2. QED
          BY <3>1, <3>2, <3>5, <4>1
      <3>6. QED
        BY <3>4, <3>5
    <2>5. CASE i > k + 1
      <3>1. i - 1 \in 1..n /\ i - 1 # k /\ r[i] = q[i - 1] /\ (i - 1) + 1 = i
        BY <1>2, <1>5, <2>5
      <3>2. next2[q[i - 1]] = IF i - 1 < n THEN q[i] ELSE none
        BY <1>1, <2>1, <3>1
      <3>3. ASSUME i < n + 1 PROVE r[i + 1] = q[i] /\ i - 1 < n
        <4>1. i + 1 \in 1..n + 1 /\ i + 1 > k + 1 /\ (i + 1) - 1 = i
          BY <1>2, <2>5, <3>3
        <4>2. QED
          BY <1>2, <1>5, <3>3, <4>1
      <3>4. QED
        BY <1>2, <3>1, <3>2, <3>3
    <2>6. QED
      BY <1>2, <2>2, <2>3, <2>4, <2>5
  <1>10. QED
    BY <1>1, <1>3, <1>6, <1>7, <1>8, <1>9 DEF IsChain

(* The first element is taken off.                                         *)
LEMMA ChainLosesHead ==
  ASSUME NEW S, NEW none, NEW q \in Seq(S), NEW h, NEW next, IsChain(q, h, next, none), Len(q) # 0
  PROVE  /\ Tail(q) \in Seq(S) /\ Len(Tail(q)) = Len(q) - 1 /\ h = q[1]
         /\ \A i \in 1..Len(q) - 1 : Tail(q)[i] = q[i + 1]
         /\ IsChain(Tail(q), next[h], next, none)
         /\ Elements(Tail(q)) = Elements(q) \ {h}
  <1>1. PICK n : n = Len(q)
    OBVIOUS
  <1>2. /\ n \in Nat /\ n > 0 /\ q # <<>>
    BY <1>1, LenProperties
  <1>3. /\ Tail(q) \in Seq(S) /\ Len(Tail(q)) = n - 1 /\ n - 1 \in Nat
        /\ \A i \in 1..n - 1 : Tail(q)[i] = q[i + 1]
    BY <1>1, <1>2, HeadTailProperties
  <1>4. /\ h = q[1] /\ \A i, j \in 1..n : q[i] = q[j] => i = j
        /\ \A i \in 1..n : next[q[i]] = IF i < n THEN q[i + 1] ELSE none
    BY <1>1, <1>2 DEF IsChain
  <1>5. ASSUME NEW i \in 1..n - 1, NEW j \in 1..n - 1, Tail(q)[i] = Tail(q)[j] PROVE i = j
    <2>1. i + 1 \in 1..n /\ j + 1 \in 1..n
      BY <1>2
    <2>2. i + 1 = j + 1
      BY <1>3, <1>4, <1>5, <2>1
    <2>3. QED
      BY <2>2
  <1>6. next[h] = IF n - 1 = 0 THEN none ELSE Tail(q)[1]
    <2>1. 1 \in 1..n /\ next[h] = IF 1 < n THEN q[2] ELSE none
      BY <1>2, <1>4
    <2>2. CASE n = 1
      <3>1. ~(1 < n) /\ n - 1 = 0
        BY <2>2
      <3>2. QED
        BY <2>1, <3>1
    <2>3. CASE n > 1
      <3>1. 1 \in 1..n - 1 /\ 1 < n /\ n - 1 # 0
        BY <1>2, <2>3
      <3>2. Tail(q)[1] = q[2]
        BY <1>3, <3>1
      <3>3. QED
        BY <2>1, <3>1, <3>2
    <2>4. QED
      <3>1. n = 1 \/ n > 1
        BY <1>2
      <3>2. QED
        BY <2>2, <2>3, <3>1
  <1>7. ASSUME NEW i \in 1..n - 1
        PROVE  next[Tail(q)[i]] = IF i < n - 1 THEN Tail(q)[i + 1] ELSE none
    <2>1. i + 1 \in 1..n /\ Tail(q)[i] = q[i + 1]
      BY <1>2, <1>3
    <2>2. next[q[i + 1]] = IF i + 1 < n THEN q[(i + 1) + 1] ELSE none
      BY <1>4, <2>1
    <2>3. ASSUME i < n - 1 PROVE i + 1 < n /\ Tail(q)[i + 1] = q[(i + 1) + 1]
      <3>1. i + 1 \in 1..n - 1 /\ i + 1 < n
        BY <1>2, <2>3
      <3>2. QED
        BY <1>3, <3>1
    <2>4. CASE i < n - 1
      BY <2>1, <2>2, <2>3, <2>4
    <2>5. CASE ~(i < n - 1)
      <3>1. ~(i + 1 < n)
        BY <1>2, <2>5
      <3>2. QED
        BY <2>1, <2>2, <2>5, <3>1
    <2>6. QED
      BY <2>4, <2>5
  <1>8. Elements(Tail(q)) = Elements(q) \ {h}
    <2>1. ASSUME NEW i \in 1..n - 1 PROVE Tail(q)[i] \in Elements(q) \ {h}
      <3>1. i + 1 \in 1..n /\ i + 1 # 1 /\ 1 \in 1..n
        BY <1>2
      <3>2. q[i + 1] # q[1]
        BY <1>4, <3>1
      <3>3. QED
        BY <1>1, <1>3, <1>4, <3>1, <3>2 DEF Elements
    <2>2. ASSUME NEW i \in 1..n, q[i] # h PROVE q[i] \in Elements(Tail(q))
      <3>1. i # 1 /\ i - 1 \in 1..n - 1 /\ (i - 1) + 1 = i
        BY <1>2, <1>4, <2>2
      <3>2. Tail(q)[i - 1] = q[i]
        BY <1>3, <3>1
      <3>3. QED
        BY <1>3, <3>1, <3>2 DEF Elements
    <2>3. Elements(Tail(q)) \subseteq Elements(q) \ {h}
      BY <1>3, <2>1 DEF Elements
    <2>4. Elements(q) \ {h} \subseteq Elements(Tail(q))
      BY <1>1, <2>2 DEF Elements
    <2>5. QED
      BY <2>3, <2>4
  <1>9. IsChain(Tail(q), next[h], next, none)
    BY <1>3, <1>5, <1>6, <1>7 DEF IsChain
  <1>10. QED
    BY <1>1, <1>3, <1>4, <1>8, <1>9

(* An element behind the first is taken out.                               *)
LEMMA ChainLoses ==
  ASSUME NEW S, NEW none, NEW q, NEW k, NEW h, NEW next, NEW next2,
         TakenOut(S, q, k, h, next, next2, none)
  PROVE  /\ Removed(q, k) \in Seq(S) /\ IsChain(Removed(q, k), h, next2, none)
         /\ Elements(Removed(q, k)) = Elements(q) \ {q[k]}
  <1> SUFFICES ASSUME q \in Seq(S), IsChain(q, h, next, none), k \in 1..Len(q), k # 1,
                      next2[q[k - 1]] = next[q[k]],
                      \A i \in 1..Len(q) : i # k - 1 => next2[q[i]] = next[q[i]]
               PROVE  /\ Removed(q, k) \in Seq(S) /\ IsChain(Removed(q, k), h, next2, none)
                      /\ Elements(Removed(q, k)) = Elements(q) \ {q[k]}
    BY DEF TakenOut
  <1>1. PICK n : n = Len(q)
    OBVIOUS
  <1>2. /\ n \in Nat /\ n - 1 \in Nat /\ k \in 1..n /\ 1 < k /\ k - 1 \in 1..n
        /\ \A i \in 1..n : q[i] \in S
    BY <1>1, ElementsOf
  <1>3. PICK r : r = Removed(q, k)
    OBVIOUS
  <1>4. r = [i \in 1..n - 1 |-> IF i < k THEN q[i] ELSE q[i + 1]]
    BY <1>1, <1>3 DEF Removed
  <1>5. \A i \in 1..n - 1 : /\ i < k => r[i] = q[i] /\ i \in 1..n
                            /\ ~(i < k) => r[i] = q[i + 1] /\ i + 1 \in 1..n
    BY <1>2, <1>4
  <1>6. r \in Seq(S) /\ Len(r) = n - 1
    <2>1. r \in [1..n - 1 -> S]
      BY <1>2, <1>4, <1>5
    <2>2. QED
      BY <1>2, <2>1
  <1>7. \A a, b \in 1..n : q[a] = q[b] => a = b
    BY <1>1 DEF IsChain
  <1>8. ASSUME NEW i \in 1..n - 1, NEW j \in 1..n - 1, r[i] = r[j] PROVE i = j
    <2>1. CASE i < k /\ j < k
      BY <1>5, <1>7, <1>8, <2>1
    <2>2. CASE i < k /\ ~(j < k)
      <3>1. i = j + 1
        BY <1>5, <1>7, <1>8, <2>2
      <3>2. QED
        BY <1>2, <2>2, <3>1
    <2>3. CASE ~(i < k) /\ j < k
      <3>1. i + 1 = j
        BY <1>5, <1>7, <1>8, <2>3
      <3>2. QED
        BY <1>2, <2>3, <3>1
    <2>4. CASE ~(i < k) /\ ~(j < k)
      <3>1. i + 1 = j + 1
        BY <1>5, <1>7, <1>8, <2>4
      <3>2. QED
        BY <3>1
    <2>5. QED
      BY <2>1, <2>2, <2>3, <2>4
  <1>9. h = IF Len(r) = 0 THEN none ELSE r[1]
    <2>1. h = q[1] /\ n > 1 /\ 1 \in 1..n - 1
      BY <1>1, <1>2 DEF IsChain
    <2>2. QED
      BY <1>2, <1>5, <1>6, <2>1
  <1>10. ASSUME NEW i \in 1..n - 1 PROVE next2[r[i]] = IF i < n - 1 THEN r[i + 1] ELSE none
    <2>1. \A a \in 1..n : next[q[a]] = IF a < n THEN q[a + 1] ELSE none
      BY <1>1 DEF IsChain
    <2>2. CASE i < k - 1
      <3>1. i \in 1..n /\ i # k - 1 /\ i < n - 1 /\ i + 1 \in 1..n - 1 /\ i + 1 < k /\ i < k /\ i < n
        BY <1>2, <2>2
      <3>2. r[i] = q[i] /\ r[i + 1] = q[i + 1]
        BY <1>5, <3>1
      <3>3. next2[q[i]] = q[i + 1]
        BY <1>1, <2>1, <3>1
      <3>4. QED
        BY <3>1, <3>2, <3>3
    <2>3. CASE i = k - 1
      <3>1. r[i] = q[k - 1] /\ next2[q[k - 1]] = IF k < n THEN q[k + 1] ELSE none
        BY <1>2, <1>5, <2>1, <2>3
      <3>2. ASSUME i < n - 1 PROVE k < n /\ r[i + 1] = q[k + 1]
        <4>1. i + 1 \in 1..n - 1 /\ ~(i + 1 < k) /\ (i + 1) + 1 = k + 1 /\ k < n
          BY <1>2, <2>3, <3>2
        <4>2. QED
          BY <1>5, <4>1
      <3>3. ~(i < n - 1) => ~(k < n)
        BY <1>2, <2>3
      <3>4. QED
        BY <3>1, <3>2, <3>3
    <2>4. CASE i > k - 1
      <3>1. i + 1 \in 1..n /\ i + 1 # k - 1 /\ ~(i < k) /\ r[i] = q[i + 1]
        BY <1>2, <1>5, <2>4
      <3>2. next2[q[i + 1]] = IF i + 1 < n THEN q[(i + 1) + 1] ELSE none
        BY <1>1, <2>1, <3>1
      <3>3. ASSUME i < n - 1 PROVE i + 1 < n /\ r[i + 1] = q[(i + 1) + 1]
        <4>1. i + 1 \in 1..n - 1 /\ ~(i + 1 < k) /\ i + 1 < n
          BY <1>2, <2>4, <3>3
        <4>2. QED
          BY <1>5, <4>1
      <3>4. ~(i < n - 1) => ~(i + 1 < n)
        BY <1>2
      <3>5. QED
        BY <3>1, <3>2, <3>3, <3>4
    <2>5. QED
      BY <1>2, <2>2, <2>3, <2>4
  <1>11. IsChain(r, h, next2, none)
    BY <1>6, <1>8, <1>9, <1>10 DEF IsChain
  <1>12. Elements(r) = Elements(q) \ {q[k]}
    <2>1. ASSUME NEW x \in Elements(r) PROVE x \in Elements(q) /\ x # q[k]
      <3>1. PICK i \in 1..n - 1 : x = r[i]
        BY <1>6 DEF Elements
      <3>2. CASE i < k
        BY <1>1, <1>2, <1>5, <1>7, <3>1, <3>2 DEF Elements
      <3>3. CASE ~(i < k)
        <4>1. x = q[i + 1] /\ i + 1 \in 1..n /\ i + 1 # k
          BY <1>2, <1>5, <3>1, <3>3
        <4>2. QED
          BY <1>1, <1>2, <1>7, <4>1 DEF Elements
      <3>4. QED
        BY <3>2, <3>3
    <2>2. ASSUME NEW x \in Elements(q), x # q[k] PROVE x \in Elements(r)
      <3>1. PICK i \in 1..n : x = q[i]
        BY <1>1 DEF Elements
      <3>2. CASE i < k
        <4>1. i \in 1..n - 1 /\ r[i] = x
          BY <1>2, <1>5, <3>1, <3>2
        <4>2. QED
          BY <1>6, <4>1 DEF Elements
      <3>3. CASE i > k
        <4>1. i - 1 \in 1..n - 1 /\ ~(i - 1 < k) /\ (i - 1) + 1 = i
          BY <1>2, <3>3
        <4>2. r[i - 1] = x
          BY <1>5, <3>1, <4>1
        <4>3. QED
          BY <1>6, <4>1, <4>2 DEF Elements
      <3>4. QED
        BY <1>2, <2>2, <3>1, <3>2, <3>3
    <2>3. QED
      BY <2>1, <2>2
  <1>13. QED
    BY <1>3, <1>6, <1>11, <1>12

(* The links tell what is last, and what is before an element.             *)
LEMMA ChainLinks ==
  ASSUME NEW S, NEW none, none \notin S, NEW q \in Seq(S), NEW h, NEW next,
         IsChain(q, h, next, none), NEW i \in 1..Len(q)
  PROVE  /\ next[q[i]] = none <=> i = Len(q)
         /\ \A k \in 1..Len(q) : next[q[i]] = q[k] <=> k = i + 1
  <1>1. Len(q) \in Nat /\ \A k \in 1..Len(q) : q[k] \in S
    BY ElementsOf
  <1>2. next[q[i]] = IF i < Len(q) THEN q[i + 1] ELSE none
    BY DEF IsChain
  <1>3. i < Len(q) => i + 1 \in 1..Len(q) /\ q[i + 1] \in S
    BY <1>1
  <1>4. next[q[i]] = none <=> i = Len(q)
    BY <1>1, <1>2, <1>3
  <1>5. ASSUME NEW k \in 1..Len(q) PROVE next[q[i]] = q[k] <=> k = i + 1
    <2>1. q[k] # none
      BY <1>1
    <2>2. CASE i < Len(q)
      <3>1. q[i + 1] = q[k] <=> k = i + 1
        BY <1>3, <2>2 DEF IsChain
      <3>2. QED
        BY <1>2, <2>2, <3>1
    <2>3. CASE ~(i < Len(q))
      BY <1>1, <1>2, <2>1, <2>3
    <2>4. QED
      BY <2>2, <2>3
  <1>6. QED
    BY <1>4, <1>5
=============================================================================
