----------------------------- MODULE DiskProofs -----------------------------
(* Theorems about the disk driver of phase 4, for any processes, disks,    *)
(* requests and faults.  The invariant: the links describe a list that     *)
(* holds exactly the callers whose requests are pending, in the order of   *)
(* two sweeps; the driver serves its head and has moved the sectors before *)
(* those that are left; and it waits only while no pending request has     *)
(* been posted.                                                            *)
EXTENDS Disk, Chains

-----------------------------------------------------------------------------
Infos == [requestType : {"none", "read", "write"}, startSector : 0..TrackSize - 1,
          sectors : Nat, next : Procs \cup {NULL}, status : {"unset", "error", "ready"}]
Callers == [at : {"user", "linking", "posting", "queued", "receiving", "returning"},
            before : Procs \cup {NULL}, after : Procs \cup {NULL}]
Drivers == [at : {"semP", "seek", "transfer", "answering"}, serves : Procs \cup {NULL},
            track : 0..Tracks - 1, sector : 0..TrackSize, left : Nat, moved : Seq(Nat \X Nat)]
Serving == driver.at # "semP"

DriverShape ==
    /\ driver \in Drivers
    /\ Serving => driver.serves \in Procs
    /\ driver.at \in {"seek", "transfer"} => driver.sector < TrackSize
    /\ driver.at = "transfer" => driver.left > 0

DiskShape ==
    /\ request \in [Procs -> Infos]
    /\ headDiskList \in Procs \cup {NULL}
    /\ diskSemaphore \in 0..MaxUnits
    /\ caller \in [Procs -> Callers]
    /\ DriverShape
    /\ faults \in 0..MaxFaults /\ failed \subseteq Procs
    /\ mishap \in {"none", "torn", "endOfDisk", "crash"}

(* Who is on the list: those that have put their requests in, until the    *)
(* driver takes the request off.                                           *)
InCall(p) == caller[p].at \in {"posting", "queued", "receiving"}
TakenOff(p) == driver.at = "answering" /\ driver.serves = p /\ request[p].requestType = "write"
Pending == {p \in Procs : InCall(p) /\ p \notin failed /\ ~TakenOff(p)}

Links == [p \in Procs |-> request[p].next]
Queue(q) == IsChain(q, headDiskList, Links, NULL) /\ Elements(q) = Pending

(* One sweep upwards from the head, and one below it.                      *)
Sweeps(q) ==
    \E m \in 0..Len(q) : \A j, k \in 1..Len(q) :
        /\ j < k /\ (k <= m \/ m < j) => TrackOf[q[j]] < TrackOf[q[k]]
        /\ m < k => TrackOf[q[k]] < TrackOf[q[1]]

TracksDiffer == \A p, r \in Procs : TrackOf[p] = TrackOf[r] => p = r

QueueInv == \E q \in Seq(Procs) : Queue(q) /\ (TracksDiffer => Sweeps(q))

CallerInv ==
    /\ \A p \in Procs : caller[p].at = "linking" => request[p].next = NULL
    /\ \A p \in Procs : caller[p].at = "linking" \/ InCall(p) => request[p].requestType # "none"
    /\ \A p \in failed : InCall(p)

(* The driver serves the request at the head, save for a write that it has *)
(* only to answer, and has moved the sectors before those that are left.   *)
Place(h, i) == TrackOf[h] * TrackSize + request[h].startSector + i - 1
Done == request[driver.serves].sectors - driver.left

HeadInv ==
    Serving =>
        LET h == driver.serves
        IN InCall(h) /\ h \notin failed /\ (TakenOff(h) \/ h = headDiskList)

MovedInv ==
    Serving =>
        LET h == driver.serves
        IN /\ driver.left <= request[h].sectors
           /\ driver.track * TrackSize + driver.sector = Place(h, Done + 1)
           /\ driver.moved = [i \in 1..Done |-> <<Place(h, i) \div TrackSize, Place(h, i) % TrackSize>>]
           /\ driver.at = "answering" => driver.left = 0 /\ request[h].status = "ready"

(* The driver sleeps only while those on the list have still to wake it.   *)
IdleInv ==
    driver.at = "semP" /\ diskSemaphore = 0 => \A p \in Pending : caller[p].at = "posting"

UsableInv == QueueInv /\ CallerInv /\ HeadInv /\ IdleInv

DiskInv == DiskShape /\ MovedInv /\ (Usable => UsableInv)
-----------------------------------------------------------------------------
(* The walk, and the place that is found.                                  *)

LEMMA WalkIs ==
  ASSUME DiskShape, NEW q \in Seq(Procs), Queue(q)
  PROVE  Walk = WalkAlong(q, Cardinality(Procs), NULL)
  <1>1. PICK N : N = Cardinality(Procs)
    OBVIOUS
  <1>2. N \in Nat
    BY <1>1, ProgramsAssumption, FS_CardinalityType
  <1>3. PICK v : v = WalkAlong(q, N, NULL)
    OBVIOUS
  <1> DEFINE Is(w) == w = [k \in 0..N |-> IF k = 0 THEN headDiskList
                                          ELSE IF w[k - 1] = NULL THEN NULL ELSE NextOf(w[k - 1])]
  <1>4. Walk = CHOOSE w : Is(w)
    BY <1>1 DEF Walk
  <1>5. IsWalk(v, N, headDiskList, Links, NULL)
    BY <1>2, <1>3, ProgramsAssumption, WalkExists DEF Queue
  <1>6. ASSUME NEW k \in 0..N, k # 0, v[k - 1] # NULL PROVE v[k - 1] \in Procs
    <2>1. k - 1 \in 0..N
      BY <1>2, <1>6
    <2>2. v[k - 1] = IF k - 1 < Len(q) THEN q[(k - 1) + 1] ELSE NULL
      BY <1>3, <2>1 DEF WalkAlong
    <2>3. k - 1 < Len(q)
      BY <1>6, <2>2
    <2>4. (k - 1) + 1 \in 1..Len(q)
      BY <1>2, <1>6, <2>3, ElementsOf
    <2>5. QED
      BY <2>2, <2>3, <2>4, ElementsOf
  <1>7. Is(v)
    <2>1. v = [k \in 0..N |-> IF k = 0 THEN headDiskList
                              ELSE IF v[k - 1] = NULL THEN NULL ELSE Links[v[k - 1]]]
      BY <1>5 DEF IsWalk
    <2>2. ASSUME NEW k \in 0..N, k # 0, v[k - 1] # NULL PROVE Links[v[k - 1]] = NextOf(v[k - 1])
      BY <1>6, <2>2 DEF Links, NextOf
    <2>3. QED
      BY <2>1, <2>2
  <1>8. PICK w : w = CHOOSE u : Is(u)
    OBVIOUS
  <1>9. Is(w)
    BY <1>7, <1>8
  <1>10. v = w
    <2>1. PICK D : D = {v[k] : k \in 0..N} \cup {w[k] : k \in 0..N}
      OBVIOUS
    <2>2. PICK nx : nx = [p \in D |-> NextOf(p)]
      OBVIOUS
    <2>3. \A k \in 0..N : v[k] \in D /\ w[k] \in D
      BY <2>1
    <2>4. ASSUME NEW k \in 0..N, k # 0
          PROVE  nx[v[k - 1]] = NextOf(v[k - 1]) /\ nx[w[k - 1]] = NextOf(w[k - 1])
      <3>1. k - 1 \in 0..N
        BY <1>2, <2>4
      <3>2. QED
        BY <2>2, <2>3, <3>1
    <2>5. IsWalk(v, N, headDiskList, nx, NULL)
      BY <1>7, <2>4 DEF IsWalk
    <2>6. IsWalk(w, N, headDiskList, nx, NULL)
      BY <1>9, <2>4 DEF IsWalk
    <2>7. QED
      BY <1>2, <2>5, <2>6, WalkIsUnique
  <1>11. QED
    BY <1>1, <1>3, <1>4, <1>8, <1>10

(* In terms of the list: its k-th entry is met at step k - 1, and it has a *)
(* successor unless it is the last.                                        *)
LEMMA WalkMeets ==
  ASSUME DiskShape, NEW q \in Seq(Procs), Queue(q)
  PROVE  /\ Len(q) \in Nat /\ Len(q) <= Cardinality(Procs) /\ Cardinality(Procs) \in Nat
         /\ DOMAIN Walk = 0..Cardinality(Procs)
         /\ \A k \in 0..Cardinality(Procs) : Walk[k] = IF k < Len(q) THEN q[k + 1] ELSE NULL
         /\ \A i \in 1..Len(q) : /\ q[i] \in Procs /\ q[i] \in Pending /\ q[i] # NULL
                                 /\ NextOf(q[i]) = IF i < Len(q) THEN q[i + 1] ELSE NULL
  <1>1. Len(q) \in Nat /\ Len(q) <= Cardinality(Procs)
    BY ProgramsAssumption, ChainFits DEF Queue, IsChain
  <1>2. Cardinality(Procs) \in Nat
    BY ProgramsAssumption, FS_CardinalityType
  <1>3. Walk = WalkAlong(q, Cardinality(Procs), NULL)
    BY WalkIs
  <1>4. ASSUME NEW i \in 1..Len(q)
        PROVE  /\ q[i] \in Procs /\ q[i] \in Pending /\ q[i] # NULL
               /\ NextOf(q[i]) = IF i < Len(q) THEN q[i + 1] ELSE NULL
    <2>1. q[i] \in Procs /\ q[i] \in Pending
      BY ElementsOf DEF Queue
    <2>2. Links[q[i]] = IF i < Len(q) THEN q[i + 1] ELSE NULL
      BY DEF Queue, IsChain
    <2>3. QED
      BY <2>1, <2>2, ProgramsAssumption DEF Links, NextOf
  <1>5. QED
    BY <1>1, <1>2, <1>3, <1>4 DEF WalkAlong

(* The two walks of insertDiskRequest, as facts about the list: they pass  *)
(* i - 1 entries and stop behind the i-th.                                 *)
FirstSweepPlace(q, t, i) ==
    /\ t > TrackOf[q[1]]
    /\ i < Len(q) => TrackOf[q[i + 1]] >= t \/ TrackOf[q[i + 1]] <= TrackOf[q[i]]
    /\ \A j \in 1..i - 1 : TrackOf[q[j]] < TrackOf[q[j + 1]] /\ TrackOf[q[j + 1]] < t

SecondSweepPlace(q, t, i) ==
    /\ t <= TrackOf[q[1]]
    /\ i < Len(q) => TrackOf[q[i + 1]] > t
    /\ \E d \in 1..i : /\ d < Len(q) => TrackOf[q[d]] > TrackOf[q[d + 1]]
                       /\ \A j \in 1..d - 1 : TrackOf[q[j]] <= TrackOf[q[j + 1]]
                       /\ \A j \in d..i - 1 : TrackOf[q[j + 1]] <= t

LEMMA FirstFrom ==
  ASSUME NEW l \in Nat, NEW a \in 0..l - 1, NEW E \in SUBSET (0..l - 1), l - 1 \in E
  PROVE  \E k \in a..l - 1 : k \in E /\ \A j \in a..k - 1 : j \notin E
  <1>1. PICK D : D = E \cap (a..l - 1)
    OBVIOUS
  <1>2. D \in SUBSET Nat /\ D # {}
    BY <1>1
  <1>3. PICK k \in D : \A m \in D : k <= m
    BY <1>2, LeastOf
  <1>4. ASSUME NEW j \in a..k - 1 PROVE j \notin E
    <2>1. j \in a..l - 1 /\ ~(k <= j)
      BY <1>1, <1>3
    <2>2. QED
      BY <1>1, <1>3, <2>1
  <1>5. QED
    BY <1>1, <1>3, <1>4

LEMMA ScanPlaceFinds ==
  ASSUME DiskShape, NEW q \in Seq(Procs), Queue(q), Len(q) # 0, NEW t \in 0..Tracks - 1
  PROVE  \E i \in 1..Len(q) : /\ ScanPlace(t) = Linking(q[i], NextOf(q[i]))
                              /\ FirstSweepPlace(q, t, i) \/ SecondSweepPlace(q, t, i)
  <1>1. PICK n, N : n = Len(q) /\ N = Cardinality(Procs)
    OBVIOUS
  <1>2. /\ n \in Nat /\ n > 0 /\ N \in Nat /\ n <= N /\ DOMAIN Walk = 0..N
        /\ \A k \in 0..N : Walk[k] = IF k < n THEN q[k + 1] ELSE NULL
        /\ \A i \in 1..n : q[i] \in Procs /\ q[i] # NULL /\ NextOf(q[i]) = IF i < n THEN q[i + 1] ELSE NULL
    BY <1>1, WalkMeets
  <1>3. headDiskList = q[1] /\ headDiskList # NULL
    <2>1. 1 \in 1..n
      BY <1>2
    <2>2. QED
      BY <1>1, <1>2, <2>1 DEF Queue, IsChain
  <1>4. \A i \in 1..n : TrackOf[q[i]] \in Int
    BY <1>2, DiskAssumption
  <1> DEFINE track(k) == TrackOf[Walk[k]]
             AtEnd(k) == NextOf(Walk[k]) = NULL
             First(Ends(_), from) ==
               CHOOSE k \in DOMAIN Walk :
                 /\ k >= from /\ Walk[k] # NULL /\ (AtEnd(k) \/ Ends(k))
                 /\ \A j \in from..k - 1 : ~(AtEnd(j) \/ Ends(j))
             SweepEnds(k) == track(k + 1) >= t \/ track(k + 1) <= track(k)
             Descends(k) == track(k) > track(k + 1)
             Passes(k) == track(k + 1) > t
             k0 == IF t > track(0) THEN First(SweepEnds, 0) ELSE First(Passes, First(Descends, 0))
  <1>5. ScanPlace(t) = Linking(Walk[k0], NextOf(Walk[k0]))
    BY <1>3 DEF ScanPlace
  <1>6. ASSUME NEW k \in 0..n - 1
        PROVE  /\ k \in DOMAIN Walk /\ k + 1 \in 1..n /\ Walk[k] = q[k + 1] /\ Walk[k] # NULL
               /\ AtEnd(k) <=> k = n - 1
               /\ track(k) = TrackOf[q[k + 1]]
               /\ k < n - 1 => track(k + 1) = TrackOf[q[k + 2]]
    <2>1. k \in 0..N /\ k + 1 \in 1..n /\ k < n
      BY <1>2
    <2>2. Walk[k] = q[k + 1] /\ Walk[k] # NULL
      BY <1>2, <2>1
    <2>3. AtEnd(k) <=> k = n - 1
      <3>1. CASE k = n - 1
        <4>1. ~(k + 1 < n)
          BY <1>2, <3>1
        <4>2. QED
          BY <1>2, <2>1, <2>2, <3>1, <4>1
      <3>2. CASE k # n - 1
        <4>1. k + 1 < n /\ (k + 1) + 1 \in 1..n
          BY <1>2, <3>2
        <4>2. QED
          BY <1>2, <2>1, <2>2, <3>2, <4>1
      <3>3. QED
        BY <3>1, <3>2
    <2>4. ASSUME k < n - 1 PROVE track(k + 1) = TrackOf[q[k + 2]]
      <3>1. k + 1 \in 0..N /\ k + 1 < n /\ (k + 1) + 1 = k + 2
        BY <1>2, <2>4
      <3>2. Walk[k + 1] = q[k + 2]
        BY <1>2, <3>1
      <3>3. QED
        BY <3>2
    <2>5. QED
      BY <1>2, <2>1, <2>2, <2>3, <2>4
  <1>7. n - 1 \in 0..n - 1 /\ 0 \in 0..n - 1
    BY <1>2
  <1>8. t > track(0) <=> t > TrackOf[q[1]]
    BY <1>6, <1>7
  <1> HIDE DEF track, AtEnd
  <1>9. CASE t > TrackOf[q[1]]
    <2>1. k0 = First(SweepEnds, 0)
      BY <1>8, <1>9
    <2>2. PICK E : E = {k \in 0..n - 1 : AtEnd(k) \/ SweepEnds(k)}
      OBVIOUS
    <2>3. \E k \in 0..n - 1 : k \in E /\ \A j \in 0..k - 1 : j \notin E
      <3>1. E \in SUBSET (0..n - 1) /\ n - 1 \in E
        BY <1>6, <1>7, <2>2
      <3>2. QED
        BY <1>2, <1>7, <3>1, FirstFrom
    <2>4. PICK c : c = k0
      OBVIOUS
    <2>5. /\ c \in 0..N /\ Walk[c] # NULL /\ (AtEnd(c) \/ SweepEnds(c))
          /\ \A j \in 0..c - 1 : ~(AtEnd(j) \/ SweepEnds(j))
      <3>1. PICK k \in 0..n - 1 : k \in E /\ \A j \in 0..k - 1 : j \notin E
        BY <2>3
      <3>2. \A j \in 0..k - 1 : ~(AtEnd(j) \/ SweepEnds(j))
        <4>1. ASSUME NEW j \in 0..k - 1 PROVE j \in 0..n - 1
          BY <1>2, <3>1
        <4>2. QED
          BY <2>2, <3>1, <4>1
      <3>3. /\ k >= 0 /\ Walk[k] # NULL /\ (AtEnd(k) \/ SweepEnds(k)) /\ k \in DOMAIN Walk
        BY <1>6, <2>2, <3>1
      <3>4. QED
        BY <1>2, <2>1, <2>4, <3>2, <3>3
    <2>6. c \in 0..n - 1
      BY <1>2, <2>5
    <2>7. PICK i : i = c + 1
      OBVIOUS
    <2>8. i \in 1..n /\ Walk[c] = q[i]
      BY <1>6, <2>6, <2>7
    <2>9. ASSUME i < n PROVE TrackOf[q[i + 1]] >= t \/ TrackOf[q[i + 1]] <= TrackOf[q[i]]
      <3>1. c < n - 1 /\ c # n - 1 /\ c + 2 = i + 1
        BY <1>2, <2>6, <2>7, <2>9
      <3>2. QED
        BY <1>6, <2>5, <2>6, <2>7, <3>1
    <2>10. ASSUME NEW j \in 1..i - 1 PROVE TrackOf[q[j]] < TrackOf[q[j + 1]] /\ TrackOf[q[j + 1]] < t
      <3>1. j - 1 \in 0..c - 1 /\ j - 1 \in 0..n - 1 /\ j - 1 < n - 1 /\ (j - 1) + 2 = j + 1 /\ (j - 1) + 1 = j
        BY <1>2, <2>6, <2>7
      <3>2. ~SweepEnds(j - 1)
        BY <2>5, <3>1
      <3>3. track(j - 1) = TrackOf[q[j]] /\ track((j - 1) + 1) = TrackOf[q[j + 1]]
        BY <1>6, <3>1
      <3>4. j \in 1..n /\ j + 1 \in 1..n
        BY <1>2, <3>1
      <3>5. QED
        BY <1>4, <3>2, <3>3, <3>4
    <2>11. FirstSweepPlace(q, t, i)
      BY <1>1, <1>9, <2>9, <2>10 DEF FirstSweepPlace
    <2>12. QED
      BY <1>1, <1>5, <2>4, <2>8, <2>11
  <1>10. CASE ~(t > TrackOf[q[1]])
    <2>1. k0 = First(Passes, First(Descends, 0))
      BY <1>8, <1>10
    <2>2. PICK e : e = First(Descends, 0)
      OBVIOUS
    <2>3. /\ e \in 0..n - 1 /\ (AtEnd(e) \/ Descends(e))
          /\ \A j \in 0..e - 1 : ~(AtEnd(j) \/ Descends(j))
      <3>1. PICK E : E = {k \in 0..n - 1 : AtEnd(k) \/ Descends(k)}
        OBVIOUS
      <3>2. E \in SUBSET (0..n - 1) /\ n - 1 \in E
        BY <1>6, <1>7, <3>1
      <3>3. PICK k \in 0..n - 1 : k \in E /\ \A j \in 0..k - 1 : j \notin E
        BY <1>2, <1>7, <3>2, FirstFrom
      <3>4. \A j \in 0..k - 1 : ~(AtEnd(j) \/ Descends(j))
        <4>1. ASSUME NEW j \in 0..k - 1 PROVE j \in 0..n - 1
          BY <1>2, <3>3
        <4>2. QED
          BY <3>1, <3>3, <4>1
      <3>5. /\ k >= 0 /\ Walk[k] # NULL /\ (AtEnd(k) \/ Descends(k)) /\ k \in DOMAIN Walk
        BY <1>6, <3>1, <3>3
      <3>6. /\ e \in 0..N /\ Walk[e] # NULL /\ (AtEnd(e) \/ Descends(e))
            /\ \A j \in 0..e - 1 : ~(AtEnd(j) \/ Descends(j))
        BY <1>2, <2>2, <3>4, <3>5
      <3>7. e \in 0..n - 1
        BY <1>2, <3>6
      <3>8. QED
        BY <3>6, <3>7
    <2>4. PICK c : c = First(Passes, e)
      OBVIOUS
    <2>5. /\ c \in 0..n - 1 /\ c >= e /\ (AtEnd(c) \/ Passes(c))
          /\ \A j \in e..c - 1 : ~(AtEnd(j) \/ Passes(j))
      <3>1. PICK E : E = {k \in 0..n - 1 : AtEnd(k) \/ Passes(k)}
        OBVIOUS
      <3>2. E \in SUBSET (0..n - 1) /\ n - 1 \in E
        BY <1>6, <1>7, <3>1
      <3>3. PICK k \in e..n - 1 : k \in E /\ \A j \in e..k - 1 : j \notin E
        BY <1>2, <2>3, <3>2, FirstFrom
      <3>4. \A j \in e..k - 1 : ~(AtEnd(j) \/ Passes(j))
        <4>1. ASSUME NEW j \in e..k - 1 PROVE j \in 0..n - 1
          BY <1>2, <2>3, <3>3
        <4>2. QED
          BY <3>1, <3>3, <4>1
      <3>5. /\ k >= e /\ Walk[k] # NULL /\ (AtEnd(k) \/ Passes(k)) /\ k \in DOMAIN Walk
        <4>1. k \in 0..n - 1 /\ k >= e
          BY <2>3
        <4>2. QED
          BY <1>6, <3>1, <3>3, <4>1
      <3>6. /\ c \in 0..N /\ c >= e /\ Walk[c] # NULL /\ (AtEnd(c) \/ Passes(c))
            /\ \A j \in e..c - 1 : ~(AtEnd(j) \/ Passes(j))
        BY <1>2, <2>4, <3>4, <3>5
      <3>7. c \in 0..n - 1
        BY <1>2, <3>6
      <3>8. QED
        BY <3>6, <3>7
    <2>6. PICK i, d : i = c + 1 /\ d = e + 1
      OBVIOUS
    <2>7. i \in 1..n /\ d \in 1..i /\ Walk[c] = q[i]
      BY <1>6, <2>3, <2>5, <2>6
    <2>8. ASSUME i < n PROVE TrackOf[q[i + 1]] > t
      <3>1. c < n - 1 /\ c # n - 1 /\ c + 2 = i + 1
        BY <1>2, <2>5, <2>6, <2>8
      <3>2. QED
        BY <1>6, <2>5, <2>6, <3>1
    <2>9. ASSUME d < n PROVE TrackOf[q[d]] > TrackOf[q[d + 1]]
      <3>1. e < n - 1 /\ e # n - 1 /\ e + 2 = d + 1
        BY <1>2, <2>3, <2>6, <2>9
      <3>2. QED
        BY <1>6, <2>3, <2>6, <3>1
    <2>10. ASSUME NEW j \in 1..d - 1 PROVE TrackOf[q[j]] <= TrackOf[q[j + 1]]
      <3>1. j - 1 \in 0..e - 1 /\ j - 1 \in 0..n - 1 /\ j - 1 < n - 1 /\ (j - 1) + 2 = j + 1 /\ (j - 1) + 1 = j
        BY <1>2, <2>3, <2>6
      <3>2. ~Descends(j - 1)
        BY <2>3, <3>1
      <3>3. track(j - 1) = TrackOf[q[j]] /\ track((j - 1) + 1) = TrackOf[q[j + 1]]
        BY <1>6, <3>1
      <3>4. j \in 1..n /\ j + 1 \in 1..n
        BY <1>2, <3>1
      <3>5. QED
        BY <1>4, <3>2, <3>3, <3>4
    <2>11. ASSUME NEW j \in d..i - 1 PROVE TrackOf[q[j + 1]] <= t
      <3>1. j - 1 \in e..c - 1 /\ j - 1 \in 0..n - 1 /\ j - 1 < n - 1 /\ (j - 1) + 2 = j + 1
        BY <1>2, <2>3, <2>5, <2>6
      <3>2. ~Passes(j - 1)
        BY <2>5, <3>1
      <3>3. track((j - 1) + 1) = TrackOf[q[j + 1]]
        BY <1>6, <3>1
      <3>4. j + 1 \in 1..n
        BY <1>2, <3>1
      <3>5. QED
        BY <1>4, <3>2, <3>3, <3>4
    <2>12. t <= TrackOf[q[1]]
      <3>1. 1 \in 1..n
        BY <1>2
      <3>2. QED
        BY <1>4, <1>10, <3>1
    <2>13. SecondSweepPlace(q, t, i)
      BY <1>1, <2>7, <2>8, <2>9, <2>10, <2>11, <2>12 DEF SecondSweepPlace
    <2>14. QED
      BY <1>1, <1>5, <2>1, <2>2, <2>4, <2>7, <2>13
  <1>11. QED
    BY <1>9, <1>10
-----------------------------------------------------------------------------
(* The order of the list: where a request for a track of its own is put    *)
(* in, the two sweeps stay sweeps, and so they do when the head leaves.    *)

LEMMA InsertKeepsSweeps ==
  ASSUME NEW q \in Seq(Procs), Sweeps(q), NEW p \in Procs, NEW i \in 1..Len(q),
         FirstSweepPlace(q, TrackOf[p], i) \/ SecondSweepPlace(q, TrackOf[p], i),
         \A k \in 1..Len(q) : TrackOf[q[k]] # TrackOf[p]
  PROVE  Sweeps(Inserted(q, i, p))
  <1>1. PICK n, r, t : n = Len(q) /\ r = Inserted(q, i, p) /\ t = TrackOf[p]
    OBVIOUS
  <1>2. PICK T : T = [k \in 1..n |-> TrackOf[q[k]]]
    OBVIOUS
  <1>3. /\ n \in Nat /\ i \in 1..n /\ 1 \in 1..n /\ t \in Int
        /\ \A k \in 1..n : T[k] \in Int /\ T[k] = TrackOf[q[k]] /\ T[k] # t
    BY <1>1, <1>2, ElementsOf, DiskAssumption
  <1>4. PICK U : U = [k \in 1..n + 1 |-> TrackOf[r[k]]]
    OBVIOUS
  <1>5. /\ Len(r) = n + 1
        /\ \A k \in 1..n + 1 : /\ k <= i => U[k] = T[k]
                               /\ k = i + 1 => U[k] = t
                               /\ k > i + 1 => U[k] = T[k - 1]
        /\ U[1] = T[1]
    <2>1. \A k \in 1..n + 1 : /\ k <= i => k \in 1..n
                              /\ k > i + 1 => k - 1 \in 1..n
      BY <1>3
    <2>2. /\ Len(r) = n + 1
          /\ \A k \in 1..n + 1 : /\ k <= i => r[k] = q[k]
                                 /\ k = i + 1 => r[k] = p
                                 /\ k > i + 1 => r[k] = q[k - 1]
      <3>1. Len(r) = n + 1
        BY <1>1, InsertedIs
      <3>2. r = [k \in 1..n + 1 |-> IF k <= i THEN q[k] ELSE IF k = i + 1 THEN p ELSE q[k - 1]]
        BY <1>1 DEF Inserted
      <3>3. QED
        BY <1>3, <3>1, <3>2
    <2>3. \A k \in 1..n + 1 : /\ k <= i => U[k] = T[k]
                              /\ k = i + 1 => U[k] = t
                              /\ k > i + 1 => U[k] = T[k - 1]
      BY <1>1, <1>2, <1>4, <2>1, <2>2
    <2>4. 1 \in 1..n + 1 /\ 1 <= i
      BY <1>3
    <2>5. QED
      BY <2>2, <2>3, <2>4
  <1>6. PICK m \in 0..n : \A j, k \in 1..n : /\ j < k /\ (k <= m \/ m < j) => T[j] < T[k]
                                             /\ m < k => T[k] < T[1]
    <2>1. PICK m \in 0..n : \A j, k \in 1..n :
             /\ j < k /\ (k <= m \/ m < j) => TrackOf[q[j]] < TrackOf[q[k]]
             /\ m < k => TrackOf[q[k]] < TrackOf[q[1]]
      BY <1>1 DEF Sweeps
    <2>2. QED
      BY <1>3, <2>1
  <1>7. m >= 1 /\ m \in 1..n
    BY <1>3, <1>6
  <1>8. \A k \in 1..m : T[1] <= T[k]
    <2>1. SUFFICES ASSUME NEW k \in 1..m PROVE T[1] <= T[k]
      OBVIOUS
    <2>2. k = 1 \/ T[1] < T[k]
      BY <1>3, <1>6, <1>7
    <2>3. k \in 1..n
      BY <1>3, <1>6
    <2>4. QED
      BY <1>3, <2>2, <2>3
  <1>9. SUFFICES \E a \in 0..n + 1 : \A j, k \in 1..n + 1 :
                    /\ j < k /\ (k <= a \/ a < j) => U[j] < U[k]
                    /\ a < k => U[k] < U[1]
    <2>1. 1 \in 1..n + 1
      BY <1>3
    <2>2. QED
      BY <1>1, <1>4, <1>5, <2>1 DEF Sweeps
  <1>10. CASE FirstSweepPlace(q, t, i)
    <2>1. /\ t > T[1]
          /\ i < n => T[i + 1] >= t \/ T[i + 1] <= T[i]
          /\ \A j \in 1..i - 1 : T[j] < T[j + 1] /\ T[j + 1] < t
      <3>1. \A j \in 1..i - 1 : j \in 1..n /\ j + 1 \in 1..n
        BY <1>3
      <3>2. i < n => i + 1 \in 1..n
        BY <1>3
      <3>3. QED
        BY <1>1, <1>3, <1>10, <3>1, <3>2 DEF FirstSweepPlace
    <2>2. i <= m
      <3>1. SUFFICES ASSUME m < i PROVE FALSE
        BY <1>3, <1>6
      <3>2. m \in 1..i - 1 /\ m + 1 \in 1..n /\ m < m + 1
        BY <1>3, <1>7, <3>1
      <3>3. T[m] < T[m + 1] /\ T[m + 1] < T[1] /\ T[1] <= T[m]
        BY <1>6, <1>7, <1>8, <2>1, <3>2
      <3>4. QED
        BY <1>3, <1>7, <3>2, <3>3
    <2>3. T[i] < t
      <3>1. CASE i = 1
        BY <2>1, <3>1
      <3>2. CASE i # 1
        <4>1. i - 1 \in 1..i - 1 /\ (i - 1) + 1 = i
          BY <1>3, <3>2
        <4>2. QED
          BY <2>1, <4>1
      <3>3. QED
        BY <3>1, <3>2
    <2>4. ASSUME i < m PROVE t < T[i + 1]
      <3>1. i < n /\ i + 1 \in 1..n /\ i < i + 1 /\ i + 1 <= m
        BY <1>3, <1>6, <2>4
      <3>2. T[i] < T[i + 1]
        BY <1>3, <1>6, <3>1
      <3>3. QED
        BY <1>3, <2>1, <3>1, <3>2
    <2>5. m + 1 \in 0..n + 1
      BY <1>3, <1>6
    <2>6. ASSUME NEW j \in 1..n + 1, NEW k \in 1..n + 1, j < k, k <= m + 1 PROVE U[j] < U[k]
      <3>1. CASE k <= i
        <4>1. j <= i /\ j \in 1..n /\ k \in 1..n /\ k <= m
          BY <1>3, <1>6, <2>2, <2>6, <3>1
        <4>2. T[j] < T[k]
          BY <1>6, <2>6, <4>1
        <4>3. QED
          BY <1>5, <3>1, <4>1, <4>2
      <3>2. CASE k = i + 1
        <4>1. j <= i /\ j \in 1..n
          BY <1>3, <2>6, <3>2
        <4>2. j = i \/ T[j] < T[i]
          <5>1. j = i \/ j < i
            BY <1>3, <4>1
          <5>2. QED
            BY <1>3, <1>6, <2>2, <4>1, <5>1
        <4>3. T[j] < t
          BY <1>3, <2>3, <4>1, <4>2
        <4>4. QED
          BY <1>5, <3>2, <4>1, <4>3
      <3>3. CASE k > i + 1
        <4>1. k - 1 \in 1..n /\ k - 1 > i /\ k - 1 <= m /\ i < m /\ i + 1 \in 1..n
          BY <1>3, <1>6, <2>6, <3>3
        <4>2. U[k] = T[k - 1]
          BY <1>5, <3>3
        <4>3. CASE j <= i
          <5>1. j \in 1..n /\ j < k - 1
            BY <1>3, <4>1, <4>3
          <5>2. T[j] < T[k - 1]
            BY <1>6, <4>1, <5>1
          <5>3. QED
            BY <1>5, <4>2, <4>3, <5>2
        <4>4. CASE j = i + 1
          <5>1. t < T[i + 1]
            BY <2>4, <4>1
          <5>2. i + 1 = k - 1 \/ i + 1 < k - 1
            BY <1>3, <4>1
          <5>3. i + 1 = k - 1 \/ T[i + 1] < T[k - 1]
            BY <1>6, <4>1, <5>2
          <5>4. t < T[k - 1]
            BY <1>3, <4>1, <5>1, <5>3
          <5>5. QED
            BY <1>5, <4>2, <4>4, <5>4
        <4>5. CASE j > i + 1
          <5>1. j - 1 \in 1..n /\ j - 1 < k - 1
            BY <1>3, <2>6, <4>5
          <5>2. T[j - 1] < T[k - 1]
            BY <1>6, <4>1, <5>1
          <5>3. QED
            BY <1>5, <4>2, <4>5, <5>2
        <4>6. QED
          BY <1>3, <4>3, <4>4, <4>5
      <3>4. QED
        BY <1>3, <3>1, <3>2, <3>3
    <2>7. ASSUME NEW k \in 1..n + 1, m + 1 < k PROVE k - 1 \in 1..n /\ m < k - 1 /\ U[k] = T[k - 1]
      <3>1. k > i + 1 /\ k - 1 \in 1..n /\ m < k - 1
        BY <1>3, <1>6, <2>2, <2>7
      <3>2. QED
        BY <1>5, <3>1
    <2>8. \A k \in 1..n + 1 : m + 1 < k => U[k] < U[1]
      BY <1>5, <1>6, <2>7
    <2>9. ASSUME NEW j \in 1..n + 1, NEW k \in 1..n + 1, j < k, m + 1 < j PROVE U[j] < U[k]
      <3>1. m + 1 < k /\ j - 1 < k - 1
        BY <1>6, <2>9
      <3>2. /\ j - 1 \in 1..n /\ m < j - 1 /\ U[j] = T[j - 1]
            /\ k - 1 \in 1..n /\ U[k] = T[k - 1]
        BY <2>7, <2>9, <3>1
      <3>3. QED
        BY <1>6, <3>1, <3>2
    <2>10. QED
      BY <2>5, <2>6, <2>8, <2>9
  <1>11. CASE SecondSweepPlace(q, t, i)
    <2>1. PICK d \in 1..i : /\ d < n => T[d] > T[d + 1]
                            /\ \A j \in 1..d - 1 : T[j] <= T[j + 1]
                            /\ \A j \in d..i - 1 : T[j + 1] <= t
      <3>1. PICK d \in 1..i : /\ d < n => TrackOf[q[d]] > TrackOf[q[d + 1]]
                              /\ \A j \in 1..d - 1 : TrackOf[q[j]] <= TrackOf[q[j + 1]]
                              /\ \A j \in d..i - 1 : TrackOf[q[j + 1]] <= t
        BY <1>1, <1>11 DEF SecondSweepPlace
      <3>2. d \in 1..n /\ (d < n => d + 1 \in 1..n)
        BY <1>3
      <3>3. \A j \in 1..d - 1 : j \in 1..n /\ j + 1 \in 1..n
        BY <1>3
      <3>4. \A j \in d..i - 1 : j + 1 \in 1..n
        BY <1>3
      <3>5. QED
        BY <1>3, <3>1, <3>2, <3>3, <3>4
    <2>2. t < T[1]
      BY <1>1, <1>3, <1>11 DEF SecondSweepPlace
    <2>3. ASSUME i < n PROVE t < T[i + 1]
      <3>1. i + 1 \in 1..n
        BY <1>3, <2>3
      <3>2. QED
        BY <1>1, <1>3, <1>11, <2>3, <3>1 DEF SecondSweepPlace
    <2>4. d = m
      <3>1. ASSUME m < d PROVE FALSE
        <4>1. m \in 1..d - 1 /\ m + 1 \in 1..n /\ m < m + 1
          BY <1>3, <1>7, <3>1
        <4>2. T[m] <= T[m + 1] /\ T[m + 1] < T[1] /\ T[1] <= T[m]
          BY <1>6, <1>7, <1>8, <2>1, <4>1
        <4>3. QED
          BY <1>3, <1>7, <4>1, <4>2
      <3>2. ASSUME d < m PROVE FALSE
        <4>1. d < n /\ d \in 1..n /\ d + 1 \in 1..n /\ d + 1 <= m /\ d < d + 1
          BY <1>3, <1>6, <3>2
        <4>2. T[d] < T[d + 1] /\ T[d] > T[d + 1]
          BY <1>6, <2>1, <4>1
        <4>3. QED
          BY <1>3, <4>1, <4>2
      <3>3. QED
        BY <1>6, <3>1, <3>2
    <2>5. m <= i
      BY <2>1, <2>4
    <2>6. \A k \in 1..n : m < k /\ k <= i => T[k] < t
      <3>1. SUFFICES ASSUME NEW k \in 1..n, m < k, k <= i PROVE T[k] < t
        OBVIOUS
      <3>2. k - 1 \in d..i - 1 /\ (k - 1) + 1 = k
        BY <1>6, <2>4, <3>1
      <3>3. T[k] <= t
        BY <2>1, <3>2
      <3>4. QED
        BY <1>3, <3>3
    <2>7. m \in 0..n + 1
      BY <1>3, <1>6
    <2>8. ASSUME NEW j \in 1..n + 1, NEW k \in 1..n + 1, j < k, k <= m PROVE U[j] < U[k]
      <3>1. j \in 1..n /\ k \in 1..n /\ j <= i /\ k <= i
        BY <1>3, <1>6, <2>5, <2>8
      <3>2. QED
        BY <1>5, <1>6, <2>8, <3>1
    <2>9. ASSUME NEW k \in 1..n + 1, m < k PROVE U[k] < U[1]
      <3>1. CASE k <= i
        <4>1. k \in 1..n
          BY <1>3, <3>1
        <4>2. QED
          BY <1>5, <1>6, <2>9, <3>1, <4>1
      <3>2. CASE k = i + 1
        BY <1>5, <2>2, <3>2
      <3>3. CASE k > i + 1
        <4>1. k - 1 \in 1..n /\ m < k - 1
          BY <1>3, <1>6, <2>5, <3>3
        <4>2. QED
          BY <1>5, <1>6, <3>3, <4>1
      <3>4. QED
        BY <1>3, <3>1, <3>2, <3>3
    <2>10. ASSUME NEW j \in 1..n + 1, NEW k \in 1..n + 1, j < k, m < j PROVE U[j] < U[k]
      <3>1. CASE k <= i
        <4>1. j <= i /\ j \in 1..n /\ k \in 1..n
          BY <1>3, <2>10, <3>1
        <4>2. QED
          BY <1>5, <1>6, <2>10, <3>1, <4>1
      <3>2. CASE k = i + 1
        <4>1. j <= i /\ j \in 1..n
          BY <1>3, <2>10, <3>2
        <4>2. T[j] < t
          BY <2>6, <2>10, <4>1
        <4>3. QED
          BY <1>5, <3>2, <4>1, <4>2
      <3>3. CASE k > i + 1
        <4>1. k - 1 \in 1..n /\ k - 1 > i /\ i < n /\ i + 1 \in 1..n /\ U[k] = T[k - 1] /\ m < k - 1
          BY <1>3, <1>5, <1>6, <2>5, <3>3
        <4>2. CASE j <= i
          <5>1. j \in 1..n /\ j < k - 1
            BY <1>3, <4>1, <4>2
          <5>2. T[j] < T[k - 1]
            BY <1>6, <2>10, <4>1, <5>1
          <5>3. QED
            BY <1>5, <4>1, <4>2, <5>2
        <4>3. CASE j = i + 1
          <5>1. t < T[i + 1]
            BY <2>3, <4>1
          <5>2. i + 1 = k - 1 \/ i + 1 < k - 1
            BY <1>3, <4>1
          <5>3. m < i + 1
            BY <1>3, <1>6, <2>5
          <5>4. i + 1 = k - 1 \/ T[i + 1] < T[k - 1]
            BY <1>6, <4>1, <5>2, <5>3
          <5>5. t < T[k - 1]
            BY <1>3, <4>1, <5>1, <5>4
          <5>6. QED
            BY <1>5, <4>1, <4>3, <5>5
        <4>4. CASE j > i + 1
          <5>1. j - 1 \in 1..n /\ j - 1 < k - 1 /\ m < j - 1
            BY <1>3, <1>6, <2>5, <2>10, <4>4
          <5>2. T[j - 1] < T[k - 1]
            BY <1>6, <4>1, <5>1
          <5>3. QED
            BY <1>5, <4>1, <4>4, <5>2
        <4>5. QED
          BY <1>3, <4>2, <4>3, <4>4
      <3>4. QED
        BY <1>3, <3>1, <3>2, <3>3
    <2>11. QED
      BY <2>7, <2>8, <2>9, <2>10
  <1>12. QED
    BY <1>1, <1>10, <1>11

LEMMA TailKeepsSweeps ==
  ASSUME NEW q \in Seq(Procs), Sweeps(q), Len(q) # 0, NEW r \in Seq(Procs), Len(r) = Len(q) - 1,
         \A i \in 1..Len(q) - 1 : r[i] = q[i + 1]
  PROVE  Sweeps(r)
  <1>1. PICK n : n = Len(q)
    OBVIOUS
  <1>2. PICK T, U : T = [k \in 1..n |-> TrackOf[q[k]]] /\ U = [k \in 1..n - 1 |-> TrackOf[r[k]]]
    OBVIOUS
  <1>3. /\ n \in Nat /\ n > 0 /\ 1 \in 1..n
        /\ \A k \in 1..n : T[k] \in Int /\ T[k] = TrackOf[q[k]]
    BY <1>1, <1>2, ElementsOf, DiskAssumption
  <1>4. \A k \in 1..n - 1 : k + 1 \in 1..n /\ U[k] = T[k + 1] /\ U[k] = TrackOf[r[k]]
    <2>1. \A k \in 1..n - 1 : k + 1 \in 1..n
      BY <1>3
    <2>2. QED
      BY <1>1, <1>2, <2>1
  <1>5. PICK m \in 0..n : \A j, k \in 1..n : /\ j < k /\ (k <= m \/ m < j) => T[j] < T[k]
                                             /\ m < k => T[k] < T[1]
    <2>1. PICK m \in 0..n : \A j, k \in 1..n :
             /\ j < k /\ (k <= m \/ m < j) => TrackOf[q[j]] < TrackOf[q[k]]
             /\ m < k => TrackOf[q[k]] < TrackOf[q[1]]
      BY <1>1 DEF Sweeps
    <2>2. QED
      BY <1>3, <2>1
  <1>6. m >= 1
    BY <1>3, <1>5
  <1>7. SUFFICES \E a \in 0..n - 1 : \A j, k \in 1..n - 1 :
                    /\ j < k /\ (k <= a \/ a < j) => U[j] < U[k]
                    /\ a < k => U[k] < U[1]
    <2>1. \A k \in 1..n - 1 : 1 \in 1..n - 1
      BY <1>3
    <2>2. QED
      BY <1>1, <1>4, <2>1 DEF Sweeps
  <1>8. CASE m = 1
    <2>1. n - 1 \in 0..n - 1
      BY <1>3
    <2>2. ASSUME NEW j \in 1..n - 1, NEW k \in 1..n - 1, j < k PROVE U[j] < U[k]
      <3>1. j + 1 < k + 1 /\ m < j + 1 /\ j + 1 \in 1..n /\ k + 1 \in 1..n
        BY <1>3, <1>8, <2>2
      <3>2. QED
        BY <1>4, <1>5, <3>1
    <2>3. \A k \in 1..n - 1 : ~(n - 1 < k)
      BY <1>3
    <2>4. QED
      BY <2>1, <2>2, <2>3
  <1>9. CASE m # 1
    <2>1. m - 1 \in 0..n - 1 /\ 1 \in 1..n - 1 /\ 2 \in 1..n /\ 2 <= m
      BY <1>3, <1>5, <1>6, <1>9
    <2>2. ASSUME NEW j \in 1..n - 1, NEW k \in 1..n - 1, j < k, k <= m - 1 \/ m - 1 < j PROVE U[j] < U[k]
      <3>1. j + 1 < k + 1 /\ (k + 1 <= m \/ m < j + 1) /\ j + 1 \in 1..n /\ k + 1 \in 1..n
        BY <1>3, <1>5, <2>2
      <3>2. QED
        BY <1>4, <1>5, <3>1
    <2>3. ASSUME NEW k \in 1..n - 1, m - 1 < k PROVE U[k] < U[1]
      <3>1. m < k + 1 /\ k + 1 \in 1..n
        BY <1>3, <1>5, <2>3
      <3>2. T[k + 1] < T[1]
        BY <1>5, <3>1
      <3>3. T[1] < T[2] /\ U[1] = T[2]
        BY <1>3, <1>4, <1>5, <2>1
      <3>4. QED
        BY <1>3, <1>4, <2>1, <3>1, <3>2, <3>3
    <2>4. QED
      BY <2>1, <2>2, <2>3
  <1>10. QED
    BY <1>8, <1>9
-----------------------------------------------------------------------------
(* What the assignments do to the records.                                 *)

LEMMA InfoSet ==
  ASSUME NEW r \in Infos
  PROVE  /\ \A s \in {"unset", "error", "ready"} :
               /\ [r EXCEPT !.status = s] \in Infos /\ [r EXCEPT !.status = s].status = s
               /\ [r EXCEPT !.status = s].next = r.next
               /\ [r EXCEPT !.status = s].startSector = r.startSector
               /\ [r EXCEPT !.status = s].sectors = r.sectors
               /\ [r EXCEPT !.status = s].requestType = r.requestType
         /\ \A n \in Procs \cup {NULL} :
               /\ [r EXCEPT !.next = n] \in Infos /\ [r EXCEPT !.next = n].next = n
               /\ [r EXCEPT !.next = n].startSector = r.startSector
               /\ [r EXCEPT !.next = n].sectors = r.sectors
               /\ [r EXCEPT !.next = n].requestType = r.requestType
               /\ [r EXCEPT !.next = n].status = r.status
  BY DEF Infos

(* All but the links, and all but the status, stay.                        *)
RequestsKept ==
    /\ request' \in [Procs -> Infos]
    /\ \A p \in Procs : /\ request'[p].requestType = request[p].requestType
                        /\ request'[p].startSector = request[p].startSector
                        /\ request'[p].sectors = request[p].sectors
LinksKept == \A p \in Procs : request'[p].next = request[p].next
StatusKept == \A p \in Procs : request'[p].status = request[p].status

LEMMA StatusStep ==
  ASSUME request \in [Procs -> Infos], NEW h \in Procs, NEW s \in {"unset", "error", "ready"},
         request' = [request EXCEPT ![h].status = s]
  PROVE  /\ RequestsKept /\ LinksKept /\ request'[h].status = s
         /\ \A p \in Procs : p # h => request'[p] = request[p]
  <1>1. PICK r \in Infos : r = request[h]
    OBVIOUS
  <1>2. request' = [request EXCEPT ![h] = [r EXCEPT !.status = s]]
    BY <1>1
  <1>3. PICK u \in Infos : u = [r EXCEPT !.status = s]
    BY InfoSet
  <1>4. /\ u.status = s /\ u.next = r.next /\ u.startSector = r.startSector
        /\ u.sectors = r.sectors /\ u.requestType = r.requestType
    BY <1>3, InfoSet
  <1>5. request' = [request EXCEPT ![h] = u]
    BY <1>2, <1>3
  <1>6. /\ request' \in [Procs -> Infos] /\ request'[h] = u
        /\ \A p \in Procs : p # h => request'[p] = request[p]
    BY <1>5
  <1>7. QED
    BY <1>1, <1>4, <1>6 DEF RequestsKept, LinksKept

LEMMA UnchangedRequests ==
  ASSUME request \in [Procs -> Infos], UNCHANGED request
  PROVE  RequestsKept /\ LinksKept /\ StatusKept
  BY DEF RequestsKept, LinksKept, StatusKept

LEMMA OperationIn ==
  ASSUME NEW loc \in {"semP", "seek", "transfer", "answering"}, NEW h \in Procs \cup {NULL},
         NEW t \in 0..Tracks - 1, NEW s \in 0..TrackSize, NEW l \in Nat, NEW m \in Seq(Nat \X Nat)
  PROVE  /\ Operation(loc, h, t, s, l, m) \in Drivers
         /\ Operation(loc, h, t, s, l, m).at = loc /\ Operation(loc, h, t, s, l, m).serves = h
         /\ Operation(loc, h, t, s, l, m).track = t /\ Operation(loc, h, t, s, l, m).sector = s
         /\ Operation(loc, h, t, s, l, m).left = l /\ Operation(loc, h, t, s, l, m).moved = m
  BY DEF Operation, Drivers

LEMMA InfoFields ==
  ASSUME request \in [Procs -> Infos], NEW p \in Procs
  PROVE  /\ request[p] \in Infos /\ request[p].startSector \in 0..TrackSize - 1
         /\ request[p].sectors \in Nat /\ request[p].next \in Procs \cup {NULL}
         /\ NextOf(p) \in Procs \cup {NULL} /\ TrackOf[p] \in 0..Tracks - 1
         /\ request[p].requestType \in {"none", "read", "write"}
  BY DiskAssumption DEF Infos, NextOf

LEMMA BeginIn ==
  ASSUME request \in [Procs -> Infos], NEW h \in Procs \cup {NULL}
  PROVE  /\ Begin(h) \in Drivers /\ Begin(h).serves = h /\ Begin(h).left \in Nat
         /\ Begin(h).sector < TrackSize
         /\ h = NULL => Begin(h).at = "semP"
         /\ h # NULL => /\ Begin(h).at = "seek"
                        /\ Begin(h).track = TrackOf[h] /\ Begin(h).sector = request[h].startSector
                        /\ Begin(h).left = request[h].sectors /\ Begin(h).moved = <<>>
  <1>1. <<>> \in Seq(Nat \X Nat) /\ 0 \in Nat /\ 0 < TrackSize
    BY DiskAssumption
  <1>2. CASE h = NULL
    <2>1. 0 \in 0..Tracks - 1 /\ 0 \in 0..TrackSize
      BY DiskAssumption
    <2>2. PICK o : o = Operation("semP", NULL, 0, 0, 0, <<>>)
      OBVIOUS
    <2>3. o \in Drivers /\ o.serves = NULL /\ o.left = 0 /\ o.sector = 0 /\ o.at = "semP"
      BY <1>1, <2>1, <2>2 DEF Operation, Drivers
    <2>4. Begin(h) = o
      BY <1>2, <2>2 DEF Begin, Waiting
    <2>5. QED
      BY <1>1, <1>2, <2>3, <2>4
  <1>3. CASE h # NULL
    <2>1. PICK t, s, l : t = TrackOf[h] /\ s = request[h].startSector /\ l = request[h].sectors
      OBVIOUS
    <2>2. h \in Procs /\ t \in 0..Tracks - 1 /\ s \in 0..TrackSize /\ l \in Nat /\ s < TrackSize
      BY <1>3, <2>1, InfoFields, DiskAssumption
    <2>3. PICK o : o = Operation("seek", h, t, s, l, <<>>)
      OBVIOUS
    <2>4. /\ o \in Drivers /\ o.at = "seek" /\ o.serves = h
          /\ o.track = t /\ o.sector = s /\ o.left = l /\ o.moved = <<>>
      BY <1>1, <2>2, <2>3 DEF Operation, Drivers
    <2>5. Begin(h) = o
      BY <1>3, <2>1, <2>3 DEF Begin
    <2>6. QED
      BY <1>3, <2>1, <2>2, <2>4, <2>5
  <1>4. QED
    BY <1>2, <1>3

LEMMA DriverBegins ==
  ASSUME request \in [Procs -> Infos], NEW h \in Procs \cup {NULL}, driver' = Begin(h)
  PROVE  DriverShape'
  <1>1. driver' \in Drivers /\ driver'.serves = h /\ driver'.sector < TrackSize
    BY BeginIn
  <1>2. driver'.at # "semP" => h # NULL
    BY BeginIn
  <1>3. driver'.at # "transfer"
    BY BeginIn
  <1>4. QED
    BY <1>1, <1>2, <1>3 DEF DriverShape, Serving

LEMMA DriverFields ==
  ASSUME DiskShape
  PROVE  /\ driver.track \in 0..Tracks - 1 /\ driver.sector \in 0..TrackSize /\ driver.left \in Nat
         /\ driver.moved \in Seq(Nat \X Nat) /\ driver.serves \in Procs \cup {NULL}
         /\ driver.at \in {"semP", "seek", "transfer", "answering"}
         /\ Serving => driver.serves \in Procs
  BY DEF DiskShape, DriverShape, Drivers

LEMMA CallerFields ==
  ASSUME DiskShape, NEW p \in Procs
  PROVE  /\ caller[p].at \in {"user", "linking", "posting", "queued", "receiving", "returning"}
         /\ caller[p].before \in Procs \cup {NULL} /\ caller[p].after \in Procs \cup {NULL}
  BY DEF DiskShape, Callers

LEMMA CallerStep ==
  ASSUME DiskShape, NEW p \in Procs,
         NEW loc \in {"user", "linking", "posting", "queued", "receiving", "returning"},
         caller' = [caller EXCEPT ![p] = Standing(loc)]
  PROVE  /\ caller' \in [Procs -> Callers] /\ caller'[p].at = loc
         /\ \A r \in Procs : r # p => caller'[r] = caller[r]
  <1>1. PICK c : c = Standing(loc)
    OBVIOUS
  <1>2. c \in Callers /\ c.at = loc
    BY <1>1 DEF Standing, Callers
  <1>3. caller' = [caller EXCEPT ![p] = c]
    BY <1>1
  <1>4. QED
    BY <1>2, <1>3 DEF DiskShape
-----------------------------------------------------------------------------
(* Every step keeps the shape of the state: the places callers find are    *)
(* entries of the list, and the head the driver answers is one.            *)

LEMMA ScanPlaceIn ==
  ASSUME DiskShape, QueueInv, NEW t \in 0..Tracks - 1
  PROVE  ScanPlace(t) \in Callers /\ ScanPlace(t).at = "linking"
  <1>1. PICK q \in Seq(Procs) : Queue(q)
    BY DEF QueueInv
  <1>2. \E b, a \in Procs \cup {NULL} : ScanPlace(t) = Linking(b, a)
    <2>1. CASE Len(q) = 0
      <3>1. headDiskList = NULL
        BY <1>1, <2>1 DEF Queue, IsChain
      <3>2. ScanPlace(t) = Linking(NULL, NULL)
        BY <3>1 DEF ScanPlace
      <3>3. QED
        BY <3>2
    <2>2. CASE Len(q) # 0
      <3>1. PICK i \in 1..Len(q) : ScanPlace(t) = Linking(q[i], NextOf(q[i]))
        BY <1>1, <2>2, ScanPlaceFinds
      <3>2. q[i] \in Procs /\ NextOf(q[i]) \in Procs \cup {NULL}
        BY ElementsOf, InfoFields DEF DiskShape
      <3>3. QED
        BY <3>1, <3>2
    <2>3. QED
      BY <2>1, <2>2
  <1>3. PICK b, a \in Procs \cup {NULL} : ScanPlace(t) = Linking(b, a)
    BY <1>2
  <1>4. QED
    BY <1>3 DEF Linking, Callers

LEMMA ProceedsTypes ==
  ASSUME DiskShape, driver.at \in {"seek", "transfer"},
         NEW t \in 0..Tracks - 1, NEW s \in 0..TrackSize, NEW l \in Nat, NEW m \in Seq(Nat \X Nat),
         Proceeds(t, s, l, m)
  PROVE  /\ DriverShape' /\ headDiskList' \in Procs \cup {NULL}
         /\ mishap' \in {"none", "torn", "endOfDisk", "crash"}
  <1>1. PICK h : h = driver.serves
    OBVIOUS
  <1>2. h \in Procs /\ NextOf(h) \in Procs \cup {NULL} /\ request \in [Procs -> Infos]
    BY <1>1, DriverFields, InfoFields DEF Serving, DiskShape
  <1>3. headDiskList' \in Procs \cup {NULL} /\ mishap' \in {"none", "torn", "endOfDisk", "crash"}
    BY <1>1, <1>2 DEF Proceeds, DiskShape
  <1>4. TrackSize \in Nat /\ Tracks \in Nat
    BY DiskAssumption
  <1> SUFFICES DriverShape'
    BY <1>3
  <1>5. PICK stuck \in BOOLEAN : stuck <=> l > 0 /\ EndOfTrack(s) /\ t + 1 = Tracks
    OBVIOUS
  <1>6. driver' = IF l = 0 THEN Operation("answering", h, t, s, l, m)
                  ELSE IF stuck THEN Begin(h)
                  ELSE IF EndOfTrack(s) THEN Operation("seek", h, t + 1, 0, l, m)
                  ELSE Operation("transfer", h, t, s, l, m)
    BY <1>1, <1>5 DEF Proceeds
  <1>7. CASE l = 0
    <2>1. driver' = Operation("answering", h, t, s, l, m)
      BY <1>6, <1>7
    <2>2. QED
      BY <1>2, <2>1 DEF DriverShape, Serving, Operation, Drivers
  <1>8. CASE l # 0 /\ stuck
    BY <1>2, <1>6, <1>8, DriverBegins
  <1>9. CASE l # 0 /\ ~stuck /\ EndOfTrack(s)
    <2>1. driver' = Operation("seek", h, t + 1, 0, l, m)
      BY <1>6, <1>9
    <2>2. t + 1 \in 0..Tracks - 1 /\ 0 \in 0..TrackSize /\ 0 < TrackSize
      BY <1>4, <1>5, <1>9, DiskAssumption
    <2>3. QED
      BY <1>2, <2>1, <2>2 DEF DriverShape, Serving, Operation, Drivers
  <1>10. CASE l # 0 /\ ~EndOfTrack(s)
    <2>1. driver' = Operation("transfer", h, t, s, l, m)
      BY <1>5, <1>6, <1>10
    <2>2. s < TrackSize /\ l > 0
      BY <1>4, <1>10 DEF EndOfTrack
    <2>3. QED
      BY <1>2, <2>1, <2>2 DEF DriverShape, Serving, Operation, Drivers
  <1>11. QED
    BY <1>7, <1>8, <1>9, <1>10

LEMMA TransferOperands ==
  ASSUME DiskShape, driver.at = "transfer"
  PROVE  /\ driver.track \in 0..Tracks - 1 /\ driver.sector + 1 \in 0..TrackSize
         /\ driver.left - 1 \in Nat /\ driver.sector \in 0..TrackSize - 1
         /\ Append(driver.moved, <<driver.track, driver.sector>>) \in Seq(Nat \X Nat)
  <1>1. /\ driver.track \in 0..Tracks - 1 /\ driver.sector \in 0..TrackSize /\ driver.left \in Nat
        /\ driver.moved \in Seq(Nat \X Nat) /\ TrackSize \in Nat /\ Tracks \in Nat
    BY DriverFields, DiskAssumption
  <1>2. driver.sector < TrackSize /\ driver.left > 0
    BY DEF DiskShape, DriverShape
  <1>3. PICK e : e = <<driver.track, driver.sector>>
    OBVIOUS
  <1>4. e \in Nat \X Nat
    BY <1>1, <1>3
  <1>5. Append(driver.moved, e) \in Seq(Nat \X Nat)
    BY <1>1, <1>4
  <1>6. QED
    BY <1>1, <1>2, <1>3, <1>5

(* Who serves whom.                                                        *)
LEMMA Served ==
  ASSUME DiskShape, UsableInv, Serving
  PROVE  /\ driver.serves \in Procs /\ InCall(driver.serves) /\ driver.serves \notin failed
         /\ ~TakenOff(driver.serves) => /\ driver.serves = headDiskList /\ headDiskList \in Pending
                                        /\ headDiskList # NULL
  <1>1. /\ driver.serves \in Procs /\ InCall(driver.serves) /\ driver.serves \notin failed
        /\ TakenOff(driver.serves) \/ driver.serves = headDiskList
    BY DriverFields DEF UsableInv, HeadInv
  <1>2. QED
    BY <1>1, ProgramsAssumption DEF Pending

LEMMA ShapeKept ==
  ASSUME DiskInv, DiskNext
  PROVE  DiskShape'
  <1>1. DiskShape /\ UsableInv
    BY DEF DiskInv, DiskNext
  <1>2. /\ request \in [Procs -> Infos] /\ headDiskList \in Procs \cup {NULL}
        /\ diskSemaphore \in 0..MaxUnits /\ caller \in [Procs -> Callers] /\ DriverShape
        /\ faults \in 0..MaxFaults /\ failed \subseteq Procs
        /\ mishap \in {"none", "torn", "endOfDisk", "crash"} /\ MaxUnits \in Nat \ {0} /\ MaxFaults \in Nat
    BY <1>1, DiskAssumption DEF DiskShape
  <1>3. ASSUME UNCHANGED driver PROVE DriverShape'
    BY <1>2, <1>3 DEF DriverShape, Serving
  <1>4. ASSUME NEW p \in Procs, NEW r \in Asks[p], Ask(p, r) PROVE DiskShape'
    <2>1. Asked(r) \in Infos
      <3>1. r \in [requestType : {"read", "write"}, startSector : 0..TrackSize - 1, sectors : Nat]
        BY DiskAssumption
      <3>2. QED
        BY <3>1 DEF Asked, Infos
    <2>2. ScanPlace(TrackOf[p]) \in Callers
      BY <1>1, ScanPlaceIn, InfoFields, DiskAssumption DEF UsableInv
    <2>3. PICK u, c : u = Asked(r) /\ c = ScanPlace(TrackOf[p])
      OBVIOUS
    <2>4. request' = [request EXCEPT ![p] = u] /\ caller' = [caller EXCEPT ![p] = c]
      BY <1>4, <2>3 DEF Ask
    <2>5. request' \in [Procs -> Infos] /\ caller' \in [Procs -> Callers]
      BY <1>2, <2>1, <2>2, <2>3, <2>4
    <2>6. UNCHANGED <<headDiskList, diskSemaphore, driver, faults, failed, mishap>>
      BY <1>4 DEF Ask
    <2>7. QED
      BY <1>2, <1>3, <2>5, <2>6 DEF DiskShape
  <1>5. ASSUME NEW p \in Procs, RequestLinkIn(p) PROVE DiskShape'
    <2>1. PICK b, a : b = caller[p].before /\ a = caller[p].after
      OBVIOUS
    <2>2. b \in Procs \cup {NULL} /\ a \in Procs \cup {NULL}
      BY <1>1, <2>1, CallerFields
    <2>3. request' = IF b = NULL THEN request ELSE [request EXCEPT ![b].next = p, ![p].next = a]
      BY <1>5, <2>1 DEF RequestLinkIn
    <2>4. request' \in [Procs -> Infos]
      <3>1. CASE b = NULL
        BY <1>2, <2>3, <3>1
      <3>2. CASE b # NULL
        <4>1. PICK x \in Infos : x = [request[b] EXCEPT !.next = p]
          BY <1>2, <2>2, <3>2, InfoSet
        <4>2. PICK y : y = [request EXCEPT ![b] = x]
          OBVIOUS
        <4>3. y \in [Procs -> Infos]
          BY <1>2, <4>1, <4>2
        <4>4. PICK z \in Infos : z = [y[p] EXCEPT !.next = a]
          BY <2>2, <4>3, InfoSet
        <4>5. request' = [y EXCEPT ![p] = z]
          BY <2>3, <3>2, <4>1, <4>2, <4>4
        <4>6. QED
          BY <4>3, <4>4, <4>5
      <3>3. QED
        BY <3>1, <3>2
    <2>5. caller' \in [Procs -> Callers]
      BY <1>1, <1>5, CallerStep DEF RequestLinkIn
    <2>6. headDiskList' \in Procs \cup {NULL} /\ mishap' \in {"none", "torn", "endOfDisk", "crash"}
      BY <1>2, <1>5 DEF RequestLinkIn
    <2>7. UNCHANGED <<diskSemaphore, driver, faults, failed>>
      BY <1>5 DEF RequestLinkIn
    <2>8. QED
      BY <1>2, <1>3, <2>4, <2>5, <2>6, <2>7 DEF DiskShape
  <1>6. ASSUME NEW p \in Procs, Posts(p) PROVE DiskShape'
    <2>1. caller' \in [Procs -> Callers]
      BY <1>1, <1>6, CallerStep DEF Posts
    <2>2. diskSemaphore' \in 0..MaxUnits
      BY <1>2, <1>6 DEF Posts, Posted
    <2>3. QED
      BY <1>2, <1>3, <1>6, <2>1, <2>2 DEF DiskShape, Posts
  <1>7. ASSUME NEW p \in Procs, RequestReceives(p) PROVE DiskShape'
    <2>1. caller' \in [Procs -> Callers]
      BY <1>1, <1>7, CallerStep DEF RequestReceives
    <2>2. QED
      BY <1>2, <1>3, <1>7, <2>1 DEF DiskShape, RequestReceives
  <1>8. ASSUME NEW p \in Procs, RequestReturns(p) PROVE DiskShape'
    <2>1. caller' \in [Procs -> Callers]
      BY <1>1, <1>8, CallerStep DEF RequestReturns
    <2>2. NoRequest \in Infos
      BY DiskAssumption DEF NoRequest, Infos
    <2>3. QED
      BY <1>2, <1>3, <1>8, <2>1, <2>2 DEF DiskShape, RequestReturns
  <1>9. CASE TakesUnit
    <2>1. DriverShape'
      BY <1>2, <1>9, DriverBegins DEF TakesUnit
    <2>2. diskSemaphore' \in 0..MaxUnits
      BY <1>2, <1>9 DEF TakesUnit
    <2>3. QED
      BY <1>2, <1>9, <2>1, <2>2 DEF DiskShape, TakesUnit
  <1>10. ASSUME driver.at \in {"seek", "transfer"}, Succeeds PROVE request' \in [Procs -> Infos]
    BY <1>1, <1>2, <1>10, StatusStep, DriverFields DEF Succeeds, Serving, RequestsKept
  <1>11. CASE Seeks
    <2>1. /\ DriverShape' /\ headDiskList' \in Procs \cup {NULL}
          /\ mishap' \in {"none", "torn", "endOfDisk", "crash"}
      BY <1>1, <1>11, ProceedsTypes, DriverFields DEF Seeks
    <2>2. QED
      BY <1>2, <1>10, <1>11, <2>1 DEF DiskShape, Seeks, Succeeds
  <1>12. CASE Transfers
    <2>1. /\ DriverShape' /\ headDiskList' \in Procs \cup {NULL}
          /\ mishap' \in {"none", "torn", "endOfDisk", "crash"}
      BY <1>1, <1>12, ProceedsTypes, TransferOperands DEF Transfers
    <2>2. QED
      BY <1>2, <1>10, <1>12, <2>1 DEF DiskShape, Transfers, Succeeds
  <1>13. CASE SeekFails
    <2>1. DriverShape'
      BY <1>2, <1>13, DriverBegins DEF SeekFails
    <2>2. request' \in [Procs -> Infos]
      BY <1>1, <1>2, <1>13, StatusStep, DriverFields DEF SeekFails, Serving, RequestsKept
    <2>3. QED
      BY <1>2, <1>13, <2>1, <2>2 DEF DiskShape, SeekFails, Fault
  <1>14. ASSUME TransferFails
         PROVE  /\ DriverShape' /\ headDiskList' \in Procs \cup {NULL} /\ failed' \subseteq Procs
                /\ faults' \in 0..MaxFaults /\ UNCHANGED <<diskSemaphore, caller>>
    <2>1. driver.serves \in Procs
      BY <1>1, <1>14, DriverFields DEF TransferFails, Serving
    <2>2. headDiskList' \in Procs \cup {NULL}
      BY <1>2, <1>14, <2>1, InfoFields DEF TransferFails
    <2>3. DriverShape'
      BY <1>2, <1>14, <2>2, DriverBegins DEF TransferFails
    <2>4. QED
      BY <1>2, <1>14, <2>1, <2>2, <2>3 DEF TransferFails, Fault
  <1>15. CASE ReadFails
    <2>1. request' \in [Procs -> Infos]
      BY <1>1, <1>2, <1>15, StatusStep, DriverFields DEF ReadFails, TransferFails, Serving, RequestsKept
    <2>2. QED
      BY <1>2, <1>14, <1>15, <2>1 DEF DiskShape, ReadFails
  <1>16. CASE WriteFails
    <2>1. request' \in [Procs -> Infos]
      <3>1. ASSUME NEW p \in Procs
            PROVE  (IF p = driver.serves THEN [request[p] EXCEPT !.status = "error"]
                    ELSE IF p = headDiskList' THEN [request[p] EXCEPT !.status = "ready"]
                    ELSE request[p]) \in Infos
        <4>1. [request[p] EXCEPT !.status = "error"] \in Infos /\ [request[p] EXCEPT !.status = "ready"] \in Infos
          BY <1>2, InfoSet
        <4>2. QED
          BY <1>2, <4>1
      <3>2. QED
        BY <1>16, <3>1 DEF WriteFails
    <2>2. mishap' \in {"none", "torn", "endOfDisk", "crash"}
      BY <1>2, <1>16 DEF WriteFails
    <2>3. QED
      BY <1>2, <1>14, <1>16, <2>1, <2>2 DEF DiskShape, WriteFails
  <1>17. CASE Answers
    <2>1. PICK p : p = driver.serves
      OBVIOUS
    <2>2. Serving
      BY <1>17 DEF Answers, Serving
    <2>3. p \in Procs
      BY <1>1, <2>1, <2>2, DriverFields
    <2>4. caller' = [caller EXCEPT ![p] = Standing("returning")]
      BY <1>17, <2>1 DEF Answers
    <2>5. caller' \in [Procs -> Callers]
      BY <1>1, <2>3, <2>4, CallerStep
    <2>6. headDiskList' \in Procs \cup {NULL} /\ driver' = Begin(headDiskList')
      <3>1. CASE request[p].requestType = "read"
        <4>1. headDiskList \in Procs
          BY <1>1, <2>1, <2>2, <3>1, Served DEF TakenOff
        <4>2. QED
          BY <1>2, <1>17, <2>1, <3>1, <4>1, InfoFields DEF Answers
      <3>2. CASE request[p].requestType # "read"
        BY <1>2, <1>17, <2>1, <3>2 DEF Answers
      <3>3. QED
        BY <3>1, <3>2
    <2>7. DriverShape'
      BY <1>2, <2>6, DriverBegins
    <2>8. QED
      BY <1>2, <1>17, <2>5, <2>6, <2>7 DEF DiskShape, Answers
  <1>18. QED
    BY <1>4, <1>5, <1>6, <1>7, <1>8, <1>9, <1>11, <1>12, <1>13, <1>15, <1>16, <1>17
       DEF DiskNext, DiskServes, DiskCallContinues
-----------------------------------------------------------------------------
(* What has been moved.                                                    *)

LEMMA SectorOf ==
  ASSUME NEW n \in Nat \ {0}, NEW t \in Nat, NEW s \in 0..n - 1
  PROVE  (t * n + s) \div n = t /\ (t * n + s) % n = s
  OBVIOUS

LEMMA MovedStays ==
  ASSUME DiskShape, MovedInv, UNCHANGED driver,
         Serving => /\ request'[driver.serves].sectors = request[driver.serves].sectors
                    /\ request'[driver.serves].startSector = request[driver.serves].startSector
                    /\ request'[driver.serves].status = request[driver.serves].status
  PROVE  MovedInv'
  <1>1. SUFFICES ASSUME Serving' PROVE MovedInv'
    BY DEF MovedInv
  <1>2. Serving /\ driver' = driver
    BY <1>1 DEF Serving
  <1>3. PICK h : h = driver.serves
    OBVIOUS
  <1>4. /\ request'[h].sectors = request[h].sectors /\ request'[h].startSector = request[h].startSector
        /\ request'[h].status = request[h].status
    BY <1>2, <1>3
  <1>5. Done' = Done
    BY <1>2, <1>3, <1>4 DEF Done
  <1>6. PICK P : P = [i \in Int |-> Place(h, i)]
    OBVIOUS
  <1>7. \A i \in Int : Place(h, i) = P[i] /\ Place(h, i)' = P[i]
    BY <1>4, <1>6 DEF Place
  <1>8. Done \in Int
    <2>1. h \in Procs /\ driver.left \in Nat
      BY <1>2, <1>3, DriverFields
    <2>2. request[h].sectors \in Nat
      BY <2>1, InfoFields DEF DiskShape
    <2>3. QED
      BY <1>3, <2>1, <2>2 DEF Done
  <1>9. /\ driver.left <= request[h].sectors
        /\ driver.track * TrackSize + driver.sector = P[Done + 1]
        /\ driver.moved = [i \in 1..Done |-> <<P[i] \div TrackSize, P[i] % TrackSize>>]
        /\ driver.at = "answering" => driver.left = 0 /\ request[h].status = "ready"
    BY <1>2, <1>3, <1>7, <1>8 DEF MovedInv
  <1>10. driver.moved = [i \in 1..Done |-> <<Place(h, i)' \div TrackSize, Place(h, i)' % TrackSize>>]
    BY <1>7, <1>8, <1>9
  <1>11. QED
    BY <1>2, <1>3, <1>4, <1>5, <1>7, <1>8, <1>9, <1>10 DEF MovedInv

LEMMA MovedBegins ==
  ASSUME request \in [Procs -> Infos], NEW h \in Procs \cup {NULL}, driver' = Begin(h), RequestsKept
  PROVE  MovedInv'
  <1>1. CASE h = NULL
    BY <1>1, BeginIn DEF MovedInv, Serving
  <1>2. CASE h # NULL
    <2>1. PICK t, s, l : t = TrackOf[h] /\ s = request[h].startSector /\ l = request[h].sectors
      OBVIOUS
    <2>2. h \in Procs /\ t \in Nat /\ s \in Nat /\ l \in Nat /\ TrackSize \in Nat
      BY <1>2, <2>1, InfoFields, DiskAssumption
    <2>3. request'[h].startSector = s /\ request'[h].sectors = l
      BY <2>1, <2>2 DEF RequestsKept
    <2>4. PICK d : d = driver'
      OBVIOUS
    <2>5. /\ d.at = "seek" /\ d.serves = h /\ d.left = l /\ d.track = t /\ d.sector = s /\ d.moved = <<>>
      BY <1>2, <2>1, <2>4, BeginIn
    <2>6. Done' = 0
      BY <2>2, <2>3, <2>4, <2>5 DEF Done
    <2>7. PICK x \in Nat : x = t * TrackSize
      BY <2>2
    <2>8. Place(h, 1)' = x + s
      BY <2>1, <2>2, <2>3, <2>7 DEF Place
    <2>9. <<>> = [i \in 1..0 |-> <<Place(h, i)' \div TrackSize, Place(h, i)' % TrackSize>>]
      <3>1. 1..0 = {}
        OBVIOUS
      <3>2. QED
        BY <3>1
    <2>10. QED
      BY <2>2, <2>3, <2>4, <2>5, <2>6, <2>7, <2>8, <2>9 DEF MovedInv
  <1>3. QED
    BY <1>1, <1>2

LEMMA MovedProceeds ==
  ASSUME DiskShape, driver.at \in {"seek", "transfer"},
         NEW t \in 0..Tracks - 1, NEW s \in 0..TrackSize, NEW l \in Nat, NEW m \in Seq(Nat \X Nat),
         NEW h \in Procs, h = driver.serves, NEW n \in Nat, n = request[h].sectors, l <= n,
         t * TrackSize + s = Place(h, n - l + 1),
         m = [i \in 1..n - l |-> <<Place(h, i) \div TrackSize, Place(h, i) % TrackSize>>],
         RequestsKept, request'[h].status = "ready", Proceeds(t, s, l, m)
  PROVE  MovedInv'
  <1>1. TrackSize \in Nat /\ t \in Nat /\ s \in Nat /\ request \in [Procs -> Infos]
    BY DiskAssumption DEF DiskShape
  <1>2. request'[h].startSector = request[h].startSector /\ request'[h].sectors = n
    BY DEF RequestsKept
  <1>3. PICK stuck \in BOOLEAN : stuck <=> l > 0 /\ EndOfTrack(s) /\ t + 1 = Tracks
    OBVIOUS
  <1>4. driver' = IF l = 0 THEN Operation("answering", h, t, s, l, m)
                  ELSE IF stuck THEN Begin(h)
                  ELSE IF EndOfTrack(s) THEN Operation("seek", h, t + 1, 0, l, m)
                  ELSE Operation("transfer", h, t, s, l, m)
    BY <1>3 DEF Proceeds
  <1>5. CASE l # 0 /\ stuck
    BY <1>1, <1>4, <1>5, MovedBegins
  <1>6. CASE l = 0 \/ ~stuck
    <2>1. PICK P : P = [i \in Int |-> Place(h, i)]
      OBVIOUS
    <2>2. \A i \in Int : Place(h, i) = P[i] /\ Place(h, i)' = P[i]
      BY <1>2, <2>1 DEF Place
    <2>3. PICK d : d = driver'
      OBVIOUS
    <2>4. PICK x : x = t * TrackSize
      OBVIOUS
    <2>5. x \in Nat /\ (t + 1) * TrackSize + 0 = x + TrackSize
      BY <1>1, <2>4
    <2>6. /\ d.serves = h /\ d.left = l /\ d.moved = m
          /\ d.at = "answering" => l = 0
          /\ d.track * TrackSize + d.sector = x + s
      <3>1. CASE l = 0
        <4>1. d = Operation("answering", h, t, s, l, m)
          BY <1>4, <2>3, <3>1
        <4>2. QED
          BY <2>4, <3>1, <4>1 DEF Operation
      <3>2. CASE l # 0 /\ EndOfTrack(s)
        <4>1. d = Operation("seek", h, t + 1, 0, l, m)
          BY <1>4, <1>6, <2>3, <3>2
        <4>2. s = TrackSize
          BY <3>2 DEF EndOfTrack
        <4>3. d.track = t + 1 /\ d.sector = 0 /\ d.serves = h /\ d.left = l /\ d.moved = m /\ d.at = "seek"
          BY <4>1 DEF Operation
        <4>4. QED
          BY <2>5, <4>2, <4>3
      <3>3. CASE l # 0 /\ ~EndOfTrack(s)
        <4>1. d = Operation("transfer", h, t, s, l, m)
          <5>1. ~stuck
            BY <1>3, <3>3
          <5>2. QED
            BY <1>4, <2>3, <3>3, <5>1
        <4>2. QED
          BY <2>4, <4>1 DEF Operation
      <3>4. QED
        BY <3>1, <3>2, <3>3
    <2>7. Done' = n - l
      BY <1>2, <2>3, <2>6 DEF Done
    <2>8. x + s = P[n - l + 1]
      <3>1. n - l + 1 \in Int
        OBVIOUS
      <3>2. QED
        BY <2>2, <2>4, <3>1
    <2>9. m = [i \in 1..n - l |-> <<Place(h, i)' \div TrackSize, Place(h, i)' % TrackSize>>]
      BY <2>2
    <2>10. (Place(h, n - l + 1))' = P[n - l + 1]
      BY <2>2
    <2>11. QED
      BY <1>2, <2>3, <2>6, <2>7, <2>8, <2>9, <2>10 DEF MovedInv
  <1>7. QED
    BY <1>3, <1>5, <1>6

LEMMA WriteFailsStep ==
  ASSUME request \in [Procs -> Infos], WriteFails
  PROVE  RequestsKept /\ LinksKept
  <1>1. request' = [p \in Procs |->
            IF p = driver.serves THEN [request[p] EXCEPT !.status = "error"]
            ELSE IF p = headDiskList' THEN [request[p] EXCEPT !.status = "ready"]
            ELSE request[p]]
    BY DEF WriteFails
  <1>2. ASSUME NEW p \in Procs
        PROVE  /\ request'[p] \in Infos /\ request'[p].requestType = request[p].requestType
               /\ request'[p].startSector = request[p].startSector
               /\ request'[p].sectors = request[p].sectors /\ request'[p].next = request[p].next
    <2>1. PICK r \in Infos : r = request[p]
      OBVIOUS
    <2>2. request'[p] = IF p = driver.serves THEN [r EXCEPT !.status = "error"]
                        ELSE IF p = headDiskList' THEN [r EXCEPT !.status = "ready"] ELSE r
      BY <1>1, <2>1
    <2>3. PICK e, d : e = [r EXCEPT !.status = "error"] /\ d = [r EXCEPT !.status = "ready"]
      OBVIOUS
    <2>4. \A u \in {e, d} : /\ u \in Infos /\ u.next = r.next /\ u.requestType = r.requestType
                             /\ u.startSector = r.startSector /\ u.sectors = r.sectors
      BY <2>3 DEF Infos
    <2>5. QED
      BY <2>1, <2>2, <2>3, <2>4
  <1>3. QED
    BY <1>1, <1>2 DEF RequestsKept, LinksKept

LEMMA LinkStep ==
  ASSUME DiskShape, NEW p \in Procs, RequestLinkIn(p)
  PROVE  /\ RequestsKept /\ StatusKept
         /\ caller[p].before = NULL => LinksKept /\ headDiskList' = p
         /\ caller[p].before # NULL /\ caller[p].before # p =>
               /\ headDiskList' = headDiskList
               /\ request'[caller[p].before].next = p /\ request'[p].next = caller[p].after
               /\ \A r \in Procs : r # p /\ r # caller[p].before => request'[r].next = request[r].next
  <1>1. PICK b, a : b = caller[p].before /\ a = caller[p].after
    OBVIOUS
  <1>2. b \in Procs \cup {NULL} /\ a \in Procs \cup {NULL} /\ request \in [Procs -> Infos]
    BY <1>1, CallerFields DEF DiskShape
  <1>3. /\ request' = IF b = NULL THEN request ELSE [request EXCEPT ![b].next = p, ![p].next = a]
        /\ headDiskList' = IF b = NULL THEN p ELSE headDiskList
    BY <1>1 DEF RequestLinkIn
  <1>4. CASE b = NULL
    BY <1>1, <1>2, <1>3, <1>4, UnchangedRequests
  <1>5. CASE b # NULL
    <2>1. PICK x \in Infos : x = [request[b] EXCEPT !.next = p]
      BY <1>2, <1>5, InfoSet
    <2>2. x.next = p /\ x.startSector = request[b].startSector /\ x.sectors = request[b].sectors
          /\ x.requestType = request[b].requestType /\ x.status = request[b].status
      BY <1>2, <1>5, <2>1, InfoSet
    <2>3. PICK y : y = [request EXCEPT ![b] = x]
      OBVIOUS
    <2>4. y \in [Procs -> Infos] /\ y[b] = x /\ \A r \in Procs : r # b => y[r] = request[r]
      BY <1>2, <1>5, <2>3
    <2>5. PICK z \in Infos : z = [y[p] EXCEPT !.next = a]
      BY <1>2, <2>4, InfoSet
    <2>6. z.next = a /\ z.startSector = y[p].startSector /\ z.sectors = y[p].sectors
          /\ z.requestType = y[p].requestType /\ z.status = y[p].status
      BY <1>2, <2>4, <2>5, InfoSet
    <2>7. request' = [y EXCEPT ![p] = z]
      BY <1>3, <1>5, <2>1, <2>3, <2>5
    <2>8. /\ request' \in [Procs -> Infos] /\ request'[p] = z
          /\ \A r \in Procs : r # p => request'[r] = y[r]
      BY <2>4, <2>7
    <2>9. RequestsKept /\ StatusKept
      <3>1. ASSUME NEW r \in Procs
            PROVE  /\ y[r].requestType = request[r].requestType /\ y[r].startSector = request[r].startSector
                   /\ y[r].sectors = request[r].sectors /\ y[r].status = request[r].status
        BY <2>2, <2>4
      <3>2. ASSUME NEW r \in Procs
            PROVE  /\ request'[r].requestType = y[r].requestType /\ request'[r].startSector = y[r].startSector
                   /\ request'[r].sectors = y[r].sectors /\ request'[r].status = y[r].status
        BY <2>6, <2>8
      <3>3. QED
        BY <2>8, <3>1, <3>2 DEF RequestsKept, StatusKept
    <2>10. QED
      BY <1>1, <1>2, <1>3, <1>5, <2>2, <2>4, <2>6, <2>8, <2>9
  <1>6. QED
    BY <1>4, <1>5

LEMMA MovedKept ==
  ASSUME DiskInv, DiskNext
  PROVE  MovedInv'
  <1>1. DiskShape /\ UsableInv /\ MovedInv /\ request \in [Procs -> Infos]
    BY DEF DiskInv, DiskNext, DiskShape
  <1>2. Serving => driver.serves \in Procs /\ InCall(driver.serves)
    BY <1>1, Served
  <1>3. ASSUME UNCHANGED driver, \E p \in Procs : ~InCall(p) /\ \A r \in Procs : r # p => request'[r] = request[r]
        PROVE  MovedInv'
    <2>1. Serving => request'[driver.serves] = request[driver.serves]
      BY <1>2, <1>3
    <2>2. QED
      BY <1>1, <1>3, <2>1, MovedStays
  <1>4. ASSUME UNCHANGED driver, RequestsKept, StatusKept PROVE MovedInv'
    BY <1>1, <1>2, <1>4, MovedStays DEF RequestsKept, StatusKept
  <1>5. ASSUME NEW p \in Procs, NEW r \in Asks[p], Ask(p, r) PROVE MovedInv'
    <2>1. /\ UNCHANGED driver /\ ~InCall(p)
          /\ \A u \in Procs : u # p => request'[u] = request[u]
      BY <1>1, <1>5 DEF Ask, InCall
    <2>2. QED
      BY <1>3, <2>1
  <1>6. ASSUME NEW p \in Procs, RequestLinkIn(p) PROVE MovedInv'
    <2>1. RequestsKept /\ StatusKept
      BY <1>1, <1>6, LinkStep
    <2>2. UNCHANGED driver
      BY <1>6 DEF RequestLinkIn
    <2>3. QED
      BY <1>4, <2>1, <2>2
  <1>7. ASSUME NEW p \in Procs, Posts(p) \/ RequestReceives(p) PROVE MovedInv'
    BY <1>1, <1>4, <1>7, UnchangedRequests DEF Posts, RequestReceives
  <1>8. ASSUME NEW p \in Procs, RequestReturns(p) PROVE MovedInv'
    <2>1. /\ UNCHANGED driver /\ ~InCall(p)
          /\ \A u \in Procs : u # p => request'[u] = request[u]
      BY <1>1, <1>8 DEF RequestReturns, InCall
    <2>2. QED
      BY <1>3, <2>1
  <1>9. ASSUME NEW h \in Procs \cup {NULL}, driver' = Begin(h), RequestsKept PROVE MovedInv'
    BY <1>1, <1>9, MovedBegins
  <1>10. CASE TakesUnit
    BY <1>1, <1>9, <1>10, UnchangedRequests DEF TakesUnit, DiskShape
  <1>11. CASE Seeks \/ Transfers
    <2>1. PICK h, n, l : h = driver.serves /\ n = request[h].sectors /\ l = driver.left
      OBVIOUS
    <2>2. Serving /\ driver.at \in {"seek", "transfer"}
      BY <1>11 DEF Seeks, Transfers, Serving
    <2>3. h \in Procs /\ n \in Nat /\ l \in Nat /\ l <= n /\ Done = n - l
      <3>1. h \in Procs /\ l \in Nat
        BY <1>1, <1>2, <2>1, <2>2, DriverFields
      <3>2. n \in Nat
        BY <1>1, <2>1, <3>1, InfoFields
      <3>3. QED
        BY <1>1, <2>1, <2>2, <3>1, <3>2 DEF MovedInv, Done
    <2>4. RequestsKept /\ request'[h].status = "ready"
      BY <1>1, <1>11, <2>1, <2>3, StatusStep DEF Seeks, Transfers, Succeeds
    <2>5. /\ driver.track * TrackSize + driver.sector = Place(h, n - l + 1)
          /\ driver.moved = [i \in 1..n - l |-> <<Place(h, i) \div TrackSize, Place(h, i) % TrackSize>>]
      BY <1>1, <2>1, <2>2, <2>3 DEF MovedInv
    <2>6. CASE Seeks
      <3>1. PICK t, s, m : t = driver.track /\ s = driver.sector /\ m = driver.moved
        OBVIOUS
      <3>2. t \in 0..Tracks - 1 /\ s \in 0..TrackSize /\ m \in Seq(Nat \X Nat)
        BY <1>1, <3>1, DriverFields
      <3>3. Proceeds(t, s, l, m)
        BY <2>1, <2>6, <3>1 DEF Seeks
      <3>4. /\ t * TrackSize + s = Place(h, n - l + 1)
            /\ m = [i \in 1..n - l |-> <<Place(h, i) \div TrackSize, Place(h, i) % TrackSize>>]
        BY <2>5, <3>1
      <3>5. QED
        BY <1>1, <2>1, <2>2, <2>3, <2>4, <3>2, <3>3, <3>4, MovedProceeds
    <2>7. CASE Transfers
      <3>1. PICK t, s, m, e : /\ t = driver.track /\ s = driver.sector
                              /\ e = <<driver.track, driver.sector>> /\ m = driver.moved
        OBVIOUS
      <3>2. /\ t \in 0..Tracks - 1 /\ s \in 0..TrackSize - 1 /\ s + 1 \in 0..TrackSize
            /\ l - 1 \in Nat /\ Append(m, e) \in Seq(Nat \X Nat) /\ m \in Seq(Nat \X Nat)
        BY <1>1, <2>1, <2>7, <3>1, TransferOperands, DriverFields DEF Transfers
      <3>3. l - 1 <= n /\ n - (l - 1) = (n - l) + 1 /\ n - l \in Nat
        BY <2>3, <3>2
      <3>4. PICK P : P = [i \in Int |-> Place(h, i)]
        OBVIOUS
      <3>5. \A i \in Int : Place(h, i) = P[i]
        BY <3>4
      <3>6. t \in Nat /\ TrackSize \in Nat \ {0} /\ t * TrackSize \in Nat
        BY <3>2, DiskAssumption
      <3>7. t * TrackSize + s = P[n - l + 1]
        BY <2>3, <2>5, <3>1, <3>5
      <3>8. t * TrackSize + (s + 1) = Place(h, n - (l - 1) + 1)
        <4>1. TrackOf[h] * TrackSize \in Int /\ request[h].startSector \in Int
          <5>1. TrackOf[h] \in Int /\ request[h].startSector \in Int
            BY <1>1, <2>3, InfoFields
          <5>2. QED
            BY <3>6, <5>1
        <4>2. Place(h, n - (l - 1) + 1) = Place(h, n - l + 1) + 1
          BY <2>3, <4>1 DEF Place
        <4>3. QED
          BY <2>5, <3>1, <3>2, <3>6, <4>2
      <3>9. P[n - l + 1] \div TrackSize = t /\ P[n - l + 1] % TrackSize = s
        BY <3>2, <3>6, <3>7, SectorOf
      <3>10. PICK F : F = [i \in Int |-> <<P[i] \div TrackSize, P[i] % TrackSize>>]
        OBVIOUS
      <3>11. F[n - l + 1] = e
        BY <2>3, <3>1, <3>9, <3>10
      <3>12. m = [i \in 1..n - l |-> F[i]]
        BY <2>5, <3>1, <3>5, <3>10
      <3>13. Append(m, e) = [i \in 1..n - (l - 1) |-> F[i]]
        <4>1. Len(m) = n - l
          BY <3>2, <3>3, <3>12
        <4>2. PICK x : x = Append(m, e)
          OBVIOUS
        <4>3. e \in Nat \X Nat
          BY <3>1, <3>2, <3>6
        <4>4. /\ x \in Seq(Nat \X Nat) /\ Len(x) = (n - l) + 1
              /\ \A i \in 1..n - l : x[i] = m[i]
              /\ x[(n - l) + 1] = e
          BY <3>2, <4>1, <4>2, <4>3, AppendProperties
        <4>5. x = [i \in 1..(n - l) + 1 |-> x[i]]
          BY <4>4, LenProperties
        <4>6. ASSUME NEW i \in 1..(n - l) + 1 PROVE x[i] = F[i]
          <5>1. CASE i = (n - l) + 1
            BY <3>11, <4>4, <5>1
          <5>2. CASE i # (n - l) + 1
            <6>1. i \in 1..n - l
              BY <3>3, <5>2
            <6>2. QED
              BY <3>12, <4>4, <6>1
          <5>3. QED
            BY <5>1, <5>2
        <4>7. QED
          BY <3>3, <4>2, <4>5, <4>6
      <3>14. Append(m, e) = [i \in 1..n - (l - 1) |-> <<Place(h, i) \div TrackSize, Place(h, i) % TrackSize>>]
        BY <3>3, <3>5, <3>10, <3>13
      <3>15. Proceeds(t, s + 1, l - 1, Append(m, e))
        BY <2>1, <2>7, <3>1 DEF Transfers
      <3>16. PICK s2, l2, m2 : s2 = s + 1 /\ l2 = l - 1 /\ m2 = Append(m, e)
        OBVIOUS
      <3>17. /\ s2 \in 0..TrackSize /\ l2 \in Nat /\ m2 \in Seq(Nat \X Nat) /\ l2 <= n
             /\ Proceeds(t, s2, l2, m2) /\ t * TrackSize + s2 = Place(h, n - l2 + 1)
             /\ m2 = [i \in 1..n - l2 |-> <<Place(h, i) \div TrackSize, Place(h, i) % TrackSize>>]
        BY <3>2, <3>3, <3>8, <3>14, <3>15, <3>16
      <3>18. QED
        BY <1>1, <2>1, <2>2, <2>3, <2>4, <3>2, <3>17, MovedProceeds
    <2>8. QED
      BY <1>11, <2>6, <2>7
  <1>12. CASE SeekFails
    <2>1. RequestsKept
      BY <1>1, <1>2, <1>12, StatusStep DEF SeekFails, Serving
    <2>2. QED
      BY <1>1, <1>9, <1>12, <2>1 DEF SeekFails, DiskShape
  <1>13. ASSUME TransferFails, RequestsKept PROVE MovedInv'
    <2>1. NextOf(driver.serves) \in Procs \cup {NULL}
      BY <1>1, <1>2, <1>13, InfoFields DEF TransferFails, Serving
    <2>2. QED
      BY <1>9, <1>13, <2>1 DEF TransferFails
  <1>14. CASE ReadFails
    <2>1. RequestsKept
      BY <1>1, <1>2, <1>14, StatusStep DEF ReadFails, TransferFails, Serving
    <2>2. QED
      BY <1>13, <1>14, <2>1 DEF ReadFails
  <1>15. CASE WriteFails
    <2>1. RequestsKept
      BY <1>1, <1>15, WriteFailsStep
    <2>2. QED
      BY <1>13, <1>15, <2>1 DEF WriteFails
  <1>16. CASE Answers
    <2>1. headDiskList' \in Procs \cup {NULL}
      BY ShapeKept DEF DiskShape
    <2>2. QED
      BY <1>1, <1>9, <1>16, <2>1, UnchangedRequests DEF Answers
  <1>17. QED
    BY <1>5, <1>6, <1>7, <1>8, <1>10, <1>11, <1>12, <1>14, <1>15, <1>16
       DEF DiskNext, DiskServes, DiskCallContinues
-----------------------------------------------------------------------------
(* The list, what becomes of it in a step, and the driver at its head.     *)

LEMMA QueueStays ==
  ASSUME QueueInv, UNCHANGED headDiskList, Pending' = Pending,
         \A p \in Pending : request'[p].next = request[p].next
  PROVE  QueueInv'
  <1>1. PICK q \in Seq(Procs) : Queue(q) /\ (TracksDiffer => Sweeps(q))
    BY DEF QueueInv
  <1>2. \A i \in 1..Len(q) : q[i] \in Procs /\ q[i] \in Pending
    BY <1>1, ElementsOf DEF Queue
  <1>3. \A i \in 1..Len(q) : Links'[q[i]] = Links[q[i]]
    BY <1>2 DEF Links
  <1>4. IsChain(q, headDiskList', Links', NULL)
    BY <1>1, <1>3, ChainOfSameLinks DEF Queue
  <1>5. QED
    BY <1>1, <1>4 DEF QueueInv, Queue

LEMMA QueueLosesHead ==
  ASSUME QueueInv, headDiskList # NULL, headDiskList' = NextOf(headDiskList),
         Pending' = Pending \ {headDiskList}, \A p \in Procs : request'[p].next = request[p].next
  PROVE  QueueInv'
  <1>1. PICK q \in Seq(Procs) : Queue(q) /\ (TracksDiffer => Sweeps(q))
    BY DEF QueueInv
  <1>2. Len(q) # 0
    BY <1>1 DEF Queue, IsChain
  <1>3. PICK r : r = Tail(q)
    OBVIOUS
  <1>4. IsChain(q, headDiskList, Links, NULL)
    BY <1>1 DEF Queue
  <1>5. /\ r \in Seq(Procs) /\ Len(r) = Len(q) - 1 /\ headDiskList = q[1]
        /\ \A i \in 1..Len(q) - 1 : r[i] = q[i + 1]
        /\ IsChain(r, Links[headDiskList], Links, NULL)
        /\ Elements(r) = Elements(q) \ {headDiskList}
    <2>1. /\ Tail(q) \in Seq(Procs) /\ Len(Tail(q)) = Len(q) - 1 /\ headDiskList = q[1]
          /\ \A i \in 1..Len(q) - 1 : Tail(q)[i] = q[i + 1]
          /\ IsChain(Tail(q), Links[headDiskList], Links, NULL)
          /\ Elements(Tail(q)) = Elements(q) \ {headDiskList}
      BY <1>2, <1>4, ChainLosesHead, ZenonT(60)
    <2>2. QED
      BY <1>3, <2>1
  <1>6. headDiskList \in Procs
    <2>1. 1 \in 1..Len(q)
      BY <1>2, ElementsOf
    <2>2. QED
      BY <1>5, <2>1, ElementsOf
  <1>7. Links' = Links /\ Links[headDiskList] = NextOf(headDiskList)
    BY <1>6 DEF Links, NextOf
  <1>8. TracksDiffer => Sweeps(r)
    BY <1>1, <1>2, <1>5, TailKeepsSweeps
  <1>9. Elements(r) = Pending' /\ IsChain(r, headDiskList', Links', NULL)
    BY <1>1, <1>5, <1>7 DEF Queue
  <1>10. QED
    BY <1>5, <1>8, <1>9 DEF QueueInv, Queue

LEMMA QueueGrows ==
  ASSUME DiskShape, QueueInv, CallerInv, NEW p \in Procs, RequestLinkIn(p), ~ScanStale(p),
         p \notin Pending, Pending' = Pending \cup {p}
  PROVE  QueueInv'
  <1>1. PICK q \in Seq(Procs) : Queue(q) /\ (TracksDiffer => Sweeps(q))
    BY DEF QueueInv
  <1>2. IsChain(q, headDiskList, Links, NULL) /\ Elements(q) = Pending
    BY <1>1 DEF Queue
  <1>3. caller[p] = ScanPlace(TrackOf[p]) /\ TrackOf[p] \in 0..Tracks - 1
    BY DiskAssumption DEF ScanStale
  <1>4. caller[p].at = "linking" /\ request[p].next = NULL
    BY DEF RequestLinkIn, CallerInv
  <1>5. \A r \in Procs : Links[r] = request[r].next /\ Links'[r] = request'[r].next
    BY DEF Links
  <1>6. CASE Len(q) = 0
    <2>1. headDiskList = NULL
      BY <1>2, <1>6 DEF IsChain
    <2>2. ScanPlace(TrackOf[p]) = Linking(NULL, NULL)
      BY <2>1 DEF ScanPlace
    <2>3. caller[p].before = NULL
      BY <1>3, <2>2 DEF Linking
    <2>4. LinksKept /\ headDiskList' = p
      BY <2>3, LinkStep
    <2>5. Links'[p] = NULL
      BY <1>4, <1>5, <2>4 DEF LinksKept
    <2>6. PICK r : r = <<p>>
      OBVIOUS
    <2>7. r \in Seq(Procs) /\ IsChain(r, p, Links', NULL) /\ Elements(r) = {p}
      <3>1. PICK L : L = Links'
        OBVIOUS
      <3>2. L[p] = NULL
        BY <2>5, <3>1
      <3>3. <<p>> \in Seq(Procs) /\ IsChain(<<p>>, p, L, NULL) /\ Elements(<<p>>) = {p}
        BY <3>2, ChainBegins
      <3>4. QED
        BY <2>6, <3>1, <3>3
    <2>8. Pending = {}
      BY <1>2, <1>6, ElementsOf
    <2>9. Sweeps(r)
      <3>1. Len(r) = 1 /\ 1 \in 0..Len(r)
        BY <2>6
      <3>2. \A j, k \in 1..Len(r) : ~(j < k) /\ ~(1 < k)
        BY <3>1
      <3>3. QED
        BY <3>1, <3>2 DEF Sweeps
    <2>10. Queue(r)'
      BY <2>4, <2>7, <2>8 DEF Queue
    <2>11. QED
      BY <2>7, <2>9, <2>10 DEF QueueInv
  <1>7. CASE Len(q) # 0
    <2>1. PICK i \in 1..Len(q) :
             /\ ScanPlace(TrackOf[p]) = Linking(q[i], NextOf(q[i]))
             /\ FirstSweepPlace(q, TrackOf[p], i) \/ SecondSweepPlace(q, TrackOf[p], i)
      BY <1>1, <1>3, <1>7, ScanPlaceFinds
    <2>2. caller[p].before = q[i] /\ caller[p].after = NextOf(q[i])
      BY <1>3, <2>1 DEF Linking
    <2>3. \A k \in 1..Len(q) : q[k] \in Procs /\ q[k] \in Pending /\ q[k] # p
      BY <1>2, ElementsOf
    <2>4. q[i] # NULL /\ q[i] # p
      BY <2>3, ProgramsAssumption
    <2>5. /\ headDiskList' = headDiskList
          /\ request'[q[i]].next = p /\ request'[p].next = NextOf(q[i])
          /\ \A r \in Procs : r # p /\ r # q[i] => request'[r].next = request[r].next
      BY <2>2, <2>4, LinkStep
    <2>6. \A k \in 1..Len(q) : k # i => q[k] # q[i]
      BY <1>2 DEF IsChain
    <2>7. PICK L1, L2 : L1 = Links /\ L2 = Links'
      OBVIOUS
    <2>8. L2[q[i]] = p /\ L2[p] = L1[q[i]] /\ \A k \in 1..Len(q) : k # i => L2[q[k]] = L1[q[k]]
      BY <1>5, <2>3, <2>5, <2>6, <2>7 DEF NextOf
    <2>9. PICK r : r = Inserted(q, i, p)
      OBVIOUS
    <2>10. IsChain(q, headDiskList, L1, NULL) /\ p \notin Elements(q)
      BY <1>2, <2>7
    <2>11. /\ r \in Seq(Procs) /\ IsChain(r, headDiskList, L2, NULL)
           /\ Elements(r) = Elements(q) \cup {p}
      <3>1. PutBehind(q, i, p, L1, L2)
        BY <2>8 DEF PutBehind
      <3>2. Inserted(q, i, p) \in Seq(Procs)
        BY <2>10, <3>1, ChainGrows
      <3>3. IsChain(Inserted(q, i, p), headDiskList, L2, NULL)
        BY <2>10, <3>1, ChainGrows
      <3>4. Elements(Inserted(q, i, p)) = Elements(q) \cup {p}
        BY GrownElements
      <3>5. QED
        BY <2>9, <3>2, <3>3, <3>4
    <2>12. TracksDiffer => Sweeps(r)
      <3>1. SUFFICES ASSUME TracksDiffer PROVE Sweeps(r)
        OBVIOUS
      <3>2. \A k \in 1..Len(q) : TrackOf[q[k]] # TrackOf[p]
        BY <2>3, <3>1 DEF TracksDiffer
      <3>3. QED
        BY <1>1, <2>1, <2>9, <3>1, <3>2, InsertKeepsSweeps
    <2>13. Queue(r)'
      BY <1>2, <2>5, <2>7, <2>11 DEF Queue
    <2>14. QED
      BY <2>11, <2>12, <2>13 DEF QueueInv
  <1>8. QED
    BY <1>6, <1>7

(* A driver that begins with the head serves it, or has nothing to serve.  *)
LEMMA BeginsRight ==
  ASSUME request \in [Procs -> Infos], DiskShape', QueueInv', driver' = Begin(headDiskList')
  PROVE  HeadInv' /\ IdleInv'
  <1>1. PICK q \in Seq(Procs) : Queue(q)'
    BY DEF QueueInv
  <1>2. headDiskList' \in Procs \cup {NULL} /\ NULL \notin Procs
    BY ProgramsAssumption DEF DiskShape
  <1>3. PICK h : h = headDiskList'
    OBVIOUS
  <1>4. h = (IF Len(q) = 0 THEN NULL ELSE q[1]) /\ Elements(q) = Pending'
    BY <1>1, <1>3 DEF Queue, IsChain
  <1>5. CASE h = NULL
    <2>1. driver'.at = "semP"
      BY <1>2, <1>3, <1>5, BeginIn
    <2>2. Len(q) = 0
      <3>1. SUFFICES ASSUME Len(q) # 0 PROVE FALSE
        OBVIOUS
      <3>2. 1 \in 1..Len(q) /\ q[1] = NULL
        BY <1>4, <1>5, <3>1, ElementsOf
      <3>3. QED
        BY <1>2, <3>2, ElementsOf
    <2>3. Pending' = {}
      BY <1>4, <2>2, ElementsOf
    <2>4. QED
      BY <2>1, <2>3 DEF HeadInv, IdleInv, Serving
  <1>6. CASE h # NULL
    <2>1. h \in Procs /\ driver'.at = "seek" /\ driver'.serves = h
      BY <1>2, <1>3, <1>6, BeginIn
    <2>2. h \in Pending'
      <3>1. 1 \in 1..Len(q) /\ h = q[1]
        BY <1>4, <1>6, ElementsOf
      <3>2. QED
        BY <1>4, <3>1, ElementsOf
    <2>3. InCall(h)' /\ h \notin failed'
      BY <2>2 DEF Pending
    <2>4. QED
      BY <1>3, <2>1, <2>3 DEF HeadInv, IdleInv, InCall
  <1>7. QED
    BY <1>5, <1>6
-----------------------------------------------------------------------------
(* Every step that leaves the list usable keeps the invariant.             *)

LEMMA PlaceEntry ==
  ASSUME DiskShape, QueueInv, NEW t \in 0..Tracks - 1
  PROVE  \/ ScanPlace(t).before = NULL /\ headDiskList = NULL
         \/ ScanPlace(t).before \in Pending
  <1>1. PICK q \in Seq(Procs) : Queue(q)
    BY DEF QueueInv
  <1>2. CASE Len(q) = 0
    <2>1. headDiskList = NULL
      BY <1>1, <1>2 DEF Queue, IsChain
    <2>2. QED
      BY <2>1 DEF ScanPlace, Linking
  <1>3. CASE Len(q) # 0
    <2>1. PICK i \in 1..Len(q) : ScanPlace(t) = Linking(q[i], NextOf(q[i]))
      BY <1>1, <1>3, ScanPlaceFinds
    <2>2. q[i] \in Pending
      BY <1>1, ElementsOf DEF Queue
    <2>3. QED
      BY <2>1, <2>2 DEF Linking
  <1>4. QED
    BY <1>2, <1>3

LEMMA TakenStays ==
  ASSUME UNCHANGED driver,
         Serving => request'[driver.serves].requestType = request[driver.serves].requestType
  PROVE  \A p \in Procs : TakenOff(p)' <=> TakenOff(p)
  BY DEF TakenOff, Serving

LEMMA PendingStays ==
  ASSUME failed' = failed, \A p \in Procs : (InCall(p)' <=> InCall(p)) /\ (TakenOff(p)' <=> TakenOff(p))
  PROVE  Pending' = Pending
  BY DEF Pending

LEMMA HeadStays ==
  ASSUME HeadInv, UNCHANGED <<driver, failed>>,
         Serving => /\ InCall(driver.serves)'
                    /\ request'[driver.serves].requestType = request[driver.serves].requestType
                    /\ ~TakenOff(driver.serves) => headDiskList' = headDiskList
  PROVE  HeadInv'
  <1>1. SUFFICES ASSUME Serving' PROVE HeadInv'
    BY DEF HeadInv
  <1>2. Serving /\ driver' = driver
    BY <1>1 DEF Serving
  <1>3. TakenOff(driver.serves)' <=> TakenOff(driver.serves)
    BY <1>2 DEF TakenOff
  <1>4. PICK h : h = driver.serves
    OBVIOUS
  <1>5. InCall(h)' /\ h \notin failed' /\ (TakenOff(h)' \/ h = headDiskList')
    BY <1>2, <1>3, <1>4 DEF HeadInv, TakenOff, InCall
  <1>6. QED
    BY <1>2, <1>4, <1>5 DEF HeadInv

LEMMA NotTakenAtBegin ==
  ASSUME request \in [Procs -> Infos], NEW h \in Procs \cup {NULL}, driver' = Begin(h)
  PROVE  \A p \in Procs : ~TakenOff(p)'
  <1>1. driver'.at # "answering"
    BY BeginIn
  <1>2. QED
    BY <1>1 DEF TakenOff

(* A caller takes a step that does not touch the list.                     *)
LEMMA CallsKept ==
  ASSUME DiskShape, DiskShape', UsableInv, NEW p \in Procs, NEW loc,
         caller' \in [Procs -> Callers], caller'[p].at = loc,
         \A r \in Procs : r # p => caller'[r] = caller[r] /\ request'[r] = request[r],
         loc = "linking" \/ loc \in {"posting", "queued", "receiving"} => request'[p].requestType # "none",
         loc = "linking" => request'[p].next = NULL,
         InCall(p) => request'[p] = request[p],
         InCall(p) <=> loc \in {"posting", "queued", "receiving"},
         UNCHANGED <<headDiskList, driver, failed>>,
         driver.at = "semP" /\ diskSemaphore' = 0 =>
             diskSemaphore = 0 /\ (p \in Pending => loc = "posting")
  PROVE  UsableInv'
  <1>1. Serving => driver.serves \in Procs /\ InCall(driver.serves)
    BY Served
  <1>2. Serving => request'[driver.serves] = request[driver.serves]
    BY <1>1
  <1>3. \A r \in Procs : InCall(r)' <=> InCall(r)
    BY DEF InCall
  <1>4. \A r \in Procs : TakenOff(r)' <=> TakenOff(r)
    BY <1>2, TakenStays
  <1>5. Pending' = Pending
    BY <1>3, <1>4, PendingStays
  <1>6. QueueInv'
    <2>1. \A r \in Pending : request'[r].next = request[r].next
      BY DEF Pending
    <2>2. QED
      BY <1>5, <2>1, QueueStays DEF UsableInv
  <1>7. CallerInv'
    <2>1. \A r \in Procs : caller'[r].at = "linking" => request'[r].next = NULL
      BY DEF UsableInv, CallerInv
    <2>2. \A r \in Procs : caller'[r].at = "linking" \/ InCall(r)' => request'[r].requestType # "none"
      BY <1>3 DEF UsableInv, CallerInv
    <2>3. \A r \in failed' : InCall(r)'
      BY <1>3 DEF UsableInv, CallerInv, DiskShape
    <2>4. QED
      BY <2>1, <2>2, <2>3 DEF CallerInv
  <1>8. HeadInv'
    BY <1>1, <1>2, <1>3, HeadStays DEF UsableInv
  <1>9. IdleInv'
    <2>1. SUFFICES ASSUME driver'.at = "semP", diskSemaphore' = 0, NEW r \in Pending' PROVE caller'[r].at = "posting"
      BY DEF IdleInv
    <2>2. driver.at = "semP" /\ diskSemaphore = 0 /\ r \in Pending /\ r \in Procs
      BY <1>5, <2>1 DEF Pending
    <2>3. caller[r].at = "posting"
      BY <2>2 DEF UsableInv, IdleInv
    <2>4. QED
      BY <2>1, <2>2, <2>3
  <1>10. QED
    BY <1>6, <1>7, <1>8, <1>9 DEF UsableInv

LEMMA AskKept ==
  ASSUME DiskShape, DiskShape', UsableInv, NEW p \in Procs, NEW r \in Asks[p], Ask(p, r)
  PROVE  UsableInv'
  <1>1. PICK u, c : u = Asked(r) /\ c = ScanPlace(TrackOf[p])
    OBVIOUS
  <1>2. u.requestType # "none" /\ u.next = NULL
    <2>1. r \in [requestType : {"read", "write"}, startSector : 0..TrackSize - 1, sectors : Nat]
      BY DiskAssumption
    <2>2. QED
      BY <1>1, <2>1 DEF Asked
  <1>3. c \in Callers /\ c.at = "linking"
    BY <1>1, ScanPlaceIn, DiskAssumption DEF UsableInv
  <1>4. /\ request' = [request EXCEPT ![p] = u] /\ caller' = [caller EXCEPT ![p] = c]
        /\ caller[p].at = "user" /\ UNCHANGED <<headDiskList, diskSemaphore, driver, failed>>
    BY <1>1 DEF Ask
  <1>5. /\ caller' \in [Procs -> Callers] /\ caller'[p].at = "linking" /\ request'[p] = u
        /\ \A k \in Procs : k # p => caller'[k] = caller[k] /\ request'[k] = request[k]
    BY <1>3, <1>4 DEF DiskShape
  <1>6. ~InCall(p) /\ p \notin Pending
    BY <1>4 DEF InCall, Pending
  <1>7. QED
    BY <1>2, <1>4, <1>5, <1>6, CallsKept

LEMMA StandsKept ==
  ASSUME DiskShape, DiskShape', UsableInv, NEW p \in Procs, Posts(p) \/ RequestReceives(p) \/ RequestReturns(p)
  PROVE  UsableInv'
  <1>1. CASE Posts(p)
    <2>1. /\ caller' \in [Procs -> Callers] /\ caller'[p].at = "queued"
          /\ \A k \in Procs : k # p => caller'[k] = caller[k]
      BY <1>1, CallerStep DEF Posts
    <2>2. diskSemaphore' # 0
      BY <1>1, DiskAssumption DEF Posts, Posted, DiskShape
    <2>3. InCall(p) /\ request' = request /\ UNCHANGED <<headDiskList, driver, failed>>
      BY <1>1 DEF Posts, InCall
    <2>4. request'[p].requestType # "none"
      BY <2>3 DEF UsableInv, CallerInv
    <2>5. QED
      BY <2>1, <2>2, <2>3, <2>4, CallsKept
  <1>2. CASE RequestReceives(p)
    <2>1. /\ caller' \in [Procs -> Callers] /\ caller'[p].at = "receiving"
          /\ \A k \in Procs : k # p => caller'[k] = caller[k]
      BY <1>2, CallerStep DEF RequestReceives
    <2>2. InCall(p) /\ request' = request /\ UNCHANGED <<headDiskList, diskSemaphore, driver, failed>>
      BY <1>2 DEF RequestReceives, InCall
    <2>3. request'[p].requestType # "none"
      BY <2>2 DEF UsableInv, CallerInv
    <2>4. driver.at = "semP" /\ diskSemaphore = 0 => p \notin Pending
      BY <1>2 DEF UsableInv, IdleInv, RequestReceives
    <2>5. QED
      BY <2>1, <2>2, <2>3, <2>4, CallsKept
  <1>3. CASE RequestReturns(p)
    <2>1. /\ caller' \in [Procs -> Callers] /\ caller'[p].at = "user"
          /\ \A k \in Procs : k # p => caller'[k] = caller[k]
      BY <1>3, CallerStep DEF RequestReturns
    <2>2. /\ ~InCall(p) /\ p \notin Pending /\ UNCHANGED <<headDiskList, diskSemaphore, driver, failed>>
          /\ \A k \in Procs : k # p => request'[k] = request[k]
      BY <1>3 DEF RequestReturns, InCall, Pending, DiskShape
    <2>3. QED
      BY <2>1, <2>2, CallsKept
  <1>4. QED
    BY <1>1, <1>2, <1>3

LEMMA LinkKept ==
  ASSUME DiskShape, DiskShape', UsableInv, NEW p \in Procs, RequestLinkIn(p), mishap' = "none"
  PROVE  UsableInv'
  <1>1. ~ScanStale(p)
    BY DEF RequestLinkIn
  <1>2. caller[p] = ScanPlace(TrackOf[p]) /\ TrackOf[p] \in 0..Tracks - 1
    BY <1>1, DiskAssumption DEF ScanStale
  <1>3. \/ caller[p].before = NULL /\ headDiskList = NULL
        \/ caller[p].before \in Pending
    BY <1>2, PlaceEntry DEF UsableInv
  <1>4. caller[p].at = "linking" /\ ~InCall(p) /\ p \notin Pending
    BY DEF RequestLinkIn, InCall, Pending
  <1>5. /\ caller'[p].at = "posting"
        /\ \A r \in Procs : r # p => caller'[r] = caller[r]
    BY CallerStep DEF RequestLinkIn
  <1>6. UNCHANGED <<diskSemaphore, driver, failed>>
    BY DEF RequestLinkIn
  <1>7. RequestsKept
    BY LinkStep
  <1>8. \A r \in Procs : InCall(r)' <=> InCall(r) \/ r = p
    BY <1>4, <1>5 DEF InCall
  <1>9. Serving => driver.serves \in Procs /\ InCall(driver.serves)
    BY Served
  <1>10. Serving => request'[driver.serves].requestType = request[driver.serves].requestType
    BY <1>7, <1>9 DEF RequestsKept
  <1>11. \A r \in Procs : TakenOff(r)' <=> TakenOff(r)
    BY <1>6, <1>10, TakenStays
  <1>12. p \notin failed /\ ~TakenOff(p)
    BY <1>4, <1>9 DEF UsableInv, CallerInv, TakenOff, Serving
  <1>13. Pending' = Pending \cup {p}
    BY <1>6, <1>8, <1>11, <1>12 DEF Pending
  <1>14. QueueInv'
    BY <1>1, <1>4, <1>13, QueueGrows DEF UsableInv
  <1>15. CallerInv'
    <2>1. ASSUME NEW r \in Procs, caller'[r].at = "linking" PROVE request'[r].next = NULL
      <3>1. r # p /\ caller[r].at = "linking" /\ request[r].next = NULL
        BY <1>5, <2>1 DEF UsableInv, CallerInv
      <3>2. request'[r].next = request[r].next
        <4>1. CASE caller[p].before = NULL
          BY <4>1, LinkStep DEF LinksKept
        <4>2. CASE caller[p].before \in Pending
          <5>1. caller[p].before # r /\ caller[p].before # p /\ caller[p].before # NULL
            BY <1>4, <3>1, <4>2, ProgramsAssumption DEF Pending, InCall
          <5>2. QED
            BY <3>1, <5>1, LinkStep
        <4>3. QED
          BY <1>3, <4>1, <4>2
      <3>3. QED
        BY <3>1, <3>2
    <2>2. ASSUME NEW r \in Procs, caller'[r].at = "linking" \/ InCall(r)' PROVE request'[r].requestType # "none"
      <3>1. caller[r].at = "linking" \/ InCall(r)
        BY <1>4, <1>5, <1>8, <2>2
      <3>2. QED
        BY <1>7, <3>1 DEF UsableInv, CallerInv, RequestsKept
    <2>3. \A r \in failed' : InCall(r)'
      BY <1>6, <1>8 DEF UsableInv, CallerInv, DiskShape
    <2>4. QED
      BY <2>1, <2>2, <2>3 DEF CallerInv
  <1>16. HeadInv'
    <2>1. Serving /\ ~TakenOff(driver.serves) => headDiskList' = headDiskList
      <3>1. SUFFICES ASSUME Serving, ~TakenOff(driver.serves) PROVE headDiskList' = headDiskList
        OBVIOUS
      <3>2. headDiskList # NULL
        BY <3>1, Served
      <3>3. caller[p].before # NULL
        BY <1>3, <3>2, ProgramsAssumption DEF Pending
      <3>4. QED
        BY <3>3 DEF RequestLinkIn
    <2>2. QED
      BY <1>6, <1>8, <1>9, <1>10, <2>1, HeadStays DEF UsableInv
  <1>17. IdleInv'
    <2>1. SUFFICES ASSUME driver'.at = "semP", diskSemaphore' = 0, NEW r \in Pending' PROVE caller'[r].at = "posting"
      BY DEF IdleInv
    <2>2. r = p \/ caller[r].at = "posting"
      BY <1>6, <1>13, <2>1 DEF UsableInv, IdleInv
    <2>3. r \in Procs
      BY <2>1 DEF Pending
    <2>4. QED
      BY <1>5, <2>2, <2>3
  <1>18. QED
    BY <1>14, <1>15, <1>16, <1>17 DEF UsableInv

(* What a step of the driver that changes no link leaves as it was.        *)
LEMMA DriverKeepsCalls ==
  ASSUME DiskShape, CallerInv, RequestsKept, LinksKept, failed' \subseteq Procs,
         \A r \in Procs : /\ caller'[r].at = "linking" => caller[r].at = "linking"
                          /\ InCall(r)' => InCall(r)
                          /\ r \in failed' => InCall(r)'
  PROVE  CallerInv'
  BY DEF CallerInv, RequestsKept, LinksKept

LEMMA BeginKept ==
  ASSUME DiskShape, DiskShape', UsableInv, RequestsKept, LinksKept, driver' = Begin(headDiskList'),
         \A r \in Procs : /\ caller'[r].at = "linking" => caller[r].at = "linking"
                          /\ InCall(r)' => InCall(r)
                          /\ r \in failed' => InCall(r)',
         \/ headDiskList' = headDiskList /\ Pending' = Pending
         \/ /\ headDiskList # NULL /\ headDiskList' = NextOf(headDiskList)
            /\ Pending' = Pending \ {headDiskList}
  PROVE  UsableInv'
  <1>1. CallerInv'
    BY DriverKeepsCalls DEF UsableInv, DiskShape
  <1>2. \A r \in Procs : request'[r].next = request[r].next
    BY DEF LinksKept
  <1>3. QueueInv'
    <2>1. CASE headDiskList' = headDiskList /\ Pending' = Pending
      <3>1. \A r \in Pending : request'[r].next = request[r].next
        BY <1>2 DEF Pending
      <3>2. QED
        BY <2>1, <3>1, QueueStays DEF UsableInv
    <2>2. CASE /\ headDiskList # NULL /\ headDiskList' = NextOf(headDiskList)
               /\ Pending' = Pending \ {headDiskList}
      BY <1>2, <2>2, QueueLosesHead DEF UsableInv
    <2>3. QED
      BY <2>1, <2>2
  <1>4. HeadInv' /\ IdleInv'
    BY <1>3, BeginsRight DEF DiskShape
  <1>5. QED
    BY <1>1, <1>3, <1>4 DEF UsableInv

LEMMA ProceedsKept ==
  ASSUME DiskShape, DiskShape', UsableInv, driver.at \in {"seek", "transfer"}, NEW t, NEW s, NEW l, NEW m,
         Proceeds(t, s, l, m), RequestsKept, LinksKept, UNCHANGED <<caller, failed>>, mishap' = "none"
  PROVE  UsableInv'
  <1>1. PICK h : h = driver.serves
    OBVIOUS
  <1>2. Serving /\ ~TakenOff(h) /\ \A r \in Procs : ~TakenOff(r)
    BY DEF Serving, TakenOff
  <1>3. h \in Procs /\ InCall(h) /\ h \notin failed /\ h = headDiskList /\ h # NULL
    BY <1>1, <1>2, Served
  <1>4. \A r \in Procs : (InCall(r)' <=> InCall(r)) /\ caller'[r] = caller[r]
    BY DEF InCall
  <1>5. \A r \in Procs : /\ request'[r].next = request[r].next
                         /\ request'[r].requestType = request[r].requestType
    BY DEF LinksKept, RequestsKept
  <1>6. CallerInv'
    <2>1. \A r \in failed : InCall(r)
      BY DEF UsableInv, CallerInv
    <2>2. QED
      BY <1>4, <2>1, DriverKeepsCalls DEF UsableInv, DiskShape
  <1>7. ~(l > 0 /\ EndOfTrack(s) /\ t + 1 = Tracks)
    BY DEF Proceeds
  <1>8. /\ driver' = IF l = 0 THEN Operation("answering", h, t, s, l, m)
                     ELSE IF EndOfTrack(s) THEN Operation("seek", h, t + 1, 0, l, m)
                     ELSE Operation("transfer", h, t, s, l, m)
        /\ headDiskList' = IF l = 0 /\ request[h].requestType = "write" THEN NextOf(h) ELSE headDiskList
    BY <1>1, <1>7 DEF Proceeds
  <1>9. driver'.serves = h /\ driver'.at # "semP" /\ (driver'.at = "answering" <=> l = 0)
    <2>1. CASE l = 0
      <3>1. driver' = Operation("answering", h, t, s, l, m)
        BY <1>8, <2>1
      <3>2. QED
        BY <2>1, <3>1 DEF Operation
    <2>2. CASE l # 0 /\ EndOfTrack(s)
      <3>1. driver' = Operation("seek", h, t + 1, 0, l, m)
        BY <1>8, <2>2
      <3>2. QED
        BY <2>2, <3>1 DEF Operation
    <2>3. CASE l # 0 /\ ~EndOfTrack(s)
      <3>1. driver' = Operation("transfer", h, t, s, l, m)
        BY <1>8, <2>3
      <3>2. QED
        BY <2>3, <3>1 DEF Operation
    <2>4. QED
      BY <2>1, <2>2, <2>3
  <1>10. IdleInv'
    BY <1>9 DEF IdleInv
  <1>11. \A r \in Procs : TakenOff(r)' <=> r = h /\ l = 0 /\ request[h].requestType = "write"
    BY <1>3, <1>5, <1>9 DEF TakenOff
  <1>12. CASE l = 0 /\ request[h].requestType = "write"
    <2>1. headDiskList' = NextOf(headDiskList)
      BY <1>3, <1>8, <1>12
    <2>2. Pending' = Pending \ {headDiskList}
      BY <1>2, <1>3, <1>4, <1>11, <1>12 DEF Pending
    <2>3. QueueInv'
      BY <1>3, <1>5, <2>1, <2>2, QueueLosesHead DEF UsableInv
    <2>4. HeadInv'
      BY <1>3, <1>4, <1>9, <1>11, <1>12 DEF HeadInv
    <2>5. QED
      BY <1>6, <1>10, <2>3, <2>4 DEF UsableInv
  <1>13. CASE ~(l = 0 /\ request[h].requestType = "write")
    <2>1. headDiskList' = headDiskList
      BY <1>8, <1>13
    <2>2. Pending' = Pending
      BY <1>2, <1>4, <1>11, <1>13 DEF Pending
    <2>3. \A r \in Pending : request'[r].next = request[r].next
      BY <1>5 DEF Pending
    <2>4. QueueInv'
      BY <2>1, <2>2, <2>3, QueueStays DEF UsableInv
    <2>5. HeadInv'
      BY <1>3, <1>4, <1>9, <2>1 DEF HeadInv
    <2>6. QED
      BY <1>6, <1>10, <2>4, <2>5 DEF UsableInv
  <1>14. QED
    BY <1>12, <1>13

LEMMA TransferFailsKept ==
  ASSUME DiskShape, DiskShape', UsableInv, TransferFails, RequestsKept, LinksKept
  PROVE  UsableInv'
  <1>1. PICK h : h = driver.serves
    OBVIOUS
  <1>2. Serving /\ \A r \in Procs : ~TakenOff(r)
    BY DEF Serving, TakenOff, TransferFails
  <1>3. h \in Procs /\ InCall(h) /\ h \notin failed /\ h = headDiskList /\ h # NULL
    BY <1>1, <1>2, Served
  <1>4. headDiskList' = NextOf(headDiskList) /\ driver' = Begin(headDiskList') /\ failed' = failed \cup {h}
    BY <1>1, <1>3 DEF TransferFails
  <1>5. \A r \in Procs : (InCall(r)' <=> InCall(r)) /\ caller'[r] = caller[r]
    BY DEF InCall, TransferFails, Fault
  <1>6. \A r \in Procs : ~TakenOff(r)'
    BY <1>4, NotTakenAtBegin DEF DiskShape
  <1>7. Pending' = Pending \ {headDiskList}
    BY <1>2, <1>3, <1>4, <1>5, <1>6 DEF Pending
  <1>8. \A r \in Procs : /\ caller'[r].at = "linking" => caller[r].at = "linking"
                         /\ InCall(r)' => InCall(r)
                         /\ r \in failed' => InCall(r)'
    BY <1>3, <1>4, <1>5 DEF UsableInv, CallerInv
  <1>9. QED
    BY <1>3, <1>4, <1>7, <1>8, BeginKept

LEMMA AnswersKept ==
  ASSUME DiskShape, DiskShape', UsableInv, Answers
  PROVE  UsableInv'
  <1>1. PICK p : p = driver.serves
    OBVIOUS
  <1>2. Serving /\ driver.at = "answering"
    BY DEF Serving, Answers
  <1>3. p \in Procs /\ InCall(p) /\ p \notin failed /\ (~TakenOff(p) => p = headDiskList /\ headDiskList # NULL)
    BY <1>1, <1>2, Served
  <1>4. /\ caller' = [caller EXCEPT ![p] = Standing("returning")] /\ request' = request /\ failed' = failed
        /\ headDiskList' = IF request[p].requestType = "read" THEN NextOf(headDiskList) ELSE headDiskList
        /\ driver' = Begin(headDiskList')
    BY <1>1 DEF Answers
  <1>5. caller'[p].at = "returning" /\ \A r \in Procs : r # p => caller'[r] = caller[r]
    BY <1>3, <1>4, CallerStep
  <1>6. \A r \in Procs : InCall(r)' <=> InCall(r) /\ r # p
    BY <1>5 DEF InCall
  <1>7. RequestsKept /\ LinksKept
    BY <1>4, UnchangedRequests DEF DiskShape
  <1>8. \A r \in Procs : ~TakenOff(r)'
    BY <1>4, NotTakenAtBegin DEF DiskShape
  <1>9. \A r \in Procs : TakenOff(r) <=> r = p /\ request[p].requestType = "write"
    BY <1>1, <1>2 DEF TakenOff
  <1>10. \A r \in Procs : /\ caller'[r].at = "linking" => caller[r].at = "linking"
                          /\ InCall(r)' => InCall(r)
                          /\ r \in failed' => InCall(r)'
    BY <1>3, <1>4, <1>5, <1>6 DEF UsableInv, CallerInv
  <1>11. request[p].requestType \in {"read", "write"}
    BY <1>3, InfoFields DEF UsableInv, CallerInv, DiskShape
  <1>12. CASE request[p].requestType = "read"
    <2>1. p = headDiskList /\ headDiskList # NULL /\ headDiskList' = NextOf(headDiskList)
      BY <1>3, <1>4, <1>9, <1>12
    <2>2. Pending' = Pending \ {headDiskList}
      BY <1>4, <1>6, <1>8, <1>9, <1>12, <2>1 DEF Pending
    <2>3. QED
      BY <1>4, <1>7, <1>10, <2>1, <2>2, BeginKept
  <1>13. CASE request[p].requestType = "write"
    <2>1. headDiskList' = headDiskList
      BY <1>4, <1>13
    <2>2. Pending' = Pending
      BY <1>4, <1>6, <1>8, <1>9, <1>13 DEF Pending
    <2>3. QED
      BY <1>4, <1>7, <1>10, <2>1, <2>2, BeginKept
  <1>14. QED
    BY <1>11, <1>12, <1>13

LEMMA UsableKept ==
  ASSUME DiskInv, DiskNext, mishap' = "none"
  PROVE  UsableInv'
  <1>1. DiskShape /\ UsableInv /\ DiskShape' /\ request \in [Procs -> Infos]
    BY ShapeKept DEF DiskInv, DiskNext, DiskShape
  <1>2. ASSUME NEW p \in Procs, NEW r \in Asks[p], Ask(p, r) PROVE UsableInv'
    BY <1>1, <1>2, AskKept
  <1>3. ASSUME NEW p \in Procs, DiskCallContinues(p) PROVE UsableInv'
    BY <1>1, <1>3, LinkKept, StandsKept DEF DiskCallContinues
  <1>4. CASE TakesUnit
    <2>1. /\ driver' = Begin(headDiskList') /\ headDiskList' = headDiskList
          /\ request' = request /\ caller' = caller /\ failed' = failed
      BY <1>4 DEF TakesUnit
    <2>2. \A r \in Procs : ~TakenOff(r) /\ ~TakenOff(r)' /\ (InCall(r)' <=> InCall(r))
      BY <1>1, <1>4, <2>1, NotTakenAtBegin DEF TakenOff, TakesUnit, DiskShape, InCall
    <2>3. Pending' = Pending
      BY <2>1, <2>2, PendingStays
    <2>4. RequestsKept /\ LinksKept
      BY <1>1, <2>1, UnchangedRequests
    <2>5. \A r \in failed : InCall(r)
      BY <1>1 DEF UsableInv, CallerInv
    <2>6. QED
      BY <1>1, <2>1, <2>2, <2>3, <2>4, <2>5, BeginKept
  <1>5. ASSUME Seeks \/ Transfers PROVE /\ driver.at \in {"seek", "transfer"} /\ RequestsKept /\ LinksKept
                                       /\ UNCHANGED <<caller, failed>>
    <2>1. driver.at \in {"seek", "transfer"}
      BY <1>5 DEF Seeks, Transfers
    <2>2. driver.serves \in Procs
      BY <1>1, <2>1, DriverFields DEF Serving
    <2>3. QED
      BY <1>1, <1>5, <2>1, <2>2, StatusStep DEF Seeks, Transfers, Succeeds
  <1>6. CASE Seeks
    <2>1. PICK t, s, l, m : Proceeds(t, s, l, m)
      BY <1>6 DEF Seeks
    <2>2. QED
      BY <1>1, <1>5, <1>6, <2>1, ProceedsKept
  <1>7. CASE Transfers
    <2>1. PICK t, s, l, m : Proceeds(t, s, l, m)
      BY <1>7 DEF Transfers
    <2>2. QED
      BY <1>1, <1>5, <1>7, <2>1, ProceedsKept
  <1>8. CASE SeekFails
    <2>1. /\ driver' = Begin(headDiskList') /\ headDiskList' = headDiskList
          /\ caller' = caller /\ failed' = failed /\ driver.at = "seek"
      BY <1>8 DEF SeekFails, Fault
    <2>2. \A r \in Procs : ~TakenOff(r) /\ ~TakenOff(r)' /\ (InCall(r)' <=> InCall(r))
      BY <1>1, <2>1, NotTakenAtBegin DEF TakenOff, DiskShape, InCall
    <2>3. Pending' = Pending
      BY <2>1, <2>2, PendingStays
    <2>4. driver.serves \in Procs
      BY <1>1, <2>1, DriverFields DEF Serving
    <2>5. RequestsKept /\ LinksKept
      BY <1>1, <1>8, <2>4, StatusStep DEF SeekFails
    <2>6. \A r \in failed : InCall(r)
      BY <1>1 DEF UsableInv, CallerInv
    <2>7. QED
      BY <1>1, <2>1, <2>2, <2>3, <2>5, <2>6, BeginKept
  <1>9. CASE ReadFails
    <2>1. driver.serves \in Procs
      BY <1>1, <1>9, DriverFields DEF Serving, ReadFails, TransferFails
    <2>2. RequestsKept /\ LinksKept
      BY <1>1, <1>9, <2>1, StatusStep DEF ReadFails
    <2>3. QED
      BY <1>1, <1>9, <2>2, TransferFailsKept DEF ReadFails
  <1>10. CASE WriteFails
    BY <1>1, <1>10, WriteFailsStep, TransferFailsKept DEF WriteFails
  <1>11. CASE Answers
    BY <1>1, <1>11, AnswersKept
  <1>12. QED
    BY <1>2, <1>3, <1>4, <1>6, <1>7, <1>8, <1>9, <1>10, <1>11 DEF DiskNext, DiskServes
-----------------------------------------------------------------------------
LEMMA DiskInvInit == DiskInit => DiskInv
  <1> SUFFICES ASSUME DiskInit PROVE DiskInv
    OBVIOUS
  <1>1. NoRequest \in Infos
    BY DiskAssumption DEF NoRequest, Infos
  <1>2. \A p \in Procs : caller[p].at = "user" /\ caller[p] \in Callers
    BY DEF DiskInit, Standing, Callers
  <1>3. driver.at = "semP" /\ DriverShape
    <2>1. 0 \in 0..Tracks - 1 /\ 0 \in 0..TrackSize /\ <<>> \in Seq(Nat \X Nat)
      BY DiskAssumption
    <2>2. driver = Operation("semP", NULL, 0, 0, 0, <<>>)
      BY DEF DiskInit, Waiting
    <2>3. QED
      BY <2>1, <2>2 DEF DriverShape, Serving, Operation, Drivers
  <1>4. DiskShape
    <2>1. request \in [Procs -> Infos]
      BY <1>1 DEF DiskInit
    <2>2. caller \in [Procs -> Callers]
      <3>1. caller = [p \in Procs |-> Standing("user")]
        BY DEF DiskInit
      <3>2. QED
        BY <1>2, <3>1
    <2>3. QED
      BY <1>3, <2>1, <2>2, DiskAssumption DEF DiskInit, DiskShape
  <1>5. Pending = {}
    BY <1>2 DEF Pending, InCall
  <1>6. QueueInv
    <2>1. PICK q : q = <<>>
      OBVIOUS
    <2>2. q \in Seq(Procs) /\ Len(q) = 0 /\ 1..0 = {}
      BY <2>1
    <2>3. IsChain(q, headDiskList, Links, NULL) /\ Elements(q) = {}
      BY <2>2 DEF IsChain, Elements, DiskInit
    <2>4. Sweeps(q)
      BY <2>2 DEF Sweeps
    <2>5. QED
      BY <1>5, <2>2, <2>3, <2>4 DEF QueueInv, Queue
  <1>7. CallerInv
    BY <1>2 DEF CallerInv, InCall, DiskInit
  <1>8. HeadInv /\ MovedInv /\ IdleInv
    BY <1>3, <1>5 DEF HeadInv, MovedInv, IdleInv, Serving
  <1>9. QED
    BY <1>4, <1>6, <1>7, <1>8 DEF DiskInv, UsableInv

LEMMA DiskInvStutters == DiskInv /\ UNCHANGED diskVars => DiskInv'
  <1> SUFFICES ASSUME DiskInv, UNCHANGED diskVars PROVE DiskInv'
    OBVIOUS
  <1> USE DEF diskVars
  <1>1. DiskShape' <=> DiskShape
    BY DEF DiskShape, DriverShape, Serving
  <1>2. MovedInv' <=> MovedInv
    BY DEF MovedInv, Place, Done, Serving
  <1>3. Pending' = Pending /\ Links' = Links
    BY DEF Pending, InCall, TakenOff, Links
  <1>4. QueueInv' <=> QueueInv
    BY <1>3 DEF QueueInv, Queue
  <1>5. (HeadInv' <=> HeadInv) /\ (CallerInv' <=> CallerInv) /\ (IdleInv' <=> IdleInv)
    BY <1>3 DEF HeadInv, CallerInv, IdleInv, InCall, TakenOff, Serving
  <1>6. QED
    BY <1>1, <1>2, <1>4, <1>5 DEF DiskInv, UsableInv, Usable

LEMMA DiskInvHolds == DiskSpec => []DiskInv
  <1>1. DiskInv /\ [DiskNext]_diskVars => DiskInv'
    <2>1. DiskInv /\ DiskNext => DiskInv'
      BY ShapeKept, MovedKept, UsableKept DEF DiskInv, Usable
    <2>2. QED
      BY <2>1, DiskInvStutters
  <1>2. QED
    BY <1>1, DiskInvInit, PTL DEF DiskSpec

(* Whatever is asked of the disk in whatever order, the places found in    *)
(* the list are entries of it, the driver is always at a sector of the     *)
(* disk and its count in bounds (diskReadReal, diskWriteReal, DiskDriver). *)
THEOREM DiskTypeCorrect == DiskSpec => []DiskTypeOK
  <1>1. DiskInv => DiskTypeOK
    BY DEF DiskInv, DiskShape, DriverShape, DiskTypeOK, Infos, Callers, Drivers
  <1>2. QED
    BY <1>1, DiskInvHolds, PTL

(* A caller is answered after exactly the sectors it asked for have been   *)
(* moved, in order and over the ends of tracks (diskReadHandler,           *)
(* diskWriteHandler), for disks, requests and faults of any number.        *)
THEOREM RequestsAreServedWhole == DiskSpec => []ServedWhole
  <1>1. DiskInv => ServedWhole
    <2>1. SUFFICES ASSUME DiskInv, driver.at = "answering" PROVE ServedWhole
      BY DEF ServedWhole
    <2>2. PICK h, n : h = driver.serves /\ n = request[h].sectors
      OBVIOUS
    <2>3. h \in Procs /\ n \in Nat
      BY <2>1, <2>2, DriverFields, InfoFields DEF DiskInv, DiskShape, Serving
    <2>4. /\ driver.left = 0 /\ request[h].status = "ready" /\ Done = n
          /\ driver.moved = [i \in 1..Done |-> <<Place(h, i) \div TrackSize, Place(h, i) % TrackSize>>]
      BY <2>1, <2>2, <2>3 DEF DiskInv, MovedInv, Serving, Done
    <2>5. QED
      BY <2>2, <2>4 DEF ServedWhole, Place
  <1>2. QED
    BY <1>1, DiskInvHolds, PTL

(* The driver never waits for a unit while a request on the list has been  *)
(* posted, although it serves requests without taking their units          *)
(* (DiskDriver).                                                           *)
THEOREM DriverIsNotIdle == DiskSpec => []NoIdleDriver
  <1>1. DiskInv => NoIdleDriver
    <2>1. SUFFICES ASSUME DiskInv, Usable, driver.at = "semP", diskSemaphore = 0, NEW p \in Procs,
                          caller[p].at \in {"queued", "receiving"}
                   PROVE  p \in failed
      BY DEF NoIdleDriver
    <2>2. p \notin Pending
      BY <2>1 DEF DiskInv, UsableInv, IdleInv
    <2>3. QED
      BY <2>1, <2>2 DEF Pending, InCall, TakenOff
  <1>2. QED
    BY <1>1, DiskInvHolds, PTL

(* As long as no two callers ask for the same track, the list is one sweep *)
(* upwards from the head and one below it (insertDiskRequest).  Without    *)
(* that it is not: the first walk stops between two requests for one       *)
(* track, and 6 put into 3, 5, 5 makes 3, 5, 6, 5.                         *)
THEOREM ScanIsKept ==
  ASSUME TracksDiffer
  PROVE  DiskSpec => []ScanOrder
  <1>1. ASSUME DiskInv PROVE ScanOrder
    <2>1. SUFFICES ASSUME Usable PROVE ScanOrder
      BY DEF ScanOrder
    <2>2. DiskShape /\ QueueInv
      BY <1>1, <2>1 DEF DiskInv, UsableInv
    <2>3. PICK q \in Seq(Procs) : Queue(q) /\ Sweeps(q)
      BY <2>2, TracksDiffer DEF QueueInv
    <2>4. PICK n, N : n = Len(q) /\ N = Cardinality(Procs)
      OBVIOUS
    <2>5. /\ n \in Nat /\ n <= N /\ N \in Nat /\ DOMAIN Walk = 0..N
          /\ \A k \in 0..N : Walk[k] = IF k < n THEN q[k + 1] ELSE NULL
          /\ \A i \in 1..n : q[i] # NULL
      BY <2>2, <2>3, <2>4, WalkMeets
    <2>6. \A k \in 0..n - 1 : Walk[k] = q[k + 1] /\ k + 1 \in 1..n
      BY <2>5
    <2>7. Length = n
      <3>1. {k \in DOMAIN Walk : Walk[k] # NULL} = 0..n - 1
        <4>1. ASSUME NEW k \in 0..N PROVE Walk[k] # NULL <=> k < n
          <5>1. CASE k < n
            <6>1. k + 1 \in 1..n
              BY <2>5, <5>1
            <6>2. QED
              BY <2>5, <5>1, <6>1
          <5>2. CASE ~(k < n)
            BY <2>5, <5>2
          <5>3. QED
            BY <5>1, <5>2
        <4>2. QED
          BY <2>5, <4>1
      <3>2. Cardinality(0..n - 1) = n
        <4>1. PICK b : b = n - 1
          OBVIOUS
        <4>2. b \in Int /\ 0 \in Int
          BY <2>5, <4>1
        <4>3. Cardinality(0..b) = IF 0 > b THEN 0 ELSE b - 0 + 1
          BY <4>2, FS_Interval
        <4>4. QED
          BY <2>5, <4>1, <4>3
      <3>3. QED
        BY <3>1, <3>2 DEF Length
    <2>8. PICK m \in 0..n : \A j, k \in 1..n :
             /\ j < k /\ (k <= m \/ m < j) => TrackOf[q[j]] < TrackOf[q[k]]
             /\ m < k => TrackOf[q[k]] < TrackOf[q[1]]
      BY <2>3, <2>4 DEF Sweeps
    <2>9. ASSUME NEW j \in 0..n - 1, NEW k \in 0..n - 1
          PROVE  /\ j < k /\ (k < m \/ m <= j) => TrackOf[Walk[j]] < TrackOf[Walk[k]]
                 /\ m <= k => TrackOf[Walk[k]] < TrackOf[headDiskList]
      <3>1. /\ j + 1 \in 1..n /\ k + 1 \in 1..n /\ Walk[j] = q[j + 1] /\ Walk[k] = q[k + 1]
        BY <2>6
      <3>2. headDiskList = q[1]
        BY <2>3, <2>4, <2>5, <3>1 DEF Queue, IsChain
      <3>3. ASSUME j < k, k < m \/ m <= j PROVE TrackOf[Walk[j]] < TrackOf[Walk[k]]
        <4>1. j + 1 < k + 1 /\ (k + 1 <= m \/ m < j + 1)
          BY <2>8, <3>3
        <4>2. QED
          BY <2>8, <3>1, <4>1
      <3>4. ASSUME m <= k PROVE TrackOf[Walk[k]] < TrackOf[headDiskList]
        <4>1. m < k + 1
          BY <2>8, <3>4
        <4>2. QED
          BY <2>8, <3>1, <3>2, <4>1
      <3>5. QED
        BY <3>3, <3>4
    <2>10. QED
      BY <2>7, <2>8, <2>9 DEF ScanOrder
  <1>2. QED
    BY <1>1, DiskInvHolds, PTL
=============================================================================
