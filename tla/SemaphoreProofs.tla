-------------------------- MODULE SemaphoreProofs --------------------------
(* What is proved of the semaphores of phase 3, for any number of          *)
(* processes and semaphores and any calls that Semaphores allows: nobody   *)
(* who sleeps is forgotten, no unit lies idle while somebody sleeps, and a *)
(* semaphore with one taker is a counting semaphore.                       *)
(*                                                                         *)
(* The three rest on SemInv.  A block list is a proper list of processes   *)
(* that wait for its semaphore (ListShape, Members); a process that waits  *)
(* is on the list, or exactly one message is on its way to it or has come  *)
(* (WakeUps); and that a sender, or the process in a mutex, is the one     *)
(* that its mailbox knows (Mutexed, WakeUps) keeps the steps of a call in  *)
(* order.                                                                  *)
EXTENDS Semaphores, Chains

Active(s) == semTable[s].status = "ACTIVE"
First(s) == semTable[s].blockedList
Waits(p) == frame[p].at \in {"asleep", "woken"}
Wakers(p) == {q \in Procs : frame[q].at = "waking" /\ frame[q].wakes = p}
Freers(s) == {q \in Procs : frame[q].at = "freeing" /\ frame[q].sem = s}
InMutex(m) == {p \in Procs : frame[p].at \in {"P", "V"} /\ semTable[frame[p].sem].mboxID = m}

(* On the list, and not sent to: semFree sends to the head before it takes *)
(* it off.                                                                 *)
Queued(s) == {p \in OnList(s) : Active(s) \/ p # First(s)}

Fits(p, f) ==
    /\ f.at \in {"user", "gone"} => f \in {NoCall, Gone}
    /\ f.at \notin {"user", "gone"} => f.sem \in Sems
    /\ f.at \in {"P", "passed", "V", "waking"} => Active(f.sem)
    /\ f.at = "P" => nextSemBlock[p] = NULL
    /\ f.at = "waking" <=> f.wakes # NULL
    /\ f.at \in {"P", "passed", "asleep", "woken"} => p \in Takers[f.sem]
FramesOK == \A p \in Procs : Fits(p, frame[p])

Freeing == \A s \in Sems :
    /\ Active(s) => Freers(s) = {}
    /\ ~Active(s) /\ First(s) # NULL => \E p \in Procs : Freers(s) = {p}
    /\ ~Active(s) /\ First(s) = NULL => Freers(s) = {}

Proper(s) == \E q \in Seq(Procs) : IsChain(q, First(s), nextSemBlock, NULL)
ListShape == \A s \in Sems : Proper(s)

(* A freed semaphore may have a process at its head that has ended.        *)
Belongs(p, f, s) ==
    \/ f.at \in {"asleep", "woken"} /\ f.sem = s
    \/ f = Gone /\ ~Active(s) /\ p = First(s)
Members == \A s \in Sems : \A p \in OnList(s) : Belongs(p, frame[p], s)

Mutexed ==
    /\ \A s \in Sems : /\ semTable[s].mboxID # NULL => mail[semTable[s].mboxID].slots = 1
                       /\ Active(s) => semTable[s].mboxID # NULL
    /\ \A m \in Mutexes :
          /\ mail[m].slots \in {0, 1} /\ mail[m].waiting = <<>>
          /\ \A i, j \in 1..Len(mail[m].sent) : mail[m].sent[i] = mail[m].sent[j] => i = j
          /\ Elements(mail[m].sent) = InMutex(m)

Unsent(p) == mail[p].sent = <<>> /\ mail[p].waiting = IF frame[p].at = "woken" THEN <<p>> ELSE <<>>

Arrived(p) ==
    /\ mail[p].waiting = <<>>
    /\ frame[p].at = "woken" => mail[p].sent = <<>>
    /\ frame[p].at = "asleep" => \E w \in Procs : mail[p].sent = <<w>> /\ frame[w].at \in {"user", "freeing"}

WakeUp(p) ==
    /\ mail[p].slots = 0
    /\ ~Waits(p) => mail[p].sent = <<>> /\ mail[p].waiting = <<>> /\ Wakers(p) = {}
    /\ \A s \in Sems : Waits(p) /\ frame[p].sem = s =>
          IF p \in Queued(s) THEN Unsent(p) /\ Wakers(p) = {}
          ELSE \/ Unsent(p) /\ \E w \in Procs : Wakers(p) = {w}
               \/ Arrived(p) /\ Wakers(p) = {}
WakeUps == \A p \in Procs : WakeUp(p)

SemInv == SemTypeOK /\ FramesOK /\ Freeing /\ ListShape /\ Members /\ Mutexed /\ WakeUps

-----------------------------------------------------------------------------
(* The mailboxes.                                                          *)
LEMMA SentIs ==
  ASSUME NEW P, NEW box \in Boxes(P), NEW p \in P
  PROVE  /\ Sent(box, p) \in Boxes(P) /\ Sent(box, p).slots = box.slots
         /\ box.waiting # <<>> => /\ Sent(box, p).waiting = Tail(box.waiting)
                                  /\ Sent(box, p).sent = box.sent
         /\ box.waiting = <<>> => /\ Sent(box, p).waiting = <<>>
                                  /\ Sent(box, p).sent = Append(box.sent, p)
  <1>1. PICK a, b : a = box.sent /\ b = box.waiting
    OBVIOUS
  <1>2. a \in Seq(P) /\ b \in Seq(P) /\ Append(a, p) \in Seq(P)
    BY <1>1, AppendProperties DEF Boxes
  <1>3. CASE b # <<>>
    <2>1. PICK t : t = Tail(b)
      OBVIOUS
    <2>2. t \in Seq(P)
      BY <1>2, <1>3, <2>1, HeadTailProperties
    <2>3. Sent(box, p) = [box EXCEPT !.waiting = t]
      BY <1>1, <1>3, <2>1 DEF Sent
    <2>4. QED
      BY <1>1, <1>3, <2>1, <2>2, <2>3 DEF Boxes
  <1>4. CASE b = <<>>
    <2>1. PICK t : t = Append(a, p)
      OBVIOUS
    <2>2. Sent(box, p) = [box EXCEPT !.sent = t]
      BY <1>1, <1>4, <2>1 DEF Sent
    <2>3. QED
      BY <1>1, <1>2, <1>4, <2>1, <2>2 DEF Boxes
  <1>5. QED
    BY <1>3, <1>4

LEMMA ReceivedIs ==
  ASSUME NEW P, NEW box \in Boxes(P), NEW p \in P
  PROVE  /\ Received(box, p) \in Boxes(P) /\ Received(box, p).slots = box.slots
         /\ box.sent # <<>> => /\ Received(box, p).sent = Tail(box.sent)
                               /\ Received(box, p).waiting = box.waiting
         /\ box.sent = <<>> => /\ Received(box, p).sent = <<>>
                               /\ Received(box, p).waiting = Append(box.waiting, p)
  <1>1. PICK a, b : a = box.sent /\ b = box.waiting
    OBVIOUS
  <1>2. a \in Seq(P) /\ b \in Seq(P) /\ Append(b, p) \in Seq(P)
    BY <1>1, AppendProperties DEF Boxes
  <1>3. CASE a # <<>>
    <2>1. PICK t : t = Tail(a)
      OBVIOUS
    <2>2. t \in Seq(P)
      BY <1>2, <1>3, <2>1, HeadTailProperties
    <2>3. Received(box, p) = [box EXCEPT !.sent = t]
      BY <1>1, <1>3, <2>1 DEF Received
    <2>4. QED
      BY <1>1, <1>3, <2>1, <2>2, <2>3 DEF Boxes
  <1>4. CASE a = <<>>
    <2>1. PICK t : t = Append(b, p)
      OBVIOUS
    <2>2. Received(box, p) = [box EXCEPT !.waiting = t]
      BY <1>1, <1>4, <2>1 DEF Received
    <2>3. QED
      BY <1>1, <1>2, <1>4, <2>1, <2>2 DEF Boxes
  <1>5. QED
    BY <1>3, <1>4

(* A process that can run is at the head of no mailbox that it waits on.   *)
LEMMA WhoRuns ==
  ASSUME SemTypeOK, NEW p \in Procs, CanRun(p)
  PROVE  /\ \A b \in SemBoxes : mail[b].waiting # <<p>>
         /\ \A b \in SemBoxes : \A i \in 1..Len(mail[b].sent) : mail[b].sent[i] = p => i <= mail[b].slots
  <1>1. ASSUME NEW b \in SemBoxes
        PROVE  /\ mail[b].waiting # <<p>>
               /\ \A i \in 1..Len(mail[b].sent) : mail[b].sent[i] = p => i <= mail[b].slots
    <2>1. PICK a, w, n : a = mail[b].sent /\ w = mail[b].waiting /\ n = mail[b].slots
      OBVIOUS
    <2>2. a \in Seq(Procs) /\ w \in Seq(Procs) /\ n \in Nat
      BY <2>1 DEF SemTypeOK, Boxes
    <2>3. /\ ~\E i \in DOMAIN w : w[i] = p
          /\ ~\E i \in DOMAIN a : i > n /\ a[i] = p
      BY <2>1 DEF CanRun, Blocked, WaitsOn, Receives, Sends
    <2>4. DOMAIN a = 1..Len(a) /\ Len(a) \in Nat
      BY <2>2, LenProperties
    <2>5. w # <<p>>
      <3>1. w = <<p>> => 1 \in DOMAIN w /\ w[1] = p
        OBVIOUS
      <3>2. QED
        BY <2>3, <3>1
    <2>6. QED
      BY <2>1, <2>2, <2>3, <2>4, <2>5
  <1>2. QED
    BY <1>1
-----------------------------------------------------------------------------
(* The block lists.                                                        *)
LEMMA ListIs ==
  ASSUME NEW s \in Sems, NEW q \in Seq(Procs), IsChain(q, First(s), nextSemBlock, NULL)
  PROVE  OnList(s) = Elements(q)
  <1>1. PICK n : n = Cardinality(Procs)
    OBVIOUS
  <1>2. n \in Nat /\ NULL \notin Procs
    BY <1>1, ProgramsAssumption, FS_CardinalityType
  <1>3. Len(q) \in Nat /\ Len(q) <= n
    BY <1>1, ProgramsAssumption, ChainFits DEF IsChain
  <1>4. PICK w : w = WalkAlong(q, n, NULL)
    OBVIOUS
  <1>5. (CHOOSE v : IsWalk(v, n, First(s), nextSemBlock, NULL)) = w
    BY <1>2, <1>4, ChosenWalk
  <1>6. OnList(s) = {w[k] : k \in DOMAIN w} \ {NULL}
    <2>1. PICK c : c = CHOOSE v : IsWalk(v, n, First(s), nextSemBlock, NULL)
      OBVIOUS
    <2>2. OnList(s) = {c[k] : k \in DOMAIN c} \ {NULL}
      BY <1>1, <2>1 DEF OnList, IsWalk, First
    <2>3. QED
      BY <1>5, <2>1, <2>2
  <1>7. DOMAIN w = 0..n /\ \A k \in 0..n : w[k] = IF k < Len(q) THEN q[k + 1] ELSE NULL
    BY <1>4 DEF WalkAlong
  <1>8. ASSUME NEW x \in OnList(s) PROVE x \in Elements(q)
    <2>1. PICK k \in 0..n : x = w[k] /\ x # NULL
      BY <1>6, <1>7
    <2>2. k < Len(q) /\ x = q[k + 1] /\ k + 1 \in 1..Len(q)
      BY <1>2, <1>3, <1>7, <2>1
    <2>3. QED
      BY <2>2 DEF Elements
  <1>9. ASSUME NEW x \in Elements(q) PROVE x \in OnList(s)
    <2>1. PICK i \in 1..Len(q) : x = q[i]
      BY DEF Elements
    <2>2. x \in Procs /\ x # NULL
      BY <1>2, <2>1, ElementsOf
    <2>3. i - 1 \in 0..n /\ i - 1 < Len(q) /\ (i - 1) + 1 = i
      BY <1>2, <1>3
    <2>4. w[i - 1] = x
      BY <1>7, <2>1, <2>3
    <2>5. QED
      BY <1>6, <1>7, <2>2, <2>3, <2>4
  <1>10. QED
    BY <1>8, <1>9

ListPrimed(s, q) == IsChain(q, First(s), nextSemBlock, NULL) => OnList(s) = Elements(q)

LEMMA NextListIs ==
  ASSUME NEW s \in Sems, NEW q \in Seq(Procs)
  PROVE  ListPrimed(s, q)'
  <1>1. ListPrimed(s, q)
    BY ListIs DEF ListPrimed
  <1>2. QED
    BY <1>1, PTL

LEMMA HeadIs ==
  ASSUME NEW s \in Sems, Proper(s)
  PROVE  /\ OnList(s) \subseteq Procs /\ NULL \notin OnList(s)
         /\ First(s) = NULL => OnList(s) = {}
         /\ First(s) # NULL => First(s) \in OnList(s)
  <1>1. PICK q \in Seq(Procs) : IsChain(q, First(s), nextSemBlock, NULL)
    BY DEF Proper
  <1>2. OnList(s) = Elements(q)
    BY <1>1, ListIs
  <1>3. Elements(q) \subseteq Procs /\ Len(q) \in Nat /\ (Len(q) = 0 <=> Elements(q) = {})
    BY ElementsOf
  <1>4. CASE Len(q) = 0
    BY <1>1, <1>2, <1>3, <1>4 DEF IsChain
  <1>5. CASE Len(q) # 0
    <2>1. First(s) = q[1] /\ 1 \in 1..Len(q)
      BY <1>1, <1>3, <1>5 DEF IsChain
    <2>2. First(s) \in Elements(q)
      BY <2>1 DEF Elements
    <2>3. QED
      BY <1>2, <1>3, <2>2, ProgramsAssumption
  <1>6. QED
    BY <1>4, <1>5

LEMMA SameList ==
  ASSUME NEW s \in Sems, Proper(s), First(s)' = First(s),
         \A x \in OnList(s) : nextSemBlock'[x] = nextSemBlock[x]
  PROVE  OnList(s)' = OnList(s) /\ Proper(s)'
  <1>1. PICK q \in Seq(Procs) : IsChain(q, First(s), nextSemBlock, NULL)
    BY DEF Proper
  <1>2. OnList(s) = Elements(q)
    BY <1>1, ListIs
  <1>3. \A i \in 1..Len(q) : nextSemBlock'[q[i]] = nextSemBlock[q[i]]
    BY <1>2 DEF Elements
  <1>4. IsChain(q, First(s)', nextSemBlock', NULL)
    BY <1>1, <1>3 DEF IsChain
  <1>5. QED
    BY <1>2, <1>4, NextListIs DEF ListPrimed, Proper

LEMMA HeadLeaves ==
  ASSUME NEW s \in Sems, Proper(s), First(s) # NULL, First(s)' = nextSemBlock[First(s)],
         nextSemBlock' = nextSemBlock
  PROVE  /\ OnList(s)' = OnList(s) \ {First(s)} /\ Proper(s)'
         /\ First(s)' = NULL \/ First(s)' \in OnList(s) \ {First(s)}
         /\ First(s)' = NULL => OnList(s) = {First(s)}
  <1>1. PICK q \in Seq(Procs) : IsChain(q, First(s), nextSemBlock, NULL)
    BY DEF Proper
  <1>2. OnList(s) = Elements(q)
    BY <1>1, ListIs
  <1>3. Len(q) # 0
    BY <1>1 DEF IsChain
  <1>4. PICK t : t = Tail(q)
    OBVIOUS
  <1>5. /\ t \in Seq(Procs) /\ IsChain(t, nextSemBlock[First(s)], nextSemBlock, NULL)
        /\ Elements(t) = Elements(q) \ {First(s)}
    BY <1>1, <1>3, <1>4, ChainLosesHead
  <1>6. IsChain(t, First(s)', nextSemBlock', NULL)
    BY <1>5
  <1>7. OnList(s)' = Elements(t) /\ Proper(s)'
    BY <1>5, <1>6, NextListIs DEF ListPrimed, Proper
  <1>8. /\ First(s)' = NULL => Len(t) = 0
        /\ First(s)' # NULL => First(s)' = t[1] /\ 1 \in 1..Len(t)
    <2>1. Len(t) \in Nat /\ \A i \in 1..Len(t) : t[i] \in Procs
      BY <1>5, ElementsOf
    <2>2. First(s)' = IF Len(t) = 0 THEN NULL ELSE t[1]
      BY <1>6 DEF IsChain
    <2>3. CASE Len(t) = 0
      BY <2>2, <2>3
    <2>4. CASE Len(t) # 0
      <3>1. 1 \in 1..Len(t)
        BY <2>1, <2>4
      <3>2. QED
        BY <2>1, <2>2, <2>4, <3>1, ProgramsAssumption
    <2>5. QED
      BY <2>3, <2>4
  <1>9. First(s)' = NULL \/ First(s)' \in Elements(t)
    BY <1>8 DEF Elements
  <1>10. First(s)' = NULL => Elements(t) = {}
    BY <1>5, <1>8, ElementsOf
  <1>11. First(s) \in OnList(s)
    BY HeadIs
  <1>12. QED
    BY <1>2, <1>5, <1>7, <1>9, <1>10, <1>11

LEMMA ListBegins ==
  ASSUME NEW s \in Sems, NEW p \in Procs, First(s)' = p, nextSemBlock' = nextSemBlock, nextSemBlock[p] = NULL
  PROVE  OnList(s)' = {p} /\ Proper(s)'
  <1>1. PICK q : q = <<p>>
    OBVIOUS
  <1>2. q \in Seq(Procs) /\ IsChain(q, p, nextSemBlock, NULL) /\ Elements(q) = {p}
    BY <1>1, ChainBegins
  <1>3. IsChain(q, First(s)', nextSemBlock', NULL)
    BY <1>2
  <1>4. QED
    BY <1>2, <1>3, NextListIs DEF ListPrimed, Proper

LEMMA ListGrows ==
  ASSUME NEW s \in Sems, Proper(s), nextSemBlock \in [Procs -> Procs \cup {NULL}],
         NEW p \in Procs, p \notin OnList(s), nextSemBlock[p] = NULL,
         NEW last \in OnList(s), nextSemBlock[last] = NULL,
         nextSemBlock' = [nextSemBlock EXCEPT ![last] = p], First(s)' = First(s)
  PROVE  OnList(s)' = OnList(s) \cup {p} /\ Proper(s)'
  <1>1. PICK q \in Seq(Procs) : IsChain(q, First(s), nextSemBlock, NULL)
    BY DEF Proper
  <1>2. OnList(s) = Elements(q)
    BY <1>1, ListIs
  <1>3. PICK k \in 1..Len(q) : q[k] = last
    BY <1>2 DEF Elements
  <1>4. last \in Procs /\ last # p
    BY HeadIs
  <1>5. PICK next2 : next2 = nextSemBlock'
    OBVIOUS
  <1>6. PutBehind(q, k, p, nextSemBlock, next2)
    <2>1. next2[q[k]] = p /\ next2[p] = nextSemBlock[q[k]]
      BY <1>3, <1>4, <1>5
    <2>2. ASSUME NEW i \in 1..Len(q), i # k PROVE next2[q[i]] = nextSemBlock[q[i]]
      <3>1. q[i] # last /\ q[i] \in Procs
        BY <1>1, <1>3, <2>2, ElementsOf DEF IsChain
      <3>2. QED
        BY <1>5, <3>1
    <2>3. QED
      BY <2>1, <2>2 DEF PutBehind
  <1>7. PICK t : t = Inserted(q, k, p)
    OBVIOUS
  <1>8. p \notin Elements(q)
    BY <1>2
  <1>9. t \in Seq(Procs) /\ IsChain(t, First(s), next2, NULL)
    BY <1>1, <1>6, <1>7, <1>8, ChainGrows
  <1>10. Elements(t) = Elements(q) \cup {p}
    BY <1>7, GrownElements
  <1>11. IsChain(t, First(s)', nextSemBlock', NULL)
    BY <1>5, <1>9
  <1>12. QED
    BY <1>2, <1>9, <1>10, <1>11, NextListIs DEF ListPrimed, Proper
-----------------------------------------------------------------------------
(* What the pieces of a step do.                                           *)
LEMMA BoxesAre ==
  /\ Procs \subseteq SemBoxes /\ Mutexes \subseteq SemBoxes /\ NULL \notin SemBoxes
  /\ Procs \cap Mutexes = {} /\ Mutexes \subseteq Nat /\ NULL \notin Procs
  BY ProgramsAssumption, SemAssumption DEF SemBoxes, Mutexes

LEMMA SendDoes ==
  ASSUME SemTypeOK, NEW p \in Procs, NEW b \in SemBoxes, Send(p, b)
  PROVE  /\ mail' \in [SemBoxes -> Boxes(Procs)]
         /\ mail'[b].slots = mail[b].slots
         /\ mail[b].waiting # <<>> => /\ mail'[b].waiting = Tail(mail[b].waiting)
                                      /\ mail'[b].sent = mail[b].sent
         /\ mail[b].waiting = <<>> => /\ mail'[b].waiting = <<>>
                                      /\ mail'[b].sent = Append(mail[b].sent, p)
         /\ \A c \in SemBoxes \ {b} : mail'[c] = mail[c]
  <1>1. PICK box : box = mail[b]
    OBVIOUS
  <1>2. PICK after : after = Sent(box, p)
    OBVIOUS
  <1>3. box \in Boxes(Procs) /\ mail \in [SemBoxes -> Boxes(Procs)]
    BY <1>1 DEF SemTypeOK
  <1>4. /\ after \in Boxes(Procs) /\ after.slots = box.slots
        /\ box.waiting # <<>> => after.waiting = Tail(box.waiting) /\ after.sent = box.sent
        /\ box.waiting = <<>> => after.waiting = <<>> /\ after.sent = Append(box.sent, p)
    BY <1>2, <1>3, SentIs
  <1>5. mail' = [mail EXCEPT ![b] = after]
    BY <1>1, <1>2 DEF Send
  <1>6. mail' \in [SemBoxes -> Boxes(Procs)] /\ mail'[b] = after /\ \A c \in SemBoxes \ {b} : mail'[c] = mail[c]
    BY <1>3, <1>4, <1>5
  <1>7. QED
    BY <1>1, <1>4, <1>6

LEMMA ReceiveDoes ==
  ASSUME SemTypeOK, NEW p \in Procs, NEW b \in SemBoxes, Receive(p, b)
  PROVE  /\ mail' \in [SemBoxes -> Boxes(Procs)]
         /\ mail'[b].slots = mail[b].slots
         /\ mail[b].sent # <<>> => /\ mail'[b].sent = Tail(mail[b].sent)
                                   /\ mail'[b].waiting = mail[b].waiting
         /\ mail[b].sent = <<>> => /\ mail'[b].sent = <<>>
                                   /\ mail'[b].waiting = Append(mail[b].waiting, p)
         /\ \A c \in SemBoxes \ {b} : mail'[c] = mail[c]
  <1>1. PICK box : box = mail[b]
    OBVIOUS
  <1>2. PICK after : after = Received(box, p)
    OBVIOUS
  <1>3. box \in Boxes(Procs) /\ mail \in [SemBoxes -> Boxes(Procs)]
    BY <1>1 DEF SemTypeOK
  <1>4. /\ after \in Boxes(Procs) /\ after.slots = box.slots
        /\ box.sent # <<>> => after.sent = Tail(box.sent) /\ after.waiting = box.waiting
        /\ box.sent = <<>> => after.sent = <<>> /\ after.waiting = Append(box.waiting, p)
    BY <1>2, <1>3, ReceivedIs
  <1>5. mail' = [mail EXCEPT ![b] = after]
    BY <1>1, <1>2 DEF Receive
  <1>6. mail' \in [SemBoxes -> Boxes(Procs)] /\ mail'[b] = after /\ \A c \in SemBoxes \ {b} : mail'[c] = mail[c]
    BY <1>3, <1>4, <1>5
  <1>7. QED
    BY <1>1, <1>4, <1>6

(* The entry of s becomes e, and the others stay.                          *)
EntryTo(s, st, c, first, box) ==
    /\ semTable' \in [Sems -> Semaphore]
    /\ semTable'[s].status = st /\ semTable'[s].count = c
    /\ semTable'[s].blockedList = first /\ semTable'[s].mboxID = box
    /\ \A r \in Sems \ {s} : semTable'[r] = semTable[r]

LEMMA EntryReplaced ==
  ASSUME SemTypeOK, NEW s \in Sems, NEW st \in {"EMPTY", "ACTIVE"}, NEW c \in Int,
         NEW first \in Procs \cup {NULL}, NEW box \in Mutexes \cup {NULL},
         semTable' = [semTable EXCEPT
                        ![s] = [status |-> st, count |-> c, blockedList |-> first, mboxID |-> box]]
  PROVE  EntryTo(s, st, c, first, box)
  <1>1. PICK e : e = [status |-> st, count |-> c, blockedList |-> first, mboxID |-> box]
    OBVIOUS
  <1>2. /\ e \in Semaphore /\ e.status = st /\ e.count = c /\ e.blockedList = first /\ e.mboxID = box
        /\ semTable \in [Sems -> Semaphore]
    BY <1>1 DEF Semaphore, SemTypeOK
  <1>3. semTable' = [semTable EXCEPT ![s] = e]
    BY <1>1
  <1>4. /\ semTable' \in [Sems -> Semaphore] /\ semTable'[s] = e
        /\ \A r \in Sems \ {s} : semTable'[r] = semTable[r]
    BY <1>2, <1>3
  <1>5. QED
    BY <1>2, <1>4 DEF EntryTo

LEMMA EntryIs ==
  ASSUME SemTypeOK, NEW s \in Sems
  PROVE  /\ semTable[s] = [status |-> semTable[s].status, count |-> semTable[s].count,
                           blockedList |-> semTable[s].blockedList, mboxID |-> semTable[s].mboxID]
         /\ semTable[s].status \in {"EMPTY", "ACTIVE"} /\ semTable[s].count \in Int
         /\ semTable[s].blockedList \in Procs \cup {NULL} /\ semTable[s].mboxID \in Mutexes \cup {NULL}
  <1>1. PICK e : e = semTable[s]
    OBVIOUS
  <1>2. e \in Semaphore
    BY <1>1 DEF SemTypeOK
  <1>3. QED
    BY <1>1, <1>2 DEF Semaphore

(* The sets of processes that stand somewhere, after p has moved on.       *)
LEMMA SetsMove ==
  ASSUME SemTypeOK, NEW p \in Procs, NEW f \in CallFrames, CallGoes(p, f)
  PROVE  /\ frame' \in [Procs -> CallFrames] /\ frame'[p] = f
         /\ \A x \in Procs \ {p} : frame'[x] = frame[x]
         /\ \A x : Wakers(x)' = IF f.at = "waking" /\ f.wakes = x THEN Wakers(x) \cup {p}
                                ELSE Wakers(x) \ {p}
         /\ \A s : Freers(s)' = IF f.at = "freeing" /\ f.sem = s THEN Freers(s) \cup {p}
                                ELSE Freers(s) \ {p}
         /\ \A s : Inside(s)' = IF f.sem = s THEN Inside(s) \cup {p} ELSE Inside(s) \ {p}
  <1>1. /\ frame' \in [Procs -> CallFrames] /\ frame'[p] = f
        /\ \A x \in Procs \ {p} : frame'[x] = frame[x]
    BY DEF CallGoes, SemTypeOK
  <1>2. ASSUME NEW x PROVE Wakers(x)' = IF f.at = "waking" /\ f.wakes = x THEN Wakers(x) \cup {p}
                                        ELSE Wakers(x) \ {p}
    BY <1>1 DEF Wakers
  <1>3. ASSUME NEW s PROVE Freers(s)' = IF f.at = "freeing" /\ f.sem = s THEN Freers(s) \cup {p}
                                        ELSE Freers(s) \ {p}
    BY <1>1 DEF Freers
  <1>4. ASSUME NEW s PROVE Inside(s)' = IF f.sem = s THEN Inside(s) \cup {p} ELSE Inside(s) \ {p}
    BY <1>1 DEF Inside
  <1>5. QED
    BY <1>1, <1>2, <1>3, <1>4

LEMMA FieldSet ==
  ASSUME NEW e \in Semaphore
  PROVE  /\ \A c : [e EXCEPT !.count = c] =
                     [status |-> e.status, count |-> c, blockedList |-> e.blockedList, mboxID |-> e.mboxID]
         /\ \A f : [e EXCEPT !.blockedList = f] =
                     [status |-> e.status, count |-> e.count, blockedList |-> f, mboxID |-> e.mboxID]
         /\ \A t : [e EXCEPT !.status = t] =
                     [status |-> t, count |-> e.count, blockedList |-> e.blockedList, mboxID |-> e.mboxID]
  <1>1. ASSUME NEW c PROVE [e EXCEPT !.count = c] =
                     [status |-> e.status, count |-> c, blockedList |-> e.blockedList, mboxID |-> e.mboxID]
    BY DEF Semaphore
  <1>2. ASSUME NEW f PROVE [e EXCEPT !.blockedList = f] =
                     [status |-> e.status, count |-> e.count, blockedList |-> f, mboxID |-> e.mboxID]
    BY DEF Semaphore
  <1>3. ASSUME NEW t PROVE [e EXCEPT !.status = t] =
                     [status |-> t, count |-> e.count, blockedList |-> e.blockedList, mboxID |-> e.mboxID]
    BY DEF Semaphore
  <1>4. QED
    BY <1>1, <1>2, <1>3

LEMMA CountSet ==
  ASSUME SemTypeOK, NEW s \in Sems, NEW c \in Int, semTable' = [semTable EXCEPT ![s].count = c]
  PROVE  EntryTo(s, semTable[s].status, c, First(s), semTable[s].mboxID)
  <1>1. PICK e : e = semTable[s]
    OBVIOUS
  <1>2. e \in Semaphore
    BY <1>1 DEF SemTypeOK
  <1>3. semTable' = [semTable EXCEPT ![s] = [e EXCEPT !.count = c]]
    BY <1>1
  <1>4. semTable' = [semTable EXCEPT ![s] = [status |-> e.status, count |-> c,
                                             blockedList |-> e.blockedList, mboxID |-> e.mboxID]]
    BY <1>2, <1>3, FieldSet
  <1>5. QED
    BY <1>1, <1>4, EntryIs, EntryReplaced DEF First

LEMMA FirstSet ==
  ASSUME SemTypeOK, NEW s \in Sems, NEW f \in Procs \cup {NULL},
         semTable' = [semTable EXCEPT ![s].blockedList = f]
  PROVE  EntryTo(s, semTable[s].status, semTable[s].count, f, semTable[s].mboxID)
  <1>1. PICK e : e = semTable[s]
    OBVIOUS
  <1>2. e \in Semaphore
    BY <1>1 DEF SemTypeOK
  <1>3. semTable' = [semTable EXCEPT ![s] = [e EXCEPT !.blockedList = f]]
    BY <1>1
  <1>4. semTable' = [semTable EXCEPT ![s] = [status |-> e.status, count |-> e.count,
                                             blockedList |-> f, mboxID |-> e.mboxID]]
    BY <1>2, <1>3, FieldSet
  <1>5. QED
    BY <1>1, <1>4, EntryIs, EntryReplaced

LEMMA StatusSet ==
  ASSUME SemTypeOK, NEW s \in Sems, semTable' = [semTable EXCEPT ![s].status = "EMPTY"]
  PROVE  EntryTo(s, "EMPTY", semTable[s].count, First(s), semTable[s].mboxID)
  <1>1. PICK e : e = semTable[s]
    OBVIOUS
  <1>2. e \in Semaphore
    BY <1>1 DEF SemTypeOK
  <1>3. semTable' = [semTable EXCEPT ![s] = [e EXCEPT !.status = "EMPTY"]]
    BY <1>1
  <1>4. semTable' = [semTable EXCEPT ![s] = [status |-> "EMPTY", count |-> e.count,
                                             blockedList |-> e.blockedList, mboxID |-> e.mboxID]]
    BY <1>2, <1>3, FieldSet
  <1>5. QED
    BY <1>1, <1>4, EntryIs, EntryReplaced DEF First

LEMMA PostedSet ==
  ASSUME SemTypeOK, NEW s \in Sems, semTable' = [semTable EXCEPT ![s] = Posted(s)]
  PROVE  EntryTo(s, semTable[s].status, semTable[s].count + 1,
                 IF First(s) = NULL THEN NULL ELSE nextSemBlock[First(s)], semTable[s].mboxID)
  <1>1. PICK e, f, c : /\ e = semTable[s] /\ c = semTable[s].count + 1
                       /\ f = IF First(s) = NULL THEN NULL ELSE nextSemBlock[First(s)]
    OBVIOUS
  <1>2. e \in Semaphore /\ c \in Int /\ f \in Procs \cup {NULL}
    <2>1. e \in Semaphore /\ c \in Int /\ First(s) \in Procs \cup {NULL}
      BY <1>1, EntryIs DEF SemTypeOK, First
    <2>2. First(s) # NULL => nextSemBlock[First(s)] \in Procs \cup {NULL}
      BY <2>1 DEF SemTypeOK
    <2>3. QED
      BY <1>1, <2>1, <2>2
  <1>3. Posted(s) = [e EXCEPT !.count = c, !.blockedList = f]
    <2>1. PICK g : g = e.blockedList
      OBVIOUS
    <2>2. f = IF g = NULL THEN NULL ELSE nextSemBlock[g]
      BY <1>1, <2>1 DEF First
    <2>3. Posted(s) = [e EXCEPT !.count = c, !.blockedList = IF g = NULL THEN NULL ELSE nextSemBlock[g]]
      BY <1>1, <2>1 DEF Posted
    <2>4. QED
      BY <2>2, <2>3
  <1>4. PICK d : d = [e EXCEPT !.count = c]
    OBVIOUS
  <1>5. /\ d \in Semaphore /\ d.status = e.status /\ d.count = c /\ d.mboxID = e.mboxID
        /\ Posted(s) = [d EXCEPT !.blockedList = f]
    BY <1>2, <1>3, <1>4 DEF Semaphore
  <1>6. semTable' = [semTable EXCEPT ![s] = [status |-> d.status, count |-> d.count,
                                             blockedList |-> f, mboxID |-> d.mboxID]]
    BY <1>5, FieldSet
  <1>7. EntryTo(s, e.status, c, f, e.mboxID)
    <2>1. semTable' = [semTable EXCEPT ![s] = [status |-> e.status, count |-> c,
                                               blockedList |-> f, mboxID |-> e.mboxID]]
      BY <1>5, <1>6
    <2>2. e.status \in {"EMPTY", "ACTIVE"} /\ e.mboxID \in Mutexes \cup {NULL}
      BY <1>2 DEF Semaphore
    <2>3. QED
      BY <1>2, <2>1, <2>2, EntryReplaced
  <1>8. QED
    BY <1>1, <1>7

LEMMA CreatedSet ==
  ASSUME SemTypeOK, NEW s \in Sems, NEW value \in Values, NEW m \in Mutexes,
         semTable' = [semTable EXCEPT ![s] = Created(s, value, m)]
  PROVE  EntryTo(s, "ACTIVE", value, NULL, m)
  BY SemAssumption, EntryReplaced DEF Created

-----------------------------------------------------------------------------
(* Steps that leave the block lists alone.                                 *)
TableStays ==
    /\ nextSemBlock' = nextSemBlock
    /\ \A s \in Sems : /\ semTable'[s].blockedList = semTable[s].blockedList
                       /\ semTable'[s].status = semTable[s].status
                       /\ semTable'[s].mboxID = semTable[s].mboxID

LEMMA FramesStay ==
  ASSUME SemTypeOK, FramesOK, NEW p \in Procs, NEW f \in CallFrames, CallGoes(p, f), Fits(p, f)',
         \A x \in Procs \ {p} : /\ frame[x].at \in {"P", "passed", "V", "waking"} /\ Active(frame[x].sem)
                                      => semTable'[frame[x].sem].status = "ACTIVE"
                                /\ frame[x].at = "P" => nextSemBlock'[x] = nextSemBlock[x]
  PROVE  FramesOK'
  <1>1. ASSUME NEW x \in Procs PROVE Fits(x, frame[x])'
    <2>1. PICK g : g = frame'[x]
      OBVIOUS
    <2>2. CASE x = p
      <3>1. g = f
        BY <2>1, <2>2, SetsMove
      <3>2. QED
        BY <2>1, <2>2, <3>1 DEF Fits, Active
    <2>3. CASE x # p
      <3>1. g = frame[x]
        BY <2>1, <2>3, SetsMove
      <3>2. Fits(x, g)
        BY <3>1 DEF FramesOK
      <3>3. QED
        BY <2>1, <2>3, <3>1, <3>2 DEF Fits, Active
    <2>4. QED
      BY <2>2, <2>3
  <1>2. QED
    BY <1>1 DEF FramesOK

LEMMA QuietLists ==
  ASSUME ListShape, TableStays
  PROVE  ListShape' /\ \A s \in Sems : OnList(s)' = OnList(s) /\ Queued(s)' = Queued(s)
  <1>1. ASSUME NEW s \in Sems PROVE OnList(s)' = OnList(s) /\ Proper(s)'
    BY SameList DEF TableStays, ListShape, First
  <1>2. ASSUME NEW s \in Sems PROVE Queued(s)' = Queued(s)
    BY <1>1 DEF TableStays, Queued, Active, First
  <1>3. QED
    BY <1>1, <1>2 DEF ListShape

LEMMA QuietStep ==
  ASSUME SemInv, NEW p \in Procs, NEW f \in CallFrames, CallGoes(p, f), TableStays,
         frame[p].at # "freeing", f.at # "freeing", Fits(p, f),
         \A s \in Sems : p \in OnList(s) => Belongs(p, f, s)
  PROVE  FramesOK' /\ Freeing' /\ ListShape' /\ Members'
  <1>1. /\ frame' \in [Procs -> CallFrames] /\ frame'[p] = f
        /\ \A x \in Procs \ {p} : frame'[x] = frame[x]
    BY SetsMove DEF SemInv
  <1>2. FramesOK'
    <2>1. Fits(p, f)'
      BY DEF Fits, TableStays, Active
    <2>2. ASSUME NEW x \in Procs, frame[x].at \in {"P", "passed", "V", "waking"}, Active(frame[x].sem)
          PROVE  semTable'[frame[x].sem].status = "ACTIVE"
      <3>1. frame[x].sem \in Sems
        BY <2>2 DEF SemInv, FramesOK, Fits
      <3>2. QED
        BY <2>2, <3>1 DEF TableStays, Active
    <2>3. QED
      BY <2>1, <2>2, FramesStay DEF SemInv, TableStays
  <1>3. ListShape' /\ \A s \in Sems : OnList(s)' = OnList(s)
    BY QuietLists DEF SemInv
  <1>4. Freeing'
    <2>1. ASSUME NEW s \in Sems PROVE Freers(s)' = Freers(s)
      <3>1. p \notin Freers(s)
        BY DEF Freers
      <3>2. Freers(s)' = Freers(s) \ {p}
        BY SetsMove DEF SemInv
      <3>3. QED
        BY <3>1, <3>2
    <2>2. QED
      BY <2>1 DEF SemInv, Freeing, TableStays, Active, First
  <1>5. ASSUME NEW s \in Sems, NEW x \in OnList(s)' PROVE Belongs(x, frame[x], s)'
    <2>1. x \in OnList(s) /\ x \in Procs
      BY <1>3, HeadIs DEF SemInv, ListShape
    <2>2. PICK g : g = frame'[x]
      OBVIOUS
    <2>3. Belongs(x, g, s)
      BY <1>1, <2>1, <2>2 DEF SemInv, Members
    <2>4. QED
      BY <2>2, <2>3 DEF Belongs, TableStays, Active, First
  <1>6. Members'
    BY <1>5 DEF Members
  <1>7. QED
    BY <1>2, <1>3, <1>4, <1>6
-----------------------------------------------------------------------------
(* Who is not concerned in a step.                                         *)
LEMMA OthersWakeUp ==
  ASSUME SemInv, NEW p \in Procs, NEW f \in CallFrames, CallGoes(p, f), CanRun(p),
         NEW x \in Procs \ {p}, mail'[x] = mail[x], Wakers(x)' = Wakers(x),
         \A s \in Sems : Waits(x) /\ frame[x].sem = s => (x \in Queued(s)' <=> x \in Queued(s))
  PROVE  WakeUp(x)'
  <1>1. \A y \in Procs \ {p} : frame'[y] = frame[y]
    BY SetsMove DEF SemInv
  <1>2. frame'[x] = frame[x]
    BY <1>1
  <1>3. Waits(x)' = Waits(x) /\ Unsent(x)' = Unsent(x)
    BY <1>2 DEF Waits, Unsent
  <1>4. WakeUp(x)
    BY DEF SemInv, WakeUps
  <1>5. ASSUME Arrived(x) PROVE Arrived(x)'
    <2>1. ASSUME NEW w \in Procs, mail[x].sent = <<w>> PROVE w # p
      <3>1. 1 \in 1..Len(mail[x].sent) /\ mail[x].sent[1] = w /\ mail[x].slots = 0 /\ x \in SemBoxes
        BY <1>4, <2>1, BoxesAre DEF WakeUp
      <3>2. ~(1 <= mail[x].slots)
        BY <3>1
      <3>3. QED
        BY <3>1, <3>2, WhoRuns DEF SemInv
    <2>2. QED
      BY <1>1, <1>2, <1>5, <2>1 DEF Arrived
  <1>6. QED
    BY <1>2, <1>3, <1>4, <1>5 DEF WakeUp

LEMMA ActorWakeUp ==
  ASSUME SemInv, NEW p \in Procs, NEW f \in CallFrames, CallGoes(p, f),
         ~Waits(p), f.at \notin {"asleep", "woken"}, f.wakes # p, mail'[p] = mail[p]
  PROVE  WakeUp(p)'
  <1>1. frame'[p] = f
    BY SetsMove DEF SemInv
  <1>2. WakeUp(p) /\ Wakers(p)' = Wakers(p) \ {p}
    BY SetsMove DEF SemInv, WakeUps
  <1>3. QED
    BY <1>1, <1>2 DEF WakeUp, Waits

LEMMA MutexesStay ==
  ASSUME SemInv, NEW p \in Procs, NEW f \in CallFrames, CallGoes(p, f),
         frame[p].at \notin {"P", "V"}, f.at \notin {"P", "V"},
         \A m \in Mutexes : mail'[m] = mail[m],
         \A s \in Sems : /\ semTable'[s].mboxID = semTable[s].mboxID
                         /\ semTable'[s].status \in {semTable[s].status, "EMPTY"}
  PROVE  Mutexed'
  <1>1. frame'[p] = f /\ \A x \in Procs \ {p} : frame'[x] = frame[x]
    BY SetsMove DEF SemInv
  <1>2. ASSUME NEW s \in Sems PROVE /\ semTable'[s].mboxID # NULL => mail'[semTable'[s].mboxID].slots = 1
                                    /\ Active(s)' => semTable'[s].mboxID # NULL
    <2>1. semTable[s].mboxID # NULL => semTable[s].mboxID \in Mutexes
      BY EntryIs DEF SemInv
    <2>2. QED
      BY <2>1 DEF SemInv, Mutexed, Active
  <1>3. ASSUME NEW m \in Mutexes PROVE InMutex(m)' = InMutex(m)
    <2>1. \A x \in Procs : frame[x].at \in {"P", "V"} => frame[x].sem \in Sems
      BY DEF SemInv, FramesOK, Fits
    <2>2. QED
      BY <1>1, <2>1 DEF InMutex
  <1>4. QED
    BY <1>2, <1>3 DEF SemInv, Mutexed

LEMMA FrameKinds ==
  /\ NoCall \in CallFrames /\ Gone \in CallFrames
  /\ NoCall = [at |-> "user", sem |-> NULL, wakes |-> NULL]
  /\ Gone = [at |-> "gone", sem |-> NULL, wakes |-> NULL]
  /\ \A s \in Sems, l \in {"P", "asleep", "woken", "passed", "V", "freeing"} :
        Calling(l, s, NULL) \in CallFrames
  /\ \A s \in Sems, q \in Procs : Calling("waking", s, q) \in CallFrames
  /\ \A l, s, q : Calling(l, s, q) = [at |-> l, sem |-> s, wakes |-> q]
  BY DEF NoCall, Gone, Calling, CallFrames

(* A process in a program of its own is on no list, and in no mailbox.     *)
LEMMA Outside ==
  ASSUME SemInv, NEW p \in Procs, frame[p].at \notin {"asleep", "woken", "gone"}, NEW s \in Sems
  PROVE  p \notin OnList(s)
  BY FrameKinds DEF SemInv, Members, Belongs

(* Entering the mutex of a semaphore.                                      *)
LEMMA MutexOf ==
  ASSUME SemInv, NEW s \in Sems, Active(s)
  PROVE  semTable[s].mboxID \in Mutexes
  BY EntryIs DEF SemInv, Mutexed

LEMMA EnterKeepsMutexes ==
  ASSUME SemInv, NEW p \in Procs, frame[p] = NoCall, NEW s \in Sems, Active(s), NEW l \in {"P", "V"},
         CallGoes(p, Calling(l, s, NULL)), Enter(p, s), semTable' = semTable
  PROVE  /\ mail' \in [SemBoxes -> Boxes(Procs)] /\ Mutexed'
         /\ \A x \in Procs : mail'[x] = mail[x]
  <1>1. PICK m : m = semTable[s].mboxID
    OBVIOUS
  <1>2. m \in Mutexes /\ m \in SemBoxes /\ mail[m].waiting = <<>>
    BY <1>1, MutexOf, BoxesAre DEF SemInv, Mutexed
  <1>3. /\ mail' \in [SemBoxes -> Boxes(Procs)] /\ mail'[m].slots = mail[m].slots
        /\ mail'[m].waiting = <<>> /\ mail'[m].sent = Append(mail[m].sent, p)
        /\ \A c \in SemBoxes \ {m} : mail'[c] = mail[c]
    BY <1>1, <1>2, SendDoes DEF SemInv, Enter
  <1>4. \A x \in Procs : mail'[x] = mail[x]
    BY <1>2, <1>3, BoxesAre
  <1>5. PICK f : f = Calling(l, s, NULL)
    OBVIOUS
  <1>6. f \in CallFrames /\ f.at = l /\ f.sem = s
    BY <1>5, FrameKinds
  <1>7. frame'[p] = f /\ \A x \in Procs \ {p} : frame'[x] = frame[x]
    BY <1>5, <1>6, SetsMove DEF SemInv
  <1>8. p \notin InMutex(m) /\ frame[p].at = "user"
    BY FrameKinds DEF InMutex
  <1>9. PICK a, b : a = mail[m].sent /\ b = mail'[m].sent
    OBVIOUS
  <1>10. /\ a \in Seq(Procs) /\ b = Append(a, p) /\ Elements(a) = InMutex(m)
         /\ \A i, j \in 1..Len(a) : a[i] = a[j] => i = j
    BY <1>2, <1>3, <1>9 DEF SemInv, SemTypeOK, Boxes, Mutexed
  <1>11. /\ Len(a) \in Nat /\ Len(b) = Len(a) + 1 /\ b[Len(a) + 1] = p
         /\ \A i \in 1..Len(a) : b[i] = a[i] /\ a[i] # p
    BY <1>8, <1>10, AppendProperties, LenProperties DEF Elements
  <1>12. \A i, j \in 1..Len(b) : b[i] = b[j] => i = j
    BY <1>10, <1>11
  <1>13. Elements(b) = Elements(a) \cup {p}
    <2>1. ASSUME NEW x \in Elements(b) PROVE x \in Elements(a) \cup {p}
      BY <1>11 DEF Elements
    <2>2. ASSUME NEW x \in Elements(a) PROVE x \in Elements(b)
      BY <1>11 DEF Elements
    <2>3. p \in Elements(b)
      BY <1>11 DEF Elements
    <2>4. QED
      BY <2>1, <2>2, <2>3
  <1>14. ASSUME NEW k \in Mutexes
         PROVE  InMutex(k)' = IF k = m THEN InMutex(k) \cup {p} ELSE InMutex(k)
    BY <1>1, <1>6, <1>7, <1>8 DEF InMutex
  <1>15. ASSUME NEW k \in Mutexes
         PROVE  /\ mail'[k].slots \in {0, 1} /\ mail'[k].waiting = <<>>
                /\ \A i, j \in 1..Len(mail'[k].sent) : mail'[k].sent[i] = mail'[k].sent[j] => i = j
                /\ Elements(mail'[k].sent) = InMutex(k)'
    <2>1. CASE k = m
      <3>1. InMutex(k)' = Elements(b)
        BY <1>10, <1>13, <1>14, <2>1
      <3>2. QED
        BY <1>2, <1>3, <1>9, <1>12, <2>1, <3>1 DEF SemInv, Mutexed
    <2>2. CASE k # m
      <3>1. mail'[k] = mail[k] /\ InMutex(k)' = InMutex(k)
        BY <1>3, <1>14, <2>2, BoxesAre
      <3>2. QED
        BY <3>1 DEF SemInv, Mutexed
    <2>3. QED
      BY <2>1, <2>2
  <1>16. ASSUME NEW r \in Sems
         PROVE  /\ semTable'[r].mboxID # NULL => mail'[semTable'[r].mboxID].slots = 1
                /\ Active(r)' => semTable'[r].mboxID # NULL
    <2>1. semTable[r].mboxID # NULL => semTable[r].mboxID \in Mutexes /\ semTable[r].mboxID \in SemBoxes
      BY EntryIs, BoxesAre DEF SemInv
    <2>2. QED
      BY <1>3, <2>1 DEF SemInv, Mutexed, Active
  <1>17. QED
    BY <1>3, <1>4, <1>15, <1>16 DEF Mutexed

(* Leaving it: whoever is in the mutex is the first of its mailbox.        *)
LEMMA TailElements ==
  ASSUME NEW a \in Seq(Procs), a # <<>>, \A i, j \in 1..Len(a) : a[i] = a[j] => i = j
  PROVE  /\ Tail(a) \in Seq(Procs) /\ Elements(Tail(a)) = Elements(a) \ {a[1]}
         /\ \A i, j \in 1..Len(Tail(a)) : Tail(a)[i] = Tail(a)[j] => i = j
  <1>1. PICK t : t = Tail(a)
    OBVIOUS
  <1>2. /\ t \in Seq(Procs) /\ Len(a) \in Nat /\ Len(a) # 0 /\ Len(t) = Len(a) - 1
        /\ \A i \in 1..Len(t) : t[i] = a[i + 1]
    BY <1>1, HeadTailProperties, LenProperties
  <1>3. \A i, j \in 1..Len(t) : t[i] = t[j] => i = j
    BY <1>2
  <1>4. ASSUME NEW x \in Elements(t) PROVE x \in Elements(a) /\ x # a[1]
    <2>1. PICK i \in 1..Len(t) : x = t[i]
      BY DEF Elements
    <2>2. i + 1 \in 1..Len(a) /\ x = a[i + 1] /\ 1 \in 1..Len(a) /\ i + 1 # 1
      BY <1>2, <2>1
    <2>3. QED
      BY <2>2 DEF Elements
  <1>5. ASSUME NEW x \in Elements(a), x # a[1] PROVE x \in Elements(t)
    <2>1. PICK i \in 1..Len(a) : x = a[i]
      BY DEF Elements
    <2>2. i - 1 \in 1..Len(t) /\ t[i - 1] = x
      BY <1>2, <1>5, <2>1
    <2>3. QED
      BY <2>2 DEF Elements
  <1>6. QED
    BY <1>1, <1>2, <1>3, <1>4, <1>5

LEMMA LeaveKeepsMutexes ==
  ASSUME SemInv, NEW p \in Procs, NEW s \in Sems, frame[p].at \in {"P", "V"}, frame[p].sem = s, CanRun(p),
         NEW f \in CallFrames, f.at \notin {"P", "V"}, CallGoes(p, f), Leave(p, s),
         \A r \in Sems : /\ semTable'[r].mboxID = semTable[r].mboxID
                         /\ semTable'[r].status = semTable[r].status
  PROVE  /\ mail' \in [SemBoxes -> Boxes(Procs)] /\ Mutexed'
         /\ \A x \in Procs : mail'[x] = mail[x]
  <1>1. PICK m : m = semTable[s].mboxID
    OBVIOUS
  <1>2. Active(s)
    BY DEF SemInv, FramesOK, Fits
  <1>3. m \in Mutexes /\ m \in SemBoxes
    BY <1>1, <1>2, MutexOf, BoxesAre
  <1>4. PICK a : a = mail[m].sent
    OBVIOUS
  <1>5. /\ a \in Seq(Procs) /\ Elements(a) = InMutex(m) /\ mail[m].slots \in {0, 1} /\ mail[m].waiting = <<>>
        /\ \A i, j \in 1..Len(a) : a[i] = a[j] => i = j
    BY <1>3, <1>4 DEF SemInv, SemTypeOK, Boxes, Mutexed
  <1>6. p \in Elements(a)
    BY <1>1, <1>5 DEF InMutex
  <1>7. PICK i \in 1..Len(a) : a[i] = p
    BY <1>6 DEF Elements
  <1>8. i = 1 /\ a[1] = p /\ a # <<>>
    <2>1. i <= mail[m].slots /\ Len(a) \in Nat
      BY <1>3, <1>4, <1>5, <1>7, WhoRuns, LenProperties DEF SemInv
    <2>2. i = 1 /\ Len(a) # 0
      BY <1>5, <2>1
    <2>3. QED
      BY <1>7, <2>2
  <1>9. /\ mail' \in [SemBoxes -> Boxes(Procs)] /\ mail'[m].slots = mail[m].slots
        /\ mail'[m].waiting = <<>> /\ mail'[m].sent = Tail(a)
        /\ \A c \in SemBoxes \ {m} : mail'[c] = mail[c]
    BY <1>1, <1>3, <1>4, <1>5, <1>8, ReceiveDoes DEF SemInv, Leave
  <1>10. \A x \in Procs : mail'[x] = mail[x]
    BY <1>3, <1>9, BoxesAre
  <1>11. PICK t : t = Tail(a)
    OBVIOUS
  <1>12. /\ Elements(t) = Elements(a) \ {p}
         /\ \A h, j \in 1..Len(t) : t[h] = t[j] => h = j
    BY <1>5, <1>8, <1>11, TailElements
  <1>13. frame'[p] = f /\ \A x \in Procs \ {p} : frame'[x] = frame[x]
    BY SetsMove DEF SemInv
  <1>14. ASSUME NEW k \in Mutexes
         PROVE  InMutex(k)' = IF k = m THEN InMutex(k) \ {p} ELSE InMutex(k)
    <2>1. \A x \in Procs : frame[x].at \in {"P", "V"} => frame[x].sem \in Sems
      BY DEF SemInv, FramesOK, Fits
    <2>2. QED
      BY <1>1, <1>13, <2>1 DEF InMutex
  <1>15. ASSUME NEW k \in Mutexes
         PROVE  /\ mail'[k].slots \in {0, 1} /\ mail'[k].waiting = <<>>
                /\ \A h, j \in 1..Len(mail'[k].sent) : mail'[k].sent[h] = mail'[k].sent[j] => h = j
                /\ Elements(mail'[k].sent) = InMutex(k)'
    <2>1. CASE k = m
      <3>1. InMutex(k)' = Elements(t)
        BY <1>5, <1>12, <1>14, <2>1
      <3>2. mail'[k].sent = t
        BY <1>9, <1>11, <2>1
      <3>3. QED
        BY <1>5, <1>9, <1>12, <2>1, <3>1, <3>2
    <2>2. CASE k # m
      <3>1. mail'[k] = mail[k] /\ InMutex(k)' = InMutex(k)
        BY <1>9, <1>14, <2>2, BoxesAre
      <3>2. QED
        BY <3>1 DEF SemInv, Mutexed
    <2>3. QED
      BY <2>1, <2>2
  <1>16. ASSUME NEW r \in Sems
         PROVE  /\ semTable'[r].mboxID # NULL => mail'[semTable'[r].mboxID].slots = 1
                /\ Active(r)' => semTable'[r].mboxID # NULL
    <2>1. semTable[r].mboxID # NULL => semTable[r].mboxID \in Mutexes /\ semTable[r].mboxID \in SemBoxes
      BY EntryIs, BoxesAre DEF SemInv
    <2>2. QED
      BY <1>9, <2>1 DEF SemInv, Mutexed, Active
  <1>17. QED
    BY <1>9, <1>10, <1>15, <1>16 DEF Mutexed
-----------------------------------------------------------------------------
(* The steps.                                                              *)
LEMMA EntersKeepInv ==
  ASSUME SemInv, NEW p \in Procs, NEW s \in Sems, SemP(p, s) \/ SemV(p, s)
  PROVE  SemInv'
  <1>1. /\ frame[p].at = "user" /\ CanRun(p) /\ Enter(p, s) /\ Active(s)
        /\ semTable' = semTable /\ nextSemBlock' = nextSemBlock
    <2>1. semTable[s].status # "EMPTY" => Active(s)
      BY EntryIs DEF SemInv, Active
    <2>2. QED
      BY <2>1 DEF SemP, SemV, MayCall, CallStands
  <1>2. frame[p] = NoCall
    BY <1>1, FrameKinds DEF SemInv, FramesOK, Fits
  <1>3. PICK l \in {"P", "V"} : /\ CallGoes(p, Calling(l, s, NULL))
                                /\ l = "P" => p \in Takers[s] /\ nextSemBlock[p] = NULL
    <2>1. CASE SemP(p, s)
      BY <2>1 DEF SemP
    <2>2. CASE SemV(p, s)
      BY <2>2 DEF SemV
    <2>3. QED
      BY <2>1, <2>2
  <1>4. PICK f : f = Calling(l, s, NULL)
    OBVIOUS
  <1>5. f \in CallFrames /\ f.at = l /\ f.sem = s /\ f.wakes = NULL /\ CallGoes(p, f)
    BY <1>3, <1>4, FrameKinds
  <1>6. TableStays
    BY <1>1 DEF TableStays
  <1>7. mail' \in [SemBoxes -> Boxes(Procs)] /\ Mutexed' /\ \A x \in Procs : mail'[x] = mail[x]
    BY <1>1, <1>2, <1>3, EnterKeepsMutexes
  <1>8. FramesOK' /\ Freeing' /\ ListShape' /\ Members'
    <2>1. Fits(p, f)
      BY <1>1, <1>3, <1>5 DEF Fits
    <2>2. \A r \in Sems : p \notin OnList(r)
      BY <1>1, Outside
    <2>3. QED
      BY <1>1, <1>5, <1>6, <2>1, <2>2, QuietStep
  <1>9. WakeUps'
    <2>1. \A x : Wakers(x)' = Wakers(x)
      <3>1. ASSUME NEW x PROVE Wakers(x)' = Wakers(x)
        <4>1. p \notin Wakers(x)
          BY <1>1 DEF Wakers
        <4>2. Wakers(x)' = Wakers(x) \ {p}
          BY <1>5, SetsMove DEF SemInv
        <4>3. QED
          BY <4>1, <4>2
      <3>2. QED
        BY <3>1
    <2>2. \A r \in Sems : Queued(r)' = Queued(r)
      BY <1>6, QuietLists DEF SemInv
    <2>3. WakeUp(p)'
      BY <1>1, <1>5, <1>7, BoxesAre, ActorWakeUp DEF Waits
    <2>4. ASSUME NEW x \in Procs \ {p} PROVE WakeUp(x)'
      BY <1>1, <1>5, <1>7, <2>1, <2>2, OthersWakeUp
    <2>5. QED
      BY <2>3, <2>4 DEF WakeUps
  <1>10. SemTypeOK'
    BY <1>1, <1>5, <1>7, SetsMove DEF SemInv, SemTypeOK
  <1>11. QED
    BY <1>7, <1>8, <1>9, <1>10 DEF SemInv

LEMMA WakersStay ==
  ASSUME SemInv, NEW p \in Procs, NEW f \in CallFrames, CallGoes(p, f),
         frame[p].at # "waking", f.at # "waking", NEW x
  PROVE  Wakers(x)' = Wakers(x)
  <1>1. p \notin Wakers(x)
    BY DEF Wakers
  <1>2. Wakers(x)' = Wakers(x) \ {p}
    BY SetsMove DEF SemInv
  <1>3. QED
    BY <1>1, <1>2

LEMMA PassesKeepsInv ==
  ASSUME SemInv, NEW p \in Procs, NEW s \in Sems, SemPPasses(p, s)
  PROVE  SemInv'
  <1>1. /\ frame[p].at = "P" /\ frame[p].sem = s /\ CanRun(p) /\ Leave(p, s)
        /\ CallGoes(p, Calling("passed", s, NULL))
        /\ semTable' = semTable /\ nextSemBlock' = nextSemBlock
    BY DEF SemPPasses, CallStands
  <1>2. Active(s) /\ p \in Takers[s]
    BY <1>1 DEF SemInv, FramesOK, Fits
  <1>3. PICK f : f = Calling("passed", s, NULL)
    OBVIOUS
  <1>4. f \in CallFrames /\ f.at = "passed" /\ f.sem = s /\ f.wakes = NULL /\ CallGoes(p, f)
    BY <1>1, <1>3, FrameKinds
  <1>5. TableStays
    BY <1>1 DEF TableStays
  <1>6. mail' \in [SemBoxes -> Boxes(Procs)] /\ Mutexed' /\ \A x \in Procs : mail'[x] = mail[x]
    BY <1>1, <1>4, LeaveKeepsMutexes
  <1>7. FramesOK' /\ Freeing' /\ ListShape' /\ Members'
    <2>1. Fits(p, f)
      BY <1>2, <1>4 DEF Fits
    <2>2. \A r \in Sems : p \notin OnList(r)
      BY <1>1, Outside
    <2>3. QED
      BY <1>1, <1>4, <1>5, <2>1, <2>2, QuietStep
  <1>8. WakeUps'
    <2>1. \A r \in Sems : Queued(r)' = Queued(r)
      BY <1>5, QuietLists DEF SemInv
    <2>2. WakeUp(p)'
      BY <1>1, <1>4, <1>6, BoxesAre, ActorWakeUp DEF Waits
    <2>3. ASSUME NEW x \in Procs \ {p} PROVE WakeUp(x)'
      BY <1>1, <1>4, <1>6, <2>1, WakersStay, OthersWakeUp
    <2>4. QED
      BY <2>2, <2>3 DEF WakeUps
  <1>9. SemTypeOK'
    BY <1>1, <1>4, <1>6, SetsMove DEF SemInv, SemTypeOK
  <1>10. QED
    BY <1>6, <1>7, <1>8, <1>9 DEF SemInv

LEMMA SleepsKeepsInv ==
  ASSUME SemInv, NEW p \in Procs, NEW s \in Sems, SemPSleeps(p, s)
  PROVE  SemInv'
  <1>1. /\ frame[p].at = "asleep" /\ frame[p].sem = s /\ CanRun(p) /\ Receive(p, p)
        /\ CallGoes(p, Calling("woken", s, NULL))
        /\ semTable' = semTable /\ nextSemBlock' = nextSemBlock
    BY DEF SemPSleeps, CallStands
  <1>2. PICK f : f = Calling("woken", s, NULL)
    OBVIOUS
  <1>3. f \in CallFrames /\ f.at = "woken" /\ f.sem = s /\ f.wakes = NULL /\ CallGoes(p, f)
    BY <1>1, <1>2, FrameKinds
  <1>4. TableStays
    BY <1>1 DEF TableStays
  <1>5. /\ mail' \in [SemBoxes -> Boxes(Procs)] /\ mail'[p].slots = mail[p].slots
        /\ mail[p].sent # <<>> => mail'[p].sent = Tail(mail[p].sent) /\ mail'[p].waiting = mail[p].waiting
        /\ mail[p].sent = <<>> => mail'[p].sent = <<>> /\ mail'[p].waiting = Append(mail[p].waiting, p)
        /\ \A c \in SemBoxes \ {p} : mail'[c] = mail[c]
    BY <1>1, BoxesAre, ReceiveDoes DEF SemInv
  <1>6. FramesOK' /\ Freeing' /\ ListShape' /\ Members'
    <2>1. Fits(p, f)
      BY <1>1, <1>3 DEF SemInv, FramesOK, Fits
    <2>2. \A r \in Sems : p \in OnList(r) => Belongs(p, f, r)
      BY <1>1, <1>3, FrameKinds DEF SemInv, Members, Belongs
    <2>3. QED
      BY <1>1, <1>3, <1>4, <2>1, <2>2, QuietStep
  <1>7. Mutexed'
    BY <1>1, <1>3, <1>5, BoxesAre, MutexesStay
  <1>8. WakeUps'
    <2>1. \A r \in Sems : Queued(r)' = Queued(r)
      BY <1>4, QuietLists DEF SemInv
    <2>2. WakeUp(p)'
      <3>1. frame'[p] = f /\ \A x \in Procs \ {p} : frame'[x] = frame[x]
        BY <1>3, SetsMove DEF SemInv
      <3>2. Wakers(p)' = Wakers(p)
        BY <1>1, <1>3, WakersStay
      <3>3. WakeUp(p)
        BY DEF SemInv, WakeUps
      <3>4. Unsent(p) => Unsent(p)'
        <4>1. Append(<<>>, p) = <<p>>
          OBVIOUS
        <4>2. QED
          BY <1>1, <1>3, <1>5, <3>1, <4>1 DEF Unsent
      <3>5. Arrived(p) => Arrived(p)'
        <4>1. \A w : Tail(<<w>>) = <<>> /\ <<w>> # <<>>
          OBVIOUS
        <4>2. SUFFICES ASSUME Arrived(p) PROVE Arrived(p)'
          OBVIOUS
        <4>3. PICK w \in Procs : mail[p].sent = <<w>>
          BY <1>1, <4>2 DEF Arrived
        <4>4. mail'[p].sent = <<>> /\ mail'[p].waiting = <<>>
          BY <1>5, <4>1, <4>2, <4>3 DEF Arrived
        <4>5. QED
          BY <1>3, <3>1, <4>4 DEF Arrived
      <3>6. QED
        BY <1>1, <1>3, <1>5, <2>1, <3>1, <3>2, <3>3, <3>4, <3>5 DEF WakeUp, Waits
    <2>3. ASSUME NEW x \in Procs \ {p} PROVE WakeUp(x)'
      BY <1>1, <1>3, <1>5, <2>1, BoxesAre, WakersStay, OthersWakeUp
    <2>4. QED
      BY <2>2, <2>3 DEF WakeUps
  <1>9. SemTypeOK'
    BY <1>1, <1>3, <1>5, SetsMove DEF SemInv, SemTypeOK
  <1>10. QED
    BY <1>6, <1>7, <1>8, <1>9 DEF SemInv

(* A process that has its message is not waiting on the list any more.     *)
LEMMA WokenHasMessage ==
  ASSUME SemInv, NEW p \in Procs, NEW s \in Sems, frame[p].at = "woken", frame[p].sem = s, CanRun(p)
  PROVE  p \notin Queued(s) /\ Wakers(p) = {} /\ mail[p].sent = <<>> /\ mail[p].waiting = <<>>
  <1>1. mail[p].waiting # <<p>>
    BY BoxesAre, WhoRuns DEF SemInv
  <1>2. ~Unsent(p)
    BY <1>1 DEF Unsent
  <1>3. WakeUp(p)
    BY DEF SemInv, WakeUps
  <1>4. QED
    BY <1>2, <1>3 DEF WakeUp, Waits, Arrived

LEMMA EndsOfPKeepInv ==
  ASSUME SemInv, NEW p \in Procs, NEW s \in Sems, SemPFreed(p, s) \/ SemPTakes(p, s)
  PROVE  SemInv'
  <1>1. /\ frame[p].at \in {"passed", "woken"} /\ frame[p].sem = s /\ CanRun(p)
        /\ mail' = mail /\ nextSemBlock' = nextSemBlock
    BY DEF SemPFreed, SemPTakes, CallStands
  <1>2. PICK f \in {NoCall, Gone} : CallGoes(p, f) /\ (f = Gone => SemPFreed(p, s)) /\ (f = NoCall => SemPTakes(p, s))
    <2>1. CASE SemPFreed(p, s)
      BY <2>1, FrameKinds DEF SemPFreed
    <2>2. CASE SemPTakes(p, s)
      BY <2>2, FrameKinds DEF SemPTakes
    <2>3. QED
      BY <2>1, <2>2
  <1>3. f \in CallFrames /\ f.at \in {"user", "gone"} /\ f.sem = NULL /\ f.wakes = NULL
    BY <1>2, FrameKinds
  <1>4. semTable' \in [Sems -> Semaphore] /\ TableStays
    <2>1. CASE f = Gone
      BY <1>1, <1>2, <2>1 DEF SemPFreed, TableStays, SemInv, SemTypeOK
    <2>2. CASE f = NoCall
      <3>1. PICK c : c = semTable[s].count - 1
        OBVIOUS
      <3>2. c \in Int
        BY <3>1, EntryIs DEF SemInv
      <3>3. f # Gone /\ SemPTakes(p, s)
        BY <1>2, <2>2, FrameKinds
      <3>4. semTable' = [semTable EXCEPT ![s].count = @ - 1]
        BY <3>3 DEF SemPTakes
      <3>5. semTable' = [semTable EXCEPT ![s].count = c]
        BY <3>1, <3>4
      <3>6. EntryTo(s, semTable[s].status, c, First(s), semTable[s].mboxID)
        BY <3>2, <3>5, CountSet DEF SemInv
      <3>7. QED
        BY <1>1, <3>6 DEF EntryTo, TableStays, First
    <2>3. QED
      BY <1>2, <2>1, <2>2
  <1>5. /\ ~Waits(p) \/ (p \notin Queued(s) /\ Wakers(p) = {} /\ mail[p].sent = <<>> /\ mail[p].waiting = <<>>)
        /\ frame[p].at = "passed" => f = NoCall
    BY <1>1, <1>2, WokenHasMessage DEF Waits, SemPFreed, CallStands
  <1>6. ASSUME NEW r \in Sems, p \in OnList(r) PROVE Belongs(p, f, r)
    <2>1. frame[p].at = "woken" /\ r = s
      BY <1>1, <1>6, FrameKinds DEF SemInv, Members, Belongs
    <2>2. ~Active(s) /\ p = First(s)
      BY <1>5, <1>6, <2>1 DEF Waits, Queued
    <2>3. f = Gone
      BY <1>2, <2>1, <2>2, EntryIs DEF SemPTakes, CallStands, Active, SemInv
    <2>4. QED
      BY <2>1, <2>2, <2>3 DEF Belongs
  <1>7. FramesOK' /\ Freeing' /\ ListShape' /\ Members'
    <2>1. Fits(p, f)
      BY <1>2, <1>3 DEF Fits
    <2>2. QED
      BY <1>1, <1>2, <1>3, <1>4, <1>6, <2>1, QuietStep
  <1>8. Mutexed'
    BY <1>1, <1>2, <1>3, <1>4, MutexesStay DEF TableStays
  <1>9. WakeUps'
    <2>1. \A r \in Sems : Queued(r)' = Queued(r)
      BY <1>4, QuietLists DEF SemInv
    <2>2. WakeUp(p)'
      <3>1. frame'[p] = f
        BY <1>2, <1>3, SetsMove DEF SemInv
      <3>2. Wakers(p)' = Wakers(p)
        BY <1>1, <1>2, <1>3, WakersStay
      <3>3. WakeUp(p)
        BY DEF SemInv, WakeUps
      <3>4. mail[p].sent = <<>> /\ mail[p].waiting = <<>> /\ Wakers(p) = {}
        BY <1>5, <3>3 DEF WakeUp
      <3>5. QED
        BY <1>1, <1>3, <3>1, <3>2, <3>3, <3>4 DEF WakeUp, Waits
    <2>3. ASSUME NEW x \in Procs \ {p} PROVE WakeUp(x)'
      BY <1>1, <1>2, <1>3, <2>1, WakersStay, OthersWakeUp
    <2>4. QED
      BY <2>2, <2>3 DEF WakeUps
  <1>10. SemTypeOK'
    BY <1>1, <1>2, <1>3, <1>4, SetsMove DEF SemInv, SemTypeOK
  <1>11. QED
    BY <1>7, <1>8, <1>9, <1>10 DEF SemInv

LEMMA WakesKeepsInv ==
  ASSUME SemInv, NEW p \in Procs, NEW s \in Sems, SemVWakes(p, s)
  PROVE  SemInv'
  <1>1. PICK w : w = frame[p].wakes
    OBVIOUS
  <1>2. /\ frame[p].at = "waking" /\ frame[p].sem = s /\ CanRun(p) /\ Send(p, w) /\ CallGoes(p, NoCall)
        /\ semTable' = semTable /\ nextSemBlock' = nextSemBlock
    BY <1>1 DEF SemVWakes, CallStands
  <1>3. w \in Procs
    <2>1. w \in Procs \cup {NULL}
      BY <1>1 DEF SemInv, SemTypeOK, CallFrames
    <2>2. QED
      BY <1>1, <1>2, <2>1 DEF SemInv, FramesOK, Fits
  <1>4. PICK f : f = NoCall
    OBVIOUS
  <1>5. f \in CallFrames /\ f.at = "user" /\ f.sem = NULL /\ f.wakes = NULL /\ CallGoes(p, f) /\ f = NoCall
    BY <1>2, <1>4, FrameKinds
  <1>6. p \in Wakers(w) /\ WakeUp(w)
    BY <1>1, <1>2, <1>3 DEF Wakers, SemInv, WakeUps
  <1>7. PICK r \in Sems : frame[w].sem = r
    BY <1>3, <1>6 DEF WakeUp, Waits, SemInv, FramesOK, Fits
  <1>8. Waits(w) /\ w \notin Queued(r) /\ Unsent(w) /\ Wakers(w) = {p} /\ w # p
    BY <1>2, <1>6, <1>7 DEF WakeUp, Waits
  <1>9. TableStays
    BY <1>2 DEF TableStays
  <1>10. /\ mail' \in [SemBoxes -> Boxes(Procs)] /\ mail'[w].slots = mail[w].slots
         /\ mail[w].waiting # <<>> => mail'[w].waiting = Tail(mail[w].waiting) /\ mail'[w].sent = mail[w].sent
         /\ mail[w].waiting = <<>> => mail'[w].waiting = <<>> /\ mail'[w].sent = Append(mail[w].sent, p)
         /\ \A c \in SemBoxes \ {w} : mail'[c] = mail[c]
    BY <1>2, <1>3, BoxesAre, SendDoes DEF SemInv
  <1>11. FramesOK' /\ Freeing' /\ ListShape' /\ Members'
    <2>1. Fits(p, f)
      BY <1>5 DEF Fits
    <2>2. \A q \in Sems : p \notin OnList(q)
      BY <1>2, Outside
    <2>3. QED
      BY <1>2, <1>5, <1>9, <2>1, <2>2, QuietStep
  <1>12. Mutexed'
    BY <1>2, <1>3, <1>5, <1>10, BoxesAre, MutexesStay
  <1>13. WakeUps'
    <2>1. \A q \in Sems : Queued(q)' = Queued(q)
      BY <1>9, QuietLists DEF SemInv
    <2>2. WakeUp(p)'
      BY <1>2, <1>3, <1>5, <1>8, <1>10, BoxesAre, ActorWakeUp DEF Waits
    <2>3. WakeUp(w)'
      <3>1. frame'[w] = frame[w] /\ frame'[p].at = "user"
        BY <1>3, <1>5, <1>8, SetsMove DEF SemInv
      <3>2. Wakers(w)' = Wakers(w) \ {p}
        BY <1>5, SetsMove DEF SemInv
      <3>3. Wakers(w)' = {}
        BY <1>8, <3>2
      <3>4. Arrived(w)'
        <4>1. Append(<<>>, p) = <<p>> /\ <<w>> # <<>> /\ Tail(<<w>>) = <<>>
          OBVIOUS
        <4>2. CASE frame[w].at = "woken"
          BY <1>8, <1>10, <3>1, <4>1, <4>2 DEF Unsent, Arrived
        <4>3. CASE frame[w].at = "asleep"
          BY <1>8, <1>10, <3>1, <4>1, <4>3 DEF Unsent, Arrived
        <4>4. QED
          BY <1>8, <4>2, <4>3 DEF Waits
      <3>5. QED
        BY <1>6, <1>7, <1>8, <1>10, <2>1, <3>1, <3>3, <3>4 DEF WakeUp, Waits
    <2>4. ASSUME NEW x \in Procs, x # p, x # w PROVE WakeUp(x)'
      <3>1. p \notin Wakers(x)
        BY <1>1, <2>4 DEF Wakers
      <3>2. Wakers(x)' = Wakers(x) \ {p}
        BY <1>5, SetsMove DEF SemInv
      <3>3. Wakers(x)' = Wakers(x)
        BY <3>1, <3>2
      <3>4. mail'[x] = mail[x]
        BY <1>10, <2>4, BoxesAre
      <3>5. QED
        BY <1>2, <1>5, <2>1, <2>4, <3>3, <3>4, OthersWakeUp
    <2>5. QED
      BY <1>3, <2>2, <2>3, <2>4 DEF WakeUps
  <1>14. SemTypeOK'
    BY <1>2, <1>5, <1>10, SetsMove DEF SemInv, SemTypeOK
  <1>15. QED
    BY <1>11, <1>12, <1>13, <1>14 DEF SemInv

(* Joining the block list.                                                 *)
LEMMA AddDoes ==
  ASSUME SemInv, NEW p \in Procs, NEW s \in Sems, frame[p].at = "P", frame[p].sem = s,
         AddToSemBlockList(p, s)
  PROVE  /\ semTable' \in [Sems -> Semaphore] /\ nextSemBlock' \in [Procs -> Procs \cup {NULL}]
         /\ \A r \in Sems : /\ semTable'[r].status = semTable[r].status
                            /\ semTable'[r].mboxID = semTable[r].mboxID
                            /\ semTable'[r].count = semTable[r].count
                            /\ r # s => semTable'[r].blockedList = semTable[r].blockedList
                            /\ Proper(r)' /\ (r # s => OnList(r)' = OnList(r))
         /\ OnList(s)' = OnList(s) \cup {p}
         /\ \A x \in Procs : frame[x].at = "P" => nextSemBlock'[x] = nextSemBlock[x]
  <1>1. /\ semTable \in [Sems -> Semaphore] /\ nextSemBlock \in [Procs -> Procs \cup {NULL}]
        /\ nextSemBlock[p] = NULL /\ \A r \in Sems : Proper(r) /\ p \notin OnList(r)
    BY Outside DEF SemInv, SemTypeOK, FramesOK, Fits, ListShape
  <1>2. CASE First(s) = NULL /\ semTable' = [semTable EXCEPT ![s].blockedList = p] /\ nextSemBlock' = nextSemBlock
    <2>1. EntryTo(s, semTable[s].status, semTable[s].count, p, semTable[s].mboxID)
      BY <1>2, FirstSet DEF SemInv
    <2>2. First(s)' = p /\ \A r \in Sems \ {s} : First(r)' = First(r)
      BY <2>1 DEF EntryTo, First
    <2>3. OnList(s)' = {p} /\ Proper(s)'
      BY <1>1, <1>2, <2>2, ListBegins
    <2>4. OnList(s) = {}
      BY <1>1, <1>2, HeadIs
    <2>5. \A r \in Sems \ {s} : OnList(r)' = OnList(r) /\ Proper(r)'
      BY <1>1, <1>2, <2>2, SameList
    <2>6. QED
      BY <1>1, <1>2, <2>1, <2>3, <2>4, <2>5 DEF EntryTo
  <1>3. CASE \E last \in OnList(s) : /\ nextSemBlock[last] = NULL
                                     /\ nextSemBlock' = [nextSemBlock EXCEPT ![last] = p]
                                     /\ semTable' = semTable
    <2>1. PICK last \in OnList(s) : /\ nextSemBlock[last] = NULL
                                    /\ nextSemBlock' = [nextSemBlock EXCEPT ![last] = p]
                                    /\ semTable' = semTable
      BY <1>3
    <2>2. \A r \in Sems : First(r)' = First(r)
      BY <2>1 DEF First
    <2>3. OnList(s)' = OnList(s) \cup {p} /\ Proper(s)'
      BY <1>1, <2>1, <2>2, ListGrows
    <2>4. last \in Procs /\ Belongs(last, frame[last], s)
      BY <1>1, HeadIs DEF SemInv, Members
    <2>5. frame[last].at # "P"
      BY <2>4, FrameKinds DEF Belongs
    <2>6. ASSUME NEW r \in Sems \ {s} PROVE OnList(r)' = OnList(r) /\ Proper(r)'
      <3>1. last \notin OnList(r)
        <4>1. SUFFICES ASSUME last \in OnList(r) PROVE FALSE
          OBVIOUS
        <4>2. Belongs(last, frame[last], r)
          BY <4>1 DEF SemInv, Members
        <4>3. frame[last] = Gone /\ First(s) = last /\ First(r) = last /\ ~Active(s)
          BY <2>4, <4>2, FrameKinds DEF Belongs
        <4>4. Active(s)
          BY DEF SemInv, FramesOK, Fits
        <4>5. QED
          BY <4>3, <4>4
      <3>2. \A x \in OnList(r) : nextSemBlock'[x] = nextSemBlock[x]
        BY <1>1, <2>1, <3>1, HeadIs
      <3>3. QED
        BY <1>1, <2>2, <3>2, SameList
    <2>7. \A x \in Procs : frame[x].at = "P" => nextSemBlock'[x] = nextSemBlock[x]
      BY <1>1, <2>1, <2>4, <2>5
    <2>8. nextSemBlock' \in [Procs -> Procs \cup {NULL}]
      BY <1>1, <2>1, <2>4
    <2>9. QED
      BY <1>1, <2>1, <2>3, <2>6, <2>7, <2>8
  <1>4. QED
    BY <1>2, <1>3 DEF AddToSemBlockList, First

LEMMA WaitsKeepsInv ==
  ASSUME SemInv, NEW p \in Procs, NEW s \in Sems, SemPWaits(p, s)
  PROVE  SemInv'
  <1>1. /\ frame[p].at = "P" /\ frame[p].sem = s /\ CanRun(p) /\ Leave(p, s)
        /\ CallGoes(p, Calling("asleep", s, NULL)) /\ AddToSemBlockList(p, s)
    BY DEF SemPWaits, CallStands
  <1>2. Active(s) /\ p \in Takers[s]
    BY <1>1 DEF SemInv, FramesOK, Fits
  <1>3. PICK f : f = Calling("asleep", s, NULL)
    OBVIOUS
  <1>4. f \in CallFrames /\ f.at = "asleep" /\ f.sem = s /\ f.wakes = NULL /\ CallGoes(p, f)
    BY <1>1, <1>3, FrameKinds
  <1>5. /\ semTable' \in [Sems -> Semaphore] /\ nextSemBlock' \in [Procs -> Procs \cup {NULL}]
        /\ \A r \in Sems : /\ semTable'[r].status = semTable[r].status
                           /\ semTable'[r].mboxID = semTable[r].mboxID
                           /\ r # s => semTable'[r].blockedList = semTable[r].blockedList
                           /\ Proper(r)' /\ (r # s => OnList(r)' = OnList(r))
        /\ OnList(s)' = OnList(s) \cup {p}
        /\ \A x \in Procs : frame[x].at = "P" => nextSemBlock'[x] = nextSemBlock[x]
    BY <1>1, AddDoes
  <1>6. mail' \in [SemBoxes -> Boxes(Procs)] /\ Mutexed' /\ \A x \in Procs : mail'[x] = mail[x]
    BY <1>1, <1>4, <1>5, LeaveKeepsMutexes
  <1>7. /\ frame' \in [Procs -> CallFrames] /\ frame'[p] = f
        /\ \A x \in Procs \ {p} : frame'[x] = frame[x]
    BY <1>4, SetsMove DEF SemInv
  <1>8. FramesOK'
    <2>1. Fits(p, f)'
      BY <1>2, <1>4 DEF Fits
    <2>2. \A x \in Procs : frame[x].at \in {"P", "passed", "V", "waking"} => frame[x].sem \in Sems
      BY DEF SemInv, FramesOK, Fits
    <2>3. QED
      BY <1>4, <1>5, <2>1, <2>2, FramesStay DEF SemInv, Active
  <1>9. Freeing'
    <2>1. ASSUME NEW r \in Sems PROVE Freers(r)' = Freers(r)
      <3>1. p \notin Freers(r)
        BY <1>1 DEF Freers
      <3>2. Freers(r)' = Freers(r) \ {p}
        BY <1>4, SetsMove DEF SemInv
      <3>3. QED
        BY <3>1, <3>2
    <2>2. QED
      BY <1>2, <1>5, <2>1 DEF SemInv, Freeing, Active, First
  <1>10. ListShape'
    BY <1>5 DEF ListShape
  <1>11. ASSUME NEW r \in Sems, NEW x \in OnList(r)' PROVE Belongs(x, frame[x], r)'
    <2>1. CASE x = p
      <3>1. r = s
        BY <1>1, <1>5, <1>11, <2>1, Outside
      <3>2. QED
        BY <1>4, <1>7, <2>1, <3>1 DEF Belongs
    <2>2. CASE x # p
      <3>1. x \in OnList(r) /\ x \in Procs
        BY <1>5, <1>11, <2>2, HeadIs DEF SemInv, ListShape
      <3>2. PICK g : g = frame'[x]
        OBVIOUS
      <3>3. Belongs(x, g, r)
        BY <1>7, <2>2, <3>1, <3>2 DEF SemInv, Members
      <3>4. QED
        BY <1>2, <1>5, <3>2, <3>3 DEF Belongs, Active, First
    <2>3. QED
      BY <2>1, <2>2
  <1>12. \A r \in Sems : Queued(r)' = IF r = s THEN Queued(r) \cup {p} ELSE Queued(r)
    BY <1>2, <1>5 DEF Queued, Active, First
  <1>13. WakeUps'
    <2>1. WakeUp(p)'
      <3>1. Wakers(p)' = Wakers(p)
        BY <1>1, <1>4, WakersStay
      <3>2. WakeUp(p) /\ ~Waits(p)
        BY <1>1 DEF SemInv, WakeUps, Waits
      <3>3. mail[p].sent = <<>> /\ mail[p].waiting = <<>> /\ Wakers(p) = {}
        BY <3>2 DEF WakeUp
      <3>4. Unsent(p)' /\ Wakers(p)' = {}
        BY <1>4, <1>6, <1>7, <3>1, <3>3 DEF Unsent
      <3>5. p \in Queued(s)'
        BY <1>12
      <3>6. QED
        BY <1>4, <1>6, <1>7, <3>2, <3>4, <3>5 DEF WakeUp, Waits
    <2>2. ASSUME NEW x \in Procs \ {p} PROVE WakeUp(x)'
      <3>1. \A r \in Sems : x \in Queued(r)' <=> x \in Queued(r)
        BY <1>12
      <3>2. QED
        BY <1>1, <1>4, <1>6, <3>1, WakersStay, OthersWakeUp
    <2>3. QED
      BY <2>1, <2>2 DEF WakeUps
  <1>14. SemTypeOK'
    BY <1>5, <1>6, <1>7 DEF SemTypeOK
  <1>15. QED
    BY <1>6, <1>8, <1>9, <1>10, <1>11, <1>13, <1>14 DEF SemInv, Members

LEMMA PostsQuietly ==
  ASSUME SemInv, NEW p \in Procs, NEW s \in Sems, SemVPosts(p, s), First(s) = NULL
  PROVE  SemInv'
  <1>1. /\ frame[p].at = "V" /\ frame[p].sem = s /\ CanRun(p) /\ Leave(p, s) /\ CallGoes(p, NoCall)
        /\ semTable' = [semTable EXCEPT ![s] = Posted(s)] /\ nextSemBlock' = nextSemBlock
    BY DEF SemVPosts, CallStands, First
  <1>2. PICK f : f = NoCall
    OBVIOUS
  <1>3. f \in CallFrames /\ f.at = "user" /\ f.sem = NULL /\ f.wakes = NULL /\ CallGoes(p, f) /\ f = NoCall
    BY <1>1, <1>2, FrameKinds
  <1>4. EntryTo(s, semTable[s].status, semTable[s].count + 1, First(s), semTable[s].mboxID)
    BY <1>1, PostedSet DEF SemInv
  <1>5. semTable' \in [Sems -> Semaphore] /\ TableStays
    BY <1>1, <1>4 DEF EntryTo, TableStays, First
  <1>6. mail' \in [SemBoxes -> Boxes(Procs)] /\ Mutexed' /\ \A x \in Procs : mail'[x] = mail[x]
    BY <1>1, <1>3, <1>5, LeaveKeepsMutexes DEF TableStays
  <1>7. FramesOK' /\ Freeing' /\ ListShape' /\ Members'
    <2>1. Fits(p, f)
      BY <1>3 DEF Fits
    <2>2. \A r \in Sems : p \notin OnList(r)
      BY <1>1, Outside
    <2>3. QED
      BY <1>1, <1>3, <1>5, <2>1, <2>2, QuietStep
  <1>8. WakeUps'
    <2>1. \A r \in Sems : Queued(r)' = Queued(r)
      BY <1>5, QuietLists DEF SemInv
    <2>2. WakeUp(p)'
      BY <1>1, <1>3, <1>6, BoxesAre, ActorWakeUp DEF Waits
    <2>3. ASSUME NEW x \in Procs \ {p} PROVE WakeUp(x)'
      BY <1>1, <1>3, <1>6, <2>1, WakersStay, OthersWakeUp
    <2>4. QED
      BY <2>2, <2>3 DEF WakeUps
  <1>9. SemTypeOK'
    BY <1>1, <1>3, <1>5, <1>6, SetsMove DEF SemInv, SemTypeOK
  <1>10. QED
    BY <1>6, <1>7, <1>8, <1>9 DEF SemInv

(* The first of a block list waits for its message and has none yet.       *)
LEMMA HeadWaits ==
  ASSUME SemInv, NEW s \in Sems, Active(s), First(s) # NULL
  PROVE  /\ First(s) \in Procs /\ First(s) \in Queued(s) /\ Waits(First(s)) /\ frame[First(s)].sem = s
         /\ Unsent(First(s)) /\ Wakers(First(s)) = {}
  <1>1. PICK h : h = First(s)
    OBVIOUS
  <1>2. h \in Procs /\ h \in OnList(s)
    BY <1>1, HeadIs DEF SemInv, ListShape
  <1>3. Belongs(h, frame[h], s) /\ h \in Queued(s)
    BY <1>2 DEF SemInv, Members, Queued
  <1>4. Waits(h) /\ frame[h].sem = s /\ WakeUp(h)
    BY <1>2, <1>3 DEF Belongs, Waits, SemInv, WakeUps
  <1>5. QED
    BY <1>1, <1>2, <1>3, <1>4 DEF WakeUp

LEMMA PostsKeepsInv ==
  ASSUME SemInv, NEW p \in Procs, NEW s \in Sems, SemVPosts(p, s), First(s) # NULL
  PROVE  SemInv'
  <1>1. PICK h : h = First(s)
    OBVIOUS
  <1>2. PICK f : f = Calling("waking", s, h)
    OBVIOUS
  <1>3. /\ frame[p].at = "V" /\ frame[p].sem = s /\ CanRun(p) /\ Leave(p, s) /\ CallGoes(p, f)
        /\ semTable' = [semTable EXCEPT ![s] = Posted(s)] /\ nextSemBlock' = nextSemBlock
    BY <1>1, <1>2 DEF SemVPosts, CallStands, First
  <1>4. Active(s)
    BY <1>3 DEF SemInv, FramesOK, Fits
  <1>5. h \in Procs /\ h \in Queued(s) /\ Waits(h) /\ frame[h].sem = s /\ Unsent(h) /\ Wakers(h) = {} /\ h # p
    BY <1>1, <1>3, <1>4, HeadWaits DEF Waits
  <1>6. f \in CallFrames /\ f.at = "waking" /\ f.sem = s /\ f.wakes = h
    BY <1>2, <1>5, FrameKinds
  <1>7. EntryTo(s, semTable[s].status, semTable[s].count + 1, nextSemBlock[h], semTable[s].mboxID)
    BY <1>1, <1>3, PostedSet DEF SemInv
  <1>8. /\ semTable' \in [Sems -> Semaphore] /\ First(s)' = nextSemBlock[h] /\ Active(s)'
        /\ \A r \in Sems : /\ semTable'[r].status = semTable[r].status
                           /\ semTable'[r].mboxID = semTable[r].mboxID
                           /\ r # s => First(r)' = First(r)
    BY <1>4, <1>7 DEF EntryTo, First, Active
  <1>9. \A r \in Sems : Proper(r)' /\ OnList(r)' = IF r = s THEN OnList(r) \ {h} ELSE OnList(r)
    <2>1. OnList(s)' = OnList(s) \ {h} /\ Proper(s)'
      BY <1>1, <1>3, <1>8, HeadLeaves DEF SemInv, ListShape
    <2>2. ASSUME NEW r \in Sems, r # s PROVE OnList(r)' = OnList(r) /\ Proper(r)'
      BY <1>3, <1>8, <2>2, SameList DEF SemInv, ListShape
    <2>3. QED
      BY <2>1, <2>2
  <1>10. \A r \in Sems : Queued(r)' = IF r = s THEN Queued(r) \ {h} ELSE Queued(r)
    BY <1>4, <1>8, <1>9 DEF Queued, Active
  <1>11. mail' \in [SemBoxes -> Boxes(Procs)] /\ Mutexed' /\ \A x \in Procs : mail'[x] = mail[x]
    BY <1>3, <1>6, <1>8, LeaveKeepsMutexes
  <1>12. /\ frame' \in [Procs -> CallFrames] /\ frame'[p] = f
         /\ \A x \in Procs \ {p} : frame'[x] = frame[x]
    BY <1>3, <1>6, SetsMove DEF SemInv
  <1>13. FramesOK'
    <2>1. Fits(p, f)'
      BY <1>5, <1>6, <1>8, ProgramsAssumption DEF Fits
    <2>2. \A x \in Procs : frame[x].at \in {"P", "passed", "V", "waking"} => frame[x].sem \in Sems
      BY DEF SemInv, FramesOK, Fits
    <2>3. QED
      BY <1>3, <1>6, <1>8, <2>1, <2>2, FramesStay DEF SemInv, Active
  <1>14. Freeing'
    <2>1. ASSUME NEW r \in Sems PROVE Freers(r)' = Freers(r)
      <3>1. p \notin Freers(r)
        BY <1>3 DEF Freers
      <3>2. Freers(r)' = Freers(r) \ {p}
        BY <1>3, <1>6, SetsMove DEF SemInv
      <3>3. QED
        BY <3>1, <3>2
    <2>2. QED
      BY <1>4, <1>8, <2>1 DEF SemInv, Freeing, Active
  <1>15. ASSUME NEW r \in Sems, NEW x \in OnList(r)' PROVE Belongs(x, frame[x], r)'
    <2>1. x \in OnList(r) /\ x \in Procs
      BY <1>9, <1>15, HeadIs DEF SemInv, ListShape
    <2>2. x # p
      BY <1>3, <2>1, Outside
    <2>3. PICK g : g = frame'[x]
      OBVIOUS
    <2>4. Belongs(x, g, r)
      BY <1>12, <2>1, <2>2, <2>3 DEF SemInv, Members
    <2>5. QED
      BY <1>4, <1>8, <2>3, <2>4 DEF Belongs, Active
  <1>16. WakeUps'
    <2>1. ASSUME NEW x PROVE Wakers(x)' = IF x = h THEN Wakers(x) \cup {p} ELSE Wakers(x)
      <3>1. p \notin Wakers(x)
        BY <1>3 DEF Wakers
      <3>2. Wakers(x)' = IF f.at = "waking" /\ f.wakes = x THEN Wakers(x) \cup {p} ELSE Wakers(x) \ {p}
        BY <1>3, <1>6, SetsMove DEF SemInv
      <3>3. QED
        BY <1>6, <3>1, <3>2
    <2>2. WakeUp(p)'
      BY <1>3, <1>5, <1>6, <1>11, BoxesAre, ActorWakeUp DEF Waits
    <2>3. WakeUp(h)'
      <3>1. Wakers(h)' = {p} /\ frame'[h] = frame[h] /\ mail'[h] = mail[h] /\ h \notin Queued(s)'
        BY <1>5, <1>10, <1>11, <1>12, <2>1
      <3>2. Unsent(h)'
        BY <1>5, <3>1 DEF Unsent
      <3>3. WakeUp(h)
        BY <1>5 DEF SemInv, WakeUps
      <3>4. QED
        BY <1>5, <3>1, <3>2, <3>3 DEF WakeUp, Waits
    <2>4. ASSUME NEW x \in Procs, x # p, x # h PROVE WakeUp(x)'
      <3>1. \A r \in Sems : x \in Queued(r)' <=> x \in Queued(r)
        BY <1>10, <2>4
      <3>2. Wakers(x)' = Wakers(x)
        BY <2>1, <2>4
      <3>3. QED
        BY <1>3, <1>6, <1>11, <2>4, <3>1, <3>2, OthersWakeUp
    <2>5. QED
      BY <2>2, <2>3, <2>4 DEF WakeUps
  <1>17. SemTypeOK'
    BY <1>3, <1>8, <1>11, <1>12 DEF SemInv, SemTypeOK
  <1>18. QED
    BY <1>8, <1>9, <1>11, <1>13, <1>14, <1>15, <1>16, <1>17 DEF SemInv, Members, ListShape

(* semFree's message finds its process, asleep or about to sleep.          *)
LEMMA Delivered ==
  ASSUME SemInv, NEW p \in Procs, NEW f \in CallFrames, f.at \in {"user", "freeing"}, CallGoes(p, f),
         NEW h \in Procs, h # p, Waits(h), Unsent(h), Send(p, h)
  PROVE  /\ mail' \in [SemBoxes -> Boxes(Procs)] /\ mail'[h].slots = mail[h].slots /\ Arrived(h)'
         /\ \A c \in SemBoxes \ {h} : mail'[c] = mail[c]
  <1>1. /\ mail' \in [SemBoxes -> Boxes(Procs)] /\ mail'[h].slots = mail[h].slots
        /\ mail[h].waiting # <<>> => mail'[h].waiting = Tail(mail[h].waiting) /\ mail'[h].sent = mail[h].sent
        /\ mail[h].waiting = <<>> => mail'[h].waiting = <<>> /\ mail'[h].sent = Append(mail[h].sent, p)
        /\ \A c \in SemBoxes \ {h} : mail'[c] = mail[c]
    BY BoxesAre, SendDoes DEF SemInv
  <1>2. frame'[h] = frame[h] /\ frame'[p] = f
    BY SetsMove DEF SemInv
  <1>3. Append(<<>>, p) = <<p>> /\ <<h>> # <<>> /\ Tail(<<h>>) = <<>>
    OBVIOUS
  <1>4. CASE frame[h].at = "woken"
    BY <1>1, <1>2, <1>3, <1>4 DEF Unsent, Arrived
  <1>5. CASE frame[h].at = "asleep"
    BY <1>1, <1>2, <1>3, <1>5 DEF Unsent, Arrived
  <1>6. QED
    BY <1>1, <1>4, <1>5 DEF Waits

(* A message to h, or to nobody, and the first of the list is counted off. *)
LEMMA FreeingWakes ==
  ASSUME SemInv, NEW p \in Procs, CanRun(p), frame[p].at \in {"user", "freeing"},
         NEW f \in CallFrames, f.at \in {"user", "freeing"}, f.wakes = NULL, CallGoes(p, f),
         NEW s \in Sems, NEW h \in Procs \cup {NULL},
         \A r \in Sems : Queued(r)' = IF r = s THEN Queued(r) \ {h} ELSE Queued(r),
         IF h = NULL THEN mail' = mail ELSE Send(p, h),
         h # NULL => h # p /\ Waits(h) /\ frame[h].sem = s /\ Unsent(h) /\ Wakers(h) = {}
  PROVE  WakeUps' /\ mail' \in [SemBoxes -> Boxes(Procs)] /\ \A m \in Mutexes : mail'[m] = mail[m]
  <1>1. \A x : Wakers(x)' = Wakers(x)
    BY WakersStay
  <1>2. /\ mail' \in [SemBoxes -> Boxes(Procs)]
        /\ h # NULL => h \in Procs /\ mail'[h].slots = mail[h].slots /\ Arrived(h)'
        /\ \A c \in SemBoxes : c # h => mail'[c] = mail[c]
    <2>1. CASE h = NULL
      BY <2>1 DEF SemInv, SemTypeOK
    <2>2. CASE h # NULL
      <3>1. h \in Procs
        BY <2>2
      <3>2. /\ mail' \in [SemBoxes -> Boxes(Procs)] /\ mail'[h].slots = mail[h].slots /\ Arrived(h)'
            /\ \A c \in SemBoxes \ {h} : mail'[c] = mail[c]
        BY <2>2, <3>1, Delivered
      <3>3. QED
        BY <3>1, <3>2
    <2>3. QED
      BY <2>1, <2>2
  <1>3. /\ frame'[p] = f /\ \A x \in Procs \ {p} : frame'[x] = frame[x]
    BY SetsMove DEF SemInv
  <1>4. WakeUp(p)'
    BY <1>2, BoxesAre, ActorWakeUp DEF Waits
  <1>5. ASSUME NEW x \in Procs, x # p, x # h PROVE WakeUp(x)'
    <2>1. \A r \in Sems : x \in Queued(r)' <=> x \in Queued(r)
      BY <1>5
    <2>2. mail'[x] = mail[x]
      BY <1>2, <1>5, BoxesAre
    <2>3. QED
      BY <1>1, <1>5, <2>1, <2>2, OthersWakeUp
  <1>6. ASSUME h # NULL PROVE WakeUp(h)'
    <2>1. h \in Procs /\ frame'[h] = frame[h] /\ Wakers(h)' = {} /\ h \notin Queued(s)'
      BY <1>1, <1>3, <1>6
    <2>2. WakeUp(h)
      BY <2>1 DEF SemInv, WakeUps
    <2>3. QED
      BY <1>2, <1>6, <2>1, <2>2 DEF WakeUp, Waits
  <1>7. WakeUps'
    BY <1>4, <1>5, <1>6, ProgramsAssumption DEF WakeUps
  <1>8. \A m \in Mutexes : m \in SemBoxes /\ m # h
    BY BoxesAre
  <1>9. QED
    BY <1>2, <1>7, <1>8

LEMMA FreeKeepsInv ==
  ASSUME SemInv, NEW p \in Procs, NEW s \in Sems, SemFree(p, s)
  PROVE  SemInv'
  <1>1. PICK h : h = First(s)
    OBVIOUS
  <1>2. PICK f : f = FreeFrame(s, h)
    OBVIOUS
  <1>3. /\ frame[p].at = "user" /\ CanRun(p) /\ semTable[s].status # "EMPTY" /\ MayFree(s)
        /\ semTable' = [semTable EXCEPT ![s].status = "EMPTY"] /\ CallGoes(p, f)
        /\ IF h = NULL THEN mail' = mail ELSE Send(p, h)
        /\ nextSemBlock' = nextSemBlock
    BY <1>1, <1>2 DEF SemFree, MayCall, CallStands, First
  <1>4. Active(s) /\ h \in Procs \cup {NULL}
    BY <1>1, <1>3, EntryIs DEF SemInv, Active, First
  <1>5. /\ f \in CallFrames /\ f.wakes = NULL
        /\ h = NULL => f = NoCall /\ f.at = "user"
        /\ h # NULL => f.at = "freeing" /\ f.sem = s
    BY <1>2, FrameKinds DEF FreeFrame
  <1>6. h # NULL => /\ h \in Procs /\ h \in Queued(s) /\ Waits(h) /\ frame[h].sem = s
                    /\ Unsent(h) /\ Wakers(h) = {} /\ h # p
    BY <1>1, <1>3, <1>4, HeadWaits DEF Waits
  <1>7. EntryTo(s, "EMPTY", semTable[s].count, First(s), semTable[s].mboxID)
    BY <1>3, StatusSet DEF SemInv
  <1>8. /\ semTable' \in [Sems -> Semaphore] /\ ~Active(s)'
        /\ \A r \in Sems : /\ r # s => semTable'[r].status = semTable[r].status
                           /\ semTable'[r].mboxID = semTable[r].mboxID
                           /\ First(r)' = First(r)
    BY <1>7 DEF EntryTo, First, Active
  <1>9. \A r \in Sems : OnList(r)' = OnList(r) /\ Proper(r)'
    BY <1>3, <1>8, SameList DEF SemInv, ListShape
  <1>10. \A r \in Sems : Queued(r)' = IF r = s THEN Queued(r) \ {h} ELSE Queued(r)
    BY <1>1, <1>4, <1>8, <1>9 DEF Queued, Active
  <1>11. WakeUps' /\ mail' \in [SemBoxes -> Boxes(Procs)] /\ \A m \in Mutexes : mail'[m] = mail[m]
    <2>1. f.at \in {"user", "freeing"} /\ frame[p].at \in {"user", "freeing"}
      BY <1>3, <1>5
    <2>2. h # NULL => h # p /\ Waits(h) /\ frame[h].sem = s /\ Unsent(h) /\ Wakers(h) = {}
      BY <1>6
    <2>3. QED
      BY <1>3, <1>4, <1>5, <1>10, <2>1, <2>2, FreeingWakes
  <1>12. Mutexed'
    <2>1. f.at \notin {"P", "V"} /\ frame[p].at \notin {"P", "V"}
      BY <1>3, <1>5
    <2>2. \A r \in Sems : /\ semTable'[r].mboxID = semTable[r].mboxID
                          /\ semTable'[r].status \in {semTable[r].status, "EMPTY"}
      BY <1>7, <1>8 DEF EntryTo
    <2>3. QED
      BY <1>3, <1>5, <1>11, <2>1, <2>2, MutexesStay
  <1>13. /\ frame' \in [Procs -> CallFrames] /\ frame'[p] = f
         /\ \A x \in Procs \ {p} : frame'[x] = frame[x]
    BY <1>3, <1>5, SetsMove DEF SemInv
  <1>14. FramesOK'
    <2>1. Fits(p, f)'
      BY <1>5 DEF Fits
    <2>2. ASSUME NEW x \in Procs \ {p}, frame[x].at \in {"P", "passed", "V", "waking"}, Active(frame[x].sem)
          PROVE  semTable'[frame[x].sem].status = "ACTIVE"
      <3>1. frame[x].sem \in Sems
        BY <2>2 DEF SemInv, FramesOK, Fits
      <3>2. frame[x].sem # s
        BY <1>3, <2>2 DEF MayFree, Inside
      <3>3. QED
        BY <1>8, <2>2, <3>1, <3>2 DEF Active
    <2>3. QED
      BY <1>3, <1>5, <2>1, <2>2, FramesStay DEF SemInv
  <1>15. Freeing'
    <2>1. Freers(s) = {}
      BY <1>4 DEF SemInv, Freeing
    <2>2. ASSUME NEW r \in Sems, r # s PROVE Freers(r)' = Freers(r)
      <3>1. p \notin Freers(r) /\ ~(f.at = "freeing" /\ f.sem = r)
        BY <1>3, <1>5, <2>2 DEF Freers
      <3>2. Freers(r)' = IF f.at = "freeing" /\ f.sem = r THEN Freers(r) \cup {p} ELSE Freers(r) \ {p}
        BY <1>3, <1>5, SetsMove DEF SemInv
      <3>3. QED
        BY <3>1, <3>2
    <2>3. Freers(s)' = IF h = NULL THEN {} ELSE {p}
      <3>1. Freers(s)' = IF f.at = "freeing" /\ f.sem = s THEN Freers(s) \cup {p} ELSE Freers(s) \ {p}
        BY <1>3, <1>5, SetsMove DEF SemInv
      <3>2. QED
        BY <1>5, <2>1, <3>1
    <2>4. ASSUME NEW r \in Sems, r # s
          PROVE  /\ Active(r)' => Freers(r)' = {}
                 /\ ~Active(r)' /\ First(r)' # NULL => \E x \in Procs : Freers(r)' = {x}
                 /\ ~Active(r)' /\ First(r)' = NULL => Freers(r)' = {}
      BY <1>8, <2>2, <2>4 DEF SemInv, Freeing, Active
    <2>5. /\ ~Active(s)'
          /\ First(s)' # NULL => \E x \in Procs : Freers(s)' = {x}
          /\ First(s)' = NULL => Freers(s)' = {}
      BY <1>1, <1>8, <2>3
    <2>6. QED
      BY <2>4, <2>5 DEF Freeing
  <1>16. ASSUME NEW r \in Sems, NEW x \in OnList(r)' PROVE Belongs(x, frame[x], r)'
    <2>1. x \in OnList(r) /\ x \in Procs
      BY <1>9, <1>16, HeadIs DEF SemInv, ListShape
    <2>2. x # p
      BY <1>3, <2>1, Outside
    <2>3. PICK g : g = frame'[x]
      OBVIOUS
    <2>4. Belongs(x, g, r)
      BY <1>13, <2>1, <2>2, <2>3 DEF SemInv, Members
    <2>5. QED
      BY <1>4, <1>8, <2>3, <2>4 DEF Belongs, Active
  <1>17. SemTypeOK'
    BY <1>3, <1>8, <1>11, <1>13 DEF SemInv, SemTypeOK
  <1>18. QED
    BY <1>9, <1>11, <1>12, <1>14, <1>15, <1>16, <1>17 DEF SemInv, Members, ListShape

LEMMA FreeNextKeepsInv ==
  ASSUME SemInv, NEW p \in Procs, NEW s \in Sems, SemFreeNext(p, s)
  PROVE  SemInv'
  <1>1. PICK h, n : h = First(s) /\ n = nextSemBlock[First(s)]
    OBVIOUS
  <1>2. PICK f : f = FreeFrame(s, n)
    OBVIOUS
  <1>3. /\ frame[p].at = "freeing" /\ frame[p].sem = s /\ CanRun(p)
        /\ semTable' = [semTable EXCEPT ![s].blockedList = n] /\ CallGoes(p, f)
        /\ IF n = NULL THEN mail' = mail ELSE Send(p, n)
        /\ nextSemBlock' = nextSemBlock
    BY <1>1, <1>2 DEF SemFreeNext, CallStands, First
  <1>4. ~Active(s) /\ h # NULL /\ Freers(s) = {p}
    <2>1. p \in Freers(s)
      BY <1>3 DEF Freers
    <2>2. QED
      BY <1>1, <2>1 DEF SemInv, Freeing
  <1>5. h \in Procs /\ n \in Procs \cup {NULL}
    <2>1. h \in Procs \cup {NULL}
      BY <1>1, EntryIs DEF SemInv, First
    <2>2. QED
      BY <1>1, <1>4, <2>1 DEF SemInv, SemTypeOK
  <1>6. /\ f \in CallFrames /\ f.wakes = NULL
        /\ n = NULL => f = NoCall /\ f.at = "user"
        /\ n # NULL => f.at = "freeing" /\ f.sem = s
    BY <1>2, FrameKinds DEF FreeFrame
  <1>7. EntryTo(s, semTable[s].status, semTable[s].count, n, semTable[s].mboxID)
    BY <1>3, <1>5, FirstSet DEF SemInv
  <1>8. /\ semTable' \in [Sems -> Semaphore] /\ First(s)' = n
        /\ \A r \in Sems : /\ semTable'[r].status = semTable[r].status
                           /\ semTable'[r].mboxID = semTable[r].mboxID
                           /\ r # s => First(r)' = First(r)
    BY <1>7 DEF EntryTo, First
  <1>9. /\ OnList(s)' = OnList(s) \ {h} /\ Proper(s)' /\ (n # NULL => n \in OnList(s) \ {h})
    BY <1>1, <1>3, <1>4, <1>8, HeadLeaves DEF SemInv, ListShape
  <1>10. \A r \in Sems : Proper(r)' /\ OnList(r)' = IF r = s THEN OnList(r) \ {h} ELSE OnList(r)
    <2>1. ASSUME NEW r \in Sems, r # s PROVE OnList(r)' = OnList(r) /\ Proper(r)'
      BY <1>3, <1>8, <2>1, SameList DEF SemInv, ListShape
    <2>2. QED
      BY <1>9, <2>1
  <1>11. \A r \in Sems : Queued(r)' = IF r = s THEN Queued(r) \ {n} ELSE Queued(r)
    <2>1. Queued(s) = OnList(s) \ {h}
      BY <1>1, <1>4 DEF Queued
    <2>2. Queued(s)' = OnList(s)' \ {n}
      BY <1>4, <1>8 DEF Queued, Active
    <2>3. \A r \in Sems : r # s => Queued(r)' = Queued(r)
      BY <1>8, <1>10 DEF Queued, Active
    <2>4. QED
      BY <1>9, <2>1, <2>2, <2>3
  <1>12. n # NULL => n # p /\ Waits(n) /\ frame[n].sem = s /\ Unsent(n) /\ Wakers(n) = {}
    <2>1. SUFFICES ASSUME n # NULL PROVE n # p /\ Waits(n) /\ frame[n].sem = s /\ Unsent(n) /\ Wakers(n) = {}
      OBVIOUS
    <2>2. n \in Procs /\ n \in OnList(s) /\ n # h /\ Belongs(n, frame[n], s)
      BY <1>5, <1>9, <2>1 DEF SemInv, Members
    <2>3. Waits(n) /\ frame[n].sem = s /\ n \in Queued(s) /\ WakeUp(n)
      BY <1>1, <2>2 DEF Belongs, Waits, Queued, SemInv, WakeUps
    <2>4. QED
      BY <1>3, <2>3 DEF WakeUp, Waits
  <1>13. WakeUps' /\ mail' \in [SemBoxes -> Boxes(Procs)] /\ \A m \in Mutexes : mail'[m] = mail[m]
    <2>1. f.at \in {"user", "freeing"} /\ frame[p].at \in {"user", "freeing"}
      BY <1>3, <1>6
    <2>2. QED
      BY <1>3, <1>5, <1>6, <1>11, <1>12, <2>1, FreeingWakes
  <1>14. Mutexed'
    <2>1. f.at \notin {"P", "V"} /\ frame[p].at \notin {"P", "V"}
      BY <1>3, <1>6
    <2>2. QED
      BY <1>3, <1>6, <1>8, <1>13, <2>1, MutexesStay
  <1>15. /\ frame' \in [Procs -> CallFrames] /\ frame'[p] = f
         /\ \A x \in Procs \ {p} : frame'[x] = frame[x]
    BY <1>3, <1>6, SetsMove DEF SemInv
  <1>16. FramesOK'
    <2>1. Fits(p, f)'
      BY <1>6 DEF Fits
    <2>2. \A x \in Procs : frame[x].at \in {"P", "passed", "V", "waking"} => frame[x].sem \in Sems
      BY DEF SemInv, FramesOK, Fits
    <2>3. QED
      BY <1>3, <1>6, <1>8, <2>1, <2>2, FramesStay DEF SemInv, Active
  <1>17. Freeing'
    <2>1. ASSUME NEW r \in Sems, r # s PROVE Freers(r)' = Freers(r)
      <3>1. p \notin Freers(r) /\ ~(f.at = "freeing" /\ f.sem = r)
        BY <1>3, <1>6, <2>1 DEF Freers
      <3>2. Freers(r)' = IF f.at = "freeing" /\ f.sem = r THEN Freers(r) \cup {p} ELSE Freers(r) \ {p}
        BY <1>3, <1>6, SetsMove DEF SemInv
      <3>3. QED
        BY <3>1, <3>2
    <2>2. Freers(s)' = IF n = NULL THEN {} ELSE {p}
      <3>1. Freers(s)' = IF f.at = "freeing" /\ f.sem = s THEN Freers(s) \cup {p} ELSE Freers(s) \ {p}
        BY <1>3, <1>6, SetsMove DEF SemInv
      <3>2. QED
        BY <1>4, <1>6, <3>1
    <2>3. ASSUME NEW r \in Sems, r # s
          PROVE  /\ Active(r)' => Freers(r)' = {}
                 /\ ~Active(r)' /\ First(r)' # NULL => \E x \in Procs : Freers(r)' = {x}
                 /\ ~Active(r)' /\ First(r)' = NULL => Freers(r)' = {}
      BY <1>8, <2>1, <2>3 DEF SemInv, Freeing, Active
    <2>4. /\ ~Active(s)'
          /\ First(s)' # NULL => \E x \in Procs : Freers(s)' = {x}
          /\ First(s)' = NULL => Freers(s)' = {}
      BY <1>4, <1>8, <2>2 DEF Active
    <2>5. QED
      BY <2>3, <2>4 DEF Freeing
  <1>18. ASSUME NEW r \in Sems, NEW x \in OnList(r)' PROVE Belongs(x, frame[x], r)'
    <2>1. x \in OnList(r) /\ x \in Procs /\ (r = s => x # h)
      BY <1>10, <1>18, HeadIs DEF SemInv, ListShape
    <2>2. x # p
      BY <1>3, <2>1, Outside
    <2>3. PICK g : g = frame'[x]
      OBVIOUS
    <2>4. Belongs(x, g, r)
      BY <1>15, <2>1, <2>2, <2>3 DEF SemInv, Members
    <2>5. QED
      BY <1>1, <1>8, <2>1, <2>3, <2>4 DEF Belongs, Active
  <1>19. SemTypeOK'
    BY <1>3, <1>8, <1>13, <1>15 DEF SemInv, SemTypeOK
  <1>20. QED
    BY <1>10, <1>13, <1>14, <1>16, <1>17, <1>18, <1>19 DEF SemInv, Members, ListShape

LEMMA CreateKeepsInv ==
  ASSUME SemInv, NEW p \in Procs, NEW s \in Sems, NEW value \in Values, NEW m \in Mutexes,
         SemCreate(p, s, value, m)
  PROVE  SemInv'
  <1>1. /\ frame[p].at = "user" /\ CanRun(p) /\ semTable[s].status = "EMPTY" /\ Inside(s) = {}
        /\ semTable' = [semTable EXCEPT ![s] = Created(s, value, m)] /\ MboxCreate(m)
        /\ nextSemBlock' = nextSemBlock /\ frame' = frame
    BY DEF SemCreate, MayCall, CallStands
  <1>2. /\ \A x : Wakers(x)' = Wakers(x)
        /\ \A r : Freers(r)' = Freers(r)
    BY <1>1 DEF Wakers, Freers
  <1>3. First(s) = NULL /\ OnList(s) = {} /\ Freers(s) = {}
    <2>1. Freers(s) = {}
      BY <1>1 DEF Freers, Inside
    <2>2. ~Active(s)
      BY <1>1 DEF Active
    <2>3. First(s) = NULL
      <3>1. \A x \in Procs : Freers(s) # {x}
        BY <2>1
      <3>2. QED
        BY <2>2, <3>1 DEF SemInv, Freeing
    <2>4. QED
      BY <2>1, <2>3, HeadIs DEF SemInv, ListShape
  <1>4. EntryTo(s, "ACTIVE", value, NULL, m)
    BY <1>1, CreatedSet DEF SemInv
  <1>5. /\ semTable' \in [Sems -> Semaphore] /\ Active(s)' /\ semTable'[s].mboxID = m
        /\ \A r \in Sems : First(r)' = First(r)
        /\ \A r \in Sems \ {s} : semTable'[r] = semTable[r]
    BY <1>3, <1>4 DEF EntryTo, First, Active
  <1>6. \A r \in Sems : OnList(r)' = OnList(r) /\ Proper(r)'
    BY <1>1, <1>5, SameList DEF SemInv, ListShape
  <1>7. \A r \in Sems : Queued(r)' = Queued(r)
    BY <1>3, <1>5, <1>6 DEF Queued, Active
  <1>8. /\ mail[m].slots = 0 /\ mail' \in [SemBoxes -> Boxes(Procs)]
        /\ mail'[m].slots = 1 /\ mail'[m].sent = <<>> /\ mail'[m].waiting = <<>>
        /\ \A c \in SemBoxes \ {m} : mail'[c] = mail[c]
    <2>1. PICK b : b = NewBox(1)
      OBVIOUS
    <2>2. <<>> \in Seq(Procs)
      OBVIOUS
    <2>3. b \in Boxes(Procs) /\ b.slots = 1 /\ b.sent = <<>> /\ b.waiting = <<>>
      BY <2>1, <2>2 DEF NewBox, Boxes
    <2>4. mail' = [mail EXCEPT ![m] = b] /\ mail[m].slots = 0 /\ m \in SemBoxes
      BY <1>1, <2>1, BoxesAre DEF MboxCreate, Unused
    <2>5. mail \in [SemBoxes -> Boxes(Procs)]
      BY DEF SemInv, SemTypeOK
    <2>6. QED
      BY <2>3, <2>4, <2>5
  <1>9. \A x \in Procs : mail'[x] = mail[x]
    BY <1>8, BoxesAre
  <1>10. \A r \in Sems : semTable[r].mboxID # m
    <2>1. ASSUME NEW r \in Sems, semTable[r].mboxID = m PROVE FALSE
      <3>1. semTable[r].mboxID # NULL
        BY <2>1, BoxesAre
      <3>2. mail[semTable[r].mboxID].slots = 1
        BY <3>1 DEF SemInv, Mutexed
      <3>3. QED
        BY <1>8, <2>1, <3>2
    <2>2. QED
      BY <2>1
  <1>11. Mutexed'
    <2>1. ASSUME NEW r \in Sems
          PROVE  /\ semTable'[r].mboxID # NULL => mail'[semTable'[r].mboxID].slots = 1
                 /\ Active(r)' => semTable'[r].mboxID # NULL
      <3>1. CASE r = s
        BY <1>5, <1>8, <3>1, BoxesAre
      <3>2. CASE r # s
        <4>1. semTable'[r] = semTable[r] /\ semTable[r].mboxID # m
          BY <1>5, <1>10, <3>2
        <4>2. semTable[r].mboxID # NULL => semTable[r].mboxID \in SemBoxes
          BY EntryIs, BoxesAre DEF SemInv
        <4>3. QED
          BY <1>8, <4>1, <4>2 DEF SemInv, Mutexed, Active
      <3>3. QED
        BY <3>1, <3>2
    <2>2. ASSUME NEW k \in Mutexes PROVE InMutex(k)' = IF k = m THEN {} ELSE InMutex(k)
      <3>1. ASSUME NEW x \in Procs, frame[x].at \in {"P", "V"}
            PROVE  semTable'[frame[x].sem].mboxID = semTable[frame[x].sem].mboxID /\ frame[x].sem \in Sems
        <4>1. frame[x].sem \in Sems
          BY <3>1 DEF SemInv, FramesOK, Fits
        <4>2. frame[x].sem # s
          BY <1>1 DEF Inside
        <4>3. QED
          BY <1>5, <4>1, <4>2
      <3>2. InMutex(k)' = InMutex(k)
        BY <1>1, <3>1 DEF InMutex
      <3>3. InMutex(m) = {}
        BY <1>10, <3>1 DEF InMutex
      <3>4. QED
        BY <3>2, <3>3
    <2>3. ASSUME NEW k \in Mutexes
          PROVE  /\ mail'[k].slots \in {0, 1} /\ mail'[k].waiting = <<>>
                 /\ \A i, j \in 1..Len(mail'[k].sent) : mail'[k].sent[i] = mail'[k].sent[j] => i = j
                 /\ Elements(mail'[k].sent) = InMutex(k)'
      <3>1. CASE k = m
        <4>1. Len(<<>>) = 0 /\ 1..0 = {}
          OBVIOUS
        <4>2. Elements(<<>>) = {}
          BY <4>1 DEF Elements
        <4>3. InMutex(k)' = {}
          BY <2>2, <3>1
        <4>4. QED
          BY <1>8, <3>1, <4>1, <4>2, <4>3
      <3>2. CASE k # m
        <4>1. mail'[k] = mail[k] /\ InMutex(k)' = InMutex(k)
          BY <1>8, <2>2, <3>2, BoxesAre
        <4>2. QED
          BY <4>1 DEF SemInv, Mutexed
      <3>3. QED
        BY <3>1, <3>2
    <2>4. QED
      BY <2>1, <2>3 DEF Mutexed
  <1>12. FramesOK'
    <2>1. ASSUME NEW x \in Procs PROVE Fits(x, frame[x])'
      <3>1. PICK g : g = frame'[x]
        OBVIOUS
      <3>2. g = frame[x] /\ Fits(x, g)
        BY <1>1, <3>1 DEF SemInv, FramesOK
      <3>3. ASSUME g.sem \in Sems, Active(g.sem) PROVE Active(g.sem)'
        BY <1>5, <3>3 DEF Active
      <3>4. QED
        BY <1>1, <3>1, <3>2, <3>3 DEF Fits
    <2>2. QED
      BY <2>1 DEF FramesOK
  <1>13. Freeing'
    <2>1. ASSUME NEW r \in Sems
          PROVE  /\ Active(r)' => Freers(r)' = {}
                 /\ ~Active(r)' /\ First(r)' # NULL => \E x \in Procs : Freers(r)' = {x}
                 /\ ~Active(r)' /\ First(r)' = NULL => Freers(r)' = {}
      <3>1. CASE r = s
        BY <1>2, <1>3, <1>5, <3>1
      <3>2. CASE r # s
        <4>1. Active(r)' = Active(r) /\ First(r)' = First(r)
          BY <1>5, <3>2 DEF Active
        <4>2. QED
          BY <1>2, <4>1 DEF SemInv, Freeing
      <3>3. QED
        BY <3>1, <3>2
    <2>2. QED
      BY <2>1 DEF Freeing
  <1>14. ASSUME NEW r \in Sems, NEW x \in OnList(r)' PROVE Belongs(x, frame[x], r)'
    <2>1. x \in OnList(r) /\ r # s
      BY <1>3, <1>6, <1>14
    <2>2. PICK g : g = frame'[x]
      OBVIOUS
    <2>3. Belongs(x, g, r)
      BY <1>1, <2>1, <2>2 DEF SemInv, Members
    <2>4. Active(r)' = Active(r)
      BY <1>5, <2>1 DEF Active
    <2>5. QED
      BY <1>5, <2>2, <2>3, <2>4 DEF Belongs
  <1>15. WakeUps'
    <2>1. ASSUME NEW x \in Procs PROVE WakeUp(x)'
      <3>1. WakeUp(x)
        BY DEF SemInv, WakeUps
      <3>2. Waits(x)' = Waits(x) /\ Unsent(x)' = Unsent(x) /\ Arrived(x)' = Arrived(x)
        BY <1>1, <1>9 DEF Waits, Unsent, Arrived
      <3>3. QED
        BY <1>1, <1>2, <1>7, <1>9, <3>1, <3>2 DEF WakeUp
    <2>2. QED
      BY <2>1 DEF WakeUps
  <1>16. SemTypeOK'
    BY <1>1, <1>5, <1>8 DEF SemInv, SemTypeOK
  <1>17. QED
    BY <1>6, <1>11, <1>12, <1>13, <1>14, <1>15, <1>16 DEF SemInv, Members, ListShape
-----------------------------------------------------------------------------
(* The invariant.                                                          *)
LEMMA InvBegins == SemInit => SemInv
  <1> SUFFICES ASSUME SemInit PROVE SemInv
    OBVIOUS
  <1>1. /\ \A p \in Procs : frame[p] = NoCall /\ frame[p].at = "user" /\ frame[p].wakes = NULL
        /\ frame \in [Procs -> CallFrames]
    BY FrameKinds DEF SemInit
  <1>2. /\ \A b \in SemBoxes : mail[b].slots = 0 /\ mail[b].sent = <<>> /\ mail[b].waiting = <<>>
        /\ mail \in [SemBoxes -> Boxes(Procs)]
    <2>1. <<>> \in Seq(Procs)
      OBVIOUS
    <2>2. QED
      BY <2>1 DEF SemInit, NewBox, Boxes
  <1>3. /\ \A s \in Sems : ~Active(s) /\ First(s) = NULL /\ semTable[s].mboxID = NULL
        /\ semTable \in [Sems -> Semaphore]
    BY DEF SemInit, EmptySem, Active, First, Semaphore
  <1>4. SemTypeOK
    BY <1>1, <1>2, <1>3 DEF SemInit, SemTypeOK
  <1>5. FramesOK
    BY <1>1 DEF FramesOK, Fits
  <1>6. Freeing
    BY <1>1, <1>3 DEF Freeing, Freers
  <1>7. ListShape /\ \A s \in Sems : OnList(s) = {}
    <2>1. ASSUME NEW s \in Sems PROVE Proper(s)
      <3>1. <<>> \in Seq(Procs) /\ Len(<<>>) = 0 /\ 1..0 = {}
        OBVIOUS
      <3>2. IsChain(<<>>, First(s), nextSemBlock, NULL)
        BY <1>3, <3>1 DEF IsChain
      <3>3. QED
        BY <3>1, <3>2 DEF Proper
    <2>2. QED
      BY <1>3, <2>1, HeadIs DEF ListShape
  <1>8. Members
    BY <1>7 DEF Members
  <1>9. Mutexed
    <2>1. \A m \in Mutexes : InMutex(m) = {}
      BY <1>1 DEF InMutex
    <2>2. Len(<<>>) = 0 /\ 1..0 = {}
      OBVIOUS
    <2>3. Elements(<<>>) = {}
      BY <2>2 DEF Elements
    <2>4. QED
      BY <1>2, <1>3, <2>1, <2>2, <2>3, BoxesAre DEF Mutexed
  <1>10. WakeUps
    BY <1>1, <1>2, BoxesAre DEF WakeUps, WakeUp, Waits, Wakers
  <1>11. QED
    BY <1>4, <1>5, <1>6, <1>7, <1>8, <1>9, <1>10 DEF SemInv

LEMMA InvStutters == SemInv /\ UNCHANGED semVars => SemInv'
  <1> SUFFICES ASSUME SemInv, UNCHANGED semVars PROVE SemInv'
    OBVIOUS
  <1>1. semTable' = semTable /\ nextSemBlock' = nextSemBlock /\ mail' = mail /\ frame' = frame
    BY DEF semVars
  <1>2. ListShape' /\ \A s \in Sems : OnList(s)' = OnList(s) /\ Queued(s)' = Queued(s)
    BY <1>1, QuietLists DEF TableStays, SemInv
  <1>3. SemTypeOK' /\ FramesOK' /\ Freeing'
    BY <1>1 DEF SemInv, SemTypeOK, FramesOK, Fits, Freeing, Active, First, Freers
  <1>4. Members'
    BY <1>1, <1>2 DEF SemInv, Members, Belongs, Active, First
  <1>5. Mutexed'
    BY <1>1 DEF SemInv, Mutexed, Active, InMutex
  <1>6. WakeUps'
    BY <1>1, <1>2 DEF SemInv, WakeUps, WakeUp, Waits, Unsent, Arrived, Wakers
  <1>7. QED
    BY <1>2, <1>3, <1>4, <1>5, <1>6 DEF SemInv

LEMMA NextKeepsInv ==
  ASSUME SemInv, NEW p \in Procs, NEW s \in Sems, SemCall(p, s) \/ SemContinue(p, s)
  PROVE  SemInv'
  <1>1. CASE \E value \in Values, m \in Mutexes : SemCreate(p, s, value, m)
    BY <1>1, CreateKeepsInv
  <1>2. CASE SemP(p, s) \/ SemV(p, s)
    BY <1>2, EntersKeepInv
  <1>3. CASE SemFree(p, s)
    BY <1>3, FreeKeepsInv
  <1>4. CASE SemPWaits(p, s)
    BY <1>4, WaitsKeepsInv
  <1>5. CASE SemPPasses(p, s)
    BY <1>5, PassesKeepsInv
  <1>6. CASE SemPSleeps(p, s)
    BY <1>6, SleepsKeepsInv
  <1>7. CASE SemPFreed(p, s) \/ SemPTakes(p, s)
    BY <1>7, EndsOfPKeepInv
  <1>8. CASE SemVPosts(p, s)
    BY <1>8, PostsQuietly, PostsKeepsInv
  <1>9. CASE SemVWakes(p, s)
    BY <1>9, WakesKeepsInv
  <1>10. CASE SemFreeNext(p, s)
    BY <1>10, FreeNextKeepsInv
  <1>11. QED
    BY <1>1, <1>2, <1>3, <1>4, <1>5, <1>6, <1>7, <1>8, <1>9, <1>10 DEF SemCall, SemContinue

LEMMA SemInvAlways == SemSpec => []SemInv
  <1>1. SemInv /\ [SemNext]_semVars => SemInv'
    BY NextKeepsInv, InvStutters DEF SemNext
  <1>2. QED
    BY <1>1, InvBegins, PTL DEF SemSpec

(* The table, the links, the mailboxes and the frames keep their types in  *)
(* every behaviour of the semaphores: semP, semV, semCreate and semFree.   *)
THEOREM SemTypeCorrect == SemSpec => []SemTypeOK
  <1>1. SemInv => SemTypeOK
    BY DEF SemInv
  <1>2. QED
    BY <1>1, SemInvAlways, PTL

(* Every process that waits and is on no list is about to be woken, and a  *)
(* list holds those who wait: who adds to, posts on and frees a semaphore  *)
(* forgets nobody (AddToSemBlockList, semV and semFree).                   *)
THEOREM NobodyForgotten == SemSpec => []SleeperListed
  <1>1. ASSUME SemInv PROVE SleeperListed
    <2>1. ASSUME NEW p \in Procs, NEW s \in Sems, p \in OnList(s)
          PROVE  (frame[p].sem = s /\ frame[p].at \in {"asleep", "woken"}) \/ semTable[s].status = "EMPTY"
      <3>1. Belongs(p, frame[p], s)
        BY <1>1, <2>1 DEF SemInv, Members
      <3>2. semTable[s].status \in {"EMPTY", "ACTIVE"}
        BY <1>1, EntryIs DEF SemInv
      <3>3. QED
        BY <3>1, <3>2 DEF Belongs, Active
    <2>2. ASSUME NEW p \in Procs, NEW s \in Sems, frame[p].sem = s, frame[p].at \in {"asleep", "woken"},
                 p \notin OnList(s)
          PROVE  \/ \E q \in Procs : frame[q].at = "waking" /\ frame[q].wakes = p
                 \/ \E i \in DOMAIN mail[p].sent : TRUE
                 \/ ~Blocked(p) /\ frame[p].at = "woken"
      <3>1. WakeUp(p) /\ p \notin Queued(s)
        BY <1>1, <2>2 DEF SemInv, WakeUps, Queued
      <3>2. (\E w \in Procs : Wakers(p) = {w}) \/ Arrived(p)
        BY <2>2, <3>1 DEF WakeUp, Waits
      <3>3. ASSUME NEW w \in Procs, Wakers(p) = {w} PROVE frame[w].at = "waking" /\ frame[w].wakes = p
        BY <3>3 DEF Wakers
      <3>4. ASSUME Arrived(p), frame[p].at = "asleep" PROVE \E i \in DOMAIN mail[p].sent : TRUE
        <4>1. PICK w \in Procs : mail[p].sent = <<w>>
          BY <3>4 DEF Arrived
        <4>2. 1 \in DOMAIN <<w>>
          OBVIOUS
        <4>3. QED
          BY <4>1, <4>2
      <3>5. ASSUME Arrived(p), frame[p].at = "woken" PROVE ~Blocked(p)
        <4>1. SUFFICES ASSUME NEW b \in SemBoxes, WaitsOn(mail[b], p) PROVE FALSE
          BY DEF Blocked
        <4>2. PICK a, v : a = mail[b].sent /\ v = mail[b].waiting
          OBVIOUS
        <4>3. (\E i \in DOMAIN v : v[i] = p) \/ (\E i \in DOMAIN a : a[i] = p)
          BY <4>1, <4>2 DEF WaitsOn, Receives, Sends
        <4>4. DOMAIN <<>> = {} /\ \A w : DOMAIN <<w>> = {1} /\ <<w>>[1] = w
          OBVIOUS
        <4>5. CASE b \in Mutexes
          <5>1. v = <<>> /\ Elements(a) = InMutex(b) /\ a \in Seq(Procs)
            BY <1>1, <4>2, <4>5 DEF SemInv, SemTypeOK, Boxes, Mutexed
          <5>2. p \in Elements(a)
            BY <4>3, <4>4, <5>1 DEF Elements
          <5>3. QED
            BY <3>5, <5>1, <5>2 DEF InMutex
        <4>6. CASE b \in Procs
          <5>1. WakeUp(b) /\ Fits(b, frame[b])
            BY <1>1, <4>6 DEF SemInv, WakeUps, FramesOK
          <5>2. \/ a = <<>> /\ v = <<>>
                \/ Unsent(b)
                \/ Arrived(b)
            BY <4>2, <5>1 DEF WakeUp, Waits, Fits
          <5>3. CASE a = <<>> /\ v = <<>>
            BY <4>3, <4>4, <5>3
          <5>4. CASE Unsent(b)
            <6>1. a = <<>> /\ (v = <<>> \/ v = <<b>>)
              BY <4>2, <5>4 DEF Unsent
            <6>2. v = <<b>> /\ b = p
              BY <4>3, <4>4, <6>1
            <6>3. QED
              BY <3>5, <4>2, <4>4, <6>2 DEF Arrived
          <5>5. CASE Arrived(b)
            <6>1. v = <<>> /\ \E i \in DOMAIN a : a[i] = p
              BY <4>2, <4>3, <4>4, <5>5 DEF Arrived
            <6>2. b # p
              BY <3>5, <4>2, <4>4, <6>1 DEF Arrived
            <6>3. a = <<>> \/ \E w \in Procs : a = <<w>> /\ frame[w].at \in {"user", "freeing"}
              <7>1. CASE frame[b].at = "asleep"
                BY <4>2, <5>5, <7>1 DEF Arrived
              <7>2. CASE frame[b].at = "woken"
                BY <4>2, <5>5, <7>2 DEF Arrived
              <7>3. CASE ~Waits(b)
                BY <4>2, <5>1, <7>3 DEF WakeUp
              <7>4. QED
                BY <7>1, <7>2, <7>3 DEF Waits
            <6>4. QED
              BY <3>5, <4>4, <6>1, <6>3
          <5>6. QED
            BY <5>2, <5>3, <5>4, <5>5
        <4>7. QED
          BY <4>5, <4>6 DEF SemBoxes
      <3>6. QED
        BY <2>2, <3>2, <3>3, <3>4, <3>5
    <2>3. QED
      BY <2>1, <2>2 DEF SleeperListed
  <1>2. QED
    BY <1>1, SemInvAlways, PTL
-----------------------------------------------------------------------------
(* Units and the processes that are certain to take one.                   *)
Owes(p, f, s) ==
    f.sem = s /\ (f.at = "passed" \/ (f.at \in {"asleep", "woken"} /\ p \notin OnList(s)))

(* What a step does to a semaphore.                                        *)
Kept(s) ==
    /\ semTable'[s].count = semTable[s].count
    /\ Active(s)' => Active(s) /\ Owing(s)' = Owing(s) /\ OnList(s)' = OnList(s)

Begun(s) ==
    /\ ~Active(s) /\ Active(s)' /\ semTable'[s].count >= 0 /\ semTable'[s].count \in Values
    /\ Owing(s)' = {} /\ OnList(s)' = {}

Queues(s) ==
    /\ Active(s) /\ Active(s)' /\ semTable[s].count < 1
    /\ semTable'[s].count = semTable[s].count /\ Owing(s)' = Owing(s)

Passes(p, s) ==
    /\ Active(s) /\ Active(s)' /\ semTable[s].count >= 1
    /\ semTable'[s].count = semTable[s].count
    /\ Owing(s)' = Owing(s) \cup {p} /\ OnList(s)' = OnList(s)

Takes(p, s) ==
    /\ Active(s) /\ Active(s)' /\ semTable'[s].count = semTable[s].count - 1
    /\ p \in Owing(s) /\ Owing(s)' = Owing(s) \ {p} /\ OnList(s)' = OnList(s)

Posts(s) ==
    /\ Active(s) /\ Active(s)' /\ semTable'[s].count = semTable[s].count + 1
    /\ \/ OnList(s)' = {}
       \/ \E h \in Procs \ Owing(s) : Owing(s)' = Owing(s) \cup {h} /\ OnList(s) # {}

LEMMA OwingIs ==
  ASSUME NEW s \in Sems
  PROVE  Owing(s) = {p \in Procs : Owes(p, frame[p], s)}
  BY DEF Owing, Inside, Owes

LEMMA OwingMoves ==
  ASSUME SemTypeOK, NEW p \in Procs, NEW f \in CallFrames, CallGoes(p, f), NEW s \in Sems
  PROVE  /\ Owing(s) \subseteq Procs /\ Owing(s)' \subseteq Procs
         /\ p \in Owing(s)' <=> Owes(p, f, s)'
         /\ OnList(s)' \ {p} = OnList(s) \ {p} => Owing(s)' \ {p} = Owing(s) \ {p}
  <1>1. Owing(s)' = {x \in Procs : Owes(x, frame[x], s)'}
    BY DEF Owing, Inside, Owes
  <1>2. frame'[p] = f /\ \A x \in Procs \ {p} : frame'[x] = frame[x]
    BY SetsMove
  <1>3. p \in Owing(s)' <=> Owes(p, f, s)'
    BY <1>1, <1>2 DEF Owes
  <1>4. ASSUME OnList(s)' \ {p} = OnList(s) \ {p}, NEW x \in Procs \ {p} PROVE Owes(x, frame[x], s)' <=> Owes(x, frame[x], s)
    <2>1. x \in OnList(s)' <=> x \in OnList(s)
      BY <1>4
    <2>2. QED
      BY <1>2, <2>1 DEF Owes
  <1>5. ASSUME OnList(s)' \ {p} = OnList(s) \ {p} PROVE Owing(s)' \ {p} = Owing(s) \ {p}
    BY <1>1, <1>4, <1>5, OwingIs
  <1>6. QED
    BY <1>1, <1>3, <1>5, OwingIs

(* Nothing happens to a semaphore that p is not in, or with which p stands *)
(* as before.                                                              *)
LEMMA KeptBy ==
  ASSUME SemInv, NEW p \in Procs, NEW f \in CallFrames, CallGoes(p, f), NEW s \in Sems,
         semTable'[s].count = semTable[s].count, semTable'[s].status = semTable[s].status,
         OnList(s)' = OnList(s), Owes(p, f, s) <=> Owes(p, frame[p], s)
  PROVE  Kept(s)
  <1>1. /\ Owing(s) \subseteq Procs /\ Owing(s)' \subseteq Procs
        /\ p \in Owing(s)' <=> Owes(p, f, s)'
        /\ Owing(s)' \ {p} = Owing(s) \ {p}
    BY OwingMoves DEF SemInv
  <1>2. Owes(p, f, s)' <=> Owes(p, f, s)
    BY DEF Owes
  <1>3. p \in Owing(s)' <=> p \in Owing(s)
    BY <1>1, <1>2, OwingIs
  <1>4. Owing(s)' = Owing(s)
    BY <1>1, <1>3
  <1>5. QED
    BY <1>4 DEF Kept, Active

LEMMA KeptByOthers ==
  ASSUME SemInv, NEW p \in Procs, NEW f \in CallFrames, CallGoes(p, f), NEW s \in Sems, NEW r \in Sems, r # s,
         frame[p].at = "user" \/ frame[p].sem = s, f.at \in {"user", "gone"} \/ f.sem = s,
         semTable'[r] = semTable[r], OnList(r)' = OnList(r)
  PROVE  Kept(r) /\ Active(r)' = Active(r)
  <1>1. ~Owes(p, f, r) /\ ~Owes(p, frame[p], r)
    BY DEF Owes
  <1>2. QED
    BY <1>1, KeptBy DEF Active

LEMMA Tables ==
  ASSUME SemInv, NEW p \in Procs, NEW s \in Sems, SemCall(p, s) \/ SemContinue(p, s)
  PROVE  \A r \in Sems \ {s} : semTable'[r] = semTable[r] /\ OnList(r)' = OnList(r)
  <1>1. semTable \in [Sems -> Semaphore]
    BY DEF SemInv, SemTypeOK
  <1>2. \A r \in Sems \ {s} : semTable'[r] = semTable[r]
    <2>1. \/ semTable' = semTable
          \/ \E e : semTable' = [semTable EXCEPT ![s] = e]
      BY DEF SemCall, SemContinue, SemCreate, SemP, SemV, SemFree, SemPWaits, AddToSemBlockList, SemPPasses,
             SemPSleeps, SemPFreed, SemPTakes, SemVPosts, SemVWakes, SemFreeNext
    <2>2. QED
      BY <1>1, <2>1
  <1>3. CASE SemPWaits(p, s)
    BY <1>2, <1>3, AddDoes DEF SemPWaits, CallStands
  <1>4. CASE ~SemPWaits(p, s)
    <2>1. nextSemBlock' = nextSemBlock
      BY <1>4 DEF SemCall, SemContinue, SemCreate, SemP, SemV, SemFree, SemPPasses, SemPSleeps, SemPFreed,
                  SemPTakes, SemVPosts, SemVWakes, SemFreeNext
    <2>2. \A r \in Sems \ {s} : First(r)' = First(r)
      BY <1>2 DEF First
    <2>3. QED
      BY <1>2, <2>1, <2>2, SameList DEF SemInv, ListShape
  <1>5. QED
    BY <1>3, <1>4

(* Where p stands before and after its step.                               *)
LEMMA Stands ==
  ASSUME SemInv, NEW p \in Procs, NEW s \in Sems, SemCall(p, s) \/ SemContinue(p, s)
  PROVE  /\ frame[p].at = "user" \/ frame[p].sem = s
         /\ \E f \in CallFrames : CallGoes(p, f) /\ (f.at \in {"user", "gone"} \/ f.sem = s)
  <1>1. CASE \E value \in Values, m \in Mutexes : SemCreate(p, s, value, m)
    <2>1. frame[p] \in CallFrames /\ frame[p].at = "user" /\ CallGoes(p, frame[p])
      BY <1>1 DEF SemCreate, MayCall, CallStands, CallGoes, SemInv, SemTypeOK
    <2>2. QED
      BY <2>1
  <1>2. CASE SemP(p, s)
    BY <1>2, FrameKinds DEF SemP, MayCall, CallStands
  <1>3. CASE SemV(p, s)
    BY <1>3, FrameKinds DEF SemV, MayCall, CallStands
  <1>4. CASE SemFree(p, s)
    BY <1>4, FrameKinds DEF SemFree, MayCall, CallStands, FreeFrame
  <1>5. CASE SemPWaits(p, s)
    BY <1>5, FrameKinds DEF SemPWaits, CallStands
  <1>6. CASE SemPPasses(p, s)
    BY <1>6, FrameKinds DEF SemPPasses, CallStands
  <1>7. CASE SemPSleeps(p, s)
    BY <1>7, FrameKinds DEF SemPSleeps, CallStands
  <1>8. CASE SemPFreed(p, s)
    BY <1>8, FrameKinds DEF SemPFreed, CallStands
  <1>9. CASE SemPTakes(p, s)
    BY <1>9, FrameKinds DEF SemPTakes, CallStands
  <1>10. CASE SemVPosts(p, s)
    <2>1. First(s) \in Procs \cup {NULL}
      BY EntryIs DEF SemInv, First
    <2>2. QED
      BY <1>10, <2>1, FrameKinds DEF SemVPosts, CallStands, First
  <1>11. CASE SemVWakes(p, s)
    BY <1>11, FrameKinds DEF SemVWakes, CallStands
  <1>12. CASE SemFreeNext(p, s)
    BY <1>12, FrameKinds DEF SemFreeNext, CallStands, FreeFrame
  <1>13. QED
    BY <1>1, <1>2, <1>3, <1>4, <1>5, <1>6, <1>7, <1>8, <1>9, <1>10, <1>11, <1>12 DEF SemCall, SemContinue

LEMMA OthersKept ==
  ASSUME SemInv, NEW p \in Procs, NEW s \in Sems, SemCall(p, s) \/ SemContinue(p, s), NEW r \in Sems, r # s
  PROVE  Kept(r) /\ Active(r)' = Active(r)
  <1>1. PICK f \in CallFrames : CallGoes(p, f) /\ (f.at \in {"user", "gone"} \/ f.sem = s)
    BY Stands
  <1>2. /\ frame[p].at = "user" \/ frame[p].sem = s
        /\ semTable'[r] = semTable[r] /\ OnList(r)' = OnList(r)
    BY Stands, Tables
  <1>3. QED
    BY <1>1, <1>2, KeptByOthers

(* A step that leaves the table, and in which p keeps standing as it does. *)
LEMMA QuietKept ==
  ASSUME SemInv, NEW p \in Procs, NEW s \in Sems, SemP(p, s) \/ SemV(p, s) \/ SemPSleeps(p, s) \/ SemVWakes(p, s)
  PROVE  Kept(s)
  <1>1. semTable' = semTable /\ nextSemBlock' = nextSemBlock
    BY DEF SemP, SemV, SemPSleeps, SemVWakes
  <1>2. OnList(s)' = OnList(s)
    BY <1>1, QuietLists DEF TableStays, SemInv
  <1>3. \E f \in CallFrames : CallGoes(p, f) /\ (Owes(p, f, s) <=> Owes(p, frame[p], s))
    <2>1. CASE SemP(p, s)
      BY <2>1, FrameKinds DEF SemP, MayCall, CallStands, Owes
    <2>2. CASE SemV(p, s)
      BY <2>2, FrameKinds DEF SemV, MayCall, CallStands, Owes
    <2>3. CASE SemPSleeps(p, s)
      BY <2>3, FrameKinds DEF SemPSleeps, CallStands, Owes
    <2>4. CASE SemVWakes(p, s)
      BY <2>4, FrameKinds DEF SemVWakes, CallStands, Owes
    <2>5. QED
      BY <2>1, <2>2, <2>3, <2>4
  <1>4. QED
    BY <1>1, <1>2, <1>3, KeptBy

LEMMA EndedKept ==
  ASSUME SemInv, NEW p \in Procs, NEW s \in Sems, SemPFreed(p, s) \/ SemFree(p, s) \/ SemFreeNext(p, s)
  PROVE  Kept(s) /\ ~Active(s)'
  <1>1. CASE SemPFreed(p, s)
    BY <1>1 DEF SemPFreed, Kept, Active
  <1>2. CASE SemFree(p, s)
    <2>1. EntryTo(s, "EMPTY", semTable[s].count, First(s), semTable[s].mboxID)
      BY <1>2, StatusSet DEF SemFree, SemInv
    <2>2. QED
      BY <2>1 DEF EntryTo, Kept, Active
  <1>3. CASE SemFreeNext(p, s)
    <2>1. PICK n : n = nextSemBlock[First(s)]
      OBVIOUS
    <2>2. /\ frame[p].at = "freeing" /\ frame[p].sem = s
          /\ semTable' = [semTable EXCEPT ![s].blockedList = n]
      BY <1>3, <2>1 DEF SemFreeNext, CallStands, First
    <2>3. ~Active(s) /\ First(s) # NULL
      <3>1. p \in Freers(s)
        BY <2>2 DEF Freers
      <3>2. QED
        BY <3>1 DEF SemInv, Freeing
    <2>4. n \in Procs \cup {NULL}
      <3>1. First(s) \in Procs
        BY <2>3, EntryIs DEF SemInv, First
      <3>2. QED
        BY <2>1, <3>1 DEF SemInv, SemTypeOK
    <2>5. EntryTo(s, semTable[s].status, semTable[s].count, n, semTable[s].mboxID)
      BY <2>2, <2>4, FirstSet DEF SemInv
    <2>6. QED
      BY <2>3, <2>5 DEF EntryTo, Kept, Active
  <1>4. QED
    BY <1>1, <1>2, <1>3

LEMMA CreateBooks ==
  ASSUME SemInv, NEW p \in Procs, NEW s \in Sems, NEW value \in Values, NEW m \in Mutexes,
         SemCreate(p, s, value, m)
  PROVE  Begun(s)
  <1>1. /\ semTable[s].status = "EMPTY" /\ Inside(s) = {} /\ value >= 0 /\ frame' = frame
        /\ semTable' = [semTable EXCEPT ![s] = Created(s, value, m)] /\ nextSemBlock' = nextSemBlock
    BY DEF SemCreate
  <1>2. EntryTo(s, "ACTIVE", value, NULL, m)
    BY <1>1, CreatedSet DEF SemInv
  <1>3. First(s)' = NULL /\ Active(s)' /\ ~Active(s) /\ semTable'[s].count = value
    BY <1>1, <1>2 DEF EntryTo, First, Active
  <1>4. OnList(s)' = {}
    <2>1. IsChain(<<>>, First(s)', nextSemBlock', NULL) /\ Elements(<<>>) = {} /\ <<>> \in Seq(Procs)
      BY <1>3 DEF IsChain, Elements
    <2>2. QED
      BY <2>1, NextListIs DEF ListPrimed
  <1>5. Owing(s)' = {}
    <2>1. Inside(s)' = {}
      BY <1>1 DEF Inside
    <2>2. QED
      BY <2>1 DEF Owing
  <1>6. QED
    BY <1>1, <1>3, <1>4, <1>5 DEF Begun

LEMMA WaitsBooks ==
  ASSUME SemInv, NEW p \in Procs, NEW s \in Sems, SemPWaits(p, s)
  PROVE  Queues(s)
  <1>1. /\ frame[p].at = "P" /\ frame[p].sem = s /\ MustWait(s)
        /\ CallGoes(p, Calling("asleep", s, NULL)) /\ AddToSemBlockList(p, s)
    BY DEF SemPWaits, CallStands
  <1>2. Active(s)
    BY <1>1 DEF SemInv, FramesOK, Fits
  <1>3. /\ semTable'[s].status = semTable[s].status /\ semTable'[s].count = semTable[s].count
        /\ OnList(s)' = OnList(s) \cup {p}
    BY <1>1, AddDoes
  <1>4. PICK f : f = Calling("asleep", s, NULL)
    OBVIOUS
  <1>5. f \in CallFrames /\ f.at = "asleep" /\ CallGoes(p, f)
    BY <1>1, <1>4, FrameKinds
  <1>6. /\ p \in Owing(s)' <=> Owes(p, f, s)'
        /\ Owing(s)' \ {p} = Owing(s) \ {p}
    <2>1. OnList(s)' \ {p} = OnList(s) \ {p}
      BY <1>3
    <2>2. QED
      BY <1>5, <2>1, OwingMoves DEF SemInv
  <1>7. p \notin Owing(s) /\ p \notin Owing(s)'
    BY <1>1, <1>3, <1>5, <1>6, OwingIs DEF Owes
  <1>8. Owing(s)' = Owing(s)
    BY <1>6, <1>7
  <1>9. QED
    BY <1>1, <1>2, <1>3, <1>8 DEF Queues, MustWait, Active

LEMMA PassesBooks ==
  ASSUME SemInv, NEW p \in Procs, NEW s \in Sems, SemPPasses(p, s)
  PROVE  Passes(p, s)
  <1>1. /\ frame[p].at = "P" /\ frame[p].sem = s /\ ~MustWait(s)
        /\ CallGoes(p, Calling("passed", s, NULL)) /\ semTable' = semTable /\ nextSemBlock' = nextSemBlock
    BY DEF SemPPasses, CallStands
  <1>2. Active(s) /\ Active(s)' /\ semTable[s].count \in Int
    BY <1>1, EntryIs DEF SemInv, FramesOK, Fits, Active
  <1>3. OnList(s)' = OnList(s)
    BY <1>1, QuietLists DEF TableStays, SemInv
  <1>4. PICK f : f = Calling("passed", s, NULL)
    OBVIOUS
  <1>5. f \in CallFrames /\ f.at = "passed" /\ f.sem = s /\ CallGoes(p, f)
    BY <1>1, <1>4, FrameKinds
  <1>6. /\ p \in Owing(s)' <=> Owes(p, f, s)'
        /\ Owing(s)' \ {p} = Owing(s) \ {p}
    BY <1>3, <1>5, OwingMoves DEF SemInv
  <1>7. p \in Owing(s)'
    BY <1>5, <1>6 DEF Owes
  <1>8. Owing(s)' = Owing(s) \cup {p}
    BY <1>6, <1>7
  <1>9. QED
    BY <1>1, <1>2, <1>3, <1>8 DEF Passes, MustWait

LEMMA TakesBooks ==
  ASSUME SemInv, NEW p \in Procs, NEW s \in Sems, SemPTakes(p, s)
  PROVE  Takes(p, s)
  <1>1. /\ frame[p].at \in {"passed", "woken"} /\ frame[p].sem = s /\ CanRun(p)
        /\ frame[p].at = "woken" => semTable[s].status # "EMPTY"
        /\ semTable' = [semTable EXCEPT ![s].count = @ - 1] /\ CallGoes(p, NoCall)
        /\ nextSemBlock' = nextSemBlock
    BY DEF SemPTakes, CallStands
  <1>2. PICK c : c = semTable[s].count - 1
    OBVIOUS
  <1>3. c \in Int
    BY <1>2, EntryIs DEF SemInv
  <1>4. EntryTo(s, semTable[s].status, c, First(s), semTable[s].mboxID)
    <2>1. semTable' = [semTable EXCEPT ![s].count = c]
      BY <1>1, <1>2
    <2>2. QED
      BY <1>3, <2>1, CountSet DEF SemInv
  <1>5. Active(s)
    BY <1>1, EntryIs DEF SemInv, FramesOK, Fits, Active
  <1>6. p \in Owing(s)
    <2>1. CASE frame[p].at = "passed"
      BY <1>1, <2>1, OwingIs DEF Owes
    <2>2. CASE frame[p].at = "woken"
      <3>1. p \notin OnList(s)
        BY <1>1, <1>5, <2>2, WokenHasMessage DEF Queued
      <3>2. QED
        BY <1>1, <2>2, <3>1, OwingIs DEF Owes
    <2>3. QED
      BY <1>1, <2>1, <2>2
  <1>7. OnList(s)' = OnList(s)
    <2>1. TableStays
      BY <1>1, <1>4 DEF TableStays, EntryTo, First
    <2>2. QED
      BY <2>1, QuietLists DEF SemInv
  <1>8. /\ p \in Owing(s)' <=> Owes(p, NoCall, s)'
        /\ Owing(s)' \ {p} = Owing(s) \ {p}
    BY <1>1, <1>7, FrameKinds, OwingMoves DEF SemInv
  <1>9. p \notin Owing(s)'
    BY <1>8, FrameKinds DEF Owes
  <1>10. Owing(s)' = Owing(s) \ {p}
    BY <1>8, <1>9
  <1>11. QED
    BY <1>2, <1>4, <1>5, <1>6, <1>7, <1>10 DEF Takes, EntryTo, Active

LEMMA PostsBooks ==
  ASSUME SemInv, NEW p \in Procs, NEW s \in Sems, SemVPosts(p, s)
  PROVE  Posts(s)
  <1>1. PICK h, f : h = First(s) /\ f = IF h = NULL THEN NoCall ELSE Calling("waking", s, h)
    OBVIOUS
  <1>2. /\ frame[p].at = "V" /\ frame[p].sem = s /\ nextSemBlock' = nextSemBlock
        /\ semTable' = [semTable EXCEPT ![s] = Posted(s)] /\ CallGoes(p, f)
    BY <1>1 DEF SemVPosts, CallStands, First
  <1>3. EntryTo(s, semTable[s].status, semTable[s].count + 1,
                IF First(s) = NULL THEN NULL ELSE nextSemBlock[First(s)], semTable[s].mboxID)
    BY <1>2, PostedSet DEF SemInv
  <1>4. Active(s) /\ Active(s)' /\ semTable'[s].count = semTable[s].count + 1
    BY <1>2, <1>3 DEF SemInv, FramesOK, Fits, EntryTo, Active
  <1>5. CASE h = NULL
    <2>1. TableStays
      BY <1>1, <1>2, <1>3, <1>5 DEF TableStays, EntryTo, First
    <2>2. OnList(s)' = OnList(s) /\ OnList(s) = {}
      BY <1>1, <1>5, <2>1, QuietLists, HeadIs DEF SemInv, ListShape
    <2>3. QED
      BY <1>4, <2>2 DEF Posts
  <1>6. CASE h # NULL
    <2>1. h \in Procs /\ h \in OnList(s) /\ Waits(h) /\ frame[h].sem = s
      BY <1>1, <1>4, <1>6, HeadWaits DEF Queued
    <2>2. First(s)' = nextSemBlock[First(s)]
      BY <1>1, <1>3, <1>6 DEF EntryTo, First
    <2>3. OnList(s)' = OnList(s) \ {h}
      BY <1>1, <1>2, <1>6, <2>2, HeadLeaves DEF SemInv, ListShape
    <2>4. f \in CallFrames /\ f.at = "waking" /\ h # p
      BY <1>1, <1>2, <1>6, <2>1, FrameKinds DEF Waits
    <2>5. frame'[p] = f /\ \A x \in Procs \ {p} : frame'[x] = frame[x]
      BY <1>2, <2>4, SetsMove DEF SemInv
    <2>6. Owing(s)' = {x \in Procs : Owes(x, frame[x], s)'}
      BY DEF Owing, Inside, Owes
    <2>7. ASSUME NEW x \in Procs PROVE x \in Owing(s)' <=> x \in Owing(s) \/ x = h
      <3>1. CASE x = p
        BY <1>2, <2>4, <2>5, <2>6, <3>1, OwingIs DEF Owes
      <3>2. CASE x = h
        BY <2>1, <2>3, <2>4, <2>5, <2>6, <3>2 DEF Owes, Waits
      <3>3. CASE x # p /\ x # h
        BY <2>3, <2>5, <2>6, <3>3, OwingIs DEF Owes
      <3>4. QED
        BY <3>1, <3>2, <3>3
    <2>8. h \notin Owing(s)
      BY <2>1, OwingIs DEF Owes, Waits
    <2>9. Owing(s)' = Owing(s) \cup {h}
      BY <2>1, <2>6, <2>7, OwingIs
    <2>10. QED
      BY <1>4, <2>1, <2>8, <2>9 DEF Posts
  <1>7. QED
    BY <1>5, <1>6

LEMMA Books ==
  ASSUME SemInv, NEW p \in Procs, NEW s \in Sems, SemCall(p, s) \/ SemContinue(p, s)
  PROVE  Kept(s) \/ Begun(s) \/ Queues(s) \/ Passes(p, s) \/ Takes(p, s) \/ Posts(s)
  <1>1. CASE \E value \in Values, m \in Mutexes : SemCreate(p, s, value, m)
    BY <1>1, CreateBooks
  <1>2. CASE SemP(p, s) \/ SemV(p, s) \/ SemPSleeps(p, s) \/ SemVWakes(p, s)
    BY <1>2, QuietKept
  <1>3. CASE SemPFreed(p, s) \/ SemFree(p, s) \/ SemFreeNext(p, s)
    BY <1>3, EndedKept
  <1>4. CASE SemPWaits(p, s)
    BY <1>4, WaitsBooks
  <1>5. CASE SemPPasses(p, s)
    BY <1>5, PassesBooks
  <1>6. CASE SemPTakes(p, s)
    BY <1>6, TakesBooks
  <1>7. CASE SemVPosts(p, s)
    BY <1>7, PostsBooks
  <1>8. QED
    BY <1>1, <1>2, <1>3, <1>4, <1>5, <1>6, <1>7 DEF SemCall, SemContinue

LEMMA OwingFinite ==
  ASSUME NEW s \in Sems
  PROVE  IsFiniteSet(Owing(s)) /\ Cardinality(Owing(s)) \in Nat /\ Owing(s) \subseteq Procs
  <1>1. Owing(s) \subseteq Procs
    BY OwingIs
  <1>2. QED
    BY <1>1, ProgramsAssumption, FS_Subset, FS_CardinalityType

(* One more or one less.                                                   *)
LEMMA OneMore ==
  ASSUME NEW S, IsFiniteSet(S), NEW x, x \notin S
  PROVE  Cardinality(S \cup {x}) = Cardinality(S) + 1
  BY FS_AddElement

LEMMA OneLess ==
  ASSUME NEW S, IsFiniteSet(S), NEW x \in S
  PROVE  Cardinality(S \ {x}) = Cardinality(S) - 1
  BY FS_RemoveElement

IdleKept(s) == Active(s) /\ OnList(s) # {} => semTable[s].count <= Cardinality(Owing(s))

LEMMA IdleStays ==
  ASSUME SemInv, NEW p \in Procs, NEW s \in Sems, IdleKept(s),
         Kept(s) \/ Begun(s) \/ Queues(s) \/ Passes(p, s) \/ Takes(p, s) \/ Posts(s)
  PROVE  IdleKept(s)'
  <1>1. PICK n, c : n = Cardinality(Owing(s)) /\ c = semTable[s].count
    OBVIOUS
  <1>2. n \in Nat /\ c \in Int /\ IsFiniteSet(Owing(s))
    BY <1>1, OwingFinite, EntryIs DEF SemInv
  <1>3. CASE Kept(s) \/ Begun(s)
    BY <1>3 DEF Kept, Begun, IdleKept
  <1>4. CASE Queues(s)
    BY <1>1, <1>2, <1>4 DEF Queues, IdleKept
  <1>5. CASE Passes(p, s)
    <2>1. CASE p \in Owing(s)
      <3>1. Owing(s)' = Owing(s)
        BY <1>5, <2>1 DEF Passes
      <3>2. QED
        BY <1>5, <3>1 DEF Passes, IdleKept
    <2>2. CASE p \notin Owing(s)
      <3>1. Cardinality(Owing(s) \cup {p}) = n + 1
        BY <1>1, <1>2, <2>2, OneMore
      <3>2. QED
        BY <1>1, <1>2, <1>5, <3>1 DEF Passes, IdleKept
    <2>3. QED
      BY <2>1, <2>2
  <1>6. CASE Takes(p, s)
    <2>1. Cardinality(Owing(s) \ {p}) = n - 1
      BY <1>1, <1>2, <1>6, OneLess DEF Takes
    <2>2. QED
      BY <1>1, <1>2, <1>6, <2>1 DEF Takes, IdleKept
  <1>7. CASE Posts(s)
    <2>1. CASE OnList(s)' = {}
      BY <2>1 DEF IdleKept
    <2>2. CASE OnList(s)' # {}
      <3>1. PICK h \in Procs \ Owing(s) : Owing(s)' = Owing(s) \cup {h} /\ OnList(s) # {}
        BY <1>7, <2>2 DEF Posts
      <3>2. Cardinality(Owing(s) \cup {h}) = n + 1
        BY <1>1, <1>2, <3>1, OneMore
      <3>3. QED
        BY <1>1, <1>2, <1>7, <3>1, <3>2 DEF Posts, IdleKept
    <2>3. QED
      BY <2>1, <2>2
  <1>8. QED
    BY <1>3, <1>4, <1>5, <1>6, <1>7

(* While anybody is on the block list, every unit of the semaphore is that *)
(* of a process that passed or was taken off the list: semP takes its unit *)
(* after it has left the mutex, and semV posts one before it wakes.        *)
THEOREM NoUnitLiesIdle == SemSpec => []NoIdleUnit
  <1> DEFINE Kind == SemInv /\ \A s \in Sems : IdleKept(s)
  <1>1. SemInit => Kind
    <2>1. SemInit => \A s \in Sems : ~Active(s)
      BY DEF SemInit, EmptySem, Active
    <2>2. QED
      BY <2>1, InvBegins DEF IdleKept
  <1>2. Kind /\ [SemNext]_semVars => Kind'
    <2>1. ASSUME Kind, UNCHANGED semVars PROVE Kind'
      <3>1. SemInv' /\ semTable' = semTable /\ frame' = frame /\ nextSemBlock' = nextSemBlock
        BY <2>1, InvStutters DEF semVars
      <3>2. \A s \in Sems : OnList(s)' = OnList(s)
        BY <2>1, <3>1, QuietLists DEF TableStays, SemInv
      <3>3. \A s \in Sems : Owing(s)' = Owing(s)
        BY <3>1, <3>2 DEF Owing, Inside
      <3>4. QED
        BY <2>1, <3>1, <3>2, <3>3 DEF IdleKept, Active
    <2>2. ASSUME Kind, NEW p \in Procs, NEW s \in Sems, SemCall(p, s) \/ SemContinue(p, s) PROVE Kind'
      <3>1. SemInv'
        BY <2>2, NextKeepsInv
      <3>2. IdleKept(s)'
        BY <2>2, Books, IdleStays
      <3>3. ASSUME NEW r \in Sems, r # s PROVE IdleKept(r)'
        BY <2>2, <3>3, OthersKept, IdleStays
      <3>4. QED
        BY <3>1, <3>2, <3>3
    <2>3. QED
      BY <2>1, <2>2 DEF SemNext
  <1>3. Kind => NoIdleUnit
    BY DEF IdleKept, NoIdleUnit, Active
  <1> HIDE DEF Kind
  <1>4. QED
    BY <1>1, <1>2, <1>3, PTL DEF SemSpec
-----------------------------------------------------------------------------
(* A semaphore with one taker: the count is not negative, and whoever owes *)
(* a unit will find one.                                                   *)
UnitKept(s) ==
    /\ semTable[s].count >= 0
    /\ Active(s) /\ Owing(s) # {} => semTable[s].count >= 1

LEMMA SoleOwes ==
  ASSUME SemInv, NEW s \in SoleTaken, NEW x \in Owing(s), NEW y \in Owing(s)
  PROVE  x = y
  <1>1. /\ s \in Sems /\ \A a, b \in Takers[s] : a = b
        /\ x \in Procs /\ Owes(x, frame[x], s) /\ y \in Procs /\ Owes(y, frame[y], s)
    BY OwingIs DEF SoleTaken
  <1>2. x \in Takers[s] /\ y \in Takers[s]
    BY <1>1 DEF SemInv, FramesOK, Fits, Owes
  <1>3. QED
    BY <1>1, <1>2

LEMMA UnitStays ==
  ASSUME SemInv, NEW p \in Procs, NEW s \in SoleTaken, UnitKept(s),
         Kept(s) \/ Begun(s) \/ Queues(s) \/ Passes(p, s) \/ Takes(p, s) \/ Posts(s)
  PROVE  UnitKept(s)'
  <1>1. s \in Sems /\ semTable[s].count \in Int
    BY EntryIs DEF SoleTaken, SemInv
  <1>2. CASE Kept(s) \/ Begun(s) \/ Queues(s)
    BY <1>2 DEF Kept, Begun, Queues, UnitKept
  <1>3. CASE Passes(p, s) \/ Posts(s)
    BY <1>1, <1>3 DEF Passes, Posts, UnitKept
  <1>4. CASE Takes(p, s)
    <2>1. Owing(s)' = Owing(s) \ {p} /\ p \in Owing(s) /\ Active(s)
      BY <1>4 DEF Takes
    <2>2. Owing(s)' = {}
      BY <2>1, SoleOwes
    <2>3. semTable[s].count >= 1
      BY <2>1 DEF UnitKept
    <2>4. QED
      BY <1>1, <1>4, <2>2, <2>3 DEF Takes, UnitKept
  <1>5. QED
    BY <1>2, <1>3, <1>4

(* The counting semaphores that are to be seen.                            *)
Existing == {s \in SoleTaken : semTable[s].status = "ACTIVE"}
Units == [s \in SoleTaken |-> semTable[s].count]

LEMMA UnitsAre ==
  ASSUME NEW s \in SoleTaken, NEW n, semTable'[s].count = n,
         \A r \in SoleTaken \ {s} : semTable'[r].count = semTable[r].count /\ Active(r)' = Active(r)
  PROVE  /\ Units' = [Units EXCEPT ![s] = n]
         /\ Existing' = IF Active(s)' THEN Existing \cup {s} ELSE Existing \ {s}
  <1>1. Units' = [r \in SoleTaken |-> semTable'[r].count]
    BY DEF Units, SoleTaken
  <1>2. Units' = [Units EXCEPT ![s] = n]
    BY <1>1 DEF Units
  <1>3. Existing' = IF Active(s)' THEN Existing \cup {s} ELSE Existing \ {s}
    BY DEF Existing, Active, SoleTaken
  <1>4. QED
    BY <1>2, <1>3

LEMMA PromiseKept ==
  ASSUME SemInv, SemInv', \A s \in SoleTaken : UnitKept(s), NEW p \in Procs, NEW s \in Sems,
         SemCall(p, s) \/ SemContinue(p, s)
  PROVE  Promise!Next \/ UNCHANGED Promise!vars
  <1>1. \A r \in SoleTaken : /\ r \in Sems /\ semTable[r].count \in Int
                             /\ r # s => semTable'[r].count = semTable[r].count /\ Active(r)' = Active(r)
    BY OthersKept, EntryIs DEF SoleTaken, SemInv, Kept
  <1>2. CASE s \notin SoleTaken \/ (semTable'[s].count = semTable[s].count /\ Active(s)' = Active(s))
    <2>1. Existing' = Existing /\ Units' = Units
      BY <1>1, <1>2 DEF Existing, Units, Active
    <2>2. QED
      BY <2>1 DEF Promise!vars, Existing, Units
  <1>3. CASE s \in SoleTaken /\ semTable'[s].count = semTable[s].count /\ Active(s) /\ ~Active(s)'
    <2>1. s \in Existing /\ Existing' = Existing \ {s} /\ Units' = Units
      BY <1>1, <1>3 DEF Existing, Units, Active
    <2>2. Promise!Free(s)
      BY <2>1 DEF Promise!Free, Existing, Units
    <2>3. QED
      BY <1>3, <2>2 DEF Promise!Next
  <1>4. CASE s \in SoleTaken /\ Begun(s)
    <2>1. PICK n : n = semTable'[s].count
      OBVIOUS
    <2>2. n \in Values /\ s \notin Existing /\ Active(s)'
      BY <1>4, <2>1 DEF Existing, Active, Begun
    <2>3. Existing' = Existing \cup {s} /\ Units' = [Units EXCEPT ![s] = n]
      BY <1>1, <1>4, <2>1, <2>2, UnitsAre
    <2>4. Promise!Create(s, n)
      BY <2>2, <2>3 DEF Promise!Create, Existing, Units
    <2>5. QED
      BY <1>4, <2>2, <2>4 DEF Promise!Next
  <1>5. CASE s \in SoleTaken /\ Takes(p, s)
    <2>1. semTable[s].count >= 1
      BY <1>5 DEF Takes, UnitKept
    <2>2. Units[s] = semTable[s].count /\ Units[s] > 0 /\ s \in Existing /\ Active(s)'
      BY <1>1, <1>5, <2>1 DEF Existing, Units, Active, Takes
    <2>3. Existing' = Existing /\ Units' = [Units EXCEPT ![s] = Units[s] - 1]
      <3>1. PICK n : n = semTable[s].count - 1
        OBVIOUS
      <3>2. semTable'[s].count = n
        BY <1>5, <3>1 DEF Takes
      <3>3. /\ Units' = [Units EXCEPT ![s] = n]
            /\ Existing' = IF Active(s)' THEN Existing \cup {s} ELSE Existing \ {s}
        BY <1>1, <1>5, <3>2, UnitsAre
      <3>4. Units' = [Units EXCEPT ![s] = Units[s] - 1]
        BY <2>2, <3>1, <3>3
      <3>5. QED
        BY <2>2, <3>3, <3>4
    <2>4. Promise!P(s)
      BY <2>2, <2>3 DEF Promise!P, Existing, Units
    <2>5. QED
      BY <1>5, <2>4 DEF Promise!Next
  <1>6. CASE s \in SoleTaken /\ Posts(s)
    <2>1. Units[s] = semTable[s].count /\ s \in Existing /\ Active(s)'
      BY <1>6 DEF Existing, Units, Active, Posts
    <2>2. Existing' = Existing /\ Units' = [Units EXCEPT ![s] = Units[s] + 1]
      <3>1. PICK n : n = semTable[s].count + 1
        OBVIOUS
      <3>2. semTable'[s].count = n
        BY <1>6, <3>1 DEF Posts
      <3>3. /\ Units' = [Units EXCEPT ![s] = n]
            /\ Existing' = IF Active(s)' THEN Existing \cup {s} ELSE Existing \ {s}
        BY <1>1, <1>6, <3>2, UnitsAre
      <3>4. Units' = [Units EXCEPT ![s] = Units[s] + 1]
        BY <2>1, <3>1, <3>3
      <3>5. QED
        BY <2>1, <3>3, <3>4
    <2>3. Promise!V(s)
      BY <2>2 DEF Promise!V, Existing, Units
    <2>4. QED
      BY <1>6, <2>3 DEF Promise!Next
  <1>7. Kept(s) \/ Begun(s) \/ Queues(s) \/ Passes(p, s) \/ Takes(p, s) \/ Posts(s)
    BY Books
  <1>8. CASE Kept(s) \/ Queues(s) \/ Passes(p, s)
    <2>1. semTable'[s].count = semTable[s].count /\ (Active(s)' => Active(s))
      BY <1>8 DEF Kept, Queues, Passes
    <2>2. Active(s) \in BOOLEAN /\ Active(s)' \in BOOLEAN
      BY DEF Active
    <2>3. QED
      BY <1>2, <1>3, <2>1, <2>2
  <1>9. QED
    BY <1>2, <1>4, <1>5, <1>6, <1>7, <1>8

(* A semaphore on which one process does P is the counting semaphore that  *)
(* Counting describes: that the unit is taken only after the mutex was     *)
(* left (semP) lets nobody take a unit that is not there.                  *)
THEOREM CountsTruly == SemSpec => CountsUnits
  <1> DEFINE Kind == SemInv /\ \A s \in SoleTaken : UnitKept(s)
  <1>1. SemInit => Kind /\ Promise!Init
    <2>1. ASSUME SemInit, NEW s \in SoleTaken PROVE semTable[s].count = 0 /\ semTable[s].status = "EMPTY"
      BY <2>1 DEF SemInit, EmptySem, SoleTaken
    <2>2. SemInit => Promise!Init
      BY <2>1 DEF Promise!Init
    <2>3. QED
      BY <2>1, <2>2, InvBegins DEF UnitKept, Active
  <1>2. Kind /\ [SemNext]_semVars => Kind' /\ [Promise!Next]_(Promise!vars)
    <2>1. ASSUME Kind, UNCHANGED semVars PROVE Kind' /\ UNCHANGED Promise!vars
      <3>1. SemInv' /\ semTable' = semTable /\ frame' = frame /\ nextSemBlock' = nextSemBlock
        BY <2>1, InvStutters DEF semVars
      <3>2. \A s \in Sems : OnList(s)' = OnList(s)
        BY <2>1, <3>1, QuietLists DEF TableStays, SemInv
      <3>3. \A s \in SoleTaken : s \in Sems /\ Owing(s)' = Owing(s)
        BY <3>1, <3>2 DEF Owing, Inside, SoleTaken
      <3>4. \A s \in SoleTaken : UnitKept(s)'
        BY <2>1, <3>1, <3>3 DEF UnitKept, Active
      <3>5. UNCHANGED Promise!vars
        BY <3>1 DEF Promise!vars
      <3>6. QED
        BY <3>1, <3>4, <3>5 DEF SoleTaken
    <2>2. ASSUME Kind, NEW p \in Procs, NEW s \in Sems, SemCall(p, s) \/ SemContinue(p, s)
          PROVE  Kind' /\ [Promise!Next]_(Promise!vars)
      <3>1. SemInv'
        BY <2>2, NextKeepsInv
      <3>2. ASSUME NEW r \in SoleTaken PROVE UnitKept(r)'
        <4>1. r \in Sems
          BY DEF SoleTaken
        <4>2. Kept(r) \/ Begun(r) \/ Queues(r) \/ Passes(p, r) \/ Takes(p, r) \/ Posts(r)
          BY <2>2, <4>1, Books, OthersKept
        <4>3. QED
          BY <2>2, <4>2, UnitStays
      <3>3. Promise!Next \/ UNCHANGED Promise!vars
        BY <2>2, <3>1, PromiseKept
      <3>4. QED
        BY <3>1, <3>2, <3>3 DEF SoleTaken
    <2>3. QED
      BY <2>1, <2>2 DEF SemNext
  <1> HIDE DEF Kind
  <1>3. QED
    BY <1>1, <1>2, PTL DEF SemSpec, CountsUnits, Promise!Spec
=============================================================================
