------------------------- MODULE ClockTerminalProofs ------------------------
(* Proofs about two parts of phase 4: the clock driver with those who      *)
(* sleep, and the drivers of a terminal.                                   *)
EXTENDS Sleep, Terminal, Chains, SequenceTheorems, TLAPS
-----------------------------------------------------------------------------
(* The clock driver wakes nobody early, for any number of processes, any   *)
(* calls of Sleep and any interleaving of the sleepers with the driver.    *)
(*                                                                         *)
(* The driver wakes the head of the list of sleepers if its entry is due.  *)
(* That is right if the entry holds when its process asked to be woken and *)
(* if the head is always a process that sleeps: the list must lead to no   *)
(* process that has been taken off it.  As an entry leaves the list only   *)
(* as its head, this comes down to links that never lead to the head and   *)
(* never meet.  Where a process links itself in does not matter.           *)

(* What is known of a process that has called Sleep: its entry is due when *)
(* it asked to be woken.                                                   *)
EntryIsDue(p) == sleeper[p].at # "user" => AwakeTime(p) = due[p]

(* The links that start at sleepers lead to sleepers, and not to the head. *)
LinkOK(p) ==
    Listed(p) => /\ NextSleeper(p) # NULL => Listed(NextSleeper(p))
                 /\ NextSleeper(p) # NULL => NextSleeper(p) # headSleepList

LinksMeet(p, q) ==
    /\ Listed(p) /\ Listed(q) /\ p # q
    /\ NextSleeper(p) # NULL /\ NextSleeper(p) = NextSleeper(q)

HeadOK == headSleepList # NULL => Listed(headSleepList)

WakesSleeper ==
    clockDriver.at = "waking" =>
        LET p == clockDriver.wakes
        IN p \in Procs /\ Sleeping(p) /\ due[p] <= clock

SleepShape ==
    /\ clock \in Int
    /\ headSleepList \in Procs \cup {NULL}
    /\ procTable4 \in [Procs -> SleepEntry]
    /\ sleeper = [p \in Procs |-> sleeper[p]]
    /\ due \in [Procs -> Int]
    /\ clockDriver \in [at : {"waitDevice", "checking", "waking"}, wakes : Procs \cup {NULL}]

(* The inductive invariant, while the list is whole.                       *)
WholeList ==
    /\ SleepShape
    /\ \A p \in Procs : EntryIsDue(p)
    /\ HeadOK
    /\ \A p \in Procs : LinkOK(p)
    /\ \A p, q \in Procs : ~LinksMeet(p, q)
    /\ WakesSleeper

SleepInv == ~torn => WholeList
-----------------------------------------------------------------------------
(* Steps that leave the list alone.                                        *)

LEMMA NullIsNoProcess == NULL \notin Procs
  BY ProgramsAssumption

LEMMA InitWhole == SleepInit => WholeList
  <1>1. SUFFICES ASSUME SleepInit PROVE WholeList
    OBVIOUS
  <1>2. SleepShape
    BY <1>1 DEF SleepInit, SleepShape, ZeroEntry, SleepEntry, Standing, Driving
  <1>3. \A p \in Procs : sleeper[p].at = "user" /\ ~Listed(p)
    BY <1>1 DEF SleepInit, Standing, Listed, Sleeping
  <1>4. \A p \in Procs : EntryIsDue(p) /\ LinkOK(p)
    BY <1>3 DEF EntryIsDue, LinkOK
  <1>5. \A p, q \in Procs : ~LinksMeet(p, q)
    BY <1>3 DEF LinksMeet
  <1>6. HeadOK /\ WakesSleeper
    BY <1>1 DEF SleepInit, HeadOK, WakesSleeper, Driving
  <1>7. QED
    BY <1>2, <1>4, <1>5, <1>6 DEF WholeList

(* A step that neither links nor takes anybody off keeps the list whole.   *)
LEMMA SameList ==
  ASSUME WholeList, SleepShape',
         headSleepList' = headSleepList,
         \A p \in Procs : Listed(p)' <=> Listed(p),
         \A p \in Procs : Listed(p) => NextSleeper(p)' = NextSleeper(p),
         \A p \in Procs : EntryIsDue(p)',
         WakesSleeper'
  PROVE  WholeList'
  <1>1. HeadOK'
    <2>1. HeadOK /\ (headSleepList \in Procs \cup {NULL})
      BY DEF WholeList, SleepShape
    <2>2. QED
      BY <2>1 DEF HeadOK
  <1>2. ASSUME NEW p \in Procs PROVE LinkOK(p)'
    <2>1. LinkOK(p)
      BY DEF WholeList
    <2>2. Listed(p) => NextSleeper(p) \in Procs \cup {NULL}
      BY DEF WholeList, SleepShape, NextSleeper, SleepEntry
    <2>3. QED
      BY <2>1, <2>2 DEF LinkOK
  <1>3. ASSUME NEW p \in Procs, NEW q \in Procs PROVE ~LinksMeet(p, q)'
    <2>1. ~LinksMeet(p, q)
      BY DEF WholeList
    <2>2. QED
      BY <2>1 DEF LinksMeet
  <1>4. QED
    BY <1>1, <1>2, <1>3 DEF WholeList
-----------------------------------------------------------------------------
(* The driver.                                                             *)

LEMMA TickKeepsWhole ==
  ASSUME WholeList, Tick PROVE WholeList'
  <1>1. SleepShape'
    BY SleepAssumption DEF Tick, WholeList, SleepShape, Driving
  <1>2. /\ headSleepList' = headSleepList /\ procTable4' = procTable4
        /\ sleeper' = sleeper /\ due' = due
    BY DEF Tick
  <1>3. \A p \in Procs : Listed(p)' <=> Listed(p)
    BY <1>2 DEF Tick, Listed, Sleeping, Driving
  <1>4. \A p \in Procs : NextSleeper(p)' = NextSleeper(p) /\ EntryIsDue(p)'
    BY <1>2 DEF WholeList, NextSleeper, EntryIsDue, AwakeTime
  <1>5. WakesSleeper'
    <2>1. clock' \in Int /\ clock \in Int /\ clock <= clock'
      BY SleepAssumption DEF Tick, WholeList, SleepShape
    <2>2. WakesSleeper /\ due \in [Procs -> Int]
      BY DEF WholeList, SleepShape
    <2>3. clockDriver'.at = "waking" => clockDriver' = clockDriver
      BY DEF Tick, Driving
    <2>4. QED
      BY <1>2, <2>1, <2>2, <2>3 DEF WakesSleeper, Sleeping
  <1>6. QED
    BY <1>1, <1>2, <1>3, <1>4, <1>5, SameList

LEMMA NobodyDueKeepsWhole ==
  ASSUME WholeList, NobodyDue PROVE WholeList'
  <1>1. SleepShape'
    BY DEF NobodyDue, WholeList, SleepShape, Driving
  <1>2. /\ headSleepList' = headSleepList /\ procTable4' = procTable4
        /\ sleeper' = sleeper /\ due' = due
    BY DEF NobodyDue
  <1>3. \A p \in Procs : Listed(p)' <=> Listed(p)
    BY <1>2 DEF NobodyDue, Listed, Sleeping, Driving
  <1>4. \A p \in Procs : NextSleeper(p)' = NextSleeper(p) /\ EntryIsDue(p)'
    BY <1>2 DEF WholeList, NextSleeper, EntryIsDue, AwakeTime
  <1>5. WakesSleeper'
    BY DEF NobodyDue, Driving, WakesSleeper
  <1>6. QED
    BY <1>1, <1>2, <1>3, <1>4, <1>5, SameList

(* A process that is woken had been taken off the list before.             *)
LEMMA WakesKeepsWhole ==
  ASSUME WholeList, NEW p \in Procs, Wakes(p) PROVE WholeList'
  <1>1. SleepShape'
    BY DEF Wakes, WholeList, SleepShape, Driving
  <1>2. /\ headSleepList' = headSleepList /\ procTable4' = procTable4 /\ due' = due
    BY DEF Wakes
  <1>3. \A q \in Procs : Listed(q)' <=> Listed(q)
    <2>1. sleeper = [q \in Procs |-> sleeper[q]]
      BY DEF WholeList, SleepShape
    <2>2. \A q \in Procs : sleeper'[q] = IF q = p THEN Standing("returning") ELSE sleeper[q]
      BY <2>1 DEF Wakes
    <2>3. ~Sleeping(p)'
      BY <2>2 DEF Sleeping, Standing
    <2>4. ~Listed(p)
      BY DEF Wakes, Listed
    <2>5. \A q \in Procs \ {p} : clockDriver # Driving("waking", q)
      BY DEF Wakes, Driving
    <2>6. \A q \in Procs \ {p} : clockDriver' # Driving("waking", q)
      BY DEF Wakes, Driving
    <2>7. QED
      BY <2>2, <2>3, <2>4, <2>5, <2>6 DEF Listed, Sleeping
  <1>4. \A q \in Procs : NextSleeper(q)' = NextSleeper(q)
    BY <1>2 DEF NextSleeper
  <1>5. \A q \in Procs : EntryIsDue(q)'
    <2>1. sleeper = [q \in Procs |-> sleeper[q]]
      BY DEF WholeList, SleepShape
    <2>2. \A q \in Procs : sleeper'[q].at # "user" => sleeper[q].at # "user"
      BY <2>1 DEF Wakes, Standing
    <2>3. QED
      BY <1>2, <2>2 DEF WholeList, EntryIsDue, AwakeTime
  <1>6. WakesSleeper'
    BY DEF Wakes, Driving, WakesSleeper
  <1>7. QED
    BY <1>1, <1>2, <1>3, <1>4, <1>5, <1>6, SameList

(* The head is taken off: no link led to it, and the link that it leaves   *)
(* is the only one that leads to the new head.                             *)
LEMMA TakesHeadKeepsWhole ==
  ASSUME WholeList, TakesHead PROVE WholeList'
  <1> DEFINE h == headSleepList
  <1>1. /\ h \in Procs /\ h # NULL /\ Listed(h)
        /\ headSleepList' = NextSleeper(h) /\ clockDriver' = Driving("waking", h)
        /\ procTable4' = procTable4 /\ sleeper' = sleeper /\ due' = due /\ clock' = clock
    BY DEF TakesHead, HeadIsDue, WholeList, HeadOK, Listed
  <1>2. \A p \in Procs : Listed(p)' <=> Listed(p) /\ p # h
    <2>1. \A p \in Procs : clockDriver # Driving("waking", p)
      BY DEF TakesHead, Driving
    <2>2. QED
      BY <1>1, <2>1 DEF Listed, Sleeping, Driving
  <1>3. \A p \in Procs : NextSleeper(p)' = NextSleeper(p) /\ NextSleeper(p) \in Procs \cup {NULL}
    BY <1>1 DEF NextSleeper, WholeList, SleepShape, SleepEntry
  <1>4. \A p \in Procs : LinkOK(p) /\ \A q \in Procs : ~LinksMeet(p, q)
    BY DEF WholeList
  <1>5. SleepShape'
    BY <1>1, <1>3 DEF WholeList, SleepShape, Driving
  <1>6. HeadOK'
    BY <1>1, <1>2, <1>3, <1>4 DEF HeadOK, LinkOK
  <1>7. ASSUME NEW p \in Procs PROVE LinkOK(p)'
    <2>1. SUFFICES ASSUME Listed(p), p # h, NextSleeper(p) # NULL
                   PROVE  Listed(NextSleeper(p))' /\ NextSleeper(p) # NextSleeper(h)
      BY <1>1, <1>2, <1>3 DEF LinkOK
    <2>2. NextSleeper(p) \in Procs /\ Listed(NextSleeper(p)) /\ NextSleeper(p) # h
      BY <2>1, <1>3, <1>4 DEF LinkOK
    <2>3. NextSleeper(p) # NextSleeper(h)
      BY <1>1, <1>4, <2>1 DEF LinksMeet
    <2>4. Listed(NextSleeper(p))'
      BY <1>2, <1>3, <2>2
    <2>5. QED
      BY <2>3, <2>4
  <1>8. \A p, q \in Procs : ~LinksMeet(p, q)'
    BY <1>2, <1>3, <1>4 DEF LinksMeet
  <1>9. WakesSleeper'
    <2>1. AwakeTime(h) = due[h] /\ AwakeTime(h) <= clock
      BY <1>1 DEF TakesHead, HeadIsDue, WholeList, EntryIsDue, Listed, Sleeping
    <2>2. QED
      BY <1>1, <2>1 DEF WakesSleeper, Driving, Listed, Sleeping
  <1>10. \A p \in Procs : EntryIsDue(p)'
    BY <1>1 DEF WholeList, EntryIsDue, AwakeTime
  <1>11. QED
    BY <1>5, <1>6, <1>7, <1>8, <1>9, <1>10 DEF WholeList
-----------------------------------------------------------------------------
(* The sleepers.                                                           *)

(* SleepReal enters the time that was asked for: it does not overflow.     *)
LEMMA SleepRealKeepsWhole ==
  ASSUME Horizon <= IntMax, WholeList, NEW p \in Procs, NEW s \in Seconds, SleepReal(p, s)
  PROVE  WholeList'
  <1> DEFINE t == clock + s
  <1>1. t \in Int /\ Wrapped(t) = t
    BY SleepAssumption DEF SleepReal, Wrapped, WholeList, SleepShape
  <1>2. PICK place : place = SleepPlace(t)
    OBVIOUS
  <1>3. place.at = "linking"
    BY <1>2 DEF SleepPlace, Linking
  <1>4. /\ headSleepList' = headSleepList /\ clockDriver' = clockDriver /\ clock' = clock
        /\ procTable4' = [procTable4 EXCEPT
              ![p] = [status |-> "ACTIVE", awakeTime |-> t, sleepPtr |-> NULL]]
        /\ sleeper' = [sleeper EXCEPT ![p] = place]
        /\ due' = [due EXCEPT ![p] = t]
        /\ sleeper[p].at = "user"
    BY <1>1, <1>2 DEF SleepReal
  <1>5. /\ procTable4 \in [Procs -> SleepEntry] /\ due \in [Procs -> Int]
        /\ sleeper = [q \in Procs |-> sleeper[q]]
    BY DEF WholeList, SleepShape
  <1>6. SleepShape'
    BY <1>1, <1>4, <1>5 DEF WholeList, SleepShape, SleepEntry
  <1>7. /\ sleeper'[p] = place
        /\ \A q \in Procs \ {p} : sleeper'[q] = sleeper[q]
    BY <1>4, <1>5
  <1>8. ~Listed(p) /\ ~Listed(p)'
    BY <1>3, <1>4, <1>7 DEF Listed, Sleeping
  <1>9. \A q \in Procs : Listed(q)' <=> Listed(q)
    BY <1>4, <1>7, <1>8 DEF Listed, Sleeping
  <1>10. \A q \in Procs : Listed(q) => NextSleeper(q)' = NextSleeper(q)
    BY <1>4, <1>5, <1>8 DEF NextSleeper
  <1>11. \A q \in Procs : EntryIsDue(q)'
    <2>1. EntryIsDue(p)'
      BY <1>4, <1>5 DEF EntryIsDue, AwakeTime
    <2>2. ASSUME NEW q \in Procs, q # p PROVE EntryIsDue(q)'
      <3>1. procTable4'[q] = procTable4[q] /\ due'[q] = due[q] /\ sleeper'[q] = sleeper[q]
        BY <1>4, <1>5, <1>7, <2>2
      <3>2. EntryIsDue(q)
        BY DEF WholeList
      <3>3. QED
        BY <3>1, <3>2 DEF EntryIsDue, AwakeTime
    <2>3. QED
      BY <2>1, <2>2
  <1>12. WakesSleeper'
    <2>1. SUFFICES ASSUME clockDriver.at = "waking"
                   PROVE  /\ clockDriver.wakes \in Procs
                          /\ Sleeping(clockDriver.wakes)'
                          /\ due'[clockDriver.wakes] <= clock
      BY <1>4 DEF WakesSleeper
    <2>2. /\ clockDriver.wakes \in Procs /\ Sleeping(clockDriver.wakes)
          /\ due[clockDriver.wakes] <= clock
      BY <2>1 DEF WholeList, WakesSleeper
    <2>3. clockDriver.wakes # p
      BY <1>4, <2>2 DEF Sleeping
    <2>4. QED
      BY <1>4, <1>5, <1>7, <2>2, <2>3 DEF Sleeping
  <1>13. QED
    BY <1>4, <1>6, <1>9, <1>10, <1>11, <1>12, SameList

LEMMA SleepReceivesKeepsWhole ==
  ASSUME WholeList, NEW p \in Procs, SleepReceives(p) PROVE WholeList'
  <1>1. /\ headSleepList' = headSleepList /\ clockDriver' = clockDriver /\ clock' = clock
        /\ procTable4' = procTable4 /\ due' = due
        /\ sleeper' = [sleeper EXCEPT ![p] = Standing("receiving")]
        /\ sleeper[p].at = "queued"
    BY DEF SleepReceives
  <1>2. sleeper = [q \in Procs |-> sleeper[q]]
    BY DEF WholeList, SleepShape
  <1>3. \A q \in Procs : /\ Sleeping(q)' <=> Sleeping(q)
                         /\ sleeper'[q].at # "user" => sleeper[q].at # "user"
    BY <1>1, <1>2 DEF Sleeping, Standing
  <1>4. SleepShape'
    BY <1>1, <1>2 DEF WholeList, SleepShape
  <1>5. \A q \in Procs : Listed(q)' <=> Listed(q)
    BY <1>1, <1>3 DEF Listed
  <1>6. \A q \in Procs : NextSleeper(q)' = NextSleeper(q) /\ EntryIsDue(q)'
    BY <1>1, <1>3 DEF WholeList, NextSleeper, EntryIsDue, AwakeTime
  <1>7. WakesSleeper'
    BY <1>1, <1>3 DEF WholeList, WakesSleeper
  <1>8. QED
    BY <1>1, <1>4, <1>5, <1>6, <1>7, SameList

LEMMA SleepReturnsKeepsWhole ==
  ASSUME WholeList, NEW p \in Procs, SleepReturns(p) PROVE WholeList'
  <1>1. /\ headSleepList' = headSleepList /\ clockDriver' = clockDriver /\ clock' = clock
        /\ procTable4' = [procTable4 EXCEPT ![p] = ZeroEntry] /\ due' = due
        /\ sleeper' = [sleeper EXCEPT ![p] = Standing("user")]
        /\ sleeper[p].at = "returning"
    BY DEF SleepReturns, RemoveFromProcessTable
  <1>2. /\ sleeper = [q \in Procs |-> sleeper[q]]
        /\ procTable4 \in [Procs -> SleepEntry]
    BY DEF WholeList, SleepShape
  <1>3. /\ sleeper'[p].at = "user" /\ ~Sleeping(p) /\ ~Sleeping(p)'
        /\ \A q \in Procs \ {p} : sleeper'[q] = sleeper[q] /\ procTable4'[q] = procTable4[q]
    BY <1>1, <1>2 DEF Sleeping, Standing
  <1>4. SleepShape'
    <2>1. ZeroEntry \in SleepEntry
      BY DEF ZeroEntry, SleepEntry
    <2>2. procTable4' \in [Procs -> SleepEntry]
      BY <1>1, <1>2, <2>1
    <2>3. QED
      BY <1>1, <1>2, <2>2 DEF WholeList, SleepShape
  <1>5. \A q \in Procs : Sleeping(q)' <=> Sleeping(q)
    BY <1>3 DEF Sleeping
  <1>6. \A q \in Procs : Listed(q)' <=> Listed(q)
    BY <1>1, <1>5 DEF Listed
  <1>7. \A q \in Procs : /\ Listed(q) => NextSleeper(q)' = NextSleeper(q)
                         /\ EntryIsDue(q)'
    BY <1>1, <1>3 DEF WholeList, NextSleeper, EntryIsDue, AwakeTime, Listed
  <1>8. WakesSleeper'
    BY <1>1, <1>5 DEF WholeList, WakesSleeper
  <1>9. QED
    BY <1>1, <1>4, <1>6, <1>7, <1>8, SameList
-----------------------------------------------------------------------------
(* Linking in: if the place is still one, the link that led to it leads to *)
(* the process, and the process's to where that one led.                   *)

LEMMA SleepLinkInKeepsWhole ==
  ASSUME WholeList, NEW p \in Procs, SleepLinkIn(p), ~torn'
  PROVE  WholeList'
  <1>0. PICK a, b : a = sleeper[p].after /\ b = sleeper[p].before
    OBVIOUS
  <1>1. /\ procTable4' = Linked(p, b, a)
        /\ headSleepList' = IF b = NULL THEN p ELSE headSleepList
        /\ sleeper' = [sleeper EXCEPT ![p] = Standing("queued")]
        /\ clockDriver' = clockDriver /\ due' = due /\ clock' = clock
        /\ sleeper[p].at = "linking"
    BY <1>0 DEF SleepLinkIn
  <1>2. IF b = NULL THEN headSleepList = a ELSE Listed(b) /\ NextSleeper(b) = a
    BY <1>0 DEF SleepLinkIn, SleepStale
  <1>3. /\ procTable4 \in [Procs -> SleepEntry]
        /\ sleeper = [q \in Procs |-> sleeper[q]]
        /\ headSleepList \in Procs \cup {NULL}
    BY DEF WholeList, SleepShape
  <1>4. p # NULL /\ ~Listed(p) /\ (b # NULL => b \in Procs /\ b # p)
    BY <1>1, <1>2, NullIsNoProcess DEF Listed, Sleeping
  <1>5. \A q \in Procs : LinkOK(q) /\ \A r \in Procs : ~LinksMeet(q, r)
    BY DEF WholeList
  <1>6. a # NULL => a \in Procs /\ Listed(a)
    BY <1>2, <1>5 DEF LinkOK, WholeList, HeadOK, Listed
  <1>7. a \in Procs \cup {NULL} /\ a # p
    BY <1>4, <1>6
  <1>8. /\ procTable4' \in [Procs -> SleepEntry]
        /\ \A q \in Procs : procTable4'[q].awakeTime = procTable4[q].awakeTime
        /\ \A q \in Procs : procTable4'[q].sleepPtr =
              IF q = p THEN a ELSE IF q = b THEN p ELSE procTable4[q].sleepPtr
    <2>1. CASE b = NULL
      <3>1. procTable4' = [procTable4 EXCEPT ![p].sleepPtr = a]
        BY <2>1, <1>1 DEF Linked
      <3>2. \A q \in Procs : procTable4'[q] =
              IF q = p THEN [procTable4[p] EXCEPT !.sleepPtr = a] ELSE procTable4[q]
        BY <3>1, <1>3
      <3>3. procTable4' = [q \in Procs |-> procTable4'[q]]
        BY <3>1, <1>3
      <3>4. \A q \in Procs : q # b
        BY <2>1, NullIsNoProcess
      <3>5. QED
        BY <3>2, <3>3, <3>4, <1>3, <1>7 DEF SleepEntry
    <2>2. CASE b # NULL
      <3>1. procTable4' = [procTable4 EXCEPT ![b].sleepPtr = p, ![p].sleepPtr = a]
        BY <2>2, <1>1 DEF Linked
      <3>2. \A q \in Procs : procTable4'[q] =
              IF q = p THEN [procTable4[p] EXCEPT !.sleepPtr = a]
              ELSE IF q = b THEN [procTable4[b] EXCEPT !.sleepPtr = p]
              ELSE procTable4[q]
        BY <2>2, <3>1, <1>3, <1>4
      <3>3. procTable4' = [q \in Procs |-> procTable4'[q]]
        BY <3>1, <1>3
      <3>4. QED
        BY <2>2, <3>2, <3>3, <1>3, <1>4, <1>7 DEF SleepEntry
    <2>3. QED
      BY <2>1, <2>2
  <1>9. \A q \in Procs : NextSleeper(q)' =
           IF q = p THEN a ELSE IF q = b THEN p ELSE NextSleeper(q)
    BY <1>8 DEF NextSleeper
  <1>10. \A q \in Procs : Sleeping(q)' <=> Sleeping(q) \/ q = p
    BY <1>1, <1>3 DEF Sleeping, Standing
  <1>11. \A q \in Procs : Listed(q)' <=> Listed(q) \/ q = p
    <2>1. clockDriver # Driving("waking", p)
      <3>1. clockDriver = Driving("waking", p) => Sleeping(p)
        BY DEF WholeList, WakesSleeper, Driving
      <3>2. QED
        BY <1>1, <3>1 DEF Sleeping
    <2>2. QED
      BY <1>1, <1>10, <2>1 DEF Listed
  <1>12. SleepShape'
    BY <1>1, <1>3, <1>8 DEF WholeList, SleepShape
  <1>13. \A q \in Procs : EntryIsDue(q)'
    <2>1. \A q \in Procs : sleeper'[q].at # "user" => sleeper[q].at # "user"
      BY <1>1, <1>3
    <2>2. QED
      BY <1>1, <1>8, <2>1 DEF WholeList, EntryIsDue, AwakeTime
  <1>14. HeadOK'
    BY <1>1, <1>3, <1>11 DEF WholeList, HeadOK
  <1>15. ASSUME NEW q \in Procs PROVE LinkOK(q)'
    <2>1. SUFFICES ASSUME Listed(q)', NextSleeper(q)' # NULL
                   PROVE  Listed(NextSleeper(q))' /\ NextSleeper(q)' # headSleepList'
      BY DEF LinkOK
    <2>2. CASE q = p
      <3>1. NextSleeper(q)' = a /\ Listed(a) /\ a \in Procs
        BY <2>1, <2>2, <1>6, <1>9
      <3>2. Listed(a)'
        BY <3>1, <1>11
      <3>3. a # headSleepList'
        <4>1. CASE b = NULL
          BY <4>1, <1>1, <1>7
        <4>2. CASE b # NULL
          <5>1. Listed(b) /\ b \in Procs /\ NextSleeper(b) = a /\ LinkOK(b)
            BY <4>2, <1>2, <1>4, <1>5
          <5>2. a # NULL /\ headSleepList' = headSleepList
            BY <4>2, <1>1, <2>1, <3>1
          <5>3. QED
            BY <5>1, <5>2 DEF LinkOK
        <4>3. QED
          BY <4>1, <4>2
      <3>4. QED
        BY <3>1, <3>2, <3>3
    <2>3. CASE q # p /\ q = b
      <3>1. NextSleeper(q)' = p /\ Listed(p)'
        BY <2>3, <1>9, <1>11
      <3>2. headSleepList' = headSleepList /\ headSleepList # p
        BY <2>3, <1>1, <1>4, NullIsNoProcess DEF WholeList, HeadOK
      <3>3. QED
        BY <3>1, <3>2
    <2>4. CASE q # p /\ q # b
      <3>1. NextSleeper(q)' = NextSleeper(q) /\ Listed(q)
        BY <2>1, <2>4, <1>9, <1>11
      <3>2. /\ Listed(NextSleeper(q)) /\ NextSleeper(q) \in Procs
            /\ NextSleeper(q) # headSleepList /\ NextSleeper(q) # p
        BY <2>1, <3>1, <1>4, <1>5 DEF LinkOK, Listed
      <3>3. QED
        BY <1>1, <1>11, <3>1, <3>2
    <2>5. QED
      BY <2>2, <2>3, <2>4
  <1>16. ASSUME NEW q \in Procs, NEW r \in Procs, q # r, Listed(q)', Listed(r)',
                NextSleeper(q)' # NULL
         PROVE  NextSleeper(q)' # NextSleeper(r)'
    <2>1. \A x \in Procs : x # p /\ Listed(x) => NextSleeper(x) # p
      BY <1>4, <1>5 DEF LinkOK
    <2>2. \A x \in Procs : x # p /\ x # b /\ Listed(x) /\ a # NULL => NextSleeper(x) # a
      <3>1. CASE b = NULL
        BY <3>1, <1>2, <1>5 DEF LinkOK
      <3>2. CASE b # NULL
        BY <3>2, <1>2, <1>4, <1>5 DEF LinksMeet
      <3>3. QED
        BY <3>1, <3>2
    <2>3. Listed(q) \/ q = p
      BY <1>11, <1>16
    <2>4. Listed(r) \/ r = p
      BY <1>11, <1>16
    <2>5. CASE q = p
      BY <2>2, <2>4, <2>5, <1>7, <1>9, <1>16
    <2>6. CASE r = p
      BY <2>2, <2>3, <2>6, <1>7, <1>9, <1>16
    <2>7. CASE q # p /\ r # p
      <3>1. ~LinksMeet(q, r)
        BY <1>5
      <3>2. QED
        BY <2>1, <2>3, <2>4, <2>7, <3>1, <1>9, <1>16 DEF LinksMeet
    <2>8. QED
      BY <2>5, <2>6, <2>7
  <1>17. WakesSleeper'
    BY <1>1, <1>10 DEF WholeList, WakesSleeper
  <1>18. QED
    <2>1. \A q, r \in Procs : ~LinksMeet(q, r)'
      BY <1>16 DEF LinksMeet
    <2>2. QED
      BY <1>12, <1>13, <1>14, <1>15, <1>17, <2>1 DEF WholeList
-----------------------------------------------------------------------------
LEMMA StutterKeepsWhole ==
  ASSUME WholeList, UNCHANGED sleepVars PROVE WholeList'
  <1>1. SleepShape'
    BY DEF WholeList, SleepShape, sleepVars
  <1>2. \A p \in Procs : /\ Listed(p)' <=> Listed(p)
                         /\ NextSleeper(p)' = NextSleeper(p)
                         /\ EntryIsDue(p)'
    BY DEF WholeList, sleepVars, Listed, Sleeping, NextSleeper, EntryIsDue, AwakeTime
  <1>3. WakesSleeper' /\ headSleepList' = headSleepList
    BY DEF WholeList, WakesSleeper, sleepVars, Sleeping
  <1>4. QED
    BY <1>1, <1>2, <1>3, SameList

LEMMA StepKeepsInv ==
  ASSUME Horizon <= IntMax, SleepInv, [SleepNext]_sleepVars PROVE SleepInv'
  <1>1. SUFFICES ASSUME ~torn' PROVE WholeList'
    BY DEF SleepInv
  <1>2. ~torn /\ WholeList
    BY <1>1 DEF SleepNext, sleepVars, SleepInv
  <1>3. CASE UNCHANGED sleepVars
    BY <1>2, <1>3, StutterKeepsWhole
  <1>4. CASE Tick
    BY <1>2, <1>4, TickKeepsWhole
  <1>5. CASE ClockDriver
    <2>1. CASE TakesHead
      BY <1>2, <2>1, TakesHeadKeepsWhole
    <2>2. CASE NobodyDue
      BY <1>2, <2>2, NobodyDueKeepsWhole
    <2>3. ASSUME NEW p \in Procs, Wakes(p) PROVE WholeList'
      BY <1>2, <2>3, WakesKeepsWhole
    <2>4. QED
      BY <1>5, <2>1, <2>2, <2>3 DEF ClockDriver
  <1>6. ASSUME NEW p \in Procs, SleepContinue(p) PROVE WholeList'
    <2>1. CASE SleepLinkIn(p)
      BY <1>1, <1>2, <2>1, SleepLinkInKeepsWhole
    <2>2. CASE SleepReceives(p)
      BY <1>2, <2>2, SleepReceivesKeepsWhole
    <2>3. CASE SleepReturns(p)
      BY <1>2, <2>3, SleepReturnsKeepsWhole
    <2>4. QED
      BY <1>6, <2>1, <2>2, <2>3 DEF SleepContinue
  <1>7. ASSUME NEW p \in Procs, NEW s \in Seconds, SleepReal(p, s) PROVE WholeList'
    BY <1>2, <1>7, SleepRealKeepsWhole
  <1>8. QED
    BY <1>3, <1>4, <1>5, <1>6, <1>7 DEF SleepNext

LEMMA InvNeverEarly == SleepInv => NeverEarly
  <1>1. SUFFICES ASSUME SleepInv, ~torn, NEW p \in Procs, clockDriver = Driving("waking", p)
                 PROVE  due[p] <= clock
    BY DEF NeverEarly
  <1>2. clockDriver.at = "waking" /\ clockDriver.wakes = p
    BY <1>1 DEF Driving
  <1>3. QED
    BY <1>1, <1>2 DEF SleepInv, WholeList, WakesSleeper

(* While the list is whole the clock driver wakes only who is due, as long *)
(* as nobody sleeps past the largest int.                                  *)
THEOREM WokenInTime ==
  ASSUME Horizon <= IntMax PROVE SleepSpec => []NeverEarly
  <1>1. SleepInit => SleepInv
    BY InitWhole DEF SleepInv
  <1>2. SleepInv /\ [SleepNext]_sleepVars => SleepInv'
    BY StepKeepsInv
  <1>3. SleepInv => NeverEarly
    BY InvNeverEarly
  <1>4. QED
    BY <1>1, <1>2, <1>3, PTL DEF SleepSpec
-----------------------------------------------------------------------------
(* The list of sleepers in its order.  While it is whole, the links make a *)
(* chain of exactly those who sleep (SleepersLinked), by the time at which *)
(* they are due (Rising): so a place for one more is always found, and if  *)
(* the first is not due, nobody is.                                        *)
SleepLinks == [p \in Procs |-> NextSleeper(p)]
Sleepers == {p \in Procs : Listed(p)}
SleepersLinked == \E q \in Seq(Procs) : /\ IsChain(q, headSleepList, SleepLinks, NULL)
                                        /\ Elements(q) = Sleepers

Rising == \A p, r \in Procs : Listed(p) /\ NextSleeper(p) = r => AwakeTime(p) <= AwakeTime(r)

WakingSleeps == \A p \in Procs : clockDriver = Driving("waking", p) => Sleeping(p)

(* The inductive invariant; it does not mind times that overflow.          *)
LineInv == SleepTypeOK /\ (~torn => SleepersLinked /\ Rising /\ WakingSleeps)

Looks == [at : {"user", "linking", "queued", "receiving", "returning"},
          before : Procs \cup {NULL}, after : Procs \cup {NULL}]

LEMMA LinksAre ==
  ASSUME NEW p \in Procs
  PROVE  SleepLinks[p] = NextSleeper(p)
  BY DEF SleepLinks

LEMMA LinksNext ==
  ASSUME NEW p \in Procs
  PROVE  (SleepLinks[p] = NextSleeper(p))'
  <1>1. SleepLinks[p] = NextSleeper(p)
    BY LinksAre
  <1>2. QED
    BY <1>1, PTL

LEMMA SleepTypes ==
  ASSUME SleepTypeOK
  PROVE  /\ clock \in Int /\ clock \in 0..Horizon /\ headSleepList \in Procs \cup {NULL}
         /\ procTable4 \in [Procs -> SleepEntry] /\ sleeper \in [Procs -> Looks]
         /\ clockDriver \in [at : {"waitDevice", "checking", "waking"}, wakes : Procs \cup {NULL}]
         /\ due \in [Procs -> Int] /\ torn \in BOOLEAN
         /\ \A p \in Procs : procTable4[p].status = "ACTIVE" <=> sleeper[p].at # "user"
         /\ \A p \in Procs : AwakeTime(p) \in Int /\ NextSleeper(p) \in Procs \cup {NULL}
  <1>1. procTable4 \in [Procs -> SleepEntry]
    BY DEF SleepTypeOK
  <1>2. \A p \in Procs : AwakeTime(p) \in Int /\ NextSleeper(p) \in Procs \cup {NULL}
    BY <1>1 DEF SleepEntry, AwakeTime, NextSleeper
  <1>3. QED
    BY <1>2, SleepAssumption DEF SleepTypeOK, Looks

(* The walk of sleepReal along the list finds a place.                     *)
LEMMA PlaceIs ==
  ASSUME SleepTypeOK, SleepersLinked, NEW t
  PROVE  SleepPlace(t) \in Looks /\ SleepPlace(t).at = "linking"
  <1>1. PICK n : n = Cardinality(Procs)
    OBVIOUS
  <1>2. n \in Nat /\ NULL \notin Procs
    BY <1>1, ProgramsAssumption, FS_CardinalityType
  <1>3. PICK q \in Seq(Procs) : IsChain(q, headSleepList, SleepLinks, NULL) /\ Elements(q) = Sleepers
    BY DEF SleepersLinked
  <1>4. Len(q) \in Nat /\ Len(q) <= n
    BY <1>1, <1>3, ProgramsAssumption, ChainFits DEF IsChain
  <1>5. PICK w : w = WalkAlong(q, n, NULL)
    OBVIOUS
  <1> DEFINE IsNth(v) == v = [k \in 0..n |->
            IF k = 0 THEN headSleepList
            ELSE IF v[k - 1] = NULL THEN NULL ELSE NextSleeper(v[k - 1])]
             Fits(x) == x # NULL /\ (NextSleeper(x) # NULL => t <= AwakeTime(NextSleeper(x)))
             IsFirst(v, k) == k \in DOMAIN v /\ Fits(v[k]) /\ \A j \in DOMAIN v : j < k => ~Fits(v[j])
  <1>6. DOMAIN w = 0..n /\ \A k \in 0..n : w[k] = IF k < Len(q) THEN q[k + 1] ELSE NULL
    BY <1>5 DEF WalkAlong
  <1>7. \A k \in 0..n : w[k] \in Procs \cup {NULL}
    BY <1>2, <1>4, <1>6, ElementsOf
  <1>8. IsWalk(w, n, headSleepList, SleepLinks, NULL)
    BY <1>2, <1>3, <1>5, WalkExists
  <1>9. ASSUME NEW k \in 0..n, k # 0
        PROVE  k - 1 \in 0..n /\ w[k] = IF w[k - 1] = NULL THEN NULL ELSE NextSleeper(w[k - 1])
    <2>1. k - 1 \in 0..n
      BY <1>2, <1>9
    <2>2. w[k - 1] = NULL \/ (w[k - 1] \in Procs /\ SleepLinks[w[k - 1]] = NextSleeper(w[k - 1]))
      BY <1>7, <2>1, LinksAre
    <2>3. w[k] = IF w[k - 1] = NULL THEN NULL ELSE SleepLinks[w[k - 1]]
      BY <1>8, <1>9 DEF IsWalk
    <2>4. QED
      BY <2>1, <2>2, <2>3
  <1>10. 0 \in 0..n /\ w[0] = headSleepList
    BY <1>2, <1>8 DEF IsWalk
  <1>11. IsNth(w)
    <2>1. w = [k \in 0..n |-> w[k]]
      BY <1>8 DEF IsWalk
    <2>2. \A k \in 0..n : w[k] = IF k = 0 THEN headSleepList
            ELSE IF w[k - 1] = NULL THEN NULL ELSE NextSleeper(w[k - 1])
      BY <1>9, <1>10
    <2>3. QED
      BY <2>1, <2>2
  <1>12. PICK v : v = CHOOSE u : IsNth(u)
    OBVIOUS
  <1>13. IsNth(v)
    BY <1>11, <1>12
  <1>14. v = w
    <2> DEFINE T == {k \in 0..n : v[k] # w[k]}
    <2>1. T = {}
      <3>1. SUFFICES ASSUME T # {} PROVE FALSE
        OBVIOUS
      <3>2. T \in SUBSET Nat
        BY <1>2
      <3>3. PICK k \in T : \A m \in T : k <= m
        BY <3>1, <3>2, LeastOf
      <3>4. k \in 0..n /\ v[k] # w[k]
        BY <3>3
      <3>5. k # 0
        BY <1>10, <1>13, <3>4
      <3>6. k - 1 \in 0..n /\ k - 1 \notin T
        BY <1>2, <3>2, <3>3, <3>5
      <3>7. v[k - 1] = w[k - 1]
        BY <3>6
      <3>8. v[k] = IF v[k - 1] = NULL THEN NULL ELSE NextSleeper(v[k - 1])
        BY <1>13, <3>4, <3>5
      <3>9. QED
        BY <1>9, <3>4, <3>5, <3>7, <3>8
    <2>2. \A k \in 0..n : v[k] = w[k]
      BY <2>1
    <2>3. v = [k \in 0..n |-> v[k]] /\ w = [k \in 0..n |-> w[k]]
      BY <1>8, <1>13 DEF IsWalk
    <2>4. QED
      BY <2>2, <2>3
  <1>15. PICK f : f = CHOOSE k : IsFirst(v, k)
    OBVIOUS
  <1>16. SleepPlace(t) = IF headSleepList = NULL \/ t < AwakeTime(headSleepList)
                         THEN Linking(NULL, headSleepList)
                         ELSE Linking(v[f], NextSleeper(v[f]))
    BY <1>1, <1>12, <1>15 DEF SleepPlace
  <1>17. CASE headSleepList = NULL \/ t < AwakeTime(headSleepList)
    BY <1>16, <1>17, SleepTypes DEF Linking, Looks
  <1>18. CASE ~(headSleepList = NULL \/ t < AwakeTime(headSleepList))
    <2>1. Len(q) # 0
      BY <1>3, <1>18 DEF IsChain
    <2>2. PICK m : m = Len(q) - 1
      OBVIOUS
    <2>3. m \in 0..n /\ m + 1 = Len(q) /\ m < Len(q) /\ Len(q) \in 1..Len(q)
      BY <1>2, <1>4, <2>1, <2>2
    <2>4. w[m] = q[Len(q)] /\ w[m] \in Procs
      BY <1>6, <2>3, ElementsOf
    <2>5. NextSleeper(w[m]) = NULL
      BY <1>2, <1>3, <2>3, <2>4, ChainLinks, LinksAre
    <2>6. \E k : IsFirst(w, k)
      <3> DEFINE T == {k \in 0..n : Fits(w[k])}
      <3>1. m \in T
        BY <1>2, <2>3, <2>4, <2>5
      <3>2. T \in SUBSET Nat
        BY <1>2
      <3>3. PICK k \in T : \A j \in T : k <= j
        BY <3>1, <3>2, LeastOf
      <3>4. \A j \in 0..n : j < k => j \notin T
        BY <1>2, <3>2, <3>3
      <3>5. IsFirst(w, k)
        BY <1>6, <3>3, <3>4
      <3>6. QED
        BY <3>5
    <2>7. IsFirst(w, f)
      BY <1>14, <1>15, <2>6
    <2>8. w[f] \in Procs
      BY <1>6, <1>7, <2>7
    <2>9. NextSleeper(w[f]) \in Procs \cup {NULL}
      BY <2>8, SleepTypes
    <2>10. SleepPlace(t) = Linking(w[f], NextSleeper(w[f]))
      BY <1>14, <1>16, <1>18
    <2>11. QED
      BY <2>8, <2>9, <2>10 DEF Linking, Looks
  <1>19. QED
    BY <1>17, <1>18
-----------------------------------------------------------------------------
LEMMA SleepersFollow ==
  ASSUME SleepTypeOK, SleepersLinked
  PROVE  /\ headSleepList \in Procs => Listed(headSleepList)
         /\ \A p \in Procs : Listed(p) /\ NextSleeper(p) \in Procs => Listed(NextSleeper(p))
  <1>1. PICK q \in Seq(Procs) : IsChain(q, headSleepList, SleepLinks, NULL) /\ Elements(q) = Sleepers
    BY DEF SleepersLinked
  <1>2. /\ Len(q) \in Nat /\ NULL \notin Procs
        /\ \A i \in 1..Len(q) : q[i] \in Sleepers /\ q[i] \in Procs
    BY <1>1, ElementsOf, ProgramsAssumption
  <1>3. ASSUME headSleepList \in Procs PROVE Listed(headSleepList)
    <2>1. Len(q) # 0 /\ headSleepList = q[1]
      BY <1>1, <1>2, <1>3 DEF IsChain
    <2>2. 1 \in 1..Len(q)
      BY <1>2, <2>1
    <2>3. QED
      BY <1>2, <2>1, <2>2 DEF Sleepers
  <1>4. ASSUME NEW p \in Procs, Listed(p), NextSleeper(p) \in Procs PROVE Listed(NextSleeper(p))
    <2>1. PICK i \in 1..Len(q) : q[i] = p
      BY <1>1, <1>4 DEF Sleepers, Elements
    <2>2. NextSleeper(p) = IF i < Len(q) THEN q[i + 1] ELSE NULL
      BY <1>1, <1>4, <2>1, LinksAre DEF IsChain
    <2>3. i < Len(q) /\ i + 1 \in 1..Len(q)
      BY <1>2, <1>4, <2>2
    <2>4. QED
      BY <1>2, <2>2, <2>3 DEF Sleepers
  <1>5. QED
    BY <1>3, <1>4

(* Whoever does not touch the entries of the sleepers leaves the list.     *)
LEMMA SameLine ==
  ASSUME SleepTypeOK, SleepersLinked, Rising,
         headSleepList' = headSleepList,
         \A p \in Procs : Listed(p)' <=> Listed(p),
         \A p \in Procs : Listed(p) => NextSleeper(p)' = NextSleeper(p) /\ AwakeTime(p)' = AwakeTime(p)
  PROVE  SleepersLinked' /\ Rising'
  <1>1. PICK q \in Seq(Procs) : IsChain(q, headSleepList, SleepLinks, NULL) /\ Elements(q) = Sleepers
    BY DEF SleepersLinked
  <1>2. Sleepers' = Sleepers
    BY DEF Sleepers
  <1>3. \A i \in 1..Len(q) : q[i] \in Procs /\ Listed(q[i])
    BY <1>1, ElementsOf DEF Sleepers
  <1>4. \A i \in 1..Len(q) : SleepLinks'[q[i]] = SleepLinks[q[i]]
    <2>1. \A p \in Procs : SleepLinks'[p] = NextSleeper(p)'
      BY LinksNext
    <2>2. QED
      BY <1>3, <2>1, LinksAre
  <1>5. IsChain(q, headSleepList, SleepLinks', NULL)
    BY <1>1, <1>4, ChainOfSameLinks
  <1>6. SleepersLinked'
    BY <1>1, <1>2, <1>5 DEF SleepersLinked
  <1>7. ASSUME NEW p \in Procs, NEW r \in Procs, Listed(p)', NextSleeper(p)' = r
        PROVE  AwakeTime(p)' <= AwakeTime(r)'
    <2>1. Listed(p) /\ NextSleeper(p) = r /\ AwakeTime(p)' = AwakeTime(p)
      BY <1>7
    <2>2. Listed(r)
      BY <2>1, SleepersFollow
    <2>3. AwakeTime(r)' = AwakeTime(r) /\ AwakeTime(p) <= AwakeTime(r)
      BY <2>1, <2>2 DEF Rising
    <2>4. QED
      BY <2>1, <2>3
  <1>8. Rising'
    BY <1>7 DEF Rising
  <1>9. QED
    BY <1>6, <1>8

LEMMA InitLine == SleepInit => LineInv
  <1>1. SUFFICES ASSUME SleepInit PROVE LineInv
    OBVIOUS
  <1>2. SleepTypeOK
    <2>1. ZeroEntry \in SleepEntry /\ ZeroEntry.status = "EMPTY"
      BY DEF ZeroEntry, SleepEntry
    <2>2. Standing("user") \in Looks /\ Standing("user").at = "user"
      BY DEF Standing, Looks
    <2>3. /\ procTable4 \in [Procs -> SleepEntry] /\ sleeper \in [Procs -> Looks]
          /\ \A p \in Procs : procTable4[p] = ZeroEntry /\ sleeper[p] = Standing("user")
      BY <1>1, <2>1, <2>2 DEF SleepInit
    <2>4. \A p \in Procs : procTable4[p].status = "ACTIVE" <=> sleeper[p].at # "user"
      BY <2>1, <2>2, <2>3
    <2>5. clockDriver \in [at : {"waitDevice", "checking", "waking"}, wakes : Procs \cup {NULL}]
      BY <1>1 DEF SleepInit, Driving
    <2>6. clock \in 0..Horizon /\ headSleepList \in Procs \cup {NULL} /\ torn \in BOOLEAN
      <3>1. clock = 0 /\ headSleepList = NULL /\ torn = FALSE
        BY <1>1 DEF SleepInit
      <3>2. 0 \in 0..Horizon
        BY SleepAssumption
      <3>3. QED
        BY <3>1, <3>2
    <2>7. due \in [Procs -> Int]
      BY <1>1 DEF SleepInit
    <2>8. QED
      BY <2>3, <2>4, <2>5, <2>6, <2>7 DEF SleepTypeOK, Looks
  <1>3. \A p \in Procs : ~Listed(p)
    BY <1>1 DEF SleepInit, Standing, Listed, Sleeping
  <1>4. SleepersLinked
    <2>1. <<>> \in Seq(Procs) /\ Len(<<>>) = 0
      OBVIOUS
    <2>2. IsChain(<<>>, headSleepList, SleepLinks, NULL)
      BY <1>1, <2>1 DEF SleepInit, IsChain
    <2>3. Elements(<<>>) = Sleepers
      BY <1>3, <2>1 DEF Elements, Sleepers
    <2>4. QED
      BY <2>1, <2>2, <2>3 DEF SleepersLinked
  <1>5. Rising
    BY <1>3 DEF Rising
  <1>6. WakingSleeps
    BY <1>1 DEF SleepInit, WakingSleeps, Driving
  <1>7. QED
    BY <1>2, <1>4, <1>5, <1>6 DEF LineInv
-----------------------------------------------------------------------------
LEMMA TickKeepsLine ==
  ASSUME LineInv, ~torn, Tick PROVE LineInv'
  <1>1. /\ headSleepList' = headSleepList /\ procTable4' = procTable4
        /\ sleeper' = sleeper /\ due' = due /\ torn' = torn
    BY DEF Tick
  <1>2. SleepTypeOK'
    BY <1>1, SleepAssumption DEF Tick, LineInv, SleepTypeOK, Driving
  <1>3. \A p \in Procs : clockDriver' = Driving("waking", p) <=> clockDriver = Driving("waking", p)
    BY DEF Tick, Driving
  <1>4. \A p \in Procs : Listed(p)' <=> Listed(p)
    BY <1>1, <1>3 DEF Listed, Sleeping
  <1>5. \A p \in Procs : NextSleeper(p)' = NextSleeper(p) /\ AwakeTime(p)' = AwakeTime(p)
    BY <1>1 DEF NextSleeper, AwakeTime
  <1>6. SleepersLinked' /\ Rising'
    BY <1>1, <1>4, <1>5, SameLine DEF LineInv
  <1>7. WakingSleeps'
    BY <1>1, <1>3 DEF LineInv, WakingSleeps, Sleeping
  <1>8. QED
    BY <1>2, <1>6, <1>7 DEF LineInv

LEMMA NobodyDueKeepsLine ==
  ASSUME LineInv, ~torn, NobodyDue PROVE LineInv'
  <1>1. /\ headSleepList' = headSleepList /\ procTable4' = procTable4 /\ clock' = clock
        /\ sleeper' = sleeper /\ due' = due /\ torn' = torn
    BY DEF NobodyDue
  <1>2. SleepTypeOK'
    BY <1>1 DEF NobodyDue, LineInv, SleepTypeOK, Driving
  <1>3. \A p \in Procs : clockDriver' # Driving("waking", p) /\ clockDriver # Driving("waking", p)
    BY DEF NobodyDue, Driving
  <1>4. \A p \in Procs : Listed(p)' <=> Listed(p)
    BY <1>1, <1>3 DEF Listed, Sleeping
  <1>5. \A p \in Procs : NextSleeper(p)' = NextSleeper(p) /\ AwakeTime(p)' = AwakeTime(p)
    BY <1>1 DEF NextSleeper, AwakeTime
  <1>6. SleepersLinked' /\ Rising'
    BY <1>1, <1>4, <1>5, SameLine DEF LineInv
  <1>7. WakingSleeps'
    BY <1>3 DEF WakingSleeps
  <1>8. QED
    BY <1>2, <1>6, <1>7 DEF LineInv

LEMMA WakesKeepsLine ==
  ASSUME LineInv, ~torn, NEW p \in Procs, Wakes(p) PROVE LineInv'
  <1>1. /\ headSleepList' = headSleepList /\ procTable4' = procTable4 /\ clock' = clock
        /\ due' = due /\ torn' = torn /\ clockDriver' = Driving("checking", NULL)
        /\ sleeper' = [sleeper EXCEPT ![p] = Standing("returning")]
        /\ clockDriver = Driving("waking", p) /\ sleeper[p].at = "receiving"
    BY DEF Wakes
  <1>2. sleeper \in [Procs -> Looks]
    BY SleepTypes DEF LineInv
  <1>3. \A r \in Procs : sleeper'[r] = IF r = p THEN Standing("returning") ELSE sleeper[r]
    BY <1>1, <1>2
  <1>4. SleepTypeOK'
    <2>1. Standing("returning") \in Looks /\ Standing("returning").at # "user"
      BY DEF Standing, Looks
    <2>2. sleeper' \in [Procs -> Looks]
      BY <1>1, <1>2, <2>1
    <2>3. \A r \in Procs : procTable4'[r].status = "ACTIVE" <=> sleeper'[r].at # "user"
      BY <1>1, <1>3, <2>1 DEF LineInv, SleepTypeOK
    <2>4. clockDriver' \in [at : {"waitDevice", "checking", "waking"}, wakes : Procs \cup {NULL}]
      BY <1>1 DEF Driving
    <2>5. QED
      BY <1>1, <2>2, <2>3, <2>4 DEF LineInv, SleepTypeOK, Looks
  <1>5. \A r \in Procs : /\ clockDriver' # Driving("waking", r)
                         /\ r # p => clockDriver # Driving("waking", r)
    BY <1>1 DEF Driving
  <1>6. ~Listed(p) /\ ~Sleeping(p)'
    BY <1>1, <1>3 DEF Listed, Sleeping, Standing
  <1>7. \A r \in Procs : Listed(r)' <=> Listed(r)
    BY <1>3, <1>5, <1>6 DEF Listed, Sleeping
  <1>8. \A r \in Procs : NextSleeper(r)' = NextSleeper(r) /\ AwakeTime(r)' = AwakeTime(r)
    BY <1>1 DEF NextSleeper, AwakeTime
  <1>9. SleepersLinked' /\ Rising'
    BY <1>1, <1>7, <1>8, SameLine DEF LineInv
  <1>10. WakingSleeps'
    BY <1>5 DEF WakingSleeps
  <1>11. QED
    BY <1>4, <1>9, <1>10 DEF LineInv

(* The list loses its head.                                                *)
LEMMA TakesHeadKeepsLine ==
  ASSUME LineInv, ~torn, TakesHead PROVE LineInv'
  <1>1. PICK h : h = headSleepList
    OBVIOUS
  <1>2. /\ h \in Procs /\ Listed(h)
        /\ headSleepList' = NextSleeper(h) /\ clockDriver' = Driving("waking", h)
        /\ procTable4' = procTable4 /\ sleeper' = sleeper /\ due' = due /\ clock' = clock /\ torn' = torn
        /\ clockDriver.at = "checking"
    <2>1. h \in Procs
      BY <1>1, SleepTypes DEF TakesHead, HeadIsDue, LineInv
    <2>2. Listed(h)
      BY <1>1, <2>1, SleepersFollow DEF LineInv
    <2>3. QED
      BY <1>1, <2>1, <2>2 DEF TakesHead
  <1>3. SleepTypeOK'
    <2>1. NextSleeper(h) \in Procs \cup {NULL}
      BY <1>2, SleepTypes DEF LineInv
    <2>2. clockDriver' \in [at : {"waitDevice", "checking", "waking"}, wakes : Procs \cup {NULL}]
      BY <1>2 DEF Driving
    <2>3. QED
      BY <1>2, <2>1, <2>2 DEF LineInv, SleepTypeOK
  <1>4. \A p \in Procs : /\ clockDriver # Driving("waking", p)
                         /\ clockDriver' = Driving("waking", p) <=> p = h
    BY <1>2 DEF Driving
  <1>5. \A p \in Procs : Listed(p)' <=> Listed(p) /\ p # h
    BY <1>2, <1>4 DEF Listed, Sleeping
  <1>6. \A p \in Procs : NextSleeper(p)' = NextSleeper(p) /\ AwakeTime(p)' = AwakeTime(p)
    BY <1>2 DEF NextSleeper, AwakeTime
  <1>7. SleepersLinked'
    <2>1. PICK q \in Seq(Procs) : IsChain(q, h, SleepLinks, NULL) /\ Elements(q) = Sleepers
      BY <1>1 DEF LineInv, SleepersLinked
    <2>2. Len(q) # 0
      BY <1>2, <2>1, ProgramsAssumption DEF IsChain
    <2>3. /\ Tail(q) \in Seq(Procs) /\ IsChain(Tail(q), SleepLinks[h], SleepLinks, NULL)
          /\ Elements(Tail(q)) = Sleepers \ {h}
      BY <2>1, <2>2, ChainLosesHead
    <2>4. SleepLinks' = SleepLinks /\ SleepLinks[h] = headSleepList'
      BY <1>2, <1>6, LinksAre DEF SleepLinks
    <2>5. Sleepers' = Sleepers \ {h}
      BY <1>5 DEF Sleepers
    <2>6. QED
      BY <2>3, <2>4, <2>5 DEF SleepersLinked
  <1>8. Rising'
    BY <1>5, <1>6 DEF LineInv, Rising
  <1>9. WakingSleeps'
    BY <1>2, <1>4 DEF WakingSleeps, Listed, Sleeping
  <1>10. QED
    BY <1>3, <1>7, <1>8, <1>9 DEF LineInv

(* What the calls of Sleep do to the entries.                              *)
LEMMA SleeperSet ==
  ASSUME SleepTypeOK, NEW p \in Procs, NEW look \in Looks,
         sleeper' = [sleeper EXCEPT ![p] = look]
  PROVE  /\ sleeper' \in [Procs -> Looks]
         /\ \A r \in Procs : sleeper'[r] = IF r = p THEN look ELSE sleeper[r]
  BY SleepTypes

LEMMA LooksAre ==
  ASSUME NEW at \in {"user", "linking", "queued", "receiving", "returning"}
  PROVE  Standing(at) \in Looks /\ Standing(at).at = at
  BY DEF Standing, Looks

LEMMA SleepReceivesKeepsLine ==
  ASSUME LineInv, ~torn, NEW p \in Procs, SleepReceives(p) PROVE LineInv'
  <1>1. /\ headSleepList' = headSleepList /\ procTable4' = procTable4 /\ clock' = clock
        /\ due' = due /\ torn' = torn /\ clockDriver' = clockDriver
        /\ sleeper' = [sleeper EXCEPT ![p] = Standing("receiving")] /\ sleeper[p].at = "queued"
    BY DEF SleepReceives
  <1>2. Standing("receiving") \in Looks /\ Standing("receiving").at = "receiving"
    BY LooksAre
  <1>3. /\ sleeper' \in [Procs -> Looks]
        /\ \A r \in Procs : sleeper'[r] = IF r = p THEN Standing("receiving") ELSE sleeper[r]
    BY <1>1, <1>2, SleeperSet DEF LineInv
  <1>4. SleepTypeOK'
    <2>1. \A r \in Procs : procTable4'[r].status = "ACTIVE" <=> sleeper'[r].at # "user"
      BY <1>1, <1>2, <1>3 DEF LineInv, SleepTypeOK
    <2>2. QED
      BY <1>1, <1>3, <2>1 DEF LineInv, SleepTypeOK, Looks
  <1>5. \A r \in Procs : Sleeping(r)' <=> Sleeping(r)
    BY <1>1, <1>2, <1>3 DEF Sleeping
  <1>6. \A r \in Procs : Listed(r)' <=> Listed(r)
    BY <1>1, <1>5 DEF Listed
  <1>7. \A r \in Procs : NextSleeper(r)' = NextSleeper(r) /\ AwakeTime(r)' = AwakeTime(r)
    BY <1>1 DEF NextSleeper, AwakeTime
  <1>8. SleepersLinked' /\ Rising'
    BY <1>1, <1>6, <1>7, SameLine DEF LineInv
  <1>9. WakingSleeps'
    BY <1>1, <1>5 DEF LineInv, WakingSleeps
  <1>10. QED
    BY <1>4, <1>8, <1>9 DEF LineInv

LEMMA SleepReturnsKeepsLine ==
  ASSUME LineInv, ~torn, NEW p \in Procs, SleepReturns(p) PROVE LineInv'
  <1>1. /\ headSleepList' = headSleepList /\ clock' = clock
        /\ procTable4' = [procTable4 EXCEPT ![p] = ZeroEntry]
        /\ due' = due /\ torn' = torn /\ clockDriver' = clockDriver
        /\ sleeper' = [sleeper EXCEPT ![p] = Standing("user")] /\ sleeper[p].at = "returning"
    BY DEF SleepReturns, RemoveFromProcessTable
  <1>2. Standing("user") \in Looks /\ Standing("user").at = "user"
    BY LooksAre
  <1>3. /\ sleeper' \in [Procs -> Looks]
        /\ \A r \in Procs : sleeper'[r] = IF r = p THEN Standing("user") ELSE sleeper[r]
    BY <1>1, <1>2, SleeperSet DEF LineInv
  <1>4. ZeroEntry \in SleepEntry /\ ZeroEntry.status = "EMPTY"
    BY DEF ZeroEntry, SleepEntry
  <1>5. /\ procTable4' \in [Procs -> SleepEntry]
        /\ \A r \in Procs : procTable4'[r] = IF r = p THEN ZeroEntry ELSE procTable4[r]
    <2>1. procTable4 \in [Procs -> SleepEntry]
      BY SleepTypes DEF LineInv
    <2>2. QED
      BY <1>1, <1>4, <2>1
  <1>6. SleepTypeOK'
    <2>1. \A r \in Procs : procTable4'[r].status = "ACTIVE" <=> sleeper'[r].at # "user"
      BY <1>2, <1>3, <1>4, <1>5 DEF LineInv, SleepTypeOK
    <2>2. QED
      BY <1>1, <1>3, <1>5, <2>1 DEF LineInv, SleepTypeOK, Looks
  <1>7. ~Sleeping(p) /\ \A r \in Procs : Sleeping(r)' <=> Sleeping(r)
    BY <1>1, <1>2, <1>3 DEF Sleeping
  <1>8. \A r \in Procs : Listed(r)' <=> Listed(r)
    BY <1>1, <1>7 DEF Listed
  <1>9. \A r \in Procs : Listed(r) => NextSleeper(r)' = NextSleeper(r) /\ AwakeTime(r)' = AwakeTime(r)
    <2>1. ~Listed(p)
      BY <1>7 DEF Listed
    <2>2. \A r \in Procs : Listed(r) => procTable4'[r] = procTable4[r]
      BY <1>5, <2>1
    <2>3. QED
      BY <2>2 DEF NextSleeper, AwakeTime
  <1>10. SleepersLinked' /\ Rising'
    BY <1>1, <1>8, <1>9, SameLine DEF LineInv
  <1>11. WakingSleeps'
    BY <1>1, <1>7 DEF LineInv, WakingSleeps
  <1>12. QED
    BY <1>6, <1>10, <1>11 DEF LineInv

LEMMA SleepRealKeepsLine ==
  ASSUME LineInv, ~torn, NEW p \in Procs, NEW s \in Seconds, SleepReal(p, s) PROVE LineInv'
  <1>1. PICK t : t = Wrapped(clock + s)
    OBVIOUS
  <1>2. PICK e : e = [status |-> "ACTIVE", awakeTime |-> t, sleepPtr |-> NULL]
    OBVIOUS
  <1>3. PICK n : n = clock + s
    OBVIOUS
  <1>4. n \in Int /\ t \in Int
    <2>1. clock \in Int /\ s \in Int /\ IntMax \in Int
      BY SleepTypes, SleepAssumption DEF LineInv
    <2>2. n \in Int /\ t = IF n > IntMax THEN n - 2 * (IntMax + 1) ELSE n
      BY <1>1, <1>3, <2>1 DEF Wrapped
    <2>3. QED
      BY <2>1, <2>2
  <1>5. e \in SleepEntry /\ e.status = "ACTIVE"
    BY <1>2, <1>4 DEF SleepEntry
  <1>6. SleepPlace(t) \in Looks /\ SleepPlace(t).at = "linking"
    BY PlaceIs DEF LineInv
  <1>7. /\ headSleepList' = headSleepList /\ clock' = clock
        /\ procTable4' = [procTable4 EXCEPT ![p] = e]
        /\ due' = [due EXCEPT ![p] = n] /\ torn' = torn /\ clockDriver' = clockDriver
        /\ sleeper' = [sleeper EXCEPT ![p] = SleepPlace(t)] /\ sleeper[p].at = "user"
    BY <1>1, <1>2, <1>3 DEF SleepReal
  <1>8. /\ sleeper' \in [Procs -> Looks]
        /\ \A r \in Procs : sleeper'[r] = IF r = p THEN SleepPlace(t) ELSE sleeper[r]
    BY <1>6, <1>7, SleeperSet DEF LineInv
  <1>9. /\ procTable4' \in [Procs -> SleepEntry]
        /\ \A r \in Procs : procTable4'[r] = IF r = p THEN e ELSE procTable4[r]
    <2>1. procTable4 \in [Procs -> SleepEntry]
      BY SleepTypes DEF LineInv
    <2>2. QED
      BY <1>5, <1>7, <2>1
  <1>10. SleepTypeOK'
    <2>1. \A r \in Procs : procTable4'[r].status = "ACTIVE" <=> sleeper'[r].at # "user"
      BY <1>5, <1>6, <1>8, <1>9 DEF LineInv, SleepTypeOK
    <2>2. due' \in [Procs -> Int]
      <3>1. due \in [Procs -> Int]
        BY SleepTypes DEF LineInv
      <3>2. QED
        BY <1>4, <1>7, <3>1
    <2>3. QED
      BY <1>7, <1>8, <1>9, <2>1, <2>2 DEF LineInv, SleepTypeOK, Looks
  <1>11. ~Sleeping(p) /\ \A r \in Procs : Sleeping(r)' <=> Sleeping(r)
    BY <1>6, <1>7, <1>8 DEF Sleeping
  <1>12. \A r \in Procs : Listed(r)' <=> Listed(r)
    BY <1>7, <1>11 DEF Listed
  <1>13. \A r \in Procs : Listed(r) => NextSleeper(r)' = NextSleeper(r) /\ AwakeTime(r)' = AwakeTime(r)
    <2>1. ~Listed(p)
      BY <1>11 DEF Listed
    <2>2. \A r \in Procs : Listed(r) => procTable4'[r] = procTable4[r]
      BY <1>9, <2>1
    <2>3. QED
      BY <2>2 DEF NextSleeper, AwakeTime
  <1>14. SleepersLinked' /\ Rising'
    BY <1>7, <1>12, <1>13, SameLine DEF LineInv
  <1>15. WakingSleeps'
    BY <1>7, <1>11 DEF LineInv, WakingSleeps
  <1>16. QED
    BY <1>10, <1>14, <1>15 DEF LineInv
-----------------------------------------------------------------------------
(* Linking in.                                                             *)
PtrSet(T, p, x) == [T EXCEPT ![p].sleepPtr = x]

LEMMA PtrSetDoes ==
  ASSUME NEW T \in [Procs -> SleepEntry], NEW p \in Procs, NEW x \in Procs \cup {NULL}
  PROVE  /\ PtrSet(T, p, x) \in [Procs -> SleepEntry]
         /\ \A r \in Procs : /\ PtrSet(T, p, x)[r].status = T[r].status
                             /\ PtrSet(T, p, x)[r].awakeTime = T[r].awakeTime
                             /\ PtrSet(T, p, x)[r].sleepPtr = IF r = p THEN x ELSE T[r].sleepPtr
  <1>1. PICK e : e = [T[p] EXCEPT !.sleepPtr = x]
    OBVIOUS
  <1>2. /\ e \in SleepEntry /\ e.status = T[p].status /\ e.awakeTime = T[p].awakeTime
        /\ e.sleepPtr = x
    BY <1>1 DEF SleepEntry
  <1>3. PtrSet(T, p, x) = [r \in Procs |-> IF r = p THEN e ELSE T[r]]
    BY <1>1 DEF PtrSet
  <1>4. PtrSet(T, p, x) \in [Procs -> SleepEntry]
    BY <1>2, <1>3
  <1>5. \A r \in Procs : PtrSet(T, p, x)[r] = IF r = p THEN e ELSE T[r]
    BY <1>3
  <1>6. QED
    BY <1>2, <1>4, <1>5

LEMMA LinkedDoes ==
  ASSUME SleepTypeOK, NEW p \in Procs, NEW b \in Procs \cup {NULL}, NEW a \in Procs \cup {NULL}
  PROVE  /\ Linked(p, b, a) \in [Procs -> SleepEntry]
         /\ \A r \in Procs :
              /\ Linked(p, b, a)[r].status = procTable4[r].status
              /\ Linked(p, b, a)[r].awakeTime = AwakeTime(r)
              /\ Linked(p, b, a)[r].sleepPtr = IF r = p THEN a ELSE IF r = b THEN p ELSE NextSleeper(r)
  <1>1. procTable4 \in [Procs -> SleepEntry] /\ NULL \notin Procs
    BY SleepTypes, ProgramsAssumption
  <1>2. CASE b = NULL
    <2>1. Linked(p, b, a) = PtrSet(procTable4, p, a)
      BY <1>2 DEF Linked, PtrSet
    <2>2. \A r \in Procs : r # b
      BY <1>1, <1>2
    <2>3. QED
      BY <1>1, <2>1, <2>2, PtrSetDoes DEF AwakeTime, NextSleeper
  <1>3. CASE b # NULL
    <2>1. PICK T : T = PtrSet(procTable4, b, p)
      OBVIOUS
    <2>2. Linked(p, b, a) = PtrSet(T, p, a)
      BY <1>3, <2>1 DEF Linked, PtrSet
    <2>3. /\ T \in [Procs -> SleepEntry]
          /\ \A r \in Procs : /\ T[r].status = procTable4[r].status
                              /\ T[r].awakeTime = procTable4[r].awakeTime
                              /\ T[r].sleepPtr = IF r = b THEN p ELSE procTable4[r].sleepPtr
      BY <1>1, <1>3, <2>1, PtrSetDoes
    <2>4. QED
      BY <2>2, <2>3, PtrSetDoes DEF AwakeTime, NextSleeper
  <1>4. QED
    BY <1>2, <1>3

LEMMA SleepLinkInKeepsLine ==
  ASSUME LineInv, ~torn, NEW p \in Procs, SleepLinkIn(p) PROVE LineInv'
  <1>0. PICK a, b : a = sleeper[p].after /\ b = sleeper[p].before
    OBVIOUS
  <1>1. /\ procTable4' = Linked(p, b, a)
        /\ headSleepList' = IF b = NULL THEN p ELSE headSleepList
        /\ sleeper' = [sleeper EXCEPT ![p] = Standing("queued")]
        /\ clockDriver' = clockDriver /\ due' = due /\ clock' = clock
        /\ sleeper[p].at = "linking" /\ torn' = (torn \/ SleepStale(p, b, a))
    BY <1>0 DEF SleepLinkIn
  <1>2. a \in Procs \cup {NULL} /\ b \in Procs \cup {NULL} /\ NULL \notin Procs
    BY <1>0, SleepTypes, ProgramsAssumption DEF LineInv, Looks
  <1>3. Standing("queued") \in Looks /\ Standing("queued").at = "queued"
    BY LooksAre
  <1>4. /\ sleeper' \in [Procs -> Looks]
        /\ \A r \in Procs : sleeper'[r] = IF r = p THEN Standing("queued") ELSE sleeper[r]
    BY <1>1, <1>3, SleeperSet DEF LineInv
  <1>5. /\ procTable4' \in [Procs -> SleepEntry]
        /\ \A r \in Procs : /\ procTable4'[r].status = procTable4[r].status
                            /\ AwakeTime(r)' = AwakeTime(r)
                            /\ NextSleeper(r)' = IF r = p THEN a ELSE IF r = b THEN p ELSE NextSleeper(r)
    <2>1. SleepTypeOK
      BY DEF LineInv
    <2>2. /\ procTable4' \in [Procs -> SleepEntry]
          /\ \A r \in Procs :
               /\ procTable4'[r].status = procTable4[r].status
               /\ procTable4'[r].awakeTime = AwakeTime(r)
               /\ procTable4'[r].sleepPtr = IF r = p THEN a ELSE IF r = b THEN p ELSE NextSleeper(r)
      BY <1>1, <1>2, <2>1, LinkedDoes
    <2>3. \A r \in Procs : /\ AwakeTime(r)' = procTable4'[r].awakeTime
                           /\ NextSleeper(r)' = procTable4'[r].sleepPtr
      BY DEF AwakeTime, NextSleeper
    <2>4. QED
      BY <2>2, <2>3
  <1>6. SleepTypeOK'
    <2>1. \A r \in Procs : procTable4'[r].status = "ACTIVE" <=> sleeper'[r].at # "user"
      BY <1>1, <1>3, <1>4, <1>5 DEF LineInv, SleepTypeOK
    <2>2. headSleepList' \in Procs \cup {NULL} /\ torn' \in BOOLEAN
      BY <1>1 DEF LineInv, SleepTypeOK
    <2>3. QED
      BY <1>1, <1>4, <1>5, <2>1, <2>2 DEF LineInv, SleepTypeOK, Looks
  <1>7. SUFFICES ASSUME ~torn' PROVE SleepersLinked' /\ Rising' /\ WakingSleeps'
    BY <1>6 DEF LineInv
  <1>8. ~SleepStale(p, b, a)
    BY <1>1, <1>7
  <1>9. IF b = NULL THEN headSleepList = a
        ELSE Listed(b) /\ NextSleeper(b) = a /\ AwakeTime(b) <= AwakeTime(p)
    BY <1>8 DEF SleepStale
  <1>10. a # NULL => AwakeTime(p) <= AwakeTime(a)
    <2>1. a # NULL => ~(AwakeTime(a) < AwakeTime(p)) /\ a \in Procs
      BY <1>2, <1>8 DEF SleepStale
    <2>2. QED
      BY <2>1, SleepTypes DEF LineInv
  <1>11. ~Sleeping(p) /\ Sleeping(p)' /\ \A r \in Procs : r # p => (Sleeping(r)' <=> Sleeping(r))
    BY <1>1, <1>3, <1>4 DEF Sleeping
  <1>12. clockDriver # Driving("waking", p)
    BY <1>11 DEF LineInv, WakingSleeps
  <1>13. ~Listed(p) /\ \A r \in Procs : Listed(r)' <=> Listed(r) \/ r = p
    BY <1>1, <1>11, <1>12 DEF Listed
  <1>14. WakingSleeps'
    BY <1>1, <1>11, <1>12 DEF LineInv, WakingSleeps
  <1>15. ASSUME NEW x \in Procs, NEW y \in Procs, Listed(x)', NextSleeper(x)' = y
         PROVE  AwakeTime(x)' <= AwakeTime(y)'
    <2>1. SUFFICES AwakeTime(x) <= AwakeTime(y)
      BY <1>5
    <2>2. CASE x = p
      <3>1. y = a /\ a # NULL
        BY <1>2, <1>5, <1>15, <2>2
      <3>2. QED
        BY <1>10, <2>2, <3>1
    <2>3. CASE x # p /\ x = b
      <3>1. y = p /\ b # NULL
        BY <1>2, <1>5, <1>15, <2>3
      <3>2. QED
        BY <1>9, <2>3, <3>1
    <2>4. CASE x # p /\ x # b
      <3>1. Listed(x) /\ NextSleeper(x) = y
        BY <1>5, <1>13, <1>15, <2>4
      <3>2. QED
        BY <3>1 DEF LineInv, Rising
    <2>5. QED
      BY <2>2, <2>3, <2>4
  <1>16. Rising'
    BY <1>15 DEF Rising
  <1>17. PICK q \in Seq(Procs) : IsChain(q, headSleepList, SleepLinks, NULL) /\ Elements(q) = Sleepers
    BY DEF LineInv, SleepersLinked
  <1>18. p \notin Elements(q) /\ Sleepers' = Elements(q) \cup {p}
    BY <1>13, <1>17 DEF Sleepers
  <1>19. PICK next : next = SleepLinks'
    OBVIOUS
  <1>20. \A r \in Procs : next[r] = IF r = p THEN a ELSE IF r = b THEN p ELSE SleepLinks[r]
    <2>1. \A r \in Procs : SleepLinks'[r] = NextSleeper(r)' /\ SleepLinks[r] = NextSleeper(r)
      BY LinksNext, LinksAre
    <2>2. QED
      BY <1>5, <1>19, <2>1
  <1>21. Len(q) \in Nat /\ \A i \in 1..Len(q) : q[i] \in Procs /\ q[i] # p /\ Listed(q[i])
    BY <1>17, <1>18, ElementsOf DEF Sleepers
  <1>22. SleepersLinked'
    <2>1. CASE b = NULL
      <3>1. \A i \in 1..Len(q) : next[q[i]] = SleepLinks[q[i]]
        BY <1>2, <1>20, <1>21, <2>1
      <3>2. PutInFront(q, p, headSleepList, SleepLinks, next)
        BY <1>9, <1>20, <2>1, <3>1 DEF PutInFront
      <3>3. \E r \in Seq(Procs) : IsChain(r, p, next, NULL) /\ Elements(r) = Elements(q) \cup {p}
        BY <1>17, <1>18, <3>2, ChainPrepends
      <3>4. QED
        BY <1>1, <1>18, <1>19, <2>1, <3>3 DEF SleepersLinked
    <2>2. CASE b # NULL
      <3>1. b \in Procs /\ Listed(b) /\ NextSleeper(b) = a
        BY <1>2, <1>9, <2>2
      <3>2. PICK k \in 1..Len(q) : q[k] = b
        BY <1>17, <3>1 DEF Elements, Sleepers
      <3>3. \A i \in 1..Len(q) : i # k => q[i] # b
        BY <1>17, <3>2 DEF IsChain
      <3>4. PutBehind(q, k, p, SleepLinks, next)
        <4>1. next[q[k]] = p /\ next[p] = SleepLinks[q[k]]
          BY <1>20, <1>21, <3>1, <3>2, LinksAre
        <4>2. \A i \in 1..Len(q) : i # k => next[q[i]] = SleepLinks[q[i]]
          BY <1>20, <1>21, <3>3
        <4>3. QED
          BY <4>1, <4>2 DEF PutBehind
      <3>5. PICK r : r = Inserted(q, k, p)
        OBVIOUS
      <3>6. r \in Seq(Procs) /\ IsChain(r, headSleepList, next, NULL)
        BY <1>17, <1>18, <3>4, <3>5, ChainGrows
      <3>7. Elements(r) = Elements(q) \cup {p}
        BY <3>5, GrownElements
      <3>8. QED
        BY <1>1, <1>18, <1>19, <2>2, <3>6, <3>7 DEF SleepersLinked
    <2>3. QED
      BY <2>1, <2>2
  <1>23. QED
    BY <1>14, <1>16, <1>22
-----------------------------------------------------------------------------
LEMMA LineAfter ==
  ASSUME LineInv, [SleepNext]_sleepVars PROVE LineInv'
  <1>1. CASE UNCHANGED sleepVars
    <2>1. SleepTypeOK'
      BY <1>1 DEF LineInv, SleepTypeOK, sleepVars
    <2>2. /\ headSleepList' = headSleepList /\ torn' = torn /\ clockDriver' = clockDriver
          /\ \A p \in Procs : /\ Listed(p)' <=> Listed(p)
                              /\ Sleeping(p)' <=> Sleeping(p)
                              /\ NextSleeper(p)' = NextSleeper(p) /\ AwakeTime(p)' = AwakeTime(p)
      BY <1>1 DEF sleepVars, Listed, Sleeping, NextSleeper, AwakeTime
    <2>3. ASSUME ~torn PROVE SleepersLinked' /\ Rising' /\ WakingSleeps'
      <3>1. SleepersLinked' /\ Rising'
        BY <2>2, <2>3, SameLine DEF LineInv
      <3>2. WakingSleeps'
        BY <2>2, <2>3 DEF LineInv, WakingSleeps
      <3>3. QED
        BY <3>1, <3>2
    <2>4. QED
      BY <2>1, <2>2, <2>3 DEF LineInv
  <1>2. CASE SleepNext
    <2>1. ~torn
      BY <1>2 DEF SleepNext
    <2>2. CASE Tick
      BY <2>1, <2>2, TickKeepsLine
    <2>3. CASE ClockDriver
      BY <2>1, <2>3, TakesHeadKeepsLine, NobodyDueKeepsLine, WakesKeepsLine DEF ClockDriver
    <2>4. ASSUME NEW p \in Procs, SleepContinue(p) PROVE LineInv'
      BY <2>1, <2>4, SleepLinkInKeepsLine, SleepReceivesKeepsLine, SleepReturnsKeepsLine DEF SleepContinue
    <2>5. ASSUME NEW p \in Procs, NEW s \in Seconds, SleepReal(p, s) PROVE LineInv'
      BY <2>1, <2>5, SleepRealKeepsLine
    <2>6. QED
      BY <1>2, <2>2, <2>3, <2>4, <2>5 DEF SleepNext
  <1>3. QED
    BY <1>1, <1>2

LEMMA LineAlways == SleepSpec => []LineInv
  <1>1. LineInv /\ [SleepNext]_sleepVars => LineInv'
    BY LineAfter
  <1>2. QED
    BY <1>1, InitLine, PTL DEF SleepSpec

(* The state of the list and of those who sleep is of its types, torn or   *)
(* not and with times that overflow; and the entry of a process is in use  *)
(* exactly while it sleeps.                                                *)
THEOREM SleepTypeCorrect == SleepSpec => []SleepTypeOK
  <1>1. LineInv => SleepTypeOK
    BY DEF LineInv
  <1>2. QED
    BY <1>1, LineAlways, PTL

(* The first of the list is due no later than any other.                   *)
LEMMA HeadIsFirst ==
  ASSUME LineInv, ~torn, NEW p \in Procs, Listed(p)
  PROVE  headSleepList \in Procs /\ AwakeTime(headSleepList) <= AwakeTime(p)
  <1>1. PICK q \in Seq(Procs) : IsChain(q, headSleepList, SleepLinks, NULL) /\ Elements(q) = Sleepers
    BY DEF LineInv, SleepersLinked
  <1>2. /\ Len(q) \in Nat
        /\ \A i \in 1..Len(q) : q[i] \in Procs /\ Listed(q[i]) /\ AwakeTime(q[i]) \in Int
    BY <1>1, ElementsOf, SleepTypes DEF Sleepers, LineInv
  <1>3. PICK m \in 1..Len(q) : q[m] = p
    BY <1>1 DEF Elements, Sleepers
  <1>4. 1 \in 1..Len(q) /\ headSleepList = q[1]
    <2>1. 1 \in 1..Len(q) /\ Len(q) # 0
      BY <1>2, <1>3
    <2>2. QED
      BY <1>1, <2>1 DEF IsChain
  <1> DEFINE T == {i \in 1..Len(q) : ~(AwakeTime(headSleepList) <= AwakeTime(q[i]))}
  <1>5. T = {}
    <2>1. SUFFICES ASSUME T # {} PROVE FALSE
      OBVIOUS
    <2>2. T \in SUBSET Nat
      BY <1>2
    <2>3. PICK i \in T : \A j \in T : i <= j
      BY <2>1, <2>2, LeastOf
    <2>4. i \in 1..Len(q) /\ ~(AwakeTime(headSleepList) <= AwakeTime(q[i])) /\ i # 1
      BY <1>2, <1>4, <2>3
    <2>5. i - 1 \in 1..Len(q) /\ ~(i <= i - 1) /\ (i - 1) + 1 = i /\ i - 1 < Len(q)
      BY <1>2, <2>4
    <2>6. AwakeTime(headSleepList) <= AwakeTime(q[i - 1])
      BY <2>3, <2>5
    <2>7. NextSleeper(q[i - 1]) = q[i]
      BY <1>1, <1>2, <2>5, LinksAre DEF IsChain
    <2>8. AwakeTime(q[i - 1]) <= AwakeTime(q[i])
      BY <1>2, <2>4, <2>5, <2>7 DEF LineInv, Rising
    <2>9. QED
      BY <1>2, <1>4, <2>4, <2>5, <2>6, <2>8
  <1>6. m \notin T
    BY <1>5
  <1>7. QED
    BY <1>2, <1>3, <1>4, <1>6

(* Only the driver that found nobody due goes back to the device.          *)
LEMMA GoesBack ==
  ASSUME SleepNext, clockDriver.at = "checking", clockDriver'.at = "waitDevice"
  PROVE  NobodyDue
  <1>1. ~Tick
    BY DEF Tick
  <1>2. ~TakesHead
    BY DEF TakesHead, Driving
  <1>3. \A p \in Procs : ~Wakes(p)
    BY DEF Wakes, Driving
  <1>4. \A p \in Procs : ~SleepContinue(p)
    BY DEF SleepContinue, SleepLinkIn, SleepReceives, SleepReturns
  <1>5. \A p \in Procs : \A s \in Seconds : ~SleepReal(p, s)
    BY DEF SleepReal
  <1>6. QED
    BY <1>1, <1>2, <1>3, <1>4, <1>5 DEF SleepNext, ClockDriver

LEMMA NobodyIsLeft ==
  ASSUME LineInv, SleepInv, ~torn, NobodyDue, NEW p \in Procs, Sleeping(p)
  PROVE  due[p] > clock
  <1>1. Listed(p)
    BY DEF NobodyDue, Listed, Driving
  <1>2. headSleepList \in Procs /\ AwakeTime(headSleepList) <= AwakeTime(p)
    BY <1>1, HeadIsFirst
  <1>3. ~(AwakeTime(headSleepList) <= clock)
    BY <1>2, ProgramsAssumption DEF NobodyDue, HeadIsDue
  <1>4. AwakeTime(p) = due[p]
    BY DEF SleepInv, WholeList, EntryIsDue, Sleeping
  <1>5. AwakeTime(p) \in Int /\ AwakeTime(headSleepList) \in Int /\ clock \in Int
    BY <1>2, SleepTypes DEF LineInv
  <1>6. QED
    BY <1>2, <1>3, <1>4, <1>5

(* When the clock driver goes back to its device, nobody still sleeps who  *)
(* is due, though it looked no further than the first that is not: as long *)
(* as nobody sleeps past the largest int.                                  *)
THEOREM NobodyIsLate ==
  ASSUME Horizon <= IntMax PROVE SleepSpec => NobodyOversleeps
  <1>1. SleepInit => SleepInv
    BY InitWhole DEF SleepInv
  <1>2. SleepInv /\ [SleepNext]_sleepVars => SleepInv'
    BY StepKeepsInv
  <1>3. ASSUME LineInv, SleepInv, [SleepNext]_sleepVars
        PROVE  [clockDriver.at = "checking" /\ clockDriver'.at = "waitDevice" /\ ~torn
                => \A p \in Procs : Sleeping(p) => due[p] > clock]_sleepVars
    <2>1. SUFFICES ASSUME SleepNext, clockDriver.at = "checking", clockDriver'.at = "waitDevice",
                          ~torn, NEW p \in Procs, Sleeping(p)
                   PROVE  due[p] > clock
      BY <1>3
    <2>2. NobodyDue
      BY <2>1, GoesBack
    <2>3. QED
      BY <1>3, <2>1, <2>2, NobodyIsLeft
  <1>4. QED
    BY <1>1, <1>2, <1>3, LineAlways, PTL DEF SleepSpec, NobodyOversleeps
-----------------------------------------------------------------------------
(* What one terminal of phase 4 keeps, for any keys, programs, lengths of  *)
(* lines and sizes of the mailboxes, and any interleaving of the device,   *)
(* the driver, the reader, the writer and the programs: input arrives in   *)
(* order, lines are put out whole, the writer hears of its character, and  *)
(* a program gets the count of its own line.                               *)
(*                                                                         *)
(* The four rest on one another in part: that lines on the screen can be   *)
(* told apart rests on who has which line (LinesOwned), and that the       *)
(* writer hears of its character on the device being idle between two of   *)
(* them (OutputInv).                                                       *)

(* The types that the proofs need, part by part; more precise than         *)
(* TerminalTypeOK.                                                         *)
Chars == 1..Len(Keys)
Places == Nat \X Nat
TheSlips == {"keyLost", "lineLost", "readyLost", "early"}

CountersShape == typed \in 0..Len(Keys) /\ written \in 0..MaxLinesWritten
DeviceShape ==
    device \in [recv : 0..Len(Keys), sends : {<<>>} \cup Places, interrupt : BOOLEAN]
DriverShape == termDriver \in [recv : 0..Len(Keys), xmit : {"none", "ready", "busy"}]
CharInShape == charIn \in Seq(Chars) /\ Len(charIn) <= 1
ReaderShape == reader \in Seq(Chars) /\ Len(reader) < MaxLine
LinesShape(lines) ==
    /\ lines \in Seq(Seq(Chars))
    /\ \A i \in 1..Len(lines) : Len(lines[i]) \in 1..MaxLine
Positions == [at : {"writeLine", "next", "output", "charOut"},
              line : 0..MaxLinesWritten, length : Nat, put : Nat]
WriterShape ==
    /\ writer \in Positions
    /\ writer.put <= writer.length
ScreenShape == screen \in Seq(Places)
Uses == [at : {"user", "writing", "counting"}, line : 0..MaxLinesWritten, length : Nat]
UsersShape == terminalUser \in [TerminalUsers -> Uses]
SlipsShape == slips \subseteq TheSlips

TerminalShape ==
    /\ CountersShape /\ DeviceShape /\ DriverShape
    /\ CharInShape /\ ReaderShape
    /\ LinesShape(readLines) /\ Len(readLines) <= MaxLines /\ LinesShape(linesRead)
    /\ WriterShape /\ ScreenShape /\ UsersShape /\ SlipsShape

LEMMA KeysAreCounted == Len(Keys) \in Nat
  BY TerminalAssumption

(* A line that is complete goes to the end of the lines. *)
LEMMA LinesAppend ==
  ASSUME NEW lines, LinesShape(lines), NEW l \in Seq(Chars), Len(l) \in 1..MaxLine
  PROVE  LinesShape(Append(lines, l))
  BY AppendProperties DEF LinesShape

LEMMA LinesTail ==
  ASSUME NEW lines, LinesShape(lines), lines # <<>>
  PROVE  /\ LinesShape(Tail(lines)) /\ Len(Tail(lines)) = Len(lines) - 1
         /\ Head(lines) \in Seq(Chars) /\ Len(Head(lines)) \in 1..MaxLine
  BY HeadTailProperties DEF LinesShape

LEMMA TerminalInitShape == TerminalInit => TerminalShape
  <1>1. SUFFICES ASSUME TerminalInit PROVE TerminalShape
    OBVIOUS
  <1>2. CountersShape /\ DeviceShape /\ DriverShape
    BY TerminalAssumption, KeysAreCounted, <1>1 DEF TerminalInit, CountersShape, DeviceShape, DriverShape, NoStatus
  <1>3. CharInShape /\ ReaderShape
    BY TerminalAssumption, <1>1 DEF TerminalInit, CharInShape, ReaderShape
  <1>4. LinesShape(readLines) /\ Len(readLines) <= MaxLines /\ LinesShape(linesRead)
    BY TerminalAssumption, <1>1 DEF TerminalInit, LinesShape
  <1>5. WriterShape /\ UsersShape
    BY TerminalAssumption, <1>1
    DEF TerminalInit, WriterShape, Positions, Uses, UsersShape, NoLine, Writing, AtHome, Using
  <1>6. ScreenShape /\ SlipsShape
    BY <1>1 DEF TerminalInit, ScreenShape, SlipsShape
  <1>7. QED
    BY <1>2, <1>3, <1>4, <1>5, <1>6 DEF TerminalShape

LEMMA PressKeepsShape == TerminalShape /\ Press => TerminalShape'
  <1>1. SUFFICES ASSUME TerminalShape, Press PROVE TerminalShape'
    OBVIOUS
  <1>2. CountersShape' /\ typed' \in 0..Len(Keys)
    BY KeysAreCounted, <1>1 DEF TerminalShape, Press, CountersShape
  <1>5. DeviceShape'
    BY <1>1, <1>2 DEF TerminalShape, Press, DeviceShape
  <1>3. SlipsShape'
    BY <1>1 DEF TerminalShape, Press, SlipsShape, TheSlips
  <1>4. QED
    BY <1>1, <1>2, <1>3, <1>5
    DEF TerminalShape, Press, DriverShape, CharInShape, ReaderShape, WriterShape, ScreenShape,
        UsersShape, LinesShape

LEMMA SentKeepsShape == TerminalShape /\ Sent => TerminalShape'
  <1>1. SUFFICES ASSUME TerminalShape, Sent PROVE TerminalShape'
    OBVIOUS
  <1>2. DeviceShape'
    BY KeysAreCounted, <1>1 DEF TerminalShape, Sent, DeviceShape
  <1>3. ScreenShape'
    <2>1. device.sends \in Places
      BY <1>1 DEF TerminalShape, Sent, DeviceShape
    <2>2. QED
      BY <1>1, <2>1 DEF TerminalShape, Sent, ScreenShape
  <1>4. QED
    BY <1>1, <1>2, <1>3
    DEF TerminalShape, Sent, CountersShape, DriverShape, CharInShape, ReaderShape, WriterShape, SlipsShape,
        UsersShape, LinesShape

LEMMA TermHandlerKeepsShape == TerminalShape /\ TermHandler => TerminalShape'
  <1>1. SUFFICES ASSUME TerminalShape, TermHandler PROVE TerminalShape'
    OBVIOUS
  <1>2. DeviceShape'
    <2>1. 0 \in 0..Len(Keys)
      BY KeysAreCounted
    <2>2. QED
      BY <1>1, <2>1 DEF TerminalShape, TermHandler, DeviceShape
  <1>5. DriverShape'
    BY <1>1 DEF TerminalShape, TermHandler, DeviceShape, DriverShape
  <1>3. SlipsShape'
    BY <1>1 DEF TerminalShape, TermHandler, SlipsShape, TheSlips
  <1>4. QED
    BY <1>1, <1>2, <1>3, <1>5
    DEF TerminalShape, TermHandler, CountersShape, CharInShape, ReaderShape, WriterShape, ScreenShape,
        UsersShape, LinesShape

LEMMA TermDriverKeepsShape == TerminalShape /\ TermDriver => TerminalShape'
  <1>1. SUFFICES ASSUME TerminalShape, TermDriver PROVE TerminalShape'
    OBVIOUS
  <1>2. DriverShape'
    BY KeysAreCounted, <1>1 DEF TermDriver, NoStatus, DriverShape
  <1>3. CharInShape'
    <2>1. termDriver.recv # 0 => termDriver.recv \in Chars
      BY KeysAreCounted, <1>1 DEF TerminalShape, DriverShape, Chars
    <2>2. QED
      BY <1>1, <2>1 DEF TerminalShape, TermDriver, CharInShape, HandsOn
  <1>4. WriterShape'
    BY <1>1 DEF TerminalShape, TermDriver, WriterShape, Positions
  <1>5. SlipsShape'
    BY <1>1 DEF TerminalShape, TermDriver, SlipsShape, TheSlips
  <1>6. QED
    BY <1>1, <1>2, <1>3, <1>4, <1>5
    DEF TerminalShape, TermDriver, CountersShape, DeviceShape, ReaderShape, ScreenShape,
        UsersShape, LinesShape

LEMMA TermReaderKeepsShape == TerminalShape /\ TermReader => TerminalShape'
  <1>1. SUFFICES ASSUME TerminalShape, TermReader PROVE TerminalShape'
    OBVIOUS
  <1> DEFINE l == Append(reader, Head(charIn))
  <1>2. Head(charIn) \in Chars /\ CharInShape'
    BY <1>1 DEF TerminalShape, TermReader, CharInShape
  <1>3. l \in Seq(Chars) /\ Len(l) \in 1..MaxLine
    BY TerminalAssumption, <1>1, <1>2 DEF TerminalShape, ReaderShape
  <1>4. ReaderShape'
    BY TerminalAssumption, <1>1, <1>3 DEF TermReader, Complete, ReaderShape
  <1>5. LinesShape(readLines)' /\ (Len(readLines) <= MaxLines)'
    <2>1. LinesShape(Append(readLines, l))
      BY <1>1, <1>3, LinesAppend DEF TerminalShape
    <2>2. \/ readLines' = readLines
          \/ readLines' = Append(readLines, l) /\ Len(readLines) # MaxLines
      BY <1>1 DEF TermReader
    <2>3. Len(readLines) \in Nat /\ Len(Append(readLines, l)) = Len(readLines) + 1
      BY <1>1, <1>3 DEF TerminalShape, LinesShape
    <2>4. CASE readLines' = readLines
      BY <1>1, <2>4 DEF TerminalShape, LinesShape
    <2>5. CASE readLines' = Append(readLines, l) /\ Len(readLines) # MaxLines
      <3>1. (Len(readLines) <= MaxLines)'
        BY TerminalAssumption, <1>1, <2>3, <2>5 DEF TerminalShape
      <3>2. QED
        BY <2>1, <2>5, <3>1 DEF LinesShape
    <2>6. QED
      BY <2>2, <2>4, <2>5
  <1>6. SlipsShape'
    BY <1>1 DEF TerminalShape, TermReader, SlipsShape, TheSlips
  <1>7. QED
    BY <1>1, <1>2, <1>4, <1>5, <1>6
    DEF TerminalShape, TermReader, CountersShape, DeviceShape, DriverShape, WriterShape, ScreenShape,
        UsersShape, LinesShape

LEMMA TermReadKeepsShape ==
  ASSUME NEW p PROVE TerminalShape /\ TermRead(p) => TerminalShape'
  <1>1. SUFFICES ASSUME TerminalShape, TermRead(p) PROVE TerminalShape'
    OBVIOUS
  <1>2. LinesShape(Tail(readLines)) /\ Len(Tail(readLines)) = Len(readLines) - 1
        /\ LinesShape(Append(linesRead, Head(readLines)))
    BY <1>1, LinesTail, LinesAppend DEF TerminalShape, TermRead
  <1>3. LinesShape(readLines)' /\ (Len(readLines) <= MaxLines)' /\ LinesShape(linesRead)'
    BY TerminalAssumption, <1>1, <1>2 DEF TerminalShape, TermRead, LinesShape
  <1>4. QED
    BY <1>1, <1>3
    DEF TerminalShape, TermRead, CountersShape, DeviceShape, DriverShape, CharInShape, ReaderShape,
        WriterShape, ScreenShape, UsersShape, SlipsShape

LEMMA TermWriteKeepsShape ==
  ASSUME NEW p \in TerminalUsers, NEW n \in Lengths
  PROVE  TerminalShape /\ TermWrite(p, n) => TerminalShape'
  <1>1. SUFFICES ASSUME TerminalShape, TermWrite(p, n) PROVE TerminalShape'
    OBVIOUS
  <1>2. CountersShape' /\ UsersShape'
    BY TerminalAssumption, <1>1 DEF TerminalShape, TermWrite, CountersShape, UsersShape, Uses, Using
  <1>3. QED
    BY <1>1, <1>2
    DEF TerminalShape, TermWrite, DeviceShape, DriverShape, CharInShape, ReaderShape,
        WriterShape, ScreenShape, SlipsShape, LinesShape

LEMMA TermWriterKeepsShape == TerminalShape /\ TermWriter => TerminalShape'
  <1>1. SUFFICES ASSUME TerminalShape, TermWriter PROVE TerminalShape'
    OBVIOUS
  <1>2. CASE WriterPuts
    <2>1. WriterShape'
      <3>1. PICK w : w = [writer EXCEPT !.at = "output"]
        OBVIOUS
      <3>2. writer \in Positions /\ writer.put < writer.length
        BY <1>1, <1>2 DEF TerminalShape, WriterPuts, WriterShape
      <3>3. w \in Positions /\ w.put < w.length
        BY <3>1, <3>2 DEF Positions
      <3>4. writer' = [w EXCEPT !.put = w.put + 1]
        BY <1>2, <3>1, <3>2 DEF WriterPuts, Positions
      <3>5. QED
        BY <3>3, <3>4 DEF WriterShape, Positions
    <2>2. <<writer.line, writer.put + 1>> \in Places
      BY TerminalAssumption, <1>1 DEF TerminalShape, WriterShape, Positions, Places
    <2>3. DeviceShape'
      BY <1>1, <1>2, <2>2 DEF TerminalShape, WriterPuts, DeviceShape
    <2>4. QED
      BY <1>1, <1>2, <2>1, <2>3
      DEF TerminalShape, WriterPuts, CountersShape, DriverShape, CharInShape, ReaderShape,
          ScreenShape, UsersShape, SlipsShape, LinesShape
  <1>3. CASE WriterWaits
    <2>1. WriterShape'
      BY <1>1, <1>3 DEF TerminalShape, WriterWaits, WriterShape, Positions, PutOut
    <2>2. QED
      BY <1>1, <1>3, <2>1
      DEF TerminalShape, WriterWaits, CountersShape, DeviceShape, DriverShape, CharInShape, ReaderShape,
          ScreenShape, UsersShape, SlipsShape, LinesShape
  <1>4. ASSUME NEW p \in TerminalUsers, WriterGetsLine(p) \/ WriterSendsCount(p) PROVE TerminalShape'
    <2>1. terminalUser[p] \in Uses
      BY <1>1 DEF TerminalShape, UsersShape
    <2>3. WriterShape'
      BY TerminalAssumption, <1>4, <2>1
      DEF WriterGetsLine, WriterSendsCount, WriterShape, Writing, NoLine, Uses, Positions
    <2>4. UsersShape'
      <3>1. PICK u : u = [terminalUser[p] EXCEPT !.at = "counting"]
        OBVIOUS
      <3>2. u \in Uses /\ AtHome \in Uses
        BY TerminalAssumption, <2>1, <3>1 DEF Uses, AtHome, Using
      <3>3. terminalUser' = [terminalUser EXCEPT ![p] = u]
            \/ terminalUser' = [terminalUser EXCEPT ![p] = AtHome]
        BY <1>4, <3>1 DEF WriterGetsLine, WriterSendsCount
      <3>4. QED
        BY <1>1, <3>2, <3>3 DEF TerminalShape, UsersShape
    <2>2. QED
      BY <1>1, <1>4, <2>3, <2>4
      DEF TerminalShape, WriterGetsLine, WriterSendsCount, CountersShape, DeviceShape, DriverShape,
          CharInShape, ReaderShape, ScreenShape, SlipsShape, LinesShape
  <1>5. QED
    BY <1>1, <1>2, <1>3, <1>4 DEF TermWriter

LEMMA NextKeepsShape == TerminalShape /\ [TerminalNext]_terminalVars => TerminalShape'
  <1>1. TerminalShape /\ UNCHANGED terminalVars => TerminalShape'
    BY DEF terminalVars, TerminalShape, CountersShape, DeviceShape, DriverShape, CharInShape, ReaderShape,
           WriterShape, ScreenShape, UsersShape, SlipsShape, LinesShape
  <1>2. QED
    BY <1>1, PressKeepsShape, SentKeepsShape, TermHandlerKeepsShape, TermDriverKeepsShape,
       TermReaderKeepsShape, TermReadKeepsShape, TermWriteKeepsShape, TermWriterKeepsShape
    DEF TerminalNext

LEMMA ShapeIsTypeOK == TerminalShape => TerminalTypeOK
  <1>1. SUFFICES ASSUME TerminalShape PROVE TerminalTypeOK
    OBVIOUS
  <1>2. /\ typed \in 0..Len(Keys) /\ device.recv \in 0..Len(Keys) /\ device.interrupt \in BOOLEAN
        /\ slips \subseteq {"keyLost", "lineLost", "readyLost", "early"}
    BY <1>1 DEF TerminalShape, CountersShape, DeviceShape, SlipsShape, TheSlips
  <1>3. /\ Len(charIn) <= 1 /\ Len(reader) < MaxLine /\ Len(readLines) <= MaxLines
        /\ \A l \in ToSet(readLines) : Len(l) \in 1..MaxLine
    BY <1>1 DEF TerminalShape, CharInShape, ReaderShape, LinesShape, ToSet
  <1>4. /\ writer.at \in {"writeLine", "next", "output", "charOut"} /\ writer.put \in 0..writer.length
        /\ terminalUser \in [TerminalUsers -> [at : {"user", "writing", "counting"},
                                   line : 0..MaxLinesWritten, length : Nat]]
    BY <1>1 DEF TerminalShape, WriterShape, UsersShape, Positions, Uses
  <1>5. QED
    BY <1>2, <1>3, <1>4 DEF TerminalTypeOK

LEMMA ShapeAlways == TerminalSpec => []TerminalShape
  BY TerminalInitShape, NextKeepsShape, PTL DEF TerminalSpec

(* The types of the terminal, for any keys, users and lengths of lines.     *)
THEOREM TerminalTypeCorrect == TerminalSpec => []TerminalTypeOK
  BY ShapeAlways, ShapeIsTypeOK, PTL
-----------------------------------------------------------------------------
(* What the steps do to the device, field by field, and to the slips.       *)

LEMMA DeviceEffects ==
  ASSUME TerminalShape
  PROVE  /\ Press => /\ device'.recv = typed' /\ device'.sends = device.sends
                     /\ device'.interrupt
         /\ Sent => /\ device'.recv = device.recv /\ device'.sends = <<>>
                    /\ device'.interrupt
         /\ TermHandler => device'.recv = 0 /\ device'.sends = device.sends
         /\ WriterPuts => /\ device'.recv = device.recv
                          /\ device'.interrupt = device.interrupt
                          /\ device.sends = <<>> => device'.sends = <<writer.line, writer.put + 1>>
                          /\ device.sends # <<>> => device'.sends = device.sends
  <1>1. PICK d : d = device
    OBVIOUS
  <1>2. d \in [recv : 0..Len(Keys), sends : {<<>>} \cup Places, interrupt : BOOLEAN]
    BY <1>1 DEF TerminalShape, DeviceShape
  <1>3. ASSUME Press
        PROVE  device'.recv = typed' /\ device'.sends = d.sends /\ device'.interrupt
    BY <1>1, <1>2, <1>3 DEF Press
  <1>4. ASSUME Sent
        PROVE  device'.recv = d.recv /\ device'.sends = <<>> /\ device'.interrupt
    BY <1>1, <1>2, <1>4 DEF Sent
  <1>5. ASSUME TermHandler PROVE device'.recv = 0 /\ device'.sends = d.sends
    BY <1>1, <1>2, <1>5 DEF TermHandler
  <1>6. ASSUME WriterPuts
        PROVE  /\ device'.recv = d.recv /\ device'.interrupt = d.interrupt
               /\ d.sends = <<>> => device'.sends = <<writer.line, writer.put + 1>>
               /\ d.sends # <<>> => device'.sends = d.sends
    BY <1>1, <1>2, <1>6 DEF WriterPuts
  <1>7. QED
    BY <1>1, <1>3, <1>4, <1>5, <1>6

LEMMA WriterEffects ==
  ASSUME TerminalShape
  PROVE  /\ WriterPuts => /\ writer'.at = "output" /\ writer'.put = writer.put + 1
                          /\ writer'.line = writer.line
         /\ WriterWaits => /\ writer'.at = "charOut" /\ writer'.put = writer.put
                           /\ writer'.line = writer.line
         /\ TermDriver => /\ writer'.put = writer.put /\ writer'.line = writer.line
                          /\ writer'.at = IF Ready /\ writer.at = "charOut" THEN "next" ELSE writer.at
  <1>1. writer \in Positions
    BY DEF TerminalShape, WriterShape
  <1>2. WriterPuts => /\ writer'.at = "output" /\ writer'.put = writer.put + 1
                      /\ writer'.line = writer.line
    BY <1>1 DEF WriterPuts, Positions
  <1>3. WriterWaits => /\ writer'.at = "charOut" /\ writer'.put = writer.put
                       /\ writer'.line = writer.line
    BY <1>1 DEF WriterWaits, PutOut, Positions
  <1>4. TermDriver => /\ writer'.put = writer.put /\ writer'.line = writer.line
                      /\ writer'.at = IF Ready /\ writer.at = "charOut" THEN "next" ELSE writer.at
    BY <1>1 DEF TermDriver, Positions
  <1>5. QED
    BY <1>2, <1>3, <1>4

LEMMA SlipsGrow == TerminalNext => slips \subseteq slips'
  BY DEF TerminalNext, Press, Sent, TermHandler, TermDriver, TermReader, TermRead, TermWrite,
         TermWriter, WriterPuts, WriterWaits, WriterGetsLine, WriterSendsCount
-----------------------------------------------------------------------------
(* Whose line is whose.  Lines are numbered as they are written, no two     *)
(* processes write the same, and the writer has the line of none that       *)
(* still waits to hand its line over.                                      *)
Busy(p) == terminalUser[p].at # "user"

LinesOwned ==
    /\ \A p \in TerminalUsers : Busy(p) => terminalUser[p].line \in 1..written
    /\ \A p, q \in TerminalUsers :
          Busy(p) /\ Busy(q) /\ terminalUser[p].line = terminalUser[q].line => p = q
    /\ \A p \in TerminalUsers :
          terminalUser[p].at = "writing" => terminalUser[p].line # writer.line
    /\ writer.line <= written
    /\ writer.at = "writeLine" => writer.line = 0

LEMMA InitLinesOwned == TerminalInit => LinesOwned
  BY TerminalAssumption DEF TerminalInit, LinesOwned, Busy, AtHome, Using, NoLine, Writing

(* A step of the users and the writer that keeps them apart.               *)
LEMMA NextKeepsLinesOwned ==
  ASSUME TerminalShape, LinesOwned, [TerminalNext]_terminalVars
  PROVE  LinesOwned'
  <1>1. /\ terminalUser \in [TerminalUsers -> Uses] /\ written \in Nat
        /\ writer \in Positions
    BY TerminalAssumption DEF TerminalShape, UsersShape, CountersShape, WriterShape
  <1>2. CASE /\ UNCHANGED <<terminalUser, written>> /\ writer'.line = writer.line
             /\ writer'.at = "writeLine" => writer.at = "writeLine"
    BY <1>2 DEF LinesOwned, Busy
  <1>3. ASSUME NEW p \in TerminalUsers, NEW n \in Lengths, TermWrite(p, n) PROVE LinesOwned'
    <2>1. /\ written' = written + 1 /\ writer' = writer
          /\ terminalUser'[p].line = written' /\ Busy(p)'
          /\ \A q \in TerminalUsers \ {p} : terminalUser'[q] = terminalUser[q]
      BY <1>1, <1>3 DEF TermWrite, Using, Busy
    <2>2. \A q \in TerminalUsers \ {p} : Busy(q)' => terminalUser'[q].line \in 1..written
      BY <2>1 DEF LinesOwned, Busy
    <2>3. \A q \in TerminalUsers : Busy(q)' => terminalUser'[q].line \in 1..written'
      BY <1>1, <2>1, <2>2
    <2>4. \A q, r \in TerminalUsers :
            Busy(q)' /\ Busy(r)' /\ terminalUser'[q].line = terminalUser'[r].line => q = r
      BY <1>1, <2>1, <2>2 DEF LinesOwned, Busy
    <2>5. \A q \in TerminalUsers :
            terminalUser'[q].at = "writing" => terminalUser'[q].line # writer'.line
      BY <1>1, <2>1 DEF LinesOwned, Positions
    <2>6. writer'.line <= written' /\ (writer'.at = "writeLine" => writer'.line = 0)
      BY <1>1, <2>1 DEF LinesOwned, Positions
    <2>7. QED
      BY <2>3, <2>4, <2>5, <2>6 DEF LinesOwned
  <1>4. ASSUME NEW p \in TerminalUsers, WriterGetsLine(p) PROVE LinesOwned'
    <2>1. /\ written' = written /\ terminalUser[p].at = "writing"
          /\ writer'.line = terminalUser[p].line /\ writer'.at = "next"
          /\ terminalUser'[p].line = terminalUser[p].line /\ terminalUser'[p].at = "counting"
          /\ \A q \in TerminalUsers \ {p} : terminalUser'[q] = terminalUser[q]
      BY <1>1, <1>4 DEF WriterGetsLine, Writing, Uses
    <2>2. QED
      BY <1>1, <2>1 DEF LinesOwned, Busy, Uses
  <1>5. ASSUME NEW p \in TerminalUsers, WriterSendsCount(p) PROVE LinesOwned'
    <2>1. /\ written' = written /\ writer'.line = 0 /\ terminalUser'[p].at = "user"
          /\ \A q \in TerminalUsers \ {p} : terminalUser'[q] = terminalUser[q]
      BY <1>1, <1>5 DEF WriterSendsCount, NoLine, Writing, AtHome, Using
    <2>2. QED
      BY <1>1, <2>1 DEF LinesOwned, Busy
  <1>6. CASE UNCHANGED terminalVars
    BY <1>6, <1>2 DEF terminalVars
  <1>7. CASE Press \/ Sent \/ TermHandler \/ TermReader \/ \E p \in TerminalUsers : TermRead(p)
    BY <1>2, <1>7 DEF Press, Sent, TermHandler, TermReader, TermRead
  <1>8. CASE TermDriver
    BY <1>2, <1>8, WriterEffects DEF TermDriver
  <1>9. CASE WriterPuts \/ WriterWaits
    BY <1>2, <1>9, WriterEffects DEF WriterPuts, WriterWaits
  <1>10. QED
    BY <1>3, <1>4, <1>5, <1>6, <1>7, <1>8, <1>9 DEF TerminalNext, TermWriter

LEMMA LinesOwnedAlways == TerminalSpec => []LinesOwned
  BY InitLinesOwned, NextKeepsLinesOwned, ShapeAlways, PTL DEF TerminalSpec
-----------------------------------------------------------------------------
(* The count.                                                              *)
CountOwned ==
    \A p \in TerminalUsers :
        terminalUser[p].at = "counting" =>
            writer.at # "writeLine" /\ writer.line = terminalUser[p].line

LEMMA NextKeepsCountOwned ==
  ASSUME \A n \in Lengths : ~TooLong(n),
         TerminalShape, LinesOwned, CountOwned, [TerminalNext]_terminalVars
  PROVE  CountOwned'
  <1>1. terminalUser \in [TerminalUsers -> Uses] /\ writer \in Positions
    BY DEF TerminalShape, UsersShape, WriterShape
  <1>2. CASE /\ terminalUser' = terminalUser /\ writer'.line = writer.line
             /\ writer'.at = "writeLine" => writer.at = "writeLine"
    BY <1>2 DEF CountOwned
  <1>3. ASSUME NEW p \in TerminalUsers, NEW n \in Lengths, TermWrite(p, n) PROVE CountOwned'
    <2>1. /\ writer' = writer /\ terminalUser'[p].at = "writing"
          /\ \A q \in TerminalUsers \ {p} : terminalUser'[q] = terminalUser[q]
      BY <1>1, <1>3 DEF TermWrite, Using
    <2>2. QED
      BY <2>1 DEF CountOwned
  <1>4. ASSUME NEW p \in TerminalUsers, WriterGetsLine(p) PROVE CountOwned'
    <2>1. /\ writer.at = "writeLine"
          /\ writer'.line = terminalUser[p].line /\ writer'.at = "next"
          /\ terminalUser'[p].line = terminalUser[p].line
          /\ \A q \in TerminalUsers \ {p} : terminalUser'[q] = terminalUser[q]
      BY <1>1, <1>4 DEF WriterGetsLine, Writing, Uses
    <2>2. QED
      BY <2>1 DEF CountOwned
  <1>5. ASSUME NEW p \in TerminalUsers, WriterSendsCount(p) PROVE CountOwned'
    <2>1. /\ terminalUser[p].at = "counting" /\ terminalUser'[p].at = "user"
          /\ \A q \in TerminalUsers \ {p} : terminalUser'[q] = terminalUser[q]
      BY <1>1, <1>5 DEF WriterSendsCount, AtHome, Using
    <2>2. \A q \in TerminalUsers \ {p} : terminalUser[q].at # "counting"
      BY <2>1 DEF CountOwned, LinesOwned, Busy
    <2>3. QED
      BY <2>1, <2>2 DEF CountOwned
  <1>6. CASE UNCHANGED terminalVars
    BY <1>6, <1>2 DEF terminalVars
  <1>7. CASE Press \/ Sent \/ TermHandler \/ TermReader \/ \E p \in TerminalUsers : TermRead(p)
    BY <1>2, <1>7 DEF Press, Sent, TermHandler, TermReader, TermRead
  <1>8. CASE TermDriver
    BY <1>2, <1>8, WriterEffects DEF TermDriver
  <1>9. CASE WriterPuts \/ WriterWaits
    BY <1>2, <1>9, WriterEffects DEF WriterPuts, WriterWaits
  <1>10. QED
    BY <1>3, <1>4, <1>5, <1>6, <1>7, <1>8, <1>9 DEF TerminalNext, TermWriter

(* However many programs write, however their steps interleave: as long as *)
(* no line is too long, the count a program gets is that of its own line.   *)
(* termWriteReal waits for its count even when its send failed, so that     *)
(* with a line that is too long it takes somebody else's.                   *)
THEOREM CountsAreOwn ==
  ASSUME \A n \in Lengths : ~TooLong(n)
  PROVE  TerminalSpec => []CountIsOwn
  <1>1. TerminalInit => CountOwned
    BY DEF TerminalInit, CountOwned, AtHome, Using
  <1>2. TerminalShape /\ LinesOwned /\ CountOwned /\ [TerminalNext]_terminalVars => CountOwned'
    BY NextKeepsCountOwned
  <1>3. CountOwned => CountIsOwn
    BY DEF CountOwned, CountIsOwn
  <1>4. QED
    BY <1>1, <1>2, <1>3, ShapeAlways, LinesOwnedAlways, PTL DEF TerminalSpec
-----------------------------------------------------------------------------
(* The output, as long as the writer was not told that the device is ready *)
(* before it is.                                                           *)
Early == "early" \in slips

Follows(c, d) == d = <<c[1], c[2] + 1>> \/ (d[1] # c[1] /\ d[2] = 1)
Given == <<writer.line, writer.put>>    \* the character last given to the device
OnScreen == screen # <<>> /\ Last(screen) = Given

ScreenInOrder == \A i \in 1..Len(screen) - 1 : Follows(screen[i], screen[i + 1])

(* The line on the screen last is of nobody who still has to hand it over. *)
ScreenOwned ==
    screen # <<>> =>
        /\ Last(screen)[1] <= written
        /\ \A p \in TerminalUsers :
              terminalUser[p].at = "writing" => Last(screen)[1] # terminalUser[p].line

(* Between two characters the device is idle and has put out the first;     *)
(* while the writer waits, the device has put it out or still sends it.     *)
NothingSent ==
    /\ writer.at \in {"writeLine", "next"} => device.sends = <<>>
    /\ writer.at = "next" /\ writer.put > 0 => OnScreen
    /\ writer.at = "next" /\ writer.put = 0 /\ screen # <<>> => Last(screen)[1] # writer.line

CharacterSent ==
    writer.at \in {"output", "charOut"} =>
        /\ writer.put > 0
        /\ \/ device.sends = <<>> /\ OnScreen
           \/ device.sends = Given /\ (screen # <<>> => Follows(Last(screen), Given))

OutputInv == ScreenInOrder /\ ScreenOwned /\ NothingSent /\ CharacterSent

LEMMA InitOutput == TerminalInit => OutputInv
  BY DEF TerminalInit, OutputInv, ScreenInOrder, ScreenOwned, NothingSent, CharacterSent, NoLine, Writing

LEMMA SameOutput ==
  ASSUME OutputInv,
         device'.sends = device.sends, screen' = screen, writer' = writer,
         UNCHANGED <<terminalUser, written>>
  PROVE  OutputInv'
  BY DEF OutputInv, ScreenInOrder, ScreenOwned, NothingSent, CharacterSent, OnScreen, Given

LEMMA ScreenAppend ==
  ASSUME ScreenShape, NEW c \in Places
  PROVE  /\ Append(screen, c) # <<>> /\ Last(Append(screen, c)) = c
         /\ Len(Append(screen, c)) = Len(screen) + 1
         /\ \A i \in 1..Len(screen) : Append(screen, c)[i] = screen[i]
         /\ Append(screen, c)[Len(screen) + 1] = c
         /\ Len(screen) \in Nat
         /\ screen # <<>> => Last(screen) = screen[Len(screen)] /\ Len(screen) > 0
  BY AppendProperties DEF ScreenShape, Last

LEMMA SentKeepsOutput ==
  ASSUME TerminalShape, LinesOwned, OutputInv, Sent
  PROVE  OutputInv'
  <1>1. device'.sends = <<>> /\ screen' = Append(screen, device.sends)
        /\ UNCHANGED <<writer, terminalUser, written>> /\ device.sends # <<>>
    BY DeviceEffects DEF Sent
  <1>2. writer \in Positions /\ ScreenShape
    BY DEF TerminalShape, WriterShape
  <1>3. /\ writer.at \in {"output", "charOut"} /\ writer.put > 0 /\ device.sends = Given
        /\ screen # <<>> => Follows(Last(screen), Given)
    BY <1>1, <1>2 DEF OutputInv, NothingSent, CharacterSent, Positions
  <1>4. device.sends \in Places
    BY <1>1 DEF TerminalShape, DeviceShape
  <1>5. ScreenInOrder'
    <2>1. SUFFICES ASSUME NEW i \in 1..Len(screen')-1
                   PROVE  Follows(screen'[i], screen'[i + 1])
      BY DEF ScreenInOrder
    <2>2. CASE i = Len(screen)
      BY <1>1, <1>2, <1>3, <1>4, <2>2, ScreenAppend
    <2>3. CASE i # Len(screen)
      <3>1. i \in 1..Len(screen)-1 /\ i + 1 \in 1..Len(screen) /\ i \in 1..Len(screen)
        BY <1>1, <1>2, <1>4, <2>3, ScreenAppend
      <3>2. QED
        BY <1>1, <1>2, <1>4, <3>1, ScreenAppend DEF OutputInv, ScreenInOrder
    <2>4. QED
      BY <2>2, <2>3
  <1>6. OnScreen' /\ screen' # <<>>
    BY <1>1, <1>2, <1>3, <1>4, ScreenAppend DEF OnScreen, Given
  <1>7. ScreenOwned'
    <2>1. Last(screen')[1] = writer.line
      BY <1>1, <1>6 DEF OnScreen, Given
    <2>2. QED
      BY <1>1, <2>1 DEF ScreenOwned, LinesOwned
  <1>8. NothingSent' /\ CharacterSent'
    BY <1>1, <1>3, <1>6 DEF NothingSent, CharacterSent
  <1>9. QED
    BY <1>5, <1>7, <1>8 DEF OutputInv

LEMMA TermDriverKeepsOutput ==
  ASSUME TerminalShape, OutputInv, TermDriver, ~Early'
  PROVE  OutputInv'
  <1>1. /\ writer'.put = writer.put /\ writer'.line = writer.line
        /\ writer'.at = IF Ready /\ writer.at = "charOut" THEN "next" ELSE writer.at
        /\ UNCHANGED <<device, screen, terminalUser, written>>
    BY WriterEffects DEF TermDriver
  <1>2. Given' = Given /\ (OnScreen' <=> OnScreen)
    BY <1>1 DEF Given, OnScreen
  <1>3. ScreenInOrder' /\ ScreenOwned'
    BY <1>1 DEF OutputInv, ScreenInOrder, ScreenOwned
  <1>4. Ready /\ writer.at = "charOut" => device.sends = <<>>
    BY DEF TermDriver, Early
  <1>5. NothingSent' /\ CharacterSent'
    <2>4. Given # <<>>
      BY DEF Given
    <2>1. CASE Ready /\ writer.at = "charOut"
      BY <1>1, <1>2, <1>4, <2>1, <2>4 DEF OutputInv, NothingSent, CharacterSent
    <2>2. CASE ~(Ready /\ writer.at = "charOut")
      BY <1>1, <1>2, <2>2 DEF OutputInv, NothingSent, CharacterSent
    <2>3. QED
      BY <2>1, <2>2
  <1>6. QED
    BY <1>3, <1>5 DEF OutputInv

LEMMA TermWriteKeepsOutput ==
  ASSUME TerminalShape, OutputInv,
         NEW p \in TerminalUsers, NEW n \in Lengths, TermWrite(p, n)
  PROVE  OutputInv'
  <1>1. /\ written' = written + 1 /\ terminalUser'[p].line = written'
        /\ \A q \in TerminalUsers \ {p} : terminalUser'[q] = terminalUser[q]
        /\ UNCHANGED <<device, screen, writer>> /\ written \in Nat
        /\ screen # <<>> => Last(screen)[1] \in Nat
    <2>1. screen # <<>> => Last(screen) \in Places
      BY DEF TerminalShape, ScreenShape, Last
    <2>2. QED
      BY <2>1, TerminalAssumption
      DEF TermWrite, Using, TerminalShape, UsersShape, CountersShape, Places
  <1>2. ScreenOwned'
    BY <1>1 DEF OutputInv, ScreenOwned
  <1>3. QED
    BY <1>1, <1>2
    DEF OutputInv, ScreenInOrder, NothingSent, CharacterSent, OnScreen, Given

LEMMA WriterGetsLineKeepsOutput ==
  ASSUME TerminalShape, LinesOwned, OutputInv, NEW p \in TerminalUsers, WriterGetsLine(p)
  PROVE  OutputInv'
  <1>1. /\ writer.at = "writeLine" /\ terminalUser[p].at = "writing"
        /\ writer'.at = "next" /\ writer'.line = terminalUser[p].line /\ writer'.put = 0
        /\ terminalUser'[p].at = "counting"
        /\ \A q \in TerminalUsers \ {p} : terminalUser'[q] = terminalUser[q]
        /\ UNCHANGED <<device, screen, written>>
    BY DEF WriterGetsLine, Writing, TerminalShape, UsersShape, Uses
  <1>2. ScreenOwned' /\ ScreenInOrder'
    BY <1>1 DEF OutputInv, ScreenOwned, ScreenInOrder
  <1>3. NothingSent' /\ CharacterSent'
    BY <1>1 DEF OutputInv, ScreenOwned, NothingSent, CharacterSent
  <1>4. QED
    BY <1>2, <1>3 DEF OutputInv

LEMMA WriterSendsCountKeepsOutput ==
  ASSUME TerminalShape, OutputInv, NEW p \in TerminalUsers, WriterSendsCount(p)
  PROVE  OutputInv'
  <1>1. /\ writer.at = "next" /\ writer'.at = "writeLine"
        /\ terminalUser'[p].at = "user"
        /\ \A q \in TerminalUsers \ {p} : terminalUser'[q] = terminalUser[q]
        /\ UNCHANGED <<device, screen, written>>
    BY DEF WriterSendsCount, NoLine, Writing, AtHome, Using, TerminalShape, UsersShape
  <1>2. ScreenOwned' /\ ScreenInOrder'
    BY <1>1 DEF OutputInv, ScreenOwned, ScreenInOrder
  <1>3. NothingSent' /\ CharacterSent'
    BY <1>1 DEF OutputInv, NothingSent, CharacterSent
  <1>4. QED
    BY <1>2, <1>3 DEF OutputInv

LEMMA WriterPutsKeepsOutput ==
  ASSUME TerminalShape, OutputInv, WriterPuts
  PROVE  OutputInv'
  <1>1. /\ writer.at = "next" /\ writer'.at = "output" /\ writer'.put = writer.put + 1
        /\ writer'.line = writer.line
        /\ device.sends = <<>> /\ device'.sends = <<writer.line, writer.put + 1>>
        /\ UNCHANGED <<screen, terminalUser, written>>
    BY DeviceEffects, WriterEffects DEF WriterPuts, OutputInv, NothingSent
  <1>2. writer.put \in Nat
    BY DEF TerminalShape, WriterShape, Positions
  <1>3. ScreenOwned' /\ ScreenInOrder'
    BY <1>1 DEF OutputInv, ScreenOwned, ScreenInOrder
  <1>4. NothingSent'
    BY <1>1 DEF NothingSent
  <1>5. Given' = <<writer.line, writer.put + 1>>
    BY <1>1 DEF Given
  <1>6. screen # <<>> => Follows(Last(screen), Given')
    <2>1. CASE writer.put > 0
      <3>1. OnScreen
        BY <1>1, <2>1 DEF OutputInv, NothingSent
      <3>2. Last(screen) = <<writer.line, writer.put>>
        BY <3>1 DEF OnScreen, Given
      <3>3. QED
        BY <1>5, <3>2 DEF Follows
    <2>2. CASE writer.put = 0
      BY <1>1, <1>5, <2>2 DEF OutputInv, NothingSent, Follows
    <2>3. QED
      BY <1>2, <2>1, <2>2
  <1>7. CharacterSent'
    BY <1>1, <1>2, <1>5, <1>6 DEF CharacterSent
  <1>8. QED
    BY <1>3, <1>4, <1>7 DEF OutputInv

LEMMA WriterWaitsKeepsOutput ==
  ASSUME TerminalShape, OutputInv, WriterWaits
  PROVE  OutputInv'
  <1>1. /\ writer.at = "output" /\ writer'.at = "charOut" /\ writer'.put = writer.put
        /\ writer'.line = writer.line
        /\ UNCHANGED <<device, screen, terminalUser, written>>
    BY WriterEffects DEF WriterWaits
  <1>2. Given' = Given /\ (OnScreen' <=> OnScreen)
    BY <1>1 DEF Given, OnScreen
  <1>3. ScreenOwned' /\ ScreenInOrder'
    BY <1>1 DEF OutputInv, ScreenOwned, ScreenInOrder
  <1>4. NothingSent' /\ CharacterSent'
    BY <1>1, <1>2 DEF OutputInv, NothingSent, CharacterSent
  <1>5. QED
    BY <1>3, <1>4 DEF OutputInv

LEMMA NextKeepsOutput ==
  ASSUME TerminalShape, LinesOwned, ~Early => OutputInv, [TerminalNext]_terminalVars
  PROVE  (~Early => OutputInv)'
  <1>1. SUFFICES ASSUME ~Early' PROVE OutputInv'
    OBVIOUS
  <1>2. OutputInv
    BY <1>1, SlipsGrow DEF Early, terminalVars
  <1>3. CASE UNCHANGED terminalVars
    BY <1>2, <1>3, SameOutput DEF terminalVars
  <1>4. CASE Press \/ TermHandler
    BY <1>2, <1>4, SameOutput, DeviceEffects DEF Press, TermHandler
  <1>5. CASE TermReader \/ \E p \in TerminalUsers : TermRead(p)
    BY <1>2, <1>5, SameOutput DEF TermReader, TermRead
  <1>6. CASE TermWriter
    BY <1>2, <1>6, WriterGetsLineKeepsOutput, WriterSendsCountKeepsOutput, WriterPutsKeepsOutput,
       WriterWaitsKeepsOutput DEF TermWriter
  <1>7. QED
    BY <1>1, <1>2, <1>3, <1>4, <1>5, <1>6, SentKeepsOutput, TermDriverKeepsOutput, TermWriteKeepsOutput
    DEF TerminalNext

LEMMA OutputAlways == TerminalSpec => [](~Early => OutputInv)
  BY InitOutput, NextKeepsOutput, ShapeAlways, LinesOwnedAlways, PTL DEF TerminalSpec

(* Lines appear whole and one after the other, whatever the keys, the      *)
(* programs and the interleaving of driver, writer and device, unless the  *)
(* driver, with the status of another interrupt, tells the writer that the *)
(* device is ready before its character is out.                            *)
THEOREM LinesStayWhole == TerminalSpec => []OutputWhole
  <1>1. (~Early => OutputInv) => OutputWhole
    BY DEF Early, OutputInv, ScreenInOrder, Follows, NothingSent, OnScreen, Given, OutputWhole
  <1>2. QED
    BY <1>1, OutputAlways, PTL
-----------------------------------------------------------------------------
(* The writer is told.                                                     *)
Misled == slips \cap {"readyLost", "early"} # {}

WillHear ==
    writer.at \in {"output", "charOut"} =>
        device.sends # <<>> \/ device.interrupt \/ termDriver.xmit = "ready"

LEMMA NextKeepsWillHear ==
  ASSUME TerminalShape, ~Early => OutputInv, ~Misled => WillHear, [TerminalNext]_terminalVars
  PROVE  (~Misled => WillHear)'
  <1>1. SUFFICES ASSUME ~Misled' PROVE WillHear'
    OBVIOUS
  <1>2. WillHear /\ OutputInv
    BY <1>1, SlipsGrow DEF Misled, Early, terminalVars
  <1>3. CASE UNCHANGED <<writer, device, termDriver>>
    BY <1>2, <1>3 DEF WillHear
  <1>4. CASE UNCHANGED terminalVars \/ TermReader \/ \E p \in TerminalUsers : TermRead(p)
    BY <1>3, <1>4 DEF terminalVars, TermReader, TermRead
  <1>5. ASSUME NEW p \in TerminalUsers, NEW n \in Lengths, TermWrite(p, n) PROVE WillHear'
    BY <1>3, <1>5 DEF TermWrite
  <1>6. CASE Press \/ Sent
    BY <1>6, DeviceEffects DEF WillHear
  <1>7. CASE TermHandler
    <2>1. device'.sends = device.sends /\ writer' = writer
      BY <1>7, DeviceEffects DEF TermHandler
    <2>2. CASE device.sends # <<>>
      BY <2>1, <2>2 DEF WillHear
    <2>3. CASE device.sends = <<>>
      <3>1. termDriver = NoStatus
        BY <1>1, <1>7, <2>3 DEF TermHandler, Misled
      <3>2. termDriver'.xmit = "ready"
        BY <1>7, <2>3, <3>1 DEF TermHandler
      <3>3. QED
        BY <3>2 DEF WillHear
    <2>4. QED
      BY <2>2, <2>3
  <1>8. CASE TermDriver
    <2>1. ~(Ready /\ writer.at = "output")
      BY <1>1, <1>8 DEF TermDriver, Misled
    <2>2. /\ writer'.at = IF Ready /\ writer.at = "charOut" THEN "next" ELSE writer.at
          /\ device' = device
      BY <1>8, WriterEffects DEF TermDriver
    <2>3. CASE Ready
      BY <2>1, <2>2, <2>3 DEF WillHear
    <2>4. CASE ~Ready
      BY <1>2, <2>2, <2>4 DEF WillHear, Ready
    <2>5. QED
      BY <2>3, <2>4
  <1>9. CASE WriterPuts
    BY <1>2, <1>9, DeviceEffects DEF WriterPuts, WillHear, OutputInv, NothingSent
  <1>10. CASE WriterWaits
    BY <1>2, <1>10, WriterEffects DEF WriterWaits, WillHear
  <1>11. ASSUME NEW p \in TerminalUsers, WriterGetsLine(p) \/ WriterSendsCount(p) PROVE WillHear'
    BY <1>11 DEF WriterGetsLine, WriterSendsCount, Writing, NoLine, WillHear
  <1>12. QED
    BY <1>1, <1>4, <1>5, <1>6, <1>7, <1>8, <1>9, <1>10, <1>11 DEF TerminalNext, TermWriter

(* A writer that waits for its character to be out is never forgotten: the *)
(* device still has the character, an interrupt is due, or the driver has  *)
(* the status; unless a status found the driver busy or the writer not yet *)
(* waiting, or told it too early.                                          *)
THEOREM WriterHears == TerminalSpec => []WriterWillHear
  <1>1. TerminalInit => (~Misled => WillHear)
    BY DEF TerminalInit, WillHear, NoLine, Writing
  <1>2. /\ TerminalShape /\ (~Early => OutputInv) /\ (~Misled => WillHear)
        /\ [TerminalNext]_terminalVars
        => (~Misled => WillHear)'
    BY NextKeepsWillHear
  <1>3. (~Early => OutputInv) /\ (~Misled => WillHear) => WriterWillHear
    <2>1. SUFFICES ASSUME ~Early => OutputInv, ~Misled => WillHear,
                          writer.at = "charOut", slips \cap {"readyLost", "early"} = {}
                   PROVE  \/ device.sends = <<writer.line, writer.put>>
                          \/ device.interrupt
                          \/ termDriver.xmit = "ready"
      BY DEF WriterWillHear
    <2>2. WillHear /\ OutputInv
      BY <2>1 DEF Early, Misled
    <2>3. QED
      BY <2>1, <2>2 DEF WillHear, OutputInv, CharacterSent, Given
  <1>4. QED
    BY <1>1, <1>2, <1>3, ShapeAlways, OutputAlways, PTL DEF TerminalSpec
-----------------------------------------------------------------------------
(* The input.  What is on its way is told place by place: the characters    *)
(* that follow the lines are in the reader, then before it, then in the     *)
(* driver, and the one the device holds was typed last.                     *)
InputLost == slips \cap {"keyLost", "lineLost"} # {}

Numbered(s, n) == \A i \in 1..Len(s) : s[i] = n + i
One(c) == IF c = 0 THEN 0 ELSE 1
Ended == Before(Len(Lines) + 1)

LinesInOrder == \A k \in 1..Len(Lines) : Numbered(Lines[k], Before(k))

ComingInOrder ==
    /\ Ended \in Nat
    /\ Numbered(reader, Ended)
    /\ Numbered(charIn, Ended + Len(reader))
    /\ termDriver.recv # 0 => termDriver.recv = Ended + Len(reader) + Len(charIn) + 1
    /\ device.recv # 0 => device.recv = typed
    /\ typed = Ended + Len(reader) + Len(charIn) + One(termDriver.recv) + One(device.recv)

InputInv == LinesInOrder /\ ComingInOrder

LEMMA LinesType ==
  ASSUME TerminalShape
  PROVE  /\ Lines \in Seq(Seq(Chars)) /\ Len(Lines) \in Nat
         /\ Len(reader) \in Nat /\ Len(charIn) \in {0, 1} /\ typed \in Nat
         /\ \A c \in 0..Len(Keys) : One(c) \in {0, 1}
  <1>1. Lines \in Seq(Seq(Chars)) /\ Len(Lines) \in Nat
    BY ConcatProperties DEF TerminalShape, LinesShape, Lines
  <1>2. Len(reader) \in Nat /\ Len(charIn) \in {0, 1}
    <2>1. Len(reader) \in Nat /\ Len(charIn) \in Nat /\ Len(charIn) <= 1
      BY LenProperties DEF TerminalShape, ReaderShape, CharInShape
    <2>2. \A n \in Nat : n <= 1 => n \in {0, 1}
      OBVIOUS
    <2>3. QED
      BY <2>1, <2>2
  <1>3. typed \in Nat
    BY KeysAreCounted DEF TerminalShape, CountersShape
  <1>4. QED
    BY <1>1, <1>2, <1>3 DEF One

LEMMA InitInput == TerminalInit => InputInv
  <1>1. SUFFICES ASSUME TerminalInit PROVE InputInv
    OBVIOUS
  <1>2. Lines = <<>>
    BY <1>1 DEF TerminalInit, Lines
  <1>3. Len(Lines) = 0 /\ Ended = 0
    BY <1>2 DEF Ended, Before
  <1>4. QED
    BY <1>1, <1>3
    DEF TerminalInit, InputInv, LinesInOrder, ComingInOrder, Numbered, One, NoStatus

(* A step that leaves the lines alone. *)
LEMMA SameLines ==
  ASSUME Lines' = Lines PROVE Ended' = Ended /\ (LinesInOrder => LinesInOrder')
  BY DEF Ended, Before, LinesInOrder, Numbered

LEMMA SameInput ==
  ASSUME InputInv, Lines' = Lines, UNCHANGED <<typed, reader, charIn>>,
         termDriver'.recv = termDriver.recv, device'.recv = device.recv
  PROVE  InputInv'
  BY SameLines DEF InputInv, ComingInOrder, Numbered, One

LEMMA LinesUnchanged ==
  ASSUME UNCHANGED <<linesRead, readLines>> PROVE Lines' = Lines
  BY DEF Lines

LEMMA PressKeepsInput ==
  ASSUME TerminalShape, InputInv, Press, ~InputLost' PROVE InputInv'
  <1>1. device.recv = 0
    BY DEF Press, InputLost
  <1>2. /\ typed' = typed + 1 /\ device'.recv = typed'
        /\ UNCHANGED <<reader, charIn, termDriver, linesRead, readLines>>
    BY DeviceEffects DEF Press
  <1>3. Ended' = Ended /\ LinesInOrder'
    BY <1>2, LinesUnchanged, SameLines DEF InputInv
  <1>4. typed' # 0 /\ One(device.recv) = 0 /\ One(device.recv)' = 1
    BY <1>1, <1>2, LinesType DEF One
  <1>5. One(termDriver.recv) \in {0, 1}
    BY DEF One
  <1>6. QED
    BY <1>2, <1>3, <1>4, <1>5, LinesType DEF InputInv, ComingInOrder, Numbered

LEMMA TermHandlerKeepsInput ==
  ASSUME TerminalShape, InputInv, TermHandler, ~InputLost' PROVE InputInv'
  <1>1. /\ device'.recv = 0
        /\ UNCHANGED <<typed, reader, charIn, linesRead, readLines>>
    BY DeviceEffects DEF TermHandler
  <1>2. Ended' = Ended /\ LinesInOrder' /\ Lines' = Lines
    BY <1>1, LinesUnchanged, SameLines DEF InputInv
  <1>3. CASE termDriver = NoStatus
    <2>1. termDriver.recv = 0 /\ termDriver'.recv = device.recv
      BY <1>3 DEF NoStatus, TermHandler
    <2>2. One(termDriver.recv) = 0 /\ One(termDriver.recv)' = One(device.recv) /\ One(device.recv)' = 0
          /\ One(device.recv) \in {0, 1} /\ (device.recv # 0 => One(device.recv) = 1)
      BY <1>1, <2>1 DEF One
    <2>3. Ended \in Nat /\ typed = Ended + Len(reader) + Len(charIn) + One(device.recv)
          /\ (device.recv # 0 => device.recv = typed)
      BY <2>2, LinesType DEF InputInv, ComingInOrder
    <2>4. termDriver'.recv # 0 => termDriver'.recv = Ended + Len(reader) + Len(charIn) + 1
      BY <2>1, <2>2, <2>3
    <2>5. typed' = Ended' + Len(reader') + Len(charIn') + One(termDriver.recv)' + One(device.recv)'
      BY <1>1, <1>2, <2>2, <2>3, LinesType
    <2>6. Numbered(reader, Ended)' /\ Numbered(charIn, Ended + Len(reader))'
      BY <1>1, <1>2 DEF InputInv, ComingInOrder, Numbered
    <2>7. QED
      BY <1>1, <1>2, <2>3, <2>4, <2>5, <2>6 DEF InputInv, ComingInOrder
  <1>4. CASE termDriver # NoStatus
    <2>1. device.recv = 0 /\ termDriver' = termDriver
      BY <1>4 DEF TermHandler, InputLost
    <2>2. QED
      BY <1>1, <1>2, <2>1, SameInput
  <1>5. QED
    BY <1>3, <1>4

LEMMA TermDriverKeepsInput ==
  ASSUME TerminalShape, InputInv, TermDriver, ~InputLost' PROVE InputInv'
  <1>1. /\ termDriver'.recv = 0 /\ charIn' = HandsOn(charIn, termDriver.recv)
        /\ UNCHANGED <<typed, reader, device, linesRead, readLines>>
    BY DEF TermDriver, NoStatus
  <1>2. Ended' = Ended /\ LinesInOrder' /\ Lines' = Lines
    BY <1>1, LinesUnchanged, SameLines DEF InputInv
  <1>3. CASE termDriver.recv = 0
    BY <1>1, <1>2, <1>3, SameInput DEF HandsOn
  <1>4. CASE termDriver.recv # 0
    <2>1. charIn = <<>> /\ charIn' = <<termDriver.recv>>
      BY <1>1, <1>4 DEF TermDriver, InputLost, HandsOn
    <2>2. Len(charIn) = 0 /\ Len(charIn') = 1 /\ charIn'[1] = termDriver.recv
      BY <2>1
    <2>3. termDriver.recv = Ended + Len(reader) + 1 /\ One(termDriver.recv) = 1 /\ One(0) = 0
      BY <1>4, <2>2, LinesType DEF InputInv, ComingInOrder, One
    <2>4. Numbered(charIn', Ended + Len(reader))
      BY <2>2, <2>3 DEF Numbered
    <2>5. One(device.recv) \in {0, 1}
      BY DEF One
    <2>6. Numbered(reader, Ended)' /\ Numbered(charIn, Ended + Len(reader))'
      BY <1>1, <1>2, <2>4 DEF InputInv, ComingInOrder, Numbered
    <2>7. QED
      BY <1>1, <1>2, <2>2, <2>3, <2>5, <2>6, LinesType DEF InputInv, ComingInOrder
  <1>5. QED
    BY <1>3, <1>4

LEMMA TermReadKeepsInput ==
  ASSUME TerminalShape, InputInv, NEW p, TermRead(p) PROVE InputInv'
  <1>1. readLines \in Seq(Seq(Chars)) /\ readLines # <<>> /\ linesRead \in Seq(Seq(Chars))
    BY DEF TermRead, TerminalShape, LinesShape
  <1>2. Append(linesRead, Head(readLines)) \o Tail(readLines) = linesRead \o readLines
    BY <1>1
  <1>3. Lines' = Lines
    BY <1>2 DEF TermRead, Lines
  <1>4. QED
    BY <1>3, SameInput DEF TermRead

LEMMA TermReaderKeepsInput ==
  ASSUME TerminalShape, InputInv, TermReader, ~InputLost' PROVE InputInv'
  <1> DEFINE l == Append(reader, Head(charIn))
  <1>1. /\ UNCHANGED <<typed, device, termDriver, linesRead>>
        /\ charIn # <<>> /\ charIn' = Tail(charIn)
        /\ reader' = IF Complete(l) THEN <<>> ELSE l
        /\ readLines' = IF Complete(l) THEN Append(readLines, l) ELSE readLines
    BY DEF TermReader, InputLost
  <1>2. Len(charIn) = 1 /\ Len(charIn') = 0 /\ Head(charIn) = charIn[1] /\ Head(charIn) \in Chars
    <2>1. charIn \in Seq(Chars) /\ Len(charIn) = 1
      BY <1>1, LinesType, EmptySeq DEF TerminalShape, CharInShape
    <2>2. QED
      BY <1>1, <2>1, HeadTailProperties
  <1>3. /\ l \in Seq(Chars) /\ Len(l) = Len(reader) + 1 /\ l[Len(l)] = Head(charIn)
        /\ \A i \in 1..Len(reader) : l[i] = reader[i]
    BY <1>2, AppendProperties DEF TerminalShape, ReaderShape
  <1>4. Numbered(l, Ended) /\ l[Len(l)] = Ended + Len(l)
    <2>1. charIn[1] = Ended + Len(reader) + 1
      BY <1>2, LinesType DEF InputInv, ComingInOrder, Numbered
    <2>2. \A i \in 1..Len(reader) : l[i] = Ended + i
      BY <1>3 DEF InputInv, ComingInOrder, Numbered
    <2>3. \A i \in 1..Len(l) : i \in 1..Len(reader) \/ i = Len(l)
      BY <1>3, LinesType
    <2>4. l[Len(l)] = Ended + Len(l)
      BY <1>2, <1>3, <2>1, LinesType DEF InputInv, ComingInOrder
    <2>5. QED
      BY <2>2, <2>3, <2>4 DEF Numbered
  <1>5. /\ One(device.recv) \in {0, 1} /\ One(termDriver.recv) \in {0, 1}
        /\ One(device.recv)' = One(device.recv) /\ One(termDriver.recv)' = One(termDriver.recv)
        /\ Len(l) \in Nat /\ Ended \in Nat
    BY <1>1, <1>3, LinesType DEF One, InputInv, ComingInOrder
  <1>9. typed' = Ended + Len(l) + One(termDriver.recv)' + One(device.recv)'
    BY <1>1, <1>2, <1>3, <1>5, LinesType DEF InputInv, ComingInOrder
  <1>10. /\ termDriver'.recv # 0 => termDriver'.recv = Ended + Len(l) + 1
         /\ device'.recv # 0 => device'.recv = typed'
    BY <1>1, <1>2, <1>3, <1>5, LinesType DEF InputInv, ComingInOrder
  <1>6. CASE ~Complete(l)
    <2>1. Lines' = Lines /\ reader' = l
      BY <1>1, <1>6, LinesUnchanged
    <2>2. Ended' = Ended /\ LinesInOrder'
      BY <2>1, SameLines DEF InputInv
    <2>3. Numbered(reader, Ended)' /\ Numbered(charIn, Ended + Len(reader))'
      BY <1>2, <1>4, <2>1, <2>2 DEF Numbered
    <2>4. QED
      BY <1>2, <1>5, <1>9, <1>10, <2>1, <2>2, <2>3 DEF InputInv, ComingInOrder
  <1>7. CASE Complete(l)
    <2>1. Lines' = Append(Lines, l)
      <3>1. readLines' = Append(readLines, l) /\ linesRead' = linesRead
        BY <1>1, <1>7
      <3>2. linesRead \o Append(readLines, l) = Append(linesRead \o readLines, l)
        BY <1>3 DEF TerminalShape, LinesShape
      <3>3. QED
        BY <3>1, <3>2 DEF Lines
    <2>2. /\ Len(Lines') = Len(Lines) + 1 /\ Lines'[Len(Lines) + 1] = l
          /\ \A k \in 1..Len(Lines) : Lines'[k] = Lines[k]
      BY <1>3, <2>1, LinesType, AppendProperties
    <2>3. \A k \in 1..Len(Lines) + 1 : Before(k)' = Before(k)
      <3>1. ASSUME NEW k \in 1..Len(Lines) + 1, k # 1 PROVE Lines'[k - 1] = Lines[k - 1]
        <4>1. Len(Lines) \in Nat
          BY LinesType
        <4>2. k - 1 \in 1..Len(Lines)
          BY <3>1, <4>1
        <4>3. QED
          BY <2>2, <4>2
      <3>2. QED
        BY <3>1 DEF Before
    <2>4. LinesInOrder'
      <3>1. SUFFICES ASSUME NEW k \in 1..Len(Lines) + 1 PROVE Numbered(Lines[k], Before(k))'
        BY <2>2 DEF LinesInOrder
      <3>2. CASE k = Len(Lines) + 1
        BY <1>4, <2>2, <2>3, <3>2 DEF Ended, Numbered
      <3>3. CASE k \in 1..Len(Lines)
        BY <2>2, <2>3, <3>3 DEF InputInv, LinesInOrder, Numbered
      <3>4. QED
        BY <3>2, <3>3, LinesType
    <2>5. Ended' = Ended + Len(l)
      BY <1>4, <2>2, LinesType DEF Ended, Before, Last
    <2>6. reader' = <<>> /\ Len(reader') = 0
      BY <1>1, <1>7
    <2>7. Numbered(reader, Ended)' /\ Numbered(charIn, Ended + Len(reader))'
      BY <1>2, <2>6 DEF Numbered
    <2>8. QED
      BY <1>2, <1>5, <1>9, <1>10, <2>4, <2>5, <2>6, <2>7 DEF InputInv, ComingInOrder
  <1>8. QED
    BY <1>6, <1>7

LEMMA NextKeepsInput ==
  ASSUME TerminalShape, ~InputLost => InputInv, [TerminalNext]_terminalVars
  PROVE  (~InputLost => InputInv)'
  <1>1. SUFFICES ASSUME ~InputLost' PROVE InputInv'
    OBVIOUS
  <1>2. InputInv
    BY <1>1, SlipsGrow DEF InputLost, terminalVars
  <1>3. CASE UNCHANGED terminalVars
    BY <1>2, <1>3, LinesUnchanged, SameInput DEF terminalVars
  <1>4. CASE Sent
    BY <1>2, <1>4, LinesUnchanged, SameInput, DeviceEffects DEF Sent
  <1>5. CASE WriterPuts \/ WriterWaits
    BY <1>2, <1>5, LinesUnchanged, SameInput, DeviceEffects DEF WriterPuts, WriterWaits
  <1>6. ASSUME NEW p \in TerminalUsers, WriterGetsLine(p) \/ WriterSendsCount(p) PROVE InputInv'
    BY <1>2, <1>6, LinesUnchanged, SameInput DEF WriterGetsLine, WriterSendsCount
  <1>7. ASSUME NEW p \in TerminalUsers, NEW n \in Lengths, TermWrite(p, n) PROVE InputInv'
    BY <1>2, <1>7, LinesUnchanged, SameInput DEF TermWrite
  <1>8. QED
    BY <1>1, <1>2, <1>3, <1>4, <1>5, <1>6, <1>7, PressKeepsInput, TermHandlerKeepsInput,
       TermDriverKeepsInput, TermReaderKeepsInput, TermReadKeepsInput DEF TerminalNext, TermWriter

LEMMA NumberedConcat ==
  ASSUME NEW n \in Nat, NEW u \in Seq(Nat), NEW v \in Seq(Nat), Numbered(u, n), Numbered(v, n + Len(u))
  PROVE  u \o v \in Seq(Nat) /\ Len(u \o v) = Len(u) + Len(v) /\ Numbered(u \o v, n)
  <1>1. /\ u \o v \in Seq(Nat) /\ Len(u \o v) = Len(u) + Len(v)
        /\ \A i \in 1..Len(u) + Len(v) : (u \o v)[i] = IF i <= Len(u) THEN u[i] ELSE v[i - Len(u)]
        /\ Len(u) \in Nat /\ Len(v) \in Nat
    BY ConcatProperties, LenProperties
  <1>2. PICK w : w = u \o v
    OBVIOUS
  <1>3. ASSUME NEW i \in 1..Len(w) PROVE w[i] = n + i
    <2>1. CASE i <= Len(u)
      BY <1>1, <1>2, <2>1 DEF Numbered
    <2>2. CASE i > Len(u)
      <3>1. i - Len(u) \in 1..Len(v) /\ w[i] = v[i - Len(u)]
        BY <1>1, <1>2, <2>2
      <3>2. v[i - Len(u)] = n + Len(u) + (i - Len(u))
        BY <3>1 DEF Numbered
      <3>3. QED
        BY <1>1, <3>1, <3>2
    <2>3. QED
      BY <1>1, <1>2, <2>1, <2>2
  <1>4. QED
    BY <1>1, <1>2, <1>3 DEF Numbered

LEMMA ComingIsNumbered ==
  ASSUME TerminalShape, InputInv
  PROVE  Coming = [i \in 1..typed - Ended |-> Ended + i]
  <1> DEFINE t == Held(termDriver.recv)
             d == Held(device.recv)
             a == reader \o charIn
             b == a \o t
  <1>1. /\ reader \in Seq(Nat) /\ charIn \in Seq(Nat)
        /\ termDriver.recv \in Nat /\ device.recv \in Nat /\ Ended \in Nat
    BY KeysAreCounted
    DEF TerminalShape, ReaderShape, CharInShape, DriverShape, DeviceShape, Chars, InputInv, ComingInOrder
  <1>2. /\ t \in Seq(Nat) /\ Len(t) = One(termDriver.recv)
        /\ Len(t) = 1 => t[1] = termDriver.recv
    BY <1>1 DEF Held, One
  <1>3. /\ d \in Seq(Nat) /\ Len(d) = One(device.recv)
        /\ Len(d) = 1 => d[1] = device.recv
    BY <1>1 DEF Held, One
  <1>4. Numbered(t, Ended + Len(reader) + Len(charIn))
    <2>1. Len(t) \in {0, 1} /\ (Len(t) = 1 => termDriver.recv # 0)
      BY <1>2 DEF One
    <2>2. termDriver.recv # 0 => termDriver.recv = Ended + Len(reader) + Len(charIn) + 1
      BY DEF InputInv, ComingInOrder
    <2>3. QED
      BY <1>2, <2>1, <2>2 DEF Numbered
  <1>5. Numbered(d, Ended + Len(reader) + Len(charIn) + Len(t))
    <2>1. Len(d) = 1 => d[1] = Ended + Len(reader) + Len(charIn) + Len(t) + 1
      <3>1. SUFFICES ASSUME Len(d) = 1 PROVE d[1] = Ended + Len(reader) + Len(charIn) + Len(t) + 1
        OBVIOUS
      <3>2. device.recv # 0 /\ One(device.recv) = 1
        BY <1>3, <3>1 DEF One
      <3>3. d[1] = typed /\ typed = Ended + Len(reader) + Len(charIn) + Len(t) + 1
        BY <1>1, <1>2, <1>3, <3>1, <3>2 DEF InputInv, ComingInOrder
      <3>4. QED
        BY <3>3
    <2>2. Len(d) \in {0, 1}
      BY <1>3 DEF One
    <2>3. QED
      BY <2>1, <2>2 DEF Numbered
  <1>6. a \in Seq(Nat) /\ Len(a) = Len(reader) + Len(charIn) /\ Numbered(a, Ended)
    BY <1>1, NumberedConcat DEF InputInv, ComingInOrder
  <1>7. b \in Seq(Nat) /\ Len(b) = Len(a) + Len(t) /\ Numbered(b, Ended)
    <2>1. Numbered(t, Ended + Len(a))
      BY <1>1, <1>4, <1>6, LenProperties DEF Numbered
    <2>2. QED
      BY <1>1, <1>2, <1>6, <2>1, NumberedConcat
  <1>8. b \o d \in Seq(Nat) /\ Len(b \o d) = Len(b) + Len(d) /\ Numbered(b \o d, Ended)
    <2>1. Numbered(d, Ended + Len(b))
      BY <1>1, <1>2, <1>5, <1>6, <1>7, LenProperties DEF Numbered
    <2>2. QED
      BY <1>1, <1>3, <1>7, <2>1, NumberedConcat
  <1>9. Coming = b \o d
    BY DEF Coming
  <1>10. Len(b \o d) = typed - Ended
    <2>1. typed = Ended + Len(reader) + Len(charIn) + One(termDriver.recv) + One(device.recv)
      BY DEF InputInv, ComingInOrder
    <2>2. Len(b \o d) = Len(reader) + Len(charIn) + One(termDriver.recv) + One(device.recv)
      BY <1>2, <1>3, <1>6, <1>7, <1>8
    <2>3. /\ Len(reader) \in Nat /\ Len(charIn) \in Nat
          /\ One(termDriver.recv) \in Nat /\ One(device.recv) \in Nat
      BY <1>1, LenProperties DEF One
    <2>4. QED
      BY <1>1, <2>1, <2>2, <2>3
  <1>11. QED
    BY <1>8, <1>9, <1>10 DEF Numbered

(* What is typed reaches the programs in order and in whole lines, for any *)
(* keys, any number of programs that read and any lengths, as long as the   *)
(* device, the driver, the reader and the mailboxes had room for it.        *)
THEOREM InputIsKept == TerminalSpec => []InputKept
  <1>1. TerminalInit => (~InputLost => InputInv)
    BY InitInput
  <1>2. TerminalShape /\ (~InputLost => InputInv) /\ [TerminalNext]_terminalVars
        => (~InputLost => InputInv)'
    BY NextKeepsInput
  <1>3. TerminalShape /\ (~InputLost => InputInv) => InputKept
    BY ComingIsNumbered DEF InputLost, InputKept, Ended, InputInv, LinesInOrder, Numbered
  <1>4. QED
    BY <1>1, <1>2, <1>3, ShapeAlways, PTL DEF TerminalSpec
=============================================================================
