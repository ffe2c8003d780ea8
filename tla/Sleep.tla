------------------------------- MODULE Sleep --------------------------------
(* Sleeping and the clock driver of phase 4 (src/phase4/phase4.c).  A      *)
(* process links itself into the list of sleepers, by the time at which it *)
(* is due, and waits in its private mailbox; the driver looks at the list  *)
(* whenever the clock device sends.                                        *)
EXTENDS Programs

CONSTANTS
    Seconds,            \* what programs pass to Sleep, in units of the clock
    Horizon,            \* bound: nobody sleeps past this time
    IntMax              \* largest value of an int (2^31 - 1 in the code)

ASSUME SleepAssumption ==
    /\ Seconds \subseteq Int /\ Horizon \in Nat /\ IntMax \in Nat

VARIABLES
    clock,          \* USLOSS_Clock
    headSleepList,
    procTable4,     \* the entries of phase 4
    sleeper,        \* process -> where it stands in Sleep
    clockDriver,    \* where the driver stands
    due,            \* process -> when it is to wake (not in the code)
    torn            \* somebody linked itself into a list that had changed
                    \* since it looked (not in the code)

sleepVars == <<clock, headSleepList, procTable4, sleeper, clockDriver, due, torn>>

SleepEntry == [status : {"EMPTY", "ACTIVE"}, awakeTime : Int, sleepPtr : Procs \cup {NULL}]
ZeroEntry == [status |-> "EMPTY", awakeTime |-> 0, sleepPtr |-> NULL]

Driving(loc, p) == [at |-> loc, wakes |-> p]

SleepInit ==
    /\ clock = 0
    /\ headSleepList = NULL
    /\ procTable4 = [p \in Procs |-> ZeroEntry]
    /\ sleeper = [p \in Procs |-> Standing("user")]
    /\ clockDriver = Driving("waitDevice", NULL)
    /\ due = [p \in Procs |-> 0]
    /\ torn = FALSE

(* The outcome of an int addition that overflows.                          *)
Wrapped(n) == IF n > IntMax THEN n - 2 * (IntMax + 1) ELSE n

AwakeTime(p) == procTable4[p].awakeTime
NextSleeper(p) == procTable4[p].sleepPtr

Sleeping(p) == sleeper[p].at \in {"queued", "receiving"}
Listed(p) == p \in Procs /\ Sleeping(p) /\ clockDriver # Driving("waking", p)

(* Programs, of a lower priority than the driver, run when it cannot.      *)
ClockDriverBlocked ==
    \/ clockDriver.at = "waitDevice"
    \/ clockDriver.at = "waking" /\ sleeper[clockDriver.wakes].at # "receiving"
-----------------------------------------------------------------------------
(* The place for a process that is due at time t: in front of the head, or *)
(* behind the first sleeper whose successor is not due earlier.            *)
SleepPlace(t) ==
    LET nth[k \in 0..Cardinality(Procs)] ==
            IF k = 0 THEN headSleepList
            ELSE IF nth[k - 1] = NULL THEN NULL ELSE NextSleeper(nth[k - 1])
        Fits(p) == p # NULL /\ (NextSleeper(p) # NULL => t <= AwakeTime(NextSleeper(p)))
        first == CHOOSE k \in DOMAIN nth : Fits(nth[k]) /\ \A j \in DOMAIN nth : j < k => ~Fits(nth[j])
    IN IF headSleepList = NULL \/ t < AwakeTime(headSleepList) THEN Linking(NULL, headSleepList)
       ELSE Linking(nth[first], NextSleeper(nth[first]))

(* sleepReal enters the process in the table, which makes its mailbox and  *)
(* with that enables interrupts, and finds its place ...                   *)
SleepReal(p, s) ==
    LET t == Wrapped(clock + s)
    IN /\ sleeper[p].at = "user" /\ ClockDriverBlocked
       /\ s >= 0 /\ clock + s <= Horizon
       /\ procTable4' = [procTable4 EXCEPT
             ![p] = [status |-> "ACTIVE", awakeTime |-> t, sleepPtr |-> NULL]]
       /\ sleeper' = [sleeper EXCEPT ![p] = SleepPlace(t)]
       /\ due' = [due EXCEPT ![p] = clock + s]
       /\ UNCHANGED <<clock, headSleepList, clockDriver, torn>>

(* Mutant: the new sleeper cuts off the rest of the list. *)
MutantLinked(p, b, a) ==
    IF b = NULL THEN [procTable4 EXCEPT ![p].sleepPtr = a]
    ELSE [procTable4 EXCEPT ![b].sleepPtr = p]

Linked(p, b, a) ==
    IF b = NULL THEN [procTable4 EXCEPT ![p].sleepPtr = a]
    ELSE [procTable4 EXCEPT ![b].sleepPtr = p, ![p].sleepPtr = a]

(* The place p found is no longer one: its neighbours have parted, or they *)
(* are due at another time than when p looked.                             *)
SleepStale(p, b, a) ==
    \/ IF b = NULL THEN headSleepList # a
       ELSE ~(Listed(b) /\ NextSleeper(b) = a /\ AwakeTime(b) <= AwakeTime(p))
    \/ a # NULL /\ AwakeTime(a) < AwakeTime(p)

(* ... and links itself in, after whatever has happened since.             *)
SleepLinkIn(p) ==
    LET b == sleeper[p].before
        a == sleeper[p].after
    IN /\ sleeper[p].at = "linking" /\ ClockDriverBlocked
       /\ procTable4' = Linked(p, b, a)
       /\ headSleepList' = IF b = NULL THEN p ELSE headSleepList
       /\ sleeper' = [sleeper EXCEPT ![p] = Standing("queued")]
       /\ torn' = (torn \/ SleepStale(p, b, a))
       /\ UNCHANGED <<clock, clockDriver, due>>

SleepReceives(p) ==
    /\ sleeper[p].at = "queued" /\ ClockDriverBlocked
    /\ sleeper' = [sleeper EXCEPT ![p] = Standing("receiving")]
    /\ UNCHANGED <<clock, headSleepList, procTable4, clockDriver, due, torn>>

(* Mutant: the entry of a process that has slept stays in use. *)
MutantRemoveFromProcessTable(p) == [procTable4 EXCEPT ![p].sleepPtr = NULL]

RemoveFromProcessTable(p) == [procTable4 EXCEPT ![p] = ZeroEntry]

SleepReturns(p) ==
    /\ sleeper[p].at = "returning" /\ ClockDriverBlocked
    /\ procTable4' = RemoveFromProcessTable(p)
    /\ sleeper' = [sleeper EXCEPT ![p] = Standing("user")]
    /\ UNCHANGED <<clock, headSleepList, clockDriver, due, torn>>
-----------------------------------------------------------------------------
(* The clock device sends; what the driver does not wait for is lost.      *)
Tick ==
    /\ clock' = IF clock < Horizon THEN clock + 1 ELSE clock
    /\ clockDriver' = IF clockDriver.at = "waitDevice" THEN Driving("checking", NULL) ELSE clockDriver
    /\ UNCHANGED <<headSleepList, procTable4, sleeper, due, torn>>

(* Mutant: a process is woken only after the time at which it is due. *)
MutantHeadIsLate == headSleepList # NULL /\ AwakeTime(headSleepList) < clock

(* Mutant: whoever is due at the next tick is woken now. *)
MutantHeadIsEarly == headSleepList # NULL /\ AwakeTime(headSleepList) <= clock + 1

HeadIsDue == headSleepList # NULL /\ AwakeTime(headSleepList) <= clock

TakesHead ==
    /\ clockDriver.at = "checking" /\ HeadIsDue
    /\ clockDriver' = Driving("waking", headSleepList)
    /\ headSleepList' = NextSleeper(headSleepList)
    /\ UNCHANGED <<clock, procTable4, sleeper, due, torn>>

(* The driver waits until the process is in its mailbox.                   *)
Wakes(p) ==
    /\ clockDriver = Driving("waking", p) /\ sleeper[p].at = "receiving"
    /\ clockDriver' = Driving("checking", NULL)
    /\ sleeper' = [sleeper EXCEPT ![p] = Standing("returning")]
    /\ UNCHANGED <<clock, headSleepList, procTable4, due, torn>>

NobodyDue ==
    /\ clockDriver.at = "checking" /\ ~HeadIsDue
    /\ clockDriver' = Driving("waitDevice", NULL)
    /\ UNCHANGED <<clock, headSleepList, procTable4, sleeper, due, torn>>
-----------------------------------------------------------------------------
ClockDriver == TakesHead \/ NobodyDue \/ \E p \in Procs : Wakes(p)

SleepContinue(p) == SleepLinkIn(p) \/ SleepReceives(p) \/ SleepReturns(p)

(* What follows a torn list is left out.                                   *)
SleepNext ==
    /\ ~torn
    /\ \/ Tick \/ ClockDriver
       \/ \E p \in Procs : SleepContinue(p) \/ \E s \in Seconds : SleepReal(p, s)

SleepSpec == SleepInit /\ [][SleepNext]_sleepVars

(* The clock device does not stop, and whoever can run does in the end.    *)
Ticks == ~torn /\ Tick
ClockDriverRuns == ~torn /\ ClockDriver
SleeperRuns(p) == ~torn /\ SleepContinue(p)
SleepFairness ==
    /\ WF_sleepVars(Ticks) /\ WF_sleepVars(ClockDriverRuns)
    /\ \A p \in Procs : SF_sleepVars(SleeperRuns(p))
-----------------------------------------------------------------------------
(* Types; and the entry of a process is in use exactly while it sleeps.    *)
SleepTypeOK ==
    /\ clock \in 0..Horizon
    /\ headSleepList \in Procs \cup {NULL}
    /\ procTable4 \in [Procs -> SleepEntry]
    /\ sleeper \in [Procs -> [at : {"user", "linking", "queued", "receiving", "returning"},
                              before : Procs \cup {NULL}, after : Procs \cup {NULL}]]
    /\ clockDriver \in [at : {"waitDevice", "checking", "waking"}, wakes : Procs \cup {NULL}]
    /\ due \in [Procs -> Int]
    /\ torn \in BOOLEAN
    /\ \A p \in Procs : procTable4[p].status = "ACTIVE" <=> sleeper[p].at # "user"

(* While the list is whole, the driver wakes only who is due, whichever    *)
(* entries others link in around the one it takes.                         *)
NeverEarly ==
    ~torn => \A p \in Procs : clockDriver = Driving("waking", p) => due[p] <= clock

(* While the list is whole, nobody sleeps who is due when the driver goes  *)
(* back to the device, though it looks no further than the first sleeper   *)
(* that is not.                                                            *)
NobodyOversleeps ==
    [][clockDriver.at = "checking" /\ clockDriver'.at = "waitDevice" /\ ~torn
       => \A p \in Procs : Sleeping(p) => due[p] > clock]_sleepVars

(* Every sleeper wakes, whatever sleepers come and go around it, unless    *)
(* the list was torn: the only way to be lost is a link to an entry that   *)
(* has changed between the look and the link.                              *)
SleepersWake == \A p \in Procs : sleeper[p].at = "queued" ~> (sleeper[p].at = "user" \/ torn)
=============================================================================
