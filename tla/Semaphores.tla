----------------------------- MODULE Semaphores -----------------------------
(* The semaphores of phase 3 (src/phase3/phase3.c) over the mailboxes of   *)
(* phase 2.  Every semaphore has a mailbox with one slot as its mutex, and *)
(* every process a private mailbox without slots on which it sleeps.       *)
(*                                                                         *)
(* Interrupts are off from the trap to the first mailbox call and on after *)
(* it: what happens between two mailbox calls is one step, and frame[p] is *)
(* where process p stands in between.  Nobody is zapped.                   *)
EXTENDS Programs, Mail

CONSTANTS
    MAXSEMS,            \* size of the semaphore table (200 in the code)
    MaxMutexes,         \* mailboxes that semCreate can still get
    Values,             \* initial values that programs pass to semCreate
    MaxCount,           \* bound: programs do not raise a count further
    Takers              \* semaphore -> the processes that do P on it

Sems == 0..(MAXSEMS - 1)

ASSUME SemAssumption ==
    /\ Procs \cap (1..MaxMutexes) = {} /\ NULL \notin 1..MaxMutexes
    /\ MAXSEMS \in Nat /\ MaxMutexes \in Nat /\ MaxCount \in Int
    /\ Values \subseteq Int
    /\ Takers \in [Sems -> SUBSET Procs]

VARIABLES
    semTable,
    nextSemBlock,   \* the link of a process in a block list
    mail,           \* the mailboxes: the private ones and the mutexes
    frame           \* process -> where it stands in a call

semVars == <<semTable, nextSemBlock, mail, frame>>

Mutexes == 1..MaxMutexes
SemBoxes == Procs \cup Mutexes

Semaphore == [status : {"EMPTY", "ACTIVE"}, count : Int,
              blockedList : Procs \cup {NULL}, mboxID : Mutexes \cup {NULL}]

CallFrames == [at : {"user", "P", "asleep", "woken", "passed", "V", "waking", "freeing", "gone"},
           sem : Sems \cup {NULL}, wakes : Procs \cup {NULL}]

Calling(loc, s, q) == [at |-> loc, sem |-> s, wakes |-> q]
NoCall == Calling("user", NULL, NULL)
Gone == Calling("gone", NULL, NULL)

EmptySem == [status |-> "EMPTY", count |-> 0, blockedList |-> NULL, mboxID |-> NULL]

SemInit ==
    /\ semTable = [s \in Sems |-> EmptySem]
    /\ nextSemBlock = [p \in Procs |-> NULL]
    /\ mail = [b \in SemBoxes |-> NewBox(0)]
    /\ frame = [p \in Procs |-> NoCall]

Blocked(p) == \E b \in SemBoxes : WaitsOn(mail[b], p)
CanRun(p) == ~Blocked(p)
CallStands(p, loc, s) == frame[p].at = loc /\ frame[p].sem = s /\ CanRun(p)
MayCall(p) == CallStands(p, "user", NULL)
Inside(s) == {p \in Procs : frame[p].sem = s}

CallGoes(p, f) == frame' = [frame EXCEPT ![p] = f]

Send(p, b) == mail' = [mail EXCEPT ![b] = Sent(@, p)]
Receive(p, b) == mail' = [mail EXCEPT ![b] = Received(@, p)]

Enter(p, s) == Send(p, semTable[s].mboxID)
Leave(p, s) == Receive(p, semTable[s].mboxID)
-----------------------------------------------------------------------------
(* The block list of a semaphore, cut off if it is circular.               *)
OnList(s) ==
    LET nth[k \in 0..Cardinality(Procs)] ==
            IF k = 0 THEN semTable[s].blockedList
            ELSE IF nth[k - 1] = NULL THEN NULL ELSE nextSemBlock[nth[k - 1]]
    IN {nth[k] : k \in DOMAIN nth} \ {NULL}

AddToSemBlockList(p, s) ==
    \/ /\ semTable[s].blockedList = NULL
       /\ semTable' = [semTable EXCEPT ![s].blockedList = p]
       /\ UNCHANGED nextSemBlock
    \/ \E last \in OnList(s) :
       /\ nextSemBlock[last] = NULL
       /\ nextSemBlock' = [nextSemBlock EXCEPT ![last] = p]
       /\ UNCHANGED semTable

(* Creation takes the first empty entry and a new mailbox, which semFree    *)
(* does not release.  MboxCreate(1, 0) fails when there is none left.      *)
Unused == {m \in Mutexes : mail[m].slots = 0}

MboxCreate(m) ==
    /\ m \in Unused /\ \A k \in Unused : m <= k
    /\ mail' = [mail EXCEPT ![m] = NewBox(1)]

(* Mutant: the identifier of the mutex is not stored. *)
MutantCreated(s, value, m) ==
    [status |-> "ACTIVE", count |-> value, blockedList |-> NULL, mboxID |-> 0]

Created(s, value, m) ==
    [status |-> "ACTIVE", count |-> value, blockedList |-> NULL, mboxID |-> m]

(* Programs do not create a semaphore while processes are still in a call  *)
(* on one that has been freed, nor more than there are mailboxes for.      *)
SemCreate(p, s, value, m) ==
    /\ MayCall(p) /\ value >= 0
    /\ semTable[s].status = "EMPTY"
    /\ \A r \in Sems : r < s => semTable[r].status # "EMPTY"
    /\ Inside(s) = {} /\ MboxCreate(m)
    /\ semTable' = [semTable EXCEPT ![s] = Created(s, value, m)]
    /\ UNCHANGED <<nextSemBlock, frame>>
-----------------------------------------------------------------------------
(* P.                                                                      *)

(* A link outlives its list.  Programs do not let a process wait again     *)
(* once another has queued behind it.                                      *)
SemP(p, s) ==
    /\ MayCall(p) /\ p \in Takers[s] /\ nextSemBlock[p] = NULL
    /\ semTable[s].status # "EMPTY"
    /\ Enter(p, s)
    /\ CallGoes(p, Calling("P", s, NULL))
    /\ UNCHANGED <<semTable, nextSemBlock>>

(* Mutant: a process waits only when the count is negative. *)
MutantMustWait(s) == semTable[s].count < 0

(* Mutant: a process waits also when there is one unit. *)
MutantMustWaitLonger(s) == semTable[s].count <= 1

MustWait(s) == semTable[s].count < 1

(* In the mutex: without a unit the process goes onto the block list.      *)
SemPWaits(p, s) ==
    /\ CallStands(p, "P", s) /\ MustWait(s)
    /\ AddToSemBlockList(p, s)
    /\ Leave(p, s)
    /\ CallGoes(p, Calling("asleep", s, NULL))

SemPPasses(p, s) ==
    /\ CallStands(p, "P", s) /\ ~MustWait(s)
    /\ Leave(p, s)
    /\ CallGoes(p, Calling("passed", s, NULL))
    /\ UNCHANGED <<semTable, nextSemBlock>>

SemPSleeps(p, s) ==
    /\ CallStands(p, "asleep", s)
    /\ Receive(p, p)
    /\ CallGoes(p, Calling("woken", s, NULL))
    /\ UNCHANGED <<semTable, nextSemBlock>>

(* A process that slept ends if its semaphore has been freed.              *)
SemPFreed(p, s) ==
    /\ CallStands(p, "woken", s) /\ semTable[s].status = "EMPTY"
    /\ CallGoes(p, Gone)
    /\ UNCHANGED <<semTable, nextSemBlock, mail>>

(* The unit is taken after the mutex was left.                             *)
SemPTakes(p, s) ==
    /\ \/ CallStands(p, "passed", s)
       \/ CallStands(p, "woken", s) /\ semTable[s].status # "EMPTY"
    /\ semTable' = [semTable EXCEPT ![s].count = @ - 1]
    /\ CallGoes(p, NoCall)
    /\ UNCHANGED <<nextSemBlock, mail>>
-----------------------------------------------------------------------------
(* V.                                                                      *)
SemV(p, s) ==
    /\ MayCall(p)
    /\ semTable[s].status # "EMPTY"
    /\ semTable[s].count + Cardinality({q \in Procs : frame[q].at = "V"}) < MaxCount
    /\ Enter(p, s)
    /\ CallGoes(p, Calling("V", s, NULL))
    /\ UNCHANGED <<semTable, nextSemBlock>>

(* Mutant: the first of the block list is woken but stays on it. *)
MutantPosted(s) == [semTable[s] EXCEPT !.count = @ + 1]

(* The unit is added, and the first of the block list is taken off it.     *)
Posted(s) ==
    [semTable[s] EXCEPT !.count = @ + 1,
                        !.blockedList = IF @ = NULL THEN NULL ELSE nextSemBlock[@]]

SemVPosts(p, s) ==
    /\ CallStands(p, "V", s)
    /\ semTable' = [semTable EXCEPT ![s] = Posted(s)]
    /\ Leave(p, s)
    /\ CallGoes(p, IF semTable[s].blockedList = NULL THEN NoCall
               ELSE Calling("waking", s, semTable[s].blockedList))
    /\ UNCHANGED nextSemBlock

(* If the process is not asleep yet, the message waits for it.             *)
SemVWakes(p, s) ==
    /\ CallStands(p, "waking", s)
    /\ Send(p, frame[p].wakes)
    /\ CallGoes(p, NoCall)
    /\ UNCHANGED <<semTable, nextSemBlock>>
-----------------------------------------------------------------------------
(* Freeing: all that sleep are woken, without the mutex.                   *)

(* Programs do not free a semaphore in the middle of other calls on it;    *)
(* processes may sleep on it.                                              *)
MayFree(s) == \A q \in Inside(s) : frame[q].at \in {"asleep", "woken"} /\ q \in OnList(s)

(* Mutant: processes are not woken. *)
MutantFreeFrame(s, next) == NoCall

FreeFrame(s, next) == IF next = NULL THEN NoCall ELSE Calling("freeing", s, NULL)

SemFree(p, s) ==
    LET first == semTable[s].blockedList
    IN /\ MayCall(p)
       /\ semTable[s].status # "EMPTY" /\ MayFree(s)
       /\ semTable' = [semTable EXCEPT ![s].status = "EMPTY"]
       /\ IF first = NULL THEN UNCHANGED mail ELSE Send(p, first)
       /\ CallGoes(p, FreeFrame(s, first))
       /\ UNCHANGED nextSemBlock

SemFreeNext(p, s) ==
    LET first == semTable[s].blockedList
        next == nextSemBlock[first]
    IN /\ CallStands(p, "freeing", s)
       /\ semTable' = [semTable EXCEPT ![s].blockedList = next]
       /\ IF next = NULL THEN UNCHANGED mail ELSE Send(p, next)
       /\ CallGoes(p, FreeFrame(s, next))
       /\ UNCHANGED nextSemBlock

-----------------------------------------------------------------------------
SemCall(p, s) ==
    \/ \E value \in Values, m \in Mutexes : SemCreate(p, s, value, m)
    \/ SemP(p, s) \/ SemV(p, s) \/ SemFree(p, s)

SemContinue(p, s) ==
    \/ SemPWaits(p, s) \/ SemPPasses(p, s)
    \/ SemPSleeps(p, s) \/ SemPFreed(p, s) \/ SemPTakes(p, s)
    \/ SemVPosts(p, s) \/ SemVWakes(p, s)
    \/ SemFreeNext(p, s)

SemNext == \E p \in Procs, s \in Sems : SemCall(p, s) \/ SemContinue(p, s)

SemSpec == SemInit /\ [][SemNext]_semVars

(* Every process that can run gets the processor in the end: processes of  *)
(* one priority share it in time slices (src/phase1/phase1.c:588).         *)
SemReturns(p) == \E s \in Sems : SemContinue(p, s)
SemFairness == \A p \in Procs : WF_semVars(SemReturns(p))
-----------------------------------------------------------------------------
SemTypeOK ==
    /\ semTable \in [Sems -> Semaphore]
    /\ nextSemBlock \in [Procs -> Procs \cup {NULL}]
    /\ mail \in [SemBoxes -> Boxes(Procs)]
    /\ frame \in [Procs -> CallFrames]

(* "Blocks the process if the count is zero": no more processes get through*)
(* P than there were units.                                                *)
NeverOverdrawn == \A s \in Sems : semTable[s].count >= 0

(* A semaphore on which one process does P is a counting semaphore.        *)
SoleTaken == {s \in Sems : \A p, q \in Takers[s] : p = q}

Promise == INSTANCE Counting WITH
    Sems <- SoleTaken,
    exists <- {s \in SoleTaken : semTable[s].status = "ACTIVE"},
    units <- [s \in SoleTaken |-> semTable[s].count]

CountsUnits == Promise!Spec

(* Those who are certain to take a unit of the semaphore: they passed, or  *)
(* they sleep and have been taken off the list to be woken.                *)
Owing(s) ==
    {p \in Inside(s) : \/ frame[p].at = "passed"
                       \/ frame[p].at \in {"asleep", "woken"} /\ p \notin OnList(s)}

(* Nobody sleeps while there is a unit that is not already somebody's.     *)
NoIdleUnit ==
    \A s \in Sems : semTable[s].status = "ACTIVE" /\ OnList(s) # {}
        => semTable[s].count <= Cardinality(Owing(s))

(* A process that sleeps is on the block list of the semaphore that it     *)
(* waits for and on no other, or somebody is about to wake it; nobody else *)
(* is on a list, save while semFree goes through it.                       *)
SleeperListed ==
    \A p \in Procs, s \in Sems :
        LET waits == frame[p].sem = s /\ frame[p].at \in {"asleep", "woken"}
        IN /\ p \in OnList(s) => waits \/ semTable[s].status = "EMPTY"
           /\ waits /\ p \notin OnList(s) =>
                \/ \E q \in Procs : frame[q].at = "waking" /\ frame[q].wakes = p
                \/ \E i \in DOMAIN mail[p].sent : TRUE
                \/ ~Blocked(p) /\ frame[p].at = "woken"

InCall(p) == frame[p] \notin {NoCall, Gone} \/ Blocked(p)

LacksUnit(p) ==
    /\ frame[p].at \in {"P", "asleep", "woken", "passed"}
    /\ semTable[frame[p].sem].status = "ACTIVE" /\ semTable[frame[p].sem].count < 1

(* Every call returns or ends its process, save that a P waits while it    *)
(* finds no unit on a semaphore that exists.                               *)
CallsReturn == \A p \in Procs : InCall(p) ~> ~InCall(p) \/ LacksUnit(p)
=============================================================================
