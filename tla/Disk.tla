-------------------------------- MODULE Disk --------------------------------
(* One disk and its driver in phase 4 (src/phase4/phase4.c): processes put *)
(* requests, which lie on their stacks, into a list in the order of a      *)
(* circular scan and wait in their mailboxes; the driver carries out the   *)
(* request at the head of the list.                                        *)
EXTENDS Programs, Sequences

CONSTANTS
    TrackOf,            \* process -> the track it asks for
    Asks,               \* process -> the requests it makes, as
                        \* [requestType, startSector, sectors]
    TrackSize, Tracks,  \* sectors of a track, tracks of the disk
    MaxFaults,          \* bound: faults of the device
    MaxUnits            \* bound: counts of the semaphore told apart

ASSUME DiskAssumption ==
    /\ TrackSize \in Nat \ {0} /\ Tracks \in Nat \ {0}
    /\ TrackOf \in [Procs -> 0..Tracks - 1]
    /\ Asks \in [Procs -> SUBSET [requestType : {"read", "write"},
                                  startSector : 0..TrackSize - 1, sectors : Nat]]
    /\ MaxFaults \in Nat /\ MaxUnits \in Nat \ {0}

VARIABLES
    request,            \* process -> its diskDriverInfo
    headDiskList,
    diskSemaphore,      \* its count
    caller,             \* process -> where it stands in diskReadReal or diskWriteReal
    driver,             \* where the driver stands
    faults,             \* number of faults so far (not in the code)
    failed,             \* callers whose request a fault took off the list (not in the code)
    mishap              \* what has made the list unusable (not in the code)

diskVars == <<request, headDiskList, diskSemaphore, caller, driver, faults, failed, mishap>>

NoRequest == [requestType |-> "none", startSector |-> 0, sectors |-> 0, next |-> NULL, status |-> "unset"]

(* The driver knows the request it serves, the track and sector it has     *)
(* come to and the sectors left; moved holds the track and the sector of   *)
(* each transfer.                                                          *)
Operation(loc, p, t, s, l, m) == [at |-> loc, serves |-> p, track |-> t, sector |-> s, left |-> l, moved |-> m]
Waiting == Operation("semP", NULL, 0, 0, 0, <<>>)

DiskInit ==
    /\ request = [p \in Procs |-> NoRequest]
    /\ headDiskList = NULL
    /\ diskSemaphore = 0
    /\ caller = [p \in Procs |-> Standing("user")]
    /\ driver = Waiting
    /\ faults = 0 /\ failed = {} /\ mishap = "none"

NextOf(p) == request[p].next

(* The loop of DiskDriver: the request at the head, or P.                  *)
Begin(h) ==
    IF h = NULL THEN Waiting
    ELSE Operation("seek", h, TrackOf[h], request[h].startSector, request[h].sectors, <<>>)

(* Programs, of a lower priority than the driver, run when it waits.       *)
DiskDriverBlocked ==
    \/ driver.at \in {"seek", "transfer"}
    \/ driver.at = "semP" /\ diskSemaphore = 0
    \/ driver.at = "answering" /\ caller[driver.serves].at # "receiving"
-----------------------------------------------------------------------------
(* The list from its head, and the place insertDiskRequest finds in it: the *)
(* two walks end behind the first entry whose successor fails their tests.  *)
Walk == LET nth[k \in 0..Cardinality(Procs)] ==
                IF k = 0 THEN headDiskList
                ELSE IF nth[k - 1] = NULL THEN NULL ELSE NextOf(nth[k - 1])
        IN nth

(* Mutant: a request for a lower track than the head's is put in where the *)
(* first sweep is, in front of the first higher track.                     *)
MutantScanPlace(t) ==
    LET EndsAt(k) == Walk[k] # NULL /\ (NextOf(Walk[k]) # NULL => TrackOf[NextOf(Walk[k])] > t)
        first == CHOOSE k \in DOMAIN Walk : EndsAt(k) /\ \A j \in 0..k - 1 : ~EndsAt(j)
    IN IF headDiskList = NULL THEN Linking(NULL, NULL)
       ELSE Linking(Walk[first], NextOf(Walk[first]))

ScanPlace(t) ==
    LET track(k) == TrackOf[Walk[k]]
        AtEnd(k) == NextOf(Walk[k]) = NULL
        First(Ends(_), from) ==
            CHOOSE k \in DOMAIN Walk :
                /\ k >= from /\ Walk[k] # NULL /\ (AtEnd(k) \/ Ends(k))
                /\ \A j \in from..k - 1 : ~(AtEnd(j) \/ Ends(j))
        SweepEnds(k) == track(k + 1) >= t \/ track(k + 1) <= track(k)
        Descends(k) == track(k) > track(k + 1)
        Passes(k) == track(k + 1) > t
        k0 == IF t > track(0) THEN First(SweepEnds, 0) ELSE First(Passes, First(Descends, 0))
    IN IF headDiskList = NULL THEN Linking(NULL, NULL)
       ELSE Linking(Walk[k0], NextOf(Walk[k0]))

Asked(r) == [requestType |-> r.requestType, startSector |-> r.startSector, sectors |-> r.sectors,
             next |-> NULL, status |-> "unset"]

(* diskReadReal and diskWriteReal build the request and find its place ... *)
Ask(p, r) ==
    /\ caller[p].at = "user" /\ DiskDriverBlocked
    /\ request' = [request EXCEPT ![p] = Asked(r)]
    /\ caller' = [caller EXCEPT ![p] = ScanPlace(TrackOf[p])]
    /\ UNCHANGED <<headDiskList, diskSemaphore, driver, faults, failed, mishap>>

ScanStale(p) == caller[p] # ScanPlace(TrackOf[p])

(* ... link it in, after whatever has happened since ...                   *)
RequestLinkIn(p) ==
    LET b == caller[p].before
        a == caller[p].after
    IN /\ caller[p].at = "linking" /\ DiskDriverBlocked
       /\ request' = IF b = NULL THEN request
                     ELSE [request EXCEPT ![b].next = p, ![p].next = a]
       /\ headDiskList' = IF b = NULL THEN p ELSE headDiskList
       /\ caller' = [caller EXCEPT ![p] = Standing("posting")]
       /\ mishap' = IF ScanStale(p) THEN "torn" ELSE mishap
       /\ UNCHANGED <<diskSemaphore, driver, faults, failed>>

(* ... wake the driver, and wait.  The count grows with every request that *)
(* the driver takes without its unit; counts from MaxUnits up are not told *)
(* apart.                                                                  *)
(* Mutant: a request that begins the list does not wake the driver. *)
MutantPosted(p) ==
    IF headDiskList # p /\ diskSemaphore < MaxUnits THEN diskSemaphore + 1 ELSE diskSemaphore
Posted(p) == IF diskSemaphore < MaxUnits THEN diskSemaphore + 1 ELSE MaxUnits

Posts(p) ==
    /\ caller[p].at = "posting" /\ DiskDriverBlocked
    /\ diskSemaphore' = Posted(p)
    /\ caller' = [caller EXCEPT ![p] = Standing("queued")]
    /\ UNCHANGED <<request, headDiskList, driver, faults, failed, mishap>>

RequestReceives(p) ==
    /\ caller[p].at = "queued" /\ DiskDriverBlocked
    /\ caller' = [caller EXCEPT ![p] = Standing("receiving")]
    /\ UNCHANGED <<request, headDiskList, diskSemaphore, driver, faults, failed, mishap>>

RequestReturns(p) ==
    /\ caller[p].at = "returning" /\ DiskDriverBlocked
    /\ request' = [request EXCEPT ![p] = NoRequest]
    /\ caller' = [caller EXCEPT ![p] = Standing("user")]
    /\ UNCHANGED <<headDiskList, diskSemaphore, driver, faults, failed, mishap>>
-----------------------------------------------------------------------------
TakesUnit ==
    /\ driver.at = "semP" /\ diskSemaphore > 0
    /\ \/ diskSemaphore' = diskSemaphore - 1
       \/ diskSemaphore = MaxUnits /\ UNCHANGED diskSemaphore
    /\ driver' = Begin(headDiskList)
    /\ UNCHANGED <<request, headDiskList, caller, faults, failed, mishap>>

(* What the handlers do after an operation of the device: a request whose  *)
(* sectors are used up is answered, a write is first taken off the list;   *)
(* at the end of a track the driver seeks the next one; at the end of the  *)
(* disk the handler fails and leaves the request at the head, to be served *)
(* again.                                                                  *)
(* Mutant: a track has one sector more. *)
MutantEndOfTrack(s) == s > TrackSize
EndOfTrack(s) == s = TrackSize

Proceeds(t, s, l, m) ==
    LET h == driver.serves
        leaves == l = 0 /\ request[h].requestType = "write"
        stuck == l > 0 /\ EndOfTrack(s) /\ t + 1 = Tracks
    IN /\ driver' = IF l = 0 THEN Operation("answering", h, t, s, l, m)
                    ELSE IF stuck THEN Begin(h)
                    ELSE IF EndOfTrack(s) THEN Operation("seek", h, t + 1, 0, l, m)
                    ELSE Operation("transfer", h, t, s, l, m)
       /\ headDiskList' = IF leaves THEN NextOf(h) ELSE headDiskList
       /\ mishap' = IF stuck THEN "endOfDisk" ELSE mishap

Succeeds ==
    /\ request' = [request EXCEPT ![driver.serves].status = "ready"]
    /\ UNCHANGED <<diskSemaphore, caller, faults, failed>>

Seeks ==
    /\ driver.at = "seek"
    /\ Proceeds(driver.track, driver.sector, driver.left, driver.moved)
    /\ Succeeds

Transfers ==
    /\ driver.at = "transfer"
    /\ Proceeds(driver.track, driver.sector + 1, driver.left - 1,
                Append(driver.moved, <<driver.track, driver.sector>>))
    /\ Succeeds

(* A fault ends the handler.  A request whose seek failed stays at the head *)
(* and is served again; one whose transfer failed is off the list, and its  *)
(* caller is never woken.                                                   *)
Fault ==
    /\ faults < MaxFaults /\ faults' = faults + 1
    /\ UNCHANGED <<diskSemaphore, caller>>

SeekFails ==
    /\ driver.at = "seek" /\ Fault
    /\ request' = [request EXCEPT ![driver.serves].status = "error"]
    /\ driver' = Begin(headDiskList)
    /\ UNCHANGED <<headDiskList, failed, mishap>>

TransferFails ==
    /\ driver.at = "transfer" /\ Fault
    /\ headDiskList' = NextOf(driver.serves)
    /\ driver' = Begin(headDiskList')
    /\ failed' = failed \cup {driver.serves}

ReadFails ==
    /\ TransferFails /\ request[driver.serves].requestType = "read"
    /\ request' = [request EXCEPT ![driver.serves].status = "error"]
    /\ UNCHANGED mishap

(* diskWriteHandler writes the status through the new head.                *)
WriteFails ==
    /\ TransferFails /\ request[driver.serves].requestType = "write"
    /\ request' = [p \in Procs |->
          IF p = driver.serves THEN [request[p] EXCEPT !.status = "error"]
          ELSE IF p = headDiskList' THEN [request[p] EXCEPT !.status = "ready"]
          ELSE request[p]]
    /\ mishap' = IF headDiskList' = NULL THEN "crash" ELSE mishap

(* The driver sends to the caller; a read is then taken off the list.      *)
Answers ==
    LET p == driver.serves
        head == IF request[p].requestType = "read" THEN NextOf(headDiskList) ELSE headDiskList
    IN /\ driver.at = "answering" /\ caller[p].at = "receiving"
       /\ caller' = [caller EXCEPT ![p] = Standing("returning")]
       /\ headDiskList' = head
       /\ driver' = Begin(head)
       /\ UNCHANGED <<request, diskSemaphore, faults, failed, mishap>>
-----------------------------------------------------------------------------
DiskServes == TakesUnit \/ Seeks \/ Transfers \/ Answers

DiskCallContinues(p) == RequestLinkIn(p) \/ Posts(p) \/ RequestReceives(p) \/ RequestReturns(p)

(* What follows a torn list, a request that runs off the disk and is       *)
(* served for ever, or the use of a NULL head is left out.                 *)
Usable == mishap = "none"

DiskNext ==
    /\ Usable
    /\ \/ DiskServes
       \/ SeekFails \/ ReadFails \/ WriteFails
       \/ \E p \in Procs :
             \/ DiskCallContinues(p)
             \/ \E r \in Asks[p] : Ask(p, r)

DiskSpec == DiskInit /\ [][DiskNext]_diskVars

DiskDriverRuns == Usable /\ DiskServes
DiskCallerRuns(p) == Usable /\ DiskCallContinues(p)
DiskFairness ==
    /\ WF_diskVars(DiskDriverRuns)
    /\ \A p \in Procs : SF_diskVars(DiskCallerRuns(p))
-----------------------------------------------------------------------------
DiskTypeOK ==
    /\ request \in [Procs -> [requestType : {"none", "read", "write"}, startSector : 0..TrackSize - 1,
           sectors : Nat, next : Procs \cup {NULL}, status : {"unset", "error", "ready"}]]
    /\ headDiskList \in Procs \cup {NULL}
    /\ diskSemaphore \in 0..MaxUnits
    /\ caller \in [Procs -> [at : {"user", "linking", "posting", "queued", "receiving", "returning"},
                             before : Procs \cup {NULL}, after : Procs \cup {NULL}]]
    /\ driver.at \in {"semP", "seek", "transfer", "answering"}
    /\ driver.track \in 0..Tracks - 1 /\ driver.sector \in 0..TrackSize
    /\ faults \in 0..MaxFaults /\ failed \subseteq Procs
    /\ mishap \in {"none", "torn", "endOfDisk", "crash"}

(* The list is one sweep over the tracks upwards from the head, and then   *)
(* one more over the tracks below it (insertDiskRequest).  It is stated    *)
(* for requests of different tracks: the first walk stops between two      *)
(* requests for one track, so that track 6 put into 3, 5, 5 makes 3, 5, 6, *)
(* 5, which is no such order.                                              *)
Length == Cardinality({k \in DOMAIN Walk : Walk[k] # NULL})
ScanOrder ==
    Usable => \E m \in 0..Length : \A j, k \in 0..Length - 1 :
        /\ j < k /\ (k < m \/ m <= j) => TrackOf[Walk[j]] < TrackOf[Walk[k]]
        /\ m <= k => TrackOf[Walk[k]] < TrackOf[headDiskList]

(* A caller is answered after exactly the sectors it asked for have been   *)
(* moved, in order and across the ends of tracks, and with the status of   *)
(* the last operation, whatever was retried or failed before.              *)
ServedWhole ==
    driver.at = "answering" =>
        LET r == request[driver.serves]
            place(i) == TrackOf[driver.serves] * TrackSize + r.startSector + i - 1
        IN /\ r.status = "ready"
           /\ driver.moved = [i \in 1..r.sectors |-> <<place(i) \div TrackSize, place(i) % TrackSize>>]

(* The driver does not wait on its semaphore while a request is on the     *)
(* list, although it serves requests without taking their units.           *)
NoIdleDriver ==
    Usable /\ driver.at = "semP" /\ diskSemaphore = 0 =>
        \A p \in Procs : caller[p].at \in {"queued", "receiving"} => p \in failed

(* Every caller is answered, however many requests come ahead of its own,  *)
(* unless a fault of the device took its request off the list.             *)
RequestsAnswered ==
    \A p \in Procs : caller[p].at = "queued" ~> (caller[p].at = "user" \/ p \in failed \/ ~Usable)
=============================================================================
