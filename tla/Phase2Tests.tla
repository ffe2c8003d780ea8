---------------------------- MODULE Phase2Tests ----------------------------
(* Test programs of phase 2 (src/phase2/testcases) and what they are       *)
(* expected to print (src/phase2/testResults).  Lines that a process       *)
(* prints with no call in between are one line here.  A function that is   *)
(* passed a name or a priority, and prints it, is a function of its own.   *)
(*                                                                         *)
(* Left out are the tests that fill the tables of 2000 mailboxes and 2500  *)
(* slots (02, 16, 25, 42, 43), those that wait for a device (13, 14, 32),  *)
(* and 27 and 44, which were recorded with another kernel: there a process *)
(* that wakes or forks one of its own priority goes on, while the          *)
(* dispatcher of phase1.c takes turns at every call.                       *)
EXTENDS Scripts

S == "start2"
A == "XXp1"
B == "XXp2"
Ba == "XXp2a"
Bb == "XXp2b"
Bc == "XXp2c"
C == "XXp3"
D == "XXp4"
M == "mbox_id"

(* start1 of phase2.c. *)
Start1 == <<Forks(S, 1), Joins, Quits(0)>>

(* start2 creates the mailbox and joins n children. *)
Box(slots, size) == <<Prints, Creates(M, slots, size), ShowsAll(<<M>>)>>
JoinsKids(n) == Times(n, <<Joins, Shows>>)

(* Messages: "hello there, #i", "good-bye, #i" and "hello from" a process. *)
Sends16(i)     == <<Sends(M, i + 1, 16), Shows>>
CondSends16(i) == <<CondSends(M, i + 1, 16), Shows>>
CondSends13(i) == <<CondSends(M, 20 + i, 13), Shows>>
From(who)      == CASE who = Ba -> 31 [] who = Bb -> 32 [] who = Bc -> 33
SendsFrom(who)     == <<Prints, Sends(M, From(who), 17), Shows, Quits(-3)>>
CondSendsFrom(who) == <<Prints, CondSends(M, From(who), 17), Shows, Quits(-3)>>
SendsFive      == <<Prints>> \o ForEach(0, 4, Sends16) \o <<Quits(-3)>>
ReceivesAll(n) == Times(n, <<Receives(M, 100), Shows>>)
ReleasesBox    == <<Prints, Releases(M), Shows, Quits(-4)>>
Pauses         == <<Prints, Quits(-4)>>

Created7 == << <<S>>, <<S,7>> >>
Five(who) == << <<who,0>>, <<who,0>>, <<who,0>>, <<who,0>>, <<who,0>> >>
Got16(who) == << <<who,16,1>>, <<who,16,2>>, <<who,16,3>>, <<who,16,4>>, <<who,16,5>> >>

-----------------------------------------------------------------------------
(* One mailbox, one message.                                               *)

Test00 == [start1 |-> Start1, start2 |-> <<Prints, Quits(0)>>]
Expected00 == Result(<< <<S>> >>, "completed")

Test01 ==
    [start1 |-> Start1,
     start2 |-> Box(10, 50) \o <<Creates(M, 20, 30), ShowsAll(<<M>>), Quits(0)>>]
Expected01 == Result(<< <<S>>, <<S,7>>, <<S,8>> >>, "completed")

SendsToItself(size) ==
    Box(10, size) \o <<Sends(M, 1, 12), Shows, Receives(M, 80), Shows, Quits(0)>>

Test03 == [start1 |-> Start1, start2 |-> SendsToItself(50)]
Expected03 == Result(Created7 \o << <<S,0>>, <<S,12,1>> >>, "completed")

(* start2 of the tests 04 to 06, 21 and 22. *)
TwoChildren(slots, prio1, prio2) ==
    Box(slots, 50) \o <<Forks(A, prio1), Forks(B, prio2)>> \o JoinsKids(2) \o <<Quits(0)>>

SendsOne == <<Prints, Sends(M, 1, 12), Shows, Quits(-3)>>
ReceivesOne == <<Prints>> \o ReceivesAll(1) \o <<Quits(-4)>>

Test04 ==
    [start1 |-> Start1, start2 |-> TwoChildren(10, 3, 4), XXp1 |-> SendsOne, XXp2 |-> ReceivesOne]
Expected04 ==
    Result(Created7 \o << <<A>>, <<A,0>>, <<S,4,-3>>, <<B>>, <<B,12,1>>, <<S,5,-4>> >>, "completed")

(* The receiver waits first. *)
Test05 ==
    [start1 |-> Start1, start2 |-> TwoChildren(10, 4, 3), XXp1 |-> SendsOne, XXp2 |-> ReceivesOne]
Expected05 ==
    Result(Created7 \o << <<B>>, <<A>>, <<B,12,1>>, <<S,5,-4>>, <<A,0>>, <<S,4,-3>> >>, "completed")

-----------------------------------------------------------------------------
(* A full mailbox.                                                         *)

Test06 ==
    [start1 |-> Start1, start2 |-> TwoChildren(5, 3, 4),
     XXp1   |-> <<Prints>> \o ForEach(0, 5, Sends16) \o <<Quits(-3)>>,
     XXp2   |-> <<Prints>> \o ReceivesAll(6) \o <<Quits(-4)>>]
Expected06 ==
    Result(Created7 \o << <<A>> >> \o Five(A) \o << <<B>>, <<A,0>>, <<S,4,-3>> >> \o Got16(B)
           \o << <<B,16,6>>, <<S,5,-4>> >>, "completed")

(* start2 of the tests 07, 08 and 10. *)
FiveChildren ==
    Box(5, 50) \o <<Forks(A, 3), Forks(Ba, 3), Forks(Bb, 3), Forks(Bc, 3), Forks(C, 4)>>
    \o JoinsKids(5) \o <<Quits(0)>>

Test07 ==
    [start1 |-> Start1, start2 |-> FiveChildren, XXp1 |-> SendsFive,
     XXp2a  |-> SendsFrom(Ba), XXp2b |-> SendsFrom(Bb), XXp2c |-> SendsFrom(Bc),
     XXp3   |-> <<Prints>> \o ReceivesAll(8) \o <<Quits(-4)>>]
Expected07 ==
    Result(Created7 \o << <<A>> >> \o Five(A)
           \o << <<S,4,-3>>, <<Ba>>, <<Bb>>, <<Bc>>, <<C>>, <<Ba,0>>, <<S,5,-3>>, <<C,16,1>>,
                 <<Bb,0>>, <<S,6,-3>>, <<C,16,2>>, <<Bc,0>>, <<S,7,-3>>, <<C,16,3>>, <<C,16,4>>,
                 <<C,16,5>>, <<C,17,31>>, <<C,17,32>>, <<C,17,33>>, <<S,8,-4>> >>, "completed")

(* The mailbox is released while senders wait; each of them gets -3. *)
Test08 ==
    [start1 |-> Start1, start2 |-> FiveChildren, XXp1 |-> SendsFive,
     XXp2a  |-> SendsFrom(Ba), XXp2b |-> SendsFrom(Bb), XXp2c |-> SendsFrom(Bc), XXp3 |-> ReleasesBox]
Expected08 ==
    Result(Created7 \o << <<A>> >> \o Five(A)
           \o << <<S,4,-3>>, <<Ba>>, <<Bb>>, <<Bc>>, <<C>>, <<Ba,-3>>, <<S,5,-3>>, <<Bb,-3>>,
                 <<S,6,-3>>, <<Bc,-3>>, <<S,7,-3>>, <<C,0>>, <<S,8,-4>> >>, "completed")

(* start2 forks the releaser at priority 2 when the others wait. *)
ReleasesAtLast ==
    <<Forks(Ba, 3), Forks(Bb, 3), Forks(Bc, 3), Forks(D, 3), Joins, Forks(C, 2)>> \o JoinsKids(4)

Test09 ==
    [start1 |-> Start1,
     start2 |-> Box(5, 50) \o <<Forks(A, 3), Joins, Shows>> \o ReleasesAtLast \o <<Quits(0)>>,
     XXp1   |-> SendsFive,
     XXp2a  |-> SendsFrom(Ba), XXp2b |-> SendsFrom(Bb), XXp2c |-> SendsFrom(Bc),
     XXp3   |-> ReleasesBox, XXp4 |-> Pauses]
Expected09 ==
    Result(Created7 \o << <<A>> >> \o Five(A)
           \o << <<S,4,-3>>, <<Ba>>, <<Bb>>, <<Bc>>, <<D>>, <<C>>, <<C,0>>, <<S,9,-4>>, <<Ba,-3>>,
                 <<S,5,-3>>, <<Bb,-3>>, <<S,6,-3>>, <<Bc,-3>>, <<S,7,-3>> >>, "completed")

-----------------------------------------------------------------------------
(* Conditional calls.                                                      *)

Test10 ==
    [start1 |-> Start1, start2 |-> FiveChildren, XXp1 |-> SendsFive,
     XXp2a  |-> CondSendsFrom(Ba), XXp2b |-> SendsFrom(Bb), XXp2c |-> CondSendsFrom(Bc),
     XXp3   |-> <<Prints>> \o ReceivesAll(6) \o <<Quits(-4)>>]
Expected10 ==
    Result(Created7 \o << <<A>> >> \o Five(A)
           \o << <<S,4,-3>>, <<Ba>>, <<Ba,-2>>, <<S,5,-3>>, <<Bb>>, <<Bc>>, <<Bc,-2>>, <<S,7,-3>>,
                 <<C>>, <<Bb,0>>, <<S,6,-3>> >> \o Got16(C) \o << <<C,17,32>>, <<S,8,-4>> >>,
           "completed")

(* Tests 11, 12 and 41: XXp1 sends eight messages to five slots, waits at  *)
(* a second mailbox, and sends eight more.                                 *)
Pausing(slots) ==
    Box(5, 50) \o <<Creates("pauseMbox", slots, 50), ShowsAll(<<"pauseMbox">>), Forks(A, 3), Forks(C, 4)>>
    \o JoinsKids(2) \o <<Quits(0)>>

SendsTwice ==
    <<Prints>> \o ForEach(0, 7, CondSends16) \o <<Receives("pauseMbox", 0), Prints>>
    \o ForEach(0, 7, CondSends13) \o <<Quits(-3)>>

Eight == Five(A) \o << <<A,-2>>, <<A,-2>>, <<A,-2>> >>
Got13 == << <<C,13,20>>, <<C,13,21>>, <<C,13,22>>, <<C,13,23>>, <<C,13,24>> >>

Test11 ==
    [start1 |-> Start1, start2 |-> Pausing(0), XXp1 |-> SendsTwice,
     XXp3   |-> <<Prints>> \o ReceivesAll(5) \o <<Sends("pauseMbox", 0, 0), Prints>> \o ReceivesAll(5)
                \o <<Quits(-4)>>]
Expected11 ==
    Result(Created7 \o << <<S,8>>, <<A>> >> \o Eight \o << <<C>> >> \o Got16(C) \o << <<A>> >> \o Eight
           \o << <<S,4,-3>>, <<C>> >> \o Got13 \o << <<S,5,-4>> >>, "completed")

(* XXp3 receives until the mailbox is empty, and counts. *)
ReceivesWhile(shown) ==
    <<Sets("count", 0)>>
    \o WhileDoes(CondReceives(M, 100), <<ShowsAll(shown), Counts("count")>>)

ReceivesTwice(after) ==
    <<Prints>> \o ReceivesWhile(<<"text">>) \o <<ShowsAll(after), Sends("pauseMbox", 0, 0)>>
    \o ReceivesWhile(<<"r">>) \o <<ShowsAll(<<"r", "count">>), Quits(-4)>>

CountsTwice(slots, after) ==
    [start1 |-> Start1, start2 |-> Pausing(slots), XXp1 |-> SendsTwice, XXp3 |-> ReceivesTwice(after)]
CountedTwice(after) ==
    Result(Created7 \o << <<S,8>>, <<A>> >> \o Eight
           \o << <<C>>, <<C,1>>, <<C,2>>, <<C,3>>, <<C,4>>, <<C,5>>, after, <<A>> >> \o Eight
           \o << <<S,4,-3>> >> \o Got13 \o << <<C,-2,5>>, <<S,5,-4>> >>, "completed")

Test12 == CountsTwice(0, <<"count">>)
Expected12 == CountedTwice(<<C,5>>)

Test41 == CountsTwice(1, <<"r", "count">>)
Expected41 == CountedTwice(<<C,-2,5>>)

-----------------------------------------------------------------------------
(* Mailboxes without slots.                                                *)

ReceivesHere == <<Receives(M, 20), Shows, Quits(-3)>>
AnnouncesReceive == <<Prints>> \o ReceivesHere

Test17 ==
    [start1 |-> Start1, start2 |-> Box(0, 50) \o ReleasesAtLast \o <<Quits(0)>>,
     XXp2a  |-> SendsFrom(Ba), XXp2b |-> SendsFrom(Bb), XXp2c |-> SendsFrom(Bc),
     XXp3   |-> ReleasesBox, XXp4 |-> Pauses]
WokenByRelease ==
    << <<D>>, <<C>>, <<C,0>>, <<S,8,-4>>, <<Ba,-3>>, <<S,4,-3>>, <<Bb,-3>>, <<S,5,-3>>,
       <<Bc,-3>>, <<S,6,-3>> >>
Expected17 == Result(Created7 \o << <<Ba>>, <<Bb>>, <<Bc>> >> \o WokenByRelease, "completed")

Test18 ==
    [start1 |-> Start1, start2 |-> Box(0, 50) \o ReleasesAtLast \o <<Quits(0)>>,
     XXp2a  |-> ReceivesHere, XXp2b |-> ReceivesHere, XXp2c |-> ReceivesHere,
     XXp3   |-> ReleasesBox, XXp4 |-> Pauses]
Expected18 == Result(Created7 \o WokenByRelease, "completed")

(* start2 sends to, and receives from, the mailbox that was released. *)
Test19 ==
    [start1 |-> Start1,
     start2 |-> Box(0, 50) \o ReleasesAtLast \o <<CondSends(M, 0, 1), Shows, Quits(0)>>,
     XXp2a  |-> SendsFrom(Ba), XXp2b |-> SendsFrom(Bb), XXp2c |-> SendsFrom(Bc),
     XXp3   |-> ReleasesBox, XXp4 |-> Pauses]
Expected19 ==
    Result(Created7 \o << <<Ba>>, <<Bb>>, <<Bc>> >> \o WokenByRelease \o << <<S,-1>> >>, "completed")

Test20 ==
    [start1 |-> Start1,
     start2 |-> Box(0, 50) \o ReleasesAtLast \o <<CondReceives(M, 20), Shows, Quits(0)>>,
     XXp2a  |-> AnnouncesReceive, XXp2b |-> AnnouncesReceive, XXp2c |-> AnnouncesReceive,
     XXp3   |-> ReleasesBox, XXp4 |-> Pauses]
Expected20 == Expected19

SendsTwo == <<Prints>> \o ForEach(0, 1, Sends16) \o <<Quits(-3)>>
ReceivesTwo == <<Prints>> \o ReceivesAll(2) \o <<Quits(-4)>>

Test21 ==
    [start1 |-> Start1, start2 |-> TwoChildren(0, 3, 4), XXp1 |-> SendsTwo, XXp2 |-> ReceivesTwo]
Expected21 ==
    Result(Created7 \o << <<A>>, <<B>>, <<A,0>>, <<B,16,1>>, <<A,0>>, <<S,4,-3>>, <<B,16,2>>, <<S,5,-4>> >>,
           "completed")

Test22 ==
    [start1 |-> Start1, start2 |-> TwoChildren(0, 4, 3), XXp1 |-> SendsTwo, XXp2 |-> ReceivesTwo]
Expected22 ==
    Result(Created7 \o << <<B>>, <<A>>, <<B,16,1>>, <<A,0>>, <<B,16,2>>, <<S,5,-4>>, <<A,0>>, <<S,4,-3>> >>,
           "completed")

(* The releaser has a lower priority than those who wait. *)
ReleasedFromBelow ==
    Box(0, 50) \o <<Forks(Ba, 2), Forks(Bb, 2), Forks(Bc, 2), Forks(C, 4)>> \o JoinsKids(4)

Test28 ==
    [start1 |-> Start1, start2 |-> ReleasedFromBelow \o <<CondReceives(M, 20), Shows, Quits(0)>>,
     XXp2a  |-> AnnouncesReceive, XXp2b |-> AnnouncesReceive, XXp2c |-> AnnouncesReceive,
     XXp3   |-> ReleasesBox]
Expected28 ==
    Result(Created7
           \o << <<Ba>>, <<Bb>>, <<Bc>>, <<C>>, <<Ba,-3>>, <<S,4,-3>>, <<Bb,-3>>, <<S,5,-3>>,
                 <<Bc,-3>>, <<S,6,-3>>, <<C,0>>, <<S,7,-4>>, <<S,-1>> >>, "completed")

Test29 ==
    [start1 |-> Start1, start2 |-> ReleasedFromBelow \o <<CondSends(M, 0, 1), Shows, Quits(0)>>,
     XXp2a  |-> SendsFrom(Ba), XXp2b |-> SendsFrom(Bb), XXp2c |-> SendsFrom(Bc), XXp3 |-> ReleasesBox]
Expected29 == Expected28

-----------------------------------------------------------------------------
(* Blocked processes of several priorities.                                *)

(* Three receivers wait in the order of their calls, not of priorities. *)
Receives2 == <<Prints, Receives(M, 150), Shows, Quits(-2)>>

Test23 ==
    [start1 |-> Start1, start2 |-> Box(5, 150) \o <<Forks(C, 5)>> \o JoinsKids(1) \o <<Quits(0)>>,
     XXp1   |-> <<Prints, Sends(M, 1, 14), Prints, Sends(M, 2, 15), Prints, Sends(M, 3, 14), Quits(-1)>>,
     XXp2_4 |-> <<Prints, Receives(M, 150), Shows, Quits(-4)>>,
     XXp2_2 |-> Receives2,
     XXp3   |-> <<Prints, Forks("XXp2_4", 4), Prints, Forks("XXp2_2", 2), Prints, Forks("XXp2_2", 2),
                  Prints, Forks(A, 1)>> \o JoinsKids(4) \o <<Quits(-5)>>]
Expected23 ==
    Result(Created7
           \o << <<C>>, <<"XXp2_4">>, <<C>>, <<"XXp2_2">>, <<C>>, <<"XXp2_2">>, <<C>>, <<A>>, <<A>>, <<A>>,
                 <<"XXp2_2",15,2>>, <<"XXp2_2",14,3>>, <<"XXp2_4",14,1>>, <<C,8,-1>>, <<C,6,-2>>,
                 <<C,7,-2>>, <<C,5,-4>>, <<S,4,-5>> >>, "completed")

(* And three senders. *)
Test24 ==
    [start1 |-> Start1, start2 |-> Box(5, 150) \o <<Forks(C, 5)>> \o JoinsKids(1) \o <<Quits(0)>>,
     XXp1   |-> <<Prints>> \o Times(8, <<Receives(M, 150), ShowsAll(<<"text">>)>>) \o <<Quits(-1)>>,
     XXp2_4 |-> <<Prints, Sends(M, 6, 14), Shows, Quits(-4)>>,
     XXp2_3 |-> <<Prints, Sends(M, 7, 16), Shows, Quits(-3)>>,
     XXp2_2 |-> <<Prints, Sends(M, 8, 15), Shows, Quits(-2)>>,
     XXp3   |-> <<Prints, Sends(M, 1, 14), Prints, Sends(M, 2, 15), Prints, Sends(M, 3, 14),
                  Prints, Sends(M, 4, 15), Prints, Sends(M, 5, 14), Prints, Forks("XXp2_4", 4),
                  Prints, Forks("XXp2_3", 3), Prints, Forks("XXp2_2", 2), Prints, Forks(A, 1)>>
                \o JoinsKids(4) \o <<Quits(-5)>>]
Expected24 ==
    Result(Created7
           \o << <<C>>, <<C>>, <<C>>, <<C>>, <<C>>, <<C>>, <<"XXp2_4">>, <<C>>, <<"XXp2_3">>, <<C>>,
                 <<"XXp2_2">>, <<C>>, <<A>>, <<A,1>>, <<A,2>>, <<A,3>>, <<A,4>>, <<A,5>>, <<A,6>>, <<A,7>>,
                 <<A,8>>, <<"XXp2_2",0>>, <<"XXp2_3",0>>, <<"XXp2_4",0>>, <<C,8,-1>>, <<C,7,-2>>,
                 <<C,6,-3>>, <<C,5,-4>>, <<S,4,-5>> >>, "completed")

(* XXp1 goes on with a mailbox that was released under it. *)
FailsTenTimes ==
    <<Prints>> \o Times(5, <<Receives(M, 20), Shows>>) \o ForEach(0, 4, Sends16) \o <<Quits(-3)>>
Failed == << <<A,-3>> >> \o Times(9, << <<A,-1>> >>) \o << <<S,4,-3>> >>

Test26 ==
    [start1 |-> Start1,
     start2 |-> Box(5, 50) \o <<Forks(A, 2), Forks(Ba, 3), Forks(Bb, 4), Forks(Bc, 3), Forks(C, 5)>>
                \o JoinsKids(5) \o <<Quits(0)>>,
     XXp1   |-> FailsTenTimes,
     XXp2a  |-> AnnouncesReceive, XXp2b |-> AnnouncesReceive, XXp2c |-> AnnouncesReceive,
     XXp3   |-> ReleasesBox]
Expected26 ==
    Result(Created7 \o << <<A>>, <<Ba>>, <<Bc>>, <<Bb>>, <<C>> >> \o Failed
           \o << <<Ba,-3>>, <<S,5,-3>>, <<Bc,-3>>, <<S,7,-3>>, <<Bb,-3>>, <<S,6,-3>>, <<C,0>>, <<S,8,-4>> >>,
           "completed")

(* The releaser and one of those who wait have the same priority. *)
FourChildren == <<Forks(A, 4), Forks(B, 3), Forks(C, 2), Forks(D, 4), Prints>>
Releases4 == <<Prints, Releases(M), Shows, Quits(-3)>>

Test30 ==
    [start1 |-> Start1,
     start2 |-> Box(1, 13) \o FourChildren \o <<Sends(M, 1, 12), Shows>> \o Times(4, <<Joins>>) \o <<Quits(0)>>,
     XXp1   |-> SendsOne, XXp2 |-> SendsOne, XXp3 |-> SendsOne, XXp4 |-> Releases4]
Expected30 ==
    Result(Created7 \o << <<S>>, <<S,0>>, <<C>>, <<B>>, <<A>>, <<D>>, <<C,-3>>, <<B,-3>>, <<D,0>>, <<A,-3>> >>,
           "completed")

Receives12 == <<Prints, Receives(M, 12), Shows, Quits(-3)>>

Test31 ==
    [start1 |-> Start1,
     start2 |-> Box(1, 13) \o FourChildren \o <<[Receives(M, 12) EXCEPT !.to = "result"]>>
                \o Times(4, <<Joins>>) \o <<ShowsAll(<<"result">>), Quits(0)>>,
     XXp1   |-> Receives12, XXp2 |-> Receives12, XXp3 |-> Receives12, XXp4 |-> Releases4]
Expected31 ==
    Result(Created7 \o << <<S>>, <<C>>, <<B>>, <<A>>, <<D>>, <<C,-3>>, <<B,-3>>, <<D,0>>, <<A,-3>>, <<S,-3>> >>,
           "completed")

-----------------------------------------------------------------------------
(* Sizes.                                                                  *)

Test15 == [start1 |-> Start1, start2 |-> Box(10, 5) \o <<Sends(M, 1, 12), Shows, Quits(0)>>]
Expected15 == Result(Created7 \o << <<S,-1>> >>, "completed")

Test33 == [start1 |-> Start1, start2 |-> SendsToItself(12)]
Expected33 == Expected03

Test34 == [start1 |-> Start1, start2 |-> Box(10, 11) \o <<Sends(M, 1, 12), Shows, Quits(0)>>]
Expected34 == Expected15

Test35 ==
    [start1 |-> Start1,
     start2 |-> Box(10, 151) \o <<Creates(M, 10, -1), ShowsAll(<<M>>), Creates(M, -1, 10), ShowsAll(<<M>>),
                  Creates(M, 2, 0), ShowsAll(<<M>>), Sends(M, 1, 0), Shows, Sends(M, 0, 0), Shows,
                  Receives(M, 0), ShowsAll(<<"size">>), Receives(M, 80), ShowsAll(<<"size">>), Quits(0)>>]
Expected35 ==
    Result(<< <<S>>, <<S,-1>>, <<S,-1>>, <<S,-1>>, <<S,7>>, <<S,0>>, <<S,0>>, <<S,0>>, <<S,0>> >>, "completed")

(* The buffer is too small: for a message that is there, and when the      *)
(* message comes.                                                          *)
Test39 ==
    [start1 |-> Start1, start2 |-> Box(10, 13) \o <<Sends(M, 1, 12), Shows, Receives(M, 4), Shows, Quits(0)>>]
Expected39 == Result(Created7 \o << <<S,0>>, <<S,-1>> >>, "completed")

Test40 ==
    [start1 |-> Start1,
     start2 |-> Box(1, 13) \o <<Forks(A, 4), Prints, Receives(M, 11), Shows, Joins, Quits(0)>>,
     XXp1   |-> SendsOne]
Expected40 == Result(Created7 \o << <<S>>, <<A>>, <<S,-1>>, <<A,-1>> >>, "completed")

-----------------------------------------------------------------------------
(* The system calls 0, MAXSYSCALLS - 1 and MAXSYSCALLS: the first two      *)
(* reach nullsys, the last one stops in syscallHandler.                    *)
TrapsInUserMode ==
    [start1 |-> Start1, start2 |-> <<Prints, LeavesKernelMode, Prints, Traps, Prints, Quits(0)>>]
HaltsAtTrap == Result(<< <<S>>, <<S>> >>, "misuse")

Test36 == TrapsInUserMode
Test37 == TrapsInUserMode
Test38 == TrapsInUserMode
Expected36 == HaltsAtTrap
Expected37 == HaltsAtTrap
Expected38 == HaltsAtTrap

-----------------------------------------------------------------------------
Programs ==
    <<Test00, Test01, Test03, Test04, Test05, Test06, Test07, Test08, Test09, Test10, Test11, Test12,
      Test15, Test17, Test18, Test19, Test20, Test21, Test22, Test23, Test24, Test26, Test28,
      Test29, Test30, Test31, Test33, Test34, Test35, Test36, Test37, Test38, Test39, Test40, Test41>>

Expected ==
    <<Expected00, Expected01, Expected03, Expected04, Expected05, Expected06, Expected07, Expected08,
      Expected09, Expected10, Expected11, Expected12, Expected15, Expected17, Expected18, Expected19,
      Expected20, Expected21, Expected22, Expected23, Expected24, Expected26, Expected28,
      Expected29, Expected30, Expected31, Expected33, Expected34, Expected35, Expected36, Expected37,
      Expected38, Expected39, Expected40, Expected41>>

(* Shared variables of the programs. *)
Variables == {M, "pauseMbox", "count", "result"}
=============================================================================
