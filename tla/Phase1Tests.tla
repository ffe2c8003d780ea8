---------------------------- MODULE Phase1Tests ----------------------------
(* The test programs of phase 1 (src/phase1/testcases) and what they are   *)
(* expected to print (src/phase1/testResults).  test36, which zaps the     *)
(* sentinel, is left out.                                                  *)
EXTENDS Scripts

S == "start1"
A == "XXp1"
B == "XXp2"
C == "XXp3"
D == "XXp4"

-----------------------------------------------------------------------------
(* fork1, join and quit.                                                   *)

Test00 ==
    [start1 |-> <<Prints, Forks(A, 3), Shows, Prints, Joins, Shows, Quits(0)>>,
     XXp1   |-> <<Prints, Prints, Quits(-3)>>]
Expected00 ==
    Result(<< <<S>>, <<S,3>>, <<S>>, <<A>>, <<A>>, <<S,3,-3>> >>, "completed")

Test01 ==
    [start1 |-> <<Prints, Forks(A, 3), Shows, Forks(B, 5), Shows, Prints, Joins, Shows,
                  Prints, Joins, Shows, Quits(0)>>,
     XXp1   |-> <<Prints, Prints, Quits(-3)>>,
     XXp2   |-> <<Prints, Prints, Quits(5)>>]
Expected01 ==
    Result(<< <<S>>, <<S,3>>, <<S,4>>, <<S>>, <<A>>, <<A>>, <<S,3,-3>>, <<S>>,
              <<B>>, <<B>>, <<S,4,5>> >>, "completed")

Test02 ==
    [start1 |-> <<Prints, Forks(A, 3), Shows, Prints, Joins, Shows, Quits(0)>>,
     XXp1   |-> <<Prints, Prints, Prints, Forks(B, 2), Shows, Prints, Forks(B, 2), Shows,
                  Joins, Shows, Joins, Shows, Quits(-3)>>,
     XXp2   |-> <<Prints, Prints, Quits(5)>>]
Expected02 ==
    Result(<< <<S>>, <<S,3>>, <<S>>, <<A>>, <<A>>, <<A>>, <<B>>, <<B>>, <<A,4>>, <<A>>,
              <<B>>, <<B>>, <<A,5>>, <<A,4,5>>, <<A,5,5>>, <<S,3,-3>> >>, "completed")

(* The whole table, twice: 48 children, whose slots are used again. *)
Test03 ==
    [start1 |-> <<Prints>> \o Times(2, Times(48, <<Forks(A, 3), Shows>>)
                                       \o Times(48, <<Joins, Shows>>)) \o <<Quits(0)>>,
     XXp1   |-> <<ShowsAll(<<"pid">>), QuitsMinusPid>>]
Expected03 ==
    LET Forked(pid) == << <<S, pid>> >>
        Joined(pid) == << <<A, pid>>, <<S, pid, -pid>> >>
    IN Result(<< <<S>> >> \o ForEach(3, 50, Forked) \o ForEach(3, 50, Joined)
              \o ForEach(53, 100, Forked) \o ForEach(53, 100, Joined), "completed")

Test04 ==
    [start1 |-> <<Prints>> \o Times(2, Times(3, <<Prints, Forks(A, 3), Shows>>)
                                       \o Times(3, <<Joins, Shows>>)) \o <<Quits(0)>>,
     XXp1   |-> <<ShowsAll(<<"pid">>), ShowsAll(<<"pid">>), QuitsMinusPid>>]
Expected04 ==
    LET Forked(pid) == << <<S>>, <<S, pid>> >>
        Joined(pid) == << <<A, pid>>, <<A, pid>>, <<S, pid, -pid>> >>
    IN Result(<< <<S>> >> \o ForEach(3, 5, Forked) \o ForEach(3, 5, Joined)
              \o ForEach(6, 8, Forked) \o ForEach(6, 8, Joined), "completed")

Test05 ==
    [start1 |-> <<Prints, Forks(A, 3), Shows, Joins, Shows, Quits(0)>>,
     XXp1   |-> <<Prints, Prints, Forks(B, 2), Shows, Joins, Shows, Quits(-3)>>,
     XXp2   |-> <<Prints, Prints, Quits(5)>>]
Expected05 ==
    Result(<< <<S>>, <<S,3>>, <<A>>, <<A>>, <<B>>, <<B>>, <<A,4>>, <<A,4,5>>, <<S,3,-3>> >>,
           "completed")

Test06 ==
    [start1 |-> <<Prints, Forks(A, 3), Shows, Prints, Joins, Shows, Quits(0)>>,
     XXp1   |-> <<Prints, Prints, Prints, Forks(B, 5), Shows, Prints, Forks(B, 5), Shows,
                  Joins, Shows, Joins, Shows, Quits(-3)>>,
     XXp2   |-> <<Prints, Prints, Quits(5)>>]
Expected06 ==
    Result(<< <<S>>, <<S,3>>, <<S>>, <<A>>, <<A>>, <<A>>, <<A,4>>, <<A>>, <<A,5>>, <<B>>, <<B>>,
              <<A,4,5>>, <<B>>, <<B>>, <<A,5,5>>, <<S,3,-3>> >>, "completed")

(* start1 quits with a live child. *)
Test07 ==
    [start1 |-> <<Prints, Forks(A, 3), Shows, Quits(0)>>,
     XXp1   |-> <<Prints, Prints, Quits(-3)>>]
Expected07 == Result(<< <<S>>, <<S,3>> >>, "misuse")

(* fork1 and quit in user mode. *)
Test08 ==
    [start1 |-> <<Prints, LeavesKernelMode, Forks(A, 3), Shows, Prints, Joins, Shows, Quits(0)>>,
     XXp1   |-> <<Prints, Prints, Quits(-3)>>]
Expected08 == Result(<< <<S>> >>, "misuse")

Test09 ==
    [start1 |-> <<Prints, Forks(A, 3), Shows, Prints, Joins, Shows, Quits(0)>>,
     XXp1   |-> <<Prints, Prints, LeavesKernelMode, Quits(-3)>>]
Expected09 == Result(<< <<S>>, <<S,3>>, <<S>>, <<A>>, <<A>> >>, "misuse")

-----------------------------------------------------------------------------
(* zap.                                                                    *)

Test10 ==
    [start1 |-> <<Prints, Forks(A, 3), Shows, Prints, Joins, Shows, Quits(0)>>,
     XXp1   |-> <<ShowsAll(<<"pid">>), Prints, Prints, ForksTo("pid1", B, 5), ShowsAll(<<"pid1">>),
                  Prints, ForksTo("pid2", B, 5), ShowsAll(<<"pid2">>),
                  Prints, Zaps("pid1"), Shows, Prints, Zaps("pid2"), Shows,
                  Prints, Joins, Shows, Joins, Shows, Quits(-3)>>,
     XXp2   |-> <<ShowsAll(<<"pid">>), Prints, Quits(5)>>]
Expected10 ==
    Result(<< <<S>>, <<S,3>>, <<S>>, <<A,3>>, <<A>>, <<A>>, <<A,4>>, <<A>>, <<A,5>>, <<A>>,
              <<B,4>>, <<B>>, <<A,0>>, <<A>>, <<B,5>>, <<B>>, <<A,0>>, <<A>>,
              <<A,4,5>>, <<A,5,5>>, <<S,3,-3>> >>, "completed")

Test11 ==
    [start1 |-> <<Prints, ForksTo("kidpid", A, 5), Prints, Zaps("kidpid"), Shows, Joins, Shows, Quits(0)>>,
     XXp1   |-> <<Prints, SpinsUntilZapped, Prints, Quits(5)>>]
Expected11 ==
    Result(<< <<S>>, <<S>>, <<A>>, <<A>>, <<S,0>>, <<S,3,5>> >>, "completed")

(* start1 joins XXp1, which zaps start1. *)
Test12 ==
    [start1 |-> <<Prints, Forks(A, 3), Shows, Prints, Joins, Shows, Quits(0)>>,
     XXp1   |-> <<Prints, Prints, Prints, ZapsPid(2), Shows, Quits(-3)>>]
Expected12 == Result(<< <<S>>, <<S,3>>, <<S>>, <<A>>, <<A>>, <<A>> >>, "deadlock")

(* start1 of the tests 13 to 16. *)
TwoChildren ==
    <<Prints, ForksTo("pid1", A, 3), ShowsAll(<<"pid1">>), Forks(B, 4), Shows,
      Prints, Joins, Shows, Prints, Joins, Shows, Quits(0)>>

Test13 ==
    [start1 |-> TwoChildren,
     XXp1   |-> <<Prints, Prints, Prints, ForksTo("pid_e", C, 5), ShowsAll(<<"pid_e">>),
                  Prints, Joins, Shows, Quits(-3)>>,
     XXp2   |-> <<Prints, Prints, Zaps("pid_e"), Shows, Quits(5)>>,
     XXp3   |-> <<Prints, Quits(5)>>]
Expected13 ==
    Result(<< <<S>>, <<S,3>>, <<S,4>>, <<S>>, <<A>>, <<A>>, <<A>>, <<A,5>>, <<A>>, <<B>>, <<B>>,
              <<C>>, <<A,5,5>>, <<S,3,-3>>, <<S>>, <<B,0>>, <<S,4,5>> >>, "completed")

(* XXp1 is zapped while it waits in join.  It prints no status then. *)
Test14 ==
    [start1 |-> TwoChildren,
     XXp1   |-> <<Prints, Prints, Prints, Forks(C, 5), Shows, Prints, Joins, ShowsFailure, Quits(-3)>>,
     XXp2   |-> <<Prints, Prints, Zaps("pid1"), Shows, Quits(5)>>,
     XXp3   |-> <<Prints, Quits(5)>>]
Expected14 ==
    Result(<< <<S>>, <<S,3>>, <<S,4>>, <<S>>, <<A>>, <<A>>, <<A>>, <<A,5>>, <<A>>, <<B>>, <<B>>,
              <<C>>, <<A,-1>>, <<S,3,-3>>, <<S>>, <<B,0>>, <<S,4,5>> >>, "completed")

(* XXp3 is zapped by two processes. *)
Test15 ==
    [start1 |-> TwoChildren,
     XXp1   |-> <<Prints, Prints, Prints, ForksTo("pid_z", C, 5), ShowsAll(<<"pid_z">>),
                  Prints, Zaps("pid_z"), Shows, Prints, Joins, Shows, Quits(-3)>>,
     XXp2   |-> <<Prints, Prints, Zaps("pid_z"), Shows, Quits(5)>>,
     XXp3   |-> <<Prints, Quits(5)>>]
Expected15 ==
    Result(<< <<S>>, <<S,3>>, <<S,4>>, <<S>>, <<A>>, <<A>>, <<A>>, <<A,5>>, <<A>>, <<B>>, <<B>>,
              <<C>>, <<A,0>>, <<A>>, <<A,5,5>>, <<S,3,-3>>, <<S>>, <<B,0>>, <<S,4,5>> >>, "completed")

(* XXp1 is zapped while it waits in zap, and joins as a zapped process. *)
Test16 ==
    [start1 |-> TwoChildren,
     XXp1   |-> <<Prints, Prints, Prints, ForksTo("pid_z", C, 5), ShowsAll(<<"pid_z">>),
                  ShowsAll(<<"pid_z">>), Zaps("pid_z"), ShowsFailure,
                  Prints, Joins, ShowsFailure, Quits(-3)>>,
     XXp2   |-> <<Prints, ShowsAll(<<"pid1">>), Zaps("pid1"), ShowsAll(<<"pid1", "r">>), Quits(5)>>,
     XXp3   |-> <<Prints, Quits(5)>>]
Expected16 ==
    Result(<< <<S>>, <<S,3>>, <<S,4>>, <<S>>, <<A>>, <<A>>, <<A>>, <<A,5>>, <<A,5>>, <<B>>, <<B,3>>,
              <<C>>, <<A,-1>>, <<A>>, <<A,-1>>, <<S,3,-3>>, <<S>>, <<B,3,0>>, <<S,4,5>> >>, "completed")

(* XXp1 compares getpid() with what fork1 returned for it. *)
Test17 ==
    [start1 |-> <<Forks(A, 2), Forks(A, 3), Forks(A, 4), Joins, ShowsKid, Joins, ShowsKid, Joins, ShowsKid,
                  Prints, Quits(-1)>>,
     XXp1   |-> <<ShowsAll(<<"pid">>), Quits(-2)>>]
Expected17 ==
    Result(<< <<A,3>>, <<S,3>>, <<A,4>>, <<S,4>>, <<A,5>>, <<S,5>>, <<S>> >>, "completed")

(* Ten processes zap one.  XXp2 prints its argument, here its pid; XXp3    *)
(* waits for ten zappers, who have a higher priority.                      *)
Test18 ==
    [start1 |-> <<Prints, ForksTo("victim", C, 5)>> \o Times(10, <<Forks(B, 4), Shows>>)
                \o Times(11, <<Joins>>) \o <<Prints, Quits(-1)>>,
     XXp2   |-> <<ShowsAll(<<"pid">>), Zaps("victim"), ShowsAll(<<"pid">>), Quits(-3)>>,
     XXp3   |-> <<Prints, Prints, Quits(-4)>>]
Expected18 ==
    LET Forked(pid)  == << <<S, pid>> >>
        Zapping(pid) == << <<B, pid>> >>
    IN Result(<< <<S>> >> \o ForEach(4, 13, Forked) \o ForEach(4, 13, Zapping) \o << <<C>>, <<C>> >>
              \o ForEach(4, 13, Zapping) \o << <<S>> >>, "completed")

-----------------------------------------------------------------------------
(* What fork1 and zap refuse.                                              *)

Test19 ==
    [start1 |-> <<Prints, Forks(B, 2), Shows, Prints, Joins, Shows, Quits(-1)>>,
     XXp1   |-> <<Prints, Quits(-2)>>,
     XXp2   |-> <<ForksSmall(A, 2), Shows, ForksSmall(A, 2), Shows, Quits(0)>>]
Expected19 ==
    Result(<< <<S>>, <<S,3>>, <<S>>, <<B,-2>>, <<B,-2>>, <<S,3,0>> >>, "completed")

(* 52 processes for 48 free slots. *)
Test20 ==
    [start1 |-> <<Prints>> \o Times(52, <<Forks(A, 2), ShowsFailure>>) \o Times(52, <<Joins>>)
                \o <<Quits(-1)>>,
     XXp1   |-> <<Quits(-2)>>]
Expected20 ==
    Result(<< <<S>>, <<S,-1>>, <<S,-1>>, <<S,-1>>, <<S,-1>> >>, "completed")

(* A process zaps itself. *)
Test21 ==
    [start1 |-> <<Prints, ForksTo("pid1", A, 3), ShowsAll(<<"pid1">>), Prints, Joins, Shows, Quits(0)>>,
     XXp1   |-> <<Prints, Prints, Zaps("pid1"), Shows, Quits(-3)>>]
Expected21 == Result(<< <<S>>, <<S,3>>, <<S>>, <<A>>, <<A>> >>, "misuse")

Test22 ==
    [start1 |-> <<Prints, Forks(A, 9), ShowsFailure, Forks(A, -10), ShowsFailure, Quits(0)>>,
     XXp1   |-> <<Prints, Prints, Quits(-3)>>]
Expected22 == Result(<< <<S>>, <<S,-1>>, <<S,-1>> >>, "completed")

-----------------------------------------------------------------------------
(* blockMe and unblockProc.                                                *)

UnblocksThree ==
    <<Prints, Unblocks("pid0", "res0"), Unblocks("pid1", "res1"), Unblocks("pid2", "res2"),
      ShowsAll(<<"pid0", "res0">>), ShowsAll(<<"pid1", "res1">>), ShowsAll(<<"pid2", "res2">>), Quits(0)>>

(* XXp2 of the tests 24 and 25. *)
BlocksAndShows(status) ==
    <<ShowsAll(<<"pid">>), BlocksMe(status), ShowsAll(<<"pid", "r">>), ShowsAll(<<"pid", "zapped">>), Quits(0)>>

Test23 ==
    [start1 |-> <<Prints, Forks(A, 5), Joins, ShowsKid, Quits(0)>>,
     XXp1   |-> <<Prints, ForksTo("pid0", B, 3), ForksTo("pid1", B, 3), ForksTo("pid2", B, 3)>>
                \o UnblocksThree,
     XXp2   |-> <<ShowsAll(<<"pid">>), BlocksMe(13), ShowsAll(<<"pid", "r">>), Quits(0)>>]
Expected23 ==
    Result(<< <<S>>, <<A>>, <<B,4>>, <<B,5>>, <<B,6>>, <<A>>, <<B,4,0>>, <<B,5,0>>, <<B,6,0>>,
              <<A,4,0>>, <<A,5,0>>, <<A,6,0>>, <<S,3>> >>, "completed")

(* The second blocked process is zapped before it is unblocked. *)
Test24 ==
    [start1 |-> <<Prints, Forks(A, 5), Joins, ShowsKid, Quits(0)>>,
     XXp1   |-> <<Prints, ForksTo("pid0", B, 3), ForksTo("pid1", B, 3), ForksTo("pid2", B, 3),
                  Prints, Forks(C, 4)>> \o UnblocksThree,
     XXp2   |-> BlocksAndShows(11),
     XXp3   |-> <<ShowsAll(<<"pid">>), ZapsPid(5), Shows, Quits(0)>>]
Expected24 ==
    Result(<< <<S>>, <<A>>, <<B,4>>, <<B,5>>, <<B,6>>, <<A>>, <<C,7>>, <<A>>,
              <<B,4,0>>, <<B,4,0>>, <<B,5,-1>>, <<B,5,1>>, <<C,0>>, <<B,6,0>>, <<B,6,0>>,
              <<A,4,0>>, <<A,5,0>>, <<A,6,0>>, <<S,3>> >>, "completed")

(* ... and its zapper is zapped as well. *)
Test25 ==
    [start1 |-> <<Prints, Forks(A, 5), Joins, ShowsKid, Quits(0)>>,
     XXp1   |-> <<Prints, ForksTo("pid0", B, 2), ForksTo("pid1", B, 2), ForksTo("pid2", B, 2),
                  Prints, Forks(C, 3), Forks(D, 4)>> \o UnblocksThree,
     XXp2   |-> BlocksAndShows(19),
     XXp3   |-> <<ShowsAll(<<"pid">>), ZapsPid(5), Shows, Quits(0)>>,
     XXp4   |-> <<ShowsAll(<<"pid">>), ZapsPid(7), Shows, Quits(0)>>]
Expected25 ==
    Result(<< <<S>>, <<A>>, <<B,4>>, <<B,5>>, <<B,6>>, <<A>>, <<C,7>>, <<D,8>>, <<A>>,
              <<B,4,0>>, <<B,4,0>>, <<B,5,-1>>, <<B,5,1>>, <<C,-1>>, <<D,0>>, <<B,6,0>>, <<B,6,0>>,
              <<A,4,0>>, <<A,5,0>>, <<A,6,0>>, <<S,3>> >>, "completed")

-----------------------------------------------------------------------------
(* join and zap in all orders.                                             *)

(* join without children. *)
Test26 ==
    [start1 |-> <<Prints, Forks(A, 3), Shows, Forks(B, 3), Shows, Prints, Joins, Shows,
                  Prints, Joins, Shows, Prints, Joins, ShowsKid, Quits(0)>>,
     XXp1   |-> <<Prints, Prints, Prints, Joins, ShowsKid, Quits(-1)>>,
     XXp2   |-> <<Prints, Prints, Quits(-2)>>]
Expected26 ==
    Result(<< <<S>>, <<S,3>>, <<S,4>>, <<S>>, <<A>>, <<A>>, <<A>>, <<A,-2>>, <<S,3,-1>>, <<S>>,
              <<B>>, <<B>>, <<S,4,-2>>, <<S>>, <<S,-2>> >>, "completed")

(* The children have quit already; XXp3 is zapped before it joins. *)
Test27 ==
    [start1 |-> <<Prints, Forks(A, 5), Shows, Forks(B, 5), Shows, ForksTo("pid3", C, 5), ShowsAll(<<"pid3">>),
                  Prints, Joins, Shows, Prints, Joins, Shows, Prints, Joins, Shows, Quits(0)>>,
     XXp1   |-> <<Prints, Prints, Forks(D, 2), Shows, Prints, Joins, Shows, Quits(-1)>>,
     XXp2   |-> <<Prints, Prints, ShowsAll(<<"pid3">>), Zaps("pid3"), ShowsAll(<<"pid3", "r">>), Quits(-2)>>,
     XXp3   |-> <<Prints, Prints, Forks(D, 2), Shows, Forks(D, 3), Shows, Prints, Joins, Shows,
                  Prints, Joins, Shows, Quits(-3)>>,
     XXp4   |-> <<Prints, Prints, Quits(-4)>>]
Expected27 ==
    Result(<< <<S>>, <<S,3>>, <<S,4>>, <<S,5>>, <<S>>, <<A>>, <<A>>, <<D>>, <<D>>,
              <<B>>, <<B>>, <<B,5>>, <<C>>, <<C>>, <<D>>, <<D>>, <<A,6>>, <<A>>, <<A,6,-4>>,
              <<S,3,-1>>, <<S>>, <<C,7>>, <<D>>, <<D>>, <<C,8>>, <<C>>, <<C,-1,-4>>, <<C>>, <<C,-1,-4>>,
              <<S,5,-3>>, <<S>>, <<B,5,0>>, <<S,4,-2>> >>, "completed")

(* The children have not quit yet. *)
Test28 ==
    [start1 |-> <<Prints, Forks(A, 2), Shows, Forks(B, 3), Shows, ForksTo("pid3", C, 4), ShowsAll(<<"pid3">>),
                  Prints, Joins, Shows, Prints, Joins, Shows, Prints, Joins, Shows, Quits(0)>>,
     XXp1   |-> <<Prints, Prints, Quits(-1)>>,
     XXp2   |-> <<Prints, Prints, ShowsAll(<<"pid3">>), Zaps("pid3"), ShowsAll(<<"pid3", "r">>), Quits(-2)>>,
     XXp3   |-> <<Prints, Prints, Forks(D, 5), Shows, Prints, Joins, Shows, Quits(-3)>>,
     XXp4   |-> <<Prints, Prints, Quits(-4)>>]
Expected28 ==
    Result(<< <<S>>, <<S,3>>, <<S,4>>, <<S,5>>, <<S>>, <<A>>, <<A>>, <<S,3,-1>>, <<S>>,
              <<B>>, <<B>>, <<B,5>>, <<C>>, <<C>>, <<C,6>>, <<C>>, <<D>>, <<D>>, <<C,-1,-4>>,
              <<S,5,-3>>, <<S>>, <<B,5,0>>, <<S,4,-2>> >>, "completed")

Test29 ==
    [start1 |-> <<Prints, ForksTo("pid1", A, 2), ShowsAll(<<"pid1">>), Forks(B, 3), Shows,
                  Prints, Joins, Shows, Prints, Joins, Shows, Quits(0)>>,
     XXp1   |-> <<Prints, Prints, Forks(C, 3), Shows, ShowsAll(<<"zapped">>), Joins, Shows,
                  ShowsAll(<<"zapped">>), Quits(-1)>>,
     XXp2   |-> <<Prints, Prints, ShowsAll(<<"pid1">>), Zaps("pid1"), ShowsAll(<<"pid1", "r">>), Quits(-2)>>,
     XXp3   |-> <<Prints, Prints, Quits(-3)>>]
Expected29 ==
    Result(<< <<S>>, <<S,3>>, <<S,4>>, <<S>>, <<A>>, <<A>>, <<A,5>>, <<A,0>>, <<B>>, <<B>>, <<B,3>>,
              <<C>>, <<C>>, <<A,-1,-3>>, <<A,1>>, <<S,3,-1>>, <<S>>, <<B,3,0>>, <<S,4,-2>> >>, "completed")

Test30 ==
    [start1 |-> <<Prints, ForksTo("pid1", A, 3), ShowsAll(<<"pid1">>), Prints, Joins, Shows, Quits(0)>>,
     XXp1   |-> <<Prints, Prints, ShowsAll(<<"pid1">>), Zaps("pid1"), Shows, Quits(-1)>>]
Expected30 == Result(<< <<S>>, <<S,3>>, <<S>>, <<A>>, <<A>>, <<A,3>> >>, "misuse")

Test31 ==
    [start1 |-> <<Prints, ForksTo("pid1", A, 3), ShowsAll(<<"pid1">>), ShowsAll(<<"pid">>), Zaps("pid"),
                  Prints, Joins, Shows, Quits(0)>>,
     XXp1   |-> <<Prints, Prints, Quits(-2)>>]
Expected31 == Result(<< <<S>>, <<S,3>>, <<S,2>> >>, "misuse")

(* Nobody has pid 4, or pid 204, whose slot is that of 4. *)
Test32 ==
    [start1 |-> <<Prints, Forks(A, 3), Shows, Prints, Joins, Shows, Quits(0)>>,
     XXp1   |-> <<ShowsAll(<<"pid">>), Prints, Prints, Prints, ZapsPid(4), Shows, Quits(-1)>>]
Expected32 == Result(<< <<S>>, <<S,3>>, <<S>>, <<A,3>>, <<A>>, <<A>>, <<A>> >>, "misuse")

Test33 ==
    [start1 |-> <<Prints, Forks(A, 5), Shows, Forks(A, 5), Shows, Prints, Joins, Shows,
                  Prints, Joins, Shows, Quits(0)>>,
     XXp1   |-> <<Prints, Prints, Prints, ZapsPid(204), Shows, Quits(-1)>>]
Expected33 == Result(<< <<S>>, <<S,3>>, <<S,4>>, <<S>>, <<A>>, <<A>>, <<A>> >>, "misuse")

(* XXp3 zaps XXp2, which has quit; in the second test as a zapped process. *)
Test34 ==
    [start1 |-> <<Prints, Forks(A, 4), Shows, Prints, Joins, Shows, Quits(0)>>,
     XXp1   |-> <<Prints, Prints, ForksTo("toZap", B, 3), ShowsAll(<<"toZap">>), Forks(C, 2), Shows,
                  Prints, Joins, Shows, Prints, Joins, Shows, Quits(-1)>>,
     XXp2   |-> <<Prints, Prints, Prints, Quits(-2)>>,
     XXp3   |-> <<Prints, Prints, ShowsAll(<<"toZap">>), Zaps("toZap"), ShowsAll(<<"toZap", "r">>), Quits(-3)>>]
Expected34 ==
    Result(<< <<S>>, <<S,3>>, <<S>>, <<A>>, <<A>>, <<B>>, <<B>>, <<B>>, <<A,4>>,
              <<C>>, <<C>>, <<C,4>>, <<C,4,0>>, <<A,5>>, <<A>>, <<A,4,-2>>, <<A>>, <<A,5,-3>>,
              <<S,3,-1>> >>, "completed")

Test35 ==
    [start1 |-> <<Prints, Forks(A, 4), Shows, Prints, Joins, Shows, Quits(0)>>,
     XXp1   |-> <<Prints, Prints, ForksTo("toZap", B, 3), ShowsAll(<<"toZap">>),
                  ForksTo("pid1", C, 5), ShowsAll(<<"pid1">>), ShowsAll(<<"pid1">>), Zaps("pid1"),
                  ShowsAll(<<"pid1", "r">>), Prints, Joins, Shows, Prints, Joins, Shows, Quits(-1)>>,
     XXp2   |-> <<Prints, Prints, Prints, Quits(-2)>>,
     XXp3   |-> <<Prints, Prints, ShowsAll(<<"toZap">>), Zaps("toZap"), ShowsAll(<<"toZap", "r">>), Quits(-3)>>]
Expected35 ==
    Result(<< <<S>>, <<S,3>>, <<S>>, <<A>>, <<A>>, <<B>>, <<B>>, <<B>>, <<A,4>>, <<A,5>>, <<A,5>>,
              <<C>>, <<C>>, <<C,4>>, <<C,4,-1>>, <<A,5,0>>, <<A>>, <<A,4,-2>>, <<A>>, <<A,5,-3>>,
              <<S,3,-1>> >>, "completed")

-----------------------------------------------------------------------------
Programs ==
    <<Test00, Test01, Test02, Test03, Test04, Test05, Test06, Test07, Test08, Test09, Test10, Test11,
      Test12, Test13, Test14, Test15, Test16, Test17, Test18, Test19, Test20, Test21, Test22, Test23,
      Test24, Test25, Test26, Test27, Test28, Test29, Test30, Test31, Test32, Test33, Test34, Test35>>

Expected ==
    <<Expected00, Expected01, Expected02, Expected03, Expected04, Expected05, Expected06, Expected07,
      Expected08, Expected09, Expected10, Expected11, Expected12, Expected13, Expected14, Expected15,
      Expected16, Expected17, Expected18, Expected19, Expected20, Expected21, Expected22, Expected23,
      Expected24, Expected25, Expected26, Expected27, Expected28, Expected29, Expected30, Expected31,
      Expected32, Expected33, Expected34, Expected35>>

(* Shared variables of the programs. *)
Variables == {"pid0", "pid1", "pid2", "pid3", "res0", "res1", "res2", "kidpid", "pid_e", "pid_z", "victim",
              "toZap"}
=============================================================================
