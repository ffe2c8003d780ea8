------------------------------ MODULE Scripts ------------------------------
(* How the test programs of the repository are written down.               *)
(*                                                                         *)
(* A program gives each function its calls in order.  A call leaves its    *)
(* result in the variable `to`; "r" is a local variable of the calling     *)
(* process, any other name is shared.  Of a printed line only who prints   *)
(* it and the pids, results and messages in it are kept: a line without    *)
(* any is its author alone.  Loops without calls and dumpProcesses are     *)
(* left out.                                                               *)
EXTENDS Integers, Sequences, SequencesExt

Does(call, f, n, vars, to) ==
    [call |-> call, f |-> f, n |-> n, size |-> 0, vars |-> vars, to |-> to]

(* Processes. *)
Forks(f, prio)        == Does("fork1", f, prio, <<>>, "r")
ForksTo(v, f, prio)   == Does("fork1", f, prio, <<>>, v)
ForksSmall(f, prio)   == Does("fork1 small", f, prio, <<>>, "r")
Joins                 == Does("join", "", 0, <<>>, "r")
Zaps(v)               == Does("zap", "", 0, <<v>>, "r")
ZapsPid(n)            == Does("zap pid", "", n, <<>>, "r")
BlocksMe(status)      == Does("blockMe", "", status, <<>>, "r")
Unblocks(v, to)       == Does("unblockProc", "", 0, <<v>>, to)
Quits(status)         == Does("quit", "", status, <<>>, "r")
QuitsMinusPid         == Does("quit pid", "", 0, <<>>, "r")
SpinsUntilZapped      == Does("spin", "", 0, <<>>, "r")
LeavesKernelMode      == Does("user mode", "", 0, <<>>, "r")
Traps                 == Does("system call", "", 0, <<>>, "r")

(* Mailboxes; n is the number of slots or the text that is sent.           *)
WithSize(op, size)       == [op EXCEPT !.size = size]
Creates(v, slots, size)  == WithSize(Does("MboxCreate", "", slots, <<>>, v), size)
Releases(v)              == Does("MboxRelease", "", 0, <<v>>, "r")
Sends(v, text, size)     == WithSize(Does("MboxSend", "", text, <<v>>, "r"), size)
CondSends(v, text, size) == WithSize(Does("MboxCondSend", "", text, <<v>>, "r"), size)
Receives(v, size)        == WithSize(Does("MboxReceive", "", 0, <<v>>, "r"), size)
CondReceives(v, size)    == WithSize(Does("MboxCondReceive", "", 0, <<v>>, "r"), size)

(* Prints nothing but text, the last result, or the given variables: "pid" *)
(* is getpid(), "zapped" is isZapped(), "kid" the pid that join returned,  *)
(* "size" and "text" the message that was received.                        *)
Prints                == Does("print", "", 0, <<>>, "r")
Shows                 == Does("print", "", 0, <<"r">>, "r")
ShowsKid              == Does("print", "", 0, <<"kid">>, "r")
ShowsAll(vars)        == Does("print", "", 0, vars, "r")
(* Prints only if the last result is n. *)
PrintsIf(n)           == Does("print if", "", n, <<>>, "r")
ShowsFailure          == Does("print if", "", -1, <<"kid">>, "r")

(* Loops.  One that depends on a result goes on while it is not negative.  *)
Times(n, calls) == FlattenSeq([i \in 1..n |-> calls])
ForEach(first, last, lines(_)) == FlattenSeq([i \in 1..(last - first + 1) |-> lines(first + i - 1)])

Sets(v, n)     == Does("set", "", n, <<>>, v)
Counts(v)      == Does("count", "", 0, <<>>, v)
Leaves(lines)  == Does("leave", "", lines, <<>>, "r")
Repeats(lines) == Does("repeat", "", lines, <<>>, "r")
WhileDoes(call, calls) ==
    <<call, Leaves(Len(calls) + 2)>> \o calls \o <<Repeats(Len(calls) + 2)>>

(* What a test prints, and how the machine stops: "completed", "deadlock", *)
(* or "misuse" when the kernel halts it.                                   *)
Result(lines, ends) == [lines |-> lines, ends |-> ends]
=============================================================================
