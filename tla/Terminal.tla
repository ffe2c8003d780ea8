------------------------------ MODULE Terminal ------------------------------
(* One terminal of phase 4 (src/phase4/phase4.c) with its three processes: *)
(* the driver takes what the device reports and passes it on without       *)
(* waiting, the reader makes lines of the characters typed, the writer     *)
(* puts lines out character by character.                                  *)
EXTENDS Integers, FiniteSets, Sequences, SequencesExt

CONSTANTS
    TerminalUsers,      \* programs that use the terminal
    Keys,               \* what is typed: "char" or "newline", in order
    MaxLine,            \* MAXLINE, 80 in the code
    MaxLines,           \* slots of readLines, 10 in the code
    Lengths,            \* lengths of the lines programs write
    MaxLinesWritten     \* bound: lines written

ASSUME TerminalAssumption ==
    /\ Keys \in Seq({"char", "newline"})
    /\ MaxLine \in Nat \ {0} /\ MaxLines \in Nat \ {0}
    /\ Lengths \subseteq Nat /\ MaxLinesWritten \in Nat

VARIABLES
    typed,          \* how many keys have been typed; a character is its number
    device,         \* what the device has received and sends, and whether it
                    \* asks for an interrupt
    termDriver,     \* the status the driver works on
    charIn,         \* characters for the reader
    reader,         \* the line it has got so far
    readLines,      \* complete lines
    writer,         \* where the writer stands, in whose line
    screen,         \* what the device has put out: <<process, line, number>>
    terminalUser,   \* process -> where it stands in termReadReal or termWriteReal
    written,        \* number of lines written so far (not in the code)
    linesRead,      \* what programs have read (not in the code)
    slips           \* what has gone wrong (not in the code)

terminalVars == <<typed, device, termDriver, charIn, reader, readLines, writer, screen,
                  terminalUser, written, linesRead, slips>>

NoStatus == [recv |-> 0, xmit |-> "none"]
Writing(loc, line, n, i) == [at |-> loc, line |-> line, length |-> n, put |-> i]
NoLine == Writing("writeLine", 0, 0, 0)
Using(loc, line, n) == [at |-> loc, line |-> line, length |-> n]
AtHome == Using("user", 0, 0)

TerminalInit ==
    /\ typed = 0
    /\ device = [recv |-> 0, sends |-> <<>>, interrupt |-> FALSE]
    /\ termDriver = NoStatus
    /\ charIn = <<>> /\ reader = <<>> /\ readLines = <<>>
    /\ writer = NoLine
    /\ screen = <<>>
    /\ terminalUser = [p \in TerminalUsers |-> AtHome]
    /\ written = 0 /\ linesRead = <<>> /\ slips = {}
-----------------------------------------------------------------------------
(* The device: a key is pressed, or the character it sends is out.  A key  *)
(* that nobody has asked for yet is overwritten by the next.               *)
Press ==
    /\ typed < Len(Keys) /\ typed' = typed + 1
    /\ device' = [device EXCEPT !.recv = typed', !.interrupt = TRUE]
    /\ slips' = IF device.recv # 0 THEN slips \cup {"keyLost"} ELSE slips
    /\ UNCHANGED <<termDriver, charIn, reader, readLines, writer, screen, terminalUser,
                   written, linesRead>>

Sent ==
    /\ device.sends # <<>>
    /\ screen' = Append(screen, device.sends)
    /\ device' = [device EXCEPT !.sends = <<>>, !.interrupt = TRUE]
    /\ UNCHANGED <<typed, termDriver, charIn, reader, readLines, writer, terminalUser,
                   written, linesRead, slips>>

(* termHandler reads the status and sends it to the driver, if it waits.   *)
TermHandler ==
    LET status == [recv |-> device.recv, xmit |-> IF device.sends = <<>> THEN "ready" ELSE "busy"]
    IN /\ device.interrupt
       /\ device' = [device EXCEPT !.recv = 0, !.interrupt = FALSE]
       /\ termDriver' = IF termDriver = NoStatus THEN status ELSE termDriver
       /\ slips' = IF termDriver = NoStatus THEN slips
                   ELSE slips \cup (IF device.recv # 0 THEN {"keyLost"} ELSE {})
                              \cup (IF status.xmit = "ready" THEN {"readyLost"} ELSE {})
       /\ UNCHANGED <<typed, charIn, reader, readLines, writer, screen, terminalUser,
                      written, linesRead>>

(* TermDriver hands on the character, if there is room, and tells the      *)
(* writer, if it waits, that the device is ready.                          *)
(* Mutant: a character replaces one that the reader has not taken. *)
MutantHandsOn(chars, c) == <<c>>
HandsOn(chars, c) == IF c # 0 /\ chars = <<>> THEN <<c>> ELSE chars

(* Mutant: a status that brings a character tells nothing of the other side. *)
MutantReady == termDriver.xmit = "ready" /\ termDriver.recv = 0
Ready == termDriver.xmit = "ready"

TermDriver ==
    LET early == Ready /\ writer.at = "charOut" /\ device.sends # <<>>
        missed == Ready /\ writer.at = "output"
    IN /\ termDriver # NoStatus
       /\ termDriver' = NoStatus
       /\ charIn' = HandsOn(charIn, termDriver.recv)
       /\ writer' = IF Ready /\ writer.at = "charOut"
                    THEN [writer EXCEPT !.at = "next"] ELSE writer
       /\ slips' = slips \cup (IF termDriver.recv # 0 /\ charIn # <<>> THEN {"keyLost"} ELSE {})
                         \cup (IF early THEN {"early"} ELSE {})
                         \cup (IF missed THEN {"readyLost"} ELSE {})
       /\ UNCHANGED <<typed, device, reader, readLines, screen, terminalUser, written, linesRead>>
-----------------------------------------------------------------------------
(* TermReader sends a line when it is complete or as long as a line may be, *)
(* if there is room for it.                                                *)
(* Mutant: only a newline ends a line. *)
MutantComplete(l) == Keys[Last(l)] = "newline"
Complete(l) == Keys[Last(l)] = "newline" \/ Len(l) >= MaxLine

TermReader ==
    LET l == Append(reader, Head(charIn))
        full == Len(readLines) = MaxLines
    IN /\ charIn # <<>>
       /\ charIn' = Tail(charIn)
       /\ reader' = IF Complete(l) THEN <<>> ELSE l
       /\ readLines' = IF Complete(l) /\ ~full THEN Append(readLines, l) ELSE readLines
       /\ slips' = IF Complete(l) /\ full THEN slips \cup {"lineLost"} ELSE slips
       /\ UNCHANGED <<typed, device, termDriver, writer, screen, terminalUser, written, linesRead>>

(* A program that reads waits until there is a line.                       *)
TermRead(p) ==
    /\ terminalUser[p].at = "user" /\ readLines # <<>>
    /\ readLines' = Tail(readLines)
    /\ linesRead' = Append(linesRead, Head(readLines))
    /\ UNCHANGED <<typed, device, termDriver, charIn, reader, writer, screen, terminalUser,
                   written, slips>>
-----------------------------------------------------------------------------
(* Mutant: a line of the greatest length is too long already. *)
MutantTooLong(n) == n >= MaxLine
TooLong(n) == n > MaxLine

(* termWriteReal: the send of a line that is too long fails, and the       *)
(* program waits for its count all the same.                               *)
TermWrite(p, n) ==
    /\ terminalUser[p].at = "user" /\ written < MaxLinesWritten
    /\ written' = written + 1
    /\ terminalUser' = [terminalUser EXCEPT
          ![p] = Using(IF TooLong(n) THEN "counting" ELSE "writing", written', n)]
    /\ UNCHANGED <<typed, device, termDriver, charIn, reader, readLines, writer, screen,
                   linesRead, slips>>

(* The mailboxes writeLine and userWriteBoxes have no slots: the writer    *)
(* takes the line from a program that sends ...                            *)
WriterGetsLine(p) ==
    /\ writer.at = "writeLine" /\ terminalUser[p].at = "writing"
    /\ writer' = Writing("next", terminalUser[p].line, terminalUser[p].length, 0)
    /\ terminalUser' = [terminalUser EXCEPT ![p].at = "counting"]
    /\ UNCHANGED <<typed, device, termDriver, charIn, reader, readLines, screen, written,
                   linesRead, slips>>

(* ... gives the device a character at a time and waits for it ...         *)
(* A character given to a device that still sends is lost.                 *)
WriterPuts ==
    LET i == writer.put + 1
    IN /\ writer.at = "next" /\ writer.put < writer.length
       /\ writer' = [writer EXCEPT !.at = "output", !.put = i]
       /\ device' = IF device.sends = <<>> THEN [device EXCEPT !.sends = <<writer.line, i>>] ELSE device
       /\ UNCHANGED <<typed, termDriver, charIn, reader, readLines, screen, terminalUser,
                      written, linesRead, slips>>

(* Mutant: the writer does not wait for the character to be out. *)
MutantPutOut == [writer EXCEPT !.at = "next"]
PutOut == [writer EXCEPT !.at = "charOut"]

WriterWaits ==
    /\ writer.at = "output"
    /\ writer' = PutOut
    /\ UNCHANGED <<typed, device, termDriver, charIn, reader, readLines, screen, terminalUser,
                   written, linesRead, slips>>

(* ... and sends the count to whoever waits for one.                       *)
WriterSendsCount(p) ==
    /\ writer.at = "next" /\ writer.put = writer.length
    /\ terminalUser[p].at = "counting"
    /\ terminalUser' = [terminalUser EXCEPT ![p] = AtHome]
    /\ writer' = NoLine
    /\ UNCHANGED <<typed, device, termDriver, charIn, reader, readLines, screen, written,
                   linesRead, slips>>
-----------------------------------------------------------------------------
TermWriter ==
    \/ WriterPuts \/ WriterWaits
    \/ \E p \in TerminalUsers : WriterGetsLine(p) \/ WriterSendsCount(p)

(* What follows a second mishap is left out.                               *)
Slipping == Cardinality(slips) <= 1

TerminalNext ==
    /\ Slipping
    /\ \/ Press \/ Sent \/ TermHandler
       \/ TermDriver \/ TermReader \/ TermWriter
       \/ \E p \in TerminalUsers : TermRead(p) \/ \E n \in Lengths : TermWrite(p, n)

TerminalSpec == TerminalInit /\ [][TerminalNext]_terminalVars
-----------------------------------------------------------------------------
TerminalTypeOK ==
    /\ typed \in 0..Len(Keys)
    /\ device.recv \in 0..Len(Keys) /\ device.interrupt \in BOOLEAN
    /\ Len(charIn) <= 1 /\ Len(reader) < MaxLine /\ Len(readLines) <= MaxLines
    /\ \A l \in ToSet(readLines) : Len(l) \in 1..MaxLine
    /\ writer.at \in {"writeLine", "next", "output", "charOut"} /\ writer.put \in 0..writer.length
    /\ terminalUser \in [TerminalUsers -> [at : {"user", "writing", "counting"},
                                   line : 0..MaxLinesWritten, length : Nat]]
    /\ slips \subseteq {"keyLost", "lineLost", "readyLost", "early"}

(* Everything that is on its way to the programs or has been read.  The     *)
(* characters before line k are those up to the last one of line k - 1.    *)
Lines == linesRead \o readLines
Before(k) == IF k = 1 THEN 0 ELSE Last(Lines[k - 1])
Held(c) == IF c = 0 THEN <<>> ELSE <<c>>
Coming == reader \o charIn \o Held(termDriver.recv) \o Held(device.recv)

(* What is typed reaches the programs in order and in whole lines, through  *)
(* the device, the driver, the reader and the mailboxes, except for what    *)
(* one of them had no room for.                                            *)
InputKept ==
    slips \cap {"keyLost", "lineLost"} = {} =>
        LET ended == Before(Len(Lines) + 1)
        IN /\ \A k \in 1..Len(Lines) : \A i \in 1..Len(Lines[k]) : Lines[k][i] = Before(k) + i
           /\ Coming = [i \in 1..typed - ended |-> ended + i]

(* However many write, a program that waits for its count is the one whose *)
(* line the writer has.                                                    *)
CountIsOwn ==
    \A p \in TerminalUsers : terminalUser[p].at = "counting" => writer.line = terminalUser[p].line

(* Lines are put out whole and one after the other, as far as the writer   *)
(* is not told that the device is ready before it is.                      *)
OutputWhole ==
    "early" \notin slips =>
        /\ \A i \in 1..Len(screen) - 1 :
              \/ screen[i + 1] = <<screen[i][1], screen[i][2] + 1>>
              \/ screen[i + 1][1] # screen[i][1] /\ screen[i + 1][2] = 1
        /\ writer.at = "next" /\ writer.put > 0 =>
              screen # <<>> /\ Last(screen) = <<writer.line, writer.put>>

(* A writer that waits for a character to be out will hear of it: the      *)
(* device still sends it, an interrupt is due, or the driver has the       *)
(* status; unless the device was ready while nobody waited to be told.     *)
WriterWillHear ==
    writer.at = "charOut" /\ slips \cap {"readyLost", "early"} = {} =>
        \/ device.sends = <<writer.line, writer.put>>
        \/ device.interrupt
        \/ termDriver.xmit = "ready"
=============================================================================
