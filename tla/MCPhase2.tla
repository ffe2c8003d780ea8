----------------------------- MODULE MCPhase2 -----------------------------
(* Small instances of Phase2.                                              *)
EXTENDS Phase2, TLC

ProcSymmetry == Permutations(Procs)

(* The arguments of a call are not read after it unless its process is on  *)
(* a list, and nothing that follows reads delivery: states that differ in  *)
(* these only are one.  This holds while no link leads to a process that   *)
(* is not blocked, that is, for careful programs.                          *)
LiveEntry(p) ==
    [nextBlockSend |-> MboxProcTable[p].nextBlockSend,
     nextBlockRecv |-> MboxProcTable[p].nextBlockRecv,
     arguments |-> IF p \in blocked THEN <<MboxProcTable[p].message, MboxProcTable[p].msgSize>>
                   ELSE <<>>]

LiveState ==
    <<MailBoxTable, SlotTable, [p \in Procs |-> LiveEntry(p)], clockCounter, blocked,
      zapped, intsOff, frame, halted>>
=============================================================================
