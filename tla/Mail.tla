-------------------------------- MODULE Mail --------------------------------
(* A mailbox of phase 2 as the phases above it use one: messages have no   *)
(* content, and a sender or receiver that cannot go on waits in line.      *)
(* sent holds the senders of the messages that nobody has received yet:    *)
(* the first `slots' of them are in slots, the others are blocked.         *)
(* Channels states that phase 2 provides such queues.                      *)
EXTENDS Naturals, Sequences

NewBox(slots) == [slots |-> slots, sent |-> <<>>, waiting |-> <<>>]

Boxes(P) == [slots : Nat, sent : Seq(P), waiting : Seq(P)]

(* The receiver that has waited longest is woken, or the message is kept.  *)
Sent(box, p) ==
    IF box.waiting # <<>> THEN [box EXCEPT !.waiting = Tail(@)]
    ELSE [box EXCEPT !.sent = Append(@, p)]

(* The oldest message is taken; the slot that it frees, or in a mailbox    *)
(* without slots the rendezvous, lets the first blocked sender go on.      *)
Received(box, p) ==
    IF box.sent # <<>> THEN [box EXCEPT !.sent = Tail(@)]
    ELSE [box EXCEPT !.waiting = Append(@, p)]

Receives(box, p) == \E i \in DOMAIN box.waiting : box.waiting[i] = p
Sends(box, p) == \E i \in DOMAIN box.sent : i > box.slots /\ box.sent[i] = p

(* p is blocked on the mailbox.                                            *)
WaitsOn(box, p) == Receives(box, p) \/ Sends(box, p)
=============================================================================
