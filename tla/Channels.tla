------------------------------ MODULE Channels ------------------------------
(* What the mailboxes of phase 2 promise: each mailbox is a queue.  Every  *)
(* message that was accepted, the messages of blocked senders included, is *)
(* received once, in the order of acceptance, by the receiver that has     *)
(* waited longest; a message and a waiting receiver never miss each other. *)
EXTENDS Sequences

CONSTANTS Boxes, Procs, Messages, NoDelivery

VARIABLES
    open,       \* the mailboxes that exist
    queue,      \* mailbox -> messages accepted and not received, oldest first
    waiting,    \* mailbox -> processes that wait for a message, oldest first
    delivery    \* the last message received, and by whom

vars == <<open, queue, waiting, delivery>>

Delivery(p, x) == [to |-> p, message |-> x]

Init ==
    /\ open \in SUBSET Boxes
    /\ queue = [b \in Boxes |-> <<>>]
    /\ waiting = [b \in Boxes |-> <<>>]
    /\ delivery = NoDelivery

Open(b) ==
    /\ b \notin open
    /\ open' = open \cup {b}
    /\ UNCHANGED <<queue, waiting, delivery>>

Close(b) ==
    /\ b \in open
    /\ open' = open \ {b}
    /\ queue' = [queue EXCEPT ![b] = <<>>]
    /\ waiting' = [waiting EXCEPT ![b] = <<>>]
    /\ UNCHANGED delivery

Accept(b) ==
    /\ b \in open /\ waiting[b] = <<>>
    /\ UNCHANGED <<delivery, open, waiting>>
    /\ queue'[b] # queue[b]
    /\ \E x \in Messages : queue' = [queue EXCEPT ![b] = Append(@, x)]

(* A message goes to the receiver that has waited longest.                 *)
HandOver(b) ==
    /\ b \in open /\ waiting[b] # <<>>
    /\ waiting' = [waiting EXCEPT ![b] = Tail(@)]
    /\ \E x \in Messages : delivery' = Delivery(Head(waiting[b]), x)
    /\ UNCHANGED <<open, queue>>

(* The message does not fit: both the send and the receive fail.           *)
TooLarge(b) ==
    /\ b \in open /\ waiting[b] # <<>>
    /\ UNCHANGED <<delivery, open, queue>>
    /\ waiting' = [waiting EXCEPT ![b] = Tail(@)]

Take(p, b) ==
    /\ b \in open /\ queue[b] # <<>>
    /\ delivery' = Delivery(p, Head(queue[b]))
    /\ queue' = [queue EXCEPT ![b] = Tail(@)]
    /\ UNCHANGED <<open, waiting>>

Wait(p, b) ==
    /\ b \in open /\ queue[b] = <<>>
    /\ UNCHANGED <<delivery, open, queue>>
    /\ waiting' = [waiting EXCEPT ![b] = Append(@, p)]

Next ==
    \E b \in Boxes :
        \/ Open(b)
        \/ Close(b)
        \/ Accept(b) \/ HandOver(b) \/ TooLarge(b)
        \/ \E p \in Procs : Take(p, b) \/ Wait(p, b)

Spec == Init /\ [][Next]_vars
=============================================================================
