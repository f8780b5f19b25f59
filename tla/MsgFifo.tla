------------------------------ MODULE MsgFifo ------------------------------
(***************************************************************************)
(* What a set of bounded message queues promises: a queue is opened empty, *)
(* a message is put at its end, and the oldest message is taken out.       *)
(***************************************************************************)
EXTENDS Naturals, Sequences

CONSTANTS Queue, Msg, Capacity, None

VARIABLES
    open,       \* queues that exist
    chan,       \* messages in each queue, oldest first
    got         \* message handed out last, None at first

vars == <<open, chan, got>>

Init ==
    /\ open = {}
    /\ chan = [q \in Queue |-> <<>>]
    /\ got = None

Open(q) ==
    /\ q \notin open
    /\ open' = open \cup {q}
    /\ UNCHANGED <<chan, got>>

Send(q, m) ==
    /\ q \in open
    /\ Len(chan[q]) < Capacity
    /\ chan' = [chan EXCEPT ![q] = Append(@, m)]
    /\ UNCHANGED <<open, got>>

Receive(q) ==
    /\ q \in open
    /\ chan[q] # <<>>
    /\ got' = Head(chan[q])
    /\ chan' = [chan EXCEPT ![q] = Tail(@)]
    /\ UNCHANGED open

Remove(q) ==
    /\ q \in open
    /\ open' = open \ {q}
    /\ chan' = [chan EXCEPT ![q] = <<>>]
    /\ UNCHANGED got

Next == \E q \in Queue : Open(q) \/ (\E m \in Msg : Send(q, m)) \/ Receive(q) \/ Remove(q)

Spec == Init /\ [][Next]_vars

=============================================================================
