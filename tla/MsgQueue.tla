----------------------------- MODULE MsgQueue ------------------------------
(***************************************************************************)
(* System V style message queues: kernel/ipc/msg.c, called from            *)
(* syscall_handler.  int 0x80 is an interrupt gate, so each call runs to   *)
(* its end (sys_msgsnd enables interrupts only after its last store) and   *)
(* is one step.  A message is its type and a payload; the bytes are not    *)
(* modelled.                                                               *)
(***************************************************************************)
EXTENDS Integers, Sequences

CONSTANTS
    MSGQUEUE_MAX,       \* number of queues, and of messages in one (16)
    Keys,               \* keys callers use, positive numbers
    Types,              \* message types, positive numbers
    Payload,            \* what a message can carry
    MAX_ID,             \* bound: alloc_msgqueue is called at most so often
    None                \* the content of a slot no message was written to

ASSUME MsgQueueAssumption ==
    /\ MSGQUEUE_MAX \in Nat \ {0}
    /\ Keys \subseteq Nat \ {0}
    /\ Types \subseteq Nat \ {0}
    /\ MAX_ID \in Nat
    /\ None \notin [mtype : Types, mtext : Payload]

VARIABLES
    msgqueues,          \* array of struct msg_queue
    next_msgqueue_id,
    ret,                \* result of the last system call
    received            \* message the last successful sys_msgrcv delivered

vars == <<msgqueues, next_msgqueue_id, ret, received>>

Index == 0..(MSGQUEUE_MAX - 1)
Msg == [mtype : Types, mtext : Payload]
msg_queue == [key : Keys \cup {0}, id : 0..MAX_ID, messages : [Index -> Msg \cup {None}],
              head : Index, tail : Index, count : 0..MSGQUEUE_MAX]

TypeOK ==
    /\ msgqueues \in [Index -> msg_queue]
    /\ next_msgqueue_id \in 1..(MAX_ID + 1)
    /\ ret \in Int
    /\ received \in Msg \cup {None}

\* msgqueues is zeroed storage, which is what msg_init would make of it.
Init ==
    /\ msgqueues = [i \in Index |-> [key |-> 0, id |-> 0, messages |-> [j \in Index |-> None],
                                     head |-> 0, tail |-> 0, count |-> 0]]
    /\ next_msgqueue_id = 1
    /\ ret = 0
    /\ received = None

First(S) == CHOOSE i \in S : \A j \in S : i <= j

Fail == ret' = -1 /\ UNCHANGED <<msgqueues, next_msgqueue_id, received>>

\* Faulty variant: the next id is not advanced.
AllocSameId ==
    /\ next_msgqueue_id <= MAX_ID
    /\ \E i \in Index : msgqueues[i].id = 0
    /\ LET i == First({j \in Index : msgqueues[j].id = 0})
       IN  msgqueues' = [msgqueues EXCEPT ![i].id = next_msgqueue_id]
    /\ UNCHANGED <<next_msgqueue_id, ret, received>>

\* Takes the first free slot.  Nothing in the repository calls it.
alloc_msgqueue ==
    /\ next_msgqueue_id <= MAX_ID
    /\ \E i \in Index : msgqueues[i].id = 0
    /\ LET i == First({j \in Index : msgqueues[j].id = 0})
       IN  msgqueues' = [msgqueues EXCEPT ![i].id = next_msgqueue_id]
    /\ next_msgqueue_id' = next_msgqueue_id + 1
    /\ UNCHANGED <<ret, received>>

\* Slots get_msgqueue can return for an id; the first of them is returned.
get_msgqueue(msqid) == {i \in Index : msqid > 0 /\ msgqueues[i].id = msqid}

\* find_msgqueue returns the queue with the key; failing that, with IPC_CREAT,
\* the first free slot, reset and given the key.  Its id stays 0.
sys_msgget(key, IPC_CREAT) ==
    LET known == {i \in Index : msgqueues[i].id # 0 /\ msgqueues[i].key = key}
        empty == {i \in Index : msgqueues[i].id = 0}
    IN  \/ /\ known # {}
           /\ ret' = msgqueues[First(known)].id
           /\ UNCHANGED <<msgqueues, next_msgqueue_id, received>>
        \/ /\ known = {} /\ IPC_CREAT /\ empty # {}
           /\ msgqueues' = [msgqueues EXCEPT ![First(empty)] =
                  [@ EXCEPT !.key = key, !.head = 0, !.tail = 0, !.count = 0]]
           /\ ret' = msgqueues[First(empty)].id
           /\ UNCHANGED <<next_msgqueue_id, received>>
        \/ /\ known = {} /\ (~IPC_CREAT \/ empty = {})
           /\ Fail

Full(mq) == mq.count >= MSGQUEUE_MAX

\* fits: msgsz <= MSG_SIZE_MAX.  A full queue is an error with or without
\* IPC_NOWAIT.
Sendable(msqid, fits) ==
    /\ get_msgqueue(msqid) # {}
    /\ fits
    /\ ~Full(msgqueues[First(get_msgqueue(msqid))])

sys_msgsnd(msqid, msg, fits) ==
    \/ ~Sendable(msqid, fits) /\ Fail
    \/ /\ Sendable(msqid, fits)
       /\ LET i == First(get_msgqueue(msqid))
              mq == msgqueues[i]
          IN  msgqueues' = [msgqueues EXCEPT ![i] =
                  [mq EXCEPT !.messages = [@ EXCEPT ![mq.tail] = msg],
                             !.tail = (mq.tail + 1) % MSGQUEUE_MAX,
                             !.count = mq.count + 1]]
       /\ ret' = 0
       /\ UNCHANGED <<next_msgqueue_id, received>>

\* The first of count positions from head whose message has the type asked
\* for; the result is a set, empty when there is none.
Found(mq, msgtyp) ==
    LET at(n) == (mq.head + n) % MSGQUEUE_MAX
        hits == {n \in 0..(mq.count - 1) : msgtyp = 0 \/ mq.messages[at(n)].mtype = msgtyp}
    IN  {at(n) : n \in {k \in hits : \A j \in hits : k <= j}}

\* Faulty variant: tail is not reset with head.
RemovedKeepTail(mq, index) ==
    IF mq.count = 1
    THEN [mq EXCEPT !.count = 0, !.head = 0]
    ELSE [mq EXCEPT !.count = @ - 1, !.head = (index + 1) % MSGQUEUE_MAX]

\* The queue after the message at index was taken out.
Removed(mq, index) ==
    IF mq.count = 1
    THEN [mq EXCEPT !.count = 0, !.head = 0, !.tail = 0]
    ELSE [mq EXCEPT !.count = @ - 1, !.head = (index + 1) % MSGQUEUE_MAX]

\* An empty queue, and one with no message of the type, are errors with or
\* without IPC_NOWAIT.
Receivable(msqid, msgtyp) ==
    IF get_msgqueue(msqid) = {} THEN {}
    ELSE Found(msgqueues[First(get_msgqueue(msqid))], msgtyp)

sys_msgrcv(msqid, msgtyp) ==
    \/ Receivable(msqid, msgtyp) = {} /\ Fail
    \/ \E index \in Receivable(msqid, msgtyp) :
          /\ LET i == First(get_msgqueue(msqid))
             IN  /\ received' = msgqueues[i].messages[index]
                 /\ msgqueues' = [msgqueues EXCEPT ![i] = Removed(@, index)]
          /\ ret' = 1      \* msgsz, a positive size
          /\ UNCHANGED next_msgqueue_id

\* Faulty variant: the ring is left as it was.
RmidKeepRing(mq) == [mq EXCEPT !.id = 0, !.key = 0]

Rmid(mq) == [mq EXCEPT !.id = 0, !.key = 0, !.head = 0, !.tail = 0, !.count = 0]

\* IPC_RMID; IPC_STAT only reports, and fails without a buffer to report to
\* (buf: it is not NULL); IPC_SET and other commands fail.
sys_msgctl(msqid, cmd, buf) ==
    \/ /\ \/ get_msgqueue(msqid) = {}
          \/ cmd = "IPC_STAT" /\ ~buf
          \/ cmd \notin {"IPC_RMID", "IPC_STAT"}
       /\ Fail
    \/ /\ get_msgqueue(msqid) # {} /\ cmd = "IPC_STAT" /\ buf
       /\ ret' = 0
       /\ UNCHANGED <<msgqueues, next_msgqueue_id, received>>
    \/ /\ get_msgqueue(msqid) # {} /\ cmd = "IPC_RMID"
       /\ msgqueues' = [msgqueues EXCEPT ![First(get_msgqueue(msqid))] = Rmid(@)]
       /\ ret' = 0
       /\ UNCHANGED <<next_msgqueue_id, received>>

\* The message asked for, if there is one, is the oldest in its queue.
AtHead(msqid, msgtyp) ==
    \A i \in get_msgqueue(msqid) : Receivable(msqid, msgtyp) \subseteq {msgqueues[i].head}

\* The cases of syscall_handler that reach msg.c, where receivers may take a
\* message from the middle of a queue or only the oldest one.
Syscall(middle) ==
    \/ \E key \in Keys, creat \in BOOLEAN : sys_msgget(key, creat)
    \/ \E msqid \in 0..MAX_ID :
          \/ \E msg \in Msg, fits \in BOOLEAN : sys_msgsnd(msqid, msg, fits)
          \/ \E msgtyp \in Types \cup {0} :
                (middle \/ AtHead(msqid, msgtyp)) /\ sys_msgrcv(msqid, msgtyp)
          \/ \E cmd \in {"IPC_RMID", "IPC_STAT", "IPC_SET"}, buf \in BOOLEAN :
                sys_msgctl(msqid, cmd, buf)

\* alloc_msgqueue is what gives a queue its id.
Next == alloc_msgqueue \/ Syscall(FALSE)
Spec == Init /\ [][Next]_vars

\* The same with receivers that select any message by its type.
TypedNext == alloc_msgqueue \/ Syscall(TRUE)

-----------------------------------------------------------------------------
(* Properties.                                                             *)

\* tail is where the next message goes, count places after head, in every
\* queue: sys_msgsnd never overwrites a message that was not received.  It
\* holds of Spec; a sys_msgrcv from the middle of a queue breaks it (TypedNext).
RingConsistent ==
    \A i \in Index : msgqueues[i].tail = (msgqueues[i].head + msgqueues[i].count) % MSGQUEUE_MAX

\* The rings are consistent and live queues have different ids, so get_msgqueue's
\* answer does not depend on the order of the array, also after queues were
\* removed and slots reused.
QueuesConsistent ==
    /\ TypeOK
    /\ RingConsistent
    /\ \A i, j \in Index :
          msgqueues[i].id = msgqueues[j].id /\ msgqueues[i].id # 0 => i = j

\* The messages in a queue, oldest first.
Contents(mq) == [n \in 1..mq.count |-> mq.messages[(mq.head + n - 1) % MSGQUEUE_MAX]]

\* The ring buffers implement bounded first-in first-out queues: nothing is
\* lost, repeated or reordered by sys_msgsnd and sys_msgrcv, a removed queue
\* leaves nothing behind for the next one in its slot.
Fifo == INSTANCE MsgFifo WITH
    Queue <- Index, Capacity <- MSGQUEUE_MAX,
    open <- {i \in Index : msgqueues[i].id # 0},
    chan <- [i \in Index |-> Contents(msgqueues[i])],
    got <- received

ImplementsFifo == Fifo!Spec

-----------------------------------------------------------------------------
(* What comments in the source say and the code does not do.               *)

\* "If IPC_CREAT is set and key doesn't exist, we create it": a slot that was
\* given a key is a queue, so its id is not the 0 that is reserved for invalid.
CreatedHasId == \A i \in Index : msgqueues[i].key # 0 => msgqueues[i].id # 0

=============================================================================
