--------------------------- MODULE ServiceProofs ----------------------------
(***************************************************************************)
(* Services of the kernel.  The ring buffers of msg.c implement bounded    *)
(* first-in first-out queues, for any number of queues, messages, keys and *)
(* types; no line stays in service after its interrupt handler has         *)
(* returned; and a sleep lasts as long as was asked.                       *)
(***************************************************************************)
EXTENDS MsgQueue, Interrupts, Timer, SequenceTheorems, WellFoundedInduction, TLAPS

\* Time for the provers.
USE SMTT(20), ZenonT(20)

-----------------------------------------------------------------------------
(* The message queues.                                                     *)

\* Positions in a ring are sums of two of its indices.
LEMMA Wrap ==
    ASSUME NEW n \in Nat \ {0}, NEW x \in 0..(2 * n - 1)
    PROVE  x % n = IF x < n THEN x ELSE x - n
<1>1. CASE x < n
  BY <1>1
<1>2. CASE x >= n
  <2> DEFINE r == x - n
  <2>1. r \in 0..(n - 1) /\ x = n * 1 + r
    BY <1>2
  <2>2. x % n = r
    BY <2>1
  <2> QED BY <1>2, <2>2
<1> QED BY <1>1, <1>2

\* The place after count places is one further on, and is none of those.
LEMMA PlaceAfter ==
    ASSUME NEW n \in Nat \ {0}, NEW head \in 0..(n - 1), NEW count \in 0..(n - 1)
    PROVE  /\ (((head + count) % n) + 1) % n = (head + (count + 1)) % n
           /\ \A k \in 1..count : (head + k - 1) % n # (head + count) % n
<1> DEFINE w(x) == IF x < n THEN x ELSE x - n
<1>1. \A x \in 0..(2 * n - 1) : x % n = w(x)
  BY Zenon, Wrap
<1>2. head + count \in 0..(2 * n - 1) /\ head + (count + 1) \in 0..(2 * n - 1)
  OBVIOUS
<1>3. w(head + count) + 1 \in 0..(2 * n - 1)
  BY <1>2
<1>4. w(w(head + count) + 1) = w(head + (count + 1))
  BY <1>2
<1>5. ASSUME NEW k \in 1..count
      PROVE  (head + k - 1) % n # (head + count) % n
  <2>1. head + k - 1 \in 0..(2 * n - 1) /\ w(head + k - 1) # w(head + count)
    BY <1>2
  <2> QED BY <1>1, <1>2, <2>1
<1> QED BY <1>1, <1>2, <1>3, <1>4, <1>5

\* Counted from one place further on, the places are the same but the first.
LEMMA PlacesAfterFirst ==
    ASSUME NEW n \in Nat \ {0}, NEW head \in 0..(n - 1), NEW count \in 1..n
    PROVE  /\ (((head + 1) % n) + (count - 1)) % n = (head + count) % n
           /\ \A k \in 1..(count - 1) :
                 (((head + 1) % n) + k - 1) % n = (head + (k + 1) - 1) % n
<1> DEFINE w(x) == IF x < n THEN x ELSE x - n
<1>1. \A x \in 0..(2 * n - 1) : x % n = w(x)
  BY Zenon, Wrap
<1>2. ASSUME NEW k \in 1..count
      PROVE  (((head + 1) % n) + (k - 1)) % n = (head + k) % n
  <2>1. /\ head + 1 \in 0..(2 * n - 1) /\ head + k \in 0..(2 * n - 1)
        /\ w(head + 1) + (k - 1) \in 0..(2 * n - 1)
        /\ w(w(head + 1) + (k - 1)) = w(head + k)
    OBVIOUS
  <2> QED BY <1>1, <2>1
<1>3. ASSUME NEW k \in 1..(count - 1)
      PROVE  (((head + 1) % n) + k - 1) % n = (head + (k + 1) - 1) % n
  <2>1. (head + 1) % n \in Nat /\ k \in 1..count
    OBVIOUS
  <2>2. ((head + 1) % n) + k - 1 = ((head + 1) % n) + (k - 1) /\ head + (k + 1) - 1 = head + k
    BY <2>1
  <2> QED BY <1>2, <2>1, <2>2
<1> QED BY <1>2, <1>3

\* A queue whose tail agrees with its head and count.
RingOK(mq) == mq \in msg_queue /\ mq.tail = (mq.head + mq.count) % MSGQUEUE_MAX

\* The contents of a queue are a sequence of count elements.
LEMMA ContentsSeq ==
    ASSUME NEW mq \in msg_queue
    PROVE  /\ Contents(mq) \in Seq(Msg \cup {None})
           /\ Len(Contents(mq)) = mq.count
           /\ \A n \in 1..mq.count :
                 Contents(mq)[n] = mq.messages[(mq.head + n - 1) % MSGQUEUE_MAX]
<1>1. mq.count \in 0..MSGQUEUE_MAX /\ mq.head \in Index /\ MSGQUEUE_MAX \in Nat \ {0}
      /\ mq.messages \in [Index -> Msg \cup {None}]
  BY MsgQueueAssumption DEF msg_queue
<1>2. \A n \in 1..mq.count : (mq.head + n - 1) % MSGQUEUE_MAX \in Index
  BY <1>1 DEF Index
<1>3. Contents(mq) \in [1..mq.count -> Msg \cup {None}]
  BY <1>1, <1>2 DEF Contents
<1>4. \A n \in 1..mq.count :
         Contents(mq)[n] = mq.messages[(mq.head + n - 1) % MSGQUEUE_MAX]
  BY DEF Contents
<1> HIDE DEF Contents
<1>5. Contents(mq) \in Seq(Msg \cup {None}) /\ Len(Contents(mq)) = mq.count
  BY <1>1, <1>3
<1> QED BY <1>4, <1>5

\* An empty queue has no contents.
LEMMA ContentsEmpty ==
    ASSUME NEW mq \in msg_queue
    PROVE  Contents(mq) = <<>> <=> mq.count = 0
  BY ContentsSeq, EmptySeq DEF msg_queue

\* The queue sys_msgsnd leaves behind.
Sent(mq, msg) ==
    [mq EXCEPT !.messages = [@ EXCEPT ![mq.tail] = msg],
               !.tail = (mq.tail + 1) % MSGQUEUE_MAX,
               !.count = mq.count + 1]

\* Its fields.
LEMMA SentFields ==
    ASSUME NEW mq \in msg_queue, NEW msg \in Msg, ~Full(mq), RingOK(mq)
    PROVE  /\ Sent(mq, msg) \in msg_queue /\ RingOK(Sent(mq, msg))
           /\ Sent(mq, msg).id = mq.id /\ Sent(mq, msg).head = mq.head
           /\ Sent(mq, msg).count = mq.count + 1
           /\ Sent(mq, msg).messages = [mq.messages EXCEPT ![mq.tail] = msg]
<1> USE MsgQueueAssumption DEF Index
<1>1. /\ mq.count \in 0..(MSGQUEUE_MAX - 1) /\ mq.head \in Index /\ mq.tail \in Index
      /\ mq.tail = (mq.head + mq.count) % MSGQUEUE_MAX
  BY DEF msg_queue, Full, RingOK
<1>2. /\ Sent(mq, msg).id = mq.id /\ Sent(mq, msg).head = mq.head
      /\ Sent(mq, msg).count = mq.count + 1
      /\ Sent(mq, msg).tail = (mq.tail + 1) % MSGQUEUE_MAX
      /\ Sent(mq, msg).messages = [mq.messages EXCEPT ![mq.tail] = msg]
  BY DEF Sent, msg_queue
<1>3. (mq.tail + 1) % MSGQUEUE_MAX \in Index
  BY <1>1
<1>4. Sent(mq, msg) \in msg_queue
  <2>1. [mq.messages EXCEPT ![mq.tail] = msg] \in [Index -> Msg \cup {None}]
    BY <1>1 DEF msg_queue
  <2>2. mq.count + 1 \in 0..MSGQUEUE_MAX
    BY <1>1
  <2> QED BY Zenon, <1>1, <1>3, <2>1, <2>2 DEF Sent, msg_queue
<1>5. (mq.tail + 1) % MSGQUEUE_MAX = (mq.head + (mq.count + 1)) % MSGQUEUE_MAX
  <2>1. \A n \in Nat \ {0} : \A head \in 0..(n - 1), count \in 0..(n - 1) :
           (((head + count) % n) + 1) % n = (head + (count + 1)) % n
    BY PlaceAfter
  <2>2. (((mq.head + mq.count) % MSGQUEUE_MAX) + 1) % MSGQUEUE_MAX
           = (mq.head + (mq.count + 1)) % MSGQUEUE_MAX
    BY <1>1, <2>1, Zenon
  <2> QED BY <1>1, <2>2, Zenon
<1> QED BY <1>1, <1>2, <1>4, <1>5 DEF RingOK

\* sys_msgsnd puts the message at the end and overwrites none of the others.
LEMMA SentContents ==
    ASSUME NEW mq \in msg_queue, NEW msg \in Msg, ~Full(mq), RingOK(mq)
    PROVE  Contents(Sent(mq, msg)) = Append(Contents(mq), msg)
<1> DEFINE new == Sent(mq, msg)
           S == Msg \cup {None}
<1> USE MsgQueueAssumption DEF Index
<1>1. /\ mq.count \in 0..(MSGQUEUE_MAX - 1) /\ mq.head \in Index /\ mq.tail \in Index
      /\ mq.tail = (mq.head + mq.count) % MSGQUEUE_MAX
      /\ mq.messages \in [Index -> S]
  BY DEF msg_queue, Full, RingOK
<1>2. /\ new \in msg_queue /\ new.head = mq.head /\ new.count = mq.count + 1
      /\ new.messages = [mq.messages EXCEPT ![mq.tail] = msg]
  BY SentFields
<1> HIDE DEF new
<1>3. /\ Contents(mq) \in Seq(S) /\ Len(Contents(mq)) = mq.count
      /\ \A n \in 1..mq.count :
            Contents(mq)[n] = mq.messages[(mq.head + n - 1) % MSGQUEUE_MAX]
  BY ContentsSeq
<1>4. /\ Contents(new) \in Seq(S) /\ Len(Contents(new)) = mq.count + 1
      /\ \A n \in 1..(mq.count + 1) :
            Contents(new)[n] = new.messages[(mq.head + n - 1) % MSGQUEUE_MAX]
  BY Zenon, <1>2, ContentsSeq
<1>5. /\ Append(Contents(mq), msg) \in Seq(S)
      /\ Len(Append(Contents(mq), msg)) = mq.count + 1
      /\ \A n \in 1..mq.count : Append(Contents(mq), msg)[n] = Contents(mq)[n]
      /\ Append(Contents(mq), msg)[mq.count + 1] = msg
  BY <1>1, <1>3, AppendProperties
<1>6. ASSUME NEW n \in 1..mq.count PROVE Contents(new)[n] = Contents(mq)[n]
  <2>1. (mq.head + n - 1) % MSGQUEUE_MAX \in Index
    BY <1>1
  <2>2. (mq.head + n - 1) % MSGQUEUE_MAX # mq.tail
    <3>1. \A k \in 1..mq.count :
             (mq.head + k - 1) % MSGQUEUE_MAX # (mq.head + mq.count) % MSGQUEUE_MAX
      BY Zenon, <1>1, PlaceAfter
    <3> QED BY <1>1, <3>1
  <2>3. n \in 1..(mq.count + 1)
    BY <1>1
  <2>4. /\ Contents(new)[n] = new.messages[(mq.head + n - 1) % MSGQUEUE_MAX]
        /\ Contents(mq)[n] = mq.messages[(mq.head + n - 1) % MSGQUEUE_MAX]
    BY Zenon, <1>3, <1>4, <2>3
  <2>5. \A k \in Index : k # mq.tail => new.messages[k] = mq.messages[k]
    BY Zenon, <1>1, <1>2
  <2> QED BY Zenon, <2>1, <2>2, <2>4, <2>5
<1>7. Contents(new)[mq.count + 1] = msg
  <2>1. mq.head + (mq.count + 1) - 1 = mq.head + mq.count
    BY <1>1
  <2>2. mq.count + 1 \in 1..(mq.count + 1)
    BY <1>1
  <2>3. Contents(new)[mq.count + 1] =
           new.messages[(mq.head + (mq.count + 1) - 1) % MSGQUEUE_MAX]
    BY <1>4, <2>2
  <2>4. Contents(new)[mq.count + 1] = new.messages[mq.tail]
    BY <1>1, <2>1, <2>3
  <2> QED BY <1>1, <1>2, <2>4
<1>8. \A n \in 1..(mq.count + 1) : Contents(new)[n] = Append(Contents(mq), msg)[n]
  BY <1>1, <1>5, <1>6, <1>7
<1>9. Contents(new) = Append(Contents(mq), msg)
  BY <1>4, <1>5, <1>8, SeqEqual
<1> QED BY <1>9 DEF new

\* Taking the oldest message out keeps tail, head and count in agreement.
LEMMA RemovedRing ==
    ASSUME NEW mq \in msg_queue, RingOK(mq), mq.count # 0
    PROVE  /\ Removed(mq, mq.head) \in msg_queue /\ RingOK(Removed(mq, mq.head))
           /\ Removed(mq, mq.head).id = mq.id
           /\ Removed(mq, mq.head).count = mq.count - 1
           /\ mq.count # 1 => /\ Removed(mq, mq.head).messages = mq.messages
                              /\ Removed(mq, mq.head).head = (mq.head + 1) % MSGQUEUE_MAX
<1> DEFINE new == Removed(mq, mq.head)
<1> USE MsgQueueAssumption DEF Index
<1>1. /\ mq.count \in 1..MSGQUEUE_MAX /\ mq.head \in Index /\ mq.tail \in Index
      /\ mq.tail = (mq.head + mq.count) % MSGQUEUE_MAX
  BY DEF msg_queue, RingOK
<1>2. CASE mq.count = 1
  <2>1. new = [mq EXCEPT !.count = 0, !.head = 0, !.tail = 0]
    BY <1>2 DEF Removed
  <2>2. /\ new.id = mq.id
        /\ new.count = 0 /\ new.head = 0 /\ new.tail = 0
    BY <2>1 DEF msg_queue
  <2>3. 0 \in Index /\ 0 \in 0..MSGQUEUE_MAX /\ (0 + 0) % MSGQUEUE_MAX = 0
    BY Wrap
  <2>4. new \in msg_queue
    BY Zenon, <2>1, <2>3 DEF msg_queue
  <2> QED BY <1>2, <2>2, <2>3, <2>4 DEF RingOK
<1>3. CASE mq.count # 1
  <2>1. new = [mq EXCEPT !.count = @ - 1, !.head = (mq.head + 1) % MSGQUEUE_MAX]
    BY <1>3 DEF Removed
  <2>2. (mq.head + 1) % MSGQUEUE_MAX \in Index /\ mq.count - 1 \in 0..MSGQUEUE_MAX
    BY <1>1
  <2>3. new \in msg_queue
    BY Zenon, <2>1, <2>2 DEF msg_queue
  <2>4. /\ new.id = mq.id /\ new.messages = mq.messages /\ new.tail = mq.tail
        /\ new.count = mq.count - 1 /\ new.head = (mq.head + 1) % MSGQUEUE_MAX
    BY <2>1 DEF msg_queue
  <2>5. (((mq.head + 1) % MSGQUEUE_MAX) + (mq.count - 1)) % MSGQUEUE_MAX = mq.tail
    BY Zenon, <1>1, PlacesAfterFirst
  <2> HIDE DEF new
  <2>6. RingOK(new)
    BY <2>3, <2>4, <2>5 DEF RingOK
  <2> QED BY <2>3, <2>4, <2>6 DEF new
<1> QED BY <1>2, <1>3

\* The oldest message is the one at head, and sys_msgrcv leaves the rest.
LEMMA RemovedContents ==
    ASSUME NEW mq \in msg_queue, RingOK(mq), mq.count # 0
    PROVE  /\ Contents(mq) # <<>>
           /\ Head(Contents(mq)) = mq.messages[mq.head]
           /\ Contents(Removed(mq, mq.head)) = Tail(Contents(mq))
<1> DEFINE new == Removed(mq, mq.head)
           S == Msg \cup {None}
<1> USE MsgQueueAssumption DEF Index
<1>1. mq.count \in 1..MSGQUEUE_MAX /\ mq.head \in Index
  BY DEF msg_queue
<1>2. /\ Contents(mq) \in Seq(S) /\ Len(Contents(mq)) = mq.count
      /\ \A n \in 1..mq.count :
            Contents(mq)[n] = mq.messages[(mq.head + n - 1) % MSGQUEUE_MAX]
  BY ContentsSeq
<1>3. Contents(mq) # <<>>
  BY <1>1, ContentsEmpty
<1>4. Head(Contents(mq)) = mq.messages[mq.head]
  <2>1. mq.head + 1 - 1 = mq.head /\ 1 \in 1..mq.count /\ mq.head % MSGQUEUE_MAX = mq.head
    BY <1>1
  <2>2. Contents(mq)[1] = mq.messages[(mq.head + 1 - 1) % MSGQUEUE_MAX]
    BY <1>2, <2>1
  <2> QED BY <1>2, <1>3, <2>1, <2>2
<1>5. /\ Tail(Contents(mq)) \in Seq(S) /\ Len(Tail(Contents(mq))) = mq.count - 1
      /\ \A n \in 1..(mq.count - 1) : Tail(Contents(mq))[n] = Contents(mq)[n + 1]
  BY <1>1, <1>2, <1>3, HeadTailProperties
<1>6. /\ new \in msg_queue /\ new.count = mq.count - 1
      /\ mq.count # 1 => /\ new.messages = mq.messages
                         /\ new.head = (mq.head + 1) % MSGQUEUE_MAX
  BY RemovedRing
<1> HIDE DEF new
<1>7. /\ Contents(new) \in Seq(S) /\ Len(Contents(new)) = mq.count - 1
      /\ \A n \in 1..(mq.count - 1) :
            Contents(new)[n] = new.messages[(new.head + n - 1) % MSGQUEUE_MAX]
  BY <1>6, ContentsSeq
<1>8. ASSUME NEW n \in 1..(mq.count - 1) PROVE Contents(new)[n] = Tail(Contents(mq))[n]
  <2>1. mq.count # 1 /\ n + 1 \in 1..mq.count
    BY <1>1
  <2>2. \A k \in 1..(mq.count - 1) :
           (((mq.head + 1) % MSGQUEUE_MAX) + k - 1) % MSGQUEUE_MAX =
               (mq.head + (k + 1) - 1) % MSGQUEUE_MAX
    BY <1>1, PlacesAfterFirst
  <2>3. Contents(new)[n] = mq.messages[(mq.head + (n + 1) - 1) % MSGQUEUE_MAX]
    BY <1>6, <1>7, <2>1, <2>2
  <2>4. Contents(mq)[n + 1] = mq.messages[(mq.head + (n + 1) - 1) % MSGQUEUE_MAX]
    BY <1>2, <2>1
  <2> QED BY <1>5, <2>3, <2>4
<1>9. Contents(new) = Tail(Contents(mq))
  BY <1>5, <1>7, <1>8, SeqEqual
<1> QED BY <1>3, <1>4, <1>9 DEF new

-----------------------------------------------------------------------------
(* What a step of msg.c does, and the invariant.                           *)

\* A slot without an id is empty, whatever was in it before, and no id was
\* given that is still to come.
QInv ==
    /\ QueuesConsistent
    /\ \A i \in Index : msgqueues[i].id = 0 => msgqueues[i].count = 0
    /\ \A i \in Index : msgqueues[i].id < next_msgqueue_id

\* A nonempty set of indices has a first.
LEMMA FirstIn ==
    ASSUME NEW T \in SUBSET Index, T # {}
    PROVE  First(T) \in T
<1> DEFINE R == OpToRel(<, Nat)
<1>1. \A x, y \in Nat : x < y => <<x, y>> \in R
  BY DEF OpToRel
<1>2. IsWellFoundedOn(R, Nat)
  BY Zenon, NatLessThanWellFounded
<1>3. T \in SUBSET Nat
  BY MsgQueueAssumption DEF Index
<1> HIDE DEF R
<1>4. PICK m \in T : \A n \in T : <<n, m>> \notin R
  BY Zenon, <1>2, <1>3, WFMin
<1>5. \A n \in T : ~(n < m)
  BY Zenon, <1>1, <1>3, <1>4
<1>6. \A n \in T : m <= n
  BY <1>3, <1>5
<1> QED BY <1>6 DEF First

\* The slot i becomes mq.
Becomes(i, mq) == msgqueues' = [msgqueues EXCEPT ![i] = mq]

Allocates(i) ==
    /\ msgqueues[i].id = 0 /\ next_msgqueue_id <= MAX_ID
    /\ Becomes(i, [msgqueues[i] EXCEPT !.id = next_msgqueue_id])
    /\ next_msgqueue_id' = next_msgqueue_id + 1 /\ received' = received

Resets(i, key) ==
    /\ msgqueues[i].id = 0
    /\ Becomes(i, [msgqueues[i] EXCEPT !.key = key, !.head = 0, !.tail = 0, !.count = 0])
    /\ UNCHANGED <<next_msgqueue_id, received>>

Sends(i, msg) ==
    /\ msgqueues[i].id # 0 /\ ~Full(msgqueues[i])
    /\ Becomes(i, Sent(msgqueues[i], msg))
    /\ UNCHANGED <<next_msgqueue_id, received>>

Receives(i) ==
    /\ msgqueues[i].id # 0 /\ msgqueues[i].count # 0
    /\ received' = msgqueues[i].messages[msgqueues[i].head]
    /\ Becomes(i, Removed(msgqueues[i], msgqueues[i].head))
    /\ UNCHANGED next_msgqueue_id

Drops(i) ==
    /\ msgqueues[i].id # 0
    /\ Becomes(i, Rmid(msgqueues[i]))
    /\ UNCHANGED <<next_msgqueue_id, received>>

Leaves == UNCHANGED <<msgqueues, next_msgqueue_id, received>>

\* Every call of msg.c does one of these to one queue, or nothing.
LEMMA StepCases ==
    ASSUME TypeOK, Next
    PROVE  /\ ret' \in Int
           /\ \/ \E i \in Index : \/ Allocates(i) \/ Receives(i) \/ Drops(i)
                                  \/ \E key \in Keys : Resets(i, key)
                                  \/ \E msg \in Msg : Sends(i, msg)
              \/ Leaves
<1> USE MsgQueueAssumption
<1>1. CASE alloc_msgqueue
  <2> DEFINE i == First({j \in Index : msgqueues[j].id = 0})
  <2>1. i \in Index /\ msgqueues[i].id = 0
    BY <1>1, FirstIn DEF alloc_msgqueue
  <2> HIDE DEF i
  <2>2. Allocates(i)
    BY <1>1, <2>1 DEF alloc_msgqueue, Allocates, Becomes, i
  <2>3. ret' \in Int
    BY <1>1 DEF alloc_msgqueue, TypeOK
  <2> QED BY <2>1, <2>2, <2>3
<1>2. ASSUME Fail PROVE ret' \in Int /\ Leaves
  BY <1>2 DEF Fail, Leaves
<1>3. ASSUME NEW key \in Keys, NEW creat \in BOOLEAN, sys_msgget(key, creat)
      PROVE  /\ ret' \in Int
             /\ (\E i \in Index : Resets(i, key)) \/ Leaves
  <2> DEFINE known == {i \in Index : msgqueues[i].id # 0 /\ msgqueues[i].key = key}
             empty == {i \in Index : msgqueues[i].id = 0}
  <2>1. CASE known # {}
    <3>1. First(known) \in Index
      BY <2>1, FirstIn
    <3>2. ret' = msgqueues[First(known)].id /\ Leaves
      BY <1>3, <2>1 DEF sys_msgget, Leaves
    <3> QED BY <3>1, <3>2 DEF TypeOK, msg_queue
  <2>2. CASE known = {} /\ creat /\ empty # {}
    <3>1. First(empty) \in Index /\ msgqueues[First(empty)].id = 0
      BY <2>2, FirstIn
    <3>2. ret' = msgqueues[First(empty)].id /\ Resets(First(empty), key)
      BY <1>3, <2>2, <3>1 DEF sys_msgget, Resets, Becomes
    <3> QED BY <3>1, <3>2
  <2>3. CASE known = {} /\ ~(creat /\ empty # {})
    BY <1>2, <1>3, <2>3 DEF sys_msgget
  <2> QED BY <2>1, <2>2, <2>3
<1>4. ASSUME NEW msqid \in 0..MAX_ID, get_msgqueue(msqid) # {}
      PROVE  /\ First(get_msgqueue(msqid)) \in Index
             /\ First(get_msgqueue(msqid)) \in get_msgqueue(msqid)
             /\ msgqueues[First(get_msgqueue(msqid))].id # 0
  <2>1. First(get_msgqueue(msqid)) \in get_msgqueue(msqid)
    BY <1>4, FirstIn DEF get_msgqueue
  <2> QED BY <2>1 DEF get_msgqueue
<1>5. ASSUME NEW msqid \in 0..MAX_ID, NEW msg \in Msg, NEW fits \in BOOLEAN,
             sys_msgsnd(msqid, msg, fits)
      PROVE  /\ ret' \in Int
             /\ (\E i \in Index : Sends(i, msg)) \/ Leaves
  <2>1. CASE Sendable(msqid, fits)
    <3> DEFINE i == First(get_msgqueue(msqid))
    <3>1. i \in Index /\ msgqueues[i].id # 0 /\ ~Full(msgqueues[i])
      BY <1>4, <2>1 DEF Sendable
    <3>2. ret' = 0 /\ Sends(i, msg)
      BY <1>5, <2>1, <3>1 DEF sys_msgsnd, Sends, Becomes, Sent, Fail
    <3> QED BY <3>1, <3>2
  <2>2. CASE ~Sendable(msqid, fits)
    BY <1>2, <1>5, <2>2 DEF sys_msgsnd
  <2> QED BY <2>1, <2>2
<1>6. ASSUME NEW msqid \in 0..MAX_ID, NEW msgtyp \in Types \cup {0},
             AtHead(msqid, msgtyp), sys_msgrcv(msqid, msgtyp)
      PROVE  /\ ret' \in Int
             /\ (\E i \in Index : Receives(i)) \/ Leaves
  <2>1. CASE Receivable(msqid, msgtyp) = {}
    BY <1>2, <1>6, <2>1 DEF sys_msgrcv
  <2>2. ASSUME NEW index \in Receivable(msqid, msgtyp),
               received' = msgqueues[First(get_msgqueue(msqid))].messages[index],
               msgqueues' = [msgqueues EXCEPT ![First(get_msgqueue(msqid))] = Removed(@, index)],
               ret' = 1, UNCHANGED next_msgqueue_id
        PROVE  ret' \in Int /\ \E i \in Index : Receives(i)
    <3> DEFINE i == First(get_msgqueue(msqid))
    <3>1. get_msgqueue(msqid) # {}
      BY <2>2 DEF Receivable
    <3>2. i \in Index /\ i \in get_msgqueue(msqid) /\ msgqueues[i].id # 0
      BY <1>4, <3>1
    <3>3. index = msgqueues[i].head
      BY <1>6, <2>2, <3>2 DEF AtHead
    <3>4. index \in Found(msgqueues[i], msgtyp)
      BY <2>2, <3>1 DEF Receivable
    <3> HIDE DEF i
    <3>5. msgqueues[i].count # 0
      <4>1. \E n \in 0..(msgqueues[i].count - 1) : TRUE
        BY Zenon, <3>4 DEF Found
      <4> QED BY ONLY <4>1
    <3>6. Receives(i)
      BY <2>2, <3>2, <3>3, <3>5 DEF Receives, Becomes, i
    <3> QED BY <2>2, <3>2, <3>6
  <2> QED BY <1>6, <2>1, <2>2 DEF sys_msgrcv
<1>7. ASSUME NEW msqid \in 0..MAX_ID, NEW cmd \in {"IPC_RMID", "IPC_STAT", "IPC_SET"},
             NEW buf \in BOOLEAN, sys_msgctl(msqid, cmd, buf)
      PROVE  /\ ret' \in Int
             /\ (\E i \in Index : Drops(i)) \/ Leaves
  <2>1. CASE get_msgqueue(msqid) # {} /\ cmd = "IPC_RMID"
    <3>1. ret' = 0 /\ Drops(First(get_msgqueue(msqid)))
      BY <1>4, <1>7, <2>1 DEF sys_msgctl, Drops, Becomes
    <3> QED BY <1>4, <2>1, <3>1
  <2>2. CASE ~(get_msgqueue(msqid) # {} /\ cmd = "IPC_RMID")
    BY <1>2, <1>7, <2>2 DEF sys_msgctl, Leaves
  <2> QED BY <2>1, <2>2
<1> QED BY <1>1, <1>3, <1>5, <1>6, <1>7 DEF Next, Syscall

\* find_msgqueue and IPC_RMID leave a queue whose ring is empty.
LEMMA EmptiedRing ==
    ASSUME NEW mq \in msg_queue, NEW key \in Keys \cup {0}, 0 \in 0..MAX_ID,
           0 \in Index, 0 \in 0..MSGQUEUE_MAX
    PROVE  /\ [mq EXCEPT !.key = key, !.head = 0, !.tail = 0, !.count = 0] \in msg_queue
           /\ Rmid(mq) \in msg_queue
<1>1. [mq EXCEPT !.key = key, !.head = 0, !.tail = 0, !.count = 0] \in msg_queue
  BY Zenon DEF msg_queue
<1>2. Rmid(mq) \in msg_queue
  BY Zenon DEF msg_queue, Rmid
<1> QED BY <1>1, <1>2

\* What a step may make of a queue in a slot.
SlotOK(i, mq) ==
    /\ mq \in msg_queue /\ RingOK(mq)
    /\ mq.id = 0 => mq.count = 0
    /\ mq.id < next_msgqueue_id'
    /\ mq.id # 0 => \A j \in Index \ {i} : msgqueues[j].id # mq.id

\* A step that makes such a queue of one slot keeps the invariant.
LEMMA OneSlot ==
    ASSUME QInv, NEW i \in Index, NEW mq, Becomes(i, mq), SlotOK(i, mq),
           next_msgqueue_id' \in 1..(MAX_ID + 1), next_msgqueue_id <= next_msgqueue_id',
           ret' \in Int, received' \in Msg \cup {None}
    PROVE  QInv'
<1> USE MsgQueueAssumption
<1>1. /\ msgqueues \in [Index -> msg_queue] /\ next_msgqueue_id \in 1..(MAX_ID + 1)
      /\ \A j \in Index : msgqueues[j].id \in 0..MAX_ID
  BY DEF QInv, QueuesConsistent, TypeOK, msg_queue
<1>2. /\ msgqueues'[i] = mq /\ mq \in msg_queue /\ mq.id \in 0..MAX_ID
      /\ \A j \in Index \ {i} : msgqueues'[j] = msgqueues[j]
      /\ msgqueues' \in [Index -> msg_queue]
  BY <1>1 DEF Becomes, SlotOK, msg_queue
<1>3. TypeOK'
  BY <1>2 DEF TypeOK
<1>4. RingConsistent'
  BY <1>2 DEF QInv, QueuesConsistent, RingConsistent, SlotOK, RingOK
<1>5. \A j, k \in Index :
         msgqueues'[j].id = msgqueues'[k].id /\ msgqueues'[j].id # 0 => j = k
  BY <1>1, <1>2 DEF QInv, QueuesConsistent, SlotOK
<1>6. \A j \in Index : msgqueues'[j].id = 0 => msgqueues'[j].count = 0
  BY <1>2 DEF QInv, SlotOK
<1>7. \A j \in Index : msgqueues'[j].id < next_msgqueue_id'
  BY <1>1, <1>2 DEF QInv, SlotOK
<1> QED BY <1>3, <1>4, <1>5, <1>6, <1>7 DEF QInv, QueuesConsistent

\* Every step keeps the invariant.
LEMMA QInvStep ==
    ASSUME QInv, [Next]_vars
    PROVE  QInv'
<1> USE MsgQueueAssumption
<1>1. CASE UNCHANGED vars
  BY <1>1 DEF vars, QInv, QueuesConsistent, TypeOK, RingConsistent
<1> SUFFICES ASSUME Next PROVE QInv'
  BY <1>1
<1>2. TypeOK /\ ret' \in Int
  BY StepCases DEF QInv, QueuesConsistent
<1>3. ASSUME NEW i \in Index
      PROVE  /\ msgqueues[i] \in msg_queue /\ RingOK(msgqueues[i])
             /\ msgqueues[i].id \in 0..MAX_ID /\ msgqueues[i].id < next_msgqueue_id
             /\ \A j \in Index \ {i} : msgqueues[i].id # 0 => msgqueues[j].id # msgqueues[i].id
  BY <1>2 DEF TypeOK, QInv, QueuesConsistent, RingConsistent, RingOK, msg_queue
<1>4. next_msgqueue_id \in 1..(MAX_ID + 1) /\ received \in Msg \cup {None}
  BY <1>2 DEF TypeOK
<1>5. ASSUME NEW i \in Index, Allocates(i) PROVE QInv'
  <2> DEFINE mq == [msgqueues[i] EXCEPT !.id = next_msgqueue_id]
  <2>1. next_msgqueue_id \in 0..MAX_ID /\ next_msgqueue_id' = next_msgqueue_id + 1
        /\ received' = received /\ Becomes(i, mq)
    BY <1>4, <1>5 DEF Allocates
  <2>2. /\ mq \in msg_queue /\ mq.id = next_msgqueue_id /\ mq.head = msgqueues[i].head
        /\ mq.tail = msgqueues[i].tail /\ mq.count = msgqueues[i].count
    BY <1>3, <2>1 DEF msg_queue
  <2> HIDE DEF mq
  <2>3. SlotOK(i, mq)
    BY <1>3, <1>4, <2>1, <2>2 DEF SlotOK, RingOK, QInv
  <2> QED BY <1>2, <1>4, <2>1, <2>3, OneSlot
<1>6. ASSUME NEW i \in Index, NEW key \in Keys, Resets(i, key) PROVE QInv'
  <2> DEFINE mq == [msgqueues[i] EXCEPT !.key = key, !.head = 0, !.tail = 0, !.count = 0]
  <2>1. UNCHANGED <<next_msgqueue_id, received>> /\ Becomes(i, mq) /\ msgqueues[i].id = 0
    BY <1>6 DEF Resets
  <2>2. 0 \in Index /\ 0 \in 0..MSGQUEUE_MAX /\ (0 + 0) % MSGQUEUE_MAX = 0
    BY Wrap DEF Index
  <2>3. /\ mq \in msg_queue /\ mq.id = 0
        /\ mq.head = 0 /\ mq.tail = 0 /\ mq.count = 0
    <3>1. 0 \in 0..MAX_ID /\ key \in Keys \cup {0}
      OBVIOUS
    <3>2. mq \in msg_queue
      BY Zenon, <1>3, <2>2, <3>1, EmptiedRing
    <3>3. mq.id = 0 /\ mq.head = 0 /\ mq.tail = 0 /\ mq.count = 0
      BY <1>3, <2>1 DEF msg_queue
    <3> QED BY <3>2, <3>3
  <2> HIDE DEF mq
  <2>4. SlotOK(i, mq)
    BY <1>4, <2>1, <2>2, <2>3 DEF SlotOK, RingOK
  <2> QED BY <1>2, <1>4, <2>1, <2>4, OneSlot
<1>7. ASSUME NEW i \in Index, NEW msg \in Msg, Sends(i, msg) PROVE QInv'
  <2>1. UNCHANGED <<next_msgqueue_id, received>> /\ Becomes(i, Sent(msgqueues[i], msg))
        /\ ~Full(msgqueues[i]) /\ msgqueues[i].id # 0
    BY <1>7 DEF Sends
  <2>2. /\ Sent(msgqueues[i], msg) \in msg_queue /\ RingOK(Sent(msgqueues[i], msg))
        /\ Sent(msgqueues[i], msg).id = msgqueues[i].id
    BY Zenon, <1>3, <2>1, SentFields
  <2>3. SlotOK(i, Sent(msgqueues[i], msg))
    BY <1>3, <1>4, <2>1, <2>2 DEF SlotOK
  <2> QED BY <1>2, <1>4, <2>1, <2>3, OneSlot
<1>8. ASSUME NEW i \in Index, Receives(i) PROVE QInv'
  <2> DEFINE mq == Removed(msgqueues[i], msgqueues[i].head)
  <2>1. UNCHANGED next_msgqueue_id /\ Becomes(i, mq) /\ msgqueues[i].id # 0
        /\ msgqueues[i].count # 0 /\ received' = msgqueues[i].messages[msgqueues[i].head]
    BY <1>8 DEF Receives
  <2>2. mq \in msg_queue /\ RingOK(mq) /\ mq.id = msgqueues[i].id
    BY <1>3, <2>1, RemovedRing
  <2>3. received' \in Msg \cup {None}
    BY <1>3, <2>1 DEF msg_queue
  <2> HIDE DEF mq
  <2>4. SlotOK(i, mq)
    BY <1>3, <1>4, <2>1, <2>2 DEF SlotOK
  <2>5. next_msgqueue_id' \in 1..(MAX_ID + 1) /\ next_msgqueue_id <= next_msgqueue_id'
    BY <1>4, <2>1
  <2> QED BY Zenon, <1>2, <2>1, <2>3, <2>4, <2>5, OneSlot
<1>9. ASSUME NEW i \in Index, Drops(i) PROVE QInv'
  <2> DEFINE mq == Rmid(msgqueues[i])
  <2>1. UNCHANGED <<next_msgqueue_id, received>> /\ Becomes(i, mq)
    BY <1>9 DEF Drops
  <2>2. 0 \in Index /\ 0 \in 0..MSGQUEUE_MAX /\ (0 + 0) % MSGQUEUE_MAX = 0
    BY Wrap DEF Index
  <2>3. /\ mq \in msg_queue /\ mq.id = 0
        /\ mq.head = 0 /\ mq.tail = 0 /\ mq.count = 0
    <3>1. 0 \in 0..MAX_ID
      OBVIOUS
    <3>2. mq \in msg_queue
      BY Zenon, <1>3, <2>2, <3>1, EmptiedRing
    <3>3. mq.id = 0 /\ mq.head = 0 /\ mq.tail = 0 /\ mq.count = 0
      BY <1>3 DEF Rmid, msg_queue
    <3> QED BY <3>2, <3>3
  <2> HIDE DEF mq
  <2>4. SlotOK(i, mq)
    BY <1>4, <2>1, <2>2, <2>3 DEF SlotOK, RingOK
  <2> QED BY <1>2, <1>4, <2>1, <2>4, OneSlot
<1>10. CASE Leaves
  BY <1>2, <1>10 DEF Leaves, QInv, QueuesConsistent, TypeOK, RingConsistent
<1> QED BY <1>2, <1>5, <1>6, <1>7, <1>8, <1>9, <1>10, StepCases

\* Zeroed storage satisfies the invariant.
LEMMA InitQInv ==
    ASSUME Init
    PROVE  QInv
<1> USE MsgQueueAssumption
<1>1. 0 \in Index /\ 0 \in 0..MSGQUEUE_MAX /\ 0 \in 0..MAX_ID
      /\ (0 + 0) % MSGQUEUE_MAX = 0
  BY Wrap DEF Index
<1>2. /\ \A i \in Index : msgqueues[i] \in msg_queue
      /\ msgqueues = [i \in Index |-> msgqueues[i]]
  BY <1>1 DEF Init, msg_queue
<1>3. \A i \in Index : /\ msgqueues[i].id = 0 /\ msgqueues[i].count = 0
                       /\ msgqueues[i].head = 0 /\ msgqueues[i].tail = 0
  BY DEF Init
<1>4. next_msgqueue_id = 1 /\ ret \in Int /\ received = None
  BY DEF Init
<1>5. TypeOK
  BY <1>2, <1>4 DEF TypeOK
<1>6. RingConsistent
  BY <1>1, <1>3 DEF RingConsistent
<1> QED BY <1>3, <1>4, <1>5, <1>6 DEF QInv, QueuesConsistent

\* The array of queues stays consistent, through every sequence of system calls
\* whose receivers take the oldest message.
THEOREM QueuesStayConsistent == Spec => []QueuesConsistent
<1>1. Init => QInv
  BY InitQInv
<1>2. QInv /\ [Next]_vars => QInv'
  BY QInvStep
<1>3. QInv => QueuesConsistent
  BY DEF QInv
<1> QED BY <1>1, <1>2, <1>3, PTL DEF Spec

-----------------------------------------------------------------------------
(* Refinement.                                                             *)

\* The queues that exist and their contents, as the mapping has them.
Opened == {i \in Index : msgqueues[i].id # 0}
Chan == [i \in Index |-> Contents(msgqueues[i])]

\* A step that changes one slot changes the contents of that queue only, and
\* opens or closes no other.
LEMMA MappedSlot ==
    ASSUME TypeOK, NEW i \in Index, NEW mq, Becomes(i, mq)
    PROVE  /\ Chan' = [Chan EXCEPT ![i] = Contents(mq)]
           /\ \A j \in Index \ {i} : j \in Opened' <=> j \in Opened
           /\ i \in Opened' <=> mq.id # 0
<1>1. /\ msgqueues'[i] = mq
      /\ \A j \in Index \ {i} : msgqueues'[j] = msgqueues[j]
  BY DEF TypeOK, Becomes
<1>2. Chan' = [j \in Index |-> Contents(msgqueues'[j])]
  BY DEF Chan, Contents
<1>3. \A j \in Index : Contents(msgqueues'[j]) = [Chan EXCEPT ![i] = Contents(mq)][j]
  BY <1>1 DEF Chan
<1>4. Chan' = [Chan EXCEPT ![i] = Contents(mq)]
  BY Zenon, <1>2, <1>3 DEF Chan
<1>5. \A j \in Index \ {i} : j \in Opened' <=> j \in Opened
  BY <1>1 DEF Opened
<1>6. i \in Opened' <=> mq.id # 0
  BY <1>1 DEF Opened
<1> QED BY <1>4, <1>5, <1>6

\* Every step of msg.c is a step of the abstract queues, or none.
LEMMA FifoStep ==
    ASSUME QInv, [Next]_vars
    PROVE  [Fifo!Next]_(Fifo!vars)
<1> USE MsgQueueAssumption
<1>1. TypeOK
  BY DEF QInv, QueuesConsistent
<1>2. SUFFICES ASSUME Next PROVE Fifo!Next \/ UNCHANGED <<Opened, Chan, received>>
  <2>1. CASE UNCHANGED vars
    BY <2>1 DEF vars, Fifo!vars, Contents
  <2> QED BY <1>2, <2>1 DEF Fifo!vars, Opened, Chan
<1>3. ASSUME NEW i \in Index
      PROVE  /\ msgqueues[i] \in msg_queue /\ RingOK(msgqueues[i])
             /\ Chan[i] = Contents(msgqueues[i])
             /\ i \in Opened <=> msgqueues[i].id # 0
             /\ msgqueues[i].id = 0 => msgqueues[i].count = 0
  BY <1>1 DEF TypeOK, QInv, QueuesConsistent, RingConsistent, RingOK, Chan, Opened
<1>4. ASSUME NEW i \in Index, Allocates(i) PROVE Fifo!Open(i)
  <2> DEFINE mq == [msgqueues[i] EXCEPT !.id = next_msgqueue_id]
  <2>1. Becomes(i, mq) /\ received' = received /\ i \notin Opened
    BY <1>3, <1>4 DEF Allocates
  <2>2. mq.id # 0 /\ Contents(mq) = Contents(msgqueues[i])
    <3>1. /\ mq.id = next_msgqueue_id /\ mq.head = msgqueues[i].head
          /\ mq.messages = msgqueues[i].messages /\ mq.count = msgqueues[i].count
      BY <1>3 DEF msg_queue
    <3>2. next_msgqueue_id # 0
      BY <1>1 DEF TypeOK
    <3> QED BY <3>1, <3>2 DEF Contents
  <2> HIDE DEF mq
  <2>3. /\ Chan' = [Chan EXCEPT ![i] = Contents(mq)]
        /\ \A j \in Index \ {i} : j \in Opened' <=> j \in Opened
        /\ i \in Opened'
    BY <1>1, <2>1, <2>2, MappedSlot
  <2>4. Chan' = Chan
    BY Zenon, <1>3, <2>2, <2>3 DEF Chan
  <2>5. Opened' = Opened \cup {i}
    BY <2>3 DEF Opened
  <2> QED BY <2>1, <2>4, <2>5 DEF Fifo!Open, Opened, Chan
<1>5. ASSUME NEW i \in Index, NEW key \in Keys, Resets(i, key)
      PROVE  UNCHANGED <<Opened, Chan, received>>
  <2> DEFINE mq == [msgqueues[i] EXCEPT !.key = key, !.head = 0, !.tail = 0, !.count = 0]
  <2>1. Becomes(i, mq) /\ received' = received /\ i \notin Opened
    BY <1>3, <1>5 DEF Resets
  <2>2. mq.id = 0 /\ mq.count = 0 /\ msgqueues[i].count = 0
    BY <1>3, <1>5 DEF Resets, msg_queue
  <2>3. mq \in msg_queue
    <3>1. 0 \in Index /\ 0 \in 0..MSGQUEUE_MAX /\ 0 \in 0..MAX_ID /\ key \in Keys \cup {0}
      BY DEF Index
    <3> QED BY Zenon, <1>3, <3>1, EmptiedRing
  <2> HIDE DEF mq
  <2>4. Contents(mq) = <<>> /\ Contents(msgqueues[i]) = <<>>
    BY <1>3, <2>2, <2>3, ContentsEmpty
  <2>5. /\ Chan' = [Chan EXCEPT ![i] = Contents(mq)]
        /\ \A j \in Index \ {i} : j \in Opened' <=> j \in Opened
        /\ i \notin Opened'
    BY <1>1, <2>1, <2>2, MappedSlot
  <2>6. Chan' = Chan
    BY Zenon, <1>3, <2>4, <2>5 DEF Chan
  <2>7. Opened' = Opened
    BY <2>1, <2>5 DEF Opened
  <2> QED BY <2>1, <2>6, <2>7
<1>6. ASSUME NEW i \in Index, NEW msg \in Msg, Sends(i, msg) PROVE Fifo!Send(i, msg)
  <2> DEFINE mq == Sent(msgqueues[i], msg)
  <2>1. /\ Becomes(i, mq) /\ received' = received /\ i \in Opened
        /\ ~Full(msgqueues[i]) /\ msgqueues[i].id # 0
    BY <1>3, <1>6 DEF Sends
  <2>2. mq.id # 0 /\ Contents(mq) = Append(Contents(msgqueues[i]), msg)
    BY Zenon, <1>3, <2>1, SentFields, SentContents
  <2>3. Len(Chan[i]) < MSGQUEUE_MAX
    <3>1. Len(Chan[i]) = msgqueues[i].count /\ msgqueues[i] \in msg_queue
      BY Zenon, <1>3, ContentsSeq
    <3>2. msgqueues[i].count \in 0..MSGQUEUE_MAX /\ MSGQUEUE_MAX \in Nat
      BY ONLY <3>1, MsgQueueAssumption DEF msg_queue
    <3>3. ~(msgqueues[i].count >= MSGQUEUE_MAX)
      BY Zenon, <2>1 DEF Full
    <3> QED BY ONLY <3>1, <3>2, <3>3
  <2> HIDE DEF mq
  <2>4. /\ Chan' = [Chan EXCEPT ![i] = Contents(mq)]
        /\ \A j \in Index \ {i} : j \in Opened' <=> j \in Opened
        /\ i \in Opened'
    BY <1>1, <2>1, <2>2, MappedSlot
  <2>5. Chan' = [Chan EXCEPT ![i] = Append(@, msg)]
    BY ZenonT(30), <1>3, <2>2, <2>4
  <2>6. Opened' = Opened
    BY <2>1, <2>4 DEF Opened
  <2> QED BY <2>1, <2>3, <2>5, <2>6 DEF Fifo!Send, Opened, Chan
<1>7. ASSUME NEW i \in Index, Receives(i) PROVE Fifo!Receive(i)
  <2> DEFINE mq == Removed(msgqueues[i], msgqueues[i].head)
  <2>1. /\ Becomes(i, mq) /\ i \in Opened /\ msgqueues[i].id # 0
        /\ received' = msgqueues[i].messages[msgqueues[i].head]
        /\ msgqueues[i].count # 0
    BY <1>3, <1>7 DEF Receives
  <2>2. mq.id # 0
    BY <1>3, <2>1, RemovedRing
  <2>3. Chan[i] # <<>> /\ received' = Head(Chan[i]) /\ Contents(mq) = Tail(Chan[i])
    BY ZenonT(30), <1>3, <2>1, RemovedContents
  <2> HIDE DEF mq
  <2>4. /\ Chan' = [Chan EXCEPT ![i] = Contents(mq)]
        /\ \A j \in Index \ {i} : j \in Opened' <=> j \in Opened
        /\ i \in Opened'
    BY <1>1, <2>1, <2>2, MappedSlot
  <2>5. Chan' = [Chan EXCEPT ![i] = Tail(@)]
    BY <2>3, <2>4
  <2>6. Opened' = Opened
    BY <2>1, <2>4 DEF Opened
  <2> QED BY <2>1, <2>3, <2>5, <2>6 DEF Fifo!Receive, Opened, Chan
<1>8. ASSUME NEW i \in Index, Drops(i) PROVE Fifo!Remove(i)
  <2> DEFINE mq == Rmid(msgqueues[i])
  <2>1. Becomes(i, mq) /\ received' = received /\ i \in Opened
    BY <1>3, <1>8 DEF Drops
  <2>2. mq.id = 0 /\ mq.count = 0
    BY <1>3 DEF Rmid, msg_queue
  <2>3. mq \in msg_queue
    <3>1. 0 \in Index /\ 0 \in 0..MSGQUEUE_MAX /\ 0 \in 0..MAX_ID /\ 0 \in Keys \cup {0}
      BY DEF Index
    <3> QED BY Zenon, <1>3, <3>1, EmptiedRing
  <2> HIDE DEF mq
  <2>4. Contents(mq) = <<>>
    BY <2>2, <2>3, ContentsEmpty
  <2>5. /\ Chan' = [Chan EXCEPT ![i] = <<>>]
        /\ \A j \in Index \ {i} : j \in Opened' <=> j \in Opened
        /\ i \notin Opened'
    BY <1>1, <2>1, <2>2, <2>4, MappedSlot
  <2>6. Opened' = Opened \ {i}
    BY <2>5 DEF Opened
  <2> QED BY <2>1, <2>5, <2>6 DEF Fifo!Remove, Opened, Chan
<1>9. CASE Leaves
  BY <1>9 DEF Leaves, Opened, Chan, Contents
<1>10. ASSUME NEW i \in Index,
              Fifo!Open(i) \/ (\E msg \in Msg : Fifo!Send(i, msg))
              \/ Fifo!Receive(i) \/ Fifo!Remove(i)
       PROVE  Fifo!Next
  BY <1>10 DEF Fifo!Next
<1> QED BY <1>1, <1>2, <1>4, <1>5, <1>6, <1>7, <1>8, <1>9, <1>10, StepCases

\* The ring buffers of msg.c implement bounded first-in first-out queues:
\* sys_msgsnd and sys_msgrcv lose, repeat and reorder nothing, and IPC_RMID
\* leaves nothing behind for the next queue in the slot.
THEOREM RingsAreFifo == Spec => ImplementsFifo
<1>1. Init => Fifo!Init
  <2> SUFFICES ASSUME Init PROVE Fifo!Init
    OBVIOUS
  <2>1. \A i \in Index : msgqueues[i].id = 0 /\ msgqueues[i].count = 0
    BY DEF Init
  <2>2. QInv
    BY InitQInv
  <2>3. \A i \in Index : Contents(msgqueues[i]) = <<>>
    BY <2>1, <2>2, ContentsEmpty DEF QInv, QueuesConsistent, TypeOK
  <2> QED BY <2>1, <2>3 DEF Fifo!Init, Init
<1>2. Init => QInv
  BY InitQInv
<1>3. QInv /\ [Next]_vars => QInv'
  BY QInvStep
<1>4. QInv /\ [Next]_vars => [Fifo!Next]_(Fifo!vars)
  BY FifoStep
<1> QED BY <1>1, <1>2, <1>3, <1>4, PTL DEF Spec, ImplementsFifo, Fifo!Spec

-----------------------------------------------------------------------------
(* The interrupt controllers.                                              *)

\* Interrupts are on only outside the handlers.  A line, with the cascade when
\* it is the slave's, is in service only between the gate and the first
\* instructions of its handler, and only for the context that runs: the others
\* have not begun or left through scheduler_tick, after the end of interrupt.
ServiceInv ==
    /\ IntTypeOK
    /\ iflag => Runs("run")
    /\ at[current] # "fresh"
    /\ \A c \in CONTEXTS \ {current} : at[c] \in {"fresh", "iret"}
    /\ isr = {} \/ (Runs("handler") /\ isr = {irq, Line(irq)})

\* The one line in service on a controller is the one that an end of interrupt
\* ends.
LEMMA EoiOfOne == ASSUME NEW n \in 0..15 PROVE Eoi({n}) = {n}
<1>1. Min({n}) = n
  BY DEF Min
<1> QED BY <1>1 DEF Eoi

\* The ends of interrupt that the handler of a line sends leave nothing in
\* service: one for a line of the master, two for one of the slave, and none is
\* missed or left over after a spurious interrupt.
LEMMA EndedAll ==
    ASSUME ServiceInv, Runs("handler")
    PROVE  Ended(irq) = {}
<1>1. irq \in 0..15
  BY DEF ServiceInv, IntTypeOK
<1>2. CASE isr = {}
  BY <1>2 DEF Ended, EndMaster, EndSlave, Master, Slave, Eoi
<1>3. CASE isr = {irq, Line(irq)} /\ irq < 8
  <2>1. isr = {irq} /\ Master(isr) = {irq}
    BY <1>1, <1>3 DEF Line, Master
  <2>2. Eoi(Master(isr)) = {irq}
    BY Zenon, <1>1, <2>1, EoiOfOne
  <2>3. EndMaster(isr) = {}
    BY <2>1, <2>2 DEF EndMaster
  <2> QED BY <1>1, <1>3, <2>3 DEF Ended
<1>4. CASE isr = {irq, Line(irq)} /\ irq >= 8
  <2>1. isr = {irq, CASCADE} /\ Slave(isr) = {irq}
    BY <1>1, <1>4 DEF Line, Slave, CASCADE
  <2>2. EndSlave(isr) = {CASCADE}
    <3>1. Eoi(Slave(isr)) = {irq}
      BY Zenon, <1>1, <2>1, EoiOfOne
    <3>2. irq # CASCADE
      BY <1>1, <1>4 DEF CASCADE
    <3> QED BY <2>1, <3>1, <3>2 DEF EndSlave
  <2>3. Master({CASCADE}) = {CASCADE} /\ CASCADE \in 0..15
    BY DEF Master, CASCADE
  <2>4. EndMaster({CASCADE}) = {}
    BY Zenon, <2>3, EoiOfOne DEF EndMaster
  <2> QED BY <1>1, <1>4, <2>2, <2>4 DEF Ended
<1> QED BY <1>1, <1>2, <1>3, <1>4 DEF ServiceInv

\* Every step keeps the invariant.
LEMMA ServiceStep ==
    ASSUME ServiceInv, [IntNext]_intVars
    PROVE  ServiceInv'
<1> USE InterruptsAssumption DEF Runs
<1>1. ASSUME NEW n \in IRQS, Deliver(n) PROVE ServiceInv'
  <2>1. isr = {}
    BY <1>1 DEF ServiceInv, Deliver, Accept
  <2>2. n \in 0..15 /\ Line(n) \in 0..15
    BY DEF Line, CASCADE
  <2>3. IntTypeOK'
    BY Zenon, <1>1, <2>2 DEF ServiceInv, IntTypeOK, Deliver, Accept, Goto
  <2>4. isr' = {irq', Line(irq')} /\ Line(irq)' = Line(irq')
    BY <1>1, <2>1 DEF Deliver, Accept, Line
  <2>5. /\ ~iflag' /\ current' = current /\ at'[current] = "handler"
        /\ \A c \in CONTEXTS \ {current} : at'[c] = at[c]
    BY <1>1 DEF ServiceInv, IntTypeOK, Deliver, Accept, Goto
  <2> QED BY <2>3, <2>4, <2>5 DEF ServiceInv
<1>2. CASE Spurious
  <2>1. isr = {}
    BY <1>2 DEF ServiceInv, Spurious, Accept
  <2>2. IntTypeOK'
    <3>1. iflag' \in BOOLEAN /\ UNCHANGED <<irr, isr, imr, current, enabled>>
      BY Zenon, <1>2 DEF Spurious, Accept
    <3>2. irq' \in 0..15
      BY <1>2 DEF Spurious, Accept
    <3>3. at' \in [CONTEXTS -> {"fresh", "run", "handler", "tick", "iret"}]
      BY <1>2 DEF ServiceInv, IntTypeOK, Spurious, Accept, Goto
    <3> QED BY <3>1, <3>2, <3>3 DEF ServiceInv, IntTypeOK
  <2>3. /\ ~iflag' /\ current' = current /\ at'[current] = "handler" /\ isr' = {}
        /\ \A c \in CONTEXTS \ {current} : at'[c] = at[c]
    BY <1>2, <2>1 DEF ServiceInv, IntTypeOK, Spurious, Accept, Goto
  <2> QED BY <2>2, <2>3 DEF ServiceInv
<1>3. CASE Handler
  <2>1. Ended(irq) = {}
    BY <1>3, EndedAll DEF Handler
  <2> QED BY <1>3, <2>1 DEF ServiceInv, IntTypeOK, Handler, Goto
<1>4. ASSUME NEW c \in CONTEXTS, Tick(c) PROVE ServiceInv'
  <2>1. isr = {} /\ ~iflag
    BY <1>4 DEF ServiceInv, Tick
  <2>2. at' \in [CONTEXTS -> {"fresh", "run", "handler", "tick", "iret"}]
    BY <1>4 DEF ServiceInv, IntTypeOK, Tick
  <2>3. /\ at'[c] \in {"run", "iret"}
        /\ \A d \in CONTEXTS \ {c} : at'[d] \in {"fresh", "iret"}
    BY <1>4 DEF ServiceInv, IntTypeOK, Tick
  <2> QED BY <1>4, <2>1, <2>2, <2>3 DEF ServiceInv, IntTypeOK, Tick, picVars
<1>5. CASE Iret
  BY <1>5 DEF ServiceInv, IntTypeOK, Iret, Goto, picVars
<1>6. CASE Sti
  BY <1>6 DEF ServiceInv, IntTypeOK, Sti, picVars, Line
<1>7. CASE Kernel
  BY Zenon, <1>7 DEF ServiceInv, IntTypeOK, Kernel, pic_enable_irq, pic_disable_irq, Line
<1>8. ASSUME NEW n \in IRQS, Raise(n) PROVE ServiceInv'
  BY <1>8 DEF ServiceInv, IntTypeOK, Raise, Line
<1>9. CASE UNCHANGED intVars
  BY <1>9 DEF ServiceInv, IntTypeOK, intVars, picVars, Line
<1> QED BY <1>1, <1>2, <1>3, <1>4, <1>5, <1>6, <1>7, <1>8, <1>9 DEF IntNext, Cpu

\* No handler, whichever line it is for, spurious or not, and wherever
\* scheduler_tick leads, lets interrupts on with a line in service.
THEOREM ServiceEnds == IntSpec => []NothingInService
<1>1. IntInit => ServiceInv
  BY InterruptsAssumption DEF IntInit, ServiceInv, IntTypeOK, Runs
<1>2. ServiceInv /\ [IntNext]_intVars => ServiceInv'
  BY ServiceStep
<1>3. ServiceInv => NothingInService
  BY DEF ServiceInv, NothingInService, Runs
<1> QED BY <1>1, <1>2, <1>3, PTL DEF IntSpec

-----------------------------------------------------------------------------
(* The timer.                                                              *)

\* Quotient and remainder make up the number.
LEMMA Division ==
    ASSUME NEW a \in Nat, NEW b \in Nat \ {0}
    PROVE  /\ a \div b \in Nat /\ a % b \in 0..(b - 1)
           /\ a = (a \div b) * b + (a % b)
  OBVIOUS

\* The remainder of a smaller number is the number.
LEMMA SmallRemainder ==
    ASSUME NEW b \in Nat \ {0}, NEW a \in Nat, a < b
    PROVE  a % b = a
  OBVIOUS

\* Multiplication is monotonic.
LEMMA Monotonic ==
    ASSUME NEW a \in Nat, NEW b \in Nat, NEW c \in Nat, a <= b
    PROVE  a * c <= b * c
  OBVIOUS

\* ticks_needed is one at least, and one more tick is longer than ms.
LEMMA NeededEnough ==
    ASSUME ms \in MS
    PROVE  /\ ticks_needed \in Nat \ {0}
           /\ (ticks_needed + 1) * MS_PER_S > ms * current_hz
<1> DEFINE x == ms * current_hz
           n == x \div MS_PER_S
<1>1. x \in Nat /\ x < WORD /\ WORD \in Nat \ {0} /\ MS_PER_S \in Nat \ {0}
  BY TimerAssumption
<1>2. x % WORD = x
  BY <1>1, SmallRemainder
<1>3. ticks_needed = IF n = 0 THEN 1 ELSE n
  BY <1>2 DEF ticks_needed
<1>4. n \in Nat /\ x % MS_PER_S \in 0..(MS_PER_S - 1) /\ x = n * MS_PER_S + (x % MS_PER_S)
  BY Zenon, <1>1, Division
<1> HIDE DEF x, n
<1>5. (n + 1) * MS_PER_S > x
  BY <1>1, <1>4
<1>6. ticks_needed \in Nat \ {0} /\ n <= ticks_needed
  BY <1>3, <1>4
<1>7. (n + 1) * MS_PER_S <= (ticks_needed + 1) * MS_PER_S
  BY <1>1, <1>4, <1>6, Monotonic
<1>8. (n + 1) * MS_PER_S \in Nat /\ (ticks_needed + 1) * MS_PER_S \in Nat
  BY <1>1, <1>4, <1>6
<1>9. (ticks_needed + 1) * MS_PER_S > x
  BY <1>1, <1>5, <1>7, <1>8
<1> QED BY <1>6, <1>9 DEF x

-----------------------------------------------------------------------------

\* While the low half has not overflowed since the sleep began, a count read in
\* two halves lies between the tick of the beginning and the present one, and
\* the tick waited for is far enough from the beginning.
SleepTimeInv ==
    /\ TimerTypeOK
    /\ pc # "awake" => ms \in MS /\ began <= tick_count
    /\ pc \in {"start_high", "loop_high"} /\ ~carried =>
          began <= ReadCount /\ ReadCount <= tick_count
    /\ pc \in {"loop", "loop_high", "hlt"} /\ ~carried => target >= began + ticks_needed

\* A count whose two halves are read with no tick between is the count.
LEMMA ReadWhole ==
    ASSUME tick_count \in Nat, UNCHANGED tick_count, low' = tick_count % WORD
    PROVE  ReadCount' = tick_count /\ low' \in 0..(WORD - 1)
  BY Division, TimerAssumption DEF ReadCount

\* What two reads of the halves give is a number.
LEMMA ReadCountNat ==
    ASSUME TimerTypeOK
    PROVE  ReadCount \in Nat
<1>1. tick_count \div WORD \in Nat /\ WORD \in Nat /\ low \in Nat
  BY Division, TimerAssumption DEF TimerTypeOK
<1> QED BY <1>1 DEF ReadCount

\* Every step keeps the invariant.
LEMMA SleepTimeStep ==
    ASSUME SleepTimeInv, [TimerNext]_timerVars
    PROVE  SleepTimeInv'
<1>1. CASE irq0_handler
  <2>1. UNCHANGED <<pit_tick_count, callback, pit_callback, ms, low, target, began>>
        /\ tick_count' \in Nat /\ tick_count <= tick_count'
        /\ called' \in BOOLEAN /\ carried' \in BOOLEAN
    BY <1>1 DEF irq0_handler, NextCount, SleepTimeInv, TimerTypeOK
  <2>2. pc' = IF pc = "hlt" THEN "loop" ELSE pc
    BY <1>1 DEF irq0_handler
  <2>3. ~carried' => ~carried /\ ReadCount' = ReadCount
    BY Zenon, <1>1, <2>1 DEF irq0_handler, ReadCount, SleepTimeInv, TimerTypeOK
  <2>4. ticks_needed' = ticks_needed
    BY <2>1 DEF ticks_needed
  <2>5. TimerTypeOK'
    BY <2>1, <2>2 DEF SleepTimeInv, TimerTypeOK
  <2>6. ReadCount \in Nat /\ began \in Nat /\ tick_count \in Nat
    BY ReadCountNat DEF SleepTimeInv, TimerTypeOK
  <2> QED BY <2>1, <2>2, <2>3, <2>4, <2>5, <2>6 DEF SleepTimeInv
<1>2. CASE Sleep
  <2>1. UNCHANGED <<tick_count, callbackVars, low>>
        /\ pc' = "start" /\ ms' \in MS /\ began' = tick_count /\ target' = 0
    BY <1>2 DEF Sleep, Step
  <2>2. carried' \in BOOLEAN
    BY Zenon, <1>2 DEF Sleep
  <2>3. TimerTypeOK'
    BY <2>1, <2>2 DEF SleepTimeInv, TimerTypeOK, callbackVars
  <2> QED BY <2>1, <2>3 DEF SleepTimeInv, TimerTypeOK
<1>3. ASSUME NEW from \in {"start", "loop"}, NEW next \in {"start_high", "loop_high"},
             ReadLow(from, next), from = "loop" <=> next = "loop_high"
      PROVE  SleepTimeInv'
  <2>1. UNCHANGED <<tick_count, callbackVars, ms, target, began, carried>>
        /\ pc = from /\ pc' = next
    BY <1>3 DEF ReadLow, Step
  <2>2. ReadCount' = tick_count /\ low' \in 0..(WORD - 1)
    BY <1>3, <2>1, ReadWhole DEF ReadLow, SleepTimeInv, TimerTypeOK
  <2>3. ticks_needed' = ticks_needed
    BY <2>1 DEF ticks_needed
  <2>4. TimerTypeOK'
    BY <2>1, <2>2 DEF SleepTimeInv, TimerTypeOK, callbackVars
  <2> QED BY <1>3, <2>1, <2>2, <2>3, <2>4 DEF SleepTimeInv, TimerTypeOK
<1>4. CASE SetTarget
  <2>1. UNCHANGED <<tick_count, callbackVars, ms, low, began, carried>>
        /\ pc = "start_high" /\ pc' = "loop" /\ target' = ReadCount + ticks_needed
    BY <1>4 DEF SetTarget, Step
  <2>2. ticks_needed' = ticks_needed
    BY <2>1 DEF ticks_needed
  <2>3. ReadCount \in Nat /\ ticks_needed \in Nat /\ began \in Nat
    BY <2>1, ReadCountNat, NeededEnough DEF SleepTimeInv, TimerTypeOK
  <2>4. TimerTypeOK'
    BY <2>1, <2>3 DEF SleepTimeInv, TimerTypeOK, callbackVars
  <2> QED BY <2>1, <2>2, <2>3, <2>4 DEF SleepTimeInv
<1>5. CASE Test
  <2>1. UNCHANGED <<tick_count, callbackVars, ms, low, target, began, carried>>
        /\ pc = "loop_high" /\ pc' \in {"hlt", "awake"}
    BY <1>5 DEF Test, Step
  <2>2. ticks_needed' = ticks_needed
    BY <2>1 DEF ticks_needed
  <2> QED BY <2>1, <2>2 DEF SleepTimeInv, TimerTypeOK, callbackVars
<1>6. ASSUME NEW set \in BOOLEAN, pit_set_callback(set) PROVE SleepTimeInv'
  <2>1. UNCHANGED <<tick_count, pit_tick_count, callback, called, pc, ms, low, target,
                    began, carried>> /\ pit_callback' \in BOOLEAN
    BY <1>6 DEF pit_set_callback
  <2>2. ReadCount' = ReadCount /\ ticks_needed' = ticks_needed
    BY <2>1 DEF ReadCount, ticks_needed
  <2> QED BY <2>1, <2>2 DEF SleepTimeInv, TimerTypeOK
<1>7. CASE UNCHANGED timerVars
  BY <1>7 DEF timerVars, callbackVars, SleepTimeInv, TimerTypeOK, ReadCount, ticks_needed
<1> QED BY <1>1, <1>2, <1>3, <1>4, <1>5, <1>6, <1>7 DEF TimerNext, hal_sleep_ms

\* hal_sleep_ms does not return early, whenever the timer interrupt comes, as
\* long as the low half of the count does not overflow during the sleep.
THEOREM SleepLongEnough == TimerSpec => SleepsEnough
<1>1. TimerInit => SleepTimeInv
  <2> SUFFICES ASSUME TimerInit PROVE SleepTimeInv
    OBVIOUS
  <2>1. callback \in BOOLEAN /\ pit_callback \in BOOLEAN /\ called \in BOOLEAN
        /\ carried \in BOOLEAN /\ pc = "awake"
    BY Zenon DEF TimerInit
  <2>2. TimerTypeOK
    BY <2>1, TimerAssumption DEF TimerInit, TimerTypeOK
  <2> QED BY <2>1, <2>2 DEF SleepTimeInv
<1>2. SleepTimeInv /\ [TimerNext]_timerVars => SleepTimeInv'
  BY SleepTimeStep
<1>3. SleepTimeInv /\ SleepTimeInv' /\ [TimerNext]_timerVars =>
        [/\ TimerTypeOK'
         /\ pc = "loop_high" /\ pc' = "awake" /\ ~carried
               => /\ tick_count > began
                  /\ (tick_count - began + 1) * MS_PER_S > ms * current_hz]_timerVars
  <2> SUFFICES ASSUME SleepTimeInv, TimerNext, pc = "loop_high", pc' = "awake", ~carried
               PROVE  /\ tick_count > began
                      /\ (tick_count - began + 1) * MS_PER_S > ms * current_hz
    BY DEF SleepTimeInv
  <2>1. Test
    BY DEF TimerNext, irq0_handler, pit_set_callback, hal_sleep_ms, Sleep, ReadLow,
           SetTarget, Step
  <2>2. ReadCount >= target
    BY <2>1, ReadCountNat DEF Test, Step, SleepTimeInv, TimerTypeOK
  <2>3. /\ ticks_needed \in Nat \ {0} /\ (ticks_needed + 1) * MS_PER_S > ms * current_hz
        /\ began \in Nat /\ tick_count \in Nat /\ target \in Nat /\ ReadCount \in Nat
        /\ MS_PER_S \in Nat /\ ms \in Nat /\ current_hz \in Nat
    BY NeededEnough, ReadCountNat, TimerAssumption DEF SleepTimeInv, TimerTypeOK
  <2>4. tick_count - began \in Nat /\ ticks_needed <= tick_count - began
    BY <2>2, <2>3 DEF SleepTimeInv
  <2>5. (ticks_needed + 1) * MS_PER_S <= (tick_count - began + 1) * MS_PER_S
    BY <2>3, <2>4, Monotonic
  <2> QED BY <2>3, <2>4, <2>5
<1> QED BY <1>1, <1>2, <1>3, PTL DEF TimerSpec, SleepsEnough

=============================================================================
