------------------------------- MODULE Buffers -------------------------------
(***************************************************************************)
(* Message queues (kernel/ipc/mq.c) and pipes (kernel/ipc/pipe.c): a ring  *)
(* of slots, a list of tasks that wait for room and a list of tasks that   *)
(* wait for something to take.  A behaviour is about one control block,    *)
(* which is created and deleted again and again; setup says what kind of   *)
(* object it is.  A pipe is a ring of bytes of the lowest priority.        *)
(***************************************************************************)
EXTENDS Calls, Integers, SequencesExt

CONSTANTS
    SendWait,  \* send_wait of the queue, write_wait of the pipe
    RecvWait,  \* recv_wait of the queue, read_wait of the pipe
    NoItem,    \* what is in a slot that is not in use
    Setups,    \* kinds of objects, see below
    IsrCopyMax \* AIXOS_CFG_ISR_COPY_MAX_BYTES

\* A setup: type is "mq" or "pipe"; priorities, whether the queue has an
\* array of priorities (one from aixos_mq_create_static has none); size, the
\* number of slots; msgSize, the largest message; items, what is sent; sizes,
\* the buffers of the receivers and the lengths of the reads; users and
\* creations, bounds on the tasks that exist and on how often it is created.
\* An mq stores one message of a call, a pipe its bytes, which have no priority.
ASSUME BuffersAssumption ==
    /\ {SendWait, RecvWait} \subseteq WaitLists /\ SendWait # RecvWait
    /\ NoList \notin WaitLists /\ IsFiniteSet(Tasks)
    /\ \A s \in Setups :
          /\ s.type \in {"mq", "pipe"} /\ s.priorities \in BOOLEAN
          /\ s.type = "pipe" => ~s.priorities
          /\ s.size \in Nat \ {0} /\ s.sizes \subseteq Nat
          /\ s.items \subseteq Seq([prio : Nat, size : Nat])
          /\ \A data \in s.items :
                IF s.type = "mq" THEN Len(data) = 1
                ELSE \A i \in DOMAIN data : data[i].prio = 0

VARIABLES setup, ring,
    left   \* per list: a woken task has left what it was woken for to others

Size == setup.size

EmptyRing(live, gen) ==
    [live |-> live, gen |-> gen, slot |-> [i \in 0 .. Size - 1 |-> NoItem],
     head |-> 0, tail |-> 0, count |-> 0]

BufferInit ==
    /\ setup \in Setups
    /\ ring = EmptyRing(FALSE, 0)
    /\ left = {}

Valid(h) == ring.live /\ h = ring.gen

\* The slot of the item that is the i-th from the front, from 0.
SlotOf(i) == (ring.head + i) % Size

Create ==
    /\ ~ring.live /\ ring.gen < setup.creations
    /\ ring' = EmptyRing(TRUE, ring.gen + 1)
    /\ left' = {}
    /\ UNCHANGED <<w, call, setup>>

Delete(h) ==
    /\ Valid(h)
    /\ WaitersOf(w, SendWait) = {} /\ WaitersOf(w, RecvWait) = {}
    /\ ring' = EmptyRing(FALSE, ring.gen)
    /\ UNCHANGED <<w, call, setup, left>>

-----------------------------------------------------------------------------
(* The ring.                                                               *)

\* Faulty: a message goes before those that are as urgent.
InsertUnstable(item) ==
    LET urgent == {i \in 0 .. ring.count - 1 :
                      ring.slot[SlotOf(i)].prio <= item.prio}
    IN  IF setup.priorities /\ urgent # {}
        THEN CHOOSE i \in urgent : \A j \in urgent : i <= j ELSE ring.count

\* Where mq_send_common inserts: before the first less urgent message.
InsertPlace(item) ==
    LET lower == {i \in 0 .. ring.count - 1 :
                     ring.slot[SlotOf(i)].prio < item.prio}
    IN  IF setup.priorities /\ item.prio # 0 /\ lower # {}
        THEN CHOOSE i \in lower : \A j \in lower : i <= j
        ELSE ring.count

\* The messages behind the place are shifted by one slot, the last one first.
Inserted(item) ==
    LET place == InsertPlace(item)
        shifted == {SlotOf(i) : i \in place + 1 .. ring.count}
    IN  [ring EXCEPT
            !.slot = [s \in 0 .. Size - 1 |->
                        IF s = SlotOf(place) THEN item
                        ELSE IF s \in shifted THEN @[(s - 1) % Size] ELSE @[s]],
            !.tail = (SlotOf(place) + 1) % Size,
            !.count = @ + 1]

\* Bytes are copied behind tail up to the end of the buffer, and the rest to
\* its start.
Appended(bytes) ==
    LET first == Size - ring.tail
    IN  [ring EXCEPT
            !.slot = [s \in 0 .. Size - 1 |->
                        IF s >= ring.tail /\ s - ring.tail < Len(bytes)
                        THEN bytes[s - ring.tail + 1]
                        ELSE IF s + first < Len(bytes)
                        THEN bytes[s + first + 1] ELSE @[s]],
            !.tail = (@ + Len(bytes)) % Size,
            !.count = @ + Len(bytes)]

\* n items are taken from the front.  What stays in their slots is not read
\* again, so the model clears them.
Removed(n) ==
    LET taken == {SlotOf(i) : i \in 0 .. n - 1}
    IN  [ring EXCEPT
            !.slot = [s \in 0 .. Size - 1 |-> IF s \in taken THEN NoItem ELSE @[s]],
            !.head = (@ + n) % Size,
            !.count = @ - n]

-----------------------------------------------------------------------------
(* Waking, waiting and what is left behind.                                *)

Min2(a, b) == IF a <= b THEN a ELSE b

\* The tasks that were woken from a list and have not run on yet.
Woken(op) ==
    {t \in Inside(op) : w.mode[t] = "active" /\ w.result[t] = "OK"}

\* Faulty: a waiter is woken only when the ring was empty or full.
WakeForEdge(list, moved) ==
    IF WaitersOf(w, list) = {} \/ ring.count \notin {0, Size} THEN w' = w
    ELSE \E t \in WaitersOf(w, list) : w' = Wake(w, t, "OK")

\* The first waiter of a list is woken, if there is one and if the transfer
\* has moved anything.
WakeFor(list, moved) ==
    IF WaitersOf(w, list) = {} \/ ~moved THEN w' = w
    ELSE \E t \in WaitersOf(w, list) : w' = Wake(w, t, "OK")

\* What a list of waiting tasks is about is there to be had.
Available(rr, list) == IF list = RecvWait THEN rr.count > 0 ELSE rr.count < Size

\* A mark stays as long as somebody waits for what was left.
StillLeft(marks, ww, rr) ==
    {list \in marks : WaitersOf(ww, list) # {} /\ Available(rr, list)}

\* A task ends its call, or waits again: woken says that it had been woken
\* for the list, and goes without taking all it was woken for.
Leave(list, woken) ==
    left' = StillLeft(IF woken THEN left \union {list} ELSE left, w', ring')

\* One round of a loop that waits: block, or give up when no time remains.
WaitRound(t, c, list, expired) ==
    /\ IF expired THEN Return(t) /\ UNCHANGED w
       ELSE w' = BlockOn(w, t, list, c.timed) /\ Goto(t, c)
    /\ UNCHANGED ring
    /\ Leave(list, FALSE)

-----------------------------------------------------------------------------
(* Sending: mq_send_common and pipe_write_common.                          *)

\* What is stored of the data: a message is stored whole, of the bytes those
\* there is room for.
Stored(c) ==
    IF setup.type = "mq" THEN Inserted(c.data[1])
    ELSE Appended(SubSeq(c.data, 1, Min2(Len(c.data), Size - ring.count)))

\* A queue without priorities refuses an urgent message once it has room.
Refused(c) == setup.type = "mq" /\ ~setup.priorities /\ c.data[1].prio # 0

\* The critical section of a sender, entered for the first time or again
\* after a wake; an interrupt (t = NoCall) cannot wait.
SendRound(t, c, woken, expired) ==
    \/ /\ ~Valid(c.handle)
       /\ Return(t)
       /\ UNCHANGED <<w, ring>>
       /\ Leave(SendWait, FALSE)
    \/ /\ Valid(c.handle) /\ ring.count = Size
       /\ WaitRound(t, c, SendWait, expired)
    \/ /\ Valid(c.handle) /\ ring.count < Size
       /\ Return(t)
       /\ IF Refused(c) THEN UNCHANGED <<w, ring>> /\ Leave(SendWait, woken)
          ELSE /\ ring' = Stored(c)
               /\ WakeFor(RecvWait, ring'.count # ring.count)
               /\ Leave(SendWait, woken /\ setup.type = "pipe" /\ ring'.count < Size)

\* aixos_mq_send, aixos_mq_send_priority, aixos_pipe_write
Send(t, h, data, timeout) ==
    /\ Free(t)
    /\ setup.type = "mq" => data[1].size <= setup.msgSize
    /\ SendRound(t, [op |-> "send", handle |-> h, data |-> data,
                     timed |-> timeout = "timed"], FALSE, timeout = "none")
    /\ UNCHANGED setup

SendReturn(t) ==
    /\ At(t, "send")
    /\ IF w.result[t] # "OK"
       THEN Return(t) /\ UNCHANGED <<w, ring>> /\ Leave(SendWait, FALSE)
       ELSE \E expired \in BOOLEAN :
               /\ expired => call[t].timed
               /\ SendRound(t, call[t], TRUE, expired)
    /\ UNCHANGED setup

\* aixos_mq_send_from_isr (always of priority 0) and aixos_pipe_write_from_isr
SendFromIsr(h, data) ==
    /\ Valid(h) /\ ring.count < Size
    /\ IF setup.type = "mq"
       THEN data[1].size <= Min2(IsrCopyMax, setup.msgSize) /\ data[1].prio = 0
       ELSE Len(data) <= IsrCopyMax
    /\ ring' = Stored([data |-> data])
    /\ WakeFor(RecvWait, ring'.count # ring.count)
    /\ Leave(SendWait, FALSE)
    /\ UNCHANGED <<call, setup>>

-----------------------------------------------------------------------------
(* Receiving: aixos_mq_recv_priority and pipe_read_common.                 *)

\* A message that is too large for the buffer stays where it is.
TooLarge(size) == setup.type = "mq" /\ ring.slot[ring.head].size > size

TakenCount(size) == IF setup.type = "mq" THEN 1 ELSE Min2(size, ring.count)

RecvRound(t, c, woken, expired) ==
    \/ /\ ~Valid(c.handle)
       /\ Return(t)
       /\ UNCHANGED <<w, ring>>
       /\ Leave(RecvWait, FALSE)
    \/ /\ Valid(c.handle) /\ ring.count = 0
       /\ WaitRound(t, c, RecvWait, expired)
    \/ /\ Valid(c.handle) /\ ring.count > 0
       /\ Return(t)
       /\ IF TooLarge(c.size) THEN UNCHANGED <<w, ring>> /\ Leave(RecvWait, woken)
          ELSE /\ ring' = Removed(TakenCount(c.size))
               /\ WakeFor(SendWait, ring'.count # ring.count)
               /\ Leave(RecvWait, woken /\ setup.type = "pipe" /\ ring'.count > 0)

\* aixos_mq_recv, aixos_mq_recv_priority, aixos_pipe_read
Recv(t, h, size, timeout) ==
    /\ Free(t)
    /\ RecvRound(t, [op |-> "recv", handle |-> h, size |-> size,
                     timed |-> timeout = "timed"], FALSE, timeout = "none")
    /\ UNCHANGED setup

RecvReturn(t) ==
    /\ At(t, "recv")
    /\ IF w.result[t] # "OK"
       THEN Return(t) /\ UNCHANGED <<w, ring>> /\ Leave(RecvWait, FALSE)
       ELSE \E expired \in BOOLEAN :
               /\ expired => call[t].timed
               /\ RecvRound(t, call[t], TRUE, expired)
    /\ UNCHANGED setup

\* A task that was woken and is deleted before it runs leaves it all behind.
BufferTaskEvents ==
    /\ TaskEvents
    /\ Cardinality({t \in Tasks : w'.mode[t] # "off"}) <= setup.users
    /\ left' = StillLeft(
          {list \in {SendWait, RecvWait} :
              \/ list \in left
              \/ \E t \in Woken(IF list = SendWait THEN "send" ELSE "recv") :
                    w'.mode[t] = "off"}, w', ring)
    /\ UNCHANGED <<setup, ring>>

BufferNext ==
    \/ Create
    \/ BufferTaskEvents
    \/ \E h \in 1 .. setup.creations :
          \/ Delete(h)
          \/ \E data \in setup.items : SendFromIsr(h, data)
          \/ \E t \in Tasks, data \in setup.items, timeout \in Timeouts :
                Send(t, h, data, timeout)
          \/ \E t \in Tasks, size \in setup.sizes, timeout \in Timeouts :
                Recv(t, h, size, timeout)
    \/ \E t \in Tasks : SendReturn(t) \/ RecvReturn(t)

-----------------------------------------------------------------------------

\* What the ring holds, first item first.
Content == [i \in 1 .. ring.count |-> ring.slot[SlotOf(i - 1)]]

Ring == INSTANCE BoundedBuffer WITH capacity <- Size, content <- Content

\* mq.c, lines 160 to 197, and pipe.c: with heads and tails that wrap, the
\* shifting of less urgent messages and copies in two parts, the ring is a
\* bounded sequence in order of priority, and of arrival among equals.
RingImplements == Ring!Spec

\* mq.c and pipe.c wake one task for each transfer, and a task that was
\* overtaken waits again: nobody waits for what is there unless enough woken
\* tasks are on their way to it, or one of them has left it to the others: it
\* was deleted, its buffer was too small, its message was refused, or, in a
\* pipe, it did not take all the bytes or fill all the room.
NoLostWakeup ==
    /\ WaitersOf(w, RecvWait) # {} /\ RecvWait \notin left =>
          IF setup.type = "mq" THEN ring.count <= Cardinality(Woken("recv"))
          ELSE ring.count > 0 => Woken("recv") # {}
    /\ WaitersOf(w, SendWait) # {} /\ SendWait \notin left =>
          IF setup.type = "mq" THEN Size - ring.count <= Cardinality(Woken("send"))
          ELSE ring.count < Size => Woken("send") # {}
=============================================================================
