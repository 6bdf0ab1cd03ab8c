----------------------------- MODULE MCObjects ------------------------------
(* The objects of the kernel on small instances, for TLC. *)
EXTENDS Objects, Bitwise, TLC

CONSTANTS t1, t2, t3, semList, eventList, selfWait, sendWait, recvWait, noList,
    noItem, f1, f2

ThreeTasks == {t1, t2, t3}
Lists == {semList, eventList, selfWait, sendWait, recvWait}
TwoFlags == {f1, f2}

AndOf(a, b) == a & b
OrOf(a, b) == a | b

\* The task of the signals is not one of Tasks.
Users == [semaphore |-> 3, event |-> 2, notification |-> 2, buffer |-> 3,
          signal |-> 0]
EventUsers == [event |-> 2]

Message(p, s) == [prio |-> p, size |-> s]
Byte(b) == [prio |-> 0, size |-> b]

\* Urgent messages and a ring that wraps, used by interrupts and one task.
PriorityQueue ==
    [type |-> "mq", priorities |-> TRUE, size |-> 3, msgSize |-> 2,
     items |-> {<<Message(p, s)>> : p \in 0 .. 2, s \in 1 .. 2},
     sizes |-> {1, 2}, users |-> 1, creations |-> 1]

\* Three tasks that contend for two messages.
SharedQueue ==
    [type |-> "mq", priorities |-> TRUE, size |-> 2, msgSize |-> 2,
     items |-> {<<Message(0, 1)>>, <<Message(1, 2)>>},
     sizes |-> {1, 2}, users |-> 3, creations |-> 1]

\* A queue with static buffers has no priorities.
StaticQueue ==
    [type |-> "mq", priorities |-> FALSE, size |-> 1, msgSize |-> 1,
     items |-> {<<Message(0, 1)>>, <<Message(1, 1)>>},
     sizes |-> {1}, users |-> 3, creations |-> 2]

SharedPipe ==
    [type |-> "pipe", priorities |-> FALSE, size |-> 2, msgSize |-> 0,
     items |-> {<<Byte(1)>>, <<Byte(2), Byte(1)>>},
     sizes |-> {1, 2}, users |-> 3, creations |-> 1]

\* Transfers of nothing, and copies in two parts.
LongPipe ==
    [type |-> "pipe", priorities |-> FALSE, size |-> 3, msgSize |-> 0,
     items |-> {<<>>, <<Byte(1)>>, <<Byte(2), Byte(1)>>},
     sizes |-> {0, 1, 2}, users |-> 2, creations |-> 1]

AllSetups == {PriorityQueue, SharedQueue, StaticQueue, SharedPipe, LongPipe}

Interchangeable == Permutations(ThreeTasks)
=============================================================================
