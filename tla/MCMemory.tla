------------------------------ MODULE MCMemory -------------------------------
(* A heap of a few blocks, a kind of queue and the tasks, for TLC. *)
EXTENDS Memory, TLC

CONSTANTS c1, c2, t1, t2, t3, reapList

TwoClients == {c1, c2}
ThreeThreads == {t1, t2, t3}

\* Semaphores and mutexes have no buffers; generations wrap.
SlotsOnly(n) ==
    [sizes |-> <<>>, kernel |-> FALSE, early |-> FALSE, slots |-> n, page |-> 0,
     lives |-> GenModulus]

\* A queue has three buffers; a task has a control block and a stack, and its
\* slot lies in a page that is allocated when it is needed.
SmallKind ==
    [mq |-> [sizes |-> <<4, 4, 4>>, kernel |-> FALSE, early |-> FALSE,
             slots |-> 1, page |-> 0, lives |-> 2],
     task |-> [sizes |-> <<4, 12>>, kernel |-> TRUE, early |-> TRUE,
               slots |-> 1, page |-> 4, lives |-> 1],
     sem |-> SlotsOnly(2), mutex |-> SlotsOnly(1)]

Interchangeable == Permutations(TwoClients)
=============================================================================
