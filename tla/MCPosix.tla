------------------------------ MODULE MCPosix -------------------------------
(* POSIX mutexes, condition variables, barriers, read-write locks, threads, *)
(* keys and named objects on small instances, for TLC.                      *)
EXTENDS Posix, TLC

CONSTANTS t1, t2, t3, mutexList, readersCond, writersCond, noList, noOwner,
    e1, e2, n1, n2, noName

ThreeTasks == {t1, t2, t3}
TwoConditions == {readersCond, writersCond}

TwoEntries == {e1, e2}
TwoNames == {n1, n2}

\* A behaviour is about the mutex or what is built on one.
LockWaiters == mutexList

\* The completion semaphore of a thread has the name of the thread.
Lists == {mutexList, readersCond, writersCond} \union ThreeTasks \union TwoEntries

\* Once two updates of the count of waiting writers have crossed, and it may be
\* wrong, at most two threads are inside calls at a time, none reads twice, and
\* no post is left over.
FewAfterCrossing ==
    rw.crossed =>
        /\ Cardinality({t \in Tasks : call[t] # NoCall}) <= 2
        /\ \A t \in Tasks : rw.readers[t] < 2
        /\ \A c \in Conditions : cond[c].count = 0

Interchangeable == Permutations(ThreeTasks)
=============================================================================
