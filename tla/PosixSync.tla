------------------------------ MODULE PosixSync ------------------------------
(***************************************************************************)
(* POSIX condition variables, barriers and read-write locks                *)
(* (compat/posix/posix.c).  A condition variable is a semaphore and a      *)
(* count of waiters; a barrier and a read-write lock are variables behind  *)
(* a mutex, with one or two condition variables.  A behaviour is about one *)
(* object of one kind.                                                     *)
(*                                                                         *)
(* call[t] says where a thread is in its call:                             *)
(*   enter      waits for the mutex, to begin                              *)
(*   inside     has the mutex and is about to look at the object           *)
(*   unlocking  has counted itself as a waiter, still has the mutex        *)
(*   sleeping   has released the mutex, does not wait yet                  *)
(*   asleep     waits for the semaphore                                    *)
(*   failed     has waited in vain, is still counted                       *)
(*   relock     is about to lock the mutex again                           *)
(*   relocking  waits for the mutex                                        *)
(*   leave      is about to unlock the mutex and to return                 *)
(* Between inside and unlocking, and between two looks at the object, it   *)
(* has the mutex, and what it does there is one step, but for the count of *)
(* waiting writers: a writer that does not get the mutex back decrements   *)
(* it all the same, so each access to it is a step of its own, with seen   *)
(* for the value read:                                                     *)
(*   count      has read it, is about to write one more                    *)
(*   uncount    has read it, is about to write one less                    *)
(*   astray     the same, without the mutex                                *)
(*   second     in the unlock, between the two tests that read it          *)
(***************************************************************************)
EXTENDS Calls

CONSTANTS
    MutexList,    \* the wait list of the mutex
    Conditions,   \* condition variables: the wait lists of their semaphores
    ReadersCond, WritersCond,
    NoOwner,      \* AIXOS_HANDLE_INVALID
    SemMaxCount,  \* AIXOS_CFG_SEM_MAX_COUNT
    ReaderSlots,  \* AIXOS_CFG_POSIX_RWLOCK_READERS
    CountModulus, \* waiting_writers wraps: 2^32 in the code
    Threshold,    \* threads that a barrier waits for
    MaxGeneration,\* bound on how often the barrier is passed
    MaxExcess     \* bound on the waits that fail while they are answered

ASSUME PosixSyncAssumption ==
    /\ {ReadersCond, WritersCond} \subseteq Conditions
    /\ Conditions \union {MutexList} \subseteq WaitLists
    /\ MutexList \notin Conditions /\ NoList \notin WaitLists
    /\ NoOwner \notin Tasks /\ IsFiniteSet(Tasks)
    /\ SemMaxCount \in Nat /\ Cardinality(Tasks) <= SemMaxCount
    /\ CountModulus \in Nat /\ Cardinality(Tasks) < CountModulus

VARIABLES
    owner,    \* of the mutex
    cond,     \* per condition variable, waiters and the count of the semaphore
    barrier,  \* count and generation
    rw        \* per thread its reader count, the writer, the waiting writers;
              \* crossed is no variable of the code

syncVars == <<owner, cond, barrier, rw>>

SyncInit ==
    /\ owner = NoOwner
    /\ cond = [c \in Conditions |-> [waiters |-> 0, count |-> 0]]
    /\ barrier = [count |-> 0, generation |-> 0]
    /\ rw = [readers |-> [t \in Tasks |-> 0], writer |-> NoOwner, waiting |-> 0,
             crossed |-> FALSE]

-----------------------------------------------------------------------------
(* The mutex, which is not recursive here, and the condition variables.    *)

\* The thread gets the mutex and goes on with c, or waits for it at c.op.
MutexLock(t, c, place) ==
    IF owner = NoOwner THEN owner' = t /\ Goto(t, c) /\ UNCHANGED w
    ELSE w' = BlockOn(w, t, MutexList, FALSE) /\ Goto(t, [c EXCEPT !.op = place])
                                              /\ UNCHANGED owner

\* The mutex is handed to a waiter, if there is one.
MutexUnlock(t) ==
    IF WaitersOf(w, MutexList) = {} THEN owner' = NoOwner /\ UNCHANGED w
    ELSE \E next \in WaitersOf(w, MutexList) :
            owner' = next /\ w' = Wake(w, next, "OK")

\* cond_wait_common, first critical section.
Commit(t, c, condition) ==
    /\ cond' = [cond EXCEPT ![condition].waiters = @ + 1]
    /\ Goto(t, [c EXCEPT !.op = "unlocking", !.on = condition])

\* n threads are taken off the count, and aixos_sem_post is called n times: it
\* wakes those that sleep, awake, and counts the rest; a post beyond the limit
\* is refused, and those that would follow are not made.
PostsOf(condition, n, awake) ==
    LET asleep == WaitersOf(w, condition)
        free == SemMaxCount - cond[condition].count
    IN  /\ awake \subseteq asleep
        /\ Cardinality(awake) = IF n <= Cardinality(asleep) THEN n ELSE Cardinality(asleep)
        /\ w' = [w EXCEPT
                   !.mode = [t \in Tasks |-> IF t \in awake THEN "active" ELSE @[t]],
                   !.on = [t \in Tasks |-> IF t \in awake THEN NoList ELSE @[t]],
                   !.timed = [t \in Tasks |-> IF t \in awake THEN FALSE ELSE @[t]],
                   !.result = [t \in Tasks |-> IF t \in awake THEN "OK" ELSE @[t]]]
        /\ LET rest == n - Cardinality(awake)
           IN  cond' = [cond EXCEPT ![condition].waiters = @ - n,
                           ![condition].count = @ + IF rest <= free THEN rest ELSE free]

\* Faulty: a thread that does not sleep yet is not posted for.
CondSignalAsleep(condition) ==
    LET asleep == WaitersOf(w, condition)
    IN  IF asleep # {} THEN \E t \in asleep : PostsOf(condition, 1, {t})
        ELSE cond' = [cond EXCEPT ![condition].waiters = 0] /\ UNCHANGED w

\* aixos_pthread_cond_signal
CondSignal(condition) ==
    IF cond[condition].waiters = 0 THEN UNCHANGED <<w, cond>>
    ELSE \E awake \in SUBSET WaitersOf(w, condition) : PostsOf(condition, 1, awake)

\* aixos_pthread_cond_broadcast
CondBroadcast(condition) ==
    \E awake \in SUBSET WaitersOf(w, condition) :
        PostsOf(condition, cond[condition].waiters, awake)

\* Threads that count as waiters of a condition variable and that no signal
\* has reached: those on their way to sleep, and those asleep.
CommittedTo(c) ==
    {t \in Tasks : /\ call[t].op \in {"unlocking", "sleeping", "asleep"}
                   /\ call[t].on = c
                   /\ call[t].op = "asleep" => w.mode[t] = "waiting"}

\* A thread that gives up a wait which a signal has just answered leaves the
\* count, or a post, behind for nobody; a bound on that.
MayFail ==
    \A c \in Conditions :
        cond[c].waiters + cond[c].count < Cardinality(CommittedTo(c)) + MaxExcess

-----------------------------------------------------------------------------
(* The rest of cond_wait_common.                                           *)

\* The mutex is released, and the thread does not sleep yet.
Unlocking(t) ==
    /\ At(t, "unlocking")
    /\ MutexUnlock(t)
    /\ Goto(t, [call[t] EXCEPT !.op = "sleeping"])
    /\ UNCHANGED <<cond, barrier, rw>>

\* aixos_sem_wait; an absolute time that has passed is a timeout of 0.
SemSleep(t) ==
    /\ At(t, "sleeping")
    /\ LET c == call[t].on
       IN  IF cond[c].count > 0
           THEN /\ cond' = [cond EXCEPT ![c].count = @ - 1]
                /\ Goto(t, [call[t] EXCEPT !.op = "relock"])
                /\ UNCHANGED w
           ELSE /\ \/ /\ w' = BlockOn(w, t, c, call[t].how = "timed")
                      /\ Goto(t, [call[t] EXCEPT !.op = "asleep"])
                   \/ /\ call[t].how = "timed" /\ MayFail
                      /\ Goto(t, [call[t] EXCEPT !.op = "failed"])
                      /\ UNCHANGED w
                /\ UNCHANGED cond
    /\ UNCHANGED <<owner, barrier, rw>>

SleepReturn(t) ==
    /\ At(t, "asleep")
    /\ Goto(t, [call[t] EXCEPT !.op = IF w.result[t] = "OK" THEN "relock" ELSE "failed"])
    /\ UNCHANGED <<w, syncVars>>

\* A waiter that gives up is no longer counted, unless a signal has already
\* taken it, or another one, off the count.
NotCounted(n) == IF n # 0 THEN n - 1 ELSE 0

GiveUp(t) ==
    /\ At(t, "failed")
    /\ cond' = [cond EXCEPT ![call[t].on].waiters = NotCounted(@)]
    /\ Goto(t, [call[t] EXCEPT !.op = "relock", !.failed = TRUE])
    /\ UNCHANGED <<w, owner, barrier, rw>>

Relock(t) ==
    /\ At(t, "relock")
    /\ MutexLock(t, [call[t] EXCEPT !.op = "inside", !.on = NoList], "relocking")
    /\ UNCHANGED <<cond, barrier, rw>>

\* Faulty: a writer that does not get the mutex back returns at once.
RelockReturnAtOnce(t) ==
    /\ At(t, "relocking")
    /\ IF w.result[t] = "OK"
       THEN Goto(t, [call[t] EXCEPT !.op = "inside"])
       ELSE Return(t)
    /\ UNCHANGED <<w, syncVars>>

\* The first half of waiting_writers++ and waiting_writers--: the value is read.
\* crossed records, for the properties, that two threads are between their
\* halves, of which one does not have the mutex.
ReadCount(t, place) ==
    /\ Goto(t, [call[t] EXCEPT !.op = place, !.seen = rw.waiting])
    /\ rw' = [rw EXCEPT !.crossed = @ \/ \E u \in Tasks \ {t} :
                 \/ call[u].op = "astray"
                 \/ place = "astray" /\ call[u].op \in {"count", "uncount"}]

\* A thread that is suspended while it waits for the mutex goes on without it.
\* A barrier and a reader return at once, a writer takes itself off the count.
RelockReturn(t) ==
    /\ At(t, "relocking")
    /\ \/ /\ w.result[t] = "OK"
          /\ Goto(t, [call[t] EXCEPT !.op = "inside"]) /\ UNCHANGED rw
       \/ /\ w.result[t] # "OK" /\ call[t].what # "write"
          /\ Return(t) /\ UNCHANGED rw
       \/ /\ w.result[t] # "OK" /\ call[t].what = "write"
          /\ ReadCount(t, "astray")
    /\ UNCHANGED <<w, owner, cond, barrier>>

-----------------------------------------------------------------------------
(* What the calls have in common.                                          *)

\* how is the timeout: none for a call that only tries, forever for one that
\* has none.  A timeout need not be reached, so a call with one may do whatever
\* a call without does.
NewCall(what, how) ==
    [op |-> "inside", what |-> what, how |-> how, on |-> NoList,
     generation |-> 0, again |-> FALSE, failed |-> FALSE, seen |-> 0]

Enter(t, what, how) ==
    /\ Free(t)
    /\ MutexLock(t, NewCall(what, how), "enter")
    /\ UNCHANGED <<cond, barrier, rw>>

EnterReturn(t) ==
    /\ At(t, "enter")
    /\ IF w.result[t] = "OK" THEN Goto(t, [call[t] EXCEPT !.op = "inside"]) ELSE Return(t)
    /\ UNCHANGED <<w, syncVars>>

Leave(t) ==
    /\ At(t, "leave")
    /\ MutexUnlock(t)
    /\ Return(t)
    /\ UNCHANGED <<cond, barrier, rw>>

Leaving(t) == Goto(t, [op |-> "leave"])

Inside1(t, what) == At(t, "inside") /\ call[t].what = what

-----------------------------------------------------------------------------
(* Condition variables, used by the application with its own mutex.        *)

\* The application locks and unlocks the mutex.
Lock(t) == Enter(t, "lock", "forever")

Locked(t) ==
    /\ At(t, "inside") /\ call[t].what \in {"lock", "wait"}
    /\ Return(t)
    /\ UNCHANGED <<w, syncVars>>

Unlock(t) ==
    /\ Free(t) /\ owner = t
    /\ MutexUnlock(t)
    /\ UNCHANGED <<call, cond, barrier, rw>>

CondWait(t, condition, how) ==
    /\ Free(t) /\ owner = t
    /\ Commit(t, NewCall("wait", how), condition)
    /\ UNCHANGED <<w, owner, barrier, rw>>

Notify(t, condition) ==
    /\ Free(t)
    /\ CondSignal(condition) \/ CondBroadcast(condition)
    /\ UNCHANGED <<call, owner, barrier, rw>>

CondCalls(t) ==
    \/ owner # t /\ Lock(t)
    \/ Unlock(t)
    \/ CondWait(t, ReadersCond, "timed")
    \/ Notify(t, ReadersCond)

-----------------------------------------------------------------------------
(* Barriers.                                                               *)

BarrierWait(t) ==
    /\ barrier.generation < MaxGeneration
    /\ Enter(t, "barrier", "forever")

\* The last thread wakes the others; the others wait until it has come.
BarrierLook(t) ==
    /\ Inside1(t, "barrier")
    /\ LET c == [call[t] EXCEPT !.again = TRUE, !.generation = barrier.generation]
       IN  \/ /\ ~call[t].again /\ barrier.count + 1 = Threshold
              /\ barrier' = [count |-> 0, generation |-> barrier.generation + 1]
              /\ CondBroadcast(ReadersCond)
              /\ Leaving(t)
           \/ /\ ~call[t].again /\ barrier.count + 1 # Threshold
              /\ barrier' = [barrier EXCEPT !.count = @ + 1]
              /\ Commit(t, c, ReadersCond)
              /\ UNCHANGED w
           \/ /\ call[t].again /\ UNCHANGED <<w, barrier>>
              /\ IF call[t].generation = barrier.generation /\ ~call[t].failed
                 THEN Commit(t, c, ReadersCond)
                 ELSE Leaving(t) /\ UNCHANGED cond
    /\ UNCHANGED <<owner, rw>>

-----------------------------------------------------------------------------
(* Read-write locks.                                                       *)

Readers == {t \in Tasks : rw.readers[t] # 0}

\* A reader waits for a writer that waits, unless it has the lock already.
ReadBlocked(t) ==
    rw.writer # NoOwner \/ (rw.waiting # 0 /\ t \notin Readers)

\* A call that only tries tests before the loop, which then tests again.
TryFirst(t) == call[t].how = "none" /\ ~call[t].again

RdLook(t) ==
    /\ Inside1(t, "read")
    /\ \/ /\ call[t].failed \/ (TryFirst(t) /\ ReadBlocked(t))
          /\ Leaving(t) /\ UNCHANGED <<cond, rw>>
       \/ /\ TryFirst(t) /\ ~ReadBlocked(t)
          /\ Goto(t, [call[t] EXCEPT !.again = TRUE]) /\ UNCHANGED <<cond, rw>>
       \/ /\ ~call[t].failed /\ ~TryFirst(t) /\ ReadBlocked(t)
          /\ Commit(t, call[t], ReadersCond) /\ UNCHANGED rw
       \/ /\ ~call[t].failed /\ ~TryFirst(t) /\ ~ReadBlocked(t)
          /\ Leaving(t)
          /\ rw' = IF t \in Readers \/ Cardinality(Readers) < ReaderSlots
                   THEN [rw EXCEPT !.readers[t] = @ + 1] ELSE rw
          /\ UNCHANGED cond
    /\ UNCHANGED <<w, owner, barrier>>

\* Faulty: a writer only looks for another writer.
WriteBlockedByWriter == rw.writer # NoOwner

WriteBlocked == rw.writer # NoOwner \/ Readers # {}

\* A call that only tries, or that would wait for itself, is refused before the
\* writer is counted.
WriteRefused(t) ==
    rw.writer = t \/ t \in Readers \/ (call[t].how = "none" /\ WriteBlocked)

\* The loop of a writer that is counted: it is left by a wait that failed, and
\* when nobody has the lock.
WrLook(t) ==
    /\ Inside1(t, "write")
    /\ \/ /\ ~call[t].again /\ WriteRefused(t)
          /\ Leaving(t) /\ UNCHANGED <<cond, rw>>
       \/ /\ ~call[t].again /\ ~WriteRefused(t)
          /\ ReadCount(t, "count") /\ UNCHANGED cond
       \/ /\ call[t].again /\ ~call[t].failed /\ WriteBlocked
          /\ Commit(t, call[t], WritersCond) /\ UNCHANGED rw
       \/ /\ call[t].again /\ (call[t].failed \/ ~WriteBlocked)
          /\ ReadCount(t, "uncount") /\ UNCHANGED cond
    /\ UNCHANGED <<w, owner, barrier>>

Incremented(n) == IF n = CountModulus - 1 THEN 0 ELSE n + 1
Decremented(n) == IF n = 0 THEN CountModulus - 1 ELSE n - 1

\* The second halves: the value is written.
CountWriter(t) ==
    /\ At(t, "count")
    /\ rw' = [rw EXCEPT !.waiting = Incremented(call[t].seen)]
    /\ Goto(t, [call[t] EXCEPT !.op = "inside", !.again = TRUE, !.seen = 0])
    /\ UNCHANGED <<w, owner, cond, barrier>>

\* The writer has the lock unless its wait failed.
UncountWriter(t) ==
    /\ At(t, "uncount")
    /\ rw' = [rw EXCEPT !.waiting = Decremented(call[t].seen),
                        !.writer = IF call[t].failed THEN @ ELSE t]
    /\ Leaving(t)
    /\ UNCHANGED <<w, owner, cond, barrier>>

\* The unlock that follows is refused, for the thread does not own the mutex.
UncountAstray(t) ==
    /\ At(t, "astray")
    /\ rw' = [rw EXCEPT !.waiting = Decremented(call[t].seen)]
    /\ Return(t)
    /\ UNCHANGED <<w, owner, cond, barrier>>

\* aixos_pthread_rwlock_unlock: writers are preferred.
RwUnlockLook(t) ==
    /\ Inside1(t, "unlock")
    /\ \/ /\ rw.writer # t /\ t \notin Readers
          /\ Leaving(t) /\ UNCHANGED <<w, cond, rw>>
       \/ /\ rw.writer = t \/ t \in Readers
          /\ rw' = IF rw.writer = t THEN [rw EXCEPT !.writer = NoOwner]
                   ELSE [rw EXCEPT !.readers[t] = @ - 1]
          /\ \/ /\ rw'.writer = NoOwner /\ Readers' = {} /\ rw.waiting # 0
                /\ CondSignal(WritersCond) /\ Leaving(t)
             \/ /\ rw'.writer = NoOwner /\ (Readers' # {} \/ rw.waiting = 0)
                /\ Goto(t, [call[t] EXCEPT !.op = "second"]) /\ UNCHANGED <<w, cond>>
             \/ rw'.writer # NoOwner /\ Leaving(t) /\ UNCHANGED <<w, cond>>
    /\ UNCHANGED <<owner, barrier>>

RwUnlockAgain(t) ==
    /\ At(t, "second")
    /\ IF rw.waiting = 0 THEN CondBroadcast(ReadersCond) ELSE UNCHANGED <<w, cond>>
    /\ Leaving(t)
    /\ UNCHANGED <<owner, barrier, rw>>

RwCalls(t) ==
    \/ \E how \in {"none", "timed"} :
          \/ Enter(t, "write", how)
          \/ rw.readers[t] < 2 /\ Enter(t, "read", how)
    \/ Enter(t, "unlock", "forever")

-----------------------------------------------------------------------------

\* A wait comes to its end without a signal or an unlock.
WaitFails(t) ==
    /\ TimeOut(t) \/ Interrupted(t)
    /\ call[t].op = "asleep" => MayFail
    /\ UNCHANGED <<call, syncVars>>

\* A thread goes on with its call.
GoOn(t) ==
    \/ EnterReturn(t) \/ Unlocking(t) \/ SemSleep(t) \/ SleepReturn(t)
    \/ GiveUp(t) \/ Relock(t) \/ RelockReturn(t) \/ Leave(t)
    \/ Locked(t) \/ BarrierLook(t) \/ RdLook(t) \/ WrLook(t)
    \/ CountWriter(t) \/ UncountWriter(t) \/ UncountAstray(t)
    \/ RwUnlockLook(t) \/ RwUnlockAgain(t)

-----------------------------------------------------------------------------
(* Properties.                                                             *)

\* cond_wait_common and the signals, lines 766 to 840: every thread that has
\* begun to wait is either counted, so that the next signal posts for it, or a
\* post for it is there: no timeout or suspension that crosses a signal, and no
\* signal between the unlock and the sleep, lets a wake-up get lost.
NoSignalLost ==
    \A c \in Conditions :
        Cardinality(CommittedTo(c)) <= cond[c].waiters + cond[c].count

\* The writers that are in the loop of rwlock_wrlock_common.
CountedWriters ==
    {t \in Tasks : /\ call[t].op \notin {"none", "leave"}
                   /\ call[t].what = "write" /\ call[t].again}

\* rwlock, lines 932 to 1077: writers exclude readers, always.  And exactly the
\* writers that are in the loop of rwlock_wrlock_common hold readers off, however
\* their waits end, unless two updates of the count have crossed: line 1016 runs
\* without the mutex when the thread has not got it back (suspended while it
\* waits for it), and if it overlaps another writer's line 1008, 1016 or 1021
\* one of the two updates is lost and the count is wrong for good.
RwlockExact ==
    /\ rw.writer # NoOwner => Readers = {}
    /\ ~rw.crossed => rw.waiting = Cardinality(CountedWriters)

\* POSIX_COMPATIBILITY.md, line 47: barriers are supported.  A thread does not
\* sleep at a barrier that has been passed since it came.
BarrierReleases ==
    \A t \in Tasks :
        /\ call[t].op = "asleep" /\ call[t].what = "barrier"
        /\ w.mode[t] = "waiting"
        => call[t].generation = barrier.generation
=============================================================================
