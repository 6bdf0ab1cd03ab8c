------------------------------ MODULE Semaphore ------------------------------
(***************************************************************************)
(* Counting semaphores (kernel/ipc/sem.c), one semaphore control block.    *)
(* The application keeps the handles of semaphores it has deleted; gen     *)
(* counts the creations, and a handle is the number of its creation.       *)
(* permits is no variable of the code: it counts what the callers were     *)
(* told, the permissions created or posted with the answer OK less the     *)
(* waits answered OK.  No action reads it.                                 *)
(***************************************************************************)
EXTENDS Calls, Integers

CONSTANTS
    SemList,      \* sem_pool[0].wait_list
    SemMaxCount   \* AIXOS_CFG_SEM_MAX_COUNT

ASSUME SemaphoreAssumption ==
    /\ SemList \in WaitLists /\ NoList \notin WaitLists
    /\ SemMaxCount \in Nat
    /\ IsFiniteSet(Tasks)

VARIABLES
    sem,     \* sem_pool[0]
    permits  \* permissions promised to the callers and not yet received

semVars == <<sem, permits>>

SemInit == sem = [live |-> FALSE, gen |-> 0, count |-> 0] /\ permits = 0

SemCreate(n) ==
    /\ ~sem.live /\ sem.gen < MaxHandles
    /\ sem' = [live |-> TRUE, gen |-> sem.gen + 1, count |-> n]
    /\ permits' = permits + n
    /\ UNCHANGED <<w, call>>

\* sem_from_handle
SemValid(h) == sem.live /\ h = sem.gen

\* aixos_sem_wait; a wait with timeout 0 that finds nothing changes nothing.
SemWait(t, h, timeout) ==
    /\ Free(t)
    /\ SemValid(h)
    /\ IF sem.count > 0
       THEN /\ sem' = [sem EXCEPT !.count = @ - 1]
            /\ permits' = permits - 1
            /\ UNCHANGED <<w, call>>
       ELSE /\ timeout # "none"
            /\ w' = BlockOn(w, t, SemList, timeout = "timed")
            /\ Goto(t, [op |-> "sem_wait"])
            /\ UNCHANGED semVars

\* The task runs on and returns what ended its wait.
SemWaitReturn(t) ==
    /\ At(t, "sem_wait") /\ Return(t)
    /\ permits' = IF w.result[t] = "OK" THEN permits - 1 ELSE permits
    /\ UNCHANGED <<w, sem>>

\* Faulty: the permission is handed to the waiter and counted as well.
SemPostCounted(h) ==
    /\ SemValid(h)
    /\ sem.count < SemMaxCount
    /\ sem' = [sem EXCEPT !.count = @ + 1]
    /\ permits' = permits + 1
    /\ IF WaitersOf(w, SemList) = {} THEN UNCHANGED w
       ELSE \E t \in WaitersOf(w, SemList) : w' = Wake(w, t, "OK")
    /\ UNCHANGED call

\* Faulty: a post at the limit is answered OK and changes nothing.
SemPostForgotten(h) ==
    /\ SemValid(h)
    /\ permits' = permits + 1
    /\ IF WaitersOf(w, SemList) # {}
       THEN /\ \E t \in WaitersOf(w, SemList) : w' = Wake(w, t, "OK")
            /\ UNCHANGED sem
       ELSE /\ sem' = [sem EXCEPT !.count = IF @ = SemMaxCount THEN @ ELSE @ + 1]
            /\ UNCHANGED w
    /\ UNCHANGED call

\* aixos_sem_post and aixos_sem_post_from_isr
SemPost(h) ==
    /\ SemValid(h)
    /\ IF WaitersOf(w, SemList) # {}
       THEN /\ \E t \in WaitersOf(w, SemList) : w' = Wake(w, t, "OK")
            /\ UNCHANGED sem
       ELSE /\ sem.count # SemMaxCount
            /\ sem' = [sem EXCEPT !.count = @ + 1]
            /\ UNCHANGED w
    /\ permits' = permits + 1
    /\ UNCHANGED call

SemDelete(h) ==
    /\ SemValid(h)
    /\ WaitersOf(w, SemList) = {}
    /\ sem' = [sem EXCEPT !.live = FALSE, !.count = 0]
    /\ permits' = permits - sem.count
    /\ UNCHANGED <<w, call>>

SemNext ==
    \/ \E n \in 0 .. SemMaxCount : SemCreate(n)
    \/ \E h \in 1 .. MaxHandles :
          \/ SemPost(h) \/ SemDelete(h)
          \/ \E t \in Tasks, timeout \in Timeouts : SemWait(t, h, timeout)
    \/ \E t \in Tasks : SemWaitReturn(t)

-----------------------------------------------------------------------------

\* The tasks on the wait list, and those that a post has woken and that have
\* not returned from aixos_sem_wait yet.
SemWaiters == {t \in Inside("sem_wait") : w.mode[t] = "waiting"}

SemGranted ==
    {t \in Inside("sem_wait") : w.mode[t] = "active" /\ w.result[t] = "OK"}

\* What happens to the tasks.  A permission goes with the task that is deleted
\* before it could return with it.
SemTaskEvents ==
    /\ TaskEvents
    /\ permits' = IF \E t \in SemGranted : w'.mode[t] = "off"
                  THEN permits - 1 ELSE permits
    /\ UNCHANGED sem

Counting == INSTANCE CountingSemaphore WITH
    MaxValue <- SemMaxCount, exists <- sem.live, value <- sem.count,
    waiters <- SemWaiters, granted <- SemGranted

\* sem.c, with timeouts, suspension, deletion of tasks and of the semaphore
\* and stale handles: the semaphore is a counting semaphore.  Each post that is
\* answered OK makes one permission, counted or handed to one task, each wait
\* that is answered OK uses one up, and nothing else but creation, deletion of
\* the semaphore and deletion of a task on its way out changes how many there
\* are; no task waits while there is one.
SemaphoreImplements == Counting!Spec
=============================================================================
