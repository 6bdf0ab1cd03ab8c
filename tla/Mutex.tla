------------------------------- MODULE Mutex --------------------------------
(***************************************************************************)
(* Mutexes with ownership, recursive locking and transitive priority       *)
(* inheritance (kernel/ipc/mutex.c) under the scheduler of module Kernel,  *)
(* from the moment aixos_start has dispatched the first task.              *)
(*                                                                         *)
(* Beside the kernel data stands the record of the mutexes: base, the      *)
(* priority a task was given; live, the mutexes that exist; owner and      *)
(* count, of a mutex; and held, the mutexes a task owns, in the order it   *)
(* took them.  The wait lists are those of the mutexes and of other        *)
(* objects, on which tasks wait for interrupts.                            *)
(***************************************************************************)
EXTENDS Kernel

CONSTANTS
    Mutexes,        \* the mutexes: each is the identity of its wait list
    Idle,           \* the idle task
    BasePriority,   \* the priority each task is created with
    TaskOrder,      \* the tasks, in the order of their creation
    NewPriorities,  \* the priorities the application changes tasks to
    Delays,         \* the timeouts, in ticks, that it passes
    ChainLimit,     \* AIXOS_CFG_TASK_HANDLE_LIMIT: the depth of recompute_chain
    MaxCount        \* bound on recursive locking

ASSUME MutexAssumption ==
    /\ Mutexes \subseteq WaitLists
    /\ BasePriority \in [Tasks -> Priorities]
    /\ IsFiniteSet(Tasks)
    /\ TaskOrder \in Seq(Tasks) /\ NoRepeat(TaskOrder)
    /\ \A t \in Tasks : Linked(TaskOrder, t)
    /\ Idle \in Tasks /\ BasePriority[Idle] = 0
    /\ NewPriorities \subseteq Priorities
    /\ Delays \subseteq 1 .. MaxTimeout
    /\ ChainLimit \in Nat /\ ChainLimit >= Cardinality(Tasks)
    /\ MaxCount \in Nat \ {0}

VARIABLES
    k,   \* the kernel data
    mx   \* the mutexes

vars == <<k, mx>>

Objects == WaitLists \ Mutexes
UserTasks == Tasks \ {Idle}

-----------------------------------------------------------------------------
(* Priority inheritance.                                                   *)

\* The priority of a task and of the first waiters of the mutexes it holds.
InheritedFrom(kk, mm, t) ==
    {mm.base[t]} \union
    {kk.prio[Head(kk.waitq[m])] : m \in {m \in ToSet(mm.held[t]) : kk.waitq[m] # <<>>}}

EffectivePriority(kk, mm, t) ==
    CHOOSE p \in InheritedFrom(kk, mm, t) : \A q \in InheritedFrom(kk, mm, t) : q <= p

\* The owner of the mutex that t waits on, where recompute_chain goes next.
NextInChain(kk, mm, t) ==
    IF t = NoTask \/ kk.waitOn[t] \notin Mutexes THEN NoTask
    ELSE LET owner == mm.owner[kk.waitOn[t]]
         IN  IF owner = t THEN NoTask ELSE owner

\* Faulty: a boosted waiter keeps its place on the mutex it waits for.
RecomputeUnmoved(kk, mm, t) ==
    LET p == EffectivePriority(kk, mm, t)
    IN  IF p = kk.prio[t] THEN kk
        ELSE SchedRequeue([kk EXCEPT !.prio[t] = p], t, kk.prio[t])

\* One level of recompute_chain.  Only a wait on a mutex is re-sorted.
Recompute(kk, mm, t) ==
    LET p == EffectivePriority(kk, mm, t)
        requeued == SchedRequeue([kk EXCEPT !.prio[t] = p], t, kk.prio[t])
    IN  IF p = kk.prio[t] THEN kk
        ELSE IF kk.waitOn[t] \in Mutexes
        THEN WaiterPriorityChanged(requeued, t) ELSE requeued

\* Faulty: the inheritance is not transitive.
RecomputeOwnerOnly(kk, mm, t) == IF t = NoTask THEN kk ELSE Recompute(kk, mm, t)

\* The tasks that recompute_chain visits: the edges that it follows do not
\* change on the way.
Chain(kk, mm, t) ==
    LET task[i \in 0 .. ChainLimit] ==
            IF i = 0 THEN t ELSE NextInChain(kk, mm, task[i - 1])
    IN  task

\* recompute_chain(t, 0), whose recursive call is its last action.
RecomputeChain(kk, mm, t) ==
    LET task == Chain(kk, mm, t)
        after[i \in 0 .. ChainLimit] ==
            IF i = 0 THEN kk
            ELSE IF task[i - 1] = NoTask THEN after[i - 1]
            ELSE Recompute(after[i - 1], mm, task[i - 1])
    IN  after[ChainLimit]

\* Leave the wait list; the owner of a mutex may lose a priority by it.
UnlinkWaiter(kk, mm, t) ==
    LET unlinked == [kk EXCEPT !.waitq = [w \in WaitLists |-> ListDel(@[w], t)]]
    IN  IF kk.waitOn[t] \in Mutexes
        THEN RecomputeChain(unlinked, mm, mm.owner[kk.waitOn[t]])
        ELSE unlinked

\* task_detach_wait_locked: the wait object is cleared last.
DetachWaiter(kk, mm, t, result) == Detach(UnlinkWaiter(kk, mm, t), t, result)

\* aixos_task_wake
Wake(kk, mm, t, result) ==
    IF kk.state[t] \in {"BLOCKED", "DELAYED"}
    THEN RequestPreemption(MakeReady(DetachWaiter(kk, mm, t, result), t))
    ELSE kk

\* aixos_task_block_current on a list, with aixos_mutex_waiter_added.  The
\* timeout list plays no part in the inheritance, so its order is immaterial.
Block(kk, mm, list, timeout) ==
    LET waiting == BeginWait(kk, "BLOCKED", list, timeout)
    IN  RescheduleRequest(IF list \in Mutexes
                          THEN RecomputeChain(waiting, mm, mm.owner[list])
                          ELSE waiting)

-----------------------------------------------------------------------------

\* aixos_start queues the tasks in the order of their creation.
Init ==
    LET created ==
           [state    |-> [t \in Tasks |-> "READY"],
            prio     |-> BasePriority,
            slice    |-> [t \in Tasks |-> SliceTicks],
            wake     |-> [t \in Tasks |-> 0],
            waitOn   |-> [t \in Tasks |-> NoList],
            result   |-> [t \in Tasks |-> "OK"],
            ready    |-> [p \in Priorities |-> <<>>],
            bitmap   |-> {},
            waitq    |-> [w \in WaitLists |-> <<>>],
            timeouts |-> <<>>,
            cur      |-> NoTask,
            isr      |-> 0,
            lock     |-> 0,
            pending  |-> FALSE,
            pendsv   |-> FALSE,
            tick     |-> 0]
        queued[i \in 0 .. Len(TaskOrder)] ==
            IF i = 0 THEN created ELSE SchedAdd(queued[i - 1], TaskOrder[i])
    IN  /\ k = Schedule(queued[Len(TaskOrder)])
        /\ mx = [base  |-> BasePriority,
                 live  |-> {},
                 owner |-> [m \in Mutexes |-> NoTask],
                 count |-> [m \in Mutexes |-> 0],
                 held  |-> [t \in Tasks |-> <<>>]]

\* Thread code of an application task runs.
Calling == ~k.pendsv /\ k.cur # Idle

MutexCreate(m) ==
    /\ Calling
    /\ m \notin mx.live
    /\ mx' = [mx EXCEPT !.live = @ \union {m}, !.owner[m] = NoTask, !.count[m] = 0]
    /\ UNCHANGED k

Take(mm, m, t) ==
    [mm EXCEPT !.owner[m] = t, !.count[m] = 1, !.held[t] = Append(@, m)]

\* aixos_mutex_lock of a mutex that is free ...
LockFree(m) ==
    /\ Calling
    /\ m \in mx.live /\ mx.owner[m] = NoTask
    /\ mx' = Take(mx, m, k.cur)
    /\ UNCHANGED k

\* ... that the caller owns: MaxCount is UINT32_MAX in the code ...
LockAgain(m) ==
    /\ Calling
    /\ m \in mx.live /\ mx.owner[m] = k.cur
    /\ mx.count[m] < MaxCount
    /\ mx' = [mx EXCEPT !.count[m] = @ + 1]
    /\ UNCHANGED k

\* ... and that another task owns: d = 0 is to wait for ever.
LockBusy(m, d) ==
    /\ Calling
    /\ m \in mx.live /\ mx.owner[m] \notin {NoTask, k.cur}
    /\ k' = Block(k, mx, m, d)
    /\ UNCHANGED mx

Release(mm, m) ==
    [mm EXCEPT !.count[m] = 0, !.held[mm.owner[m]] = ListDel(@, m)]

\* An unlock that is not the last one
UnlockOnce(m) ==
    /\ mx.count[m] > 1
    /\ mx' = [mx EXCEPT !.count[m] = @ - 1]
    /\ UNCHANGED k

\* Faulty: the first waiter is woken and left to take the mutex itself.
MutexUnlockFree(m) ==
    /\ Calling
    /\ m \in mx.live /\ mx.owner[m] = k.cur
    /\ \/ UnlockOnce(m)
       \/ LET free == [Release(mx, m) EXCEPT !.owner[m] = NoTask]
              woken == IF k.waitq[m] = <<>> THEN k
                       ELSE Wake(k, free, Head(k.waitq[m]), "OK")
          IN  /\ mx.count[m] <= 1
              /\ mx' = free
              /\ k' = RecomputeChain(woken, free, k.cur)

\* The last unlock hands the mutex to the first waiter, wakes it, and only
\* then gives up the inherited priority, without a request for preemption.
MutexUnlock(m) ==
    /\ Calling
    /\ m \in mx.live /\ mx.owner[m] = k.cur
    /\ \/ UnlockOnce(m)
       \/ LET next == Head(k.waitq[m])
              free == [Release(mx, m) EXCEPT !.owner[m] = NoTask]
              handed == Take(Release(mx, m), m, next)
          IN  /\ mx.count[m] <= 1
              /\ IF k.waitq[m] = <<>>
                 THEN mx' = free /\ k' = RecomputeChain(k, free, k.cur)
                 ELSE /\ mx' = handed
                      /\ k' = RecomputeChain(Wake(k, handed, next, "OK"), handed, k.cur)

\* Any task may delete a mutex without waiters, even one that is owned.
MutexDelete(m) ==
    /\ Calling
    /\ m \in mx.live /\ k.waitq[m] = <<>>
    /\ LET owner == mx.owner[m]
           dropped == IF owner = NoTask THEN mx ELSE Release(mx, m)
       IN  /\ k' = RecomputeChain(k, dropped, owner)
           /\ mx' = [dropped EXCEPT !.live = @ \ {m}, !.owner[m] = NoTask, !.count[m] = 0]

-----------------------------------------------------------------------------
(* The rest of the application, and the interrupts.                        *)

\* A task waits for an interrupt; interrupts wake the first waiter.
ObjectWait(w) == Calling /\ k' = Block(k, mx, w, 0) /\ UNCHANGED mx

InterruptSignal(w) ==
    /\ k.waitq[w] # <<>>
    /\ k' = IsrExit(Wake(IsrEnter(k), mx, Head(k.waitq[w]), "OK"))
    /\ UNCHANGED mx

SetPriority(t, p) ==
    /\ Calling
    /\ k.state[t] # "STOP"
    /\ LET based == [mx EXCEPT !.base[t] = p]
           set == [k EXCEPT !.prio[t] = p]
           moved == WaiterPriorityChanged(SchedRequeue(set, t, k.prio[t]), t)
           owners == IF k.waitOn[t] \in Mutexes
                     THEN RecomputeChain(moved, based, mx.owner[k.waitOn[t]]) ELSE moved
       IN  /\ mx' = based
           /\ k' = RequestPreemption(RecomputeChain(owners, based, t))

TaskSuspend(t) ==
    /\ Calling
    /\ k.state[t] \notin {"STOP", "SUSPENDED"}
    /\ LET removed == SchedRemove(k, t)
           detached == IF k.state[t] = "BLOCKED"
                       THEN DetachWaiter(removed, mx, t, "INTR") ELSE removed
           suspended == [detached EXCEPT !.state[t] = "SUSPENDED"]
       IN  k' = IF t = k.cur THEN RescheduleRequest(suspended) ELSE suspended
    /\ UNCHANGED mx

TaskResume(t) ==
    /\ Calling
    /\ k.state[t] = "SUSPENDED"
    /\ k' = RequestPreemption(MakeReady(k, t))
    /\ UNCHANGED mx

\* The control block of a task that another one deletes is freed here, which
\* the model shows by clearing it.
Stop(t) ==
    LET detached == DetachWaiter(SchedRemove(k, t), mx, t, "INTR")
        stopped == [detached EXCEPT !.state[t] = "STOP"]
    IN  IF t = k.cur
        THEN k' = RescheduleRequest(stopped) /\ UNCHANGED mx
        ELSE /\ k' = [stopped EXCEPT !.prio[t] = 0, !.result[t] = "OK"]
             /\ mx' = [mx EXCEPT !.base[t] = 0]

\* Faulty: a task that holds mutexes is deleted with them.
TaskDeleteHolder(t) ==
    /\ Calling
    /\ k.state[t] # "STOP"
    /\ Stop(t)

\* aixos_mutex_task_can_delete refuses a task that holds a mutex.
TaskDelete(t) ==
    /\ Calling
    /\ k.state[t] # "STOP" /\ mx.held[t] = <<>>
    /\ Stop(t)

TaskCreate(t) ==
    /\ Calling
    /\ k.state[t] = "STOP"
    /\ k' = SchedAdd([k EXCEPT !.state[t] = "READY", !.prio[t] = BasePriority[t],
                               !.slice[t] = SliceTicks, !.result[t] = "OK"], t)
    /\ mx' = [mx EXCEPT !.base[t] = BasePriority[t]]

\* aixos_task_tick: the first task of the timeout list, if its time has come.
ExpireFirst(kk, mm) ==
    IF kk.timeouts # <<>> /\ TickReached(kk.tick, kk.wake[Head(kk.timeouts)])
    THEN Wake(kk, mm, Head(kk.timeouts), "TIMEOUT") ELSE kk

Expire(kk, mm) ==
    LET after[i \in 0 .. Len(kk.timeouts)] ==
            IF i = 0 THEN kk ELSE ExpireFirst(after[i - 1], mm)
    IN  after[Len(kk.timeouts)]

\* The tick interrupt as one step: every timeout that is due expires.
Tick ==
    /\ LET now == [IsrEnter(k) EXCEPT !.tick = TickAfter(@, 1),
                                      !.slice[k.cur] = IF @ > 0 THEN @ - 1 ELSE 0]
           expired == Expire(now, mx)
           renewed == [expired EXCEPT !.slice[k.cur] = SliceTicks]
       IN  k' = IsrExit(IF expired.slice[k.cur] = 0
                        THEN RescheduleRequest(RotateCurrent(renewed)) ELSE expired)
    /\ UNCHANGED mx

ContextSwitch ==
    /\ k.pendsv
    /\ k' = Schedule([k EXCEPT !.pendsv = FALSE])
    /\ UNCHANGED mx

Next ==
    \/ \E m \in Mutexes :
          \/ MutexCreate(m)
          \/ LockFree(m)
          \/ LockAgain(m)
          \/ \E d \in Delays \union {0} : LockBusy(m, d)
          \/ MutexUnlock(m)
          \/ MutexDelete(m)
    \/ \E w \in Objects : ObjectWait(w) \/ InterruptSignal(w)
    \/ \E t \in UserTasks :
          \/ \E p \in NewPriorities : SetPriority(t, p)
          \/ TaskSuspend(t)
          \/ TaskResume(t)
          \/ TaskDelete(t)
          \/ TaskCreate(t)
    \/ Tick
    \/ ContextSwitch

Spec == Init /\ [][Next]_vars

-----------------------------------------------------------------------------

\* mutex.c: owner, lock_count and the list of held mutexes agree through hand
\* over, timeouts, deletion and suspension; tasks wait only on a mutex that
\* exists and is owned by another task; an owner has not been deleted.
OwnershipExact ==
    \A m \in Mutexes :
        /\ mx.owner[m] # NoTask <=> mx.count[m] > 0
        /\ mx.owner[m] # NoTask => m \in mx.live /\ k.state[mx.owner[m]] # "STOP"
        /\ k.waitq[m] # <<>> => mx.owner[m] # NoTask
        /\ \A t \in Tasks :
              /\ Linked(k.waitq[m], t) => mx.owner[m] # t
              /\ Cardinality({i \in DOMAIN mx.held[t] : mx.held[t][i] = m})
                    = (IF mx.owner[m] = t THEN 1 ELSE 0)

\* recompute_chain: between critical sections, and along every chain of tasks
\* that wait on each other's mutexes, each task has exactly the priority that
\* it was given or the highest of its waiters' ones, no less and no more; and
\* although that changes the priorities of waiters, a mutex still goes to the
\* one with the highest.
InheritanceExact ==
    /\ \A m \in Mutexes : \A i, j \in DOMAIN k.waitq[m] :
          i < j => k.prio[k.waitq[m][i]] >= k.prio[k.waitq[m][j]]
    /\ \A t \in Tasks : k.state[t] # "STOP" =>
          /\ k.prio[t] >= mx.base[t]
          /\ \A m \in ToSet(mx.held[t]) : \A i \in DOMAIN k.waitq[m] :
                k.prio[t] >= k.prio[k.waitq[m][i]]
          /\ \/ k.prio[t] = mx.base[t]
             \/ \E m \in ToSet(mx.held[t]), u \in Tasks :
                   Linked(k.waitq[m], u) /\ k.prio[u] = k.prio[t]

\* aixos_mutex_lock returns AIXOS_OK to a task that has waited only if the
\* task owns the mutex, even when a timeout, a suspension or the end of
\* another wait comes between.
LockedMeansOwned ==
    [][\A m \in Mutexes, t \in Tasks :
         k.waitOn[t] = m /\ k'.waitOn[t] # m /\ k'.state[t] # "STOP" =>
            (k'.result[t] = "OK" <=> mx'.owner[m] = t)]_vars

\* No ready task outranks the current one unless a switch is on its way.
HighestReadyRuns ==
    k.pendsv \/ \A t \in Tasks :
        k.state[t] = "READY" => k.prio[t] <= k.prio[k.cur]

\* aixos_mutex_unlock under REQ-SCHED-001, "The scheduler shall select the
\* highest-priority ready task": if that task ran before the last unlock, it
\* runs, or a switch to it is on its way, after it.
UnlockPreempts ==
    [][\A m \in Mutexes :
         MutexUnlock(m) /\ HighestReadyRuns => HighestReadyRuns']_vars

=============================================================================
