------------------------------- MODULE Kernel -------------------------------
(***************************************************************************)
(* The kernel's static data and the functions that change it.              *)
(*                                                                         *)
(* The data of kernel/sched.c, kernel/task.c and kernel/isr.c is one       *)
(* record, called k below, and each C function that changes it is an       *)
(* operator from the record before the call to the record after it.  All   *)
(* of these functions run with interrupts masked, so a critical section    *)
(* is a composition of operators and one atomic step.  The record has the  *)
(* fields that KernelType lists; a module that adds kernel data of its own *)
(* (Mutex) extends the record with more fields.                            *)
(*                                                                         *)
(* A list of the C code is a sequence, first node first.  A node is on a   *)
(* list exactly when the task occurs in the sequence.                      *)
(*                                                                         *)
(* An operator whose comment starts with "Faulty" is not part of the       *)
(* model: it is a mistake in the operator that follows it, and a property  *)
(* of the model fails when it takes that operator's place.                 *)
(***************************************************************************)
EXTENDS Clock, FiniteSets

CONSTANTS
    Tasks,        \* the task control blocks
    NoTask,       \* the NULL task pointer
    WaitLists,    \* the wait lists of the IPC objects
    NoList,       \* the NULL wait list
    MaxPriority,  \* AIXOS_CFG_MAX_PRIORITY: priorities are 0..MaxPriority-1
    SliceTicks,   \* AIXOS_CFG_TIME_SLICE_TICKS
    MaxIsr,       \* bound on nested interrupts
    MaxLock       \* bound on nested scheduler locks

ASSUME KernelAssumption ==
    /\ NoTask \notin Tasks
    /\ NoList \notin WaitLists
    /\ MaxPriority \in Nat /\ MaxPriority >= 2
    /\ SliceTicks \in Nat \ {0}
    /\ MaxIsr \in Nat \ {0}
    /\ MaxLock \in Nat

Priorities == 0 .. MaxPriority - 1

TaskStates ==
    {"READY", "RUNNING", "BLOCKED", "DELAYED", "SUSPENDED", "STOP"}

\* The states in which a task is on a ready queue; the running task stays there.
Runnable == {"READY", "RUNNING"}

\* What a blocking call returns once it has waited.
Results == {"OK", "TIMEOUT", "INTR"}

\* The fields of the kernel data (task.h, sched.c, isr.c).
KernelType ==
    [state    : [Tasks -> TaskStates],
     prio     : [Tasks -> Priorities],
     slice    : [Tasks -> 0 .. SliceTicks],
     wake     : [Tasks -> Ticks],
     waitOn   : [Tasks -> WaitLists \union {NoList}],
     result   : [Tasks -> Results],
     ready    : [Priorities -> Seq(Tasks)],
     bitmap   : SUBSET Priorities,
     waitq    : [WaitLists -> Seq(Tasks)],
     timeouts : Seq(Tasks),
     cur      : Tasks \union {NoTask},
     isr      : 0 .. MaxIsr,
     lock     : 0 .. MaxLock,
     pending  : BOOLEAN,
     pendsv   : BOOLEAN,
     tick     : Ticks]

-----------------------------------------------------------------------------
(* Wait lists.                                                             *)

\* task_wait_insert_priority: before the first task of a lower priority.
WaitPosition(list, prio, t) ==
    CHOOSE i \in 1 .. Len(list) + 1 :
        /\ \A j \in 1 .. i - 1 : prio[t] <= prio[list[j]]
        /\ i <= Len(list) => prio[t] > prio[list[i]]

WaitInsert(list, prio, t) == InsertAt(list, WaitPosition(list, prio, t), t)

-----------------------------------------------------------------------------
(* The interrupt side (kernel/isr.c).  pendsv is the context switch that   *)
(* the port has been asked for and that is taken as soon as the processor  *)
(* is back at thread level with interrupts enabled.                        *)

\* Faulty: the scheduler lock is not looked at.
RescheduleRequestUnlocked(k) ==
    IF k.isr # 0 THEN [k EXCEPT !.pending = TRUE] ELSE [k EXCEPT !.pendsv = TRUE]

RescheduleRequest(k) ==
    IF k.isr # 0 \/ k.lock # 0
    THEN [k EXCEPT !.pending = TRUE]
    ELSE [k EXCEPT !.pendsv = TRUE]

IsrEnter(k) == [k EXCEPT !.isr = @ + 1]

\* Faulty: the last exit does not look at the scheduler lock.
IsrExitLocked(k) ==
    IF k.isr = 1 /\ k.pending
    THEN [k EXCEPT !.isr = 0, !.pending = FALSE, !.pendsv = TRUE]
    ELSE [k EXCEPT !.isr = IF @ > 0 THEN @ - 1 ELSE 0]

\* Faulty: the last exit does not look at the deferred switch.
IsrExitForgetful(k) == [k EXCEPT !.isr = IF @ > 0 THEN @ - 1 ELSE 0]

IsrExit(k) ==
    IF k.isr = 1 /\ k.lock = 0 /\ k.pending
    THEN [k EXCEPT !.isr = 0, !.pending = FALSE, !.pendsv = TRUE]
    ELSE [k EXCEPT !.isr = IF @ > 0 THEN @ - 1 ELSE 0]

-----------------------------------------------------------------------------
(* The ready queues (kernel/sched.c, bitmap backend).                      *)

OnReadyQueue(k, t) == \E p \in Priorities : Linked(k.ready[p], t)

SchedAdd(k, t) ==
    [k EXCEPT !.ready[k.prio[t]] = Append(@, t),
              !.bitmap = @ \union {k.prio[t]}]

\* Unlink t from whichever queue it is on, then clear the bit of queue p
\* if that queue is empty: the code trusts that t was on queue p.
Dequeue(k, t, p) ==
    LET queues == [q \in Priorities |-> ListDel(k.ready[q], t)]
    IN  [k EXCEPT !.ready = queues,
                  !.bitmap = IF queues[p] = <<>> THEN @ \ {p} ELSE @]

SchedRemove(k, t) ==
    IF OnReadyQueue(k, t) THEN Dequeue(k, t, k.prio[t]) ELSE k

SchedRequeue(k, t, oldPrio) ==
    IF OnReadyQueue(k, t) THEN SchedAdd(Dequeue(k, t, oldPrio), t) ELSE k

\* Faulty: nothing is rotated.
RotateNothing(k) == k

\* Faulty: the first task of the queue is rotated, not the current one.
RotateFirst(k) ==
    LET p == k.prio[k.cur]
    IN  IF OnReadyQueue(k, k.cur)
        THEN [k EXCEPT !.ready[p] = Append(Tail(@), Head(@))] ELSE k

\* With a single task on the queue the code leaves the list alone.
RotateCurrent(k) ==
    LET p == k.prio[k.cur]
    IN  IF OnReadyQueue(k, k.cur) /\ Len(k.ready[p]) > 1
        THEN [k EXCEPT !.ready[p] = Append(ListDel(@, k.cur), k.cur)]
        ELSE k

\* Faulty: the bitmap is searched from the wrong end.
LowestReady(k) ==
    LET p == CHOOSE p \in k.bitmap : \A q \in k.bitmap : q >= p
    IN  IF k.bitmap = {} THEN NoTask ELSE Head(k.ready[p])

HighestReady(k) ==
    LET p == CHOOSE p \in k.bitmap : \A q \in k.bitmap : q <= p
    IN  IF k.bitmap = {} THEN NoTask ELSE Head(k.ready[p])

RequestPreemption(k) ==
    LET highest == HighestReady(k)
    IN  IF /\ highest \notin {NoTask, k.cur}
           /\ k.cur # NoTask => k.prio[highest] > k.prio[k.cur]
        THEN RescheduleRequest(k)
        ELSE k

\* aixos_schedule: the context switch itself.
Schedule(k) ==
    LET next == HighestReady(k)
        preempted == [t \in Tasks |->
            IF t = k.cur /\ k.state[t] = "RUNNING" THEN "READY" ELSE k.state[t]]
    IN  [k EXCEPT !.state = [preempted EXCEPT ![next] = "RUNNING"],
                  !.cur = next]

-----------------------------------------------------------------------------
(* Waiting and waking (kernel/task.c).                                     *)

\* Faulty: the timeout list is forgotten.
DetachFromObject(k, t, result) ==
    [k EXCEPT !.waitq = [w \in WaitLists |-> ListDel(@[w], t)],
              !.wake[t] = 0,
              !.waitOn[t] = NoList,
              !.result[t] = result]

\* task_detach_wait_locked.  wake_tick keeps its value in the code, where
\* nothing reads it while the task is not on the timeout list.
Detach(k, t, result) ==
    [k EXCEPT !.waitq = [w \in WaitLists |-> ListDel(@[w], t)],
              !.timeouts = ListDel(@, t),
              !.wake[t] = 0,
              !.waitOn[t] = NoList,
              !.result[t] = result]

MakeReady(k, t) == SchedAdd([k EXCEPT !.state[t] = "READY"], t)

\* Faulty: no preemption is requested.
TaskWakeQuietly(k, t, result) ==
    IF k.state[t] \in {"BLOCKED", "DELAYED"}
    THEN MakeReady(Detach(k, t, result), t) ELSE k

\* Faulty: a sleeping task is not woken.
TaskWakeBlocked(k, t, result) ==
    IF k.state[t] = "BLOCKED"
    THEN RequestPreemption(MakeReady(Detach(k, t, result), t)) ELSE k

\* aixos_task_wake: only a task that waits can be woken.
TaskWake(k, t, result) ==
    IF k.state[t] \in {"BLOCKED", "DELAYED"}
    THEN RequestPreemption(MakeReady(Detach(k, t, result), t))
    ELSE k

\* aixos_task_block_current refuses in an interrupt, without a current task
\* and while the scheduler is locked.
CanBlock(k) == k.cur # NoTask /\ k.isr = 0 /\ k.lock = 0

\* The part of aixos_task_block_current between its checks and its request
\* for a switch.  waitState is DELAYED for a sleep and BLOCKED for a wait on
\* an object; timeout = 0 stands for AIXOS_WAIT_FOREVER.
BeginWait(k, waitState, list, timeout) ==
    LET t == k.cur
        waiting == [SchedRemove(k, t) EXCEPT
            !.state[t] = waitState,
            !.waitOn[t] = list,
            !.result[t] = "OK",
            !.wake[t] = IF timeout = 0 THEN 0 ELSE TickAfter(k.tick, timeout)]
        queued == IF list = NoList THEN waiting
                  ELSE [waiting EXCEPT !.waitq[list] = WaitInsert(@, k.prio, t)]
    IN  IF timeout = 0 THEN queued
        ELSE [queued EXCEPT !.timeouts = TimeoutInsert(@, queued.wake, t)]

\* Faulty: no switch is asked for.
BlockCurrentQuietly(k, waitState, list, timeout) ==
    BeginWait(k, waitState, list, timeout)

BlockCurrent(k, waitState, list, timeout) ==
    RescheduleRequest(BeginWait(k, waitState, list, timeout))

\* Faulty: the waiter keeps its old place.
WaiterUnmoved(k, t) == k

\* A task that waits on an object is moved to its new place.
WaiterPriorityChanged(k, t) ==
    LET list == k.waitOn[t]
    IN  IF list # NoList /\ Linked(k.waitq[list], t)
        THEN [k EXCEPT !.waitq[list] = WaitInsert(ListDel(@, t), k.prio, t)]
        ELSE k

=============================================================================
