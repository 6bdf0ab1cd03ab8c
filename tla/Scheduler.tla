----------------------------- MODULE Scheduler ------------------------------
(***************************************************************************)
(* Tasks, the ready queues, timeouts, the tick interrupt, nested           *)
(* interrupts and the scheduler lock: kernel/sched.c, kernel/task.c and    *)
(* kernel/isr.c, on the Cortex-M3 port, where a context switch is a PendSV *)
(* exception of the lowest priority.                                       *)
(*                                                                         *)
(* One application step is one critical section of the running task.  The  *)
(* wait lists stand for the objects of the IPC layer: a task blocks on one *)
(* and a task or an interrupt wakes the first waiter, as the semaphore     *)
(* does.  Interrupts may arrive between any two steps.                     *)
(***************************************************************************)
EXTENDS Kernel

CONSTANTS
    Idle,            \* the task that aixos_start creates at priority 0
    UserPriorities,  \* the priorities the application gives its tasks
    NewPriorities,   \* the priorities it may change them to
    Delays           \* the timeouts, in ticks, that it passes

ASSUME SchedulerAssumption ==
    /\ Idle \in Tasks
    /\ UserPriorities \subseteq Priorities
    /\ NewPriorities \subseteq Priorities
    /\ Delays \subseteq 1 .. MaxTimeout

VARIABLES
    k,       \* the kernel data
    phase,   \* "boot" before aixos_start, "starting" inside it, "running"
    boot,    \* tasks of all_task_list that aixos_start has yet to visit
    inTick,  \* the tick interrupt is running
    owed     \* tasks in aixos_sched_unlock, about to ask for a switch

vars == <<k, phase, boot, inTick, owed>>

UserTasks == Tasks \ {Idle}

-----------------------------------------------------------------------------
(* Before and during aixos_start.                                          *)

Init ==
    /\ k = [state    |-> [t \in Tasks |-> "STOP"],
            prio     |-> [t \in Tasks |-> 0],
            slice    |-> [t \in Tasks |-> SliceTicks],
            wake     |-> [t \in Tasks |-> 0],
            waitOn   |-> [t \in Tasks |-> NoList],
            result   |-> [t \in Tasks |-> "OK"],
            ready    |-> [p \in Priorities |-> <<>>],
            bitmap   |-> {},
            waitq    |-> [w \in WaitLists |-> <<>>],
            timeouts |-> <<>>,
            cur      |-> NoTask,
            isr      |-> 0,
            lock     |-> 0,
            pending  |-> FALSE,
            pendsv   |-> FALSE,
            tick     |-> 0]
    /\ phase = "boot"
    /\ boot = <<>>
    /\ inTick = FALSE
    /\ owed = {}

\* A fresh task control block (task_create_common).
NewTask(kk, t, p) ==
    [kk EXCEPT !.state[t] = "READY", !.prio[t] = p, !.slice[t] = SliceTicks,
               !.wake[t] = 0, !.waitOn[t] = NoList, !.result[t] = "OK"]

\* Before aixos_start a new task is only put on the list of all tasks.
BootCreate(t, p) ==
    /\ phase = "boot"
    /\ k.state[t] = "STOP"
    /\ k' = NewTask(k, t, p)
    /\ boot' = Append(boot, t)
    /\ UNCHANGED <<phase, inTick, owed>>

StartIdle ==
    /\ phase = "boot"
    /\ k' = NewTask(k, Idle, 0)
    /\ boot' = Append(boot, Idle)
    /\ phase' = "starting"
    /\ UNCHANGED <<inTick, owed>>

StartTask ==
    /\ phase = "starting"
    /\ boot # <<>>
    /\ k' = SchedAdd(k, Head(boot))
    /\ boot' = Tail(boot)
    /\ UNCHANGED <<phase, inTick, owed>>

StartFirst ==
    /\ phase = "starting"
    /\ boot = <<>>
    /\ k' = Schedule(k)
    /\ phase' = "running"
    /\ UNCHANGED <<boot, inTick, owed>>

-----------------------------------------------------------------------------
(* The application.                                                        *)

\* The processor executes thread code of the current task.
ThreadLevel == phase = "running" /\ k.isr = 0 /\ ~inTick /\ ~k.pendsv

\* The current task is free to call the kernel; the idle task never does.
Calling == ThreadLevel /\ k.cur # Idle /\ k.cur \notin owed

Call(next) == Calling /\ k' = next /\ UNCHANGED <<phase, boot, inTick, owed>>

\* The new task joins its ready queue; no preemption is requested for it.
TaskCreate(t, p) ==
    /\ k.state[t] = "STOP"
    /\ Call(SchedAdd(NewTask(k, t, p), t))

\* A task that deletes itself is still current until the switch; the control
\* block of any other is freed here, which the model shows by clearing it.
TaskDelete(t) ==
    /\ Calling
    /\ k.state[t] # "STOP"
    /\ ~(t = k.cur /\ k.lock # 0)
    /\ LET stopped == [Detach(SchedRemove(k, t), t, "INTR") EXCEPT
                           !.state[t] = "STOP"]
       IN  k' = IF t = k.cur THEN RescheduleRequest(stopped)
                ELSE [stopped EXCEPT !.prio[t] = 0, !.result[t] = "OK",
                                     !.slice[t] = SliceTicks]
    /\ owed' = owed \ {t}
    /\ UNCHANGED <<phase, boot, inTick>>

TaskYield == Call(RescheduleRequest(RotateCurrent(k)))

TaskSleep(d) == CanBlock(k) /\ Call(BlockCurrent(k, "DELAYED", NoList, d))

\* Wait on an object, with a timeout or, for d = 0, for ever.
TaskWait(w, d) == CanBlock(k) /\ Call(BlockCurrent(k, "BLOCKED", w, d))

WakeFirst(w) == TaskWake(k, Head(k.waitq[w]), "OK")

TaskSignal(w) == k.waitq[w] # <<>> /\ Call(WakeFirst(w))

\* Faulty: the task stays on its ready queue.
TaskSuspendQueued(t) ==
    /\ k.state[t] \notin {"STOP", "SUSPENDED"}
    /\ ~(t = k.cur /\ k.lock # 0)
    /\ LET suspended == [Detach(k, t, "INTR") EXCEPT !.state[t] = "SUSPENDED"]
       IN  Call(IF t = k.cur THEN RescheduleRequest(suspended) ELSE suspended)

TaskSuspend(t) ==
    /\ k.state[t] \notin {"STOP", "SUSPENDED"}
    /\ ~(t = k.cur /\ k.lock # 0)
    /\ LET removed == SchedRemove(k, t)
           detached == IF k.state[t] \in {"BLOCKED", "DELAYED"}
                       THEN Detach(removed, t, "INTR") ELSE removed
           suspended == [detached EXCEPT !.state[t] = "SUSPENDED"]
       IN  Call(IF t = k.cur THEN RescheduleRequest(suspended) ELSE suspended)

TaskResume(t) ==
    /\ k.state[t] = "SUSPENDED"
    /\ Call(RequestPreemption(MakeReady(k, t)))

SetPriority(t, p) ==
    /\ k.state[t] # "STOP"
    /\ LET requeued == SchedRequeue([k EXCEPT !.prio[t] = p], t, k.prio[t])
       IN  Call(RequestPreemption(WaiterPriorityChanged(requeued, t)))

SchedLock == k.lock < MaxLock /\ Call([k EXCEPT !.lock = @ + 1])

\* The switch is asked for after interrupts are enabled again, so the task
\* may be interrupted, and even switched out, before it does.
SchedUnlock ==
    /\ Calling
    /\ k.lock > 0
    /\ LET last == k.lock = 1
       IN  /\ k' = [k EXCEPT !.lock = @ - 1, !.pending = ~last /\ @]
           /\ owed' = IF last /\ k.pending THEN owed \union {k.cur} ELSE owed
    /\ UNCHANGED <<phase, boot, inTick>>

SwitchNow ==
    /\ ThreadLevel
    /\ k.cur \in owed
    /\ k' = [k EXCEPT !.pendsv = TRUE]
    /\ owed' = owed \ {k.cur}
    /\ UNCHANGED <<phase, boot, inTick>>

-----------------------------------------------------------------------------
(* Interrupts and the context switch.                                      *)

Interrupt == phase = "running" /\ k.isr < MaxIsr /\ ~inTick

InterruptEnter ==
    /\ Interrupt
    /\ k' = IsrEnter(k)
    /\ UNCHANGED <<phase, boot, inTick, owed>>

Handler == k.isr > 0 /\ ~inTick

InterruptSignal(w) ==
    /\ Handler
    /\ k.waitq[w] # <<>>
    /\ k' = WakeFirst(w)
    /\ UNCHANGED <<phase, boot, inTick, owed>>

InterruptExit ==
    /\ Handler
    /\ k' = IsrExit(k)
    /\ UNCHANGED <<phase, boot, inTick, owed>>

\* The tick interrupt has the most urgent priority that may call the kernel,
\* so nothing that changes kernel data runs between the steps of its handler:
\* count the tick, expire the timeouts that are due, end the time slice.
TickStart ==
    /\ Interrupt
    /\ k' = [IsrEnter(k) EXCEPT
                !.tick = TickAfter(@, 1),
                !.slice[k.cur] = IF @ > 0 THEN @ - 1 ELSE 0]
    /\ inTick' = TRUE
    /\ UNCHANGED <<phase, boot, owed>>

TimeoutDue ==
    k.timeouts # <<>> /\ TickReached(k.tick, k.wake[Head(k.timeouts)])

TickExpire ==
    /\ inTick
    /\ TimeoutDue
    /\ LET t == Head(k.timeouts)
       IN  k' = TaskWake(k, t, IF k.state[t] = "DELAYED" THEN "OK" ELSE "TIMEOUT")
    /\ UNCHANGED <<phase, boot, inTick, owed>>

\* Faulty: a switch is asked for only when there is a task to rotate to.
TickEndLazy ==
    /\ inTick
    /\ ~TimeoutDue
    /\ LET rotated == RotateCurrent([k EXCEPT !.slice[k.cur] = SliceTicks])
       IN  k' = IsrExit(IF k.slice[k.cur] # 0 THEN k
                        ELSE IF rotated.ready # k.ready
                        THEN RescheduleRequest(rotated) ELSE rotated)
    /\ inTick' = FALSE
    /\ UNCHANGED <<phase, boot, owed>>

TickEnd ==
    /\ inTick
    /\ ~TimeoutDue
    /\ LET renewed == [k EXCEPT !.slice[k.cur] = SliceTicks]
           sliced == IF k.slice[k.cur] = 0
                     THEN RescheduleRequest(RotateCurrent(renewed)) ELSE k
       IN  k' = IsrExit(sliced)
    /\ inTick' = FALSE
    /\ UNCHANGED <<phase, boot, owed>>

\* PendSV: taken when no interrupt is active.
ContextSwitch ==
    /\ phase = "running" /\ k.isr = 0 /\ ~inTick
    /\ k.pendsv
    /\ k' = Schedule([k EXCEPT !.pendsv = FALSE])
    /\ UNCHANGED <<phase, boot, inTick, owed>>

-----------------------------------------------------------------------------

Start ==
    \/ \E t \in UserTasks, p \in UserPriorities : BootCreate(t, p)
    \/ StartIdle
    \/ StartTask
    \/ StartFirst

Application ==
    \/ \E t \in UserTasks, p \in UserPriorities : TaskCreate(t, p)
    \/ \E t \in UserTasks : TaskDelete(t)
    \/ TaskYield
    \/ \E d \in Delays : TaskSleep(d)
    \/ \E w \in WaitLists, d \in Delays \union {0} : TaskWait(w, d)
    \/ \E w \in WaitLists : TaskSignal(w)
    \/ \E t \in UserTasks : TaskSuspend(t)
    \/ \E t \in UserTasks : TaskResume(t)
    \/ \E t \in UserTasks, p \in NewPriorities : SetPriority(t, p)
    \/ SchedLock
    \/ SchedUnlock

Interrupts ==
    \/ InterruptEnter
    \/ \E w \in WaitLists : InterruptSignal(w)
    \/ InterruptExit
    \/ TickStart
    \/ TickExpire
    \/ TickEnd

Next == Start \/ Application \/ SwitchNow \/ Interrupts \/ ContextSwitch

Spec == Init /\ [][Next]_vars

\* The processor is not saturated: the tick interrupt is taken again and
\* again, interrupt handlers end and leave time for thread level, a pending
\* PendSV is taken, and a task that has locked the scheduler unlocks it
\* whenever it gets to run.
Fairness ==
    /\ SF_vars(TickStart)
    /\ WF_vars(TickExpire)
    /\ WF_vars(TickEnd)
    /\ SF_vars(InterruptExit /\ k.isr = 1)
    /\ SF_vars(ContextSwitch)
    /\ SF_vars(SchedUnlock)
    /\ SF_vars(SwitchNow)
    /\ WF_vars(StartIdle) /\ WF_vars(StartTask) /\ WF_vars(StartFirst)

LiveSpec == Spec /\ Fairness

-----------------------------------------------------------------------------
(* Invariants.                                                             *)

\* Every field of the kernel data keeps its type (the declarations of task.h,
\* sched.c and isr.c).
TypeOK ==
    /\ k \in KernelType
    /\ phase \in {"boot", "starting", "running"}
    /\ boot \in Seq(Tasks)
    /\ inTick \in BOOLEAN
    /\ owed \subseteq Tasks

\* sched.c: across creation, blocking, waking, suspension, deletion and
\* changes of priority, a task is on a ready queue exactly while it is
\* runnable, once, on the queue of its current priority, and the bitmap has
\* exactly the bits of the queues that are not empty.
ReadyQueuesExact ==
    /\ \A p \in Priorities : NoRepeat(k.ready[p])
    /\ \A t \in Tasks, p \in Priorities :
          Linked(k.ready[p], t) <=> /\ k.state[t] \in Runnable
                                    /\ k.prio[t] = p
                                    /\ ~Linked(boot, t)
    /\ k.bitmap = {p \in Priorities : k.ready[p] # <<>>}

\* task.c: wait_node, wait_list and the state agree, whatever ends the wait:
\* a wake, a timeout, suspension or deletion.  A task that is not waiting is
\* on no wait list and on no timeout list, so nothing can wake it twice; and
\* the first waiter of a list, the one that is woken, has the highest priority
\* of the list, also after priorities have changed.
WaitListsExact ==
    /\ \A w \in WaitLists :
          /\ NoRepeat(k.waitq[w])
          /\ \A i, j \in DOMAIN k.waitq[w] :
                i < j => k.prio[k.waitq[w][i]] >= k.prio[k.waitq[w][j]]
    /\ NoRepeat(k.timeouts)
    /\ \A t \in Tasks :
          /\ \A w \in WaitLists : Linked(k.waitq[w], t) <=> k.waitOn[t] = w
          /\ k.state[t] = "BLOCKED" <=> k.waitOn[t] # NoList
          /\ k.state[t] = "DELAYED" => Linked(k.timeouts, t)
          /\ Linked(k.timeouts, t) => k.state[t] \in {"BLOCKED", "DELAYED"}

Remaining(t) == (k.wake[t] - k.tick) % TickModulus

\* timeout_insert and aixos_task_tick, with ticks that wrap: the timeout list
\* is in the order of the deadlines, and outside the tick interrupt no
\* deadline on it has passed, so no sleeper is left behind.
DeadlinesAhead ==
    /\ \A i, j \in DOMAIN k.timeouts :
          i < j => Remaining(k.timeouts[i]) <= Remaining(k.timeouts[j])
    /\ \A i \in DOMAIN k.timeouts :
          /\ Remaining(k.timeouts[i]) <= MaxTimeout
          /\ Remaining(k.timeouts[i]) = 0 => inTick

\* aixos_schedule, aixos_task_block_current, aixos_task_suspend: no task but
\* the current one is RUNNING, and thread code never runs on behalf of a task
\* that is blocked, suspended or stopped.
OnlyCurrentRuns ==
    /\ \A t \in Tasks : k.state[t] = "RUNNING" => t = k.cur
    /\ ThreadLevel => k.state[k.cur] = "RUNNING"

\* isr.c: a deferred switch is forgotten neither by the last interrupt to
\* exit nor by the last unlock, and none is under way while the scheduler is
\* locked, so that the current task stays current whatever interrupts do.
DeferredSwitchKept ==
    /\ k.isr = 0 /\ k.lock = 0 => ~k.pending
    /\ k.lock > 0 => ~k.pendsv

-----------------------------------------------------------------------------
(* Properties of steps.                                                    *)

\* aixos_schedule: a context switch, at whatever moment it was asked for,
\* leaves the processor to a task that no runnable task outranks.
SwitchToHighest ==
    [][ContextSwitch =>
         \A t \in Tasks : k'.state[t] \in Runnable
                           => k'.prio[t] <= k'.prio[k'.cur]]_vars

\* A more urgent task is ready and no context switch is on its way.
PreemptionLost ==
    /\ phase = "running"
    /\ \E t \in Tasks : k.state[t] = "READY" /\ k.prio[t] > k.prio[k.cur]
    /\ ~k.pendsv /\ ~k.pending /\ k.cur \notin owed

\* aixos_sched_request_preemption and its callers: only the creation of a
\* task can leave a more urgent ready task without a switch on its way.
PreemptionKept ==
    [][PreemptionLost' =>
         PreemptionLost \/ \E t \in Tasks, p \in Priorities : TaskCreate(t, p)]_vars

\* aixos_tick_handler with a time slice of one tick: what creation lost, the
\* next tick makes good.
TickRestoresPreemption ==
    [][SliceTicks = 1 /\ TickEnd => ~PreemptionLost']_vars

\* aixos_task_sleep: nothing but its own deadline makes a sleeping task ready.
SleepIsExact ==
    [][\A t \in Tasks :
         k.state[t] = "DELAYED" /\ k'.state[t] = "READY" => Remaining(t) = 0]_vars

Before(kk, a, b) ==
    \E p \in Priorities : \E i, j \in DOMAIN kk.ready[p] :
        i < j /\ kk.ready[p][i] = a /\ kk.ready[p][j] = b

\* sched.c: two tasks that stay ready at one priority keep their order; only
\* a call that sets a priority (even to its present value) moves one back.
ReadyIsFifo ==
    [][\A a, b \in Tasks \ {k.cur} :
         /\ Before(k, a, b)
         /\ k.state[a] = "READY" /\ k'.state[a] = "READY"
         /\ k.state[b] = "READY" /\ k'.state[b] = "READY"
         => \/ Before(k', a, b)
            \/ \E t \in {a, b}, p \in Priorities : SetPriority(t, p)]_vars

-----------------------------------------------------------------------------
(* What the objects built on the kernel rely on.                           *)

\* The kernel data as the objects see it.  A suspended task is one that is
\* active and is not chosen to run.
WaitView ==
    [mode |-> [t \in Tasks |->
        CASE k.state[t] = "STOP" -> "off"
          [] k.state[t] \in {"BLOCKED", "DELAYED"} -> "waiting"
          [] OTHER -> "active"],
     on     |-> k.waitOn,
     timed  |-> [t \in Tasks |-> Linked(k.timeouts, t)],
     result |-> k.result]

Abstract == INSTANCE Waiting WITH w <- WaitView

\* task.c: seen through its wait lists, timeouts and results, the scheduler
\* with its queues, priorities, interrupts and clock is the specification
\* that the objects are built on: every wait is ended once, by one cause, and
\* the task learns which.
ImplementsWaiting == Abstract!WaitSpec

-----------------------------------------------------------------------------
(* Liveness, under Fairness.                                               *)

\* aixos_task_tick: every wait with a deadline comes to an end.
EveryDeadlineExpires ==
    \A t \in Tasks : Linked(k.timeouts, t) ~> ~Linked(k.timeouts, t)

\* aixos_tick_handler, aixos_sched_rotate_current: a ready task that nothing
\* runnable outranks gets the processor.
NoStarvation ==
    \A t \in Tasks : []<>~(/\ k.state[t] = "READY"
                           /\ \A u \in Tasks : k.state[u] \in Runnable
                                                => k.prio[u] <= k.prio[t])

\* isr.c: a switch that was deferred takes place.
DeferredSwitchHappens == k.pending ~> ~k.pending

=============================================================================
