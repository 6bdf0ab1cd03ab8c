-------------------------- MODULE SchedulerProofs ---------------------------
(***************************************************************************)
(* Proofs about module Scheduler, for every set of tasks, every number of  *)
(* priorities, every width of the tick and every depth of nesting; and     *)
(* about modules Timer and PosixTimer, for pools of every size.            *)
(*                                                                         *)
(* IInv is the inductive invariant: types, the exact content of the ready  *)
(* queues, and how far aixos_start has come.  The types alone are not      *)
(* inductive: that the current task is a task and not NULL needs a task on *)
(* the ready queues, which is the idle task, and that needs the queues to  *)
(* hold exactly the runnable tasks.                                        *)
(*                                                                         *)
(* PosixTimers is the inductive invariant of the timers: both lists are    *)
(* exact, each native timer is the application's or belongs to one POSIX   *)
(* timer, and its callback finds what the POSIX timer has asked for.       *)
(* Timely adds what the property about time needs: the next expiry is      *)
(* reached before the native timer that announces it has reached its       *)
(* deadline, and no expiry of an earlier timer of a slot is mistaken for   *)
(* one of this one.                                                        *)
(***************************************************************************)
EXTENDS Scheduler, PosixTimer, KernelProofs

RunnableTasks(kk) == {t \in Tasks : kk.state[t] \in Runnable}

\* The kernel data while the system runs.
KInv(kk) ==
    /\ kk \in KernelType
    /\ Queues(kk, RunnableTasks(kk))
    /\ kk.state[Idle] \in Runnable
    /\ kk.cur \in Tasks

\* The tasks that are on a ready queue: during aixos_start, those visited.
Ready == {t \in Tasks : k.state[t] \in Runnable /\ ~Linked(boot, t)}

BootInv ==
    /\ NoRepeat(boot)
    /\ \A t \in Tasks : Linked(boot, t) => k.state[t] = "READY"
    /\ phase = "boot" => k.state[Idle] = "STOP"
    /\ phase # "boot" => k.state[Idle] \in Runnable
    /\ phase = "running" => boot = <<>> /\ k.cur \in Tasks
    /\ phase # "running" => k.isr = 0 /\ ~inTick

IInv == TypeOK /\ Queues(k, Ready) /\ BootInv

-----------------------------------------------------------------------------
(* Functions of the kernel preserve KInv.                                  *)

\* A step that leaves the tasks and the queues alone
LEMMA KInvSame ==
    ASSUME NEW kk, KInv(kk), NEW r \in KernelType,
           r.state = kk.state, r.prio = kk.prio, r.cur = kk.cur,
           r.ready = kk.ready, r.bitmap = kk.bitmap
    PROVE  KInv(r)
<1>1. RunnableTasks(r) = RunnableTasks(kk)
  BY DEF RunnableTasks
<1>2. Queues(r, RunnableTasks(kk))
  BY QueuesSame DEF KInv
<1> QED BY <1>1, <1>2 DEF KInv

LEMMA KInvSwitch ==
    ASSUME NEW kk, KInv(kk), NEW r \in KernelType, SwitchChanged(kk, r)
    PROVE  KInv(r)
<1>1. /\ r.state = kk.state /\ r.prio = kk.prio /\ r.cur = kk.cur
      /\ r.ready = kk.ready /\ r.bitmap = kk.bitmap
  BY DEF KInv, KernelType, SwitchChanged
<1> QED BY <1>1, KInvSame

LEMMA KInvReschedule ==
    ASSUME NEW kk, KInv(kk)
    PROVE  KInv(RescheduleRequest(kk))
BY KInvSwitch, RescheduleRequestType DEF KInv

LEMMA KInvPreemption ==
    ASSUME NEW kk, KInv(kk)
    PROVE  KInv(RequestPreemption(kk))
BY KInvSwitch, RequestPreemptionType DEF KInv

LEMMA KInvRotate ==
    ASSUME NEW kk, KInv(kk)
    PROVE  KInv(RotateCurrent(kk))
<1> DEFINE r == RotateCurrent(kk)
<1>1. r \in KernelType /\ Queues(r, RunnableTasks(kk)) /\ QueuesChanged(kk, r)
  BY RotateCurrentQueues DEF KInv
<1> HIDE DEF r
<1>2. r.state = kk.state /\ r.cur = kk.cur
  BY <1>1 DEF QueuesChanged, KInv, KernelType
<1>3. RunnableTasks(r) = RunnableTasks(kk)
  BY <1>2 DEF RunnableTasks
<1> QED BY <1>1, <1>2, <1>3 DEF KInv, r

LEMMA KInvIsrExit ==
    ASSUME NEW kk, KInv(kk)
    PROVE  KInv(IsrExit(kk))
<1> DEFINE r == IsrExit(kk)
<1>1. /\ r \in KernelType
      /\ r = [kk EXCEPT !.isr = r.isr, !.pending = r.pending, !.pendsv = r.pendsv]
  BY IsrExitType DEF KInv
<1> HIDE DEF r
<1>2. /\ r.state = kk.state /\ r.prio = kk.prio /\ r.cur = kk.cur
      /\ r.ready = kk.ready /\ r.bitmap = kk.bitmap
  BY <1>1 DEF KInv, KernelType
<1>3. KInv(r)
  BY <1>1, <1>2, KInvSame
<1> QED BY <1>3 DEF r

LEMMA KInvIsrEnter ==
    ASSUME NEW kk, KInv(kk), kk.isr < MaxIsr
    PROVE  KInv(IsrEnter(kk))
<1> DEFINE r == IsrEnter(kk)
<1>1. r \in KernelType /\ r = [kk EXCEPT !.isr = kk.isr + 1]
  BY IsrEnterType DEF KInv
<1> HIDE DEF r
<1>2. /\ r.state = kk.state /\ r.prio = kk.prio /\ r.cur = kk.cur
      /\ r.ready = kk.ready /\ r.bitmap = kk.bitmap
  BY <1>1 DEF KInv, KernelType
<1>3. KInv(r)
  BY <1>1, <1>2, KInvSame
<1> QED BY <1>3 DEF r

\* A task that was not runnable is made READY.
LEMMA KInvReady ==
    ASSUME NEW kk, KInv(kk), NEW t \in Tasks, t \notin RunnableTasks(kk)
    PROVE  KInv(MakeReady(kk, t))
<1> DEFINE r == MakeReady(kk, t)
<1>1. /\ r \in KernelType /\ Queues(r, RunnableTasks(kk) \union {t})
      /\ r.state = [kk.state EXCEPT ![t] = "READY"] /\ r.cur = kk.cur
  BY MakeReadyQueues DEF KInv, SameTask
<1> HIDE DEF r
<1>2. kk.state \in [Tasks -> TaskStates]
  BY DEF KInv, KernelType
<1>3. RunnableTasks(r) = RunnableTasks(kk) \union {t}
  BY <1>1, <1>2 DEF RunnableTasks, Runnable
<1>4. r.state[Idle] \in Runnable
  BY <1>1, <1>2, SchedulerAssumption DEF KInv, Runnable
<1> QED BY <1>1, <1>3, <1>4 DEF KInv, r

LEMMA KInvWake ==
    ASSUME NEW kk, KInv(kk), NEW t \in Tasks, NEW result \in Results
    PROVE  KInv(TaskWake(kk, t, result))
<1> DEFINE r == TaskWake(kk, t, result)
<1>1. CASE kk.state[t] \in {"BLOCKED", "DELAYED"}
  <2>1. t \notin RunnableTasks(kk)
    BY <1>1 DEF RunnableTasks, Runnable
  <2>2. /\ r \in KernelType /\ Queues(r, RunnableTasks(kk) \union {t})
        /\ r.state = [kk.state EXCEPT ![t] = "READY"] /\ r.cur = kk.cur
    BY <1>1, <2>1, TaskWakeQueues DEF KInv, SameTask
  <2> HIDE DEF r
  <2>3. kk.state \in [Tasks -> TaskStates]
    BY DEF KInv, KernelType
  <2>4. RunnableTasks(r) = RunnableTasks(kk) \union {t}
    BY <2>2, <2>3 DEF RunnableTasks, Runnable
  <2>5. r.state[Idle] \in Runnable
    BY <2>2, <2>3, SchedulerAssumption DEF KInv, Runnable
  <2> QED BY <2>2, <2>4, <2>5 DEF KInv, r
<1>2. CASE kk.state[t] \notin {"BLOCKED", "DELAYED"}
  BY <1>2 DEF TaskWake
<1> QED BY <1>1, <1>2

\* The current task, which is not the idle task, blocks.
LEMMA KInvBlock ==
    ASSUME NEW kk, KInv(kk), kk.cur # Idle,
           NEW waitState \in {"BLOCKED", "DELAYED"},
           NEW list \in WaitLists \union {NoList}, NEW timeout \in Nat
    PROVE  KInv(BlockCurrent(kk, waitState, list, timeout))
<1> DEFINE r == BeginWait(kk, waitState, list, timeout)
<1>1. waitState \in TaskStates /\ kk.cur \in Tasks
  BY DEF TaskStates, KInv
<1>2. /\ r \in KernelType /\ Queues(r, RunnableTasks(kk) \ {kk.cur})
      /\ r.state = [kk.state EXCEPT ![kk.cur] = waitState] /\ r.cur = kk.cur
  <2>1. kk \in KernelType /\ Queues(kk, RunnableTasks(kk))
    BY DEF KInv
  <2>2. /\ r \in KernelType /\ Queues(r, RunnableTasks(kk) \ {kk.cur})
        /\ r.state = [kk.state EXCEPT ![kk.cur] = waitState] /\ SameTask(kk, r)
    BY <1>1, <2>1, BeginWaitQueues
  <2> HIDE DEF r
  <2> QED BY <2>2 DEF SameTask
<1> HIDE DEF r
<1>3. kk.state \in [Tasks -> TaskStates]
  BY DEF KInv, KernelType
<1>4. RunnableTasks(r) = RunnableTasks(kk) \ {kk.cur}
  BY <1>2, <1>3 DEF RunnableTasks, Runnable
<1>5. r.state[Idle] \in Runnable
  BY <1>2, <1>3, SchedulerAssumption DEF KInv
<1>6. KInv(r)
  BY <1>1, <1>2, <1>4, <1>5 DEF KInv
<1> QED BY <1>6, KInvReschedule DEF BlockCurrent, r

\* The context switch: there is a runnable task, and the switch is to one
\* that no runnable task outranks.
LEMMA KInvSchedule ==
    ASSUME NEW kk \in KernelType, Queues(kk, RunnableTasks(kk)),
           kk.state[Idle] \in Runnable
    PROVE  /\ KInv(Schedule(kk))
           /\ RunnableTasks(Schedule(kk)) = RunnableTasks(kk)
           /\ \A t \in RunnableTasks(kk) : kk.prio[t] <= kk.prio[Schedule(kk).cur]
           /\ Schedule(kk).prio = kk.prio
<1> DEFINE r == Schedule(kk)
           h == HighestReady(kk)
           S == RunnableTasks(kk)
<1>1. S \in SUBSET Tasks /\ S # {}
  BY SchedulerAssumption DEF RunnableTasks
<1>2. h \in S /\ \A u \in S : kk.prio[u] <= kk.prio[h]
  BY <1>1, HighestReadyIsHighest
<1>3. /\ r \in KernelType /\ Queues(r, S)
      /\ r = [kk EXCEPT !.state = r.state, !.cur = h]
      /\ \A t \in Tasks : r.state[t] =
            IF t = h THEN "RUNNING"
            ELSE IF t = kk.cur /\ kk.state[t] = "RUNNING" THEN "READY" ELSE kk.state[t]
  BY <1>1, ScheduleType
<1> HIDE DEF r, h
<1>4. RunnableTasks(r) = S
  BY <1>2, <1>3 DEF RunnableTasks, Runnable
<1>5. r.cur = h /\ r.prio = kk.prio
  BY <1>3 DEF KernelType
<1>6. Idle \in RunnableTasks(r)
  BY <1>4, SchedulerAssumption DEF RunnableTasks
<1>7. r.state[Idle] \in Runnable
  BY <1>6 DEF RunnableTasks
<1>8. KInv(r)
  BY <1>1, <1>2, <1>3, <1>4, <1>5, <1>7 DEF KInv
<1> QED BY <1>2, <1>4, <1>5, <1>8 DEF r

-----------------------------------------------------------------------------
(* The steps while the system runs.                                        *)

\* While the system runs IInv is KInv, with the types of the other variables.
LEMMA RunningInv ==
    ASSUME IInv, phase = "running"
    PROVE  KInv(k) /\ boot = <<>>
<1>1. boot = <<>> /\ k.cur \in Tasks /\ k.state[Idle] \in Runnable
  BY DEF IInv, BootInv
<1>2. Ready = RunnableTasks(k)
  BY <1>1, FirstLinked, EmptySeq DEF Ready, RunnableTasks
<1> QED BY <1>1, <1>2 DEF IInv, TypeOK, KInv

LEMMA RunningStep ==
    ASSUME IInv, phase' = "running", boot' = <<>>, KInv(k'),
           inTick' \in BOOLEAN, owed' \subseteq Tasks
    PROVE  IInv'
<1>1. <<>> \in Seq(Tasks) /\ \A t : ~Linked(<<>>, t)
  BY EmptySeq, FirstLinked
<1>2. Ready' = RunnableTasks(k')
  BY <1>1 DEF Ready, RunnableTasks
<1>3. TypeOK'
  BY <1>1 DEF TypeOK, KInv
<1>4. BootInv'
  BY <1>1 DEF BootInv, KInv, NoRepeat
<1> QED BY <1>2, <1>3, <1>4 DEF IInv, KInv

\* A call of the application that changes the kernel data only
LEMMA CallStep ==
    ASSUME IInv, NEW next, Call(next), KInv(next)
    PROVE  IInv'
<1>1. phase = "running"
  BY DEF Call, Calling, ThreadLevel
<1>2. boot = <<>>
  BY <1>1, RunningInv
<1>3. /\ phase' = "running" /\ boot' = <<>> /\ k' = next
      /\ inTick' \in BOOLEAN /\ owed' \subseteq Tasks
  BY <1>1, <1>2 DEF Call, IInv, TypeOK
<1> QED BY <1>3, RunningStep

LEMMA CallingInv ==
    ASSUME IInv, Calling
    PROVE  KInv(k) /\ k.cur # Idle /\ phase = "running"
BY RunningInv DEF Calling, ThreadLevel

LEMMA TaskCreateStep ==
    ASSUME IInv, NEW t \in UserTasks, NEW p \in UserPriorities, TaskCreate(t, p)
    PROVE  IInv'
<1> DEFINE n == NewTask(k, t, p)
           r == SchedAdd(n, t)
           S == RunnableTasks(k)
<1>1. KInv(k) /\ k.state[t] = "STOP" /\ Call(r)
  BY CallingInv DEF TaskCreate, Call
<1>2. t \in Tasks /\ t # Idle /\ p \in Priorities /\ 0 \in Ticks /\ SliceTicks \in 0 .. SliceTicks
  BY SchedulerAssumption, KernelAssumption, ClockAssumption DEF UserTasks, Ticks
<1>3. /\ n \in KernelType /\ n.ready = k.ready /\ n.bitmap = k.bitmap /\ n.cur = k.cur
      /\ n.state = [k.state EXCEPT ![t] = "READY"]
      /\ \A u \in Tasks \ {t} : n.prio[u] = k.prio[u]
  BY <1>1, <1>2 DEF NewTask, KInv, KernelType, TaskStates, Results
<1> HIDE DEF n
<1>4. t \notin S
  BY <1>1 DEF RunnableTasks, Runnable
<1>5. Queues(n, S)
  BY <1>1, <1>3, <1>4, QueuesSame DEF KInv, RunnableTasks
<1>6. r \in KernelType /\ Queues(r, S \union {t}) /\ QueuesChanged(n, r)
  BY <1>2, <1>3, <1>4, <1>5, SchedAddQueues
<1> HIDE DEF r
<1>7. r.state = n.state /\ r.cur = n.cur
  BY <1>3, <1>6 DEF QueuesChanged, KernelType
<1>8. k.state \in [Tasks -> TaskStates]
  BY <1>1 DEF KInv, KernelType
<1>9. RunnableTasks(r) = S \union {t}
  BY <1>2, <1>3, <1>7, <1>8 DEF RunnableTasks, Runnable
<1>10. r.state[Idle] \in Runnable
  BY <1>1, <1>2, <1>3, <1>7, <1>8, SchedulerAssumption DEF KInv
<1>11. KInv(r)
  BY <1>1, <1>3, <1>6, <1>7, <1>9, <1>10 DEF KInv
<1> QED BY <1>1, <1>11, CallStep

\* A task other than the idle task leaves the ready queues and its waits.
LEMMA KInvStop ==
    ASSUME NEW kk, KInv(kk), NEW t \in UserTasks, NEW s \in {"STOP", "SUSPENDED"},
           NEW d, d = SchedRemove(kk, t) \/ d = Detach(SchedRemove(kk, t), t, "INTR")
    PROVE  /\ KInv([d EXCEPT !.state[t] = s])
           /\ t \notin RunnableTasks([d EXCEPT !.state[t] = s])
<1> DEFINE a == SchedRemove(kk, t)
           r == [d EXCEPT !.state[t] = s]
           S == RunnableTasks(kk)
<1>1. t \in Tasks /\ t # Idle
  BY DEF UserTasks
<1>2. a \in KernelType /\ Queues(a, S \ {t}) /\ QueuesChanged(kk, a)
  BY <1>1, SchedRemoveQueues DEF KInv
<1>3. d = a \/ d = Detach(a, t, "INTR")
  OBVIOUS
<1> HIDE DEF a
<1>4. a.state = kk.state /\ a.cur = kk.cur
  BY <1>2 DEF QueuesChanged, KInv, KernelType
<1>5. /\ d \in KernelType /\ d.ready = a.ready /\ d.bitmap = a.bitmap
      /\ d.prio = a.prio /\ d.state = a.state /\ d.cur = a.cur
  <2>1. CASE d = a
    BY <1>2, <2>1
  <2>2. CASE d = Detach(a, t, "INTR")
    <3>1. d \in KernelType /\ WaitChanged(a, d)
      BY <1>1, <1>2, <2>2, DetachType DEF Results
    <3> QED BY <1>2, <3>1 DEF WaitChanged, KernelType
  <2> QED BY <1>3, <2>1, <2>2
<1>6. kk.state \in [Tasks -> TaskStates]
  BY DEF KInv, KernelType
<1>7. /\ r \in KernelType /\ r.state = [kk.state EXCEPT ![t] = s]
      /\ r.ready = a.ready /\ r.bitmap = a.bitmap /\ r.prio = a.prio /\ r.cur = kk.cur
  BY <1>1, <1>4, <1>5 DEF KernelType, TaskStates
<1> HIDE DEF r
<1>8. Queues(r, S \ {t})
  BY <1>2, <1>7, QueuesSame
<1>9. RunnableTasks(r) = S \ {t}
  BY <1>1, <1>6, <1>7 DEF RunnableTasks, Runnable
<1>10. r.state[Idle] \in Runnable
  BY <1>1, <1>6, <1>7, SchedulerAssumption DEF KInv
<1>11. KInv(r) /\ t \notin RunnableTasks(r)
  BY <1>7, <1>8, <1>9, <1>10 DEF KInv
<1> QED BY <1>11 DEF r

LEMMA TaskDeleteStep ==
    ASSUME IInv, NEW t \in UserTasks, TaskDelete(t)
    PROVE  IInv'
<1> DEFINE s == [Detach(SchedRemove(k, t), t, "INTR") EXCEPT !.state[t] = "STOP"]
           c == [s EXCEPT !.prio[t] = 0, !.result[t] = "OK", !.slice[t] = SliceTicks]
<1>1. KInv(k) /\ phase = "running" /\ boot = <<>>
  BY CallingInv, RunningInv DEF TaskDelete
<1>2. KInv(s) /\ t \notin RunnableTasks(s)
  BY <1>1, KInvStop
<1>3. k' = IF t = k.cur THEN RescheduleRequest(s) ELSE c
  BY DEF TaskDelete
<1> HIDE DEF s
<1>4. KInv(c)
  <2>1. t \in Tasks /\ 0 \in Priorities /\ SliceTicks \in 0 .. SliceTicks
    BY KernelAssumption DEF UserTasks, Priorities
  <2>2. /\ c \in KernelType /\ c.ready = s.ready /\ c.bitmap = s.bitmap
        /\ c.state = s.state /\ c.cur = s.cur
        /\ \A u \in Tasks \ {t} : c.prio[u] = s.prio[u]
    BY <1>2, <2>1 DEF KInv, KernelType, Results
  <2> HIDE DEF c
  <2>3. RunnableTasks(c) = RunnableTasks(s)
    BY <2>2 DEF RunnableTasks
  <2>4. Queues(c, RunnableTasks(s))
    BY <1>2, <2>2, QueuesSame DEF KInv, RunnableTasks
  <2> QED BY <1>2, <2>2, <2>3, <2>4 DEF KInv
<1>5. KInv(k')
  BY <1>2, <1>3, <1>4, KInvReschedule
<1>6. /\ phase' = "running" /\ boot' = <<>> /\ inTick' \in BOOLEAN /\ owed' \subseteq Tasks
  BY <1>1 DEF TaskDelete, IInv, TypeOK
<1> QED BY <1>5, <1>6, RunningStep

LEMMA TaskSuspendStep ==
    ASSUME IInv, NEW t \in UserTasks, TaskSuspend(t)
    PROVE  IInv'
<1> DEFINE a == SchedRemove(k, t)
           d == IF k.state[t] \in {"BLOCKED", "DELAYED"} THEN Detach(a, t, "INTR") ELSE a
           s == [d EXCEPT !.state[t] = "SUSPENDED"]
           r == IF t = k.cur THEN RescheduleRequest(s) ELSE s
<1>1. Call(r)
  BY DEF TaskSuspend
<1>2. KInv(k)
  BY <1>1, CallingInv DEF Call
<1>3. d = a \/ d = Detach(a, t, "INTR")
  OBVIOUS
<1>4. KInv(s)
  <2> HIDE DEF d
  <2> QED BY <1>2, <1>3, KInvStop
<1> HIDE DEF s
<1>5. KInv(r)
  BY <1>4, KInvReschedule
<1> QED BY <1>1, <1>5, CallStep

LEMMA SetPriorityStep ==
    ASSUME IInv, NEW t \in UserTasks, NEW p \in NewPriorities, SetPriority(t, p)
    PROVE  IInv'
<1> DEFINE n == [k EXCEPT !.prio[t] = p]
           q == SchedRequeue(n, t, k.prio[t])
           w == WaiterPriorityChanged(q, t)
           S == RunnableTasks(k)
<1>1. Call(RequestPreemption(w))
  BY DEF SetPriority
<1>2. KInv(k)
  BY <1>1, CallingInv DEF Call
<1>3. t \in Tasks /\ p \in Priorities
  BY SchedulerAssumption DEF UserTasks
<1>4. q \in KernelType /\ Queues(q, S) /\ QueuesChanged(n, q)
  BY <1>2, <1>3, SchedRequeueQueues DEF KInv
<1>5. n.state = k.state /\ n.cur = k.cur
  BY <1>2 DEF KInv, KernelType
<1> HIDE DEF n, q
<1>6. q.state = k.state /\ q.cur = k.cur
  BY <1>4, <1>5 DEF QueuesChanged, KernelType
<1>7. RunnableTasks(q) = S
  BY <1>6 DEF RunnableTasks
<1>8. KInv(q)
  BY <1>2, <1>4, <1>6, <1>7 DEF KInv
<1>9. w \in KernelType /\ w = [q EXCEPT !.waitq = w.waitq]
  BY <1>3, <1>4, WaiterPriorityChangedType
<1> HIDE DEF w
<1>10. /\ w.state = q.state /\ w.prio = q.prio /\ w.cur = q.cur
       /\ w.ready = q.ready /\ w.bitmap = q.bitmap
  BY <1>4, <1>9 DEF KernelType
<1>11. KInv(w)
  BY <1>8, <1>9, <1>10, KInvSame
<1> QED BY <1>1, <1>11, KInvPreemption, CallStep

LEMMA TaskYieldStep ==
    ASSUME IInv, TaskYield
    PROVE  IInv'
<1>1. KInv(k) /\ Call(RescheduleRequest(RotateCurrent(k)))
  BY CallingInv DEF TaskYield, Call
<1>2. KInv(RescheduleRequest(RotateCurrent(k)))
  BY <1>1, KInvRotate, KInvReschedule
<1> QED BY <1>1, <1>2, CallStep

LEMMA BlockStep ==
    ASSUME IInv, NEW waitState \in {"BLOCKED", "DELAYED"},
           NEW list \in WaitLists \union {NoList}, NEW d \in Delays \union {0},
           Call(BlockCurrent(k, waitState, list, d))
    PROVE  IInv'
<1>1. KInv(k) /\ k.cur # Idle
  BY CallingInv DEF Call
<1>2. d \in Nat
  BY SchedulerAssumption
<1>3. KInv(BlockCurrent(k, waitState, list, d))
  BY <1>1, <1>2, KInvBlock
<1> QED BY <1>3, CallStep

LEMMA WakeFirstInv ==
    ASSUME KInv(k), NEW w \in WaitLists, k.waitq[w] # <<>>
    PROVE  KInv(WakeFirst(w))
<1>1. k.waitq[w] \in Seq(Tasks)
  BY DEF KInv, KernelType
<1>2. Head(k.waitq[w]) \in Tasks
  BY <1>1, FirstLinked
<1> QED BY <1>2, KInvWake DEF WakeFirst, Results

LEMMA TaskResumeStep ==
    ASSUME IInv, NEW t \in UserTasks, TaskResume(t)
    PROVE  IInv'
<1>1. KInv(k) /\ Call(RequestPreemption(MakeReady(k, t)))
  BY CallingInv DEF TaskResume, Call
<1>2. t \in Tasks /\ t \notin RunnableTasks(k)
  BY DEF TaskResume, UserTasks, RunnableTasks, Runnable
<1>3. KInv(RequestPreemption(MakeReady(k, t)))
  BY <1>1, <1>2, KInvReady, KInvPreemption
<1> QED BY <1>1, <1>3, CallStep

\* A step that changes the scheduler lock and the request flags only
LEMMA KInvLock ==
    ASSUME NEW kk, KInv(kk), NEW n \in 0 .. MaxLock,
           NEW asked \in BOOLEAN, NEW pendsv \in BOOLEAN
    PROVE  KInv([kk EXCEPT !.lock = n, !.pending = asked, !.pendsv = pendsv])
<1> DEFINE r == [kk EXCEPT !.lock = n, !.pending = asked, !.pendsv = pendsv]
<1>1. /\ r \in KernelType /\ r.state = kk.state /\ r.prio = kk.prio
      /\ r.cur = kk.cur /\ r.ready = kk.ready /\ r.bitmap = kk.bitmap
  BY DEF KInv, KernelType
<1> HIDE DEF r
<1>2. KInv(r)
  BY <1>1, KInvSame
<1> QED BY <1>2 DEF r

LEMMA SchedLockStep ==
    ASSUME IInv, SchedLock
    PROVE  IInv'
<1> DEFINE r == [k EXCEPT !.lock = @ + 1]
<1>1. KInv(k) /\ Call(r) /\ k.lock < MaxLock
  BY CallingInv DEF SchedLock, Call
<1>2. k.lock + 1 \in 0 .. MaxLock
  <2>1. k.lock \in 0 .. MaxLock
    BY <1>1 DEF KInv, KernelType
  <2> QED BY <1>1, <2>1, KernelAssumption
<1>3. r = [k EXCEPT !.lock = k.lock + 1, !.pending = k.pending, !.pendsv = k.pendsv]
  BY <1>1 DEF KInv, KernelType
<1>4. k.pending \in BOOLEAN /\ k.pendsv \in BOOLEAN
  BY <1>1 DEF KInv, KernelType
<1> HIDE DEF r
<1>5. KInv(r)
  BY <1>1, <1>2, <1>3, <1>4, KInvLock
<1> QED BY <1>1, <1>5, CallStep

LEMMA SchedUnlockStep ==
    ASSUME IInv, SchedUnlock
    PROVE  IInv'
<1> DEFINE last == k.lock = 1
           n == k.lock - 1
           asked == ~last /\ k.pending
<1>1. KInv(k) /\ phase = "running" /\ boot = <<>> /\ k.lock > 0
  BY CallingInv, RunningInv DEF SchedUnlock
<1>2. n \in 0 .. MaxLock /\ asked \in BOOLEAN /\ k.pendsv \in BOOLEAN
  BY <1>1, KernelAssumption DEF KInv, KernelType
<1>3. k' = [k EXCEPT !.lock = n, !.pending = asked, !.pendsv = k.pendsv]
  BY <1>1 DEF SchedUnlock, KInv, KernelType
<1> HIDE DEF n, asked
<1>4. KInv(k')
  BY <1>1, <1>2, <1>3, KInvLock
<1>5. /\ phase' = "running" /\ boot' = <<>> /\ inTick' \in BOOLEAN
      /\ owed' \in {owed, owed \union {k.cur}}
  BY <1>1 DEF SchedUnlock, IInv, TypeOK
<1>6. owed' \subseteq Tasks
  BY <1>1, <1>5 DEF IInv, TypeOK, KInv
<1> QED BY <1>4, <1>5, <1>6, RunningStep

LEMMA SwitchNowStep ==
    ASSUME IInv, SwitchNow
    PROVE  IInv'
<1>1. KInv(k) /\ phase = "running" /\ boot = <<>>
  BY RunningInv DEF SwitchNow, ThreadLevel
<1>2. k.lock \in 0 .. MaxLock /\ k.pending \in BOOLEAN
  BY <1>1 DEF KInv, KernelType
<1>3. k' = [k EXCEPT !.lock = k.lock, !.pending = k.pending, !.pendsv = TRUE]
  BY <1>1 DEF SwitchNow, KInv, KernelType
<1>4. KInv(k')
  BY <1>1, <1>2, <1>3, KInvLock
<1>5. /\ phase' = "running" /\ boot' = <<>> /\ inTick' \in BOOLEAN /\ owed' \subseteq Tasks
  BY <1>1 DEF SwitchNow, IInv, TypeOK
<1> QED BY <1>4, <1>5, RunningStep

-----------------------------------------------------------------------------
(* Interrupts and the context switch.                                      *)

\* An interrupt changes the kernel data, and perhaps inTick.
LEMMA InterruptStep ==
    ASSUME IInv, phase = "running", KInv(k'), inTick' \in BOOLEAN,
           UNCHANGED <<phase, boot, owed>>
    PROVE  IInv'
<1>1. boot = <<>> /\ owed \subseteq Tasks
  BY RunningInv DEF IInv, TypeOK
<1> QED BY <1>1, RunningStep

\* Handlers run only once aixos_start has finished.
LEMMA HandlerInv ==
    ASSUME IInv, k.isr > 0 \/ inTick
    PROVE  phase = "running" /\ KInv(k) /\ inTick \in BOOLEAN
<1>1. k.isr \in Nat
  BY KernelAssumption DEF IInv, TypeOK, KernelType
<1>2. phase = "running"
  BY <1>1 DEF IInv, BootInv
<1> QED BY <1>2, RunningInv DEF IInv, TypeOK

LEMMA InterruptEnterStep ==
    ASSUME IInv, InterruptEnter
    PROVE  IInv'
<1>1. phase = "running" /\ KInv(k) /\ k.isr < MaxIsr /\ k' = IsrEnter(k)
  BY RunningInv DEF InterruptEnter, Interrupt
<1>2. KInv(k')
  BY <1>1, KInvIsrEnter
<1> QED BY <1>1, <1>2, InterruptStep DEF InterruptEnter, IInv, TypeOK

LEMMA InterruptSignalStep ==
    ASSUME IInv, NEW w \in WaitLists, InterruptSignal(w)
    PROVE  IInv'
<1>1. phase = "running" /\ KInv(k)
  BY HandlerInv DEF InterruptSignal, Handler
<1>2. KInv(k')
  BY <1>1, WakeFirstInv DEF InterruptSignal
<1> QED BY <1>1, <1>2, InterruptStep DEF InterruptSignal, IInv, TypeOK

LEMMA InterruptExitStep ==
    ASSUME IInv, InterruptExit
    PROVE  IInv'
<1>1. phase = "running" /\ KInv(k)
  BY HandlerInv DEF InterruptExit, Handler
<1>2. KInv(k')
  BY <1>1, KInvIsrExit DEF InterruptExit
<1> QED BY <1>1, <1>2, InterruptStep DEF InterruptExit, IInv, TypeOK

LEMMA TickStartStep ==
    ASSUME IInv, TickStart
    PROVE  IInv'
<1> DEFINE e == IsrEnter(k)
           now == TickAfter(e.tick, 1)
           s == IF e.slice[k.cur] > 0 THEN e.slice[k.cur] - 1 ELSE 0
           slice == [e.slice EXCEPT ![k.cur] = s]
           r == [e EXCEPT !.tick = now, !.slice = slice]
<1>1. phase = "running" /\ KInv(k) /\ k.isr < MaxIsr
  BY RunningInv DEF TickStart, Interrupt
<1>2. KInv(e)
  BY <1>1, KInvIsrEnter
<1>3. e.slice \in [Tasks -> 0 .. SliceTicks] /\ e.tick \in Ticks /\ k.cur \in Tasks
  BY <1>1, <1>2 DEF KInv, KernelType
<1>4. k' = [IsrEnter(k) EXCEPT !.tick = TickAfter(@, 1),
                               !.slice[k.cur] = IF @ > 0 THEN @ - 1 ELSE 0]
  BY DEF TickStart
<1> HIDE DEF e
<1>5. k' = r
  BY <1>2, <1>4 DEF KInv, KernelType, e
<1>6. now \in Ticks
  BY <1>3, TickAfterType
<1>7. s \in 0 .. SliceTicks
  BY <1>3, KernelAssumption
<1> HIDE DEF now, s
<1>8. slice \in [Tasks -> 0 .. SliceTicks]
  BY <1>3, <1>7
<1> HIDE DEF slice
<1>9. /\ r \in KernelType /\ r.state = e.state /\ r.prio = e.prio
      /\ r.cur = e.cur /\ r.ready = e.ready /\ r.bitmap = e.bitmap
  BY <1>2, <1>6, <1>8 DEF KInv, KernelType
<1> HIDE DEF r
<1>10. KInv(k')
  BY <1>2, <1>5, <1>9, KInvSame
<1>11. inTick' \in BOOLEAN
  BY DEF TickStart
<1> QED BY <1>1, <1>10, <1>11, InterruptStep DEF TickStart

LEMMA TickExpireStep ==
    ASSUME IInv, TickExpire
    PROVE  IInv'
<1> DEFINE t == Head(k.timeouts)
           result == IF k.state[t] = "DELAYED" THEN "OK" ELSE "TIMEOUT"
<1>1. phase = "running" /\ KInv(k)
  BY HandlerInv DEF TickExpire
<1>2. k.timeouts \in Seq(Tasks) /\ k.timeouts # <<>>
  BY <1>1 DEF KInv, KernelType, TickExpire, TimeoutDue
<1>3. t \in Tasks
  BY <1>2, FirstLinked
<1>4. result \in Results /\ k' = TaskWake(k, t, result)
  BY DEF TickExpire, Results
<1> HIDE DEF t, result
<1>5. KInv(k')
  BY <1>1, <1>3, <1>4, KInvWake
<1> QED BY <1>1, <1>5, InterruptStep DEF TickExpire, IInv, TypeOK

LEMMA TickEndStep ==
    ASSUME IInv, TickEnd
    PROVE  IInv'
<1> DEFINE s == [k EXCEPT !.slice[k.cur] = SliceTicks]
           r == IF k.slice[k.cur] = 0 THEN RescheduleRequest(RotateCurrent(s)) ELSE k
<1>1. phase = "running" /\ KInv(k)
  BY HandlerInv DEF TickEnd
<1>2. SliceTicks \in 0 .. SliceTicks
  BY KernelAssumption
<1>3. /\ s \in KernelType /\ s.state = k.state /\ s.prio = k.prio
      /\ s.cur = k.cur /\ s.ready = k.ready /\ s.bitmap = k.bitmap
  BY <1>1, <1>2 DEF KInv, KernelType
<1>4. k' = IsrExit(r)
  BY DEF TickEnd
<1> HIDE DEF s
<1>5. KInv(s)
  BY <1>1, <1>3, KInvSame
<1>6. KInv(r)
  BY <1>1, <1>5, KInvRotate, KInvReschedule
<1> HIDE DEF r
<1>7. KInv(k')
  BY <1>4, <1>6, KInvIsrExit
<1>8. inTick' \in BOOLEAN
  BY DEF TickEnd
<1> QED BY <1>1, <1>7, <1>8, InterruptStep DEF TickEnd

\* The switch keeps the invariant and leaves the processor to a task that no
\* runnable task outranks.
LEMMA ContextSwitchStep ==
    ASSUME IInv, ContextSwitch
    PROVE  /\ IInv'
           /\ \A t \in Tasks : k'.state[t] \in Runnable => k'.prio[t] <= k'.prio[k'.cur]
<1> DEFINE r == [k EXCEPT !.pendsv = FALSE]
<1>1. phase = "running" /\ KInv(k) /\ k' = Schedule(r)
  BY RunningInv DEF ContextSwitch
<1>2. /\ r \in KernelType /\ r.state = k.state /\ r.prio = k.prio
      /\ r.cur = k.cur /\ r.ready = k.ready /\ r.bitmap = k.bitmap
  BY <1>1 DEF KInv, KernelType
<1> HIDE DEF r
<1>3. KInv(r)
  BY <1>1, <1>2, KInvSame
<1>4. /\ KInv(k') /\ RunnableTasks(k') = RunnableTasks(r)
      /\ \A t \in RunnableTasks(r) : r.prio[t] <= r.prio[k'.cur]
      /\ k'.prio = r.prio
  BY <1>1, <1>3, KInvSchedule DEF KInv
<1>5. IInv'
  BY <1>1, <1>4, InterruptStep DEF ContextSwitch, IInv, TypeOK
<1> QED BY <1>4, <1>5 DEF RunnableTasks

-----------------------------------------------------------------------------
(* Before and during aixos_start.                                          *)

LEMMA InitInv ==
    ASSUME Init
    PROVE  IInv
<1>1. <<>> \in Seq(Tasks) /\ NoRepeat(<<>>) /\ \A t : ~Linked(<<>>, t)
  <2>1. <<>> \in Seq(Tasks) /\ \A t : ~Linked(<<>>, t)
    BY EmptySeq, FirstLinked
  <2>2. NoRepeat(<<>>)
    BY DEF NoRepeat
  <2> QED BY <2>1, <2>2
<1>2. /\ 0 \in Priorities /\ 0 \in Ticks /\ 0 \in 0 .. MaxIsr /\ 0 \in 0 .. MaxLock
      /\ SliceTicks \in 0 .. SliceTicks
  BY KernelAssumption, ClockAssumption DEF Priorities, Ticks
<1>3. k \in KernelType
  BY <1>1, <1>2 DEF Init, KernelType, TaskStates, Results
<1>4. /\ \A t \in Tasks : k.state[t] = "STOP"
      /\ \A p \in Priorities : k.ready[p] = <<>>
      /\ k.bitmap = {} /\ k.isr = 0
  BY DEF Init
<1>5. Ready = {}
  BY <1>4 DEF Ready, Runnable
<1>6. Queues(k, Ready)
  BY <1>1, <1>4, <1>5 DEF Queues
<1>7. TypeOK
  BY <1>1, <1>3 DEF Init, TypeOK
<1>8. BootInv
  <2>1. boot = <<>> /\ phase = "boot" /\ ~inTick /\ k.isr = 0
    BY <1>4 DEF Init
  <2>2. k.state[Idle] = "STOP"
    BY <1>4, SchedulerAssumption
  <2>3. NoRepeat(boot) /\ \A t : ~Linked(boot, t)
    BY <1>1, <2>1
  <2> QED BY <2>1, <2>2, <2>3 DEF BootInv
<1> QED BY <1>6, <1>7, <1>8 DEF IInv

\* A new task control block joins the list of all tasks.
LEMMA BootNew ==
    ASSUME IInv, phase = "boot", NEW t \in Tasks, NEW p \in Priorities,
           k.state[t] = "STOP", k' = NewTask(k, t, p), boot' = Append(boot, t),
           phase' = IF t = Idle THEN "starting" ELSE "boot",
           UNCHANGED <<inTick, owed>>
    PROVE  IInv'
<1>1. k \in KernelType /\ Queues(k, Ready) /\ NoRepeat(boot) /\ boot \in Seq(Tasks)
  BY DEF IInv, TypeOK, BootInv
<1>2. 0 \in Ticks /\ SliceTicks \in 0 .. SliceTicks
  BY KernelAssumption, ClockAssumption DEF Ticks
<1>3. /\ k' \in KernelType /\ k'.ready = k.ready /\ k'.bitmap = k.bitmap
      /\ k'.isr = k.isr /\ k'.state = [k.state EXCEPT ![t] = "READY"]
      /\ \A u \in Tasks \ {t} : k'.prio[u] = k.prio[u]
  BY <1>1, <1>2 DEF NewTask, KernelType, TaskStates, Results
<1>4. k.state \in [Tasks -> TaskStates]
  BY <1>1 DEF KernelType
<1>5. ~Linked(boot, t)
  BY DEF IInv, BootInv
<1>6. /\ boot' \in Seq(Tasks) /\ NoRepeat(boot')
      /\ \A u : Linked(boot', u) <=> Linked(boot, u) \/ u = t
  BY <1>1, <1>5, AppendLinked
<1>7. t \notin Ready
  BY DEF Ready, Runnable
<1>8. Ready' = Ready
  BY <1>3, <1>4, <1>6, <1>7 DEF Ready
<1>9. Queues(k', Ready)
  BY <1>1, <1>3, <1>7, QueuesSame DEF Ready
<1>10. TypeOK'
  BY <1>3, <1>6 DEF IInv, TypeOK
<1>11. BootInv'
  <2>1. \A u \in Tasks : Linked(boot', u) => k'.state[u] = "READY"
    BY <1>3, <1>4, <1>6 DEF IInv, BootInv
  <2>2. phase' = "boot" => k'.state[Idle] = "STOP"
    BY <1>3, <1>4, SchedulerAssumption DEF IInv, BootInv
  <2>3. phase' # "boot" => k'.state[Idle] \in Runnable
    BY <1>3, <1>4 DEF Runnable
  <2>4. k'.isr = 0 /\ ~inTick'
    BY <1>3 DEF IInv, BootInv
  <2> QED BY <1>6, <2>1, <2>2, <2>3, <2>4 DEF BootInv
<1> QED BY <1>8, <1>9, <1>10, <1>11 DEF IInv

LEMMA StartTaskStep ==
    ASSUME IInv, StartTask
    PROVE  IInv'
<1> DEFINE h == Head(boot)
<1>1. /\ k \in KernelType /\ Queues(k, Ready) /\ boot \in Seq(Tasks) /\ boot # <<>>
      /\ NoRepeat(boot) /\ k.state[Idle] \in Runnable /\ k.isr = 0 /\ ~inTick
      /\ phase' = "starting" /\ boot' = Tail(boot) /\ k' = SchedAdd(k, h)
      /\ \A u \in Tasks : Linked(boot, u) => k.state[u] = "READY"
      /\ UNCHANGED <<inTick, owed>>
  BY DEF StartTask, IInv, TypeOK, BootInv
<1>2. h \in Tasks /\ Linked(boot, h)
  BY <1>1, FirstLinked
<1>3. /\ boot' \in Seq(Tasks) /\ NoRepeat(boot')
      /\ \A u : Linked(boot', u) <=> Linked(boot, u) /\ u # h
  BY <1>1, TailLinked
<1> HIDE DEF h
<1>4. h \notin Ready /\ k.state[h] = "READY"
  BY <1>1, <1>2 DEF Ready
<1>5. /\ k' \in KernelType /\ Queues(k', Ready \union {h}) /\ QueuesChanged(k, k')
  BY <1>1, <1>2, <1>4, SchedAddQueues
<1>6. k'.state = k.state /\ k'.isr = k.isr
  BY <1>1, <1>5 DEF QueuesChanged, KernelType
<1>7. Ready' = Ready \union {h}
  BY <1>2, <1>3, <1>4, <1>6 DEF Ready, Runnable
<1>8. TypeOK'
  BY <1>1, <1>3, <1>5 DEF IInv, TypeOK
<1>9. BootInv'
  BY <1>1, <1>3, <1>6 DEF BootInv
<1> QED BY <1>5, <1>7, <1>8, <1>9 DEF IInv

LEMMA StartFirstStep ==
    ASSUME IInv, StartFirst
    PROVE  IInv'
<1>1. /\ k \in KernelType /\ Queues(k, Ready) /\ boot = <<>>
      /\ k.state[Idle] \in Runnable
  BY DEF StartFirst, IInv, TypeOK, BootInv
<1>2. Ready = RunnableTasks(k)
  BY <1>1, FirstLinked, EmptySeq DEF Ready, RunnableTasks
<1>3. KInv(k')
  BY <1>1, <1>2, KInvSchedule DEF StartFirst
<1> QED BY <1>1, <1>3, RunningStep DEF StartFirst, IInv, TypeOK

LEMMA StartStep ==
    ASSUME IInv, Start
    PROVE  IInv'
<1>1. ASSUME NEW t \in UserTasks, NEW p \in UserPriorities, BootCreate(t, p)
      PROVE  IInv'
  <2>1. t \in Tasks /\ t # Idle /\ p \in Priorities
    BY SchedulerAssumption DEF UserTasks
  <2> QED BY <1>1, <2>1, BootNew DEF BootCreate
<1>2. ASSUME StartIdle PROVE IInv'
  <2>1. Idle \in Tasks /\ 0 \in Priorities /\ k.state[Idle] = "STOP"
    BY <1>2, SchedulerAssumption, KernelAssumption
    DEF Priorities, StartIdle, IInv, BootInv
  <2> QED BY <1>2, <2>1, BootNew DEF StartIdle
<1> QED BY <1>1, <1>2, StartTaskStep, StartFirstStep DEF Start

-----------------------------------------------------------------------------
(* The theorems.                                                           *)

LEMMA ApplicationStep ==
    ASSUME IInv, Application
    PROVE  IInv'
<1>1. ASSUME NEW d \in Delays, TaskSleep(d) PROVE IInv'
  BY <1>1, BlockStep DEF TaskSleep
<1>2. ASSUME NEW w \in WaitLists, NEW d \in Delays \union {0}, TaskWait(w, d)
      PROVE  IInv'
  BY <1>2, BlockStep DEF TaskWait
<1>3. ASSUME NEW w \in WaitLists, TaskSignal(w) PROVE IInv'
  <2>1. KInv(WakeFirst(w)) /\ Call(WakeFirst(w))
    BY <1>3, CallingInv, WakeFirstInv DEF TaskSignal, Call
  <2> QED BY <2>1, CallStep
<1> QED BY <1>1, <1>2, <1>3, TaskCreateStep, TaskDeleteStep, TaskYieldStep,
           TaskSuspendStep, TaskResumeStep, SetPriorityStep, SchedLockStep,
           SchedUnlockStep DEF Application

LEMMA InterruptsStep ==
    ASSUME IInv, Interrupts
    PROVE  IInv'
BY InterruptEnterStep, InterruptSignalStep, InterruptExitStep, TickStartStep,
   TickExpireStep, TickEndStep DEF Interrupts

LEMMA NextInv ==
    ASSUME IInv, [Next]_vars
    PROVE  IInv'
<1>1. CASE UNCHANGED vars
  <2>1. Ready' = Ready
    BY <1>1 DEF vars, Ready
  <2>2. TypeOK' /\ BootInv' /\ k' = k
    BY <1>1 DEF vars, IInv, TypeOK, BootInv
  <2> QED BY <2>1, <2>2 DEF IInv
<1> QED BY <1>1, StartStep, ApplicationStep, SwitchNowStep, InterruptsStep,
           ContextSwitchStep DEF Next

\* The inductive invariant, in every reachable state: sched.c, task.c and isr.c
\* keep the types and the exact content of the ready queues, and aixos_start
\* puts every task that was created before it on its queue.
THEOREM InductiveInvariant == Spec => []IInv
BY InitInv, NextInv, PTL DEF Spec

\* Every field of the kernel data keeps its type: the interrupt nesting and the
\* ticks stay in range, and the lists hold tasks only.
THEOREM TypeCorrect == Spec => []TypeOK
<1>1. IInv => TypeOK
  BY DEF IInv
<1> QED BY <1>1, InductiveInvariant, PTL

\* sched.c: a task is on a ready queue exactly while it is runnable, once and on
\* the queue of its priority, and the bitmap shows the queues that are not empty.
THEOREM ReadyQueuesCorrect == Spec => []ReadyQueuesExact
<1>1. IInv => ReadyQueuesExact
  BY DEF IInv, Queues, Ready, ReadyQueuesExact
<1> QED BY <1>1, InductiveInvariant, PTL

\* aixos_schedule: a context switch leaves the processor to a task that no
\* runnable task outranks.
THEOREM SwitchCorrect == Spec => SwitchToHighest
<1>1. IInv => (ContextSwitch =>
                 \A t \in Tasks : k'.state[t] \in Runnable
                                   => k'.prio[t] <= k'.prio[k'.cur])
  BY ContextSwitchStep
<1> QED BY <1>1, InductiveInvariant, PTL DEF SwitchToHighest

-----------------------------------------------------------------------------
(***************************************************************************)
(* The tasks and their waits, on top of the inductive invariant: which     *)
(* task may be RUNNING, that no switch that was asked for is lost, that    *)
(* wait lists and timeout list hold exactly the tasks that wait, in order, *)
(* that the scheduler implements the specification Waiting, and that the   *)
(* ready queues are first in, first out.                                   *)
(*                                                                         *)
(* The first part says once what each action does to the tasks; the        *)
(* invariants and the refinement are proved from that alone.               *)
(***************************************************************************)

(* What may happen to the tasks in one step from kk to r.                  *)

Active == {"READY", "RUNNING", "SUSPENDED"}

\* Nobody begins or ends a wait, and nobody is created or deleted.
Quiet(kk, r) ==
    /\ SameWaiting(kk, r) /\ r.prio = kk.prio /\ r.tick = kk.tick
    /\ \A t \in Tasks : \/ r.state[t] = kk.state[t]
                        \/ kk.state[t] \in Active /\ r.state[t] \in Active

Made(kk, r, t, p) ==
    /\ kk.state[t] = "STOP"
    /\ r.state = [kk.state EXCEPT ![t] = "READY"]
    /\ r.prio = [kk.prio EXCEPT ![t] = p]
    /\ r.wake = [kk.wake EXCEPT ![t] = 0]
    /\ r.waitOn = [kk.waitOn EXCEPT ![t] = NoList]
    /\ r.result = [kk.result EXCEPT ![t] = "OK"]
    /\ r.waitq = kk.waitq /\ r.timeouts = kk.timeouts /\ r.tick = kk.tick

\* Whatever t waited for, it does so no more and is in state s.
Ended(kk, r, t, s, result) ==
    /\ Detached(kk, r, t, result)
    /\ r.state = [kk.state EXCEPT ![t] = s]
    /\ \A u \in Tasks \ {t} : r.prio[u] = kk.prio[u]
    /\ r.tick = kk.tick

\* The priority of t changes, and with it its place on a wait list.
Moved(kk, r, t, p) ==
    LET list == kk.waitOn[t]
    IN  /\ r.state = kk.state
        /\ r.prio = [kk.prio EXCEPT ![t] = p]
        /\ r.waitq = IF list # NoList /\ Linked(kk.waitq[list], t)
                     THEN [kk.waitq EXCEPT ![list] = WaitInsert(ListDel(@, t), r.prio, t)]
                     ELSE kk.waitq
        /\ r.timeouts = kk.timeouts /\ r.wake = kk.wake /\ r.waitOn = kk.waitOn
        /\ r.result = kk.result /\ r.tick = kk.tick

\* A switch is asked for, or no ready task outranks the current one.
Preempts(kk, r) ==
    \/ Asked(kk, r)
    \/ SameFlags(kk, r) /\ \A t \in RunnableTasks(r) : r.prio[t] <= r.prio[r.cur]

LEMMA SameWaitsQuiet ==
    ASSUME NEW kk, NEW r, SameWaits(kk, r)
    PROVE  Quiet(kk, r)
BY DEF SameWaits, Quiet, SameWaiting

-----------------------------------------------------------------------------
(* What the actions do.                                                    *)

LEMMA TaskCreateEffect ==
    ASSUME IInv, NEW t \in UserTasks, NEW p \in UserPriorities, TaskCreate(t, p)
    PROVE  Made(k, k', t, p) /\ SameRun(k, k') /\ SameFlags(k, k')
<1>1. KInv(k) /\ k.state[t] = "STOP" /\ k' = SchedAdd(NewTask(k, t, p), t)
  BY CallingInv DEF TaskCreate, Call
<1> QED BY <1>1 DEF SchedAdd, NewTask, KInv, KernelType, Made, SameRun, SameFlags

\* SchedRemove, then perhaps Detach, then the new state
LEMMA StopEffect ==
    ASSUME NEW kk, KInv(kk), NEW t \in UserTasks, NEW s \in {"STOP", "SUSPENDED"}
    PROVE  LET a == SchedRemove(kk, t)
               r == [Detach(a, t, "INTR") EXCEPT !.state[t] = s]
               q == [a EXCEPT !.state[t] = s]
           IN  /\ Ended(kk, r, t, s, "INTR") /\ SameRun(kk, r) /\ SameFlags(kk, r)
               /\ r \in KernelType /\ r.prio = kk.prio
               /\ SameWaiting(kk, q) /\ q.prio = kk.prio /\ q.tick = kk.tick
               /\ q.state = [kk.state EXCEPT ![t] = s]
               /\ SameRun(kk, q) /\ SameFlags(kk, q) /\ q \in KernelType
<1> DEFINE a == SchedRemove(kk, t)
           d == Detach(a, t, "INTR")
           r == [d EXCEPT !.state[t] = s]
           q == [a EXCEPT !.state[t] = s]
<1>1. t \in Tasks /\ s \in TaskStates /\ "INTR" \in Results
  BY DEF UserTasks, TaskStates, Results
<1>2. a \in KernelType /\ QueuesChanged(kk, a)
  BY <1>1, SchedRemoveQueues DEF KInv
<1> HIDE DEF a
<1>3. SameWaits(kk, a) /\ SameRun(kk, a) /\ SameFlags(kk, a)
  BY <1>2, QueuesChangedSame DEF KInv
<1>4. /\ d \in KernelType /\ Detached(a, d, t, "INTR") /\ SameTask(a, d)
      /\ SameRun(a, d) /\ SameFlags(a, d) /\ d.state = a.state
  BY <1>1, <1>2, DetachEffect
<1> HIDE DEF d
<1>5. /\ q \in KernelType /\ q.state = [a.state EXCEPT ![t] = s]
      /\ SameWaiting(a, q) /\ SameTask(a, q) /\ SameFlags(a, q)
  BY <1>1, <1>2 DEF KernelType, SameWaiting, SameTask, SameFlags
<1>6. /\ r \in KernelType /\ r.state = [d.state EXCEPT ![t] = s]
      /\ SameWaiting(d, r) /\ SameTask(d, r) /\ SameFlags(d, r)
  BY <1>1, <1>4 DEF KernelType, SameWaiting, SameTask, SameFlags
<1> HIDE DEF q, r
<1>7. Ended(kk, r, t, s, "INTR") /\ r.prio = kk.prio
  BY <1>3, <1>4, <1>6 DEF Ended, Detached, SameWaits, SameTask, SameWaiting
<1>8. SameRun(kk, r) /\ SameFlags(kk, r)
  BY <1>3, <1>4, <1>6 DEF SameRun, SameTask, SameFlags
<1>9. /\ SameWaiting(kk, q) /\ q.prio = kk.prio /\ q.tick = kk.tick
      /\ q.state = [kk.state EXCEPT ![t] = s]
  BY <1>3, <1>5 DEF SameWaits, SameTask, SameWaiting
<1>10. SameRun(kk, q) /\ SameFlags(kk, q)
  BY <1>3, <1>5 DEF SameRun, SameTask, SameFlags
<1> QED BY <1>5, <1>6, <1>7, <1>8, <1>9, <1>10 DEF q, r, d, a

LEMMA TaskDeleteEffect ==
    ASSUME IInv, NEW t \in UserTasks, TaskDelete(t)
    PROVE  /\ \E result \in {"OK", "INTR"} : Ended(k, k', t, "STOP", result)
           /\ SameRun(k, k')
           /\ t = k.cur => Asked(k, k')
           /\ t # k.cur => SameFlags(k, k')
<1> DEFINE s == [Detach(SchedRemove(k, t), t, "INTR") EXCEPT !.state[t] = "STOP"]
<1>1. KInv(k)
  BY CallingInv DEF TaskDelete
<1>2. /\ Ended(k, s, t, "STOP", "INTR") /\ SameRun(k, s) /\ SameFlags(k, s)
      /\ s \in KernelType
  BY <1>1, StopEffect
<1>3. k' = IF t = k.cur THEN RescheduleRequest(s)
           ELSE [s EXCEPT !.prio[t] = 0, !.result[t] = "OK", !.slice[t] = SliceTicks]
  BY DEF TaskDelete
<1> HIDE DEF s
<1>4. CASE t = k.cur
  <2>1. SameWaits(s, k') /\ SameRun(s, k') /\ Asked(s, k')
    BY <1>2, <1>3, <1>4, RescheduleEffect
  <2>2. Ended(k, k', t, "STOP", "INTR")
    BY <1>2, <2>1 DEF Ended, Detached, SameWaits
  <2>3. SameRun(k, k') /\ Asked(k, k')
    BY <1>2, <2>1 DEF SameRun, SameFlags, Asked
  <2> QED BY <1>4, <2>2, <2>3
<1>5. CASE t # k.cur
  <2>1. /\ SameRun(s, k') /\ SameFlags(s, k') /\ k'.state = s.state /\ k'.tick = s.tick
        /\ k'.waitq = s.waitq /\ k'.timeouts = s.timeouts /\ k'.wake = s.wake
        /\ k'.waitOn = s.waitOn /\ k'.result = [s.result EXCEPT ![t] = "OK"]
        /\ k'.prio = [s.prio EXCEPT ![t] = 0]
    BY <1>2, <1>3, <1>5 DEF KernelType, SameRun, SameFlags
  <2>2. k.result \in [Tasks -> Results] /\ s.prio \in [Tasks -> Priorities]
    BY <1>1, <1>2 DEF KInv, KernelType
  <2>3. Ended(k, k', t, "STOP", "OK")
    BY <1>2, <2>1, <2>2 DEF Ended, Detached
  <2>4. SameRun(k, k') /\ SameFlags(k, k')
    BY <1>2, <2>1 DEF SameRun, SameFlags
  <2> QED BY <1>5, <2>3, <2>4
<1> QED BY <1>4, <1>5

LEMMA TaskSuspendEffect ==
    ASSUME IInv, NEW t \in UserTasks, TaskSuspend(t)
    PROVE  /\ IF k.state[t] \in {"BLOCKED", "DELAYED"}
              THEN Ended(k, k', t, "SUSPENDED", "INTR")
              ELSE Quiet(k, k')
           /\ k'.state = [k.state EXCEPT ![t] = "SUSPENDED"] /\ k'.prio = k.prio
           /\ SameRun(k, k')
           /\ t = k.cur => Asked(k, k')
           /\ t # k.cur => SameFlags(k, k')
<1> DEFINE a == SchedRemove(k, t)
           r == [Detach(a, t, "INTR") EXCEPT !.state[t] = "SUSPENDED"]
           q == [a EXCEPT !.state[t] = "SUSPENDED"]
           s == IF k.state[t] \in {"BLOCKED", "DELAYED"} THEN r ELSE q
<1>1. KInv(k) /\ k.state[t] \notin {"STOP", "SUSPENDED"} /\ t \in Tasks
  BY CallingInv DEF TaskSuspend, Call, UserTasks
<1>2. /\ Ended(k, r, t, "SUSPENDED", "INTR") /\ SameRun(k, r) /\ SameFlags(k, r)
      /\ r \in KernelType /\ r.prio = k.prio
      /\ SameWaiting(k, q) /\ q.prio = k.prio /\ q.tick = k.tick
      /\ q.state = [k.state EXCEPT ![t] = "SUSPENDED"]
      /\ SameRun(k, q) /\ SameFlags(k, q) /\ q \in KernelType
  BY <1>1, StopEffect
<1>3. k' = IF t = k.cur THEN RescheduleRequest(s) ELSE s
  BY DEF TaskSuspend, Call
<1> HIDE DEF r, q
<1>4. k.state \in [Tasks -> TaskStates]
  BY <1>1 DEF KInv, KernelType
<1>5. /\ IF k.state[t] \in {"BLOCKED", "DELAYED"}
         THEN Ended(k, s, t, "SUSPENDED", "INTR") ELSE Quiet(k, s)
      /\ s.state = [k.state EXCEPT ![t] = "SUSPENDED"] /\ s.prio = k.prio
      /\ SameRun(k, s) /\ SameFlags(k, s) /\ s \in KernelType
  <2>1. CASE k.state[t] \in {"BLOCKED", "DELAYED"}
    BY <1>2, <2>1 DEF Ended
  <2>2. CASE k.state[t] \notin {"BLOCKED", "DELAYED"}
    <3>1. k.state[t] \in Active
      BY <1>1, <1>4, <2>2 DEF Active, TaskStates
    <3> QED BY <1>2, <1>4, <2>2, <3>1 DEF Quiet, Active
  <2> QED BY <2>1, <2>2
<1> HIDE DEF s
<1>6. CASE t = k.cur
  <2>1. SameWaits(s, k') /\ SameRun(s, k') /\ Asked(s, k')
    BY <1>3, <1>5, <1>6, RescheduleEffect
  <2>2. /\ IF k.state[t] \in {"BLOCKED", "DELAYED"}
           THEN Ended(k, k', t, "SUSPENDED", "INTR") ELSE Quiet(k, k')
        /\ k'.state = [k.state EXCEPT ![t] = "SUSPENDED"] /\ k'.prio = k.prio
    BY <1>5, <2>1 DEF Ended, Detached, Quiet, SameWaiting, SameWaits
  <2>3. SameRun(k, k') /\ Asked(k, k')
    BY <1>5, <2>1 DEF SameRun, SameFlags, Asked
  <2> QED BY <1>6, <2>2, <2>3
<1> QED BY <1>3, <1>5, <1>6

LEMMA TaskYieldEffect ==
    ASSUME IInv, TaskYield
    PROVE  /\ SameWaits(k, k') /\ SameRun(k, k') /\ Asked(k, k')
<1>1. KInv(k) /\ k' = RescheduleRequest(RotateCurrent(k))
  BY CallingInv DEF TaskYield, Call
<1> DEFINE r == RotateCurrent(k)
<1>2. r \in KernelType /\ QueuesChanged(k, r)
  BY <1>1, RotateCurrentQueues DEF KInv
<1> HIDE DEF r
<1>3. SameWaits(k, r) /\ SameRun(k, r) /\ SameFlags(k, r)
  BY <1>1, <1>2, QueuesChangedSame DEF KInv
<1>4. SameWaits(r, k') /\ SameRun(r, k') /\ Asked(r, k')
  BY <1>1, <1>2, RescheduleEffect DEF r
<1> QED BY <1>3, <1>4 DEF SameWaits, SameRun, SameFlags, Asked

LEMMA BlockEffect ==
    ASSUME IInv, NEW waitState \in {"BLOCKED", "DELAYED"},
           NEW list \in WaitLists \union {NoList}, NEW d \in Delays \union {0},
           Call(BlockCurrent(k, waitState, list, d))
    PROVE  Begun(k, k', waitState, list, d) /\ SameRun(k, k') /\ Asked(k, k')
<1> DEFINE b == BeginWait(k, waitState, list, d)
<1>1. KInv(k) /\ k' = RescheduleRequest(b)
  BY CallingInv DEF Call, BlockCurrent
<1>2. d \in Nat /\ waitState \in TaskStates
  BY SchedulerAssumption DEF TaskStates
<1>3. b \in KernelType
  BY <1>1, <1>2, BeginWaitQueues DEF KInv
<1>4. Begun(k, b, waitState, list, d) /\ SameTask(k, b) /\ SameFlags(k, b)
  BY <1>1, <1>2, BeginWaitEffect DEF KInv
<1> HIDE DEF b
<1>5. SameWaits(b, k') /\ SameRun(b, k') /\ Asked(b, k')
  BY <1>1, <1>3, RescheduleEffect
<1>6. Begun(k, k', waitState, list, d)
  BY <1>4, <1>5 DEF Begun, SameWaits
<1>7. SameRun(k, k') /\ Asked(k, k')
  BY <1>4, <1>5 DEF SameRun, SameTask, SameFlags, Asked
<1> QED BY <1>6, <1>7

\* aixos_task_wake of a task that waits
LEMMA TaskWakeEffect ==
    ASSUME NEW kk, KInv(kk), NEW t \in Tasks, NEW result \in Results,
           kk.state[t] \in {"BLOCKED", "DELAYED"}
    PROVE  LET r == TaskWake(kk, t, result)
           IN  /\ Ended(kk, r, t, "READY", result) /\ r.prio = kk.prio
               /\ SameRun(kk, r) /\ r.slice = kk.slice
               /\ Preempts(kk, r)
<1> DEFINE r == TaskWake(kk, t, result)
           S == RunnableTasks(kk)
<1>1. t \notin S /\ S \in SUBSET Tasks
  BY DEF RunnableTasks, Runnable
<1>2. /\ Detached(kk, r, t, result) /\ SameTask(kk, r)
      /\ r.state = [kk.state EXCEPT ![t] = "READY"]
      /\ \/ Asked(kk, r)
         \/ /\ SameFlags(kk, r)
            /\ \A u \in S \union {t} : kk.cur = NoTask \/ kk.prio[u] <= kk.prio[kk.cur]
  BY <1>1, WakeEffect DEF KInv
<1> HIDE DEF r
<1>3. kk.cur # NoTask /\ kk.state \in [Tasks -> TaskStates]
  BY KernelAssumption DEF KInv, KernelType
<1>4. RunnableTasks(r) = S \union {t}
  BY <1>2, <1>3 DEF RunnableTasks, Runnable
<1>5. Preempts(kk, r)
  BY <1>2, <1>3, <1>4 DEF Preempts, SameTask
<1>6. Ended(kk, r, t, "READY", result) /\ r.prio = kk.prio /\ SameRun(kk, r) /\ r.slice = kk.slice
  BY <1>2 DEF Ended, SameTask, SameRun
<1> QED BY <1>5, <1>6 DEF r

LEMMA TaskResumeEffect ==
    ASSUME IInv, NEW t \in UserTasks, TaskResume(t)
    PROVE  /\ Quiet(k, k') /\ SameRun(k, k') /\ Preempts(k, k')
           /\ k.state[t] = "SUSPENDED" /\ k'.state = [k.state EXCEPT ![t] = "READY"]
           /\ k'.prio = k.prio
<1> DEFINE m == MakeReady(k, t)
           S == RunnableTasks(k)
<1>1. KInv(k) /\ k.state[t] = "SUSPENDED" /\ k' = RequestPreemption(m) /\ t \in Tasks
  BY CallingInv DEF TaskResume, Call, UserTasks
<1>2. t \notin S /\ S \in SUBSET Tasks
  BY <1>1 DEF RunnableTasks, Runnable
<1>3. /\ m \in KernelType /\ Queues(m, S \union {t})
      /\ SameWaiting(k, m) /\ SameTask(k, m) /\ SameFlags(k, m)
      /\ m.state = [k.state EXCEPT ![t] = "READY"]
  BY <1>1, <1>2, MakeReadyQueues, MakeReadyEffect DEF KInv
<1> HIDE DEF m
<1>4. /\ SameWaits(m, k') /\ SameRun(m, k')
      /\ \/ Asked(m, k')
         \/ /\ SameFlags(m, k')
            /\ \A u \in S \union {t} : m.cur = NoTask \/ m.prio[u] <= m.prio[m.cur]
  <2>1. S \union {t} \in SUBSET Tasks
    BY <1>1, <1>2
  <2> QED BY <1>1, <1>3, <2>1, PreemptionEffect
<1>5. k.cur # NoTask /\ k.state \in [Tasks -> TaskStates]
  BY <1>1, KernelAssumption DEF KInv, KernelType
<1>6. k'.state = [k.state EXCEPT ![t] = "READY"]
  BY <1>3, <1>4 DEF SameWaits
<1>7. RunnableTasks(k') = S \union {t}
  BY <1>1, <1>5, <1>6 DEF RunnableTasks, Runnable
<1>8. SameRun(k, k') /\ k'.prio = k.prio /\ m.prio = k.prio /\ m.cur = k.cur
  BY <1>3, <1>4 DEF SameRun, SameTask, SameWaits
<1>9. Preempts(k, k')
  <2>1. CASE Asked(m, k')
    BY <1>3, <2>1 DEF Preempts, Asked, SameTask, SameFlags
  <2>2. CASE /\ SameFlags(m, k')
             /\ \A u \in S \union {t} : m.cur = NoTask \/ m.prio[u] <= m.prio[m.cur]
    BY <1>3, <1>5, <1>7, <1>8, <2>2 DEF Preempts, SameFlags, SameRun
  <2> QED BY <1>4, <2>1, <2>2
<1>10. Quiet(k, k')
  <2>1. SameWaiting(k, k') /\ k'.tick = k.tick
    BY <1>3, <1>4 DEF SameWaiting, SameWaits, SameTask
  <2>2. \A u \in Tasks : k'.state[u] = k.state[u] \/ u = t
    BY <1>5, <1>6
  <2>3. k'.state[t] \in Active /\ k.state[t] \in Active
    BY <1>1, <1>5, <1>6 DEF Active
  <2> QED BY <1>8, <2>1, <2>2, <2>3 DEF Quiet
<1> QED BY <1>1, <1>6, <1>8, <1>9, <1>10

LEMMA SetPriorityEffect ==
    ASSUME IInv, NEW t \in UserTasks, NEW p \in NewPriorities, SetPriority(t, p)
    PROVE  Moved(k, k', t, p) /\ SameRun(k, k') /\ Preempts(k, k')
<1> DEFINE n == [k EXCEPT !.prio[t] = p]
           q == SchedRequeue(n, t, k.prio[t])
           w == WaiterPriorityChanged(q, t)
           S == RunnableTasks(k)
<1>1. KInv(k) /\ k' = RequestPreemption(w)
  BY CallingInv DEF SetPriority, Call
<1>2. t \in Tasks /\ p \in Priorities /\ S \in SUBSET Tasks
  BY SchedulerAssumption DEF UserTasks, RunnableTasks
<1>3. q \in KernelType /\ Queues(q, S) /\ QueuesChanged(n, q)
  BY <1>1, <1>2, SchedRequeueQueues DEF KInv
<1>4. /\ n \in KernelType /\ n.prio = [k.prio EXCEPT ![t] = p] /\ n.state = k.state
      /\ SameWaiting(k, n) /\ n.tick = k.tick /\ SameRun(k, n) /\ SameFlags(k, n)
  BY <1>1, <1>2 DEF KInv, KernelType, SameWaiting, SameRun, SameFlags
<1> HIDE DEF n, q
<1>5. SameWaits(n, q) /\ SameRun(n, q) /\ SameFlags(n, q)
  BY <1>3, <1>4, QueuesChangedSame
<1>6. w \in KernelType /\ w = [q EXCEPT !.waitq = w.waitq]
  BY <1>2, <1>3, WaiterPriorityChangedType
<1>7. w.waitq = IF q.waitOn[t] # NoList /\ Linked(q.waitq[q.waitOn[t]], t)
                THEN [q.waitq EXCEPT ![q.waitOn[t]] = WaitInsert(ListDel(@, t), q.prio, t)]
                ELSE q.waitq
  BY <1>3 DEF WaiterPriorityChanged, KernelType
<1> HIDE DEF w
<1>8. /\ w.state = q.state /\ w.prio = q.prio /\ w.tick = q.tick
      /\ w.waitOn = q.waitOn /\ w.timeouts = q.timeouts /\ w.wake = q.wake
      /\ w.result = q.result /\ SameRun(q, w) /\ SameFlags(q, w) /\ SameQueues(q, w)
  BY <1>3, <1>6 DEF KernelType, SameRun, SameFlags, SameQueues
<1>9. Queues(w, S)
  BY <1>3, <1>8, QueuesSame DEF SameQueues
<1>10. /\ SameWaits(w, k') /\ SameRun(w, k')
       /\ \/ Asked(w, k')
          \/ /\ SameFlags(w, k')
             /\ \A u \in S : w.cur = NoTask \/ w.prio[u] <= w.prio[w.cur]
  BY <1>1, <1>2, <1>6, <1>9, PreemptionEffect
<1>11. Moved(k, k', t, p)
  BY <1>4, <1>5, <1>7, <1>8, <1>10 DEF Moved, SameWaits, SameWaiting
<1>12. SameRun(k, k')
  BY <1>4, <1>5, <1>8, <1>10 DEF SameRun
<1>13. Preempts(k, k')
  <2>1. CASE Asked(w, k')
    BY <1>4, <1>5, <1>8, <2>1 DEF Preempts, Asked, SameRun, SameFlags
  <2>2. CASE /\ SameFlags(w, k')
             /\ \A u \in S : w.cur = NoTask \/ w.prio[u] <= w.prio[w.cur]
    <3>1. w.cur # NoTask
      BY <1>1, <1>4, <1>5, <1>8, KernelAssumption DEF KInv, SameRun
    <3>2. RunnableTasks(k') = S
      BY <1>11 DEF Moved, RunnableTasks
    <3>3. SameFlags(k, k')
      BY <1>4, <1>5, <1>8, <2>2 DEF SameFlags
    <3>4. k'.prio = w.prio /\ k'.cur = w.cur
      BY <1>10 DEF SameWaits, SameRun
    <3> QED BY <2>2, <3>1, <3>2, <3>3, <3>4 DEF Preempts
  <2> QED BY <1>10, <2>1, <2>2
<1> QED BY <1>11, <1>12, <1>13

\* The tick counts, and the slice of the current task gets shorter.
LEMMA TickStartEffect ==
    ASSUME IInv, TickStart
    PROVE  /\ SameWaiting(k, k') /\ k'.state = k.state /\ k'.prio = k.prio
           /\ k'.tick = TickAfter(k.tick, 1)
           /\ k'.cur = k.cur /\ k'.lock = k.lock /\ k'.isr = k.isr + 1
           /\ SameFlags(k, k') /\ SameQueues(k, k')
           /\ k'.slice[k.cur] < SliceTicks
<1>1. KInv(k) /\ k.isr < MaxIsr
  BY RunningInv DEF TickStart, Interrupt
<1>2. k' = [IsrEnter(k) EXCEPT !.tick = TickAfter(@, 1),
                               !.slice[k.cur] = IF @ > 0 THEN @ - 1 ELSE 0]
  BY DEF TickStart
<1>3. /\ SameWaiting(k, k') /\ k'.state = k.state /\ k'.prio = k.prio
      /\ k'.tick = TickAfter(k.tick, 1)
      /\ k'.cur = k.cur /\ k'.lock = k.lock /\ k'.isr = k.isr + 1
      /\ SameFlags(k, k') /\ SameQueues(k, k')
      /\ k'.slice = [k.slice EXCEPT ![k.cur] = IF @ > 0 THEN @ - 1 ELSE 0]
  BY <1>1, <1>2 DEF IsrEnter, KInv, KernelType, SameWaiting, SameFlags, SameQueues
<1>4. k.slice \in [Tasks -> 0 .. SliceTicks] /\ k.cur \in Tasks
  BY <1>1 DEF KInv, KernelType
<1>5. k'.slice[k.cur] < SliceTicks
  BY <1>3, <1>4, KernelAssumption
<1> QED BY <1>3, <1>5

\* The end of the tick: with the slice used up a switch is asked for.
LEMMA TickEndEffect ==
    ASSUME IInv, TickEnd
    PROVE  /\ SameWaits(k, k') /\ k'.cur = k.cur /\ k'.lock = k.lock
           /\ k'.isr = IF k.isr > 0 THEN k.isr - 1 ELSE 0
           /\ \E r \in KernelType : /\ SameRun(k, r) /\ k' = IsrExit(r)
                                    /\ IF k.slice[k.cur] = 0 THEN Asked(k, r) ELSE SameFlags(k, r)
<1> DEFINE s == [k EXCEPT !.slice[k.cur] = SliceTicks]
           c == RotateCurrent(s)
           r == IF k.slice[k.cur] = 0 THEN RescheduleRequest(c) ELSE k
<1>1. KInv(k) /\ k' = IsrExit(r)
  BY HandlerInv DEF TickEnd
<1>2. SliceTicks \in 0 .. SliceTicks
  BY KernelAssumption
<1>3. /\ s \in KernelType /\ SameWaits(k, s) /\ SameRun(k, s) /\ SameFlags(k, s)
      /\ SameQueues(k, s)
  BY <1>1, <1>2 DEF KInv, KernelType, SameWaits, SameRun, SameFlags, SameQueues
<1> HIDE DEF s
<1>4. Queues(s, RunnableTasks(k))
  BY <1>1, <1>3, QueuesSame DEF KInv, SameWaits, SameQueues
<1>5. c \in KernelType /\ QueuesChanged(s, c)
  BY <1>3, <1>4, RotateCurrentQueues
<1> HIDE DEF c
<1>6. SameWaits(s, c) /\ SameRun(s, c) /\ SameFlags(s, c)
  BY <1>3, <1>5, QueuesChangedSame
<1>7. /\ r \in KernelType /\ SameWaits(k, r) /\ SameRun(k, r)
      /\ IF k.slice[k.cur] = 0 THEN Asked(k, r) ELSE SameFlags(k, r)
  <2>1. CASE k.slice[k.cur] = 0
    <3>1. /\ r \in KernelType /\ SameWaits(c, r) /\ SameRun(c, r) /\ Asked(c, r)
      BY <1>5, <2>1, RescheduleEffect, RescheduleRequestType
    <3> HIDE DEF r
    <3>2. SameWaits(k, r) /\ SameRun(k, r) /\ Asked(k, r)
      BY <1>3, <1>6, <3>1 DEF SameWaits, SameRun, SameFlags, Asked
    <3> QED BY <2>1, <3>1, <3>2
  <2>2. CASE k.slice[k.cur] # 0
    BY <1>1, <2>2 DEF KInv, SameWaits, SameRun, SameFlags
  <2> QED BY <2>1, <2>2
<1> HIDE DEF r
<1>8. /\ SameWaits(r, k') /\ k'.cur = r.cur /\ k'.lock = r.lock
      /\ k'.isr = IF r.isr > 0 THEN r.isr - 1 ELSE 0
  BY <1>1, <1>7, IsrExitEffect
<1>9. /\ SameWaits(k, k') /\ k'.cur = k.cur /\ k'.lock = k.lock
      /\ k'.isr = IF k.isr > 0 THEN k.isr - 1 ELSE 0
  BY <1>7, <1>8 DEF SameWaits, SameRun
<1> QED BY <1>1, <1>7, <1>9

\* The scheduler lock, and the switch that SchedUnlock owes
LEMMA LockEffect ==
    ASSUME IInv, SchedLock \/ SchedUnlock \/ SwitchNow
    PROVE  /\ KInv(k) /\ phase = "running" /\ phase' = "running"
           /\ SameWaits(k, k') /\ SameQueues(k, k') /\ k'.cur = k.cur /\ k'.isr = k.isr
           /\ SchedLock => k'.lock = k.lock + 1 /\ SameFlags(k, k')
           /\ SchedUnlock => /\ k.lock > 0 /\ k'.lock = k.lock - 1
                             /\ (k'.pendsv <=> k.pendsv)
                             /\ k'.pending <=> k.lock # 1 /\ k.pending
           /\ SwitchNow => k'.lock = k.lock /\ k'.pendsv /\ (k'.pending <=> k.pending)
<1>1. KInv(k) /\ phase = "running"
  BY RunningInv DEF SchedLock, Call, SchedUnlock, SwitchNow, Calling, ThreadLevel
<1>2. phase' = "running"
  BY <1>1 DEF SchedLock, Call, SchedUnlock, SwitchNow
<1>3. CASE SchedLock
  <2>1. /\ SameWaits(k, k') /\ SameQueues(k, k') /\ k'.cur = k.cur /\ k'.isr = k.isr
        /\ k'.lock = k.lock + 1 /\ SameFlags(k, k')
    BY <1>1, <1>3 DEF SchedLock, Call, KInv, KernelType, SameWaits, SameQueues, SameFlags
  <2>2. ~SchedUnlock
    <3>1. k.lock \in Int
      BY <1>1, KernelAssumption DEF KInv, KernelType
    <3>2. SchedUnlock => k'.lock = k.lock - 1
      BY <1>1 DEF SchedUnlock, KInv, KernelType
    <3>3. k.lock + 1 # k.lock - 1
      BY <3>1
    <3> QED BY <2>1, <3>2, <3>3
  <2>3. ~SwitchNow
    BY <1>3 DEF SchedLock, Call, Calling, SwitchNow
  <2> QED BY <1>1, <1>2, <2>1, <2>2, <2>3
<1>4. CASE SchedUnlock
  <2>1. k.lock > 0 /\ k' = [k EXCEPT !.lock = @ - 1, !.pending = k.lock # 1 /\ k.pending]
    BY <1>1, <1>4 DEF SchedUnlock, KInv, KernelType
  <2>2. /\ SameWaits(k, k') /\ SameQueues(k, k') /\ k'.cur = k.cur /\ k'.isr = k.isr
        /\ k'.lock = k.lock - 1 /\ (k'.pendsv <=> k.pendsv)
        /\ k'.pending <=> k.lock # 1 /\ k.pending
    BY <1>1, <2>1 DEF KInv, KernelType, SameWaits, SameQueues
  <2>3. ~SwitchNow
    BY <1>4 DEF SchedUnlock, Calling, SwitchNow
  <2>4. ~SchedLock
    <3>1. k.lock \in Int
      BY <1>1, KernelAssumption DEF KInv, KernelType
    <3>2. SchedLock => k'.lock = k.lock + 1
      BY <1>1 DEF SchedLock, Call, KInv, KernelType
    <3>3. k.lock + 1 # k.lock - 1
      BY <3>1
    <3> QED BY <2>2, <3>2, <3>3
  <2> QED BY <1>1, <1>2, <2>1, <2>2, <2>3, <2>4
<1>5. CASE SwitchNow
  <2>1. /\ SameWaits(k, k') /\ SameQueues(k, k') /\ k'.cur = k.cur /\ k'.isr = k.isr
        /\ k'.lock = k.lock /\ k'.pendsv /\ (k'.pending <=> k.pending)
    BY <1>1, <1>5 DEF SwitchNow, KInv, KernelType, SameWaits, SameQueues
  <2>2. ~SchedLock /\ ~SchedUnlock
    BY <1>5 DEF SchedLock, SchedUnlock, Call, Calling, SwitchNow
  <2> QED BY <1>1, <1>2, <2>1, <2>2
<1> QED BY <1>3, <1>4, <1>5

\* The context switch changes the current task and two states.
LEMMA ContextSwitchEffect ==
    ASSUME IInv, ContextSwitch
    PROVE  /\ SameWaiting(k, k') /\ k'.prio = k.prio /\ k'.tick = k.tick
           /\ k'.cur \in Tasks /\ k'.isr = k.isr /\ k'.lock = k.lock
           /\ (k'.pending <=> k.pending) /\ ~k'.pendsv
           /\ k'.ready = k.ready
           /\ k'.cur \in RunnableTasks(k)
           /\ \A t \in Tasks : k'.state[t] =
                 IF t = k'.cur THEN "RUNNING"
                 ELSE IF t = k.cur /\ k.state[t] = "RUNNING" THEN "READY" ELSE k.state[t]
<1> DEFINE r == [k EXCEPT !.pendsv = FALSE]
<1>1. KInv(k) /\ k' = Schedule(r)
  BY RunningInv DEF ContextSwitch
<1>2. /\ r \in KernelType /\ SameWaits(k, r) /\ SameRun(k, r) /\ SameQueues(k, r)
      /\ (r.pending <=> k.pending) /\ ~r.pendsv
  BY <1>1 DEF KInv, KernelType, SameWaits, SameRun, SameQueues
<1> HIDE DEF r
<1>3. RunnableTasks(r) = RunnableTasks(k)
  BY <1>2 DEF RunnableTasks, SameWaits
<1>4. Queues(r, RunnableTasks(k))
  BY <1>1, <1>2, QueuesSame DEF KInv, SameWaits, SameQueues
<1>5. RunnableTasks(k) \in SUBSET Tasks /\ RunnableTasks(k) # {}
  BY <1>1, SchedulerAssumption DEF RunnableTasks, KInv
<1>6. HighestReady(r) \in RunnableTasks(k)
  BY <1>2, <1>4, <1>5, HighestReadyIsHighest
<1>7. /\ k' \in KernelType
      /\ k' = [r EXCEPT !.state = k'.state, !.cur = HighestReady(r)]
      /\ \A t \in Tasks : k'.state[t] =
            IF t = HighestReady(r) THEN "RUNNING"
            ELSE IF t = r.cur /\ r.state[t] = "RUNNING" THEN "READY" ELSE r.state[t]
  BY <1>1, <1>2, <1>4, <1>5, ScheduleType
<1>8. /\ SameWaiting(r, k') /\ k'.prio = r.prio /\ k'.tick = r.tick
      /\ k'.cur = HighestReady(r) /\ k'.isr = r.isr /\ k'.lock = r.lock
      /\ SameFlags(r, k') /\ k'.ready = r.ready
  BY <1>2, <1>7 DEF KernelType, SameWaiting, SameFlags
<1>9. SameWaiting(k, k')
  BY <1>2, <1>8 DEF SameWaits, SameWaiting
<1>10. /\ k'.prio = k.prio /\ k'.tick = k.tick /\ k'.isr = k.isr /\ k'.lock = k.lock
       /\ (k'.pending <=> k.pending) /\ ~k'.pendsv /\ k'.ready = k.ready
       /\ r.cur = k.cur /\ r.state = k.state
  BY <1>2, <1>8 DEF SameWaits, SameRun, SameQueues, SameFlags
<1> QED BY <1>5, <1>6, <1>7, <1>8, <1>9, <1>10

-----------------------------------------------------------------------------
(* Which task runs, and the switch that is on its way.                     *)

Runs(kk) ==
    /\ \A t \in Tasks : kk.state[t] = "RUNNING" => t = kk.cur
    /\ kk.state[kk.cur] = "RUNNING" \/ kk.pendsv
    /\ kk.isr = 0 /\ kk.lock = 0 => ~kk.pending
    /\ kk.lock # 0 => ~kk.pendsv

SwitchInv ==
    /\ phase # "running" => /\ \A t \in Tasks : k.state[t] # "RUNNING"
                            /\ k.cur = NoTask /\ k.lock = 0 /\ ~k.pending
    /\ phase = "running" => Runs(k) /\ (k.lock # 0 => k.cur \notin owed)
    /\ inTick => k.slice[k.cur] < SliceTicks

\* A step below the same interrupts and locks, by which nobody becomes
\* RUNNING, and after which the current task is RUNNING if it was, unless a
\* switch has been asked for at thread level.
LEMMA RunsKept ==
    ASSUME NEW kk, Runs(kk), NEW r, SameRun(kk, r),
           Asked(kk, r) \/ SameFlags(kk, r),
           \A t \in Tasks : r.state[t] = "RUNNING" => kk.state[t] = "RUNNING",
           r.state[kk.cur] = kk.state[kk.cur] \/ r.pendsv
    PROVE  Runs(r)
BY DEF Runs, SameRun, Asked, SameFlags

\* The current task is RUNNING whenever it makes a call.
LEMMA CallerRuns ==
    ASSUME IInv, SwitchInv, Calling
    PROVE  /\ KInv(k) /\ phase = "running" /\ k.isr = 0 /\ ~inTick /\ ~k.pendsv
           /\ k.cur \notin owed /\ Runs(k) /\ k.state[k.cur] = "RUNNING"
BY CallingInv DEF Calling, ThreadLevel, SwitchInv, Runs

\* A call, or the step of an interrupt handler
LEMMA SwitchKept ==
    ASSUME IInv, SwitchInv, phase = "running", phase' = "running",
           SameRun(k, k'), owed' \subseteq owed, ~inTick',
           Asked(k, k') \/ SameFlags(k, k'),
           \A t \in Tasks : k'.state[t] = "RUNNING" => k.state[t] = "RUNNING",
           k'.state[k.cur] = k.state[k.cur] \/ k'.pendsv
    PROVE  SwitchInv'
<1>1. Runs(k')
  BY RunsKept DEF SwitchInv
<1> QED BY <1>1 DEF SwitchInv, SameRun

\* Waking t, as TaskSignal, InterruptSignal and TickExpire do
LEMMA WakeRuns ==
    ASSUME KInv(k), Runs(k), NEW t \in Tasks, NEW result \in Results,
           k' = TaskWake(k, t, result)
    PROVE  /\ Runs(k') /\ SameRun(k, k') /\ k'.slice = k.slice
           /\ k'.prio = k.prio
<1>1. CASE k.state[t] \in {"BLOCKED", "DELAYED"}
  <2>1. /\ Ended(k, k', t, "READY", result) /\ k'.prio = k.prio
        /\ SameRun(k, k') /\ k'.slice = k.slice /\ Preempts(k, k')
    BY <1>1, TaskWakeEffect
  <2>2. k.state \in [Tasks -> TaskStates] /\ k.cur \in Tasks
    BY DEF KInv, KernelType
  <2>3. k'.state = [k.state EXCEPT ![t] = "READY"]
    BY <2>1 DEF Ended
  <2>4. \A u \in Tasks : k'.state[u] = "RUNNING" => k.state[u] = "RUNNING"
    BY <2>2, <2>3
  <2>5. Asked(k, k') \/ SameFlags(k, k')
    BY <2>1 DEF Preempts
  <2>6. k'.state[k.cur] = k.state[k.cur] \/ k'.pendsv
    <3>1. CASE t = k.cur
      <4>1. k.pendsv
        BY <1>1, <3>1 DEF Runs
      <4> QED BY <2>5, <4>1 DEF Asked, SameFlags
    <3>2. CASE t # k.cur
      BY <2>2, <2>3, <3>2
    <3> QED BY <3>1, <3>2
  <2> QED BY <2>1, <2>4, <2>5, <2>6, RunsKept
<1>2. CASE k.state[t] \notin {"BLOCKED", "DELAYED"}
  <2>1. k' = k
    BY <1>2 DEF TaskWake
  <2> QED BY <2>1 DEF SameRun
<1> QED BY <1>1, <1>2

LEMMA ApplicationSwitch ==
    ASSUME IInv, SwitchInv, Application
    PROVE  SwitchInv'
<1> DEFINE Caller == /\ KInv(k) /\ phase = "running" /\ k.isr = 0 /\ ~inTick /\ ~k.pendsv
                     /\ k.cur \notin owed /\ Runs(k) /\ k.state[k.cur] = "RUNNING"
<1>1. k.state \in [Tasks -> TaskStates]
  BY DEF IInv, TypeOK, KernelType
<1>2. ASSUME NEW t \in UserTasks, NEW p \in UserPriorities, TaskCreate(t, p)
      PROVE  SwitchInv'
  <2>1. /\ Caller /\ phase' = "running" /\ owed' \subseteq owed /\ ~inTick'
        /\ k.state[t] = "STOP"
    BY <1>2, CallerRuns DEF TaskCreate, Call
  <2>2. Made(k, k', t, p) /\ SameRun(k, k') /\ SameFlags(k, k')
    BY <1>2, TaskCreateEffect
  <2>3. /\ \A u \in Tasks : k'.state[u] = "RUNNING" => k.state[u] = "RUNNING"
        /\ k'.state[k.cur] = k.state[k.cur]
    BY <1>1, <2>1, <2>2 DEF Made
  <2> QED BY <2>1, <2>2, <2>3, SwitchKept
<1>3. ASSUME NEW t \in UserTasks, TaskDelete(t) \/ TaskSuspend(t)
      PROVE  SwitchInv'
  <2>1. /\ Caller /\ phase' = "running" /\ owed' \subseteq owed /\ ~inTick'
        /\ (t = k.cur => k.lock = 0)
    BY <1>3, CallerRuns DEF TaskDelete, TaskSuspend, Call
  <2>2. /\ SameRun(k, k') /\ (t = k.cur => Asked(k, k')) /\ (t # k.cur => SameFlags(k, k'))
        /\ \E s \in {"STOP", "SUSPENDED"} : k'.state = [k.state EXCEPT ![t] = s]
    <3>1. CASE TaskDelete(t)
      BY <3>1, TaskDeleteEffect DEF Ended
    <3>2. CASE TaskSuspend(t)
      BY <3>2, TaskSuspendEffect
    <3> QED BY <1>3, <3>1, <3>2
  <2>3. /\ \A u \in Tasks : k'.state[u] = "RUNNING" => k.state[u] = "RUNNING"
        /\ t # k.cur => k'.state[k.cur] = k.state[k.cur]
    BY <1>1, <2>1, <2>2 DEF KInv
  <2>4. t = k.cur => k'.pendsv
    BY <2>1, <2>2 DEF Asked
  <2> QED BY <2>1, <2>2, <2>3, <2>4, SwitchKept
<1>4. ASSUME TaskYield PROVE SwitchInv'
  <2>1. Caller /\ phase' = "running" /\ owed' \subseteq owed /\ ~inTick'
    BY <1>4, CallerRuns DEF TaskYield, Call
  <2>2. k'.state = k.state /\ SameRun(k, k') /\ Asked(k, k')
    BY <1>4, TaskYieldEffect DEF SameWaits
  <2> QED BY <2>1, <2>2, SwitchKept
<1>5. ASSUME NEW waitState \in {"BLOCKED", "DELAYED"},
             NEW list \in WaitLists \union {NoList}, NEW d \in Delays \union {0},
             CanBlock(k), Call(BlockCurrent(k, waitState, list, d))
      PROVE  SwitchInv'
  <2>1. Caller /\ phase' = "running" /\ owed' \subseteq owed /\ ~inTick'
    BY <1>5, CallerRuns DEF Call
  <2>2. Begun(k, k', waitState, list, d) /\ SameRun(k, k') /\ Asked(k, k')
    BY <1>5, BlockEffect
  <2>3. \A u \in Tasks : k'.state[u] = "RUNNING" => k.state[u] = "RUNNING"
    BY <1>1, <2>2 DEF Begun
  <2>4. k'.pendsv
    BY <1>5, <2>1, <2>2 DEF CanBlock, Asked
  <2> QED BY <2>1, <2>2, <2>3, <2>4, SwitchKept
<1>6. ASSUME NEW w \in WaitLists, TaskSignal(w) PROVE SwitchInv'
  <2>1. /\ Caller /\ phase' = "running" /\ owed' \subseteq owed /\ ~inTick'
        /\ k.waitq[w] # <<>> /\ k' = TaskWake(k, Head(k.waitq[w]), "OK")
    BY <1>6, CallerRuns DEF TaskSignal, Call, WakeFirst
  <2>2. Head(k.waitq[w]) \in Tasks /\ "OK" \in Results
    BY <2>1, FirstLinked DEF KInv, KernelType, Results
  <2>3. Runs(k') /\ SameRun(k, k')
    BY <2>1, <2>2, WakeRuns
  <2> QED BY <2>1, <2>3 DEF SwitchInv, SameRun
<1>7. ASSUME NEW t \in UserTasks, TaskResume(t) PROVE SwitchInv'
  <2>1. Caller /\ phase' = "running" /\ owed' \subseteq owed /\ ~inTick'
    BY <1>7, CallerRuns DEF TaskResume, Call
  <2>2. /\ SameRun(k, k') /\ Preempts(k, k') /\ k.state[t] = "SUSPENDED"
        /\ k'.state = [k.state EXCEPT ![t] = "READY"]
    BY <1>7, TaskResumeEffect
  <2>3. /\ \A u \in Tasks : k'.state[u] = "RUNNING" => k.state[u] = "RUNNING"
        /\ k'.state[k.cur] = k.state[k.cur]
    BY <1>1, <2>1, <2>2
  <2>4. Asked(k, k') \/ SameFlags(k, k')
    BY <2>2 DEF Preempts
  <2> QED BY <2>1, <2>2, <2>3, <2>4, SwitchKept
<1>8. ASSUME NEW t \in UserTasks, NEW p \in NewPriorities, SetPriority(t, p)
      PROVE  SwitchInv'
  <2>1. Caller /\ phase' = "running" /\ owed' \subseteq owed /\ ~inTick'
    BY <1>8, CallerRuns DEF SetPriority, Call
  <2>2. Moved(k, k', t, p) /\ SameRun(k, k') /\ Preempts(k, k')
    BY <1>8, SetPriorityEffect
  <2>3. k'.state = k.state /\ (Asked(k, k') \/ SameFlags(k, k'))
    BY <2>2 DEF Moved, Preempts
  <2> QED BY <2>1, <2>2, <2>3, SwitchKept
<1>9. ASSUME SchedLock PROVE SwitchInv'
  <2>1. Caller /\ phase' = "running" /\ owed' = owed /\ ~inTick'
    BY <1>9, CallerRuns DEF SchedLock, Call
  <2>2. /\ SameWaits(k, k') /\ k'.cur = k.cur /\ k'.isr = k.isr /\ k'.lock = k.lock + 1
        /\ SameFlags(k, k')
    BY <1>9, LockEffect
  <2>3. k'.lock # 0
    <3>1. k.lock \in Nat
      BY <2>1, KernelAssumption DEF KInv, KernelType
    <3> QED BY <2>2, <3>1
  <2>4. Runs(k')
    BY <2>1, <2>2, <2>3 DEF Runs, SameWaits, SameFlags
  <2> QED BY <2>1, <2>2, <2>4 DEF SwitchInv
<1>10. ASSUME SchedUnlock PROVE SwitchInv'
  <2>1. /\ Caller /\ phase' = "running" /\ ~inTick'
        /\ owed' = IF k.lock = 1 /\ k.pending THEN owed \union {k.cur} ELSE owed
    BY <1>10, CallerRuns DEF SchedUnlock
  <2>2. /\ SameWaits(k, k') /\ k'.cur = k.cur /\ k'.isr = k.isr /\ k.lock > 0
        /\ k'.lock = k.lock - 1 /\ (k'.pendsv <=> k.pendsv)
        /\ k'.pending <=> k.lock # 1 /\ k.pending
    BY <1>10, LockEffect
  <2>3. (k'.lock = 0 <=> k.lock = 1) /\ k.lock # 0
    <3>1. k.lock \in Nat
      BY <2>1, KernelAssumption DEF KInv, KernelType
    <3> QED BY <2>2, <3>1
  <2>4. Runs(k')
    BY <2>1, <2>2, <2>3 DEF Runs, SameWaits
  <2>5. k'.lock # 0 => k'.cur \notin owed'
    BY <2>1, <2>2, <2>3
  <2> QED BY <2>1, <2>4, <2>5 DEF SwitchInv
<1>11. ASSUME NEW d \in Delays, TaskSleep(d) PROVE SwitchInv'
  BY <1>5, <1>11 DEF TaskSleep
<1>12. ASSUME NEW w \in WaitLists, NEW d \in Delays \union {0}, TaskWait(w, d)
       PROVE  SwitchInv'
  BY <1>5, <1>12 DEF TaskWait
<1> QED BY <1>2, <1>3, <1>4, <1>6, <1>7, <1>8, <1>9, <1>10, <1>11, <1>12 DEF Application

LEMMA InterruptsSwitch ==
    ASSUME IInv, SwitchInv, Interrupts
    PROVE  SwitchInv'
<1>1. phase = "running" /\ KInv(k) /\ Runs(k) /\ (k.lock # 0 => k.cur \notin owed)
  <2>1. phase = "running"
    BY HandlerInv DEF Interrupts, InterruptEnter, Interrupt, InterruptSignal, Handler,
                      InterruptExit, TickStart, TickExpire, TickEnd
  <2> QED BY <2>1, RunningInv DEF SwitchInv
<1>2. phase' = "running" /\ owed' = owed
  BY <1>1 DEF Interrupts, InterruptEnter, InterruptSignal, InterruptExit,
              TickStart, TickExpire, TickEnd
<1>3. k.isr \in Nat
  BY <1>1, KernelAssumption DEF KInv, KernelType
<1>4. ASSUME InterruptEnter PROVE SwitchInv'
  <2>1. k' = IsrEnter(k) /\ ~inTick'
    BY <1>4 DEF InterruptEnter, Interrupt
  <2>2. /\ k'.state = k.state /\ k'.cur = k.cur /\ k'.lock = k.lock
        /\ SameFlags(k, k') /\ k'.isr = k.isr + 1
    BY <1>1, <2>1 DEF IsrEnter, KInv, KernelType, SameFlags
  <2>3. k'.isr # 0
    BY <1>3, <2>2
  <2> QED BY <1>1, <1>2, <2>1, <2>2, <2>3 DEF SwitchInv, Runs, SameFlags
<1>5. ASSUME NEW r \in KernelType, Runs(r), k' = IsrExit(r), SameRun(k, r), ~inTick'
      PROVE  SwitchInv'
  <2>1. /\ SameWaits(r, k') /\ k'.cur = r.cur /\ k'.lock = r.lock
        /\ k'.isr = IF r.isr > 0 THEN r.isr - 1 ELSE 0
        /\ IF r.isr = 1 /\ r.lock = 0 /\ r.pending
           THEN k'.pendsv /\ ~k'.pending ELSE SameFlags(r, k')
    BY <1>5, IsrExitEffect
  <2>2. k'.isr = 0 => r.isr = 0 \/ r.isr = 1
    <3>1. r.isr \in Nat
      BY <1>3, <1>5 DEF SameRun
    <3> QED BY <2>1, <3>1
  <2>3. Runs(k')
    BY <1>5, <2>1, <2>2 DEF Runs, SameWaits, SameFlags
  <2> QED BY <1>1, <1>2, <1>5, <2>1, <2>3 DEF SwitchInv, SameRun
<1>6. ASSUME NEW t \in Tasks, NEW result \in Results, k' = TaskWake(k, t, result),
             inTick' = inTick
      PROVE  SwitchInv'
  <2>1. Runs(k') /\ SameRun(k, k') /\ k'.slice = k.slice
    BY <1>1, <1>6, WakeRuns
  <2> QED BY <1>1, <1>2, <1>6, <2>1 DEF SwitchInv, SameRun
<1>7. ASSUME NEW w \in WaitLists, InterruptSignal(w) PROVE SwitchInv'
  <2>1. k' = TaskWake(k, Head(k.waitq[w]), "OK") /\ inTick' = inTick /\ k.waitq[w] # <<>>
    BY <1>7 DEF InterruptSignal, WakeFirst
  <2>2. Head(k.waitq[w]) \in Tasks /\ "OK" \in Results
    BY <1>1, <2>1, FirstLinked DEF KInv, KernelType, Results
  <2> QED BY <1>6, <2>1, <2>2
<1>8. ASSUME InterruptExit PROVE SwitchInv'
  BY <1>1, <1>5, <1>8 DEF InterruptExit, Handler, KInv, SameRun
<1>9. ASSUME TickStart PROVE SwitchInv'
  <2>1. /\ k'.state = k.state /\ k'.cur = k.cur /\ k'.lock = k.lock /\ k'.isr = k.isr + 1
        /\ SameFlags(k, k') /\ k'.slice[k.cur] < SliceTicks
    BY <1>9, TickStartEffect
  <2>2. k'.isr # 0
    BY <1>3, <2>1
  <2> QED BY <1>1, <1>2, <2>1, <2>2 DEF SwitchInv, Runs, SameFlags
<1>10. ASSUME TickExpire PROVE SwitchInv'
  <2> DEFINE t == Head(k.timeouts)
             result == IF k.state[t] = "DELAYED" THEN "OK" ELSE "TIMEOUT"
  <2>1. k' = TaskWake(k, t, result) /\ inTick' = inTick /\ k.timeouts # <<>>
    BY <1>10 DEF TickExpire, TimeoutDue
  <2>2. t \in Tasks /\ result \in Results
    BY <1>1, <2>1, FirstLinked DEF KInv, KernelType, Results
  <2> QED BY <1>6, <2>1, <2>2
<1>11. ASSUME TickEnd PROVE SwitchInv'
  <2>1. PICK r \in KernelType :
           /\ SameRun(k, r) /\ k' = IsrExit(r)
           /\ IF k.slice[k.cur] = 0 THEN Asked(k, r) ELSE SameFlags(k, r)
    BY <1>11, TickEndEffect
  <2>2. SameWaits(k, k') /\ ~inTick'
    BY <1>11, TickEndEffect DEF TickEnd
  <2>3. SameWaits(r, k')
    BY <2>1, IsrExitEffect
  <2>4. r.state = k.state
    BY <2>2, <2>3 DEF SameWaits
  <2>5. Runs(r)
    BY <1>1, <2>1, <2>4, RunsKept
  <2> QED BY <1>5, <2>1, <2>2, <2>5
<1> QED BY <1>4, <1>7, <1>8, <1>9, <1>10, <1>11 DEF Interrupts

LEMMA ContextSwitchSwitch ==
    ASSUME IInv, SwitchInv, ContextSwitch
    PROVE  SwitchInv'
<1>1. /\ phase = "running" /\ phase' = "running" /\ k.isr = 0 /\ ~inTick' /\ owed' = owed
      /\ Runs(k) /\ k.pendsv
  BY DEF ContextSwitch, SwitchInv
<1>2. k.lock = 0 /\ ~k.pending
  BY <1>1 DEF Runs
<1>3. /\ k'.cur \in Tasks /\ k'.isr = k.isr /\ k'.lock = k.lock
      /\ (k'.pending <=> k.pending) /\ ~k'.pendsv
      /\ \A t \in Tasks : k'.state[t] =
            IF t = k'.cur THEN "RUNNING"
            ELSE IF t = k.cur /\ k.state[t] = "RUNNING" THEN "READY" ELSE k.state[t]
  BY ContextSwitchEffect
<1>4. Runs(k')
  BY <1>1, <1>2, <1>3 DEF Runs
<1> QED BY <1>1, <1>2, <1>3, <1>4 DEF SwitchInv

LEMMA StartSwitch ==
    ASSUME IInv, SwitchInv, Start
    PROVE  SwitchInv'
<1>1. phase # "running" /\ ~inTick /\ k.isr = 0
  BY DEF Start, BootCreate, StartIdle, StartTask, StartFirst, IInv, BootInv
<1>2. /\ k \in KernelType /\ Queues(k, Ready) /\ boot \in Seq(Tasks)
      /\ \A t \in Tasks : k.state[t] # "RUNNING"
      /\ k.cur = NoTask /\ k.lock = 0 /\ ~k.pending
  BY <1>1 DEF IInv, TypeOK, SwitchInv
<1>3. ASSUME NEW t \in Tasks, NEW p \in Priorities, k' = NewTask(k, t, p),
             phase' # "running", inTick' = inTick
      PROVE  SwitchInv'
  <2>1. /\ k'.state = [k.state EXCEPT ![t] = "READY"] /\ SameRun(k, k') /\ SameFlags(k, k')
    BY <1>2, <1>3 DEF NewTask, KernelType, SameRun, SameFlags
  <2>2. k.state \in [Tasks -> TaskStates]
    BY <1>2 DEF KernelType
  <2> QED BY <1>1, <1>2, <1>3, <2>1, <2>2 DEF SwitchInv, SameRun, SameFlags
<1>4. ASSUME NEW t \in UserTasks, NEW p \in UserPriorities, BootCreate(t, p)
      PROVE  SwitchInv'
  <2>1. t \in Tasks /\ p \in Priorities
    BY SchedulerAssumption DEF UserTasks
  <2> QED BY <1>1, <1>3, <1>4, <2>1 DEF BootCreate
<1>5. ASSUME StartIdle PROVE SwitchInv'
  <2>1. Idle \in Tasks /\ 0 \in Priorities
    BY SchedulerAssumption, KernelAssumption DEF Priorities
  <2> QED BY <1>3, <1>5, <2>1 DEF StartIdle
<1>6. ASSUME StartTask PROVE SwitchInv'
  <2> DEFINE h == Head(boot)
  <2>1. /\ phase' = phase /\ inTick' = inTick /\ k' = SchedAdd(k, h)
    BY <1>6 DEF StartTask
  <2>2. k'.state = k.state /\ SameRun(k, k') /\ SameFlags(k, k')
    BY <1>2, <2>1 DEF SchedAdd, KernelType, SameRun, SameFlags
  <2> QED BY <1>1, <1>2, <2>1, <2>2 DEF SwitchInv, SameRun, SameFlags
<1>7. ASSUME StartFirst PROVE SwitchInv'
  <2>1. /\ phase' = "running" /\ inTick' = inTick /\ boot = <<>> /\ k' = Schedule(k)
        /\ k.state[Idle] \in Runnable
    BY <1>7 DEF StartFirst, IInv, BootInv
  <2>2. Ready = RunnableTasks(k)
    BY <2>1, FirstLinked, EmptySeq DEF Ready, RunnableTasks
  <2>3. Ready # {} /\ Ready \in SUBSET Tasks
    BY <2>1, <2>2, SchedulerAssumption DEF RunnableTasks
  <2>4. HighestReady(k) \in Tasks
    BY <1>2, <2>3, HighestReadyIsHighest
  <2>5. /\ k' = [k EXCEPT !.state = k'.state, !.cur = HighestReady(k)]
        /\ \A t \in Tasks : k'.state[t] =
              IF t = HighestReady(k) THEN "RUNNING"
              ELSE IF t = k.cur /\ k.state[t] = "RUNNING" THEN "READY" ELSE k.state[t]
    BY <1>2, <2>1, <2>3, ScheduleType
  <2>6. /\ k'.cur = HighestReady(k) /\ k'.isr = k.isr /\ k'.lock = k.lock /\ SameFlags(k, k')
    BY <1>2, <2>5 DEF KernelType, SameFlags
  <2>7. Runs(k')
    BY <1>1, <1>2, <2>4, <2>5, <2>6 DEF Runs, SameFlags
  <2> QED BY <1>1, <1>2, <2>1, <2>6, <2>7 DEF SwitchInv
<1> QED BY <1>4, <1>5, <1>6, <1>7 DEF Start

LEMMA SwitchNext ==
    ASSUME IInv, SwitchInv, [Next]_vars
    PROVE  SwitchInv'
<1>1. CASE UNCHANGED vars
  BY <1>1 DEF vars, SwitchInv
<1>2. ASSUME SwitchNow PROVE SwitchInv'
  <2>1. /\ k' = k' /\ SameWaits(k, k') /\ k'.cur = k.cur /\ k'.isr = k.isr
        /\ k'.lock = k.lock /\ k'.pendsv /\ (k'.pending <=> k.pending)
        /\ phase = "running" /\ phase' = "running"
    BY <1>2, LockEffect
  <2>2. k.cur \in owed /\ owed' \subseteq owed /\ ~inTick'
    BY <1>2 DEF SwitchNow, ThreadLevel
  <2>3. Runs(k) /\ k.lock = 0
    BY <2>1, <2>2 DEF SwitchInv
  <2>4. Runs(k')
    BY <2>1, <2>3 DEF Runs, SameWaits
  <2> QED BY <2>1, <2>2, <2>3, <2>4 DEF SwitchInv
<1> QED BY <1>1, <1>2, StartSwitch, ApplicationSwitch, InterruptsSwitch,
           ContextSwitchSwitch DEF Next

\* Who is RUNNING, and where the request for a switch is, in every reachable
\* state (task.c, sched.c, isr.c).
THEOREM SwitchInvariant == Spec => []SwitchInv
<1>1. Init => SwitchInv
  BY DEF Init, SwitchInv
<1>2. IInv /\ SwitchInv /\ [Next]_vars => SwitchInv'
  BY SwitchNext
<1> QED BY <1>1, <1>2, InductiveInvariant, PTL DEF Spec

\* aixos_schedule, aixos_task_block_current: only the current task is RUNNING,
\* and thread code runs for no task that is blocked, suspended or stopped.
THEOREM OnlyCurrentRunsCorrect == Spec => []OnlyCurrentRuns
<1>1. IInv /\ SwitchInv => OnlyCurrentRuns
  BY DEF IInv, TypeOK, SwitchInv, Runs, OnlyCurrentRuns, ThreadLevel
<1> QED BY <1>1, InductiveInvariant, SwitchInvariant, PTL

\* isr.c: a deferred switch is lost neither by the last interrupt to exit nor
\* by the last unlock, and none is under way below the scheduler lock.
THEOREM DeferredSwitchCorrect == Spec => []DeferredSwitchKept
<1>1. ASSUME IInv, SwitchInv PROVE DeferredSwitchKept
  <2>1. phase # "running" => k.lock = 0 /\ ~k.pending
    BY <1>1 DEF SwitchInv
  <2>2. phase = "running" => Runs(k)
    BY <1>1 DEF SwitchInv
  <2>3. k.lock > 0 => k.lock # 0
    OBVIOUS
  <2> QED BY <2>1, <2>2, <2>3 DEF DeferredSwitchKept, Runs
<1> QED BY <1>1, InductiveInvariant, SwitchInvariant, PTL

-----------------------------------------------------------------------------
(* Preemption.                                                             *)

\* A ready task outranks the current one and no switch is on its way, unless
\* the current task owes one.
Lost(kk) ==
    /\ \E t \in Tasks : kk.state[t] = "READY" /\ kk.prio[t] > kk.prio[kk.cur]
    /\ ~kk.pendsv /\ ~kk.pending

\* A step that makes nobody ready and drops no request loses nothing.
LEMMA LostBefore ==
    ASSUME NEW kk, NEW r, Lost(r), r.cur = kk.cur, r.prio[r.cur] = kk.prio[r.cur],
           \A t \in Tasks : r.state[t] = "READY"
                             => kk.state[t] = "READY" /\ r.prio[t] = kk.prio[t],
           ~r.pendsv /\ ~r.pending => ~kk.pendsv /\ ~kk.pending
    PROVE  Lost(kk)
BY DEF Lost

LEMMA PreemptsKeeps ==
    ASSUME NEW kk \in KernelType, NEW r \in KernelType, r.cur \in Tasks, Preempts(kk, r)
    PROVE  ~Lost(r)
<1>1. CASE Asked(kk, r)
  BY <1>1 DEF Asked, Lost
<1>2. CASE \A t \in RunnableTasks(r) : r.prio[t] <= r.prio[r.cur]
  <2>1. \A t \in Tasks : r.prio[t] \in Int
    BY KernelAssumption DEF KernelType, Priorities
  <2>2. \A t \in Tasks : r.state[t] = "READY" => t \in RunnableTasks(r)
    BY DEF RunnableTasks, Runnable
  <2>3. ASSUME NEW t \in Tasks, r.state[t] = "READY", r.prio[t] > r.prio[r.cur]
        PROVE  FALSE
    <3>1. r.prio[t] <= r.prio[r.cur] /\ r.prio[t] \in Int /\ r.prio[r.cur] \in Int
      BY <1>2, <2>1, <2>2, <2>3
    <3> QED BY <2>3, <3>1
  <2> QED BY <2>3 DEF Lost
<1> QED BY <1>1, <1>2 DEF Preempts

\* Waking t loses no preemption.
LEMMA WakeLost ==
    ASSUME KInv(k), KInv(k'), NEW t \in Tasks, NEW result \in Results,
           k' = TaskWake(k, t, result), Lost(k')
    PROVE  Lost(k) /\ k'.cur = k.cur
<1>1. CASE k.state[t] \in {"BLOCKED", "DELAYED"}
  BY <1>1, TaskWakeEffect, PreemptsKeeps DEF KInv
<1>2. CASE k.state[t] \notin {"BLOCKED", "DELAYED"}
  BY <1>2 DEF TaskWake
<1> QED BY <1>1, <1>2

LEMMA ApplicationPreempts ==
    ASSUME IInv, SwitchInv, IInv', Application, PreemptionLost',
           ~\E t \in Tasks, p \in Priorities : TaskCreate(t, p)
    PROVE  PreemptionLost
<1>1. Lost(k') /\ phase' = "running" /\ k'.cur \notin owed' /\ KInv(k') /\ k'.cur \in Tasks
  <2>1. phase' = "running"
    BY DEF PreemptionLost
  <2>2. k' \in KernelType /\ k'.cur \in Tasks
    BY <2>1 DEF IInv, TypeOK, BootInv
  <2>3. boot' = <<>> /\ k'.state[Idle] \in Runnable
    BY <2>1 DEF IInv, BootInv
  <2>4. Ready' = RunnableTasks(k')
    BY <2>3, FirstLinked, EmptySeq DEF Ready, RunnableTasks
  <2>5. KInv(k')
    BY <2>2, <2>3, <2>4 DEF IInv, KInv
  <2> QED BY <2>1, <2>2, <2>5 DEF PreemptionLost, Lost
<1>2. /\ KInv(k) /\ phase = "running" /\ k.cur \notin owed
  BY CallingInv DEF Application, TaskCreate, TaskDelete, TaskYield, TaskSleep, TaskWait,
        TaskSignal, TaskSuspend, TaskResume, SetPriority, SchedLock, SchedUnlock, Call, Calling
<1>3. SUFFICES Lost(k)
  BY <1>2 DEF PreemptionLost, Lost
<1>4. k.state \in [Tasks -> TaskStates] /\ k.cur \in Tasks /\ k'.prio \in [Tasks -> Priorities]
  BY <1>1, <1>2 DEF KInv, KernelType
<1>5. ~Asked(k, k')
  BY <1>1 DEF Asked, Lost
<1>6. ASSUME NEW t \in UserTasks, TaskDelete(t) \/ TaskSuspend(t) PROVE Lost(k)
  <2>1. /\ SameRun(k, k') /\ t # k.cur /\ SameFlags(k, k')
        /\ \E s \in {"STOP", "SUSPENDED"} : k'.state = [k.state EXCEPT ![t] = s]
        /\ \A u \in Tasks \ {t} : k'.prio[u] = k.prio[u]
    <3>1. CASE TaskDelete(t)
      BY <1>5, <3>1, TaskDeleteEffect DEF Ended
    <3>2. CASE TaskSuspend(t)
      BY <1>5, <3>2, TaskSuspendEffect
    <3> QED BY <1>6, <3>1, <3>2
  <2>2. \A u \in Tasks : k'.state[u] = "READY"
                          => k.state[u] = "READY" /\ k'.prio[u] = k.prio[u]
    BY <1>4, <2>1
  <2>3. k'.cur = k.cur /\ k'.prio[k'.cur] = k.prio[k'.cur]
    BY <1>4, <2>1 DEF SameRun
  <2> QED BY <1>1, <2>1, <2>2, <2>3, LostBefore DEF SameFlags
<1>7. ASSUME TaskYield PROVE FALSE
  BY <1>5, <1>7, TaskYieldEffect
<1>8. ASSUME NEW waitState \in {"BLOCKED", "DELAYED"},
             NEW list \in WaitLists \union {NoList}, NEW d \in Delays \union {0},
             Call(BlockCurrent(k, waitState, list, d))
      PROVE  FALSE
  BY <1>5, <1>8, BlockEffect
<1>9. ASSUME NEW w \in WaitLists, TaskSignal(w) PROVE Lost(k)
  <2>1. k.waitq[w] # <<>> /\ k' = TaskWake(k, Head(k.waitq[w]), "OK")
    BY <1>9 DEF TaskSignal, Call, WakeFirst
  <2>2. Head(k.waitq[w]) \in Tasks /\ "OK" \in Results
    BY <1>2, <2>1, FirstLinked DEF KInv, KernelType, Results
  <2> QED BY <1>1, <1>2, <2>1, <2>2, WakeLost
<1>10. ASSUME NEW t \in UserTasks, TaskResume(t) PROVE FALSE
  BY <1>1, <1>2, <1>10, TaskResumeEffect, PreemptsKeeps DEF KInv
<1>11. ASSUME NEW t \in UserTasks, NEW p \in NewPriorities, SetPriority(t, p) PROVE FALSE
  BY <1>1, <1>2, <1>11, SetPriorityEffect, PreemptsKeeps DEF KInv
<1>12. ASSUME SchedLock PROVE Lost(k)
  <2>1. SameWaits(k, k') /\ k'.cur = k.cur /\ SameFlags(k, k')
    BY <1>12, LockEffect
  <2> QED BY <1>1, <2>1 DEF Lost, SameWaits, SameFlags
<1>13. ASSUME SchedUnlock PROVE Lost(k)
  <2>1. /\ SameWaits(k, k') /\ k'.cur = k.cur /\ (k'.pendsv <=> k.pendsv)
        /\ k'.pending <=> k.lock # 1 /\ k.pending
    BY <1>13, LockEffect
  <2>2. owed' = IF k.lock = 1 /\ k.pending THEN owed \union {k.cur} ELSE owed
    BY <1>13 DEF SchedUnlock
  <2>3. ~k.pending
    BY <1>1, <2>1, <2>2 DEF Lost
  <2> QED BY <1>1, <2>1, <2>3 DEF Lost, SameWaits
<1>14. ASSUME NEW t \in UserTasks, NEW p \in UserPriorities, TaskCreate(t, p) PROVE FALSE
  BY <1>14, SchedulerAssumption DEF UserTasks
<1>15. ASSUME NEW d \in Delays, TaskSleep(d) PROVE FALSE
  BY <1>8, <1>15 DEF TaskSleep
<1>16. ASSUME NEW w \in WaitLists, NEW d \in Delays \union {0}, TaskWait(w, d) PROVE FALSE
  BY <1>8, <1>16 DEF TaskWait
<1> QED BY <1>6, <1>7, <1>9, <1>10, <1>11, <1>12, <1>13, <1>14, <1>15, <1>16
        DEF Application

LEMMA InterruptsPreempt ==
    ASSUME IInv, SwitchInv, IInv', Interrupts, PreemptionLost'
    PROVE  PreemptionLost /\ (TickEnd => k.slice[k.cur] # 0)
<1>1. phase = "running" /\ KInv(k)
  <2>1. phase = "running"
    BY HandlerInv DEF Interrupts, InterruptEnter, Interrupt, InterruptSignal, Handler,
                      InterruptExit, TickStart, TickExpire, TickEnd
  <2> QED BY <2>1, RunningInv
<1>2. phase' = "running" /\ owed' = owed /\ KInv(k') /\ Lost(k') /\ k'.cur \notin owed
  <2>1. phase' = "running" /\ owed' = owed /\ boot' = boot
    BY <1>1 DEF Interrupts, InterruptEnter, InterruptSignal, InterruptExit,
                TickStart, TickExpire, TickEnd
  <2>2. boot' = <<>> /\ k'.state[Idle] \in Runnable /\ k'.cur \in Tasks /\ k' \in KernelType
    BY <2>1 DEF IInv, TypeOK, BootInv
  <2>3. Ready' = RunnableTasks(k')
    BY <2>2, FirstLinked, EmptySeq DEF Ready, RunnableTasks
  <2>4. KInv(k')
    BY <2>2, <2>3 DEF IInv, KInv
  <2> QED BY <2>1, <2>4 DEF PreemptionLost, Lost
<1>3. SUFFICES Lost(k) /\ k.cur \notin owed /\ (TickEnd => k.slice[k.cur] # 0)
  BY <1>1 DEF PreemptionLost, Lost
\* The tick interrupt differs from the other steps in inTick, and the end of
\* the tick in that no timeout is due.
<1>4. TickEnd => ~InterruptEnter /\ ~InterruptExit /\ ~TickStart /\ ~TickExpire
                 /\ \A w \in WaitLists : ~InterruptSignal(w)
  BY DEF TickEnd, InterruptEnter, Interrupt, InterruptExit, InterruptSignal, Handler,
         TickStart, TickExpire
<1>5. ASSUME InterruptEnter PROVE Lost(k) /\ k.cur \notin owed
  <2>1. SameWaits(k, k') /\ k'.cur = k.cur /\ SameFlags(k, k')
    BY <1>1, <1>5 DEF InterruptEnter, IsrEnter, KInv, KernelType, SameWaits, SameFlags
  <2> QED BY <1>2, <2>1 DEF Lost, SameWaits, SameFlags
<1>6. ASSUME NEW r \in KernelType, k' = IsrExit(r), SameRun(k, r), SameWaits(k, k')
      PROVE  SameFlags(r, k') /\ (SameFlags(k, r) => Lost(k)) /\ k.cur \notin owed
  <2>1. k'.cur = r.cur /\ (k'.pendsv \/ SameFlags(r, k'))
    BY <1>6, IsrExitEffect
  <2>2. SameFlags(r, k')
    BY <1>2, <2>1 DEF Lost
  <2> QED BY <1>2, <1>6, <2>1, <2>2 DEF Lost, SameWaits, SameRun, SameFlags
<1>7. ASSUME InterruptExit PROVE Lost(k) /\ k.cur \notin owed
  <2>1. k' = IsrExit(k) /\ k \in KernelType /\ SameRun(k, k) /\ SameFlags(k, k)
    BY <1>1, <1>7 DEF InterruptExit, KInv, SameRun, SameFlags
  <2>2. SameWaits(k, k')
    BY <2>1, IsrExitEffect
  <2> QED BY <1>6, <2>1, <2>2
<1>8. ASSUME NEW w \in WaitLists, InterruptSignal(w) PROVE Lost(k) /\ k.cur \notin owed
  <2>1. k.waitq[w] # <<>> /\ k' = TaskWake(k, Head(k.waitq[w]), "OK")
    BY <1>8 DEF InterruptSignal, WakeFirst
  <2>2. Head(k.waitq[w]) \in Tasks /\ "OK" \in Results
    BY <1>1, <2>1, FirstLinked DEF KInv, KernelType, Results
  <2> QED BY <1>1, <1>2, <2>1, <2>2, WakeLost
<1>9. ASSUME TickStart PROVE Lost(k) /\ k.cur \notin owed
  <2>1. k'.state = k.state /\ k'.prio = k.prio /\ k'.cur = k.cur /\ SameFlags(k, k')
    BY <1>9, TickStartEffect
  <2> QED BY <1>2, <2>1 DEF Lost, SameFlags
<1>10. ASSUME TickExpire PROVE Lost(k) /\ k.cur \notin owed
  <2> DEFINE t == Head(k.timeouts)
             result == IF k.state[t] = "DELAYED" THEN "OK" ELSE "TIMEOUT"
  <2>1. k' = TaskWake(k, t, result) /\ k.timeouts # <<>>
    BY <1>10 DEF TickExpire, TimeoutDue
  <2>2. t \in Tasks /\ result \in Results
    BY <1>1, <2>1, FirstLinked DEF KInv, KernelType, Results
  <2> HIDE DEF t, result
  <2> QED BY <1>1, <1>2, <2>1, <2>2, WakeLost
<1>11. ASSUME TickEnd PROVE Lost(k) /\ k.cur \notin owed /\ k.slice[k.cur] # 0
  <2>1. PICK r \in KernelType :
           /\ SameRun(k, r) /\ k' = IsrExit(r)
           /\ IF k.slice[k.cur] = 0 THEN Asked(k, r) ELSE SameFlags(k, r)
    BY <1>11, TickEndEffect
  <2>2. SameWaits(k, k')
    BY <1>11, TickEndEffect
  <2>3. SameFlags(r, k') /\ (SameFlags(k, r) => Lost(k)) /\ k.cur \notin owed
    BY <1>6, <2>1, <2>2
  <2>4. ~r.pendsv /\ ~r.pending
    BY <1>2, <2>3 DEF Lost, SameFlags
  <2>5. ~Asked(k, r)
    BY <2>4 DEF Asked
  <2> QED BY <2>1, <2>3, <2>5
<1> QED BY <1>4, <1>5, <1>7, <1>8, <1>9, <1>10, <1>11 DEF Interrupts

\* Every other step
LEMMA OthersPreempt ==
    ASSUME IInv, SwitchInv, IInv', Start \/ SwitchNow \/ ContextSwitch
    PROVE  ~PreemptionLost'
<1>1. CASE SwitchNow
  BY <1>1, LockEffect DEF PreemptionLost
<1>2. ASSUME phase' = "running",
             \A t \in Tasks : k'.state[t] \in Runnable => k'.prio[t] <= k'.prio[k'.cur]
      PROVE  ~PreemptionLost'
  <2>1. \A t \in Tasks : k'.prio[t] \in Int
    BY KernelAssumption DEF IInv, TypeOK, KernelType, Priorities
  <2>2. k'.cur \in Tasks
    BY <1>2 DEF IInv, BootInv
  <2>3. ASSUME NEW t \in Tasks, k'.state[t] = "READY", k'.prio[t] > k'.prio[k'.cur]
        PROVE  FALSE
    <3>1. k'.prio[t] <= k'.prio[k'.cur]
      BY <1>2, <2>3 DEF Runnable
    <3>2. k'.prio[t] \in Int /\ k'.prio[k'.cur] \in Int
      BY <2>1, <2>2
    <3> QED BY <2>3, <3>1, <3>2
  <2> QED BY <2>3 DEF PreemptionLost
<1>3. CASE ContextSwitch
  BY <1>2, <1>3, ContextSwitchStep DEF ContextSwitch
<1>4. CASE StartFirst
  <2>1. k \in KernelType /\ Queues(k, Ready) /\ k.state[Idle] \in Runnable /\ boot = <<>>
    BY <1>4 DEF StartFirst, IInv, TypeOK, BootInv
  <2>2. Ready = RunnableTasks(k)
    BY <2>1, FirstLinked, EmptySeq DEF Ready, RunnableTasks
  <2>3. /\ RunnableTasks(k') = RunnableTasks(k)
        /\ \A t \in RunnableTasks(k) : k.prio[t] <= k.prio[k'.cur]
        /\ k'.prio = k.prio
    BY <1>4, <2>1, <2>2, KInvSchedule DEF StartFirst
  <2>4. \A t \in Tasks : k'.state[t] \in Runnable => t \in RunnableTasks(k')
    BY DEF RunnableTasks
  <2> QED BY <1>2, <1>4, <2>3, <2>4 DEF StartFirst
<1>5. CASE Start /\ ~StartFirst
  BY <1>5 DEF Start, BootCreate, StartIdle, StartTask, PreemptionLost
<1> QED BY <1>1, <1>3, <1>4, <1>5

\* aixos_sched_request_preemption: whatever makes a task ready or changes a
\* priority asks for the switch that is due; only creating a task does not.
THEOREM PreemptionKeptCorrect == Spec => PreemptionKept
<1>1. ASSUME IInv, SwitchInv, IInv', [Next]_vars
      PROVE  [PreemptionLost' => PreemptionLost
               \/ \E t \in Tasks, p \in Priorities : TaskCreate(t, p)]_vars
  BY <1>1, ApplicationPreempts, InterruptsPreempt, OthersPreempt DEF Next
<1> QED BY <1>1, InductiveInvariant, SwitchInvariant, PTL DEF Spec, PreemptionKept

\* aixos_tick_handler: with a time slice of one tick, the tick asks for a
\* switch whoever lost it.
THEOREM TickRestoresCorrect == Spec => TickRestoresPreemption
<1>1. ASSUME IInv, SwitchInv, IInv', [Next]_vars
      PROVE  [SliceTicks = 1 /\ TickEnd => ~PreemptionLost']_vars
  <2>1. ASSUME SliceTicks = 1, TickEnd, PreemptionLost' PROVE FALSE
    <3>1. Interrupts
      BY <2>1 DEF Interrupts
    <3>2. k.slice[k.cur] # 0
      BY <1>1, <2>1, <3>1, InterruptsPreempt
    <3>3. k.slice[k.cur] < 1
      BY <1>1, <2>1 DEF SwitchInv, TickEnd
    <3>4. k.slice[k.cur] \in Nat
      <4>1. KInv(k)
        BY <1>1, <2>1, HandlerInv DEF TickEnd
      <4> QED BY <4>1, KernelAssumption DEF KInv, KernelType
    <3> QED BY <3>2, <3>3, <3>4
  <2> QED BY <2>1
<1> QED BY <1>1, InductiveInvariant, SwitchInvariant, PTL DEF Spec, TickRestoresPreemption

-----------------------------------------------------------------------------
(* Who waits.                                                              *)

Waiters == {"BLOCKED", "DELAYED"}

\* The order of a wait list: the more urgent a task, the smaller its key.
Urgency(prio) == [u \in Tasks |-> -prio[u]]

\* WaitListsExact, of the kernel data kk
Waits(kk) ==
    /\ \A w \in WaitLists : NoRepeat(kk.waitq[w]) /\ Ascending(kk.waitq[w], Urgency(kk.prio))
    /\ NoRepeat(kk.timeouts)
    /\ \A t \in Tasks :
          /\ \A w \in WaitLists : Linked(kk.waitq[w], t) <=> kk.waitOn[t] = w
          /\ kk.state[t] = "BLOCKED" <=> kk.waitOn[t] # NoList
          /\ kk.state[t] = "DELAYED" => Linked(kk.timeouts, t)
          /\ Linked(kk.timeouts, t) => kk.state[t] \in Waiters

\* The order of a list depends on the keys of its members only.
LEMMA AscendingSame ==
    ASSUME NEW s \in Seq(Tasks), NEW f, NEW g, Ascending(s, f),
           \A u \in Tasks : Linked(s, u) => g[u] = f[u]
    PROVE  Ascending(s, g)
<1>1. \A i \in DOMAIN s : s[i] \in Tasks /\ Linked(s, s[i])
  BY LenProperties, ElementOfSeq DEF Linked
<1> QED BY <1>1 DEF Ascending

LEMMA UrgencySame ==
    ASSUME NEW s \in Seq(Tasks), NEW p, NEW q, NEW t, ~Linked(s, t),
           Ascending(s, Urgency(p)), \A u \in Tasks \ {t} : q[u] = p[u]
    PROVE  Ascending(s, Urgency(q))
<1>1. \A u \in Tasks : Linked(s, u) => Urgency(q)[u] = Urgency(p)[u]
  BY DEF Urgency
<1> QED BY <1>1, AscendingSame

\* The lists that Waits speaks of
LEMMA WaitsLists ==
    ASSUME NEW kk \in KernelType
    PROVE  /\ kk.waitq \in [WaitLists -> Seq(Tasks)] /\ kk.timeouts \in Seq(Tasks)
           /\ kk.waitOn \in [Tasks -> WaitLists \union {NoList}]
           /\ kk.state \in [Tasks -> TaskStates] /\ kk.prio \in [Tasks -> Priorities]
           /\ kk.wake \in [Tasks -> Ticks] /\ kk.tick \in Ticks
           /\ kk.result \in [Tasks -> Results]
BY DEF KernelType

LEMMA QuietWaits ==
    ASSUME NEW kk \in KernelType, Waits(kk), NEW r \in KernelType, Quiet(kk, r)
    PROVE  Waits(r)
<1>1. /\ r.waitq = kk.waitq /\ r.timeouts = kk.timeouts /\ r.waitOn = kk.waitOn
      /\ r.prio = kk.prio
  BY DEF Quiet, SameWaiting
<1>2. \A t \in Tasks : \/ r.state[t] = kk.state[t]
                       \/ kk.state[t] \in Active /\ r.state[t] \in Active
  BY DEF Quiet
<1> QED BY <1>1, <1>2 DEF Waits, Active, Waiters

LEMMA MadeWaits ==
    ASSUME NEW kk \in KernelType, Waits(kk), NEW r \in KernelType,
           NEW t \in Tasks, NEW p, Made(kk, r, t, p)
    PROVE  Waits(r)
<1>1. /\ kk.state[t] = "STOP" /\ r.state = [kk.state EXCEPT ![t] = "READY"]
      /\ r.prio = [kk.prio EXCEPT ![t] = p]
      /\ r.waitOn = [kk.waitOn EXCEPT ![t] = NoList]
      /\ r.waitq = kk.waitq /\ r.timeouts = kk.timeouts
  BY DEF Made
<1>2. kk.waitOn[t] = NoList /\ ~Linked(kk.timeouts, t)
      /\ \A w \in WaitLists : ~Linked(kk.waitq[w], t)
  BY <1>1, KernelAssumption DEF Waits, Waiters
<1>3. ASSUME NEW w \in WaitLists PROVE Ascending(r.waitq[w], Urgency(r.prio))
  BY <1>1, <1>2, WaitsLists, UrgencySame DEF Waits
<1>4. \A u \in Tasks \ {t} : r.waitOn[u] = kk.waitOn[u] /\ r.state[u] = kk.state[u]
  BY <1>1, WaitsLists
<1>5. r.waitOn[t] = NoList /\ r.state[t] = "READY"
  BY <1>1, WaitsLists
<1> QED BY <1>1, <1>2, <1>3, <1>4, <1>5, KernelAssumption DEF Waits, Waiters

LEMMA EndedWaits ==
    ASSUME NEW kk \in KernelType, Waits(kk), NEW r \in KernelType,
           NEW t \in Tasks, NEW s \in {"READY", "SUSPENDED", "STOP"}, NEW result,
           Ended(kk, r, t, s, result)
    PROVE  Waits(r)
<1>1. /\ r.waitq = [w \in WaitLists |-> ListDel(kk.waitq[w], t)]
      /\ r.timeouts = ListDel(kk.timeouts, t)
      /\ r.waitOn = [kk.waitOn EXCEPT ![t] = NoList]
      /\ r.state = [kk.state EXCEPT ![t] = s]
      /\ \A u \in Tasks \ {t} : r.prio[u] = kk.prio[u]
  BY DEF Ended, Detached
<1>2. ASSUME NEW w \in WaitLists
      PROVE  /\ NoRepeat(r.waitq[w]) /\ Ascending(r.waitq[w], Urgency(r.prio))
             /\ \A u : Linked(r.waitq[w], u) <=> Linked(kk.waitq[w], u) /\ u # t
  <2>1. kk.waitq[w] \in Seq(Tasks) /\ NoRepeat(kk.waitq[w])
        /\ Ascending(kk.waitq[w], Urgency(kk.prio))
    BY WaitsLists DEF Waits
  <2>2. /\ r.waitq[w] \in Seq(Tasks) /\ NoRepeat(r.waitq[w])
        /\ \A u : Linked(r.waitq[w], u) <=> Linked(kk.waitq[w], u) /\ u # t
    BY <1>1, <2>1, ListDelLinked
  <2>3. Ascending(r.waitq[w], Urgency(kk.prio))
    BY <1>1, <2>1, AscendingDel
  <2>4. ~Linked(r.waitq[w], t)
    BY <2>2
  <2> QED BY <1>1, <2>2, <2>3, <2>4, UrgencySame
<1>3. /\ NoRepeat(r.timeouts)
      /\ \A u : Linked(r.timeouts, u) <=> Linked(kk.timeouts, u) /\ u # t
  BY <1>1, WaitsLists, ListDelLinked DEF Waits
<1>4. \A u \in Tasks \ {t} : r.waitOn[u] = kk.waitOn[u] /\ r.state[u] = kk.state[u]
  BY <1>1, WaitsLists
<1>5. r.waitOn[t] = NoList /\ r.state[t] = s
  BY <1>1, WaitsLists
<1> QED BY <1>2, <1>3, <1>4, <1>5, KernelAssumption DEF Waits, Waiters

LEMMA MovedWaits ==
    ASSUME NEW kk \in KernelType, Waits(kk), NEW r \in KernelType,
           NEW t \in Tasks, NEW p, Moved(kk, r, t, p)
    PROVE  Waits(r)
<1> DEFINE list == kk.waitOn[t]
<1>1. /\ r.state = kk.state /\ r.prio = [kk.prio EXCEPT ![t] = p]
      /\ r.timeouts = kk.timeouts /\ r.waitOn = kk.waitOn
      /\ r.waitq = IF list # NoList /\ Linked(kk.waitq[list], t)
                   THEN [kk.waitq EXCEPT ![list] = WaitInsert(ListDel(@, t), r.prio, t)]
                   ELSE kk.waitq
  BY DEF Moved
<1>2. \A u \in Tasks \ {t} : r.prio[u] = kk.prio[u]
  BY <1>1, WaitsLists
<1>3. ASSUME NEW w \in WaitLists
      PROVE  /\ NoRepeat(r.waitq[w]) /\ Ascending(r.waitq[w], Urgency(r.prio))
             /\ \A u \in Tasks : Linked(r.waitq[w], u) <=> Linked(kk.waitq[w], u)
  <2>1. kk.waitq[w] \in Seq(Tasks) /\ NoRepeat(kk.waitq[w])
        /\ Ascending(kk.waitq[w], Urgency(kk.prio))
    BY WaitsLists DEF Waits
  <2>2. CASE Linked(kk.waitq[w], t)
    <3> DEFINE d == ListDel(kk.waitq[w], t)
    <3>1. list = w /\ list # NoList
      BY <2>2, KernelAssumption DEF Waits
    <3>2. r.waitq[w] = WaitInsert(d, r.prio, t)
      BY <1>1, <2>2, <3>1, WaitsLists
    <3>3. /\ d \in Seq(Tasks) /\ NoRepeat(d)
          /\ \A u : Linked(d, u) <=> Linked(kk.waitq[w], u) /\ u # t
      BY <2>1, ListDelLinked
    <3>4. Ascending(d, Urgency(kk.prio))
      BY <2>1, AscendingDel
    <3> HIDE DEF d
    <3>5. ~Linked(d, t)
      BY <3>3
    <3>6. Ascending(d, Urgency(r.prio))
      BY <1>2, <3>3, <3>4, <3>5, UrgencySame
    <3>7. r.prio \in [Tasks -> Priorities]
      BY WaitsLists
    <3>8. Ascending(r.waitq[w], Urgency(r.prio))
      BY <3>2, <3>3, <3>6, <3>7, WaitInsertAscending DEF Urgency
    <3>9. /\ NoRepeat(r.waitq[w])
          /\ \A u : Linked(r.waitq[w], u) <=> Linked(d, u) \/ u = t
      BY <3>2, <3>3, <3>5, <3>7, WaitInsertLinked
    <3> QED BY <2>2, <3>3, <3>8, <3>9
  <2>3. CASE ~Linked(kk.waitq[w], t)
    <3>1. r.waitq[w] = kk.waitq[w]
      <4>1. CASE list # NoList /\ Linked(kk.waitq[list], t)
        BY <1>1, <2>3, <4>1, WaitsLists
      <4> QED BY <1>1, <4>1
    <3> QED BY <1>2, <2>1, <2>3, <3>1, UrgencySame
  <2> QED BY <2>2, <2>3
<1> QED BY <1>1, <1>3 DEF Waits

LEMMA BegunWaits ==
    ASSUME NEW kk \in KernelType, Waits(kk), NEW r \in KernelType,
           kk.cur \in Tasks, kk.state[kk.cur] = "RUNNING",
           NEW waitState \in Waiters, NEW list \in WaitLists \union {NoList}, NEW d \in Nat,
           waitState = "BLOCKED" <=> list # NoList,
           waitState = "DELAYED" => d # 0,
           Begun(kk, r, waitState, list, d)
    PROVE  Waits(r)
<1> DEFINE t == kk.cur
           wake == [kk.wake EXCEPT ![t] = IF d = 0 THEN 0 ELSE TickAfter(kk.tick, d)]
<1>1. /\ r.state = [kk.state EXCEPT ![t] = waitState]
      /\ r.waitOn = [kk.waitOn EXCEPT ![t] = list]
      /\ r.waitq = IF list = NoList THEN kk.waitq
                   ELSE [kk.waitq EXCEPT ![list] = WaitInsert(@, kk.prio, t)]
      /\ r.timeouts = IF d = 0 THEN kk.timeouts ELSE TimeoutInsert(kk.timeouts, wake, t)
      /\ r.prio = kk.prio
  BY DEF Begun
<1> HIDE DEF wake
<1>2. kk.waitOn[t] = NoList /\ ~Linked(kk.timeouts, t)
      /\ \A w \in WaitLists : ~Linked(kk.waitq[w], t)
  BY KernelAssumption DEF Waits, Waiters
<1>3. ASSUME NEW w \in WaitLists
      PROVE  /\ NoRepeat(r.waitq[w]) /\ Ascending(r.waitq[w], Urgency(r.prio))
             /\ \A u : Linked(r.waitq[w], u) <=> Linked(kk.waitq[w], u) \/ (u = t /\ w = list)
  <2>1. kk.waitq[w] \in Seq(Tasks) /\ NoRepeat(kk.waitq[w])
        /\ Ascending(kk.waitq[w], Urgency(kk.prio)) /\ kk.prio \in [Tasks -> Priorities]
    BY WaitsLists DEF Waits
  <2>2. CASE w = list
    <3>1. r.waitq[w] = WaitInsert(kk.waitq[w], kk.prio, t)
      BY <1>1, <2>2, WaitsLists, KernelAssumption
    <3>2. /\ NoRepeat(r.waitq[w])
          /\ \A u : Linked(r.waitq[w], u) <=> Linked(kk.waitq[w], u) \/ u = t
      BY <1>2, <2>1, <3>1, WaitInsertLinked
    <3>3. Ascending(r.waitq[w], Urgency(r.prio))
      BY <1>1, <2>1, <3>1, WaitInsertAscending DEF Urgency
    <3> QED BY <2>2, <3>2, <3>3
  <2>3. CASE w # list
    <3>1. r.waitq[w] = kk.waitq[w]
      BY <1>1, <2>3, WaitsLists
    <3> QED BY <1>1, <2>1, <2>3, <3>1
  <2> QED BY <2>2, <2>3
<1>4. /\ NoRepeat(r.timeouts)
      /\ \A u : Linked(r.timeouts, u) <=> Linked(kk.timeouts, u) \/ (u = t /\ d # 0)
  <2>1. kk.timeouts \in Seq(Tasks) /\ NoRepeat(kk.timeouts)
    BY WaitsLists DEF Waits
  <2> QED BY <1>1, <1>2, <2>1, TimeoutInsertLinked
<1>5. \A u \in Tasks \ {t} : r.waitOn[u] = kk.waitOn[u] /\ r.state[u] = kk.state[u]
  BY <1>1, WaitsLists
<1>6. r.waitOn[t] = list /\ r.state[t] = waitState
  BY <1>1, WaitsLists
<1>7. ASSUME NEW u \in Tasks
      PROVE  /\ \A w \in WaitLists : Linked(r.waitq[w], u) <=> r.waitOn[u] = w
             /\ r.state[u] = "BLOCKED" <=> r.waitOn[u] # NoList
             /\ r.state[u] = "DELAYED" => Linked(r.timeouts, u)
             /\ Linked(r.timeouts, u) => r.state[u] \in Waiters
  <2>1. CASE u = t
    BY <1>2, <1>3, <1>4, <1>6, <2>1 DEF Waiters
  <2>2. CASE u # t
    BY <1>3, <1>4, <1>5, <2>2 DEF Waits
  <2> QED BY <2>1, <2>2
<1> QED BY <1>3, <1>4, <1>7 DEF Waits

-----------------------------------------------------------------------------
(* What a step can be to the tasks and their waits.                        *)

Ticked(kk, r) ==
    /\ SameWaiting(kk, r) /\ r.state = kk.state /\ r.prio = kk.prio
    /\ r.tick = TickAfter(kk.tick, 1)

\* The end of a wait by a wake, by its deadline, by suspension or by deletion
Woken(kk, r, t) ==
    /\ \E w \in WaitLists : Linked(kk.waitq[w], t)
    /\ Ended(kk, r, t, "READY", "OK")

TimedOut(kk, r, t) ==
    /\ kk.timeouts # <<>> /\ t = Head(kk.timeouts)
    /\ TickReached(kk.tick, kk.wake[t])
    /\ Ended(kk, r, t, "READY", IF kk.state[t] = "DELAYED" THEN "OK" ELSE "TIMEOUT")

Suspended(kk, r, t) ==
    /\ kk.state[t] \in Waiters
    /\ Ended(kk, r, t, "SUSPENDED", "INTR")

Stopped(kk, r, t) ==
    /\ kk.state[t] # "STOP"
    /\ \E result \in {"OK", "INTR"} : Ended(kk, r, t, "STOP", result)

Begins(kk, r) ==
    /\ kk.cur \in Tasks /\ kk.state[kk.cur] = "RUNNING"
    /\ \E waitState \in Waiters, list \in WaitLists \union {NoList}, d \in Delays \union {0} :
          /\ waitState = "BLOCKED" <=> list # NoList
          /\ waitState = "DELAYED" => d # 0
          /\ Begun(kk, r, waitState, list, d)

\* What one task goes through in one step
Change(kk, r, t) ==
    \/ \E p \in Priorities : Made(kk, r, t, p) \/ Moved(kk, r, t, p)
    \/ Woken(kk, r, t) \/ TimedOut(kk, r, t) \/ Suspended(kk, r, t) \/ Stopped(kk, r, t)

\* A step of the scheduler: only the tick interrupt, and not before it has
\* ended every wait that is due, looks at the clock.
StepCause(kk, r) ==
    \/ Quiet(kk, r) /\ (inTick' => inTick) /\ (inTick /\ ~inTick' => ~TimeoutDue)
    \/ Ticked(kk, r) /\ ~inTick /\ inTick'
    \/ inTick' = inTick /\ (Begins(kk, r) \/ \E t \in Tasks : Change(kk, r, t))

\* The first task of a wait list waits on it.
LEMMA FirstWaiter ==
    ASSUME NEW kk \in KernelType, Waits(kk), NEW w \in WaitLists, kk.waitq[w] # <<>>
    PROVE  /\ Head(kk.waitq[w]) \in Tasks /\ Linked(kk.waitq[w], Head(kk.waitq[w]))
           /\ kk.state[Head(kk.waitq[w])] = "BLOCKED"
<1>1. Head(kk.waitq[w]) \in Tasks /\ Linked(kk.waitq[w], Head(kk.waitq[w]))
  BY WaitsLists, FirstLinked
<1> QED BY <1>1, KernelAssumption DEF Waits

LEMMA SignalCause ==
    ASSUME KInv(k), Waits(k), NEW w \in WaitLists, k.waitq[w] # <<>>, k' = WakeFirst(w)
    PROVE  \E t \in Tasks : Change(k, k', t)
<1> DEFINE t == Head(k.waitq[w])
<1>1. t \in Tasks /\ Linked(k.waitq[w], t) /\ k.state[t] = "BLOCKED"
  BY FirstWaiter DEF KInv
<1>2. k' = TaskWake(k, t, "OK") /\ "OK" \in Results
  BY DEF WakeFirst, Results
<1> HIDE DEF t
<1>3. Ended(k, k', t, "READY", "OK")
  BY <1>1, <1>2, TaskWakeEffect
<1> QED BY <1>1, <1>3 DEF Change, Woken

LEMMA ApplicationCause ==
    ASSUME IInv, SwitchInv, Waits(k), Application
    PROVE  StepCause(k, k')
<1>1. inTick' = inTick
  BY DEF Application, TaskCreate, TaskDelete, TaskYield, TaskSleep, TaskWait, TaskSignal,
         TaskSuspend, TaskResume, SetPriority, SchedLock, SchedUnlock, Call
<1>2. SUFFICES Quiet(k, k') \/ Begins(k, k') \/ \E t \in Tasks : Change(k, k', t)
  BY <1>1 DEF StepCause
<1>3. UserTasks \subseteq Tasks /\ UserPriorities \subseteq Priorities
      /\ NewPriorities \subseteq Priorities
  BY SchedulerAssumption DEF UserTasks
<1>4. ASSUME NEW t \in UserTasks, NEW p \in UserPriorities, TaskCreate(t, p)
      PROVE  Change(k, k', t)
  BY <1>3, <1>4, TaskCreateEffect DEF Change
<1>5. ASSUME NEW t \in UserTasks, TaskDelete(t) PROVE Change(k, k', t)
  BY <1>5, TaskDeleteEffect DEF Change, Stopped, TaskDelete
<1>6. ASSUME NEW t \in UserTasks, TaskSuspend(t) PROVE Quiet(k, k') \/ Change(k, k', t)
  BY <1>6, TaskSuspendEffect DEF Change, Suspended, Waiters
<1>7. ASSUME TaskYield PROVE Quiet(k, k')
  BY <1>7, TaskYieldEffect, SameWaitsQuiet
<1>8. ASSUME NEW waitState \in Waiters, NEW list \in WaitLists \union {NoList},
             NEW d \in Delays \union {0}, Call(BlockCurrent(k, waitState, list, d)),
             waitState = "BLOCKED" <=> list # NoList, waitState = "DELAYED" => d # 0
      PROVE  Begins(k, k')
  <2>1. k.cur \in Tasks /\ k.state[k.cur] = "RUNNING"
    BY <1>8, CallerRuns DEF Call, KInv
  <2>2. Begun(k, k', waitState, list, d)
    BY <1>8, BlockEffect DEF Waiters
  <2> QED BY <1>8, <2>1, <2>2 DEF Begins
<1>9. ASSUME NEW d \in Delays, TaskSleep(d) PROVE Begins(k, k')
  <2>1. d # 0
    BY SchedulerAssumption
  <2> QED BY <1>8, <1>9, <2>1 DEF TaskSleep, Waiters
<1>10. ASSUME NEW w \in WaitLists, NEW d \in Delays \union {0}, TaskWait(w, d)
       PROVE  Begins(k, k')
  BY <1>8, <1>10, KernelAssumption DEF TaskWait, Waiters
<1>11. ASSUME NEW w \in WaitLists, TaskSignal(w) PROVE \E t \in Tasks : Change(k, k', t)
  BY <1>11, CallingInv, SignalCause DEF TaskSignal, Call
<1>12. ASSUME NEW t \in UserTasks, TaskResume(t) PROVE Quiet(k, k')
  BY <1>12, TaskResumeEffect
<1>13. ASSUME NEW t \in UserTasks, NEW p \in NewPriorities, SetPriority(t, p)
       PROVE  Change(k, k', t)
  BY <1>3, <1>13, SetPriorityEffect DEF Change
<1>14. ASSUME SchedLock \/ SchedUnlock PROVE Quiet(k, k')
  BY <1>14, LockEffect, SameWaitsQuiet
<1> QED BY <1>3, <1>4, <1>5, <1>6, <1>7, <1>9, <1>10, <1>11, <1>12, <1>13, <1>14
        DEF Application

LEMMA InterruptsCause ==
    ASSUME IInv, SwitchInv, Waits(k), Interrupts
    PROVE  StepCause(k, k')
<1>1. KInv(k)
  BY HandlerInv, RunningInv
     DEF Interrupts, InterruptEnter, Interrupt, InterruptSignal, Handler,
         InterruptExit, TickStart, TickExpire, TickEnd
<1>2. ASSUME InterruptEnter PROVE StepCause(k, k')
  <2>1. SameWaits(k, k') /\ inTick' = inTick
    BY <1>1, <1>2 DEF InterruptEnter, IsrEnter, KInv, KernelType, SameWaits
  <2> QED BY <2>1, SameWaitsQuiet DEF StepCause
<1>3. ASSUME NEW w \in WaitLists, InterruptSignal(w) PROVE StepCause(k, k')
  BY <1>1, <1>3, SignalCause DEF InterruptSignal, StepCause
<1>4. ASSUME InterruptExit PROVE StepCause(k, k')
  <2>1. SameWaits(k, k') /\ inTick' = inTick
    BY <1>1, <1>4, IsrExitEffect DEF InterruptExit, KInv
  <2> QED BY <2>1, SameWaitsQuiet DEF StepCause
<1>5. ASSUME TickStart PROVE StepCause(k, k')
  <2>1. Ticked(k, k')
    BY <1>5, TickStartEffect DEF Ticked
  <2> QED BY <1>5, <2>1 DEF StepCause, TickStart, Interrupt
<1>6. ASSUME TickExpire PROVE StepCause(k, k')
  <2> DEFINE t == Head(k.timeouts)
             result == IF k.state[t] = "DELAYED" THEN "OK" ELSE "TIMEOUT"
  <2>1. /\ k' = TaskWake(k, t, result) /\ k.timeouts # <<>> /\ inTick' = inTick
        /\ TickReached(k.tick, k.wake[t])
    BY <1>6 DEF TickExpire, TimeoutDue
  <2>2. t \in Tasks /\ Linked(k.timeouts, t) /\ result \in Results
    BY <1>1, <2>1, FirstLinked DEF KInv, KernelType, Results
  <2>3. k.state[t] \in Waiters
    BY <2>2 DEF Waits
  <2>4. t = Head(k.timeouts) /\ result = IF k.state[t] = "DELAYED" THEN "OK" ELSE "TIMEOUT"
    OBVIOUS
  <2> HIDE DEF t, result
  <2>5. Ended(k, k', t, "READY", result)
    BY <1>1, <2>1, <2>2, <2>3, TaskWakeEffect DEF Waiters
  <2>6. TimedOut(k, k', t)
    BY <2>1, <2>4, <2>5 DEF TimedOut
  <2> QED BY <2>1, <2>2, <2>6 DEF StepCause, Change
<1>7. ASSUME TickEnd PROVE StepCause(k, k')
  <2>1. Quiet(k, k')
    BY <1>7, TickEndEffect, SameWaitsQuiet
  <2> QED BY <1>7, <2>1 DEF StepCause, TickEnd
<1> QED BY <1>2, <1>3, <1>4, <1>5, <1>6, <1>7 DEF Interrupts

LEMMA OthersCause ==
    ASSUME IInv, SwitchInv, Waits(k), Start \/ SwitchNow \/ ContextSwitch
    PROVE  StepCause(k, k')
<1>1. inTick' = inTick
  BY DEF Start, BootCreate, StartIdle, StartTask, StartFirst, SwitchNow, ContextSwitch
<1>2. SUFFICES Quiet(k, k') \/ \E t \in Tasks : Change(k, k', t)
  BY <1>1 DEF StepCause
<1>3. k \in KernelType
  BY DEF IInv, TypeOK
<1>4. CASE SwitchNow
  BY <1>4, LockEffect, SameWaitsQuiet
<1>5. CASE ContextSwitch
  <2>1. /\ SameWaiting(k, k') /\ k'.prio = k.prio /\ k'.tick = k.tick
        /\ k'.cur \in RunnableTasks(k)
        /\ \A t \in Tasks : k'.state[t] =
              IF t = k'.cur THEN "RUNNING"
              ELSE IF t = k.cur /\ k.state[t] = "RUNNING" THEN "READY" ELSE k.state[t]
    BY <1>5, ContextSwitchEffect
  <2> QED BY <2>1 DEF Quiet, Active, RunnableTasks, Runnable
<1>6. ASSUME NEW t \in Tasks, NEW p \in Priorities, k.state[t] = "STOP", k' = NewTask(k, t, p)
      PROVE  Change(k, k', t)
  <2>1. Made(k, k', t, p)
    BY <1>3, <1>6 DEF NewTask, KernelType, Made
  <2> QED BY <2>1 DEF Change
<1>7. CASE \E t \in UserTasks, p \in UserPriorities : BootCreate(t, p)
  BY <1>6, <1>7, SchedulerAssumption DEF BootCreate, UserTasks
<1>8. CASE StartIdle
  <2>1. Idle \in Tasks /\ 0 \in Priorities
    BY SchedulerAssumption, KernelAssumption DEF Priorities
  <2>2. k.state[Idle] = "STOP" /\ k' = NewTask(k, Idle, 0)
    BY <1>8 DEF StartIdle, IInv, BootInv
  <2> QED BY <1>6, <2>1, <2>2
<1>9. CASE StartTask
  <2>1. SameWaits(k, k')
    BY <1>3, <1>9 DEF StartTask, SchedAdd, KernelType, SameWaits
  <2> QED BY <2>1, SameWaitsQuiet
<1>10. CASE StartFirst
  <2>1. Queues(k, Ready) /\ boot = <<>> /\ k' = Schedule(k) /\ k.state[Idle] \in Runnable
    BY <1>10 DEF StartFirst, IInv, BootInv
  <2>2. Ready = RunnableTasks(k)
    BY <2>1, FirstLinked, EmptySeq DEF Ready, RunnableTasks
  <2>3. Ready # {} /\ Ready \in SUBSET Tasks
    BY <2>1, <2>2, SchedulerAssumption DEF RunnableTasks
  <2>4. HighestReady(k) \in RunnableTasks(k)
    BY <1>3, <2>1, <2>2, <2>3, HighestReadyIsHighest
  <2>5. /\ k' = [k EXCEPT !.state = k'.state, !.cur = HighestReady(k)]
        /\ \A t \in Tasks : k'.state[t] =
              IF t = HighestReady(k) THEN "RUNNING"
              ELSE IF t = k.cur /\ k.state[t] = "RUNNING" THEN "READY" ELSE k.state[t]
    BY <1>3, <2>1, <2>3, ScheduleType
  <2>6. SameWaiting(k, k') /\ k'.prio = k.prio /\ k'.tick = k.tick
    BY <1>3, <2>5 DEF KernelType, SameWaiting
  <2> QED BY <2>4, <2>5, <2>6 DEF Quiet, Active, RunnableTasks, Runnable
<1> QED BY <1>4, <1>5, <1>7, <1>8, <1>9, <1>10 DEF Start

LEMMA NextCause ==
    ASSUME IInv, SwitchInv, Waits(k), [Next]_vars
    PROVE  StepCause(k, k')
<1>1. CASE UNCHANGED vars
  <2>1. SameWaits(k, k') /\ inTick' = inTick
    BY <1>1 DEF vars, SameWaits
  <2> QED BY <2>1, SameWaitsQuiet DEF StepCause
<1> QED BY <1>1, ApplicationCause, InterruptsCause, OthersCause DEF Next

LEMMA WaitsNext ==
    ASSUME IInv, SwitchInv, Waits(k), IInv', [Next]_vars
    PROVE  Waits(k')
<1>1. k \in KernelType /\ k' \in KernelType
  BY DEF IInv, TypeOK
<1>2. StepCause(k, k')
  BY NextCause
<1>3. CASE Quiet(k, k')
  BY <1>1, <1>3, QuietWaits
<1>4. CASE Ticked(k, k')
  BY <1>4 DEF Ticked, SameWaiting, Waits
<1>5. CASE Begins(k, k')
  <2>1. \A d \in Delays \union {0} : d \in Nat
    BY SchedulerAssumption
  <2> QED BY <1>1, <1>5, <2>1, BegunWaits DEF Begins
<1>6. ASSUME NEW t \in Tasks, Change(k, k', t) PROVE Waits(k')
  BY <1>1, <1>6, MadeWaits, MovedWaits, EndedWaits
     DEF Change, Woken, TimedOut, Suspended, Stopped
<1> QED BY <1>2, <1>3, <1>4, <1>5, <1>6 DEF StepCause

\* Init has nobody waiting.
LEMMA WaitsInit ==
    ASSUME Init
    PROVE  Waits(k)
<1>1. /\ k.waitq = [w \in WaitLists |-> <<>>] /\ k.timeouts = <<>>
      /\ k.waitOn = [t \in Tasks |-> NoList] /\ k.state = [t \in Tasks |-> "STOP"]
  BY DEF Init
<1>2. NoRepeat(<<>>) /\ \A f : Ascending(<<>>, f)
  BY DEF NoRepeat, Ascending
<1>3. \A u : ~Linked(<<>>, u)
  BY FirstLinked, EmptySeq
<1> QED BY <1>1, <1>2, <1>3, KernelAssumption DEF Waits, Waiters

\* Who is on which wait list and on the timeout list, in which order, in every
\* reachable state (task.c).
THEOREM WaitsInvariant == Spec => []Waits(k)
<1>1. IInv /\ SwitchInv /\ Waits(k) /\ IInv' /\ [Next]_vars => Waits(k)'
  BY WaitsNext
<1> QED BY <1>1, WaitsInit, InductiveInvariant, SwitchInvariant, PTL DEF Spec

\* task.c: wait_node, wait_list and the state agree whatever ends a wait, and
\* the first waiter of a list has the highest priority of the list.
THEOREM WaitListsCorrect == Spec => []WaitListsExact
<1>1. ASSUME IInv, Waits(k) PROVE WaitListsExact
  <2>1. ASSUME NEW w \in WaitLists, NEW i \in DOMAIN k.waitq[w], NEW j \in DOMAIN k.waitq[w],
               i < j
        PROVE  k.prio[k.waitq[w][i]] >= k.prio[k.waitq[w][j]]
    <3>1. k \in KernelType
      BY <1>1 DEF IInv, TypeOK
    <3>2. k.waitq[w] \in Seq(Tasks) /\ k.prio \in [Tasks -> Priorities]
      BY <3>1, WaitsLists
    <3>3. k.waitq[w][i] \in Tasks /\ k.waitq[w][j] \in Tasks
      BY <3>2, LenProperties, ElementOfSeq
    <3>4. k.prio[k.waitq[w][i]] \in Int /\ k.prio[k.waitq[w][j]] \in Int
      BY <3>2, <3>3, KernelAssumption DEF Priorities
    <3>5. -k.prio[k.waitq[w][i]] <= -k.prio[k.waitq[w][j]]
      BY <1>1, <2>1, <3>3 DEF Waits, Ascending, Urgency
    <3> QED BY <3>4, <3>5
  <2> QED BY <1>1, <2>1 DEF Waits, WaitListsExact, Waiters
<1> QED BY <1>1, InductiveInvariant, WaitsInvariant, PTL

-----------------------------------------------------------------------------
(* Deadlines.                                                              *)

\* How long each task has left until its wake tick
TimeLeft(kk) == [u \in Tasks |-> Left(kk.wake[u], kk.tick)]

\* DeadlinesAhead, of the kernel data kk; a deadline may be due or it may not
Deadlines(kk, due) ==
    /\ Ascending(kk.timeouts, TimeLeft(kk))
    /\ \A t \in Tasks : Linked(kk.timeouts, t) =>
          /\ TimeLeft(kk)[t] <= MaxTimeout
          /\ TimeLeft(kk)[t] = 0 => due

LEMMA TimeLeftType ==
    ASSUME NEW kk \in KernelType
    PROVE  /\ TimeLeft(kk) \in [Tasks -> Ticks]
           /\ \A t \in Tasks : TimeLeft(kk)[t] \in Nat
<1>1. \A t \in Tasks : Left(kk.wake[t], kk.tick) \in Ticks
  BY WaitsLists, LeftIs
<1> QED BY <1>1, KernelAssumption DEF TimeLeft, Ticks

\* Deadlines depends on the times of the tasks on the list only.
LEMMA DeadlinesSame ==
    ASSUME NEW kk \in KernelType, NEW r \in KernelType, NEW due, Deadlines(kk, due),
           r.timeouts = kk.timeouts, r.tick = kk.tick,
           \A t \in Tasks : Linked(kk.timeouts, t) => r.wake[t] = kk.wake[t]
    PROVE  Deadlines(r, due)
<1>1. \A t \in Tasks : Linked(kk.timeouts, t) => TimeLeft(r)[t] = TimeLeft(kk)[t]
  BY DEF TimeLeft
<1>2. kk.timeouts \in Seq(Tasks)
  BY WaitsLists
<1>3. Ascending(r.timeouts, TimeLeft(r))
  BY <1>1, <1>2, AscendingSame DEF Deadlines
<1> QED BY <1>1, <1>3 DEF Deadlines

\* The first task of the timeout list is due when it has no time left, and if
\* it is not, then no task of the list is.
LEMMA FirstDeadline ==
    ASSUME NEW kk \in KernelType, NEW due, Deadlines(kk, due), kk.timeouts # <<>>
    PROVE  LET h == Head(kk.timeouts)
           IN  /\ h \in Tasks /\ Linked(kk.timeouts, h)
               /\ TickReached(kk.tick, kk.wake[h]) <=> TimeLeft(kk)[h] = 0
               /\ \A t \in Tasks : Linked(kk.timeouts, t) => TimeLeft(kk)[h] <= TimeLeft(kk)[t]
<1> DEFINE h == Head(kk.timeouts)
           s == kk.timeouts
<1>1. s \in Seq(Tasks) /\ s # <<>>
  BY WaitsLists
<1>2. h \in Tasks /\ Linked(s, h)
  BY <1>1, FirstLinked
<1>3. Len(s) \in Nat /\ DOMAIN s = 1 .. Len(s) /\ 1 \in DOMAIN s /\ h = s[1]
  BY <1>1, LenProperties, EmptySeq, HeadTailProperties
<1>4. TickReached(kk.tick, kk.wake[h]) <=> TimeLeft(kk)[h] = 0
  <2>1. kk.wake[h] \in Ticks /\ kk.tick \in Ticks
    BY <1>2, WaitsLists
  <2>2. TimeLeft(kk)[h] = Left(kk.wake[h], kk.tick) /\ TimeLeft(kk)[h] <= MaxTimeout
    BY <1>2 DEF TimeLeft, Deadlines
  <2> QED BY <2>1, <2>2, ReachedNow
<1>5. ASSUME NEW t \in Tasks, Linked(s, t) PROVE TimeLeft(kk)[h] <= TimeLeft(kk)[t]
  <2>1. PICK i \in DOMAIN s : s[i] = t
    BY <1>5 DEF Linked
  <2>2. CASE i = 1
    BY <1>2, <1>3, <2>1, <2>2, TimeLeftType
  <2>3. CASE i # 1
    BY <1>3, <2>1, <2>3 DEF Deadlines, Ascending
  <2> QED BY <2>2, <2>3
<1> QED BY <1>2, <1>4, <1>5

LEMMA TickedDeadlines ==
    ASSUME NEW kk \in KernelType, NEW r \in KernelType, Deadlines(kk, FALSE), Ticked(kk, r)
    PROVE  Deadlines(r, TRUE)
<1>1. r.timeouts = kk.timeouts /\ r.wake = kk.wake /\ r.tick = TickAfter(kk.tick, 1)
  BY DEF Ticked, SameWaiting
<1> DEFINE s == kk.timeouts
<1>2. s \in Seq(Tasks) /\ \A i \in DOMAIN s : s[i] \in Tasks /\ Linked(s, s[i])
  BY WaitsLists, LenProperties, ElementOfSeq DEF Linked
<1>3. ASSUME NEW t \in Tasks, Linked(s, t)
      PROVE  /\ TimeLeft(kk)[t] \in Nat /\ TimeLeft(r)[t] = TimeLeft(kk)[t] - 1
             /\ TimeLeft(kk)[t] <= MaxTimeout
  <2>1. kk.wake[t] \in Ticks /\ kk.tick \in Ticks /\ TimeLeft(kk)[t] \in Nat
    BY WaitsLists, TimeLeftType
  <2>2. TimeLeft(kk)[t] = Left(kk.wake[t], kk.tick) /\ TimeLeft(kk)[t] # 0
        /\ TimeLeft(kk)[t] <= MaxTimeout
    BY <1>3 DEF TimeLeft, Deadlines
  <2>3. TimeLeft(r)[t] = Left(kk.wake[t], TickAfter(kk.tick, 1))
    BY <1>1 DEF TimeLeft
  <2> QED BY <2>1, <2>2, <2>3, LeftCounts
<1>4. Ascending(s, TimeLeft(r))
  <2>1. SUFFICES ASSUME NEW i \in DOMAIN s, NEW j \in DOMAIN s, i < j
                 PROVE  TimeLeft(r)[s[i]] <= TimeLeft(r)[s[j]]
    BY DEF Ascending
  <2>2. TimeLeft(kk)[s[i]] <= TimeLeft(kk)[s[j]]
    BY <2>1 DEF Deadlines, Ascending
  <2>3. /\ TimeLeft(kk)[s[i]] \in Nat /\ TimeLeft(r)[s[i]] = TimeLeft(kk)[s[i]] - 1
        /\ TimeLeft(kk)[s[j]] \in Nat /\ TimeLeft(r)[s[j]] = TimeLeft(kk)[s[j]] - 1
    BY <1>2, <1>3
  <2> QED BY <2>2, <2>3
<1>5. ASSUME NEW t \in Tasks, Linked(s, t) PROVE TimeLeft(r)[t] <= MaxTimeout
  BY <1>3, <1>5, MaxTimeoutIs
<1> QED BY <1>1, <1>4, <1>5 DEF Deadlines

LEMMA EndedDeadlines ==
    ASSUME NEW kk \in KernelType, Waits(kk), NEW r \in KernelType, NEW due, Deadlines(kk, due),
           NEW t \in Tasks, NEW s, NEW result, Ended(kk, r, t, s, result)
    PROVE  Deadlines(r, due)
<1>1. /\ r.timeouts = ListDel(kk.timeouts, t) /\ r.wake = [kk.wake EXCEPT ![t] = 0]
      /\ r.tick = kk.tick
  BY DEF Ended, Detached
<1>2. kk.timeouts \in Seq(Tasks) /\ NoRepeat(kk.timeouts)
  BY WaitsLists DEF Waits
<1>3. /\ r.timeouts \in Seq(Tasks)
      /\ \A u : Linked(r.timeouts, u) <=> Linked(kk.timeouts, u) /\ u # t
  BY <1>1, <1>2, ListDelLinked
<1>4. \A u \in Tasks : Linked(r.timeouts, u) => TimeLeft(r)[u] = TimeLeft(kk)[u]
  BY <1>1, <1>3, WaitsLists DEF TimeLeft
<1>5. Ascending(r.timeouts, TimeLeft(kk))
  BY <1>1, <1>2, AscendingDel DEF Deadlines
<1>6. Ascending(r.timeouts, TimeLeft(r))
  BY <1>3, <1>4, <1>5, AscendingSame
<1> QED BY <1>3, <1>4, <1>6 DEF Deadlines

LEMMA BegunDeadlines ==
    ASSUME NEW kk \in KernelType, Waits(kk), NEW r \in KernelType, NEW due, Deadlines(kk, due),
           kk.cur \in Tasks, kk.state[kk.cur] = "RUNNING",
           NEW waitState, NEW list, NEW d \in Delays \union {0},
           Begun(kk, r, waitState, list, d)
    PROVE  Deadlines(r, due)
<1> DEFINE t == kk.cur
           wake == [kk.wake EXCEPT ![t] = IF d = 0 THEN 0 ELSE TickAfter(kk.tick, d)]
           s == kk.timeouts
<1>1. /\ r.wake = wake /\ r.tick = kk.tick
      /\ r.timeouts = IF d = 0 THEN s ELSE TimeoutInsert(s, wake, t)
  BY DEF Begun
<1>2. s \in Seq(Tasks) /\ NoRepeat(s) /\ ~Linked(s, t)
  BY WaitsLists DEF Waits, Waiters
<1>3. \A u \in Tasks \ {t} : r.wake[u] = kk.wake[u]
  BY <1>1, WaitsLists
<1>4. CASE d = 0
  <2>1. /\ r.timeouts = kk.timeouts /\ r.tick = kk.tick
        /\ \A u \in Tasks : Linked(kk.timeouts, u) => r.wake[u] = kk.wake[u]
    BY <1>1, <1>2, <1>3, <1>4
  <2> HIDE DEF t, wake, s
  <2> QED BY <2>1, DeadlinesSame
<1>5. CASE d # 0
  <2>1. d \in 1 .. MaxTimeout
    BY <1>5, SchedulerAssumption
  <2>2. kk.tick \in Ticks /\ r.wake \in [Tasks -> Ticks]
    BY WaitsLists
  <2>3. r.wake[t] = TickAfter(kk.tick, d)
    BY <1>1, <1>5, WaitsLists
  <2>4. TimeLeft(r)[t] = d
    BY <1>1, <2>1, <2>2, <2>3, LeftAfter DEF TimeLeft
  <2>5. \A u \in Tasks : Linked(s, u) => TimeLeft(r)[u] = TimeLeft(kk)[u]
    BY <1>1, <1>2, <1>3 DEF TimeLeft
  <2>6. \A u \in Tasks : Linked(s, u) => TimeLeft(r)[u] <= MaxTimeout
    BY <2>5 DEF Deadlines
  <2> DEFINE i == TimeoutPosition(s, r.wake, t)
  <2>7. /\ i \in 1 .. Len(s) + 1
        /\ \A j \in 1 .. i - 1 : TickReached(r.wake[t], r.wake[s[j]])
        /\ i <= Len(s) => ~TickReached(r.wake[t], r.wake[s[i]])
    BY <1>2, TimeoutPositionFound
  <2>8. r.timeouts = InsertAt(s, i, t)
    BY <1>1, <1>5 DEF TimeoutInsert
  <2> HIDE DEF i
  <2>9. ASSUME NEW j \in 1 .. Len(s)
        PROVE  TickReached(r.wake[t], r.wake[s[j]]) <=> TimeLeft(r)[s[j]] <= TimeLeft(r)[t]
    <3>1. s[j] \in Tasks /\ Linked(s, s[j])
      BY <1>2, LenProperties, ElementOfSeq DEF Linked
    <3>2. r.wake[t] \in Ticks /\ r.wake[s[j]] \in Ticks
      BY <2>2, <3>1
    <3>3. /\ TimeLeft(r)[t] = Left(r.wake[t], kk.tick)
          /\ TimeLeft(r)[s[j]] = Left(r.wake[s[j]], kk.tick)
      BY <1>1, <3>1 DEF TimeLeft
    <3>4. TimeLeft(r)[t] <= MaxTimeout /\ TimeLeft(r)[s[j]] <= MaxTimeout
      BY <2>1, <2>4, <2>6, <3>1
    <3> QED BY <2>2, <3>2, <3>3, <3>4, ReachedOrder
  <2>10. Ascending(s, TimeLeft(r))
    BY <1>2, <2>5, AscendingSame DEF Deadlines
  <2>11. Ascending(r.timeouts, TimeLeft(r))
    <3>1. TimeLeft(r) \in [Tasks -> Int]
      BY TimeLeftType
    <3>2. Len(s) \in Nat
      BY <1>2, LenProperties
    <3>3. \A j \in 1 .. i - 1 : TimeLeft(r)[s[j]] <= TimeLeft(r)[t]
      BY <2>7, <2>9, <3>2
    <3>4. i <= Len(s) => TimeLeft(r)[t] <= TimeLeft(r)[s[i]]
      <4>1. ASSUME i <= Len(s) PROVE TimeLeft(r)[t] <= TimeLeft(r)[s[i]]
        <5>1. i \in 1 .. Len(s)
          BY <2>7, <3>2, <4>1
        <5>2. s[i] \in Tasks
          BY <1>2, <5>1, ElementOfSeq
        <5>3. ~(TimeLeft(r)[s[i]] <= TimeLeft(r)[t])
          BY <2>7, <2>9, <4>1, <5>1
        <5> QED BY <3>1, <5>2, <5>3
      <4> QED BY <4>1
    <3> QED BY <1>2, <2>7, <2>8, <2>10, <3>1, <3>3, <3>4, AscendingInsert
  <2>12. \A u : Linked(r.timeouts, u) <=> Linked(s, u) \/ u = t
    BY <1>1, <1>2, <1>5, TimeoutInsertLinked
  <2>13. ASSUME NEW u \in Tasks, Linked(r.timeouts, u)
         PROVE  TimeLeft(r)[u] <= MaxTimeout /\ (TimeLeft(r)[u] = 0 => due)
    <3>1. CASE u = t
      BY <2>1, <2>4, <3>1
    <3>2. CASE u # t
      BY <2>5, <2>12, <2>13, <3>2 DEF Deadlines
    <3> QED BY <3>1, <3>2
  <2> QED BY <2>11, <2>13 DEF Deadlines
<1> QED BY <1>4, <1>5

LEMMA DeadlinesNext ==
    ASSUME IInv, SwitchInv, Waits(k), Deadlines(k, inTick), IInv', [Next]_vars
    PROVE  Deadlines(k', inTick')
<1>1. k \in KernelType /\ k' \in KernelType /\ inTick \in BOOLEAN /\ inTick' \in BOOLEAN
  BY DEF IInv, TypeOK
<1>2. StepCause(k, k')
  BY NextCause
<1>3. CASE Quiet(k, k') /\ (inTick' => inTick) /\ (inTick /\ ~inTick' => ~TimeoutDue)
  <2>1. k'.timeouts = k.timeouts /\ k'.wake = k.wake /\ k'.tick = k.tick
    BY <1>3 DEF Quiet, SameWaiting
  <2>2. Deadlines(k', inTick)
    BY <1>1, <2>1, DeadlinesSame
  <2>3. CASE inTick' = inTick
    BY <2>2, <2>3
  <2>4. CASE ~inTick' /\ inTick
    <3>1. ASSUME NEW t \in Tasks, Linked(k'.timeouts, t), TimeLeft(k')[t] = 0
          PROVE  FALSE
      <4>1. k.timeouts # <<>>
        <5>1. k.timeouts \in Seq(Tasks) /\ Linked(k.timeouts, t)
          BY <1>1, <2>1, <3>1, WaitsLists
        <5> QED BY <5>1, FirstLinked
      <4> DEFINE h == Head(k.timeouts)
      <4>2. /\ h \in Tasks /\ TickReached(k.tick, k.wake[h]) <=> TimeLeft(k)[h] = 0
            /\ TimeLeft(k)[h] <= TimeLeft(k)[t]
        BY <1>1, <2>1, <3>1, <4>1, FirstDeadline
      <4>3. TimeLeft(k)[t] = 0
        BY <2>1, <3>1 DEF TimeLeft
      <4>4. TimeLeft(k)[h] = 0
        <5>1. h \in Tasks /\ TimeLeft(k)[h] <= 0
          BY <1>1, <2>1, <3>1, <4>1, <4>3, FirstDeadline
        <5>2. TimeLeft(k)[h] \in Nat
          BY <1>1, <5>1, TimeLeftType
        <5> QED BY <5>1, <5>2
      <4>5. TickReached(k.tick, k.wake[h])
        BY <1>1, <4>1, <4>4, FirstDeadline
      <4> QED BY <1>3, <2>4, <4>1, <4>5 DEF TimeoutDue
    <3> QED BY <2>2, <3>1 DEF Deadlines
  <2> QED BY <1>1, <1>3, <2>3, <2>4
<1>4. CASE Ticked(k, k') /\ ~inTick /\ inTick'
  <2>1. Deadlines(k, FALSE)
    BY <1>4 DEF Deadlines
  <2>2. Deadlines(k', TRUE)
    BY <1>1, <1>4, <2>1, TickedDeadlines
  <2> QED BY <1>4, <2>2 DEF Deadlines
<1>5. CASE inTick' = inTick /\ Begins(k, k')
  BY <1>1, <1>5, BegunDeadlines DEF Begins
<1>6. ASSUME inTick' = inTick, NEW t \in Tasks, Change(k, k', t) PROVE Deadlines(k', inTick')
  <2>1. CASE \E p \in Priorities : Made(k, k', t, p)
    <3>1. /\ k'.timeouts = k.timeouts /\ k'.wake = [k.wake EXCEPT ![t] = 0] /\ k'.tick = k.tick
          /\ k.state[t] = "STOP"
      BY <2>1 DEF Made
    <3>2. ~Linked(k.timeouts, t)
      BY <3>1 DEF Waits, Waiters
    <3>3. \A u \in Tasks : Linked(k.timeouts, u) => k'.wake[u] = k.wake[u]
      BY <1>1, <3>1, <3>2, WaitsLists
    <3> QED BY <1>1, <1>6, <3>1, <3>3, DeadlinesSame
  <2>2. CASE \E p \in Priorities : Moved(k, k', t, p)
    <3>1. k'.timeouts = k.timeouts /\ k'.wake = k.wake /\ k'.tick = k.tick
      BY <2>2 DEF Moved
    <3> QED BY <1>1, <1>6, <3>1, DeadlinesSame
  <2>3. CASE \E s, result : Ended(k, k', t, s, result)
    BY <1>1, <1>6, <2>3, EndedDeadlines
  <2> QED BY <1>6, <2>1, <2>2, <2>3 DEF Change, Woken, TimedOut, Suspended, Stopped
<1> QED BY <1>2, <1>3, <1>4, <1>5, <1>6 DEF StepCause

\* The order of the timeout list and how far its deadlines are ahead, in every
\* reachable state (task.c).
THEOREM DeadlinesInvariant == Spec => []Deadlines(k, inTick)
<1>1. ASSUME Init PROVE Deadlines(k, inTick)
  <2>1. k.timeouts = <<>>
    BY <1>1 DEF Init
  <2>2. \A u : ~Linked(<<>>, u)
    BY FirstLinked, EmptySeq
  <2>3. Ascending(<<>>, TimeLeft(k))
    BY DEF Ascending
  <2> QED BY <2>1, <2>2, <2>3 DEF Deadlines
<1>2. IInv /\ SwitchInv /\ Waits(k) /\ Deadlines(k, inTick) /\ IInv' /\ [Next]_vars
        => Deadlines(k, inTick)'
  BY DeadlinesNext
<1> QED BY <1>1, <1>2, InductiveInvariant, SwitchInvariant, WaitsInvariant, PTL DEF Spec

\* timeout_insert, aixos_task_tick: the timeout list is in the order of the
\* deadlines while ticks wrap, and none has passed but inside the tick interrupt.
THEOREM DeadlinesCorrect == Spec => []DeadlinesAhead
<1>1. ASSUME IInv, Deadlines(k, inTick) PROVE DeadlinesAhead
  <2>1. k \in KernelType
    BY <1>1 DEF IInv, TypeOK
  <2>2. \A i \in DOMAIN k.timeouts : k.timeouts[i] \in Tasks /\ Linked(k.timeouts, k.timeouts[i])
    BY <2>1, WaitsLists, LenProperties, ElementOfSeq DEF Linked
  <2>3. \A t \in Tasks : Remaining(t) = TimeLeft(k)[t]
    BY DEF Remaining, TimeLeft, Left
  <2> QED BY <1>1, <2>2, <2>3 DEF Deadlines, Ascending, DeadlinesAhead
<1> QED BY <1>1, InductiveInvariant, DeadlinesInvariant, PTL

\* aixos_task_sleep: a sleeping task is made ready when nothing of its sleep is
\* left, and not before.
THEOREM SleepIsExactCorrect == Spec => SleepIsExact
<1>1. ASSUME IInv, SwitchInv, Waits(k), Deadlines(k, inTick), [Next]_vars
      PROVE  \A t \in Tasks :
                k.state[t] = "DELAYED" /\ k'.state[t] = "READY" => Remaining(t) = 0
  <2>1. SUFFICES ASSUME NEW t \in Tasks, k.state[t] = "DELAYED", k'.state[t] = "READY"
                 PROVE  TimeLeft(k)[t] = 0
    BY DEF Remaining, TimeLeft, Left
  <2>2. StepCause(k, k') /\ k \in KernelType
    BY <1>1, NextCause DEF IInv, TypeOK
  <2>3. k.state \in [Tasks -> TaskStates]
    BY <2>2, WaitsLists
  <2>4. ~Quiet(k, k') /\ ~Ticked(k, k')
    BY <2>1 DEF Quiet, Ticked, Active
  <2>5. ~Begins(k, k')
    BY <2>1, <2>3 DEF Begins, Begun, Waiters
  <2>6. PICK u \in Tasks : Change(k, k', u)
    BY <2>2, <2>4, <2>5 DEF StepCause
  <2>7. \A p \in Priorities : ~Made(k, k', u, p) /\ ~Moved(k, k', u, p)
    BY <2>1, <2>3 DEF Made, Moved
  <2>8. ~Woken(k, k', u)
    <3>1. ASSUME Woken(k, k', u) PROVE FALSE
      <4>1. k'.state = [k.state EXCEPT ![u] = "READY"] /\ \E w \in WaitLists : Linked(k.waitq[w], u)
        BY <3>1 DEF Woken, Ended
      <4>2. u = t
        BY <2>1, <2>3, <4>1
      <4>3. k.state[u] = "BLOCKED"
        BY <1>1, <4>1, KernelAssumption DEF Waits
      <4> QED BY <2>1, <4>2, <4>3
    <3> QED BY <3>1
  <2>9. ~Suspended(k, k', u) /\ ~Stopped(k, k', u)
    BY <2>1, <2>3 DEF Suspended, Stopped, Ended
  <2>10. TimedOut(k, k', u)
    BY <2>6, <2>7, <2>8, <2>9 DEF Change
  <2>11. /\ u = t /\ k.timeouts # <<>> /\ t = Head(k.timeouts)
         /\ TickReached(k.tick, k.wake[t])
    BY <2>1, <2>3, <2>10 DEF TimedOut, Ended
  <2> QED BY <1>1, <2>2, <2>11, FirstDeadline
<1> QED BY <1>1, InductiveInvariant, SwitchInvariant, WaitsInvariant, DeadlinesInvariant, PTL
        DEF Spec, SleepIsExact

-----------------------------------------------------------------------------
(* The scheduler implements Waiting.                                       *)

\* WaitView, of the kernel data kk
Modes(kk) ==
    [t \in Tasks |->
        CASE kk.state[t] = "STOP" -> "off"
          [] kk.state[t] \in {"BLOCKED", "DELAYED"} -> "waiting"
          [] OTHER -> "active"]

Timed(kk) == [t \in Tasks |-> Linked(kk.timeouts, t)]

View(kk) == [mode |-> Modes(kk), on |-> kk.waitOn, timed |-> Timed(kk), result |-> kk.result]

LEMMA WaitViewIs == WaitView = View(k)
BY DEF WaitView, View, Modes, Timed

LEMMA ModesAre ==
    ASSUME NEW kk \in KernelType, NEW t \in Tasks
    PROVE  /\ Modes(kk)[t] = "off" <=> kk.state[t] = "STOP"
           /\ Modes(kk)[t] = "waiting" <=> kk.state[t] \in Waiters
           /\ Modes(kk)[t] = "active" <=> kk.state[t] \in Active
<1>1. kk.state[t] \in TaskStates
  BY WaitsLists
<1> QED BY <1>1 DEF Modes, Waiters, Active, TaskStates

LEMMA TimedType ==
    ASSUME NEW kk
    PROVE  /\ Timed(kk) \in [Tasks -> BOOLEAN]
           /\ \A t \in Tasks : Timed(kk)[t] <=> Linked(kk.timeouts, t)
BY DEF Timed, Linked

\* The view of kk, changed for t in all its fields
ViewWith(kk, t, a, b, c, d) ==
    [View(kk) EXCEPT !.mode[t] = a, !.on[t] = b, !.timed[t] = c, !.result[t] = d]

\* r differs so from kk.
FieldsWith(kk, r, t, a, b, c, d) ==
    /\ t \in Tasks /\ c \in BOOLEAN
    /\ Modes(r) = [Modes(kk) EXCEPT ![t] = a]
    /\ r.waitOn = [kk.waitOn EXCEPT ![t] = b]
    /\ Timed(r) = [Timed(kk) EXCEPT ![t] = c]
    /\ r.result = [kk.result EXCEPT ![t] = d]

LEMMA ViewUpdate ==
    ASSUME NEW kk, NEW r, NEW t, NEW a, NEW b, NEW c, NEW d,
           FieldsWith(kk, r, t, a, b, c, d)
    PROVE  View(r) = ViewWith(kk, t, a, b, c, d)
<1>0. t \in Tasks /\ c \in BOOLEAN
  BY DEF FieldsWith
<1> PICK mode : mode = Modes(kk)
  OBVIOUS
<1> PICK on : on = kk.waitOn
  OBVIOUS
<1> PICK timed \in [Tasks -> BOOLEAN] : timed = Timed(kk)
  BY TimedType, Zenon
<1> PICK result : result = kk.result
  OBVIOUS
<1> DEFINE v0 == View(kk)
           v1 == [v0 EXCEPT !.mode[t] = a]
           v2 == [v1 EXCEPT !.on[t] = b]
           v3 == [v2 EXCEPT !.timed[t] = c]
           v4 == [v3 EXCEPT !.result[t] = d]
<1>1. v0 = [mode |-> mode, on |-> on, timed |-> timed, result |-> result]
  BY Zenon DEF View
<1> HIDE DEF v0
<1>2. v1 = [mode |-> [mode EXCEPT ![t] = a], on |-> on, timed |-> timed, result |-> result]
  BY <1>1
<1> HIDE DEF v1
<1>3. v2 = [mode |-> [mode EXCEPT ![t] = a], on |-> [on EXCEPT ![t] = b],
            timed |-> timed, result |-> result]
  BY <1>2
<1> HIDE DEF v2
<1>4. v3 = [mode |-> [mode EXCEPT ![t] = a], on |-> [on EXCEPT ![t] = b],
            timed |-> [timed EXCEPT ![t] = c], result |-> result]
  BY <1>3, <1>0
<1> HIDE DEF v3
<1>5. v4 = [mode |-> [mode EXCEPT ![t] = a], on |-> [on EXCEPT ![t] = b],
            timed |-> [timed EXCEPT ![t] = c], result |-> [result EXCEPT ![t] = d]]
  BY <1>4
<1> HIDE DEF v4
<1>6. v4 = ViewWith(kk, t, a, b, c, d)
  BY Zenon DEF v0, v1, v2, v3, v4, ViewWith
<1>7. View(r) = [mode |-> [mode EXCEPT ![t] = a], on |-> [on EXCEPT ![t] = b],
                 timed |-> [timed EXCEPT ![t] = c], result |-> [result EXCEPT ![t] = d]]
  BY Zenon DEF View, FieldsWith
<1> QED BY <1>5, <1>6, <1>7, Zenon

LEMMA ViewSame ==
    ASSUME NEW kk \in KernelType, NEW r \in KernelType,
           r.waitOn = kk.waitOn, r.timeouts = kk.timeouts, r.result = kk.result,
           \A t \in Tasks : Modes(r)[t] = Modes(kk)[t]
    PROVE  View(r) = View(kk)
<1>1. Modes(r) = Modes(kk)
  BY DEF Modes
<1> QED BY <1>1 DEF View, Timed

\* The wait of t, if it has one, is over.
Unblocked(kk, r, t, s, m, res) ==
    /\ t \in Tasks
    /\ (s = "STOP" /\ m = "off") \/ (s \in {"READY", "SUSPENDED"} /\ m = "active")
    /\ r.state = [kk.state EXCEPT ![t] = s]
    /\ r.waitOn = [kk.waitOn EXCEPT ![t] = NoList]
    /\ r.result = [kk.result EXCEPT ![t] = res]
    /\ \A u \in Tasks : Linked(r.timeouts, u) <=> Linked(kk.timeouts, u) /\ u # t

LEMMA ViewUnblocked ==
    ASSUME NEW kk \in KernelType, NEW r \in KernelType, NEW t, NEW s, NEW m, NEW res,
           Unblocked(kk, r, t, s, m, res)
    PROVE  View(r) = Abstract!Unblock(View(kk), t, m, res)
<1>0. /\ t \in Tasks
      /\ (s = "STOP" /\ m = "off") \/ (s \in {"READY", "SUSPENDED"} /\ m = "active")
      /\ r.state = [kk.state EXCEPT ![t] = s]
      /\ r.waitOn = [kk.waitOn EXCEPT ![t] = NoList]
      /\ r.result = [kk.result EXCEPT ![t] = res]
      /\ \A u \in Tasks : Linked(r.timeouts, u) <=> Linked(kk.timeouts, u) /\ u # t
  BY DEF Unblocked
<1>1. Modes(r) = [Modes(kk) EXCEPT ![t] = m]
  <2>1. \A u \in Tasks \ {t} : r.state[u] = kk.state[u]
    BY <1>0, WaitsLists
  <2>2. r.state[t] = s
    BY <1>0, WaitsLists
  <2>3. Modes(r)[t] = m
    BY <1>0, <2>2 DEF Modes
  <2>4. \A u \in Tasks \ {t} : Modes(r)[u] = Modes(kk)[u]
    BY <2>1 DEF Modes
  <2> QED BY <1>0, <2>3, <2>4 DEF Modes
<1> PICK no \in BOOLEAN : no = FALSE
  OBVIOUS
<1>2. Timed(r) = [Timed(kk) EXCEPT ![t] = no]
  <2>1. Timed(r) \in [Tasks -> BOOLEAN] /\ Timed(kk) \in [Tasks -> BOOLEAN]
    BY TimedType
  <2>2. \A u \in Tasks : Timed(r)[u] = (Timed(kk)[u] /\ u # t)
    BY <1>0, TimedType
  <2> QED BY <1>0, <2>1, <2>2
<1>3. FieldsWith(kk, r, t, m, NoList, no, res)
  BY <1>0, <1>1, <1>2, Zenon DEF FieldsWith
<1>4. View(r) = ViewWith(kk, t, m, NoList, no, res)
  BY <1>3, ViewUpdate
<1> QED BY <1>4, Zenon DEF Abstract!Unblock, ViewWith

\* Detached takes t off the timeout list.
LEMMA ViewEnded ==
    ASSUME NEW kk \in KernelType, Waits(kk), NEW r \in KernelType, NEW t \in Tasks,
           NEW s \in {"READY", "SUSPENDED", "STOP"}, NEW m, NEW res, Ended(kk, r, t, s, res),
           m = IF s = "STOP" THEN "off" ELSE "active"
    PROVE  View(r) = Abstract!Unblock(View(kk), t, m, res)
<1>1. /\ r.state = [kk.state EXCEPT ![t] = s]
      /\ r.waitOn = [kk.waitOn EXCEPT ![t] = NoList]
      /\ r.result = [kk.result EXCEPT ![t] = res]
      /\ r.timeouts = ListDel(kk.timeouts, t)
  BY DEF Ended, Detached
<1>2. \A u \in Tasks : Linked(r.timeouts, u) <=> Linked(kk.timeouts, u) /\ u # t
  BY <1>1, WaitsLists, ListDelLinked DEF Waits
<1>3. Unblocked(kk, r, t, s, m, res)
  BY <1>1, <1>2 DEF Unblocked
<1> QED BY <1>3, ViewUnblocked

LEMMA ViewBegun ==
    ASSUME NEW kk \in KernelType, Waits(kk), NEW r \in KernelType, kk.cur \in Tasks,
           NEW waitState \in Waiters, NEW list, NEW d, Begun(kk, r, waitState, list, d),
           kk.state[kk.cur] = "RUNNING"
    PROVE  \E timed \in BOOLEAN : /\ timed <=> d # 0
                                  /\ View(r) = Abstract!BlockOn(View(kk), kk.cur, list, timed)
<1> DEFINE t == kk.cur
           wake == [kk.wake EXCEPT ![t] = IF d = 0 THEN 0 ELSE TickAfter(kk.tick, d)]
<1>1. /\ r.state = [kk.state EXCEPT ![t] = waitState]
      /\ r.waitOn = [kk.waitOn EXCEPT ![t] = list]
      /\ r.result = [kk.result EXCEPT ![t] = "OK"]
      /\ r.timeouts = IF d = 0 THEN kk.timeouts ELSE TimeoutInsert(kk.timeouts, wake, t)
  BY DEF Begun
<1> HIDE DEF wake
<1>2. ~Linked(kk.timeouts, t)
  BY DEF Waits, Waiters
<1>3. \A u \in Tasks : Linked(r.timeouts, u) <=> Linked(kk.timeouts, u) \/ (u = t /\ d # 0)
  BY <1>1, WaitsLists, TimeoutInsertLinked
<1>4. Modes(r) = [Modes(kk) EXCEPT ![t] = "waiting"]
  <2>1. \A u \in Tasks \ {t} : r.state[u] = kk.state[u]
    BY <1>1, WaitsLists
  <2>2. r.state[t] \in {"BLOCKED", "DELAYED"}
    BY <1>1, WaitsLists DEF Waiters
  <2>3. Modes(r)[t] = "waiting"
    BY <2>2 DEF Modes
  <2>4. \A u \in Tasks \ {t} : Modes(r)[u] = Modes(kk)[u]
    BY <2>1 DEF Modes
  <2> QED BY <2>3, <2>4 DEF Modes
<1> PICK timed \in BOOLEAN : timed = (d # 0)
  OBVIOUS
<1>5. Timed(r) = [Timed(kk) EXCEPT ![t] = timed]
  <2>1. Timed(r) \in [Tasks -> BOOLEAN] /\ Timed(kk) \in [Tasks -> BOOLEAN]
    BY TimedType
  <2>2. \A u \in Tasks \ {t} : Timed(r)[u] = Timed(kk)[u]
    BY <1>3, TimedType
  <2>3. Timed(r)[t] = timed
    BY <1>2, <1>3, TimedType
  <2> QED BY <2>1, <2>2, <2>3
<1>6. FieldsWith(kk, r, t, "waiting", list, timed, "OK")
  BY <1>1, <1>4, <1>5, Zenon DEF FieldsWith
<1>7. View(r) = ViewWith(kk, t, "waiting", list, timed, "OK")
  BY <1>6, ViewUpdate
<1> QED BY <1>7, Zenon DEF Abstract!BlockOn, ViewWith

LEMMA WaitStep ==
    ASSUME IInv, SwitchInv, Waits(k), IInv', [Next]_vars
    PROVE  [Abstract!WaitNext]_WaitView
<1>1. k \in KernelType /\ k' \in KernelType
  BY DEF IInv, TypeOK
<1>2. WaitView = View(k) /\ WaitView' = View(k')
  <2>1. WaitView' = View(k')
    BY DEF WaitView, View, Modes, Timed
  <2> QED BY <2>1, WaitViewIs
<1>3. View(k).mode = Modes(k) /\ View(k).on = k.waitOn /\ View(k).timed = Timed(k)
  BY DEF View
<1>4. StepCause(k, k')
  BY NextCause
<1>5. CASE Quiet(k, k') \/ Ticked(k, k') \/ \E t \in Tasks, p \in Priorities : Moved(k, k', t, p)
  <2>1. k'.waitOn = k.waitOn /\ k'.timeouts = k.timeouts /\ k'.result = k.result
    BY <1>5 DEF Quiet, Ticked, Moved, SameWaiting
  <2>2. \A t \in Tasks : Modes(k')[t] = Modes(k)[t]
    <3>1. \A t \in Tasks : k'.state[t] = k.state[t]
                           \/ (k.state[t] \in Active /\ k'.state[t] \in Active)
      BY <1>5 DEF Quiet, Ticked, Moved
    <3>2. ASSUME NEW t \in Tasks, k'.state[t] = k.state[t] PROVE Modes(k')[t] = Modes(k)[t]
      BY <3>2 DEF Modes
    <3>3. ASSUME NEW t \in Tasks, k.state[t] \in Active, k'.state[t] \in Active
          PROVE  Modes(k')[t] = Modes(k)[t]
      BY <1>1, <3>3, ModesAre
    <3> QED BY <3>1, <3>2, <3>3
  <2>3. View(k') = View(k)
    BY <1>1, <2>1, <2>2, ViewSame
  <2> QED BY <1>2, <2>3
<1>6. CASE Begins(k, k')
  <2>1. PICK waitState \in Waiters, list \in WaitLists \union {NoList}, d \in Delays \union {0} :
           /\ waitState = "BLOCKED" <=> list # NoList
           /\ waitState = "DELAYED" => d # 0
           /\ Begun(k, k', waitState, list, d)
    BY <1>6 DEF Begins
  <2>2. k.cur \in Tasks /\ k.state[k.cur] = "RUNNING"
    BY <1>6 DEF Begins
  <2>3. PICK timed \in BOOLEAN : /\ timed <=> d # 0
                                 /\ View(k') = Abstract!BlockOn(View(k), k.cur, list, timed)
    BY <1>1, <2>1, <2>2, ViewBegun
  <2>4. View(k).mode[k.cur] = "active"
    BY <1>1, <1>3, <2>2, ModesAre DEF Active
  <2>5. timed \/ list # NoList
    BY <2>1, <2>3 DEF Waiters
  <2>6. Abstract!Block(k.cur, list, timed)
    BY <1>2, <2>3, <2>4, <2>5 DEF Abstract!Block
  <2> QED BY <2>2, <2>6 DEF Abstract!WaitNext
<1>7. ASSUME NEW t \in Tasks, NEW p \in Priorities, Made(k, k', t, p)
      PROVE  Abstract!Created(t)
  <2>1. /\ k.state[t] = "STOP" /\ k'.state = [k.state EXCEPT ![t] = "READY"]
        /\ k'.waitOn = [k.waitOn EXCEPT ![t] = NoList]
        /\ k'.result = [k.result EXCEPT ![t] = "OK"] /\ k'.timeouts = k.timeouts
    BY <1>7 DEF Made
  <2>2. ~Linked(k.timeouts, t)
    BY <2>1 DEF Waits, Waiters
  <2>3. \A u \in Tasks : Linked(k'.timeouts, u) <=> Linked(k.timeouts, u) /\ u # t
    BY <2>1, <2>2
  <2>0. Unblocked(k, k', t, "READY", "active", "OK")
    BY <2>1, <2>3 DEF Unblocked
  <2>4. View(k') = Abstract!Unblock(View(k), t, "active", "OK")
    BY <1>1, <2>0, ViewUnblocked
  <2>5. View(k).mode[t] = "off"
    BY <1>1, <1>3, <2>1, ModesAre
  <2> QED BY <1>2, <2>4, <2>5 DEF Abstract!Created
<1>8. ASSUME NEW t \in Tasks, Woken(k, k', t) PROVE Abstract!WakeBy(t)
  <2>1. k.waitOn[t] # NoList /\ k.state[t] \in Waiters
    BY <1>8, KernelAssumption DEF Woken, Waits, Waiters
  <2>2. View(k') = Abstract!Unblock(View(k), t, "active", "OK")
    BY <1>1, <1>8, ViewEnded DEF Woken
  <2>3. View(k).mode[t] = "waiting" /\ View(k).on[t] # NoList
    BY <1>1, <1>3, <2>1, ModesAre
  <2> QED BY <1>2, <2>2, <2>3 DEF Abstract!WakeBy, Abstract!Wake
<1>9. ASSUME NEW t \in Tasks, TimedOut(k, k', t) PROVE Abstract!TimeOut(t)
  <2> DEFINE result == IF k.state[t] = "DELAYED" THEN "OK" ELSE "TIMEOUT"
  <2>1. Linked(k.timeouts, t) /\ Ended(k, k', t, "READY", result)
    BY <1>1, <1>9, WaitsLists, FirstLinked DEF TimedOut
  <2>2. k.state[t] \in Waiters
    BY <2>1 DEF Waits
  <2>3. View(k') = Abstract!Unblock(View(k), t, "active", result)
    BY <1>1, <2>1, ViewEnded
  <2>4. View(k).mode[t] = "waiting"
    BY <1>1, <1>3, <2>2, ModesAre
  <2>5. WaitView' = Abstract!Wake(WaitView, t, result)
    BY <1>2, <2>3, <2>4 DEF Abstract!Wake
  <2>6. result = "OK" => WaitView.on[t] = NoList
    <3>1. result = "OK" => k.state[t] = "DELAYED"
      OBVIOUS
    <3>2. k.state[t] = "DELAYED" => k.waitOn[t] = NoList
      BY DEF Waits
    <3> QED BY <1>2, <1>3, <3>1, <3>2
  <2>7. WaitView.timed[t]
    BY <1>2, <1>3, <2>1 DEF Timed
  <2>8. result = "OK" \/ result = "TIMEOUT"
    OBVIOUS
  <2> HIDE DEF result
  <2> QED BY <2>5, <2>6, <2>7, <2>8 DEF Abstract!TimeOut
<1>10. ASSUME NEW t \in Tasks, Suspended(k, k', t) PROVE Abstract!Interrupted(t)
  <2>1. View(k') = Abstract!Unblock(View(k), t, "active", "INTR")
    BY <1>1, <1>10, ViewEnded DEF Suspended
  <2>2. View(k).mode[t] = "waiting"
    BY <1>1, <1>3, <1>10, ModesAre DEF Suspended
  <2> QED BY <1>2, <2>1, <2>2 DEF Abstract!Interrupted, Abstract!Wake
<1>11. ASSUME NEW t \in Tasks, Stopped(k, k', t) PROVE Abstract!Deleted(t)
  <2>1. PICK result \in {"OK", "INTR"} : Ended(k, k', t, "STOP", result)
    BY <1>11 DEF Stopped
  <2>2. View(k') = Abstract!Unblock(View(k), t, "off", result)
    BY <1>1, <2>1, ViewEnded
  <2>3. View(k).mode[t] # "off"
    BY <1>1, <1>3, <1>11, ModesAre DEF Stopped
  <2> QED BY <1>2, <2>2, <2>3 DEF Abstract!Deleted
<1>12. ASSUME NEW t \in Tasks, Change(k, k', t) PROVE [Abstract!WaitNext]_WaitView
  BY <1>5, <1>7, <1>8, <1>9, <1>10, <1>11, <1>12 DEF Change, Abstract!WaitNext
<1> QED BY <1>4, <1>5, <1>6, <1>12 DEF StepCause

\* task.c: the scheduler, with its queues, priorities, interrupts and clock,
\* implements what the objects are built on: every wait is ended once, by one
\* cause, and the task learns which.
THEOREM WaitingImplemented == Spec => ImplementsWaiting
<1>1. ASSUME Init PROVE Abstract!WaitInit
  <2>1. /\ k.state = [t \in Tasks |-> "STOP"] /\ k.waitOn = [t \in Tasks |-> NoList]
        /\ k.timeouts = <<>> /\ k.result = [t \in Tasks |-> "OK"]
    BY <1>1 DEF Init
  <2>2. Modes(k) = [t \in Tasks |-> "off"]
    BY <2>1 DEF Modes
  <2>3. Timed(k) = [t \in Tasks |-> FALSE]
    <3>1. \A t \in Tasks : ~Linked(k.timeouts, t)
      <4>1. <<>> \in Seq(Tasks)
        OBVIOUS
      <4>2. \A u : ~Linked(<<>>, u)
        BY <4>1, FirstLinked
      <4> QED BY <2>1, <4>2
    <3>2. Timed(k) \in [Tasks -> BOOLEAN]
      BY TimedType
    <3>3. \A t \in Tasks : Timed(k)[t] = FALSE
      BY <3>1, <3>2, TimedType
    <3> QED BY <3>2, <3>3
  <2>4. View(k) = Abstract!AllOff
    BY <2>1, <2>2, <2>3 DEF View, Abstract!AllOff
  <2> QED BY <2>4, WaitViewIs DEF Abstract!WaitInit
<1>2. IInv /\ SwitchInv /\ Waits(k) /\ IInv' /\ [Next]_vars => [Abstract!WaitNext]_WaitView
  BY WaitStep
<1> QED BY <1>1, <1>2, InductiveInvariant, SwitchInvariant, WaitsInvariant, PTL
        DEF Spec, ImplementsWaiting, Abstract!WaitSpec

-----------------------------------------------------------------------------
(* The ready queues are first in, first out.                               *)

\* The tasks that are not in X keep their order on the queues from kk to r.
KeepsOrder(kk, r, X) ==
    \A p \in Priorities : \A a, b \in Tasks \ X :
        Ahead(kk.ready[p], a, b) => Ahead(r.ready[p], a, b)

LEMMA SameOrder ==
    ASSUME NEW kk, NEW r, NEW X, r.ready = kk.ready
    PROVE  KeepsOrder(kk, r, X)
BY DEF KeepsOrder

\* A new task goes behind the others, whoever they are.
LEMMA SchedAddOrder ==
    ASSUME NEW kk \in KernelType, NEW t \in Tasks, NEW X
    PROVE  KeepsOrder(kk, SchedAdd(kk, t), X)
<1> DEFINE q == kk.prio[t]
           v == SchedAdd(kk, t).ready
<1>1. q \in Priorities /\ kk.ready \in [Priorities -> Seq(Tasks)]
  BY DEF KernelType
<1>2. v = [kk.ready EXCEPT ![q] = Append(@, t)]
  BY DEF SchedAdd, KernelType
<1>3. \A p \in Priorities : v[p] = IF p = q THEN Append(kk.ready[q], t) ELSE kk.ready[p]
  BY <1>1, <1>2
<1> HIDE DEF q, v
<1>4. ASSUME NEW p \in Priorities, NEW a, NEW b, Ahead(kk.ready[p], a, b)
      PROVE  Ahead(v[p], a, b)
  <2>1. kk.ready[p] \in Seq(Tasks)
    BY <1>1
  <2>2. Ahead(Append(kk.ready[p], t), a, b)
    BY <1>4, <2>1, AheadAppend
  <2> QED BY <1>3, <1>4, <2>2
<1> QED BY <1>4 DEF KeepsOrder, v

\* What aixos_list_del does to the queues
LEMMA DequeueOrder ==
    ASSUME NEW kk \in KernelType, NEW t, NEW p
    PROVE  KeepsOrder(kk, Dequeue(kk, t, p), {t})
<1>1. kk.ready \in [Priorities -> Seq(Tasks)]
  BY DEF KernelType
<1>2. Dequeue(kk, t, p).ready = [q \in Priorities |-> ListDel(kk.ready[q], t)]
  BY DEF Dequeue, KernelType
<1>3. ASSUME NEW q \in Priorities, NEW a \in Tasks \ {t}, NEW b \in Tasks \ {t},
             Ahead(kk.ready[q], a, b)
      PROVE  Ahead(ListDel(kk.ready[q], t), a, b)
  <2>1. kk.ready[q] \in Seq(Tasks) /\ a # t /\ b # t
    BY <1>1
  <2> QED BY <1>3, <2>1, AheadDel
<1> QED BY <1>2, <1>3 DEF KeepsOrder

LEMMA SchedRemoveOrder ==
    ASSUME NEW kk \in KernelType, NEW t
    PROVE  KeepsOrder(kk, SchedRemove(kk, t), {t})
BY DequeueOrder, SameOrder DEF SchedRemove

\* aixos_sched_requeue_task, after the priority has been changed
LEMMA SchedRequeueOrder ==
    ASSUME NEW kk \in KernelType, NEW S, Queues(kk, S), NEW t \in Tasks, NEW p \in Priorities
    PROVE  KeepsOrder(kk, SchedRequeue([kk EXCEPT !.prio[t] = p], t, kk.prio[t]), {t})
<1> DEFINE m == [kk EXCEPT !.prio[t] = p]
           d == Dequeue(m, t, kk.prio[t])
<1>1. /\ m \in KernelType /\ m.ready = kk.ready /\ m.bitmap = kk.bitmap
      /\ \A u \in Tasks \ {t} : m.prio[u] = kk.prio[u]
  BY DEF KernelType
<1> HIDE DEF m
<1>2. d \in KernelType
  BY <1>1, DequeueQueues
<1>3. KeepsOrder(m, d, {t})
  BY <1>1, DequeueOrder
<1> HIDE DEF d
<1>4. KeepsOrder(d, SchedAdd(d, t), {t})
  BY <1>2, SchedAddOrder
<1>5. KeepsOrder(kk, SchedAdd(d, t), {t}) /\ KeepsOrder(kk, m, {t})
  BY <1>1, <1>3, <1>4 DEF KeepsOrder
<1>6. SchedRequeue(m, t, kk.prio[t]) = IF OnReadyQueue(m, t) THEN SchedAdd(d, t) ELSE m
  BY DEF SchedRequeue, d
<1> QED BY <1>5, <1>6 DEF m

LEMMA RotateCurrentOrder ==
    ASSUME NEW kk \in KernelType, kk.cur \in Tasks
    PROVE  KeepsOrder(kk, RotateCurrent(kk), {kk.cur})
<1> DEFINE t == kk.cur
           q == kk.prio[t]
           v == [kk.ready EXCEPT ![q] = Append(ListDel(@, t), t)]
<1>1. q \in Priorities /\ kk.ready \in [Priorities -> Seq(Tasks)]
  BY DEF KernelType
<1>2. RotateCurrent(kk).ready = v \/ RotateCurrent(kk).ready = kk.ready
  BY DEF RotateCurrent, KernelType
<1>3. \A p \in Priorities :
         v[p] = IF p = q THEN Append(ListDel(kk.ready[q], t), t) ELSE kk.ready[p]
  BY <1>1
<1> HIDE DEF q, v
<1>4. ASSUME NEW p \in Priorities, NEW a \in Tasks \ {t}, NEW b \in Tasks \ {t},
             Ahead(kk.ready[p], a, b)
      PROVE  Ahead(v[p], a, b)
  <2>1. kk.ready[p] \in Seq(Tasks) /\ a # t /\ b # t
    BY <1>1
  <2>2. Ahead(ListDel(kk.ready[p], t), a, b) /\ ListDel(kk.ready[p], t) \in Seq(Tasks)
    BY <1>4, <2>1, AheadDel, ListDelLinked
  <2>3. Ahead(Append(ListDel(kk.ready[p], t), t), a, b)
    BY <2>2, AheadAppend
  <2> QED BY <1>3, <1>4, <2>3
<1> QED BY <1>2, <1>4 DEF KeepsOrder

\* The end of a wait adds a task to a queue.
LEMMA TaskWakeOrder ==
    ASSUME NEW kk, KInv(kk), NEW t \in Tasks, NEW result \in Results, NEW X
    PROVE  KeepsOrder(kk, TaskWake(kk, t, result), X)
<1> DEFINE d == Detach(kk, t, result)
           s == [d EXCEPT !.state[t] = "READY"]
           m == SchedAdd(s, t)
<1>1. d \in KernelType /\ d.ready = kk.ready
  BY DetachEffect DEF KInv, SameQueues
<1> HIDE DEF d
<1>2. s \in KernelType /\ s.ready = kk.ready
  BY <1>1 DEF KernelType, TaskStates
<1> HIDE DEF s
<1>3. KeepsOrder(kk, m, X)
  BY <1>2, SchedAddOrder DEF KeepsOrder
<1>4. m.ready = RequestPreemption(m).ready
  <2>1. m \in KernelType
    <3> DEFINE q == s.prio[t]
               v == [s.ready EXCEPT ![q] = Append(@, t)]
               b == s.bitmap \union {q}
    <3>1. q \in Priorities /\ s.ready \in [Priorities -> Seq(Tasks)]
          /\ s.bitmap \in SUBSET Priorities
      BY <1>2 DEF KernelType
    <3>2. v \in [Priorities -> Seq(Tasks)] /\ b \in SUBSET Priorities
      BY <3>1, AppendLinked
    <3>3. m = [s EXCEPT !.ready = v, !.bitmap = b]
      BY <1>2 DEF SchedAdd, KernelType
    <3> HIDE DEF v, b, m
    <3> QED BY <1>2, <3>2, <3>3 DEF KernelType
  <2> HIDE DEF m
  <2> QED BY <2>1 DEF RequestPreemption, RescheduleRequest, KernelType
<1>5. TaskWake(kk, t, result) = RequestPreemption(m) \/ TaskWake(kk, t, result) = kk
  BY DEF TaskWake, MakeReady, m, s, d
<1> QED BY <1>3, <1>4, <1>5, SameOrder DEF KeepsOrder

LEMMA KeepsOrderSame ==
    ASSUME NEW kk, NEW m, NEW r, NEW X, KeepsOrder(kk, m, X), r.ready = m.ready
    PROVE  KeepsOrder(kk, r, X)
BY DEF KeepsOrder

\* A task loses its place only by a call that ends its readiness or that sets
\* its priority, and the current task loses its own.
Passed(kk, r) ==
    \/ KeepsOrder(kk, r, {kk.cur})
    \/ \E t \in Tasks : /\ KeepsOrder(kk, r, {t})
                        /\ r.state[t] # "READY" \/ \E p \in Priorities : SetPriority(t, p)

LEMMA TaskDeleteOrder ==
    ASSUME IInv, NEW t \in UserTasks, TaskDelete(t)
    PROVE  KeepsOrder(k, k', {t}) /\ k'.state[t] # "READY"
<1> DEFINE a == SchedRemove(k, t)
           s == [Detach(a, t, "INTR") EXCEPT !.state[t] = "STOP"]
<1>1. KInv(k) /\ t \in Tasks
  BY CallingInv DEF TaskDelete, UserTasks
<1>2. a \in KernelType /\ KeepsOrder(k, a, {t})
  BY <1>1, SchedRemoveQueues, SchedRemoveOrder DEF KInv
<1> HIDE DEF a
<1>3. Detach(a, t, "INTR") \in KernelType /\ Detach(a, t, "INTR").ready = a.ready
  BY <1>1, <1>2, DetachEffect DEF Results, SameQueues
<1>4. s \in KernelType /\ s.ready = a.ready
  BY <1>3 DEF KernelType, TaskStates
<1>5. k' = IF t = k.cur THEN RescheduleRequest(s)
           ELSE [s EXCEPT !.prio[t] = 0, !.result[t] = "OK", !.slice[t] = SliceTicks]
  BY DEF TaskDelete, s, a
<1> HIDE DEF s
<1>6. k'.ready = s.ready
  BY <1>4, <1>5 DEF KernelType, RescheduleRequest
<1>7. k'.state[t] = "STOP"
  <2>1. k.state \in [Tasks -> TaskStates]
    BY <1>1 DEF KInv, KernelType
  <2> QED BY <1>1, <2>1, TaskDeleteEffect DEF Ended
<1> QED BY <1>2, <1>4, <1>6, <1>7, KeepsOrderSame

LEMMA TaskSuspendOrder ==
    ASSUME IInv, NEW t \in UserTasks, TaskSuspend(t)
    PROVE  KeepsOrder(k, k', {t}) /\ k'.state[t] # "READY"
<1> DEFINE a == SchedRemove(k, t)
           d == IF k.state[t] \in {"BLOCKED", "DELAYED"} THEN Detach(a, t, "INTR") ELSE a
           s == [d EXCEPT !.state[t] = "SUSPENDED"]
<1>1. KInv(k) /\ t \in Tasks
  BY CallingInv DEF TaskSuspend, Call, UserTasks
<1>2. a \in KernelType /\ KeepsOrder(k, a, {t})
  BY <1>1, SchedRemoveQueues, SchedRemoveOrder DEF KInv
<1> HIDE DEF a
<1>3. d \in KernelType /\ d.ready = a.ready
  BY <1>1, <1>2, DetachEffect DEF Results, SameQueues
<1>4. k' = IF t = k.cur THEN RescheduleRequest(s) ELSE s
  BY DEF TaskSuspend, Call, a
<1> HIDE DEF d
<1>5. s \in KernelType /\ s.ready = d.ready
  BY <1>3 DEF KernelType, TaskStates
<1> HIDE DEF s
<1>6. k'.ready = s.ready
  BY <1>4, <1>5 DEF KernelType, RescheduleRequest
<1>7. k'.state[t] = "SUSPENDED"
  <2>1. k.state \in [Tasks -> TaskStates]
    BY <1>1 DEF KInv, KernelType
  <2> QED BY <1>1, <2>1, TaskSuspendEffect
<1> QED BY <1>2, <1>3, <1>5, <1>6, <1>7, KeepsOrderSame

LEMMA BlockOrder ==
    ASSUME IInv, NEW waitState \in {"BLOCKED", "DELAYED"},
           NEW list \in WaitLists \union {NoList}, NEW d \in Delays \union {0},
           Call(BlockCurrent(k, waitState, list, d))
    PROVE  KeepsOrder(k, k', {k.cur})
<1> DEFINE a == SchedRemove(k, k.cur)
           b == BeginWait(k, waitState, list, d)
<1>1. KInv(k) /\ k' = RescheduleRequest(b) /\ k.cur \in Tasks
  BY CallingInv DEF Call, BlockCurrent, KInv
<1>2. d \in Nat /\ waitState \in TaskStates
  BY SchedulerAssumption DEF TaskStates
<1>3. a \in KernelType /\ KeepsOrder(k, a, {k.cur})
  BY <1>1, SchedRemoveQueues, SchedRemoveOrder DEF KInv
<1>4. b \in KernelType
  BY <1>1, <1>2, BeginWaitQueues DEF KInv
<1>5. b.ready = a.ready
  <2> HIDE DEF a
  <2>1. a = SchedRemove(k, k.cur)
    BY DEF a
  <2> QED BY <1>3, <2>1 DEF BeginWait, KernelType
<1> HIDE DEF a, b
<1>6. k'.ready = b.ready
  BY <1>1, <1>4 DEF KernelType, RescheduleRequest
<1> QED BY <1>3, <1>5, <1>6, KeepsOrderSame

LEMMA SetPriorityOrder ==
    ASSUME IInv, NEW t \in UserTasks, NEW p \in NewPriorities, SetPriority(t, p)
    PROVE  KeepsOrder(k, k', {t})
<1> DEFINE q == SchedRequeue([k EXCEPT !.prio[t] = p], t, k.prio[t])
           w == WaiterPriorityChanged(q, t)
<1>1. KInv(k) /\ k' = RequestPreemption(w) /\ t \in Tasks /\ p \in Priorities
  BY CallingInv, SchedulerAssumption DEF SetPriority, Call, UserTasks
<1>2. q \in KernelType /\ KeepsOrder(k, q, {t})
  BY <1>1, SchedRequeueQueues, SchedRequeueOrder DEF KInv
<1> HIDE DEF q
<1>3. w \in KernelType /\ w = [q EXCEPT !.waitq = w.waitq]
  BY <1>1, <1>2, WaiterPriorityChangedType
<1> HIDE DEF w
<1>4. w.ready = q.ready
  BY <1>2, <1>3 DEF KernelType
<1>5. k'.ready = w.ready
  BY <1>1, <1>3 DEF KernelType, RequestPreemption, RescheduleRequest
<1> QED BY <1>2, <1>4, <1>5, KeepsOrderSame

LEMMA RotateOrder ==
    ASSUME IInv, TaskYield \/ TickEnd
    PROVE  KeepsOrder(k, k', {k.cur})
<1>1. KInv(k) /\ k.cur \in Tasks
  BY CallingInv, HandlerInv DEF TaskYield, Call, TickEnd, KInv
<1>2. ASSUME NEW s \in KernelType, s.ready = k.ready, SameQueues(k, s), s.cur = k.cur, s.prio = k.prio
      PROVE  /\ RotateCurrent(s) \in KernelType
             /\ KeepsOrder(k, RescheduleRequest(RotateCurrent(s)), {k.cur})
             /\ RescheduleRequest(RotateCurrent(s)) \in KernelType
  <2> DEFINE r == RotateCurrent(s)
  <2>1. Queues(s, RunnableTasks(k))
    BY <1>1, <1>2, QueuesSame DEF KInv, SameQueues
  <2>2. r \in KernelType /\ KeepsOrder(s, r, {k.cur})
    BY <1>1, <1>2, <2>1, RotateCurrentQueues, RotateCurrentOrder
  <2> HIDE DEF r
  <2>3. RescheduleRequest(r).ready = r.ready /\ RescheduleRequest(r) \in KernelType
    BY <2>2, RescheduleRequestType DEF KernelType, RescheduleRequest
  <2>4. KeepsOrder(k, RescheduleRequest(r), {k.cur})
    BY <1>2, <2>2, <2>3 DEF KeepsOrder
  <2> QED BY <2>2, <2>3, <2>4 DEF r
<1>3. CASE TaskYield
  <2>1. k' = RescheduleRequest(RotateCurrent(k)) /\ SameQueues(k, k)
    BY <1>3 DEF TaskYield, Call, SameQueues
  <2> QED BY <1>1, <1>2, <2>1 DEF KInv
<1>4. CASE TickEnd
  <2> DEFINE s == [k EXCEPT !.slice[k.cur] = SliceTicks]
             r == IF k.slice[k.cur] = 0 THEN RescheduleRequest(RotateCurrent(s)) ELSE k
  <2>1. SliceTicks \in 0 .. SliceTicks
    BY KernelAssumption
  <2>2. s \in KernelType /\ s.ready = k.ready /\ SameQueues(k, s) /\ s.cur = k.cur /\ s.prio = k.prio
    BY <1>1, <2>1 DEF KInv, KernelType, SameQueues
  <2>3. k' = IsrExit(r)
    BY <1>4 DEF TickEnd
  <2> HIDE DEF s
  <2>4. r \in KernelType /\ KeepsOrder(k, r, {k.cur})
    BY <1>1, <1>2, <2>2, SameOrder DEF KInv
  <2> HIDE DEF r
  <2>5. k'.ready = r.ready
    BY <2>3, <2>4, IsrExitEffect DEF SameQueues
  <2> QED BY <2>4, <2>5, KeepsOrderSame
<1> QED BY <1>3, <1>4

LEMMA CreateOrder ==
    ASSUME IInv
    PROVE  /\ \A t \in UserTasks, p \in UserPriorities :
                 TaskCreate(t, p) => KeepsOrder(k, k', {k.cur})
           /\ \A t \in UserTasks : TaskResume(t) => KeepsOrder(k, k', {k.cur})
           /\ StartTask => KeepsOrder(k, k', {k.cur})
<1>1. k \in KernelType /\ boot \in Seq(Tasks)
  BY DEF IInv, TypeOK
<1>2. ASSUME NEW t \in UserTasks, NEW p \in UserPriorities, TaskCreate(t, p)
      PROVE  KeepsOrder(k, k', {k.cur})
  <2> DEFINE n == NewTask(k, t, p)
  <2>1. t \in Tasks /\ p \in Priorities /\ SliceTicks \in 0 .. SliceTicks /\ 0 \in Ticks
    BY SchedulerAssumption, KernelAssumption, ClockAssumption DEF UserTasks, Ticks
  <2>2. n \in KernelType /\ n.ready = k.ready
    BY <1>1, <2>1 DEF NewTask, KernelType, TaskStates, Results
  <2>3. k' = SchedAdd(n, t)
    BY <1>2 DEF TaskCreate, Call
  <2> HIDE DEF n
  <2>4. KeepsOrder(n, k', {k.cur})
    BY <2>1, <2>2, <2>3, SchedAddOrder
  <2> QED BY <2>2, <2>4 DEF KeepsOrder
<1>3. ASSUME NEW t \in UserTasks, TaskResume(t) PROVE KeepsOrder(k, k', {k.cur})
  <2> DEFINE s == [k EXCEPT !.state[t] = "READY"]
             m == SchedAdd(s, t)
  <2>1. t \in Tasks /\ k' = RequestPreemption(m) /\ KInv(k) /\ k.state[t] = "SUSPENDED"
    BY <1>3, CallingInv DEF TaskResume, Call, MakeReady, UserTasks
  <2>2. s \in KernelType /\ s.ready = k.ready
    BY <1>1, <2>1 DEF KernelType, TaskStates
  <2>3. m \in KernelType
    <3>1. t \notin RunnableTasks(k) /\ m = MakeReady(k, t)
      BY <2>1 DEF RunnableTasks, Runnable, MakeReady
    <3> QED BY <1>1, <2>1, <3>1, MakeReadyQueues DEF KInv
  <2> HIDE DEF s
  <2>4. KeepsOrder(s, m, {k.cur})
    BY <2>1, <2>2, SchedAddOrder
  <2> HIDE DEF m
  <2>5. k'.ready = m.ready
    BY <2>1, <2>3 DEF KernelType, RequestPreemption, RescheduleRequest
  <2> QED BY <2>2, <2>4, <2>5 DEF KeepsOrder
<1>4. ASSUME StartTask PROVE KeepsOrder(k, k', {k.cur})
  <2>1. Head(boot) \in Tasks /\ k' = SchedAdd(k, Head(boot))
    BY <1>1, <1>4, FirstLinked DEF StartTask
  <2> QED BY <1>1, <2>1, SchedAddOrder
<1> QED BY <1>2, <1>3, <1>4

LEMMA WakesOrder ==
    ASSUME IInv
    PROVE  /\ \A w \in WaitLists :
                 TaskSignal(w) \/ InterruptSignal(w) => KeepsOrder(k, k', {k.cur})
           /\ TickExpire => KeepsOrder(k, k', {k.cur})
<1>1. ASSUME NEW w \in WaitLists, TaskSignal(w) \/ InterruptSignal(w)
      PROVE  KeepsOrder(k, k', {k.cur})
  <2>1. KInv(k) /\ k.waitq[w] # <<>> /\ k' = TaskWake(k, Head(k.waitq[w]), "OK")
    <3>1. KInv(k)
      <4>1. CASE TaskSignal(w)
        BY <4>1, CallingInv DEF TaskSignal, Call
      <4>2. CASE InterruptSignal(w)
        BY <4>2, HandlerInv DEF InterruptSignal, Handler
      <4> QED BY <1>1, <4>1, <4>2
    <3> QED BY <1>1, <3>1 DEF TaskSignal, Call, InterruptSignal, WakeFirst
  <2>2. k.waitq[w] \in Seq(Tasks)
    BY <2>1 DEF KInv, KernelType
  <2> QED BY <2>1, <2>2, FirstLinked, TaskWakeOrder DEF Results
<1>2. ASSUME TickExpire PROVE KeepsOrder(k, k', {k.cur})
  <2> DEFINE t == Head(k.timeouts)
             result == IF k.state[t] = "DELAYED" THEN "OK" ELSE "TIMEOUT"
  <2>1. KInv(k) /\ k.timeouts # <<>> /\ k' = TaskWake(k, t, result)
    BY <1>2, HandlerInv DEF TickExpire, TimeoutDue
  <2>2. k.timeouts \in Seq(Tasks) /\ result \in Results
    BY <2>1 DEF KInv, KernelType, Results
  <2> HIDE DEF result
  <2> QED BY <2>1, <2>2, FirstLinked, TaskWakeOrder
<1> QED BY <1>1, <1>2

LEMMA OrderStep ==
    ASSUME IInv, [Next]_vars
    PROVE  Passed(k, k')
<1>1. k \in KernelType
  BY DEF IInv, TypeOK
<1>2. UserTasks \subseteq Tasks /\ UserPriorities \subseteq Priorities
      /\ NewPriorities \subseteq Priorities
  BY SchedulerAssumption DEF UserTasks
<1>3. ASSUME k'.ready = k.ready PROVE Passed(k, k')
  BY <1>3, SameOrder DEF Passed
<1>4. CASE Start
  <2>1. ASSUME NEW t, NEW p, k' = NewTask(k, t, p) PROVE k'.ready = k.ready
    BY <1>1, <2>1 DEF NewTask, KernelType
  <2>2. StartFirst => k'.ready = k.ready
    BY <1>1 DEF StartFirst, Schedule, KernelType
  <2> QED BY <1>3, <1>4, <2>1, <2>2, CreateOrder DEF Start, BootCreate, StartIdle, Passed
<1>5. CASE Application
  <2>1. ASSUME NEW t \in UserTasks, TaskDelete(t) \/ TaskSuspend(t) PROVE Passed(k, k')
    BY <1>2, <2>1, TaskDeleteOrder, TaskSuspendOrder DEF Passed
  <2>2. ASSUME NEW t \in UserTasks, NEW p \in NewPriorities, SetPriority(t, p)
        PROVE  Passed(k, k')
    BY <1>2, <2>2, SetPriorityOrder DEF Passed
  <2>3. ASSUME NEW d \in Delays, TaskSleep(d) PROVE Passed(k, k')
    BY <2>3, BlockOrder DEF TaskSleep, Passed
  <2>4. ASSUME NEW w \in WaitLists, NEW d \in Delays \union {0}, TaskWait(w, d)
        PROVE  Passed(k, k')
    BY <2>4, BlockOrder DEF TaskWait, Passed
  <2>5. ASSUME SchedLock \/ SchedUnlock PROVE Passed(k, k')
    BY <1>3, <2>5, LockEffect DEF SameQueues
  <2>6. ASSUME TaskYield PROVE Passed(k, k')
    BY <2>6, RotateOrder DEF Passed
  <2> QED BY <1>5, <2>1, <2>2, <2>3, <2>4, <2>5, <2>6, CreateOrder, WakesOrder
          DEF Application, Passed
<1>6. CASE SwitchNow
  BY <1>3, <1>6, LockEffect DEF SameQueues
<1>7. CASE Interrupts
  <2>1. ASSUME InterruptEnter \/ TickStart PROVE k'.ready = k.ready
    BY <1>1, <2>1 DEF InterruptEnter, TickStart, IsrEnter, KernelType
  <2>2. ASSUME InterruptExit PROVE k'.ready = k.ready
    BY <1>1, <2>2, IsrExitEffect DEF InterruptExit, SameQueues
  <2> QED BY <1>3, <1>7, <2>1, <2>2, RotateOrder, WakesOrder DEF Interrupts, Passed
<1>8. CASE ContextSwitch
  BY <1>3, <1>8, ContextSwitchEffect
<1>9. CASE UNCHANGED vars
  BY <1>3, <1>9 DEF vars
<1> QED BY <1>4, <1>5, <1>6, <1>7, <1>8, <1>9 DEF Next

\* sched.c: whatever tasks, handlers and the tick do, two tasks that stay ready
\* at one priority run in the order in which they became ready.
THEOREM ReadyIsFifoCorrect == Spec => ReadyIsFifo
<1>1. ASSUME IInv, [Next]_vars, NEW a \in Tasks \ {k.cur}, NEW b \in Tasks \ {k.cur},
             Before(k, a, b), k'.state[a] = "READY", k'.state[b] = "READY"
      PROVE  Before(k', a, b) \/ \E t \in {a, b}, p \in Priorities : SetPriority(t, p)
  <2>1. PICK p \in Priorities : Ahead(k.ready[p], a, b)
    BY <1>1 DEF Before, Ahead
  <2>2. Passed(k, k')
    BY <1>1, OrderStep
  <2>3. ASSUME NEW X, KeepsOrder(k, k', X), a \notin X, b \notin X PROVE Before(k', a, b)
    BY <2>1, <2>3 DEF KeepsOrder, Before, Ahead
  <2>4. CASE KeepsOrder(k, k', {k.cur})
    BY <2>3, <2>4
  <2>5. ASSUME NEW t \in Tasks, KeepsOrder(k, k', {t}),
               k'.state[t] # "READY" \/ \E q \in Priorities : SetPriority(t, q)
        PROVE  Before(k', a, b) \/ \E u \in {a, b}, q \in Priorities : SetPriority(u, q)
    <3>1. CASE t \in {a, b}
      BY <1>1, <2>5, <3>1
    <3>2. CASE t \notin {a, b}
      BY <2>3, <2>5, <3>2
    <3> QED BY <3>1, <3>2
  <2> QED BY <2>2, <2>4, <2>5 DEF Passed
<1>2. IInv /\ [Next]_vars => 
         [\A a, b \in Tasks \ {k.cur} :
            /\ Before(k, a, b)
            /\ k.state[a] = "READY" /\ k'.state[a] = "READY"
            /\ k.state[b] = "READY" /\ k'.state[b] = "READY"
            => \/ Before(k', a, b)
               \/ \E t \in {a, b}, p \in Priorities : SetPriority(t, p)]_vars
  BY <1>1
<1> QED BY <1>2, InductiveInvariant, PTL DEF Spec, ReadyIsFifo


-----------------------------------------------------------------------------
(* Software timers.                                                        *)

\* What the callback of a timer may be about
Callbacks == {App} \union PosixPool

TimerRecord ==
    [live : BOOLEAN, gen : Nat, type : {"ONESHOT", "PERIODIC"}, callback : Callbacks,
     interval : 0 .. MaxTimeout, deadline : Ticks, active : BOOLEAN, pending : BOOLEAN]

\* How long the deadlines d are away
TicksLeft(d, now) == [i \in Pool |-> Left(d[i], now)]

\* A list of the timers S in the order of their deadlines d, none of which is
\* reached.
Sorted(now, d, list, S) ==
    /\ list \in Seq(Pool) /\ NoRepeat(list)
    /\ \A i : Linked(list, i) <=> i \in S
    /\ \A i \in S : TicksLeft(d, now)[i] \in 1 .. MaxTimeout
    /\ Ascending(list, TicksLeft(d, now))

ActiveOf(tt) == {i \in Pool : tt[i].active}

ActiveExact(now, tt, list) ==
    /\ Sorted(now, DeadlinesOf(tt), list, ActiveOf(tt))
    /\ \A i \in ActiveOf(tt) : tt[i].interval \in 1 .. MaxTimeout

PendingExact(tt, list) ==
    /\ list \in Seq(Pool) /\ NoRepeat(list)
    /\ \A i : Linked(list, i) <=> i \in Pool /\ tt[i].pending

\* Only a timer that exists is in a list.
OnlyLive(tt) == \A i \in Pool : tt[i].active \/ tt[i].pending => tt[i].live

Timers(now, tt, activeList, pendingList) ==
    /\ tt \in [Pool -> TimerRecord] /\ now \in Ticks
    /\ ActiveExact(now, tt, activeList) /\ PendingExact(tt, pendingList) /\ OnlyLive(tt)

LEMMA PositiveProduct ==
    ASSUME NEW a \in Nat \ {0}, NEW b \in Nat \ {0}
    PROVE  a * b \in Nat \ {0}
OBVIOUS

LEMMA PositiveQuotient ==
    ASSUME NEW a \in Nat, NEW b \in Nat \ {0}, a >= b
    PROVE  a \div b \in Nat \ {0}
OBVIOUS

\* What is asked for in milliseconds is at least one tick, and none too many.
LEMMA MsToTicksIs ==
    ASSUME NEW ms \in Nat \ {0}
    PROVE  MsToTicks(ms) \in 1 .. MaxTimeout
<1> DEFINE x == ms * TickHz
           y == (x + 1000 - 1) \div 1000
<1>1. x \in Nat \ {0}
  BY PositiveProduct, TimerAssumption
<1> HIDE DEF x
<1>2. y \in Nat \ {0}
  BY <1>1
<1>3. MsToTicks(ms) = IF y > MaxTimeout THEN MaxTimeout ELSE y
  BY DEF MsToTicks, CeilingDiv, x
<1> HIDE DEF y
<1> QED BY <1>2, <1>3, MaxTimeoutIs

LEMMA TicksToMsIs ==
    ASSUME NEW ticks \in Nat \ {0}
    PROVE  TicksToMs(ticks) \in Nat \ {0}
<1> DEFINE x == ticks * 1000
           y == x + TickHz - 1
<1>1. x \in Nat \ {0} /\ TickHz \in Nat \ {0}
  BY TimerAssumption
<1> HIDE DEF x
<1>2. y \in Nat /\ y >= TickHz
  BY <1>1
<1>3. TicksToMs(ticks) = y \div TickHz
  BY DEF TicksToMs, CeilingDiv, x
<1> HIDE DEF y
<1> QED BY <1>1, <1>2, <1>3, PositiveQuotient

\* One timer is given a new record.
Replaced(tt, v, i, r) ==
    /\ v \in [Pool -> TimerRecord] /\ v[i] = r
    /\ \A u \in Pool \ {i} : v[u] = tt[u]

LEMMA ReplacedIs ==
    ASSUME NEW tt \in [Pool -> TimerRecord], NEW i \in Pool, NEW r \in TimerRecord,
           NEW v, v = [tt EXCEPT ![i] = r]
    PROVE  Replaced(tt, v, i, r)
BY DEF Replaced

\* One field of one timer is changed.
LEMMA IntervalSet ==
    ASSUME NEW tt \in [Pool -> TimerRecord], NEW i \in Pool, NEW x \in 0 .. MaxTimeout,
           NEW v, v = [tt EXCEPT ![i].interval = x]
    PROVE  /\ v \in [Pool -> TimerRecord] /\ \A u \in Pool \ {i} : v[u] = tt[u]
           /\ v[i] = [tt[i] EXCEPT !.interval = x]
BY DEF TimerRecord

LEMMA DeadlineSet ==
    ASSUME NEW tt \in [Pool -> TimerRecord], NEW i \in Pool, NEW x \in Ticks,
           NEW v, v = [tt EXCEPT ![i].deadline = x]
    PROVE  /\ v \in [Pool -> TimerRecord] /\ \A u \in Pool \ {i} : v[u] = tt[u]
           /\ v[i] = [tt[i] EXCEPT !.deadline = x]
BY DEF TimerRecord

LEMMA ActiveSet ==
    ASSUME NEW tt \in [Pool -> TimerRecord], NEW i \in Pool, NEW x \in BOOLEAN,
           NEW v, v = [tt EXCEPT ![i].active = x]
    PROVE  /\ v \in [Pool -> TimerRecord] /\ \A u \in Pool \ {i} : v[u] = tt[u]
           /\ v[i] = [tt[i] EXCEPT !.active = x]
BY DEF TimerRecord

LEMMA PendingSet ==
    ASSUME NEW tt \in [Pool -> TimerRecord], NEW i \in Pool, NEW x \in BOOLEAN,
           NEW v, v = [tt EXCEPT ![i].pending = x]
    PROVE  /\ v \in [Pool -> TimerRecord] /\ \A u \in Pool \ {i} : v[u] = tt[u]
           /\ v[i] = [tt[i] EXCEPT !.pending = x]
BY DEF TimerRecord

\* What stays of a timer that is started or stopped
SameTimer(r, s) ==
    r.live = s.live /\ r.gen = s.gen /\ r.type = s.type /\ r.callback = s.callback

\* aixos_timer_start
TimerStarted(tt, v, i, ms) ==
    /\ v \in [Pool -> TimerRecord] /\ \A u \in Pool \ {i} : v[u] = tt[u]
    /\ v[i].interval = MsToTicks(ms) /\ v[i].active
    /\ v[i].deadline = TickAfter(tick, MsToTicks(ms))
    /\ SameTimer(v[i], tt[i]) /\ v[i].pending = tt[i].pending

\* aixos_timer_stop, but for the pending flag
TimerStopped(tt, v, i) ==
    /\ v \in [Pool -> TimerRecord] /\ \A u \in Pool \ {i} : v[u] = tt[u]
    /\ ~v[i].active /\ SameTimer(v[i], tt[i]) /\ v[i].pending = tt[i].pending

\* An expiry that has been served or cancelled
TimerServed(tt, v, i) ==
    /\ v \in [Pool -> TimerRecord] /\ \A u \in Pool \ {i} : v[u] = tt[u]
    /\ ~v[i].pending /\ v[i].interval = tt[i].interval
    /\ v[i].deadline = tt[i].deadline /\ v[i].active = tt[i].active
    /\ SameTimer(v[i], tt[i])

LEMMA RunningIs ==
    ASSUME NEW tt \in [Pool -> TimerRecord], NEW h, h.slot \in Pool, NEW ms \in Nat \ {0},
           tick \in Ticks
    PROVE  TimerStarted(tt, Running(tt, h, ms), h.slot, ms)
<1> DEFINE i == h.slot
           v == Running(tt, h, ms)
           x == MsToTicks(ms)
           d == TickAfter(tick, x)
           v1 == [tt EXCEPT ![i].interval = x]
           v2 == [v1 EXCEPT ![i].deadline = d]
           on == TRUE
           v3 == [v2 EXCEPT ![i].active = on]
<1>1. x \in 0 .. MaxTimeout /\ x \in Nat
  BY MsToTicksIs, MaxTimeoutIs
<1>2. d \in Ticks
  BY <1>1, TickAfterType
<1>3. v3 = v /\ i \in Pool
  BY Zenon DEF Running
<1>9. on \in BOOLEAN
  OBVIOUS
<1> HIDE DEF i, x, d, on
<1>4. /\ v1 \in [Pool -> TimerRecord] /\ \A u \in Pool \ {i} : v1[u] = tt[u]
      /\ v1[i] = [tt[i] EXCEPT !.interval = x]
  BY <1>1, <1>3, IntervalSet
<1> HIDE DEF v1
<1>5. /\ v2 \in [Pool -> TimerRecord] /\ \A u \in Pool \ {i} : v2[u] = v1[u]
      /\ v2[i] = [v1[i] EXCEPT !.deadline = d]
  BY <1>2, <1>3, <1>4, DeadlineSet
<1> HIDE DEF v2
<1>6. /\ v3 \in [Pool -> TimerRecord] /\ \A u \in Pool \ {i} : v3[u] = v2[u]
      /\ v3[i] = [v2[i] EXCEPT !.active = on]
  BY <1>3, <1>5, <1>9, ActiveSet
<1> HIDE DEF v3
<1>7. tt[i] \in TimerRecord /\ v1[i] \in TimerRecord /\ v2[i] \in TimerRecord
  BY <1>3, <1>4, <1>5
<1>8. /\ v3[i].interval = x /\ v3[i].active /\ v3[i].deadline = d
      /\ v3[i].live = tt[i].live /\ v3[i].gen = tt[i].gen
      /\ v3[i].type = tt[i].type /\ v3[i].callback = tt[i].callback
      /\ v3[i].pending = tt[i].pending
  BY <1>4, <1>5, <1>6, <1>7 DEF TimerRecord, on
<1>10. /\ v3 \in [Pool -> TimerRecord] /\ \A u \in Pool \ {i} : v3[u] = tt[u]
       /\ x = MsToTicks(ms) /\ d = TickAfter(tick, MsToTicks(ms))
  BY <1>4, <1>5, <1>6 DEF x, d
<1>11. TimerStarted(tt, v3, i, ms)
  BY <1>8, <1>10 DEF TimerStarted, SameTimer
<1> QED BY <1>3, <1>11 DEF i, v

LEMMA DisarmedIs ==
    ASSUME NEW tt \in [Pool -> TimerRecord], NEW h, h.slot \in Pool
    PROVE  TimerStopped(tt, Disarmed(tt, h), h.slot)
<1> DEFINE i == h.slot
           v == Disarmed(tt, h)
           v1 == [tt EXCEPT ![i].interval = 0]
           v2 == [v1 EXCEPT ![i].deadline = 0]
           on == FALSE
           v3 == [v2 EXCEPT ![i].active = on]
<1>1. 0 \in 0 .. MaxTimeout /\ 0 \in Ticks
  BY MaxTimeoutIs, ClockAssumption DEF Ticks
<1>3. v3 = v /\ i \in Pool
  BY Zenon DEF Disarmed
<1>9. on \in BOOLEAN
  OBVIOUS
<1> HIDE DEF i, on
<1>4. /\ v1 \in [Pool -> TimerRecord] /\ \A u \in Pool \ {i} : v1[u] = tt[u]
      /\ v1[i] = [tt[i] EXCEPT !.interval = 0]
  BY <1>1, <1>3, IntervalSet
<1> HIDE DEF v1
<1>5. /\ v2 \in [Pool -> TimerRecord] /\ \A u \in Pool \ {i} : v2[u] = v1[u]
      /\ v2[i] = [v1[i] EXCEPT !.deadline = 0]
  BY <1>1, <1>3, <1>4, DeadlineSet
<1> HIDE DEF v2
<1>6. /\ v3 \in [Pool -> TimerRecord] /\ \A u \in Pool \ {i} : v3[u] = v2[u]
      /\ v3[i] = [v2[i] EXCEPT !.active = on]
  BY <1>3, <1>5, <1>9, ActiveSet
<1> HIDE DEF v3
<1>7. tt[i] \in TimerRecord /\ v1[i] \in TimerRecord /\ v2[i] \in TimerRecord
  BY <1>3, <1>4, <1>5
<1>8. /\ ~v3[i].active
      /\ v3[i].live = tt[i].live /\ v3[i].gen = tt[i].gen
      /\ v3[i].type = tt[i].type /\ v3[i].callback = tt[i].callback
      /\ v3[i].pending = tt[i].pending
  BY <1>4, <1>5, <1>6, <1>7 DEF TimerRecord, on
<1>10. v3 \in [Pool -> TimerRecord] /\ \A u \in Pool \ {i} : v3[u] = tt[u]
  BY <1>4, <1>5, <1>6
<1>11. TimerStopped(tt, v3, i)
  BY <1>8, <1>10 DEF TimerStopped, SameTimer
<1> QED BY <1>3, <1>11 DEF i, v

LEMMA ServedIs ==
    ASSUME NEW tt \in [Pool -> TimerRecord], NEW i \in Pool
    PROVE  TimerServed(tt, [tt EXCEPT ![i].pending = FALSE], i)
<1> DEFINE v1 == [tt EXCEPT ![i].pending = FALSE]
<1>0. FALSE \in BOOLEAN
  OBVIOUS
<1>1. /\ v1 \in [Pool -> TimerRecord] /\ \A u \in Pool \ {i} : v1[u] = tt[u]
      /\ v1[i] = [tt[i] EXCEPT !.pending = FALSE]
  BY DEF TimerRecord
<1>2. tt[i] \in TimerRecord
  OBVIOUS
<1> HIDE DEF v1
<1>3. /\ ~v1[i].pending /\ v1[i].interval = tt[i].interval
      /\ v1[i].deadline = tt[i].deadline /\ v1[i].active = tt[i].active
      /\ SameTimer(v1[i], tt[i])
  BY <1>1, <1>2 DEF TimerRecord, SameTimer
<1>4. TimerServed(tt, v1, i)
  BY <1>1, <1>3 DEF TimerServed
<1> QED BY <1>4 DEF v1

-----------------------------------------------------------------------------
(* The lists.                                                              *)

LEMMA AscendingSameIn ==
    ASSUME NEW D, NEW s \in Seq(D), NEW f, NEW g, Ascending(s, f),
           \A u \in D : Linked(s, u) => g[u] = f[u]
    PROVE  Ascending(s, g)
<1>1. \A i \in DOMAIN s : s[i] \in D /\ Linked(s, s[i])
  BY LenProperties, ElementOfSeq DEF Linked
<1> QED BY <1>1 DEF Ascending

\* Deadlines of other timers change.
LEMMA SortedSame ==
    ASSUME NEW now, NEW d, NEW e, NEW list, NEW S \in SUBSET Pool, Sorted(now, d, list, S),
           \A u \in S : e[u] = d[u]
    PROVE  Sorted(now, e, list, S)
<1>1. \A u \in S : TicksLeft(e, now)[u] = TicksLeft(d, now)[u]
  BY DEF TicksLeft
<1>2. Ascending(list, TicksLeft(e, now))
  BY <1>1, AscendingSameIn DEF Sorted
<1> QED BY <1>1, <1>2 DEF Sorted

LEMMA SortedDel ==
    ASSUME NEW now, NEW d, NEW list, NEW S \in SUBSET Pool, Sorted(now, d, list, S), NEW t
    PROVE  Sorted(now, d, ListDel(list, t), S \ {t})
<1>1. /\ ListDel(list, t) \in Seq(Pool) /\ NoRepeat(ListDel(list, t))
      /\ \A u : Linked(ListDel(list, t), u) <=> Linked(list, u) /\ u # t
  BY ListDelIn DEF Sorted
<1>2. Ascending(ListDel(list, t), TicksLeft(d, now))
  BY AscendingDelIn DEF Sorted
<1> QED BY <1>1, <1>2 DEF Sorted

LEMMA SortedInsert ==
    ASSUME NEW now \in Ticks, NEW d \in [Pool -> Ticks], NEW list, NEW S \in SUBSET Pool,
           Sorted(now, d, list, S), NEW t \in Pool \ S, TicksLeft(d, now)[t] \in 1 .. MaxTimeout
    PROVE  Sorted(now, d, TimeoutInsert(list, d, t), S \union {t})
<1> DEFINE f == TicksLeft(d, now)
           i == TimeoutPosition(list, d, t)
           r == TimeoutInsert(list, d, t)
<1>1. /\ list \in Seq(Pool) /\ NoRepeat(list) /\ Ascending(list, f)
      /\ \A u : Linked(list, u) <=> u \in S
      /\ \A u \in S : f[u] \in 1 .. MaxTimeout
  BY DEF Sorted
<1>2. /\ r \in Seq(Pool) /\ NoRepeat(r)
      /\ \A u : Linked(r, u) <=> Linked(list, u) \/ u = t
  BY <1>1, TimeoutInsertLinkedIn
<1>3. /\ i \in 1 .. Len(list) + 1
      /\ \A j \in 1 .. i - 1 : TickReached(d[t], d[list[j]])
      /\ i <= Len(list) => ~TickReached(d[t], d[list[i]])
  BY <1>1, TimeoutPositionFoundIn
<1>4. f \in [Pool -> Int] /\ \A u \in Pool : f[u] = Left(d[u], now) /\ f[u] \in Int
  <2>1. \A u \in Pool : Left(d[u], now) \in Ticks
    BY LeftIs
  <2> QED BY <2>1 DEF TicksLeft, Ticks
<1>5. Len(list) \in Nat /\ \A j \in 1 .. Len(list) : list[j] \in S
  <2>1. Len(list) \in Nat /\ DOMAIN list = 1 .. Len(list)
    BY <1>1, LenProperties
  <2> QED BY <1>1, <2>1 DEF Linked
<1>6. f[t] \in 1 .. MaxTimeout
  OBVIOUS
<1>7. ASSUME NEW u \in S PROVE TickReached(d[t], d[u]) <=> f[u] <= f[t]
  <2>1. d[t] \in Ticks /\ d[u] \in Ticks /\ u \in Pool
    OBVIOUS
  <2>2. Left(d[t], now) <= MaxTimeout /\ Left(d[u], now) <= MaxTimeout
    BY <1>1, <1>4, <1>6, <2>1
  <2> QED BY <1>4, <2>1, <2>2, ReachedOrder
<1> HIDE DEF f, i
<1>8. \A j \in 1 .. i - 1 : f[list[j]] <= f[t]
  BY <1>3, <1>5, <1>7
<1>9. i <= Len(list) => f[t] <= f[list[i]]
  <2> SUFFICES ASSUME i <= Len(list) PROVE f[t] <= f[list[i]]
    OBVIOUS
  <2>1. list[i] \in S /\ ~TickReached(d[t], d[list[i]])
    BY <1>3, <1>5
  <2>2. ~(f[list[i]] <= f[t])
    BY <1>7, <2>1
  <2>3. f[t] \in Int /\ f[list[i]] \in Int
    BY <1>4, <2>1
  <2> QED BY <2>2, <2>3
<1>10. Ascending(r, f)
  BY <1>1, <1>3, <1>4, <1>8, <1>9, AscendingInsertIn DEF TimeoutInsert, i
<1> QED BY <1>1, <1>2, <1>6, <1>10 DEF Sorted, f

\* What a timer was asked for is of no use to the lists once it does not run.
LEMMA ActiveSame ==
    ASSUME NEW now, NEW tt, NEW v, NEW list, ActiveExact(now, tt, list),
           \A i \in Pool : /\ v[i].active = tt[i].active
                           /\ tt[i].active => v[i].deadline = tt[i].deadline
                                              /\ v[i].interval = tt[i].interval
    PROVE  ActiveExact(now, v, list)
<1>1. ActiveOf(v) = ActiveOf(tt) /\ ActiveOf(tt) \in SUBSET Pool
  BY DEF ActiveOf
<1>2. \A i \in ActiveOf(tt) : /\ DeadlinesOf(v)[i] = DeadlinesOf(tt)[i]
                              /\ v[i].interval = tt[i].interval
  BY DEF ActiveOf, DeadlinesOf
<1> QED BY <1>1, <1>2, SortedSame DEF ActiveExact

\* The timer i has stopped.
LEMMA ActiveDel ==
    ASSUME NEW now, NEW tt, NEW v, NEW list, ActiveExact(now, tt, list), NEW i \in Pool,
           ~v[i].active, \A u \in Pool \ {i} : v[u] = tt[u]
    PROVE  ActiveExact(now, v, ListDel(list, i))
<1>1. ActiveOf(v) = ActiveOf(tt) \ {i} /\ ActiveOf(tt) \in SUBSET Pool
  BY DEF ActiveOf
<1>2. Sorted(now, DeadlinesOf(tt), ListDel(list, i), ActiveOf(v))
  BY <1>1, SortedDel DEF ActiveExact
<1>3. \A u \in ActiveOf(v) : DeadlinesOf(v)[u] = DeadlinesOf(tt)[u] /\ v[u] = tt[u]
  BY <1>1 DEF ActiveOf, DeadlinesOf
<1>4. ActiveOf(v) \in SUBSET Pool
  BY DEF ActiveOf
<1>5. Sorted(now, DeadlinesOf(v), ListDel(list, i), ActiveOf(v))
  BY <1>2, <1>3, <1>4, SortedSame
<1> QED BY <1>1, <1>3, <1>5 DEF ActiveExact

\* The timer i has been started or restarted.
LEMMA ActiveStart ==
    ASSUME NEW now \in Ticks, NEW tt, NEW v \in [Pool -> TimerRecord], NEW list,
           ActiveExact(now, tt, list), NEW i \in Pool,
           v[i].active, v[i].interval \in 1 .. MaxTimeout,
           v[i].deadline = TickAfter(now, v[i].interval),
           \A u \in Pool \ {i} : v[u] = tt[u]
    PROVE  ActiveExact(now, v, TimeoutInsert(ListDel(list, i), DeadlinesOf(v), i))
<1> DEFINE S == ActiveOf(tt) \ {i}
           d == DeadlinesOf(v)
<1>1. ActiveOf(v) = S \union {i} /\ S \in SUBSET Pool /\ ActiveOf(tt) \in SUBSET Pool
  BY DEF ActiveOf
<1>2. Sorted(now, DeadlinesOf(tt), ListDel(list, i), S)
  BY <1>1, SortedDel DEF ActiveExact
<1>3. \A u \in S : d[u] = DeadlinesOf(tt)[u] /\ v[u] = tt[u]
  BY <1>1 DEF DeadlinesOf
<1>4. Sorted(now, d, ListDel(list, i), S)
  BY <1>1, <1>2, <1>3, SortedSame
<1>5. d \in [Pool -> Ticks] /\ d[i] = v[i].deadline
  BY DEF DeadlinesOf, TimerRecord
<1>6. TicksLeft(d, now)[i] \in 1 .. MaxTimeout
  BY <1>5, LeftAfter DEF TicksLeft
<1>7. Sorted(now, d, TimeoutInsert(ListDel(list, i), d, i), S \union {i})
  BY <1>1, <1>4, <1>5, <1>6, SortedInsert
<1>8. \A u \in ActiveOf(v) : v[u].interval \in 1 .. MaxTimeout
  BY <1>1, <1>3 DEF ActiveExact
<1> QED BY <1>1, <1>7, <1>8 DEF ActiveExact

LEMMA PendingSame ==
    ASSUME NEW tt, NEW v, NEW list, PendingExact(tt, list),
           \A i \in Pool : v[i].pending = tt[i].pending
    PROVE  PendingExact(v, list)
BY DEF PendingExact

\* The expiry of the timer i has been cancelled.
LEMMA PendingDel ==
    ASSUME NEW tt, NEW v, NEW list, PendingExact(tt, list), NEW i \in Pool,
           ~v[i].pending, \A u \in Pool \ {i} : v[u].pending = tt[u].pending
    PROVE  PendingExact(v, ListDel(list, i))
<1>1. /\ ListDel(list, i) \in Seq(Pool) /\ NoRepeat(ListDel(list, i))
      /\ \A u : Linked(ListDel(list, i), u) <=> Linked(list, u) /\ u # i
  BY ListDelIn DEF PendingExact
<1> QED BY <1>1 DEF PendingExact

-----------------------------------------------------------------------------
(* The calls.                                                              *)

TimersNow == Timers(tick, timer, active, pending)
TimersNext == Timers(tick, timer', active', pending')

LEMMA StartKeeps ==
    ASSUME TimersNow, NEW h, h.slot \in Pool, timer[h.slot].live, NEW ms \in Nat \ {0},
           TimerStart(h, ms)
    PROVE  /\ TimersNext
           /\ \A u \in Pool : /\ SameTimer(timer'[u], timer[u])
                              /\ u # h.slot => timer'[u] = timer[u]
           /\ timer'[h.slot].active
           /\ timer'[h.slot].deadline = TickAfter(tick, MsToTicks(ms))
           /\ timer'[h.slot].pending = timer[h.slot].pending
<1> DEFINE i == h.slot
<1>0. i \in Pool /\ timer[i].live /\ timer \in [Pool -> TimerRecord] /\ tick \in Ticks
  BY DEF TimersNow, Timers
<1>1. /\ timer' = Running(timer, h, ms) /\ pending' = pending
      /\ active' = TimeoutInsert(ListDel(active, i), DeadlinesOf(timer'), i)
  BY DEF TimerStart
<1>9. TimerStarted(timer, timer', i, ms)
  BY <1>0, <1>1, RunningIs
<1>2. /\ timer' \in [Pool -> TimerRecord] /\ \A u \in Pool \ {i} : timer'[u] = timer[u]
      /\ timer'[i].interval = MsToTicks(ms) /\ timer'[i].active
      /\ timer'[i].deadline = TickAfter(tick, MsToTicks(ms))
      /\ SameTimer(timer'[i], timer[i])
      /\ timer'[i].pending = timer[i].pending
  BY <1>9 DEF TimerStarted
<1>3. MsToTicks(ms) \in 1 .. MaxTimeout
  BY MsToTicksIs
<1> HIDE DEF i
<1>4. ActiveExact(tick, timer', active')
  BY <1>0, <1>1, <1>2, <1>3, ActiveStart DEF TimersNow, Timers
<1>5. \A u \in Pool : timer'[u].pending = timer[u].pending
  BY <1>2
<1>6. PendingExact(timer', pending')
  BY <1>1, <1>5, PendingSame DEF TimersNow, Timers
<1>7. OnlyLive(timer')
  BY <1>0, <1>2 DEF TimersNow, Timers, OnlyLive, SameTimer
<1>8. TimersNext
  BY <1>0, <1>2, <1>4, <1>6, <1>7 DEF TimersNext, Timers
<1>10. \A u \in Pool : SameTimer(timer'[u], timer[u])
  BY <1>2 DEF SameTimer
<1> QED BY <1>2, <1>8, <1>10 DEF i

LEMMA RestartKeeps ==
    ASSUME TimersNow, NEW h, h.slot \in Pool, timer[h.slot].live, NEW ms \in Nat \ {0},
           TimerRestart(h, ms)
    PROVE  /\ TimersNext
           /\ \A u \in Pool : /\ SameTimer(timer'[u], timer[u])
                              /\ u # h.slot => timer'[u] = timer[u]
           /\ timer'[h.slot].active
           /\ timer'[h.slot].deadline = TickAfter(tick, MsToTicks(ms))
           /\ ~timer'[h.slot].pending
<1> DEFINE i == h.slot
           v == [timer EXCEPT ![i].pending = FALSE]
<1>0. i \in Pool /\ timer[i].live /\ timer \in [Pool -> TimerRecord] /\ tick \in Ticks
  BY DEF TimersNow, Timers
<1>1. /\ timer' = Running(v, h, ms) /\ pending' = ListDel(pending, i)
      /\ active' = TimeoutInsert(ListDel(active, i), DeadlinesOf(timer'), i)
  BY DEF TimerRestart
<1>8. TimerServed(timer, v, i)
  BY <1>0, ServedIs
<1> HIDE DEF v
<1>9. /\ v \in [Pool -> TimerRecord] /\ \A u \in Pool \ {i} : v[u] = timer[u]
      /\ ~v[i].pending /\ SameTimer(v[i], timer[i])
  BY <1>8 DEF TimerServed
<1>11. TimerStarted(v, timer', i, ms)
  BY <1>0, <1>1, <1>9, RunningIs
<1>2. /\ timer' \in [Pool -> TimerRecord] /\ \A u \in Pool \ {i} : timer'[u] = v[u]
      /\ timer'[i].interval = MsToTicks(ms) /\ timer'[i].active
      /\ timer'[i].deadline = TickAfter(tick, MsToTicks(ms))
      /\ SameTimer(timer'[i], v[i]) /\ timer'[i].pending = v[i].pending
  BY <1>11 DEF TimerStarted
<1>3. MsToTicks(ms) \in 1 .. MaxTimeout
  BY MsToTicksIs
<1> HIDE DEF i
<1>10. \A u \in Pool \ {i} : timer'[u] = timer[u]
  BY <1>2, <1>9
<1>4. ActiveExact(tick, timer', active')
  BY <1>0, <1>1, <1>2, <1>3, <1>10, ActiveStart DEF TimersNow, Timers
<1>6. PendingExact(timer', pending')
  BY <1>0, <1>1, <1>2, <1>9, <1>10, PendingDel DEF TimersNow, Timers
<1>7. OnlyLive(timer')
  BY <1>0, <1>2, <1>9, <1>10 DEF TimersNow, Timers, OnlyLive, SameTimer
<1>12. TimersNext
  BY <1>0, <1>2, <1>4, <1>6, <1>7 DEF TimersNext, Timers
<1>13. \A u \in Pool : SameTimer(timer'[u], timer[u])
  BY <1>2, <1>9, <1>10 DEF SameTimer
<1> QED BY <1>2, <1>9, <1>10, <1>12, <1>13 DEF i

LEMMA StopKeeps ==
    ASSUME TimersNow, NEW h, h.slot \in Pool, TimerStop(h)
    PROVE  /\ TimersNext
           /\ \A u \in Pool : /\ SameTimer(timer'[u], timer[u])
                              /\ u # h.slot => timer'[u] = timer[u]
           /\ ~timer'[h.slot].active
<1> DEFINE i == h.slot
           v == [timer EXCEPT ![i].pending = FALSE]
<1>0. i \in Pool /\ timer \in [Pool -> TimerRecord] /\ tick \in Ticks
  BY DEF TimersNow, Timers
<1>1. /\ timer' = Disarmed(v, h) /\ pending' = ListDel(pending, i)
      /\ active' = ListDel(active, i)
  BY DEF TimerStop
<1>8. TimerServed(timer, v, i)
  BY <1>0, ServedIs
<1> HIDE DEF v
<1>9. /\ v \in [Pool -> TimerRecord] /\ \A u \in Pool \ {i} : v[u] = timer[u]
      /\ ~v[i].pending /\ SameTimer(v[i], timer[i])
  BY <1>8 DEF TimerServed
<1>11. TimerStopped(v, timer', i)
  BY <1>0, <1>1, <1>9, DisarmedIs
<1>2. /\ timer' \in [Pool -> TimerRecord] /\ \A u \in Pool \ {i} : timer'[u] = v[u]
      /\ ~timer'[i].active
      /\ SameTimer(timer'[i], v[i]) /\ timer'[i].pending = v[i].pending
  BY <1>11 DEF TimerStopped
<1> HIDE DEF i
<1>10. \A u \in Pool \ {i} : timer'[u] = timer[u]
  BY <1>2, <1>9
<1>4. ActiveExact(tick, timer', active')
  BY <1>0, <1>1, <1>2, <1>10, ActiveDel DEF TimersNow, Timers
<1>6. PendingExact(timer', pending')
  BY <1>0, <1>1, <1>2, <1>9, <1>10, PendingDel DEF TimersNow, Timers
<1>7. OnlyLive(timer')
  BY <1>0, <1>2, <1>9, <1>10 DEF TimersNow, Timers, OnlyLive, SameTimer
<1>12. TimersNext
  BY <1>0, <1>2, <1>4, <1>6, <1>7 DEF TimersNext, Timers
<1>13. \A u \in Pool : SameTimer(timer'[u], timer[u])
  BY <1>2, <1>9, <1>10 DEF SameTimer
<1> QED BY <1>2, <1>10, <1>12, <1>13 DEF i

\* A record without a timer
LEMMA EmptyIs ==
    ASSUME NEW gen \in Nat
    PROVE  /\ EmptyTimer(gen) \in TimerRecord /\ EmptyTimer(gen).gen = gen
           /\ ~EmptyTimer(gen).live /\ ~EmptyTimer(gen).active /\ ~EmptyTimer(gen).pending
<1>1. 0 \in 0 .. MaxTimeout /\ 0 \in Ticks /\ App \in Callbacks
  BY MaxTimeoutIs, ClockAssumption DEF Ticks, Callbacks
<1> QED BY <1>1 DEF EmptyTimer, TimerRecord

LEMMA DeleteKeeps ==
    ASSUME TimersNow, NEW h, h.slot \in Pool, h.gen \in Nat, TimerDelete(h)
    PROVE  /\ TimersNext
           /\ \A u \in Pool \ {h.slot} : timer'[u] = timer[u]
           /\ ~timer'[h.slot].live /\ timer'[h.slot].gen = h.gen
<1> DEFINE i == h.slot
           e == EmptyTimer(h.gen)
<1>0. i \in Pool /\ timer \in [Pool -> TimerRecord] /\ tick \in Ticks
  BY DEF TimersNow, Timers
<1>1. /\ timer' = [timer EXCEPT ![i] = e] /\ pending' = ListDel(pending, i)
      /\ active' = ListDel(active, i)
  BY DEF TimerDelete
<1>2. e \in TimerRecord /\ e.gen = h.gen /\ ~e.live /\ ~e.active /\ ~e.pending
  BY EmptyIs
<1> HIDE DEF e, i
<1>3. /\ timer' \in [Pool -> TimerRecord] /\ timer'[i] = e
      /\ \A u \in Pool \ {i} : timer'[u] = timer[u]
  BY <1>0, <1>1, <1>2
<1>4. ActiveExact(tick, timer', active')
  BY <1>0, <1>1, <1>2, <1>3, ActiveDel DEF TimersNow, Timers
<1>6. PendingExact(timer', pending')
  BY <1>0, <1>1, <1>2, <1>3, PendingDel DEF TimersNow, Timers
<1>7. OnlyLive(timer')
  BY <1>0, <1>2, <1>3 DEF TimersNow, Timers, OnlyLive
<1>8. TimersNext
  BY <1>0, <1>3, <1>4, <1>6, <1>7 DEF TimersNext, Timers
<1> QED BY <1>2, <1>3, <1>8 DEF i

LEMMA CreateKeeps ==
    ASSUME TimersNow, NEW h, NEW type \in {"ONESHOT", "PERIODIC"}, NEW callback \in Callbacks,
           TimerCreate(h, type, callback)
    PROVE  /\ TimersNext /\ h.slot \in FreeTimers /\ h.slot \in Pool /\ ~timer[h.slot].live
           /\ h.gen = timer[h.slot].gen + 1 /\ h.gen \in Nat
           /\ \A u \in Pool \ {h.slot} : timer'[u] = timer[u]
           /\ timer'[h.slot].live /\ timer'[h.slot].gen = h.gen
           /\ timer'[h.slot].type = type /\ timer'[h.slot].callback = callback
           /\ ~timer'[h.slot].active /\ ~timer'[h.slot].pending
<1> DEFINE i == h.slot
           e == EmptyTimer(h.gen)
           on == TRUE
           r == [e EXCEPT !.live = on, !.type = type, !.callback = callback]
<1>0. i \in Pool /\ timer \in [Pool -> TimerRecord] /\ tick \in Ticks /\ on \in BOOLEAN
      /\ ~timer[i].live /\ i \in FreeTimers
  BY DEF TimersNow, Timers, TimerCreate, FreeTimers
<1>1. /\ timer' = [timer EXCEPT ![i] = r] /\ pending' = pending /\ active' = active
      /\ h.gen = timer[i].gen + 1
  BY Zenon DEF TimerCreate, on
<1>2. h.gen \in Nat
  BY <1>0, <1>1 DEF TimerRecord
<1>3. e \in TimerRecord /\ e.gen = h.gen /\ ~e.live /\ ~e.active /\ ~e.pending
  BY <1>2, EmptyIs
<1> HIDE DEF e, i, on
<1>4. /\ r \in TimerRecord /\ r.gen = h.gen /\ r.live = on /\ r.type = type
      /\ r.callback = callback /\ ~r.active /\ ~r.pending
  BY <1>0, <1>3 DEF TimerRecord
<1> HIDE DEF r
<1>5. /\ timer' \in [Pool -> TimerRecord] /\ timer'[i] = r
      /\ \A u \in Pool \ {i} : timer'[u] = timer[u]
  BY <1>0, <1>1, <1>4
<1>6. ~timer[i].active /\ ~timer[i].pending
  BY <1>0 DEF TimersNow, Timers, OnlyLive
<1>7. \A u \in Pool : /\ timer'[u].active = timer[u].active
                      /\ timer[u].active => timer'[u] = timer[u]
                      /\ timer'[u].pending = timer[u].pending
  <2>1. timer'[i].active \in BOOLEAN /\ timer[i].active \in BOOLEAN
        /\ timer'[i].pending \in BOOLEAN /\ timer[i].pending \in BOOLEAN
    BY <1>0, <1>5 DEF TimerRecord
  <2> QED BY <1>4, <1>5, <1>6, <2>1
<1>8. ActiveExact(tick, timer', active')
  BY <1>1, <1>7, ActiveSame DEF TimersNow, Timers
<1>9. PendingExact(timer', pending')
  <2>1. PendingExact(timer, pending')
    BY <1>1 DEF TimersNow, Timers
  <2>2. \A u \in Pool : timer'[u].pending = timer[u].pending
    BY <1>7
  <2> QED BY <2>1, <2>2, PendingSame
<1>10. OnlyLive(timer')
  BY <1>4, <1>5 DEF TimersNow, Timers, OnlyLive
<1>11. TimersNext
  BY <1>0, <1>5, <1>8, <1>9, <1>10 DEF TimersNext, Timers
<1> QED BY <1>0, <1>1, <1>2, <1>4, <1>5, <1>11 DEF i, on

-----------------------------------------------------------------------------
(* The tick.                                                               *)

\* aixos_timer_tick takes off the first n of a list.
LEMMA DueIs ==
    ASSUME active \in Seq(Pool), NEW now
    PROVE  /\ Due(now) \in 0 .. Len(active)
           /\ \A j \in 1 .. Due(now) : TickReached(now, timer[active[j]].deadline)
           /\ Due(now) < Len(active)
                 => ~TickReached(now, timer[active[Due(now) + 1]].deadline)
<1> DEFINE N == Len(active)
           B == {j \in 1 .. N : ~TickReached(now, timer[active[j]].deadline)}
           reached(n) == \A i \in 1 .. n : TickReached(now, timer[active[i]].deadline)
<1>1. N \in Nat
  BY LenProperties
<1>2. PICK i \in 1 .. N + 1 : (\A j \in 1 .. i - 1 : j \notin B) /\ (i <= N => i \in B)
  <2> HIDE DEF B, N
  <2> QED BY <1>1, FirstIn
<1>3. i - 1 \in 0 .. N /\ \A j \in 1 .. i - 1 : j \in 1 .. N
  BY <1>1
<1>4. reached(i - 1)
  BY <1>2, <1>3
<1>5. i - 1 < N => ~reached(i - 1 + 1)
  <2> SUFFICES ASSUME i - 1 < N PROVE ~reached(i - 1 + 1)
    OBVIOUS
  <2>1. i <= N /\ i - 1 + 1 = i /\ i \in 1 .. i
    BY <1>1
  <2>2. i \in B
    BY <1>2, <2>1
  <2> QED BY <2>1, <2>2
<1>6. \E n \in 0 .. N : reached(n) /\ (n < N => ~reached(n + 1))
  BY <1>3, <1>4, <1>5
<1> DEFINE d == Due(now)
<1>7. d \in 0 .. N /\ reached(d) /\ (d < N => ~reached(d + 1))
  BY <1>6 DEF Due
<1> HIDE DEF d
<1>8. ASSUME d < N PROVE ~TickReached(now, timer[active[d + 1]].deadline)
  <2>1. \A j \in 1 .. d + 1 : j # d + 1 => j \in 1 .. d
    BY <1>7
  <2> QED BY <1>7, <1>8, <2>1
<1> QED BY <1>7, <1>8 DEF d

\* What is off the list after the first m
FirstOf(m) == {active[j] : j \in 1 .. m}

LEMMA PartsAre ==
    ASSUME active \in Seq(Pool), NoRepeat(active), NEW n \in 0 .. Len(active)
    PROVE  LET rest == SubSeq(active, n + 1, Len(active))
           IN  /\ \A i : Linked(SubSeq(active, 1, n), i) <=> i \in FirstOf(n)
               /\ rest \in Seq(Pool) /\ NoRepeat(rest)
               /\ \A i : Linked(rest, i) <=> Linked(active, i) /\ i \notin FirstOf(n)
               /\ \A i, j \in DOMAIN rest : i < j =>
                     \E x, y \in DOMAIN active : x < y /\ rest[i] = active[x] /\ rest[j] = active[y]
<1> DEFINE N == Len(active)
           first == SubSeq(active, 1, n)
           rest == SubSeq(active, n + 1, N)
<1>1. N \in Nat /\ DOMAIN active = 1 .. N /\ n \in 0 .. N
  BY LenProperties
<1>2. first \in Seq(Pool) /\ Len(first) = n /\ \A j \in 1 .. n : first[j] = active[j]
  BY <1>1, SubSeqProperties
<1>3. rest \in Seq(Pool) /\ Len(rest) = N - n /\ \A j \in 1 .. N - n : rest[j] = active[n + j]
  <2> DEFINE m == n + 1
  <2>1. m \in Int /\ N \in Int /\ \A i \in m .. N : active[i] \in Pool
    BY <1>1, ElementOfSeq
  <2>2. rest = SubSeq(active, m, N)
    OBVIOUS
  <2> HIDE DEF m, N, rest
  <2>3. /\ rest \in Seq(Pool) /\ Len(rest) = IF m <= N THEN N - m + 1 ELSE 0
        /\ \A i \in 1 .. N - m + 1 : rest[i] = active[m + i - 1]
    BY <2>1, <2>2, SubSeqProperties
  <2> QED BY <1>1, <2>3 DEF m
<1>4. DOMAIN first = 1 .. n /\ DOMAIN rest = 1 .. N - n
  BY <1>1, <1>2, <1>3, LenProperties
<1> HIDE DEF first, rest, N
<1>5. \A i : Linked(first, i) <=> i \in FirstOf(n)
  BY <1>2, <1>4 DEF Linked, FirstOf
<1>6. \A j \in 1 .. N - n : n + j \in 1 .. N /\ n + j > n
  BY <1>1
<1>7. NoRepeat(rest)
  <2> SUFFICES ASSUME NEW i \in 1 .. N - n, NEW j \in 1 .. N - n, rest[i] = rest[j]
               PROVE  i = j
    BY <1>4 DEF NoRepeat
  <2>1. active[n + i] = active[n + j] /\ n + i \in 1 .. N /\ n + j \in 1 .. N
    BY <1>3, <1>6
  <2>2. n + i = n + j
    BY <1>1, <2>1 DEF NoRepeat
  <2> QED BY <1>1, <2>2
<1>8. ASSUME NEW i PROVE Linked(rest, i) <=> Linked(active, i) /\ i \notin FirstOf(n)
  <2>1. ASSUME Linked(rest, i) PROVE Linked(active, i) /\ i \notin FirstOf(n)
    <3>1. PICK j \in 1 .. N - n : rest[j] = i
      BY <1>4, <2>1 DEF Linked
    <3>2. active[n + j] = i /\ n + j \in 1 .. N /\ n + j > n
      BY <1>3, <1>6, <3>1
    <3>3. \A x \in 1 .. n : x \in 1 .. N /\ x # n + j
      BY <1>1, <3>2
    <3>4. i \notin FirstOf(n)
      BY <1>1, <3>2, <3>3 DEF NoRepeat, FirstOf
    <3> QED BY <1>1, <3>2, <3>4 DEF Linked
  <2>2. ASSUME Linked(active, i), i \notin FirstOf(n) PROVE Linked(rest, i)
    <3>1. PICK x \in 1 .. N : active[x] = i
      BY <1>1, <2>2 DEF Linked
    <3>2. x \notin 1 .. n
      BY <2>2, <3>1 DEF FirstOf
    <3>3. x - n \in 1 .. N - n /\ n + (x - n) = x
      BY <1>1, <3>2
    <3> QED BY <1>3, <1>4, <3>1, <3>3 DEF Linked
  <2> QED BY <2>1, <2>2
<1>9. ASSUME NEW i \in DOMAIN rest, NEW j \in DOMAIN rest, i < j
      PROVE  \E x, y \in DOMAIN active : x < y /\ rest[i] = active[x] /\ rest[j] = active[y]
  <2>1. n + i \in DOMAIN active /\ n + j \in DOMAIN active /\ n + i < n + j
    BY <1>1, <1>4, <1>6, <1>9
  <2> QED BY <1>3, <1>4, <2>1
<1> QED BY <1>3, <1>5, <1>7, <1>8, <1>9 DEF first, rest, N

\* At the next tick the deadlines of the first ones are now, and the others are
\* still ahead.
LEMMA DueNow ==
    ASSUME TimersNow, NEW now, now = TickAfter(tick, 1), NEW n, n = Due(now)
    PROVE  /\ now \in Ticks /\ n \in 0 .. Len(active)
           /\ \A i \in FirstOf(n) : i \in Pool /\ timer[i].deadline = now
           /\ Sorted(now, DeadlinesOf(timer), SubSeq(active, n + 1, Len(active)),
                     ActiveOf(timer) \ FirstOf(n))
<1> DEFINE N == Len(active)
           d == DeadlinesOf(timer)
           f == TicksLeft(d, tick)
           g == TicksLeft(d, now)
           S == ActiveOf(timer)
           rest == SubSeq(active, n + 1, N)
<1>1. /\ active \in Seq(Pool) /\ NoRepeat(active) /\ tick \in Ticks
      /\ \A i : Linked(active, i) <=> i \in S
      /\ \A i \in S : f[i] \in 1 .. MaxTimeout
      /\ Ascending(active, f)
      /\ d \in [Pool -> Ticks] /\ S \in SUBSET Pool
      /\ \A i \in Pool : d[i] = timer[i].deadline
  BY DEF TimersNow, Timers, ActiveExact, Sorted, DeadlinesOf, TimerRecord, ActiveOf
<1>2. now \in Ticks
  BY <1>1, TickAfterType
<1>3. /\ n \in 0 .. N
      /\ \A j \in 1 .. n : TickReached(now, timer[active[j]].deadline)
      /\ n < N => ~TickReached(now, timer[active[n + 1]].deadline)
  BY <1>1, DueIs
<1>4. N \in Nat /\ DOMAIN active = 1 .. N /\ \A j \in 1 .. N : active[j] \in S
  BY <1>1, LenProperties DEF Linked
<1>5. /\ \A i \in Pool : f[i] = Left(d[i], tick) /\ g[i] = Left(d[i], now)
  BY DEF TicksLeft
<1> HIDE DEF d, f, g, S, N
<1>6. ASSUME NEW i \in S
      PROVE  g[i] = f[i] - 1 /\ g[i] \in 0 .. MaxTimeout - 1
             /\ (TickReached(now, timer[i].deadline) <=> g[i] = 0)
  <2>1. i \in Pool /\ d[i] \in Ticks /\ d[i] = timer[i].deadline
    BY <1>1
  <2>2. f[i] \in 1 .. MaxTimeout /\ f[i] = Left(d[i], tick) /\ g[i] = Left(d[i], now)
    BY <1>1, <1>5, <2>1
  <2>3. g[i] = f[i] - 1
    BY <1>1, <2>1, <2>2, LeftCounts
  <2>4. g[i] \in 0 .. MaxTimeout - 1 /\ Left(d[i], now) <= MaxTimeout
    BY <2>2, <2>3, MaxTimeoutIs
  <2> QED BY <1>2, <2>1, <2>2, <2>3, <2>4, ReachedNow
<1>7. ASSUME NEW i \in FirstOf(n) PROVE i \in Pool /\ timer[i].deadline = now
  <2>1. PICK j \in 1 .. n : active[j] = i
    BY <1>7 DEF FirstOf
  <2>2. j \in 1 .. N
    BY <1>3, <1>4
  <2>3. i \in S
    BY <1>4, <2>1, <2>2
  <2>4. g[i] = 0 /\ i \in Pool /\ d[i] \in Ticks /\ d[i] = timer[i].deadline
    BY <1>1, <1>3, <1>6, <2>1, <2>3
  <2>5. Left(d[i], now) = 0
    BY <1>5, <2>4
  <2>6. Left(d[i], now) = IF d[i] >= now THEN d[i] - now ELSE d[i] - now + TickModulus
    BY <1>2, <2>4, LeftIs
  <2>7. d[i] = now
    BY <1>2, <2>4, <2>5, <2>6, ClockAssumption DEF Ticks
  <2> QED BY <2>4, <2>7
<1>8. /\ rest \in Seq(Pool) /\ NoRepeat(rest)
      /\ \A i : Linked(rest, i) <=> Linked(active, i) /\ i \notin FirstOf(n)
      /\ \A i, j \in DOMAIN rest : i < j =>
             \E x, y \in DOMAIN active : x < y /\ rest[i] = active[x] /\ rest[j] = active[y]
  BY <1>1, <1>3, PartsAre DEF N
<1> HIDE DEF rest
<1>9. ASSUME NEW i \in S \ FirstOf(n) PROVE g[i] \in 1 .. MaxTimeout
  <2>1. PICK j \in 1 .. N : active[j] = i
    BY <1>1, <1>4 DEF Linked
  <2>2. j \notin 1 .. n
    BY <1>9, <2>1 DEF FirstOf
  <2>3. n + 1 <= j /\ n < N /\ n + 1 \in 1 .. N
    BY <1>3, <1>4, <2>2
  <2>4. active[n + 1] \in S /\ i \in S
    BY <1>4, <2>3
  <2>5. ~TickReached(now, timer[active[n + 1]].deadline)
    BY <1>3, <2>3
  <2>6. g[active[n + 1]] # 0
    BY <1>6, <2>4, <2>5
  <2>7. g[active[n + 1]] \in 0 .. MaxTimeout - 1 /\ g[active[n + 1]] = f[active[n + 1]] - 1
    BY <1>6, <2>4
  <2>8. f[active[n + 1]] <= f[i]
    <3>1. CASE n + 1 = j
      <4>1. f[i] \in 1 .. MaxTimeout /\ active[n + 1] = i
        BY <1>1, <2>1, <2>4, <3>1
      <4> QED BY <4>1
    <3>2. CASE n + 1 < j
      BY <1>1, <1>4, <2>1, <2>3, <3>2 DEF Ascending
    <3> QED BY <2>3, <3>1, <3>2
  <2>9. g[i] = f[i] - 1 /\ g[i] \in 0 .. MaxTimeout - 1
        /\ f[i] \in 1 .. MaxTimeout /\ f[active[n + 1]] \in 1 .. MaxTimeout
    BY <1>1, <1>6, <2>4
  <2> QED BY <2>6, <2>7, <2>8, <2>9, MaxTimeoutIs
<1>10. Ascending(rest, g)
  <2> SUFFICES ASSUME NEW i \in DOMAIN rest, NEW j \in DOMAIN rest, i < j
               PROVE  g[rest[i]] <= g[rest[j]]
    BY DEF Ascending
  <2>1. PICK x \in DOMAIN active, y \in DOMAIN active :
           x < y /\ rest[i] = active[x] /\ rest[j] = active[y]
    BY <1>8
  <2>2. f[active[x]] <= f[active[y]] /\ active[x] \in S /\ active[y] \in S
    BY <1>1, <1>4, <2>1 DEF Ascending
  <2>3. /\ g[active[x]] = f[active[x]] - 1 /\ g[active[y]] = f[active[y]] - 1
        /\ f[active[x]] \in 1 .. MaxTimeout /\ f[active[y]] \in 1 .. MaxTimeout
    BY <1>1, <1>6, <2>2
  <2> QED BY <2>1, <2>2, <2>3
<1>11. \A i : Linked(rest, i) <=> i \in S \ FirstOf(n)
  BY <1>1, <1>8
<1>12. Sorted(now, d, rest, S \ FirstOf(n))
  BY <1>8, <1>9, <1>10, <1>11 DEF Sorted, g
<1> QED BY <1>2, <1>3, <1>7, <1>12 DEF rest, d, S, N

\* The periodic timers that have expired are put back where they belong.
PeriodicOf(m) == {i \in FirstOf(m) : Periodic(i)}

LEMMA RequeuedIs ==
    ASSUME NEW now \in Ticks, active \in Seq(Pool), NoRepeat(active), NEW n \in 0 .. Len(active),
           NEW d \in [Pool -> Ticks], NEW S \in SUBSET Pool,
           Sorted(now, d, SubSeq(active, n + 1, Len(active)), S),
           \A i \in FirstOf(n) : i \notin S /\ (Periodic(i) => TicksLeft(d, now)[i] \in 1 .. MaxTimeout)
    PROVE  Sorted(now, d, Requeued(n, d), S \union PeriodicOf(n))
<1> DEFINE start == SubSeq(active, n + 1, Len(active))
           Step(m, l) == IF Periodic(active[m]) THEN TimeoutInsert(l, d, active[m]) ELSE l
           g == [x \in (1 .. n) \X Seq(Pool) |-> Step(x[1], x[2])]
           Steps(f) == [m \in 0 .. n |-> IF m = 0 THEN start
                                         ELSE IF Periodic(active[m])
                                         THEN TimeoutInsert(f[m - 1], d, active[m])
                                         ELSE f[m - 1]]
           list == CHOOSE f : f = Steps(f)
           Bad == {m \in 0 .. n : ~Sorted(now, d, list[m], S \union PeriodicOf(m))}
<1>0. Len(active) \in Nat /\ DOMAIN active = 1 .. Len(active) /\ n \in Nat
      /\ \A m \in 1 .. n : m \in 1 .. Len(active) /\ active[m] \in Pool
  <2>1. Len(active) \in Nat /\ DOMAIN active = 1 .. Len(active)
    BY LenProperties
  <2>2. \A m \in 1 .. n : m \in 1 .. Len(active)
    BY <2>1
  <2> QED BY <2>1, <2>2, ElementOfSeq
<1>1. start \in Seq(Pool)
  BY DEF Sorted
<1>2. Requeued(n, d) = list[n]
  BY DEF Requeued
<1>3. \A m \in 1 .. n, l \in Seq(Pool) : Step(m, l) \in Seq(Pool)
  BY <1>0, TimeoutInsertLinkedIn
<1>4. g \in [(1 .. n) \X Seq(Pool) -> Seq(Pool)]
  BY <1>3
<1>5. \A m \in 1 .. n, l \in Seq(Pool) : g[<<m, l>>] = Step(m, l)
  OBVIOUS
<1> HIDE DEF start, g
<1>6. PICK f \in [0 .. n -> Seq(Pool)] : Iterated(f, n, start, g)
  BY <1>0, <1>1, <1>4, Iterates
<1>7. f = Steps(f)
  <2>1. \A m \in 0 .. n : m # 0 => m \in 1 .. n /\ m - 1 \in 0 .. n
    BY <1>0
  <2>2. \A m \in 0 .. n : f[m] = IF m = 0 THEN start ELSE Step(m, f[m - 1])
    BY <1>5, <1>6, <2>1 DEF Iterated
  <2> QED BY <1>6, <2>2
<1>8. list = Steps(list)
  BY <1>7
<1> HIDE DEF list
<1>9. 0 \in 0 .. n /\ n \in 0 .. n /\ \A m \in 1 .. n : m \in 0 .. n /\ m # 0
  BY <1>0
<1>10. list[0] = start /\ \A m \in 1 .. n : list[m] = Step(m, list[m - 1])
  BY <1>8, <1>9
<1>11. \A m \in 0 .. n : Sorted(now, d, list[m], S \union PeriodicOf(m))
  <2> SUFFICES ASSUME Bad # {} PROVE FALSE
    OBVIOUS
  <2>1. Bad \in SUBSET Nat
    BY <1>0
  <2>2. PICK m \in Bad : \A q \in Bad : m <= q
    BY <2>1, LeastIsIn
  <2>3. m \in 0 .. n /\ ~Sorted(now, d, list[m], S \union PeriodicOf(m))
    BY <2>2
  <2>4. CASE m = 0
    <3>1. PeriodicOf(0) = {}
      BY DEF PeriodicOf, FirstOf
    <3>2. Sorted(now, d, start, S)
      BY DEF start
    <3>3. S \union {} = S
      OBVIOUS
    <3> QED BY <1>10, <2>3, <2>4, <3>1, <3>2, <3>3
  <2>5. CASE m # 0
    <3> DEFINE i == active[m]
               T == S \union PeriodicOf(m - 1)
    <3>1. m \in 1 .. n /\ m - 1 \in 0 .. n /\ ~(m <= m - 1)
      BY <1>0, <2>3, <2>5
    <3>2. Sorted(now, d, list[m - 1], T)
      BY <2>2, <3>1
    <3>3. list[m] = Step(m, list[m - 1])
      BY <1>10, <3>1
    <3>4. \A j \in 1 .. m : j = m \/ j \in 1 .. m - 1
      BY <3>1
    <3>5. \A j \in 1 .. m - 1 : j \in 1 .. m /\ j # m /\ j \in 1 .. n
      BY <1>0, <3>1
    <3>6. m \in 1 .. m
      BY <3>1
    <3>7. FirstOf(m) = FirstOf(m - 1) \union {i}
      BY <3>4, <3>5, <3>6 DEF FirstOf
    <3>8. i \in FirstOf(n) /\ i \in Pool /\ i \notin S
      BY <1>0, <3>1 DEF FirstOf
    <3>9. \A j \in 1 .. m - 1 : active[j] # i
      BY <1>0, <3>1, <3>5 DEF NoRepeat
    <3>10. i \notin FirstOf(m - 1) /\ i \notin T
      BY <3>8, <3>9 DEF FirstOf, PeriodicOf
    <3>11. T \in SUBSET Pool
      BY <1>0, <3>5 DEF PeriodicOf, FirstOf
    <3> HIDE DEF i
    <3>12. CASE Periodic(i)
      <4>1. S \union PeriodicOf(m) = T \union {i}
        BY <3>7, <3>12 DEF PeriodicOf
      <4>2. TicksLeft(d, now)[i] \in 1 .. MaxTimeout
        BY <3>8, <3>12
      <4>3. list[m] = TimeoutInsert(list[m - 1], d, i)
        BY <3>3, <3>12 DEF i
      <4>4. T \in SUBSET Pool /\ i \in Pool \ T /\ Sorted(now, d, list[m - 1], T)
        BY <3>2, <3>8, <3>10, <3>11
      <4> HIDE DEF T
      <4>5. Sorted(now, d, TimeoutInsert(list[m - 1], d, i), T \union {i})
        BY <4>2, <4>4, SortedInsert
      <4> QED BY <2>3, <4>1, <4>3, <4>5
    <3>13. CASE ~Periodic(i)
      <4>1. S \union PeriodicOf(m) = T
        BY <3>7, <3>13 DEF PeriodicOf
      <4>2. list[m] = list[m - 1]
        BY <3>3, <3>13 DEF i
      <4> QED BY <2>3, <3>2, <4>1, <4>2
    <3> QED BY <3>12, <3>13
  <2> QED BY <2>4, <2>5
<1> QED BY <1>2, <1>9, <1>11

\* Every timer that has expired is on the list of pending timers once.
LEMMA AnnouncedIs ==
    ASSUME active \in Seq(Pool), NoRepeat(active), NEW n \in 0 .. Len(active),
           PendingExact(timer, pending)
    PROVE  /\ Announced(n) \in Seq(Pool) /\ NoRepeat(Announced(n))
           /\ \A i : Linked(Announced(n), i) <=>
                     i \in Pool /\ (timer[i].pending \/ i \in FirstOf(n))
<1> DEFINE Step(m, l) == IF timer[active[m]].pending THEN l ELSE Append(l, active[m])
           g == [x \in (1 .. n) \X Seq(Pool) |-> Step(x[1], x[2])]
           Steps(f) == [m \in 0 .. n |-> IF m = 0 THEN pending
                                         ELSE IF timer[active[m]].pending THEN f[m - 1]
                                         ELSE Append(f[m - 1], active[m])]
           list == CHOOSE f : f = Steps(f)
           Good(m, l) == /\ l \in Seq(Pool) /\ NoRepeat(l)
                         /\ \A i : Linked(l, i) <=>
                                   i \in Pool /\ (timer[i].pending \/ i \in FirstOf(m))
           Bad == {m \in 0 .. n : ~Good(m, list[m])}
<1>0. Len(active) \in Nat /\ DOMAIN active = 1 .. Len(active) /\ n \in Nat
      /\ \A m \in 1 .. n : m \in 1 .. Len(active) /\ active[m] \in Pool
  <2>1. Len(active) \in Nat /\ DOMAIN active = 1 .. Len(active)
    BY LenProperties
  <2>2. \A m \in 1 .. n : m \in 1 .. Len(active)
    BY <2>1
  <2> QED BY <2>1, <2>2, ElementOfSeq
<1>1. pending \in Seq(Pool) /\ NoRepeat(pending)
      /\ \A i : Linked(pending, i) <=> i \in Pool /\ timer[i].pending
  BY DEF PendingExact
<1>2. Announced(n) = list[n]
  BY DEF Announced
<1>3. \A m \in 1 .. n, l \in Seq(Pool) : Step(m, l) \in Seq(Pool)
  BY <1>0, AppendIn
<1>4. g \in [(1 .. n) \X Seq(Pool) -> Seq(Pool)]
  BY <1>3
<1>5. \A m \in 1 .. n, l \in Seq(Pool) : g[<<m, l>>] = Step(m, l)
  OBVIOUS
<1> HIDE DEF g
<1>6. PICK f \in [0 .. n -> Seq(Pool)] : Iterated(f, n, pending, g)
  BY <1>0, <1>1, <1>4, Iterates
<1>7. f = Steps(f)
  <2>1. \A m \in 0 .. n : m # 0 => m \in 1 .. n /\ m - 1 \in 0 .. n
    BY <1>0
  <2>2. \A m \in 0 .. n : f[m] = IF m = 0 THEN pending ELSE Step(m, f[m - 1])
    BY <1>5, <1>6, <2>1 DEF Iterated
  <2> QED BY <1>6, <2>2
<1>8. list = Steps(list)
  BY <1>7
<1> HIDE DEF list
<1>9. 0 \in 0 .. n /\ n \in 0 .. n /\ \A m \in 1 .. n : m \in 0 .. n /\ m # 0
  BY <1>0
<1>10. list[0] = pending /\ \A m \in 1 .. n : list[m] = Step(m, list[m - 1])
  BY <1>8, <1>9
<1>11. \A m \in 0 .. n : Good(m, list[m])
  <2> SUFFICES ASSUME Bad # {} PROVE FALSE
    BY DEF Bad
  <2>1. Bad \in SUBSET Nat
    BY <1>0
  <2>2. PICK m \in Bad : \A q \in Bad : m <= q
    BY <2>1, LeastIsIn
  <2>3. m \in 0 .. n /\ ~Good(m, list[m])
    BY <2>2
  <2>4. CASE m = 0
    <3>1. FirstOf(0) = {}
      BY DEF FirstOf
    <3>2. Good(0, pending)
      BY <1>1, <3>1
    <3> HIDE DEF Good
    <3> QED BY <1>10, <2>3, <2>4, <3>2
  <2>5. CASE m # 0
    <3> DEFINE i == active[m]
               l == list[m - 1]
    <3>1. m \in 1 .. n /\ m - 1 \in 0 .. n /\ ~(m <= m - 1)
      BY <1>0, <2>3, <2>5
    <3>2. Good(m - 1, l)
      <4> HIDE DEF Good
      <4> QED BY <2>2, <3>1
    <3>3. list[m] = Step(m, l)
      BY <1>10, <3>1
    <3>4. \A j \in 1 .. m : j = m \/ j \in 1 .. m - 1
      BY <3>1
    <3>5. \A j \in 1 .. m - 1 : j \in 1 .. m /\ j # m /\ j \in 1 .. n
      BY <1>0, <3>1
    <3>6. m \in 1 .. m
      BY <3>1
    <3>7. FirstOf(m) = FirstOf(m - 1) \union {i}
      BY <3>4, <3>5, <3>6 DEF FirstOf
    <3>8. i \in Pool
      BY <1>0, <3>1
    <3>9. \A j \in 1 .. m - 1 : active[j] # i
      BY <1>0, <3>1, <3>5 DEF NoRepeat
    <3>10. i \notin FirstOf(m - 1)
      BY <3>9 DEF FirstOf
    <3>11. Step(m, l) = IF timer[i].pending THEN l ELSE Append(l, i)
      OBVIOUS
    <3> HIDE DEF i, l
    <3>12. CASE timer[i].pending
      <4>1. list[m] = l
        BY <3>3, <3>11, <3>12
      <4>2. Good(m, l)
        BY <3>2, <3>7, <3>8, <3>12
      <4> HIDE DEF Good
      <4> QED BY <2>3, <4>1, <4>2
    <3>13. CASE ~timer[i].pending
      <4>1. list[m] = Append(l, i)
        BY <3>3, <3>11, <3>13
      <4>2. l \in Seq(Pool) /\ NoRepeat(l) /\ ~Linked(l, i)
            /\ \A u : Linked(l, u) <=> u \in Pool /\ (timer[u].pending \/ u \in FirstOf(m - 1))
        BY <3>2, <3>10, <3>13
      <4>3. /\ Append(l, i) \in Seq(Pool) /\ NoRepeat(Append(l, i))
            /\ \A u : Linked(Append(l, i), u) <=> Linked(l, u) \/ u = i
        BY <3>8, <4>2, AppendIn
      <4>4. Good(m, Append(l, i))
        BY <3>7, <3>8, <4>2, <4>3
      <4> HIDE DEF Good
      <4> QED BY <2>3, <4>1, <4>4
    <3> QED BY <3>12, <3>13
  <2> QED BY <2>4, <2>5
<1> QED BY <1>2, <1>9, <1>11

\* A timer that has expired and is periodic
Repeated(r, q, x) ==
    /\ q \in TimerRecord /\ SameTimer(q, r) /\ q.deadline = x /\ q.pending
    /\ q.active = r.active /\ q.interval = r.interval

LEMMA RepeatedIs ==
    ASSUME NEW r \in TimerRecord, NEW x \in Ticks, NEW q,
           q = [r EXCEPT !.deadline = x, !.pending = TRUE]
    PROVE  Repeated(r, q, x)
<1> DEFINE q1 == [r EXCEPT !.deadline = x]
           on == TRUE
           q2 == [q1 EXCEPT !.pending = on]
<1>1. /\ q1 \in TimerRecord /\ SameTimer(q1, r) /\ q1.deadline = x
      /\ q1.active = r.active /\ q1.interval = r.interval
  BY DEF TimerRecord, SameTimer
<1>2. q2 = q
  BY Zenon
<1>3. on \in BOOLEAN
  OBVIOUS
<1> HIDE DEF q1, on
<1>4. /\ q2 \in TimerRecord /\ q2.deadline = q1.deadline /\ q2.pending = on
      /\ q2.active = q1.active /\ q2.interval = q1.interval
      /\ q2.live = q1.live /\ q2.gen = q1.gen /\ q2.type = q1.type
      /\ q2.callback = q1.callback
  BY <1>1, <1>3 DEF TimerRecord
<1> HIDE DEF q2
<1>5. SameTimer(q2, r)
  BY <1>1, <1>4 DEF SameTimer
<1> QED BY <1>1, <1>2, <1>4, <1>5 DEF Repeated, on

\* A timer that has expired for good
LEMMA ExpiredIs ==
    ASSUME NEW r \in TimerRecord, NEW q,
           q = [r EXCEPT !.deadline = 0, !.interval = 0, !.active = FALSE, !.pending = TRUE]
    PROVE  q \in TimerRecord /\ SameTimer(q, r) /\ q.pending /\ ~q.active
<1> DEFINE q1 == [r EXCEPT !.deadline = 0]
           q2 == [q1 EXCEPT !.interval = 0]
           off == FALSE
           on == TRUE
           q3 == [q2 EXCEPT !.active = off]
           q4 == [q3 EXCEPT !.pending = on]
<1>0. 0 \in Ticks /\ 0 \in 0 .. MaxTimeout
  BY ClockAssumption, MaxTimeoutIs DEF Ticks
<1>1. q1 \in TimerRecord /\ SameTimer(q1, r)
  BY <1>0 DEF TimerRecord, SameTimer
<1>2. q4 = q
  BY Zenon
<1>3. on \in BOOLEAN /\ off \in BOOLEAN
  OBVIOUS
<1> HIDE DEF q1, on, off
<1>4. q2 \in TimerRecord /\ SameTimer(q2, q1)
  BY <1>0, <1>1 DEF TimerRecord, SameTimer
<1> HIDE DEF q2
<1>5. q3 \in TimerRecord /\ SameTimer(q3, q2) /\ q3.active = off
  BY <1>3, <1>4 DEF TimerRecord, SameTimer
<1> HIDE DEF q3
<1>6. q4 \in TimerRecord /\ SameTimer(q4, q3) /\ q4.active = q3.active /\ q4.pending = on
  BY <1>3, <1>5 DEF TimerRecord, SameTimer
<1> HIDE DEF q4
<1>7. SameTimer(q4, r)
  BY <1>1, <1>4, <1>5, <1>6 DEF SameTimer
<1> QED BY <1>2, <1>5, <1>6, <1>7 DEF on, off

\* The next deadline of a timer that has not been late is one interval ahead.
LEMMA NextDeadlineIs ==
    ASSUME NEW i \in Pool, NEW now \in Ticks, timer[i].deadline = now,
           timer[i].interval \in 1 .. MaxTimeout
    PROVE  /\ NextDeadline(i, now) \in Ticks
           /\ Left(NextDeadline(i, now), now) \in 1 .. MaxTimeout
<1> DEFINE x == timer[i].interval
           d == timer[i].deadline
<1>1. x \in 1 .. MaxTimeout /\ x \in Nat \ {0} /\ d = now
  BY MaxTimeoutIs
<1>2. (now - d) % TickModulus = 0
  <2>1. now - d = 0
    BY <1>1 DEF Ticks
  <2> QED BY <2>1, ClockAssumption
<1>3. NextDeadline(i, now) = TickAfter(d, (((now - d) % TickModulus) \div x + 1) * x)
  BY DEF NextDeadline
<1> HIDE DEF x, d
<1>4. ((now - d) % TickModulus) \div x = 0
  BY <1>1, <1>2
<1>5. NextDeadline(i, now) = TickAfter(d, (0 + 1) * x)
  BY <1>3, <1>4
<1>6. (0 + 1) * x = x
  BY <1>1
<1>7. NextDeadline(i, now) = TickAfter(now, x)
  BY <1>1, <1>5, <1>6
<1>8. TickAfter(now, x) \in Ticks /\ Left(TickAfter(now, x), now) = x
  BY <1>1, LeftAfter
<1> QED BY <1>1, <1>7, <1>8

\* aixos_timer_tick
LEMMA TickKeeps ==
    ASSUME TimersNow, TimerTick
    PROVE  /\ Timers(tick', timer', active', pending')
           /\ \A u \in Pool : /\ SameTimer(timer'[u], timer[u])
                              /\ Periodic(u) => timer'[u].active = timer[u].active
                              /\ timer'[u] = timer[u] \/ timer[u].deadline = tick'
<1> DEFINE now == TickAfter(tick, 1)
           n == Due(now)
           d == DeadlinesOf(timer')
           S == ActiveOf(timer) \ FirstOf(n)
           T == S \union PeriodicOf(n)
           rest == SubSeq(active, n + 1, Len(active))
<1>1. /\ tick' = now /\ timer' = Fired(n, now)
      /\ active' = Requeued(n, d) /\ pending' = Announced(n)
  BY DEF TimerTick
<1>2. /\ active \in Seq(Pool) /\ NoRepeat(active)
      /\ \A i : Linked(active, i) <=> i \in ActiveOf(timer)
      /\ timer \in [Pool -> TimerRecord] /\ PendingExact(timer, pending) /\ OnlyLive(timer)
      /\ \A i \in ActiveOf(timer) : timer[i].interval \in 1 .. MaxTimeout
      /\ S \in SUBSET Pool
  BY DEF TimersNow, Timers, ActiveExact, Sorted, ActiveOf
<1>3. /\ now \in Ticks /\ n \in 0 .. Len(active)
      /\ \A i \in FirstOf(n) : i \in Pool /\ timer[i].deadline = now
      /\ Sorted(now, DeadlinesOf(timer), rest, S)
  BY DueNow
<1>4. \A i : Linked(SubSeq(active, 1, n), i) <=> i \in FirstOf(n)
  BY <1>2, <1>3, PartsAre
<1>5. \A i \in FirstOf(n) : i \in ActiveOf(timer)
  <2>1. Len(active) \in Nat /\ DOMAIN active = 1 .. Len(active)
    BY <1>2, LenProperties
  <2>2. \A j \in 1 .. n : j \in DOMAIN active
    BY <1>3, <2>1
  <2> QED BY <1>2, <2>2 DEF FirstOf, Linked
<1> HIDE DEF now, n, S
<1>6. timer' = [i \in Pool |->
          IF i \notin FirstOf(n) THEN timer[i]
          ELSE IF Periodic(i)
          THEN [timer[i] EXCEPT !.deadline = NextDeadline(i, now), !.pending = TRUE]
          ELSE [timer[i] EXCEPT !.deadline = 0, !.interval = 0,
                                !.active = FALSE, !.pending = TRUE]]
  BY <1>1, <1>4 DEF Fired
<1>7. ASSUME NEW i \in Pool, i \notin FirstOf(n) PROVE timer'[i] = timer[i]
  BY <1>6, <1>7
<1>8. ASSUME NEW i \in FirstOf(n), Periodic(i)
      PROVE  /\ i \in Pool /\ timer'[i] \in TimerRecord /\ SameTimer(timer'[i], timer[i])
             /\ timer'[i].pending /\ timer'[i].active
             /\ timer'[i].interval \in 1 .. MaxTimeout
             /\ Left(timer'[i].deadline, now) \in 1 .. MaxTimeout
  <2> DEFINE x == NextDeadline(i, now)
  <2>1. i \in Pool /\ timer[i] \in TimerRecord /\ timer[i].active
        /\ timer[i].interval \in 1 .. MaxTimeout /\ timer[i].deadline = now
    BY <1>2, <1>3, <1>5 DEF ActiveOf
  <2>2. x \in Ticks /\ Left(x, now) \in 1 .. MaxTimeout
    BY <1>3, <2>1, NextDeadlineIs
  <2> HIDE DEF x
  <2>3. timer'[i] = [timer[i] EXCEPT !.deadline = x, !.pending = TRUE]
    BY <1>6, <1>8, <2>1 DEF x
  <2> DEFINE r == timer[i]
             q == timer'[i]
  <2>4. r \in TimerRecord /\ q = [r EXCEPT !.deadline = x, !.pending = TRUE]
    BY <2>1, <2>3
  <2> HIDE DEF r, q
  <2>5. Repeated(r, q, x)
    BY <2>2, <2>4, RepeatedIs
  <2> QED BY <2>1, <2>2, <2>5 DEF Repeated, r, q
<1>9. ASSUME NEW i \in FirstOf(n), ~Periodic(i)
      PROVE  /\ i \in Pool /\ timer'[i] \in TimerRecord /\ SameTimer(timer'[i], timer[i])
             /\ timer'[i].pending /\ ~timer'[i].active
  <2>1. i \in Pool /\ timer[i] \in TimerRecord
    BY <1>2, <1>3
  <2> DEFINE r == timer[i]
             q == timer'[i]
  <2>4. /\ r \in TimerRecord
        /\ q = [r EXCEPT !.deadline = 0, !.interval = 0, !.active = FALSE, !.pending = TRUE]
    BY <1>6, <1>9, <2>1
  <2> HIDE DEF r, q
  <2>5. q \in TimerRecord /\ SameTimer(q, r) /\ q.pending /\ ~q.active
    BY <2>4, ExpiredIs
  <2> QED BY <2>1, <2>5 DEF r, q
<1>10. timer' \in [Pool -> TimerRecord]
  <2>1. \A i \in Pool : timer'[i] \in TimerRecord
    BY <1>2, <1>7, <1>8, <1>9
  <2> QED BY <1>6, <2>1
<1>11. \A u \in Pool : SameTimer(timer'[u], timer[u])
  BY <1>7, <1>8, <1>9 DEF SameTimer
<1>12. \A u \in Pool : Periodic(u) => timer'[u].active = timer[u].active
  <2> SUFFICES ASSUME NEW u \in Pool, Periodic(u) PROVE timer'[u].active = timer[u].active
    OBVIOUS
  <2>1. timer'[u].active \in BOOLEAN /\ timer[u].active \in BOOLEAN
    BY <1>2, <1>10 DEF TimerRecord
  <2>2. u \in FirstOf(n) => timer'[u].active /\ timer[u].active
    BY <1>5, <1>8 DEF ActiveOf
  <2> QED BY <1>7, <2>1, <2>2
<1>13. ActiveOf(timer') = T /\ T \in SUBSET Pool
  <2>1. \A i \in Pool : timer'[i].active <=> i \in T
    <3> SUFFICES ASSUME NEW i \in Pool PROVE timer'[i].active <=> i \in T
      OBVIOUS
    <3>1. CASE i \notin FirstOf(n)
      BY <1>7, <3>1 DEF PeriodicOf, S, ActiveOf
    <3>2. CASE i \in FirstOf(n)
      BY <1>8, <1>9, <3>2 DEF PeriodicOf, S
    <3> QED BY <3>1, <3>2
  <2>2. T \in SUBSET Pool
    BY <1>2, <1>3 DEF PeriodicOf
  <2> QED BY <2>1, <2>2 DEF ActiveOf
<1>14. d \in [Pool -> Ticks] /\ \A i \in Pool : d[i] = timer'[i].deadline
  BY <1>10 DEF DeadlinesOf, TimerRecord
<1>15. \A i \in S : i \in Pool /\ i \notin FirstOf(n) /\ d[i] = DeadlinesOf(timer)[i]
  BY <1>2, <1>7, <1>14 DEF S, DeadlinesOf
<1> HIDE DEF d
<1>16. Sorted(now, d, rest, S)
  BY <1>2, <1>3, <1>15, SortedSame
<1>17. \A i \in FirstOf(n) : i \notin S /\ (Periodic(i) => TicksLeft(d, now)[i] \in 1 .. MaxTimeout)
  BY <1>3, <1>8, <1>14 DEF S, TicksLeft
<1>18. Sorted(now, d, active', T)
  BY <1>1, <1>2, <1>3, <1>14, <1>16, <1>17, RequeuedIs
<1>19. \A i \in T : timer'[i].interval \in 1 .. MaxTimeout
  <2>1. \A i \in S : timer'[i].interval \in 1 .. MaxTimeout
    BY <1>2, <1>7, <1>15 DEF S
  <2>2. \A i \in PeriodicOf(n) : timer'[i].interval \in 1 .. MaxTimeout
    BY <1>8 DEF PeriodicOf
  <2> QED BY <2>1, <2>2
<1>20. ActiveExact(now, timer', active')
  BY <1>13, <1>18, <1>19 DEF ActiveExact, d
<1>21. PendingExact(timer', pending')
  <2>1. /\ pending' \in Seq(Pool) /\ NoRepeat(pending')
        /\ \A i : Linked(pending', i) <=>
                  i \in Pool /\ (timer[i].pending \/ i \in FirstOf(n))
    BY <1>1, <1>2, <1>3, AnnouncedIs
  <2>2. \A i \in Pool : timer'[i].pending <=> timer[i].pending \/ i \in FirstOf(n)
    BY <1>7, <1>8, <1>9
  <2> QED BY <2>1, <2>2 DEF PendingExact
<1>22. OnlyLive(timer')
  <2> SUFFICES ASSUME NEW i \in Pool, timer'[i].active \/ timer'[i].pending
               PROVE  timer'[i].live
    BY DEF OnlyLive
  <2>1. CASE i \notin FirstOf(n)
    BY <1>2, <1>7, <2>1 DEF OnlyLive
  <2>2. CASE i \in FirstOf(n)
    <3>1. timer[i].live
      BY <1>2, <1>5, <2>2 DEF OnlyLive, ActiveOf
    <3> QED BY <1>11, <3>1 DEF SameTimer
  <2> QED BY <2>1, <2>2
<1>23. Timers(now, timer', active', pending')
  BY <1>3, <1>10, <1>20, <1>21, <1>22 DEF Timers
<1>24. \A u \in Pool : timer'[u] = timer[u] \/ timer[u].deadline = now
  BY <1>3, <1>7
<1> QED BY <1>1, <1>11, <1>12, <1>23, <1>24

\* aixos_timer_dispatch, the first critical section
LEMMA DispatchKeeps ==
    ASSUME TimersNow, Dispatch
    PROVE  /\ Timers(tick', timer', active', pending')
           /\ \A u \in Pool : /\ SameTimer(timer'[u], timer[u])
                              /\ timer'[u].active = timer[u].active
                              /\ timer'[u].deadline = timer[u].deadline
                              /\ timer'[u].pending => timer[u].pending
           /\ \/ service' = ServiceAt("check", App)
              \/ \E u \in Pool : /\ timer[u].live /\ timer[u].pending /\ ~timer'[u].pending
                                 /\ service' = ServiceAt("callback", timer[u].callback)
<1>1. /\ pending \in Seq(Pool) /\ NoRepeat(pending) /\ tick' = tick /\ active' = active
      /\ \A i : Linked(pending, i) <=> i \in Pool /\ timer[i].pending
      /\ timer \in [Pool -> TimerRecord]
  BY DEF TimersNow, Timers, PendingExact, Dispatch
<1>2. CASE pending = <<>>
  <2>1. timer' = timer /\ pending' = pending /\ service' = ServiceAt("check", App)
    BY <1>2 DEF Dispatch
  <2> QED BY <1>1, <2>1 DEF TimersNow, SameTimer
<1>3. CASE pending # <<>>
  <2> DEFINE i == pending[1]
  <2>1. /\ pending' = Tail(pending) /\ timer' = [timer EXCEPT ![i].pending = FALSE]
        /\ service' = ServiceAt("callback", timer[i].callback)
    BY <1>3 DEF Dispatch
  <2>2. Head(pending) = i /\ i \in Pool /\ timer[i].pending
    <3>1. Head(pending) \in Pool /\ Linked(pending, Head(pending))
      BY <1>1, <1>3, FirstLinkedIn
    <3>2. Head(pending) = i
      BY <1>1, <1>3, HeadTailProperties
    <3> QED BY <1>1, <3>1, <3>2
  <2> HIDE DEF i
  <2>3. timer[i].live
    BY <2>2 DEF TimersNow, Timers, OnlyLive
  <2>4. TimerServed(timer, timer', i)
    BY <1>1, <2>1, <2>2, ServedIs
  <2>5. /\ timer' \in [Pool -> TimerRecord] /\ \A u \in Pool \ {i} : timer'[u] = timer[u]
        /\ ~timer'[i].pending /\ timer'[i].interval = timer[i].interval
        /\ timer'[i].deadline = timer[i].deadline /\ timer'[i].active = timer[i].active
        /\ SameTimer(timer'[i], timer[i])
    BY <2>4 DEF TimerServed
  <2>6. \A u \in Pool : /\ SameTimer(timer'[u], timer[u])
                        /\ timer'[u].active = timer[u].active
                        /\ timer'[u].deadline = timer[u].deadline
                        /\ timer'[u].interval = timer[u].interval
    BY <2>5 DEF SameTimer
  <2>7. ActiveExact(tick, timer, active)
    BY DEF TimersNow, Timers
  <2>8. ActiveExact(tick, timer', active)
    BY <2>6, <2>7, ActiveSame
  <2>9. /\ Tail(pending) \in Seq(Pool) /\ NoRepeat(Tail(pending))
        /\ \A u : Linked(Tail(pending), u) <=> Linked(pending, u) /\ u # i
    BY <1>1, <1>3, <2>2, TailLinkedIn
  <2>10. PendingExact(timer', pending')
    BY <1>1, <2>1, <2>5, <2>9 DEF PendingExact
  <2>11. OnlyLive(timer')
    BY <2>3, <2>5, <2>6 DEF TimersNow, Timers, OnlyLive, SameTimer
  <2>12. Timers(tick, timer', active, pending')
    BY <2>5, <2>8, <2>10, <2>11 DEF TimersNow, Timers
  <2> QED BY <1>1, <2>1, <2>2, <2>3, <2>5, <2>6, <2>12
<1> QED BY <1>2, <1>3

\* The lists at the start
LEMMA TimersStart ==
    ASSUME TimerInit
    PROVE  TimersNow
<1>1. /\ tick = 0 /\ active = <<>> /\ pending = <<>>
      /\ timer = [i \in Pool |-> EmptyTimer(0)]
  BY DEF TimerInit
<1>2. 0 \in Ticks /\ <<>> \in Seq(Pool) /\ NoRepeat(<<>>) /\ \A u : ~Linked(<<>>, u)
  <2>1. 0 \in Ticks
    BY ClockAssumption DEF Ticks
  <2> QED BY <2>1 DEF NoRepeat, Linked
<1>3. /\ EmptyTimer(0) \in TimerRecord /\ ~EmptyTimer(0).live
      /\ ~EmptyTimer(0).active /\ ~EmptyTimer(0).pending
  BY EmptyIs
<1>4. timer \in [Pool -> TimerRecord] /\ \A i \in Pool : timer[i] = EmptyTimer(0)
  BY <1>1, <1>3
<1>5. ActiveOf(timer) = {}
  BY <1>3, <1>4 DEF ActiveOf
<1>6. ActiveExact(tick, timer, active)
  BY <1>1, <1>2, <1>5 DEF ActiveExact, Sorted, Ascending
<1>7. PendingExact(timer, pending) /\ OnlyLive(timer)
  BY <1>1, <1>2, <1>3, <1>4 DEF PendingExact, OnlyLive
<1> QED BY <1>1, <1>2, <1>4, <1>6, <1>7 DEF TimersNow, Timers

\* What the property says of the lists
LEMMA TimersExact ==
    ASSUME TimersNow
    PROVE  TimerListsExact
<1> DEFINE d == DeadlinesOf(timer)
           f == TicksLeft(d, tick)
<1>1. /\ active \in Seq(Pool) /\ NoRepeat(active) /\ NoRepeat(pending) /\ tick \in Ticks
      /\ timer \in [Pool -> TimerRecord] /\ OnlyLive(timer)
      /\ \A i : Linked(active, i) <=> i \in ActiveOf(timer)
      /\ \A i : Linked(pending, i) <=> i \in Pool /\ timer[i].pending
      /\ \A i \in ActiveOf(timer) : f[i] \in 1 .. MaxTimeout
      /\ Ascending(active, f)
  BY DEF TimersNow, Timers, ActiveExact, Sorted, PendingExact
<1>2. \A i \in Pool : /\ f[i] = Left(timer[i].deadline, tick)
                      /\ timer[i].deadline \in Ticks
  BY <1>1 DEF TicksLeft, DeadlinesOf, TimerRecord
<1> HIDE DEF d, f
<1>3. \A n \in DOMAIN active : active[n] \in ActiveOf(timer) /\ active[n] \in Pool
  BY <1>1 DEF Linked, ActiveOf
<1>4. ASSUME NEW n \in DOMAIN active PROVE ~TickReached(tick, timer[active[n]].deadline)
  <2>1. f[active[n]] \in 1 .. MaxTimeout /\ f[active[n]] = Left(timer[active[n]].deadline, tick)
        /\ timer[active[n]].deadline \in Ticks
    BY <1>1, <1>2, <1>3
  <2>2. Left(timer[active[n]].deadline, tick) <= MaxTimeout
        /\ Left(timer[active[n]].deadline, tick) # 0
    BY <2>1
  <2> QED BY <1>1, <2>1, <2>2, ReachedNow
<1>5. ASSUME NEW n \in DOMAIN active, NEW m \in DOMAIN active, n < m
      PROVE  TickReached(timer[active[m]].deadline, timer[active[n]].deadline)
  <2>1. f[active[n]] \in 1 .. MaxTimeout /\ f[active[n]] = Left(timer[active[n]].deadline, tick)
        /\ timer[active[n]].deadline \in Ticks
    BY <1>1, <1>2, <1>3
  <2>2. f[active[m]] \in 1 .. MaxTimeout /\ f[active[m]] = Left(timer[active[m]].deadline, tick)
        /\ timer[active[m]].deadline \in Ticks
    BY <1>1, <1>2, <1>3
  <2>3. f[active[n]] <= f[active[m]]
    BY <1>1, <1>5 DEF Ascending
  <2>4. /\ Left(timer[active[n]].deadline, tick) <= MaxTimeout
        /\ Left(timer[active[m]].deadline, tick) <= MaxTimeout
        /\ Left(timer[active[n]].deadline, tick) <= Left(timer[active[m]].deadline, tick)
    BY <2>1, <2>2, <2>3
  <2> QED BY <1>1, <2>1, <2>2, <2>4, ReachedOrder
<1>6. \A i \in Pool : /\ Linked(active, i) <=> timer[i].active
                      /\ Linked(pending, i) <=> timer[i].pending
                      /\ timer[i].active \/ timer[i].pending => timer[i].live
  BY <1>1 DEF ActiveOf, OnlyLive
<1> QED BY <1>1, <1>4, <1>5, <1>6 DEF TimerListsExact

-----------------------------------------------------------------------------
(* POSIX timers and their native timers.                                   *)

Handles == [slot : Pool, gen : Nat]

PosixTimerRecord ==
    [used : BOOLEAN, gen : Nat, native : Handles \union {NoHandle}, active : BOOLEAN,
     interval : 0 .. MaxTimeout, next : Ticks]

ServiceRecord ==
    [at : {"dispatch", "callback", "restart", "check", "waiting"},
     callback : Callbacks, restart : Nat]

PosixTimerType ==
    /\ ptimer \in [PosixPool -> PosixTimerRecord] /\ service \in ServiceRecord
    /\ dying \in SUBSET Handles /\ crossed \in [PosixPool -> SUBSET Crossings]

\* h is the handle of a timer that exists, whose callback is about p.
NativeOf(p, h) ==
    /\ h \in Handles /\ timer[h.slot].live /\ timer[h.slot].gen = h.gen
    /\ timer[h.slot].callback = p /\ timer[h.slot].type = "PERIODIC"

\* A POSIX timer that has a native timer is in use, and has it for itself.
NativeIs(p) ==
    LET h == ptimer[p].native
    IN  IF h = NoHandle THEN ~ptimer[p].active
        ELSE ptimer[p].used /\ NativeOf(p, h) /\ h \notin dying

Dying == \A h \in dying : \E p \in PosixPool : NativeOf(p, h)

\* Between the two critical sections of the callback
AtRestart(p) == service.at = "restart" /\ service.callback = p

Agree(p) ==
    LET running == timer[ptimer[p].native.slot].active
    IN  /\ ptimer[p].active => running
        /\ running => ptimer[p].active \/ AtRestart(p)
        /\ AtRestart(p) => (service.restart # 0 <=> ptimer[p].active)

\* A timer whose native timer is still to be created has no callback under way.
InStep(p) ==
    "set" \notin crossed[p] => /\ Created(p) => Agree(p)
                               /\ ptimer[p].used /\ ~Created(p) => ~AtRestart(p)

PosixTimers ==
    /\ TimersNow /\ PosixTimerType /\ Dying
    /\ \A p \in PosixPool : NativeIs(p) /\ InStep(p)

\* One field of one POSIX timer is written.
LEMMA UsedSet ==
    ASSUME NEW pt \in [PosixPool -> PosixTimerRecord], NEW p \in PosixPool, NEW x \in BOOLEAN,
           NEW v, v = [pt EXCEPT ![p].used = x]
    PROVE  /\ v \in [PosixPool -> PosixTimerRecord] /\ \A q \in PosixPool \ {p} : v[q] = pt[q]
           /\ v[p] = [pt[p] EXCEPT !.used = x]
BY DEF PosixTimerRecord

LEMMA NativeSet ==
    ASSUME NEW pt \in [PosixPool -> PosixTimerRecord], NEW p \in PosixPool,
           NEW x \in Handles \union {NoHandle}, NEW v, v = [pt EXCEPT ![p].native = x]
    PROVE  /\ v \in [PosixPool -> PosixTimerRecord] /\ \A q \in PosixPool \ {p} : v[q] = pt[q]
           /\ v[p] = [pt[p] EXCEPT !.native = x]
BY DEF PosixTimerRecord

LEMMA ArmedSet ==
    ASSUME NEW pt \in [PosixPool -> PosixTimerRecord], NEW p \in PosixPool, NEW x \in BOOLEAN,
           NEW v, v = [pt EXCEPT ![p].active = x]
    PROVE  /\ v \in [PosixPool -> PosixTimerRecord] /\ \A q \in PosixPool \ {p} : v[q] = pt[q]
           /\ v[p] = [pt[p] EXCEPT !.active = x]
BY DEF PosixTimerRecord

LEMMA PeriodSet ==
    ASSUME NEW pt \in [PosixPool -> PosixTimerRecord], NEW p \in PosixPool,
           NEW x \in 0 .. MaxTimeout, NEW v, v = [pt EXCEPT ![p].interval = x]
    PROVE  /\ v \in [PosixPool -> PosixTimerRecord] /\ \A q \in PosixPool \ {p} : v[q] = pt[q]
           /\ v[p] = [pt[p] EXCEPT !.interval = x]
BY DEF PosixTimerRecord

LEMMA NextSet ==
    ASSUME NEW pt \in [PosixPool -> PosixTimerRecord], NEW p \in PosixPool, NEW x \in Ticks,
           NEW v, v = [pt EXCEPT ![p].next = x]
    PROVE  /\ v \in [PosixPool -> PosixTimerRecord] /\ \A q \in PosixPool \ {p} : v[q] = pt[q]
           /\ v[p] = [pt[p] EXCEPT !.next = x]
BY DEF PosixTimerRecord

\* What a step writes about the POSIX timer p, as far as it matters here.
Written(v, p, used, native, armed) ==
    /\ v \in [PosixPool -> PosixTimerRecord]
    /\ \A q \in PosixPool \ {p} : v[q] = ptimer[q]
    /\ v[p].used = used /\ v[p].native = native /\ v[p].active = armed

LEMMA NoHandleApart == NoHandle \notin Handles
BY DEF NoHandle, Handles, Pool

\* aixos_timer_posix_create
LEMMA SlotCreated ==
    ASSUME PosixTimerType, NEW p \in PosixPool, CreateSlot(p)
    PROVE  Written(ptimer', p, TRUE, NoHandle, FALSE)
<1> DEFINE g == ptimer[p].gen + 1
           e == Unused(g)
           on == TRUE
           r == [e EXCEPT !.used = on]
<1>1. g \in Nat /\ ptimer \in [PosixPool -> PosixTimerRecord] /\ on \in BOOLEAN
  BY DEF PosixTimerType, PosixTimerRecord
<1>2. ptimer' = [ptimer EXCEPT ![p] = r]
  BY Zenon DEF CreateSlot, on
<1>3. 0 \in Ticks /\ 0 \in 0 .. MaxTimeout
  BY ClockAssumption, MaxTimeoutIs DEF Ticks
<1> HIDE DEF g, on
<1>4. e \in PosixTimerRecord /\ e.native = NoHandle /\ e.active = FALSE
  BY <1>1, <1>3 DEF Unused, PosixTimerRecord
<1> HIDE DEF e
<1>5. r \in PosixTimerRecord /\ r.native = NoHandle /\ r.active = FALSE /\ r.used = on
  BY <1>1, <1>4 DEF PosixTimerRecord
<1> HIDE DEF r
<1> QED BY <1>1, <1>2, <1>5 DEF Written, on

\* aixos_timer_posix_delete
LEMMA SlotDeleted ==
    ASSUME PosixTimerType, NEW p \in PosixPool, DeleteSlot(p)
    PROVE  Written(ptimer', p, FALSE, NoHandle, FALSE)
<1> DEFINE off == FALSE
           v1 == [ptimer EXCEPT ![p].used = off]
           v2 == [v1 EXCEPT ![p].active = off]
           v3 == [v2 EXCEPT ![p].next = 0]
           none == NoHandle
           v4 == [v3 EXCEPT ![p].native = none]
<1>1. v4 = ptimer'
  BY Zenon DEF DeleteSlot
<1>2. ptimer \in [PosixPool -> PosixTimerRecord] /\ off \in BOOLEAN
      /\ none \in Handles \union {NoHandle} /\ 0 \in Ticks
  BY ClockAssumption DEF PosixTimerType, Ticks
<1> HIDE DEF off, none
<1>3. /\ v1 \in [PosixPool -> PosixTimerRecord] /\ \A q \in PosixPool \ {p} : v1[q] = ptimer[q]
      /\ v1[p] = [ptimer[p] EXCEPT !.used = off]
  BY <1>2, UsedSet
<1> HIDE DEF v1
<1>4. /\ v2 \in [PosixPool -> PosixTimerRecord] /\ \A q \in PosixPool \ {p} : v2[q] = v1[q]
      /\ v2[p] = [v1[p] EXCEPT !.active = off]
  BY <1>2, <1>3, ArmedSet
<1> HIDE DEF v2
<1>5. /\ v3 \in [PosixPool -> PosixTimerRecord] /\ \A q \in PosixPool \ {p} : v3[q] = v2[q]
      /\ v3[p] = [v2[p] EXCEPT !.next = 0]
  BY <1>2, <1>4, NextSet
<1> HIDE DEF v3
<1>6. /\ v4 \in [PosixPool -> PosixTimerRecord] /\ \A q \in PosixPool \ {p} : v4[q] = v3[q]
      /\ v4[p] = [v3[p] EXCEPT !.native = none]
  BY <1>2, <1>5, NativeSet
<1> HIDE DEF v4
<1>7. v4[p].used = off /\ v4[p].active = off /\ v4[p].native = none
  BY <1>2, <1>3, <1>4, <1>5, <1>6 DEF PosixTimerRecord
<1> QED BY <1>1, <1>3, <1>4, <1>5, <1>6, <1>7 DEF Written, off, none

LEMMA MsToTicksType ==
    ASSUME NEW ms \in Nat
    PROVE  MsToTicks(ms) \in 0 .. MaxTimeout
<1>1. CASE ms = 0
  <2>1. (0 * TickHz + 1000 - 1) \div 1000 = 0
    BY TimerAssumption
  <2>2. CeilingDiv(ms * TickHz, 1000) = 0
    BY <1>1, <2>1 DEF CeilingDiv
  <2> QED BY <2>2, MaxTimeoutIs DEF MsToTicks
<1>2. CASE ms # 0
  BY <1>2, MsToTicksIs, MaxTimeoutIs
<1> QED BY <1>1, <1>2

\* aixos_timer_posix_settime
LEMMA TimeIsSet ==
    ASSUME PosixTimerType, TimersNow, NEW p \in PosixPool,
           NEW initial \in Nat, NEW interval \in Nat,
           ptimer' = SetTime(p, initial, interval)
    PROVE  Written(ptimer', p, ptimer[p].used, ptimer[p].native, initial # 0)
<1> DEFINE x == MsToTicks(interval)
           armed == initial # 0
           d == IF initial # 0 THEN TickAfter(tick, MsToTicks(initial)) ELSE 0
           v1 == [ptimer EXCEPT ![p].interval = x]
           v2 == [v1 EXCEPT ![p].active = armed]
           v3 == [v2 EXCEPT ![p].next = d]
<1>1. v3 = ptimer'
  BY Zenon DEF SetTime
<1>2. MsToTicks(initial) \in Nat
  BY MsToTicksType, MaxTimeoutIs
<1>3. d \in Ticks
  <2>1. tick \in Ticks /\ 0 \in Ticks
    BY ClockAssumption DEF TimersNow, Timers, Ticks
  <2> QED BY <1>2, <2>1, TickAfterType
<1>4. ptimer \in [PosixPool -> PosixTimerRecord] /\ armed \in BOOLEAN /\ x \in 0 .. MaxTimeout
  BY MsToTicksType DEF PosixTimerType
<1> HIDE DEF x, armed, d
<1>5. /\ v1 \in [PosixPool -> PosixTimerRecord] /\ \A q \in PosixPool \ {p} : v1[q] = ptimer[q]
      /\ v1[p] = [ptimer[p] EXCEPT !.interval = x]
  BY <1>4, PeriodSet
<1> HIDE DEF v1
<1>6. /\ v2 \in [PosixPool -> PosixTimerRecord] /\ \A q \in PosixPool \ {p} : v2[q] = v1[q]
      /\ v2[p] = [v1[p] EXCEPT !.active = armed]
  BY <1>4, <1>5, ArmedSet
<1> HIDE DEF v2
<1>7. /\ v3 \in [PosixPool -> PosixTimerRecord] /\ \A q \in PosixPool \ {p} : v3[q] = v2[q]
      /\ v3[p] = [v2[p] EXCEPT !.next = d]
  BY <1>3, <1>6, NextSet
<1> HIDE DEF v3
<1>8. /\ v3[p].used = ptimer[p].used /\ v3[p].native = ptimer[p].native
      /\ v3[p].active = armed
  BY <1>4, <1>5, <1>6, <1>7 DEF PosixTimerRecord
<1> QED BY <1>1, <1>5, <1>6, <1>7, <1>8 DEF Written, armed

\* The first critical section of posix_timer_expired
LEMMA ExpiryWritten ==
    ASSUME PosixTimerType, TimersNow, NEW p \in PosixPool, ptimer' = Expired(p)
    PROVE  Written(ptimer', p, ptimer[p].used, ptimer[p].native,
                   IF ptimer[p].interval = 0 THEN FALSE ELSE ptimer[p].active)
<1>1. /\ ptimer \in [PosixPool -> PosixTimerRecord] /\ ptimer[p].interval \in 0 .. MaxTimeout
      /\ tick \in Ticks
  BY DEF PosixTimerType, PosixTimerRecord, TimersNow, Timers
<1>2. CASE ptimer[p].interval = 0
  <2> DEFINE off == FALSE
             v1 == [ptimer EXCEPT ![p].active = off]
             v2 == [v1 EXCEPT ![p].next = 0]
  <2>1. v2 = ptimer'
    <3>1. ptimer' = [ptimer EXCEPT ![p].active = FALSE, ![p].next = 0]
      BY <1>2 DEF Expired
    <3> QED BY <3>1, Zenon
  <2>2. off \in BOOLEAN /\ 0 \in Ticks
    BY ClockAssumption DEF Ticks
  <2> HIDE DEF off
  <2>3. /\ v1 \in [PosixPool -> PosixTimerRecord] /\ \A q \in PosixPool \ {p} : v1[q] = ptimer[q]
        /\ v1[p] = [ptimer[p] EXCEPT !.active = off]
    BY <1>1, <2>2, ArmedSet
  <2> HIDE DEF v1
  <2>4. /\ v2 \in [PosixPool -> PosixTimerRecord] /\ \A q \in PosixPool \ {p} : v2[q] = v1[q]
        /\ v2[p] = [v1[p] EXCEPT !.next = 0]
    BY <2>2, <2>3, NextSet
  <2> HIDE DEF v2
  <2>5. /\ v2[p].used = ptimer[p].used /\ v2[p].native = ptimer[p].native
        /\ v2[p].active = off
    BY <1>1, <2>2, <2>3, <2>4 DEF PosixTimerRecord
  <2>6. Written(ptimer', p, ptimer[p].used, ptimer[p].native, off)
    BY <2>1, <2>3, <2>4, <2>5 DEF Written
  <2> QED BY <1>2, <2>6, Zenon DEF off
<1>3. CASE ptimer[p].interval # 0
  <2> DEFINE d == TickAfter(tick, ptimer[p].interval)
  <2>1. d \in Ticks /\ ptimer' = [ptimer EXCEPT ![p].next = d]
    <3>1. ptimer[p].interval \in Nat
      BY <1>1, MaxTimeoutIs
    <3> QED BY <1>1, <1>3, <3>1, TickAfterType DEF Expired
  <2> HIDE DEF d
  <2>2. /\ ptimer' \in [PosixPool -> PosixTimerRecord]
        /\ \A q \in PosixPool \ {p} : ptimer'[q] = ptimer[q]
        /\ ptimer'[p] = [ptimer[p] EXCEPT !.next = d]
    BY <1>1, <2>1, NextSet
  <2>3. /\ ptimer'[p].used = ptimer[p].used /\ ptimer'[p].native = ptimer[p].native
        /\ ptimer'[p].active = ptimer[p].active
    BY <1>1, <2>1, <2>2 DEF PosixTimerRecord
  <2>4. Written(ptimer', p, ptimer[p].used, ptimer[p].native, ptimer[p].active)
    BY <2>2, <2>3 DEF Written
  <2> QED BY <1>3, <2>4, Zenon
<1> QED BY <1>2, <1>3

-----------------------------------------------------------------------------
(* A POSIX timer and its native timer agree.                               *)

\* A handle that a POSIX timer has, or had.
LEMMA HandleIs ==
    ASSUME NEW p, NEW h, NativeOf(p, h)
    PROVE  h # NoHandle /\ TimerValid(h) /\ h.slot \in Pool /\ h.gen \in Nat
<1>1. h # NoHandle /\ h \in Handles
  BY NoHandleApart DEF NativeOf
<1> QED BY <1>1 DEF NativeOf, TimerValid, Handles

\* Two handles that are valid are the same, or of different slots.
LEMMA SlotsApart ==
    ASSUME NEW p, NEW h, NativeOf(p, h), NEW q, NEW g, NativeOf(q, g)
    PROVE  /\ h.slot = g.slot => h = g /\ p = q
<1>1. ASSUME h.slot = g.slot PROVE h.gen = g.gen /\ p = q
  BY <1>1 DEF NativeOf
<1> QED BY <1>1 DEF NativeOf, Handles

LEMMA NativeStays ==
    ASSUME NEW p, NEW h, NativeOf(p, h), SameTimer(timer'[h.slot], timer[h.slot])
    PROVE  NativeOf(p, h)'
BY DEF NativeOf, SameTimer

\* What a step neither writes nor frees stays in step.
LEMMA OthersStay ==
    ASSUME NEW q \in PosixPool, NativeIs(q), InStep(q), ptimer'[q] = ptimer[q],
           "set" \notin crossed'[q] => "set" \notin crossed[q],
           AtRestart(q)' <=> AtRestart(q),
           AtRestart(q) => service'.restart = service.restart,
           ptimer[q].native # NoHandle =>
               LET i == ptimer[q].native.slot
               IN  /\ ptimer[q].native \notin dying' /\ SameTimer(timer'[i], timer[i])
                   /\ timer'[i].active = timer[i].active
    PROVE  NativeIs(q)' /\ InStep(q)'
<1> DEFINE h == ptimer[q].native
<1>1. ptimer'[q].native = h /\ ptimer'[q].used = ptimer[q].used
      /\ ptimer'[q].active = ptimer[q].active
  OBVIOUS
<1>2. CASE h = NoHandle
  <2>1. NativeIs(q)'
    BY <1>1, <1>2 DEF NativeIs
  <2>2. ~Created(q) /\ ~Created(q)'
    BY <1>1, <1>2 DEF Created
  <2>3. InStep(q)'
    BY <1>1, <2>2 DEF InStep
  <2> QED BY <2>1, <2>3
<1>3. CASE h # NoHandle
  <2>1. ptimer[q].used /\ NativeOf(q, h) /\ h \notin dying
    BY <1>3 DEF NativeIs
  <2>2. NativeOf(q, h)' /\ h \notin dying' /\ timer'[h.slot].active = timer[h.slot].active
    BY <1>3, <2>1, NativeStays
  <2>3. NativeIs(q)'
    BY <1>1, <1>3, <2>1, <2>2 DEF NativeIs
  <2>4. Created(q) /\ Created(q)'
    BY <1>1, <1>3, <2>1 DEF Created
  <2>5. Agree(q) => Agree(q)'
    BY <1>1, <2>2 DEF Agree
  <2>6. InStep(q)'
    BY <2>4, <2>5 DEF InStep
  <2> QED BY <2>3, <2>6
<1> QED BY <1>2, <1>3

LEMMA DyingStay ==
    ASSUME Dying, \A h \in dying' : h \in dying /\ SameTimer(timer'[h.slot], timer[h.slot])
    PROVE  Dying'
<1> SUFFICES ASSUME NEW h \in dying' PROVE \E p \in PosixPool : NativeOf(p, h)'
  BY DEF Dying
<1>1. PICK p \in PosixPool : NativeOf(p, h)
  BY DEF Dying
<1> QED BY <1>1, NativeStays

LEMMA Together ==
    ASSUME TimersNow', PosixTimerType', Dying',
           \A p \in PosixPool : NativeIs(p)' /\ InStep(p)'
    PROVE  PosixTimers'
BY DEF PosixTimers

LEMMA TimersUnchanged ==
    ASSUME TimersNow, UNCHANGED <<tick, timer, active, pending>>
    PROVE  TimersNow'
BY DEF TimersNow

LEMMA CrossedIs ==
    ASSUME crossed \in [PosixPool -> SUBSET Crossings], NEW p \in PosixPool, CrossedBySet(p)
    PROVE  /\ crossed' \in [PosixPool -> SUBSET Crossings]
           /\ \A q \in PosixPool \ {p} : crossed'[q] = crossed[q]
           /\ "set" \notin crossed'[p] => ~AtRestart(p)
<1> DEFINE x == IF InHand(p) \/ Lingers(p) THEN {"set"} ELSE {}
<1>1. crossed' = [crossed EXCEPT ![p] = x]
  BY DEF CrossedBySet
<1>2. x \in SUBSET Crossings /\ ("set" \notin x => ~AtRestart(p))
  BY DEF Crossings, InHand, AtRestart
<1> HIDE DEF x
<1> QED BY <1>1, <1>2

\* The places of the service
LEMMA ServiceAtIs ==
    ASSUME NEW place \in {"dispatch", "callback", "check", "waiting"}, NEW c \in Callbacks,
           service' = ServiceAt(place, c)
    PROVE  service' \in ServiceRecord /\ \A p : ~AtRestart(p)'
BY DEF ServiceAt, ServiceRecord, AtRestart

LEMMA AppIs == App \in Callbacks /\ App \notin PosixPool
BY PosixTimerAssumption DEF Callbacks

LEMMA CreateSlotKeeps ==
    ASSUME PosixTimers, NEW p \in PosixPool, CreateSlot(p)
    PROVE  PosixTimers'
<1>1. /\ TimersNow /\ PosixTimerType /\ Dying
      /\ \A q \in PosixPool : NativeIs(q) /\ InStep(q)
  BY DEF PosixTimers
<1>2. /\ tick' = tick /\ timer' = timer /\ active' = active /\ pending' = pending
      /\ service' = service /\ dying' = dying /\ CrossedBySet(p)
  BY DEF CreateSlot, timerVars
<1>3. Written(ptimer', p, TRUE, NoHandle, FALSE)
  BY <1>1, SlotCreated
<1>4. /\ crossed' \in [PosixPool -> SUBSET Crossings]
      /\ \A q \in PosixPool \ {p} : crossed'[q] = crossed[q]
      /\ "set" \notin crossed'[p] => ~AtRestart(p)
  BY <1>1, <1>2, CrossedIs DEF PosixTimerType
<1>5. TimersNow' /\ PosixTimerType'
  BY <1>1, <1>2, <1>3, <1>4, TimersUnchanged DEF PosixTimerType, Written
<1>6. Dying'
  BY <1>1, <1>2, DyingStay DEF SameTimer
<1>7. ASSUME NEW q \in PosixPool \ {p} PROVE NativeIs(q)' /\ InStep(q)'
  <2>1. ptimer[q].native # NoHandle => ptimer[q].native \notin dying
    BY <1>1 DEF NativeIs
  <2>2. ptimer'[q] = ptimer[q] /\ crossed'[q] = crossed[q] /\ (AtRestart(q)' <=> AtRestart(q))
    BY <1>2, <1>3, <1>4 DEF Written, AtRestart
  <2> QED BY <1>1, <1>2, <2>1, <2>2, OthersStay DEF SameTimer
<1>8. NativeIs(p)' /\ InStep(p)'
  <2>1. ptimer'[p].used /\ ptimer'[p].native = NoHandle /\ ~ptimer'[p].active
    BY <1>3 DEF Written
  <2>2. ~Created(p)' /\ (AtRestart(p)' <=> AtRestart(p))
    BY <1>2, <2>1 DEF Created, AtRestart
  <2> QED BY <1>4, <2>1, <2>2 DEF NativeIs, InStep
<1> QED BY <1>5, <1>6, <1>7, <1>8, Together

LEMMA CreateNativeKeeps ==
    ASSUME PosixTimers, NEW p \in PosixPool, CreateNative(p)
    PROVE  PosixTimers'
<1>1. /\ TimersNow /\ PosixTimerType /\ Dying
      /\ \A q \in PosixPool : NativeIs(q) /\ InStep(q)
      /\ ptimer \in [PosixPool -> PosixTimerRecord]
  BY DEF PosixTimers, PosixTimerType
<1>2. /\ dying' = dying /\ crossed' = crossed /\ service' = service /\ tick' = tick
      /\ ptimer[p].used /\ ptimer[p].native = NoHandle
  BY DEF CreateNative, timerVars
<1>3. ~ptimer[p].active /\ ~Created(p)
  BY <1>1, <1>2 DEF NativeIs, Created
<1>4. \A q : AtRestart(q)' <=> AtRestart(q)
  BY <1>2 DEF AtRestart
<1>5. CASE FreeTimers = {}
  <2> DEFINE off == FALSE
  <2>1. /\ ptimer' = [ptimer EXCEPT ![p].used = off]
        /\ timer' = timer /\ active' = active /\ pending' = pending
    BY <1>5 DEF CreateNative, timerVars
  <2>2. off \in BOOLEAN
    OBVIOUS
  <2> HIDE DEF off
  <2>3. /\ ptimer' \in [PosixPool -> PosixTimerRecord]
        /\ \A q \in PosixPool \ {p} : ptimer'[q] = ptimer[q]
        /\ ptimer'[p] = [ptimer[p] EXCEPT !.used = off]
    BY <1>1, <2>1, <2>2, UsedSet
  <2>4. ptimer'[p].used = off /\ ptimer'[p].native = ptimer[p].native
        /\ ptimer'[p].active = ptimer[p].active
    BY <1>1, <2>2, <2>3 DEF PosixTimerRecord
  <2>5. TimersNow' /\ PosixTimerType'
    BY <1>1, <1>2, <2>1, <2>3, TimersUnchanged DEF PosixTimerType
  <2>6. Dying'
    BY <1>1, <1>2, <2>1, DyingStay DEF SameTimer
  <2>7. ASSUME NEW q \in PosixPool \ {p} PROVE NativeIs(q)' /\ InStep(q)'
    <3>1. ptimer[q].native # NoHandle => ptimer[q].native \notin dying
      BY <1>1 DEF NativeIs
    <3> QED BY <1>1, <1>2, <1>4, <2>1, <2>3, <3>1, OthersStay DEF SameTimer
  <2>8. NativeIs(p)' /\ InStep(p)'
    <3>1. ~ptimer'[p].used /\ ptimer'[p].native = NoHandle /\ ~ptimer'[p].active
      BY <1>2, <1>3, <2>4 DEF off
    <3>2. ~Created(p)'
      BY <3>1 DEF Created
    <3> QED BY <3>1, <3>2 DEF NativeIs, InStep
  <2> QED BY <2>5, <2>6, <2>7, <2>8, Together
<1>6. CASE FreeTimers # {}
  <2>1. \E i \in FreeTimers :
           LET g == [slot |-> i, gen |-> timer[i].gen + 1]
           IN  TimerCreate(g, "PERIODIC", p) /\ ptimer' = [ptimer EXCEPT ![p].native = g]
    BY <1>6 DEF CreateNative
  <2>2. \A i \in FreeTimers : [slot |-> i, gen |-> timer[i].gen + 1] \in Handles
    BY <1>1 DEF FreeTimers, TimersNow, Timers, TimerRecord, Handles
  <2>11. PICK h \in Handles :
            TimerCreate(h, "PERIODIC", p) /\ ptimer' = [ptimer EXCEPT ![p].native = h]
    BY <2>1, <2>2
  <2> DEFINE i == h.slot
  <2>13. p \in Callbacks
    BY DEF Callbacks
  <2>3. /\ TimersNext /\ i \in Pool /\ ~timer[i].live /\ h.gen \in Nat
        /\ \A u \in Pool \ {i} : timer'[u] = timer[u]
        /\ timer'[i].live /\ timer'[i].gen = h.gen /\ timer'[i].type = "PERIODIC"
        /\ timer'[i].callback = p /\ ~timer'[i].active
    BY <1>1, <2>11, <2>13, CreateKeeps
  <2>4. NativeOf(p, h)'
    BY <2>3 DEF NativeOf
  <2>5. /\ ptimer' \in [PosixPool -> PosixTimerRecord]
        /\ \A q \in PosixPool \ {p} : ptimer'[q] = ptimer[q]
        /\ ptimer'[p] = [ptimer[p] EXCEPT !.native = h]
    BY <1>1, <2>11, NativeSet
  <2>6. ptimer'[p].used = ptimer[p].used /\ ptimer'[p].native = h
        /\ ptimer'[p].active = ptimer[p].active
    BY <1>1, <2>5 DEF PosixTimerRecord
  <2>7. TimersNow' /\ PosixTimerType'
    BY <1>1, <1>2, <2>3, <2>5 DEF PosixTimerType, TimersNow, TimersNext
  <2>8. \A q, g : NativeOf(q, g) => g.slot \in Pool \ {i}
    BY <2>3 DEF NativeOf, Handles
  <2>9. Dying' /\ h \notin dying
    <3>1. \A g \in dying : g.slot \in Pool \ {i}
      BY <1>1, <2>8 DEF Dying
    <3> QED BY <1>1, <1>2, <2>3, <3>1, DyingStay DEF SameTimer
  <2>10. ASSUME NEW q \in PosixPool \ {p} PROVE NativeIs(q)' /\ InStep(q)'
    <3>1. ptimer[q].native # NoHandle =>
             ptimer[q].native \notin dying /\ ptimer[q].native.slot \in Pool \ {i}
      BY <1>1, <2>8 DEF NativeIs
    <3> QED BY <1>1, <1>2, <1>4, <2>3, <2>5, <3>1, OthersStay DEF SameTimer
  <2>12. NativeIs(p)' /\ InStep(p)'
    <3>1. h # NoHandle
      BY NoHandleApart
    <3>2. NativeIs(p)'
      BY <1>2, <2>4, <2>6, <2>9, <3>1 DEF NativeIs
    <3>3. ~timer'[ptimer'[p].native.slot].active /\ ~ptimer'[p].active
      BY <1>3, <2>3, <2>6
    <3>4. "set" \notin crossed'[p] => ~AtRestart(p)'
      BY <1>1, <1>2, <1>3, <1>4 DEF InStep
    <3>5. Created(p)'
      BY <1>2, <2>6, <3>1 DEF Created
    <3> QED BY <3>2, <3>3, <3>4, <3>5 DEF InStep, Agree
  <2> QED BY <2>7, <2>9, <2>10, <2>12, Together
<1> QED BY <1>5, <1>6

LEMMA DeleteSlotKeeps ==
    ASSUME PosixTimers, NEW p \in PosixPool, DeleteSlot(p)
    PROVE  PosixTimers'
<1>1. /\ TimersNow /\ PosixTimerType /\ Dying
      /\ \A q \in PosixPool : NativeIs(q) /\ InStep(q)
      /\ ptimer[p].native # NoHandle
  BY DEF PosixTimers, DeleteSlot, Created
<1>2. PICK h : h = ptimer[p].native
  OBVIOUS
<1>3. /\ tick' = tick /\ timer' = timer /\ active' = active /\ pending' = pending
      /\ service' = service /\ crossed' = crossed /\ dying' = dying \union {h}
  BY <1>2 DEF DeleteSlot, timerVars
<1>4. Written(ptimer', p, FALSE, NoHandle, FALSE)
  BY <1>1, SlotDeleted
<1>5. NativeOf(p, h)
  BY <1>1, <1>2 DEF NativeIs
<1>6. TimersNow' /\ PosixTimerType'
  <2>1. h \in Handles
    BY <1>5 DEF NativeOf
  <2> QED BY <1>1, <1>3, <1>4, <2>1, TimersUnchanged DEF PosixTimerType, Written
<1>7. Dying'
  <2> SUFFICES ASSUME NEW g \in dying' PROVE \E q \in PosixPool : NativeOf(q, g)'
    BY DEF Dying
  <2>1. PICK q \in PosixPool : NativeOf(q, g)
    BY <1>1, <1>3, <1>5 DEF Dying
  <2> QED BY <1>3, <2>1, NativeStays DEF SameTimer
<1>8. ASSUME NEW q \in PosixPool \ {p} PROVE NativeIs(q)' /\ InStep(q)'
  <2>1. ptimer[q].native # NoHandle => ptimer[q].native \notin dying'
    <3> SUFFICES ASSUME ptimer[q].native # NoHandle PROVE ptimer[q].native \notin dying'
      OBVIOUS
    <3>1. ptimer[q].native \notin dying /\ NativeOf(q, ptimer[q].native)
      BY <1>1 DEF NativeIs
    <3>2. ptimer[q].native # h
      BY <1>5, <1>8, <3>1 DEF NativeOf
    <3> QED BY <1>3, <3>1, <3>2
  <2>2. ptimer'[q] = ptimer[q] /\ (AtRestart(q)' <=> AtRestart(q))
    BY <1>3, <1>4 DEF Written, AtRestart
  <2> QED BY <1>1, <1>3, <2>1, <2>2, OthersStay DEF SameTimer
<1>9. NativeIs(p)' /\ InStep(p)'
  <2>1. ~ptimer'[p].used /\ ptimer'[p].native = NoHandle /\ ~ptimer'[p].active
    BY <1>4 DEF Written
  <2>2. ~Created(p)'
    BY <2>1 DEF Created
  <2> QED BY <2>1, <2>2 DEF NativeIs, InStep
<1> QED BY <1>6, <1>7, <1>8, <1>9, Together

LEMMA DeleteNativeKeeps ==
    ASSUME PosixTimers, NEW h \in dying, DeleteNative(h)
    PROVE  PosixTimers'
<1>1. /\ TimersNow /\ PosixTimerType /\ Dying
      /\ \A q \in PosixPool : NativeIs(q) /\ InStep(q)
  BY DEF PosixTimers
<1>2. /\ tick' = tick /\ service' = service /\ ptimer' = ptimer /\ crossed' = crossed
      /\ dying' = dying \ {h} /\ TimerDelete(h)
  BY DEF DeleteNative
<1>3. PICK p \in PosixPool : NativeOf(p, h)
  BY <1>1 DEF Dying
<1>4. h.slot \in Pool /\ h.gen \in Nat
  BY <1>3, HandleIs
<1>5. TimersNext /\ \A u \in Pool \ {h.slot} : timer'[u] = timer[u]
  BY <1>1, <1>2, <1>4, DeleteKeeps
<1>6. TimersNow' /\ PosixTimerType'
  BY <1>1, <1>2, <1>5 DEF PosixTimerType, TimersNow, TimersNext
<1>7. \A q, g : NativeOf(q, g) /\ g # h => g.slot \in Pool \ {h.slot}
  BY <1>3, HandleIs, SlotsApart
<1>8. Dying'
  <2>1. \A g \in dying' : g \in dying /\ g.slot \in Pool \ {h.slot}
    BY <1>1, <1>2, <1>7 DEF Dying
  <2> QED BY <1>1, <1>5, <2>1, DyingStay DEF SameTimer
<1>9. ASSUME NEW q \in PosixPool PROVE NativeIs(q)' /\ InStep(q)'
  <2>1. ptimer[q].native # NoHandle =>
           ptimer[q].native \notin dying' /\ ptimer[q].native.slot \in Pool \ {h.slot}
    BY <1>1, <1>2, <1>7 DEF NativeIs
  <2>2. AtRestart(q)' <=> AtRestart(q)
    BY <1>2 DEF AtRestart
  <2> QED BY <1>1, <1>2, <1>5, <2>1, <2>2, OthersStay DEF SameTimer
<1> QED BY <1>6, <1>8, <1>9, Together

\* A native timer of p has been started or stopped; nothing else has happened
\* to the timers.
ArmedOnly(i, on) ==
    /\ \A u \in Pool : /\ SameTimer(timer'[u], timer[u])
                       /\ u # i => timer'[u] = timer[u]
    /\ timer'[i].active <=> on

LEMMA SettimeKeeps ==
    ASSUME PosixTimers, NEW p \in PosixPool,
           NEW initial \in Milliseconds \union {0}, NEW interval \in Milliseconds \union {0},
           Settime(p, initial, interval)
    PROVE  PosixTimers'
<1>0. PICK h : h = ptimer[p].native
  OBVIOUS
<1>1. /\ TimersNow /\ PosixTimerType /\ Dying
      /\ \A q \in PosixPool : NativeIs(q) /\ InStep(q)
      /\ h # NoHandle /\ initial \in Nat /\ interval \in Nat
  BY <1>0, TimerAssumption DEF PosixTimers, Settime, Created
<1>2. /\ tick' = tick /\ service' = service /\ dying' = dying /\ CrossedBySet(p)
      /\ ptimer' = SetTime(p, initial, interval)
      /\ initial = 0 => TimerStop(h)
      /\ initial # 0 => TimerRestart(h, initial)
  BY <1>0 DEF Settime
<1>3. Written(ptimer', p, ptimer[p].used, h, initial # 0)
  BY <1>1, <1>2, <1>0, TimeIsSet
<1>4. NativeOf(p, h) /\ h \notin dying /\ ptimer[p].used
  BY <1>1, <1>0 DEF NativeIs
<1>5. h.slot \in Pool /\ timer[h.slot].live
  BY <1>4, HandleIs DEF NativeOf
<1>6. /\ crossed' \in [PosixPool -> SUBSET Crossings]
      /\ \A q \in PosixPool \ {p} : crossed'[q] = crossed[q]
      /\ "set" \notin crossed'[p] => ~AtRestart(p)
  BY <1>1, <1>2, CrossedIs DEF PosixTimerType
<1>7. TimersNext /\ ArmedOnly(h.slot, initial # 0)
  <2>1. CASE initial = 0
    BY <1>1, <1>2, <1>5, <2>1, StopKeeps DEF ArmedOnly
  <2>2. CASE initial # 0
    BY <1>1, <1>2, <1>5, <2>2, RestartKeeps DEF ArmedOnly
  <2> QED BY <2>1, <2>2
<1>8. \A u \in Pool : /\ SameTimer(timer'[u], timer[u])
                      /\ u # h.slot => timer'[u] = timer[u]
  BY <1>7 DEF ArmedOnly
<1>9. TimersNow' /\ PosixTimerType'
  BY <1>1, <1>2, <1>3, <1>6, <1>7 DEF PosixTimerType, TimersNow, TimersNext, Written
<1>10. Dying'
  <2>1. \A g \in dying' : g \in dying /\ g.slot \in Pool
    BY <1>1, <1>2 DEF PosixTimerType, Handles
  <2> QED BY <1>1, <1>8, <2>1, DyingStay
<1>11. \A q : AtRestart(q)' <=> AtRestart(q)
  BY <1>2 DEF AtRestart
<1>12. ASSUME NEW q \in PosixPool \ {p} PROVE NativeIs(q)' /\ InStep(q)'
  <2>1. ptimer[q].native # NoHandle =>
           /\ ptimer[q].native \notin dying
           /\ ptimer[q].native.slot \in Pool /\ ptimer[q].native.slot # h.slot
    BY <1>1, <1>4, HandleIs, SlotsApart DEF NativeIs
  <2>2. ptimer'[q] = ptimer[q]
    BY <1>3 DEF Written
  <2> QED BY <1>1, <1>2, <1>6, <1>8, <1>11, <2>1, <2>2, OthersStay
<1>13. NativeIs(p)' /\ InStep(p)'
  <2>1. /\ ptimer'[p].used /\ ptimer'[p].native = h /\ (ptimer'[p].active <=> initial # 0)
    BY <1>3, <1>4 DEF Written
  <2>2. NativeOf(p, h)'
    BY <1>4, <1>5, <1>8, NativeStays
  <2>3. NativeIs(p)'
    BY <1>1, <1>2, <1>4, <2>1, <2>2 DEF NativeIs
  <2>4. Agree(p)' \/ "set" \in crossed'[p]
    BY <1>6, <1>7, <1>11, <2>1 DEF Agree, ArmedOnly
  <2>5. Created(p)'
    BY <1>1, <2>1 DEF Created
  <2> QED BY <2>3, <2>4, <2>5 DEF InStep
<1> QED BY <1>9, <1>10, <1>12, <1>13, Together

\* A timer of the application has been created, started, stopped or deleted.
AppEffect(i) ==
    /\ i \in Pool /\ \A u \in Pool \ {i} : timer'[u] = timer[u]
    /\ timer[i].live => timer[i].callback = App
    /\ timer'[i].live => timer'[i].callback = App

LEMMA AppCallsEffect ==
    ASSUME TimersNow, AppCalls
    PROVE  TimersNext /\ \E i : AppEffect(i)
<1>2. CASE \E i \in FreeTimers, type \in {"ONESHOT", "PERIODIC"} :
              TimerCreate([slot |-> i, gen |-> timer[i].gen + 1], type, App)
  <2>1. PICK type \in {"ONESHOT", "PERIODIC"} : \E h : TimerCreate(h, type, App)
    BY <1>2
  <2>2. PICK h : TimerCreate(h, type, App)
    BY <2>1
  <2>3. /\ TimersNext /\ h.slot \in Pool /\ ~timer[h.slot].live
        /\ timer'[h.slot].callback = App
        /\ \A u \in Pool \ {h.slot} : timer'[u] = timer[u]
    BY <2>2, AppIs, CreateKeeps
  <2> QED BY <2>3 DEF AppEffect
<1>3. ASSUME NEW i \in AppTimers, NEW h, h = [slot |-> i, gen |-> timer[i].gen],
             (\E ms \in Milliseconds : TimerStart(h, ms)) \/ TimerStop(h) \/ TimerDelete(h)
      PROVE  TimersNext /\ \E j : AppEffect(j)
  <2>1. h.slot = i /\ h.gen = timer[i].gen /\ i \in Pool /\ timer[i].live
        /\ timer[i].callback = App
    BY <1>3 DEF AppTimers
  <2>2. h.gen \in Nat
    BY <2>1 DEF TimersNow, Timers, TimerRecord
  <2>3. CASE \E ms \in Milliseconds : TimerStart(h, ms)
    <3>1. PICK ms \in Milliseconds : TimerStart(h, ms)
      BY <2>3
    <3>2. ms \in Nat \ {0}
      BY TimerAssumption
    <3>3. TimersNext /\ SameTimer(timer'[i], timer[i])
          /\ \A u \in Pool \ {i} : timer'[u] = timer[u]
      BY <2>1, <3>1, <3>2, StartKeeps
    <3> QED BY <2>1, <3>3 DEF AppEffect, SameTimer
  <2>4. CASE TimerStop(h)
    <3>1. TimersNext /\ SameTimer(timer'[i], timer[i])
          /\ \A u \in Pool \ {i} : timer'[u] = timer[u]
      BY <2>1, <2>4, StopKeeps
    <3> QED BY <2>1, <3>1 DEF AppEffect, SameTimer
  <2>5. CASE TimerDelete(h)
    <3>1. TimersNext /\ ~timer'[i].live /\ \A u \in Pool \ {i} : timer'[u] = timer[u]
      BY <2>1, <2>2, <2>5, DeleteKeeps
    <3> QED BY <2>1, <3>1 DEF AppEffect
  <2> QED BY <1>3, <2>3, <2>4, <2>5
<1> QED BY <1>2, <1>3 DEF AppCalls

LEMMA AppCallsKeep ==
    ASSUME PosixTimers, AppCalls
    PROVE  PosixTimers'
<1>1. /\ TimersNow /\ PosixTimerType /\ Dying
      /\ \A q \in PosixPool : NativeIs(q) /\ InStep(q)
      /\ UNCHANGED <<tick, service, ptimer, dying, crossed>>
  BY DEF PosixTimers, AppCalls
<1>2. TimersNext
  BY <1>1, AppCallsEffect
<1>3. PICK i : AppEffect(i)
  BY <1>1, AppCallsEffect
<1>4. TimersNow' /\ PosixTimerType'
  BY <1>1, <1>2 DEF PosixTimerType, TimersNow, TimersNext
<1>5. \A q \in PosixPool : \A g : NativeOf(q, g) => g.slot \in Pool \ {i}
  BY <1>3, HandleIs, AppIs DEF NativeOf, AppEffect
<1>6. \A u \in Pool \ {i} : timer'[u] = timer[u]
  BY <1>3 DEF AppEffect
<1>7. Dying'
  <2>1. \A g \in dying' : g \in dying /\ g.slot \in Pool \ {i}
    BY <1>1, <1>5 DEF Dying
  <2> QED BY <1>1, <1>6, <2>1, DyingStay DEF SameTimer
<1>8. ASSUME NEW q \in PosixPool PROVE NativeIs(q)' /\ InStep(q)'
  <2>1. ptimer[q].native # NoHandle =>
           ptimer[q].native \notin dying' /\ ptimer[q].native.slot \in Pool \ {i}
    BY <1>1, <1>5 DEF NativeIs
  <2>2. AtRestart(q)' <=> AtRestart(q)
    BY <1>1 DEF AtRestart
  <2> QED BY <1>1, <1>6, <2>1, <2>2, OthersStay DEF SameTimer
<1> QED BY <1>4, <1>7, <1>8, Together

LEMMA PosixExpiredKeeps ==
    ASSUME PosixTimers, NEW p \in PosixPool, PosixExpired(p)
    PROVE  PosixTimers'
<1>1. /\ TimersNow /\ PosixTimerType /\ Dying
      /\ \A q \in PosixPool : NativeIs(q) /\ InStep(q)
      /\ service \in ServiceRecord /\ service.at = "callback" /\ service.callback = p
  BY DEF PosixTimers, PosixTimerType, PosixExpired
<1>2. /\ tick' = tick /\ timer' = timer /\ active' = active /\ pending' = pending
      /\ dying' = dying /\ crossed' = crossed
  BY DEF PosixExpired
<1>3. \A q : ~AtRestart(q)
  BY <1>1 DEF AtRestart
<1>4. TimersNow' /\ Dying'
  BY <1>1, <1>2, TimersUnchanged, DyingStay DEF SameTimer
<1>5. ASSUME NEW q \in PosixPool, ptimer'[q] = ptimer[q], ~AtRestart(q)'
      PROVE  NativeIs(q)' /\ InStep(q)'
  <2>1. ptimer[q].native # NoHandle => ptimer[q].native \notin dying
    BY <1>1 DEF NativeIs
  <2> QED BY <1>1, <1>2, <1>3, <1>5, <2>1, OthersStay DEF SameTimer
<1>6. CASE ptimer[p].used /\ ptimer[p].active
  <2> DEFINE place == "restart"
             ms == TicksToMs(ptimer[p].interval)
             s1 == [service EXCEPT !.at = place]
             s2 == [s1 EXCEPT !.restart = ms]
             n == ptimer[p].interval
  <2>1. ptimer' = Expired(p) /\ service' = s2
    BY <1>6, Zenon DEF PosixExpired
  <2>2. n \in 0 .. MaxTimeout /\ n \in Nat
    BY <1>1, MaxTimeoutIs DEF PosixTimerType, PosixTimerRecord
  <2>3. ms \in Nat /\ (ms # 0 <=> n # 0)
    <3>1. CASE n = 0
      <4>1. (0 * 1000 + TickHz - 1) \div TickHz = 0
        BY TimerAssumption
      <4> QED BY <3>1, <4>1 DEF TicksToMs, CeilingDiv
    <3>2. CASE n # 0
      BY <2>2, <3>2, TicksToMsIs
    <3> QED BY <3>1, <3>2
  <2>4. Written(ptimer', p, ptimer[p].used, ptimer[p].native,
                IF n = 0 THEN FALSE ELSE ptimer[p].active)
    BY <1>1, <2>1, ExpiryWritten
  <2> HIDE DEF n, ms
  <2>5. s1 \in ServiceRecord /\ s1.at = "restart" /\ s1.callback = p
    BY <1>1 DEF ServiceRecord
  <2> HIDE DEF s1
  <2>6. /\ service' \in ServiceRecord /\ service'.at = "restart"
        /\ service'.callback = p /\ service'.restart = ms
    BY <2>1, <2>3, <2>5 DEF ServiceRecord
  <2>7. PosixTimerType'
    BY <1>1, <1>2, <2>4, <2>6 DEF PosixTimerType, Written
  <2>8. ASSUME NEW q \in PosixPool \ {p} PROVE NativeIs(q)' /\ InStep(q)'
    BY <1>5, <2>4, <2>6 DEF Written, AtRestart
  <2>9. NativeIs(p)' /\ InStep(p)'
    <3>1. /\ ptimer'[p].used /\ ptimer'[p].native = ptimer[p].native
          /\ ptimer'[p].active <=> n # 0
      BY <1>6, <2>4 DEF Written
    <3>2. ptimer[p].native # NoHandle /\ Created(p)
      BY <1>1, <1>6 DEF NativeIs, Created
    <3>3. NativeIs(p)'
      BY <1>1, <1>2, <3>1, <3>2 DEF NativeIs, NativeOf
    <3>4. "set" \notin crossed[p] => timer[ptimer[p].native.slot].active
      BY <1>1, <1>6, <3>2 DEF InStep, Agree
    <3>5. Created(p)' /\ AtRestart(p)'
      BY <2>6, <3>1, <3>2 DEF Created, AtRestart
    <3>6. "set" \notin crossed'[p] => Agree(p)'
      BY <1>2, <2>3, <2>6, <3>1, <3>4, <3>5 DEF Agree
    <3> QED BY <3>3, <3>5, <3>6 DEF InStep
  <2> QED BY <1>4, <2>7, <2>8, <2>9, Together
<1>7. CASE ~(ptimer[p].used /\ ptimer[p].active)
  <2>1. ptimer' = ptimer /\ service' = ServiceAt("dispatch", App)
    BY <1>7 DEF PosixExpired
  <2>2. service' \in ServiceRecord /\ \A q : ~AtRestart(q)'
    BY <2>1, AppIs, ServiceAtIs
  <2>3. PosixTimerType'
    BY <1>1, <1>2, <2>1, <2>2 DEF PosixTimerType
  <2> QED BY <1>4, <1>5, <2>1, <2>2, <2>3, Together
<1> QED BY <1>6, <1>7

LEMMA PosixRestartKeeps ==
    ASSUME PosixTimers, NEW p \in PosixPool, PosixRestart(p)
    PROVE  PosixTimers'
<1>0. PICK h : h = ptimer[p].native
  OBVIOUS
<1>1. /\ TimersNow /\ PosixTimerType /\ Dying
      /\ \A q \in PosixPool : NativeIs(q) /\ InStep(q)
      /\ service \in ServiceRecord /\ AtRestart(p)
  BY DEF PosixTimers, PosixTimerType, PosixRestart, AtRestart
<1>2. /\ tick' = tick /\ ptimer' = ptimer /\ dying' = dying /\ crossed' = crossed
      /\ service' = ServiceAt("dispatch", App)
      /\ IF ~TimerValid(h)
         THEN UNCHANGED <<timer, active, pending>>
         ELSE IF Restarts(p) THEN TimerStart(h, service.restart) ELSE TimerStop(h)
  BY <1>0 DEF PosixRestart
<1>3. service' \in ServiceRecord /\ \A q : ~AtRestart(q)'
  BY <1>2, AppIs, ServiceAtIs
<1>4. \A q : q # p => ~AtRestart(q)
  BY <1>1 DEF AtRestart
<1>5. PosixTimerType'
  BY <1>1, <1>2, <1>3 DEF PosixTimerType
<1>6. ASSUME NEW q \in PosixPool, q # p,
             ptimer[q].native # NoHandle =>
                 LET i == ptimer[q].native.slot
                 IN  SameTimer(timer'[i], timer[i]) /\ timer'[i].active = timer[i].active
      PROVE  NativeIs(q)' /\ InStep(q)'
  <2>1. ptimer[q].native # NoHandle => ptimer[q].native \notin dying
    BY <1>1 DEF NativeIs
  <2> QED BY <1>1, <1>2, <1>3, <1>4, <1>6, <2>1, OthersStay
<1>7. CASE h = NoHandle
  <2>1. timer' = timer /\ active' = active /\ pending' = pending
    BY <1>2, <1>7 DEF TimerValid
  <2>2. TimersNow' /\ Dying'
    BY <1>1, <1>2, <2>1, TimersUnchanged, DyingStay DEF SameTimer
  <2>3. \A q \in PosixPool : q # p => NativeIs(q)' /\ InStep(q)'
    BY <1>6, <2>1 DEF SameTimer
  <2>4. NativeIs(p)'
    BY <1>0, <1>1, <1>2, <1>7 DEF NativeIs
  <2>5. ~Created(p)'
    BY <1>0, <1>2, <1>7 DEF Created
  <2>6. InStep(p)'
    BY <1>3, <2>5 DEF InStep
  <2> QED BY <1>5, <2>2, <2>3, <2>4, <2>6, Together
<1>8. CASE h # NoHandle
  <2>1. NativeOf(p, h) /\ h \notin dying /\ ptimer[p].used
    BY <1>0, <1>1, <1>8 DEF NativeIs
  <2>2. TimerValid(h) /\ h.slot \in Pool /\ timer[h.slot].live
    BY <2>1, HandleIs DEF NativeOf
  <2>3. TimersNext /\ ArmedOnly(h.slot, service.restart # 0)
    <3>1. CASE service.restart # 0
      <4>1. service.restart \in Nat \ {0} /\ TimerStart(h, service.restart)
        BY <1>1, <1>2, <2>2, <3>1 DEF ServiceRecord, Restarts
      <4> QED BY <1>1, <2>2, <3>1, <4>1, StartKeeps DEF ArmedOnly
    <3>2. CASE service.restart = 0
      <4>1. TimerStop(h)
        BY <1>2, <2>2, <3>2 DEF Restarts
      <4> QED BY <1>1, <2>2, <3>2, <4>1, StopKeeps DEF ArmedOnly
    <3> QED BY <3>1, <3>2
  <2>4. \A u \in Pool : /\ SameTimer(timer'[u], timer[u])
                        /\ u # h.slot => timer'[u] = timer[u]
    BY <2>3 DEF ArmedOnly
  <2>5. TimersNow'
    BY <1>2, <2>3 DEF TimersNow, TimersNext
  <2>6. Dying'
    <3>1. \A g \in dying' : g \in dying /\ g.slot \in Pool
      BY <1>1, <1>2 DEF PosixTimerType, Handles
    <3> QED BY <1>1, <2>4, <3>1, DyingStay
  <2>7. ASSUME NEW q \in PosixPool, q # p PROVE NativeIs(q)' /\ InStep(q)'
    <3>1. ptimer[q].native # NoHandle =>
             ptimer[q].native.slot \in Pool /\ ptimer[q].native.slot # h.slot
      BY <1>1, <2>1, <2>7, HandleIs, SlotsApart DEF NativeIs
    <3> QED BY <1>6, <2>4, <2>7, <3>1
  <2>8. NativeIs(p)' /\ InStep(p)'
    <3>1. NativeOf(p, h)'
      BY <2>1, <2>2, <2>4, NativeStays
    <3>2. NativeIs(p)'
      BY <1>0, <1>2, <1>8, <2>1, <3>1 DEF NativeIs
    <3>3. Created(p) /\ Created(p)'
      BY <1>0, <1>2, <1>8, <2>1 DEF Created
    <3>4. "set" \notin crossed[p] => (service.restart # 0 <=> ptimer[p].active)
      BY <1>1, <3>3 DEF InStep, Agree
    <3>5. "set" \notin crossed'[p] => Agree(p)'
      BY <1>0, <1>2, <1>3, <2>3, <3>4 DEF Agree, ArmedOnly
    <3> QED BY <3>2, <3>3, <3>5 DEF InStep
  <2> QED BY <1>5, <2>5, <2>6, <2>7, <2>8, Together
<1> QED BY <1>7, <1>8

LEMMA PosixTickKeeps ==
    ASSUME PosixTimers, Tick
    PROVE  PosixTimers'
<1>1. /\ TimersNow /\ PosixTimerType /\ Dying
      /\ \A q \in PosixPool : NativeIs(q) /\ InStep(q)
  BY DEF PosixTimers
<1>2. TimerTick /\ ptimer' = ptimer /\ dying' = dying
  BY DEF Tick
<1>3. /\ TimersNow'
      /\ \A u \in Pool : /\ SameTimer(timer'[u], timer[u])
                         /\ Periodic(u) => timer'[u].active = timer[u].active
  BY <1>1, <1>2, TickKeeps DEF TimersNow
<1>4. /\ crossed' \in [PosixPool -> SUBSET Crossings]
      /\ \A q \in PosixPool : "set" \notin crossed'[q] => "set" \notin crossed[q]
  <2> DEFINE new(q) == IF InHand(q) /\ ptimer[q].interval # 0 /\ Created(q)
                          /\ timer'[ptimer[q].native.slot].pending
                       THEN crossed[q] \union {"expired"} ELSE crossed[q]
  <2>1. crossed' = [q \in PosixPool |-> new(q)]
    BY DEF Tick
  <2>2. \A q \in PosixPool : new(q) \in SUBSET Crossings /\ crossed[q] \subseteq new(q)
    BY <1>1 DEF PosixTimerType, Crossings
  <2> HIDE DEF new
  <2> QED BY <2>1, <2>2
<1>5. /\ service' \in ServiceRecord
      /\ \A q : AtRestart(q)' <=> AtRestart(q)
      /\ \A q : AtRestart(q) => service'.restart = service.restart
  <2>1. CASE service' = service
    BY <1>1, <2>1 DEF PosixTimerType, AtRestart
  <2>2. CASE service' # service
    <3>1. service.at = "waiting" /\ service' = ServiceAt("dispatch", App)
      BY <1>2, <2>2 DEF TimerTick
    <3>2. service' \in ServiceRecord /\ \A q : ~AtRestart(q)'
      BY <3>1, AppIs, ServiceAtIs
    <3>3. \A q : ~AtRestart(q)
      BY <3>1 DEF AtRestart
    <3> QED BY <3>2, <3>3
  <2> QED BY <2>1, <2>2
<1>6. PosixTimerType'
  BY <1>1, <1>2, <1>4, <1>5 DEF PosixTimerType
<1>7. Dying'
  <2>1. \A g \in dying' : g \in dying /\ g.slot \in Pool
    BY <1>1, <1>2 DEF PosixTimerType, Handles
  <2> QED BY <1>1, <1>3, <2>1, DyingStay
<1>8. ASSUME NEW q \in PosixPool PROVE NativeIs(q)' /\ InStep(q)'
  <2>1. ptimer[q].native # NoHandle =>
           /\ ptimer[q].native \notin dying /\ ptimer[q].native.slot \in Pool
           /\ Periodic(ptimer[q].native.slot)
    BY <1>1, HandleIs DEF NativeIs, NativeOf, Periodic
  <2> QED BY <1>1, <1>2, <1>3, <1>4, <1>5, <2>1, OthersStay
<1> QED BY <1>3, <1>6, <1>7, <1>8, Together

\* The steps of the service but for the callback of a POSIX timer
LEMMA ServiceKeeps ==
    ASSUME PosixTimers, Dispatch \/ AppCallback \/ ServiceWait,
           UNCHANGED <<ptimer, dying, crossed>>
    PROVE  PosixTimers'
<1>1. /\ TimersNow /\ PosixTimerType /\ Dying
      /\ \A q \in PosixPool : NativeIs(q) /\ InStep(q)
  BY DEF PosixTimers
<1>2. /\ TimersNow' /\ \E place \in {"dispatch", "callback", "check", "waiting"}, c \in Callbacks :
                           service' = ServiceAt(place, c)
      /\ \A u \in Pool : SameTimer(timer'[u], timer[u]) /\ timer'[u].active = timer[u].active
  <2>1. CASE Dispatch
    <3>1. \A u \in Pool : timer[u].callback \in Callbacks
      BY <1>1 DEF TimersNow, Timers, TimerRecord
    <3> QED BY <1>1, <2>1, <3>1, AppIs, DispatchKeeps DEF TimersNow
  <2>2. CASE AppCallback \/ ServiceWait
    <3>1. tick' = tick /\ timer' = timer /\ active' = active /\ pending' = pending
      BY <2>2 DEF AppCallback, ServiceWait
    <3>2. service' = ServiceAt("dispatch", App) \/ service' = ServiceAt("waiting", App)
      BY <2>2 DEF AppCallback, ServiceWait
    <3> QED BY <1>1, <3>1, <3>2, AppIs, TimersUnchanged DEF SameTimer
  <2> QED BY <2>1, <2>2
<1>3. service.at # "restart"
  BY DEF Dispatch, AppCallback, ServiceWait
<1>4. service' \in ServiceRecord /\ \A q : ~AtRestart(q) /\ ~AtRestart(q)'
  BY <1>2, <1>3, ServiceAtIs DEF AtRestart
<1>5. PosixTimerType'
  BY <1>1, <1>4 DEF PosixTimerType
<1>6. Dying'
  <2>1. \A g \in dying' : g \in dying /\ g.slot \in Pool
    BY <1>1 DEF PosixTimerType, Handles
  <2> QED BY <1>1, <1>2, <2>1, DyingStay
<1>7. ASSUME NEW q \in PosixPool PROVE NativeIs(q)' /\ InStep(q)'
  <2>1. ptimer[q].native # NoHandle =>
           ptimer[q].native \notin dying /\ ptimer[q].native.slot \in Pool
    BY <1>1, HandleIs DEF NativeIs
  <2> QED BY <1>1, <1>2, <1>4, <2>1, OthersStay
<1> QED BY <1>2, <1>5, <1>6, <1>7, Together

LEMMA PosixTimersStart ==
    ASSUME PosixTimerInit
    PROVE  PosixTimers
<1>1. /\ TimerInit /\ ptimer = [p \in PosixPool |-> Unused(0)] /\ dying = {}
      /\ crossed = [p \in PosixPool |-> {}]
  BY DEF PosixTimerInit
<1>2. TimersNow /\ service = ServiceAt("dispatch", App)
  BY <1>1, TimersStart DEF TimerInit
<1>3. /\ Unused(0) \in PosixTimerRecord /\ ~Unused(0).used /\ ~Unused(0).active
      /\ Unused(0).native = NoHandle
  <2>1. 0 \in Ticks /\ 0 \in 0 .. MaxTimeout
    BY ClockAssumption, MaxTimeoutIs DEF Ticks
  <2> QED BY <2>1 DEF Unused, PosixTimerRecord
<1>4. service \in ServiceRecord
  BY <1>2, AppIs DEF ServiceAt, ServiceRecord
<1>5. PosixTimerType
  BY <1>1, <1>3, <1>4 DEF PosixTimerType
<1>6. \A p \in PosixPool : NativeIs(p) /\ InStep(p)
  BY <1>1, <1>3 DEF NativeIs, InStep, Created
<1> QED BY <1>1, <1>2, <1>5, <1>6 DEF PosixTimers, Dying

LEMMA PosixTimersStep ==
    ASSUME PosixTimers, [PosixTimerNext]_posixTimerVars
    PROVE  PosixTimers'
<1>1. CASE Tick
  BY <1>1, PosixTickKeeps
<1>2. CASE Service
  BY <1>2, ServiceKeeps, PosixExpiredKeeps, PosixRestartKeeps DEF Service
<1>3. CASE Calls
  BY <1>3, AppCallsKeep, CreateSlotKeeps, CreateNativeKeeps, DeleteSlotKeeps,
     SettimeKeeps, DeleteNativeKeeps DEF Calls
<1>4. CASE UNCHANGED posixTimerVars
  BY <1>4 DEF posixTimerVars, timerVars, PosixTimers, TimersNow, PosixTimerType, Dying,
     NativeIs, NativeOf, InStep, Created, Agree, AtRestart
<1> QED BY <1>1, <1>2, <1>3, <1>4 DEF PosixTimerNext

\* The strengthening of the two theorems below is an invariant: the lists of the
\* software timers are exact at every tick, and every POSIX timer owns its native
\* timer, which is periodic, and agrees with it unless it was set while a
\* callback was under way.
THEOREM PosixTimersInvariant == PosixTimerSpec => []PosixTimers
<1>1. PosixTimerInit => PosixTimers
  BY PosixTimersStart
<1>2. PosixTimers /\ [PosixTimerNext]_posixTimerVars => PosixTimers'
  BY PosixTimersStep
<1> QED BY <1>1, <1>2, PTL DEF PosixTimerSpec

\* aixos_timer_tick, aixos_timer_start, _stop, _delete and aixos_timer_dispatch
\* keep the flags of every timer and the two lists in agreement, and the active
\* list in the order of deadlines that are all ahead, across the wraparound of
\* the tick counter: for every number of timers, tick rate, and range of ticks.
THEOREM TimerListsExactCorrect == PosixTimerSpec => []TimerListsExact
<1>1. PosixTimers => TimerListsExact
  BY TimersExact DEF PosixTimers
<1> QED BY <1>1, PosixTimersInvariant, PTL

\* A POSIX timer that is armed finds its native timer running, and one that is
\* not does not, but for the callback on its way to stop it, however creation,
\* deletion, aixos_timer_posix_settime, the tick and the two critical sections
\* of posix_timer_expired interleave.
THEOREM TimersInStepCorrect == PosixTimerSpec => []TimersInStep
<1>1. PosixTimers => TimersInStep
  <2> SUFFICES ASSUME PosixTimers, NEW p \in PosixPool, Created(p), "set" \notin crossed[p]
               PROVE  LET running == timer[ptimer[p].native.slot].active
                      IN  /\ TimerValid(ptimer[p].native)
                          /\ ptimer[p].active => running
                          /\ running => ptimer[p].active \/ InHand(p)
    BY DEF TimersInStep
  <2>1. NativeIs(p) /\ InStep(p) /\ ptimer[p].native # NoHandle
    BY DEF PosixTimers, Created
  <2>2. TimerValid(ptimer[p].native)
    BY <2>1, HandleIs DEF NativeIs
  <2>3. Agree(p)
    BY <2>1 DEF InStep
  <2> QED BY <2>2, <2>3 DEF Agree, AtRestart, InHand
<1> QED BY <1>1, PosixTimersInvariant, PTL

-----------------------------------------------------------------------------
(* A POSIX timer does not expire too early.                                *)

\* Of the timers that exist, those that are not the application's belong to a
\* POSIX timer, or to one that is being deleted.
Owned ==
    \A i \in Pool : timer[i].live /\ timer[i].callback # App =>
        \/ \E h \in dying : h.slot = i
        \/ ptimer[timer[i].callback].native.slot = i

\* No expiry of an earlier timer of the slot p is mistaken for one of this one.
Alone(p) == ptimer[p].used /\ "set" \notin crossed[p] => ~Lingers(p)

AtCallback(p) == service.at = "callback" /\ service.callback = p

\* The time next is reached, or not too far to tell.
Near(now, next) == TickReached(now, next) \/ Left(next, now) \in 1 .. MaxTimeout

\* The time next is not after the deadline d, or reached.
NotAfter(now, next, left) == TickReached(now, next) \/ Left(next, now) <= left

Punctual(p) ==
    LET i == ptimer[p].native.slot
        next == ptimer[p].next
        n == ptimer[p].interval
    IN  /\ Near(tick, next)
        /\ timer[i].pending \/ AtCallback(p) => TickReached(tick, next)
        /\ ~AtRestart(p) => NotAfter(tick, next, Left(timer[i].deadline, tick))
        /\ AtRestart(p) => service.restart = TicksToMs(n) /\ NotAfter(tick, next, n)
        /\ InHand(p) /\ n # 0 => ~timer[i].pending

Awaited(p) == Created(p) /\ ptimer[p].active /\ crossed[p] = {}

OnTime(p) == Awaited(p) => Punctual(p)

Timely == Owned /\ \A p \in PosixPool : Alone(p) /\ OnTime(p)

LEMMA CeilingIs ==
    ASSUME NEW a \in Nat, NEW b \in Nat \ {0}
    PROVE  CeilingDiv(a, b) \in Nat /\ CeilingDiv(a, b) * b >= a
<1> DEFINE c == a + b - 1
           q == c \div b
           r == c % b
<1>1. c \in Nat
  OBVIOUS
<1>2. q \in Nat /\ r \in 0 .. b - 1 /\ c = b * q + r
  <2> HIDE DEF c
  <2> QED BY <1>1
<1>3. CeilingDiv(a, b) = q
  BY DEF CeilingDiv
<1>4. q * b = b * q /\ b * q \in Nat
  <2> HIDE DEF q
  <2> QED BY <1>2
<1>5. b * q >= a
  <2> DEFINE x == b * q
  <2> HIDE DEF x, r, q
  <2> QED BY <1>2, <1>4 DEF x
<1> QED BY <1>2, <1>3, <1>4, <1>5

\* Ticks that are turned into milliseconds and back are not fewer.
LEMMA RoundTrip ==
    ASSUME NEW n \in 1 .. MaxTimeout
    PROVE  MsToTicks(TicksToMs(n)) \in n .. MaxTimeout
<1> DEFINE ms == TicksToMs(n)
           x == ms * TickHz
           y == CeilingDiv(x, 1000)
<1>1. n \in Nat \ {0} /\ n <= MaxTimeout /\ MaxTimeout \in Nat /\ n * 1000 \in Nat
      /\ TickHz \in Nat \ {0}
  BY MaxTimeoutIs, TimerAssumption
<1>2. ms \in Nat \ {0}
  BY <1>1, TicksToMsIs
<1>3. x >= n * 1000
  BY <1>1, CeilingIs DEF TicksToMs
<1>4. MsToTicks(ms) = IF y > MaxTimeout THEN MaxTimeout ELSE y
  BY DEF MsToTicks
<1> HIDE DEF ms
<1>5. x \in Nat
  BY <1>1, <1>2
<1> HIDE DEF x
<1>6. y \in Nat /\ y * 1000 >= x
  BY <1>5, CeilingIs
<1> HIDE DEF y
<1>7. y >= n
  BY <1>1, <1>3, <1>5, <1>6
<1> QED BY <1>1, <1>4, <1>6, <1>7 DEF ms

LEMMA NoTicks == TicksToMs(0) = 0
<1>1. (0 * 1000 + TickHz - 1) \div TickHz = 0
  BY TimerAssumption
<1> QED BY <1>1 DEF TicksToMs, CeilingDiv

\* One tick later, unless the service is late by half the range of ticks.
LEMMA NextTick ==
    ASSUME tick \in Ticks, NEW next \in Ticks, Near(tick, next),
           TickAfter(tick - next, 1) # TickModulus \div 2
    PROVE  LET now == TickAfter(tick, 1)
           IN  /\ now \in Ticks /\ Near(now, next)
               /\ TickReached(tick, next) => TickReached(now, next)
               /\ ~TickReached(now, next) =>
                     Left(next, now) = Left(next, tick) - 1 /\ Left(next, tick) \in 2 .. MaxTimeout
<1> DEFINE now == TickAfter(tick, 1)
           M == TickModulus
           half == M \div 2
<1>1. M \in Nat /\ M >= 4 /\ half \in Nat /\ M = 2 * half /\ MaxTimeout = half - 1
  BY ClockAssumption DEF MaxTimeout
<1>2. now \in Ticks
  BY TickAfterType
<1>3. now = IF tick + 1 = M THEN 0 ELSE tick + 1
  BY <1>1 DEF TickAfter, Ticks
<1>4. ASSUME NEW t \in Ticks PROVE TickReached(t, next) <=> Left(t, next) < half
  BY DEF TickReached, Left
<1>5. /\ Left(tick, next) = IF tick >= next THEN tick - next ELSE tick - next + M
      /\ Left(now, next) = IF now >= next THEN now - next ELSE now - next + M
      /\ Left(next, tick) = IF next >= tick THEN next - tick ELSE next - tick + M
      /\ Left(next, now) = IF next >= now THEN next - now ELSE next - now + M
  BY <1>2, LeftIs
<1>6. tick \in 0 .. M - 1 /\ next \in 0 .. M - 1 /\ now \in 0 .. M - 1
  BY <1>2 DEF Ticks
<1>7. ASSUME TickReached(tick, next) PROVE TickReached(now, next)
  <2>1. Left(tick, next) < half
    BY <1>4, <1>7
  <2>2. TickAfter(tick - next, 1) = Left(now, next)
    BY <1>1, <1>3, <1>5, <1>6 DEF TickAfter
  <2>3. Left(now, next) # half
    BY <2>2
  <2> HIDE DEF M, half, now
  <2>4. Left(now, next) < half
    BY <1>1, <1>3, <1>5, <1>6, <2>1, <2>3
  <2> QED BY <1>2, <1>4, <2>4
<1>8. ASSUME ~TickReached(now, next)
      PROVE  Left(next, now) = Left(next, tick) - 1 /\ Left(next, tick) \in 2 .. MaxTimeout
  <2>1. Left(next, tick) \in 1 .. MaxTimeout
    BY <1>7, <1>8 DEF Near
  <2>2. ~(Left(now, next) < half)
    BY <1>2, <1>4, <1>8
  <2> HIDE DEF M, half, now
  <2> QED BY <1>1, <1>3, <1>5, <1>6, <2>1, <2>2
<1>9. Near(now, next)
  <2>1. CASE TickReached(now, next)
    BY <2>1 DEF Near
  <2>2. CASE ~TickReached(now, next)
    BY <1>1, <1>8, <2>2 DEF Near
  <2> QED BY <2>1, <2>2
<1> QED BY <1>2, <1>7, <1>8, <1>9

\* What a step does not touch stays on time.
LEMMA TimeStays ==
    ASSUME NEW p \in PosixPool, NativeIs(p), OnTime(p), ptimer'[p] = ptimer[p],
           crossed'[p] = crossed[p], tick' = tick,
           AtCallback(p)' <=> AtCallback(p), AtRestart(p)' <=> AtRestart(p),
           AtRestart(p) => service'.restart = service.restart,
           ptimer[p].native # NoHandle =>
               LET i == ptimer[p].native.slot
               IN  /\ timer'[i].deadline = timer[i].deadline
                   /\ timer'[i].pending => timer[i].pending
    PROVE  OnTime(p)'
<1> SUFFICES ASSUME Awaited(p)' PROVE Punctual(p)'
  BY DEF OnTime
<1>1. Awaited(p) /\ ptimer[p].native # NoHandle
  BY DEF Awaited, Created
<1>2. Punctual(p)
  BY <1>1 DEF OnTime
<1>3. InHand(p) <=> AtCallback(p) \/ AtRestart(p)
  BY DEF InHand, AtCallback, AtRestart
<1>4. InHand(p)' <=> InHand(p)
  BY <1>3 DEF InHand, AtCallback, AtRestart
<1> QED BY <1>1, <1>2, <1>4 DEF Punctual

\* Neither does a step that leaves the service alone disturb the other timers.
LEMMA OthersOnTime ==
    ASSUME PosixTimers, Timely, NEW i, \A u \in Pool \ {i} : timer'[u] = timer[u],
           NEW p \in PosixPool, ptimer[p].native.slot # i, ptimer'[p] = ptimer[p],
           crossed'[p] = crossed[p], tick' = tick, service' = service
    PROVE  OnTime(p)'
<1>1. NativeIs(p) /\ OnTime(p)
  BY DEF PosixTimers, Timely
<1>2. AtCallback(p)' <=> AtCallback(p)
  BY DEF AtCallback
<1>3. AtRestart(p)' <=> AtRestart(p)
  BY DEF AtRestart
<1>4. ptimer[p].native # NoHandle => timer'[ptimer[p].native.slot] = timer[ptimer[p].native.slot]
  BY <1>1, HandleIs DEF NativeIs
<1> QED BY <1>1, <1>2, <1>3, <1>4, TimeStays

LEMMA LingersStays ==
    ASSUME NEW p, \A h \in dying' : h \in dying /\ SameTimer(timer'[h.slot], timer[h.slot]),
           ~Lingers(p)
    PROVE  ~Lingers(p)'
BY DEF Lingers, SameTimer

LEMMA AloneStays ==
    ASSUME NEW p, Alone(p), ~Lingers(p) => ~Lingers(p)', ptimer'[p].used => ptimer[p].used,
           "set" \in crossed[p] => "set" \in crossed'[p]
    PROVE  Alone(p)'
BY DEF Alone

\* Where every timer keeps its callback and every POSIX timer its native timer.
LEMMA OwnedStays ==
    ASSUME Owned, TimersNow, dying' = dying, \A u \in Pool : SameTimer(timer'[u], timer[u]),
           \A p \in PosixPool : ptimer'[p].native = ptimer[p].native
    PROVE  Owned'
<1>1. \A i \in Pool : timer[i].callback # App => timer[i].callback \in PosixPool
  BY DEF TimersNow, Timers, TimerRecord, Callbacks
<1> QED BY <1>1 DEF Owned, SameTimer

LEMMA DyingSlots ==
    ASSUME PosixTimers
    PROVE  \A h \in dying : h.slot \in Pool
BY DEF PosixTimers, PosixTimerType, Handles

\* A timer that is not created has no slot.
LEMMA NoSlot == NoHandle.slot = 0 /\ 0 \notin Pool
BY DEF NoHandle, Pool

LEMMA CallbackIs ==
    ASSUME PosixTimers, NEW i \in Pool, timer[i].callback # App
    PROVE  timer[i].callback \in PosixPool
BY DEF PosixTimers, TimersNow, Timers, TimerRecord, Callbacks

LEMMA CreateSlotTimely ==
    ASSUME PosixTimers, Timely, NEW p \in PosixPool, CreateSlot(p)
    PROVE  Timely'
<1>1. /\ PosixTimerType /\ Owned /\ \A q \in PosixPool : NativeIs(q) /\ Alone(q) /\ OnTime(q)
      /\ crossed \in [PosixPool -> SUBSET Crossings]
  BY DEF PosixTimers, PosixTimerType, Timely
<1>2. /\ tick' = tick /\ timer' = timer /\ service' = service /\ dying' = dying
      /\ CrossedBySet(p) /\ ~ptimer[p].used
  BY DEF CreateSlot, timerVars
<1>3. Written(ptimer', p, TRUE, NoHandle, FALSE)
  BY <1>1, SlotCreated
<1>4. \A q \in PosixPool \ {p} : ptimer'[q] = ptimer[q] /\ crossed'[q] = crossed[q]
  BY <1>1, <1>2, <1>3, CrossedIs DEF Written
<1>5. ptimer[p].native = NoHandle /\ ptimer'[p].native = NoHandle
  BY <1>1, <1>2, <1>3 DEF NativeIs, Written
<1>6. Owned'
  BY <1>1, <1>2, <1>4, <1>5, OwnedStays DEF PosixTimers, SameTimer
<1>7. \A q : Lingers(q)' <=> Lingers(q)
  BY <1>2 DEF Lingers
<1>8. ASSUME NEW q \in PosixPool \ {p} PROVE Alone(q)' /\ OnTime(q)'
  <2>1. Alone(q)'
    BY <1>1, <1>4, <1>7, AloneStays
  <2>2. OnTime(q)'
    <3>1. AtCallback(q)' <=> AtCallback(q)
      BY <1>2 DEF AtCallback
    <3>2. AtRestart(q)' <=> AtRestart(q)
      BY <1>2 DEF AtRestart
    <3> QED BY <1>1, <1>2, <1>4, <3>1, <3>2, TimeStays
  <2> QED BY <2>1, <2>2
<1>9. Alone(p)' /\ OnTime(p)'
  <2>1. "set" \notin crossed'[p] => ~Lingers(p)
    BY <1>1, <1>2 DEF CrossedBySet
  <2>2. ~Created(p)'
    BY <1>5 DEF Created
  <2> QED BY <1>7, <2>1, <2>2 DEF Alone, OnTime, Awaited
<1> QED BY <1>6, <1>8, <1>9 DEF Timely

LEMMA CreateNativeTimely ==
    ASSUME PosixTimers, Timely, NEW p \in PosixPool, CreateNative(p)
    PROVE  Timely'
<1>1. /\ TimersNow /\ PosixTimerType /\ Dying /\ Owned
      /\ \A q \in PosixPool : NativeIs(q) /\ Alone(q) /\ OnTime(q)
      /\ ptimer \in [PosixPool -> PosixTimerRecord]
  BY DEF PosixTimers, PosixTimerType, Timely
<1>2. /\ dying' = dying /\ crossed' = crossed /\ service' = service /\ tick' = tick
      /\ ptimer[p].used /\ ptimer[p].native = NoHandle
  BY DEF CreateNative, timerVars
<1>3. ~ptimer[p].active
  BY <1>1, <1>2 DEF NativeIs
<1>4. CASE FreeTimers = {}
  <2> DEFINE off == FALSE
  <2>1. ptimer' = [ptimer EXCEPT ![p].used = off] /\ timer' = timer
    BY <1>4 DEF CreateNative, timerVars
  <2>2. off \in BOOLEAN
    OBVIOUS
  <2> HIDE DEF off
  <2>3. /\ \A q \in PosixPool \ {p} : ptimer'[q] = ptimer[q]
        /\ ptimer'[p] = [ptimer[p] EXCEPT !.used = off]
    BY <1>1, <2>1, <2>2, UsedSet
  <2>4. ptimer'[p].used = off /\ ptimer'[p].native = ptimer[p].native
    BY <1>1, <2>2, <2>3 DEF PosixTimerRecord
  <2>5. Owned'
    BY <1>1, <1>2, <2>1, <2>3, <2>4, OwnedStays DEF SameTimer
  <2>6. \A q : Lingers(q)' <=> Lingers(q)
    BY <1>2, <2>1 DEF Lingers
  <2>7. ASSUME NEW q \in PosixPool \ {p} PROVE Alone(q)' /\ OnTime(q)'
    <3>1. Alone(q)'
      BY <1>1, <1>2, <2>3, <2>6, AloneStays
    <3>2. AtCallback(q)' <=> AtCallback(q)
      BY <1>2 DEF AtCallback
    <3>3. AtRestart(q)' <=> AtRestart(q)
      BY <1>2 DEF AtRestart
    <3> QED BY <1>1, <1>2, <2>1, <2>3, <3>1, <3>2, <3>3, TimeStays
  <2>8. ~ptimer'[p].used
    BY <2>4 DEF off
  <2>9. Alone(p)' /\ OnTime(p)'
    BY <2>8 DEF Alone, OnTime, Awaited, Created
  <2> QED BY <2>5, <2>7, <2>9 DEF Timely
<1>5. CASE FreeTimers # {}
  <2>1. \E i \in FreeTimers :
           LET g == [slot |-> i, gen |-> timer[i].gen + 1]
           IN  TimerCreate(g, "PERIODIC", p) /\ ptimer' = [ptimer EXCEPT ![p].native = g]
    BY <1>5 DEF CreateNative
  <2>2. \A i \in FreeTimers : [slot |-> i, gen |-> timer[i].gen + 1] \in Handles
    BY <1>1 DEF FreeTimers, TimersNow, Timers, TimerRecord, Handles
  <2>3. PICK h \in Handles :
            TimerCreate(h, "PERIODIC", p) /\ ptimer' = [ptimer EXCEPT ![p].native = h]
    BY <2>1, <2>2
  <2> DEFINE i == h.slot
  <2>4. p \in Callbacks
    BY DEF Callbacks
  <2>5. /\ i \in Pool /\ ~timer[i].live /\ \A u \in Pool \ {i} : timer'[u] = timer[u]
        /\ timer'[i].callback = p
    BY <1>1, <2>3, <2>4, CreateKeeps
  <2>6. /\ \A q \in PosixPool \ {p} : ptimer'[q] = ptimer[q]
        /\ ptimer'[p] = [ptimer[p] EXCEPT !.native = h]
    BY <1>1, <2>3, NativeSet
  <2>7. ptimer'[p].used = ptimer[p].used /\ ptimer'[p].native = h
        /\ ptimer'[p].active = ptimer[p].active
    BY <1>1, <2>3, <2>6 DEF PosixTimerRecord
  <2>8. \A q, g : NativeOf(q, g) => g.slot \in Pool \ {i}
    BY <2>5 DEF NativeOf, Handles
  <2>9. \A g \in dying : g.slot \in Pool \ {i}
    BY <1>1, <2>8 DEF Dying
  <2> HIDE DEF i
  <2>10. Owned'
    <3> SUFFICES ASSUME NEW u \in Pool, timer'[u].live, timer'[u].callback # App
                 PROVE  (\E g \in dying' : g.slot = u)
                        \/ ptimer'[timer'[u].callback].native.slot = u
      BY DEF Owned
    <3>1. CASE u = i
      BY <2>5, <2>7, <3>1 DEF i
    <3>2. CASE u # i
      <4>1. timer'[u] = timer[u] /\ timer[u].callback \in PosixPool
        BY <2>5, <3>2, CallbackIs
      <4>2. ptimer[p].native.slot # u
        BY <1>2, NoSlot
      <4> QED BY <1>1, <1>2, <2>6, <4>1, <4>2 DEF Owned
    <3> QED BY <3>1, <3>2
  <2>11. \A q : ~Lingers(q) => ~Lingers(q)'
    BY <1>2, <2>5, <2>9, LingersStays DEF SameTimer
  <2>12. ASSUME NEW q \in PosixPool \ {p} PROVE Alone(q)' /\ OnTime(q)'
    <3>1. Alone(q)'
      BY <1>1, <1>2, <2>6, <2>11, AloneStays
    <3>2. ptimer[q].native.slot # i
      BY <1>1, <2>5, <2>8, NoSlot DEF NativeIs
    <3> QED BY <1>2, <2>5, <2>6, <3>1, <3>2, OthersOnTime
  <2>13. Alone(p)'
    BY <1>1, <1>2, <2>7, <2>11, AloneStays
  <2>14. OnTime(p)'
    BY <1>3, <2>7 DEF OnTime, Awaited
  <2> QED BY <2>10, <2>12, <2>13, <2>14 DEF Timely
<1> QED BY <1>4, <1>5

LEMMA DeleteSlotTimely ==
    ASSUME PosixTimers, Timely, NEW p \in PosixPool, DeleteSlot(p)
    PROVE  Timely'
<1>0. PICK h : h = ptimer[p].native
  OBVIOUS
<1>1. /\ TimersNow /\ PosixTimerType /\ Owned
      /\ \A q \in PosixPool : NativeIs(q) /\ Alone(q) /\ OnTime(q)
      /\ h # NoHandle
  BY <1>0 DEF PosixTimers, Timely, DeleteSlot, Created
<1>2. /\ tick' = tick /\ timer' = timer /\ service' = service /\ crossed' = crossed
      /\ dying' = dying \union {h}
  BY <1>0 DEF DeleteSlot, timerVars
<1>3. Written(ptimer', p, FALSE, NoHandle, FALSE)
  BY <1>1, SlotDeleted
<1>4. NativeOf(p, h)
  BY <1>0, <1>1 DEF NativeIs
<1>5. Owned'
  <2> SUFFICES ASSUME NEW u \in Pool, timer[u].live, timer[u].callback # App
               PROVE  (\E g \in dying' : g.slot = u)
                      \/ ptimer'[timer[u].callback].native.slot = u
    BY <1>2 DEF Owned
  <2>1. timer[u].callback \in PosixPool
    BY CallbackIs
  <2>2. CASE timer[u].callback = p
    BY <1>0, <1>1, <1>2, <2>2 DEF Owned
  <2>3. CASE timer[u].callback # p
    BY <1>1, <1>2, <1>3, <2>1, <2>3 DEF Owned, Written
  <2> QED BY <2>2, <2>3
<1>6. ASSUME NEW q \in PosixPool \ {p} PROVE Alone(q)' /\ OnTime(q)'
  <2>1. ~Lingers(q) => ~Lingers(q)'
    BY <1>2, <1>4 DEF Lingers, NativeOf
  <2>2. ptimer'[q] = ptimer[q]
    BY <1>3 DEF Written
  <2>3. Alone(q)'
    BY <1>1, <1>2, <2>1, <2>2, AloneStays
  <2>4. AtCallback(q)' <=> AtCallback(q)
    BY <1>2 DEF AtCallback
  <2>5. AtRestart(q)' <=> AtRestart(q)
    BY <1>2 DEF AtRestart
  <2> QED BY <1>1, <1>2, <2>2, <2>3, <2>4, <2>5, TimeStays
<1>7. Alone(p)' /\ OnTime(p)'
  BY <1>3 DEF Written, Alone, OnTime, Awaited
<1> QED BY <1>5, <1>6, <1>7 DEF Timely

LEMMA DeleteNativeTimely ==
    ASSUME PosixTimers, Timely, NEW h \in dying, DeleteNative(h)
    PROVE  Timely'
<1>1. /\ TimersNow /\ PosixTimerType /\ Dying /\ Owned
      /\ \A q \in PosixPool : NativeIs(q) /\ Alone(q) /\ OnTime(q)
  BY DEF PosixTimers, Timely
<1>2. /\ tick' = tick /\ service' = service /\ ptimer' = ptimer /\ crossed' = crossed
      /\ dying' = dying \ {h} /\ TimerDelete(h)
  BY DEF DeleteNative
<1>3. PICK p \in PosixPool : NativeOf(p, h)
  BY <1>1 DEF Dying
<1>4. h.slot \in Pool /\ h.gen \in Nat
  BY <1>3, HandleIs
<1>5. ~timer'[h.slot].live /\ \A u \in Pool \ {h.slot} : timer'[u] = timer[u]
  BY <1>1, <1>2, <1>4, DeleteKeeps
<1>6. \A q, g : NativeOf(q, g) /\ g # h => g.slot \in Pool \ {h.slot}
  BY <1>3, HandleIs, SlotsApart
<1>7. Owned'
  <2> SUFFICES ASSUME NEW u \in Pool, timer'[u].live, timer'[u].callback # App
               PROVE  (\E g \in dying' : g.slot = u)
                      \/ ptimer'[timer'[u].callback].native.slot = u
    BY DEF Owned
  <2>1. u # h.slot /\ timer'[u] = timer[u]
    BY <1>5
  <2> QED BY <1>1, <1>2, <2>1 DEF Owned
<1>8. ASSUME NEW q \in PosixPool PROVE Alone(q)' /\ OnTime(q)'
  <2>1. \A g \in dying' : g \in dying /\ g.slot \in Pool \ {h.slot}
    BY <1>1, <1>2, <1>6 DEF Dying
  <2>2. ~Lingers(q) => ~Lingers(q)'
    BY <1>5, <2>1, LingersStays DEF SameTimer
  <2>3. Alone(q)'
    BY <1>1, <1>2, <2>2, AloneStays
  <2>4. ptimer[q].native.slot # h.slot
    <3>1. CASE ptimer[q].native = NoHandle
      BY <1>4, <3>1, NoSlot
    <3>2. CASE ptimer[q].native # NoHandle
      <4>1. NativeOf(q, ptimer[q].native) /\ ptimer[q].native # h
        BY <1>1, <3>2 DEF NativeIs
      <4> QED BY <1>6, <4>1
    <3> QED BY <3>1, <3>2
  <2> QED BY <1>2, <1>5, <2>3, <2>4, OthersOnTime
<1> QED BY <1>7, <1>8 DEF Timely

LEMMA AppCallsTimely ==
    ASSUME PosixTimers, Timely, AppCalls
    PROVE  Timely'
<1>1. /\ TimersNow /\ PosixTimerType /\ Dying /\ Owned
      /\ \A q \in PosixPool : NativeIs(q) /\ Alone(q) /\ OnTime(q)
      /\ UNCHANGED <<tick, service, ptimer, dying, crossed>>
  BY DEF PosixTimers, Timely, AppCalls
<1>2. PICK i : AppEffect(i)
  BY <1>1, AppCallsEffect
<1>3. /\ i \in Pool /\ \A u \in Pool \ {i} : timer'[u] = timer[u]
      /\ timer'[i].live => timer'[i].callback = App
  BY <1>2 DEF AppEffect
<1>4. \A q \in PosixPool : \A g : NativeOf(q, g) => g.slot \in Pool \ {i}
  BY <1>2, HandleIs, AppIs DEF NativeOf, AppEffect
<1>5. Owned'
  <2> SUFFICES ASSUME NEW u \in Pool, timer'[u].live, timer'[u].callback # App
               PROVE  (\E g \in dying' : g.slot = u)
                      \/ ptimer'[timer'[u].callback].native.slot = u
    BY DEF Owned
  <2>1. timer'[u] = timer[u]
    BY <1>3
  <2> QED BY <1>1, <2>1 DEF Owned
<1>6. ASSUME NEW q \in PosixPool PROVE Alone(q)' /\ OnTime(q)'
  <2>1. \A g \in dying' : g \in dying /\ g.slot \in Pool \ {i}
    BY <1>1, <1>4 DEF Dying
  <2>2. ~Lingers(q) => ~Lingers(q)'
    BY <1>3, <2>1, LingersStays DEF SameTimer
  <2>3. Alone(q)'
    BY <1>1, <2>2, AloneStays
  <2>4. ptimer[q].native.slot # i
    BY <1>1, <1>3, <1>4, NoSlot DEF NativeIs
  <2> QED BY <1>1, <1>3, <2>3, <2>4, OthersOnTime
<1> QED BY <1>5, <1>6 DEF Timely

\* The time that aixos_timer_posix_settime or the callback writes
LEMMA NextWritten ==
    ASSUME PosixTimerType, NEW p \in PosixPool, NEW next \in Ticks, NEW x \in 0 .. MaxTimeout,
           NEW armed \in BOOLEAN,
           ptimer' = [ptimer EXCEPT ![p].interval = x, ![p].active = armed, ![p].next = next]
    PROVE  ptimer'[p].next = next
<1> DEFINE v1 == [ptimer EXCEPT ![p].interval = x]
           v2 == [v1 EXCEPT ![p].active = armed]
           v3 == [v2 EXCEPT ![p].next = next]
<1>1. v3 = ptimer'
  BY Zenon
<1>2. ptimer \in [PosixPool -> PosixTimerRecord]
  BY DEF PosixTimerType
<1>3. v1 \in [PosixPool -> PosixTimerRecord]
  BY <1>2, PeriodSet
<1> HIDE DEF v1
<1>4. v2 \in [PosixPool -> PosixTimerRecord]
  BY <1>3, ArmedSet
<1> HIDE DEF v2
<1>5. v3[p] = [v2[p] EXCEPT !.next = next]
  BY <1>4, NextSet
<1> HIDE DEF v3
<1> QED BY <1>1, <1>4, <1>5 DEF PosixTimerRecord

LEMMA SettimeTimely ==
    ASSUME PosixTimers, Timely, NEW p \in PosixPool,
           NEW initial \in Milliseconds \union {0}, NEW interval \in Milliseconds \union {0},
           Settime(p, initial, interval)
    PROVE  Timely'
<1>0. PICK h : h = ptimer[p].native
  OBVIOUS
<1>1. /\ TimersNow /\ PosixTimerType /\ Owned /\ tick \in Ticks
      /\ \A q \in PosixPool : NativeIs(q) /\ Alone(q) /\ OnTime(q)
      /\ h # NoHandle /\ initial \in Nat /\ interval \in Nat
  BY <1>0, TimerAssumption DEF PosixTimers, Timely, Settime, Created, TimersNow, Timers
<1>2. /\ tick' = tick /\ service' = service /\ dying' = dying /\ CrossedBySet(p)
      /\ ptimer' = SetTime(p, initial, interval)
      /\ initial = 0 => TimerStop(h)
      /\ initial # 0 => TimerRestart(h, initial)
  BY <1>0 DEF Settime
<1>3. Written(ptimer', p, ptimer[p].used, h, initial # 0)
  BY <1>0, <1>1, <1>2, TimeIsSet
<1>4. NativeOf(p, h)
  BY <1>0, <1>1 DEF NativeIs
<1>5. h.slot \in Pool /\ timer[h.slot].live
  BY <1>4, HandleIs DEF NativeOf
<1>6. \A q \in PosixPool \ {p} : ptimer'[q] = ptimer[q] /\ crossed'[q] = crossed[q]
  BY <1>1, <1>2, <1>3, CrossedIs DEF Written, PosixTimerType
<1>7. \A u \in Pool : /\ SameTimer(timer'[u], timer[u])
                      /\ u # h.slot => timer'[u] = timer[u]
  <2>1. CASE initial = 0
    BY <1>1, <1>2, <1>5, <2>1, StopKeeps
  <2>2. CASE initial # 0
    BY <1>1, <1>2, <1>5, <2>2, RestartKeeps
  <2> QED BY <2>1, <2>2
<1>8. Owned'
  BY <1>0, <1>1, <1>2, <1>3, <1>6, <1>7, OwnedStays DEF Written
<1>9. \A q : ~Lingers(q) => ~Lingers(q)'
  BY <1>2, <1>7, DyingSlots, LingersStays
<1>10. ASSUME NEW q \in PosixPool \ {p} PROVE Alone(q)' /\ OnTime(q)'
  <2>1. Alone(q)'
    BY <1>1, <1>6, <1>9, AloneStays
  <2>2. ptimer[q].native.slot # h.slot
    <3>1. CASE ptimer[q].native = NoHandle
      BY <1>5, <3>1, NoSlot
    <3>2. CASE ptimer[q].native # NoHandle
      BY <1>1, <1>4, <3>2, SlotsApart DEF NativeIs
    <3> QED BY <3>1, <3>2
  <2> QED BY <1>2, <1>6, <1>7, <2>1, <2>2, OthersOnTime
<1>11. "set" \notin crossed'[p] => ~Lingers(p) /\ ~InHand(p)
  BY <1>1, <1>2 DEF CrossedBySet, PosixTimerType
<1>12. Alone(p)'
  BY <1>9, <1>11 DEF Alone
<1>13. OnTime(p)'
  <2> SUFFICES ASSUME Awaited(p)' PROVE Punctual(p)'
    BY DEF OnTime
  <2> DEFINE m == MsToTicks(initial)
             d == TickAfter(tick, m)
  <2>1. initial # 0 /\ "set" \notin crossed'[p]
    BY <1>3 DEF Awaited, Written
  <2>2. m \in 1 .. MaxTimeout
    BY <1>1, <2>1, MsToTicksIs
  <2>3. d \in Ticks /\ Left(d, tick) = m
    BY <1>1, <2>2, LeftAfter
  <2>4. timer'[h.slot].deadline = d /\ ~timer'[h.slot].pending
    BY <1>1, <1>2, <1>5, <2>1, RestartKeeps
  <2>5. ptimer'[p].next = d /\ ptimer'[p].native = h
    <3>1. ptimer' = [ptimer EXCEPT ![p].interval = MsToTicks(interval), ![p].active = initial # 0,
                                   ![p].next = d]
      BY <1>2, <2>1 DEF SetTime
    <3>2. MsToTicks(interval) \in 0 .. MaxTimeout /\ (initial # 0) \in BOOLEAN
      BY <1>1, MsToTicksType
    <3> HIDE DEF d
    <3> QED BY <1>1, <1>3, <2>3, <3>1, <3>2, NextWritten DEF Written
  <2>6. ~InHand(p)' /\ ~AtCallback(p)' /\ ~AtRestart(p)'
    BY <1>2, <1>11, <2>1 DEF InHand, AtCallback, AtRestart
  <2> HIDE DEF d, m
  <2>7. Near(tick, d) /\ NotAfter(tick, d, Left(d, tick))
    BY <2>2, <2>3 DEF Near, NotAfter
  <2> QED BY <1>2, <2>4, <2>5, <2>6, <2>7 DEF Punctual
<1> QED BY <1>8, <1>10, <1>12, <1>13 DEF Timely

\* Only a timer that is expected to expire is found in the callback.
LEMMA ExpectedIs ==
    ASSUME PosixTimers, Timely, NEW p \in PosixPool, AtCallback(p),
           ptimer[p].used, ptimer[p].active, crossed[p] = {}
    PROVE  Awaited(p) /\ Punctual(p) /\ TickReached(tick, ptimer[p].next)
<1>1. Awaited(p)
  BY DEF PosixTimers, NativeIs, Created, Awaited
<1> QED BY <1>1 DEF Timely, OnTime, Punctual

LEMMA PosixExpiredTimely ==
    ASSUME PosixTimers, Timely, NEW p \in PosixPool, PosixExpired(p)
    PROVE  Timely'
<1>1. /\ TimersNow /\ PosixTimerType /\ Owned /\ tick \in Ticks
      /\ ptimer \in [PosixPool -> PosixTimerRecord] /\ service \in ServiceRecord
      /\ \A q \in PosixPool : NativeIs(q) /\ Alone(q) /\ OnTime(q)
      /\ service.at = "callback" /\ service.callback = p
  BY DEF PosixTimers, Timely, TimersNow, Timers, PosixTimerType, PosixExpired
<1>2. /\ tick' = tick /\ timer' = timer /\ dying' = dying /\ crossed' = crossed
  BY DEF PosixExpired
<1>3. \A q : Lingers(q)' <=> Lingers(q)
  BY <1>2 DEF Lingers
<1>4. ASSUME NEW q \in PosixPool, ptimer'[q] = ptimer[q], ~AtCallback(q),
             ~AtCallback(q)', ~AtRestart(q)'
      PROVE  OnTime(q)'
  <2>1. ~AtRestart(q)
    BY <1>1 DEF AtRestart
  <2> QED BY <1>1, <1>2, <1>4, <2>1, TimeStays
<1>5. CASE ptimer[p].used /\ ptimer[p].active
  <2> DEFINE n == ptimer[p].interval
             place == "restart"
             ms == TicksToMs(n)
             s1 == [service EXCEPT !.at = place]
             s2 == [s1 EXCEPT !.restart = ms]
  <2>1. ptimer' = Expired(p) /\ service' = s2
    BY <1>5, Zenon DEF PosixExpired
  <2>2. Written(ptimer', p, ptimer[p].used, ptimer[p].native,
                IF n = 0 THEN FALSE ELSE ptimer[p].active)
    BY <1>1, <2>1, ExpiryWritten
  <2>3. n \in 0 .. MaxTimeout
    BY <1>1 DEF PosixTimerRecord
  <2> HIDE DEF ms
  <2>4. s1 \in ServiceRecord /\ s1.at = "restart" /\ s1.callback = p
    BY <1>1 DEF ServiceRecord
  <2> HIDE DEF s1
  <2>5. service'.at = "restart" /\ service'.callback = p /\ service'.restart = ms
    BY <2>1, <2>4 DEF ServiceRecord
  <2>6. Owned'
    BY <1>1, <1>2, <2>2, OwnedStays DEF Written, SameTimer
  <2>7. ASSUME NEW q \in PosixPool PROVE Alone(q)'
    BY <1>1, <1>2, <1>3, <2>2, AloneStays DEF Written
  <2>8. ASSUME NEW q \in PosixPool, q # p PROVE OnTime(q)'
    BY <1>1, <1>4, <2>2, <2>5, <2>8 DEF Written, AtCallback, AtRestart
  <2>9. OnTime(p)'
    <3> SUFFICES ASSUME Awaited(p)' PROVE Punctual(p)'
      BY DEF OnTime
    <3>1. n # 0 /\ crossed[p] = {}
      BY <1>2, <2>2 DEF Awaited, Written
    <3>2. Awaited(p) /\ Punctual(p)
      BY <1>1, <1>5, <3>1, ExpectedIs DEF AtCallback
    <3> DEFINE d == TickAfter(tick, n)
    <3>3. n \in 1 .. MaxTimeout
      BY <2>3, <3>1
    <3>4. d \in Ticks /\ Left(d, tick) = n
      BY <1>1, <3>3, LeftAfter
    <3>5. ptimer' = [ptimer EXCEPT ![p].next = d]
      BY <2>1, <3>1 DEF Expired
    <3> HIDE DEF d
    <3>6. ptimer'[p] = [ptimer[p] EXCEPT !.next = d]
      BY <1>1, <3>4, <3>5, NextSet
    <3>7. /\ ptimer'[p].next = d /\ ptimer'[p].interval = n
          /\ ptimer'[p].native = ptimer[p].native
      BY <1>1, <3>6 DEF PosixTimerRecord
    <3>8. ~timer[ptimer[p].native.slot].pending
      BY <1>1, <3>1, <3>2 DEF Punctual, InHand
    <3>9. ~AtCallback(p)' /\ AtRestart(p)' /\ service'.restart = TicksToMs(n)
      BY <2>5 DEF AtCallback, AtRestart, ms
    <3>10. Near(tick, d) /\ NotAfter(tick, d, n)
      BY <3>3, <3>4 DEF Near, NotAfter
    <3> HIDE DEF n
    <3> QED BY <1>2, <3>7, <3>8, <3>9, <3>10 DEF Punctual
  <2> QED BY <2>6, <2>7, <2>8, <2>9 DEF Timely
<1>6. CASE ~(ptimer[p].used /\ ptimer[p].active)
  <2>1. ptimer' = ptimer /\ service' = ServiceAt("dispatch", App)
    BY <1>6 DEF PosixExpired
  <2>2. \A q : ~AtCallback(q)' /\ ~AtRestart(q)'
    BY <2>1 DEF ServiceAt, AtCallback, AtRestart
  <2>3. Owned'
    BY <1>1, <1>2, <2>1, OwnedStays DEF SameTimer
  <2>4. ASSUME NEW q \in PosixPool PROVE Alone(q)'
    BY <1>1, <1>2, <1>3, <2>1, AloneStays
  <2>5. ASSUME NEW q \in PosixPool, q # p PROVE OnTime(q)'
    BY <1>1, <1>4, <2>1, <2>2, <2>5 DEF AtCallback
  <2>6. OnTime(p)'
    BY <1>6, <2>1 DEF OnTime, Awaited, Created
  <2> QED BY <2>3, <2>4, <2>5, <2>6 DEF Timely
<1> QED BY <1>5, <1>6

LEMMA PosixRestartTimely ==
    ASSUME PosixTimers, Timely, NEW p \in PosixPool, PosixRestart(p)
    PROVE  Timely'
<1>0. PICK h : h = ptimer[p].native
  OBVIOUS
<1>1. /\ TimersNow /\ PosixTimerType /\ Owned /\ tick \in Ticks
      /\ \A q \in PosixPool : NativeIs(q) /\ InStep(q) /\ Alone(q) /\ OnTime(q)
      /\ service \in ServiceRecord /\ AtRestart(p)
  BY DEF PosixTimers, Timely, TimersNow, Timers, PosixTimerType, PosixRestart, AtRestart
<1>2. /\ tick' = tick /\ ptimer' = ptimer /\ dying' = dying /\ crossed' = crossed
      /\ service' = ServiceAt("dispatch", App)
      /\ IF ~TimerValid(h)
         THEN UNCHANGED <<timer, active, pending>>
         ELSE IF Restarts(p) THEN TimerStart(h, service.restart) ELSE TimerStop(h)
  BY <1>0 DEF PosixRestart
<1>3. \A q : ~AtCallback(q)' /\ ~AtRestart(q)'
  BY <1>2 DEF ServiceAt, AtCallback, AtRestart
<1>4. ASSUME NEW q \in PosixPool, q # p,
             ptimer[q].native # NoHandle =>
                 timer'[ptimer[q].native.slot] = timer[ptimer[q].native.slot]
      PROVE  OnTime(q)'
  <2>1. ~AtCallback(q) /\ ~AtRestart(q)
    BY <1>1, <1>4 DEF AtCallback, AtRestart
  <2> QED BY <1>1, <1>2, <1>3, <1>4, <2>1, TimeStays
<1>5. CASE h = NoHandle
  <2>1. timer' = timer
    BY <1>2, <1>5 DEF TimerValid
  <2>2. Owned'
    BY <1>1, <1>2, <2>1, OwnedStays DEF SameTimer
  <2>3. ASSUME NEW q \in PosixPool PROVE Alone(q)'
    <3>1. Lingers(q)' <=> Lingers(q)
      BY <1>2, <2>1 DEF Lingers
    <3> QED BY <1>1, <1>2, <3>1, AloneStays
  <2>4. \A q \in PosixPool : q # p => OnTime(q)'
    BY <1>4, <2>1
  <2>5. OnTime(p)'
    BY <1>0, <1>2, <1>5 DEF OnTime, Awaited, Created
  <2> QED BY <2>2, <2>3, <2>4, <2>5 DEF Timely
<1>6. CASE h # NoHandle
  <2>1. NativeOf(p, h)
    BY <1>0, <1>1, <1>6 DEF NativeIs
  <2>2. TimerValid(h) /\ h.slot \in Pool /\ timer[h.slot].live
    BY <2>1, HandleIs DEF NativeOf
  <2>3. service.restart # 0 => service.restart \in Nat \ {0} /\ TimerStart(h, service.restart)
    BY <1>1, <1>2, <2>2 DEF ServiceRecord, Restarts
  <2>4. \A u \in Pool : /\ SameTimer(timer'[u], timer[u])
                        /\ u # h.slot => timer'[u] = timer[u]
    <3>1. CASE service.restart # 0
      BY <1>1, <2>2, <2>3, <3>1, StartKeeps
    <3>2. CASE service.restart = 0
      <4>1. TimerStop(h)
        BY <1>2, <2>2, <3>2 DEF Restarts
      <4> QED BY <1>1, <2>2, <4>1, StopKeeps
    <3> QED BY <3>1, <3>2
  <2>5. Owned'
    BY <1>1, <1>2, <2>4, OwnedStays
  <2>6. ASSUME NEW q \in PosixPool PROVE Alone(q)'
    <3>1. ~Lingers(q) => ~Lingers(q)'
      BY <1>2, <2>4, DyingSlots, LingersStays
    <3> QED BY <1>1, <1>2, <3>1, AloneStays
  <2>7. ASSUME NEW q \in PosixPool, q # p PROVE OnTime(q)'
    <3>1. ptimer[q].native # NoHandle =>
             ptimer[q].native.slot \in Pool /\ ptimer[q].native.slot # h.slot
      BY <1>1, <2>1, <2>7, HandleIs, SlotsApart DEF NativeIs
    <3> QED BY <1>4, <2>4, <2>7, <3>1
  <2>8. OnTime(p)'
    <3> SUFFICES ASSUME Awaited(p)' PROVE Punctual(p)'
      BY DEF OnTime
    <3> DEFINE n == ptimer[p].interval
               next == ptimer[p].next
               m == MsToTicks(service.restart)
               d == TickAfter(tick, m)
    <3>1. Awaited(p) /\ Created(p) /\ crossed[p] = {} /\ ptimer[p].active
      BY <1>2 DEF Awaited, Created
    <3>2. Punctual(p)
      BY <1>1, <3>1 DEF OnTime
    <3>3. service.restart # 0
      BY <1>1, <3>1 DEF InStep, Agree
    <3>4. service.restart = TicksToMs(n) /\ NotAfter(tick, next, n) /\ Near(tick, next)
      BY <1>1, <3>2 DEF Punctual
    <3>5. n # 0
      BY <3>3, <3>4, NoTicks
    <3>6. n \in 1 .. MaxTimeout /\ next \in Ticks
      BY <1>1, <3>5 DEF PosixTimerType, PosixTimerRecord
    <3> HIDE DEF n, next
    <3>7. m \in n .. MaxTimeout
      BY <3>4, <3>6, RoundTrip
    <3>8. m \in 1 .. MaxTimeout
      BY <3>6, <3>7
    <3> HIDE DEF m
    <3>9. d \in Ticks /\ Left(d, tick) = m
      BY <1>1, <3>8, LeftAfter
    <3>10. /\ timer'[h.slot].deadline = d
           /\ timer'[h.slot].pending = timer[h.slot].pending
      BY <1>1, <2>2, <2>3, <3>3, StartKeeps DEF d, m
    <3> HIDE DEF d
    <3>11. ~timer[h.slot].pending
      BY <1>0, <1>1, <3>2, <3>5 DEF Punctual, InHand, AtRestart, n
    <3>12. NotAfter(tick, next, m)
      <4>1. Left(next, tick) \in Nat
        BY <1>1, <3>6, LeftIs DEF Ticks
      <4> QED BY <3>4, <3>6, <3>7, <4>1 DEF NotAfter
    <3>13. ~InHand(p)'
      BY <1>3 DEF InHand, AtCallback, AtRestart
    <3> QED BY <1>0, <1>2, <1>3, <3>4, <3>9, <3>10, <3>11, <3>12, <3>13 DEF Punctual, next
  <2> QED BY <2>5, <2>6, <2>7, <2>8 DEF Timely
<1> QED BY <1>5, <1>6

LEMMA PosixTickTimely ==
    ASSUME PosixTimers, Timely, Tick
    PROVE  Timely'
<1> DEFINE now == TickAfter(tick, 1)
<1>1. /\ TimersNow /\ PosixTimerType /\ Owned /\ tick \in Ticks
      /\ \A q \in PosixPool : NativeIs(q) /\ InStep(q) /\ Alone(q) /\ OnTime(q)
      /\ timer \in [Pool -> TimerRecord] /\ ptimer \in [PosixPool -> PosixTimerRecord]
      /\ crossed \in [PosixPool -> SUBSET Crossings]
  BY DEF PosixTimers, Timely, TimersNow, Timers, PosixTimerType
<1>2. TimerTick /\ ServiceKeepsUp /\ tick' = now /\ ptimer' = ptimer /\ dying' = dying
  BY DEF Tick, TimerTick
<1>3. \A u \in Pool : /\ SameTimer(timer'[u], timer[u])
                      /\ timer'[u] = timer[u] \/ timer[u].deadline = now
  BY <1>1, <1>2, TickKeeps
<1>4. now \in Ticks
  BY <1>1, TickAfterType
<1>5. ASSUME NEW q \in PosixPool
      PROVE  /\ crossed[q] \subseteq crossed'[q]
             /\ crossed'[q] = {} => ~(InHand(q) /\ ptimer[q].interval # 0 /\ Created(q)
                                      /\ timer'[ptimer[q].native.slot].pending)
  BY DEF Tick
<1>6. /\ \A q : AtCallback(q)' <=> AtCallback(q)
      /\ \A q : AtRestart(q)' <=> AtRestart(q)
      /\ \A q : AtRestart(q) => service'.restart = service.restart
  <2>1. CASE service' = service
    BY <2>1 DEF AtRestart, AtCallback
  <2>2. CASE service' # service
    <3>1. service.at = "waiting" /\ service' = ServiceAt("dispatch", App)
      BY <1>2, <2>2 DEF TimerTick
    <3> QED BY <3>1 DEF ServiceAt, AtRestart, AtCallback
  <2> QED BY <2>1, <2>2
<1>7. Owned'
  BY <1>1, <1>2, <1>3, OwnedStays
<1>8. ASSUME NEW q \in PosixPool PROVE Alone(q)'
  <2>1. ~Lingers(q) => ~Lingers(q)'
    BY <1>2, <1>3, DyingSlots, LingersStays
  <2> QED BY <1>1, <1>2, <1>5, <2>1, AloneStays
<1>9. ASSUME NEW q \in PosixPool, Awaited(q)' PROVE Punctual(q)'
  <2> DEFINE i == ptimer[q].native.slot
             next == ptimer[q].next
             n == ptimer[q].interval
             w == timer[i].deadline
  <2>1. Awaited(q) /\ Created(q) /\ ptimer[q].active /\ crossed[q] = {} /\ crossed'[q] = {}
    BY <1>2, <1>5, <1>9 DEF Awaited, Created
  <2>2. Punctual(q)
    BY <1>1, <2>1 DEF OnTime
  <2>3. i \in Pool /\ timer[i].active /\ next \in Ticks /\ n \in 0 .. MaxTimeout /\ w \in Ticks
    <3>1. i \in Pool
      BY <1>1, <2>1, HandleIs DEF NativeIs, Created
    <3>2. timer[i].active
      BY <1>1, <2>1 DEF InStep, Agree
    <3> QED BY <1>1, <3>1, <3>2 DEF TimerRecord, PosixTimerRecord
  <2>4. Left(w, tick) \in 1 .. MaxTimeout
    <3>1. TicksLeft(DeadlinesOf(timer), tick)[i] \in 1 .. MaxTimeout
      BY <1>1, <2>3 DEF TimersNow, Timers, ActiveExact, Sorted, ActiveOf
    <3> QED BY <2>3, <3>1 DEF TicksLeft, DeadlinesOf
  <2>5. TickAfter(tick - next, 1) # TickModulus \div 2
    BY <1>2, <2>1 DEF ServiceKeepsUp
  <2>6. /\ Near(tick, next)
        /\ timer[i].pending \/ AtCallback(q) => TickReached(tick, next)
        /\ ~AtRestart(q) => NotAfter(tick, next, Left(w, tick))
        /\ AtRestart(q) => service.restart = TicksToMs(n) /\ NotAfter(tick, next, n)
        /\ InHand(q) /\ n # 0 => ~timer[i].pending
    BY <2>2 DEF Punctual
  <2>7. /\ Near(now, next)
        /\ TickReached(tick, next) => TickReached(now, next)
        /\ ~TickReached(now, next) => Left(next, now) = Left(next, tick) - 1
                                      /\ Left(next, tick) \in 2 .. MaxTimeout
    BY <1>1, <2>3, <2>5, <2>6, NextTick
  <2>8. AtRestart(q) => n # 0
    BY <1>1, <2>1, <2>6, NoTicks DEF InStep, Agree
  <2>9. InHand(q) /\ n # 0 => ~timer'[i].pending
    BY <1>5, <2>1
  <2> HIDE DEF i, next, n, now
  <2>10. ASSUME timer'[i] # timer[i], ~AtRestart(q) PROVE TickReached(now, next)
    <3>1. w = now
      BY <1>3, <2>3, <2>10
    <3>2. Left(now, tick) = 1
      <4>1. 1 \in 1 .. MaxTimeout
        BY MaxTimeoutIs
      <4> QED BY <1>1, <4>1, LeftAfter DEF now
    <3>3. TickReached(tick, next) \/ Left(next, tick) <= 1
      BY <2>6, <2>10, <3>1, <3>2 DEF NotAfter
    <3>4. ~(Left(next, tick) <= 1 /\ Left(next, tick) \in 2 .. MaxTimeout)
      OBVIOUS
    <3> QED BY <2>7, <3>3, <3>4
  <2>11. ASSUME timer'[i].pending \/ AtCallback(q) PROVE TickReached(now, next)
    <3>1. CASE AtCallback(q)
      BY <2>6, <2>7, <3>1
    <3>2. CASE timer'[i].pending /\ timer'[i] = timer[i]
      BY <2>6, <2>7, <3>2
    <3>3. CASE timer'[i].pending /\ timer'[i] # timer[i]
      <4>1. ~AtRestart(q)
        BY <2>8, <2>9, <3>3 DEF InHand, AtRestart
      <4> QED BY <2>10, <3>3, <4>1
    <3> QED BY <2>11, <3>1, <3>2, <3>3
  <2>12. ASSUME ~AtRestart(q) PROVE NotAfter(now, next, Left(timer'[i].deadline, now))
    <3> SUFFICES ASSUME ~TickReached(now, next)
                 PROVE  Left(next, now) <= Left(timer'[i].deadline, now)
      BY DEF NotAfter
    <3>1. timer'[i].deadline = w
      BY <2>10, <2>12
    <3>2. Left(w, now) = Left(w, tick) - 1
      BY <1>1, <2>3, <2>4, LeftCounts DEF now
    <3>3. Left(next, tick) <= Left(w, tick)
      BY <2>6, <2>7, <2>12 DEF NotAfter
    <3>4. Left(next, now) = Left(next, tick) - 1 /\ Left(next, tick) \in 2 .. MaxTimeout
      BY <2>7
    <3> HIDE DEF w
    <3> QED BY <2>4, <3>1, <3>2, <3>3, <3>4
  <2>13. ASSUME AtRestart(q) PROVE service.restart = TicksToMs(n) /\ NotAfter(now, next, n)
    <3>1. NotAfter(tick, next, n)
      BY <2>6, <2>13
    <3>2. ~TickReached(now, next) => Left(next, now) <= n
      <4> SUFFICES ASSUME ~TickReached(now, next) PROVE Left(next, now) <= n
        OBVIOUS
      <4>1. Left(next, tick) <= n /\ Left(next, now) = Left(next, tick) - 1
            /\ Left(next, tick) \in 2 .. MaxTimeout
        BY <2>7, <3>1 DEF NotAfter
      <4> QED BY <2>3, <4>1
    <3> QED BY <2>6, <2>13, <3>2 DEF NotAfter
  <2>14. InHand(q)' <=> InHand(q)
    <3>1. InHand(q) <=> AtCallback(q) \/ AtRestart(q)
      BY DEF InHand, AtCallback, AtRestart
    <3>2. InHand(q)' <=> AtCallback(q)' \/ AtRestart(q)'
      BY DEF InHand, AtCallback, AtRestart
    <3> QED BY <1>6, <3>1, <3>2
  <2> QED BY <1>2, <1>6, <2>7, <2>9, <2>11, <2>12, <2>13, <2>14 DEF Punctual, i, next, n
<1>10. \A q \in PosixPool : OnTime(q)'
  BY <1>9 DEF OnTime
<1> QED BY <1>7, <1>8, <1>10 DEF Timely

LEMMA ServiceTimely ==
    ASSUME PosixTimers, Timely, Dispatch \/ AppCallback \/ ServiceWait,
           UNCHANGED <<ptimer, dying, crossed>>
    PROVE  Timely'
<1>1. /\ TimersNow /\ Owned
      /\ \A q \in PosixPool : NativeIs(q) /\ Alone(q) /\ OnTime(q)
  BY DEF PosixTimers, Timely
<1>2. /\ tick' = tick
      /\ \A u \in Pool : /\ SameTimer(timer'[u], timer[u])
                         /\ timer'[u].deadline = timer[u].deadline
                         /\ timer'[u].pending => timer[u].pending
      /\ \/ \A p \in PosixPool : ~AtCallback(p)'
         \/ \E u \in Pool : /\ timer[u].live /\ timer[u].pending /\ ~timer'[u].pending
                            /\ service' = ServiceAt("callback", timer[u].callback)
  <2>1. CASE Dispatch
    <3>1. tick' = tick
      BY <2>1 DEF Dispatch
    <3>2. service' = ServiceAt("check", App) => \A p \in PosixPool : ~AtCallback(p)'
      BY DEF ServiceAt, AtCallback
    <3> QED BY <1>1, <2>1, <3>1, <3>2, DispatchKeeps
  <2>2. CASE AppCallback \/ ServiceWait
    <3>1. /\ tick' = tick /\ timer' = timer
          /\ service' = ServiceAt("dispatch", App) \/ service' = ServiceAt("waiting", App)
      BY <2>2 DEF AppCallback, ServiceWait
    <3>2. \A p \in PosixPool : ~AtCallback(p)'
      BY <3>1 DEF ServiceAt, AtCallback
    <3> QED BY <3>1, <3>2 DEF SameTimer
  <2> QED BY <2>1, <2>2
<1>3. \A p \in PosixPool : ~AtCallback(p) /\ ~AtRestart(p) /\ ~AtRestart(p)'
  <2>1. \A p \in PosixPool : ~AtCallback(p) /\ ~AtRestart(p)
    BY AppIs DEF Dispatch, AppCallback, ServiceWait, AtCallback, AtRestart
  <2>2. service'.at # "restart"
    BY DEF Dispatch, AppCallback, ServiceWait, ServiceAt
  <2> QED BY <2>1, <2>2 DEF AtRestart
<1>4. Owned'
  BY <1>1, <1>2, OwnedStays
<1>5. ASSUME NEW q \in PosixPool PROVE Alone(q)'
  <2>1. ~Lingers(q) => ~Lingers(q)'
    BY <1>2, DyingSlots, LingersStays
  <2> QED BY <1>1, <2>1, AloneStays
<1>6. ASSUME NEW p \in PosixPool, ~AtCallback(p)' PROVE OnTime(p)'
  <2>1. ptimer[p].native # NoHandle => ptimer[p].native.slot \in Pool
    BY <1>1, HandleIs DEF NativeIs
  <2> QED BY <1>1, <1>2, <1>3, <1>6, <2>1, TimeStays
<1>7. ASSUME NEW p \in PosixPool, AtCallback(p)', Awaited(p)' PROVE Punctual(p)'
  <2>1. PICK u \in Pool : /\ timer[u].live /\ timer[u].pending /\ ~timer'[u].pending
                          /\ service' = ServiceAt("callback", timer[u].callback)
    BY <1>2, <1>7
  <2>2. timer[u].callback = p /\ p # App
    BY <1>7, <2>1, AppIs DEF ServiceAt, AtCallback
  <2>3. Awaited(p) /\ ptimer[p].used /\ crossed[p] = {}
    BY <1>7 DEF Awaited, Created
  <2>4. ~Lingers(p)
    BY <1>1, <2>3 DEF Alone
  <2>5. ptimer[p].native.slot = u
    BY <1>1, <2>1, <2>2, <2>4 DEF Owned, Lingers
  <2>6. Punctual(p)
    BY <1>1, <2>3 DEF OnTime
  <2>7. ~AtRestart(p) /\ ~AtRestart(p)' /\ ~timer'[u].pending
        /\ timer'[u].deadline = timer[u].deadline
    BY <1>2, <1>3, <2>1
  <2>8. TickReached(tick, ptimer[p].next)
    BY <2>1, <2>5, <2>6 DEF Punctual
  <2> QED BY <1>2, <2>5, <2>6, <2>7, <2>8 DEF Punctual
<1>8. \A p \in PosixPool : OnTime(p)'
  BY <1>6, <1>7 DEF OnTime
<1> QED BY <1>4, <1>5, <1>8 DEF Timely

LEMMA TimelyStart ==
    ASSUME PosixTimerInit
    PROVE  Timely
<1>1. /\ timer = [i \in Pool |-> EmptyTimer(0)] /\ ptimer = [p \in PosixPool |-> Unused(0)]
  BY DEF PosixTimerInit, TimerInit
<1>2. ~EmptyTimer(0).live /\ ~Unused(0).used
  BY EmptyIs DEF Unused
<1> QED BY <1>1, <1>2 DEF Timely, Owned, Alone, OnTime, Awaited, Created

LEMMA TimelyStep ==
    ASSUME PosixTimers, Timely, [PosixTimerNext]_posixTimerVars
    PROVE  Timely'
<1>1. CASE Tick
  BY <1>1, PosixTickTimely
<1>2. CASE Service
  BY <1>2, ServiceTimely, PosixExpiredTimely, PosixRestartTimely DEF Service
<1>3. CASE Calls
  BY <1>3, AppCallsTimely, CreateSlotTimely, CreateNativeTimely, DeleteSlotTimely,
     SettimeTimely, DeleteNativeTimely DEF Calls
<1>4. CASE UNCHANGED posixTimerVars
  BY <1>4 DEF posixTimerVars, timerVars, Timely, Owned, Alone, Lingers, OnTime, Awaited,
     Created, Punctual, InHand, AtCallback, AtRestart
<1> QED BY <1>1, <1>2, <1>3, <1>4 DEF PosixTimerNext

LEMMA TimelyInvariant == PosixTimerSpec => []Timely
<1>1. PosixTimerInit => Timely
  BY TimelyStart
<1>2. Timely /\ PosixTimers /\ [PosixTimerNext]_posixTimerVars => Timely'
  BY TimelyStep
<1> QED BY <1>1, <1>2, PosixTimersInvariant, PTL DEF PosixTimerSpec

\* A POSIX timer whose callback was not crossed expires neither before the time
\* it was set to nor before the end of its interval: what the callback asks for
\* in milliseconds is never fewer ticks than the interval, and no expiry of the
\* native timer, or of an earlier one of the slot, is taken for another.
THEOREM ExpiresOnTimeCorrect == PosixTimerSpec => ExpiresOnTime
<1>1. ASSUME PosixTimers, Timely, [PosixTimerNext]_posixTimerVars, NEW p \in PosixPool,
             service.at = "callback", service'.at = "restart", InHand(p), crossed[p] = {}
      PROVE  TickReached(tick, ptimer[p].next)
  <2>1. AtCallback(p)
    BY <1>1 DEF InHand, AtCallback
  <2>2. CASE \E q \in PosixPool : PosixExpired(q)
    <3>1. PosixExpired(p)
      BY <2>1, <2>2 DEF PosixExpired, AtCallback
    <3>2. ptimer[p].used /\ ptimer[p].active
      BY <1>1, <3>1 DEF PosixExpired, ServiceAt
    <3> QED BY <1>1, <2>1, <3>2, ExpectedIs
  <2>3. CASE Tick \/ Calls \/ UNCHANGED posixTimerVars
    <3>1. service' = service
      BY <1>1, <2>3 DEF Tick, TimerTick, Calls, AppCalls, CreateSlot, CreateNative, DeleteSlot,
         Settime, DeleteNative, posixTimerVars, timerVars
    <3> QED BY <1>1, <3>1
  <2>4. CASE Dispatch \/ AppCallback \/ ServiceWait \/ \E q \in PosixPool : PosixRestart(q)
    BY <1>1, <2>4 DEF Dispatch, AppCallback, ServiceWait, PosixRestart, ServiceAt
  <2> QED BY <1>1, <2>2, <2>3, <2>4 DEF PosixTimerNext, Service
<1>2. PosixTimers /\ Timely /\ [PosixTimerNext]_posixTimerVars =>
         [\A p \in PosixPool :
             service.at = "callback" /\ service'.at = "restart" /\ InHand(p)
             /\ crossed[p] = {} => TickReached(tick, ptimer[p].next)]_posixTimerVars
  BY <1>1
<1> QED BY <1>2, PosixTimersInvariant, TimelyInvariant, PTL DEF PosixTimerSpec, ExpiresOnTime
=============================================================================
