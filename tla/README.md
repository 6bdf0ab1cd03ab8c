# A verification of the AIXOS kernel

This directory holds TLA+ models of the AIXOS kernel, the TLC configurations
that check them on small instances, and proofs, checked by TLAPS, of what holds
for every size of the system. Paths such as `kernel/sched.c` are relative to
the source tree.

## 1. The system

AIXOS is a preemptive real-time kernel for one processor. Tasks have fixed
integer priorities; the kernel's data is protected by critical sections that
mask the interrupts that may call the kernel; a context switch is a software
interrupt of the lowest urgency (PendSV on the Cortex-M3).

| Component | State | Operations | Hard behaviour | What makes it correct |
|---|---|---|---|---|
| Scheduler, `kernel/sched.c` | ready queues, bitmap, current task, tick, time slices | add, remove, requeue, rotate, find highest, request preemption, schedule, tick handler | every other component changes its queues, in tasks and in interrupts | queues hold exactly the runnable tasks; the highest one runs; rotation starves nobody |
| Tasks, `kernel/task.c` | task control blocks, timeout list, list of all tasks, reap list | create, start, delete, yield, sleep, block, wake, suspend, resume, set priority, signals | several ways to end one wait; ticks that wrap; calls before the start; self-deletion against the idle task | a task is on exactly the lists its state says; deadlines in order, never early, never lost; a stopped task is freed once |
| Interrupts, `kernel/isr.c` | nesting, scheduler lock, deferred switch | enter, exit, reschedule request, lock, unlock | nested interrupts between any two steps; the unlock asks for its switch after unmasking | a deferred switch is not lost and does not happen under the lock |
| Mutexes, `kernel/ipc/mutex.c` | owner, count, held mutexes, waiters, inherited priority | create, lock, unlock, delete, three hooks called by `task.c` | chains of mutexes, deadlock cycles, timeout against hand-over, deletion of owners | ownership exact; each priority exactly the inherited one; OK means owned |
| Semaphores, `kernel/ipc/sem.c` | count, waiters | create, wait, post, delete | hand-over to a waiter instead of counting; timeout against post | every post is consumed once; count bounded; no waiter while count > 0 |
| Events, `kernel/ipc/event.c` | flags, waiters with mask and mode | wait, set, clear, get | set clears for a waiter that matches again after it wakes | a satisfied waiter returns |
| Notification, `kernel/ipc/notify.c` | value, pending flag of a task | notify, wait, take | take has two critical sections | no notification is lost |
| Message queues, `kernel/ipc/mq.c` | ring of messages with priorities, two wait lists | send, receive, variants for interrupts | woken tasks race newcomers and wait again | bounded, ordered, no waiter without cause |
| Pipes, `kernel/ipc/pipe.c` | ring of bytes, two wait lists | write, read | partial transfer | bytes in order; no reader waits at a pipe that has bytes |
| Objects, `kernel/object.c` | slots with generations | allocate, free, resolve a handle | reuse of slots, wrap of the generation | a stale handle is refused |
| Timers, `kernel/timer.c` | active and pending timers, service task | create, start, stop, change, delete, tick, dispatch | the tick, the service task and the callers share the lists | lists exact; no expiry slept over |
| Memory, `kernel/heap.c`, `kernel/mempool.c` | blocks, lockdown, pools | allocate, resize, free, lock down | splitting, merging; calls of several steps that fail half way | blocks tile the region; every block has one owner |
| Microkernel, `kernel/microkernel.c`, `kernel/namespace.c` | capabilities, channels, connections, messages, names | system calls, send, receive, reply | three tasks and a message in flight, full tables, destruction under way | every object can be named; no receiver sleeps over a message; a reply reaches its sender |
| POSIX, `compat/posix/posix.c` | threads, mutexes, conditions, barriers, read-write locks, keys, timers | the POSIX calls | state beside that of the kernel objects, written in critical sections of its own or in none; timed waits | records freed once; no lost wake-up; both layers agree |
| POSIX names, `posix/src` | tables of named semaphores and queues, descriptors | open, close, unlink | the object is deleted outside the critical section, and that may fail | an open object exists; counts exact |
| Ports, `arch/` | registers, BASEPRI, PendSV | context switch, masking | the first start; a switch asked for during an exception | the order the scheduler relies on |
| MPU, trace, crash, strings, time wheel | tables and buffers | configuration, records | none of protocol | outside this project |

How they interact: everything that blocks calls `aixos_task_block_current`, and
everything that ends a wait calls `aixos_task_wake` (a wake, a timeout) or
`task_detach_wait_locked` (suspension, deletion). Both change the ready queues
and ask for a switch through `isr.c`, which performs it, or defers it while an
interrupt is active or the scheduler is locked. The mutexes are called back by
`task.c` when a wait begins or ends and when a priority changes, and call the
scheduler to requeue. The tick handler expires timeouts and timers. Semaphores,
events, notifications, queues and pipes use nothing of the kernel but blocking
and waking; POSIX and the microkernel are built on their public calls.

`PROJECT.json` lists the components with what is modelled of each, the
hazards (what is hard to test, with its line), and for every definition of the
models the lines of code it stands for.

## 2. The modules

The project has two storeys. `Scheduler` and `Mutex` model the kernel below the
objects in detail: ready queues, priorities, lists, interrupts, the tick.
`Waiting` is the abstract specification of what that floor promises to those
above it; `Scheduler` is shown to implement it, and every object is modelled on
top of `Waiting`.

| Module | Stands for |
|---|---|
| `Clock` | ticks that wrap, comparison of deadlines, insertion into a list ordered by deadline, list operations: what `task.c` and `timer.c` share |
| `Kernel` | the data of `sched.c`, `task.c` and `isr.c` as one record `k`, and each C function that changes it as an operator from record to record |
| `Scheduler` | tasks, interrupts, tick, lock and context switch as a state machine over that record |
| `Mutex` | `mutex.c` as a state machine over the same operators: the kernel in `k`, the mutexes in `mx` |
| `Waiting` | abstract: a task waits, with or without a deadline, and a wake, a timeout, a suspension or a deletion ends the wait |
| `Calls` | tasks inside the calls of an object: what each has still to do |
| `CountingSemaphore` | abstract: permissions, waiters, tasks that were granted one; each post answered OK makes one permission, each wait answered OK uses one up |
| `Semaphore` | `sem.c` |
| `Event` | `event.c` |
| `Notify` | `notify.c`; the machine's AND and OR are constant operators, which the instance takes from `Bitwise` |
| `BoundedBuffer` | abstract: a bounded sequence ordered by priority and arrival |
| `Buffers` | `mq.c` and `pipe.c`: the ring, the two wait lists, the loops |
| `Objects` | a task set together with one semaphore, event, notification or buffer; or the signals of a task |
| `Timer`, `PosixTimer` | `timer.c`; POSIX timers on top of it, with an application that has timers of its own |
| `Heap` | `heap.c`: the blocks as a sequence, allocation, merging |
| `Reaper` | `reap_stopped_tasks` and `list.h`: the list of tasks that deleted themselves, by its links |
| `Signal` | the signals of a task: pending set, mask and flag, sent in critical sections and delivered outside of any |
| `Memory` | who owns which memory: calls of `heap.c`, creation and deletion of objects as sequences of allocations, slots and handles of `object.c`, `mempool.c` |
| `Microkernel` | `microkernel.c` and `namespace.c` |
| `PosixSync` | condition variables, barriers and read-write locks of `posix.c` |
| `PosixThread` | thread records: create, exit, join, detach |
| `PosixMutex` | mutexes of the three types, with owner and count in two layers |
| `PosixKeys` | thread-specific data and destructors |
| `PosixNamed` | named semaphores and queues of `posix/src` |
| `Posix` | a task set together with one of the objects of the five |
| `MC...` | instances for TLC: values of constants, symmetry, view |
| `KernelProofs`, `SchedulerProofs`, `MutexProofs` | proofs about `Clock`, `Kernel`, `Scheduler`, `Timer`, `PosixTimer` and `Mutex`, section 4 |
| `WaitingProofs`, `ObjectProofs`, `PosixProofs`, `MicrokernelProofs` | proofs about what is built on `Waiting` |
| `MemoryProofs` | proofs about `Heap`, `Reaper` and `Memory` |

### Correspondence to the code

* **A critical section is one step.** All the functions in `Kernel` run between
  `aixos_arch_int_disable` and `aixos_arch_int_restore`, and a call composes
  them in the order of the code. Where the code leaves the critical section in
  the middle of a call the model has several steps, and anything may happen
  between them. In `Scheduler`: `SchedUnlock` and `SwitchNow` (the request of
  `aixos_sched_unlock` comes after `aixos_arch_int_restore`; `owed` holds the
  tasks in between), and `TickStart`, `TickExpire`, `TickEnd`. The tick
  handler runs without a critical section around it, but its default urgency is
  the highest that may call the kernel, so it is not interrupted by others;
  `inTick` says so. Above `Waiting`: `call[t]` is the place a task has come to in
  a call, with the arguments and locals it still needs.
* **Code outside of critical sections is one step per access** to what is
  shared: the reaper's reads and writes of links, the two looks of
  `run_key_destructors` at a key, the two assignments of `setspecific`, owner
  and count of a POSIX mutex against the calls of the kernel, and the count of
  waiting writers of a read-write lock. A writer that is suspended while it waits
  to lock the mutex again takes itself off that count without the mutex
  (posix.c:1016), so every `++` and `--` of it is a step that reads (`ReadCount`,
  the value in `seen`) and a step that writes (`CountWriter`, `UncountWriter`,
  `UncountAstray`), and the two tests of the unlock (lines 1067 and 1070) are two
  steps as well. The count wraps at `CountModulus` (2^32 in the code).
* **Lists are sequences.** The self-linked and NULL nodes by which the code
  recognises a task that is on no list appear as absence from every sequence.
  The two differ in one place only: a task created before `aixos_start` has a
  self-linked node and counts as queued for `aixos_sched_requeue_task`. The
  model makes no such call before the start; that hazard is listed as open. In
  `Reaper` the links themselves are modelled, because there a list is changed by
  two tasks at once.
* **Wait lists above `Waiting` are sets**, and the task that is woken first may be
  any of its members. That holds for every assignment of priorities and every
  order of arrival; properties that depend on the order belong to `Scheduler` and
  `Mutex`. Priorities and the processor disappear too: any active task
  may take the next step. A task that is suspended and does not wait is one that
  takes no step for a while.
* **`pendsv`** is the PendSV exception that the port has been asked for. It is
  taken when no interrupt is active, before thread code goes on: a thread step
  has the guard `~k.pendsv`. A task that blocks, suspends or deletes itself is
  therefore current, but not `RUNNING`, until the switch, and an interrupt may
  wake it in that window; `OnlyCurrentRuns` is about it.
* **The running task stays on its ready queue**, as in the code; it leaves when
  it blocks, is suspended or deleted. **The bitmap is separate from the queues**,
  because the code updates it from a priority it trusts to be the right one.
* **Ticks wrap** at `TickModulus` (2^32 in the code), and `TickReached` is the
  sign of the difference. Timeouts are limited to half the modulus, as
  `aixos_ms_to_ticks` limits them. **Generations** of slots wrap at `GenModulus`.
* **`wake_tick`** keeps its last value in the code; the model clears it when the
  task leaves the timeout list, where nothing reads it.
* **A deleted task** is freed and its control block may be used again; the model
  clears the fields and lets the identity be created again.
* **Handles** of objects above `Waiting` are the number of the creation. A call
  with a stale handle that returns an error changes nothing and is left out.
* **`Objects`, `Memory` and `Posix` choose at the start** what a behaviour is
  about. The parts share only the tasks, and a task is in one call at a time, so
  their product would multiply states and add no behaviour of either part.
* **A supervisor call is one step** in `Microkernel`: no task runs before the
  handler has returned, even when it has blocked its caller.
* **Histories.** Some variables and fields exist to state a property and guide
  nothing: `left`, `overtaken`, `crossed`, `retired`, `early`, `depth`,
  `held`, `leftover`, and `permits` of `Semaphore`, which counts by the answers the
  callers get.

In `Mutex` the machine starts when `aixos_start` has dispatched the first task,
the tick interrupt and an interrupt that signals an object are one step each
(nesting and the split of the tick are the subject of `Scheduler`), and
`recompute_chain` follows the owners (`Chain`), at most `ChainLimit` deep as in
the code (`AIXOS_CFG_TASK_HANDLE_LIMIT`, which is no less than the number of tasks). `aixos_task_wake` and the other callers of
the mutex hooks are written out again there because the hooks are part of their
critical section.

An operator whose comment starts with "Faulty" is not part of the model. It is
a plausible mistake in the operator that follows; `PROJECT.json` names, for
each checked property, one that makes it fail. They show that each property
depends on the code it is about.

## 3. The runs

| Run (cfg) | Instance | States | What it shows |
|---|---|---|---|
| `scheduler` (`MCScheduler`) | 3 interchangeable tasks and idle, priorities 0..2, 1 wait list, interrupts nested 2 deep, lock depth 1, ticks modulo 4 | 1.06 million | the lists agree with the states, waiters in order of priority; the current task alone runs; deferred switches are neither lost nor early, and none happens under the lock; every switch goes to a highest task; only creation leaves a preemption out and the next tick makes it good; ready tasks of one priority keep their order |
| `scheduler_time` (`MCSchedulerTime`) | 2 tasks and idle, ticks modulo 6, timeouts of 1 tick and of the longest length, no nesting | 96 thousand | deadlines are in order across the wrap and never passed over; a sleep ends at its deadline; `Scheduler` implements `Waiting`; under fairness every deadline expires, a ready task that nothing outranks runs, and a deferred switch takes place |
| `mutex` (`MCMutex`) | 3 tasks of different priorities and idle, 2 mutexes, 1 other object, recursion 2 deep, timeouts of 1 tick | 0.79 million | owner, count, held list and waiters agree; every priority is exactly the inherited one, and waiters are in its order; a lock that has waited returns OK exactly if it owns the mutex |
| `mutex_unlock_preempts` (`MCMutexPreempt`) | the same | counterexample | section 5 |
| `objects` (`MCObjects`) | semaphore with 3 tasks and count up to 2; 2 event flags and 2 tasks; 2 notified tasks with 2-bit values; 5 setups of queues and pipes with 1 to 3 tasks and capacity 1 to 3; 3 signals of a task | 0.42 million | `Semaphore` implements `CountingSemaphore`: no permission is lost or doubled; the ring implements `BoundedBuffer`; a set leaves no satisfied waiter behind; no notification is slept over or miscounted; signals sent outside the window of their delivery are kept and announced, and none is delivered twice; no task waits for what is there unless enough woken tasks are on their way |
| `event_clear` (`MCEvent`) | 2 flags, 2 tasks | counterexample | section 5 |
| `timer` (`MCPosixTimer`) | 2 software timers, at most 1 of the application's, 1 POSIX timer used twice, ticks modulo 6, 750 ticks per second | 94 thousand | the lists of timers are exact at every tick; a POSIX timer is armed exactly if its software timer runs, and is not early; every expiry is served |
| `memory` (`MCMemory`) | 2 interchangeable tasks and a heap of 9 units; a kind with three buffers, tasks with two blocks and paged slots, kinds with generations modulo 4; a pool of 3 blocks; 3 tasks that delete themselves | 0.52 million | blocks tile the heap and neighbours merge; no failure half way through a call leaks; stale handles are refused; stopped tasks are freed once |
| `microkernel` (`MCMicrokernel`) | 3 tasks; tables of 1 to 3 entries in three setups | 0.49 million | no service leaves an object nobody can name; no registered receiver sleeps over a message |
| `ipc_reply` (`MCMicrokernelReply`) | the same | counterexample | section 5 |
| `posix` (`MCPosix`) | 3 interchangeable threads; 2 reader slots; a barrier for two passed up to twice; 2 names and 2 table entries; one key for two threads or two keys for one; mutexes of each type locked up to twice | 1.88 million | no signal is lost; read-write locks exclude, and count writers exactly unless two updates of the count cross; records freed once; named objects, key values and the two layers of a mutex agree |
| `barrier` (`MCPosixBarrier`) | 3 threads, a barrier for three | counterexample | section 5 |

Why the bounds suffice to meet the interesting cases:

* three tasks on two priorities give two ready tasks of one priority with a
  third that preempts, blocks or leaves; a queue of three; a middle element to
  unlink. Both priorities can be assigned again at any moment;
* two nested interrupts give a request in an inner interrupt that the outer one
  must not act on; lock depth 1 is the depth at which the count matters, since
  the code treats every value above zero alike;
* ticks modulo 4 (6 in the timed runs) wrap within every behaviour; with modulus
  6 a timeout of 2 is the longest that the signed comparison distinguishes, so
  the extreme case is taken all the time. 750 ticks per second round 1 ms up
  to one tick, and the way back from ticks to milliseconds rounds up again, as
  the restart of a POSIX timer does;
* two mutexes and three tasks give a chain (high waits for mid, mid for low) and
  the deadlock of two tasks, which is a cycle of `recompute_chain`; the number
  of levels in the model is the number of tasks, as the edges of a cycle repeat;
* three tasks at an object are a woken task, a newcomer that overtakes it and one
  that waits on; a ring of three with urgent messages wraps and shifts across its
  end; the pipes have transfers of nothing, of part of a request, and in two
  copies; notification values of two bits meet the limit of the counter;
* the heap of nine units holds two requests of the small size and one of the
  large one with their headers, so that it runs out in the middle of every kind of
  call, blocks have neighbours on both sides to merge with, and a remainder can be
  too small to split;
* a list of three stopped tasks has a first, a middle and a last to be taken out
  while another is appended;
* tables of one or two entries are full in every run; two connections and two
  messages give two pending messages on a channel in either order;
* two readers in two slots fill the table of readers while a writer waits and
  a third thread comes; a count modulo 4 holds every number of waiting writers
  there can be, and wraps when an update has been lost; a barrier for two is passed while a thread of the
  generation before has not left; two entries allow the same name to live a
  second time beside an unlinked one.

Bounds in guards, none of which the code has: `MaxIsr` (nesting), `MaxLock` (lock
depth), `MaxCount` (recursion of a mutex, stands for `UINT32_MAX`, and the guard
against overflow is met), `MaxHandles` (creations of an object or of a key),
`MaxUsers` and the field `users` of setups (tasks that exist), `MaxGen`,
`MaxPosixGen` (uses of a timer slot), `MaxAppTimers`, `MaxMine` (blocks of the
application), `lives` of `Kind`, `MaxGeneration` (barrier), `MaxExcess` (waits that
fail while a post for them is there; each leaves the semaphore one higher),
`MaxReferences` (stands for `UINT16_MAX`, which is tested), two read locks of one
thread on one read-write lock, `MaxDepth` (locks of a POSIX mutex), `DestructorRounds` (4 in the code), `ServiceKeepsUp` (the timer
service is never late by half the range of ticks).

The run `posix` has a constraint, `FewAfterCrossing`: once two updates of the count of
waiting writers have crossed, the count is arbitrary, and states with
three threads inside calls, a thread that reads twice or a post left over are not
followed further. What is still claimed there is that writers exclude
readers; the theorem has it without the constraint.

Symmetry: tasks that start alike and that no action names are interchangeable
(`scheduler`, `objects`, `memory`, `microkernel`, `posix`), so are the mutexes
of `mutex`. No liveness property is checked under symmetry. `ClockView` in
`MCMutex` identifies states that differ by a shift of the clock: every operator
compares ticks through their difference, so such states have the same futures
up to the shift, and the checked properties do not mention the tick.

Deadlock is checked in every run but `posix` and `barrier`. There threads may
block one another for good by the use they make of the objects (a condition
nobody signals, two threads that join each other, the barrier of
section 5), keys and generations reach their bound, and a thread that is over is
not created again.

### Exceptions the properties state

Some properties hold but for a case that the code really has. Each is named in
the property and excluded no further than that:

* `NoLostWakeup`, `left`: a woken task that is deleted, whose buffer is too small,
  whose message is refused or that, at a pipe, does not use up what it was woken
  for, wakes nobody in its place.
* `TimersInStep`, `ExpiresOnTime`, `crossed`: the callback of a POSIX timer decides
  in one critical section and restarts or stops the native timer after it; a
  `settime` in between is undone by it.
* `ReceiverNotAsleep`, `overtaken`: a second receiver takes the place of the first
  on a channel; the first is not woken by messages any more.
* `RecordsFreedOnce`, `early` and `DetachedMeanwhile`: a thread that ends before its
  creator has linked its record; a detachment after the thread has looked
  whether it is detached and before it posts its completion (it then
  posts through a record that has been freed).
* `NamedExact`, `Stranded`: the unlink of an object that nobody has open, on which
  a task waits, leaves an entry without a name that nothing frees.
* `StoppedTasksReaped`, `crossed`: a task that deletes itself after the idle
  task has read the links of the last task of `reap_list`, and before it has
  written both neighbours, is lost from the list. Its memory is not freed, and
  neither, perhaps, is that of the tasks appended after it. What is never
  reached is memory that has been freed. No document promises the reclamation, so
  this is not listed in section 5.
* `RwlockExact`, `crossed`: a writer that takes itself off the count of waiting
  writers without the mutex (posix.c:1016) between the read and the write of another
  update of the count (lines 1008, 1016 or 1021), or the other way round. One of the two
  updates is lost, and the count is wrong for good: too high, and readers and
  the destruction of the lock are held off by a writer that is not there; too low, and
  it wraps to 2^32 - 1 when the last writer leaves, or readers are let in before a
  writer that waits. Without the exception TLC finds it: writer A, suspended while
  it waits for the mutex, reads 1; writer B reads 1 and writes 2 (line 1008); A writes
  0; B, with the lock, takes itself off and leaves 2^32 - 1. No document or test of the
  repository promises more of read-write locks than "Partial"
  (`POSIX_COMPATIBILITY.md:46`), so this is not listed in section 5. What
  always holds, and is claimed without exception, is that writers exclude readers.
* `KeyValuesExact`, `crossed`: a key is deleted between the two looks of
  `run_key_destructors`, or between the two assignments of `setspecific`.

### Fairness

`LiveSpec` of `Scheduler` assumes, and nothing else:

* the tick interrupt comes again and again, even if other interrupts hold it off
  for some time (strong fairness of `TickStart`): SysTick is periodic and the
  processor is not saturated with interrupts;
* the tick handler runs to its end (weak fairness): it is straight-line code
  that no other kernel interrupt preempts;
* interrupt handlers end and a pending PendSV is then taken (strong, since
  interrupts may come first): the hardware takes PendSV as soon as no exception
  is active, and the processor is not saturated;
* a task that has locked the scheduler unlocks it when it has the processor, and
  finishes `aixos_sched_unlock`: the contract of the call. Without it nothing can
  be promised to anyone;
* `aixos_start` runs to its end.

No fairness is assumed of an application's other calls. `NoStarvation` is about
tasks that no runnable task outranks: lower ones may starve by design. In that
run priorities do not change after creation, because a task that sets a
priority again and again moves the task to the tail of its queue each time,
and may keep it from running.

`PosixTimer` assumes weak fairness of the timer service and nothing of the tick
or the application: the service has the highest priority by default, and the
callbacks of the application return. `EveryExpiryServed` then also says that a
timer that expires again and again cannot keep another one from its callback.

## 4. The proofs

The eight proof modules are checked by TLAPS in full. Nothing bounds the number
of tasks, lists, priorities, interrupts, conditions, keys or table entries. What
is assumed of the constants, all of it checked by TLC on the instances of the
runs:

| Assumption | Says |
|---|---|
| `ClockAssumption` | a tick counter of even width, of at least four values |
| `TimerAssumption`, `PosixTimerAssumption` | the sizes of the pools are numbers, and so are the intervals that are asked for in milliseconds, none of them 0; at least one tick per second; no POSIX timer has the number that stands for the application |
| `KernelAssumption`, `SchedulerAssumption` | NULL is not a task or a list; at least two priorities; slices of at least one tick; the application passes legal priorities and timeouts |
| `SemaphoreAssumption` | the wait list of the semaphore is one, NULL is not, the limit is a number; finitely many tasks |
| `BuffersAssumption` | the two wait lists are different, NULL is neither; finitely many tasks; a capacity of at least one, buffer lengths that are numbers; a call passes one message to a queue (with a priority that is a number) or bytes, which have none, to a pipe |
| `SignalAssumption` | the limit of the signals is a number |
| `MicrokernelAssumption` | the sizes of the tables and the limit of the semaphores are numbers; NULL is not a task; a channel is not a semaphore and not NULL |
| `PosixMutexAssumption`, `PosixThreadAssumption`, `PosixNamedAssumption`, `PosixSyncAssumption` | the wait lists of the objects are wait lists, NULL is not; "no thread", "no owner" and "no name" are none |
| `PosixSyncAssumption` | further: finitely many threads, and not more of them than a semaphore can count (`AIXOS_CFG_SEM_MAX_COUNT` is 0x7FFFFFFF; a signal that found the semaphore full would be dropped), and fewer than the count of waiting writers can hold (2^32) |
| `PosixKeysAssumption` | the sizes of the key table are numbers |
| `MutexAssumption` | mutexes are wait lists; finitely many tasks, each with a legal priority, the idle task the lowest; `recompute_chain` may go as deep as there are tasks (its limit in the code is the number of task handles) |
| `EventAssumption` | the wait list of the event is one, NULL is not; finitely many tasks |
| `NotifyAssumption` | the list of those that wait for a notification is a wait list; AND gives no more than its first argument, and 0 with 0; AND and OR of two values are values |
| `ReaperAssumption` | finitely many tasks; the head of the list is not one of them |
| `HeapAssumption` | a header takes at least one unit, and the heap holds more than a header and a unit |
| `MemoryAssumption` | generations are at least two, sizes and numbers of slots are numbers, the blocks of a pool have a size |
| `PosixAssumption` | a behaviour is about one of the seven kinds of object, and the wait list of a named object is not that of another object |

| Theorem | Statement |
|---|---|
| `InductiveInvariant` | `Spec => []IInv` |
| `TypeCorrect` | `Spec => []TypeOK` |
| `ReadyQueuesCorrect` | `Spec => []ReadyQueuesExact` |
| `SwitchCorrect` | `Spec => SwitchToHighest` |
| `OnlyCurrentRunsCorrect` | `Spec => []OnlyCurrentRuns` |
| `DeferredSwitchCorrect` | `Spec => []DeferredSwitchKept` |
| `PreemptionKeptCorrect` | `Spec => PreemptionKept` |
| `TickRestoresCorrect` | `Spec => TickRestoresPreemption` |
| `WaitListsCorrect` | `Spec => []WaitListsExact` |
| `DeadlinesCorrect` | `Spec => []DeadlinesAhead` |
| `SleepIsExactCorrect` | `Spec => SleepIsExact` |
| `WaitingImplemented` | `Spec => ImplementsWaiting` |
| `ReadyIsFifoCorrect` | `Spec => ReadyIsFifo` |
| `SemaphoreCorrect` | `SemSpec => SemaphoreImplements` |
| `PermissionsConserved` | `SemSpec => []Conserved`: the permissions promised and not yet received are the count and the woken tasks that have not returned |
| `NobodyWaitsInVain` | `SemSpec => [](Listed /\ NoneInVain)` |
| `RingCorrect` | `BufferSpec => RingImplements` |
| `NoLostWakeupCorrect` | `BufferSpec => []NoLostWakeup` |
| `SignalsNotLost` | `SignalSpec => []SignalsKept` |
| `NoSatisfiedEventWaiterCorrect` | `EventSpec => []NoSatisfiedEventWaiter` |
| `NotificationsKeptCorrect` | `NotifySpec => []NotificationsKept` |
| `PosixTimersInvariant` | `PosixTimerSpec => []PosixTimers` |
| `TimerListsExactCorrect` | `PosixTimerSpec => []TimerListsExact` |
| `TimersInStepCorrect` | `PosixTimerSpec => []TimersInStep` |
| `ExpiresOnTimeCorrect` | `PosixTimerSpec => ExpiresOnTime` |
| `MutexInvariant` | `Spec => []MInv` (of `Mutex`) |
| `OwnershipExactCorrect` | `Spec => []OwnershipExact` |
| `InheritanceExactCorrect` | `Spec => []InheritanceExact` |
| `LockedMeansOwnedCorrect` | `Spec => LockedMeansOwned` |
| `ReaperInvariant` | `Spec => [](ReaperInv /\ IdleType)` (of `Memory`) |
| `StoppedTasksReapedCorrect` | `Spec => []StoppedTasksReaped` |
| `HandlesInvariant` | `Spec => []HandlesInv` |
| `StaleHandlesRefusedCorrect` | `Spec => []StaleHandlesRefused` |
| `MemInvariant` | `Spec => []MemInv` |
| `HeapExactCorrect` | `Spec => []HeapExact` |
| `PoolInvariant` | `Spec => []PoolInv` |
| `NothingLeakedCorrect` | `Spec => []NothingLeaked` |
| `MicroInvariant` | `Spec => []MicroInv` (of `Microkernel`) |
| `ReceiverNotAsleepCorrect` | `Spec => []ReceiverNotAsleep` |
| `NothingOrphanedCorrect` | `Spec => NothingOrphaned` |
| `LayersAgree` | `PosixMutexSpec => []MutexLayersAgree` |
| `NobodyWaitsForAFreeMutex` | `PosixMutexSpec => []` (free in the kernel => no thread on its wait list) |
| `ObjectsInvariant` | `Spec => []KindInv` (of `Posix`) |
| `NoSignalLostCorrect` | `Spec => []NoSignalLost` |
| `RwlockCorrect` | `Spec => []RwlockExact` |
| `RecordsFreedOnceCorrect` | `Spec => []RecordsFreedOnce` |
| `NamedCorrect` | `Spec => []NamedExact` |
| `KeyValuesCorrect` | `Spec => []KeyValuesExact` |
| `MutexLayersCorrect` | `Spec => []MutexLayersAgree` |

### The scheduler

The inductive invariant of `Scheduler` is `IInv == TypeOK /\ Queues(k, Ready) /\
BootInv`. `TypeOK` alone is not inductive. After a context switch the current task
must be a task and not NULL; the switch takes the head of the queue that the bitmap
names, so the bitmap must be exact, some queue must not be empty, and the head
must be a task. The idle task is what is always on a queue, which holds because
the queues contain exactly the runnable tasks and the idle task is never
blocked, suspended or deleted. During `aixos_start` the exact content is the
runnable tasks already visited; `BootInv` says how `boot`, `phase` and the states
go together until then.

The lemmas go bottom up: lists (`ListDel`, insertion at a position that exists,
`Append`), numbers (a first index with a property, a greatest priority: both from
the well-foundedness of `<`), then each function of `sched.c` (`SchedAdd`,
`Dequeue`, `SchedRemove`, `SchedRequeue`, `RotateCurrent`, `HighestReady`,
`Schedule`), of `task.c` and `isr.c`, each stated as "types are kept and the
queues then hold this set". One lemma per action of `Scheduler` follows, and
`NextInv` puts them together. `SwitchCorrect` uses the invariant at the moment of
the switch: the bitmap is exact, so the highest bit is the highest priority of a
runnable task.

The second part of `SchedulerProofs` builds on `IInv`. It first says once what each action does to the tasks
(`Quiet`, `Made`, `Begun`, `Ended`, `Moved`, and whether a switch is asked for:
`Preempts`), and every later proof uses these effects and not the record updates.

* *Who runs.* `SwitchInv` is `Runs(k)` while the system runs: no task but the
  current one is RUNNING; the current one is, or PendSV is pending; a request that
  was deferred is only there under an interrupt or the lock; PendSV is never
  pending under the lock. It is inductive with two clauses that the properties do
  not mention: a task that holds the lock does not owe a switch, and the slice
  of the current task has been charged during the tick. `OnlyCurrentRuns`,
  `DeferredSwitchKept` and the two action properties on preemption follow. For
  the latter, `Lost(kk)` says that a more urgent task is ready and nothing is on
  its way. A step keeps it from coming about by asking (`Preempts`) or by making
  nobody ready; only `TaskCreate` does neither.
* *Who waits.* `Waits(k)`: lists have no repetition and are in order of priority,
  a task is on the list that its control block names and on no other, and
  BLOCKED or DELAYED exactly if it waits. `StepCause` then sums up a step: it
  leaves the waits alone, advances the clock, begins one wait, or is a `Change` of
  one task (made, moved, woken, timed out, suspended, stopped). `Deadlines`, that
  the timeout list is in order of the time left, needs `inTick` as a parameter:
  during the tick the first entries may be due, outside of it none is. The clock
  advances only when none is, so that no deadline is ever passed over and the
  order survives the wrap of the counter.
* *Refinement.* `View` maps the kernel record to the variable of `Waiting`. Each
  cause is a step of `Waiting` or a stutter: a woken task is `WakeBy`, a timeout
  `TimeOut` and so on. The obligations are equations between records, hence the
  lemmas on `ViewWith`. So every object that is proved or checked over `Waiting`
  runs over this scheduler.
* *First in, first out.* `KeepsOrder(kk, r, X)` says that two tasks outside `X` that
  stood in this order on a queue still do in `r` if both are still queued. Each
  function of `sched.c` keeps it with `X` the task it handles. `Passed` has per
  action who may lose a place: the current task by rotation, a task whose
  priority is set, a task that stops being ready.

### Timers

The third part of `SchedulerProofs` is about `Timer` and `PosixTimer` together, for
pools of any size, any width of the tick, any tick rate and any set of intervals.

* *The lists.* `TimersNow` is `TimerListsExact` with types and with what the
  distance of a deadline may be: at most `MaxTimeout`, which is what makes the signed
  comparison right, and so the order of the list survive the wrap. The tick is the
  step that needs work. It takes the first `n` timers off the list and puts the
  periodic ones back, one after the other, with deadlines further on. `Requeued` and
  `Announced` are recursive functions of how many have been dealt with. A timer that
  is put back may be handled only because the others keep their deadlines, so the
  proof carries along which of the expired timers are back on the list so far.
  Because the tick counter moves by one and no deadline is behind it, the timers that
  are due are due just now; that `NextDeadline` is ahead follows.
* *In step.* `PosixTimers` adds that each native timer of a POSIX timer is there,
  periodic, and calls back for this POSIX timer only (`NativeIs`), also when its POSIX
  timer is already gone (`Dying`), and `InStep`: outside of the window between the two
  critical sections of the callback the POSIX timer is armed exactly while the native
  timer runs; within it the callback is about to restart the native timer exactly if
  the POSIX timer is still armed. `TimersInStep` alone is not inductive, as it does
  not know what the callback is about to do. A timer that was set in that window is
  excepted, and so is nothing else: a slot that is deleted and used again in the
  window counts as set.
* *On time.* `ExpiresOnTime` needs that the native timer never announces an expiry
  before the time that the POSIX timer has written down. `Punctual` says this three
  ways: for the deadline of a native timer that runs, for an expiry that is pending
  or being served, and for the restart that the callback is about to make. The
  restart asks in milliseconds for an interval that was kept in ticks; `RoundTrip`
  proves that the rounding up on both ways never loses a tick, and that the limit
  `MaxTimeout` does not cut it. `Alone` and `Owned` say that no callback of a native
  timer that is still to be deleted comes to be mistaken for one of the next timer
  of the slot. That the time can be compared at all is the bound `ServiceKeepsUp`:
  were the service late by half the range of the tick counter, a time that has
  passed would look like one to come. With 32-bit ticks at one kilohertz this is
  more than three weeks.

### Mutexes

`MInv == Sound(k, mx) /\ Running(k)` is inductive: the owners, counts and lists of
held mutexes agree with the wait lists (`Ownership`, `Shape`), the ready queues
hold the runnable tasks, a wait list is in order of priority, and every task has
the highest of its own priority and of those of its waiters (`Settled`). Inside a
critical section the last does not hold: `SoundBut(k, mx, x, y)` excepts the tasks
`x` and `y`, whose priority has not been computed again yet.

The heart is `recompute_chain`, first without the kernel: `P` are the priorities,
`W[t]` the waiters of `t`. The walk starts at the one task that may be wrong. Each
step settles the task at which it is and leaves at most the next owner wrong, so
that a walk that ends settles everybody. A walk in a circle, the tasks of a
deadlock, does not end by itself. What bounds it is a count: either the wrong task
is too low (`Rising`), it ought to have the value `v` that the walk carries along, and
each step leaves one more task at `v` or above; or it is too high (`Falling`), with
the value `v`, and each step leaves one more task below `v`. Neither can be all the tasks
(`NotAll`), so that the walk settles everybody within `|Tasks|` steps, and the limit in the
code, the number of task handles, never cuts it off too early. Everything about the
walk is proved by the step at which it first goes wrong (a least
counterexample), and so needs no induction theorem. `OwnershipExact`,
`InheritanceExact` and `LockedMeansOwned` then follow call by call. Detaching
a waiter and deleting a task are where two tasks are unsettled at once, which is what
`Detachable` says. That the chain is exact *and no switch is requested after it* is
the finding of section 5; it concerns who runs, and no theorem here.

### One object at a time

`SemSpec` is one semaphore and the tasks by themselves, as in `Objects` when that
is what the behaviour is about. Its invariant is `SemInv == SemType /\ Listed /\
NoneInVain /\ DeletedIsEmpty`. The refinement maps a task to a waiter by its place in
the call and to a granted one by its result, while `sem.c` decides by its wait
list; `Listed` is what makes the two the same set. `NoneInVain` (nobody waits while
the count is positive) is inductive only together with `Listed`, since a post looks
at the list to decide whether to count. `SemStep` then maps every step to one of the
abstract semaphore or to a stutter.

The abstract semaphore has no step that changes its value freely. `permits` is what the
callers have been told: a creation adds its count, a post answered OK adds one, a wait
answered OK takes one, and the deletion of the semaphore, or of a task that was
woken and has not returned, takes what goes with it. An abstract post raises
`permits` by one and, in the same step, the value by one or the tasks that were granted a
permission by one; so a hand-over that was counted as well, a post that was answered
and forgotten, or a wait that returned OK without a post would be no step of
it. `PermissionsConserved` says the consequence as an invariant, and follows from the
refinement by counting sets.

`PosixMutexSpec` is one POSIX mutex and its threads, as in `Posix` when the task set
is about a mutex. `MutexLayersAgree` speaks only of threads that are in no call,
and so is not inductive: what it says of a thread that returns must already
hold, in another form, at every step of the call. `LayersInv` has it by thread. A
thread is a `Stranger` to the mutex of the kernel, or, if it is its owner, either
`Settled` (in the application, or in the POSIX layer before it calls the kernel)
or `Arriving` (the kernel has given it the mutex, perhaps by the unlock of
another thread, and the POSIX layer has not noted it). The POSIX owner is then
the owner in the kernel or nobody, never a third thread, and, but for the type
NORMAL where nothing reads it, only the owner in the kernel writes it: this is why
the writes outside the critical section (posix.c:700) do no harm among threads
that lock and unlock. Nobody waits while the mutex is free
since the kernel hands it over in the critical section of the unlock. The facts
on `Waiting` that both proofs need are in `WaitingProofs`.

### The POSIX objects

`PosixProofs` is about the specification that the run `posix` checks. A behaviour is
about one kind of object; `KindInv` says that the objects of this kind satisfy
their invariant and that the others are as at the start.

* *Conditions, barriers, read-write locks* (`SyncInv`). What must be inductive is a
  count over threads: `Counted` says that the threads that no signal has reached
  (`Awaiting(c)`: about to sleep, asleep, or awake with another answer and not yet
  counted out) are no more than the waiters counted plus the posts of the
  semaphore. A signal lowers the one and raises the other or wakes somebody, a
  timeout leaves the thread in the set until it has taken itself out of the
  count. `NoSignalLost` is weaker and not inductive: a signal that wakes a thread
  needs to know that the others are still covered. A post can always be given
  because there are no more threads than a semaphore counts. For the locks,
  `RwExcluded` says that a writer excludes readers and that one that is about to have
  the lock has seen that nobody has; it always holds, because all that writes
  the owners of the lock runs under the mutex. That is `Owned`: a thread at a place
  of the call where it should have the mutex (`Holding`) is its owner, so that of two
  such threads only one moves. `RwExact` holds while no two updates have crossed:
  `waiting` equals the cardinality of the writers in the loop, a thread between the
  read and the write of an update has read what `waiting` still is, and one that
  updates without the mutex does so alone. `Fit` ties the place of a writer in the call
  to whether it is counted.
* *Thread records* (`RecordsInv`). A record is at one of nine stages (`Unused`,
  `Starting`, `Running`, `Ending`, `Detached`, `Kept`, `Unlinked`, `EndingItself`,
  `Freed`), each of which says who may hold a pointer to it and how many posts its
  semaphore has; or its thread ended before it was linked (`EndedEarly`), the case
  the property excludes. Each step moves one record from one stage to another
  and leaves the rest alone (`QuietStep`). The stages are where the argument lies:
  at most one task is between its decision to free a record and the free.
* *Named objects* (`NamedInv`). `EntryFit` adds to the property that a task that is
  about to delete an object has the entry for itself: it is unlinked, nobody
  refers to it, no other task deletes it; and `OneOfAName` that two entries in
  use never have the same name while both are linked.
* *Keys* (`KeysInv`). `StoredFit` compares the generation of what a thread has stored
  with that of the key, also between the two assignments of `setspecific`;
  `DestructionFit` says at each place of the loop over the keys that no entry
  behind the loop is left to destroy unless a destructor has been called in
  this round, which is why the last round ends with none.
* *Mutexes*: `LayersInv` of `PosixProofs`, whose steps are those of `Posix`
  when the kind is "mutex".

`EventSpec` is one event object and the tasks. `NoSatisfiedEventWaiter` is nearly inductive
by itself: fewer flags satisfy fewer waiters (`MatchFewer`), so that nothing but a set
can break it. A set serves the waiters one after the other, and those that clear on
exit take flags away from the next. `ServedFirst` is the set after the first `n` of
the order it goes through; the first waiter that would be left satisfied was
not satisfied when its turn came, and flags only disappear afterwards.

`NotifySpec` is the notified tasks. `TaskFit` ties the place in the call to value and
flag: a task that waits has nothing pending, one that was woken with OK has;
with values that count, what is left above zero is announced unless the task is
between the two critical sections of a take. What matters of AND and OR is in
`NotifyAssumption`, so that the width of the value does not.

### Queues and pipes

`BufferSpec` is one queue or pipe and the tasks, as in `Objects` when the task set
is about a buffer. Both theorems come from one invariant,
`BufferInv == BufferType /\ RingInv /\ WakeInv`, of which `RingInv` is about the
ring and `WakeInv` about the tasks.

*The ring.* The refinement maps the ring to the sequence of what is in the slots
`head`, `head + 1` and so on, modulo the capacity. What a step does is first
said slot by slot, seen from `head` (`InsertedIs`, `AppendedIs`, `RemovedIs`): the
message is at its place and those behind it have moved up by one, the bytes of
both parts of the copy lie behind the old ones, what stays is where it was. Then
it is said of the sequence (`InsertedSeq`, `PrefixSeq`, `SuffixSeq`): an
insertion, a longer sequence with the old one at its front, or a suffix.
`RingInv` adds what this needs: slots in use hold items in the order of their
priorities (the place found by the search is otherwise not the place between the
more and the less urgent), and the tail of a pipe is where the items end. The tail of
a queue need not be there: `mq.c` sets it anew for each message (line 195), to
the place of that message, and leaves it behind it.

*Lost wake-ups.* `NoLostWakeup` counts all woken tasks, and is not inductive: a task
that was woken, and comes back after the object has been deleted and created
again, ends its call without taking anything. `WakeInv` counts those that hold
the handle of the object that exists (`Coming`): at a queue they are as many
as there are messages, or free slots, as long as somebody waits for these and
nothing was left behind; at a pipe there is one. It also says
that who waits is in the call that belongs to its list, with the handle
of the object that exists (`WaitsFit`): deletion is refused while anybody waits.
Steps are made of three parts: a task ends its call with nothing
(`Ended`), it blocks (`Blocked`), or something passes through the ring and the
first waiter of the other list is woken (`Transferred`). A transfer takes one from
what there is on one side and at most one from those on their way to it, and
on the other side adds one to both.

### Signals

`Signal` splits `aixos_task_signal_deliver` at its reads and writes of shared
fields. They are not volatile, so `ReadAgain` lets the compiled code read the
pending signals anew before any write (`-O0`, the host build) or not (`-Os`, the
targets). Two history variables say which signals are owed to the task and which of
those came inside the window. `SignalsKept` speaks of the others. Those in the
window are not safe: one sent before the write of line 835 of `task.c` is lost,
and one sent between lines 836 and 837 is pending with its flag
(`pending_signal`) down, so that the next delivery returns at once until another
signal or a new mask raises it. No document promises more, and in the tree only a
test calls `aixos_task_signal_deliver`: the model has the task call it when it
likes. What makes the property inductive is `CallInv`: during the call the copy
that the task has read holds all signals that are kept and, until it is written
back, none that are not owed.

### Memory

All of it is about the specification that the run `memory` checks.

*The stopped tasks.* `ReaperInv` says that there is a chain: from the head over stopped
tasks back to the head by the `next` pointers, and the same by the `prev` pointers
but for the neighbour of the node that is being taken out. A task that appends
itself extends the chain at its end; the idle task, between its reads and
writes, holds copies of neighbours (`idle`), and these agree with the chain as long as
nobody has been appended behind the node that it takes out. That case is `crossed`: the chain
then ends without the tasks that were appended (`LostTask`), and still leads to no
task that has been freed.

*Handles.* `SlotsKnow`: the generations retired of a slot are, from the last one
backwards, those just before the present one (`Before`), and never so many that
they come round to it.

*The heap and its owners.* The properties `HeapExact` and `NothingLeaked` need each
other: a free is only of a block in use because whoever frees owns what he frees,
and what is owned stays in use because the heap reuses nothing else. `MemInv`
therefore has both. About the heap it says that the blocks tile the region with no two free
neighbours (`Whole`). The lemmas on it are splices: the sequence with one block
replaced by one or two, or with two merged, has the same end, the same neighbours and
the same units in use but for the block (sums over a sequence as a recursive
function). From them `Allocate` and `Free` get one effect each (`Allocated`,
`Freed`). About owners it says that the function `Held`, from holdings (a
pointer of the application, a page of slots, a block in the hands of a call, a block
of an object) to addresses, is one-to-one onto the blocks in use (`Exactly`). Each step
of a call, successful or failing half way, makes `Held` gain one holding, lose one, or
keep the address of one that is renamed (`Gains`, `Moves`, `Deposits`). *Pools* are
the same in small: `PoolInv`.

### Capabilities and messages

`MicroInv` holds of `Microkernel` for any number of user tasks and tables of any
size. Its part `Core` says that whatever refers to something refers to an entry of a
table (a capability, a connection, a message, a name, and what a task waits for), that
only a task that waits waits for something, and that a message that is linked is in
use and linked once, to one channel (`LinkedOnce`). The last is what makes the
types inductive: a receive marks the message that it takes off the list, and a
message that a reply has freed must not be on a list any more. `ReceiverKnown`
strengthens `ReceiverNotAsleep`: a task that sleeps in a receive, and has not been
overtaken, is the one that the channel has registered, and nothing is pending. A
send would otherwise wake somebody else. It says nothing of whether the entries
referred to are in use, and could not: capabilities outlive their objects
(`ChannelDestroy`), and messages their channels.

For each service one lemma (`...Keeps`) shows what the step keeps (`Kept`): `Core`, that
what it creates can be named (`NewNamed`, the action of `NothingOrphaned`), and that
who sleeps on a channel afterwards is registered by this step, or is as well
known as before, or is replaced (`KnownStep`). `Next` computes `overtaken` from the
last of these, and `StepKnows` puts them together.

### Only model-checked

All liveness (`EveryDeadlineExpires`, `NoStarvation`, `DeferredSwitchHappens`,
`EveryExpiryServed`): TLAPS does not handle fairness with `ENABLED`.
Every safety property that a passing run checks is also a theorem.

What a recursive function yields for every input is proved where it is needed
(`recompute_chain`, the waiters served by a set, the sizes of blocks) by looking at
the least index at which the claim fails, which takes no induction theorem: those of
the library have an operator as parameter, which the provers at hand cannot
instantiate. Operators declared `RECURSIVE` are not used by the project itself.

## 5. Disagreement between the code and its documents

**The unlock of a mutex** (`mutex_unlock_preempts`).
`docs/REQUIREMENTS_TRACEABILITY.md:18` (REQ-SCHED-001) says: "The scheduler shall
select the highest-priority ready task." The last unlock of a mutex breaks it. A
task of middle priority holds the mutex, a task of high priority waits for it, so
the holder has inherited the high priority. `aixos_mutex_unlock` hands over and
wakes the waiter (`kernel/ipc/mutex.c:189`): `aixos_task_wake` compares it with the
holder, finds the priorities equal and asks for no switch. Then `recompute_chain`
(line 193) lowers the holder, and asks for none either. The high task stays ready
behind the middle one until something else asks for a switch, at the latest the
end of the time slice (the next tick, by default). A request for preemption after
line 193 would remove the counterexample. The same omission exists where the wait
of a more urgent task is ended by suspension or deletion and the owner is the
running task (`mutex.c:257`).

**Clear-on-consume events** (`event_clear`). `docs/REQUIREMENTS_TRACEABILITY.md:44`
says: "Event waits shall support AND, OR, and clear-on-consume modes."
`aixos_event_set` clears the flags that such a waiter matched
(`kernel/ipc/event.c:135`) and wakes it; the waiter goes round its loop, matches
again, finds the flags clear and waits on. The event is consumed and nobody has it.

**The reply to a message** (`ipc_reply`). `docs/REQUIREMENTS_TRACEABILITY.md:69`
says: "Synchronous message IPC shall support send, receive, reply, connect, and
disconnect." A receive takes the message off the pending list of the channel
(`kernel/microkernel.c:652`), and a reply looks for the message only there (lines
704 to 718): once a message has been received its sender cannot be answered.

**Barriers** (`barrier`). `docs/POSIX_COMPATIBILITY.md:47` lists barriers as
"Supported". A thread that was passed by a barrier but does not sleep yet loses its
post to one that comes to the barrier again (`compat/posix/posix.c:1151`), and
sleeps at a barrier that has been passed.

The creation of a task asks for no switch either (`task.c:306`): `PreemptionKept`
states it as the only exception among the calls of `Scheduler`, and
`TickRestoresPreemption` bounds the delay by a tick.

## 6. Not modelled, and the plan

Not modelled:

* pure register and address code: the other ports, MPU regions, checks and copies
  of user memory, stack frames, the return register of a supervisor call (which is
  written before a blocking call has been switched away from);
* diagnostics: trace, crash records, CPU accounting, statistics, the walk that
  checks the integrity of the heap, overrun counts;
* the time wheel (`timewheel.c`): it is ticked, but nothing inserts into it;
* the SIMPLE scheduler backend, a compile-time alternative;
* of the tasks: the table of signal handlers, information calls, `set_priority`
  from an interrupt, calls other than creation before `aixos_start`, deletion of
  the interrupted task from an interrupt handler;
* of POSIX: attribute objects, `pthread_once` (whose waiters yield in a loop, and
  need priorities to be of interest), destruction of objects, clock conversions
  other than those of the timers, and the pipe descriptors of `unistd.c`;
* leaf routines: strings, configuration tables.

The plan, in order of value:

1. a variant of `Scheduler` with a tick that other kernel interrupts preempt
   (`aixos_cfg.h:261`), and the self-linked nodes of tasks created before the
   start;
2. inheritance through an object that is not a mutex (`mutex.c:56`), with two
   tasks waiting on it;
3. `pthread_once` with priorities.

## 7. Running it

    tlc -config MCScheduler.cfg MCScheduler
    tlc -config MCSchedulerTime.cfg MCScheduler
    tlc -config MCMutex.cfg MCMutex
    tlc -config MCMutexPreempt.cfg MCMutex           (violation)
    tlc -config MCObjects.cfg MCObjects
    tlc -config MCEvent.cfg MCObjects                (violation)
    tlc -config MCPosixTimer.cfg MCPosixTimer
    tlc -config MCMemory.cfg MCMemory
    tlc -config MCMicrokernel.cfg MCMicrokernel
    tlc -config MCMicrokernelReply.cfg MCMicrokernel (violation)
    tlc -config MCPosix.cfg MCPosix
    tlc -config MCPosixBarrier.cfg MCPosix           (violation)
    tlapm KernelProofs.tla
    tlapm SchedulerProofs.tla
    tlapm MutexProofs.tla
    tlapm WaitingProofs.tla
    tlapm ObjectProofs.tla
    tlapm MemoryProofs.tla
    tlapm MicrokernelProofs.tla
    tlapm PosixProofs.tla

Each passing run takes between twenty seconds and three minutes with two workers.
