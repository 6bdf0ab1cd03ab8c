-------------------------------- MODULE Timer --------------------------------
(***************************************************************************)
(* Software timers: kernel/timer.c.  The tick interrupt moves the timers   *)
(* that expire to a list of pending timers; the timer service, a task,     *)
(* takes them from it and calls their callbacks, outside of any critical   *)
(* section.  The calls of the API are one critical section each, so that   *)
(* they come between any two steps of the service.                         *)
(***************************************************************************)
EXTENDS Clock, FiniteSets

CONSTANTS
    PoolSize,    \* AIXOS_CFG_MAX_TIMER
    TickHz,      \* AIXOS_CFG_SYSTICK_HZ
    Milliseconds,\* intervals that are asked for
    MaxGen       \* bound on how often a slot is used

ASSUME TimerAssumption ==
    /\ PoolSize \in Nat /\ TickHz \in Nat \ {0} /\ MaxGen \in Nat
    /\ Milliseconds \subseteq Nat \ {0}

VARIABLES
    tick,        \* total_ticks
    timer,       \* timer_pool, with the generation of the handle
    active, pending,  \* active_timers, pending_timers
    service      \* the timer service: where it is, and what it has in hand

timerVars == <<tick, timer, active, pending, service>>

Pool == 1 .. PoolSize

NoHandle == [slot |-> 0, gen |-> 0]

\* What the callback of a timer is about: the application, or a POSIX timer.
App == 0

ServiceAt(place, callback) == [at |-> place, callback |-> callback, restart |-> 0]

CeilingDiv(a, b) == (a + b - 1) \div b

\* aixos_ms_to_ticks, for a number that is not UINT32_MAX.
MsToTicks(ms) ==
    LET ticks == CeilingDiv(ms * TickHz, 1000)
    IN  IF ticks > MaxTimeout THEN MaxTimeout ELSE ticks

EmptyTimer(gen) ==
    [live |-> FALSE, gen |-> gen, type |-> "ONESHOT", callback |-> App,
     interval |-> 0, deadline |-> 0, active |-> FALSE, pending |-> FALSE]

TimerInit ==
    /\ tick = 0
    /\ timer = [i \in Pool |-> EmptyTimer(0)]
    /\ active = <<>> /\ pending = <<>>
    /\ service = ServiceAt("dispatch", App)

\* aixos_obj_from_handle.
TimerValid(h) ==
    h # NoHandle /\ timer[h.slot].live /\ timer[h.slot].gen = h.gen

DeadlinesOf(tt) == [i \in Pool |-> tt[i].deadline]

-----------------------------------------------------------------------------
(* The calls, each one a critical section.                                 *)

FreeTimers == {i \in Pool : ~timer[i].live /\ timer[i].gen < MaxGen}

\* aixos_timer_create takes the first free slot; h is the handle.
TimerCreate(h, type, callback) ==
    /\ h.slot \in FreeTimers /\ h.gen = timer[h.slot].gen + 1
    /\ \A i \in FreeTimers : h.slot <= i
    /\ timer' = [timer EXCEPT ![h.slot] =
                    [EmptyTimer(h.gen) EXCEPT !.live = TRUE, !.type = type,
                                              !.callback = callback]]
    /\ UNCHANGED <<active, pending>>

\* The timer h.slot of tt runs for ms milliseconds; it is in no list.
Running(tt, h, ms) ==
    [tt EXCEPT ![h.slot].interval = MsToTicks(ms),
               ![h.slot].deadline = TickAfter(tick, MsToTicks(ms)),
               ![h.slot].active = TRUE]

\* The timer h.slot is not active.  Its interval and its deadline are not read
\* any more; the model clears them.
Disarmed(tt, h) ==
    [tt EXCEPT ![h.slot].interval = 0, ![h.slot].deadline = 0,
               ![h.slot].active = FALSE]

\* aixos_timer_start, of a valid handle: an expiry that is pending stays so.
TimerStart(h, ms) ==
    /\ timer' = Running(timer, h, ms)
    /\ active' = TimeoutInsert(ListDel(active, h.slot), DeadlinesOf(timer'), h.slot)
    /\ UNCHANGED pending

\* aixos_timer_stop, of a valid handle.
TimerStop(h) ==
    /\ timer' = Disarmed([timer EXCEPT ![h.slot].pending = FALSE], h)
    /\ active' = ListDel(active, h.slot)
    /\ pending' = ListDel(pending, h.slot)

\* Faulty: an expiry of before stays pending.
TimerRestartPending(h, ms) == TimerStart(h, ms)

\* aixos_timer_stop and then aixos_timer_start.
TimerRestart(h, ms) ==
    /\ timer' = Running([timer EXCEPT ![h.slot].pending = FALSE], h, ms)
    /\ active' = TimeoutInsert(ListDel(active, h.slot), DeadlinesOf(timer'), h.slot)
    /\ pending' = ListDel(pending, h.slot)

\* Faulty: the slot is cleared while the timer is in a list.
TimerDeleteLinked(h) ==
    /\ timer' = [timer EXCEPT ![h.slot] = EmptyTimer(h.gen)]
    /\ UNCHANGED <<active, pending>>

TimerDelete(h) ==
    /\ timer' = [timer EXCEPT ![h.slot] = EmptyTimer(h.gen)]
    /\ active' = ListDel(active, h.slot)
    /\ pending' = ListDel(pending, h.slot)

-----------------------------------------------------------------------------
(* The tick interrupt: aixos_timer_tick.                                   *)

\* The timers at the front of the list whose deadlines are reached.
Due(now) ==
    LET reached(n) == \A i \in 1 .. n : TickReached(now, timer[active[i]].deadline)
    IN  CHOOSE n \in 0 .. Len(active) :
            reached(n) /\ (n < Len(active) => ~reached(n + 1))

\* The first deadline of a periodic timer that has not passed.
NextDeadline(i, now) ==
    LET late == (now - timer[i].deadline) % TickModulus
    IN  TickAfter(timer[i].deadline,
                  (late \div timer[i].interval + 1) * timer[i].interval)

Periodic(i) == timer[i].type = "PERIODIC"

\* The timers after the first n of the list have expired.
Fired(n, now) ==
    [i \in Pool |->
        IF ~Linked(SubSeq(active, 1, n), i) THEN timer[i]
        ELSE IF Periodic(i)
        THEN [timer[i] EXCEPT !.deadline = NextDeadline(i, now), !.pending = TRUE]
        ELSE [timer[i] EXCEPT !.deadline = 0, !.interval = 0,
                              !.active = FALSE, !.pending = TRUE]]

\* The list after the first n timers have been taken off it, and the periodic
\* ones of them put back, in turn.
Requeued(n, deadlines) ==
    LET list[m \in 0 .. n] ==
            IF m = 0 THEN SubSeq(active, n + 1, Len(active))
            ELSE IF Periodic(active[m])
            THEN TimeoutInsert(list[m - 1], deadlines, active[m])
            ELSE list[m - 1]
    IN  list[n]

\* The list of pending timers, with those of the first n that were not on it.
Announced(n) ==
    LET list[m \in 0 .. n] ==
            IF m = 0 THEN pending
            ELSE IF timer[active[m]].pending THEN list[m - 1]
            ELSE Append(list[m - 1], active[m])
    IN  list[n]

TimerTick ==
    LET now == TickAfter(tick, 1)
        n == Due(now)
    IN  /\ tick' = now
        /\ timer' = Fired(n, now)
        /\ active' = Requeued(n, DeadlinesOf(timer'))
        /\ pending' = Announced(n)
        /\ service' = IF service.at = "waiting" /\ pending' # <<>>
                      THEN ServiceAt("dispatch", App) ELSE service

-----------------------------------------------------------------------------
(* The service: timer_service_entry and aixos_timer_dispatch.              *)

\* A critical section: take the first timer and its callback.
Dispatch ==
    /\ service.at = "dispatch"
    /\ IF pending = <<>>
       THEN service' = ServiceAt("check", App) /\ UNCHANGED <<timer, pending>>
       ELSE /\ pending' = Tail(pending)
            /\ timer' = [timer EXCEPT ![pending[1]].pending = FALSE]
            /\ service' = ServiceAt("callback", timer[pending[1]].callback)
    /\ UNCHANGED <<tick, active>>

\* The callback of the application, which may call everything above: those
\* calls are steps of their own.
AppCallback ==
    /\ service.at = "callback" /\ service.callback = App
    /\ service' = ServiceAt("dispatch", App)
    /\ UNCHANGED <<tick, timer, active, pending>>

\* Faulty: the service does not look again before it waits.
LookAgainNever == FALSE

LookAgain == pending # <<>>

\* The second critical section: wait, unless a timer expired in between.
ServiceWait ==
    /\ service.at = "check"
    /\ service' = ServiceAt(IF LookAgain THEN "dispatch" ELSE "waiting", App)
    /\ UNCHANGED <<tick, timer, active, pending>>

-----------------------------------------------------------------------------
(* Properties.                                                             *)

\* The flags of a timer say which lists it is in, a timer that does not exist
\* is in none, and the active timers are in the order of their deadlines, all
\* of them ahead: the tick never leaves an expired timer behind, no matter
\* where in the list the restarted and the periodic timers went.
TimerListsExact ==
    /\ NoRepeat(active) /\ NoRepeat(pending)
    /\ \A i \in Pool :
          /\ Linked(active, i) <=> timer[i].active
          /\ Linked(pending, i) <=> timer[i].pending
          /\ timer[i].active \/ timer[i].pending => timer[i].live
    /\ \A n \in DOMAIN active : ~TickReached(tick, timer[active[n]].deadline)
    /\ \A n, m \in DOMAIN active :
          n < m => TickReached(timer[active[m]].deadline, timer[active[n]].deadline)

\* Every expiry is served or cancelled: the service does not sleep over it,
\* and a timer that expires again and again does not keep another from it.
EveryExpiryServed == \A i \in Pool : timer[i].pending ~> ~timer[i].pending
=============================================================================
