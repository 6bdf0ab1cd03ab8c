------------------------------ MODULE PosixTimer ------------------------------
(***************************************************************************)
(* POSIX timers (compat/posix/posix.c) on software timers, with an         *)
(* application that uses software timers of its own.  A POSIX timer arms a *)
(* periodic software timer, whose callback restarts or stops it.  Creation,*)
(* deletion and that callback are several critical sections each, and      *)
(* everything else can happen between them.                                *)
(***************************************************************************)
EXTENDS Timer

CONSTANTS
    PosixPool,   \* slots: AIXOS_CFG_POSIX_TIMERS
    MaxPosixGen, \* bound on how often a slot is used
    MaxAppTimers \* bound on the software timers of the application

ASSUME PosixTimerAssumption ==
    PosixPool \subseteq Nat \ {App} /\ MaxPosixGen \in Nat /\ MaxAppTimers \in Nat

VARIABLES
    ptimer,      \* timers, the pool
    dying,       \* native timers that aixos_timer_posix_delete is to delete
    crossed      \* how the callback of a POSIX timer was crossed, see below

posixTimerVars == <<timerVars, ptimer, dying, crossed>>

\* What can cross the callback of a timer: the timer is created, set or
\* disarmed while the callback is under way, or its native timer expires once
\* more before the callback restarts it.
Crossings == {"set", "expired"}

\* The overrun count is left out: nothing but aixos_timer_posix_getoverrun
\* reads it.  The deadline of a timer that is not active is not read and 0.
Unused(gen) ==
    [used |-> FALSE, gen |-> gen, native |-> NoHandle, active |-> FALSE,
     interval |-> 0, next |-> 0]

PosixTimerInit ==
    /\ TimerInit
    /\ ptimer = [p \in PosixPool |-> Unused(0)]
    /\ dying = {}
    /\ crossed = [p \in PosixPool |-> {}]

TicksToMs(ticks) == CeilingDiv(ticks * 1000, TickHz)

\* The service has taken the callback of p and has not ended it.
InHand(p) == service.at \in {"callback", "restart"} /\ service.callback = p

\* The native timer of an earlier timer of the slot p is still to be deleted.
Lingers(p) == \E h \in dying : timer[h.slot].callback = p

\* A timer that is set starts afresh, unless a callback for its slot is under
\* way or may still come.
CrossedBySet(p) ==
    crossed' = [crossed EXCEPT ![p] =
                   IF InHand(p) \/ Lingers(p) THEN {"set"} ELSE {}]

-----------------------------------------------------------------------------
(* The calls.                                                              *)

\* aixos_timer_posix_create takes the first free slot.
CreateSlot(p) ==
    /\ ~ptimer[p].used /\ ptimer[p].gen < MaxPosixGen
    /\ \A q \in PosixPool : q < p => ptimer[q].used
    /\ ptimer' = [ptimer EXCEPT ![p] = [Unused(@.gen + 1) EXCEPT !.used = TRUE]]
    /\ CrossedBySet(p)
    /\ UNCHANGED <<timerVars, dying>>

\* Then it creates the native timer, or gives the slot back.
CreateNative(p) ==
    /\ ptimer[p].used /\ ptimer[p].native = NoHandle
    /\ IF FreeTimers = {}
       THEN /\ ptimer' = [ptimer EXCEPT ![p].used = FALSE]
            /\ UNCHANGED timerVars
       ELSE \E i \in FreeTimers :
               LET h == [slot |-> i, gen |-> timer[i].gen + 1]
               IN  /\ TimerCreate(h, "PERIODIC", p)
                   /\ ptimer' = [ptimer EXCEPT ![p].native = h]
                   /\ UNCHANGED <<tick, service>>
    /\ UNCHANGED <<dying, crossed>>

\* The handle of p has been returned to the application.
Created(p) == ptimer[p].used /\ ptimer[p].native # NoHandle

\* aixos_timer_posix_delete frees the slot, then deletes the native timer.
DeleteSlot(p) ==
    /\ Created(p)
    /\ ptimer' = [ptimer EXCEPT ![p].used = FALSE, ![p].active = FALSE,
                                ![p].next = 0, ![p].native = NoHandle]
    /\ dying' = dying \union {ptimer[p].native}
    /\ UNCHANGED <<timerVars, crossed>>

DeleteNative(h) ==
    /\ h \in dying
    /\ TimerDelete(h)
    /\ dying' = dying \ {h}
    /\ UNCHANGED <<tick, service, ptimer, crossed>>

\* What aixos_timer_posix_settime writes.
SetTime(p, initial, interval) ==
    [ptimer EXCEPT
        ![p].interval = MsToTicks(interval),
        ![p].active = initial # 0,
        ![p].next = IF initial # 0 THEN TickAfter(tick, MsToTicks(initial)) ELSE 0]

\* Arm or disarm: the native timer is stopped, and started, in one critical
\* section.
Settime(p, initial, interval) ==
    /\ Created(p)
    /\ ptimer' = SetTime(p, initial, interval)
    /\ IF initial = 0 THEN TimerStop(ptimer[p].native)
       ELSE TimerRestart(ptimer[p].native, initial)
    /\ CrossedBySet(p)
    /\ UNCHANGED <<tick, service, dying>>

\* The application creates, starts, stops and deletes timers of its own; a
\* handle that is stale changes nothing.
AppTimers == {i \in Pool : timer[i].live /\ timer[i].callback = App}

AppCalls ==
    /\ \/ /\ Cardinality(AppTimers) < MaxAppTimers
          /\ \E i \in FreeTimers, type \in {"ONESHOT", "PERIODIC"} :
                TimerCreate([slot |-> i, gen |-> timer[i].gen + 1], type, App)
       \/ \E i \in AppTimers :
             LET h == [slot |-> i, gen |-> timer[i].gen]
             IN  \/ \E ms \in Milliseconds : TimerStart(h, ms)
                 \/ (TimerStop(h) \/ TimerDelete(h))
    /\ UNCHANGED <<tick, service, ptimer, dying, crossed>>

-----------------------------------------------------------------------------
(* The callback: posix_timer_expired.                                      *)

\* What the first critical section writes, for a timer that is active.
Expired(p) ==
    IF ptimer[p].interval = 0
    THEN [ptimer EXCEPT ![p].active = FALSE, ![p].next = 0]
    ELSE [ptimer EXCEPT ![p].next = TickAfter(tick, ptimer[p].interval)]

PosixExpired(p) ==
    /\ service.at = "callback" /\ service.callback = p
    /\ IF ptimer[p].used /\ ptimer[p].active
       THEN /\ ptimer' = Expired(p)
            /\ service' = [service EXCEPT !.at = "restart",
                              !.restart = TicksToMs(ptimer[p].interval)]
       ELSE UNCHANGED ptimer /\ service' = ServiceAt("dispatch", App)
    /\ UNCHANGED <<tick, timer, active, pending, dying, crossed>>

\* Faulty: the native timer is left to itself.
RestartNever(p) == FALSE

Restarts(p) == service.restart # 0

\* The native timer that p has by now is restarted or stopped; the call of
\* the function of the event follows.
PosixRestart(p) ==
    /\ service.at = "restart" /\ service.callback = p
    /\ IF ~TimerValid(ptimer[p].native)
       THEN UNCHANGED <<timer, active, pending>>
       ELSE IF Restarts(p) THEN TimerStart(ptimer[p].native, service.restart)
       ELSE TimerStop(ptimer[p].native)
    /\ service' = ServiceAt("dispatch", App)
    /\ UNCHANGED <<tick, ptimer, dying, crossed>>

-----------------------------------------------------------------------------

\* A bound of the model: the service is never late by half the range of ticks.
ServiceKeepsUp ==
    \A p \in PosixPool :
        ptimer[p].active => TickAfter(tick - ptimer[p].next, 1) # TickModulus \div 2

\* The tick interrupt, which may make the native timer of a periodic timer
\* expire once more.
Tick ==
    /\ ServiceKeepsUp
    /\ TimerTick
    /\ crossed' =
         [p \in PosixPool |->
            IF InHand(p) /\ ptimer[p].interval # 0 /\ Created(p)
               /\ timer'[ptimer[p].native.slot].pending
            THEN crossed[p] \union {"expired"} ELSE crossed[p]]
    /\ UNCHANGED <<ptimer, dying>>

Service ==
    \/ /\ Dispatch \/ AppCallback \/ ServiceWait
       /\ UNCHANGED <<ptimer, dying, crossed>>
    \/ \E p \in PosixPool : PosixExpired(p) \/ PosixRestart(p)

Calls ==
    \/ AppCalls
    \/ \E p \in PosixPool :
          \/ CreateSlot(p)
          \/ CreateNative(p)
          \/ DeleteSlot(p)
          \/ \E initial, interval \in Milliseconds \union {0} :
                \* The interval of a timer that is disarmed is of no use.
                (initial = 0 => interval = 0) /\ Settime(p, initial, interval)
    \/ \E h \in dying : DeleteNative(h)

PosixTimerNext == Tick \/ Service \/ Calls

\* The timer service is the most urgent task but for those the application
\* puts above it, and its callbacks return.
PosixTimerSpec ==
    PosixTimerInit /\ [][PosixTimerNext]_posixTimerVars /\ WF_posixTimerVars(Service)

-----------------------------------------------------------------------------
(* Properties.                                                             *)

\* A POSIX timer and its native timer agree: whoever has armed the timer finds
\* the native timer running, and one that has expired for good or was disarmed
\* does not find it running, except in the callback, before it stops it.  Not
\* so for a timer that was set while its callback was under way, which then
\* stops or restarts what the application has armed.
TimersInStep ==
    \A p \in PosixPool :
        Created(p) /\ "set" \notin crossed[p] =>
            LET running == timer[ptimer[p].native.slot].active
            IN  /\ TimerValid(ptimer[p].native)
                /\ ptimer[p].active => running
                /\ running => ptimer[p].active \/ InHand(p)

\* A POSIX timer expires neither before the time it was set to nor before the
\* end of its interval, unless its callback was crossed.
ExpiresOnTime ==
    [][\A p \in PosixPool :
          service.at = "callback" /\ service'.at = "restart" /\ InHand(p)
          /\ crossed[p] = {} => TickReached(tick, ptimer[p].next)]_posixTimerVars
=============================================================================
