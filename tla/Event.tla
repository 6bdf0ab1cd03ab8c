-------------------------------- MODULE Event --------------------------------
(***************************************************************************)
(* Event flags (kernel/ipc/event.c), one event control block.  A task      *)
(* waits for all or for any of the flags of its mask, and may ask for the  *)
(* flags it matched to be cleared.                                         *)
(***************************************************************************)
EXTENDS Calls, SequencesExt

CONSTANTS
    Flags,        \* the bits of the event that are used
    EventList     \* event_pool[0].wait_list

ASSUME EventAssumption ==
    EventList \in WaitLists /\ NoList \notin WaitLists /\ IsFiniteSet(Tasks)

VARIABLE event

EventInit == event = [live |-> FALSE, gen |-> 0, flags |-> {}]

Masks == SUBSET Flags \ {{}}

\* event_match, for the mask and the mode of a call c
Match(flags, c) ==
    IF c.all /\ ~(c.mask \subseteq flags) THEN {} ELSE flags \intersect c.mask

EventValid(h) == event.live /\ h = event.gen

EventCreate ==
    /\ ~event.live /\ event.gen < MaxHandles
    /\ event' = [live |-> TRUE, gen |-> event.gen + 1, flags |-> {}]
    /\ UNCHANGED <<w, call>>

\* One round of the loop of aixos_event_wait: the handle is looked up again
\* and the flags are matched again each time.  expired: no time remains.
EventRound(t, c, expired) ==
    LET match == Match(event.flags, c)
    IN  \/ /\ ~EventValid(c.handle)
           /\ Return(t)
           /\ UNCHANGED <<w, event>>
        \/ /\ EventValid(c.handle) /\ match # {}
           /\ event' = IF c.clear THEN [event EXCEPT !.flags = @ \ match] ELSE event
           /\ Return(t)
           /\ UNCHANGED w
        \/ /\ EventValid(c.handle) /\ match = {}
           /\ IF expired THEN Return(t) /\ UNCHANGED w
              ELSE /\ w' = BlockOn(w, t, EventList, c.timed)
                   /\ Goto(t, [c EXCEPT !.pend = FALSE])
           /\ UNCHANGED event

EventWait(t, h, mask, all, clear, timeout) ==
    /\ Free(t)
    /\ EventRound(t, [op |-> "event_wait", handle |-> h, mask |-> mask, all |-> all,
                      clear |-> clear, timed |-> timeout = "timed", pend |-> FALSE],
                  timeout = "none")

\* After a wake the task matches again with what remains of its timeout.
EventWaitReturn(t) ==
    /\ At(t, "event_wait")
    /\ IF w.result[t] # "OK" THEN Return(t) /\ UNCHANGED <<w, event>>
       ELSE \E expired \in BOOLEAN :
               /\ expired => call[t].timed
               /\ EventRound(t, call[t], expired)

\* What aixos_event_set does for one waiter: s holds the flags, the waits and
\* the calls.  The field pend says that pend_result has been set.
Serve(s, t) ==
    LET match == Match(s.flags, s.call[t])
    IN  IF match = {} THEN s
        ELSE [flags |-> IF s.call[t].clear THEN s.flags \ match ELSE s.flags,
              w     |-> Wake(s.w, t, "OK"),
              call  |-> [s.call EXCEPT ![t].pend = TRUE]]

\* Faulty: only the first waiter of the list is looked at.
ServeFirst(flags, order) ==
    LET s == [flags |-> flags, w |-> w, call |-> call]
    IN  IF order = <<>> THEN s ELSE Serve(s, Head(order))

\* The waiters are served in the order of the list.
ServeAll(flags, order) ==
    LET served[i \in 0 .. Len(order)] ==
            IF i = 0 THEN [flags |-> flags, w |-> w, call |-> call]
            ELSE Serve(served[i - 1], order[i])
    IN  served[Len(order)]

\* aixos_event_set and aixos_event_set_from_isr
EventSet(h, flags) ==
    /\ EventValid(h)
    /\ \E order \in SetToSeqs(WaitersOf(w, EventList)) :
          LET served == ServeAll(event.flags \union flags, order)
          IN  /\ event' = [event EXCEPT !.flags = served.flags]
              /\ w' = served.w
              /\ call' = served.call

EventClear(h, flags) ==
    /\ EventValid(h)
    /\ event' = [event EXCEPT !.flags = @ \ flags]
    /\ UNCHANGED <<w, call>>

EventDelete(h) ==
    /\ EventValid(h)
    /\ WaitersOf(w, EventList) = {}
    /\ event' = [event EXCEPT !.live = FALSE, !.flags = {}]
    /\ UNCHANGED <<w, call>>

EventNext ==
    \/ EventCreate
    \/ \E h \in 1 .. MaxHandles :
          \/ EventDelete(h)
          \/ \E mask \in Masks : EventSet(h, mask) \/ EventClear(h, mask)
          \/ \E t \in Tasks, mask \in Masks, all, clear \in BOOLEAN,
                timeout \in Timeouts : EventWait(t, h, mask, all, clear, timeout)
    \/ \E t \in Tasks : EventWaitReturn(t)

-----------------------------------------------------------------------------

\* event.c, aixos_event_set: however many tasks wait, for different masks and
\* modes, and however they consume each other's flags, no task is left
\* waiting for what the flags already satisfy.
NoSatisfiedEventWaiter ==
    \A t \in WaitersOf(w, EventList) : Match(event.flags, call[t]) = {}

\* Flags have been taken out of the event for t, which has been woken.
Served(t) == At(t, "event_wait") /\ w.result[t] = "OK" /\ call[t].pend

\* docs/REQUIREMENTS_TRACEABILITY.md:44, "Event waits shall support AND, OR,
\* and clear-on-consume modes": a task that the flags were cleared for does
\* not go back to waiting for them.
ConsumedFlagsDelivered ==
    [][\A t \in Tasks : Served(t) /\ call[t].clear => w'.mode[t] # "waiting"]_<<w, call>>
=============================================================================
