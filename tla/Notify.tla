------------------------------- MODULE Notify --------------------------------
(***************************************************************************)
(* Task notifications (kernel/ipc/notify.c): each task has a value and a   *)
(* pending flag, and waits for its own.                                    *)
(***************************************************************************)
EXTENDS Calls, Integers

CONSTANTS
    SelfWait,    \* what a task that waits for its notification is waiting on
    NotifyMax,   \* UINT32_MAX in the code
    NotifyArgs,  \* the values and the masks that the application passes
    BitAnd(_, _), BitOr(_, _)  \* of the machine

ASSUME NotifyAssumption ==
    /\ SelfWait \in WaitLists /\ NoList \notin WaitLists
    /\ NotifyMax \in Nat /\ NotifyArgs \subseteq 0 .. NotifyMax
    /\ \A a, b \in 0 .. NotifyMax : BitAnd(a, b) \in 0 .. a /\ BitOr(a, b) \in 0 .. NotifyMax
    /\ \A a \in 0 .. NotifyMax : BitAnd(a, 0) = 0

VARIABLE note

NotifyInit ==
    \E counting \in BOOLEAN :
        note = [value    |-> [t \in Tasks |-> 0],
                pending  |-> [t \in Tasks |-> FALSE],
                counting |-> counting]

Clear(value, mask) == value - BitAnd(value, mask)

\* The value after an action of aixos_notify_action_t.
NewValue(old, action, arg) ==
    CASE action = "SET_BITS" -> BitOr(old, arg)
      [] action = "INCREMENT" -> old + 1
      [] action \in {"OVERWRITE", "NO_OVERWRITE"} -> arg

\* Faulty: the waiting task is not woken.
NotifyQuiet(t, action, arg) ==
    /\ w.mode[t] # "off"
    /\ action = "INCREMENT" => note.value[t] # NotifyMax
    /\ note' = [note EXCEPT !.value[t] = NewValue(@, action, arg),
                            !.pending[t] = TRUE]
    /\ UNCHANGED <<w, call>>

\* notify_common, from a task or from an interrupt
TaskNotify(t, action, arg) ==
    /\ w.mode[t] # "off"
    /\ action = "INCREMENT" => note.value[t] # NotifyMax
    /\ action = "NO_OVERWRITE" => ~note.pending[t]
    /\ note' = [note EXCEPT !.value[t] = NewValue(@, action, arg),
                            !.pending[t] = TRUE]
    /\ w' = IF w.on[t] = SelfWait THEN Wake(w, t, "OK") ELSE w
    /\ UNCHANGED call

\* The end of aixos_task_notify_wait: the value is read, the pending flag is
\* cleared.  take is what aixos_task_notify_take, the caller, has yet to do.
Collect(t, value, onExit, take) ==
    /\ note' = [note EXCEPT !.value[t] = Clear(value, onExit), !.pending[t] = FALSE]
    /\ IF take = "no" THEN Return(t)
       ELSE Goto(t, [op |-> "notify_take", take |-> take])

\* aixos_task_notify_wait, called by the application or by notify_take
NotifyWait(t, onEntry, onExit, take, timeout) ==
    LET value == Clear(note.value[t], onEntry)
    IN  /\ Free(t)
        /\ IF note.pending[t]
           THEN Collect(t, value, onExit, take) /\ UNCHANGED w
           ELSE /\ note' = [note EXCEPT !.value[t] = value]
                /\ IF timeout = "none" THEN UNCHANGED <<w, call>>
                   ELSE /\ w' = BlockOn(w, t, SelfWait, timeout = "timed")
                        /\ Goto(t, [op |-> "notify_wait", onExit |-> onExit,
                                    take |-> take])

NotifyWaitReturn(t) ==
    /\ At(t, "notify_wait")
    /\ IF w.result[t] # "OK" THEN Return(t) /\ UNCHANGED note
       ELSE Collect(t, note.value[t], call[t].onExit, call[t].take)
    /\ UNCHANGED w

\* Faulty: what is left of the count is not announced.
NotifyTakeForgetful(t) ==
    /\ At(t, "notify_take")
    /\ note' = [note EXCEPT !.value[t] =
                    IF call[t].take = "all" \/ @ = 0 THEN 0 ELSE @ - 1]
    /\ Return(t)
    /\ UNCHANGED w

\* The second critical section of aixos_task_notify_take.
NotifyTake(t) ==
    LET left == IF call[t].take = "all" \/ note.value[t] = 0 THEN 0
                ELSE note.value[t] - 1
    IN  /\ At(t, "notify_take")
        /\ note' = [note EXCEPT !.value[t] = left, !.pending[t] = @ \/ left # 0]
        /\ Return(t)
        /\ UNCHANGED w

\* A new task control block has been cleared (task_create_common).
NotifyTaskEvents ==
    /\ TaskEvents
    /\ note' = [note EXCEPT
                  !.value = [t \in Tasks |-> IF w'.mode[t] = "off" THEN 0 ELSE @[t]],
                  !.pending = [t \in Tasks |-> w'.mode[t] # "off" /\ @[t]]]

NotifyNext ==
    \E t \in Tasks :
        \/ TaskNotify(t, "INCREMENT", 0)
        \/ NotifyWaitReturn(t)
        \/ NotifyTake(t)
        \/ \E timeout \in Timeouts : NotifyWait(t, 0, 0, "one", timeout)
        \/ /\ ~note.counting
           /\ \/ \E action \in {"SET_BITS", "OVERWRITE", "NO_OVERWRITE"},
                    arg \in NotifyArgs : TaskNotify(t, action, arg)
              \/ \E timeout \in Timeouts : NotifyWait(t, 0, 0, "all", timeout)
              \/ \E timeout \in Timeouts, onEntry, onExit \in NotifyArgs :
                    NotifyWait(t, onEntry, onExit, "no", timeout)

-----------------------------------------------------------------------------

\* notify.c: a notification that is sent while the task is on its way into
\* the wait, or out of it by a timeout, is not slept over: a task that waits
\* has none pending, and one that was woken finds it.  And although
\* aixos_task_notify_take, lines 104 to 119, reads and counts down in two
\* critical sections with notifications between them, a count that is left is
\* always announced by the pending flag, as long as the task only counts.
NotificationsKept ==
    \A t \in Tasks :
        /\ w.on[t] = SelfWait => ~note.pending[t]
        /\ At(t, "notify_wait") /\ w.result[t] = "OK" => note.pending[t]
        /\ note.counting /\ note.value[t] > 0 /\ call[t].op # "notify_take"
              => note.pending[t]
=============================================================================
