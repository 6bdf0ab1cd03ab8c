------------------------------ MODULE Waiting -------------------------------
(***************************************************************************)
(* What the kernel promises to the objects built on it, without ready      *)
(* queues, priorities or clocks: a task is waiting, with or without a      *)
(* deadline, or it is not; one wake, one timeout, one suspension or one    *)
(* deletion ends the wait, and the task learns which.  Module Scheduler    *)
(* implements this specification (kernel/task.c).                          *)
(*                                                                         *)
(* A wait list is the set of the tasks that wait on it.  Its first task,   *)
(* the one that is woken, may be any of them: whatever holds here holds    *)
(* for every assignment of priorities and every order of arrival.  In the  *)
(* same way any active task may be the next to run, so a task that is      *)
(* suspended is one that is active and is not chosen for a while.          *)
(***************************************************************************)

CONSTANTS Tasks, WaitLists, NoList

VARIABLE w

Modes == {"off", "active", "waiting"}

WaitingType ==
    [mode   : [Tasks -> Modes],
     on     : [Tasks -> WaitLists \union {NoList}],
     timed  : [Tasks -> BOOLEAN],
     result : [Tasks -> {"OK", "TIMEOUT", "INTR"}]]

AllOff ==
    [mode   |-> [t \in Tasks |-> "off"],
     on     |-> [t \in Tasks |-> NoList],
     timed  |-> [t \in Tasks |-> FALSE],
     result |-> [t \in Tasks |-> "OK"]]

WaitersOf(ww, list) == {t \in Tasks : ww.on[t] = list}

-----------------------------------------------------------------------------
(* The calls, as operators on the record w.                                *)

\* aixos_task_block_current; list is NoList for a sleep and for a
\* notification, which wait on no list.
BlockOn(ww, t, list, timed) ==
    [ww EXCEPT !.mode[t] = "waiting", !.on[t] = list,
               !.timed[t] = timed, !.result[t] = "OK"]

Unblock(ww, t, mode, result) ==
    [ww EXCEPT !.mode[t] = mode, !.on[t] = NoList,
               !.timed[t] = FALSE, !.result[t] = result]

\* aixos_task_wake: only a task that waits is woken.
Wake(ww, t, result) ==
    IF ww.mode[t] = "waiting" THEN Unblock(ww, t, "active", result) ELSE ww

-----------------------------------------------------------------------------
(* What may happen to a task that it does not do itself.                   *)

\* A sleep that comes to its end returns OK, any other wait TIMEOUT.
TimeOut(t) ==
    /\ w.timed[t]
    /\ \/ w' = Wake(w, t, "TIMEOUT")
       \/ w.on[t] = NoList /\ w' = Wake(w, t, "OK")

\* aixos_task_suspend on a task that waits; it returns INTR once resumed.
Interrupted(t) == w.mode[t] = "waiting" /\ w' = Wake(w, t, "INTR")

Deleted(t) ==
    /\ w.mode[t] # "off"
    /\ w' \in {Unblock(w, t, "off", "OK"), Unblock(w, t, "off", "INTR")}

Created(t) == w.mode[t] = "off" /\ w' = Unblock(w, t, "active", "OK")

WakeBy(t) == w.on[t] # NoList /\ w' = Wake(w, t, "OK")

Block(t, list, timed) ==
    /\ w.mode[t] = "active"
    /\ timed \/ list # NoList
    /\ w' = BlockOn(w, t, list, timed)

WaitInit == w = AllOff

WaitNext ==
    \E t \in Tasks :
        \/ Created(t) \/ Deleted(t) \/ TimeOut(t) \/ Interrupted(t) \/ WakeBy(t)
        \/ \E list \in WaitLists \union {NoList}, timed \in BOOLEAN :
              Block(t, list, timed)

WaitSpec == WaitInit /\ [][WaitNext]_w
=============================================================================
