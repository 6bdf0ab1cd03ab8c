-------------------------------- MODULE Calls --------------------------------
(***************************************************************************)
(* Tasks inside the calls of the objects.  A call is a sequence of         *)
(* critical sections; call[t] is what task t has still to do, a record     *)
(* whose field op names the place in the code and whose other fields are   *)
(* the arguments and local variables that are still needed.                *)
(***************************************************************************)
EXTENDS Waiting, Naturals, FiniteSets

CONSTANT MaxHandles  \* bound on the objects created

VARIABLE call

NoCall == [op |-> "none"]

\* The task executes code of the application and may call the kernel.
Free(t) == w.mode[t] = "active" /\ call[t] = NoCall

\* The task is to go on inside the kernel at the place op.
At(t, op) == w.mode[t] = "active" /\ call[t].op = op

\* The task waits, or has been woken and has not run on yet, at op.
Inside(op) == {t \in Tasks : call[t].op = op}

Goto(t, c) == call' = [call EXCEPT ![t] = c]

Return(t) == Goto(t, NoCall)

\* A timeout of a call: none asks for an answer at once.
Timeouts == {"none", "timed", "forever"}

\* What the rest of the kernel does to a task, wherever it is in a call.
\* A task that is deleted never returns from it.
TaskEvents ==
    \E t \in Tasks :
        \/ (TimeOut(t) \/ Interrupted(t)) /\ UNCHANGED call
        \/ (Created(t) \/ Deleted(t)) /\ Return(t)
=============================================================================
