------------------------------- MODULE Signal --------------------------------
(***************************************************************************)
(* The signals of a task (kernel/task.c).  Other tasks and interrupts send *)
(* them in critical sections; the task delivers them to itself without     *)
(* one: it reads the pending signals, writes them back without the one     *)
(* that it takes, and lowers the flag if none was left.                    *)
(*                                                                         *)
(* deliver.at:                                                             *)
(*   none       the task is not in aixos_task_signal_deliver               *)
(*   clear      it has chosen a signal, and is about to write back         *)
(*   lower      it has written back, and may lower the flag                *)
(***************************************************************************)
EXTENDS Naturals

CONSTANT SignalLimit  \* 32 in the code

ASSUME SignalAssumption == SignalLimit \in Nat

Signals == 0 .. SignalLimit - 1

\* What is passed for one: the signals, and a number that is none.
Numbers == 0 .. SignalLimit

VARIABLES
    sig,      \* signal_pending, signal_mask and pending_signal of the task
    deliver,  \* its place in the call, and the local variables
    owed,     \* history: the signals sent and not taken since
    late      \* history: those of them that were sent inside the call

signalVars == <<sig, deliver, owed, late>>

NotDelivering == [at |-> "none", seen |-> {}, signo |-> 0]

Delivering == deliver.at # "none"

\* task_create_common clears the control block.
SignalInit ==
    /\ sig = [pending |-> {}, mask |-> {}, flag |-> FALSE]
    /\ deliver = NotDelivering
    /\ owed = {} /\ late = {}

-----------------------------------------------------------------------------

\* aixos_task_signal_send.  Nothing in the kernel waits for a signal, so that
\* it finds no task to wake.
SignalSend(s) ==
    /\ s \in Signals
    /\ sig' = [sig EXCEPT !.pending = @ \union {s}, !.flag = @ \/ s \notin sig.mask]
    /\ owed' = owed \union {s}
    /\ late' = IF ~Delivering THEN late \ {s}
               ELSE IF s \in owed THEN late ELSE late \union {s}
    /\ UNCHANGED deliver

\* Faulty: the flag is not raised for what was pending under the old mask.
SetMaskQuiet(mask) ==
    /\ ~Delivering
    /\ sig' = [sig EXCEPT !.mask = mask]
    /\ UNCHANGED <<deliver, owed, late>>

\* aixos_task_signal_mask
SetMask(mask) ==
    /\ ~Delivering
    /\ sig' = [sig EXCEPT !.mask = mask, !.flag = @ \/ sig.pending \ mask # {}]
    /\ UNCHANGED <<deliver, owed, late>>

Lowest(S) == CHOOSE s \in S : \A r \in S : s <= r

\* aixos_task_signal_deliver reads the flag, the mask and the signals.
ChooseSignal ==
    /\ ~Delivering /\ sig.flag /\ sig.pending \ sig.mask # {}
    /\ deliver' = [at |-> "clear", seen |-> sig.pending,
                   signo |-> Lowest(sig.pending \ sig.mask)]
    /\ UNCHANGED <<sig, owed, late>>

\* The fields are not volatile: code that is not optimised reads them again,
\* in each statement; optimised code may do with what it has in a register.
ReadAgain ==
    /\ Delivering
    /\ deliver' = [deliver EXCEPT !.seen = sig.pending]
    /\ UNCHANGED <<sig, owed, late>>

\* The write of signal_pending.  The handler that is called at the end can be
\* taken to run after the call: what it does, the task may do then.
TakeSignal ==
    LET rest == deliver.seen \ {deliver.signo}
    IN  /\ deliver.at = "clear"
        /\ sig' = [sig EXCEPT !.pending = rest]
        /\ deliver' = [deliver EXCEPT !.at = "lower", !.seen = rest]
        /\ owed' = owed \ {deliver.signo} /\ late' = late \ {deliver.signo}

LowerFlag ==
    /\ deliver.at = "lower"
    /\ sig' = [sig EXCEPT !.flag = @ /\ deliver.seen # {}]
    /\ deliver' = NotDelivering
    /\ UNCHANGED <<owed, late>>

\* The task is deleted, and its control block is used for another.
Reused ==
    /\ sig' = [pending |-> {}, mask |-> {}, flag |-> FALSE]
    /\ deliver' = NotDelivering
    /\ owed' = {} /\ late' = {}

SignalNext ==
    \/ \E s \in Numbers : SignalSend(s)
    \/ \E mask \in SUBSET Signals : SetMask(mask)
    \/ ChooseSignal \/ ReadAgain \/ TakeSignal \/ LowerFlag
    \/ Reused

SignalSpec == SignalInit /\ [][SignalNext]_signalVars

-----------------------------------------------------------------------------

\* task.c, lines 708 to 846: a signal stays pending until the task takes it,
\* through changes of the mask and deliveries of others, and the flag is up for
\* it whenever the mask lets it pass, unless it was sent while the task was
\* inside aixos_task_signal_deliver.  A signal that is pending has been sent
\* since it was last taken: what line 835 writes back brings none back.
SignalsKept ==
    LET kept == owed \ late
    IN  /\ kept \subseteq sig.pending
        /\ ~Delivering /\ kept \ sig.mask # {} => sig.flag
        /\ sig.pending \subseteq owed
=============================================================================
