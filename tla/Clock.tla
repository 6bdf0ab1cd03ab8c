-------------------------------- MODULE Clock --------------------------------
(***************************************************************************)
(* Ticks that wrap, intrusive lists, and lists in the order of deadlines:  *)
(* what kernel/task.c, kernel/timer.c and kernel/list.h have in common.    *)
(* A list of the C code is a sequence, first node first.                   *)
(***************************************************************************)
EXTENDS Integers, Sequences, SequencesExt

CONSTANT TickModulus  \* 2^32 in the code: the width of a tick

ASSUME ClockAssumption ==
    TickModulus \in Nat /\ TickModulus >= 4 /\ TickModulus % 2 = 0

Ticks == 0 .. TickModulus - 1

-----------------------------------------------------------------------------
(* Time: ticks wrap, and are compared through their signed difference.     *)

\* Faulty: the tick does not wrap.
TickAfterUnwrapped(tick, n) == tick + n

TickAfter(tick, n) == (tick + n) % TickModulus

\* Faulty: an unsigned comparison.
TickReachedUnsigned(now, deadline) == now >= deadline

\* tick_reached: the signed difference now - deadline is not negative.
TickReached(now, deadline) ==
    (now - deadline) % TickModulus < TickModulus \div 2

\* The longest timeout that the signed comparison can tell from the past.
MaxTimeout == TickModulus \div 2 - 1

-----------------------------------------------------------------------------
(* Intrusive lists.                                                        *)

NoRepeat(list) == \A i, j \in DOMAIN list : list[i] = list[j] => i = j

Linked(list, t) == \E i \in DOMAIN list : list[i] = t

\* aixos_list_del: a node is on at most one list, and on it once.
ListDel(list, t) ==
    IF Linked(list, t)
    THEN RemoveAt(list, CHOOSE i \in DOMAIN list : list[i] = t)
    ELSE list

\* timeout_insert: before the first task that wakes later.
TimeoutPosition(list, wake, t) ==
    CHOOSE i \in 1 .. Len(list) + 1 :
        /\ \A j \in 1 .. i - 1 : TickReached(wake[t], wake[list[j]])
        /\ i <= Len(list) => ~TickReached(wake[t], wake[list[i]])

\* Faulty: the list is not kept in the order of the deadlines.
TimeoutInsertLast(list, wake, t) == Append(list, t)

TimeoutInsert(list, wake, t) ==
    InsertAt(list, TimeoutPosition(list, wake, t), t)
=============================================================================
