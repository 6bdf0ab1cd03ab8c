------------------------------ MODULE MCMutex -------------------------------
(* Mutexes on a small instance, for TLC. *)
EXTENDS Mutex, TLC

CONSTANTS low, mid, high, idle, none, m1, m2, w1, noList

AllTasks == {low, mid, high, idle}
TwoMutexes == {m1, m2}
AllLists == {m1, m2, w1}
Priority == (low :> 1) @@ (mid :> 2) @@ (high :> 3) @@ (idle :> 0)
Order == <<low, mid, high, idle>>

\* The mutexes are interchangeable.
MutexSymmetry == Permutations(TwoMutexes)

\* Only the differences of ticks matter to a step (TickAfter, TickReached), so
\* two states that differ by a shift of the clock are one to the search.
ClockView ==
    <<[k EXCEPT !.tick = 0,
                !.wake = [t \in Tasks |->
                    IF Linked(k.timeouts, t) THEN (@[t] - k.tick) % TickModulus ELSE 0]],
      mx>>
=============================================================================
