---------------------------- MODULE MCScheduler -----------------------------
(* The scheduler on a small instance, for TLC. *)
EXTENDS Scheduler, TLC

CONSTANTS t1, t2, t3, idle, none, w1, noList

TwoTasks == {t1, t2, idle}
ThreeTasks == {t1, t2, t3, idle}
OneList == {w1}

\* The application tasks are interchangeable.
UserSymmetry == Permutations({t1, t2, t3})
=============================================================================
