---------------------------- MODULE MCMicrokernel ----------------------------
(* The services of user tasks on small tables, for TLC. *)
EXTENDS Microkernel, TLC

CONSTANTS t1, t2, t3, semList, noList, noReceiver

ThreeTasks == {t1, t2, t3}
Lists == {semList}

\* Two receivers and a sender, one message.
Messages ==
    [users |-> 3, objects |-> 0, caps |-> 2, channels |-> 1, connections |-> 1,
     messages |-> 1, names |-> 1, sleeps |-> FALSE]

\* Two tasks, two connections and two messages.
Channels ==
    [users |-> 2, objects |-> 0, caps |-> 3, channels |-> 1, connections |-> 2,
     messages |-> 2, names |-> 0, sleeps |-> TRUE]

\* Semaphores and queues; names are registered, unregistered and opened.
Objects ==
    [users |-> 2, objects |-> 1, caps |-> 1, channels |-> 0, connections |-> 0,
     messages |-> 0, names |-> 2, sleeps |-> TRUE]

SmallTables == {Messages, Channels, Objects}

Interchangeable == Permutations(ThreeTasks) \union Permutations(Names)
=============================================================================
