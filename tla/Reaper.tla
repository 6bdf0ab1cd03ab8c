------------------------------- MODULE Reaper --------------------------------
(***************************************************************************)
(* Tasks that delete themselves, and the idle task that frees their memory *)
(* (kernel/task.c, kernel/list.h).  A task appends itself to reap_list in  *)
(* a critical section.  The idle task walks the list and unlinks the tasks *)
(* outside of any, and is preempted between any two of its reads and       *)
(* writes: the list is modelled by its links.                              *)
(***************************************************************************)
EXTENDS Naturals, FiniteSets

CONSTANTS
    Threads,   \* tasks with a control block of the heap; the nodes all_node
    ReapList   \* the head of the list

ASSUME ReaperAssumption == IsFiniteSet(Threads) /\ ReapList \notin Threads

VARIABLES
    links,     \* next and prev of each node
    memory,    \* of each task: free, in use, or stopped (waits to be freed)
    idle,      \* where the idle task is in reap_stopped_tasks
    crossed    \* history: see Stop

reapVars == <<links, memory, idle, crossed>>

Nodes == Threads \union {ReapList}

\* aixos_list_init
ReaperInit ==
    /\ links = [next |-> [n \in Nodes |-> n], prev |-> [n \in Nodes |-> n]]
    /\ memory = [t \in Threads |-> "free"]
    /\ idle = [at |-> "first"]
    /\ crossed = FALSE

\* task_create_common; its links on the list of all tasks are left out.
Start(t) ==
    /\ memory[t] = "free"
    /\ memory' = [memory EXCEPT ![t] = "used"]
    /\ links' = [links EXCEPT !.next[t] = t, !.prev[t] = t]
    /\ UNCHANGED <<idle, crossed>>

\* __aixos_list_add
Insert(t, before, after) ==
    links' = [next |-> [links.next EXCEPT ![t] = after, ![before] = t],
              prev |-> [links.prev EXCEPT ![t] = before, ![after] = t]]

\* Faulty: aixos_list_add.
AppendInFront(t) == Insert(t, ReapList, links.next[ReapList])

\* aixos_list_add_tail
AppendTask(t) == Insert(t, links.prev[ReapList], ReapList)

\* The idle task has read the links of the last task of the list, and has not
\* taken it out yet.
UnlinksLast == idle.at \in {"backward", "forward"} /\ idle.after = ReapList

\* aixos_task_delete of the caller, which has preempted the idle task.
Stop(t) ==
    /\ memory[t] = "used"
    /\ memory' = [memory EXCEPT ![t] = "stopped"]
    /\ AppendTask(t)
    /\ crossed' = (crossed \/ UnlinksLast)
    /\ UNCHANGED idle

-----------------------------------------------------------------------------
(* reap_stopped_tasks, one access to the list at a time.                   *)

\* AIXOS_LIST_FOR_EACH_SAFE
First ==
    /\ idle.at = "first"
    /\ idle' = [at |-> "look", position |-> links.next[ReapList]]
    /\ UNCHANGED <<links, memory, crossed>>

Look ==
    /\ idle.at = "look"
    /\ idle' = IF idle.position = ReapList THEN [at |-> "first"]
               ELSE [at |-> "unlink", position |-> idle.position,
                     next |-> links.next[idle.position]]
    /\ UNCHANGED <<links, memory, crossed>>

\* aixos_list_del reads both links and writes to both neighbours.
Unlink ==
    /\ idle.at = "unlink"
    /\ idle' = [at |-> "backward", position |-> idle.position, next |-> idle.next,
                before |-> links.prev[idle.position],
                after |-> links.next[idle.position]]
    /\ UNCHANGED <<links, memory, crossed>>

Backward ==
    /\ idle.at = "backward"
    /\ links' = [links EXCEPT !.prev[idle.after] = idle.before]
    /\ idle' = [idle EXCEPT !.at = "forward"]
    /\ UNCHANGED <<memory, crossed>>

\* The NULLs that aixos_list_del then leaves in the node are not read.
Forward ==
    /\ idle.at = "forward"
    /\ links' = [links EXCEPT !.next[idle.before] = idle.after]
    /\ idle' = [idle EXCEPT !.at = "free"]
    /\ UNCHANGED <<memory, crossed>>

FreeTask ==
    /\ idle.at = "free"
    /\ memory' = [memory EXCEPT ![idle.position] = "free"]
    /\ idle' = [at |-> "look", position |-> idle.next]
    /\ UNCHANGED <<links, crossed>>

ReaperNext ==
    \/ \E t \in Threads : Start(t) \/ Stop(t)
    \/ First \/ Look \/ Unlink \/ Backward \/ Forward \/ FreeTask

-----------------------------------------------------------------------------

\* The nodes that the next passes over the list will come to.
Ahead ==
    LET walk[n \in 0 .. Cardinality(Nodes)] ==
            IF n = 0 THEN links.next[ReapList] ELSE links.next[walk[n - 1]]
    IN  {walk[n] : n \in DOMAIN walk} \ {ReapList}

InHand == idle.at \in {"unlink", "backward", "forward", "free"}

\* task.c, lines 22 to 37: with tasks that stop between any two accesses of the
\* idle task, it frees stopped tasks only, each once, and neither it nor the
\* next task that stops comes to a node that it has taken out.  Each stopped task
\* is freed in this pass or in the next one, unless a task has stopped just as
\* the idle task took out the last one of the list: that one is lost, and from
\* then on the list may not lead to those that follow it.
StoppedTasksReaped ==
    /\ InHand => memory[idle.position] = "stopped"
    /\ \A n \in Ahead \union ({links.prev[ReapList]} \ {ReapList}) :
          memory[n] = "stopped" /\ ~(idle.at = "free" /\ idle.position = n)
    /\ ~crossed =>
          \A t \in Threads : memory[t] = "stopped" =>
              t \in Ahead \/ (InHand /\ idle.position = t)
=============================================================================
