-------------------------------- MODULE Posix --------------------------------
(***************************************************************************)
(* The POSIX objects on top of the kernel's tasks, semaphores and mutexes. *)
(* They share nothing but the tasks, so a behaviour uses one of them;      *)
(* which one is chosen at the start.  No task is deleted by another: the   *)
(* layer does not clean up after a forced deletion, and says so.           *)
(***************************************************************************)
EXTENDS PosixSync, PosixThread, PosixNamed, PosixKeys, PosixMutex

\* What is used: "mutex", "condition", "barrier", "rwlock", "thread", "named",
\* "key".
CONSTANT Kinds

\* The objects of named entries are not the mutexes and semaphores inside the
\* other objects.
ASSUME PosixAssumption ==
    /\ Kinds \subseteq {"mutex", "condition", "barrier", "rwlock", "thread", "named", "key"}
    /\ Entries \intersect ({MutexList, LockList} \union Conditions \union Tasks) = {}

VARIABLE kind

vars == <<w, call, kind, owner, cond, barrier, rw, rec, table, keyVars, pmutex>>

\* The threads run, or, when the question is how they come and go, one does.
\* Two threads share a key, or one has two.
Init ==
    /\ kind \in Kinds
    /\ \E running \in SUBSET Tasks :
          /\ CASE kind = "thread" -> Cardinality(running) = 1
               [] kind = "key" -> Cardinality(running) \in {1, 2}
               [] OTHER -> running = Tasks
          /\ w = [AllOff EXCEPT !.mode = [t \in Tasks |->
                                    IF t \in running THEN "active" ELSE "off"]]
    /\ call = [t \in Tasks |-> NoCall]
    /\ SyncInit /\ ThreadInit /\ NamedInit /\ KeyInit /\ MutexInit
    /\ IF kind = "key" THEN Cardinality({t \in Tasks : Free(t)}) + Cardinality(Keys) = 3
       ELSE Keys = {0}
    /\ kind # "mutex" => pmutex.type = "NORMAL"

Next ==
    /\ \/ /\ kind \in {"condition", "barrier", "rwlock"}
          /\ \E t \in Tasks :
                \/ GoOn(t) \/ WaitFails(t)
                \/ kind = "condition" /\ CondCalls(t)
                \/ kind = "barrier" /\ BarrierWait(t)
                \/ kind = "rwlock" /\ RwCalls(t)
          /\ UNCHANGED <<rec, table, keyVars, pmutex>>
       \/ /\ kind = "mutex"
          /\ MutexNext
          /\ UNCHANGED <<syncVars, rec, table, keyVars>>
       \/ /\ kind = "thread"
          /\ \/ ThreadNext
             \/ \E t \in Tasks : Interrupted(t) /\ UNCHANGED <<call, rec>>
          /\ UNCHANGED <<syncVars, table, keyVars, pmutex>>
       \/ /\ kind = "named"
          /\ NamedNext
          /\ UNCHANGED <<syncVars, rec, keyVars, pmutex>>
       \/ /\ kind = "key"
          /\ KeyNext
          /\ UNCHANGED <<syncVars, rec, table, pmutex>>
    /\ UNCHANGED kind

Spec == Init /\ [][Next]_vars
=============================================================================
