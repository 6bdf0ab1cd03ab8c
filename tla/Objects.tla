------------------------------ MODULE Objects -------------------------------
(***************************************************************************)
(* The objects through which tasks wait for one another: semaphores, event *)
(* flags, task notifications, message queues and pipes; and the signals of *)
(* a task.  They share nothing but the tasks, so a behaviour uses one of   *)
(* them; which one is chosen at the start.                                 *)
(***************************************************************************)
EXTENDS Semaphore, Event, Notify, Buffers, Signal

CONSTANT MaxUsers  \* bound on the tasks that exist, for each kind of object

VARIABLE object  \* the object that this behaviour is about

syncVars == <<semVars, event, note>>
bufferVars == <<setup, ring, left>>
vars == <<w, call, object, syncVars, bufferVars, signalVars>>

Init ==
    /\ WaitInit
    /\ call = [t \in Tasks |-> NoCall]
    /\ object \in DOMAIN MaxUsers
    /\ SemInit /\ EventInit /\ NotifyInit /\ BufferInit /\ SignalInit
    /\ object # "notification" => ~note.counting
    /\ object # "buffer" => setup = CHOOSE s \in Setups : TRUE

Next ==
    /\ \/ /\ object = "semaphore"
          /\ SemNext \/ SemTaskEvents
          /\ UNCHANGED <<event, note, bufferVars, signalVars>>
       \/ /\ object = "event"
          /\ EventNext \/ (TaskEvents /\ UNCHANGED event)
          /\ UNCHANGED <<semVars, note, bufferVars, signalVars>>
       \/ /\ object = "notification"
          /\ NotifyNext \/ NotifyTaskEvents
          /\ UNCHANGED <<semVars, event, bufferVars, signalVars>>
       \/ /\ object = "buffer"
          /\ BufferNext
          /\ UNCHANGED <<syncVars, signalVars>>
       \/ /\ object = "signal"
          /\ SignalNext
          /\ UNCHANGED <<w, call, syncVars, bufferVars>>
    /\ Cardinality({t \in Tasks : w'.mode[t] # "off"}) <= MaxUsers[object]
    /\ UNCHANGED object

Spec == Init /\ [][Next]_vars
=============================================================================
