---------------------------- MODULE ObjectProofs -----------------------------
(***************************************************************************)
(* Objects, for any number of tasks and any limits: what the run objects   *)
(* checks on three tasks.  A semaphore (kernel/ipc/sem.c) is a counting    *)
(* semaphore, whatever happens to the tasks that wait for it; signals      *)
(* (kernel/task.c) are kept and are not delivered twice, whatever the      *)
(* masks and the moments of sending; message queues and pipes; and at the  *)
(* end event flags (kernel/ipc/event.c) and task notifications             *)
(* (kernel/ipc/notify.c).                                                  *)
(***************************************************************************)
EXTENDS Semaphore, Signal, Buffers, Event, Notify, WaitingProofs,
        FiniteSetTheorems, SequenceTheorems, WellFoundedInduction

\* One semaphore and the tasks, by themselves.
SemAllNext == SemNext \/ SemTaskEvents

SemSpec ==
    /\ WaitInit /\ call = [t \in Tasks |-> NoCall] /\ SemInit
    /\ [][SemAllNext]_<<w, call, semVars>>

SemWaitCall == [op |-> "sem_wait"]

SemType ==
    /\ w \in WaitingType
    /\ call \in [Tasks -> {NoCall, SemWaitCall}]
    /\ sem \in [live : BOOLEAN, gen : Nat, count : 0 .. SemMaxCount]

\* A task is on the wait list exactly while it waits in aixos_sem_wait.
Listed ==
    \A t \in Tasks : w.on[t] = SemList <=> call[t] = SemWaitCall /\ w.mode[t] = "waiting"

\* Nobody waits for a permission that is there, nor for a deleted semaphore.
NoneInVain ==
    \A t \in Tasks : w.on[t] = SemList => sem.live /\ sem.count = 0

\* A semaphore that has been deleted keeps no permission.
DeletedIsEmpty == ~sem.live => sem.count = 0

SemInv == SemType /\ Listed /\ NoneInVain /\ DeletedIsEmpty

-----------------------------------------------------------------------------
(* Calls, and the abstraction.                                             *)

LEMMA CallsDiffer == NoCall # SemWaitCall /\ NoCall.op = "none" /\ SemWaitCall.op = "sem_wait"
<1>1. NoCall.op = "none" /\ SemWaitCall.op = "sem_wait"
  BY DEF NoCall, SemWaitCall
<1> QED BY <1>1, "none" # "sem_wait"

\* The sets of the abstraction, by the two fields that matter.
LEMMA AbstractSets ==
    ASSUME SemType
    PROVE  /\ SemWaiters = {t \in Tasks : call[t] = SemWaitCall /\ w.mode[t] = "waiting"}
           /\ SemGranted = {t \in Tasks : /\ call[t] = SemWaitCall
                                          /\ w.mode[t] = "active" /\ w.result[t] = "OK"}
<1>1. \A t \in Tasks : call[t].op = "sem_wait" <=> call[t] = SemWaitCall
  BY CallsDiffer DEF SemType
<1> QED BY <1>1 DEF SemWaiters, SemGranted, Inside

LEMMA AbstractSetsNext ==
    ASSUME SemType'
    PROVE  /\ SemWaiters' = {t \in Tasks : call'[t] = SemWaitCall /\ w'.mode[t] = "waiting"}
           /\ SemGranted' = {t \in Tasks : /\ call'[t] = SemWaitCall
                                           /\ w'.mode[t] = "active" /\ w'.result[t] = "OK"}
<1>1. \A t \in Tasks : call'[t].op = "sem_wait" <=> call'[t] = SemWaitCall
  BY CallsDiffer DEF SemType
<1> QED BY <1>1 DEF SemWaiters, SemGranted, Inside

LEMMA WaitersAreListed ==
    ASSUME SemInv
    PROVE  SemWaiters = WaitersOf(w, SemList)
BY AbstractSets DEF SemInv, Listed, WaitersOf

\* What the abstraction may see of a step.
AbstractStep == [Counting!Next]_(Counting!vars)

LEMMA Unseen ==
    ASSUME SemInv, UNCHANGED <<w, call, semVars>>
    PROVE  SemInv' /\ AbstractStep
BY DEF SemInv, SemType, Listed, NoneInVain, DeletedIsEmpty, AbstractStep, Counting!vars, SemWaiters,
       SemGranted, Inside, semVars

\* A task stops waiting, is created or is deleted, in whatever call it is.
LEMMA Released ==
    ASSUME SemInv, NEW t \in Tasks, NEW mode \in {"active", "off"},
           NEW result \in Results,
           w' = Unblock(w, t, mode, result), UNCHANGED sem,
           UNCHANGED call \/ call' = [call EXCEPT ![t] = NoCall]
    PROVE  /\ SemInv'
           /\ SemWaiters' = SemWaiters \ {t}
           /\ SemGranted' = IF call'[t] = SemWaitCall /\ mode = "active" /\ result = "OK"
                            THEN SemGranted \union {t} ELSE SemGranted \ {t}
<1>1. /\ w' \in WaitingType
      /\ w'.on[t] = NoList /\ w'.mode[t] = mode /\ w'.result[t] = result
      /\ \A u \in Tasks \ {t} :
            /\ w'.on[u] = w.on[u] /\ w'.mode[u] = w.mode[u]
            /\ w'.result[u] = w.result[u]
  <2>1. w \in WaitingType /\ mode \in Modes
    BY DEF SemInv, SemType, Modes
  <2> QED BY <2>1, UnblockEffect
<1>2. /\ call' \in [Tasks -> {NoCall, SemWaitCall}]
      /\ \A u \in Tasks \ {t} : call'[u] = call[u]
  BY DEF SemInv, SemType
<1>3. SemType'
  BY <1>1, <1>2 DEF SemInv, SemType
<1>4. Listed'
  BY <1>1, <1>2, SemaphoreAssumption DEF SemInv, Listed
<1>5. NoneInVain' /\ DeletedIsEmpty'
  BY <1>1, SemaphoreAssumption DEF SemInv, NoneInVain, DeletedIsEmpty
<1>6. SemWaiters' = SemWaiters \ {t}
  BY <1>1, <1>2, <1>3, AbstractSets, AbstractSetsNext DEF SemInv
<1>7. SemGranted' = IF call'[t] = SemWaitCall /\ mode = "active" /\ result = "OK"
                    THEN SemGranted \union {t} ELSE SemGranted \ {t}
  BY <1>1, <1>2, <1>3, AbstractSets, AbstractSetsNext DEF SemInv
<1> QED BY <1>3, <1>4, <1>5, <1>6, <1>7 DEF SemInv

\* A task that waits leaves the wait list: it gives up, or nothing is seen.
LEMMA WaitOver ==
    ASSUME SemInv, NEW t \in Tasks, w.mode[t] = "waiting",
           NEW result \in Results,
           result = "OK" => w.on[t] = NoList,
           w' = Unblock(w, t, "active", result), UNCHANGED <<call, semVars>>
    PROVE  SemInv' /\ AbstractStep
<1> UNCHANGED sem
  BY DEF semVars
<1>1. /\ SemInv'
      /\ SemWaiters' = SemWaiters \ {t}
      /\ SemGranted' = IF call'[t] = SemWaitCall /\ result = "OK"
                       THEN SemGranted \union {t} ELSE SemGranted \ {t}
  BY Released
<1>2. t \notin SemGranted
  BY AbstractSets DEF SemInv
<1>3. result = "OK" => call'[t] # SemWaitCall
  BY SemaphoreAssumption DEF SemInv, Listed
<1>4. SemGranted' = SemGranted
  BY <1>1, <1>2, <1>3
<1>5. CASE t \in SemWaiters
  BY <1>1, <1>4, <1>5 DEF AbstractStep, Counting!Next, Counting!GiveUp, semVars
<1>6. CASE t \notin SemWaiters
  BY <1>1, <1>4, <1>6 DEF AbstractStep, Counting!vars, semVars
<1> QED BY <1>1, <1>5, <1>6

-----------------------------------------------------------------------------
(* The steps.                                                              *)

LEMMA TaskEventsStep ==
    ASSUME SemInv, SemTaskEvents
    PROVE  SemInv' /\ AbstractStep
<1> PICK t \in Tasks : \/ (TimeOut(t) \/ Interrupted(t)) /\ UNCHANGED call
                       \/ (Created(t) \/ Deleted(t)) /\ Return(t)
  BY DEF SemTaskEvents, TaskEvents
<1>u. UNCHANGED sem
  BY DEF SemTaskEvents
\* Only a task that is deleted with its permission takes one away.
<1>s. /\ (\E u \in SemGranted : w'.mode[u] = "off") => permits' = permits - 1
      /\ (\A u \in SemGranted : w'.mode[u] # "off") => UNCHANGED semVars
  BY DEF SemTaskEvents, semVars
<1>g. ASSUME NEW mode \in {"active", "off"}, NEW result \in Results,
             w' = Unblock(w, t, mode, result)
      PROVE  /\ w'.mode[t] = mode
             /\ \A u \in SemGranted \ {t} : w'.mode[u] # "off"
  <2>1. w \in WaitingType /\ mode \in Modes
    BY <1>g DEF SemInv, SemType, Modes
  <2>2. w'.mode[t] = mode /\ \A u \in Tasks \ {t} : w'.mode[u] = w.mode[u]
    BY <1>g, <2>1, UnblockEffect
  <2> QED BY <2>2 DEF SemGranted, Inside
<1>1. CASE TimeOut(t) /\ UNCHANGED call
  <2>1. CASE w.mode[t] # "waiting"
    <3>1. w' = w
      BY <1>1, <2>1 DEF TimeOut, Wake
    <3>2. UNCHANGED semVars
      BY <1>s, <3>1 DEF SemGranted
    <3> QED BY <1>1, <3>1, <3>2, Unseen
  <2>2. CASE w.mode[t] = "waiting"
    <3>1. \/ w' = Unblock(w, t, "active", "TIMEOUT")
          \/ w.on[t] = NoList /\ w' = Unblock(w, t, "active", "OK")
      BY <1>1, <2>2 DEF TimeOut, Wake
    <3>2. UNCHANGED semVars
      BY <1>s, <1>g, <3>1 DEF Results
    <3> QED BY <1>1, <2>2, <3>1, <3>2, WaitOver DEF Results
  <2> QED BY <2>1, <2>2
<1>2. CASE Interrupted(t) /\ UNCHANGED call
  <2>1. w.mode[t] = "waiting" /\ w' = Unblock(w, t, "active", "INTR")
    BY <1>2 DEF Interrupted, Wake
  <2>2. UNCHANGED semVars
    BY <1>s, <1>g, <2>1 DEF Results
  <2> QED BY <1>2, <2>1, <2>2, WaitOver DEF Results
<1>3. CASE Created(t) /\ Return(t)
  <2>1. /\ w.mode[t] = "off" /\ w' = Unblock(w, t, "active", "OK")
        /\ call' = [call EXCEPT ![t] = NoCall]
    BY <1>3 DEF Created, Return, Goto
  <2>2. t \notin SemWaiters /\ t \notin SemGranted
    BY <2>1, AbstractSets DEF SemInv
  <2>3. call'[t] # SemWaitCall
    BY <2>1, CallsDiffer DEF SemInv, SemType
  <2>4. SemInv' /\ SemWaiters' = SemWaiters \ {t} /\ SemGranted' = SemGranted \ {t}
    BY <1>u, <2>1, <2>3, Released DEF Results
  <2>5. UNCHANGED semVars
    BY <1>s, <1>g, <2>1, <2>2 DEF Results
  <2> QED BY <2>2, <2>4, <2>5 DEF AbstractStep, Counting!vars, semVars
<1>4. CASE Deleted(t) /\ Return(t)
  <2>1. PICK result \in Results : w' = Unblock(w, t, "off", result)
    BY <1>4 DEF Deleted, Results
  <2>2. call' = [call EXCEPT ![t] = NoCall]
    BY <1>4 DEF Return, Goto
  <2>3. SemInv' /\ SemWaiters' = SemWaiters \ {t} /\ SemGranted' = SemGranted \ {t}
    BY <1>u, <2>1, <2>2, Released
  <2>4. t \notin SemWaiters \/ t \notin SemGranted
    BY AbstractSets DEF SemInv
  <2>g. w'.mode[t] = "off" /\ \A u \in SemGranted \ {t} : w'.mode[u] # "off"
    BY <1>g, <2>1
  <2>5. CASE t \in SemWaiters
    <3>1. UNCHANGED semVars
      BY <1>s, <2>g, <2>4, <2>5
    <3> QED BY <2>3, <2>4, <2>5, <3>1
      DEF AbstractStep, Counting!Next, Counting!GiveUp, semVars
  <2>6. CASE t \in SemGranted
    <3>1. permits' = permits - 1
      BY <1>s, <2>g, <2>6
    <3> QED BY <1>u, <2>3, <2>4, <2>6, <3>1
      DEF AbstractStep, Counting!Next, Counting!Leave
  <2>7. CASE t \notin SemWaiters /\ t \notin SemGranted
    <3>1. UNCHANGED semVars
      BY <1>s, <2>g, <2>7
    <3> QED BY <2>3, <2>7, <3>1 DEF AbstractStep, Counting!vars, semVars
  <2> QED BY <2>3, <2>5, <2>6, <2>7
<1> QED BY <1>1, <1>2, <1>3, <1>4

LEMMA SetsUnchanged ==
    ASSUME UNCHANGED <<w, call>>
    PROVE  SemWaiters' = SemWaiters /\ SemGranted' = SemGranted
BY DEF SemWaiters, SemGranted, Inside

LEMMA CreateStep ==
    ASSUME SemInv, NEW n \in 0 .. SemMaxCount, SemCreate(n)
    PROVE  SemInv' /\ AbstractStep
<1>1. ~sem.live /\ sem' = [live |-> TRUE, gen |-> sem.gen + 1, count |-> n]
      /\ permits' = permits + n /\ UNCHANGED <<w, call>>
  BY DEF SemCreate
<1>2. \A t \in Tasks : w.on[t] # SemList
  BY <1>1 DEF SemInv, NoneInVain
<1>3. SemInv'
  BY <1>1, <1>2 DEF SemInv, SemType, Listed, NoneInVain, DeletedIsEmpty
<1>4. Counting!Create(n)
  BY <1>1, SetsUnchanged DEF Counting!Create
<1> QED BY <1>3, <1>4 DEF AbstractStep, Counting!Next

LEMMA DeleteStep ==
    ASSUME SemInv, NEW h, SemDelete(h)
    PROVE  SemInv' /\ AbstractStep
<1>1. /\ sem.live /\ WaitersOf(w, SemList) = {}
      /\ sem' = [sem EXCEPT !.live = FALSE, !.count = 0]
      /\ permits' = permits - sem.count
      /\ UNCHANGED <<w, call>>
  BY DEF SemDelete, SemValid
<1>2. /\ sem' \in [live : BOOLEAN, gen : Nat, count : 0 .. SemMaxCount]
      /\ sem'.count = 0 /\ ~sem'.live
  <2>1. sem' = [live |-> FALSE, gen |-> sem.gen, count |-> 0]
    BY <1>1 DEF SemInv, SemType
  <2>2. sem.gen \in Nat
    BY DEF SemInv, SemType
  <2> QED BY <2>1, <2>2, SemaphoreAssumption
<1>3. \A t \in Tasks : w.on[t] # SemList
  BY <1>1 DEF WaitersOf
<1>4. SemInv'
  BY <1>1, <1>2, <1>3 DEF SemInv, SemType, Listed, NoneInVain, DeletedIsEmpty
<1>5. Counting!Delete
  BY <1>1, <1>2, SetsUnchanged, WaitersAreListed DEF Counting!Delete
<1> QED BY <1>4, <1>5 DEF AbstractStep, Counting!Next

LEMMA PostStep ==
    ASSUME SemInv, NEW h, SemPost(h)
    PROVE  SemInv' /\ AbstractStep
<1>1. CASE WaitersOf(w, SemList) # {}
  <2>1. PICK t \in WaitersOf(w, SemList) : w' = Wake(w, t, "OK")
    BY <1>1 DEF SemPost
  <2>2. t \in Tasks /\ w.on[t] = SemList
    BY DEF WaitersOf
  <2>3. call[t] = SemWaitCall /\ w.mode[t] = "waiting"
    BY <2>2 DEF SemInv, Listed
  <2>4. /\ w' = Unblock(w, t, "active", "OK") /\ UNCHANGED <<call, sem>>
        /\ permits' = permits + 1 /\ sem.live
    BY <1>1, <2>1, <2>3 DEF SemPost, SemValid, Wake
  <2>5. call'[t] = SemWaitCall
    BY <2>3, <2>4
  <2>6. /\ SemInv' /\ SemWaiters' = SemWaiters \ {t}
        /\ SemGranted' = SemGranted \union {t}
    BY <2>2, <2>4, <2>5, Released DEF Results
  <2>7. t \in SemWaiters
    BY WaitersAreListed
  <2>8. Counting!HandOver(t)
    BY <2>4, <2>6, <2>7 DEF Counting!HandOver
  <2> QED BY <2>2, <2>6, <2>8 DEF AbstractStep, Counting!Next
<1>2. CASE WaitersOf(w, SemList) = {}
  <2>1. /\ sem.count # SemMaxCount /\ sem' = [sem EXCEPT !.count = @ + 1]
        /\ permits' = permits + 1 /\ sem.live /\ UNCHANGED <<w, call>>
    BY <1>2 DEF SemPost, SemValid
  <2>2. /\ sem' \in [live : BOOLEAN, gen : Nat, count : 0 .. SemMaxCount]
        /\ sem'.live = sem.live
        /\ sem'.count = sem.count + 1 /\ sem.count < SemMaxCount
    <3>1. /\ sem' = [live |-> sem.live, gen |-> sem.gen, count |-> sem.count + 1]
          /\ sem.gen \in Nat /\ sem.live \in BOOLEAN
      BY <2>1 DEF SemInv, SemType
    <3>2. sem.count < SemMaxCount /\ sem.count + 1 \in 0 .. SemMaxCount
      BY <2>1, SemaphoreAssumption DEF SemInv, SemType
    <3> QED BY <3>1, <3>2
  <2>3. \A t \in Tasks : w.on[t] # SemList
    BY <1>2 DEF WaitersOf
  <2>4. SemInv'
    BY <2>1, <2>2, <2>3 DEF SemInv, SemType, Listed, NoneInVain, DeletedIsEmpty
  <2>5. Counting!Post
    BY <1>2, <2>1, <2>2, SetsUnchanged, WaitersAreListed DEF Counting!Post
  <2> QED BY <2>4, <2>5 DEF AbstractStep, Counting!Next
<1> QED BY <1>1, <1>2

LEMMA WaitStep ==
    ASSUME SemInv, NEW t \in Tasks, NEW h, NEW timeout, SemWait(t, h, timeout)
    PROVE  SemInv' /\ AbstractStep
<1>1. w.mode[t] = "active" /\ call[t] = NoCall /\ sem.live
  BY DEF SemWait, Free, SemValid
<1>2. CASE sem.count > 0
  <2>1. /\ sem' = [sem EXCEPT !.count = @ - 1] /\ permits' = permits - 1
        /\ UNCHANGED <<w, call>>
    BY <1>2 DEF SemWait
  <2>2. /\ sem' \in [live : BOOLEAN, gen : Nat, count : 0 .. SemMaxCount]
        /\ sem'.live = sem.live /\ sem'.count = sem.count - 1
    BY <1>2, <2>1, SemaphoreAssumption DEF SemInv, SemType
  <2>3. \A u \in Tasks : w.on[u] # SemList
    BY <1>2 DEF SemInv, NoneInVain
  <2>4. SemInv'
    BY <2>1, <2>2, <2>3 DEF SemInv, SemType, Listed, NoneInVain, DeletedIsEmpty
  <2>5. Counting!Take
    BY <1>1, <1>2, <2>1, <2>2, SetsUnchanged DEF Counting!Take
  <2> QED BY <2>4, <2>5 DEF AbstractStep, Counting!Next
<1>3. CASE ~(sem.count > 0)
  <2>1. PICK timed \in BOOLEAN : w' = BlockOn(w, t, SemList, timed)
    BY <1>3 DEF SemWait
  <2>2. call' = [call EXCEPT ![t] = SemWaitCall] /\ UNCHANGED <<sem, permits>>
    BY <1>3 DEF SemWait, Goto, SemWaitCall, semVars
  <2>3. sem.count = 0
    BY <1>3, SemaphoreAssumption DEF SemInv, SemType
  <2>4. w \in WaitingType
    BY DEF SemInv, SemType
  <2>5. /\ w' \in WaitingType
        /\ w'.on[t] = SemList /\ w'.mode[t] = "waiting"
        /\ \A u \in Tasks \ {t} :
              /\ w'.on[u] = w.on[u] /\ w'.mode[u] = w.mode[u]
              /\ w'.result[u] = w.result[u]
    BY <2>1, <2>4, BlockEffect, SemaphoreAssumption
  <2>6. /\ call' \in [Tasks -> {NoCall, SemWaitCall}] /\ call'[t] = SemWaitCall
        /\ \A u \in Tasks \ {t} : call'[u] = call[u]
    BY <2>2 DEF SemInv, SemType
  <2>7. SemType'
    BY <2>2, <2>5, <2>6 DEF SemInv, SemType
  <2>8. Listed' /\ NoneInVain' /\ DeletedIsEmpty'
    BY <1>1, <2>2, <2>3, <2>5, <2>6 DEF SemInv, Listed, NoneInVain, DeletedIsEmpty
  <2>9. SemInv'
    BY <2>7, <2>8 DEF SemInv
  <2>10. t \notin SemWaiters \union SemGranted
    BY <1>1, CallsDiffer, AbstractSets DEF SemInv
  <2>11. SemWaiters' = SemWaiters \union {t}
    BY <2>5, <2>6, <2>7, AbstractSets, AbstractSetsNext DEF SemInv
  <2>12. SemGranted' = SemGranted
    <3>1. t \notin SemGranted'
      BY <2>5, <2>7, AbstractSetsNext
    <3>2. \A u \in Tasks \ {t} : u \in SemGranted' <=> u \in SemGranted
      BY <2>5, <2>6, <2>7, AbstractSets, AbstractSetsNext DEF SemInv
    <3>3. SemGranted \subseteq Tasks /\ SemGranted' \subseteq Tasks
      BY DEF SemGranted, Inside
    <3> QED BY <2>10, <3>1, <3>2, <3>3
  <2>13. Counting!Enter(t)
    BY <1>1, <2>2, <2>3, <2>10, <2>11, <2>12 DEF Counting!Enter
  <2> QED BY <2>9, <2>13 DEF AbstractStep, Counting!Next
<1> QED BY <1>2, <1>3

LEMMA WaitReturnStep ==
    ASSUME SemInv, NEW t \in Tasks, SemWaitReturn(t)
    PROVE  SemInv' /\ AbstractStep
<1>1. /\ w.mode[t] = "active" /\ call[t].op = "sem_wait"
      /\ call' = [call EXCEPT ![t] = NoCall] /\ UNCHANGED <<w, sem>>
      /\ permits' = IF w.result[t] = "OK" THEN permits - 1 ELSE permits
  BY DEF SemWaitReturn, At, Return, Goto
<1>2. /\ call' \in [Tasks -> {NoCall, SemWaitCall}] /\ call'[t] = NoCall
      /\ \A u \in Tasks \ {t} : call'[u] = call[u]
  BY <1>1 DEF SemInv, SemType
<1>3. SemType'
  BY <1>1, <1>2 DEF SemInv, SemType
<1>4. Listed' /\ NoneInVain' /\ DeletedIsEmpty'
  BY <1>1, <1>2 DEF SemInv, Listed, NoneInVain, DeletedIsEmpty
<1>5. SemWaiters' = SemWaiters
  BY <1>1, <1>2, <1>3, CallsDiffer, AbstractSets, AbstractSetsNext DEF SemInv
<1>6. SemGranted' = SemGranted \ {t}
  BY <1>1, <1>2, <1>3, CallsDiffer, AbstractSets, AbstractSetsNext DEF SemInv
<1>7. CASE t \in SemGranted
  <2>1. Counting!Leave(t)
    BY <1>1, <1>5, <1>6, <1>7 DEF Counting!Leave, SemGranted
  <2> QED BY <1>3, <1>4, <2>1 DEF SemInv, AbstractStep, Counting!Next
<1>8. CASE t \notin SemGranted
  <2>1. UNCHANGED permits
    BY <1>1, <1>8 DEF SemGranted, Inside
  <2> QED BY <1>1, <1>3, <1>4, <1>5, <1>6, <1>8, <2>1
    DEF SemInv, AbstractStep, Counting!vars
<1> QED BY <1>7, <1>8

-----------------------------------------------------------------------------

LEMMA SemStep ==
    ASSUME SemInv, [SemAllNext]_<<w, call, semVars>>
    PROVE  SemInv' /\ AbstractStep
<1>1. CASE SemNext
  <2>1. ASSUME NEW n \in 0 .. SemMaxCount, SemCreate(n)
        PROVE  SemInv' /\ AbstractStep
    BY <2>1, CreateStep
  <2>2. ASSUME NEW h \in 1 .. MaxHandles, SemPost(h) PROVE SemInv' /\ AbstractStep
    BY <2>2, PostStep
  <2>3. ASSUME NEW h \in 1 .. MaxHandles, SemDelete(h) PROVE SemInv' /\ AbstractStep
    BY <2>3, DeleteStep
  <2>4. ASSUME NEW h \in 1 .. MaxHandles, NEW t \in Tasks, NEW timeout \in Timeouts,
               SemWait(t, h, timeout)
        PROVE  SemInv' /\ AbstractStep
    BY <2>4, WaitStep
  <2>5. ASSUME NEW t \in Tasks, SemWaitReturn(t) PROVE SemInv' /\ AbstractStep
    BY <2>5, WaitReturnStep
  <2> QED BY <1>1, <2>1, <2>2, <2>3, <2>4, <2>5 DEF SemNext
<1>2. CASE SemTaskEvents
  BY <1>2, TaskEventsStep
<1>3. CASE UNCHANGED <<w, call, semVars>>
  BY <1>3, Unseen
<1> QED BY <1>1, <1>2, <1>3 DEF SemAllNext

LEMMA SemStart ==
    ASSUME WaitInit, call = [t \in Tasks |-> NoCall], SemInit
    PROVE  SemInv /\ Counting!Init
<1>1. /\ w = [mode |-> [t \in Tasks |-> "off"], on |-> [t \in Tasks |-> NoList],
              timed |-> [t \in Tasks |-> FALSE], result |-> [t \in Tasks |-> "OK"]]
      /\ sem = [live |-> FALSE, gen |-> 0, count |-> 0] /\ permits = 0
  BY DEF WaitInit, AllOff, SemInit
<1>2. SemType
  BY <1>1, SemaphoreAssumption DEF SemType, WaitingType, Modes
<1>3. Listed /\ NoneInVain /\ DeletedIsEmpty
  BY <1>1, SemaphoreAssumption DEF Listed, NoneInVain, DeletedIsEmpty
<1>4. SemWaiters = {} /\ SemGranted = {}
  BY <1>1, <1>2, AbstractSets
<1> QED BY <1>1, <1>2, <1>3, <1>4 DEF SemInv, Counting!Init

\* sem.c, with timeouts, suspension, creation and deletion of tasks and of the
\* semaphore, and stale handles: for any number of tasks and any limit, each
\* post answered OK makes one permission, counted or handed to one task, each
\* wait answered OK uses one up, nothing else changes how many there are but
\* creation and deletion, and no task waits while there is one.
THEOREM SemaphoreCorrect == SemSpec => SemaphoreImplements
<1>1. WaitInit /\ call = [t \in Tasks |-> NoCall] /\ SemInit => SemInv /\ Counting!Init
  BY SemStart
<1>2. SemInv /\ [SemAllNext]_<<w, call, semVars>> => SemInv' /\ AbstractStep
  BY SemStep
<1> QED BY <1>1, <1>2, PTL DEF SemSpec, SemaphoreImplements, Counting!Spec, AbstractStep

\* Nobody waits for a permission that is there or for a semaphore that has been
\* deleted, and the wait list holds exactly the tasks inside aixos_sem_wait.
THEOREM NobodyWaitsInVain == SemSpec => [](Listed /\ NoneInVain)
<1>1. WaitInit /\ call = [t \in Tasks |-> NoCall] /\ SemInit => SemInv
  BY SemStart
<1>2. SemInv /\ [SemAllNext]_<<w, call, semVars>> => SemInv'
  BY SemStep
<1>3. SemInv => Listed /\ NoneInVain
  BY DEF SemInv
<1> QED BY <1>1, <1>2, <1>3, PTL DEF SemSpec

\* The permissions promised and not yet received are those that are there.
Conserved == permits = sem.count + Cardinality(SemGranted)

LEMMA ConservedStep ==
    ASSUME SemInv, SemInv', Conserved, AbstractStep
    PROVE  Conserved'
<1>1. /\ IsFiniteSet(SemGranted) /\ Cardinality(SemGranted) \in Nat
      /\ sem.count \in Nat /\ sem'.count \in Nat
      /\ permits = sem.count + Cardinality(SemGranted)
  <2>1. SemGranted \subseteq Tasks
    BY DEF SemGranted, Inside
  <2>2. sem.count \in 0 .. SemMaxCount /\ sem'.count \in 0 .. SemMaxCount
    BY DEF SemInv, SemType
  <2> QED BY <2>1, <2>2, SemaphoreAssumption, FS_Subset, FS_CardinalityType
      DEF Conserved
<1>2. CASE \E n \in 0 .. SemMaxCount : Counting!Create(n)
  <2>1. PICK n \in 0 .. SemMaxCount : Counting!Create(n)
    BY <1>2
  <2>2. /\ sem'.count = n /\ permits' = permits + n /\ SemGranted' = SemGranted
        /\ ~sem.live
    BY <2>1 DEF Counting!Create
  <2>3. sem.count = 0
    BY <2>2 DEF SemInv, DeletedIsEmpty
  <2> QED BY <1>1, <2>2, <2>3 DEF Conserved
<1>3. CASE Counting!Delete \/ Counting!Take \/ Counting!Post
  BY <1>1, <1>3 DEF Counting!Delete, Counting!Take, Counting!Post, Conserved
<1>4. ASSUME NEW t \in Tasks, Counting!Enter(t) \/ Counting!GiveUp(t)
      PROVE  Conserved'
  BY <1>1, <1>4 DEF Counting!Enter, Counting!GiveUp, Conserved
<1>5. ASSUME NEW t \in Tasks, Counting!HandOver(t)
      PROVE  Conserved'
  <2>1. t \notin SemGranted
    BY <1>5, AbstractSets DEF Counting!HandOver, SemInv
  <2>2. Cardinality(SemGranted \union {t}) = Cardinality(SemGranted) + 1
    BY <1>1, <2>1, FS_AddElement
  <2> QED BY <1>1, <1>5, <2>2 DEF Counting!HandOver, Conserved
<1>6. ASSUME NEW t \in Tasks, Counting!Leave(t)
      PROVE  Conserved'
  <2>1. Cardinality(SemGranted \ {t}) = Cardinality(SemGranted) - 1
    BY <1>1, <1>6, FS_RemoveElement DEF Counting!Leave
  <2> QED BY <1>1, <1>6, <2>1 DEF Counting!Leave, Conserved
<1>7. CASE UNCHANGED (Counting!vars)
  BY <1>7 DEF Counting!vars, Conserved
<1> QED BY <1>2, <1>3, <1>4, <1>5, <1>6, <1>7 DEF AbstractStep, Counting!Next

\* The permissions that creation and posts answered OK have promised and no
\* wait has been answered with are exactly the count and the tasks that a post
\* has woken and that have not returned yet: none is lost and none is doubled.
THEOREM PermissionsConserved == SemSpec => []Conserved
<1>1. WaitInit /\ call = [t \in Tasks |-> NoCall] /\ SemInit
        => SemInv /\ Conserved
  <2> SUFFICES ASSUME WaitInit, call = [t \in Tasks |-> NoCall], SemInit
               PROVE  SemInv /\ Conserved
    OBVIOUS
  <2>1. SemInv /\ Counting!Init
    BY SemStart
  <2>2. Cardinality(SemGranted) = 0
    BY <2>1, FS_EmptySet DEF Counting!Init
  <2> QED BY <2>1, <2>2 DEF Counting!Init, Conserved
<1>2. SemInv /\ Conserved /\ [SemAllNext]_<<w, call, semVars>>
        => SemInv' /\ Conserved'
  BY SemStep, ConservedStep
<1> QED BY <1>1, <1>2, PTL DEF SemSpec

-----------------------------------------------------------------------------
(* Signals.                                                                *)

SignalType ==
    /\ sig \in [pending : SUBSET Signals, mask : SUBSET Signals, flag : BOOLEAN]
    /\ deliver \in [at : {"none", "clear", "lower"}, seen : SUBSET Signals, signo : Nat]
    /\ owed \in SUBSET Signals /\ late \in SUBSET owed

\* What the task has read is enough for the signals that are kept, and is not
\* more than what is owed until it writes it back; the flag is up meanwhile.
CallInv ==
    LET kept == owed \ late
    IN  /\ Delivering => sig.flag /\ kept \subseteq deliver.seen
        /\ deliver.at = "clear" => deliver.seen \subseteq owed

SigInv == SignalType /\ SignalsKept /\ CallInv

LEMMA SignalsAreNumbers == Signals \subseteq Nat
BY SignalAssumption DEF Signals

\* __builtin_ctz of a word that is not zero: there is a least signal.
LEMMA LowestIsOne ==
    ASSUME NEW S \in SUBSET Signals, S # {}
    PROVE  Lowest(S) \in S
<1>1. \E i \in S : \A j \in S : ~(<<j, i>> \in OpToRel(<, Nat))
  BY SignalsAreNumbers, NatLessThanWellFounded, WFMin
<1>2. PICK i \in S : \A j \in S : ~(<<j, i>> \in OpToRel(<, Nat))
  BY <1>1
<1>3. \A j \in S : ~(j < i)
  BY <1>2, SignalsAreNumbers DEF OpToRel
<1>4. \A j \in S : i <= j
  BY <1>3, SignalsAreNumbers
<1> QED BY <1>4 DEF Lowest

LEMMA SignalStart == SignalInit => SigInv
BY DEF SignalInit, SigInv, SignalType, SignalsKept, CallInv, Delivering, NotDelivering

LEMMA SignalSendKeeps ==
    ASSUME SigInv, NEW s, SignalSend(s)
    PROVE  SigInv'
<1> USE DEF SignalSend
<1>1. SignalType'
  BY DEF SigInv, SignalType
<1>2. SignalsKept'
  BY DEF SigInv, SignalType, SignalsKept, CallInv, Delivering
<1>3. CallInv'
  BY DEF SigInv, SignalType, CallInv, Delivering
<1> QED BY <1>1, <1>2, <1>3 DEF SigInv

LEMMA SetMaskKeeps ==
    ASSUME SigInv, NEW mask \in SUBSET Signals, SetMask(mask)
    PROVE  SigInv'
BY DEF SetMask, SigInv, SignalType, SignalsKept, CallInv, Delivering

LEMMA ChooseKeeps ==
    ASSUME SigInv, ChooseSignal
    PROVE  SigInv'
<1> DEFINE unmasked == sig.pending \ sig.mask
<1>1. unmasked \in SUBSET Signals /\ unmasked # {}
  BY DEF ChooseSignal, SigInv, SignalType
<1>2. Lowest(unmasked) \in Signals
  BY <1>1, LowestIsOne
<1>3. Lowest(unmasked) \in Nat
  BY <1>2, SignalsAreNumbers
<1> QED
  BY <1>3 DEF ChooseSignal, SigInv, SignalType, SignalsKept, CallInv, Delivering

LEMMA ReadAgainKeeps ==
    ASSUME SigInv, ReadAgain
    PROVE  SigInv'
BY DEF ReadAgain, SigInv, SignalType, SignalsKept, CallInv, Delivering

LEMMA TakeKeeps ==
    ASSUME SigInv, TakeSignal
    PROVE  SigInv'
<1> USE DEF TakeSignal
<1>1. SignalType'
  BY DEF SigInv, SignalType
<1>2. SignalsKept' /\ CallInv'
  BY DEF SigInv, SignalType, SignalsKept, CallInv, Delivering
<1> QED BY <1>1, <1>2 DEF SigInv

LEMMA LowerKeeps ==
    ASSUME SigInv, LowerFlag
    PROVE  SigInv'
BY DEF LowerFlag, NotDelivering, SigInv, SignalType, SignalsKept, CallInv, Delivering

LEMMA ReusedKeeps ==
    ASSUME Reused
    PROVE  SigInv'
BY DEF Reused, NotDelivering, SigInv, SignalType, SignalsKept, CallInv,
       Delivering

LEMMA SignalStep == SigInv /\ [SignalNext]_signalVars => SigInv'
<1> SUFFICES ASSUME SigInv, [SignalNext]_signalVars PROVE SigInv'
  OBVIOUS
<1>1. ASSUME NEW s \in Numbers, SignalSend(s) PROVE SigInv'
  BY <1>1, SignalSendKeeps
<1>2. ASSUME NEW mask \in SUBSET Signals, SetMask(mask) PROVE SigInv'
  BY <1>2, SetMaskKeeps
<1>3. CASE ChooseSignal
  BY <1>3, ChooseKeeps
<1>4. CASE ReadAgain
  BY <1>4, ReadAgainKeeps
<1>5. CASE TakeSignal
  BY <1>5, TakeKeeps
<1>6. CASE LowerFlag
  BY <1>6, LowerKeeps
<1>7. CASE Reused
  BY <1>7, ReusedKeeps
<1>8. CASE UNCHANGED signalVars
  BY <1>8 DEF signalVars, SigInv, SignalType, SignalsKept, CallInv, Delivering
<1> QED BY <1>1, <1>2, <1>3, <1>4, <1>5, <1>6, <1>7, <1>8 DEF SignalNext

-----------------------------------------------------------------------------

\* aixos_task_signal_send, _mask and _deliver: a signal sent outside the window
\* of the delivery stays pending until it is taken, and the flag announces it;
\* the window may lose signals, and brings none back that has been taken.
THEOREM SignalsNotLost == SignalSpec => []SignalsKept
<1>1. SigInv => SignalsKept
  BY DEF SigInv
<1> QED BY <1>1, SignalStart, SignalStep, PTL DEF SignalSpec

-----------------------------------------------------------------------------
(***************************************************************************)
(* Message queues and pipes (kernel/ipc/mq.c, kernel/ipc/pipe.c): for any  *)
(* number of tasks, any capacity and any messages, the ring is a bounded   *)
(* sequence in the order of priority, and no task sleeps over what is      *)
(* there unless enough woken tasks are on their way to it.                 *)
(***************************************************************************)

\* One queue or pipe and the tasks, by themselves.
bufferVars == <<w, call, setup, ring, left>>

BufferSpec ==
    /\ WaitInit /\ call = [t \in Tasks |-> NoCall] /\ BufferInit
    /\ [][BufferNext]_bufferVars

-----------------------------------------------------------------------------
(* The inductive invariants.                                               *)

Item == [prio : Nat, size : Nat]

Places == 0 .. Size - 1

RingType ==
    [live : BOOLEAN, gen : Nat, slot : [Places -> Item \union {NoItem}],
     head : Places, tail : Places, count : 0 .. Size]

BufferCalls ==
    {NoCall} \union [op : {"send"}, handle : Nat, data : setup.items, timed : BOOLEAN]
             \union [op : {"recv"}, handle : Nat, size : setup.sizes, timed : BOOLEAN]

Lists == {SendWait, RecvWait}

ListOf(op) == IF op = "send" THEN SendWait ELSE RecvWait

BufferType ==
    /\ w \in WaitingType
    /\ call \in [Tasks -> BufferCalls]
    /\ setup \in Setups
    /\ ring \in RingType
    /\ left \subseteq Lists

\* The items in the ring, in order of priority, lie behind one another; a
\* queue without priorities holds none that is urgent.  The tail of a queue is
\* behind the message that came last, wherever that was inserted.
RingInv ==
    /\ setup.type = "pipe" => ring.tail = SlotOf(ring.count)
    /\ \A i \in 0 .. ring.count - 1 :
          /\ ring.slot[SlotOf(i)] \in Item
          /\ ~setup.priorities => ring.slot[SlotOf(i)].prio = 0
          /\ \A j \in 0 .. i : ring.slot[SlotOf(j)].prio >= ring.slot[SlotOf(i)].prio

\* A task waits in a call of the object that exists, on the list of that call.
WaitsFit ==
    \A t \in Tasks :
        /\ w.mode[t] = "waiting" <=> w.on[t] # NoList
        /\ w.mode[t] = "waiting" =>
              /\ ring.live /\ call[t].op \in {"send", "recv"}
              /\ call[t].handle = ring.gen
              /\ w.on[t] = ListOf(call[t].op)

\* The woken tasks that will find the object they were woken for: those that
\* come back to a handle of an earlier one take nothing.
Coming(op) ==
    {t \in Tasks : /\ call[t].op = op /\ call[t].handle = ring.gen
                   /\ w.mode[t] = "active" /\ w.result[t] = "OK"}

\* What there is for the tasks in a call.
There(op) == IF op = "send" THEN Size - ring.count ELSE ring.count

Met(op) ==
    IF setup.type = "mq" THEN There(op) <= Cardinality(Coming(op))
    ELSE There(op) > 0 => Coming(op) # {}

Covered(op) ==
    WaitersOf(w, ListOf(op)) # {} /\ ListOf(op) \notin left => Met(op)

WakeInv == WaitsFit /\ Covered("send") /\ Covered("recv")

BufferInv == BufferType /\ RingInv /\ WakeInv

-----------------------------------------------------------------------------
(* Slots.                                                                  *)

LEMMA SetupIs ==
    ASSUME setup \in Setups
    PROVE  /\ setup.type \in {"mq", "pipe"} /\ setup.priorities \in BOOLEAN
           /\ Size \in Nat \ {0} /\ setup.sizes \subseteq Nat
           /\ setup.items \subseteq Seq(Item)
           /\ setup.type = "pipe" => ~setup.priorities
           /\ \A data \in setup.items :
                 /\ setup.type = "mq" => Len(data) = 1
                 /\ setup.type = "pipe" => \A i \in DOMAIN data : data[i].prio = 0
BY BuffersAssumption DEF Size, Item

LEMMA RingFields ==
    ASSUME BufferType
    PROVE  /\ Size \in Nat \ {0}
           /\ ring.live \in BOOLEAN /\ ring.gen \in Nat
           /\ ring.slot \in [Places -> Item \union {NoItem}]
           /\ ring.head \in Places /\ ring.tail \in Places /\ ring.count \in 0 .. Size
BY SetupIs DEF BufferType, RingType

\* A place i behind h, in a ring of Size slots
LEMMA Wrapped ==
    ASSUME Size \in Nat \ {0}, NEW h \in Places, NEW i \in 0 .. Size
    PROVE  /\ (h + i) % Size \in Places
           /\ (h + i) % Size = IF h + i < Size THEN h + i ELSE h + i - Size
<1> DEFINE x == h + i
<1>1. h \in Nat /\ i \in Nat /\ h < Size /\ i <= Size /\ x \in Nat /\ x < 2 * Size
  BY DEF Places
<1>2. CASE x < Size
  <2>1. x % Size = x
    BY <1>1, <1>2
  <2> QED BY <1>1, <1>2, <2>1 DEF Places
<1>3. CASE ~(x < Size)
  <2>1. x % Size = x - Size
    <3> HIDE DEF x
    <3> QED BY <1>1, <1>3
  <2> QED BY <1>1, <1>3, <2>1 DEF Places
<1> QED BY <1>2, <1>3

LEMMA SlotIs ==
    ASSUME BufferType, NEW i \in 0 .. Size
    PROVE  /\ SlotOf(i) \in Places
           /\ SlotOf(i) = IF ring.head + i < Size THEN ring.head + i
                          ELSE ring.head + i - Size
BY RingFields, Wrapped DEF SlotOf

\* Different places are in different slots, and every slot is a place.
LEMMA SlotsDiffer ==
    ASSUME BufferType
    PROVE  /\ \A i, j \in Places : SlotOf(i) = SlotOf(j) => i = j
           /\ \A s \in Places : \E i \in Places : SlotOf(i) = s
<1>1. /\ Size \in Nat \ {0} /\ ring.head \in Nat /\ ring.head < Size
      /\ \A i \in Places : i \in 0 .. Size /\ i \in Nat /\ i < Size
  BY RingFields DEF Places
<1>2. ASSUME NEW i \in Places, NEW j \in Places, SlotOf(i) = SlotOf(j)
      PROVE  i = j
  BY <1>1, <1>2, SlotIs
<1>3. ASSUME NEW s \in Places
      PROVE  \E i \in Places : SlotOf(i) = s
  <2>1. CASE s >= ring.head
    <3>1. s - ring.head \in Places
      BY <1>1, <2>1 DEF Places
    <3> QED BY <1>1, <2>1, <3>1, SlotIs
  <2>2. CASE s < ring.head
    <3>1. s - ring.head + Size \in Places
      BY <1>1, <2>2 DEF Places
    <3> QED BY <1>1, <2>2, <3>1, SlotIs
  <2> QED BY <1>1, <2>1, <2>2
<1> QED BY <1>2, <1>3

\* The slot before the one of a place is that of the place before.
LEMMA SlotBefore ==
    ASSUME BufferType, NEW i \in 1 .. Size - 1
    PROVE  (SlotOf(i) - 1) % Size = SlotOf(i - 1)
<1>1. /\ Size \in Nat \ {0} /\ ring.head \in Nat /\ ring.head < Size
      /\ i \in 0 .. Size /\ i - 1 \in 0 .. Size
  BY RingFields DEF Places
<1>2. /\ SlotOf(i) \in 0 .. Size - 1
      /\ SlotOf(i) = IF ring.head + i < Size THEN ring.head + i ELSE ring.head + i - Size
      /\ SlotOf(i - 1) = IF ring.head + i - 1 < Size THEN ring.head + i - 1
                         ELSE ring.head + i - 1 - Size
  BY <1>1, SlotIs DEF Places
<1> DEFINE x == SlotOf(i) - 1
<1>3. CASE SlotOf(i) = 0
  <2>1. x = -1 /\ SlotOf(i - 1) = Size - 1
    BY <1>1, <1>2, <1>3
  <2>2. (-1) % Size = Size - 1
    BY <1>1
  <2> QED BY <2>1, <2>2
<1>4. CASE SlotOf(i) # 0
  <2>1. x \in 0 .. Size - 1 /\ SlotOf(i - 1) = x
    BY <1>1, <1>2, <1>4
  <2>2. x % Size = x
    <3> HIDE DEF x
    <3> QED BY <1>1, <2>1
  <2> QED BY <2>1, <2>2
<1> QED BY <1>3, <1>4

-----------------------------------------------------------------------------
(* A message is inserted.                                                  *)

\* A set of natural numbers has a least element.
LEMMA LeastIn ==
    ASSUME NEW B \in SUBSET Nat, B # {}
    PROVE  \E i \in B : \A j \in B : i <= j
<1>1. \E i \in B : \A j \in B : ~(<<j, i>> \in OpToRel(<, Nat))
  BY NatLessThanWellFounded, WFMin
<1>2. PICK i \in B : \A j \in B : ~(<<j, i>> \in OpToRel(<, Nat))
  BY <1>1
<1>3. \A j \in B : ~(j < i)
  BY <1>2 DEF OpToRel
<1> QED BY <1>3

\* mq_send_common, lines 174 to 182: behind all messages that are as urgent,
\* before all that are less urgent.
LEMMA InsertPlaceIs ==
    ASSUME BufferType, RingInv, NEW item \in Item,
           setup.priorities \/ item.prio = 0
    PROVE  /\ InsertPlace(item) \in 0 .. ring.count
           /\ \A i \in 0 .. ring.count - 1 :
                 IF i < InsertPlace(item) THEN ring.slot[SlotOf(i)].prio >= item.prio
                 ELSE ring.slot[SlotOf(i)].prio < item.prio
<1> DEFINE lower == {i \in 0 .. ring.count - 1 : ring.slot[SlotOf(i)].prio < item.prio}
<1>1. /\ ring.count \in Nat /\ item.prio \in Nat
      /\ \A i \in 0 .. ring.count - 1 : ring.slot[SlotOf(i)].prio \in Nat
  BY RingFields DEF RingInv, Item
<1>2. CASE setup.priorities /\ item.prio # 0 /\ lower # {}
  <2> DEFINE place == CHOOSE i \in lower : \A j \in lower : i <= j
  <2>1. lower \in SUBSET Nat
    BY <1>1
  <2>2. \E i \in lower : \A j \in lower : i <= j
    BY <1>2, <2>1, LeastIn
  <2>3. place \in lower /\ \A j \in lower : place <= j
    BY <2>2
  <2>4. InsertPlace(item) = place
    BY <1>2 DEF InsertPlace
  <2> HIDE DEF place
  <2>5. place \in 0 .. ring.count - 1 /\ ring.slot[SlotOf(place)].prio < item.prio
    BY <2>3
  <2>6. ASSUME NEW i \in 0 .. ring.count - 1
        PROVE  IF i < place THEN ring.slot[SlotOf(i)].prio >= item.prio
               ELSE ring.slot[SlotOf(i)].prio < item.prio
    <3>1. CASE i < place
      <4>1. i \notin lower
        BY <1>1, <2>3, <2>5, <3>1
      <4> QED BY <1>1, <3>1, <4>1
    <3>2. CASE ~(i < place)
      <4>1. place \in 0 .. i
        BY <1>1, <2>5, <3>2
      <4>2. ring.slot[SlotOf(place)].prio >= ring.slot[SlotOf(i)].prio
        BY <4>1 DEF RingInv
      <4> QED BY <1>1, <2>5, <3>2, <4>2
    <3> QED BY <3>1, <3>2
  <2> QED BY <1>1, <2>4, <2>5, <2>6
<1>3. CASE ~(setup.priorities /\ item.prio # 0 /\ lower # {})
  <2>1. InsertPlace(item) = ring.count
    BY <1>3 DEF InsertPlace
  <2>2. item.prio = 0 \/ lower = {}
    BY <1>3
  <2>3. \A i \in 0 .. ring.count - 1 : i < ring.count /\ ring.slot[SlotOf(i)].prio >= item.prio
    BY <1>1, <2>2
  <2> QED BY <1>1, <2>1, <2>3
<1> QED BY <1>2, <1>3

\* A record of the ring with other slots, tail and count
RingWith(slot, head, tail, count) ==
    [live |-> ring.live, gen |-> ring.gen, slot |-> slot, head |-> head,
     tail |-> tail, count |-> count]

Retailed(a, b, c) == [ring EXCEPT !.slot = a, !.tail = b, !.count = c]
Reheaded(a, b, c) == [ring EXCEPT !.slot = a, !.head = b, !.count = c]

LEMMA RingUpdate ==
    ASSUME ring \in RingType, NEW a, NEW b, NEW c
    PROVE  /\ Retailed(a, b, c) = RingWith(a, ring.head, b, c)
           /\ Reheaded(a, b, c) = RingWith(a, b, ring.tail, c)
<1> DEFINE v1 == [ring EXCEPT !.slot = a]
           v2 == [v1 EXCEPT !.tail = b]
           v3 == [v1 EXCEPT !.head = b]
<1>1. v1 = RingWith(a, ring.head, ring.tail, ring.count)
  BY DEF RingWith, RingType
<1>2. HIDE DEF v1
<1>3. v2 = RingWith(a, ring.head, b, ring.count) /\ v3 = RingWith(a, b, ring.tail, ring.count)
  BY <1>1 DEF RingWith
<1>4. HIDE DEF v2, v3
<1>5. /\ [v2 EXCEPT !.count = c] = RingWith(a, ring.head, b, c)
      /\ [v3 EXCEPT !.count = c] = RingWith(a, b, ring.tail, c)
  BY <1>3 DEF RingWith
<1>6. /\ Retailed(a, b, c) = [v2 EXCEPT !.count = c]
      /\ Reheaded(a, b, c) = [v3 EXCEPT !.count = c]
  BY Zenon DEF v1, v2, v3, Retailed, Reheaded
<1> QED BY <1>5, <1>6

\* r is a ring whose count is n, and is the same object as the ring.
SameObject(r, n) == r \in RingType /\ r.live = ring.live /\ r.gen = ring.gen /\ r.count = n

\* Lines 183 to 203: the message is at its place, those behind it have moved.
LEMMA InsertedIs ==
    ASSUME BufferType, RingInv, ring.count < Size, NEW item \in Item,
           setup.priorities \/ item.prio = 0
    PROVE  /\ SameObject(Inserted(item), ring.count + 1)
           /\ Inserted(item).head = ring.head
           /\ \A i \in 0 .. ring.count :
                 Inserted(item).slot[SlotOf(i)] =
                    IF i < InsertPlace(item) THEN ring.slot[SlotOf(i)]
                    ELSE IF i = InsertPlace(item) THEN item ELSE ring.slot[SlotOf(i - 1)]
<1> DEFINE place == InsertPlace(item)
           shifted == {SlotOf(i) : i \in place + 1 .. ring.count}
           slot == [s \in Places |->
                      IF s = SlotOf(place) THEN item
                      ELSE IF s \in shifted THEN ring.slot[(s - 1) % Size] ELSE ring.slot[s]]
           tail == (SlotOf(place) + 1) % Size
           r == RingWith(slot, ring.head, tail, ring.count + 1)
<1>1. /\ Size \in Nat \ {0} /\ ring.count \in Nat /\ ring.count \in 0 .. Size
      /\ ring.slot \in [Places -> Item \union {NoItem}] /\ ring.head \in Places
  BY RingFields
<1>2. place \in 0 .. ring.count
  BY InsertPlaceIs
<1>3. Inserted(item) = r
  <2>1. Inserted(item) = Retailed(slot, tail, ring.count + 1)
    BY Zenon DEF Inserted, Retailed, Places
  <2> QED BY <2>1, RingUpdate DEF BufferType
<1> HIDE DEF place
<1>4. /\ place \in 0 .. Size /\ place \in Places
      /\ \A i \in 0 .. ring.count : i \in Places /\ i \in 0 .. Size
      /\ \A i \in place + 1 .. ring.count : i \in 1 .. Size - 1 /\ i \in Places /\ i - 1 \in Places
                                            /\ i - 1 \in 0 .. Size
  BY <1>1, <1>2 DEF Places
<1>5. SlotOf(place) \in Places /\ tail \in Places
  <2>1. SlotOf(place) \in Places
    BY <1>4, SlotIs
  <2>2. 1 \in 0 .. Size
    BY <1>1
  <2> QED BY <1>1, <2>1, <2>2, Wrapped
<1>6. \A i \in place + 1 .. ring.count : (SlotOf(i) - 1) % Size = SlotOf(i - 1)
                                          /\ SlotOf(i - 1) \in Places
  BY <1>4, SlotBefore, SlotIs
<1>7. \A s \in Places : slot[s] \in Item \union {NoItem}
  <2> SUFFICES ASSUME NEW s \in Places PROVE slot[s] \in Item \union {NoItem}
    OBVIOUS
  <2>1. CASE s = SlotOf(place)
    BY <2>1
  <2>2. CASE s # SlotOf(place) /\ s \in shifted
    <3>1. PICK i \in place + 1 .. ring.count : s = SlotOf(i)
      BY <2>2
    <3>2. slot[s] = ring.slot[(s - 1) % Size] /\ (s - 1) % Size \in Places
      BY <1>6, <2>2, <3>1
    <3> QED BY <1>1, <3>2
  <2>3. CASE s # SlotOf(place) /\ s \notin shifted
    BY <1>1, <2>3
  <2> QED BY <2>1, <2>2, <2>3
<1>8. slot \in [Places -> Item \union {NoItem}]
  <2> HIDE DEF shifted
  <2> QED BY <1>7
<1>9. ASSUME NEW i \in 0 .. ring.count
      PROVE  slot[SlotOf(i)] =
                IF i < place THEN ring.slot[SlotOf(i)]
                ELSE IF i = place THEN item ELSE ring.slot[SlotOf(i - 1)]
  <2>1. SlotOf(i) \in Places /\ i \in Places
    BY <1>4, SlotIs
  <2>2. CASE i < place
    <3>1. i # place /\ SlotOf(i) # SlotOf(place)
      BY <1>1, <1>2, <1>4, <2>1, <2>2, SlotsDiffer
    <3>2. SlotOf(i) \notin shifted
      BY <1>1, <1>2, <1>4, <2>1, <2>2, SlotsDiffer
    <3> QED BY <2>1, <2>2, <3>1, <3>2
  <2>3. CASE i = place
    BY <2>1, <2>3
  <2>4. CASE i > place
    <3>1. SlotOf(i) # SlotOf(place)
      BY <1>1, <1>2, <1>4, <2>1, <2>4, SlotsDiffer
    <3>2. i \in place + 1 .. ring.count
      BY <1>1, <1>2, <2>4
    <3>3. SlotOf(i) \in shifted /\ (SlotOf(i) - 1) % Size = SlotOf(i - 1)
      BY <1>6, <3>2
    <3>4. ~(i < place) /\ i # place
      BY <1>1, <1>2, <2>4
    <3> QED BY <2>1, <3>1, <3>3, <3>4
  <2> QED BY <1>1, <1>2, <2>2, <2>3, <2>4
<1> HIDE DEF slot, tail
<1>10. r \in RingType
  BY <1>1, <1>5, <1>8 DEF RingWith, RingType, BufferType
<1>11. r.slot = slot /\ r.head = ring.head /\ r.count = ring.count + 1
       /\ r.live = ring.live /\ r.gen = ring.gen
  BY DEF RingWith
<1> QED BY <1>3, <1>9, <1>10, <1>11 DEF place, SameObject

-----------------------------------------------------------------------------
(* Bytes are appended, and items are taken.                                *)

\* How many of the bytes there is room for
Room(data) == Min2(Len(data), Size - ring.count)

\* Where a place i is, seen from the tail, when c places are in use behind h
LEMMA FromTail ==
    ASSUME NEW m \in Nat, NEW h \in Nat, NEW c \in Nat, NEW i \in Nat, NEW n \in Nat,
           NEW s \in Nat, NEW tail \in Nat, h < m, i < m, c + n <= m, i < c + n,
           s = IF h + i < m THEN h + i ELSE h + i - m,
           tail = IF h + c < m THEN h + c ELSE h + c - m
    PROVE  /\ i < c => ~(s >= tail /\ s - tail < n) /\ ~(s + m - tail < n)
           /\ ~(i < c) /\ s >= tail => s - tail = i - c
           /\ ~(i < c) /\ ~(s >= tail) => s + m - tail = i - c
OBVIOUS

LEMMA AppendedIs ==
    ASSUME BufferType, RingInv, setup.type = "pipe", NEW data \in Seq(Item),
           Len(data) <= Size - ring.count
    PROVE  /\ SameObject(Appended(data), ring.count + Len(data))
           /\ Appended(data).head = ring.head
           /\ Appended(data).tail = (ring.tail + Len(data)) % Size
           /\ \A i \in 0 .. ring.count - 1 :
                 Appended(data).slot[SlotOf(i)] = ring.slot[SlotOf(i)]
           /\ \A i \in ring.count .. ring.count + Len(data) - 1 :
                 Appended(data).slot[SlotOf(i)] = data[i - ring.count + 1]
<1> DEFINE first == Size - ring.tail
           slot == [s \in Places |->
                      IF s >= ring.tail /\ s - ring.tail < Len(data)
                      THEN data[s - ring.tail + 1]
                      ELSE IF s + first < Len(data) THEN data[s + first + 1] ELSE ring.slot[s]]
           tail == (ring.tail + Len(data)) % Size
           r == RingWith(slot, ring.head, tail, ring.count + Len(data))
<1>1. /\ Size \in Nat \ {0} /\ ring.count \in Nat /\ ring.count <= Size
      /\ ring.slot \in [Places -> Item \union {NoItem}]
      /\ ring.head \in Nat /\ ring.head < Size /\ ring.tail \in Nat /\ ring.tail < Size
      /\ ring.head \in Places /\ ring.tail \in Places
  BY RingFields DEF Places
<1>2. /\ Len(data) \in Nat /\ Len(data) \in 0 .. Size
      /\ \A i \in 1 .. Len(data) : data[i] \in Item
  <2>1. Len(data) \in Nat /\ \A i \in 1 .. Len(data) : data[i] \in Item
    BY LenProperties, ElementOfSeq
  <2> QED BY <1>1, <2>1
<1>3. Appended(data) = r
  <2>1. Appended(data) = Retailed(slot, tail, ring.count + Len(data))
    BY Zenon DEF Appended, Retailed, Places
  <2> QED BY <2>1, RingUpdate DEF BufferType
<1>4. ring.tail = IF ring.head + ring.count < Size THEN ring.head + ring.count
                  ELSE ring.head + ring.count - Size
  <2>1. ring.count \in 0 .. Size
    BY <1>1
  <2> QED BY <2>1, SlotIs DEF RingInv
<1>5. tail \in Places
  BY <1>1, <1>2, Wrapped
<1>6. slot \in [Places -> Item \union {NoItem}]
  <2> SUFFICES ASSUME NEW s \in Places PROVE slot[s] \in Item \union {NoItem}
    OBVIOUS
  <2>1. s \in Nat /\ s < Size
    BY <1>1 DEF Places
  <2>2. s >= ring.tail /\ s - ring.tail < Len(data) => s - ring.tail + 1 \in 1 .. Len(data)
    BY <1>1, <1>2, <2>1
  <2>3. s + first < Len(data) => s + first + 1 \in 1 .. Len(data)
    BY <1>1, <1>2, <2>1
  <2> QED BY <1>1, <1>2, <2>2, <2>3
<1>7. ASSUME NEW i \in 0 .. ring.count + Len(data) - 1
      PROVE  slot[SlotOf(i)] = IF i < ring.count THEN ring.slot[SlotOf(i)]
                               ELSE data[i - ring.count + 1]
  <2>1. /\ i \in Nat /\ i < Size /\ i \in 0 .. Size /\ i < ring.count + Len(data)
    BY <1>1, <1>2
  <2>2. /\ SlotOf(i) \in Places /\ SlotOf(i) \in Nat /\ SlotOf(i) < Size
        /\ SlotOf(i) = IF ring.head + i < Size THEN ring.head + i ELSE ring.head + i - Size
    <3>1. SlotOf(i) \in Places
          /\ SlotOf(i) = IF ring.head + i < Size THEN ring.head + i ELSE ring.head + i - Size
      BY <2>1, SlotIs
    <3> QED BY <1>1, <3>1 DEF Places
  <2> DEFINE s == SlotOf(i)
  <2>3. /\ i < ring.count => /\ ~(s >= ring.tail /\ s - ring.tail < Len(data))
                             /\ ~(s + Size - ring.tail < Len(data))
        /\ ~(i < ring.count) /\ s >= ring.tail => s - ring.tail = i - ring.count
        /\ ~(i < ring.count) /\ ~(s >= ring.tail) => s + Size - ring.tail = i - ring.count
    <3>1. ring.count + Len(data) <= Size
      BY <1>1, <1>2
    <3> DEFINE m == Size  h == ring.head  c == ring.count  n == Len(data)  tl == ring.tail
    <3>2. /\ m \in Nat /\ h \in Nat /\ c \in Nat /\ n \in Nat /\ tl \in Nat /\ s \in Nat
          /\ i \in Nat /\ h < m /\ i < m /\ c + n <= m /\ i < c + n
      BY <1>1, <1>2, <2>1, <2>2, <3>1
    <3>3. s = IF h + i < m THEN h + i ELSE h + i - m
      BY <2>2
    <3>4. tl = IF h + c < m THEN h + c ELSE h + c - m
      BY <1>4
    <3>5. /\ i < c => ~(s >= tl /\ s - tl < n) /\ ~(s + m - tl < n)
          /\ ~(i < c) /\ s >= tl => s - tl = i - c
          /\ ~(i < c) /\ ~(s >= tl) => s + m - tl = i - c
      <4> HIDE DEF s, m, h, c, n, tl
      <4> QED BY <3>2, <3>3, <3>4, FromTail
    <3> QED BY <3>5
  <2>4. s + Size - ring.tail = s + first
    BY <1>1, <2>2
  <2>5. i - ring.count < Len(data)
    BY <1>1, <1>2, <2>1
  <2>6. CASE i < ring.count
    BY <2>2, <2>3, <2>4, <2>6
  <2>7. CASE ~(i < ring.count) /\ s >= ring.tail
    BY <2>2, <2>3, <2>5, <2>7
  <2>8. CASE ~(i < ring.count) /\ ~(s >= ring.tail)
    BY <2>2, <2>3, <2>4, <2>5, <2>8
  <2> QED BY <2>6, <2>7, <2>8
<1> HIDE DEF slot, tail
<1>8. ring.count + Len(data) \in 0 .. Size
  BY <1>1, <1>2
<1>9. r \in RingType
  BY <1>1, <1>5, <1>6, <1>8 DEF RingWith, RingType, BufferType
<1>10. r.slot = slot /\ r.head = ring.head /\ r.count = ring.count + Len(data)
       /\ r.live = ring.live /\ r.gen = ring.gen /\ r.tail = tail
  BY DEF RingWith
<1>11. \A i \in 0 .. ring.count - 1 : i \in 0 .. ring.count + Len(data) - 1 /\ i < ring.count
  BY <1>1, <1>2
<1>12. \A i \in ring.count .. ring.count + Len(data) - 1 :
          i \in 0 .. ring.count + Len(data) - 1 /\ ~(i < ring.count)
  BY <1>1, <1>2
<1> QED BY <1>3, <1>7, <1>9, <1>10, <1>11, <1>12 DEF SameObject, tail

LEMMA RemovedIs ==
    ASSUME BufferType, NEW n \in 0 .. ring.count
    PROVE  /\ SameObject(Removed(n), ring.count - n)
           /\ Removed(n).head = SlotOf(n) /\ Removed(n).tail = ring.tail
           /\ \A i \in n .. ring.count - 1 :
                 Removed(n).slot[SlotOf(i)] = ring.slot[SlotOf(i)]
<1> DEFINE taken == {SlotOf(i) : i \in 0 .. n - 1}
           slot == [s \in Places |-> IF s \in taken THEN NoItem ELSE ring.slot[s]]
           r == RingWith(slot, SlotOf(n), ring.tail, ring.count - n)
<1>1. /\ Size \in Nat \ {0} /\ ring.count \in Nat /\ ring.count <= Size
      /\ n \in Nat /\ n <= ring.count /\ n \in 0 .. Size
      /\ ring.slot \in [Places -> Item \union {NoItem}]
      /\ ring.tail \in Places
  BY RingFields
<1>2. Removed(n) = r
  <2>1. Removed(n) = Reheaded(slot, SlotOf(n), ring.count - n)
    BY Zenon DEF Removed, Reheaded, Places, SlotOf
  <2> QED BY <2>1, RingUpdate DEF BufferType
<1>3. slot \in [Places -> Item \union {NoItem}]
  BY <1>1
<1>4. SlotOf(n) \in Places /\ ring.count - n \in 0 .. Size
  BY <1>1, SlotIs
<1>5. ASSUME NEW i \in n .. ring.count - 1
      PROVE  slot[SlotOf(i)] = ring.slot[SlotOf(i)]
  <2>1. i \in Places /\ i \in 0 .. Size /\ \A j \in 0 .. n - 1 : j \in Places /\ j # i
    BY <1>1 DEF Places
  <2>2. SlotOf(i) \notin taken /\ SlotOf(i) \in Places
    BY <2>1, SlotsDiffer, SlotIs
  <2> QED BY <2>2
<1> HIDE DEF slot
<1>6. r \in RingType
  BY <1>1, <1>3, <1>4 DEF RingWith, RingType, BufferType
<1>7. r.slot = slot /\ r.head = SlotOf(n) /\ r.count = ring.count - n
       /\ r.live = ring.live /\ r.gen = ring.gen /\ r.tail = ring.tail
  BY DEF RingWith
<1> QED BY <1>2, <1>5, <1>6, <1>7 DEF SameObject

-----------------------------------------------------------------------------
(* The ring as a sequence.                                                 *)

LEMMA InsertedSeq ==
    ASSUME NEW s \in Seq(Item), NEW t \in Seq(Item), NEW i \in 1 .. Len(s) + 1,
           Len(t) = Len(s) + 1,
           \A j \in 1 .. Len(t) : j # i => t[j] = IF j < i THEN s[j] ELSE s[j - 1]
    PROVE  t = InsertAt(s, i, t[i])
<1> DEFINE a == SubSeq(s, 1, i - 1)
           b == <<t[i]>>
           c == SubSeq(s, i, Len(s))
<1>1. /\ Len(s) \in Nat /\ i \in Nat /\ i >= 1 /\ i <= Len(s) + 1
      /\ \A j \in 1 .. Len(s) : s[j] \in Item
      /\ t[i] \in Item
  BY LenProperties, ElementOfSeq
<1>2. a \in Seq(Item) /\ Len(a) = i - 1 /\ \A j \in 1 .. i - 1 : a[j] = s[j]
  <2>1. /\ a \in Seq(Item) /\ Len(a) = IF 1 <= i - 1 THEN i - 1 - 1 + 1 ELSE 0
        /\ \A j \in 1 .. i - 1 - 1 + 1 : a[j] = s[1 + j - 1]
    <3>1. 1 \in Int /\ i - 1 \in Int /\ \A j \in 1 .. i - 1 : s[j] \in Item
      BY <1>1
    <3> QED BY <3>1, SubSeqProperties
  <2> QED BY <1>1, <2>1
<1>3. c \in Seq(Item) /\ Len(c) = Len(s) - i + 1
      /\ \A j \in 1 .. Len(s) - i + 1 : c[j] = s[i + j - 1]
  <2>1. /\ c \in Seq(Item) /\ Len(c) = IF i <= Len(s) THEN Len(s) - i + 1 ELSE 0
        /\ \A j \in 1 .. Len(s) - i + 1 : c[j] = s[i + j - 1]
    <3>1. i \in Int /\ Len(s) \in Int /\ \A j \in i .. Len(s) : s[j] \in Item
      BY <1>1
    <3> QED BY <3>1, SubSeqProperties
  <2> QED BY <1>1, <2>1
<1>4. b \in Seq(Item) /\ Len(b) = 1 /\ b[1] = t[i]
  BY <1>1
<1> HIDE DEF a, b, c
<1>5. a \o b \in Seq(Item) /\ Len(a \o b) = i
      /\ \A j \in 1 .. i : (a \o b)[j] = IF j <= i - 1 THEN a[j] ELSE b[j - (i - 1)]
  <2>1. /\ a \o b \in Seq(Item) /\ Len(a \o b) = Len(a) + Len(b)
        /\ \A j \in 1 .. Len(a) + Len(b) :
              (a \o b)[j] = IF j <= Len(a) THEN a[j] ELSE b[j - Len(a)]
    BY <1>2, <1>4, ConcatProperties
  <2>2. Len(a) = i - 1 /\ Len(a) + Len(b) = i
    BY <1>1, <1>2, <1>4
  <2> QED BY <2>1, <2>2
<1> DEFINE d == a \o b
<1> HIDE DEF d
<1>0. d \in Seq(Item) /\ Len(d) = i
      /\ \A j \in 1 .. i : d[j] = IF j <= i - 1 THEN a[j] ELSE b[j - (i - 1)]
  BY <1>5 DEF d
<1>6. /\ d \o c \in Seq(Item) /\ Len(d \o c) = Len(s) + 1
      /\ \A j \in 1 .. Len(s) + 1 : (d \o c)[j] =
            IF j <= i THEN d[j] ELSE c[j - i]
  <2>1. /\ d \o c \in Seq(Item) /\ Len(d \o c) = Len(d) + Len(c)
        /\ \A j \in 1 .. Len(d) + Len(c) :
              (d \o c)[j] =
                 IF j <= Len(d) THEN d[j] ELSE c[j - Len(d)]
    BY <1>0, <1>3, ConcatProperties
  <2>2. Len(d) = i /\ Len(d) + Len(c) = Len(s) + 1
    BY <1>0, <1>1, <1>3
  <2> QED BY <2>1, <2>2
<1>7. ASSUME NEW j \in 1 .. Len(t) PROVE t[j] = (d \o c)[j]
  <2>1. CASE j < i
    <3>1. j \in 1 .. i /\ j <= i - 1 /\ j <= i /\ j \in 1 .. i - 1 /\ j \in 1 .. Len(s) + 1
      BY <1>1, <2>1
    <3>2. t[j] = s[j] /\ (d \o c)[j] = d[j] /\ d[j] = a[j] /\ a[j] = s[j]
      <4>1. t[j] = s[j]
        BY <1>1, <2>1, <3>1
      <4>2. (d \o c)[j] = d[j]
        BY <1>6, <3>1
      <4>3. d[j] = a[j]
        BY <1>0, <3>1
      <4>4. a[j] = s[j]
        BY <1>2, <3>1
      <4> QED BY <4>1, <4>2, <4>3, <4>4
    <3> QED BY <3>2
  <2>2. CASE j = i
    <3>1. /\ j \in 1 .. i /\ ~(j <= i - 1) /\ j <= i /\ j - (i - 1) = 1
          /\ j \in 1 .. Len(s) + 1
      BY <1>1, <2>2
    <3> QED BY <1>4, <1>0, <1>6, <2>2, <3>1
  <2>3. CASE j > i
    <3>1. /\ ~(j <= i) /\ j - i \in 1 .. Len(s) - i + 1 /\ i + (j - i) - 1 = j - 1
          /\ j # i /\ ~(j < i) /\ j \in 1 .. Len(s) + 1
      BY <1>1, <2>3
    <3>2. c[j - i] = s[j - 1]
      BY <1>3, <3>1
    <3>3. t[j] = s[j - 1]
      BY <3>1
    <3>4. (d \o c)[j] = c[j - i]
      BY <1>6, <3>1
    <3> QED BY <3>2, <3>3, <3>4, Zenon
  <2>4. j < i \/ j = i \/ j > i
    BY <1>1
  <2> QED BY <2>1, <2>2, <2>3, <2>4, Zenon
<1>8. t = d \o c
  BY <1>6, <1>7, SeqEqual
<1> QED BY <1>8 DEF InsertAt, a, b, c, d

LEMMA PrefixSeq ==
    ASSUME NEW S, NEW s \in Seq(S), NEW t \in Seq(S), Len(s) <= Len(t),
           \A j \in 1 .. Len(s) : s[j] = t[j]
    PROVE  IsPrefix(s, t)
<1>1. Len(s) \in Nat /\ Len(t) \in Nat /\ \A j \in 1 .. Len(t) : t[j] \in S
  BY LenProperties, ElementOfSeq
<1>2. /\ SubSeq(t, 1, Len(s)) \in Seq(S) /\ Len(SubSeq(t, 1, Len(s))) = Len(s)
      /\ \A j \in 1 .. Len(s) : SubSeq(t, 1, Len(s))[j] = t[j]
  <2>1. 1 \in Int /\ Len(s) \in Int /\ \A j \in 1 .. Len(s) : t[j] \in S
    BY <1>1
  <2>2. /\ SubSeq(t, 1, Len(s)) \in Seq(S)
        /\ Len(SubSeq(t, 1, Len(s))) = IF 1 <= Len(s) THEN Len(s) - 1 + 1 ELSE 0
        /\ \A j \in 1 .. Len(s) - 1 + 1 : SubSeq(t, 1, Len(s))[j] = t[1 + j - 1]
    BY <2>1, SubSeqProperties
  <2> QED BY <1>1, <2>2
<1>3. SubSeq(s, 1, Len(s)) = s
  BY SubSeqFull
<1>4. s = SubSeq(t, 1, Len(s))
  BY <1>2, SeqEqual
<1> QED BY <1>3, <1>4 DEF IsPrefix

LEMMA SuffixSeq ==
    ASSUME NEW S, NEW s \in Seq(S), NEW t \in Seq(S), Len(s) <= Len(t),
           \A j \in 1 .. Len(s) : s[j] = t[Len(t) - Len(s) + j]
    PROVE  IsSuffix(s, t)
<1>1. /\ Len(s) \in Nat /\ Len(t) \in Nat
      /\ \A j \in 1 .. Len(s) : s[j] \in S
      /\ \A j \in 1 .. Len(t) : t[j] \in S
  BY LenProperties, ElementOfSeq
<1>2. Reverse(s) \in Seq(S) /\ Len(Reverse(s)) = Len(s)
      /\ \A j \in 1 .. Len(s) : Reverse(s)[j] = s[Len(s) - j + 1]
  BY <1>1 DEF Reverse
<1>3. Reverse(t) \in Seq(S) /\ Len(Reverse(t)) = Len(t)
      /\ \A j \in 1 .. Len(t) : Reverse(t)[j] = t[Len(t) - j + 1]
  BY <1>1 DEF Reverse
<1>4. ASSUME NEW j \in 1 .. Len(s) PROVE Reverse(s)[j] = Reverse(t)[j]
  <2>1. /\ Len(s) - j + 1 \in 1 .. Len(s) /\ j \in 1 .. Len(t)
        /\ Len(t) - Len(s) + (Len(s) - j + 1) = Len(t) - j + 1
    BY <1>1
  <2> QED BY <1>2, <1>3, <2>1
<1> HIDE DEF Reverse
<1>5. IsPrefix(Reverse(s), Reverse(t))
  BY <1>2, <1>3, <1>4, PrefixSeq
<1> QED BY <1>5 DEF IsSuffix

-----------------------------------------------------------------------------
(* One step of the ring is a step of the bounded sequence.                 *)

LEMMA ContentIs ==
    ASSUME BufferType, RingInv
    PROVE  /\ Content \in Seq(Item) /\ Len(Content) = ring.count
           /\ \A i \in 1 .. ring.count : Content[i] = ring.slot[SlotOf(i - 1)]
<1>1. ring.count \in Nat
  BY RingFields
<1>2. ASSUME NEW i \in 1 .. ring.count PROVE ring.slot[SlotOf(i - 1)] \in Item
  <2>1. i - 1 \in 0 .. ring.count - 1
    BY <1>1
  <2> QED BY <2>1 DEF RingInv
<1> QED BY <1>1, <1>2 DEF Content

\* What a step makes of the ring of an object of the same kind.
RingOf(r) ==
    /\ setup' = setup /\ ring' = r

\* The step is one of the bounded sequence, or leaves it as it is.
RingStep ==
    /\ ring' \in RingType /\ RingInv'
    /\ [Ring!Next /\ UNCHANGED Size]_<<Content, Size>>

LEMMA SlotBehind ==
    ASSUME BufferType, NEW n \in 0 .. Size, NEW i \in 0 .. Size, n + i <= Size
    PROVE  (SlotOf(n) + i) % Size = SlotOf(n + i)
<1>1. /\ Size \in Nat \ {0} /\ ring.head \in Nat /\ ring.head < Size
      /\ n \in Nat /\ i \in Nat /\ n + i \in 0 .. Size
  BY RingFields DEF Places
<1>2. /\ SlotOf(n) \in Places
      /\ SlotOf(n) = IF ring.head + n < Size THEN ring.head + n ELSE ring.head + n - Size
  BY SlotIs
<1>3. SlotOf(n + i) = IF ring.head + (n + i) < Size THEN ring.head + (n + i)
                      ELSE ring.head + (n + i) - Size
  BY <1>1, SlotIs
<1>4. (SlotOf(n) + i) % Size = IF SlotOf(n) + i < Size THEN SlotOf(n) + i
                               ELSE SlotOf(n) + i - Size
  BY <1>1, <1>2, Wrapped
<1>5. SlotOf(n) \in Nat
  BY <1>1, <1>2 DEF Places
<1> HIDE DEF SlotOf, Size
<1> QED BY <1>1, <1>2, <1>3, <1>4, <1>5

\* The contents after a step, when the ring after it is known.
LEMMA NextContent ==
    ASSUME BufferType, setup' = setup, ring' \in RingType, RingInv',
           NEW n \in 0 .. Size, ring'.head = SlotOf(n), n + ring'.count <= Size
    PROVE  /\ Content' \in Seq(Item) /\ Len(Content') = ring'.count
           /\ \A i \in 1 .. ring'.count : Content'[i] = ring'.slot[SlotOf(n + (i - 1))]
<1>1. /\ Size \in Nat \ {0} /\ Size' = Size /\ n \in Nat
      /\ ring'.count \in Nat /\ ring'.count <= Size
  BY RingFields DEF RingType, Size
<1>2. ASSUME NEW i \in 0 .. ring'.count
      PROVE  SlotOf(i)' = SlotOf(n + i)
  <2>1. i \in 0 .. Size /\ n + i <= Size
    BY <1>1
  <2>2. SlotOf(i)' = (SlotOf(n) + i) % Size
    BY <1>1 DEF SlotOf
  <2> QED BY <2>1, <2>2, SlotBehind
<1> DEFINE at(i) == ring'.slot[(ring'.head + (i - 1)) % Size']
<1>3. ASSUME NEW i \in 1 .. ring'.count
      PROVE  at(i) = ring'.slot[SlotOf(n + (i - 1))] /\ at(i) \in Item
  <2>1. i - 1 \in 0 .. ring'.count /\ i - 1 \in 0 .. ring'.count - 1
    BY <1>1
  <2>2. ring'.slot[SlotOf(i - 1)'] \in Item
    BY <2>1 DEF RingInv
  <2>3. SlotOf(i - 1)' = SlotOf(n + (i - 1))
    BY <1>2, <2>1
  <2>4. SlotOf(i - 1)' = (ring'.head + (i - 1)) % Size'
    BY DEF SlotOf, Size
  <2> QED BY <2>2, <2>3, <2>4
<1>4. Content' = [i \in 1 .. ring'.count |-> at(i)]
  BY DEF Content, SlotOf, Size
<1> HIDE DEF at
<1>5. Content' \in Seq(Item) /\ Len(Content') = ring'.count
  BY <1>1, <1>3, <1>4
<1> QED BY <1>3, <1>4, <1>5

LEMMA RingKept ==
    ASSUME BufferType, setup' = setup, ring' \in RingType,
           NEW n \in 0 .. Size, ring'.head = SlotOf(n), n + ring'.count <= Size,
           setup.type = "pipe" => ring'.tail = SlotOf(n + ring'.count),
           \A i \in 0 .. ring'.count - 1 :
              /\ ring'.slot[SlotOf(n + i)] \in Item
              /\ ~setup.priorities => ring'.slot[SlotOf(n + i)].prio = 0
              /\ \A j \in 0 .. i :
                    ring'.slot[SlotOf(n + j)].prio >= ring'.slot[SlotOf(n + i)].prio
    PROVE  RingInv'
<1>1. /\ Size \in Nat \ {0} /\ Size' = Size /\ n \in Nat
      /\ ring'.count \in Nat /\ ring'.count <= Size
  BY RingFields DEF RingType, Size
<1> DEFINE at(i) == (ring'.head + i) % setup'.size
<1>2. ASSUME NEW i \in 0 .. ring'.count PROVE at(i) = SlotOf(n + i)
  <2>1. i \in 0 .. Size /\ n + i <= Size
    BY <1>1
  <2>2. (SlotOf(n) + i) % Size = SlotOf(n + i)
    BY <2>1, SlotBehind
  <2> QED BY <1>1, <2>2 DEF Size
<1>3. setup.type = "pipe" => ring'.tail = at(ring'.count)
  BY <1>1, <1>2
<1>4. ASSUME NEW i \in 0 .. ring'.count - 1
      PROVE  /\ ring'.slot[at(i)] \in Item
             /\ ~setup.priorities => ring'.slot[at(i)].prio = 0
             /\ \A j \in 0 .. i : ring'.slot[at(j)].prio >= ring'.slot[at(i)].prio
  <2>1. /\ i \in 0 .. ring'.count
        /\ \A j \in 0 .. i : j \in 0 .. ring'.count
    BY <1>1
  <2>2. at(i) = SlotOf(n + i) /\ \A j \in 0 .. i : at(j) = SlotOf(n + j)
    BY <1>2, <2>1
  <2> HIDE DEF at
  <2> QED BY <2>2
<1> QED BY <1>3, <1>4 DEF RingInv, SlotOf, Size

\* Taking any number of items from the front is a step of the sequence.
LEMMA TakeStep ==
    ASSUME NEW s \in Seq(Item), NEW t \in Seq(Item), Len(t) <= Len(s),
           \A j \in 1 .. Len(t) : t[j] = s[Len(s) - Len(t) + j]
    PROVE  s = t \/ (s # <<>> /\ IsSuffix(t, s))
<1>1. IsSuffix(t, s)
  BY SuffixSeq
<1>2. CASE s = <<>>
  <2>1. Len(t) = 0
    BY <1>2, LenProperties
  <2> QED BY <1>2, <2>1, EmptySeq
<1> QED BY <1>1, <1>2

LEMMA EmptiedStep ==
    ASSUME BufferType, RingInv, setup' = setup,
           NEW live \in BOOLEAN, NEW gen \in Nat, ring' = EmptyRing(live, gen)
    PROVE  RingStep
<1>1. /\ Size \in Nat \ {0} /\ ring.head \in Places /\ ring.count \in Nat
      /\ 0 \in Places /\ 0 \in 0 .. Size
  BY RingFields DEF Places
<1>2. ring' \in RingType' /\ RingType' = RingType /\ ring'.count = 0 /\ ring'.tail = 0
      /\ ring'.head = 0
  BY <1>1 DEF RingType, EmptyRing, Places, Size
<1>3. RingInv'
  <2>1. (0 + 0) % setup.size = 0
    BY <1>1 DEF Size
  <2> QED BY <1>2, <2>1 DEF RingInv, SlotOf, Size
<1>4. Content \in Seq(Item) /\ Content' = <<>> /\ Size' = Size
  <2>1. Content' \in Seq({}) /\ Len(Content') = 0
    BY <1>2 DEF Content
  <2> QED BY <2>1, ContentIs, EmptySeq DEF Size
<1>5. Content = Content' \/ (Content # <<>> /\ IsSuffix(Content', Content))
  <2>1. <<>> \in Seq(Item) /\ Len(<<>>) = 0 /\ Len(Content) \in Nat
    BY <1>4
  <2>2. /\ Len(<<>>) <= Len(Content)
        /\ \A j \in 1 .. Len(<<>>) : <<>>[j] = Content[Len(Content) - Len(<<>>) + j]
    BY <2>1
  <2>3. Content = <<>> \/ (Content # <<>> /\ IsSuffix(<<>>, Content))
    BY <1>4, <2>1, <2>2, TakeStep
  <2> QED BY <1>4, <2>3
<1> QED BY <1>2, <1>3, <1>4, <1>5 DEF RingStep, Ring!Next, Ring!Take, Ring!IsSuffix,
        Ring!IsPrefix, Ring!Reverse, IsSuffix, IsPrefix, Reverse

LEMMA RemovedStep ==
    ASSUME BufferType, RingInv, setup' = setup,
           NEW n \in 0 .. ring.count, ring' = Removed(n)
    PROVE  RingStep
<1>1. /\ Size \in Nat \ {0} /\ ring.count \in Nat /\ ring.count <= Size
      /\ n \in Nat /\ n <= ring.count /\ n \in 0 .. Size
  BY RingFields
<1>2. /\ ring' \in RingType /\ ring'.count = ring.count - n
      /\ ring'.head = SlotOf(n) /\ ring'.tail = ring.tail
      /\ n + ring'.count = ring.count /\ n + ring'.count <= Size
      /\ \A i \in n .. ring.count - 1 : ring'.slot[SlotOf(i)] = ring.slot[SlotOf(i)]
  BY <1>1, RemovedIs DEF SameObject
<1>3. RingInv'
  <2>1. setup.type = "pipe" => ring'.tail = SlotOf(n + ring'.count)
    BY <1>2 DEF RingInv
  <2>2. ASSUME NEW i \in 0 .. ring'.count - 1
        PROVE  /\ ring'.slot[SlotOf(n + i)] \in Item
               /\ ~setup.priorities => ring'.slot[SlotOf(n + i)].prio = 0
               /\ \A j \in 0 .. i :
                     ring'.slot[SlotOf(n + j)].prio >= ring'.slot[SlotOf(n + i)].prio
    <3>1. /\ n + i \in n .. ring.count - 1 /\ n + i \in 0 .. ring.count - 1
          /\ \A j \in 0 .. i : n + j \in n .. ring.count - 1 /\ n + j \in 0 .. n + i
      BY <1>1, <1>2
    <3>2. /\ ring'.slot[SlotOf(n + i)] = ring.slot[SlotOf(n + i)]
          /\ \A j \in 0 .. i : ring'.slot[SlotOf(n + j)] = ring.slot[SlotOf(n + j)]
      BY <1>2, <3>1
    <3>3. /\ ring.slot[SlotOf(n + i)] \in Item
          /\ ~setup.priorities => ring.slot[SlotOf(n + i)].prio = 0
          /\ \A k \in 0 .. n + i :
                ring.slot[SlotOf(k)].prio >= ring.slot[SlotOf(n + i)].prio
      BY <3>1 DEF RingInv
    <3> QED BY <3>1, <3>2, <3>3
  <2> QED BY <1>1, <1>2, <2>1, <2>2, RingKept
<1>4. /\ Content \in Seq(Item) /\ Len(Content) = ring.count
      /\ \A i \in 1 .. ring.count : Content[i] = ring.slot[SlotOf(i - 1)]
  BY ContentIs
<1>5. /\ Content' \in Seq(Item) /\ Len(Content') = ring'.count
      /\ \A i \in 1 .. ring'.count : Content'[i] = ring'.slot[SlotOf(n + (i - 1))]
  BY <1>1, <1>2, <1>3, NextContent
<1>6. Content = Content' \/ (Content # <<>> /\ IsSuffix(Content', Content))
  <2>1. ASSUME NEW j \in 1 .. Len(Content')
        PROVE  Content'[j] = Content[Len(Content) - Len(Content') + j]
    <3>0. j \in 1 .. ring'.count
      BY <1>5, Zenon
    <3>1. /\ n + (j - 1) \in n .. ring.count - 1
          /\ ring.count - ring'.count + j = n + j
          /\ n + j \in 1 .. ring.count /\ n + j - 1 = n + (j - 1)
      BY <1>1, <1>2, <3>0
    <3>2. Content'[j] = ring.slot[SlotOf(n + (j - 1))]
      BY <1>2, <1>5, <3>0, <3>1
    <3>3. Content[n + j] = ring.slot[SlotOf(n + j - 1)]
      BY <1>4, <3>1
    <3> QED BY <1>4, <1>5, <3>1, <3>2, <3>3, Zenon
  <2>2. Len(Content') <= Len(Content)
    BY <1>1, <1>2, <1>4, <1>5
  <2> QED BY <1>4, <1>5, <2>1, <2>2, TakeStep
<1> QED BY <1>2, <1>3, <1>6 DEF RingStep, Ring!Next, Ring!Take, Ring!IsSuffix,
        Ring!IsPrefix, Ring!Reverse, IsSuffix, IsPrefix, Reverse, Size

LEMMA InsertedStep ==
    ASSUME BufferType, RingInv, setup' = setup, setup.type = "mq", ring.count < Size,
           NEW item \in Item, setup.priorities \/ item.prio = 0, ring' = Inserted(item)
    PROVE  RingStep
<1> DEFINE p == InsertPlace(item)
           old(i) == ring.slot[SlotOf(i)]
           new(i) == ring'.slot[SlotOf(i)]
<1>1. /\ Size \in Nat \ {0} /\ ring.count \in Nat /\ ring.count < Size
      /\ ring.head \in Places /\ 0 \in 0 .. Size /\ item.prio \in Nat
      /\ p \in 0 .. ring.count /\ p \in Nat
  BY RingFields, InsertPlaceIs DEF Item
<1>2. /\ ring' \in RingType /\ ring'.count = ring.count + 1
      /\ ring'.head = SlotOf(0) /\ 0 + ring'.count <= Size
      /\ \A i \in 0 .. ring.count :
            new(i) = IF i < p THEN old(i) ELSE IF i = p THEN item ELSE old(i - 1)
  <2>1. SlotOf(0) = ring.head
    BY <1>1, SlotIs DEF Places
  <2> QED BY <1>1, <2>1, InsertedIs DEF SameObject
<1>3. \A i \in 0 .. ring.count - 1 :
         /\ old(i) \in Item /\ old(i).prio \in Nat
         /\ ~setup.priorities => old(i).prio = 0
         /\ \A j \in 0 .. i : old(j).prio >= old(i).prio
         /\ IF i < p THEN old(i).prio >= item.prio ELSE old(i).prio < item.prio
  BY InsertPlaceIs DEF RingInv, Item
<1> HIDE DEF p, old, new
<1>4. \A i \in 0 .. ring.count :
         /\ new(i) \in Item
         /\ ~setup.priorities => new(i).prio = 0
         /\ \A j \in 0 .. i : new(j).prio >= new(i).prio
  <2> TAKE i \in 0 .. ring.count
  <2>1. new(i) \in Item /\ (~setup.priorities => new(i).prio = 0)
    <3>1. CASE i < p
      BY <1>1, <1>2, <1>3, <3>1
    <3>2. CASE i = p
      BY <1>1, <1>2, <3>2
    <3>3. CASE i > p
      BY <1>1, <1>2, <1>3, <3>3
    <3> QED BY <1>1, <3>1, <3>2, <3>3
  <2>2. ASSUME NEW j \in 0 .. i PROVE new(j).prio >= new(i).prio
    <3>1. CASE i < p
      BY <1>1, <1>2, <1>3, <3>1
    <3>2. CASE i = p /\ j < p
      <4>1. old(j).prio >= item.prio /\ new(j) = old(j) /\ new(i) = item
        BY <1>1, <1>2, <1>3, <3>2
      <4> QED BY <4>1
    <3>3. CASE i >= p /\ i = j
      BY <1>1, <1>2, <1>3, <3>3
    <3>4. CASE i > p /\ j < p
      BY <1>1, <1>2, <1>3, <3>4
    <3>5. CASE i > p /\ j = p
      <4>1. i - 1 \in 0 .. ring.count - 1 /\ ~(i - 1 < p) /\ ~(i < p) /\ i # p
        BY <1>1, <3>5
      <4>2. new(j) = item /\ new(i) = old(i - 1)
        BY <1>1, <1>2, <3>5, <4>1
      <4>3. old(i - 1).prio < item.prio /\ old(i - 1).prio \in Nat
        BY <1>3, <4>1
      <4> QED BY <1>1, <4>2, <4>3
    <3>6. CASE i > p /\ j > p
      BY <1>1, <1>2, <1>3, <3>6
    <3> QED BY <1>1, <3>1, <3>2, <3>3, <3>4, <3>5, <3>6
  <2> QED BY <2>1, <2>2
<1>5. RingInv'
  <2>1. ASSUME NEW i \in 0 .. ring'.count - 1
        PROVE  /\ ring'.slot[SlotOf(0 + i)] \in Item
               /\ ~setup.priorities => ring'.slot[SlotOf(0 + i)].prio = 0
               /\ \A j \in 0 .. i :
                     ring'.slot[SlotOf(0 + j)].prio >= ring'.slot[SlotOf(0 + i)].prio
    <3>1. i \in 0 .. ring.count /\ 0 + i = i /\ \A j \in 0 .. i : 0 + j = j
      BY <1>1, <1>2
    <3> QED BY <1>4, <3>1 DEF new
  <2> QED BY <1>1, <1>2, <2>1, RingKept
<1>6. /\ Content \in Seq(Item) /\ Len(Content) = ring.count
      /\ \A i \in 1 .. ring.count : Content[i] = old(i - 1)
  BY ContentIs DEF old
<1>7. /\ Content' \in Seq(Item) /\ Len(Content') = ring.count + 1
      /\ \A i \in 1 .. ring.count + 1 : Content'[i] = new(i - 1)
  <2>1. /\ Content' \in Seq(Item) /\ Len(Content') = ring'.count
        /\ \A i \in 1 .. ring'.count : Content'[i] = ring'.slot[SlotOf(0 + (i - 1))]
    BY <1>1, <1>2, <1>5, NextContent
  <2>2. \A i \in 1 .. ring.count + 1 : 0 + (i - 1) = i - 1
    BY <1>1
  <2> QED BY <1>2, <2>1, <2>2 DEF new
<1>8. Content'[p + 1] = item
  <2>1. p + 1 \in 1 .. ring.count + 1 /\ p + 1 - 1 = p /\ ~(p < p)
    BY <1>1
  <2> QED BY <1>1, <1>2, <1>7, <2>1
<1>9. Content' = InsertAt(Content, p + 1, Content'[p + 1])
  <2>1. ASSUME NEW j \in 1 .. ring.count + 1, j # p + 1
        PROVE  Content'[j] = IF j < p + 1 THEN Content[j] ELSE Content[j - 1]
    <3>1. CASE j < p + 1
      <4>1. j - 1 < p /\ j - 1 \in 0 .. ring.count /\ j \in 1 .. ring.count
        BY <1>1, <3>1
      <4> QED BY <1>2, <1>6, <1>7, <3>1, <4>1
    <3>2. CASE ~(j < p + 1)
      <4>1. /\ ~(j - 1 < p) /\ j - 1 # p /\ j - 1 \in 0 .. ring.count
            /\ j - 1 \in 1 .. ring.count
        BY <1>1, <2>1, <3>2
      <4> QED BY <1>2, <1>6, <1>7, <3>2, <4>1
    <3> QED BY <3>1, <3>2
  <2>2. p + 1 \in 1 .. Len(Content) + 1 /\ Len(Content') = Len(Content) + 1
    BY <1>1, <1>6, <1>7
  <2>3. \A j \in 1 .. Len(Content') : j # p + 1 =>
            Content'[j] = IF j < p + 1 THEN Content[j] ELSE Content[j - 1]
    BY <1>7, <2>1
  <2> HIDE DEF new, old
  <2>4. Content \in Seq(Item) /\ Content' \in Seq(Item)
    BY <1>6, <1>7
  <2> QED BY <2>2, <2>3, <2>4, InsertedSeq
<1>10. /\ \A j \in 1 .. p : Content[j].prio >= item.prio
       /\ \A j \in p + 1 .. ring.count : Content[j].prio < item.prio
  <2>1. ASSUME NEW j \in 1 .. ring.count
        PROVE  /\ Content[j] = old(j - 1) /\ j - 1 \in 0 .. ring.count - 1
               /\ IF j - 1 < p THEN old(j - 1).prio >= item.prio
                  ELSE old(j - 1).prio < item.prio
    <3>1. j - 1 \in 0 .. ring.count - 1
      BY <1>1
    <3> QED BY <1>3, <1>6, <3>1
  <2>2. /\ \A j \in 1 .. p : j \in 1 .. ring.count /\ j - 1 < p
        /\ \A j \in p + 1 .. ring.count : j \in 1 .. ring.count /\ ~(j - 1 < p)
    BY <1>1
  <2> QED BY <2>1, <2>2
<1>11. PICK q : q = p + 1
  OBVIOUS
<1>12. Ring!Insert(q)
  <2>1. q - 1 = p /\ Len(Content') = Len(Content) + 1
    BY <1>1, <1>6, <1>7, <1>11
  <2>2. Content' = Ring!InsertAt(Content, q, Content'[q])
    BY <1>9, <1>11 DEF Ring!InsertAt, InsertAt
  <2>3. \A j \in 1 .. q - 1 : Content[j].prio >= Content'[q].prio
    BY <1>8, <1>10, <1>11, <2>1
  <2>4. \A j \in q .. Len(Content) : Content[j].prio < Content'[q].prio
    BY <1>6, <1>8, <1>10, <1>11
  <2> QED BY <2>1, <2>2, <2>3, <2>4 DEF Ring!Insert
<1>13. Ring!Put
  <2>1. q \in 1 .. Len(Content) + 1 /\ Len(Content') <= Size
    BY <1>1, <1>6, <1>7, <1>11
  <2> QED BY <1>12, <2>1 DEF Ring!Put
<1> QED BY <1>2, <1>5, <1>13 DEF RingStep, Ring!Next, Size

LEMMA AppendedStep ==
    ASSUME BufferType, RingInv, setup' = setup, setup.type = "pipe",
           NEW data \in Seq(Item), \A i \in 1 .. Len(data) : data[i].prio = 0,
           Len(data) <= Size - ring.count, ring' = Appended(data)
    PROVE  RingStep
<1> DEFINE old(i) == ring.slot[SlotOf(i)]
           new(i) == ring'.slot[SlotOf(i)]
           len == Len(data)
<1>1. /\ Size \in Nat \ {0} /\ ring.count \in Nat /\ ring.count <= Size
      /\ ring.head \in Places /\ 0 \in 0 .. Size /\ len \in Nat
      /\ ring.count + len <= Size /\ ring.count \in 0 .. Size /\ len \in 0 .. Size
      /\ ~setup.priorities
      /\ \A i \in 1 .. len : data[i] \in Item /\ data[i].prio = 0
  <2>1. ~setup.priorities
    BY SetupIs DEF BufferType, RingInv
  <2>2. len \in Nat /\ \A i \in 1 .. len : data[i] \in Item /\ data[i].prio = 0
    BY LenProperties, ElementOfSeq
  <2>3. /\ Size \in Nat \ {0} /\ ring.count \in Nat /\ ring.count <= Size
        /\ ring.head \in Places /\ len <= Size - ring.count
    BY RingFields
  <2> HIDE DEF len
  <2>4. ring.count + len <= Size /\ ring.count \in 0 .. Size /\ len \in 0 .. Size /\ 0 \in 0 .. Size
    <3> DEFINE c == ring.count
               s == Size
    <3>1. s \in Nat /\ c \in Nat /\ c <= s /\ len \in Nat /\ len <= s - c
      BY <2>2, <2>3
    <3> HIDE DEF c, s
    <3>2. c + len <= s /\ c \in 0 .. s /\ len \in 0 .. s /\ 0 \in 0 .. s
      BY <3>1
    <3> QED BY <3>2 DEF c, s
  <2> QED BY <2>1, <2>2, <2>3, <2>4
<1>2. /\ ring' \in RingType /\ ring'.count = ring.count + len
      /\ ring'.head = SlotOf(0) /\ 0 + ring'.count <= Size
      /\ ring'.tail = (ring.tail + len) % Size
      /\ \A i \in 0 .. ring.count - 1 : new(i) = old(i)
      /\ \A i \in ring.count .. ring.count + len - 1 : new(i) = data[i - ring.count + 1]
  <2>1. SlotOf(0) = ring.head
    <3> DEFINE first == ring.head
               size == Size
    <3>1. SlotOf(0) = IF first + 0 < size THEN first + 0 ELSE first + 0 - size
      BY <1>1, SlotIs
    <3>2. first \in 0 .. size - 1 /\ size \in Nat
      BY <1>1 DEF Places
    <3> HIDE DEF first, size
    <3>3. SlotOf(0) = first
      BY <3>1, <3>2
    <3> QED BY <3>3 DEF first
  <2> QED BY <1>1, <2>1, AppendedIs DEF SameObject
<1>3. \A i \in 0 .. ring.count - 1 : old(i) \in Item /\ old(i).prio = 0
  BY <1>1 DEF RingInv
<1> HIDE DEF old, new, len
<1>4. \A i \in 0 .. ring'.count - 1 : new(i) \in Item /\ new(i).prio = 0
  <2> TAKE i \in 0 .. ring'.count - 1
  <2>1. CASE i < ring.count
    <3>1. i \in 0 .. ring.count - 1
      BY <1>1, <1>2, <2>1
    <3> QED BY <1>2, <1>3, <3>1
  <2>2. CASE ~(i < ring.count)
    <3>1. i \in ring.count .. ring.count + len - 1 /\ i - ring.count + 1 \in 1 .. len
      BY <1>1, <1>2, <2>2
    <3> QED BY <1>1, <1>2, <3>1
  <2> QED BY <2>1, <2>2
<1>5. RingInv'
  <2>1. ASSUME NEW i \in 0 .. ring'.count - 1
        PROVE  /\ ring'.slot[SlotOf(0 + i)] \in Item
               /\ ~setup.priorities => ring'.slot[SlotOf(0 + i)].prio = 0
               /\ \A j \in 0 .. i :
                     ring'.slot[SlotOf(0 + j)].prio >= ring'.slot[SlotOf(0 + i)].prio
    <3>1. 0 + i = i /\ \A j \in 0 .. i : 0 + j = j /\ j \in 0 .. ring'.count - 1
      BY <1>1, <1>2
    <3>2. 0 >= 0
      OBVIOUS
    <3> QED BY <1>4, <3>1, <3>2 DEF new
  <2>2. ring'.tail = SlotOf(0 + ring'.count)
    <3>1. ring.tail = SlotOf(ring.count) /\ 0 + ring'.count = ring.count + len
      BY <1>1, <1>2 DEF RingInv
    <3> QED BY <1>1, <1>2, <3>1, SlotBehind
  <2> QED BY <1>1, <1>2, <2>1, <2>2, RingKept
<1>6. /\ Content \in Seq(Item) /\ Len(Content) = ring.count
      /\ \A i \in 1 .. ring.count : Content[i] = old(i - 1)
  BY ContentIs DEF old
<1>7. /\ Content' \in Seq(Item) /\ Len(Content') = ring'.count
      /\ \A i \in 1 .. ring'.count : Content'[i] = new(i - 1)
  <2>1. /\ Content' \in Seq(Item) /\ Len(Content') = ring'.count
        /\ \A i \in 1 .. ring'.count : Content'[i] = ring'.slot[SlotOf(0 + (i - 1))]
    BY <1>1, <1>2, <1>5, NextContent
  <2>2. \A i \in 1 .. ring'.count : 0 + (i - 1) = i - 1
    BY <1>1, <1>2
  <2> QED BY <2>1, <2>2 DEF new
<1>8. IsPrefix(Content, Content')
  <2>1. ASSUME NEW j \in 1 .. ring.count PROVE Content[j] = Content'[j]
    <3>1. j \in 1 .. ring'.count /\ j - 1 \in 0 .. ring.count - 1
      BY <1>1, <1>2
    <3> QED BY <1>2, <1>6, <1>7, <3>1
  <2>2. ring.count <= ring'.count
    BY <1>1, <1>2
  <2> QED BY <1>6, <1>7, <2>1, <2>2, PrefixSeq
<1>9. \A j \in ring.count + 1 .. ring'.count : Content'[j].prio = 0
  <2> TAKE j \in ring.count + 1 .. ring'.count
  <2>1. j \in 1 .. ring'.count /\ j - 1 \in 0 .. ring'.count - 1
    BY <1>1, <1>2
  <2> QED BY <1>4, <1>7, <2>1
<1>10. Ring!Put
  <2>1. Ring!PutMany
    BY <1>6, <1>7, <1>8, <1>9 DEF Ring!PutMany, Ring!IsPrefix, IsPrefix
  <2>2. Len(Content') <= Size
    BY <1>1, <1>2, <1>7
  <2> QED BY <2>1, <2>2 DEF Ring!Put
<1> QED BY <1>2, <1>5, <1>10 DEF RingStep, Ring!Next, Size

-----------------------------------------------------------------------------
(* The woken tasks and what there is for them.                             *)

Ops == {"send", "recv"}

LEMMA ListsDiffer ==
    /\ SendWait \in WaitLists /\ RecvWait \in WaitLists /\ SendWait # RecvWait
    /\ NoList \notin WaitLists /\ SendWait # NoList /\ RecvWait # NoList
    /\ \A op \in Ops : ListOf(op) \in Lists /\ ListOf(op) # NoList
    /\ \A op, other \in Ops : ListOf(op) = ListOf(other) => op = other
BY BuffersAssumption DEF Ops, ListOf, Lists

LEMMA ThereIs ==
    ASSUME BufferType, NEW op \in Ops
    PROVE  /\ There(op) \in Nat
           /\ Available(ring, ListOf(op)) <=> There(op) > 0
BY RingFields, ListsDiffer DEF There, Available, ListOf, Ops

LEMMA ComingIs ==
    ASSUME NEW op
    PROVE  IsFiniteSet(Coming(op)) /\ Cardinality(Coming(op)) \in Nat
<1>1. IsFiniteSet(Tasks) /\ Coming(op) \subseteq Tasks
  BY BuffersAssumption DEF Coming
<1> QED BY <1>1, FS_Subset, FS_CardinalityType

\* Available of the ring after a step.
StillThere(op) ==
    IF ListOf(op) = RecvWait THEN ring'.count > 0 ELSE ring'.count < setup'.size

LEMMA NextThere ==
    ASSUME BufferType', NEW op \in Ops
    PROVE  /\ There(op)' \in Nat
           /\ StillThere(op) <=> There(op)' > 0
<1>1. /\ setup'.size \in Nat \ {0} /\ ring'.count \in 0 .. setup'.size
  BY BuffersAssumption DEF BufferType, RingType, Size
<1>2. CASE op = "send"
  BY <1>1, <1>2, ListsDiffer DEF There, StillThere, ListOf, Size
<1>3. CASE op = "recv"
  BY <1>1, <1>3, ListsDiffer DEF There, StillThere, ListOf
<1> QED BY <1>2, <1>3 DEF Ops

LEMMA NextComing ==
    ASSUME NEW op
    PROVE  IsFiniteSet(Coming(op)') /\ Cardinality(Coming(op)') \in Nat
<1>1. IsFiniteSet(Tasks) /\ Coming(op)' \subseteq Tasks
  BY BuffersAssumption DEF Coming
<1> QED BY <1>1, FS_Subset, FS_CardinalityType

\* What has to be shown of a list after a step.  marks is what was left to
\* others up to this step.
LEMMA ToCover ==
    ASSUME BufferType', setup' = setup, NEW op \in Ops, NEW marks, left' = StillLeft(marks, w', ring'),
           /\ WaitersOf(w', ListOf(op)) # {} /\ ListOf(op) \notin marks
           /\ There(op)' > 0
           => Met(op)'
    PROVE  Covered(op)'
<1>1. There(op)' \in Nat /\ (StillThere(op) <=> There(op)' > 0)
  BY NextThere
<1>2. Cardinality(Coming(op)') \in Nat
  BY NextComing
<1>3. CASE There(op)' > 0
  <2>1. Available(ring', ListOf(op))
    BY <1>1, <1>3 DEF StillThere, Available, Size
  <2>2. ListOf(op) \in left' <=> ListOf(op) \in marks /\ WaitersOf(w', ListOf(op)) # {}
    BY <2>1 DEF StillLeft
  <2> QED BY <1>3, <2>2 DEF Covered
<1>4. CASE ~(There(op)' > 0)
  BY <1>1, <1>2, <1>4 DEF Covered, Met
<1> QED BY <1>3, <1>4

\* What a step may do to a list without waking anybody for it.
LEMMA Quiet ==
    ASSUME BufferType, BufferType', setup' = setup, NEW op \in Ops, Covered(op),
           NEW marks, left \subseteq marks, left' = StillLeft(marks, w', ring'),
           /\ WaitersOf(w', ListOf(op)) # {} /\ ListOf(op) \notin marks
           /\ There(op)' > 0
           => /\ WaitersOf(w', ListOf(op)) \subseteq WaitersOf(w, ListOf(op))
              /\ There(op)' <= There(op) /\ Coming(op) \subseteq Coming(op)'
    PROVE  Covered(op)'
<1> SUFFICES ASSUME WaitersOf(w', ListOf(op)) # {}, ListOf(op) \notin marks,
                    There(op)' > 0
             PROVE  Met(op)'
  BY ToCover
<1>1. There(op)' <= There(op) /\ Coming(op) \subseteq Coming(op)' /\ There(op) \in Nat
  BY ThereIs
<1>2. Met(op)
  BY DEF Covered
<1>3. There(op)' \in Nat
  BY NextThere
<1>4. /\ Cardinality(Coming(op)) \in Nat /\ Cardinality(Coming(op)') \in Nat
      /\ Cardinality(Coming(op)) <= Cardinality(Coming(op)')
  BY <1>1, NextComing, ComingIs, FS_Subset
<1> QED BY <1>1, <1>2, <1>3, <1>4 DEF Met

LEMMA WithoutOne ==
    ASSUME NEW S, IsFiniteSet(S), NEW t
    PROVE  /\ Cardinality(S) - 1 <= Cardinality(S \ {t})
           /\ Cardinality(S \ {t}) \in Nat
<1>1. Cardinality(S) \in Nat
  BY FS_CardinalityType
<1>2. CASE t \in S
  <2>1. Cardinality(S \ {t}) = Cardinality(S) - 1 /\ Cardinality(S \ {t}) \in Nat
    BY <1>2, FS_RemoveElement, FS_CardinalityType
  <2> QED BY <1>1, <2>1
<1>3. CASE t \notin S
  <2>1. S \ {t} = S
    BY <1>3
  <2> QED BY <1>1, <2>1
<1> QED BY <1>2, <1>3

\* Task t takes one message, or the room of one.
LEMMA OneTaken ==
    ASSUME BufferType, BufferType', setup' = setup, setup.type = "mq",
           NEW op \in Ops, Covered(op), NEW t,
           NEW marks, left \subseteq marks, left' = StillLeft(marks, w', ring'),
           WaitersOf(w', ListOf(op)) \subseteq WaitersOf(w, ListOf(op)),
           There(op)' = There(op) - 1, Coming(op) \ {t} \subseteq Coming(op)'
    PROVE  Covered(op)'
<1> SUFFICES ASSUME WaitersOf(w', ListOf(op)) # {}, ListOf(op) \notin marks,
                    There(op)' > 0
             PROVE  Met(op)'
  BY ToCover
<1>1. There(op) \in Nat /\ There(op)' \in Nat
  BY ThereIs, NextThere
<1>2. Met(op)
  BY DEF Covered
<1>3. /\ IsFiniteSet(Coming(op)) /\ IsFiniteSet(Coming(op)')
      /\ Cardinality(Coming(op)) \in Nat /\ Cardinality(Coming(op)') \in Nat
  BY ComingIs, NextComing
<1>4. Cardinality(Coming(op) \ {t}) <= Cardinality(Coming(op)')
  BY <1>3, FS_Subset
<1>5. /\ Cardinality(Coming(op)) - 1 <= Cardinality(Coming(op) \ {t})
      /\ Cardinality(Coming(op) \ {t}) \in Nat
  BY <1>3, WithoutOne
<1> QED BY <1>1, <1>2, <1>3, <1>4, <1>5 DEF Met

\* Task u is woken for what has come.
LEMMA Answered ==
    ASSUME BufferType, BufferType', setup' = setup, NEW op \in Ops, Covered(op),
           NEW u \in Tasks,
           NEW marks, left \subseteq marks, left' = StillLeft(marks, w', ring'),
           WaitersOf(w, ListOf(op)) # {},
           setup.type = "mq" => There(op)' <= There(op) + 1,
           u \notin Coming(op), u \in Coming(op)', Coming(op) \subseteq Coming(op)'
    PROVE  Covered(op)'
<1> SUFFICES ASSUME WaitersOf(w', ListOf(op)) # {}, ListOf(op) \notin marks,
                    There(op)' > 0
             PROVE  Met(op)'
  BY ToCover
<1>1. There(op) \in Nat /\ There(op)' \in Nat
  BY ThereIs, NextThere
<1>2. Met(op)
  BY DEF Covered
<1>3. /\ IsFiniteSet(Coming(op)) /\ IsFiniteSet(Coming(op)')
      /\ Cardinality(Coming(op)) \in Nat /\ Cardinality(Coming(op)') \in Nat
  BY ComingIs, NextComing
<1>4. Coming(op) \union {u} \subseteq Coming(op)'
  OBVIOUS
<1>5. Cardinality(Coming(op) \union {u}) = Cardinality(Coming(op)) + 1
  BY <1>3, FS_AddElement
<1>6. Cardinality(Coming(op)) + 1 <= Cardinality(Coming(op)')
  BY <1>3, <1>4, <1>5, FS_Subset
<1> QED BY <1>1, <1>2, <1>3, <1>6 DEF Met

-----------------------------------------------------------------------------
(* The parts that steps are made of: a task ends its call with nothing, it *)
(* blocks, or something passes through the ring.                           *)

LEMMA Asleep ==
    ASSUME WaitsFit, NEW op \in Ops, NEW u \in WaitersOf(w, ListOf(op))
    PROVE  /\ u \in Tasks /\ w.mode[u] = "waiting" /\ w.on[u] = ListOf(op)
           /\ ring.live /\ call[u].op = op /\ call[u].handle = ring.gen
<1>1. u \in Tasks /\ w.on[u] = ListOf(op)
  BY DEF WaitersOf
<1>2. w.mode[u] = "waiting"
  BY <1>1, ListsDiffer DEF WaitsFit
<1>3. call[u].op \in Ops /\ ListOf(call[u].op) = ListOf(op) /\ ring.live
      /\ call[u].handle = ring.gen
  BY <1>1, <1>2 DEF WaitsFit, Ops
<1> QED BY <1>1, <1>2, <1>3, ListsDiffer

LEMMA BothLists ==
    ASSUME WaitsFit', \A op \in Ops : Covered(op)'
    PROVE  WakeInv'
<1>1. Covered("send")' /\ Covered("recv")'
  BY DEF Ops
<1> QED BY <1>1 DEF WakeInv

LEMMA CallAfter ==
    ASSUME BufferType, NEW t \in Tasks, NEW c, call' = [call EXCEPT ![t] = c]
    PROVE  call'[t] = c /\ \A u \in Tasks \ {t} : call'[u] = call[u]
BY DEF BufferType

LEMMA Ended ==
    ASSUME BufferType, WakeInv, BufferType', setup' = setup, w' = w, ring' = ring,
           NEW t \in Tasks, w.mode[t] # "waiting", NEW op \in Ops,
           call[t].op \in {"none", op}, call' = [call EXCEPT ![t] = NoCall],
           NEW marks, left \subseteq marks, left' = StillLeft(marks, w', ring'),
           t \in Coming(op) =>
              \/ WaitersOf(w, ListOf(op)) = {}
              \/ There(op) = 0
              \/ ListOf(op) \in marks
    PROVE  WakeInv'
<1>1. call'[t] = NoCall /\ \A u \in Tasks \ {t} : call'[u] = call[u]
  BY CallAfter
<1>2. WaitsFit'
  BY <1>1 DEF WaitsFit, WakeInv
<1>3. ASSUME NEW o \in Ops PROVE Covered(o)'
  <2>1. Covered(o) /\ There(o)' = There(o)
    BY DEF WakeInv, Ops, There, Size
  <2>2. Coming(o) \ {t} \subseteq Coming(o)'
    BY <1>1 DEF Coming
  <2>3. t \in Coming(o) => o = op
    BY DEF Coming, Ops
  <2>4. There(o) \in Nat
    BY ThereIs
  <2> QED BY <2>1, <2>2, <2>3, <2>4, Quiet
<1> QED BY <1>2, <1>3, BothLists

LEMMA Blocked ==
    ASSUME BufferType, WakeInv, BufferType', setup' = setup, ring' = ring,
           NEW t \in Tasks, w.mode[t] # "waiting", NEW op \in Ops,
           call[t].op \in {"none", op}, NEW c, c.op = op, c.handle = ring.gen, ring.live,
           There(op) = 0, NEW timed \in BOOLEAN, w' = BlockOn(w, t, ListOf(op), timed),
           call' = [call EXCEPT ![t] = c],
           NEW marks, left \subseteq marks, left' = StillLeft(marks, w', ring')
    PROVE  WakeInv'
<1>1. call'[t] = c /\ \A u \in Tasks \ {t} : call'[u] = call[u]
  BY CallAfter
<1>2. /\ w'.on[t] = ListOf(op) /\ w'.mode[t] = "waiting"
      /\ \A u \in Tasks \ {t} :
            w'.on[u] = w.on[u] /\ w'.mode[u] = w.mode[u] /\ w'.result[u] = w.result[u]
  <2>1. ListOf(op) \in WaitLists /\ w \in WaitingType
    BY ListsDiffer DEF ListOf, BufferType
  <2> QED BY <2>1, BlockEffect
<1>3. WaitsFit'
  BY <1>1, <1>2, ListsDiffer DEF WaitsFit, WakeInv, Ops
<1>4. ASSUME NEW o \in Ops PROVE Covered(o)'
  <2>1. Covered(o) /\ There(o)' = There(o)
    BY DEF WakeInv, Ops, There, Size
  <2>2. Coming(o) \ {t} \subseteq Coming(o)'
    BY <1>1, <1>2 DEF Coming
  <2>3. t \in Coming(o) => o = op
    BY DEF Coming, Ops
  <2>4. o # op => WaitersOf(w', ListOf(o)) \subseteq WaitersOf(w, ListOf(o))
    BY <1>2, ListsDiffer DEF WaitersOf
  <2>5. CASE o = op
    BY <2>1, <2>5, Quiet
  <2>6. CASE o # op
    BY <2>1, <2>2, <2>3, <2>4, <2>6, ThereIs, Quiet
  <2> QED BY <2>5, <2>6
<1> QED BY <1>3, <1>4, BothLists

LEMMA WakeEffect ==
    ASSUME w \in WaitingType, NEW u \in Tasks, w.mode[u] = "waiting",
           NEW result \in Results, w' = Wake(w, u, result)
    PROVE  /\ w' \in WaitingType
           /\ w'.on[u] = NoList /\ w'.mode[u] = "active" /\ w'.result[u] = result
           /\ \A v \in Tasks \ {u} :
                 w'.on[v] = w.on[v] /\ w'.mode[v] = w.mode[v] /\ w'.result[v] = w.result[v]
<1>1. w' = Unblock(w, u, "active", result) /\ "active" \in Modes
  BY DEF Wake, Modes
<1> QED BY <1>1, UnblockEffect

LEMMA BothThere ==
    ASSUME BufferType, BufferType', setup' = setup, NEW op \in Ops, NEW other \in Ops,
           op # other
    PROVE  /\ There(other)' = There(other) + (There(op) - There(op)')
           /\ There(op) \in Nat /\ There(op)' \in Nat
           /\ There(other) \in Nat /\ There(other)' \in Nat
           /\ ring'.count = ring.count => There(op)' = There(op)
<1>1. /\ Size \in Nat /\ Size' = Size /\ ring.count \in Nat /\ ring'.count \in Nat
      /\ There(op) \in Nat /\ There(other) \in Nat /\ There(op)' \in Nat /\ There(other)' \in Nat
  <2>1. ring'.count \in 0 .. setup.size /\ setup.size \in Nat
    BY BuffersAssumption DEF BufferType, RingType, Size
  <2> QED BY <2>1, RingFields, ThereIs, NextThere DEF Size
<1>2. CASE op = "send" /\ other = "recv"
  BY <1>1, <1>2 DEF There
<1>3. CASE op = "recv" /\ other = "send"
  BY <1>1, <1>3 DEF There
<1> QED BY <1>1, <1>2, <1>3 DEF Ops

LEMMA Transferred ==
    ASSUME BufferType, WakeInv, BufferType', setup' = setup,
           ring.live, ring'.live, ring'.gen = ring.gen,
           NEW op \in Ops, NEW other \in Ops, op # other,
           NEW t, NEW gone \in SUBSET Tasks, gone \subseteq {t},
           \A u \in gone : /\ w.mode[u] # "waiting" /\ call[u].op \in {"none", op}
                           /\ call'[u] = NoCall,
           \A u \in Tasks \ gone : call'[u] = call[u],
           There(op)' <= There(op), setup.type = "mq" => There(op)' = There(op) - 1,
           WakeFor(ListOf(other), ring'.count # ring.count),
           NEW marks, left \subseteq marks, left' = StillLeft(marks, w', ring'),
           setup.type = "pipe" /\ gone \cap Coming(op) # {} /\ There(op)' > 0
              => ListOf(op) \in marks
    PROVE  WakeInv'
<1>1. /\ There(other)' = There(other) + (There(op) - There(op)')
      /\ There(op) \in Nat /\ There(op)' \in Nat
      /\ There(other) \in Nat /\ There(other)' \in Nat
      /\ setup.type \in {"mq", "pipe"}
      /\ ring'.count = ring.count => There(op)' = There(op)
  BY BothThere, SetupIs DEF BufferType
<1>2. WaitsFit /\ Covered(op) /\ Covered(other)
  BY DEF WakeInv, Ops
<1>3. gone \cap Coming(other) = {}
  BY DEF Coming, Ops
<1>4. \A o \in Ops : o = op \/ o = other
  BY DEF Ops
<1>5. CASE w' = w /\ (WaitersOf(w, ListOf(other)) = {} \/ ring'.count = ring.count)
  <2>1. WaitsFit'
    BY <1>2, <1>5 DEF WaitsFit
  <2>2. \A o \in Ops : Coming(o) \ gone \subseteq Coming(o)'
    BY <1>5 DEF Coming
  <2>3. Covered(other)'
    BY <1>1, <1>2, <1>3, <1>5, <2>2, Quiet
  <2>4. Covered(op)'
    <3>1. CASE setup.type = "mq"
      <4>1. Coming(op) \ {t} \subseteq Coming(op)'
        BY <2>2
      <4> QED BY <1>2, <1>5, <3>1, <4>1, OneTaken
    <3>2. CASE setup.type = "pipe"
      BY <1>2, <1>5, <2>2, <3>2, Quiet
    <3> QED BY <1>1, <3>1, <3>2
  <2> QED BY <1>4, <2>1, <2>3, <2>4, BothLists
<1>6. ASSUME NEW u \in WaitersOf(w, ListOf(other)), w' = Wake(w, u, "OK")
      PROVE  WakeInv'
  <2>1. /\ u \in Tasks /\ w.mode[u] = "waiting" /\ w.on[u] = ListOf(other)
        /\ call[u].op = other /\ call[u].handle = ring.gen
        /\ u \notin gone /\ call'[u] = call[u]
    BY <1>2, <1>6, Asleep
  <2>2. /\ w'.on[u] = NoList /\ w'.mode[u] = "active" /\ w'.result[u] = "OK"
        /\ \A v \in Tasks \ {u} :
              w'.on[v] = w.on[v] /\ w'.mode[v] = w.mode[v] /\ w'.result[v] = w.result[v]
    <3>1. "OK" \in Results /\ w \in WaitingType
      BY DEF Results, BufferType
    <3> QED BY <1>6, <2>1, <3>1, WakeEffect
  <2>3. WaitsFit'
    BY <1>2, <2>1, <2>2 DEF WaitsFit
  <2>4. \A o \in Ops : Coming(o) \ gone \subseteq Coming(o)' /\ u \notin Coming(o)
    BY <2>1, <2>2 DEF Coming
  <2>5. u \in Coming(other)'
    BY <2>1, <2>2 DEF Coming
  <2>6. WaitersOf(w', ListOf(op)) \subseteq WaitersOf(w, ListOf(op))
    BY <2>1, <2>2, ListsDiffer DEF WaitersOf
  <2>7. Covered(other)'
    <3>1. Coming(other) \subseteq Coming(other)'
      BY <1>3, <2>4
    <3>2. setup.type = "mq" => There(other)' <= There(other) + 1
      BY <1>1
    <3> QED BY <1>2, <1>6, <2>1, <2>4, <2>5, <3>1, <3>2, Answered
  <2>8. Covered(op)'
    <3>1. CASE setup.type = "mq"
      <4>1. Coming(op) \ {t} \subseteq Coming(op)'
        BY <2>4
      <4> QED BY <1>2, <2>6, <3>1, <4>1, OneTaken
    <3>2. CASE setup.type = "pipe"
      BY <1>2, <2>4, <2>6, <3>2, Quiet
    <3> QED BY <1>1, <3>1, <3>2
  <2> QED BY <1>4, <2>3, <2>7, <2>8, BothLists
<1> QED BY <1>5, <1>6 DEF WakeFor

\* The same of a task that ends its call, and of an interrupt.
LEMMA TaskTransferred ==
    ASSUME BufferType, WakeInv, BufferType', setup' = setup,
           ring.live, ring'.live, ring'.gen = ring.gen,
           NEW op \in Ops, NEW other \in Ops, op # other,
           NEW t \in Tasks, w.mode[t] # "waiting", call[t].op \in {"none", op},
           call' = [call EXCEPT ![t] = NoCall],
           There(op)' <= There(op), setup.type = "mq" => There(op)' = There(op) - 1,
           WakeFor(ListOf(other), ring'.count # ring.count),
           NEW marks, left \subseteq marks, left' = StillLeft(marks, w', ring'),
           setup.type = "pipe" /\ t \in Coming(op) /\ There(op)' > 0
              => ListOf(op) \in marks
    PROVE  WakeInv'
<1>1. PICK gone \in SUBSET Tasks : gone = {t}
  OBVIOUS
<1>2. call'[t] = NoCall /\ \A u \in Tasks \ {t} : call'[u] = call[u]
  BY CallAfter
<1>3. \A u \in gone : /\ w.mode[u] # "waiting" /\ call[u].op \in {"none", op}
                      /\ call'[u] = NoCall
  BY <1>1, <1>2
<1>4. \A u \in Tasks \ gone : call'[u] = call[u]
  BY <1>1, <1>2
<1>5. gone \subseteq {t}
  BY <1>1
<1>6. setup.type = "pipe" /\ gone \cap Coming(op) # {} /\ There(op)' > 0
         => ListOf(op) \in marks
  BY <1>1
<1> QED BY <1>3, <1>4, <1>5, <1>6, Transferred

LEMMA IsrTransferred ==
    ASSUME BufferType, WakeInv, BufferType', setup' = setup, call' = call,
           ring.live, ring'.live, ring'.gen = ring.gen,
           NEW op \in Ops, NEW other \in Ops, op # other,
           There(op)' <= There(op), setup.type = "mq" => There(op)' = There(op) - 1,
           WakeFor(ListOf(other), ring'.count # ring.count),
           NEW marks, left \subseteq marks, left' = StillLeft(marks, w', ring')
    PROVE  WakeInv'
<1>1. PICK gone \in SUBSET Tasks : gone = {}
  OBVIOUS
<1>2. PICK t : t = op
  OBVIOUS
<1>3. \A u \in gone : /\ w.mode[u] # "waiting" /\ call[u].op \in {"none", op}
                      /\ call'[u] = NoCall
  BY <1>1
<1>4. \A u \in Tasks \ gone : call'[u] = call[u]
  OBVIOUS
<1>5. gone \subseteq {t}
  BY <1>1
<1>6. setup.type = "pipe" /\ gone \cap Coming(op) # {} /\ There(op)' > 0
         => ListOf(op) \in marks
  BY <1>1
<1> QED BY <1>3, <1>4, <1>5, <1>6, Transferred

-----------------------------------------------------------------------------
(* What is sent and what is received.                                      *)

LEMMA SameRing ==
    ASSUME BufferType, RingInv, setup' = setup, ring' = ring
    PROVE  RingStep
<1>1. ring' \in RingType /\ RingInv'
  BY DEF BufferType, RingInv, SlotOf, Size
<1>2. UNCHANGED <<Content, Size>>
  BY DEF Content, SlotOf, Size
<1> QED BY <1>1, <1>2 DEF RingStep

LEMMA TypeAfter ==
    ASSUME BufferType, setup' = setup, w' \in WaitingType,
           call' \in [Tasks -> BufferCalls], ring' \in RingType,
           NEW marks, marks \subseteq Lists, left' = StillLeft(marks, w', ring')
    PROVE  BufferType'
<1>1. RingType' = RingType /\ BufferCalls' = BufferCalls /\ WaitingType' = WaitingType
  BY DEF RingType, Places, Size, BufferCalls, WaitingType
<1>2. left' \subseteq Lists
  BY DEF StillLeft
<1> QED BY <1>1, <1>2 DEF BufferType, Lists

LEMMA CallType ==
    ASSUME BufferType, NEW t \in Tasks, NEW c \in BufferCalls, call' = [call EXCEPT ![t] = c]
    PROVE  call' \in [Tasks -> BufferCalls]
BY DEF BufferType

LEMMA NoCallIs == NoCall \in BufferCalls /\ NoCall.op = "none"
BY DEF BufferCalls, NoCall

LEMMA WokenType ==
    ASSUME w \in WaitingType, NEW list \in WaitLists, NEW moved, WakeFor(list, moved),
           WaitsFit
    PROVE  w' \in WaitingType
<1>1. CASE w' = w
  BY <1>1
<1>2. ASSUME NEW u \in WaitersOf(w, list), w' = Wake(w, u, "OK") PROVE w' \in WaitingType
  <2>1. u \in Tasks /\ w.mode[u] = "waiting" /\ "OK" \in Results
    BY ListsDiffer DEF WaitsFit, WaitersOf, Results
  <2> QED BY <1>2, <2>1, WakeEffect
<1> QED BY <1>1, <1>2 DEF WakeFor

LEMMA StoredStep ==
    ASSUME BufferType, RingInv, setup' = setup, ring.count < Size,
           NEW c, c.data \in setup.items, ~Refused(c), ring' = Stored(c)
    PROVE  /\ RingStep /\ ring'.live = ring.live /\ ring'.gen = ring.gen
           /\ ring'.count >= ring.count
           /\ setup.type = "mq" => ring'.count = ring.count + 1
<1>1. /\ c.data \in Seq(Item) /\ setup.type \in {"mq", "pipe"}
      /\ setup.type = "mq" => Len(c.data) = 1
      /\ setup.type = "pipe" => \A i \in DOMAIN c.data : c.data[i].prio = 0
      /\ Len(c.data) \in Nat /\ DOMAIN c.data = 1 .. Len(c.data)
      /\ \A i \in 1 .. Len(c.data) : c.data[i] \in Item
      /\ Size \in Nat /\ ring.count \in Nat
  BY SetupIs, RingFields, LenProperties, ElementOfSeq DEF BufferType
<1>2. CASE setup.type = "mq"
  <2>1. c.data[1] \in Item /\ (setup.priorities \/ c.data[1].prio = 0)
    BY <1>1, <1>2 DEF Refused
  <2>2. ring' = Inserted(c.data[1])
    BY <1>2 DEF Stored
  <2>3. SameObject(ring', ring.count + 1)
    BY <2>1, <2>2, InsertedIs
  <2>4. RingStep
    BY <1>2, <2>1, <2>2, InsertedStep
  <2> QED BY <1>1, <2>3, <2>4 DEF SameObject
<1>3. CASE setup.type = "pipe"
  <2> DEFINE n == Min2(Len(c.data), Size - ring.count)
             bytes == SubSeq(c.data, 1, n)
  <2>1. n \in Nat /\ n <= Len(c.data) /\ n <= Size - ring.count
    BY <1>1 DEF Min2
  <2> HIDE DEF n
  <2>2. bytes \in Seq(Item) /\ Len(bytes) = n /\ \A i \in 1 .. n : bytes[i] = c.data[i]
    <3>1. 1 \in Int /\ n \in Int /\ \A i \in 1 .. n : c.data[i] \in Item
      BY <1>1, <2>1
    <3>2. /\ bytes \in Seq(Item) /\ Len(bytes) = IF 1 <= n THEN n - 1 + 1 ELSE 0
          /\ \A i \in 1 .. n - 1 + 1 : bytes[i] = c.data[1 + i - 1]
      BY <3>1, SubSeqProperties
    <3> QED BY <2>1, <3>2
  <2>3. ring' = Appended(bytes)
    BY <1>1, <1>3 DEF Stored, n
  <2> HIDE DEF bytes
  <2>4. \A i \in 1 .. Len(bytes) : bytes[i].prio = 0
    BY <1>1, <1>3, <2>1, <2>2
  <2>5. SameObject(ring', ring.count + n)
    BY <1>3, <2>1, <2>2, <2>3, AppendedIs
  <2>6. RingStep
    BY <1>3, <2>1, <2>2, <2>3, <2>4, AppendedStep
  <2> QED BY <1>1, <1>3, <2>1, <2>5, <2>6 DEF SameObject
<1> QED BY <1>1, <1>2, <1>3

LEMMA TakenStep ==
    ASSUME BufferType, RingInv, setup' = setup, ring.count > 0,
           NEW size \in Nat, ring' = Removed(TakenCount(size))
    PROVE  /\ RingStep /\ ring'.live = ring.live /\ ring'.gen = ring.gen
           /\ ring'.count <= ring.count
           /\ setup.type = "mq" => ring'.count = ring.count - 1
<1> DEFINE n == TakenCount(size)
<1>1. ring.count \in Nat /\ setup.type \in {"mq", "pipe"}
  BY SetupIs, RingFields DEF BufferType
<1>2. n \in 0 .. ring.count /\ (setup.type = "mq" => n = 1)
  BY <1>1 DEF TakenCount, Min2
<1> HIDE DEF n
<1>3. ring' = Removed(n)
  BY DEF n
<1>4. SameObject(ring', ring.count - n) /\ RingStep
  BY <1>2, <1>3, RemovedIs, RemovedStep
<1> QED BY <1>1, <1>2, <1>4 DEF SameObject

-----------------------------------------------------------------------------
(* The steps.                                                              *)

\* What a step has to keep.
Kept == BufferInv' /\ RingStep

\* mq_send_common and pipe_write_common, one round of the loop.
LEMMA SendRoundKeeps ==
    ASSUME BufferInv, setup' = setup, NEW t \in Tasks, w.mode[t] = "active",
           NEW c \in BufferCalls, c.op = "send",
           NEW woken \in BOOLEAN, NEW expired \in BOOLEAN,
           call[t].op \in {"none", "send"},
           t \in Coming("send") => woken /\ c.handle = call[t].handle,
           SendRound(t, c, woken, expired)
    PROVE  Kept
<1>1. BufferType /\ RingInv /\ WakeInv /\ w \in WaitingType /\ w.mode[t] # "waiting"
  BY DEF BufferInv, BufferType
<1>2. /\ c.handle \in Nat /\ c.data \in setup.items /\ c.timed \in BOOLEAN
      /\ "send" \in Ops /\ "recv" \in Ops /\ ListOf("send") = SendWait
      /\ ListOf("recv") = RecvWait /\ left \subseteq Lists /\ SendWait \in Lists
      /\ SendWait \in WaitLists /\ RecvWait \in WaitLists /\ WaitsFit
  BY <1>1, ListsDiffer DEF WakeInv, BufferCalls, NoCall, Ops, ListOf, BufferType, Lists
<1>3. ASSUME UNCHANGED <<w, ring>>, Return(t), NEW mark \in BOOLEAN, Leave(SendWait, mark),
             t \in Coming("send") =>
                \/ WaitersOf(w, SendWait) = {} \/ There("send") = 0 \/ mark
      PROVE  Kept
  <2> DEFINE marks == IF mark THEN left \union {SendWait} ELSE left
  <2>1. /\ call' = [call EXCEPT ![t] = NoCall] /\ w' = w /\ ring' = ring
        /\ left \subseteq marks /\ marks \subseteq Lists
        /\ left' = StillLeft(marks, w', ring')
        /\ mark => SendWait \in marks
    BY <1>2, <1>3 DEF Return, Goto, Leave
  <2> HIDE DEF marks
  <2>2. call' \in [Tasks -> BufferCalls] /\ ring' \in RingType
    BY <1>1, <2>1, CallType, NoCallIs DEF BufferType
  <2>3. BufferType'
    BY <1>1, <2>1, <2>2, TypeAfter
  <2>4. WakeInv'
    BY <1>1, <1>2, <1>3, <2>1, <2>3, Ended
  <2>5. RingStep
    BY <1>1, <2>1, SameRing
  <2> QED BY <2>3, <2>4, <2>5 DEF Kept, BufferInv, RingStep
<1>4. CASE ~Valid(c.handle) /\ Return(t) /\ UNCHANGED <<w, ring>> /\ Leave(SendWait, FALSE)
  <2>1. ASSUME t \in Coming("send") PROVE WaitersOf(w, SendWait) = {}
    <3>1. ~ring.live
      BY <1>4, <2>1 DEF Valid, Coming
    <3> QED BY <1>1, <1>2, <3>1, Asleep DEF WakeInv
  <2> QED BY <1>3, <1>4, <2>1
<1>5. CASE /\ Valid(c.handle) /\ ring.count = Size
           /\ WaitRound(t, c, SendWait, expired)
  <2>1. There("send") = 0
    BY <1>1, <1>5, RingFields DEF There
  <2>2. CASE expired
    <3>1. Return(t) /\ UNCHANGED <<w, ring>> /\ Leave(SendWait, FALSE)
      BY <1>5, <2>2 DEF WaitRound
    <3> QED BY <1>3, <2>1, <3>1
  <2>3. CASE ~expired
    <3>1. /\ w' = BlockOn(w, t, SendWait, c.timed) /\ call' = [call EXCEPT ![t] = c]
          /\ ring' = ring /\ left' = StillLeft(left, w', ring')
          /\ ring.live /\ c.handle = ring.gen
      BY <1>5, <2>3 DEF WaitRound, Goto, Leave, Valid
    <3>2. w' \in WaitingType
      BY <1>1, <1>2, <3>1, BlockEffect
    <3>3. call' \in [Tasks -> BufferCalls] /\ ring' \in RingType
      BY <1>1, <3>1, CallType DEF BufferType
    <3>4. BufferType'
      BY <1>1, <1>2, <3>1, <3>2, <3>3, TypeAfter
    <3>5. WakeInv'
      BY <1>1, <1>2, <2>1, <3>1, <3>4, Blocked
    <3>6. RingStep
      BY <1>1, <3>1, SameRing
    <3> QED BY <3>4, <3>5, <3>6 DEF Kept, BufferInv, RingStep
  <2> QED BY <2>2, <2>3
<1>6. CASE /\ Return(t) /\ UNCHANGED <<w, ring>> /\ Leave(SendWait, woken)
  BY <1>3, <1>6
<1>7. ASSUME Valid(c.handle), ring.count < Size, Return(t), ~Refused(c),
             ring' = Stored(c), WakeFor(RecvWait, ring'.count # ring.count),
             Leave(SendWait, woken /\ setup.type = "pipe" /\ ring'.count < Size)
      PROVE  Kept
  <2> DEFINE mark == woken /\ setup.type = "pipe" /\ ring'.count < Size
             marks == IF mark THEN left \union {SendWait} ELSE left
  <2>1. /\ RingStep /\ ring'.live /\ ring'.gen = ring.gen
        /\ ring'.count >= ring.count /\ ring.live
        /\ setup.type = "mq" => ring'.count = ring.count + 1
        /\ ring' \in RingType
    BY <1>1, <1>2, <1>7, StoredStep DEF Valid, RingStep
  <2>2. /\ call' = [call EXCEPT ![t] = NoCall]
        /\ left \subseteq marks /\ marks \subseteq Lists
        /\ left' = StillLeft(marks, w', ring')
        /\ mark => SendWait \in marks
    BY <1>2, <1>7 DEF Return, Goto, Leave
  <2>3. w' \in WaitingType
    BY <1>1, <1>2, <1>7, WokenType
  <2>4. call' \in [Tasks -> BufferCalls]
    BY <1>1, <2>2, CallType, NoCallIs
  <2> HIDE DEF marks
  <2>5. BufferType'
    BY <1>1, <2>1, <2>2, <2>3, <2>4, TypeAfter
  <2>6. WakeInv'
    <3>1. /\ There("send")' <= There("send")
          /\ setup.type = "mq" => There("send")' = There("send") - 1
          /\ There("send")' > 0 => ring'.count < Size
      <4>1. /\ ring.count \in Nat /\ Size \in Nat /\ ring'.count \in Nat
            /\ There("send") = Size - ring.count /\ There("send")' = Size - ring'.count
        BY <1>1, <2>1, RingFields DEF There, RingType, Size
      <4> QED BY <2>1, <4>1
    <3>2. setup.type = "pipe" /\ t \in Coming("send") /\ There("send")' > 0
             => ListOf("send") \in marks
      BY <1>2, <2>2, <3>1
    <3>3. WakeFor(ListOf("recv"), ring'.count # ring.count)
      BY <1>7 DEF ListOf
    <3> HIDE DEF mark
    <3>4. /\ BufferType /\ WakeInv /\ ring.live /\ ring'.live /\ ring'.gen = ring.gen
          /\ "send" \in Ops /\ "recv" \in Ops /\ "send" # "recv"
          /\ w.mode[t] # "waiting"
          /\ left \subseteq marks /\ left' = StillLeft(marks, w', ring')
      BY <1>1, <1>2, <2>1, <2>2
    <3> QED BY <2>2, <2>5, <3>1, <3>2, <3>3, <3>4, TaskTransferred
  <2> QED BY <2>1, <2>5, <2>6 DEF Kept, BufferInv, RingStep
<1> QED BY <1>4, <1>5, <1>6, <1>7 DEF SendRound

\* aixos_mq_recv_priority and pipe_read_common, one round of the loop.
LEMMA RecvRoundKeeps ==
    ASSUME BufferInv, setup' = setup, NEW t \in Tasks, w.mode[t] = "active",
           NEW c \in BufferCalls, c.op = "recv",
           NEW woken \in BOOLEAN, NEW expired \in BOOLEAN,
           call[t].op \in {"none", "recv"},
           t \in Coming("recv") => woken /\ c.handle = call[t].handle,
           RecvRound(t, c, woken, expired)
    PROVE  Kept
<1>1. BufferType /\ RingInv /\ WakeInv /\ w \in WaitingType /\ w.mode[t] # "waiting"
  BY DEF BufferInv, BufferType
<1>2. /\ c.handle \in Nat /\ c.size \in Nat /\ c.timed \in BOOLEAN
      /\ "recv" \in Ops /\ "send" \in Ops /\ ListOf("recv") = RecvWait
      /\ ListOf("send") = SendWait /\ left \subseteq Lists /\ RecvWait \in Lists
      /\ RecvWait \in WaitLists /\ SendWait \in WaitLists /\ WaitsFit
  BY <1>1, ListsDiffer, SetupIs DEF WakeInv, BufferCalls, NoCall, Ops, ListOf, BufferType, Lists
<1>3. ASSUME UNCHANGED <<w, ring>>, Return(t), NEW mark \in BOOLEAN, Leave(RecvWait, mark),
             t \in Coming("recv") =>
                \/ WaitersOf(w, RecvWait) = {} \/ There("recv") = 0 \/ mark
      PROVE  Kept
  <2> DEFINE marks == IF mark THEN left \union {RecvWait} ELSE left
  <2>1. /\ call' = [call EXCEPT ![t] = NoCall] /\ w' = w /\ ring' = ring
        /\ left \subseteq marks /\ marks \subseteq Lists
        /\ left' = StillLeft(marks, w', ring')
        /\ mark => RecvWait \in marks
    BY <1>2, <1>3 DEF Return, Goto, Leave
  <2> HIDE DEF marks
  <2>2. call' \in [Tasks -> BufferCalls] /\ ring' \in RingType
    BY <1>1, <2>1, CallType, NoCallIs DEF BufferType
  <2>3. BufferType'
    BY <1>1, <2>1, <2>2, TypeAfter
  <2>4. WakeInv'
    BY <1>1, <1>2, <1>3, <2>1, <2>3, Ended
  <2>5. RingStep
    BY <1>1, <2>1, SameRing
  <2> QED BY <2>3, <2>4, <2>5 DEF Kept, BufferInv, RingStep
<1>4. CASE ~Valid(c.handle) /\ Return(t) /\ UNCHANGED <<w, ring>> /\ Leave(RecvWait, FALSE)
  <2>1. ASSUME t \in Coming("recv") PROVE WaitersOf(w, RecvWait) = {}
    <3>1. ~ring.live
      BY <1>4, <2>1 DEF Valid, Coming
    <3> QED BY <1>1, <1>2, <3>1, Asleep DEF WakeInv
  <2> QED BY <1>3, <1>4, <2>1
<1>5. CASE /\ Valid(c.handle) /\ ring.count = 0
           /\ WaitRound(t, c, RecvWait, expired)
  <2>1. There("recv") = 0
    BY <1>1, <1>5, RingFields DEF There
  <2>2. CASE expired
    <3>1. Return(t) /\ UNCHANGED <<w, ring>> /\ Leave(RecvWait, FALSE)
      BY <1>5, <2>2 DEF WaitRound
    <3> QED BY <1>3, <2>1, <3>1
  <2>3. CASE ~expired
    <3>1. /\ w' = BlockOn(w, t, RecvWait, c.timed) /\ call' = [call EXCEPT ![t] = c]
          /\ ring' = ring /\ left' = StillLeft(left, w', ring')
          /\ ring.live /\ c.handle = ring.gen
      BY <1>5, <2>3 DEF WaitRound, Goto, Leave, Valid
    <3>2. w' \in WaitingType
      BY <1>1, <1>2, <3>1, BlockEffect
    <3>3. call' \in [Tasks -> BufferCalls] /\ ring' \in RingType
      BY <1>1, <3>1, CallType DEF BufferType
    <3>4. BufferType'
      BY <1>1, <1>2, <3>1, <3>2, <3>3, TypeAfter
    <3>5. WakeInv'
      BY <1>1, <1>2, <2>1, <3>1, <3>4, Blocked
    <3>6. RingStep
      BY <1>1, <3>1, SameRing
    <3> QED BY <3>4, <3>5, <3>6 DEF Kept, BufferInv, RingStep
  <2> QED BY <2>2, <2>3
<1>6. CASE /\ Return(t) /\ UNCHANGED <<w, ring>> /\ Leave(RecvWait, woken)
  BY <1>3, <1>6
<1>7. ASSUME Valid(c.handle), ring.count > 0, Return(t), ~TooLarge(c.size),
             ring' = Removed(TakenCount(c.size)), WakeFor(SendWait, ring'.count # ring.count),
             Leave(RecvWait, woken /\ setup.type = "pipe" /\ ring'.count > 0)
      PROVE  Kept
  <2> DEFINE mark == woken /\ setup.type = "pipe" /\ ring'.count > 0
             marks == IF mark THEN left \union {RecvWait} ELSE left
  <2>1. /\ RingStep /\ ring'.live /\ ring'.gen = ring.gen
        /\ ring'.count <= ring.count /\ ring.live
        /\ setup.type = "mq" => ring'.count = ring.count - 1
        /\ ring' \in RingType
    BY <1>1, <1>2, <1>7, TakenStep DEF Valid, RingStep
  <2>2. /\ call' = [call EXCEPT ![t] = NoCall]
        /\ left \subseteq marks /\ marks \subseteq Lists
        /\ left' = StillLeft(marks, w', ring')
        /\ mark => RecvWait \in marks
    BY <1>2, <1>7 DEF Return, Goto, Leave
  <2>3. w' \in WaitingType
    BY <1>1, <1>2, <1>7, WokenType
  <2>4. call' \in [Tasks -> BufferCalls]
    BY <1>1, <2>2, CallType, NoCallIs
  <2> HIDE DEF marks
  <2>5. BufferType'
    BY <1>1, <2>1, <2>2, <2>3, <2>4, TypeAfter
  <2>6. WakeInv'
    <3>1. /\ There("recv")' <= There("recv")
          /\ setup.type = "mq" => There("recv")' = There("recv") - 1
          /\ There("recv")' > 0 => ring'.count > 0
      <4>1. /\ ring.count \in Nat /\ Size \in Nat /\ ring'.count \in Nat
            /\ There("recv") = ring.count /\ There("recv")' = ring'.count
        BY <1>1, <2>1, RingFields DEF There, RingType, Size
      <4> QED BY <2>1, <4>1
    <3>2. setup.type = "pipe" /\ t \in Coming("recv") /\ There("recv")' > 0
             => ListOf("recv") \in marks
      BY <1>2, <2>2, <3>1
    <3>3. WakeFor(ListOf("send"), ring'.count # ring.count)
      BY <1>7 DEF ListOf
    <3> HIDE DEF mark
    <3>4. /\ BufferType /\ WakeInv /\ ring.live /\ ring'.live /\ ring'.gen = ring.gen
          /\ "recv" \in Ops /\ "send" \in Ops /\ "recv" # "send"
          /\ w.mode[t] # "waiting"
          /\ left \subseteq marks /\ left' = StillLeft(marks, w', ring')
      BY <1>1, <1>2, <2>1, <2>2
    <3> QED BY <2>2, <2>5, <3>1, <3>2, <3>3, <3>4, TaskTransferred
  <2> QED BY <2>1, <2>5, <2>6 DEF Kept, BufferInv, RingStep
<1> QED BY <1>4, <1>5, <1>6, <1>7 DEF RecvRound

\* Without waiting tasks there is nothing to be missed.
LEMMA NobodyWaits ==
    ASSUME BufferType, WaitsFit, setup' = setup, w' = w, call' = call, RingStep,
           left' \subseteq Lists, \A op \in Ops : WaitersOf(w, ListOf(op)) = {}
    PROVE  Kept
<1>1. \A t \in Tasks : w.mode[t] # "waiting" /\ w.on[t] = NoList
  <2> SUFFICES ASSUME NEW t \in Tasks, w.mode[t] = "waiting" PROVE FALSE
    BY DEF WaitsFit
  <2>1. call[t].op \in Ops /\ w.on[t] = ListOf(call[t].op)
    BY DEF WaitsFit, Ops
  <2> QED BY <2>1 DEF WaitersOf
<1>2. WaitsFit'
  BY <1>1 DEF WaitsFit
<1>3. \A op \in Ops : Covered(op)'
  BY DEF Covered
<1>4. BufferType'
  BY DEF BufferType, RingStep, RingType, Places, Size, BufferCalls, Lists
<1> QED BY <1>2, <1>3, <1>4, BothLists DEF Kept, BufferInv, RingStep

LEMMA CreateKeeps ==
    ASSUME BufferInv, Create
    PROVE  Kept
<1>1. BufferType /\ RingInv /\ WakeInv /\ ~ring.live /\ WaitsFit
  BY DEF BufferInv, Create, WakeInv
<1>2. /\ setup' = setup /\ w' = w /\ call' = call /\ left' = {}
      /\ ring.gen + 1 \in Nat /\ ring' = EmptyRing(TRUE, ring.gen + 1)
  BY <1>1, RingFields DEF Create
<1>3. RingStep
  BY <1>1, <1>2, EmptiedStep
<1>4. \A op \in Ops : WaitersOf(w, ListOf(op)) = {}
  BY <1>1, Asleep
<1> QED BY <1>1, <1>2, <1>3, <1>4, NobodyWaits

LEMMA DeleteKeeps ==
    ASSUME BufferInv, NEW h, Delete(h)
    PROVE  Kept
<1>1. BufferType /\ RingInv /\ WakeInv /\ WaitsFit
  BY DEF BufferInv, WakeInv
<1>2. /\ setup' = setup /\ w' = w /\ call' = call /\ left' = left
      /\ ring.gen \in Nat /\ ring' = EmptyRing(FALSE, ring.gen)
  BY <1>1, RingFields DEF Delete
<1>3. RingStep
  BY <1>1, <1>2, EmptiedStep
<1>4. \A op \in Ops : WaitersOf(w, ListOf(op)) = {}
  BY DEF Delete, Ops, ListOf
<1>5. left' \subseteq Lists
  BY <1>1, <1>2 DEF BufferType
<1> QED BY <1>1, <1>2, <1>3, <1>4, <1>5, NobodyWaits

LEMMA IsrKeeps ==
    ASSUME BufferInv, NEW h, NEW data \in setup.items, SendFromIsr(h, data)
    PROVE  Kept
<1>1. BufferType /\ RingInv /\ WakeInv /\ w \in WaitingType /\ WaitsFit
  BY DEF BufferInv, BufferType, WakeInv
<1>2. /\ setup' = setup /\ call' = call /\ Valid(h) /\ ring.count < Size
      /\ WakeFor(RecvWait, ring'.count # ring.count)
      /\ left' = StillLeft(left, w', ring') /\ left \subseteq Lists
  BY <1>1 DEF SendFromIsr, Leave, BufferType
<1>3. PICK c : c = [data |-> data]
  OBVIOUS
<1>4. c.data = data /\ ring' = Stored(c) /\ ~Refused(c)
  BY <1>3 DEF SendFromIsr, Refused
<1>5. /\ RingStep /\ ring'.live /\ ring'.gen = ring.gen
      /\ ring'.count >= ring.count /\ ring.live
      /\ setup.type = "mq" => ring'.count = ring.count + 1
      /\ ring' \in RingType
  BY <1>1, <1>2, <1>4, StoredStep DEF Valid, RingStep
<1>6. w' \in WaitingType
  BY <1>1, <1>2, ListsDiffer, WokenType
<1>7. BufferType'
  BY <1>1, <1>2, <1>5, <1>6, TypeAfter DEF BufferType
<1>8. WakeInv'
  <2>1. /\ There("send")' <= There("send")
        /\ setup.type = "mq" => There("send")' = There("send") - 1
    <3>1. /\ ring.count \in Nat /\ Size \in Nat /\ ring'.count \in Nat
          /\ There("send") = Size - ring.count /\ There("send")' = Size - ring'.count
      BY <1>1, <1>2, <1>5, RingFields DEF There, RingType, Size
    <3> QED BY <1>5, <3>1
  <2>2. WakeFor(ListOf("recv"), ring'.count # ring.count)
    BY <1>2 DEF ListOf
  <2>3. "send" \in Ops /\ "recv" \in Ops /\ "send" # "recv"
    BY DEF Ops
  <2> QED BY <1>1, <1>2, <1>5, <1>7, <2>1, <2>2, <2>3, IsrTransferred
<1> QED BY <1>5, <1>7, <1>8 DEF Kept, BufferInv, RingStep

LEMMA EventsKeep ==
    ASSUME BufferInv, BufferTaskEvents
    PROVE  Kept
<1> DEFINE marks == {list \in {SendWait, RecvWait} :
                       \/ list \in left
                       \/ \E t \in Woken(IF list = SendWait THEN "send" ELSE "recv") :
                             w'.mode[t] = "off"}
<1>1. /\ BufferType /\ RingInv /\ WakeInv /\ WaitsFit /\ w \in WaitingType
      /\ call \in [Tasks -> BufferCalls]
  BY DEF BufferInv, WakeInv, BufferType
<1>2. /\ setup' = setup /\ ring' = ring /\ left \subseteq marks /\ marks \subseteq Lists
      /\ left' = StillLeft(marks, w', ring')
  BY <1>1 DEF BufferTaskEvents, BufferType, Lists
<1>3. \A op \in Ops : \A t \in Coming(op) : w'.mode[t] = "off" => ListOf(op) \in marks
  BY ListsDiffer DEF Coming, Woken, Inside, Ops, ListOf
<1> HIDE DEF marks
<1>4. PICK t \in Tasks : \/ (TimeOut(t) \/ Interrupted(t)) /\ UNCHANGED call
                         \/ (Created(t) \/ Deleted(t)) /\ Return(t)
  BY DEF BufferTaskEvents, TaskEvents
<1> DEFINE Ends ==
      /\ w' \in WaitingType /\ call' \in [Tasks -> BufferCalls]
      /\ \A u \in Tasks \ {t} :
            /\ call'[u] = call[u] /\ w'.on[u] = w.on[u]
            /\ w'.mode[u] = w.mode[u] /\ w'.result[u] = w.result[u]
      /\ w'.on[t] = NoList /\ w'.mode[t] # "waiting"
      /\ \A op \in Ops : t \in Coming(op) => ListOf(op) \in marks
<1>5. CASE w' = w /\ call' = call
  <2>1. BufferType'
    BY <1>1, <1>2, <1>5, TypeAfter DEF BufferType
  <2>2. WaitsFit'
    BY <1>1, <1>2, <1>5 DEF WaitsFit
  <2>3. ASSUME NEW op \in Ops PROVE Covered(op)'
    <3>1. Coming(op)' = Coming(op) /\ There(op)' = There(op) /\ Covered(op) /\ There(op) \in Nat
      BY <1>1, <1>2, <1>5, ThereIs DEF Coming, There, WakeInv, Ops, Size
    <3> QED BY <1>1, <1>2, <1>5, <2>1, <3>1, Quiet
  <2>4. RingStep
    BY <1>1, <1>2, SameRing
  <2> QED BY <2>1, <2>2, <2>3, <2>4, BothLists DEF Kept, BufferInv, RingStep
<1>6. CASE Ends
  <2>1. BufferType'
    BY <1>1, <1>2, <1>6, TypeAfter DEF BufferType
  <2>2. WaitsFit'
    BY <1>1, <1>2, <1>6 DEF WaitsFit
  <2>3. ASSUME NEW op \in Ops PROVE Covered(op)'
    <3>1. /\ Coming(op) \ {t} \subseteq Coming(op)' /\ There(op)' = There(op)
          /\ Covered(op) /\ There(op) \in Nat
      BY <1>1, <1>2, <1>6, ThereIs DEF Coming, There, WakeInv, Ops, Size
    <3>2. WaitersOf(w', ListOf(op)) \subseteq WaitersOf(w, ListOf(op))
      BY <1>6, ListsDiffer DEF WaitersOf
    <3> QED BY <1>1, <1>2, <1>6, <2>1, <3>1, <3>2, Quiet
  <2>4. RingStep
    BY <1>1, <1>2, SameRing
  <2> QED BY <2>1, <2>2, <2>3, <2>4, BothLists DEF Kept, BufferInv, RingStep
<1>7. CASE (TimeOut(t) \/ Interrupted(t)) /\ UNCHANGED call
  <2>1. CASE w.mode[t] # "waiting"
    <3>1. w' = w
      BY <1>7, <2>1 DEF TimeOut, Interrupted, Wake
    <3> QED BY <1>5, <1>7, <3>1
  <2>2. CASE w.mode[t] = "waiting"
    <3>1. PICK result \in Results : w' = Wake(w, t, result)
      BY <1>7 DEF TimeOut, Interrupted, Results
    <3>2. /\ w' \in WaitingType /\ w'.on[t] = NoList /\ w'.mode[t] = "active"
          /\ \A v \in Tasks \ {t} :
                w'.on[v] = w.on[v] /\ w'.mode[v] = w.mode[v] /\ w'.result[v] = w.result[v]
      BY <1>1, <2>2, <3>1, WakeEffect
    <3>3. \A op \in Ops : t \notin Coming(op)
      BY <2>2 DEF Coming
    <3>4. Ends
      BY <1>1, <1>7, <3>2, <3>3
    <3> QED BY <1>6, <3>4
  <2> QED BY <2>1, <2>2
<1>8. CASE (Created(t) \/ Deleted(t)) /\ Return(t)
  <2>1. PICK mode \in {"off", "active"}, result \in Results :
           /\ w' = Unblock(w, t, mode, result)
           /\ mode = "active" => w.mode[t] = "off"
    BY <1>8 DEF Created, Deleted, Results
  <2>2. /\ w' \in WaitingType /\ w'.on[t] = NoList /\ w'.mode[t] = mode
        /\ \A v \in Tasks \ {t} :
              w'.on[v] = w.on[v] /\ w'.mode[v] = w.mode[v] /\ w'.result[v] = w.result[v]
    <3>1. mode \in Modes
      BY DEF Modes
    <3> QED BY <1>1, <2>1, <3>1, UnblockEffect
  <2>3. call' = [call EXCEPT ![t] = NoCall]
    BY <1>8 DEF Return, Goto
  <2>4. call' \in [Tasks -> BufferCalls] /\ \A u \in Tasks \ {t} : call'[u] = call[u]
    BY <1>1, <2>3, CallType, NoCallIs, CallAfter
  <2>5. \A op \in Ops : t \in Coming(op) => ListOf(op) \in marks
    BY <1>3, <2>1, <2>2 DEF Coming
  <2>6. Ends
    BY <2>2, <2>4, <2>5
  <2> QED BY <1>6, <2>6
<1> QED BY <1>4, <1>7, <1>8

\* A task that comes back without having been woken for the object.
LEMMA UnwokenKeeps ==
    ASSUME BufferInv, setup' = setup, NEW t \in Tasks, w.mode[t] = "active",
           w.result[t] # "OK", NEW op \in Ops, call[t].op = op,
           Return(t), UNCHANGED <<w, ring>>, Leave(ListOf(op), FALSE)
    PROVE  Kept
<1>1. /\ BufferType /\ RingInv /\ WakeInv /\ w \in WaitingType /\ w.mode[t] # "waiting"
      /\ left \subseteq Lists /\ ring \in RingType
  BY DEF BufferInv, BufferType
<1>2. /\ call' = [call EXCEPT ![t] = NoCall] /\ w' = w /\ ring' = ring
      /\ left' = StillLeft(left, w', ring')
  BY DEF Return, Goto, Leave
<1>3. BufferType'
  BY <1>1, <1>2, CallType, NoCallIs, TypeAfter
<1>4. t \notin Coming(op)
  BY DEF Coming
<1>5. WakeInv'
  BY <1>1, <1>2, <1>3, <1>4, Ended
<1>6. RingStep
  BY <1>1, <1>2, SameRing
<1> QED BY <1>3, <1>5, <1>6 DEF Kept, BufferInv, RingStep

LEMMA SendKeeps ==
    ASSUME BufferInv, NEW t \in Tasks, NEW h \in Nat, NEW data \in setup.items,
           NEW timeout, Send(t, h, data, timeout)
    PROVE  Kept
<1> DEFINE c == [op |-> "send", handle |-> h, data |-> data, timed |-> timeout = "timed"]
<1>1. c \in BufferCalls /\ c.op = "send"
  BY DEF BufferCalls
<1>2. /\ setup' = setup /\ w.mode[t] = "active" /\ call[t].op = "none"
      /\ SendRound(t, c, FALSE, timeout = "none")
  BY NoCallIs DEF Send, Free
<1>3. t \notin Coming("send")
  BY <1>2 DEF Coming
<1>4. (timeout = "none") \in BOOLEAN /\ FALSE \in BOOLEAN
  OBVIOUS
<1> HIDE DEF c
<1> QED BY <1>1, <1>2, <1>3, <1>4, SendRoundKeeps

LEMMA RecvKeeps ==
    ASSUME BufferInv, NEW t \in Tasks, NEW h \in Nat, NEW size \in setup.sizes,
           NEW timeout, Recv(t, h, size, timeout)
    PROVE  Kept
<1> DEFINE c == [op |-> "recv", handle |-> h, size |-> size, timed |-> timeout = "timed"]
<1>1. c \in BufferCalls /\ c.op = "recv"
  BY DEF BufferCalls
<1>2. /\ setup' = setup /\ w.mode[t] = "active" /\ call[t].op = "none"
      /\ RecvRound(t, c, FALSE, timeout = "none")
  BY NoCallIs DEF Recv, Free
<1>3. t \notin Coming("recv")
  BY <1>2 DEF Coming
<1>4. (timeout = "none") \in BOOLEAN /\ FALSE \in BOOLEAN
  OBVIOUS
<1> HIDE DEF c
<1> QED BY <1>1, <1>2, <1>3, <1>4, RecvRoundKeeps

LEMMA SendReturnKeeps ==
    ASSUME BufferInv, NEW t \in Tasks, SendReturn(t)
    PROVE  Kept
<1>1. /\ setup' = setup /\ w.mode[t] = "active" /\ call[t].op = "send"
      /\ call[t] \in BufferCalls
  BY DEF SendReturn, At, BufferInv, BufferType
<1>2. CASE w.result[t] # "OK"
  <2>1. Return(t) /\ UNCHANGED <<w, ring>> /\ Leave(ListOf("send"), FALSE) /\ "send" \in Ops
    BY <1>2 DEF SendReturn, ListOf, Ops
  <2> QED BY <1>1, <1>2, <2>1, UnwokenKeeps
<1>3. CASE w.result[t] = "OK"
  <2>1. PICK expired \in BOOLEAN : SendRound(t, call[t], TRUE, expired)
    BY <1>3 DEF SendReturn
  <2>2. TRUE \in BOOLEAN
    OBVIOUS
  <2> QED BY <1>1, <2>1, <2>2, SendRoundKeeps
<1> QED BY <1>2, <1>3

LEMMA RecvReturnKeeps ==
    ASSUME BufferInv, NEW t \in Tasks, RecvReturn(t)
    PROVE  Kept
<1>1. /\ setup' = setup /\ w.mode[t] = "active" /\ call[t].op = "recv"
      /\ call[t] \in BufferCalls
  BY DEF RecvReturn, At, BufferInv, BufferType
<1>2. CASE w.result[t] # "OK"
  <2>1. Return(t) /\ UNCHANGED <<w, ring>> /\ Leave(ListOf("recv"), FALSE) /\ "recv" \in Ops
    BY <1>2 DEF RecvReturn, ListOf, Ops
  <2> QED BY <1>1, <1>2, <2>1, UnwokenKeeps
<1>3. CASE w.result[t] = "OK"
  <2>1. PICK expired \in BOOLEAN : RecvRound(t, call[t], TRUE, expired)
    BY <1>3 DEF RecvReturn
  <2>2. TRUE \in BOOLEAN
    OBVIOUS
  <2> QED BY <1>1, <2>1, <2>2, RecvRoundKeeps
<1> QED BY <1>2, <1>3

-----------------------------------------------------------------------------

LEMMA BufferStart ==
    ASSUME WaitInit, call = [t \in Tasks |-> NoCall], BufferInit
    PROVE  BufferInv /\ Ring!Init
<1>1. /\ setup \in Setups /\ Size \in Nat \ {0} /\ 0 \in Places
      /\ ring = EmptyRing(FALSE, 0) /\ left = {}
  BY SetupIs DEF BufferInit, Places
<1>2. w \in WaitingType /\ \A t \in Tasks : w.mode[t] = "off" /\ w.on[t] = NoList
  BY DEF WaitInit, AllOff, WaitingType, Modes
<1>3. ring \in RingType /\ ring.count = 0 /\ ring.head = 0 /\ ring.tail = 0
  BY <1>1 DEF EmptyRing, RingType, Places
<1>4. BufferType
  BY <1>1, <1>2, <1>3, NoCallIs DEF BufferType
<1>5. RingInv
  <2>1. SlotOf(0) = 0
    <3>1. 0 \in 0 .. Size /\ 0 + 0 = 0 /\ 0 < Size
      BY <1>1
    <3>2. ring.head + 0 = 0
      BY <1>3, <3>1, Zenon
    <3> QED BY <1>4, <3>1, <3>2, SlotIs
  <2> QED BY <1>3, <2>1 DEF RingInv
<1>6. \A op \in Ops : WaitersOf(w, ListOf(op)) = {}
  BY <1>2, ListsDiffer DEF WaitersOf
<1>7. WakeInv
  BY <1>2, <1>6 DEF WakeInv, WaitsFit, Covered, Ops
<1>8. Content = <<>>
  BY <1>3, <1>4, <1>5, ContentIs, EmptySeq
<1> QED BY <1>1, <1>4, <1>5, <1>7, <1>8 DEF BufferInv, Ring!Init

LEMMA BufferSteps ==
    ASSUME BufferInv, [BufferNext]_bufferVars
    PROVE  Kept
<1>1. CASE UNCHANGED bufferVars
  <2>1. BufferInv'
    <3>1. BufferType' /\ RingInv'
      BY <1>1 DEF bufferVars, BufferInv, BufferType, RingType, Places, Size, BufferCalls,
                  WaitingType, RingInv, SlotOf
    <3>2. WakeInv'
      BY <1>1 DEF bufferVars, BufferInv, WakeInv, WaitsFit, Covered, Met, There, Coming, Size
    <3> QED BY <3>1, <3>2 DEF BufferInv
  <2>2. RingStep
    BY <1>1, SameRing DEF bufferVars, BufferInv
  <2> QED BY <2>1, <2>2 DEF Kept
<1>2. ASSUME NEW h \in 1 .. setup.creations, NEW t \in Tasks, NEW timeout \in Timeouts,
             \/ \E data \in setup.items : Send(t, h, data, timeout)
             \/ \E size \in setup.sizes : Recv(t, h, size, timeout)
      PROVE  Kept
  <2>1. h \in Nat
    OBVIOUS
  <2> QED BY <1>2, <2>1, SendKeeps, RecvKeeps
<1> QED BY <1>1, <1>2, CreateKeeps, DeleteKeeps, EventsKeep, IsrKeeps,
           SendReturnKeeps, RecvReturnKeeps DEF BufferNext

\* mq.c and pipe.c: for any number of tasks, any capacity and any messages,
\* interrupts, deletions and timeouts included, nobody waits for a message or
\* for room that is there, unless enough woken tasks are on their way to it or
\* one of them has left it to the others.
THEOREM NoLostWakeupCorrect == BufferSpec => []NoLostWakeup
<1>1. BufferInv => NoLostWakeup
  <2> SUFFICES ASSUME BufferInv PROVE NoLostWakeup
    OBVIOUS
  <2>1. /\ Covered("send") /\ Covered("recv") /\ BufferType
        /\ ListOf("send") = SendWait /\ ListOf("recv") = RecvWait
    BY DEF BufferInv, WakeInv, ListOf
  <2>2. ASSUME NEW op
        PROVE  /\ Coming(op) \subseteq Woken(op) /\ Cardinality(Woken(op)) \in Nat
               /\ Cardinality(Coming(op)) <= Cardinality(Woken(op))
               /\ Cardinality(Coming(op)) \in Nat
    <3>1. Coming(op) \subseteq Woken(op) /\ Woken(op) \subseteq Tasks /\ IsFiniteSet(Tasks)
      BY BuffersAssumption DEF Coming, Woken, Inside
    <3> QED BY <3>1, FS_Subset, FS_CardinalityType
  <2>3. /\ There("send") = Size - ring.count /\ There("recv") = ring.count
        /\ ring.count \in Nat /\ Size \in Nat
    BY <2>1, RingFields DEF There
  <2>4. ASSUME NEW op, Met(op)
        PROVE  IF setup.type = "mq" THEN There(op) <= Cardinality(Woken(op))
               ELSE There(op) > 0 => Woken(op) # {}
    <3>1. There(op) \in Int
      BY <2>3 DEF There
    <3> QED BY <2>2, <2>4, <3>1 DEF Met
  <2>5. /\ WaitersOf(w, RecvWait) # {} /\ RecvWait \notin left => Met("recv")
        /\ WaitersOf(w, SendWait) # {} /\ SendWait \notin left => Met("send")
    BY <2>1 DEF Covered
  <2>6. /\ Met("recv") => IF setup.type = "mq" THEN ring.count <= Cardinality(Woken("recv"))
                          ELSE ring.count > 0 => Woken("recv") # {}
        /\ Met("send") => IF setup.type = "mq"
                          THEN Size - ring.count <= Cardinality(Woken("send"))
                          ELSE ring.count < Size => Woken("send") # {}
    BY <2>3, <2>4
  <2> QED BY <2>5, <2>6 DEF NoLostWakeup
<1>2. WaitInit /\ call = [t \in Tasks |-> NoCall] /\ BufferInit => BufferInv
  BY BufferStart
<1>3. BufferInv /\ [BufferNext]_bufferVars => BufferInv'
  BY BufferSteps DEF Kept
<1> QED BY <1>1, <1>2, <1>3, PTL DEF BufferSpec

\* mq.c, lines 160 to 197, and pipe.c: a ring of any capacity, with heads and
\* tails that wrap, shifted messages and copies in two parts, is a bounded
\* sequence in the order of priority, and of arrival among equals.
THEOREM RingCorrect == BufferSpec => RingImplements
<1>1. WaitInit /\ call = [t \in Tasks |-> NoCall] /\ BufferInit => BufferInv /\ Ring!Init
  BY BufferStart
<1>2. BufferInv /\ [BufferNext]_bufferVars
         => BufferInv' /\ [Ring!Next /\ UNCHANGED Size]_<<Content, Size>>
  BY BufferSteps DEF Kept, RingStep
<1> QED BY <1>1, <1>2, PTL DEF BufferSpec, RingImplements, Ring!Spec

-----------------------------------------------------------------------------
(* Event flags.                                                            *)

\* One event and the tasks, by themselves.
EventSpec ==
    /\ WaitInit /\ call = [t \in Tasks |-> NoCall] /\ EventInit
    /\ [][EventNext \/ (TaskEvents /\ UNCHANGED event)]_<<w, call, event>>

EventCalls ==
    [op : {"event_wait"}, handle : Nat, mask : SUBSET Flags, all : BOOLEAN,
     clear : BOOLEAN, timed : BOOLEAN, pend : BOOLEAN]

\* The tasks that wait are those on the list, and are inside aixos_event_wait.
InEventWait(ww, cc) ==
    /\ ww \in WaitingType /\ cc \in [Tasks -> EventCalls \union {NoCall}]
    /\ \A t \in Tasks :
          /\ ww.mode[t] = "waiting" <=> ww.on[t] = EventList
          /\ ww.mode[t] = "waiting" => cc[t] \in EventCalls

EventInv ==
    /\ InEventWait(w, call)
    /\ event \in [live : BOOLEAN, gen : Nat, flags : SUBSET Flags]
    /\ NoSatisfiedEventWaiter

LEMMA MatchFewer ==
    ASSUME NEW c, NEW flags, Match(flags, c) = {}, NEW fewer \in SUBSET flags
    PROVE  Match(fewer, c) = {}
<1>1. CASE c.all /\ ~(c.mask \subseteq flags)
  BY <1>1 DEF Match
<1>2. CASE ~(c.all /\ ~(c.mask \subseteq flags))
  <2>1. flags \intersect c.mask = {}
    BY <1>2 DEF Match
  <2>2. fewer \intersect c.mask = {}
    BY <2>1
  <2> QED BY <2>2 DEF Match
<1> QED BY <1>1, <1>2

\* The place of the call does not matter to what it matches.
LEMMA MatchSame ==
    ASSUME NEW c, NEW d, d.mask = c.mask, d.all = c.all, NEW flags
    PROVE  Match(flags, d) = Match(flags, c)
BY DEF Match

LEMMA PendSet ==
    ASSUME NEW c \in EventCalls, NEW b \in BOOLEAN
    PROVE  /\ [c EXCEPT !.pend = b] \in EventCalls
           /\ \A flags : Match(flags, [c EXCEPT !.pend = b]) = Match(flags, c)
<1> DEFINE d == [c EXCEPT !.pend = b]
<1>1. d \in EventCalls /\ d.mask = c.mask /\ d.all = c.all
  BY DEF EventCalls
<1> HIDE DEF d
<1>2. \A flags : Match(flags, d) = Match(flags, c)
  BY <1>1, MatchSame
<1> QED BY <1>1, <1>2 DEF d

\* A wait ends.
LEMMA EventUnblock ==
    ASSUME NEW ww, NEW cc, InEventWait(ww, cc), NEW t \in Tasks,
           NEW mode \in {"active", "off"}, NEW result \in Results,
           NEW v, v = Unblock(ww, t, mode, result),
           NEW d \in [Tasks -> EventCalls \union {NoCall}],
           \A u \in Tasks \ {t} : d[u] = cc[u]
    PROVE  /\ InEventWait(v, d) /\ v.mode[t] # "waiting"
           /\ \A u \in Tasks \ {t} : v.on[u] = ww.on[u] /\ v.mode[u] = ww.mode[u] /\ d[u] = cc[u]
<1>1. ww \in WaitingType /\ mode \in Modes /\ EventList # NoList /\ mode # "waiting"
  BY EventAssumption DEF InEventWait, Modes
<1>2. /\ v \in WaitingType
      /\ v.on[t] = NoList /\ v.mode[t] = mode /\ v.result[t] = result
      /\ \A u \in Tasks \ {t} :
            /\ v.on[u] = ww.on[u] /\ v.mode[u] = ww.mode[u]
            /\ v.result[u] = ww.result[u]
  BY <1>1, UnblockEffect
<1>3. d \in [Tasks -> EventCalls \union {NoCall}] /\ \A u \in Tasks \ {t} : d[u] = cc[u]
  OBVIOUS
<1>4. InEventWait(v, d)
  <2>1. ASSUME NEW u \in Tasks
        PROVE  /\ v.mode[u] = "waiting" <=> v.on[u] = EventList
               /\ v.mode[u] = "waiting" => d[u] \in EventCalls
    <3>1. CASE u = t
      BY <1>1, <1>2, <3>1
    <3>2. CASE u # t
      <4>1. u \in Tasks \ {t}
        BY <3>2
      <4> QED BY <1>2, <1>3, <4>1 DEF InEventWait
    <3> QED BY <3>1, <3>2
  <2> QED BY <1>2, <1>3, <2>1 DEF InEventWait
<1> QED BY <1>1, <1>2, <1>3, <1>4

-----------------------------------------------------------------------------
(* aixos_event_set serves the waiters one after the other.                 *)

\* Where it is, while it serves the tasks S that waited at the start.
Serving(S) ==
    {s \in [flags : SUBSET Flags, w : WaitingType, call : [Tasks -> EventCalls \union {NoCall}]] :
        /\ InEventWait(s.w, s.call)
        /\ \A t \in S : s.call[t] \in EventCalls
        /\ \A t \in Tasks : s.w.on[t] = EventList => t \in S}

\* Nothing of the mask is there.
Unmatched(flags, c) == Match(flags, c) = {}

LEMMA ServeEffect ==
    ASSUME NEW S \in SUBSET Tasks, NEW s \in Serving(S), NEW t \in S,
           NEW q, q = Serve(s, t)
    PROVE  /\ q \in Serving(S)
           /\ q.flags \subseteq s.flags
           /\ q.w.on[t] = EventList => Unmatched(q.flags, q.call[t])
           /\ \A u \in Tasks \ {t} :
                 /\ q.w.on[u] = EventList => s.w.on[u] = EventList
                 /\ q.call[u] = s.call[u]
<1>1. /\ InEventWait(s.w, s.call) /\ s.call[t] \in EventCalls /\ s.flags \in SUBSET Flags
      /\ s.w \in WaitingType /\ s.call \in [Tasks -> EventCalls \union {NoCall}]
      /\ t \in Tasks
      /\ \A u \in S : s.call[u] \in EventCalls
      /\ \A u \in Tasks : s.w.on[u] = EventList => u \in S
  BY DEF Serving
<1> DEFINE match == Match(s.flags, s.call[t])
<1>2. CASE match = {}
  <2>1. q = s
    BY <1>2 DEF Serve
  <2> QED BY <1>2, <2>1 DEF Unmatched
<1>3. CASE match # {}
  <2> DEFINE flags == IF s.call[t].clear THEN s.flags \ match ELSE s.flags
             v == Wake(s.w, t, "OK")
             c == [s.call[t] EXCEPT !.pend = TRUE]
             d == [s.call EXCEPT ![t].pend = TRUE]
  <2>1. q = [flags |-> flags, w |-> v, call |-> d]
    BY <1>3 DEF Serve
  <2>2. flags \in SUBSET s.flags
    OBVIOUS
  <2>3. c \in EventCalls /\ d = [s.call EXCEPT ![t] = c]
    BY <1>1, PendSet
  <2> HIDE DEF flags, v, c, d
  <2>4. d \in [Tasks -> EventCalls \union {NoCall}] /\ d[t] = c
        /\ \A u \in Tasks \ {t} : d[u] = s.call[u]
    BY <1>1, <2>3
  <2>5. /\ InEventWait(v, d) /\ v.on[t] # EventList
        /\ \A u \in Tasks \ {t} : v.on[u] = s.w.on[u]
    <3>1. CASE s.w.mode[t] = "waiting"
      <4> DEFINE active == "active"
                 ok == "OK"
      <4>1. v = Unblock(s.w, t, active, ok) /\ active \in {"active", "off"} /\ ok \in Results
        BY <3>1 DEF v, Wake, Results
      <4> HIDE DEF active, ok
      <4>2. /\ InEventWait(v, d) /\ v.mode[t] # "waiting"
            /\ \A u \in Tasks \ {t} : v.on[u] = s.w.on[u] /\ v.mode[u] = s.w.mode[u]
                                      /\ d[u] = s.call[u]
        BY <1>1, <2>4, <4>1, EventUnblock
      <4> QED BY <1>1, <4>2 DEF InEventWait
    <3>2. CASE s.w.mode[t] # "waiting"
      <4>1. v = s.w
        BY <3>2 DEF v, Wake
      <4>2. InEventWait(v, d)
        <5>1. ASSUME NEW u \in Tasks
              PROVE  /\ v.mode[u] = "waiting" <=> v.on[u] = EventList
                     /\ v.mode[u] = "waiting" => d[u] \in EventCalls
          <6>1. CASE u = t
            BY <1>1, <2>3, <2>4, <4>1, <6>1 DEF InEventWait
          <6>2. CASE u # t
            <7>1. u \in Tasks \ {t}
              BY <6>2
            <7> QED BY <1>1, <2>4, <4>1, <7>1 DEF InEventWait
          <6> QED BY <6>1, <6>2
        <5> QED BY <1>1, <2>4, <4>1, <5>1 DEF InEventWait
      <4> QED BY <1>1, <3>2, <4>1, <4>2 DEF InEventWait
    <3> QED BY <3>1, <3>2
  <2> DEFINE r == [flags |-> flags, w |-> v, call |-> d]
  <2>6. r.flags = flags /\ r.w = v /\ r.call = d
        /\ r \in [flags : SUBSET Flags, w : WaitingType,
                  call : [Tasks -> EventCalls \union {NoCall}]]
    BY <1>1, <2>2, <2>4, <2>5 DEF InEventWait
  <2> HIDE DEF r
  <2>7. \A u \in S : r.call[u] \in EventCalls
    <3>1. ASSUME NEW u \in S PROVE r.call[u] \in EventCalls
      <4>1. u \in Tasks
        OBVIOUS
      <4>2. CASE u = t
        BY <2>3, <2>4, <2>6, <4>2
      <4>3. CASE u # t
        BY <1>1, <2>4, <2>6, <4>1, <4>3
      <4> QED BY <4>2, <4>3
    <3> QED BY <3>1
  <2>8. \A u \in Tasks : r.w.on[u] = EventList => u \in S
    <3>1. ASSUME NEW u \in Tasks, r.w.on[u] = EventList PROVE u \in S
      <4>1. u # t
        BY <2>5, <2>6, <3>1
      <4> QED BY <1>1, <2>5, <2>6, <3>1, <4>1
    <3> QED BY <3>1
  <2>9. r \in Serving(S)
    BY <2>5, <2>6, <2>7, <2>8 DEF Serving
  <2>10. q = r
    BY <2>1 DEF r
  <2> QED BY <2>2, <2>4, <2>5, <2>6, <2>9, <2>10
<1> QED BY <1>2, <1>3

\* The state after the first n tasks of an order.
ServedFirst(order, s0, n, f) ==
    /\ f \in [0 .. n -> Serving({order[i] : i \in DOMAIN order})]
    /\ f[0] = s0
    /\ \A i \in 1 .. n : f[i] = Serve(f[i - 1], order[i])

LEMMA ServedExists ==
    ASSUME NEW order \in Seq(Tasks), NEW s0 \in Serving({order[i] : i \in DOMAIN order}),
           NEW m \in 0 .. Len(order)
    PROVE  \E f : ServedFirst(order, s0, m, f)
<1> DEFINE S == {order[i] : i \in DOMAIN order}
           None == {n \in 0 .. Len(order) : ~(\E f : ServedFirst(order, s0, n, f))}
<1>1. SUFFICES ASSUME None # {} PROVE FALSE
  OBVIOUS
<1>0. None \in SUBSET Nat
  OBVIOUS
<1>2. PICK n \in None : \A q \in None : n <= q
  BY <1>0, <1>1, LeastIn
<1>3. n \in 0 .. Len(order) /\ ~(\E f : ServedFirst(order, s0, n, f)) /\ Len(order) \in Nat
  BY <1>2
<1>4. CASE n = 0
  <2> DEFINE h == [i \in 0 .. 0 |-> s0]
  <2>1. h \in [0 .. 0 -> Serving(S)] /\ h[0] = s0 /\ 1 .. 0 = {}
    OBVIOUS
  <2> HIDE DEF h
  <2>2. ServedFirst(order, s0, 0, h)
    BY <2>1 DEF ServedFirst
  <2> QED BY <1>3, <1>4, <2>2
<1>5. CASE n # 0
  <2>1. n - 1 \in 0 .. Len(order) /\ n \in 1 .. Len(order) /\ ~(n <= n - 1) /\ n - 1 \in 0 .. n - 1
    BY <1>3, <1>5
  <2>2. PICK f : ServedFirst(order, s0, n - 1, f)
    BY <1>2, <2>1
  <2>3. /\ f \in [0 .. n - 1 -> Serving(S)] /\ f[0] = s0
        /\ \A i \in 1 .. n - 1 : f[i] = Serve(f[i - 1], order[i])
    BY <2>2 DEF ServedFirst
  <2>4. order[n] \in S /\ S \in SUBSET Tasks
    BY <2>1
  <2>5. Serve(f[n - 1], order[n]) \in Serving(S)
    BY <2>1, <2>3, <2>4, ServeEffect
  <2> DEFINE h == [i \in 0 .. n |-> IF i = n THEN Serve(f[n - 1], order[n]) ELSE f[i]]
  <2>6. \A i \in 0 .. n : i # n => i \in 0 .. n - 1
    BY <1>3
  <2> HIDE DEF S
  <2>7. /\ h \in [0 .. n -> Serving(S)] /\ h[n] = Serve(f[n - 1], order[n])
        /\ \A i \in 0 .. n - 1 : h[i] = f[i]
    BY <1>3, <2>3, <2>5, <2>6
  <2> HIDE DEF h
  <2>8. \A i \in 1 .. n : i - 1 \in 0 .. n - 1 /\ (i # n => i \in 1 .. n - 1 /\ i \in 0 .. n - 1)
    BY <1>3
  <2>9. ASSUME NEW i \in 1 .. n PROVE h[i] = Serve(h[i - 1], order[i])
    BY <2>3, <2>7, <2>8
  <2>10. h[0] = s0
    BY <2>1, <2>3, <2>7
  <2>11. ServedFirst(order, s0, n, h)
    BY <2>7, <2>9, <2>10 DEF ServedFirst, S
  <2> QED BY <1>3, <2>11
<1> QED BY <1>4, <1>5

\* Whoever has been served is not left waiting for flags that are there.
LEMMA ServedNotInVain ==
    ASSUME NEW order \in Seq(Tasks), \A i, j \in DOMAIN order : i # j => order[i] # order[j],
           NEW s0, NEW f, ServedFirst(order, s0, Len(order), f)
    PROVE  /\ f[Len(order)] \in Serving({order[i] : i \in DOMAIN order})
           /\ \A j \in DOMAIN order :
                 f[Len(order)].w.on[order[j]] = EventList =>
                     Unmatched(f[Len(order)].flags, f[Len(order)].call[order[j]])
<1> DEFINE S == {order[i] : i \in DOMAIN order}
           Fine(n) == \A j \in 1 .. n :
                         f[n].w.on[order[j]] = EventList =>
                             Unmatched(f[n].flags, f[n].call[order[j]])
           Bad == {n \in 0 .. Len(order) : ~Fine(n)}
<1>1. /\ f \in [0 .. Len(order) -> Serving(S)] /\ Len(order) \in Nat
      /\ \A i \in 1 .. Len(order) : f[i] = Serve(f[i - 1], order[i])
      /\ DOMAIN order = 1 .. Len(order) /\ S \in SUBSET Tasks
  BY DEF ServedFirst
<1>2. Bad = {}
  <2> SUFFICES ASSUME Bad # {} PROVE FALSE
    OBVIOUS
  <2>1. Bad \in SUBSET Nat
    OBVIOUS
  <2>2. PICK n \in Bad : \A q \in Bad : n <= q
    BY <2>1, LeastIn
  <2>3. n \in 1 .. Len(order) /\ n - 1 \in 0 .. Len(order) /\ ~(n <= n - 1)
    <3>1. Fine(0)
      OBVIOUS
    <3> QED BY <1>1, <2>2, <3>1
  <2>4. Fine(n - 1)
    BY <2>2, <2>3
  <2>5. f[n] = Serve(f[n - 1], order[n]) /\ f[n - 1] \in Serving(S) /\ order[n] \in S
    BY <1>1, <2>3
  <2> HIDE DEF S
  <2> DEFINE s == f[n - 1]
             t == order[n]
             r == Serve(s, t)
  <2>8. S \in SUBSET Tasks /\ s \in Serving(S) /\ t \in S
    BY <1>1, <2>5
  <2>11. r = Serve(s, t) /\ f[n] = r
    BY <2>5
  <2> HIDE DEF s, t, r
  <2>9. /\ r.flags \subseteq s.flags
        /\ r.w.on[t] = EventList => Unmatched(r.flags, r.call[t])
        /\ \A u \in Tasks \ {t} :
              /\ r.w.on[u] = EventList => s.w.on[u] = EventList
              /\ r.call[u] = s.call[u]
    BY <2>8, <2>11, ServeEffect
  <2>6. /\ f[n].flags \subseteq f[n - 1].flags
        /\ f[n].w.on[order[n]] = EventList => Unmatched(f[n].flags, f[n].call[order[n]])
        /\ \A u \in Tasks \ {order[n]} :
              /\ f[n].w.on[u] = EventList => f[n - 1].w.on[u] = EventList
              /\ f[n].call[u] = f[n - 1].call[u]
    BY <2>9, <2>11 DEF s, t
  <2>7. ASSUME NEW j \in 1 .. n, f[n].w.on[order[j]] = EventList
        PROVE  Unmatched(f[n].flags, f[n].call[order[j]])
    <3>1. CASE j = n
      BY <2>6, <2>7, <3>1
    <3>2. CASE j # n
      <4>1. /\ j \in 1 .. n - 1 /\ order[j] \in Tasks \ {order[n]}
        BY <1>1, <2>3, <3>2
      <4>2. f[n - 1].w.on[order[j]] = EventList /\ f[n].call[order[j]] = f[n - 1].call[order[j]]
        BY <2>6, <2>7, <4>1
      <4>3. Unmatched(f[n - 1].flags, f[n].call[order[j]])
        BY <2>4, <4>1, <4>2
      <4> QED BY <2>6, <4>3, MatchFewer DEF Unmatched
    <3> QED BY <3>1, <3>2
  <2> QED BY <2>2, <2>7
<1>3. Len(order) \in 0 .. Len(order)
  BY <1>1
<1>4. Fine(Len(order))
  BY <1>2, <1>3
<1> HIDE DEF S
<1>5. f[Len(order)] \in Serving(S)
  BY <1>1, <1>3
<1> QED BY <1>1, <1>4, <1>5 DEF S

\* A sequence of all waiters, each of them once.
LEMMA OrderIs ==
    ASSUME NEW S \in SUBSET Tasks, NEW order \in SetToSeqs(S)
    PROVE  /\ order \in Seq(Tasks) /\ {order[i] : i \in DOMAIN order} = S
           /\ \A i, j \in DOMAIN order : i # j => order[i] # order[j]
<1>1. IsFiniteSet(S)
  BY EventAssumption, FS_Subset
<1> DEFINE n == Cardinality(S)
<1>2. n \in Nat
  BY <1>1, FS_CardinalityType
<1>3. order \in [1 .. n -> S] /\ \A i, j \in 1 .. n : i # j => order[i] # order[j]
  BY DEF SetToSeqs
<1> HIDE DEF n
<1>4. order \in Injection(1 .. n, S)
  BY <1>3 DEF Injection, IsInjective
<1>5. IsFiniteSet(1 .. n) /\ Cardinality(1 .. n) = n
  BY <1>2, FS_Interval
<1>6. order \in Surjection(1 .. n, S)
  BY <1>1, <1>4, <1>5, FS_Injection DEF n
<1>7. \A u \in S : \E i \in 1 .. n : order[i] = u
  BY <1>6 DEF Surjection
<1>8. order \in Seq(Tasks) /\ DOMAIN order = 1 .. n
  BY <1>2, <1>3
<1> QED BY <1>3, <1>7, <1>8

LEMMA ServeAllEffect ==
    ASSUME EventInv, NEW flags \in SUBSET Flags,
           NEW order \in SetToSeqs(WaitersOf(w, EventList))
    PROVE  LET s == ServeAll(flags, order)
           IN  /\ InEventWait(s.w, s.call) /\ s.flags \in SUBSET Flags
               /\ \A t \in WaitersOf(s.w, EventList) : Unmatched(s.flags, s.call[t])
<1> DEFINE S == WaitersOf(w, EventList)
           s0 == [flags |-> flags, w |-> w, call |-> call]
           N == Len(order)
<1>1. /\ order \in Seq(Tasks) /\ {order[i] : i \in DOMAIN order} = S
      /\ \A i, j \in DOMAIN order : i # j => order[i] # order[j]
      /\ N \in Nat /\ N \in 0 .. N
  <2>1. S \in SUBSET Tasks
    BY DEF WaitersOf
  <2> HIDE DEF S
  <2>2. order \in Seq(Tasks)
    BY <2>1, OrderIs DEF S
  <2> QED BY <2>1, <2>2, OrderIs DEF S
<1>2. s0 \in Serving(S)
  <2>1. s0.flags = flags /\ s0.w = w /\ s0.call = call
    OBVIOUS
  <2>2. InEventWait(w, call) /\ w \in WaitingType
        /\ call \in [Tasks -> EventCalls \union {NoCall}]
    BY DEF EventInv, InEventWait
  <2>3. \A t \in S : call[t] \in EventCalls
    BY <2>2 DEF InEventWait, WaitersOf
  <2>4. \A t \in Tasks : w.on[t] = EventList => t \in S
    BY DEF WaitersOf
  <2> HIDE DEF S
  <2> QED BY <2>2, <2>3, <2>4 DEF Serving
<1> HIDE DEF s0, S, N
<1> DEFINE Fact(f) == f = [i \in 0 .. N |-> IF i = 0 THEN s0 ELSE Serve(f[i - 1], order[i])]
           f == CHOOSE f : Fact(f)
<1>3. \E g : Fact(g)
  <2>1. PICK g : ServedFirst(order, s0, N, g)
    BY <1>1, <1>2, ServedExists DEF N
  <2>2. /\ g \in [0 .. N -> Serving(S)] /\ g[0] = s0
        /\ \A i \in 1 .. N : g[i] = Serve(g[i - 1], order[i])
    BY <1>1, <2>1 DEF ServedFirst
  <2>3. \A i \in 0 .. N : g[i] = IF i = 0 THEN s0 ELSE Serve(g[i - 1], order[i])
    BY <1>1, <2>2
  <2>4. g = [i \in 0 .. N |-> g[i]]
    BY <2>2
  <2>5. Fact(g)
    BY <2>3, <2>4
  <2> QED BY <2>5
<1>4. Fact(f)
  BY <1>3
<1>5. ServeAll(flags, order) = f[N]
  BY DEF ServeAll, s0, N
<1> HIDE DEF f
<1>6. ServedFirst(order, s0, N, f)
  <2>1. f[0] = s0 /\ \A i \in 1 .. N : f[i] = Serve(f[i - 1], order[i])
    BY <1>1, <1>4
  <2>2. \A i \in 0 .. N : f[i] \in Serving(S)
    <3> DEFINE Out == {i \in 0 .. N : f[i] \notin Serving(S)}
    <3> SUFFICES ASSUME Out # {} PROVE FALSE
      OBVIOUS
    <3>1. Out \in SUBSET Nat
      OBVIOUS
    <3>2. PICK n \in Out : \A q \in Out : n <= q
      BY <3>1, LeastIn
    <3>3. n \in 1 .. N /\ n - 1 \in 0 .. N /\ ~(n <= n - 1)
      BY <1>1, <1>2, <2>1, <3>2
    <3>4. f[n - 1] \in Serving(S)
      BY <3>2, <3>3
    <3>5. order[n] \in S /\ S \in SUBSET Tasks
      BY <1>1, <3>3 DEF N
    <3> QED BY <2>1, <3>2, <3>3, <3>4, <3>5, ServeEffect
  <2>3. DOMAIN f = 0 .. N /\ f = [i \in 0 .. N |-> f[i]]
    BY <1>4
  <2>4. f \in [0 .. N -> Serving(S)]
    BY <2>2, <2>3
  <2> QED BY <1>1, <2>1, <2>4 DEF ServedFirst
<1>7. /\ f[N] \in Serving(S)
      /\ \A j \in DOMAIN order :
            f[N].w.on[order[j]] = EventList => Unmatched(f[N].flags, f[N].call[order[j]])
  BY <1>1, <1>6, ServedNotInVain DEF N
<1>8. /\ InEventWait(f[N].w, f[N].call) /\ f[N].flags \in SUBSET Flags
      /\ \A t \in Tasks : f[N].w.on[t] = EventList => t \in S
  BY <1>7 DEF Serving
<1>9. \A t \in WaitersOf(f[N].w, EventList) : Unmatched(f[N].flags, f[N].call[t])
  <2>1. ASSUME NEW t \in WaitersOf(f[N].w, EventList)
        PROVE  Unmatched(f[N].flags, f[N].call[t])
    <3>1. t \in S /\ f[N].w.on[t] = EventList
      BY <1>8, <2>1 DEF WaitersOf
    <3>2. PICK j \in DOMAIN order : order[j] = t
      BY <1>1, <3>1
    <3> QED BY <1>7, <3>1, <3>2
  <2> QED BY <2>1
<1> QED BY <1>5, <1>8, <1>9

-----------------------------------------------------------------------------
(* The steps.                                                              *)

EventType == event \in [live : BOOLEAN, gen : Nat, flags : SUBSET Flags]

\* Flags go and nobody begins to wait.
LEMMA FewerFlags ==
    ASSUME EventInv, EventType', event'.flags \subseteq event.flags, InEventWait(w', call'),
           \A t \in Tasks : w'.on[t] = EventList =>
               w.on[t] = EventList /\ call'[t] = call[t]
    PROVE  EventInv'
<1>1. ASSUME NEW t \in Tasks, w'.on[t] = EventList
      PROVE  Match(event'.flags, call'[t]) = {}
  <2>1. w.on[t] = EventList /\ call'[t] = call[t]
    BY <1>1
  <2>2. Match(event.flags, call[t]) = {}
    BY <2>1 DEF EventInv, NoSatisfiedEventWaiter, WaitersOf
  <2> QED BY <2>1, <2>2, MatchFewer
<1>2. NoSatisfiedEventWaiter'
  BY <1>1 DEF NoSatisfiedEventWaiter, WaitersOf
<1> QED BY <1>2 DEF EventInv, EventType

\* A task leaves the list, or was not on it.
LEMMA EventReleased ==
    ASSUME EventInv, NEW t \in Tasks, NEW mode \in {"active", "off"}, NEW result \in Results,
           w' = Unblock(w, t, mode, result), UNCHANGED event,
           UNCHANGED call \/ call' = [call EXCEPT ![t] = NoCall]
    PROVE  EventInv'
<1>1. InEventWait(w, call) /\ call \in [Tasks -> EventCalls \union {NoCall}] /\ EventType
  BY DEF EventInv, InEventWait, EventType
<1>2. call' \in [Tasks -> EventCalls \union {NoCall}] /\ \A u \in Tasks \ {t} : call'[u] = call[u]
  BY <1>1
<1>3. /\ InEventWait(w', call') /\ w'.mode[t] # "waiting"
      /\ \A u \in Tasks \ {t} : w'.on[u] = w.on[u] /\ w'.mode[u] = w.mode[u]
                                /\ call'[u] = call[u]
  BY <1>1, <1>2, EventUnblock
<1>4. \A u \in Tasks : w'.on[u] = EventList => w.on[u] = EventList /\ call'[u] = call[u]
  BY <1>3 DEF InEventWait
<1>5. EventType' /\ event'.flags \subseteq event.flags
  BY <1>1 DEF EventType
<1> QED BY <1>3, <1>4, <1>5, FewerFlags

\* A task that does not wait returns.
LEMMA EventReturned ==
    ASSUME EventInv, NEW t \in Tasks, w.mode[t] # "waiting", Return(t), UNCHANGED w,
           EventType', event'.flags \subseteq event.flags
    PROVE  EventInv'
<1>1. call' = [call EXCEPT ![t] = NoCall]
  BY DEF Return, Goto
<1>2. InEventWait(w, call)
  BY DEF EventInv
<1>3. /\ call' \in [Tasks -> EventCalls \union {NoCall}]
      /\ \A u \in Tasks \ {t} : call'[u] = call[u]
  BY <1>1, <1>2 DEF InEventWait
<1>4. \A u \in Tasks : w.mode[u] = "waiting" => call'[u] = call[u]
  BY <1>3
<1>5. InEventWait(w', call')
  BY <1>2, <1>3, <1>4 DEF InEventWait
<1>6. \A u \in Tasks : w'.on[u] = EventList => w.on[u] = EventList /\ call'[u] = call[u]
  BY <1>2, <1>4 DEF InEventWait
<1> QED BY <1>5, <1>6, FewerFlags

\* One round of aixos_event_wait: c is the call, with its arguments.
LEMMA EventRoundKeeps ==
    ASSUME EventInv, NEW t \in Tasks, w.mode[t] = "active", NEW c \in EventCalls,
           NEW expired, EventRound(t, c, expired)
    PROVE  EventInv'
<1> DEFINE match == Match(event.flags, c)
<1>1. InEventWait(w, call) /\ EventType
  BY DEF EventInv, EventType
<1>2. CASE Return(t) /\ UNCHANGED <<w, event>>
  BY <1>1, <1>2, EventReturned DEF EventType
<1>3. CASE /\ event' = IF c.clear THEN [event EXCEPT !.flags = @ \ match] ELSE event
           /\ Return(t) /\ UNCHANGED w
  <2>1. EventType' /\ event'.flags \subseteq event.flags
    <3> HIDE DEF match
    <3>1. CASE c.clear
      BY <1>1, <1>3, <3>1 DEF EventType
    <3>2. CASE ~c.clear
      BY <1>1, <1>3, <3>2 DEF EventType
    <3> QED BY <3>1, <3>2
  <2> QED BY <1>3, <2>1, EventReturned
<1>4. CASE /\ match = {} /\ w' = BlockOn(w, t, EventList, c.timed)
           /\ Goto(t, [c EXCEPT !.pend = FALSE]) /\ UNCHANGED event
  <2> DEFINE d == [c EXCEPT !.pend = FALSE]
  <2>1. d \in EventCalls /\ Match(event.flags, d) = {} /\ call' = [call EXCEPT ![t] = d]
    BY <1>4, PendSet DEF Goto
  <2> HIDE DEF d
  <2>2. w \in WaitingType /\ EventList \in WaitLists /\ c.timed \in BOOLEAN
        /\ call \in [Tasks -> EventCalls \union {NoCall}]
    BY <1>1, EventAssumption DEF InEventWait, EventCalls
  <2>3. /\ w' \in WaitingType /\ w'.on[t] = EventList /\ w'.mode[t] = "waiting"
        /\ \A u \in Tasks \ {t} : w'.on[u] = w.on[u] /\ w'.mode[u] = w.mode[u]
    BY <1>4, <2>2, BlockEffect
  <2>4. /\ call' \in [Tasks -> EventCalls \union {NoCall}] /\ call'[t] = d
        /\ \A u \in Tasks \ {t} : call'[u] = call[u]
    BY <2>1, <2>2
  <2>5. ASSUME NEW u \in Tasks
        PROVE  /\ w'.mode[u] = "waiting" <=> w'.on[u] = EventList
               /\ w'.mode[u] = "waiting" => call'[u] \in EventCalls
               /\ w'.on[u] = EventList => Match(event'.flags, call'[u]) = {}
    <3>1. CASE u = t
      BY <1>4, <2>1, <2>3, <2>4, <3>1
    <3>2. CASE u # t
      <4>1. u \in Tasks \ {t}
        BY <3>2
      <4>2. w'.on[u] = w.on[u] /\ w'.mode[u] = w.mode[u] /\ call'[u] = call[u]
        BY <2>3, <2>4, <4>1
      <4>3. w.on[u] = EventList => Match(event.flags, call[u]) = {}
        BY DEF EventInv, NoSatisfiedEventWaiter, WaitersOf
      <4> QED BY <1>1, <1>4, <4>2, <4>3 DEF InEventWait
    <3> QED BY <3>1, <3>2
  <2>6. InEventWait(w', call') /\ NoSatisfiedEventWaiter'
    BY <2>3, <2>4, <2>5 DEF InEventWait, NoSatisfiedEventWaiter, WaitersOf
  <2> QED BY <1>1, <1>4, <2>6 DEF EventInv, EventType
<1> QED BY <1>2, <1>3, <1>4 DEF EventRound

LEMMA EventSetKeeps ==
    ASSUME EventInv, NEW h, NEW flags \in Masks, EventSet(h, flags)
    PROVE  EventInv'
<1>1. PICK order \in SetToSeqs(WaitersOf(w, EventList)) :
          LET served == ServeAll(event.flags \union flags, order)
          IN  /\ event' = [event EXCEPT !.flags = served.flags]
              /\ w' = served.w
              /\ call' = served.call
  BY DEF EventSet
<1> DEFINE served == ServeAll(event.flags \union flags, order)
<1>2. EventType /\ event.flags \union flags \in SUBSET Flags
  BY DEF EventInv, EventType, Masks
<1>3. /\ InEventWait(served.w, served.call) /\ served.flags \in SUBSET Flags
      /\ \A t \in WaitersOf(served.w, EventList) : Unmatched(served.flags, served.call[t])
  BY <1>2, ServeAllEffect
<1>4. event' = [event EXCEPT !.flags = served.flags] /\ w' = served.w /\ call' = served.call
  BY <1>1
<1> HIDE DEF served
<1>5. EventType' /\ event'.flags = served.flags
  BY <1>2, <1>3, <1>4 DEF EventType
<1>6. NoSatisfiedEventWaiter'
  BY <1>3, <1>4, <1>5 DEF NoSatisfiedEventWaiter, Unmatched
<1> QED BY <1>3, <1>4, <1>5, <1>6 DEF EventInv, EventType

\* The calls that touch no task.
LEMMA EventCallKeeps ==
    ASSUME EventInv, UNCHANGED <<w, call>>, EventType', event'.flags \subseteq event.flags
    PROVE  EventInv'
<1>1. InEventWait(w', call')
  BY DEF EventInv, InEventWait
<1> QED BY <1>1, FewerFlags

LEMMA EventTaskKeeps ==
    ASSUME EventInv, TaskEvents, UNCHANGED event
    PROVE  EventInv'
<1> DEFINE active == "active"
           off == "off"
<1>0. active \in {"active", "off"} /\ off \in {"active", "off"}
  OBVIOUS
<1> PICK t \in Tasks : \/ (TimeOut(t) \/ Interrupted(t)) /\ UNCHANGED call
                       \/ (Created(t) \/ Deleted(t)) /\ Return(t)
  BY DEF TaskEvents
<1>1. CASE w' = w /\ UNCHANGED call
  BY <1>1, EventCallKeeps DEF EventInv, EventType
<1>2. ASSUME NEW result \in Results, w' = Unblock(w, t, active, result), UNCHANGED call
      PROVE  EventInv'
  <2> HIDE DEF active
  <2> QED BY <1>0, <1>2, EventReleased
<1>3. ASSUME NEW result \in Results, NEW mode \in {active, off},
             w' = Unblock(w, t, mode, result), Return(t)
      PROVE  EventInv'
  <2>1. call' = [call EXCEPT ![t] = NoCall] /\ mode \in {"active", "off"}
    BY <1>3 DEF Return, Goto
  <2> HIDE DEF active, off
  <2> QED BY <1>3, <2>1, EventReleased
<1>4. CASE (TimeOut(t) \/ Interrupted(t)) /\ UNCHANGED call
  <2>1. w' = w \/ \E result \in Results : w' = Unblock(w, t, active, result)
    BY <1>4 DEF TimeOut, Interrupted, Wake, Results
  <2> QED BY <1>1, <1>2, <1>4, <2>1
<1>5. CASE (Created(t) \/ Deleted(t)) /\ Return(t)
  <2>1. \E result \in Results, mode \in {active, off} : w' = Unblock(w, t, mode, result)
    BY <1>5 DEF Created, Deleted, Results
  <2> QED BY <1>3, <1>5, <2>1
<1> QED BY <1>4, <1>5

LEMMA EventWaitKeeps ==
    ASSUME EventInv, NEW t \in Tasks, NEW h \in Nat, NEW mask \in Masks,
           NEW all \in BOOLEAN, NEW clear \in BOOLEAN, NEW timeout \in Timeouts,
           EventWait(t, h, mask, all, clear, timeout)
    PROVE  EventInv'
<1> DEFINE c == [op |-> "event_wait", handle |-> h, mask |-> mask, all |-> all,
                 clear |-> clear, timed |-> timeout = "timed", pend |-> FALSE]
<1>1. c \in EventCalls
  BY DEF EventCalls, Masks
<1>2. w.mode[t] = "active" /\ EventRound(t, c, timeout = "none")
  BY DEF EventWait, Free
<1> HIDE DEF c
<1> QED BY <1>1, <1>2, EventRoundKeeps

LEMMA EventReturnKeeps ==
    ASSUME EventInv, NEW t \in Tasks, EventWaitReturn(t)
    PROVE  EventInv'
<1>1. w.mode[t] = "active" /\ call[t].op = "event_wait"
  BY DEF EventWaitReturn, At
<1>2. call[t] \in EventCalls
  <2>1. call[t] # NoCall
    BY <1>1 DEF NoCall
  <2> QED BY <2>1 DEF EventInv, InEventWait
<1>3. CASE Return(t) /\ UNCHANGED <<w, event>>
  BY <1>1, <1>3, EventReturned DEF EventInv, EventType
<1>4. ASSUME NEW expired \in BOOLEAN, EventRound(t, call[t], expired) PROVE EventInv'
  BY <1>1, <1>2, <1>4, EventRoundKeeps
<1> QED BY <1>3, <1>4 DEF EventWaitReturn

LEMMA EventStart ==
    ASSUME WaitInit, call = [t \in Tasks |-> NoCall], EventInit
    PROVE  EventInv
<1>1. /\ w.mode = [t \in Tasks |-> "off"] /\ w.on = [t \in Tasks |-> NoList]
      /\ w \in WaitingType
  BY DEF WaitInit, AllOff, WaitingType, Modes
<1>2. InEventWait(w, call)
  BY <1>1, EventAssumption DEF InEventWait
<1>3. event \in [live : BOOLEAN, gen : Nat, flags : SUBSET Flags]
  BY DEF EventInit
<1>4. NoSatisfiedEventWaiter
  BY <1>1, EventAssumption DEF NoSatisfiedEventWaiter, WaitersOf
<1> QED BY <1>2, <1>3, <1>4 DEF EventInv

LEMMA EventSteps ==
    ASSUME EventInv, [EventNext \/ (TaskEvents /\ UNCHANGED event)]_<<w, call, event>>
    PROVE  EventInv'
<1>0. EventType /\ event.flags \subseteq event.flags
  BY DEF EventInv, EventType
<1>1. CASE EventCreate
  <2>1. event' = [live |-> TRUE, gen |-> event.gen + 1, flags |-> {}] /\ UNCHANGED <<w, call>>
    BY <1>1 DEF EventCreate
  <2>2. EventType' /\ event'.flags \subseteq event.flags
    BY <1>0, <2>1 DEF EventType
  <2> QED BY <2>1, <2>2, EventCallKeeps
<1>2. ASSUME NEW h, EventDelete(h) PROVE EventInv'
  <2>1. EventType' /\ event'.flags \subseteq event.flags /\ UNCHANGED <<w, call>>
    BY <1>0, <1>2 DEF EventType, EventDelete
  <2> QED BY <2>1, EventCallKeeps
<1>3. ASSUME NEW h, NEW flags \in Masks, EventClear(h, flags) PROVE EventInv'
  <2>1. EventType' /\ event'.flags \subseteq event.flags /\ UNCHANGED <<w, call>>
    BY <1>0, <1>3 DEF EventType, EventClear
  <2> QED BY <2>1, EventCallKeeps
<1>4. CASE EventNext
  <2>1. ASSUME NEW h \in 1 .. MaxHandles, NEW t \in Tasks, NEW mask \in Masks,
               NEW all \in BOOLEAN, NEW clear \in BOOLEAN, NEW timeout \in Timeouts,
               EventWait(t, h, mask, all, clear, timeout)
        PROVE  EventInv'
    <3>1. h \in Nat
      OBVIOUS
    <3> QED BY <2>1, <3>1, EventWaitKeeps
  <2> QED BY <1>1, <1>2, <1>3, <1>4, <2>1, EventSetKeeps, EventReturnKeeps DEF EventNext
<1>5. CASE UNCHANGED <<w, call, event>>
  BY <1>0, <1>5, EventCallKeeps DEF EventType
<1> QED BY <1>4, <1>5, EventTaskKeeps

\* aixos_event_set (kernel/ipc/event.c) serves every waiter in turn, and each
\* may consume flags of those that follow: however many tasks wait, for
\* whatever masks and in whatever modes, none is left waiting for flags that
\* are there, and none begins to.
THEOREM NoSatisfiedEventWaiterCorrect == EventSpec => []NoSatisfiedEventWaiter
<1>1. WaitInit /\ call = [t \in Tasks |-> NoCall] /\ EventInit => EventInv
  BY EventStart
<1>2. EventInv /\ [EventNext \/ (TaskEvents /\ UNCHANGED event)]_<<w, call, event>> => EventInv'
  BY EventSteps
<1>3. EventInv => NoSatisfiedEventWaiter
  BY DEF EventInv
<1> QED BY <1>1, <1>2, <1>3, PTL DEF EventSpec

-----------------------------------------------------------------------------
(* Task notifications.                                                     *)

\* The notifications and the tasks, by themselves.
NotifySpec ==
    /\ WaitInit /\ call = [t \in Tasks |-> NoCall] /\ NotifyInit
    /\ [][NotifyNext \/ NotifyTaskEvents]_<<w, call, note>>

Values == 0 .. NotifyMax

NotifyCalls ==
    [op : {"notify_wait"}, onExit : Values, take : {"no", "one", "all"}]
    \union [op : {"notify_take"}, take : {"one", "all"}]

NoteType ==
    [value : [Tasks -> Values], pending : [Tasks -> BOOLEAN], counting : BOOLEAN]

\* A task and its notification, wherever the task is in a call: c is the call.
NoteFit(mode, on, result, c, value, pending, counting) ==
    /\ on = SelfWait <=> mode = "waiting"
    /\ mode = "waiting" => c.op = "notify_wait" /\ ~pending
    /\ mode = "active" /\ c.op = "notify_wait" /\ result = "OK" => pending
    /\ counting /\ c.op = "notify_wait" => c.take = "one" /\ c.onExit = 0
    /\ counting /\ value > 0 /\ c.op # "notify_take" => pending
    /\ mode = "off" => value = 0

TaskFit(ww, cc, nn, t) ==
    NoteFit(ww.mode[t], ww.on[t], ww.result[t], cc[t], nn.value[t], nn.pending[t], nn.counting)

NotifyType ==
    /\ w \in WaitingType /\ call \in [Tasks -> NotifyCalls \union {NoCall}]
    /\ note \in NoteType

NotifyInv == NotifyType /\ \A t \in Tasks : TaskFit(w, call, note, t)

\* The record note, changed in both its fields.
Noted(nn, t, v, p) == [nn EXCEPT !.value[t] = v, !.pending[t] = p]

LEMMA NotifyConstants ==
    /\ SelfWait \in WaitLists /\ SelfWait # NoList /\ NotifyMax \in Nat
    /\ 0 \in Values
    /\ \A v \in Values : v \in Int /\ ~(v < 0) /\ (v # 0 => v > 0 /\ v - 1 \in Values)
BY NotifyAssumption DEF Values

LEMMA NoteEffect ==
    ASSUME NEW nn \in NoteType, NEW t \in Tasks, NEW v \in Values, NEW p \in BOOLEAN,
           NEW m, m = Noted(nn, t, v, p)
    PROVE  /\ m \in NoteType /\ m.value[t] = v /\ m.pending[t] = p
           /\ m.counting = nn.counting
           /\ \A u \in Tasks \ {t} : m.value[u] = nn.value[u] /\ m.pending[u] = nn.pending[u]
<1> DEFINE v1 == [nn EXCEPT !.value[t] = v]
           v2 == [v1 EXCEPT !.pending[t] = p]
<1>1. v1 = [value |-> [nn.value EXCEPT ![t] = v], pending |-> nn.pending, counting |-> nn.counting]
  BY DEF NoteType
<1> HIDE DEF v1
<1>2. v2 = [value |-> [nn.value EXCEPT ![t] = v], pending |-> [nn.pending EXCEPT ![t] = p],
            counting |-> nn.counting]
  BY <1>1
<1> HIDE DEF v2
<1>3. m = v2
  BY Zenon DEF v1, v2, Noted
<1> QED BY <1>2, <1>3 DEF NoteType

\* A step of one task.
LEMMA OneTaskKeeps ==
    ASSUME NotifyInv, NEW t \in Tasks, NotifyType', note'.counting = note.counting,
           \A u \in Tasks \ {t} :
              /\ w'.mode[u] = w.mode[u] /\ w'.on[u] = w.on[u] /\ w'.result[u] = w.result[u]
              /\ call'[u] = call[u]
              /\ note'.value[u] = note.value[u] /\ note'.pending[u] = note.pending[u],
           TaskFit(w', call', note', t)
    PROVE  NotifyInv'
<1>1. ASSUME NEW u \in Tasks PROVE TaskFit(w', call', note', u)
  <2>1. CASE u = t
    BY <2>1
  <2>2. CASE u # t
    <3>1. u \in Tasks \ {t}
      BY <2>2
    <3> QED BY <3>1 DEF TaskFit, NotifyInv
  <2> QED BY <2>1, <2>2
<1> QED BY <1>1 DEF NotifyInv

LEMMA CallGoes ==
    ASSUME NotifyType, NEW t \in Tasks, NEW c \in NotifyCalls \union {NoCall}, Goto(t, c)
    PROVE  /\ call' \in [Tasks -> NotifyCalls \union {NoCall}] /\ call'[t] = c
           /\ \A u \in Tasks \ {t} : call'[u] = call[u]
BY DEF Goto, NotifyType

LEMMA NewValueIs ==
    ASSUME NEW old \in Values, NEW arg \in Values,
           NEW action \in {"SET_BITS", "INCREMENT", "OVERWRITE", "NO_OVERWRITE"},
           action = "INCREMENT" => old # NotifyMax
    PROVE  NewValue(old, action, arg) \in Values
<1>1. NotifyMax \in Nat /\ BitOr(old, arg) \in Values
  BY NotifyAssumption DEF Values
<1>2. CASE action = "SET_BITS"
  BY <1>1, <1>2 DEF NewValue
<1>3. CASE action = "INCREMENT"
  BY <1>1, <1>3 DEF NewValue, Values
<1>4. CASE action \in {"OVERWRITE", "NO_OVERWRITE"}
  BY <1>4 DEF NewValue
<1> QED BY <1>2, <1>3, <1>4

LEMMA ClearIs ==
    ASSUME NEW value \in Values, NEW mask \in Values
    PROVE  Clear(value, mask) \in Values /\ (mask = 0 => Clear(value, mask) = value)
<1>1. BitAnd(value, mask) \in 0 .. value /\ (mask = 0 => BitAnd(value, mask) = 0)
  BY NotifyAssumption DEF Values
<1> DEFINE x == BitAnd(value, mask)
<1>2. /\ value \in 0 .. NotifyMax /\ NotifyMax \in Nat /\ x \in 0 .. value
      /\ (mask = 0 => x = 0) /\ Clear(value, mask) = value - x
  BY <1>1, NotifyAssumption DEF Values, Clear
<1> HIDE DEF x
<1> QED BY <1>2 DEF Values

LEMMA TaskNotifyKeeps ==
    ASSUME NotifyInv, NEW t \in Tasks, NEW arg \in Values,
           NEW action \in {"SET_BITS", "INCREMENT", "OVERWRITE", "NO_OVERWRITE"},
           TaskNotify(t, action, arg)
    PROVE  NotifyInv'
<1> DEFINE v == NewValue(note.value[t], action, arg)
<1>1. /\ w \in WaitingType /\ note \in NoteType
      /\ note.value[t] \in Values
  BY DEF NotifyInv, NotifyType, NoteType
<1>2. v \in Values
  <2>1. action = "INCREMENT" => note.value[t] # NotifyMax
    BY DEF TaskNotify
  <2> DEFINE old == note.value[t]
  <2> HIDE DEF old
  <2>2. NewValue(old, action, arg) \in Values
    BY <1>1, <2>1, NewValueIs DEF old
  <2> QED BY <2>2 DEF old
<1>3. /\ note' = [note EXCEPT !.value[t] = v, !.pending[t] = TRUE]
      /\ w' = IF w.on[t] = SelfWait THEN Wake(w, t, "OK") ELSE w
      /\ call' = call
  BY DEF TaskNotify
<1> HIDE DEF v
<1> DEFINE yes == TRUE
<1>8. note' = Noted(note, t, v, yes) /\ yes \in BOOLEAN
  BY <1>3, Zenon DEF Noted
<1>9. yes
  OBVIOUS
<1> HIDE DEF yes
<1>4. /\ note' \in NoteType /\ note'.value[t] = v /\ note'.pending[t] = yes
      /\ note'.counting = note.counting
      /\ \A u \in Tasks \ {t} : note'.value[u] = note.value[u] /\ note'.pending[u] = note.pending[u]
  BY <1>1, <1>2, <1>8, NoteEffect
<1>5. TaskFit(w, call, note, t) /\ w.mode[t] # "off"
  BY DEF NotifyInv, TaskNotify
<1>6. CASE w.on[t] = SelfWait
  <2> DEFINE active == "active"
             ok == "OK"
  <2>1. w' = Unblock(w, t, active, ok)
    BY <1>3, <1>5, <1>6 DEF Wake, TaskFit, NoteFit
  <2>2. active \in Modes /\ ok \in Results
    BY DEF Modes, Results
  <2> HIDE DEF active, ok
  <2>3. /\ w' \in WaitingType /\ w'.on[t] = NoList /\ w'.mode[t] = active /\ w'.result[t] = ok
        /\ \A u \in Tasks \ {t} : /\ w'.on[u] = w.on[u] /\ w'.mode[u] = w.mode[u]
                                  /\ w'.result[u] = w.result[u]
    BY <1>1, <2>1, <2>2, UnblockEffect
  <2>4. NotifyType'
    BY <1>3, <1>4, <2>3 DEF NotifyInv, NotifyType
  <2>5. TaskFit(w', call', note', t)
    BY <1>3, <1>4, <1>5, <1>6, <1>9, <2>3, NotifyConstants DEF TaskFit, NoteFit, active, ok
  <2> QED BY <1>3, <1>4, <2>3, <2>4, <2>5, OneTaskKeeps
<1>7. CASE w.on[t] # SelfWait
  <2>1. w' = w
    BY <1>3, <1>7
  <2>2. NotifyType'
    BY <1>3, <1>4, <2>1 DEF NotifyInv, NotifyType
  <2>3. TaskFit(w', call', note', t)
    BY <1>3, <1>4, <1>5, <1>7, <1>9, <2>1 DEF TaskFit, NoteFit
  <2> QED BY <1>3, <1>4, <2>1, <2>2, <2>3, OneTaskKeeps
<1> QED BY <1>6, <1>7

\* The end of aixos_task_notify_wait, which clears the pending flag.
LEMMA CollectKeeps ==
    ASSUME NotifyInv, NEW t \in Tasks, w.mode[t] = "active",
           NEW value \in Values, NEW onExit \in Values, NEW take \in {"no", "one", "all"},
           Collect(t, value, onExit, take), UNCHANGED w,
           note.counting => take = "one"
    PROVE  NotifyInv'
<1> DEFINE v == Clear(value, onExit)
           c == IF take = "no" THEN NoCall ELSE [op |-> "notify_take", take |-> take]
<1>1. v \in Values /\ note \in NoteType
  BY ClearIs DEF NotifyInv, NotifyType
<1>2. note' = [note EXCEPT !.value[t] = v, !.pending[t] = FALSE] /\ Goto(t, c)
  BY DEF Collect, Return
<1>3. c \in NotifyCalls \union {NoCall} /\ c.op # "notify_wait"
      /\ (take = "one" => c.op = "notify_take")
  BY DEF NotifyCalls, NoCall
<1> HIDE DEF v, c
<1> PICK no \in BOOLEAN : no = FALSE
  OBVIOUS
<1>4. note' = Noted(note, t, v, no)
  BY <1>2, Zenon DEF Noted
<1>5. /\ note' \in NoteType /\ note'.value[t] = v /\ note'.pending[t] = no
      /\ note'.counting = note.counting
      /\ \A u \in Tasks \ {t} : note'.value[u] = note.value[u] /\ note'.pending[u] = note.pending[u]
  BY <1>1, <1>4, NoteEffect
<1>6. /\ call' \in [Tasks -> NotifyCalls \union {NoCall}] /\ call'[t] = c
      /\ \A u \in Tasks \ {t} : call'[u] = call[u]
  BY <1>2, <1>3, CallGoes DEF NotifyInv
<1>7. NotifyType'
  BY <1>5, <1>6 DEF NotifyInv, NotifyType
<1>8. TaskFit(w, call, note, t)
  BY DEF NotifyInv
<1>9. TaskFit(w', call', note', t)
  BY <1>3, <1>5, <1>6, <1>8 DEF TaskFit, NoteFit
<1> QED BY <1>5, <1>6, <1>7, <1>9, OneTaskKeeps

\* The value alone changes, and no count is added.
LEMMA ValueKeeps ==
    ASSUME NotifyInv, NEW t \in Tasks, w.mode[t] = "active", call[t] = NoCall,
           NEW v \in Values, note' = [note EXCEPT !.value[t] = v],
           note.counting => v = note.value[t], UNCHANGED <<w, call>>
    PROVE  NotifyInv'
<1>1. note \in NoteType /\ TaskFit(w, call, note, t) /\ NoCall.op = "none"
  BY DEF NotifyInv, NotifyType, NoCall
<1>2. note' = [value |-> [note.value EXCEPT ![t] = v], pending |-> note.pending,
               counting |-> note.counting]
  BY <1>1 DEF NoteType
<1>3. /\ note' \in NoteType /\ note'.value[t] = v /\ note'.pending = note.pending
      /\ note'.counting = note.counting
      /\ \A u \in Tasks \ {t} : note'.value[u] = note.value[u]
  BY <1>1, <1>2 DEF NoteType
<1>4. NotifyType'
  BY <1>3 DEF NotifyInv, NotifyType
<1>5. TaskFit(w', call', note', t)
  BY <1>1, <1>3 DEF TaskFit, NoteFit
<1> QED BY <1>3, <1>4, <1>5, OneTaskKeeps

LEMMA NotifyWaitKeeps ==
    ASSUME NotifyInv, NEW t \in Tasks, NEW onEntry \in Values, NEW onExit \in Values,
           NEW take \in {"no", "one", "all"}, NEW timeout \in Timeouts,
           NotifyWait(t, onEntry, onExit, take, timeout),
           note.counting => onEntry = 0 /\ onExit = 0 /\ take = "one"
    PROVE  NotifyInv'
<1> DEFINE v == Clear(note.value[t], onEntry)
<1>1. /\ w \in WaitingType /\ note \in NoteType /\ note.value[t] \in Values
      /\ TaskFit(w, call, note, t)
  BY DEF NotifyInv, NotifyType, NoteType
<1>2. v \in Values /\ (note.counting => v = note.value[t])
  BY <1>1, ClearIs
<1>3. w.mode[t] = "active" /\ call[t] = NoCall
  BY DEF NotifyWait, Free
<1>4. CASE note.pending[t]
  <2>1. Collect(t, v, onExit, take) /\ UNCHANGED w
    BY <1>4 DEF NotifyWait
  <2> HIDE DEF v
  <2> QED BY <1>2, <1>3, <2>1, CollectKeeps
<1>5. CASE ~note.pending[t]
  <2>1. /\ note' = [note EXCEPT !.value[t] = v]
        /\ IF timeout = "none" THEN UNCHANGED <<w, call>>
           ELSE /\ w' = BlockOn(w, t, SelfWait, timeout = "timed")
                /\ Goto(t, [op |-> "notify_wait", onExit |-> onExit, take |-> take])
    BY <1>5 DEF NotifyWait
  <2> HIDE DEF v
  <2>2. CASE timeout = "none"
    BY <1>2, <1>3, <2>1, <2>2, ValueKeeps
  <2>3. CASE timeout # "none"
    <3> DEFINE c == [op |-> "notify_wait", onExit |-> onExit, take |-> take]
    <3>1. /\ c \in NotifyCalls \union {NoCall} /\ c.op = "notify_wait"
          /\ c.onExit = onExit /\ c.take = take
      BY DEF NotifyCalls
    <3> DEFINE timed == timeout = "timed"
    <3>2. w' = BlockOn(w, t, SelfWait, timed) /\ Goto(t, c) /\ timed \in BOOLEAN
      BY <2>1, <2>3
    <3> HIDE DEF c, timed
    <3>3. /\ w' \in WaitingType
          /\ w'.on[t] = SelfWait /\ w'.mode[t] = "waiting" /\ w'.result[t] = "OK"
          /\ \A u \in Tasks \ {t} :
                /\ w'.on[u] = w.on[u] /\ w'.mode[u] = w.mode[u]
                /\ w'.result[u] = w.result[u]
      BY <1>1, <3>2, BlockEffect, NotifyConstants
    <3>4. /\ call' \in [Tasks -> NotifyCalls \union {NoCall}] /\ call'[t] = c
          /\ \A u \in Tasks \ {t} : call'[u] = call[u]
      BY <3>1, <3>2, CallGoes DEF NotifyInv
    <3>5. note' = [value |-> [note.value EXCEPT ![t] = v], pending |-> note.pending,
                   counting |-> note.counting]
      BY <1>1, <2>1 DEF NoteType
    <3>6. /\ note' \in NoteType /\ note'.value[t] = v /\ note'.pending = note.pending
          /\ note'.counting = note.counting
          /\ \A u \in Tasks \ {t} : note'.value[u] = note.value[u]
      BY <1>1, <1>2, <3>5 DEF NoteType
    <3>7. NotifyType'
      BY <3>3, <3>4, <3>6 DEF NotifyInv, NotifyType
    <3>8. NoCall.op = "none"
      BY DEF NoCall
    <3>9. TaskFit(w', call', note', t)
      BY <1>1, <1>2, <1>3, <1>5, <3>1, <3>3, <3>4, <3>6, <3>8 DEF TaskFit, NoteFit
    <3> QED BY <3>3, <3>4, <3>6, <3>7, <3>9, OneTaskKeeps
  <2> QED BY <2>2, <2>3
<1> QED BY <1>4, <1>5

LEMMA NotifyReturnKeeps ==
    ASSUME NotifyInv, NEW t \in Tasks, NotifyWaitReturn(t)
    PROVE  NotifyInv'
<1>1. w.mode[t] = "active" /\ call[t].op = "notify_wait" /\ UNCHANGED w
  BY DEF NotifyWaitReturn, At
<1>2. /\ note \in NoteType /\ note.value[t] \in Values /\ TaskFit(w, call, note, t)
      /\ call[t] \in NotifyCalls \union {NoCall} /\ NoCall.op = "none"
  BY DEF NotifyInv, NotifyType, NoteType, NoCall
<1>3. call[t].onExit \in Values /\ call[t].take \in {"no", "one", "all"}
  BY <1>1, <1>2 DEF NotifyCalls
<1>4. note.counting => call[t].take = "one"
  BY <1>1, <1>2 DEF TaskFit, NoteFit
<1>5. CASE w.result[t] # "OK"
  <2>1. Goto(t, NoCall) /\ UNCHANGED note
    BY <1>5 DEF NotifyWaitReturn, Return
  <2>2. /\ call' \in [Tasks -> NotifyCalls \union {NoCall}] /\ call'[t] = NoCall
        /\ \A u \in Tasks \ {t} : call'[u] = call[u]
    BY <2>1, CallGoes DEF NotifyInv
  <2>3. NotifyType'
    BY <1>1, <2>1, <2>2 DEF NotifyInv, NotifyType
  <2>4. TaskFit(w', call', note', t)
    BY <1>1, <1>2, <2>1, <2>2 DEF TaskFit, NoteFit
  <2> QED BY <1>1, <2>1, <2>2, <2>3, <2>4, OneTaskKeeps
<1>6. CASE w.result[t] = "OK"
  <2>1. Collect(t, note.value[t], call[t].onExit, call[t].take)
    BY <1>6 DEF NotifyWaitReturn
  <2> DEFINE value == note.value[t]
             onExit == call[t].onExit
             take == call[t].take
  <2>2. /\ value \in Values /\ onExit \in Values /\ take \in {"no", "one", "all"}
        /\ Collect(t, value, onExit, take) /\ (note.counting => take = "one")
    BY <1>2, <1>3, <1>4, <2>1
  <2> HIDE DEF value, onExit, take
  <2> QED BY <1>1, <2>2, CollectKeeps
<1> QED BY <1>5, <1>6

LEMMA NotifyTakeKeeps ==
    ASSUME NotifyInv, NEW t \in Tasks, NotifyTake(t)
    PROVE  NotifyInv'
<1> DEFINE remains == IF call[t].take = "all" \/ note.value[t] = 0 THEN 0 ELSE note.value[t] - 1
<1>1. w.mode[t] = "active" /\ UNCHANGED w /\ Goto(t, NoCall)
      /\ note' = [note EXCEPT !.value[t] = remains, !.pending[t] = @ \/ remains # 0]
  BY DEF NotifyTake, At, Return
<1>2. /\ note \in NoteType /\ note.value[t] \in Values /\ note.pending[t] \in BOOLEAN
      /\ TaskFit(w, call, note, t) /\ NoCall.op = "none"
  BY DEF NotifyInv, NotifyType, NoteType, NoCall
<1>3. remains \in Values
  BY <1>2, NotifyConstants
<1> HIDE DEF remains
<1> DEFINE kept == note.pending[t] \/ remains # 0
<1>4. note' = Noted(note, t, remains, kept) /\ kept \in BOOLEAN
  BY <1>1, Zenon DEF Noted
<1>0. note.pending[t] \/ remains # 0 => kept
  OBVIOUS
<1> HIDE DEF kept
<1>5. /\ note' \in NoteType /\ note'.value[t] = remains /\ note'.pending[t] = kept
      /\ note'.counting = note.counting
      /\ \A u \in Tasks \ {t} : note'.value[u] = note.value[u] /\ note'.pending[u] = note.pending[u]
  BY <1>2, <1>3, <1>4, NoteEffect
<1>6. /\ call' \in [Tasks -> NotifyCalls \union {NoCall}] /\ call'[t] = NoCall
      /\ \A u \in Tasks \ {t} : call'[u] = call[u]
  BY <1>1, CallGoes DEF NotifyInv
<1>7. NotifyType'
  BY <1>1, <1>5, <1>6 DEF NotifyInv, NotifyType
<1>8. remains > 0 => remains # 0
  BY <1>3, NotifyConstants
<1>9. TaskFit(w', call', note', t)
  BY <1>0, <1>1, <1>2, <1>5, <1>6, <1>8 DEF TaskFit, NoteFit
<1> QED BY <1>1, <1>5, <1>6, <1>7, <1>9, OneTaskKeeps

\* A task that leaves its wait or its call, or that has none.
LEMMA NotifyTaskKeeps ==
    ASSUME NotifyInv, NotifyTaskEvents
    PROVE  NotifyInv'
<1> PICK t \in Tasks : \/ (TimeOut(t) \/ Interrupted(t)) /\ UNCHANGED call
                       \/ (Created(t) \/ Deleted(t)) /\ Return(t)
  BY DEF NotifyTaskEvents, TaskEvents
<1>1. w \in WaitingType /\ note \in NoteType /\ call \in [Tasks -> NotifyCalls \union {NoCall}]
      /\ TaskFit(w, call, note, t) /\ NoCall.op = "none"
  BY DEF NotifyInv, NotifyType, NoCall
<1>2. /\ \A u \in Tasks \ {t} : /\ w'.on[u] = w.on[u] /\ w'.mode[u] = w.mode[u]
                                /\ w'.result[u] = w.result[u] /\ call'[u] = call[u]
      /\ w' \in WaitingType /\ call' \in [Tasks -> NotifyCalls \union {NoCall}]
      /\ \/ w'.on[t] = w.on[t] /\ w'.mode[t] = w.mode[t] /\ w'.result[t] = w.result[t]
            /\ call'[t] = call[t]
         \/ /\ w'.on[t] = NoList /\ w'.mode[t] = "active" /\ w'.result[t] # "OK"
            /\ w.mode[t] = "waiting" /\ call'[t] = call[t]
         \/ /\ w'.on[t] = NoList /\ w'.mode[t] \in {"off", "active"} /\ call'[t] = NoCall
            /\ (w'.mode[t] = "active" => w.mode[t] = "off")
  <2> DEFINE active == "active"
             off == "off"
  <2>0. active \in Modes /\ off \in Modes /\ active = "active" /\ off = "off"
    BY DEF Modes
  <2>1. CASE w' = w /\ UNCHANGED call
    BY <1>1, <2>1
  <2>2. CASE \E result \in Results : /\ result # "OK" /\ w.mode[t] = "waiting"
                                    /\ w' = Unblock(w, t, active, result)
                                    /\ UNCHANGED call
    <3> PICK result \in Results : /\ result # "OK" /\ w.mode[t] = "waiting"
                                  /\ w' = Unblock(w, t, active, result)
                                  /\ UNCHANGED call
      BY <2>2
    <3> HIDE DEF active, off
    <3>1. /\ w' \in WaitingType /\ w'.on[t] = NoList /\ w'.mode[t] = active
          /\ w'.result[t] = result
          /\ \A u \in Tasks \ {t} : /\ w'.on[u] = w.on[u] /\ w'.mode[u] = w.mode[u]
                                    /\ w'.result[u] = w.result[u]
      BY <1>1, <2>0, UnblockEffect
    <3> QED BY <1>1, <2>0, <3>1
  <2>3. CASE \E result \in Results, mode \in {active, off} :
                /\ w' = Unblock(w, t, mode, result) /\ Goto(t, NoCall)
                /\ (mode = active => w.mode[t] = off)
    <3> PICK result \in Results, mode \in {active, off} :
                /\ w' = Unblock(w, t, mode, result) /\ Goto(t, NoCall)
                /\ (mode = active => w.mode[t] = off)
      BY <2>3
    <3> HIDE DEF active, off
    <3>1. /\ w' \in WaitingType /\ w'.on[t] = NoList /\ w'.mode[t] = mode
          /\ \A u \in Tasks \ {t} : /\ w'.on[u] = w.on[u] /\ w'.mode[u] = w.mode[u]
                                    /\ w'.result[u] = w.result[u]
      BY <1>1, <2>0, UnblockEffect
    <3>2. /\ call' \in [Tasks -> NotifyCalls \union {NoCall}] /\ call'[t] = NoCall
          /\ \A u \in Tasks \ {t} : call'[u] = call[u]
      BY CallGoes DEF NotifyInv
    <3> QED BY <2>0, <3>1, <3>2
  <2>4. CASE (TimeOut(t) \/ Interrupted(t)) /\ UNCHANGED call
    <3>1. (w.mode[t] = "waiting") => w.on[t] # NoList
      BY <1>1, NotifyAssumption DEF TaskFit, NoteFit
    <3>2. \/ w' = w
          \/ \E result \in Results : /\ result # "OK" /\ w.mode[t] = "waiting"
                                    /\ w' = Unblock(w, t, active, result)
      BY <2>4, <3>1 DEF TimeOut, Interrupted, Wake, Results
    <3> QED BY <2>1, <2>2, <2>4, <3>2
  <2>5. CASE (Created(t) \/ Deleted(t)) /\ Return(t)
    <3>1. \E result \in Results, mode \in {active, off} :
             w' = Unblock(w, t, mode, result) /\ (mode = active => w.mode[t] = off)
      <4>1. "OK" \in Results /\ "INTR" \in Results /\ active # off
        BY DEF Results
      <4>2. CASE Created(t)
        <5>1. w' = Unblock(w, t, active, "OK") /\ w.mode[t] = off
          BY <4>2 DEF Created
        <5> QED BY <4>1, <5>1
      <4>3. CASE Deleted(t)
        <5>1. w' = Unblock(w, t, off, "OK") \/ w' = Unblock(w, t, off, "INTR")
          BY <4>3 DEF Deleted
        <5> HIDE DEF active, off
        <5> QED BY <4>1, <5>1
      <4> QED BY <2>5, <4>2, <4>3
    <3>2. Goto(t, NoCall)
      BY <2>5 DEF Return
    <3> HIDE DEF active, off
    <3> QED BY <2>3, <3>1, <3>2
  <2> QED BY <2>4, <2>5
<1>3. note' = [value |-> [u \in Tasks |-> IF w'.mode[u] = "off" THEN 0 ELSE note.value[u]],
               pending |-> [u \in Tasks |-> w'.mode[u] # "off" /\ note.pending[u]],
               counting |-> note.counting]
  BY <1>1 DEF NotifyTaskEvents, NoteType
<1>4. note' \in NoteType /\ note'.counting = note.counting
  BY <1>1, <1>3, NotifyAssumption DEF NoteType, Values
<1>5. NotifyType'
  BY <1>2, <1>4 DEF NotifyType
<1>6. ASSUME NEW u \in Tasks PROVE TaskFit(w', call', note', u)
  <2>1. /\ note'.value[u] = IF w'.mode[u] = "off" THEN 0 ELSE note.value[u]
        /\ note'.pending[u] <=> w'.mode[u] # "off" /\ note.pending[u]
    BY <1>3
  <2>2. TaskFit(w, call, note, u) /\ SelfWait # NoList
    BY NotifyAssumption DEF NotifyInv
  <2>3. CASE /\ w'.on[u] = w.on[u] /\ w'.mode[u] = w.mode[u] /\ w'.result[u] = w.result[u]
             /\ call'[u] = call[u]
    BY <1>4, <2>1, <2>2, <2>3 DEF TaskFit, NoteFit
  <2>4. CASE u = t /\ /\ w'.on[t] = NoList /\ w'.mode[t] = "active" /\ w'.result[t] # "OK"
                     /\ w.mode[t] = "waiting" /\ call'[t] = call[t]
    BY <1>4, <2>1, <2>2, <2>4 DEF TaskFit, NoteFit
  <2>5. CASE u = t /\ /\ w'.on[t] = NoList /\ w'.mode[t] \in {"off", "active"}
                     /\ call'[t] = NoCall /\ (w'.mode[t] = "active" => w.mode[t] = "off")
    BY <1>1, <1>4, <2>1, <2>2, <2>5 DEF TaskFit, NoteFit
  <2> QED BY <1>2, <2>3, <2>4, <2>5
<1> QED BY <1>5, <1>6 DEF NotifyInv

LEMMA NotifyStart ==
    ASSUME WaitInit, call = [t \in Tasks |-> NoCall], NotifyInit
    PROVE  NotifyInv
<1>1. /\ w.mode = [t \in Tasks |-> "off"] /\ w.on = [t \in Tasks |-> NoList]
      /\ w \in WaitingType
  BY DEF WaitInit, AllOff, WaitingType, Modes
<1>2. PICK counting \in BOOLEAN :
         note = [value |-> [t \in Tasks |-> 0], pending |-> [t \in Tasks |-> FALSE],
                 counting |-> counting]
  BY DEF NotifyInit
<1>3. note \in NoteType /\ note.value = [t \in Tasks |-> 0]
  BY <1>2, NotifyAssumption DEF NoteType, Values
<1>4. NotifyType /\ NoCall.op = "none"
  BY <1>1, <1>3 DEF NotifyType, NoCall
<1>5. ASSUME NEW t \in Tasks PROVE TaskFit(w, call, note, t)
  <2>1. /\ w.mode[t] = "off" /\ w.on[t] = NoList /\ call[t].op = "none"
        /\ note.value[t] = 0
    BY <1>1, <1>3, <1>4
  <2> QED BY <2>1, NotifyConstants DEF TaskFit, NoteFit
<1> QED BY <1>4, <1>5 DEF NotifyInv

LEMMA NotifySteps ==
    ASSUME NotifyInv, [NotifyNext \/ NotifyTaskEvents]_<<w, call, note>>
    PROVE  NotifyInv'
<1>0. 0 \in Values /\ NotifyArgs \subseteq Values
  BY NotifyAssumption DEF Values
<1>1. CASE NotifyNext
  <2> PICK t \in Tasks :
        \/ TaskNotify(t, "INCREMENT", 0)
        \/ NotifyWaitReturn(t)
        \/ NotifyTake(t)
        \/ \E timeout \in Timeouts : NotifyWait(t, 0, 0, "one", timeout)
        \/ /\ ~note.counting
           /\ \/ \E action \in {"SET_BITS", "OVERWRITE", "NO_OVERWRITE"},
                    arg \in NotifyArgs : TaskNotify(t, action, arg)
              \/ \E timeout \in Timeouts : NotifyWait(t, 0, 0, "all", timeout)
              \/ \E timeout \in Timeouts, onEntry, onExit \in NotifyArgs :
                    NotifyWait(t, onEntry, onExit, "no", timeout)
    BY <1>1 DEF NotifyNext
  <2> DEFINE Actions == {"SET_BITS", "INCREMENT", "OVERWRITE", "NO_OVERWRITE"}
             Takes == {"no", "one", "all"}
  <2>1. ASSUME NEW action \in Actions, NEW arg \in Values, TaskNotify(t, action, arg)
        PROVE  NotifyInv'
    BY <2>1, TaskNotifyKeeps
  <2>2. ASSUME NEW onEntry \in Values, NEW onExit \in Values, NEW take \in Takes,
               NEW timeout \in Timeouts, NotifyWait(t, onEntry, onExit, take, timeout),
               note.counting => onEntry = 0 /\ onExit = 0 /\ take = "one"
        PROVE  NotifyInv'
    BY <2>2, NotifyWaitKeeps
  <2>3. CASE TaskNotify(t, "INCREMENT", 0)
    BY <1>0, <2>1, <2>3
  <2>4. CASE NotifyWaitReturn(t)
    BY <2>4, NotifyReturnKeeps
  <2>5. CASE NotifyTake(t)
    BY <2>5, NotifyTakeKeeps
  <2>6. CASE \E timeout \in Timeouts : NotifyWait(t, 0, 0, "one", timeout)
    BY <1>0, <2>2, <2>6
  <2>7. CASE \E action \in {"SET_BITS", "OVERWRITE", "NO_OVERWRITE"},
               arg \in NotifyArgs : TaskNotify(t, action, arg)
    BY <1>0, <2>1, <2>7
  <2>8. CASE ~note.counting /\ \E timeout \in Timeouts : NotifyWait(t, 0, 0, "all", timeout)
    BY <1>0, <2>2, <2>8
  <2>9. CASE ~note.counting /\ \E timeout \in Timeouts, onEntry, onExit \in NotifyArgs :
               NotifyWait(t, onEntry, onExit, "no", timeout)
    BY <1>0, <2>2, <2>9
  <2> QED BY <2>3, <2>4, <2>5, <2>6, <2>7, <2>8, <2>9
<1>2. CASE NotifyTaskEvents
  BY <1>2, NotifyTaskKeeps
<1>3. CASE UNCHANGED <<w, call, note>>
  BY <1>3 DEF NotifyInv, NotifyType, TaskFit
<1> QED BY <1>1, <1>2, <1>3

\* kernel/ipc/notify.c: for every number of tasks and every width of the value,
\* whatever notifications, timeouts, suspensions and deletions fall between
\* the critical sections of a wait and of a take, a task that waits has no
\* notification pending, a task that was woken finds one, and a count that is
\* left is announced.
THEOREM NotificationsKeptCorrect == NotifySpec => []NotificationsKept
<1>1. WaitInit /\ call = [t \in Tasks |-> NoCall] /\ NotifyInit => NotifyInv
  BY NotifyStart
<1>2. NotifyInv /\ [NotifyNext \/ NotifyTaskEvents]_<<w, call, note>> => NotifyInv'
  BY NotifySteps
<1>3. NotifyInv => NotificationsKept
  BY DEF NotifyInv, TaskFit, NoteFit, NotificationsKept, At
<1> QED BY <1>1, <1>2, <1>3, PTL DEF NotifySpec
=============================================================================
