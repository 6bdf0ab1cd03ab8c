----------------------------- MODULE PosixThread -----------------------------
(***************************************************************************)
(* POSIX threads (compat/posix/posix.c): the record of a thread, which the *)
(* thread itself, a task that joins it and a task that detaches it use, and*)
(* which exactly one of them has to free.  A thread is a kernel task; its  *)
(* handle is not used again, so a task is created once.                    *)
(*                                                                         *)
(* The wait list of the completion semaphore of thread h is named h.       *)
(* call[t].on is the thread whose record t uses.  call[t].op:              *)
(*   link      has created the thread, which is not in the list yet        *)
(*   post      is complete and is about to say so                          *)
(*   await     joins, does not wait yet                                    *)
(*   joining   waits for the completion                                    *)
(*   unlink    takes the record out of the list, to free it                *)
(*   free      has taken it out                                            *)
(***************************************************************************)
EXTENDS Calls

ASSUME PosixThreadAssumption == Tasks \subseteq WaitLists /\ NoList \notin WaitLists

VARIABLE rec

\* memory is none, allocated or freed; early is history: the thread ended
\* before aixos_pthread_create had put its record into the list.
NoRecord ==
    [memory |-> "none", linked |-> FALSE, detached |-> FALSE, completed |-> FALSE,
     joining |-> FALSE, posts |-> 0, early |-> FALSE]

ThreadInit == rec = [h \in Tasks |-> NoRecord]

\* thread_find
Found(h) == rec[h].linked

\* A task is about to do op with the record of h.
Use(t, op, h) ==
    Goto(t, [op |-> op, what |-> "thread", on |-> h, detached |-> FALSE])

-----------------------------------------------------------------------------
(* Creation.                                                               *)

\* aixos_pthread_create up to the creation of the task, which may run at once;
\* a creation that fails leaves nothing behind.
ThreadCreate(t, h, detached) ==
    /\ Free(t) /\ rec[h].memory = "none" /\ w.mode[h] = "off"
    /\ rec' = [rec EXCEPT ![h].memory = "allocated", ![h].detached = detached]
    /\ w' = Unblock(w, h, "active", "OK")
    /\ Use(t, "link", h)

\* Its last critical section: the record goes into the list.
ThreadLink(t) ==
    /\ At(t, "link")
    /\ rec' = [rec EXCEPT ![call[t].on].linked = TRUE]
    /\ Return(t)
    /\ UNCHANGED w

-----------------------------------------------------------------------------
(* The end of a thread.                                                    *)


\* thread_complete, first critical section, after the function of the thread
\* has returned.
ThreadComplete(t) ==
    /\ rec' = [rec EXCEPT ![t].completed = TRUE, ![t].early = ~rec[t].linked]
    /\ Goto(t, [op |-> "post", what |-> "thread", on |-> t, detached |-> rec[t].detached])
    /\ UNCHANGED w

ThreadReturn(t) ==
    /\ Free(t) /\ rec[t].memory # "none"
    /\ ThreadComplete(t)

\* aixos_pthread_exit finds the record in the list, or ends without it.
ThreadExit(t) ==
    /\ Free(t)
    /\ IF Found(t) THEN ThreadComplete(t)
       ELSE /\ rec[t].memory # "none"
            /\ rec' = [rec EXCEPT ![t].early = TRUE]
            /\ w' = Unblock(w, t, "off", "OK")
            /\ UNCHANGED call

\* aixos_sem_post on the completion, which has at most one waiter.  If the
\* record has been freed meanwhile, so is the semaphore.
ThreadPost(t) ==
    /\ At(t, "post")
    /\ LET live == rec[t].memory = "allocated"
           waiters == WaitersOf(w, t)
           posted == IF live /\ waiters # {}
                     THEN Wake(w, CHOOSE j \in waiters : TRUE, "OK") ELSE w
       IN  /\ rec' = IF live /\ waiters = {} THEN [rec EXCEPT ![t].posts = @ + 1] ELSE rec
           /\ IF call[t].detached THEN w' = posted /\ Use(t, "unlink", t)
              ELSE w' = Unblock(posted, t, "off", "OK") /\ Return(t)

\* thread_remove
ThreadUnlink(t) ==
    /\ At(t, "unlink")
    /\ rec' = [rec EXCEPT ![call[t].on].linked = FALSE]
    /\ Use(t, "free", call[t].on)
    /\ UNCHANGED w

\* The semaphore is deleted and the record freed, by the thread itself, which
\* ends then, or by another task.
ThreadFree(t) ==
    /\ At(t, "free")
    /\ rec' = [rec EXCEPT ![call[t].on].memory = "freed"]
    /\ Return(t)
    /\ w' = IF call[t].on = t /\ rec[t].completed THEN Unblock(w, t, "off", "OK") ELSE w

-----------------------------------------------------------------------------
(* aixos_pthread_join and aixos_pthread_detach.                            *)

Join(t, h) ==
    /\ Free(t) /\ t # h /\ Found(h)
    /\ ~rec[h].detached /\ ~rec[h].joining
    /\ rec' = [rec EXCEPT ![h].joining = TRUE]
    /\ Use(t, "await", h)
    /\ UNCHANGED w

JoinWait(t) ==
    /\ At(t, "await")
    /\ LET h == call[t].on
       IN  IF rec[h].posts > 0
           THEN /\ rec' = [rec EXCEPT ![h].posts = @ - 1]
                /\ Use(t, "unlink", h)
                /\ UNCHANGED w
           ELSE /\ w' = BlockOn(w, t, h, FALSE)
                /\ Use(t, "joining", h)
                /\ UNCHANGED rec

\* A join that is interrupted can be repeated.
JoinReturn(t) ==
    /\ At(t, "joining")
    /\ LET h == call[t].on
       IN  IF w.result[t] = "OK" THEN Use(t, "unlink", h) /\ UNCHANGED rec
           ELSE /\ rec' = [rec EXCEPT ![h].joining = FALSE]
                /\ Return(t)
    /\ UNCHANGED w

\* Faulty: a thread that is being joined is detached as well.
DetachableAnyway(h) == ~rec[h].detached

Detachable(h) == ~rec[h].detached /\ ~rec[h].joining

\* A thread that is complete is freed by the task that detaches it.
Detach(t, h) ==
    /\ Free(t) /\ Found(h) /\ Detachable(h)
    /\ rec' = [rec EXCEPT ![h].detached = TRUE,
                          ![h].linked = ~rec[h].completed]
    /\ IF rec[h].completed THEN Use(t, "free", h) ELSE UNCHANGED call
    /\ UNCHANGED w

ThreadNext ==
    \E t \in Tasks :
        \/ ThreadLink(t) \/ ThreadReturn(t) \/ ThreadExit(t) \/ ThreadPost(t)
        \/ ThreadUnlink(t) \/ ThreadFree(t) \/ JoinWait(t) \/ JoinReturn(t)
        \/ \E h \in Tasks :
              \/ \E detached \in BOOLEAN : ThreadCreate(t, h, detached)
              \/ Join(t, h) \/ Detach(t, h)

-----------------------------------------------------------------------------

UsersOf(h, ops) == {t \in Tasks : call[t].op \in ops /\ call[t].on = h}

\* The thread was detached after it had looked whether it was, before it posts
\* its completion: it posts with what is left of its record.
DetachedMeanwhile(h) ==
    UsersOf(h, {"post"}) # {} /\ rec[h].detached /\ ~call[h].detached

Over(h) == rec[h].memory # "none" /\ w.mode[h] = "off"

\* posix.c, lines 114 to 350: of the thread, the task that joins it and those
\* that detach it one frees the record, once, and nobody uses it afterwards; a
\* thread that is over is freed if it is detached and kept for a join if not,
\* and nobody waits for its end; however exits, joins, interrupted joins and
\* detachments interleave.  Two cases are excluded: a thread that ended before
\* its record was linked, and the one of DetachedMeanwhile.
RecordsFreedOnce ==
    \A h \in Tasks : ~rec[h].early =>
        /\ rec[h].linked => rec[h].memory = "allocated"
        /\ Cardinality(UsersOf(h, {"unlink", "free", "await", "joining"})) <= 1
        /\ UsersOf(h, {"post", "unlink", "free", "await", "joining"}) # {} =>
              rec[h].memory = "allocated" \/ DetachedMeanwhile(h)
        /\ Over(h) /\ UsersOf(h, {"unlink", "free", "link"}) = {} =>
              /\ WaitersOf(w, h) = {}
              /\ rec[h].detached => rec[h].memory = "freed"
              /\ rec[h].memory = "allocated" => rec[h].linked /\ ~rec[h].detached
=============================================================================
