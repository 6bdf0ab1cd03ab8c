----------------------------- MODULE PosixMutex -----------------------------
(***************************************************************************)
(* POSIX mutexes (compat/posix/posix.c): an owner and a count of locks     *)
(* beside those of the mutex of the kernel, written by the threads outside *)
(* of any critical section, before and after their calls of the kernel.    *)
(*                                                                         *)
(* call[t].op:                                                             *)
(*   lock       is about to call aixos_mutex_lock                          *)
(*   locking    waits in it                                                *)
(*   locked     has the mutex of the kernel, and has not noted it yet      *)
(*   unlock     has noted it, and is about to call aixos_mutex_unlock      *)
(***************************************************************************)
EXTENDS Calls

CONSTANTS
    LockList,  \* the wait list of the mutex
    NoThread,  \* AIXOS_HANDLE_INVALID, and NULL
    MaxDepth   \* bound on the locks that a thread holds

ASSUME PosixMutexAssumption ==
    /\ LockList \in WaitLists /\ NoList \notin WaitLists
    /\ NoThread \notin Tasks

\* type, owner and lock_count of the POSIX mutex; native, owner and count of
\* that of the kernel.  depth is history: per thread, the locks that succeeded
\* and were not undone by an unlock that did.
VARIABLE pmutex

Types == {"NORMAL", "RECURSIVE", "ERRORCHECK"}

MutexInit ==
    \E type \in Types :
        pmutex = [type |-> type, owner |-> NoThread, count |-> 0,
                  native |-> [owner |-> NoThread, count |-> 0],
                  depth |-> [t \in Tasks |-> 0]]

Step(t, op, how) == Goto(t, [op |-> op, what |-> "mutex", how |-> how])

-----------------------------------------------------------------------------
(* aixos_pthread_mutex_lock, _trylock and _timedlock.                      *)

LockCall(t, how) ==
    /\ Free(t) /\ pmutex.depth[t] < MaxDepth
    /\ IF pmutex.owner = t /\ pmutex.type # "NORMAL"
       THEN /\ pmutex.type = "RECURSIVE"
            /\ pmutex' = [pmutex EXCEPT !.count = @ + 1, !.depth[t] = @ + 1]
            /\ UNCHANGED call
       ELSE Step(t, "lock", how) /\ UNCHANGED pmutex
    /\ UNCHANGED w

\* aixos_mutex_lock: the mutex of the kernel is recursive.
NativeLock(t) ==
    /\ At(t, "lock")
    /\ IF pmutex.native.owner \in {NoThread, t}
       THEN /\ pmutex' = [pmutex EXCEPT !.native = [owner |-> t, count |-> @.count + 1]]
            /\ Step(t, "locked", "none")
            /\ UNCHANGED w
       ELSE /\ UNCHANGED pmutex
            /\ IF call[t].how = "none" THEN Return(t) /\ UNCHANGED w
               ELSE /\ w' = BlockOn(w, t, LockList, call[t].how = "timed")
                    /\ Step(t, "locking", "none")

LockReturns(t) ==
    /\ At(t, "locking")
    /\ IF w.result[t] = "OK" THEN Step(t, "locked", "none") ELSE Return(t)
    /\ UNCHANGED <<w, pmutex>>

NoteOwner(t) ==
    /\ At(t, "locked")
    /\ pmutex' = [pmutex EXCEPT !.owner = t, !.count = 1, !.depth[t] = @ + 1]
    /\ Return(t)
    /\ UNCHANGED w

-----------------------------------------------------------------------------
(* aixos_pthread_mutex_unlock.                                             *)

\* Faulty: any thread may.
AnyoneMayUnlock(t) == TRUE

MayUnlock(t) == pmutex.type = "NORMAL" \/ pmutex.owner = t

UnlockCall(t) ==
    /\ Free(t) /\ MayUnlock(t)
    /\ IF pmutex.type = "RECURSIVE" /\ pmutex.count > 1
       THEN /\ pmutex' = [pmutex EXCEPT !.count = @ - 1, !.depth[t] = @ - 1]
            /\ UNCHANGED call
       ELSE /\ pmutex' = [pmutex EXCEPT !.owner = NoThread, !.count = 0]
            /\ Step(t, "unlock", "none")
    /\ UNCHANGED w

\* aixos_mutex_unlock: the mutex is handed to a waiter, if there is one, and
\* the call fails if the thread does not own it.
HandOver(t) ==
    IF pmutex.native.count > 1
    THEN /\ pmutex' = [pmutex EXCEPT !.native.count = @ - 1, !.depth[t] = @ - 1]
         /\ UNCHANGED w
    ELSE IF WaitersOf(w, LockList) = {}
    THEN /\ pmutex' = [pmutex EXCEPT !.native = [owner |-> NoThread, count |-> 0],
                                     !.depth[t] = @ - 1]
         /\ UNCHANGED w
    ELSE \E next \in WaitersOf(w, LockList) :
            /\ pmutex' = [pmutex EXCEPT !.native = [owner |-> next, count |-> 1],
                                        !.depth[t] = @ - 1]
            /\ w' = Wake(w, next, "OK")

NativeUnlock(t) ==
    /\ At(t, "unlock")
    /\ IF pmutex.native.owner = t THEN HandOver(t) ELSE UNCHANGED <<w, pmutex>>
    /\ Return(t)

LockWaitEnds(t) == (TimeOut(t) \/ Interrupted(t)) /\ UNCHANGED <<call, pmutex>>

MutexNext ==
    \E t \in Tasks :
        \/ \E how \in Timeouts : LockCall(t, how)
        \/ NativeLock(t) \/ LockReturns(t) \/ NoteOwner(t)
        \/ UnlockCall(t) \/ NativeUnlock(t) \/ LockWaitEnds(t)

-----------------------------------------------------------------------------

\* posix.c, lines 590 to 710: although the owner and the count are written
\* outside of the critical sections that hand the mutex over, and waits end by
\* timeout or suspension, a thread that is in no call of the mutex has locked
\* it exactly as often as the two layers say together, one thread at a time;
\* and a mutex that knows its owner never takes another thread for it.
MutexLayersAgree ==
    /\ \A t \in Tasks : Free(t) =>
          /\ pmutex.depth[t] > 0 <=> pmutex.native.owner = t
          /\ pmutex.native.owner = t =>
                IF pmutex.type = "RECURSIVE"
                THEN pmutex.depth[t] = pmutex.count /\ pmutex.native.count = 1
                ELSE pmutex.depth[t] = pmutex.native.count
          /\ pmutex.type # "NORMAL" => (pmutex.depth[t] > 0 <=> pmutex.owner = t)
    /\ pmutex.type # "NORMAL" =>
          pmutex.owner \in {NoThread, pmutex.native.owner}
=============================================================================
