---------------------------- MODULE PosixProofs -----------------------------
(***************************************************************************)
(* The POSIX objects (compat/posix/posix.c, posix/src): what the run posix *)
(* checks on three threads, for any number of them and any tables.  A      *)
(* behaviour of module Posix uses one kind of object; the others are then  *)
(* as they were at the start, and no call of theirs is under way.          *)
(***************************************************************************)
EXTENDS Posix, WaitingProofs, FiniteSetTheorems

-----------------------------------------------------------------------------
(* Mutexes: owner and count of a POSIX mutex agree with those of the mutex *)
(* of the kernel (compat/posix/posix.c, kernel/ipc/mutex.c).               *)

\* One mutex and the threads, by themselves.
MutexStart ==
    /\ w = [AllOff EXCEPT !.mode = [t \in Tasks |-> "active"]]
    /\ call = [t \in Tasks |-> NoCall]
    /\ MutexInit

mutexVars == <<w, call, pmutex>>

PosixMutexSpec == MutexStart /\ [][MutexNext]_mutexVars

-----------------------------------------------------------------------------
(* The inductive invariant.                                                *)

MutexCalls ==
    {NoCall} \union [op : {"lock", "locking", "locked", "unlock"},
                     what : {"mutex"}, how : Timeouts]

NativeType == [owner : Tasks \union {NoThread}, count : Nat]

MutexType ==
    [type : Types, owner : Tasks \union {NoThread}, count : Nat,
     native : NativeType, depth : [Tasks -> Nat]]

TypeInv ==
    /\ w \in WaitingType
    /\ call \in [Tasks -> MutexCalls]
    /\ pmutex \in MutexType

\* Threads wait in aixos_mutex_lock, and nowhere else.
WaitInv ==
    \A t \in Tasks :
        /\ w.mode[t] \in {"active", "waiting"} /\ w.on[t] \in {LockList, NoList}
        /\ w.mode[t] = "waiting" <=> w.on[t] = LockList
        /\ w.mode[t] = "waiting" => call[t].op = "locking"

\* Nobody waits for a mutex that is free; and the POSIX layer knows its owner
\* or none.
OwnerInv ==
    /\ pmutex.native.owner = NoThread =>
          pmutex.native.count = 0 /\ \A t \in Tasks : w.on[t] # LockList
    /\ pmutex.type # "NORMAL" => pmutex.owner \in {NoThread, pmutex.native.owner}

\* A thread that does not own the mutex of the kernel.
Stranger(t) ==
    /\ pmutex.depth[t] = 0
    /\ call[t].op # "locked"
    /\ call[t].op = "unlock" => pmutex.type = "NORMAL"
    /\ call[t].op = "locking" /\ w.mode[t] = "active" => w.result[t] # "OK"

\* The thread that owns it: in the application, or about to call the kernel;
\* or it has been given the mutex, and is yet to note it.
Settled(t) ==
    /\ call[t].op \in {"none", "lock", "unlock"}
    /\ pmutex.depth[t] > 0
    /\ pmutex.type # "RECURSIVE" => pmutex.native.count = pmutex.depth[t]
    /\ pmutex.type = "RECURSIVE" =>
          /\ pmutex.native.count = 1
          /\ IF call[t].op = "unlock" THEN pmutex.depth[t] = 1
             ELSE pmutex.depth[t] = pmutex.count
    /\ pmutex.type # "NORMAL" =>
          /\ call[t].op # "lock"
          /\ pmutex.owner = IF call[t].op = "unlock" THEN NoThread ELSE t
    /\ pmutex.type = "ERRORCHECK" => pmutex.depth[t] = 1

Arriving(t) ==
    /\ call[t].op \in {"locking", "locked"}
    /\ pmutex.native.count = pmutex.depth[t] + 1
    /\ call[t].op = "locking" =>
          pmutex.depth[t] = 0 /\ w.mode[t] = "active" /\ w.result[t] = "OK"
    /\ pmutex.type # "NORMAL" => pmutex.depth[t] = 0 /\ pmutex.owner = NoThread

ThreadInv ==
    \A t \in Tasks :
        IF pmutex.native.owner = t THEN Settled(t) \/ Arriving(t) ELSE Stranger(t)

LayersInv == TypeInv /\ WaitInv /\ OwnerInv /\ ThreadInv

-----------------------------------------------------------------------------
(* What the steps of a thread do to its place in the call.                 *)

\* A thread that goes on in the call, or returns.
LEMMA GotoEffect ==
    ASSUME call \in [Tasks -> MutexCalls], NEW t \in Tasks,
           NEW c \in MutexCalls, Goto(t, c)
    PROVE  /\ call' \in [Tasks -> MutexCalls]
           /\ call'[t] = c
           /\ \A u \in Tasks \ {t} : call'[u] = call[u]
BY DEF Goto

LEMMA StepEffect ==
    ASSUME call \in [Tasks -> MutexCalls], NEW t \in Tasks,
           NEW op \in {"lock", "locking", "locked", "unlock"},
           NEW how \in Timeouts, Step(t, op, how)
    PROVE  /\ call' \in [Tasks -> MutexCalls]
           /\ call'[t].op = op
           /\ \A u \in Tasks \ {t} : call'[u] = call[u]
<1> DEFINE c == [op |-> op, what |-> "mutex", how |-> how]
<1>1. c \in MutexCalls /\ c.op = op
  BY DEF MutexCalls
<1>2. Goto(t, c)
  BY DEF Step
<1> QED BY <1>1, <1>2, GotoEffect

LEMMA ReturnEffect ==
    ASSUME call \in [Tasks -> MutexCalls], NEW t \in Tasks, Return(t)
    PROVE  /\ call' \in [Tasks -> MutexCalls]
           /\ call'[t].op = "none"
           /\ \A u \in Tasks \ {t} : call'[u] = call[u]
<1>1. NoCall \in MutexCalls /\ NoCall.op = "none"
  BY DEF MutexCalls, NoCall
<1> QED BY <1>1, GotoEffect DEF Return

LEMMA Fields ==
    ASSUME pmutex \in MutexType
    PROVE  /\ pmutex.type \in Types /\ pmutex.owner \in Tasks \union {NoThread}
           /\ pmutex.count \in Nat /\ pmutex.native \in NativeType
           /\ pmutex.native.owner \in Tasks \union {NoThread}
           /\ pmutex.native.count \in Nat /\ pmutex.depth \in [Tasks -> Nat]
BY DEF MutexType, NativeType

LEMMA FreeMeans ==
    ASSUME NEW t \in Tasks, Free(t)
    PROVE  w.mode[t] = "active" /\ call[t].op = "none"
BY DEF Free, NoCall

-----------------------------------------------------------------------------
(* The steps.                                                              *)

LEMMA LockCallStep ==
    ASSUME LayersInv, NEW t \in Tasks, NEW how \in Timeouts, LockCall(t, how)
    PROVE  LayersInv'
<1>1. w.mode[t] = "active" /\ call[t].op = "none" /\ UNCHANGED w
  BY FreeMeans DEF LockCall
<1>2. CASE pmutex.owner = t /\ pmutex.type # "NORMAL"
  <2>1. /\ pmutex.type = "RECURSIVE"
        /\ pmutex' = [pmutex EXCEPT !.count = @ + 1, !.depth[t] = @ + 1]
        /\ UNCHANGED call
    BY <1>2 DEF LockCall
  <2>2. pmutex' = [type |-> pmutex.type, owner |-> pmutex.owner,
                   count |-> pmutex.count + 1, native |-> pmutex.native,
                   depth |-> [pmutex.depth EXCEPT ![t] = @ + 1]]
    BY <2>1 DEF LayersInv, TypeInv, MutexType
  <2>3. TypeInv'
    <3>1. [pmutex.depth EXCEPT ![t] = @ + 1] \in [Tasks -> Nat] /\ pmutex.count + 1 \in Nat
      BY Fields DEF LayersInv, TypeInv
    <3>2. pmutex' \in MutexType
      BY <2>2, <3>1, Fields DEF LayersInv, TypeInv, MutexType
    <3> QED BY <1>1, <2>1, <3>2 DEF LayersInv, TypeInv
  <2>4. WaitInv'
    BY <1>1, <2>1 DEF LayersInv, WaitInv
  <2>5. OwnerInv'
    BY <1>1, <2>1, <2>2 DEF LayersInv, OwnerInv
  <2>6. pmutex.native.owner = t
    BY <1>2, PosixMutexAssumption DEF LayersInv, OwnerInv
  <2>7. ThreadInv'
    BY <1>1, <1>2, <2>1, <2>2, <2>6
       DEF LayersInv, TypeInv, MutexType, NativeType, ThreadInv, Settled, Arriving, Stranger
  <2> QED BY <2>3, <2>4, <2>5, <2>7 DEF LayersInv
<1>3. CASE ~(pmutex.owner = t /\ pmutex.type # "NORMAL")
  <2>1. Step(t, "lock", how) /\ UNCHANGED pmutex
    BY <1>3 DEF LockCall
  <2>2. /\ call' \in [Tasks -> MutexCalls] /\ call'[t].op = "lock"
        /\ \A u \in Tasks \ {t} : call'[u] = call[u]
    BY <2>1, StepEffect DEF LayersInv, TypeInv
  <2>3. TypeInv'
    BY <1>1, <2>1, <2>2 DEF LayersInv, TypeInv
  <2>4. WaitInv'
    BY <1>1, <2>2 DEF LayersInv, WaitInv
  <2>5. OwnerInv'
    BY <1>1, <2>1 DEF LayersInv, OwnerInv
  <2>6. ThreadInv'
    BY <1>1, <1>3, <2>1, <2>2 DEF LayersInv, ThreadInv, Settled, Arriving, Stranger
  <2> QED BY <2>3, <2>4, <2>5, <2>6 DEF LayersInv
<1> QED BY <1>2, <1>3

LEMMA NativeLockStep ==
    ASSUME LayersInv, NEW t \in Tasks, NativeLock(t)
    PROVE  LayersInv'
<1>1. w.mode[t] = "active" /\ call[t].op = "lock"
  BY DEF NativeLock, At
<1>2. CASE pmutex.native.owner \in {NoThread, t}
  <2>1. /\ pmutex' = [pmutex EXCEPT !.native = [owner |-> t, count |-> @.count + 1]]
        /\ Step(t, "locked", "none")
        /\ UNCHANGED w
    BY <1>2 DEF NativeLock
  <2>2. /\ pmutex' = [type |-> pmutex.type, owner |-> pmutex.owner,
                      count |-> pmutex.count,
                      native |-> [owner |-> t, count |-> pmutex.native.count + 1],
                      depth |-> pmutex.depth]
        /\ pmutex' \in MutexType
    <3>1. pmutex' = [type |-> pmutex.type, owner |-> pmutex.owner,
                     count |-> pmutex.count,
                     native |-> [owner |-> t, count |-> pmutex.native.count + 1],
                     depth |-> pmutex.depth]
      BY <2>1 DEF LayersInv, TypeInv, MutexType
    <3>2. [owner |-> t, count |-> pmutex.native.count + 1] \in NativeType
      BY Fields DEF LayersInv, TypeInv, NativeType
    <3> QED BY <3>1, <3>2, Fields DEF LayersInv, TypeInv, MutexType
  <2>3. /\ call' \in [Tasks -> MutexCalls] /\ call'[t].op = "locked"
        /\ \A u \in Tasks \ {t} : call'[u] = call[u]
    BY <2>1, StepEffect DEF LayersInv, TypeInv, Timeouts
  <2>4. TypeInv'
    BY <2>1, <2>2, <2>3 DEF LayersInv, TypeInv
  <2>5. WaitInv'
    BY <1>1, <2>1, <2>3 DEF LayersInv, WaitInv
  <2>6. OwnerInv'
    <3>1. CASE pmutex.native.owner = t
      BY <2>2, <3>1, PosixMutexAssumption DEF LayersInv, OwnerInv
    <3>2. CASE pmutex.native.owner = NoThread
      BY <2>2, <3>2, PosixMutexAssumption DEF LayersInv, OwnerInv
    <3> QED BY <1>2, <3>1, <3>2
  <2>7. Arriving(t)'
    <3>1. CASE pmutex.native.owner = t
      BY <1>1, <2>2, <2>3, <3>1, Fields
         DEF LayersInv, TypeInv, ThreadInv, Settled, Arriving
    <3>2. CASE pmutex.native.owner = NoThread
      BY <1>1, <2>2, <2>3, <3>2, PosixMutexAssumption, Fields
         DEF LayersInv, TypeInv, OwnerInv, ThreadInv, Stranger, Arriving
    <3> QED BY <1>2, <3>1, <3>2
  <2>8. \A u \in Tasks \ {t} : Stranger(u)'
    BY <1>2, <2>1, <2>2, <2>3, PosixMutexAssumption
       DEF LayersInv, ThreadInv, Stranger
  <2>9. ThreadInv'
    BY <2>2, <2>7, <2>8 DEF ThreadInv
  <2> QED BY <2>4, <2>5, <2>6, <2>9 DEF LayersInv
<1>3. CASE pmutex.native.owner \notin {NoThread, t} /\ call[t].how = "none"
  <2>1. Return(t) /\ UNCHANGED <<w, pmutex>>
    BY <1>3 DEF NativeLock
  <2>2. /\ call' \in [Tasks -> MutexCalls] /\ call'[t].op = "none"
        /\ \A u \in Tasks \ {t} : call'[u] = call[u]
    BY <2>1, ReturnEffect DEF LayersInv, TypeInv
  <2>3. TypeInv' /\ WaitInv' /\ OwnerInv'
    BY <1>1, <2>1, <2>2 DEF LayersInv, TypeInv, WaitInv, OwnerInv
  <2>4. ThreadInv'
    BY <1>3, <2>1, <2>2 DEF LayersInv, ThreadInv, Settled, Arriving, Stranger
  <2> QED BY <2>3, <2>4 DEF LayersInv
<1>4. CASE pmutex.native.owner \notin {NoThread, t} /\ call[t].how # "none"
  <2>1. PICK timed \in BOOLEAN : w' = BlockOn(w, t, LockList, timed)
    BY <1>4 DEF NativeLock
  <2>2. Step(t, "locking", "none") /\ UNCHANGED pmutex
    BY <1>4 DEF NativeLock
  <2>3. /\ call' \in [Tasks -> MutexCalls] /\ call'[t].op = "locking"
        /\ \A u \in Tasks \ {t} : call'[u] = call[u]
    BY <2>2, StepEffect DEF LayersInv, TypeInv, Timeouts
  <2>4. /\ w' \in WaitingType
        /\ w'.on[t] = LockList /\ w'.mode[t] = "waiting"
        /\ \A u \in Tasks \ {t} :
              /\ w'.on[u] = w.on[u] /\ w'.mode[u] = w.mode[u]
              /\ w'.result[u] = w.result[u]
    BY <2>1, BlockEffect, PosixMutexAssumption DEF LayersInv, TypeInv
  <2>5. TypeInv' /\ WaitInv'
    BY <2>2, <2>3, <2>4 DEF LayersInv, TypeInv, WaitInv
  <2>6. OwnerInv'
    BY <1>4, <2>2 DEF LayersInv, OwnerInv
  <2>7. ThreadInv'
    BY <1>4, <2>2, <2>3, <2>4 DEF LayersInv, ThreadInv, Settled, Arriving, Stranger
  <2> QED BY <2>5, <2>6, <2>7 DEF LayersInv
<1> QED BY <1>2, <1>3, <1>4

LEMMA LockReturnsStep ==
    ASSUME LayersInv, NEW t \in Tasks, LockReturns(t)
    PROVE  LayersInv'
<1>1. /\ w.mode[t] = "active" /\ call[t].op = "locking"
      /\ UNCHANGED <<w, pmutex>>
  BY DEF LockReturns, At
<1>2. CASE w.result[t] = "OK"
  <2>1. Step(t, "locked", "none")
    BY <1>2 DEF LockReturns
  <2>2. /\ call' \in [Tasks -> MutexCalls] /\ call'[t].op = "locked"
        /\ \A u \in Tasks \ {t} : call'[u] = call[u]
    BY <2>1, StepEffect DEF LayersInv, TypeInv, Timeouts
  <2>3. TypeInv' /\ WaitInv' /\ OwnerInv'
    BY <1>1, <2>2 DEF LayersInv, TypeInv, WaitInv, OwnerInv
  <2>4. ThreadInv'
    BY <1>1, <1>2, <2>2 DEF LayersInv, ThreadInv, Settled, Arriving, Stranger
  <2> QED BY <2>3, <2>4 DEF LayersInv
<1>3. CASE w.result[t] # "OK"
  <2>1. Return(t)
    BY <1>3 DEF LockReturns
  <2>2. /\ call' \in [Tasks -> MutexCalls] /\ call'[t].op = "none"
        /\ \A u \in Tasks \ {t} : call'[u] = call[u]
    BY <2>1, ReturnEffect DEF LayersInv, TypeInv
  <2>3. TypeInv' /\ WaitInv' /\ OwnerInv'
    BY <1>1, <2>2 DEF LayersInv, TypeInv, WaitInv, OwnerInv
  <2>4. ThreadInv'
    BY <1>1, <1>3, <2>2 DEF LayersInv, ThreadInv, Settled, Arriving, Stranger
  <2> QED BY <2>3, <2>4 DEF LayersInv
<1> QED BY <1>2, <1>3

LEMMA NoteOwnerStep ==
    ASSUME LayersInv, NEW t \in Tasks, NoteOwner(t)
    PROVE  LayersInv'
<1>1. /\ w.mode[t] = "active" /\ call[t].op = "locked" /\ UNCHANGED w
      /\ pmutex' = [pmutex EXCEPT !.owner = t, !.count = 1, !.depth[t] = @ + 1]
      /\ Return(t)
  BY DEF NoteOwner, At
<1>2. pmutex' = [type |-> pmutex.type, owner |-> t, count |-> 1,
                 native |-> pmutex.native,
                 depth |-> [pmutex.depth EXCEPT ![t] = @ + 1]]
  BY <1>1 DEF LayersInv, TypeInv, MutexType
<1>3. pmutex' \in MutexType
  <2>1. [pmutex.depth EXCEPT ![t] = @ + 1] \in [Tasks -> Nat]
    BY Fields DEF LayersInv, TypeInv
  <2> QED BY <1>2, <2>1, Fields DEF LayersInv, TypeInv, MutexType
<1>4. /\ call' \in [Tasks -> MutexCalls] /\ call'[t].op = "none"
      /\ \A u \in Tasks \ {t} : call'[u] = call[u]
  BY <1>1, ReturnEffect DEF LayersInv, TypeInv
<1>5. pmutex.native.owner = t /\ Arriving(t)
  BY <1>1 DEF LayersInv, ThreadInv, Settled, Stranger
<1>6. TypeInv' /\ WaitInv'
  BY <1>1, <1>3, <1>4 DEF LayersInv, TypeInv, WaitInv
<1>7. OwnerInv'
  BY <1>2, <1>5, PosixMutexAssumption DEF LayersInv, OwnerInv
<1>8. Settled(t)'
  BY <1>1, <1>2, <1>4, <1>5, Fields DEF LayersInv, TypeInv, Settled, Arriving
<1>9. \A u \in Tasks \ {t} : Stranger(u)'
  BY <1>1, <1>2, <1>4, <1>5, Fields DEF LayersInv, TypeInv, ThreadInv, Stranger
<1>10. ThreadInv'
  BY <1>2, <1>5, <1>8, <1>9 DEF ThreadInv
<1> QED BY <1>6, <1>7, <1>10 DEF LayersInv

LEMMA UnlockCallStep ==
    ASSUME LayersInv, NEW t \in Tasks, UnlockCall(t)
    PROVE  LayersInv'
<1>1. /\ w.mode[t] = "active" /\ call[t].op = "none" /\ UNCHANGED w
      /\ pmutex.type = "NORMAL" \/ pmutex.owner = t
  BY FreeMeans DEF UnlockCall, MayUnlock
<1>2. pmutex.type # "NORMAL" => pmutex.native.owner = t /\ Settled(t)
  BY <1>1, PosixMutexAssumption DEF LayersInv, OwnerInv, ThreadInv, Arriving
<1>3. CASE pmutex.type = "RECURSIVE" /\ pmutex.count > 1
  <2>1. /\ pmutex' = [pmutex EXCEPT !.count = @ - 1, !.depth[t] = @ - 1]
        /\ UNCHANGED call
    BY <1>3 DEF UnlockCall
  <2>2. pmutex' = [type |-> pmutex.type, owner |-> pmutex.owner,
                   count |-> pmutex.count - 1, native |-> pmutex.native,
                   depth |-> [pmutex.depth EXCEPT ![t] = @ - 1]]
    BY <2>1 DEF LayersInv, TypeInv, MutexType
  <2>3. pmutex.depth[t] = pmutex.count /\ pmutex.count \in Nat
    BY <1>1, <1>2, <1>3, Fields DEF LayersInv, TypeInv, Settled
  <2>4. pmutex' \in MutexType
    <3>1. [pmutex.depth EXCEPT ![t] = @ - 1] \in [Tasks -> Nat] /\ pmutex.count - 1 \in Nat
      BY <1>3, <2>3, Fields DEF LayersInv, TypeInv
    <3> QED BY <2>2, <3>1, Fields DEF LayersInv, TypeInv, MutexType
  <2>5. TypeInv' /\ WaitInv' /\ OwnerInv'
    BY <1>1, <2>1, <2>2, <2>4 DEF LayersInv, TypeInv, WaitInv, OwnerInv
  <2>6. Settled(t)'
    BY <1>1, <1>2, <1>3, <2>1, <2>2, <2>3, Fields DEF LayersInv, TypeInv, Settled
  <2>7. \A u \in Tasks \ {t} : Stranger(u)'
    BY <1>1, <1>2, <1>3, <2>1, <2>2, Fields DEF LayersInv, TypeInv, ThreadInv, Stranger
  <2>8. ThreadInv'
    BY <1>2, <1>3, <2>2, <2>6, <2>7 DEF ThreadInv
  <2> QED BY <2>5, <2>8 DEF LayersInv
<1>4. CASE ~(pmutex.type = "RECURSIVE" /\ pmutex.count > 1)
  <2>1. /\ pmutex' = [pmutex EXCEPT !.owner = NoThread, !.count = 0]
        /\ Step(t, "unlock", "none")
    BY <1>4 DEF UnlockCall
  <2>2. /\ pmutex' = [type |-> pmutex.type, owner |-> NoThread, count |-> 0,
                      native |-> pmutex.native, depth |-> pmutex.depth]
        /\ pmutex' \in MutexType
    BY <2>1, Fields DEF LayersInv, TypeInv, MutexType
  <2>3. /\ call' \in [Tasks -> MutexCalls] /\ call'[t].op = "unlock"
        /\ \A u \in Tasks \ {t} : call'[u] = call[u]
    BY <2>1, StepEffect DEF LayersInv, TypeInv, Timeouts
  <2>4. TypeInv' /\ WaitInv' /\ OwnerInv'
    BY <1>1, <2>2, <2>3 DEF LayersInv, TypeInv, WaitInv, OwnerInv
  <2>5. ASSUME pmutex.type = "NORMAL" PROVE ThreadInv'
    BY <1>1, <2>2, <2>3, <2>5 DEF LayersInv, ThreadInv, Settled, Arriving, Stranger
  <2>6. ASSUME pmutex.type # "NORMAL" PROVE ThreadInv'
    <3>1. Settled(t)'
      BY <1>1, <1>2, <1>4, <2>2, <2>3, <2>6, Fields DEF LayersInv, TypeInv, Settled
    <3>2. \A u \in Tasks \ {t} : Stranger(u)'
      BY <1>1, <1>2, <2>2, <2>3, <2>6 DEF LayersInv, ThreadInv, Stranger
    <3> QED BY <1>2, <2>2, <2>6, <3>1, <3>2 DEF ThreadInv
  <2> QED BY <2>4, <2>5, <2>6 DEF LayersInv
<1> QED BY <1>3, <1>4

LEMMA NativeUnlockStep ==
    ASSUME LayersInv, NEW t \in Tasks, NativeUnlock(t)
    PROVE  LayersInv'
<1>1. w.mode[t] = "active" /\ call[t].op = "unlock" /\ Return(t)
  BY DEF NativeUnlock, At
<1>2. /\ call' \in [Tasks -> MutexCalls] /\ call'[t].op = "none"
      /\ \A u \in Tasks \ {t} : call'[u] = call[u]
  BY <1>1, ReturnEffect DEF LayersInv, TypeInv
<1>3. CASE pmutex.native.owner # t
  <2>1. UNCHANGED <<w, pmutex>>
    BY <1>3 DEF NativeUnlock
  <2>2. TypeInv' /\ WaitInv' /\ OwnerInv'
    BY <1>1, <1>2, <2>1 DEF LayersInv, TypeInv, WaitInv, OwnerInv
  <2>3. ThreadInv'
    BY <1>1, <1>2, <1>3, <2>1 DEF LayersInv, ThreadInv, Settled, Arriving, Stranger
  <2> QED BY <2>2, <2>3 DEF LayersInv
<1>4. CASE pmutex.native.owner = t
  <2>1. HandOver(t) /\ Settled(t)
    BY <1>1, <1>4 DEF NativeUnlock, LayersInv, ThreadInv, Arriving
  <2>2. /\ pmutex.native.count = pmutex.depth[t] /\ pmutex.depth[t] > 0
        /\ pmutex.depth[t] \in Nat
        /\ pmutex.type # "NORMAL" => pmutex.depth[t] = 1 /\ pmutex.owner = NoThread
    BY <1>1, <2>1, Fields DEF LayersInv, TypeInv, Settled, Types
  <2>3. [pmutex.depth EXCEPT ![t] = @ - 1] \in [Tasks -> Nat]
    BY <2>2, Fields DEF LayersInv, TypeInv
  <2>4. CASE pmutex.native.count > 1
    <3>1. /\ pmutex' = [pmutex EXCEPT !.native.count = @ - 1, !.depth[t] = @ - 1]
          /\ UNCHANGED w
      BY <2>1, <2>4 DEF HandOver
    <3>2. pmutex' = [type |-> pmutex.type, owner |-> pmutex.owner,
                     count |-> pmutex.count,
                     native |-> [owner |-> t, count |-> pmutex.native.count - 1],
                     depth |-> [pmutex.depth EXCEPT ![t] = @ - 1]]
      BY <1>4, <3>1 DEF LayersInv, TypeInv, MutexType, NativeType
    <3>3. pmutex' \in MutexType
      <4>1. [owner |-> t, count |-> pmutex.native.count - 1] \in NativeType
        BY <2>2, <2>4 DEF NativeType
      <4> QED BY <2>3, <3>2, <4>1, Fields DEF LayersInv, TypeInv, MutexType
    <3>4. TypeInv' /\ WaitInv'
      BY <1>1, <1>2, <3>1, <3>3 DEF LayersInv, TypeInv, WaitInv
    <3>5. OwnerInv'
      <4>1. pmutex'.native.owner = t /\ t # NoThread
        BY <3>2, PosixMutexAssumption
      <4>2. pmutex'.type = pmutex.type /\ pmutex'.owner = pmutex.owner
        BY <3>2
      <4> QED BY <1>4, <4>1, <4>2 DEF LayersInv, OwnerInv
    <3>6. Settled(t)'
      BY <1>2, <2>2, <2>4, <3>2, Fields DEF LayersInv, TypeInv, Settled, Types
    <3>7. \A u \in Tasks \ {t} : Stranger(u)'
      BY <1>2, <1>4, <3>1, <3>2, Fields DEF LayersInv, TypeInv, ThreadInv, Stranger
    <3>8. ThreadInv'
      BY <3>2, <3>6, <3>7 DEF ThreadInv
    <3> QED BY <3>4, <3>5, <3>8 DEF LayersInv
  <2>5. CASE ~(pmutex.native.count > 1) /\ WaitersOf(w, LockList) = {}
    <3>1. /\ pmutex' = [pmutex EXCEPT !.native = [owner |-> NoThread, count |-> 0],
                                      !.depth[t] = @ - 1]
          /\ UNCHANGED w
      BY <2>1, <2>5 DEF HandOver
    <3>2. pmutex' = [type |-> pmutex.type, owner |-> pmutex.owner,
                     count |-> pmutex.count,
                     native |-> [owner |-> NoThread, count |-> 0],
                     depth |-> [pmutex.depth EXCEPT ![t] = @ - 1]]
      BY <3>1 DEF LayersInv, TypeInv, MutexType
    <3>3. pmutex' \in MutexType
      BY <2>3, <3>2, Fields DEF LayersInv, TypeInv, MutexType, NativeType
    <3>4. TypeInv' /\ WaitInv' /\ OwnerInv'
      BY <1>1, <1>2, <2>2, <2>5, <3>1, <3>2, <3>3
         DEF LayersInv, TypeInv, WaitInv, OwnerInv, WaitersOf
    <3>5. Stranger(t)'
      BY <1>2, <2>2, <2>5, <3>2, Fields DEF LayersInv, TypeInv, Stranger
    <3>6. \A u \in Tasks \ {t} : Stranger(u)'
      BY <1>2, <1>4, <3>1, <3>2, Fields DEF LayersInv, TypeInv, ThreadInv, Stranger
    <3>7. ThreadInv'
      BY <3>2, <3>5, <3>6, PosixMutexAssumption DEF ThreadInv
    <3> QED BY <3>4, <3>7 DEF LayersInv
  <2>6. CASE ~(pmutex.native.count > 1) /\ WaitersOf(w, LockList) # {}
    <3>1. PICK next \in WaitersOf(w, LockList) :
             /\ pmutex' = [pmutex EXCEPT !.native = [owner |-> next, count |-> 1],
                                         !.depth[t] = @ - 1]
             /\ w' = Wake(w, next, "OK")
      BY <2>1, <2>6 DEF HandOver
    <3>2. /\ next \in Tasks /\ w.mode[next] = "waiting" /\ next # t
          /\ call[next].op = "locking"
      BY <1>1, <3>1 DEF LayersInv, WaitInv, WaitersOf
    <3>3. pmutex' = [type |-> pmutex.type, owner |-> pmutex.owner,
                     count |-> pmutex.count,
                     native |-> [owner |-> next, count |-> 1],
                     depth |-> [pmutex.depth EXCEPT ![t] = @ - 1]]
      BY <3>1 DEF LayersInv, TypeInv, MutexType
    <3>4. pmutex' \in MutexType
      <4>1. [owner |-> next, count |-> 1] \in NativeType
        BY <3>2 DEF NativeType
      <4> QED BY <2>3, <3>3, <4>1, Fields DEF LayersInv, TypeInv, MutexType
    <3>5. /\ w' \in WaitingType
          /\ w'.on[next] = NoList /\ w'.mode[next] = "active" /\ w'.result[next] = "OK"
          /\ \A u \in Tasks \ {next} :
                /\ w'.on[u] = w.on[u] /\ w'.mode[u] = w.mode[u]
                /\ w'.result[u] = w.result[u]
      <4>1. w' = Unblock(w, next, "active", "OK")
        BY <3>1, <3>2 DEF Wake
      <4>2. w \in WaitingType /\ "active" \in Modes /\ "OK" \in Results
        BY DEF LayersInv, TypeInv, Modes, Results
      <4> QED BY <3>2, <4>1, <4>2, UnblockEffect
    <3>6. TypeInv' /\ WaitInv'
      BY <1>1, <1>2, <3>2, <3>4, <3>5, PosixMutexAssumption
         DEF LayersInv, TypeInv, WaitInv
    <3>7. OwnerInv'
      BY <2>2, <3>2, <3>3, PosixMutexAssumption DEF OwnerInv
    <3>8. Stranger(next)
      BY <1>4, <3>2 DEF LayersInv, ThreadInv
    <3>9. Arriving(next)'
      BY <1>2, <2>2, <3>2, <3>3, <3>5, <3>8, Fields
         DEF LayersInv, TypeInv, Stranger, Arriving
    <3>10. Stranger(t)'
      BY <1>2, <2>2, <2>6, <3>3, Fields DEF LayersInv, TypeInv, Stranger
    <3>11. \A u \in Tasks \ {t, next} : Stranger(u)'
      BY <1>2, <1>4, <3>3, <3>5, Fields DEF LayersInv, TypeInv, ThreadInv, Stranger
    <3>12. ThreadInv'
      BY <3>3, <3>9, <3>10, <3>11 DEF ThreadInv
    <3> QED BY <3>6, <3>7, <3>12 DEF LayersInv
  <2> QED BY <2>4, <2>5, <2>6
<1> QED BY <1>3, <1>4

LEMMA LockWaitEndsStep ==
    ASSUME LayersInv, NEW t \in Tasks, LockWaitEnds(t)
    PROVE  LayersInv'
<1>1. UNCHANGED <<call, pmutex>>
  BY DEF LockWaitEnds
<1>2. CASE w.mode[t] # "waiting"
  <2>1. w' = w
    BY <1>2 DEF LockWaitEnds, TimeOut, Interrupted, Wake
  <2> QED BY <1>1, <2>1 DEF LayersInv, TypeInv, WaitInv, OwnerInv, ThreadInv,
                            Settled, Arriving, Stranger
<1>3. CASE w.mode[t] = "waiting"
  <2>1. w.on[t] # NoList /\ call[t].op = "locking"
    BY <1>3, PosixMutexAssumption DEF LayersInv, WaitInv
  <2>2. PICK result \in {"TIMEOUT", "INTR"} : w' = Unblock(w, t, "active", result)
    BY <1>3, <2>1 DEF LockWaitEnds, TimeOut, Interrupted, Wake
  <2>3. /\ w' \in WaitingType
        /\ w'.on[t] = NoList /\ w'.mode[t] = "active" /\ w'.result[t] # "OK"
        /\ \A u \in Tasks \ {t} :
              /\ w'.on[u] = w.on[u] /\ w'.mode[u] = w.mode[u]
              /\ w'.result[u] = w.result[u]
    <3>1. w \in WaitingType /\ "active" \in Modes /\ result \in Results /\ result # "OK"
      BY DEF LayersInv, TypeInv, Modes, Results
    <3> QED BY <2>2, <3>1, UnblockEffect
  <2>4. TypeInv' /\ WaitInv' /\ OwnerInv'
    BY <1>1, <2>1, <2>3, PosixMutexAssumption
       DEF LayersInv, TypeInv, WaitInv, OwnerInv
  <2>5. ThreadInv'
    BY <1>1, <1>3, <2>1, <2>3 DEF LayersInv, ThreadInv, Settled, Arriving, Stranger
  <2> QED BY <2>4, <2>5 DEF LayersInv
<1> QED BY <1>2, <1>3

-----------------------------------------------------------------------------

LEMMA MutexStep ==
    ASSUME LayersInv, [MutexNext]_mutexVars
    PROVE  LayersInv'
<1>1. CASE MutexNext
  <2>1. PICK t \in Tasks :
           \/ \E how \in Timeouts : LockCall(t, how)
           \/ NativeLock(t) \/ LockReturns(t) \/ NoteOwner(t)
           \/ UnlockCall(t) \/ NativeUnlock(t) \/ LockWaitEnds(t)
    BY <1>1 DEF MutexNext
  <2> QED BY <2>1, LockCallStep, NativeLockStep, LockReturnsStep, NoteOwnerStep,
             UnlockCallStep, NativeUnlockStep, LockWaitEndsStep
<1>2. CASE UNCHANGED mutexVars
  BY <1>2 DEF mutexVars, LayersInv, TypeInv, WaitInv, OwnerInv, ThreadInv,
              Settled, Arriving, Stranger
<1> QED BY <1>1, <1>2

LEMMA MutexStarts ==
    ASSUME MutexStart
    PROVE  LayersInv
<1>1. w = [mode |-> [t \in Tasks |-> "active"], on |-> [t \in Tasks |-> NoList],
           timed |-> [t \in Tasks |-> FALSE], result |-> [t \in Tasks |-> "OK"]]
  BY DEF MutexStart, AllOff
<1>2. PICK type \in Types :
         pmutex = [type |-> type, owner |-> NoThread, count |-> 0,
                   native |-> [owner |-> NoThread, count |-> 0],
                   depth |-> [t \in Tasks |-> 0]]
  BY DEF MutexStart, MutexInit
<1>3. /\ call \in [Tasks -> MutexCalls]
      /\ \A t \in Tasks : call[t].op = "none"
  BY DEF MutexStart, MutexCalls, NoCall
<1>4. w \in WaitingType
  BY <1>1 DEF WaitingType, Modes
<1>5. pmutex \in MutexType
  BY <1>2 DEF MutexType, NativeType
<1>6. TypeInv
  BY <1>3, <1>4, <1>5 DEF TypeInv
<1>7. WaitInv /\ OwnerInv
  BY <1>1, <1>2, PosixMutexAssumption DEF WaitInv, OwnerInv
<1>8. ThreadInv
  BY <1>2, <1>3, PosixMutexAssumption DEF ThreadInv, Stranger
<1> QED BY <1>6, <1>7, <1>8 DEF LayersInv

LEMMA InvariantAgrees ==
    ASSUME LayersInv
    PROVE  MutexLayersAgree
<1>1. ASSUME NEW t \in Tasks, Free(t)
      PROVE  /\ pmutex.depth[t] > 0 <=> pmutex.native.owner = t
             /\ pmutex.native.owner = t =>
                   IF pmutex.type = "RECURSIVE"
                   THEN pmutex.depth[t] = pmutex.count /\ pmutex.native.count = 1
                   ELSE pmutex.depth[t] = pmutex.native.count
             /\ pmutex.type # "NORMAL" => (pmutex.depth[t] > 0 <=> pmutex.owner = t)
  <2>1. call[t].op = "none"
    BY <1>1, FreeMeans
  <2>2. CASE pmutex.native.owner = t
    <3>1. Settled(t)
      BY <2>1, <2>2 DEF LayersInv, ThreadInv, Arriving
    <3> QED BY <2>1, <2>2, <3>1 DEF Settled
  <2>3. CASE pmutex.native.owner # t
    <3>1. pmutex.depth[t] = 0
      BY <2>3 DEF LayersInv, ThreadInv, Stranger
    <3>2. pmutex.type # "NORMAL" => pmutex.owner # t
      BY <2>3, PosixMutexAssumption DEF LayersInv, OwnerInv
    <3> QED BY <2>3, <3>1, <3>2
  <2> QED BY <2>2, <2>3
<1>2. pmutex.type # "NORMAL" => pmutex.owner \in {NoThread, pmutex.native.owner}
  BY DEF LayersInv, OwnerInv
<1> QED BY <1>1, <1>2 DEF MutexLayersAgree

\* posix.c, lines 590 to 710, for any number of threads and locks of any depth:
\* a thread that is in no call of the mutex has locked it as often as the POSIX
\* layer and the kernel say together.
THEOREM LayersAgree == PosixMutexSpec => []MutexLayersAgree
<1>1. MutexStart => LayersInv
  BY MutexStarts
<1>2. LayersInv /\ [MutexNext]_mutexVars => LayersInv'
  BY MutexStep
<1>3. LayersInv => MutexLayersAgree
  BY InvariantAgrees
<1> QED BY <1>1, <1>2, <1>3, PTL DEF PosixMutexSpec

\* aixos_mutex_lock and aixos_mutex_unlock under the POSIX calls: no thread
\* waits for a mutex that is free, and one that waits is not its owner.
THEOREM NobodyWaitsForAFreeMutex ==
    PosixMutexSpec =>
        [](\A t \in Tasks : w.on[t] = LockList =>
              pmutex.native.owner \notin {NoThread, t})
<1>1. MutexStart => LayersInv
  BY MutexStarts
<1>2. LayersInv /\ [MutexNext]_mutexVars => LayersInv'
  BY MutexStep
<1>3. LayersInv => \A t \in Tasks : w.on[t] = LockList =>
                      pmutex.native.owner \notin {NoThread, t}
  BY DEF LayersInv, WaitInv, OwnerInv, ThreadInv, Settled, Arriving
<1> QED BY <1>1, <1>2, <1>3, PTL DEF PosixMutexSpec

-----------------------------------------------------------------------------
(* The other objects.                                                      *)

SyncKinds == {"condition", "barrier", "rwlock"}

-----------------------------------------------------------------------------
(* Condition variables, barriers and read-write locks: the inductive       *)
(* invariant.                                                              *)

SyncOps == {"enter", "inside", "unlocking", "sleeping", "asleep", "failed",
            "relock", "relocking", "count", "uncount", "astray", "second"}

\* What waiting_writers can be.
Counts == 0 .. CountModulus - 1

SyncRecords ==
    [op : SyncOps, what : {"lock", "wait", "barrier", "read", "write", "unlock"},
     how : Timeouts, on : Conditions \union {NoList}, generation : Nat,
     again : BOOLEAN, failed : BOOLEAN, seen : Counts]

SyncCalls == SyncRecords \union {NoCall, [op |-> "leave"]}

CondType == [Conditions -> [waiters : Nat, count : 0 .. SemMaxCount]]

RwType == [readers : [Tasks -> Nat], writer : Tasks \union {NoOwner}, waiting : Counts,
           crossed : BOOLEAN]

SyncType ==
    /\ w \in WaitingType
    /\ call \in [Tasks -> SyncCalls]
    /\ cond \in CondType
    /\ barrier \in [count : Nat, generation : Nat]
    /\ rw \in RwType

\* A thread waits for the mutex, or for the semaphore of the condition
\* variable it is asleep on.
WaitFit(t) ==
    /\ w.mode[t] \in {"active", "waiting"}
    /\ w.mode[t] = "waiting" <=> w.on[t] # NoList
    /\ w.mode[t] = "waiting" =>
          \/ w.on[t] = MutexList /\ call[t].op \in {"enter", "relocking"}
          \/ w.on[t] \in Conditions /\ call[t].op = "asleep" /\ w.on[t] = call[t].on
    /\ call[t].op \in {"unlocking", "sleeping", "asleep", "failed"} =>
          call[t].on \in Conditions

SyncWaits == \A t \in Tasks : WaitFit(t)

\* A thread that no signal has reached: on its way to sleep, asleep, or
\* awake without an answer and still counted.
Awaits(t, c) ==
    /\ \/ call[t].op \in {"unlocking", "sleeping", "failed"}
       \/ call[t].op = "asleep" /\ (w.mode[t] = "waiting" \/ w.result[t] # "OK")
    /\ call[t].on = c

Awaiting(c) == {t \in Tasks : Awaits(t, c)}

Counted ==
    \A c \in Conditions :
        Cardinality(Awaiting(c)) <= cond[c].waiters + cond[c].count

\* The writers in the loop of rwlock_wrlock_common.
Writing(c) == c.op \in SyncOps /\ c.what = "write" /\ c.again

WritersWaiting == {t \in Tasks : Writing(call[t])}

\* A thread that has read the count and is about to write it.
Updating(c) == c.op \in {"count", "uncount", "astray"}

\* Where a writer is in the call, it knows whether it is counted.
Fit(c) ==
    /\ c.op = "enter" => ~c.again
    /\ c.op = "second" => c.what = "unlock"
    /\ Updating(c) => c.what = "write" /\ (c.op = "count" <=> ~c.again)
    /\ c.op \in SyncOps /\ c.what = "write" =>
          /\ c.op \notin {"enter", "inside", "count"} => c.again
          /\ c.failed => c.again

\* Nobody has the lock.
Unheld == rw.writer = NoOwner /\ \A t \in Tasks : rw.readers[t] = 0

\* A writer excludes readers, and one that is about to have the lock has seen
\* that nobody has it.
RwExcluded ==
    /\ rw.writer # NoOwner => \A t \in Tasks : rw.readers[t] = 0
    /\ \A t \in Tasks :
          /\ Fit(call[t])
          /\ call[t].op = "uncount" /\ ~call[t].failed => Unheld

\* While no two updates have crossed, the count is exact, and whoever is about
\* to write it has read what it still is; one without the mutex is alone.
RwExact ==
    /\ rw.waiting = Cardinality(WritersWaiting)
    /\ \A t \in Tasks : Updating(call[t]) => call[t].seen = rw.waiting
    /\ \A t, u \in Tasks : call[t].op = "astray" /\ Updating(call[u]) => t = u

RwCounted == RwExcluded /\ (~rw.crossed => RwExact)

SyncInv == SyncType /\ SyncWaits /\ Counted /\ RwCounted

-----------------------------------------------------------------------------
(* Numbers of threads.                                                     *)

LEMMA HowMany ==
    ASSUME NEW S \in SUBSET Tasks
    PROVE  IsFiniteSet(S) /\ Cardinality(S) \in Nat /\ Cardinality(S) <= Cardinality(Tasks)
           /\ Cardinality(Tasks) \in Nat
BY FS_Subset, FS_CardinalityType, PosixSyncAssumption

LEMMA Zero == 0 \in Counts
BY FS_CardinalityType, PosixSyncAssumption DEF Counts

LEMMA NoMore ==
    ASSUME NEW S \in SUBSET Tasks, NEW R, R \subseteq S
    PROVE  Cardinality(R) <= Cardinality(S) /\ Cardinality(R) \in Nat /\ Cardinality(S) \in Nat
BY HowMany, FS_Subset

LEMMA LessBy ==
    ASSUME NEW S \in SUBSET Tasks, NEW A, A \subseteq S, NEW R, R \subseteq S \ A
    PROVE  /\ Cardinality(R) <= Cardinality(S) - Cardinality(A)
           /\ Cardinality(R) \in Nat /\ Cardinality(S) \in Nat /\ Cardinality(A) \in Nat
<1>1. /\ IsFiniteSet(S) /\ Cardinality(S) \in Nat
      /\ IsFiniteSet(S \ A) /\ Cardinality(S \ A) \in Nat
  BY HowMany
<1>2. Cardinality(S \ A) = Cardinality(S) - Cardinality(A)
  <2>1. S \cap A = A
    OBVIOUS
  <2> QED BY <1>1, <2>1, FS_Difference
<1>3. Cardinality(R) <= Cardinality(S \ A)
  BY <1>1, FS_Subset
<1>4. Cardinality(R) \in Nat /\ Cardinality(A) \in Nat
  BY HowMany
<1> QED BY <1>1, <1>2, <1>3, <1>4

LEMMA OneLess ==
    ASSUME NEW S \in SUBSET Tasks, NEW t \in S, NEW R, R \subseteq S \ {t}
    PROVE  /\ Cardinality(R) <= Cardinality(S) - 1
           /\ Cardinality(R) \in Nat /\ Cardinality(S) \in Nat
<1>1. Cardinality({t}) = 1
  BY FS_Singleton
<1>2. {t} \subseteq S
  OBVIOUS
<1> QED BY <1>1, <1>2, LessBy

LEMMA OneMore ==
    ASSUME NEW S \in SUBSET Tasks, NEW t \in Tasks, NEW R, R \subseteq S \union {t}
    PROVE  /\ Cardinality(R) <= Cardinality(S) + 1
           /\ Cardinality(R) \in Nat /\ Cardinality(S) \in Nat
<1>1. IsFiniteSet(S) /\ Cardinality(S) \in Nat
  BY HowMany
<1>2. /\ IsFiniteSet(S \union {t})
      /\ Cardinality(S \union {t}) = IF t \in S THEN Cardinality(S) ELSE Cardinality(S) + 1
  BY <1>1, FS_AddElement
<1>3. Cardinality(R) <= Cardinality(S \union {t}) /\ R \in SUBSET Tasks
  BY <1>2, FS_Subset
<1>4. Cardinality(R) \in Nat
  BY <1>3, HowMany
<1> QED BY <1>1, <1>2, <1>3, <1>4

LEMMA OneJoins ==
    ASSUME NEW S \in SUBSET Tasks, NEW t \in Tasks \ S
    PROVE  Cardinality(S \union {t}) = Cardinality(S) + 1 /\ Cardinality(S) \in Nat
BY HowMany, FS_AddElement

LEMMA OneLeaves ==
    ASSUME NEW S \in SUBSET Tasks, NEW t \in S
    PROVE  Cardinality(S \ {t}) = Cardinality(S) - 1 /\ Cardinality(S) \in Nat
BY HowMany, FS_RemoveElement

-----------------------------------------------------------------------------
(* What a step does to the calls and to the waits.                         *)

LEMMA SyncGoto ==
    ASSUME call \in [Tasks -> SyncCalls], NEW t \in Tasks,
           NEW c \in SyncCalls, Goto(t, c)
    PROVE  /\ call' \in [Tasks -> SyncCalls]
           /\ call'[t] = c
           /\ \A u \in Tasks \ {t} : call'[u] = call[u]
BY DEF Goto

LEMMA Plain ==
    /\ NoCall \in SyncCalls /\ NoCall.op = "none" /\ Fit(NoCall) /\ ~Writing(NoCall)
    /\ ~Updating(NoCall) /\ ~Updating([op |-> "leave"])
    /\ [op |-> "leave"] \in SyncCalls /\ [op |-> "leave"].op = "leave"
    /\ Fit([op |-> "leave"]) /\ ~Writing([op |-> "leave"])
BY DEF SyncCalls, NoCall, Fit, Updating, Writing, SyncOps

LEMMA InTheCall ==
    ASSUME NEW c \in SyncCalls, c.op \in SyncOps
    PROVE  c \in SyncRecords
BY Plain DEF SyncCalls, SyncOps

\* The same call, at another place.
LEMMA Moved ==
    ASSUME NEW c \in SyncRecords, NEW o \in SyncOps, NEW d, d = [c EXCEPT !.op = o]
    PROVE  /\ d \in SyncRecords /\ d \in SyncCalls
           /\ d.op = o /\ d.on = c.on /\ d.what = c.what /\ d.again = c.again
           /\ d.failed = c.failed /\ d.how = c.how /\ d.generation = c.generation
           /\ d.seen = c.seen
<1>1. d = [op |-> o, what |-> c.what, how |-> c.how, on |-> c.on,
           generation |-> c.generation, again |-> c.again, failed |-> c.failed,
           seen |-> c.seen]
  BY DEF SyncRecords
<1>2. /\ c.what \in {"lock", "wait", "barrier", "read", "write", "unlock"}
      /\ c.how \in Timeouts /\ c.on \in Conditions \union {NoList}
      /\ c.generation \in Nat /\ c.again \in BOOLEAN /\ c.failed \in BOOLEAN
      /\ c.seen \in Counts
  BY DEF SyncRecords
<1> HIDE DEF SyncOps
<1>3. d \in SyncRecords
  BY <1>1, <1>2 DEF SyncRecords
<1> QED BY <1>1, <1>3 DEF SyncCalls

Placed(c, o, l) == [c EXCEPT !.op = o, !.on = l]

LEMMA MovedOn ==
    ASSUME NEW c \in SyncRecords, NEW o \in SyncOps, NEW l \in Conditions \union {NoList},
           NEW d, d = Placed(c, o, l)
    PROVE  /\ d \in SyncRecords /\ d \in SyncCalls
           /\ d.op = o /\ d.on = l /\ d.what = c.what /\ d.again = c.again
           /\ d.failed = c.failed
<1> DEFINE b == [c EXCEPT !.op = o]
<1>1. /\ b \in SyncRecords
      /\ b.op = o /\ b.what = c.what /\ b.again = c.again
      /\ b.failed = c.failed /\ b.how = c.how /\ b.generation = c.generation
      /\ b.seen = c.seen
  BY Moved
<1>2. d = [b EXCEPT !.on = l]
  BY Zenon DEF Placed
<1> HIDE DEF b
<1>3. d = [op |-> o, what |-> c.what, how |-> c.how, on |-> l,
           generation |-> c.generation, again |-> c.again, failed |-> c.failed,
           seen |-> c.seen]
  BY <1>1, <1>2 DEF SyncRecords
<1>4. /\ c.what \in {"lock", "wait", "barrier", "read", "write", "unlock"}
      /\ c.how \in Timeouts
      /\ c.generation \in Nat /\ c.again \in BOOLEAN /\ c.failed \in BOOLEAN
      /\ c.seen \in Counts
  BY DEF SyncRecords
<1>5. d \in SyncRecords
  BY <1>3, <1>4 DEF SyncRecords
<1> QED BY <1>3, <1>5 DEF SyncCalls

\* The wait of a task is as it was.
WaitSame(u) == w'.mode[u] = w.mode[u] /\ w'.on[u] = w.on[u] /\ w'.result[u] = w.result[u]

\* It has been answered, or has ended without an answer.
Answered(u) == w'.mode[u] = "active" /\ w'.on[u] = NoList /\ w'.result[u] = "OK"

\* MutexUnlock wakes one that waits for the mutex, or nobody.
LEMMA MutexUnlockEffect ==
    ASSUME SyncType, SyncWaits, NEW t \in Tasks, MutexUnlock(t)
    PROVE  /\ w' \in WaitingType
           /\ \A u \in Tasks :
                 \/ WaitSame(u)
                 \/ w.mode[u] = "waiting" /\ w.on[u] = MutexList /\ Answered(u)
<1>1. CASE UNCHANGED w
  BY <1>1 DEF SyncType, WaitSame
<1>2. CASE \E next \in WaitersOf(w, MutexList) : w' = Wake(w, next, "OK")
  <2>1. PICK next \in Tasks : w.on[next] = MutexList /\ w' = Wake(w, next, "OK")
    BY <1>2 DEF WaitersOf
  <2>2. w.mode[next] = "waiting"
    BY <2>1, PosixSyncAssumption DEF SyncWaits, WaitFit
  <2>3. w' = Unblock(w, next, "active", "OK")
    BY <2>1, <2>2 DEF Wake
  <2>4. w \in WaitingType /\ "active" \in Modes /\ "OK" \in Results
    BY DEF SyncType, Modes, Results
  <2>5. /\ w' \in WaitingType /\ Answered(next)
        /\ \A u \in Tasks \ {next} : WaitSame(u)
    BY <2>3, <2>4, UnblockEffect DEF Answered, WaitSame
  <2> QED BY <2>1, <2>2, <2>5
<1> QED BY <1>1, <1>2 DEF MutexUnlock

\* MutexLock gives the mutex to the thread, or makes it wait.
LEMMA MutexLockEffect ==
    ASSUME SyncType, NEW t \in Tasks, NEW c \in SyncRecords,
           NEW place \in SyncOps, MutexLock(t, c, place)
    PROVE  /\ w' \in WaitingType
           /\ \A u \in Tasks \ {t} : WaitSame(u)
           /\ \/ Goto(t, c) /\ WaitSame(t)
              \/ /\ Goto(t, [c EXCEPT !.op = place])
                 /\ w'.mode[t] = "waiting" /\ w'.on[t] = MutexList
<1>1. CASE owner = NoOwner
  BY <1>1 DEF MutexLock, SyncType, WaitSame
<1>2. CASE owner # NoOwner
  <2>1. w' = BlockOn(w, t, MutexList, FALSE) /\ Goto(t, [c EXCEPT !.op = place])
    BY <1>2 DEF MutexLock
  <2>2. w \in WaitingType /\ MutexList \in WaitLists /\ FALSE \in BOOLEAN
    BY PosixSyncAssumption DEF SyncType
  <2>3. PICK no \in BOOLEAN : no = FALSE
    OBVIOUS
  <2>4. w' = BlockOn(w, t, MutexList, no)
    BY <2>1, <2>3
  <2>5. /\ w' \in WaitingType
        /\ w'.on[t] = MutexList /\ w'.mode[t] = "waiting"
        /\ \A u \in Tasks \ {t} : WaitSame(u)
    BY <2>2, <2>4, BlockEffect DEF WaitSame
  <2> QED BY <2>1, <2>5
<1> QED BY <1>1, <1>2

-----------------------------------------------------------------------------
(* Signals.                                                                *)

\* The record w, replaced in all its fields.
Replaced(ww, a, b, c, d) ==
    [ww EXCEPT !.mode = a, !.on = b, !.timed = c, !.result = d]

LEMMA WaitingReplaced ==
    ASSUME NEW ww \in WaitingType, NEW a, NEW b, NEW c, NEW d
    PROVE  Replaced(ww, a, b, c, d) = [mode |-> a, on |-> b, timed |-> c, result |-> d]
<1> DEFINE v1 == [ww EXCEPT !.mode = a]
           v2 == [v1 EXCEPT !.on = b]
           v3 == [v2 EXCEPT !.timed = c]
           v4 == [v3 EXCEPT !.result = d]
<1>1. v1 = [mode |-> a, on |-> ww.on, timed |-> ww.timed, result |-> ww.result]
  BY DEF WaitingType
<1>2. HIDE DEF v1
<1>3. v2 = [mode |-> a, on |-> b, timed |-> ww.timed, result |-> ww.result]
  BY <1>1
<1>4. HIDE DEF v2
<1>5. v3 = [mode |-> a, on |-> b, timed |-> c, result |-> ww.result]
  BY <1>3
<1>6. HIDE DEF v3
<1>7. v4 = [mode |-> a, on |-> b, timed |-> c, result |-> d]
  BY <1>5
<1>8. HIDE DEF v4
<1>9. v4 = Replaced(ww, a, b, c, d)
  BY Zenon DEF v1, v2, v3, v4, Replaced
<1> QED BY <1>7, <1>9

LEMMA CondFields ==
    ASSUME cond \in CondType, NEW c \in Conditions
    PROVE  /\ cond[c].waiters \in Nat /\ cond[c].count \in 0 .. SemMaxCount
           /\ cond[c].count \in Nat /\ SemMaxCount \in Nat
           /\ cond[c].count <= SemMaxCount
BY PosixSyncAssumption DEF CondType

LEMMA CondRecord ==
    ASSUME cond \in CondType, NEW c \in Conditions
    PROVE  cond[c] = [waiters |-> cond[c].waiters, count |-> cond[c].count]
BY DEF CondType

Recounted(f, c, n, k) == [f EXCEPT ![c].waiters = n, ![c].count = k]

LEMMA CondUpdate ==
    ASSUME NEW f \in CondType, NEW c \in Conditions, NEW n, NEW k
    PROVE  Recounted(f, c, n, k) = [f EXCEPT ![c] = [waiters |-> n, count |-> k]]
<1> DEFINE v == [f EXCEPT ![c].waiters = n]
<1>1. v = [f EXCEPT ![c] = [waiters |-> n, count |-> f[c].count]]
  <2>1. f[c] = [waiters |-> f[c].waiters, count |-> f[c].count]
    BY DEF CondType
  <2>2. [f[c] EXCEPT !.waiters = n] = [waiters |-> n, count |-> f[c].count]
    BY <2>1
  <2> QED BY <2>2 DEF CondType
<1>2. Recounted(f, c, n, k) = [v EXCEPT ![c].count = k]
  BY Zenon DEF Recounted
<1> HIDE DEF v
<1>3. v[c] = [waiters |-> n, count |-> f[c].count] /\ DOMAIN v = Conditions
  BY <1>1 DEF CondType
<1>4. [v[c] EXCEPT !.count = k] = [waiters |-> n, count |-> k]
  BY <1>3
<1>5. [v EXCEPT ![c].count = k] = [v EXCEPT ![c] = [waiters |-> n, count |-> k]]
  BY <1>4, Zenon
<1>6. [v EXCEPT ![c] = [waiters |-> n, count |-> k]]
         = [f EXCEPT ![c] = [waiters |-> n, count |-> k]]
  BY <1>1 DEF CondType
<1> QED BY <1>2, <1>5, <1>6

CountSet(f, c, k) == [f EXCEPT ![c].count = k]
WaitersSet(f, c, n) == [f EXCEPT ![c].waiters = n]

LEMMA CondPart ==
    ASSUME NEW f \in CondType, NEW c \in Conditions, NEW n, NEW k
    PROVE  /\ WaitersSet(f, c, n) = [f EXCEPT ![c] = [waiters |-> n, count |-> f[c].count]]
           /\ CountSet(f, c, k) = [f EXCEPT ![c] = [waiters |-> f[c].waiters, count |-> k]]
<1>1. f[c] = [waiters |-> f[c].waiters, count |-> f[c].count]
  BY DEF CondType
<1>2. /\ [f[c] EXCEPT !.waiters = n] = [waiters |-> n, count |-> f[c].count]
      /\ [f[c] EXCEPT !.count = k] = [waiters |-> f[c].waiters, count |-> k]
  BY <1>1
<1> QED BY <1>2 DEF CondType, WaitersSet, CountSet

\* One condition variable changes.
CondBecomes(condition, n, k) ==
    cond' = [cond EXCEPT ![condition] = [waiters |-> n, count |-> k]]

LEMMA PartBecomes ==
    ASSUME cond \in CondType, NEW condition \in Conditions, NEW n
    PROVE  /\ cond' = CountSet(cond, condition, n) =>
                 CondBecomes(condition, cond[condition].waiters, n)
           /\ cond' = WaitersSet(cond, condition, n) =>
                 CondBecomes(condition, n, cond[condition].count)
BY CondPart DEF CondBecomes

LEMMA CondChange ==
    ASSUME cond \in CondType, NEW condition \in Conditions,
           NEW n \in Nat, NEW k \in 0 .. SemMaxCount, CondBecomes(condition, n, k)
    PROVE  /\ cond' \in CondType
           /\ cond'[condition].waiters = n /\ cond'[condition].count = k
           /\ \A c \in Conditions \ {condition} : cond'[c] = cond[c]
BY DEF CondType, CondBecomes

\* The posts: those that wait are woken, and what is left is counted.
LEMMA PostsEffect ==
    ASSUME SyncType, SyncWaits, NEW condition \in Conditions, NEW n \in Nat,
           n <= cond[condition].waiters,
           NEW awake, PostsOf(condition, n, awake)
    PROVE  /\ w' \in WaitingType /\ cond' \in CondType
           /\ awake \subseteq WaitersOf(w, condition)
           /\ \A u \in awake : Answered(u)
           /\ \A u \in Tasks \ awake : WaitSame(u)
           /\ \A c \in Conditions \ {condition} : cond'[c] = cond[c]
           /\ \/ cond'[condition].count = SemMaxCount
              \/ cond'[condition].waiters + cond'[condition].count
                    = cond[condition].waiters + cond[condition].count - Cardinality(awake)
<1> DEFINE asleep == WaitersOf(w, condition)
           m == [t \in Tasks |-> IF t \in awake THEN "active" ELSE w.mode[t]]
           o == [t \in Tasks |-> IF t \in awake THEN NoList ELSE w.on[t]]
           d == [t \in Tasks |-> IF t \in awake THEN FALSE ELSE w.timed[t]]
           r == [t \in Tasks |-> IF t \in awake THEN "OK" ELSE w.result[t]]
           free == SemMaxCount - cond[condition].count
           rest == n - Cardinality(awake)
           more == IF rest <= free THEN rest ELSE free
<1>1. /\ awake \subseteq asleep
      /\ Cardinality(awake) = IF n <= Cardinality(asleep) THEN n ELSE Cardinality(asleep)
      /\ w' = Replaced(w, m, o, d, r)
      /\ cond' = [cond EXCEPT ![condition].waiters = @ - n,
                              ![condition].count = @ + more]
  BY Zenon DEF PostsOf, Replaced
<1>2. w' = [mode |-> m, on |-> o, timed |-> d, result |-> r]
  <2> HIDE DEF m, o, d, r
  <2> QED BY <1>1, WaitingReplaced DEF SyncType
<1>3. /\ w.mode \in [Tasks -> Modes] /\ w.on \in [Tasks -> WaitLists \union {NoList}]
      /\ w.timed \in [Tasks -> BOOLEAN]
      /\ w.result \in [Tasks -> {"OK", "TIMEOUT", "INTR"}]
  BY DEF SyncType, WaitingType
<1>4. w' \in WaitingType
  <2>1. m \in [Tasks -> Modes] /\ o \in [Tasks -> WaitLists \union {NoList}]
    BY <1>3 DEF Modes
  <2>2. d \in [Tasks -> BOOLEAN]
    BY <1>3
  <2>3. r \in [Tasks -> {"OK", "TIMEOUT", "INTR"}]
    BY <1>3
  <2> HIDE DEF m, o, d, r
  <2> QED BY <1>2, <2>1, <2>2, <2>3 DEF WaitingType
<1>5. asleep \in SUBSET Tasks /\ awake \subseteq Tasks
  BY <1>1 DEF WaitersOf
<1>6. /\ \A u \in awake : Answered(u)
      /\ \A u \in Tasks \ awake : WaitSame(u)
  BY <1>2, <1>5 DEF Answered, WaitSame
<1>7. /\ Cardinality(awake) \in Nat /\ Cardinality(asleep) \in Nat
      /\ rest \in Nat /\ Cardinality(awake) <= n
  BY <1>1, <1>5, HowMany
<1>8. /\ more \in Nat /\ cond[condition].count + more <= SemMaxCount
      /\ more = rest \/ cond[condition].count + more = SemMaxCount
  BY <1>7, CondFields DEF SyncType
<1> DEFINE left == cond[condition].waiters - n
           count == cond[condition].count + more
<1>9. left \in Nat /\ count \in 0 .. SemMaxCount
  BY <1>8, CondFields DEF SyncType
<1>10. CondBecomes(condition, left, count)
  <2> PICK j, k : j = cond[condition].waiters - n /\ k = cond[condition].count + more
    OBVIOUS
  <2>1. cond' = Recounted(cond, condition, j, k)
    BY <1>1 DEF Recounted
  <2>2. cond' = [cond EXCEPT ![condition] = [waiters |-> j, count |-> k]]
    <3>1. cond \in CondType
      BY DEF SyncType
    <3>2. Recounted(cond, condition, j, k)
             = [cond EXCEPT ![condition] = [waiters |-> j, count |-> k]]
      BY <3>1, CondUpdate
    <3> QED BY <2>1, <3>2
  <2> QED BY <2>2 DEF CondBecomes
<1> HIDE DEF more, rest
<1>11. /\ cond' \in CondType
       /\ cond'[condition].waiters = left /\ cond'[condition].count = count
       /\ \A c \in Conditions \ {condition} : cond'[c] = cond[c]
  <2> HIDE DEF left, count
  <2> QED BY <1>9, <1>10, CondChange DEF SyncType
<1>12. \/ cond'[condition].count = SemMaxCount
       \/ cond'[condition].waiters + cond'[condition].count
             = cond[condition].waiters + cond[condition].count - Cardinality(awake)
  BY <1>7, <1>8, <1>11, CondFields DEF SyncType, rest
<1> QED BY <1>1, <1>4, <1>6, <1>11, <1>12

\* Threads that a signal has not answered are still counted, or posted for.
StillCounted ==
    \A c \in Conditions : \A S \in SUBSET Awaiting(c) :
        (\A u \in S : w.mode[u] = "waiting" => w'.mode[u] = "waiting")
            => Cardinality(S) <= cond'[c].waiters + cond'[c].count

\* aixos_pthread_cond_signal and aixos_pthread_cond_broadcast.
LEMMA SignalEffect ==
    ASSUME SyncInv, NEW condition \in Conditions,
           CondSignal(condition) \/ CondBroadcast(condition)
    PROVE  /\ w' \in WaitingType /\ cond' \in CondType
           /\ \A u \in Tasks :
                 \/ WaitSame(u)
                 \/ w.mode[u] = "waiting" /\ call[u].op = "asleep" /\ Answered(u)
           /\ StillCounted
<1>1. CASE UNCHANGED <<w, cond>>
  <2>1. StillCounted
    <3>1. ASSUME NEW c \in Conditions, NEW S \in SUBSET Awaiting(c)
          PROVE  Cardinality(S) <= cond[c].waiters + cond[c].count
      <4>1. Awaiting(c) \in SUBSET Tasks
        BY DEF Awaiting
      <4>2. Cardinality(S) <= Cardinality(Awaiting(c))
            /\ Cardinality(S) \in Nat /\ Cardinality(Awaiting(c)) \in Nat
        BY <4>1, NoMore
      <4> QED BY <4>2, CondFields DEF SyncInv, SyncType, Counted
    <3> QED BY <1>1, <3>1 DEF StillCounted
  <2> QED BY <1>1, <2>1 DEF SyncInv, SyncType, WaitSame
<1>2. ASSUME NEW n \in Nat, n <= cond[condition].waiters, NEW awake,
             PostsOf(condition, n, awake)
      PROVE  /\ w' \in WaitingType /\ cond' \in CondType
             /\ \A u \in Tasks :
                   \/ WaitSame(u)
                   \/ w.mode[u] = "waiting" /\ call[u].op = "asleep" /\ Answered(u)
             /\ StillCounted
  <2>1. /\ w' \in WaitingType /\ cond' \in CondType
        /\ awake \subseteq WaitersOf(w, condition)
        /\ \A u \in awake : Answered(u)
        /\ \A u \in Tasks \ awake : WaitSame(u)
        /\ \A c \in Conditions \ {condition} : cond'[c] = cond[c]
        /\ \/ cond'[condition].count = SemMaxCount
           \/ cond'[condition].waiters + cond'[condition].count
                 = cond[condition].waiters + cond[condition].count - Cardinality(awake)
    BY <1>2, PostsEffect DEF SyncInv
  <2>2. \A u \in awake : /\ u \in Tasks /\ w.on[u] = condition
                         /\ w.mode[u] = "waiting" /\ call[u].op = "asleep"
                         /\ call[u].on = condition
    BY <2>1, PosixSyncAssumption DEF SyncInv, SyncWaits, WaitFit, WaitersOf
  <2>3. StillCounted
    <3>1. ASSUME NEW c \in Conditions, NEW S \in SUBSET Awaiting(c),
                 \A u \in S : w.mode[u] = "waiting" => w'.mode[u] = "waiting"
          PROVE  Cardinality(S) <= cond'[c].waiters + cond'[c].count
      <4>1. /\ Awaiting(c) \in SUBSET Tasks
            /\ Cardinality(Awaiting(c)) <= cond[c].waiters + cond[c].count
            /\ Cardinality(Awaiting(c)) \in Nat
        BY HowMany DEF Awaiting, SyncInv, Counted
      <4>2. CASE c # condition
        <5>1. Cardinality(S) <= Cardinality(Awaiting(c)) /\ Cardinality(S) \in Nat
          BY <4>1, NoMore
        <5> QED BY <2>1, <4>1, <4>2, <5>1, CondFields DEF SyncInv, SyncType
      <4>3. CASE c = condition
        <5>1. awake \subseteq Awaiting(c) /\ S \subseteq Awaiting(c) \ awake
          BY <2>1, <2>2, <3>1, <4>3 DEF Awaiting, Awaits, Answered
        <5>2. /\ Cardinality(S) <= Cardinality(Awaiting(c)) - Cardinality(awake)
              /\ Cardinality(S) \in Nat /\ Cardinality(awake) \in Nat
          BY <4>1, <5>1, LessBy
        <5>3. cond'[c].waiters \in Nat /\ cond'[c].count \in Nat
          BY <2>1, PosixSyncAssumption DEF CondType
        <5>4. Cardinality(S) <= SemMaxCount /\ SemMaxCount \in Nat
          <6>1. /\ Cardinality(S) <= Cardinality(Tasks) /\ Cardinality(Tasks) \in Nat
            BY <4>1, HowMany
          <6> QED BY <5>2, <6>1, PosixSyncAssumption
        <5> QED BY <2>1, <4>1, <4>3, <5>2, <5>3, <5>4, CondFields DEF SyncInv, SyncType
      <4> QED BY <4>2, <4>3
    <3> QED BY <3>1 DEF StillCounted
  <2> QED BY <2>1, <2>2, <2>3
<1>3. CASE CondSignal(condition) /\ cond[condition].waiters # 0
  <2>1. 1 \in Nat /\ 1 <= cond[condition].waiters
    BY <1>3, CondFields DEF SyncInv, SyncType
  <2>2. PICK awake : PostsOf(condition, 1, awake)
    BY <1>3 DEF CondSignal
  <2> QED BY <1>2, <2>1, <2>2
<1>4. CASE CondSignal(condition) /\ cond[condition].waiters = 0
  BY <1>1, <1>4 DEF CondSignal
<1>5. CASE CondBroadcast(condition)
  <2>1. cond[condition].waiters \in Nat /\ cond[condition].waiters <= cond[condition].waiters
    BY CondFields DEF SyncInv, SyncType
  <2>2. PICK awake : PostsOf(condition, cond[condition].waiters, awake)
    BY <1>5 DEF CondBroadcast
  <2> QED BY <1>2, <2>1, <2>2
<1> QED BY <1>3, <1>4, <1>5

-----------------------------------------------------------------------------
(* The parts of the invariant, when one thread goes on.                    *)

\* No other thread does, but its wait may be answered.
Calm(t) ==
    \A u \in Tasks \ {t} :
        /\ call'[u] = call[u]
        /\ WaitSame(u) \/ (w.mode[u] = "waiting" /\ Answered(u))

LEMMA OthersKeep ==
    ASSUME SyncInv, NEW t \in Tasks, Calm(t)
    PROVE  \A u \in Tasks \ {t} :
              /\ WaitFit(u)' /\ Fit(call'[u])
              /\ Writing(call'[u]) <=> Writing(call[u])
              /\ \A c \in Conditions : Awaits(u, c)' => Awaits(u, c)
<1> SUFFICES ASSUME NEW u \in Tasks \ {t}
             PROVE  /\ WaitFit(u)' /\ Fit(call'[u])
                    /\ Writing(call'[u]) <=> Writing(call[u])
                    /\ \A c \in Conditions : Awaits(u, c)' => Awaits(u, c)
  OBVIOUS
<1>1. /\ call'[u] = call[u] /\ WaitFit(u) /\ Fit(call[u])
      /\ WaitSame(u) \/ (w.mode[u] = "waiting" /\ Answered(u))
  BY DEF Calm, SyncInv, SyncWaits, RwCounted, RwExcluded
<1>2. CASE WaitSame(u)
  <2>1. WaitFit(u)'
    BY <1>1, <1>2 DEF WaitFit, WaitSame
  <2>2. \A c \in Conditions : Awaits(u, c)' => Awaits(u, c)
    BY <1>1, <1>2 DEF Awaits, WaitSame
  <2> QED BY <1>1, <2>1, <2>2
<1>3. CASE w.mode[u] = "waiting" /\ Answered(u)
  <2>1. WaitFit(u)'
    BY <1>1, <1>3 DEF WaitFit, Answered
  <2>2. \A c \in Conditions : Awaits(u, c)' => Awaits(u, c)
    BY <1>1, <1>3 DEF Awaits, Answered
  <2> QED BY <1>1, <2>1, <2>2
<1> QED BY <1>1, <1>2, <1>3

LEMMA WaitsKeep ==
    ASSUME SyncInv, NEW t \in Tasks, Calm(t), WaitFit(t)'
    PROVE  SyncWaits'
<1>1. \A u \in Tasks : WaitFit(u)'
  BY OthersKeep
<1> QED BY <1>1 DEF SyncWaits

\* The thread is not counted on, and no count changes.
LEMMA CountedKeeps ==
    ASSUME SyncInv, NEW t \in Tasks, Calm(t), cond' = cond,
           \A c \in Conditions : Awaits(t, c)' => Awaits(t, c)
    PROVE  Counted'
<1>1. \A u \in Tasks, c \in Conditions : Awaits(u, c)' => Awaits(u, c)
  BY OthersKeep
<1>2. ASSUME NEW c \in Conditions
      PROVE  Cardinality(Awaiting(c)') <= cond'[c].waiters + cond'[c].count
  <2>1. Awaiting(c) \in SUBSET Tasks /\ Awaiting(c)' \subseteq Awaiting(c)
    BY <1>1 DEF Awaiting
  <2>2. /\ Cardinality(Awaiting(c)') <= Cardinality(Awaiting(c))
        /\ Cardinality(Awaiting(c)') \in Nat /\ Cardinality(Awaiting(c)) \in Nat
    BY <2>1, NoMore
  <2>3. Cardinality(Awaiting(c)) <= cond[c].waiters + cond[c].count
    BY DEF SyncInv, Counted
  <2> QED BY <2>2, <2>3, CondFields DEF SyncInv, SyncType
<1> QED BY <1>2 DEF Counted

\* It is counted on no more, and the counts fall by one at most.
LEMMA CountedLess ==
    ASSUME SyncInv, NEW t \in Tasks, Calm(t), NEW condition \in Conditions,
           NEW n \in Nat, NEW k \in 0 .. SemMaxCount, CondBecomes(condition, n, k),
           n + k + 1 >= cond[condition].waiters + cond[condition].count,
           Awaits(t, condition), \A c \in Conditions : ~Awaits(t, c)'
    PROVE  Counted'
<1>1. \A u \in Tasks, c \in Conditions : Awaits(u, c)' => Awaits(u, c) /\ u # t
  BY OthersKeep
<1>2. /\ cond'[condition].waiters = n /\ cond'[condition].count = k
      /\ \A c \in Conditions \ {condition} : cond'[c] = cond[c]
  BY CondChange DEF SyncInv, SyncType
<1>3. ASSUME NEW c \in Conditions
      PROVE  Cardinality(Awaiting(c)') <= cond'[c].waiters + cond'[c].count
  <2>1. Awaiting(c) \in SUBSET Tasks /\ Awaiting(c)' \subseteq Awaiting(c) \ {t}
    BY <1>1 DEF Awaiting
  <2>2. /\ Cardinality(Awaiting(c)) <= cond[c].waiters + cond[c].count
        /\ Cardinality(Awaiting(c)) \in Nat
    BY <2>1, HowMany DEF SyncInv, Counted
  <2>3. CASE c # condition
    <3>1. /\ Cardinality(Awaiting(c)') <= Cardinality(Awaiting(c))
          /\ Cardinality(Awaiting(c)') \in Nat
      BY <2>1, NoMore
    <3> QED BY <1>2, <2>2, <2>3, <3>1, CondFields DEF SyncInv, SyncType
  <2>4. CASE c = condition
    <3>1. t \in Awaiting(c)
      BY <2>4 DEF Awaiting
    <3>2. /\ Cardinality(Awaiting(c)') <= Cardinality(Awaiting(c)) - 1
          /\ Cardinality(Awaiting(c)') \in Nat
      BY <2>1, <3>1, OneLess
    <3>3. n \in Int /\ k \in Int
      OBVIOUS
    <3> QED BY <1>2, <2>2, <2>4, <3>2, <3>3, CondFields DEF SyncInv, SyncType
  <2> QED BY <2>3, <2>4
<1> QED BY <1>3 DEF Counted

\* It is counted on from now, and has been counted.
LEMMA CountedMore ==
    ASSUME SyncInv, NEW t \in Tasks, Calm(t), NEW condition \in Conditions,
           CondBecomes(condition, cond[condition].waiters + 1, cond[condition].count),
           \A c \in Conditions : c # condition => ~Awaits(t, c)'
    PROVE  Counted' /\ cond' \in CondType
<1> PICK n \in Nat, k \in 0 .. SemMaxCount :
       n = cond[condition].waiters + 1 /\ k = cond[condition].count
  BY CondFields DEF SyncInv, SyncType
<1>1. \A u \in Tasks, c \in Conditions : Awaits(u, c)' => Awaits(u, c) \/ (u = t /\ c = condition)
  BY OthersKeep
<1>2. /\ cond'[condition].waiters = n /\ cond'[condition].count = k
      /\ \A c \in Conditions \ {condition} : cond'[c] = cond[c]
      /\ cond' \in CondType
  <2>1. CondBecomes(condition, n, k)
    OBVIOUS
  <2> QED BY <2>1, CondChange DEF SyncInv, SyncType
<1>3. ASSUME NEW c \in Conditions
      PROVE  Cardinality(Awaiting(c)') <= cond'[c].waiters + cond'[c].count
  <2>1. Awaiting(c) \in SUBSET Tasks
    BY DEF Awaiting
  <2>2. /\ Cardinality(Awaiting(c)) <= cond[c].waiters + cond[c].count
        /\ Cardinality(Awaiting(c)) \in Nat
    BY <2>1, HowMany DEF SyncInv, Counted
  <2>3. CASE c # condition
    <3>1. Awaiting(c)' \subseteq Awaiting(c)
      BY <1>1, <2>3 DEF Awaiting
    <3>2. /\ Cardinality(Awaiting(c)') <= Cardinality(Awaiting(c))
          /\ Cardinality(Awaiting(c)') \in Nat
      BY <2>1, <3>1, NoMore
    <3> QED BY <1>2, <2>2, <2>3, <3>2, CondFields DEF SyncInv, SyncType
  <2>4. CASE c = condition
    <3>1. Awaiting(c)' \subseteq Awaiting(c) \union {t}
      BY <1>1 DEF Awaiting
    <3>2. /\ Cardinality(Awaiting(c)') <= Cardinality(Awaiting(c)) + 1
          /\ Cardinality(Awaiting(c)') \in Nat
      BY <2>1, <3>1, OneMore
    <3> QED BY <1>2, <2>2, <2>4, <3>2, CondFields DEF SyncInv, SyncType
  <2> QED BY <2>3, <2>4
<1> QED BY <1>2, <1>3 DEF Counted

\* A signal answers others; the thread is not counted on.
LEMMA CountedSignal ==
    ASSUME SyncInv, NEW t \in Tasks, Calm(t), StillCounted,
           \A c \in Conditions : ~Awaits(t, c)'
    PROVE  Counted'
<1>1. ASSUME NEW c \in Conditions
      PROVE  Cardinality(Awaiting(c)') <= cond'[c].waiters + cond'[c].count
  <2>1. \A u \in Awaiting(c)' : u \in Tasks \ {t} /\ Awaits(u, c)' /\ Awaits(u, c)
    BY OthersKeep DEF Awaiting
  <2>2. Awaiting(c)' \in SUBSET Awaiting(c)
    BY <2>1 DEF Awaiting
  <2>3. \A u \in Awaiting(c)' : w.mode[u] = "waiting" => w'.mode[u] = "waiting"
    BY <2>1 DEF Calm, WaitSame, Answered, Awaits, SyncInv, SyncWaits, WaitFit
  <2> QED BY <2>2, <2>3 DEF StillCounted
<1> QED BY <1>1 DEF Counted

LEMMA RwKeeps ==
    ASSUME SyncInv, NEW t \in Tasks, Calm(t), rw' = rw, Fit(call'[t]),
           Updating(call'[t]) => call'[t] = call[t],
           Writing(call'[t]) <=> Writing(call[t])
    PROVE  RwCounted'
<1>1. \A u \in Tasks : Fit(call'[u]) /\ (Writing(call'[u]) <=> Writing(call[u]))
  BY OthersKeep
<1>2. WritersWaiting' = WritersWaiting
  BY <1>1 DEF WritersWaiting
<1>3. \A u \in Tasks : Updating(call'[u]) => call'[u] = call[u]
  BY DEF Calm
<1>4. RwExcluded'
  BY <1>1, <1>3 DEF SyncInv, RwCounted, RwExcluded, Unheld, Updating
<1>5. ~rw.crossed => RwExact'
  BY <1>2, <1>3 DEF SyncInv, RwCounted, RwExact, Updating
<1> QED BY <1>4, <1>5 DEF RwCounted

LEMMA PlainStep ==
    ASSUME SyncInv, NEW t \in Tasks, w' \in WaitingType, call' \in [Tasks -> SyncCalls],
           Calm(t), UNCHANGED <<cond, barrier, rw>>, WaitFit(t)', Fit(call'[t]),
           Updating(call'[t]) => call'[t] = call[t],
           Writing(call'[t]) <=> Writing(call[t]),
           \A c \in Conditions : Awaits(t, c)' => Awaits(t, c)
    PROVE  SyncInv'
<1>1. SyncType'
  BY DEF SyncInv, SyncType
<1>2. SyncWaits' /\ Counted' /\ RwCounted'
  BY WaitsKeep, CountedKeeps, RwKeeps
<1> QED BY <1>1, <1>2 DEF SyncInv

LEMMA AtMeans ==
    ASSUME SyncInv, NEW t \in Tasks, NEW o \in SyncOps, At(t, o)
    PROVE  /\ w.mode[t] = "active" /\ w.on[t] = NoList
           /\ call[t].op = o /\ call[t] \in SyncRecords /\ Fit(call[t]) /\ WaitFit(t)
<1>1. w.mode[t] = "active" /\ call[t].op = o /\ call[t] \in SyncCalls /\ WaitFit(t)
  BY DEF At, SyncInv, SyncType, SyncWaits
<1>2. call[t] \in SyncRecords
  BY <1>1, InTheCall
<1>3. w.on[t] = NoList
  BY <1>1 DEF WaitFit
<1> QED BY <1>1, <1>2, <1>3 DEF SyncInv, RwCounted, RwExcluded

LEMMA FreeThread ==
    ASSUME SyncInv, NEW t \in Tasks, Free(t)
    PROVE  /\ w.mode[t] = "active" /\ w.on[t] = NoList /\ call[t] = NoCall /\ WaitFit(t)
           /\ \A c \in Conditions : ~Awaits(t, c)
BY Plain DEF Free, SyncInv, SyncWaits, WaitFit, Awaits

\* A thread that is awake and does not wait for a signal.
LEMMA AwakeFits ==
    ASSUME NEW t \in Tasks, w'.mode[t] = "active", w'.on[t] = NoList,
           call'[t].op \notin {"unlocking", "sleeping", "asleep", "failed"}
    PROVE  WaitFit(t)' /\ \A c \in Conditions : ~Awaits(t, c)'
BY DEF WaitFit, Awaits

LEMMA AlmostCalm ==
    ASSUME NEW t \in Tasks, UNCHANGED w, \A u \in Tasks \ {t} : call'[u] = call[u]
    PROVE  Calm(t) /\ WaitSame(t)
BY DEF Calm, WaitSame

\* A thread goes to c and leaves the rest as it is.
LEMMA GoesTo ==
    ASSUME SyncInv, NEW t \in Tasks, w.mode[t] = "active", w.on[t] = NoList,
           NEW c \in SyncCalls, Goto(t, c), UNCHANGED <<w, cond, barrier, rw>>,
           Fit(c), ~Updating(c), Writing(c) <=> Writing(call[t]),
           c.op \notin {"unlocking", "sleeping", "asleep", "failed"}
    PROVE  SyncInv'
<1>1. /\ call' \in [Tasks -> SyncCalls] /\ call'[t] = c
      /\ \A u \in Tasks \ {t} : call'[u] = call[u]
  BY SyncGoto DEF SyncInv, SyncType
<1>2. Calm(t) /\ w' \in WaitingType
  BY <1>1, AlmostCalm DEF SyncInv, SyncType
<1>3. WaitFit(t)' /\ \A k \in Conditions : ~Awaits(t, k)'
  BY <1>1, AwakeFits
<1> QED BY <1>1, <1>2, <1>3, PlainStep

LEMMA EnterReturnStep ==
    ASSUME SyncInv, NEW t \in Tasks, EnterReturn(t)
    PROVE  SyncInv'
<1>1. /\ w.mode[t] = "active" /\ w.on[t] = NoList /\ call[t].op = "enter"
      /\ call[t] \in SyncRecords /\ Fit(call[t])
      /\ UNCHANGED <<w, cond, barrier, rw>>
  BY AtMeans DEF EnterReturn, SyncOps, syncVars
<1>2. ~call[t].again
  BY <1>1 DEF Fit
<1>3. CASE w.result[t] = "OK"
  <2> DEFINE c == [call[t] EXCEPT !.op = "inside"]
  <2>1. "inside" \in SyncOps
    BY DEF SyncOps
  <2>2. /\ c \in SyncCalls /\ c.op = "inside" /\ c.what = call[t].what
        /\ c.again = call[t].again /\ c.failed = call[t].failed
    BY <1>1, <2>1, Moved
  <2>3. Goto(t, c)
    BY <1>3 DEF EnterReturn
  <2> HIDE DEF c
  <2>4. Fit(c) /\ ~Updating(c) /\ (Writing(c) <=> Writing(call[t]))
    BY <1>1, <1>2, <2>2 DEF Fit, Updating, Writing, SyncOps
  <2> QED BY <1>1, <2>2, <2>3, <2>4, GoesTo
<1>4. CASE w.result[t] # "OK"
  <2>1. Goto(t, NoCall)
    BY <1>4 DEF EnterReturn, Return
  <2> QED BY <1>1, <1>2, <2>1, Plain, GoesTo DEF Writing
<1> QED BY <1>3, <1>4

LEMMA UnlockingStep ==
    ASSUME SyncInv, NEW t \in Tasks, Unlocking(t)
    PROVE  SyncInv'
<1> DEFINE c == [call[t] EXCEPT !.op = "sleeping"]
<1>1. /\ w.mode[t] = "active" /\ w.on[t] = NoList /\ call[t].op = "unlocking"
      /\ call[t] \in SyncRecords /\ Fit(call[t]) /\ WaitFit(t)
      /\ MutexUnlock(t) /\ Goto(t, c) /\ UNCHANGED <<cond, barrier, rw>>
  BY AtMeans DEF Unlocking, SyncOps
<1>2. /\ c \in SyncCalls /\ c.op = "sleeping" /\ c.what = call[t].what /\ c.on = call[t].on
      /\ c.again = call[t].again /\ c.failed = call[t].failed
  <2>1. "sleeping" \in SyncOps
    BY DEF SyncOps
  <2> QED BY <1>1, <2>1, Moved
<1> HIDE DEF c
<1>3. /\ call' \in [Tasks -> SyncCalls] /\ call'[t] = c
      /\ \A u \in Tasks \ {t} : call'[u] = call[u]
  BY <1>1, <1>2, SyncGoto DEF SyncInv, SyncType
<1>4. /\ w' \in WaitingType
      /\ \A u \in Tasks : WaitSame(u) \/ (w.mode[u] = "waiting" /\ Answered(u))
  BY <1>1, MutexUnlockEffect DEF SyncInv
<1>5. Calm(t) /\ WaitSame(t)
  BY <1>1, <1>3, <1>4 DEF Calm
<1>6. /\ WaitFit(t)' /\ Fit(call'[t]) /\ ~Updating(call'[t])
      /\ Writing(call'[t]) <=> Writing(call[t])
      /\ \A k \in Conditions : Awaits(t, k)' => Awaits(t, k)
  BY <1>1, <1>2, <1>3, <1>5 DEF WaitFit, WaitSame, Fit, Updating, Writing, Awaits, SyncOps
<1> QED BY <1>1, <1>3, <1>4, <1>5, <1>6, PlainStep

\* A thread that is off the count, or has used a post.
LEMMA LeavesTheCount ==
    ASSUME SyncInv, NEW t \in Tasks, w.mode[t] = "active", w.on[t] = NoList,
           NEW condition \in Conditions, Awaits(t, condition),
           NEW n \in Nat, NEW k \in 0 .. SemMaxCount, CondBecomes(condition, n, k),
           n + k + 1 >= cond[condition].waiters + cond[condition].count,
           NEW c \in SyncCalls, Goto(t, c), UNCHANGED <<w, barrier, rw>>,
           Fit(c), ~Updating(c), Writing(c) <=> Writing(call[t]),
           c.op \notin {"unlocking", "sleeping", "asleep", "failed"}
    PROVE  SyncInv'
<1>1. /\ call' \in [Tasks -> SyncCalls] /\ call'[t] = c
      /\ \A u \in Tasks \ {t} : call'[u] = call[u]
  BY SyncGoto DEF SyncInv, SyncType
<1>2. Calm(t) /\ w' \in WaitingType
  BY <1>1, AlmostCalm DEF SyncInv, SyncType
<1>3. WaitFit(t)' /\ \A l \in Conditions : ~Awaits(t, l)'
  BY <1>1, AwakeFits
<1>4. cond' \in CondType
  BY CondChange DEF SyncInv, SyncType
<1>5. SyncType'
  BY <1>1, <1>2, <1>4 DEF SyncInv, SyncType
<1>6. Counted'
  BY <1>2, <1>3, CountedLess
<1>7. SyncWaits' /\ RwCounted'
  BY <1>1, <1>2, <1>3, WaitsKeep, RwKeeps
<1> QED BY <1>5, <1>6, <1>7 DEF SyncInv

LEMMA SemSleepStep ==
    ASSUME SyncInv, NEW t \in Tasks, SemSleep(t)
    PROVE  SyncInv'
<1> DEFINE condition == call[t].on
<1>1. /\ w.mode[t] = "active" /\ w.on[t] = NoList /\ call[t].op = "sleeping"
      /\ call[t] \in SyncRecords /\ Fit(call[t]) /\ WaitFit(t)
      /\ UNCHANGED <<barrier, rw>>
  BY AtMeans DEF SemSleep, SyncOps
<1>2. condition \in Conditions /\ Awaits(t, condition)
  BY <1>1 DEF WaitFit, Awaits
<1>3. CASE cond[condition].count > 0
  <2> DEFINE c == [call[t] EXCEPT !.op = "relock"]
             n == cond[condition].waiters
             k == cond[condition].count - 1
  <2>1. Goto(t, c) /\ UNCHANGED w /\ cond' = [cond EXCEPT ![condition].count = @ - 1]
    BY <1>3 DEF SemSleep
  <2>2. /\ c \in SyncCalls /\ c.op = "relock" /\ c.what = call[t].what
        /\ c.again = call[t].again /\ c.failed = call[t].failed
    <3>1. "relock" \in SyncOps
      BY DEF SyncOps
    <3> QED BY <1>1, <3>1, Moved
  <2>3. /\ n \in Nat /\ k \in 0 .. SemMaxCount
        /\ n + k + 1 >= cond[condition].waiters + cond[condition].count
    BY <1>2, <1>3, CondFields DEF SyncInv, SyncType
  <2>4. CondBecomes(condition, n, k)
    <3>1. cond \in CondType
      BY DEF SyncInv, SyncType
    <3>2. cond' = CountSet(cond, condition, k)
      BY <2>1 DEF CountSet
    <3> HIDE DEF condition, k
    <3> QED BY <1>2, <3>1, <3>2, PartBecomes
  <2>5. Fit(c) /\ ~Updating(c) /\ (Writing(c) <=> Writing(call[t]))
    <3> HIDE DEF c
    <3> QED BY <1>1, <2>2 DEF Fit, Updating, Writing, SyncOps
  <2> HIDE DEF c, n, k
  <2> QED BY <1>1, <1>2, <2>1, <2>2, <2>3, <2>4, <2>5, LeavesTheCount
<1>4. CASE /\ w' = BlockOn(w, t, condition, call[t].how = "timed")
            /\ Goto(t, [call[t] EXCEPT !.op = "asleep"]) /\ UNCHANGED cond
  <2> DEFINE c == [call[t] EXCEPT !.op = "asleep"]
  <2>1. PICK timed \in BOOLEAN : w' = BlockOn(w, t, condition, timed)
    BY <1>4
  <2>2. Goto(t, c) /\ UNCHANGED cond
    BY <1>4
  <2>3. /\ c \in SyncCalls /\ c.op = "asleep" /\ c.what = call[t].what /\ c.on = condition
        /\ c.again = call[t].again /\ c.failed = call[t].failed
    <3>1. "asleep" \in SyncOps
      BY DEF SyncOps
    <3> QED BY <1>1, <3>1, Moved
  <2> HIDE DEF c
  <2>4. /\ call' \in [Tasks -> SyncCalls] /\ call'[t] = c
        /\ \A u \in Tasks \ {t} : call'[u] = call[u]
    BY <2>2, <2>3, SyncGoto DEF SyncInv, SyncType
  <2>5. /\ w' \in WaitingType
        /\ w'.on[t] = condition /\ w'.mode[t] = "waiting"
        /\ \A u \in Tasks \ {t} : WaitSame(u)
    <3>1. w \in WaitingType /\ condition \in WaitLists
      BY <1>2, PosixSyncAssumption DEF SyncInv, SyncType
    <3> QED BY <2>1, <3>1, BlockEffect DEF WaitSame
  <2>6. Calm(t)
    BY <2>4, <2>5 DEF Calm
  <2>7. WaitFit(t)' /\ \A l \in Conditions : Awaits(t, l)' => Awaits(t, l)
    BY <1>1, <1>2, <2>3, <2>4, <2>5, PosixSyncAssumption DEF WaitFit, Awaits
  <2>8. Fit(call'[t]) /\ ~Updating(call'[t]) /\ (Writing(call'[t]) <=> Writing(call[t]))
    BY <1>1, <2>3, <2>4 DEF Fit, Updating, Writing, SyncOps
  <2> QED BY <1>1, <2>2, <2>4, <2>5, <2>6, <2>7, <2>8, PlainStep
<1>5. CASE Goto(t, [call[t] EXCEPT !.op = "failed"]) /\ UNCHANGED <<w, cond>>
  <2> DEFINE c == [call[t] EXCEPT !.op = "failed"]
  <2>2. Goto(t, c)
    BY <1>5
  <2>3. /\ c \in SyncCalls /\ c.op = "failed" /\ c.what = call[t].what /\ c.on = condition
        /\ c.again = call[t].again /\ c.failed = call[t].failed
    <3>1. "failed" \in SyncOps
      BY DEF SyncOps
    <3> QED BY <1>1, <3>1, Moved
  <2> HIDE DEF c
  <2>4. /\ call' \in [Tasks -> SyncCalls] /\ call'[t] = c
        /\ \A u \in Tasks \ {t} : call'[u] = call[u]
    BY <2>2, <2>3, SyncGoto DEF SyncInv, SyncType
  <2>5. Calm(t) /\ WaitSame(t) /\ w' \in WaitingType
    BY <1>5, <2>4, AlmostCalm DEF SyncInv, SyncType
  <2>6. WaitFit(t)' /\ \A l \in Conditions : Awaits(t, l)' => Awaits(t, l)
    BY <1>1, <1>2, <2>3, <2>4, <2>5 DEF WaitFit, Awaits, WaitSame
  <2>7. Fit(call'[t]) /\ ~Updating(call'[t]) /\ (Writing(call'[t]) <=> Writing(call[t]))
    BY <1>1, <2>3, <2>4 DEF Fit, Updating, Writing, SyncOps
  <2> QED BY <1>1, <1>5, <2>4, <2>5, <2>6, <2>7, PlainStep
<1> QED BY Zenon, <1>3, <1>4, <1>5 DEF SemSleep

LEMMA SleepReturnStep ==
    ASSUME SyncInv, NEW t \in Tasks, SleepReturn(t)
    PROVE  SyncInv'
<1> PICK o \in {"relock", "failed"} : o = IF w.result[t] = "OK" THEN "relock" ELSE "failed"
  OBVIOUS
<1> DEFINE c == [call[t] EXCEPT !.op = o]
<1>1. /\ w.mode[t] = "active" /\ w.on[t] = NoList /\ call[t].op = "asleep"
      /\ call[t] \in SyncRecords /\ Fit(call[t]) /\ WaitFit(t)
      /\ UNCHANGED <<w, cond, barrier, rw>>
  BY AtMeans DEF SleepReturn, SyncOps, syncVars
<1>2. Goto(t, c)
  BY DEF SleepReturn
<1>3. /\ c \in SyncCalls /\ c.op = o /\ c.what = call[t].what /\ c.on = call[t].on
      /\ c.again = call[t].again /\ c.failed = call[t].failed
  <2>1. o \in SyncOps
    BY DEF SyncOps
  <2> QED BY <1>1, <2>1, Moved
<1> HIDE DEF c
<1>4. /\ call' \in [Tasks -> SyncCalls] /\ call'[t] = c
      /\ \A u \in Tasks \ {t} : call'[u] = call[u]
  BY <1>2, <1>3, SyncGoto DEF SyncInv, SyncType
<1>5. Calm(t) /\ WaitSame(t) /\ w' \in WaitingType
  BY <1>1, <1>4, AlmostCalm DEF SyncInv, SyncType
<1>6. WaitFit(t)' /\ \A l \in Conditions : Awaits(t, l)' => Awaits(t, l)
  BY <1>1, <1>3, <1>4, <1>5 DEF WaitFit, Awaits, WaitSame
<1>7. Fit(call'[t]) /\ ~Updating(call'[t]) /\ (Writing(call'[t]) <=> Writing(call[t]))
  BY <1>1, <1>3, <1>4 DEF Fit, Updating, Writing, SyncOps
<1> QED BY <1>1, <1>4, <1>5, <1>6, <1>7, PlainStep

\* The same call at another place, after a wait in vain.
LEMMA MovedInVain ==
    ASSUME NEW c \in SyncRecords, NEW d, d = [c EXCEPT !.op = "relock", !.failed = TRUE]
    PROVE  /\ d \in SyncCalls
           /\ d.op = "relock" /\ d.what = c.what /\ d.again = c.again
<1> DEFINE b == [c EXCEPT !.op = "relock"]
<1>1. /\ b \in SyncRecords
      /\ b.op = "relock" /\ b.on = c.on /\ b.what = c.what /\ b.again = c.again
      /\ b.how = c.how /\ b.generation = c.generation /\ b.seen = c.seen
  <2>1. "relock" \in SyncOps
    BY DEF SyncOps
  <2> QED BY <2>1, Moved
<1>2. d = [b EXCEPT !.failed = TRUE]
  BY Zenon
<1> HIDE DEF b
<1>3. d = [op |-> "relock", what |-> c.what, how |-> c.how, on |-> c.on,
           generation |-> c.generation, again |-> c.again, failed |-> TRUE,
           seen |-> c.seen]
  BY <1>1, <1>2 DEF SyncRecords
<1>4. /\ c.what \in {"lock", "wait", "barrier", "read", "write", "unlock"}
      /\ c.how \in Timeouts /\ c.on \in Conditions \union {NoList}
      /\ c.generation \in Nat /\ c.again \in BOOLEAN /\ c.seen \in Counts
  BY DEF SyncRecords
<1>5. d \in SyncRecords
  BY <1>3, <1>4 DEF SyncRecords, SyncOps
<1> QED BY <1>3, <1>5 DEF SyncCalls

LEMMA GiveUpStep ==
    ASSUME SyncInv, NEW t \in Tasks, GiveUp(t)
    PROVE  SyncInv'
<1> DEFINE condition == call[t].on
           c == [call[t] EXCEPT !.op = "relock", !.failed = TRUE]
           n == NotCounted(cond[condition].waiters)
           k == cond[condition].count
<1>1. /\ w.mode[t] = "active" /\ w.on[t] = NoList /\ call[t].op = "failed"
      /\ call[t] \in SyncRecords /\ Fit(call[t]) /\ WaitFit(t)
      /\ UNCHANGED <<w, barrier, rw>> /\ Goto(t, c)
  BY AtMeans DEF GiveUp, SyncOps
<1>2. condition \in Conditions /\ Awaits(t, condition)
  BY <1>1 DEF WaitFit, Awaits
<1>3. /\ n \in Nat /\ k \in 0 .. SemMaxCount
      /\ n + k + 1 >= cond[condition].waiters + cond[condition].count
  BY <1>2, CondFields DEF SyncInv, SyncType, NotCounted
<1>4. CondBecomes(condition, n, k)
  <2>1. cond \in CondType
    BY DEF SyncInv, SyncType
  <2>2. cond' = WaitersSet(cond, condition, n)
    BY DEF GiveUp, WaitersSet
  <2> HIDE DEF condition, n
  <2> QED BY <1>2, <2>1, <2>2, PartBecomes
<1>5. c \in SyncCalls /\ c.op = "relock" /\ c.what = call[t].what /\ c.again = call[t].again
  BY <1>1, MovedInVain
<1>6. Fit(c) /\ ~Updating(c) /\ (Writing(c) <=> Writing(call[t]))
  <2> HIDE DEF c
  <2> QED BY <1>1, <1>5 DEF Fit, Updating, Writing, SyncOps
<1> HIDE DEF c, n, k
<1> QED BY <1>1, <1>2, <1>3, <1>4, <1>5, <1>6, LeavesTheCount

\* A thread locks the mutex, to begin or to go on.
LEMMA LocksMutex ==
    ASSUME SyncInv, NEW t \in Tasks, w.mode[t] = "active", w.on[t] = NoList,
           NEW c \in SyncRecords, NEW place \in {"enter", "relocking"},
           MutexLock(t, c, place), UNCHANGED <<cond, barrier, rw>>,
           c.op = "inside",
           c.what = "write" => IF place = "enter" THEN ~c.again ELSE c.again,
           place = "enter" => ~c.again, c.failed => c.again \/ c.what # "write",
           (c.what = "write" /\ c.again) <=> Writing(call[t])
    PROVE  SyncInv'
<1>1. place \in SyncOps
  BY DEF SyncOps
<1>2. /\ w' \in WaitingType
      /\ \A u \in Tasks \ {t} : WaitSame(u)
      /\ \/ Goto(t, c) /\ WaitSame(t)
         \/ /\ Goto(t, [c EXCEPT !.op = place])
            /\ w'.mode[t] = "waiting" /\ w'.on[t] = MutexList
  BY <1>1, MutexLockEffect DEF SyncInv
<1>3. CASE Goto(t, c) /\ WaitSame(t)
  <2>1. /\ call' \in [Tasks -> SyncCalls] /\ call'[t] = c
        /\ \A u \in Tasks \ {t} : call'[u] = call[u]
    BY <1>3, SyncGoto DEF SyncInv, SyncType, SyncCalls
  <2>2. Calm(t)
    BY <1>2, <2>1 DEF Calm
  <2>3. WaitFit(t)' /\ \A l \in Conditions : ~Awaits(t, l)'
    BY <1>3, <2>1, AwakeFits DEF WaitSame
  <2>4. Fit(call'[t]) /\ ~Updating(call'[t]) /\ (Writing(call'[t]) <=> Writing(call[t]))
    BY <2>1 DEF Fit, Updating, Writing, SyncOps
  <2> QED BY <1>2, <2>1, <2>2, <2>3, <2>4, PlainStep
<1>4. CASE /\ Goto(t, [c EXCEPT !.op = place])
           /\ w'.mode[t] = "waiting" /\ w'.on[t] = MutexList
  <2> DEFINE d == [c EXCEPT !.op = place]
  <2>1. /\ d \in SyncCalls /\ d.op = place /\ d.what = c.what
        /\ d.again = c.again /\ d.failed = c.failed
    BY <1>1, Moved
  <2>2. /\ call' \in [Tasks -> SyncCalls] /\ call'[t] = d
        /\ \A u \in Tasks \ {t} : call'[u] = call[u]
    <3> HIDE DEF d
    <3>1. Goto(t, d)
      BY <1>4 DEF d
    <3> QED BY <2>1, <3>1, SyncGoto DEF SyncInv, SyncType
  <2> HIDE DEF d
  <2>3. Calm(t)
    BY <1>2, <2>2 DEF Calm
  <2>4. WaitFit(t)' /\ \A l \in Conditions : ~Awaits(t, l)'
    BY <1>4, <2>1, <2>2, PosixSyncAssumption DEF WaitFit, Awaits
  <2>5. Fit(call'[t]) /\ ~Updating(call'[t]) /\ (Writing(call'[t]) <=> Writing(call[t]))
    BY <2>1, <2>2 DEF Fit, Updating, Writing, SyncOps
  <2> QED BY <1>2, <2>2, <2>3, <2>4, <2>5, PlainStep
<1> QED BY <1>2, <1>3, <1>4

LEMMA RelockStep ==
    ASSUME SyncInv, NEW t \in Tasks, Relock(t)
    PROVE  SyncInv'
<1> DEFINE c == Placed(call[t], "inside", NoList)
<1>1. /\ w.mode[t] = "active" /\ w.on[t] = NoList /\ call[t].op = "relock"
      /\ call[t] \in SyncRecords /\ Fit(call[t]) /\ WaitFit(t)
      /\ UNCHANGED <<cond, barrier, rw>> /\ MutexLock(t, c, "relocking")
  BY AtMeans DEF Relock, SyncOps, Placed
<1>2. /\ c \in SyncRecords /\ c.op = "inside" /\ c.what = call[t].what
      /\ c.again = call[t].again /\ c.failed = call[t].failed
  <2>1. "inside" \in SyncOps /\ NoList \in Conditions \union {NoList}
    BY DEF SyncOps
  <2> QED BY <1>1, <2>1, MovedOn
<1> HIDE DEF c
<1>3. /\ c.what = "write" => c.again
      /\ c.failed => c.again \/ c.what # "write"
      /\ (c.what = "write" /\ c.again) <=> Writing(call[t])
  BY <1>1, <1>2 DEF Fit, Updating, Writing, SyncOps
<1> QED BY <1>1, <1>2, <1>3, LocksMutex

LEMMA NewCallIs ==
    ASSUME NEW what \in {"lock", "wait", "barrier", "read", "write", "unlock"},
           NEW how \in Timeouts, NEW c, c = NewCall(what, how)
    PROVE  /\ c \in SyncRecords /\ c.op = "inside" /\ c.what = what
           /\ ~c.again /\ ~c.failed
<1>1. 0 \in Counts
  BY Zero
<1> QED BY <1>1 DEF NewCall, SyncRecords, SyncOps

LEMMA EnterStep ==
    ASSUME SyncInv, NEW t \in Tasks,
           NEW what \in {"lock", "wait", "barrier", "read", "write", "unlock"},
           NEW how \in Timeouts, Enter(t, what, how)
    PROVE  SyncInv'
<1> DEFINE c == NewCall(what, how)
<1>1. /\ w.mode[t] = "active" /\ w.on[t] = NoList /\ call[t] = NoCall
      /\ UNCHANGED <<cond, barrier, rw>> /\ MutexLock(t, c, "enter")
  BY FreeThread DEF Enter
<1>2. c \in SyncRecords /\ c.op = "inside" /\ ~c.again /\ ~c.failed
  BY NewCallIs
<1> HIDE DEF c
<1> QED BY <1>1, <1>2, Plain, LocksMutex

LEMMA LeaveStep ==
    ASSUME SyncInv, NEW t \in Tasks, Leave(t)
    PROVE  SyncInv'
<1>1. /\ w.mode[t] = "active" /\ call[t].op = "leave" /\ w.on[t] = NoList
      /\ MutexUnlock(t) /\ Goto(t, NoCall) /\ UNCHANGED <<cond, barrier, rw>>
  BY DEF Leave, At, Return, SyncInv, SyncWaits, WaitFit
<1>2. /\ call' \in [Tasks -> SyncCalls] /\ call'[t] = NoCall
      /\ \A u \in Tasks \ {t} : call'[u] = call[u]
  BY <1>1, Plain, SyncGoto DEF SyncInv, SyncType
<1>3. /\ w' \in WaitingType
      /\ \A u \in Tasks : WaitSame(u) \/ (w.mode[u] = "waiting" /\ Answered(u))
  BY <1>1, MutexUnlockEffect DEF SyncInv
<1>4. Calm(t) /\ WaitSame(t)
  BY <1>1, <1>2, <1>3 DEF Calm
<1>5. WaitFit(t)' /\ \A l \in Conditions : ~Awaits(t, l)'
  BY <1>1, <1>2, <1>4, Plain, AwakeFits DEF WaitSame
<1>6. Fit(call'[t]) /\ ~Updating(call'[t]) /\ (Writing(call'[t]) <=> Writing(call[t]))
  BY <1>1, <1>2, Plain DEF Writing, SyncOps
<1> QED BY <1>1, <1>2, <1>3, <1>4, <1>5, <1>6, PlainStep

LEMMA LockedStep ==
    ASSUME SyncInv, NEW t \in Tasks, Locked(t)
    PROVE  SyncInv'
<1>1. /\ w.mode[t] = "active" /\ w.on[t] = NoList /\ call[t].op = "inside"
      /\ UNCHANGED <<w, cond, barrier, rw>> /\ Goto(t, NoCall)
      /\ call[t].what \in {"lock", "wait"}
  BY AtMeans DEF Locked, SyncOps, syncVars, Return
<1>2. ~Writing(call[t])
  BY <1>1 DEF Writing
<1> QED BY <1>1, <1>2, Plain, GoesTo

\* The application unlocks the mutex.
LEMMA UnlockStep ==
    ASSUME SyncInv, NEW t \in Tasks, Unlock(t)
    PROVE  SyncInv'
<1>1. /\ w.mode[t] = "active" /\ w.on[t] = NoList /\ call[t] = NoCall
      /\ MutexUnlock(t) /\ UNCHANGED <<call, cond, barrier, rw>>
  BY FreeThread DEF Unlock
<1>2. call' \in [Tasks -> SyncCalls] /\ call'[t] = NoCall
  BY <1>1 DEF SyncInv, SyncType
<1>3. /\ w' \in WaitingType
      /\ \A u \in Tasks : WaitSame(u) \/ (w.mode[u] = "waiting" /\ Answered(u))
  BY <1>1, MutexUnlockEffect DEF SyncInv
<1>4. Calm(t) /\ WaitSame(t)
  BY <1>1, <1>3 DEF Calm
<1>5. WaitFit(t)' /\ \A l \in Conditions : ~Awaits(t, l)'
  BY <1>1, <1>2, <1>4, Plain, AwakeFits DEF WaitSame
<1>6. Fit(call'[t]) /\ ~Updating(call'[t]) /\ (Writing(call'[t]) <=> Writing(call[t]))
  BY <1>1, <1>2, Plain
<1> QED BY <1>1, <1>2, <1>3, <1>4, <1>5, <1>6, PlainStep

\* A wait that fails is not answered.
LEMMA WaitFailsStep ==
    ASSUME SyncInv, NEW t \in Tasks, WaitFails(t)
    PROVE  SyncInv'
<1>1. UNCHANGED <<call, cond, barrier, rw>> /\ (TimeOut(t) \/ Interrupted(t))
  BY DEF WaitFails, syncVars
<1>2. WaitFit(t) /\ Fit(call[t]) /\ call \in [Tasks -> SyncCalls] /\ w \in WaitingType
  BY DEF SyncInv, SyncWaits, RwCounted, RwExcluded, SyncType
<1>3. CASE w.mode[t] # "waiting"
  <2>1. w' = w
    BY <1>1, <1>3 DEF TimeOut, Interrupted, Wake
  <2>2. Calm(t) /\ WaitSame(t)
    BY <1>1, <2>1, AlmostCalm
  <2>3. WaitFit(t)' /\ \A l \in Conditions : Awaits(t, l)' => Awaits(t, l)
    BY <1>1, <1>2, <2>1 DEF WaitFit, Awaits
  <2> QED BY <1>1, <1>2, <2>1, <2>2, <2>3, PlainStep
<1>4. CASE w.mode[t] = "waiting"
  <2>1. w.on[t] # NoList /\ call[t].op \in {"enter", "relocking", "asleep"}
    BY <1>2, <1>4 DEF WaitFit
  <2>2. PICK result \in {"TIMEOUT", "INTR"} : w' = Unblock(w, t, "active", result)
    BY <1>1, <1>4, <2>1 DEF TimeOut, Interrupted, Wake
  <2>3. /\ w' \in WaitingType
        /\ w'.on[t] = NoList /\ w'.mode[t] = "active" /\ w'.result[t] # "OK"
        /\ \A u \in Tasks \ {t} : WaitSame(u)
    <3>1. "active" \in Modes /\ result \in Results /\ result # "OK"
      BY DEF Modes, Results
    <3> QED BY <1>2, <2>2, <3>1, UnblockEffect DEF WaitSame
  <2>4. Calm(t)
    BY <1>1, <2>3 DEF Calm
  <2>5. WaitFit(t)' /\ \A l \in Conditions : Awaits(t, l)' => Awaits(t, l)
    BY <1>1, <1>2, <1>4, <2>1, <2>3 DEF WaitFit, Awaits
  <2> QED BY <1>1, <1>2, <2>3, <2>4, <2>5, PlainStep
<1> QED BY <1>3, <1>4

-----------------------------------------------------------------------------
(* The looks at the object.                                                *)

\* A thread is counted as a waiter, with the mutex.
LEMMA CommitEffect ==
    ASSUME SyncInv, NEW t \in Tasks, w.mode[t] = "active", w.on[t] = NoList, UNCHANGED w,
           NEW condition \in Conditions, NEW c \in SyncRecords,
           Commit(t, c, condition), c.what = "write" => c.again
    PROVE  /\ call' \in [Tasks -> SyncCalls] /\ cond' \in CondType
           /\ Calm(t) /\ SyncWaits' /\ Counted' /\ Fit(call'[t]) /\ ~Updating(call'[t])
           /\ Writing(call'[t]) <=> c.what = "write"
<1> DEFINE d == Placed(c, "unlocking", condition)
<1>1. /\ d \in SyncCalls /\ d.op = "unlocking" /\ d.on = condition
      /\ d.what = c.what /\ d.again = c.again
  <2>1. "unlocking" \in SyncOps /\ condition \in Conditions \union {NoList}
    BY DEF SyncOps
  <2> QED BY <2>1, MovedOn
<1>2. Goto(t, d)
  BY DEF Commit, Placed
<1> HIDE DEF d
<1>3. /\ call' \in [Tasks -> SyncCalls] /\ call'[t] = d
      /\ \A u \in Tasks \ {t} : call'[u] = call[u]
  BY <1>1, <1>2, SyncGoto DEF SyncInv, SyncType
<1>4. Calm(t) /\ WaitSame(t)
  BY <1>3, AlmostCalm
<1>5. CondBecomes(condition, cond[condition].waiters + 1, cond[condition].count)
  <2> PICK n : n = cond[condition].waiters + 1
    OBVIOUS
  <2>1. cond' = WaitersSet(cond, condition, n) /\ cond \in CondType
    BY DEF Commit, WaitersSet, SyncInv, SyncType
  <2> QED BY <2>1, PartBecomes
<1>6. \A k \in Conditions : k # condition => ~Awaits(t, k)'
  BY <1>1, <1>3 DEF Awaits
<1>7. Counted' /\ cond' \in CondType
  BY <1>4, <1>5, <1>6, CountedMore
<1>8. WaitFit(t)'
  BY <1>1, <1>3, <1>4 DEF WaitFit, WaitSame
<1>9. SyncWaits'
  BY <1>4, <1>8, WaitsKeep
<1>10. Fit(call'[t]) /\ ~Updating(call'[t]) /\ (Writing(call'[t]) <=> c.what = "write")
  BY <1>1, <1>3 DEF Fit, Updating, Writing, SyncOps
<1> QED BY <1>3, <1>4, <1>7, <1>9, <1>10

\* A thread is about to leave, and what it has signalled is answered.
LEMMA LeavingEffect ==
    ASSUME SyncInv, NEW t \in Tasks, w.mode[t] = "active", w.on[t] = NoList, Leaving(t),
           \/ UNCHANGED <<w, cond>>
           \/ \E condition \in Conditions : CondSignal(condition) \/ CondBroadcast(condition)
    PROVE  /\ w' \in WaitingType /\ call' \in [Tasks -> SyncCalls] /\ cond' \in CondType
           /\ Calm(t) /\ SyncWaits' /\ Counted' /\ Fit(call'[t]) /\ ~Updating(call'[t])
           /\ ~Writing(call'[t])
<1>1. /\ call' \in [Tasks -> SyncCalls] /\ call'[t] = [op |-> "leave"]
      /\ \A u \in Tasks \ {t} : call'[u] = call[u]
  BY Plain, SyncGoto DEF Leaving, SyncInv, SyncType
<1>2. Fit(call'[t]) /\ ~Updating(call'[t]) /\ ~Writing(call'[t]) /\ call'[t].op = "leave"
  BY <1>1, Plain
<1>3. CASE UNCHANGED <<w, cond>>
  <2>1. Calm(t) /\ WaitSame(t) /\ w' \in WaitingType /\ cond' \in CondType
    BY <1>1, <1>3, AlmostCalm DEF SyncInv, SyncType
  <2>2. WaitFit(t)' /\ \A l \in Conditions : ~Awaits(t, l)'
    BY <1>2, <1>3, AwakeFits
  <2> QED BY <1>1, <1>2, <1>3, <2>1, <2>2, WaitsKeep, CountedKeeps
<1>4. CASE \E condition \in Conditions : CondSignal(condition) \/ CondBroadcast(condition)
  <2>1. /\ w' \in WaitingType /\ cond' \in CondType /\ StillCounted
        /\ \A u \in Tasks : \/ WaitSame(u)
                            \/ w.mode[u] = "waiting" /\ call[u].op = "asleep" /\ Answered(u)
    BY <1>4, SignalEffect
  <2>2. Calm(t) /\ WaitSame(t)
    BY <1>1, <2>1 DEF Calm
  <2>3. WaitFit(t)' /\ \A l \in Conditions : ~Awaits(t, l)'
    BY <1>2, <2>2, AwakeFits DEF WaitSame
  <2> QED BY <1>1, <1>2, <2>1, <2>2, <2>3, WaitsKeep, CountedSignal
<1> QED BY <1>3, <1>4

LEMMA NotifyStep ==
    ASSUME SyncInv, NEW t \in Tasks, NEW condition \in Conditions, Notify(t, condition)
    PROVE  SyncInv'
<1>1. /\ w.mode[t] = "active" /\ w.on[t] = NoList /\ call[t] = NoCall
      /\ CondSignal(condition) \/ CondBroadcast(condition)
      /\ UNCHANGED <<call, barrier, rw>>
  BY FreeThread DEF Notify
<1>2. /\ w' \in WaitingType /\ cond' \in CondType /\ StillCounted
      /\ \A u \in Tasks : \/ WaitSame(u)
                          \/ w.mode[u] = "waiting" /\ call[u].op = "asleep" /\ Answered(u)
  BY <1>1, SignalEffect
<1>3. Calm(t) /\ WaitSame(t)
  BY <1>1, <1>2 DEF Calm
<1>4. WaitFit(t)' /\ \A l \in Conditions : ~Awaits(t, l)'
  BY <1>1, <1>3, Plain, AwakeFits DEF WaitSame
<1>5. Fit(call'[t]) /\ ~Updating(call'[t]) /\ (Writing(call'[t]) <=> Writing(call[t]))
  BY <1>1, Plain
<1>6. SyncType'
  BY <1>1, <1>2 DEF SyncInv, SyncType
<1>7. SyncWaits' /\ Counted' /\ RwCounted'
  BY <1>1, <1>2, <1>3, <1>4, <1>5, WaitsKeep, CountedSignal, RwKeeps
<1> QED BY <1>6, <1>7 DEF SyncInv

LEMMA CondWaitStep ==
    ASSUME SyncInv, NEW t \in Tasks, NEW condition \in Conditions, NEW how \in Timeouts,
           CondWait(t, condition, how)
    PROVE  SyncInv'
<1> DEFINE c == NewCall("wait", how)
<1>1. /\ w.mode[t] = "active" /\ w.on[t] = NoList /\ call[t] = NoCall
      /\ Commit(t, c, condition) /\ UNCHANGED <<w, barrier, rw>>
  BY FreeThread DEF CondWait
<1>2. c \in SyncRecords /\ c.what = "wait"
  BY NewCallIs
<1> HIDE DEF c
<1>3. /\ call' \in [Tasks -> SyncCalls] /\ cond' \in CondType
      /\ Calm(t) /\ SyncWaits' /\ Counted' /\ Fit(call'[t]) /\ ~Updating(call'[t])
      /\ ~Writing(call'[t])
  BY <1>1, <1>2, CommitEffect
<1>4. RwCounted'
  BY <1>1, <1>3, Plain, RwKeeps
<1>5. SyncType'
  BY <1>1, <1>3 DEF SyncInv, SyncType
<1> QED BY <1>3, <1>4, <1>5 DEF SyncInv

\* The call of a thread that waits again, and at which barrier.
LEMMA MarkedAgain ==
    ASSUME NEW c \in SyncRecords, NEW d, d = [c EXCEPT !.again = TRUE]
    PROVE  d \in SyncRecords /\ d.what = c.what /\ d.op = c.op /\ d.again
           /\ d = [op |-> c.op, what |-> c.what, how |-> c.how, on |-> c.on,
                   generation |-> c.generation, again |-> TRUE, failed |-> c.failed,
           seen |-> c.seen]
<1>1. d = [op |-> c.op, what |-> c.what, how |-> c.how, on |-> c.on,
           generation |-> c.generation, again |-> TRUE, failed |-> c.failed,
           seen |-> c.seen]
  BY DEF SyncRecords
<1>2. /\ c.op \in SyncOps /\ c.what \in {"lock", "wait", "barrier", "read", "write", "unlock"}
      /\ c.how \in Timeouts /\ c.on \in Conditions \union {NoList}
      /\ c.generation \in Nat /\ c.failed \in BOOLEAN /\ c.seen \in Counts
  BY DEF SyncRecords
<1> QED BY <1>1, <1>2 DEF SyncRecords

AtBarrier(c, g) == [c EXCEPT !.again = TRUE, !.generation = g]

LEMMA Marked ==
    ASSUME NEW c \in SyncRecords, NEW g \in Nat,
           NEW d, d = AtBarrier(c, g)
    PROVE  d \in SyncRecords /\ d.what = c.what /\ d.op = c.op
<1> DEFINE b == [c EXCEPT !.again = TRUE]
<1>1. b = [op |-> c.op, what |-> c.what, how |-> c.how, on |-> c.on,
           generation |-> c.generation, again |-> TRUE, failed |-> c.failed,
           seen |-> c.seen]
  BY MarkedAgain
<1>2. d = [b EXCEPT !.generation = g]
  BY Zenon DEF AtBarrier
<1> HIDE DEF b
<1>3. d = [op |-> c.op, what |-> c.what, how |-> c.how, on |-> c.on,
           generation |-> g, again |-> TRUE, failed |-> c.failed,
           seen |-> c.seen]
  BY <1>1, <1>2
<1>4. /\ c.op \in SyncOps /\ c.what \in {"lock", "wait", "barrier", "read", "write", "unlock"}
      /\ c.how \in Timeouts /\ c.on \in Conditions \union {NoList}
      /\ c.failed \in BOOLEAN /\ c.seen \in Counts
  BY DEF SyncRecords
<1> QED BY <1>3, <1>4 DEF SyncRecords

LEMMA BarrierLookStep ==
    ASSUME SyncInv, NEW t \in Tasks, BarrierLook(t)
    PROVE  SyncInv'
<1> DEFINE c == AtBarrier(call[t], barrier.generation)
<1>1. /\ w.mode[t] = "active" /\ w.on[t] = NoList /\ call[t].op = "inside"
      /\ call[t] \in SyncRecords /\ call[t].what = "barrier" /\ UNCHANGED rw
  BY AtMeans DEF BarrierLook, Inside1, SyncOps
<1>2. barrier.count \in Nat /\ barrier.generation \in Nat
  BY DEF SyncInv, SyncType
<1>3. c \in SyncRecords /\ c.what = "barrier"
  BY <1>1, <1>2, Marked
<1>4. ~Writing(call[t])
  BY <1>1 DEF Writing
<1>5. ReadersCond \in Conditions
  BY PosixSyncAssumption
<1> HIDE DEF c
<1>6. /\ barrier' \in [count : Nat, generation : Nat]
      /\ \/ Leaving(t) /\ CondBroadcast(ReadersCond)
         \/ Leaving(t) /\ UNCHANGED <<w, cond>>
         \/ Commit(t, c, ReadersCond) /\ UNCHANGED w
  <2>1. CASE /\ barrier' = [count |-> 0, generation |-> barrier.generation + 1]
             /\ CondBroadcast(ReadersCond) /\ Leaving(t)
    BY <1>2, <2>1
  <2>2. CASE /\ barrier' = [barrier EXCEPT !.count = @ + 1]
             /\ Commit(t, c, ReadersCond) /\ UNCHANGED w
    <3>1. barrier' = [count |-> barrier.count + 1, generation |-> barrier.generation]
      <4>1. /\ barrier = [count |-> barrier.count, generation |-> barrier.generation]
            /\ barrier' = [barrier EXCEPT !.count = @ + 1]
        BY <2>2 DEF SyncInv, SyncType
      <4> QED BY <4>1
    <3>2. barrier.count + 1 \in Nat
      BY <1>2
    <3>3. barrier' \in [count : Nat, generation : Nat]
      BY <1>2, <3>1, <3>2
    <3> QED BY <2>2, <3>3
  <2>3. CASE /\ UNCHANGED <<w, barrier>>
             /\ Commit(t, c, ReadersCond) \/ (Leaving(t) /\ UNCHANGED cond)
    BY <2>3 DEF SyncInv, SyncType
  <2> QED BY Zenon, <2>1, <2>2, <2>3 DEF BarrierLook, c, AtBarrier
<1>7. CASE Leaving(t) /\ (CondBroadcast(ReadersCond) \/ UNCHANGED <<w, cond>>)
  <2>1. /\ w' \in WaitingType /\ call' \in [Tasks -> SyncCalls] /\ cond' \in CondType
        /\ Calm(t) /\ SyncWaits' /\ Counted' /\ Fit(call'[t]) /\ ~Updating(call'[t])
        /\ ~Writing(call'[t])
    BY <1>1, <1>5, <1>7, LeavingEffect
  <2>2. RwCounted'
    BY <1>1, <1>4, <2>1, RwKeeps
  <2>3. SyncType'
    BY <1>1, <1>6, <2>1 DEF SyncInv, SyncType
  <2> QED BY <2>1, <2>2, <2>3 DEF SyncInv
<1>8. CASE Commit(t, c, ReadersCond) /\ UNCHANGED w
  <2>1. /\ call' \in [Tasks -> SyncCalls] /\ cond' \in CondType
        /\ Calm(t) /\ SyncWaits' /\ Counted' /\ Fit(call'[t]) /\ ~Updating(call'[t])
        /\ ~Writing(call'[t])
    BY <1>1, <1>3, <1>5, <1>8, CommitEffect
  <2>2. RwCounted'
    BY <1>1, <1>4, <2>1, RwKeeps
  <2>3. SyncType'
    BY <1>1, <1>6, <1>8, <2>1 DEF SyncInv, SyncType
  <2> QED BY <2>1, <2>2, <2>3 DEF SyncInv
<1> QED BY <1>6, <1>7, <1>8

-----------------------------------------------------------------------------
(* Read-write locks.                                                       *)

RwBecomes(r, x, n, k) ==
    rw' = [readers |-> r, writer |-> x, waiting |-> n, crossed |-> k]

LEMMA RwFields ==
    ASSUME SyncInv
    PROVE  /\ rw.readers \in [Tasks -> Nat] /\ rw.writer \in Tasks \union {NoOwner}
           /\ rw.waiting \in Counts /\ rw.crossed \in BOOLEAN /\ rw \in RwType
           /\ rw = [readers |-> rw.readers, writer |-> rw.writer, waiting |-> rw.waiting,
                    crossed |-> rw.crossed]
           /\ RwExcluded /\ (~rw.crossed => RwExact)
BY DEF SyncInv, SyncType, RwType, RwCounted

\* The writers that are counted, as one thread begins to wait, or waits no more.
LEMMA WritersChange ==
    ASSUME SyncInv, NEW t \in Tasks, Calm(t)
    PROVE  /\ Cardinality(WritersWaiting) \in Nat
           /\ Cardinality(WritersWaiting') \in Nat
           /\ Cardinality(WritersWaiting') < CountModulus
           /\ (Writing(call[t]) <=> Writing(call'[t])) =>
                 Cardinality(WritersWaiting') = Cardinality(WritersWaiting)
           /\ ~Writing(call[t]) /\ Writing(call'[t]) =>
                 Cardinality(WritersWaiting') = Cardinality(WritersWaiting) + 1
           /\ Writing(call[t]) /\ ~Writing(call'[t]) =>
                 Cardinality(WritersWaiting') = Cardinality(WritersWaiting) - 1
<1>1. \A u \in Tasks \ {t} : Writing(call'[u]) <=> Writing(call[u])
  BY OthersKeep
<1>2. WritersWaiting \in SUBSET Tasks /\ WritersWaiting' \in SUBSET Tasks
  BY DEF WritersWaiting
<1>3. /\ Cardinality(WritersWaiting) \in Nat /\ Cardinality(WritersWaiting') \in Nat
      /\ Cardinality(WritersWaiting') < CountModulus
  BY <1>2, HowMany, PosixSyncAssumption
<1>4. ASSUME Writing(call[t]) <=> Writing(call'[t])
      PROVE  Cardinality(WritersWaiting') = Cardinality(WritersWaiting)
  <2>1. WritersWaiting' = WritersWaiting
    BY <1>1, <1>4 DEF WritersWaiting
  <2> QED BY <2>1
<1>5. ASSUME ~Writing(call[t]), Writing(call'[t])
      PROVE  Cardinality(WritersWaiting') = Cardinality(WritersWaiting) + 1
  <2>1. WritersWaiting' = WritersWaiting \union {t} /\ t \in Tasks \ WritersWaiting
    BY <1>1, <1>5 DEF WritersWaiting
  <2> QED BY <1>2, <2>1, OneJoins
<1>6. ASSUME Writing(call[t]), ~Writing(call'[t])
      PROVE  Cardinality(WritersWaiting') = Cardinality(WritersWaiting) - 1
  <2>1. WritersWaiting' = WritersWaiting \ {t} /\ t \in WritersWaiting
    BY <1>1, <1>6 DEF WritersWaiting
  <2> QED BY <1>2, <2>1, OneLeaves
<1> QED BY <1>3, <1>4, <1>5, <1>6

\* The lock goes from one thread to another, and no writer is about to have it.
LEMMA RwStep ==
    ASSUME SyncInv, NEW t \in Tasks, Calm(t), Fit(call'[t]), ~Updating(call'[t]),
           Writing(call'[t]) <=> Writing(call[t]),
           NEW r \in [Tasks -> Nat], NEW x \in Tasks \union {NoOwner},
           RwBecomes(r, x, rw.waiting, rw.crossed), x # NoOwner => \A u \in Tasks : r[u] = 0,
           \A u \in Tasks \ {t} : call[u].op # "uncount"
    PROVE  rw' \in RwType /\ RwCounted'
<1>1. /\ rw'.readers = r /\ rw'.writer = x /\ rw'.waiting = rw.waiting
      /\ rw'.crossed = rw.crossed /\ rw' \in RwType
  BY RwFields DEF RwBecomes, RwType
<1>2. \A u \in Tasks : Fit(call'[u]) /\ (Updating(call'[u]) => u # t /\ call'[u] = call[u])
  BY OthersKeep DEF Calm
<1>3. RwExcluded'
  <2>1. \A u \in Tasks : call'[u].op # "uncount"
    BY <1>2 DEF Updating
  <2> QED BY <1>1, <1>2, <2>1 DEF RwExcluded
<1>4. ASSUME ~rw.crossed
      PROVE  RwExact'
  <2>1. RwExact
    BY <1>4, RwFields
  <2>2. Cardinality(WritersWaiting') = Cardinality(WritersWaiting)
    BY WritersChange
  <2> QED BY <1>1, <1>2, <2>1, <2>2 DEF RwExact, Updating
<1> QED BY <1>1, <1>3, <1>4 DEF RwCounted

\* The same call, with the count it has read.
Seen(c, o, n) == [c EXCEPT !.op = o, !.seen = n]

LEMMA MovedWithCount ==
    ASSUME NEW c \in SyncRecords, NEW o \in SyncOps, NEW n \in Counts,
           NEW d, d = Seen(c, o, n)
    PROVE  /\ d \in SyncRecords /\ d \in SyncCalls
           /\ d.op = o /\ d.what = c.what /\ d.again = c.again
           /\ d.failed = c.failed /\ d.seen = n
<1> DEFINE b == [c EXCEPT !.op = o]
<1>1. /\ b \in SyncRecords
      /\ b.op = o /\ b.on = c.on /\ b.what = c.what /\ b.again = c.again
      /\ b.failed = c.failed /\ b.how = c.how /\ b.generation = c.generation
  BY Moved
<1>2. d = [b EXCEPT !.seen = n]
  BY Zenon DEF Seen
<1> HIDE DEF b
<1>3. d = [op |-> o, what |-> c.what, how |-> c.how, on |-> c.on,
           generation |-> c.generation, again |-> c.again, failed |-> c.failed,
           seen |-> n]
  BY <1>1, <1>2 DEF SyncRecords
<1>4. /\ c.what \in {"lock", "wait", "barrier", "read", "write", "unlock"}
      /\ c.how \in Timeouts /\ c.on \in Conditions \union {NoList}
      /\ c.generation \in Nat /\ c.again \in BOOLEAN /\ c.failed \in BOOLEAN
  BY DEF SyncRecords
<1>5. d \in SyncRecords
  BY <1>3, <1>4 DEF SyncRecords
<1> QED BY <1>3, <1>5 DEF SyncCalls

\* The first half of an update: a writer reads the count.
LEMMA ReadCountStep ==
    ASSUME SyncInv, NEW t \in Tasks, w.mode[t] = "active", w.on[t] = NoList,
           call[t] \in SyncRecords, Fit(call[t]), call[t].op \in {"inside", "relocking"},
           call[t].what = "write",
           NEW place \in {"count", "uncount", "astray"}, ReadCount(t, place),
           UNCHANGED <<w, cond, barrier>>, place = "count" <=> ~call[t].again,
           place = "uncount" /\ ~call[t].failed => Unheld
    PROVE  SyncInv'
<1> DEFINE c == Seen(call[t], place, rw.waiting)
           k == rw.crossed \/ \E u \in Tasks \ {t} :
                   \/ call[u].op = "astray"
                   \/ place = "astray" /\ call[u].op \in {"count", "uncount"}
<1>1. Goto(t, c) /\ rw' = [rw EXCEPT !.crossed = k]
  BY DEF ReadCount, Seen
<1>2. /\ c \in SyncCalls /\ c.op = place /\ c.what = "write" /\ c.again = call[t].again
      /\ c.failed = call[t].failed /\ c.seen = rw.waiting
  <2>1. place \in SyncOps /\ rw.waiting \in Counts
    BY RwFields DEF SyncOps
  <2> QED BY <2>1, MovedWithCount
<1>3. k \in BOOLEAN
  BY RwFields
<1> HIDE DEF c
<1>4. /\ call' \in [Tasks -> SyncCalls] /\ call'[t] = c
      /\ \A u \in Tasks \ {t} : call'[u] = call[u]
  BY <1>1, <1>2, SyncGoto DEF SyncInv, SyncType
<1>5. Calm(t) /\ w' \in WaitingType
  BY <1>4, AlmostCalm DEF SyncInv, SyncType
<1>6. WaitFit(t)' /\ \A l \in Conditions : ~Awaits(t, l)'
  BY <1>2, <1>4, AwakeFits
<1>7. SyncWaits' /\ Counted'
  BY <1>5, <1>6, WaitsKeep, CountedKeeps
<1>8. /\ rw'.readers = rw.readers /\ rw'.writer = rw.writer /\ rw'.waiting = rw.waiting
      /\ rw'.crossed = k /\ rw' \in RwType
  <2> HIDE DEF k
  <2>1. rw' = [readers |-> rw.readers, writer |-> rw.writer, waiting |-> rw.waiting,
               crossed |-> k]
    BY <1>1, RwFields
  <2> QED BY <1>3, <2>1, RwFields DEF RwType
<1>9. Fit(call'[t]) /\ (Writing(call'[t]) <=> Writing(call[t]))
  BY <1>2, <1>4 DEF Fit, Updating, Writing, SyncOps
<1>10. RwExcluded'
  <2>1. \A u \in Tasks : Fit(call'[u])
    BY <1>5, <1>9, OthersKeep
  <2>2. \A u \in Tasks : call'[u].op = "uncount" /\ ~call'[u].failed => Unheld
    BY <1>2, <1>4, RwFields DEF RwExcluded
  <2> QED BY <1>8, <2>1, <2>2, RwFields DEF RwExcluded, Unheld
<1>11. ASSUME ~k
       PROVE  RwExact'
  <2>1. RwExact /\ \A u \in Tasks \ {t} :
           /\ call[u].op # "astray"
           /\ place = "astray" => ~Updating(call[u])
    BY <1>11, RwFields DEF Updating
  <2>2. Cardinality(WritersWaiting') = Cardinality(WritersWaiting)
    BY <1>5, <1>9, WritersChange
  <2>3. \A u \in Tasks : Updating(call'[u]) => call'[u].seen = rw'.waiting
    BY <1>2, <1>4, <1>8, <2>1 DEF RwExact
  <2>4. \A v, u \in Tasks : call'[v].op = "astray" /\ Updating(call'[u]) => v = u
    BY <1>2, <1>4, <2>1
  <2> QED BY <1>8, <2>1, <2>2, <2>3, <2>4 DEF RwExact
<1> QED BY <1>4, <1>5, <1>7, <1>8, <1>10, <1>11 DEF SyncInv, SyncType, RwCounted

\* One that updates the count does so alone: with the mutex, or without it while
\* no two updates have crossed.
UpdatesAlone(t) == \A u \in Tasks : ~rw.crossed /\ Updating(call[u]) => u = t

\* The second half: it writes one more or one less, and may have the lock.
LEMMA WriteCountStep ==
    ASSUME SyncInv, NEW t \in Tasks, w.mode[t] = "active", w.on[t] = NoList,
           call[t] \in SyncRecords, Updating(call[t]), UpdatesAlone(t),
           NEW c \in SyncCalls, Goto(t, c), UNCHANGED <<w, cond, barrier>>,
           Fit(c), ~Updating(c), Writing(c) <=> call[t].op = "count",
           c.op \notin {"unlocking", "sleeping", "asleep", "failed"},
           NEW x \in Tasks \union {NoOwner}, NEW n,
           n = IF call[t].op = "count" THEN Incremented(call[t].seen)
               ELSE Decremented(call[t].seen),
           RwBecomes(rw.readers, x, n, rw.crossed),
           \/ x = rw.writer
           \/ /\ \A u \in Tasks : rw.readers[u] = 0
              /\ \A u \in Tasks \ {t} : call[u].op # "uncount"
    PROVE  SyncInv'
<1>1. /\ call' \in [Tasks -> SyncCalls] /\ call'[t] = c
      /\ \A u \in Tasks \ {t} : call'[u] = call[u]
  BY SyncGoto DEF SyncInv, SyncType
<1>2. Calm(t) /\ w' \in WaitingType
  BY <1>1, AlmostCalm DEF SyncInv, SyncType
<1>3. WaitFit(t)' /\ \A l \in Conditions : ~Awaits(t, l)'
  BY <1>1, AwakeFits
<1>4. SyncWaits' /\ Counted'
  BY <1>2, <1>3, WaitsKeep, CountedKeeps
<1>5. call[t].seen \in Counts /\ CountModulus \in Nat
  BY PosixSyncAssumption DEF SyncRecords
<1>6. n \in Counts
  BY <1>5 DEF Incremented, Decremented, Counts
<1>7. /\ rw'.readers = rw.readers /\ rw'.writer = x /\ rw'.waiting = n
      /\ rw'.crossed = rw.crossed /\ rw' \in RwType
  BY <1>6, RwFields DEF RwBecomes, RwType
<1>8. \A u \in Tasks : Fit(call'[u]) /\ (Updating(call'[u]) => u # t /\ call'[u] = call[u])
  BY <1>1, <1>2, OthersKeep
<1>9. RwExcluded'
  <2>1. \A u \in Tasks : call'[u].op = "uncount" => u # t /\ call'[u] = call[u]
    BY <1>8 DEF Updating
  <2> QED BY <1>7, <1>8, <2>1, RwFields DEF RwExcluded, Unheld
<1>10. ASSUME ~rw.crossed
       PROVE  RwExact'
  <2>1. RwExact /\ \A u \in Tasks : ~Updating(call'[u])
    BY <1>8, <1>10, RwFields DEF UpdatesAlone
  <2>2. /\ call[t].seen = Cardinality(WritersWaiting)
        /\ Writing(call[t]) <=> call[t].op # "count"
    <3>1. Fit(call[t])
      BY RwFields DEF RwExcluded
    <3> QED BY <2>1, <3>1 DEF RwExact, Fit, Updating, Writing, SyncOps
  <2>3. n = Cardinality(WritersWaiting')
    BY <1>1, <1>2, <1>5, <2>2, WritersChange
       DEF Incremented, Decremented, Counts, Updating
  <2> QED BY <1>7, <2>1, <2>3 DEF RwExact, Updating
<1> QED BY <1>1, <1>2, <1>4, <1>7, <1>9, <1>10 DEF SyncInv, SyncType, RwCounted

LEMMA RelockReturnStep ==
    ASSUME SyncInv, NEW t \in Tasks, RelockReturn(t)
    PROVE  SyncInv'
<1>1. /\ w.mode[t] = "active" /\ w.on[t] = NoList /\ call[t].op = "relocking"
      /\ call[t] \in SyncRecords /\ Fit(call[t])
      /\ UNCHANGED <<w, cond, barrier>>
  BY AtMeans DEF RelockReturn, SyncOps
<1>2. CASE Goto(t, [call[t] EXCEPT !.op = "inside"]) /\ UNCHANGED rw
  <2> DEFINE c == [call[t] EXCEPT !.op = "inside"]
  <2>1. "inside" \in SyncOps
    BY DEF SyncOps
  <2>2. /\ c \in SyncCalls /\ c.op = "inside" /\ c.what = call[t].what
        /\ c.again = call[t].again /\ c.failed = call[t].failed
    BY <1>1, <2>1, Moved
  <2>3. Goto(t, c) /\ UNCHANGED rw
    BY <1>2
  <2> HIDE DEF c
  <2>4. Fit(c) /\ ~Updating(c) /\ (Writing(c) <=> Writing(call[t]))
    BY <1>1, <2>2 DEF Fit, Updating, Writing, SyncOps
  <2> QED BY <1>1, <2>2, <2>3, <2>4, GoesTo
<1>3. CASE call[t].what # "write" /\ Return(t) /\ UNCHANGED rw
  <2>1. ~Writing(call[t]) /\ Goto(t, NoCall)
    BY <1>3 DEF Writing, Return
  <2> QED BY <1>1, <1>3, <2>1, Plain, GoesTo
<1>4. CASE call[t].what = "write" /\ ReadCount(t, "astray")
  <2>1. call[t].again
    BY <1>1, <1>4 DEF Fit, SyncOps
  <2> QED BY <1>1, <1>4, <2>1, ReadCountStep
<1> QED BY Zenon, <1>2, <1>3, <1>4 DEF RelockReturn

\* A thread that has the mutex, about to look at the lock.
LEMMA RwInside ==
    ASSUME SyncInv, NEW t \in Tasks, NEW what, Inside1(t, what)
    PROVE  /\ w.mode[t] = "active" /\ w.on[t] = NoList /\ call[t].op = "inside"
           /\ call[t] \in SyncRecords /\ call[t].what = what /\ Fit(call[t])
           /\ what = "write" => (Writing(call[t]) <=> call[t].again)
           /\ what # "write" => ~Writing(call[t])
<1>1. /\ w.mode[t] = "active" /\ w.on[t] = NoList /\ call[t].op = "inside"
      /\ call[t] \in SyncRecords /\ call[t].what = what /\ Fit(call[t])
  BY AtMeans DEF Inside1, SyncOps
<1> QED BY <1>1 DEF Writing, SyncOps

\* The threads that have the mutex of the object.
Holding(t) ==
    \/ call[t].op \in {"inside", "unlocking", "leave", "count", "uncount", "second"}
    \/ /\ call[t].op \in {"enter", "relocking"}
       /\ w.mode[t] = "active" /\ w.result[t] = "OK"

Owned == \A t \in Tasks : Holding(t) => owner = t

LEMMA NoneUncounts ==
    ASSUME Owned, NEW t \in Tasks, call[t].op \in {"inside", "uncount"}
    PROVE  \A u \in Tasks \ {t} : call[u].op # "uncount"
BY DEF Owned, Holding

LEMMA OneUpdates ==
    ASSUME SyncInv, Owned, NEW t \in Tasks, Updating(call[t])
    PROVE  UpdatesAlone(t)
<1> SUFFICES ASSUME NEW u \in Tasks, ~rw.crossed, Updating(call[u])
             PROVE  u = t
  BY DEF UpdatesAlone
<1>1. CASE call[t].op = "astray" \/ call[u].op = "astray"
  BY <1>1, RwFields DEF RwExact
<1>2. CASE call[t].op # "astray" /\ call[u].op # "astray"
  BY <1>2 DEF Owned, Holding, Updating
<1> QED BY <1>1, <1>2

\* The call of a writer that has been counted.
Enlisted(c, o) == [c EXCEPT !.op = o, !.again = TRUE, !.seen = 0]

LEMMA EnlistedIs ==
    ASSUME NEW c \in SyncRecords, NEW o \in SyncOps, NEW d, d = Enlisted(c, o)
    PROVE  d \in SyncCalls /\ d.op = o /\ d.what = c.what /\ d.again
<1> DEFINE b == [c EXCEPT !.op = o]
           e == [b EXCEPT !.again = TRUE]
<1>1. b \in SyncRecords /\ b.op = o /\ b.what = c.what
  BY Moved
<1>2. d = [e EXCEPT !.seen = 0]
  BY Zenon DEF Enlisted
<1> HIDE DEF b
<1>3. e \in SyncRecords /\ e.what = c.what /\ e.op = o /\ e.again
  BY <1>1, MarkedAgain
<1> HIDE DEF e
<1>4. d = [op |-> o, what |-> c.what, how |-> e.how, on |-> e.on,
           generation |-> e.generation, again |-> e.again, failed |-> e.failed,
           seen |-> 0]
  BY <1>2, <1>3 DEF SyncRecords
<1>5. /\ e.what \in {"lock", "wait", "barrier", "read", "write", "unlock"}
      /\ e.how \in Timeouts /\ e.on \in Conditions \union {NoList}
      /\ e.generation \in Nat /\ e.again \in BOOLEAN /\ e.failed \in BOOLEAN
  BY <1>3 DEF SyncRecords
<1>6. d \in SyncRecords
  BY <1>3, <1>4, <1>5, Zero DEF SyncRecords
<1> QED BY <1>3, <1>4, <1>6 DEF SyncCalls

\* A writer, and with it the count of those that wait.
RwEnds(r, n, x) == [r EXCEPT !.waiting = n, !.writer = x]

LEMMA RwUpdate ==
    ASSUME NEW r \in RwType, NEW n, NEW x
    PROVE  RwEnds(r, n, x) = [readers |-> r.readers, writer |-> x, waiting |-> n,
                              crossed |-> r.crossed]
<1> DEFINE v == [r EXCEPT !.waiting = n]
<1>1. v = [readers |-> r.readers, writer |-> r.writer, waiting |-> n,
           crossed |-> r.crossed]
  BY DEF RwType
<1>2. RwEnds(r, n, x) = [v EXCEPT !.writer = x]
  BY Zenon DEF RwEnds
<1> HIDE DEF v
<1> QED BY <1>1, <1>2

LEMMA RdLookStep ==
    ASSUME SyncInv, Owned, NEW t \in Tasks, RdLook(t)
    PROVE  SyncInv'
<1>1. /\ w.mode[t] = "active" /\ w.on[t] = NoList /\ call[t].op = "inside"
      /\ call[t] \in SyncRecords /\ call[t].what = "read" /\ ~Writing(call[t])
      /\ UNCHANGED <<w, barrier>>
  BY RwInside DEF RdLook
<1>2. CASE Commit(t, call[t], ReadersCond) /\ UNCHANGED rw
  <2>1. /\ call' \in [Tasks -> SyncCalls] /\ cond' \in CondType
        /\ Calm(t) /\ SyncWaits' /\ Counted' /\ Fit(call'[t]) /\ ~Updating(call'[t])
        /\ ~Writing(call'[t])
    BY <1>1, <1>2, PosixSyncAssumption, CommitEffect
  <2>2. RwCounted'
    BY <1>1, <1>2, <2>1, RwKeeps
  <2>3. SyncType'
    BY <1>1, <1>2, <2>1 DEF SyncInv, SyncType
  <2> QED BY <2>1, <2>2, <2>3 DEF SyncInv
<1>3. CASE Leaving(t) /\ UNCHANGED <<cond, rw>>
  <2>1. /\ w' \in WaitingType /\ call' \in [Tasks -> SyncCalls] /\ cond' \in CondType
        /\ Calm(t) /\ SyncWaits' /\ Counted' /\ Fit(call'[t]) /\ ~Updating(call'[t])
        /\ ~Writing(call'[t])
    BY <1>1, <1>3, LeavingEffect
  <2>2. RwCounted'
    BY <1>1, <1>3, <2>1, RwKeeps
  <2>3. SyncType'
    BY <1>1, <1>3, <2>1 DEF SyncInv, SyncType
  <2> QED BY <2>1, <2>2, <2>3 DEF SyncInv
<1>4. CASE Goto(t, [call[t] EXCEPT !.again = TRUE]) /\ UNCHANGED <<cond, rw>>
  <2> DEFINE c == [call[t] EXCEPT !.again = TRUE]
  <2>1. c \in SyncRecords /\ c.what = "read" /\ c.op = "inside"
    BY <1>1, MarkedAgain
  <2> HIDE DEF c
  <2>2. Fit(c) /\ ~Updating(c) /\ ~Writing(c) /\ c \in SyncCalls
    BY <2>1 DEF Fit, Updating, Writing, SyncCalls
  <2>3. Goto(t, c)
    BY <1>4 DEF c
  <2> QED BY <1>1, <1>4, <2>1, <2>2, <2>3, GoesTo
<1>5. CASE /\ Leaving(t) /\ UNCHANGED cond
           /\ ~ReadBlocked(t) /\ rw' = [rw EXCEPT !.readers[t] = @ + 1]
  <2>1. /\ w' \in WaitingType /\ call' \in [Tasks -> SyncCalls] /\ cond' \in CondType
        /\ Calm(t) /\ SyncWaits' /\ Counted' /\ Fit(call'[t]) /\ ~Updating(call'[t])
        /\ ~Writing(call'[t])
    BY <1>1, <1>5, LeavingEffect
  <2> DEFINE r == [rw.readers EXCEPT ![t] = @ + 1]
  <2>2. r \in [Tasks -> Nat] /\ rw.writer = NoOwner
    BY <1>5, RwFields DEF ReadBlocked
  <2>3. RwBecomes(r, rw.writer, rw.waiting, rw.crossed)
    BY <1>5, RwFields DEF RwBecomes
  <2> HIDE DEF r
  <2>4. rw' \in RwType /\ RwCounted'
    BY <1>1, <2>1, <2>2, <2>3, NoneUncounts, RwFields, RwStep
  <2> QED BY <1>1, <2>1, <2>4 DEF SyncInv, SyncType
<1>6. \/ Commit(t, call[t], ReadersCond) /\ UNCHANGED rw
      \/ Leaving(t) /\ UNCHANGED <<cond, rw>>
      \/ Goto(t, [call[t] EXCEPT !.again = TRUE]) /\ UNCHANGED <<cond, rw>>
      \/ /\ Leaving(t) /\ UNCHANGED cond
         /\ ~ReadBlocked(t) /\ rw' = [rw EXCEPT !.readers[t] = @ + 1]
  BY Zenon DEF RdLook
<1> QED BY <1>2, <1>3, <1>4, <1>5, <1>6

LEMMA WrLookStep ==
    ASSUME SyncInv, NEW t \in Tasks, WrLook(t)
    PROVE  SyncInv'
<1>1. /\ w.mode[t] = "active" /\ w.on[t] = NoList /\ call[t].op = "inside"
      /\ call[t] \in SyncRecords /\ call[t].what = "write"
      /\ Fit(call[t]) /\ (Writing(call[t]) <=> call[t].again)
      /\ UNCHANGED <<w, barrier>>
  BY RwInside DEF WrLook
<1>2. CASE ~call[t].again /\ Leaving(t) /\ UNCHANGED <<cond, rw>>
  <2>1. /\ w' \in WaitingType /\ call' \in [Tasks -> SyncCalls] /\ cond' \in CondType
        /\ Calm(t) /\ SyncWaits' /\ Counted' /\ Fit(call'[t]) /\ ~Updating(call'[t])
        /\ ~Writing(call'[t])
    BY <1>1, <1>2, LeavingEffect
  <2>2. RwCounted'
    BY <1>1, <1>2, <2>1, RwKeeps
  <2>3. SyncType'
    BY <1>1, <1>2, <2>1 DEF SyncInv, SyncType
  <2> QED BY <2>1, <2>2, <2>3 DEF SyncInv
<1>3. CASE ~call[t].again /\ ReadCount(t, "count") /\ UNCHANGED cond
  BY <1>1, <1>3, ReadCountStep
<1>4. CASE call[t].again /\ Commit(t, call[t], WritersCond) /\ UNCHANGED rw
  <2>1. /\ call' \in [Tasks -> SyncCalls] /\ cond' \in CondType
        /\ Calm(t) /\ SyncWaits' /\ Counted' /\ Fit(call'[t]) /\ ~Updating(call'[t])
        /\ Writing(call'[t])
    BY <1>1, <1>4, PosixSyncAssumption, CommitEffect
  <2>2. RwCounted'
    BY <1>1, <1>4, <2>1, RwKeeps
  <2>3. SyncType'
    BY <1>1, <1>4, <2>1 DEF SyncInv, SyncType
  <2> QED BY <2>1, <2>2, <2>3 DEF SyncInv
<1>5. CASE /\ call[t].again
           /\ call[t].failed \/ ~WriteBlocked
           /\ ReadCount(t, "uncount") /\ UNCHANGED cond
  <2>1. ~call[t].failed => Unheld
    BY <1>5 DEF WriteBlocked, Readers, Unheld
  <2> QED BY <1>1, <1>5, <2>1, ReadCountStep
<1> QED BY Zenon, <1>2, <1>3, <1>4, <1>5 DEF WrLook

LEMMA CountWriterStep ==
    ASSUME SyncInv, Owned, NEW t \in Tasks, CountWriter(t)
    PROVE  SyncInv'
<1> DEFINE c == Enlisted(call[t], "inside")
<1>1. /\ w.mode[t] = "active" /\ w.on[t] = NoList /\ call[t].op = "count"
      /\ call[t] \in SyncRecords /\ Fit(call[t]) /\ Updating(call[t])
      /\ Goto(t, c) /\ UNCHANGED <<w, cond, barrier>>
  BY AtMeans DEF CountWriter, SyncOps, Updating, Enlisted
<1>2. c \in SyncCalls /\ c.op = "inside" /\ c.what = "write" /\ c.again
  <2>1. call[t].what = "write" /\ "inside" \in SyncOps
    BY <1>1 DEF Fit, SyncOps
  <2> QED BY <1>1, <2>1, EnlistedIs
<1> HIDE DEF c
<1>3. Fit(c) /\ ~Updating(c) /\ Writing(c)
  BY <1>2 DEF Fit, Updating, Writing, SyncOps
<1> DEFINE n == Incremented(call[t].seen)
<1>4. RwBecomes(rw.readers, rw.writer, n, rw.crossed)
  <2> HIDE DEF n
  <2>1. rw' = [rw EXCEPT !.waiting = n]
    BY DEF CountWriter, n
  <2> QED BY <2>1, RwFields DEF RwBecomes
<1>5. UpdatesAlone(t)
  BY <1>1, OneUpdates
<1> QED BY <1>1, <1>2, <1>3, <1>4, <1>5, RwFields, WriteCountStep

LEMMA UncountWriterStep ==
    ASSUME SyncInv, Owned, NEW t \in Tasks, UncountWriter(t)
    PROVE  SyncInv'
<1> DEFINE c == [op |-> "leave"]
           n == Decremented(call[t].seen)
           x == IF call[t].failed THEN rw.writer ELSE t
<1>1. /\ w.mode[t] = "active" /\ w.on[t] = NoList /\ call[t].op = "uncount"
      /\ call[t] \in SyncRecords /\ Fit(call[t]) /\ Updating(call[t])
      /\ Goto(t, c) /\ UNCHANGED <<w, cond, barrier>>
  BY AtMeans DEF UncountWriter, SyncOps, Updating, Leaving
<1>2. c \in SyncCalls /\ Fit(c) /\ ~Updating(c) /\ ~Writing(c) /\ c.op = "leave"
  BY Plain
<1>3. RwBecomes(rw.readers, x, n, rw.crossed)
  <2>1. rw' = RwEnds(rw, n, x)
    BY Zenon DEF UncountWriter, RwEnds
  <2> HIDE DEF n, x
  <2> QED BY <2>1, RwFields, RwUpdate DEF RwBecomes
<1>4. UpdatesAlone(t)
  BY <1>1, OneUpdates
<1>5. \/ x = rw.writer
      \/ /\ \A u \in Tasks : rw.readers[u] = 0
         /\ \A u \in Tasks \ {t} : call[u].op # "uncount"
  BY <1>1, RwFields, NoneUncounts DEF RwExcluded, Unheld
<1>6. x \in Tasks \union {NoOwner}
  BY RwFields
<1> HIDE DEF c, n, x
<1>7. n = Decremented(call[t].seen)
  BY DEF n
<1> QED BY <1>1, <1>2, <1>3, <1>4, <1>5, <1>6, <1>7, WriteCountStep

LEMMA UncountAstrayStep ==
    ASSUME SyncInv, Owned, NEW t \in Tasks, UncountAstray(t)
    PROVE  SyncInv'
<1>1. /\ w.mode[t] = "active" /\ w.on[t] = NoList /\ call[t].op = "astray"
      /\ call[t] \in SyncRecords /\ Fit(call[t]) /\ Updating(call[t])
      /\ Goto(t, NoCall) /\ UNCHANGED <<w, cond, barrier>>
  BY AtMeans DEF UncountAstray, SyncOps, Updating, Return
<1> DEFINE n == Decremented(call[t].seen)
<1>2. RwBecomes(rw.readers, rw.writer, n, rw.crossed)
  <2> HIDE DEF n
  <2>1. rw' = [rw EXCEPT !.waiting = n]
    BY DEF UncountAstray, n
  <2> QED BY <2>1, RwFields DEF RwBecomes
<1>3. UpdatesAlone(t)
  BY <1>1, OneUpdates
<1> QED BY <1>1, <1>2, <1>3, Plain, RwFields, WriteCountStep

\* The first half of the unlock: the lock is given up, and a writer signalled.
LEMMA RwUnlockLookStep ==
    ASSUME SyncInv, Owned, NEW t \in Tasks, RwUnlockLook(t)
    PROVE  SyncInv'
<1>1. /\ w.mode[t] = "active" /\ w.on[t] = NoList /\ call[t].op = "inside"
      /\ call[t] \in SyncRecords /\ call[t].what = "unlock" /\ ~Writing(call[t])
      /\ UNCHANGED barrier
  BY RwInside DEF RwUnlockLook
<1>2. /\ w' \in WaitingType /\ call' \in [Tasks -> SyncCalls] /\ cond' \in CondType
      /\ Calm(t) /\ SyncWaits' /\ Counted' /\ Fit(call'[t]) /\ ~Updating(call'[t])
      /\ ~Writing(call'[t])
  <2>1. CASE Leaving(t) /\ (UNCHANGED <<w, cond>> \/ CondSignal(WritersCond))
    BY <1>1, <2>1, PosixSyncAssumption, LeavingEffect
  <2>2. CASE Goto(t, [call[t] EXCEPT !.op = "second"]) /\ UNCHANGED <<w, cond>>
    <3> DEFINE c == [call[t] EXCEPT !.op = "second"]
    <3>1. c \in SyncCalls /\ c.op = "second" /\ c.what = "unlock"
      <4>1. "second" \in SyncOps
        BY DEF SyncOps
      <4> QED BY <1>1, <4>1, Moved
    <3> HIDE DEF c
    <3>2. Goto(t, c)
      BY <2>2 DEF c
    <3>3. /\ call' \in [Tasks -> SyncCalls] /\ call'[t] = c
          /\ \A u \in Tasks \ {t} : call'[u] = call[u]
      BY <3>1, <3>2, SyncGoto DEF SyncInv, SyncType
    <3>4. Calm(t) /\ w' \in WaitingType /\ cond' \in CondType
      BY <2>2, <3>3, AlmostCalm DEF SyncInv, SyncType
    <3>5. WaitFit(t)' /\ \A l \in Conditions : ~Awaits(t, l)'
      BY <1>1, <2>2, <3>1, <3>3, AwakeFits
    <3>6. SyncWaits' /\ Counted'
      BY <2>2, <3>4, <3>5, WaitsKeep, CountedKeeps
    <3>7. Fit(call'[t]) /\ ~Updating(call'[t]) /\ ~Writing(call'[t])
      BY <3>1, <3>3 DEF Fit, Updating, Writing
    <3> QED BY <3>3, <3>4, <3>6, <3>7
  <2> QED BY Zenon, <2>1, <2>2 DEF RwUnlockLook
<1>3. rw' \in RwType /\ RwCounted'
  <2>1. CASE rw' = rw
    BY <1>1, <1>2, <2>1, RwKeeps DEF SyncInv, SyncType
  <2>2. CASE rw' = [rw EXCEPT !.writer = NoOwner]
    <3>1. RwBecomes(rw.readers, NoOwner, rw.waiting, rw.crossed)
      BY <2>2, RwFields DEF RwBecomes
    <3> QED BY <1>1, <1>2, <3>1, NoneUncounts, RwFields, RwStep
  <2>3. CASE /\ rw' = [rw EXCEPT !.readers[t] = @ - 1]
             /\ t \in Readers /\ rw.writer # t
    <3> DEFINE r == [rw.readers EXCEPT ![t] = @ - 1]
    <3>1. r \in [Tasks -> Nat] /\ rw.writer = NoOwner
      BY <2>3, RwFields DEF Readers, RwExcluded
    <3>2. RwBecomes(r, rw.writer, rw.waiting, rw.crossed)
      BY <2>3, RwFields DEF RwBecomes
    <3> HIDE DEF r
    <3> QED BY <1>1, <1>2, <3>1, <3>2, NoneUncounts, RwFields, RwStep
  <2>4. \/ rw' = rw
        \/ rw' = [rw EXCEPT !.writer = NoOwner]
        \/ /\ rw' = [rw EXCEPT !.readers[t] = @ - 1]
           /\ t \in Readers /\ rw.writer # t
    <3>1. CASE rw.writer # t /\ t \notin Readers
      BY <3>1 DEF RwUnlockLook
    <3>2. CASE ~(rw.writer # t /\ t \notin Readers)
      <4>1. rw' = IF rw.writer = t THEN [rw EXCEPT !.writer = NoOwner]
                  ELSE [rw EXCEPT !.readers[t] = @ - 1]
        BY Zenon, <3>2 DEF RwUnlockLook
      <4> QED BY <3>2, <4>1
    <3> QED BY <3>1, <3>2
  <2> QED BY <2>1, <2>2, <2>3, <2>4
<1> QED BY <1>1, <1>2, <1>3 DEF SyncInv, SyncType

LEMMA RwUnlockAgainStep ==
    ASSUME SyncInv, NEW t \in Tasks, RwUnlockAgain(t)
    PROVE  SyncInv'
<1>1. /\ w.mode[t] = "active" /\ w.on[t] = NoList /\ call[t].op = "second"
      /\ Fit(call[t]) /\ Leaving(t) /\ UNCHANGED <<barrier, rw>>
      /\ CondBroadcast(ReadersCond) \/ UNCHANGED <<w, cond>>
  BY AtMeans DEF RwUnlockAgain, SyncOps
<1>2. ~Writing(call[t])
  BY <1>1 DEF Fit, Writing
<1>3. /\ w' \in WaitingType /\ call' \in [Tasks -> SyncCalls] /\ cond' \in CondType
      /\ Calm(t) /\ SyncWaits' /\ Counted' /\ Fit(call'[t]) /\ ~Updating(call'[t])
      /\ ~Writing(call'[t])
  BY <1>1, PosixSyncAssumption, LeavingEffect
<1>4. RwCounted'
  BY <1>1, <1>2, <1>3, RwKeeps
<1>5. SyncType'
  BY <1>1, <1>3 DEF SyncInv, SyncType
<1> QED BY <1>3, <1>4, <1>5 DEF SyncInv

-----------------------------------------------------------------------------

\* A step of a thread that uses one of the three objects.
SyncAction(t) ==
    GoOn(t) \/ WaitFails(t) \/ CondCalls(t) \/ BarrierWait(t) \/ RwCalls(t)

LEMMA SyncStep ==
    ASSUME SyncInv, Owned, NEW t \in Tasks, SyncAction(t)
    PROVE  SyncInv'
<1>1. {"none", "timed", "forever"} \subseteq Timeouts /\ ReadersCond \in Conditions
  BY PosixSyncAssumption DEF Timeouts
<1>2. ASSUME GoOn(t) PROVE SyncInv'
  BY <1>2, EnterReturnStep, UnlockingStep, SemSleepStep, SleepReturnStep, GiveUpStep,
     RelockStep, RelockReturnStep, LeaveStep, LockedStep, BarrierLookStep, RdLookStep,
     WrLookStep, CountWriterStep, UncountWriterStep, UncountAstrayStep,
     RwUnlockLookStep, RwUnlockAgainStep DEF GoOn
<1>3. ASSUME CondCalls(t) PROVE SyncInv'
  BY <1>1, <1>3, EnterStep, UnlockStep, CondWaitStep, NotifyStep DEF CondCalls, Lock
<1>4. ASSUME BarrierWait(t) PROVE SyncInv'
  BY <1>1, <1>4, EnterStep DEF BarrierWait
<1>5. ASSUME RwCalls(t) PROVE SyncInv'
  BY <1>1, <1>5, EnterStep DEF RwCalls
<1> QED BY <1>2, <1>3, <1>4, <1>5, WaitFailsStep DEF SyncAction

-----------------------------------------------------------------------------
(* Who has the mutex of the object owns it.                                *)

\* Threads that have ended no wait have the mutex if they had it.
OthersStay(t) ==
    \A u \in Tasks \ {t} : call'[u] = call[u] /\ (WaitSame(u) \/ call[u].op = "asleep")

LEMMA OwnedStays ==
    ASSUME Owned, NEW t \in Tasks, owner' = owner, OthersStay(t),
           owner = t \/ ~Holding(t)'
    PROVE  Owned'
<1>1. \A u \in Tasks \ {t} : Holding(u)' => Holding(u)
  BY DEF OthersStay, Holding, WaitSame
<1> QED BY <1>1 DEF Owned

\* It goes on in its call, with the mutex or without, and may signal.
LEMMA GoesOn ==
    ASSUME SyncInv, Owned, NEW t \in Tasks, NEW c, Goto(t, c), owner' = owner,
           \/ UNCHANGED w
           \/ \E condition \in Conditions : CondSignal(condition) \/ CondBroadcast(condition),
           \/ Holding(t)
           \/ c.op \in {"none", "sleeping", "asleep", "failed", "relock", "astray"}
    PROVE  Owned'
<1>1. call'[t] = c /\ \A u \in Tasks \ {t} : call'[u] = call[u]
  BY DEF Goto, SyncInv, SyncType
<1>2. \A u \in Tasks : WaitSame(u) \/ call[u].op = "asleep"
  <2>1. CASE UNCHANGED w
    BY <2>1 DEF WaitSame
  <2>2. CASE \E condition \in Conditions : CondSignal(condition) \/ CondBroadcast(condition)
    BY <2>2, SignalEffect
  <2> QED BY <2>1, <2>2
<1>3. owner = t \/ ~Holding(t)'
  BY <1>1 DEF Owned, Holding
<1> QED BY <1>1, <1>2, <1>3, OwnedStays DEF OthersStay

\* The owner gives the mutex to one that waits for it, or to nobody.
LEMMA MutexGiven ==
    ASSUME SyncInv, Owned, NEW t \in Tasks, owner = t, MutexUnlock(t),
           \A u \in Tasks \ {t} : call'[u] = call[u], ~Holding(t)'
    PROVE  Owned'
<1>1. \A u \in Tasks \ {t} : ~Holding(u)
  BY DEF Owned
<1>2. CASE UNCHANGED w
  <2>1. \A u \in Tasks : ~Holding(u)'
    BY <1>1, <1>2 DEF Holding
  <2> QED BY <2>1 DEF Owned
<1>3. CASE \E next \in WaitersOf(w, MutexList) : owner' = next /\ w' = Wake(w, next, "OK")
  <2>1. PICK next \in Tasks :
           w.on[next] = MutexList /\ owner' = next /\ w' = Wake(w, next, "OK")
    BY <1>3 DEF WaitersOf
  <2>2. w' = Unblock(w, next, "active", "OK")
    <3>1. w.mode[next] = "waiting"
      BY <2>1, PosixSyncAssumption DEF SyncInv, SyncWaits, WaitFit
    <3> QED BY <2>1, <3>1 DEF Wake
  <2>3. \A u \in Tasks \ {next} : WaitSame(u)
    <3>1. w \in WaitingType /\ "active" \in Modes /\ "OK" \in Results
      BY DEF SyncInv, SyncType, Modes, Results
    <3> QED BY <2>2, <3>1, UnblockEffect DEF WaitSame
  <2>4. \A u \in Tasks : Holding(u)' => u = next
    BY <1>1, <2>3 DEF Holding, WaitSame
  <2> QED BY <2>1, <2>4 DEF Owned
<1> QED BY <1>2, <1>3 DEF MutexUnlock

\* A thread gets the mutex that nobody has, or waits for it.
LEMMA MutexTaken ==
    ASSUME SyncInv, Owned, NEW t \in Tasks, NEW c \in SyncRecords,
           NEW place \in {"enter", "relocking"}, MutexLock(t, c, place)
    PROVE  Owned'
<1>1. place \in SyncOps
  BY DEF SyncOps
<1>2. /\ \A u \in Tasks \ {t} : WaitSame(u)
      /\ \/ Goto(t, c) /\ WaitSame(t)
         \/ /\ Goto(t, [c EXCEPT !.op = place])
            /\ w'.mode[t] = "waiting" /\ w'.on[t] = MutexList
  BY <1>1, MutexLockEffect DEF SyncInv
<1>3. \A u \in Tasks \ {t} : call'[u] = call[u]
  BY <1>2 DEF Goto, SyncInv, SyncType
<1>4. CASE owner = NoOwner
  <2>1. owner' = t
    BY <1>4 DEF MutexLock
  <2>2. \A u \in Tasks \ {t} : ~Holding(u)'
    BY <1>2, <1>3, <1>4, PosixSyncAssumption DEF Owned, Holding, WaitSame
  <2> QED BY <2>1, <2>2 DEF Owned
<1>5. CASE owner # NoOwner
  <2>1. owner' = owner /\ Goto(t, [c EXCEPT !.op = place])
    BY <1>5 DEF MutexLock
  <2>2. w'.mode[t] = "waiting"
    <3>1. w' = BlockOn(w, t, MutexList, FALSE)
      BY <1>5 DEF MutexLock
    <3>2. w \in WaitingType /\ MutexList \in WaitLists
      BY PosixSyncAssumption DEF SyncInv, SyncType
    <3>3. PICK no \in BOOLEAN : no = FALSE
      OBVIOUS
    <3>4. w' = BlockOn(w, t, MutexList, no)
      BY <3>1, <3>3
    <3> QED BY <3>2, <3>4, BlockEffect
  <2>3. call'[t].op = place
    <3> DEFINE d == [c EXCEPT !.op = place]
    <3>1. d.op = place
      BY <1>1, Moved
    <3>2. Goto(t, d)
      BY <2>1
    <3> HIDE DEF d
    <3>3. call'[t] = d
      BY <3>2 DEF Goto, SyncInv, SyncType
    <3> QED BY <3>1, <3>3
  <2>4. ~Holding(t)'
    BY <2>2, <2>3 DEF Holding
  <2> QED BY <1>2, <1>3, <2>1, <2>4, OwnedStays DEF OthersStay
<1> QED BY <1>4, <1>5

LEMMA OwnedWhileLooking ==
    ASSUME SyncInv, Owned, NEW t \in Tasks,
           \/ Locked(t) \/ BarrierLook(t) \/ RdLook(t) \/ WrLook(t)
           \/ CountWriter(t) \/ UncountWriter(t)
           \/ RwUnlockLook(t) \/ RwUnlockAgain(t)
    PROVE  Owned'
<1>1. Holding(t) /\ owner' = owner
  BY DEF Locked, BarrierLook, RdLook, WrLook, CountWriter, UncountWriter, RwUnlockLook,
         RwUnlockAgain, Inside1, At, Holding, syncVars
<1>2. \E c : Goto(t, c)
  BY Zenon DEF Locked, BarrierLook, RdLook, WrLook, CountWriter, UncountWriter, RwUnlockLook,
         RwUnlockAgain, Return, Leaving, Commit, ReadCount
<1>3. \/ UNCHANGED w
      \/ \E condition \in Conditions : CondSignal(condition) \/ CondBroadcast(condition)
  <2>1. UNCHANGED w \/ CondBroadcast(ReadersCond) \/ CondSignal(WritersCond)
    BY Zenon DEF Locked, BarrierLook, RdLook, WrLook, CountWriter, UncountWriter, RwUnlockLook,
       RwUnlockAgain
  <2> QED BY <2>1, PosixSyncAssumption
<1> QED BY <1>1, <1>2, <1>3, GoesOn

LEMMA OwnedWhileWaiting ==
    ASSUME SyncInv, Owned, NEW t \in Tasks,
           \/ EnterReturn(t) \/ SemSleep(t) \/ SleepReturn(t) \/ GiveUp(t)
           \/ RelockReturn(t) \/ UncountAstray(t)
    PROVE  Owned'
<1>1. NoCall.op = "none"
  BY Plain
<1>2. CASE EnterReturn(t) \/ RelockReturn(t)
  <2>1. /\ UNCHANGED <<w, owner>> /\ call[t].op \in {"enter", "relocking"}
        /\ w.mode[t] = "active" /\ call[t] \in SyncRecords
    BY <1>2, AtMeans DEF EnterReturn, RelockReturn, syncVars, SyncOps
  <2>2. CASE w.result[t] = "OK"
    <3>1. Holding(t) /\ \E c : Goto(t, c)
      BY <1>2, <2>1, <2>2 DEF Holding, EnterReturn, RelockReturn
    <3> QED BY <2>1, <3>1, GoesOn
  <2>3. CASE w.result[t] # "OK"
    <3>1. Goto(t, NoCall) \/ Goto(t, Seen(call[t], "astray", rw.waiting))
      BY Zenon, <1>2, <2>3 DEF EnterReturn, RelockReturn, Return, ReadCount, Seen
    <3>2. Seen(call[t], "astray", rw.waiting).op = "astray"
      <4>1. "astray" \in SyncOps /\ rw.waiting \in Counts
        BY RwFields DEF SyncOps
      <4> QED BY <2>1, <4>1, MovedWithCount
    <3> QED BY <1>1, <2>1, <3>1, <3>2, GoesOn
  <2> QED BY <2>2, <2>3
<1>3. CASE SemSleep(t)
  <2>1. /\ call[t].op = "sleeping" /\ call[t] \in SyncRecords /\ owner' = owner
        /\ WaitFit(t)
    BY <1>3, AtMeans DEF SemSleep, SyncOps
  <2>2. PICK o \in {"relock", "asleep", "failed"} : Goto(t, [call[t] EXCEPT !.op = o])
    BY <1>3 DEF SemSleep
  <2> DEFINE c == [call[t] EXCEPT !.op = o]
  <2>3. c.op = o
    <3>1. o \in SyncOps
      BY DEF SyncOps
    <3> QED BY <2>1, <3>1, Moved
  <2>4. UNCHANGED w \/ \E timed \in BOOLEAN : w' = BlockOn(w, t, call[t].on, timed)
    BY <1>3 DEF SemSleep
  <2> HIDE DEF c
  <2>5. call'[t] = c /\ \A u \in Tasks \ {t} : call'[u] = call[u]
    <3>1. Goto(t, c)
      BY <2>2 DEF c
    <3> QED BY <3>1 DEF Goto, SyncInv, SyncType
  <2>6. \A u \in Tasks \ {t} : WaitSame(u)
    <3>1. w \in WaitingType /\ call[t].on \in WaitLists
      BY <2>1, PosixSyncAssumption DEF SyncInv, SyncType, WaitFit
    <3> QED BY <2>4, <3>1, BlockEffect DEF WaitSame
  <2>7. ~Holding(t)'
    BY <2>3, <2>5 DEF Holding
  <2> QED BY <2>1, <2>5, <2>6, <2>7, OwnedStays DEF OthersStay
<1>4. CASE SleepReturn(t)
  <2>1. /\ call[t] \in SyncRecords /\ UNCHANGED <<w, owner>>
    BY <1>4, AtMeans DEF SleepReturn, SyncOps, syncVars
  <2>2. PICK o \in {"relock", "failed"} : Goto(t, [call[t] EXCEPT !.op = o])
    BY <1>4 DEF SleepReturn
  <2> DEFINE c == [call[t] EXCEPT !.op = o]
  <2>3. c.op = o /\ Goto(t, c)
    <3>1. o \in SyncOps
      BY DEF SyncOps
    <3> QED BY <2>1, <2>2, <3>1, Moved
  <2> HIDE DEF c
  <2> QED BY <2>1, <2>3, GoesOn
<1>5. CASE GiveUp(t)
  <2> DEFINE c == [call[t] EXCEPT !.op = "relock", !.failed = TRUE]
  <2>1. /\ call[t] \in SyncRecords /\ UNCHANGED <<w, owner>> /\ Goto(t, c)
    BY <1>5, AtMeans DEF GiveUp, SyncOps
  <2>2. c.op = "relock"
    BY <2>1, MovedInVain
  <2> HIDE DEF c
  <2> QED BY <2>1, <2>2, GoesOn
<1>6. CASE UncountAstray(t)
  BY <1>1, <1>6, GoesOn DEF UncountAstray, Return
<1> QED BY <1>2, <1>3, <1>4, <1>5, <1>6

LEMMA OwnedByUnlock ==
    ASSUME SyncInv, Owned, NEW t \in Tasks, Unlocking(t) \/ Leave(t) \/ Unlock(t)
    PROVE  Owned'
<1>1. NoCall.op = "none"
  BY Plain
<1>2. CASE Unlocking(t)
  <2> DEFINE c == [call[t] EXCEPT !.op = "sleeping"]
  <2>1. /\ call[t].op = "unlocking" /\ call[t] \in SyncRecords
        /\ MutexUnlock(t) /\ Goto(t, c)
    BY <1>2, AtMeans DEF Unlocking, SyncOps
  <2>2. c.op = "sleeping"
    <3>1. "sleeping" \in SyncOps
      BY DEF SyncOps
    <3> QED BY <2>1, <3>1, Moved
  <2> HIDE DEF c
  <2>3. call'[t] = c /\ \A u \in Tasks \ {t} : call'[u] = call[u]
    BY <2>1 DEF Goto, SyncInv, SyncType
  <2>4. owner = t /\ ~Holding(t)'
    BY <2>1, <2>2, <2>3 DEF Owned, Holding
  <2> QED BY <2>1, <2>3, <2>4, MutexGiven
<1>3. CASE Leave(t)
  <2>1. call[t].op = "leave" /\ MutexUnlock(t) /\ Goto(t, NoCall)
    BY <1>3 DEF Leave, At, Return
  <2>2. call'[t] = NoCall /\ \A u \in Tasks \ {t} : call'[u] = call[u]
    BY <2>1 DEF Goto, SyncInv, SyncType
  <2>3. owner = t /\ ~Holding(t)'
    BY <1>1, <2>1, <2>2 DEF Owned, Holding
  <2> QED BY <2>1, <2>2, <2>3, MutexGiven
<1>4. CASE Unlock(t)
  <2>1. call[t] = NoCall /\ MutexUnlock(t) /\ owner = t /\ call' = call
    BY <1>4, FreeThread DEF Unlock
  <2>2. ~Holding(t)'
    BY <1>1, <2>1 DEF Holding
  <2> QED BY <2>1, <2>2, MutexGiven
<1> QED BY <1>2, <1>3, <1>4

LEMMA OwnedByLock ==
    ASSUME SyncInv, Owned, NEW t \in Tasks,
           \/ Relock(t)
           \/ \E what \in {"lock", "wait", "barrier", "read", "write", "unlock"},
                 how \in Timeouts : Enter(t, what, how)
    PROVE  Owned'
<1>1. CASE Relock(t)
  <2> DEFINE c == Placed(call[t], "inside", NoList)
  <2>1. call[t] \in SyncRecords /\ MutexLock(t, c, "relocking")
    BY <1>1, AtMeans DEF Relock, SyncOps, Placed
  <2>2. c \in SyncRecords
    <3>1. "inside" \in SyncOps /\ NoList \in Conditions \union {NoList}
      BY DEF SyncOps
    <3> QED BY <2>1, <3>1, MovedOn
  <2> HIDE DEF c
  <2> QED BY <2>1, <2>2, MutexTaken
<1>2. ASSUME NEW what \in {"lock", "wait", "barrier", "read", "write", "unlock"},
             NEW how \in Timeouts, Enter(t, what, how)
      PROVE  Owned'
  <2> DEFINE c == NewCall(what, how)
  <2>1. MutexLock(t, c, "enter") /\ c \in SyncRecords
    BY <1>2, NewCallIs DEF Enter
  <2> HIDE DEF c
  <2> QED BY <2>1, MutexTaken
<1> QED BY <1>1, <1>2

LEMMA OwnedAsAWaitFails ==
    ASSUME SyncInv, Owned, NEW t \in Tasks, WaitFails(t)
    PROVE  Owned'
<1>1. UNCHANGED <<call, owner>> /\ (TimeOut(t) \/ Interrupted(t))
  BY DEF WaitFails, syncVars
<1>2. CASE w.mode[t] # "waiting"
  <2>1. w' = w
    BY <1>1, <1>2 DEF TimeOut, Interrupted, Wake
  <2> QED BY <1>1, <2>1 DEF Owned, Holding
<1>3. CASE w.mode[t] = "waiting"
  <2>1. w.on[t] # NoList /\ call[t].op \in {"enter", "relocking", "asleep"}
    BY <1>3 DEF SyncInv, SyncWaits, WaitFit
  <2>2. PICK result \in {"TIMEOUT", "INTR"} : w' = Unblock(w, t, "active", result)
    BY <1>1, <1>3, <2>1 DEF TimeOut, Interrupted, Wake
  <2>3. w'.result[t] # "OK" /\ \A u \in Tasks \ {t} : WaitSame(u)
    <3>1. "active" \in Modes /\ result \in Results /\ result # "OK" /\ w \in WaitingType
      BY DEF Modes, Results, SyncInv, SyncType
    <3> QED BY <2>2, <3>1, UnblockEffect DEF WaitSame
  <2>4. ~Holding(t)'
    BY <1>1, <2>1, <2>3 DEF Holding
  <2> QED BY <1>1, <2>3, <2>4, OwnedStays DEF OthersStay
<1> QED BY <1>2, <1>3

LEMMA OwnedStep ==
    ASSUME SyncInv, Owned, NEW t \in Tasks, SyncAction(t)
    PROVE  Owned'
<1>1. {"none", "timed", "forever"} \subseteq Timeouts /\ ReadersCond \in Conditions
  BY PosixSyncAssumption DEF Timeouts
<1>2. ASSUME GoOn(t) PROVE Owned'
  BY <1>2, OwnedWhileLooking, OwnedWhileWaiting, OwnedByUnlock, OwnedByLock DEF GoOn
<1>3. ASSUME CondCalls(t) PROVE Owned'
  <2>1. CASE CondWait(t, ReadersCond, "timed")
    <3>1. /\ owner = t /\ UNCHANGED <<w, owner>> /\ \A u \in Tasks \ {t} : call'[u] = call[u]
      BY <2>1 DEF CondWait, Commit, Goto, SyncInv, SyncType
    <3> QED BY <3>1, OwnedStays DEF OthersStay, WaitSame
  <2>2. CASE Notify(t, ReadersCond)
    <3>1. /\ UNCHANGED <<call, owner>> /\ call[t].op = "none"
          /\ CondSignal(ReadersCond) \/ CondBroadcast(ReadersCond)
      BY <2>2, FreeThread, Plain DEF Notify
    <3>2. \A u \in Tasks : WaitSame(u) \/ call[u].op = "asleep"
      BY <1>1, <3>1, SignalEffect
    <3>3. ~Holding(t)'
      BY <3>1 DEF Holding
    <3> QED BY <3>1, <3>2, <3>3, OwnedStays DEF OthersStay
  <2>3. CASE Lock(t) \/ Unlock(t)
    BY <1>1, <2>3, OwnedByLock, OwnedByUnlock DEF Lock
  <2> QED BY <1>3, <2>1, <2>2, <2>3 DEF CondCalls
<1>4. ASSUME BarrierWait(t) PROVE Owned'
  BY <1>1, <1>4, OwnedByLock DEF BarrierWait
<1>5. ASSUME RwCalls(t) PROVE Owned'
  BY <1>1, <1>5, OwnedByLock DEF RwCalls
<1> QED BY <1>2, <1>3, <1>4, <1>5, OwnedAsAWaitFails DEF SyncAction

\* What the invariant says of signals and of the lock.
LEMMA SyncProperties ==
    ASSUME SyncInv
    PROVE  NoSignalLost /\ RwlockExact
<1>1. ASSUME NEW c \in Conditions
      PROVE  Cardinality(CommittedTo(c)) <= cond[c].waiters + cond[c].count
  <2>1. CommittedTo(c) \subseteq Awaiting(c) /\ Awaiting(c) \in SUBSET Tasks
    BY DEF CommittedTo, Awaiting, Awaits
  <2>2. /\ Cardinality(CommittedTo(c)) <= Cardinality(Awaiting(c))
        /\ Cardinality(CommittedTo(c)) \in Nat /\ Cardinality(Awaiting(c)) \in Nat
    BY <2>1, NoMore
  <2> QED BY <2>2, CondFields DEF SyncInv, SyncType, Counted
<1>2. WritersWaiting = CountedWriters
  <2>1. \A t \in Tasks : call[t].op \in SyncOps <=> call[t].op \notin {"none", "leave"}
    <3>1. \A t \in Tasks : call[t] \in SyncCalls
      BY DEF SyncInv, SyncType
    <3>2. \A c \in SyncCalls : c.op \in SyncOps <=> c.op \notin {"none", "leave"}
      BY DEF SyncCalls, SyncRecords, SyncOps, NoCall
    <3> QED BY <3>1, <3>2
  <2> QED BY <2>1 DEF WritersWaiting, Writing, CountedWriters
<1>3. RwlockExact
  BY <1>2, RwFields DEF RwlockExact, Readers, RwExcluded, RwExact
<1> QED BY <1>1, <1>3 DEF NoSignalLost

-----------------------------------------------------------------------------
(* Named objects: the inductive invariant.                                 *)

DeletingOps == {"close_delete", "unlink_delete", "erase", "restore"}

NamedRecords == [op : DeletingOps \union {"use"}, what : {"named"}, on : Entries]

NamedCalls == NamedRecords \union {NoCall}

EntryType ==
    [name : Names \union {NoName}, references : Nat, unlinked : BOOLEAN,
     live : BOOLEAN, held : Nat]

NamedType ==
    /\ w \in WaitingType
    /\ call \in [Tasks -> NamedCalls]
    /\ table \in [Entries -> EntryType]

\* A task waits for the object of an entry, and nowhere else.
UsesFit ==
    \A t \in Tasks :
        /\ w.mode[t] = "waiting" <=> w.on[t] # NoList
        /\ w.mode[t] = "waiting" => w.on[t] \in Entries /\ call[t].op = "use"

Deletes(t, e) == call[t].op \in DeletingOps /\ call[t].on = e

\* An entry and those that delete its object: the one that does has it alone,
\* and until it has deleted the object, the object exists.
EntryFit(e) ==
    /\ table[e].references = table[e].held
    /\ table[e].held > 0 => table[e].live
    /\ (\E t \in Tasks : w.on[t] = e) => table[e].live
    /\ table[e].name = NoName => table[e] = NoEntry
    /\ ~table[e].live => table[e] = NoEntry \/ \E t \in Tasks : Deletes(t, e)
    /\ \A t \in Tasks : Deletes(t, e) =>
          /\ table[e].unlinked /\ table[e].references = 0
          /\ table[e].live <=> call[t].op # "erase"
          /\ \A u \in Tasks : Deletes(u, e) => u = t

OneOfAName ==
    \A e, f \in Entries :
        /\ table[e].name = table[f].name /\ table[e].name # NoName
        /\ ~table[e].unlinked /\ ~table[f].unlinked
        => e = f

NamedInv == NamedType /\ UsesFit /\ (\A e \in Entries : EntryFit(e)) /\ OneOfAName

LEMMA EntryFields ==
    ASSUME NamedType, NEW e \in Entries
    PROVE  /\ table[e] \in EntryType
           /\ table[e].references \in Nat /\ table[e].held \in Nat
           /\ table[e].name \in Names \union {NoName}
           /\ table[e].unlinked \in BOOLEAN /\ table[e].live \in BOOLEAN
BY DEF NamedType, EntryType

LEMMA EmptyEntry ==
    /\ NoEntry \in EntryType /\ NoEntry.name = NoName /\ NoEntry.references = 0
    /\ NoEntry.held = 0 /\ ~NoEntry.unlinked /\ ~NoEntry.live
BY DEF NoEntry, EntryType

LEMMA NamedGoto ==
    ASSUME NamedType, NEW t \in Tasks, NEW c \in NamedCalls, Goto(t, c)
    PROVE  /\ call' \in [Tasks -> NamedCalls]
           /\ call'[t] = c
           /\ \A u \in Tasks \ {t} : call'[u] = call[u]
BY DEF Goto, NamedType

LEMMA NamedAbout ==
    ASSUME NamedType, NEW t \in Tasks, NEW op \in DeletingOps \union {"use"},
           NEW e \in Entries, About(t, op, e)
    PROVE  /\ call' \in [Tasks -> NamedCalls]
           /\ call'[t].op = op /\ call'[t].on = e
           /\ \A u \in Tasks \ {t} : call'[u] = call[u]
<1> DEFINE c == [op |-> op, what |-> "named", on |-> e]
<1>1. c \in NamedCalls /\ c.op = op /\ c.on = e
  BY DEF NamedCalls, NamedRecords
<1>2. Goto(t, c)
  BY DEF About
<1> QED BY <1>1, <1>2, NamedGoto

LEMMA NamedReturn ==
    ASSUME NamedType, NEW t \in Tasks, Return(t)
    PROVE  /\ call' \in [Tasks -> NamedCalls]
           /\ call'[t].op = "none"
           /\ \A u \in Tasks \ {t} : call'[u] = call[u]
<1>1. NoCall \in NamedCalls /\ NoCall.op = "none"
  BY DEF NamedCalls, NoCall
<1> QED BY <1>1, NamedGoto DEF Return

LEMMA NamedAt ==
    ASSUME NamedType, NEW t \in Tasks, call[t].op \in DeletingOps \union {"use"}
    PROVE  call[t] \in NamedRecords /\ call[t].on \in Entries
<1>1. call[t] \in NamedCalls /\ NoCall.op = "none"
  BY DEF NamedType, NoCall
<1> QED BY <1>1 DEF NamedCalls, NamedRecords, DeletingOps

\* One entry becomes v, and the rest of the table is as it was.
Becomes(e, v) == table' = [table EXCEPT ![e] = v]

LEMMA EntryChange ==
    ASSUME NamedType, NEW e \in Entries, NEW v \in EntryType, Becomes(e, v)
    PROVE  /\ table' \in [Entries -> EntryType] /\ table'[e] = v
           /\ \A f \in Entries \ {e} : table'[f] = table[f]
BY DEF NamedType, Becomes

\* No task begins to delete e or stops, and none waits that did not.
LEMMA EntryAlone ==
    ASSUME NEW e \in Entries, EntryFit(e), table'[e] = table[e],
           \A t \in Tasks : Deletes(t, e)' <=> Deletes(t, e),
           \A t \in Tasks : Deletes(t, e) => call'[t].op = call[t].op,
           \A t \in Tasks : w'.on[t] = e => w.on[t] = e
    PROVE  EntryFit(e)'
BY DEF EntryFit

\* The fields of an entry that the calls change.
References(f, e, n, m) == [f EXCEPT ![e].references = n, ![e].held = m]
UnlinkedName(f, e) == [f EXCEPT ![e].unlinked = TRUE]
DeletedObject(f, e) == [f EXCEPT ![e].live = FALSE]

LEMMA EntryUpdate ==
    ASSUME NEW f \in [Entries -> EntryType], NEW e \in Entries, NEW n, NEW m
    PROVE  /\ References(f, e, n, m) = [f EXCEPT ![e] =
                 [name |-> f[e].name, references |-> n, unlinked |-> f[e].unlinked,
                  live |-> f[e].live, held |-> m]]
           /\ UnlinkedName(f, e) = [f EXCEPT ![e] =
                 [name |-> f[e].name, references |-> f[e].references, unlinked |-> TRUE,
                  live |-> f[e].live, held |-> f[e].held]]
           /\ DeletedObject(f, e) = [f EXCEPT ![e] =
                 [name |-> f[e].name, references |-> f[e].references,
                  unlinked |-> f[e].unlinked, live |-> FALSE, held |-> f[e].held]]
<1>1. f[e] = [name |-> f[e].name, references |-> f[e].references,
              unlinked |-> f[e].unlinked, live |-> f[e].live, held |-> f[e].held]
  BY DEF EntryType
<1>2. /\ [f[e] EXCEPT !.unlinked = TRUE] =
            [name |-> f[e].name, references |-> f[e].references, unlinked |-> TRUE,
             live |-> f[e].live, held |-> f[e].held]
      /\ [f[e] EXCEPT !.live = FALSE] =
            [name |-> f[e].name, references |-> f[e].references,
             unlinked |-> f[e].unlinked, live |-> FALSE, held |-> f[e].held]
      /\ [f[e] EXCEPT !.references = n] =
            [name |-> f[e].name, references |-> n, unlinked |-> f[e].unlinked,
             live |-> f[e].live, held |-> f[e].held]
  <2> PICK r : r = f[e]
    OBVIOUS
  <2>1. r = [name |-> r.name, references |-> r.references,
             unlinked |-> r.unlinked, live |-> r.live, held |-> r.held]
    BY <1>1
  <2>2. ASSUME NEW b
        PROVE  [r EXCEPT !.unlinked = b] =
                  [name |-> r.name, references |-> r.references, unlinked |-> b,
                   live |-> r.live, held |-> r.held]
    BY <2>1
  <2>3. ASSUME NEW b
        PROVE  [r EXCEPT !.live = b] =
                  [name |-> r.name, references |-> r.references,
                   unlinked |-> r.unlinked, live |-> b, held |-> r.held]
    BY <2>1
  <2>4. [r EXCEPT !.references = n] =
           [name |-> r.name, references |-> n, unlinked |-> r.unlinked,
            live |-> r.live, held |-> r.held]
    BY <2>1
  <2> QED BY Zenon, <2>2, <2>3, <2>4
<1> DEFINE v == [f EXCEPT ![e].references = n]
<1>3. v = [f EXCEPT ![e] = [name |-> f[e].name, references |-> n,
                            unlinked |-> f[e].unlinked, live |-> f[e].live,
                            held |-> f[e].held]]
  BY <1>2
<1>4. References(f, e, n, m) = [v EXCEPT ![e].held = m]
  BY Zenon DEF References
<1> HIDE DEF v
<1>5. /\ v[e] = [name |-> f[e].name, references |-> n, unlinked |-> f[e].unlinked,
                 live |-> f[e].live, held |-> f[e].held]
      /\ DOMAIN v = Entries
  BY <1>3
<1>6. [v[e] EXCEPT !.held = m] =
         [name |-> f[e].name, references |-> n, unlinked |-> f[e].unlinked,
          live |-> f[e].live, held |-> m]
  BY <1>5
<1>7. [v EXCEPT ![e].held = m] = [v EXCEPT ![e] =
         [name |-> f[e].name, references |-> n, unlinked |-> f[e].unlinked,
          live |-> f[e].live, held |-> m]]
  BY Zenon, <1>6
<1>8. [v EXCEPT ![e] = [name |-> f[e].name, references |-> n, unlinked |-> f[e].unlinked,
                        live |-> f[e].live, held |-> m]]
         = [f EXCEPT ![e] = [name |-> f[e].name, references |-> n,
                             unlinked |-> f[e].unlinked, live |-> f[e].live, held |-> m]]
  BY <1>3
<1> QED BY <1>2, <1>4, <1>7, <1>8 DEF UnlinkedName, DeletedObject

\* The references and those of the tasks are counted together.
LEMMA ReferencesCounted ==
    ASSUME NamedType, NEW e \in Entries, NEW n, table' = References(table, e, n, n)
    PROVE  Becomes(e, [name |-> table[e].name, references |-> n,
                       unlinked |-> table[e].unlinked, live |-> table[e].live,
                       held |-> n])
<1>1. table \in [Entries -> EntryType]
  BY DEF NamedType
<1> PICK m : m = n
  OBVIOUS
<1>2. References(table, e, n, m) = [table EXCEPT ![e] =
         [name |-> table[e].name, references |-> n, unlinked |-> table[e].unlinked,
          live |-> table[e].live, held |-> m]]
  BY <1>1, EntryUpdate
<1> QED BY <1>2 DEF Becomes

LEMMA NamesKeep ==
    ASSUME OneOfAName, NEW e \in Entries,
           \A f \in Entries \ {e} : table'[f] = table[f],
           table'[e].name = table[e].name \/ table'[e].name = NoName,
           table[e].unlinked => table'[e].unlinked \/ table'[e].name = NoName
    PROVE  OneOfAName'
BY DEF OneOfAName

\* One task closes, opens, unlinks or deletes one entry.
LEMMA EntryStep ==
    ASSUME NamedInv, NEW t \in Tasks, NEW e \in Entries, NEW v \in EntryType,
           Becomes(e, v), UNCHANGED w, call' \in [Tasks -> NamedCalls],
           \A u \in Tasks \ {t} : call'[u] = call[u],
           w.mode[t] = "active", EntryFit(e)',
           \A f \in Entries \ {e} : ~Deletes(t, f) /\ ~Deletes(t, f)'
    PROVE  /\ NamedType' /\ UsesFit' /\ \A f \in Entries : EntryFit(f)'
           /\ table'[e] = v /\ \A f \in Entries \ {e} : table'[f] = table[f]
<1>1. /\ table' \in [Entries -> EntryType] /\ table'[e] = v
      /\ \A f \in Entries \ {e} : table'[f] = table[f]
  BY EntryChange DEF NamedInv
<1>2. ASSUME NEW f \in Entries \ {e}
      PROVE  EntryFit(f)'
  <2>1. EntryFit(f)
    BY DEF NamedInv
  <2>2. \A u \in Tasks : (Deletes(u, f)' <=> Deletes(u, f))
                         /\ (Deletes(u, f) => call'[u].op = call[u].op)
    BY DEF Deletes
  <2> QED BY <1>1, <2>1, <2>2, EntryAlone
<1>3. NamedType'
  BY <1>1 DEF NamedInv, NamedType
<1>4. UsesFit'
  BY DEF NamedInv, UsesFit
<1> QED BY <1>1, <1>2, <1>3, <1>4

LEMMA NamedFree ==
    ASSUME NEW t \in Tasks, Free(t)
    PROVE  w.mode[t] = "active" /\ call[t].op = "none" /\ \A e \in Entries : ~Deletes(t, e)
BY DEF Free, NoCall, Deletes, DeletingOps

\* sem_open and mq_open of an object that exists.
LEMMA OpenExistingStep ==
    ASSUME NamedInv, NEW t \in Tasks, NEW name \in Names, OpenExisting(t, name)
    PROVE  NamedInv'
<1>1. PICK e \in Entries :
         /\ table[e].name = name /\ ~table[e].unlinked
         /\ table' = [table EXCEPT ![e].references = @ + 1, ![e].held = @ + 1]
  BY DEF OpenExisting, Named
<1>2. UNCHANGED <<w, call>> /\ w.mode[t] = "active" /\ \A f \in Entries : ~Deletes(t, f)
  BY NamedFree DEF OpenExisting
<1>3. EntryFit(e) /\ name # NoName
  BY PosixNamedAssumption DEF NamedInv
<1> PICK n \in Nat : n = table[e].references + 1
  BY EntryFields DEF NamedInv
<1> DEFINE v == [name |-> name, references |-> n, unlinked |-> table[e].unlinked,
                 live |-> table[e].live, held |-> n]
<1>4. Becomes(e, v)
  <2>1. table' = References(table, e, n, n)
    BY <1>1, <1>3 DEF References, EntryFit
  <2>2. table \in [Entries -> EntryType]
    BY DEF NamedInv, NamedType
  <2> QED BY <1>1, <2>1, <2>2, EntryUpdate DEF Becomes
<1>5. v \in EntryType
  BY EntryFields DEF NamedInv, EntryType
<1>6. n > 0 /\ table[e].live
  <2>1. table[e] # NoEntry
    BY <1>1, <1>3, EmptyEntry
  <2> QED BY <1>1, <1>3, <2>1, EntryFields DEF NamedInv, EntryFit
<1>7. table'[e] = v
  BY <1>4, <1>5, EntryChange DEF NamedInv
<1>8. EntryFit(e)'
  BY <1>1, <1>2, <1>3, <1>6, <1>7 DEF EntryFit, Deletes
<1>9. \A f \in Entries \ {e} : ~Deletes(t, f) /\ ~Deletes(t, f)'
  BY <1>2 DEF Deletes
<1> HIDE DEF v
<1>10. /\ NamedType' /\ UsesFit' /\ \A f \in Entries : EntryFit(f)'
       /\ \A f \in Entries \ {e} : table'[f] = table[f]
  BY <1>2, <1>4, <1>5, <1>8, <1>9, EntryStep DEF NamedInv, NamedType
<1>11. OneOfAName'
  <2>1. table'[e].name = table[e].name
    BY <1>1, <1>7 DEF v
  <2> QED BY <1>1, <1>10, <2>1, NamesKeep DEF NamedInv
<1> QED BY <1>10, <1>11 DEF NamedInv

\* The entry of an object that has just been created.
NewEntry(name) == [NoEntry EXCEPT !.name = name, !.references = 1, !.live = TRUE, !.held = 1]

LEMMA NewEntryFields ==
    ASSUME NEW name \in Names
    PROVE  /\ NewEntry(name) \in EntryType /\ NewEntry(name).name = name
           /\ NewEntry(name).references = 1 /\ NewEntry(name).held = 1
           /\ NewEntry(name).live /\ ~NewEntry(name).unlinked
<1>a. PICK yes : yes = TRUE
  OBVIOUS
<1>b. PICK no : no = FALSE
  OBVIOUS
<1> DEFINE v1 == [NoEntry EXCEPT !.name = name]
<1> DEFINE v2 == [v1 EXCEPT !.references = 1]
<1> DEFINE v3 == [v2 EXCEPT !.live = yes]
<1>1. NewEntry(name) = [v3 EXCEPT !.held = 1]
  BY Zenon, <1>a DEF NewEntry
<1>2. v1 = [name |-> name, references |-> 0, unlinked |-> no, live |-> no, held |-> 0]
  <2> PICK r : r = NoEntry
    OBVIOUS
  <2>1. r = [name |-> NoName, references |-> 0, unlinked |-> no, live |-> no, held |-> 0]
    BY <1>b DEF NoEntry
  <2> QED BY <2>1
<1> HIDE DEF v1
<1>3. v2 = [name |-> name, references |-> 1, unlinked |-> no, live |-> no, held |-> 0]
  BY <1>2
<1> HIDE DEF v2
<1>4. v3 = [name |-> name, references |-> 1, unlinked |-> no, live |-> yes, held |-> 0]
  BY <1>3
<1> HIDE DEF v3
<1>5. NewEntry(name) = [name |-> name, references |-> 1, unlinked |-> no, live |-> yes,
                        held |-> 1]
  BY <1>1, <1>4
<1> DEFINE v == [name |-> name, references |-> 1, unlinked |-> FALSE, live |-> TRUE, held |-> 1]
<1>6. NewEntry(name) = v
  BY <1>a, <1>b, <1>5
<1>7. v \in EntryType
  BY DEF EntryType
<1> QED BY <1>6, <1>7

\* sem_open and mq_open of an object that does not exist yet.
LEMMA OpenNewStep ==
    ASSUME NamedInv, NEW t \in Tasks, NEW name \in Names, OpenNew(t, name)
    PROVE  NamedInv'
<1>1. PICK e \in Entries : table[e].name = NoName /\ Becomes(e, NewEntry(name))
  BY DEF OpenNew, FreeEntries, NewEntry, Becomes
<1>2. UNCHANGED <<w, call>> /\ w.mode[t] = "active" /\ \A f \in Entries : ~Deletes(t, f)
  BY NamedFree DEF OpenNew
<1>3. \A f \in Entries : table[f].name = name => table[f].unlinked
  BY DEF OpenNew, Named
<1>4. EntryFit(e) /\ table[e] = NoEntry /\ name # NoName
  BY <1>1, PosixNamedAssumption DEF NamedInv, EntryFit
<1>5. /\ ~table[e].live /\ ~table[e].unlinked
  BY <1>4, EmptyEntry
<1>6. table'[e] = NewEntry(name) /\ \A f \in Entries \ {e} : table'[f] = table[f]
  BY <1>1, NewEntryFields, EntryChange DEF NamedInv
<1>7. \A u \in Tasks : ~Deletes(u, e)
  BY <1>4, <1>5 DEF EntryFit
<1>8. EntryFit(e)'
  BY <1>2, <1>4, <1>6, <1>7, NewEntryFields DEF EntryFit, Deletes
<1>9. \A f \in Entries \ {e} : ~Deletes(t, f) /\ ~Deletes(t, f)'
  BY <1>2 DEF Deletes
<1>10. NamedType' /\ UsesFit' /\ \A f \in Entries : EntryFit(f)'
  BY <1>1, <1>2, <1>8, <1>9, NewEntryFields, EntryStep DEF NamedInv, NamedType
<1>11. OneOfAName'
  BY <1>3, <1>6, NewEntryFields DEF NamedInv, OneOfAName
<1> QED BY <1>10, <1>11 DEF NamedInv

\* sem_close and mq_close.
LEMMA CloseStep ==
    ASSUME NamedInv, NEW t \in Tasks, NEW e \in Entries, Close(t, e)
    PROVE  NamedInv'
<1>1. w.mode[t] = "active" /\ call[t].op = "none" /\ \A f \in Entries : ~Deletes(t, f)
  BY NamedFree DEF Close
<1>2. /\ UNCHANGED w /\ table[e].held > 0
      /\ table' = [table EXCEPT ![e].references = @ - 1, ![e].held = @ - 1]
      /\ IF table[e].references = 1 /\ table[e].unlinked
         THEN About(t, "close_delete", e) ELSE UNCHANGED call
  BY DEF Close
<1>3. EntryFit(e)
  BY DEF NamedInv
<1>0. PICK n : n = table[e].references - 1
  OBVIOUS
<1>4. n \in Nat /\ (n = 0 <=> table[e].references = 1) /\ n = table[e].held - 1
      /\ table[e].live
  BY <1>0, <1>2, <1>3, EntryFields DEF NamedInv, EntryFit
<1> DEFINE v == [name |-> table[e].name, references |-> n, unlinked |-> table[e].unlinked,
                 live |-> table[e].live, held |-> n]
<1>5. Becomes(e, v)
  <2>1. table' = References(table, e, n, n)
    BY <1>0, <1>2, <1>4 DEF References
  <2>2. NamedType
    BY DEF NamedInv
  <2> QED BY <2>1, <2>2, ReferencesCounted
<1>6. v \in EntryType
  BY <1>4, EntryFields DEF NamedInv, EntryType
<1>7. table'[e] = v /\ \A f \in Entries \ {e} : table'[f] = table[f]
  BY <1>5, <1>6, EntryChange DEF NamedInv
<1>8. table[e].name # NoName /\ \A u \in Tasks : ~Deletes(u, e)
  <2>1. table[e] # NoEntry /\ table[e].references # 0
    BY <1>2, <1>3, EmptyEntry DEF EntryFit
  <2> QED BY <1>3, <2>1 DEF EntryFit
<1>9. /\ call' \in [Tasks -> NamedCalls]
      /\ \A u \in Tasks \ {t} : call'[u] = call[u]
      /\ call'[t] = call[t] \/ (call'[t].op = "close_delete" /\ call'[t].on = e
                                /\ n = 0 /\ table[e].unlinked)
  <2>1. CASE table[e].references = 1 /\ table[e].unlinked
    BY <1>2, <1>4, <2>1, NamedAbout DEF NamedInv, DeletingOps
  <2>2. CASE ~(table[e].references = 1 /\ table[e].unlinked)
    BY <1>2, <2>2 DEF NamedInv, NamedType
  <2> QED BY <2>1, <2>2
<1>10. \A f \in Entries \ {e} : ~Deletes(t, f) /\ ~Deletes(t, f)'
  BY <1>1, <1>9 DEF Deletes
<1>11. \A u \in Tasks : Deletes(u, e)' => u = t /\ n = 0 /\ table[e].unlinked
                                          /\ call'[u].op # "erase"
  BY <1>1, <1>8, <1>9 DEF Deletes
<1>12. /\ table'[e].name = table[e].name /\ table'[e].unlinked = table[e].unlinked
       /\ table'[e].live = table[e].live /\ table'[e].references = n /\ table'[e].held = n
  BY <1>7
<1> HIDE DEF v
<1>13. EntryFit(e)'
  BY <1>2, <1>3, <1>4, <1>8, <1>11, <1>12 DEF EntryFit
<1>14. NamedType' /\ UsesFit' /\ \A f \in Entries : EntryFit(f)'
  BY <1>1, <1>2, <1>5, <1>6, <1>9, <1>10, <1>13, EntryStep
<1>15. OneOfAName'
  BY <1>7, <1>12, NamesKeep DEF NamedInv
<1> QED BY <1>14, <1>15 DEF NamedInv

\* sem_unlink and mq_unlink.
LEMMA UnlinkStep ==
    ASSUME NamedInv, NEW t \in Tasks, NEW name \in Names, Unlink(t, name)
    PROVE  NamedInv'
<1>1. w.mode[t] = "active" /\ call[t].op = "none" /\ \A f \in Entries : ~Deletes(t, f)
  BY NamedFree DEF Unlink
<1>2. PICK e \in Entries :
         /\ table[e].name = name /\ ~table[e].unlinked
         /\ table' = UnlinkedName(table, e)
         /\ UnlinkedFrom(t, e)
  BY DEF Unlink, Named, UnlinkedName
<1>3. EntryFit(e) /\ name # NoName /\ UNCHANGED w
  BY PosixNamedAssumption DEF NamedInv, Unlink
<1> DEFINE v == [name |-> table[e].name, references |-> table[e].references,
                 unlinked |-> TRUE, live |-> table[e].live, held |-> table[e].held]
<1>4. Becomes(e, v)
  <2>1. table \in [Entries -> EntryType]
    BY DEF NamedInv, NamedType
  <2> QED BY <1>2, <2>1, EntryUpdate DEF Becomes
<1>5. v \in EntryType
  BY EntryFields DEF NamedInv, EntryType
<1>6. table'[e] = v /\ \A f \in Entries \ {e} : table'[f] = table[f]
  BY <1>4, <1>5, EntryChange DEF NamedInv
<1>7. \A u \in Tasks : ~Deletes(u, e)
  BY <1>2, <1>3 DEF EntryFit
<1>8. /\ call' \in [Tasks -> NamedCalls]
      /\ \A u \in Tasks \ {t} : call'[u] = call[u]
      /\ call'[t] = call[t] \/ (call'[t].op = "unlink_delete" /\ call'[t].on = e
                                /\ table[e].references = 0)
  <2>1. CASE table[e].references = 0
    BY <1>2, <2>1, NamedAbout DEF NamedInv, DeletingOps, UnlinkedFrom
  <2>2. CASE table[e].references # 0
    BY <1>2, <2>2 DEF NamedInv, NamedType, UnlinkedFrom
  <2> QED BY <2>1, <2>2
<1>9. \A f \in Entries \ {e} : ~Deletes(t, f) /\ ~Deletes(t, f)'
  BY <1>1, <1>8 DEF Deletes
<1>10. \A u \in Tasks : Deletes(u, e)' => u = t /\ table[e].references = 0
                                          /\ call'[u].op # "erase"
  BY <1>1, <1>7, <1>8 DEF Deletes
<1>11. /\ table'[e].name = name /\ table'[e].unlinked
       /\ table'[e].live = table[e].live /\ table'[e].references = table[e].references
       /\ table'[e].held = table[e].held
  BY <1>2, <1>6
<1>12. table[e].live
  <2>1. table[e] # NoEntry
    BY <1>2, <1>3, EmptyEntry
  <2> QED BY <1>3, <1>7, <2>1 DEF EntryFit
<1> HIDE DEF v
<1>13. EntryFit(e)'
  BY <1>3, <1>10, <1>11, <1>12 DEF EntryFit
<1>14. NamedType' /\ UsesFit' /\ \A f \in Entries : EntryFit(f)'
  BY <1>1, <1>3, <1>4, <1>5, <1>8, <1>9, <1>13, EntryStep
<1>15. OneOfAName'
  BY <1>2, <1>6, <1>11, NamesKeep DEF NamedInv
<1> QED BY <1>14, <1>15 DEF NamedInv

LEMMA Identity ==
    ASSUME NamedType, NEW e \in Entries, UNCHANGED table
    PROVE  Becomes(e, table[e]) /\ table[e] \in EntryType
BY DEF NamedType, Becomes

\* A task that deletes the object of an entry has it alone.
LEMMA DeletesAlone ==
    ASSUME NamedInv, NEW t \in Tasks, call[t].op \in DeletingOps
    PROVE  LET e == call[t].on
           IN  /\ e \in Entries /\ EntryFit(e)
               /\ table[e].unlinked /\ table[e].references = 0 /\ table[e].held = 0
               /\ table[e].live <=> call[t].op # "erase"
               /\ \A u \in Tasks : Deletes(u, e) => u = t
               /\ table[e].live => table[e].name # NoName
               /\ \A f \in Entries \ {e} : ~Deletes(t, f)
<1>1. call[t].on \in Entries
  BY NamedAt DEF NamedInv
<1>2. EntryFit(call[t].on)
  BY <1>1 DEF NamedInv
<1>3. \A f \in Entries \ {call[t].on} : ~Deletes(t, f)
  BY DEF Deletes
<1>4. table[call[t].on].live => table[call[t].on] # NoEntry
  BY EmptyEntry
<1> QED BY <1>1, <1>2, <1>3, <1>4 DEF EntryFit, Deletes

\* aixos_sem_delete and aixos_mq_delete of the object.
LEMMA DeleteObjectStep ==
    ASSUME NamedInv, NEW t \in Tasks, DeleteObject(t)
    PROVE  NamedInv'
<1>1. call[t].op \in {"close_delete", "unlink_delete"} /\ w.mode[t] = "active" /\ UNCHANGED w
  BY DEF DeleteObject, At
<1>2. PICK e \in Entries : e = call[t].on
  BY <1>1, DeletesAlone DEF DeletingOps
<1>3. /\ EntryFit(e)
      /\ table[e].unlinked /\ table[e].references = 0 /\ table[e].held = 0 /\ table[e].live
      /\ \A u \in Tasks : Deletes(u, e) => u = t
      /\ table[e].name # NoName
      /\ \A f \in Entries \ {e} : ~Deletes(t, f)
  BY <1>1, <1>2, DeletesAlone DEF DeletingOps
<1>4. CASE WaitersOf(w, e) = {}
  <2>1. table' = DeletedObject(table, e) /\ About(t, "erase", e)
    BY <1>2, <1>3, <1>4 DEF DeleteObject, DeletedObject
  <2>2. call'[t].op = "erase" /\ call'[t].on = e /\ call' \in [Tasks -> NamedCalls]
        /\ \A u \in Tasks \ {t} : call'[u] = call[u]
    BY <2>1, NamedAbout DEF NamedInv, DeletingOps
  <2> DEFINE v == [name |-> table[e].name, references |-> table[e].references,
                   unlinked |-> table[e].unlinked, live |-> FALSE, held |-> table[e].held]
  <2>3. Becomes(e, v)
    <3>1. table \in [Entries -> EntryType]
      BY DEF NamedInv, NamedType
    <3> QED BY <2>1, <3>1, EntryUpdate DEF Becomes
  <2>4. v \in EntryType
    BY EntryFields DEF NamedInv, EntryType
  <2>5. table'[e] = v /\ \A f \in Entries \ {e} : table'[f] = table[f]
    BY <2>3, <2>4, EntryChange DEF NamedInv
  <2>6. /\ table'[e].name = table[e].name /\ table'[e].unlinked /\ ~table'[e].live
        /\ table'[e].references = 0 /\ table'[e].held = 0
    BY <1>3, <2>5
  <2>7. \A u \in Tasks : Deletes(u, e)' <=> u = t
    BY <1>3, <2>2 DEF Deletes, DeletingOps
  <2> HIDE DEF v
  <2>8. EntryFit(e)'
    BY <1>1, <1>3, <1>4, <2>2, <2>6, <2>7 DEF EntryFit, WaitersOf
  <2>9. \A f \in Entries \ {e} : ~Deletes(t, f) /\ ~Deletes(t, f)'
    BY <1>3, <2>2 DEF Deletes
  <2>10. NamedType' /\ UsesFit' /\ \A f \in Entries : EntryFit(f)'
    BY <1>1, <2>2, <2>3, <2>4, <2>8, <2>9, EntryStep
  <2>11. OneOfAName'
    BY <2>5, <2>6, NamesKeep DEF NamedInv
  <2> QED BY <2>10, <2>11 DEF NamedInv
<1>5. CASE WaitersOf(w, e) # {}
  <2>1. UNCHANGED table /\ IF call[t].op = "close_delete" THEN About(t, "restore", e) ELSE Return(t)
    BY <1>2, <1>5 DEF DeleteObject
  <2>2. /\ call' \in [Tasks -> NamedCalls] /\ \A u \in Tasks \ {t} : call'[u] = call[u]
        /\ call'[t].op \in {"restore", "none"}
        /\ call'[t].op = "restore" => call'[t].on = e
    BY <2>1, NamedAbout, NamedReturn DEF NamedInv, DeletingOps
  <2>3. \A u \in Tasks : Deletes(u, e)' => u = t /\ call'[u].op = "restore"
    BY <1>3, <2>2 DEF Deletes, DeletingOps
  <2>4. \A f \in Entries \ {e} : ~Deletes(t, f) /\ ~Deletes(t, f)'
    BY <1>3, <2>2 DEF Deletes, DeletingOps
  <2>5. EntryFit(e)'
    BY <1>1, <1>3, <2>1, <2>3 DEF EntryFit
  <2>6. Becomes(e, table[e]) /\ table[e] \in EntryType
    BY <2>1, Identity DEF NamedInv
  <2> PICK v \in EntryType : v = table[e]
    BY <2>6
  <2>7. NamedType' /\ UsesFit' /\ \A f \in Entries : EntryFit(f)'
    BY <1>1, <2>2, <2>4, <2>5, <2>6, EntryStep
  <2>8. OneOfAName'
    BY <2>1 DEF NamedInv, OneOfAName
  <2> QED BY <2>7, <2>8 DEF NamedInv
<1> QED BY <1>4, <1>5

\* The entry is freed.
LEMMA EraseStep ==
    ASSUME NamedInv, NEW t \in Tasks, Erase(t)
    PROVE  NamedInv'
<1>1. call[t].op = "erase" /\ w.mode[t] = "active" /\ UNCHANGED w /\ Return(t)
  BY DEF Erase, At
<1>2. PICK e \in Entries : e = call[t].on
  BY <1>1, DeletesAlone DEF DeletingOps
<1>3. /\ EntryFit(e) /\ ~table[e].live
      /\ \A u \in Tasks : Deletes(u, e) => u = t
      /\ \A f \in Entries \ {e} : ~Deletes(t, f)
  BY <1>1, <1>2, DeletesAlone DEF DeletingOps
<1>4. Becomes(e, NoEntry)
  BY <1>2 DEF Erase, Becomes
<1>5. table'[e] = NoEntry /\ \A f \in Entries \ {e} : table'[f] = table[f]
  BY <1>4, EmptyEntry, EntryChange DEF NamedInv
<1>6. /\ call' \in [Tasks -> NamedCalls] /\ \A u \in Tasks \ {t} : call'[u] = call[u]
      /\ call'[t].op = "none"
  BY <1>1, NamedReturn DEF NamedInv
<1>7. \A u \in Tasks : ~Deletes(u, e)'
  BY <1>3, <1>6 DEF Deletes, DeletingOps
<1>8. \A f \in Entries \ {e} : ~Deletes(t, f) /\ ~Deletes(t, f)'
  BY <1>3, <1>6 DEF Deletes, DeletingOps
<1>9. EntryFit(e)'
  BY <1>1, <1>3, <1>5, <1>7, EmptyEntry DEF EntryFit
<1>10. NamedType' /\ UsesFit' /\ \A f \in Entries : EntryFit(f)'
  BY <1>1, <1>4, <1>6, <1>8, <1>9, EmptyEntry, EntryStep
<1>11. OneOfAName'
  BY <1>5, EmptyEntry, NamesKeep DEF NamedInv
<1> QED BY <1>10, <1>11 DEF NamedInv

\* The deletion has failed, and the descriptor is open again.
LEMMA RestoreStep ==
    ASSUME NamedInv, NEW t \in Tasks, Restore(t)
    PROVE  NamedInv'
<1>1. call[t].op = "restore" /\ w.mode[t] = "active" /\ UNCHANGED w /\ Return(t)
  BY DEF Restore, At
<1>2. PICK e \in Entries : e = call[t].on
  BY <1>1, DeletesAlone DEF DeletingOps
<1>3. /\ EntryFit(e) /\ table[e].live /\ table[e].name # NoName
      /\ \A u \in Tasks : Deletes(u, e) => u = t
      /\ \A f \in Entries \ {e} : ~Deletes(t, f)
  BY <1>1, <1>2, DeletesAlone DEF DeletingOps
<1> PICK n : n = 1
  OBVIOUS
<1> DEFINE v == [name |-> table[e].name, references |-> n, unlinked |-> table[e].unlinked,
                 live |-> table[e].live, held |-> n]
<1>4. Becomes(e, v)
  <2>1. table' = References(table, e, n, n)
    BY <1>2 DEF Restore, References
  <2>2. NamedType
    BY DEF NamedInv
  <2> QED BY <2>1, <2>2, ReferencesCounted
<1>5. v \in EntryType
  BY EntryFields DEF NamedInv, EntryType
<1>6. table'[e] = v /\ \A f \in Entries \ {e} : table'[f] = table[f]
  BY <1>4, <1>5, EntryChange DEF NamedInv
<1>7. /\ table'[e].name = table[e].name /\ table'[e].unlinked = table[e].unlinked
      /\ table'[e].live /\ table'[e].references = 1 /\ table'[e].held = 1
  BY <1>3, <1>6
<1> HIDE DEF v
<1>8. /\ call' \in [Tasks -> NamedCalls] /\ \A u \in Tasks \ {t} : call'[u] = call[u]
      /\ call'[t].op = "none"
  BY <1>1, NamedReturn DEF NamedInv
<1>9. \A u \in Tasks : ~Deletes(u, e)'
  BY <1>3, <1>8 DEF Deletes, DeletingOps
<1>10. \A f \in Entries \ {e} : ~Deletes(t, f) /\ ~Deletes(t, f)'
  BY <1>3, <1>8 DEF Deletes, DeletingOps
<1>11. EntryFit(e)'
  BY <1>3, <1>7, <1>9 DEF EntryFit
<1>12. NamedType' /\ UsesFit' /\ \A f \in Entries : EntryFit(f)'
  BY <1>1, <1>4, <1>5, <1>8, <1>10, <1>11, EntryStep
<1>13. OneOfAName'
  BY <1>6, <1>7, NamesKeep DEF NamedInv
<1> QED BY <1>12, <1>13 DEF NamedInv

\* A set whose elements are all the same has one element at most.
LEMMA AtMostOne ==
    ASSUME NEW S, \A x, y \in S : x = y
    PROVE  Cardinality(S) <= 1
<1>1. CASE S = {}
  BY <1>1, FS_EmptySet
<1>2. CASE S # {}
  <2>1. PICK x \in S : TRUE
    BY <1>2
  <2>2. S = {x}
    BY <2>1
  <2> QED BY <2>2, FS_Singleton
<1> QED BY <1>1, <1>2

\* The table is as it was, and so is what deletes its objects.
LEMMA TableKept ==
    ASSUME NamedInv, UNCHANGED table, NEW t \in Tasks,
           \A u \in Tasks \ {t} : call'[u] = call[u],
           call[t].op \notin DeletingOps, call'[t].op \notin DeletingOps,
           \A e \in Entries : w'.on[t] = e => w.on[t] = e \/ table[e].live,
           \A u \in Tasks \ {t} : w'.on[u] = w.on[u]
    PROVE  (\A e \in Entries : EntryFit(e)') /\ OneOfAName'
<1>1. \A e \in Entries : EntryFit(e)
  BY DEF NamedInv
<1>2. \A u \in Tasks, e \in Entries : Deletes(u, e)' <=> Deletes(u, e)
  BY DEF Deletes
<1>3. \A u \in Tasks, e \in Entries : Deletes(u, e) => call'[u].op = call[u].op
  BY DEF Deletes
<1>4. \A e \in Entries : EntryFit(e)'
  BY <1>1, <1>2, <1>3 DEF EntryFit
<1>5. OneOfAName'
  BY DEF NamedInv, OneOfAName
<1> QED BY <1>4, <1>5

\* A task waits for the object of an entry.
LEMMA NamedUseStep ==
    ASSUME NamedInv, NEW t \in Tasks, NEW e \in Entries, NamedUse(t, e)
    PROVE  NamedInv'
<1>1. /\ w.mode[t] = "active" /\ call[t].op = "none" /\ table[e].live /\ UNCHANGED table
      /\ w' = BlockOn(w, t, e, TRUE) /\ About(t, "use", e)
  BY NamedFree DEF NamedUse
<1>2. e \in WaitLists /\ e # NoList
  BY PosixNamedAssumption
<1>3. /\ w' \in WaitingType
      /\ w'.on[t] = e /\ w'.mode[t] = "waiting"
      /\ \A u \in Tasks \ {t} : w'.on[u] = w.on[u] /\ w'.mode[u] = w.mode[u]
  <2>0. PICK timed \in BOOLEAN : timed = TRUE
    OBVIOUS
  <2>1. w' = BlockOn(w, t, e, timed)
    BY Zenon, <1>1, <2>0
  <2>2. w \in WaitingType
    BY DEF NamedInv, NamedType
  <2> QED BY <1>2, <2>1, <2>2, BlockEffect
<1>4. /\ call' \in [Tasks -> NamedCalls] /\ \A u \in Tasks \ {t} : call'[u] = call[u]
      /\ call'[t].op = "use"
  BY <1>1, NamedAbout DEF NamedInv
<1>5. (\A f \in Entries : EntryFit(f)') /\ OneOfAName'
  BY <1>1, <1>3, <1>4, TableKept DEF DeletingOps
<1>6. UsesFit'
  BY <1>2, <1>3, <1>4 DEF NamedInv, UsesFit
<1>7. NamedType'
  BY <1>1, <1>3, <1>4 DEF NamedInv, NamedType
<1> QED BY <1>5, <1>6, <1>7 DEF NamedInv

LEMMA NamedUsedStep ==
    ASSUME NamedInv, NEW t \in Tasks, NamedUsed(t)
    PROVE  NamedInv'
<1>1. /\ w.mode[t] = "active" /\ call[t].op = "use" /\ UNCHANGED <<w, table>> /\ Return(t)
  BY DEF NamedUsed, At
<1>2. /\ call' \in [Tasks -> NamedCalls] /\ \A u \in Tasks \ {t} : call'[u] = call[u]
      /\ call'[t].op = "none"
  BY <1>1, NamedReturn DEF NamedInv
<1>3. (\A f \in Entries : EntryFit(f)') /\ OneOfAName'
  BY <1>1, <1>2, TableKept DEF DeletingOps
<1>4. UsesFit'
  BY <1>1, <1>2 DEF NamedInv, UsesFit
<1>5. NamedType'
  BY <1>1, <1>2 DEF NamedInv, NamedType
<1> QED BY <1>3, <1>4, <1>5 DEF NamedInv

\* The wait ends.
LEMMA NamedWakeStep ==
    ASSUME NamedInv, NEW t \in Tasks, NamedWake(t)
    PROVE  NamedInv'
<1>1. UNCHANGED <<call, table>> /\ (WakeBy(t) \/ TimeOut(t) \/ Interrupted(t))
  BY DEF NamedWake
<1>2. CASE w.mode[t] # "waiting"
  <2>1. w' = w
    BY <1>1, <1>2 DEF WakeBy, TimeOut, Interrupted, Wake
  <2> QED BY <1>1, <2>1 DEF NamedInv, NamedType, UsesFit, EntryFit, OneOfAName, Deletes
<1>3. CASE w.mode[t] = "waiting"
  <2>1. call[t].op = "use"
    BY <1>3 DEF NamedInv, UsesFit
  <2>2. PICK result \in Results : w' = Unblock(w, t, "active", result)
    BY <1>1, <1>3 DEF WakeBy, TimeOut, Interrupted, Wake, Results
  <2>3. /\ w' \in WaitingType
        /\ w'.on[t] = NoList /\ w'.mode[t] = "active"
        /\ \A u \in Tasks \ {t} : w'.on[u] = w.on[u] /\ w'.mode[u] = w.mode[u]
    <3>1. w \in WaitingType /\ "active" \in Modes
      BY DEF NamedInv, NamedType, Modes
    <3> QED BY <2>2, <3>1, UnblockEffect
  <2>4. (\A f \in Entries : EntryFit(f)') /\ OneOfAName'
    <3>1. \A e \in Entries : w'.on[t] # e
      BY <2>3, PosixNamedAssumption
    <3>2. call[t].op \notin DeletingOps /\ call' = call
      BY <1>1, <2>1 DEF DeletingOps
    <3> QED BY <1>1, <2>3, <3>1, <3>2, TableKept
  <2>5. UsesFit'
    BY <1>1, <2>3 DEF NamedInv, UsesFit
  <2>6. NamedType'
    BY <1>1, <2>3 DEF NamedInv, NamedType
  <2> QED BY <2>4, <2>5, <2>6 DEF NamedInv
<1> QED BY <1>2, <1>3

LEMMA NamedStep ==
    ASSUME NamedInv, NamedNext
    PROVE  NamedInv'
<1>1. PICK t \in Tasks :
        \/ DeleteObject(t) \/ Erase(t) \/ Restore(t) \/ NamedUsed(t) \/ NamedWake(t)
        \/ \E name \in Names : OpenExisting(t, name) \/ OpenNew(t, name) \/ Unlink(t, name)
        \/ \E e \in Entries : Close(t, e) \/ NamedUse(t, e)
  BY DEF NamedNext
<1> QED BY <1>1, DeleteObjectStep, EraseStep, RestoreStep, NamedUsedStep, NamedWakeStep,
           OpenExistingStep, OpenNewStep, UnlinkStep, CloseStep, NamedUseStep

LEMMA NamedProperties ==
    ASSUME NamedInv
    PROVE  NamedExact
<1>1. ASSUME NEW e \in Entries
      PROVE  /\ table[e].references = table[e].held
             /\ table[e].held > 0 => table[e].live
             /\ WaitersOf(w, e) # {} => table[e].live
             /\ Cardinality(Deleting(e)) <= 1
             /\ Deleting(e) # {} => table[e].unlinked /\ table[e].references = 0
             /\ ~table[e].live => table[e] = NoEntry \/ Deleting(e) # {}
             /\ Stranded(e) => table[e].live
  <2>1. EntryFit(e)
    BY DEF NamedInv
  <2>2. \A t \in Tasks : t \in Deleting(e) <=> Deletes(t, e)
    BY DEF Deleting, Deletes, DeletingOps
  <2>3. Deleting(e) \subseteq Tasks
    BY DEF Deleting
  <2>4. Cardinality(Deleting(e)) <= 1
    BY <2>1, <2>2, <2>3, AtMostOne DEF EntryFit
  <2>5. Deleting(e) # {} => table[e].unlinked /\ table[e].references = 0
    BY <2>1, <2>2, <2>3 DEF EntryFit
  <2>6. ~table[e].live => table[e] = NoEntry \/ Deleting(e) # {}
    BY <2>1, <2>2 DEF EntryFit
  <2>7. Stranded(e) => table[e].live
    BY <2>6, EmptyEntry DEF Stranded
  <2>8. WaitersOf(w, e) # {} => table[e].live
    BY <2>1 DEF EntryFit, WaitersOf
  <2> QED BY <2>1, <2>4, <2>5, <2>6, <2>7, <2>8 DEF EntryFit
<1>2. ASSUME NEW name \in Names
      PROVE  Cardinality(Named(name)) <= 1
  <2>1. \A e, f \in Named(name) : e = f
    BY PosixNamedAssumption DEF NamedInv, OneOfAName, Named
  <2> QED BY <2>1, AtMostOne
<1> QED BY <1>1, <1>2 DEF NamedExact

-----------------------------------------------------------------------------
(* Thread-specific data: the inductive invariant.                          *)

KeyOps == {"look", "call", "destructor"}

KeyRecords ==
    [op : KeyOps, what : {"key"}, on : Nat, round : Nat, called : BOOLEAN]

KeyCalls == KeyRecords \union {NoCall}

KeyType == [used : BOOLEAN, generation : Nat, destructor : BOOLEAN]

SpecificType ==
    [value : [Keys -> Nat], generation : [Keys -> Nat], storing : Keys \union {NoKey},
     crossed : SUBSET Keys, leftover : BOOLEAN]

KeysType ==
    /\ w \in WaitingType
    /\ call \in [Tasks -> KeyCalls]
    /\ NoKey \in Nat /\ Keys = 0 .. NoKey - 1
    /\ key \in [Keys -> KeyType]
    /\ specific \in [Tasks -> SpecificType]

\* What a thread has stored for a key, or is storing: the generation of the
\* key is not behind, and if it is the same the value is one of the key's.
StoredFit(t, s) ==
    /\ specific[t].generation[s] <= key[s].generation
    /\ s \notin specific[t].crossed =>
          /\ specific[t].storing = s => key[s].used
          /\ specific[t].storing = s \/ specific[t].generation[s] = key[s].generation =>
                specific[t].value[s] \in {0, key[s].generation}

\* The destructors: what a round has passed without a call is not to be
\* destroyed, and a key that is about to be is as it was found.
DestructionFit(t) ==
    /\ w.mode[t] # "waiting" /\ w.on[t] = NoList
    /\ call[t].op # "none" => w.mode[t] = "active"
    /\ call[t].op \in KeyOps => call[t].on \in Keys \union {NoKey}
    /\ call[t].op \in {"call", "destructor"} => call[t].on \in Keys
    /\ call[t].op \in {"look", "call"} =>
          /\ specific[t].storing = NoKey
          /\ ~call[t].called =>
                \A r \in Keys : r < call[t].on => ~ToBeDestroyed(t, r)
    /\ call[t].op = "call" /\ call[t].on \notin specific[t].crossed =>
          /\ key[call[t].on].used /\ key[call[t].on].destructor
          /\ specific[t].value[call[t].on] = key[call[t].on].generation
    /\ w.mode[t] = "off" =>
          /\ specific[t].storing = NoKey
          /\ ~specific[t].leftover => \A r \in Keys : ~ToBeDestroyed(t, r)

KeysInv ==
    /\ KeysType
    /\ \A t \in Tasks : DestructionFit(t) /\ \A s \in Keys : StoredFit(t, s)

LEMMA KeySets ==
    ASSUME KeysType
    PROVE  /\ NoKey \in Nat /\ NoKey \notin Keys /\ Keys \subseteq Nat
           /\ 0 \in Keys \union {NoKey}
           /\ \A s \in Keys : s + 1 \in Keys \union {NoKey} /\ s < NoKey
BY DEF KeysType

LEMMA SpecificFields ==
    ASSUME KeysType, NEW t \in Tasks
    PROVE  /\ specific[t] \in SpecificType
           /\ specific[t].value \in [Keys -> Nat]
           /\ specific[t].generation \in [Keys -> Nat]
           /\ specific[t].storing \in Keys \union {NoKey}
           /\ specific[t].crossed \subseteq Keys /\ specific[t].leftover \in BOOLEAN
BY DEF KeysType, SpecificType

LEMMA KeyFields ==
    ASSUME KeysType, NEW s \in Keys
    PROVE  /\ key[s] \in KeyType /\ key[s].used \in BOOLEAN
           /\ key[s].generation \in Nat /\ key[s].destructor \in BOOLEAN
BY DEF KeysType, KeyType

\* The keys are the same, whatever becomes of them.
LEMMA SameKeys ==
    ASSUME KeysType, DOMAIN key' = Keys
    PROVE  Keys' = Keys /\ NoKey' = NoKey /\ SpecificType' = SpecificType
<1>1. Keys' = Keys
  BY DEF Keys
<1>2. NoKey' = NoKey
  BY <1>1 DEF NoKey
<1> QED BY <1>1, <1>2 DEF SpecificType

LEMMA KeysKept ==
    ASSUME KeysType, UNCHANGED key
    PROVE  Keys' = Keys /\ NoKey' = NoKey /\ SpecificType' = SpecificType
BY SameKeys DEF Keys

LEMMA KeyGoto ==
    ASSUME KeysType, NEW t \in Tasks, NEW c \in KeyCalls, Goto(t, c)
    PROVE  /\ call' \in [Tasks -> KeyCalls]
           /\ call'[t] = c
           /\ \A u \in Tasks \ {t} : call'[u] = call[u]
BY DEF Goto, KeysType

LEMMA KeyReturn ==
    ASSUME KeysType, NEW t \in Tasks, Return(t)
    PROVE  /\ call' \in [Tasks -> KeyCalls]
           /\ call'[t].op = "none"
           /\ \A u \in Tasks \ {t} : call'[u] = call[u]
<1>1. NoCall \in KeyCalls /\ NoCall.op = "none"
  BY DEF KeyCalls, NoCall
<1> QED BY <1>1, KeyGoto DEF Return

LEMMA KeyLook ==
    ASSUME KeysType, NEW t \in Tasks, NEW s \in Nat, NEW round \in Nat,
           NEW called \in BOOLEAN, LookAt(t, s, round, called)
    PROVE  /\ call' \in [Tasks -> KeyCalls]
           /\ call'[t].op = "look" /\ call'[t].on = s /\ call'[t].called = called
           /\ \A u \in Tasks \ {t} : call'[u] = call[u]
<1> DEFINE c == [op |-> "look", what |-> "key", on |-> s, round |-> round, called |-> called]
<1>1. c \in KeyCalls /\ c.op = "look" /\ c.on = s /\ c.called = called
  BY DEF KeyCalls, KeyRecords, KeyOps
<1>2. Goto(t, c)
  BY DEF LookAt
<1> HIDE DEF c
<1> QED BY <1>1, <1>2, KeyGoto

\* A task in run_key_destructors.
LEMMA KeyAt ==
    ASSUME KeysType, NEW t \in Tasks, call[t].op \in KeyOps
    PROVE  /\ call[t] \in KeyRecords /\ call[t].round \in Nat /\ call[t].called \in BOOLEAN
           /\ call[t].on \in Nat
<1>1. call[t] \in KeyCalls /\ NoCall.op = "none"
  BY DEF KeysType, NoCall
<1>2. call[t] \in KeyRecords
  BY <1>1 DEF KeyCalls, KeyOps
<1> QED BY <1>2 DEF KeyRecords

\* It goes on to op with the same key.
LEMMA KeyOn ==
    ASSUME KeysType, NEW t \in Tasks, NEW op \in KeyOps, call[t].op \in KeyOps,
           Goto(t, [call[t] EXCEPT !.op = op])
    PROVE  /\ call' \in [Tasks -> KeyCalls]
           /\ call'[t].op = op /\ call'[t].on = call[t].on
           /\ call'[t].called = call[t].called
           /\ \A u \in Tasks \ {t} : call'[u] = call[u]
<1> PICK c \in KeyRecords : c = call[t]
  BY KeyAt
<1> DEFINE d == [c EXCEPT !.op = op]
<1>1. d \in KeyRecords /\ d.op = op /\ d.on = c.on /\ d.called = c.called
  BY DEF KeyRecords
<1>2. Goto(t, d)
  OBVIOUS
<1> HIDE DEF d
<1>3. d \in KeyCalls
  BY <1>1 DEF KeyCalls
<1> QED BY <1>1, <1>2, <1>3, KeyGoto

\* What a thread has is as it was.
ThreadSame(u) ==
    /\ specific'[u] = specific[u] /\ call'[u] = call[u]
    /\ w'.mode[u] = w.mode[u] /\ w'.on[u] = w.on[u]

LEMMA SameFits ==
    ASSUME KeysType, UNCHANGED key, NEW u \in Tasks, ThreadSame(u),
           DestructionFit(u), \A s \in Keys : StoredFit(u, s)
    PROVE  DestructionFit(u)' /\ \A s \in Keys : StoredFit(u, s)'
<1>1. Keys' = Keys /\ NoKey' = NoKey
  BY KeysKept
<1>2. \A s : ToBeDestroyed(u, s)' <=> ToBeDestroyed(u, s)
  BY DEF ToBeDestroyed, Specific, ThreadSame
<1>3. DestructionFit(u)'
  BY <1>1, <1>2 DEF DestructionFit, ThreadSame
<1>4. \A s \in Keys : StoredFit(u, s)'
  BY DEF StoredFit, ThreadSame
<1> QED BY <1>3, <1>4

\* One thread does something, and the keys are as they were.
LEMMA OneThread ==
    ASSUME KeysInv, UNCHANGED key, NEW t \in Tasks,
           w' \in WaitingType, call' \in [Tasks -> KeyCalls],
           specific' \in [Tasks -> SpecificType],
           \A u \in Tasks \ {t} : ThreadSame(u),
           DestructionFit(t)', \A s \in Keys : StoredFit(t, s)'
    PROVE  KeysInv'
<1>1. Keys' = Keys /\ NoKey' = NoKey /\ SpecificType' = SpecificType
  BY KeysKept DEF KeysInv
<1>2. ASSUME NEW u \in Tasks
      PROVE  DestructionFit(u)' /\ \A s \in Keys : StoredFit(u, s)'
  <2>1. CASE u = t
    BY <2>1
  <2>2. CASE u # t
    BY <2>2, SameFits DEF KeysInv
  <2> QED BY <2>1, <2>2
<1>3. KeysType'
  BY <1>1 DEF KeysInv, KeysType
<1> QED BY <1>1, <1>2, <1>3 DEF KeysInv

\* What one thread has becomes v.
LEMMA ThreadChange ==
    ASSUME KeysType, NEW t \in Tasks, NEW v \in SpecificType,
           specific' = [specific EXCEPT ![t] = v]
    PROVE  /\ specific' \in [Tasks -> SpecificType] /\ specific'[t] = v
           /\ \A u \in Tasks \ {t} : specific'[u] = specific[u]
BY DEF KeysType

\* The thread looks at the next key; what it has is as it was.
LEMMA LookStep ==
    ASSUME KeysInv, NEW t \in Tasks, UNCHANGED <<w, key, specific>>,
           NEW s \in Keys \union {NoKey}, NEW round \in Nat, NEW called \in BOOLEAN,
           LookAt(t, s, round, called),
           w.mode[t] = "active", specific[t].storing = NoKey,
           ~called => \A r \in Keys : r < s => ~ToBeDestroyed(t, r)
    PROVE  KeysInv'
<1>1. /\ Keys' = Keys /\ NoKey' = NoKey /\ s \in Nat
  BY KeysKept, KeySets DEF KeysInv
<1>2. /\ call' \in [Tasks -> KeyCalls]
      /\ call'[t].op = "look" /\ call'[t].on = s /\ call'[t].called = called
      /\ \A u \in Tasks \ {t} : call'[u] = call[u]
  BY <1>1, KeyLook DEF KeysInv
<1>3. \A r : ToBeDestroyed(t, r)' <=> ToBeDestroyed(t, r)
  BY DEF ToBeDestroyed, Specific
<1>4. DestructionFit(t)'
  BY <1>1, <1>2, <1>3 DEF KeysInv, DestructionFit
<1>5. \A r \in Keys : StoredFit(t, r)'
  BY DEF KeysInv, StoredFit
<1>6. \A u \in Tasks \ {t} : ThreadSame(u)
  BY <1>2 DEF ThreadSame
<1>7. w' \in WaitingType /\ specific' \in [Tasks -> SpecificType]
  BY DEF KeysInv, KeysType
<1> QED BY <1>2, <1>4, <1>5, <1>6, <1>7, OneThread

\* The end of a thread begins.
LEMMA BeginDestructionStep ==
    ASSUME KeysInv, NEW t \in Tasks, BeginDestruction(t)
    PROVE  KeysInv'
<1>1. /\ UNCHANGED <<w, key, specific>> /\ w.mode[t] = "active"
      /\ specific[t].storing = NoKey /\ LookAt(t, 0, 1, FALSE)
  BY DEF BeginDestruction, Free, keyVars
<1>2. 0 \in Keys \union {NoKey} /\ \A r \in Keys : ~(r < 0)
  BY KeySets DEF KeysInv
<1> QED BY <1>1, <1>2, LookStep

\* The value of a key that has not been deleted meanwhile is one of the key's.
LEMMA LookAtKeyStep ==
    ASSUME KeysInv, NEW t \in Tasks, LookAtKey(t)
    PROVE  KeysInv'
<1>1. /\ UNCHANGED <<w, key, specific>> /\ w.mode[t] = "active"
      /\ call[t].op = "look" /\ call[t].on # NoKey
  BY DEF LookAtKey, At, keyVars
<1>2. /\ call[t].on \in Keys /\ specific[t].storing = NoKey
      /\ ~call[t].called => \A r \in Keys : r < call[t].on => ~ToBeDestroyed(t, r)
  BY <1>1 DEF KeysInv, DestructionFit, KeyOps
<1>3. CASE ~ToBeDestroyed(t, call[t].on)
  <2>1. LookAt(t, call[t].on + 1, call[t].round, call[t].called)
    BY <1>3 DEF LookAtKey
  <2> PICK s \in Keys : s = call[t].on
    BY <1>2
  <2> PICK n \in Keys \union {NoKey} : n = s + 1
    BY KeySets DEF KeysInv
  <2>2. ~call[t].called => \A r \in Keys : r < n => ~ToBeDestroyed(t, r)
    <3>1. \A r \in Keys : r < n => r < s \/ r = s
      BY KeySets DEF KeysInv
    <3> QED BY <1>2, <1>3, <3>1
  <2>3. call[t].round \in Nat /\ call[t].called \in BOOLEAN
    BY <1>1, KeyAt DEF KeysInv, KeyOps
  <2> QED BY <1>1, <1>2, <2>1, <2>2, <2>3, LookStep
<1>4. CASE ToBeDestroyed(t, call[t].on)
  <2>1. Goto(t, [call[t] EXCEPT !.op = "call"])
    BY <1>4 DEF LookAtKey
  <2>2. /\ call' \in [Tasks -> KeyCalls]
        /\ call'[t].op = "call" /\ call'[t].on = call[t].on
        /\ call'[t].called = call[t].called
        /\ \A u \in Tasks \ {t} : call'[u] = call[u]
    BY <1>1, <2>1, KeyOn DEF KeysInv, KeyOps
  <2>3. Keys' = Keys /\ NoKey' = NoKey
    BY <1>1, KeysKept DEF KeysInv
  <2>4. \A r : ToBeDestroyed(t, r)' <=> ToBeDestroyed(t, r)
    BY <1>1 DEF ToBeDestroyed, Specific
  <2>5. call[t].on \notin specific[t].crossed =>
          /\ key[call[t].on].used /\ key[call[t].on].destructor
          /\ specific[t].value[call[t].on] = key[call[t].on].generation
    <3>1. StoredFit(t, call[t].on)
      BY <1>2 DEF KeysInv
    <3> QED BY <1>4, <3>1 DEF ToBeDestroyed, Specific, StoredFit
  <2>6. DestructionFit(t)'
    BY <1>1, <1>2, <2>2, <2>3, <2>4, <2>5 DEF KeysInv, DestructionFit
  <2>7. \A r \in Keys : StoredFit(t, r)'
    BY <1>1 DEF KeysInv, StoredFit
  <2>8. \A u \in Tasks \ {t} : ThreadSame(u)
    BY <1>1, <2>2 DEF ThreadSame
  <2>9. w' \in WaitingType /\ specific' \in [Tasks -> SpecificType]
    BY <1>1 DEF KeysInv, KeysType
  <2> QED BY <1>1, <2>2, <2>6, <2>7, <2>8, <2>9, OneThread
<1> QED BY <1>3, <1>4

LEMMA DestructorReturnsStep ==
    ASSUME KeysInv, NEW t \in Tasks, DestructorReturns(t)
    PROVE  KeysInv'
<1>1. /\ UNCHANGED <<w, key, specific>> /\ w.mode[t] = "active"
      /\ call[t].op = "destructor" /\ specific[t].storing = NoKey
      /\ LookAt(t, call[t].on + 1, call[t].round, TRUE)
  BY DEF DestructorReturns, At, keyVars
<1>2. call[t].on \in Keys
  BY <1>1 DEF KeysInv, DestructionFit
<1> PICK n \in Keys \union {NoKey} : n = call[t].on + 1
  BY <1>2, KeySets DEF KeysInv
<1>3. call[t].round \in Nat
  BY <1>1, KeyAt DEF KeysInv, KeyOps
<1> QED BY <1>1, <1>3, LookStep

\* The destructor of a value is called, which is NULL then.
LEMMA CallDestructorStep ==
    ASSUME KeysInv, NEW t \in Tasks, CallDestructor(t)
    PROVE  KeysInv'
<1>1. /\ UNCHANGED <<w, key>> /\ w.mode[t] = "active" /\ call[t].op = "call"
      /\ Goto(t, [call[t] EXCEPT !.op = "destructor"])
      /\ specific' = [specific EXCEPT ![t].value[call[t].on] = 0]
  BY DEF CallDestructor, At
<1>2. call[t].on \in Keys /\ specific[t].storing = NoKey
  BY <1>1 DEF KeysInv, DestructionFit
<1> PICK k \in Keys : k = call[t].on
  BY <1>2
<1> DEFINE v == [specific[t] EXCEPT !.value = [specific[t].value EXCEPT ![k] = 0]]
<1>3. specific' = [specific EXCEPT ![t] = v]
  BY <1>1
<1>4. /\ v \in SpecificType /\ v.value = [specific[t].value EXCEPT ![k] = 0]
      /\ v.generation = specific[t].generation /\ v.storing = specific[t].storing
      /\ v.crossed = specific[t].crossed
  <2> PICK r \in SpecificType : r = specific[t]
    BY SpecificFields DEF KeysInv
  <2> PICK x \in [Keys -> Nat] : x = [r.value EXCEPT ![k] = 0]
    BY DEF SpecificType
  <2>1. /\ [r EXCEPT !.value = x] \in SpecificType
        /\ [r EXCEPT !.value = x].value = x
        /\ [r EXCEPT !.value = x].generation = r.generation
        /\ [r EXCEPT !.value = x].storing = r.storing
        /\ [r EXCEPT !.value = x].crossed = r.crossed
    BY DEF SpecificType
  <2> QED BY <2>1
<1> HIDE DEF v
<1>5. /\ specific' \in [Tasks -> SpecificType] /\ specific'[t] = v
      /\ \A u \in Tasks \ {t} : specific'[u] = specific[u]
  BY <1>3, <1>4, ThreadChange DEF KeysInv
<1>6. /\ call' \in [Tasks -> KeyCalls]
      /\ call'[t].op = "destructor" /\ call'[t].on = k
      /\ \A u \in Tasks \ {t} : call'[u] = call[u]
  BY <1>1, KeyOn DEF KeysInv, KeyOps
<1>7. DestructionFit(t)'
  BY <1>1, <1>5, <1>6, KeysKept DEF KeysInv, DestructionFit
<1>8. ASSUME NEW s \in Keys
      PROVE  StoredFit(t, s)'
  <2>1. specific[t].value \in [Keys -> Nat] /\ StoredFit(t, s)
    BY SpecificFields DEF KeysInv
  <2>2. v.value[s] = IF s = k THEN 0 ELSE specific[t].value[s]
    BY <1>4, <2>1
  <2> QED BY <1>1, <1>4, <1>5, <2>1, <2>2 DEF StoredFit
<1>9. w' \in WaitingType
  BY <1>1 DEF KeysInv, KeysType
<1>10. \A u \in Tasks \ {t} : ThreadSame(u)
  BY <1>1, <1>5, <1>6 DEF ThreadSame
<1> QED BY <1>1, <1>5, <1>6, <1>7, <1>8, <1>9, <1>10, OneThread

\* The thread is over, or goes through the keys again.
LEMMA EndOfRoundStep ==
    ASSUME KeysInv, NEW t \in Tasks, EndOfRound(t)
    PROVE  KeysInv'
<1>1. /\ UNCHANGED key /\ w.mode[t] = "active"
      /\ call[t].op = "look" /\ call[t].on = NoKey
  BY DEF EndOfRound, At
<1>2. /\ specific[t].storing = NoKey
      /\ ~call[t].called => \A r \in Keys : r < NoKey => ~ToBeDestroyed(t, r)
  BY <1>1 DEF KeysInv, DestructionFit
<1>3. call[t].round \in Nat /\ call[t].called \in BOOLEAN
  BY <1>1, KeyAt DEF KeysInv, KeyOps
<1>4. CASE call[t].called /\ call[t].round < DestructorRounds
  <2>1. LookAt(t, 0, call[t].round + 1, FALSE) /\ UNCHANGED <<w, specific>>
    BY <1>4 DEF EndOfRound
  <2>2. 0 \in Keys \union {NoKey} /\ \A r \in Keys : ~(r < 0)
    BY KeySets DEF KeysInv
  <2> PICK n \in Nat : n = call[t].round + 1
    BY <1>3
  <2> QED BY <1>1, <1>2, <2>1, <2>2, LookStep
<1>5. CASE ~(call[t].called /\ call[t].round < DestructorRounds)
  <2>1. /\ w' = Unblock(w, t, "off", "OK") /\ Return(t)
        /\ specific' = [specific EXCEPT ![t].leftover = call[t].called]
    BY <1>5 DEF EndOfRound
  <2>2. /\ w' \in WaitingType /\ w'.on[t] = NoList /\ w'.mode[t] = "off"
        /\ \A u \in Tasks \ {t} : w'.on[u] = w.on[u] /\ w'.mode[u] = w.mode[u]
    <3>1. w \in WaitingType /\ "off" \in Modes /\ "OK" \in Results
      BY DEF KeysInv, KeysType, Modes, Results
    <3> QED BY <2>1, <3>1, UnblockEffect
  <2>3. /\ call' \in [Tasks -> KeyCalls] /\ call'[t].op = "none"
        /\ \A u \in Tasks \ {t} : call'[u] = call[u]
    BY <2>1, KeyReturn DEF KeysInv
  <2> PICK c \in BOOLEAN : c = call[t].called
    BY <1>3
  <2> DEFINE v == [specific[t] EXCEPT !.leftover = c]
  <2>4. specific' = [specific EXCEPT ![t] = v]
    BY <2>1
  <2>5. /\ v \in SpecificType /\ v.value = specific[t].value
        /\ v.generation = specific[t].generation /\ v.storing = specific[t].storing
        /\ v.crossed = specific[t].crossed /\ v.leftover = c
    <3> PICK r \in SpecificType : r = specific[t]
      BY SpecificFields DEF KeysInv
    <3> QED BY DEF SpecificType
  <2> HIDE DEF v
  <2>6. /\ specific' \in [Tasks -> SpecificType] /\ specific'[t] = v
        /\ \A u \in Tasks \ {t} : specific'[u] = specific[u]
    BY <2>4, <2>5, ThreadChange DEF KeysInv
  <2>7. Keys' = Keys /\ NoKey' = NoKey
    BY <1>1, KeysKept DEF KeysInv
  <2>8. \A r : ToBeDestroyed(t, r)' <=> ToBeDestroyed(t, r)
    BY <1>1, <2>5, <2>6 DEF ToBeDestroyed, Specific
  <2>9. ~c => \A r \in Keys : ~ToBeDestroyed(t, r)
    BY <1>2, KeySets DEF KeysInv
  <2>10. DestructionFit(t)'
    BY <1>2, <2>2, <2>3, <2>5, <2>6, <2>7, <2>8, <2>9 DEF DestructionFit, KeyOps
  <2>11. \A s \in Keys : StoredFit(t, s)'
    BY <1>1, <2>5, <2>6 DEF KeysInv, StoredFit
  <2>12. \A u \in Tasks \ {t} : ThreadSame(u)
    BY <2>2, <2>3, <2>6 DEF ThreadSame
  <2> QED BY <1>1, <2>2, <2>3, <2>6, <2>10, <2>11, <2>12, OneThread
<1> QED BY <1>4, <1>5

\* A thread in its application: what the destructors have found is not at stake.
LEMMA ApplicationStep ==
    ASSUME KeysInv, UNCHANGED <<w, key, call>>, NEW t \in Tasks, NEW v \in SpecificType,
           specific' = [specific EXCEPT ![t] = v], w.mode[t] = "active",
           call[t].op \notin {"look", "call"},
           \A s \in Keys :
              /\ v.generation[s] <= key[s].generation
              /\ s \notin v.crossed =>
                    /\ v.storing = s => key[s].used
                    /\ v.storing = s \/ v.generation[s] = key[s].generation =>
                          v.value[s] \in {0, key[s].generation}
    PROVE  KeysInv'
<1>1. /\ specific' \in [Tasks -> SpecificType] /\ specific'[t] = v
      /\ \A u \in Tasks \ {t} : specific'[u] = specific[u]
  BY ThreadChange DEF KeysInv
<1>2. \A s \in Keys : StoredFit(t, s)'
  BY <1>1 DEF StoredFit
<1>3. DestructionFit(t)'
  BY KeysKept DEF KeysInv, DestructionFit
<1>4. \A u \in Tasks \ {t} : ThreadSame(u)
  BY <1>1 DEF ThreadSame
<1>5. w' \in WaitingType /\ call' \in [Tasks -> KeyCalls]
  BY DEF KeysInv, KeysType
<1> QED BY <1>1, <1>2, <1>3, <1>4, <1>5, OneThread

LEMMA ApplicationMeans ==
    ASSUME NEW t \in Tasks, InApplication(t)
    PROVE  /\ w.mode[t] = "active" /\ call[t].op \in {"none", "destructor"}
           /\ specific[t].storing = NoKey
BY DEF InApplication, Free, At, NoCall

\* The fields of what a thread has, one changed.
SpecificOf(v, g, s, c, l) ==
    [value |-> v, generation |-> g, storing |-> s, crossed |-> c, leftover |-> l]

WithValue(r, x) == [r EXCEPT !.value = x]
WithGeneration(r, x) == [r EXCEPT !.generation = x]
WithStoring(r, x) == [r EXCEPT !.storing = x]
WithCrossed(r, x) == [r EXCEPT !.crossed = x]

LEMMA SpecificRecord ==
    ASSUME NEW r \in SpecificType, NEW x
    PROVE  /\ WithValue(r, x)
                 = SpecificOf(x, r.generation, r.storing, r.crossed, r.leftover)
           /\ WithGeneration(r, x)
                 = SpecificOf(r.value, x, r.storing, r.crossed, r.leftover)
           /\ WithStoring(r, x)
                 = SpecificOf(r.value, r.generation, x, r.crossed, r.leftover)
           /\ WithCrossed(r, x)
                 = SpecificOf(r.value, r.generation, r.storing, x, r.leftover)
<1>1. r = SpecificOf(r.value, r.generation, r.storing, r.crossed, r.leftover)
  BY DEF SpecificType, SpecificOf
<1>2. WithValue(r, x)
         = SpecificOf(x, r.generation, r.storing, r.crossed, r.leftover)
  BY <1>1 DEF SpecificOf, WithValue
<1>3. WithGeneration(r, x)
         = SpecificOf(r.value, x, r.storing, r.crossed, r.leftover)
  BY <1>1 DEF SpecificOf, WithGeneration
<1>4. WithStoring(r, x)
         = SpecificOf(r.value, r.generation, x, r.crossed, r.leftover)
  BY <1>1 DEF SpecificOf, WithStoring
<1>5. WithCrossed(r, x)
         = SpecificOf(r.value, r.generation, r.storing, x, r.leftover)
  BY <1>1 DEF SpecificOf, WithCrossed
<1> QED BY <1>2, <1>3, <1>4, <1>5

LEMMA SpecificOfFields ==
    ASSUME NEW v, NEW g, NEW s, NEW c, NEW l
    PROVE  LET r == SpecificOf(v, g, s, c, l)
           IN  /\ r.value = v /\ r.generation = g /\ r.storing = s /\ r.crossed = c
               /\ r.leftover = l
               /\ v \in [Keys -> Nat] /\ g \in [Keys -> Nat] /\ s \in Keys \union {NoKey}
                  /\ c \subseteq Keys /\ l \in BOOLEAN => r \in SpecificType
BY DEF SpecificOf, SpecificType

\* setspecific, up to the value: the generation may be that of an older key.
LEMMA SetSpecificStep ==
    ASSUME KeysInv, NEW t \in Tasks, NEW s \in Keys, SetSpecific(t, s)
    PROVE  KeysInv'
<1>1. /\ UNCHANGED <<w, call, key>> /\ key[s].used /\ w.mode[t] = "active"
      /\ call[t].op \in {"none", "destructor"} /\ specific[t].storing = NoKey
  BY ApplicationMeans DEF SetSpecific
<1>2. PICK x \in {0, key[s].generation} :
         specific' = [specific EXCEPT ![t].value[s] = x, ![t].storing = s,
                                      ![t].crossed = @ \ {s}]
  BY DEF SetSpecific
<1>3. x \in Nat
  BY KeyFields DEF KeysInv
<1> DEFINE y == [specific[t].value EXCEPT ![s] = x]
           z == specific[t].crossed \ {s}
           r1 == WithValue(specific[t], y)
           r2 == WithStoring(r1, s)
           v == SpecificOf(y, specific[t].generation, s, z, specific[t].leftover)
<1>4. y \in [Keys -> Nat] /\ z \subseteq Keys /\ specific[t] \in SpecificType
      /\ specific[t].generation \in [Keys -> Nat] /\ specific[t].leftover \in BOOLEAN
  BY <1>3, SpecificFields DEF KeysInv
<1>5. r1 = SpecificOf(y, specific[t].generation, specific[t].storing,
                      specific[t].crossed, specific[t].leftover)
      /\ r1 \in SpecificType
  <2> HIDE DEF y
  <2> QED BY <1>4, SpecificRecord, SpecificOfFields, SpecificFields DEF KeysInv
<1>6. r2 = SpecificOf(y, specific[t].generation, s,
                      specific[t].crossed, specific[t].leftover)
      /\ r2 \in SpecificType
  <2> HIDE DEF y, r1
  <2> QED BY <1>4, <1>5, SpecificRecord, SpecificOfFields, SpecificFields DEF KeysInv
<1>7. specific' = [specific EXCEPT ![t] = WithCrossed(r2, z)]
  <2> DEFINE f1 == [specific EXCEPT ![t].value[s] = x]
             f2 == [f1 EXCEPT ![t].storing = s]
  <2>1. specific \in [Tasks -> SpecificType] /\ specific[t] \in SpecificType
    BY DEF KeysInv, KeysType
  <2>2. f1 = [specific EXCEPT ![t] = r1]
    BY DEF WithValue
  <2>3. f2 = [specific EXCEPT ![t] = r2]
    <3> HIDE DEF r1
    <3>1. f1[t] = r1
      BY <2>1, <2>2
    <3>2. f2 = [f1 EXCEPT ![t] = WithStoring(r1, s)]
      <4> HIDE DEF f1
      <4> QED BY <3>1 DEF WithStoring
    <3> QED BY <2>1, <2>2, <3>2
  <2> HIDE DEF r1, r2
  <2>4. r2.crossed = specific[t].crossed
    BY <1>6, SpecificOfFields
  <2>5. specific' = [f2 EXCEPT ![t].crossed = @ \ {s}]
    BY <1>2
  <2> HIDE DEF f2
  <2>6. f2[t] = r2
    BY <2>1, <2>3
  <2>7. specific' = [f2 EXCEPT ![t] = WithCrossed(r2, z)]
    BY <2>4, <2>5, <2>6 DEF WithCrossed
  <2> QED BY <2>1, <2>3, <2>7
<1> HIDE DEF y, z, r1, r2
<1>8. specific' = [specific EXCEPT ![t] = v]
  <2>1. /\ r2.value = y /\ r2.generation = specific[t].generation
        /\ r2.storing = s /\ r2.leftover = specific[t].leftover
    BY <1>6, SpecificOfFields
  <2>2. WithCrossed(r2, z)
           = SpecificOf(r2.value, r2.generation, r2.storing, z, r2.leftover)
    BY <1>6, SpecificRecord
  <2> QED BY <1>7, <2>1, <2>2
<1>9. v \in SpecificType
  BY <1>4, SpecificOfFields
<1>10. ASSUME NEW r \in Keys
       PROVE  /\ v.generation[r] <= key[r].generation
              /\ r \notin v.crossed =>
                    /\ v.storing = r => key[r].used
                    /\ v.storing = r \/ v.generation[r] = key[r].generation =>
                          v.value[r] \in {0, key[r].generation}
  <2>1. StoredFit(t, r) /\ specific[t].value \in [Keys -> Nat]
    BY SpecificFields DEF KeysInv
  <2>2. y[r] = IF r = s THEN x ELSE specific[t].value[r]
    BY <2>1 DEF y
  <2> QED BY <1>1, <2>1, <2>2, SpecificOfFields DEF StoredFit, z
<1> HIDE DEF v
<1> QED BY <1>1, <1>8, <1>9, <1>10, ApplicationStep

\* setspecific, the generation.
LEMMA SetGenerationStep ==
    ASSUME KeysInv, NEW t \in Tasks, SetGeneration(t)
    PROVE  KeysInv'
<1>1. /\ UNCHANGED <<w, call, key>> /\ w.mode[t] = "active" /\ specific[t].storing # NoKey
      /\ specific' = [specific EXCEPT
            ![t].generation[specific[t].storing] = key[specific[t].storing].generation,
            ![t].storing = NoKey]
  BY DEF SetGeneration
<1>2. specific[t].storing \in Keys /\ call[t].op \notin {"look", "call"}
  BY <1>1, SpecificFields DEF KeysInv, DestructionFit
<1> PICK s \in Keys : s = specific[t].storing
  BY <1>2
<1> PICK g \in Nat : g = key[s].generation
  BY KeyFields DEF KeysInv
<1> DEFINE y == [specific[t].generation EXCEPT ![s] = g]
           r1 == WithGeneration(specific[t], y)
           v == SpecificOf(specific[t].value, y, NoKey, specific[t].crossed,
                           specific[t].leftover)
<1>3. specific' = [specific EXCEPT ![t] = WithStoring(r1, NoKey)]
  <2> DEFINE f1 == [specific EXCEPT ![t].generation[s] = g]
  <2>1. specific \in [Tasks -> SpecificType]
    BY DEF KeysInv, KeysType
  <2>2. f1 = [specific EXCEPT ![t] = r1]
    BY DEF WithGeneration
  <2>3. specific' = [f1 EXCEPT ![t].storing = NoKey]
    BY <1>1
  <2> HIDE DEF r1, f1
  <2>4. f1[t] = r1
    BY <2>1, <2>2
  <2>5. specific' = [f1 EXCEPT ![t] = WithStoring(r1, NoKey)]
    BY <2>3, <2>4 DEF WithStoring
  <2> QED BY <2>1, <2>2, <2>5
<1>4. y \in [Keys -> Nat] /\ specific[t] \in SpecificType
  BY SpecificFields DEF KeysInv
<1> HIDE DEF y
<1>5. r1 = SpecificOf(specific[t].value, y, specific[t].storing,
                      specific[t].crossed, specific[t].leftover)
      /\ r1 \in SpecificType
  BY <1>4, SpecificRecord, SpecificOfFields, SpecificFields DEF KeysInv
<1> HIDE DEF r1
<1>6. specific' = [specific EXCEPT ![t] = v]
  <2>1. /\ r1.value = specific[t].value /\ r1.generation = y
        /\ r1.crossed = specific[t].crossed /\ r1.leftover = specific[t].leftover
    BY <1>5, SpecificOfFields
  <2>2. WithStoring(r1, NoKey)
           = SpecificOf(r1.value, r1.generation, NoKey, r1.crossed, r1.leftover)
    BY <1>5, SpecificRecord
  <2> QED BY <1>3, <2>1, <2>2
<1>7. v \in SpecificType
  BY <1>4, SpecificOfFields, SpecificFields DEF KeysInv
<1>8. ASSUME NEW r \in Keys
      PROVE  /\ v.generation[r] <= key[r].generation
             /\ r \notin v.crossed =>
                   /\ v.storing = r => key[r].used
                   /\ v.storing = r \/ v.generation[r] = key[r].generation =>
                         v.value[r] \in {0, key[r].generation}
  <2>1. StoredFit(t, r) /\ specific[t].generation \in [Keys -> Nat] /\ r # NoKey
    BY SpecificFields, KeySets DEF KeysInv
  <2>2. y[r] = IF r = s THEN g ELSE specific[t].generation[r]
    BY <2>1 DEF y
  <2> QED BY <2>1, <2>2, SpecificOfFields DEF StoredFit
<1> HIDE DEF v
<1> QED BY <1>1, <1>2, <1>6, <1>7, <1>8, ApplicationStep

\* One key becomes v, and the threads have what they had, or have crossed it.
LEMMA KeyChange ==
    ASSUME KeysInv, NEW s \in Keys, NEW v \in KeyType, key' = [key EXCEPT ![s] = v]
    PROVE  /\ Keys' = Keys /\ NoKey' = NoKey /\ SpecificType' = SpecificType
           /\ key' \in [Keys -> KeyType]
           /\ key'[s] = v /\ \A r \in Keys \ {s} : key'[r] = key[r]
<1>1. key \in [Keys -> KeyType]
  BY DEF KeysInv, KeysType
<1>2. key' \in [Keys -> KeyType] /\ key'[s] = v /\ \A r \in Keys \ {s} : key'[r] = key[r]
  BY <1>1
<1>3. DOMAIN key' = Keys
  BY <1>2
<1> QED BY <1>2, <1>3, SameKeys DEF KeysInv

\* pthread_key_create: a value of an earlier key is of an earlier generation.
LEMMA KeyCreateStep ==
    ASSUME KeysInv, NEW t \in Tasks, NEW destructor \in BOOLEAN, KeyCreate(t, destructor)
    PROVE  KeysInv'
<1>1. UNCHANGED <<w, call, specific>>
  BY DEF KeyCreate
<1>2. PICK s \in Keys :
         /\ ~key[s].used
         /\ key' = [key EXCEPT ![s] =
                       [used |-> TRUE, generation |-> NextGeneration(@.generation),
                        destructor |-> destructor]]
  BY DEF KeyCreate
<1> PICK g : g = key[s].generation + 1
  OBVIOUS
<1>3. g \in Nat /\ key[s].generation < g /\ key[s].generation \in Nat
  BY KeyFields DEF KeysInv
<1> DEFINE v == [used |-> TRUE, generation |-> g, destructor |-> destructor]
<1>4. key' = [key EXCEPT ![s] = v]
  BY <1>2 DEF NextGeneration
<1>5. v \in KeyType
  BY <1>3 DEF KeyType
<1>6. v.generation = g
  OBVIOUS
<1> HIDE DEF v
<1>7. /\ Keys' = Keys /\ NoKey' = NoKey /\ SpecificType' = SpecificType
      /\ key' \in [Keys -> KeyType]
      /\ key'[s] = v /\ \A r \in Keys \ {s} : key'[r] = key[r]
  BY <1>4, <1>5, KeyChange
<1>8. ASSUME NEW u \in Tasks
      PROVE  DestructionFit(u)' /\ \A r \in Keys : StoredFit(u, r)'
  <2>1. DestructionFit(u) /\ \A r \in Keys : StoredFit(u, r)
    BY DEF KeysInv
  <2>2. specific[u].generation[s] \in Nat /\ specific[u].generation[s] < g
    BY <1>3, <2>1, SpecificFields DEF KeysInv, StoredFit
  <2>3. StoredFit(u, s)'
    BY <1>1, <1>2, <1>3, <1>6, <1>7, <2>1, <2>2 DEF StoredFit
  <2>4. \A r \in Keys \ {s} : StoredFit(u, r)'
    BY <1>1, <1>7, <2>1 DEF StoredFit
  <2>5. ~ToBeDestroyed(u, s)'
    BY <1>1, <1>3, <1>6, <1>7, <2>2 DEF ToBeDestroyed, Specific
  <2>6. \A r \in Keys \ {s} : ToBeDestroyed(u, r)' <=> ToBeDestroyed(u, r)
    BY <1>1, <1>7 DEF ToBeDestroyed, Specific
  <2>7. DestructionFit(u)'
    <3>1. call[u].op = "call" /\ call[u].on \notin specific[u].crossed => call[u].on # s
      BY <1>2, <2>1 DEF DestructionFit
    <3>2. \A r \in Keys : ToBeDestroyed(u, r)' => ToBeDestroyed(u, r)
      BY <2>5, <2>6
    <3>3. call[u].op \in {"call", "destructor"} => call[u].on \in Keys
      BY <2>1 DEF DestructionFit
    <3>4. call[u].op = "call" /\ call[u].on \notin specific[u].crossed =>
              key'[call[u].on] = key[call[u].on]
      BY <1>7, <3>1, <3>3
    <3> QED BY <1>1, <1>7, <2>1, <3>2, <3>4 DEF DestructionFit
  <2> QED BY <2>3, <2>4, <2>7
<1>9. KeysType'
  BY <1>1, <1>7 DEF KeysInv, KeysType
<1> QED BY <1>7, <1>8, <1>9 DEF KeysInv

\* pthread_key_delete: a thread that is between two looks at the key crosses it.
LEMMA KeyDeleteStep ==
    ASSUME KeysInv, NEW t \in Tasks, NEW s \in Keys, KeyDelete(t, s)
    PROVE  KeysInv'
<1>1. /\ UNCHANGED <<w, call>>
      /\ key' = [key EXCEPT ![s].used = FALSE, ![s].destructor = FALSE]
      /\ specific' = [u \in Tasks |->
            IF Between(u, s) THEN [specific[u] EXCEPT !.crossed = @ \union {s}]
            ELSE specific[u]]
  BY DEF KeyDelete
<1> DEFINE v == [used |-> FALSE, generation |-> key[s].generation, destructor |-> FALSE]
<1>2. v \in KeyType /\ ~v.used /\ ~v.destructor /\ v.generation = key[s].generation
  BY KeyFields DEF KeysInv, KeyType
<1>3. key' = [key EXCEPT ![s] = v]
  <2>0. PICK no : no = FALSE
    OBVIOUS
  <2>1. key \in [Keys -> KeyType]
    BY DEF KeysInv, KeysType
  <2> DEFINE k1 == [key EXCEPT ![s].used = no]
             x1 == [used |-> no, generation |-> key[s].generation,
                    destructor |-> key[s].destructor]
             x2 == [used |-> no, generation |-> key[s].generation, destructor |-> no]
  <2>2. key' = [k1 EXCEPT ![s].destructor = no]
    BY Zenon, <1>1, <2>0
  <2>3. key[s] = [used |-> key[s].used, generation |-> key[s].generation,
                  destructor |-> key[s].destructor]
    BY <2>1 DEF KeyType
  <2>4. k1 = [key EXCEPT ![s] = x1]
    <3> PICK r : r = key[s]
      OBVIOUS
    <3>1. r = [used |-> r.used, generation |-> r.generation, destructor |-> r.destructor]
      BY <2>3
    <3>2. [r EXCEPT !.used = no]
             = [used |-> no, generation |-> r.generation, destructor |-> r.destructor]
      BY <3>1
    <3> QED BY <3>2
  <2> HIDE DEF k1
  <2>5. k1[s] = x1
    BY <2>1, <2>4
  <2>6. [k1[s] EXCEPT !.destructor = no] = x2
    BY <2>5
  <2>7. key' = [k1 EXCEPT ![s] = x2]
    <3> HIDE DEF x2
    <3> QED BY Zenon, <2>2, <2>6
  <2>8. key' = [key EXCEPT ![s] = x2]
    <3> HIDE DEF x1, x2
    <3> QED BY <2>1, <2>4, <2>7
  <2>9. x2 = v
    BY Zenon, <2>0
  <2> HIDE DEF x2, v
  <2> QED BY <2>8, <2>9
<1> HIDE DEF v
<1>4. /\ Keys' = Keys /\ NoKey' = NoKey /\ SpecificType' = SpecificType
      /\ key' \in [Keys -> KeyType]
      /\ key'[s] = v /\ \A r \in Keys \ {s} : key'[r] = key[r]
  BY <1>2, <1>3, KeyChange
<1>5. ASSUME NEW u \in Tasks
      PROVE  /\ specific'[u] \in SpecificType
             /\ specific'[u].value = specific[u].value
             /\ specific'[u].generation = specific[u].generation
             /\ specific'[u].storing = specific[u].storing
             /\ specific'[u].leftover = specific[u].leftover
             /\ specific'[u].crossed
                   = IF Between(u, s) THEN specific[u].crossed \union {s}
                     ELSE specific[u].crossed
  <2> PICK c : c = specific[u].crossed \union {s}
    OBVIOUS
  <2>1. specific[u] \in SpecificType /\ c \subseteq Keys
    BY SpecificFields DEF KeysInv
  <2>2. specific'[u] = IF Between(u, s) THEN WithCrossed(specific[u], c) ELSE specific[u]
    BY <1>1 DEF WithCrossed
  <2>3. WithCrossed(specific[u], c)
           = SpecificOf(specific[u].value, specific[u].generation, specific[u].storing,
                        c, specific[u].leftover)
    BY <2>1, SpecificRecord
  <2>4. WithCrossed(specific[u], c) \in SpecificType
    <3>1. /\ specific[u].value \in [Keys -> Nat]
          /\ specific[u].generation \in [Keys -> Nat]
          /\ specific[u].storing \in Keys \union {NoKey}
          /\ specific[u].leftover \in BOOLEAN
      BY SpecificFields DEF KeysInv
    <3> QED BY <2>1, <2>3, <3>1, SpecificOfFields
  <2>5. /\ WithCrossed(specific[u], c).value = specific[u].value
        /\ WithCrossed(specific[u], c).generation = specific[u].generation
        /\ WithCrossed(specific[u], c).storing = specific[u].storing
        /\ WithCrossed(specific[u], c).leftover = specific[u].leftover
        /\ WithCrossed(specific[u], c).crossed = c
    BY <2>3, SpecificOfFields
  <2> QED BY <2>1, <2>2, <2>4, <2>5
<1>6. specific' \in [Tasks -> SpecificType]
  <2>1. DOMAIN specific' = Tasks /\ specific' = [u \in Tasks |-> specific'[u]]
    BY <1>1
  <2> QED BY <1>5, <2>1
<1>7. ASSUME NEW u \in Tasks
      PROVE  DestructionFit(u)' /\ \A r \in Keys : StoredFit(u, r)'
  <2>1. DestructionFit(u) /\ \A r \in Keys : StoredFit(u, r)
    BY DEF KeysInv
  <2>2. specific[u].storing = s => s \in specific'[u].crossed
    BY <1>5 DEF Between
  <2>3. \A r \in Keys \ {s} : r \in specific'[u].crossed <=> r \in specific[u].crossed
    BY <1>5
  <2>4. s \in specific[u].crossed => s \in specific'[u].crossed
    BY <1>5
  <2>5. StoredFit(u, s)'
    BY <1>2, <1>4, <1>5, <2>1, <2>2, <2>4 DEF StoredFit
  <2>6. \A r \in Keys \ {s} : StoredFit(u, r)'
    BY <1>4, <1>5, <2>1, <2>3 DEF StoredFit
  <2>7. ~ToBeDestroyed(u, s)'
    BY <1>2, <1>4 DEF ToBeDestroyed
  <2>8. \A r \in Keys \ {s} : ToBeDestroyed(u, r)' <=> ToBeDestroyed(u, r)
    BY <1>4, <1>5 DEF ToBeDestroyed, Specific
  <2>9. \A r \in Keys : ToBeDestroyed(u, r)' => ToBeDestroyed(u, r)
    BY <2>7, <2>8
  <2>10. call[u].op = "call" /\ call[u].on \notin specific'[u].crossed =>
             /\ call[u].on \notin specific[u].crossed /\ key'[call[u].on] = key[call[u].on]
    <3>1. call[u].op = "call" => call[u].on \in Keys
      BY <2>1 DEF DestructionFit
    <3>2. call[u].op = "call" /\ call[u].on = s => s \in specific'[u].crossed
      BY <1>5 DEF Between
    <3> QED BY <1>4, <2>3, <3>1, <3>2
  <2>11. DestructionFit(u)'
    BY <1>1, <1>4, <1>5, <2>1, <2>9, <2>10 DEF DestructionFit
  <2> QED BY <2>5, <2>6, <2>11
<1>8. KeysType'
  BY <1>1, <1>4, <1>6 DEF KeysInv, KeysType
<1> QED BY <1>4, <1>7, <1>8 DEF KeysInv

LEMMA KeyStep ==
    ASSUME KeysInv, KeyNext
    PROVE  KeysInv'
<1>1. PICK t \in Tasks :
        \/ \E destructor \in BOOLEAN : KeyCreate(t, destructor)
        \/ \E s \in Keys : KeyDelete(t, s) \/ SetSpecific(t, s)
        \/ SetGeneration(t) \/ BeginDestruction(t) \/ LookAtKey(t)
        \/ CallDestructor(t) \/ DestructorReturns(t) \/ EndOfRound(t)
  BY DEF KeyNext
<1> QED BY <1>1, KeyCreateStep, KeyDeleteStep, SetSpecificStep, SetGenerationStep,
           BeginDestructionStep, LookAtKeyStep, CallDestructorStep,
           DestructorReturnsStep, EndOfRoundStep

LEMMA KeyProperties ==
    ASSUME KeysInv
    PROVE  KeyValuesExact
<1>1. ASSUME NEW t \in Tasks, NEW s \in Keys \ specific[t].crossed
      PROVE  /\ Specific(t, s) \in {0, key[s].generation}
             /\ At(t, "call") /\ call[t].on = s =>
                   key[s].destructor /\ specific[t].value[s] = key[s].generation
             /\ w.mode[t] = "off" /\ ~specific[t].leftover => ~ToBeDestroyed(t, s)
  <2>1. DestructionFit(t) /\ StoredFit(t, s)
    BY DEF KeysInv
  <2>2. Specific(t, s) \in {0, key[s].generation}
    BY <2>1 DEF StoredFit, Specific
  <2>3. At(t, "call") /\ call[t].on = s =>
           key[s].destructor /\ specific[t].value[s] = key[s].generation
    BY <2>1 DEF DestructionFit, At
  <2>4. w.mode[t] = "off" /\ ~specific[t].leftover => ~ToBeDestroyed(t, s)
    BY <2>1 DEF DestructionFit
  <2> QED BY <2>2, <2>3, <2>4
<1> QED BY <1>1 DEF KeyValuesExact

-----------------------------------------------------------------------------
(* Threads: the inductive invariant.                                       *)

ThreadRecords ==
    [op : {"link", "post", "await", "joining", "unlink", "free"}, what : {"thread"},
     on : Tasks, detached : BOOLEAN]

ThreadCalls == ThreadRecords \union {NoCall}

RecordType ==
    [memory : {"none", "allocated", "freed"}, linked : BOOLEAN, detached : BOOLEAN,
     completed : BOOLEAN, joining : BOOLEAN, posts : Nat, early : BOOLEAN]

ThreadsType ==
    /\ w \in WaitingType
    /\ call \in [Tasks -> ThreadCalls]
    /\ rec \in [Tasks -> RecordType]

\* A thread waits for the end of the thread that it joins.
JoinsFit ==
    \A t \in Tasks :
        /\ w.mode[t] = "waiting" <=> w.on[t] # NoList
        /\ w.mode[t] = "waiting" => call[t].op = "joining" /\ w.on[t] = call[t].on
        /\ call[t].op # "none" => w.mode[t] # "off"
        /\ call[t].op = "post" => call[t].on = t

Uses(t, h, ops) == call[t].op \in ops /\ call[t].on = h

Holds(t, h) == Uses(t, h, {"unlink", "free", "await", "joining"})

Nobody(h) == \A t \in Tasks : ~Holds(t, h)

\* t alone has the record of h, at one of ops.
Alone(t, h, ops) ==
    Uses(t, h, ops) /\ \A u \in Tasks : Holds(u, h) => u = t

\* t joins h, and no post has reached it.
Unanswered(t, h) ==
    /\ Alone(t, h, {"await", "joining"})
    /\ call[t].op = "joining" /\ w.mode[t] = "active" => w.result[t] # "OK"

Posting(h) == Uses(h, h, {"post"})

NotLinking(h) == \A t \in Tasks : ~Uses(t, h, {"link"})

\* Nobody uses the record, or one task joins the thread and waits for its end.
Joinable(h) ==
    /\ rec[h].posts = 0
    /\ IF rec[h].joining THEN ~rec[h].detached /\ \E t \in Tasks : Unanswered(t, h)
       ELSE Nobody(h)

\* The stages of a record.
Unused(h) ==
    rec[h] = NoRecord /\ Nobody(h) /\ ~Posting(h) /\ NotLinking(h)

Starting(h) ==
    /\ rec[h].memory = "allocated" /\ ~rec[h].linked /\ ~rec[h].completed
    /\ ~rec[h].joining /\ rec[h].posts = 0
    /\ Nobody(h) /\ ~Posting(h) /\ w.mode[h] # "off"
    /\ \E t \in Tasks : Uses(t, h, {"link"})
                        /\ \A u \in Tasks : Uses(u, h, {"link"}) => u = t

Running(h) ==
    /\ rec[h].memory = "allocated" /\ rec[h].linked /\ ~rec[h].completed
    /\ Joinable(h) /\ ~Posting(h) /\ NotLinking(h) /\ w.mode[h] # "off"

Ending(h) ==
    /\ rec[h].memory = "allocated" /\ rec[h].linked /\ rec[h].completed
    /\ Joinable(h) /\ Posting(h) /\ NotLinking(h)
    /\ rec[h].detached = call[h].detached

Detached(h) ==
    /\ ~rec[h].linked /\ rec[h].completed /\ rec[h].detached
    /\ Posting(h) /\ ~call[h].detached /\ NotLinking(h)
    /\ \/ rec[h].memory = "allocated" /\ \E t \in Tasks : Alone(t, h, {"free"})
       \/ rec[h].memory = "freed" /\ Nobody(h)

Kept(h) ==
    /\ rec[h].memory = "allocated" /\ rec[h].linked /\ rec[h].completed
    /\ ~rec[h].detached /\ ~Posting(h) /\ NotLinking(h) /\ w.mode[h] = "off"
    /\ \/ /\ rec[h].posts = 1
          /\ IF rec[h].joining THEN \E t \in Tasks : Unanswered(t, h) /\ w.mode[t] = "active"
             ELSE Nobody(h)
       \/ /\ rec[h].posts = 0 /\ rec[h].joining
          /\ \E t \in Tasks :
                /\ Alone(t, h, {"joining", "unlink"}) /\ w.mode[t] = "active"
                /\ call[t].op = "joining" => w.result[t] = "OK"

Unlinked(h) ==
    /\ rec[h].memory = "allocated" /\ ~rec[h].linked /\ rec[h].completed
    /\ ~Posting(h) /\ NotLinking(h) /\ w.mode[h] = "off"
    /\ \E t \in Tasks : Alone(t, h, {"free"})

EndingItself(h) ==
    /\ rec[h].memory = "allocated" /\ rec[h].completed /\ rec[h].detached
    /\ NotLinking(h) /\ w.mode[h] = "active"
    /\ \/ rec[h].linked /\ Alone(h, h, {"unlink"})
       \/ ~rec[h].linked /\ Alone(h, h, {"free"})

Freed(h) ==
    /\ rec[h].memory = "freed" /\ ~rec[h].linked /\ rec[h].completed
    /\ Nobody(h) /\ ~Posting(h) /\ NotLinking(h) /\ w.mode[h] = "off"

Stage(h) ==
    \/ Unused(h) \/ Starting(h) \/ Running(h) \/ Ending(h) \/ Detached(h)
    \/ Kept(h) \/ Unlinked(h) \/ EndingItself(h) \/ Freed(h)

\* A thread that ended before its record was linked does not go on.
EndedEarly(h) ==
    /\ rec[h].early /\ rec[h].memory # "none"
    /\ \/ w.mode[h] = "off"
       \/ rec[h].completed /\ Uses(h, h, {"post", "unlink", "free"})

RecordFit(h) == EndedEarly(h) \/ (~rec[h].early /\ Stage(h))

RecordsInv == ThreadsType /\ JoinsFit /\ \A h \in Tasks : RecordFit(h)

\* A record, and one of its fields changed.
RecordOf(m, l, d, c, j, p, e) ==
    [memory |-> m, linked |-> l, detached |-> d, completed |-> c, joining |-> j,
     posts |-> p, early |-> e]

LEMMA RecordOfFields ==
    ASSUME NEW m, NEW l, NEW d, NEW c, NEW j, NEW p, NEW e
    PROVE  LET r == RecordOf(m, l, d, c, j, p, e)
           IN  /\ r.memory = m /\ r.linked = l /\ r.detached = d /\ r.completed = c
               /\ r.joining = j /\ r.posts = p /\ r.early = e
               /\ m \in {"none", "allocated", "freed"} /\ l \in BOOLEAN /\ d \in BOOLEAN
                  /\ c \in BOOLEAN /\ j \in BOOLEAN /\ p \in Nat /\ e \in BOOLEAN
                  => r \in RecordType
BY DEF RecordOf, RecordType

WithMemory(r, x) == [r EXCEPT !.memory = x]
WithLinked(r, x) == [r EXCEPT !.linked = x]
WithDetached(r, x) == [r EXCEPT !.detached = x]
WithCompleted(r, x) == [r EXCEPT !.completed = x]
WithJoining(r, x) == [r EXCEPT !.joining = x]
WithPosts(r, x) == [r EXCEPT !.posts = x]
WithEarly(r, x) == [r EXCEPT !.early = x]

LEMMA RecordParts ==
    ASSUME NEW r \in RecordType
    PROVE  /\ r = RecordOf(r.memory, r.linked, r.detached, r.completed, r.joining,
                           r.posts, r.early)
           /\ r.memory \in {"none", "allocated", "freed"} /\ r.linked \in BOOLEAN
           /\ r.detached \in BOOLEAN /\ r.completed \in BOOLEAN /\ r.joining \in BOOLEAN
           /\ r.posts \in Nat /\ r.early \in BOOLEAN
BY DEF RecordOf, RecordType

LEMMA RecordWith ==
    ASSUME NEW r \in RecordType, NEW x
    PROVE  /\ WithMemory(r, x) = RecordOf(x, r.linked, r.detached, r.completed, r.joining,
                                          r.posts, r.early)
           /\ WithLinked(r, x) = RecordOf(r.memory, x, r.detached, r.completed, r.joining,
                                          r.posts, r.early)
           /\ WithDetached(r, x) = RecordOf(r.memory, r.linked, x, r.completed, r.joining,
                                            r.posts, r.early)
           /\ WithCompleted(r, x) = RecordOf(r.memory, r.linked, r.detached, x, r.joining,
                                             r.posts, r.early)
           /\ WithJoining(r, x) = RecordOf(r.memory, r.linked, r.detached, r.completed, x,
                                           r.posts, r.early)
           /\ WithPosts(r, x) = RecordOf(r.memory, r.linked, r.detached, r.completed,
                                         r.joining, x, r.early)
           /\ WithEarly(r, x) = RecordOf(r.memory, r.linked, r.detached, r.completed,
                                         r.joining, r.posts, x)
<1>1. r = RecordOf(r.memory, r.linked, r.detached, r.completed, r.joining, r.posts, r.early)
  BY RecordParts
<1>2. WithMemory(r, x) = RecordOf(x, r.linked, r.detached, r.completed, r.joining,
                                  r.posts, r.early)
  BY <1>1 DEF RecordOf, WithMemory
<1>3. WithLinked(r, x) = RecordOf(r.memory, x, r.detached, r.completed, r.joining,
                                  r.posts, r.early)
  BY <1>1 DEF RecordOf, WithLinked
<1>4. WithDetached(r, x) = RecordOf(r.memory, r.linked, x, r.completed, r.joining,
                                    r.posts, r.early)
  BY <1>1 DEF RecordOf, WithDetached
<1>5. WithCompleted(r, x) = RecordOf(r.memory, r.linked, r.detached, x, r.joining,
                                     r.posts, r.early)
  BY <1>1 DEF RecordOf, WithCompleted
<1>6. WithJoining(r, x) = RecordOf(r.memory, r.linked, r.detached, r.completed, x,
                                   r.posts, r.early)
  BY <1>1 DEF RecordOf, WithJoining
<1>7. WithPosts(r, x) = RecordOf(r.memory, r.linked, r.detached, r.completed,
                                 r.joining, x, r.early)
  BY <1>1 DEF RecordOf, WithPosts
<1>8. WithEarly(r, x) = RecordOf(r.memory, r.linked, r.detached, r.completed,
                                 r.joining, r.posts, x)
  BY <1>1 DEF RecordOf, WithEarly
<1> QED BY <1>2, <1>3, <1>4, <1>5, <1>6, <1>7, <1>8

\* The record of one thread becomes v.
RecordBecomes(h, v) == rec' = [rec EXCEPT ![h] = v]

LEMMA RecordChange ==
    ASSUME ThreadsType, NEW h \in Tasks, NEW v \in RecordType, RecordBecomes(h, v)
    PROVE  /\ rec' \in [Tasks -> RecordType] /\ rec'[h] = v
           /\ \A g \in Tasks \ {h} : rec'[g] = rec[g]
BY DEF ThreadsType, RecordBecomes

\* The fields of its record after the step.
RecordNow(h, m, l, d, c, j, p, e) ==
    /\ rec' \in [Tasks -> RecordType]
    /\ \A g \in Tasks \ {h} : rec'[g] = rec[g]
    /\ rec'[h].memory = m /\ rec'[h].linked = l /\ rec'[h].detached = d
    /\ rec'[h].completed = c /\ rec'[h].joining = j /\ rec'[h].posts = p
    /\ rec'[h].early = e

RecordFields(m, l, d, c, j, p, e) ==
    /\ m \in {"none", "allocated", "freed"} /\ l \in BOOLEAN /\ d \in BOOLEAN
    /\ c \in BOOLEAN /\ j \in BOOLEAN /\ p \in Nat /\ e \in BOOLEAN

LEMMA RecordBecame ==
    ASSUME ThreadsType, NEW h \in Tasks,
           NEW m, NEW l, NEW d, NEW c, NEW j, NEW p, NEW e,
           RecordFields(m, l, d, c, j, p, e),
           RecordBecomes(h, RecordOf(m, l, d, c, j, p, e))
    PROVE  RecordNow(h, m, l, d, c, j, p, e)
<1> DEFINE v == RecordOf(m, l, d, c, j, p, e)
<1>1. /\ v.memory = m /\ v.linked = l /\ v.detached = d /\ v.completed = c
      /\ v.joining = j /\ v.posts = p /\ v.early = e /\ v \in RecordType
  BY RecordOfFields DEF RecordFields
<1> HIDE DEF v
<1>2. /\ rec' \in [Tasks -> RecordType] /\ rec'[h] = v
      /\ \A g \in Tasks \ {h} : rec'[g] = rec[g]
  BY <1>1, RecordChange DEF v
<1> QED BY <1>1, <1>2 DEF RecordNow

\* One field of it is assigned.
LEMMA RecordAssigned ==
    ASSUME ThreadsType, NEW h \in Tasks
    PROVE  LET r == rec[h]
           IN  /\ \A x \in {"none", "allocated", "freed"} :
                     RecordBecomes(h, WithMemory(r, x)) =>
                     RecordNow(h, x, r.linked, r.detached, r.completed, r.joining, r.posts, r.early)
               /\ \A x \in BOOLEAN : RecordBecomes(h, WithLinked(r, x)) =>
                     RecordNow(h, r.memory, x, r.detached, r.completed, r.joining, r.posts, r.early)
               /\ \A x \in BOOLEAN : RecordBecomes(h, WithJoining(r, x)) =>
                     RecordNow(h, r.memory, r.linked, r.detached, r.completed, x, r.posts, r.early)
               /\ \A x \in Nat : RecordBecomes(h, WithPosts(r, x)) =>
                     RecordNow(h, r.memory, r.linked, r.detached, r.completed, r.joining, x, r.early)
               /\ \A x \in BOOLEAN : RecordBecomes(h, WithEarly(r, x)) =>
                     RecordNow(h, r.memory, r.linked, r.detached, r.completed, r.joining, r.posts, x)
<1> PICK r \in RecordType : r = rec[h]
  BY DEF ThreadsType
<1>1. /\ r.memory \in {"none", "allocated", "freed"} /\ r.linked \in BOOLEAN
      /\ r.detached \in BOOLEAN /\ r.completed \in BOOLEAN /\ r.joining \in BOOLEAN
      /\ r.posts \in Nat /\ r.early \in BOOLEAN
  BY RecordParts
<1>2. ASSUME NEW x \in {"none", "allocated", "freed"}, RecordBecomes(h, WithMemory(r, x))
      PROVE  RecordNow(h, x, r.linked, r.detached, r.completed, r.joining, r.posts, r.early)
  <2>1. WithMemory(r, x) = RecordOf(x, r.linked, r.detached, r.completed, r.joining,
                                    r.posts, r.early)
    BY RecordWith
  <2>2. RecordFields(x, r.linked, r.detached, r.completed, r.joining, r.posts, r.early)
    BY <1>1 DEF RecordFields
  <2>3. RecordBecomes(h, RecordOf(x, r.linked, r.detached, r.completed, r.joining, r.posts, r.early))
    BY <1>2, <2>1
  <2> QED BY <2>2, <2>3, RecordBecame
<1>3. ASSUME NEW x \in BOOLEAN, RecordBecomes(h, WithLinked(r, x))
      PROVE  RecordNow(h, r.memory, x, r.detached, r.completed, r.joining, r.posts, r.early)
  <2>1. WithLinked(r, x) = RecordOf(r.memory, x, r.detached, r.completed, r.joining,
                                    r.posts, r.early)
    BY RecordWith
  <2>2. RecordFields(r.memory, x, r.detached, r.completed, r.joining, r.posts, r.early)
    BY <1>1 DEF RecordFields
  <2>3. RecordBecomes(h, RecordOf(r.memory, x, r.detached, r.completed, r.joining, r.posts, r.early))
    BY <1>3, <2>1
  <2> QED BY <2>2, <2>3, RecordBecame
<1>4. ASSUME NEW x \in BOOLEAN, RecordBecomes(h, WithJoining(r, x))
      PROVE  RecordNow(h, r.memory, r.linked, r.detached, r.completed, x, r.posts, r.early)
  <2>1. WithJoining(r, x) = RecordOf(r.memory, r.linked, r.detached, r.completed, x,
                                     r.posts, r.early)
    BY RecordWith
  <2>2. RecordFields(r.memory, r.linked, r.detached, r.completed, x, r.posts, r.early)
    BY <1>1 DEF RecordFields
  <2>3. RecordBecomes(h, RecordOf(r.memory, r.linked, r.detached, r.completed, x, r.posts, r.early))
    BY <1>4, <2>1
  <2> QED BY <2>2, <2>3, RecordBecame
<1>5. ASSUME NEW x \in Nat, RecordBecomes(h, WithPosts(r, x))
      PROVE  RecordNow(h, r.memory, r.linked, r.detached, r.completed, r.joining, x, r.early)
  <2>1. WithPosts(r, x) = RecordOf(r.memory, r.linked, r.detached, r.completed, r.joining,
                                   x, r.early)
    BY RecordWith
  <2>2. RecordFields(r.memory, r.linked, r.detached, r.completed, r.joining, x, r.early)
    BY <1>1 DEF RecordFields
  <2>3. RecordBecomes(h, RecordOf(r.memory, r.linked, r.detached, r.completed, r.joining, x, r.early))
    BY <1>5, <2>1
  <2> QED BY <2>2, <2>3, RecordBecame
<1>6. ASSUME NEW x \in BOOLEAN, RecordBecomes(h, WithEarly(r, x))
      PROVE  RecordNow(h, r.memory, r.linked, r.detached, r.completed, r.joining, r.posts, x)
  <2>1. WithEarly(r, x) = RecordOf(r.memory, r.linked, r.detached, r.completed, r.joining,
                                   r.posts, x)
    BY RecordWith
  <2>2. RecordFields(r.memory, r.linked, r.detached, r.completed, r.joining, r.posts, x)
    BY <1>1 DEF RecordFields
  <2>3. RecordBecomes(h, RecordOf(r.memory, r.linked, r.detached, r.completed, r.joining, r.posts, x))
    BY <1>6, <2>1
  <2> QED BY <2>2, <2>3, RecordBecame
<1> QED BY <1>2, <1>3, <1>4, <1>5, <1>6

\* Two fields of it are assigned.
LEMMA RecordAssignedTwo ==
    ASSUME ThreadsType, NEW h \in Tasks
    PROVE  LET r == rec[h]
           IN  /\ \A x \in {"none", "allocated", "freed"}, y \in BOOLEAN :
                     rec' = [rec EXCEPT ![h].memory = x, ![h].detached = y] =>
                     RecordNow(h, x, r.linked, y, r.completed, r.joining, r.posts, r.early)
               /\ \A x \in BOOLEAN, y \in BOOLEAN :
                     rec' = [rec EXCEPT ![h].completed = x, ![h].early = y] =>
                     RecordNow(h, r.memory, r.linked, r.detached, x, r.joining, r.posts, y)
               /\ \A x \in BOOLEAN, y \in BOOLEAN :
                     rec' = [rec EXCEPT ![h].detached = x, ![h].linked = y] =>
                     RecordNow(h, r.memory, y, x, r.completed, r.joining, r.posts, r.early)
<1> PICK r \in RecordType : r = rec[h]
  BY DEF ThreadsType
<1>1. /\ r.memory \in {"none", "allocated", "freed"} /\ r.linked \in BOOLEAN
      /\ r.detached \in BOOLEAN /\ r.completed \in BOOLEAN /\ r.joining \in BOOLEAN
      /\ r.posts \in Nat /\ r.early \in BOOLEAN
  BY RecordParts
<1>2. rec \in [Tasks -> RecordType]
  BY DEF ThreadsType
<1>3. ASSUME NEW x \in {"none", "allocated", "freed"}, NEW y \in BOOLEAN,
             rec' = [rec EXCEPT ![h].memory = x, ![h].detached = y]
      PROVE  RecordNow(h, x, r.linked, y, r.completed, r.joining, r.posts, r.early)
  <2> DEFINE f == [rec EXCEPT ![h].memory = x]
  <2>1. f = [rec EXCEPT ![h] = WithMemory(r, x)]
    BY DEF WithMemory
  <2>2. rec' = [f EXCEPT ![h].detached = y]
    BY <1>3
  <2> HIDE DEF f
  <2> PICK v : v = WithMemory(r, x)
    OBVIOUS
  <2>3. v = RecordOf(x, r.linked, r.detached, r.completed, r.joining, r.posts, r.early)
    BY RecordWith
  <2>4. /\ v \in RecordType /\ v.memory = x /\ v.linked = r.linked
        /\ v.completed = r.completed /\ v.joining = r.joining /\ v.posts = r.posts
        /\ v.early = r.early
    BY <1>1, <2>3, RecordOfFields
  <2>5. f[h] = v /\ rec' = [f EXCEPT ![h] = WithDetached(v, y)]
    <3>1. f[h] = v
      BY <1>2, <2>1
    <3> QED BY <2>2, <3>1 DEF WithDetached
  <2>6. WithDetached(v, y) = RecordOf(v.memory, v.linked, y, v.completed, v.joining,
                                      v.posts, v.early)
    BY <2>4, RecordWith
  <2>7. RecordBecomes(h, RecordOf(x, r.linked, y, r.completed, r.joining, r.posts, r.early))
    BY <1>2, <2>1, <2>4, <2>5, <2>6 DEF RecordBecomes
  <2>8. RecordFields(x, r.linked, y, r.completed, r.joining, r.posts, r.early)
    BY <1>1 DEF RecordFields
  <2> QED BY <2>7, <2>8, RecordBecame
<1>4. ASSUME NEW x \in BOOLEAN, NEW y \in BOOLEAN,
             rec' = [rec EXCEPT ![h].completed = x, ![h].early = y]
      PROVE  RecordNow(h, r.memory, r.linked, r.detached, x, r.joining, r.posts, y)
  <2> DEFINE f == [rec EXCEPT ![h].completed = x]
  <2>1. f = [rec EXCEPT ![h] = WithCompleted(r, x)]
    BY DEF WithCompleted
  <2>2. rec' = [f EXCEPT ![h].early = y]
    BY <1>4
  <2> HIDE DEF f
  <2> PICK v : v = WithCompleted(r, x)
    OBVIOUS
  <2>3. v = RecordOf(r.memory, r.linked, r.detached, x, r.joining, r.posts, r.early)
    BY RecordWith
  <2>4. /\ v \in RecordType /\ v.memory = r.memory /\ v.linked = r.linked
        /\ v.detached = r.detached /\ v.completed = x /\ v.joining = r.joining
        /\ v.posts = r.posts
    BY <1>1, <2>3, RecordOfFields
  <2>5. f[h] = v /\ rec' = [f EXCEPT ![h] = WithEarly(v, y)]
    <3>1. f[h] = v
      BY <1>2, <2>1
    <3> QED BY <2>2, <3>1 DEF WithEarly
  <2>6. WithEarly(v, y) = RecordOf(v.memory, v.linked, v.detached, v.completed, v.joining,
                                   v.posts, y)
    BY <2>4, RecordWith
  <2>7. RecordBecomes(h, RecordOf(r.memory, r.linked, r.detached, x, r.joining, r.posts, y))
    BY <1>2, <2>1, <2>4, <2>5, <2>6 DEF RecordBecomes
  <2>8. RecordFields(r.memory, r.linked, r.detached, x, r.joining, r.posts, y)
    BY <1>1 DEF RecordFields
  <2> QED BY <2>7, <2>8, RecordBecame
<1>5. ASSUME NEW x \in BOOLEAN, NEW y \in BOOLEAN,
             rec' = [rec EXCEPT ![h].detached = x, ![h].linked = y]
      PROVE  RecordNow(h, r.memory, y, x, r.completed, r.joining, r.posts, r.early)
  <2> DEFINE f == [rec EXCEPT ![h].detached = x]
  <2>1. f = [rec EXCEPT ![h] = WithDetached(r, x)]
    BY DEF WithDetached
  <2>2. rec' = [f EXCEPT ![h].linked = y]
    BY <1>5
  <2> HIDE DEF f
  <2> PICK v : v = WithDetached(r, x)
    OBVIOUS
  <2>3. v = RecordOf(r.memory, r.linked, x, r.completed, r.joining, r.posts, r.early)
    BY RecordWith
  <2>4. /\ v \in RecordType /\ v.memory = r.memory /\ v.detached = x
        /\ v.completed = r.completed /\ v.joining = r.joining /\ v.posts = r.posts
        /\ v.early = r.early
    BY <1>1, <2>3, RecordOfFields
  <2>5. f[h] = v /\ rec' = [f EXCEPT ![h] = WithLinked(v, y)]
    <3>1. f[h] = v
      BY <1>2, <2>1
    <3> QED BY <2>2, <3>1 DEF WithLinked
  <2>6. WithLinked(v, y) = RecordOf(v.memory, y, v.detached, v.completed, v.joining,
                                    v.posts, v.early)
    BY <2>4, RecordWith
  <2>7. RecordBecomes(h, RecordOf(r.memory, y, x, r.completed, r.joining, r.posts, r.early))
    BY <1>2, <2>1, <2>4, <2>5, <2>6 DEF RecordBecomes
  <2>8. RecordFields(r.memory, y, x, r.completed, r.joining, r.posts, r.early)
    BY <1>1 DEF RecordFields
  <2> QED BY <2>7, <2>8, RecordBecame
<1> QED BY <1>3, <1>4, <1>5

ThreadOps == {"link", "post", "await", "joining", "unlink", "free"}

LEMMA ThreadGoto ==
    ASSUME ThreadsType, NEW t \in Tasks, NEW c \in ThreadCalls, Goto(t, c)
    PROVE  /\ call' \in [Tasks -> ThreadCalls]
           /\ call'[t] = c
           /\ \A u \in Tasks \ {t} : call'[u] = call[u]
BY DEF Goto, ThreadsType

LEMMA ThreadUses ==
    ASSUME ThreadsType, NEW t \in Tasks, NEW op \in ThreadOps, NEW h \in Tasks,
           Use(t, op, h)
    PROVE  /\ call' \in [Tasks -> ThreadCalls]
           /\ call'[t].op = op /\ call'[t].on = h
           /\ \A u \in Tasks \ {t} : call'[u] = call[u]
<1> DEFINE c == [op |-> op, what |-> "thread", on |-> h, detached |-> FALSE]
<1>1. c \in ThreadCalls /\ c.op = op /\ c.on = h
  BY DEF ThreadCalls, ThreadRecords, ThreadOps
<1>2. Goto(t, c)
  BY DEF Use
<1> QED BY <1>1, <1>2, ThreadGoto

LEMMA ThreadReturns ==
    ASSUME ThreadsType, NEW t \in Tasks, Return(t)
    PROVE  /\ call' \in [Tasks -> ThreadCalls]
           /\ call'[t].op = "none"
           /\ \A u \in Tasks \ {t} : call'[u] = call[u]
<1>1. NoCall \in ThreadCalls /\ NoCall.op = "none"
  BY DEF ThreadCalls, NoCall
<1> QED BY <1>1, ThreadGoto DEF Return

LEMMA ThreadAt ==
    ASSUME ThreadsType, NEW t \in Tasks, call[t].op \in ThreadOps
    PROVE  call[t].on \in Tasks
<1>1. call[t] \in ThreadCalls /\ NoCall.op = "none"
  BY DEF ThreadsType, NoCall
<1> QED BY <1>1 DEF ThreadCalls, ThreadRecords, ThreadOps

LEMMA ThreadIsFree ==
    ASSUME ThreadsType, NEW t \in Tasks, Free(t)
    PROVE  w.mode[t] = "active" /\ call[t].op = "none"
BY DEF Free, NoCall

\* The step is not about the record of h.
IsAbout(u, h) == call[u].op # "none" /\ call[u].on = h

Elsewhere(h) ==
    /\ rec'[h] = rec[h]
    /\ \A u \in Tasks : call'[u] = call[u] \/ (~IsAbout(u, h) /\ ~IsAbout(u, h)')
    /\ \A u \in Tasks : IsAbout(u, h) =>
          w'.mode[u] = w.mode[u] /\ w'.result[u] = w.result[u]
    /\ w'.mode[h] = "off" <=> w.mode[h] = "off"

LEMMA RecordElsewhere ==
    ASSUME NEW h \in Tasks, RecordFit(h), Elsewhere(h)
    PROVE  RecordFit(h)'
<1>1. \A u \in Tasks : \A ops : "none" \notin ops => (Uses(u, h, ops)' <=> Uses(u, h, ops))
  BY DEF Elsewhere, IsAbout, Uses
<1>2. /\ \A u \in Tasks : Uses(u, h, {"link"})' <=> Uses(u, h, {"link"})
      /\ \A u \in Tasks : Uses(u, h, {"post"})' <=> Uses(u, h, {"post"})
      /\ \A u \in Tasks : Uses(u, h, {"free"})' <=> Uses(u, h, {"free"})
      /\ \A u \in Tasks : Uses(u, h, {"unlink"})' <=> Uses(u, h, {"unlink"})
      /\ \A u \in Tasks : Uses(u, h, {"joining", "unlink"})' <=> Uses(u, h, {"joining", "unlink"})
      /\ \A u \in Tasks : Uses(u, h, {"await", "joining"})' <=> Uses(u, h, {"await", "joining"})
      /\ \A u \in Tasks : Uses(u, h, {"post", "unlink", "free"})' <=> Uses(u, h, {"post", "unlink", "free"})
      /\ \A u \in Tasks : Uses(u, h, {"unlink", "free", "await", "joining"})'
                             <=> Uses(u, h, {"unlink", "free", "await", "joining"})
  BY <1>1
<1>3. /\ \A u \in Tasks : Holds(u, h)' <=> Holds(u, h)
      /\ Nobody(h)' <=> Nobody(h)
      /\ Posting(h)' <=> Posting(h)
      /\ NotLinking(h)' <=> NotLinking(h)
  BY <1>2 DEF Holds, Nobody, Posting, NotLinking
<1>4. /\ \A u \in Tasks : Alone(u, h, {"free"})' <=> Alone(u, h, {"free"})
      /\ \A u \in Tasks : Alone(u, h, {"unlink"})' <=> Alone(u, h, {"unlink"})
      /\ \A u \in Tasks : Alone(u, h, {"joining", "unlink"})' <=> Alone(u, h, {"joining", "unlink"})
      /\ \A u \in Tasks : Alone(u, h, {"await", "joining"})' <=> Alone(u, h, {"await", "joining"})
  BY <1>2, <1>3 DEF Alone
<1>5. \A u \in Tasks : Alone(u, h, {"joining", "unlink"}) \/ Alone(u, h, {"await", "joining"})
                       \/ Alone(u, h, {"unlink"}) \/ Alone(u, h, {"free"}) \/ Uses(u, h, {"post"}) =>
         call'[u] = call[u] /\ w'.mode[u] = w.mode[u] /\ w'.result[u] = w.result[u]
  BY DEF Elsewhere, IsAbout, Alone, Uses
<1>6. \A u \in Tasks : Unanswered(u, h)' <=> Unanswered(u, h)
  BY <1>4, <1>5 DEF Unanswered
<1>7. rec'[h] = rec[h] /\ (w'.mode[h] = "off" <=> w.mode[h] = "off")
  BY DEF Elsewhere
<1>8. Joinable(h)' <=> Joinable(h)
  BY <1>3, <1>6, <1>7 DEF Joinable
<1>9. Posting(h) => call'[h].detached = call[h].detached
  BY <1>5 DEF Posting
<1>10. CASE EndedEarly(h)
  BY <1>2, <1>7, <1>10 DEF EndedEarly, RecordFit
<1>11. CASE Unused(h) /\ ~rec[h].early
  BY <1>3, <1>7, <1>11 DEF Unused, Stage, RecordFit
<1>12. CASE Starting(h) /\ ~rec[h].early
  BY <1>2, <1>3, <1>7, <1>12 DEF Starting, Stage, RecordFit
<1>13. CASE Running(h) /\ ~rec[h].early
  BY <1>3, <1>7, <1>8, <1>13 DEF Running, Stage, RecordFit
<1>14. CASE Ending(h) /\ ~rec[h].early
  BY <1>3, <1>7, <1>8, <1>9, <1>14 DEF Ending, Stage, RecordFit
<1>15. CASE Detached(h) /\ ~rec[h].early
  BY <1>3, <1>4, <1>7, <1>9, <1>15 DEF Detached, Stage, RecordFit
<1>16. CASE Kept(h) /\ ~rec[h].early
  <2>1. Kept(h)'
    BY <1>3, <1>4, <1>5, <1>6, <1>7, <1>16 DEF Kept, Unanswered
  <2> QED BY <1>7, <1>16, <2>1 DEF Stage, RecordFit
<1>17. CASE Unlinked(h) /\ ~rec[h].early
  BY <1>3, <1>4, <1>7, <1>17 DEF Unlinked, Stage, RecordFit
<1>18. CASE EndingItself(h) /\ ~rec[h].early
  BY <1>3, <1>4, <1>5, <1>7, <1>18 DEF EndingItself, Stage, RecordFit
<1>19. CASE Freed(h) /\ ~rec[h].early
  BY <1>3, <1>7, <1>19 DEF Freed, Stage, RecordFit
<1> QED BY <1>10, <1>11, <1>12, <1>13, <1>14, <1>15, <1>16, <1>17, <1>18, <1>19
        DEF RecordFit, Stage

\* A task that holds a record is where its stage says.
LEMMA StageOf ==
    ASSUME NEW h \in Tasks, Stage(h), NEW t \in Tasks
    PROVE  /\ Uses(t, h, {"link"}) => Starting(h)
           /\ Uses(t, h, {"unlink"}) => (Kept(h) /\ rec[h].posts = 0) \/ EndingItself(h)
           /\ Uses(t, h, {"free"}) => Detached(h) \/ Unlinked(h) \/ EndingItself(h)
           /\ Uses(t, h, {"await"}) => Running(h) \/ Ending(h) \/ (Kept(h) /\ rec[h].posts = 1)
           /\ Uses(t, h, {"joining"}) => Running(h) \/ Ending(h) \/ Kept(h)
           /\ Holds(t, h) => \A u \in Tasks : Holds(u, h) => u = t
<1> USE DEF Uses
<1>1. CASE Unused(h)
  BY <1>1 DEF Unused, Nobody, NotLinking, Holds
<1>2. CASE Starting(h)
  BY <1>2 DEF Starting, Nobody, Holds
<1>3. CASE Running(h)
  BY <1>3 DEF Running, Joinable, Unanswered, Alone, Nobody, NotLinking, Holds
<1>4. CASE Ending(h)
  BY <1>4 DEF Ending, Joinable, Unanswered, Alone, Nobody, NotLinking, Holds
<1>5. CASE Detached(h)
  BY <1>5 DEF Detached, Alone, Nobody, NotLinking, Holds
<1>6. CASE Kept(h)
  BY <1>6 DEF Kept, Unanswered, Alone, Nobody, NotLinking, Holds
<1>7. CASE Unlinked(h)
  BY <1>7 DEF Unlinked, Alone, NotLinking, Holds
<1>8. CASE EndingItself(h)
  BY <1>8 DEF EndingItself, Alone, NotLinking, Holds
<1>9. CASE Freed(h)
  BY <1>9 DEF Freed, Nobody, NotLinking, Holds
<1> QED BY <1>1, <1>2, <1>3, <1>4, <1>5, <1>6, <1>7, <1>8, <1>9 DEF Stage

\* One task takes a step that is about the record of h, and blocks or wakes
\* nobody.
QuietStep(t, h) ==
    /\ UNCHANGED w /\ w.mode[t] = "active"
    /\ call' \in [Tasks -> ThreadCalls]
    /\ \A u \in Tasks \ {t} : call'[u] = call[u]
    /\ call[t].op = "none" \/ call[t].on = h
    /\ call'[t].op = "none" \/ call'[t].on = h
    /\ call'[t].op = "post" => call'[t].on = t
    /\ rec' \in [Tasks -> RecordType]
    /\ \A g \in Tasks \ {h} : rec'[g] = rec[g]

LEMMA QuietStepFits ==
    ASSUME RecordsInv, NEW t \in Tasks, NEW h \in Tasks, QuietStep(t, h), RecordFit(h)'
    PROVE  RecordsInv'
<1>1. ThreadsType'
  BY DEF RecordsInv, ThreadsType, QuietStep
<1>2. JoinsFit'
  BY DEF RecordsInv, JoinsFit, QuietStep
<1>3. ASSUME NEW g \in Tasks \ {h}
      PROVE  RecordFit(g)'
  <2>1. RecordFit(g)
    BY DEF RecordsInv
  <2>2. Elsewhere(g)
    BY DEF QuietStep, Elsewhere, IsAbout
  <2> QED BY <2>1, <2>2, RecordElsewhere
<1> QED BY <1>1, <1>2, <1>3 DEF RecordsInv

\* The record of a thread goes into the list.
LEMMA ThreadLinkStep ==
    ASSUME RecordsInv, NEW t \in Tasks, ThreadLink(t)
    PROVE  RecordsInv'
<1>1. /\ w.mode[t] = "active" /\ call[t].op = "link" /\ Return(t) /\ UNCHANGED w
      /\ rec' = [rec EXCEPT ![call[t].on].linked = TRUE]
  BY DEF ThreadLink, At
<1>2. PICK h \in Tasks : h = call[t].on
  BY <1>1, ThreadAt DEF RecordsInv, ThreadOps
<1> PICK r : r = rec[h]
  OBVIOUS
<1>3. RecordNow(h, r.memory, TRUE, r.detached, r.completed, r.joining, r.posts, r.early)
  <2>1. RecordBecomes(h, WithLinked(r, TRUE))
    BY <1>1, <1>2 DEF RecordBecomes, WithLinked
  <2> QED BY <2>1, RecordAssigned DEF RecordsInv
<1>4. /\ call' \in [Tasks -> ThreadCalls] /\ call'[t].op = "none"
      /\ \A u \in Tasks \ {t} : call'[u] = call[u]
  BY <1>1, ThreadReturns DEF RecordsInv
<1>5. RecordFit(h)'
  <2>1. CASE EndedEarly(h)
    BY <1>1, <1>3, <1>4, <2>1 DEF EndedEarly, RecordFit, RecordNow, Uses
  <2>2. CASE ~rec[h].early /\ Stage(h)
    <3>1. Uses(t, h, {"link"})
      BY <1>1, <1>2 DEF Uses
    <3>2. Starting(h)
      BY <2>2, <3>1, StageOf
    <3>3. \A u \in Tasks : ~Uses(u, h, {"link"})'
      BY <1>4, <3>1, <3>2 DEF Starting, Uses
    <3>4. Nobody(h)' /\ ~Posting(h)'
      BY <1>4, <3>2 DEF Starting, Nobody, Holds, Posting, Uses
    <3>5. Running(h)'
      BY <1>1, <1>3, <3>2, <3>3, <3>4
         DEF Starting, Running, Joinable, NotLinking, RecordNow
    <3> QED BY <1>3, <2>2, <3>5 DEF RecordFit, Stage, RecordNow
  <2> QED BY <2>1, <2>2 DEF RecordsInv, RecordFit
<1>6. QuietStep(t, h)
  BY <1>1, <1>2, <1>3, <1>4 DEF QuietStep, RecordNow
<1> QED BY <1>5, <1>6, QuietStepFits

\* thread_complete, up to the post.
LEMMA ThreadCompleteStep ==
    ASSUME RecordsInv, NEW t \in Tasks, Free(t), rec[t].memory # "none", ThreadComplete(t)
    PROVE  RecordsInv'
<1>1. w.mode[t] = "active" /\ call[t].op = "none" /\ UNCHANGED w
  BY ThreadIsFree DEF RecordsInv, ThreadComplete
<1> PICK r : r = rec[t]
  OBVIOUS
<1>2. r \in RecordType /\ r.linked \in BOOLEAN
  BY RecordParts DEF RecordsInv, ThreadsType
<1>3. RecordNow(t, r.memory, r.linked, r.detached, TRUE, r.joining, r.posts, ~r.linked)
  <2>1. PICK x \in BOOLEAN, y \in BOOLEAN : x = TRUE /\ y = ~r.linked
    BY <1>2
  <2>2. rec' = [rec EXCEPT ![t].completed = TRUE, ![t].early = ~r.linked]
    BY DEF ThreadComplete
  <2>3. rec' = [rec EXCEPT ![t].completed = x, ![t].early = y]
    BY Zenon, <2>1, <2>2
  <2>4. RecordNow(t, r.memory, r.linked, r.detached, x, r.joining, r.posts, y)
    BY <2>3, RecordAssignedTwo DEF RecordsInv
  <2> QED BY Zenon, <2>1, <2>4
<1>4. /\ call' \in [Tasks -> ThreadCalls] /\ call'[t].op = "post" /\ call'[t].on = t
      /\ call'[t].detached = rec[t].detached
      /\ \A u \in Tasks \ {t} : call'[u] = call[u]
  <2> DEFINE c == [op |-> "post", what |-> "thread", on |-> t, detached |-> rec[t].detached]
  <2>1. c \in ThreadCalls /\ c.op = "post" /\ c.on = t /\ c.detached = rec[t].detached
    BY <1>2, RecordParts DEF ThreadCalls, ThreadRecords
  <2>2. Goto(t, c)
    BY DEF ThreadComplete
  <2> HIDE DEF c
  <2> QED BY <2>1, <2>2, ThreadGoto DEF RecordsInv
<1>5. RecordFit(t)'
  <2>1. CASE ~r.linked
    BY <1>1, <1>3, <1>4, <2>1 DEF EndedEarly, RecordFit, RecordNow, Uses
  <2>2. CASE r.linked
    <3>1. ~EndedEarly(t)
      BY <1>1 DEF EndedEarly, Uses
    <3>2. Stage(t)
      BY <3>1 DEF RecordsInv, RecordFit
    <3>3. \A ops : ~Uses(t, t, ops) \/ "none" \in ops
      BY <1>1 DEF Uses
    <3>4. Running(t)
      <4>1. ~Unused(t) /\ ~Kept(t) /\ ~Unlinked(t) /\ ~Freed(t) /\ ~Starting(t)
        BY <1>1, <2>2 DEF Unused, Kept, Unlinked, Freed, Starting, NoRecord
      <4>2. ~Ending(t) /\ ~Detached(t)
        BY <1>1 DEF Ending, Detached, Posting, Uses
      <4>3. ~EndingItself(t)
        BY <1>1 DEF EndingItself, Alone, Uses
      <4> QED BY <3>2, <4>1, <4>2, <4>3 DEF Stage
    <3>5. \A u \in Tasks : Holds(u, t)' <=> Holds(u, t)
      BY <1>1, <1>4 DEF Holds, Uses
    <3>6. \A u \in Tasks : Unanswered(u, t) => Unanswered(u, t)'
      BY <1>1, <1>4, <3>5 DEF Unanswered, Alone, Uses
    <3>7. Joinable(t)'
      BY <1>3, <3>4, <3>5, <3>6 DEF Running, Joinable, Nobody, RecordNow
    <3>8. NotLinking(t)' /\ Posting(t)'
      BY <1>4, <3>4 DEF Running, NotLinking, Posting, Uses
    <3>9. Ending(t)'
      BY <1>3, <1>4, <2>2, <3>4, <3>7, <3>8 DEF Running, Ending, RecordNow
    <3> QED BY <1>3, <2>2, <3>9 DEF RecordFit, Stage, RecordNow
  <2> QED BY <2>1, <2>2
<1>6. QuietStep(t, t)
  BY <1>1, <1>3, <1>4 DEF QuietStep, RecordNow
<1> QED BY <1>5, <1>6, QuietStepFits

\* The record is taken out of the list.
LEMMA ThreadUnlinkStep ==
    ASSUME RecordsInv, NEW t \in Tasks, ThreadUnlink(t)
    PROVE  RecordsInv'
<1>1. /\ w.mode[t] = "active" /\ call[t].op = "unlink" /\ UNCHANGED w
      /\ Use(t, "free", call[t].on)
      /\ rec' = [rec EXCEPT ![call[t].on].linked = FALSE]
  BY DEF ThreadUnlink, At
<1>2. PICK h \in Tasks : h = call[t].on
  BY <1>1, ThreadAt DEF RecordsInv, ThreadOps
<1> PICK r : r = rec[h]
  OBVIOUS
<1>3. RecordNow(h, r.memory, FALSE, r.detached, r.completed, r.joining, r.posts, r.early)
  <2>1. RecordBecomes(h, WithLinked(r, FALSE))
    BY <1>1, <1>2 DEF RecordBecomes, WithLinked
  <2> QED BY <2>1, RecordAssigned DEF RecordsInv
<1>4. /\ call' \in [Tasks -> ThreadCalls] /\ call'[t].op = "free" /\ call'[t].on = h
      /\ \A u \in Tasks \ {t} : call'[u] = call[u]
  BY <1>1, <1>2, ThreadUses DEF RecordsInv, ThreadOps
<1>5. RecordFit(h)'
  <2>1. CASE EndedEarly(h)
    BY <1>1, <1>3, <1>4, <2>1 DEF EndedEarly, RecordFit, RecordNow, Uses
  <2>2. CASE ~rec[h].early /\ Stage(h)
    <3>1. Uses(t, h, {"unlink"}) /\ Holds(t, h)
      BY <1>1, <1>2 DEF Uses, Holds
    <3>2. \A u \in Tasks : Holds(u, h) => u = t
      BY <2>2, <3>1, StageOf
    <3>3. Alone(t, h, {"free"})'
      BY <1>4, <3>2 DEF Alone, Holds, Uses
    <3>4. ASSUME NotLinking(h) PROVE NotLinking(h)'
      BY <1>4, <3>4 DEF NotLinking, Uses
    <3>5. CASE Kept(h)
      <4>1. ~Posting(h)'
        BY <1>4, <3>5 DEF Kept, Posting, Uses
      <4>2. Unlinked(h)'
        BY <1>1, <1>3, <3>3, <3>4, <3>5, <4>1 DEF Kept, Unlinked, RecordNow
      <4> QED BY <1>3, <2>2, <4>2 DEF RecordFit, Stage, RecordNow
    <3>6. CASE EndingItself(h)
      <4>1. t = h
        BY <3>2, <3>6 DEF EndingItself, Alone, Uses, Holds
      <4>2. EndingItself(h)'
        BY <1>1, <1>3, <3>3, <3>4, <3>6, <4>1 DEF EndingItself, RecordNow
      <4> QED BY <1>3, <2>2, <4>2 DEF RecordFit, Stage, RecordNow
    <3> QED BY <2>2, <3>1, <3>5, <3>6, StageOf
  <2> QED BY <2>1, <2>2 DEF RecordsInv, RecordFit
<1>6. QuietStep(t, h)
  BY <1>1, <1>2, <1>3, <1>4 DEF QuietStep, RecordNow
<1> QED BY <1>5, <1>6, QuietStepFits

LEMMA StepFits ==
    ASSUME RecordsInv, NEW h \in Tasks,
           w' \in WaitingType, call' \in [Tasks -> ThreadCalls],
           rec' \in [Tasks -> RecordType], JoinsFit',
           \A g \in Tasks \ {h} : Elsewhere(g), RecordFit(h)'
    PROVE  RecordsInv'
<1>1. ThreadsType'
  BY DEF ThreadsType
<1>2. \A g \in Tasks \ {h} : RecordFit(g)'
  BY RecordElsewhere DEF RecordsInv
<1> QED BY <1>1, <1>2 DEF RecordsInv

\* A thread is created, and its record is not in the list yet.
LEMMA ThreadCreateStep ==
    ASSUME RecordsInv, NEW t \in Tasks, NEW h \in Tasks, NEW detached \in BOOLEAN,
           ThreadCreate(t, h, detached)
    PROVE  RecordsInv'
<1>1. /\ w.mode[t] = "active" /\ call[t].op = "none"
      /\ rec[h].memory = "none" /\ w.mode[h] = "off"
      /\ rec' = [rec EXCEPT ![h].memory = "allocated", ![h].detached = detached]
      /\ w' = Unblock(w, h, "active", "OK") /\ Use(t, "link", h)
  BY ThreadIsFree DEF RecordsInv, ThreadCreate
<1>2. /\ w' \in WaitingType /\ w'.on[h] = NoList /\ w'.mode[h] = "active"
      /\ \A u \in Tasks \ {h} :
            w'.on[u] = w.on[u] /\ w'.mode[u] = w.mode[u] /\ w'.result[u] = w.result[u]
  <2>1. w \in WaitingType /\ "active" \in Modes /\ "OK" \in Results
    BY DEF RecordsInv, ThreadsType, Modes, Results
  <2> QED BY <1>1, <2>1, UnblockEffect
<1>3. /\ call' \in [Tasks -> ThreadCalls] /\ call'[t].op = "link" /\ call'[t].on = h
      /\ \A u \in Tasks \ {t} : call'[u] = call[u]
  BY <1>1, ThreadUses DEF RecordsInv, ThreadOps
<1> PICK r : r = rec[h]
  OBVIOUS
<1>4. RecordNow(h, "allocated", r.linked, detached, r.completed, r.joining, r.posts, r.early)
  BY <1>1, RecordAssignedTwo DEF RecordsInv
<1>5. call[h].op = "none" /\ t # h
  BY <1>1 DEF RecordsInv, JoinsFit
<1>6. JoinsFit'
  BY <1>1, <1>2, <1>3, <1>5, PosixThreadAssumption DEF RecordsInv, JoinsFit
<1>7. ASSUME NEW g \in Tasks \ {h}
      PROVE  Elsewhere(g)
  BY <1>1, <1>2, <1>3, <1>4, <1>5 DEF Elsewhere, IsAbout, RecordNow
<1>8. RecordFit(h)'
  <2>1. Unused(h)
    <3>1. Stage(h)
      BY <1>1 DEF RecordsInv, RecordFit, EndedEarly
    <3> QED BY <1>1, <3>1 DEF Stage, Starting, Running, Ending, Detached, Kept, Unlinked,
                              EndingItself, Freed
  <2>2. /\ ~r.linked /\ ~r.completed /\ ~r.joining /\ r.posts = 0 /\ ~r.early
    BY <2>1 DEF Unused, NoRecord
  <2>3. Nobody(h)' /\ ~Posting(h)'
    BY <1>3, <2>1 DEF Unused, Nobody, Posting, Holds, Uses
  <2>4. Uses(t, h, {"link"})' /\ \A u \in Tasks : Uses(u, h, {"link"})' => u = t
    BY <1>3, <2>1 DEF Unused, NotLinking, Uses
  <2>5. Starting(h)'
    BY <1>2, <1>4, <2>2, <2>3, <2>4 DEF Starting, RecordNow
  <2> QED BY <1>4, <2>2, <2>5 DEF RecordFit, Stage, RecordNow
<1>9. rec' \in [Tasks -> RecordType]
  BY <1>4 DEF RecordNow
<1> QED BY <1>2, <1>3, <1>6, <1>7, <1>8, <1>9, StepFits

\* A thread that does not find itself in the list ends without a trace.
LEMMA ThreadExitStep ==
    ASSUME RecordsInv, NEW t \in Tasks, ThreadExit(t)
    PROVE  RecordsInv'
<1>1. w.mode[t] = "active" /\ call[t].op = "none" /\ Free(t)
  BY ThreadIsFree DEF RecordsInv, ThreadExit
<1>2. CASE Found(t)
  <2>1. ThreadComplete(t)
    BY <1>2 DEF ThreadExit
  <2>2. rec[t].memory # "none"
    <3>1. rec[t].linked
      BY <1>2 DEF Found
    <3>2. EndedEarly(t) \/ Stage(t)
      BY DEF RecordsInv, RecordFit
    <3> QED BY <3>1, <3>2 DEF EndedEarly, Stage, Unused, NoRecord, Starting, Running, Ending,
                              Detached, Kept, Unlinked, EndingItself, Freed
  <2> QED BY <1>1, <2>1, <2>2, ThreadCompleteStep
<1>3. CASE ~Found(t)
  <2>1. /\ rec[t].memory # "none" /\ UNCHANGED call
        /\ rec' = [rec EXCEPT ![t].early = TRUE]
        /\ w' = Unblock(w, t, "off", "OK")
    BY <1>3 DEF ThreadExit
  <2>2. /\ w' \in WaitingType /\ w'.on[t] = NoList /\ w'.mode[t] = "off"
        /\ \A u \in Tasks \ {t} :
              w'.on[u] = w.on[u] /\ w'.mode[u] = w.mode[u] /\ w'.result[u] = w.result[u]
    <3>1. w \in WaitingType /\ "off" \in Modes /\ "OK" \in Results
      BY DEF RecordsInv, ThreadsType, Modes, Results
    <3> QED BY <2>1, <3>1, UnblockEffect
  <2> PICK r : r = rec[t]
    OBVIOUS
  <2>3. RecordNow(t, r.memory, r.linked, r.detached, r.completed, r.joining, r.posts, TRUE)
    <3>1. RecordBecomes(t, WithEarly(r, TRUE))
      BY <2>1 DEF RecordBecomes, WithEarly
    <3> QED BY <3>1, RecordAssigned DEF RecordsInv
  <2>4. JoinsFit'
    BY <1>1, <2>1, <2>2 DEF RecordsInv, JoinsFit
  <2>5. ASSUME NEW g \in Tasks \ {t}
        PROVE  Elsewhere(g)
    BY <1>1, <2>1, <2>2, <2>3 DEF Elsewhere, IsAbout, RecordNow
  <2>6. RecordFit(t)'
    BY <2>1, <2>2, <2>3 DEF RecordFit, EndedEarly, RecordNow
  <2>7. rec' \in [Tasks -> RecordType] /\ call' \in [Tasks -> ThreadCalls]
    BY <2>1, <2>3 DEF RecordNow, RecordsInv, ThreadsType
  <2> QED BY <2>2, <2>4, <2>5, <2>6, <2>7, StepFits
<1> QED BY <1>2, <1>3

\* A task that joins a thread has its record alone.
LEMMA JoinStep ==
    ASSUME RecordsInv, NEW t \in Tasks, NEW h \in Tasks, Join(t, h)
    PROVE  RecordsInv'
<1>1. /\ w.mode[t] = "active" /\ call[t].op = "none" /\ t # h /\ rec[h].linked
      /\ ~rec[h].detached /\ ~rec[h].joining /\ UNCHANGED w /\ Use(t, "await", h)
      /\ rec' = [rec EXCEPT ![h].joining = TRUE]
  BY ThreadIsFree DEF RecordsInv, Join, Found
<1> PICK r : r = rec[h]
  OBVIOUS
<1>2. RecordNow(h, r.memory, r.linked, r.detached, r.completed, TRUE, r.posts, r.early)
  <2>1. RecordBecomes(h, WithJoining(r, TRUE))
    BY <1>1 DEF RecordBecomes, WithJoining
  <2> QED BY <2>1, RecordAssigned DEF RecordsInv
<1>3. /\ call' \in [Tasks -> ThreadCalls] /\ call'[t].op = "await" /\ call'[t].on = h
      /\ \A u \in Tasks \ {t} : call'[u] = call[u]
  BY <1>1, ThreadUses DEF RecordsInv, ThreadOps
<1>4. RecordFit(h)'
  <2>1. CASE EndedEarly(h)
    BY <1>1, <1>2, <1>3, <2>1 DEF EndedEarly, RecordFit, RecordNow, Uses
  <2>2. CASE ~rec[h].early /\ Stage(h)
    <3>1. (Running(h) \/ Ending(h) \/ (Kept(h) /\ rec[h].posts = 1)) /\ Nobody(h)
      BY <1>1, <2>2 DEF Stage, Unused, NoRecord, Starting, Running, Ending, Detached, Kept,
                        Unlinked, EndingItself, Freed, Joinable
    <3>2. Unanswered(t, h)'
      BY <1>3, <3>1 DEF Unanswered, Alone, Nobody, Holds, Uses
    <3>3. (NotLinking(h) => NotLinking(h)') /\ (Posting(h)' <=> Posting(h))
      BY <1>1, <1>3 DEF NotLinking, Posting, Uses
    <3>4. CASE Running(h)
      <4>1. Running(h)'
        BY <1>1, <1>2, <3>2, <3>3, <3>4 DEF Running, Joinable, RecordNow
      <4> QED BY <1>2, <2>2, <4>1 DEF RecordFit, Stage, RecordNow
    <3>5. CASE Ending(h)
      <4>1. Ending(h)'
        BY <1>1, <1>2, <1>3, <3>2, <3>3, <3>5 DEF Ending, Joinable, RecordNow
      <4> QED BY <1>2, <2>2, <4>1 DEF RecordFit, Stage, RecordNow
    <3>6. CASE Kept(h) /\ rec[h].posts = 1
      <4>1. Kept(h)'
        BY <1>1, <1>2, <3>2, <3>3, <3>6 DEF Kept, RecordNow
      <4> QED BY <1>2, <2>2, <4>1 DEF RecordFit, Stage, RecordNow
    <3> QED BY <3>1, <3>4, <3>5, <3>6
  <2> QED BY <2>1, <2>2 DEF RecordsInv, RecordFit
<1>5. QuietStep(t, h)
  BY <1>1, <1>2, <1>3 DEF QuietStep, RecordNow
<1> QED BY <1>4, <1>5, QuietStepFits

\* A thread is detached, and freed if it is complete.
LEMMA DetachStep ==
    ASSUME RecordsInv, NEW t \in Tasks, NEW h \in Tasks, Detach(t, h)
    PROVE  RecordsInv'
<1>1. /\ w.mode[t] = "active" /\ call[t].op = "none" /\ rec[h].linked
      /\ ~rec[h].detached /\ ~rec[h].joining /\ UNCHANGED w
      /\ rec' = [rec EXCEPT ![h].detached = TRUE, ![h].linked = ~rec[h].completed]
      /\ IF rec[h].completed THEN Use(t, "free", h) ELSE UNCHANGED call
  BY ThreadIsFree DEF RecordsInv, Detach, Found, Detachable
<1> PICK r : r = rec[h]
  OBVIOUS
<1>2. RecordNow(h, r.memory, ~r.completed, TRUE, r.completed, r.joining, r.posts, r.early)
  <2>0. r.completed \in BOOLEAN
    BY RecordParts DEF RecordsInv, ThreadsType
  <2>1. PICK x \in BOOLEAN, y \in BOOLEAN : x = TRUE /\ y = ~r.completed
    BY <2>0
  <2>2. rec' = [rec EXCEPT ![h].detached = x, ![h].linked = y]
    BY Zenon, <1>1, <2>1
  <2>3. RecordNow(h, r.memory, y, x, r.completed, r.joining, r.posts, r.early)
    BY <2>2, RecordAssignedTwo DEF RecordsInv
  <2> QED BY Zenon, <2>1, <2>3
<1>3. /\ call' \in [Tasks -> ThreadCalls]
      /\ IF r.completed THEN call'[t].op = "free" /\ call'[t].on = h
         ELSE call'[t].op = "none"
      /\ \A u \in Tasks \ {t} : call'[u] = call[u]
  <2>1. CASE r.completed
    BY <1>1, <2>1, ThreadUses DEF RecordsInv, ThreadOps
  <2>2. CASE ~r.completed
    BY <1>1, <2>2 DEF RecordsInv, ThreadsType
  <2> QED BY <2>1, <2>2
<1>4. RecordFit(h)'
  <2>1. CASE EndedEarly(h)
    BY <1>1, <1>2, <1>3, <2>1 DEF EndedEarly, RecordFit, RecordNow, Uses
  <2>2. CASE ~rec[h].early /\ Stage(h)
    <3>1. (Running(h) \/ Ending(h) \/ (Kept(h) /\ rec[h].posts = 1)) /\ Nobody(h)
      BY <1>1, <2>2 DEF Stage, Unused, NoRecord, Starting, Running, Ending, Detached, Kept,
                        Unlinked, EndingItself, Freed, Joinable
    <3>2. (NotLinking(h) => NotLinking(h)') /\ (Posting(h)' <=> Posting(h))
      BY <1>1, <1>3 DEF NotLinking, Posting, Uses
    <3>3. IF r.completed THEN Alone(t, h, {"free"})' ELSE Nobody(h)'
      BY <1>1, <1>3, <3>1 DEF Alone, Nobody, Holds, Uses
    <3>4. CASE Running(h)
      <4>1. Running(h)'
        BY <1>1, <1>2, <3>2, <3>3, <3>4 DEF Running, Joinable, RecordNow
      <4> QED BY <1>2, <2>2, <4>1 DEF RecordFit, Stage, RecordNow
    <3>5. CASE Ending(h)
      <4>1. call'[h] = call[h]
        BY <1>1, <1>3, <3>5 DEF Ending, Posting, Uses
      <4>2. Detached(h)'
        BY <1>1, <1>2, <3>2, <3>3, <3>5, <4>1 DEF Ending, Detached, RecordNow
      <4> QED BY <1>2, <2>2, <4>2 DEF RecordFit, Stage, RecordNow
    <3>6. CASE Kept(h) /\ rec[h].posts = 1
      <4>1. Unlinked(h)'
        BY <1>1, <1>2, <3>2, <3>3, <3>6 DEF Kept, Unlinked, RecordNow
      <4> QED BY <1>2, <2>2, <4>1 DEF RecordFit, Stage, RecordNow
    <3> QED BY <3>1, <3>4, <3>5, <3>6
  <2> QED BY <2>1, <2>2 DEF RecordsInv, RecordFit
<1>5. QuietStep(t, h)
  BY <1>1, <1>2, <1>3 DEF QuietStep, RecordNow
<1> QED BY <1>4, <1>5, QuietStepFits

\* The end of a join begins: the thread has ended, or the task waits for it.
LEMMA JoinWaitStep ==
    ASSUME RecordsInv, NEW t \in Tasks, JoinWait(t)
    PROVE  RecordsInv'
<1>1. w.mode[t] = "active" /\ call[t].op = "await"
  BY DEF JoinWait, At
<1>2. PICK h \in Tasks : h = call[t].on
  BY <1>1, ThreadAt DEF RecordsInv, ThreadOps
<1> PICK r : r = rec[h]
  OBVIOUS
<1>3. Uses(t, h, {"await"}) /\ Holds(t, h)
  BY <1>1, <1>2 DEF Uses, Holds
<1>4. CASE r.posts > 0
  <2>1. /\ UNCHANGED w /\ Use(t, "unlink", h)
        /\ rec' = [rec EXCEPT ![h].posts = r.posts - 1]
    BY <1>2, <1>4 DEF JoinWait
  <2>2. /\ call' \in [Tasks -> ThreadCalls] /\ call'[t].op = "unlink" /\ call'[t].on = h
        /\ \A u \in Tasks \ {t} : call'[u] = call[u]
    BY <2>1, ThreadUses DEF RecordsInv, ThreadOps
  <2>3. r.posts \in Nat
    BY RecordParts DEF RecordsInv, ThreadsType
  <2> PICK n \in Nat : n = r.posts - 1
    BY <1>4, <2>3
  <2>4. RecordNow(h, r.memory, r.linked, r.detached, r.completed, r.joining, n, r.early)
    <3>1. RecordBecomes(h, WithPosts(r, n))
      BY <2>1 DEF RecordBecomes, WithPosts
    <3> QED BY <3>1, RecordAssigned DEF RecordsInv
  <2>5. RecordFit(h)'
    <3>1. CASE EndedEarly(h)
      BY <1>1, <2>1, <2>2, <2>4, <3>1 DEF EndedEarly, RecordFit, RecordNow, Uses
    <3>2. CASE ~rec[h].early /\ Stage(h)
      <4>1. Kept(h) /\ r.posts = 1
        BY <1>3, <1>4, <3>2, StageOf DEF Running, Ending, Joinable
      <4>2. \A u \in Tasks : Holds(u, h) => u = t
        BY <1>3, <3>2, StageOf
      <4>3. Alone(t, h, {"joining", "unlink"})'
        BY <2>2, <4>2 DEF Alone, Holds, Uses
      <4>4. r.joining
        BY <1>3, <4>1 DEF Kept, Nobody
      <4>5. NotLinking(h)' /\ ~Posting(h)'
        BY <1>1, <2>2, <4>1 DEF Kept, NotLinking, Posting, Uses
      <4>6. Kept(h)'
        BY <1>1, <2>1, <2>2, <2>4, <4>1, <4>3, <4>4, <4>5 DEF Kept, RecordNow
      <4> QED BY <2>4, <3>2, <4>6 DEF RecordFit, Stage, RecordNow
    <3> QED BY <3>1, <3>2 DEF RecordsInv, RecordFit
  <2>6. QuietStep(t, h)
    BY <1>1, <1>2, <2>1, <2>2, <2>4 DEF QuietStep, RecordNow
  <2> QED BY <2>5, <2>6, QuietStepFits
<1>5. CASE ~(r.posts > 0)
  <2>1. UNCHANGED rec /\ Use(t, "joining", h) /\ w' = BlockOn(w, t, h, FALSE)
    BY <1>2, <1>5 DEF JoinWait
  <2>2. /\ call' \in [Tasks -> ThreadCalls] /\ call'[t].op = "joining" /\ call'[t].on = h
        /\ \A u \in Tasks \ {t} : call'[u] = call[u]
    BY <2>1, ThreadUses DEF RecordsInv, ThreadOps
  <2>3. /\ w' \in WaitingType /\ w'.on[t] = h /\ w'.mode[t] = "waiting"
        /\ \A u \in Tasks \ {t} :
              w'.on[u] = w.on[u] /\ w'.mode[u] = w.mode[u] /\ w'.result[u] = w.result[u]
    <3>1. PICK timed \in BOOLEAN : timed = FALSE
      OBVIOUS
    <3>2. w' = BlockOn(w, t, h, timed)
      BY Zenon, <2>1, <3>1
    <3>3. w \in WaitingType /\ h \in WaitLists
      BY PosixThreadAssumption DEF RecordsInv, ThreadsType
    <3> QED BY <3>2, <3>3, BlockEffect
  <2>4. JoinsFit'
    BY <1>1, <2>2, <2>3, PosixThreadAssumption DEF RecordsInv, JoinsFit
  <2>5. ASSUME NEW g \in Tasks \ {h}
        PROVE  Elsewhere(g)
    BY <1>1, <1>2, <2>1, <2>2, <2>3 DEF Elsewhere, IsAbout
  <2>6. RecordFit(h)'
    <3>1. CASE EndedEarly(h)
      BY <1>1, <2>1, <2>2, <2>3, <3>1 DEF EndedEarly, RecordFit, Uses
    <3>2. CASE ~rec[h].early /\ Stage(h)
      <4>1. \A u \in Tasks : Holds(u, h) => u = t
        BY <1>3, <3>2, StageOf
      <4>2. Unanswered(t, h)'
        BY <2>2, <2>3, <4>1 DEF Unanswered, Alone, Holds, Uses
      <4>3. (NotLinking(h) => NotLinking(h)') /\ (Posting(h)' <=> Posting(h))
        BY <1>1, <2>2 DEF NotLinking, Posting, Uses
      <4>4. ASSUME Joinable(h) PROVE Joinable(h)'
        BY <1>3, <2>1, <4>2, <4>4 DEF Joinable, Nobody
      <4>5. w'.mode[h] = "off" <=> w.mode[h] = "off"
        BY <1>1, <2>3
      <4>6. CASE Running(h)
        BY <2>1, <3>2, <4>3, <4>4, <4>5, <4>6 DEF Running, RecordFit, Stage
      <4>7. CASE Ending(h)
        <5>1. call'[h] = call[h]
          BY <1>1, <2>2, <4>7 DEF Ending, Posting, Uses
        <5> QED BY <2>1, <3>2, <4>3, <4>4, <4>7, <5>1 DEF Ending, RecordFit, Stage
      <4> QED BY <1>3, <1>5, <3>2, <4>6, <4>7, StageOf
    <3> QED BY <3>1, <3>2 DEF RecordsInv, RecordFit
  <2>7. rec' \in [Tasks -> RecordType]
    BY <2>1 DEF RecordsInv, ThreadsType
  <2> QED BY <2>2, <2>3, <2>4, <2>5, <2>6, <2>7, StepFits
<1> QED BY <1>4, <1>5

\* The wait of a join has ended.
LEMMA JoinReturnStep ==
    ASSUME RecordsInv, NEW t \in Tasks, JoinReturn(t)
    PROVE  RecordsInv'
<1>1. w.mode[t] = "active" /\ call[t].op = "joining" /\ UNCHANGED w
  BY DEF JoinReturn, At
<1>2. PICK h \in Tasks : h = call[t].on
  BY <1>1, ThreadAt DEF RecordsInv, ThreadOps
<1> PICK r : r = rec[h]
  OBVIOUS
<1>3. Uses(t, h, {"joining"}) /\ Holds(t, h)
  BY <1>1, <1>2 DEF Uses, Holds
<1>4. CASE w.result[t] = "OK"
  <2>1. Use(t, "unlink", h) /\ UNCHANGED rec
    BY <1>2, <1>4 DEF JoinReturn
  <2>2. /\ call' \in [Tasks -> ThreadCalls] /\ call'[t].op = "unlink" /\ call'[t].on = h
        /\ \A u \in Tasks \ {t} : call'[u] = call[u]
    BY <2>1, ThreadUses DEF RecordsInv, ThreadOps
  <2>3. RecordFit(h)'
    <3>1. CASE EndedEarly(h)
      BY <1>1, <2>1, <2>2, <3>1 DEF EndedEarly, RecordFit, Uses
    <3>2. CASE ~rec[h].early /\ Stage(h)
      <4>1. \A u \in Tasks : Holds(u, h) => u = t
        BY <1>3, <3>2, StageOf
      <4>2. \A u \in Tasks : ~Unanswered(u, h)
        BY <1>1, <1>3, <1>4, <4>1 DEF Unanswered, Alone
      <4>3. Kept(h) /\ r.posts = 0 /\ r.joining
        BY <1>3, <3>2, <4>2, StageOf DEF Running, Ending, Joinable, Kept, Nobody
      <4>4. Alone(t, h, {"joining", "unlink"})'
        BY <2>2, <4>1 DEF Alone, Holds, Uses
      <4>5. NotLinking(h)' /\ ~Posting(h)'
        BY <1>1, <2>2, <4>3 DEF Kept, NotLinking, Posting, Uses
      <4>6. Kept(h)'
        BY <1>1, <2>1, <2>2, <4>3, <4>4, <4>5 DEF Kept
      <4> QED BY <2>1, <3>2, <4>6 DEF RecordFit, Stage
    <3> QED BY <3>1, <3>2 DEF RecordsInv, RecordFit
  <2>4. QuietStep(t, h)
    BY <1>1, <1>2, <2>1, <2>2 DEF QuietStep, RecordsInv, ThreadsType
  <2> QED BY <2>3, <2>4, QuietStepFits
<1>5. CASE w.result[t] # "OK"
  <2>1. Return(t) /\ rec' = [rec EXCEPT ![h].joining = FALSE]
    BY <1>2, <1>5 DEF JoinReturn
  <2>2. /\ call' \in [Tasks -> ThreadCalls] /\ call'[t].op = "none"
        /\ \A u \in Tasks \ {t} : call'[u] = call[u]
    BY <2>1, ThreadReturns DEF RecordsInv
  <2>3. RecordNow(h, r.memory, r.linked, r.detached, r.completed, FALSE, r.posts, r.early)
    <3>1. RecordBecomes(h, WithJoining(r, FALSE))
      BY <2>1 DEF RecordBecomes, WithJoining
    <3> QED BY <3>1, RecordAssigned DEF RecordsInv
  <2>4. RecordFit(h)'
    <3>1. CASE EndedEarly(h)
      BY <1>1, <2>2, <2>3, <3>1 DEF EndedEarly, RecordFit, RecordNow, Uses
    <3>2. CASE ~rec[h].early /\ Stage(h)
      <4>1. \A u \in Tasks : Holds(u, h) => u = t
        BY <1>3, <3>2, StageOf
      <4>2. Nobody(h)'
        BY <2>2, <4>1 DEF Nobody, Holds, Uses
      <4>3. (NotLinking(h) => NotLinking(h)') /\ (Posting(h)' <=> Posting(h))
        BY <1>1, <2>2 DEF NotLinking, Posting, Uses
      <4>4. CASE Running(h)
        BY <1>1, <2>3, <3>2, <4>2, <4>3, <4>4
           DEF Running, Joinable, RecordFit, Stage, RecordNow
      <4>5. CASE Ending(h)
        <5>1. call'[h] = call[h]
          BY <1>1, <2>2, <4>5 DEF Ending, Posting, Uses
        <5> QED BY <2>3, <3>2, <4>2, <4>3, <4>5, <5>1
                DEF Ending, Joinable, RecordFit, Stage, RecordNow
      <4>6. CASE Kept(h)
        <5>1. ~\E u \in Tasks :
                 /\ Alone(u, h, {"joining", "unlink"}) /\ w.mode[u] = "active"
                 /\ call[u].op = "joining" => w.result[u] = "OK"
          BY <1>1, <1>5, <4>1 DEF Alone, Uses, Holds
        <5>2. r.posts = 1
          BY <4>6, <5>1 DEF Kept
        <5> QED BY <1>1, <2>3, <3>2, <4>2, <4>3, <4>6, <5>2
                DEF Kept, RecordFit, Stage, RecordNow
      <4> QED BY <1>3, <3>2, <4>4, <4>5, <4>6, StageOf
    <3> QED BY <3>1, <3>2 DEF RecordsInv, RecordFit
  <2>5. QuietStep(t, h)
    BY <1>1, <1>2, <2>2, <2>3 DEF QuietStep, RecordNow
  <2> QED BY <2>4, <2>5, QuietStepFits
<1> QED BY <1>4, <1>5

\* A task that joins a thread is suspended.
LEMMA JoinInterruptedStep ==
    ASSUME RecordsInv, NEW t \in Tasks, Interrupted(t), UNCHANGED <<call, rec>>
    PROVE  RecordsInv'
<1>1. w.mode[t] = "waiting" /\ w' = Unblock(w, t, "active", "INTR")
  BY DEF Interrupted, Wake
<1>2. call[t].op = "joining"
  BY <1>1 DEF RecordsInv, JoinsFit
<1>3. PICK h \in Tasks : h = call[t].on
  BY <1>2, ThreadAt DEF RecordsInv, ThreadOps
<1>4. /\ w' \in WaitingType /\ w'.on[t] = NoList /\ w'.mode[t] = "active"
      /\ w'.result[t] = "INTR"
      /\ \A u \in Tasks \ {t} :
            w'.on[u] = w.on[u] /\ w'.mode[u] = w.mode[u] /\ w'.result[u] = w.result[u]
  <2>1. w \in WaitingType /\ "active" \in Modes /\ "INTR" \in Results
    BY DEF RecordsInv, ThreadsType, Modes, Results
  <2> QED BY <1>1, <2>1, UnblockEffect
<1>5. JoinsFit'
  BY <1>1, <1>4 DEF RecordsInv, JoinsFit
<1>6. ASSUME NEW g \in Tasks \ {h}
      PROVE  Elsewhere(g)
  BY <1>1, <1>3, <1>4 DEF Elsewhere, IsAbout
<1>7. RecordFit(h)'
  <2>1. CASE EndedEarly(h)
    BY <1>1, <1>2, <1>4, <2>1 DEF EndedEarly, RecordFit, Uses
  <2>2. CASE ~rec[h].early /\ Stage(h)
    <3>1. Uses(t, h, {"joining"}) /\ Holds(t, h)
      BY <1>2, <1>3 DEF Uses, Holds
    <3>2. \A u \in Tasks : Holds(u, h) => u = t
      BY <2>2, <3>1, StageOf
    <3>3. Unanswered(t, h)'
      BY <1>2, <1>4, <3>1, <3>2 DEF Unanswered, Alone, Uses, Holds
    <3>4. (NotLinking(h)' <=> NotLinking(h)) /\ (Posting(h)' <=> Posting(h))
      BY DEF NotLinking, Posting, Uses
    <3>5. ASSUME Joinable(h) PROVE Joinable(h)'
      BY <3>1, <3>3, <3>5 DEF Joinable, Nobody
    <3>6. w'.mode[h] = "off" <=> w.mode[h] = "off"
      BY <1>1, <1>4
    <3>7. ~Kept(h)
      BY <1>1, <3>1, <3>2 DEF Kept, Unanswered, Alone, Nobody, Uses, Holds
    <3>8. CASE Running(h)
      BY <2>2, <3>4, <3>5, <3>6, <3>8 DEF Running, RecordFit, Stage
    <3>9. CASE Ending(h)
      BY <2>2, <3>4, <3>5, <3>9 DEF Ending, RecordFit, Stage
    <3> QED BY <2>2, <3>1, <3>7, <3>8, <3>9, StageOf
  <2> QED BY <2>1, <2>2 DEF RecordsInv, RecordFit
<1>8. rec' \in [Tasks -> RecordType] /\ call' \in [Tasks -> ThreadCalls]
  BY DEF RecordsInv, ThreadsType
<1> QED BY <1>4, <1>5, <1>6, <1>7, <1>8, StepFits

\* The record is freed, by another task or by the thread, which then ends.
LEMMA ThreadFreeStep ==
    ASSUME RecordsInv, NEW t \in Tasks, ThreadFree(t)
    PROVE  RecordsInv'
<1>1. /\ w.mode[t] = "active" /\ call[t].op = "free" /\ Return(t)
      /\ rec' = [rec EXCEPT ![call[t].on].memory = "freed"]
      /\ w' = IF call[t].on = t /\ rec[t].completed THEN Unblock(w, t, "off", "OK") ELSE w
  BY DEF ThreadFree, At
<1>2. PICK h \in Tasks : h = call[t].on
  BY <1>1, ThreadAt DEF RecordsInv, ThreadOps
<1> PICK r : r = rec[h]
  OBVIOUS
<1>3. RecordNow(h, "freed", r.linked, r.detached, r.completed, r.joining, r.posts, r.early)
  <2>1. RecordBecomes(h, WithMemory(r, "freed"))
    BY <1>1, <1>2 DEF RecordBecomes, WithMemory
  <2> QED BY <2>1, RecordAssigned DEF RecordsInv
<1>4. /\ call' \in [Tasks -> ThreadCalls] /\ call'[t].op = "none"
      /\ \A u \in Tasks \ {t} : call'[u] = call[u]
  BY <1>1, ThreadReturns DEF RecordsInv
<1>5. Uses(t, h, {"free"}) /\ Holds(t, h)
  BY <1>1, <1>2 DEF Uses, Holds
<1>6. h = t => r.completed
  <2>1. CASE EndedEarly(h)
    BY <1>1, <2>1 DEF EndedEarly
  <2>2. CASE ~rec[h].early /\ Stage(h)
    BY <1>5, <2>2, StageOf DEF Detached, Unlinked, EndingItself
  <2> QED BY <2>1, <2>2 DEF RecordsInv, RecordFit
<1>7. CASE h # t
  <2>1. UNCHANGED w
    BY <1>1, <1>2, <1>7
  <2>2. RecordFit(h)'
    <3>1. CASE EndedEarly(h)
      BY <1>3, <1>4, <1>7, <2>1, <3>1 DEF EndedEarly, RecordFit, RecordNow, Uses
    <3>2. CASE ~rec[h].early /\ Stage(h)
      <4>1. \A u \in Tasks : Holds(u, h) => u = t
        BY <1>5, <3>2, StageOf
      <4>2. Nobody(h)'
        BY <1>4, <4>1 DEF Nobody, Holds, Uses
      <4>3. (NotLinking(h) => NotLinking(h)') /\ (Posting(h)' <=> Posting(h))
            /\ call'[h] = call[h]
        BY <1>1, <1>4, <1>7 DEF NotLinking, Posting, Uses
      <4>4. CASE Detached(h)
        BY <1>3, <3>2, <4>2, <4>3, <4>4 DEF Detached, RecordFit, Stage, RecordNow
      <4>5. CASE Unlinked(h)
        BY <1>3, <2>1, <3>2, <4>2, <4>3, <4>5 DEF Unlinked, Freed, RecordFit, Stage, RecordNow
      <4>6. ~EndingItself(h)
        BY <1>7, <4>1 DEF EndingItself, Alone, Uses, Holds
      <4> QED BY <1>5, <3>2, <4>4, <4>5, <4>6, StageOf
    <3> QED BY <3>1, <3>2 DEF RecordsInv, RecordFit
  <2>3. QuietStep(t, h)
    BY <1>1, <1>2, <1>3, <1>4, <2>1 DEF QuietStep, RecordNow
  <2> QED BY <2>2, <2>3, QuietStepFits
<1>8. CASE h = t
  <2>1. w' = Unblock(w, t, "off", "OK")
    BY <1>1, <1>2, <1>6, <1>8
  <2>2. /\ w' \in WaitingType /\ w'.on[t] = NoList /\ w'.mode[t] = "off"
        /\ \A u \in Tasks \ {t} :
              w'.on[u] = w.on[u] /\ w'.mode[u] = w.mode[u] /\ w'.result[u] = w.result[u]
    <3>1. w \in WaitingType /\ "off" \in Modes /\ "OK" \in Results
      BY DEF RecordsInv, ThreadsType, Modes, Results
    <3> QED BY <2>1, <3>1, UnblockEffect
  <2>3. JoinsFit'
    BY <1>1, <1>4, <2>2 DEF RecordsInv, JoinsFit
  <2>4. ASSUME NEW g \in Tasks \ {h}
        PROVE  Elsewhere(g)
    BY <1>1, <1>2, <1>3, <1>4, <1>8, <2>2 DEF Elsewhere, IsAbout, RecordNow
  <2>5. RecordFit(h)'
    <3>1. CASE EndedEarly(h)
      BY <1>3, <1>8, <2>2, <3>1 DEF EndedEarly, RecordFit, RecordNow
    <3>2. CASE ~rec[h].early /\ Stage(h)
      <4>1. \A u \in Tasks : Holds(u, h) => u = t
        BY <1>5, <3>2, StageOf
      <4>2. Nobody(h)'
        BY <1>4, <4>1 DEF Nobody, Holds, Uses
      <4>3. (NotLinking(h) => NotLinking(h)') /\ ~Posting(h)'
        BY <1>4, <1>8 DEF NotLinking, Posting, Uses
      <4>4. ~Detached(h) /\ ~Unlinked(h)
        BY <1>1, <1>8 DEF Detached, Unlinked, Posting, Uses
      <4>5. EndingItself(h)
        BY <1>5, <3>2, <4>4, StageOf
      <4>6. ~rec[h].linked
        BY <1>1, <1>8, <4>5 DEF EndingItself, Alone, Uses
      <4>7. Freed(h)'
        BY <1>3, <1>8, <2>2, <4>2, <4>3, <4>5, <4>6 DEF EndingItself, Freed, RecordNow
      <4> QED BY <1>3, <3>2, <4>7 DEF RecordFit, Stage, RecordNow
    <3> QED BY <3>1, <3>2 DEF RecordsInv, RecordFit
  <2>6. rec' \in [Tasks -> RecordType]
    BY <1>3 DEF RecordNow
  <2> QED BY <1>4, <2>2, <2>3, <2>4, <2>5, <2>6, StepFits
<1> QED BY <1>7, <1>8

\* aixos_sem_post on the completion wakes a task that joins the thread, if one
\* waits: the lists after it.
Posted(t, v, j) ==
    /\ v \in WaitingType /\ j \in Tasks
    /\ \A u \in Tasks \ {j} :
          v.on[u] = w.on[u] /\ v.mode[u] = w.mode[u] /\ v.result[u] = w.result[u]
    /\ w.on[j] = t /\ v.on[j] = NoList /\ v.mode[j] = "active" /\ v.result[j] = "OK"

LEMMA PostWakes ==
    ASSUME RecordsInv, NEW t \in Tasks, NEW j \in WaitersOf(w, t),
           NEW v, v = Wake(w, j, "OK")
    PROVE  Posted(t, v, j)
<1>1. j \in Tasks /\ w.on[j] = t
  BY DEF WaitersOf
<1>2. w.mode[j] = "waiting"
  BY <1>1, PosixThreadAssumption DEF RecordsInv, JoinsFit
<1>3. v = Unblock(w, j, "active", "OK")
  BY <1>2 DEF Wake
<1>4. w \in WaitingType /\ "active" \in Modes /\ "OK" \in Results
  BY DEF RecordsInv, ThreadsType, Modes, Results
<1>5. /\ v \in WaitingType
      /\ v.on[j] = NoList /\ v.mode[j] = "active" /\ v.result[j] = "OK"
      /\ \A u \in Tasks \ {j} :
            v.on[u] = w.on[u] /\ v.mode[u] = w.mode[u] /\ v.result[u] = w.result[u]
  BY <1>1, <1>3, <1>4, UnblockEffect
<1> QED BY <1>1, <1>5 DEF Posted

\* The thread that has posted ends, or goes on to free its own record.
Finished(t, v) ==
    IF call[t].detached
    THEN w' = v /\ Use(t, "unlink", t)
    ELSE w' = Unblock(v, t, "off", "OK") /\ Return(t)

LEMMA FinishedEffect ==
    ASSUME RecordsInv, NEW t \in Tasks, NEW v \in WaitingType, Finished(t, v),
           v.mode[t] = "active", v.on[t] = NoList
    PROVE  /\ w' \in WaitingType /\ call' \in [Tasks -> ThreadCalls]
           /\ \A u \in Tasks \ {t} :
                 /\ w'.on[u] = v.on[u] /\ w'.mode[u] = v.mode[u] /\ w'.result[u] = v.result[u]
                 /\ call'[u] = call[u]
           /\ w'.on[t] = NoList
           /\ IF call[t].detached
              THEN w'.mode[t] = "active" /\ call'[t].op = "unlink" /\ call'[t].on = t
              ELSE w'.mode[t] = "off" /\ call'[t].op = "none"
<1>1. CASE call[t].detached
  <2>1. w' = v /\ Use(t, "unlink", t)
    BY <1>1 DEF Finished
  <2>2. /\ call' \in [Tasks -> ThreadCalls] /\ call'[t].op = "unlink" /\ call'[t].on = t
        /\ \A u \in Tasks \ {t} : call'[u] = call[u]
    BY <2>1, ThreadUses DEF RecordsInv, ThreadOps
  <2> QED BY <1>1, <2>1, <2>2
<1>2. CASE ~call[t].detached
  <2>1. w' = Unblock(v, t, "off", "OK") /\ Return(t)
    BY <1>2 DEF Finished
  <2>2. /\ call' \in [Tasks -> ThreadCalls] /\ call'[t].op = "none"
        /\ \A u \in Tasks \ {t} : call'[u] = call[u]
    BY <2>1, ThreadReturns DEF RecordsInv
  <2>3. "off" \in Modes /\ "OK" \in Results
    BY DEF Modes, Results
  <2>4. /\ w' \in WaitingType /\ w'.on[t] = NoList /\ w'.mode[t] = "off"
        /\ \A u \in Tasks \ {t} :
              w'.on[u] = v.on[u] /\ w'.mode[u] = v.mode[u] /\ w'.result[u] = v.result[u]
    BY <2>1, <2>3, UnblockEffect
  <2> QED BY <1>2, <2>2, <2>4
<1> QED BY <1>1, <1>2

\* A thread that posts is at the end of its life.
LEMMA PostingStage ==
    ASSUME NEW t \in Tasks, Stage(t), call[t].op = "post", call[t].on = t
    PROVE  Ending(t) \/ Detached(t)
<1>1. Posting(t)
  BY DEF Posting, Uses
<1>2. ~EndingItself(t)
  BY DEF EndingItself, Alone, Uses
<1> QED BY <1>1, <1>2 DEF Stage, Unused, Starting, Running, Kept, Unlinked, Freed

\* The thread posts its completion, and a task that joins it is woken.
LEMMA PostToJoinerStep ==
    ASSUME RecordsInv, NEW t \in Tasks, w.mode[t] = "active", call[t].op = "post",
           NEW v, NEW j, Posted(t, v, j), Finished(t, v), UNCHANGED rec,
           rec[t].memory = "allocated"
    PROVE  RecordsInv'
<1>1. /\ call[t].on = t /\ j \in Tasks /\ j # t /\ w.on[t] = NoList
      /\ w.mode[j] = "waiting" /\ call[j].op = "joining" /\ call[j].on = t
  BY PosixThreadAssumption DEF RecordsInv, JoinsFit, Posted
<1>2. v \in WaitingType /\ v.mode[t] = "active" /\ v.on[t] = NoList
  BY <1>1 DEF Posted
<1>3. /\ w' \in WaitingType /\ call' \in [Tasks -> ThreadCalls]
      /\ \A u \in Tasks \ {t} :
            /\ w'.on[u] = v.on[u] /\ w'.mode[u] = v.mode[u] /\ w'.result[u] = v.result[u]
            /\ call'[u] = call[u]
      /\ w'.on[t] = NoList
      /\ IF call[t].detached
         THEN w'.mode[t] = "active" /\ call'[t].op = "unlink" /\ call'[t].on = t
         ELSE w'.mode[t] = "off" /\ call'[t].op = "none"
  BY <1>2, FinishedEffect
<1>4. /\ w'.on[j] = NoList /\ w'.mode[j] = "active" /\ w'.result[j] = "OK"
      /\ \A u \in Tasks \ {t, j} :
            w'.on[u] = w.on[u] /\ w'.mode[u] = w.mode[u] /\ w'.result[u] = w.result[u]
  BY <1>1, <1>3 DEF Posted
<1>5. JoinsFit'
  BY <1>1, <1>3, <1>4 DEF RecordsInv, JoinsFit
<1>6. ASSUME NEW g \in Tasks \ {t}
      PROVE  Elsewhere(g)
  BY <1>1, <1>3, <1>4 DEF Elsewhere, IsAbout
<1>7. RecordFit(t)'
  <2>1. CASE EndedEarly(t)
    BY <1>1, <1>3, <2>1 DEF EndedEarly, RecordFit, Uses
  <2>2. CASE ~rec[t].early /\ Stage(t)
    <3>1. Holds(j, t)
      BY <1>1 DEF Holds, Uses
    <3>2. \A u \in Tasks : Holds(u, t) => u = j
      BY <1>1, <2>2, <3>1, StageOf
    <3>3. Ending(t)
      <4>1. ~Detached(t)
        BY <1>1, <3>1, <3>2 DEF Detached, Nobody, Alone, Uses
      <4> QED BY <1>1, <2>2, <4>1, PostingStage
    <3>4. rec[t].joining /\ ~rec[t].detached /\ rec[t].posts = 0 /\ ~call[t].detached
      BY <1>1, <3>1, <3>3 DEF Ending, Joinable, Nobody
    <3>5. Alone(j, t, {"joining", "unlink"})'
      BY <1>1, <1>3, <3>2, <3>4 DEF Alone, Holds, Uses
    <3>6. ~Posting(t)' /\ NotLinking(t)'
      BY <1>3, <3>3, <3>4 DEF Ending, Posting, NotLinking, Uses
    <3>7. Kept(t)'
      BY <1>1, <1>3, <1>4, <3>3, <3>4, <3>5, <3>6 DEF Ending, Kept
    <3> QED BY <2>2, <3>7 DEF RecordFit, Stage
  <2> QED BY <2>1, <2>2 DEF RecordsInv, RecordFit
<1>8. rec' \in [Tasks -> RecordType]
  BY DEF RecordsInv, ThreadsType
<1> QED BY <1>3, <1>5, <1>6, <1>7, <1>8, StepFits

\* The thread posts its completion, and nobody waits for it; or what it posts
\* has been freed.
LEMMA PostToNobodyStep ==
    ASSUME RecordsInv, NEW t \in Tasks, w.mode[t] = "active", call[t].op = "post",
           Finished(t, w), NEW n \in Nat,
           rec[t].memory = "allocated" => WaitersOf(w, t) = {} /\ n = rec[t].posts + 1,
           RecordNow(t, rec[t].memory, rec[t].linked, rec[t].detached, rec[t].completed,
                     rec[t].joining, n, rec[t].early)
    PROVE  RecordsInv'
<1> PICK r : r = rec[t]
  OBVIOUS
<1>1. call[t].on = t /\ w.on[t] = NoList /\ w \in WaitingType
  BY DEF RecordsInv, JoinsFit, ThreadsType
<1>2. /\ w' \in WaitingType /\ call' \in [Tasks -> ThreadCalls]
      /\ \A u \in Tasks \ {t} :
            /\ w'.on[u] = w.on[u] /\ w'.mode[u] = w.mode[u] /\ w'.result[u] = w.result[u]
            /\ call'[u] = call[u]
      /\ w'.on[t] = NoList
      /\ IF call[t].detached
         THEN w'.mode[t] = "active" /\ call'[t].op = "unlink" /\ call'[t].on = t
         ELSE w'.mode[t] = "off" /\ call'[t].op = "none"
  BY <1>1, FinishedEffect
<1>3. RecordNow(t, r.memory, r.linked, r.detached, r.completed, r.joining, n, r.early)
  OBVIOUS
<1>4. JoinsFit'
  BY <1>1, <1>2 DEF RecordsInv, JoinsFit
<1>5. ASSUME NEW g \in Tasks \ {t}
      PROVE  Elsewhere(g)
  BY <1>1, <1>2, <1>3 DEF Elsewhere, IsAbout, RecordNow
<1>6. RecordFit(t)'
  <2>1. CASE EndedEarly(t)
    BY <1>1, <1>2, <1>3, <2>1 DEF EndedEarly, RecordFit, RecordNow, Uses
  <2>2. CASE ~r.early /\ Stage(t)
    <3>1. ~Posting(t)'
      BY <1>2 DEF Posting, Uses
    <3>2. ASSUME NotLinking(t) PROVE NotLinking(t)'
      BY <1>2, <3>2 DEF NotLinking, Uses
    <3>3. CASE Ending(t)
      <4>1. /\ r.memory = "allocated" /\ r.linked /\ r.completed /\ r.posts = 0
            /\ Joinable(t) /\ NotLinking(t) /\ r.detached = call[t].detached
        BY <3>3 DEF Ending, Joinable
      <4>2. n = 1 /\ \A u \in Tasks : w.on[u] # t
        BY <4>1 DEF WaitersOf
      <4>3. CASE call[t].detached
        <5>1. Nobody(t) /\ r.detached
          BY <4>1, <4>3 DEF Joinable
        <5>2. Alone(t, t, {"unlink"})'
          BY <1>2, <4>3, <5>1 DEF Nobody, Alone, Holds, Uses
        <5>3. EndingItself(t)'
          BY <1>2, <1>3, <3>2, <4>1, <4>3, <5>1, <5>2 DEF EndingItself, RecordNow
        <5> QED BY <1>3, <2>2, <5>3 DEF RecordFit, Stage, RecordNow
      <4>4. CASE ~call[t].detached
        <5>1. ~r.detached
          BY <4>1, <4>4
        <5>2. CASE ~r.joining
          <6>1. Nobody(t)
            BY <4>1, <5>2 DEF Joinable
          <6>2. Nobody(t)'
            BY <1>2, <4>4, <6>1 DEF Nobody, Holds, Uses
          <6>3. Kept(t)'
            BY <1>2, <1>3, <3>1, <3>2, <4>1, <4>2, <4>4, <5>1, <5>2, <6>2 DEF Kept, RecordNow
          <6> QED BY <1>3, <2>2, <6>3 DEF RecordFit, Stage, RecordNow
        <5>3. CASE r.joining
          <6>1. PICK u \in Tasks : Unanswered(u, t)
            BY <4>1, <5>3 DEF Joinable
          <6>2. u # t
            BY <6>1 DEF Unanswered, Alone, Uses
          <6>3. w.mode[u] = "active"
            <7>1. w.mode[u] \in Modes
              BY <1>1 DEF WaitingType, Modes
            <7>2. w.mode[u] # "off"
              BY <6>1 DEF RecordsInv, JoinsFit, Unanswered, Alone, Uses
            <7>3. w.mode[u] # "waiting"
              BY <4>2, <6>1 DEF RecordsInv, JoinsFit, Unanswered, Alone, Uses
            <7> QED BY <7>1, <7>2, <7>3 DEF Modes
          <6>4. Alone(u, t, {"await", "joining"})'
            BY <1>2, <4>4, <6>1, <6>2 DEF Unanswered, Alone, Holds, Uses
          <6>5. Unanswered(u, t)' /\ w'.mode[u] = "active"
            BY <1>2, <6>1, <6>2, <6>3, <6>4 DEF Unanswered
          <6>6. Kept(t)'
            BY <1>2, <1>3, <3>1, <3>2, <4>1, <4>2, <4>4, <5>1, <5>3, <6>5 DEF Kept, RecordNow
          <6> QED BY <1>3, <2>2, <6>6 DEF RecordFit, Stage, RecordNow
        <5> QED BY <5>2, <5>3
      <4> QED BY <4>3, <4>4
    <3>4. CASE Detached(t)
      <4>1. ~call[t].detached /\ NotLinking(t) /\ ~r.linked /\ r.completed
        BY <3>4 DEF Detached
      <4>2. CASE r.memory = "allocated"
        <5>1. PICK u \in Tasks : Alone(u, t, {"free"})
          BY <3>4, <4>2 DEF Detached
        <5>2. Alone(u, t, {"free"})'
          BY <1>2, <4>1, <5>1 DEF Alone, Holds, Uses
        <5>3. Unlinked(t)'
          BY <1>2, <1>3, <3>1, <3>2, <4>1, <4>2, <5>2 DEF Unlinked, RecordNow
        <5> QED BY <1>3, <2>2, <5>3 DEF RecordFit, Stage, RecordNow
      <4>3. CASE r.memory = "freed" /\ Nobody(t)
        <5>1. Nobody(t)'
          BY <1>2, <4>1, <4>3 DEF Nobody, Holds, Uses
        <5>2. Freed(t)'
          BY <1>2, <1>3, <3>1, <3>2, <4>1, <4>3, <5>1 DEF Freed, RecordNow
        <5> QED BY <1>3, <2>2, <5>2 DEF RecordFit, Stage, RecordNow
      <4> QED BY <3>4, <4>2, <4>3 DEF Detached
    <3> QED BY <1>1, <2>2, <3>3, <3>4, PostingStage
  <2> QED BY <2>1, <2>2 DEF RecordsInv, RecordFit
<1>7. rec' \in [Tasks -> RecordType]
  BY <1>3 DEF RecordNow
<1> QED BY <1>2, <1>4, <1>5, <1>6, <1>7, StepFits

\* The end of a thread, from its post on.
LEMMA ThreadPostStep ==
    ASSUME RecordsInv, NEW t \in Tasks, ThreadPost(t)
    PROVE  RecordsInv'
<1>1. w.mode[t] = "active" /\ call[t].op = "post"
  BY DEF ThreadPost, At
<1> PICK r \in RecordType : r = rec[t]
  BY DEF RecordsInv, ThreadsType
<1>2. r.posts \in Nat
  BY RecordParts
<1>3. CASE r.memory = "allocated" /\ WaitersOf(w, t) # {}
  <2> PICK j \in WaitersOf(w, t) : j = CHOOSE x \in WaitersOf(w, t) : TRUE
    BY <1>3
  <2> PICK v : v = Wake(w, j, "OK")
    OBVIOUS
  <2>1. UNCHANGED rec /\ Finished(t, v)
    BY <1>3 DEF ThreadPost, Finished
  <2>2. Posted(t, v, j)
    BY PostWakes
  <2> QED BY <1>1, <1>3, <2>1, <2>2, PostToJoinerStep
<1>4. CASE r.memory = "allocated" /\ WaitersOf(w, t) = {}
  <2> PICK n \in Nat : n = r.posts + 1
    BY <1>2
  <2>1. Finished(t, w) /\ RecordBecomes(t, WithPosts(r, n))
    BY <1>4 DEF ThreadPost, Finished, RecordBecomes, WithPosts
  <2>2. RecordNow(t, r.memory, r.linked, r.detached, r.completed, r.joining, n, r.early)
    BY <2>1, RecordAssigned DEF RecordsInv
  <2> QED BY <1>1, <1>4, <2>1, <2>2, PostToNobodyStep
<1>5. CASE r.memory # "allocated"
  <2>1. Finished(t, w) /\ UNCHANGED rec
    BY <1>5 DEF ThreadPost, Finished
  <2> PICK n \in Nat : n = r.posts
    BY <1>2
  <2>2. RecordNow(t, r.memory, r.linked, r.detached, r.completed, r.joining, n, r.early)
    BY <2>1 DEF RecordNow, RecordsInv, ThreadsType
  <2> QED BY <1>1, <1>5, <2>1, <2>2, PostToNobodyStep
<1> QED BY <1>3, <1>4, <1>5

\* Every step of the threads keeps the invariant.
LEMMA ThreadStep ==
    ASSUME RecordsInv,
           ThreadNext \/ \E t \in Tasks : Interrupted(t) /\ UNCHANGED <<call, rec>>
    PROVE  RecordsInv'
<1>1. ASSUME NEW t \in Tasks, ThreadReturn(t)
      PROVE  RecordsInv'
  BY <1>1, ThreadCompleteStep DEF ThreadReturn
<1> QED BY <1>1, ThreadLinkStep, ThreadExitStep, ThreadPostStep, ThreadUnlinkStep,
           ThreadFreeStep, JoinWaitStep, JoinReturnStep, ThreadCreateStep, JoinStep,
           DetachStep, JoinInterruptedStep
        DEF ThreadNext

\* What the stages say of a record.
LEMMA ThreadProperties ==
    ASSUME RecordsInv
    PROVE  RecordsFreedOnce
<1> SUFFICES ASSUME NEW h \in Tasks, ~rec[h].early
             PROVE  /\ rec[h].linked => rec[h].memory = "allocated"
                    /\ Cardinality(UsersOf(h, {"unlink", "free", "await", "joining"})) <= 1
                    /\ UsersOf(h, {"post", "unlink", "free", "await", "joining"}) # {} =>
                          rec[h].memory = "allocated" \/ DetachedMeanwhile(h)
                    /\ Over(h) /\ UsersOf(h, {"unlink", "free", "link"}) = {} =>
                          /\ WaitersOf(w, h) = {}
                          /\ rec[h].detached => rec[h].memory = "freed"
                          /\ rec[h].memory = "allocated" => rec[h].linked /\ ~rec[h].detached
  BY DEF RecordsFreedOnce
<1>1. Stage(h)
  BY DEF RecordsInv, RecordFit, EndedEarly
<1>2. rec[h].linked => rec[h].memory = "allocated"
  BY <1>1 DEF Stage, Unused, NoRecord, Starting, Running, Ending, Detached, Kept, Unlinked,
              EndingItself, Freed
<1>3. Cardinality(UsersOf(h, {"unlink", "free", "await", "joining"})) <= 1
  <2>1. \A x, y \in UsersOf(h, {"unlink", "free", "await", "joining"}) : x = y
    <3>1. \A x \in UsersOf(h, {"unlink", "free", "await", "joining"}) :
             x \in Tasks /\ Holds(x, h)
      BY DEF UsersOf, Holds, Uses
    <3> QED BY <1>1, <3>1, StageOf
  <2> QED BY <2>1, AtMostOne
<1>4. ASSUME NEW u \in Tasks, Uses(u, h, {"post", "unlink", "free", "await", "joining"})
      PROVE  rec[h].memory = "allocated" \/ DetachedMeanwhile(h)
  <2>1. CASE Detached(h)
    <3>1. h \in UsersOf(h, {"post"})
      BY <2>1 DEF Detached, Posting, Uses, UsersOf
    <3> QED BY <2>1, <3>1 DEF Detached, DetachedMeanwhile
  <2>2. CASE ~Detached(h) /\ call[u].op = "post"
    <3>1. u = h
      BY <1>4, <2>2 DEF RecordsInv, JoinsFit, Uses
    <3>2. Ending(h)
      BY <1>1, <1>4, <2>2, <3>1, PostingStage DEF Uses
    <3> QED BY <3>2 DEF Ending
  <2>3. CASE ~Detached(h) /\ call[u].op # "post"
    <3>1. Holds(u, h)
      BY <1>4, <2>3 DEF Holds, Uses
    <3>2. ~Unused(h) /\ ~Starting(h) /\ ~Freed(h)
      BY <3>1 DEF Unused, Starting, Freed, Nobody
    <3> QED BY <1>1, <2>3, <3>2 DEF Stage, Running, Ending, Kept, Unlinked, EndingItself
  <2> QED BY <2>1, <2>2, <2>3
<1>5. ASSUME Over(h), UsersOf(h, {"unlink", "free", "link"}) = {}
      PROVE  /\ WaitersOf(w, h) = {}
             /\ rec[h].detached => rec[h].memory = "freed"
             /\ rec[h].memory = "allocated" => rec[h].linked /\ ~rec[h].detached
  <2>1. rec[h].memory # "none" /\ w.mode[h] = "off"
    BY <1>5 DEF Over
  <2>2. \A u \in Tasks : ~Uses(u, h, {"free"}) /\ ~Uses(u, h, {"unlink"})
    BY <1>5 DEF UsersOf, Uses
  <2>3. ~Posting(h)
    BY <2>1 DEF RecordsInv, JoinsFit, Posting, Uses
  <2>4. Kept(h) \/ Freed(h)
    BY <1>1, <2>1, <2>2, <2>3
       DEF Stage, Unused, NoRecord, Starting, Running, Ending, Detached, Unlinked,
           EndingItself, Alone
  <2>5. WaitersOf(w, h) = {}
    <3> SUFFICES ASSUME NEW u \in Tasks, w.on[u] = h
                 PROVE  FALSE
      BY DEF WaitersOf
    <3>1. w.mode[u] = "waiting" /\ call[u].op = "joining" /\ call[u].on = h
      BY PosixThreadAssumption DEF RecordsInv, JoinsFit
    <3>2. Holds(u, h)
      BY <3>1 DEF Holds, Uses
    <3> QED BY <2>4, <3>1, <3>2 DEF Kept, Freed, Nobody, Unanswered, Alone
  <2> QED BY <2>4, <2>5 DEF Kept, Freed
<1> QED BY <1>2, <1>3, <1>4, <1>5 DEF UsersOf, Uses

-----------------------------------------------------------------------------
(* The objects together.                                                   *)

\* Objects of a kind that the behaviour is not about.
KeysIdle == \A s \in Keys : ~key[s].used

MutexIdle ==
    /\ pmutex.type = "NORMAL" /\ pmutex.native.owner = NoThread
    /\ \A t \in Tasks : pmutex.depth[t] = 0

\* The objects of the kind that the behaviour is about are as their invariant
\* says, the others as at the start.
KindInv ==
    /\ kind \in Kinds
    /\ IF kind \in SyncKinds THEN SyncInv /\ Owned ELSE SyncInit
    /\ IF kind = "mutex" THEN LayersInv ELSE MutexIdle
    /\ IF kind = "thread" THEN RecordsInv ELSE ThreadInit
    /\ IF kind = "named" THEN NamedInv ELSE NamedInit
    /\ IF kind = "key" THEN KeysInv ELSE KeysIdle

\* The places in the calls of one kind are not those of another.
LEMMA CallsOfAKind ==
    ASSUME KindInv, NEW t \in Tasks
    PROVE  /\ kind \notin SyncKinds =>
                 /\ call[t].op \notin SyncOps
                 /\ call[t].op = "none" \/ call[t].what # "write"
           /\ kind # "thread" => call[t].op \notin ThreadOps
           /\ kind # "named" => call[t].op \notin DeletingOps
           /\ kind # "key" => call[t].op # "call"
<1>1. NoCall.op = "none" /\ [op |-> "leave"].op = "leave"
  BY DEF NoCall
<1>2. CASE kind \in SyncKinds
  <2>1. call[t] \in SyncCalls
    BY <1>2 DEF KindInv, SyncInv, SyncType
  <2>2. call[t].op \in SyncOps \union {"none", "leave"}
    BY <1>1, <2>1 DEF SyncCalls, SyncRecords
  <2> QED BY <1>2, <2>2 DEF SyncOps, ThreadOps, DeletingOps, SyncKinds
<1>3. CASE kind = "mutex"
  <2>1. call[t] \in MutexCalls
    BY <1>3 DEF KindInv, LayersInv, TypeInv
  <2>2. /\ call[t].op \in {"none", "lock", "locking", "locked", "unlock"}
        /\ call[t].op = "none" \/ call[t].what = "mutex"
    BY <1>1, <2>1 DEF MutexCalls
  <2> QED BY <1>3, <2>2 DEF SyncOps, ThreadOps, DeletingOps, SyncKinds
<1>4. CASE kind = "thread"
  <2>1. call[t] \in ThreadCalls
    BY <1>4 DEF KindInv, RecordsInv, ThreadsType
  <2>2. /\ call[t].op \in ThreadOps \union {"none"}
        /\ call[t].op = "none" \/ call[t].what = "thread"
    BY <1>1, <2>1 DEF ThreadCalls, ThreadRecords, ThreadOps
  <2> QED BY <1>4, <2>2 DEF SyncOps, ThreadOps, DeletingOps, SyncKinds
<1>5. CASE kind = "named"
  <2>1. call[t] \in NamedCalls
    BY <1>5 DEF KindInv, NamedInv, NamedType
  <2>2. /\ call[t].op \in DeletingOps \union {"use", "none"}
        /\ call[t].op = "none" \/ call[t].what = "named"
    BY <1>1, <2>1 DEF NamedCalls, NamedRecords
  <2> QED BY <1>5, <2>2 DEF SyncOps, ThreadOps, DeletingOps, SyncKinds
<1>6. CASE kind = "key"
  <2>1. call[t] \in KeyCalls
    BY <1>6 DEF KindInv, KeysInv, KeysType
  <2>2. /\ call[t].op \in KeyOps \union {"none"}
        /\ call[t].op = "none" \/ call[t].what = "key"
    BY <1>1, <2>1 DEF KeyCalls, KeyRecords
  <2> QED BY <1>6, <2>2 DEF SyncOps, ThreadOps, DeletingOps, KeyOps, SyncKinds
<1> QED BY <1>2, <1>3, <1>4, <1>5, <1>6, PosixAssumption DEF KindInv, SyncKinds

\* Nobody waits for a named object while other objects are used.
LEMMA WaitsOfAKind ==
    ASSUME KindInv, kind # "named", NEW t \in Tasks
    PROVE  w.on[t] \notin Entries
<1>1. NoList \notin Entries
  BY PosixNamedAssumption
<1>2. CASE kind \in SyncKinds
  <2>1. WaitFit(t)
    BY <1>2 DEF KindInv, SyncInv, SyncWaits
  <2>2. w.on[t] \in {NoList, MutexList} \union Conditions
    BY <2>1 DEF WaitFit
  <2> QED BY <1>1, <2>2, PosixAssumption
<1>3. CASE kind = "mutex"
  <2>1. w.on[t] \in {LockList, NoList}
    BY <1>3 DEF KindInv, LayersInv, WaitInv
  <2> QED BY <1>1, <2>1, PosixAssumption
<1>4. CASE kind = "thread"
  <2>1. w.on[t] = NoList \/ (call[t].op = "joining" /\ w.on[t] = call[t].on)
    BY <1>4 DEF KindInv, RecordsInv, JoinsFit
  <2>2. w.on[t] \in Tasks \union {NoList}
    BY <1>4, <2>1, ThreadAt DEF KindInv, RecordsInv, ThreadOps
  <2> QED BY <1>1, <2>2, PosixAssumption
<1>5. CASE kind = "key"
  BY <1>1, <1>5 DEF KindInv, KeysInv, DestructionFit
<1> QED BY <1>2, <1>3, <1>4, <1>5, PosixAssumption DEF KindInv, SyncKinds

\* Objects that are not used have the properties that the others have.
LEMMA SyncKept ==
    ASSUME KindInv
    PROVE  NoSignalLost /\ RwlockExact
<1>1. CASE kind \in SyncKinds
  BY <1>1, SyncProperties DEF KindInv
<1>2. CASE kind \notin SyncKinds
  <2>1. /\ cond = [c \in Conditions |-> [waiters |-> 0, count |-> 0]]
        /\ rw.readers = [t \in Tasks |-> 0] /\ rw.waiting = 0
    BY <1>2 DEF KindInv, SyncInit
  <2>2. ASSUME NEW c \in Conditions
        PROVE  Cardinality(CommittedTo(c)) <= cond[c].waiters + cond[c].count
    <3>1. CommittedTo(c) = {}
      BY <1>2, CallsOfAKind DEF CommittedTo, SyncOps
    <3>2. cond[c].waiters = 0 /\ cond[c].count = 0
      BY <2>1
    <3> QED BY <3>1, <3>2, FS_EmptySet
  <2>3. Readers = {}
    BY <2>1 DEF Readers
  <2>4. CountedWriters = {}
    BY <1>2, CallsOfAKind DEF CountedWriters
  <2> QED BY <2>1, <2>2, <2>3, <2>4, FS_EmptySet DEF NoSignalLost, RwlockExact
<1> QED BY <1>1, <1>2

LEMMA RecordsKept ==
    ASSUME KindInv
    PROVE  RecordsFreedOnce
<1>1. CASE kind = "thread"
  BY <1>1, ThreadProperties DEF KindInv
<1>2. CASE kind # "thread"
  <2>1. \A h \in Tasks : ~rec[h].linked /\ rec[h].memory = "none"
    <3>1. ~NoRecord.linked /\ NoRecord.memory = "none"
      BY DEF NoRecord
    <3>2. \A h \in Tasks : rec[h] = NoRecord
      BY <1>2 DEF KindInv, ThreadInit
    <3> QED BY <3>1, <3>2
  <2>2. ASSUME NEW h \in Tasks
        PROVE  /\ UsersOf(h, {"unlink", "free", "await", "joining"}) = {}
               /\ UsersOf(h, {"post", "unlink", "free", "await", "joining"}) = {}
    BY <1>2, CallsOfAKind DEF UsersOf, ThreadOps
  <2>3. Cardinality({}) <= 1
    BY FS_EmptySet
  <2>4. ASSUME NEW h \in Tasks
        PROVE  Cardinality(UsersOf(h, {"unlink", "free", "await", "joining"})) <= 1
    BY Zenon, <2>2, <2>3
  <2>5. \A h \in Tasks : ~Over(h)
    BY <2>1 DEF Over
  <2> QED BY Zenon, <2>1, <2>2, <2>4, <2>5 DEF RecordsFreedOnce
<1> QED BY <1>1, <1>2

LEMMA NamedKept ==
    ASSUME KindInv
    PROVE  NamedExact
<1>1. CASE kind = "named"
  BY <1>1, NamedProperties DEF KindInv
<1>2. CASE kind # "named"
  <2>1. \A e \in Entries : table[e] = NoEntry
    BY <1>2 DEF KindInv, NamedInit
  <2>2. /\ NoEntry.references = 0 /\ NoEntry.held = 0 /\ ~NoEntry.unlinked
        /\ NoEntry.name = NoName
    BY DEF NoEntry
  <2>3. ASSUME NEW e \in Entries
        PROVE  Deleting(e) = {} /\ WaitersOf(w, e) = {}
    <3>1. Deleting(e) = {}
      BY <1>2, CallsOfAKind DEF Deleting, DeletingOps
    <3>2. WaitersOf(w, e) = {}
      BY <1>2, WaitsOfAKind DEF WaitersOf
    <3> QED BY <3>1, <3>2
  <2>4. ASSUME NEW name \in Names
        PROVE  Named(name) = {}
    BY <2>1, <2>2, PosixNamedAssumption DEF Named
  <2>5. Cardinality({}) <= 1
    BY FS_EmptySet
  <2>6. ASSUME NEW e \in Entries
        PROVE  /\ table[e].references = table[e].held
               /\ table[e].held > 0 => table[e].live
               /\ WaitersOf(w, e) # {} => table[e].live
               /\ Cardinality(Deleting(e)) <= 1
               /\ Deleting(e) # {} => table[e].unlinked /\ table[e].references = 0
               /\ ~table[e].live => table[e] = NoEntry \/ Deleting(e) # {}
               /\ Stranded(e) => table[e].live
    <3>1. table[e].references = table[e].held /\ ~(table[e].held > 0)
      BY <2>1, <2>2
    <3>2. ~Stranded(e)
      BY <2>1, <2>2 DEF Stranded
    <3>3. Cardinality(Deleting(e)) <= 1
      BY Zenon, <2>3, <2>5
    <3> QED BY Zenon, <2>1, <2>3, <3>1, <3>2, <3>3
  <2>7. \A name \in Names : Cardinality(Named(name)) <= 1
    BY Zenon, <2>4, <2>5
  <2> QED BY <2>6, <2>7 DEF NamedExact
<1> QED BY <1>1, <1>2

LEMMA KeysKeptExact ==
    ASSUME KindInv
    PROVE  KeyValuesExact
<1>1. CASE kind = "key"
  BY <1>1, KeyProperties DEF KindInv
<1>2. CASE kind # "key"
  <2>1. \A t \in Tasks : \A s \in Keys : Specific(t, s) = 0
    BY <1>2 DEF KindInv, KeysIdle, Specific
  <2>2. \A t \in Tasks : ~At(t, "call")
    BY <1>2, CallsOfAKind DEF At
  <2> QED BY <2>1, <2>2 DEF KeyValuesExact, ToBeDestroyed
<1> QED BY <1>1, <1>2

LEMMA LayersKept ==
    ASSUME KindInv
    PROVE  MutexLayersAgree
<1>1. CASE kind = "mutex"
  BY <1>1, InvariantAgrees DEF KindInv
<1>2. CASE kind # "mutex"
  BY <1>2, PosixMutexAssumption DEF KindInv, MutexIdle, MutexLayersAgree
<1> QED BY <1>1, <1>2

-----------------------------------------------------------------------------
(* The initial states and the steps.                                       *)

\* Some threads run, and nobody waits.
Fresh(running) ==
    /\ w \in WaitingType /\ call = [t \in Tasks |-> NoCall]
    /\ \A t \in Tasks :
          /\ w.on[t] = NoList
          /\ w.mode[t] = IF t \in running THEN "active" ELSE "off"
          /\ call[t].op = "none"

LEMMA InitFresh ==
    ASSUME Init
    PROVE  \E running \in SUBSET Tasks :
              Fresh(running) /\ (kind \notin {"thread", "key"} => running = Tasks)
<1>1. PICK running \in SUBSET Tasks :
         /\ kind \notin {"thread", "key"} => running = Tasks
         /\ w = [AllOff EXCEPT !.mode = [t \in Tasks |->
                                    IF t \in running THEN "active" ELSE "off"]]
  <2>1. PICK running \in SUBSET Tasks :
           /\ CASE kind = "thread" -> Cardinality(running) = 1
                [] kind = "key" -> Cardinality(running) \in {1, 2}
                [] OTHER -> running = Tasks
           /\ w = [AllOff EXCEPT !.mode = [t \in Tasks |->
                                      IF t \in running THEN "active" ELSE "off"]]
    BY DEF Init
  <2>2. kind \notin {"thread", "key"} => running = Tasks
    BY <2>1
  <2> QED BY <2>1, <2>2
<1> DEFINE m == [t \in Tasks |-> IF t \in running THEN "active" ELSE "off"]
<1>2. m \in [Tasks -> Modes]
  BY DEF Modes
<1>3. \A t \in Tasks : m[t] = IF t \in running THEN "active" ELSE "off"
  OBVIOUS
<1> HIDE DEF m
<1>4. w = [mode |-> m, on |-> [t \in Tasks |-> NoList],
           timed |-> [t \in Tasks |-> FALSE], result |-> [t \in Tasks |-> "OK"]]
  BY <1>1 DEF AllOff, m
<1>5. w \in WaitingType /\ w.mode = m /\ \A t \in Tasks : w.on[t] = NoList
  BY <1>2, <1>4 DEF WaitingType
<1>6. call = [t \in Tasks |-> NoCall] /\ \A t \in Tasks : call[t].op = "none"
  BY DEF Init, NoCall
<1>7. Fresh(running)
  BY <1>3, <1>5, <1>6 DEF Fresh
<1> QED BY <1>1, <1>7

LEMMA SyncStarts ==
    ASSUME Fresh(Tasks), SyncInit
    PROVE  SyncInv /\ Owned
<1>1. /\ cond = [c \in Conditions |-> [waiters |-> 0, count |-> 0]]
      /\ barrier = [count |-> 0, generation |-> 0]
      /\ rw = [readers |-> [t \in Tasks |-> 0], writer |-> NoOwner, waiting |-> 0,
               crossed |-> FALSE]
  BY DEF SyncInit
<1>2. cond \in CondType /\ barrier \in [count : Nat, generation : Nat] /\ rw \in RwType
  BY <1>1, Zero, PosixSyncAssumption DEF CondType, RwType
<1>3. call \in [Tasks -> SyncCalls]
  BY DEF Fresh, SyncCalls
<1>4. SyncType
  BY <1>2, <1>3 DEF SyncType, Fresh
<1>5. SyncWaits
  BY DEF SyncWaits, WaitFit, Fresh
<1>6. Counted
  <2>1. ASSUME NEW c \in Conditions
        PROVE  Cardinality(Awaiting(c)) <= cond[c].waiters + cond[c].count
    <3>1. Awaiting(c) = {}
      BY DEF Fresh, Awaiting, Awaits
    <3>2. cond[c].waiters = 0 /\ cond[c].count = 0
      BY <1>1
    <3> QED BY <3>1, <3>2, FS_EmptySet
  <2> QED BY <2>1 DEF Counted
<1>7. RwCounted
  <2>1. WritersWaiting = {}
    BY DEF Fresh, WritersWaiting, Writing, SyncOps
  <2>2. rw.writer = NoOwner /\ rw.waiting = 0
    BY <1>1
  <2>3. \A t \in Tasks : Fit(call[t]) /\ ~Updating(call[t]) /\ call[t].op = "none"
    BY DEF Fresh, Fit, Updating, SyncOps
  <2>4. RwExcluded
    BY <2>2, <2>3 DEF RwExcluded
  <2>5. RwExact
    BY <2>1, <2>2, <2>3, FS_EmptySet DEF RwExact
  <2> QED BY <2>4, <2>5 DEF RwCounted
<1>8. Owned
  BY DEF Owned, Holding, Fresh
<1> QED BY <1>4, <1>5, <1>6, <1>7, <1>8 DEF SyncInv

LEMMA RecordsStart ==
    ASSUME NEW running \in SUBSET Tasks, Fresh(running), ThreadInit
    PROVE  RecordsInv
<1>1. NoRecord \in RecordType /\ ~NoRecord.early
  BY DEF NoRecord, RecordType
<1>2. ThreadsType
  BY <1>1 DEF ThreadsType, ThreadInit, Fresh, ThreadCalls
<1>3. JoinsFit
  BY DEF JoinsFit, Fresh
<1>4. ASSUME NEW h \in Tasks
      PROVE  RecordFit(h)
  <2>1. rec[h] = NoRecord
    BY DEF ThreadInit
  <2>2. Nobody(h) /\ ~Posting(h) /\ NotLinking(h)
    BY DEF Fresh, Nobody, Holds, Posting, NotLinking, Uses
  <2> QED BY <1>1, <2>1, <2>2 DEF RecordFit, Stage, Unused
<1> QED BY <1>2, <1>3, <1>4 DEF RecordsInv

LEMMA NamedStarts ==
    ASSUME NEW running \in SUBSET Tasks, Fresh(running), NamedInit
    PROVE  NamedInv
<1>1. /\ NoEntry \in EntryType /\ NoEntry.references = 0 /\ NoEntry.held = 0
      /\ NoEntry.name = NoName
  BY DEF NoEntry, EntryType
<1>2. NamedType
  BY <1>1 DEF NamedType, NamedInit, Fresh, NamedCalls
<1>3. UsesFit
  BY DEF UsesFit, Fresh
<1>4. \A e \in Entries : table[e] = NoEntry
  BY DEF NamedInit
<1>5. ASSUME NEW e \in Entries
      PROVE  EntryFit(e)
  <2>1. \A t \in Tasks : ~Deletes(t, e)
    BY DEF Fresh, Deletes, DeletingOps
  <2>2. \A t \in Tasks : w.on[t] # e
    BY PosixNamedAssumption DEF Fresh
  <2> HIDE DEF NoEntry
  <2> QED BY <1>1, <1>4, <2>1, <2>2 DEF EntryFit
<1>6. OneOfAName
  BY <1>1, <1>4 DEF OneOfAName
<1> QED BY <1>2, <1>3, <1>5, <1>6 DEF NamedInv

\* No key is used, and a thread that has not started has no values.
LEMMA KeysStart ==
    ASSUME NEW running \in SUBSET Tasks, Fresh(running), KeyInit
    PROVE  KeysInv /\ KeysIdle
<1>1. PICK n \in KeyCounts :
         key = [s \in 0 .. n - 1 |-> [used |-> FALSE, generation |-> 0, destructor |-> FALSE]]
  BY DEF KeyInit
<1>2. n \in Nat
  BY PosixKeysAssumption
<1>3. Keys = 0 .. n - 1
  BY <1>1 DEF Keys
<1>4. NoKey = n
  <2>1. Cardinality(0 .. n - 1) = IF 0 > n - 1 THEN 0 ELSE n - 1 - 0 + 1
    BY <1>2, FS_Interval
  <2> QED BY <1>2, <1>3, <2>1 DEF NoKey
<1>5. specific = [t \in Tasks |->
          [value |-> [s \in Keys |-> 0], generation |-> [s \in Keys |-> 0],
           storing |-> NoKey, crossed |-> {}, leftover |-> FALSE]]
  BY DEF KeyInit
<1> DEFINE zeros == [s \in Keys |-> 0]
<1> DEFINE empty == [value |-> zeros, generation |-> zeros, storing |-> NoKey,
                     crossed |-> {}, leftover |-> FALSE]
<1>6. zeros \in [Keys -> Nat] /\ \A s \in Keys : zeros[s] = 0
  OBVIOUS
<1>7. \A t \in Tasks : specific[t] = empty
  BY <1>5
<1> HIDE DEF zeros
<1>8. empty \in SpecificType /\ empty.storing = NoKey /\ empty.generation = zeros
  BY <1>6 DEF SpecificType
<1> HIDE DEF empty
<1>9. specific \in [Tasks -> SpecificType]
  BY <1>5, <1>8 DEF empty, zeros
<1>10. /\ key \in [Keys -> KeyType]
       /\ \A s \in Keys : ~key[s].used /\ key[s].generation = 0
  BY <1>1, <1>3 DEF KeyType
<1>11. call \in [Tasks -> KeyCalls] /\ w \in WaitingType
  BY DEF Fresh, KeyCalls
<1>12. KeysType
  BY <1>2, <1>3, <1>4, <1>9, <1>10, <1>11 DEF KeysType
<1>13. NoKey \notin Keys
  BY <1>2, <1>3, <1>4
<1>14. ASSUME NEW t \in Tasks
       PROVE  DestructionFit(t)
  <2>1. \A s \in Keys : ~ToBeDestroyed(t, s)
    BY <1>10 DEF ToBeDestroyed, Specific
  <2>2. specific[t].storing = NoKey
    BY <1>7, <1>8
  <2> QED BY <2>1, <2>2 DEF DestructionFit, Fresh, KeyOps
<1>15. ASSUME NEW t \in Tasks, NEW s \in Keys
       PROVE  StoredFit(t, s)
  <2>1. specific[t].generation[s] = 0 /\ specific[t].storing # s
    BY <1>6, <1>7, <1>8, <1>13
  <2>2. specific[t].value[s] = 0
    BY <1>6, <1>7 DEF empty
  <2> QED BY <1>10, <2>1, <2>2 DEF StoredFit
<1> QED BY <1>10, <1>12, <1>14, <1>15 DEF KeysInv, KeysIdle

LEMMA Starts ==
    ASSUME Init
    PROVE  KindInv
<1>1. PICK running \in SUBSET Tasks :
         Fresh(running) /\ (kind \notin {"thread", "key"} => running = Tasks)
  BY InitFresh
<1>2. /\ kind \in Kinds /\ SyncInit /\ ThreadInit /\ NamedInit /\ KeyInit /\ MutexInit
      /\ kind # "mutex" => pmutex.type = "NORMAL"
  BY DEF Init
<1>3. kind \in SyncKinds => SyncInv /\ Owned
  BY <1>1, <1>2, SyncStarts DEF SyncKinds
<1>4. RecordsInv /\ NamedInv /\ KeysInv /\ KeysIdle
  BY <1>1, <1>2, RecordsStart, NamedStarts, KeysStart
<1>5. CASE kind = "mutex"
  <2>1. w = [AllOff EXCEPT !.mode = [t \in Tasks |-> "active"]]
    <3>1. PICK r \in SUBSET Tasks :
             /\ CASE kind = "thread" -> Cardinality(r) = 1
                  [] kind = "key" -> Cardinality(r) \in {1, 2}
                  [] OTHER -> r = Tasks
             /\ w = [AllOff EXCEPT !.mode = [t \in Tasks |->
                                        IF t \in r THEN "active" ELSE "off"]]
      BY DEF Init
    <3>2. r = Tasks
      BY <1>5, <3>1
    <3>3. [t \in Tasks |-> IF t \in r THEN "active" ELSE "off"] = [t \in Tasks |-> "active"]
      BY <3>2
    <3> QED BY <3>1, <3>3
  <2>2. MutexStart
    BY <1>2, <2>1 DEF MutexStart, Init
  <2>3. LayersInv
    BY <2>2, MutexStarts
  <2> QED BY <1>2, <1>4, <1>5, <2>3 DEF KindInv, SyncKinds
<1>6. CASE kind # "mutex"
  <2>1. MutexIdle
    BY <1>2, <1>6 DEF MutexInit, MutexIdle
  <2> QED BY <1>2, <1>3, <1>4, <1>6, <2>1 DEF KindInv
<1> QED BY <1>5, <1>6

\* A step of one kind of object changes nothing of the others.
LEMMA KindStep ==
    ASSUME KindInv, Next
    PROVE  KindInv'
<1>1. CASE /\ kind \in {"condition", "barrier", "rwlock"}
           /\ \E t \in Tasks :
                 \/ GoOn(t) \/ WaitFails(t)
                 \/ kind = "condition" /\ CondCalls(t)
                 \/ kind = "barrier" /\ BarrierWait(t)
                 \/ kind = "rwlock" /\ RwCalls(t)
           /\ UNCHANGED <<rec, table, keyVars, pmutex>> /\ UNCHANGED kind
  <2>1. SyncInv' /\ Owned'
    BY <1>1, SyncStep, OwnedStep DEF KindInv, SyncKinds, SyncAction
  <2> QED BY <1>1, <2>1
          DEF KindInv, SyncKinds, MutexIdle, ThreadInit, NamedInit, KeysIdle, keyVars, Keys
<1>2. CASE /\ kind = "mutex" /\ MutexNext
           /\ UNCHANGED <<syncVars, rec, table, keyVars>> /\ UNCHANGED kind
  <2>1. LayersInv'
    BY <1>2, MutexStep DEF KindInv
  <2> QED BY <1>2, <2>1
          DEF KindInv, SyncKinds, SyncInit, syncVars, ThreadInit, NamedInit, KeysIdle, keyVars,
              Keys
<1>3. CASE /\ kind = "thread"
           /\ \/ ThreadNext
              \/ \E t \in Tasks : Interrupted(t) /\ UNCHANGED <<call, rec>>
           /\ UNCHANGED <<syncVars, table, keyVars, pmutex>> /\ UNCHANGED kind
  <2>1. RecordsInv'
    BY <1>3, ThreadStep DEF KindInv
  <2> QED BY <1>3, <2>1
          DEF KindInv, SyncKinds, SyncInit, syncVars, MutexIdle, NamedInit, KeysIdle, keyVars,
              Keys
<1>4. CASE /\ kind = "named" /\ NamedNext
           /\ UNCHANGED <<syncVars, rec, keyVars, pmutex>> /\ UNCHANGED kind
  <2>1. NamedInv'
    BY <1>4, NamedStep DEF KindInv
  <2> QED BY <1>4, <2>1
          DEF KindInv, SyncKinds, SyncInit, syncVars, MutexIdle, ThreadInit, KeysIdle, keyVars,
              Keys
<1>5. CASE /\ kind = "key" /\ KeyNext
           /\ UNCHANGED <<syncVars, rec, table, pmutex>> /\ UNCHANGED kind
  <2>1. KeysInv'
    BY <1>5, KeyStep DEF KindInv
  <2> QED BY <1>5, <2>1
          DEF KindInv, SyncKinds, SyncInit, syncVars, MutexIdle, ThreadInit, NamedInit
<1> QED BY <1>1, <1>2, <1>3, <1>4, <1>5 DEF Next

LEMMA KindStutter ==
    ASSUME KindInv, UNCHANGED vars
    PROVE  KindInv'
<1>1. (SyncInv /\ Owned)' <=> SyncInv /\ Owned
  BY DEF vars, SyncInv, SyncType, SyncWaits, WaitFit, Counted, Awaiting, Awaits, RwCounted,
         RwExcluded, RwExact, Unheld, WritersWaiting, Fit, Writing, Updating, Owned, Holding
<1>2. LayersInv' <=> LayersInv
  BY DEF vars, LayersInv, TypeInv, WaitInv, OwnerInv, ThreadInv, Settled, Arriving, Stranger
<1>3. RecordsInv' <=> RecordsInv
  <2>1. \A h \in Tasks : RecordFit(h)' <=> RecordFit(h)
    BY DEF vars, RecordFit, EndedEarly, Stage, Unused, Starting, Running, Ending, Detached,
           Kept, Unlinked, EndingItself, Freed, Joinable, Unanswered, Alone, Holds, Uses,
           Nobody, Posting, NotLinking
  <2> QED BY <2>1 DEF vars, RecordsInv, ThreadsType, JoinsFit
<1>4. NamedInv' <=> NamedInv
  BY DEF vars, NamedInv, NamedType, UsesFit, EntryFit, Deletes, OneOfAName
<1>5. KeysInv' <=> KeysInv
  BY DEF vars, keyVars, KeysInv, KeysType, DestructionFit, StoredFit, ToBeDestroyed, Specific,
         Keys, NoKey, SpecificType
<1> QED BY <1>1, <1>2, <1>3, <1>4, <1>5
        DEF vars, keyVars, KindInv, SyncInit, MutexIdle, ThreadInit, NamedInit, KeysIdle, Keys

-----------------------------------------------------------------------------
(* The theorems.                                                           *)

\* compat/posix/posix.c and posix/src: the invariant of every behaviour of the
\* POSIX objects.
THEOREM ObjectsInvariant == Spec => []KindInv
<1>1. Init => KindInv
  BY Starts
<1>2. KindInv /\ [Next]_vars => KindInv'
  BY KindStep, KindStutter
<1> QED BY <1>1, <1>2, PTL DEF Spec

\* cond_wait_common, aixos_pthread_cond_signal and _broadcast (posix.c, lines
\* 756 to 860): whatever threads wait, time out, are interrupted or signal, in
\* whatever order, each thread on its way to sleep is still counted as a waiter
\* or a post is there for it.
THEOREM NoSignalLostCorrect == Spec => []NoSignalLost
<1>1. KindInv => NoSignalLost
  BY SyncKept
<1> QED BY <1>1, ObjectsInvariant, PTL

\* rwlock_rdlock_common, rwlock_wrlock_common and aixos_pthread_rwlock_unlock
\* (posix.c, lines 932 to 1077): writers exclude readers, always, and the count
\* of waiting writers, which holds readers off, is that of the writers in the
\* loop, however their waits end, until the two halves of an update of line 1016,
\* which runs without the mutex, have another update between them.
THEOREM RwlockCorrect == Spec => []RwlockExact
<1>1. KindInv => RwlockExact
  BY SyncKept
<1> QED BY <1>1, ObjectsInvariant, PTL

\* aixos_pthread_create, _exit, _join and _detach (posix.c, lines 114 to 350):
\* the record of a thread is freed once, by one task, and nobody uses it then,
\* but in the two cases that RecordsFreedOnce excludes.
THEOREM RecordsFreedOnceCorrect == Spec => []RecordsFreedOnce
<1>1. KindInv => RecordsFreedOnce
  BY RecordsKept
<1> QED BY <1>1, ObjectsInvariant, PTL

\* sem_open, sem_close and sem_unlink, and those of message queues: references
\* are exact, one task deletes an object, and an object that is referred to or
\* waited for exists, for any number of tasks, entries and names.
THEOREM NamedCorrect == Spec => []NamedExact
<1>1. KindInv => NamedExact
  BY NamedKept
<1> QED BY <1>1, ObjectsInvariant, PTL

\* aixos_pthread_key_create and _delete, aixos_pthread_setspecific and
\* run_key_destructors: a thread sees no value of an earlier key, no destructor
\* gets one, and none is left when a thread is over, unless a key was deleted
\* while it was being used or the rounds ran out.
THEOREM KeyValuesCorrect == Spec => []KeyValuesExact
<1>1. KindInv => KeyValuesExact
  BY KeysKeptExact
<1> QED BY <1>1, ObjectsInvariant, PTL

\* aixos_pthread_mutex_lock and _unlock, among the other objects: the owner and
\* the count of the POSIX layer agree with those of the kernel.
THEOREM MutexLayersCorrect == Spec => []MutexLayersAgree
<1>1. KindInv => MutexLayersAgree
  BY LayersKept
<1> QED BY <1>1, ObjectsInvariant, PTL
=============================================================================
