----------------------------- MODULE PosixNamed -----------------------------
(***************************************************************************)
(* POSIX named semaphores and message queues (posix/src/semaphore.c,       *)
(* posix/src/mqueue.c): a table of entries, each with a kernel object, a   *)
(* count of references and a mark that its name has been unlinked.  The    *)
(* two files differ in nothing that matters here.                          *)
(*                                                                         *)
(* The object is deleted outside the critical section, and the deletion is *)
(* refused while a task waits.  call[t].op, with the entry call[t].on:     *)
(*   close_delete, unlink_delete  is about to delete the object            *)
(*   erase                        has deleted it                           *)
(*   restore                      could not, and takes its reference again *)
(*   use                          waits for the object                     *)
(* A descriptor is a pointer to the entry, or the handle of its object.    *)
(* The tasks share their descriptors, as threads of one process do, and    *)
(* close each as often as they have opened it.                             *)
(***************************************************************************)
EXTENDS Calls

CONSTANTS
    Entries,       \* of the table; the wait list of its object has its name
    Names, NoName,
    MaxReferences  \* UINT16_MAX

ASSUME PosixNamedAssumption ==
    /\ Entries \subseteq WaitLists /\ NoList \notin WaitLists
    /\ NoName \notin Names

\* Per entry, its name (NoName if it is not used), the references, whether the
\* name has been unlinked, and whether the object exists; held is history: how
\* often the descriptor has been opened and not yet closed.
VARIABLE table

NoEntry ==
    [name |-> NoName, references |-> 0, unlinked |-> FALSE, live |-> FALSE, held |-> 0]

NamedInit == table = [e \in Entries |-> NoEntry]

\* find_name
Named(name) == {e \in Entries : table[e].name = name /\ ~table[e].unlinked}

FreeEntries == {e \in Entries : table[e].name = NoName}

About(t, op, e) == Goto(t, [op |-> op, what |-> "named", on |-> e])

-----------------------------------------------------------------------------
(* sem_open and mq_open: one critical section.  Opening with O_CREAT and   *)
(* O_EXCL what exists changes nothing.                                     *)

OpenExisting(t, name) ==
    /\ Free(t)
    /\ \E e \in Named(name) :
          /\ table[e].references # MaxReferences
          /\ table' = [table EXCEPT ![e].references = @ + 1, ![e].held = @ + 1]
    /\ UNCHANGED <<w, call>>

OpenNew(t, name) ==
    /\ Free(t) /\ Named(name) = {}
    /\ \E e \in FreeEntries :
          table' = [table EXCEPT ![e] =
                       [NoEntry EXCEPT !.name = name, !.references = 1,
                                       !.live = TRUE, !.held = 1]]
    /\ UNCHANGED <<w, call>>

-----------------------------------------------------------------------------
(* sem_close and mq_close, sem_unlink and mq_unlink.                       *)

\* The caller uses the descriptor no more from here on.
Close(t, e) ==
    /\ Free(t) /\ table[e].held > 0 /\ table[e].references # 0
    /\ table' = [table EXCEPT ![e].references = @ - 1, ![e].held = @ - 1]
    /\ IF table[e].references = 1 /\ table[e].unlinked
       THEN About(t, "close_delete", e)
       ELSE UNCHANGED call
    /\ UNCHANGED w

\* Faulty: what is unlinked is deleted at once.
UnlinkedAtOnce(t, e) == About(t, "unlink_delete", e)

\* An unlinked object goes when nothing refers to it.
UnlinkedFrom(t, e) ==
    IF table[e].references = 0 THEN About(t, "unlink_delete", e) ELSE UNCHANGED call

Unlink(t, name) ==
    /\ Free(t)
    /\ \E e \in Named(name) :
          /\ table' = [table EXCEPT ![e].unlinked = TRUE]
          /\ UnlinkedFrom(t, e)
    /\ UNCHANGED w

\* aixos_sem_delete, aixos_mq_delete
DeleteObject(t) ==
    /\ \/ At(t, "close_delete")
       \/ At(t, "unlink_delete")
    /\ LET e == call[t].on
       IN  IF table[e].live /\ WaitersOf(w, e) = {}
           THEN /\ table' = [table EXCEPT ![e].live = FALSE]
                /\ About(t, "erase", e)
           ELSE /\ IF call[t].op = "close_delete" THEN About(t, "restore", e) ELSE Return(t)
                /\ UNCHANGED table
    /\ UNCHANGED w

Erase(t) ==
    /\ At(t, "erase")
    /\ table' = [table EXCEPT ![call[t].on] = NoEntry]
    /\ Return(t)
    /\ UNCHANGED w

\* The call fails, and the caller still has its descriptor.
Restore(t) ==
    /\ At(t, "restore")
    /\ table' = [table EXCEPT ![call[t].on].references = 1, ![call[t].on].held = 1]
    /\ Return(t)
    /\ UNCHANGED w

-----------------------------------------------------------------------------
(* A task waits for the object; another may close the descriptor meanwhile.*)

NamedUse(t, e) ==
    /\ Free(t) /\ table[e].held > 0 /\ table[e].live
    /\ w' = BlockOn(w, t, e, TRUE)
    /\ About(t, "use", e)
    /\ UNCHANGED table

NamedUsed(t) ==
    /\ At(t, "use")
    /\ Return(t)
    /\ UNCHANGED <<w, table>>

\* A post or a message, a timeout or a suspension ends the wait.
NamedWake(t) ==
    /\ WakeBy(t) \/ TimeOut(t) \/ Interrupted(t)
    /\ UNCHANGED <<call, table>>

NamedNext ==
    \E t \in Tasks :
        \/ DeleteObject(t) \/ Erase(t) \/ Restore(t) \/ NamedUsed(t) \/ NamedWake(t)
        \/ \E name \in Names : OpenExisting(t, name) \/ OpenNew(t, name) \/ Unlink(t, name)
        \/ \E e \in Entries : Close(t, e) \/ NamedUse(t, e)

-----------------------------------------------------------------------------

Deleting(e) ==
    {t \in Tasks : /\ call[t].op \in {"close_delete", "unlink_delete", "erase", "restore"}
                   /\ call[t].on = e}

\* sem_unlink or mq_unlink has failed because a task waits for an object that
\* nobody has open: the entry has lost its name and nothing can free it.
Stranded(e) == table[e].unlinked /\ table[e].references = 0 /\ Deleting(e) = {}

\* posix/src/semaphore.c, lines 123 to 184, and posix/src/mqueue.c, lines 130
\* to 192: however opens, closes and unlinks interleave with a deletion that is
\* under way or fails, an object that is open exists and is counted right, a
\* name means one object, one task deletes an object, nothing refers to an
\* entry that is deleted, and no object outlives its entry or waits for one
\* that is gone.
NamedExact ==
    /\ \A e \in Entries :
          /\ table[e].references = table[e].held
          /\ table[e].held > 0 => table[e].live
          /\ WaitersOf(w, e) # {} => table[e].live
          /\ Cardinality(Deleting(e)) <= 1
          /\ Deleting(e) # {} => table[e].unlinked /\ table[e].references = 0
          /\ ~table[e].live => table[e] = NoEntry \/ Deleting(e) # {}
          /\ Stranded(e) => table[e].live
    /\ \A name \in Names : Cardinality(Named(name)) <= 1
=============================================================================
