-------------------------- MODULE CountingSemaphore --------------------------
(***************************************************************************)
(* What a semaphore promises.  It is created with some permissions; every  *)
(* post that is answered OK adds one, which goes to a task that waits, or  *)
(* else to the next one that comes; every wait that is answered OK uses    *)
(* one up.  Nothing else adds or takes a permission.  No task waits while  *)
(* there is one to take, and a task that gives up takes none.              *)
(*                                                                         *)
(* permits counts by the answers alone: the permissions that creation and  *)
(* posts have promised and no wait has been answered with.  By the actions *)
(* it is always value + Cardinality(granted): the permissions are all      *)
(* there, those nobody has taken and those on their way to a task.         *)
(***************************************************************************)
EXTENDS Integers

CONSTANTS Tasks, MaxValue

VARIABLES
    exists,   \* the semaphore has been created and not been deleted
    value,    \* permissions nobody has taken
    waiters,  \* tasks that wait for one
    granted,  \* tasks that waited, were given one and are about to return
    permits   \* permissions promised and not yet received

vars == <<exists, value, waiters, granted, permits>>

Init == ~exists /\ value = 0 /\ waiters = {} /\ granted = {} /\ permits = 0

Create(n) ==
    /\ ~exists /\ exists'
    /\ value' = n
    /\ permits' = permits + n
    /\ UNCHANGED <<waiters, granted>>

\* Nobody may wait for it; the permissions nobody has taken go with it.
Delete ==
    /\ exists /\ ~exists'
    /\ waiters = {}
    /\ value' = 0
    /\ permits' = permits - value
    /\ UNCHANGED <<waiters, granted>>

\* A wait is answered OK at once.
Take ==
    /\ exists /\ value > 0
    /\ value' = value - 1
    /\ permits' = permits - 1
    /\ UNCHANGED <<exists, waiters, granted>>

Enter(t) ==
    /\ exists /\ value = 0
    /\ t \notin waiters \union granted
    /\ waiters' = waiters \union {t}
    /\ UNCHANGED <<exists, value, granted, permits>>

\* A post is answered OK: its permission is kept when nobody waits ...
Post ==
    /\ exists /\ waiters = {}
    /\ value < MaxValue
    /\ value' = value + 1
    /\ permits' = permits + 1
    /\ UNCHANGED <<exists, waiters, granted>>

\* ... and goes to one task that waits otherwise.
HandOver(t) ==
    /\ exists /\ t \in waiters
    /\ waiters' = waiters \ {t}
    /\ granted' = granted \union {t}
    /\ permits' = permits + 1
    /\ UNCHANGED <<exists, value>>

GiveUp(t) ==
    /\ t \in waiters
    /\ waiters' = waiters \ {t}
    /\ UNCHANGED <<exists, value, granted, permits>>

\* The task returns with its permission, or is deleted before it can.
Leave(t) ==
    /\ t \in granted
    /\ granted' = granted \ {t}
    /\ permits' = permits - 1
    /\ UNCHANGED <<exists, value, waiters>>

Next ==
    \/ \E n \in 0 .. MaxValue : Create(n)
    \/ Delete \/ Take \/ Post
    \/ \E t \in Tasks : Enter(t) \/ HandOver(t) \/ GiveUp(t) \/ Leave(t)

Spec == Init /\ [][Next]_vars
=============================================================================
