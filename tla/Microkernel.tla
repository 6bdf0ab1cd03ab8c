----------------------------- MODULE Microkernel -----------------------------
(***************************************************************************)
(* The services of user tasks: capabilities, the name service, semaphores  *)
(* and queues behind capabilities, and synchronous messages.  Sources:     *)
(* kernel/microkernel.c and kernel/namespace.c.                            *)
(*                                                                         *)
(* A service runs in the handler of the supervisor call.  No other task    *)
(* runs before it returns, not even when it blocks its caller: it changes  *)
(* the state of the task, computes the result, and the switch is taken on  *)
(* the way out.  So every service is one step, and a task that blocked in  *)
(* one has no more to do in it when it runs again: what ended its wait     *)
(* makes no difference.                                                    *)
(***************************************************************************)
EXTENDS Waiting, Naturals, FiniteSets, SequencesExt

CONSTANTS
    NoReceiver,   \* the NULL receiver of a channel
    SemList,      \* the wait list of the semaphore
    SemMaxCount,  \* AIXOS_CFG_SEM_MAX_COUNT
    Names,        \* names of the name service
    MaxHandles,   \* bound on the creations in one slot
    Setups        \* sizes of the tables: see Tables

\* The tables of a behaviour: objects (semaphores and queues), caps
\* (AIXOS_CFG_CAPS_PER_TASK), channels, connections, messages
\* (AIXOS_MAX_CHANNELS, _CONNECTIONS, _PENDING_MSGS), names
\* (AIXOS_CFG_NAMESPACE_MAX); a bound on the tasks that exist, users; and
\* whether the tasks also sleep.  There is at most one slot for objects, so
\* that one wait list is enough.
VARIABLES
    setup,      \* the sizes of the tables
    caps,       \* tcb->capabilities
    object,     \* slots of semaphores and queues
    channel, connection, message,
    name,       \* ns_table
    overtaken   \* receivers that sleep and are no longer registered

tables == <<object, channel, connection, message, name>>
vars == <<w, setup, caps, tables, overtaken>>

Indices(size) == 0 .. size - 1

NoCap == [type |-> "unused", object |-> <<>>, rights |-> {}]

EmptyCaps == [i \in Indices(setup.caps) |-> NoCap]

Init ==
    /\ WaitInit
    /\ setup \in Setups
    /\ caps = [t \in Tasks |-> EmptyCaps]
    /\ object = [i \in Indices(setup.objects) |->
                    [used |-> FALSE, gen |-> 0, type |-> "unused", count |-> 0]]
    /\ channel = [i \in Indices(setup.channels) |->
                    [used |-> FALSE, pending |-> <<>>, receiver |-> NoReceiver]]
    /\ connection = [i \in Indices(setup.connections) |->
                    [used |-> FALSE, channel |-> 0]]
    /\ message = [i \in Indices(setup.messages) |-> [used |-> FALSE]]
    /\ name = [i \in Indices(setup.names) |-> [used |-> FALSE]]
    /\ overtaken = {}

-----------------------------------------------------------------------------
(* Tasks.                                                                  *)

Free(t) == w.mode[t] = "active"

\* The caller blocks.  What it waits for is wait_obj: the semaphore, by its
\* wait list, a channel, a message, or nothing in a sleep.
BlocksFor(ww, t, waitObj) == w' = BlockOn(ww, t, waitObj, FALSE)

OnChannel(i) == <<"channel", i>>
OnMessage(m) == <<"message", m>>

\* Pointers to different objects differ, and the NULL receiver is not a task.
ASSUME MicrokernelAssumption ==
    /\ SemMaxCount \in Nat /\ NoReceiver \notin Tasks
    /\ \A s \in Setups :
          /\ {s.objects, s.caps, s.channels, s.connections, s.messages, s.names} \subseteq Nat
          /\ \A i \in 0 .. s.channels - 1 : OnChannel(i) \notin {NoList, SemList}

\* The tasks that sleep in a receive from a channel.
Receivers(i) == WaitersOf(w, OnChannel(i))

-----------------------------------------------------------------------------
(* Tables and capabilities.                                                *)

FreeIndices(table) == {i \in DOMAIN table : ~table[i].used}

LeastOf(S) == CHOOSE i \in S : \A j \in S : i <= j

\* Faulty: an object whose capability cannot be granted is left in its table.
ReleasedNever(table, i) == table

\* The entry is given back, after a failure or at the end.
Released(table, i) == [table EXCEPT ![i].used = FALSE]

\* Semaphores and queues are named by their handles; channels and connections
\* by their bare indices.
ObjectOf(i) == <<i, object'[i].gen>>
IndexOnly(i) == <<i>>

FreeCaps(t) == {i \in DOMAIN caps[t] : caps[t][i] = NoCap}

\* cap_grant and cap_grant_direct, when there is room.
CapGrant(t, type, obj, rights) ==
    caps' = [caps EXCEPT ![t][LeastOf(FreeCaps(t))] =
                [type |-> type, object |-> obj, rights |-> rights]]

\* cap_resolve
CapResolves(t, c, type, right) ==
    caps[t][c].type = type /\ right \in caps[t][c].rights

CapIndex(t, c) == caps[t][c].object[1]

CapClosed(t, c) == caps' = [caps EXCEPT ![t][c] = NoCap]

\* sc_cap_close: the object stays.
CapClose(t, c) ==
    /\ Free(t)
    /\ caps[t][c] # NoCap
    /\ CapClosed(t, c)
    /\ UNCHANGED <<w, setup, tables>>

-----------------------------------------------------------------------------
(* Semaphores and message queues.                                          *)

ObjectRights(type) ==
    IF type = "sem" THEN {"wait", "signal", "control"} ELSE {"read", "write", "control"}

\* sc_sem_create and sc_mq_create: create the object, grant a capability,
\* delete the object when that fails.
ObjectCreate(t, type, n) ==
    /\ Free(t)
    /\ FreeIndices(object) # {}
    /\ LET i == LeastOf(FreeIndices(object))
           created == [object EXCEPT ![i] =
                         [used |-> TRUE, gen |-> @.gen + 1, type |-> type,
                          count |-> n]]
       IN  /\ object[i].gen < MaxHandles
           /\ IF FreeCaps(t) = {}
              THEN object' = Released(created, i) /\ UNCHANGED caps
              ELSE /\ object' = created
                   /\ CapGrant(t, type, ObjectOf(i), ObjectRights(type))
    /\ UNCHANGED <<w, setup, channel, connection, message, name>>

\* The handle in the capability still names an object of this type.
Live(t, c) ==
    LET i == CapIndex(t, c)
    IN  object[i].used /\ caps[t][c].object = <<i, object[i].gen>>

\* sc_sem_wait; a wait with timeout 0 that finds nothing changes nothing.
SemWait(t, c) ==
    /\ Free(t)
    /\ CapResolves(t, c, "sem", "wait") /\ Live(t, c)
    /\ LET i == CapIndex(t, c)
       IN  IF object[i].count > 0
           THEN object' = [object EXCEPT ![i].count = @ - 1] /\ UNCHANGED w
           ELSE BlocksFor(w, t, SemList) /\ UNCHANGED object
    /\ UNCHANGED <<setup, caps, channel, connection, message, name>>

\* sc_sem_post
SemPost(t, c) ==
    /\ Free(t)
    /\ CapResolves(t, c, "sem", "signal") /\ Live(t, c)
    /\ LET i == CapIndex(t, c)
       IN  IF WaitersOf(w, SemList) # {}
           THEN /\ \E waiter \in WaitersOf(w, SemList) : w' = Wake(w, waiter, "OK")
                /\ UNCHANGED object
           ELSE /\ object[i].count # SemMaxCount
                /\ object' = [object EXCEPT ![i].count = @ + 1]
                /\ UNCHANGED w
    /\ UNCHANGED <<setup, caps, channel, connection, message, name>>

\* sc_sem_delete and sc_mq_delete: the caller's capability is closed once the
\* object is gone.
ObjectDelete(t, c, type) ==
    /\ Free(t)
    /\ CapResolves(t, c, type, "control") /\ Live(t, c)
    /\ WaitersOf(w, SemList) = {}
    /\ object' = Released(object, CapIndex(t, c))
    /\ CapClosed(t, c)
    /\ UNCHANGED <<w, setup, channel, connection, message, name>>

\* sc_sleep
Sleep(t) ==
    /\ setup.sleeps
    /\ Free(t)
    /\ BlocksFor(w, t, NoList)
    /\ UNCHANGED <<setup, caps, tables>>

-----------------------------------------------------------------------------
(* Channels and connections.                                               *)

\* sc_channel_create: an entry is used again with its old messages forgotten.
ChannelCreate(t) ==
    /\ Free(t)
    /\ FreeIndices(channel) # {}
    /\ LET i == LeastOf(FreeIndices(channel))
           created == [channel EXCEPT ![i] =
                         [used |-> TRUE, pending |-> <<>>, receiver |-> NoReceiver]]
       IN  IF FreeCaps(t) = {}
           THEN channel' = Released(created, i) /\ UNCHANGED caps
           ELSE /\ channel' = created
                /\ CapGrant(t, "channel", IndexOnly(i), {"read", "write", "control"})
    /\ UNCHANGED <<w, setup, object, connection, message, name>>

\* sc_channel_destroy: nobody is woken, and connections stay.
ChannelDestroy(t, c) ==
    /\ Free(t)
    /\ CapResolves(t, c, "channel", "control") /\ channel[CapIndex(t, c)].used
    /\ channel' = Released(channel, CapIndex(t, c))
    /\ CapClosed(t, c)
    /\ UNCHANGED <<w, setup, object, connection, message, name>>

\* sc_connect
Connect(t, c) ==
    /\ Free(t)
    /\ CapResolves(t, c, "channel", "read") /\ channel[CapIndex(t, c)].used
    /\ FreeIndices(connection) # {}
    /\ LET i == LeastOf(FreeIndices(connection))
           created == [connection EXCEPT ![i] =
                         [used |-> TRUE, channel |-> CapIndex(t, c)]]
       IN  IF FreeCaps(t) = {}
           THEN connection' = Released(created, i) /\ UNCHANGED caps
           ELSE /\ connection' = created
                /\ CapGrant(t, "connection", IndexOnly(i), {"write", "signal", "control"})
    /\ UNCHANGED <<w, setup, object, channel, message, name>>

\* sc_disconnect: messages that were sent on the connection stay.
Disconnect(t, c) ==
    /\ Free(t)
    /\ CapResolves(t, c, "connection", "control") /\ connection[CapIndex(t, c)].used
    /\ connection' = Released(connection, CapIndex(t, c))
    /\ CapClosed(t, c)
    /\ UNCHANGED <<w, setup, object, channel, message, name>>

-----------------------------------------------------------------------------
(* Synchronous messages.                                                   *)

\* Faulty: the receiver is left asleep.
WokenReceiverNone(ww, i) == ww

\* The receiver that is registered is woken.  By then it may wait for
\* something else, or not at all.
WokenReceiver(ww, i) ==
    IF channel[i].receiver = NoReceiver THEN ww
    ELSE Wake(ww, channel[i].receiver, "OK")

\* sc_msg_send: the message is linked, the receiver woken, the sender blocked
\* until it is replied to.
MsgSend(t, c) ==
    /\ Free(t)
    /\ CapResolves(t, c, "connection", "write") /\ connection[CapIndex(t, c)].used
    /\ FreeIndices(message) # {}
    /\ LET m == LeastOf(FreeIndices(message))
           i == connection[CapIndex(t, c)].channel
       IN  /\ message' = [message EXCEPT ![m] =
                            [used |-> TRUE, connection |-> CapIndex(t, c),
                             sender |-> t, received |-> FALSE]]
           /\ channel' = [channel EXCEPT ![i].pending = Append(@, m),
                                         ![i].receiver = NoReceiver]
           /\ BlocksFor(WokenReceiver(w, i), t, OnMessage(m))
    /\ UNCHANGED <<setup, caps, object, connection, name>>

\* sc_msg_receive: the first message is unlinked, or the caller is registered
\* and blocked.  It is the caller's business to call again once it is woken.
MsgReceive(t, c) ==
    /\ Free(t)
    /\ CapResolves(t, c, "channel", "read") /\ channel[CapIndex(t, c)].used
    /\ LET i == CapIndex(t, c)
       IN  IF channel[i].pending # <<>>
           THEN /\ channel' = [channel EXCEPT ![i].pending = Tail(@)]
                /\ message' = [message EXCEPT ![Head(channel[i].pending)].received = TRUE]
                /\ UNCHANGED w
           ELSE /\ channel' = [channel EXCEPT ![i].receiver = t]
                /\ BlocksFor(w, t, OnChannel(i))
                /\ UNCHANGED message
    /\ UNCHANGED <<setup, caps, object, connection, name>>

\* The messages of a connection that a reply can find: those that are linked.
Linked(i, conn) == {n \in DOMAIN channel[i].pending :
                       message[channel[i].pending[n]].connection = conn}

\* sc_msg_reply: the first message of the connection is unlinked and its
\* sender woken.  The answer is copied first, which may fail when the sender
\* is gone.
MsgReply(t, c) ==
    /\ Free(t)
    /\ CapResolves(t, c, "connection", "signal") /\ connection[CapIndex(t, c)].used
    /\ LET conn == CapIndex(t, c)
           i == connection[conn].channel
           n == LeastOf(Linked(i, conn))
           m == channel[i].pending[n]
           sender == message[m].sender
       IN  /\ Linked(i, conn) # {}
           /\ channel' = [channel EXCEPT ![i].pending = RemoveAt(@, n)]
           /\ \/ w' = Wake(w, sender, "OK") /\ message' = [message EXCEPT ![m] = [used |-> FALSE]]
              \/ w.mode[sender] = "off" /\ UNCHANGED <<w, message>>
    /\ UNCHANGED <<setup, caps, object, connection, name>>

-----------------------------------------------------------------------------
(* The name service, called by code of the kernel.                         *)

\* aixos_namespace_register: the search for the name ends at the first free
\* entry.
NamespaceRegister(n, cap) ==
    /\ FreeIndices(name) # {}
    /\ LET i == LeastOf(FreeIndices(name))
       IN  /\ \A j \in Indices(i) : name[j].name # n
           /\ name' = [name EXCEPT ![i] = [used |-> TRUE, name |-> n, cap |-> cap]]
    /\ UNCHANGED <<w, setup, caps, object, channel, connection, message>>

\* The entry that a search for a name finds.
Entries(n) == {i \in DOMAIN name : name[i].used /\ name[i].name = n}

NamespaceUnregister(n) ==
    /\ Entries(n) # {}
    /\ name' = [name EXCEPT ![LeastOf(Entries(n))] = [used |-> FALSE]]
    /\ UNCHANGED <<w, setup, caps, object, channel, connection, message>>

\* aixos_namespace_open: the capability has all the rights of the entry.
NamespaceOpen(t, n) ==
    /\ Free(t)
    /\ Entries(n) # {}
    /\ FreeCaps(t) # {}
    /\ LET entry == name[LeastOf(Entries(n))].cap
       IN  CapGrant(t, entry.type, entry.object, entry.rights)
    /\ UNCHANGED <<w, setup, tables>>

-----------------------------------------------------------------------------

\* A wait ends, by its timeout or by a suspension; a task is created or
\* deleted (sc_task_exit).  A deleted task leaves its capabilities and what
\* they name; the entries are cleared when the control block is used again.
OtherEvents ==
    /\ \E t \in Tasks :
          \/ w.mode[t] = "waiting" /\ w' = Wake(w, t, "OK")
          \/ Created(t)
          \/ w.mode[t] # "off" /\ w' = Unblock(w, t, "off", "OK")
    /\ Cardinality({t \in Tasks : w'.mode[t] # "off"}) <= setup.users
    /\ caps' = [t \in Tasks |-> IF w'.mode[t] = "off" THEN EmptyCaps ELSE caps[t]]
    /\ UNCHANGED <<setup, tables>>

Services ==
    \/ OtherEvents
    \/ \E t \in Tasks :
          \/ Sleep(t) \/ ChannelCreate(t)
          \/ \E n \in 0 .. SemMaxCount : ObjectCreate(t, "sem", n)
          \/ ObjectCreate(t, "mq", 0)
          \/ \E n \in Names : NamespaceOpen(t, n)
          \/ \E c \in Indices(setup.caps) :
                \/ CapClose(t, c)
                \/ SemWait(t, c) \/ SemPost(t, c)
                \/ \E type \in {"sem", "mq"} : ObjectDelete(t, c, type)
                \/ ChannelDestroy(t, c) \/ Connect(t, c) \/ Disconnect(t, c)
                \/ MsgSend(t, c) \/ MsgReceive(t, c) \/ MsgReply(t, c)
                \/ \E n \in Names :
                      caps[t][c] # NoCap /\ NamespaceRegister(n, caps[t][c])
    \/ \E n \in Names : NamespaceUnregister(n)

\* Channels whose registered receiver makes way for another, or for none when
\* the channel is created again.
Replaced ==
    {i \in DOMAIN channel :
        /\ channel'[i].receiver # channel[i].receiver
        /\ channel'[i].receiver # NoReceiver \/ channel'[i].pending = <<>>}

Next ==
    /\ Services
    /\ overtaken' = {t \in overtaken \union UNION {Receivers(i) : i \in Replaced} :
                        w'.on[t] = w.on[t]}

Spec == Init /\ [][Next]_vars

-----------------------------------------------------------------------------
(* Properties.                                                             *)

\* The objects of a type that are in use, as capabilities name them.
InUse(type) ==
    CASE type = "channel" -> {IndexOnly(i) : i \in DOMAIN channel \ FreeIndices(channel)}
      [] type = "connection" ->
            {IndexOnly(i) : i \in DOMAIN connection \ FreeIndices(connection)}
      [] OTHER -> {<<i, object[i].gen>> :
                      i \in {j \in DOMAIN object \ FreeIndices(object) :
                                object[j].type = type}}

\* Somebody can name the object.
Named(type, obj) ==
    \/ \E t \in Tasks : \E c \in DOMAIN caps[t] :
          caps[t][c].type = type /\ caps[t][c].object = obj
    \/ \E i \in DOMAIN name :
          name[i].used /\ name[i].cap.type = type /\ name[i].cap.object = obj

\* microkernel.c, lines 395 and 441, 530 and 566: whatever table is full, an
\* object that nobody has a capability for is never there because it was
\* created, only because its last capability was closed, lost with its task,
\* or unregistered.
NothingOrphaned ==
    [][\A type \in {"sem", "mq", "channel", "connection"} :
          \A obj \in InUse(type)' \ InUse(type) : Named(type, obj)']_vars

\* microkernel.c, lines 620 and 661: while messages are pending on a channel,
\* a receiver sleeps on it only if another one has taken its place, or if the
\* channel has been destroyed and created again.
ReceiverNotAsleep ==
    \A i \in DOMAIN channel :
        channel[i].pending # <<>> => Receivers(i) \subseteq overtaken

\* REQUIREMENTS_TRACEABILITY.md, line 69: messages can be replied to.  A
\* sender whose message has been received, and that still waits, can be given
\* its answer: the message is where a reply looks for it.
ReceivedCanBeAnswered ==
    \A m \in DOMAIN message \ FreeIndices(message) :
        message[m].received /\ WaitersOf(w, OnMessage(m)) # {} =>
            \E i \in DOMAIN channel : \E n \in DOMAIN channel[i].pending :
               channel[i].pending[n] = m
=============================================================================
