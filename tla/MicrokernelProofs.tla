-------------------------- MODULE MicrokernelProofs --------------------------
(***************************************************************************)
(* Capabilities, channels and messages (kernel/microkernel.c): for any     *)
(* number of user tasks and tables of any size, a capability names an      *)
(* entry of its table, no service leaves an object behind that nobody can  *)
(* name, and no registered receiver sleeps over a message.                 *)
(***************************************************************************)
EXTENDS Microkernel, FiniteSetTheorems, SequenceTheorems, WellFoundedInduction, TLAPS

-----------------------------------------------------------------------------
(* The inductive invariants.                                               *)

\* What a task may wait for: see wait_obj.
WaitObjects ==
    {NoList, SemList} \union {OnChannel(i) : i \in Indices(setup.channels)}
                      \union {OnMessage(m) : m \in Indices(setup.messages)}

UserTasks ==
    [mode : [Tasks -> Modes], on : [Tasks -> WaitObjects],
     timed : [Tasks -> BOOLEAN], result : [Tasks -> {"OK", "TIMEOUT", "INTR"}]]

Rights == {"read", "write", "signal", "wait", "control"}

\* A capability names an entry of the table of its type.
ObjectCap == [type : {"sem", "mq"}, object : Indices(setup.objects) \X Nat,
              rights : SUBSET Rights]
ChannelCap == [type : {"channel"}, object : {IndexOnly(i) : i \in Indices(setup.channels)},
               rights : SUBSET Rights]
ConnectionCap ==
    [type : {"connection"}, object : {IndexOnly(i) : i \in Indices(setup.connections)},
     rights : SUBSET Rights]

Cap == ObjectCap \union ChannelCap \union ConnectionCap

CapsType == caps \in [Tasks -> [Indices(setup.caps) -> Cap \union {NoCap}]]

ObjectType ==
    object \in [Indices(setup.objects) ->
                  [used : BOOLEAN, gen : Nat, type : {"unused", "sem", "mq"},
                   count : Nat]]

ChannelType ==
    channel \in [Indices(setup.channels) ->
                   [used : BOOLEAN, pending : Seq(Indices(setup.messages)),
                    receiver : Tasks \union {NoReceiver}]]

ConnectionType ==
    /\ connection \in [Indices(setup.connections) -> [used : BOOLEAN, channel : Nat]]
    /\ \A i \in Indices(setup.connections) :
          connection[i].used => connection[i].channel \in Indices(setup.channels)

MessageType ==
    message \in [Indices(setup.messages) ->
                   [used : {FALSE}] \union
                   [used : {TRUE}, connection : Indices(setup.connections),
                    sender : Tasks, received : BOOLEAN]]

NameType ==
    name \in [Indices(setup.names) ->
                [used : {FALSE}] \union [used : {TRUE}, name : Names, cap : Cap]]

MicroType ==
    /\ setup \in Setups /\ w \in UserTasks
    /\ CapsType /\ ObjectType /\ ChannelType /\ ConnectionType /\ MessageType /\ NameType

\* Only a task that waits waits for something.
Unlisted == \A t \in Tasks : w.mode[t] # "waiting" => w.on[t] = NoList

Channels == Indices(setup.channels)

Pending(i) == channel[i].pending

\* A message that is linked is in use, and is linked once, to one channel.
LinkedOnce ==
    /\ \A i \in Channels : \A n \in 1 .. Len(Pending(i)) : message[Pending(i)[n]].used
    /\ \A i, j \in Channels :
          \A n \in 1 .. Len(Pending(i)), k \in 1 .. Len(Pending(j)) :
              Pending(i)[n] = Pending(j)[k] => i = j /\ n = k

\* A task that sleeps in a receive is the one registered, and there is no
\* message, unless it has been overtaken.
ReceiverKnown ==
    \A i \in Channels : \A t \in Receivers(i) \ overtaken :
        channel[i].receiver = t /\ channel[i].pending = <<>>

Core == MicroType /\ Unlisted /\ LinkedOnce

MicroInv == Core /\ ReceiverKnown

\* The step creates no object that nobody can name.
NewNamed ==
    \A type \in {"sem", "mq", "channel", "connection"} :
        \A obj \in InUse(type)' \ InUse(type) : Named(type, obj)'

\* A receiver that sleeps after the step has just been registered, or sleeps on
\* and is as well informed as it was, or is replaced.
KnownStep ==
    \A i \in Channels : \A t \in Tasks : w'.on[t] = OnChannel(i) =>
        \/ channel'[i].receiver = t /\ channel'[i].pending = <<>>
        \/ /\ w'.on[t] = w.on[t]
           /\ channel[i].receiver = t /\ channel[i].pending = <<>> => i \in Replaced

\* What a step has to keep.
Kept == setup' = setup /\ Core' /\ NewNamed /\ KnownStep

-----------------------------------------------------------------------------
(* Tables and tasks.                                                       *)

LEMMA SizesAre ==
    ASSUME setup \in Setups
    PROVE  /\ setup.objects \in Nat /\ setup.caps \in Nat /\ setup.channels \in Nat
           /\ setup.connections \in Nat /\ setup.messages \in Nat /\ setup.names \in Nat
           /\ \A i \in Channels : OnChannel(i) # NoList /\ OnChannel(i) # SemList
BY MicrokernelAssumption DEF Channels, Indices

LEMMA WaitObjectsDiffer ==
    /\ \A i, j : OnChannel(i) = OnChannel(j) => i = j
    /\ \A i, m : OnChannel(i) # OnMessage(m)
BY DEF OnChannel, OnMessage

LEMMA LeastOfIs ==
    ASSUME NEW n, NEW S \in SUBSET Indices(n), n \in Nat, S # {}
    PROVE  LeastOf(S) \in S
<1>1. S \subseteq Nat
  BY DEF Indices
<1>2. \E i \in S : \A j \in S : ~(<<j, i>> \in OpToRel(<, Nat))
  BY <1>1, NatLessThanWellFounded, WFMin
<1>3. PICK i \in S : \A j \in S : ~(<<j, i>> \in OpToRel(<, Nat))
  BY <1>2
<1>4. \A j \in S : ~(j < i)
  BY <1>1, <1>3 DEF OpToRel
<1>5. \A j \in S : i <= j
  BY <1>1, <1>4
<1> QED BY <1>5 DEF LeastOf

LEMMA FreeIndicesIn ==
    ASSUME NEW n \in Nat, NEW table, DOMAIN table = Indices(n), FreeIndices(table) # {}
    PROVE  /\ LeastOf(FreeIndices(table)) \in Indices(n)
           /\ ~table[LeastOf(FreeIndices(table))].used
<1>1. FreeIndices(table) \in SUBSET Indices(n)
  BY DEF FreeIndices
<1>2. LeastOf(FreeIndices(table)) \in FreeIndices(table)
  BY <1>1, LeastOfIs
<1> QED BY <1>1, <1>2 DEF FreeIndices

\* The record w, changed in all its fields.
Updated(ww, t, a, b, c, d) ==
    [ww EXCEPT !.mode[t] = a, !.on[t] = b, !.timed[t] = c, !.result[t] = d]

LEMMA UserUpdate ==
    ASSUME NEW ww \in UserTasks, NEW t \in Tasks, NEW a, NEW b, NEW c \in BOOLEAN, NEW d
    PROVE  Updated(ww, t, a, b, c, d) =
           [mode |-> [ww.mode EXCEPT ![t] = a], on |-> [ww.on EXCEPT ![t] = b],
            timed |-> [ww.timed EXCEPT ![t] = c], result |-> [ww.result EXCEPT ![t] = d]]
<1> DEFINE v1 == [ww EXCEPT !.mode[t] = a]
           v2 == [v1 EXCEPT !.on[t] = b]
           v3 == [v2 EXCEPT !.timed[t] = c]
           v4 == [v3 EXCEPT !.result[t] = d]
<1>1. v1 = [mode |-> [ww.mode EXCEPT ![t] = a], on |-> ww.on,
            timed |-> ww.timed, result |-> ww.result]
  BY DEF UserTasks
<1>2. HIDE DEF v1
<1>3. v2 = [mode |-> [ww.mode EXCEPT ![t] = a], on |-> [ww.on EXCEPT ![t] = b],
            timed |-> ww.timed, result |-> ww.result]
  BY <1>1
<1>4. HIDE DEF v2
<1>5. v3 = [mode |-> [ww.mode EXCEPT ![t] = a], on |-> [ww.on EXCEPT ![t] = b],
            timed |-> [ww.timed EXCEPT ![t] = c], result |-> ww.result]
  BY <1>3
<1>6. HIDE DEF v3
<1>7. v4 = [mode |-> [ww.mode EXCEPT ![t] = a], on |-> [ww.on EXCEPT ![t] = b],
            timed |-> [ww.timed EXCEPT ![t] = c], result |-> [ww.result EXCEPT ![t] = d]]
  BY <1>5
<1>8. HIDE DEF v4
<1>9. v4 = Updated(ww, t, a, b, c, d)
  BY Zenon DEF v1, v2, v3, v4, Updated
<1> QED BY <1>7, <1>9

\* The tasks are of their type, and t is in the mode and on the object given.
OneChanged(ww, v, t, mode, on) ==
    /\ v \in UserTasks
    /\ v.mode[t] = mode /\ v.on[t] = on
    /\ \A u \in Tasks \ {t} : v.on[u] = ww.on[u] /\ v.mode[u] = ww.mode[u]

LEMMA UpdateEffect ==
    ASSUME NEW ww \in UserTasks, NEW t \in Tasks, NEW mode \in Modes,
           NEW on \in WaitObjects, NEW timed \in BOOLEAN,
           NEW result \in {"OK", "TIMEOUT", "INTR"},
           NEW v, v = Updated(ww, t, mode, on, timed, result)
    PROVE  OneChanged(ww, v, t, mode, on)
<1>1. v = [mode |-> [ww.mode EXCEPT ![t] = mode], on |-> [ww.on EXCEPT ![t] = on],
           timed |-> [ww.timed EXCEPT ![t] = timed],
           result |-> [ww.result EXCEPT ![t] = result]]
  BY UserUpdate
<1>2. /\ ww.mode \in [Tasks -> Modes] /\ ww.on \in [Tasks -> WaitObjects]
      /\ ww.timed \in [Tasks -> BOOLEAN] /\ ww.result \in [Tasks -> {"OK", "TIMEOUT", "INTR"}]
  BY DEF UserTasks
<1> QED BY <1>1, <1>2 DEF OneChanged, UserTasks

LEMMA UnblockEffect ==
    ASSUME NEW ww \in UserTasks, NEW t \in Tasks, NEW mode \in Modes
    PROVE  OneChanged(ww, Unblock(ww, t, mode, "OK"), t, mode, NoList)
<1>1. Unblock(ww, t, mode, "OK") = Updated(ww, t, mode, NoList, FALSE, "OK")
  BY Zenon DEF Unblock, Updated
<1>2. NoList \in WaitObjects /\ FALSE \in BOOLEAN /\ "OK" \in {"OK", "TIMEOUT", "INTR"}
  BY DEF WaitObjects
<1> QED BY <1>1, <1>2, UpdateEffect

LEMMA BlockEffect ==
    ASSUME NEW ww \in UserTasks, NEW t \in Tasks, NEW on \in WaitObjects
    PROVE  OneChanged(ww, BlockOn(ww, t, on, FALSE), t, "waiting", on)
<1>1. BlockOn(ww, t, on, FALSE) = Updated(ww, t, "waiting", on, FALSE, "OK")
  BY Zenon DEF BlockOn, Updated
<1>2. "waiting" \in Modes /\ FALSE \in BOOLEAN /\ "OK" \in {"OK", "TIMEOUT", "INTR"}
  BY DEF Modes
<1> QED BY <1>1, <1>2, UpdateEffect

\* Nobody but waiting tasks is on a wait object.
UnlistedIn(ww) == \A t \in Tasks : ww.mode[t] # "waiting" => ww.on[t] = NoList

LEMMA WakeEffect ==
    ASSUME NEW ww \in UserTasks, UnlistedIn(ww), NEW t \in Tasks
    PROVE  /\ Wake(ww, t, "OK") \in UserTasks /\ UnlistedIn(Wake(ww, t, "OK"))
           /\ Wake(ww, t, "OK").on[t] = NoList
           /\ \A u \in Tasks \ {t} :
                 /\ Wake(ww, t, "OK").on[u] = ww.on[u]
                 /\ Wake(ww, t, "OK").mode[u] = ww.mode[u]
<1>1. CASE ww.mode[t] = "waiting"
  <2>1. Wake(ww, t, "OK") = Unblock(ww, t, "active", "OK") /\ "active" \in Modes
    BY <1>1 DEF Wake, Modes
  <2>2. OneChanged(ww, Wake(ww, t, "OK"), t, "active", NoList)
    BY <2>1, UnblockEffect
  <2> QED BY <2>2 DEF OneChanged, UnlistedIn
<1>2. CASE ww.mode[t] # "waiting"
  <2>1. Wake(ww, t, "OK") = ww
    BY <1>2 DEF Wake
  <2> QED BY <1>2, <2>1 DEF UnlistedIn
<1> QED BY <1>1, <1>2

-----------------------------------------------------------------------------
(* Sequences and capabilities.                                             *)

LEMMA RemoveAtIs ==
    ASSUME NEW S, NEW s \in Seq(S), NEW p \in 1 .. Len(s)
    PROVE  /\ RemoveAt(s, p) \in Seq(S)
           /\ Len(RemoveAt(s, p)) = Len(s) - 1
           /\ \A n \in 1 .. Len(s) - 1 :
                 RemoveAt(s, p)[n] = IF n < p THEN s[n] ELSE s[n + 1]
<1> DEFINE a == SubSeq(s, 1, p - 1)
           b == SubSeq(s, p + 1, Len(s))
<1>1. /\ a \in Seq(S) /\ Len(a) = p - 1
      /\ \A n \in 1 .. p - 1 : a[n] = s[n]
  OBVIOUS
<1>2. /\ b \in Seq(S) /\ Len(b) = Len(s) - p
      /\ \A n \in 1 .. Len(s) - p : b[n] = s[n + p]
  OBVIOUS
<1>3. RemoveAt(s, p) = a \o b
  BY DEF RemoveAt
<1> HIDE DEF a, b
<1>4. /\ a \o b \in Seq(S) /\ Len(a \o b) = Len(s) - 1
      /\ \A n \in 1 .. Len(s) - 1 :
            (a \o b)[n] = IF n <= p - 1 THEN a[n] ELSE b[n - (p - 1)]
  <2>1. a \in Seq(S) /\ b \in Seq(S) /\ Len(a) + Len(b) = Len(s) - 1
    BY <1>1, <1>2
  <2>2. a \o b \in Seq(S) /\ Len(a \o b) = Len(a) + Len(b)
    BY <2>1
  <2>3. \A n \in 1 .. Len(a) + Len(b) :
           (a \o b)[n] = IF n <= Len(a) THEN a[n] ELSE b[n - Len(a)]
    BY <2>1
  <2> QED BY <1>1, <2>1, <2>2, <2>3
<1>5. ASSUME NEW n \in 1 .. Len(s) - 1
      PROVE  (a \o b)[n] = IF n < p THEN s[n] ELSE s[n + 1]
  <2>1. CASE n < p
    <3>1. n \in 1 .. p - 1 /\ n <= p - 1
      BY <2>1
    <3> QED BY <1>1, <1>4, <2>1, <3>1
  <2>2. CASE ~(n < p)
    <3>1. n - (p - 1) \in 1 .. Len(s) - p /\ ~(n <= p - 1) /\ (n - (p - 1)) + p = n + 1
      BY <2>2
    <3>2. b[n - (p - 1)] = s[n + 1]
      BY <1>2, <3>1
    <3> QED BY <1>4, <2>2, <3>1, <3>2
  <2> QED BY <2>1, <2>2
<1> QED BY <1>3, <1>4, <1>5

LEMMA TailIs ==
    ASSUME NEW S, NEW s \in Seq(S), s # <<>>
    PROVE  /\ Tail(s) \in Seq(S) /\ Len(Tail(s)) = Len(s) - 1
           /\ 1 \in 1 .. Len(s)
           /\ \A n \in 1 .. Len(s) - 1 : Tail(s)[n] = s[n + 1]
           /\ Head(s) = s[1] /\ Head(s) \in S
<1>1. Len(s) \in Nat /\ Len(s) # 0
  OBVIOUS
<1>2. 1 \in 1 .. Len(s)
  BY <1>1
<1>3. Tail(s) \in Seq(S) /\ Len(Tail(s)) = Len(s) - 1
  OBVIOUS
<1>4. \A n \in 1 .. Len(s) - 1 : Tail(s)[n] = s[n + 1]
  OBVIOUS
<1>5. Head(s) = s[1] /\ Head(s) \in S
  BY <1>2
<1> QED BY <1>2, <1>3, <1>4, <1>5

\* A task keeps its tables, apart from what w says.
LEMMA TasksKept ==
    ASSUME setup' = setup, w' \in UserTasks, UnlistedIn(w')
    PROVE  (w \in UserTasks)' /\ Unlisted'
BY DEF UserTasks, WaitObjects, Unlisted, UnlistedIn, Indices

\* What a capability of the type names is in the table.
LEMMA CapNames ==
    ASSUME CapsType, NEW t \in Tasks, NEW c \in Indices(setup.caps)
    PROVE  /\ caps[t][c].type = "channel" => CapIndex(t, c) \in Indices(setup.channels)
           /\ caps[t][c].type = "connection" => CapIndex(t, c) \in Indices(setup.connections)
           /\ caps[t][c].type \in {"sem", "mq"} => CapIndex(t, c) \in Indices(setup.objects)
<1>1. caps[t][c] \in Cap \union {NoCap}
  BY DEF CapsType
<1>2. CASE caps[t][c] = NoCap
  BY <1>2 DEF NoCap
<1>3. CASE caps[t][c] \in ObjectCap
  BY <1>3 DEF ObjectCap, CapIndex
<1>4. CASE caps[t][c] \in ChannelCap
  BY <1>4 DEF ChannelCap, CapIndex, IndexOnly
<1>5. CASE caps[t][c] \in ConnectionCap
  BY <1>5 DEF ConnectionCap, CapIndex, IndexOnly
<1> QED BY <1>1, <1>2, <1>3, <1>4, <1>5 DEF Cap

LEMMA CapsKept ==
    ASSUME CapsType, setup' = setup, UNCHANGED caps
    PROVE  CapsType'
BY DEF CapsType, Cap, ObjectCap, ChannelCap, ConnectionCap, Indices

LEMMA CloseKeeps ==
    ASSUME CapsType, setup' = setup, NEW t \in Tasks, NEW c \in Indices(setup.caps),
           CapClosed(t, c)
    PROVE  CapsType'
<1>1. caps' \in [Tasks -> [Indices(setup.caps) -> Cap \union {NoCap}]]
  BY DEF CapsType, CapClosed
<1> QED BY <1>1 DEF CapsType, Cap, ObjectCap, ChannelCap, ConnectionCap, Indices

LEMMA GrantKeeps ==
    ASSUME CapsType, setup \in Setups, setup' = setup, NEW t \in Tasks, FreeCaps(t) # {},
           NEW type, NEW obj, NEW rights, CapGrant(t, type, obj, rights),
           [type |-> type, object |-> obj, rights |-> rights] \in Cap
    PROVE  /\ CapsType'
           /\ \E c \in DOMAIN caps'[t] : caps'[t][c].type = type /\ caps'[t][c].object = obj
<1> DEFINE c == LeastOf(FreeCaps(t))
           new == [type |-> type, object |-> obj, rights |-> rights]
<1>1. FreeCaps(t) \in SUBSET Indices(setup.caps)
  BY DEF FreeCaps, CapsType
<1>2. setup.caps \in Nat
  BY SizesAre
<1>3. c \in Indices(setup.caps)
  BY <1>1, <1>2, LeastOfIs
<1>4. caps' = [caps EXCEPT ![t][c] = new]
  BY DEF CapGrant
<1> HIDE DEF c
<1>5. caps' \in [Tasks -> [Indices(setup.caps) -> Cap \union {NoCap}]]
  BY <1>3, <1>4 DEF CapsType
<1>6. caps'[t][c] = new /\ c \in DOMAIN caps'[t]
  BY <1>3, <1>4 DEF CapsType
<1>7. CapsType'
  BY <1>5 DEF CapsType, Cap, ObjectCap, ChannelCap, ConnectionCap, Indices
<1> QED BY <1>6, <1>7

\* The tables that a step leaves alone.
LEMMA ObjectKept ==
    ASSUME ObjectType, setup' = setup, UNCHANGED object
    PROVE  ObjectType'
BY DEF ObjectType, Indices

LEMMA ChannelKept ==
    ASSUME ChannelType, setup' = setup, UNCHANGED channel
    PROVE  ChannelType'
BY DEF ChannelType, Indices

LEMMA ConnectionKept ==
    ASSUME ConnectionType, setup' = setup, UNCHANGED connection
    PROVE  ConnectionType'
BY DEF ConnectionType, Indices

LEMMA MessageKept ==
    ASSUME MessageType, setup' = setup, UNCHANGED message
    PROVE  MessageType'
BY DEF MessageType, Indices

LEMMA NameKept ==
    ASSUME NameType, setup' = setup, UNCHANGED name
    PROVE  NameType'
BY DEF NameType, Cap, ObjectCap, ChannelCap, ConnectionCap, Indices

LEMMA LinksKept ==
    ASSUME LinkedOnce, setup' = setup, UNCHANGED <<channel, message>>
    PROVE  LinkedOnce'
BY DEF LinkedOnce, Channels, Indices, Pending

-----------------------------------------------------------------------------
(* New objects and receivers.                                              *)

\* The three sets of objects, before and after.
LEMMA InUseIs ==
    /\ \A obj : obj \in InUse("channel") <=>
                   \E i \in DOMAIN channel : channel[i].used /\ obj = <<i>>
    /\ \A obj : obj \in InUse("connection") <=>
                   \E i \in DOMAIN connection : connection[i].used /\ obj = <<i>>
    /\ \A type \in {"sem", "mq"} : \A obj : obj \in InUse(type) <=>
          \E i \in DOMAIN object :
              object[i].used /\ object[i].type = type /\ obj = <<i, object[i].gen>>
BY DEF InUse, FreeIndices, IndexOnly

LEMMA InUseNextIs ==
    /\ \A obj : obj \in InUse("channel")' <=>
                   \E i \in DOMAIN channel' : channel'[i].used /\ obj = <<i>>
    /\ \A obj : obj \in InUse("connection")' <=>
                   \E i \in DOMAIN connection' : connection'[i].used /\ obj = <<i>>
    /\ \A type \in {"sem", "mq"} : \A obj : obj \in InUse(type)' <=>
          \E i \in DOMAIN object' :
              object'[i].used /\ object'[i].type = type /\ obj = <<i, object'[i].gen>>
BY DEF InUse, FreeIndices, IndexOnly

\* What is in use after the step was in use before it, or is what is created.
OldOrNew(type, obj) ==
    /\ DOMAIN channel' = DOMAIN channel /\ DOMAIN connection' = DOMAIN connection
    /\ DOMAIN object' = DOMAIN object
    /\ \A i \in DOMAIN channel :
          channel'[i].used => channel[i].used \/ (type = "channel" /\ obj = <<i>>)
    /\ \A i \in DOMAIN connection :
          connection'[i].used => connection[i].used \/ (type = "connection" /\ obj = <<i>>)
    /\ \A i \in DOMAIN object :
          object'[i].used =>
             \/ /\ object[i].used /\ object'[i].type = object[i].type
                /\ object'[i].gen = object[i].gen
             \/ type = object'[i].type /\ obj = <<i, object'[i].gen>>

LEMMA OldOrNewNamed ==
    ASSUME NEW type, NEW obj, OldOrNew(type, obj), Named(type, obj)'
    PROVE  NewNamed
<1> SUFFICES ASSUME NEW ty \in {"sem", "mq", "channel", "connection"},
                    NEW o \in InUse(ty)', o \notin InUse(ty)
             PROVE  ty = type /\ o = obj
  BY DEF NewNamed
<1>1. CASE ty = "channel"
  BY <1>1, InUseIs, InUseNextIs DEF OldOrNew
<1>2. CASE ty = "connection"
  BY <1>2, InUseIs, InUseNextIs DEF OldOrNew
<1>3. CASE ty \in {"sem", "mq"}
  <2>1. PICK i \in DOMAIN object' :
           object'[i].used /\ object'[i].type = ty /\ o = <<i, object'[i].gen>>
    BY <1>3, InUseNextIs
  <2>2. ~(object[i].used /\ object[i].type = ty /\ o = <<i, object[i].gen>>)
    BY <1>3, <2>1, InUseIs DEF OldOrNew
  <2> QED BY <2>1, <2>2 DEF OldOrNew
<1> QED BY <1>1, <1>2, <1>3

\* Nothing is created.
NothingNew ==
    /\ DOMAIN channel' = DOMAIN channel /\ DOMAIN connection' = DOMAIN connection
    /\ DOMAIN object' = DOMAIN object
    /\ \A i \in DOMAIN channel : channel'[i].used => channel[i].used
    /\ \A i \in DOMAIN connection : connection'[i].used => connection[i].used
    /\ \A i \in DOMAIN object :
          object'[i].used => /\ object[i].used /\ object'[i].type = object[i].type
                             /\ object'[i].gen = object[i].gen

LEMMA NothingNewNamed ==
    ASSUME NothingNew
    PROVE  NewNamed
<1> SUFFICES ASSUME NEW ty \in {"sem", "mq", "channel", "connection"},
                    NEW o \in InUse(ty)', o \notin InUse(ty)
             PROVE  FALSE
  BY DEF NewNamed
<1>1. CASE ty = "channel"
  BY <1>1, InUseIs, InUseNextIs DEF NothingNew
<1>2. CASE ty = "connection"
  BY <1>2, InUseIs, InUseNextIs DEF NothingNew
<1>3. CASE ty \in {"sem", "mq"}
  <2>1. PICK i \in DOMAIN object' :
           object'[i].used /\ object'[i].type = ty /\ o = <<i, object'[i].gen>>
    BY <1>3, InUseNextIs
  <2> QED BY <1>3, <2>1, InUseIs DEF NothingNew
<1> QED BY <1>1, <1>2, <1>3

\* No task goes to sleep on a channel.
NoneRegisters == \A t \in Tasks : \A i \in Channels :
                    w'.on[t] = OnChannel(i) => w.on[t] = w'.on[t]

LEMMA SameReceivers ==
    ASSUME NoneRegisters,
           \A i \in Channels : \/ channel'[i].receiver = channel[i].receiver
                                  /\ channel'[i].pending = channel[i].pending
                               \/ channel[i].pending # <<>>
    PROVE  KnownStep
BY DEF KnownStep, NoneRegisters

LEMMA NoneRegistersNow ==
    ASSUME UNCHANGED w
    PROVE  NoneRegisters
BY DEF NoneRegisters

LEMMA OneChangedRegisters ==
    ASSUME NEW t \in Tasks, NEW mode, NEW on, OneChanged(w, w', t, mode, on),
           \A i \in Channels : on # OnChannel(i)
    PROVE  NoneRegisters
BY DEF OneChanged, NoneRegisters

LEMMA WakeRegisters ==
    ASSUME w \in UserTasks, Unlisted, setup \in Setups, NEW t \in Tasks, w' = Wake(w, t, "OK")
    PROVE  w' \in UserTasks /\ UnlistedIn(w') /\ NoneRegisters
<1>1. UnlistedIn(w)
  BY DEF Unlisted, UnlistedIn
<1>2. /\ w' \in UserTasks /\ UnlistedIn(w')
      /\ w'.on[t] = NoList
      /\ \A u \in Tasks \ {t} : w'.on[u] = w.on[u]
  BY <1>1, WakeEffect
<1> QED BY <1>2, SizesAre DEF NoneRegisters

LEMMA BlockRegisters ==
    ASSUME w \in UserTasks, Unlisted, NEW t \in Tasks, NEW on \in WaitObjects,
           BlocksFor(w, t, on)
    PROVE  /\ w' \in UserTasks /\ UnlistedIn(w')
           /\ OneChanged(w, w', t, "waiting", on)
<1>1. OneChanged(w, w', t, "waiting", on)
  BY BlockEffect DEF BlocksFor
<1> QED BY <1>1 DEF OneChanged, Unlisted, UnlistedIn

\* The domains of the tables.
LEMMA Domains ==
    ASSUME MicroType
    PROVE  /\ DOMAIN object = Indices(setup.objects) /\ DOMAIN channel = Channels
           /\ DOMAIN connection = Indices(setup.connections)
           /\ DOMAIN message = Indices(setup.messages)
           /\ DOMAIN name = Indices(setup.names)
BY DEF MicroType, ObjectType, ChannelType, ConnectionType, MessageType, NameType, Channels

LEMMA AllKept ==
    ASSUME setup \in Setups, setup' = setup, w' \in UserTasks, UnlistedIn(w'), CapsType',
           ObjectType', ChannelType', ConnectionType', MessageType', NameType',
           LinkedOnce', NewNamed, KnownStep
    PROVE  Kept
<1>1. (w \in UserTasks)' /\ Unlisted'
  BY TasksKept
<1>2. (setup \in Setups)'
  OBVIOUS
<1> QED BY <1>1, <1>2 DEF Kept, Core, MicroType

-----------------------------------------------------------------------------
(* Capabilities, semaphores and queues.                                    *)

\* A step that only changes tasks, capabilities, objects or names.
LEMMA QuietStep ==
    ASSUME Core, UNCHANGED <<setup, channel, connection, message>>,
           w' \in UserTasks, UnlistedIn(w'), NoneRegisters,
           CapsType', ObjectType', NameType', NewNamed
    PROVE  Kept
<1>1. ChannelType' /\ ConnectionType' /\ MessageType' /\ LinkedOnce'
  BY ChannelKept, ConnectionKept, MessageKept, LinksKept DEF Core, MicroType
<1>2. KnownStep
  BY SameReceivers
<1> QED BY <1>1, <1>2, AllKept DEF Core, MicroType

LEMMA CapCloseKeeps ==
    ASSUME Core, NEW t \in Tasks, NEW c \in Indices(setup.caps), CapClose(t, c)
    PROVE  Kept
<1> USE DEF Core, MicroType
<1>1. UNCHANGED <<w, setup, object, channel, connection, message, name>> /\ CapClosed(t, c)
  BY DEF CapClose, tables
<1>2. CapsType'
  BY <1>1, CloseKeeps
<1>3. ObjectType' /\ NameType'
  BY <1>1, ObjectKept, NameKept
<1>4. NewNamed
  BY <1>1, NothingNewNamed DEF NothingNew
<1>5. w' \in UserTasks /\ UnlistedIn(w') /\ NoneRegisters
  BY <1>1, NoneRegistersNow DEF Unlisted, UnlistedIn
<1> QED BY <1>1, <1>2, <1>3, <1>4, <1>5, QuietStep

LEMMA ObjectCreateKeeps ==
    ASSUME Core, NEW t \in Tasks, NEW type \in {"sem", "mq"}, NEW n \in Nat,
           ObjectCreate(t, type, n)
    PROVE  Kept
<1> USE DEF Core, MicroType
<1> DEFINE i == LeastOf(FreeIndices(object))
           created == [object EXCEPT ![i] =
                         [used |-> TRUE, gen |-> @.gen + 1, type |-> type, count |-> n]]
<1>1. /\ UNCHANGED <<w, setup, channel, connection, message, name>>
      /\ \/ FreeCaps(t) = {} /\ object' = Released(created, i) /\ UNCHANGED caps
         \/ /\ FreeCaps(t) # {} /\ object' = created
            /\ CapGrant(t, type, ObjectOf(i), ObjectRights(type))
      /\ FreeIndices(object) # {}
  BY DEF ObjectCreate
<1>2. i \in Indices(setup.objects) /\ ~object[i].used
  BY <1>1, FreeIndicesIn, Domains, SizesAre
<1> HIDE DEF i
<1>3. created \in [Indices(setup.objects) ->
                     [used : BOOLEAN, gen : Nat, type : {"unused", "sem", "mq"}, count : Nat]]
  BY <1>2 DEF ObjectType
<1>4. created[i] = [used |-> TRUE, gen |-> object[i].gen + 1, type |-> type, count |-> n]
      /\ \A j \in Indices(setup.objects) \ {i} : created[j] = object[j]
  BY <1>2 DEF ObjectType
<1> HIDE DEF created
<1>5. w' \in UserTasks /\ UnlistedIn(w') /\ NoneRegisters
  BY <1>1, NoneRegistersNow DEF Unlisted, UnlistedIn
<1>6. NameType'
  BY <1>1, NameKept
<1>7. CASE FreeCaps(t) = {}
  <2>1. object' = [created EXCEPT ![i].used = FALSE] /\ UNCHANGED caps
    BY <1>1, <1>7 DEF Released
  <2>2. object' \in [Indices(setup.objects) ->
                     [used : BOOLEAN, gen : Nat, type : {"unused", "sem", "mq"}, count : Nat]]
    BY <1>2, <1>3, <2>1
  <2>3. ObjectType' /\ CapsType'
    BY <1>1, <2>1, <2>2, CapsKept DEF ObjectType, Indices
  <2>4. ~object'[i].used /\ \A j \in Indices(setup.objects) \ {i} : object'[j] = object[j]
    BY <1>2, <1>3, <1>4, <2>1
  <2>5. NothingNew
    BY <1>1, <2>2, <2>4, Domains DEF NothingNew
  <2> QED BY <1>1, <1>5, <1>6, <2>3, <2>5, NothingNewNamed, QuietStep
<1>8. CASE FreeCaps(t) # {}
  <2>1. object' = created /\ CapGrant(t, type, ObjectOf(i), ObjectRights(type))
    BY <1>1, <1>8
  <2>2. ObjectOf(i) = <<i, object'[i].gen>> /\ object'[i].gen \in Nat
    BY <1>2, <1>3, <2>1 DEF ObjectOf
  <2>3. [type |-> type, object |-> ObjectOf(i), rights |-> ObjectRights(type)] \in Cap
    BY <1>2, <2>2 DEF Cap, ObjectCap, ObjectRights, Rights
  <2>4. /\ CapsType'
        /\ \E c \in DOMAIN caps'[t] :
              caps'[t][c].type = type /\ caps'[t][c].object = ObjectOf(i)
    BY <1>1, <1>8, <2>1, <2>3, GrantKeeps
  <2>5. PICK obj : obj = <<i, object'[i].gen>>
    OBVIOUS
  <2>6. Named(type, obj)'
    BY <2>2, <2>4, <2>5 DEF Named
  <2>7. DOMAIN object' = DOMAIN object
    BY <1>3, <2>1, Domains
  <2>8. \A j \in DOMAIN object : object'[j] = object[j] \/ (j = i /\ object'[j].type = type)
    BY <1>4, <2>1, Domains
  <2>9. OldOrNew(type, obj)
    BY <1>1, <2>5, <2>7, <2>8 DEF OldOrNew
  <2>10. ObjectType'
    BY <1>1, <1>3, <2>1 DEF ObjectType, Indices
  <2> QED BY <1>1, <1>5, <1>6, <2>4, <2>6, <2>9, <2>10, OldOrNewNamed, QuietStep
<1> QED BY <1>7, <1>8

LEMMA SemWaitKeeps ==
    ASSUME Core, NEW t \in Tasks, NEW c \in Indices(setup.caps), SemWait(t, c)
    PROVE  Kept
<1> USE DEF Core, MicroType
<1> DEFINE i == CapIndex(t, c)
<1>1. /\ UNCHANGED <<setup, caps, channel, connection, message, name>>
      /\ \/ object[i].count > 0 /\ object' = [object EXCEPT ![i].count = @ - 1] /\ UNCHANGED w
         \/ BlocksFor(w, t, SemList) /\ UNCHANGED object
      /\ caps[t][c].type = "sem"
  BY DEF SemWait, CapResolves
<1>2. i \in Indices(setup.objects)
  BY <1>1, CapNames
<1> HIDE DEF i
<1>3. CapsType' /\ NameType'
  BY <1>1, CapsKept, NameKept
<1>4. ObjectType' /\ NothingNew
  <2>1. CASE UNCHANGED object
    BY <1>1, <2>1, ObjectKept DEF NothingNew
  <2>2. CASE object[i].count > 0 /\ object' = [object EXCEPT ![i].count = @ - 1]
    <3>1. object' \in [Indices(setup.objects) ->
                     [used : BOOLEAN, gen : Nat, type : {"unused", "sem", "mq"}, count : Nat]]
      BY <1>2, <2>2 DEF ObjectType
    <3>2. \A j \in Indices(setup.objects) :
             /\ object'[j].used = object[j].used /\ object'[j].type = object[j].type
             /\ object'[j].gen = object[j].gen
      BY <1>2, <2>2 DEF ObjectType
    <3> QED BY <1>1, <3>1, <3>2, Domains DEF ObjectType, Indices, NothingNew
  <2> QED BY <1>1, <2>1, <2>2
<1>5. w' \in UserTasks /\ UnlistedIn(w') /\ NoneRegisters
  <2>1. CASE UNCHANGED w
    BY <2>1, NoneRegistersNow DEF Unlisted, UnlistedIn
  <2>2. CASE BlocksFor(w, t, SemList)
    <3>1. SemList \in WaitObjects
      BY DEF WaitObjects
    <3> QED BY <2>2, <3>1, BlockRegisters, OneChangedRegisters, SizesAre
  <2> QED BY <1>1, <2>1, <2>2
<1> QED BY <1>1, <1>3, <1>4, <1>5, NothingNewNamed, QuietStep

LEMMA SemPostKeeps ==
    ASSUME Core, NEW t \in Tasks, NEW c \in Indices(setup.caps), SemPost(t, c)
    PROVE  Kept
<1> USE DEF Core, MicroType
<1> DEFINE i == CapIndex(t, c)
<1>1. /\ UNCHANGED <<setup, caps, channel, connection, message, name>>
      /\ \/ object' = [object EXCEPT ![i].count = @ + 1] /\ UNCHANGED w
         \/ (\E waiter \in Tasks : w' = Wake(w, waiter, "OK")) /\ UNCHANGED object
      /\ caps[t][c].type = "sem"
  BY DEF SemPost, CapResolves, WaitersOf
<1>2. i \in Indices(setup.objects)
  BY <1>1, CapNames
<1> HIDE DEF i
<1>3. CapsType' /\ NameType'
  BY <1>1, CapsKept, NameKept
<1>4. ObjectType' /\ NothingNew
  <2>1. CASE UNCHANGED object
    BY <1>1, <2>1, ObjectKept DEF NothingNew
  <2>2. CASE object' = [object EXCEPT ![i].count = @ + 1]
    <3>1. object' \in [Indices(setup.objects) ->
                     [used : BOOLEAN, gen : Nat, type : {"unused", "sem", "mq"}, count : Nat]]
      BY <1>2, <2>2 DEF ObjectType
    <3>2. \A j \in Indices(setup.objects) :
             /\ object'[j].used = object[j].used /\ object'[j].type = object[j].type
             /\ object'[j].gen = object[j].gen
      BY <1>2, <2>2 DEF ObjectType
    <3> QED BY <1>1, <3>1, <3>2, Domains DEF ObjectType, Indices, NothingNew
  <2> QED BY <1>1, <2>1, <2>2
<1>5. w' \in UserTasks /\ UnlistedIn(w') /\ NoneRegisters
  <2>1. CASE UNCHANGED w
    BY <2>1, NoneRegistersNow DEF Unlisted, UnlistedIn
  <2>2. CASE \E waiter \in Tasks : w' = Wake(w, waiter, "OK")
    BY <2>2, WakeRegisters
  <2> QED BY <1>1, <2>1, <2>2
<1> QED BY <1>1, <1>3, <1>4, <1>5, NothingNewNamed, QuietStep

LEMMA ObjectDeleteKeeps ==
    ASSUME Core, NEW t \in Tasks, NEW c \in Indices(setup.caps), NEW type \in {"sem", "mq"},
           ObjectDelete(t, c, type)
    PROVE  Kept
<1> USE DEF Core, MicroType
<1> DEFINE i == CapIndex(t, c)
<1>1. /\ UNCHANGED <<w, setup, channel, connection, message, name>>
      /\ object' = [object EXCEPT ![i].used = FALSE]
      /\ CapClosed(t, c)
      /\ caps[t][c].type = type
  BY DEF ObjectDelete, CapResolves, Released
<1>2. i \in Indices(setup.objects)
  BY <1>1, CapNames
<1> HIDE DEF i
<1>3. CapsType' /\ NameType'
  BY <1>1, CloseKeeps, NameKept
<1>4. ObjectType' /\ NothingNew
  <2>1. object' \in [Indices(setup.objects) ->
                   [used : BOOLEAN, gen : Nat, type : {"unused", "sem", "mq"}, count : Nat]]
    BY <1>1, <1>2 DEF ObjectType
  <2>2. \A j \in Indices(setup.objects) :
           /\ object'[j].used => object[j].used
           /\ object'[j].type = object[j].type
           /\ object'[j].gen = object[j].gen
    BY <1>1, <1>2 DEF ObjectType
  <2> QED BY <1>1, <2>1, <2>2, Domains DEF ObjectType, Indices, NothingNew
<1>5. w' \in UserTasks /\ UnlistedIn(w') /\ NoneRegisters
  BY <1>1, NoneRegistersNow DEF Unlisted, UnlistedIn
<1> QED BY <1>1, <1>3, <1>4, <1>5, NothingNewNamed, QuietStep

LEMMA SleepKeeps ==
    ASSUME Core, NEW t \in Tasks, Sleep(t)
    PROVE  Kept
<1> USE DEF Core, MicroType
<1>1. UNCHANGED <<setup, caps, object, channel, connection, message, name>>
      /\ BlocksFor(w, t, NoList)
  BY DEF Sleep, tables
<1>2. CapsType' /\ ObjectType' /\ NameType'
  BY <1>1, CapsKept, ObjectKept, NameKept
<1>3. NewNamed
  BY <1>1, NothingNewNamed DEF NothingNew
<1>4. NoList \in WaitObjects
  BY DEF WaitObjects
<1>5. w' \in UserTasks /\ UnlistedIn(w') /\ NoneRegisters
  BY <1>1, <1>4, BlockRegisters, OneChangedRegisters, SizesAre
<1> QED BY <1>1, <1>2, <1>3, <1>5, QuietStep

-----------------------------------------------------------------------------
(* Channels and connections.                                               *)

\* A step that changes channels, but links no message.
LEMMA FewerLinks ==
    ASSUME LinkedOnce, setup' = setup, UNCHANGED message,
           \A i \in Channels : \/ channel'[i].pending = channel[i].pending
                               \/ channel'[i].pending = <<>>
    PROVE  LinkedOnce'
<1>1. Channels' = Channels
  BY DEF Channels, Indices
<1>2. \A i \in Channels : \A n \in 1 .. Len(Pending(i)') :
         n \in 1 .. Len(Pending(i)) /\ Pending(i)'[n] = Pending(i)[n]
  <2> SUFFICES ASSUME NEW i \in Channels, NEW n \in 1 .. Len(Pending(i)')
               PROVE  n \in 1 .. Len(Pending(i)) /\ Pending(i)'[n] = Pending(i)[n]
    OBVIOUS
  <2>1. Pending(i)' # <<>>
    OBVIOUS
  <2>2. Pending(i)' = Pending(i)
    BY <2>1 DEF Pending
  <2> QED BY <2>2
<1> QED BY <1>1, <1>2 DEF LinkedOnce

LEMMA ChannelCreateKeeps ==
    ASSUME Core, NEW t \in Tasks, ChannelCreate(t)
    PROVE  Kept
<1> USE DEF Core, MicroType
<1> DEFINE i == LeastOf(FreeIndices(channel))
           new == [used |-> TRUE, pending |-> <<>>, receiver |-> NoReceiver]
           created == [channel EXCEPT ![i] = new]
           Row == [used : BOOLEAN, pending : Seq(Indices(setup.messages)),
                   receiver : Tasks \union {NoReceiver}]
<1>1. /\ UNCHANGED <<w, setup, object, connection, message, name>>
      /\ \/ FreeCaps(t) = {} /\ channel' = Released(created, i) /\ UNCHANGED caps
         \/ /\ FreeCaps(t) # {} /\ channel' = created
            /\ CapGrant(t, "channel", IndexOnly(i), {"read", "write", "control"})
      /\ FreeIndices(channel) # {}
  BY DEF ChannelCreate
<1>2. i \in Channels /\ ~channel[i].used
  BY <1>1, FreeIndicesIn, Domains, SizesAre DEF Channels
<1> HIDE DEF i
<1>3. <<>> \in Seq(Indices(setup.messages)) /\ new \in Row
  OBVIOUS
<1>4. /\ created \in [Channels -> Row] /\ created[i] = new
      /\ \A j \in Channels \ {i} : created[j] = channel[j]
  BY <1>2, <1>3 DEF ChannelType, Channels
<1> HIDE DEF created
<1>5. w' \in UserTasks /\ UnlistedIn(w')
  BY <1>1 DEF Unlisted, UnlistedIn
<1>6. NameType' /\ ObjectType' /\ ConnectionType' /\ MessageType'
  BY <1>1, NameKept, ObjectKept, ConnectionKept, MessageKept
<1>7. /\ channel' \in [Channels -> Row]
      /\ channel'[i].pending = <<>> /\ channel'[i].receiver = NoReceiver
      /\ \A j \in Channels \ {i} : channel'[j] = channel[j]
      /\ FreeCaps(t) = {} => ~channel'[i].used
  <2>1. CASE FreeCaps(t) # {}
    BY <1>1, <1>4, <2>1
  <2>2. CASE FreeCaps(t) = {}
    <3>1. channel' = [created EXCEPT ![i].used = FALSE]
      BY <1>1, <2>2 DEF Released
    <3>2. created[i].pending = <<>> /\ created[i].receiver = NoReceiver
      BY <1>4
    <3>3. channel' \in [Channels -> Row]
      BY <1>2, <1>4, <3>1
    <3>4. \A j \in Channels \ {i} : channel'[j] = created[j]
      BY <1>2, <1>4, <3>1
    <3>5. /\ channel'[i].pending = created[i].pending
          /\ channel'[i].receiver = created[i].receiver
          /\ ~channel'[i].used
      BY <1>2, <1>4, <3>1
    <3> QED BY <1>4, <3>2, <3>3, <3>4, <3>5
  <2> QED BY <2>1, <2>2
<1>8. ChannelType'
  BY <1>1, <1>7 DEF ChannelType, Channels, Indices
<1>9. LinkedOnce'
  <2>1. \A j \in Channels : \/ channel'[j].pending = channel[j].pending
                            \/ channel'[j].pending = <<>>
    BY <1>7
  <2> QED BY <1>1, <2>1, FewerLinks
<1>10. KnownStep
  <2> SUFFICES ASSUME NEW j \in Channels, NEW u \in Tasks, w'.on[u] = OnChannel(j),
                      ~(channel'[j].receiver = u /\ channel'[j].pending = <<>>),
                      channel[j].receiver = u, channel[j].pending = <<>>
               PROVE  j \in Replaced
    BY <1>1 DEF KnownStep
  <2>1. j = i
    BY <1>7
  <2>2. channel'[j].receiver # channel[j].receiver /\ channel'[j].pending = <<>>
    BY <1>7, <2>1, MicrokernelAssumption
  <2> QED BY <2>2, Domains DEF Replaced
<1>11. CapsType' /\ NewNamed
  <2>1. CASE FreeCaps(t) = {}
    <3>1. CapsType'
      BY <1>1, <2>1, CapsKept
    <3>2. DOMAIN channel' = DOMAIN channel
      BY <1>7, Domains
    <3>3. NothingNew
      BY <1>1, <1>7, <2>1, <3>2, Domains DEF NothingNew
    <3> QED BY <3>1, <3>3, NothingNewNamed
  <2>2. CASE FreeCaps(t) # {}
    <3>1. PICK obj : obj = <<i>>
      OBVIOUS
    <3>2. CapGrant(t, "channel", obj, {"read", "write", "control"})
      BY <1>1, <2>2, <3>1 DEF IndexOnly
    <3>3. [type |-> "channel", object |-> obj, rights |-> {"read", "write", "control"}] \in Cap
      BY <1>2, <3>1 DEF Cap, ChannelCap, IndexOnly, Rights, Channels
    <3>4. /\ CapsType'
          /\ \E c \in DOMAIN caps'[t] :
                caps'[t][c].type = "channel" /\ caps'[t][c].object = obj
      BY <1>1, <2>2, <3>2, <3>3, GrantKeeps
    <3>5. Named("channel", obj)'
      BY <3>4 DEF Named
    <3>6. DOMAIN channel' = DOMAIN channel
      BY <1>7, Domains
    <3>7. OldOrNew("channel", obj)
      BY <1>1, <1>7, <3>1, <3>6, Domains DEF OldOrNew
    <3> QED BY <3>4, <3>5, <3>7, OldOrNewNamed
  <2> QED BY <2>1, <2>2
<1> QED BY <1>1, <1>5, <1>6, <1>8, <1>9, <1>10, <1>11, AllKept

LEMMA ChannelDestroyKeeps ==
    ASSUME Core, NEW t \in Tasks, NEW c \in Indices(setup.caps), ChannelDestroy(t, c)
    PROVE  Kept
<1> USE DEF Core, MicroType
<1> DEFINE i == CapIndex(t, c)
<1>1. /\ UNCHANGED <<w, setup, object, connection, message, name>>
      /\ channel' = [channel EXCEPT ![i].used = FALSE]
      /\ CapClosed(t, c)
      /\ caps[t][c].type = "channel"
  BY DEF ChannelDestroy, CapResolves, Released
<1>2. i \in Channels
  BY <1>1, CapNames DEF Channels
<1> HIDE DEF i
<1>3. CapsType'
  BY <1>1, CloseKeeps
<1>4. NameType' /\ ObjectType' /\ ConnectionType' /\ MessageType'
  BY <1>1, NameKept, ObjectKept, ConnectionKept, MessageKept
<1>5. /\ channel' \in [Channels -> [used : BOOLEAN, pending : Seq(Indices(setup.messages)),
                                    receiver : Tasks \union {NoReceiver}]]
      /\ \A j \in Channels : /\ channel'[j].pending = channel[j].pending
                             /\ channel'[j].receiver = channel[j].receiver
                             /\ channel'[j].used => channel[j].used
  BY <1>1, <1>2 DEF ChannelType, Channels
<1>6. ChannelType'
  BY <1>1, <1>5 DEF ChannelType, Channels, Indices
<1>7. LinkedOnce'
  BY <1>1, <1>5, FewerLinks
<1>8. KnownStep
  BY <1>1, <1>5, NoneRegistersNow, SameReceivers
<1>9. NothingNew
  BY <1>1, <1>5, Domains DEF NothingNew
<1>10. w' \in UserTasks /\ UnlistedIn(w')
  BY <1>1 DEF Unlisted, UnlistedIn
<1> QED BY <1>1, <1>3, <1>4, <1>6, <1>7, <1>8, <1>9, <1>10, NothingNewNamed, AllKept

LEMMA ConnectKeeps ==
    ASSUME Core, NEW t \in Tasks, NEW c \in Indices(setup.caps), Connect(t, c)
    PROVE  Kept
<1> USE DEF Core, MicroType
<1> DEFINE i == LeastOf(FreeIndices(connection))
           new == [used |-> TRUE, channel |-> CapIndex(t, c)]
           created == [connection EXCEPT ![i] = new]
           Row == [used : BOOLEAN, channel : Nat]
<1>1. /\ UNCHANGED <<w, setup, object, channel, message, name>>
      /\ \/ FreeCaps(t) = {} /\ connection' = Released(created, i) /\ UNCHANGED caps
         \/ /\ FreeCaps(t) # {} /\ connection' = created
            /\ CapGrant(t, "connection", IndexOnly(i), {"write", "signal", "control"})
      /\ FreeIndices(connection) # {}
      /\ caps[t][c].type = "channel"
  BY DEF Connect, CapResolves
<1>2. i \in Indices(setup.connections) /\ ~connection[i].used
  BY <1>1, FreeIndicesIn, Domains, SizesAre
<1>3. CapIndex(t, c) \in Indices(setup.channels) /\ CapIndex(t, c) \in Nat
  BY <1>1, CapNames, SizesAre DEF Indices
<1> HIDE DEF i
<1>4. new \in Row
  BY <1>3
<1>5. /\ created \in [Indices(setup.connections) -> Row] /\ created[i] = new
      /\ \A j \in Indices(setup.connections) \ {i} : created[j] = connection[j]
  BY <1>2, <1>4 DEF ConnectionType
<1> HIDE DEF created
<1>6. /\ connection' \in [Indices(setup.connections) -> Row]
      /\ \A j \in Indices(setup.connections) \ {i} : connection'[j] = connection[j]
      /\ connection'[i].channel = CapIndex(t, c)
      /\ FreeCaps(t) = {} => ~connection'[i].used
  <2>1. CASE FreeCaps(t) # {}
    BY <1>1, <1>5, <2>1
  <2>2. CASE FreeCaps(t) = {}
    <3>1. connection' = [created EXCEPT ![i].used = FALSE]
      BY <1>1, <2>2 DEF Released
    <3>2. created[i].channel = CapIndex(t, c)
      BY <1>5
    <3>3. connection' \in [Indices(setup.connections) -> Row]
      BY <1>2, <1>5, <3>1
    <3>4. \A j \in Indices(setup.connections) \ {i} : connection'[j] = created[j]
      BY <1>2, <1>5, <3>1
    <3>5. connection'[i].channel = created[i].channel /\ ~connection'[i].used
      BY <1>2, <1>5, <3>1
    <3> QED BY <1>5, <3>2, <3>3, <3>4, <3>5
  <2> QED BY <2>1, <2>2
<1>7. ConnectionType'
  BY <1>1, <1>3, <1>6 DEF ConnectionType, Indices
<1>8. w' \in UserTasks /\ UnlistedIn(w')
  BY <1>1 DEF Unlisted, UnlistedIn
<1>9. NameType' /\ ObjectType' /\ ChannelType' /\ MessageType' /\ LinkedOnce'
  BY <1>1, NameKept, ObjectKept, ChannelKept, MessageKept, LinksKept
<1>10. KnownStep
  BY <1>1, NoneRegistersNow, SameReceivers
<1>11. CapsType' /\ NewNamed
  <2>1. CASE FreeCaps(t) = {}
    <3>1. CapsType'
      BY <1>1, <2>1, CapsKept
    <3>2. DOMAIN connection' = DOMAIN connection
      BY <1>6, Domains
    <3>3. NothingNew
      BY <1>1, <1>6, <2>1, <3>2, Domains DEF NothingNew
    <3> QED BY <3>1, <3>3, NothingNewNamed
  <2>2. CASE FreeCaps(t) # {}
    <3>1. PICK obj : obj = <<i>>
      OBVIOUS
    <3>2. CapGrant(t, "connection", obj, {"write", "signal", "control"})
      BY <1>1, <2>2, <3>1 DEF IndexOnly
    <3>3. [type |-> "connection", object |-> obj,
           rights |-> {"write", "signal", "control"}] \in Cap
      BY <1>2, <3>1 DEF Cap, ConnectionCap, IndexOnly, Rights
    <3>4. /\ CapsType'
          /\ \E k \in DOMAIN caps'[t] :
                caps'[t][k].type = "connection" /\ caps'[t][k].object = obj
      BY <1>1, <2>2, <3>2, <3>3, GrantKeeps
    <3>5. Named("connection", obj)'
      BY <3>4 DEF Named
    <3>6. DOMAIN connection' = DOMAIN connection
      BY <1>6, Domains
    <3>7. OldOrNew("connection", obj)
      BY <1>1, <1>6, <3>1, <3>6, Domains DEF OldOrNew
    <3> QED BY <3>4, <3>5, <3>7, OldOrNewNamed
  <2> QED BY <2>1, <2>2
<1> QED BY <1>1, <1>7, <1>8, <1>9, <1>10, <1>11, AllKept

LEMMA DisconnectKeeps ==
    ASSUME Core, NEW t \in Tasks, NEW c \in Indices(setup.caps), Disconnect(t, c)
    PROVE  Kept
<1> USE DEF Core, MicroType
<1> DEFINE i == CapIndex(t, c)
           Row == [used : BOOLEAN, channel : Nat]
<1>1. /\ UNCHANGED <<w, setup, object, channel, message, name>>
      /\ connection' = [connection EXCEPT ![i].used = FALSE]
      /\ CapClosed(t, c)
      /\ caps[t][c].type = "connection"
  BY DEF Disconnect, CapResolves, Released
<1>2. i \in Indices(setup.connections)
  BY <1>1, CapNames
<1> HIDE DEF i
<1>3. CapsType'
  BY <1>1, CloseKeeps
<1>4. NameType' /\ ObjectType' /\ ChannelType' /\ MessageType' /\ LinkedOnce'
  BY <1>1, NameKept, ObjectKept, ChannelKept, MessageKept, LinksKept
<1>9. /\ connection' \in [Indices(setup.connections) -> Row]
      /\ \A j \in Indices(setup.connections) :
            /\ connection'[j].used => connection[j].used
            /\ connection'[j].channel = connection[j].channel
  BY <1>1, <1>2 DEF ConnectionType
<1>10. ConnectionType'
  BY <1>1, <1>9 DEF ConnectionType, Indices
<1>11. KnownStep
  BY <1>1, NoneRegistersNow, SameReceivers
<1>12. DOMAIN connection' = DOMAIN connection
  BY <1>9, Domains
<1>13. NothingNew
  BY <1>1, <1>9, <1>12, Domains DEF NothingNew
<1>14. w' \in UserTasks /\ UnlistedIn(w')
  BY <1>1 DEF Unlisted, UnlistedIn
<1> QED BY <1>1, <1>3, <1>4, <1>10, <1>11, <1>13, <1>14, NothingNewNamed, AllKept

-----------------------------------------------------------------------------
(* Messages.                                                               *)

\* The position of a message before the message at p was unlinked.
Before(p, n) == IF n < p THEN n ELSE n + 1

\* The message at position p of channel i is unlinked, and may be freed.
LEMMA OneUnlinked ==
    ASSUME MicroType, LinkedOnce, setup' = setup, NEW i \in Channels,
           NEW p \in 1 .. Len(Pending(i)),
           \A j \in Channels \ {i} : Pending(j)' = Pending(j),
           Len(Pending(i)') = Len(Pending(i)) - 1,
           \A n \in 1 .. Len(Pending(i)) - 1 : Pending(i)'[n] = Pending(i)[Before(p, n)],
           \A m \in Indices(setup.messages) :
              message[m].used => message'[m].used \/ m = Pending(i)[p]
    PROVE  LinkedOnce'
<1> DEFINE Old(j, n) == IF j = i THEN Before(p, n) ELSE n
<1>1. \A j \in Channels : Pending(j) \in Seq(Indices(setup.messages))
  BY DEF MicroType, ChannelType, Channels, Pending
<1>2. ASSUME NEW j \in Channels, NEW n \in 1 .. Len(Pending(j)')
      PROVE  /\ Old(j, n) \in 1 .. Len(Pending(j))
             /\ Pending(j)'[n] = Pending(j)[Old(j, n)]
             /\ j = i => Old(j, n) # p
  <2>1. CASE j = i
    <3>1. n \in 1 .. Len(Pending(i)) - 1 /\ Len(Pending(i)) \in Nat
      BY <1>1, <2>1
    <3>2. Before(p, n) \in 1 .. Len(Pending(i)) /\ Before(p, n) # p
      BY <3>1 DEF Before
    <3> QED BY <2>1, <3>1, <3>2
  <2>2. CASE j # i
    BY <2>2
  <2> QED BY <2>1, <2>2
<1>3. ASSUME NEW j \in Channels, NEW n \in 1 .. Len(Pending(j)'),
             NEW k \in 1 .. Len(Pending(j)'), Old(j, n) = Old(j, k)
      PROVE  n = k
  <2>1. n \in Int /\ k \in Int /\ p \in Int
    OBVIOUS
  <2> QED BY <1>3, <2>1 DEF Before
<1> HIDE DEF Old
<1>4. Channels' = Channels
  BY DEF Channels, Indices
<1>5. ASSUME NEW j \in Channels, NEW n \in 1 .. Len(Pending(j)')
      PROVE  message'[Pending(j)'[n]].used
  <2>1. message[Pending(j)[Old(j, n)]].used
    BY <1>2, <1>5 DEF LinkedOnce
  <2>2. Pending(j)[Old(j, n)] \in Indices(setup.messages)
    BY <1>1, <1>2, <1>5
  <2>3. Pending(j)[Old(j, n)] # Pending(i)[p]
    BY <1>2, <1>5 DEF LinkedOnce
  <2> QED BY <1>2, <1>5, <2>1, <2>2, <2>3
<1>6. ASSUME NEW j \in Channels, NEW k \in Channels, NEW n \in 1 .. Len(Pending(j)'),
             NEW l \in 1 .. Len(Pending(k)'), Pending(j)'[n] = Pending(k)'[l]
      PROVE  j = k /\ n = l
  <2>1. Pending(j)[Old(j, n)] = Pending(k)[Old(k, l)]
    BY <1>2, <1>6
  <2>2. j = k /\ Old(j, n) = Old(k, l)
    BY <1>2, <1>6, <2>1 DEF LinkedOnce
  <2> QED BY <1>3, <1>6, <2>2
<1> QED BY <1>4, <1>5, <1>6 DEF LinkedOnce

\* The receiver that is registered no longer sleeps on the channel.
LEMMA WokenReceiverEffect ==
    ASSUME Core, NEW i \in Channels
    PROVE  /\ WokenReceiver(w, i) \in UserTasks /\ UnlistedIn(WokenReceiver(w, i))
           /\ \A u \in Tasks : WokenReceiver(w, i).on[u] = w.on[u]
                                  \/ WokenReceiver(w, i).on[u] = NoList
           /\ channel[i].receiver \in Tasks =>
                 WokenReceiver(w, i).on[channel[i].receiver] = NoList
<1> USE DEF Core, MicroType
<1>1. UnlistedIn(w)
  BY DEF Unlisted, UnlistedIn
<1>2. CASE channel[i].receiver = NoReceiver
  BY <1>1, <1>2, MicrokernelAssumption DEF WokenReceiver
<1>3. CASE channel[i].receiver # NoReceiver
  <2>1. channel[i].receiver \in Tasks
    BY <1>3 DEF ChannelType, Channels
  <2>2. WokenReceiver(w, i) = Wake(w, channel[i].receiver, "OK")
    BY <1>3 DEF WokenReceiver
  <2> QED BY <1>1, <2>1, <2>2, WakeEffect
<1> QED BY <1>2, <1>3

LEMMA MsgSendKeeps ==
    ASSUME Core, NEW t \in Tasks, NEW c \in Indices(setup.caps), MsgSend(t, c)
    PROVE  Kept
<1> USE DEF Core, MicroType
<1> DEFINE m == LeastOf(FreeIndices(message))
           conn == CapIndex(t, c)
           i == connection[conn].channel
           v == WokenReceiver(w, i)
           new == [used |-> TRUE, connection |-> conn, sender |-> t, received |-> FALSE]
           MsgRow == [used : {FALSE}] \union
                     [used : {TRUE}, connection : Indices(setup.connections),
                      sender : Tasks, received : BOOLEAN]
           Row == [used : BOOLEAN, pending : Seq(Indices(setup.messages)),
                   receiver : Tasks \union {NoReceiver}]
<1>1. /\ UNCHANGED <<setup, caps, object, connection, name>>
      /\ message' = [message EXCEPT ![m] = new]
      /\ channel' = [channel EXCEPT ![i].pending = Append(@, m), ![i].receiver = NoReceiver]
      /\ BlocksFor(v, t, OnMessage(m))
      /\ FreeIndices(message) # {}
      /\ caps[t][c].type = "connection" /\ connection[conn].used
  BY DEF MsgSend, CapResolves
<1>2. m \in Indices(setup.messages) /\ ~message[m].used
  BY <1>1, FreeIndicesIn, Domains, SizesAre
<1>3. conn \in Indices(setup.connections)
  BY <1>1, CapNames
<1>4. i \in Channels
  BY <1>1, <1>3 DEF ConnectionType, Channels
<1> HIDE DEF m, conn, i, v
<1>5. /\ v \in UserTasks /\ UnlistedIn(v)
      /\ \A u \in Tasks : v.on[u] = w.on[u] \/ v.on[u] = NoList
      /\ channel[i].receiver \in Tasks => v.on[channel[i].receiver] = NoList
  BY <1>4, WokenReceiverEffect DEF v
<1>6. OneChanged(v, w', t, "waiting", OnMessage(m))
  <2>1. OnMessage(m) \in WaitObjects
    BY <1>2 DEF WaitObjects
  <2> QED BY <1>1, <1>5, <2>1, BlockEffect DEF BlocksFor
<1>7. w' \in UserTasks /\ UnlistedIn(w')
  BY <1>5, <1>6 DEF OneChanged, UnlistedIn
<1>8. CapsType' /\ ObjectType' /\ ConnectionType' /\ NameType'
  BY <1>1, CapsKept, ObjectKept, ConnectionKept, NameKept
<1>9. MessageType'
  <2>1. new \in MsgRow
    BY <1>3
  <2>2. message' \in [Indices(setup.messages) -> MsgRow]
    BY <1>1, <1>2, <2>1 DEF MessageType
  <2> QED BY <1>1, <2>2 DEF MessageType, Indices
<1>10. /\ channel' \in [Channels -> Row]
       /\ channel'[i].pending = Append(channel[i].pending, m)
       /\ channel'[i].used = channel[i].used
       /\ \A j \in Channels \ {i} : channel'[j] = channel[j]
  <2>1. channel[i] \in Row /\ channel \in [Channels -> Row]
    BY <1>4 DEF ChannelType, Channels
  <2>2. Append(channel[i].pending, m) \in Seq(Indices(setup.messages))
    BY <1>2, <2>1
  <2> QED BY <1>1, <1>4, <2>1, <2>2
<1>11. ChannelType'
  BY <1>1, <1>10 DEF ChannelType, Channels, Indices
<1>12. LinkedOnce'
  <2>1. Channels' = Channels
    BY <1>1 DEF Channels, Indices
  <2>2. \A j \in Channels : Pending(j) \in Seq(Indices(setup.messages))
    BY DEF ChannelType, Channels, Pending
  <2>3. \A j \in Channels : \A n \in 1 .. Len(Pending(j)) :
           message[Pending(j)[n]].used /\ Pending(j)[n] # m
    BY <1>2 DEF LinkedOnce
  <2>4. ASSUME NEW j \in Channels, NEW n \in 1 .. Len(Pending(j)')
        PROVE  \/ /\ n \in 1 .. Len(Pending(j)) /\ Pending(j)'[n] = Pending(j)[n]
                  /\ Pending(j)'[n] # m
               \/ j = i /\ n = Len(Pending(i)) + 1 /\ Pending(j)'[n] = m
    <3>1. CASE j # i
      BY <1>10, <2>3, <3>1 DEF Pending
    <3>2. CASE j = i
      <4>1. Pending(j)' = Append(Pending(j), m)
        BY <1>10, <3>2 DEF Pending
      <4>2. /\ Len(Pending(j)') = Len(Pending(j)) + 1 /\ Len(Pending(j)) \in Nat
            /\ Pending(j)'[Len(Pending(j)) + 1] = m
            /\ \A k \in 1 .. Len(Pending(j)) : Pending(j)'[k] = Pending(j)[k]
        BY <1>2, <2>2, <4>1
      <4>3. n \in 1 .. Len(Pending(j)) \/ n = Len(Pending(j)) + 1
        BY <4>2
      <4> QED BY <2>3, <3>2, <4>2, <4>3
    <3> QED BY <3>1, <3>2
  <2>5. message'[m].used /\ \A k \in Indices(setup.messages) : message[k].used => message'[k].used
    BY <1>1, <1>2 DEF MessageType
  <2>6. \A j \in Channels : \A n \in 1 .. Len(Pending(j)') : message'[Pending(j)'[n]].used
    <3> SUFFICES ASSUME NEW j \in Channels, NEW n \in 1 .. Len(Pending(j)')
                 PROVE  message'[Pending(j)'[n]].used
      OBVIOUS
    <3>1. CASE j = i /\ n = Len(Pending(i)) + 1 /\ Pending(j)'[n] = m
      BY <2>5, <3>1
    <3>2. CASE n \in 1 .. Len(Pending(j)) /\ Pending(j)'[n] = Pending(j)[n]
      <4>1. Pending(j)[n] \in Indices(setup.messages)
        BY <2>2, <3>2
      <4> QED BY <2>3, <2>5, <3>2, <4>1
    <3> QED BY <2>4, <3>1, <3>2
  <2>7. ASSUME NEW j \in Channels, NEW k \in Channels, NEW n \in 1 .. Len(Pending(j)'),
               NEW l \in 1 .. Len(Pending(k)'), Pending(j)'[n] = Pending(k)'[l]
        PROVE  j = k /\ n = l
    <3>1. CASE Pending(j)'[n] = m
      BY <2>4, <2>7, <3>1
    <3>2. CASE Pending(j)'[n] # m
      <4>1. /\ n \in 1 .. Len(Pending(j)) /\ l \in 1 .. Len(Pending(k))
            /\ Pending(j)[n] = Pending(k)[l]
        BY <2>4, <2>7, <3>2
      <4> QED BY <4>1 DEF LinkedOnce
    <3> QED BY <3>1, <3>2
  <2> QED BY <2>1, <2>6, <2>7 DEF LinkedOnce
<1>13. KnownStep
  <2> SUFFICES ASSUME NEW j \in Channels, NEW u \in Tasks, w'.on[u] = OnChannel(j)
               PROVE  \/ channel'[j].receiver = u /\ channel'[j].pending = <<>>
                      \/ /\ w'.on[u] = w.on[u]
                         /\ ~(channel[j].receiver = u /\ channel[j].pending = <<>>)
    BY DEF KnownStep
  <2>1. u # t
    BY <1>6, WaitObjectsDiffer DEF OneChanged
  <2>2. v.on[u] = OnChannel(j)
    BY <1>6, <2>1 DEF OneChanged
  <2>3. w'.on[u] = w.on[u] /\ v.on[u] # NoList
    BY <1>1, <1>5, <2>2, SizesAre
  <2>4. j = i => channel[j].receiver # u
    BY <1>5, <2>3
  <2> QED BY <1>10, <2>3, <2>4
<1>14. DOMAIN channel' = DOMAIN channel /\ \A j \in Channels : channel'[j].used => channel[j].used
  BY <1>10, Domains
<1>15. NothingNew
  BY <1>1, <1>14, Domains DEF NothingNew
<1> QED BY <1>1, <1>7, <1>8, <1>9, <1>11, <1>12, <1>13, <1>15, NothingNewNamed, AllKept

LEMMA MsgReceiveKeeps ==
    ASSUME Core, NEW t \in Tasks, NEW c \in Indices(setup.caps), MsgReceive(t, c)
    PROVE  Kept
<1> USE DEF Core, MicroType
<1> DEFINE MsgRow == [used : {FALSE}] \union
                     [used : {TRUE}, connection : Indices(setup.connections),
                      sender : Tasks, received : BOOLEAN]
           Row == [used : BOOLEAN, pending : Seq(Indices(setup.messages)),
                   receiver : Tasks \union {NoReceiver}]
<1>1. PICK i : i = CapIndex(t, c)
  OBVIOUS
<1>2. /\ UNCHANGED <<setup, caps, object, connection, name>>
      /\ \/ /\ channel[i].pending # <<>>
            /\ channel' = [channel EXCEPT ![i].pending = Tail(@)]
            /\ message' = [message EXCEPT ![Head(channel[i].pending)].received = TRUE]
            /\ UNCHANGED w
         \/ /\ channel[i].pending = <<>>
            /\ channel' = [channel EXCEPT ![i].receiver = t]
            /\ BlocksFor(w, t, OnChannel(i))
            /\ UNCHANGED message
      /\ caps[t][c].type = "channel"
  BY <1>1 DEF MsgReceive, CapResolves
<1>3. i \in Channels
  BY <1>1, <1>2, CapNames DEF Channels
<1>4. CapsType' /\ ObjectType' /\ ConnectionType' /\ NameType'
  BY <1>2, CapsKept, ObjectKept, ConnectionKept, NameKept
<1>5. channel[i] \in Row /\ channel \in [Channels -> Row]
  BY <1>3 DEF ChannelType, Channels
<1>6. CASE channel[i].pending # <<>>
  <2> DEFINE first == Head(channel[i].pending)
  <2>1. /\ channel' = [channel EXCEPT ![i].pending = Tail(@)]
        /\ message' = [message EXCEPT ![first].received = TRUE]
        /\ UNCHANGED w
    BY <1>2, <1>6
  <2>2. /\ Tail(channel[i].pending) \in Seq(Indices(setup.messages))
        /\ Len(Tail(channel[i].pending)) = Len(channel[i].pending) - 1
        /\ 1 \in 1 .. Len(channel[i].pending)
        /\ \A n \in 1 .. Len(channel[i].pending) - 1 :
              Tail(channel[i].pending)[n] = channel[i].pending[n + 1]
        /\ first = channel[i].pending[1] /\ first \in Indices(setup.messages)
    <3>1. channel[i].pending \in Seq(Indices(setup.messages))
      BY <1>5
    <3> QED BY <1>6, <3>1, TailIs
  <2>3. message[first].used
    BY <1>3, <2>2 DEF LinkedOnce, Pending
  <2> HIDE DEF first
  <2>4. /\ channel' \in [Channels -> Row]
        /\ channel'[i].pending = Tail(channel[i].pending)
        /\ \A j \in Channels \ {i} : channel'[j] = channel[j]
        /\ \A j \in Channels : channel'[j].used = channel[j].used
    BY <1>3, <1>5, <2>1, <2>2
  <2>5. ChannelType'
    BY <1>2, <2>4 DEF ChannelType, Channels, Indices
  <2>6. /\ message' \in [Indices(setup.messages) -> MsgRow]
        /\ \A k \in Indices(setup.messages) : message'[k].used = message[k].used
    <3>1. message[first] \in [used : {TRUE}, connection : Indices(setup.connections),
                              sender : Tasks, received : BOOLEAN]
      BY <2>2, <2>3 DEF MessageType
    <3> DEFINE new == [message[first] EXCEPT !.received = TRUE]
    <3>2. /\ new \in [used : {TRUE}, connection : Indices(setup.connections),
                      sender : Tasks, received : BOOLEAN]
          /\ new.used = message[first].used
      BY <3>1
    <3>3. message' = [message EXCEPT ![first] = new]
      BY <2>1
    <3> HIDE DEF new
    <3> QED BY <2>2, <3>2, <3>3 DEF MessageType
  <2>7. MessageType'
    BY <1>2, <2>6 DEF MessageType, Indices
  <2>8. LinkedOnce'
    <3>1. 1 \in 1 .. Len(Pending(i)) /\ Len(Pending(i)') = Len(Pending(i)) - 1
      BY <2>2, <2>4 DEF Pending
    <3>2. \A n \in 1 .. Len(Pending(i)) - 1 : Pending(i)'[n] = Pending(i)[Before(1, n)]
      BY <2>2, <2>4 DEF Pending, Before
    <3>3. \A j \in Channels \ {i} : Pending(j)' = Pending(j)
      BY <2>4 DEF Pending
    <3> QED BY <1>2, <1>3, <2>6, <3>1, <3>2, <3>3, OneUnlinked
  <2>9. KnownStep
    BY <1>6, <2>1, <2>4, NoneRegistersNow, SameReceivers
  <2>10. DOMAIN channel' = DOMAIN channel
    BY <2>4, Domains
  <2>11. NothingNew
    BY <1>2, <2>4, <2>10, Domains DEF NothingNew
  <2>12. w' \in UserTasks /\ UnlistedIn(w')
    BY <2>1 DEF Unlisted, UnlistedIn
  <2> QED BY <1>2, <1>4, <2>5, <2>7, <2>8, <2>9, <2>11, <2>12, NothingNewNamed, AllKept
<1>7. CASE channel[i].pending = <<>>
  <2>1. /\ channel' = [channel EXCEPT ![i].receiver = t]
        /\ BlocksFor(w, t, OnChannel(i))
        /\ UNCHANGED message
    BY <1>2, <1>7
  <2>2. /\ channel' \in [Channels -> Row] /\ channel'[i].receiver = t
        /\ \A j \in Channels \ {i} : channel'[j] = channel[j]
        /\ \A j \in Channels : /\ channel'[j].used = channel[j].used
                               /\ channel'[j].pending = channel[j].pending
    BY <1>3, <1>5, <2>1
  <2>3. ChannelType'
    BY <1>2, <2>2 DEF ChannelType, Channels, Indices
  <2>4. MessageType' /\ LinkedOnce'
    BY <1>2, <2>1, <2>2, MessageKept, FewerLinks
  <2>5. w' \in UserTasks /\ UnlistedIn(w') /\ OneChanged(w, w', t, "waiting", OnChannel(i))
    <3>1. OnChannel(i) \in WaitObjects
      BY <1>3 DEF WaitObjects, Channels
    <3> QED BY <2>1, <3>1, BlockRegisters
  <2>6. KnownStep
    <3> SUFFICES ASSUME NEW j \in Channels, NEW u \in Tasks, w'.on[u] = OnChannel(j),
                        ~(channel'[j].receiver = u /\ channel'[j].pending = <<>>)
                 PROVE  /\ w'.on[u] = w.on[u]
                        /\ channel[j].receiver = u /\ channel[j].pending = <<>> =>
                              j \in Replaced
      BY DEF KnownStep
    <3>1. u # t
      BY <1>7, <2>2, <2>5, WaitObjectsDiffer DEF OneChanged
    <3>2. w'.on[u] = w.on[u]
      BY <2>5, <3>1 DEF OneChanged
    <3>3. ASSUME channel[j].receiver = u, channel[j].pending = <<>>
          PROVE  j \in Replaced
      <4>1. j = i
        BY <2>2, <3>3
      <4>2. /\ channel'[j].receiver # channel[j].receiver
            /\ channel'[j].receiver # NoReceiver
        BY <2>2, <3>1, <3>3, <4>1, MicrokernelAssumption
      <4> QED BY <4>2, Domains DEF Replaced
    <3> QED BY <3>2, <3>3
  <2>7. DOMAIN channel' = DOMAIN channel
    BY <2>2, Domains
  <2>8. NothingNew
    BY <1>2, <2>2, <2>7, Domains DEF NothingNew
  <2> QED BY <1>2, <1>4, <2>3, <2>4, <2>5, <2>6, <2>8, NothingNewNamed, AllKept
<1> QED BY <1>6, <1>7

LEMMA MsgReplyKeeps ==
    ASSUME Core, NEW t \in Tasks, NEW c \in Indices(setup.caps), MsgReply(t, c)
    PROVE  Kept
<1> USE DEF Core, MicroType
<1> DEFINE MsgRow == [used : {FALSE}] \union
                     [used : {TRUE}, connection : Indices(setup.connections),
                      sender : Tasks, received : BOOLEAN]
           Row == [used : BOOLEAN, pending : Seq(Indices(setup.messages)),
                   receiver : Tasks \union {NoReceiver}]
<1>1. PICK conn, i : conn = CapIndex(t, c) /\ i = connection[conn].channel
  OBVIOUS
<1>2. PICK p : p = LeastOf(Linked(i, conn))
  OBVIOUS
<1>3. PICK m : m = channel[i].pending[p]
  OBVIOUS
<1>4. /\ UNCHANGED <<setup, caps, object, connection, name>>
      /\ Linked(i, conn) # {}
      /\ channel' = [channel EXCEPT ![i].pending = RemoveAt(@, p)]
      /\ \/ w' = Wake(w, message[m].sender, "OK")
            /\ message' = [message EXCEPT ![m] = [used |-> FALSE]]
         \/ UNCHANGED <<w, message>>
      /\ caps[t][c].type = "connection" /\ connection[conn].used
  BY <1>1, <1>2, <1>3 DEF MsgReply, CapResolves
<1>5. i \in Channels
  <2>1. conn \in Indices(setup.connections)
    BY <1>1, <1>4, CapNames
  <2> QED BY <1>1, <1>4, <2>1 DEF ConnectionType, Channels
<1>6. channel[i] \in Row /\ channel \in [Channels -> Row]
  BY <1>5 DEF ChannelType, Channels
<1>7. p \in 1 .. Len(channel[i].pending)
  <2>1. /\ Len(channel[i].pending) \in Nat
        /\ DOMAIN channel[i].pending = 1 .. Len(channel[i].pending)
    BY <1>6
  <2>2. Linked(i, conn) \subseteq 1 .. Len(channel[i].pending)
    BY <2>1 DEF Linked
  <2>3. /\ Linked(i, conn) \in SUBSET Indices(Len(channel[i].pending) + 1)
        /\ Len(channel[i].pending) + 1 \in Nat
    BY <2>1, <2>2 DEF Indices
  <2>4. p \in Linked(i, conn)
    BY <1>2, <1>4, <2>3, LeastOfIs
  <2> QED BY <2>2, <2>4
<1>8. m \in Indices(setup.messages) /\ message[m].used
  BY <1>3, <1>5, <1>6, <1>7 DEF LinkedOnce, Pending
<1>9. message[m].sender \in Tasks
  BY <1>8 DEF MessageType
<1>10. /\ RemoveAt(channel[i].pending, p) \in Seq(Indices(setup.messages))
       /\ Len(RemoveAt(channel[i].pending, p)) = Len(channel[i].pending) - 1
       /\ \A n \in 1 .. Len(channel[i].pending) - 1 :
             RemoveAt(channel[i].pending, p)[n] = channel[i].pending[Before(p, n)]
       /\ channel[i].pending # <<>>
  <2>1. channel[i].pending \in Seq(Indices(setup.messages))
    BY <1>6
  <2>2. channel[i].pending # <<>>
    BY <1>7
  <2> QED BY <1>7, <2>1, <2>2, RemoveAtIs DEF Before
<1>11. /\ channel' \in [Channels -> Row]
       /\ channel'[i].pending = RemoveAt(channel[i].pending, p)
       /\ \A j \in Channels \ {i} : channel'[j] = channel[j]
       /\ \A j \in Channels : channel'[j].used = channel[j].used
  BY <1>4, <1>5, <1>6, <1>10
<1>12. CapsType' /\ ObjectType' /\ ConnectionType' /\ NameType'
  BY <1>4, CapsKept, ObjectKept, ConnectionKept, NameKept
<1>13. ChannelType'
  BY <1>4, <1>11 DEF ChannelType, Channels, Indices
<1>14. /\ message' \in [Indices(setup.messages) -> MsgRow]
       /\ \A k \in Indices(setup.messages) : message[k].used => message'[k].used \/ k = m
  <2>1. CASE UNCHANGED message
    BY <2>1 DEF MessageType
  <2>2. CASE message' = [message EXCEPT ![m] = [used |-> FALSE]]
    BY <1>8, <2>2 DEF MessageType
  <2> QED BY <1>4, <2>1, <2>2
<1>15. MessageType'
  BY <1>4, <1>14 DEF MessageType, Indices
<1>16. LinkedOnce'
  <2>1. p \in 1 .. Len(Pending(i)) /\ Len(Pending(i)') = Len(Pending(i)) - 1
    BY <1>7, <1>10, <1>11 DEF Pending
  <2>2. \A n \in 1 .. Len(Pending(i)) - 1 : Pending(i)'[n] = Pending(i)[Before(p, n)]
    BY <1>10, <1>11 DEF Pending
  <2>3. \A j \in Channels \ {i} : Pending(j)' = Pending(j)
    BY <1>11 DEF Pending
  <2>4. m = Pending(i)[p]
    BY <1>3 DEF Pending
  <2> QED BY <1>4, <1>5, <1>14, <2>1, <2>2, <2>3, <2>4, OneUnlinked
<1>17. w' \in UserTasks /\ UnlistedIn(w') /\ NoneRegisters
  <2>1. CASE UNCHANGED w
    BY <2>1, NoneRegistersNow DEF Unlisted, UnlistedIn
  <2>2. CASE w' = Wake(w, message[m].sender, "OK")
    BY <1>9, <2>2, WakeRegisters
  <2> QED BY <1>4, <2>1, <2>2
<1>18. KnownStep
  BY <1>10, <1>11, <1>17, SameReceivers
<1>19. DOMAIN channel' = DOMAIN channel
  BY <1>11, Domains
<1>20. NothingNew
  BY <1>4, <1>11, <1>19, Domains DEF NothingNew
<1> QED BY <1>4, <1>12, <1>13, <1>15, <1>16, <1>17, <1>18, <1>20, NothingNewNamed, AllKept

-----------------------------------------------------------------------------
(* The name service and the life of tasks.                                 *)

\* Only names change.
LEMMA NameStep ==
    ASSUME Core, UNCHANGED <<w, setup, caps, object, channel, connection, message>>, NameType'
    PROVE  Kept
<1> USE DEF Core, MicroType
<1>1. w' \in UserTasks /\ UnlistedIn(w') /\ NoneRegisters
  BY NoneRegistersNow DEF Unlisted, UnlistedIn
<1>2. CapsType' /\ ObjectType'
  BY CapsKept, ObjectKept
<1>3. NewNamed
  BY NothingNewNamed DEF NothingNew
<1> QED BY <1>1, <1>2, <1>3, QuietStep

LEMMA RegisterKeeps ==
    ASSUME Core, NEW t \in Tasks, NEW c \in Indices(setup.caps), NEW n \in Names,
           caps[t][c] # NoCap, NamespaceRegister(n, caps[t][c])
    PROVE  Kept
<1> USE DEF Core, MicroType
<1> DEFINE i == LeastOf(FreeIndices(name))
           new == [used |-> TRUE, name |-> n, cap |-> caps[t][c]]
           Row == [used : {FALSE}] \union [used : {TRUE}, name : Names, cap : Cap]
<1>1. /\ name' = [name EXCEPT ![i] = new]
      /\ UNCHANGED <<w, setup, caps, object, channel, connection, message>>
  BY DEF NamespaceRegister
<1>2. caps[t][c] \in Cap
  BY DEF CapsType
<1>3. new \in Row
  BY <1>2
<1>4. name' \in [Indices(setup.names) -> Row]
  BY <1>1, <1>3 DEF NameType
<1>5. NameType'
  BY <1>1, <1>4 DEF NameType, Cap, ObjectCap, ChannelCap, ConnectionCap, Indices
<1> QED BY <1>1, <1>5, NameStep

LEMMA UnregisterKeeps ==
    ASSUME Core, NEW n \in Names, NamespaceUnregister(n)
    PROVE  Kept
<1> USE DEF Core, MicroType
<1> DEFINE i == LeastOf(Entries(n))
           Row == [used : {FALSE}] \union [used : {TRUE}, name : Names, cap : Cap]
<1>1. /\ name' = [name EXCEPT ![i] = [used |-> FALSE]]
      /\ UNCHANGED <<w, setup, caps, object, channel, connection, message>>
  BY DEF NamespaceUnregister
<1>2. [used |-> FALSE] \in Row
  OBVIOUS
<1>3. name' \in [Indices(setup.names) -> Row]
  BY <1>1, <1>2 DEF NameType
<1>4. NameType'
  BY <1>1, <1>3 DEF NameType, Cap, ObjectCap, ChannelCap, ConnectionCap, Indices
<1> QED BY <1>1, <1>4, NameStep

LEMMA OpenKeeps ==
    ASSUME Core, NEW t \in Tasks, NEW n \in Names, NamespaceOpen(t, n)
    PROVE  Kept
<1> USE DEF Core, MicroType
<1> DEFINE i == LeastOf(Entries(n))
<1>1. /\ UNCHANGED <<w, setup, object, channel, connection, message, name>>
      /\ Entries(n) # {} /\ FreeCaps(t) # {}
      /\ CapGrant(t, name[i].cap.type, name[i].cap.object, name[i].cap.rights)
  BY DEF NamespaceOpen, tables
<1>2. i \in Indices(setup.names) /\ name[i].used
  <2>1. Entries(n) \in SUBSET Indices(setup.names)
    BY Domains DEF Entries
  <2>2. i \in Entries(n)
    BY <1>1, <2>1, LeastOfIs, SizesAre
  <2> QED BY <2>1, <2>2 DEF Entries
<1>3. PICK cap : cap = name[i].cap
  OBVIOUS
<1>4. cap \in Cap
  BY <1>2, <1>3 DEF NameType
<1>5. cap = [type |-> cap.type, object |-> cap.object, rights |-> cap.rights]
  BY <1>4 DEF Cap, ObjectCap, ChannelCap, ConnectionCap
<1>6. CapGrant(t, cap.type, cap.object, cap.rights)
  BY <1>1, <1>3
<1>7. CapsType'
  BY <1>1, <1>4, <1>5, <1>6, GrantKeeps
<1>8. w' \in UserTasks /\ UnlistedIn(w') /\ NoneRegisters
  BY <1>1, NoneRegistersNow DEF Unlisted, UnlistedIn
<1>9. ObjectType' /\ NameType'
  BY <1>1, ObjectKept, NameKept
<1>10. NewNamed
  BY <1>1, NothingNewNamed DEF NothingNew
<1> QED BY <1>1, <1>7, <1>8, <1>9, <1>10, QuietStep

LEMMA OtherEventsKeep ==
    ASSUME Core, OtherEvents
    PROVE  Kept
<1> USE DEF Core, MicroType
<1>1. /\ caps' = [t \in Tasks |-> IF w'.mode[t] = "off" THEN EmptyCaps ELSE caps[t]]
      /\ UNCHANGED <<setup, object, channel, connection, message, name>>
  BY DEF OtherEvents, tables
<1>2. PICK t \in Tasks :
         \/ w' = Wake(w, t, "OK")
         \/ w.mode[t] = "off" /\ w' = Unblock(w, t, "active", "OK")
         \/ w' = Unblock(w, t, "off", "OK")
  BY DEF OtherEvents, Created
<1>3. w' \in UserTasks /\ UnlistedIn(w') /\ NoneRegisters
  <2>1. CASE w' = Wake(w, t, "OK")
    BY <2>1, WakeRegisters
  <2>2. CASE w' = Unblock(w, t, "active", "OK")
    <3>1. OneChanged(w, w', t, "active", NoList)
      BY <2>2, UnblockEffect DEF Modes
    <3> QED BY <3>1, SizesAre, OneChangedRegisters DEF OneChanged, Unlisted, UnlistedIn
  <2>3. CASE w' = Unblock(w, t, "off", "OK")
    <3>1. OneChanged(w, w', t, "off", NoList)
      BY <2>3, UnblockEffect DEF Modes
    <3> QED BY <3>1, SizesAre, OneChangedRegisters DEF OneChanged, Unlisted, UnlistedIn
  <2> QED BY <1>2, <2>1, <2>2, <2>3
<1>4. caps' \in [Tasks -> [Indices(setup.caps) -> Cap \union {NoCap}]]
  <2>1. EmptyCaps \in [Indices(setup.caps) -> Cap \union {NoCap}]
    BY DEF EmptyCaps
  <2> QED BY <1>1, <2>1 DEF CapsType
<1>5. CapsType'
  BY <1>1, <1>4 DEF CapsType, Cap, ObjectCap, ChannelCap, ConnectionCap, Indices
<1>6. ObjectType' /\ NameType'
  BY <1>1, ObjectKept, NameKept
<1>7. NewNamed
  BY <1>1, NothingNewNamed DEF NothingNew
<1> QED BY <1>1, <1>3, <1>5, <1>6, <1>7, QuietStep

-----------------------------------------------------------------------------
(* Every step.                                                             *)

LEMMA ServicesKeep ==
    ASSUME Core, Services
    PROVE  Kept
<1>1. CASE OtherEvents
  BY <1>1, OtherEventsKeep
<1>2. ASSUME NEW t \in Tasks, Sleep(t) PROVE Kept
  BY <1>2, SleepKeeps
<1>3. ASSUME NEW t \in Tasks, ChannelCreate(t) PROVE Kept
  BY <1>3, ChannelCreateKeeps
<1>4. ASSUME NEW t \in Tasks, NEW n \in 0 .. SemMaxCount, ObjectCreate(t, "sem", n) PROVE Kept
  <2>1. n \in Nat
    BY MicrokernelAssumption
  <2> QED BY <1>4, <2>1, ObjectCreateKeeps
<1>5. ASSUME NEW t \in Tasks, ObjectCreate(t, "mq", 0) PROVE Kept
  BY <1>5, ObjectCreateKeeps
<1>6. ASSUME NEW t \in Tasks, NEW n \in Names, NamespaceOpen(t, n) PROVE Kept
  BY <1>6, OpenKeeps
<1>7. ASSUME NEW n \in Names, NamespaceUnregister(n) PROVE Kept
  BY <1>7, UnregisterKeeps
<1>8. ASSUME NEW t \in Tasks, NEW c \in Indices(setup.caps),
             \/ CapClose(t, c)
             \/ SemWait(t, c) \/ SemPost(t, c)
             \/ \E type \in {"sem", "mq"} : ObjectDelete(t, c, type)
             \/ ChannelDestroy(t, c) \/ Connect(t, c) \/ Disconnect(t, c)
             \/ MsgSend(t, c) \/ MsgReceive(t, c) \/ MsgReply(t, c)
             \/ \E n \in Names : caps[t][c] # NoCap /\ NamespaceRegister(n, caps[t][c])
      PROVE Kept
  <2>1. CASE CapClose(t, c)
    BY <2>1, CapCloseKeeps
  <2>2. CASE SemWait(t, c)
    BY <2>2, SemWaitKeeps
  <2>3. CASE SemPost(t, c)
    BY <2>3, SemPostKeeps
  <2>4. CASE \E type \in {"sem", "mq"} : ObjectDelete(t, c, type)
    BY <2>4, ObjectDeleteKeeps
  <2>5. CASE ChannelDestroy(t, c)
    BY <2>5, ChannelDestroyKeeps
  <2>6. CASE Connect(t, c)
    BY <2>6, ConnectKeeps
  <2>7. CASE Disconnect(t, c)
    BY <2>7, DisconnectKeeps
  <2>8. CASE MsgSend(t, c)
    BY <2>8, MsgSendKeeps
  <2>9. CASE MsgReceive(t, c)
    BY <2>9, MsgReceiveKeeps
  <2>10. CASE MsgReply(t, c)
    BY <2>10, MsgReplyKeeps
  <2>11. CASE \E n \in Names : caps[t][c] # NoCap /\ NamespaceRegister(n, caps[t][c])
    BY <2>11, RegisterKeeps
  <2> QED BY <1>8, <2>1, <2>2, <2>3, <2>4, <2>5, <2>6, <2>7, <2>8, <2>9, <2>10, <2>11
<1> QED BY <1>1, <1>2, <1>3, <1>4, <1>5, <1>6, <1>7, <1>8 DEF Services

\* A task that sleeps in a receive and is not overtaken has not been before.
LEMMA StepKnows ==
    ASSUME MicroInv, Next
    PROVE  MicroInv' /\ NewNamed
<1>1. Kept
  BY ServicesKeep DEF MicroInv, Next
<1>2. overtaken' = {t \in overtaken \union UNION {Receivers(i) : i \in Replaced} :
                        w'.on[t] = w.on[t]}
  BY DEF Next
<1>3. Channels' = Channels
  <2>1. setup' = setup
    BY <1>1 DEF Kept
  <2> QED BY <2>1 DEF Channels, Indices
<1>4. ASSUME NEW i \in Channels, NEW t \in Tasks, w'.on[t] = OnChannel(i), t \notin overtaken'
      PROVE  channel'[i].receiver = t /\ channel'[i].pending = <<>>
  <2> SUFFICES ASSUME ~(channel'[i].receiver = t /\ channel'[i].pending = <<>>)
               PROVE  FALSE
    OBVIOUS
  <2>1. /\ w'.on[t] = w.on[t]
        /\ channel[i].receiver = t /\ channel[i].pending = <<>> => i \in Replaced
    BY <1>1, <1>4 DEF Kept, KnownStep
  <2>2. t \in Receivers(i)
    BY <1>4, <2>1 DEF Receivers, WaitersOf
  <2>3. t \notin overtaken
    BY <1>2, <1>4, <2>1
  <2>4. i \in Replaced
    BY <2>1, <2>2, <2>3 DEF MicroInv, ReceiverKnown
  <2> QED BY <1>2, <1>4, <2>1, <2>2, <2>4
<1>5. ReceiverKnown'
  BY <1>3, <1>4 DEF ReceiverKnown, Receivers, WaitersOf
<1> QED BY <1>1, <1>5 DEF MicroInv, Kept

LEMMA InitKnows ==
    ASSUME Init
    PROVE  MicroInv
<1> USE DEF Init
<1>1. w = AllOff
  BY DEF WaitInit
<1>2. w \in UserTasks /\ Unlisted
  BY <1>1 DEF AllOff, UserTasks, WaitObjects, Modes, Unlisted
<1>3. CapsType
  BY DEF CapsType, EmptyCaps
<1>4. ObjectType /\ MessageType /\ NameType
  BY DEF ObjectType, MessageType, NameType
<1>5. /\ channel \in [Channels -> [used : BOOLEAN, pending : Seq(Indices(setup.messages)),
                                   receiver : Tasks \union {NoReceiver}]]
      /\ \A i \in Channels : Pending(i) = <<>>
  BY DEF Channels, Pending
<1>6. ChannelType
  BY <1>5 DEF ChannelType, Channels
<1>7. ConnectionType
  BY DEF ConnectionType
<1>8. LinkedOnce
  BY <1>5 DEF LinkedOnce
<1>9. ReceiverKnown
  BY <1>1, SizesAre DEF ReceiverKnown, Receivers, WaitersOf, AllOff
<1> QED BY <1>2, <1>3, <1>4, <1>6, <1>7, <1>8, <1>9 DEF MicroInv, Core, MicroType

LEMMA StutterKnows ==
    ASSUME MicroInv, UNCHANGED vars
    PROVE  MicroInv'
<1>1. UNCHANGED <<w, setup, caps, object, channel, connection, message, name, overtaken>>
  BY DEF vars, tables
<1>2. Core'
  <2>1. NameType'
    BY <1>1, NameKept DEF MicroInv, Core, MicroType
  <2> QED BY <1>1, <2>1, NameStep DEF MicroInv, Kept
<1>3. ReceiverKnown'
  BY <1>1 DEF MicroInv, ReceiverKnown, Receivers, WaitersOf, Channels, Indices
<1> QED BY <1>2, <1>3 DEF MicroInv

\* microkernel.c, kernel/namespace.c: capabilities, channels, connections,
\* messages and names only ever refer to entries of their tables, a message is
\* linked to one channel at most, and a task that sleeps in a receive and is
\* not overtaken is the one that the channel knows (sc_msg_send to sc_msg_reply).
THEOREM MicroInvariant == Spec => []MicroInv
<1>1. Init => MicroInv
  BY InitKnows
<1>2. MicroInv /\ [Next]_vars => MicroInv'
  BY StepKnows, StutterKnows
<1> QED BY <1>1, <1>2, PTL DEF Spec

\* microkernel.c, lines 620 and 661: nobody sleeps on a channel over messages
\* that are pending there, but a receiver whose place was taken by another, or
\* whose channel was destroyed and created again.
THEOREM ReceiverNotAsleepCorrect == Spec => []ReceiverNotAsleep
<1>1. MicroInv => ReceiverNotAsleep
  BY Domains DEF MicroInv, Core, ReceiverKnown, ReceiverNotAsleep
<1> QED BY <1>1, MicroInvariant, PTL

\* microkernel.c, lines 395 and 441, 530 and 566: when a table is full in the
\* middle of a creation, what was created is given back.
THEOREM NothingOrphanedCorrect == Spec => NothingOrphaned
<1>1. MicroInv /\ [Next]_vars => [NewNamed]_vars
  BY StepKnows
<1> QED BY <1>1, MicroInvariant, PTL DEF Spec, NothingOrphaned, NewNamed
=============================================================================
