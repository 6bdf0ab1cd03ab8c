----------------------------- MODULE MemoryProofs -----------------------------
(***************************************************************************)
(* Proofs about modules Heap, Reaper and Memory.                           *)
(***************************************************************************)
EXTENDS Memory, TLAPS, FiniteSetTheorems, SequenceTheorems, WellFoundedInduction

-----------------------------------------------------------------------------
(* The list of stopped tasks.  chain is the list as its next pointers give *)
(* it, between two occurrences of the head.                                *)

\* The tasks of a chain of n tasks.
OnChain(n, chain) == {chain[i] : i \in 1 .. n}

Chains(n) ==
    {chain \in [0 .. n + 1 -> Nodes] :
        /\ chain[0] = ReapList /\ chain[n + 1] = ReapList
        /\ \A i \in 1 .. n : chain[i] \in Threads
        /\ \A i, j \in 1 .. n : chain[i] = chain[j] => i = j}

LinkedForward(n, chain) == \A i \in 0 .. n : links.next[chain[i]] = chain[i + 1]

\* prev is right, but of the node behind the one that is being taken out.
LinkedBackward(n, chain) ==
    \A i \in 1 .. n :
        \/ links.prev[chain[i]] = chain[i - 1]
        \/ idle.at = "forward" /\ chain[i] = idle.after

AllStopped(n, chain) == \A i \in 1 .. n : memory[chain[i]] = "stopped"

\* A task that has stopped behind the one that the idle task took out.
LostTask(n, chain, t) ==
    /\ crossed /\ t \in Threads \ OnChain(n, chain) /\ memory[t] = "stopped"
    /\ InHand => t # idle.position

LastIs(n, chain) ==
    \/ links.prev[ReapList] = chain[n]
    \/ LostTask(n, chain, links.prev[ReapList])
    \/ /\ idle.at = "forward" /\ idle.after = ReapList
       /\ links.prev[ReapList] = idle.before

\* The idle task is at the task j of the chain and knows its neighbours.
TakesOut(n, chain, j) ==
    /\ idle.position = chain[j] /\ idle.before = chain[j - 1]
    /\ idle.next \in {idle.after, ReapList}
    /\ idle.after = chain[j + 1] \/ (idle.after = ReapList /\ crossed)

\* The task in the idle task's hand is not on the chain any more.
TakenOut(n, chain) ==
    /\ idle.position \in Threads \ OnChain(n, chain)
    /\ memory[idle.position] = "stopped"

Places == {"first", "look", "unlink", "backward", "forward", "free"}

IdleKnows(n, chain) ==
    /\ idle.at \in Places
    /\ idle.at = "look" => idle.position \in OnChain(n, chain) \union {ReapList}
    /\ idle.at = "unlink" => \E j \in 1 .. n :
           idle.position = chain[j] /\ idle.next \in {chain[j + 1], ReapList}
    /\ idle.at = "backward" => \E j \in 1 .. n : TakesOut(n, chain, j)
    /\ idle.at = "forward" =>
           \/ /\ \E j \in 1 .. n : TakesOut(n, chain, j)
              /\ links.prev[idle.after] = idle.before
           \/ /\ crossed /\ idle.after = ReapList /\ idle.next = ReapList
              /\ TakenOut(n, chain)
              /\ \E i \in 0 .. n : idle.before = chain[i]
    /\ idle.at = "free" =>
           /\ TakenOut(n, chain)
           /\ idle.next \in OnChain(n, chain) \union {ReapList}

NoneLost(n, chain) ==
    ~crossed => \A t \in Threads : memory[t] = "stopped" =>
                    t \in OnChain(n, chain) \/ (InHand /\ idle.position = t)

Listed(n, chain) ==
    /\ LinkedForward(n, chain) /\ LinkedBackward(n, chain)
    /\ AllStopped(n, chain) /\ LastIs(n, chain)
    /\ IdleKnows(n, chain) /\ NoneLost(n, chain)

ReaperType ==
    /\ links \in [next : [Nodes -> Nodes], prev : [Nodes -> Nodes]]
    /\ memory \in [Threads -> {"free", "used", "stopped"}]
    /\ crossed \in BOOLEAN

\* What the idle task remembers, by the place where it is.
IdleType ==
    idle \in [at : {"first"}] \union [at : {"look"}, position : Nodes]
             \union [at : {"unlink"}, position : Nodes, next : Nodes]
             \union [at : {"backward", "forward", "free"}, position : Nodes,
                     next : Nodes, before : Nodes, after : Nodes]

\* The inductive invariant of the list of stopped tasks.
ReaperInv ==
    /\ ReaperType
    /\ \E n \in Nat : \E chain \in Chains(n) : Listed(n, chain)

LEMMA ReaperInitKnows ==
    ASSUME ReaperInit
    PROVE  ReaperInv
<1> DEFINE chain == [i \in 0 .. 1 |-> ReapList]
<1>1. 0 \in Nat /\ 0 .. 0 + 1 = 0 .. 1 /\ 1 .. 0 = {} /\ 0 .. 0 = {0}
  OBVIOUS
<1>2. chain \in Chains(0)
  BY <1>1 DEF Chains, Nodes
<1>3. ReaperType
  BY DEF ReaperInit, ReaperType
<1>4. Listed(0, chain)
  BY <1>1, ReaperAssumption
     DEF ReaperInit, Listed, LinkedForward, LinkedBackward, AllStopped, LastIs,
         IdleKnows, NoneLost, Places, Nodes
<1> QED BY <1>1, <1>2, <1>3, <1>4 DEF ReaperInv

LEMMA ChainFacts ==
    ASSUME NEW n \in Nat, NEW chain \in Chains(n)
    PROVE  /\ chain \in [0 .. n + 1 -> Nodes]
           /\ chain[0] = ReapList /\ chain[n + 1] = ReapList
           /\ \A i \in 1 .. n : chain[i] \in Threads /\ chain[i] # ReapList
           /\ \A i, j \in 1 .. n : chain[i] = chain[j] => i = j
           /\ \A i, j \in 0 .. n : chain[i] = chain[j] => i = j
<1>1. /\ chain \in [0 .. n + 1 -> Nodes]
      /\ chain[0] = ReapList /\ chain[n + 1] = ReapList
      /\ \A i \in 1 .. n : chain[i] \in Threads
      /\ \A i, j \in 1 .. n : chain[i] = chain[j] => i = j
  BY DEF Chains
<1>2. \A i \in 1 .. n : chain[i] # ReapList
  BY <1>1, ReaperAssumption
<1>3. \A i \in 0 .. n : i = 0 \/ i \in 1 .. n
  OBVIOUS
<1> QED BY <1>1, <1>2, <1>3

LEMMA StartKeeps ==
    ASSUME NEW t \in Threads, Start(t), ReaperInv
    PROVE  ReaperInv'
<1>n. PICK n \in Nat : \E chain \in Chains(n) : Listed(n, chain)
  BY DEF ReaperInv
<1>1. PICK chain \in Chains(n) : Listed(n, chain)
  BY <1>n
<1>2. /\ links' \in [next : [Nodes -> Nodes], prev : [Nodes -> Nodes]]
      /\ links'.next = [links.next EXCEPT ![t] = t]
      /\ links'.prev = [links.prev EXCEPT ![t] = t]
  BY DEF Start, ReaperInv, ReaperType, Nodes
<1>3. ReaperType' /\ memory' = [memory EXCEPT ![t] = "used"] /\ memory[t] = "free"
      /\ idle' = idle /\ crossed' = crossed
  BY <1>2 DEF Start, ReaperInv, ReaperType
<1>4. /\ \A x \in Threads : memory[x] = "stopped" => memory'[x] = "stopped"
      /\ \A x \in Threads : memory'[x] = "stopped" => memory[x] = "stopped"
      /\ \A x \in Nodes : x # t => links'.next[x] = links.next[x]
                                   /\ links'.prev[x] = links.prev[x]
  BY <1>2, <1>3 DEF ReaperInv, ReaperType
<1>5. \A i \in 0 .. n + 1 : chain[i] # t /\ chain[i] \in Nodes
  <2>1. \A i \in 1 .. n : chain[i] # t
    BY <1>1, <1>3 DEF Listed, AllStopped
  <2> QED BY <2>1, ChainFacts, ReaperAssumption
<1>6. InHand' = InHand
  BY <1>3 DEF InHand
<1>7. LinkedForward(n, chain)' /\ LinkedBackward(n, chain)' /\ AllStopped(n, chain)'
  <2>1. LinkedForward(n, chain)'
    BY <1>1, <1>4, <1>5 DEF Listed, LinkedForward
  <2>2. LinkedBackward(n, chain)'
    BY <1>1, <1>3, <1>4, <1>5 DEF Listed, LinkedBackward
  <2>3. AllStopped(n, chain)'
    BY <1>1, <1>4, <1>5, ChainFacts DEF Listed, AllStopped
  <2> QED BY <2>1, <2>2, <2>3
<1>8. links'.prev[ReapList] = links.prev[ReapList]
  BY <1>4, ReaperAssumption DEF Nodes
<1>9. LastIs(n, chain)'
  BY <1>1, <1>3, <1>4, <1>6, <1>8 DEF Listed, LastIs, LostTask
<1>10. ASSUME idle.at = "forward", NEW j \in 1 .. n, TakesOut(n, chain, j)
       PROVE  links'.prev[idle.after] = links.prev[idle.after]
  <2>1. idle.after = chain[j + 1] \/ idle.after = ReapList
    BY <1>10 DEF TakesOut
  <2>2. idle.after \in Nodes /\ idle.after # t
    BY <1>5, <2>1, ReaperAssumption DEF Nodes
  <2> QED BY <1>4, <2>2
<1>11. IdleKnows(n, chain)'
  BY <1>1, <1>3, <1>4, <1>10 DEF Listed, IdleKnows, TakesOut, TakenOut
<1>12. NoneLost(n, chain)'
  BY <1>1, <1>3, <1>4, <1>6 DEF Listed, NoneLost
<1> QED BY <1>1, <1>3, <1>7, <1>9, <1>11, <1>12 DEF ReaperInv, Listed

\* What the idle task has in its hand is not on the list, or is its own task.
LEMMA HandIsStopped ==
    ASSUME NEW n \in Nat, NEW chain \in Chains(n), Listed(n, chain), InHand
    PROVE  idle.position \in Threads /\ memory[idle.position] = "stopped"
<1>1. \A j \in 1 .. n : chain[j] \in Threads /\ memory[chain[j]] = "stopped"
  BY ChainFacts DEF Listed, AllStopped
<1> QED BY <1>1 DEF Listed, IdleKnows, TakesOut, TakenOut, InHand

\* The links after a task has been appended behind the node that prev of the
\* head names.
LEMMA StopEffect ==
    ASSUME NEW t \in Threads, Stop(t), ReaperType
    PROVE  LET b == links.prev[ReapList] IN
           /\ ReaperType'
           /\ b \in Nodes /\ memory[t] = "used"
           /\ idle' = idle /\ InHand' = InHand
           /\ crossed' = (crossed \/ UnlinksLast)
           /\ memory' = [memory EXCEPT ![t] = "stopped"]
           /\ b # t => links'.next[b] = t
           /\ b # t => links'.next[t] = ReapList
           /\ \A x \in Nodes \ {t, b} : links'.next[x] = links.next[x]
           /\ links'.prev[ReapList] = t /\ links'.prev[t] = b
           /\ \A x \in Nodes \ {t, ReapList} : links'.prev[x] = links.prev[x]
<1> DEFINE b == links.prev[ReapList]
<1>1. b \in Nodes /\ t \in Nodes /\ ReapList \in Nodes /\ t # ReapList
  BY ReaperAssumption DEF ReaperType, Nodes
<1>2. links' = [next |-> [links.next EXCEPT ![t] = ReapList, ![b] = t],
                prev |-> [links.prev EXCEPT ![t] = b, ![ReapList] = t]]
  BY DEF Stop, AppendTask, Insert
<1>3. /\ links'.next = [links.next EXCEPT ![t] = ReapList, ![b] = t]
      /\ links'.prev = [links.prev EXCEPT ![t] = b, ![ReapList] = t]
  BY <1>2
<1>4. links.next \in [Nodes -> Nodes] /\ links.prev \in [Nodes -> Nodes]
  BY DEF ReaperType
<1>5. memory[t] = "used" /\ idle' = idle /\ crossed' = (crossed \/ UnlinksLast)
      /\ memory' = [memory EXCEPT ![t] = "stopped"] /\ InHand' = InHand
  BY DEF Stop, InHand
<1>6. links' \in [next : [Nodes -> Nodes], prev : [Nodes -> Nodes]]
  BY <1>1, <1>2, <1>4
<1>7. crossed' \in BOOLEAN
  BY <1>5 DEF ReaperType
<1>8. ReaperType'
  BY <1>5, <1>6, <1>7 DEF ReaperType
<1> HIDE DEF b
<1>9. /\ b # t => links'.next[b] = t
      /\ b # t => links'.next[t] = ReapList
      /\ \A x \in Nodes \ {t, b} : links'.next[x] = links.next[x]
      /\ links'.prev[ReapList] = t /\ links'.prev[t] = b
      /\ \A x \in Nodes \ {t, ReapList} : links'.prev[x] = links.prev[x]
  BY <1>1, <1>3, <1>4
<1> QED BY <1>1, <1>5, <1>8, <1>9 DEF b

\* The task is appended to the list.
LEMMA AppendsKeeps ==
    ASSUME NEW t \in Threads, Stop(t), ReaperType, NEW n \in Nat,
           NEW chain \in Chains(n), Listed(n, chain),
           links.prev[ReapList] = chain[n]
    PROVE  ReaperInv'
<1> DEFINE longer == [i \in 0 .. n + 2 |->
                         IF i <= n THEN chain[i] ELSE IF i = n + 1 THEN t ELSE ReapList]
<1> DEFINE b == links.prev[ReapList]
<1>1. /\ ReaperType'
      /\ b \in Nodes /\ memory[t] = "used"
      /\ idle' = idle /\ InHand' = InHand
      /\ crossed' = (crossed \/ UnlinksLast)
      /\ memory' = [memory EXCEPT ![t] = "stopped"]
      /\ b # t => links'.next[b] = t
      /\ b # t => links'.next[t] = ReapList
      /\ \A x \in Nodes \ {t, b} : links'.next[x] = links.next[x]
      /\ links'.prev[ReapList] = t /\ links'.prev[t] = b
      /\ \A x \in Nodes \ {t, ReapList} : links'.prev[x] = links.prev[x]
  BY StopEffect
<1>2. /\ chain \in [0 .. n + 1 -> Nodes]
      /\ chain[0] = ReapList /\ chain[n + 1] = ReapList
      /\ \A i \in 1 .. n : chain[i] \in Threads /\ chain[i] # ReapList
      /\ \A i, j \in 0 .. n : chain[i] = chain[j] => i = j
  BY ChainFacts
<1>3. /\ \A x \in Threads : memory[x] = "stopped" => memory'[x] = "stopped"
      /\ \A x \in Threads : memory'[x] = "stopped" => memory[x] = "stopped" \/ x = t
      /\ memory'[t] = "stopped"
  BY <1>1 DEF ReaperType
<1>4. \A i \in 0 .. n + 1 : chain[i] # t
  <2>1. \A i \in 1 .. n : chain[i] # t
    BY <1>1 DEF Listed, AllStopped
  <2> QED BY <1>2, <2>1, ReaperAssumption
<1>5. b = chain[n] /\ b # t
  BY <1>4
<1>6. /\ longer \in [0 .. n + 2 -> Nodes]
      /\ \A i \in 0 .. n : longer[i] = chain[i]
      /\ longer[n + 1] = t /\ longer[n + 2] = ReapList
  BY <1>2 DEF Nodes
<1> HIDE DEF longer, b
<1>7. longer \in Chains(n + 1)
  <2>1. \A i \in 1 .. n + 1 : longer[i] \in Threads
    BY <1>2, <1>6
  <2>2. \A i, j \in 1 .. n + 1 : longer[i] = longer[j] => i = j
    BY <1>2, <1>4, <1>6
  <2>3. longer[0] = ReapList /\ longer[(n + 1) + 1] = ReapList
        /\ longer \in [0 .. (n + 1) + 1 -> Nodes]
    BY <1>2, <1>6
  <2> QED BY <2>1, <2>2, <2>3 DEF Chains
<1>8. OnChain(n + 1, longer) = OnChain(n, chain) \union {t}
  BY <1>6 DEF OnChain
<1>9. LinkedForward(n + 1, longer)'
  <2>1. \A i \in 0 .. n : i # n =>
            links'.next[chain[i]] = chain[i + 1] /\ longer[i + 1] = chain[i + 1]
    BY <1>1, <1>2, <1>4, <1>5, <1>6 DEF Listed, LinkedForward
  <2>2. links'.next[chain[n]] = t /\ links'.next[t] = ReapList
    BY <1>1, <1>5
  <2>3. ASSUME NEW i \in 0 .. n + 1
        PROVE  links'.next[longer[i]] = longer[i + 1]
    <3>1. CASE i < n
      BY <1>6, <2>1, <3>1
    <3>2. CASE i = n
      BY <1>6, <2>2, <3>2
    <3>3. CASE i = n + 1
      BY <1>6, <2>2, <3>3
    <3> QED BY <3>1, <3>2, <3>3
  <2> QED BY <2>3 DEF LinkedForward
<1>10. LinkedBackward(n + 1, longer)'
  <2>1. ASSUME NEW i \in 1 .. n
        PROVE  links'.prev[longer[i]] = longer[i - 1] \/ (idle'.at = "forward" /\ longer[i] = idle'.after)
    <3>1. links'.prev[chain[i]] = links.prev[chain[i]]
      BY <1>1, <1>2, <1>4
    <3>2. longer[i - 1] = chain[i - 1] /\ longer[i] = chain[i]
      BY <1>6
    <3> QED BY <1>1, <3>1, <3>2 DEF Listed, LinkedBackward
  <2>2. links'.prev[longer[n + 1]] = longer[(n + 1) - 1]
    BY <1>1, <1>5, <1>6
  <2> QED BY <2>1, <2>2 DEF LinkedBackward
<1>11. AllStopped(n + 1, longer)'
  BY <1>2, <1>3, <1>6 DEF Listed, AllStopped
<1>12. LastIs(n + 1, longer)'
  BY <1>1, <1>6 DEF LastIs
<1>13. IdleKnows(n + 1, longer)'
  <2>1. ASSUME NEW j \in 1 .. n
        PROVE  /\ longer[j] = chain[j] /\ longer[j - 1] = chain[j - 1]
               /\ longer[j + 1] = chain[j + 1] \/ chain[j + 1] = ReapList
    BY <1>2, <1>6
  <2>2. ASSUME NEW j \in 1 .. n, TakesOut(n, chain, j), idle.at \in {"backward", "forward"}
        PROVE  TakesOut(n + 1, longer, j)'
    BY <1>1, <2>1, <2>2 DEF TakesOut, UnlinksLast
  <2>3. ASSUME idle.at = "forward", NEW j \in 1 .. n, TakesOut(n, chain, j),
               links.prev[idle.after] = idle.before
        PROVE  links'.prev[idle.after] = idle.before
    <3>1. idle.after # ReapList
      BY <1>2, <1>5, <2>3 DEF TakesOut, b
    <3>2. idle.after = chain[j + 1] /\ idle.after \in Nodes /\ idle.after # t
      BY <1>2, <1>4, <2>3, <3>1 DEF TakesOut
    <3> QED BY <1>1, <2>3, <3>1, <3>2
  <2>4. ASSUME TakenOut(n, chain) PROVE TakenOut(n + 1, longer)'
    BY <1>1, <1>3, <1>8, <2>4 DEF TakenOut
  <2>5. ASSUME NEW i \in 0 .. n PROVE i \in 0 .. n + 1 /\ longer[i] = chain[i]
    BY <1>6
  <2>6. idle.at \in Places
    BY DEF Listed, IdleKnows
  <2>7. CASE idle.at \in {"first", "look", "unlink"}
    BY <1>1, <1>8, <2>1, <2>7 DEF Listed, IdleKnows, Places
  <2>8. CASE idle.at = "backward"
    BY <1>1, <2>2, <2>8 DEF Listed, IdleKnows, Places
  <2>9. CASE idle.at = "forward"
    <3>1. CASE \E j \in 1 .. n : TakesOut(n, chain, j) /\ links.prev[idle.after] = idle.before
      BY <1>1, <2>2, <2>3, <2>9, <3>1 DEF Listed, IdleKnows, Places
    <3>2. CASE /\ crossed /\ idle.after = ReapList /\ idle.next = ReapList
               /\ TakenOut(n, chain)
               /\ \E i \in 0 .. n : idle.before = chain[i]
      BY <1>1, <2>4, <2>5, <2>9, <3>2 DEF Listed, IdleKnows, Places
    <3> QED BY <2>9, <3>1, <3>2 DEF Listed, IdleKnows
  <2>10. CASE idle.at = "free"
    BY <1>1, <1>8, <2>4, <2>10 DEF Listed, IdleKnows, Places
  <2> QED BY <2>6, <2>7, <2>8, <2>9, <2>10 DEF Places
<1>14. NoneLost(n + 1, longer)'
  BY <1>1, <1>3, <1>8 DEF Listed, NoneLost
<1>15. Listed(n + 1, longer)'
  BY <1>9, <1>10, <1>11, <1>12, <1>13, <1>14 DEF Listed
<1> QED BY <1>1, <1>7, <1>15 DEF ReaperInv

\* A task that is appended to a task that was lost is lost as well.
LEMMA AppendsToLostKeeps ==
    ASSUME NEW t \in Threads, Stop(t), ReaperType, NEW n \in Nat,
           NEW chain \in Chains(n), Listed(n, chain),
           LostTask(n, chain, links.prev[ReapList])
    PROVE  ReaperInv'
<1> DEFINE b == links.prev[ReapList]
<1>1. /\ ReaperType'
      /\ b \in Nodes /\ memory[t] = "used"
      /\ idle' = idle /\ InHand' = InHand
      /\ crossed' = (crossed \/ UnlinksLast)
      /\ memory' = [memory EXCEPT ![t] = "stopped"]
      /\ \A x \in Nodes \ {t, b} : links'.next[x] = links.next[x]
      /\ links'.prev[ReapList] = t
      /\ \A x \in Nodes \ {t, ReapList} : links'.prev[x] = links.prev[x]
  BY StopEffect
<1>2. /\ chain \in [0 .. n + 1 -> Nodes]
      /\ chain[0] = ReapList /\ chain[n + 1] = ReapList
      /\ \A i \in 1 .. n : chain[i] \in Threads /\ chain[i] # ReapList
      /\ \A i, j \in 0 .. n : chain[i] = chain[j] => i = j
  BY ChainFacts
<1>3. /\ \A x \in Threads : memory[x] = "stopped" => memory'[x] = "stopped"
      /\ memory'[t] = "stopped"
  BY <1>1 DEF ReaperType
<1>4. \A i \in 0 .. n + 1 : chain[i] # t /\ chain[i] # b
  <2>1. \A i \in 1 .. n : chain[i] # t
    BY <1>1 DEF Listed, AllStopped
  <2>2. \A i \in 1 .. n : chain[i] # b
    BY DEF LostTask, OnChain
  <2>3. b # ReapList
    BY ReaperAssumption DEF LostTask
  <2> QED BY <1>2, <2>1, <2>2, <2>3, ReaperAssumption
<1>5. crossed /\ crossed'
  BY <1>1 DEF LostTask
<1>6. LinkedForward(n, chain)' /\ LinkedBackward(n, chain)' /\ AllStopped(n, chain)'
  <2>1. LinkedForward(n, chain)'
    BY <1>1, <1>2, <1>4 DEF Listed, LinkedForward
  <2>2. LinkedBackward(n, chain)'
    BY <1>1, <1>2, <1>4 DEF Listed, LinkedBackward
  <2>3. AllStopped(n, chain)'
    BY <1>2, <1>3 DEF Listed, AllStopped
  <2> QED BY <2>1, <2>2, <2>3
<1>7. t \notin OnChain(n, chain)
  BY <1>4 DEF OnChain
<1>8. LastIs(n, chain)'
  <2>1. InHand => t # idle.position
    BY <1>1, HandIsStopped
  <2> QED BY <1>1, <1>3, <1>5, <1>7, <2>1 DEF LastIs, LostTask
<1>9. ASSUME idle.at = "forward", NEW j \in 1 .. n, TakesOut(n, chain, j),
             links.prev[idle.after] = idle.before
      PROVE  links'.prev[idle.after] = idle.before
  <2>1. idle.before = chain[j - 1]
    BY <1>9 DEF TakesOut
  <2>2. idle.after # ReapList
    BY <1>2, <1>4, <1>9, <2>1
  <2>3. idle.after = chain[j + 1] /\ idle.after \in Nodes /\ idle.after # t
    BY <1>2, <1>4, <1>9, <2>2 DEF TakesOut
  <2> QED BY <1>1, <1>9, <2>2, <2>3
<1>10. IdleKnows(n, chain)'
  <2>1. ASSUME NEW j \in 1 .. n, TakesOut(n, chain, j) PROVE TakesOut(n, chain, j)'
    BY <1>1, <1>5, <2>1 DEF TakesOut
  <2>2. ASSUME TakenOut(n, chain) PROVE TakenOut(n, chain)'
    BY <1>1, <1>3, <2>2 DEF TakenOut
  <2> QED BY <1>1, <1>5, <1>9, <2>1, <2>2 DEF Listed, IdleKnows
<1>11. NoneLost(n, chain)'
  BY <1>5 DEF NoneLost
<1> QED BY <1>1, <1>6, <1>8, <1>10, <1>11 DEF ReaperInv, Listed

\* The idle task is about to write its stale idea of the end of the list, and
\* prev of the head is what it has written already: what lies between is lost.
LEMMA AppendsBehindKeeps ==
    ASSUME NEW t \in Threads, Stop(t), ReaperType, NEW n \in Nat,
           NEW chain \in Chains(n), Listed(n, chain),
           idle.at = "forward", idle.after = ReapList,
           links.prev[ReapList] = idle.before
    PROVE  ReaperInv'
<1> DEFINE b == links.prev[ReapList]
<1>1. /\ ReaperType'
      /\ b \in Nodes /\ memory[t] = "used"
      /\ idle' = idle /\ InHand' = InHand
      /\ crossed' = (crossed \/ UnlinksLast)
      /\ memory' = [memory EXCEPT ![t] = "stopped"]
      /\ b # t => links'.next[b] = t
      /\ b # t => links'.next[t] = ReapList
      /\ \A x \in Nodes \ {t, b} : links'.next[x] = links.next[x]
      /\ links'.prev[ReapList] = t /\ links'.prev[t] = b
      /\ \A x \in Nodes \ {t, ReapList} : links'.prev[x] = links.prev[x]
  BY StopEffect
<1>2. /\ chain \in [0 .. n + 1 -> Nodes]
      /\ chain[0] = ReapList /\ chain[n + 1] = ReapList
      /\ \A i \in 1 .. n : chain[i] \in Threads /\ chain[i] # ReapList
      /\ \A i, j \in 0 .. n : chain[i] = chain[j] => i = j
  BY ChainFacts
<1>3. /\ \A x \in Threads : memory[x] = "stopped" => memory'[x] = "stopped"
      /\ memory'[t] = "stopped"
  BY <1>1 DEF ReaperType
<1>4. \A i \in 0 .. n + 1 : chain[i] # t
  <2>1. \A i \in 1 .. n : chain[i] # t
    BY <1>1 DEF Listed, AllStopped
  <2> QED BY <1>2, <2>1, ReaperAssumption
<1>5. crossed'
  BY <1>1 DEF UnlinksLast
<1>6. PICK m \in 0 .. n : /\ b = chain[m]
                          /\ idle.next = ReapList
                          /\ \A i \in 1 .. m : idle.position # chain[i]
  <2>1. CASE \E j \in 1 .. n : TakesOut(n, chain, j)
    <3>1. PICK j \in 1 .. n : TakesOut(n, chain, j)
      BY <2>1
    <3>2. b = chain[j - 1] /\ idle.next = ReapList /\ idle.position = chain[j]
      BY <3>1 DEF TakesOut
    <3>3. \A i \in 1 .. j - 1 : chain[i] # chain[j]
      BY <1>2
    <3>4. j - 1 \in 0 .. n
      OBVIOUS
    <3> QED BY <3>2, <3>3, <3>4
  <2>2. CASE TakenOut(n, chain) /\ idle.next = ReapList
             /\ \E i \in 0 .. n : idle.before = chain[i]
    <3>1. PICK i \in 0 .. n : idle.before = chain[i]
      BY <2>2
    <3>2. \A k \in 1 .. i : idle.position # chain[k]
      BY <2>2 DEF TakenOut, OnChain
    <3> QED BY <2>2, <3>1, <3>2
  <2> QED BY <2>1, <2>2 DEF Listed, IdleKnows
<1>7. m \in Nat /\ m + 1 \in Nat /\ b # t
  BY <1>4, <1>6
<1> DEFINE shorter == [i \in 0 .. m + 2 |->
                          IF i <= m THEN chain[i] ELSE IF i = m + 1 THEN t ELSE ReapList]
<1>8. /\ shorter \in [0 .. m + 2 -> Nodes]
      /\ \A i \in 0 .. m : shorter[i] = chain[i]
      /\ shorter[m + 1] = t /\ shorter[m + 2] = ReapList
  BY <1>2 DEF Nodes
<1> HIDE DEF shorter, b
<1>9. shorter \in Chains(m + 1)
  <2>1. \A i \in 1 .. m + 1 : shorter[i] \in Threads
    BY <1>2, <1>8
  <2>2. \A i, j \in 1 .. m + 1 : shorter[i] = shorter[j] => i = j
    BY <1>2, <1>4, <1>8
  <2>3. shorter[0] = ReapList /\ shorter[(m + 1) + 1] = ReapList
        /\ shorter \in [0 .. (m + 1) + 1 -> Nodes]
    BY <1>2, <1>8
  <2> QED BY <2>1, <2>2, <2>3 DEF Chains
<1>10. LinkedForward(m + 1, shorter)'
  <2>1. ASSUME NEW i \in 0 .. m, i # m
        PROVE  links'.next[chain[i]] = chain[i + 1] /\ shorter[i + 1] = chain[i + 1]
    <3>1. chain[i] # chain[m] /\ chain[i] # t /\ chain[i] \in Nodes /\ i \in 0 .. n
      BY <1>2, <1>4, <2>1
    <3>2. links'.next[chain[i]] = links.next[chain[i]]
      BY <1>1, <1>6, <3>1
    <3>3. shorter[i + 1] = chain[i + 1]
      BY <1>8, <2>1
    <3> QED BY <3>1, <3>2, <3>3 DEF Listed, LinkedForward
  <2>2. links'.next[chain[m]] = t /\ links'.next[t] = ReapList
    BY <1>1, <1>6, <1>7
  <2>3. ASSUME NEW i \in 0 .. m + 1
        PROVE  links'.next[shorter[i]] = shorter[i + 1]
    <3>1. CASE i < m
      BY <1>8, <2>1, <3>1
    <3>2. CASE i = m
      BY <1>8, <2>2, <3>2
    <3>3. CASE i = m + 1
      BY <1>8, <2>2, <3>3
    <3> QED BY <3>1, <3>2, <3>3
  <2> QED BY <2>3 DEF LinkedForward
<1>11. LinkedBackward(m + 1, shorter)'
  <2>1. ASSUME NEW i \in 1 .. m
        PROVE  links'.prev[shorter[i]] = shorter[i - 1]
    <3>1. links'.prev[chain[i]] = links.prev[chain[i]]
      BY <1>1, <1>2, <1>4
    <3>2. shorter[i - 1] = chain[i - 1] /\ shorter[i] = chain[i]
      BY <1>8
    <3>3. links.prev[chain[i]] = chain[i - 1]
      BY <1>2 DEF Listed, LinkedBackward
    <3> QED BY <3>1, <3>2, <3>3
  <2>2. links'.prev[shorter[m + 1]] = shorter[(m + 1) - 1]
    BY <1>1, <1>6, <1>8
  <2> QED BY <2>1, <2>2 DEF LinkedBackward
<1>12. AllStopped(m + 1, shorter)'
  BY <1>2, <1>3, <1>8 DEF Listed, AllStopped
<1>13. LastIs(m + 1, shorter)'
  BY <1>1, <1>8 DEF LastIs
<1>14. TakenOut(m + 1, shorter)'
  <2>1. InHand
    BY DEF InHand
  <2>2. idle.position \in Threads /\ memory[idle.position] = "stopped"
    BY <2>1, HandIsStopped
  <2>3. \A i \in 1 .. m + 1 : shorter[i] # idle.position
    BY <1>1, <1>6, <1>8, <2>2
  <2> QED BY <1>1, <1>3, <2>2, <2>3 DEF TakenOut, OnChain
<1>15. IdleKnows(m + 1, shorter)'
  <2>1. m \in 0 .. m + 1 /\ idle.before = shorter[m]
    BY <1>6, <1>8 DEF b
  <2> QED BY <1>1, <1>5, <1>6, <1>14, <2>1 DEF IdleKnows, Places
<1>16. NoneLost(m + 1, shorter)'
  BY <1>5 DEF NoneLost
<1>17. Listed(m + 1, shorter)'
  BY <1>10, <1>11, <1>12, <1>13, <1>15, <1>16 DEF Listed
<1> QED BY <1>1, <1>7, <1>9, <1>17 DEF ReaperInv

LEMMA StopKeeps ==
    ASSUME NEW t \in Threads, Stop(t), ReaperInv
    PROVE  ReaperInv'
<1>n. PICK n \in Nat : \E chain \in Chains(n) : Listed(n, chain)
  BY DEF ReaperInv
<1>1. PICK chain \in Chains(n) : Listed(n, chain)
  BY <1>n
<1>2. ReaperType
  BY DEF ReaperInv
<1>3. CASE links.prev[ReapList] = chain[n]
  BY <1>1, <1>2, <1>3, AppendsKeeps
<1>4. CASE LostTask(n, chain, links.prev[ReapList])
  BY <1>1, <1>2, <1>4, AppendsToLostKeeps
<1>5. CASE /\ idle.at = "forward" /\ idle.after = ReapList
           /\ links.prev[ReapList] = idle.before
  BY <1>1, <1>2, <1>5, AppendsBehindKeeps
<1> QED BY <1>1, <1>3, <1>4, <1>5 DEF Listed, LastIs

-----------------------------------------------------------------------------
(* The steps of the idle task.                                             *)

LEMMA FirstKeeps ==
    ASSUME First, ReaperInv
    PROVE  ReaperInv'
<1>n. PICK n \in Nat : \E chain \in Chains(n) : Listed(n, chain)
  BY DEF ReaperInv
<1>1. PICK chain \in Chains(n) : Listed(n, chain)
  BY <1>n
<1>2. /\ idle.at = "first" /\ links' = links /\ memory' = memory /\ crossed' = crossed
      /\ idle' = [at |-> "look", position |-> links.next[ReapList]]
  BY DEF First
<1>3. idle'.at = "look" /\ idle'.position = links.next[ReapList]
  BY <1>2
<1>4. ~InHand /\ ~InHand'
  BY <1>2, <1>3 DEF InHand
<1>5. links.next[ReapList] = chain[1]
  BY <1>1, ChainFacts DEF Listed, LinkedForward
<1>6. chain[1] \in OnChain(n, chain) \union {ReapList}
  BY ChainFacts DEF OnChain
<1>7. IdleKnows(n, chain)'
  BY <1>3, <1>5, <1>6 DEF IdleKnows, Places, OnChain
<1>8. LinkedForward(n, chain)' /\ LinkedBackward(n, chain)' /\ AllStopped(n, chain)'
  BY <1>1, <1>2 DEF Listed, LinkedForward, LinkedBackward, AllStopped
<1>9. LastIs(n, chain)'
  BY <1>1, <1>2, <1>3, <1>4 DEF Listed, LastIs, LostTask, OnChain
<1>10. NoneLost(n, chain)'
  BY <1>1, <1>2, <1>4 DEF Listed, NoneLost, OnChain
<1> QED BY <1>1, <1>2, <1>7, <1>8, <1>9, <1>10 DEF ReaperInv, Listed, ReaperType

LEMMA LookKeeps ==
    ASSUME Look, ReaperInv
    PROVE  ReaperInv'
<1>n. PICK n \in Nat : \E chain \in Chains(n) : Listed(n, chain)
  BY DEF ReaperInv
<1>1. PICK chain \in Chains(n) : Listed(n, chain)
  BY <1>n
<1>2. /\ idle.at = "look" /\ links' = links /\ memory' = memory /\ crossed' = crossed
      /\ ~InHand
  BY DEF Look, InHand
<1>3. LinkedForward(n, chain)' /\ LinkedBackward(n, chain)' /\ AllStopped(n, chain)'
  BY <1>1, <1>2 DEF Listed, LinkedForward, LinkedBackward, AllStopped
<1>4. CASE idle.position = ReapList
  <2>1. idle' = [at |-> "first"]
    BY <1>4 DEF Look
  <2>2. idle'.at = "first" /\ ~InHand'
    BY <2>1 DEF InHand
  <2>3. IdleKnows(n, chain)'
    BY <2>2 DEF IdleKnows, Places
  <2>4. LastIs(n, chain)'
    BY <1>1, <1>2, <2>2 DEF Listed, LastIs, LostTask, OnChain
  <2>5. NoneLost(n, chain)'
    BY <1>1, <1>2, <2>2 DEF Listed, NoneLost, OnChain
  <2> QED BY <1>1, <1>2, <1>3, <2>3, <2>4, <2>5 DEF ReaperInv, Listed, ReaperType
<1>5. CASE idle.position # ReapList
  <2>1. idle' = [at |-> "unlink", position |-> idle.position,
                 next |-> links.next[idle.position]]
    BY <1>5 DEF Look
  <2>2. idle'.at = "unlink" /\ InHand' /\ idle'.position = idle.position
        /\ idle'.next = links.next[idle.position]
    BY <2>1 DEF InHand
  <2>3. PICK j \in 1 .. n : idle.position = chain[j]
    BY <1>1, <1>2, <1>5 DEF Listed, IdleKnows, OnChain
  <2>4. idle'.next = chain[j + 1]
    BY <1>1, <2>2, <2>3 DEF Listed, LinkedForward
  <2>5. IdleKnows(n, chain)'
    BY <2>2, <2>3, <2>4 DEF IdleKnows, Places
  <2>6. LastIs(n, chain)'
    BY <1>1, <1>2, <2>2, <2>3 DEF Listed, LastIs, LostTask, OnChain
  <2>7. NoneLost(n, chain)'
    BY <1>1, <1>2 DEF Listed, NoneLost, OnChain
  <2> QED BY <1>1, <1>2, <1>3, <2>5, <2>6, <2>7 DEF ReaperInv, Listed, ReaperType
<1> QED BY <1>4, <1>5

LEMMA UnlinkKeeps ==
    ASSUME Unlink, ReaperInv
    PROVE  ReaperInv'
<1>n. PICK n \in Nat : \E chain \in Chains(n) : Listed(n, chain)
  BY DEF ReaperInv
<1>1. PICK chain \in Chains(n) : Listed(n, chain)
  BY <1>n
<1>2. /\ idle.at = "unlink" /\ links' = links /\ memory' = memory /\ crossed' = crossed
      /\ InHand
  BY DEF Unlink, InHand
<1>3. LinkedForward(n, chain)' /\ LinkedBackward(n, chain)' /\ AllStopped(n, chain)'
  BY <1>1, <1>2 DEF Listed, LinkedForward, LinkedBackward, AllStopped
<1>4. idle' = [at |-> "backward", position |-> idle.position, next |-> idle.next,
               before |-> links.prev[idle.position], after |-> links.next[idle.position]]
  BY DEF Unlink
<1>5. /\ idle'.at = "backward" /\ InHand' /\ idle'.position = idle.position
      /\ idle'.next = idle.next /\ idle'.before = links.prev[idle.position]
      /\ idle'.after = links.next[idle.position]
  BY <1>4 DEF InHand
<1>6. PICK j \in 1 .. n : idle.position = chain[j] /\ idle.next \in {chain[j + 1], ReapList}
  BY <1>1, <1>2 DEF Listed, IdleKnows
<1>7. links.prev[chain[j]] = chain[j - 1] /\ links.next[chain[j]] = chain[j + 1]
  BY <1>1, <1>2 DEF Listed, LinkedForward, LinkedBackward
<1>8. TakesOut(n, chain, j)'
  BY <1>5, <1>6, <1>7 DEF TakesOut
<1>9. IdleKnows(n, chain)'
  BY <1>5, <1>8 DEF IdleKnows, Places
<1>10. LastIs(n, chain)'
  BY <1>1, <1>2, <1>5 DEF Listed, LastIs, LostTask, OnChain
<1>11. NoneLost(n, chain)'
  BY <1>1, <1>2, <1>5 DEF Listed, NoneLost, OnChain
<1> QED BY <1>1, <1>2, <1>3, <1>9, <1>10, <1>11 DEF ReaperInv, Listed, ReaperType

LEMMA IdleTypeKept ==
    ASSUME ReaperNext, ReaperInv, IdleType
    PROVE  IdleType'
<1>1. ReapList \in Nodes /\ Threads \subseteq Nodes
  BY DEF Nodes
<1>2. /\ links.next \in [Nodes -> Nodes] /\ links.prev \in [Nodes -> Nodes]
  BY DEF ReaperInv, ReaperType
<1>3. ASSUME NEW t \in Threads, Start(t) \/ Stop(t) PROVE IdleType'
  BY <1>3 DEF Start, Stop, IdleType
<1>4. ASSUME First PROVE IdleType'
  BY <1>1, <1>2, <1>4 DEF First, IdleType
<1>5. ASSUME Look PROVE IdleType'
  BY <1>1, <1>2, <1>5 DEF Look, IdleType
<1>6. ASSUME Unlink PROVE IdleType'
  BY <1>1, <1>2, <1>6 DEF Unlink, IdleType
<1>7. ASSUME Backward PROVE IdleType'
  BY <1>7 DEF Backward, IdleType
<1>8. ASSUME Forward PROVE IdleType'
  BY <1>8 DEF Forward, IdleType
<1>9. ASSUME FreeTask PROVE IdleType'
  BY <1>9 DEF FreeTask, IdleType
<1> QED BY <1>3, <1>4, <1>5, <1>6, <1>7, <1>8, <1>9 DEF ReaperNext

LEMMA BackwardKeeps ==
    ASSUME Backward, ReaperInv, IdleType
    PROVE  ReaperInv'
<1>n. PICK n \in Nat : \E chain \in Chains(n) : Listed(n, chain)
  BY DEF ReaperInv
<1>1. PICK chain \in Chains(n) : Listed(n, chain)
  BY <1>n
<1>2. /\ idle \in [at : {"backward", "forward", "free"}, position : Nodes,
                   next : Nodes, before : Nodes, after : Nodes]
      /\ idle.at = "backward" /\ memory' = memory /\ crossed' = crossed /\ InHand
  BY DEF Backward, IdleType, InHand
<1>3. /\ idle'.at = "forward" /\ idle'.position = idle.position
      /\ idle'.next = idle.next /\ idle'.before = idle.before
      /\ idle'.after = idle.after
  BY <1>2 DEF Backward
<1>4. InHand'
  BY <1>3 DEF InHand
<1>5. /\ links' \in [next : [Nodes -> Nodes], prev : [Nodes -> Nodes]]
      /\ links'.next = links.next
      /\ links'.prev = [links.prev EXCEPT ![idle.after] = idle.before]
  BY <1>2 DEF Backward, ReaperInv, ReaperType
<1>6. /\ links'.prev[idle.after] = idle.before
      /\ \A x \in Nodes : x # idle.after => links'.prev[x] = links.prev[x]
  BY <1>2, <1>5 DEF ReaperInv, ReaperType
<1>7. ReaperType'
  BY <1>2, <1>5 DEF ReaperInv, ReaperType
<1>8. LinkedForward(n, chain)' /\ AllStopped(n, chain)'
  BY <1>1, <1>2, <1>5 DEF Listed, LinkedForward, AllStopped
<1>9. LinkedBackward(n, chain)'
  <2>1. \A i \in 1 .. n : chain[i] \in Nodes
    BY ChainFacts DEF Nodes
  <2> QED BY <1>1, <1>2, <1>3, <1>6, <2>1 DEF Listed, LinkedBackward
<1>10. LastIs(n, chain)'
  <2>1. CASE idle.after = ReapList
    BY <1>3, <1>6, <2>1 DEF LastIs
  <2>2. CASE idle.after # ReapList
    <3>1. links'.prev[ReapList] = links.prev[ReapList]
      BY <1>6, <2>2 DEF Nodes
    <3> QED BY <1>1, <1>2, <1>3, <1>4, <3>1 DEF Listed, LastIs, LostTask, OnChain
  <2> QED BY <2>1, <2>2
<1>11. IdleKnows(n, chain)'
  <2>1. PICK j \in 1 .. n : TakesOut(n, chain, j)
    BY <1>1, <1>2 DEF Listed, IdleKnows
  <2>2. TakesOut(n, chain, j)'
    BY <1>2, <1>3, <2>1 DEF TakesOut
  <2> QED BY <1>3, <1>6, <2>2 DEF IdleKnows, Places
<1>12. NoneLost(n, chain)'
  BY <1>1, <1>2, <1>3, <1>4 DEF Listed, NoneLost, OnChain
<1> QED BY <1>1, <1>7, <1>8, <1>9, <1>10, <1>11, <1>12 DEF ReaperInv, Listed

LEMMA ForwardEffect ==
    ASSUME Forward, ReaperType, IdleType
    PROVE  /\ ReaperType'
           /\ idle.at = "forward" /\ memory' = memory /\ crossed' = crossed
           /\ InHand /\ InHand'
           /\ idle'.at = "free" /\ idle'.position = idle.position
           /\ idle'.next = idle.next
           /\ idle.before \in Nodes /\ idle.after \in Nodes
           /\ links'.prev = links.prev /\ links'.next[idle.before] = idle.after
           /\ \A x \in Nodes : x # idle.before => links'.next[x] = links.next[x]
<1>1. /\ idle \in [at : {"backward", "forward", "free"}, position : Nodes,
                   next : Nodes, before : Nodes, after : Nodes]
      /\ idle.at = "forward" /\ memory' = memory /\ crossed' = crossed /\ InHand
  BY DEF Forward, IdleType, InHand
<1>2. /\ idle'.at = "free" /\ idle'.position = idle.position
      /\ idle'.next = idle.next
  BY <1>1 DEF Forward
<1>3. InHand'
  BY <1>2 DEF InHand
<1>4. /\ links' \in [next : [Nodes -> Nodes], prev : [Nodes -> Nodes]]
      /\ links'.prev = links.prev
      /\ links'.next = [links.next EXCEPT ![idle.before] = idle.after]
  BY <1>1 DEF Forward, ReaperType
<1>5. /\ links'.next[idle.before] = idle.after
      /\ \A x \in Nodes : x # idle.before => links'.next[x] = links.next[x]
  BY <1>1, <1>4 DEF ReaperType
<1> QED BY <1>1, <1>2, <1>3, <1>4, <1>5 DEF ReaperType

\* The chain ends behind its task m: what follows is lost.
LEMMA CutKeeps ==
    ASSUME Forward, ReaperType, IdleType, NEW n \in Nat,
           NEW chain \in Chains(n), Listed(n, chain), NEW m \in 0 .. n,
           crossed, idle.after = ReapList, idle.next = ReapList,
           idle.before = chain[m],
           \A i \in 1 .. m : idle.position # chain[i],
           \/ links.prev[ReapList] = idle.before
           \/ idle.position \notin OnChain(n, chain)
    PROVE  ReaperInv'
<1>1. /\ ReaperType'
      /\ idle.at = "forward" /\ memory' = memory /\ crossed' = crossed
      /\ InHand /\ InHand'
      /\ idle'.at = "free" /\ idle'.position = idle.position
      /\ idle'.next = idle.next
      /\ idle.before \in Nodes /\ idle.after \in Nodes
      /\ links'.prev = links.prev /\ links'.next[idle.before] = idle.after
      /\ \A x \in Nodes : x # idle.before => links'.next[x] = links.next[x]
  BY ForwardEffect
<1>2. /\ chain \in [0 .. n + 1 -> Nodes]
      /\ chain[0] = ReapList /\ chain[n + 1] = ReapList
      /\ \A i \in 1 .. n : chain[i] \in Threads /\ chain[i] # ReapList
      /\ \A i, j \in 0 .. n : chain[i] = chain[j] => i = j
  BY ChainFacts
<1>3. m \in Nat
  OBVIOUS
<1> DEFINE cut == [i \in 0 .. m + 1 |-> IF i <= m THEN chain[i] ELSE ReapList]
<1>4. /\ cut \in [0 .. m + 1 -> Nodes]
      /\ \A i \in 0 .. m : cut[i] = chain[i]
      /\ cut[m + 1] = ReapList
  BY <1>2 DEF Nodes
<1> HIDE DEF cut
<1>5. cut \in Chains(m)
  BY <1>2, <1>4 DEF Chains
<1>6. LinkedForward(m, cut)'
  <2>1. ASSUME NEW i \in 0 .. m
        PROVE  links'.next[cut[i]] = cut[i + 1]
    <3>1. CASE i = m
      BY <1>1, <1>4, <3>1
    <3>2. CASE i # m
      <4>1. chain[i] # chain[m] /\ chain[i] \in Nodes /\ i \in 0 .. n
        BY <1>2, <3>2
      <4>2. links'.next[chain[i]] = links.next[chain[i]]
        BY <1>1, <4>1
      <4>3. cut[i + 1] = chain[i + 1] /\ cut[i] = chain[i]
        BY <1>4, <3>2
      <4> QED BY <4>1, <4>2, <4>3 DEF Listed, LinkedForward
    <3> QED BY <3>1, <3>2
  <2> QED BY <2>1 DEF LinkedForward
<1>7. LinkedBackward(m, cut)'
  <2>1. ASSUME NEW i \in 1 .. m
        PROVE  links'.prev[cut[i]] = cut[i - 1]
    <3>1. cut[i - 1] = chain[i - 1] /\ cut[i] = chain[i]
      BY <1>4
    <3>2. links.prev[chain[i]] = chain[i - 1]
      BY <1>2 DEF Listed, LinkedBackward
    <3> QED BY <1>1, <3>1, <3>2
  <2> QED BY <2>1 DEF LinkedBackward
<1>8. AllStopped(m, cut)'
  BY <1>1, <1>2, <1>4 DEF Listed, AllStopped
<1>9. OnChain(m, cut) \subseteq OnChain(n, chain)
  BY <1>4 DEF OnChain
<1>10. LastIs(m, cut)'
  <2>1. CASE links.prev[ReapList] = idle.before
    BY <1>1, <1>4, <2>1 DEF LastIs
  <2>2. CASE links.prev[ReapList] = chain[n] /\ m # n /\ idle.position \notin OnChain(n, chain)
    <3>1. chain[n] \in Threads /\ memory[chain[n]] = "stopped" /\ chain[n] \in OnChain(n, chain)
      BY <1>2, <2>2 DEF Listed, AllStopped, OnChain
    <3>2. chain[n] \notin OnChain(m, cut)
      BY <1>2, <1>4, <2>2 DEF OnChain
    <3> QED BY <1>1, <2>2, <3>1, <3>2 DEF LastIs, LostTask
  <2>3. CASE LostTask(n, chain, links.prev[ReapList])
    BY <1>1, <1>9, <2>3 DEF LastIs, LostTask
  <2>4. CASE links.prev[ReapList] = chain[n] /\ m = n
    BY <2>1, <2>4
  <2> QED BY <2>1, <2>2, <2>3, <2>4 DEF Listed, LastIs
<1>11. TakenOut(m, cut)'
  <2>1. idle.position \in Threads /\ memory[idle.position] = "stopped"
    BY <1>1, HandIsStopped
  <2>2. idle.position \notin OnChain(m, cut)
    BY <1>4 DEF OnChain
  <2> QED BY <1>1, <2>1, <2>2 DEF TakenOut
<1>12. IdleKnows(m, cut)'
  BY <1>1, <1>11 DEF IdleKnows, Places
<1>13. NoneLost(m, cut)'
  BY <1>1 DEF NoneLost
<1> QED BY <1>1, <1>3, <1>5, <1>6, <1>7, <1>8, <1>10, <1>12, <1>13 DEF ReaperInv, Listed

\* The task j leaves the chain.
LEMMA RemoveKeeps ==
    ASSUME Forward, ReaperType, IdleType, NEW n \in Nat,
           NEW chain \in Chains(n), Listed(n, chain), NEW j \in 1 .. n,
           TakesOut(n, chain, j), idle.after = chain[j + 1],
           links.prev[idle.after] = idle.before
    PROVE  ReaperInv'
<1>1. /\ ReaperType'
      /\ idle.at = "forward" /\ memory' = memory /\ crossed' = crossed
      /\ InHand /\ InHand'
      /\ idle'.at = "free" /\ idle'.position = idle.position
      /\ idle'.next = idle.next
      /\ idle.before \in Nodes /\ idle.after \in Nodes
      /\ links'.prev = links.prev /\ links'.next[idle.before] = idle.after
      /\ \A x \in Nodes : x # idle.before => links'.next[x] = links.next[x]
  BY ForwardEffect
<1>2. /\ chain \in [0 .. n + 1 -> Nodes]
      /\ chain[0] = ReapList /\ chain[n + 1] = ReapList
      /\ \A i \in 1 .. n : chain[i] \in Threads /\ chain[i] # ReapList
      /\ \A i, k \in 0 .. n : chain[i] = chain[k] => i = k
  BY ChainFacts
<1>3. /\ idle.position = chain[j] /\ idle.before = chain[j - 1]
      /\ idle.next \in {chain[j + 1], ReapList}
  BY DEF TakesOut
<1>4. n - 1 \in Nat /\ (n - 1) + 1 = n
  OBVIOUS
<1> DEFINE rest == [i \in 0 .. n |-> IF i < j THEN chain[i] ELSE chain[i + 1]]
<1>5. /\ rest \in [0 .. n -> Nodes]
      /\ \A i \in 0 .. j - 1 : rest[i] = chain[i]
      /\ \A i \in j .. n : rest[i] = chain[i + 1]
  BY <1>2
<1> HIDE DEF rest
<1>6. rest \in Chains(n - 1)
  <2>1. \A i \in 1 .. n - 1 : rest[i] \in Threads
    BY <1>2, <1>5
  <2>2. \A i, k \in 1 .. n - 1 : rest[i] = rest[k] => i = k
    BY <1>2, <1>5
  <2>3. rest[0] = ReapList /\ rest[n] = ReapList
    BY <1>2, <1>5
  <2> QED BY <1>4, <1>5, <2>1, <2>2, <2>3 DEF Chains
<1>7. OnChain(n - 1, rest) = OnChain(n, chain) \ {chain[j]}
  <2>1. ASSUME NEW x \in OnChain(n - 1, rest) PROVE x \in OnChain(n, chain) \ {chain[j]}
    <3>1. PICK i \in 1 .. n - 1 : x = rest[i]
      BY <2>1 DEF OnChain
    <3>2. CASE i < j
      BY <1>2, <1>5, <3>1, <3>2 DEF OnChain
    <3>3. CASE i >= j
      <4>1. i + 1 \in 1 .. n /\ x = chain[i + 1]
        BY <1>5, <3>1, <3>3
      <4>2. chain[i + 1] # chain[j]
        BY <1>2, <3>3, <4>1
      <4> QED BY <4>1, <4>2 DEF OnChain
    <3> QED BY <3>2, <3>3
  <2>2. ASSUME NEW x \in OnChain(n, chain) \ {chain[j]} PROVE x \in OnChain(n - 1, rest)
    <3>1. PICK i \in 1 .. n : x = chain[i]
      BY <2>2 DEF OnChain
    <3>2. CASE i < j
      BY <1>5, <3>1, <3>2 DEF OnChain
    <3>3. CASE i > j
      <4>1. i - 1 \in 1 .. n - 1 /\ rest[i - 1] = x
        BY <1>5, <3>1, <3>3
      <4> QED BY <4>1 DEF OnChain
    <3> QED BY <2>2, <3>1, <3>2, <3>3
  <2> QED BY <2>1, <2>2
<1>8. LinkedForward(n - 1, rest)'
  <2>1. ASSUME NEW i \in 0 .. n - 1
        PROVE  links'.next[rest[i]] = rest[i + 1]
    <3>1. CASE i = j - 1
      BY <1>1, <1>3, <1>5, <3>1
    <3>2. CASE i < j - 1
      <4>1. chain[i] # chain[j - 1] /\ chain[i] \in Nodes
        BY <1>2, <3>2
      <4>2. rest[i] = chain[i] /\ rest[i + 1] = chain[i + 1]
        BY <1>5, <3>2
      <4> QED BY <1>1, <1>3, <4>1, <4>2 DEF Listed, LinkedForward
    <3>3. CASE i > j - 1
      <4>1. i + 1 \in 0 .. n /\ i + 1 # j - 1
        BY <3>3
      <4>2. chain[i + 1] # chain[j - 1] /\ chain[i + 1] \in Nodes
        BY <1>2, <4>1
      <4>3. rest[i] = chain[i + 1] /\ rest[i + 1] = chain[(i + 1) + 1]
        BY <1>5, <3>3
      <4> QED BY <1>1, <1>3, <4>1, <4>2, <4>3 DEF Listed, LinkedForward
    <3> QED BY <3>1, <3>2, <3>3
  <2> QED BY <2>1 DEF LinkedForward
<1>9. LinkedBackward(n - 1, rest)'
  <2>1. ASSUME NEW i \in 1 .. n - 1
        PROVE  links'.prev[rest[i]] = rest[i - 1]
    <3>1. CASE i < j
      <4>1. rest[i - 1] = chain[i - 1] /\ rest[i] = chain[i]
        BY <1>5, <3>1
      <4>2. chain[i] # chain[j + 1]
        BY <1>2, <3>1
      <4> QED BY <1>1, <4>1, <4>2 DEF Listed, LinkedBackward
    <3>2. CASE i = j
      BY <1>1, <1>3, <1>5, <3>2
    <3>3. CASE i > j
      <4>1. rest[i - 1] = chain[i] /\ rest[i] = chain[i + 1]
        BY <1>5, <3>3
      <4>2. i + 1 \in 1 .. n /\ (i + 1) - 1 = i
        BY <3>3
      <4>3. chain[i + 1] # chain[j + 1]
        <5>1. CASE j + 1 \in 0 .. n
          BY <1>2, <3>3, <4>2, <5>1
        <5>2. CASE j = n
          BY <1>2, <4>2, <5>2
        <5> QED BY <5>1, <5>2
      <4> QED BY <1>1, <4>1, <4>2, <4>3 DEF Listed, LinkedBackward
    <3> QED BY <3>1, <3>2, <3>3
  <2> QED BY <2>1 DEF LinkedBackward
<1>10. AllStopped(n - 1, rest)'
  <2>1. ASSUME NEW i \in 1 .. n - 1
        PROVE  memory'[rest[i]] = "stopped"
    <3>1. rest[i] \in OnChain(n - 1, rest)
      BY DEF OnChain
    <3> QED BY <1>1, <1>7, <3>1 DEF Listed, AllStopped, OnChain
  <2> QED BY <2>1 DEF AllStopped
<1>11. LastIs(n - 1, rest)'
  <2>1. CASE j = n
    BY <1>1, <1>2, <1>3, <1>5, <2>1 DEF LastIs
  <2>2. CASE j < n
    <3>1. idle.after # ReapList
      BY <1>2, <2>2
    <3>2. rest[n - 1] = chain[n]
      BY <1>5, <2>2
    <3> QED BY <1>1, <1>7, <3>1, <3>2 DEF Listed, LastIs, LostTask
  <2> QED BY <2>1, <2>2
<1>12. TakenOut(n - 1, rest)'
  <2>1. idle.position \in Threads /\ memory[idle.position] = "stopped"
    BY <1>1, HandIsStopped
  <2> QED BY <1>1, <1>3, <1>7, <2>1 DEF TakenOut
<1>13. IdleKnows(n - 1, rest)'
  <2>1. CASE j = n
    BY <1>1, <1>2, <1>3, <1>12, <2>1 DEF IdleKnows, Places
  <2>2. CASE j < n
    <3>1. rest[j] = chain[j + 1] /\ j \in 1 .. n - 1
      BY <1>5, <2>2
    <3>2. chain[j + 1] \in OnChain(n - 1, rest)
      BY <3>1 DEF OnChain
    <3> QED BY <1>1, <1>3, <1>12, <3>2 DEF IdleKnows, Places
  <2> QED BY <2>1, <2>2
<1>14. NoneLost(n - 1, rest)'
  BY <1>1, <1>3, <1>7 DEF Listed, NoneLost
<1>15. Listed(n - 1, rest)'
  BY <1>8, <1>9, <1>10, <1>11, <1>13, <1>14 DEF Listed
<1> QED BY <1>1, <1>4, <1>6, <1>15 DEF ReaperInv

LEMMA ForwardKeeps ==
    ASSUME Forward, ReaperInv, IdleType
    PROVE  ReaperInv'
<1>n. PICK n \in Nat : \E chain \in Chains(n) : Listed(n, chain)
  BY DEF ReaperInv
<1>1. PICK chain \in Chains(n) : Listed(n, chain)
  BY <1>n
<1>2. ReaperType /\ idle.at = "forward"
  BY DEF ReaperInv, Forward
<1>3. CASE \E j \in 1 .. n : TakesOut(n, chain, j) /\ links.prev[idle.after] = idle.before
  <2>1. PICK j \in 1 .. n : TakesOut(n, chain, j) /\ links.prev[idle.after] = idle.before
    BY <1>3
  <2>2. CASE idle.after = chain[j + 1]
    BY <1>1, <1>2, <2>1, <2>2, RemoveKeeps
  <2>3. CASE idle.after = ReapList /\ crossed
    <3>1. idle.before = chain[j - 1] /\ j - 1 \in 0 .. n /\ idle.next = ReapList
      BY <2>1, <2>3 DEF TakesOut
    <3>2. \A i \in 1 .. j - 1 : idle.position # chain[i]
      BY <2>1, ChainFacts DEF TakesOut
    <3> QED BY <1>1, <1>2, <2>1, <2>3, <3>1, <3>2, CutKeeps
  <2> QED BY <2>1, <2>2, <2>3 DEF TakesOut
<1>4. CASE /\ crossed /\ idle.after = ReapList /\ idle.next = ReapList
           /\ TakenOut(n, chain)
           /\ \E i \in 0 .. n : idle.before = chain[i]
  <2>1. PICK i \in 0 .. n : idle.before = chain[i]
    BY <1>4
  <2>2. /\ idle.position \notin OnChain(n, chain)
        /\ \A k \in 1 .. i : idle.position # chain[k]
    BY <1>4 DEF TakenOut, OnChain
  <2> QED BY <1>1, <1>2, <1>4, <2>1, <2>2, CutKeeps
<1> QED BY <1>1, <1>2, <1>3, <1>4 DEF Listed, IdleKnows

LEMMA FreeTaskKeeps ==
    ASSUME FreeTask, ReaperInv
    PROVE  ReaperInv'
<1>n. PICK n \in Nat : \E chain \in Chains(n) : Listed(n, chain)
  BY DEF ReaperInv
<1>1. PICK chain \in Chains(n) : Listed(n, chain)
  BY <1>n
<1>2. /\ idle.at = "free" /\ links' = links /\ crossed' = crossed /\ InHand
      /\ idle' = [at |-> "look", position |-> idle.next]
      /\ memory' = [memory EXCEPT ![idle.position] = "free"]
  BY DEF FreeTask, InHand
<1>3. idle'.at = "look" /\ idle'.position = idle.next /\ ~InHand'
  BY <1>2 DEF InHand
<1>4. TakenOut(n, chain) /\ idle.next \in OnChain(n, chain) \union {ReapList}
  BY <1>1, <1>2 DEF Listed, IdleKnows
<1>5. /\ \A x \in Threads : x # idle.position => memory'[x] = memory[x]
      /\ memory'[idle.position] = "free"
  BY <1>2, <1>4 DEF ReaperInv, ReaperType, TakenOut
<1>6. ReaperType'
  BY <1>2 DEF ReaperInv, ReaperType
<1>7. LinkedForward(n, chain)' /\ LinkedBackward(n, chain)'
  BY <1>1, <1>2 DEF Listed, LinkedForward, LinkedBackward
<1>8. AllStopped(n, chain)'
  BY <1>1, <1>4, <1>5, ChainFacts DEF Listed, AllStopped, TakenOut, OnChain
<1>9. LastIs(n, chain)'
  BY <1>1, <1>2, <1>3, <1>5 DEF Listed, LastIs, LostTask, OnChain
<1>10. IdleKnows(n, chain)'
  BY <1>3, <1>4 DEF IdleKnows, Places, OnChain
<1>11. NoneLost(n, chain)'
  BY <1>1, <1>2, <1>4, <1>5 DEF Listed, NoneLost, OnChain, TakenOut
<1> QED BY <1>1, <1>6, <1>7, <1>8, <1>9, <1>10, <1>11 DEF ReaperInv, Listed

LEMMA ReaperStep ==
    ASSUME ReaperNext, ReaperInv, IdleType
    PROVE  ReaperInv' /\ IdleType'
<1>1. ReaperInv'
  BY StartKeeps, StopKeeps, FirstKeeps, LookKeeps, UnlinkKeeps, BackwardKeeps,
     ForwardKeeps, FreeTaskKeeps DEF ReaperNext
<1> QED BY <1>1, IdleTypeKept

-----------------------------------------------------------------------------
(* What the passes over the list come to is what is on the chain.          *)

LEMMA LeastIsIn ==
    ASSUME NEW S \in SUBSET Nat, S # {}
    PROVE  \E i \in S : \A j \in S : i <= j
<1>1. PICK i \in S : \A j \in S : ~(<<j, i>> \in OpToRel(<, Nat))
  BY NatLessThanWellFounded, WFMin
<1>2. \A j \in S : ~(j < i)
  BY <1>1 DEF OpToRel
<1> QED BY <1>2

\* Positions on a ring of n tasks and the head, m steps long.
Turns(n, m) ==
    {g \in [0 .. m -> 1 .. n + 1] :
        /\ \A k \in 0 .. m : k <= n => g[k] = k + 1
        /\ \A k \in 1 .. m : g[k] = IF g[k - 1] = n + 1 THEN 1 ELSE g[k - 1] + 1}

LEMMA TurnsExist ==
    ASSUME NEW n \in Nat, NEW m \in Nat
    PROVE  Turns(n, m) # {}
<1> DEFINE Missing == {k \in Nat : Turns(n, k) = {}}
<1>1. SUFFICES Missing = {}
  OBVIOUS
<1>2. SUFFICES ASSUME Missing # {} PROVE FALSE
  OBVIOUS
<1>3. PICK k \in Missing : \A j \in Missing : k <= j
  BY <1>2, LeastIsIn
<1>4. CASE k = 0
  <2>1. [x \in 0 .. 0 |-> 1] \in Turns(n, 0)
    BY DEF Turns
  <2> QED BY <1>3, <1>4, <2>1
<1>5. CASE k # 0
  <2>1. k - 1 \in Nat /\ k - 1 \notin Missing
    BY <1>3, <1>5
  <2>2. PICK g \in Turns(n, k - 1) : TRUE
    BY <2>1
  <2>3. /\ g \in [0 .. k - 1 -> 1 .. n + 1]
        /\ \A x \in 0 .. k - 1 : x <= n => g[x] = x + 1
        /\ \A x \in 1 .. k - 1 : g[x] = IF g[x - 1] = n + 1 THEN 1 ELSE g[x - 1] + 1
    BY DEF Turns
  <2> DEFINE next == IF g[k - 1] = n + 1 THEN 1 ELSE g[k - 1] + 1
             h == [x \in 0 .. k |-> IF x = k THEN next ELSE g[x]]
  <2>4. next \in 1 .. n + 1 /\ (k <= n => next = k + 1)
    BY <1>3, <2>1, <2>3
  <2> HIDE DEF next
  <2>5. h \in [0 .. k -> 1 .. n + 1]
    <3>1. \A x \in 0 .. k : x # k => x \in 0 .. k - 1
      BY <1>3
    <3> QED BY <2>3, <2>4, <3>1
  <2>6. \A x \in 0 .. k : x <= n => h[x] = x + 1
    BY <1>3, <2>1, <2>3, <2>4
  <2>7. ASSUME NEW x \in 1 .. k
        PROVE  h[x] = IF h[x - 1] = n + 1 THEN 1 ELSE h[x - 1] + 1
    <3>1. CASE x = k
      BY <2>1, <3>1 DEF next
    <3>2. CASE x # k
      BY <2>1, <2>3, <3>2
    <3> QED BY <3>1, <3>2
  <2>8. h \in Turns(n, k)
    BY <2>5, <2>6, <2>7 DEF Turns
  <2> QED BY <1>3, <2>8
<1> QED BY <1>4, <1>5

\* A walk of m steps from a node along the pointers next.
IsWalk(w, m, start, next) ==
    w = [k \in 0 .. m |-> IF k = 0 THEN start ELSE next[w[k - 1]]]

LEMMA OneWalk ==
    ASSUME NEW m \in Nat, NEW start, NEW next, NEW v, NEW w,
           IsWalk(v, m, start, next), IsWalk(w, m, start, next)
    PROVE  v = w
<1> DEFINE Differ == {k \in 0 .. m : v[k] # w[k]}
<1>1. /\ \A k \in 0 .. m : v[k] = IF k = 0 THEN start ELSE next[v[k - 1]]
      /\ \A k \in 0 .. m : w[k] = IF k = 0 THEN start ELSE next[w[k - 1]]
  BY DEF IsWalk
<1>2. ASSUME Differ # {} PROVE FALSE
  <2>1. Differ \in SUBSET Nat
    OBVIOUS
  <2>2. PICK k \in Differ : \A j \in Differ : k <= j
    BY <1>2, <2>1, LeastIsIn
  <2>3. k # 0
    BY <1>1
  <2>4. k - 1 \in 0 .. m /\ k - 1 \notin Differ
    BY <2>2, <2>3
  <2> QED BY <1>1, <2>2, <2>3, <2>4
<1>3. \A k \in 0 .. m : v[k] = w[k]
  BY <1>2
<1>4. /\ v = [k \in 0 .. m |-> v[k]]
      /\ w = [k \in 0 .. m |-> w[k]]
  BY DEF IsWalk
<1> QED BY <1>3, <1>4

LEMMA ChainFits ==
    ASSUME NEW n \in Nat, NEW chain \in Chains(n)
    PROVE  Cardinality(Nodes) \in Nat /\ n <= Cardinality(Nodes)
<1>1. IsFiniteSet(Nodes)
  BY ReaperAssumption, FS_AddElement DEF Nodes
<1>2. [i \in 1 .. n |-> chain[i]] \in Injection(1 .. n, Nodes)
  BY ChainFacts DEF Injection, IsInjective, Nodes
<1>3. Cardinality(1 .. n) <= Cardinality(Nodes)
  BY <1>1, <1>2, FS_Injection
<1>4. Cardinality(1 .. n) = n
  BY FS_Interval
<1> QED BY <1>1, <1>3, <1>4, FS_CardinalityType

LEMMA AheadIs ==
    ASSUME NEW w, IsWalk(w, Cardinality(Nodes), links.next[ReapList], links.next),
           Cardinality(Nodes) \in Nat
    PROVE  Ahead = {w[k] : k \in 0 .. Cardinality(Nodes)} \ {ReapList}
<1> DEFINE N == Cardinality(Nodes)
           walk[k \in 0 .. N] == IF k = 0 THEN links.next[ReapList]
                                 ELSE links.next[walk[k - 1]]
<1>1. IsWalk(w, N, links.next[ReapList], links.next)
  OBVIOUS
<1>2. walk = CHOOSE f : IsWalk(f, N, links.next[ReapList], links.next)
  BY DEF IsWalk
<1>3. IsWalk(walk, N, links.next[ReapList], links.next)
  BY <1>1, <1>2
<1>4. walk = w
  BY <1>1, <1>3, OneWalk
<1>5. Ahead = {walk[k] : k \in DOMAIN walk} \ {ReapList}
  BY DEF Ahead
<1> HIDE DEF walk
<1>6. DOMAIN walk = 0 .. N
  BY <1>3 DEF IsWalk
<1> QED BY <1>4, <1>5, <1>6


LEMMA AheadOfChain ==
    ASSUME NEW n \in Nat, NEW chain \in Chains(n), LinkedForward(n, chain)
    PROVE  Ahead = OnChain(n, chain)
<1> DEFINE N == Cardinality(Nodes)
<1>1. N \in Nat /\ n <= N
  BY ChainFits
<1>2. /\ chain[0] = ReapList /\ chain[n + 1] = ReapList
      /\ \A i \in 1 .. n : chain[i] # ReapList
  BY ChainFacts
<1>3. PICK g \in Turns(n, N) : TRUE
  BY <1>1, TurnsExist
<1>4. /\ g \in [0 .. N -> 1 .. n + 1]
      /\ \A k \in 0 .. N : k <= n => g[k] = k + 1
      /\ \A k \in 1 .. N : g[k] = IF g[k - 1] = n + 1 THEN 1 ELSE g[k - 1] + 1
  BY DEF Turns
<1> DEFINE w == [k \in 0 .. N |-> chain[g[k]]]
<1>5. /\ \A i \in 1 .. n : links.next[chain[i]] = chain[i + 1]
      /\ links.next[ReapList] = chain[1]
  BY <1>2 DEF LinkedForward
<1>6. ASSUME NEW k \in 0 .. N
      PROVE  w[k] = IF k = 0 THEN links.next[ReapList] ELSE links.next[w[k - 1]]
  <2>1. CASE k = 0
    BY <1>1, <1>4, <1>5, <2>1
  <2>2. CASE k # 0
    <3>1. k \in 1 .. N /\ k - 1 \in 0 .. N
      BY <1>1, <2>2
    <3>2. g[k - 1] \in 1 .. n + 1
      BY <1>4, <3>1
    <3>3. w[k] = chain[g[k]] /\ w[k - 1] = chain[g[k - 1]]
      BY <3>1
    <3>4. CASE g[k - 1] = n + 1
      <4>1. g[k] = 1
        BY <1>4, <3>1, <3>4
      <4> QED BY <1>2, <1>5, <2>2, <3>3, <3>4, <4>1
    <3>5. CASE g[k - 1] # n + 1
      <4>1. g[k] = g[k - 1] + 1 /\ g[k - 1] \in 1 .. n
        BY <1>4, <3>1, <3>2, <3>5
      <4> QED BY <1>5, <2>2, <3>3, <4>1
    <3> QED BY <3>4, <3>5
  <2> QED BY <2>1, <2>2
<1>7. w = [k \in 0 .. N |-> IF k = 0 THEN links.next[ReapList]
                           ELSE links.next[w[k - 1]]]
  <2> HIDE DEF w
  <2>1. w = [k \in 0 .. N |-> w[k]]
    BY DEF w
  <2> QED BY <1>6, <2>1
<1>8. IsWalk(w, N, links.next[ReapList], links.next)
  BY <1>7 DEF IsWalk
<1>9. Ahead = {w[k] : k \in 0 .. N} \ {ReapList}
  BY <1>1, <1>8, AheadIs
<1>10. ASSUME NEW i \in 1 .. n PROVE i - 1 \in 0 .. N /\ w[i - 1] = chain[i]
  <2>1. i - 1 \in 0 .. N /\ i - 1 <= n
    BY <1>1
  <2>2. g[i - 1] = i
    BY <1>4, <2>1
  <2> QED BY <2>1, <2>2
<1>11. OnChain(n, chain) \subseteq Ahead
  <2> HIDE DEF w
  <2>1. ASSUME NEW i \in 1 .. n PROVE chain[i] \in Ahead
    BY <1>2, <1>9, <1>10
  <2> QED BY <2>1 DEF OnChain
<1>12. ASSUME NEW k \in 0 .. N, w[k] # ReapList PROVE w[k] \in OnChain(n, chain)
  <2>1. g[k] \in 1 .. n + 1 /\ g[k] # n + 1
    BY <1>2, <1>4, <1>12
  <2> QED BY <2>1 DEF OnChain
<1> HIDE DEF w
<1>13. Ahead \subseteq OnChain(n, chain)
  BY <1>9, <1>12
<1> QED BY <1>11, <1>13

-----------------------------------------------------------------------------

LEMMA ReaperCorrect ==
    ASSUME ReaperInv
    PROVE  StoppedTasksReaped
<1>n. PICK n \in Nat : \E chain \in Chains(n) : Listed(n, chain)
  BY DEF ReaperInv
<1>1. PICK chain \in Chains(n) : Listed(n, chain)
  BY <1>n
<1>2. Ahead = OnChain(n, chain)
  BY <1>1, AheadOfChain DEF Listed
<1>3. \A i \in 0 .. n : chain[i] = ReapList \/ chain[i] \in OnChain(n, chain)
  BY ChainFacts DEF OnChain
<1>4. InHand => memory[idle.position] = "stopped"
  BY <1>1, HandIsStopped
<1>5. \A x \in OnChain(n, chain) :
          memory[x] = "stopped" /\ ~(idle.at = "free" /\ idle.position = x)
  BY <1>1 DEF Listed, AllStopped, IdleKnows, TakenOut, OnChain
<1>6. ASSUME links.prev[ReapList] # ReapList
      PROVE  LET last == links.prev[ReapList]
             IN  memory[last] = "stopped" /\ ~(idle.at = "free" /\ idle.position = last)
  <2>1. CASE links.prev[ReapList] = chain[n]
    BY <1>3, <1>5, <1>6, <2>1
  <2>2. CASE LostTask(n, chain, links.prev[ReapList])
    BY <2>2 DEF LostTask, InHand
  <2>3. CASE idle.at = "forward" /\ links.prev[ReapList] = idle.before
    <3>1. \E i \in 0 .. n : idle.before = chain[i]
      <4>1. ASSUME NEW j \in 1 .. n, TakesOut(n, chain, j)
            PROVE  j - 1 \in 0 .. n /\ idle.before = chain[j - 1]
        BY <4>1 DEF TakesOut
      <4> QED BY <1>1, <2>3, <4>1 DEF Listed, IdleKnows
    <3> QED BY <1>3, <1>5, <1>6, <2>3, <3>1
  <2> QED BY <1>1, <2>1, <2>2, <2>3 DEF Listed, LastIs
<1>7. ~crossed => \A t \in Threads : memory[t] = "stopped" =>
          t \in Ahead \/ (InHand /\ idle.position = t)
  BY <1>1, <1>2 DEF Listed, NoneLost
<1>8. \A x \in Ahead \union ({links.prev[ReapList]} \ {ReapList}) :
          memory[x] = "stopped" /\ ~(idle.at = "free" /\ idle.position = x)
  BY <1>2, <1>5, <1>6
<1> QED BY <1>4, <1>7, <1>8 DEF StoppedTasksReaped

\* The inductive invariant of the list of stopped tasks.
THEOREM ReaperInvariant == Spec => [](ReaperInv /\ IdleType)
<1>1. Init => ReaperInv /\ IdleType
  <2>1. ReaperInit => ReaperInv
    BY ReaperInitKnows
  <2>2. ReaperInit => IdleType
    <3>1. ReaperInit => idle \in [at : {"first"}]
      BY DEF ReaperInit
    <3> QED BY <3>1 DEF IdleType
  <2> QED BY <2>1, <2>2 DEF Init
<1>2. ReaperInv /\ IdleType /\ [Next]_vars => (ReaperInv /\ IdleType)'
  <2> SUFFICES ASSUME ReaperInv, IdleType, [Next]_vars
               PROVE  (ReaperInv /\ IdleType)'
    OBVIOUS
  <2>1. CASE ReaperNext
    BY <2>1, ReaperStep
  <2>2. CASE UNCHANGED reapVars
    <3>1. links' = links /\ memory' = memory /\ idle' = idle /\ crossed' = crossed
      BY <2>2 DEF reapVars
    <3>2. IdleType'
      BY <3>1 DEF IdleType
    <3>n. PICK n \in Nat : \E chain \in Chains(n) : Listed(n, chain)
      BY DEF ReaperInv
    <3>3. PICK chain \in Chains(n) : Listed(n, chain)
      BY <3>n
    <3>4. Listed(n, chain)'
      BY <3>1, <3>3 DEF Listed, LinkedForward, LinkedBackward, AllStopped, LastIs,
             LostTask, IdleKnows, TakesOut, TakenOut, NoneLost, InHand, OnChain
    <3> QED BY <3>1, <3>2, <3>4 DEF ReaperInv, ReaperType
  <2> QED BY <2>1, <2>2 DEF Next, vars
<1> QED BY <1>1, <1>2, PTL DEF Spec

\* reap_stopped_tasks (kernel/task.c, lines 22 to 37) walks and unlinks outside of
\* critical sections, while tasks append themselves: for any number of tasks, it
\* frees stopped tasks only and each once, no list leads to a task it has freed,
\* and unless a task stopped just as the last one was taken out, every stopped
\* task is still ahead of it.
THEOREM StoppedTasksReapedCorrect == Spec => []StoppedTasksReaped
<1>1. ReaperInv /\ IdleType => StoppedTasksReaped
  BY ReaperCorrect
<1> QED BY <1>1, ReaperInvariant, PTL

-----------------------------------------------------------------------------
(* The generations of the slots.                                           *)

\* The generation d generations before gen: the last one before 1 is
\* GenModulus - 1.
Before(gen, d) == IF gen > d THEN gen - d ELSE gen - d + GenModulus - 1

\* The retired generations of a slot are the last ones, and never so many that
\* they come round to the present one.
SlotKnows(used, gen, gone) ==
    /\ used \in BOOLEAN /\ gen \in 0 .. GenModulus - 1
    /\ gone \in Seq(Nat) /\ Len(gone) <= GenModulus - 2
    /\ gen = 0 => ~used /\ gone = <<>>
    /\ \A n \in 1 .. Len(gone) :
           gone[n] = Before(gen, Len(gone) - n + (IF used THEN 1 ELSE 0))

SlotsKnow ==
    /\ DOMAIN slot = Kinds /\ DOMAIN retired = Kinds
    /\ \A k \in Kinds :
          /\ DOMAIN slot[k] = Slots(k) /\ DOMAIN retired[k] = Slots(k)
          /\ \A i \in Slots(k) :
                SlotKnows(slot[k][i].used, slot[k][i].gen, retired[k][i])

Creating(client_c) ==
    /\ client_c.kind \in Kinds
    /\ client_c = [at |-> client_c.at, kind |-> client_c.kind, blocks |-> client_c.blocks]

CreatorsKnow ==
    /\ DOMAIN client = Clients
    /\ \A c \in Clients :
          client[c].at \in {"allocating", "registering"} => Creating(client[c])

\* The inductive invariant of the handles.
HandlesInv == SlotsKnow /\ CreatorsKnow

LEMMA NextGenIs ==
    ASSUME NEW gen \in 0 .. GenModulus - 1
    PROVE  NextGen(gen) = IF gen = GenModulus - 1 THEN 1 ELSE gen + 1
<1>1. GenModulus \in Nat /\ GenModulus >= 2
  BY MemoryAssumption
<1>2. CASE gen = GenModulus - 1
  <2>1. GenModulus % GenModulus = 0
    BY <1>1
  <2> QED BY <1>1, <1>2, <2>1 DEF NextGen
<1>3. CASE gen # GenModulus - 1
  <2>1. gen + 1 \in 1 .. GenModulus - 1
    BY <1>1, <1>3
  <2>2. (gen + 1) % GenModulus = gen + 1
    BY <1>1, <2>1
  <2> QED BY <1>3, <2>1, <2>2 DEF NextGen
<1> QED BY <1>2, <1>3

LEMMA CreatedKnows ==
    ASSUME NEW gen, NEW gone, SlotKnows(FALSE, gen, gone)
    PROVE  SlotKnows(TRUE, NextGen(gen), gone)
<1>1. GenModulus \in Nat /\ GenModulus >= 2
  BY MemoryAssumption
<1>2. gen \in 0 .. GenModulus - 1 /\ gone \in Seq(Nat) /\ Len(gone) <= GenModulus - 2
      /\ Len(gone) \in Nat
  BY DEF SlotKnows
<1>3. NextGen(gen) = IF gen = GenModulus - 1 THEN 1 ELSE gen + 1
  BY <1>2, NextGenIs
<1>4. NextGen(gen) \in 1 .. GenModulus - 1
  BY <1>1, <1>2, <1>3
<1>5. ASSUME NEW n \in 1 .. Len(gone)
      PROVE  gone[n] = Before(NextGen(gen), Len(gone) - n + 1)
  <2>1. gen # 0
    BY <1>2 DEF SlotKnows
  <2>2. gone[n] = Before(gen, Len(gone) - n + 0)
    BY DEF SlotKnows
  <2> DEFINE d == Len(gone) - n
  <2>3. d \in Nat /\ d < GenModulus - 2 /\ gen \in 1 .. GenModulus - 1
    BY <1>1, <1>2, <2>1
  <2>4. gone[n] = Before(gen, d)
    BY <2>2, <2>3
  <2> HIDE DEF d
  <2>5. Before(NextGen(gen), d + 1) = Before(gen, d)
    <3>1. CASE gen = GenModulus - 1
      BY <1>1, <1>3, <2>3, <3>1 DEF Before
    <3>2. CASE gen # GenModulus - 1
      BY <1>1, <1>3, <2>3, <3>2 DEF Before
    <3> QED BY <3>1, <3>2
  <2> QED BY <2>4, <2>5 DEF d
<1> QED BY <1>2, <1>4, <1>5 DEF SlotKnows

LEMMA DeletedKnows ==
    ASSUME NEW gen, NEW gone, SlotKnows(TRUE, gen, gone)
    PROVE  SlotKnows(FALSE, gen, LET gens == Append(gone, gen) IN
                         IF Len(gens) > GenModulus - 2 THEN Tail(gens) ELSE gens)
<1> DEFINE gens == Append(gone, gen)
<1>1. GenModulus \in Nat /\ GenModulus >= 2
  BY MemoryAssumption
<1>2. /\ gen \in 1 .. GenModulus - 1 /\ gone \in Seq(Nat) /\ Len(gone) <= GenModulus - 2
      /\ Len(gone) \in Nat
      /\ \A n \in 1 .. Len(gone) : gone[n] = Before(gen, Len(gone) - n + 1)
  BY DEF SlotKnows
<1>3. /\ gens \in Seq(Nat) /\ Len(gens) = Len(gone) + 1
      /\ \A n \in 1 .. Len(gone) : gens[n] = gone[n]
      /\ gens[Len(gone) + 1] = gen
  BY <1>2
<1> HIDE DEF gens
<1>4. \A n \in 1 .. Len(gens) : gens[n] = Before(gen, Len(gens) - n)
  <2>1. ASSUME NEW n \in 1 .. Len(gens) PROVE gens[n] = Before(gen, Len(gens) - n)
    <3>1. CASE n = Len(gone) + 1
      BY <1>2, <1>3, <3>1 DEF Before
    <3>2. CASE n # Len(gone) + 1
      <4>1. n \in 1 .. Len(gone) /\ Len(gens) - n = Len(gone) - n + 1
        BY <1>2, <1>3, <3>2
      <4> QED BY <1>2, <1>3, <4>1
    <3> QED BY <3>1, <3>2
  <2> QED BY <2>1
<1>5. CASE ~(Len(gens) > GenModulus - 2)
  <2>1. SlotKnows(FALSE, gen, gens)
    BY <1>1, <1>2, <1>3, <1>4, <1>5 DEF SlotKnows
  <2> QED BY <1>5, <2>1 DEF gens
<1>6. CASE Len(gens) > GenModulus - 2
  <2>1. /\ Tail(gens) \in Seq(Nat) /\ Len(Tail(gens)) = Len(gens) - 1
        /\ \A n \in 1 .. Len(gens) - 1 : Tail(gens)[n] = gens[n + 1]
    <3>1. gens # <<>>
      BY <1>2, <1>3
    <3> QED BY <1>3, <3>1, HeadTailProperties
  <2>2. \A n \in 1 .. Len(Tail(gens)) : Tail(gens)[n] = Before(gen, Len(Tail(gens)) - n + 0)
    <3>1. ASSUME NEW n \in 1 .. Len(Tail(gens))
          PROVE  Tail(gens)[n] = Before(gen, Len(Tail(gens)) - n + 0)
      <4>1. n + 1 \in 1 .. Len(gens) /\ Len(gens) - (n + 1) = Len(Tail(gens)) - n + 0
        BY <1>2, <1>3, <2>1
      <4> QED BY <1>2, <1>3, <1>4, <2>1, <4>1
    <3> QED BY <3>1
  <2>3. SlotKnows(FALSE, gen, Tail(gens))
    BY <1>1, <1>2, <1>3, <2>1, <2>2 DEF SlotKnows
  <2> QED BY <1>6, <2>3 DEF gens
<1> QED BY <1>5, <1>6

LEMMA HandlesInit ==
    ASSUME Init
    PROVE  HandlesInv
<1>1. \A k \in Kinds : slot[k] = [i \in Slots(k) |-> [used |-> FALSE, gen |-> 0, blocks |-> <<>>]]
                       /\ retired[k] = [i \in Slots(k) |-> <<>>]
  BY DEF Init
<1>2. SlotKnows(FALSE, 0, <<>>)
  <2>1. GenModulus \in Nat /\ GenModulus >= 2
    BY MemoryAssumption
  <2> QED BY <2>1 DEF SlotKnows
<1>3. SlotsKnow
  BY <1>1, <1>2 DEF Init, SlotsKnow
<1>4. CreatorsKnow
  BY DEF Init, CreatorsKnow, Outside
<1> QED BY <1>3, <1>4 DEF HandlesInv

\* A caller goes to a place outside of the creation of an object, or to one
\* that knows its kind.
LEMMA CreatorGoes ==
    ASSUME NEW c \in Clients, NEW place, CreatorsKnow, Goes(c, place),
           place.at \in {"allocating", "registering"} => Creating(place)
    PROVE  CreatorsKnow'
<1>1. client' = [client EXCEPT ![c] = place]
  BY DEF Goes
<1>2. \A d \in Clients : client'[d] = IF d = c THEN place ELSE client[d]
  BY <1>1 DEF CreatorsKnow
<1>3. DOMAIN client' = Clients
  BY <1>1 DEF CreatorsKnow
<1> QED BY <1>2, <1>3 DEF CreatorsKnow, Creating

LEMMA ThenFreeGoes ==
    ASSUME NEW c \in Clients, NEW blocks, CreatorsKnow, ThenFree(c, blocks)
    PROVE  CreatorsKnow'
<1> DEFINE place == IF Present(blocks) = {} THEN Outside ELSE [at |-> "freeing", blocks |-> blocks]
<1>1. place.at \in {"outside", "freeing"}
  BY DEF Outside
<1>2. Goes(c, place)
  BY DEF ThenFree
<1> QED BY <1>1, <1>2, CreatorGoes

LEMMA LeastFree ==
    ASSUME NEW k \in Kinds, FreeSlots(k) # {}
    PROVE  (CHOOSE i \in FreeSlots(k) : \A j \in FreeSlots(k) : i <= j) \in FreeSlots(k)
<1>1. Kind[k].slots \in Nat
  BY MemoryAssumption
<1>2. FreeSlots(k) \in SUBSET Nat
  BY <1>1 DEF FreeSlots, Slots
<1>3. \E i \in FreeSlots(k) : \A j \in FreeSlots(k) : i <= j
  BY <1>2, LeastIsIn
<1> QED BY <1>3

LEMMA RegisterKeeps ==
    ASSUME NEW c \in Clients, Register(c), HandlesInv
    PROVE  HandlesInv'
<1> DEFINE k == client[c].kind
           i == CHOOSE i \in FreeSlots(k) : \A j \in FreeSlots(k) : i <= j
<1>1. k \in Kinds /\ retired' = retired
  BY DEF Register, HandlesInv, CreatorsKnow, Creating
<1>2. CASE slot' = slot /\ AfterFailure(c, client[c].blocks)
  <2>1. CreatorsKnow'
    BY <1>2, ThenFreeGoes DEF AfterFailure, HandlesInv
  <2>2. SlotsKnow'
    BY <1>1, <1>2 DEF HandlesInv, SlotsKnow
  <2> QED BY <2>1, <2>2 DEF HandlesInv
<1>3. CASE /\ FreeSlots(k) # {}
           /\ slot' = [slot EXCEPT ![k][i] =
                         [used |-> TRUE, gen |-> NextGen(@.gen), blocks |-> client[c].blocks]]
           /\ Goes(c, Outside)
  <2>1. i \in Slots(k) /\ ~slot[k][i].used
    BY <1>1, <1>3, LeastFree DEF FreeSlots
  <2>2. CreatorsKnow'
    BY <1>3, CreatorGoes DEF Outside, HandlesInv
  <2> HIDE DEF k, i
  <2>3. /\ slot'[k][i].used = TRUE /\ slot'[k][i].gen = NextGen(slot[k][i].gen)
        /\ DOMAIN slot' = Kinds /\ \A m \in Kinds : DOMAIN slot'[m] = Slots(m)
        /\ \A m \in Kinds : \A j \in Slots(m) : m # k \/ j # i => slot'[m][j] = slot[m][j]
    BY <1>1, <1>3, <2>1 DEF HandlesInv, SlotsKnow
  <2>4. SlotKnows(FALSE, slot[k][i].gen, retired[k][i])
    <3>1. SlotKnows(slot[k][i].used, slot[k][i].gen, retired[k][i])
      BY <1>1, <2>1 DEF HandlesInv, SlotsKnow
    <3>2. slot[k][i].used = FALSE
      BY <2>1, <3>1 DEF SlotKnows
    <3> QED BY <3>1, <3>2
  <2>5. SlotKnows(TRUE, slot'[k][i].gen, retired[k][i])
    BY <2>3, <2>4, CreatedKnows
  <2>6. SlotsKnow'
    BY <1>1, <2>3, <2>5 DEF HandlesInv, SlotsKnow
  <2> QED BY <2>2, <2>6 DEF HandlesInv
<1> QED BY <1>2, <1>3 DEF Register

LEMMA DeleteKeeps ==
    ASSUME NEW c \in Clients, NEW k \in Kinds, NEW i \in Slots(k), Delete(c, k, i), HandlesInv
    PROVE  HandlesInv'
<1>1. CreatorsKnow'
  BY ThenFreeGoes DEF Delete, HandlesInv
<1>2. slot[k][i].used
  BY DEF Delete, FromHandle, Handle
<1> DEFINE gens == Append(retired[k][i], slot[k][i].gen)
           gone == IF Len(gens) > GenModulus - 2 THEN Tail(gens) ELSE gens
<1>3. slot' = [slot EXCEPT ![k][i] = [used |-> FALSE, gen |-> @.gen, blocks |-> <<>>]]
      /\ retired' = [retired EXCEPT ![k][i] = gone]
  BY DEF Delete
<1>4. SlotKnows(TRUE, slot[k][i].gen, retired[k][i])
  <2>1. SlotKnows(slot[k][i].used, slot[k][i].gen, retired[k][i])
    BY DEF HandlesInv, SlotsKnow
  <2>2. slot[k][i].used = TRUE
    BY <1>2, <2>1 DEF SlotKnows
  <2> QED BY <2>1, <2>2
<1>5. SlotKnows(FALSE, slot[k][i].gen, gone)
  BY <1>4, DeletedKnows
<1> HIDE DEF gone
<1>6. /\ slot'[k][i].used = FALSE /\ slot'[k][i].gen = slot[k][i].gen
      /\ DOMAIN slot' = Kinds /\ \A m \in Kinds : DOMAIN slot'[m] = Slots(m)
      /\ \A m \in Kinds : \A j \in Slots(m) : m # k \/ j # i => slot'[m][j] = slot[m][j]
  BY <1>3 DEF HandlesInv, SlotsKnow
<1>7. /\ retired'[k][i] = gone
      /\ DOMAIN retired' = Kinds /\ \A m \in Kinds : DOMAIN retired'[m] = Slots(m)
      /\ \A m \in Kinds : \A j \in Slots(m) :
             m # k \/ j # i => retired'[m][j] = retired[m][j]
  BY <1>3 DEF HandlesInv, SlotsKnow
<1>8. ASSUME NEW m \in Kinds, NEW j \in Slots(m)
      PROVE  SlotKnows(slot'[m][j].used, slot'[m][j].gen, retired'[m][j])
  <2>1. CASE m = k /\ j = i
    BY <1>5, <1>6, <1>7, <2>1
  <2>2. CASE ~(m = k /\ j = i)
    <3>1. slot'[m][j] = slot[m][j] /\ retired'[m][j] = retired[m][j]
      BY <1>6, <1>7, <2>2
    <3> QED BY <3>1 DEF HandlesInv, SlotsKnow
  <2> QED BY <2>1, <2>2
<1>9. SlotsKnow'
  BY <1>6, <1>7, <1>8 DEF SlotsKnow
<1> QED BY <1>1, <1>9 DEF HandlesInv

\* The calls that leave the slots alone.
LEMMA HeapCallKeeps ==
    ASSUME HeapCalls, HandlesInv
    PROVE  HandlesInv'
<1>1. slot' = slot /\ retired' = retired
  BY DEF HeapCalls, Lockdown, Malloc, Free, ReallocCheck, Realloc, AllocateBuffer, FreeBuffer
<1>2. CreatorsKnow'
  <2>1. ASSUME client' = client PROVE CreatorsKnow'
    BY <2>1 DEF HandlesInv, CreatorsKnow, Creating
  <2>2. CASE Lockdown
    BY <2>1, <2>2 DEF Lockdown
  <2>3. ASSUME NEW c \in Clients, NEW bytes \in Requests, Malloc(c, bytes)
        PROVE  CreatorsKnow'
    BY <2>1, <2>3 DEF Malloc
  <2>4. ASSUME NEW c \in Clients, NEW address \in mine, Free(c, address)
        PROVE  CreatorsKnow'
    BY <2>1, <2>4 DEF Free
  <2>5. ASSUME NEW c \in Clients, NEW address \in mine, ReallocCheck(c, address)
        PROVE  CreatorsKnow'
    <3>1. PICK bytes \in Requests :
              Goes(c, [at |-> "resizing", blocks |-> <<address>>, bytes |-> bytes])
      BY <2>5 DEF ReallocCheck
    <3> QED BY <3>1, CreatorGoes DEF HandlesInv
  <2>6. ASSUME NEW c \in Clients, Realloc(c) PROVE CreatorsKnow'
    <3>1. CASE ThenFree(c, client[c].blocks)
      BY <3>1, ThenFreeGoes DEF HandlesInv
    <3>2. CASE Goes(c, Outside)
      BY <3>2, CreatorGoes DEF HandlesInv, Outside
    <3> QED BY <2>6, <3>1, <3>2 DEF Realloc
  <2>7. ASSUME NEW c \in Clients, AllocateBuffer(c) PROVE CreatorsKnow'
    <3> DEFINE k == Kind[client[c].kind]
               got == Append(client[c].blocks,
                             Found(k.sizes[Len(client[c].blocks) + 1], k.kernel))
               place == [at |-> IF Len(got) = Len(k.sizes) THEN "registering" ELSE "allocating",
                         kind |-> client[c].kind, blocks |-> got]
    <3>1. CASE AfterFailure(c, got)
      BY <3>1, ThenFreeGoes DEF HandlesInv, AfterFailure
    <3>2. CASE Goes(c, place)
      <4>1. client[c].at = "allocating" /\ Creating(client[c])
        BY <2>7 DEF AllocateBuffer, HandlesInv, CreatorsKnow
      <4> HIDE DEF got, k
      <4>3. Creating(place)
        BY <4>1 DEF Creating
      <4>4. Goes(c, place) /\ CreatorsKnow
        BY <3>2 DEF HandlesInv
      <4> HIDE DEF place
      <4> QED BY <4>3, <4>4, CreatorGoes
    <3> QED BY <2>7, <3>1, <3>2 DEF AllocateBuffer
  <2>8. ASSUME NEW c \in Clients, FreeBuffer(c) PROVE CreatorsKnow'
    BY <2>8, ThenFreeGoes DEF HandlesInv, FreeBuffer
  <2> QED BY <2>2, <2>3, <2>4, <2>5, <2>6, <2>7, <2>8 DEF HeapCalls
<1> QED BY <1>1, <1>2 DEF HandlesInv, SlotsKnow

LEMMA ObjectCallKeeps ==
    ASSUME NEW kinds \in SUBSET Kinds, ObjectCalls(kinds), HandlesInv
    PROVE  HandlesInv'
<1>1. ASSUME NEW c \in Clients, NEW k \in kinds, Create(c, k) PROVE HandlesInv'
  <2> DEFINE place == [at |-> IF Kind[k].sizes = <<>> THEN "registering" ELSE "allocating",
                       kind |-> k, blocks |-> <<>>]
  <2>1. Creating(place) /\ Goes(c, place) /\ slot' = slot /\ retired' = retired
    BY <1>1 DEF Creating, Create
  <2>2. CreatorsKnow'
    BY <2>1, CreatorGoes DEF HandlesInv
  <2> QED BY <2>1, <2>2 DEF HandlesInv, SlotsKnow
<1> QED BY <1>1, RegisterKeeps, DeleteKeeps DEF ObjectCalls

LEMMA HandlesKeeps ==
    ASSUME HandlesInv, [Next]_vars
    PROVE  HandlesInv'
<1>1. CASE HeapCalls
  BY <1>1, HeapCallKeeps
<1>2. CASE ObjectCalls(Buffered)
  BY <1>2, ObjectCallKeeps DEF Buffered
<1>3. CASE ObjectCalls(Kinds \ Buffered)
  BY <1>3, ObjectCallKeeps
<1>4. CASE slot' = slot /\ retired' = retired /\ client' = client
  BY <1>4 DEF HandlesInv, SlotsKnow, CreatorsKnow, Creating
<1> QED BY <1>1, <1>2, <1>3, <1>4 DEF Next, vars

\* The inductive invariant of the handles.
THEOREM HandlesInvariant == Spec => []HandlesInv
<1>1. Init => HandlesInv
  BY HandlesInit
<1>2. HandlesInv /\ [Next]_vars => HandlesInv'
  BY HandlesKeeps
<1> QED BY <1>1, <1>2, PTL DEF Spec

\* aixos_obj_from_handle (kernel/object.c): a handle whose object is gone stays
\* invalid, although its slot is used again, until the generations of the slot
\* have gone all the way round.
THEOREM StaleHandlesRefusedCorrect == Spec => []StaleHandlesRefused
<1>1. HandlesInv => StaleHandlesRefused
  <2> SUFFICES ASSUME HandlesInv, NEW k \in Kinds, NEW i \in Slots(k),
                      NEW n \in DOMAIN retired[k][i],
                      FromHandle(k, Handle(i, retired[k][i][n]))
               PROVE  FALSE
    BY DEF StaleHandlesRefused
  <2> DEFINE gone == retired[k][i]
             gen == slot[k][i].gen
  <2>1. GenModulus \in Nat /\ GenModulus >= 2
    BY MemoryAssumption
  <2>2. slot[k][i].used /\ gen = gone[n]
    BY DEF FromHandle, Handle
  <2>3. /\ gone \in Seq(Nat) /\ Len(gone) <= GenModulus - 2
        /\ gen \in 0 .. GenModulus - 1 /\ gen # 0
        /\ \A m \in 1 .. Len(gone) : gone[m] = Before(gen, Len(gone) - m + 1)
    <3>1. SlotKnows(slot[k][i].used, gen, gone)
      BY DEF HandlesInv, SlotsKnow
    <3>2. slot[k][i].used = TRUE
      BY <2>2, <3>1 DEF SlotKnows
    <3>3. SlotKnows(TRUE, gen, gone)
      BY <3>1, <3>2
    <3> HIDE DEF gen, gone
    <3> QED BY <3>3 DEF SlotKnows
  <2>4. n \in 1 .. Len(gone) /\ Len(gone) \in Nat
    BY <2>3
  <2> HIDE DEF gone, gen
  <2>5. gone[n] = Before(gen, Len(gone) - n + 1)
    BY <2>3, <2>4
  <2> QED BY <2>1, <2>2, <2>3, <2>4, <2>5 DEF Before
<1> QED BY <1>1, HandlesInvariant, PTL

-----------------------------------------------------------------------------
(* The heap: what a split and a merge do to the list of blocks.            *)

Blocks == [at : Nat, size : Nat, used : BOOLEAN]

\* What a block in use takes, and the sums over the first blocks.
Takes(b) == IF b.used THEN b.size + HeaderUnits ELSE 0

Sums(blocks) ==
    CHOOSE sum : sum = [n \in 0 .. Len(blocks) |->
        IF n = 0 THEN 0
        ELSE IF blocks[n].used THEN sum[n - 1] + blocks[n].size + HeaderUnits
        ELSE sum[n - 1]]

\* Sums(blocks) is such a function: there is one for every number of blocks.
SumsTo(blocks, m) ==
    {f \in [0 .. m -> Nat] :
        /\ f[0] = 0
        /\ \A n \in 1 .. m : f[n] = f[n - 1] + Takes(blocks[n])}

LEMMA SumsToExists ==
    ASSUME NEW blocks \in Seq(Blocks), NEW m \in 0 .. Len(blocks)
    PROVE  SumsTo(blocks, m) # {}
<1> DEFINE Without == {k \in Nat : k <= Len(blocks) /\ SumsTo(blocks, k) = {}}
<1>0. Len(blocks) \in Nat /\ HeaderUnits \in Nat
  BY HeapAssumption
<1>1. SUFFICES ASSUME Without # {} PROVE FALSE
  BY <1>0
<1>2. PICK k \in Without : \A j \in Without : k <= j
  BY <1>1, LeastIsIn
<1>3. CASE k = 0
  <2>1. [n \in 0 .. 0 |-> 0] \in SumsTo(blocks, 0)
    BY DEF SumsTo
  <2> QED BY <1>2, <1>3, <2>1
<1>4. CASE k # 0
  <2>1. /\ k \in Nat /\ k - 1 \in Nat /\ k - 1 \notin Without
        /\ k - 1 <= Len(blocks) /\ k \in 0 .. k /\ k - 1 \in 0 .. k - 1
    BY <1>0, <1>2, <1>4
  <2>2. PICK f \in SumsTo(blocks, k - 1) : TRUE
    BY <2>1
  <2>3. Takes(blocks[k]) \in Nat
    <3>1. blocks[k] \in Blocks
      BY <1>0, <1>2, <1>4
    <3> QED BY <1>0, <3>1 DEF Takes, Blocks
  <2> DEFINE g == [n \in 0 .. k |-> IF n = k THEN f[k - 1] + Takes(blocks[k]) ELSE f[n]]
  <2>4. g \in SumsTo(blocks, k)
    <3> HIDE DEF Without
    <3>1. /\ f \in [0 .. k - 1 -> Nat] /\ f[0] = 0
          /\ \A n \in 1 .. k - 1 : f[n] = f[n - 1] + Takes(blocks[n])
      BY <2>2 DEF SumsTo
    <3>2. g \in [0 .. k -> Nat]
      <4>1. ASSUME NEW n \in 0 .. k PROVE g[n] \in Nat
        BY <2>1, <2>3, <3>1
      <4> QED BY <4>1
    <3>3. g[0] = 0
      BY <1>4, <2>1, <3>1
    <3>4. ASSUME NEW n \in 1 .. k PROVE g[n] = g[n - 1] + Takes(blocks[n])
      <4>1. CASE n = k
        BY <2>1, <4>1
      <4>2. CASE n # k
        BY <2>1, <3>1, <4>2
      <4> QED BY <4>1, <4>2
    <3> QED BY <3>2, <3>3, <3>4 DEF SumsTo
  <2> QED BY <1>2, <2>4
<1> QED BY <1>3, <1>4

LEMMA SumsAre ==
    ASSUME NEW blocks \in Seq(Blocks)
    PROVE  /\ Sums(blocks) \in SumsTo(blocks, Len(blocks))
           /\ UsedUnits(blocks) = Sums(blocks)[Len(blocks)]
<1>1. Len(blocks) \in Nat /\ HeaderUnits \in Nat
  BY HeapAssumption
<1>2. PICK f \in SumsTo(blocks, Len(blocks)) : TRUE
  BY <1>1, SumsToExists
<1> DEFINE F(sum) == [n \in 0 .. Len(blocks) |->
        IF n = 0 THEN 0
        ELSE IF blocks[n].used THEN sum[n - 1] + blocks[n].size + HeaderUnits
        ELSE sum[n - 1]]
<1>3. ASSUME NEW n \in 1 .. Len(blocks)
      PROVE  blocks[n] \in Blocks
  OBVIOUS
<1>4. f = F(f)
  <2>1. /\ f \in [0 .. Len(blocks) -> Nat] /\ f[0] = 0
        /\ \A n \in 1 .. Len(blocks) : f[n] = f[n - 1] + Takes(blocks[n])
    BY <1>2 DEF SumsTo
  <2>2. ASSUME NEW n \in 0 .. Len(blocks) PROVE f[n] = F(f)[n]
    <3>1. CASE n = 0
      BY <2>1, <3>1
    <3>2. CASE n # 0
      <4>1. n \in 1 .. Len(blocks) /\ n - 1 \in 0 .. Len(blocks)
        BY <1>1, <3>2
      <4>2. f[n] = f[n - 1] + Takes(blocks[n]) /\ f[n - 1] \in Nat
        BY <2>1, <4>1
      <4>3. blocks[n].size \in Nat
        BY <1>3, <4>1 DEF Blocks
      <4> QED BY <1>1, <3>2, <4>1, <4>2, <4>3 DEF Takes
    <3> QED BY <3>1, <3>2
  <2>3. f = [n \in 0 .. Len(blocks) |-> f[n]]
    BY <2>1
  <2> QED BY <2>2, <2>3
<1>5. Sums(blocks) = F(Sums(blocks))
  BY <1>4 DEF Sums
<1> DEFINE g == Sums(blocks)
<1>6. g[0] = 0
  BY <1>1, <1>5
<1>7. ASSUME NEW n \in 1 .. Len(blocks) 
      PROVE  g[n] = IF blocks[n].used THEN g[n - 1] + blocks[n].size + HeaderUnits ELSE g[n - 1]
  BY <1>1, <1>5
<1>8. g = f
  <2> HIDE DEF g
  <2> DEFINE Differ == {n \in 0 .. Len(blocks) : g[n] # f[n]}
  <2>1. SUFFICES ASSUME Differ # {} PROVE FALSE
    <3>1. g = [n \in 0 .. Len(blocks) |-> g[n]]
      BY <1>5 DEF g
    <3>2. f = [n \in 0 .. Len(blocks) |-> f[n]]
      BY <1>2 DEF SumsTo
    <3>3. Differ = {} => \A n \in 0 .. Len(blocks) : g[n] = f[n]
      OBVIOUS
    <3> QED BY <3>1, <3>2, <3>3
  <2>2. Differ \in SUBSET Nat
    BY <1>1
  <2>3. PICK n \in Differ : \A j \in Differ : n <= j
    BY <2>1, <2>2, LeastIsIn
  <2>4. n # 0
    BY <1>2, <1>6, <2>3 DEF SumsTo
  <2>5. n \in 1 .. Len(blocks) /\ n - 1 \in 0 .. Len(blocks) /\ n - 1 \notin Differ
    BY <1>1, <2>3, <2>4
  <2>6. g[n - 1] = f[n - 1] /\ f[n - 1] \in Nat /\ f[n] = f[n - 1] + Takes(blocks[n])
    BY <1>2, <2>5 DEF SumsTo
  <2>7. blocks[n].size \in Nat
    BY <1>3, <2>5 DEF Blocks
  <2>8. g[n] = f[n]
    BY <1>1, <1>7, <2>5, <2>6, <2>7 DEF Takes
  <2> QED BY <2>3, <2>8
<1>9. UsedUnits(blocks) = Sums(blocks)[Len(blocks)]
  BY DEF UsedUnits, Sums
<1> QED BY <1>2, <1>8, <1>9

\* Where two lists agree, so do the sums.
\* The m blocks of t behind b are those of s behind a.
Agrees(s, a, t, b, m) ==
    /\ a + m <= Len(s) /\ b + m <= Len(t)
    /\ \A k \in 1 .. m : t[b + k] = s[a + k]

LEMMA SumsAgree ==
    ASSUME NEW s \in Seq(Blocks), NEW t \in Seq(Blocks), NEW a \in Nat, NEW b \in Nat,
           NEW m \in Nat, Agrees(s, a, t, b, m)
    PROVE  Sums(t)[b + m] - Sums(t)[b] = Sums(s)[a + m] - Sums(s)[a]
<1>0. a + m <= Len(s) /\ b + m <= Len(t) /\ \A k \in 1 .. m : t[b + k] = s[a + k]
  BY DEF Agrees
<1> DEFINE f == Sums(s)
           g == Sums(t)
<1>1. /\ f \in [0 .. Len(s) -> Nat]
      /\ \A n \in 1 .. Len(s) : f[n] = f[n - 1] + Takes(s[n])
      /\ g \in [0 .. Len(t) -> Nat]
      /\ \A n \in 1 .. Len(t) : g[n] = g[n - 1] + Takes(t[n])
  BY SumsAre DEF SumsTo
<1>2. Len(s) \in Nat /\ Len(t) \in Nat
  OBVIOUS
<1> HIDE DEF f, g
<1> DEFINE Differ == {k \in 0 .. m : g[b + k] - g[b] # f[a + k] - f[a]}
<1>3. SUFFICES ASSUME Differ # {} PROVE FALSE
  <2>1. Differ = {} => m \notin Differ
    OBVIOUS
  <2> QED BY <2>1 DEF f, g
<1>4. PICK k \in Differ : \A j \in Differ : k <= j
  <2>1. Differ \in SUBSET Nat
    OBVIOUS
  <2> QED BY <1>3, <2>1, LeastIsIn
<1>5. a \in 0 .. Len(s) /\ b \in 0 .. Len(t)
  BY <1>0, <1>2
<1>6. k # 0
  <2>1. SUFFICES ASSUME k = 0 PROVE FALSE
    OBVIOUS
  <2>2. f[a] \in Nat /\ g[b] \in Nat
    BY <1>1, <1>5
  <2>3. g[b + 0] - g[b] # f[a + 0] - f[a]
    BY <1>4, <2>1
  <2> QED BY <2>2, <2>3
<1>7. k - 1 \in 0 .. m /\ k - 1 \notin Differ /\ k \in 1 .. m
  BY <1>4, <1>6
<1>8. g[b + (k - 1)] - g[b] = f[a + (k - 1)] - f[a]
  BY <1>7
<1>9. a + k \in 1 .. Len(s) /\ b + k \in 1 .. Len(t) /\ a + k - 1 \in 0 .. Len(s) /\ b + k - 1 \in 0 .. Len(t)
  BY <1>0, <1>2, <1>7
<1>10. f[a + k] = f[a + k - 1] + Takes(s[a + k]) /\ g[b + k] = g[b + k - 1] + Takes(t[b + k])
  BY <1>1, <1>9
<1>11. Takes(s[a + k]) = Takes(t[b + k])
  BY <1>0, <1>7
<1>12. Takes(s[a + k]) \in Nat
  <2>1. s[a + k] \in Blocks
    BY <1>9
  <2>2. HeaderUnits \in Nat
    BY HeapAssumption
  <2> QED BY <2>1, <2>2 DEF Blocks, Takes
<1>13. f[a] \in Nat /\ g[b] \in Nat /\ f[a + k - 1] \in Nat /\ g[b + k - 1] \in Nat
  BY <1>1, <1>5, <1>9
<1>14. a + (k - 1) = a + k - 1 /\ b + (k - 1) = b + k - 1
  BY <1>7
<1>15. g[b + k] - g[b] = f[a + k] - f[a]
  <2> DEFINE fk == f[a + k - 1]
             gk == g[b + k - 1]
             taken == Takes(s[a + k])
             fa == f[a]
             gb == g[b]
  <2>1. f[a + k] = fk + taken /\ g[b + k] = gk + taken
    BY <1>10, <1>11
  <2>2. gk - gb = fk - fa
    BY <1>8, <1>14
  <2>3. fk \in Nat /\ gk \in Nat /\ taken \in Nat /\ fa \in Nat /\ gb \in Nat
    BY <1>12, <1>13
  <2> HIDE DEF fk, gk, taken, fa, gb
  <2>4. gk + taken - gb = fk + taken - fa
    BY <2>2, <2>3
  <2>5. g[b + k] - gb = f[a + k] - fa
    BY <2>1, <2>3, <2>4
  <2> QED BY <2>5 DEF fa, gb
<1> QED BY <1>4, <1>15

\* t is s with the blocks from lo to hi replaced by those of m.
Spliced(s, lo, hi, m, t) ==
    /\ t \in Seq(Blocks) /\ Len(t) = Len(s) + Len(m) - (hi - lo + 1)
    /\ \A k \in 1 .. lo - 1 : t[k] = s[k]
    /\ \A k \in 1 .. Len(m) : t[lo - 1 + k] = m[k]
    /\ \A k \in 1 .. Len(s) - hi : t[lo - 1 + Len(m) + k] = s[hi + k]

LEMMA Joined ==
    ASSUME NEW u \in Seq(Blocks), NEW v \in Seq(Blocks), NEW w, w = u \o v
    PROVE  /\ w \in Seq(Blocks) /\ Len(w) = Len(u) + Len(v)
           /\ \A k \in 1 .. Len(u) : w[k] = u[k]
           /\ \A k \in 1 .. Len(v) : w[Len(u) + k] = v[k]
<1>1. Len(u) \in Nat /\ Len(v) \in Nat
  OBVIOUS
<1>2. /\ w \in Seq(Blocks) /\ Len(w) = Len(u) + Len(v)
      /\ \A i \in 1 .. Len(u) + Len(v) : w[i] = IF i <= Len(u) THEN u[i] ELSE v[i - Len(u)]
  BY ConcatProperties
<1>3. ASSUME NEW k \in 1 .. Len(u) PROVE w[k] = u[k]
  BY <1>1, <1>2
<1>4. ASSUME NEW k \in 1 .. Len(v) PROVE w[Len(u) + k] = v[k]
  <2>1. /\ Len(u) + k \in 1 .. Len(u) + Len(v) /\ ~(Len(u) + k <= Len(u))
        /\ Len(u) + k - Len(u) = k
    BY <1>1
  <2> QED BY <1>2, <2>1
<1> QED BY <1>2, <1>3, <1>4

LEMMA ConcatSpliced ==
    ASSUME NEW s \in Seq(Blocks), NEW lo \in 1 .. Len(s), NEW hi \in lo .. Len(s),
           NEW m \in Seq(Blocks), NEW t
    PROVE  t = SubSeq(s, 1, lo - 1) \o m \o SubSeq(s, hi + 1, Len(s))
               => Spliced(s, lo, hi, m, t)
<1>t. SUFFICES ASSUME t = SubSeq(s, 1, lo - 1) \o m \o SubSeq(s, hi + 1, Len(s))
      PROVE  Spliced(s, lo, hi, m, t)
  OBVIOUS
<1> DEFINE front == SubSeq(s, 1, lo - 1)
           back == SubSeq(s, hi + 1, Len(s))
<1>0. Len(s) \in Nat /\ Len(m) \in Nat /\ lo \in Nat /\ hi \in Nat /\ 1 <= lo /\ lo <= hi /\ hi <= Len(s)
  OBVIOUS
<1>1. front \in Seq(Blocks) /\ Len(front) = lo - 1 /\ \A k \in 1 .. lo - 1 : front[k] = s[k]
  <2>1. \A k \in 1 .. lo - 1 : s[k] \in Blocks
    BY <1>0
  <2> QED BY <1>0, <2>1
<1>2. /\ back \in Seq(Blocks) /\ Len(back) = Len(s) - hi
      /\ \A k \in 1 .. Len(s) - hi : back[k] = s[hi + k]
  <2>1. \A k \in hi + 1 .. Len(s) : s[k] \in Blocks
    BY <1>0
  <2> QED BY <1>0, <2>1
<1> DEFINE u == front \o m
<1>u. u = front \o m
  OBVIOUS
<1>3. t = u \o back
  BY <1>t DEF front, back
<1> HIDE DEF u, front, back
<1>4. /\ u \in Seq(Blocks) /\ Len(u) = Len(front) + Len(m)
      /\ \A k \in 1 .. Len(front) : u[k] = front[k]
      /\ \A k \in 1 .. Len(m) : u[Len(front) + k] = m[k]
  <2>1. front \in Seq(Blocks)
    BY <1>1
  <2>2. u \in Seq(Blocks)
    BY <2>1, <1>u, Joined
  <2>3. Len(u) = Len(front) + Len(m)
    BY <2>1, <1>u, Joined
  <2>4. \A k \in 1 .. Len(front) : u[k] = front[k]
    BY <2>1, <1>u, Joined
  <2>5. \A k \in 1 .. Len(m) : u[Len(front) + k] = m[k]
    BY <2>1, <1>u, Joined
  <2> QED BY <2>2, <2>3, <2>4, <2>5
<1>5. /\ u \in Seq(Blocks) /\ Len(u) = lo - 1 + Len(m)
      /\ \A k \in 1 .. lo - 1 : u[k] = front[k]
      /\ \A k \in 1 .. Len(m) : u[lo - 1 + k] = m[k]
  BY <1>1, <1>4
<1>6. /\ t \in Seq(Blocks) /\ Len(t) = Len(u) + Len(back)
      /\ \A k \in 1 .. Len(u) : t[k] = u[k]
      /\ \A k \in 1 .. Len(back) : t[Len(u) + k] = back[k]
  <2>1. back \in Seq(Blocks) /\ u \in Seq(Blocks)
    BY <1>2, <1>5
  <2>2. t \in Seq(Blocks)
    BY <2>1, <1>3, Joined
  <2>3. Len(t) = Len(u) + Len(back)
    BY <2>1, <1>3, Joined
  <2>4. \A k \in 1 .. Len(u) : t[k] = u[k]
    BY <2>1, <1>3, Joined
  <2>5. \A k \in 1 .. Len(back) : t[Len(u) + k] = back[k]
    BY <2>1, <1>3, Joined
  <2> QED BY <2>2, <2>3, <2>4, <2>5
<1>7. Len(t) = Len(s) + Len(m) - (hi - lo + 1)
  BY <1>0, <1>2, <1>5, <1>6
<1>8. ASSUME NEW k \in 1 .. lo - 1 PROVE t[k] = s[k]
  <2>1. t[k] = u[k]
    BY <1>0, <1>5, <1>6
  <2>2. u[k] = front[k]
    BY <1>5
  <2> QED BY <1>1, <2>1, <2>2
<1>9. ASSUME NEW k \in 1 .. Len(m) PROVE t[lo - 1 + k] = m[k]
  <2>1. t[lo - 1 + k] = u[lo - 1 + k]
    BY <1>0, <1>5, <1>6
  <2>2. u[lo - 1 + k] = m[k]
    BY <1>5
  <2> QED BY <2>1, <2>2
<1>10. ASSUME NEW k \in 1 .. Len(s) - hi PROVE t[lo - 1 + Len(m) + k] = s[hi + k]
  <2>1. t[Len(u) + k] = back[k]
    BY <1>2, <1>6
  <2> QED BY <1>2, <1>5, <2>1
<1> QED BY <1>6, <1>7, <1>8, <1>9, <1>10 DEF Spliced

LEMMA AllocatedSpliced ==
    ASSUME NEW s \in Seq(Blocks), NEW i \in 1 .. Len(s), NEW units \in Nat
    PROVE  Split(s[i], units) \in Seq(Blocks) =>
             Spliced(s, i, i, Split(s[i], units), Allocated(s, i, units))
<1>1. i \in i .. Len(s)
  OBVIOUS
<1> QED BY <1>1, ConcatSpliced DEF Allocated

LEMMA MergedSpliced ==
    ASSUME NEW s \in Seq(Blocks), NEW i \in 1 .. Len(s) - 1, ~s[i].used, ~s[i + 1].used
    PROVE  Spliced(s, i, i + 1,
                   <<FreeBlock(s[i].at, s[i].size + HeaderUnits + s[i + 1].size)>>, Merged(s, i))
<1>1. i \in 1 .. Len(s) /\ i + 1 \in i .. Len(s) /\ i + 1 \in DOMAIN s /\ i \in DOMAIN s
  OBVIOUS
<1>2. s[i] \in Blocks /\ s[i + 1] \in Blocks
  BY <1>1
<1>3. HeaderUnits \in Nat
  BY HeapAssumption
<1> DEFINE b == FreeBlock(s[i].at, s[i].size + HeaderUnits + s[i + 1].size)
<1>4. b \in Blocks
  BY <1>2, <1>3 DEF Blocks, FreeBlock
<1>5. <<b>> \in Seq(Blocks)
  BY <1>4
<1>6. Merged(s, i) = SubSeq(s, 1, i - 1) \o <<b>> \o SubSeq(s, i + 1 + 1, Len(s))
  <2>1. Merged(s, i) = SubSeq(s, 1, i - 1) \o <<b>> \o SubSeq(s, i + 2, Len(s))
    BY <1>1 DEF Merged
  <2>2. i + 2 = i + 1 + 1
    OBVIOUS
  <2> QED BY <2>1, <2>2
<1> QED BY <1>1, <1>5, <1>6, ConcatSpliced

LEMMA NotMerged ==
    ASSUME NEW s \in Seq(Blocks), NEW i \in Nat,
           i = 0 \/ i >= Len(s) \/ s[i].used \/ s[i + 1].used
    PROVE  Merged(s, i) = s
<1>1. DOMAIN s = 1 .. Len(s) /\ Len(s) \in Nat
  OBVIOUS
<1>2. CASE i = 0 \/ i >= Len(s)
  <2>1. ~(i \in DOMAIN s /\ i + 1 \in DOMAIN s)
    BY <1>1, <1>2
  <2> QED BY <2>1 DEF Merged
<1>3. CASE s[i].used \/ s[i + 1].used
  BY <1>3 DEF Merged
<1> QED BY <1>2, <1>3

\* b may be the next block after a.
Follows(a, b) == BlockEnd(a) = b.at /\ (a.used \/ b.used)

\* The blocks of m may take the place of those from lo to hi.
FitsIn(s, lo, hi, m) ==
    /\ Len(m) > 0
    /\ \A k \in 1 .. Len(m) : m[k].size > 0
    /\ \A k \in 1 .. Len(m) - 1 : Follows(m[k], m[k + 1])
    /\ IF lo = 1 THEN m[1].at = 0 ELSE Follows(s[lo - 1], m[1])
    /\ IF hi = Len(s) THEN BlockEnd(m[Len(m)]) = HeapUnits ELSE Follows(m[Len(m)], s[hi + 1])

Whole(s) == s \in Seq(Blocks) /\ Len(s) > 0 /\ Tiled(s)

LEMMA WholeIs ==
    ASSUME NEW s \in Seq(Blocks)
    PROVE  Whole(s) <=> /\ Len(s) > 0 /\ s[1].at = 0 /\ BlockEnd(s[Len(s)]) = HeapUnits
                        /\ \A k \in 1 .. Len(s) : s[k].size > 0
                        /\ \A k \in 1 .. Len(s) - 1 : Follows(s[k], s[k + 1])
<1>1. DOMAIN s = 1 .. Len(s)
  OBVIOUS
<1> QED BY <1>1 DEF Whole, Tiled, Follows

LEMMA SplicedWhole ==
    ASSUME NEW s, Whole(s), NEW lo \in 1 .. Len(s), NEW hi \in lo .. Len(s),
           NEW m \in Seq(Blocks), FitsIn(s, lo, hi, m), NEW t, Spliced(s, lo, hi, m, t)
    PROVE  Whole(t)
<1> DEFINE n == Len(s)
           p == Len(m)
<1>1. /\ s \in Seq(Blocks) /\ n \in Nat /\ p \in Nat \ {0} /\ lo \in Nat /\ hi \in Nat
      /\ 1 <= lo /\ lo <= hi /\ hi <= n
  BY DEF Whole, FitsIn
<1>2. /\ t \in Seq(Blocks) /\ Len(t) = n + p - (hi - lo + 1)
      /\ \A k \in 1 .. lo - 1 : t[k] = s[k]
      /\ \A k \in 1 .. p : t[lo - 1 + k] = m[k]
      /\ \A k \in 1 .. n - hi : t[lo - 1 + p + k] = s[hi + k]
  BY DEF Spliced
<1>3. /\ s[1].at = 0 /\ BlockEnd(s[n]) = HeapUnits
      /\ \A k \in 1 .. n : s[k].size > 0
      /\ \A k \in 1 .. n - 1 : Follows(s[k], s[k + 1])
  BY <1>1, WholeIs
<1>4. /\ \A k \in 1 .. p : m[k].size > 0
      /\ \A k \in 1 .. p - 1 : Follows(m[k], m[k + 1])
      /\ IF lo = 1 THEN m[1].at = 0 ELSE Follows(s[lo - 1], m[1])
      /\ IF hi = n THEN BlockEnd(m[p]) = HeapUnits ELSE Follows(m[p], s[hi + 1])
  BY DEF FitsIn
<1> HIDE DEF n, p
<1>5. ASSUME NEW x \in 1 .. Len(t)
      PROVE  \/ x \in 1 .. lo - 1
             \/ x - (lo - 1) \in 1 .. p /\ lo - 1 + (x - (lo - 1)) = x
             \/ x - (lo - 1 + p) \in 1 .. n - hi /\ lo - 1 + p + (x - (lo - 1 + p)) = x
  BY <1>1, <1>2
<1>6. Len(t) > 0
  BY <1>1, <1>2
<1>7. ASSUME NEW x \in 1 .. Len(t) PROVE t[x].size > 0
  <2>1. CASE x \in 1 .. lo - 1
    <3>1. x \in 1 .. n
      BY <1>1, <2>1
    <3> QED BY <1>2, <1>3, <2>1, <3>1
  <2>2. CASE x - (lo - 1) \in 1 .. p /\ lo - 1 + (x - (lo - 1)) = x
    <3>1. t[x] = m[x - (lo - 1)]
      BY <1>2, <2>2
    <3> QED BY <1>4, <2>2, <3>1
  <2>3. CASE x - (lo - 1 + p) \in 1 .. n - hi /\ lo - 1 + p + (x - (lo - 1 + p)) = x
    <3>1. t[x] = s[hi + (x - (lo - 1 + p))]
      BY <1>2, <2>3
    <3>2. hi + (x - (lo - 1 + p)) \in 1 .. n
      BY <1>1, <2>3
    <3> QED BY <1>3, <3>1, <3>2
  <2> QED BY <1>5, <2>1, <2>2, <2>3
<1>8. t[1].at = 0
  <2>1. CASE lo = 1
    <3>1. 1 \in 1 .. p /\ lo - 1 + 1 = 1
      BY <1>1, <2>1
    <3> QED BY <1>2, <1>4, <2>1, <3>1
  <2>2. CASE lo # 1
    <3>1. 1 \in 1 .. lo - 1
      BY <1>1, <2>2
    <3> QED BY <1>2, <1>3, <3>1
  <2> QED BY <2>1, <2>2
<1>9. BlockEnd(t[Len(t)]) = HeapUnits
  <2>1. CASE hi = n
    <3>1. p \in 1 .. p /\ Len(t) = lo - 1 + p
      BY <1>1, <1>2, <2>1
    <3>2. t[Len(t)] = m[p]
      BY <1>2, <3>1
    <3> QED BY <1>4, <2>1, <3>2
  <2>2. CASE hi # n
    <3>1. n - hi \in 1 .. n - hi /\ Len(t) = lo - 1 + p + (n - hi) /\ hi + (n - hi) = n
      BY <1>1, <1>2, <2>2
    <3>2. t[Len(t)] = s[n]
      BY <1>2, <3>1
    <3> QED BY <1>3, <3>2
  <2> QED BY <2>1, <2>2
<1>10. ASSUME NEW x \in 1 .. Len(t) - 1 PROVE Follows(t[x], t[x + 1])
  <2>0. x \in Nat /\ x \in 1 .. Len(t) /\ x + 1 \in 1 .. Len(t)
    BY <1>1, <1>2
  <2>1. CASE x + 1 \in 1 .. lo - 1
    <3>1. x \in 1 .. lo - 1 /\ x \in 1 .. n - 1
      BY <1>1, <2>0, <2>1
    <3>2. t[x] = s[x] /\ t[x + 1] = s[x + 1]
      BY <1>2, <2>1, <3>1
    <3> QED BY <1>3, <3>1, <3>2
  <2>2. CASE x = lo - 1
    <3>1. x \in 1 .. lo - 1 /\ lo # 1 /\ 1 \in 1 .. p /\ x + 1 = lo - 1 + 1
      BY <1>1, <2>0, <2>2
    <3>2. t[x] = s[lo - 1] /\ t[x + 1] = m[1]
      <4>1. t[x] = s[lo - 1]
        BY <1>2, <2>2, <3>1
      <4>2. t[lo - 1 + 1] = m[1]
        BY <1>2, <3>1
      <4> QED BY <3>1, <4>1, <4>2
    <3> QED BY <1>4, <3>1, <3>2
  <2>3. CASE x >= lo /\ x < lo - 1 + p
    <3> DEFINE y == x - (lo - 1)
    <3>1. y \in 1 .. p - 1 /\ y \in 1 .. p /\ y + 1 \in 1 .. p /\ lo - 1 + y = x /\ lo - 1 + (y + 1) = x + 1
      BY <1>1, <2>0, <2>3
    <3> HIDE DEF y
    <3>2. t[x] = m[y] /\ t[x + 1] = m[y + 1]
      BY <1>2, <3>1
    <3> QED BY <1>4, <3>1, <3>2
  <2>4. CASE x = lo - 1 + p
    <3>1. p \in 1 .. p /\ hi # n /\ 1 \in 1 .. n - hi /\ x + 1 = lo - 1 + p + 1
      BY <1>1, <1>2, <2>4
    <3>2. t[x] = m[p] /\ t[x + 1] = s[hi + 1]
      <4>1. t[lo - 1 + p] = m[p]
        BY <1>2, <3>1
      <4>2. t[lo - 1 + p + 1] = s[hi + 1]
        BY <1>2, <3>1
      <4> QED BY <2>4, <3>1, <4>1, <4>2
    <3> QED BY <1>4, <3>1, <3>2
  <2>5. CASE x > lo - 1 + p
    <3> DEFINE y == x - (lo - 1 + p)
    <3>1. /\ y \in 1 .. n - hi /\ y + 1 \in 1 .. n - hi /\ lo - 1 + p + y = x
          /\ lo - 1 + p + (y + 1) = x + 1 /\ hi + y \in 1 .. n - 1 /\ hi + (y + 1) = hi + y + 1
      BY <1>1, <1>2, <2>0, <2>5
    <3> HIDE DEF y
    <3>2. t[x] = s[hi + y] /\ t[x + 1] = s[hi + (y + 1)]
      BY <1>2, <3>1
    <3> QED BY <1>3, <3>1, <3>2
  <2> QED BY <1>1, <2>0, <2>1, <2>2, <2>3, <2>4, <2>5
<1> QED BY <1>2, <1>6, <1>7, <1>8, <1>9, <1>10, WholeIs

LEMMA SplicedUnits ==
    ASSUME NEW s \in Seq(Blocks), NEW lo \in 1 .. Len(s), NEW hi \in lo .. Len(s),
           NEW m \in Seq(Blocks), NEW t, Spliced(s, lo, hi, m, t)
    PROVE  UsedUnits(t) = UsedUnits(s) + UsedUnits(m) - (Sums(s)[hi] - Sums(s)[lo - 1])
<1> DEFINE n == Len(s)
           p == Len(m)
<1>1. /\ n \in Nat /\ p \in Nat /\ lo \in Nat /\ hi \in Nat /\ 1 <= lo /\ lo <= hi /\ hi <= n
  OBVIOUS
<1>2. /\ t \in Seq(Blocks) /\ Len(t) = n + p - (hi - lo + 1)
      /\ \A k \in 1 .. lo - 1 : t[k] = s[k]
      /\ \A k \in 1 .. p : t[lo - 1 + k] = m[k]
      /\ \A k \in 1 .. n - hi : t[lo - 1 + p + k] = s[hi + k]
  BY DEF Spliced
<1> HIDE DEF n, p
<1>3. /\ Sums(s) \in [0 .. n -> Nat] /\ Sums(s)[0] = 0 /\ UsedUnits(s) = Sums(s)[n]
      /\ Sums(m) \in [0 .. p -> Nat] /\ Sums(m)[0] = 0 /\ UsedUnits(m) = Sums(m)[p]
      /\ Sums(t) \in [0 .. Len(t) -> Nat] /\ Sums(t)[0] = 0 /\ UsedUnits(t) = Sums(t)[Len(t)]
  BY <1>2, SumsAre DEF SumsTo, n, p
<1>x. PICK x \in Nat : x = lo - 1
  BY <1>1
<1>y. PICK y \in Nat : y = n - hi
  BY <1>1
<1>4. Sums(t)[0 + x] - Sums(t)[0] = Sums(s)[0 + x] - Sums(s)[0]
  <2>1. 0 \in Nat /\ 0 + x <= Len(s) /\ 0 + x <= Len(t) /\ \A k \in 1 .. x : 0 + k = k
    BY <1>1, <1>2, <1>x DEF n
  <2>2. \A k \in 1 .. x : t[0 + k] = s[0 + k]
    BY <1>2, <1>x, <2>1
  <2>3. Agrees(s, 0, t, 0, x)
    BY <2>1, <2>2 DEF Agrees
  <2> QED BY <1>2, <2>1, <2>3, SumsAgree
<1>5. Sums(t)[x + p] - Sums(t)[x] = Sums(m)[0 + p] - Sums(m)[0]
  <2>1. /\ 0 \in Nat /\ p \in Nat /\ 0 + p <= Len(m) /\ x + p <= Len(t)
        /\ \A k \in 1 .. p : 0 + k = k
    BY <1>1, <1>2, <1>x DEF n, p
  <2>2. \A k \in 1 .. p : t[x + k] = m[0 + k]
    BY <1>2, <1>x, <2>1
  <2>3. Agrees(m, 0, t, x, p)
    BY <2>1, <2>2 DEF Agrees
  <2> QED BY <1>2, <2>1, <2>3, SumsAgree
<1>6. Sums(t)[x + p + y] - Sums(t)[x + p] = Sums(s)[hi + y] - Sums(s)[hi]
  <2>z. PICK z \in Nat : z = x + p
    BY <1>1
  <2>1. hi \in Nat /\ hi + y <= Len(s) /\ z + y <= Len(t)
    BY <1>1, <1>2, <1>x, <1>y, <2>z DEF n
  <2>2. \A k \in 1 .. y : t[z + k] = s[hi + k]
    BY <1>2, <1>x, <1>y, <2>z
  <2>3. Sums(t)[z + y] - Sums(t)[z] = Sums(s)[hi + y] - Sums(s)[hi]
    <3>1. Agrees(s, hi, t, z, y)
      BY <2>1, <2>2 DEF Agrees
    <3> QED BY <1>2, <2>1, <3>1, SumsAgree
  <2> QED BY <2>z, <2>3
<1>7. /\ 0 + x = lo - 1 /\ x = lo - 1 /\ 0 + p = p /\ x + p + y = Len(t) /\ x + p = lo - 1 + p
      /\ hi + y = n
      /\ lo - 1 \in 0 .. n /\ hi \in 0 .. n /\ n \in 0 .. n /\ p \in 0 .. p
      /\ lo - 1 \in 0 .. Len(t) /\ lo - 1 + p \in 0 .. Len(t) /\ Len(t) \in 0 .. Len(t)
  BY <1>1, <1>2, <1>x, <1>y
<1> DEFINE a == Sums(s)[lo - 1]
           b == Sums(s)[hi]
           c == Sums(s)[n]
           d == Sums(m)[p]
           e == Sums(t)[lo - 1]
           f == Sums(t)[lo - 1 + p]
           g == Sums(t)[Len(t)]
<1>8. /\ a \in Nat /\ b \in Nat /\ c \in Nat /\ d \in Nat /\ e \in Nat /\ f \in Nat /\ g \in Nat
  BY <1>3, <1>7
<1>9. e - 0 = a - 0 /\ f - e = d - 0 /\ g - f = c - b
  BY <1>3, <1>4, <1>5, <1>6, <1>7
<1>10. UsedUnits(s) = c /\ UsedUnits(m) = d /\ UsedUnits(t) = g
  BY <1>3
<1> HIDE DEF a, b, c, d, e, f, g
<1>11. g = c + d - (b - a)
  BY <1>8, <1>9
<1> QED BY <1>10, <1>11 DEF a, b

LEMMA SplicedAddresses ==
    ASSUME NEW s \in Seq(Blocks), NEW lo \in 1 .. Len(s), NEW hi \in lo .. Len(s),
           NEW m \in Seq(Blocks), NEW t, Spliced(s, lo, hi, m, t)
    PROVE  UsedAddresses(t) =
             {s[k].at : k \in {k \in 1 .. Len(s) : s[k].used /\ k \notin lo .. hi}}
               \union UsedAddresses(m)
<1> DEFINE n == Len(s)
           p == Len(m)
           left == {k \in 1 .. n : s[k].used /\ k \notin lo .. hi}
           kept == {s[k].at : k \in left}
<1>1. /\ n \in Nat /\ p \in Nat /\ lo \in Nat /\ hi \in Nat /\ 1 <= lo /\ lo <= hi /\ hi <= n
  OBVIOUS
<1>2. /\ t \in Seq(Blocks) /\ Len(t) = n + p - (hi - lo + 1)
      /\ \A k \in 1 .. lo - 1 : t[k] = s[k]
      /\ \A k \in 1 .. p : t[lo - 1 + k] = m[k]
      /\ \A k \in 1 .. n - hi : t[lo - 1 + p + k] = s[hi + k]
  BY DEF Spliced
<1>3. DOMAIN t = 1 .. Len(t) /\ DOMAIN m = 1 .. p
  BY <1>2
<1> HIDE DEF n, p
<1>4. ASSUME NEW x \in 1 .. Len(t)
      PROVE  \/ x \in 1 .. lo - 1
             \/ x - (lo - 1) \in 1 .. p /\ lo - 1 + (x - (lo - 1)) = x
             \/ x - (lo - 1 + p) \in 1 .. n - hi /\ lo - 1 + p + (x - (lo - 1 + p)) = x
  BY <1>1, <1>2
<1>5. ASSUME NEW x \in 1 .. Len(t), t[x].used
      PROVE  t[x].at \in kept \union UsedAddresses(m)
  <2>1. CASE x \in 1 .. lo - 1
    <3>1. x \in 1 .. n /\ x \notin lo .. hi /\ t[x] = s[x]
      BY <1>1, <1>2, <2>1
    <3> QED BY <1>5, <3>1
  <2>2. CASE x - (lo - 1) \in 1 .. p /\ lo - 1 + (x - (lo - 1)) = x
    <3>1. t[x] = m[x - (lo - 1)]
      BY <1>2, <2>2
    <3> QED BY <1>3, <1>5, <2>2, <3>1 DEF UsedAddresses, UsedBlocks
  <2>3. CASE x - (lo - 1 + p) \in 1 .. n - hi /\ lo - 1 + p + (x - (lo - 1 + p)) = x
    <3>1. t[x] = s[hi + (x - (lo - 1 + p))]
      BY <1>2, <2>3
    <3>2. hi + (x - (lo - 1 + p)) \in 1 .. n /\ hi + (x - (lo - 1 + p)) \notin lo .. hi
      BY <1>1, <2>3
    <3> QED BY <1>5, <3>1, <3>2
  <2> QED BY <1>4, <2>1, <2>2, <2>3
<1>6. ASSUME NEW k \in left PROVE s[k].at \in UsedAddresses(t)
  <2>0. k \in 1 .. n /\ s[k].used /\ (k \in 1 .. lo - 1 \/ k > hi)
    BY <1>1
  <2>1. CASE k \in 1 .. lo - 1
    <3>1. k \in 1 .. Len(t) /\ t[k] = s[k]
      BY <1>1, <1>2, <2>1
    <3> QED BY <1>3, <2>0, <3>1 DEF UsedAddresses, UsedBlocks
  <2>2. CASE k > hi
    <3> DEFINE y == k - hi
    <3>1. y \in 1 .. n - hi /\ hi + y = k /\ lo - 1 + p + y \in 1 .. Len(t)
      BY <1>1, <1>2, <2>0, <2>2
    <3> HIDE DEF y
    <3>2. t[lo - 1 + p + y] = s[k]
      BY <1>2, <3>1
    <3> QED BY <1>3, <2>0, <3>1, <3>2 DEF UsedAddresses, UsedBlocks
  <2> QED BY <2>0, <2>1, <2>2
<1>7. ASSUME NEW k \in 1 .. p, m[k].used PROVE m[k].at \in UsedAddresses(t)
  <2>1. lo - 1 + k \in 1 .. Len(t) /\ t[lo - 1 + k] = m[k]
    BY <1>1, <1>2
  <2> QED BY <1>3, <1>7, <2>1 DEF UsedAddresses, UsedBlocks
<1>8. UsedAddresses(t) \subseteq kept \union UsedAddresses(m)
  <2> SUFFICES ASSUME NEW x \in DOMAIN t, t[x].used PROVE t[x].at \in kept \union UsedAddresses(m)
    BY DEF UsedAddresses, UsedBlocks
  <2> QED BY <1>3, <1>5
<1>9. kept \subseteq UsedAddresses(t)
  BY <1>6
<1>10. UsedAddresses(m) \subseteq UsedAddresses(t)
  <2> SUFFICES ASSUME NEW k \in DOMAIN m, m[k].used PROVE m[k].at \in UsedAddresses(t)
    BY DEF UsedAddresses, UsedBlocks
  <2> QED BY <1>3, <1>7
<1> QED BY <1>8, <1>9, <1>10 DEF n

\* The blocks of a whole heap are in the order of their addresses.
LEMMA Ordered ==
    ASSUME NEW s, Whole(s), NEW i \in 1 .. Len(s), NEW j \in 1 .. Len(s), i < j
    PROVE  s[i].at < s[j].at
<1>1. /\ s \in Seq(Blocks) /\ Len(s) \in Nat /\ HeaderUnits \in Nat \ {0}
      /\ \A k \in 1 .. Len(s) - 1 : BlockEnd(s[k]) = s[k + 1].at
  BY HeapAssumption, WholeIs DEF Whole, Follows
<1>2. \A k \in 1 .. Len(s) : s[k].at \in Nat /\ s[k].size \in Nat
  <2>1. \A k \in 1 .. Len(s) : s[k] \in Blocks
    BY <1>1
  <2> QED BY <2>1 DEF Blocks
<1> DEFINE Wrong == {k \in i + 1 .. Len(s) : ~(s[i].at < s[k].at)}
<1>3. SUFFICES ASSUME Wrong # {} PROVE FALSE
  <2>1. j \in i + 1 .. Len(s)
    BY <1>1
  <2> QED BY <2>1
<1>4. PICK k \in Wrong : \A l \in Wrong : k <= l
  <2>1. Wrong \in SUBSET Nat
    OBVIOUS
  <2> QED BY <1>3, <2>1, LeastIsIn
<1>5. /\ k - 1 \in 1 .. Len(s) - 1 /\ k - 1 \in 1 .. Len(s) /\ k - 1 + 1 = k /\ k \in 1 .. Len(s)
      /\ k - 1 = i \/ k - 1 \in i + 1 .. Len(s)
  BY <1>1, <1>4
<1>6. s[i].at <= s[k - 1].at
  <2>1. CASE k - 1 = i
    BY <1>2, <2>1
  <2>2. CASE k - 1 \in i + 1 .. Len(s)
    <3>1. k - 1 \notin Wrong
      BY <1>1, <1>4, <1>5
    <3>2. s[i].at < s[k - 1].at
      BY <2>2, <3>1
    <3> QED BY <1>2, <1>5, <3>2
  <2> QED BY <1>5, <2>1, <2>2
<1>7. BlockEnd(s[k - 1]) = s[k].at
  BY <1>1, <1>5
<1>8. s[k - 1].at < s[k].at
  <2>1. s[k].at = s[k - 1].at + HeaderUnits + s[k - 1].size
    BY <1>7 DEF BlockEnd
  <2>2. s[k - 1].at \in Nat /\ s[k - 1].size \in Nat
    BY <1>2, <1>5
  <2> QED BY <1>1, <2>1, <2>2
<1>9. s[i].at < s[k].at
  BY <1>2, <1>5, <1>6, <1>8
<1> QED BY <1>4, <1>9

LEMMA OneAddress ==
    ASSUME NEW s, Whole(s), NEW i \in 1 .. Len(s), NEW j \in 1 .. Len(s), s[i].at = s[j].at
    PROVE  i = j
<1>1. s[i].at \in Nat /\ s[j].at \in Nat
  <2>1. s[i] \in Blocks /\ s[j] \in Blocks
    BY DEF Whole
  <2> QED BY <2>1 DEF Blocks
<1>2. ~(i < j) /\ ~(j < i)
  BY <1>1, Ordered
<1> QED BY <1>2

LEMMA BlockIs ==
    ASSUME NEW s \in Seq(Blocks), NEW k \in 1 .. Len(s)
    PROVE  /\ s[k] \in Blocks /\ s[k].at \in Nat /\ s[k].size \in Nat /\ s[k].used \in BOOLEAN
           /\ HeaderUnits \in Nat \ {0}
           /\ Sums(s)[k] = Sums(s)[k - 1] + Takes(s[k])
           /\ Sums(s)[k] \in Nat /\ Sums(s)[k - 1] \in Nat /\ Takes(s[k]) \in Nat
<1>1. s[k] \in Blocks
  OBVIOUS
<1>2. HeaderUnits \in Nat \ {0}
  BY HeapAssumption
<1>3. s[k].at \in Nat /\ s[k].size \in Nat /\ s[k].used \in BOOLEAN /\ Takes(s[k]) \in Nat
  BY <1>1, <1>2 DEF Blocks, Takes
<1>4. /\ Sums(s) \in [0 .. Len(s) -> Nat]
      /\ \A n \in 1 .. Len(s) : Sums(s)[n] = Sums(s)[n - 1] + Takes(s[n])
  BY SumsAre DEF SumsTo
<1>5. k \in 0 .. Len(s) /\ k - 1 \in 0 .. Len(s)
  OBVIOUS
<1> QED BY <1>1, <1>2, <1>3, <1>4, <1>5

\* What lists of one block and of two take.
LEMMA OneTakes ==
    ASSUME NEW b \in Blocks
    PROVE  <<b>> \in Seq(Blocks) /\ UsedUnits(<<b>>) = Takes(b)
<1> DEFINE m == <<b>>
<1>1. m \in Seq(Blocks) /\ Len(m) = 1 /\ m[1] = b /\ 1 \in 1 .. 1
  OBVIOUS
<1> DEFINE f == Sums(m)
<1> HIDE DEF m
<1>2. f[1] = f[1 - 1] + Takes(m[1]) /\ Takes(m[1]) \in Nat
  BY <1>1, BlockIs
<1>3. f[0] = 0 /\ UsedUnits(m) = f[1]
  BY <1>1, SumsAre DEF SumsTo
<1> HIDE DEF f
<1>4. UsedUnits(m) = Takes(m[1])
  BY <1>2, <1>3
<1> QED BY <1>1, <1>4 DEF m

LEMMA TwoTake ==
    ASSUME NEW a \in Blocks, NEW b \in Blocks
    PROVE  <<a, b>> \in Seq(Blocks) /\ UsedUnits(<<a, b>>) = Takes(a) + Takes(b)
<1> DEFINE m == <<a, b>>
<1>1. m \in Seq(Blocks) /\ Len(m) = 2 /\ m[1] = a /\ m[2] = b
  OBVIOUS
<1> DEFINE f == Sums(m)
<1>0. 1 \in 1 .. 2 /\ 2 \in 1 .. 2
  OBVIOUS
<1> HIDE DEF m
<1>2. f[1] = f[1 - 1] + Takes(m[1]) /\ Takes(m[1]) \in Nat
  BY <1>0, <1>1, BlockIs
<1>3. f[2] = f[2 - 1] + Takes(m[2]) /\ Takes(m[2]) \in Nat /\ f[2 - 1] \in Nat
  BY <1>0, <1>1, BlockIs
<1>4. f[0] = 0 /\ UsedUnits(m) = f[2]
  BY <1>1, SumsAre DEF SumsTo
<1> HIDE DEF f
<1>5. UsedUnits(m) = Takes(m[1]) + Takes(m[2])
  BY <1>2, <1>3, <1>4
<1> QED BY <1>1, <1>5 DEF m

\* An allocation splits or marks a free block: everything else stays.
LEMMA AllocatedEffect ==
    ASSUME NEW s, Whole(s), NEW i \in 1 .. Len(s), ~s[i].used,
           NEW units \in Nat \ {0}, units <= s[i].size,
           NEW t, t = Allocated(s, i, units)
    PROVE  /\ Whole(t) /\ i \in 1 .. Len(t) /\ t[i].size \in Nat
           /\ UsedUnits(t) = UsedUnits(s) + t[i].size + HeaderUnits
           /\ UsedAddresses(t) = UsedAddresses(s) \union {s[i].at}
           /\ s[i].at \notin UsedAddresses(s) /\ s[i].at \in Nat
<1> DEFINE m == Split(s[i], units)
           b == s[i]
           rest == b.size - units - HeaderUnits
<1>1. s \in Seq(Blocks) /\ Len(s) \in Nat
  BY DEF Whole
<1>2. /\ b \in Blocks /\ b.at \in Nat /\ b.size \in Nat /\ b.size > 0
      /\ HeaderUnits \in Nat \ {0} /\ b.used = FALSE
  <2>1. s[i].size > 0
    BY <1>1, WholeIs
  <2> QED BY <1>1, <2>1, BlockIs
<1>3. UsedBlock(b.at, units) \in Blocks /\ UsedBlock(b.at, b.size) \in Blocks
  BY <1>2 DEF UsedBlock, Blocks
<1>4. /\ i = 1 => b.at = 0
      /\ i # 1 => Follows(s[i - 1], b) /\ s[i - 1].used
      /\ i = Len(s) => BlockEnd(b) = HeapUnits
      /\ i # Len(s) => Follows(b, s[i + 1]) /\ s[i + 1].used
  <2>1. i # 1 => i - 1 \in 1 .. Len(s) - 1 /\ i - 1 + 1 = i
    BY <1>1
  <2>2. i # Len(s) => i \in 1 .. Len(s) - 1
    BY <1>1
  <2>3. i # 1 => Follows(s[i - 1], b)
    BY <1>1, <2>1, WholeIs
  <2>4. i # Len(s) => Follows(b, s[i + 1])
    BY <1>1, <2>2, WholeIs
  <2> QED BY <1>1, <1>2, <2>3, <2>4, WholeIs DEF Follows
<1>5. /\ m \in Seq(Blocks) /\ FitsIn(s, i, i, m)
      /\ m[1].size \in Nat /\ UsedUnits(m) = m[1].size + HeaderUnits
      /\ UsedAddresses(m) = {b.at}
  <2>1. CASE b.size - units > HeaderUnits + 1
    <3> DEFINE x == UsedBlock(b.at, units)
               y == FreeBlock(b.at + HeaderUnits + units, rest)
    <3>1. m = <<x, y>>
      BY <2>1 DEF Split
    <3>2. rest \in Nat /\ rest > 0
      BY <1>2, <2>1
    <3>3. x \in Blocks /\ y \in Blocks
      BY <1>2, <1>3, <3>2 DEF FreeBlock, Blocks
    <3>4. /\ x.at = b.at /\ x.size = units /\ x.used = TRUE
          /\ y.at = b.at + HeaderUnits + units /\ y.size = rest /\ y.used = FALSE
      BY DEF UsedBlock, FreeBlock
    <3> HIDE DEF m, x, y
    <3>5. m \in Seq(Blocks) /\ Len(m) = 2 /\ m[1] = x /\ m[2] = y /\ DOMAIN m = 1 .. 2
      BY <3>1, <3>3
    <3>6. Follows(x, y)
      BY <1>2, <3>4 DEF Follows, BlockEnd
    <3>7. BlockEnd(y) = BlockEnd(b)
      BY <1>2, <3>2, <3>4 DEF BlockEnd
    <3>8. IF i = 1 THEN m[1].at = 0 ELSE Follows(s[i - 1], m[1])
      BY <1>4, <3>4, <3>5 DEF Follows
    <3>9. IF i = Len(s) THEN BlockEnd(m[2]) = HeapUnits ELSE Follows(m[2], s[i + 1])
      BY <1>4, <3>5, <3>7 DEF Follows
    <3>10. FitsIn(s, i, i, m)
      <4>1. \A k \in 1 .. 2 : m[k].size > 0
        <5>1. \A k \in 1 .. 2 : k = 1 \/ k = 2
          OBVIOUS
        <5> QED BY <3>2, <3>4, <3>5, <5>1
      <4>2. \A k \in 1 .. 2 - 1 : Follows(m[k], m[k + 1])
        <5>1. \A k \in 1 .. 2 - 1 : k = 1 /\ k + 1 = 2
          OBVIOUS
        <5> QED BY <3>5, <3>6, <5>1
      <4> QED BY <3>5, <3>8, <3>9, <4>1, <4>2 DEF FitsIn
    <3>11. UsedUnits(m) = m[1].size + HeaderUnits
      <4>1. UsedUnits(m) = Takes(x) + Takes(y)
        BY <3>1, <3>3, TwoTake
      <4>2. Takes(x) = units + HeaderUnits /\ Takes(y) = 0
        BY <3>4 DEF Takes
      <4> QED BY <1>2, <3>4, <3>5, <4>1, <4>2
    <3>12. UsedAddresses(m) = {b.at}
      <4>1. UsedBlocks(m) = {1}
        <5>1. \A k \in 1 .. 2 : k = 1 \/ k = 2
          OBVIOUS
        <5>2. 1 \in 1 .. 2 /\ m[1].used /\ ~m[2].used
          BY <3>4, <3>5
        <5> QED BY <3>5, <5>1, <5>2 DEF UsedBlocks
      <4> QED BY <3>4, <3>5, <4>1 DEF UsedAddresses
    <3> QED BY <3>4, <3>5, <3>10, <3>11, <3>12
  <2>2. CASE ~(b.size - units > HeaderUnits + 1)
    <3> DEFINE x == UsedBlock(b.at, b.size)
    <3>1. m = <<x>>
      BY <2>2 DEF Split
    <3>2. x \in Blocks /\ x.at = b.at /\ x.size = b.size /\ x.used = TRUE
      BY <1>3 DEF UsedBlock
    <3> HIDE DEF m, x
    <3>3. m \in Seq(Blocks) /\ Len(m) = 1 /\ m[1] = x /\ DOMAIN m = 1 .. 1
      BY <3>1, <3>2
    <3>4. BlockEnd(x) = BlockEnd(b)
      BY <3>2 DEF BlockEnd
    <3>5. IF i = 1 THEN m[1].at = 0 ELSE Follows(s[i - 1], m[1])
      BY <1>4, <3>2, <3>3 DEF Follows
    <3>6. IF i = Len(s) THEN BlockEnd(m[1]) = HeapUnits ELSE Follows(m[1], s[i + 1])
      BY <1>4, <3>3, <3>4 DEF Follows
    <3>7. FitsIn(s, i, i, m)
      <4>1. \A k \in 1 .. 1 : k = 1
        OBVIOUS
      <4>2. 1 .. 1 - 1 = {}
        OBVIOUS
      <4> QED BY <1>2, <3>2, <3>3, <3>5, <3>6, <4>1, <4>2 DEF FitsIn
    <3>8. UsedUnits(m) = m[1].size + HeaderUnits
      BY <3>1, <3>2, <3>3, OneTakes DEF Takes
    <3>9. UsedAddresses(m) = {b.at}
      <4>1. UsedBlocks(m) = {1}
        BY <3>2, <3>3 DEF UsedBlocks
      <4> QED BY <3>2, <3>3, <4>1 DEF UsedAddresses
    <3> QED BY <1>2, <3>2, <3>3, <3>7, <3>8, <3>9
  <2> QED BY <2>1, <2>2
<1> HIDE DEF m, rest
<1>6. i \in i .. Len(s) /\ Spliced(s, i, i, m, t)
  <2>1. units \in Nat
    OBVIOUS
  <2> QED BY <1>1, <1>5, <2>1, AllocatedSpliced DEF m
<1>7. Whole(t)
  BY <1>5, <1>6, SplicedWhole
<1>8. t[i] = m[1] /\ i \in 1 .. Len(t)
  <2>1. /\ Len(t) = Len(s) + Len(m) - (i - i + 1)
        /\ \A k \in 1 .. Len(m) : t[i - 1 + k] = m[k]
    BY <1>6 DEF Spliced
  <2>2. Len(m) \in Nat /\ Len(m) > 0
    BY <1>5 DEF FitsIn
  <2>3. 1 \in 1 .. Len(m) /\ i - 1 + 1 = i
    BY <2>2
  <2>4. t[i] = m[1]
    BY <2>1, <2>3
  <2> QED BY <1>1, <2>1, <2>2, <2>4
<1>9. UsedUnits(t) = UsedUnits(s) + t[i].size + HeaderUnits
  <2>1. UsedUnits(t) = UsedUnits(s) + UsedUnits(m) - (Sums(s)[i] - Sums(s)[i - 1])
    BY <1>1, <1>5, <1>6, SplicedUnits
  <2>2. Sums(s)[i] = Sums(s)[i - 1] /\ Sums(s)[i] \in Nat
    <3>1. Sums(s)[i] = Sums(s)[i - 1] + Takes(s[i]) /\ Sums(s)[i - 1] \in Nat
      BY <1>1, BlockIs
    <3>2. Takes(s[i]) = 0
      BY <1>2 DEF Takes
    <3> QED BY <3>1, <3>2
  <2>3. UsedUnits(s) \in Nat
    BY <1>1, SumsAre DEF SumsTo
  <2> QED BY <1>2, <1>5, <1>8, <2>1, <2>2, <2>3
<1>10. s[i].at \notin UsedAddresses(s)
  <2> SUFFICES ASSUME NEW j \in 1 .. Len(s), s[j].used, s[j].at = s[i].at PROVE FALSE
    BY <1>1 DEF UsedAddresses, UsedBlocks
  <2> QED BY <1>2, OneAddress
<1>11. UsedAddresses(t) = UsedAddresses(s) \union {s[i].at}
  <2>1. UsedAddresses(t) =
             {s[k].at : k \in {k \in 1 .. Len(s) : s[k].used /\ k \notin i .. i}}
               \union UsedAddresses(m)
    BY <1>1, <1>5, <1>6, SplicedAddresses
  <2>2. {k \in 1 .. Len(s) : s[k].used /\ k \notin i .. i} = UsedBlocks(s)
    <3>1. \A k \in i .. i : k = i
      OBVIOUS
    <3>2. DOMAIN s = 1 .. Len(s)
      BY <1>1
    <3> QED BY <1>2, <3>1, <3>2 DEF UsedBlocks
  <2> QED BY <1>5, <2>1, <2>2 DEF UsedAddresses
<1> QED BY <1>2, <1>5, <1>7, <1>8, <1>9, <1>10, <1>11

\* The blocks from lo to hi as one free block.
Coalesced(s, lo, hi) == FreeBlock(s[lo].at, BlockEnd(s[hi]) - s[lo].at - HeaderUnits)

LEMMA SizeOfBoth ==
    ASSUME NEW a, NEW b, NEW end \in Int, a.at \in Nat, a.size \in Nat, b.at \in Nat,
           HeaderUnits \in Nat, BlockEnd(a) = b.at
    PROVE  end - a.at - HeaderUnits = a.size + HeaderUnits + (end - b.at - HeaderUnits)
<1>1. b.at = a.at + HeaderUnits + a.size
  BY DEF BlockEnd
<1> DEFINE x == a.at
           y == a.size
           z == b.at
<1>2. x \in Nat /\ y \in Nat /\ z \in Nat /\ z = x + HeaderUnits + y
  BY <1>1
<1> HIDE DEF x, y, z
<1>3. end - x - HeaderUnits = y + HeaderUnits + (end - z - HeaderUnits)
  BY <1>2
<1> QED BY <1>3 DEF x, y, z

LEMMA EndIs ==
    ASSUME NEW a, a.at \in Nat, a.size \in Nat, HeaderUnits \in Nat
    PROVE  BlockEnd(a) \in Nat /\ BlockEnd(a) - a.at - HeaderUnits = a.size
<1> DEFINE x == a.at
           y == a.size
<1>1. BlockEnd(a) = x + HeaderUnits + y /\ x \in Nat /\ y \in Nat
  BY DEF BlockEnd
<1> HIDE DEF x, y
<1>2. BlockEnd(a) \in Nat /\ BlockEnd(a) - x - HeaderUnits = y
  BY <1>1
<1> QED BY <1>2 DEF x, y

LEMMA SplicedTwice ==
    ASSUME NEW s \in Seq(Blocks), NEW i \in 2 .. Len(s), NEW hi \in i .. Len(s),
           NEW b \in Blocks, NEW c \in Blocks, NEW v, NEW t,
           Spliced(s, i, hi, <<b>>, v), Spliced(v, i - 1, i, <<c>>, t)
    PROVE  Spliced(s, i - 1, hi, <<c>>, t)
<1> DEFINE n == Len(s)
<1>1. n \in Nat /\ i \in Nat /\ hi \in Nat /\ 2 <= i /\ i <= hi /\ hi <= n
  OBVIOUS
<1>2. /\ v \in Seq(Blocks) /\ Len(v) = n + 1 - (hi - i + 1)
      /\ \A k \in 1 .. i - 1 : v[k] = s[k]
      /\ \A k \in 1 .. n - hi : v[i - 1 + 1 + k] = s[hi + k]
  <2>1. Len(<<b>>) = 1
    OBVIOUS
  <2> QED BY <2>1 DEF Spliced
<1>3. /\ t \in Seq(Blocks) /\ Len(t) = Len(v) + 1 - (i - (i - 1) + 1)
      /\ \A k \in 1 .. i - 1 - 1 : t[k] = v[k]
      /\ \A k \in 1 .. 1 : t[i - 1 - 1 + k] = <<c>>[k]
      /\ \A k \in 1 .. Len(v) - i : t[i - 1 - 1 + 1 + k] = v[i + k]
  <2>1. Len(<<c>>) = 1
    OBVIOUS
  <2> QED BY <2>1 DEF Spliced
<1>4. Len(t) = n + 1 - (hi - (i - 1) + 1)
  BY <1>1, <1>2, <1>3
<1>5. ASSUME NEW k \in 1 .. i - 1 - 1 PROVE t[k] = s[k]
  <2>1. k \in 1 .. i - 1
    BY <1>1
  <2> QED BY <1>2, <1>3, <2>1
<1>6. ASSUME NEW k \in 1 .. n - hi PROVE t[i - 1 - 1 + 1 + k] = s[hi + k]
  <2>1. k \in 1 .. Len(v) - i /\ i - 1 + 1 + k = i + k
    BY <1>1, <1>2
  <2>2. v[i + k] = s[hi + k]
    BY <1>2, <2>1
  <2> QED BY <1>3, <2>1, <2>2
<1>7. Len(<<c>>) = 1
  OBVIOUS
<1> QED BY <1>3, <1>4, <1>5, <1>6, <1>7 DEF Spliced

\* The block i of s and the free blocks beside it have become one.
FreedInto(s, i, lo, hi, t) ==
    /\ lo \in 1 .. i /\ hi \in i .. Len(s) /\ lo >= i - 1 /\ hi <= i + 1
    /\ \A k \in lo .. hi : k # i => ~s[k].used
    /\ lo # 1 => s[lo - 1].used
    /\ hi # Len(s) => s[hi + 1].used
    /\ Spliced(s, lo, hi, <<Coalesced(s, lo, hi)>>, t)

\* The ends of a part of a whole heap of at most three blocks.
LEMMA EndsAre ==
    ASSUME NEW s, Whole(s), NEW lo \in 1 .. Len(s), NEW hi \in lo .. Len(s), hi <= lo + 2
    PROVE  /\ Coalesced(s, lo, hi) \in Blocks /\ Coalesced(s, lo, hi).size > 0
           /\ BlockEnd(Coalesced(s, lo, hi)) = BlockEnd(s[hi])
           /\ lo = hi => Coalesced(s, lo, hi) = FreeBlock(s[lo].at, s[lo].size)
<1>1. s \in Seq(Blocks) /\ Len(s) \in Nat /\ HeaderUnits \in Nat \ {0}
  BY HeapAssumption DEF Whole
<1>2. s[lo].at \in Nat /\ s[lo].size \in Nat /\ s[hi].at \in Nat /\ s[hi].size \in Nat
  <2>1. hi \in 1 .. Len(s)
    BY <1>1
  <2> QED BY <1>1, <2>1, BlockIs
<1>3. s[lo].size > 0 /\ s[hi].size > 0 /\ hi \in 1 .. Len(s)
  <2>1. hi \in 1 .. Len(s)
    BY <1>1
  <2> QED BY <1>1, <2>1, WholeIs
<1>4. lo = hi \/ s[lo].at < s[hi].at
  BY <1>1, <1>3, Ordered
<1> DEFINE size == BlockEnd(s[hi]) - s[lo].at - HeaderUnits
<1>5. size \in Nat /\ size > 0 /\ (lo = hi => size = s[lo].size)
  BY <1>1, <1>2, <1>3, <1>4 DEF BlockEnd
<1>6. Coalesced(s, lo, hi) = FreeBlock(s[lo].at, size)
  BY DEF Coalesced
<1>7. BlockEnd(FreeBlock(s[lo].at, size)) = BlockEnd(s[hi])
  <2> DEFINE end == BlockEnd(s[hi])
             at == s[lo].at
  <2>1. end \in Nat /\ at \in Nat
    BY <1>1, <1>2, EndIs
  <2>2. BlockEnd(FreeBlock(s[lo].at, size)) = at + HeaderUnits + (end - at - HeaderUnits)
    BY DEF BlockEnd, FreeBlock
  <2> HIDE DEF end, at
  <2>3. at + HeaderUnits + (end - at - HeaderUnits) = end
    BY <1>1, <2>1
  <2> QED BY <2>2, <2>3 DEF end
<1> HIDE DEF size
<1>8. FreeBlock(s[lo].at, size) \in Blocks /\ FreeBlock(s[lo].at, size).size > 0
  BY <1>2, <1>5 DEF FreeBlock, Blocks
<1> QED BY <1>5, <1>6, <1>7, <1>8

LEMMA FreedCoalesces ==
    ASSUME NEW s, Whole(s), NEW i \in 1 .. Len(s), s[i].used, NEW t, t = Freed(s, i)
    PROVE  \E lo, hi \in 1 .. Len(s) : FreedInto(s, i, lo, hi, t)
<1> DEFINE n == Len(s)
           b == FreeBlock(s[i].at, s[i].size)
           u == Marked(s, i)
           v == Merged(u, i)
<1>1. s \in Seq(Blocks) /\ n \in Nat /\ HeaderUnits \in Nat \ {0} /\ i \in Nat /\ 1 <= i /\ i <= n
  BY HeapAssumption DEF Whole
<1>2. s[i].at \in Nat /\ s[i].size \in Nat
  BY <1>1, BlockIs
<1>3. b \in Blocks /\ b.at = s[i].at /\ b.size = s[i].size /\ ~b.used
  BY <1>2 DEF FreeBlock, Blocks
<1>4. /\ u \in Seq(Blocks) /\ Len(u) = n /\ u[i] = b
      /\ \A k \in 1 .. n : k # i => u[k] = s[k]
  <2>1. u = [s EXCEPT ![i] = b]
    BY DEF Marked
  <2> HIDE DEF u, b
  <2> QED BY <1>1, <1>3, <2>1
<1>5. \A k \in 1 .. n - 1 : Follows(s[k], s[k + 1])
  BY <1>1, WholeIs
<1> HIDE DEF b, u
<1>6. PICK hi \in i .. n :
        /\ hi <= i + 1 /\ (\A k \in i .. hi : k # i => ~s[k].used)
        /\ hi # n => s[hi + 1].used
        /\ Coalesced(s, i, hi) \in Blocks
        /\ Spliced(s, i, hi, <<Coalesced(s, i, hi)>>, v)
  <2>1. CASE i = n \/ s[i + 1].used
    <3>1. i \in i .. n /\ i <= i + 1 /\ \A k \in i .. i : k = i
      BY <1>1
    <3>2. v = u
      <4>1. i = n \/ u[i + 1].used
        BY <1>1, <1>4, <2>1
      <4> QED BY <1>1, <1>4, <4>1, NotMerged DEF v
    <3>3. Coalesced(s, i, i) \in Blocks /\ Coalesced(s, i, i) = b
      <4>1. i <= i + 2
        BY <1>1
      <4> QED BY <3>1, <4>1, EndsAre DEF b
    <3>4. Spliced(s, i, i, <<b>>, u)
      <4>1. Len(<<b>>) = 1 /\ <<b>>[1] = b
        OBVIOUS
      <4>2. /\ n + 1 - (i - i + 1) = n /\ \A k \in 1 .. i - 1 : k \in 1 .. n /\ k # i
            /\ \A k \in 1 .. 1 : k = 1 /\ i - 1 + k = i
            /\ \A k \in 1 .. n - i : i + k \in 1 .. n /\ i + k # i /\ i - 1 + 1 + k = i + k
        BY <1>1
      <4> QED BY <1>4, <4>1, <4>2 DEF Spliced
    <3> HIDE DEF v
    <3> QED BY <2>1, <3>1, <3>2, <3>3, <3>4
  <2>2. CASE ~(i = n \/ s[i + 1].used)
    <3>1. /\ i \in 1 .. n - 1 /\ i + 1 \in i .. n /\ i + 1 \in 1 .. n /\ i + 1 # i
          /\ i + 1 <= i + 1 /\ i \in 1 .. Len(u) - 1
      BY <1>1, <1>4, <2>2
    <3>2. u[i + 1] = s[i + 1] /\ ~u[i].used /\ ~u[i + 1].used
      BY <1>3, <1>4, <2>2, <3>1
    <3>3. Spliced(u, i, i + 1, <<FreeBlock(u[i].at, u[i].size + HeaderUnits + u[i + 1].size)>>, v)
      BY <1>4, <3>1, <3>2, MergedSpliced DEF v
    <3>4. Coalesced(s, i, i + 1) \in Blocks
      <4>1. i + 1 <= i + 2
        BY <1>1
      <4> QED BY <3>1, <4>1, EndsAre
    <3>5. Coalesced(s, i, i + 1) = FreeBlock(u[i].at, u[i].size + HeaderUnits + u[i + 1].size)
      <4>1. BlockEnd(s[i]) = s[i + 1].at
        BY <1>5, <3>1 DEF Follows
      <4>2. s[i + 1].size \in Nat /\ s[i + 1].at \in Nat
        BY <1>1, <3>1, BlockIs
      <4>3. BlockEnd(s[i + 1]) - s[i].at - HeaderUnits = s[i].size + HeaderUnits + s[i + 1].size
        <5>1. BlockEnd(s[i + 1]) \in Int /\ BlockEnd(s[i + 1]) - s[i + 1].at - HeaderUnits = s[i + 1].size
          BY <1>1, <4>2, EndIs
        <5>2. BlockEnd(s[i + 1]) - s[i].at - HeaderUnits =
                s[i].size + HeaderUnits + (BlockEnd(s[i + 1]) - s[i + 1].at - HeaderUnits)
          BY <1>1, <1>2, <4>1, <4>2, <5>1, SizeOfBoth
        <5> QED BY <5>1, <5>2
      <4> QED BY <1>3, <1>4, <3>2, <4>3 DEF Coalesced
    <3> DEFINE m == <<Coalesced(s, i, i + 1)>>
    <3>6. Spliced(u, i, i + 1, m, v)
      BY <3>3, <3>5
    <3> HIDE DEF m, v
    <3>7. Spliced(s, i, i + 1, m, v)
      <4>1. \A k \in 1 .. i - 1 : k \in 1 .. n /\ k # i
        BY <1>1
      <4>2. \A k \in 1 .. n - (i + 1) : i + 1 + k \in 1 .. n /\ i + 1 + k # i
        BY <1>1
      <4> QED BY <1>4, <3>6, <4>1, <4>2 DEF Spliced
    <3>8. \A k \in i .. i + 1 : k # i => ~s[k].used
      <4>1. \A k \in i .. i + 1 : k # i => k = i + 1
        BY <1>1
      <4> QED BY <2>2, <4>1
    <3>9. i + 1 # n => s[i + 1 + 1].used
      <4>1. i + 1 # n => i + 1 \in 1 .. n - 1
        BY <1>1, <3>1
      <4> QED BY <1>5, <2>2, <4>1 DEF Follows
    <3> QED BY <3>1, <3>4, <3>7, <3>8, <3>9 DEF m
  <2> QED BY <2>1, <2>2
<1> DEFINE c == Coalesced(s, i, hi)
<1>7. /\ v \in Seq(Blocks) /\ Len(v) = n + 1 - (hi - i + 1)
      /\ \A k \in 1 .. i - 1 : v[k] = s[k]
      /\ v[i] = c
  <2> HIDE DEF v
  <2>1. Len(<<c>>) = 1 /\ <<c>>[1] = c /\ 1 \in 1 .. 1
    OBVIOUS
  <2> HIDE DEF c
  <2>2. /\ v \in Seq(Blocks) /\ Len(v) = n + 1 - (hi - i + 1)
        /\ \A k \in 1 .. i - 1 : v[k] = s[k]
        /\ \A k \in 1 .. 1 : v[i - 1 + k] = <<c>>[k]
    BY <1>6, <2>1 DEF Spliced, c
  <2>3. i - 1 + 1 = i
    BY <1>1
  <2> QED BY <2>1, <2>2, <2>3
<1>8. t = Merged(v, i - 1)
  BY DEF Freed, u
<1> HIDE DEF v
<1>9. c.at = s[i].at /\ ~c.used /\ c.size = BlockEnd(s[hi]) - s[i].at - HeaderUnits /\ c \in Blocks
  BY <1>6 DEF Coalesced, FreeBlock
<1>10. hi \in Nat /\ hi \in 1 .. n /\ i <= hi
  BY <1>1
<1>11. CASE i = 1 \/ s[i - 1].used
  <2>1. t = v
    <3>1. i - 1 \in Nat /\ (i # 1 => i - 1 \in 1 .. i - 1)
      BY <1>1
    <3>2. i - 1 = 0 \/ v[i - 1].used
      BY <1>1, <1>7, <1>11, <3>1
    <3> QED BY <1>7, <1>8, <3>1, <3>2, NotMerged
  <2>2. i \in 1 .. i /\ i >= i - 1
    BY <1>1
  <2> QED BY <1>6, <1>10, <1>11, <2>1, <2>2 DEF FreedInto
<1>12. CASE ~(i = 1 \/ s[i - 1].used)
  <2>1. /\ i \in 2 .. n /\ i - 1 \in 1 .. n /\ i - 1 \in 1 .. Len(v) - 1 /\ i - 1 \in 1 .. i - 1
        /\ i - 1 + 1 = i /\ i - 1 \in 1 .. n - 1 /\ i - 1 \in 1 .. i
    BY <1>1, <1>7, <1>10, <1>12
  <2>2. v[i - 1] = s[i - 1] /\ ~v[i - 1].used /\ ~v[i - 1 + 1].used
    BY <1>7, <1>9, <1>12, <2>1
  <2>3. Spliced(v, i - 1, i, <<FreeBlock(v[i - 1].at, v[i - 1].size + HeaderUnits + v[i].size)>>, t)
    BY <1>7, <1>8, <2>1, <2>2, MergedSpliced
  <2>4. Coalesced(s, i - 1, hi) \in Blocks
    <3>1. hi <= i - 1 + 2 /\ hi \in i - 1 .. n
      BY <1>1, <1>6, <1>10
    <3> QED BY <2>1, <3>1, EndsAre
  <2>5. Coalesced(s, i - 1, hi) = FreeBlock(v[i - 1].at, v[i - 1].size + HeaderUnits + v[i].size)
    <3>1. BlockEnd(s[i - 1]) = s[i].at
      BY <1>5, <2>1 DEF Follows
    <3>2. /\ s[i - 1].size \in Nat /\ s[i - 1].at \in Nat
          /\ s[hi].size \in Nat /\ s[hi].at \in Nat
      BY <1>1, <1>10, <2>1, BlockIs
    <3>3. BlockEnd(s[hi]) - s[i - 1].at - HeaderUnits = s[i - 1].size + HeaderUnits + c.size
      <4>1. BlockEnd(s[hi]) \in Int
        BY <1>1, <3>2, EndIs
      <4>2. BlockEnd(s[hi]) - s[i - 1].at - HeaderUnits =
              s[i - 1].size + HeaderUnits + (BlockEnd(s[hi]) - s[i].at - HeaderUnits)
        BY <1>1, <1>2, <3>1, <3>2, <4>1, SizeOfBoth
      <4> QED BY <1>9, <4>2
    <3> QED BY <1>7, <2>2, <3>3 DEF Coalesced
  <2>6. Spliced(s, i - 1, hi, <<Coalesced(s, i - 1, hi)>>, t)
    <3>1. Spliced(v, i - 1, i, <<Coalesced(s, i - 1, hi)>>, t)
      BY <2>3, <2>5
    <3> QED BY <1>1, <1>6, <2>1, <2>4, <3>1, SplicedTwice
  <2>7. \A k \in i - 1 .. hi : k # i => ~s[k].used
    <3>1. \A k \in i - 1 .. hi : k = i - 1 \/ k \in i .. hi
      BY <1>1, <1>10
    <3> QED BY <1>6, <1>12, <3>1
  <2>8. i - 1 # 1 => s[i - 1 - 1].used
    <3>1. i - 1 # 1 => i - 1 - 1 \in 1 .. n - 1 /\ i - 1 - 1 + 1 = i - 1
      BY <1>1, <2>1
    <3> QED BY <1>5, <1>12, <3>1 DEF Follows
  <2>9. i - 1 >= i - 1 /\ hi \in i .. n
    BY <1>1
  <2>10. FreedInto(s, i, i - 1, hi, t)
    BY <1>6, <2>1, <2>6, <2>7, <2>8, <2>9 DEF FreedInto
  <2> QED BY <1>10, <2>1, <2>10
<1> QED BY <1>11, <1>12

\* A free gives back the block, and nothing of the others.
LEMMA FreedEffect ==
    ASSUME NEW s, Whole(s), NEW i \in 1 .. Len(s), s[i].used, NEW t, t = Freed(s, i)
    PROVE  /\ Whole(t)
           /\ UsedUnits(t) = UsedUnits(s) - s[i].size - HeaderUnits
           /\ UsedAddresses(t) = UsedAddresses(s) \ {s[i].at}
<1>1. PICK lo \in 1 .. Len(s), hi \in 1 .. Len(s) : FreedInto(s, i, lo, hi, t)
  BY FreedCoalesces
<1>2. /\ lo \in 1 .. i /\ hi \in i .. Len(s) /\ lo >= i - 1 /\ hi <= i + 1
      /\ \A k \in lo .. hi : k # i => ~s[k].used
      /\ lo # 1 => s[lo - 1].used
      /\ hi # Len(s) => s[hi + 1].used
      /\ Spliced(s, lo, hi, <<Coalesced(s, lo, hi)>>, t)
  BY <1>1 DEF FreedInto
<1>3. /\ s \in Seq(Blocks) /\ Len(s) \in Nat /\ i \in Nat /\ lo \in Nat /\ hi \in Nat
      /\ hi \in lo .. Len(s) /\ hi <= lo + 2 /\ i \in lo .. hi
  BY <1>2 DEF Whole
<1> DEFINE b == Coalesced(s, lo, hi)
           m == <<b>>
<1>4. b \in Blocks /\ b.size > 0 /\ BlockEnd(b) = BlockEnd(s[hi]) /\ b.at = s[lo].at /\ ~b.used
  <2>1. b.at = s[lo].at /\ ~b.used
    BY DEF Coalesced, FreeBlock
  <2> QED BY <1>3, <2>1, EndsAre
<1>5. m \in Seq(Blocks) /\ Len(m) = 1 /\ m[1] = b /\ UsedUnits(m) = 0 /\ DOMAIN m = 1 .. 1
  <2>1. UsedUnits(m) = Takes(b) /\ m \in Seq(Blocks)
    BY <1>4, OneTakes
  <2>2. Takes(b) = 0
    BY <1>4 DEF Takes
  <2> HIDE DEF b
  <2> QED BY <2>1, <2>2
<1> HIDE DEF b, m
<1>6. Spliced(s, lo, hi, m, t)
  BY <1>2 DEF b, m
<1>7. Whole(t)
  <2>1. IF lo = 1 THEN m[1].at = 0 ELSE Follows(s[lo - 1], m[1])
    <3>1. CASE lo = 1
      BY <1>3, <1>4, <1>5, <3>1, WholeIs
    <3>2. CASE lo # 1
      <4>1. lo - 1 \in 1 .. Len(s) - 1 /\ lo - 1 + 1 = lo
        BY <1>3, <3>2
      <4>2. Follows(s[lo - 1], s[lo])
        BY <1>3, <4>1, WholeIs
      <4> QED BY <1>2, <1>4, <1>5, <3>2, <4>2 DEF Follows
    <3> QED BY <3>1, <3>2
  <2>2. IF hi = Len(s) THEN BlockEnd(m[1]) = HeapUnits ELSE Follows(m[1], s[hi + 1])
    <3>1. CASE hi = Len(s)
      BY <1>3, <1>4, <1>5, <3>1, WholeIs
    <3>2. CASE hi # Len(s)
      <4>1. hi \in 1 .. Len(s) - 1
        BY <1>3, <3>2
      <4>2. Follows(s[hi], s[hi + 1])
        BY <1>3, <4>1, WholeIs
      <4> QED BY <1>2, <1>4, <1>5, <3>2, <4>2 DEF Follows
    <3> QED BY <3>1, <3>2
  <2>3. FitsIn(s, lo, hi, m)
    <3>1. \A k \in 1 .. 1 : k = 1
      OBVIOUS
    <3>2. 1 .. 1 - 1 = {}
      OBVIOUS
    <3> QED BY <1>4, <1>5, <2>1, <2>2, <3>1, <3>2 DEF FitsIn
  <2> QED BY <1>3, <1>5, <1>6, <2>3, SplicedWhole
<1>8. UsedUnits(t) = UsedUnits(s) - s[i].size - HeaderUnits
  <2>1. UsedUnits(t) = UsedUnits(s) + UsedUnits(m) - (Sums(s)[hi] - Sums(s)[lo - 1])
    BY <1>3, <1>5, <1>6, SplicedUnits
  <2>2. Sums(s)[i] = Sums(s)[i - 1] + Takes(s[i]) /\ Sums(s)[i - 1] \in Nat /\ Sums(s)[i] \in Nat
    BY <1>3, BlockIs
  <2>3. Takes(s[i]) = s[i].size + HeaderUnits /\ s[i].size \in Nat /\ HeaderUnits \in Nat
    <3>1. s[i].size \in Nat /\ HeaderUnits \in Nat
      BY <1>3, BlockIs
    <3> QED BY <3>1 DEF Takes
  <2>4. Sums(s)[lo - 1] = Sums(s)[i - 1]
    <3>1. CASE lo = i
      BY <3>1
    <3>2. CASE lo # i
      <4>1. lo = i - 1 /\ lo \in lo .. hi
        BY <1>2, <1>3, <3>2
      <4>2. Sums(s)[lo] = Sums(s)[lo - 1] + Takes(s[lo]) /\ Sums(s)[lo - 1] \in Nat
        BY <1>3, BlockIs
      <4>3. Takes(s[lo]) = 0
        BY <1>2, <3>2, <4>1 DEF Takes
      <4> QED BY <4>1, <4>2, <4>3
    <3> QED BY <3>1, <3>2
  <2>5. Sums(s)[hi] = Sums(s)[i]
    <3>1. CASE hi = i
      BY <3>1
    <3>2. CASE hi # i
      <4>1. hi - 1 = i /\ hi \in lo .. hi
        BY <1>2, <1>3, <3>2
      <4>2. Sums(s)[hi] = Sums(s)[hi - 1] + Takes(s[hi]) /\ Sums(s)[hi - 1] \in Nat
        BY <1>3, BlockIs
      <4>3. Takes(s[hi]) = 0
        BY <1>2, <3>2, <4>1 DEF Takes
      <4> QED BY <4>1, <4>2, <4>3
    <3> QED BY <3>1, <3>2
  <2>6. UsedUnits(s) \in Nat
    BY <1>3, SumsAre DEF SumsTo
  <2> DEFINE x == s[i].size
             y == Sums(s)[i - 1]
             z == UsedUnits(s)
  <2>7. UsedUnits(t) = z + 0 - (y + (x + HeaderUnits) - y) /\ x \in Nat /\ y \in Nat /\ z \in Nat
    BY <1>5, <2>1, <2>2, <2>3, <2>4, <2>5, <2>6
  <2> HIDE DEF x, y, z
  <2>8. UsedUnits(t) = z - x - HeaderUnits
    BY <2>3, <2>7
  <2> QED BY <2>8 DEF x, z
<1>9. UsedAddresses(t) = UsedAddresses(s) \ {s[i].at}
  <2>1. UsedAddresses(t) =
             {s[k].at : k \in {k \in 1 .. Len(s) : s[k].used /\ k \notin lo .. hi}}
               \union UsedAddresses(m)
    BY <1>3, <1>5, <1>6, SplicedAddresses
  <2>2. UsedAddresses(m) = {}
    <3>1. \A k \in 1 .. 1 : k = 1
      OBVIOUS
    <3> QED BY <1>4, <1>5, <3>1 DEF UsedAddresses, UsedBlocks
  <2>3. {k \in 1 .. Len(s) : s[k].used /\ k \notin lo .. hi} = UsedBlocks(s) \ {i}
    <3>1. DOMAIN s = 1 .. Len(s)
      BY <1>3
    <3> QED BY <1>2, <1>3, <3>1 DEF UsedBlocks
  <2>4. \A k \in UsedBlocks(s) : s[k].at = s[i].at => k = i
    <3>1. DOMAIN s = 1 .. Len(s)
      BY <1>3
    <3> QED BY <3>1, OneAddress DEF UsedBlocks
  <2> QED BY <2>1, <2>2, <2>3, <2>4 DEF UsedAddresses
<1> QED BY <1>7, <1>8, <1>9

\* The block at an address that is in use.
LEMMA BlockAtIs ==
    ASSUME NEW s, Whole(s), NEW a \in UsedAddresses(s)
    PROVE  LET i == BlockAt(s, a) IN i \in 1 .. Len(s) /\ s[i].used /\ s[i].at = a
<1>1. PICK j \in DOMAIN s : s[j].used /\ s[j].at = a
  BY DEF UsedAddresses, UsedBlocks
<1>2. BlockAt(s, a) \in DOMAIN s /\ s[BlockAt(s, a)].at = a
  BY <1>1 DEF BlockAt
<1>3. DOMAIN s = 1 .. Len(s)
  BY DEF Whole
<1>4. BlockAt(s, a) = j
  BY <1>1, <1>2, <1>3, OneAddress
<1> QED BY <1>1, <1>2, <1>3, <1>4

\* Among the blocks that fit, there is a best.
LEMMA BestFitIs ==
    ASSUME NEW s \in Seq(Blocks), NEW units, Fits(s, units) # {}
    PROVE  LET i == BestFit(s, units) IN i \in 1 .. Len(s) /\ ~s[i].used /\ s[i].size >= units
<1>1. \A k \in Fits(s, units) : k \in 1 .. Len(s) /\ k \in Nat /\ s[k].size \in Nat
  BY BlockIs DEF Fits
<1> DEFINE sizes == {s[k].size : k \in Fits(s, units)}
<1>2. PICK n \in sizes : \A l \in sizes : n <= l
  <2>1. sizes \in SUBSET Nat /\ sizes # {}
    BY <1>1
  <2> HIDE DEF sizes
  <2> QED BY <2>1, LeastIsIn
<1> DEFINE smallest == {k \in Fits(s, units) : s[k].size = n}
<1>3. PICK i \in smallest : \A l \in smallest : i <= l
  <2>1. smallest \in SUBSET Nat /\ smallest # {}
    BY <1>1, <1>2
  <2> HIDE DEF smallest
  <2> QED BY <2>1, LeastIsIn
<1>4. ASSUME NEW j \in Fits(s, units)
      PROVE  \/ s[i].size < s[j].size
             \/ s[i].size = s[j].size /\ i <= j
  <2>1. s[i].size = n /\ n <= s[j].size
    BY <1>2, <1>3
  <2>2. s[j].size = n => i <= j
    BY <1>3
  <2> QED BY <1>1, <1>2, <2>1, <2>2
<1>5. i \in Fits(s, units)
  BY <1>3
<1>6. BestFit(s, units) \in Fits(s, units)
  BY <1>4, <1>5 DEF BestFit
<1> QED BY <1>1, <1>6 DEF Fits

LEMMA UnitsPositive ==
    ASSUME NEW bytes \in Nat
    PROVE  UnitsFor(bytes) \in Nat \ {0}
<1> DEFINE n == IF bytes = 0 THEN 1 ELSE bytes
<1>1. n \in Nat /\ n >= 1
  OBVIOUS
<1> HIDE DEF n
<1>2. (n + 4 + 7) \div 8 \in Nat \ {0}
  BY <1>1
<1> QED BY <1>2 DEF UnitsFor, n

-----------------------------------------------------------------------------
(* Who owns the blocks.                                                    *)

InHands(hand) == UNION {{OfCall(c, n) : n \in Present(hand[c])} : c \in Clients}

InObjects(objects) ==
    UNION {UNION {{OfObject(k, i, n) : n \in DOMAIN objects[k][i]} : i \in Slots(k)} :
             k \in Kinds}

\* The holdings and what they hold, of a set of addresses of the application,
\* the addresses of the pages, the blocks in the hands of the calls and the
\* blocks of the objects.
HoldingsOf(m, p, hand, objects) ==
    {OfApplication(a) : a \in m} \union {OfPage(k) : k \in {k \in Kinds : p[k] # Null}}
    \union InHands(hand) \union InObjects(objects)

Held(m, p, hand, objects) ==
    [h \in HoldingsOf(m, p, hand, objects) |->
        CASE h[1] = "application" -> h[2]
          [] h[1] = "page" -> p[h[2]]
          [] h[1] = "call" -> hand[h[2]][h[3]]
          [] h[1] = "object" -> objects[h[2][1]][h[2][2]][h[3]]]

\* Every address of U is held once, and nothing else is.
Exactly(f, U) ==
    /\ {f[h] : h \in DOMAIN f} = U
    /\ \A g, h \in DOMAIN f : f[g] = f[h] => g = h

\* How f and g compare.
Gains(f, g, x) ==
    x \notin DOMAIN f /\ DOMAIN g = DOMAIN f \union {x} /\ \A h \in DOMAIN f : g[h] = f[h]

LEMMA GainExact ==
    ASSUME NEW f, NEW g, NEW U, NEW x, Exactly(f, U), Gains(f, g, x), g[x] \notin U
    PROVE  Exactly(g, U \union {g[x]})
<1>1. \A h \in DOMAIN f : f[h] \in U
  BY DEF Exactly
<1>2. {g[h] : h \in DOMAIN g} = U \union {g[x]}
  BY DEF Exactly, Gains
<1>3. ASSUME NEW h \in DOMAIN g, NEW k \in DOMAIN g, g[h] = g[k] PROVE h = k
  BY <1>1, <1>3 DEF Exactly, Gains
<1> QED BY <1>2, <1>3 DEF Exactly

LEMMA LoseExact ==
    ASSUME NEW f, NEW g, NEW U, NEW x, Exactly(g, U), Gains(f, g, x)
    PROVE  Exactly(f, U \ {g[x]}) /\ g[x] \in U
<1>1. g[x] \in U /\ x \in DOMAIN g
  BY DEF Exactly, Gains
<1>2. \A h \in DOMAIN f : h \in DOMAIN g /\ h # x /\ f[h] = g[h]
  BY DEF Gains
<1>3. {f[h] : h \in DOMAIN f} \subseteq U \ {g[x]}
  BY <1>1, <1>2 DEF Exactly
<1>4. ASSUME NEW a \in U, a # g[x] PROVE \E h \in DOMAIN f : a = f[h]
  <2>1. PICK h \in DOMAIN g : a = g[h]
    BY DEF Exactly
  <2>2. h \in DOMAIN f
    BY <1>4, <2>1 DEF Gains
  <2> QED BY <1>2, <2>1, <2>2
<1>5. U \ {g[x]} \subseteq {f[h] : h \in DOMAIN f}
  BY <1>4
<1>6. \A h, k \in DOMAIN f : f[h] = f[k] => h = k
  BY <1>2 DEF Exactly
<1> QED BY <1>1, <1>3, <1>5, <1>6 DEF Exactly

\* The holdings of X become those of Y, one for one.
Moves(f, g, X, Y, to) ==
    /\ X \subseteq DOMAIN f /\ DOMAIN g = (DOMAIN f \ X) \union Y
    /\ Y \cap (DOMAIN f \ X) = {}
    /\ \A h \in DOMAIN f \ X : g[h] = f[h]
    /\ \A h \in X : to[h] \in Y /\ g[to[h]] = f[h]
    /\ \A y \in Y : \E h \in X : y = to[h]
    /\ \A h, k \in X : to[h] = to[k] => h = k

LEMMA MoveExact ==
    ASSUME NEW f, NEW g, NEW U, NEW X, NEW Y, NEW to, Exactly(f, U), Moves(f, g, X, Y, to)
    PROVE  Exactly(g, U)
<1>1. ASSUME NEW h \in DOMAIN g
      PROVE  \E k \in DOMAIN f : g[h] = f[k] /\ (IF k \in X THEN h = to[k] ELSE h = k)
  <2>1. CASE h \in DOMAIN f \ X
    BY <2>1 DEF Moves
  <2>2. CASE h \in Y
    <3>1. PICK k \in X : h = to[k]
      BY <2>2 DEF Moves
    <3> QED BY <3>1 DEF Moves
  <2> QED BY <2>1, <2>2 DEF Moves
<1>2. ASSUME NEW k \in DOMAIN f PROVE \E h \in DOMAIN g : g[h] = f[k]
  <2>1. CASE k \in X
    BY <2>1 DEF Moves
  <2>2. CASE k \notin X
    BY <2>2 DEF Moves
  <2> QED BY <2>1, <2>2
<1>3. {g[h] : h \in DOMAIN g} = {f[h] : h \in DOMAIN f}
  BY <1>1, <1>2
<1>4. ASSUME NEW h \in DOMAIN g, NEW l \in DOMAIN g, g[h] = g[l] PROVE h = l
  <2>1. PICK k \in DOMAIN f : g[h] = f[k] /\ (IF k \in X THEN h = to[k] ELSE h = k)
    BY <1>1
  <2>2. PICK j \in DOMAIN f : g[l] = f[j] /\ (IF j \in X THEN l = to[j] ELSE l = j)
    BY <1>1
  <2>3. k = j
    BY <1>4, <2>1, <2>2 DEF Exactly
  <2> QED BY <2>1, <2>2, <2>3
<1> QED BY <1>3, <1>4 DEF Exactly

-----------------------------------------------------------------------------

LEMMA MoveBackExact ==
    ASSUME NEW f, NEW g, NEW U, NEW X, NEW Y, NEW to, Exactly(g, U), Moves(f, g, X, Y, to)
    PROVE  Exactly(f, U)
<1> DEFINE back == [y \in Y |-> CHOOSE h \in X : y = to[h]]
<1>1. ASSUME NEW y \in Y PROVE back[y] \in X /\ y = to[back[y]]
  BY DEF Moves
<1> HIDE DEF back
<1>2. Y \subseteq DOMAIN g
  BY DEF Moves
<1>3. DOMAIN g \ Y = DOMAIN f \ X
  BY DEF Moves
<1>4. DOMAIN f = (DOMAIN g \ Y) \union X /\ X \cap (DOMAIN g \ Y) = {}
  BY <1>3 DEF Moves
<1>5. ASSUME NEW h \in DOMAIN g \ Y PROVE f[h] = g[h]
  BY <1>3 DEF Moves
<1>6. ASSUME NEW y \in Y PROVE back[y] \in X /\ f[back[y]] = g[y]
  BY <1>1 DEF Moves
<1>7. ASSUME NEW x \in X PROVE \E y \in Y : x = back[y]
  BY <1>1 DEF Moves
<1>8. \A y, z \in Y : back[y] = back[z] => y = z
  BY <1>1
<1>9. Moves(g, f, Y, X, back)
  BY <1>2, <1>4, <1>5, <1>6, <1>7, <1>8 DEF Moves
<1> QED BY <1>9, MoveExact

LEMMA OwnersDiffer ==
    ASSUME NEW a, NEW b, NEW k, NEW l, NEW c, NEW d, NEW i, NEW j, NEW n, NEW q
    PROVE  /\ OfApplication(a) = OfApplication(b) <=> a = b
           /\ OfPage(k) = OfPage(l) <=> k = l
           /\ OfCall(c, n) = OfCall(d, q) <=> c = d /\ n = q
           /\ OfObject(k, i, n) = OfObject(l, j, q) <=> k = l /\ i = j /\ n = q
           /\ OfApplication(a) # OfPage(k) /\ OfApplication(a) # OfCall(c, n)
           /\ OfApplication(a) # OfObject(k, i, n) /\ OfPage(k) # OfCall(c, n)
           /\ OfPage(k) # OfObject(l, i, n) /\ OfCall(c, n) # OfObject(k, i, q)
BY DEF OfApplication, OfPage, OfCall, OfObject

LEMMA InHandsIs ==
    ASSUME NEW hand, NEW h
    PROVE  h \in InHands(hand)
             <=> \E c \in Clients : \E n \in Present(hand[c]) : h = OfCall(c, n)
<1> DEFINE Of(c) == {OfCall(c, n) : n \in Present(hand[c])}
<1>1. InHands(hand) = UNION {Of(c) : c \in Clients}
  BY DEF InHands
<1>2. \A c : h \in Of(c) <=> \E n \in Present(hand[c]) : h = OfCall(c, n)
  OBVIOUS
<1> HIDE DEF Of
<1>3. h \in UNION {Of(c) : c \in Clients} <=> \E c \in Clients : h \in Of(c)
  OBVIOUS
<1> QED BY <1>1, <1>2, <1>3

LEMMA InObjectsIs ==
    ASSUME NEW objects, NEW h
    PROVE  h \in InObjects(objects)
             <=> \E k \in Kinds : \E i \in Slots(k) : \E n \in DOMAIN objects[k][i] :
                    h = OfObject(k, i, n)
<1> DEFINE At(k, i) == {OfObject(k, i, n) : n \in DOMAIN objects[k][i]}
           Of(k) == UNION {At(k, i) : i \in Slots(k)}
<1>1. InObjects(objects) = UNION {Of(k) : k \in Kinds}
  BY DEF InObjects
<1>2. \A k, i : h \in At(k, i) <=> \E n \in DOMAIN objects[k][i] : h = OfObject(k, i, n)
  OBVIOUS
<1> HIDE DEF At
<1>3. ASSUME NEW k PROVE h \in Of(k) <=> \E i \in Slots(k) : h \in At(k, i)
  OBVIOUS
<1> HIDE DEF Of
<1>4. h \in UNION {Of(k) : k \in Kinds} <=> \E k \in Kinds : h \in Of(k)
  OBVIOUS
<1> QED BY <1>1, <1>2, <1>3, <1>4

LEMMA HeldIs ==
    ASSUME NEW m, NEW p, NEW hand, NEW objects, NEW f, f = Held(m, p, hand, objects)
    PROVE  /\ \A a : OfApplication(a) \in DOMAIN f <=> a \in m
           /\ \A k : OfPage(k) \in DOMAIN f <=> k \in Kinds /\ p[k] # Null
           /\ \A c, n : OfCall(c, n) \in DOMAIN f <=> c \in Clients /\ n \in Present(hand[c])
           /\ \A k, i, n : OfObject(k, i, n) \in DOMAIN f
                             <=> k \in Kinds /\ i \in Slots(k) /\ n \in DOMAIN objects[k][i]
           /\ \A a \in m : f[OfApplication(a)] = a
           /\ \A k \in Kinds : p[k] # Null => f[OfPage(k)] = p[k]
           /\ \A c \in Clients : \A n \in Present(hand[c]) : f[OfCall(c, n)] = hand[c][n]
           /\ \A k \in Kinds : \A i \in Slots(k) : \A n \in DOMAIN objects[k][i] :
                  f[OfObject(k, i, n)] = objects[k][i][n]
           /\ \A h \in DOMAIN f :
                  \/ \E a \in m : h = OfApplication(a)
                  \/ \E k \in Kinds : p[k] # Null /\ h = OfPage(k)
                  \/ \E c \in Clients : \E n \in Present(hand[c]) : h = OfCall(c, n)
                  \/ \E k \in Kinds : \E i \in Slots(k) : \E n \in DOMAIN objects[k][i] :
                        h = OfObject(k, i, n)
<1> DEFINE D == HoldingsOf(m, p, hand, objects)
<1>1. DOMAIN f = D
  BY DEF Held
<1>2. \A h \in D :
           \/ \E a \in m : h = OfApplication(a)
           \/ \E k \in Kinds : p[k] # Null /\ h = OfPage(k)
           \/ \E c \in Clients : \E n \in Present(hand[c]) : h = OfCall(c, n)
           \/ \E k \in Kinds : \E i \in Slots(k) : \E n \in DOMAIN objects[k][i] :
                 h = OfObject(k, i, n)
  <2>1. ASSUME NEW h \in D
        PROVE  \/ h \in {OfApplication(a) : a \in m}
               \/ h \in {OfPage(k) : k \in {k \in Kinds : p[k] # Null}}
               \/ h \in InHands(hand) \/ h \in InObjects(objects)
    BY DEF HoldingsOf
  <2> QED BY <2>1, InHandsIs, InObjectsIs
<1> HIDE DEF D
<1>3. ASSUME NEW a PROVE OfApplication(a) \in D <=> a \in m
  <2>1. a \in m => OfApplication(a) \in D
    BY DEF HoldingsOf, D
  <2> QED BY <1>2, <2>1, OwnersDiffer
<1>4. ASSUME NEW k PROVE OfPage(k) \in D <=> k \in Kinds /\ p[k] # Null
  <2>1. k \in Kinds /\ p[k] # Null => OfPage(k) \in D
    BY DEF HoldingsOf, D
  <2> QED BY <1>2, <2>1, OwnersDiffer
<1>5. ASSUME NEW c, NEW n PROVE OfCall(c, n) \in D <=> c \in Clients /\ n \in Present(hand[c])
  <2>1. c \in Clients /\ n \in Present(hand[c]) => OfCall(c, n) \in D
    BY InHandsIs DEF HoldingsOf, D
  <2> QED BY <1>2, <2>1, OwnersDiffer
<1>6. ASSUME NEW k, NEW i, NEW n
      PROVE  OfObject(k, i, n) \in D <=> k \in Kinds /\ i \in Slots(k) /\ n \in DOMAIN objects[k][i]
  <2>1. k \in Kinds /\ i \in Slots(k) /\ n \in DOMAIN objects[k][i] => OfObject(k, i, n) \in D
    BY InObjectsIs DEF HoldingsOf, D
  <2>2. ASSUME OfObject(k, i, n) \in D
        PROVE  k \in Kinds /\ i \in Slots(k) /\ n \in DOMAIN objects[k][i]
    <3>1. PICK l \in Kinds : \E j \in Slots(l) : \E q \in DOMAIN objects[l][j] :
               OfObject(k, i, n) = OfObject(l, j, q)
      <4> DEFINE o == OfObject(k, i, n)
      <4>1. /\ \A a : o # OfApplication(a)
            /\ \A l : o # OfPage(l)
            /\ \A c, q : o # OfCall(c, q)
        BY OwnersDiffer
      <4>2. o \in D
        BY <2>2
      <4> HIDE DEF o
      <4>3. \E l \in Kinds : \E j \in Slots(l) : \E q \in DOMAIN objects[l][j] : o = OfObject(l, j, q)
        BY <1>2, <4>1, <4>2
      <4> QED BY <4>3 DEF o
    <3>2. PICK j \in Slots(l) : \E q \in DOMAIN objects[l][j] :
               OfObject(k, i, n) = OfObject(l, j, q)
      BY <3>1
    <3>3. PICK q \in DOMAIN objects[l][j] : OfObject(k, i, n) = OfObject(l, j, q)
      BY <3>2
    <3>4. k = l /\ i = j /\ n = q
      BY <3>3, OwnersDiffer
    <3> QED BY <3>4
  <2> QED BY <2>1, <2>2
<1>7. ASSUME NEW h \in D
      PROVE  f[h] = CASE h[1] = "application" -> h[2]
                      [] h[1] = "page" -> p[h[2]]
                      [] h[1] = "call" -> hand[h[2]][h[3]]
                      [] h[1] = "object" -> objects[h[2][1]][h[2][2]][h[3]]
  BY DEF Held, D
<1>8. ASSUME NEW a \in m PROVE f[OfApplication(a)] = a
  <2> DEFINE h == OfApplication(a)
  <2>1. h \in D /\ h[1] = "application" /\ h[2] = a
    BY <1>3 DEF OfApplication
  <2> HIDE DEF h
  <2>2. f[h] = a
    BY <1>7, <2>1
  <2> QED BY <2>2 DEF h
<1>9. ASSUME NEW k \in Kinds, p[k] # Null PROVE f[OfPage(k)] = p[k]
  <2> DEFINE h == OfPage(k)
  <2>1. h \in D /\ h[1] = "page" /\ h[2] = k
    BY <1>4, <1>9 DEF OfPage
  <2> HIDE DEF h
  <2>2. f[h] = p[k]
    BY <1>7, <2>1
  <2> QED BY <2>2 DEF h
<1>10. ASSUME NEW c \in Clients, NEW n \in Present(hand[c]) PROVE f[OfCall(c, n)] = hand[c][n]
  <2> DEFINE h == OfCall(c, n)
  <2>1. h \in D /\ h[1] = "call" /\ h[2] = c /\ h[3] = n
    BY <1>5 DEF OfCall
  <2> HIDE DEF h
  <2>2. f[h] = hand[c][n]
    BY <1>7, <2>1
  <2> QED BY <2>2 DEF h
<1>11. ASSUME NEW k \in Kinds, NEW i \in Slots(k), NEW n \in DOMAIN objects[k][i]
       PROVE  f[OfObject(k, i, n)] = objects[k][i][n]
  <2> DEFINE h == OfObject(k, i, n)
  <2>1. h \in D /\ h[1] = "object" /\ h[2][1] = k /\ h[2][2] = i /\ h[3] = n
    BY <1>6 DEF OfObject
  <2> HIDE DEF h
  <2>2. f[h] = objects[k][i][n]
    BY <1>7, <2>1
  <2> QED BY <2>2 DEF h
<1> QED BY <1>1, <1>2, <1>3, <1>4, <1>5, <1>6, <1>8, <1>9, <1>10, <1>11

\* The application gets a block, or gives one up.
LEMMA ApplicationGains ==
    ASSUME NEW m, NEW p, NEW hand, NEW objects, NEW a, a \notin m,
           NEW f, f = Held(m, p, hand, objects), NEW g, g = Held(m \union {a}, p, hand, objects)
    PROVE  Gains(f, g, OfApplication(a)) /\ g[OfApplication(a)] = a
<1> DEFINE x == OfApplication(a)
           m2 == m \union {a}
<1> HIDE DEF m2
<1>0. g = Held(m2, p, hand, objects) /\ \A b : b \in m2 <=> b \in m \/ b = a
  BY DEF m2
<1>1. x \notin DOMAIN f
  BY HeldIs
<1>2. ASSUME NEW h \in DOMAIN f PROVE h \in DOMAIN g /\ g[h] = f[h]
  <2>1. CASE \E b \in m : h = OfApplication(b)
    BY <1>0, <2>1, HeldIs
  <2>2. CASE \E k \in Kinds : p[k] # Null /\ h = OfPage(k)
    BY <1>0, <2>2, HeldIs
  <2>3. CASE \E c \in Clients : \E n \in Present(hand[c]) : h = OfCall(c, n)
    BY <1>0, <2>3, HeldIs
  <2>4. CASE \E k \in Kinds : \E i \in Slots(k) : \E n \in DOMAIN objects[k][i] : h = OfObject(k, i, n)
    BY <1>0, <2>4, HeldIs
  <2> QED BY <2>1, <2>2, <2>3, <2>4, HeldIs
<1>3. ASSUME NEW h \in DOMAIN g, h # x PROVE h \in DOMAIN f
  <2>1. CASE \E b \in m2 : h = OfApplication(b)
    BY <1>0, <1>3, <2>1, HeldIs
  <2>2. CASE \E k \in Kinds : p[k] # Null /\ h = OfPage(k)
    BY <2>2, HeldIs
  <2>3. CASE \E c \in Clients : \E n \in Present(hand[c]) : h = OfCall(c, n)
    BY <2>3, HeldIs
  <2>4. CASE \E k \in Kinds : \E i \in Slots(k) : \E n \in DOMAIN objects[k][i] : h = OfObject(k, i, n)
    BY <2>4, HeldIs
  <2> QED BY <1>0, <2>1, <2>2, <2>3, <2>4, HeldIs
<1>4. x \in DOMAIN g /\ g[x] = a
  BY <1>0, HeldIs
<1> QED BY <1>1, <1>2, <1>3, <1>4 DEF Gains

\* A page gets its block.
LEMMA PageGains ==
    ASSUME NEW m, NEW p, NEW q, NEW hand, NEW objects, NEW k \in Kinds,
           p[k] = Null, q[k] # Null, \A l \in Kinds : l # k => q[l] = p[l],
           NEW f, f = Held(m, p, hand, objects), NEW g, g = Held(m, q, hand, objects)
    PROVE  Gains(f, g, OfPage(k)) /\ g[OfPage(k)] = q[k]
<1> DEFINE x == OfPage(k)
<1>1. x \notin DOMAIN f
  BY HeldIs
<1>2. ASSUME NEW h \in DOMAIN f PROVE h \in DOMAIN g /\ g[h] = f[h]
  <2>1. CASE \E b \in m : h = OfApplication(b)
    BY <2>1, HeldIs
  <2>2. CASE \E l \in Kinds : p[l] # Null /\ h = OfPage(l)
    <3>1. PICK l \in Kinds : p[l] # Null /\ h = OfPage(l)
      BY <2>2
    <3>2. l # k /\ q[l] = p[l]
      BY <3>1
    <3> QED BY <3>1, <3>2, HeldIs
  <2>3. CASE \E c \in Clients : \E n \in Present(hand[c]) : h = OfCall(c, n)
    BY <2>3, HeldIs
  <2>4. CASE \E l \in Kinds : \E i \in Slots(l) : \E n \in DOMAIN objects[l][i] : h = OfObject(l, i, n)
    BY <2>4, HeldIs
  <2> QED BY <2>1, <2>2, <2>3, <2>4, HeldIs
<1>3. ASSUME NEW h \in DOMAIN g, h # x PROVE h \in DOMAIN f
  <2>1. CASE \E b \in m : h = OfApplication(b)
    BY <2>1, HeldIs
  <2>2. CASE \E l \in Kinds : q[l] # Null /\ h = OfPage(l)
    <3>1. PICK l \in Kinds : q[l] # Null /\ h = OfPage(l)
      BY <2>2
    <3>2. p[l] # Null
      BY <1>3, <3>1
    <3> QED BY <3>1, <3>2, HeldIs
  <2>3. CASE \E c \in Clients : \E n \in Present(hand[c]) : h = OfCall(c, n)
    BY <2>3, HeldIs
  <2>4. CASE \E l \in Kinds : \E i \in Slots(l) : \E n \in DOMAIN objects[l][i] : h = OfObject(l, i, n)
    BY <2>4, HeldIs
  <2> QED BY <2>1, <2>2, <2>3, <2>4, HeldIs
<1>4. x \in DOMAIN g /\ g[x] = q[k]
  BY HeldIs
<1> QED BY <1>1, <1>2, <1>3, <1>4 DEF Gains

\* hand and take differ at the call of c, and take has the block n as well.
TakesOne(hand, take, c, n) ==
    /\ \A d \in Clients : d # c => take[d] = hand[d]
    /\ n \notin Present(hand[c]) /\ Present(take[c]) = Present(hand[c]) \union {n}
    /\ \A q \in Present(hand[c]) : take[c][q] = hand[c][q]

LEMMA CallGains ==
    ASSUME NEW m, NEW p, NEW hand, NEW take, NEW objects, NEW c \in Clients, NEW n,
           TakesOne(hand, take, c, n),
           NEW f, f = Held(m, p, hand, objects), NEW g, g = Held(m, p, take, objects)
    PROVE  Gains(f, g, OfCall(c, n)) /\ g[OfCall(c, n)] = take[c][n]
<1> DEFINE x == OfCall(c, n)
<1>0. /\ \A d \in Clients : d # c => take[d] = hand[d]
      /\ n \notin Present(hand[c]) /\ n \in Present(take[c])
      /\ \A q : q \in Present(take[c]) <=> q \in Present(hand[c]) \/ q = n
      /\ \A q \in Present(hand[c]) : take[c][q] = hand[c][q]
  BY DEF TakesOne
<1>1. x \notin DOMAIN f
  BY <1>0, HeldIs
<1>2. ASSUME NEW h \in DOMAIN f PROVE h \in DOMAIN g /\ g[h] = f[h]
  <2>1. CASE \E b \in m : h = OfApplication(b)
    BY <2>1, HeldIs
  <2>2. CASE \E l \in Kinds : p[l] # Null /\ h = OfPage(l)
    BY <2>2, HeldIs
  <2>3. CASE \E d \in Clients : \E q \in Present(hand[d]) : h = OfCall(d, q)
    <3>1. PICK d \in Clients : \E q \in Present(hand[d]) : h = OfCall(d, q)
      BY <2>3
    <3>2. PICK q \in Present(hand[d]) : h = OfCall(d, q)
      BY <3>1
    <3>3. q \in Present(take[d]) /\ take[d][q] = hand[d][q]
      BY <1>0
    <3> QED BY <3>2, <3>3, HeldIs
  <2>4. CASE \E l \in Kinds : \E i \in Slots(l) : \E q \in DOMAIN objects[l][i] : h = OfObject(l, i, q)
    BY <2>4, HeldIs
  <2> QED BY <2>1, <2>2, <2>3, <2>4, HeldIs
<1>3. ASSUME NEW h \in DOMAIN g, h # x PROVE h \in DOMAIN f
  <2>1. CASE \E b \in m : h = OfApplication(b)
    BY <2>1, HeldIs
  <2>2. CASE \E l \in Kinds : p[l] # Null /\ h = OfPage(l)
    BY <2>2, HeldIs
  <2>3. CASE \E d \in Clients : \E q \in Present(take[d]) : h = OfCall(d, q)
    <3>1. PICK d \in Clients : \E q \in Present(take[d]) : h = OfCall(d, q)
      BY <2>3
    <3>2. PICK q \in Present(take[d]) : h = OfCall(d, q)
      BY <3>1
    <3>3. q \in Present(hand[d])
      BY <1>0, <1>3, <3>2
    <3> QED BY <3>2, <3>3, HeldIs
  <2>4. CASE \E l \in Kinds : \E i \in Slots(l) : \E q \in DOMAIN objects[l][i] : h = OfObject(l, i, q)
    BY <2>4, HeldIs
  <2> QED BY <2>1, <2>2, <2>3, <2>4, HeldIs
<1>4. x \in DOMAIN g /\ g[x] = take[c][n]
  BY <1>0, HeldIs
<1> QED BY <1>1, <1>2, <1>3, <1>4 DEF Gains

\* The calls hold the same, however they keep it.
SameHands(hand, take) ==
    \A c \in Clients : /\ Present(take[c]) = Present(hand[c])
                       /\ \A n \in Present(hand[c]) : take[c][n] = hand[c][n]

LEMMA HeldIsFunction ==
    ASSUME NEW m, NEW p, NEW hand, NEW objects
    PROVE  Held(m, p, hand, objects) =
             [h \in DOMAIN Held(m, p, hand, objects) |-> Held(m, p, hand, objects)[h]]
<1> DEFINE Block(h) == CASE h[1] = "application" -> h[2]
                         [] h[1] = "page" -> p[h[2]]
                         [] h[1] = "call" -> hand[h[2]][h[3]]
                         [] h[1] = "object" -> objects[h[2][1]][h[2][2]][h[3]]
           D == HoldingsOf(m, p, hand, objects)
<1>1. Held(m, p, hand, objects) = [h \in D |-> Block(h)]
  BY DEF Held
<1> HIDE DEF Block, D
<1> QED BY <1>1

LEMMA SameHeld ==
    ASSUME NEW m, NEW p, NEW hand, NEW take, NEW objects, SameHands(hand, take)
    PROVE  Held(m, p, take, objects) = Held(m, p, hand, objects)
<1> DEFINE f == Held(m, p, hand, objects)
           g == Held(m, p, take, objects)
<1>0. f = Held(m, p, hand, objects) /\ g = Held(m, p, take, objects)
  OBVIOUS
<1>1. f = [h \in DOMAIN f |-> f[h]] /\ g = [h \in DOMAIN g |-> g[h]]
  BY HeldIsFunction
<1> HIDE DEF f, g
<1>2. ASSUME NEW h \in DOMAIN f PROVE h \in DOMAIN g /\ g[h] = f[h]
  <2>1. CASE \E b \in m : h = OfApplication(b)
    BY <1>0, <2>1, HeldIs
  <2>2. CASE \E l \in Kinds : p[l] # Null /\ h = OfPage(l)
    BY <1>0, <2>2, HeldIs
  <2>3. CASE \E d \in Clients : \E q \in Present(hand[d]) : h = OfCall(d, q)
    BY <1>0, <2>3, HeldIs DEF SameHands
  <2>4. CASE \E l \in Kinds : \E i \in Slots(l) : \E q \in DOMAIN objects[l][i] : h = OfObject(l, i, q)
    BY <1>0, <2>4, HeldIs
  <2> QED BY <1>0, <2>1, <2>2, <2>3, <2>4, HeldIs
<1>3. ASSUME NEW h \in DOMAIN g PROVE h \in DOMAIN f
  <2>1. CASE \E b \in m : h = OfApplication(b)
    BY <1>0, <2>1, HeldIs
  <2>2. CASE \E l \in Kinds : p[l] # Null /\ h = OfPage(l)
    BY <1>0, <2>2, HeldIs
  <2>3. CASE \E d \in Clients : \E q \in Present(take[d]) : h = OfCall(d, q)
    BY <1>0, <2>3, HeldIs DEF SameHands
  <2>4. CASE \E l \in Kinds : \E i \in Slots(l) : \E q \in DOMAIN objects[l][i] : h = OfObject(l, i, q)
    BY <1>0, <2>4, HeldIs
  <2> QED BY <1>0, <2>1, <2>2, <2>3, <2>4, HeldIs
<1>4. DOMAIN f = DOMAIN g
  BY <1>2, <1>3
<1> QED BY <1>0, <1>1, <1>2, <1>4

\* What the call of c has in its hands, in hand and objects, are the blocks of
\* the object k, i, in take and owned.
Deposits(hand, objects, take, owned, c, k, i) ==
    /\ \A d \in Clients : d # c => take[d] = hand[d]
    /\ \A l \in Kinds : \A j \in Slots(l) : <<l, j>> # <<k, i>> => owned[l][j] = objects[l][j]
    /\ Present(take[c]) = {} /\ DOMAIN objects[k][i] = {}
    /\ DOMAIN owned[k][i] = Present(hand[c])
    /\ \A n \in Present(hand[c]) : owned[k][i][n] = hand[c][n]

LEMMA DepositMoves ==
    ASSUME NEW m, NEW p, NEW hand, NEW take, NEW objects, NEW owned,
           NEW c \in Clients, NEW k \in Kinds, NEW i \in Slots(k),
           Deposits(hand, objects, take, owned, c, k, i),
           NEW f, f = Held(m, p, hand, objects), NEW g, g = Held(m, p, take, owned)
    PROVE  \E X, Y, to : Moves(f, g, X, Y, to)
<1>0. /\ \A d \in Clients : d # c => take[d] = hand[d]
      /\ \A l \in Kinds : \A j \in Slots(l) : l # k \/ j # i => owned[l][j] = objects[l][j]
      /\ Present(take[c]) = {} /\ DOMAIN objects[k][i] = {}
      /\ DOMAIN owned[k][i] = Present(hand[c])
      /\ \A n \in Present(hand[c]) : owned[k][i][n] = hand[c][n]
  BY DEF Deposits
<1> DEFINE N == Present(hand[c])
           X == {OfCall(c, n) : n \in N}
           Y == {OfObject(k, i, n) : n \in N}
           to == [h \in X |-> OfObject(k, i, h[3])]
<1>1. ASSUME NEW n \in N PROVE OfCall(c, n) \in X /\ to[OfCall(c, n)] = OfObject(k, i, n)
  <2>1. OfCall(c, n) \in X /\ OfCall(c, n)[3] = n
    BY DEF OfCall
  <2> QED BY <2>1
<1>2. /\ \A h : h \in X <=> \E n \in N : h = OfCall(c, n)
      /\ \A h : h \in Y <=> \E n \in N : h = OfObject(k, i, n)
  OBVIOUS
<1> HIDE DEF X, Y, to
<1>d1. ASSUME NEW b PROVE OfApplication(b) \notin X /\ OfApplication(b) \notin Y
  BY <1>2, OwnersDiffer
<1>d2. ASSUME NEW l PROVE OfPage(l) \notin X /\ OfPage(l) \notin Y
  BY <1>2 DEF OfPage, OfCall, OfObject
<1>d3. ASSUME NEW d, NEW q PROVE OfCall(d, q) \notin Y /\ (d # c => OfCall(d, q) \notin X)
  BY <1>2 DEF OfCall, OfObject
<1>d4. ASSUME NEW l, NEW j, NEW q, OfObject(l, j, q) \in X \union Y
       PROVE  OfObject(l, j, q) \in Y /\ l = k /\ j = i
  <2> DEFINE o == OfObject(l, j, q)
  <2>1. \A n : o # OfCall(c, n)
    BY OwnersDiffer
  <2>2. \A n : o = OfObject(k, i, n) => l = k /\ j = i
    BY OwnersDiffer
  <2>3. o \in X \union Y
    BY <1>d4
  <2> HIDE DEF o
  <2>4. o \in Y /\ l = k /\ j = i
    BY <1>2, <2>1, <2>2, <2>3
  <2> QED BY <2>4 DEF o
<1>3. X \subseteq DOMAIN f
  BY <1>2, HeldIs
<1>4. ASSUME NEW h \in DOMAIN f, h \notin X PROVE h \in DOMAIN g /\ g[h] = f[h] /\ h \notin Y
  <2>1. CASE \E b \in m : h = OfApplication(b)
    BY <1>d1, <2>1, HeldIs
  <2>2. CASE \E l \in Kinds : p[l] # Null /\ h = OfPage(l)
    BY <1>d2, <2>2, HeldIs
  <2>3. CASE \E d \in Clients : \E q \in Present(hand[d]) : h = OfCall(d, q)
    <3>1. PICK d \in Clients : \E q \in Present(hand[d]) : h = OfCall(d, q)
      BY <2>3
    <3>2. PICK q \in Present(hand[d]) : h = OfCall(d, q)
      BY <3>1
    <3>3. d # c /\ q \in Present(take[d]) /\ take[d][q] = hand[d][q]
      BY <1>0, <1>2, <1>4, <3>2
    <3>4. h \notin Y
      BY <1>d3, <3>2
    <3> QED BY <3>2, <3>3, <3>4, HeldIs
  <2>4. CASE \E l \in Kinds : \E j \in Slots(l) : \E q \in DOMAIN objects[l][j] : h = OfObject(l, j, q)
    <3>1. PICK l \in Kinds : \E j \in Slots(l) : \E q \in DOMAIN objects[l][j] : h = OfObject(l, j, q)
      BY <2>4
    <3>2. PICK j \in Slots(l) : \E q \in DOMAIN objects[l][j] : h = OfObject(l, j, q)
      BY <3>1
    <3>3. PICK q \in DOMAIN objects[l][j] : h = OfObject(l, j, q)
      BY <3>2
    <3>4. (l # k \/ j # i) /\ owned[l][j] = objects[l][j]
      BY <1>0
    <3>5. h \notin Y
      BY <1>d4, <3>3, <3>4
    <3> QED BY <3>3, <3>4, <3>5, HeldIs
  <2> QED BY <2>1, <2>2, <2>3, <2>4, HeldIs
<1>5. ASSUME NEW h \in DOMAIN g, h \notin Y PROVE h \in DOMAIN f /\ h \notin X
  <2>1. CASE \E b \in m : h = OfApplication(b)
    BY <1>d1, <2>1, HeldIs
  <2>2. CASE \E l \in Kinds : p[l] # Null /\ h = OfPage(l)
    BY <1>d2, <2>2, HeldIs
  <2>3. CASE \E d \in Clients : \E q \in Present(take[d]) : h = OfCall(d, q)
    <3>1. PICK d \in Clients : \E q \in Present(take[d]) : h = OfCall(d, q)
      BY <2>3
    <3>2. PICK q \in Present(take[d]) : h = OfCall(d, q)
      BY <3>1
    <3>3. d # c /\ q \in Present(hand[d])
      BY <1>0
    <3>4. h \notin X
      BY <1>d3, <3>2, <3>3
    <3> QED BY <3>2, <3>3, <3>4, HeldIs
  <2>4. CASE \E l \in Kinds : \E j \in Slots(l) : \E q \in DOMAIN owned[l][j] : h = OfObject(l, j, q)
    <3>1. PICK l \in Kinds : \E j \in Slots(l) : \E q \in DOMAIN owned[l][j] : h = OfObject(l, j, q)
      BY <2>4
    <3>2. PICK j \in Slots(l) : \E q \in DOMAIN owned[l][j] : h = OfObject(l, j, q)
      BY <3>1
    <3>3. PICK q \in DOMAIN owned[l][j] : h = OfObject(l, j, q)
      BY <3>2
    <3>4. l # k \/ j # i
      BY <1>0, <1>2, <1>5, <3>3
    <3>5. owned[l][j] = objects[l][j]
      BY <1>0, <3>4
    <3>6. h \notin X
      BY <1>d4, <3>3, <3>4
    <3> QED BY <3>3, <3>5, <3>6, HeldIs
  <2> QED BY <2>1, <2>2, <2>3, <2>4, HeldIs
<1>6. ASSUME NEW h \in X PROVE to[h] \in Y /\ g[to[h]] = f[h] /\ to[h] \in DOMAIN g
  <2>1. PICK n \in N : h = OfCall(c, n)
    BY <1>2
  <2>2. to[h] = OfObject(k, i, n)
    BY <1>1, <2>1
  <2>3. n \in DOMAIN owned[k][i] /\ owned[k][i][n] = hand[c][n]
    BY <1>0
  <2> QED BY <1>2, <2>1, <2>2, <2>3, HeldIs
<1>7. ASSUME NEW y \in Y PROVE \E h \in X : y = to[h]
  BY <1>1, <1>2
<1>8. \A h, l \in X : to[h] = to[l] => h = l
  BY <1>1, <1>2, OwnersDiffer
<1>9. DOMAIN g = (DOMAIN f \ X) \union Y /\ Y \cap (DOMAIN f \ X) = {}
  BY <1>4, <1>5, <1>6, <1>7
<1>10. Moves(f, g, X, Y, to)
  BY <1>3, <1>4, <1>6, <1>7, <1>8, <1>9 DEF Moves
<1> QED BY <1>10

-----------------------------------------------------------------------------
(* The heap and its owners, in every state.                                *)

Hands == [c \in Clients |-> BlocksOf(c)]

ObjectBlocks == [k \in Kinds |-> [i \in Slots(k) |-> slot[k][i].blocks]]

HeapOk == Whole(heap) /\ usedUnits = UsedUnits(heap)

OwnedExactly == Exactly(Held(mine, page, Hands, ObjectBlocks), UsedAddresses(heap))

Maybe == Nat \union {Null}

\* What a call in the middle of its steps knows.
CallKnows(call) ==
    /\ call.at \in {"outside", "resizing", "allocating", "registering", "freeing"}
    /\ call.at = "outside" => call = Outside
    /\ call.at = "resizing" => \E a \in Nat, bytes \in Requests :
           call = [at |-> "resizing", blocks |-> <<a>>, bytes |-> bytes]
    /\ call.at = "allocating" => /\ call.blocks \in Seq(Maybe)
                                 /\ Len(call.blocks) < Len(Kind[call.kind].sizes)
    /\ call.at = "registering" => call.blocks \in Seq(Nat)
    /\ call.at = "freeing" => call.blocks \in Seq(Maybe) /\ Present(call.blocks) # {}

CallsKnow == \A c \in Clients : CallKnows(client[c])

ObjectsKnow ==
    \A k \in Kinds : \A i \in Slots(k) :
        slot[k][i].blocks \in Seq(Nat) /\ (~slot[k][i].used => slot[k][i].blocks = <<>>)

PagesKnow == page \in [Kinds -> Maybe]

\* The inductive invariant of the heap.
MemInv ==
    /\ HandlesInv /\ HeapOk /\ OwnedExactly
    /\ CallsKnow /\ ObjectsKnow /\ PagesKnow

LEMMA HeapStarts == FreshHeap \in Seq(Blocks) /\ Whole(FreshHeap)
                    /\ UsedUnits(FreshHeap) = 0 /\ UsedAddresses(FreshHeap) = {}
<1> DEFINE b == FreeBlock(0, HeapUnits - HeaderUnits)
<1>1. HeapUnits - HeaderUnits \in Nat /\ HeapUnits - HeaderUnits > 0 /\ HeaderUnits \in Nat
      /\ HeapUnits \in Nat
  BY HeapAssumption
<1>2. b \in Blocks /\ b.at = 0 /\ b.size > 0 /\ ~b.used
  BY <1>1 DEF FreeBlock, Blocks
<1>3. BlockEnd(b) = HeapUnits
  BY <1>1 DEF FreeBlock, BlockEnd
<1> HIDE DEF b
<1> DEFINE s == <<b>>
<1>4. s \in Seq(Blocks) /\ Len(s) = 1 /\ s[1] = b /\ DOMAIN s = 1 .. 1
  BY <1>2
<1>5. UsedUnits(s) = Takes(b) /\ Takes(b) = 0
  BY <1>2, OneTakes DEF Takes
<1>6. FreshHeap = s
  BY DEF FreshHeap, b
<1> HIDE DEF s
<1>7. /\ \A k \in 1 .. 1 : k = 1
      /\ 1 .. 1 - 1 = {}
  OBVIOUS
<1>8. Whole(s)
  BY <1>2, <1>3, <1>4, <1>7, WholeIs
<1>9. UsedAddresses(s) = {}
  BY <1>2, <1>4, <1>7 DEF UsedAddresses, UsedBlocks
<1> QED BY <1>4, <1>5, <1>6, <1>8, <1>9

\* A critical section of the allocator that looks for a block.
LEMMA AllocateStep ==
    ASSUME HeapOk, NEW bytes \in Nat, NEW kernel, HeapAllocate(bytes, kernel)
    PROVE  /\ HeapOk' /\ Found(bytes, kernel) \in Maybe
           /\ IF Found(bytes, kernel) = Null THEN UsedAddresses(heap)' = UsedAddresses(heap)
              ELSE /\ UsedAddresses(heap)' = UsedAddresses(heap) \union {Found(bytes, kernel)}
                   /\ Found(bytes, kernel) \notin UsedAddresses(heap)
           /\ CanAllocate(bytes, kernel) <=> Found(bytes, kernel) # Null
<1> DEFINE units == UnitsFor(bytes)
           i == BestFit(heap, units)
<1>1. CASE ~CanAllocate(bytes, kernel)
  <2>1. Found(bytes, kernel) = Null /\ heap' = heap /\ usedUnits' = usedUnits
    BY <1>1 DEF Found, HeapAllocate, heapVars
  <2> QED BY <1>1, <2>1 DEF HeapOk, Maybe
<1>2. CASE CanAllocate(bytes, kernel)
  <2>1. units \in Nat \ {0}
    BY UnitsPositive
  <2>2. heap \in Seq(Blocks) /\ Whole(heap)
    BY DEF HeapOk, Whole
  <2>3. Fits(heap, units) # {}
    BY <1>2 DEF CanAllocate
  <2>4. i \in 1 .. Len(heap) /\ ~heap[i].used /\ heap[i].size >= units
    BY <2>2, <2>3, BestFitIs
  <2>5. heap[i].size \in Nat
    BY <2>2, <2>4, BlockIs
  <2>6. /\ heap' = Allocated(heap, i, units)
        /\ usedUnits' = usedUnits + heap'[i].size + HeaderUnits
        /\ Found(bytes, kernel) = heap[i].at
    BY <1>2 DEF HeapAllocate, Found
  <2> HIDE DEF i, units
  <2>7. units <= heap[i].size
    BY <2>1, <2>4, <2>5
  <2>8. /\ Whole(heap')
        /\ UsedUnits(heap') = UsedUnits(heap) + heap'[i].size + HeaderUnits
        /\ UsedAddresses(heap') = UsedAddresses(heap) \union {heap[i].at}
        /\ heap[i].at \notin UsedAddresses(heap) /\ heap[i].at \in Nat
    BY <2>1, <2>2, <2>4, <2>6, <2>7, AllocatedEffect
  <2>9. heap[i].at # Null
    BY <2>8 DEF Null
  <2> QED BY <1>2, <2>6, <2>8, <2>9 DEF HeapOk, Maybe
<1> QED BY <1>1, <1>2

\* A critical section of the allocator that frees a block.
LEMMA FreeStep ==
    ASSUME HeapOk, NEW address \in UsedAddresses(heap), HeapFree(address)
    PROVE  HeapOk' /\ UsedAddresses(heap)' = UsedAddresses(heap) \ {address}
<1> DEFINE i == BlockAt(heap, address)
<1>1. heap' = Freed(heap, i) /\ usedUnits' = usedUnits - heap[i].size - HeaderUnits
  BY DEF HeapFree
<1>2. Whole(heap)
  BY DEF HeapOk
<1>3. i \in 1 .. Len(heap) /\ heap[i].used /\ heap[i].at = address
  BY <1>2, BlockAtIs
<1> HIDE DEF i
<1>4. /\ Whole(heap')
      /\ UsedUnits(heap') = UsedUnits(heap) - heap[i].size - HeaderUnits
      /\ UsedAddresses(heap') = UsedAddresses(heap) \ {heap[i].at}
  BY <1>1, <1>2, <1>3, FreedEffect
<1> QED BY <1>1, <1>3, <1>4 DEF HeapOk

\* Where the caller goes, and what it has in its hands there.
LEMMA HandsGo ==
    ASSUME NEW c \in Clients, NEW place, DOMAIN client = Clients, Goes(c, place)
    PROVE  /\ DOMAIN client' = Clients /\ client'[c] = place
           /\ \A d \in Clients : d # c => client'[d] = client[d] /\ Hands'[d] = Hands[d]
           /\ Hands'[c] = IF place = Outside THEN <<>> ELSE place.blocks
<1>1. /\ DOMAIN client' = Clients /\ client'[c] = place
      /\ \A d \in Clients : d # c => client'[d] = client[d]
  BY DEF Goes
<1>2. ASSUME NEW d \in Clients PROVE Hands'[d] = IF client'[d] = Outside THEN <<>> ELSE client'[d].blocks
  BY DEF Hands, BlocksOf
<1>3. ASSUME NEW d \in Clients PROVE Hands[d] = IF client[d] = Outside THEN <<>> ELSE client[d].blocks
  BY DEF Hands, BlocksOf
<1> QED BY <1>1, <1>2, <1>3

LEMMA OthersKnow ==
    ASSUME NEW c \in Clients, NEW place, DOMAIN client = Clients, Goes(c, place),
           CallsKnow, CallKnows(place)
    PROVE  CallsKnow'
<1>1. /\ client'[c] = place
      /\ \A d \in Clients : d # c => client'[d] = client[d]
  BY HandsGo
<1> QED BY <1>1 DEF CallsKnow

LEMMA ThenFreeHands ==
    ASSUME NEW c \in Clients, NEW blocks \in Seq(Maybe), DOMAIN client = Clients,
           ThenFree(c, blocks), CallsKnow
    PROVE  /\ CallsKnow'
           /\ \A d \in Clients : d # c => Hands'[d] = Hands[d]
           /\ Present(Hands'[c]) = Present(blocks)
           /\ \A n \in Present(blocks) : Hands'[c][n] = blocks[n]
<1>1. CASE Present(blocks) = {}
  <2>1. Goes(c, Outside)
    BY <1>1 DEF ThenFree
  <2>2. CallKnows(Outside)
    BY DEF CallKnows, Outside
  <2>3. Hands'[c] = <<>> /\ \A d \in Clients : d # c => Hands'[d] = Hands[d]
    BY <2>1, HandsGo
  <2>4. Present(<<>>) = {}
    BY DEF Present
  <2> QED BY <1>1, <2>1, <2>2, <2>3, <2>4, OthersKnow
<1>2. CASE Present(blocks) # {}
  <2> DEFINE place == [at |-> "freeing", blocks |-> blocks]
  <2>1. Goes(c, place)
    BY <1>2 DEF ThenFree
  <2>2. place # Outside /\ place.at = "freeing" /\ place.blocks = blocks
    BY DEF Outside
  <2> HIDE DEF place
  <2>3. CallKnows(place)
    BY <1>2, <2>2 DEF CallKnows
  <2>4. Hands'[c] = blocks /\ \A d \in Clients : d # c => Hands'[d] = Hands[d]
    BY <2>1, <2>2, HandsGo
  <2> QED BY <2>1, <2>3, <2>4, OthersKnow
<1> QED BY <1>1, <1>2

\* A state of Outside has nothing in hand.
LEMMA OutsideHands ==
    ASSUME NEW c \in Clients, client[c] = Outside
    PROVE  Hands[c] = <<>> /\ Present(Hands[c]) = {}
<1>1. Hands[c] = <<>>
  BY DEF Hands, BlocksOf
<1>2. Present(<<>>) = {}
  BY DEF Present
<1> QED BY <1>1, <1>2

LEMMA InsideHands ==
    ASSUME NEW c \in Clients, client[c].at # "outside"
    PROVE  Hands[c] = client[c].blocks
<1>1. client[c] # Outside
  BY DEF Outside
<1> QED BY <1>1 DEF Hands, BlocksOf

MemParts == HeapOk /\ OwnedExactly /\ CallsKnow /\ ObjectsKnow /\ PagesKnow

LEMMA ObjectsStay ==
    ASSUME slot' = slot
    PROVE  ObjectBlocks' = ObjectBlocks /\ (ObjectsKnow => ObjectsKnow')
BY DEF ObjectBlocks, ObjectsKnow

LEMMA HandsStay ==
    ASSUME client' = client
    PROVE  Hands' = Hands /\ (CallsKnow => CallsKnow')
<1>1. \A c : BlocksOf(c)' = BlocksOf(c)
  BY DEF BlocksOf
<1> QED BY <1>1 DEF Hands, CallsKnow

LEMMA PagesStay ==
    ASSUME page' = page, PagesKnow
    PROVE  PagesKnow'
BY DEF PagesKnow

\* The blocks of the application are in use.
LEMMA MineUsed ==
    ASSUME OwnedExactly, NEW a \in mine
    PROVE  a \in UsedAddresses(heap)
<1> DEFINE f == Held(mine, page, Hands, ObjectBlocks)
<1>1. OfApplication(a) \in DOMAIN f /\ f[OfApplication(a)] = a
  BY HeldIs
<1> HIDE DEF f
<1>2. Exactly(f, UsedAddresses(heap))
  BY DEF OwnedExactly, f
<1> QED BY <1>1, <1>2 DEF Exactly

LEMMA MallocKeeps ==
    ASSUME MemInv, NEW c \in Clients, NEW bytes \in Requests, Malloc(c, bytes)
    PROVE  MemParts'
<1>1. /\ HeapAllocate(bytes, FALSE)
      /\ mine' = mine \union ({Found(bytes, FALSE)} \ {Null})
      /\ slot' = slot /\ page' = page /\ client' = client
  BY DEF Malloc
<1>2. bytes \in Nat
  BY MemoryAssumption
<1>3. /\ HeapOk' /\ Found(bytes, FALSE) \in Maybe
      /\ IF Found(bytes, FALSE) = Null THEN UsedAddresses(heap)' = UsedAddresses(heap)
         ELSE /\ UsedAddresses(heap)' = UsedAddresses(heap) \union {Found(bytes, FALSE)}
              /\ Found(bytes, FALSE) \notin UsedAddresses(heap)
  BY <1>1, <1>2, AllocateStep DEF MemInv
<1>4. Hands' = Hands /\ ObjectBlocks' = ObjectBlocks
  BY <1>1, HandsStay, ObjectsStay
<1>5. OwnedExactly'
  <2> DEFINE a == Found(bytes, FALSE)
             f == Held(mine, page, Hands, ObjectBlocks)
             g == Held(mine', page, Hands, ObjectBlocks)
             x == OfApplication(a)
  <2> HIDE DEF a
  <2>1. CASE a = Null
    <3>1. mine' = mine /\ UsedAddresses(heap)' = UsedAddresses(heap)
      BY <1>1, <1>3, <2>1 DEF a
    <3> QED BY <1>1, <1>4, <3>1 DEF MemInv, OwnedExactly
  <2>2. CASE a # Null
    <3>1. /\ mine' = mine \union {a} /\ a \notin UsedAddresses(heap)
          /\ UsedAddresses(heap)' = UsedAddresses(heap) \union {a}
      BY <1>1, <1>3, <2>2 DEF a
    <3>2. a \notin mine
      BY <3>1, MineUsed DEF MemInv
    <3>3. Gains(f, g, x) /\ g[x] = a
      BY <3>1, <3>2, ApplicationGains
    <3>4. Exactly(f, UsedAddresses(heap))
      BY DEF MemInv, OwnedExactly
    <3> HIDE DEF f, g, x
    <3>5. Exactly(g, UsedAddresses(heap) \union {a})
      BY <3>1, <3>3, <3>4, GainExact
    <3> QED BY <1>1, <1>4, <3>1, <3>5 DEF OwnedExactly, g
  <2> QED BY <2>1, <2>2
<1> QED BY <1>1, <1>3, <1>5, HandsStay, ObjectsStay, PagesStay DEF MemInv, MemParts

LEMMA FreeKeeps ==
    ASSUME MemInv, NEW c \in Clients, NEW address \in mine, Free(c, address)
    PROVE  MemParts'
<1>1. /\ HeapFree(address) /\ mine' = mine \ {address}
      /\ slot' = slot /\ page' = page /\ client' = client
  BY DEF Free
<1>2. address \in UsedAddresses(heap)
  BY MineUsed DEF MemInv
<1>3. HeapOk' /\ UsedAddresses(heap)' = UsedAddresses(heap) \ {address}
  BY <1>1, <1>2, FreeStep DEF MemInv
<1>4. Hands' = Hands /\ ObjectBlocks' = ObjectBlocks
  BY <1>1, HandsStay, ObjectsStay
<1>5. OwnedExactly'
  <2> DEFINE f == Held(mine', page, Hands, ObjectBlocks)
             g == Held(mine, page, Hands, ObjectBlocks)
             x == OfApplication(address)
  <2>1. mine = mine' \union {address} /\ address \notin mine'
    BY <1>1
  <2>2. Gains(f, g, x) /\ g[x] = address
    BY <2>1, ApplicationGains
  <2>3. Exactly(g, UsedAddresses(heap))
    BY DEF MemInv, OwnedExactly
  <2> HIDE DEF f, g, x
  <2>4. Exactly(f, UsedAddresses(heap) \ {address})
    BY <2>2, <2>3, LoseExact
  <2> QED BY <1>1, <1>3, <1>4, <2>4 DEF OwnedExactly, f
<1> QED BY <1>1, <1>3, <1>5, HandsStay, ObjectsStay, PagesStay DEF MemInv, MemParts

\* A block passes from the application to a call, or back.
LEMMA Handed ==
    ASSUME NEW U, NEW m, NEW a, NEW p, NEW hand, NEW take, NEW objects, NEW c \in Clients,
           NEW n, a \notin m, TakesOne(hand, take, c, n)
    PROVE  take[c][n] = a =>
             (Exactly(Held(m \union {a}, p, hand, objects), U)
               <=> Exactly(Held(m, p, take, objects), U))
<1> DEFINE f == Held(m \union {a}, p, hand, objects)
           g == Held(m, p, hand, objects)
           h == Held(m, p, take, objects)
           x == OfApplication(a)
           y == OfCall(c, n)
<1>1. Gains(g, f, x) /\ f[x] = a
  BY ApplicationGains
<1>2. Gains(g, h, y) /\ h[y] = take[c][n]
  BY CallGains
<1> HIDE DEF f, g, h, x, y
<1>a. SUFFICES ASSUME take[c][n] = a PROVE Exactly(f, U) <=> Exactly(h, U)
  BY DEF f, h
<1>3. ASSUME Exactly(f, U) PROVE Exactly(h, U)
  <2>1. Exactly(g, U \ {a}) /\ a \in U
    BY <1>1, <1>3, LoseExact
  <2>2. Exactly(h, (U \ {a}) \union {a})
    BY <1>a, <1>2, <2>1, GainExact
  <2>3. (U \ {a}) \union {a} = U
    BY <2>1
  <2> QED BY <2>2, <2>3
<1>4. ASSUME Exactly(h, U) PROVE Exactly(f, U)
  <2>1. Exactly(g, U \ {a}) /\ a \in U
    BY <1>a, <1>2, <1>4, LoseExact
  <2>2. Exactly(f, (U \ {a}) \union {a})
    BY <1>1, <2>1, GainExact
  <2>3. (U \ {a}) \union {a} = U
    BY <2>1
  <2> QED BY <2>2, <2>3
<1> QED BY <1>3, <1>4

LEMMA ReallocCheckKeeps ==
    ASSUME MemInv, NEW c \in Clients, NEW address \in mine, ReallocCheck(c, address)
    PROVE  MemParts'
<1>1. PICK bytes \in Requests :
          Goes(c, [at |-> "resizing", blocks |-> <<address>>, bytes |-> bytes])
  BY DEF ReallocCheck
<1> DEFINE place == [at |-> "resizing", blocks |-> <<address>>, bytes |-> bytes]
<1>2. /\ client[c] = Outside /\ mine' = mine \ {address}
      /\ slot' = slot /\ page' = page /\ heap' = heap /\ usedUnits' = usedUnits
  BY DEF ReallocCheck, heapVars
<1>3. address \in Nat
  <2>1. address \in UsedAddresses(heap)
    BY MineUsed DEF MemInv
  <2>2. heap \in Seq(Blocks) /\ Whole(heap)
    BY DEF MemInv, HeapOk, Whole
  <2> QED BY <2>1, <2>2, BlockAtIs, BlockIs
<1>4. CallKnows(place) /\ place # Outside /\ place.blocks = <<address>>
  BY <1>3 DEF CallKnows, Outside
<1>5. DOMAIN client = Clients /\ CallsKnow
  BY DEF MemInv, HandlesInv, CreatorsKnow
<1> HIDE DEF place
<1>6. Goes(c, place)
  BY <1>1 DEF place
<1>7. /\ \A d \in Clients : d # c => Hands'[d] = Hands[d]
      /\ Hands'[c] = <<address>>
  BY <1>4, <1>5, <1>6, HandsGo
<1>8. TakesOne(Hands, Hands', c, 1) /\ Hands'[c][1] = address
  <2>1. Present(<<address>>) = {1} /\ <<address>>[1] = address
    BY <1>3 DEF Present, Null
  <2>2. Present(Hands[c]) = {}
    BY <1>2, OutsideHands
  <2> QED BY <1>7, <2>1, <2>2 DEF TakesOne
<1>9. OwnedExactly'
  <2>1. mine = mine' \union {address} /\ address \notin mine'
    BY <1>2
  <2>2. Exactly(Held(mine' \union {address}, page, Hands, ObjectBlocks), UsedAddresses(heap))
    BY <2>1 DEF MemInv, OwnedExactly
  <2>3. Exactly(Held(mine', page, Hands', ObjectBlocks), UsedAddresses(heap))
    BY <1>8, <2>1, <2>2, Handed
  <2>4. ObjectBlocks' = ObjectBlocks
    BY <1>2, ObjectsStay
  <2> QED BY <1>2, <2>3, <2>4 DEF OwnedExactly
<1>10. HeapOk'
  BY <1>2 DEF MemInv, HeapOk
<1>11. CallsKnow'
  BY <1>4, <1>5, <1>6, OthersKnow
<1> QED BY <1>2, <1>9, <1>10, <1>11, ObjectsStay, PagesStay DEF MemInv, MemParts

LEMMA ReallocKeeps ==
    ASSUME MemInv, NEW c \in Clients, Realloc(c)
    PROVE  MemParts'
<1>0. DOMAIN client = Clients /\ CallsKnow
  BY DEF MemInv, HandlesInv, CreatorsKnow
<1>1. PICK a \in Nat, bytes \in Requests :
          client[c] = [at |-> "resizing", blocks |-> <<a>>, bytes |-> bytes]
  BY <1>0 DEF Realloc, CallsKnow, CallKnows
<1>2. client[c].blocks = <<a>> /\ client[c].bytes = bytes /\ bytes \in Nat /\ <<a>>[1] = a
  BY <1>1, MemoryAssumption
<1>3. /\ HeapAllocate(bytes, FALSE)
      /\ IF CanAllocate(bytes, FALSE)
         THEN mine' = mine \union {Found(bytes, FALSE)} /\ ThenFree(c, <<a>>)
         ELSE mine' = mine \union {a} /\ Goes(c, Outside)
      /\ slot' = slot /\ page' = page
  BY <1>2 DEF Realloc
<1>4. /\ HeapOk' /\ Found(bytes, FALSE) \in Maybe
      /\ IF Found(bytes, FALSE) = Null THEN UsedAddresses(heap)' = UsedAddresses(heap)
         ELSE /\ UsedAddresses(heap)' = UsedAddresses(heap) \union {Found(bytes, FALSE)}
              /\ Found(bytes, FALSE) \notin UsedAddresses(heap)
      /\ CanAllocate(bytes, FALSE) <=> Found(bytes, FALSE) # Null
  BY <1>2, <1>3, AllocateStep DEF MemInv
<1>5. Hands[c] = <<a>> /\ Present(Hands[c]) = {1} /\ Present(<<a>>) = {1}
  <2>1. Hands[c] = <<a>>
    BY <1>1, InsideHands
  <2>2. Present(<<a>>) = {1}
    BY DEF Present, Null
  <2> QED BY <2>1, <2>2
<1>6. ObjectBlocks' = ObjectBlocks
  BY <1>3, ObjectsStay
<1>7. Exactly(Held(mine, page, Hands, ObjectBlocks), UsedAddresses(heap))
  BY DEF MemInv, OwnedExactly
<1>8. CASE CanAllocate(bytes, FALSE)
  <2> DEFINE b == Found(bytes, FALSE)
             f == Held(mine, page, Hands, ObjectBlocks)
             g == Held(mine', page, Hands, ObjectBlocks)
             x == OfApplication(b)
  <2>1. <<a>> \in Seq(Maybe)
    BY DEF Maybe
  <2>2. /\ CallsKnow' /\ \A d \in Clients : d # c => Hands'[d] = Hands[d]
        /\ Present(Hands'[c]) = Present(<<a>>)
        /\ \A n \in Present(<<a>>) : Hands'[c][n] = <<a>>[n]
    BY <1>0, <1>3, <1>8, <2>1, ThenFreeHands
  <2>3. SameHands(Hands, Hands')
    BY <1>5, <2>2 DEF SameHands
  <2>4. Held(mine', page, Hands', ObjectBlocks) = g
    BY <2>3, SameHeld
  <2> HIDE DEF b
  <2>5. /\ mine' = mine \union {b} /\ b \notin UsedAddresses(heap)
        /\ UsedAddresses(heap)' = UsedAddresses(heap) \union {b}
    BY <1>3, <1>4, <1>8 DEF b
  <2>6. b \notin mine
    BY <2>5, MineUsed DEF MemInv
  <2>7. Gains(f, g, x) /\ g[x] = b
    BY <2>5, <2>6, ApplicationGains
  <2>8. Exactly(f, UsedAddresses(heap))
    BY <1>7
  <2> HIDE DEF f, g, x
  <2>9. Exactly(g, UsedAddresses(heap) \union {b})
    BY <2>5, <2>7, <2>8, GainExact
  <2>10. OwnedExactly'
    BY <1>3, <1>6, <2>4, <2>5, <2>9 DEF OwnedExactly
  <2> QED BY <1>3, <1>4, <2>2, <2>10, ObjectsStay, PagesStay DEF MemInv, MemParts
<1>9. CASE ~CanAllocate(bytes, FALSE)
  <2>1. mine' = mine \union {a} /\ Goes(c, Outside) /\ UsedAddresses(heap)' = UsedAddresses(heap)
    BY <1>3, <1>4, <1>9
  <2>2. Hands'[c] = <<>> /\ \A d \in Clients : d # c => Hands'[d] = Hands[d]
    BY <1>0, <2>1, HandsGo
  <2>3. Present(<<>>) = {}
    BY DEF Present
  <2>4. TakesOne(Hands', Hands, c, 1) /\ Hands[c][1] = a
    BY <1>2, <1>5, <2>2, <2>3 DEF TakesOne
  <2>5. a \notin mine
    <3> DEFINE f == Held(mine, page, Hands, ObjectBlocks)
    <3>1. SUFFICES ASSUME a \in mine PROVE FALSE
      OBVIOUS
    <3>2. OfApplication(a) \in DOMAIN f /\ f[OfApplication(a)] = a
      BY <3>1, HeldIs
    <3>3. OfCall(c, 1) \in DOMAIN f /\ f[OfCall(c, 1)] = a
      BY <1>2, <1>5, HeldIs
    <3>4. OfApplication(a) # OfCall(c, 1)
      BY OwnersDiffer
    <3> HIDE DEF f
    <3>5. Exactly(f, UsedAddresses(heap))
      BY <1>7 DEF f
    <3> QED BY <3>2, <3>3, <3>4, <3>5 DEF Exactly
  <2>6. Exactly(Held(mine \union {a}, page, Hands', ObjectBlocks), UsedAddresses(heap))
    BY <1>7, <2>4, <2>5, Handed
  <2>7. OwnedExactly'
    BY <1>3, <1>6, <2>1, <2>6 DEF OwnedExactly
  <2>8. CallKnows(Outside)
    BY DEF CallKnows, Outside
  <2>9. CallsKnow'
    BY <1>0, <2>1, <2>8, OthersKnow
  <2> QED BY <1>3, <1>4, <2>7, <2>9, ObjectsStay, PagesStay DEF MemInv, MemParts
<1> QED BY <1>8, <1>9

LEMMA LockdownKeeps ==
    ASSUME MemInv, Lockdown
    PROVE  MemParts'
<1>1. /\ heap' = heap /\ usedUnits' = usedUnits /\ mine' = mine
      /\ slot' = slot /\ page' = page /\ client' = client
  BY DEF Lockdown
<1>2. Hands' = Hands /\ ObjectBlocks' = ObjectBlocks
  BY <1>1, HandsStay, ObjectsStay
<1> QED BY <1>1, <1>2, HandsStay, ObjectsStay, PagesStay DEF MemInv, MemParts, HeapOk, OwnedExactly

LEMMA CreateKeeps ==
    ASSUME MemInv, NEW c \in Clients, NEW k \in Kinds, Create(c, k)
    PROVE  MemParts'
<1> DEFINE place == [at |-> IF Kind[k].sizes = <<>> THEN "registering" ELSE "allocating",
                     kind |-> k, blocks |-> <<>>]
<1>1. /\ client[c] = Outside /\ Goes(c, place)
      /\ heap' = heap /\ usedUnits' = usedUnits /\ mine' = mine
      /\ slot' = slot /\ page' = page
  BY DEF Create, heapVars
<1>2. DOMAIN client = Clients /\ CallsKnow
  BY DEF MemInv, HandlesInv, CreatorsKnow
<1>3. CallKnows(place) /\ place # Outside /\ place.blocks = <<>>
  <2>1. Kind[k].sizes \in Seq(Nat)
    BY MemoryAssumption
  <2>2. Kind[k].sizes # <<>> => Len(<<>>) < Len(Kind[k].sizes)
    BY <2>1
  <2> QED BY <2>2 DEF CallKnows, Outside
<1> HIDE DEF place
<1>4. Hands'[c] = <<>> /\ \A d \in Clients : d # c => Hands'[d] = Hands[d]
  BY <1>1, <1>2, <1>3, HandsGo
<1>5. Hands[c] = <<>> /\ Present(Hands[c]) = {}
  BY <1>1, OutsideHands
<1>6. SameHands(Hands, Hands')
  BY <1>4, <1>5 DEF SameHands
<1>7. OwnedExactly'
  BY <1>1, <1>6, SameHeld, ObjectsStay DEF MemInv, OwnedExactly
<1>8. CallsKnow'
  BY <1>1, <1>2, <1>3, OthersKnow
<1> QED BY <1>1, <1>7, <1>8, ObjectsStay, PagesStay DEF MemInv, MemParts, HeapOk

LEMMA Grown ==
    ASSUME NEW blocks \in Seq(Maybe), NEW b \in Maybe
    PROVE  LET got == Append(blocks, b)
               n == Len(blocks) + 1
           IN  /\ got \in Seq(Maybe) /\ Len(got) = n /\ got[n] = b /\ n \in Nat
               /\ \A i \in DOMAIN blocks : got[i] = blocks[i]
               /\ DOMAIN got = DOMAIN blocks \union {n} /\ n \notin DOMAIN blocks
<1> DEFINE got == Append(blocks, b)
           n == Len(blocks) + 1
<1>1. DOMAIN blocks = 1 .. Len(blocks) /\ Len(blocks) \in Nat
  OBVIOUS
<1>2. /\ got \in Seq(Maybe) /\ Len(got) = n /\ got[n] = b /\ n \in Nat
      /\ \A i \in 1 .. Len(blocks) : got[i] = blocks[i]
  BY <1>1
<1>3. DOMAIN got = 1 .. n
  BY <1>2
<1> QED BY <1>1, <1>2, <1>3

\* Buffers none of which is missing.
LEMMA AllThere ==
    ASSUME NEW got \in Seq(Maybe), Null \notin {got[i] : i \in DOMAIN got}
    PROVE  got \in Seq(Nat)
<1>1. \A i \in 1 .. Len(got) : got[i] \in Maybe /\ got[i] # Null
  OBVIOUS
<1>2. \A i \in 1 .. Len(got) : got[i] \in Nat
  BY <1>1 DEF Maybe
<1> QED BY <1>2

LEMMA SizeAsked ==
    ASSUME NEW sizes \in Seq(Nat), NEW blocks \in Seq(Maybe), Len(blocks) < Len(sizes)
    PROVE  sizes[Len(blocks) + 1] \in Nat
<1>1. Len(blocks) \in Nat /\ Len(sizes) \in Nat
  OBVIOUS
<1>2. Len(blocks) + 1 \in 1 .. Len(sizes)
  BY <1>1
<1> QED BY <1>2

LEMMA AllocateBufferKeeps ==
    ASSUME MemInv, NEW c \in Clients, AllocateBuffer(c)
    PROVE  MemParts'
<1>0. DOMAIN client = Clients /\ CallsKnow /\ HeapOk
  BY DEF MemInv, HandlesInv, CreatorsKnow
<1> DEFINE call == client[c]
           k == Kind[call.kind]
           bytes == k.sizes[Len(call.blocks) + 1]
           b == Found(bytes, k.kernel)
           got == Append(call.blocks, b)
           n == Len(call.blocks) + 1
           failed == Null \in {got[i] : i \in DOMAIN got}
<1>1. /\ call.at = "allocating" /\ call.kind \in Kinds
      /\ call.blocks \in Seq(Maybe) /\ Len(call.blocks) < Len(k.sizes)
      /\ call = [at |-> call.at, kind |-> call.kind, blocks |-> call.blocks]
  BY <1>0 DEF AllocateBuffer, MemInv, HandlesInv, CreatorsKnow, Creating, CallsKnow, CallKnows
<1>2. k.sizes \in Seq(Nat) /\ bytes \in Nat
  BY <1>1, MemoryAssumption, SizeAsked
<1>3. HeapAllocate(bytes, k.kernel)
  <2>1. call.blocks \in Seq(Maybe)
    BY <1>1
  <2> HIDE DEF call
  <2>2. Len(Append(call.blocks, b)) = n
    BY <2>1
  <2> USE DEF call
  <2> QED BY <2>2 DEF AllocateBuffer
<1>5. /\ HeapAllocate(k.sizes[Len(got)], k.kernel)
      /\ IF failed /\ (k.early \/ Len(got) = Len(k.sizes))
         THEN AfterFailure(c, got)
         ELSE Goes(c, [at |-> IF Len(got) = Len(k.sizes)
                              THEN "registering" ELSE "allocating",
                       kind |-> client[c].kind, blocks |-> got])
      /\ slot' = slot /\ page' = page /\ mine' = mine
  BY DEF AllocateBuffer
<1> HIDE DEF bytes, b
<1>7. /\ HeapOk' /\ b \in Maybe
      /\ IF b = Null THEN UsedAddresses(heap)' = UsedAddresses(heap)
         ELSE /\ UsedAddresses(heap)' = UsedAddresses(heap) \union {b}
              /\ b \notin UsedAddresses(heap)
  BY <1>0, <1>2, <1>3, AllocateStep DEF b
<1>4. /\ got \in Seq(Maybe) /\ Len(got) = n /\ got[n] = b /\ n \in Nat
      /\ \A i \in DOMAIN call.blocks : got[i] = call.blocks[i]
      /\ DOMAIN got = DOMAIN call.blocks \union {n} /\ n \notin DOMAIN call.blocks
  BY <1>1, <1>7, Grown
<1> HIDE DEF got, failed, k, n
<1>8. /\ CallsKnow'
      /\ \A d \in Clients : d # c => Hands'[d] = Hands[d]
      /\ Present(Hands'[c]) = Present(got)
      /\ \A i \in Present(got) : Hands'[c][i] = got[i]
  <2>1. CASE failed /\ (k.early \/ Len(got) = Len(k.sizes))
    <3>1. ThenFree(c, got)
      BY <1>5, <2>1 DEF AfterFailure
    <3> QED BY <1>0, <1>4, <3>1, ThenFreeHands
  <2>2. CASE ~(failed /\ (k.early \/ Len(got) = Len(k.sizes)))
    <3> DEFINE at == IF Len(got) = Len(k.sizes) THEN "registering" ELSE "allocating"
               place == [at |-> at, kind |-> call.kind, blocks |-> got]
    <3>2. Goes(c, place)
      BY <1>5, <2>2
    <3> HIDE DEF call
    <3>3. place.at = at /\ place.kind = call.kind /\ place.blocks = got /\ place # Outside
      BY DEF Outside
    <3> HIDE DEF place
    <3>4. CASE Len(got) = Len(k.sizes)
      <4>1. got \in Seq(Nat)
        <5>1. ~failed
          BY <2>2, <3>4
        <5> QED BY <1>4, <5>1, AllThere DEF failed
      <4>2. CallKnows(place)
        BY <3>3, <3>4, <4>1 DEF CallKnows
      <4> QED BY <1>0, <3>2, <3>3, <4>2, HandsGo, OthersKnow
    <3>5. CASE Len(got) # Len(k.sizes)
      <4>1. Len(got) < Len(k.sizes)
        <5>1. n <= Len(k.sizes)
          BY <1>1 DEF n
        <5> QED BY <1>4, <3>5, <5>1
      <4>2. k = Kind[place.kind]
        BY <3>3 DEF k
      <4>3. CallKnows(place)
        BY <1>4, <3>3, <3>5, <4>1, <4>2 DEF CallKnows
      <4> QED BY <1>0, <3>2, <3>3, <4>3, HandsGo, OthersKnow
    <3> QED BY <3>4, <3>5
  <2> QED BY <2>1, <2>2
<1>9. Hands[c] = call.blocks
  BY <1>1, InsideHands
<1> HIDE DEF call
<1>10. ObjectBlocks' = ObjectBlocks
  BY <1>5, ObjectsStay
<1>11. OwnedExactly'
  <2> DEFINE f == Held(mine, page, Hands, ObjectBlocks)
             g == Held(mine, page, Hands', ObjectBlocks)
             x == OfCall(c, n)
  <2>1. Exactly(f, UsedAddresses(heap))
    BY DEF MemInv, OwnedExactly
  <2>2. CASE b = Null
    <3>1. Present(got) = Present(call.blocks)
      BY <1>4, <2>2 DEF Present
    <3>2. \A i \in Present(call.blocks) : got[i] = call.blocks[i]
      BY <1>4 DEF Present
    <3>3. SameHands(Hands, Hands')
      BY <1>8, <1>9, <3>1, <3>2 DEF SameHands
    <3>4. g = f
      BY <3>3, SameHeld
    <3> HIDE DEF f, g
    <3>5. Exactly(g, UsedAddresses(heap)')
      BY <1>7, <2>1, <2>2, <3>4
    <3> QED BY <1>5, <1>10, <3>5 DEF OwnedExactly, g
  <2>3. CASE b # Null
    <3>1. Present(got) = Present(call.blocks) \union {n} /\ n \notin Present(call.blocks)
      BY <1>4, <2>3 DEF Present
    <3>2. \A i \in Present(call.blocks) : got[i] = call.blocks[i]
      BY <1>4 DEF Present
    <3>3. TakesOne(Hands, Hands', c, n)
      BY <1>8, <1>9, <3>1, <3>2 DEF TakesOne
    <3>4. Hands'[c][n] = b
      BY <1>4, <1>8, <3>1
    <3>5. Gains(f, g, x) /\ g[x] = Hands'[c][n]
      BY <3>3, CallGains
    <3> HIDE DEF f, g, x
    <3>6. Exactly(g, UsedAddresses(heap) \union {b})
      BY <1>7, <2>1, <2>3, <3>4, <3>5, GainExact
    <3>7. Exactly(g, UsedAddresses(heap)')
      BY <1>7, <2>3, <3>6
    <3> QED BY <1>5, <1>10, <3>7 DEF OwnedExactly, g
  <2> QED BY <2>2, <2>3
<1> QED BY <1>5, <1>7, <1>8, <1>11, ObjectsStay, PagesStay DEF MemInv, MemParts

LEMMA DeleteExact ==
    ASSUME MemInv, NEW c \in Clients, NEW k \in Kinds, NEW i \in Slots(k), Delete(c, k, i)
    PROVE  MemParts'
<1> DEFINE blocks == slot[k][i].blocks
<1>0. DOMAIN client = Clients /\ CallsKnow
  BY DEF MemInv, HandlesInv, CreatorsKnow
<1>1. /\ client[c] = Outside /\ ThenFree(c, blocks)
      /\ slot' = [slot EXCEPT ![k][i] = [used |-> FALSE, gen |-> @.gen, blocks |-> <<>>]]
      /\ heap' = heap /\ usedUnits' = usedUnits /\ mine' = mine /\ page' = page
  BY DEF Delete, heapVars
<1>2. DOMAIN slot = Kinds /\ \A l \in Kinds : DOMAIN slot[l] = Slots(l)
  BY DEF MemInv, HandlesInv, SlotsKnow
<1>3. /\ slot'[k][i].used = FALSE /\ slot'[k][i].blocks = <<>>
      /\ \A l \in Kinds : \A j \in Slots(l) : l # k \/ j # i => slot'[l][j] = slot[l][j]
  BY <1>1, <1>2
<1>4. blocks \in Seq(Nat)
  BY DEF MemInv, ObjectsKnow
<1> HIDE DEF blocks
<1>5. blocks \in Seq(Maybe) /\ Present(blocks) = DOMAIN blocks
  <2>1. DOMAIN blocks = 1 .. Len(blocks) /\ \A n \in 1 .. Len(blocks) : blocks[n] \in Nat
    BY <1>4
  <2> QED BY <1>4, <2>1 DEF Present, Maybe, Null
<1>6. /\ CallsKnow' /\ \A d \in Clients : d # c => Hands'[d] = Hands[d]
      /\ Present(Hands'[c]) = Present(blocks)
      /\ \A n \in Present(blocks) : Hands'[c][n] = blocks[n]
  BY <1>0, <1>1, <1>5, ThenFreeHands
<1>7. Present(Hands[c]) = {}
  BY <1>1, OutsideHands
<1>8. /\ ObjectBlocks[k][i] = blocks /\ ObjectBlocks'[k][i] = <<>>
      /\ \A l \in Kinds : \A j \in Slots(l) :
             <<l, j>> # <<k, i>> => ObjectBlocks[l][j] = ObjectBlocks'[l][j]
  BY <1>3 DEF ObjectBlocks, blocks
<1>9. Deposits(Hands', ObjectBlocks', Hands, ObjectBlocks, c, k, i)
  <2>1. DOMAIN <<>> = {}
    OBVIOUS
  <2> QED BY <1>5, <1>6, <1>7, <1>8, <2>1 DEF Deposits
<1>10. OwnedExactly'
  <2> DEFINE f == Held(mine, page, Hands', ObjectBlocks')
             g == Held(mine, page, Hands, ObjectBlocks)
  <2>1. \E X, Y, to : Moves(f, g, X, Y, to)
    BY <1>9, DepositMoves
  <2>2. Exactly(g, UsedAddresses(heap))
    BY DEF MemInv, OwnedExactly
  <2> HIDE DEF f, g
  <2>3. Exactly(f, UsedAddresses(heap))
    BY <2>1, <2>2, MoveBackExact
  <2> QED BY <1>1, <2>3 DEF OwnedExactly, f
<1>11. ObjectsKnow'
  <2>1. ASSUME NEW l \in Kinds, NEW j \in Slots(l)
        PROVE  slot'[l][j].blocks \in Seq(Nat) /\ (~slot'[l][j].used => slot'[l][j].blocks = <<>>)
    <3>1. CASE l = k /\ j = i
      <4>1. slot'[l][j] = slot'[k][i] /\ <<>> \in Seq(Nat)
        BY <3>1
      <4> QED BY <1>3, <4>1
    <3>2. CASE l # k \/ j # i
      BY <1>3, <3>2 DEF MemInv, ObjectsKnow
    <3> QED BY <3>1, <3>2
  <2> QED BY <2>1 DEF ObjectsKnow
<1> QED BY <1>1, <1>6, <1>10, <1>11, PagesStay DEF MemInv, MemParts, HeapOk

LEMMA FreeBufferExact ==
    ASSUME MemInv, NEW c \in Clients, FreeBuffer(c)
    PROVE  MemParts'
<1> DEFINE blocks == client[c].blocks
           n == CHOOSE n \in Present(blocks) : \A m \in Present(blocks) : n <= m
           rest == [blocks EXCEPT ![n] = Null]
<1>0. DOMAIN client = Clients /\ CallsKnow
  BY DEF MemInv, HandlesInv, CreatorsKnow
<1>1. client[c].at = "freeing" /\ blocks \in Seq(Maybe) /\ Present(blocks) # {}
  BY <1>0 DEF FreeBuffer, CallsKnow, CallKnows
<1>2. /\ HeapFree(blocks[n]) /\ ThenFree(c, rest)
      /\ slot' = slot /\ page' = page /\ mine' = mine
  BY DEF FreeBuffer
<1>3. Hands[c] = blocks
  BY <1>1, InsideHands
<1> HIDE DEF blocks
<1>4. n \in Present(blocks)
  <2>1. Present(blocks) \in SUBSET Nat
    BY <1>1 DEF Present
  <2>2. \E q \in Present(blocks) : \A m \in Present(blocks) : q <= m
    BY <1>1, <2>1, LeastIsIn
  <2> QED BY <2>2
<1> HIDE DEF n
<1>5. rest \in Seq(Maybe) /\ Present(rest) = Present(blocks) \ {n}
      /\ \A q \in Present(rest) : rest[q] = blocks[q]
  <2>1. n \in DOMAIN blocks /\ Null \in Maybe
    BY <1>4 DEF Present, Maybe
  <2>2. rest \in Seq(Maybe)
    BY <1>1, <2>1
  <2>3. DOMAIN rest = DOMAIN blocks /\ \A q \in DOMAIN blocks : rest[q] = IF q = n THEN Null ELSE blocks[q]
    BY <2>1
  <2> HIDE DEF rest
  <2> QED BY <2>2, <2>3 DEF Present
<1> HIDE DEF rest
<1>6. /\ CallsKnow' /\ \A d \in Clients : d # c => Hands'[d] = Hands[d]
      /\ Present(Hands'[c]) = Present(rest)
      /\ \A q \in Present(rest) : Hands'[c][q] = rest[q]
  BY <1>0, <1>2, <1>5, ThenFreeHands
<1>7. TakesOne(Hands', Hands, c, n)
  BY <1>3, <1>4, <1>5, <1>6 DEF TakesOne
<1> DEFINE f == Held(mine, page, Hands', ObjectBlocks)
           g == Held(mine, page, Hands, ObjectBlocks)
           x == OfCall(c, n)
<1>8. Gains(f, g, x) /\ g[x] = Hands[c][n]
  BY <1>7, CallGains
<1>9. Exactly(g, UsedAddresses(heap))
  BY DEF MemInv, OwnedExactly
<1>10. ObjectBlocks' = ObjectBlocks
  BY <1>2, ObjectsStay
<1> HIDE DEF g, x
<1>11. Exactly(f, UsedAddresses(heap) \ {blocks[n]}) /\ blocks[n] \in UsedAddresses(heap)
  <2> HIDE DEF f
  <2> QED BY <1>3, <1>8, <1>9, LoseExact
<1>12. HeapOk' /\ UsedAddresses(heap)' = UsedAddresses(heap) \ {blocks[n]}
  BY <1>2, <1>11, FreeStep DEF MemInv
<1>13. OwnedExactly'
  BY <1>2, <1>10, <1>11, <1>12 DEF OwnedExactly
<1> QED BY <1>2, <1>6, <1>12, <1>13, ObjectsStay, PagesStay DEF MemInv, MemParts


\* A page of slots is allocated for the object that is being created.
LEMMA PageExact ==
    ASSUME MemInv, NEW k \in Kinds,
           IF Kind[k].page # 0 /\ page[k] = Null
           THEN HeapAllocate(Kind[k].page, TRUE)
                /\ page' = [page EXCEPT ![k] = Found(Kind[k].page, TRUE)]
           ELSE UNCHANGED <<heapVars, page>>
    PROVE  /\ HeapOk' /\ PagesKnow'
           /\ Exactly(Held(mine, page', Hands, ObjectBlocks), UsedAddresses(heap)')
<1> DEFINE f == Held(mine, page, Hands, ObjectBlocks)
           g == Held(mine, page', Hands, ObjectBlocks)
           a == Found(Kind[k].page, TRUE)
<1>1. Exactly(f, UsedAddresses(heap)) /\ HeapOk /\ PagesKnow
  BY DEF MemInv, OwnedExactly
<1>2. CASE ~(Kind[k].page # 0 /\ page[k] = Null)
  <2>1. page' = page /\ heap' = heap /\ usedUnits' = usedUnits
    BY <1>2 DEF heapVars
  <2> QED BY <1>1, <2>1 DEF PagesKnow, HeapOk
<1>3. CASE Kind[k].page # 0 /\ page[k] = Null
  <2>1. HeapAllocate(Kind[k].page, TRUE) /\ page' = [page EXCEPT ![k] = a]
    BY <1>3
  <2>2. Kind[k].page \in Nat
    BY MemoryAssumption
  <2>3. /\ HeapOk' /\ a \in Maybe
        /\ IF a = Null THEN UsedAddresses(heap)' = UsedAddresses(heap)
           ELSE /\ UsedAddresses(heap)' = UsedAddresses(heap) \union {a}
                /\ a \notin UsedAddresses(heap)
    BY <1>1, <2>1, <2>2, AllocateStep
  <2> HIDE DEF a
  <2>4. /\ page'[k] = a /\ DOMAIN page' = Kinds
        /\ \A l \in Kinds : l # k => page'[l] = page[l]
    BY <1>1, <2>1 DEF PagesKnow
  <2>5. PagesKnow'
    BY <1>1, <2>3, <2>4 DEF PagesKnow
  <2>6. CASE a = Null
    <3>1. page' = page
      BY <1>1, <1>3, <2>1, <2>6 DEF PagesKnow
    <3> QED BY <1>1, <2>3, <2>5, <2>6, <3>1
  <2>7. CASE a # Null
    <3>1. Gains(f, g, OfPage(k)) /\ g[OfPage(k)] = page'[k]
      BY <1>3, <2>4, <2>7, PageGains
    <3> HIDE DEF f, g
    <3>2. Exactly(g, UsedAddresses(heap) \union {a})
      BY <1>1, <2>3, <2>4, <2>7, <3>1, GainExact
    <3> QED BY <2>3, <2>5, <2>7, <3>2 DEF g
  <2> QED BY <2>6, <2>7
<1> QED BY <1>2, <1>3

LEMMA RegisterExact ==
    ASSUME MemInv, NEW c \in Clients, Register(c)
    PROVE  MemParts'
<1> DEFINE k == client[c].kind
           blocks == client[c].blocks
           i == CHOOSE i \in FreeSlots(k) : \A j \in FreeSlots(k) : i <= j
<1>0. DOMAIN client = Clients /\ CallsKnow
  BY DEF MemInv, HandlesInv, CreatorsKnow
<1>1. client[c].at = "registering" /\ k \in Kinds /\ blocks \in Seq(Nat)
  BY <1>0 DEF Register, MemInv, HandlesInv, CreatorsKnow, Creating, CallsKnow, CallKnows
<1>2. Hands[c] = blocks
  BY <1>1, InsideHands
<1>3. blocks \in Seq(Maybe) /\ Present(blocks) = DOMAIN blocks
  <2> HIDE DEF blocks
  <2>1. DOMAIN blocks = 1 .. Len(blocks) /\ \A n \in 1 .. Len(blocks) : blocks[n] \in Nat
    BY <1>1
  <2> QED BY <1>1, <2>1 DEF Present, Maybe, Null
<1>4. /\ HeapOk' /\ PagesKnow'
      /\ Exactly(Held(mine, page', Hands, ObjectBlocks), UsedAddresses(heap)')
  <2>1. IF Kind[k].page # 0 /\ page[k] = Null
        THEN HeapAllocate(Kind[k].page, TRUE)
             /\ page' = [page EXCEPT ![k] = Found(Kind[k].page, TRUE)]
        ELSE UNCHANGED <<heapVars, page>>
    BY DEF Register
  <2> HIDE DEF k
  <2> QED BY <1>1, <2>1, PageExact
<1>5. mine' = mine
  BY DEF Register
<1>6. CASE AfterFailure(c, blocks) /\ slot' = slot
  <2> HIDE DEF blocks
  <2>1. /\ CallsKnow' /\ \A d \in Clients : d # c => Hands'[d] = Hands[d]
        /\ Present(Hands'[c]) = Present(blocks)
        /\ \A n \in Present(blocks) : Hands'[c][n] = blocks[n]
    BY <1>0, <1>3, <1>6, ThenFreeHands DEF AfterFailure
  <2>2. SameHands(Hands, Hands')
    BY <1>2, <2>1 DEF SameHands
  <2>3. Held(mine, page', Hands', ObjectBlocks) = Held(mine, page', Hands, ObjectBlocks)
    BY <2>2, SameHeld
  <2>4. OwnedExactly'
    BY <1>4, <1>5, <1>6, <2>3, ObjectsStay DEF OwnedExactly
  <2> QED BY <1>4, <1>6, <2>1, <2>4, ObjectsStay DEF MemInv, MemParts
<1>7. CASE /\ FreeSlots(k) # {}
           /\ slot' = [slot EXCEPT ![k][i] =
                         [used |-> TRUE, gen |-> NextGen(@.gen), blocks |-> blocks]]
           /\ Goes(c, Outside)
  <2>1. i \in Slots(k) /\ ~slot[k][i].used
    BY <1>1, <1>7, LeastFree DEF FreeSlots
  <2> HIDE DEF k, i, blocks
  <2>2. DOMAIN slot = Kinds /\ \A l \in Kinds : DOMAIN slot[l] = Slots(l)
    BY DEF MemInv, HandlesInv, SlotsKnow
  <2>3. /\ slot'[k][i].used = TRUE /\ slot'[k][i].blocks = blocks
        /\ \A l \in Kinds : \A j \in Slots(l) : l # k \/ j # i => slot'[l][j] = slot[l][j]
    BY <1>1, <1>7, <2>1, <2>2
  <2>4. slot[k][i].blocks = <<>>
    BY <1>1, <2>1 DEF MemInv, ObjectsKnow
  <2>5. /\ ObjectBlocks[k][i] = <<>> /\ ObjectBlocks'[k][i] = blocks
        /\ \A l \in Kinds : \A j \in Slots(l) :
               <<l, j>> # <<k, i>> => ObjectBlocks'[l][j] = ObjectBlocks[l][j]
    BY <1>1, <2>1, <2>3, <2>4 DEF ObjectBlocks
  <2>6. Hands'[c] = <<>> /\ \A d \in Clients : d # c => Hands'[d] = Hands[d]
    BY <1>0, <1>7, HandsGo
  <2>7. Deposits(Hands, ObjectBlocks, Hands', ObjectBlocks', c, k, i)
    <3>1. DOMAIN <<>> = {} /\ Present(<<>>) = {}
      BY DEF Present
    <3> QED BY <1>2, <1>3, <2>5, <2>6, <3>1 DEF Deposits
  <2>8. OwnedExactly'
    <3> DEFINE f == Held(mine, page', Hands, ObjectBlocks)
               g == Held(mine, page', Hands', ObjectBlocks')
    <3>1. \E X, Y, to : Moves(f, g, X, Y, to)
      BY <1>1, <2>1, <2>7, DepositMoves
    <3>2. Exactly(f, UsedAddresses(heap)')
      BY <1>4
    <3> HIDE DEF f, g
    <3>3. Exactly(g, UsedAddresses(heap)')
      BY <3>1, <3>2, MoveExact
    <3> QED BY <1>5, <3>3 DEF OwnedExactly, g
  <2>9. ObjectsKnow'
    <3>1. ASSUME NEW l \in Kinds, NEW j \in Slots(l)
          PROVE  slot'[l][j].blocks \in Seq(Nat) /\ (~slot'[l][j].used => slot'[l][j].blocks = <<>>)
      <4>1. CASE l = k /\ j = i
        <5>1. slot'[l][j] = slot'[k][i]
          BY <4>1
        <5> QED BY <1>1, <2>3, <5>1
      <4>2. CASE l # k \/ j # i
        BY <2>3, <4>2 DEF MemInv, ObjectsKnow
      <4> QED BY <4>1, <4>2
    <3> QED BY <3>1 DEF ObjectsKnow
  <2>10. CallKnows(Outside)
    BY DEF CallKnows, Outside
  <2>11. CallsKnow'
    BY <1>0, <1>7, <2>10, OthersKnow
  <2> QED BY <1>4, <2>8, <2>9, <2>11 DEF MemParts
<1> QED BY <1>6, <1>7 DEF Register

LEMMA MemStarts ==
    ASSUME Init
    PROVE  MemInv
<1>1. /\ heap = FreshHeap /\ usedUnits = 0 /\ mine = {}
      /\ slot = [k \in Kinds |-> [i \in Slots(k) |->
                    [used |-> FALSE, gen |-> 0, blocks |-> <<>>]]]
      /\ page = [k \in Kinds |-> Null] /\ client = [c \in Clients |-> Outside]
  BY DEF Init
<1>2. HeapOk
  BY <1>1, HeapStarts DEF HeapOk
<1>3. CallKnows(Outside)
  BY DEF CallKnows, Outside
<1>4. CallsKnow
  BY <1>1, <1>3 DEF CallsKnow
<1>5. ObjectsKnow
  <2>1. ASSUME NEW k \in Kinds, NEW i \in Slots(k) PROVE slot[k][i].blocks = <<>>
    BY <1>1
  <2>2. <<>> \in Seq(Nat)
    OBVIOUS
  <2> QED BY <2>1, <2>2 DEF ObjectsKnow
<1>6. PagesKnow
  BY <1>1 DEF PagesKnow, Maybe
<1>7. OwnedExactly
  <2> DEFINE f == Held(mine, page, Hands, ObjectBlocks)
  <2>1. \A c \in Clients : Present(Hands[c]) = {}
    BY <1>1, OutsideHands
  <2>2. \A k \in Kinds : \A i \in Slots(k) : DOMAIN ObjectBlocks[k][i] = {}
    BY <1>1 DEF ObjectBlocks
  <2>3. \A k \in Kinds : page[k] = Null
    BY <1>1
  <2>4. ASSUME NEW h \in DOMAIN f PROVE FALSE
    <3>1. \/ \E a \in mine : h = OfApplication(a)
          \/ \E k \in Kinds : page[k] # Null /\ h = OfPage(k)
          \/ \E c \in Clients : \E n \in Present(Hands[c]) : h = OfCall(c, n)
          \/ \E k \in Kinds : \E i \in Slots(k) : \E n \in DOMAIN ObjectBlocks[k][i] :
                h = OfObject(k, i, n)
      BY HeldIs
    <3> QED BY <1>1, <2>1, <2>2, <2>3, <3>1
  <2> HIDE DEF f
  <2>5. Exactly(f, {})
    BY <2>4 DEF Exactly
  <2>6. UsedAddresses(heap) = {}
    BY <1>1, HeapStarts
  <2> QED BY <2>5, <2>6 DEF OwnedExactly, f
<1> QED BY <1>2, <1>4, <1>5, <1>6, <1>7, HandlesInit DEF MemInv

\* Every step keeps the heap and its owners in order.
LEMMA MemKeeps ==
    ASSUME MemInv, [Next]_vars
    PROVE  MemInv'
<1>1. HandlesInv'
  BY HandlesKeeps DEF MemInv
<1>2. MemParts'
  <2>1. CASE UNCHANGED <<heapVars, slot, page, mine, client>>
    <3>1. /\ heap' = heap /\ usedUnits' = usedUnits /\ mine' = mine
          /\ slot' = slot /\ page' = page /\ client' = client
      BY <2>1 DEF heapVars
    <3>2. Hands' = Hands /\ ObjectBlocks' = ObjectBlocks
      BY <3>1, HandsStay, ObjectsStay
    <3> QED BY <3>1, <3>2, HandsStay, ObjectsStay, PagesStay DEF MemInv, MemParts, HeapOk, OwnedExactly
  <2>2. CASE HeapCalls
    <3>1. CASE Lockdown
      BY <3>1, LockdownKeeps
    <3>2. ASSUME NEW c \in Clients, NEW bytes \in Requests, Malloc(c, bytes) PROVE MemParts'
      BY <3>2, MallocKeeps
    <3>3. ASSUME NEW c \in Clients, NEW address \in mine, Free(c, address) PROVE MemParts'
      BY <3>3, FreeKeeps
    <3>4. ASSUME NEW c \in Clients, NEW address \in mine, ReallocCheck(c, address) PROVE MemParts'
      BY <3>4, ReallocCheckKeeps
    <3>5. ASSUME NEW c \in Clients, Realloc(c) PROVE MemParts'
      BY <3>5, ReallocKeeps
    <3>6. ASSUME NEW c \in Clients, AllocateBuffer(c) PROVE MemParts'
      BY <3>6, AllocateBufferKeeps
    <3>7. ASSUME NEW c \in Clients, FreeBuffer(c) PROVE MemParts'
      BY <3>7, FreeBufferExact
    <3> QED BY <2>2, <3>1, <3>2, <3>3, <3>4, <3>5, <3>6, <3>7 DEF HeapCalls
  <2>3. ASSUME NEW kinds \in SUBSET Kinds, ObjectCalls(kinds) PROVE MemParts'
    <3>1. ASSUME NEW c \in Clients, NEW k \in Kinds, Create(c, k) PROVE MemParts'
      BY <3>1, CreateKeeps
    <3>2. ASSUME NEW c \in Clients, NEW k \in Kinds, NEW i \in Slots(k), Delete(c, k, i)
          PROVE  MemParts'
      BY <3>2, DeleteExact
    <3>3. ASSUME NEW c \in Clients, Register(c) PROVE MemParts'
      BY <3>3, RegisterExact
    <3> QED BY <2>3, <3>1, <3>2, <3>3 DEF ObjectCalls
  <2>4. Buffered \in SUBSET Kinds /\ Kinds \ Buffered \in SUBSET Kinds
    BY DEF Buffered
  <2>5. CASE Next
    BY <2>1, <2>2, <2>3, <2>4, <2>5 DEF Next
  <2>6. CASE UNCHANGED vars
    BY <2>1, <2>6 DEF vars
  <2> QED BY <2>5, <2>6
<1> QED BY <1>1, <1>2 DEF MemInv, MemParts

\* The inductive invariant of the heap and of who owns its blocks.
THEOREM MemInvariant == Spec => []MemInv
<1>1. Init => MemInv
  BY MemStarts
<1>2. MemInv /\ [Next]_vars => MemInv'
  BY MemKeeps
<1> QED BY <1>1, <1>2, PTL DEF Spec

\* The blocks tile the heap, free neighbours are merged, and current_used of
\* kernel/heap.c is what the blocks in use take.
THEOREM HeapExactCorrect == Spec => []HeapExact
<1>1. MemInv => HeapExact
  BY DEF MemInv, HeapOk, Whole, HeapExact
<1> QED BY <1>1, MemInvariant, PTL

-----------------------------------------------------------------------------
(* Fixed-block pools.                                                      *)

AllBlocks == 0 .. PoolBlocks - 1

PoolInv ==
    /\ pool.free \subseteq AllBlocks
    /\ pool.owned = {i * BlockSize : i \in AllBlocks \ pool.free}
    /\ pool.allocated = Cardinality(pool.owned)

\* A block of the pool is at one address.
LEMMA OneOffset ==
    ASSUME NEW i \in Nat, NEW j \in Nat, i * BlockSize = j * BlockSize
    PROVE  i = j
<1>1. BlockSize \in Nat /\ BlockSize > 0
  BY MemoryAssumption
<1>2. (i * BlockSize) \div BlockSize = i /\ (j * BlockSize) \div BlockSize = j
  BY <1>1
<1> QED BY <1>2

LEMMA PoolFinite ==
    ASSUME NEW S \in SUBSET AllBlocks
    PROVE  IsFiniteSet({i * BlockSize : i \in S})
<1>1. IsFiniteSet(AllBlocks)
  BY MemoryAssumption, FS_Interval DEF AllBlocks
<1>2. IsFiniteSet(S)
  BY <1>1, FS_Subset
<1> DEFINE f == [i \in S |-> i * BlockSize]
<1>3. {i * BlockSize : i \in S} = {f[i] : i \in S}
  OBVIOUS
<1>4. f \in Surjection(S, {f[i] : i \in S})
  BY DEF Surjection
<1> HIDE DEF f
<1> QED BY <1>2, <1>3, <1>4, FS_Surjection

LEMMA PoolAllocKeeps ==
    ASSUME PoolInv, PoolAlloc
    PROVE  PoolInv'
<1> DEFINE i == CHOOSE i \in pool.free : \A j \in pool.free : i <= j
           a == i * BlockSize
<1>1. i \in pool.free
  <2>1. pool.free \in SUBSET Nat /\ pool.free # {}
    BY MemoryAssumption DEF PoolInv, AllBlocks, PoolAlloc
  <2>2. \E q \in pool.free : \A j \in pool.free : q <= j
    BY <2>1, LeastIsIn
  <2> QED BY <2>2
<1>2. pool' = [free |-> pool.free \ {i}, allocated |-> pool.allocated + 1,
               owned |-> pool.owned \union {a}]
  BY DEF PoolAlloc
<1> HIDE DEF i
<1>3. i \in AllBlocks /\ \A j \in AllBlocks : j \in Nat
  BY <1>1, MemoryAssumption DEF PoolInv, AllBlocks
<1>4. a \notin pool.owned
  <2>1. ASSUME NEW j \in AllBlocks \ pool.free, j * BlockSize = a PROVE FALSE
    BY <1>1, <1>3, <2>1, OneOffset
  <2> QED BY <2>1 DEF PoolInv
<1>5. IsFiniteSet(pool.owned)
  BY PoolFinite DEF PoolInv
<1> HIDE DEF a
<1>6. Cardinality(pool.owned \union {a}) = Cardinality(pool.owned) + 1
  BY <1>4, <1>5, FS_AddElement
<1>7. pool.owned \union {a} = {j * BlockSize : j \in AllBlocks \ (pool.free \ {i})}
  BY <1>1, <1>3 DEF PoolInv, a
<1> QED BY <1>2, <1>6, <1>7 DEF PoolInv

LEMMA PoolFreeKeeps ==
    ASSUME PoolInv, NEW offset, PoolFree(offset)
    PROVE  PoolInv'
<1> DEFINE i == offset \div BlockSize
<1>1. BlockSize \in Nat /\ BlockSize > 0 /\ PoolBlocks \in Nat
  BY MemoryAssumption
<1>2. /\ offset \in 0 .. PoolBlocks * BlockSize - 1 /\ offset % BlockSize = 0
      /\ i \notin pool.free
      /\ pool' = [free |-> pool.free \union {i}, allocated |-> pool.allocated - 1,
                  owned |-> pool.owned \ {offset}]
  BY DEF PoolFree, PoolOwns
<1>3. i \in Nat /\ offset = i * BlockSize /\ i < PoolBlocks
  BY <1>1, <1>2
<1> HIDE DEF i
<1>4. i \in AllBlocks /\ \A j \in AllBlocks : j \in Nat
  BY <1>1, <1>3 DEF AllBlocks
<1>5. offset \in pool.owned
  BY <1>2, <1>3, <1>4 DEF PoolInv
<1>6. IsFiniteSet(pool.owned)
  BY PoolFinite DEF PoolInv
<1>7. Cardinality(pool.owned \ {offset}) = Cardinality(pool.owned) - 1
  BY <1>5, <1>6, FS_RemoveElement
<1>8. pool.owned \ {offset} = {j * BlockSize : j \in AllBlocks \ (pool.free \union {i})}
  <2>1. ASSUME NEW j \in AllBlocks \ (pool.free \union {i}) PROVE j * BlockSize # offset
    BY <1>3, <1>4, <2>1, OneOffset
  <2> QED BY <1>3, <2>1 DEF PoolInv
<1> QED BY <1>2, <1>4, <1>7, <1>8 DEF PoolInv

LEMMA PoolKeeps ==
    ASSUME PoolInv, [Next]_vars
    PROVE  PoolInv'
<1>1. CASE pool' = pool
  BY <1>1 DEF PoolInv
<1>2. CASE PoolCalls
  BY <1>2, PoolAllocKeeps, PoolFreeKeeps DEF PoolCalls
<1> QED BY <1>1, <1>2 DEF Next, vars

LEMMA PoolStarts ==
    ASSUME Init
    PROVE  PoolInv
<1>1. pool = [free |-> AllBlocks, allocated |-> 0, owned |-> {}]
  BY DEF Init, AllBlocks
<1>2. {i * BlockSize : i \in AllBlocks \ AllBlocks} = {}
  OBVIOUS
<1> QED BY <1>1, <1>2, FS_EmptySet DEF PoolInv

LEMMA HeldIsBlock ==
    LET f == Held(mine, page, Hands, ObjectBlocks)
    IN  DOMAIN f = Holdings /\ \A h \in Holdings : f[h] = BlockHeld(h)
<1> DEFINE f == Held(mine, page, Hands, ObjectBlocks)
<1>1. \A c \in Clients : Hands[c] = BlocksOf(c)
  BY DEF Hands
<1>2. \A k \in Kinds : \A i \in Slots(k) : ObjectBlocks[k][i] = slot[k][i].blocks
  BY DEF ObjectBlocks
<1>3. \A h : h \in HeldByCalls <=> h \in InHands(Hands)
  <2>1. ASSUME NEW h PROVE h \in HeldByCalls <=> \E c \in Clients : \E n \in Present(BlocksOf(c)) : h = OfCall(c, n)
    BY DEF HeldByCalls
  <2> QED BY <1>1, <2>1, InHandsIs
<1>4. \A h : h \in HeldByObjects <=> h \in InObjects(ObjectBlocks)
  <2> DEFINE At(k, i) == {OfObject(k, i, n) : n \in DOMAIN slot[k][i].blocks}
             Of(k) == UNION {At(k, i) : i \in Slots(k)}
  <2>1. HeldByObjects = UNION {Of(k) : k \in Kinds}
    BY DEF HeldByObjects
  <2>2. ASSUME NEW h, NEW k, NEW i PROVE h \in At(k, i) <=> \E n \in DOMAIN slot[k][i].blocks : h = OfObject(k, i, n)
    OBVIOUS
  <2> HIDE DEF At
  <2>3. ASSUME NEW h, NEW k PROVE h \in Of(k) <=> \E i \in Slots(k) : h \in At(k, i)
    OBVIOUS
  <2> HIDE DEF Of
  <2>4. ASSUME NEW h PROVE h \in HeldByObjects <=> \E k \in Kinds : h \in Of(k)
    BY <2>1
  <2>5. ASSUME NEW h
        PROVE  h \in HeldByObjects <=> \E k \in Kinds : \E i \in Slots(k) :
                                          \E n \in DOMAIN ObjectBlocks[k][i] : h = OfObject(k, i, n)
    BY <1>2, <2>2, <2>3, <2>4
  <2> QED BY <2>5, InObjectsIs
<1>5. Holdings = HoldingsOf(mine, page, Hands, ObjectBlocks)
  <2>1. HeldByCalls = InHands(Hands) /\ HeldByObjects = InObjects(ObjectBlocks)
    BY <1>3, <1>4
  <2> QED BY <2>1 DEF Holdings, HoldingsOf
<1>6. DOMAIN f = Holdings
  BY <1>5 DEF Held
<1>7. ASSUME NEW h \in Holdings PROVE f[h] = BlockHeld(h)
  <2>1. \/ \E a \in mine : h = OfApplication(a)
        \/ \E k \in Kinds : page[k] # Null /\ h = OfPage(k)
        \/ \E c \in Clients : \E n \in Present(Hands[c]) : h = OfCall(c, n)
        \/ \E k \in Kinds : \E i \in Slots(k) : \E n \in DOMAIN ObjectBlocks[k][i] :
              h = OfObject(k, i, n)
    BY <1>6, HeldIs
  <2>2. ASSUME NEW a \in mine, h = OfApplication(a) PROVE f[h] = BlockHeld(h)
    <3>1. BlockHeld(h) = a
      BY <2>2 DEF BlockHeld, OfApplication
    <3>2. f[h] = a
      BY <2>2, HeldIs
    <3> QED BY <3>1, <3>2
  <2>3. ASSUME NEW k \in Kinds, page[k] # Null, h = OfPage(k) PROVE f[h] = BlockHeld(h)
    <3>1. BlockHeld(h) = page[k]
      BY <2>3 DEF BlockHeld, OfPage
    <3>2. f[h] = page[k]
      BY <2>3, HeldIs
    <3> QED BY <3>1, <3>2
  <2>4. ASSUME NEW c \in Clients, NEW n \in Present(Hands[c]), h = OfCall(c, n)
        PROVE  f[h] = BlockHeld(h)
    <3>1. BlockHeld(h) = BlocksOf(c)[n]
      BY <2>4 DEF BlockHeld, OfCall
    <3>2. f[h] = Hands[c][n]
      BY <2>4, HeldIs
    <3> QED BY <1>1, <3>1, <3>2
  <2>5. ASSUME NEW k \in Kinds, NEW i \in Slots(k), NEW n \in DOMAIN ObjectBlocks[k][i],
               h = OfObject(k, i, n)
        PROVE  f[h] = BlockHeld(h)
    <3>1. BlockHeld(h) = slot[k][i].blocks[n]
      BY <2>5 DEF BlockHeld, OfObject
    <3>2. f[h] = ObjectBlocks[k][i][n]
      BY <2>5, HeldIs
    <3> QED BY <1>2, <3>1, <3>2
  <2> HIDE DEF f
  <2> QED BY <2>1, <2>2, <2>3, <2>4, <2>5
<1> QED BY <1>6, <1>7

LEMMA FiniteUse ==
    ASSUME HeapOk
    PROVE  IsFiniteSet(UsedAddresses(heap))
<1>1. heap \in Seq(Blocks)
  BY DEF HeapOk, Whole
<1>2. DOMAIN heap = 1 .. Len(heap) /\ Len(heap) \in Nat
  BY <1>1
<1>3. IsFiniteSet(UsedBlocks(heap))
  <2>1. IsFiniteSet(1 .. Len(heap))
    BY <1>2, FS_Interval
  <2> QED BY <1>2, <2>1, FS_Subset DEF UsedBlocks
<1> DEFINE f == [i \in UsedBlocks(heap) |-> heap[i].at]
<1>4. UsedAddresses(heap) = {f[i] : i \in UsedBlocks(heap)}
  BY DEF UsedAddresses
<1>5. f \in Surjection(UsedBlocks(heap), UsedAddresses(heap))
  BY <1>4 DEF Surjection
<1> HIDE DEF f
<1> QED BY <1>3, <1>5, FS_Surjection

\* There are as many holdings as blocks in use.
LEMMA OneHoldingEach ==
    ASSUME NEW f, f = [h \in DOMAIN f |-> f[h]], Exactly(f, UsedAddresses(heap)), HeapOk
    PROVE  Cardinality(DOMAIN f) = Cardinality(UsedAddresses(heap))
<1> DEFINE U == UsedAddresses(heap)
           D == DOMAIN f
<1>1. IsFiniteSet(U)
  BY FiniteUse
<1>2. f \in [D -> U] /\ \A g, h \in D : f[g] = f[h] => g = h
  BY DEF Exactly
<1>3. \A u \in U : \E h \in D : f[h] = u
  BY DEF Exactly
<1> HIDE DEF U, D
<1>4. f \in Injection(D, U) /\ f \in Surjection(D, U)
  BY <1>2, <1>3 DEF Injection, Surjection, IsInjective
<1> QED BY <1>1, <1>4, FS_Injection DEF D, U

\* The inductive invariant of the fixed-block pools.
THEOREM PoolInvariant == Spec => []PoolInv
<1>1. Init => PoolInv
  BY PoolStarts
<1>2. PoolInv /\ [Next]_vars => PoolInv'
  BY PoolKeeps
<1> QED BY <1>1, <1>2, PTL DEF Spec

\* Every block of kernel/heap.c that is in use has one owner, and what is owned
\* is in use, whatever fails in the middle of a creation, a deletion or a
\* resize; and the blocks of a pool of kernel/mempool.c are free or owned.
THEOREM NothingLeakedCorrect == Spec => []NothingLeaked
<1>1. MemInv /\ PoolInv => NothingLeaked
  <2> SUFFICES ASSUME MemInv, PoolInv PROVE NothingLeaked
    OBVIOUS
  <2> DEFINE f == Held(mine, page, Hands, ObjectBlocks)
  <2>1. DOMAIN f = Holdings /\ \A h \in Holdings : f[h] = BlockHeld(h)
    BY HeldIsBlock
  <2>2. f = [h \in DOMAIN f |-> f[h]]
    BY HeldIsFunction
  <2> HIDE DEF f
  <2>3. Exactly(f, UsedAddresses(heap)) /\ HeapOk
    BY DEF MemInv, OwnedExactly, f
  <2>4. {BlockHeld(h) : h \in Holdings} = {f[h] : h \in DOMAIN f}
    BY <2>1
  <2>5. Cardinality(Holdings) = Cardinality(UsedAddresses(heap))
    BY <2>1, <2>2, <2>3, OneHoldingEach
  <2> QED BY <2>3, <2>4, <2>5 DEF NothingLeaked, Exactly, PoolInv, AllBlocks
<1> QED BY <1>1, MemInvariant, PoolInvariant, PTL
=============================================================================
