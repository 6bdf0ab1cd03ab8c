---------------------------- MODULE MutexProofs -----------------------------
(***************************************************************************)
(* Proofs about module Mutex, for every set of tasks and mutexes.          *)
(*                                                                         *)
(* First the arithmetic of inheritance, without the kernel: priorities as  *)
(* a function, and recompute_chain as a walk that gives each task it       *)
(* visits the highest of its own priority and of its waiters' ones.  The   *)
(* walk settles every task within as many steps as there are tasks, even   *)
(* when the tasks wait for each other in a circle.  Then the functions of  *)
(* mutex.c and task.c, what each preserves, and the steps of the system.   *)
(***************************************************************************)
EXTENDS Mutex, KernelProofs, FiniteSetTheorems

-----------------------------------------------------------------------------
(* Inheritance as a walk.  W[t] are the tasks that wait for t, b[t] is the *)
(* priority that t was given, P[t] the one that it has.                    *)

\* p is the priority that t ought to have.
IsTop(W, b, P, t, p) ==
    /\ b[t] <= p
    /\ \A u \in W[t] : P[u] <= p
    /\ p = b[t] \/ \E u \in W[t] : P[u] = p

\* Every task has it but x and y.
SettledBut(W, b, P, x, y) == \A t \in Tasks \ {x, y} : IsTop(W, b, P, t, P[t])

\* Nobody waits for itself, or for two others.
Forest(W) ==
    /\ W \in [Tasks -> SUBSET Tasks]
    /\ \A t \in Tasks : t \notin W[t]
    /\ \A t, u, v \in Tasks : v \in W[t] /\ v \in W[u] => t = u

AtLeast(P, v) == {t \in Tasks : P[t] >= v}
Below(P, v) == {t \in Tasks : P[t] < v}

\* Only y is too low; c tasks, at least, are not below what it ought to have.
Rising(W, b, P, x, y, v, c) ==
    /\ SettledBut(W, b, P, x, y)
    /\ y \in Tasks
    /\ IsTop(W, b, P, y, v) /\ P[y] < v
    /\ Cardinality(AtLeast(P, v)) >= c

\* Only y is too high; c tasks, at least, are below what it has.
Falling(W, b, P, x, y, v, c) ==
    /\ SettledBut(W, b, P, x, y)
    /\ y \in Tasks
    /\ P[y] = v /\ \A p \in Priorities : IsTop(W, b, P, y, p) => p < v
    /\ Cardinality(Below(P, v)) >= c

LEMMA TopIsOne ==
    ASSUME NEW W \in [Tasks -> SUBSET Tasks], NEW b \in [Tasks -> Priorities],
           NEW P \in [Tasks -> Priorities], NEW t \in Tasks,
           NEW p \in Priorities, NEW q \in Priorities,
           IsTop(W, b, P, t, p), IsTop(W, b, P, t, q)
    PROVE  p = q
<1>1. p <= q /\ q <= p
  BY DEF IsTop
<1> QED BY <1>1 DEF Priorities

\* What a change of the priority of u means for another task y
LEMMA TopAfter ==
    ASSUME NEW W, Forest(W), NEW b \in [Tasks -> Priorities],
           NEW P \in [Tasks -> Priorities], NEW u \in Tasks, NEW p \in Priorities,
           NEW y \in Tasks
    PROVE  LET Q == [P EXCEPT ![u] = p]
           IN  /\ Q \in [Tasks -> Priorities]
               /\ IsTop(W, b, P, u, p) => IsTop(W, b, Q, u, Q[u])
               /\ y # u => Q[y] = P[y]
               /\ y # u /\ u \notin W[y] /\ IsTop(W, b, P, y, P[y]) => IsTop(W, b, Q, y, Q[y])
<1> DEFINE Q == [P EXCEPT ![u] = p]
<1>1. /\ Q \in [Tasks -> Priorities] /\ Q[u] = p
      /\ \A t \in Tasks \ {u} : Q[t] = P[t]
  OBVIOUS
<1> HIDE DEF Q
<1>2. W[u] \subseteq Tasks \ {u} /\ (u \notin W[y] => W[y] \subseteq Tasks \ {u})
  BY DEF Forest
<1>3. IsTop(W, b, P, u, p) => IsTop(W, b, Q, u, Q[u])
  BY <1>1, <1>2 DEF IsTop
<1>4. y # u => Q[y] = P[y]
  BY <1>1
<1>5. y # u /\ u \notin W[y] /\ IsTop(W, b, P, y, P[y]) => IsTop(W, b, Q, y, Q[y])
  BY <1>1, <1>2, <1>4 DEF IsTop
<1> QED BY <1>1, <1>3, <1>4, <1>5 DEF Q

\* A settled task that u waits for, when u rises
LEMMA TopAfterRise ==
    ASSUME NEW W, Forest(W), NEW b \in [Tasks -> Priorities],
           NEW P \in [Tasks -> Priorities], NEW u \in Tasks, NEW p \in Priorities,
           P[u] <= p, NEW y \in Tasks, u \in W[y], IsTop(W, b, P, y, P[y])
    PROVE  LET Q == [P EXCEPT ![u] = p]
           IN  \/ IsTop(W, b, Q, y, Q[y])
               \/ IsTop(W, b, Q, y, p) /\ Q[y] < p
<1> DEFINE Q == [P EXCEPT ![u] = p]
<1>0. SUFFICES IsTop(W, b, Q, y, Q[y]) \/ (IsTop(W, b, Q, y, p) /\ Q[y] < p)
  OBVIOUS
<1>1. y # u /\ W[y] \subseteq Tasks
  BY DEF Forest
<1>2. /\ Q \in [Tasks -> Priorities] /\ Q[u] = p
      /\ \A t \in Tasks \ {u} : Q[t] = P[t]
  OBVIOUS
<1>3. P[y] \in Priorities /\ p \in Int /\ P[y] \in Int /\ Q[y] = P[y]
  BY <1>1, <1>2 DEF Priorities
<1> HIDE DEF Q
<1>4. CASE p <= P[y]
  <2>1. \A v \in W[y] : Q[v] <= Q[y]
    BY <1>1, <1>2, <1>3, <1>4 DEF IsTop
  <2>2. CASE P[y] = b[y]
    <3>1. Q[y] = b[y] /\ b[y] <= Q[y]
      BY <1>3, <2>2
    <3> QED BY <2>1, <3>1 DEF IsTop
  <2>3. CASE P[y] # b[y]
    <3>1. PICK v \in W[y] : P[v] = P[y]
      BY <2>3 DEF IsTop
    <3>2. CASE v = u
      <4>1. p = P[y]
        BY <1>3, <1>4, <3>1, <3>2
      <4> QED BY <1>2, <1>3, <2>1, <4>1 DEF IsTop
    <3>3. CASE v # u
      BY <1>1, <1>2, <1>3, <2>1, <3>1, <3>3 DEF IsTop
    <3> QED BY <3>2, <3>3
  <2> QED BY <2>2, <2>3
<1>5. CASE ~(p <= P[y])
  <2>1. Q[y] < p
    BY <1>3, <1>5
  <2>2. b[y] \in Int /\ \A t \in Tasks : P[t] \in Int /\ Q[t] \in Int
    BY <1>2 DEF Priorities
  <2>3. b[y] <= p
    BY <1>3, <1>5, <2>2 DEF IsTop
  <2>4. \A v \in W[y] : Q[v] <= p
    BY <1>1, <1>2, <1>3, <1>5, <2>2 DEF IsTop
  <2> QED BY <1>2, <2>1, <2>3, <2>4 DEF IsTop
<1> QED BY <1>4, <1>5

\* ... and when u falls
LEMMA TopAfterFall ==
    ASSUME NEW W, Forest(W), NEW b \in [Tasks -> Priorities],
           NEW P \in [Tasks -> Priorities], NEW u \in Tasks, NEW p \in Priorities,
           p <= P[u], NEW y \in Tasks, u \in W[y], IsTop(W, b, P, y, P[y])
    PROVE  LET Q == [P EXCEPT ![u] = p]
           IN  \/ IsTop(W, b, Q, y, Q[y])
               \/ /\ Q[y] = P[u]
                  /\ \A q \in Priorities : IsTop(W, b, Q, y, q) => q < Q[y]
<1> DEFINE Q == [P EXCEPT ![u] = p]
<1>1. y # u /\ W[y] \subseteq Tasks
  BY DEF Forest
<1>2. /\ Q \in [Tasks -> Priorities] /\ Q[u] = p
      /\ \A t \in Tasks \ {u} : Q[t] = P[t]
  OBVIOUS
<1>3. Q[y] = P[y] /\ p \in Int /\ b[y] \in Int /\ \A t \in Tasks : P[t] \in Int /\ Q[t] \in Int
  BY <1>1, <1>2 DEF Priorities
<1> HIDE DEF Q
<1>4. \A v \in W[y] : Q[v] <= Q[y]
  BY <1>1, <1>2, <1>3 DEF IsTop
<1>5. SUFFICES ASSUME ~IsTop(W, b, Q, y, Q[y])
               PROVE  /\ Q[y] = P[u]
                      /\ \A q \in Priorities : IsTop(W, b, Q, y, q) => q < Q[y]
  BY DEF Q
<1>6. Q[y] # b[y] /\ \A v \in W[y] : Q[v] # Q[y]
  BY <1>3, <1>4, <1>5 DEF IsTop
<1>7. PICK v \in W[y] : P[v] = P[y]
  BY <1>3, <1>6 DEF IsTop
<1>8. v = u
  BY <1>1, <1>2, <1>3, <1>6, <1>7
<1>9. \A q \in Priorities : IsTop(W, b, Q, y, q) => q < Q[y]
  <2> TAKE q \in Priorities
  <2>1. q \in Int
    BY DEF Priorities
  <2>2. b[y] <= Q[y]
    BY <1>3 DEF IsTop
  <2> QED BY <1>1, <1>3, <1>4, <1>6, <2>1, <2>2 DEF IsTop
<1> QED BY <1>3, <1>7, <1>8, <1>9

LEMMA AtLeastGrows ==
    ASSUME NEW P \in [Tasks -> Priorities], NEW y \in Tasks, NEW v \in Priorities,
           P[y] < v, NEW c \in Nat, Cardinality(AtLeast(P, v)) >= c
    PROVE  Cardinality(AtLeast([P EXCEPT ![y] = v], v)) >= c + 1
<1> DEFINE A == AtLeast(P, v)
<1>1. IsFiniteSet(A)
  BY MutexAssumption, FS_Subset DEF AtLeast
<1>2. y \notin A
  BY DEF AtLeast, Priorities
<1>3. AtLeast([P EXCEPT ![y] = v], v) = A \union {y}
  BY DEF AtLeast, Priorities
<1>4. Cardinality(A \union {y}) = Cardinality(A) + 1 /\ Cardinality(A) \in Nat
  BY <1>1, <1>2, FS_AddElement, FS_CardinalityType
<1>5. Cardinality(A) >= c
  OBVIOUS
<1>6. Cardinality(AtLeast([P EXCEPT ![y] = v], v)) = Cardinality(A) + 1
  BY <1>3, <1>4
<1> HIDE DEF A
<1> QED BY <1>4, <1>5, <1>6

LEMMA BelowGrows ==
    ASSUME NEW P \in [Tasks -> Priorities], NEW y \in Tasks, NEW p \in Priorities,
           p < P[y], NEW c \in Nat, Cardinality(Below(P, P[y])) >= c
    PROVE  Cardinality(Below([P EXCEPT ![y] = p], P[y])) >= c + 1
<1> DEFINE A == Below(P, P[y])
<1>1. IsFiniteSet(A)
  BY MutexAssumption, FS_Subset DEF Below
<1>2. y \notin A
  BY DEF Below, Priorities
<1>3. Below([P EXCEPT ![y] = p], P[y]) = A \union {y}
  BY DEF Below, Priorities
<1>4. Cardinality(A \union {y}) = Cardinality(A) + 1 /\ Cardinality(A) \in Nat
  BY <1>1, <1>2, FS_AddElement, FS_CardinalityType
<1>5. Cardinality(A) >= c
  OBVIOUS
<1>6. Cardinality(Below([P EXCEPT ![y] = p], P[y])) = Cardinality(A) + 1
  BY <1>3, <1>4
<1> HIDE DEF A
<1> QED BY <1>4, <1>5, <1>6

\* A set of tasks that leaves one out is smaller than a chain may be long.
LEMMA NotAll ==
    ASSUME NEW A \in SUBSET Tasks, NEW y \in Tasks, y \notin A
    PROVE  Cardinality(A) < ChainLimit
<1>1. IsFiniteSet(A) /\ Cardinality(A) \in Nat
  BY MutexAssumption, FS_Subset, FS_CardinalityType
<1>2. Cardinality(A \union {y}) = Cardinality(A) + 1
  BY <1>1, FS_AddElement
<1>3. A \union {y} \in SUBSET Tasks
  OBVIOUS
<1>4. Cardinality(A \union {y}) <= Cardinality(Tasks) /\ Cardinality(Tasks) \in Nat
  BY <1>3, MutexAssumption, FS_Subset, FS_CardinalityType
<1> QED BY <1>1, <1>2, <1>4, MutexAssumption

\* The settled ones stay so, but perhaps for the one that y waits for.
LEMMA SettledElsewhere ==
    ASSUME NEW W, Forest(W), NEW b \in [Tasks -> Priorities],
           NEW P \in [Tasks -> Priorities], NEW x, NEW y \in Tasks, NEW p \in Priorities,
           NEW z, \A t \in Tasks : y \in W[t] => t = z,
           SettledBut(W, b, P, x, y), IsTop(W, b, P, y, p)
    PROVE  SettledBut(W, b, [P EXCEPT ![y] = p], x, z)
<1> DEFINE Q == [P EXCEPT ![y] = p]
<1>1. SUFFICES ASSUME NEW t \in Tasks \ {x, z} PROVE IsTop(W, b, Q, t, Q[t])
  BY DEF SettledBut
<1>2. CASE t = y
  BY <1>2, TopAfter
<1>3. CASE t # y
  <2>1. y \notin W[t] /\ IsTop(W, b, P, t, P[t])
    BY <1>3 DEF SettledBut
  <2> QED BY <1>3, <2>1, TopAfter
<1> QED BY <1>2, <1>3

LEMMA RiseStep ==
    ASSUME NEW W, Forest(W), NEW b \in [Tasks -> Priorities],
           NEW P \in [Tasks -> Priorities], NEW x, NEW y \in Tasks, NEW v \in Priorities,
           NEW c \in Nat, Rising(W, b, P, x, y, v, c),
           NEW z, \A t \in Tasks : y \in W[t] => t = z
    PROVE  LET Q == [P EXCEPT ![y] = v]
           IN  SettledBut(W, b, Q, x, x) \/ Rising(W, b, Q, x, z, v, c + 1)
<1> DEFINE Q == [P EXCEPT ![y] = v]
<1>0. SUFFICES SettledBut(W, b, Q, x, x) \/ Rising(W, b, Q, x, z, v, c + 1)
  OBVIOUS
<1>1. IsTop(W, b, P, y, v) /\ P[y] < v /\ SettledBut(W, b, P, x, y)
  BY DEF Rising
<1>2. SettledBut(W, b, Q, x, z)
  BY <1>1, SettledElsewhere
<1>3. Cardinality(AtLeast(Q, v)) >= c + 1
  BY <1>1, AtLeastGrows DEF Rising
<1>4. CASE z \in Tasks /\ z # x /\ y \in W[z]
  <2>1. P[y] <= v /\ IsTop(W, b, P, z, P[z])
    BY <1>1, <1>4 DEF Priorities, SettledBut, Forest
  <2>2. IsTop(W, b, Q, z, Q[z]) \/ (IsTop(W, b, Q, z, v) /\ Q[z] < v)
    BY <1>4, <2>1, TopAfterRise
  <2> HIDE DEF Q
  <2> QED BY <1>2, <1>3, <1>4, <2>2 DEF Rising, SettledBut
<1>5. CASE z \in Tasks /\ z # x /\ y \notin W[z] /\ z # y
  <2>1. IsTop(W, b, P, z, P[z])
    BY <1>1, <1>5 DEF SettledBut
  <2>2. IsTop(W, b, Q, z, Q[z])
    BY <1>5, <2>1, TopAfter
  <2> HIDE DEF Q
  <2> QED BY <1>2, <2>2 DEF SettledBut
<1>6. CASE z = y
  <2>1. IsTop(W, b, Q, z, Q[z])
    BY <1>1, <1>6, TopAfter
  <2> HIDE DEF Q
  <2> QED BY <1>2, <2>1 DEF SettledBut
<1>7. CASE z \notin Tasks \/ z = x
  <2> HIDE DEF Q
  <2> QED BY <1>2, <1>7 DEF SettledBut
<1> QED BY <1>4, <1>5, <1>6, <1>7

LEMMA FallStep ==
    ASSUME NEW W, Forest(W), NEW b \in [Tasks -> Priorities],
           NEW P \in [Tasks -> Priorities], NEW x, NEW y \in Tasks, NEW v \in Priorities,
           NEW c \in Nat, Falling(W, b, P, x, y, v, c),
           NEW p \in Priorities, IsTop(W, b, P, y, p),
           NEW z, \A t \in Tasks : y \in W[t] => t = z
    PROVE  LET Q == [P EXCEPT ![y] = p]
           IN  SettledBut(W, b, Q, x, x) \/ Falling(W, b, Q, x, z, v, c + 1)
<1> DEFINE Q == [P EXCEPT ![y] = p]
<1>0. SUFFICES SettledBut(W, b, Q, x, x) \/ Falling(W, b, Q, x, z, v, c + 1)
  OBVIOUS
<1>1. P[y] = v /\ p < v /\ SettledBut(W, b, P, x, y)
  BY DEF Falling
<1>2. SettledBut(W, b, Q, x, z)
  BY <1>1, SettledElsewhere
<1>3. Cardinality(Below(Q, v)) >= c + 1
  BY <1>1, BelowGrows DEF Falling
<1>4. CASE z \in Tasks /\ z # x /\ y \in W[z]
  <2>1. p <= P[y] /\ IsTop(W, b, P, z, P[z])
    BY <1>1, <1>4 DEF Priorities, SettledBut, Forest
  <2>2. \/ IsTop(W, b, Q, z, Q[z])
        \/ Q[z] = v /\ \A q \in Priorities : IsTop(W, b, Q, z, q) => q < Q[z]
    BY <1>1, <1>4, <2>1, TopAfterFall
  <2> HIDE DEF Q
  <2> QED BY <1>2, <1>3, <1>4, <2>2 DEF Falling, SettledBut
<1>5. CASE z \in Tasks /\ z # x /\ y \notin W[z] /\ z # y
  <2>1. IsTop(W, b, P, z, P[z])
    BY <1>1, <1>5 DEF SettledBut
  <2>2. IsTop(W, b, Q, z, Q[z])
    BY <1>5, <2>1, TopAfter
  <2> HIDE DEF Q
  <2> QED BY <1>2, <2>2 DEF SettledBut
<1>6. CASE z = y
  <2>1. IsTop(W, b, Q, z, Q[z])
    BY <1>6, TopAfter
  <2> HIDE DEF Q
  <2> QED BY <1>2, <2>1 DEF SettledBut
<1>7. CASE z \notin Tasks \/ z = x
  <2> HIDE DEF Q
  <2> QED BY <1>2, <1>7 DEF SettledBut
<1> QED BY <1>4, <1>5, <1>6, <1>7

\* A step from y to z changes the priorities from O to Q.
WalkedOn(W, b, O, Q, y, z) ==
    /\ y = NoTask => Q = O /\ z = NoTask
    /\ y # NoTask =>
          /\ \E p \in Priorities : IsTop(W, b, O, y, p) /\ Q = [O EXCEPT ![y] = p]
          /\ \A t \in Tasks : y \in W[t] => t = z

\* A walk of N steps: the i-th is taken at task[i], with priorities P[i] before it.
Walk(W, b, P, task, N) ==
    /\ Forest(W) /\ b \in [Tasks -> Priorities]
    /\ P \in [0 .. N -> [Tasks -> Priorities]]
    /\ task \in [0 .. N -> Tasks \union {NoTask}]
    /\ \A i \in 0 .. N - 1 : WalkedOn(W, b, P[i], P[i + 1], task[i], task[i + 1])

\* What is known before step i: x has its priority for other reasons, and at
\* most one more task is not settled.  It is the next one of the walk, or lies
\* ahead, but no further than the place m.
WalkAt(W, b, P, task, x, i, m) ==
    \/ SettledBut(W, b, P[i], x, x)
    \/ \E l \in Nat : \E v \in Priorities :
          /\ l = i \/ (i <= l /\ l <= m)
          /\ \/ Rising(W, b, P[i], x, task[l], v, l)
             \/ Falling(W, b, P[i], x, task[l], v, l)

LEMMA WalkStep ==
    ASSUME NEW N \in Nat, NEW W, NEW b, NEW P, NEW task, Walk(W, b, P, task, N), NEW x,
           NEW i \in 0 .. N - 1, NEW m \in 0 .. N, WalkAt(W, b, P, task, x, i, m),
           task[i] # NoTask => task[i] # x
    PROVE  WalkAt(W, b, P, task, x, i + 1, m)
<1>1. i + 1 \in 0 .. N /\ i \in 0 .. N /\ i \in Nat /\ i + 1 \in Nat
  OBVIOUS
<1>2. /\ Forest(W) /\ b \in [Tasks -> Priorities] /\ W \in [Tasks -> SUBSET Tasks]
      /\ P[i] \in [Tasks -> Priorities] /\ P[i + 1] \in [Tasks -> Priorities]
      /\ task[i] \in Tasks \union {NoTask}
  BY <1>1 DEF Walk, Forest
<1>3. ASSUME P[i + 1] = P[i],
             NEW l \in Nat, l = i \/ (i <= l /\ l <= m), NEW v \in Priorities,
             task[l] # task[i],
             Rising(W, b, P[i], x, task[l], v, l) \/ Falling(W, b, P[i], x, task[l], v, l)
      PROVE  WalkAt(W, b, P, task, x, i + 1, m)
  <2>1. l # i
    BY <1>3
  <2>2. i + 1 <= l /\ l <= m
    BY <1>1, <1>3, <2>1
  <2>3. Rising(W, b, P[i + 1], x, task[l], v, l) \/ Falling(W, b, P[i + 1], x, task[l], v, l)
    BY <1>3
  <2> QED BY <2>2, <2>3 DEF WalkAt
<1>4. CASE task[i] = NoTask
  <2>1. P[i + 1] = P[i]
    BY <1>4 DEF Walk, WalkedOn
  <2>2. CASE SettledBut(W, b, P[i], x, x)
    BY <2>1, <2>2 DEF WalkAt
  <2>3. ASSUME NEW l \in Nat, l = i \/ (i <= l /\ l <= m), NEW v \in Priorities,
               Rising(W, b, P[i], x, task[l], v, l) \/ Falling(W, b, P[i], x, task[l], v, l)
        PROVE  WalkAt(W, b, P, task, x, i + 1, m)
    <3>1. task[l] # task[i]
      BY <1>4, <2>3, KernelAssumption DEF Rising, Falling
    <3> QED BY <1>3, <2>1, <2>3, <3>1
  <2> QED BY <2>2, <2>3 DEF WalkAt
<1>5. CASE task[i] # NoTask
  <2> DEFINE y == task[i]
  <2>1. y \in Tasks /\ y # x
    BY <1>2, <1>5
  <2>2. PICK p \in Priorities :
           IsTop(W, b, P[i], y, p) /\ P[i + 1] = [P[i] EXCEPT ![y] = p]
    BY <1>5 DEF Walk, WalkedOn
  <2>3. \A t \in Tasks : y \in W[t] => t = task[i + 1]
    BY <1>5 DEF Walk, WalkedOn
  <2>4. P[i][y] \in Priorities
    BY <1>2, <2>1
  <2>5. ASSUME IsTop(W, b, P[i], y, P[i][y]) PROVE P[i + 1] = P[i]
    <3>1. p = P[i][y]
      BY <1>2, <2>1, <2>2, <2>4, <2>5, TopIsOne
    <3> QED BY <1>2, <2>1, <2>2, <3>1
  <2>6. CASE SettledBut(W, b, P[i], x, x)
    <3>1. P[i + 1] = P[i]
      BY <2>1, <2>5, <2>6 DEF SettledBut
    <3> QED BY <2>6, <3>1 DEF WalkAt
  <2>7. ASSUME NEW l \in Nat, l = i \/ (i <= l /\ l <= m), NEW v \in Priorities,
               Rising(W, b, P[i], x, task[l], v, l) \/ Falling(W, b, P[i], x, task[l], v, l)
        PROVE  WalkAt(W, b, P, task, x, i + 1, m)
    <3>1. i <= l
      BY <1>1, <2>7
    <3>2. CASE task[l] # y
      <4>1. IsTop(W, b, P[i], y, P[i][y])
        BY <2>1, <2>7, <3>2 DEF Rising, Falling, SettledBut
      <4> QED BY <1>3, <2>5, <2>7, <3>2, <4>1
    <3>3. CASE task[l] = y /\ Rising(W, b, P[i], x, task[l], v, l)
      <4>1. IsTop(W, b, P[i], y, v)
        BY <3>3 DEF Rising
      <4>2. p = v
        BY <1>2, <2>1, <2>2, <4>1, TopIsOne
      <4>3. \/ SettledBut(W, b, P[i + 1], x, x)
            \/ Rising(W, b, P[i + 1], x, task[i + 1], v, l + 1)
        BY <1>2, <2>1, <2>2, <2>3, <3>3, <4>2, RiseStep
      <4>4. Cardinality(AtLeast(P[i + 1], v)) \in Nat
        BY MutexAssumption, FS_Subset, FS_CardinalityType DEF AtLeast
      <4>5. Rising(W, b, P[i + 1], x, task[i + 1], v, l + 1)
               => Rising(W, b, P[i + 1], x, task[i + 1], v, i + 1)
        BY <1>1, <3>1, <4>4 DEF Rising
      <4> QED BY <1>1, <4>3, <4>5 DEF WalkAt
    <3>4. CASE task[l] = y /\ Falling(W, b, P[i], x, task[l], v, l)
      <4>1. \/ SettledBut(W, b, P[i + 1], x, x)
            \/ Falling(W, b, P[i + 1], x, task[i + 1], v, l + 1)
        BY <1>2, <2>1, <2>2, <2>3, <3>4, FallStep
      <4>2. Cardinality(Below(P[i + 1], v)) \in Nat
        BY MutexAssumption, FS_Subset, FS_CardinalityType DEF Below
      <4>3. Falling(W, b, P[i + 1], x, task[i + 1], v, l + 1)
               => Falling(W, b, P[i + 1], x, task[i + 1], v, i + 1)
        BY <1>1, <3>1, <4>2 DEF Falling
      <4> QED BY <1>1, <4>1, <4>3 DEF WalkAt
    <3> QED BY <2>7, <3>2, <3>3, <3>4
  <2> QED BY <2>6, <2>7 DEF WalkAt
<1> QED BY <1>4, <1>5

\* As long as the walk does not come to x
LEMMA WalkOn ==
    ASSUME NEW N \in Nat, NEW W, NEW b, NEW P, NEW task, Walk(W, b, P, task, N), NEW x,
           NEW n \in 0 .. N, NEW m \in 0 .. N, WalkAt(W, b, P, task, x, 0, m),
           \A j \in 0 .. n - 1 : task[j] # NoTask => task[j] # x
    PROVE  WalkAt(W, b, P, task, x, n, m)
<1> DEFINE Wrong == {j \in 0 .. n : ~WalkAt(W, b, P, task, x, j, m)}
<1>1. SUFFICES ASSUME Wrong # {} PROVE FALSE
  OBVIOUS
<1>2. Wrong \in SUBSET Nat
  OBVIOUS
<1>3. PICK j \in Wrong : \A q \in Wrong : j <= q
  BY <1>1, <1>2, LeastIsIn
<1>4. j # 0 /\ j \in 0 .. n
  BY <1>3
<1>5. j - 1 \in 0 .. n - 1 /\ j - 1 \in 0 .. N - 1 /\ j - 1 \in 0 .. n
  BY <1>4
<1>6. WalkAt(W, b, P, task, x, j - 1, m)
  BY <1>3, <1>4, <1>5
<1>7. task[j - 1] # NoTask => task[j - 1] # x
  BY <1>5
<1>8. WalkAt(W, b, P, task, x, (j - 1) + 1, m)
  BY <1>5, <1>6, <1>7, WalkStep
<1>9. (j - 1) + 1 = j
  BY <1>4
<1> QED BY <1>3, <1>8, <1>9

\* After as many steps as there are tasks everything is settled, but for x.
LEMMA WalkEnds ==
    ASSUME NEW W, NEW b, NEW P, NEW task, Walk(W, b, P, task, ChainLimit), NEW x,
           NEW m \in 0 .. ChainLimit, WalkAt(W, b, P, task, x, 0, m),
           \A j \in 0 .. ChainLimit - 1 : task[j] # NoTask => task[j] # x
    PROVE  SettledBut(W, b, P[ChainLimit], x, x)
<1> DEFINE n == ChainLimit
<1>1. n \in Nat /\ n \in 0 .. n
  BY MutexAssumption
<1>2. WalkAt(W, b, P, task, x, n, m)
  BY <1>1, WalkOn
<1>3. P[n] \in [Tasks -> Priorities]
  BY <1>1 DEF Walk
<1>4. ASSUME NEW v \in Priorities, Rising(W, b, P[n], x, task[n], v, n)
      PROVE  FALSE
  <2>1. task[n] \in Tasks /\ ~(P[n][task[n]] >= v)
    BY <1>3, <1>4 DEF Rising, Priorities
  <2>2. task[n] \notin AtLeast(P[n], v) /\ AtLeast(P[n], v) \in SUBSET Tasks
    BY <2>1 DEF AtLeast
  <2>3. Cardinality(AtLeast(P[n], v)) < ChainLimit
    BY <2>1, <2>2, NotAll
  <2>4. Cardinality(AtLeast(P[n], v)) >= n /\ Cardinality(AtLeast(P[n], v)) \in Nat
    BY <1>4, MutexAssumption, FS_Subset, FS_CardinalityType DEF Rising, AtLeast
  <2> QED BY <1>1, <2>3, <2>4
<1>5. ASSUME NEW v \in Priorities, Falling(W, b, P[n], x, task[n], v, n)
      PROVE  FALSE
  <2>1. task[n] \in Tasks /\ ~(P[n][task[n]] < v)
    BY <1>3, <1>5 DEF Falling, Priorities
  <2>2. task[n] \notin Below(P[n], v) /\ Below(P[n], v) \in SUBSET Tasks
    BY <2>1 DEF Below
  <2>3. Cardinality(Below(P[n], v)) < ChainLimit
    BY <2>1, <2>2, NotAll
  <2>4. Cardinality(Below(P[n], v)) >= n /\ Cardinality(Below(P[n], v)) \in Nat
    BY <1>5, MutexAssumption, FS_Subset, FS_CardinalityType DEF Falling, Below
  <2> QED BY <1>1, <2>3, <2>4
<1>6. \A l \in Nat : l = n \/ (n <= l /\ l <= m) => l = n
  BY <1>1
<1> QED BY <1>2, <1>4, <1>5, <1>6 DEF WalkAt

\* The start of a walk at the only task that may be wrong
LEMMA WalkStarts ==
    ASSUME NEW N \in Nat, NEW W, NEW b, NEW P, NEW task, Walk(W, b, P, task, N), NEW x,
           SettledBut(W, b, P[0], x, task[0]), 1 <= N, NEW m \in 0 .. N
    PROVE  WalkAt(W, b, P, task, x, 0, m)
<1>1. /\ 0 \in 0 .. N - 1 /\ 0 \in 0 .. N
      /\ P[0] \in [Tasks -> Priorities] /\ task[0] \in Tasks \union {NoTask}
  BY DEF Walk
<1>2. CASE task[0] \notin Tasks
  BY <1>2 DEF WalkAt, SettledBut
<1>3. CASE task[0] \in Tasks
  <2> DEFINE y == task[0]
  <2>1. y # NoTask
    BY <1>3, KernelAssumption
  <2>2. PICK p \in Priorities : IsTop(W, b, P[0], y, p)
    BY <1>1, <2>1 DEF Walk, WalkedOn
  <2>3. P[0][y] \in Priorities
    BY <1>1, <1>3
  <2>4. CASE p = P[0][y]
    BY <2>2, <2>4 DEF WalkAt, SettledBut
  <2>5. CASE P[0][y] < p
    <3>1. Cardinality(AtLeast(P[0], p)) >= 0
      BY MutexAssumption, FS_Subset, FS_CardinalityType DEF AtLeast
    <3>2. Rising(W, b, P[0], x, task[0], p, 0)
      BY <1>3, <2>2, <2>5, <3>1 DEF Rising
    <3> QED BY <1>1, <3>2 DEF WalkAt
  <2>6. CASE p < P[0][y]
    <3>1. Cardinality(Below(P[0], P[0][y])) >= 0
      BY MutexAssumption, FS_Subset, FS_CardinalityType DEF Below
    <3>2. \A q \in Priorities : IsTop(W, b, P[0], y, q) => q < P[0][y]
      <4> TAKE q \in Priorities
      <4>1. IsTop(W, b, P[0], y, q) => q = p
        BY <1>1, <1>3, <2>2, TopIsOne DEF Walk, Forest
      <4> QED BY <2>6, <4>1
    <3>3. Falling(W, b, P[0], x, task[0], P[0][y], 0)
      BY <1>3, <3>1, <3>2 DEF Falling
    <3> QED BY <2>3, <3>3 DEF WalkAt
  <2> QED BY <2>2, <2>3, <2>4, <2>5, <2>6 DEF Priorities
<1> QED BY <1>2, <1>3

LEMMA ChainLimitPositive == ChainLimit \in Nat /\ 1 <= ChainLimit
<1>1. Cardinality({}) < ChainLimit
  BY NotAll, MutexAssumption
<1> QED BY <1>1, FS_EmptySet, MutexAssumption

\* A walk from the only task that may be wrong settles all tasks.
LEMMA OneWalkSettles ==
    ASSUME NEW W, NEW b, NEW P, NEW task, Walk(W, b, P, task, ChainLimit), NEW x,
           SettledBut(W, b, P[0], x, task[0]),
           \A j \in 0 .. ChainLimit - 1 : task[j] # NoTask => task[j] # x
    PROVE  SettledBut(W, b, P[ChainLimit], x, x)
<1>1. 0 \in 0 .. ChainLimit
  BY ChainLimitPositive
<1>2. WalkAt(W, b, P, task, x, 0, 0)
  BY <1>1, ChainLimitPositive, WalkStarts
<1> QED BY <1>1, <1>2, WalkEnds

\* The end of a walk is a walk.
LEMMA WalkFrom ==
    ASSUME NEW N \in Nat, NEW W, NEW b, NEW P, NEW task, Walk(W, b, P, task, N),
           NEW n \in 0 .. N
    PROVE  Walk(W, b, [i \in 0 .. N - n |-> P[n + i]], [i \in 0 .. N - n |-> task[n + i]], N - n)
<1> DEFINE Q == [i \in 0 .. N - n |-> P[n + i]]
           last == [i \in 0 .. N - n |-> task[n + i]]
<1>1. /\ Forest(W) /\ b \in [Tasks -> Priorities]
      /\ P \in [0 .. N -> [Tasks -> Priorities]]
      /\ task \in [0 .. N -> Tasks \union {NoTask}]
  BY DEF Walk
<1>2. \A i \in 0 .. N - n : n + i \in 0 .. N /\ Q[i] = P[n + i] /\ last[i] = task[n + i]
  OBVIOUS
<1>3. /\ Q \in [0 .. N - n -> [Tasks -> Priorities]]
      /\ last \in [0 .. N - n -> Tasks \union {NoTask}]
  BY <1>1, <1>2
<1> HIDE DEF Q, last
<1>4. ASSUME NEW i \in 0 .. (N - n) - 1
      PROVE  WalkedOn(W, b, Q[i], Q[i + 1], last[i], last[i + 1])
  <2>1. n + i \in 0 .. N - 1 /\ i \in 0 .. N - n /\ i + 1 \in 0 .. N - n
    OBVIOUS
  <2>2. n + (i + 1) = (n + i) + 1
    OBVIOUS
  <2>3. Q[i] = P[n + i] /\ last[i] = task[n + i]
    BY <1>2, <2>1
  <2>4. Q[i + 1] = P[(n + i) + 1] /\ last[i + 1] = task[(n + i) + 1]
    BY <1>2, <2>1, <2>2
  <2> QED BY <2>1, <2>3, <2>4 DEF Walk
<1>5. Walk(W, b, Q, last, N - n)
  BY <1>1, <1>3, <1>4 DEF Walk
<1> QED BY <1>5 DEF Q, last

\* The priority of x has been changed.  First the walk from the task that x
\* waits for, then the one from x: on the same edges, but perhaps in a circle.
LEMMA TwoWalksSettle ==
    ASSUME NEW W, NEW b, NEW P, NEW task, Walk(W, b, P, task, ChainLimit),
           NEW R, NEW turn, Walk(W, b, R, turn, ChainLimit),
           NEW x \in Tasks, SettledBut(W, b, P[0], x, task[0]),
           R[0] = P[ChainLimit], turn[0] = x,
           \A i, j \in 0 .. ChainLimit - 1 : task[i] = turn[j] => task[i + 1] = turn[j + 1]
    PROVE  SettledBut(W, b, R[ChainLimit], NoTask, NoTask)
<1> DEFINE N == ChainLimit
           Met == {j \in 0 .. N - 1 : task[j] = x}
<1>1. N \in Nat /\ 1 <= N /\ 0 \in 0 .. N
  BY ChainLimitPositive
<1>2. \A j \in 0 .. N - 1 : turn[j] # NoTask => turn[j] # NoTask
  OBVIOUS
<1>3. x # NoTask
  BY KernelAssumption
<1>4. CASE Met = {}
  <2>1. SettledBut(W, b, P[N], x, x)
    BY <1>4, OneWalkSettles
  <2>2. SettledBut(W, b, R[0], NoTask, turn[0])
    BY <2>1 DEF SettledBut
  <2> QED BY <1>2, <2>2, OneWalkSettles
<1>5. CASE Met # {}
  <2>1. Met \in SUBSET Nat
    BY <1>1
  <2>2. PICK n \in Met : \A j \in Met : n <= j
    BY <1>5, <2>1, LeastIsIn
  <2>3. n \in 0 .. N - 1 /\ n \in 0 .. N /\ N - n \in 0 .. N /\ 1 <= N - n /\ N - n \in Nat
    BY <1>1, <2>2
  <2>4. \A j \in 0 .. n - 1 : task[j] # x
    BY <1>1, <2>2, <2>3
  <2>5. WalkAt(W, b, P, task, x, 0, 0)
    BY <1>1, WalkStarts
  <2>6. WalkAt(W, b, P, task, x, n, 0)
    BY <1>1, <2>3, <2>4, <2>5, WalkOn
  <2>7. SettledBut(W, b, P[n], x, x)
    <3>1. \A l \in Nat : l = n \/ (n <= l /\ l <= 0) => l = n
      BY <2>3
    <3>2. task[n] = x
      BY <2>2
    <3> QED BY <2>6, <3>1, <3>2 DEF WalkAt, Rising, Falling
  <2> DEFINE Q == [i \in 0 .. N - n |-> P[n + i]]
             last == [i \in 0 .. N - n |-> task[n + i]]
  <2>8. Walk(W, b, Q, last, N - n)
    BY <1>1, <2>3, WalkFrom
  <2>9. /\ Q[0] = P[n] /\ last[0] = x
        /\ Q[N - n] = P[N] /\ last[N - n] = task[N]
    <3>1. 0 \in 0 .. N - n /\ n + 0 = n /\ N - n \in 0 .. N - n /\ n + (N - n) = N
      BY <1>1, <2>3
    <3> QED BY <2>2, <3>1
  <2>10. \A j \in 0 .. N - n : last[j] = turn[j]
    <3> DEFINE Apart == {j \in 0 .. N - n : last[j] # turn[j]}
    <3>1. SUFFICES ASSUME Apart # {} PROVE FALSE
      OBVIOUS
    <3>2. Apart \in SUBSET Nat
      OBVIOUS
    <3>3. PICK j \in Apart : \A q \in Apart : j <= q
      BY <3>1, <3>2, LeastIsIn
    <3>4. j # 0 /\ j \in 0 .. N - n /\ last[j] # turn[j]
      BY <2>9, <3>3
    <3>5. /\ j - 1 \in 0 .. N - n /\ n + (j - 1) \in 0 .. N - 1 /\ j - 1 \in 0 .. N - 1
          /\ (n + (j - 1)) + 1 = n + j /\ (j - 1) + 1 = j
      BY <1>1, <2>3, <3>4
    <3>6. last[j - 1] = turn[j - 1]
      BY <1>1, <2>3, <3>3, <3>4, <3>5
    <3>7. task[n + (j - 1)] = turn[j - 1]
      BY <3>5, <3>6
    <3>8. task[n + j] = turn[j]
      BY <3>5, <3>7
    <3> QED BY <3>4, <3>8
  <2> HIDE DEF Q, last
  <2>11. SettledBut(W, b, Q[0], NoTask, last[0])
    BY <2>7, <2>9 DEF SettledBut
  <2>12. WalkAt(W, b, Q, last, NoTask, 0, 0)
    <3>1. 0 \in 0 .. N - n
      BY <2>3
    <3> HIDE DEF N
    <3> QED BY <2>3, <2>8, <2>11, <3>1, WalkStarts
  <2>13. WalkAt(W, b, Q, last, NoTask, N - n, 0)
    <3>1. 0 \in 0 .. N - n /\ N - n \in 0 .. N - n
      BY <2>3
    <3>2. \A j \in 0 .. (N - n) - 1 : last[j] # NoTask => last[j] # NoTask
      OBVIOUS
    <3> HIDE DEF N
    <3> QED BY <2>3, <2>8, <2>12, <3>1, <3>2, WalkOn
  <2>14. WalkAt(W, b, R, turn, NoTask, 0, N)
    <3>1. CASE SettledBut(W, b, Q[N - n], NoTask, NoTask)
      BY <2>9, <3>1 DEF WalkAt
    <3>2. CASE ~SettledBut(W, b, Q[N - n], NoTask, NoTask)
      <4> DEFINE l == N - n
      <4>1. \A q \in Nat : q = l \/ (l <= q /\ q <= 0) => q = l
        BY <2>3
      <4>2. PICK v \in Priorities : \/ Rising(W, b, Q[l], NoTask, last[l], v, l)
                                    \/ Falling(W, b, Q[l], NoTask, last[l], v, l)
        BY <2>13, <3>2, <4>1 DEF WalkAt
      <4>3. Q[l] = R[0] /\ last[l] = turn[l]
        BY <2>3, <2>9, <2>10
      <4>4. \/ Rising(W, b, R[0], NoTask, turn[l], v, l)
            \/ Falling(W, b, R[0], NoTask, turn[l], v, l)
        BY <4>2, <4>3
      <4>5. l \in Nat /\ 0 <= l /\ l <= N
        BY <1>1, <2>3
      <4> HIDE DEF l
      <4> QED BY <4>4, <4>5 DEF WalkAt
    <3> QED BY <3>1, <3>2
  <2>15. N \in 0 .. N
    BY <1>1
  <2> QED BY <1>2, <2>14, <2>15, WalkEnds
<1> QED BY <1>4, <1>5

-----------------------------------------------------------------------------
(* The record of the mutexes, and what the lists have in common in every   *)
(* state that recompute_chain is called in.                                *)

MutexType ==
    [base  : [Tasks -> Priorities],
     live  : SUBSET Mutexes,
     owner : [Mutexes -> Tasks \union {NoTask}],
     count : [Mutexes -> 0 .. MaxCount],
     held  : [Tasks -> Seq(Mutexes)]]

Urgency(prio) == [u \in Tasks |-> -prio[u]]

\* The tasks that wait for a mutex in the list of t
Waiters(kk, mm) ==
    [t \in Tasks |->
        {u \in Tasks : \E m \in Mutexes : Linked(mm.held[t], m) /\ Linked(kk.waitq[m], u)}]

\* A task that is on a wait list names it, even while it leaves it; a mutex in
\* the list of a task has it as its owner; the most urgent waiter is first.
Shape(kk, mm) ==
    /\ kk \in KernelType /\ mm \in MutexType
    /\ \A w \in WaitLists : NoRepeat(kk.waitq[w])
    /\ \A w \in WaitLists, t \in Tasks : Linked(kk.waitq[w], t) => kk.waitOn[t] = w
    /\ \A m \in Mutexes, t \in Tasks :
          /\ Linked(mm.held[t], m) => mm.owner[m] = t
          /\ Linked(kk.waitq[m], t) => mm.owner[m] # t
    /\ \A m \in Mutexes : Ascending(kk.waitq[m], Urgency(kk.prio))

\* What a change of priorities leaves alone
Reordered(kk, r) ==
    /\ r.state = kk.state /\ r.slice = kk.slice /\ r.wake = kk.wake
    /\ r.waitOn = kk.waitOn /\ r.result = kk.result /\ r.timeouts = kk.timeouts
    /\ r.cur = kk.cur /\ r.isr = kk.isr /\ r.lock = kk.lock /\ r.tick = kk.tick
    /\ r.pending = kk.pending /\ r.pendsv = kk.pendsv
    /\ \A w \in WaitLists, u \in Tasks : Linked(r.waitq[w], u) <=> Linked(kk.waitq[w], u)

LEMMA ShapeForest ==
    ASSUME NEW kk, NEW mm, Shape(kk, mm)
    PROVE  /\ Forest(Waiters(kk, mm))
           /\ \A t, u \in Tasks : u \in Waiters(kk, mm)[t] => t = NextInChain(kk, mm, u)
<1>1. Mutexes \subseteq WaitLists
  BY MutexAssumption
<1>2. ASSUME NEW t \in Tasks, NEW u \in Tasks, u \in Waiters(kk, mm)[t]
      PROVE  /\ t # u /\ kk.waitOn[u] \in Mutexes /\ mm.owner[kk.waitOn[u]] = t
             /\ t = NextInChain(kk, mm, u)
  <2>1. PICK m \in Mutexes : Linked(mm.held[t], m) /\ Linked(kk.waitq[m], u)
    BY <1>2 DEF Waiters
  <2>2. mm.owner[m] = t /\ mm.owner[m] # u /\ kk.waitOn[u] = m
    BY <1>1, <2>1 DEF Shape
  <2>3. u # NoTask
    BY KernelAssumption
  <2> QED BY <2>2, <2>3 DEF NextInChain
<1>3. Waiters(kk, mm) \in [Tasks -> SUBSET Tasks]
  BY DEF Waiters
<1> QED BY <1>2, <1>3 DEF Forest

LEMMA HeadIsHighest ==
    ASSUME NEW s \in Seq(Tasks), NEW prio \in [Tasks -> Priorities],
           Ascending(s, Urgency(prio)), NEW u \in Tasks, Linked(s, u)
    PROVE  s # <<>> /\ Head(s) \in Tasks /\ Linked(s, Head(s)) /\ prio[u] <= prio[Head(s)]
<1>1. PICK i \in DOMAIN s : s[i] = u
  BY DEF Linked
<1>2. s # <<>> /\ Len(s) \in Nat /\ i \in 1 .. Len(s) /\ 1 \in DOMAIN s /\ Head(s) = s[1]
  BY <1>1
<1>3. s[1] \in Tasks /\ prio[s[1]] \in Int /\ prio[u] \in Int
  BY <1>2 DEF Priorities
<1>4. 1 < i => Urgency(prio)[s[1]] <= Urgency(prio)[s[i]]
  BY <1>2 DEF Ascending
<1>5. prio[u] <= prio[s[1]]
  BY <1>1, <1>2, <1>3, <1>4 DEF Urgency
<1> QED BY <1>2, <1>3, <1>5 DEF Linked

\* task_effective_priority looks at the first waiters only.
LEMMA EffectiveIsTop ==
    ASSUME NEW kk, NEW mm, Shape(kk, mm), NEW t \in Tasks
    PROVE  /\ EffectivePriority(kk, mm, t) \in Priorities
           /\ IsTop(Waiters(kk, mm), mm.base, kk.prio, t, EffectivePriority(kk, mm, t))
<1> DEFINE I == InheritedFrom(kk, mm, t)
           p == EffectivePriority(kk, mm, t)
<1>1. /\ kk.waitq \in [WaitLists -> Seq(Tasks)] /\ kk.prio \in [Tasks -> Priorities]
      /\ mm.held[t] \in Seq(Mutexes) /\ mm.base[t] \in Priorities
      /\ Mutexes \subseteq WaitLists
  BY MutexAssumption DEF Shape, KernelType, MutexType
<1>2. \A m : m \in ToSet(mm.held[t]) <=> Linked(mm.held[t], m)
  BY DEF ToSet, Linked
<1>3. \A m \in ToSet(mm.held[t]) : m \in Mutexes
  BY <1>1 DEF ToSet
<1>4. ASSUME NEW m \in ToSet(mm.held[t]), kk.waitq[m] # <<>>
      PROVE  Head(kk.waitq[m]) \in Waiters(kk, mm)[t]
  <2>1. Head(kk.waitq[m]) \in Tasks /\ Linked(kk.waitq[m], Head(kk.waitq[m]))
    BY <1>1, <1>3, <1>4, FirstLinked
  <2> QED BY <1>2, <1>3, <2>1 DEF Waiters
<1>5. Waiters(kk, mm)[t] \subseteq Tasks
  BY DEF Waiters
<1>6. I \in SUBSET Priorities /\ I # {}
  BY <1>1, <1>4, <1>5 DEF InheritedFrom
<1>7. \E q \in I : \A x \in I : x <= q
  BY <1>6, GreatestPriority
<1>8. p \in I /\ \A x \in I : x <= p
  BY <1>7 DEF EffectivePriority
<1> HIDE DEF p, I
<1>9. mm.base[t] <= p
  BY <1>8 DEF InheritedFrom, I
<1>10. ASSUME NEW u \in Waiters(kk, mm)[t] PROVE kk.prio[u] <= p
  <2>1. u \in Tasks
    BY <1>5
  <2>2. PICK m \in Mutexes : Linked(mm.held[t], m) /\ Linked(kk.waitq[m], u)
    BY DEF Waiters
  <2>3. Ascending(kk.waitq[m], Urgency(kk.prio)) /\ kk.waitq[m] \in Seq(Tasks)
    BY <1>1 DEF Shape
  <2>4. /\ kk.waitq[m] # <<>> /\ Head(kk.waitq[m]) \in Tasks
        /\ kk.prio[u] <= kk.prio[Head(kk.waitq[m])]
    BY <1>1, <2>1, <2>2, <2>3, HeadIsHighest
  <2>5. kk.prio[Head(kk.waitq[m])] \in I
    BY <1>2, <2>2, <2>4 DEF InheritedFrom, I
  <2>6. kk.prio[Head(kk.waitq[m])] <= p
    BY <1>8, <2>5
  <2>7. p \in Int /\ kk.prio[u] \in Int /\ kk.prio[Head(kk.waitq[m])] \in Int
    BY <1>1, <1>6, <1>8, <2>1, <2>4 DEF Priorities
  <2> QED BY <2>4, <2>6, <2>7
<1>11. p = mm.base[t] \/ \E u \in Waiters(kk, mm)[t] : kk.prio[u] = p
  BY <1>4, <1>8 DEF InheritedFrom, I
<1>12. p \in Priorities
  BY <1>6, <1>8
<1> QED BY <1>9, <1>10, <1>11, <1>12 DEF IsTop, p

LEMMA AscendingElsewhere ==
    ASSUME NEW s \in Seq(Tasks), NEW prio \in [Tasks -> Priorities], NEW t \in Tasks,
           NEW p \in Priorities, ~Linked(s, t), Ascending(s, Urgency(prio))
    PROVE  Ascending(s, Urgency([prio EXCEPT ![t] = p]))
<1>1. \A i \in DOMAIN s : s[i] \in Tasks /\ s[i] # t
  BY DEF Linked
<1>2. \A i \in DOMAIN s : Urgency([prio EXCEPT ![t] = p])[s[i]] = Urgency(prio)[s[i]]
  BY <1>1 DEF Urgency
<1> QED BY <1>2 DEF Ascending


-----------------------------------------------------------------------------
(* A change of a priority, and recompute_chain.                            *)

\* r is kk after the priority of t has been changed to p: t has moved on its
\* ready queue and, unless it waits for something else, on its wait list.
Changed(kk, t, p, r) ==
    LET requeued == SchedRequeue([kk EXCEPT !.prio[t] = p], t, kk.prio[t])
    IN  \/ r = WaiterPriorityChanged(requeued, t)
        \/ r = requeued /\ kk.waitOn[t] \notin Mutexes

LEMMA ReorderedTwice ==
    ASSUME NEW a, NEW b, NEW c, Reordered(a, b), Reordered(b, c)
    PROVE  Reordered(a, c)
BY DEF Reordered

LEMMA ChangedEffect ==
    ASSUME NEW kk, NEW mm, Shape(kk, mm), NEW S, Queues(kk, S), NEW t \in Tasks,
           NEW p \in Priorities, NEW r, Changed(kk, t, p, r)
    PROVE  /\ Shape(r, mm) /\ Queues(r, S) /\ Reordered(kk, r)
           /\ r.prio = [kk.prio EXCEPT ![t] = p]
<1> DEFINE set == [kk EXCEPT !.prio[t] = p]
           q == SchedRequeue(set, t, kk.prio[t])
           new == [kk.prio EXCEPT ![t] = p]
           list == kk.waitOn[t]
<1>1. /\ kk \in KernelType /\ kk.waitq \in [WaitLists -> Seq(Tasks)]
      /\ kk.prio \in [Tasks -> Priorities] /\ kk.waitOn \in [Tasks -> WaitLists \union {NoList}]
      /\ Mutexes \subseteq WaitLists
  BY MutexAssumption DEF Shape, KernelType
<1>2. q \in KernelType /\ Queues(q, S) /\ QueuesChanged(set, q)
  BY <1>1, SchedRequeueQueues
<1>3. set \in KernelType /\ set.prio = new /\ new \in [Tasks -> Priorities]
  BY <1>1 DEF KernelType
<1>4. SameWaits(set, q) /\ SameRun(set, q) /\ SameFlags(set, q) /\ q.slice = set.slice
  BY <1>2, <1>3, QueuesChangedSame
<1>5. r = WaiterPriorityChanged(q, t) \/ (r = q /\ list \notin Mutexes)
  BY DEF Changed
<1>6. /\ q.waitq = kk.waitq /\ q.waitOn = kk.waitOn /\ q.prio = new
      /\ q.state = kk.state /\ q.slice = kk.slice /\ q.wake = kk.wake /\ q.result = kk.result
      /\ q.timeouts = kk.timeouts /\ q.cur = kk.cur /\ q.isr = kk.isr /\ q.lock = kk.lock
      /\ q.tick = kk.tick /\ (q.pending <=> kk.pending) /\ (q.pendsv <=> kk.pendsv)
  <2> HIDE DEF q
  <2> QED BY <1>1, <1>3, <1>4 DEF SameWaits, SameRun, SameFlags, KernelType
<1>7. q.pending = kk.pending /\ q.pendsv = kk.pendsv
  <2>1. /\ q.pending \in BOOLEAN /\ kk.pending \in BOOLEAN
        /\ q.pendsv \in BOOLEAN /\ kk.pendsv \in BOOLEAN
    BY <1>1, <1>2 DEF KernelType
  <2> QED BY <1>6, <2>1
<1> HIDE DEF q, set
<1> DEFINE moved == WaitInsert(ListDel(kk.waitq[list], t), new, t)
<1>8. ASSUME NEW m \in Mutexes, m # list \/ ~Linked(kk.waitq[m], t)
      PROVE  Ascending(kk.waitq[m], Urgency(new))
  <2>1. ~Linked(kk.waitq[m], t) /\ kk.waitq[m] \in Seq(Tasks)
    BY <1>1, <1>8 DEF Shape
  <2>2. Ascending(kk.waitq[m], Urgency(kk.prio))
    BY DEF Shape
  <2> QED BY <1>1, <2>1, <2>2, AscendingElsewhere
<1>9. CASE r = q /\ \A m \in Mutexes : m # list \/ ~Linked(kk.waitq[m], t)
  <2>1. \A m \in Mutexes : Ascending(r.waitq[m], Urgency(r.prio))
    BY <1>6, <1>8, <1>9
  <2>2. Shape(r, mm)
    BY <1>2, <1>6, <1>9, <2>1 DEF Shape
  <2>3. Reordered(kk, r)
    BY <1>6, <1>7, <1>9 DEF Reordered
  <2> QED BY <1>2, <1>6, <1>9, <2>2, <2>3
<1>10. CASE r = WaiterPriorityChanged(q, t) /\ list # NoList /\ Linked(kk.waitq[list], t)
  <2>1. /\ r = WaiterPriorityChanged(q, t) /\ list # NoList /\ Linked(kk.waitq[list], t)
    BY <1>10
  <2>2. r = [q EXCEPT !.waitq[list] = moved]
    BY <1>6, <2>1 DEF WaiterPriorityChanged
  <2>3. /\ list \in WaitLists /\ kk.waitq[list] \in Seq(Tasks) /\ NoRepeat(kk.waitq[list])
    BY <1>1, <2>1 DEF Shape
  <2>4. /\ ListDel(kk.waitq[list], t) \in Seq(Tasks) /\ NoRepeat(ListDel(kk.waitq[list], t))
        /\ \A u : Linked(ListDel(kk.waitq[list], t), u) <=> Linked(kk.waitq[list], u) /\ u # t
    BY <2>3, ListDelLinked
  <2>5. /\ moved \in Seq(Tasks) /\ NoRepeat(moved)
        /\ \A u : Linked(moved, u) <=> Linked(kk.waitq[list], u)
    BY <1>3, <2>1, <2>4, WaitInsertLinked
  <2>6. ASSUME list \in Mutexes PROVE Ascending(moved, Urgency(new))
    <3>1. Ascending(ListDel(kk.waitq[list], t), Urgency(kk.prio))
      BY <2>3, <2>6, AscendingDel DEF Shape
    <3>2. ~Linked(ListDel(kk.waitq[list], t), t)
      BY <2>4
    <3>3. Ascending(ListDel(kk.waitq[list], t), Urgency(new))
      BY <1>1, <2>4, <3>1, <3>2, AscendingElsewhere
    <3> QED BY <1>3, <2>4, <3>3, WaitInsertAscending DEF Urgency
  <2> HIDE DEF moved
  <2> DEFINE lists == [kk.waitq EXCEPT ![list] = moved]
  <2>7. /\ lists \in [WaitLists -> Seq(Tasks)] /\ lists[list] = moved
        /\ \A w \in WaitLists \ {list} : lists[w] = kk.waitq[w]
    BY <1>1, <2>3, <2>5
  <2> HIDE DEF lists
  <2>8. r = [q EXCEPT !.waitq = lists]
    <3>1. q.waitq = kk.waitq
      BY <1>6
    <3> QED BY <2>2, <3>1 DEF lists
  <2>9. /\ r \in KernelType /\ r.waitq = lists /\ r.prio = q.prio /\ r.ready = q.ready
        /\ r.bitmap = q.bitmap /\ r.state = q.state /\ r.slice = q.slice /\ r.wake = q.wake
        /\ r.waitOn = q.waitOn /\ r.result = q.result /\ r.timeouts = q.timeouts
        /\ r.cur = q.cur /\ r.isr = q.isr /\ r.lock = q.lock /\ r.tick = q.tick
        /\ r.pending = q.pending /\ r.pendsv = q.pendsv
    BY <1>2, <2>7, <2>8 DEF KernelType
  <2>10. Queues(r, S)
    BY <1>2, <2>9, QueuesSame
  <2>11. \A w \in WaitLists : /\ NoRepeat(lists[w])
                              /\ \A u : Linked(lists[w], u) <=> Linked(kk.waitq[w], u)
    BY <2>5, <2>7 DEF Shape
  <2>12. Reordered(kk, r)
    BY <1>6, <1>7, <2>9, <2>11 DEF Reordered
  <2>13. \A m \in Mutexes : Ascending(lists[m], Urgency(new))
    BY <1>1, <1>8, <2>6, <2>7
  <2>14. Shape(r, mm)
    <3>1. r.waitq = lists /\ r.waitOn = kk.waitOn /\ r.prio = new /\ r \in KernelType
      BY <1>6, <2>9
    <3>2. /\ \A w \in WaitLists, u \in Tasks : Linked(lists[w], u) => kk.waitOn[u] = w
          /\ \A m \in Mutexes, u \in Tasks : Linked(lists[m], u) => mm.owner[m] # u
      BY <1>1, <2>11 DEF Shape
    <3>3. /\ mm \in MutexType
          /\ \A m \in Mutexes, u \in Tasks : Linked(mm.held[u], m) => mm.owner[m] = u
      BY DEF Shape
    <3> QED BY <2>11, <2>13, <3>1, <3>2, <3>3 DEF Shape
  <2> QED BY <1>6, <2>9, <2>10, <2>12, <2>14
<1>11. CASE ~(r = WaiterPriorityChanged(q, t) /\ list # NoList /\ Linked(kk.waitq[list], t))
  <2>1. r = q
    BY <1>5, <1>6, <1>11 DEF WaiterPriorityChanged
  <2>2. ASSUME NEW m \in Mutexes, m = list, Linked(kk.waitq[m], t) PROVE FALSE
    <3>1. list # NoList
      BY <1>1, <2>2, KernelAssumption
    <3> QED BY <1>5, <1>11, <2>2, <3>1
  <2> QED BY <1>9, <2>1, <2>2
<1> QED BY <1>10, <1>11

LEMMA ReorderedSame ==
    ASSUME NEW kk, NEW r, Reordered(kk, r), NEW mm
    PROVE  /\ Waiters(r, mm) = Waiters(kk, mm)
           /\ \A t : NextInChain(r, mm, t) = NextInChain(kk, mm, t)
<1>1. Mutexes \subseteq WaitLists
  BY MutexAssumption
<1> QED BY <1>1 DEF Reordered, Waiters, NextInChain

\* r is kk after t has been given the priority that it ought to have.
Recomputed(kk, mm, S, t, r) ==
    /\ Shape(r, mm) /\ Queues(r, S) /\ Reordered(kk, r)
    /\ \E p \in Priorities : /\ IsTop(Waiters(kk, mm), mm.base, kk.prio, t, p)
                             /\ r.prio = [kk.prio EXCEPT ![t] = p]

\* One level of recompute_chain
LEMMA RecomputeEffect ==
    ASSUME NEW kk, NEW mm, Shape(kk, mm), NEW S, Queues(kk, S), NEW t \in Tasks
    PROVE  Recomputed(kk, mm, S, t, Recompute(kk, mm, t))
<1> DEFINE p == EffectivePriority(kk, mm, t)
           r == Recompute(kk, mm, t)
<1>1. p \in Priorities /\ IsTop(Waiters(kk, mm), mm.base, kk.prio, t, p)
  BY EffectiveIsTop
<1>2. kk.prio \in [Tasks -> Priorities]
  BY DEF Shape, KernelType
<1>3. CASE p = kk.prio[t]
  <2>1. r = kk
    BY <1>3 DEF Recompute
  <2>2. Reordered(kk, kk) /\ kk.prio = [kk.prio EXCEPT ![t] = p]
    BY <1>2, <1>3 DEF Reordered
  <2> QED BY <1>1, <2>1, <2>2 DEF Recomputed
<1>4. CASE p # kk.prio[t]
  <2>1. Changed(kk, t, p, r)
    BY <1>4 DEF Recompute, Changed
  <2> HIDE DEF r, p
  <2>2. Shape(r, mm) /\ Queues(r, S) /\ Reordered(kk, r) /\ r.prio = [kk.prio EXCEPT ![t] = p]
    BY <1>1, <2>1, ChangedEffect
  <2> QED BY <1>1, <2>2 DEF r, Recomputed
<1> QED BY <1>3, <1>4

LEMMA ChainIs ==
    ASSUME NEW kk, NEW mm, Shape(kk, mm), NEW t \in Tasks \union {NoTask}
    PROVE  /\ Chain(kk, mm, t) \in [0 .. ChainLimit -> Tasks \union {NoTask}]
           /\ Chain(kk, mm, t)[0] = t
           /\ \A i \in 1 .. ChainLimit :
                 Chain(kk, mm, t)[i] = NextInChain(kk, mm, Chain(kk, mm, t)[i - 1])
<1> DEFINE Depth == ChainLimit
           Places == Tasks \union {NoTask}
           edge == [x \in (1 .. Depth) \X Places |-> NextInChain(kk, mm, x[2])]
           Next1(f) == [i \in 0 .. Depth |-> IF i = 0 THEN t ELSE NextInChain(kk, mm, f[i - 1])]
           task == Chain(kk, mm, t)
<1>1. Depth \in Nat /\ 0 \in 0 .. Depth /\ \A i \in 1 .. Depth : i \in 0 .. Depth /\ i # 0 /\ i - 1 \in 0 .. Depth
  BY ChainLimitPositive
<1>2. \A x \in Places : NextInChain(kk, mm, x) \in Places
  BY DEF NextInChain, Shape, MutexType
<1>3. edge \in [(1 .. Depth) \X Places -> Places]
  BY <1>2
<1>12. t \in Places
  OBVIOUS
<1>13. \A i \in 1 .. Depth, x \in Places : edge[<<i, x>>] = NextInChain(kk, mm, x)
  OBVIOUS
<1>16. Depth \in Nat
  BY <1>1
<1> HIDE DEF edge, Places, Depth
<1>14. \E f \in [0 .. Depth -> Places] : Iterated(f, Depth, t, edge)
  BY <1>3, <1>12, <1>16, Iterates
<1>4. PICK f \in [0 .. Depth -> Places] : f[0] = t /\ \A i \in 1 .. Depth : f[i] = edge[<<i, f[i - 1]>>]
  BY <1>14 DEF Iterated
<1>5. \A i \in 1 .. Depth : f[i] = NextInChain(kk, mm, f[i - 1])
  BY <1>1, <1>4, <1>13
<1>6. f = Next1(f)
  <2>1. \A i \in 0 .. Depth : i # 0 => i \in 1 .. Depth
    BY <1>1
  <2>2. \A i \in 0 .. Depth : f[i] = IF i = 0 THEN t ELSE NextInChain(kk, mm, f[i - 1])
    BY <1>4, <1>5, <2>1
  <2> QED BY <1>4, <2>2
<1>7. task = CHOOSE f1 : f1 = Next1(f1)
  BY DEF Chain, Depth
<1>8. task = Next1(task)
  BY <1>6, <1>7
<1> HIDE DEF task
<1>9. task[0] = t /\ \A i \in 1 .. Depth : task[i] = NextInChain(kk, mm, task[i - 1])
  BY <1>1, <1>8
<1>15. task[0] \in Places /\ \A i \in 1 .. Depth : task[i - 1] \in Places => task[i] \in Places
  BY <1>2, <1>9, <1>12
<1>10. \A i \in 0 .. Depth : task[i] \in Places
  BY <1>1, <1>15, StaysIn
<1>11. task \in [0 .. Depth -> Places]
  BY <1>8, <1>10
<1> QED BY <1>9, <1>11 DEF task, Depth, Places

\* What recompute_chain may meet on its way
States(kk, mm, S) == {r \in KernelType : Shape(r, mm) /\ Queues(r, S) /\ Reordered(kk, r)}

\* recompute_chain is a walk along the tasks that wait for each other.
LEMMA RecomputeChainWalks ==
    ASSUME NEW kk, NEW mm, Shape(kk, mm), NEW S, Queues(kk, S), NEW t \in Tasks \union {NoTask}
    PROVE  /\ RecomputeChain(kk, mm, t) \in States(kk, mm, S)
           /\ \E P : /\ Walk(Waiters(kk, mm), mm.base, P, Chain(kk, mm, t), ChainLimit)
                     /\ P[0] = kk.prio
                     /\ P[ChainLimit] = RecomputeChain(kk, mm, t).prio
<1> DEFINE Depth == ChainLimit
           Met == States(kk, mm, S)
           task == Chain(kk, mm, t)
           change == [x \in (1 .. Depth) \X Met |->
                         IF task[x[1] - 1] = NoTask THEN x[2]
                         ELSE Recompute(x[2], mm, task[x[1] - 1])]
           Steps(f) == [i \in 0 .. Depth |->
                           IF i = 0 THEN kk
                           ELSE IF task[i - 1] = NoTask THEN f[i - 1]
                           ELSE Recompute(f[i - 1], mm, task[i - 1])]
           after == CHOOSE f : f = Steps(f)
           W == Waiters(kk, mm)
<1>1. /\ Depth \in Nat /\ 0 \in 0 .. Depth /\ Depth \in 0 .. Depth
      /\ \A i \in 1 .. Depth : i \in 0 .. Depth /\ i # 0 /\ i - 1 \in 0 .. Depth
  BY ChainLimitPositive
<1>2. /\ task \in [0 .. Depth -> Tasks \union {NoTask}] /\ task[0] = t
      /\ \A i \in 1 .. Depth : task[i] = NextInChain(kk, mm, task[i - 1])
  BY ChainIs
<1>3. RecomputeChain(kk, mm, t) = after[Depth]
  BY DEF RecomputeChain
<1> HIDE DEF task
<1>4. kk \in Met
  BY DEF Shape, States, Reordered
<1>5. ASSUME NEW r \in Met, NEW u \in Tasks
      PROVE  /\ Recompute(r, mm, u) \in Met
             /\ \E p \in Priorities : /\ IsTop(W, mm.base, r.prio, u, p)
                                      /\ Recompute(r, mm, u).prio = [r.prio EXCEPT ![u] = p]
  <2>1. Shape(r, mm) /\ Queues(r, S) /\ Reordered(kk, r)
    BY DEF States
  <2>2. Waiters(r, mm) = W
    BY <2>1, ReorderedSame
  <2> HIDE DEF W
  <2> DEFINE q == Recompute(r, mm, u)
  <2>3. /\ Shape(q, mm) /\ Queues(q, S) /\ Reordered(r, q)
        /\ \E p \in Priorities : /\ IsTop(W, mm.base, r.prio, u, p)
                                 /\ q.prio = [r.prio EXCEPT ![u] = p]
    <3>1. Recomputed(r, mm, S, u, q)
      BY <2>1, RecomputeEffect
    <3> HIDE DEF q
    <3> QED BY <2>2, <3>1 DEF Recomputed
  <2> HIDE DEF q
  <2>4. q \in Met
    BY <2>1, <2>3, ReorderedTwice DEF States, Shape
  <2> QED BY <2>3, <2>4 DEF q
<1> HIDE DEF Met, W
<1>6. \A i \in 1 .. Depth : task[i - 1] \in Tasks \union {NoTask}
  BY <1>1, <1>2
<1>7. change \in [(1 .. Depth) \X Met -> Met]
  BY <1>5, <1>6
<1>8. \A i \in 1 .. Depth, r \in Met :
         change[<<i, r>>] = IF task[i - 1] = NoTask THEN r ELSE Recompute(r, mm, task[i - 1])
  OBVIOUS
<1>9. Depth \in Nat
  BY <1>1
<1> HIDE DEF Depth, change
<1>10. \E f \in [0 .. Depth -> Met] : Iterated(f, Depth, kk, change)
  BY <1>4, <1>7, <1>9, Iterates
<1>11. PICK f \in [0 .. Depth -> Met] : Iterated(f, Depth, kk, change)
  BY <1>10
<1>12. f = Steps(f)
  <2>1. \A i \in 0 .. Depth : i # 0 => i \in 1 .. Depth
    BY <1>9
  <2>2. f[0] = kk /\ \A i \in 1 .. Depth :
           f[i] = IF task[i - 1] = NoTask THEN f[i - 1] ELSE Recompute(f[i - 1], mm, task[i - 1])
    BY <1>1, <1>8, <1>11 DEF Iterated
  <2>3. \A i \in 0 .. Depth :
           f[i] = IF i = 0 THEN kk
                  ELSE IF task[i - 1] = NoTask THEN f[i - 1]
                  ELSE Recompute(f[i - 1], mm, task[i - 1])
    BY <2>1, <2>2
  <2> QED BY <1>11, <2>3
<1>13. after = Steps(after)
  BY <1>12
<1> HIDE DEF after
<1>14. /\ after[0] = kk
       /\ \A i \in 1 .. Depth :
             after[i] = IF task[i - 1] = NoTask THEN after[i - 1]
                        ELSE Recompute(after[i - 1], mm, task[i - 1])
  BY <1>1, <1>13
<1>15. after[0] \in Met /\ \A i \in 1 .. Depth : after[i - 1] \in Met => after[i] \in Met
  BY <1>4, <1>5, <1>6, <1>14
<1>16. \A i \in 0 .. Depth : after[i] \in Met
  BY <1>9, <1>15, StaysIn
<1> DEFINE P == [i \in 0 .. Depth |-> after[i].prio]
<1>17. P \in [0 .. Depth -> [Tasks -> Priorities]] /\ \A i \in 0 .. Depth : P[i] = after[i].prio
  BY <1>16 DEF Met, States, KernelType
<1> HIDE DEF P
<1>18. ASSUME NEW i \in 0 .. Depth - 1
       PROVE  WalkedOn(W, mm.base, P[i], P[i + 1], task[i], task[i + 1])
  <2>1. /\ i \in 0 .. Depth /\ i + 1 \in 1 .. Depth /\ i + 1 \in 0 .. Depth /\ (i + 1) - 1 = i
    BY <1>9
  <2>2. /\ P[i] = after[i].prio /\ P[i + 1] = after[i + 1].prio /\ after[i] \in Met
        /\ task[i] \in Tasks \union {NoTask} /\ task[i + 1] = NextInChain(kk, mm, task[i])
        /\ after[i + 1] = IF task[i] = NoTask THEN after[i] ELSE Recompute(after[i], mm, task[i])
    BY <1>2, <1>14, <1>16, <1>17, <2>1
  <2>3. CASE task[i] = NoTask
    BY <2>2, <2>3 DEF WalkedOn, NextInChain
  <2>4. CASE task[i] # NoTask
    <3>1. task[i] \in Tasks
      BY <2>2, <2>4
    <3>2. \E p \in Priorities : /\ IsTop(W, mm.base, P[i], task[i], p)
                                /\ P[i + 1] = [P[i] EXCEPT ![task[i]] = p]
      BY <1>5, <2>2, <2>4, <3>1
    <3>3. \A u \in Tasks : task[i] \in W[u] => u = task[i + 1]
      BY <2>2, <3>1, ShapeForest DEF W
    <3> QED BY <2>4, <3>2, <3>3 DEF WalkedOn
  <2> QED BY <2>3, <2>4
<1>19. Forest(W) /\ mm.base \in [Tasks -> Priorities]
  BY ShapeForest DEF W, Shape, MutexType
<1>20. Walk(W, mm.base, P, task, Depth)
  BY <1>2, <1>17, <1>18, <1>19 DEF Walk
<1>21. P[0] = kk.prio /\ P[Depth] = after[Depth].prio /\ after[Depth] \in Met
  BY <1>1, <1>14, <1>16, <1>17
<1> QED BY <1>3, <1>20, <1>21 DEF Met, W, task, Depth

-----------------------------------------------------------------------------
(* What recompute_chain settles.                                           *)

\* Every task but x and y has the priority that it ought to have.
Settled(kk, mm, x, y) == SettledBut(Waiters(kk, mm), mm.base, kk.prio, x, y)

LEMMA RecomputeChainSame ==
    ASSUME NEW kk, NEW mm, Shape(kk, mm), NEW S, Queues(kk, S), NEW t \in Tasks \union {NoTask}
    PROVE  LET r == RecomputeChain(kk, mm, t)
           IN  /\ Shape(r, mm) /\ Queues(r, S) /\ Reordered(kk, r)
               /\ Waiters(r, mm) = Waiters(kk, mm)
               /\ \A u : NextInChain(r, mm, u) = NextInChain(kk, mm, u)
<1> DEFINE r == RecomputeChain(kk, mm, t)
<1>1. r \in States(kk, mm, S)
  BY RecomputeChainWalks
<1> HIDE DEF r
<1>2. Shape(r, mm) /\ Queues(r, S) /\ Reordered(kk, r)
  BY <1>1 DEF States
<1> QED BY <1>2, ReorderedSame DEF r

\* recompute_chain from t, when no task but t is wrong
LEMMA ChainSettles ==
    ASSUME NEW kk, NEW mm, Shape(kk, mm), NEW S, Queues(kk, S), NEW t \in Tasks \union {NoTask},
           Settled(kk, mm, NoTask, t)
    PROVE  Settled(RecomputeChain(kk, mm, t), mm, NoTask, NoTask)
<1> DEFINE r == RecomputeChain(kk, mm, t)
           task == Chain(kk, mm, t)
           W == Waiters(kk, mm)
<1>1. PICK P : Walk(W, mm.base, P, task, ChainLimit) /\ P[0] = kk.prio /\ P[ChainLimit] = r.prio
  BY RecomputeChainWalks
<1>2. Waiters(r, mm) = W
  BY RecomputeChainSame
<1>3. task[0] = t
  BY ChainIs
<1> HIDE DEF r, task
<1>4. SettledBut(W, mm.base, P[0], NoTask, task[0])
  BY <1>1, <1>3 DEF Settled
<1> HIDE DEF W
<1>5. SettledBut(W, mm.base, P[ChainLimit], NoTask, NoTask)
  BY <1>1, <1>4, OneWalkSettles
<1> QED BY <1>1, <1>2, <1>5 DEF Settled, r

\* ... when x may be wrong too, and t waits for nobody else
LEMMA ChainOfOneSettles ==
    ASSUME NEW kk, NEW mm, Shape(kk, mm), NEW S, Queues(kk, S), NEW t \in Tasks,
           NEW x, x # t, x # NoTask, NextInChain(kk, mm, t) = NoTask, Settled(kk, mm, x, t)
    PROVE  Settled(RecomputeChain(kk, mm, t), mm, x, x)
<1> DEFINE r == RecomputeChain(kk, mm, t)
           task == Chain(kk, mm, t)
           W == Waiters(kk, mm)
           D == {NoTask, t}
<1>1. PICK P : Walk(W, mm.base, P, task, ChainLimit) /\ P[0] = kk.prio /\ P[ChainLimit] = r.prio
  BY RecomputeChainWalks
<1>2. Waiters(r, mm) = W
  BY RecomputeChainSame
<1>3. /\ task[0] = t
      /\ \A i \in 1 .. ChainLimit : task[i] = NextInChain(kk, mm, task[i - 1])
  BY ChainIs
<1> HIDE DEF r, task
<1>4. \A i \in 1 .. ChainLimit : task[i - 1] \in D => task[i] \in D
  BY <1>3 DEF NextInChain
<1>9. task[0] \in D
  BY <1>3
<1> HIDE DEF D
<1>5. \A i \in 0 .. ChainLimit : task[i] \in D
  BY <1>4, <1>9, ChainLimitPositive, StaysIn
<1>6. \A j \in 0 .. ChainLimit - 1 : task[j] # NoTask => task[j] # x
  BY <1>5, ChainLimitPositive DEF D
<1>7. SettledBut(W, mm.base, P[0], x, task[0])
  BY <1>1, <1>3 DEF Settled
<1> HIDE DEF W
<1>8. SettledBut(W, mm.base, P[ChainLimit], x, x)
  BY <1>1, <1>6, <1>7, OneWalkSettles
<1> QED BY <1>1, <1>2, <1>8 DEF Settled, r

\* aixos_task_set_priority: the owner that x waits for, and then x
LEMMA TwoChainsSettle ==
    ASSUME NEW kk, NEW mm, Shape(kk, mm), NEW S, Queues(kk, S), NEW t \in Tasks \union {NoTask},
           NEW x \in Tasks, Settled(kk, mm, x, t)
    PROVE  Settled(RecomputeChain(RecomputeChain(kk, mm, t), mm, x), mm, NoTask, NoTask)
<1> DEFINE a == RecomputeChain(kk, mm, t)
           r == RecomputeChain(a, mm, x)
           task == Chain(kk, mm, t)
           turn == Chain(a, mm, x)
           W == Waiters(kk, mm)
<1>1. PICK P : Walk(W, mm.base, P, task, ChainLimit) /\ P[0] = kk.prio /\ P[ChainLimit] = a.prio
  BY RecomputeChainWalks
<1>2. /\ Shape(a, mm) /\ Queues(a, S) /\ Waiters(a, mm) = W
      /\ \A u : NextInChain(a, mm, u) = NextInChain(kk, mm, u)
  BY RecomputeChainSame
<1>3. /\ task[0] = t
      /\ \A i \in 1 .. ChainLimit : task[i] = NextInChain(kk, mm, task[i - 1])
  BY ChainIs
<1> HIDE DEF a, task
<1>4. \E R : /\ Walk(Waiters(a, mm), mm.base, R, turn, ChainLimit)
             /\ R[0] = a.prio /\ R[ChainLimit] = r.prio
  BY <1>2, RecomputeChainWalks
<1>5. PICK R : Walk(W, mm.base, R, turn, ChainLimit) /\ R[0] = a.prio /\ R[ChainLimit] = r.prio
  BY <1>2, <1>4
<1>6. Waiters(r, mm) = W
  BY <1>2, RecomputeChainSame
<1>7. /\ turn[0] = x
      /\ \A i \in 1 .. ChainLimit : turn[i] = NextInChain(a, mm, turn[i - 1])
  BY <1>2, ChainIs
<1> HIDE DEF r, turn
<1>8. SettledBut(W, mm.base, P[0], x, task[0])
  BY <1>1, <1>3 DEF Settled
<1> HIDE DEF W
<1>9. ASSUME NEW i \in 0 .. ChainLimit - 1, NEW j \in 0 .. ChainLimit - 1, task[i] = turn[j]
      PROVE  task[i + 1] = turn[j + 1]
  <2>1. /\ i + 1 \in 1 .. ChainLimit /\ j + 1 \in 1 .. ChainLimit
        /\ (i + 1) - 1 = i /\ (j + 1) - 1 = j
    BY ChainLimitPositive
  <2>2. task[i + 1] = NextInChain(kk, mm, task[i]) /\ turn[j + 1] = NextInChain(a, mm, turn[j])
    BY <1>3, <1>7, <2>1
  <2> QED BY <1>2, <1>9, <2>2
<1>10. R[0] = P[ChainLimit]
  BY <1>1, <1>5
<1>11. SettledBut(W, mm.base, R[ChainLimit], NoTask, NoTask)
  BY <1>1, <1>5, <1>7, <1>8, <1>9, <1>10, TwoWalksSettle
<1> QED BY <1>5, <1>6, <1>11 DEF Settled, r, a

\* What else the kernel data says plays no part.
LEMMA ShapeSame ==
    ASSUME NEW kk, NEW mm, Shape(kk, mm), NEW r \in KernelType,
           r.waitq = kk.waitq, r.waitOn = kk.waitOn, r.prio = kk.prio
    PROVE  /\ Shape(r, mm)
           /\ Waiters(r, mm) = Waiters(kk, mm)
           /\ \A x, y : Settled(kk, mm, x, y) => Settled(r, mm, x, y)
<1>1. Shape(r, mm)
  BY DEF Shape
<1>2. Waiters(r, mm) = Waiters(kk, mm)
  BY DEF Waiters
<1> QED BY <1>1, <1>2 DEF Settled

-----------------------------------------------------------------------------
(* A wait ends.                                                            *)

\* The first statement of task_detach_wait_locked
Unlinked(kk, t) == [kk EXCEPT !.waitq = [w \in WaitLists |-> ListDel(kk.waitq[w], t)]]

\* The task that then may have a priority too high
OwnerAsked(kk, mm, t) == IF kk.waitOn[t] \in Mutexes THEN mm.owner[kk.waitOn[t]] ELSE NoTask

\* The wait of t is over, and priorities have changed.
LeftWait(kk, d, t, result) ==
    /\ d.state = kk.state /\ d.slice = kk.slice
    /\ d.waitOn = [kk.waitOn EXCEPT ![t] = NoList]
    /\ d.result = [kk.result EXCEPT ![t] = result]
    /\ d.cur = kk.cur /\ d.isr = kk.isr /\ d.lock = kk.lock /\ d.tick = kk.tick
    /\ (d.pending <=> kk.pending) /\ (d.pendsv <=> kk.pendsv)
    /\ \A w \in WaitLists, u \in Tasks :
          Linked(d.waitq[w], u) <=> Linked(kk.waitq[w], u) /\ u # t

LEMMA UnlinkedType ==
    ASSUME NEW kk \in KernelType, NEW t
    PROVE  LET r == Unlinked(kk, t)
           IN  /\ r \in KernelType
               /\ \A w \in WaitLists : r.waitq[w] = ListDel(kk.waitq[w], t)
               /\ r.state = kk.state /\ r.prio = kk.prio /\ r.slice = kk.slice
               /\ r.wake = kk.wake /\ r.waitOn = kk.waitOn /\ r.result = kk.result
               /\ r.ready = kk.ready /\ r.bitmap = kk.bitmap /\ r.timeouts = kk.timeouts
               /\ r.cur = kk.cur /\ r.isr = kk.isr /\ r.lock = kk.lock
               /\ r.pending = kk.pending /\ r.pendsv = kk.pendsv /\ r.tick = kk.tick
<1> DEFINE lists == [w \in WaitLists |-> ListDel(kk.waitq[w], t)]
<1>1. kk.waitq \in [WaitLists -> Seq(Tasks)]
  BY DEF KernelType
<1>2. lists \in [WaitLists -> Seq(Tasks)]
  BY <1>1, ListDelLinked
<1>3. Unlinked(kk, t) = [kk EXCEPT !.waitq = lists]
  BY DEF Unlinked
<1>4. \A w \in WaitLists : lists[w] = ListDel(kk.waitq[w], t)
  OBVIOUS
<1> HIDE DEF lists
<1> QED BY <1>2, <1>3, <1>4 DEF KernelType

LEMMA UnlinkedShape ==
    ASSUME NEW kk, NEW mm, Shape(kk, mm), NEW t \in Tasks
    PROVE  /\ Shape(Unlinked(kk, t), mm)
           /\ Settled(kk, mm, NoTask, NoTask) =>
                 Settled(Unlinked(kk, t), mm, NoTask, OwnerAsked(kk, mm, t))
<1> DEFINE r == Unlinked(kk, t)
           W == Waiters(kk, mm)
           V == Waiters(r, mm)
<1>1. /\ kk \in KernelType /\ kk.waitq \in [WaitLists -> Seq(Tasks)] /\ Mutexes \subseteq WaitLists
      /\ \A w \in WaitLists : NoRepeat(kk.waitq[w])
  BY MutexAssumption DEF Shape, KernelType
<1>2. /\ r \in KernelType /\ r.prio = kk.prio /\ r.waitOn = kk.waitOn
      /\ \A w \in WaitLists : r.waitq[w] = ListDel(kk.waitq[w], t)
  BY <1>1, UnlinkedType
<1> HIDE DEF r
<1>3. \A w \in WaitLists : /\ NoRepeat(r.waitq[w])
                           /\ \A u : Linked(r.waitq[w], u) <=> Linked(kk.waitq[w], u) /\ u # t
  BY <1>1, <1>2, ListDelLinked
<1>4. \A m \in Mutexes : Ascending(r.waitq[m], Urgency(kk.prio))
  BY <1>1, <1>2, AscendingDel DEF Shape
<1>5. Shape(r, mm)
  <2>1. /\ \A w \in WaitLists, u \in Tasks : Linked(r.waitq[w], u) => kk.waitOn[u] = w
        /\ \A m \in Mutexes, u \in Tasks : Linked(r.waitq[m], u) => mm.owner[m] # u
    BY <1>1, <1>3 DEF Shape
  <2>2. /\ mm \in MutexType
        /\ \A m \in Mutexes, u \in Tasks : Linked(mm.held[u], m) => mm.owner[m] = u
    BY DEF Shape
  <2> QED BY <1>2, <1>3, <1>4, <2>1, <2>2 DEF Shape
<1>6. ASSUME NEW y \in Tasks, y # OwnerAsked(kk, mm, t) PROVE V[y] = W[y]
  <2>1. t \notin W[y]
    BY <1>1, <1>6 DEF Shape, Waiters, OwnerAsked
  <2> QED BY <1>1, <1>3, <2>1 DEF Waiters
<1>7. ASSUME Settled(kk, mm, NoTask, NoTask)
      PROVE  Settled(r, mm, NoTask, OwnerAsked(kk, mm, t))
  <2>1. \A y \in Tasks : IsTop(W, mm.base, kk.prio, y, kk.prio[y])
    BY <1>7, KernelAssumption DEF Settled, SettledBut
  <2> HIDE DEF V, W
  <2>2. \A y \in Tasks : y # OwnerAsked(kk, mm, t) => IsTop(V, mm.base, r.prio, y, r.prio[y])
    BY <1>2, <1>6, <2>1 DEF IsTop
  <2> QED BY <2>2 DEF Settled, SettledBut, V
<1> QED BY <1>5, <1>7 DEF r

\* task_detach_wait_locked, when no task but the one that t waits for is wrong,
\* or x, which then does not wait for anybody.
LEMMA DetachWaiterEffect ==
    ASSUME NEW kk \in KernelType, NEW mm, NEW t \in Tasks, NEW result \in Results,
           NEW S, Queues(kk, S), Shape(Unlinked(kk, t), mm),
           \A w \in WaitLists : NoRepeat(kk.waitq[w]),
           NEW x, Settled(Unlinked(kk, t), mm, x, OwnerAsked(kk, mm, t)),
           \/ x = NoTask
           \/ /\ x # NoTask /\ x # OwnerAsked(kk, mm, t) /\ OwnerAsked(kk, mm, t) # NoTask
              /\ NextInChain(Unlinked(kk, t), mm, OwnerAsked(kk, mm, t)) = NoTask
    PROVE  LET d == DetachWaiter(kk, mm, t, result)
           IN  /\ Shape(d, mm) /\ Queues(d, S) /\ Settled(d, mm, x, x)
               /\ LeftWait(kk, d, t, result)
<1> DEFINE r == Unlinked(kk, t)
           o == OwnerAsked(kk, mm, t)
           c == UnlinkWaiter(kk, mm, t)
           d == DetachWaiter(kk, mm, t, result)
<1>1. /\ r \in KernelType /\ r.prio = kk.prio /\ r.waitOn = kk.waitOn
      /\ r.state = kk.state /\ r.slice = kk.slice /\ r.result = kk.result
      /\ r.cur = kk.cur /\ r.isr = kk.isr /\ r.lock = kk.lock /\ r.tick = kk.tick
      /\ r.pending = kk.pending /\ r.pendsv = kk.pendsv
      /\ r.ready = kk.ready /\ r.bitmap = kk.bitmap
      /\ \A w \in WaitLists : r.waitq[w] = ListDel(kk.waitq[w], t)
  BY UnlinkedType
<1>2. kk.waitq \in [WaitLists -> Seq(Tasks)] /\ Mutexes \subseteq WaitLists
  BY MutexAssumption DEF KernelType
<1>3. c = IF kk.waitOn[t] \in Mutexes THEN RecomputeChain(r, mm, o) ELSE r
  BY DEF UnlinkWaiter, Unlinked, OwnerAsked
<1>4. d = Detach(c, t, result)
  BY DEF DetachWaiter
<1>5. kk.waitOn[t] \notin Mutexes => o = NoTask
  BY DEF OwnerAsked
<1>6. o \in Tasks \union {NoTask}
  BY DEF OwnerAsked, Shape, MutexType
<1>7. Shape(r, mm) /\ Settled(r, mm, x, o)
  OBVIOUS
<1>8. x # NoTask => x # o /\ o # NoTask /\ NextInChain(r, mm, o) = NoTask
  OBVIOUS
<1> HIDE DEF r, c, d, o
<1>9. Queues(r, S)
  BY <1>1, QueuesSame
<1>10. \A w \in WaitLists, u \in Tasks : Linked(r.waitq[w], u) <=> Linked(kk.waitq[w], u) /\ u # t
  BY <1>1, <1>2, ListDelLinked
<1>11. /\ Shape(c, mm) /\ Queues(c, S) /\ Reordered(r, c) /\ Settled(c, mm, x, x)
  <2>1. CASE kk.waitOn[t] \notin Mutexes
    <3>1. c = r /\ o = NoTask /\ x = NoTask
      BY <1>3, <1>5, <1>8, <2>1
    <3> QED BY <1>7, <1>9, <3>1 DEF Reordered
  <2>2. CASE kk.waitOn[t] \in Mutexes
    <3>1. c = RecomputeChain(r, mm, o)
      BY <1>3, <2>2
    <3>2. Shape(c, mm) /\ Queues(c, S) /\ Reordered(r, c)
      BY <1>6, <1>7, <1>9, <3>1, RecomputeChainSame
    <3>3. CASE x = NoTask
      BY <1>6, <1>7, <1>9, <3>1, <3>2, <3>3, ChainSettles
    <3>4. CASE x # NoTask
      <4>1. o \in Tasks
        BY <1>6, <1>8, <3>4
      <4> QED BY <1>7, <1>8, <1>9, <3>1, <3>2, <3>4, <4>1, ChainOfOneSettles
    <3> QED BY <3>3, <3>4
  <2> QED BY <2>1, <2>2
<1>12. c \in KernelType
  BY <1>11 DEF Shape
<1>13. /\ d \in KernelType /\ Detached(c, d, t, result) /\ SameTask(c, d) /\ SameRun(c, d)
       /\ SameFlags(c, d) /\ SameQueues(c, d) /\ d.state = c.state
  BY <1>4, <1>12, DetachEffect
<1>14. d.waitq = c.waitq
  <2>1. c.waitq \in [WaitLists -> Seq(Tasks)]
    BY <1>12 DEF KernelType
  <2>2. \A w \in WaitLists : ~Linked(c.waitq[w], t)
    BY <1>10, <1>11 DEF Reordered
  <2>3. \A w \in WaitLists : ListDel(c.waitq[w], t) = c.waitq[w]
    BY <2>1, <2>2, ListDelLinked
  <2>4. d.waitq = [w \in WaitLists |-> ListDel(c.waitq[w], t)]
    BY <1>13 DEF Detached
  <2> QED BY <2>1, <2>3, <2>4
<1>15. /\ d.waitOn = [c.waitOn EXCEPT ![t] = NoList] /\ d.result = [c.result EXCEPT ![t] = result]
       /\ d.prio = c.prio
  BY <1>13 DEF Detached, SameTask
<1>16. Queues(d, S)
  BY <1>11, <1>13, QueuesSame DEF SameQueues, SameTask
<1>17. \A w \in WaitLists, u \in Tasks : Linked(d.waitq[w], u) <=> Linked(kk.waitq[w], u) /\ u # t
  BY <1>10, <1>11, <1>14 DEF Reordered
<1>18. Shape(d, mm)
  <2>1. \A w \in WaitLists, u \in Tasks : Linked(d.waitq[w], u) => d.waitOn[u] = w
    <3> TAKE w \in WaitLists, u \in Tasks
    <3>1. Linked(d.waitq[w], u) => c.waitOn[u] = w /\ u # t
      BY <1>11, <1>14, <1>17 DEF Shape
    <3>2. c.waitOn \in [Tasks -> WaitLists \union {NoList}]
      BY <1>12 DEF KernelType
    <3> QED BY <1>15, <3>1, <3>2
  <2> QED BY <1>11, <1>13, <1>14, <1>15, <2>1 DEF Shape
<1>19. Settled(d, mm, x, x)
  <2>1. Waiters(d, mm) = Waiters(c, mm)
    BY <1>14 DEF Waiters
  <2> QED BY <1>11, <1>15, <2>1 DEF Settled
<1>20. LeftWait(kk, d, t, result)
  <2>1. /\ c.state = kk.state /\ c.slice = kk.slice /\ c.waitOn = kk.waitOn
        /\ c.result = kk.result /\ c.cur = kk.cur /\ c.isr = kk.isr /\ c.lock = kk.lock
        /\ c.tick = kk.tick /\ c.pending = kk.pending /\ c.pendsv = kk.pendsv
    BY <1>1, <1>11 DEF Reordered
  <2> QED BY <1>13, <1>15, <1>17, <2>1 DEF LeftWait, SameTask, SameRun, SameFlags
<1> QED BY <1>16, <1>18, <1>19, <1>20 DEF d

-----------------------------------------------------------------------------
(* The state between two functions: the invariant without the current task. *)

RunnableTasks(kk) == {t \in Tasks : kk.state[t] \in Runnable}

\* A task that waits is blocked, and on the list that it names.
Waiting(kk) ==
    \A t \in Tasks : kk.waitOn[t] # NoList =>
        kk.state[t] = "BLOCKED" /\ Linked(kk.waitq[kk.waitOn[t]], t)

\* The three places that say who owns a mutex agree.
Ownership(kk, mm) ==
    /\ \A t \in Tasks : NoRepeat(mm.held[t])
    /\ \A m \in Mutexes, t \in Tasks : mm.owner[m] = t => Linked(mm.held[t], m)
    /\ \A m \in Mutexes :
          /\ mm.owner[m] # NoTask <=> mm.count[m] > 0
          /\ mm.owner[m] # NoTask => m \in mm.live /\ kk.state[mm.owner[m]] # "STOP"
          /\ kk.waitq[m] # <<>> => mm.owner[m] # NoTask

\* In every critical section: the tasks x and y may not have their priority yet.
SoundBut(kk, mm, x, y) ==
    /\ Shape(kk, mm)
    /\ Settled(kk, mm, x, y)
    /\ Queues(kk, RunnableTasks(kk))
    /\ Waiting(kk)
    /\ Ownership(kk, mm)

Sound(kk, mm) == SoundBut(kk, mm, NoTask, NoTask)

\* task_detach_wait_locked may be called: for x, see DetachWaiterEffect.
Detachable(kk, mm, t, x) ==
    /\ kk \in KernelType /\ t \in Tasks
    /\ Shape(Unlinked(kk, t), mm)
    /\ \A w \in WaitLists : NoRepeat(kk.waitq[w])
    /\ Settled(Unlinked(kk, t), mm, x, OwnerAsked(kk, mm, t))
    /\ \/ x = NoTask
       \/ /\ x # NoTask /\ x # OwnerAsked(kk, mm, t) /\ OwnerAsked(kk, mm, t) # NoTask
          /\ NextInChain(Unlinked(kk, t), mm, OwnerAsked(kk, mm, t)) = NoTask

\* t has been woken with that result.
Woken(kk, r, t, result) ==
    /\ r.state = [kk.state EXCEPT ![t] = "READY"]
    /\ r.waitOn = [kk.waitOn EXCEPT ![t] = NoList]
    /\ r.result = [kk.result EXCEPT ![t] = result]
    /\ r.slice = kk.slice /\ r.cur = kk.cur
    /\ r.isr = kk.isr /\ r.lock = kk.lock /\ r.tick = kk.tick
    /\ kk.pendsv => r.pendsv
    /\ \A w \in WaitLists, u \in Tasks :
          Linked(r.waitq[w], u) <=> Linked(kk.waitq[w], u) /\ u # t

LEMMA SoundDetachable ==
    ASSUME NEW kk, NEW mm, Sound(kk, mm), NEW t \in Tasks
    PROVE  Detachable(kk, mm, t, NoTask)
<1>1. Shape(kk, mm) /\ Settled(kk, mm, NoTask, NoTask)
  BY DEF Sound, SoundBut
<1>2. /\ Shape(Unlinked(kk, t), mm)
      /\ Settled(Unlinked(kk, t), mm, NoTask, OwnerAsked(kk, mm, t))
  BY <1>1, UnlinkedShape
<1>3. kk \in KernelType /\ \A w \in WaitLists : NoRepeat(kk.waitq[w])
  BY <1>1 DEF Shape
<1> QED BY <1>2, <1>3 DEF Detachable

LEMMA Detaches ==
    ASSUME NEW kk, NEW mm, NEW t, NEW x, Detachable(kk, mm, t, x), NEW S, Queues(kk, S),
           NEW result \in Results
    PROVE  LET d == DetachWaiter(kk, mm, t, result)
           IN  /\ Shape(d, mm) /\ Queues(d, S) /\ Settled(d, mm, x, x)
               /\ LeftWait(kk, d, t, result)
BY DetachWaiterEffect DEF Detachable

\* aixos_sched_request_preemption, as far as it matters here
LEMMA PreemptionSame ==
    ASSUME NEW kk \in KernelType, NEW S \in SUBSET Tasks, Queues(kk, S)
    PROVE  LET r == RequestPreemption(kk)
           IN  /\ r \in KernelType /\ Queues(r, S)
               /\ SameWaits(kk, r) /\ SameRun(kk, r) /\ r.slice = kk.slice
               /\ kk.pendsv => r.pendsv
<1> DEFINE r == RequestPreemption(kk)
<1>1. /\ SameWaits(kk, r) /\ SameRun(kk, r) /\ SameQueues(kk, r)
      /\ Asked(kk, r) \/ SameFlags(kk, r)
  BY PreemptionEffect
<1>2. r \in KernelType /\ SwitchChanged(kk, r)
  BY RequestPreemptionType
<1> HIDE DEF r
<1>3. r.slice = kk.slice
  BY <1>2 DEF SwitchChanged, KernelType
<1>4. Queues(r, S)
  BY <1>1, QueuesSame DEF SameQueues, SameWaits
<1>5. kk.pendsv => r.pendsv
  BY <1>1 DEF Asked, SameFlags
<1> QED BY <1>1, <1>2, <1>3, <1>4, <1>5 DEF r

\* aixos_task_wake
LEMMA WakeWakes ==
    ASSUME NEW kk, NEW mm, NEW t, NEW x, Detachable(kk, mm, t, x),
           Queues(kk, RunnableTasks(kk)), NEW result \in Results,
           kk.state[t] \in {"BLOCKED", "DELAYED"}
    PROVE  LET r == Wake(kk, mm, t, result)
           IN  /\ Shape(r, mm) /\ Queues(r, RunnableTasks(r)) /\ Settled(r, mm, x, x)
               /\ Woken(kk, r, t, result)
<1> DEFINE S == RunnableTasks(kk)
           d == DetachWaiter(kk, mm, t, result)
           a == MakeReady(d, t)
           r == RequestPreemption(a)
<1>1. Wake(kk, mm, t, result) = r
  BY DEF Wake
<1>2. /\ Shape(d, mm) /\ Queues(d, S) /\ Settled(d, mm, x, x)
      /\ LeftWait(kk, d, t, result)
  BY Detaches
<1>3. t \in Tasks /\ kk \in KernelType
  BY DEF Detachable
<1> HIDE DEF d
<1>4. t \notin S /\ S \in SUBSET Tasks
  BY DEF RunnableTasks, Runnable
<1>5. d \in KernelType
  BY <1>2 DEF Shape
<1>6. /\ a \in KernelType /\ Queues(a, S \union {t}) /\ SameTask(d, a)
      /\ a.state = [d.state EXCEPT ![t] = "READY"] /\ SameWaiting(d, a) /\ SameFlags(d, a)
  BY <1>2, <1>3, <1>4, <1>5, MakeReadyQueues, MakeReadyEffect
<1> HIDE DEF a
<1>7. S \union {t} \in SUBSET Tasks
  BY <1>3, <1>4
<1> HIDE DEF S
<1>8. /\ r \in KernelType /\ Queues(r, S \union {t})
      /\ SameWaits(a, r) /\ SameRun(a, r) /\ r.slice = a.slice
      /\ a.pendsv => r.pendsv
  BY <1>6, <1>7, PreemptionSame
<1> HIDE DEF r
<1>9. /\ r.waitq = d.waitq /\ r.waitOn = d.waitOn /\ r.prio = d.prio
      /\ r.state = [d.state EXCEPT ![t] = "READY"] /\ r.result = d.result
      /\ r.slice = d.slice /\ r.cur = d.cur /\ r.isr = d.isr /\ r.lock = d.lock
      /\ r.tick = d.tick /\ (d.pendsv => r.pendsv)
  BY <1>6, <1>8 DEF SameWaits, SameRun, SameTask, SameWaiting, SameFlags
<1>10. Shape(r, mm) /\ Settled(r, mm, x, x)
  BY <1>2, <1>8, <1>9, ShapeSame
<1>11. Woken(kk, r, t, result)
  BY <1>2, <1>9 DEF LeftWait, Woken
<1>12. RunnableTasks(r) = S \union {t}
  <2>1. kk.state \in [Tasks -> TaskStates] /\ d.state = kk.state
    BY <1>2, <1>3 DEF KernelType, LeftWait
  <2> QED BY <1>3, <1>9, <2>1 DEF RunnableTasks, Runnable, S
<1> QED BY <1>1, <1>8, <1>10, <1>11, <1>12

\* Ownership does not change if nobody begins to wait and no owner stops.
LEMMA OwnershipSame ==
    ASSUME NEW kk, NEW mm, Shape(kk, mm), Ownership(kk, mm), NEW r \in KernelType,
           \A m \in Mutexes, u \in Tasks : Linked(r.waitq[m], u) => Linked(kk.waitq[m], u),
           \A u \in Tasks : r.state[u] = "STOP" => kk.state[u] = "STOP" \/ mm.held[u] = <<>>
    PROVE  Ownership(r, mm)
<1>1. /\ Mutexes \subseteq WaitLists /\ kk.waitq \in [WaitLists -> Seq(Tasks)]
      /\ r.waitq \in [WaitLists -> Seq(Tasks)] /\ mm.owner \in [Mutexes -> Tasks \union {NoTask}]
  BY MutexAssumption DEF Shape, KernelType, MutexType
<1>2. ASSUME NEW m \in Mutexes, r.waitq[m] # <<>> PROVE mm.owner[m] # NoTask
  <2>1. Head(r.waitq[m]) \in Tasks /\ Linked(r.waitq[m], Head(r.waitq[m]))
    BY <1>1, <1>2, FirstLinked
  <2>2. kk.waitq[m] # <<>>
    BY <1>1, <2>1, FirstLinked
  <2> QED BY <2>2 DEF Ownership
<1>3. ASSUME NEW m \in Mutexes, mm.owner[m] # NoTask PROVE r.state[mm.owner[m]] # "STOP"
  <2>1. mm.owner[m] \in Tasks
    BY <1>1, <1>3
  <2>2. Linked(mm.held[mm.owner[m]], m)
    BY <2>1 DEF Ownership
  <2>3. mm.held[mm.owner[m]] # <<>>
    BY <2>2 DEF Linked
  <2> QED BY <1>3, <2>1, <2>3 DEF Ownership
<1> QED BY <1>2, <1>3 DEF Ownership

LEMMA WakeSound ==
    ASSUME NEW kk, NEW mm, Sound(kk, mm), NEW t \in Tasks, NEW result \in Results,
           kk.state[t] \in {"BLOCKED", "DELAYED"}
    PROVE  LET r == Wake(kk, mm, t, result)
           IN  Sound(r, mm) /\ Woken(kk, r, t, result)
<1> DEFINE r == Wake(kk, mm, t, result)
<1>1. Shape(kk, mm) /\ Queues(kk, RunnableTasks(kk)) /\ Waiting(kk) /\ Ownership(kk, mm)
  BY DEF Sound, SoundBut
<1>2. Detachable(kk, mm, t, NoTask)
  BY SoundDetachable
<1>3. /\ Shape(r, mm) /\ Queues(r, RunnableTasks(r)) /\ Settled(r, mm, NoTask, NoTask)
      /\ Woken(kk, r, t, result)
  BY <1>1, <1>2, WakeWakes
<1> HIDE DEF r
<1>4. /\ kk.waitOn \in [Tasks -> WaitLists \union {NoList}] /\ r \in KernelType
      /\ kk.state \in [Tasks -> TaskStates] /\ Mutexes \subseteq WaitLists
  BY <1>1, <1>3, MutexAssumption DEF Shape, KernelType
<1>5. Waiting(r)
  BY <1>1, <1>3, <1>4 DEF Waiting, Woken
<1>6. Ownership(r, mm)
  <2>1. \A u \in Tasks : r.state[u] = "STOP" => kk.state[u] = "STOP"
    BY <1>3, <1>4 DEF Woken
  <2>2. \A m \in Mutexes, u \in Tasks : Linked(r.waitq[m], u) => Linked(kk.waitq[m], u)
    BY <1>3, <1>4 DEF Woken
  <2> QED BY <1>1, <1>4, <2>1, <2>2, OwnershipSame
<1> QED BY <1>3, <1>5, <1>6 DEF Sound, SoundBut, r

-----------------------------------------------------------------------------
(* The record of the mutexes.                                              *)

\* t has taken m.
Taken(mm, r, m, t) ==
    /\ r \in MutexType
    /\ r.base = mm.base /\ r.live = mm.live
    /\ r.owner = [mm.owner EXCEPT ![m] = t]
    /\ r.count = [mm.count EXCEPT ![m] = 1]
    /\ \A u \in Tasks \ {t} : r.held[u] = mm.held[u]
    /\ \A n : Linked(r.held[t], n) <=> Linked(mm.held[t], n) \/ n = m
    /\ NoRepeat(mm.held[t]) /\ ~Linked(mm.held[t], m) => NoRepeat(r.held[t])

\* m, of t, has been taken from the list of t.
Released(mm, r, m, t) ==
    /\ r \in MutexType
    /\ r.base = mm.base /\ r.live = mm.live /\ r.owner = mm.owner
    /\ r.count = [mm.count EXCEPT ![m] = 0]
    /\ \A u \in Tasks \ {t} : r.held[u] = mm.held[u]
    /\ NoRepeat(mm.held[t]) =>
          /\ NoRepeat(r.held[t])
          /\ \A n : Linked(r.held[t], n) <=> Linked(mm.held[t], n) /\ n # m

LEMMA TakeType ==
    ASSUME NEW mm \in MutexType, NEW m \in Mutexes, NEW t \in Tasks
    PROVE  Taken(mm, Take(mm, m, t), m, t)
<1> DEFINE new == Append(mm.held[t], m)
           held == [mm.held EXCEPT ![t] = new]
           r == Take(mm, m, t)
<1>1. mm.held \in [Tasks -> Seq(Mutexes)] /\ mm.held[t] \in Seq(Mutexes)
  BY DEF MutexType
<1>2. /\ new \in Seq(Mutexes)
      /\ \A n : Linked(new, n) <=> Linked(mm.held[t], n) \/ n = m
      /\ NoRepeat(mm.held[t]) /\ ~Linked(mm.held[t], m) => NoRepeat(new)
  BY <1>1, AppendIn
<1>3. r = [mm EXCEPT !.owner[m] = t, !.count[m] = 1, !.held = held]
  BY <1>1 DEF Take, MutexType
<1> HIDE DEF new
<1>4. /\ held \in [Tasks -> Seq(Mutexes)] /\ held[t] = new
      /\ \A u \in Tasks \ {t} : held[u] = mm.held[u]
  BY <1>1, <1>2
<1> HIDE DEF held, r
<1>5. 1 \in 0 .. MaxCount
  BY MutexAssumption
<1>6. /\ r \in MutexType /\ r.base = mm.base /\ r.live = mm.live /\ r.held = held
      /\ r.owner = [mm.owner EXCEPT ![m] = t] /\ r.count = [mm.count EXCEPT ![m] = 1]
  BY <1>3, <1>4, <1>5 DEF MutexType
<1> QED BY <1>2, <1>4, <1>6 DEF r, Taken

\* list_unlink_self and lock_count = 0, of a mutex that is owned
LEMMA ReleaseType ==
    ASSUME NEW mm \in MutexType, NEW m \in Mutexes, NEW t \in Tasks, mm.owner[m] = t
    PROVE  Released(mm, Release(mm, m), m, t)
<1> DEFINE new == ListDel(mm.held[t], m)
           held == [mm.held EXCEPT ![t] = new]
           r == Release(mm, m)
<1>1. mm.held \in [Tasks -> Seq(Mutexes)] /\ mm.held[t] \in Seq(Mutexes)
  BY DEF MutexType
<1>2. /\ new \in Seq(Mutexes)
      /\ NoRepeat(mm.held[t]) => /\ NoRepeat(new)
                                 /\ \A n : Linked(new, n) <=> Linked(mm.held[t], n) /\ n # m
  BY <1>1, ListDelIn
<1>3. r = [mm EXCEPT !.count[m] = 0, !.held = held]
  BY <1>1 DEF Release, MutexType
<1> HIDE DEF new
<1>4. /\ held \in [Tasks -> Seq(Mutexes)] /\ held[t] = new
      /\ \A u \in Tasks \ {t} : held[u] = mm.held[u]
  BY <1>1, <1>2
<1> HIDE DEF held, r
<1>5. 0 \in 0 .. MaxCount
  BY MutexAssumption
<1>6. /\ r \in MutexType /\ r.base = mm.base /\ r.live = mm.live /\ r.held = held
      /\ r.owner = mm.owner /\ r.count = [mm.count EXCEPT ![m] = 0]
  BY <1>3, <1>4, <1>5 DEF MutexType
<1> QED BY <1>2, <1>4, <1>6 DEF r, Released

\* A mutex on which nobody waits changes hands.
LEMMA QuietMutex ==
    ASSUME NEW kk, NEW mm, Shape(kk, mm), NEW m \in Mutexes, kk.waitq[m] = <<>>,
           NEW r \in MutexType, r.base = mm.base,
           \A n \in Mutexes \ {m} : r.owner[n] = mm.owner[n],
           \A n \in Mutexes \ {m}, u \in Tasks : Linked(r.held[u], n) <=> Linked(mm.held[u], n),
           \A u \in Tasks : Linked(r.held[u], m) => r.owner[m] = u
    PROVE  /\ Shape(kk, r)
           /\ \A x, y : Settled(kk, mm, x, y) => Settled(kk, r, x, y)
<1>1. \A u : ~Linked(kk.waitq[m], u)
  BY DEF Linked
<1>2. Shape(kk, r)
  BY <1>1 DEF Shape
<1>3. Waiters(kk, r) = Waiters(kk, mm)
  BY <1>1 DEF Waiters
<1> QED BY <1>2, <1>3 DEF Settled

\* aixos_mutex_lock of a free mutex
LEMMA TakeSound ==
    ASSUME NEW kk, NEW mm, Sound(kk, mm), NEW m \in Mutexes, m \in mm.live,
           mm.owner[m] = NoTask, NEW t \in Tasks, kk.state[t] # "STOP"
    PROVE  Sound(kk, Take(mm, m, t))
<1> DEFINE r == Take(mm, m, t)
<1>1. Shape(kk, mm) /\ Ownership(kk, mm) /\ mm \in MutexType
  BY DEF Sound, SoundBut, Shape
<1>2. kk.waitq[m] = <<>>
  BY <1>1 DEF Ownership
<1>3. \A u \in Tasks : ~Linked(mm.held[u], m)
  BY <1>1, KernelAssumption DEF Shape
<1>4. /\ r \in MutexType /\ r.base = mm.base /\ r.live = mm.live
      /\ r.owner = [mm.owner EXCEPT ![m] = t]
      /\ r.count = [mm.count EXCEPT ![m] = 1]
      /\ \A u \in Tasks \ {t} : r.held[u] = mm.held[u]
      /\ \A n : Linked(r.held[t], n) <=> Linked(mm.held[t], n) \/ n = m
      /\ NoRepeat(r.held[t])
  <2>1. Taken(mm, r, m, t)
    BY <1>1, TakeType
  <2> HIDE DEF r
  <2> QED BY <1>1, <1>3, <2>1 DEF Ownership, Taken
<1> HIDE DEF r
<1>5. /\ mm.owner \in [Mutexes -> Tasks \union {NoTask}] /\ mm.count \in [Mutexes -> 0 .. MaxCount]
      /\ t # NoTask
  BY <1>1, KernelAssumption DEF MutexType
<1>6. /\ r.owner[m] = t /\ r.count[m] = 1
      /\ \A n \in Mutexes \ {m} : r.owner[n] = mm.owner[n] /\ r.count[n] = mm.count[n]
  BY <1>4, <1>5
<1>7. \A u \in Tasks, n \in Mutexes :
         Linked(r.held[u], n) <=> Linked(mm.held[u], n) \/ (u = t /\ n = m)
  BY <1>4
<1>8. /\ Shape(kk, r)
      /\ \A x, y : Settled(kk, mm, x, y) => Settled(kk, r, x, y)
  BY <1>1, <1>2, <1>3, <1>4, <1>6, <1>7, QuietMutex
<1>9. Ownership(kk, r)
  <2>1. \A u \in Tasks : NoRepeat(r.held[u])
    BY <1>1, <1>4 DEF Ownership
  <2>2. \A n \in Mutexes, u \in Tasks : r.owner[n] = u => Linked(r.held[u], n)
    BY <1>1, <1>6, <1>7 DEF Ownership
  <2>3. ASSUME NEW n \in Mutexes
        PROVE  /\ r.owner[n] # NoTask <=> r.count[n] > 0
               /\ r.owner[n] # NoTask => n \in r.live /\ kk.state[r.owner[n]] # "STOP"
               /\ kk.waitq[n] # <<>> => r.owner[n] # NoTask
    <3>1. CASE n = m
      BY <1>2, <1>4, <1>5, <1>6, <3>1
    <3>2. CASE n # m
      BY <1>1, <1>4, <1>6, <3>2 DEF Ownership
    <3> QED BY <3>1, <3>2
  <2> QED BY <2>1, <2>2, <2>3 DEF Ownership
<1> QED BY <1>8, <1>9 DEF Sound, SoundBut, r

\* aixos_mutex_create, and lock and unlock below the last level: owner and
\* lists stay as they are.
LEMMA SameOwnerSound ==
    ASSUME NEW kk, NEW mm, Sound(kk, mm), NEW r \in MutexType,
           r.base = mm.base, r.owner = mm.owner, r.held = mm.held,
           \A m \in Mutexes : mm.count[m] > 0 <=> r.count[m] > 0, mm.live \subseteq r.live
    PROVE  Sound(kk, r)
<1>1. Waiters(kk, r) = Waiters(kk, mm)
  BY DEF Waiters
<1>2. Shape(kk, r)
  BY DEF Sound, SoundBut, Shape
<1>3. Ownership(kk, r)
  BY DEF Sound, SoundBut, Ownership
<1> QED BY <1>1, <1>2, <1>3 DEF Sound, SoundBut, Settled

-----------------------------------------------------------------------------
(* Unlock and delete.                                                      *)

LEMMA ReorderedSound ==
    ASSUME NEW kk, NEW mm, Shape(kk, mm), Waiting(kk), Ownership(kk, mm),
           NEW r, Shape(r, mm), Reordered(kk, r)
    PROVE  Waiting(r) /\ Ownership(r, mm) /\ RunnableTasks(r) = RunnableTasks(kk)
<1>1. Mutexes \subseteq WaitLists /\ r \in KernelType /\ kk \in KernelType
  BY MutexAssumption DEF Shape
<1>2. RunnableTasks(r) = RunnableTasks(kk)
  BY DEF Reordered, RunnableTasks
<1>3. Waiting(r)
  BY <1>1 DEF Reordered, Waiting, KernelType
<1>4. Ownership(r, mm)
  BY <1>1, OwnershipSame DEF Reordered
<1> QED BY <1>2, <1>3, <1>4

LEMMA ChainSound ==
    ASSUME NEW kk, NEW mm, NEW t \in Tasks \union {NoTask}, SoundBut(kk, mm, NoTask, t)
    PROVE  LET r == RecomputeChain(kk, mm, t)
           IN  Sound(r, mm) /\ Reordered(kk, r)
<1> DEFINE r == RecomputeChain(kk, mm, t)
<1>1. /\ Shape(kk, mm) /\ Settled(kk, mm, NoTask, t) /\ Queues(kk, RunnableTasks(kk))
      /\ Waiting(kk) /\ Ownership(kk, mm)
  BY DEF SoundBut
<1>2. Shape(r, mm) /\ Queues(r, RunnableTasks(kk)) /\ Reordered(kk, r)
  BY <1>1, RecomputeChainSame
<1>3. Settled(r, mm, NoTask, NoTask)
  BY <1>1, ChainSettles
<1> HIDE DEF r
<1>4. Waiting(r) /\ Ownership(r, mm) /\ RunnableTasks(r) = RunnableTasks(kk)
  BY <1>1, <1>2, ReorderedSound
<1>5. Sound(r, mm)
  BY <1>2, <1>3, <1>4 DEF Sound, SoundBut
<1> QED BY <1>2, <1>5 DEF r

LEMMA TwoChainsSound ==
    ASSUME NEW kk, NEW mm, NEW t \in Tasks \union {NoTask}, NEW x \in Tasks,
           SoundBut(kk, mm, x, t)
    PROVE  LET r == RecomputeChain(RecomputeChain(kk, mm, t), mm, x)
           IN  Sound(r, mm) /\ Reordered(kk, r)
<1> DEFINE a == RecomputeChain(kk, mm, t)
           r == RecomputeChain(a, mm, x)
<1>1. /\ Shape(kk, mm) /\ Settled(kk, mm, x, t) /\ Queues(kk, RunnableTasks(kk))
      /\ Waiting(kk) /\ Ownership(kk, mm)
  BY DEF SoundBut
<1>2. Settled(r, mm, NoTask, NoTask)
  BY <1>1, TwoChainsSettle
<1>3. Shape(a, mm) /\ Queues(a, RunnableTasks(kk)) /\ Reordered(kk, a)
  BY <1>1, RecomputeChainSame
<1> HIDE DEF a
<1>4. Shape(r, mm) /\ Queues(r, RunnableTasks(kk)) /\ Reordered(a, r)
  BY <1>3, RecomputeChainSame
<1> HIDE DEF r
<1>5. Reordered(kk, r)
  BY <1>3, <1>4, ReorderedTwice
<1>6. Waiting(r) /\ Ownership(r, mm) /\ RunnableTasks(r) = RunnableTasks(kk)
  BY <1>1, <1>4, <1>5, ReorderedSound
<1>7. Sound(r, mm)
  BY <1>2, <1>4, <1>6 DEF Sound, SoundBut
<1> QED BY <1>5, <1>7 DEF r, a

LEMMA SoundIsSoundBut ==
    ASSUME NEW kk, NEW mm, Sound(kk, mm), NEW x, NEW y
    PROVE  SoundBut(kk, mm, x, y)
BY KernelAssumption DEF Sound, SoundBut, Settled, SettledBut

\* m is on no list any more.
Dropped(mm, r, m) ==
    /\ r \in MutexType /\ r.base = mm.base
    /\ \A n \in Mutexes \ {m} : /\ r.owner[n] = mm.owner[n] /\ r.count[n] = mm.count[n]
                                /\ n \in mm.live => n \in r.live
    /\ \A u \in Tasks : NoRepeat(r.held[u])
    /\ \A u \in Tasks, n \in Mutexes : Linked(r.held[u], n) <=> Linked(mm.held[u], n) /\ n # m

LEMMA DroppedShape ==
    ASSUME NEW kk, NEW mm, Shape(kk, mm), NEW m \in Mutexes, kk.waitq[m] = <<>>,
           NEW r, Dropped(mm, r, m)
    PROVE  /\ Shape(kk, r)
           /\ \A x, y : Settled(kk, mm, x, y) => Settled(kk, r, x, y)
BY QuietMutex DEF Dropped

LEMMA DroppedOwnership ==
    ASSUME NEW kk, NEW mm, Ownership(kk, mm), NEW m \in Mutexes, kk.waitq[m] = <<>>,
           NEW r, Dropped(mm, r, m), r.owner[m] = NoTask, r.count[m] = 0
    PROVE  Ownership(kk, r)
<1>1. \A n \in Mutexes, u \in Tasks : r.owner[n] = u => n # m
  BY KernelAssumption
<1>2. \A n \in Mutexes, u \in Tasks : r.owner[n] = u => Linked(r.held[u], n)
  BY <1>1 DEF Ownership, Dropped
<1>3. ASSUME NEW n \in Mutexes
      PROVE  /\ r.owner[n] # NoTask <=> r.count[n] > 0
             /\ r.owner[n] # NoTask => n \in r.live /\ kk.state[r.owner[n]] # "STOP"
             /\ kk.waitq[n] # <<>> => r.owner[n] # NoTask
  BY DEF Ownership, Dropped
<1> QED BY <1>2, <1>3 DEF Ownership, Dropped

\* list_unlink_self drops a mutex; one that is free is on no list.
LEMMA ReleaseDrops ==
    ASSUME NEW kk, NEW mm, Shape(kk, mm), Ownership(kk, mm), NEW m \in Mutexes
    PROVE  LET r == IF mm.owner[m] = NoTask THEN mm ELSE Release(mm, m)
           IN  Dropped(mm, r, m) /\ r.owner = mm.owner /\ r.live = mm.live /\ r.count[m] = 0
<1> DEFINE t == mm.owner[m]
           r == IF t = NoTask THEN mm ELSE Release(mm, m)
<1>1. /\ mm \in MutexType /\ t \in Tasks \union {NoTask} /\ mm.count \in [Mutexes -> 0 .. MaxCount]
      /\ \A u \in Tasks : NoRepeat(mm.held[u])
      /\ \A u \in Tasks, n \in Mutexes : Linked(mm.held[u], n) => mm.owner[n] = u
  BY DEF Shape, MutexType, Ownership
<1>2. CASE t = NoTask
  <2>1. \A u \in Tasks : ~Linked(mm.held[u], m)
    BY <1>1, <1>2, KernelAssumption
  <2>2. mm.count[m] = 0
    BY <1>1, <1>2, MutexAssumption DEF Ownership
  <2> QED BY <1>1, <1>2, <2>1, <2>2 DEF Dropped
<1>3. CASE t # NoTask
  <2>1. t \in Tasks /\ r = Release(mm, m)
    BY <1>1, <1>3
  <2>2. Released(mm, r, m, t)
    BY <1>1, <2>1, ReleaseType
  <2> HIDE DEF r
  <2>3. \A u \in Tasks \ {t} : ~Linked(mm.held[u], m)
    BY <1>1
  <2>4. \A u \in Tasks, n \in Mutexes : Linked(r.held[u], n) <=> Linked(mm.held[u], n) /\ n # m
    BY <1>1, <2>1, <2>2, <2>3 DEF Released
  <2>5. /\ r.count[m] = 0 /\ \A n \in Mutexes \ {m} : r.count[n] = mm.count[n]
        /\ \A u \in Tasks : NoRepeat(r.held[u])
    BY <1>1, <2>1, <2>2 DEF Released
  <2> QED BY <2>2, <2>4, <2>5 DEF Dropped, Released, r
<1> QED BY <1>2, <1>3

\* The last unlock, without a waiter
LEMMA FreeSound ==
    ASSUME NEW kk, NEW mm, Sound(kk, mm), NEW m \in Mutexes, mm.owner[m] \in Tasks,
           kk.waitq[m] = <<>>
    PROVE  Sound(kk, [Release(mm, m) EXCEPT !.owner[m] = NoTask])
<1> DEFINE a == Release(mm, m)
           r == [a EXCEPT !.owner[m] = NoTask]
<1>1. /\ Shape(kk, mm) /\ Ownership(kk, mm) /\ Settled(kk, mm, NoTask, NoTask)
      /\ Queues(kk, RunnableTasks(kk)) /\ Waiting(kk)
  BY DEF Sound, SoundBut
<1>2. mm.owner[m] # NoTask
  BY KernelAssumption
<1>3. Dropped(mm, a, m) /\ a.owner = mm.owner /\ a.live = mm.live /\ a.count[m] = 0
  BY <1>1, <1>2, ReleaseDrops
<1> HIDE DEF a
<1>4. a \in MutexType
  BY <1>3 DEF Dropped
<1>5. /\ r \in MutexType /\ r.base = a.base /\ r.live = a.live /\ r.count = a.count
      /\ r.held = a.held /\ r.owner[m] = NoTask
      /\ \A n \in Mutexes \ {m} : r.owner[n] = a.owner[n]
  BY <1>4 DEF MutexType
<1> HIDE DEF r
<1>6. Dropped(mm, r, m)
  BY <1>3, <1>5 DEF Dropped
<1>7. Shape(kk, r) /\ Settled(kk, r, NoTask, NoTask)
  BY <1>1, <1>6, DroppedShape
<1>8. Ownership(kk, r)
  BY <1>1, <1>3, <1>5, <1>6, DroppedOwnership
<1> QED BY <1>1, <1>7, <1>8 DEF Sound, SoundBut, r, a

\* aixos_mutex_delete
LEMMA DeleteSound ==
    ASSUME NEW kk, NEW mm, Sound(kk, mm), NEW m \in Mutexes, kk.waitq[m] = <<>>,
           NEW a, a = IF mm.owner[m] = NoTask THEN mm ELSE Release(mm, m)
    PROVE  LET c == RecomputeChain(kk, a, mm.owner[m])
               r == [a EXCEPT !.live = @ \ {m}, !.owner[m] = NoTask, !.count[m] = 0]
           IN  Sound(c, r) /\ Reordered(kk, c)
<1> DEFINE c == RecomputeChain(kk, a, mm.owner[m])
           r == [a EXCEPT !.live = @ \ {m}, !.owner[m] = NoTask, !.count[m] = 0]
<1>1. /\ Shape(kk, mm) /\ Ownership(kk, mm) /\ Settled(kk, mm, NoTask, NoTask)
      /\ Queues(kk, RunnableTasks(kk)) /\ Waiting(kk)
  BY DEF Sound, SoundBut
<1>2. /\ mm.owner[m] \in Tasks \union {NoTask} /\ Mutexes \subseteq WaitLists
      /\ kk.waitq \in [WaitLists -> Seq(Tasks)]
  BY <1>1, MutexAssumption DEF Shape, KernelType, MutexType
<1>3. Dropped(mm, a, m) /\ a.owner = mm.owner /\ a.live = mm.live /\ a.count[m] = 0
  BY <1>1, ReleaseDrops
<1>4. a \in MutexType
  BY <1>3 DEF Dropped
<1>5. /\ r \in MutexType /\ r.base = a.base /\ r.live = a.live \ {m}
      /\ r.held = a.held /\ r.owner[m] = NoTask /\ r.count[m] = 0
      /\ \A n \in Mutexes \ {m} : r.owner[n] = a.owner[n] /\ r.count[n] = a.count[n]
  <2>1. 0 \in 0 .. MaxCount
    BY MutexAssumption
  <2> QED BY <1>4, <2>1 DEF MutexType
<1> HIDE DEF r
<1>6. Shape(kk, a) /\ Settled(kk, a, NoTask, NoTask)
  BY <1>1, <1>3, DroppedShape
<1>7. Settled(kk, a, NoTask, mm.owner[m])
  BY <1>6, KernelAssumption DEF Settled, SettledBut
<1>8. Shape(c, a) /\ Queues(c, RunnableTasks(kk)) /\ Reordered(kk, c)
  BY <1>1, <1>2, <1>6, RecomputeChainSame
<1>9. Settled(c, a, NoTask, NoTask)
  BY <1>1, <1>2, <1>6, <1>7, ChainSettles
<1> HIDE DEF c
<1>10. c \in KernelType /\ c.waitq \in [WaitLists -> Seq(Tasks)]
  BY <1>8 DEF Shape, KernelType
<1>11. c.waitq[m] = <<>>
  <2>1. \A u \in Tasks : ~Linked(c.waitq[m], u)
    BY <1>2, <1>8, FirstLinked DEF Reordered
  <2> QED BY <1>2, <1>10, <2>1, FirstLinked
<1>12. Dropped(a, r, m) /\ Dropped(mm, r, m)
  BY <1>3, <1>5 DEF Dropped
<1>13. Shape(c, r) /\ Settled(c, r, NoTask, NoTask)
  BY <1>8, <1>9, <1>11, <1>12, DroppedShape
<1>14. Ownership(c, mm)
  <2>1. \A n \in Mutexes, u \in Tasks : Linked(c.waitq[n], u) => Linked(kk.waitq[n], u)
    BY <1>2, <1>8 DEF Reordered
  <2>2. c.state = kk.state
    BY <1>8 DEF Reordered
  <2> QED BY <1>1, <1>10, <2>1, <2>2, OwnershipSame
<1>15. Ownership(c, r)
  BY <1>5, <1>11, <1>12, <1>14, DroppedOwnership
<1>16. Waiting(c) /\ RunnableTasks(c) = RunnableTasks(kk)
  <2>1. RunnableTasks(c) = RunnableTasks(kk)
    BY <1>8 DEF Reordered, RunnableTasks
  <2>2. Waiting(c)
    BY <1>1, <1>8 DEF Reordered, Waiting, Shape, KernelType
  <2> QED BY <2>1, <2>2
<1> QED BY <1>8, <1>13, <1>15, <1>16 DEF Sound, SoundBut, r, c

\* The last unlock, with a waiter: the mutex is in its new owner's hands
\* before that task has left the wait list, and the old owner keeps a
\* priority that may be too high until the task has been woken.
LEMMA HandOverDetachable ==
    ASSUME NEW kk, NEW mm, Sound(kk, mm), NEW m \in Mutexes, NEW t \in Tasks, mm.owner[m] = t,
           NEW next \in Tasks, Linked(kk.waitq[m], next),
           NEW h, h = Take(Release(mm, m), m, next)
    PROVE  /\ Detachable(kk, h, next, t)
           /\ next # t /\ kk.waitOn[next] = m
           /\ h \in MutexType /\ h.live = mm.live
           /\ h.owner = [mm.owner EXCEPT ![m] = next]
           /\ h.count = [mm.count EXCEPT ![m] = 1]
           /\ \A u \in Tasks : NoRepeat(h.held[u])
           /\ \A u \in Tasks, n \in Mutexes :
                 Linked(h.held[u], n) <=> IF n = m THEN u = next ELSE Linked(mm.held[u], n)
<1> DEFINE a == Release(mm, m)
           r == Unlinked(kk, next)
<1>1. /\ Shape(kk, mm) /\ Ownership(kk, mm) /\ Settled(kk, mm, NoTask, NoTask)
  BY DEF Sound, SoundBut
<1>2. /\ Mutexes \subseteq WaitLists /\ kk \in KernelType /\ mm \in MutexType
      /\ kk.waitq \in [WaitLists -> Seq(Tasks)] /\ t # NoTask /\ next # NoTask
  BY <1>1, MutexAssumption, KernelAssumption DEF Shape, KernelType
<1>3. next # t /\ kk.waitOn[next] = m
  BY <1>1, <1>2 DEF Shape
<1>4. /\ Dropped(mm, a, m) /\ a.owner = mm.owner /\ a.live = mm.live
      /\ a.count = [mm.count EXCEPT ![m] = 0]
  <2>1. Dropped(mm, a, m) /\ a.owner = mm.owner /\ a.live = mm.live
    BY <1>1, <1>2, ReleaseDrops
  <2>2. Released(mm, a, m, t)
    BY <1>2, ReleaseType
  <2> HIDE DEF a
  <2> QED BY <2>1, <2>2 DEF Released
<1>5. h = Take(a, m, next)
  OBVIOUS
<1> HIDE DEF a
<1>6. a \in MutexType /\ ~Linked(a.held[next], m) /\ NoRepeat(a.held[next])
  BY <1>4 DEF Dropped
<1>7. Taken(a, h, m, next)
  BY <1>5, <1>6, TakeType
<1>8. /\ h \in MutexType /\ h.live = mm.live /\ h.base = mm.base
      /\ h.owner = [mm.owner EXCEPT ![m] = next]
      /\ h.count = [mm.count EXCEPT ![m] = 1]
      /\ \A u \in Tasks : NoRepeat(h.held[u])
  BY <1>2, <1>4, <1>6, <1>7 DEF Taken, Dropped, MutexType
<1>9. \A u \in Tasks, n \in Mutexes :
         Linked(h.held[u], n) <=> IF n = m THEN u = next ELSE Linked(mm.held[u], n)
  BY <1>4, <1>7 DEF Taken, Dropped
<1>10. /\ h.owner[m] = next /\ \A n \in Mutexes \ {m} : h.owner[n] = mm.owner[n]
  BY <1>2, <1>8 DEF MutexType
<1>11. /\ Shape(r, mm) /\ r.waitOn = kk.waitOn /\ r.prio = kk.prio
       /\ \A w \in WaitLists, u \in Tasks :
             Linked(r.waitq[w], u) <=> Linked(kk.waitq[w], u) /\ u # next
  <2>1. Shape(r, mm)
    BY <1>1, UnlinkedShape
  <2>2. /\ r.waitOn = kk.waitOn /\ r.prio = kk.prio
        /\ \A w \in WaitLists : r.waitq[w] = ListDel(kk.waitq[w], next)
    BY <1>2, UnlinkedType
  <2> HIDE DEF r
  <2>3. \A w \in WaitLists : NoRepeat(kk.waitq[w])
    BY <1>1 DEF Shape
  <2> QED BY <1>2, <2>1, <2>2, <2>3, ListDelLinked
<1> HIDE DEF r
<1>12. Shape(r, h)
  <2>1. \A n \in Mutexes, u \in Tasks : Linked(h.held[u], n) => h.owner[n] = u
    BY <1>1, <1>9, <1>10 DEF Shape
  <2>2. \A n \in Mutexes, u \in Tasks : Linked(r.waitq[n], u) => h.owner[n] # u
    BY <1>1, <1>2, <1>10, <1>11 DEF Shape
  <2> QED BY <1>8, <1>11, <2>1, <2>2 DEF Shape
<1>13. ASSUME NEW y \in Tasks \ {t, next}
       PROVE  Waiters(r, h)[y] = Waiters(kk, mm)[y]
  <2>1. \A n \in Mutexes : Linked(h.held[y], n) <=> Linked(mm.held[y], n)
    BY <1>1, <1>9 DEF Shape
  <2>2. ASSUME NEW n \in Mutexes, Linked(mm.held[y], n), NEW u \in Tasks
        PROVE  Linked(r.waitq[n], u) <=> Linked(kk.waitq[n], u)
    <3>1. n # m
      BY <1>1, <2>2 DEF Shape
    <3>2. Linked(kk.waitq[n], u) => u # next
      BY <1>1, <1>2, <1>3, <3>1 DEF Shape
    <3> QED BY <1>2, <1>11, <3>2
  <2> QED BY <2>1, <2>2 DEF Waiters
<1>14. Settled(r, h, t, next)
  <2>1. \A y \in Tasks : IsTop(Waiters(kk, mm), mm.base, kk.prio, y, kk.prio[y])
    BY <1>1, KernelAssumption DEF Settled, SettledBut
  <2>2. \A y \in Tasks \ {t, next} : IsTop(Waiters(r, h), h.base, r.prio, y, r.prio[y])
    BY <1>8, <1>11, <1>13, <2>1 DEF IsTop
  <2> QED BY <2>2 DEF Settled, SettledBut
<1>15. OwnerAsked(kk, h, next) = next /\ NextInChain(r, h, next) = NoTask
  BY <1>3, <1>10, <1>11 DEF OwnerAsked, NextInChain
<1>16. Detachable(kk, h, next, t)
  BY <1>1, <1>2, <1>3, <1>12, <1>14, <1>15 DEF Detachable, Shape, r
<1> QED BY <1>3, <1>8, <1>9, <1>16

LEMMA HandOverSound ==
    ASSUME NEW kk, NEW mm, Sound(kk, mm), NEW m \in Mutexes, NEW t \in Tasks, mm.owner[m] = t,
           kk.state[t] # "STOP", NEW next \in Tasks, Linked(kk.waitq[m], next),
           NEW h, h = Take(Release(mm, m), m, next)
    PROVE  LET w == Wake(kk, h, next, "OK")
           IN  /\ Woken(kk, w, next, "OK") /\ SoundBut(w, h, NoTask, t)
               /\ kk.waitOn[next] = m /\ h.owner = [mm.owner EXCEPT ![m] = next]
<1> DEFINE w == Wake(kk, h, next, "OK")
<1>1. /\ Shape(kk, mm) /\ Ownership(kk, mm) /\ Waiting(kk) /\ Queues(kk, RunnableTasks(kk))
  BY DEF Sound, SoundBut
<1>2. /\ Detachable(kk, h, next, t)
      /\ next # t /\ kk.waitOn[next] = m
      /\ h \in MutexType /\ h.live = mm.live
      /\ h.owner = [mm.owner EXCEPT ![m] = next]
      /\ h.count = [mm.count EXCEPT ![m] = 1]
      /\ \A u \in Tasks : NoRepeat(h.held[u])
      /\ \A u \in Tasks, n \in Mutexes :
            Linked(h.held[u], n) <=> IF n = m THEN u = next ELSE Linked(mm.held[u], n)
  BY HandOverDetachable
<1>3. /\ Mutexes \subseteq WaitLists /\ kk \in KernelType /\ mm \in MutexType
      /\ t # NoTask /\ next # NoTask /\ m # NoList
  BY <1>1, MutexAssumption, KernelAssumption DEF Shape
<1>4. kk.state[next] = "BLOCKED"
  BY <1>1, <1>2, <1>3 DEF Waiting
<1>5. "OK" \in Results
  BY DEF Results
<1>6. /\ Shape(w, h) /\ Queues(w, RunnableTasks(w)) /\ Settled(w, h, t, t)
      /\ Woken(kk, w, next, "OK")
  BY <1>1, <1>2, <1>4, <1>5, WakeWakes
<1> HIDE DEF w
<1>7. Settled(w, h, NoTask, t)
  BY <1>6 DEF Settled, SettledBut
<1>8. /\ kk.waitOn \in [Tasks -> WaitLists \union {NoList}] /\ w \in KernelType
      /\ kk.state \in [Tasks -> TaskStates] /\ w.waitq \in [WaitLists -> Seq(Tasks)]
      /\ kk.waitq \in [WaitLists -> Seq(Tasks)]
      /\ mm.owner \in [Mutexes -> Tasks \union {NoTask}] /\ mm.count \in [Mutexes -> 0 .. MaxCount]
  BY <1>3, <1>6 DEF Shape, KernelType, MutexType
<1>9. Waiting(w)
  BY <1>1, <1>6, <1>8 DEF Waiting, Woken
<1>10. /\ w.state[next] = "READY" /\ \A u \in Tasks \ {next} : w.state[u] = kk.state[u]
  BY <1>6, <1>8 DEF Woken
<1>11. Ownership(w, h)
  <2>1. \A n \in Mutexes, u \in Tasks : h.owner[n] = u => Linked(h.held[u], n)
    BY <1>1, <1>2, <1>8 DEF Ownership
  <2>2. ASSUME NEW n \in Mutexes
        PROVE  /\ h.owner[n] # NoTask <=> h.count[n] > 0
               /\ h.owner[n] # NoTask => n \in h.live /\ w.state[h.owner[n]] # "STOP"
    <3>1. CASE n = m
      BY <1>1, <1>2, <1>3, <1>8, <1>10, <3>1 DEF Ownership
    <3>2. CASE n # m
      <4>1. h.owner[n] = mm.owner[n] /\ h.count[n] = mm.count[n]
        BY <1>2, <1>8, <3>2
      <4>2. h.owner[n] # NoTask => h.owner[n] \in Tasks
        BY <1>8, <4>1
      <4>3. "READY" # "STOP"
        OBVIOUS
      <4> QED BY <1>1, <1>2, <1>10, <4>1, <4>2, <4>3 DEF Ownership
    <3> QED BY <3>1, <3>2
  <2>3. ASSUME NEW n \in Mutexes, w.waitq[n] # <<>> PROVE h.owner[n] # NoTask
    <3>1. Head(w.waitq[n]) \in Tasks /\ Linked(w.waitq[n], Head(w.waitq[n]))
      BY <1>3, <1>8, <2>3, FirstLinked
    <3>2. Linked(kk.waitq[n], Head(w.waitq[n]))
      BY <1>3, <1>6, <3>1 DEF Woken
    <3>3. kk.waitq[n] # <<>>
      BY <3>2 DEF Linked
    <3> QED BY <1>1, <1>2, <1>3, <1>8, <3>3 DEF Ownership
  <2> QED BY <1>2, <2>1, <2>2, <2>3 DEF Ownership
<1> QED BY <1>2, <1>6, <1>7, <1>9, <1>11 DEF SoundBut, w

-----------------------------------------------------------------------------
(* Blocking, suspending and resuming tasks.                                *)

\* A change of the clock, of the flags or of the current task
LEMMA SoundSame ==
    ASSUME NEW kk, NEW mm, NEW x, NEW y, SoundBut(kk, mm, x, y), NEW r \in KernelType,
           r.state = kk.state, r.waitq = kk.waitq, r.waitOn = kk.waitOn, r.prio = kk.prio,
           Queues(r, RunnableTasks(kk))
    PROVE  SoundBut(r, mm, x, y) /\ RunnableTasks(r) = RunnableTasks(kk)
<1>1. /\ Shape(kk, mm) /\ Settled(kk, mm, x, y) /\ Waiting(kk) /\ Ownership(kk, mm)
  BY DEF SoundBut
<1>2. Shape(r, mm) /\ Settled(r, mm, x, y)
  BY <1>1, ShapeSame
<1>3. RunnableTasks(r) = RunnableTasks(kk) /\ Waiting(r)
  BY <1>1 DEF RunnableTasks, Waiting
<1>4. Ownership(r, mm)
  BY <1>1 DEF Ownership
<1> QED BY <1>2, <1>3, <1>4 DEF SoundBut

LEMMA RequestsSound ==
    ASSUME NEW kk, NEW mm, Sound(kk, mm)
    PROVE  Sound(RescheduleRequest(kk), mm) /\ Sound(RequestPreemption(kk), mm)
<1>1. kk \in KernelType /\ Queues(kk, RunnableTasks(kk)) /\ RunnableTasks(kk) \in SUBSET Tasks
  BY DEF Sound, SoundBut, Shape, RunnableTasks
<1>2. Sound(RescheduleRequest(kk), mm)
  <2> DEFINE r == RescheduleRequest(kk)
  <2>1. r \in KernelType /\ SameWaits(kk, r) /\ SameQueues(kk, r)
    BY <1>1, RescheduleRequestType, RescheduleEffect
  <2> HIDE DEF r
  <2>2. Queues(r, RunnableTasks(kk))
    BY <1>1, <2>1, QueuesSame DEF SameWaits, SameQueues
  <2>3. Sound(r, mm)
    BY <2>1, <2>2, SoundSame DEF Sound, SameWaits
  <2> QED BY <2>3 DEF r
<1>3. Sound(RequestPreemption(kk), mm)
  <2> DEFINE r == RequestPreemption(kk)
  <2>1. r \in KernelType /\ SameWaits(kk, r) /\ Queues(r, RunnableTasks(kk))
    BY <1>1, PreemptionSame
  <2> HIDE DEF r
  <2>2. Sound(r, mm)
    BY <2>1, SoundSame DEF Sound, SameWaits
  <2> QED BY <2>2 DEF r
<1> QED BY <1>2, <1>3

\* The current task waits on that list.
Blocked(kk, r, list) ==
    /\ r.state = [kk.state EXCEPT ![kk.cur] = "BLOCKED"]
    /\ r.waitOn = [kk.waitOn EXCEPT ![kk.cur] = list]
    /\ r.cur = kk.cur /\ r.isr = kk.isr /\ r.lock = kk.lock
    /\ r.result = [kk.result EXCEPT ![kk.cur] = "OK"]

\* aixos_task_block_current up to the call of aixos_mutex_waiter_added
LEMMA BeginWaitSound ==
    ASSUME NEW kk, NEW mm, Sound(kk, mm), kk.cur \in Tasks, kk.state[kk.cur] \in Runnable,
           NEW list \in WaitLists, NEW timeout \in Nat,
           list \in Mutexes => mm.owner[list] \in Tasks \ {kk.cur}
    PROVE  LET r == BeginWait(kk, "BLOCKED", list, timeout)
               o == IF list \in Mutexes THEN mm.owner[list] ELSE NoTask
           IN  SoundBut(r, mm, NoTask, o) /\ Blocked(kk, r, list)
<1> DEFINE r == BeginWait(kk, "BLOCKED", list, timeout)
           o == IF list \in Mutexes THEN mm.owner[list] ELSE NoTask
           t == kk.cur
           S == RunnableTasks(kk)
           new == WaitInsert(kk.waitq[list], kk.prio, t)
<1>1. /\ Shape(kk, mm) /\ Settled(kk, mm, NoTask, NoTask) /\ Queues(kk, S)
      /\ Waiting(kk) /\ Ownership(kk, mm)
  BY DEF Sound, SoundBut
<1>2. /\ kk \in KernelType /\ Mutexes \subseteq WaitLists /\ list # NoList
      /\ kk.waitq \in [WaitLists -> Seq(Tasks)] /\ kk.prio \in [Tasks -> Priorities]
      /\ kk.state \in [Tasks -> TaskStates] /\ kk.waitOn \in [Tasks -> WaitLists \union {NoList}]
      /\ mm.owner \in [Mutexes -> Tasks \union {NoTask}]
  BY <1>1, MutexAssumption, KernelAssumption DEF Shape, KernelType, MutexType
<1>3. "BLOCKED" \in TaskStates /\ list \in WaitLists \union {NoList}
  BY DEF TaskStates
<1>4. /\ r \in KernelType /\ Queues(r, S \ {t})
      /\ r.state = [kk.state EXCEPT ![t] = "BLOCKED"]
      /\ r.cur = kk.cur /\ r.isr = kk.isr /\ r.lock = kk.lock
  <2> DEFINE s == "BLOCKED"
  <2>1. s \in TaskStates
    BY <1>3
  <2> HIDE DEF s, S
  <2>2. /\ BeginWait(kk, s, list, timeout) \in KernelType
        /\ Queues(BeginWait(kk, s, list, timeout), S \ {kk.cur})
        /\ BeginWait(kk, s, list, timeout).state = [kk.state EXCEPT ![kk.cur] = s]
        /\ SameTask(kk, BeginWait(kk, s, list, timeout))
    BY <1>1, <1>2, <1>3, <2>1, BeginWaitQueues
  <2> QED BY <2>2 DEF s, SameTask
<1>5. Begun(kk, r, "BLOCKED", list, timeout)
  BY <1>1, <1>2, <1>3, BeginWaitEffect
<1> HIDE DEF r
<1>6. /\ r.waitOn = [kk.waitOn EXCEPT ![t] = list] /\ r.prio = kk.prio
      /\ r.result = [kk.result EXCEPT ![t] = "OK"]
      /\ r.waitq = [kk.waitq EXCEPT ![list] = new]
  BY <1>2, <1>5 DEF Begun
<1>7. kk.waitOn[t] = NoList /\ \A w \in WaitLists : ~Linked(kk.waitq[w], t)
  <2>1. kk.waitOn[t] = NoList
    BY <1>1 DEF Waiting, Runnable
  <2> QED BY <1>1, <2>1, KernelAssumption DEF Shape
<1>8. /\ new \in Seq(Tasks) /\ NoRepeat(new)
      /\ \A u : Linked(new, u) <=> Linked(kk.waitq[list], u) \/ u = t
  BY <1>1, <1>2, <1>7, WaitInsertLinked DEF Shape
<1>9. ASSUME list \in Mutexes PROVE Ascending(new, Urgency(kk.prio))
  <2>1. Ascending(kk.waitq[list], Urgency(kk.prio)) /\ kk.waitq[list] \in Seq(Tasks)
    BY <1>1, <1>2, <1>9 DEF Shape
  <2> QED BY <1>2, <2>1, WaitInsertAscending DEF Urgency
<1> HIDE DEF new
<1>10. /\ r.waitq[list] = new /\ \A w \in WaitLists \ {list} : r.waitq[w] = kk.waitq[w]
  BY <1>2, <1>6
<1>11. \A w \in WaitLists, u \in Tasks :
          Linked(r.waitq[w], u) <=> Linked(kk.waitq[w], u) \/ (w = list /\ u = t)
  BY <1>8, <1>10
<1>12. Shape(r, mm)
  <2>1. \A w \in WaitLists : NoRepeat(r.waitq[w])
    BY <1>1, <1>8, <1>10 DEF Shape
  <2>2. \A w \in WaitLists, u \in Tasks : Linked(r.waitq[w], u) => r.waitOn[u] = w
    BY <1>1, <1>2, <1>6, <1>7, <1>11 DEF Shape
  <2>3. \A m \in Mutexes, u \in Tasks : Linked(r.waitq[m], u) => mm.owner[m] # u
    BY <1>1, <1>2, <1>11 DEF Shape
  <2>4. \A m \in Mutexes : Ascending(r.waitq[m], Urgency(r.prio))
    BY <1>1, <1>2, <1>6, <1>9, <1>10 DEF Shape
  <2> QED BY <1>1, <1>4, <2>1, <2>2, <2>3, <2>4 DEF Shape
<1>13. Settled(r, mm, NoTask, o)
  <2>1. ASSUME NEW y \in Tasks \ {o} PROVE Waiters(r, mm)[y] = Waiters(kk, mm)[y]
    <3>1. ~Linked(mm.held[y], list) \/ list \notin Mutexes
      BY <1>1, <2>1 DEF Shape
    <3> QED BY <1>2, <1>11, <3>1 DEF Waiters
  <2>2. \A y \in Tasks : IsTop(Waiters(kk, mm), mm.base, kk.prio, y, kk.prio[y])
    BY <1>1, KernelAssumption DEF Settled, SettledBut
  <2>3. \A y \in Tasks \ {o} : IsTop(Waiters(r, mm), mm.base, r.prio, y, r.prio[y])
    BY <1>6, <2>1, <2>2 DEF IsTop
  <2> QED BY <2>3 DEF Settled, SettledBut
<1>14. RunnableTasks(r) = S \ {t}
  BY <1>2, <1>4 DEF RunnableTasks, Runnable
<1>15. Waiting(r)
  <2> SUFFICES ASSUME NEW u \in Tasks, r.waitOn[u] # NoList
               PROVE  r.state[u] = "BLOCKED" /\ Linked(r.waitq[r.waitOn[u]], u)
    BY DEF Waiting
  <2>1. CASE u = t
    BY <1>2, <1>4, <1>6, <1>11, <2>1
  <2>2. CASE u # t
    BY <1>1, <1>2, <1>4, <1>6, <1>11, <2>2 DEF Waiting
  <2> QED BY <2>1, <2>2
<1>16. Ownership(r, mm)
  <2>1. ASSUME NEW m \in Mutexes, r.waitq[m] # <<>> PROVE mm.owner[m] # NoTask
    <3>1. CASE m = list
      BY <3>1, KernelAssumption
    <3>2. CASE m # list
      BY <1>1, <1>2, <1>10, <2>1, <3>2 DEF Ownership
    <3> QED BY <3>1, <3>2
  <2>2. ASSUME NEW m \in Mutexes, mm.owner[m] # NoTask PROVE r.state[mm.owner[m]] # "STOP"
    <3>1. mm.owner[m] \in Tasks /\ kk.state[mm.owner[m]] # "STOP"
      BY <1>1, <1>2, <2>2 DEF Ownership
    <3> QED BY <1>2, <1>4, <3>1
  <2> QED BY <1>1, <2>1, <2>2 DEF Ownership
<1>17. Blocked(kk, r, list)
  BY <1>4, <1>6 DEF Blocked
<1>18. BeginWait(kk, "BLOCKED", list, timeout) = r
  BY DEF r
<1> QED BY <1>4, <1>12, <1>13, <1>14, <1>15, <1>16, <1>17, <1>18 DEF SoundBut

LEMMA BlockSound ==
    ASSUME NEW kk, NEW mm, Sound(kk, mm), kk.cur \in Tasks, kk.state[kk.cur] \in Runnable,
           NEW list \in WaitLists, NEW timeout \in Nat,
           list \in Mutexes => mm.owner[list] \in Tasks \ {kk.cur}
    PROVE  LET r == Block(kk, mm, list, timeout)
           IN  /\ Sound(r, mm) /\ Blocked(kk, r, list)
               /\ kk.isr = 0 /\ kk.lock = 0 => r.pendsv
<1> DEFINE w == BeginWait(kk, "BLOCKED", list, timeout)
           o == IF list \in Mutexes THEN mm.owner[list] ELSE NoTask
           c == IF list \in Mutexes THEN RecomputeChain(w, mm, mm.owner[list]) ELSE w
           r == RescheduleRequest(c)
<1>1. Block(kk, mm, list, timeout) = r
  BY DEF Block
<1>2. SoundBut(w, mm, NoTask, o) /\ Blocked(kk, w, list)
  BY BeginWaitSound
<1> HIDE DEF w
<1>3. Sound(c, mm) /\ Reordered(w, c)
  <2>1. CASE list \in Mutexes
    <3>1. o \in Tasks \union {NoTask} /\ c = RecomputeChain(w, mm, o)
      BY <2>1
    <3> HIDE DEF o, c
    <3> QED BY <1>2, <3>1, ChainSound
  <2>2. CASE list \notin Mutexes
    BY <1>2, <2>2 DEF Sound, Reordered
  <2> QED BY <2>1, <2>2
<1> HIDE DEF c
<1>4. c \in KernelType
  BY <1>3 DEF Sound, SoundBut, Shape
<1>5. SameWaits(c, r) /\ SameRun(c, r) /\ Asked(c, r)
  BY <1>4, RescheduleEffect
<1>6. Sound(r, mm)
  BY <1>3, RequestsSound
<1> HIDE DEF r
<1>7. Blocked(kk, r, list)
  BY <1>2, <1>3, <1>5 DEF Blocked, Reordered, SameWaits, SameRun
<1>8. kk.isr = 0 /\ kk.lock = 0 => r.pendsv
  BY <1>2, <1>3, <1>5 DEF Blocked, Reordered, Asked
<1> QED BY <1>1, <1>6, <1>7, <1>8

LEMMA ShapeDetachable ==
    ASSUME NEW kk, NEW mm, Shape(kk, mm), Settled(kk, mm, NoTask, NoTask), NEW t \in Tasks
    PROVE  Detachable(kk, mm, t, NoTask)
<1>1. /\ Shape(Unlinked(kk, t), mm)
      /\ Settled(Unlinked(kk, t), mm, NoTask, OwnerAsked(kk, mm, t))
  BY UnlinkedShape
<1>2. kk \in KernelType /\ \A w \in WaitLists : NoRepeat(kk.waitq[w])
  BY DEF Shape
<1> QED BY <1>1, <1>2 DEF Detachable

\* t has been taken from all lists and is in the state s.
Withdrawn(kk, r, t, s) ==
    /\ r.state = [kk.state EXCEPT ![t] = s]
    /\ r.waitOn = [kk.waitOn EXCEPT ![t] = NoList]
    /\ r.cur = kk.cur /\ r.isr = kk.isr /\ r.lock = kk.lock
    /\ r.pendsv <=> kk.pendsv
    /\ kk.waitOn[t] # NoList => r.result[t] = "INTR"
    /\ \A u \in Tasks \ {t} : r.result[u] = kk.result[u]

\* What aixos_task_suspend and aixos_task_delete begin with
LEMMA LeavesLists ==
    ASSUME NEW kk, NEW mm, Sound(kk, mm), NEW t \in Tasks, NEW d,
           \/ d = DetachWaiter(SchedRemove(kk, t), mm, t, "INTR")
           \/ d = SchedRemove(kk, t) /\ kk.waitOn[t] = NoList
    PROVE  /\ Shape(d, mm) /\ Queues(d, RunnableTasks(kk) \ {t}) /\ Settled(d, mm, NoTask, NoTask)
           /\ Withdrawn(kk, d, t, kk.state[t])
           /\ \A w \in WaitLists, u \in Tasks :
                 Linked(d.waitq[w], u) <=> Linked(kk.waitq[w], u) /\ u # t
<1> DEFINE b == SchedRemove(kk, t)
           S == RunnableTasks(kk)
<1>1. /\ Shape(kk, mm) /\ Settled(kk, mm, NoTask, NoTask) /\ Queues(kk, S) /\ kk \in KernelType
  BY DEF Sound, SoundBut, Shape
<1>2. /\ kk.state \in [Tasks -> TaskStates] /\ kk.waitOn \in [Tasks -> WaitLists \union {NoList}]
      /\ kk.result \in [Tasks -> Results]
  BY <1>1 DEF KernelType
<1> HIDE DEF S
<1>3. b \in KernelType /\ Queues(b, S \ {t}) /\ QueuesChanged(kk, b)
  BY <1>1, SchedRemoveQueues
<1>4. d = DetachWaiter(b, mm, t, "INTR") \/ (d = b /\ kk.waitOn[t] = NoList)
  OBVIOUS
<1> HIDE DEF b
<1>5. SameWaits(kk, b) /\ SameRun(kk, b) /\ SameFlags(kk, b)
  BY <1>1, <1>3, QueuesChangedSame
<1>6. /\ b.state = kk.state /\ b.waitq = kk.waitq /\ b.waitOn = kk.waitOn /\ b.prio = kk.prio
      /\ b.result = kk.result /\ b.cur = kk.cur /\ b.isr = kk.isr /\ b.lock = kk.lock
      /\ b.pendsv <=> kk.pendsv
  BY <1>5 DEF SameWaits, SameRun, SameFlags
<1>7. Shape(b, mm) /\ Settled(b, mm, NoTask, NoTask)
  BY <1>1, <1>3, <1>6, ShapeSame
<1>8. [kk.state EXCEPT ![t] = kk.state[t]] = kk.state
  BY <1>2
<1>9. CASE d = DetachWaiter(b, mm, t, "INTR")
  <2>1. Detachable(b, mm, t, NoTask)
    BY <1>7, ShapeDetachable
  <2>2. "INTR" \in Results
    BY DEF Results
  <2>3. /\ Shape(d, mm) /\ Queues(d, S \ {t}) /\ Settled(d, mm, NoTask, NoTask)
        /\ LeftWait(b, d, t, "INTR")
    BY <1>3, <1>9, <2>1, <2>2, Detaches
  <2>4. Withdrawn(kk, d, t, kk.state[t])
    BY <1>2, <1>6, <1>8, <2>3 DEF LeftWait, Withdrawn
  <2> QED BY <1>6, <2>3, <2>4 DEF LeftWait, S
<1>10. CASE d = b /\ kk.waitOn[t] = NoList
  <2>1. [kk.waitOn EXCEPT ![t] = NoList] = kk.waitOn
    BY <1>2, <1>10
  <2>2. Withdrawn(kk, d, t, kk.state[t])
    BY <1>6, <1>8, <1>10, <2>1 DEF Withdrawn
  <2>3. \A w \in WaitLists : ~Linked(kk.waitq[w], t)
    BY <1>1, <1>10, KernelAssumption DEF Shape
  <2> QED BY <1>3, <1>6, <1>7, <1>10, <2>2, <2>3 DEF S
<1> QED BY <1>4, <1>9, <1>10

\* The statement that follows
LEMMA WithdrawSound ==
    ASSUME NEW kk, NEW mm, Sound(kk, mm), NEW t \in Tasks, NEW d,
           \/ d = DetachWaiter(SchedRemove(kk, t), mm, t, "INTR")
           \/ d = SchedRemove(kk, t) /\ kk.waitOn[t] = NoList,
           NEW s \in TaskStates \ Runnable, s = "STOP" => mm.held[t] = <<>>
    PROVE  LET r == [d EXCEPT !.state[t] = s]
           IN  Sound(r, mm) /\ Withdrawn(kk, r, t, s)
<1> DEFINE r == [d EXCEPT !.state[t] = s]
           S == RunnableTasks(kk)
<1>1. Shape(kk, mm) /\ Waiting(kk) /\ Ownership(kk, mm) /\ kk \in KernelType
  BY DEF Sound, SoundBut, Shape
<1>2. /\ Shape(d, mm) /\ Queues(d, S \ {t}) /\ Settled(d, mm, NoTask, NoTask)
      /\ Withdrawn(kk, d, t, kk.state[t])
      /\ \A w \in WaitLists, u \in Tasks :
            Linked(d.waitq[w], u) <=> Linked(kk.waitq[w], u) /\ u # t
  BY LeavesLists
<1>3. d \in KernelType /\ d.state \in [Tasks -> TaskStates]
  BY <1>2 DEF Shape, KernelType
<1>4. /\ kk.state \in [Tasks -> TaskStates] /\ kk.waitOn \in [Tasks -> WaitLists \union {NoList}]
      /\ Mutexes \subseteq WaitLists
  BY <1>1, MutexAssumption DEF KernelType
<1> DEFINE states == [d.state EXCEPT ![t] = s]
<1>5. states \in [Tasks -> TaskStates] /\ states = [kk.state EXCEPT ![t] = s]
  <2>1. d.state = [kk.state EXCEPT ![t] = kk.state[t]]
    BY <1>2 DEF Withdrawn
  <2> QED BY <1>3, <1>4, <2>1
<1>6. r = [d EXCEPT !.state = states]
  OBVIOUS
<1> HIDE DEF states, r
<1>7. /\ r \in KernelType /\ r.state = states /\ r.waitq = d.waitq /\ r.waitOn = d.waitOn
      /\ r.prio = d.prio /\ r.result = d.result /\ r.cur = d.cur /\ r.isr = d.isr
      /\ r.lock = d.lock /\ r.pendsv = d.pendsv /\ r.ready = d.ready /\ r.bitmap = d.bitmap
  BY <1>3, <1>5, <1>6 DEF KernelType
<1>8. Withdrawn(kk, r, t, s)
  BY <1>2, <1>5, <1>7 DEF Withdrawn
<1>9. Shape(r, mm) /\ Settled(r, mm, NoTask, NoTask)
  BY <1>2, <1>7, ShapeSame
<1>10. RunnableTasks(r) = S \ {t}
  BY <1>4, <1>5, <1>7 DEF RunnableTasks
<1>11. Queues(r, RunnableTasks(r))
  BY <1>2, <1>7, <1>10, QueuesSame
<1>12. Waiting(r)
  BY <1>1, <1>2, <1>4, <1>8, <1>7 DEF Waiting, Withdrawn
<1>13. Ownership(r, mm)
  <2>1. \A u \in Tasks : r.state[u] = "STOP" => kk.state[u] = "STOP" \/ mm.held[u] = <<>>
    BY <1>4, <1>5, <1>7
  <2>2. \A m \in Mutexes, u \in Tasks : Linked(r.waitq[m], u) => Linked(kk.waitq[m], u)
    BY <1>2, <1>4, <1>7
  <2> QED BY <1>1, <1>7, <2>1, <2>2, OwnershipSame
<1> QED BY <1>8, <1>9, <1>11, <1>12, <1>13 DEF Sound, SoundBut, r

\* A task that does not wait is made READY.
LEMMA ReadySound ==
    ASSUME NEW kk, NEW mm, Sound(kk, mm), NEW t \in Tasks,
           kk.state[t] \notin Runnable \union {"BLOCKED"}
    PROVE  LET r == MakeReady(kk, t)
           IN  /\ Sound(r, mm) /\ SameTask(kk, r) /\ SameWaiting(kk, r) /\ SameFlags(kk, r)
               /\ r.state = [kk.state EXCEPT ![t] = "READY"]
<1> DEFINE r == MakeReady(kk, t)
           S == RunnableTasks(kk)
<1>1. /\ Shape(kk, mm) /\ Settled(kk, mm, NoTask, NoTask) /\ Queues(kk, S)
      /\ Waiting(kk) /\ Ownership(kk, mm) /\ kk \in KernelType
  BY DEF Sound, SoundBut, Shape
<1>2. /\ kk.state \in [Tasks -> TaskStates] /\ Mutexes \subseteq WaitLists
      /\ kk.waitOn[t] = NoList /\ t \notin S
  BY <1>1, MutexAssumption DEF KernelType, Waiting, RunnableTasks
<1> HIDE DEF S
<1>3. /\ r \in KernelType /\ Queues(r, S \union {t})
      /\ r.state = [kk.state EXCEPT ![t] = "READY"] /\ SameTask(kk, r)
      /\ SameWaiting(kk, r) /\ SameFlags(kk, r)
  BY <1>1, <1>2, MakeReadyQueues, MakeReadyEffect
<1> HIDE DEF r
<1>4. Shape(r, mm) /\ Settled(r, mm, NoTask, NoTask)
  BY <1>1, <1>3, ShapeSame DEF SameTask, SameWaiting
<1>5. RunnableTasks(r) = S \union {t}
  BY <1>2, <1>3 DEF RunnableTasks, Runnable, S
<1>6. Waiting(r)
  BY <1>1, <1>2, <1>3 DEF Waiting, SameWaiting
<1>7. Ownership(r, mm)
  <2>1. \A u \in Tasks : r.state[u] = "STOP" => kk.state[u] = "STOP"
    BY <1>2, <1>3
  <2>2. \A m \in Mutexes, u \in Tasks : Linked(r.waitq[m], u) => Linked(kk.waitq[m], u)
    BY <1>3 DEF SameWaiting
  <2> QED BY <1>1, <1>3, <2>1, <2>2, OwnershipSame
<1> QED BY <1>3, <1>4, <1>5, <1>6, <1>7 DEF Sound, SoundBut, r

\* The priority a task is given
Rebased(mm, t, p) == [mm EXCEPT !.base[t] = p]

LEMMA RebasedType ==
    ASSUME NEW mm \in MutexType, NEW t \in Tasks, NEW p \in Priorities
    PROVE  LET r == Rebased(mm, t, p)
           IN  /\ r \in MutexType /\ r.base = [mm.base EXCEPT ![t] = p] /\ r.live = mm.live
               /\ r.owner = mm.owner /\ r.count = mm.count /\ r.held = mm.held
<1> DEFINE bases == [mm.base EXCEPT ![t] = p]
           r == Rebased(mm, t, p)
<1>1. bases \in [Tasks -> Priorities]
  BY DEF MutexType
<1>2. r = [mm EXCEPT !.base = bases]
  BY DEF Rebased
<1> HIDE DEF bases, r
<1>3. /\ r \in MutexType /\ r.base = bases /\ r.live = mm.live
      /\ r.owner = mm.owner /\ r.count = mm.count /\ r.held = mm.held
  BY <1>1, <1>2 DEF MutexType
<1> QED BY <1>3 DEF bases, r

\* A control block that has been freed, or taken into use again: nobody waits
\* for a mutex of a task that is stopped, and it waits for none itself.
LEMMA RebornSound ==
    ASSUME NEW kk, NEW mm, Sound(kk, mm), NEW t \in Tasks, kk.state[t] = "STOP",
           NEW p \in Priorities, NEW r \in KernelType, r.prio = [kk.prio EXCEPT ![t] = p],
           r.state = kk.state, r.waitq = kk.waitq, r.waitOn = kk.waitOn,
           r.ready = kk.ready, r.bitmap = kk.bitmap
    PROVE  Sound(r, Rebased(mm, t, p))
<1> DEFINE b == Rebased(mm, t, p)
           W == Waiters(kk, mm)
<1>1. /\ Shape(kk, mm) /\ Settled(kk, mm, NoTask, NoTask) /\ Queues(kk, RunnableTasks(kk))
      /\ Waiting(kk) /\ Ownership(kk, mm)
  BY DEF Sound, SoundBut
<1>2. /\ kk \in KernelType /\ mm \in MutexType /\ Mutexes \subseteq WaitLists
      /\ kk.prio \in [Tasks -> Priorities] /\ mm.base \in [Tasks -> Priorities]
      /\ kk.waitq \in [WaitLists -> Seq(Tasks)] /\ t # NoTask
  BY <1>1, MutexAssumption, KernelAssumption DEF Shape, KernelType, MutexType
<1>3. /\ b \in MutexType /\ b.base = [mm.base EXCEPT ![t] = p] /\ b.live = mm.live
      /\ b.owner = mm.owner /\ b.count = mm.count /\ b.held = mm.held
  BY <1>2, RebasedType
<1> HIDE DEF b
<1>4. \A w \in WaitLists : ~Linked(kk.waitq[w], t)
  BY <1>1, KernelAssumption DEF Shape, Waiting
<1>5. \A m \in Mutexes : ~Linked(mm.held[t], m)
  BY <1>1, <1>2 DEF Shape, Ownership
<1>6. Shape(r, b)
  <2>1. \A m \in Mutexes : Ascending(r.waitq[m], Urgency(r.prio))
    BY <1>1, <1>2, <1>4, AscendingElsewhere DEF Shape
  <2> QED BY <1>1, <1>3, <2>1 DEF Shape
<1>7. Settled(r, b, NoTask, NoTask)
  <2>1. Waiters(r, b) = W
    BY <1>3 DEF Waiters
  <2>2. \A y \in Tasks : IsTop(W, mm.base, kk.prio, y, kk.prio[y])
    BY <1>1, KernelAssumption DEF Settled, SettledBut
  <2>3. W[t] = {} /\ \A y \in Tasks : t \notin W[y] /\ W[y] \subseteq Tasks
    BY <1>2, <1>4, <1>5 DEF Waiters
  <2> HIDE DEF W
  <2>4. IsTop(W, b.base, r.prio, t, r.prio[t])
    <3>1. b.base[t] = p /\ r.prio[t] = p /\ p \in Int
      BY <1>2, <1>3 DEF Priorities
    <3> QED BY <2>3, <3>1 DEF IsTop
  <2>5. ASSUME NEW y \in Tasks \ {t} PROVE IsTop(W, b.base, r.prio, y, r.prio[y])
    <3>1. b.base[y] = mm.base[y] /\ r.prio[y] = kk.prio[y]
      BY <1>2, <1>3
    <3>2. \A u \in W[y] : r.prio[u] = kk.prio[u]
      BY <1>2, <2>3
    <3> QED BY <2>2, <3>1, <3>2 DEF IsTop
  <2> QED BY <2>1, <2>4, <2>5 DEF Settled, SettledBut
<1>8. RunnableTasks(r) = RunnableTasks(kk) /\ t \notin RunnableTasks(kk) /\ RunnableTasks(kk) \subseteq Tasks
  BY DEF RunnableTasks, Runnable
<1>9. Queues(r, RunnableTasks(r))
  <2>1. \A u \in RunnableTasks(kk) : r.prio[u] = kk.prio[u]
    BY <1>2, <1>8
  <2> DEFINE S == RunnableTasks(kk)
  <2>2. Queues(kk, S)
    BY <1>1
  <2>3. RunnableTasks(r) = S
    BY <1>8
  <2>4. \A u \in S : r.prio[u] = kk.prio[u]
    BY <2>1
  <2> HIDE DEF S
  <2>5. Queues(r, S)
    BY <2>2, <2>4 DEF Queues
  <2> QED BY <2>3, <2>5
<1>10. Waiting(r) /\ Ownership(r, b)
  BY <1>1, <1>3 DEF Waiting, Ownership
<1> QED BY <1>6, <1>7, <1>9, <1>10 DEF Sound, SoundBut, b

\* aixos_task_set_priority: the owner that t waits for, and then t
LEMMA SetPrioritySound ==
    ASSUME NEW kk, NEW mm, Sound(kk, mm), NEW t \in Tasks, NEW p \in Priorities
    PROVE  LET b == Rebased(mm, t, p)
               moved == WaiterPriorityChanged(
                           SchedRequeue([kk EXCEPT !.prio[t] = p], t, kk.prio[t]), t)
               owners == IF kk.waitOn[t] \in Mutexes
                         THEN RecomputeChain(moved, b, mm.owner[kk.waitOn[t]]) ELSE moved
               r == RecomputeChain(owners, b, t)
           IN  Sound(r, b) /\ Reordered(kk, r)
<1> DEFINE b == Rebased(mm, t, p)
           moved == WaiterPriorityChanged(
                       SchedRequeue([kk EXCEPT !.prio[t] = p], t, kk.prio[t]), t)
           o == OwnerAsked(kk, mm, t)
           owners == IF kk.waitOn[t] \in Mutexes
                     THEN RecomputeChain(moved, b, mm.owner[kk.waitOn[t]]) ELSE moved
           r == RecomputeChain(owners, b, t)
           W == Waiters(kk, mm)
<1>1. /\ Shape(kk, mm) /\ Settled(kk, mm, NoTask, NoTask) /\ Queues(kk, RunnableTasks(kk))
      /\ Waiting(kk) /\ Ownership(kk, mm)
  BY DEF Sound, SoundBut
<1>2. /\ kk \in KernelType /\ mm \in MutexType /\ Mutexes \subseteq WaitLists
      /\ kk.prio \in [Tasks -> Priorities] /\ mm.base \in [Tasks -> Priorities]
      /\ o \in Tasks \union {NoTask}
  BY <1>1, MutexAssumption DEF Shape, KernelType, MutexType, OwnerAsked
<1>3. /\ b \in MutexType /\ b.base = [mm.base EXCEPT ![t] = p] /\ b.live = mm.live
      /\ b.owner = mm.owner /\ b.count = mm.count /\ b.held = mm.held
  BY <1>2, RebasedType
<1> HIDE DEF b
<1>4. Changed(kk, t, p, moved)
  BY DEF Changed
<1> HIDE DEF moved
<1>5. /\ Shape(moved, mm) /\ Queues(moved, RunnableTasks(kk)) /\ Reordered(kk, moved)
      /\ moved.prio = [kk.prio EXCEPT ![t] = p]
  BY <1>1, <1>4, ChangedEffect
<1>6. Shape(moved, b)
  BY <1>3, <1>5 DEF Shape
<1>7. Waiting(moved) /\ Ownership(moved, b) /\ RunnableTasks(moved) = RunnableTasks(kk)
  <2>1. Waiting(moved) /\ Ownership(moved, mm) /\ RunnableTasks(moved) = RunnableTasks(kk)
    BY <1>1, <1>5, ReorderedSound
  <2> QED BY <1>3, <2>1 DEF Ownership
<1>8. Settled(moved, b, t, o)
  <2>1. Waiters(moved, b) = W
    <3>1. Waiters(moved, mm) = W
      BY <1>5, ReorderedSame
    <3> QED BY <1>3, <3>1 DEF Waiters
  <2>2. \A y \in Tasks : IsTop(W, mm.base, kk.prio, y, kk.prio[y])
    BY <1>1, KernelAssumption DEF Settled, SettledBut
  <2>3. \A y \in Tasks : W[y] \subseteq Tasks /\ (y # o => t \notin W[y])
    BY <1>1, <1>2 DEF Shape, Waiters, OwnerAsked
  <2> HIDE DEF W
  <2>4. ASSUME NEW y \in Tasks \ {t}, y # o
        PROVE  IsTop(W, b.base, moved.prio, y, moved.prio[y])
    <3>1. b.base[y] = mm.base[y] /\ moved.prio[y] = kk.prio[y]
      BY <1>2, <1>3, <1>5
    <3>2. \A u \in W[y] : moved.prio[u] = kk.prio[u]
      BY <1>2, <1>5, <2>3, <2>4
    <3> QED BY <2>2, <3>1, <3>2 DEF IsTop
  <2> QED BY <2>1, <2>4 DEF Settled, SettledBut
<1>9. Sound(r, b) /\ Reordered(moved, r)
  <2>1. CASE kk.waitOn[t] \in Mutexes
    <3>1. r = RecomputeChain(RecomputeChain(moved, b, o), b, t)
      BY <2>1 DEF OwnerAsked
    <3>2. SoundBut(moved, b, t, o)
      BY <1>5, <1>6, <1>7, <1>8 DEF SoundBut
    <3> HIDE DEF o
    <3>3. /\ Sound(RecomputeChain(RecomputeChain(moved, b, o), b, t), b)
          /\ Reordered(moved, RecomputeChain(RecomputeChain(moved, b, o), b, t))
      BY <1>2, <3>2, TwoChainsSound
    <3> HIDE DEF r
    <3> QED BY <3>1, <3>3
  <2>2. CASE kk.waitOn[t] \notin Mutexes
    <3>1. r = RecomputeChain(moved, b, t) /\ o = NoTask
      BY <2>2 DEF OwnerAsked
    <3>2. Settled(moved, b, NoTask, t)
      BY <1>8, <3>1 DEF Settled, SettledBut
    <3>3. SoundBut(moved, b, NoTask, t)
      BY <1>5, <1>6, <1>7, <3>2 DEF SoundBut
    <3>4. /\ Sound(RecomputeChain(moved, b, t), b)
          /\ Reordered(moved, RecomputeChain(moved, b, t))
      BY <3>3, ChainSound
    <3> HIDE DEF r, o
    <3> QED BY <3>1, <3>4
  <2> QED BY <2>1, <2>2
<1> HIDE DEF owners, r
<1>10. Reordered(kk, r)
  BY <1>5, <1>9, ReorderedTwice
<1> QED BY <1>9, <1>10 DEF b, moved, owners, r

-----------------------------------------------------------------------------
(* The context switch, the timeouts and the start.                         *)

LEMMA ScheduleSound ==
    ASSUME NEW kk, NEW mm, Sound(kk, mm), kk.state[Idle] \in Runnable
    PROVE  LET r == Schedule(kk)
           IN  /\ Sound(r, mm) /\ r.cur \in Tasks /\ r.state[r.cur] = "RUNNING"
               /\ r.state[Idle] \in Runnable
               /\ r.waitOn = kk.waitOn /\ r.isr = kk.isr /\ r.lock = kk.lock
<1> DEFINE r == Schedule(kk)
           h == HighestReady(kk)
           S == RunnableTasks(kk)
<1>1. /\ Shape(kk, mm) /\ Settled(kk, mm, NoTask, NoTask) /\ Queues(kk, S)
      /\ Waiting(kk) /\ Ownership(kk, mm) /\ kk \in KernelType
  BY DEF Sound, SoundBut, Shape
<1>2. S \in SUBSET Tasks /\ S # {} /\ Idle \in S
  BY MutexAssumption DEF RunnableTasks
<1>3. h \in S
  BY <1>1, <1>2, HighestReadyIsHighest
<1>4. /\ r \in KernelType /\ Queues(r, S)
      /\ r = [kk EXCEPT !.state = r.state, !.cur = h]
      /\ \A t \in Tasks : r.state[t] =
            IF t = h THEN "RUNNING"
            ELSE IF t = kk.cur /\ kk.state[t] = "RUNNING" THEN "READY" ELSE kk.state[t]
  BY <1>1, <1>2, ScheduleType
<1> HIDE DEF r, h
<1>5. /\ r.cur = h /\ r.prio = kk.prio /\ r.waitq = kk.waitq /\ r.waitOn = kk.waitOn
      /\ r.isr = kk.isr /\ r.lock = kk.lock /\ Mutexes \subseteq WaitLists
  BY <1>1, <1>4, MutexAssumption DEF KernelType
<1>6. Shape(r, mm) /\ Settled(r, mm, NoTask, NoTask)
  BY <1>1, <1>4, <1>5, ShapeSame
<1>7. h \in Tasks /\ kk.state[h] \in Runnable
  BY <1>3 DEF RunnableTasks
<1>8. RunnableTasks(r) = S
  BY <1>4, <1>7 DEF RunnableTasks, Runnable
<1>9. \A t \in Tasks : kk.state[t] \notin Runnable => r.state[t] = kk.state[t]
  BY <1>4, <1>7 DEF Runnable
<1>10. Waiting(r)
  BY <1>1, <1>5, <1>9 DEF Waiting, Runnable
<1>11. Ownership(r, mm)
  <2>1. \A u \in Tasks : r.state[u] = "STOP" => kk.state[u] = "STOP"
    BY <1>4
  <2> QED BY <1>1, <1>4, <1>5, <2>1, OwnershipSame
<1>12. r.state[h] = "RUNNING" /\ r.state[Idle] \in Runnable
  <2>1. Idle \in RunnableTasks(r)
    BY <1>2, <1>8
  <2> QED BY <1>4, <1>7, <2>1 DEF RunnableTasks
<1> QED BY <1>4, <1>5, <1>6, <1>7, <1>8, <1>10, <1>11, <1>12 DEF Sound, SoundBut, r

\* Some of the tasks that waited have been woken, with that result.
SomeWoken(kk, r, result) ==
    \A t \in Tasks :
       \/ /\ r.state[t] = kk.state[t] /\ r.waitOn[t] = kk.waitOn[t]
          /\ r.result[t] = kk.result[t]
       \/ /\ kk.state[t] \in {"BLOCKED", "DELAYED"} /\ r.state[t] = "READY"
          /\ r.waitOn[t] = NoList /\ r.result[t] = result

Aged(kk, r, result) ==
    /\ r.cur = kk.cur /\ r.isr = kk.isr /\ r.lock = kk.lock /\ r.slice = kk.slice
    /\ kk.pendsv => r.pendsv
    /\ SomeWoken(kk, r, result)

LEMMA AgedSame ==
    ASSUME NEW kk, NEW result
    PROVE  Aged(kk, kk, result)
BY DEF Aged, SomeWoken

LEMMA AgedWake ==
    ASSUME NEW kk \in KernelType, NEW b \in KernelType, NEW r, NEW result, NEW t \in Tasks,
           Aged(kk, b, result), Woken(b, r, t, result), b.state[t] \in {"BLOCKED", "DELAYED"}
    PROVE  Aged(kk, r, result)
<1>1. /\ b.state \in [Tasks -> TaskStates] /\ b.waitOn \in [Tasks -> WaitLists \union {NoList}]
      /\ b.result \in [Tasks -> Results]
  BY DEF KernelType
<1>2. \A u \in Tasks \ {t} : /\ r.state[u] = b.state[u] /\ r.waitOn[u] = b.waitOn[u]
                             /\ r.result[u] = b.result[u]
  BY <1>1 DEF Woken
<1>3. r.state[t] = "READY" /\ r.waitOn[t] = NoList /\ r.result[t] = result
  BY <1>1 DEF Woken
<1>4. kk.state[t] \in {"BLOCKED", "DELAYED"}
  BY DEF Aged, SomeWoken
<1>5. /\ r.cur = kk.cur /\ r.isr = kk.isr /\ r.lock = kk.lock /\ r.slice = kk.slice
      /\ kk.pendsv => r.pendsv
  BY DEF Aged, Woken
<1>6. ASSUME NEW u \in Tasks
      PROVE  \/ /\ r.state[u] = kk.state[u] /\ r.waitOn[u] = kk.waitOn[u]
                /\ r.result[u] = kk.result[u]
             \/ /\ kk.state[u] \in {"BLOCKED", "DELAYED"} /\ r.state[u] = "READY"
                /\ r.waitOn[u] = NoList /\ r.result[u] = result
  <2>1. CASE u = t
    BY <1>3, <1>4, <2>1
  <2>2. CASE u # t
    BY <1>2, <2>2 DEF Aged, SomeWoken
  <2> QED BY <2>1, <2>2
<1> QED BY <1>5, <1>6 DEF Aged, SomeWoken

\* One turn of the loop of aixos_task_tick
LEMMA ExpireFirstSound ==
    ASSUME NEW kk \in KernelType, NEW b, NEW mm, Sound(b, mm), Aged(kk, b, "TIMEOUT")
    PROVE  LET r == ExpireFirst(b, mm) IN Sound(r, mm) /\ Aged(kk, r, "TIMEOUT")
<1> DEFINE t == Head(b.timeouts)
<1>1. b \in KernelType /\ b.timeouts \in Seq(Tasks)
  BY DEF Sound, SoundBut, Shape, KernelType
<1>2. CASE /\ b.timeouts # <<>> /\ TickReached(b.tick, b.wake[t])
           /\ b.state[t] \in {"BLOCKED", "DELAYED"}
  <2>1. ExpireFirst(b, mm) = Wake(b, mm, t, "TIMEOUT")
    BY <1>2 DEF ExpireFirst
  <2>2. t \in Tasks /\ "TIMEOUT" \in Results
    BY <1>1, <1>2 DEF Results
  <2> HIDE DEF t
  <2>3. /\ Sound(Wake(b, mm, t, "TIMEOUT"), mm)
        /\ Woken(b, Wake(b, mm, t, "TIMEOUT"), t, "TIMEOUT")
    BY <1>2, <2>2, WakeSound
  <2>4. Aged(kk, Wake(b, mm, t, "TIMEOUT"), "TIMEOUT")
    BY <1>1, <1>2, <2>2, <2>3, AgedWake
  <2> QED BY <2>1, <2>3, <2>4
<1>3. CASE ~(/\ b.timeouts # <<>> /\ TickReached(b.tick, b.wake[t])
             /\ b.state[t] \in {"BLOCKED", "DELAYED"})
  BY <1>3 DEF ExpireFirst, Wake
<1> QED BY <1>2, <1>3

LEMMA ExpireSound ==
    ASSUME NEW kk, NEW mm, Sound(kk, mm)
    PROVE  LET r == Expire(kk, mm) IN Sound(r, mm) /\ Aged(kk, r, "TIMEOUT")
<1> DEFINE N == Len(kk.timeouts)
           Met == {r \in KernelType : Sound(r, mm) /\ Aged(kk, r, "TIMEOUT")}
           change == [x \in (1 .. N) \X Met |-> ExpireFirst(x[2], mm)]
           Steps(f) == [i \in 0 .. N |-> IF i = 0 THEN kk ELSE ExpireFirst(f[i - 1], mm)]
           after == CHOOSE f : f = Steps(f)
<1>1. kk \in KernelType /\ kk.timeouts \in Seq(Tasks)
  BY DEF Sound, SoundBut, Shape, KernelType
<1>2. N \in Nat
  BY <1>1
<1>3. Expire(kk, mm) = after[N]
  BY DEF Expire
<1>4. kk \in Met
  BY <1>1, AgedSame
<1>5. ASSUME NEW r \in Met PROVE ExpireFirst(r, mm) \in Met
  <2> DEFINE q == ExpireFirst(r, mm)
  <2>1. Sound(q, mm) /\ Aged(kk, q, "TIMEOUT")
    BY <1>1, ExpireFirstSound
  <2> HIDE DEF q
  <2>2. q \in KernelType
    BY <2>1 DEF Sound, SoundBut, Shape
  <2> QED BY <2>1, <2>2 DEF q
<1> HIDE DEF Met, N
<1>6. change \in [(1 .. N) \X Met -> Met]
  BY <1>5
<1>7. \A i \in 1 .. N, r \in Met : change[<<i, r>>] = ExpireFirst(r, mm)
  OBVIOUS
<1> HIDE DEF change
<1>8. \E f \in [0 .. N -> Met] : Iterated(f, N, kk, change)
  BY <1>2, <1>4, <1>6, Iterates
<1>9. PICK f \in [0 .. N -> Met] : Iterated(f, N, kk, change)
  BY <1>8
<1>10. f = Steps(f)
  <2>1. \A i \in 0 .. N : i # 0 => i \in 1 .. N /\ i - 1 \in 0 .. N
    BY <1>2
  <2>2. \A i \in 0 .. N : f[i] = IF i = 0 THEN kk ELSE ExpireFirst(f[i - 1], mm)
    BY <1>7, <1>9, <2>1 DEF Iterated
  <2> QED BY <1>9, <2>2
<1>11. after = Steps(after)
  BY <1>10
<1> HIDE DEF after
<1>12. /\ N \in 0 .. N /\ 0 \in 0 .. N
       /\ \A i \in 1 .. N : i \in 0 .. N /\ i # 0
  BY <1>2
<1>13. after[0] = kk /\ \A i \in 1 .. N : after[i] = ExpireFirst(after[i - 1], mm)
  BY <1>11, <1>12
<1>14. after[0] \in Met /\ \A i \in 1 .. N : after[i - 1] \in Met => after[i] \in Met
  BY <1>4, <1>5, <1>13
<1>15. \A i \in 0 .. N : after[i] \in Met
  BY <1>2, <1>14, StaysIn
<1> QED BY <1>3, <1>12, <1>15 DEF Met

\* Between two critical sections: thread code runs, as the task cur unless a
\* switch is on its way.
Running(kk) ==
    /\ kk.cur \in Tasks /\ kk.isr = 0 /\ kk.lock = 0
    /\ ~kk.pendsv => kk.state[kk.cur] = "RUNNING"
    /\ kk.state[Idle] \in Runnable

\* The entry of an interrupt
LEMMA IsrEnterSound ==
    ASSUME NEW kk, NEW mm, Sound(kk, mm), Running(kk)
    PROVE  LET e == IsrEnter(kk)
           IN  Sound(e, mm) /\ e = [kk EXCEPT !.isr = 1]
<1> DEFINE e == IsrEnter(kk)
<1>1. kk \in KernelType /\ kk.isr = 0 /\ kk.isr < MaxIsr /\ Queues(kk, RunnableTasks(kk))
  BY KernelAssumption DEF Sound, SoundBut, Shape, Running
<1>2. e \in KernelType /\ e = [kk EXCEPT !.isr = kk.isr + 1]
  BY <1>1, IsrEnterType
<1> HIDE DEF e
<1>3. e = [kk EXCEPT !.isr = 1]
  BY <1>1, <1>2
<1>4. /\ e.state = kk.state /\ e.waitq = kk.waitq /\ e.waitOn = kk.waitOn /\ e.prio = kk.prio
      /\ e.ready = kk.ready /\ e.bitmap = kk.bitmap /\ e.isr = 1
  BY <1>1, <1>3 DEF KernelType
<1> DEFINE S == RunnableTasks(kk)
<1>5. Queues(kk, S)
  BY <1>1
<1> HIDE DEF S
<1>6. Queues(e, S)
  BY <1>4, <1>5 DEF Queues
<1>7. Sound(e, mm)
  BY <1>2, <1>4, <1>6, SoundSame DEF Sound, S
<1> QED BY <1>3, <1>7 DEF e

\* The exit of an interrupt whose handler has woken tasks
LEMMA IsrExitSound ==
    ASSUME NEW kk, Running(kk), NEW mm, NEW a, Sound(a, mm),
           a.isr = 1, a.cur = kk.cur, a.lock = kk.lock, kk.pendsv => a.pendsv,
           NEW result, SomeWoken(kk, a, result)
    PROVE  LET r == IsrExit(a)
           IN  Sound(r, mm) /\ Running(r) /\ SomeWoken(kk, r, result)
<1> DEFINE r == IsrExit(a)
<1>1. a \in KernelType /\ Queues(a, RunnableTasks(a))
  BY DEF Sound, SoundBut, Shape
<1>2. /\ SameWaits(a, r) /\ SameQueues(a, r) /\ r.cur = a.cur /\ r.lock = a.lock
      /\ r.isr = 0 /\ (a.pendsv => r.pendsv)
  BY <1>1, IsrExitEffect DEF SameFlags
<1>3. r \in KernelType
  BY <1>1, IsrExitType
<1> HIDE DEF r
<1>4. Queues(r, RunnableTasks(a))
  BY <1>1, <1>2 DEF Queues, SameWaits, SameQueues
<1>5. Sound(r, mm)
  BY <1>2, <1>3, <1>4, SoundSame DEF Sound, SameWaits
<1>6. SomeWoken(kk, r, result)
  BY <1>2 DEF SomeWoken, SameWaits
<1>7. ~r.pendsv => r.state[r.cur] = "RUNNING"
  BY <1>2, <1>6 DEF Running, SomeWoken
<1>8. r.state[Idle] \in Runnable
  BY <1>6, MutexAssumption DEF Running, SomeWoken, Runnable
<1>9. Running(r)
  BY <1>2, <1>7, <1>8 DEF Running
<1> QED BY <1>5, <1>6, <1>9 DEF r

\* An interrupt wakes the first waiter of an object.
LEMMA SignalSound ==
    ASSUME NEW kk, NEW mm, Sound(kk, mm), Running(kk), NEW w \in WaitLists, kk.waitq[w] # <<>>
    PROVE  LET r == IsrExit(Wake(IsrEnter(kk), mm, Head(kk.waitq[w]), "OK"))
           IN  /\ Sound(r, mm) /\ Running(r)
               /\ \A t \in Tasks : kk.waitOn[t] # w => r.waitOn[t] = kk.waitOn[t]
<1> DEFINE e == IsrEnter(kk)
           t == Head(kk.waitq[w])
           a == Wake(e, mm, t, "OK")
           r == IsrExit(a)
<1>1. Shape(kk, mm) /\ Waiting(kk) /\ kk \in KernelType /\ kk.waitq[w] \in Seq(Tasks)
  BY DEF Sound, SoundBut, Shape, KernelType
<1>2. t \in Tasks /\ Linked(kk.waitq[w], t)
  BY <1>1, FirstLinked
<1> HIDE DEF t
<1>3. kk.waitOn[t] = w /\ kk.state[t] = "BLOCKED"
  BY <1>1, <1>2, KernelAssumption DEF Shape, Waiting
<1>4. Sound(e, mm) /\ e = [kk EXCEPT !.isr = 1]
  BY IsrEnterSound
<1> HIDE DEF e
<1>5. /\ e.state = kk.state /\ e.waitOn = kk.waitOn /\ e.result = kk.result /\ e.cur = kk.cur
      /\ e.lock = kk.lock /\ e.isr = 1 /\ e.pendsv = kk.pendsv /\ e \in KernelType
  BY <1>1, <1>4 DEF KernelType, Sound, SoundBut, Shape
<1>6. "OK" \in Results /\ e.state[t] \in {"BLOCKED", "DELAYED"}
  BY <1>3, <1>5 DEF Results
<1>7. Sound(a, mm) /\ Woken(e, a, t, "OK")
  BY <1>2, <1>4, <1>6, WakeSound
<1> HIDE DEF a
<1>8. Aged(e, a, "OK")
  BY <1>2, <1>5, <1>6, <1>7, AgedSame, AgedWake
<1>9. SomeWoken(kk, a, "OK") /\ a.cur = kk.cur /\ a.lock = kk.lock /\ (kk.pendsv => a.pendsv)
  BY <1>5, <1>8 DEF Aged, SomeWoken
<1>10. a.isr = 1
  BY <1>5, <1>8 DEF Aged
<1>11. Sound(r, mm) /\ Running(r)
  BY <1>7, <1>9, <1>10, IsrExitSound
<1>12. r.waitOn = a.waitOn
  <2>1. a \in KernelType
    BY <1>7 DEF Sound, SoundBut, Shape
  <2> QED BY <2>1, IsrExitEffect DEF SameWaits
<1>13. \A u \in Tasks : u # t => r.waitOn[u] = kk.waitOn[u]
  BY <1>1, <1>5, <1>7, <1>12 DEF Woken, KernelType
<1> QED BY <1>3, <1>11, <1>13 DEF r, a, e, t

\* A change of the clock or of a time slice
LEMMA CountersSound ==
    ASSUME NEW kk, NEW mm, Sound(kk, mm), NEW r \in KernelType,
           r.state = kk.state, r.waitq = kk.waitq, r.waitOn = kk.waitOn, r.prio = kk.prio,
           r.ready = kk.ready, r.bitmap = kk.bitmap
    PROVE  Sound(r, mm)
<1> DEFINE S == RunnableTasks(kk)
<1>1. Queues(kk, S)
  BY DEF Sound, SoundBut
<1> HIDE DEF S
<1>2. Queues(r, S)
  BY <1>1 DEF Queues
<1> QED BY <1>2, SoundSame DEF Sound, S

\* aixos_task_tick in its interrupt
LEMMA TickSound ==
    ASSUME NEW kk, NEW mm, Sound(kk, mm), Running(kk)
    PROVE  LET now == [IsrEnter(kk) EXCEPT !.tick = TickAfter(@, 1),
                                           !.slice[kk.cur] = IF @ > 0 THEN @ - 1 ELSE 0]
               expired == Expire(now, mm)
               renewed == [expired EXCEPT !.slice[kk.cur] = SliceTicks]
               r == IsrExit(IF expired.slice[kk.cur] = 0
                            THEN RescheduleRequest(RotateCurrent(renewed)) ELSE expired)
           IN  Sound(r, mm) /\ Running(r) /\ SomeWoken(kk, r, "TIMEOUT")
<1> DEFINE e == IsrEnter(kk)
           now == [e EXCEPT !.tick = TickAfter(@, 1),
                            !.slice[kk.cur] = IF @ > 0 THEN @ - 1 ELSE 0]
           x == Expire(now, mm)
           renewed == [x EXCEPT !.slice[kk.cur] = SliceTicks]
           rotated == RotateCurrent(renewed)
           a == IF x.slice[kk.cur] = 0 THEN RescheduleRequest(rotated) ELSE x
           r == IsrExit(a)
<1>1. kk \in KernelType /\ kk.cur \in Tasks /\ SliceTicks \in 0 .. SliceTicks /\ SliceTicks \in Nat
  BY KernelAssumption DEF Sound, SoundBut, Shape, Running
<1>2. Sound(e, mm) /\ e = [kk EXCEPT !.isr = 1]
  BY IsrEnterSound
<1> HIDE DEF e
<1>3. /\ e.state = kk.state /\ e.waitOn = kk.waitOn /\ e.result = kk.result /\ e.cur = kk.cur
      /\ e.lock = kk.lock /\ e.isr = 1 /\ e.pendsv = kk.pendsv /\ e \in KernelType
      /\ e.slice \in [Tasks -> 0 .. SliceTicks] /\ e.tick \in Ticks
  BY <1>1, <1>2 DEF KernelType, Sound, SoundBut, Shape
<1> DEFINE slices == [e.slice EXCEPT ![kk.cur] = IF @ > 0 THEN @ - 1 ELSE 0]
           later == TickAfter(e.tick, 1)
<1>4. slices \in [Tasks -> 0 .. SliceTicks] /\ later \in Ticks
  BY <1>1, <1>3, TickAfterType
<1>5. now = [e EXCEPT !.tick = later, !.slice = slices]
  OBVIOUS
<1> HIDE DEF slices, later, now
<1>6. /\ now \in KernelType
      /\ now.state = e.state /\ now.waitq = e.waitq /\ now.waitOn = e.waitOn /\ now.prio = e.prio
      /\ now.ready = e.ready /\ now.bitmap = e.bitmap /\ now.result = e.result
      /\ now.cur = e.cur /\ now.lock = e.lock /\ now.isr = e.isr /\ now.pendsv = e.pendsv
  BY <1>3, <1>4, <1>5 DEF KernelType
<1>7. Sound(now, mm)
  BY <1>2, <1>6, CountersSound
<1>8. Sound(x, mm) /\ Aged(now, x, "TIMEOUT")
  BY <1>7, ExpireSound
<1> HIDE DEF x
<1>9. /\ SomeWoken(kk, x, "TIMEOUT") /\ x.cur = kk.cur /\ x.lock = kk.lock /\ x.isr = 1
      /\ kk.pendsv => x.pendsv
  BY <1>3, <1>6, <1>8 DEF Aged, SomeWoken
<1>10. x \in KernelType /\ x.slice \in [Tasks -> 0 .. SliceTicks]
  BY <1>8 DEF Sound, SoundBut, Shape, KernelType
<1> DEFINE again == [x.slice EXCEPT ![kk.cur] = SliceTicks]
<1>11. again \in [Tasks -> 0 .. SliceTicks]
  BY <1>1, <1>10
<1>12. renewed = [x EXCEPT !.slice = again]
  OBVIOUS
<1> HIDE DEF again, renewed
<1>13. /\ renewed \in KernelType
       /\ renewed.state = x.state /\ renewed.waitq = x.waitq /\ renewed.waitOn = x.waitOn
       /\ renewed.prio = x.prio /\ renewed.ready = x.ready /\ renewed.bitmap = x.bitmap
       /\ renewed.result = x.result /\ renewed.cur = x.cur /\ renewed.lock = x.lock
       /\ renewed.isr = x.isr /\ renewed.pendsv = x.pendsv
  BY <1>10, <1>11, <1>12 DEF KernelType
<1>14. Sound(renewed, mm)
  BY <1>8, <1>13, CountersSound
<1>15. Queues(renewed, RunnableTasks(renewed))
  BY <1>14 DEF Sound, SoundBut
<1>16. /\ rotated \in KernelType /\ Queues(rotated, RunnableTasks(renewed))
       /\ QueuesChanged(renewed, rotated)
  BY <1>13, <1>15, RotateCurrentQueues
<1> HIDE DEF rotated
<1>17. SameWaits(renewed, rotated) /\ SameRun(renewed, rotated) /\ SameFlags(renewed, rotated)
  BY <1>13, <1>16, QueuesChangedSame
<1>18. Sound(rotated, mm)
  BY <1>14, <1>16, <1>17, SoundSame DEF Sound, SameWaits
<1>19. Sound(a, mm)
  BY <1>8, <1>18, RequestsSound
<1>20. /\ SameWaits(rotated, RescheduleRequest(rotated))
       /\ SameRun(rotated, RescheduleRequest(rotated))
       /\ rotated.pendsv => RescheduleRequest(rotated).pendsv
  BY <1>16, RescheduleEffect DEF Asked
<1>21. /\ a.state = x.state /\ a.waitOn = x.waitOn /\ a.result = x.result
       /\ a.cur = x.cur /\ a.isr = x.isr /\ a.lock = x.lock /\ (x.pendsv => a.pendsv)
  BY <1>13, <1>17, <1>20 DEF SameWaits, SameRun, SameFlags
<1> HIDE DEF a
<1>22. SomeWoken(kk, a, "TIMEOUT")
  BY <1>9, <1>21 DEF SomeWoken
<1>23. a.isr = 1 /\ a.cur = kk.cur /\ a.lock = kk.lock /\ (kk.pendsv => a.pendsv)
  BY <1>9, <1>21
<1>24. Sound(r, mm) /\ Running(r) /\ SomeWoken(kk, r, "TIMEOUT")
  BY <1>19, <1>22, <1>23, IsrExitSound
<1> QED BY <1>24 DEF r, a, rotated, renewed, x, now, e

\* What aixos_task_create leaves behind, before aixos_start queues the tasks.
Created ==
    [state    |-> [t \in Tasks |-> "READY"],
     prio     |-> BasePriority,
     slice    |-> [t \in Tasks |-> SliceTicks],
     wake     |-> [t \in Tasks |-> 0],
     waitOn   |-> [t \in Tasks |-> NoList],
     result   |-> [t \in Tasks |-> "OK"],
     ready    |-> [p \in Priorities |-> <<>>],
     bitmap   |-> {},
     waitq    |-> [w \in WaitLists |-> <<>>],
     timeouts |-> <<>>,
     cur      |-> NoTask,
     isr      |-> 0,
     lock     |-> 0,
     pending  |-> FALSE,
     pendsv   |-> FALSE,
     tick     |-> 0]

NoMutexYet ==
    [base  |-> BasePriority,
     live  |-> {},
     owner |-> [m \in Mutexes |-> NoTask],
     count |-> [m \in Mutexes |-> 0],
     held  |-> [t \in Tasks |-> <<>>]]

\* The first i tasks
FirstTasks(i) == {t \in Tasks : \E j \in 1 .. i : TaskOrder[j] = t}

\* ... have been queued.
SoFar(i, r) ==
    /\ r \in KernelType
    /\ QueuesChanged(Created, r)
    /\ Queues(r, FirstTasks(i))

LEMMA CreatedType == Created \in KernelType /\ NoMutexYet \in MutexType
<1>1. 0 \in Ticks
  BY ClockAssumption DEF Ticks
<1>2. <<>> \in Seq(Tasks) /\ <<>> \in Seq(Mutexes)
  BY EmptySeq
<1>3. /\ 0 \in 0 .. MaxIsr /\ 0 \in 0 .. MaxLock /\ SliceTicks \in 0 .. SliceTicks
      /\ 0 \in 0 .. MaxCount
  BY KernelAssumption, MutexAssumption
<1>4. Created \in KernelType
  BY <1>1, <1>2, <1>3, MutexAssumption DEF Created, KernelType, TaskStates, Results
<1>5. NoMutexYet \in MutexType
  BY <1>2, <1>3, MutexAssumption DEF NoMutexYet, MutexType
<1> QED BY <1>4, <1>5

LEMMA SchedAddType ==
    ASSUME NEW kk \in KernelType, NEW t \in Tasks
    PROVE  SchedAdd(kk, t) \in KernelType
<1> DEFINE p == kk.prio[t]
           queue == Append(kk.ready[p], t)
           queues == [kk.ready EXCEPT ![p] = queue]
           bits == kk.bitmap \union {p}
           r == SchedAdd(kk, t)
<1>1. p \in Priorities /\ kk.ready \in [Priorities -> Seq(Tasks)] /\ kk.bitmap \in SUBSET Priorities
  BY DEF KernelType
<1>2. queue \in Seq(Tasks)
  BY <1>1
<1>3. r = [kk EXCEPT !.ready = queues, !.bitmap = bits]
  BY DEF SchedAdd
<1>4. queues \in [Priorities -> Seq(Tasks)] /\ bits \in SUBSET Priorities
  <2> HIDE DEF queue, p
  <2>1. queues \in [Priorities -> Seq(Tasks)]
    BY <1>1, <1>2
  <2> QED BY <1>1, <2>1
<1> HIDE DEF queues, bits, r
<1>5. r \in KernelType
  BY <1>3, <1>4 DEF KernelType
<1> QED BY <1>5 DEF r

LEMMA CreatedSoFar == SoFar(0, Created)
<1>1. Created \in KernelType
  BY CreatedType
<1>2. QueuesChanged(Created, Created)
  BY <1>1 DEF QueuesChanged, KernelType
<1>3. FirstTasks(0) = {}
  BY DEF FirstTasks
<1>4. Queues(Created, {})
  <2>1. /\ \A p \in Priorities : Created.ready[p] = <<>>
        /\ Created.bitmap = {}
    BY DEF Created
  <2>2. NoRepeat(<<>>) /\ \A t : ~Linked(<<>>, t)
    BY DEF NoRepeat, Linked
  <2> QED BY <2>1, <2>2 DEF Queues
<1> QED BY <1>1, <1>2, <1>3, <1>4 DEF SoFar

LEMMA QueueNext ==
    ASSUME NEW i \in 1 .. Len(TaskOrder), NEW r, SoFar(i - 1, r)
    PROVE  SoFar(i, SchedAdd(r, TaskOrder[i]))
<1> DEFINE t == TaskOrder[i]
           q == SchedAdd(r, t)
           S == FirstTasks(i - 1)
<1>1. /\ TaskOrder \in Seq(Tasks) /\ NoRepeat(TaskOrder) /\ Len(TaskOrder) \in Nat
      /\ t \in Tasks /\ DOMAIN TaskOrder = 1 .. Len(TaskOrder) /\ i \in Int
  BY MutexAssumption
<1>2. \A j \in 1 .. i - 1 : j \in DOMAIN TaskOrder /\ j # i /\ i \in DOMAIN TaskOrder
  BY <1>1
<1>3. t \notin S
  <2>1. \A j \in 1 .. i - 1 : TaskOrder[j] # TaskOrder[i]
    BY <1>1, <1>2 DEF NoRepeat
  <2> QED BY <2>1 DEF FirstTasks
<1>4. FirstTasks(i) = S \union {t}
  <2>1. \A j : j \in 1 .. i <=> j \in 1 .. i - 1 \/ j = i
    BY <1>1
  <2> QED BY <1>1, <2>1 DEF FirstTasks
<1>5. r \in KernelType /\ QueuesChanged(Created, r) /\ Queues(r, S)
  BY DEF SoFar
<1> HIDE DEF S, t
<1>6. q \in KernelType /\ Queues(q, S \union {t}) /\ QueuesChanged(r, q)
  BY <1>1, <1>3, <1>5, SchedAddQueues
<1> HIDE DEF q
<1>7. QueuesChanged(Created, q)
  BY <1>5, <1>6, CreatedType DEF QueuesChanged, KernelType
<1> QED BY <1>4, <1>6, <1>7 DEF SoFar, q, t

LEMMA AllTasks == FirstTasks(Len(TaskOrder)) = Tasks
<1>1. /\ DOMAIN TaskOrder = 1 .. Len(TaskOrder)
      /\ \A t \in Tasks : Linked(TaskOrder, t)
  BY MutexAssumption
<1>2. \A t \in Tasks : \E j \in 1 .. Len(TaskOrder) : TaskOrder[j] = t
  BY <1>1 DEF Linked
<1> QED BY <1>2 DEF FirstTasks

\* All tasks are queued, no mutex exists.
LEMMA QueuedSound ==
    ASSUME NEW r, SoFar(Len(TaskOrder), r)
    PROVE  /\ Sound(r, NoMutexYet) /\ r.state[Idle] \in Runnable
           /\ r.isr = 0 /\ r.lock = 0
<1> DEFINE mm == NoMutexYet
<1>1. r \in KernelType /\ Queues(r, Tasks) /\ QueuesChanged(Created, r)
  BY AllTasks DEF SoFar
<1>2. /\ r.state = Created.state /\ r.prio = Created.prio /\ r.waitOn = Created.waitOn
      /\ r.waitq = Created.waitq /\ r.isr = 0 /\ r.lock = 0
  BY <1>1 DEF QueuesChanged, Created
<1>3. /\ \A t \in Tasks : r.state[t] = "READY" /\ r.waitOn[t] = NoList
      /\ r.prio = BasePriority /\ \A w \in WaitLists : r.waitq[w] = <<>>
  BY <1>2 DEF Created
<1>4. /\ mm \in MutexType /\ mm.base = BasePriority
      /\ \A m \in Mutexes : mm.owner[m] = NoTask /\ mm.count[m] = 0
      /\ \A t \in Tasks : mm.held[t] = <<>>
  BY CreatedType DEF NoMutexYet
<1> HIDE DEF mm
<1>5. NoRepeat(<<>>) /\ (\A t : ~Linked(<<>>, t)) /\ \A f : Ascending(<<>>, f)
  BY DEF NoRepeat, Linked, Ascending
<1>6. Mutexes \subseteq WaitLists /\ NoTask \notin Tasks /\ Idle \in Tasks
      /\ BasePriority \in [Tasks -> Priorities]
  BY MutexAssumption, KernelAssumption
<1>7. Shape(r, mm)
  BY <1>1, <1>3, <1>4, <1>5, <1>6 DEF Shape
<1>8. Settled(r, mm, NoTask, NoTask)
  <2>1. \A t \in Tasks : Waiters(r, mm)[t] = {}
    BY <1>4, <1>5 DEF Waiters
  <2>2. \A t \in Tasks : BasePriority[t] \in Int
    BY <1>6 DEF Priorities
  <2>3. \A t \in Tasks : IsTop(Waiters(r, mm), mm.base, r.prio, t, r.prio[t])
    BY <1>3, <1>4, <2>1, <2>2 DEF IsTop
  <2> QED BY <2>3 DEF Settled, SettledBut
<1>9. RunnableTasks(r) = Tasks
  BY <1>3 DEF RunnableTasks, Runnable
<1>10. Waiting(r)
  BY <1>3 DEF Waiting
<1>11. Ownership(r, mm)
  BY <1>3, <1>4, <1>5, <1>6 DEF Ownership
<1> QED BY <1>1, <1>2, <1>3, <1>6, <1>7, <1>8, <1>9, <1>10, <1>11
        DEF Sound, SoundBut, Runnable, mm

LEMMA InitSound ==
    ASSUME Init
    PROVE  Sound(k, mx) /\ Running(k)
<1> DEFINE N == Len(TaskOrder)
           Steps(f) == [i \in 0 .. N |-> IF i = 0 THEN Created ELSE SchedAdd(f[i - 1], TaskOrder[i])]
           queued == CHOOSE f : f = Steps(f)
           change == [x \in (1 .. N) \X KernelType |-> SchedAdd(x[2], TaskOrder[x[1]])]
<1>1. k = Schedule(queued[N]) /\ mx = NoMutexYet
  BY DEF Init, Created, NoMutexYet
<1>2. N \in Nat /\ \A i \in 1 .. N : TaskOrder[i] \in Tasks
  BY MutexAssumption
<1>3. \A i \in 1 .. N : \A r : SoFar(i - 1, r) => SoFar(i, SchedAdd(r, TaskOrder[i]))
  BY QueueNext
<1>4. \A r : SoFar(N, r) => /\ Sound(r, NoMutexYet) /\ r.state[Idle] \in Runnable
                            /\ r.isr = 0 /\ r.lock = 0
  BY QueuedSound
<1> HIDE DEF N
<1>5. Created \in KernelType
  BY CreatedType
<1>6. change \in [(1 .. N) \X KernelType -> KernelType]
  BY <1>2, SchedAddType
<1>7. \A i \in 1 .. N, r \in KernelType : change[<<i, r>>] = SchedAdd(r, TaskOrder[i])
  OBVIOUS
<1> HIDE DEF change
<1>8. \E f \in [0 .. N -> KernelType] : Iterated(f, N, Created, change)
  BY <1>2, <1>5, <1>6, Iterates
<1>9. PICK f \in [0 .. N -> KernelType] : Iterated(f, N, Created, change)
  BY <1>8
<1>10. f = Steps(f)
  <2>1. \A i \in 0 .. N : i # 0 => i \in 1 .. N /\ i - 1 \in 0 .. N
    BY <1>2
  <2>2. \A i \in 0 .. N : f[i] = IF i = 0 THEN Created ELSE SchedAdd(f[i - 1], TaskOrder[i])
    BY <1>7, <1>9, <2>1 DEF Iterated
  <2> QED BY <1>9, <2>2
<1>11. queued = Steps(queued)
  BY <1>10
<1> HIDE DEF queued
<1>12. /\ N \in 0 .. N /\ 0 \in 0 .. N
       /\ \A i \in 1 .. N : i \in 0 .. N /\ i # 0
  BY <1>2
<1>13. queued[0] = Created /\ \A i \in 1 .. N : queued[i] = SchedAdd(queued[i - 1], TaskOrder[i])
  BY <1>11, <1>12
<1> DEFINE D == {x \in (0 .. N) \X KernelType : SoFar(x[1], x[2])}
           pair == [i \in 0 .. N |-> <<i, queued[i]>>]
<1>14. \A i \in 0 .. N : \A r : <<i, r>> \in D <=> SoFar(i, r)
  BY DEF SoFar
<1>15. \A i \in 1 .. N : i - 1 \in 0 .. N
  BY <1>2
<1>16. \A i \in 0 .. N : pair[i] = <<i, queued[i]>>
  OBVIOUS
<1> HIDE DEF D, pair
<1>17. pair[0] \in D
  BY <1>12, <1>13, <1>14, <1>16, CreatedSoFar
<1>18. ASSUME NEW i \in 1 .. N, pair[i - 1] \in D PROVE pair[i] \in D
  <2>1. SoFar(i - 1, queued[i - 1])
    BY <1>14, <1>15, <1>16, <1>18
  <2>2. SoFar(i, queued[i])
    BY <1>3, <1>13, <2>1
  <2> QED BY <1>12, <1>14, <1>16, <2>2
<1>19. \A i \in 0 .. N : pair[i] \in D
  BY <1>2, <1>17, <1>18, StaysIn
<1>20. SoFar(N, queued[N])
  BY <1>12, <1>14, <1>16, <1>19
<1> DEFINE r == queued[N]
<1>21. Sound(r, NoMutexYet) /\ r.state[Idle] \in Runnable /\ r.isr = 0 /\ r.lock = 0
  BY <1>4, <1>20
<1>22. k = Schedule(r)
  BY <1>1
<1> HIDE DEF r
<1>23. Sound(k, NoMutexYet) /\ k.cur \in Tasks /\ k.state[k.cur] = "RUNNING"
       /\ k.state[Idle] \in Runnable /\ k.isr = 0 /\ k.lock = 0
  BY <1>21, <1>22, ScheduleSound
<1> QED BY <1>1, <1>23 DEF Running

-----------------------------------------------------------------------------
(* The steps.                                                              *)

\* A task that has waited got the mutex exactly if the wait returns OK.
Kept(kk, mm, r, mr) ==
    \A m \in Mutexes, t \in Tasks :
        kk.waitOn[t] = m /\ r.waitOn[t] # m /\ r.state[t] # "STOP" =>
            (r.result[t] = "OK" <=> mr.owner[m] = t)

\* The invariant of the model
MInv == Sound(k, mx) /\ Running(k)

LEMMA CallingRuns ==
    ASSUME MInv, Calling
    PROVE  /\ k.cur \in UserTasks /\ k.cur # NoTask /\ k.state[k.cur] = "RUNNING"
           /\ k.waitOn[k.cur] = NoList
<1>1. k.cur \in UserTasks /\ k.state[k.cur] = "RUNNING"
  BY DEF MInv, Running, Calling, UserTasks
<1>2. k.waitOn[k.cur] = NoList
  BY <1>1 DEF MInv, Sound, SoundBut, Waiting, UserTasks
<1> QED BY <1>1, <1>2, KernelAssumption DEF UserTasks

LEMMA InvTypes ==
    ASSUME MInv
    PROVE  /\ k \in KernelType /\ mx \in MutexType /\ Shape(k, mx) /\ Ownership(k, mx)
           /\ Waiting(k) /\ Mutexes \subseteq WaitLists
           /\ k.waitOn \in [Tasks -> WaitLists \union {NoList}]
           /\ k.state \in [Tasks -> TaskStates] /\ k.result \in [Tasks -> Results]
           /\ k.waitq \in [WaitLists -> Seq(Tasks)]
           /\ mx.owner \in [Mutexes -> Tasks \union {NoTask}]
           /\ mx.count \in [Mutexes -> 0 .. MaxCount]
BY MutexAssumption DEF MInv, Sound, SoundBut, Shape, KernelType, MutexType

LEMMA RunningSame ==
    ASSUME NEW kk, Running(kk), NEW r, r.state = kk.state, r.cur = kk.cur,
           r.isr = kk.isr, r.lock = kk.lock, kk.pendsv => r.pendsv
    PROVE  Running(r)
BY DEF Running

LEMMA KeptSame ==
    ASSUME NEW kk, NEW mm, NEW r, NEW mr, r.waitOn = kk.waitOn
    PROVE  Kept(kk, mm, r, mr)
BY DEF Kept

\* A task that waits for a mutex does not own it.
LEMMA WaiterOwnsNot ==
    ASSUME NEW kk, NEW mm, Sound(kk, mm), NEW m \in Mutexes, NEW t \in Tasks, kk.waitOn[t] = m
    PROVE  mm.owner[m] # t
BY KernelAssumption, MutexAssumption DEF Sound, SoundBut, Waiting, Shape

\* recompute_chain at the end of a step
LEMMA ChainStep ==
    ASSUME NEW kk, NEW mm, Running(kk), NEW t \in Tasks \union {NoTask}, SoundBut(kk, mm, NoTask, t)
    PROVE  LET r == RecomputeChain(kk, mm, t)
           IN  /\ Sound(r, mm) /\ Running(r)
               /\ r.waitOn = kk.waitOn /\ r.state = kk.state /\ r.result = kk.result
<1> DEFINE r == RecomputeChain(kk, mm, t)
<1>1. Sound(r, mm) /\ Reordered(kk, r)
  BY ChainSound
<1> HIDE DEF r
<1>2. Running(r)
  BY <1>1, RunningSame DEF Reordered
<1> QED BY <1>1, <1>2 DEF Reordered, r

LEMMA CreateStep ==
    ASSUME MInv, NEW m \in Mutexes, MutexCreate(m)
    PROVE  MInv' /\ Kept(k, mx, k', mx')
<1>1. k' = k /\ mx' = [mx EXCEPT !.live = @ \union {m}, !.owner[m] = NoTask, !.count[m] = 0]
  BY DEF MutexCreate
<1>2. mx.owner[m] = NoTask /\ ~(mx.count[m] > 0) /\ mx.count[m] = 0
  <2>1. mx.owner[m] = NoTask /\ ~(mx.count[m] > 0)
    BY InvTypes DEF MutexCreate, Ownership
  <2> QED BY <2>1, InvTypes, MutexAssumption
<1>3. /\ [mx.owner EXCEPT ![m] = NoTask] = mx.owner
      /\ [mx.count EXCEPT ![m] = 0] = mx.count
  BY <1>2, InvTypes
<1>4. mx' = [mx EXCEPT !.live = mx.live \union {m}]
  BY <1>1, <1>3, InvTypes DEF MutexType
<1>5. /\ mx' \in MutexType /\ mx'.base = mx.base /\ mx'.owner = mx.owner /\ mx'.held = mx.held
      /\ mx'.count = mx.count /\ mx.live \subseteq mx'.live
  BY <1>4, InvTypes DEF MutexType
<1>6. Sound(k, mx')
  BY <1>5, SameOwnerSound DEF MInv
<1> QED BY <1>1, <1>6, KeptSame DEF MInv

LEMMA LockFreeStep ==
    ASSUME MInv, NEW m \in Mutexes, LockFree(m)
    PROVE  MInv' /\ Kept(k, mx, k', mx')
<1>1. Calling /\ m \in mx.live /\ mx.owner[m] = NoTask /\ mx' = Take(mx, m, k.cur) /\ k' = k
  BY DEF LockFree
<1>2. k.cur \in Tasks /\ k.state[k.cur] # "STOP"
  BY <1>1, CallingRuns DEF UserTasks
<1>3. Sound(k, Take(mx, m, k.cur))
  BY <1>1, <1>2, TakeSound DEF MInv
<1> QED BY <1>1, <1>3, KeptSame DEF MInv

LEMMA LockAgainStep ==
    ASSUME MInv, NEW m \in Mutexes, LockAgain(m)
    PROVE  MInv' /\ Kept(k, mx, k', mx')
<1>1. /\ Calling /\ mx.owner[m] = k.cur /\ mx.count[m] < MaxCount /\ k' = k
      /\ mx' = [mx EXCEPT !.count[m] = @ + 1]
  BY DEF LockAgain
<1>2. mx.count[m] > 0
  BY <1>1, CallingRuns, InvTypes DEF Ownership
<1> DEFINE counts == [mx.count EXCEPT ![m] = @ + 1]
<1>3. /\ counts \in [Mutexes -> 0 .. MaxCount]
      /\ \A n \in Mutexes : mx.count[n] > 0 <=> counts[n] > 0
  BY <1>1, <1>2, InvTypes, MutexAssumption
<1>4. mx' = [mx EXCEPT !.count = counts]
  BY <1>1
<1> HIDE DEF counts
<1>5. /\ mx' \in MutexType /\ mx'.base = mx.base /\ mx'.owner = mx.owner /\ mx'.held = mx.held
      /\ mx'.count = counts /\ mx.live \subseteq mx'.live
  BY <1>3, <1>4, InvTypes DEF MutexType
<1>6. Sound(k, mx')
  BY <1>3, <1>5, SameOwnerSound DEF MInv
<1> QED BY <1>1, <1>6, KeptSame DEF MInv

\* The current task, which is not the idle task, waits.
LEMMA BlockStep ==
    ASSUME MInv, Calling, NEW list \in WaitLists, NEW timeout \in Nat,
           list \in Mutexes => mx.owner[list] \in Tasks \ {k.cur},
           k' = Block(k, mx, list, timeout), mx' = mx
    PROVE  MInv' /\ Kept(k, mx, k', mx')
<1>1. k.cur \in Tasks /\ k.cur # Idle /\ k.state[k.cur] \in Runnable /\ k.waitOn[k.cur] = NoList
  BY CallingRuns DEF UserTasks, Runnable
<1> DEFINE r == Block(k, mx, list, timeout)
<1>2. Sound(r, mx) /\ Blocked(k, r, list) /\ r.pendsv
  BY <1>1, BlockSound DEF MInv, Running
<1> HIDE DEF r
<1>3. Running(r)
  BY <1>1, <1>2, InvTypes, MutexAssumption DEF MInv, Running, Blocked
<1>4. Kept(k, mx, r, mx)
  BY <1>1, <1>2, InvTypes, KernelAssumption DEF Kept, Blocked
<1> QED BY <1>2, <1>3, <1>4 DEF MInv, r

LEMMA LockBusyStep ==
    ASSUME MInv, NEW m \in Mutexes, NEW d \in Delays \union {0}, LockBusy(m, d)
    PROVE  MInv' /\ Kept(k, mx, k', mx')
<1>1. d \in Nat
  BY MutexAssumption DEF MaxTimeout
<1>2. /\ Calling /\ mx.owner[m] \in Tasks \ {k.cur} /\ k' = Block(k, mx, m, d) /\ mx' = mx
      /\ m \in WaitLists
  BY InvTypes DEF LockBusy
<1> QED BY <1>1, <1>2, BlockStep

LEMMA ObjectWaitStep ==
    ASSUME MInv, NEW w \in Objects, ObjectWait(w)
    PROVE  MInv' /\ Kept(k, mx, k', mx')
<1>1. /\ Calling /\ w \in WaitLists /\ w \notin Mutexes /\ k' = Block(k, mx, w, 0) /\ mx' = mx
  BY DEF ObjectWait, Objects
<1> QED BY <1>1, BlockStep

LEMMA UnlockOnceStep ==
    ASSUME MInv, NEW m \in Mutexes, UnlockOnce(m)
    PROVE  MInv' /\ Kept(k, mx, k', mx')
<1>1. mx.count[m] > 1 /\ k' = k /\ mx' = [mx EXCEPT !.count[m] = @ - 1]
  BY DEF UnlockOnce
<1> DEFINE counts == [mx.count EXCEPT ![m] = @ - 1]
<1>2. /\ counts \in [Mutexes -> 0 .. MaxCount]
      /\ \A n \in Mutexes : mx.count[n] > 0 <=> counts[n] > 0
  BY <1>1, InvTypes, MutexAssumption
<1>3. mx' = [mx EXCEPT !.count = counts]
  BY <1>1
<1> HIDE DEF counts
<1>4. /\ mx' \in MutexType /\ mx'.base = mx.base /\ mx'.owner = mx.owner /\ mx'.held = mx.held
      /\ mx'.count = counts /\ mx.live \subseteq mx'.live
  BY <1>2, <1>3, InvTypes DEF MutexType
<1>5. Sound(k, mx')
  BY <1>2, <1>4, SameOwnerSound DEF MInv
<1> QED BY <1>1, <1>5, KeptSame DEF MInv

\* The last unlock of a mutex
LEMMA UnlockStep ==
    ASSUME MInv, NEW m \in Mutexes, MutexUnlock(m)
    PROVE  MInv' /\ Kept(k, mx, k', mx')
<1> DEFINE next == Head(k.waitq[m])
           free == [Release(mx, m) EXCEPT !.owner[m] = NoTask]
           handed == Take(Release(mx, m), m, next)
           w == Wake(k, handed, next, "OK")
<1>1. k.cur \in Tasks /\ mx.owner[m] = k.cur /\ k.state[k.cur] = "RUNNING"
  BY CallingRuns DEF MutexUnlock, UserTasks
<1>2. \/ UnlockOnce(m)
      \/ k.waitq[m] = <<>> /\ mx' = free /\ k' = RecomputeChain(k, free, k.cur)
      \/ k.waitq[m] # <<>> /\ mx' = handed /\ k' = RecomputeChain(w, handed, k.cur)
  BY DEF MutexUnlock
<1>3. CASE k.waitq[m] = <<>> /\ mx' = free /\ k' = RecomputeChain(k, free, k.cur)
  <2>1. Sound(k, free)
    BY <1>1, <1>3, FreeSound DEF MInv
  <2> HIDE DEF free
  <2>2. SoundBut(k, free, NoTask, k.cur)
    BY <2>1, SoundIsSoundBut
  <2>3. Sound(k', mx') /\ Running(k') /\ k'.waitOn = k.waitOn
    BY <1>1, <1>3, <2>2, ChainStep DEF MInv
  <2> QED BY <2>3, KeptSame DEF MInv
<1>4. CASE k.waitq[m] # <<>> /\ mx' = handed /\ k' = RecomputeChain(w, handed, k.cur)
  <2>1. next \in Tasks /\ Linked(k.waitq[m], next)
    BY <1>4, InvTypes, FirstLinked
  <2> HIDE DEF next
  <2>2. /\ Woken(k, w, next, "OK") /\ SoundBut(w, handed, NoTask, k.cur)
        /\ k.waitOn[next] = m /\ handed.owner = [mx.owner EXCEPT ![m] = next]
    <3>1. \A h : h = Take(Release(mx, m), m, next) =>
             /\ Woken(k, Wake(k, h, next, "OK"), next, "OK")
             /\ SoundBut(Wake(k, h, next, "OK"), h, NoTask, k.cur)
             /\ k.waitOn[next] = m /\ h.owner = [mx.owner EXCEPT ![m] = next]
      BY <1>1, <2>1, HandOverSound DEF MInv
    <3> QED BY <3>1
  <2>3. k.state[next] = "BLOCKED"
    BY <2>1, <2>2, InvTypes, KernelAssumption DEF Waiting
  <2> HIDE DEF handed, w
  <2> DEFINE r == RecomputeChain(w, handed, k.cur)
  <2>4. Running(w)
    <3>1. /\ w.state[k.cur] = k.state[k.cur]
          /\ w.state[Idle] \in Runnable
      BY <1>1, <2>1, <2>2, <2>3, InvTypes, MutexAssumption DEF MInv, Running, Woken, Runnable
    <3> QED BY <2>2, <3>1 DEF MInv, Running, Woken
  <2>5. /\ Sound(r, handed) /\ Running(r)
        /\ r.waitOn = w.waitOn /\ r.state = w.state /\ r.result = w.result
    BY <1>1, <2>2, <2>4, ChainStep
  <2> HIDE DEF r
  <2>6. /\ r.result[next] = "OK" /\ handed.owner[m] = next
        /\ \A t \in Tasks \ {next} : r.waitOn[t] = k.waitOn[t]
    BY <2>1, <2>2, <2>5, InvTypes DEF Woken
  <2>7. Kept(k, mx, r, handed)
    BY <2>2, <2>6 DEF Kept
  <2> QED BY <1>4, <2>5, <2>7 DEF MInv, r
<1> QED BY <1>2, <1>3, <1>4, UnlockOnceStep

LEMMA DeleteStep ==
    ASSUME MInv, NEW m \in Mutexes, MutexDelete(m)
    PROVE  MInv' /\ Kept(k, mx, k', mx')
<1> DEFINE a == IF mx.owner[m] = NoTask THEN mx ELSE Release(mx, m)
           c == RecomputeChain(k, a, mx.owner[m])
           r == [a EXCEPT !.live = @ \ {m}, !.owner[m] = NoTask, !.count[m] = 0]
<1>1. k.waitq[m] = <<>> /\ k' = c /\ mx' = r
  BY DEF MutexDelete
<1>2. Sound(c, r) /\ Reordered(k, c)
  BY <1>1, DeleteSound DEF MInv
<1> HIDE DEF c, r
<1>3. Running(c) /\ c.waitOn = k.waitOn
  BY <1>2, RunningSame DEF MInv, Reordered
<1> QED BY <1>1, <1>2, <1>3, KeptSame DEF MInv

LEMMA SignalStep ==
    ASSUME MInv, NEW w \in Objects, InterruptSignal(w)
    PROVE  MInv' /\ Kept(k, mx, k', mx')
<1> DEFINE r == IsrExit(Wake(IsrEnter(k), mx, Head(k.waitq[w]), "OK"))
<1>1. w \in WaitLists /\ w \notin Mutexes /\ k.waitq[w] # <<>> /\ k' = r /\ mx' = mx
  BY DEF InterruptSignal, Objects
<1>2. /\ Sound(r, mx) /\ Running(r)
      /\ \A t \in Tasks : k.waitOn[t] # w => r.waitOn[t] = k.waitOn[t]
  BY <1>1, SignalSound DEF MInv
<1> HIDE DEF r
<1>3. Kept(k, mx, r, mx)
  BY <1>1, <1>2 DEF Kept
<1> QED BY <1>1, <1>2, <1>3 DEF MInv

LEMMA SetPriorityStep ==
    ASSUME MInv, NEW t \in UserTasks, NEW p \in NewPriorities, SetPriority(t, p)
    PROVE  MInv' /\ Kept(k, mx, k', mx')
<1> DEFINE b == Rebased(mx, t, p)
           moved == WaiterPriorityChanged(
                       SchedRequeue([k EXCEPT !.prio[t] = p], t, k.prio[t]), t)
           owners == IF k.waitOn[t] \in Mutexes
                     THEN RecomputeChain(moved, b, mx.owner[k.waitOn[t]]) ELSE moved
           r == RecomputeChain(owners, b, t)
           q == RequestPreemption(r)
<1>1. k' = q /\ mx' = b
  BY DEF SetPriority, Rebased
<1>2. t \in Tasks /\ p \in Priorities
  BY MutexAssumption DEF UserTasks
<1>3. Sound(r, b) /\ Reordered(k, r)
  BY <1>2, SetPrioritySound DEF MInv
<1> HIDE DEF r, b
<1>4. Sound(q, b)
  BY <1>3, RequestsSound
<1>5. r \in KernelType /\ Queues(r, RunnableTasks(r)) /\ RunnableTasks(r) \in SUBSET Tasks
  BY <1>3 DEF Sound, SoundBut, Shape, RunnableTasks
<1>6. SameWaits(r, q) /\ SameRun(r, q) /\ (r.pendsv => q.pendsv)
  BY <1>5, PreemptionSame
<1> HIDE DEF q
<1>7. Running(q) /\ q.waitOn = k.waitOn
  BY <1>3, <1>6, RunningSame DEF MInv, Reordered, SameWaits, SameRun
<1> QED BY <1>1, <1>4, <1>7, KeptSame DEF MInv

\* A task has been taken off all lists: the current one is switched away from.
LEMMA WithdrawnRuns ==
    ASSUME MInv, NEW t \in UserTasks, NEW s, NEW r, Withdrawn(k, r, t, s)
    PROVE  t # k.cur => Running(r)
BY InvTypes, MutexAssumption DEF MInv, Running, Withdrawn, UserTasks

LEMMA WithdrawnCurrent ==
    ASSUME MInv, NEW s, NEW r, Sound(r, mx), k.cur \in UserTasks, Withdrawn(k, r, k.cur, s)
    PROVE  LET q == RescheduleRequest(r)
           IN  Sound(q, mx) /\ Running(q) /\ SameWaits(r, q)
<1> DEFINE q == RescheduleRequest(r)
<1>1. Sound(q, mx)
  BY RequestsSound
<1>2. r \in KernelType
  BY DEF Sound, SoundBut, Shape
<1>3. SameWaits(r, q) /\ SameRun(r, q) /\ Asked(r, q)
  BY <1>2, RescheduleEffect
<1> HIDE DEF q
<1>4. q.pendsv /\ q.cur \in Tasks /\ q.isr = 0 /\ q.lock = 0
  BY <1>3 DEF MInv, Running, Withdrawn, SameRun, Asked, UserTasks
<1>5. q.state[Idle] \in Runnable
  BY <1>3, InvTypes, MutexAssumption DEF MInv, Running, Withdrawn, SameWaits, UserTasks
<1> QED BY <1>1, <1>3, <1>4, <1>5 DEF Running, q

LEMMA SuspendStep ==
    ASSUME MInv, NEW t \in UserTasks, TaskSuspend(t)
    PROVE  MInv' /\ Kept(k, mx, k', mx')
<1> DEFINE d == IF k.state[t] = "BLOCKED"
                THEN DetachWaiter(SchedRemove(k, t), mx, t, "INTR") ELSE SchedRemove(k, t)
           r == [d EXCEPT !.state[t] = "SUSPENDED"]
<1>1. mx' = mx /\ k' = IF t = k.cur THEN RescheduleRequest(r) ELSE r
  BY DEF TaskSuspend
<1>2. t \in Tasks /\ "SUSPENDED" \in TaskStates \ Runnable
  BY DEF UserTasks, TaskStates, Runnable
<1>3. \/ d = DetachWaiter(SchedRemove(k, t), mx, t, "INTR")
      \/ d = SchedRemove(k, t) /\ k.waitOn[t] = NoList
  BY <1>2, InvTypes DEF Waiting
<1> HIDE DEF d
<1>4. Sound(r, mx) /\ Withdrawn(k, r, t, "SUSPENDED")
  BY <1>2, <1>3, WithdrawSound DEF MInv
<1> HIDE DEF r
<1>5. Kept(k, mx, r, mx)
  <2>1. ASSUME NEW m \in Mutexes, k.waitOn[t] = m PROVE mx.owner[m] # t
    BY <1>2, <2>1, WaiterOwnsNot DEF MInv
  <2>2. \A u \in Tasks \ {t} : r.waitOn[u] = k.waitOn[u]
    BY <1>2, <1>4, InvTypes DEF Withdrawn
  <2>3. \A m \in Mutexes : k.waitOn[t] = m => r.result[t] = "INTR"
    BY <1>4, InvTypes, KernelAssumption DEF Withdrawn
  <2> QED BY <2>1, <2>2, <2>3 DEF Kept
<1>6. CASE t # k.cur
  BY <1>1, <1>4, <1>5, <1>6, WithdrawnRuns DEF MInv
<1>7. CASE t = k.cur
  <2> DEFINE q == RescheduleRequest(r)
  <2>1. Sound(q, mx) /\ Running(q) /\ SameWaits(r, q)
    BY <1>4, <1>7, WithdrawnCurrent
  <2> HIDE DEF q
  <2>2. Kept(k, mx, q, mx)
    BY <1>5, <2>1 DEF Kept, SameWaits
  <2> QED BY <1>1, <1>7, <2>1, <2>2 DEF MInv, q
<1> QED BY <1>6, <1>7

LEMMA ResumeStep ==
    ASSUME MInv, NEW t \in UserTasks, TaskResume(t)
    PROVE  MInv' /\ Kept(k, mx, k', mx')
<1> DEFINE r == MakeReady(k, t)
           q == RequestPreemption(r)
<1>1. k.state[t] = "SUSPENDED" /\ k' = q /\ mx' = mx /\ t \in Tasks
  BY DEF TaskResume, UserTasks
<1>2. /\ Sound(r, mx) /\ SameTask(k, r) /\ SameWaiting(k, r) /\ SameFlags(k, r)
      /\ r.state = [k.state EXCEPT ![t] = "READY"]
  BY <1>1, ReadySound DEF MInv, Runnable
<1> HIDE DEF r
<1>3. r \in KernelType /\ Queues(r, RunnableTasks(r)) /\ RunnableTasks(r) \in SUBSET Tasks
  BY <1>2 DEF Sound, SoundBut, Shape, RunnableTasks
<1>4. SameWaits(r, q) /\ SameRun(r, q) /\ (r.pendsv => q.pendsv)
  BY <1>3, PreemptionSame
<1>5. Sound(q, mx)
  BY <1>2, RequestsSound
<1> HIDE DEF q
<1>6. ~k.pendsv => r.state[k.cur] = "RUNNING"
  BY <1>1, <1>2, InvTypes DEF MInv, Running
<1>7. r.state[Idle] \in Runnable
  BY <1>2, InvTypes, MutexAssumption DEF MInv, Running, Runnable
<1>8. Running(q)
  BY <1>2, <1>4, <1>6, <1>7 DEF MInv, Running, SameTask, SameFlags, SameWaits, SameRun
<1>9. q.waitOn = k.waitOn
  BY <1>2, <1>4 DEF SameWaiting, SameWaits
<1> QED BY <1>1, <1>5, <1>8, <1>9, KeptSame DEF MInv

LEMMA TaskDeleteStep ==
    ASSUME MInv, NEW t \in UserTasks, TaskDelete(t)
    PROVE  MInv' /\ Kept(k, mx, k', mx')
<1> DEFINE d == DetachWaiter(SchedRemove(k, t), mx, t, "INTR")
           r == [d EXCEPT !.state[t] = "STOP"]
           freed == [r EXCEPT !.prio[t] = 0, !.result[t] = "OK"]
<1>1. /\ mx.held[t] = <<>>
      /\ IF t = k.cur THEN k' = RescheduleRequest(r) /\ mx' = mx
         ELSE k' = freed /\ mx' = Rebased(mx, t, 0)
  BY DEF TaskDelete, Stop, Rebased
<1>2. t \in Tasks /\ "STOP" \in TaskStates \ Runnable
  BY DEF UserTasks, TaskStates, Runnable
<1>3. Sound(r, mx) /\ Withdrawn(k, r, t, "STOP")
  BY <1>1, <1>2, WithdrawSound DEF MInv
<1> HIDE DEF d, r
<1>4. r.state[t] = "STOP" /\ \A u \in Tasks \ {t} : r.waitOn[u] = k.waitOn[u]
  BY <1>2, <1>3, InvTypes DEF Withdrawn
<1>5. CASE t = k.cur
  <2> DEFINE q == RescheduleRequest(r)
  <2>1. Sound(q, mx) /\ Running(q) /\ SameWaits(r, q)
    BY <1>3, <1>5, WithdrawnCurrent
  <2> HIDE DEF q
  <2>2. Kept(k, mx, q, mx)
    BY <1>4, <2>1 DEF Kept, SameWaits
  <2> QED BY <1>1, <1>5, <2>1, <2>2 DEF MInv, q
<1>6. CASE t # k.cur
  <2>1. Running(r)
    BY <1>3, <1>6, WithdrawnRuns
  <2>2. /\ r \in KernelType /\ r.prio \in [Tasks -> Priorities] /\ r.result \in [Tasks -> Results]
        /\ 0 \in Priorities /\ "OK" \in Results
    BY <1>3, KernelAssumption DEF Sound, SoundBut, Shape, KernelType, Priorities, Results
  <2> DEFINE prios == [r.prio EXCEPT ![t] = 0]
             results == [r.result EXCEPT ![t] = "OK"]
  <2>3. prios \in [Tasks -> Priorities] /\ results \in [Tasks -> Results]
    BY <2>2
  <2>4. freed = [r EXCEPT !.prio = prios, !.result = results]
    OBVIOUS
  <2> HIDE DEF prios, results, freed
  <2>5. /\ freed \in KernelType /\ freed.prio = prios /\ freed.state = r.state
        /\ freed.waitq = r.waitq /\ freed.waitOn = r.waitOn /\ freed.ready = r.ready
        /\ freed.bitmap = r.bitmap /\ freed.cur = r.cur /\ freed.isr = r.isr
        /\ freed.lock = r.lock /\ freed.pendsv = r.pendsv
    BY <2>2, <2>3, <2>4 DEF KernelType
  <2>6. Sound(freed, Rebased(mx, t, 0))
    BY <1>2, <1>3, <1>4, <2>2, <2>5, RebornSound DEF prios
  <2>7. Running(freed)
    BY <2>1, <2>5, RunningSame
  <2>8. Kept(k, mx, freed, Rebased(mx, t, 0))
    BY <1>4, <2>5 DEF Kept
  <2> QED BY <1>1, <1>6, <2>6, <2>7, <2>8 DEF MInv, freed
<1> QED BY <1>5, <1>6

LEMMA TaskCreateStep ==
    ASSUME MInv, NEW t \in UserTasks, TaskCreate(t)
    PROVE  MInv' /\ Kept(k, mx, k', mx')
<1> DEFINE p == BasePriority[t]
           prios == [k.prio EXCEPT ![t] = p]
           slices == [k.slice EXCEPT ![t] = SliceTicks]
           results == [k.result EXCEPT ![t] = "OK"]
           states == [k.state EXCEPT ![t] = "READY"]
           a == [k EXCEPT !.prio = prios, !.slice = slices, !.result = results]
           r == MakeReady(a, t)
<1>1. /\ k.state[t] = "STOP" /\ mx' = Rebased(mx, t, p)
      /\ k' = SchedAdd([k EXCEPT !.state[t] = "READY", !.prio[t] = BasePriority[t],
                                 !.slice[t] = SliceTicks, !.result[t] = "OK"], t)
  BY DEF TaskCreate, Rebased
<1>2. /\ t \in Tasks /\ p \in Priorities /\ SliceTicks \in 0 .. SliceTicks /\ "OK" \in Results
      /\ "READY" \in TaskStates /\ k \in KernelType
  BY MutexAssumption, KernelAssumption, InvTypes DEF UserTasks, Results, TaskStates
<1>3. /\ prios \in [Tasks -> Priorities] /\ slices \in [Tasks -> 0 .. SliceTicks]
      /\ results \in [Tasks -> Results] /\ states \in [Tasks -> TaskStates]
  BY <1>2 DEF KernelType
<1>4. /\ k' = SchedAdd([k EXCEPT !.state = states, !.prio = prios, !.slice = slices,
                                 !.result = results], t)
      /\ r = SchedAdd([a EXCEPT !.state = [a.state EXCEPT ![t] = "READY"]], t)
  BY <1>1 DEF MakeReady
<1> HIDE DEF prios, slices, results, r
<1>5. /\ a \in KernelType /\ a.prio = prios /\ a.state = k.state /\ a.waitq = k.waitq
      /\ a.waitOn = k.waitOn /\ a.ready = k.ready /\ a.bitmap = k.bitmap
      /\ a.cur = k.cur /\ a.isr = k.isr /\ a.lock = k.lock /\ a.pendsv = k.pendsv
  BY <1>2, <1>3 DEF KernelType
<1>6. k' = r
  <2>1. [a EXCEPT !.state = states]
           = [k EXCEPT !.state = states, !.prio = prios, !.slice = slices, !.result = results]
    BY <1>2 DEF KernelType
  <2>2. [a.state EXCEPT ![t] = "READY"] = states
    BY <1>5
  <2> QED BY <1>4, <2>1, <2>2
<1> HIDE DEF a, states
<1>7. Sound(a, Rebased(mx, t, p))
  BY <1>1, <1>2, <1>5, RebornSound DEF prios, MInv
<1>8. Running(a)
  BY <1>5, RunningSame DEF MInv
<1>9. /\ Sound(r, Rebased(mx, t, p)) /\ SameTask(a, r) /\ SameWaiting(a, r) /\ SameFlags(a, r)
      /\ r.state = [a.state EXCEPT ![t] = "READY"]
  BY <1>1, <1>2, <1>5, <1>7, ReadySound DEF Runnable, r
<1>10. Running(r)
  <2>1. ~a.pendsv => r.state[a.cur] = "RUNNING"
    BY <1>1, <1>5, <1>8, <1>9, InvTypes DEF Running
  <2>2. r.state[Idle] \in Runnable
    BY <1>5, <1>8, <1>9, InvTypes, MutexAssumption DEF Running, Runnable
  <2> QED BY <1>8, <1>9, <2>1, <2>2 DEF Running, SameTask, SameFlags
<1>11. r.waitOn = k.waitOn
  BY <1>5, <1>9 DEF SameWaiting
<1> QED BY <1>1, <1>6, <1>9, <1>10, <1>11, KeptSame DEF MInv

LEMMA TickStep ==
    ASSUME MInv, Tick
    PROVE  MInv' /\ Kept(k, mx, k', mx')
<1> DEFINE now == [IsrEnter(k) EXCEPT !.tick = TickAfter(@, 1),
                                      !.slice[k.cur] = IF @ > 0 THEN @ - 1 ELSE 0]
           expired == Expire(now, mx)
           renewed == [expired EXCEPT !.slice[k.cur] = SliceTicks]
           r == IsrExit(IF expired.slice[k.cur] = 0
                        THEN RescheduleRequest(RotateCurrent(renewed)) ELSE expired)
<1>1. k' = r /\ mx' = mx
  BY DEF Tick
<1>2. Sound(r, mx) /\ Running(r) /\ SomeWoken(k, r, "TIMEOUT")
  BY TickSound DEF MInv
<1> HIDE DEF r
<1>3. ASSUME NEW m \in Mutexes, NEW t \in Tasks, k.waitOn[t] = m, r.waitOn[t] # m
      PROVE  r.result[t] # "OK" /\ mx.owner[m] # t
  <2>1. r.result[t] = "TIMEOUT"
    BY <1>2, <1>3 DEF SomeWoken
  <2> QED BY <1>3, <2>1, WaiterOwnsNot DEF MInv
<1>4. Kept(k, mx, r, mx)
  BY <1>3 DEF Kept
<1> QED BY <1>1, <1>2, <1>4 DEF MInv

LEMMA SwitchStep ==
    ASSUME MInv, ContextSwitch
    PROVE  MInv' /\ Kept(k, mx, k', mx')
<1> DEFINE a == [k EXCEPT !.pendsv = FALSE]
           r == Schedule(a)
<1>1. k' = r /\ mx' = mx
  BY DEF ContextSwitch
<1>2. /\ a \in KernelType /\ a.state = k.state /\ a.waitq = k.waitq /\ a.waitOn = k.waitOn
      /\ a.prio = k.prio /\ a.ready = k.ready /\ a.bitmap = k.bitmap
      /\ a.isr = k.isr /\ a.lock = k.lock
  BY InvTypes DEF KernelType
<1> HIDE DEF a
<1>3. Sound(a, mx) /\ a.state[Idle] \in Runnable
  BY <1>2, CountersSound DEF MInv, Running
<1>4. /\ Sound(r, mx) /\ r.cur \in Tasks /\ r.state[r.cur] = "RUNNING"
      /\ r.state[Idle] \in Runnable
      /\ r.waitOn = a.waitOn /\ r.isr = a.isr /\ r.lock = a.lock
  BY <1>3, ScheduleSound
<1> HIDE DEF r
<1>5. Running(r)
  BY <1>2, <1>4 DEF MInv, Running
<1> QED BY <1>1, <1>2, <1>4, <1>5, KeptSame DEF MInv

LEMMA MutexStep ==
    ASSUME MInv, Next
    PROVE  MInv' /\ Kept(k, mx, k', mx')
<1>1. ASSUME NEW m \in Mutexes,
             \/ MutexCreate(m) \/ LockFree(m) \/ LockAgain(m)
             \/ \E d \in Delays \union {0} : LockBusy(m, d)
             \/ MutexUnlock(m) \/ MutexDelete(m)
      PROVE  MInv' /\ Kept(k, mx, k', mx')
  BY <1>1, CreateStep, LockFreeStep, LockAgainStep, LockBusyStep, UnlockStep, DeleteStep
<1>2. ASSUME NEW w \in Objects, ObjectWait(w) \/ InterruptSignal(w)
      PROVE  MInv' /\ Kept(k, mx, k', mx')
  BY <1>2, ObjectWaitStep, SignalStep
<1>3. ASSUME NEW t \in UserTasks,
             \/ \E p \in NewPriorities : SetPriority(t, p)
             \/ TaskSuspend(t) \/ TaskResume(t) \/ TaskDelete(t) \/ TaskCreate(t)
      PROVE  MInv' /\ Kept(k, mx, k', mx')
  BY <1>3, SetPriorityStep, SuspendStep, ResumeStep, TaskDeleteStep, TaskCreateStep
<1> QED BY <1>1, <1>2, <1>3, TickStep, SwitchStep DEF Next

-----------------------------------------------------------------------------
(* The theorems.                                                           *)

\* Every critical section of mutex.c and of the scheduler under it keeps the
\* lists, the queues and the inherited priorities in order.
THEOREM MutexInvariant == Spec => []MInv
<1>1. Init => MInv
  BY InitSound DEF MInv
<1>2. MInv /\ [Next]_vars => MInv'
  <2>1. CASE Next
    BY <2>1, MutexStep
  <2>2. CASE UNCHANGED vars
    BY <2>2 DEF vars, MInv
  <2> QED BY <2>1, <2>2
<1> QED BY <1>1, <1>2, PTL DEF Spec

\* mutex.c: owner, lock_count and the list of held mutexes agree, whoever waits,
\* gives up or is deleted; a task waits for a mutex of another task only.
THEOREM OwnershipExactCorrect == Spec => []OwnershipExact
<1>1. MInv => OwnershipExact
  <2> SUFFICES ASSUME MInv, NEW m \in Mutexes
               PROVE  /\ mx.owner[m] # NoTask <=> mx.count[m] > 0
                      /\ mx.owner[m] # NoTask => m \in mx.live /\ k.state[mx.owner[m]] # "STOP"
                      /\ k.waitq[m] # <<>> => mx.owner[m] # NoTask
                      /\ \A t \in Tasks :
                            /\ Linked(k.waitq[m], t) => mx.owner[m] # t
                            /\ Cardinality({i \in DOMAIN mx.held[t] : mx.held[t][i] = m})
                                  = (IF mx.owner[m] = t THEN 1 ELSE 0)
    BY DEF OwnershipExact
  <2>1. Shape(k, mx) /\ Ownership(k, mx)
    BY InvTypes
  <2>2. ASSUME NEW t \in Tasks
        PROVE  Cardinality({i \in DOMAIN mx.held[t] : mx.held[t][i] = m})
                  = (IF mx.owner[m] = t THEN 1 ELSE 0)
    <3> DEFINE Places == {i \in DOMAIN mx.held[t] : mx.held[t][i] = m}
    <3>1. CASE mx.owner[m] = t
      <4>1. Linked(mx.held[t], m) /\ NoRepeat(mx.held[t])
        BY <2>1, <3>1 DEF Ownership
      <4>2. PICK i \in DOMAIN mx.held[t] : mx.held[t][i] = m
        BY <4>1 DEF Linked
      <4>3. Places = {i}
        BY <4>1, <4>2 DEF NoRepeat
      <4> HIDE DEF Places
      <4>4. Cardinality(Places) = 1
        BY <4>3, FS_Singleton
      <4> QED BY <3>1, <4>4 DEF Places
    <3>2. CASE mx.owner[m] # t
      <4>1. Places = {}
        BY <2>1, <3>2 DEF Shape, Linked
      <4> HIDE DEF Places
      <4>2. Cardinality(Places) = 0
        BY <4>1, FS_EmptySet
      <4> QED BY <3>2, <4>2 DEF Places
    <3> QED BY <3>1, <3>2
  <2> QED BY <2>1, <2>2 DEF Shape, Ownership
<1> QED BY <1>1, MutexInvariant, PTL

\* recompute_chain: each task has exactly the priority that it was given or the
\* highest of its waiters', and a mutex goes to the waiter with the highest.
THEOREM InheritanceExactCorrect == Spec => []InheritanceExact
<1>1. MInv => InheritanceExact
  <2> SUFFICES ASSUME MInv PROVE InheritanceExact
    OBVIOUS
  <2>1. /\ Shape(k, mx) /\ k.prio \in [Tasks -> Priorities] /\ mx.held \in [Tasks -> Seq(Mutexes)]
        /\ \A m \in Mutexes : k.waitq[m] \in Seq(Tasks)
    BY InvTypes DEF KernelType, MutexType
  <2>2. \A t \in Tasks : IsTop(Waiters(k, mx), mx.base, k.prio, t, k.prio[t])
    BY KernelAssumption DEF MInv, Sound, SoundBut, Settled, SettledBut
  <2>3. ASSUME NEW m \in Mutexes, NEW i \in DOMAIN k.waitq[m], NEW j \in DOMAIN k.waitq[m], i < j
        PROVE  k.prio[k.waitq[m][i]] >= k.prio[k.waitq[m][j]]
    <3>1. k.waitq[m][i] \in Tasks /\ k.waitq[m][j] \in Tasks
      BY <2>1
    <3>2. Urgency(k.prio)[k.waitq[m][i]] <= Urgency(k.prio)[k.waitq[m][j]]
      BY <2>1, <2>3 DEF Shape, Ascending
    <3>3. /\ k.prio[k.waitq[m][i]] \in Int /\ k.prio[k.waitq[m][j]] \in Int
      BY <2>1, <3>1 DEF Priorities
    <3>4. -k.prio[k.waitq[m][i]] <= -k.prio[k.waitq[m][j]]
      BY <3>1, <3>2 DEF Urgency
    <3> QED BY <3>3, <3>4
  <2>4. ASSUME NEW t \in Tasks
        PROVE  /\ k.prio[t] >= mx.base[t]
               /\ \A m \in ToSet(mx.held[t]) : \A i \in DOMAIN k.waitq[m] :
                     k.prio[t] >= k.prio[k.waitq[m][i]]
               /\ \/ k.prio[t] = mx.base[t]
                  \/ \E m \in ToSet(mx.held[t]), u \in Tasks :
                        Linked(k.waitq[m], u) /\ k.prio[u] = k.prio[t]
    <3>1. \A m : m \in ToSet(mx.held[t]) <=> Linked(mx.held[t], m)
      BY DEF ToSet, Linked
    <3>2. \A m \in ToSet(mx.held[t]) : m \in Mutexes
      BY <2>1 DEF ToSet
    <3>3. ASSUME NEW m \in ToSet(mx.held[t]), NEW i \in DOMAIN k.waitq[m]
          PROVE  k.waitq[m][i] \in Waiters(k, mx)[t]
      <4>1. m \in Mutexes /\ Linked(mx.held[t], m) /\ k.waitq[m][i] \in Tasks
        BY <2>1, <3>1, <3>2
      <4>2. Linked(k.waitq[m], k.waitq[m][i])
        BY DEF Linked
      <4> QED BY <4>1, <4>2 DEF Waiters
    <3>4. /\ mx.base[t] <= k.prio[t]
          /\ \A u \in Waiters(k, mx)[t] : k.prio[u] <= k.prio[t]
          /\ k.prio[t] = mx.base[t] \/ \E u \in Waiters(k, mx)[t] : k.prio[u] = k.prio[t]
      BY <2>2 DEF IsTop
    <3>5. ASSUME NEW u \in Waiters(k, mx)[t]
          PROVE  u \in Tasks /\ \E m \in ToSet(mx.held[t]) : Linked(k.waitq[m], u)
      BY <3>1 DEF Waiters
    <3>6. \A m \in ToSet(mx.held[t]) : \A i \in DOMAIN k.waitq[m] :
             k.prio[t] >= k.prio[k.waitq[m][i]]
      BY <3>3, <3>4
    <3>7. \/ k.prio[t] = mx.base[t]
          \/ \E m \in ToSet(mx.held[t]), u \in Tasks :
                Linked(k.waitq[m], u) /\ k.prio[u] = k.prio[t]
      BY <3>4, <3>5
    <3> QED BY <3>4, <3>6, <3>7
  <2> QED BY <2>3, <2>4 DEF InheritanceExact
<1> QED BY <1>1, MutexInvariant, PTL

\* aixos_mutex_lock returns AIXOS_OK to a task that has waited only if the task
\* owns the mutex, whatever came between.
THEOREM LockedMeansOwnedCorrect == Spec => LockedMeansOwned
<1> DEFINE Locked == \A m \in Mutexes, t \in Tasks :
                        k.waitOn[t] = m /\ k'.waitOn[t] # m /\ k'.state[t] # "STOP" =>
                           (k'.result[t] = "OK" <=> mx'.owner[m] = t)
<1>1. MInv /\ [Next]_vars => [Locked]_vars
  BY MutexStep DEF Kept, vars
<1> QED BY <1>1, MutexInvariant, PTL DEF Spec, LockedMeansOwned
=============================================================================
