---------------------------- MODULE KernelProofs ----------------------------
(***************************************************************************)
(* What the operators of module Kernel preserve, for every number of tasks *)
(* and priorities.  The lemmas go from the lists, through the functions of *)
(* sched.c, to those of task.c and isr.c.                                  *)
(***************************************************************************)
EXTENDS Kernel, SequenceTheorems, WellFoundedInduction, TLAPS

-----------------------------------------------------------------------------
(* Numbers.                                                                *)

\* A tick plus a timeout is a tick.
LEMMA TickAfterType ==
    ASSUME NEW a \in Ticks, NEW n \in Nat
    PROVE  TickAfter(a, n) \in Ticks
BY ClockAssumption DEF TickAfter, Ticks

\* How long it is, at tick now, until tick t
Left(t, now) == (t - now) % TickModulus

\* The difference of two ticks, as the code computes it
LEMMA LeftIs ==
    ASSUME NEW t \in Ticks, NEW now \in Ticks
    PROVE  /\ Left(t, now) \in Ticks
           /\ Left(t, now) = IF t >= now THEN t - now ELSE t - now + TickModulus
<1>1. TickModulus \in Nat \ {0} /\ t - now \in Int
  BY ClockAssumption DEF Ticks
<1>2. CASE t >= now
  <2>1. t - now \in 0 .. TickModulus - 1
    BY <1>1, <1>2 DEF Ticks
  <2>2. (t - now) % TickModulus = t - now
    BY <1>1, <2>1
  <2> QED BY <1>2, <2>1, <2>2 DEF Left, Ticks
<1>3. CASE ~(t >= now)
  <2>1. -TickModulus <= t - now /\ t - now < 0 /\ t - now + TickModulus \in 0 .. TickModulus - 1
    BY <1>1, <1>3 DEF Ticks
  <2>2. (t - now) % TickModulus = t - now + TickModulus
    BY <1>1, <2>1
  <2> QED BY <1>3, <2>1, <2>2 DEF Left, Ticks
<1> QED BY <1>2, <1>3

LEMMA MaxTimeoutIs ==
    /\ MaxTimeout \in Nat \ {0} /\ TickModulus = 2 * MaxTimeout + 2
    /\ TickModulus \div 2 = MaxTimeout + 1
<1>1. TickModulus \div 2 \in Nat /\ 2 * (TickModulus \div 2) = TickModulus
  BY ClockAssumption
<1> QED BY <1>1, ClockAssumption DEF MaxTimeout

\* tick_reached compares two deadlines that are not too far ahead.
LEMMA ReachedOrder ==
    ASSUME NEW a \in Ticks, NEW b \in Ticks, NEW now \in Ticks,
           Left(a, now) <= MaxTimeout, Left(b, now) <= MaxTimeout
    PROVE  TickReached(a, b) <=> Left(b, now) <= Left(a, now)
<1>1. /\ Left(a, now) = IF a >= now THEN a - now ELSE a - now + TickModulus
      /\ Left(b, now) = IF b >= now THEN b - now ELSE b - now + TickModulus
      /\ Left(a, b) = IF a >= b THEN a - b ELSE a - b + TickModulus
  BY LeftIs
<1>2. TickReached(a, b) <=> Left(a, b) < MaxTimeout + 1
  BY MaxTimeoutIs DEF TickReached, Left
<1> QED BY <1>1, <1>2, MaxTimeoutIs DEF Ticks

\* A deadline is reached when nothing is left until then.
LEMMA ReachedNow ==
    ASSUME NEW a \in Ticks, NEW now \in Ticks, Left(a, now) <= MaxTimeout
    PROVE  TickReached(now, a) <=> Left(a, now) = 0
<1>1. Left(now, now) = 0 /\ Left(a, now) \in Ticks
  BY LeftIs DEF Ticks
<1>2. Left(now, now) <= MaxTimeout
  BY <1>1, MaxTimeoutIs
<1>3. TickReached(now, a) <=> Left(a, now) <= 0
  BY <1>1, <1>2, ReachedOrder
<1> QED BY <1>1, <1>3 DEF Ticks

\* A sum that wraps once
LEMMA WrapOnce ==
    ASSUME NEW m \in Nat \ {0}, NEW x \in Int, m <= x, x < 2 * m
    PROVE  x % m = x - m
OBVIOUS

\* A deadline d ticks from now
LEMMA LeftAfter ==
    ASSUME NEW now \in Ticks, NEW d \in 1 .. MaxTimeout
    PROVE  TickAfter(now, d) \in Ticks /\ Left(TickAfter(now, d), now) = d
<1>1. TickModulus \in Nat \ {0} /\ d \in Nat /\ d <= TickModulus - 1 /\ now + d \in Nat
  BY ClockAssumption, MaxTimeoutIs DEF Ticks
<1>2. TickAfter(now, d) \in Ticks
  BY <1>1, TickAfterType
<1>3. CASE now + d < TickModulus
  <2>1. (now + d) % TickModulus = now + d
    BY <1>1, <1>3
  <2> QED BY <1>1, <1>2, <2>1, LeftIs DEF TickAfter, Ticks
<1>4. CASE now + d >= TickModulus
  <2> DEFINE x == now + d
  <2>1. x \in Int /\ TickModulus <= x /\ x < 2 * TickModulus
    BY <1>1, <1>4 DEF Ticks
  <2> HIDE DEF x
  <2>2. x % TickModulus = x - TickModulus
    BY <1>1, <2>1, WrapOnce
  <2> USE DEF x
  <2> QED BY <1>1, <1>2, <2>2, LeftIs DEF TickAfter, Ticks
<1> QED BY <1>1, <1>3, <1>4 DEF Ticks

\* The tick counts, and every deadline that is not due is one tick closer.
LEMMA LeftCounts ==
    ASSUME NEW a \in Ticks, NEW now \in Ticks, Left(a, now) # 0
    PROVE  Left(a, TickAfter(now, 1)) = Left(a, now) - 1
<1>1. 1 \in 1 .. MaxTimeout
  BY MaxTimeoutIs
<1>2. TickAfter(now, 1) \in Ticks /\ Left(TickAfter(now, 1), now) = 1
  BY <1>1, LeftAfter
<1> DEFINE next == TickAfter(now, 1)
<1>3. /\ Left(next, now) = IF next >= now THEN next - now ELSE next - now + TickModulus
      /\ Left(a, now) = IF a >= now THEN a - now ELSE a - now + TickModulus
      /\ Left(a, next) = IF a >= next THEN a - next ELSE a - next + TickModulus
  BY <1>2, LeftIs
<1> QED BY <1>2, <1>3, MaxTimeoutIs DEF Ticks

\* Among the first n numbers there is a first one in B, or none is.
LEMMA FirstIn ==
    ASSUME NEW n \in Nat, NEW B
    PROVE  \E i \in 1 .. n + 1 : /\ \A j \in 1 .. i - 1 : j \notin B
                                 /\ i <= n => i \in B
<1> DEFINE T == {i \in 1 .. n + 1 : i <= n => i \in B}
<1>1. T \subseteq Nat /\ n + 1 \in T
  OBVIOUS
<1>2. \E i \in T : \A j \in T : ~(<<j, i>> \in OpToRel(<, Nat))
  BY <1>1, NatLessThanWellFounded, WFMin
<1>3. PICK i \in T : \A j \in T : ~(<<j, i>> \in OpToRel(<, Nat))
  BY <1>2
<1>4. \A j \in T : ~(j < i)
  BY <1>1, <1>3 DEF OpToRel
<1>5. \A j \in 1 .. i - 1 : j \notin B
  BY <1>4
<1> QED BY <1>5

\* A set of priorities that is not empty has a greatest element.
LEMMA GreatestPriority ==
    ASSUME NEW B \in SUBSET Priorities, B # {}
    PROVE  \E p \in B : \A q \in B : q <= p
<1> DEFINE T == {MaxPriority - p : p \in B}
<1>0. MaxPriority \in Nat /\ \A p \in B : p \in Nat /\ p < MaxPriority
  BY KernelAssumption DEF Priorities
<1>1. T \subseteq Nat /\ T # {}
  BY <1>0
<1>2. \E i \in T : \A j \in T : ~(<<j, i>> \in OpToRel(<, Nat))
  BY <1>1, NatLessThanWellFounded, WFMin
<1>3. PICK i \in T : \A j \in T : ~(<<j, i>> \in OpToRel(<, Nat))
  BY <1>2
<1>4. \A j \in T : ~(j < i)
  BY <1>1, <1>3 DEF OpToRel
<1>5. PICK p \in B : i = MaxPriority - p
  BY <1>3
<1>6. ASSUME NEW q \in B PROVE q <= p
  <2>1. MaxPriority - q \in T
    OBVIOUS
  <2>2. ~(MaxPriority - q < MaxPriority - p)
    BY <1>4, <1>5, <2>1
  <2> QED BY <1>0, <2>2
<1> QED BY <1>6

LEMMA LeastIsIn ==
    ASSUME NEW S \in SUBSET Nat, S # {}
    PROVE  \E i \in S : \A j \in S : i <= j
<1>1. PICK i \in S : \A j \in S : ~(<<j, i>> \in OpToRel(<, Nat))
  BY NatLessThanWellFounded, WFMin
<1>2. \A j \in S : ~(j < i)
  BY <1>1 DEF OpToRel
<1> QED BY <1>2

\* f starts with start, and g leads from each of its values to the next one.
Iterated(f, N, start, g) ==
    f[0] = start /\ \A i \in 1 .. N : f[i] = g[<<i, f[i - 1]>>]

\* A function that is defined by recursion over 0 .. N exists.
LEMMA Iterates ==
    ASSUME NEW D, NEW N \in Nat, NEW start \in D, NEW g \in [(1 .. N) \X D -> D]
    PROVE  \E f \in [0 .. N -> D] : Iterated(f, N, start, g)
<1> DEFINE UpTo(n) == \E f \in [0 .. n -> D] :
                         f[0] = start /\ \A i \in 1 .. n : f[i] = g[<<i, f[i - 1]>>]
           None == {n \in 0 .. N : ~UpTo(n)}
<1>1. SUFFICES ASSUME None # {} PROVE FALSE
  <2>1. N \in 0 .. N
    OBVIOUS
  <2> QED BY <2>1 DEF Iterated
<1>0. None \in SUBSET Nat
  OBVIOUS
<1>2. PICK n \in None : \A q \in None : n <= q
  BY <1>0, <1>1, LeastIsIn
<1>3. n \in 0 .. N /\ ~UpTo(n)
  BY <1>2
<1>4. CASE n = 0
  <2> DEFINE h == [i \in 0 .. 0 |-> start]
  <2>1. h \in [0 .. 0 -> D] /\ h[0] = start /\ 1 .. 0 = {}
    OBVIOUS
  <2> HIDE DEF h
  <2>2. UpTo(0)
    BY <2>1
  <2> QED BY <1>3, <1>4, <2>2
<1>5. CASE n # 0
  <2>1. n - 1 \in 0 .. N /\ n \in 1 .. N /\ ~(n <= n - 1) /\ n - 1 \in 0 .. n - 1
    BY <1>3, <1>5
  <2>2. UpTo(n - 1)
    BY <1>2, <2>1
  <2>3. PICK f \in [0 .. n - 1 -> D] :
           f[0] = start /\ \A i \in 1 .. n - 1 : f[i] = g[<<i, f[i - 1]>>]
    BY <2>2
  <2> DEFINE h == [i \in 0 .. n |-> IF i = n THEN g[<<n, f[n - 1]>>] ELSE f[i]]
  <2>4. \A i \in 0 .. n : i # n => i \in 0 .. n - 1
    BY <1>3
  <2>5. g[<<n, f[n - 1]>>] \in D
    BY <2>1, <2>3
  <2>6. /\ h \in [0 .. n -> D] /\ h[n] = g[<<n, f[n - 1]>>]
        /\ \A i \in 0 .. n - 1 : h[i] = f[i]
    BY <1>3, <2>3, <2>4, <2>5
  <2> HIDE DEF h
  <2>7. \A i \in 1 .. n : i - 1 \in 0 .. n - 1 /\ (i # n => i \in 1 .. n - 1 /\ i \in 0 .. n - 1)
    BY <1>3
  <2>8. ASSUME NEW i \in 1 .. n PROVE h[i] = g[<<i, h[i - 1]>>]
    BY <2>3, <2>6, <2>7
  <2>9. h[0] = start
    BY <2>1, <2>3, <2>6
  <2> QED BY <1>3, <2>6, <2>8, <2>9
<1> QED BY <1>4, <1>5

LEMMA StaysIn ==
    ASSUME NEW D, NEW N \in Nat, NEW f, f[0] \in D,
           \A i \in 1 .. N : f[i - 1] \in D => f[i] \in D
    PROVE  \A i \in 0 .. N : f[i] \in D
<1> DEFINE Out == {i \in 0 .. N : f[i] \notin D}
<1>1. SUFFICES ASSUME Out # {} PROVE FALSE
  OBVIOUS
<1>0. Out \in SUBSET Nat
  OBVIOUS
<1>2. PICK n \in Out : \A q \in Out : n <= q
  BY <1>0, <1>1, LeastIsIn
<1>3. n \in 1 .. N /\ n - 1 \in 0 .. N /\ ~(n <= n - 1)
  BY <1>2
<1>4. f[n - 1] \in D
  BY <1>2, <1>3
<1> QED BY <1>2, <1>3, <1>4

-----------------------------------------------------------------------------
(* Lists.                                                                  *)

\* The sequence r is s with e at place i and the rest moved up.
Inserted(D, r, s, i, e) ==
    /\ r \in Seq(D)
    /\ Len(r) = Len(s) + 1
    /\ \A j \in 1 .. Len(s) + 1 :
          r[j] = IF j < i THEN s[j] ELSE IF j = i THEN e ELSE s[j - 1]

LEMMA InsertAtPlaces ==
    ASSUME NEW D, NEW s \in Seq(D), NEW i \in 1 .. Len(s) + 1, NEW e \in D
    PROVE  Inserted(D, InsertAt(s, i, e), s, i, e)
<1> DEFINE a == SubSeq(s, 1, i - 1)
           b == SubSeq(s, i, Len(s))
<1>1. Len(s) \in Nat
  BY LenProperties
<1>2. a \in Seq(D) /\ Len(a) = i - 1 /\ \A j \in 1 .. i - 1 : a[j] = s[j]
  BY <1>1, SubSeqProperties
<1>3. b \in Seq(D) /\ Len(b) = Len(s) + 1 - i
      /\ \A j \in 1 .. Len(s) + 1 - i : b[j] = s[i + j - 1]
  BY <1>1, SubSeqProperties
<1>4. <<e>> \in Seq(D) /\ Len(<<e>>) = 1 /\ <<e>>[1] = e
  OBVIOUS
<1> HIDE DEF a, b
<1>5. a \o <<e>> \in Seq(D) /\ Len(a \o <<e>>) = i
      /\ \A j \in 1 .. i : (a \o <<e>>)[j] = IF j < i THEN s[j] ELSE e
  BY <1>2, <1>4, ConcatProperties
<1>6. /\ (a \o <<e>>) \o b \in Seq(D)
      /\ Len((a \o <<e>>) \o b) = Len(s) + 1
      /\ \A j \in 1 .. Len(s) + 1 :
            ((a \o <<e>>) \o b)[j] = IF j < i THEN s[j]
                                     ELSE IF j = i THEN e ELSE s[j - 1]
  <2> DEFINE c == a \o <<e>>
             r == c \o b
             n == Len(s)
  <2>1. c \in Seq(D) /\ Len(c) = i /\ \A j \in 1 .. i : c[j] = IF j < i THEN s[j] ELSE e
    BY <1>5
  <2>2. n \in Nat /\ i \in 1 .. n + 1 /\ Len(b) = n + 1 - i
        /\ \A j \in 1 .. n + 1 - i : b[j] = s[i + j - 1]
    BY <1>1, <1>3
  <2> HIDE DEF c, n
  <2>3. /\ r \in Seq(D) /\ Len(r) = Len(c) + Len(b)
        /\ \A j \in 1 .. Len(c) + Len(b) : r[j] = IF j <= Len(c) THEN c[j] ELSE b[j - Len(c)]
    BY <1>3, <2>1, ConcatProperties
  <2> HIDE DEF r
  <2>4. Len(r) = n + 1 /\ \A j \in 1 .. n + 1 : r[j] = IF j <= i THEN c[j] ELSE b[j - i]
    BY <2>1, <2>2, <2>3
  <2>5. ASSUME NEW j \in 1 .. n + 1, j > i PROVE b[j - i] = s[j - 1]
    <3>1. j - i \in 1 .. n + 1 - i /\ i + (j - i) - 1 = j - 1
      BY <2>2, <2>5
    <3> QED BY <2>2, <3>1
  <2>6. ASSUME NEW j \in 1 .. n + 1
        PROVE  r[j] = IF j < i THEN s[j] ELSE IF j = i THEN e ELSE s[j - 1]
    <3>0. j \in Nat /\ j >= 1 /\ i \in Nat
      BY <2>2
    <3>1. CASE j <= i
      <4>1. r[j] = c[j]
        BY <2>4, <3>1
      <4>2. c[j] = IF j < i THEN s[j] ELSE e
        BY <2>1, <3>0, <3>1
      <4> QED BY <3>0, <3>1, <4>1, <4>2
    <3>2. CASE j > i
      <4>1. r[j] = b[j - i]
        BY <2>4, <3>0, <3>2
      <4> QED BY <2>5, <3>0, <3>2, <4>1
    <3> QED BY <3>0, <3>1, <3>2
  <2> QED BY <2>3, <2>4, <2>6 DEF c, r, n
<1>7. InsertAt(s, i, e) = (a \o <<e>>) \o b
  BY DEF InsertAt, a, b
<1> QED BY <1>6, <1>7 DEF Inserted

\* RemoveAt takes the element at place i out and moves the rest down.
LEMMA RemoveAtPlaces ==
    ASSUME NEW D, NEW s \in Seq(D), NEW i \in 1 .. Len(s)
    PROVE  /\ RemoveAt(s, i) \in Seq(D)
           /\ Len(RemoveAt(s, i)) = Len(s) - 1
           /\ \A j \in 1 .. Len(s) - 1 :
                 RemoveAt(s, i)[j] = IF j < i THEN s[j] ELSE s[j + 1]
<1> DEFINE a == SubSeq(s, 1, i - 1)
           b == SubSeq(s, i + 1, Len(s))
<1>1. Len(s) \in Nat
  BY LenProperties
<1>2. a \in Seq(D) /\ Len(a) = i - 1 /\ \A j \in 1 .. i - 1 : a[j] = s[j]
  BY <1>1, SubSeqProperties
<1>3. b \in Seq(D) /\ Len(b) = Len(s) - i
      /\ \A j \in 1 .. Len(s) - i : b[j] = s[i + j]
  BY <1>1, SubSeqProperties
<1> HIDE DEF a, b
<1>4. /\ a \o b \in Seq(D)
      /\ Len(a \o b) = Len(s) - 1
      /\ \A j \in 1 .. Len(s) - 1 :
            (a \o b)[j] = IF j < i THEN s[j] ELSE s[j + 1]
  <2> DEFINE r == a \o b
             n == Len(s)
  <2>1. /\ n \in Nat /\ i \in 1 .. n
        /\ a \in Seq(D) /\ Len(a) = i - 1 /\ \A j \in 1 .. i - 1 : a[j] = s[j]
        /\ b \in Seq(D) /\ Len(b) = n - i /\ \A j \in 1 .. n - i : b[j] = s[i + j]
    BY <1>1, <1>2, <1>3
  <2> HIDE DEF n
  <2>2. /\ r \in Seq(D) /\ Len(r) = Len(a) + Len(b)
        /\ \A j \in 1 .. Len(a) + Len(b) : r[j] = IF j <= Len(a) THEN a[j] ELSE b[j - Len(a)]
    BY <2>1, ConcatProperties
  <2> HIDE DEF r
  <2>3. Len(r) = n - 1 /\ \A j \in 1 .. n - 1 : r[j] = IF j <= i - 1 THEN a[j] ELSE b[j - (i - 1)]
    BY <2>1, <2>2
  <2>4. ASSUME NEW j \in 1 .. n - 1, j >= i PROVE b[j - (i - 1)] = s[j + 1]
    <3>1. j - (i - 1) \in 1 .. n - i /\ i + (j - (i - 1)) = j + 1
      BY <2>1, <2>4
    <3> QED BY <2>1, <3>1
  <2>5. \A j \in 1 .. n - 1 : r[j] = IF j < i THEN s[j] ELSE s[j + 1]
    BY <2>1, <2>3, <2>4
  <2> QED BY <2>2, <2>3, <2>5 DEF r, n
<1>5. RemoveAt(s, i) = a \o b
  BY DEF RemoveAt, a, b
<1> QED BY <1>4, <1>5

\* A list is empty exactly when nothing is on it; the first node is on it.
LEMMA FirstLinkedIn ==
    ASSUME NEW D, NEW s \in Seq(D)
    PROVE  /\ s = <<>> => \A u : ~Linked(s, u)
           /\ s # <<>> => Head(s) \in D /\ Linked(s, Head(s))
           /\ \A u : Linked(s, u) => u \in D
<1>1. Len(s) \in Nat /\ DOMAIN s = 1 .. Len(s) /\ \A i \in 1 .. Len(s) : s[i] \in D
  BY LenProperties, ElementOfSeq
<1>2. s # <<>> => Len(s) > 0 /\ Head(s) = s[1]
  BY <1>1, EmptySeq, HeadTailProperties
<1> QED BY <1>1, <1>2 DEF Linked

LEMMA FirstLinked ==
    ASSUME NEW s \in Seq(Tasks)
    PROVE  /\ s = <<>> => \A u : ~Linked(s, u)
           /\ s # <<>> => Head(s) \in Tasks /\ Linked(s, Head(s))
           /\ \A u : Linked(s, u) => u \in Tasks
BY FirstLinkedIn

\* aixos_list_add_tail
LEMMA AppendIn ==
    ASSUME NEW D, NEW s \in Seq(D), NEW t \in D
    PROVE  /\ Append(s, t) \in Seq(D)
           /\ Append(s, t) # <<>>
           /\ \A u : Linked(Append(s, t), u) <=> Linked(s, u) \/ u = t
           /\ NoRepeat(s) /\ ~Linked(s, t) => NoRepeat(Append(s, t))
<1> DEFINE a == Append(s, t)
<1>1. Len(s) \in Nat /\ DOMAIN s = 1 .. Len(s)
  BY LenProperties
<1>2. /\ a \in Seq(D) /\ Len(a) = Len(s) + 1
      /\ \A i \in 1 .. Len(s) : a[i] = s[i]
      /\ a[Len(s) + 1] = t
  BY AppendProperties
<1>3. DOMAIN a = 1 .. Len(s) + 1
  BY <1>2, LenProperties
<1> HIDE DEF a
<1>4. a # <<>>
  BY <1>1, <1>2, EmptySeq
<1>5. \A u : Linked(a, u) <=> Linked(s, u) \/ u = t
  BY <1>1, <1>2, <1>3 DEF Linked
<1>6. NoRepeat(s) /\ ~Linked(s, t) => NoRepeat(a)
  BY <1>1, <1>2, <1>3 DEF Linked, NoRepeat
<1> QED BY <1>2, <1>4, <1>5, <1>6 DEF a

LEMMA AppendLinked ==
    ASSUME NEW s \in Seq(Tasks), NEW t \in Tasks
    PROVE  /\ Append(s, t) \in Seq(Tasks)
           /\ Append(s, t) # <<>>
           /\ \A u : Linked(Append(s, t), u) <=> Linked(s, u) \/ u = t
           /\ NoRepeat(s) /\ ~Linked(s, t) => NoRepeat(Append(s, t))
BY AppendIn

\* The list after its first node
LEMMA TailLinkedIn ==
    ASSUME NEW D, NEW s \in Seq(D), s # <<>>, NoRepeat(s)
    PROVE  /\ Tail(s) \in Seq(D)
           /\ NoRepeat(Tail(s))
           /\ \A u : Linked(Tail(s), u) <=> Linked(s, u) /\ u # Head(s)
<1> DEFINE r == Tail(s)
<1>1. Len(s) \in Nat /\ DOMAIN s = 1 .. Len(s) /\ Len(s) > 0
  BY LenProperties, EmptySeq
<1>2. /\ r \in Seq(D) /\ Len(r) = Len(s) - 1 /\ Head(s) = s[1]
      /\ \A i \in 1 .. Len(s) - 1 : r[i] = s[i + 1]
  BY <1>1, HeadTailProperties
<1>3. DOMAIN r = 1 .. Len(s) - 1
  BY <1>2, LenProperties
<1> HIDE DEF r
<1>4. NoRepeat(r)
  <2> SUFFICES ASSUME NEW i \in 1 .. Len(s) - 1, NEW j \in 1 .. Len(s) - 1, r[i] = r[j]
               PROVE  i = j
    BY <1>3 DEF NoRepeat
  <2>1. i + 1 \in DOMAIN s /\ j + 1 \in DOMAIN s /\ s[i + 1] = s[j + 1]
    BY <1>1, <1>2
  <2>2. i + 1 = j + 1
    BY <2>1 DEF NoRepeat
  <2> QED BY <2>2
<1>5. ASSUME NEW u PROVE Linked(r, u) <=> Linked(s, u) /\ u # Head(s)
  <2>1. ASSUME NEW i \in DOMAIN r, r[i] = u
        PROVE  Linked(s, u) /\ u # Head(s)
    <3>1. i + 1 \in DOMAIN s /\ s[i + 1] = u /\ 1 \in DOMAIN s /\ i + 1 # 1
      BY <1>1, <1>2, <1>3, <2>1
    <3>2. u # s[1]
      BY <3>1 DEF NoRepeat
    <3> QED BY <1>2, <3>1, <3>2 DEF Linked
  <2>2. ASSUME NEW i \in DOMAIN s, s[i] = u, u # Head(s)
        PROVE  Linked(r, u)
    <3>1. i # 1
      BY <1>2, <2>2
    <3>2. i - 1 \in 1 .. Len(s) - 1 /\ (i - 1) + 1 = i
      BY <1>1, <3>1
    <3>3. r[i - 1] = u
      BY <1>2, <2>2, <3>2
    <3> QED BY <1>3, <3>2, <3>3 DEF Linked
  <2> QED BY <2>1, <2>2 DEF Linked
<1> QED BY <1>2, <1>4, <1>5 DEF r

LEMMA TailLinked ==
    ASSUME NEW s \in Seq(Tasks), s # <<>>, NoRepeat(s)
    PROVE  /\ Tail(s) \in Seq(Tasks)
           /\ NoRepeat(Tail(s))
           /\ \A u : Linked(Tail(s), u) <=> Linked(s, u) /\ u # Head(s)
BY TailLinkedIn

\* aixos_list_del
LEMMA ListDelIn ==
    ASSUME NEW D, NEW s \in Seq(D), NEW t
    PROVE  /\ ListDel(s, t) \in Seq(D)
           /\ ~Linked(s, t) => ListDel(s, t) = s
           /\ NoRepeat(s) => /\ NoRepeat(ListDel(s, t))
                             /\ \A u : Linked(ListDel(s, t), u) <=> Linked(s, u) /\ u # t
<1>1. CASE ~Linked(s, t)
  BY <1>1 DEF ListDel
<1>2. CASE Linked(s, t)
  <2> DEFINE i == CHOOSE i \in DOMAIN s : s[i] = t
             r == RemoveAt(s, i)
  <2>1. Len(s) \in Nat /\ DOMAIN s = 1 .. Len(s)
    BY LenProperties
  <2>2. i \in 1 .. Len(s) /\ s[i] = t
    BY <1>2, <2>1 DEF Linked
  <2> HIDE DEF i
  <2>3. /\ r \in Seq(D) /\ Len(r) = Len(s) - 1
        /\ \A j \in 1 .. Len(s) - 1 : r[j] = IF j < i THEN s[j] ELSE s[j + 1]
    BY <2>2, RemoveAtPlaces
  <2>4. DOMAIN r = 1 .. Len(s) - 1
    BY <2>3, LenProperties
  <2> HIDE DEF r
  <2>5. ASSUME NoRepeat(s) PROVE NoRepeat(r)
    <3>1. SUFFICES ASSUME NEW x \in 1 .. Len(s) - 1, NEW y \in 1 .. Len(s) - 1,
                          r[x] = r[y]
                   PROVE  x = y
      BY <2>4 DEF NoRepeat
    <3> DEFINE up(j) == IF j < i THEN j ELSE j + 1
    <3>2. /\ up(x) \in 1 .. Len(s) /\ r[x] = s[up(x)]
          /\ up(y) \in 1 .. Len(s) /\ r[y] = s[up(y)]
      BY <2>1, <2>2, <2>3
    <3>3. up(x) = up(y)
      BY <2>1, <2>5, <3>1, <3>2 DEF NoRepeat
    <3> QED BY <2>1, <2>2, <3>3
  <2>6. ASSUME NoRepeat(s), NEW u PROVE Linked(r, u) <=> Linked(s, u) /\ u # t
    <3>1. ASSUME Linked(r, u) PROVE Linked(s, u) /\ u # t
      <4>1. PICK j \in 1 .. Len(s) - 1 : r[j] = u
        BY <2>4, <3>1 DEF Linked
      <4>2. PICK x \in 1 .. Len(s) : x # i /\ s[x] = u
        BY <2>1, <2>2, <2>3, <4>1
      <4> QED BY <2>1, <2>2, <2>6, <4>2 DEF Linked, NoRepeat
    <3>2. ASSUME Linked(s, u), u # t PROVE Linked(r, u)
      <4>1. PICK j \in 1 .. Len(s) : s[j] = u
        BY <2>1, <3>2 DEF Linked
      <4>2. CASE j < i
        BY <2>1, <2>2, <2>3, <2>4, <4>1, <4>2 DEF Linked
      <4>3. CASE j > i
        <5>1. j - 1 \in 1 .. Len(s) - 1 /\ r[j - 1] = u
          BY <2>1, <2>2, <2>3, <4>1, <4>3
        <5> QED BY <2>4, <5>1 DEF Linked
      <4> QED BY <2>1, <2>2, <3>2, <4>1, <4>2, <4>3
    <3> QED BY <3>1, <3>2
  <2>7. ListDel(s, t) = r
    BY <1>2 DEF ListDel, r, i
  <2> QED BY <1>2, <2>3, <2>5, <2>6, <2>7
<1> QED BY <1>1, <1>2

LEMMA ListDelLinked ==
    ASSUME NEW s \in Seq(Tasks), NEW t
    PROVE  /\ ListDel(s, t) \in Seq(Tasks)
           /\ ~Linked(s, t) => ListDel(s, t) = s
           /\ NoRepeat(s) => /\ NoRepeat(ListDel(s, t))
                             /\ \A u : Linked(ListDel(s, t), u) <=> Linked(s, u) /\ u # t
BY ListDelIn

\* __aixos_list_add before the node at place i
LEMMA InsertLinkedIn ==
    ASSUME NEW D, NEW s \in Seq(D), NEW i \in 1 .. Len(s) + 1, NEW t \in D
    PROVE  /\ InsertAt(s, i, t) \in Seq(D)
           /\ \A u : Linked(InsertAt(s, i, t), u) <=> Linked(s, u) \/ u = t
           /\ NoRepeat(s) /\ ~Linked(s, t) => NoRepeat(InsertAt(s, i, t))
<1>0. Inserted(D, InsertAt(s, i, t), s, i, t)
  BY InsertAtPlaces
<1> DEFINE r == InsertAt(s, i, t)
           n == Len(s)
<1>1. n \in Nat /\ DOMAIN s = 1 .. n /\ i \in 1 .. n + 1
  BY LenProperties
<1>2. /\ r \in Seq(D) /\ Len(r) = n + 1
      /\ \A j \in 1 .. n + 1 :
            r[j] = IF j < i THEN s[j] ELSE IF j = i THEN t ELSE s[j - 1]
  BY <1>0 DEF Inserted
<1>3. DOMAIN r = 1 .. n + 1
  BY <1>2, LenProperties
<1> HIDE DEF r, n
<1>4. ASSUME NEW u PROVE Linked(r, u) <=> Linked(s, u) \/ u = t
  <2>1. ASSUME Linked(r, u) PROVE Linked(s, u) \/ u = t
    <3>1. PICK j \in 1 .. n + 1 : r[j] = u
      BY <1>3, <2>1 DEF Linked
    <3>2. CASE j < i
      BY <1>1, <1>2, <3>1, <3>2 DEF Linked
    <3>3. CASE j > i
      <4>1. j - 1 \in 1 .. n /\ s[j - 1] = u
        BY <1>1, <1>2, <3>1, <3>3
      <4> QED BY <1>1, <4>1 DEF Linked
    <3>4. CASE j = i
      BY <1>2, <3>1, <3>4
    <3> QED BY <1>1, <3>2, <3>3, <3>4
  <2>2. ASSUME Linked(s, u) PROVE Linked(r, u)
    <3>1. PICK j \in 1 .. n : s[j] = u
      BY <1>1, <2>2 DEF Linked
    <3>2. CASE j < i
      BY <1>1, <1>2, <1>3, <3>1, <3>2 DEF Linked
    <3>3. CASE j >= i
      <4>1. j + 1 \in 1 .. n + 1 /\ r[j + 1] = u
        BY <1>1, <1>2, <3>1, <3>3
      <4> QED BY <1>3, <4>1 DEF Linked
    <3> QED BY <1>1, <3>2, <3>3
  <2>3. Linked(r, t)
    BY <1>1, <1>2, <1>3 DEF Linked
  <2> QED BY <2>1, <2>2, <2>3
<1>5. ASSUME NoRepeat(s), ~Linked(s, t) PROVE NoRepeat(r)
  <2>1. SUFFICES ASSUME NEW x \in 1 .. n + 1, NEW y \in 1 .. n + 1, r[x] = r[y]
                 PROVE  x = y
    BY <1>3 DEF NoRepeat
  <2> DEFINE down(j) == IF j < i THEN j ELSE j - 1
  <2>2. ASSUME NEW j \in 1 .. n + 1, j # i
        PROVE  down(j) \in 1 .. n /\ r[j] = s[down(j)] /\ r[j] # t
    <3>1. down(j) \in 1 .. n /\ r[j] = s[down(j)]
      BY <1>1, <1>2, <2>2
    <3> QED BY <1>1, <1>5, <3>1 DEF Linked
  <2>3. r[i] = t
    BY <1>1, <1>2
  <2>4. CASE x = i \/ y = i
    BY <2>1, <2>2, <2>3, <2>4
  <2>5. CASE x # i /\ y # i
    <3>1. down(x) \in 1 .. n /\ down(y) \in 1 .. n /\ s[down(x)] = s[down(y)]
      BY <2>1, <2>2, <2>5
    <3>2. down(x) = down(y)
      BY <1>1, <1>5, <3>1 DEF NoRepeat
    <3> QED BY <1>1, <2>5, <3>2
  <2> QED BY <2>4, <2>5
<1> QED BY <1>2, <1>4, <1>5 DEF r

LEMMA InsertLinked ==
    ASSUME NEW s \in Seq(Tasks), NEW i \in 1 .. Len(s) + 1, NEW t \in Tasks
    PROVE  /\ InsertAt(s, i, t) \in Seq(Tasks)
           /\ \A u : Linked(InsertAt(s, i, t), u) <=> Linked(s, u) \/ u = t
           /\ NoRepeat(s) /\ ~Linked(s, t) => NoRepeat(InsertAt(s, i, t))
BY InsertLinkedIn

\* task_wait_insert_priority always finds a place.
LEMMA WaitPositionFound ==
    ASSUME NEW s \in Seq(Tasks), NEW prio \in [Tasks -> Priorities], NEW t \in Tasks
    PROVE  LET i == WaitPosition(s, prio, t)
           IN  /\ i \in 1 .. Len(s) + 1
               /\ \A j \in 1 .. i - 1 : prio[t] <= prio[s[j]]
               /\ i <= Len(s) => prio[t] > prio[s[i]]
<1> DEFINE B == {i \in 1 .. Len(s) : prio[t] > prio[s[i]]}
<1>1. /\ Len(s) \in Nat /\ prio[t] \in Int
      /\ \A i \in 1 .. Len(s) : s[i] \in Tasks /\ prio[s[i]] \in Int
  BY LenProperties, ElementOfSeq, KernelAssumption DEF Priorities
<1> HIDE DEF B
<1>2. PICK i \in 1 .. Len(s) + 1 : /\ \A j \in 1 .. i - 1 : j \notin B
                                   /\ i <= Len(s) => i \in B
  BY <1>1, FirstIn
<1>3. /\ \A j \in 1 .. i - 1 : prio[t] <= prio[s[j]]
      /\ i <= Len(s) => prio[t] > prio[s[i]]
  <2>1. ASSUME NEW j \in 1 .. i - 1 PROVE prio[t] <= prio[s[j]]
    <3>1. j \in 1 .. Len(s) /\ j \notin B
      BY <1>1, <1>2
    <3> QED BY <1>1, <3>1 DEF B
  <2> QED BY <1>2, <2>1 DEF B
<1> QED BY <1>3 DEF WaitPosition

LEMMA WaitInsertLinked ==
    ASSUME NEW s \in Seq(Tasks), NEW prio \in [Tasks -> Priorities], NEW t \in Tasks
    PROVE  /\ WaitInsert(s, prio, t) \in Seq(Tasks)
           /\ \A u : Linked(WaitInsert(s, prio, t), u) <=> Linked(s, u) \/ u = t
           /\ NoRepeat(s) /\ ~Linked(s, t) => NoRepeat(WaitInsert(s, prio, t))
BY WaitPositionFound, InsertLinked DEF WaitInsert

\* timeout_insert always finds a place.
LEMMA TimeoutPositionFoundIn ==
    ASSUME NEW D, NEW s \in Seq(D), NEW wake, NEW t \in D
    PROVE  LET i == TimeoutPosition(s, wake, t)
           IN  /\ i \in 1 .. Len(s) + 1
               /\ \A j \in 1 .. i - 1 : TickReached(wake[t], wake[s[j]])
               /\ i <= Len(s) => ~TickReached(wake[t], wake[s[i]])
<1> DEFINE B == {i \in 1 .. Len(s) : ~TickReached(wake[t], wake[s[i]])}
<1>1. Len(s) \in Nat
  BY LenProperties
<1> HIDE DEF B
<1>2. PICK i \in 1 .. Len(s) + 1 : /\ \A j \in 1 .. i - 1 : j \notin B
                                   /\ i <= Len(s) => i \in B
  BY <1>1, FirstIn
<1>3. /\ \A j \in 1 .. i - 1 : TickReached(wake[t], wake[s[j]])
      /\ i <= Len(s) => ~TickReached(wake[t], wake[s[i]])
  <2>1. ASSUME NEW j \in 1 .. i - 1 PROVE TickReached(wake[t], wake[s[j]])
    <3>1. j \in 1 .. Len(s) /\ j \notin B
      BY <1>1, <1>2
    <3> QED BY <3>1 DEF B
  <2> QED BY <1>2, <2>1 DEF B
<1> QED BY <1>3 DEF TimeoutPosition

LEMMA TimeoutPositionFound ==
    ASSUME NEW s \in Seq(Tasks), NEW wake, NEW t \in Tasks
    PROVE  LET i == TimeoutPosition(s, wake, t)
           IN  /\ i \in 1 .. Len(s) + 1
               /\ \A j \in 1 .. i - 1 : TickReached(wake[t], wake[s[j]])
               /\ i <= Len(s) => ~TickReached(wake[t], wake[s[i]])
BY TimeoutPositionFoundIn

LEMMA TimeoutInsertLinkedIn ==
    ASSUME NEW D, NEW s \in Seq(D), NEW wake, NEW t \in D
    PROVE  /\ TimeoutInsert(s, wake, t) \in Seq(D)
           /\ \A u : Linked(TimeoutInsert(s, wake, t), u) <=> Linked(s, u) \/ u = t
           /\ NoRepeat(s) /\ ~Linked(s, t) => NoRepeat(TimeoutInsert(s, wake, t))
BY TimeoutPositionFoundIn, InsertLinkedIn DEF TimeoutInsert

LEMMA TimeoutInsertLinked ==
    ASSUME NEW s \in Seq(Tasks), NEW wake, NEW t \in Tasks
    PROVE  /\ TimeoutInsert(s, wake, t) \in Seq(Tasks)
           /\ \A u : Linked(TimeoutInsert(s, wake, t), u) <=> Linked(s, u) \/ u = t
           /\ NoRepeat(s) /\ ~Linked(s, t) => NoRepeat(TimeoutInsert(s, wake, t))
BY TimeoutInsertLinkedIn

-----------------------------------------------------------------------------
(* The order of a list.                                                    *)

\* Of the tasks on s, one with a smaller f comes first.
Ascending(s, f) == \A i, j \in DOMAIN s : i < j => f[s[i]] <= f[s[j]]

\* a comes before b on s.
Ahead(s, a, b) == \E i, j \in DOMAIN s : i < j /\ s[i] = a /\ s[j] = b

\* Every node of the list without t is a node of the list, in the same order.
LEMMA ListDelOrderIn ==
    ASSUME NEW D, NEW s \in Seq(D), NEW t
    PROVE  \A i, j \in DOMAIN ListDel(s, t) : i < j =>
              \E x, y \in DOMAIN s : /\ x < y
                                     /\ ListDel(s, t)[i] = s[x]
                                     /\ ListDel(s, t)[j] = s[y]
<1>1. CASE ~Linked(s, t)
  BY <1>1 DEF ListDel
<1>2. CASE Linked(s, t)
  <2> DEFINE c == CHOOSE c \in DOMAIN s : s[c] = t
             r == RemoveAt(s, c)
             n == Len(s)
  <2>1. n \in Nat /\ DOMAIN s = 1 .. n
    BY LenProperties
  <2>2. c \in 1 .. n
    BY <1>2, <2>1 DEF Linked
  <2>3. ListDel(s, t) = r
    BY <1>2 DEF ListDel
  <2> HIDE DEF c
  <2>4. /\ r \in Seq(D) /\ Len(r) = n - 1
        /\ \A j \in 1 .. n - 1 : r[j] = IF j < c THEN s[j] ELSE s[j + 1]
    BY <2>2, RemoveAtPlaces
  <2>5. DOMAIN r = 1 .. n - 1
    BY <2>4, LenProperties
  <2> HIDE DEF r, n
  <2> DEFINE up(j) == IF j < c THEN j ELSE j + 1
  <2>6. \A j \in 1 .. n - 1 : up(j) \in 1 .. n /\ r[j] = s[up(j)]
    BY <2>1, <2>2, <2>4
  <2>7. \A i, j \in 1 .. n - 1 : i < j => up(i) < up(j)
    BY <2>1, <2>2
  <2> QED BY <2>1, <2>3, <2>5, <2>6, <2>7
<1> QED BY <1>1, <1>2

LEMMA AscendingDelIn ==
    ASSUME NEW D, NEW s \in Seq(D), NEW t, NEW f, Ascending(s, f)
    PROVE  Ascending(ListDel(s, t), f)
BY ListDelOrderIn DEF Ascending

LEMMA AscendingDel ==
    ASSUME NEW s \in Seq(Tasks), NEW t, NEW f, Ascending(s, f)
    PROVE  Ascending(ListDel(s, t), f)
BY AscendingDelIn

\* aixos_list_del keeps the order of the other nodes.
LEMMA AheadDel ==
    ASSUME NEW s \in Seq(Tasks), NEW t, NEW a, NEW b, a # t, b # t, Ahead(s, a, b)
    PROVE  Ahead(ListDel(s, t), a, b)
<1>1. CASE ~Linked(s, t)
  BY <1>1 DEF ListDel
<1>2. CASE Linked(s, t)
  <2> DEFINE c == CHOOSE c \in DOMAIN s : s[c] = t
             r == RemoveAt(s, c)
             n == Len(s)
  <2>1. n \in Nat /\ DOMAIN s = 1 .. n
    BY LenProperties
  <2>2. c \in 1 .. n /\ s[c] = t
    BY <1>2, <2>1 DEF Linked
  <2>3. ListDel(s, t) = r
    BY <1>2 DEF ListDel
  <2> HIDE DEF c
  <2>4. /\ r \in Seq(Tasks) /\ Len(r) = n - 1
        /\ \A j \in 1 .. n - 1 : r[j] = IF j < c THEN s[j] ELSE s[j + 1]
    BY <2>2, RemoveAtPlaces
  <2>5. DOMAIN r = 1 .. n - 1
    BY <2>4, LenProperties
  <2> HIDE DEF r, n
  <2> DEFINE down(j) == IF j < c THEN j ELSE j - 1
  <2>6. ASSUME NEW j \in 1 .. n, j # c
        PROVE  down(j) \in 1 .. n - 1 /\ r[down(j)] = s[j]
    <3>1. CASE j < c
      BY <2>1, <2>2, <2>4, <3>1
    <3>2. CASE j > c
      <4>1. j - 1 \in 1 .. n - 1 /\ ~(j - 1 < c) /\ (j - 1) + 1 = j
        BY <2>1, <2>2, <3>2
      <4> QED BY <2>1, <2>2, <2>4, <3>2, <4>1
    <3> QED BY <2>1, <2>2, <2>6, <3>1, <3>2
  <2>7. PICK i, j \in 1 .. n : i < j /\ s[i] = a /\ s[j] = b
    BY <2>1 DEF Ahead
  <2>8. i # c /\ j # c
    BY <2>2, <2>7
  <2>9. down(i) < down(j)
    BY <2>1, <2>2, <2>7, <2>8
  <2> QED BY <2>3, <2>5, <2>6, <2>7, <2>8, <2>9 DEF Ahead
<1> QED BY <1>1, <1>2

LEMMA AheadAppend ==
    ASSUME NEW s \in Seq(Tasks), NEW t \in Tasks, NEW a, NEW b, Ahead(s, a, b)
    PROVE  Ahead(Append(s, t), a, b)
<1>1. Len(s) \in Nat /\ DOMAIN s = 1 .. Len(s)
  BY LenProperties
<1>2. /\ Append(s, t) \in Seq(Tasks) /\ Len(Append(s, t)) = Len(s) + 1
      /\ \A i \in 1 .. Len(s) : Append(s, t)[i] = s[i]
  BY AppendProperties
<1>3. DOMAIN Append(s, t) = 1 .. Len(s) + 1
  BY <1>2, LenProperties
<1> QED BY <1>1, <1>2, <1>3 DEF Ahead

\* A node goes in behind the last one that it must not pass.
LEMMA AscendingInsertIn ==
    ASSUME NEW D, NEW s \in Seq(D), NEW f \in [D -> Int], NEW t \in D,
           NEW i \in 1 .. Len(s) + 1, Ascending(s, f),
           \A j \in 1 .. i - 1 : f[s[j]] <= f[t],
           i <= Len(s) => f[t] <= f[s[i]]
    PROVE  Ascending(InsertAt(s, i, t), f)
<1> DEFINE r == InsertAt(s, i, t)
           n == Len(s)
<1>1. Inserted(D, r, s, i, t)
  BY InsertAtPlaces
<1>2. n \in Nat /\ DOMAIN s = 1 .. n /\ i \in 1 .. n + 1
  BY LenProperties
<1>3. /\ r \in Seq(D) /\ Len(r) = n + 1
      /\ \A j \in 1 .. n + 1 :
            r[j] = IF j < i THEN s[j] ELSE IF j = i THEN t ELSE s[j - 1]
  BY <1>1 DEF Inserted
<1>4. DOMAIN r = 1 .. n + 1
  BY <1>3, LenProperties
<1>5. \A j \in 1 .. n : s[j] \in D /\ f[s[j]] \in Int
  BY <1>2, ElementOfSeq
<1>6. f[t] \in Int
  OBVIOUS
<1>7. /\ \A j \in 1 .. i - 1 : f[s[j]] <= f[t]
      /\ i <= n => f[t] <= f[s[i]]
      /\ \A x, y \in 1 .. n : x < y => f[s[x]] <= f[s[y]]
  BY <1>2 DEF Ascending
<1> HIDE DEF r, n
<1>8. \A j \in 1 .. n : j >= i => f[t] <= f[s[j]]
  BY <1>2, <1>5, <1>6, <1>7
<1>9. ASSUME NEW x \in 1 .. n + 1, NEW y \in 1 .. n + 1, x < y
      PROVE  f[r[x]] <= f[r[y]]
  <2>1. CASE y < i
    BY <1>2, <1>3, <1>7, <1>9, <2>1
  <2>2. CASE y = i
    BY <1>2, <1>3, <1>7, <1>9, <2>2
  <2>3. CASE y > i
    <3>1. y - 1 \in 1 .. n /\ r[y] = s[y - 1] /\ y - 1 >= i
      BY <1>2, <1>3, <2>3
    <3>2. CASE x < i
      <4>1. x \in 1 .. n /\ x < y - 1
        BY <1>2, <3>1, <3>2
      <4>2. r[x] = s[x]
        BY <1>3, <3>2
      <4> QED BY <1>7, <3>1, <4>1, <4>2
    <3>3. CASE x = i
      BY <1>2, <1>3, <1>8, <3>1, <3>3
    <3>4. CASE x > i
      <4>1. x - 1 \in 1 .. n /\ x - 1 < y - 1
        BY <1>2, <1>9, <3>4
      <4>2. r[x] = s[x - 1]
        BY <1>2, <1>3, <3>4
      <4> QED BY <1>7, <3>1, <4>1, <4>2
    <3> QED BY <1>2, <3>2, <3>3, <3>4
  <2> QED BY <1>2, <2>1, <2>2, <2>3
<1> QED BY <1>4, <1>9 DEF Ascending, r

LEMMA AscendingInsert ==
    ASSUME NEW s \in Seq(Tasks), NEW f \in [Tasks -> Int], NEW t \in Tasks,
           NEW i \in 1 .. Len(s) + 1, Ascending(s, f),
           \A j \in 1 .. i - 1 : f[s[j]] <= f[t],
           i <= Len(s) => f[t] <= f[s[i]]
    PROVE  Ascending(InsertAt(s, i, t), f)
BY AscendingInsertIn

\* task_wait_insert_priority finds a place and keeps the order: -prio ascends.
LEMMA WaitInsertAscending ==
    ASSUME NEW s \in Seq(Tasks), NEW prio \in [Tasks -> Priorities], NEW t \in Tasks,
           Ascending(s, [u \in Tasks |-> -prio[u]])
    PROVE  Ascending(WaitInsert(s, prio, t), [u \in Tasks |-> -prio[u]])
<1> DEFINE i == WaitPosition(s, prio, t)
           f == [u \in Tasks |-> -prio[u]]
<1>1. /\ Len(s) \in Nat /\ prio[t] \in Int
      /\ \A j \in 1 .. Len(s) : s[j] \in Tasks /\ prio[s[j]] \in Int
      /\ \A u \in Tasks : prio[u] \in Int
  BY LenProperties, ElementOfSeq, KernelAssumption DEF Priorities
<1>2. /\ i \in 1 .. Len(s) + 1
      /\ \A j \in 1 .. i - 1 : prio[t] <= prio[s[j]]
      /\ i <= Len(s) => prio[t] > prio[s[i]]
  BY WaitPositionFound
<1> HIDE DEF i
<1>3. f \in [Tasks -> Int] /\ \A u \in Tasks : f[u] = -prio[u]
  BY <1>1
<1> HIDE DEF f
<1>4. \A j \in 1 .. i - 1 : f[s[j]] <= f[t]
  <2> TAKE j \in 1 .. i - 1
  <2>1. j \in 1 .. Len(s)
    BY <1>1, <1>2
  <2> QED BY <1>1, <1>2, <1>3, <2>1
<1>5. i <= Len(s) => f[t] <= f[s[i]]
  BY <1>1, <1>2, <1>3
<1>6. Ascending(s, f)
  BY DEF f
<1>7. Ascending(InsertAt(s, i, t), f)
  BY <1>2, <1>3, <1>4, <1>5, <1>6, AscendingInsert
<1> QED BY <1>7 DEF WaitInsert, i, f

-----------------------------------------------------------------------------
(* The ready queues.                                                       *)

\* The tasks on the ready queues are those of S, each once and on the queue of
\* its priority, and the bitmap says which queues are not empty.
Queues(k, S) ==
    /\ \A p \in Priorities : NoRepeat(k.ready[p])
    /\ \A t \in Tasks, p \in Priorities :
          Linked(k.ready[p], t) <=> t \in S /\ k.prio[t] = p
    /\ k.bitmap = {p \in Priorities : k.ready[p] # <<>>}

\* kk differs from k in the ready queues and their bitmap only.
QueuesChanged(k, kk) == kk = [k EXCEPT !.ready = kk.ready, !.bitmap = kk.bitmap]

\* kk differs from k in the two flags of a requested switch only.
SwitchChanged(k, kk) == kk = [k EXCEPT !.pending = kk.pending, !.pendsv = kk.pendsv]

\* Queues depends on the queues, the bitmap and the priorities of S only.
LEMMA QueuesSame ==
    ASSUME NEW k, NEW kk, NEW S, Queues(k, S),
           kk.ready = k.ready, kk.bitmap = k.bitmap,
           \A t \in S : kk.prio[t] = k.prio[t]
    PROVE  Queues(kk, S)
BY DEF Queues

LEMMA OnReadyQueueIff ==
    ASSUME NEW k \in KernelType, NEW S, Queues(k, S), NEW t \in Tasks
    PROVE  OnReadyQueue(k, t) <=> t \in S
<1>1. k.prio[t] \in Priorities
  BY DEF KernelType
<1> QED BY <1>1 DEF OnReadyQueue, Queues

\* aixos_sched_add_task, for a task that is on no queue
LEMMA SchedAddQueues ==
    ASSUME NEW k \in KernelType, NEW S, Queues(k, S), NEW t \in Tasks, t \notin S
    PROVE  /\ SchedAdd(k, t) \in KernelType
           /\ Queues(SchedAdd(k, t), S \union {t})
           /\ QueuesChanged(k, SchedAdd(k, t))
<1> DEFINE q == k.prio[t]
           kk == SchedAdd(k, t)
           v == [k.ready EXCEPT ![q] = Append(@, t)]
           b == k.bitmap \union {q}
<1>1. q \in Priorities /\ k.ready \in [Priorities -> Seq(Tasks)] /\ k.bitmap \subseteq Priorities
  BY DEF KernelType
<1>2. kk = [k EXCEPT !.ready = v, !.bitmap = b]
  BY DEF KernelType, SchedAdd
<1>3. v \in [Priorities -> Seq(Tasks)]
  BY <1>1, AppendLinked
<1>4. b \in SUBSET Priorities
  BY <1>1
<1>5. \A p \in Priorities : v[p] = IF p = q THEN Append(k.ready[q], t) ELSE k.ready[p]
  BY <1>1
<1> HIDE DEF v, b, q
<1>6. kk \in KernelType /\ kk.ready = v /\ kk.bitmap = b /\ kk.prio = k.prio
  BY <1>2, <1>3, <1>4 DEF KernelType
<1>7. QueuesChanged(k, kk)
  BY <1>2, <1>6 DEF QueuesChanged
<1> HIDE DEF kk
<1>8. ~Linked(k.ready[q], t) /\ k.ready[q] \in Seq(Tasks)
  BY <1>1 DEF Queues
<1>9. \A p \in Priorities : NoRepeat(v[p])
  BY <1>1, <1>5, <1>8, AppendLinked DEF Queues
<1>10. ASSUME NEW u \in Tasks, NEW p \in Priorities
       PROVE  Linked(v[p], u) <=> u \in S \union {t} /\ k.prio[u] = p
  <2>1. CASE p = q
    <3>1. Linked(v[p], u) <=> Linked(k.ready[q], u) \/ u = t
      BY <1>5, <1>8, <2>1, AppendLinked
    <3>2. Linked(k.ready[q], u) <=> u \in S /\ k.prio[u] = q
      BY <1>1 DEF Queues
    <3> QED BY <2>1, <3>1, <3>2 DEF q
  <2>2. CASE p # q
    <3>1. v[p] = k.ready[p]
      BY <1>5, <2>2
    <3>2. Linked(k.ready[p], u) <=> u \in S /\ k.prio[u] = p
      BY DEF Queues
    <3> QED BY <2>2, <3>1, <3>2 DEF q
  <2> QED BY <2>1, <2>2
<1>11. b = {p \in Priorities : v[p] # <<>>}
  <2>1. v[q] # <<>>
    BY <1>1, <1>5, <1>8, AppendLinked
  <2>2. \A p \in Priorities : p # q => v[p] = k.ready[p]
    BY <1>5
  <2>3. k.bitmap = {p \in Priorities : k.ready[p] # <<>>}
    BY DEF Queues
  <2> QED BY <1>1, <2>1, <2>2, <2>3 DEF b
<1>12. Queues(kk, S \union {t})
  BY <1>6, <1>9, <1>10, <1>11 DEF Queues
<1> QED BY <1>6, <1>7, <1>12 DEF kk

\* The body of aixos_sched_remove_task and of aixos_sched_requeue_task: t was
\* on the queue of the priority it had in k, and may have another one in kk.
LEMMA DequeueQueues ==
    ASSUME NEW k \in KernelType, NEW kk \in KernelType, NEW S, Queues(k, S),
           NEW t \in Tasks, kk.ready = k.ready, kk.bitmap = k.bitmap,
           \A u \in Tasks \ {t} : kk.prio[u] = k.prio[u]
    PROVE  /\ Dequeue(kk, t, k.prio[t]) \in KernelType
           /\ Queues(Dequeue(kk, t, k.prio[t]), S \ {t})
           /\ QueuesChanged(kk, Dequeue(kk, t, k.prio[t]))
<1> DEFINE q == k.prio[t]
           r == Dequeue(kk, t, q)
           v == [p \in Priorities |-> ListDel(k.ready[p], t)]
           b == IF v[q] = <<>> THEN k.bitmap \ {q} ELSE k.bitmap
<1>1. q \in Priorities /\ k.ready \in [Priorities -> Seq(Tasks)] /\ k.bitmap \subseteq Priorities
  BY DEF KernelType
<1>2. r = [kk EXCEPT !.ready = v, !.bitmap = b]
  BY DEF Dequeue
<1>3. v \in [Priorities -> Seq(Tasks)]
  BY <1>1, ListDelLinked
<1>4. b \in SUBSET Priorities
  BY <1>1
<1>5. \A p \in Priorities : v[p] = ListDel(k.ready[p], t)
  OBVIOUS
<1> HIDE DEF v
<1>6. r \in KernelType /\ r.ready = v /\ r.bitmap = b /\ r.prio = kk.prio
  <2> HIDE DEF b, r
  <2>1. r.ready = v /\ r.bitmap = b /\ r.prio = kk.prio
    BY <1>2 DEF KernelType
  <2>2. r \in KernelType
    BY <1>2, <1>3, <1>4 DEF KernelType
  <2> QED BY <2>1, <2>2
<1> HIDE DEF q
<1>7. QueuesChanged(kk, r)
  BY <1>2, <1>6 DEF QueuesChanged
<1> HIDE DEF r
<1>8. \A p \in Priorities : NoRepeat(v[p])
  BY <1>1, <1>5, ListDelLinked DEF Queues
<1>9. \A p \in Priorities : \A u :
        Linked(v[p], u) <=> Linked(k.ready[p], u) /\ u # t
  BY <1>1, <1>5, ListDelLinked DEF Queues
<1>10. \A u \in Tasks, p \in Priorities :
          Linked(v[p], u) <=> u \in S \ {t} /\ kk.prio[u] = p
  BY <1>9 DEF Queues
<1>11. \A p \in Priorities : p # q => v[p] = k.ready[p]
  BY <1>1, <1>5, ListDelLinked DEF Queues, q
<1>12. k.ready[q] = <<>> => v[q] = <<>>
  BY <1>1, <1>5, FirstLinked, ListDelLinked
<1>13. b = {p \in Priorities : v[p] # <<>>}
  BY <1>1, <1>11, <1>12 DEF Queues
<1>14. Queues(r, S \ {t})
  BY <1>6, <1>8, <1>10, <1>13 DEF Queues
<1> QED BY <1>6, <1>7, <1>14 DEF r, q

\* aixos_sched_remove_task
LEMMA SchedRemoveQueues ==
    ASSUME NEW k \in KernelType, NEW S, Queues(k, S), NEW t \in Tasks
    PROVE  /\ SchedRemove(k, t) \in KernelType
           /\ Queues(SchedRemove(k, t), S \ {t})
           /\ QueuesChanged(k, SchedRemove(k, t))
<1>1. CASE t \in S
  BY <1>1, OnReadyQueueIff, DequeueQueues DEF SchedRemove
<1>2. CASE t \notin S
  <2>1. SchedRemove(k, t) = k /\ S \ {t} = S
    BY <1>2, OnReadyQueueIff DEF SchedRemove
  <2>2. QueuesChanged(k, k)
    BY DEF QueuesChanged, KernelType
  <2> QED BY <2>1, <2>2
<1> QED BY <1>1, <1>2

\* aixos_sched_requeue_task, after the priority has been changed
LEMMA SchedRequeueQueues ==
    ASSUME NEW k \in KernelType, NEW S, Queues(k, S), NEW t \in Tasks,
           NEW p \in Priorities
    PROVE  LET kk == [k EXCEPT !.prio[t] = p]
               r == SchedRequeue(kk, t, k.prio[t])
           IN  /\ r \in KernelType
               /\ Queues(r, S)
               /\ QueuesChanged(kk, r)
<1> DEFINE kk == [k EXCEPT !.prio[t] = p]
           d == Dequeue(kk, t, k.prio[t])
           r == SchedRequeue(kk, t, k.prio[t])
<1>1. /\ kk \in KernelType /\ kk.ready = k.ready /\ kk.bitmap = k.bitmap
      /\ \A u \in Tasks \ {t} : kk.prio[u] = k.prio[u]
  BY DEF KernelType
<1>2. OnReadyQueue(kk, t) <=> t \in S
  BY <1>1, OnReadyQueueIff DEF OnReadyQueue
<1> HIDE DEF kk
<1>3. CASE t \in S
  <2>1. d \in KernelType /\ Queues(d, S \ {t}) /\ QueuesChanged(kk, d)
    BY <1>1, DequeueQueues
  <2> HIDE DEF d
  <2>2. /\ SchedAdd(d, t) \in KernelType
        /\ Queues(SchedAdd(d, t), (S \ {t}) \union {t})
        /\ QueuesChanged(d, SchedAdd(d, t))
    BY <2>1, SchedAddQueues
  <2>3. r = SchedAdd(d, t) /\ (S \ {t}) \union {t} = S
    BY <1>2, <1>3 DEF SchedRequeue, d
  <2> HIDE DEF r
  <2>4. QueuesChanged(kk, r)
    BY <1>1, <2>1, <2>2, <2>3 DEF QueuesChanged, KernelType
  <2> QED BY <2>2, <2>3, <2>4 DEF kk, r
<1>4. CASE t \notin S
  <2>1. r = kk
    BY <1>2, <1>4 DEF SchedRequeue
  <2>2. Queues(kk, S)
    BY <1>1, <1>4, QueuesSame DEF Queues
  <2>3. QueuesChanged(kk, kk)
    BY <1>1 DEF QueuesChanged, KernelType
  <2> QED BY <1>1, <2>1, <2>2, <2>3 DEF kk
<1> QED BY <1>3, <1>4

\* aixos_sched_rotate_current
LEMMA RotateCurrentQueues ==
    ASSUME NEW k \in KernelType, NEW S, Queues(k, S)
    PROVE  /\ RotateCurrent(k) \in KernelType
           /\ Queues(RotateCurrent(k), S)
           /\ QueuesChanged(k, RotateCurrent(k))
<1> DEFINE t == k.cur
           q == k.prio[t]
           l == k.ready[q]
           w == Append(ListDel(l, t), t)
           v == [k.ready EXCEPT ![q] = w]
           r == RotateCurrent(k)
<1>1. CASE OnReadyQueue(k, t) /\ Len(l) > 1
  <2>1. k.ready \in [Priorities -> Seq(Tasks)]
    BY DEF KernelType
  <2>2. t \in Tasks
    BY <1>1, <2>1, FirstLinked DEF OnReadyQueue
  <2>3. q \in Priorities /\ l \in Seq(Tasks) /\ NoRepeat(l) /\ Linked(l, t)
    <3>1. q \in Priorities
      BY <2>2 DEF KernelType
    <3>2. t \in S
      BY <1>1, <2>2, OnReadyQueueIff
    <3> QED BY <2>1, <2>2, <3>1, <3>2 DEF Queues
  <2>4. r = [k EXCEPT !.ready = v]
    BY <1>1 DEF RotateCurrent, KernelType
  <2>5. /\ ListDel(l, t) \in Seq(Tasks) /\ NoRepeat(ListDel(l, t))
        /\ \A u : Linked(ListDel(l, t), u) <=> Linked(l, u) /\ u # t
    BY <2>3, ListDelLinked
  <2>6. /\ w \in Seq(Tasks) /\ w # <<>> /\ NoRepeat(w)
        /\ \A u : Linked(w, u) <=> Linked(l, u)
    BY <2>2, <2>3, <2>5, AppendLinked
  <2>7. l # <<>>
    BY <2>3, FirstLinked
  <2> HIDE DEF w
  <2>8. v \in [Priorities -> Seq(Tasks)]
        /\ \A p \in Priorities : v[p] = IF p = q THEN w ELSE k.ready[p]
    BY <2>1, <2>6
  <2> HIDE DEF v
  <2>9. r \in KernelType /\ r.ready = v /\ r.bitmap = k.bitmap /\ r.prio = k.prio
    BY <2>4, <2>8 DEF KernelType
  <2>10. QueuesChanged(k, r)
    BY <2>4, <2>9 DEF QueuesChanged, KernelType
  <2> HIDE DEF r
  <2>11. Queues(r, S)
    <3>1. \A p \in Priorities : NoRepeat(v[p])
      BY <2>6, <2>8 DEF Queues
    <3>2. \A p \in Priorities, u \in Tasks : Linked(v[p], u) <=> Linked(k.ready[p], u)
      BY <2>6, <2>8
    <3>3. \A p \in Priorities : v[p] = <<>> <=> k.ready[p] = <<>>
      BY <2>6, <2>7, <2>8
    <3> QED BY <2>9, <3>1, <3>2, <3>3 DEF Queues
  <2> QED BY <2>9, <2>10, <2>11 DEF r
<1>2. CASE ~(OnReadyQueue(k, t) /\ Len(l) > 1)
  <2>1. r = k
    BY <1>2 DEF RotateCurrent
  <2>2. QueuesChanged(k, k)
    BY DEF QueuesChanged, KernelType
  <2> QED BY <2>1, <2>2
<1> QED BY <1>1, <1>2

\* sched_find_highest returns a task on the queues that none there outranks.
LEMMA HighestReadyIsHighest ==
    ASSUME NEW k \in KernelType, NEW S \in SUBSET Tasks, Queues(k, S), S # {}
    PROVE  /\ HighestReady(k) \in S
           /\ \A u \in S : k.prio[u] <= k.prio[HighestReady(k)]
<1> DEFINE p == CHOOSE p \in k.bitmap : \A q \in k.bitmap : q <= p
<1>1. k.prio \in [Tasks -> Priorities] /\ k.ready \in [Priorities -> Seq(Tasks)]
      /\ k.bitmap \in SUBSET Priorities
  BY DEF KernelType
<1>2. \A u \in S : k.prio[u] \in k.bitmap
  BY <1>1, FirstLinked DEF Queues
<1>3. k.bitmap # {}
  BY <1>2
<1>4. p \in k.bitmap /\ \A q \in k.bitmap : q <= p
  BY <1>1, <1>3, GreatestPriority
<1>5. HighestReady(k) = Head(k.ready[p])
  BY <1>3 DEF HighestReady
<1> HIDE DEF p
<1>6. k.ready[p] # <<>> /\ p \in Priorities
  BY <1>1, <1>4 DEF Queues
<1>7. Head(k.ready[p]) \in Tasks /\ Linked(k.ready[p], Head(k.ready[p]))
  BY <1>1, <1>6, FirstLinked
<1>8. HighestReady(k) \in S /\ k.prio[HighestReady(k)] = p
  BY <1>5, <1>6, <1>7 DEF Queues
<1> QED BY <1>2, <1>4, <1>8

\* Without a task on the queues sched_find_highest returns NULL.
LEMMA HighestReadyType ==
    ASSUME NEW k \in KernelType, NEW S \in SUBSET Tasks, Queues(k, S)
    PROVE  HighestReady(k) \in Tasks \union {NoTask}
<1>1. CASE S # {}
  BY <1>1, HighestReadyIsHighest
<1>2. CASE S = {}
  <2>1. ASSUME NEW p \in Priorities PROVE k.ready[p] = <<>>
    <3>1. k.ready[p] \in Seq(Tasks)
      BY DEF KernelType
    <3> QED BY <1>2, <3>1, FirstLinked DEF Queues
  <2>2. k.bitmap = {}
    BY <2>1 DEF Queues
  <2> QED BY <2>2 DEF HighestReady
<1> QED BY <1>1, <1>2

\* aixos_schedule changes states and the current task, not the queues.
LEMMA ScheduleType ==
    ASSUME NEW k \in KernelType, NEW S \in SUBSET Tasks, Queues(k, S)
    PROVE  /\ Schedule(k) \in KernelType
           /\ Queues(Schedule(k), S)
           /\ Schedule(k) = [k EXCEPT !.state = Schedule(k).state, !.cur = HighestReady(k)]
           /\ \A t \in Tasks : Schedule(k).state[t] =
                 IF t = HighestReady(k) THEN "RUNNING"
                 ELSE IF t = k.cur /\ k.state[t] = "RUNNING" THEN "READY" ELSE k.state[t]
<1> DEFINE h == HighestReady(k)
           s == [t \in Tasks |->
                    IF t = k.cur /\ k.state[t] = "RUNNING" THEN "READY" ELSE k.state[t]]
           ss == [s EXCEPT ![h] = "RUNNING"]
           r == Schedule(k)
<1>1. r = [k EXCEPT !.state = ss, !.cur = h]
  BY DEF Schedule
<1>2. h \in Tasks \union {NoTask}
  BY HighestReadyType
<1>3. k.state \in [Tasks -> TaskStates]
  BY DEF KernelType
<1>4. s \in [Tasks -> TaskStates]
  BY <1>3 DEF TaskStates
<1> HIDE DEF s, h
<1>5. ss \in [Tasks -> TaskStates]
      /\ \A t \in Tasks : ss[t] = IF t = h THEN "RUNNING" ELSE s[t]
  BY <1>4 DEF TaskStates
<1> HIDE DEF ss
<1>6. /\ r \in KernelType /\ r.state = ss /\ r.cur = h
      /\ r.ready = k.ready /\ r.bitmap = k.bitmap /\ r.prio = k.prio
  <2> HIDE DEF r
  <2>1. /\ r.state = ss /\ r.cur = h
        /\ r.ready = k.ready /\ r.bitmap = k.bitmap /\ r.prio = k.prio
    BY <1>1 DEF KernelType
  <2>2. r \in KernelType
    BY <1>1, <1>2, <1>5 DEF KernelType
  <2> QED BY <2>1, <2>2
<1>7. Queues(r, S)
  BY <1>6, QueuesSame
<1>8. \A t \in Tasks : s[t] = IF t = k.cur /\ k.state[t] = "RUNNING"
                              THEN "READY" ELSE k.state[t]
  BY DEF s
<1> QED BY <1>1, <1>5, <1>6, <1>7, <1>8 DEF h

-----------------------------------------------------------------------------
(* Requests for a switch: isr.c and aixos_sched_request_preemption.        *)

LEMMA RescheduleRequestType ==
    ASSUME NEW k \in KernelType
    PROVE  /\ RescheduleRequest(k) \in KernelType
           /\ SwitchChanged(k, RescheduleRequest(k))
BY DEF RescheduleRequest, SwitchChanged, KernelType

LEMMA RequestPreemptionType ==
    ASSUME NEW k \in KernelType
    PROVE  /\ RequestPreemption(k) \in KernelType
           /\ SwitchChanged(k, RequestPreemption(k))
<1>1. SwitchChanged(k, k)
  BY DEF SwitchChanged, KernelType
<1> QED BY <1>1, RescheduleRequestType DEF RequestPreemption

\* aixos_isr_exit changes the nesting level and the two flags.
LEMMA IsrExitType ==
    ASSUME NEW k \in KernelType
    PROVE  LET r == IsrExit(k)
           IN  /\ r \in KernelType
               /\ r = [k EXCEPT !.isr = r.isr, !.pending = r.pending, !.pendsv = r.pendsv]
               /\ r.isr = IF k.isr > 0 THEN k.isr - 1 ELSE 0
<1>1. MaxIsr \in Nat /\ k.isr \in 0 .. MaxIsr
  BY KernelAssumption DEF KernelType
<1>2. CASE k.isr = 1 /\ k.lock = 0 /\ k.pending
  <2>1. IsrExit(k) = [k EXCEPT !.isr = 0, !.pending = FALSE, !.pendsv = TRUE]
    BY <1>2 DEF IsrExit
  <2>2. 0 \in 0 .. MaxIsr
    BY <1>1
  <2> DEFINE r == IsrExit(k)
  <2>3. r \in KernelType /\ r.isr = 0 /\ r.pending = FALSE /\ r.pendsv = TRUE
    BY <2>1, <2>2 DEF KernelType
  <2>4. r = [k EXCEPT !.isr = r.isr, !.pending = r.pending, !.pendsv = r.pendsv]
    BY <2>1, <2>3
  <2>5. 0 = IF k.isr > 0 THEN k.isr - 1 ELSE 0
    BY <1>2
  <2> QED BY <2>3, <2>4, <2>5
<1>3. CASE ~(k.isr = 1 /\ k.lock = 0 /\ k.pending)
  <2> DEFINE i == IF k.isr > 0 THEN k.isr - 1 ELSE 0
  <2>1. i \in 0 .. MaxIsr
    BY <1>1
  <2> HIDE DEF i
  <2>2. IsrExit(k) = [k EXCEPT !.isr = i]
    BY <1>3 DEF IsrExit, i, KernelType
  <2> QED BY <2>1, <2>2 DEF KernelType, i
<1> QED BY <1>2, <1>3

\* aixos_isr_enter, below the bound on nesting
LEMMA IsrEnterType ==
    ASSUME NEW k \in KernelType, k.isr < MaxIsr
    PROVE  /\ IsrEnter(k) \in KernelType
           /\ IsrEnter(k) = [k EXCEPT !.isr = k.isr + 1]
<1>1. k.isr + 1 \in 0 .. MaxIsr
  BY KernelAssumption DEF KernelType
<1> QED BY <1>1 DEF IsrEnter, KernelType

-----------------------------------------------------------------------------
(* Waiting and waking.                                                     *)

\* kk differs from k in what concerns waiting only.
WaitChanged(k, kk) ==
    kk = [k EXCEPT !.waitq = kk.waitq, !.timeouts = kk.timeouts, !.wake = kk.wake,
                   !.waitOn = kk.waitOn, !.result = kk.result]

\* task_detach_wait_locked
LEMMA DetachType ==
    ASSUME NEW k \in KernelType, NEW t \in Tasks, NEW result \in Results
    PROVE  Detach(k, t, result) \in KernelType /\ WaitChanged(k, Detach(k, t, result))
<1> DEFINE q == [w \in WaitLists |-> ListDel(k.waitq[w], t)]
           o == ListDel(k.timeouts, t)
           wake == [k.wake EXCEPT ![t] = 0]
           waitOn == [k.waitOn EXCEPT ![t] = NoList]
           res == [k.result EXCEPT ![t] = result]
           r == Detach(k, t, result)
<1>1. k.waitq \in [WaitLists -> Seq(Tasks)] /\ k.timeouts \in Seq(Tasks)
  BY DEF KernelType
<1>2. q \in [WaitLists -> Seq(Tasks)] /\ o \in Seq(Tasks)
  BY <1>1, ListDelLinked
<1>3. wake \in [Tasks -> Ticks]
  BY ClockAssumption DEF Ticks, KernelType
<1>4. waitOn \in [Tasks -> WaitLists \union {NoList}] /\ res \in [Tasks -> Results]
  BY DEF KernelType
<1>5. r = [k EXCEPT !.waitq = q, !.timeouts = o, !.wake = wake,
                    !.waitOn = waitOn, !.result = res]
  BY DEF Detach, KernelType
<1> HIDE DEF q, o, wake, waitOn, res, r
<1>6. /\ r \in KernelType /\ r.waitq = q /\ r.timeouts = o /\ r.wake = wake
      /\ r.waitOn = waitOn /\ r.result = res
  BY <1>2, <1>3, <1>4, <1>5 DEF KernelType
<1>7. WaitChanged(k, r)
  BY <1>5, <1>6 DEF WaitChanged
<1> QED BY <1>6, <1>7 DEF r

\* kk has the priorities, the current task, the interrupt nesting, the lock
\* and the time of k.
SameTask(k, kk) ==
    /\ kk.prio = k.prio /\ kk.slice = k.slice /\ kk.cur = k.cur
    /\ kk.isr = k.isr /\ kk.lock = k.lock /\ kk.tick = k.tick

\* The end of every wake: state READY, then aixos_sched_add_task
LEMMA MakeReadyQueues ==
    ASSUME NEW k \in KernelType, NEW S, Queues(k, S), NEW t \in Tasks, t \notin S
    PROVE  LET r == MakeReady(k, t)
           IN  /\ r \in KernelType
               /\ Queues(r, S \union {t})
               /\ r.state = [k.state EXCEPT ![t] = "READY"]
               /\ SameTask(k, r)
<1> DEFINE s == [k EXCEPT !.state[t] = "READY"]
           r == SchedAdd(s, t)
<1>1. /\ s \in KernelType /\ s.state = [k.state EXCEPT ![t] = "READY"]
      /\ s.ready = k.ready /\ s.bitmap = k.bitmap /\ SameTask(k, s)
  BY DEF KernelType, TaskStates, SameTask
<1> HIDE DEF s
<1>2. Queues(s, S)
  BY <1>1, QueuesSame DEF SameTask
<1>3. r \in KernelType /\ Queues(r, S \union {t}) /\ QueuesChanged(s, r)
  BY <1>1, <1>2, SchedAddQueues
<1> HIDE DEF r
<1>4. r.state = s.state /\ SameTask(s, r)
  BY <1>1, <1>3 DEF QueuesChanged, KernelType, SameTask
<1> QED BY <1>1, <1>3, <1>4 DEF MakeReady, r, s, SameTask

\* aixos_task_wake of a task that waits
LEMMA TaskWakeQueues ==
    ASSUME NEW k \in KernelType, NEW S, Queues(k, S), NEW t \in Tasks, t \notin S,
           NEW result \in Results, k.state[t] \in {"BLOCKED", "DELAYED"}
    PROVE  LET r == TaskWake(k, t, result)
           IN  /\ r \in KernelType
               /\ Queues(r, S \union {t})
               /\ r.state = [k.state EXCEPT ![t] = "READY"]
               /\ SameTask(k, r)
<1> DEFINE d == Detach(k, t, result)
           m == MakeReady(d, t)
           r == RequestPreemption(m)
<1>1. d \in KernelType /\ WaitChanged(k, d)
  BY DetachType
<1> HIDE DEF d
<1>2. /\ d.ready = k.ready /\ d.bitmap = k.bitmap /\ d.state = k.state
      /\ SameTask(k, d)
  BY <1>1 DEF WaitChanged, KernelType, SameTask
<1>3. Queues(d, S)
  BY <1>2, QueuesSame DEF SameTask
<1>4. /\ m \in KernelType /\ Queues(m, S \union {t}) /\ SameTask(d, m)
      /\ m.state = [d.state EXCEPT ![t] = "READY"]
  BY <1>1, <1>3, MakeReadyQueues
<1> HIDE DEF m
<1>5. r \in KernelType /\ SwitchChanged(m, r)
  BY <1>4, RequestPreemptionType
<1> HIDE DEF r
<1>6. /\ r.ready = m.ready /\ r.bitmap = m.bitmap /\ r.state = m.state
      /\ SameTask(m, r)
  BY <1>4, <1>5 DEF SwitchChanged, KernelType, SameTask
<1>7. Queues(r, S \union {t})
  BY <1>4, <1>6, QueuesSame DEF SameTask
<1>8. TaskWake(k, t, result) = r
  BY DEF TaskWake, r, m, d
<1> QED BY <1>2, <1>4, <1>5, <1>6, <1>7, <1>8 DEF SameTask

\* The part of aixos_task_block_current before the request for a switch
LEMMA BeginWaitQueues ==
    ASSUME NEW k \in KernelType, NEW S, Queues(k, S), k.cur \in Tasks,
           NEW waitState \in TaskStates, NEW list \in WaitLists \union {NoList},
           NEW timeout \in Nat
    PROVE  LET r == BeginWait(k, waitState, list, timeout)
           IN  /\ r \in KernelType
               /\ Queues(r, S \ {k.cur})
               /\ r.state = [k.state EXCEPT ![k.cur] = waitState]
               /\ SameTask(k, r)
<1> DEFINE t == k.cur
           wakeTick == IF timeout = 0 THEN 0 ELSE TickAfter(k.tick, timeout)
           a == SchedRemove(k, t)
           b == [a EXCEPT !.state[t] = waitState, !.waitOn[t] = list,
                          !.result[t] = "OK", !.wake[t] = wakeTick]
           c == IF list = NoList THEN b
                ELSE [b EXCEPT !.waitq[list] = WaitInsert(@, k.prio, t)]
           d == IF timeout = 0 THEN c
                ELSE [c EXCEPT !.timeouts = TimeoutInsert(@, c.wake, t)]
<1>1. a \in KernelType /\ Queues(a, S \ {t}) /\ QueuesChanged(k, a)
  BY SchedRemoveQueues
<1> HIDE DEF a
<1>2. a.state = k.state /\ SameTask(k, a)
  BY <1>1 DEF QueuesChanged, KernelType, SameTask
<1>3. wakeTick \in Ticks
  <2>1. 0 \in Ticks
    BY ClockAssumption DEF Ticks
  <2>2. k.tick \in Ticks
    BY DEF KernelType
  <2> QED BY <2>1, <2>2, TickAfterType
<1> HIDE DEF wakeTick
<1>4. /\ b \in KernelType /\ b.state = [a.state EXCEPT ![t] = waitState]
      /\ b.ready = a.ready /\ b.bitmap = a.bitmap /\ SameTask(a, b)
  BY <1>1, <1>3 DEF KernelType, SameTask, Results
<1> HIDE DEF b
<1>5. /\ c \in KernelType /\ c.state = b.state
      /\ c.ready = b.ready /\ c.bitmap = b.bitmap /\ SameTask(b, c)
  <2>1. CASE list = NoList
    BY <1>4, <2>1 DEF KernelType, SameTask
  <2>2. CASE list \in WaitLists
    <3> DEFINE l == WaitInsert(b.waitq[list], k.prio, t)
               v == [b.waitq EXCEPT ![list] = l]
    <3>1. b.waitq \in [WaitLists -> Seq(Tasks)] /\ k.prio \in [Tasks -> Priorities]
      BY <1>4 DEF KernelType
    <3>2. l \in Seq(Tasks)
      BY <2>2, <3>1, WaitInsertLinked
    <3>3. list # NoList
      BY <2>2, KernelAssumption
    <3> HIDE DEF l
    <3>4. v \in [WaitLists -> Seq(Tasks)]
      BY <3>1, <3>2
    <3>5. c = [b EXCEPT !.waitq = v]
      BY <1>4, <3>3 DEF l, KernelType
    <3> HIDE DEF v
    <3> QED BY <1>4, <3>4, <3>5 DEF KernelType, SameTask
  <2> QED BY <2>1, <2>2
<1> HIDE DEF c
<1>6. /\ d \in KernelType /\ d.state = c.state
      /\ d.ready = c.ready /\ d.bitmap = c.bitmap /\ SameTask(c, d)
  <2> DEFINE l == TimeoutInsert(c.timeouts, c.wake, t)
  <2>1. c.timeouts \in Seq(Tasks)
    BY <1>5 DEF KernelType
  <2>2. l \in Seq(Tasks)
    BY <2>1, TimeoutInsertLinked
  <2> HIDE DEF l
  <2>3. d = IF timeout = 0 THEN c ELSE [c EXCEPT !.timeouts = l]
    BY DEF l
  <2> HIDE DEF d
  <2> QED BY <1>5, <2>2, <2>3 DEF KernelType, SameTask
<1> HIDE DEF d
<1>7. d.ready = a.ready /\ d.bitmap = a.bitmap /\ SameTask(a, d)
  BY <1>4, <1>5, <1>6 DEF SameTask
<1>8. Queues(d, S \ {t})
  BY <1>1, <1>7, QueuesSame DEF SameTask
<1>9. BeginWait(k, waitState, list, timeout) = d
  BY DEF BeginWait, d, c, b, a, wakeTick
<1> QED BY <1>2, <1>4, <1>5, <1>6, <1>7, <1>8, <1>9 DEF SameTask

\* aixos_task_waiter_priority_changed
LEMMA WaiterPriorityChangedType ==
    ASSUME NEW k \in KernelType, NEW t \in Tasks
    PROVE  LET r == WaiterPriorityChanged(k, t)
           IN  /\ r \in KernelType
               /\ r = [k EXCEPT !.waitq = r.waitq]
<1> DEFINE list == k.waitOn[t]
           l == WaitInsert(ListDel(k.waitq[list], t), k.prio, t)
           v == [k.waitq EXCEPT ![list] = l]
           r == WaiterPriorityChanged(k, t)
<1>1. CASE list # NoList /\ Linked(k.waitq[list], t)
  <2>1. list \in WaitLists /\ k.waitq \in [WaitLists -> Seq(Tasks)]
        /\ k.prio \in [Tasks -> Priorities]
    BY <1>1 DEF KernelType
  <2>2. ListDel(k.waitq[list], t) \in Seq(Tasks)
    BY <2>1, ListDelLinked
  <2>3. l \in Seq(Tasks)
    BY <2>1, <2>2, WaitInsertLinked
  <2>4. r = [k EXCEPT !.waitq = v]
    BY <1>1 DEF WaiterPriorityChanged, KernelType
  <2> HIDE DEF l
  <2>5. v \in [WaitLists -> Seq(Tasks)]
    BY <2>1, <2>3
  <2> HIDE DEF v
  <2> QED BY <2>4, <2>5 DEF KernelType
<1>2. CASE ~(list # NoList /\ Linked(k.waitq[list], t))
  BY <1>2 DEF WaiterPriorityChanged, KernelType
<1> QED BY <1>1, <1>2

-----------------------------------------------------------------------------
(* What the functions leave alone, field by field.                         *)

\* The tasks, their waits and the clock
SameWaits(k, kk) ==
    /\ kk.state = k.state /\ kk.prio = k.prio /\ kk.tick = k.tick
    /\ kk.waitOn = k.waitOn /\ kk.waitq = k.waitq /\ kk.timeouts = k.timeouts
    /\ kk.wake = k.wake /\ kk.result = k.result

\* The task that runs, below how many interrupts and locks
SameRun(k, kk) == kk.cur = k.cur /\ kk.isr = k.isr /\ kk.lock = k.lock

SameFlags(k, kk) == (kk.pending <=> k.pending) /\ (kk.pendsv <=> k.pendsv)

SameQueues(k, kk) == kk.ready = k.ready /\ kk.bitmap = k.bitmap

\* A switch has been asked for: at once, or deferred.
Asked(k, kk) ==
    IF k.isr # 0 \/ k.lock # 0
    THEN kk.pending /\ (kk.pendsv <=> k.pendsv)
    ELSE kk.pendsv /\ (kk.pending <=> k.pending)

LEMMA QueuesChangedSame ==
    ASSUME NEW k \in KernelType, NEW kk, QueuesChanged(k, kk)
    PROVE  SameWaits(k, kk) /\ SameRun(k, kk) /\ SameFlags(k, kk) /\ kk.slice = k.slice
BY DEF QueuesChanged, KernelType, SameWaits, SameRun, SameFlags

LEMMA RescheduleEffect ==
    ASSUME NEW k \in KernelType
    PROVE  LET r == RescheduleRequest(k)
           IN  /\ SameWaits(k, r) /\ SameRun(k, r) /\ SameQueues(k, r)
               /\ Asked(k, r) /\ r.slice = k.slice
BY DEF RescheduleRequest, KernelType, SameWaits, SameRun, SameQueues, Asked

\* aixos_sched_request_preemption asks for a switch unless the current task
\* is one that no task on the queues outranks.
LEMMA PreemptionEffect ==
    ASSUME NEW k \in KernelType, NEW S \in SUBSET Tasks, Queues(k, S)
    PROVE  LET r == RequestPreemption(k)
           IN  /\ SameWaits(k, r) /\ SameRun(k, r) /\ SameQueues(k, r)
               /\ \/ Asked(k, r)
                  \/ SameFlags(k, r) /\ \A t \in S : k.cur = NoTask \/ k.prio[t] <= k.prio[k.cur]
<1> DEFINE h == HighestReady(k)
<1>1. h \in Tasks \union {NoTask} /\ k.cur \in Tasks \union {NoTask}
  BY HighestReadyType DEF KernelType
<1>2. ASSUME NEW t \in S PROVE h \in S /\ k.prio[t] <= k.prio[h]
  BY HighestReadyIsHighest
<1>3. k.prio \in [Tasks -> Priorities]
  BY DEF KernelType
<1>4. Priorities \subseteq Int
  BY KernelAssumption DEF Priorities
<1> HIDE DEF h
<1>5. CASE h \notin {NoTask, k.cur} /\ (k.cur # NoTask => k.prio[h] > k.prio[k.cur])
  <2>1. RequestPreemption(k) = RescheduleRequest(k)
    BY <1>5 DEF RequestPreemption, h
  <2> QED BY <2>1, RescheduleEffect
<1>6. CASE ~(h \notin {NoTask, k.cur} /\ (k.cur # NoTask => k.prio[h] > k.prio[k.cur]))
  <2>1. RequestPreemption(k) = k
    BY <1>6 DEF RequestPreemption, h
  <2>2. ASSUME NEW t \in S, k.cur # NoTask PROVE k.prio[t] <= k.prio[k.cur]
    <3>1. h \in Tasks /\ t \in Tasks /\ k.cur \in Tasks /\ k.prio[t] <= k.prio[h] /\ h # NoTask
      BY <1>1, <1>2, <2>2, KernelAssumption
    <3>2. k.prio[h] <= k.prio[k.cur]
      <4>1. k.prio[h] \in Int /\ k.prio[k.cur] \in Int
        BY <1>3, <1>4, <3>1
      <4> QED BY <1>6, <2>2, <3>1, <4>1
    <3>3. k.prio[h] \in Int /\ k.prio[k.cur] \in Int /\ k.prio[t] \in Int
      BY <1>3, <1>4, <3>1
    <3> QED BY <3>1, <3>2, <3>3
  <2> QED BY <2>1, <2>2 DEF SameWaits, SameRun, SameFlags, SameQueues
<1> QED BY <1>5, <1>6

\* aixos_isr_exit: leaving the last handler, a deferred switch is asked for
\* unless the scheduler is locked.
LEMMA IsrExitEffect ==
    ASSUME NEW k \in KernelType
    PROVE  LET r == IsrExit(k)
           IN  /\ SameWaits(k, r) /\ SameQueues(k, r) /\ r.slice = k.slice
               /\ r.cur = k.cur /\ r.lock = k.lock
               /\ r.isr = IF k.isr > 0 THEN k.isr - 1 ELSE 0
               /\ IF k.isr = 1 /\ k.lock = 0 /\ k.pending
                  THEN r.pendsv /\ ~r.pending
                  ELSE SameFlags(k, r)
<1>1. MaxIsr \in Nat /\ k.isr \in 0 .. MaxIsr
  BY KernelAssumption DEF KernelType
<1>2. CASE k.isr = 1 /\ k.lock = 0 /\ k.pending
  BY <1>2 DEF IsrExit, KernelType, SameWaits, SameQueues
<1>3. CASE ~(k.isr = 1 /\ k.lock = 0 /\ k.pending)
  BY <1>3 DEF IsrExit, KernelType, SameWaits, SameQueues, SameFlags
<1> QED BY <1>2, <1>3

\* The wait of t is over, with that result.
Detached(k, kk, t, result) ==
    /\ kk.waitq = [w \in WaitLists |-> ListDel(k.waitq[w], t)]
    /\ kk.timeouts = ListDel(k.timeouts, t)
    /\ kk.wake = [k.wake EXCEPT ![t] = 0]
    /\ kk.waitOn = [k.waitOn EXCEPT ![t] = NoList]
    /\ kk.result = [k.result EXCEPT ![t] = result]

LEMMA DetachEffect ==
    ASSUME NEW k \in KernelType, NEW t \in Tasks, NEW result \in Results
    PROVE  LET r == Detach(k, t, result)
           IN  /\ r \in KernelType
               /\ Detached(k, r, t, result)
               /\ SameTask(k, r) /\ SameRun(k, r) /\ SameFlags(k, r) /\ SameQueues(k, r)
               /\ r.state = k.state
<1> DEFINE r == Detach(k, t, result)
<1>1. r \in KernelType
  BY DetachType
<1>2. Detached(k, r, t, result)
  BY DEF Detach, Detached, KernelType
<1>3. /\ SameTask(k, r) /\ SameRun(k, r) /\ SameFlags(k, r) /\ SameQueues(k, r)
      /\ r.state = k.state
  BY DEF Detach, KernelType, SameTask, SameRun, SameFlags, SameQueues
<1> QED BY <1>1, <1>2, <1>3

\* What waiting consists of, without the states and the queues
SameWaiting(k, kk) ==
    /\ kk.waitOn = k.waitOn /\ kk.waitq = k.waitq /\ kk.timeouts = k.timeouts
    /\ kk.wake = k.wake /\ kk.result = k.result

LEMMA MakeReadyEffect ==
    ASSUME NEW k \in KernelType, NEW S, Queues(k, S), NEW t \in Tasks, t \notin S
    PROVE  LET r == MakeReady(k, t)
           IN  /\ SameWaiting(k, r) /\ SameTask(k, r) /\ SameFlags(k, r)
               /\ r.state = [k.state EXCEPT ![t] = "READY"]
BY DEF MakeReady, SchedAdd, KernelType, SameWaiting, SameTask, SameFlags

\* aixos_task_wake of a task that waits
LEMMA WakeEffect ==
    ASSUME NEW k \in KernelType, NEW S \in SUBSET Tasks, Queues(k, S), NEW t \in Tasks, t \notin S,
           NEW result \in Results, k.state[t] \in {"BLOCKED", "DELAYED"}
    PROVE  LET r == TaskWake(k, t, result)
           IN  /\ Detached(k, r, t, result) /\ SameTask(k, r)
               /\ r.state = [k.state EXCEPT ![t] = "READY"]
               /\ Queues(r, S \union {t})
               /\ \/ Asked(k, r)
                  \/ /\ SameFlags(k, r)
                     /\ \A u \in S \union {t} : k.cur = NoTask \/ k.prio[u] <= k.prio[k.cur]
<1> DEFINE d == Detach(k, t, result)
           m == MakeReady(d, t)
           r == RequestPreemption(m)
<1>1. /\ d \in KernelType /\ Detached(k, d, t, result) /\ SameTask(k, d)
      /\ SameFlags(k, d) /\ SameQueues(k, d) /\ d.state = k.state
  BY DetachEffect
<1> HIDE DEF d
<1>2. Queues(d, S)
  BY <1>1, QueuesSame DEF SameTask, SameQueues
<1>3. /\ m \in KernelType /\ Queues(m, S \union {t}) /\ SameTask(d, m)
      /\ SameWaiting(d, m) /\ SameFlags(d, m)
      /\ m.state = [d.state EXCEPT ![t] = "READY"]
  BY <1>1, <1>2, MakeReadyQueues, MakeReadyEffect
<1> HIDE DEF m
<1>4. /\ SameWaits(m, r) /\ SameRun(m, r) /\ SameQueues(m, r)
      /\ \/ Asked(m, r)
         \/ /\ SameFlags(m, r)
            /\ \A u \in S \union {t} : m.cur = NoTask \/ m.prio[u] <= m.prio[m.cur]
  <2>1. S \union {t} \in SUBSET Tasks
    OBVIOUS
  <2> QED BY <1>3, <2>1, PreemptionEffect
<1>5. r = TaskWake(k, t, result)
  BY DEF TaskWake, r, m, d
<1>6. r \in KernelType /\ SwitchChanged(m, r)
  BY <1>3, RequestPreemptionType
<1>7. r.slice = m.slice
  BY <1>3, <1>6 DEF SwitchChanged, KernelType
<1> HIDE DEF r
<1>8. Detached(k, r, t, result) /\ SameTask(k, r) /\ r.state = [k.state EXCEPT ![t] = "READY"]
  BY <1>1, <1>3, <1>4, <1>7 DEF Detached, SameTask, SameRun, SameWaits, SameWaiting
<1>9. Queues(r, S \union {t})
  BY <1>3, <1>4, QueuesSame DEF SameWaits, SameQueues
<1>10. \/ Asked(k, r)
       \/ /\ SameFlags(k, r)
          /\ \A u \in S \union {t} : k.cur = NoTask \/ k.prio[u] <= k.prio[k.cur]
  BY <1>1, <1>3, <1>4 DEF Asked, SameFlags, SameTask
<1> QED BY <1>5, <1>8, <1>9, <1>10

\* The current task begins to wait.
Begun(kk, r, waitState, list, d) ==
    LET t == kk.cur
        wake == [kk.wake EXCEPT ![t] = IF d = 0 THEN 0 ELSE TickAfter(kk.tick, d)]
    IN  /\ r.state = [kk.state EXCEPT ![t] = waitState]
        /\ r.waitOn = [kk.waitOn EXCEPT ![t] = list]
        /\ r.result = [kk.result EXCEPT ![t] = "OK"]
        /\ r.wake = wake
        /\ r.waitq = IF list = NoList THEN kk.waitq
                     ELSE [kk.waitq EXCEPT ![list] = WaitInsert(@, kk.prio, t)]
        /\ r.timeouts = IF d = 0 THEN kk.timeouts
                        ELSE TimeoutInsert(kk.timeouts, wake, t)
        /\ r.prio = kk.prio /\ r.tick = kk.tick

\* The part of aixos_task_block_current before the request for a switch
LEMMA BeginWaitEffect ==
    ASSUME NEW k \in KernelType, NEW S, Queues(k, S), k.cur \in Tasks,
           NEW waitState \in TaskStates, NEW list \in WaitLists \union {NoList},
           NEW timeout \in Nat
    PROVE  LET r == BeginWait(k, waitState, list, timeout)
           IN  Begun(k, r, waitState, list, timeout) /\ SameTask(k, r) /\ SameFlags(k, r)
<1> DEFINE t == k.cur
           wakeTick == IF timeout = 0 THEN 0 ELSE TickAfter(k.tick, timeout)
           wake == [k.wake EXCEPT ![t] = wakeTick]
           a == SchedRemove(k, t)
           b == [a EXCEPT !.state[t] = waitState, !.waitOn[t] = list,
                          !.result[t] = "OK", !.wake[t] = wakeTick]
           c == IF list = NoList THEN b
                ELSE [b EXCEPT !.waitq[list] = WaitInsert(@, k.prio, t)]
           d == IF timeout = 0 THEN c
                ELSE [c EXCEPT !.timeouts = TimeoutInsert(@, c.wake, t)]
<1>1. a \in KernelType /\ QueuesChanged(k, a)
  BY SchedRemoveQueues
<1> HIDE DEF a
<1>2. SameWaits(k, a) /\ SameRun(k, a) /\ SameFlags(k, a) /\ a.slice = k.slice
  BY <1>1, QueuesChangedSame
<1>11. wakeTick \in Ticks
  <2>1. 0 \in Ticks
    BY ClockAssumption DEF Ticks
  <2>2. k.tick \in Ticks
    BY DEF KernelType
  <2> QED BY <2>1, <2>2, TickAfterType
<1> HIDE DEF wakeTick
<1>3. /\ b.state = [k.state EXCEPT ![t] = waitState]
      /\ b.waitOn = [k.waitOn EXCEPT ![t] = list]
      /\ b.result = [k.result EXCEPT ![t] = "OK"] /\ b.wake = wake
      /\ b.waitq = k.waitq /\ b.timeouts = k.timeouts
      /\ SameTask(k, b) /\ SameFlags(k, b)
  BY <1>1, <1>2 DEF KernelType, SameWaits, SameRun, SameTask, SameFlags
<1>4. b \in KernelType
  BY <1>1, <1>11 DEF KernelType, Results
<1> HIDE DEF b
<1> DEFINE v == IF list = NoList THEN b.waitq
                ELSE [b.waitq EXCEPT ![list] = WaitInsert(@, k.prio, t)]
           o == IF timeout = 0 THEN c.timeouts ELSE TimeoutInsert(c.timeouts, c.wake, t)
<1>5. c = [b EXCEPT !.waitq = v]
  BY <1>4 DEF KernelType
<1>6. /\ c.state = b.state /\ c.waitOn = b.waitOn /\ c.result = b.result
      /\ c.wake = b.wake /\ c.timeouts = b.timeouts /\ c.waitq = v
      /\ SameTask(b, c) /\ SameFlags(b, c)
  <2> HIDE DEF v, c
  <2> QED BY <1>4, <1>5 DEF KernelType, SameTask, SameFlags
<1>7. d = [c EXCEPT !.timeouts = o]
  <2>1. c = [c EXCEPT !.timeouts = c.timeouts]
    <3> HIDE DEF v, c
    <3> QED BY <1>4, <1>5 DEF KernelType
  <2> QED BY <2>1
<1>8. /\ d.state = c.state /\ d.waitOn = c.waitOn /\ d.result = c.result
      /\ d.wake = c.wake /\ d.timeouts = o /\ d.waitq = c.waitq
      /\ SameTask(c, d) /\ SameFlags(c, d)
  <2> HIDE DEF v, o, c, d
  <2> QED BY <1>4, <1>5, <1>7 DEF KernelType, SameTask, SameFlags
<1> HIDE DEF c, d
<1>9. BeginWait(k, waitState, list, timeout) = d
  BY DEF BeginWait, d, c, b, a, wakeTick
<1>10. SameTask(k, d) /\ SameFlags(k, d)
  BY <1>3, <1>6, <1>8 DEF SameTask, SameFlags
<1>12. Begun(k, d, waitState, list, timeout)
  BY <1>3, <1>6, <1>8, <1>10 DEF wakeTick, Begun, SameTask
<1> QED BY <1>9, <1>10, <1>12

=============================================================================
