---------------------------- MODULE WaitingProofs ----------------------------
(***************************************************************************)
(* What the operators of module Waiting do to the record of the tasks, as  *)
(* the proofs about the objects need it.                                   *)
(***************************************************************************)
EXTENDS Waiting, TLAPS

Results == {"OK", "TIMEOUT", "INTR"}

\* The record w, changed in all its fields.
Updated(ww, t, a, b, c, d) ==
    [ww EXCEPT !.mode[t] = a, !.on[t] = b, !.timed[t] = c, !.result[t] = d]

LEMMA WaitingUpdate ==
    ASSUME NEW ww \in WaitingType, NEW t \in Tasks, NEW a, NEW b, NEW c \in BOOLEAN, NEW d
    PROVE  Updated(ww, t, a, b, c, d) =
           [mode |-> [ww.mode EXCEPT ![t] = a], on |-> [ww.on EXCEPT ![t] = b],
            timed |-> [ww.timed EXCEPT ![t] = c], result |-> [ww.result EXCEPT ![t] = d]]
<1> DEFINE v1 == [ww EXCEPT !.mode[t] = a]
           v2 == [v1 EXCEPT !.on[t] = b]
           v3 == [v2 EXCEPT !.timed[t] = c]
           v4 == [v3 EXCEPT !.result[t] = d]
<1>1. v1 = [mode |-> [ww.mode EXCEPT ![t] = a], on |-> ww.on,
            timed |-> ww.timed, result |-> ww.result]
  BY DEF WaitingType
<1>2. HIDE DEF v1
<1>3. v2 = [mode |-> [ww.mode EXCEPT ![t] = a], on |-> [ww.on EXCEPT ![t] = b],
            timed |-> ww.timed, result |-> ww.result]
  BY <1>1
<1>4. HIDE DEF v2
<1>5. v3 = [mode |-> [ww.mode EXCEPT ![t] = a], on |-> [ww.on EXCEPT ![t] = b],
            timed |-> [ww.timed EXCEPT ![t] = c], result |-> ww.result]
  BY <1>3
<1>6. HIDE DEF v3
<1>7. v4 = [mode |-> [ww.mode EXCEPT ![t] = a], on |-> [ww.on EXCEPT ![t] = b],
            timed |-> [ww.timed EXCEPT ![t] = c], result |-> [ww.result EXCEPT ![t] = d]]
  BY <1>5
<1>8. HIDE DEF v4
<1>9. v4 = Updated(ww, t, a, b, c, d)
  BY Zenon DEF v1, v2, v3, v4, Updated
<1> QED BY <1>7, <1>9

LEMMA UnblockEffect ==
    ASSUME NEW ww \in WaitingType, NEW t \in Tasks,
           NEW mode \in Modes, NEW result \in Results,
           NEW v, v = Unblock(ww, t, mode, result)
    PROVE  /\ v \in WaitingType
           /\ v.on[t] = NoList /\ v.mode[t] = mode /\ v.result[t] = result
           /\ \A u \in Tasks \ {t} :
                 /\ v.on[u] = ww.on[u] /\ v.mode[u] = ww.mode[u]
                 /\ v.result[u] = ww.result[u]
<1> PICK no \in BOOLEAN : no = FALSE
  OBVIOUS
<1>1. v = [mode |-> [ww.mode EXCEPT ![t] = mode], on |-> [ww.on EXCEPT ![t] = NoList],
           timed |-> [ww.timed EXCEPT ![t] = no],
           result |-> [ww.result EXCEPT ![t] = result]]
  <2>1. v = Updated(ww, t, mode, NoList, no, result)
    BY Zenon DEF Unblock, Updated
  <2> QED BY <2>1, WaitingUpdate
<1>2. /\ ww.mode \in [Tasks -> Modes] /\ ww.on \in [Tasks -> WaitLists \union {NoList}]
      /\ ww.timed \in [Tasks -> BOOLEAN]
      /\ ww.result \in [Tasks -> {"OK", "TIMEOUT", "INTR"}]
  BY DEF WaitingType, Results
<1>3. v \in WaitingType
  BY <1>1, <1>2 DEF WaitingType, Results
<1> QED BY <1>1, <1>2, <1>3

LEMMA BlockEffect ==
    ASSUME NEW ww \in WaitingType, NEW t \in Tasks, NEW list \in WaitLists,
           NEW timed \in BOOLEAN, NEW v, v = BlockOn(ww, t, list, timed)
    PROVE  /\ v \in WaitingType
           /\ v.on[t] = list /\ v.mode[t] = "waiting" /\ v.result[t] = "OK"
           /\ \A u \in Tasks \ {t} :
                 /\ v.on[u] = ww.on[u] /\ v.mode[u] = ww.mode[u]
                 /\ v.result[u] = ww.result[u]
<1>1. v = [mode |-> [ww.mode EXCEPT ![t] = "waiting"], on |-> [ww.on EXCEPT ![t] = list],
           timed |-> [ww.timed EXCEPT ![t] = timed],
           result |-> [ww.result EXCEPT ![t] = "OK"]]
  <2>1. v = Updated(ww, t, "waiting", list, timed, "OK")
    BY Zenon DEF BlockOn, Updated
  <2> QED BY <2>1, WaitingUpdate
<1>2. /\ ww.mode \in [Tasks -> Modes] /\ ww.on \in [Tasks -> WaitLists \union {NoList}]
      /\ ww.timed \in [Tasks -> BOOLEAN]
      /\ ww.result \in [Tasks -> {"OK", "TIMEOUT", "INTR"}]
  BY DEF WaitingType
<1>3. v \in WaitingType
  BY <1>1, <1>2 DEF WaitingType, Modes
<1> QED BY <1>1, <1>2, <1>3
=============================================================================
