---------------------------- MODULE BoundedBuffer ----------------------------
(***************************************************************************)
(* What a message queue or a pipe promises about its contents: a bounded   *)
(* sequence whose items, records with a field prio, are taken from the     *)
(* front, and are put behind all that are as urgent and before all that    *)
(* are less urgent.  Several items may be put at the end, or taken, at     *)
(* once.                                                                   *)
(***************************************************************************)
EXTENDS Naturals, Sequences, SequencesExt

VARIABLES content, capacity

Init == content = <<>> /\ capacity \in Nat \ {0}

Insert(i) ==
    /\ Len(content') = Len(content) + 1
    /\ content' = InsertAt(content, i, content'[i])
    /\ \A j \in 1 .. i - 1 : content[j].prio >= content'[i].prio
    /\ \A j \in i .. Len(content) : content[j].prio < content'[i].prio

PutMany ==
    /\ IsPrefix(content, content')
    /\ \A j \in Len(content) + 1 .. Len(content') : content'[j].prio = 0

Put ==
    /\ Len(content') <= capacity
    /\ PutMany \/ \E i \in 1 .. Len(content) + 1 : Insert(i)

Take == content # <<>> /\ IsSuffix(content', content)

Next == Put \/ Take

\* Deletion throws the contents away: a suffix, the empty one.
Spec == Init /\ [][Next /\ UNCHANGED capacity]_<<content, capacity>>
=============================================================================
