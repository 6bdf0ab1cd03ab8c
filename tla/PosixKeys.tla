------------------------------ MODULE PosixKeys ------------------------------
(***************************************************************************)
(* Thread-specific data (compat/posix/posix.c): keys that are created and  *)
(* deleted at any time, the values of each thread, and the destructors     *)
(* that a thread calls when it ends.  A value is the number of the         *)
(* creation of its key, and 0 is NULL.                                     *)
(*                                                                         *)
(* call[t].op, with the key call[t].on:                                    *)
(*   look        is about to look at the key, in run_key_destructors       *)
(*   call        has found that its value is to be destroyed               *)
(*   destructor  executes the destructor, which is code of the application *)
(***************************************************************************)
EXTENDS Calls

CONSTANTS
    KeyCounts,       \* values of AIXOS_CFG_POSIX_KEYS
    DestructorRounds \* 4 in the code

ASSUME PosixKeysAssumption == KeyCounts \subseteq Nat

\* keys; and of each thread posix_values and posix_key_generations, with the
\* key that a setspecific has stored the value but not the generation of.
\* Histories: crossed, the keys that were deleted while the thread was between
\* two looks at them; leftover, whether its last round called destructors.
VARIABLES key, specific

keyVars == <<key, specific>>

Keys == DOMAIN key
NoKey == Cardinality(Keys)

KeyInit ==
    /\ \E n \in KeyCounts :
          key = [s \in 0 .. n - 1 |->
                    [used |-> FALSE, generation |-> 0, destructor |-> FALSE]]
    /\ specific = [t \in Tasks |->
          [value |-> [s \in Keys |-> 0], generation |-> [s \in Keys |-> 0],
           storing |-> NoKey, crossed |-> {}, leftover |-> FALSE]]

\* The thread executes code of the application.
InApplication(t) ==
    /\ Free(t) \/ At(t, "destructor")
    /\ specific[t].storing = NoKey

-----------------------------------------------------------------------------
(* The calls.                                                              *)

\* Faulty: a key that is created again has the generation of the old one.
SameGeneration(generation) == IF generation = 0 THEN 1 ELSE generation

NextGeneration(generation) == generation + 1

KeyCreate(t, destructor) ==
    /\ InApplication(t)
    /\ \E s \in Keys :
          /\ ~key[s].used /\ \A r \in Keys : r < s => key[r].used
          /\ key[s].generation < MaxHandles
          /\ key' = [key EXCEPT ![s] =
                        [used |-> TRUE, generation |-> NextGeneration(@.generation),
                         destructor |-> destructor]]
    /\ UNCHANGED <<w, call, specific>>

\* The thread has looked at the key once and is about to do so again.
Between(t, s) ==
    specific[t].storing = s \/ (call[t].op = "call" /\ call[t].on = s)

KeyDelete(t, s) ==
    /\ InApplication(t) /\ key[s].used
    /\ key' = [key EXCEPT ![s].used = FALSE, ![s].destructor = FALSE]
    /\ specific' = [u \in Tasks |->
          IF Between(u, s) THEN [specific[u] EXCEPT !.crossed = @ \union {s}]
          ELSE specific[u]]
    /\ UNCHANGED <<w, call>>

\* aixos_pthread_getspecific
Specific(t, s) ==
    IF key[s].used /\ specific[t].generation[s] = key[s].generation
    THEN specific[t].value[s] ELSE 0

\* aixos_pthread_setspecific, up to the value, and the generation.
SetSpecific(t, s) ==
    /\ InApplication(t) /\ key[s].used
    /\ \E value \in {0, key[s].generation} :
          specific' = [specific EXCEPT ![t].value[s] = value,
                          ![t].storing = s, ![t].crossed = @ \ {s}]
    /\ UNCHANGED <<w, call, key>>

SetGeneration(t) ==
    /\ w.mode[t] = "active" /\ specific[t].storing # NoKey
    /\ specific' = [specific EXCEPT
          ![t].generation[specific[t].storing] = key[specific[t].storing].generation,
          ![t].storing = NoKey]
    /\ UNCHANGED <<w, call, key>>

-----------------------------------------------------------------------------
(* run_key_destructors, at the end of a thread.                            *)

LookAt(t, s, round, called) ==
    Goto(t, [op |-> "look", what |-> "key", on |-> s, round |-> round, called |-> called])

BeginDestruction(t) ==
    /\ Free(t) /\ specific[t].storing = NoKey
    /\ LookAt(t, 0, 1, FALSE)
    /\ UNCHANGED <<w, keyVars>>

ToBeDestroyed(t, s) == Specific(t, s) # 0 /\ key[s].destructor

LookAtKey(t) ==
    /\ At(t, "look") /\ call[t].on # NoKey
    /\ IF ToBeDestroyed(t, call[t].on) THEN Goto(t, [call[t] EXCEPT !.op = "call"])
       ELSE LookAt(t, call[t].on + 1, call[t].round, call[t].called)
    /\ UNCHANGED <<w, keyVars>>

CallDestructor(t) ==
    /\ At(t, "call")
    /\ specific' = [specific EXCEPT ![t].value[call[t].on] = 0]
    /\ Goto(t, [call[t] EXCEPT !.op = "destructor"])
    /\ UNCHANGED <<w, key>>

DestructorReturns(t) ==
    /\ At(t, "destructor") /\ specific[t].storing = NoKey
    /\ LookAt(t, call[t].on + 1, call[t].round, TRUE)
    /\ UNCHANGED <<w, keyVars>>

\* There is another round if a destructor was called, but not for ever.
EndOfRound(t) ==
    /\ At(t, "look") /\ call[t].on = NoKey
    /\ IF call[t].called /\ call[t].round < DestructorRounds
       THEN LookAt(t, 0, call[t].round + 1, FALSE) /\ UNCHANGED <<w, specific>>
       ELSE /\ w' = Unblock(w, t, "off", "OK")
            /\ Return(t)
            /\ specific' = [specific EXCEPT ![t].leftover = call[t].called]
    /\ UNCHANGED key

KeyNext ==
    \E t \in Tasks :
        \/ \E destructor \in BOOLEAN : KeyCreate(t, destructor)
        \/ \E s \in Keys : KeyDelete(t, s) \/ SetSpecific(t, s)
        \/ SetGeneration(t) \/ BeginDestruction(t) \/ LookAtKey(t)
        \/ CallDestructor(t) \/ DestructorReturns(t) \/ EndOfRound(t)

-----------------------------------------------------------------------------

\* posix.c, lines 82 to 112 and 438 to 496: whatever keys other threads delete
\* and create meanwhile, and whatever a destructor sets, a thread neither finds
\* nor destroys with the destructor of a key a value of the key that was there
\* before; and it leaves a value undestroyed only if its destructors set values
\* in each round.  Not so for a key that is deleted just when the thread has
\* decided to call its destructor, which is then called through NULL or is that
\* of another key, or has stored a value for it and not yet the generation.
KeyValuesExact ==
    \A t \in Tasks : \A s \in Keys \ specific[t].crossed :
        /\ Specific(t, s) \in {0, key[s].generation}
        /\ At(t, "call") /\ call[t].on = s =>
              key[s].destructor /\ specific[t].value[s] = key[s].generation
        /\ w.mode[t] = "off" /\ ~specific[t].leftover => ~ToBeDestroyed(t, s)
=============================================================================
