----------------------------- MODULE CondBuffer -----------------------------
(***************************************************************************)
(* pthread_cond_test/cond_test.c: a producer and two consumers (consumer1  *)
(* and consumer2, one body written twice) pass the numbers 1..MAX-1        *)
(* through one variable guarded by a mutex and two condition variables.    *)
(*                                                                         *)
(* A thread in pthread_cond_wait is in the wait set of its condition and   *)
(* holds no mutex; a signal, a broadcast or a spurious wakeup takes it out *)
(* of the set, and it must win the mutex again before the wait returns.    *)
(* Each consumer loops MAX-1 times although only MAX-1 items are made in   *)
(* all, so at the end consumers wait for ever and main never gets past     *)
(* its joins.                                                              *)
(***************************************************************************)
EXTENDS Naturals, Sequences, FiniteSets

CONSTANTS Producer,    \* the producer thread
          Consumers,   \* the consumer threads
          MAX,         \* const int MAX
          MaxSpurious  \* bound: spurious wakeups in one behaviour

ASSUME CondAssumption ==
  /\ MAX \in Nat \ {0}
  /\ MaxSpurious \in Nat
  /\ Producer \notin Consumers
  /\ Consumers # {}

Threads == Consumers \cup {Producer}

NoOne == "no one"

ASSUME NoOneAssumption == NoOne \notin Threads

VARIABLES buffer,   \* unsigned int buffer: the item, 0 when empty
          owner,    \* the thread that holds the_mutex
          condp,    \* threads waiting on condp
          condc,    \* threads waiting on condc
          pc,
          i,        \* the loop counter of each thread
          taken,    \* the items printed as consumed, in order
          spurious  \* spurious wakeups so far

vars == <<buffer, owner, condp, condc, pc, i, taken, spurious>>

Goto(t, l) == pc' = [pc EXCEPT ![t] = l]

\* Slips the properties must notice: consumers that signal the wrong
\* condition, a wait tested once with "if", a loop too short.
WakeNobody == UNCHANGED condp
IfInsteadOfWhile(t) == "work"
HalfForConsumers(t) == i[t] < IF t = Producer THEN MAX ELSE MAX \div 2

\* pthread_cond_signal(&condp): one waiter, if there is one.
SignalProducer ==
  \/ \E w \in condp : condp' = condp \ {w}
  \/ condp = {} /\ UNCHANGED condp

\* Where a woken thread goes on: while (...) tests its condition again.
AfterWait(t) == "test"

\* The loop condition i < MAX.
MoreRounds(t) == i[t] < MAX

\* The condition under which a thread stops waiting.
MayProceed(t) == IF t = Producer THEN buffer = 0 ELSE buffer # 0
-----------------------------------------------------------------------------
Init ==
  /\ buffer = 0
  /\ owner = NoOne
  /\ condp = {}
  /\ condc = {}
  /\ pc = [t \in Threads |-> "for"]
  /\ i = [t \in Threads |-> 1]
  /\ taken = <<>>
  /\ spurious = 0

\* for (...; i < MAX; ...): another round or pthread_exit.
Loop(t) ==
  /\ pc[t] = "for"
  /\ Goto(t, IF MoreRounds(t) THEN "lock" ELSE "done")
  /\ UNCHANGED <<buffer, owner, condp, condc, i, taken, spurious>>

Lock(t) ==
  /\ pc[t] = "lock"
  /\ owner = NoOne
  /\ owner' = t
  /\ Goto(t, "test")
  /\ UNCHANGED <<buffer, condp, condc, i, taken, spurious>>

\* while (...) pthread_cond_wait(...): go on, or release the mutex and wait.
Test(t) ==
  /\ pc[t] = "test"
  /\ IF MayProceed(t)
       THEN Goto(t, "work") /\ UNCHANGED <<owner, condp, condc>>
       ELSE /\ Goto(t, "wait")
            /\ owner' = NoOne
            /\ condp' = IF t = Producer THEN condp \cup {t} ELSE condp
            /\ condc' = IF t = Producer THEN condc ELSE condc \cup {t}
  /\ UNCHANGED <<buffer, i, taken, spurious>>

\* A woken thread wins the mutex again and pthread_cond_wait returns.
Reacquire(t) ==
  /\ pc[t] = "wait"
  /\ t \notin condp \cup condc
  /\ owner = NoOne
  /\ owner' = t
  /\ Goto(t, AfterWait(t))
  /\ UNCHANGED <<buffer, condp, condc, i, taken, spurious>>

\* buffer = i; pthread_cond_broadcast(&condc);
Produce(t) ==
  /\ pc[t] = "work" /\ t = Producer
  /\ buffer' = i[t]
  /\ condc' = {}
  /\ Goto(t, "unlock")
  /\ UNCHANGED <<owner, condp, i, taken, spurious>>

\* printf(... buffer); buffer = 0; pthread_cond_signal(&condp);
Consume(t) ==
  /\ pc[t] = "work" /\ t \in Consumers
  /\ taken' = Append(taken, buffer)
  /\ buffer' = 0
  /\ SignalProducer
  /\ Goto(t, "unlock")
  /\ UNCHANGED <<owner, condc, i, spurious>>

Unlock(t) ==
  /\ pc[t] = "unlock"
  /\ owner' = NoOne
  /\ i' = [i EXCEPT ![t] = @ + 1]
  /\ Goto(t, "for")
  /\ UNCHANGED <<buffer, condp, condc, taken, spurious>>

\* POSIX lets pthread_cond_wait return without a signal.
SpuriousWakeup(t) ==
  /\ spurious < MaxSpurious
  /\ t \in condp \cup condc
  /\ condp' = condp \ {t}
  /\ condc' = condc \ {t}
  /\ spurious' = spurious + 1
  /\ UNCHANGED <<buffer, owner, pc, i, taken>>

Step(t) ==
  \/ Loop(t) \/ Lock(t) \/ Test(t) \/ Reacquire(t)
  \/ Produce(t) \/ Consume(t) \/ Unlock(t)

Next == \E t \in Threads : Step(t) \/ SpuriousWakeup(t)

Spec == Init /\ [][Next]_vars

\* Threads that can run are scheduled.  A finite number of spurious wakeups
\* means that a wanted mutex stays free in the end, so weak fairness suffices.
FairSpec == Spec /\ \A t \in Threads : WF_vars(Step(t))
-----------------------------------------------------------------------------
\* Types of the shared and local variables.
TypeOK ==
  /\ buffer \in 0..MAX
  /\ owner \in Threads \cup {NoOne}
  /\ condp \in SUBSET {Producer}
  /\ condc \in SUBSET Consumers
  /\ pc \in [Threads -> {"for", "lock", "test", "wait", "work", "unlock", "done"}]
  /\ i \in [Threads -> 1..MAX]
  /\ taken \in Seq(Nat)
  /\ spurious \in 0..MaxSpurious

\* Two threads are never between lock and unlock together, and a thread that
\* works on the buffer does so under the condition it waited for
\* (cond_test.c:14, 27, 38), however the wakeups interleave.
WorksWhenReady ==
  \A t \in Threads : pc[t] \in {"test", "work", "unlock"} =>
    /\ owner = t
    /\ pc[t] = "work" => MayProceed(t)

\* The consumers together print 1, 2, 3, ... : every item exactly once, in
\* order, none overwritten before it is consumed (cond_test.c:28 and 39).
ConsumedInOrder ==
  /\ \A k \in 1..Len(taken) : taken[k] = k
  /\ buffer # 0 => buffer = Len(taken) + 1

\* If every thread has ended or sleeps on a condition variable then all items
\* were produced and consumed: no signal (cond_test.c:18, 30, 41) is lost.
NoLostWakeup ==
  (\A t \in Threads : pc[t] = "done" \/ t \in condp \cup condc) =>
    pc[Producer] = "done" /\ buffer = 0 /\ Len(taken) = MAX - 1

\* With two or more consumers the program cannot end: each wants MAX-1 items of
\* the MAX-1 that are made, so the joins at cond_test.c:59-60 never both return.
SomeConsumerStranded ==
  Cardinality(Consumers) > 1 /\ MAX > 1 => \E c \in Consumers : pc[c] # "done"

\* The inductive invariant: the producer's counter, the buffer and the number of
\* consumed items move together.
CountInv ==
  /\ WorksWhenReady
  /\ ConsumedInOrder
  /\ pc[Producer] # "unlock" =>
       i[Producer] = IF buffer = 0 THEN Len(taken) + 1 ELSE Len(taken) + 2
  /\ pc[Producer] = "unlock" =>
       i[Producer] = buffer /\ buffer = Len(taken) + 1
  /\ \A t \in Threads : pc[t] \in {"lock", "test", "wait", "work", "unlock"} => i[t] < MAX

\* How many items a consumer has printed.
Printed(c) == IF pc[c] = "unlock" THEN i[c] ELSE i[c] - 1

\* The inductive invariant behind NoLostWakeup and SomeConsumerStranded: who
\* sleeps on a condition still has reason to, a thread that ended did all its
\* rounds, and what one or two consumers printed is part of what was taken.
WakeInv ==
  /\ \A t \in condp \cup condc : pc[t] = "wait"
  /\ condp # {} => buffer # 0
  /\ condc # {} => buffer = 0
  /\ \A t \in Threads : pc[t] = "done" => i[t] = MAX
  /\ \A c \in Consumers : Printed(c) <= Len(taken)
  /\ \A c, d \in Consumers : c # d => Printed(c) + Printed(d) <= Len(taken)

Channel == INSTANCE OneSlotChannel WITH Last <- MAX - 1, slot <- buffer, out <- taken

\* The detailed program implements the one-slot channel.
ImplementsChannel == Channel!Spec

\* Under the scheduler's fairness it also moves every item through.
ImplementsLiveChannel == Channel!LiveSpec
=============================================================================
