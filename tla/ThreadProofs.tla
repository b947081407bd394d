------------------------------ MODULE ThreadProofs --------------------------
(***************************************************************************)
(* Proofs about the three thread exercises, CondBuffer, TicketWindows and  *)
(* SemBuffer, each about its own variables: for any set of consumers, any  *)
(* MAX and any number of spurious wakeups; for any windows and any stock;  *)
(* and for any number of items.                                            *)
(***************************************************************************)
EXTENDS CondBuffer, TicketWindows, SemBuffer, TLAPS, SequenceTheorems, FiniteSetTheorems
-----------------------------------------------------------------------------
(* CondBuffer                                                              *)

Inv == TypeOK /\ CountInv

\* Initially the buffer is empty and nothing has been consumed.
LEMMA InitInv == Init => Inv
<1> SUFFICES ASSUME Init PROVE Inv
  OBVIOUS
<1>1. TypeOK
  BY CondAssumption DEF Init, TypeOK, Threads
<1>2. CountInv
  BY CondAssumption DEF Init, CountInv, WorksWhenReady, ConsumedInOrder, Threads
<1> QED
  BY <1>1, <1>2 DEF Inv

\* A consumer at work prints the item that is next in order.
LEMMA ConsumeStep ==
  ASSUME Inv, NEW t \in Threads, Consume(t)
  PROVE  /\ taken' \in Seq(Nat)
         /\ Len(taken) \in Nat
         /\ Len(taken') = Len(taken) + 1
         /\ \A k \in 1..Len(taken') : taken'[k] = k
         /\ buffer # 0 /\ buffer = Len(taken) + 1
<1> USE CondAssumption DEF Inv
<1>1. buffer # 0 /\ buffer \in Nat /\ taken \in Seq(Nat)
  BY DEF Consume, CountInv, WorksWhenReady, MayProceed, TypeOK, Threads
<1>2. buffer = Len(taken) + 1 /\ \A k \in 1..Len(taken) : taken[k] = k
  BY <1>1 DEF CountInv, ConsumedInOrder
<1>3. /\ taken' \in Seq(Nat)
      /\ Len(taken) \in Nat
      /\ Len(taken') = Len(taken) + 1
      /\ \A k \in 1..Len(taken) : taken'[k] = taken[k]
      /\ taken'[Len(taken) + 1] = buffer
  BY <1>1, AppendProperties DEF Consume
<1> QED
  BY <1>1, <1>2, <1>3

\* One action at a time.
LEMMA StepInv == Inv /\ [Next]_vars => Inv'
<1> SUFFICES ASSUME Inv, [Next]_vars PROVE Inv'
  OBVIOUS
<1>0. Len(taken) \in Nat
  BY DEF Inv, TypeOK
<1> USE CondAssumption, NoOneAssumption, <1>0
    DEF Inv, TypeOK, CountInv, WorksWhenReady, ConsumedInOrder, MayProceed,
        Threads, Goto
<1>1. ASSUME NEW t \in Threads, Loop(t) PROVE Inv'
  BY <1>1 DEF Loop, MoreRounds
<1>2. ASSUME NEW t \in Threads, Lock(t) PROVE Inv'
  BY <1>2 DEF Lock
<1>3. ASSUME NEW t \in Threads, Test(t) PROVE Inv'
  BY <1>3 DEF Test
<1>4. ASSUME NEW t \in Threads, Reacquire(t) PROVE Inv'
  BY <1>4 DEF Reacquire, AfterWait
<1>5. ASSUME NEW t \in Threads, Produce(t) PROVE Inv'
  BY <1>5 DEF Produce
<1>6. ASSUME NEW t \in Threads, Consume(t) PROVE Inv'
  BY <1>6, ConsumeStep DEF Consume, SignalProducer
<1>7. ASSUME NEW t \in Threads, Unlock(t) PROVE Inv'
  BY <1>7 DEF Unlock
<1>8. ASSUME NEW t \in Threads, SpuriousWakeup(t) PROVE Inv'
  BY <1>8 DEF SpuriousWakeup
<1>9. CASE UNCHANGED vars
  BY <1>9 DEF vars
<1> QED
  BY <1>1, <1>2, <1>3, <1>4, <1>5, <1>6, <1>7, <1>8, <1>9 DEF Next, Step

\* Types, mutual exclusion with a true wait condition, and in-order,
\* exactly-once consumption hold in every behaviour.
THEOREM BufferAlwaysSound == Spec => [](TypeOK /\ WorksWhenReady /\ ConsumedInOrder)
<1>1. Inv => TypeOK /\ WorksWhenReady /\ ConsumedInOrder
  BY DEF Inv, CountInv
<1> QED
  BY <1>1, InitInv, StepInv, PTL DEF Spec

\* Nobody sleeps or has printed anything at the start.
LEMMA InitWake == Init => WakeInv
BY CondAssumption DEF Init, WakeInv, Threads, Printed

\* Whoever changes the buffer wakes those who sleep for the change, and every
\* round of a consumer adds one item to those taken.
LEMMA WakeStep == Inv /\ WakeInv /\ [Next]_vars => WakeInv'
<1> SUFFICES ASSUME Inv, WakeInv, [Next]_vars PROVE WakeInv'
  OBVIOUS
<1>0. Len(taken) \in Nat
  BY DEF Inv, TypeOK
<1> USE CondAssumption, NoOneAssumption, <1>0
    DEF Inv, TypeOK, WakeInv, Printed, Threads, Goto
<1>1. ASSUME NEW t \in Threads, Loop(t) PROVE WakeInv'
  BY <1>1 DEF Loop, MoreRounds
<1>2. ASSUME NEW t \in Threads, Lock(t) PROVE WakeInv'
  BY <1>2 DEF Lock
<1>3. ASSUME NEW t \in Threads, Test(t) PROVE WakeInv'
  <2>1. CASE MayProceed(t)
    BY <1>3, <2>1 DEF Test
  <2>2. CASE ~MayProceed(t) /\ t = Producer
    <3>1. buffer # 0 /\ condp' = condp \cup {t} /\ condc' = condc
      BY <1>3, <2>2 DEF Test, MayProceed
    <3>2. pc' = [pc EXCEPT ![t] = "wait"] /\ UNCHANGED <<buffer, i, taken>> /\ pc[t] = "test"
      BY <1>3, <2>2 DEF Test
    <3> QED
      BY <2>2, <3>1, <3>2
  <2>3. CASE ~MayProceed(t) /\ t # Producer
    <3>1. t \in Consumers /\ buffer = 0 /\ condp' = condp /\ condc' = condc \cup {t}
      BY <1>3, <2>3 DEF Test, MayProceed
    <3>2. pc' = [pc EXCEPT ![t] = "wait"] /\ UNCHANGED <<buffer, i, taken>> /\ pc[t] = "test"
      BY <1>3, <2>3 DEF Test
    <3> QED
      BY <3>1, <3>2
  <2> QED
    BY <2>1, <2>2, <2>3
<1>4. ASSUME NEW t \in Threads, Reacquire(t) PROVE WakeInv'
  BY <1>4 DEF Reacquire, AfterWait
<1>5. ASSUME NEW t \in Threads, Produce(t) PROVE WakeInv'
  BY <1>5 DEF Produce, CountInv, WorksWhenReady
<1>6. ASSUME NEW t \in Threads, Consume(t) PROVE WakeInv'
  <2>1. buffer # 0 /\ Len(taken') = Len(taken) + 1
    BY <1>6, ConsumeStep
  <2>2. condp' = {} /\ condc' = {} /\ buffer' = 0
    BY <1>6, <2>1 DEF Consume, SignalProducer
  <2>3. t \in Consumers /\ pc[t] = "work" /\ pc' = [pc EXCEPT ![t] = "unlock"] /\ i' = i
    BY <1>6 DEF Consume
  <2> QED
    BY <2>1, <2>2, <2>3
<1>7. ASSUME NEW t \in Threads, Unlock(t) PROVE WakeInv'
  <2>1. /\ pc[t] = "unlock" /\ pc' = [pc EXCEPT ![t] = "for"]
        /\ i' = [i EXCEPT ![t] = i[t] + 1] /\ UNCHANGED <<buffer, condp, condc, taken>>
    BY <1>7 DEF Unlock
  <2>2. \A u \in Threads : Printed(u)' = Printed(u)
    BY <2>1
  <2>3. /\ \A u \in condp \cup condc : pc'[u] = "wait"
        /\ \A u \in Threads : pc'[u] = "done" => i'[u] = MAX
    BY <2>1
  <2> HIDE DEF Printed
  <2> QED
    BY <2>1, <2>2, <2>3
<1>8. ASSUME NEW t \in Threads, SpuriousWakeup(t) PROVE WakeInv'
  BY <1>8 DEF SpuriousWakeup
<1>9. CASE UNCHANGED vars
  BY <1>9 DEF vars
<1> QED
  BY <1>1, <1>2, <1>3, <1>4, <1>5, <1>6, <1>7, <1>8, <1>9 DEF Next, Step

\* The producer's counter bounds what has been taken.
LEMMA TakenBound == Inv => Len(taken) \in Nat /\ Len(taken) <= MAX - 1
<1> SUFFICES ASSUME Inv PROVE Len(taken) \in Nat /\ Len(taken) <= MAX - 1
  OBVIOUS
<1>1. Len(taken) \in Nat /\ i[Producer] \in 1..MAX /\ MAX \in Nat /\ buffer \in Nat
  BY CondAssumption DEF Inv, TypeOK, Threads
<1> QED
  BY <1>1 DEF Inv, CountInv, Threads

\* However the wakeups interleave, the threads never all sleep or end while an
\* item is still to be produced or consumed (cond_test.c:18, 30, 41).
THEOREM NoWakeupLost == Spec => []NoLostWakeup
<1>1. Inv /\ WakeInv => NoLostWakeup
  <2> SUFFICES ASSUME Inv, WakeInv,
                      \A t \in Threads : pc[t] = "done" \/ t \in condp \cup condc
               PROVE  pc[Producer] = "done" /\ buffer = 0 /\ Len(taken) = MAX - 1
    BY DEF NoLostWakeup
  <2>0. /\ Len(taken) \in Nat /\ i \in [Threads -> 1..MAX] /\ MAX \in Nat
        /\ Producer \in Threads /\ Len(taken) <= MAX - 1 /\ Consumers \subseteq Threads
        /\ condp \subseteq {Producer} /\ condc \subseteq Consumers /\ Producer \notin Consumers
    BY CondAssumption, TakenBound DEF Inv, TypeOK, Threads
  <2>1. i[Producer] = IF buffer = 0 THEN Len(taken) + 1 ELSE Len(taken) + 2
    BY <2>0 DEF Inv, CountInv, WakeInv
  <2>2. buffer = 0
    <3> SUFFICES ASSUME buffer # 0 PROVE FALSE
      OBVIOUS
    <3>1. PICK c \in Consumers : TRUE
      BY CondAssumption
    <3>2. pc[c] = "done"
      BY <2>0 DEF WakeInv
    <3>3. MAX - 1 <= Len(taken)
      BY <2>0, <3>2 DEF WakeInv, Printed
    <3> QED
      BY <2>0, <2>1, <3>3
  <2>3. pc[Producer] = "done"
    BY <2>0, <2>2 DEF WakeInv
  <2> QED
    BY <2>0, <2>1, <2>2, <2>3 DEF WakeInv
<1> QED
  BY <1>1, InitInv, StepInv, InitWake, WakeStep, PTL DEF Spec

\* Two consumers cannot both end, whatever the schedule: the items are not
\* enough for the rounds they make, so main stays in its joins.
THEOREM SomeoneStranded == Spec => []SomeConsumerStranded
<1>1. Inv /\ WakeInv => SomeConsumerStranded
  <2> SUFFICES ASSUME Inv, WakeInv, Cardinality(Consumers) > 1, MAX > 1,
                      \A c \in Consumers : pc[c] = "done"
               PROVE  FALSE
    BY DEF SomeConsumerStranded
  <2>1. PICK c \in Consumers : TRUE
    BY CondAssumption
  <2>2. PICK d \in Consumers : d # c
    <3>1. CASE Consumers = {c}
      <4>1. Cardinality(Consumers) = 1
        BY <3>1, FS_Singleton
      <4> QED
        BY <4>1
    <3> QED
      BY <3>1
  <2>3. i[c] = MAX /\ i[d] = MAX
    BY DEF WakeInv, Threads
  <2>4. (MAX - 1) + (MAX - 1) <= Len(taken)
    BY <2>2, <2>3 DEF WakeInv, Printed
  <2> QED
    BY <2>4, TakenBound, CondAssumption
<1> QED
  BY <1>1, InitInv, StepInv, InitWake, WakeStep, PTL DEF Spec

\* The program with its mutex and condition variables implements the one-slot
\* channel.
THEOREM CondImplementsChannel == Spec => ImplementsChannel
<1>1. Init => Channel!Init
  BY DEF Init, Channel!Init
<1>2. Inv /\ [Next]_vars => [Channel!Next]_<<buffer, taken>>
  <2> SUFFICES ASSUME Inv, [Next]_vars PROVE [Channel!Next]_<<buffer, taken>>
    OBVIOUS
  <2>1. ASSUME NEW t \in Threads, Produce(t) PROVE Channel!Put
    BY <2>1, CondAssumption
       DEF Produce, Channel!Put, Inv, TypeOK, CountInv, WorksWhenReady, MayProceed, Threads
  <2>2. ASSUME NEW t \in Threads, Consume(t) PROVE Channel!Take
    BY <2>2, ConsumeStep DEF Consume, Channel!Take
  <2>3. ASSUME NEW t \in Threads,
               Loop(t) \/ Lock(t) \/ Test(t) \/ Reacquire(t) \/ Unlock(t)
                 \/ SpuriousWakeup(t)
        PROVE UNCHANGED <<buffer, taken>>
    BY <2>3 DEF Loop, Lock, Test, Reacquire, Unlock, SpuriousWakeup
  <2>4. CASE UNCHANGED vars
    BY <2>4 DEF vars
  <2> QED
    BY <2>1, <2>2, <2>3, <2>4 DEF Next, Step, Channel!Next
<1>3. Spec => []Inv
  BY InitInv, StepInv, PTL DEF Spec
<1> QED
  BY <1>1, <1>2, <1>3, PTL DEF Spec, ImplementsChannel, Channel!Spec
-----------------------------------------------------------------------------
(* TicketWindows                                                           *)

\* Every variable keeps its type, given the stock invariant: the value that
\* tickets-- writes back (mutex_test.c:21) is one below a positive stock.
LEMMA TicketTypeStep == TicketTypeOK /\ StockInv /\ [TicketNext]_ticketVars => TicketTypeOK'
<1> SUFFICES ASSUME TicketTypeOK, StockInv, [TicketNext]_ticketVars PROVE TicketTypeOK'
  OBVIOUS
<1> USE TicketsAssumption DEF TicketTypeOK, Locations, MoveTo
<1>1. ASSUME NEW t \in Windows, LockMutex(t) PROVE TicketTypeOK'
  BY <1>1 DEF LockMutex
<1>2. ASSUME NEW t \in Windows, CheckTickets(t) PROVE TicketTypeOK'
  BY <1>2 DEF CheckTickets
<1>3. ASSUME NEW t \in Windows, LoadTickets(t) PROVE TicketTypeOK'
  BY <1>3 DEF LoadTickets
<1>4. ASSUME NEW t \in Windows, StoreTickets(t) PROVE TicketTypeOK'
  BY <1>4 DEF StoreTickets, StockInv
<1>5. ASSUME NEW t \in Windows, UnlockMutex(t) PROVE TicketTypeOK'
  BY <1>5 DEF UnlockMutex
<1>6. ASSUME NEW t \in Windows, TestFlag(t) PROVE TicketTypeOK'
  BY <1>6 DEF TestFlag
<1>7. ASSUME NEW t \in Windows, UnlockAgain(t) PROVE TicketTypeOK'
  BY <1>7 DEF UnlockAgain
<1>8. CASE Main
  BY <1>8 DEF Main, Create, Join, Destroy
<1>9. CASE UNCHANGED ticketVars
  BY <1>9 DEF ticketVars
<1> QED
  BY <1>1, <1>2, <1>3, <1>4, <1>5, <1>6, <1>7, <1>8, <1>9
     DEF TicketNext, Window, Exited

\* The stock invariant is inductive: while tickets remain the section is
\* exclusive, and the last sale leaves nobody about to load or store.
LEMMA TicketStockStep == TicketTypeOK /\ StockInv /\ [TicketNext]_ticketVars => StockInv'
<1> SUFFICES ASSUME TicketTypeOK, StockInv, [TicketNext]_ticketVars PROVE StockInv'
  OBVIOUS
<1> USE TicketsAssumption DEF TicketTypeOK, StockInv, MutualExclusion, Inside, NoTicketLost, MoveTo,
    Locations
<1>1. ASSUME NEW t \in Windows, LockMutex(t) PROVE StockInv'
  BY <1>1 DEF LockMutex, MutexFree
<1>2. ASSUME NEW t \in Windows, CheckTickets(t) PROVE StockInv'
  BY <1>2 DEF CheckTickets, InStock
<1>3. ASSUME NEW t \in Windows, LoadTickets(t) PROVE StockInv'
  BY <1>3 DEF LoadTickets
<1>4. ASSUME NEW t \in Windows, StoreTickets(t) PROVE StockInv'
  BY <1>4 DEF StoreTickets
<1>5. ASSUME NEW t \in Windows, UnlockMutex(t) PROVE StockInv'
  BY <1>5 DEF UnlockMutex
<1>6. ASSUME NEW t \in Windows, TestFlag(t) PROVE StockInv'
  BY <1>6 DEF TestFlag
<1>7. ASSUME NEW t \in Windows, UnlockAgain(t) PROVE StockInv'
  BY <1>7 DEF UnlockAgain
<1>8. CASE Main
  BY <1>8 DEF Main, Create, Join, Destroy, AllReturned
<1>9. CASE UNCHANGED ticketVars
  BY <1>9 DEF ticketVars
<1> QED
  BY <1>1, <1>2, <1>3, <1>4, <1>5, <1>6, <1>7, <1>8, <1>9
     DEF TicketNext, Window, Exited

\* Type correctness and the stock invariant hold in every behaviour, for any
\* number of windows and any stock.
THEOREM TypeAndStock == TicketSpec => [](TicketTypeOK /\ StockInv)
<1>1. TicketInit => TicketTypeOK
  BY TicketsAssumption DEF TicketInit, TicketTypeOK, Locations
<1>2. ASSUME TicketInit PROVE StockInv
  <2>1. \A t \in Windows : wpc[t] = "unborn" /\ a[t] = 0
    BY <1>2 DEF TicketInit
  <2>2. \A t \in Windows : ~Inside(t)
    BY <2>1 DEF Inside
  <2>3. NoTicketLost
    BY <1>2, TicketsAssumption DEF TicketInit, NoTicketLost
  <2> QED
    BY <2>1, <2>2, <2>3 DEF StockInv, MutualExclusion
<1> QED
  BY <1>1, <1>2, TicketTypeStep, TicketStockStep, PTL DEF TicketSpec

\* No update of the stock is lost and none is sold below zero, whatever the
\* out-of-turn unlock (mutex_test.c:31) does to mutual exclusion.
THEOREM NothingLost == TicketSpec => []NoTicketLost
<1>1. TicketTypeOK /\ StockInv => NoTicketLost
  BY DEF StockInv
<1> QED
  BY <1>1, TypeAndStock, PTL

\* A window ends its loop only with the stock at zero.
THEOREM SoldOutOnLeaving == TicketSpec => []LeavesOnlySoldOut
<1>1. TicketTypeOK /\ StockInv => LeavesOnlySoldOut
  BY DEF StockInv, LeavesOnlySoldOut
<1> QED
  BY <1>1, TypeAndStock, PTL

\* While tickets remain the section is exclusive, and nobody ever writes back a
\* stale stock: the second unlock (mutex_test.c:31) comes only when the stock is
\* gone, and then nobody is on the way to a store.
THEOREM SoldOneAtATime == TicketSpec => []SaleExclusive
<1>1. TicketTypeOK /\ StockInv => SaleExclusive
  BY DEF StockInv, SaleExclusive
<1> QED
  BY <1>1, TypeAndStock, PTL
-----------------------------------------------------------------------------
(* SemBuffer                                                               *)

\* The inductive invariant of the semaphore program.
SemInv == SemTypeOK /\ TokenInv

\* Init satisfies the invariant: the token is in put.
LEMMA TokenInit == SemInit => SemInv
<1> SUFFICES ASSUME SemInit PROVE SemInv
  OBVIOUS
<1>1. SemTypeOK
  BY ItemsAssumption DEF SemInit, SemTypeOK, InitialPut
<1>2. TokenInv
  BY ItemsAssumption DEF SemInit, TokenInv, OneToken, PrintedInOrder, SlotFull,
     ProducerHolds, CustomerHolds, InitialPut
<1> QED
  BY <1>1, <1>2 DEF SemInv

\* Printing appends the next number.
LEMMA TokenPrint ==
  ASSUME SemInv, CustomerPrint
  PROVE  /\ printed' \in Seq(0..Items)
         /\ Len(printed') = Len(printed) + 1
         /\ Len(printed) \in Nat
         /\ PrintedInOrder'
<1>1. value = Len(printed) + 1 /\ value \in 0..Items /\ printed \in Seq(0..Items)
  BY ItemsAssumption DEF CustomerPrint, SemInv, SemTypeOK, TokenInv, SlotFull
<1>2. /\ printed' \in Seq(0..Items)
      /\ Len(printed') = Len(printed) + 1
      /\ Len(printed) \in Nat
      /\ \A k \in 1..Len(printed) : printed'[k] = printed[k]
      /\ printed'[Len(printed) + 1] = value
  BY <1>1, AppendProperties DEF CustomerPrint
<1>3. \A k \in 1..Len(printed) : printed[k] = k
  BY DEF SemInv, PrintedInOrder, TokenInv
<1>4. \A k \in 1..Len(printed') : printed'[k] = k
  <2> TAKE k \in 1..Len(printed')
  <2>1. k \in 1..Len(printed) \/ k = Len(printed) + 1
    BY <1>2
  <2> QED
    BY <1>1, <1>2, <1>3, <2>1
<1>5. PrintedInOrder'
  BY <1>4 DEF PrintedInOrder
<1> QED
  BY <1>2, <1>5

\* One action at a time; the token moves along put, producer, get, customer.
LEMMA TokenStep == SemInv /\ [SemNext]_semVars => SemInv'
<1> SUFFICES ASSUME SemInv, [SemNext]_semVars PROVE SemInv'
  OBVIOUS
<1>0. Len(printed) \in Nat
  BY DEF SemInv, SemTypeOK
<1> USE ItemsAssumption, <1>0
    DEF SemInv, SemTypeOK, TokenInv, OneToken, PrintedInOrder, SlotFull,
        ProducerHolds, CustomerHolds, InRange, Passable, GetAfterPost,
        pvars, cvars
<1>1. CASE ProducerWait
  BY <1>1 DEF ProducerWait
<1>2. CASE ProducerWrite
  BY <1>2 DEF ProducerWrite
<1>3. CASE ProducerPost
  BY <1>3 DEF ProducerPost
<1>4. CASE CustomerWait
  BY <1>4 DEF CustomerWait
<1>5. CASE CustomerRead
  BY <1>5 DEF CustomerRead
<1>6. CASE CustomerPrint
  BY <1>6, TokenPrint DEF CustomerPrint
<1>7. CASE CustomerPost
  BY <1>7 DEF CustomerPost
<1>8. CASE MainStep
  BY <1>8 DEF MainStep, CreateProducer, CreateCustomer, JoinAndDestroy
<1>9. CASE UNCHANGED semVars
  BY <1>9 DEF semVars
<1> QED
  BY <1>1, <1>2, <1>3, <1>4, <1>5, <1>6, <1>7, <1>8, <1>9
     DEF SemNext, ProducerStep, CustomerStep, SemExited

\* The types, the single token and the order of the printed values hold in
\* every behaviour, for any loop bound.
THEOREM TokenAlways == SemSpec => [](SemTypeOK /\ OneToken /\ PrintedInOrder)
<1>1. SemInv => SemTypeOK /\ OneToken /\ PrintedInOrder
  BY DEF SemInv, TokenInv
<1> QED
  BY <1>1, TokenInit, TokenStep, PTL DEF SemSpec

\* The semaphore program implements the one-slot channel.
THEOREM SemaphoresImplementChannel == SemSpec => SemImplementsChannel
<1> DEFINE s == IF SlotFull THEN cell ELSE 0
<1>1. SemInit => SemChannel!Init
  BY DEF SemInit, SemChannel!Init, SlotFull
<1>2. SemInv /\ [SemNext]_semVars => [SemChannel!Next]_<<s, printed>>
  <2> SUFFICES ASSUME SemInv, [SemNext]_semVars PROVE [SemChannel!Next]_<<s, printed>>
    OBVIOUS
  <2>0. Len(printed) \in Nat
    BY DEF SemInv, SemTypeOK
  <2> USE ItemsAssumption, <2>0
      DEF SemInv, SemTypeOK, TokenInv, OneToken, SlotFull, ProducerHolds, CustomerHolds,
          GetAfterPost, pvars, cvars
  <2>1. CASE ProducerWait
    BY <2>1 DEF ProducerWait
  <2>2. CASE ProducerWrite
    BY <2>2 DEF ProducerWrite
  <2>3. CASE ProducerPost
    BY <2>3 DEF ProducerPost, SemChannel!Next, SemChannel!Put
  <2>4. CASE CustomerWait
    BY <2>4 DEF CustomerWait, Passable
  <2>5. CASE CustomerRead
    BY <2>5 DEF CustomerRead
  <2>6. CASE CustomerPrint
    BY <2>6 DEF CustomerPrint, SemChannel!Next, SemChannel!Take
  <2>7. CASE CustomerPost
    BY <2>7 DEF CustomerPost
  <2>8. CASE MainStep
    BY <2>8 DEF MainStep, CreateProducer, CreateCustomer, JoinAndDestroy
  <2>9. CASE UNCHANGED semVars
    BY <2>9 DEF semVars
  <2> QED
    BY <2>1, <2>2, <2>3, <2>4, <2>5, <2>6, <2>7, <2>8, <2>9
       DEF SemNext, ProducerStep, CustomerStep, SemExited
<1>3. SemSpec => []SemInv
  BY TokenInit, TokenStep, PTL DEF SemSpec
<1> QED
  BY <1>1, <1>2, <1>3, PTL DEF SemSpec, SemImplementsChannel, SemChannel!Spec
=============================================================================
