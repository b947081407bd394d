----------------------------- MODULE SemBuffer -----------------------------
(***************************************************************************)
(* semaphore_test/sem_test.c: a producer and a customer alternate on one   *)
(* int through the counting semaphores put (initially 1) and get           *)
(* (initially 0).  The code stores to buff[1] of an array of one int; in   *)
(* the program's data segment that word is padding after buff, which       *)
(* nothing else uses, so it is modelled as the cell cell.                  *)
(***************************************************************************)
EXTENDS Naturals, Sequences

CONSTANT Items   \* the loop bound 10

ASSUME ItemsAssumption == Items \in Nat

VARIABLES put, get,  \* the semaphores
          cell,      \* buff[1]
          value,     \* the customer's local value
          ppc, pi,   \* where the producer is, and its i
          cpc, ci,   \* the same for the customer
          printed,   \* the values the customer printed
          mpc        \* where main is

pvars == <<ppc, pi>>
cvars == <<cpc, ci, value, printed>>
semVars == <<put, get, cell, pvars, cvars, mpc>>

\* Slips the properties must notice: a wait that does not block, a post to the
\* wrong semaphore, two tokens to begin with, a forgotten post, one item less.
DoNotWait(sem) == TRUE
TwoPlaces == 2
NoPost == get
StopEarly(i) == i < Items

\* sem_wait blocks while the count is zero.
Passable(sem) == sem > 0

\* sem_init(&put, 0, 1)
InitialPut == 1

\* The value of get after the producer's sem_post(&get).
GetAfterPost == get + 1

\* i <= 10
InRange(i) == i <= Items
-----------------------------------------------------------------------------
SemInit ==
  /\ put = InitialPut /\ get = 0
  /\ cell = 0 /\ value = 0
  /\ ppc = "unborn" /\ pi = 1
  /\ cpc = "unborn" /\ ci = 1
  /\ printed = <<>>
  /\ mpc = "create"

\* producer_signal, one action per statement of its loop.
ProducerWait ==
  /\ ppc = "wait" /\ Passable(put)
  /\ put' = put - 1
  /\ ppc' = "write"
  /\ UNCHANGED <<get, cell, pi, cvars, mpc>>

ProducerWrite ==
  /\ ppc = "write"
  /\ cell' = pi
  /\ ppc' = "post"
  /\ UNCHANGED <<put, get, pi, cvars, mpc>>

ProducerPost ==
  /\ ppc = "post"
  /\ get' = GetAfterPost
  /\ pi' = pi + 1
  /\ ppc' = IF InRange(pi + 1) THEN "wait" ELSE "done"
  /\ UNCHANGED <<put, cell, cvars, mpc>>

\* customer_signal: wait, read the cell, print it and post.
CustomerWait ==
  /\ cpc = "wait" /\ Passable(get)
  /\ get' = get - 1
  /\ cpc' = "read"
  /\ UNCHANGED <<put, cell, pvars, ci, value, printed, mpc>>

CustomerRead ==
  /\ cpc = "read"
  /\ value' = cell
  /\ cpc' = "print"
  /\ UNCHANGED <<put, get, cell, pvars, ci, printed, mpc>>

CustomerPrint ==
  /\ cpc = "print"
  /\ printed' = Append(printed, value)
  /\ cpc' = "post"
  /\ UNCHANGED <<put, get, cell, pvars, ci, value, mpc>>

CustomerPost ==
  /\ cpc = "post"
  /\ put' = put + 1
  /\ ci' = ci + 1
  /\ cpc' = IF InRange(ci + 1) THEN "wait" ELSE "done"
  /\ UNCHANGED <<get, cell, pvars, value, printed, mpc>>

\* main creates both threads, in this order, joins them and destroys the
\* semaphores.
CreateProducer ==
  /\ mpc = "create" /\ ppc = "unborn"
  /\ ppc' = IF InRange(pi) THEN "wait" ELSE "done"
  /\ UNCHANGED <<put, get, cell, pi, cvars, mpc>>

CreateCustomer ==
  /\ mpc = "create" /\ ppc # "unborn"
  /\ cpc' = IF InRange(ci) THEN "wait" ELSE "done"
  /\ mpc' = "join"
  /\ UNCHANGED <<put, get, cell, pvars, ci, value, printed>>

JoinAndDestroy ==
  /\ mpc = "join" /\ ppc = "done" /\ cpc = "done"
  /\ mpc' = "exit"
  /\ UNCHANGED <<put, get, cell, pvars, cvars>>

SemExited == mpc = "exit" /\ UNCHANGED semVars

ProducerStep == ProducerWait \/ ProducerWrite \/ ProducerPost
CustomerStep == CustomerWait \/ CustomerRead \/ CustomerPrint \/ CustomerPost
MainStep == CreateProducer \/ CreateCustomer \/ JoinAndDestroy

SemNext == ProducerStep \/ CustomerStep \/ MainStep \/ SemExited

SemSpec == SemInit /\ [][SemNext]_semVars

\* The three threads are scheduled; a semaphore that stays positive is passed.
SemFairSpec ==
  SemSpec /\ WF_semVars(ProducerStep) /\ WF_semVars(CustomerStep) /\ WF_semVars(MainStep)
-----------------------------------------------------------------------------
\* Types of the variables; the bounds on the semaphores say that one place is
\* never counted twice.
SemTypeOK ==
  /\ put \in 0..1 /\ get \in 0..1
  /\ cell \in 0..Items /\ value \in 0..Items
  /\ ppc \in {"unborn", "wait", "write", "post", "done"}
  /\ cpc \in {"unborn", "wait", "read", "print", "post", "done"}
  /\ pi \in 1..(Items + 1) /\ ci \in 1..(Items + 1)
  /\ printed \in Seq(0..Items)
  /\ mpc \in {"create", "join", "exit"}

ProducerHolds == ppc \in {"write", "post"}
CustomerHolds == cpc \in {"read", "print", "post"}

\* There is one token: it is in put, in get or with one of the threads, so the
\* producer never writes buff[1] while the customer reads it
\* (sem_test.c:27 and 41 never overlap).
OneToken ==
  put + get + (IF ProducerHolds THEN 1 ELSE 0) + (IF CustomerHolds THEN 1 ELSE 0) = 1

\* The customer prints 1, 2, 3, ...: no value is skipped or printed twice
\* (sem_test.c:42).
PrintedInOrder == \A k \in 1..Len(printed) : printed[k] = k

\* Both loops end and main returns after ten values have been printed.
AllPrinted == <>(mpc = "exit" /\ Len(printed) = Items)

\* The channel's slot: full from the producer's post until the value is printed.
SlotFull == get = 1 \/ cpc \in {"read", "print"}

\* The inductive invariant: where the token is tells how far the producer is
\* ahead of the customer, and what the cell holds.
TokenInv ==
  /\ OneToken
  /\ PrintedInOrder
  /\ mpc = "create" => cpc = "unborn"
  /\ ppc \in {"wait", "write", "post"} => pi <= Items
  /\ cpc \in {"wait", "read", "print", "post"} => ci <= Items
  /\ ci = IF cpc = "post" THEN Len(printed) ELSE Len(printed) + 1
  /\ pi = IF SlotFull THEN Len(printed) + 2 ELSE Len(printed) + 1
  /\ SlotFull => cell = Len(printed) + 1
  /\ ppc = "post" => cell = pi
  /\ cpc = "print" => value = cell

SemChannel == INSTANCE OneSlotChannel WITH
  Last <- Items, slot <- IF SlotFull THEN cell ELSE 0, out <- printed

\* The semaphore program implements the one-slot channel.
SemImplementsChannel == SemChannel!Spec
=============================================================================
