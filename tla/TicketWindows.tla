---------------------------- MODULE TicketWindows ----------------------------
(***************************************************************************)
(* mutex_test/mutex_test.c: four ticket windows (tprocess1..tprocess4, one *)
(* body written four times) sell a shared stock of tickets under one       *)
(* pthread mutex; main creates them, joins them and destroys the mutex.    *)
(*                                                                         *)
(* The mutex is modelled by what the default (normal) glibc mutex does:    *)
(* it is a word that is locked or not, and pthread_mutex_unlock clears it  *)
(* whoever calls.  That matters here because every window calls unlock a   *)
(* second time after its loop, when it no longer owns the mutex.           *)
(* tickets-- is a load and a store, so that a failure of mutual exclusion  *)
(* could lose an update.                                                   *)
(***************************************************************************)
EXTENDS Naturals, FiniteSets

CONSTANTS Windows,  \* the selling threads
          Tickets   \* the initial stock, 10 in the source

ASSUME TicketsAssumption == Tickets \in Nat

VARIABLES tickets,  \* int tickets
          locked,   \* the futex word of mut
          wpc,       \* where each window is
          a,        \* the local flag a of each window
          reg,      \* the value tickets-- has loaded
          sold,     \* history: how many times tickets-- was executed
          main      \* where main is

ticketVars == <<tickets, locked, wpc, a, reg, sold, main>>

Locations == {"unborn", "lock", "check", "load", "store", "unlock", "test",
              "unlock2", "done"}

\* The statements between pthread_mutex_lock and the unlock that pairs with it.
Inside(t) == wpc[t] \in {"check", "load", "store", "unlock"}

MoveTo(t, l) == wpc' = [wpc EXCEPT ![t] = l]

\* Plausible slips in two of the conditions below: a lock that does not wait, a
\* stock test that is one too strict.
LockWithoutWaiting == TRUE
KeepLastTicket == tickets > 1

\* What pthread_mutex_lock waits for.
MutexFree == locked = 0

\* The condition of the if.
InStock == tickets > 0

\* What the four joins wait for.
AllReturned == \A t \in Windows : wpc[t] = "done"
-----------------------------------------------------------------------------
TicketInit ==
  /\ tickets = Tickets
  /\ locked = 0
  /\ wpc = [t \in Windows |-> "unborn"]
  /\ a = [t \in Windows |-> 0]
  /\ reg = [t \in Windows |-> 0]
  /\ sold = 0
  /\ main = "create"

\* pthread_create of one window; the order of the four calls is left open.
Create(t) ==
  /\ main = "create"
  /\ wpc[t] = "unborn"
  /\ MoveTo(t, "lock")
  /\ UNCHANGED <<tickets, locked, a, reg, sold, main>>

\* The four pthread_join calls return once every window has returned.
Join ==
  /\ main = "create"
  /\ AllReturned
  /\ main' = "joined"
  /\ UNCHANGED <<tickets, locked, wpc, a, reg, sold>>

\* pthread_mutex_destroy, then return 0.
Destroy ==
  /\ main = "joined"
  /\ main' = "exit"
  /\ UNCHANGED <<tickets, locked, wpc, a, reg, sold>>

\* pthread_mutex_lock: blocks while the word is set.
LockMutex(t) ==
  /\ wpc[t] = "lock"
  /\ MutexFree
  /\ locked' = 1
  /\ MoveTo(t, "check")
  /\ UNCHANGED <<tickets, a, reg, sold, main>>

\* if (tickets > 0) { sleep(1); ... } else a = 1;
CheckTickets(t) ==
  /\ wpc[t] = "check"
  /\ IF InStock
       THEN MoveTo(t, "load") /\ UNCHANGED a
       ELSE MoveTo(t, "unlock") /\ a' = [a EXCEPT ![t] = 1]
  /\ UNCHANGED <<tickets, locked, reg, sold, main>>

\* tickets--, first half.
LoadTickets(t) ==
  /\ wpc[t] = "load"
  /\ reg' = [reg EXCEPT ![t] = tickets]
  /\ MoveTo(t, "store")
  /\ UNCHANGED <<tickets, locked, a, sold, main>>

\* tickets--, second half: the loaded value less one is written back.
StoreTickets(t) ==
  /\ wpc[t] = "store"
  /\ tickets' = reg[t] - 1
  /\ sold' = sold + 1
  /\ MoveTo(t, "unlock")
  /\ UNCHANGED <<locked, a, reg, main>>

\* The unlock that pairs with the lock.
UnlockMutex(t) ==
  /\ wpc[t] = "unlock"
  /\ locked' = 0
  /\ MoveTo(t, "test")
  /\ UNCHANGED <<tickets, a, reg, sold, main>>

\* sleep(1); if (a == 1) break;
TestFlag(t) ==
  /\ wpc[t] = "test"
  /\ MoveTo(t, IF a[t] = 1 THEN "unlock2" ELSE "lock")
  /\ UNCHANGED <<tickets, locked, a, reg, sold, main>>

\* The second unlock, after the loop: this window does not hold the mutex.
UnlockAgain(t) ==
  /\ wpc[t] = "unlock2"
  /\ locked' = 0
  /\ MoveTo(t, "done")
  /\ UNCHANGED <<tickets, a, reg, sold, main>>

Window(t) ==
  \/ LockMutex(t) \/ CheckTickets(t) \/ LoadTickets(t) \/ StoreTickets(t)
  \/ UnlockMutex(t) \/ TestFlag(t) \/ UnlockAgain(t)

Main == (\E t \in Windows : Create(t)) \/ Join \/ Destroy

\* main has returned: the process has ended.
Exited == main = "exit" /\ UNCHANGED ticketVars

TicketNext == (\E t \in Windows : Window(t)) \/ Main \/ Exited

TicketSpec == TicketInit /\ [][TicketNext]_ticketVars

\* Every runnable thread is scheduled again and again; a window waiting for
\* the mutex only needs it to stay free for good, so weak fairness is enough.
TicketFairSpec == TicketSpec /\ WF_ticketVars(Main) /\ \A t \in Windows : WF_ticketVars(Window(t))
-----------------------------------------------------------------------------
\* Types of the shared and local variables.
TicketTypeOK ==
  /\ tickets \in 0..Tickets
  /\ locked \in {0, 1}
  /\ wpc \in [Windows -> Locations]
  /\ a \in [Windows -> {0, 1}]
  /\ reg \in [Windows -> 0..Tickets]
  /\ sold \in Nat
  /\ main \in {"create", "joined", "exit"}

\* Every execution of tickets-- (mutex_test.c:21) took one ticket off the
\* stock: no update is lost and no ticket is sold twice or below zero, even
\* though the second unlock lets two windows into the section at once.
NoTicketLost == sold + tickets = Tickets

\* A window leaves its loop (mutex_test.c:28) only when the stock is gone, so
\* the mutex is released out of turn only when nothing is left to protect.
LeavesOnlySoldOut == \A t \in Windows : wpc[t] \in {"unlock2", "done"} => tickets = 0

\* "能够让所有的线程执行完毕" (mutex_test.c:122): the joins return and the
\* program ends with every ticket sold.
EndsSoldOut == <>(main = "exit" /\ tickets = 0 /\ sold = Tickets)

\* Two windows are never between lock and unlock together.  The second unlock
\* breaks this once the stock is gone.
MutualExclusion == \A t, u \in Windows : Inside(t) /\ Inside(u) => t = u

\* As long as there is a ticket to sell, the unlock out of turn
\* (mutex_test.c:31) lets nobody in beside the owner, and what a window is about
\* to write back (mutex_test.c:21) is one less than the stock as it is now.
SaleExclusive ==
  /\ tickets > 0 => MutualExclusion
  /\ \A t \in Windows : wpc[t] = "store" => reg[t] = tickets /\ tickets > 0

\* The inductive invariant behind NoTicketLost.  While tickets remain no window
\* has reached its second unlock, so the section is exclusive; once the stock
\* is gone nobody loads or stores it any more.
StockInv ==
  /\ tickets > 0 =>
       /\ MutualExclusion
       /\ \A t \in Windows : Inside(t) => locked = 1
       /\ \A t \in Windows : a[t] = 0 /\ wpc[t] \notin {"unlock2", "done"}
  /\ \A t \in Windows :
       /\ wpc[t] \in {"load", "store"} => tickets > 0
       /\ wpc[t] = "store" => reg[t] = tickets
       /\ wpc[t] \in {"unlock2", "done"} => tickets = 0
  /\ NoTicketLost
=============================================================================
