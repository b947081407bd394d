-------------------------------- MODULE Ping --------------------------------
(***************************************************************************)
(* ping_test of ping.c: main, the sending and the receiving thread and the *)
(* SIGINT handler, which share the table of packets, two counters, two     *)
(* "alive" words and ping_flag without a lock.                             *)
(*                                                                         *)
(* The network loses, delays, reorders and duplicates replies, and the raw *)
(* socket shows the program every other ICMP packet, too: a stranger, or,  *)
(* when it is an echo reply with our 16 bit id, a namesake.                *)
(* Time is not modelled: select may time out whenever it waits, the three  *)
(* seconds of tv being shared by all its rounds, and sleep is a pause.     *)
(* main.c calls ping_test once; the function is exported, so it may be     *)
(* called again, and then finds the counters as the last call left them.   *)
(***************************************************************************)
EXTENDS Integers, FiniteSets

CONSTANTS PACKET_SEND_MAX_NUM,
          Tries,          \* the 3 of "i++ >= 3"
          MaxCalls,       \* bound: calls of ping_test
          MaxStrangers,   \* bound: strangers that arrive
          ForeignSeqs,    \* the sequence numbers of namesakes
          MaxNamesakes,   \* bound: namesakes that arrive
          MaxDups         \* bound: replies that arrive once more

ASSUME PingAssumption ==
  /\ PACKET_SEND_MAX_NUM \in Nat \ {0} /\ Tries \in Nat /\ MaxCalls \in Nat \ {0}
  /\ MaxStrangers \in Nat /\ MaxDups \in Nat
  /\ ForeignSeqs \subseteq Nat /\ MaxNamesakes \in Nat

Max == PACKET_SEND_MAX_NUM
Slot == 0..(Max - 1)

VARIABLES
  main, call, result,       \* main's place, the number of the call, what it returned
  sender, receiver,         \* the threads' places
  errs, odd,                \* their locals i: failed sends, packets of no use
  failed,                   \* size < 0 of the last sendto
  alive_send, alive_recv, send_count, recv_count, ping_flag,
  flag,                     \* ping_packet[].flag: 1 from sending to the reply
  wire,                     \* sequence numbers a reply of which may still come
  dups, strangers, namesakes,   \* how many came so far
  foreign,                  \* history: strangers in this call
  interrupted,              \* history: SIGINT came in this call
  beyond                    \* history: where ping_packet was written past its end

shared == <<alive_send, alive_recv, send_count, recv_count, ping_flag, flag>>
net == <<wire, dups, strangers, namesakes>>
hist == <<foreign, interrupted, beyond>>
vars == <<main, call, result, sender, receiver, errs, odd, failed, shared, net, hist>>

Init ==
  /\ main = "start" /\ call = 1 /\ result = 0
  /\ sender = "none" /\ receiver = "none" /\ errs = 0 /\ odd = 0 /\ failed = FALSE
  /\ alive_send = 0 /\ alive_recv = 0 /\ send_count = 0 /\ recv_count = 0
  /\ ping_flag = 0 /\ flag = [s \in Slot |-> 0]
  /\ wire = {} /\ dups = 0 /\ strangers = 0 /\ namesakes = 0
  /\ foreign = 0 /\ interrupted = FALSE /\ beyond = {}
-----------------------------------------------------------------------------
(* main                                                                    *)

\* Socket, address, the handler and the threads.
Start ==
  /\ main = "start"
  /\ alive_send' = 1 /\ alive_recv' = 1
  /\ sender' = "test" /\ receiver' = "test" /\ errs' = 0 /\ odd' = 0 /\ main' = "join"
  /\ foreign' = 0 /\ interrupted' = FALSE
  /\ UNCHANGED <<call, result, failed, send_count, recv_count, ping_flag, flag, net, beyond>>

\* No protocol, socket or address: nothing has been started.
StartFails ==
  /\ main = "start"
  /\ result' = -1 /\ main' = "returned"
  /\ UNCHANGED <<call, sender, receiver, errs, odd, failed, shared, net, hist>>

\* A thread cannot be made: -1, and main.c ends the process.  If it is the
\* second one, the sender goes on until the process has ended.
CreateFails ==
  /\ main = "start"
  /\ result' = -1 /\ main' = "exit" /\ alive_send' = 1 /\ alive_recv' = 1
  /\ \/ UNCHANGED <<sender, errs>>
     \/ sender' = "test" /\ errs' = 0
  /\ UNCHANGED <<call, receiver, odd, failed, send_count, recv_count, ping_flag, flag,
                 net, hist>>

\* Division in C: towards zero.
Quot(a, b) == IF a >= 0 THEN a \div b ELSE -((-a) \div b)

Loss == Quot((send_count - recv_count) * 100, send_count)

\* Slip: a loss below one hundred percent passes.
RoundedVerdict == IF Loss \div 100 = 0 THEN 0 ELSE -1
\* Slip: the percentage is returned.
LossVerdict == Loss
\* ping_flag = tmp == 0 ? 0 : -1, whatever it was before.
Verdict == IF Loss = 0 THEN 0 ELSE -1

\* Both threads joined: ping_stats_show, which divides by send_count, and the
\* return of ping_flag.
Finish ==
  /\ main = "join" /\ sender = "done" /\ receiver = "done"
  /\ IF send_count = 0
     THEN main' = "trapped" /\ UNCHANGED <<ping_flag, result>>
     ELSE main' = "returned" /\ ping_flag' = Verdict /\ result' = Verdict
  /\ UNCHANGED <<call, sender, receiver, errs, odd, failed, alive_send, alive_recv,
                 send_count, recv_count, flag, net, hist>>

CallAgain ==
  /\ main = "returned" /\ call < MaxCalls
  /\ call' = call + 1 /\ main' = "start"
  /\ UNCHANGED <<result, sender, receiver, errs, odd, failed, shared, net, hist>>

\* icmp_sigint, on whatever thread; select does not go on after a handler.
Sigint ==
  /\ main = "join"
  /\ alive_send' = 0 /\ alive_recv' = 0 /\ interrupted' = TRUE
  /\ \/ UNCHANGED <<receiver, ping_flag>>
     \/ receiver = "select" /\ receiver' = "done" /\ ping_flag' = -1
  /\ UNCHANGED <<main, call, result, sender, errs, odd, failed, send_count, recv_count,
                 flag, net, foreign, beyond>>
-----------------------------------------------------------------------------
(* ping_send                                                               *)

SendTest ==
  /\ sender = "test"
  /\ sender' = IF alive_send = 1 THEN "send" ELSE "done"
  /\ UNCHANGED <<main, call, result, receiver, errs, odd, failed, shared, net, hist>>

\* ping_packet[k].flag = v; what lies behind the table is not modelled, only
\* that it was written to.
SetFlag(k, v) ==
  /\ flag' = IF k \in Slot THEN [flag EXCEPT ![k] = v] ELSE flag
  /\ beyond' = beyond \cup ({k} \ Slot)

Send ==
  /\ sender = "send"
  /\ SetFlag(send_count, 1)
  /\ \/ wire' = wire \cup {send_count} /\ failed' = FALSE
     \/ failed' = TRUE /\ UNCHANGED wire
  /\ sender' = "count"
  /\ UNCHANGED <<main, call, result, receiver, errs, odd, alive_send, alive_recv,
                 send_count, recv_count, ping_flag, dups, strangers, namesakes, foreign,
                 interrupted>>

\* Slip: a packet that was not sent is not counted.
CountedIfSent == IF failed THEN send_count ELSE send_count + 1
\* ++send_count
Counted == send_count + 1

\* ++send_count >= PACKET_SEND_MAX_NUM
AllSent == Counted >= Max

\* The count, the end of the loop, and what a failure does.
Count ==
  /\ sender = "count"
  /\ send_count' = Counted
  /\ \/ AllSent /\ alive_send' = 0 /\ sender' = "done" /\ UNCHANGED <<errs, ping_flag>>
     \/ ~AllSent /\ ~failed /\ sender' = "test" /\ UNCHANGED <<errs, ping_flag, alive_send>>
     \/ /\ ~AllSent /\ failed /\ errs' = errs + 1 /\ UNCHANGED alive_send
        /\ IF errs >= Tries THEN sender' = "done" /\ ping_flag' = -1
           ELSE sender' = "test" /\ UNCHANGED ping_flag
  /\ UNCHANGED <<main, call, result, receiver, odd, failed, alive_recv, recv_count, flag,
                 net, hist>>
-----------------------------------------------------------------------------
(* ping_recv                                                               *)

RecvTest ==
  /\ receiver = "test"
  /\ receiver' = IF alive_recv = 1 THEN "select" ELSE "done"
  /\ UNCHANGED <<main, call, result, sender, errs, odd, failed, shared, net, hist>>

\* Slip: a timeout is tried again.
WaitOn == receiver = "select" /\ receiver' = "test" /\ UNCHANGED ping_flag
\* select returns 0 or -1.
GiveUp == receiver = "select" /\ receiver' = "done" /\ ping_flag' = -1

Timeout ==
  /\ GiveUp
  /\ UNCHANGED <<main, call, result, sender, errs, odd, failed, alive_send, alive_recv,
                 send_count, recv_count, flag, net, hist>>

\* recv fails although select said otherwise (a bad checksum): once more.
RecvFails ==
  /\ receiver = "select" /\ wire # {}
  /\ receiver' = "test"
  /\ UNCHANGED <<main, call, result, sender, errs, odd, failed, shared, net, hist>>

\* ++recv_count >= PACKET_SEND_MAX_NUM
CountReply ==
  /\ recv_count' = recv_count + 1
  /\ IF recv_count + 1 >= Max THEN alive_recv' = 0 /\ receiver' = "done"
     ELSE receiver' = "test" /\ UNCHANGED alive_recv

\* icmp_unpack refuses a packet: after a few it is counted all the same.
Refuse ==
  /\ odd' = odd + 1
  /\ IF odd >= Tries THEN ping_flag' = -1 /\ CountReply
     ELSE receiver' = "test" /\ UNCHANGED <<ping_flag, recv_count, alive_recv>>

\* Slip: only the lower end is tested.
AnyNumber(s) == s >= 0
\* The range test of icmp_unpack, which lets PACKET_SEND_MAX_NUM pass.
InRange(s) == s <= Max

\* An echo reply with our id: the table entry it names is closed.
Unpack(s) ==
  IF InRange(s) THEN SetFlag(s, 0) /\ CountReply /\ UNCHANGED <<odd, ping_flag>>
  ELSE Refuse /\ UNCHANGED <<flag, beyond>>

\* A reply of ours, perhaps one that came before.
RecvReply(s) ==
  /\ receiver = "select" /\ s \in wire
  /\ \/ wire' = wire \ {s} /\ UNCHANGED dups
     \/ dups < MaxDups /\ dups' = dups + 1 /\ UNCHANGED wire
  /\ Unpack(s)
  /\ UNCHANGED <<main, call, result, sender, errs, failed, alive_send, send_count,
                 strangers, namesakes, foreign, interrupted>>

\* An echo reply for a process elsewhere whose id agrees with ours in 16 bits:
\* icmp_unpack cannot tell it from a reply to one of our packets.
RecvNamesake(s) ==
  /\ receiver = "select" /\ namesakes < MaxNamesakes
  /\ namesakes' = namesakes + 1
  /\ Unpack(s)
  /\ UNCHANGED <<main, call, result, sender, errs, failed, alive_send, send_count, wire,
                 dups, strangers, foreign, interrupted>>

\* A packet with another id, or not an echo reply, or too short.
RecvStranger ==
  /\ receiver = "select" /\ strangers < MaxStrangers
  /\ strangers' = strangers + 1 /\ foreign' = foreign + 1
  /\ Refuse
  /\ UNCHANGED <<main, call, result, sender, errs, failed, alive_send, send_count, flag,
                 wire, dups, namesakes, interrupted, beyond>>
-----------------------------------------------------------------------------
Sender == SendTest \/ Send \/ Count
Receiver ==
  \/ RecvTest \/ Timeout \/ RecvFails \/ RecvStranger
  \/ (\E s \in wire : RecvReply(s)) \/ (\E s \in ForeignSeqs : RecvNamesake(s))
Main == Start \/ StartFails \/ CreateFails \/ Finish \/ CallAgain

Next == Main \/ Sender \/ Receiver \/ Sigint

\* The threads are scheduled, sleep ends, and select ends by its timeout at the
\* latest; recv does not fail for ever.
Spec ==
  /\ Init /\ [][Next]_vars
  /\ WF_vars(Start \/ StartFails \/ CreateFails \/ Finish) /\ WF_vars(Sender)
  /\ WF_vars(RecvTest) /\ SF_vars(Timeout)
-----------------------------------------------------------------------------
\* Types.
TypeOK ==
  /\ main \in {"start", "join", "returned", "trapped", "exit"}
  /\ call \in 1..MaxCalls /\ result \in {0, -1}
  /\ sender \in {"none", "test", "send", "count", "done"}
  /\ receiver \in {"none", "test", "select", "done"}
  /\ errs \in 0..(Tries + 1) /\ odd \in Nat /\ failed \in BOOLEAN
  /\ alive_send \in {0, 1} /\ alive_recv \in {0, 1} /\ ping_flag \in {0, -1}
  /\ send_count \in 0..(Max + call - 1) /\ recv_count \in Nat
  /\ flag \in [Slot -> {0, 1}]
  /\ wire \subseteq 0..(send_count + 1) /\ dups \in 0..MaxDups
  /\ strangers \in 0..MaxStrangers /\ foreign \in 0..MaxStrangers
  /\ namesakes \in 0..MaxNamesakes
  /\ interrupted \in BOOLEAN /\ beyond \subseteq Nat

\* How far past its end ping_packet is written.  send_count is never reset
\* (ping.c:140-144), so the n-th call reaches n - 1 entries too far, the first one
\* none; and the range test (ping.c:110-114) lets an echo reply write one entry
\* too far, which in the first call only a namesake's number can do.
OverrunBounded ==
  beyond \subseteq (Max..(Max + call - 2)) \cup (IF namesakes > 0 THEN {Max} ELSE {})

\* ping_test returns 0 (ping.c:226-230) only when every packet counted as sent was
\* answered, as long as no reply came twice and none with our id for another
\* process, at most Tries strangers came and at most 100 packets were counted:
\* above that the percentage rounds a loss to zero.
\* An error the threads noticed in ping_flag is forgotten, but cannot hide.
HonestSuccess ==
  (/\ main = "returned" /\ result = 0 /\ dups = 0 /\ namesakes = 0
   /\ strangers <= Tries /\ send_count <= 100)
    => \A s \in Slot : s < send_count => flag[s] = 0

\* The division traps (ping.c:226) only if SIGINT came in this call before the
\* first packet was counted: alone, neither a lost reply nor a failed send does it.
TrapsOnlyInterrupted == main = "trapped" => interrupted /\ wire = {}

\* ping_test comes back, or traps (ping.c:284-288): both threads end.
Returns == main = "join" ~> main \in {"returned", "trapped"}

\* "不是属于自己的icmp包，丢弃不处理" (ping.c:202): a packet that is not ours is thrown
\* away and not dealt with, so it is not counted as received.
StrangersDiscarded == [][strangers' # strangers => recv_count' = recv_count]_vars
=============================================================================
