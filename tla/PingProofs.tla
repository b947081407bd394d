----------------------------- MODULE PingProofs -----------------------------
(***************************************************************************)
(* Proofs about Ping, for any number of packets, tries and calls, and any  *)
(* number of strangers, namesakes and duplicates.                          *)
(***************************************************************************)
EXTENDS Ping, TLAPS, FiniteSetTheorems

\* The sender is in its loop.
Sending == sender \in {"test", "send", "count"}

\* The packets sent so far: the one that is being counted is sent already.
Sent == IF sender = "count" THEN send_count + 1 ELSE send_count

\* The threads run only while main waits for them, or the sender until the process
\* ends for want of a receiver; what main returned is the verdict on the counters
\* as they still are.
PlaceInv ==
  /\ main \notin {"join", "exit"} => sender \in {"none", "done"}
  /\ main # "join" => receiver \in {"none", "done"}
  /\ main = "returned" /\ result = 0 => send_count # 0 /\ Loss = 0

\* How far the sender may count in a call, which replies may be under way, and
\* that before the first count only SIGINT stops the sender.
SendInv ==
  /\ Sending => errs <= Tries
  /\ Sending \/ main = "start" => send_count <= Max + call - 2
  /\ wire \subseteq 0..(Sent - 1)
  /\ OverrunBounded
  /\ foreign <= strangers
  /\ main = "join" /\ send_count = 0 =>
       (alive_send = 1 \/ interrupted) /\ (sender = "done" => interrupted)
  /\ TrapsOnlyInterrupted

\* Packets in the table that wait for their reply, and replies under way that
\* have no place in it.
Open == {s \in Slot : flag[s] = 1}
Late == wire \ Slot

\* Refused packets of this call that were not counted, strangers apart: each
\* lets one stranger be counted in its place.
Credit == (IF odd < Tries THEN odd ELSE Tries) - foreign

\* Each echo reply with our id is the first one to a packet of ours.
Genuine == dups = 0 /\ namesakes = 0

\* Every reply counted answers another packet.
CreditInv ==
  /\ foreign <= odd
  /\ Genuine => \A s \in wire \cap Slot : flag[s] = 1
  /\ Genuine /\ strangers <= Tries =>
       recv_count + Cardinality(Open) + Cardinality(Late) + Credit <= Sent

Inv == TypeOK /\ PlaceInv /\ SendInv /\ CreditInv
-----------------------------------------------------------------------------
(* Cardinalities.                                                          *)

LEMMA CardAdd ==
  ASSUME NEW S, IsFiniteSet(S), NEW x
  PROVE  /\ IsFiniteSet(S \cup {x})
         /\ Cardinality(S \cup {x}) \in Nat
         /\ Cardinality(S \cup {x}) <= Cardinality(S) + 1
<1>1. Cardinality(S) \in Nat
  BY FS_CardinalityType
<1>2. /\ IsFiniteSet(S \cup {x})
      /\ Cardinality(S \cup {x}) = IF x \in S THEN Cardinality(S) ELSE Cardinality(S) + 1
  BY FS_AddElement
<1> QED
  BY <1>1, <1>2

LEMMA CardDrop ==
  ASSUME NEW S, IsFiniteSet(S), NEW x \in S
  PROVE  /\ Cardinality(S \ {x}) \in Nat
         /\ Cardinality(S \ {x}) = Cardinality(S) - 1
BY FS_RemoveElement, FS_CardinalityType

\* The table and what is under way are finite.
LEMMA Finite ==
  ASSUME TypeOK
  PROVE  /\ IsFiniteSet(Open) /\ Cardinality(Open) \in Nat
         /\ IsFiniteSet(Late) /\ Cardinality(Late) \in Nat
<1>1. Max \in Int /\ send_count \in Int
  BY PingAssumption DEF TypeOK, Max
<1>2. IsFiniteSet(Slot) /\ IsFiniteSet(0..(send_count + 1))
  BY <1>1, FS_Interval DEF Slot
<1>3. Open \subseteq Slot /\ Late \subseteq 0..(send_count + 1)
  BY DEF Open, Late, TypeOK
<1>4. IsFiniteSet(Open) /\ IsFiniteSet(Late)
  BY <1>2, <1>3, FS_Subset
<1> QED
  BY <1>4, FS_CardinalityType
-----------------------------------------------------------------------------
(* What every action preserves.                                            *)

LEMMA InitInv == Init => Inv
<1> SUFFICES ASSUME Init PROVE Inv
  OBVIOUS
<1> USE PingAssumption DEF Max
<1>1. TypeOK
  <2>1. failed \in BOOLEAN /\ interrupted \in BOOLEAN
    BY DEF Init
  <2>2. flag \in [Slot -> {0, 1}]
    BY DEF Init
  <2> QED
    BY <2>1, <2>2 DEF Init, TypeOK
<1>2. PlaceInv
  BY DEF Init, PlaceInv
<1>3. SendInv
  BY DEF Init, SendInv, Sending, Sent, OverrunBounded, TrapsOnlyInterrupted
<1>4. Open = {} /\ Late = {}
  BY DEF Init, Open, Late
<1>5. CreditInv
  BY <1>4, FS_EmptySet DEF Init, CreditInv, Credit, Sent
<1> QED
  BY <1>1, <1>2, <1>3, <1>5 DEF Inv

\* A step that touches neither the counters nor the table keeps the balance.
LEMMA CreditFrame ==
  ASSUME CreditInv, Sent' = Sent,
         UNCHANGED <<foreign, odd, dups, strangers, namesakes, recv_count, wire, flag>>
  PROVE  CreditInv'
<1>1. Open' = Open /\ Late' = Late /\ Credit' = Credit /\ Genuine' = Genuine
  BY DEF Open, Late, Credit, Genuine
<1> QED
  BY <1>1 DEF CreditInv

\* The Boolean variables keep their type.
LEMMA FlagsStep ==
  ASSUME TypeOK, Next
  PROVE  failed' \in BOOLEAN /\ interrupted' \in BOOLEAN
<1>0. failed \in BOOLEAN /\ interrupted \in BOOLEAN
  BY DEF TypeOK
<1> USE <1>0 DEF hist
<1>1. CASE Main
  BY <1>1, Zenon DEF Main, Start, StartFails, CreateFails, Finish, CallAgain
<1>2. CASE Sigint
  BY <1>2, Zenon DEF Sigint
<1>3. CASE Sender
  BY <1>3, Zenon DEF Sender, SendTest, Send, Count
<1>4. CASE Receiver
  <2>1. UNCHANGED <<failed, interrupted>>
    BY <1>4, Zenon DEF Receiver, RecvTest, Timeout, RecvFails, RecvStranger, RecvReply,
       RecvNamesake
  <2> QED
    BY <2>1, Zenon
<1> QED
  BY <1>1, <1>2, <1>3, <1>4 DEF Next

\* The table keeps its type: a write past its end is kept in beyond.
LEMMA TableStep ==
  ASSUME TypeOK, Next PROVE flag' \in [Slot -> {0, 1}] /\ beyond' \subseteq Nat
<1>0. flag \in [Slot -> {0, 1}] /\ beyond \subseteq Nat /\ send_count \in Nat
  BY PingAssumption DEF TypeOK, Max
<1>w. wire \subseteq Nat /\ ForeignSeqs \subseteq Nat
  BY PingAssumption DEF TypeOK
<1> DEFINE Kept == flag' \in [Slot -> {0, 1}] /\ beyond' \subseteq Nat
<1> USE <1>0
<1>1. ASSUME NEW k \in Nat, NEW v \in {0, 1}, SetFlag(k, v) PROVE Kept
  BY <1>1 DEF SetFlag
<1>2. CASE Send
  BY <1>1, <1>2 DEF Send
<1>3. ASSUME NEW s \in Nat, Unpack(s) PROVE Kept
  BY <1>1, <1>3 DEF Unpack
<1>4. CASE Main \/ Sigint \/ SendTest \/ Count
  BY <1>4 DEF Main, Start, StartFails, CreateFails, Finish, CallAgain, Sigint, SendTest,
     Count, shared, hist
<1>5. CASE RecvTest \/ Timeout \/ RecvFails \/ RecvStranger
  BY <1>5 DEF RecvTest, Timeout, RecvFails, RecvStranger, shared, hist
<1>6. ASSUME NEW s \in wire, RecvReply(s) PROVE Kept
  BY <1>w, <1>3, <1>6 DEF RecvReply
<1>7. ASSUME NEW s \in ForeignSeqs, RecvNamesake(s) PROVE Kept
  BY <1>w, <1>3, <1>7 DEF RecvNamesake
<1> QED
  BY <1>2, <1>4, <1>5, <1>6, <1>7 DEF Next, Sender, Receiver

LEMMA TypeStep == Inv /\ Next => TypeOK'
<1> SUFFICES ASSUME Inv, Next PROVE TypeOK'
  OBVIOUS
<1>0. TypeOK /\ SendInv
  BY DEF Inv
<1>00. /\ failed' \in BOOLEAN /\ interrupted' \in BOOLEAN
       /\ flag' \in [Slot -> {0, 1}] /\ beyond' \subseteq Nat
  BY <1>0, FlagsStep, TableStep
<1> DEFINE Others ==
      /\ main \in {"start", "join", "returned", "trapped", "exit"}
      /\ call \in 1..MaxCalls /\ result \in {0, -1}
      /\ sender \in {"none", "test", "send", "count", "done"}
      /\ receiver \in {"none", "test", "select", "done"}
      /\ errs \in 0..(Tries + 1) /\ odd \in Nat
      /\ alive_send \in {0, 1} /\ alive_recv \in {0, 1} /\ ping_flag \in {0, -1}
      /\ send_count \in 0..(Max + call - 1) /\ recv_count \in Nat
      /\ wire \subseteq 0..(send_count + 1) /\ dups \in 0..MaxDups
      /\ strangers \in 0..MaxStrangers /\ foreign \in 0..MaxStrangers
      /\ namesakes \in 0..MaxNamesakes
<1>01. SUFFICES Others'
  BY <1>00 DEF TypeOK
<1>02. Others
  BY <1>0 DEF TypeOK
<1> USE PingAssumption, <1>02 DEF Max, shared, net, hist
<1>1. CASE StartFails
  BY <1>1 DEF StartFails
<1>12. CASE CreateFails
  <2>1. /\ main' = "exit" /\ result' = -1 /\ alive_send' = 1 /\ alive_recv' = 1
        /\ (sender' = sender /\ errs' = errs) \/ (sender' = "test" /\ errs' = 0)
        /\ UNCHANGED <<call, receiver, odd, send_count, recv_count, ping_flag, wire, dups,
                       strangers, namesakes, foreign>>
    BY <1>12, Zenon DEF CreateFails
  <2> QED
    BY <2>1
<1>10. CASE Start
  <2>1. /\ alive_send' = 1 /\ alive_recv' = 1 /\ main' = "join" /\ sender' = "test"
        /\ receiver' = "test" /\ errs' = 0 /\ odd' = 0 /\ foreign' = 0
        /\ UNCHANGED <<call, result, send_count, recv_count, ping_flag, wire, dups, strangers,
                       namesakes>>
    BY <1>10, Zenon DEF Start
  <2> QED
    BY <2>1
<1>9. CASE Sigint
  BY <1>9 DEF Sigint
<1>2. CASE Finish
  BY <1>2 DEF Finish, Verdict
<1>3. CASE CallAgain
  BY <1>3 DEF CallAgain
<1>4. CASE SendTest \/ RecvTest \/ Timeout \/ RecvFails
  BY <1>4 DEF SendTest, RecvTest, Timeout, GiveUp, RecvFails
<1>5. CASE Send
  <2>1. /\ wire' = wire \cup {send_count} \/ wire' = wire
        /\ sender' = "count"
        /\ UNCHANGED <<main, call, result, receiver, errs, odd, alive_send, alive_recv,
                       send_count, recv_count, ping_flag, dups, strangers, namesakes, foreign>>
    BY <1>5, Zenon DEF Send
  <2>2. send_count \in Nat /\ send_count \in 0..(send_count + 1)
    OBVIOUS
  <2>3. wire' \subseteq 0..(send_count + 1)
    BY <2>1, <2>2
  <2> QED
    BY <2>1, <2>3
<1>6. CASE Count
  <2>1. send_count <= Max + call - 2 /\ errs <= Tries
    BY <1>0, <1>6 DEF Count, SendInv, Sending
  <2> QED
    BY <1>6, <2>1 DEF Count, Counted, AllSent
<1>u. ASSUME NEW s, Unpack(s)
      PROVE  /\ recv_count' \in {recv_count, recv_count + 1} /\ odd' \in {odd, odd + 1}
             /\ ping_flag' \in {ping_flag, -1} /\ alive_recv' \in {alive_recv, 0}
             /\ receiver' \in {"test", "done"}
  BY <1>u DEF Unpack, CountReply, Refuse
<1>7. ASSUME NEW s \in wire, RecvReply(s) PROVE Others'
  <2>1. /\ wire' \subseteq wire /\ dups' \in 0..MaxDups
        /\ UNCHANGED <<main, call, result, sender, errs, alive_send, send_count, strangers,
                       namesakes, foreign>>
        /\ Unpack(s)
    BY <1>7 DEF RecvReply
  <2> QED
    BY <2>1, <1>u
<1>11. ASSUME NEW s \in ForeignSeqs, RecvNamesake(s) PROVE Others'
  <2>1. /\ namesakes' \in 0..MaxNamesakes
        /\ UNCHANGED <<main, call, result, sender, errs, alive_send, send_count, strangers,
                       wire, dups, foreign>>
        /\ Unpack(s)
    BY <1>11 DEF RecvNamesake
  <2> QED
    BY <2>1, <1>u
<1>8. CASE RecvStranger
  BY <1>0, <1>8 DEF RecvStranger, CountReply, Refuse, SendInv
<1> QED
  BY <1>1, <1>2, <1>3, <1>4, <1>5, <1>6, <1>7, <1>8, <1>9, <1>10, <1>11, <1>12
     DEF Next, Main, Sender, Receiver

LEMMA PlaceStep == Inv /\ Next => PlaceInv'
<1> SUFFICES ASSUME Inv, Next PROVE PlaceInv'
  OBVIOUS
<1> USE DEF Inv, TypeOK, PlaceInv, Loss, shared
<1>1. CASE StartFails \/ CreateFails \/ CallAgain
  BY <1>1 DEF StartFails, CreateFails, CallAgain
<1>8. CASE Start
  <2>1. main' = "join"
    BY <1>8, Zenon DEF Start
  <2> QED
    BY <2>1
<1>2. CASE Finish
  BY <1>2 DEF Finish, Verdict
<1>3. CASE Sigint
  BY <1>3 DEF Sigint
<1>4. CASE Sender
  BY <1>4 DEF Sender, SendTest, Send, Count
<1>5. CASE RecvTest \/ Timeout \/ RecvFails
  BY <1>5 DEF RecvTest, Timeout, GiveUp, RecvFails
<1>6. CASE RecvStranger
  BY <1>6 DEF RecvStranger
<1>7. ASSUME NEW s \in wire, RecvReply(s) PROVE PlaceInv'
  BY <1>7 DEF RecvReply
<1>9. ASSUME NEW s \in ForeignSeqs, RecvNamesake(s) PROVE PlaceInv'
  BY <1>9 DEF RecvNamesake
<1> QED
  BY <1>1, <1>2, <1>3, <1>4, <1>5, <1>6, <1>7, <1>8, <1>9 DEF Next, Main, Receiver

\* The sender's bounds, the replies under way and the end of the table.
LEMMA SendStep == Inv /\ Next => SendInv'
<1> SUFFICES ASSUME Inv, Next PROVE SendInv'
  OBVIOUS
<1>0. TypeOK /\ PlaceInv /\ SendInv
  BY DEF Inv
<1>t. /\ call \in Nat \ {0} /\ send_count \in Nat /\ errs \in Nat /\ Max \in Nat \ {0}
      /\ Tries \in Nat /\ foreign \in Nat /\ strangers \in Nat
      /\ sender \in {"none", "test", "send", "count", "done"}
  BY <1>0, PingAssumption DEF TypeOK, Max
<1>w. /\ wire \subseteq 0..(Max + call - 2)
      /\ sender = "send" => send_count \in 0..(Max + call - 2)
  BY <1>0, <1>t DEF TypeOK, SendInv, Sending, Sent
<1> DEFINE Bounds ==
      /\ Sending => errs <= Tries
      /\ Sending \/ main = "start" => send_count <= Max + call - 2
      /\ foreign <= strangers
    Wired == wire \subseteq 0..(Sent - 1)
    Stopped == main = "join" /\ send_count = 0 =>
       (alive_send = 1 \/ interrupted) /\ (sender = "done" => interrupted)
<1>s. Bounds /\ Wired /\ Stopped /\ OverrunBounded /\ TrapsOnlyInterrupted
  BY <1>0 DEF SendInv
<1>1. Bounds'
  <2> USE <1>s, <1>t DEF Sending, shared, net, hist
  <2>1. CASE Start
    <3>1. /\ main = "start" /\ errs' = 0 /\ foreign' = 0
          /\ UNCHANGED <<call, send_count, strangers>>
      BY <2>1, Zenon DEF Start, net
    <3> QED
      BY <3>1
  <2>2. CASE StartFails \/ CreateFails
    BY <2>2, <1>0, PingAssumption DEF StartFails, CreateFails, PlaceInv
  <2>3. CASE Finish \/ Sigint
    BY <2>3, <1>0 DEF Finish, Sigint, PlaceInv
  <2>4. CASE CallAgain
    BY <2>4, <1>0 DEF CallAgain, PlaceInv, TypeOK
  <2>5. CASE SendTest
    BY <2>5 DEF SendTest
  <2>6. CASE Send
    <3>1. UNCHANGED <<main, call, send_count, errs, foreign, strangers>> /\ Sending
      BY <2>6, Zenon DEF Send
    <3> QED
      BY <3>1
  <2>7. CASE Count
    BY <2>7, <1>0 DEF Count, Counted, AllSent, PlaceInv
  <2>8. CASE RecvTest \/ Timeout \/ RecvFails \/ RecvStranger
    BY <2>8 DEF RecvTest, Timeout, RecvFails, RecvStranger
  <2>9. ASSUME NEW s \in wire, RecvReply(s) PROVE Bounds'
    <3>1. UNCHANGED <<main, call, send_count, sender, errs, foreign, strangers>>
      BY <2>9 DEF RecvReply
    <3> QED
      BY <3>1
  <2>10. ASSUME NEW s \in ForeignSeqs, RecvNamesake(s) PROVE Bounds'
    <3>1. UNCHANGED <<main, call, send_count, sender, errs, foreign, strangers>>
      BY <2>10 DEF RecvNamesake
    <3> QED
      BY <3>1
  <2> QED
    BY <2>1, <2>2, <2>3, <2>4, <2>5, <2>6, <2>7, <2>8, <2>9, <2>10 DEF Next, Main, Sender, Receiver
<1>2. Wired'
  <2> USE <1>s, <1>t DEF Sent, shared, net
  <2>1. CASE Main \/ Sigint
    <3>1. UNCHANGED <<wire, send_count>>
      BY <2>1, Zenon DEF Main, Start, StartFails, CreateFails, Finish, CallAgain, Sigint,
         shared, net
    <3>2. sender # "count" => sender' # "count"
      BY <2>1 DEF Main, Start, StartFails, CreateFails, Finish, CallAgain, Sigint
    <3>3. sender = "count" => sender' = "count"
      <4>1. (main \in {"join", "exit"} /\ sender # "done") \/ sender # "count"
        BY <1>0 DEF PlaceInv
      <4> QED
        BY <2>1, <4>1 DEF Main, Start, StartFails, CreateFails, Finish, CallAgain, Sigint
    <3> QED
      BY <3>1, <3>2, <3>3
  <2>2. CASE SendTest
    BY <2>2 DEF SendTest
  <2>3. CASE Send
    <3>1. /\ sender = "send" /\ sender' = "count" /\ send_count' = send_count
          /\ wire' \subseteq wire \cup {send_count}
      BY <2>3 DEF Send
    <3> QED
      BY <3>1
  <2>4. CASE Count
    <3>1. /\ sender = "count" /\ send_count' = send_count + 1 /\ wire' = wire
          /\ sender' # "count"
      BY <2>4 DEF Count, Counted
    <3> QED
      BY <3>1
  <2>5. CASE RecvTest \/ Timeout \/ RecvFails \/ RecvStranger
    BY <2>5 DEF RecvTest, Timeout, RecvFails, RecvStranger
  <2>6. ASSUME NEW s \in wire, RecvReply(s) PROVE Wired'
    <3>1. wire' \subseteq wire /\ UNCHANGED <<send_count, sender>>
      BY <2>6 DEF RecvReply
    <3> QED
      BY <3>1
  <2>7. ASSUME NEW s \in ForeignSeqs, RecvNamesake(s) PROVE Wired'
    <3>1. UNCHANGED <<wire, send_count, sender>>
      BY <2>7 DEF RecvNamesake
    <3> QED
      BY <3>1
  <2> QED
    BY <2>1, <2>2, <2>3, <2>4, <2>5, <2>6, <2>7 DEF Next, Sender, Receiver
<1>3. OverrunBounded'
  <2> DEFINE Reached == (Max..(Max + call - 2)) \cup (IF namesakes > 0 THEN {Max} ELSE {})
  <2>0. /\ beyond \subseteq Reached /\ namesakes \in Nat
        /\ \A k \in Nat : k \notin Slot => k >= Max
    BY <1>s, <1>0, <1>t, PingAssumption DEF OverrunBounded, TypeOK, Slot
  <2>u. ASSUME NEW s \in Nat, Unpack(s) PROVE beyond' \subseteq beyond \cup ({Max} \cap {s})
    <3>1. beyond' = beyond \/ (s <= Max /\ beyond' = beyond \cup ({s} \ Slot))
      BY <2>u DEF Unpack, SetFlag, InRange
    <3>2. s \notin Slot /\ s <= Max => s = Max
      BY <2>0, <1>t
    <3> QED
      BY <3>1, <3>2
  <2>1. CASE CallAgain
    <3>1. call' = call + 1 /\ beyond' = beyond /\ namesakes' = namesakes
      BY <2>1 DEF CallAgain, hist, net
    <3> QED
      BY <3>1, <2>0, <1>t DEF OverrunBounded
  <2>2. CASE Start \/ StartFails \/ CreateFails \/ Finish \/ Sigint \/ SendTest \/ Count
    <3>1. UNCHANGED <<call, beyond, namesakes>>
      BY <2>2, Zenon DEF Start, StartFails, CreateFails, Finish, Sigint, SendTest, Count,
         hist, net
    <3> QED
      BY <3>1, <2>0 DEF OverrunBounded
  <2>3. CASE Send
    <3>1. /\ UNCHANGED <<call, namesakes>> /\ sender = "send"
          /\ beyond' = beyond \cup ({send_count} \ Slot)
      BY <2>3, Zenon DEF Send, SetFlag
    <3>2. {send_count} \ Slot \subseteq Max..(Max + call - 2)
      BY <3>1, <1>t, <1>w, <2>0
    <3> QED
      BY <3>1, <3>2, <2>0 DEF OverrunBounded
  <2>4. CASE RecvTest \/ Timeout \/ RecvFails \/ RecvStranger
    <3>1. UNCHANGED <<call, beyond, namesakes>>
      BY <2>4, Zenon DEF RecvTest, Timeout, RecvFails, RecvStranger, hist, net
    <3> QED
      BY <3>1, <2>0 DEF OverrunBounded
  <2>5. ASSUME NEW s \in wire, RecvReply(s) PROVE OverrunBounded'
    <3>1. UNCHANGED <<call, namesakes>> /\ Unpack(s)
      BY <2>5 DEF RecvReply
    <3>2. s \in Nat /\ s <= Max + call - 2
      BY <1>w, <1>t
    <3>3. {Max} \cap {s} \subseteq Max..(Max + call - 2)
      BY <3>2, <1>t
    <3> QED
      BY <3>1, <3>2, <3>3, <2>0, <2>u DEF OverrunBounded
  <2>6. ASSUME NEW s \in ForeignSeqs, RecvNamesake(s) PROVE OverrunBounded'
    <3>1. call' = call /\ namesakes' = namesakes + 1 /\ Unpack(s) /\ s \in Nat
      BY <2>6, PingAssumption DEF RecvNamesake
    <3>2. beyond' \subseteq beyond \cup {Max} /\ namesakes' > 0
      BY <3>1, <2>0, <2>u
    <3> QED
      BY <3>1, <3>2, <2>0 DEF OverrunBounded
  <2> QED
    BY <2>1, <2>2, <2>3, <2>4, <2>5, <2>6 DEF Next, Main, Sender, Receiver
<1>4. Stopped'
  <2> SUFFICES ASSUME main' = "join", send_count' = 0
               PROVE  (alive_send' = 1 \/ interrupted') /\ (sender' = "done" => interrupted')
    OBVIOUS
  <2>1. CASE Start
    <3>1. alive_send' = 1 /\ sender' = "test"
      BY <2>1, Zenon DEF Start
    <3> QED
      BY <3>1
  <2>2. CASE StartFails \/ CreateFails \/ CallAgain \/ Finish
    BY <2>2 DEF StartFails, CreateFails, CallAgain, Finish
  <2>3. CASE Sigint
    <3>1. interrupted'
      BY <2>3, Zenon DEF Sigint
    <3> QED
      BY <3>1
  <2>4. CASE SendTest
    <3>1. /\ UNCHANGED <<main, send_count, alive_send, interrupted>>
          /\ sender' = IF alive_send = 1 THEN "send" ELSE "done"
      BY <2>4, Zenon DEF SendTest, shared, hist
    <3> QED
      BY <3>1, <1>s
  <2>5. CASE Send
    <3>1. UNCHANGED <<main, send_count, alive_send, interrupted>> /\ sender' = "count"
      BY <2>5, Zenon DEF Send
    <3> QED
      BY <3>1, <1>s
  <2>6. CASE Count
    BY <2>6, <1>t DEF Count, Counted
  <2>7. CASE Receiver
    <3>1. UNCHANGED <<main, send_count, alive_send, interrupted, sender>>
      BY <2>7 DEF Receiver, RecvTest, Timeout, RecvFails, RecvStranger, RecvReply,
         RecvNamesake, shared, hist
    <3> QED
      BY <3>1, <1>s
  <2> QED
    BY <2>1, <2>2, <2>3, <2>4, <2>5, <2>6, <2>7 DEF Next, Main, Sender
<1>5. TrapsOnlyInterrupted'
  <2> SUFFICES ASSUME main' = "trapped" PROVE interrupted' /\ wire' = {}
    BY DEF TrapsOnlyInterrupted
  <2>1. CASE Finish
    <3>1. /\ main = "join" /\ sender = "done" /\ send_count = 0
          /\ UNCHANGED <<interrupted, wire>>
      BY <2>1 DEF Finish, hist, net
    <3>2. wire = {}
      BY <3>1, <1>s DEF Sent
    <3> QED
      BY <3>1, <3>2, <1>s
  <2>2. CASE Start \/ StartFails \/ CreateFails \/ CallAgain \/ Sigint
    BY <2>2 DEF Start, StartFails, CreateFails, CallAgain, Sigint
  <2>3. CASE Sender \/ Receiver
    <3>1. main' = main
      BY <2>3, Zenon DEF Sender, SendTest, Send, Count, Receiver, RecvTest, Timeout, RecvFails,
         RecvStranger, RecvReply, RecvNamesake
    <3>2. sender \in {"none", "done"} /\ receiver \in {"none", "done"}
      BY <3>1, <1>0 DEF PlaceInv
    <3> QED
      BY <2>3, <3>2 DEF Sender, SendTest, Send, Count, Receiver, RecvTest, Timeout, GiveUp,
         RecvFails, RecvStranger, RecvReply, RecvNamesake
  <2> QED
    BY <2>1, <2>2, <2>3 DEF Next, Main
<1> QED
  BY <1>1, <1>2, <1>3, <1>4, <1>5 DEF SendInv
-----------------------------------------------------------------------------
(* The balance of replies and packets.                                     *)

\* The numbers the balance is about.
LEMMA Numbers ==
  ASSUME Inv
  PROVE  /\ Tries \in Nat /\ odd \in Nat /\ foreign \in Nat /\ strangers \in Nat
         /\ recv_count \in Nat /\ send_count \in Nat /\ Sent \in Nat /\ dups \in Nat
         /\ Credit \in Int /\ (strangers <= Tries => Credit >= 0)
         /\ Cardinality(Open) \in Nat /\ Cardinality(Late) \in Nat
<1>1. /\ Tries \in Nat /\ odd \in Nat /\ foreign \in Nat /\ strangers \in Nat
      /\ recv_count \in Nat /\ send_count \in Nat /\ dups \in Nat
  BY PingAssumption DEF Inv, TypeOK
<1>2. foreign <= odd /\ foreign <= strangers
  BY DEF Inv, CreditInv, SendInv
<1>3. TypeOK
  BY DEF Inv
<1> QED
  BY <1>1, <1>2, <1>3, Finite DEF Credit, Sent

\* A packet that is sent adds one to what waits for a reply, at most.
LEMMA SendKeepsCredit == ASSUME Inv, Send PROVE CreditInv'
<1>1. /\ sender = "send" /\ sender' = "count"
      /\ wire' = wire \cup {send_count} \/ wire' = wire
      /\ flag' = IF send_count \in Slot THEN [flag EXCEPT ![send_count] = 1] ELSE flag
      /\ UNCHANGED <<send_count, recv_count, odd, dups, strangers, namesakes, foreign>>
  BY Zenon DEF Send, SetFlag
<1>2. Sent' = Sent + 1 /\ Credit' = Credit
  BY <1>1 DEF Sent, Credit
<1>3. TypeOK /\ CreditInv
  BY DEF Inv
<1>4. flag \in [Slot -> {0, 1}]
  BY <1>3 DEF TypeOK
<1>5. /\ Cardinality(Open') \in Nat /\ Cardinality(Late') \in Nat
      /\ Cardinality(Open') + Cardinality(Late') <= Cardinality(Open) + Cardinality(Late) + 1
  <2>0. /\ Cardinality(Open) \in Nat /\ Cardinality(Late) \in Nat
        /\ IsFiniteSet(Open) /\ IsFiniteSet(Late)
    BY <1>3, Finite
  <2>1. CASE send_count \in Slot
    <3>1. Open' = Open \cup {send_count} /\ Late' = Late
      BY <1>1, <1>4, <2>1 DEF Open, Late
    <3>2. /\ Cardinality(Open \cup {send_count}) \in Nat
          /\ Cardinality(Open \cup {send_count}) <= Cardinality(Open) + 1
      BY <2>0, CardAdd
    <3> QED
      BY <2>0, <3>1, <3>2
  <2>2. CASE send_count \notin Slot
    <3>1. Open' = Open /\ (Late' = Late \cup {send_count} \/ Late' = Late)
      BY <1>1, <2>2 DEF Open, Late
    <3>2. /\ Cardinality(Late \cup {send_count}) \in Nat
          /\ Cardinality(Late \cup {send_count}) <= Cardinality(Late) + 1
      BY <2>0, CardAdd
    <3>3. CASE Late' = Late
      BY <2>0, <3>1, <3>3
    <3>4. CASE Late' = Late \cup {send_count}
      BY <2>0, <3>1, <3>2, <3>4
    <3> QED
      BY <3>1, <3>3, <3>4
  <2> QED
    BY <2>1, <2>2
<1>7. Genuine' => \A s \in wire' \cap Slot : flag'[s] = 1
  BY <1>1, <1>3, <1>4 DEF CreditInv, Genuine
<1> QED
  BY <1>1, <1>2, <1>3, <1>5, <1>7, Numbers DEF CreditInv, Genuine

\* What a refused packet does to the counters.
LEMMA Refused ==
  ASSUME Inv, Refuse
  PROVE  /\ odd' = odd + 1
         /\ recv_count' = IF odd >= Tries THEN recv_count + 1 ELSE recv_count
BY DEF Refuse, CountReply

\* A stranger that is counted uses up a credit.
LEMMA StrangerKeepsCredit == ASSUME Inv, RecvStranger PROVE CreditInv'
<1>1. /\ strangers' = strangers + 1 /\ foreign' = foreign + 1 /\ Refuse
      /\ UNCHANGED <<sender, send_count, flag, wire, dups, namesakes>>
  BY Zenon DEF RecvStranger
<1>2. /\ odd' = odd + 1
      /\ recv_count' = IF odd >= Tries THEN recv_count + 1 ELSE recv_count
  BY <1>1, Refused
<1>3. Open' = Open /\ Late' = Late /\ Sent' = Sent
  BY <1>1 DEF Open, Late, Sent
<1>4. recv_count' + Credit' = recv_count + Credit
  BY <1>1, <1>2, Numbers DEF Credit
<1>5. Credit' \in Int /\ recv_count' \in Nat
  BY <1>1, <1>2, Numbers DEF Credit
<1> QED
  BY <1>1, <1>2, <1>3, <1>4, <1>5, Numbers DEF Inv, CreditInv, Genuine

\* A reply closes its packet, or was late: in either case it is counted once.
LEMMA ReplyKeepsCredit == ASSUME Inv, NEW s \in wire, RecvReply(s) PROVE CreditInv'
<1>1. /\ (wire' = wire \ {s} /\ dups' = dups) \/ dups' = dups + 1
      /\ UNCHANGED <<sender, send_count, strangers, namesakes, foreign>>
  BY DEF RecvReply
<1>2. TypeOK /\ CreditInv /\ flag \in [Slot -> {0, 1}]
  BY DEF Inv, TypeOK
<1>m. Max \in Nat /\ s \in Nat
  BY <1>2, PingAssumption DEF TypeOK, Max
<1>3. Sent' = Sent
  BY <1>1 DEF Sent
<1>4. /\ foreign' <= odd'
      /\ InRange(s) => recv_count' = recv_count + 1 /\ odd' = odd
      /\ ~InRange(s) => Refuse
  BY <1>1, <1>2, Refused, Numbers DEF RecvReply, Unpack, CountReply, CreditInv
<1>5. CASE ~Genuine'
  BY <1>4, <1>5 DEF CreditInv
<1>6. CASE Genuine'
  <2>0. wire' = wire \ {s} /\ Genuine
    BY <1>1, <1>6, Numbers DEF Genuine
  <2>1. CASE s \in Slot
    <3>1. flag' = [flag EXCEPT ![s] = 0] /\ InRange(s) /\ flag[s] = 1
      BY <2>0, <2>1, <1>2, <1>m DEF RecvReply, Unpack, SetFlag, InRange, Slot, CreditInv
    <3>2. Open' = Open \ {s} /\ s \in Open /\ Late' = Late
      BY <2>0, <2>1, <3>1, <1>2 DEF Open, Late
    <3>3. Cardinality(Open') = Cardinality(Open) - 1 /\ Cardinality(Open') \in Nat
      BY <3>2, <1>2, Finite, CardDrop
    <3>4. recv_count' = recv_count + 1 /\ Credit' = Credit
      BY <3>1, <1>4, <1>1 DEF Credit
    <3>5. \A r \in wire' \cap Slot : flag'[r] = 1
      BY <2>0, <3>1, <1>2 DEF CreditInv
    <3> QED
      BY <1>1, <1>2, <1>3, <1>4, <2>0, <3>2, <3>3, <3>4, <3>5, Numbers DEF CreditInv
  <2>2. CASE s \notin Slot
    <3>1. flag' = flag
      BY <2>2 DEF RecvReply, Unpack, SetFlag
    <3>2. Open' = Open /\ Late' = Late \ {s} /\ s \in Late
      BY <2>0, <2>2, <3>1 DEF Open, Late
    <3>3. Cardinality(Late') = Cardinality(Late) - 1 /\ Cardinality(Late') \in Nat
      BY <3>2, <1>2, Finite, CardDrop
    <3>4. recv_count' + Credit' = recv_count + Credit + 1 /\ Credit' \in Int /\ recv_count' \in Nat
      BY <1>1, <1>4, Refused, Numbers DEF Credit
    <3>5. \A r \in wire' \cap Slot : flag'[r] = 1
      BY <2>0, <3>1, <1>2 DEF CreditInv
    <3> QED
      BY <1>1, <1>2, <1>3, <1>4, <2>0, <3>2, <3>3, <3>4, <3>5, Numbers DEF CreditInv
  <2> QED
    BY <2>1, <2>2
<1> QED
  BY <1>5, <1>6

\* A namesake may be counted for a packet that was lost: nothing is claimed then.
LEMMA NamesakeKeepsCredit ==
  ASSUME Inv, NEW s \in ForeignSeqs, RecvNamesake(s) PROVE CreditInv'
<1>1. namesakes' = namesakes + 1 /\ foreign' = foreign /\ namesakes \in Nat
  BY PingAssumption DEF RecvNamesake, Inv, TypeOK
<1>2. odd' = odd \/ odd' = odd + 1
  BY DEF RecvNamesake, Unpack, Refuse
<1>3. foreign <= odd
  BY DEF Inv, CreditInv
<1> QED
  BY <1>1, <1>2, <1>3, Numbers DEF CreditInv, Genuine

LEMMA CreditStep == Inv /\ Next => CreditInv'
<1> SUFFICES ASSUME Inv, Next PROVE CreditInv'
  OBVIOUS
<1>0. TypeOK /\ PlaceInv /\ CreditInv
  BY DEF Inv
<1>1. CASE Start
  <2>1. /\ main = "start" /\ sender' = "test" /\ odd' = 0 /\ foreign' = 0
        /\ UNCHANGED <<send_count, recv_count, flag, wire, dups, strangers, namesakes>>
    BY <1>1, Zenon DEF Start, net
  <2>2. Sent' = Sent /\ Credit' = 0 /\ Open' = Open /\ Late' = Late
    BY <2>1, <1>0, Numbers DEF Sent, Credit, Open, Late, PlaceInv
  <2> QED
    BY <2>1, <2>2, <1>0, Numbers DEF CreditInv, Genuine
<1>6. CASE CreateFails
  <2>1. /\ main = "start" /\ (sender' = sender \/ sender' = "test")
        /\ UNCHANGED <<foreign, odd, dups, strangers, namesakes, recv_count, wire, flag,
                       send_count>>
    BY <1>6, Zenon DEF CreateFails, net, hist
  <2>2. sender # "count"
    BY <2>1, <1>0 DEF PlaceInv
  <2> QED
    BY <2>1, <2>2, <1>0, CreditFrame DEF Sent
<1>2. CASE StartFails \/ Finish \/ CallAgain \/ Sigint
  <2>1. UNCHANGED <<foreign, odd, dups, strangers, namesakes, recv_count, wire, flag, sender, send_count>>
    BY <1>2, Zenon DEF StartFails, Finish, CallAgain, Sigint, shared, net, hist
  <2> QED
    BY <2>1, <1>0, CreditFrame DEF Sent
<1>3. CASE SendTest
  <2>1. /\ sender = "test" /\ sender' # "count"
        /\ UNCHANGED <<foreign, odd, dups, strangers, namesakes, recv_count, wire, flag, send_count>>
    BY <1>3 DEF SendTest, shared, net, hist
  <2> QED
    BY <2>1, <1>0, CreditFrame DEF Sent
<1>4. CASE Count
  <2>1. /\ sender = "count" /\ sender' # "count" /\ send_count' = send_count + 1
        /\ UNCHANGED <<foreign, odd, dups, strangers, namesakes, recv_count, wire, flag>>
    BY <1>4 DEF Count, Counted, net, hist
  <2> QED
    BY <2>1, <1>0, CreditFrame DEF Sent
<1>5. CASE RecvTest \/ Timeout \/ RecvFails
  <2>1. UNCHANGED <<foreign, odd, dups, strangers, namesakes, recv_count, wire, flag, sender, send_count>>
    BY <1>5, Zenon DEF RecvTest, Timeout, RecvFails, shared, net, hist
  <2> QED
    BY <2>1, <1>0, CreditFrame DEF Sent
<1> QED
  BY <1>1, <1>2, <1>3, <1>4, <1>5, <1>6, SendKeepsCredit, StrangerKeepsCredit, ReplyKeepsCredit,
     NamesakeKeepsCredit
     DEF Next, Main, Sender, Receiver
-----------------------------------------------------------------------------
LEMMA StepInv == Inv /\ [Next]_vars => Inv'
<1> SUFFICES ASSUME Inv, [Next]_vars PROVE Inv'
  OBVIOUS
<1>1. CASE Next
  BY <1>1, TypeStep, PlaceStep, SendStep, CreditStep DEF Inv
<1>2. CASE UNCHANGED vars
  <2>1. TypeOK' /\ PlaceInv' /\ SendInv'
    BY <1>2 DEF vars, shared, net, hist, Inv, TypeOK, PlaceInv, Loss, SendInv, Sending, Sent,
       OverrunBounded, TrapsOnlyInterrupted
  <2>2. CreditInv'
    BY <1>2, CreditFrame DEF vars, shared, net, hist, Inv, Sent
  <2> QED
    BY <2>1, <2>2 DEF Inv
<1> QED
  BY <1>1, <1>2

LEMMA AlwaysInv == Spec => []Inv
BY InitInv, StepInv, PTL DEF Spec

\* Types hold for any table, tries, calls, strangers and duplicates; in
\* particular the counters run past the table by one packet a call at most.
THEOREM PingTypes == Spec => []TypeOK
<1>1. Inv => TypeOK
  BY DEF Inv
<1> QED
  BY <1>1, AlwaysInv, PTL

\* ping_packet is written past its end by as many entries as there were calls
\* before this one (ping.c:140-144), and by one entry if a reply with our id for
\* another process came in (ping.c:110-114): in a single call without such a reply
\* not at all.
THEOREM OverrunIsBounded == Spec => []OverrunBounded
<1>1. Inv => OverrunBounded
  BY DEF Inv, SendInv
<1> QED
  BY <1>1, AlwaysInv, PTL

\* Only SIGINT before the first count makes the statistics divide by zero
\* (ping.c:226).
THEOREM TrapNeedsInterrupt == Spec => []TrapsOnlyInterrupted
<1>1. Inv => TrapsOnlyInterrupted
  BY DEF Inv, SendInv
<1> QED
  BY <1>1, AlwaysInv, PTL

\* The percentage of at most one hundred packets is 0 only if none is missing.
LEMMA NoLoss ==
  ASSUME send_count \in 1..100, recv_count \in Nat, Loss = 0
  PROVE  recv_count = send_count
<1> DEFINE d == (send_count - recv_count) * 100
<1>1. d \in Int /\ send_count \in Nat \ {0}
  OBVIOUS
<1>2. CASE d >= 0
  <2>1. d \div send_count = 0
    BY <1>2 DEF Loss, Quot
  <2>2. d < send_count
    BY <1>1, <1>2, <2>1
  <2> QED
    BY <1>2, <2>2
<1>3. CASE d < 0
  <2>1. (-d) \div send_count = 0
    BY <1>1, <1>3 DEF Loss, Quot
  <2>2. -d < send_count
    BY <1>1, <1>3, <2>1
  <2> QED
    BY <1>3, <2>2
<1> QED
  BY <1>1, <1>2, <1>3

\* A ping that reports success was answered packet by packet (ping.c:226-230).
THEOREM SuccessIsHonest == Spec => []HonestSuccess
<1>1. Inv => HonestSuccess
  <2> SUFFICES ASSUME Inv, main = "returned", result = 0, dups = 0, namesakes = 0,
                      strangers <= Tries,
                      send_count <= 100,
                      NEW s \in Slot, s < send_count
               PROVE  flag[s] = 0
    BY DEF HonestSuccess
  <2>1. send_count \in 1..100 /\ Loss = 0 /\ sender \in {"none", "done"}
    BY Numbers DEF Inv, PlaceInv
  <2>2. recv_count = send_count /\ Sent = send_count
    BY <2>1, Numbers, NoLoss DEF Sent
  <2>3. Cardinality(Open) = 0
    BY <2>2, Numbers DEF Inv, CreditInv, Genuine
  <2>4. Open = {}
    BY <2>3, Finite, FS_EmptySet DEF Inv
  <2> QED
    BY <2>4 DEF Open, Inv, TypeOK
<1> QED
  BY <1>1, AlwaysInv, PTL
=============================================================================
