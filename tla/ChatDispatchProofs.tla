------------------------- MODULE ChatDispatchProofs -------------------------
(***************************************************************************)
(* Proofs about ChatDispatch, for any number of clients, threads, slots    *)
(* and descriptors.                                                        *)
(***************************************************************************)
EXTENDS ChatDispatch, TLAPS, SequenceTheorems, FiniteSetTheorems

\* What is needed of the scan index besides the stated invariants.
IndexOK == mpc \in {"test", "clear"} => idx <= maxi

Inv == TypeOK /\ ListenerSafe /\ WatchCovered /\ IndexOK

\* No descriptor a thread or a slot can hold is the listening one.
LEMMA ListenerApart ==
  /\ ListenFd \in Fds /\ ListenFd \notin ConnFds \cup {NoFd}
  /\ ConnFds \subseteq Fds /\ NoFd \notin Fds
  /\ \A fd \in ConnFds \cup {NoFd} : BitOf(fd) # ListenFd
BY DispatchAssumption DEF Fds, ConnFds, NoFd, BitOf

LEMMA InitInv == Init => Inv
<1> SUFFICES ASSUME Init PROVE Inv
  OBVIOUS
<1> USE DispatchAssumption DEF Init
<1>1. TypeOK
  <2>1. \A S : <<>> \in Seq(S)
    BY EmptySeq
  <2> QED
    BY <2>1 DEF TypeOK, Fds, Slots, NoFd, ConnFds, ThreadLocations
<1>2. ListenerSafe
  BY ListenerApart DEF ListenerSafe
<1>3. WatchCovered
  BY DEF WatchCovered
<1>4. IndexOK
  BY DEF IndexOK
<1> QED
  BY <1>1, <1>2, <1>3, <1>4 DEF Inv

\* Raising maxfd and maxi to the new descriptor and slot.
LEMMA RaisedMarks ==
  ASSUME maxfd \in Fds, maxi \in -1..(SlotCount - 1), NEW fd \in Fds, NEW s \in Slots
  PROVE  /\ MaxfdWith(fd) \in Fds /\ fd <= MaxfdWith(fd) /\ maxfd <= MaxfdWith(fd)
         /\ MaxiWith(s) \in -1..(SlotCount - 1) /\ s <= MaxiWith(s) /\ maxi <= MaxiWith(s)
BY DispatchAssumption DEF MaxfdWith, MaxiWith, Fds, Slots

\* The steps of main: only accept adds to the watched set, and only Clear takes
\* from it, never the listening descriptor.
LEMMA MainKeeps == ASSUME Inv, Main PROVE Inv'
<1> USE DispatchAssumption
    DEF Inv, TypeOK, ListenerSafe, WatchCovered, IndexOK, kernelVars, clientVars,
        threadVars
<1>1. CASE Select
  <2> DEFINE watched == {fd \in allset : fd <= maxfd}
             ready == {fd \in watched : ReadyFd(fd)}
  <2>1. \/ rset' = allset /\ nready' = -1
        \/ rset' = ready /\ nready' = Cardinality(ready)
    BY <1>1 DEF Select
  <2>2. ready \subseteq Fds /\ Cardinality(ready) \in Nat
    <3>1. ready \subseteq Fds
      OBVIOUS
    <3>2. IsFiniteSet(Fds)
      BY FS_Interval DEF Fds
    <3> QED
      BY <3>1, <3>2, FS_Subset, FS_CardinalityType
  <2> HIDE DEF ready
  <2>3. rset' \subseteq Fds /\ nready' \in Int
    <3>1. CASE rset' = allset /\ nready' = -1
      BY <3>1
    <3>2. CASE rset' = ready /\ nready' = Cardinality(ready)
      <4>1. nready' \in Int
        BY <2>2, <3>2
      <4> QED
        BY <2>2, <3>2, <4>1, Zenon
    <3> QED
      BY <2>1, <3>1, <3>2, Zenon
  <2>4. mpc' \in {"accept", "scan"} /\ idx' = 0 /\ idx' \in 0..SlotCount
    BY <1>1 DEF Select
  <2> QED
    BY <1>1, <2>3, <2>4 DEF Select
<1>2. CASE Accept
  <2>1. PICK fd \in FreeFds, s \in FreeSlots :
          /\ file' = [file EXCEPT ![fd] = Head(backlog)]
          /\ client_sockfd' = [client_sockfd EXCEPT ![s] = fd]
          /\ allset' = allset \cup {fd}
          /\ maxfd' = MaxfdWith(fd)
          /\ maxi' = MaxiWith(s)
    BY <1>2 DEF Accept
  <2>2. fd \in ConnFds /\ fd \in Fds /\ fd # ListenFd
    BY <2>1 DEF FreeFds, Fds, ConnFds, Listener, Nothing
  <2>3. s \in Slots /\ s \in Int
    BY DEF FreeSlots, Slots
  <2>4. Head(backlog) \in Conns /\ backlog' \in Seq(Conns)
    BY <1>2, HeadTailProperties DEF Accept
  <2>5. /\ maxfd' \in Fds /\ fd <= maxfd' /\ maxfd <= maxfd'
        /\ maxi' \in -1..(SlotCount - 1) /\ s <= maxi' /\ maxi <= maxi'
    <3>1. maxfd \in Fds /\ maxi \in -1..(SlotCount - 1)
      OBVIOUS
    <3> QED
      BY <2>1, <2>2, <2>3, <3>1, RaisedMarks, Zenon
  <2>6. TypeOK'
    <3>1. file' \in [Fds -> Conns \cup {Nothing, Listener}] /\ allset' \subseteq Fds
      BY <2>1, <2>2, <2>4
    <3>2. client_sockfd' \in [Slots -> ConnFds \cup {NoFd}]
      BY <2>1, <2>2, <2>3
    <3>3. nready' \in Int /\ mpc' \in {"select", "scan"}
      BY <1>2 DEF Accept
    <3> QED
      BY <1>2, <2>4, <2>5, <3>1, <3>2, <3>3 DEF Accept
  <2>7. ListenerSafe'
    BY <2>1, <2>2 DEF Fds
  <2>8. WatchCovered'
    <3>1. \A f \in allset' : f <= maxfd'
      BY <2>1, <2>2, <2>5 DEF Fds
    <3>2. \A r \in Slots : client_sockfd'[r] # NoFd => r <= maxi'
      BY <2>1, <2>3, <2>5 DEF Slots
    <3> QED
      BY <3>1, <3>2
  <2>9. IndexOK'
    BY <1>2 DEF Accept
  <2> QED
    BY <2>6, <2>7, <2>8, <2>9
<1>3. CASE AcceptFails
  BY <1>3 DEF AcceptFails, ThreadLocations
<1>4. CASE Scan
  BY <1>4 DEF Scan, Slots
<1>5. CASE SkipThread
  BY <1>5 DEF SkipThread
<1>6. CASE CreateThread
  BY <1>6 DEF CreateThread, ThreadLocations
<1>7. CASE BreakScan
  BY <1>7 DEF BreakScan
<1>8. CASE Clear
  <2>1. ListenFd # BitOf(sockfd)
    BY ListenerApart
  <2>2. allset' = allset \ {BitOf(sockfd)} /\ client_sockfd' = [client_sockfd EXCEPT ![idx] = NoFd]
    BY <1>8 DEF Clear, Unwatch
  <2>3. idx <= maxi
    BY <1>8 DEF Clear
  <2>4. idx + 1 \in 0..SlotCount
    BY <2>3
  <2>5. TypeOK'
    BY <1>8, <2>2, <2>4 DEF Clear
  <2>6. ListenerSafe'
    BY <1>8, <2>1, <2>2 DEF Clear
  <2>7. WatchCovered'
    BY <1>8, <2>2 DEF Clear
  <2>8. IndexOK'
    BY <1>8 DEF Clear
  <2> QED
    BY <2>5, <2>6, <2>7, <2>8
<1>9. CASE EndScan
  BY <1>9 DEF EndScan
<1> QED
  BY <1>1, <1>2, <1>3, <1>4, <1>5, <1>6, <1>7, <1>8, <1>9 DEF Main

\* The steps of a handler: close frees a connection descriptor, never the
\* listening one.
LEMMA HandlerKeeps == ASSUME Inv, NEW t \in Threads, Handler(t) PROVE Inv'
<1> USE DispatchAssumption
    DEF Inv, TypeOK, ListenerSafe, WatchCovered, IndexOK, kernelVars, clientVars,
        mainVars, TGoto, ThreadLocations
<1>1. CASE Begin(t)
  BY <1>1 DEF Begin
<1>2. CASE RecvFails(t)
  BY <1>2 DEF RecvFails
<1>3. CASE RecvCall(t)
  BY <1>3 DEF RecvCall
<1>4. ASSUME NEW c \in Conns, inbox[c] # <<>>, TakeMessage(c)
      PROVE inbox' \in [Conns -> Seq(Messages)]
  BY <1>4, HeadTailProperties DEF TakeMessage
<1>5. CASE FirstMessage(t)
  BY <1>4, <1>5 DEF FirstMessage, Readable, Requests
<1>6. CASE Reply(t)
  BY <1>6 DEF Reply
<1>7. CASE ChatMessage(t)
  BY <1>4, <1>7 DEF ChatMessage, Readable
<1>8. CASE CloseSock(t)
  BY <1>8, ListenerApart DEF CloseSock, CloseFd
<1>9. CASE StoreMinusOne(t)
  BY <1>9 DEF StoreMinusOne
<1> QED
  BY <1>1, <1>2, <1>3, <1>5, <1>6, <1>7, <1>8, <1>9 DEF Handler

\* The steps of a client touch only its own stream.
LEMMA ClientKeeps == ASSUME Inv, NEW c \in Conns, Client(c) PROVE Inv'
<1> USE DEF Inv, TypeOK, ListenerSafe, WatchCovered, IndexOK, mainVars, threadVars
<1>1. CASE Connect(c)
  <2>1. backlog' \in Seq(Conns)
    BY <1>1, AppendProperties DEF Connect
  <2> QED
    BY <1>1, <2>1 DEF Connect
<1>2. ASSUME NEW r \in Requests, Request(c, r) PROVE Inv'
  <2>1. Append(inbox[c], r) \in Seq(Messages)
    BY <1>2, AppendProperties DEF Messages
  <2> QED
    BY <1>2, <2>1 DEF Request, Requests
<1>3. CASE Leave(c)
  <2>1. <<"exit", "eof">> \in Seq(Messages)
    BY DEF Messages
  <2>2. inbox[c] \o <<"exit", "eof">> \in Seq(Messages)
    BY <2>1, ConcatProperties
  <2> QED
    BY <1>3, <2>2 DEF Leave
<1>4. CASE Vanish(c)
  <2>1. Append(inbox[c], "eof") \in Seq(Messages)
    BY AppendProperties DEF Messages
  <2> QED
    BY <1>4, <2>1 DEF Vanish
<1> QED
  BY <1>1, <1>2, <1>3, <1>4 DEF Client

LEMMA StepInv == Inv /\ [Next]_vars => Inv'
<1> SUFFICES ASSUME Inv, [Next]_vars PROVE Inv'
  OBVIOUS
<1>1. CASE UNCHANGED vars
  BY <1>1 DEF vars, Inv, TypeOK, ListenerSafe, WatchCovered, IndexOK, kernelVars,
     clientVars, mainVars, threadVars
<1> QED
  BY <1>1, MainKeeps, HandlerKeeps, ClientKeeps DEF Next

\* Types hold in every behaviour: in particular the shared sockfd, every slot and
\* every handler's copy hold -1 or a connection descriptor.
THEOREM DispatchTypes == Spec => []TypeOK
<1>1. Inv => TypeOK
  BY DEF Inv
<1> QED
  BY <1>1, InitInv, StepInv, PTL DEF Spec

\* The listening socket survives every stale close and every FD_CLR.
THEOREM ListenerAlwaysSafe == Spec => []ListenerSafe
<1>1. Inv => ListenerSafe
  BY DEF Inv
<1> QED
  BY <1>1, InitInv, StepInv, PTL DEF Spec

\* select always covers the watched set, and the scan the occupied slots.
THEOREM WatchAlwaysCovered == Spec => []WatchCovered
<1>1. Inv => WatchCovered
  BY DEF Inv
<1> QED
  BY <1>1, InitInv, StepInv, PTL DEF Spec
=============================================================================
