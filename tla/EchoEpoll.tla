------------------------------ MODULE EchoEpoll -----------------------------
(***************************************************************************)
(* The epoll echo server (epoll_socket/server.c): one thread, every        *)
(* descriptor edge-triggered, and one buf and one n for all clients.       *)
(*                                                                         *)
(* ready is the kernel's ready list.  A descriptor joins it at an edge (a  *)
(* connection, data, FIN or RST comes in and the descriptor asks for it)   *)
(* and at EPOLL_CTL_ADD and EPOLL_CTL_MOD if what it asks for is there     *)
(* already; epoll_wait hands over the whole list and empties it.           *)
(* A handler is one step: nothing that comes in between its system calls   *)
(* leads to another state than if it had come in before or after.          *)
(***************************************************************************)
EXTENDS EchoPeers

Listen == "listenfd"

ASSUME EpollAssumption == Listen \notin Clients

VARIABLES
  up,         \* "up", or how the process ended
  interest,   \* the event each connection is registered for
  ready,      \* the ready list
  rest,       \* events[i..nfds-1]: [fd, ev]
  buf, n,     \* the buffer and the result of the last read
  overlap,    \* history: two clients had something under way at once
  burst,      \* history: a connection came while the listening edge was pending
  dropped     \* history: descriptors whose event a break threw away

serverVars == <<up, interest, ready, rest, buf, n>>
vars == <<peerVars, serverVars, overlap, burst, dropped>>

Init ==
  /\ PeersInit
  /\ up = "up" /\ interest = [c \in Clients |-> "none"]
  /\ ready = <<>> /\ rest = <<>> /\ buf = <<>> /\ n = 0
  /\ overlap = FALSE /\ burst = FALSE /\ dropped = {}

Members(q) == {q[i] : i \in DOMAIN q}
Edge(x) == ready' = IF x \in Members(ready) THEN ready ELSE Append(ready, x)

\* The entries of q that are in keep, in their order.
Filtered(q, keep) ==
  LET f[i \in 0..Len(q)] ==
        IF i = 0 THEN <<>>
        ELSE IF q[i] \in keep THEN Append(f[i - 1], q[i]) ELSE f[i - 1]
  IN  f[Len(q)]

NotReady(x) == ready' = Filtered(ready, Members(ready) \ {x})

\* EPOLL_CTL_ADD or EPOLL_CTL_MOD: the condition is looked at once.  A socket
\* is always writable: no client leaves more than a line unread.
Register(c, ev) ==
  /\ interest' = [interest EXCEPT ![c] = ev]
  /\ IF ev = "out" \/ Readable(c) THEN Edge(c) ELSE UNCHANGED ready

\* The condition as epoll_wait looks at it.
Holds(x) ==
  \/ x = Listen /\ backlog # <<>>
  \/ x \in Clients /\ (interest[x] = "out" \/ Readable(x))

Event(x) == [fd |-> x, ev |-> IF x = Listen THEN "in" ELSE interest[x]]
-----------------------------------------------------------------------------
(* Clients and network, with the edges they cause.                         *)

ClientConnects(c) ==
  /\ Connect(c) /\ Edge(Listen)
  /\ burst' = (burst \/ Listen \in Members(ready))
  /\ UNCHANGED <<up, interest, rest, buf, n, dropped>>

ClientActs(c) ==
  /\ SendLine(c) \/ ReadPiece(c) \/ Leave(c)
  /\ UNCHANGED <<serverVars, burst, dropped>>

\* Data is an edge only for a connection registered for reading; FIN and RST
\* wake every registered one.
DataComes(c) ==
  /\ Arrive(c)
  /\ IF interest[c] = "in" THEN Edge(c) ELSE UNCHANGED ready
  /\ dropped' = IF interest[c] = "in" THEN dropped \ {c} ELSE dropped
  /\ UNCHANGED <<up, interest, rest, buf, n, burst>>

EndComes(c) ==
  /\ EndArrives(c) \/ RstArrives(c)
  /\ IF interest[c] # "none" THEN Edge(c) ELSE UNCHANGED ready
  /\ dropped' = IF interest[c] # "none" THEN dropped \ {c} ELSE dropped
  /\ UNCHANGED <<up, interest, rest, buf, n, burst>>
-----------------------------------------------------------------------------
(* The loop.                                                               *)

\* epoll_wait
Wait ==
  /\ rest = <<>> /\ ready # <<>>
  /\ LET some == Filtered(ready, {x \in Members(ready) : Holds(x)}) IN
     rest' = [i \in DOMAIN some |-> Event(some[i])]
  /\ ready' = <<>>
  /\ UNCHANGED <<peerVars, up, interest, buf, n, burst, dropped>>

\* Slip: the first event ends the round.
RoundOver == <<>>
\* The events behind the one that is handled.
Handled == Tail(rest)

At(fd, ev) == rest # <<>> /\ Head(rest) = [fd |-> fd, ev |-> ev]

\* One accept for one event.
Accept ==
  /\ At(Listen, "in") /\ backlog # <<>>
  /\ backlog' = Tail(backlog)
  /\ UNCHANGED <<cpc, out, arrived, taken, back, seen, link>>
  /\ Register(Head(backlog), "in")
  /\ rest' = Handled
  /\ UNCHANGED <<up, buf, n, burst, dropped>>

\* accept() < 0: for want of descriptors or memory at any time, and with
\* EAGAIN when nobody waits.
AcceptFails ==
  /\ At(Listen, "in")
  /\ up' = IF backlog = <<>> THEN "accept found nobody" ELSE "accept error"
  /\ UNCHANGED <<peerVars, interest, ready, rest, buf, n, burst, dropped>>

\* Slip: what is read is put behind what is still in buf.
Behind(c) == buf \o ReadPieces(c)
\* Slip: a full buffer loses its last piece to the terminator.
CutShort(c) == [j \in 1..(IF ReadLen(c) = BufLen THEN BufLen - 1 ELSE ReadLen(c)) |->
                  Piece(c, taken[c] + j)]
\* What read leaves in the cleared buf.
Filled(c) == ReadPieces(c)

\* read() > 0: the answer is left to the event EPOLLOUT.
ReadSome(c) ==
  /\ At(c, "in") /\ Unread(c) > 0
  /\ buf' = Filled(c) /\ n' = Len(buf')
  /\ taken' = [taken EXCEPT ![c] = @ + ReadLen(c)]
  /\ UNCHANGED <<cpc, out, arrived, back, seen, link, backlog>>
  /\ Register(c, "out")
  /\ rest' = Handled
  /\ UNCHANGED <<up, burst, dropped>>

\* Slip: the result of a read that failed is not kept.
OldN(c) == n
\* n = read(), also when that is 0 or -1.
NewN(c) == ReadResult(c)

\* read() <= 0: n and the emptied buf are what the next write finds, too.
ReadEnds(c) ==
  /\ At(c, "in") /\ Unread(c) = 0
  /\ buf' = <<>> /\ n' = NewN(c)
  /\ Close(c) /\ UNCHANGED <<cpc, out, arrived, taken, back, seen, backlog>>
  /\ interest' = [interest EXCEPT ![c] = "none"] /\ NotReady(c)
  /\ rest' = Handled
  /\ UNCHANGED <<up, burst, dropped>>

\* write(sockfd, buf, n) == n: whatever was read last.  With n == -1 the call
\* fails before it looks at the connection, and -1 == n passes for success.
WriteBack(c) ==
  /\ At(c, "out") /\ (n = -1 \/ link[c] \in {"open", "fin"})
  /\ back' = [back EXCEPT ![c] = @ \o buf]
  /\ UNCHANGED <<cpc, out, arrived, taken, seen, link, backlog>>
  /\ Register(c, "in")
  /\ rest' = Handled
  /\ UNCHANGED <<up, buf, n, burst, dropped>>

\* write() != n on a reset connection: break throws the other events away, and
\* the connection stays open and registered for writing.
WriteFails(c) ==
  /\ At(c, "out") /\ n # -1 /\ link[c] = "reset"
  /\ link' = [link EXCEPT ![c] = "spent"]
  /\ dropped' = dropped \cup {rest[i].fd : i \in 2..Len(rest)}
  /\ rest' = <<>>
  /\ UNCHANGED <<cpc, out, arrived, taken, back, seen, backlog, up, interest, ready, buf,
                 n, burst>>

\* SIGPIPE
WriteKills(c) ==
  /\ At(c, "out") /\ n # -1 /\ link[c] \in {"broken", "spent"}
  /\ up' = "killed"
  /\ UNCHANGED <<peerVars, interest, ready, rest, buf, n, burst, dropped>>
-----------------------------------------------------------------------------
\* The client has a line that is not answered, or has ended and is not closed.
Underway(c) ==
  \/ out[c] > Len(back[c]) /\ link[c] # "closed"
  \/ cpc[c] = "gone" /\ link[c] # "closed"

History ==
  overlap' = (overlap \/ \E c, d \in Clients : c # d /\ Underway(c)' /\ Underway(d)')

Server ==
  \/ Wait \/ Accept \/ AcceptFails
  \/ \E c \in Clients : ReadSome(c) \/ ReadEnds(c) \/ WriteBack(c) \/ WriteFails(c)
                        \/ WriteKills(c)

Peer(c) == ClientConnects(c) \/ ClientActs(c) \/ DataComes(c) \/ EndComes(c)

Running == up = "up"

Next ==
  \/ Running /\ Server /\ History
  \/ Running /\ (\E c \in Clients : Peer(c)) /\ History

\* The server and the network go on; a client in readline reads what comes.
\* Nothing makes a user type, connect or leave.
Fairness ==
  /\ WF_vars(Running /\ Server /\ History)
  /\ \A c \in Clients :
       /\ WF_vars(Running /\ (DataComes(c) \/ EndComes(c)) /\ History)
       /\ WF_vars(Running /\ ReadPiece(c) /\ ClientActs(c) /\ History)

Spec == Init /\ [][Next]_vars /\ Fairness
-----------------------------------------------------------------------------
\* Types; n is what read returned.
TypeOK ==
  /\ PeersTypeOK
  /\ up \in {"up", "accept found nobody", "accept error", "killed"}
  /\ interest \in [Clients -> {"none", "in", "out"}]
  /\ ready \in Seq(Clients \cup {Listen})
  /\ \A i, j \in DOMAIN ready : ready[i] = ready[j] => i = j
  /\ rest \in Seq([fd : Clients \cup {Listen}, ev : {"in", "out"}])
  /\ n \in -1..BufLen /\ buf \in Seq(Clients \X Nat)
  /\ n > 0 => Len(buf) = n
  /\ overlap \in BOOLEAN /\ burst \in BOOLEAN /\ dropped \subseteq Clients \cup {Listen}

Pending(x) == x \in Members(ready) \/ \E i \in DOMAIN rest : rest[i].fd = x

\* One read for an edge is enough (server.c:120): a connection that is registered
\* for reading and has something to read is on the ready list or among the events
\* still to handle, because the MOD after the write looks again (lines 145-148),
\* unless a break (line 142) threw its event away.  So is the listening socket, as
\* long as no connection came while an earlier one's edge was pending, and accept is
\* never called with nobody waiting (line 99), which would end the server.
NoLostEdge ==
  /\ \A c \in Clients : interest[c] = "in" /\ Readable(c) => Pending(c) \/ c \in dropped
  /\ backlog # <<>> => Pending(Listen) \/ burst \/ Listen \in dropped
  /\ up # "accept found nobody"

\* buf and n are shared (server.c:46-48, 118-139): as long as at most one client at
\* a time has something under way, everybody gets back what it sent, in order.
EchoesOwn ==
  ~overlap => \A c \in Clients : \A i \in DOMAIN back[c] : back[c][i] = Piece(c, i)

\* Under the same condition, and if connections do not come in bursts, a client
\* that waits in readline gets its line (server.c:82-151).
SoleServed ==
  \A c \in Clients :
    cpc[c] = "readline" ~> (cpc[c] # "readline" \/ overlap \/ burst \/ up # "up")
=============================================================================
