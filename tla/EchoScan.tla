------------------------------- MODULE EchoScan -----------------------------
(***************************************************************************)
(* The select and the poll echo server (select_socket/server.c and         *)
(* poll_socket/server.c): one thread, a table of connections, one pass     *)
(* over the table for each call that waits.  The two differ in one place,  *)
(* what the pass looks at.  select's rset is made anew in each round, so a *)
(* connection accepted in the round has no bit in it.  poll's revents are  *)
(* part of the table: poll sets those of entries up to maxi (of a free     *)
(* entry to 0) and leaves the others, which nothing ever initialised.      *)
(* marked[i] is the bit of entry i's descriptor in rset, or its revents;   *)
(* api, chosen at the start, says which of the two servers runs.           *)
(***************************************************************************)
EXTENDS EchoPeers

CONSTANT Slots   \* entries for connections (FD_SETSIZE, or OPEN_MAX without the listener's)

Free == "free"

ASSUME ScanAssumption == Slots \in Nat \ {0} /\ Free \notin Clients

VARIABLES
  api,        \* "select" or "poll"
  up,         \* "up", or how the process ended
  pc,         \* "wait", "accept", "read" or "write"
  client,     \* the table
  maxi,       \* the highest entry ever used, 0 before the first
  marked,     \* 0 or 1 for each entry: see above
  nready,
  i,          \* the entry the pass is at
  buf

scanVars == <<up, pc, client, maxi, marked, nready, i, buf>>
vars == <<peerVars, api, scanVars>>

Entries == 1..Slots

\* The table and the listening socket are set up; client[] of the poll server
\* is on the stack, its revents are whatever was there.
Init ==
  /\ PeersInit
  /\ api \in {"select", "poll"}
  /\ up = "up" /\ pc = "wait"
  /\ client = [e \in Entries |-> Free] /\ maxi = 0
  /\ marked \in [Entries -> {0, 1}] /\ (api = "select" => \A e \in Entries : marked[e] = 0)
  /\ nready = 0 /\ i = 0 /\ buf = <<>>

\* Slip: i < maxi.
DueBelow(e, m, t, last) == {x \in Entries : x >= e /\ x < last /\ t[x] # Free /\ m[x] = 1}
\* The entries of the pass from e on that are occupied and marked.
Due(e, m, t, last) == {x \in Entries : x >= e /\ x <= last /\ t[x] # Free /\ m[x] = 1}

\* On to the next such entry, or back to waiting.
PassFrom(e, m, t, last) ==
  \/ Due(e, m, t, last) = {} /\ pc' = "wait" /\ i' = 0
  \/ /\ pc' = "read"
     /\ i' \in {x \in Due(e, m, t, last) : \A y \in Due(e, m, t, last) : x <= y}

Occupied(e) == client[e] # Free
IsReady(e) == Occupied(e) /\ Readable(client[e])

\* Slip: the bits of the last round are left in rset.
KeptMark(e) == IF IsReady(e) \/ marked[e] = 1 THEN 1 ELSE 0
\* What select or poll reports of an entry up to maxi.
Mark(e) == IF IsReady(e) THEN 1 ELSE 0

\* select or poll returns: something is ready, and nready says how much.
Wait ==
  /\ pc = "wait"
  /\ backlog # <<>> \/ \E e \in Entries : e <= maxi /\ IsReady(e)
  /\ marked' = [e \in Entries |-> IF e <= maxi THEN Mark(e) ELSE marked[e]]
  /\ nready' = Cardinality({e \in Entries : e <= maxi /\ IsReady(e)})
                 + (IF backlog # <<>> THEN 1 ELSE 0)
  /\ IF backlog # <<>> THEN pc' = "accept" /\ i' = 0
     ELSE PassFrom(1, marked', client, maxi)
  /\ UNCHANGED <<peerVars, api, up, client, maxi, buf>>

\* Slip: the first entry is taken without a test.
FirstEntry(e) == e = 1
\* The loop over the table stops at the first free entry.
FirstFree(e) == ~Occupied(e) /\ \A d \in Entries : d < e => Occupied(d)

\* Slip: maxi counts the entries.
OneMore(e) == maxi + 1
\* if (i > maxi) maxi = i;
NewMaxi(e) == IF e > maxi THEN e ELSE maxi

\* accept, the connection put in the table, and the pass after it: --nready < 0
\* never holds, since accept is reached with nready of at least 1.
Accept(e) ==
  /\ pc = "accept" /\ FirstFree(e)
  /\ client' = [client EXCEPT ![e] = Head(backlog)]
  /\ backlog' = Tail(backlog)
  /\ maxi' = NewMaxi(e)
  /\ nready' = nready - 1
  /\ PassFrom(1, marked, client', maxi')
  /\ UNCHANGED <<cpc, out, arrived, taken, back, seen, link, api, up, marked, buf>>

\* accept fails for want of descriptors or memory, or the table is full.
AcceptFails ==
  /\ pc = "accept"
  /\ up' = IF \E e \in Entries : ~Occupied(e) THEN "accept error" ELSE "too many connection"
  /\ UNCHANGED <<peerVars, api, pc, client, maxi, marked, nready, i, buf>>

\* if (--nready <= 0) break;
Onwards(t) ==
  /\ nready' = nready - 1
  /\ IF nready - 1 <= 0 THEN pc' = "wait" /\ i' = 0
     ELSE PassFrom(i + 1, marked, t, maxi)

\* read() > 0; with nothing to read and no end of stream the call blocks.
ReadSome ==
  /\ pc = "read" /\ Unread(client[i]) > 0
  /\ buf' = ReadPieces(client[i])
  /\ taken' = [taken EXCEPT ![client[i]] = @ + ReadLen(client[i])]
  /\ pc' = "write"
  /\ UNCHANGED <<cpc, out, arrived, back, seen, link, backlog, api, up, client, maxi,
                 marked, nready, i>>

\* read() <= 0
ReadEnds ==
  /\ pc = "read" /\ Unread(client[i]) = 0 /\ link[client[i]] \in Ended
  /\ Close(client[i])
  /\ client' = [client EXCEPT ![i] = Free]
  /\ buf' = <<>>
  /\ Onwards(client')
  /\ UNCHANGED <<cpc, out, arrived, taken, back, seen, backlog, api, up, maxi, marked>>

\* Slip: the buffer is written twice.
Twice == buf \o buf
\* write(sockfd, buf, n)
Written == buf

\* write() == n
WriteBack ==
  /\ pc = "write" /\ link[client[i]] \in {"open", "fin"}
  /\ back' = [back EXCEPT ![client[i]] = @ \o Written]
  /\ Onwards(client)
  /\ UNCHANGED <<cpc, out, arrived, taken, seen, link, backlog, api, up, client, maxi,
                 marked, buf>>

\* write() != n on a reset connection: break; the entry stays.
WriteFails ==
  /\ pc = "write" /\ link[client[i]] = "reset"
  /\ link' = [link EXCEPT ![client[i]] = "spent"]
  /\ pc' = "wait" /\ i' = 0
  /\ UNCHANGED <<cpc, out, arrived, taken, back, seen, backlog, api, up, client, maxi,
                 marked, nready, buf>>

\* SIGPIPE
WriteKills ==
  /\ pc = "write" /\ link[client[i]] \in {"broken", "spent"}
  /\ up' = "killed"
  /\ UNCHANGED <<peerVars, api, pc, client, maxi, marked, nready, i, buf>>

Server ==
  \/ Wait \/ (\E e \in Entries : Accept(e)) \/ AcceptFails \/ ReadSome \/ ReadEnds
  \/ WriteBack \/ WriteFails \/ WriteKills

Peer(c) ==
  /\ Connect(c) \/ SendLine(c) \/ ReadPiece(c) \/ Leave(c) \/ Incoming(c)
  /\ UNCHANGED <<api, scanVars>>

Running == up = "up"

Next == Running /\ (Server \/ \E c \in Clients : Peer(c))

\* As for EchoEpoll: the server, the network and a client in readline go on.
Fairness ==
  /\ WF_vars(Running /\ Server)
  /\ \A c \in Clients :
       /\ WF_vars(Running /\ Incoming(c) /\ UNCHANGED <<api, scanVars>>)
       /\ WF_vars(Running /\ ReadPiece(c) /\ UNCHANGED <<api, scanVars>>)

Spec == Init /\ [][Next]_vars /\ Fairness
-----------------------------------------------------------------------------
\* Types.
TypeOK ==
  /\ PeersTypeOK
  /\ api \in {"select", "poll"}
  /\ up \in {"up", "accept error", "too many connection", "killed"}
  /\ pc \in {"wait", "accept", "read", "write"}
  /\ client \in [Entries -> Clients \cup {Free}] /\ maxi \in 0..Slots
  /\ marked \in [Entries -> {0, 1}]
  /\ nready \in Int /\ i \in 0..Slots
  /\ buf \in Seq(Clients \X Nat)

\* The read at an entry that is not there to be read from: the server is stuck
\* until that client sends something or leaves.
Stuck == pc = "read" /\ ~Readable(client[i])

\* What select reported stays true until the read (select server.c:112-118): the
\* read never blocks.  In the poll server (server.c:119) it blocks only at an entry
\* used for the first time, in the round of its accept, whose revents are garbage.
BlocksOnlyOnGarbage ==
  Stuck => api = "poll" /\ i = maxi /\ \A e \in Entries : e < i => Occupied(e)

Live(c) == link[c] \notin {"none", "closed"}

\* Whoever is connected and not closed waits for accept or has an entry of the table,
\* one and up to maxi (select server.c:83-102, 110-123): nobody is forgotten by the pass
\* or in it twice, and no entry is left to a connection that is closed.
TableCovers ==
  /\ \A c \in Clients : Live(c) =>
       \/ \E e \in Entries : e <= maxi /\ client[e] = c
       \/ \E k \in DOMAIN backlog : backlog[k] = c
  /\ \A e \in Entries : Occupied(e) =>
       /\ e <= maxi /\ Live(client[e])
       /\ \A d \in Entries : client[d] = client[e] => d = e
       /\ \A k \in DOMAIN backlog : backlog[k] # client[e]

\* A line is answered, unless the server ends or is stuck (select server.c:62-136).
Served ==
  \A c \in Clients : cpc[c] = "readline" ~> (cpc[c] # "readline" \/ up # "up" \/ Stuck)

E == INSTANCE Echo

\* The server implements the echo service: own pieces, each once, in order.
ImplementsEcho == E!Spec
=============================================================================
