------------------------------ MODULE EchoPeers -----------------------------
(***************************************************************************)
(* The clients of the echo servers (str_cli of epoll_socket, select_socket *)
(* and poll_socket, the same text in all three) and the TCP connections    *)
(* they use.  EchoEpoll and EchoScan are the servers.                      *)
(*                                                                         *)
(* A line of client c travels in LineLen[c] pieces, the last of which      *)
(* holds the newline; its piece k is <<c, k>>.                             *)
(* A connection is named by its client:                                    *)
(* a server closes a descriptor only while it handles that descriptor, so  *)
(* a reused number never meets an event or a bit of its former owner.      *)
(*                                                                         *)
(* What the kernel does is external, taken from how the servers use it: a  *)
(* client that ends sends FIN, or RST if it left something unread; what is *)
(* written to a client that has ended is answered by RST; the first        *)
(* system call after a reset reports it, and a write after the report, or  *)
(* after FIN and RST, raises SIGPIPE, which no server handles.             *)
(***************************************************************************)
EXTENDS Integers, Sequences, FiniteSets

CONSTANTS Clients,
          LineLen,    \* pieces of each client's lines
          Lines,      \* bound: how many lines each client sends
          BufLen      \* pieces that fit in buf (MAX_LINE)

ASSUME PeersAssumption ==
  /\ LineLen \in [Clients -> Nat \ {0}] /\ Lines \in [Clients -> Nat] /\ BufLen \in Nat \ {0}

VARIABLES
  cpc,       \* where each client is
  out,       \* pieces it has written
  arrived,   \* how many of them are in the server's socket
  taken,     \* how many of them the server has read
  back,      \* the pieces the server has written to the connection
  seen,      \* how many of those the client has read
  link,      \* the connection as the server's kernel sees it
  backlog    \* connections that wait for accept

peerVars == <<cpc, out, arrived, taken, back, seen, link, backlog>>

Piece(c, k) == <<c, k>>
IsNewline(pc) == pc[2] % LineLen[pc[1]] = 0

PeersInit ==
  /\ cpc = [c \in Clients |-> "away"]
  /\ out = [c \in Clients |-> 0] /\ arrived = [c \in Clients |-> 0]
  /\ taken = [c \in Clients |-> 0]
  /\ back = [c \in Clients |-> <<>>] /\ seen = [c \in Clients |-> 0]
  /\ link = [c \in Clients |-> "none"] /\ backlog = <<>>

PeersTypeOK ==
  /\ cpc \in [Clients -> {"away", "fgets", "readline", "gone"}]
  /\ out \in [Clients -> Nat] /\ arrived \in [Clients -> Nat]
  /\ taken \in [Clients -> Nat] /\ seen \in [Clients -> Nat]
  /\ back \in [Clients -> Seq(Clients \X Nat)]
  /\ link \in [Clients -> {"none", "open", "fin", "reset", "broken", "spent", "closed"}]
  /\ backlog \in Seq(Clients)
-----------------------------------------------------------------------------
(* The clients.                                                            *)

\* connect(): the connection is complete before anybody accepts it.
Connect(c) ==
  /\ cpc[c] = "away"
  /\ cpc' = [cpc EXCEPT ![c] = "fgets"]
  /\ link' = [link EXCEPT ![c] = "open"]
  /\ backlog' = Append(backlog, c)
  /\ UNCHANGED <<out, arrived, taken, back, seen>>

\* fgets and write: the whole line goes to the kernel.
SendLine(c) ==
  /\ cpc[c] = "fgets" /\ out[c] < LineLen[c] * Lines[c]
  /\ out' = [out EXCEPT ![c] = @ + LineLen[c]]
  /\ cpc' = [cpc EXCEPT ![c] = "readline"]
  /\ UNCHANGED <<arrived, taken, back, seen, link, backlog>>

\* readline reads on until it has read a newline, whoever's it is; then fputs.
ReadPiece(c) ==
  /\ cpc[c] = "readline" /\ seen[c] < Len(back[c])
  /\ seen' = [seen EXCEPT ![c] = @ + 1]
  /\ cpc' = IF IsNewline(back[c][seen[c] + 1]) THEN [cpc EXCEPT ![c] = "fgets"] ELSE cpc
  /\ UNCHANGED <<out, arrived, taken, back, link, backlog>>

\* The end of the input, or the client is killed at any place.
Leave(c) ==
  /\ cpc[c] \in {"fgets", "readline"}
  /\ cpc' = [cpc EXCEPT ![c] = "gone"]
  /\ UNCHANGED <<out, arrived, taken, back, seen, link, backlog>>
-----------------------------------------------------------------------------
(* The network.                                                            *)

Arrive(c) ==
  /\ link[c] = "open" /\ arrived[c] < out[c]
  /\ arrived' = [arrived EXCEPT ![c] = @ + 1]
  /\ UNCHANGED <<cpc, out, taken, back, seen, link, backlog>>

\* FIN, or RST when the client left something unread.
EndArrives(c) ==
  /\ link[c] = "open" /\ cpc[c] = "gone" /\ arrived[c] = out[c]
  /\ \/ link' = [link EXCEPT ![c] = "fin"]
     \/ seen[c] < Len(back[c]) /\ link' = [link EXCEPT ![c] = "reset"]
  /\ UNCHANGED <<cpc, out, arrived, taken, back, seen, backlog>>

\* The answer to what was written to a client that has ended.
RstArrives(c) ==
  /\ link[c] = "fin" /\ seen[c] < Len(back[c])
  /\ link' = [link EXCEPT ![c] = "broken"]
  /\ UNCHANGED <<cpc, out, arrived, taken, back, seen, backlog>>

\* Steps after which a waiting server may find c readable.
Incoming(c) == Arrive(c) \/ EndArrives(c) \/ RstArrives(c)
-----------------------------------------------------------------------------
(* The system calls of the servers.                                        *)

Ended == {"fin", "reset", "broken", "spent"}
Unread(c) == arrived[c] - taken[c]
Readable(c) == Unread(c) > 0 \/ link[c] \in Ended

\* read(): what is there, as far as it fits, and the end only after it; a reset that
\* follows a FIN is not reported by it.
ReadLen(c) == IF Unread(c) < BufLen THEN Unread(c) ELSE BufLen
ReadPieces(c) == [j \in 1..ReadLen(c) |-> Piece(c, taken[c] + j)]
ReadResult(c) ==
  CASE Unread(c) > 0 -> ReadLen(c)
    [] Unread(c) = 0 /\ link[c] = "reset" -> -1
    [] OTHER -> 0

\* close()
Close(c) == link' = [link EXCEPT ![c] = "closed"]
=============================================================================
