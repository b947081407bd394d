---------------------------- MODULE ChatDispatch ----------------------------
(***************************************************************************)
(* ChatRome server, server.c: the select loop of main accepts connections, *)
(* and hands a readable one to a new thread (handleRequest) by the ADDRESS *)
(* of its local variable sockfd.  The variable is therefore shared: main   *)
(* overwrites it while threads still have to read it, and every thread     *)
(* stores -1 into it when it ends, possibly between main's read of a slot  *)
(* and main's FD_CLR.                                                      *)
(*                                                                         *)
(* Descriptors are numbers of a per-process table (kernel, external):      *)
(* accept returns the lowest free one, close frees it, and a blocked recv  *)
(* keeps the connection it resolved when it started.  What a request does  *)
(* to the database and the user list is ChatSession; here a login only     *)
(* matters because enterChat closes the descriptor before handleRequest    *)
(* closes it again.                                                        *)
(***************************************************************************)
EXTENDS Integers, Sequences, FiniteSets

CONSTANTS Conns,      \* client connections
          Threads,    \* handler threads, one per pthread_create
          SlotCount,  \* FD_SETSIZE, the length of client_sockfd
          ListenFd,   \* the listening descriptor
          MaxDesc     \* bound: the largest descriptor the process may open

ASSUME DispatchAssumption ==
  /\ SlotCount \in Nat \ {0}
  /\ ListenFd \in Nat /\ MaxDesc \in Nat /\ ListenFd < MaxDesc
  /\ ListenFd # 63
  /\ {"nothing", "listener"} \cap Conns = {}

Slots == 0..(SlotCount - 1)
Fds == ListenFd..MaxDesc
ConnFds == (ListenFd + 1)..MaxDesc
NoFd == -1
Nothing == "nothing"     \* no connection behind a descriptor
Listener == "listener"   \* the listening socket

VARIABLES
  \* kernel and clients
  file,      \* [Fds -> what the descriptor is open on]
  backlog,   \* connections waiting for accept
  inbox,     \* [Conns -> messages received and not yet read]
  phase,     \* [Conns -> what the client has done]
  answered,  \* connections that got a RESULT message
  \* main
  mpc, idx, nready, rset, allset, maxfd, maxi,
  client_sockfd,
  sockfd,    \* main's local variable, shared by address
  \* threads
  tpc,       \* where each handler is
  tfd,       \* its own local sockfd
  tconn,     \* the connection a recv in progress resolved
  treq       \* the request it received

clientVars == <<phase>>
kernelVars == <<file, backlog, inbox, answered>>
mainVars == <<mpc, idx, nready, rset, allset, maxfd, maxi, client_sockfd>>
threadVars == <<tpc, tfd, tconn, treq>>
vars == <<clientVars, kernelVars, mainVars, sockfd, threadVars>>

Requests == {"register", "login"}
Messages == Requests \cup {"exit", "eof"}

\* FD_CLR(-1, set) clears bit 63 of the first word of the set.
BitOf(fd) == IF fd = NoFd THEN 63 ELSE fd

OpenOn(fd) == IF fd \in Fds THEN file[fd] ELSE Nothing

\* A connection is readable when a message or the end of the stream is there.
Readable(c) == c \in Conns /\ inbox[c] # <<>>

\* What select reports about a watched descriptor.
ReadyFd(fd) ==
  \/ OpenOn(fd) = Listener /\ backlog # <<>>
  \/ Readable(OpenOn(fd))

FreeFds == {fd \in Fds : file[fd] = Nothing}
FreeSlots == {s \in Slots : client_sockfd[s] = NoFd}
-----------------------------------------------------------------------------
\* Slips the properties must notice: maxfd not raised, maxi one past the slot,
\* the descriptors that were not readable dropped from the watched set.
KeepMaxfd(fd) == maxfd
MaxiPastSlot(s) == IF s + 1 > maxi THEN s + 1 ELSE maxi
KeepOnlyReadable(fd) == allset \cap rset

\* if (connfd > maxfd) maxfd = connfd;
MaxfdWith(fd) == IF fd > maxfd THEN fd ELSE maxfd

\* if (i > maxi) maxi = i;
MaxiWith(s) == IF s > maxi THEN s ELSE maxi

\* FD_CLR(sockfd, &allset)
Unwatch(fd) == allset \ {BitOf(fd)}

\* close(fd): frees the descriptor, whatever it is open on by now.
CloseFd(fd) == IF fd \in Fds THEN [file EXCEPT ![fd] = Nothing] ELSE file

Init ==
  /\ file = [fd \in Fds |-> IF fd = ListenFd THEN Listener ELSE Nothing]
  /\ backlog = <<>>
  /\ inbox = [c \in Conns |-> <<>>]
  /\ phase = [c \in Conns |-> "new"]
  /\ answered = {}
  /\ mpc = "select" /\ idx = 0 /\ nready = 0
  /\ rset = {} /\ allset = {ListenFd}
  /\ maxfd = ListenFd /\ maxi = -1
  /\ client_sockfd = [s \in Slots |-> NoFd]
  /\ sockfd = NoFd
  /\ tpc = [t \in Threads |-> "unborn"]
  /\ tfd = [t \in Threads |-> NoFd]
  /\ tconn = [t \in Threads |-> Nothing]
  /\ treq = [t \in Threads |-> Nothing]
-----------------------------------------------------------------------------
(* Clients, from client/client.c and client/chat.c.                        *)

\* connect: the main menu is shown only after the connection exists.
Connect(c) ==
  /\ phase[c] = "new"
  /\ phase' = [phase EXCEPT ![c] = "idle"]
  /\ backlog' = Append(backlog, c)
  /\ UNCHANGED <<file, inbox, answered, mainVars, sockfd, threadVars>>

\* The user picks register or login; the request and the user record are sent.
Request(c, r) ==
  /\ phase[c] = "idle"
  /\ phase' = [phase EXCEPT ![c] = r]
  /\ inbox' = [inbox EXCEPT ![c] = Append(@, r)]
  /\ UNCHANGED <<file, backlog, answered, mainVars, sockfd, threadVars>>

\* Exit from the chat menu after a login: an EXIT message, then close.
Leave(c) ==
  /\ phase[c] = "login" /\ c \in answered
  /\ phase' = [phase EXCEPT ![c] = "gone"]
  /\ inbox' = [inbox EXCEPT ![c] = @ \o <<"exit", "eof">>]
  /\ UNCHANGED <<file, backlog, answered, mainVars, sockfd, threadVars>>

\* The client process ends at any other point: the peer sees end of stream.
Vanish(c) ==
  /\ phase[c] \in {"idle", "register", "login"}
  /\ phase' = [phase EXCEPT ![c] = "gone"]
  /\ inbox' = [inbox EXCEPT ![c] = Append(@, "eof")]
  /\ UNCHANGED <<file, backlog, answered, mainVars, sockfd, threadVars>>
-----------------------------------------------------------------------------
(* main, lines 90-158.                                                     *)

\* select returns the readable descriptors, or -1 with the set untouched when
\* a watched descriptor has been closed under it.
Select ==
  /\ mpc = "select"
  /\ LET watched == {fd \in allset : fd <= maxfd}
         ready == {fd \in watched : ReadyFd(fd)} IN
     IF \E fd \in watched : OpenOn(fd) = Nothing
       THEN rset' = allset /\ nready' = -1
       ELSE ready # {} /\ rset' = ready /\ nready' = Cardinality(ready)
  /\ mpc' = IF ListenFd \in rset' THEN "accept" ELSE "scan"
  /\ idx' = 0
  /\ UNCHANGED <<allset, maxfd, maxi, client_sockfd, clientVars, kernelVars,
                 sockfd, threadVars>>

\* accept, a slot, FD_SET; blocks while no connection is pending.
Accept ==
  /\ mpc = "accept"
  /\ backlog # <<>>
  /\ \E fd \in FreeFds, s \in FreeSlots :
       /\ \A f \in FreeFds : fd <= f
       /\ \A r \in FreeSlots : s <= r
       /\ file' = [file EXCEPT ![fd] = Head(backlog)]
       /\ client_sockfd' = [client_sockfd EXCEPT ![s] = fd]
       /\ allset' = allset \cup {fd}
       /\ maxfd' = MaxfdWith(fd)
       /\ maxi' = MaxiWith(s)
  /\ backlog' = Tail(backlog)
  /\ nready' = nready - 1
  /\ mpc' = IF nready - 1 <= 0 THEN "select" ELSE "scan"
  /\ UNCHANGED <<inbox, answered, idx, rset, clientVars, sockfd, threadVars>>

\* accept fails for want of a descriptor, or every slot is taken: exit(1), which
\* ends every thread as well.
AcceptFails ==
  /\ mpc = "accept"
  /\ backlog # <<>>
  /\ FreeFds = {} \/ FreeSlots = {}
  /\ mpc' = "exit"
  /\ tpc' = [t \in Threads |-> "done"]
  /\ UNCHANGED <<idx, nready, rset, allset, maxfd, maxi, client_sockfd,
                 clientVars, kernelVars, sockfd, tfd, tconn, treq>>

\* One round of the for loop: if ((sockfd = client_sockfd[i]) < 0) continue;
Scan ==
  /\ mpc = "scan" /\ idx <= maxi
  /\ sockfd' = client_sockfd[idx]
  /\ IF client_sockfd[idx] = NoFd
       THEN idx' = idx + 1 /\ UNCHANGED mpc
       ELSE mpc' = "test" /\ UNCHANGED idx
  /\ UNCHANGED <<nready, rset, allset, maxfd, maxi, client_sockfd, clientVars,
                 kernelVars, threadVars>>

\* FD_ISSET(sockfd, &rset) reads the shared variable again: not readable ...
SkipThread ==
  /\ mpc = "test" /\ BitOf(sockfd) \notin rset
  /\ mpc' = "clear"
  /\ UNCHANGED <<idx, nready, rset, allset, maxfd, maxi, client_sockfd,
                 clientVars, kernelVars, sockfd, threadVars>>

\* ... readable, with descriptors left in nready: pthread_create ...
CreateThread ==
  /\ mpc = "test" /\ BitOf(sockfd) \in rset /\ nready > 0
  /\ nready' = nready - 1
  /\ \E t \in Threads : tpc[t] = "unborn" /\ tpc' = [tpc EXCEPT ![t] = "start"]
  /\ mpc' = "clear"
  /\ UNCHANGED <<idx, rset, allset, maxfd, maxi, client_sockfd, clientVars,
                 kernelVars, sockfd, tfd, tconn, treq>>

\* ... or readable with none left: break out of the for loop.
BreakScan ==
  /\ mpc = "test" /\ BitOf(sockfd) \in rset /\ nready <= 0
  /\ nready' = nready - 1
  /\ mpc' = "select"
  /\ UNCHANGED <<idx, rset, allset, maxfd, maxi, client_sockfd, clientVars,
                 kernelVars, sockfd, threadVars>>

\* FD_CLR(sockfd, &allset); client_sockfd[i] = -1, for every occupied slot the
\* loop passes, readable or not.  sockfd is read again here.
Clear ==
  /\ mpc = "clear"
  /\ allset' = Unwatch(sockfd)
  /\ client_sockfd' = [client_sockfd EXCEPT ![idx] = NoFd]
  /\ idx' = idx + 1
  /\ mpc' = "scan"
  /\ UNCHANGED <<nready, rset, maxfd, maxi, clientVars, kernelVars, sockfd,
                 threadVars>>

EndScan ==
  /\ mpc = "scan" /\ idx > maxi
  /\ mpc' = "select"
  /\ UNCHANGED <<idx, nready, rset, allset, maxfd, maxi, client_sockfd,
                 clientVars, kernelVars, sockfd, threadVars>>

Main ==
  \/ Select \/ Accept \/ AcceptFails \/ Scan
  \/ SkipThread \/ CreateThread \/ BreakScan \/ Clear \/ EndScan
-----------------------------------------------------------------------------
(* handleRequest, lines 165-238, and the exits of enterChat.               *)

TGoto(t, l) == tpc' = [tpc EXCEPT ![t] = l]

\* sockfd = *fd: whatever main's variable holds by now.
Begin(t) ==
  /\ tpc[t] = "start"
  /\ tfd' = [tfd EXCEPT ![t] = sockfd]
  /\ TGoto(t, "recv")
  /\ UNCHANGED <<clientVars, kernelVars, mainVars, sockfd, tconn, treq>>

\* recv on a descriptor that is not a connection fails at once (n <= 0).
RecvFails(t) ==
  /\ tpc[t] = "recv" /\ OpenOn(tfd[t]) \notin Conns
  /\ TGoto(t, "close")
  /\ UNCHANGED <<clientVars, kernelVars, mainVars, sockfd, tfd, tconn, treq>>

\* recv resolves the descriptor and waits on the connection behind it; "recv"
\* is the first receive, "chat" the one in enterChat's loop (where a failing
\* receive is not tested and the loop just goes round again).
RecvCall(t) ==
  /\ tpc[t] \in {"recv", "chat"} /\ OpenOn(tfd[t]) \in Conns
  /\ tconn' = [tconn EXCEPT ![t] = OpenOn(tfd[t])]
  /\ TGoto(t, IF tpc[t] = "recv" THEN "recving" ELSE "chatting")
  /\ UNCHANGED <<clientVars, kernelVars, mainVars, sockfd, tfd, treq>>

\* The end of the stream is not consumed: later receives see it too.
TakeMessage(c) ==
  inbox' = IF Head(inbox[c]) = "eof" THEN inbox ELSE [inbox EXCEPT ![c] = Tail(@)]

\* The first recv returns: end of stream, a request, or an unknown operation.
FirstMessage(t) ==
  /\ tpc[t] = "recving" /\ Readable(tconn[t])
  /\ LET m == Head(inbox[tconn[t]]) IN
       IF m \in Requests
         THEN TGoto(t, "reply") /\ treq' = [treq EXCEPT ![t] = m]
         ELSE TGoto(t, "close") /\ UNCHANGED treq
  /\ TakeMessage(tconn[t])
  /\ tconn' = [tconn EXCEPT ![t] = Nothing]
  /\ UNCHANGED <<clientVars, file, backlog, answered, mainVars, sockfd, tfd>>

\* registerUser or loginUser, then send(sockfd, RESULT); a login, successful or
\* not, goes on to enterChat.
Reply(t) ==
  /\ tpc[t] = "reply"
  /\ answered' = answered \cup ({OpenOn(tfd[t])} \cap Conns)
  /\ TGoto(t, IF treq[t] = "login" THEN "chat" ELSE "close")
  /\ treq' = [treq EXCEPT ![t] = Nothing]
  /\ UNCHANGED <<clientVars, file, backlog, inbox, mainVars, sockfd, tfd, tconn>>

\* enterChat's recv returns: end of stream or EXIT ends the session.
ChatMessage(t) ==
  /\ tpc[t] = "chatting" /\ Readable(tconn[t])
  /\ TGoto(t, IF Head(inbox[tconn[t]]) \in {"exit", "eof"} THEN "chatclose" ELSE "chat")
  /\ TakeMessage(tconn[t])
  /\ tconn' = [tconn EXCEPT ![t] = Nothing]
  /\ UNCHANGED <<clientVars, file, backlog, answered, mainVars, sockfd, tfd, treq>>

\* close(sockfd) in enterChat, and close(sockfd) in handleRequest: a session
\* that ends normally runs both.
CloseSock(t) ==
  /\ tpc[t] \in {"chatclose", "close"}
  /\ file' = CloseFd(tfd[t])
  /\ TGoto(t, IF tpc[t] = "chatclose" THEN "close" ELSE "store")
  /\ UNCHANGED <<clientVars, backlog, inbox, answered, mainVars, sockfd, tfd, tconn, treq>>

\* *fd = -1: a store into main's variable; then the thread and its locals end.
StoreMinusOne(t) ==
  /\ tpc[t] = "store"
  /\ sockfd' = NoFd
  /\ tfd' = [tfd EXCEPT ![t] = NoFd]
  /\ TGoto(t, "done")
  /\ UNCHANGED <<clientVars, kernelVars, mainVars, tconn, treq>>

Handler(t) ==
  \/ Begin(t) \/ RecvFails(t) \/ RecvCall(t) \/ FirstMessage(t) \/ Reply(t)
  \/ ChatMessage(t) \/ CloseSock(t) \/ StoreMinusOne(t)

Client(c) ==
  \/ Connect(c) \/ Leave(c) \/ Vanish(c)
  \/ \E r \in Requests : Request(c, r)

Next == Main \/ (\E t \in Threads : Handler(t)) \/ (\E c \in Conns : Client(c))

Spec == Init /\ [][Next]_vars

\* main and the threads are scheduled; users promise nothing.
FairSpec == Spec /\ WF_vars(Main) /\ \A t \in Threads : WF_vars(Handler(t))
-----------------------------------------------------------------------------
ThreadLocations == {"unborn", "start", "recv", "recving", "reply", "chat",
                    "chatting", "chatclose", "close", "store", "done"}

\* Types of the kernel tables and of the variables of main and the threads.
TypeOK ==
  /\ file \in [Fds -> Conns \cup {Nothing, Listener}]
  /\ backlog \in Seq(Conns)
  /\ inbox \in [Conns -> Seq(Messages)]
  /\ phase \in [Conns -> {"new", "idle", "register", "login", "gone"}]
  /\ answered \subseteq Conns
  /\ mpc \in {"select", "accept", "scan", "test", "clear", "exit"}
  /\ idx \in 0..SlotCount /\ nready \in Int
  /\ rset \subseteq Fds /\ allset \subseteq Fds
  /\ maxfd \in Fds /\ maxi \in -1..(SlotCount - 1)
  /\ client_sockfd \in [Slots -> ConnFds \cup {NoFd}]
  /\ sockfd \in ConnFds \cup {NoFd}
  /\ tpc \in [Threads -> ThreadLocations]
  /\ tfd \in [Threads -> ConnFds \cup {NoFd}]
  /\ tconn \in [Threads -> Conns \cup {Nothing}]
  /\ treq \in [Threads -> Requests \cup {Nothing}]

\* The listening socket stays open and watched through every close of a stale
\* or reused descriptor (server.c:155, 207, 235, chat.c:366, 412): whatever the
\* races do, new clients can still connect.
ListenerSafe == file[ListenFd] = Listener /\ ListenFd \in allset

\* select is told about every watched descriptor (server.c:94, 129) and the
\* scan reaches every occupied slot (server.c:133, 141).
WatchCovered ==
  /\ \A fd \in allset : fd <= maxfd
  /\ \A s \in Slots : client_sockfd[s] # NoFd => s <= maxi

\* A connection that arrives is accepted, unless the server runs out of slots
\* or descriptors and exits: no scan, failed select or dead descriptor keeps
\* main from coming back to accept (server.c:90-158).
EveryoneAccepted ==
  \A c \in Conns :
    (phase[c] # "new" /\ c \in {backlog[k] : k \in DOMAIN backlog})
      ~> (mpc = "exit" \/ c \notin {backlog[k] : k \in DOMAIN backlog})

\* "多客户可同时连接服务器进行自己操作" (readme, item 3): clients connected at the
\* same time can all carry out their operations, so a client that has sent its
\* request and stays connected is answered.
EveryoneServed ==
  \A c \in Conns :
    phase[c] \in Requests ~> (c \in answered \/ phase[c] = "gone" \/ mpc = "exit")
=============================================================================
