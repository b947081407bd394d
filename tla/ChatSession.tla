---------------------------- MODULE ChatSession -----------------------------
(***************************************************************************)
(* ChatRome server: what the handler threads do to the state they share,   *)
(* the linked list of online users (list.c) and the database (register.c,  *)
(* login.c, chat.c).  Nothing is locked: every load and store of a list    *)
(* pointer is a step of its own, so is every SQL statement, and threads    *)
(* interleave between them.                                                *)
(*                                                                         *)
(* A session is one client connection with the thread that serves it; how  *)
(* main hands connections to threads is ChatDispatch.  Heap chunks are     *)
(* Nodes.  free overwrites the start of a chunk (the name) and leaves the  *)
(* rest, calloc may return any chunk that is not in use, and reading a     *)
(* freed chunk yields what is left there or kills the process.             *)
(***************************************************************************)
EXTENDS Integers, Sequences, FiniteSets

CONSTANTS Sessions,   \* client connections and their threads
          Names,      \* user names
          LongNames,  \* the names strlen finds longer than 20
          Passwords,
          Quoted,     \* the names and passwords with a quote in their text
          Nodes,      \* heap chunks for list nodes (bound)
          Fds,        \* descriptors the connections use (bound)
          Database,   \* the User table at start: [Names -> password or NoPassword]
          Offered,    \* the requests users make (bound)
          MaxSends    \* bound: chat requests in one behaviour

NoPassword == "no password"
Null == "NULL"
Junk == "junk"         \* what is left of the name in a freed chunk
Nobody == "nobody"     \* no connection, no addressee
NoFd == -1
ChatKinds == {"group", "personal", "view", "records", "exit"}

ASSUME SessionAssumption ==
  /\ LongNames \subseteq Names
  /\ Database \in [Names -> Passwords \cup {NoPassword}]
  /\ Offered \subseteq {"register", "login"} \cup ChatKinds
  /\ Fds \subseteq Nat /\ MaxSends \in Nat /\ IsFiniteSet(Nodes)
  /\ NoPassword \notin Passwords /\ Null \notin Nodes
  /\ {Junk, Nobody} \cap Names = {} /\ Nobody \notin Sessions

VARIABLES
  up,            \* "up" until the process is killed
  registered,    \* table User: name -> password
  messages,      \* table Message
  userList, live, name, nfd, next,   \* the list and its heap
  file, peer, sent, delivered,       \* connections and their clients
  pc, op, who, pw, sock,             \* each thread's place, request, user, sockfd
  conn, msg,                         \* the connection recv waits on, the last message
  list, p, pre, node,                \* locals of the list functions
  answer,                            \* the RESULT sent back
  online, raced, headGone            \* history: see ListTracksLogins

dbVars == <<registered, messages>>
heapVars == <<userList, live, name, nfd, next>>
connVars == <<file, peer, sent, delivered>>
idVars == <<who, pw, sock>>
recvVars == <<conn, msg>>
localVars == <<list, p, pre, node>>
histVars == <<online, raced, headGone>>
vars == <<up, dbVars, heapVars, connVars, pc, op, idVars, recvVars, localVars,
          answer, histVars>>

NoMsg == [kind |-> "none", from |-> Nobody, to |-> Nobody]
\* Rows of table Message that are not the message as it was sent.
Forged == [kind |-> "forged", from |-> Nobody, to |-> Nobody]
Msgs == [kind : ChatKinds, from : Names, to : Names \cup {Nobody}]

Init ==
  /\ up = "up"
  /\ registered = Database /\ messages = {}
  /\ userList = Null /\ live = {}
  /\ name = [n \in Nodes |-> Junk] /\ nfd = [n \in Nodes |-> NoFd]
  /\ next = [n \in Nodes |-> Null]
  /\ file = [fd \in Fds |-> Nobody]
  /\ peer = [s \in Sessions |-> "away"] /\ sent = 0
  /\ delivered = {}
  /\ pc = [s \in Sessions |-> "idle"] /\ op = [s \in Sessions |-> "none"]
  /\ who = [s \in Sessions |-> Nobody] /\ pw = [s \in Sessions |-> NoPassword]
  /\ sock = [s \in Sessions |-> NoFd]
  /\ conn = [s \in Sessions |-> Nobody] /\ msg = [s \in Sessions |-> NoMsg]
  /\ list = [s \in Sessions |-> Null] /\ p = [s \in Sessions |-> Null]
  /\ pre = [s \in Sessions |-> Null] /\ node = [s \in Sessions |-> Null]
  /\ answer = [s \in Sessions |-> "none"]
  /\ online = <<>> /\ raced = FALSE /\ headGone = FALSE

Goto(s, l) == pc' = [pc EXCEPT ![s] = l]
Answer(s, r) == answer' = [answer EXCEPT ![s] = r] /\ Goto(s, "reply")

\* Another thread is inside a statement: without a busy handler SQLite may
\* answer SQLITE_BUSY, which no caller tells from "no row" or from success.
DbBusy(s) == \E u \in Sessions \ {s} : pc[u] \in {"rcheck", "rinsert", "check", "record", "records"}
-----------------------------------------------------------------------------
(* Clients and connections.                                                *)

\* The connection is accepted on the lowest free descriptor and its request and
\* user record are read by the thread made for it.  The second recv is not tested:
\* if the client has ended before its record came, the name and the password are
\* what the thread's stack holds, any text, and the request is served all the same.
Start(s, r, u, w) ==
  /\ pc[s] = "idle" /\ r \in Offered
  /\ \E fd \in Fds :
       /\ file[fd] = Nobody /\ \A f \in Fds : file[f] = Nobody => fd <= f
       /\ file' = [file EXCEPT ![fd] = s]
       /\ sock' = [sock EXCEPT ![s] = fd]
  /\ \E client \in {"here", "gone"} : peer' = [peer EXCEPT ![s] = client]
  /\ op' = [op EXCEPT ![s] = r]
  /\ who' = [who EXCEPT ![s] = u] /\ pw' = [pw EXCEPT ![s] = w]
  \* isOnLine(userList, &user) starts at the current head
  /\ p' = [p EXCEPT ![s] = userList]
  /\ Goto(s, IF r = "register" THEN "rcheck" ELSE "walk")
  /\ UNCHANGED <<dbVars, heapVars, sent, delivered, recvVars, list, pre, node, answer>>

\* The client process ends without saying so.
Vanish(s) ==
  /\ peer[s] = "here"
  /\ peer' = [peer EXCEPT ![s] = "gone"]
  /\ UNCHANGED <<dbVars, heapVars, file, sent, delivered, pc, op, idVars, recvVars,
                 localVars, answer>>
-----------------------------------------------------------------------------
(* registerUser                                                            *)

\* The statements are put together with sprintf and nothing is escaped: only a
\* text without a quote stays the value it was meant to be.  With one, a select
\* may find a row or none whatever the table holds, an insert may add other rows,
\* and either may be refused.
Plain(s) == who[s] \notin Quoted /\ pw[s] \notin Quoted

\* select * from User where userName = ...
HasRow(u) == registered[u] # NoPassword

\* Slip: the password is not compared.
NameOnly(u, w) == HasRow(u)
\* select * from User where userName = ... and password = ...
Matches(u, w) == registered[u] = w

\* The length test, then the select.  A row, a failing sqlite3_open or a failing
\* sqlite3_prepare (either may happen at any time) is an answer; any other
\* result of the step goes on to the insert.
RegisterCheck(s) ==
  /\ pc[s] = "rcheck"
  /\ IF who[s] \in LongNames THEN Answer(s, "INVALID")
     ELSE \/ Answer(s, "FAILED")
          \/ /\ ~HasRow(who[s]) \/ who[s] \in Quoted \/ DbBusy(s)
             /\ Goto(s, "rinsert") /\ UNCHANGED answer
  /\ UNCHANGED <<dbVars, heapVars, connVars, op, idVars, recvVars, localVars>>

\* The tables with every row of User as it is.
Extended == {t \in [Names -> Passwords \cup {NoPassword}] :
               \A u \in Names : HasRow(u) => t[u] = registered[u]}

\* What the insert makes of the table; userName is the primary key.  Only the first
\* statement of the text is compiled, and two fields of 20 bytes are too short to turn
\* an insert into one that replaces rows: it adds some or is refused.
Inserted(s) ==
  CASE ~Plain(s) -> Extended
    [] HasRow(who[s]) -> {registered}
    [] OTHER -> {[registered EXCEPT ![who[s]] = pw[s]]}

\* The result of the step is not looked at: a refused insert is reported as a
\* success like any other.  Only a failing sqlite3_prepare is noticed.
RegisterInsert(s) ==
  /\ pc[s] = "rinsert"
  /\ \/ registered' \in Inserted(s) /\ Answer(s, "SUCCESS")
     \/ DbBusy(s) /\ UNCHANGED registered /\ Answer(s, "SUCCESS")
     \/ UNCHANGED registered /\ Answer(s, "FAILED")
  /\ UNCHANGED <<messages, heapVars, connVars, op, idVars, recvVars, localVars>>
-----------------------------------------------------------------------------
(* The loops of isOnLine, deleteNode, personalChat and viewUserList.       *)

Target(s) ==
  CASE op[s] = "login" -> who[s]
    [] op[s] = "personal" -> msg[s].to
    [] op[s] = "exit" -> msg[s].from
    [] OTHER -> Nobody

\* Slip: the first node is taken for the one that was looked for.
AnyNode(s) == p[s] # Null
\* strcmp of the names says equal.
AtTarget(s) == p[s] # Null /\ name[p[s]] = Target(s)

Walk(s) ==
  /\ pc[s] = "walk" /\ p[s] # Null /\ ~AtTarget(s)
  /\ pre' = [pre EXCEPT ![s] = p[s]]
  /\ p' = [p EXCEPT ![s] = next[p[s]]]
  /\ UNCHANGED <<dbVars, heapVars, connVars, pc, op, idVars, recvVars, list, node, answer>>

Found(s) ==
  /\ pc[s] = "walk" /\ AtTarget(s)
  /\ IF op[s] = "login" THEN Answer(s, "ALREADY_ONLINE")
     ELSE Goto(s, IF op[s] = "personal" THEN "send" ELSE "unlink") /\ UNCHANGED answer
  /\ UNCHANGED <<dbVars, heapVars, connVars, op, idVars, recvVars, localVars>>

\* The end of the list: a login goes on to the database, a personal message and
\* a user list are answered, an exit has nothing to delete.
Missed(s) ==
  /\ pc[s] = "walk" /\ p[s] = Null
  /\ Goto(s, CASE op[s] = "login" -> "check" [] op[s] = "exit" -> "close1" [] OTHER -> "chat")
  /\ UNCHANGED <<dbVars, heapVars, connVars, op, idVars, recvVars, localVars, answer>>
-----------------------------------------------------------------------------
(* loginUser after isOnLine, and insertNode.                               *)

\* A row goes on to the list; no row or any failure of the database is FAILED.
LoginCheck(s) ==
  /\ pc[s] = "check"
  /\ \/ /\ Matches(who[s], pw[s]) \/ ~Plain(s)
        /\ Goto(s, "insert") /\ UNCHANGED answer
     \/ Answer(s, "FAILED")
  /\ UNCHANGED <<dbVars, heapVars, connVars, op, idVars, recvVars, localVars>>

\* insertNode(userList, &user): the head is read, the node allocated and filled.
NewNode(s, n) ==
  /\ pc[s] = "insert" /\ n \in Nodes \ live
  /\ live' = live \cup {n}
  /\ name' = [name EXCEPT ![n] = who[s]]
  /\ nfd' = [nfd EXCEPT ![n] = sock[s]]
  /\ next' = [next EXCEPT ![n] = Null]
  /\ node' = [node EXCEPT ![s] = n]
  /\ p' = [p EXCEPT ![s] = userList]
  /\ list' = [list EXCEPT ![s] = IF userList = Null THEN n ELSE userList]
  /\ Goto(s, IF userList = Null THEN "store" ELSE "seek")
  /\ UNCHANGED <<dbVars, userList, connVars, op, idVars, recvVars, pre, answer>>

\* while (p->next != NULL) p = p->next;
Seek(s) ==
  /\ pc[s] = "seek"
  /\ IF next[p[s]] = Null THEN Goto(s, "link") /\ UNCHANGED p
     ELSE p' = [p EXCEPT ![s] = next[p[s]]] /\ UNCHANGED pc
  /\ UNCHANGED <<dbVars, heapVars, connVars, op, idVars, recvVars, list, pre, node, answer>>

\* Slip: the new node is never linked.
LinkNowhere(s) == next
\* p->next = node;
Linked(s) == [next EXCEPT ![p[s]] = node[s]]

Link(s) ==
  /\ pc[s] = "link"
  /\ next' = Linked(s)
  /\ Goto(s, "store")
  /\ UNCHANGED <<dbVars, userList, live, name, nfd, connVars, op, idVars, recvVars,
                 localVars, answer>>

\* Slip: what insertNode returns is dropped.
DropResult(s) == userList
\* return list;
Returned(s) == list[s]

\* userList = insertNode(...); return SUCCESS;
Store(s) ==
  /\ pc[s] = "store"
  /\ userList' = Returned(s)
  /\ Answer(s, "SUCCESS")
  /\ UNCHANGED <<dbVars, live, name, nfd, next, connVars, op, idVars, recvVars, localVars>>

\* send(sockfd, RESULT).  A login goes on to enterChat whatever its result.
Reply(s) ==
  /\ pc[s] = "reply"
  /\ Goto(s, IF op[s] = "login" THEN "chat" ELSE "close2")
  /\ UNCHANGED <<dbVars, heapVars, connVars, op, idVars, recvVars, localVars, answer>>
-----------------------------------------------------------------------------
(* enterChat.                                                              *)

\* Slip: a message of no known type falls into the last case.
NoDefault(m) == IF m.kind = "none" THEN "record" ELSE "chat"

\* Where the switch takes a message; viewUserList walks the list and answers.
CaseOf(m) ==
  CASE m.kind = "group" -> "group"
    [] m.kind = "personal" -> IF m.from = m.to THEN "chat" ELSE "walk"
    [] m.kind \in {"view", "exit"} -> "walk"
    [] m.kind = "records" -> "records"
    [] OTHER -> "chat"

\* Every case starts at the head of the list as it is now.
Dispatch(s, m) ==
  /\ op' = [op EXCEPT ![s] = IF m.kind = "none" THEN @ ELSE m.kind]
  /\ p' = [p EXCEPT ![s] = userList]
  /\ pre' = [pre EXCEPT ![s] = userList]
  /\ list' = [list EXCEPT ![s] = userList]
  /\ Goto(s, CaseOf(m))

\* recv(sockfd, ...) finds the connection that is behind the descriptor now ...
RecvCall(s) ==
  /\ pc[s] = "chat" /\ file[sock[s]] # Nobody
  /\ conn' = [conn EXCEPT ![s] = file[sock[s]]]
  /\ Goto(s, "wait")
  /\ UNCHANGED <<dbVars, heapVars, connVars, op, idVars, msg, localVars, answer>>

\* ... or fails on a closed one; only n == 0 is tested, so the message that is
\* still in the buffer is handled once more.
RecvFails(s) ==
  /\ pc[s] = "chat" /\ file[sock[s]] = Nobody
  /\ Dispatch(s, msg[s])
  /\ UNCHANGED <<dbVars, heapVars, connVars, idVars, recvVars, node, answer>>

\* A logged-in client picks from its menu; after "exit" it closes and ends.
RecvMessage(s, k, u) ==
  /\ pc[s] = "wait" /\ k \in Offered
  /\ LET c == conn[s]
         m == [kind |-> k, from |-> who[c], to |-> u] IN
     /\ peer[c] = "here" /\ sent < MaxSends
     /\ answer[c] = "SUCCESS" /\ op[c] # "register" /\ pc[c] # "reply"
     /\ u = Nobody <=> k # "personal"
     /\ sent' = sent + 1
     /\ peer' = IF k = "exit" THEN [peer EXCEPT ![c] = "gone"] ELSE peer
     /\ msg' = [msg EXCEPT ![s] = m]
     /\ Dispatch(s, m)
  /\ UNCHANGED <<dbVars, heapVars, file, delivered, idVars, conn, node, answer>>

\* n == 0: the descriptor is closed, the list is left as it is.
RecvEnd(s) ==
  /\ pc[s] = "wait" /\ peer[conn[s]] = "gone"
  /\ Goto(s, "close1")
  /\ UNCHANGED <<dbVars, heapVars, connVars, op, idVars, recvVars, localVars, answer>>

\* send(fd, message): it reaches whatever connection the descriptor is open on.
Deliver(fd, m) ==
  delivered' = IF fd \in Fds /\ file[fd] # Nobody
               THEN delivered \cup {[msg |-> m, conn |-> file[fd]]} ELSE delivered

\* groupChat: only the sender is online, or the message goes down the list.
GroupStart(s) ==
  /\ pc[s] = "group" /\ p[s] # Null
  /\ Goto(s, IF next[p[s]] = Null THEN "chat" ELSE "spread")
  /\ UNCHANGED <<dbVars, heapVars, connVars, op, idVars, recvVars, localVars, answer>>

GroupSend(s) ==
  /\ pc[s] = "spread" /\ p[s] # Null
  /\ IF name[p[s]] # msg[s].from THEN Deliver(nfd[p[s]], msg[s]) ELSE UNCHANGED delivered
  /\ p' = [p EXCEPT ![s] = next[p[s]]]
  /\ UNCHANGED <<dbVars, heapVars, file, peer, sent, pc, op, idVars, recvVars, list,
                 pre, node, answer>>

GroupDone(s) ==
  /\ pc[s] = "spread" /\ p[s] = Null
  /\ Goto(s, "record")
  /\ UNCHANGED <<dbVars, heapVars, connVars, op, idVars, recvVars, localVars, answer>>

\* personalChat, the receiver found: the descriptor stored in its node.
PersonalSend(s) ==
  /\ pc[s] = "send"
  /\ Deliver(nfd[p[s]], msg[s])
  /\ Goto(s, "record")
  /\ UNCHANGED <<dbVars, heapVars, file, peer, sent, op, idVars, recvVars, localVars, answer>>

\* insert into Message, which may fail; enterChat ignores the result.  The names
\* and the content, which is not modelled, go into the statement unescaped, too.
Record(s) ==
  /\ pc[s] = "record"
  /\ \/ UNCHANGED messages
     \/ {msg[s].from, msg[s].to} \cap Quoted = {} /\ messages' = messages \cup {msg[s]}
     \/ messages' = messages \cup {Forged}
  /\ Goto(s, "chat")
  /\ UNCHANGED <<registered, heapVars, connVars, op, idVars, recvVars, localVars, answer>>

\* viewRecords answers from table Message, or with FAILED, and changes nothing.
ViewRecords(s) ==
  /\ pc[s] = "records"
  /\ Goto(s, "chat")
  /\ UNCHANGED <<dbVars, heapVars, connVars, op, idVars, recvVars, localVars, answer>>

\* pre->next = NULL at the tail, pre->next = p->next in the middle.
Unlinked(s) == [next EXCEPT ![pre[s]] = next[p[s]]]

\* deleteNode of the head only moves its own copy of the pointer.
Unlink(s) ==
  /\ pc[s] = "unlink"
  /\ next' = IF p[s] = list[s] THEN next ELSE Unlinked(s)
  /\ list' = IF p[s] = list[s] THEN [list EXCEPT ![s] = next[p[s]]] ELSE list
  /\ Goto(s, "free")
  /\ UNCHANGED <<dbVars, userList, live, name, nfd, connVars, op, idVars, recvVars, p,
                 pre, node, answer>>

Free(s) ==
  /\ pc[s] = "free" /\ p[s] \in live
  /\ live' = live \ {p[s]}
  /\ name' = [name EXCEPT ![p[s]] = Junk]
  /\ Goto(s, "close1")
  /\ UNCHANGED <<dbVars, userList, nfd, next, connVars, op, idVars, recvVars, localVars, answer>>

\* close in enterChat, then close again in handleRequest.
CloseSock(s) ==
  /\ pc[s] \in {"close1", "close2"}
  /\ file' = [file EXCEPT ![sock[s]] = Nobody]
  /\ Goto(s, IF pc[s] = "close1" THEN "close2" ELSE "done")
  /\ UNCHANGED <<dbVars, heapVars, peer, sent, delivered, op, idVars, recvVars,
                 localVars, answer>>
-----------------------------------------------------------------------------
GoneFd(fd) == fd \in Fds /\ file[fd] \in Sessions /\ peer[file[fd]] = "gone"

\* Nothing handles SIGPIPE, a NULL head, a second free or a freed chunk that
\* something else has been given in the meantime: each of these may (the second
\* and third do) end the process.
Fatal(s) ==
  \/ pc[s] \in {"walk", "group", "spread", "seek", "send", "unlink", "free"} /\ p[s] \in Nodes \ live
  \/ pc[s] = "group" /\ p[s] = Null
  \/ pc[s] \in {"send", "spread"} /\ p[s] # Null /\ GoneFd(nfd[p[s]])
  \/ pc[s] = "reply" /\ GoneFd(sock[s])

Killed ==
  /\ \E s \in Sessions : Fatal(s)
  /\ up' = "down"
  /\ UNCHANGED <<dbVars, heapVars, connVars, pc, op, idVars, recvVars, localVars, answer>>

Thread(s) ==
  \/ RegisterCheck(s) \/ RegisterInsert(s) \/ Walk(s) \/ Found(s) \/ Missed(s)
  \/ LoginCheck(s) \/ (\E n \in Nodes : NewNode(s, n)) \/ Seek(s) \/ Link(s) \/ Store(s)
  \/ Reply(s) \/ RecvCall(s) \/ RecvFails(s) \/ RecvEnd(s)
  \/ GroupStart(s) \/ GroupSend(s) \/ GroupDone(s) \/ PersonalSend(s) \/ Record(s)
  \/ ViewRecords(s) \/ Unlink(s) \/ Free(s) \/ CloseSock(s)

User(s) ==
  \/ \E r \in {"register", "login"}, u \in Names, w \in Passwords : Start(s, r, u, w)
  \/ \E k \in ChatKinds, u \in Names \cup {Nobody} : RecvMessage(s, k, u)
  \/ Vanish(s)

\* A login or an exit at work on the list.
Updating(s) ==
  /\ op[s] \in {"login", "exit"}
  /\ pc[s] \in {"walk", "check", "insert", "seek", "link", "store", "unlink", "free"}

\* A list without an entry of it.
Without(q, x) ==
  IF \E i \in DOMAIN q : q[i] = x
    THEN LET k == CHOOSE i \in DOMAIN q : q[i] = x
         IN  [i \in 1..(Len(q) - 1) |-> IF i < k THEN q[i] ELSE q[i + 1]]
  ELSE q

History ==
  /\ raced' = (raced \/ \E s, u \in Sessions : s # u /\ Updating(s)' /\ Updating(u)')
  /\ headGone' = (headGone \/ \E s \in Sessions :
                    pc[s] = "unlink" /\ pc'[s] = "free" /\ p[s] = list[s])
  /\ online' =
       IF \E s \in Sessions : pc[s] = "store" /\ pc'[s] = "reply"
         THEN Append(online, who[CHOOSE s \in Sessions : pc[s] = "store" /\ pc'[s] = "reply"])
       ELSE IF \E s \in Sessions : pc[s] = "free" /\ pc'[s] = "close1"
         THEN LET s == CHOOSE t \in Sessions : pc[t] = "free" /\ pc'[t] = "close1"
              IN  Without(online, msg[s].from)
       ELSE online

Running == up = "up" /\ UNCHANGED up

Next ==
  \/ Running /\ (\E s \in Sessions : Thread(s)) /\ History
  \/ Running /\ (\E s \in Sessions : User(s)) /\ History
  \/ up = "up" /\ Killed /\ UNCHANGED histVars

Spec == Init /\ [][Next]_vars
-----------------------------------------------------------------------------
Places == {"idle", "rcheck", "rinsert", "walk", "check", "insert", "seek", "link",
           "store", "reply", "chat", "wait", "group", "spread", "send", "record",
           "records", "unlink", "free", "close1", "close2", "done"}

\* Types of the tables, the heap and every thread's locals.
TypeOK ==
  /\ up \in {"up", "down"}
  /\ registered \in [Names -> Passwords \cup {NoPassword}] 
  /\ messages \subseteq Msgs \cup {Forged}
  /\ userList \in Nodes \cup {Null} /\ live \subseteq Nodes
  /\ name \in [Nodes -> Names \cup {Junk}] /\ nfd \in [Nodes -> Fds \cup {NoFd}]
  /\ next \in [Nodes -> Nodes \cup {Null}]
  /\ file \in [Fds -> Sessions \cup {Nobody}]
  /\ peer \in [Sessions -> {"away", "here", "gone"}] /\ sent \in 0..MaxSends
  /\ delivered \subseteq [msg : Msgs, conn : Sessions]
  /\ pc \in [Sessions -> Places]
  /\ op \in [Sessions -> {"none", "register", "login"} \cup ChatKinds]
  /\ who \in [Sessions -> Names \cup {Nobody}]
  /\ pw \in [Sessions -> Passwords \cup {NoPassword}]
  /\ sock \in [Sessions -> Fds \cup {NoFd}]
  /\ conn \in [Sessions -> Sessions \cup {Nobody}]
  /\ msg \in [Sessions -> Msgs \cup {NoMsg}]
  /\ list \in [Sessions -> Nodes \cup {Null}] /\ p \in [Sessions -> Nodes \cup {Null}]
  /\ pre \in [Sessions -> Nodes \cup {Null}] /\ node \in [Sessions -> Nodes \cup {Null}]
  /\ answer \in [Sessions -> {"none", "SUCCESS", "FAILED", "INVALID", "ALREADY_ONLINE"}]

\* The select of loginUser has let the session in.
Admitted(s) ==
  /\ op[s] # "register"
  /\ answer[s] = "SUCCESS" \/ pc[s] \in {"insert", "seek", "link", "store"}

\* Whatever the threads do to each other's pointers, every node in use holds the
\* name of a session whose select found a row, and a session that gave neither
\* name nor password with a quote got in with the name and password of a row that
\* is still there (login.c:55-79, register.c:83-100, list.c:18-20): a quote in a
\* login's text lets that name in and no other.
OnlyKnownUsers ==
  /\ \A s \in Sessions : Admitted(s) /\ Plain(s) => registered[who[s]] = pw[s]
  /\ \A n \in live : \E s \in Sessions : who[s] = name[n] /\ Admitted(s)

\* A personal message is stored as it was sent only for a receiver who has been
\* let in, found in the list before (chat.c:139-193), however stale the node.
StoredForAdmitted ==
  \A m \in messages :
    m.kind = "personal" => \E s \in Sessions : who[s] = m.to /\ Admitted(s)

\* groupChat reads p->next of the head without a test (chat.c:40-42): it never meets an
\* empty list, because the list is never emptied once somebody has logged in.
GroupFindsHead == \A s \in Sessions : pc[s] = "group" => p[s] # Null

\* The names from the head on, cut one after as many as there are chunks.
Chain ==
  LET at[k \in 0..Cardinality(Nodes)] ==
        CASE k = 0 -> userList
          [] k > 0 /\ at[k - 1] = Null -> Null
          [] OTHER -> next[at[k - 1]]
      len == Cardinality({k \in 0..Cardinality(Nodes) : at[k] # Null})
  IN  [k \in 1..len |-> name[at[k - 1]]]

\* As long as no two logins or exits overlap and the oldest user has not left,
\* the list is exactly the users logged in and not out, each once, in the order
\* of their logins (list.c:15-38, 67-100, login.c:43-79).
ListTracksLogins ==
  (~raced /\ ~headGone /\ \A s \in Sessions : ~Updating(s))
    => /\ Chain = online
       /\ \A i, j \in DOMAIN online : online[i] = online[j] => i = j

\* "返回值：true or false" (list.c:44): isOnLine comes back with an answer, so the
\* list it walks has an end, at least while logins and exits do not overlap.
ListEnds == ~raced => Len(Chain) <= Cardinality(Nodes)

\* "查找接收信息用户" (chat.c:139): a personal message goes to the user it is
\* addressed to and to no other.
PersonalReachesAddressee ==
  \A d \in delivered : d.msg.kind = "personal" => who[d.conn] = d.msg.to
=============================================================================
