------------------------- MODULE ChatSessionProofs --------------------------
(***************************************************************************)
(* Proofs about ChatSession: what survives every interleaving of the       *)
(* handler threads, for any number of sessions, names and heap chunks.     *)
(***************************************************************************)
EXTENDS ChatSession, TLAPS, FiniteSetTheorems, WellFoundedInduction

ListUse == {"insert", "seek", "link", "store"}
Registering == {"rcheck", "rinsert"}

\* Which locals mean something at which place.
Shape ==
  \A s \in Sessions :
    /\ pc[s] # "idle" => who[s] \in Names /\ pw[s] \in Passwords /\ sock[s] \in Fds
    /\ pc[s] = "idle" => op[s] = "none" /\ answer[s] = "none" /\ msg[s] = NoMsg
    /\ pc[s] \in Registering => op[s] = "register"
    /\ op[s] = "register" => pc[s] \in Registering \cup {"reply", "close2", "done"}
    /\ pc[s] = "wait" => conn[s] \in Sessions
    /\ pc[s] \in {"seek", "link"} => p[s] \in Nodes /\ node[s] \in Nodes
    /\ pc[s] \in {"send", "unlink", "free"} => p[s] \in Nodes
    /\ pc[s] = "unlink" \/ (pc[s] = "walk" /\ op[s] = "exit" /\ p[s] # Null)
         => pre[s] \in Nodes
    /\ pc[s] \in {"seek", "link", "store"} => list[s] \in Nodes
    /\ op[s] \in ChatKinds => msg[s].kind = op[s]
    /\ pc[s] \in {"send", "record", "spread", "group"} => msg[s] \in Msgs
    /\ pc[s] = "send" => op[s] = "personal"
    /\ pc[s] \in {"spread", "group"} => op[s] = "group"
    /\ msg[s].kind = "personal" => msg[s].to \in Names
    /\ pc[s] \in Registering \cup {"check"} \/ (pc[s] = "walk" /\ op[s] = "login")
         => answer[s] = "none"

\* A session of that name has been let in.
Backed(u) == \E s \in Sessions : who[s] = u /\ Admitted(s)

\* What stands behind a login, a name in the heap, freed or not, a receiver that
\* has been found and a stored message.
Known ==
  /\ \A s \in Sessions : Admitted(s) /\ Plain(s) => registered[who[s]] = pw[s]
  /\ \A n \in Nodes : name[n] # Junk => Backed(name[n])
  /\ \A n \in live : name[n] # Junk
  /\ \A s \in Sessions :
       pc[s] \in {"send", "record"} /\ msg[s].kind = "personal" => Backed(msg[s].to)
  /\ StoredForAdmitted

\* Once a login has succeeded or a chat message has been read, there is a head.
Headed ==
  /\ \A s \in Sessions :
       answer[s] = "SUCCESS" /\ op[s] # "register" => userList # Null
  /\ \A s \in Sessions : msg[s].kind # "none" => userList # Null
  /\ GroupFindsHead

Inv == TypeOK /\ Shape /\ Known /\ Headed

\* The invariant holds at the start.
LEMMA InitInv == Init => Inv
<1> SUFFICES ASSUME Init PROVE Inv
  OBVIOUS
<1> USE SessionAssumption DEF Init
<1>1. TypeOK
  BY DEF TypeOK, Places, NoMsg
<1>2. Shape
  BY DEF Shape, Registering, NoMsg, ChatKinds
<1>3. Known
  BY DEF Known, StoredForAdmitted, Admitted
<1>4. Headed
  BY DEF Headed, GroupFindsHead, NoMsg
<1> QED
  BY <1>1, <1>2, <1>3, <1>4 DEF Inv

\* Who has been let in stays in: what has been known of the names stays known, if
\* nothing else is written into the heap and the table of messages.
LEMMA KnownStep ==
  ASSUME Known,
         \A t \in Sessions : Admitted(t) => Admitted(t)' /\ who'[t] = who[t],
         \A t \in Sessions :
           Admitted(t)' /\ Plain(t)' => registered'[who'[t]] = pw'[t],
         \A n \in Nodes : name'[n] = name[n] \/ name'[n] = Junk \/ Backed(name'[n]),
         \A n \in live' : name'[n] # Junk,
         \A t \in Sessions :
           pc'[t] \in {"send", "record"} /\ msg'[t].kind = "personal" => Backed(msg'[t].to),
         \A m \in messages' : m.kind = "personal" => m \in messages \/ Backed(m.to)
  PROVE  Known'
<1>1. ASSUME NEW u, Backed(u) PROVE Backed(u)'
  <2>1. PICK t \in Sessions : who[t] = u /\ Admitted(t)
    BY <1>1 DEF Backed
  <2>2. who'[t] = u /\ Admitted(t)'
    BY <2>1
  <2> QED
    BY <2>2 DEF Backed
<1>2. ASSUME NEW n \in Nodes, name'[n] # Junk PROVE Backed(name[n])'
  <2>1. Backed(name'[n])
    BY <1>2 DEF Known
  <2>2. PICK u : u = name'[n]
    OBVIOUS
  <2>3. Backed(u)'
    BY <1>1, <2>1, <2>2
  <2> QED
    BY <2>2, <2>3
<1>3. ASSUME NEW t \in Sessions, pc'[t] \in {"send", "record"}, msg'[t].kind = "personal"
      PROVE  Backed(msg[t].to)'
  <2>1. PICK u : u = msg'[t].to
    OBVIOUS
  <2>2. Backed(u)'
    BY <1>1, <1>3, <2>1
  <2> QED
    BY <2>1, <2>2
<1>4. ASSUME NEW m \in messages', m.kind = "personal" PROVE Backed(m.to)'
  <2>1. Backed(m.to)
    BY <1>4 DEF Known, StoredForAdmitted, Backed
  <2> QED
    BY <1>1, <2>1
<1>5. StoredForAdmitted'
  BY <1>4 DEF StoredForAdmitted, Backed
<1> QED
  BY <1>2, <1>3, <1>5 DEF Known

\* Nothing that Known speaks of changes.
LEMMA KnownSame ==
  ASSUME Known, UNCHANGED <<registered, messages, who, pw, op, msg, name, live, pc, answer>>
  PROVE  Known'
BY DEF Known, StoredForAdmitted, Backed, Admitted, Plain

\* A step of s that lets nobody in and writes no table, and no name but its own.
Quiet(s) ==
  /\ UNCHANGED <<registered, messages, who, pw, op, msg>>
  /\ \A t \in Sessions \ {s} : pc'[t] = pc[t] /\ answer'[t] = answer[t]
  /\ answer[s] = "SUCCESS" => answer'[s] = "SUCCESS"
  /\ op[s] = "register" \/ ((answer'[s] = "SUCCESS" \/ pc'[s] \in ListUse)
                              <=> (answer[s] = "SUCCESS" \/ pc[s] \in ListUse))
  /\ \A n \in Nodes : name'[n] = name[n] \/ name'[n] = Junk \/ Backed(name'[n])
  /\ \A n \in live' : name'[n] # Junk
  /\ pc'[s] \in {"send", "record"} /\ msg[s].kind = "personal" => Backed(msg[s].to)

\* Such a step keeps what is known.
LEMMA KnownQuiet ==
  ASSUME Known, NEW s \in Sessions, Quiet(s)
  PROVE  Known'
<1>1. \A t \in Sessions : Admitted(t)' <=> Admitted(t)
  BY DEF Quiet, Admitted, ListUse
<1>2. \A t \in Sessions : Plain(t)' <=> Plain(t)
  BY DEF Quiet, Plain
<1>4. \A t \in Sessions :
        Admitted(t)' /\ Plain(t)' => registered'[who'[t]] = pw'[t]
  BY <1>1, <1>2 DEF Quiet, Known
<1>5. \A t \in Sessions : Admitted(t) => Admitted(t)' /\ who'[t] = who[t]
  BY <1>1 DEF Quiet
<1>6. \A t \in Sessions :
        pc'[t] \in {"send", "record"} /\ msg'[t].kind = "personal" => Backed(msg'[t].to)
  BY DEF Quiet, Known
<1>7. /\ \A n \in Nodes : name'[n] = name[n] \/ name'[n] = Junk \/ Backed(name'[n])
      /\ \A n \in live' : name'[n] # Junk
      /\ \A m \in messages' : m.kind = "personal" => m \in messages \/ Backed(m.to)
  BY DEF Quiet
<1> QED
  BY <1>4, <1>5, <1>6, <1>7, KnownStep

\* registerUser lets nobody in and only ever adds rows.
LEMMA RegisterKeeps ==
  ASSUME Inv, NEW s \in Sessions, UNCHANGED up,
         RegisterCheck(s) \/ RegisterInsert(s)
  PROVE  Inv'
<1> USE SessionAssumption DEF Inv, Goto, Answer, connVars, heapVars, idVars, recvVars,
    localVars, dbVars
<1>1. CASE RegisterCheck(s)
  <2>1. pc' \in [Sessions -> Places] /\ answer' \in [Sessions -> {"none", "SUCCESS", "FAILED", "INVALID", "ALREADY_ONLINE"}]
    BY <1>1 DEF RegisterCheck, TypeOK, Places, Shape
  <2>2. TypeOK'
    BY <1>1, <2>1 DEF RegisterCheck, TypeOK
  <2>3. Shape'
    BY <1>1 DEF RegisterCheck, TypeOK, Shape, Registering, ChatKinds
  <2>4. Known'
    <3>1. Quiet(s)
      BY <1>1 DEF RegisterCheck, TypeOK, Shape, Known, Quiet, ListUse, Registering, ChatKinds
    <3> QED
      BY <3>1, KnownQuiet
  <2>5. Headed'
    BY <1>1 DEF RegisterCheck, TypeOK, Shape, Headed, GroupFindsHead, Registering
  <2> QED
    BY <2>2, <2>3, <2>4, <2>5
<1>2. CASE RegisterInsert(s)
  <2>0. /\ registered' \in [Names -> Passwords \cup {NoPassword}]
        /\ \A u \in Names : registered[u] # NoPassword => registered'[u] = registered[u]
    <3>1. who[s] \in Names /\ pw[s] \in Passwords
      BY <1>2 DEF RegisterInsert, Shape
    <3>2. CASE registered' = registered
      BY <3>2 DEF TypeOK
    <3>3. CASE registered' \in Inserted(s)
      BY <3>1, <3>3 DEF Inserted, Extended, HasRow, TypeOK
    <3>4. registered' \in Inserted(s) \/ registered' = registered
      BY <1>2 DEF RegisterInsert
    <3> QED
      BY <3>2, <3>3, <3>4
  <2>1. pc' \in [Sessions -> Places] /\ answer' \in [Sessions -> {"none", "SUCCESS", "FAILED", "INVALID", "ALREADY_ONLINE"}]
    BY <1>2 DEF RegisterInsert, TypeOK, Places
  <2>2. TypeOK'
    BY <1>2, <2>0, <2>1 DEF RegisterInsert, TypeOK
  <2>3. Shape'
    BY <1>2 DEF RegisterInsert, TypeOK, Shape, Registering, ChatKinds
  <2>4. Known'
    <3>1. UNCHANGED <<who, pw, op, msg, name, live, messages>>
      BY <1>2 DEF RegisterInsert
    <3>2. /\ op[s] = "register" /\ answer[s] = "none" /\ pc'[s] = "reply"
          /\ \A t \in Sessions \ {s} : pc'[t] = pc[t] /\ answer'[t] = answer[t]
      BY <1>2 DEF RegisterInsert, TypeOK, Shape, Registering
    <3>3. \A t \in Sessions : (Admitted(t)' <=> Admitted(t)) /\ (Plain(t)' <=> Plain(t))
      BY <3>1, <3>2 DEF Admitted, Plain
    <3>5. ASSUME NEW t \in Sessions, Admitted(t)', Plain(t)'
          PROVE  registered'[who'[t]] = pw'[t]
      <4>1. registered[who[t]] = pw[t]
        BY <3>3, <3>5 DEF Known
      <4>2. who[t] \in Names /\ pw[t] \in Passwords
        BY <3>3, <3>5 DEF Shape, Admitted
      <4> QED
        BY <2>0, <3>1, <4>1, <4>2
    <3>6. \A t \in Sessions :
            pc'[t] \in {"send", "record"} /\ msg'[t].kind = "personal" => Backed(msg'[t].to)
      BY <3>1, <3>2 DEF Known
    <3>7. \A n \in live' : name'[n] # Junk
      BY <3>1 DEF Known
    <3> QED
      BY <3>1, <3>3, <3>5, <3>6, <3>7, KnownStep
  <2>5. Headed'
    BY <1>2 DEF RegisterInsert, TypeOK, Shape, Headed, GroupFindsHead, Registering
  <2> QED
    BY <2>2, <2>3, <2>4, <2>5
<1> QED
  BY <1>1, <1>2

\* The loops over the list write nothing.
LEMMA WalkKeeps ==
  ASSUME Inv, NEW s \in Sessions, UNCHANGED up,
         Walk(s) \/ Found(s) \/ Missed(s)
  PROVE  Inv'
<1> USE SessionAssumption DEF Inv, Goto, Answer, connVars, heapVars, idVars, recvVars,
    localVars, dbVars
<1>1. CASE Walk(s)
  <2>1. p' \in [Sessions -> Nodes \cup {Null}] /\ pre' \in [Sessions -> Nodes \cup {Null}]
    BY <1>1 DEF Walk, TypeOK, Places, Shape
  <2>2. TypeOK'
    BY <1>1, <2>1 DEF Walk, TypeOK
  <2>3. Shape'
    BY <1>1 DEF Walk, TypeOK, Shape, Registering, ChatKinds
  <2>4. Known'
    <3>1. Quiet(s)
      BY <1>1 DEF Walk, TypeOK, Shape, Known, Quiet, ListUse, Registering, ChatKinds
    <3> QED
      BY <3>1, KnownQuiet
  <2>5. Headed'
    BY <1>1 DEF Walk, TypeOK, Shape, Headed, GroupFindsHead, Registering
  <2> QED
    BY <2>2, <2>3, <2>4, <2>5
<1>2. CASE Found(s)
  <2>0. op[s] \in {"login", "personal", "exit"}
    <3>1. name[p[s]] # Nobody
      BY <1>2, SessionAssumption DEF Found, AtTarget, TypeOK, Junk, Nobody
    <3>2. Target(s) # Nobody
      BY <1>2, <3>1 DEF Found, AtTarget
    <3> QED
      BY <3>2 DEF Target
  <2>1. pc' \in [Sessions -> Places] /\ answer' \in [Sessions -> {"none", "SUCCESS", "FAILED", "INVALID", "ALREADY_ONLINE"}]
    BY <1>2 DEF Found, TypeOK, Places, Shape
  <2>2. TypeOK'
    BY <1>2, <2>1 DEF Found, TypeOK
  <2>3. Shape'
    <3>1. p[s] \in Nodes /\ (op[s] = "exit" => pre[s] \in Nodes)
      BY <1>2 DEF Found, AtTarget, TypeOK, Shape
    <3>2. op[s] = "personal" => msg[s] \in Msgs
      BY DEF TypeOK, Shape, ChatKinds, NoMsg
    <3> QED
      BY <1>2, <2>0, <3>1, <3>2 DEF Found, TypeOK, Shape, Registering, ChatKinds
  <2>4. Known'
    <3>1. op[s] = "personal" => Backed(msg[s].to)
      <4> SUFFICES ASSUME op[s] = "personal" PROVE Backed(msg[s].to)
        OBVIOUS
      <4>1. p[s] \in Nodes /\ name[p[s]] = msg[s].to
        BY <1>2 DEF Found, AtTarget, Target, TypeOK
      <4>2. msg[s].to \in Names
        BY DEF Shape, ChatKinds
      <4> QED
        BY <4>1, <4>2 DEF Known, Junk
    <3>2. Quiet(s)
      BY <1>2, <2>0, <3>1 DEF Found, TypeOK, Shape, Known, Quiet, ListUse, Registering, ChatKinds
    <3> QED
      BY <3>2, KnownQuiet
  <2>5. Headed'
    BY <1>2 DEF Found, TypeOK, Shape, Headed, GroupFindsHead, Registering, AtTarget, Target
  <2> QED
    BY <2>2, <2>3, <2>4, <2>5
<1>3. CASE Missed(s)
  <2>1. pc' \in [Sessions -> Places]
    BY <1>3 DEF Missed, TypeOK, Places, Shape
  <2>2. TypeOK'
    BY <1>3, <2>1 DEF Missed, TypeOK
  <2>3. Shape'
    BY <1>3 DEF Missed, TypeOK, Shape, Registering, ChatKinds
  <2>4. Known'
    <3>1. Quiet(s)
      BY <1>3 DEF Missed, TypeOK, Shape, Known, Quiet, ListUse, Registering, ChatKinds
    <3> QED
      BY <3>1, KnownQuiet
  <2>5. Headed'
    BY <1>3 DEF Missed, TypeOK, Shape, Headed, GroupFindsHead, Registering
  <2> QED
    BY <2>2, <2>3, <2>4, <2>5
<1> QED
  BY <1>1, <1>2, <1>3

\* The steps of a login that follow the check.
LEMMA LoginKeeps ==
  ASSUME Inv, NEW s \in Sessions, UNCHANGED up,
         LoginCheck(s) \/ Seek(s) \/ Link(s) \/ Store(s) \/ Reply(s)
  PROVE  Inv'
<1> USE SessionAssumption DEF Inv, Goto, Answer, connVars, heapVars, idVars, recvVars,
    localVars, dbVars
<1>1. CASE LoginCheck(s)
  <2>1. pc' \in [Sessions -> Places] /\ answer' \in [Sessions -> {"none", "SUCCESS", "FAILED", "INVALID", "ALREADY_ONLINE"}]
    BY <1>1 DEF LoginCheck, TypeOK, Places, Shape
  <2>2. TypeOK'
    BY <1>1, <2>1 DEF LoginCheck, TypeOK
  <2>3. Shape'
    BY <1>1 DEF LoginCheck, TypeOK, Shape, Registering, ChatKinds, Matches
  <2>4. Known'
    <3>1. UNCHANGED <<registered, messages, who, pw, op, msg, name, live>>
      BY <1>1 DEF LoginCheck
    <3>2. /\ answer[s] = "none" /\ pc[s] = "check"
          /\ \/ pc'[s] = "insert" /\ answer'[s] = "none" /\ (registered[who[s]] = pw[s] \/ ~Plain(s))
             \/ pc'[s] = "reply" /\ answer'[s] = "FAILED"
          /\ \A t \in Sessions \ {s} : pc'[t] = pc[t] /\ answer'[t] = answer[t]
      BY <1>1 DEF LoginCheck, Matches, TypeOK, Shape
    <3>3. \A t \in Sessions : Plain(t)' <=> Plain(t)
      BY <3>1 DEF Plain
    <3>4. /\ ~Admitted(s) /\ (Admitted(s)' => registered[who[s]] = pw[s] \/ ~Plain(s))
          /\ \A t \in Sessions \ {s} : Admitted(t)' <=> Admitted(t)
      BY <3>1, <3>2 DEF Admitted
    <3>6. \A t \in Sessions :
            Admitted(t)' /\ Plain(t)' => registered'[who'[t]] = pw'[t]
      BY <3>1, <3>3, <3>4 DEF Known
    <3>7. \A t \in Sessions : Admitted(t) => Admitted(t)' /\ who'[t] = who[t]
      BY <3>1, <3>4
    <3>8. \A t \in Sessions :
            pc'[t] \in {"send", "record"} /\ msg'[t].kind = "personal" => Backed(msg'[t].to)
      BY <3>1, <3>2 DEF Known
    <3>9. \A n \in live' : name'[n] # Junk
      BY <3>1 DEF Known
    <3> QED
      BY <3>1, <3>6, <3>7, <3>8, <3>9, KnownStep
  <2>5. Headed'
    BY <1>1 DEF LoginCheck, TypeOK, Shape, Headed, GroupFindsHead, Registering, Matches
  <2> QED
    BY <2>2, <2>3, <2>4, <2>5
<1>2. CASE Seek(s)
  <2>1. pc' \in [Sessions -> Places] /\ p' \in [Sessions -> Nodes \cup {Null}]
    BY <1>2 DEF Seek, TypeOK, Places, Shape
  <2>2. TypeOK'
    BY <1>2, <2>1 DEF Seek, TypeOK
  <2>3. Shape'
    BY <1>2 DEF Seek, TypeOK, Shape, Registering, ChatKinds
  <2>4. Known'
    <3>1. Quiet(s)
      BY <1>2 DEF Seek, TypeOK, Shape, Known, Quiet, ListUse, Registering, ChatKinds
    <3> QED
      BY <3>1, KnownQuiet
  <2>5. Headed'
    BY <1>2 DEF Seek, TypeOK, Shape, Headed, GroupFindsHead, Registering
  <2> QED
    BY <2>2, <2>3, <2>4, <2>5
<1>3. CASE Link(s)
  <2>1. pc' \in [Sessions -> Places] /\ next' \in [Nodes -> Nodes \cup {Null}]
    BY <1>3 DEF Link, TypeOK, Places, Shape, Linked
  <2>2. TypeOK'
    BY <1>3, <2>1 DEF Link, TypeOK
  <2>3. Shape'
    BY <1>3 DEF Link, TypeOK, Shape, Registering, ChatKinds
  <2>4. Known'
    <3>1. Quiet(s)
      BY <1>3 DEF Link, TypeOK, Shape, Known, Quiet, ListUse, Registering, ChatKinds
    <3> QED
      BY <3>1, KnownQuiet
  <2>5. Headed'
    BY <1>3 DEF Link, TypeOK, Shape, Headed, GroupFindsHead, Registering
  <2> QED
    BY <2>2, <2>3, <2>4, <2>5
<1>4. CASE Store(s)
  <2>1. pc' \in [Sessions -> Places] /\ answer' \in [Sessions -> {"none", "SUCCESS", "FAILED", "INVALID", "ALREADY_ONLINE"}] /\ userList' \in Nodes
    BY <1>4 DEF Store, Returned, TypeOK, Places, Shape
  <2>2. TypeOK'
    BY <1>4, <2>1 DEF Store, Returned, TypeOK
  <2>3. Shape'
    BY <1>4 DEF Store, Returned, TypeOK, Shape, Registering, ChatKinds
  <2>4. Known'
    <3>1. Quiet(s)
      BY <1>4 DEF Store, Returned, TypeOK, Shape, Known, Quiet, ListUse, Registering, ChatKinds
    <3> QED
      BY <3>1, KnownQuiet
  <2>5. Headed'
    BY <1>4 DEF Store, Returned, TypeOK, Shape, Headed, GroupFindsHead, Registering
  <2> QED
    BY <2>2, <2>3, <2>4, <2>5
<1>5. CASE Reply(s)
  <2>1. pc' \in [Sessions -> Places]
    BY <1>5 DEF Reply, TypeOK, Places, Shape
  <2>2. TypeOK'
    BY <1>5, <2>1 DEF Reply, TypeOK
  <2>3. Shape'
    BY <1>5 DEF Reply, TypeOK, Shape, Registering, ChatKinds
  <2>4. Known'
    <3>1. Quiet(s)
      BY <1>5 DEF Reply, TypeOK, Shape, Known, Quiet, ListUse, Registering, ChatKinds
    <3> QED
      BY <3>1, KnownQuiet
  <2>5. Headed'
    BY <1>5 DEF Reply, TypeOK, Shape, Headed, GroupFindsHead, Registering
  <2> QED
    BY <2>2, <2>3, <2>4, <2>5
<1> QED
  BY <1>1, <1>2, <1>3, <1>4, <1>5

\* The steps of a chat session.
LEMMA ChatKeeps ==
  ASSUME Inv, NEW s \in Sessions, UNCHANGED up,
         RecvCall(s) \/ RecvEnd(s) \/ GroupStart(s) \/ GroupSend(s) \/ GroupDone(s) \/ PersonalSend(s) \/ Record(s) \/ ViewRecords(s)
         \/ Unlink(s) \/ Free(s) \/ CloseSock(s)
  PROVE  Inv'
<1> USE SessionAssumption DEF Inv, Goto, Answer, connVars, heapVars, idVars, recvVars,
    localVars, dbVars
<1>1. CASE RecvCall(s)
  <2>0. file[sock[s]] \in Sessions
    <3>1. sock[s] \in Fds /\ file[sock[s]] # Nobody
      BY <1>1 DEF RecvCall, Shape
    <3> QED
      BY <3>1 DEF TypeOK
  <2>1. pc' \in [Sessions -> Places] /\ conn' \in [Sessions -> Sessions \cup {Nobody}]
    BY <1>1, Zenon DEF RecvCall, TypeOK, Places, Shape
  <2>2. TypeOK'
    BY <1>1, <2>1 DEF RecvCall, TypeOK
  <2>3. Shape'
    BY <1>1, <2>0 DEF RecvCall, TypeOK, Shape, Registering, ChatKinds
  <2>4. Known'
    <3>1. Quiet(s)
      BY <1>1 DEF RecvCall, TypeOK, Shape, Known, Quiet, ListUse, Registering, ChatKinds
    <3> QED
      BY <3>1, KnownQuiet
  <2>5. Headed'
    BY <1>1 DEF RecvCall, TypeOK, Shape, Headed, GroupFindsHead, Registering
  <2> QED
    BY <2>2, <2>3, <2>4, <2>5
<1>2. CASE RecvEnd(s)
  <2>1. pc' \in [Sessions -> Places]
    BY <1>2 DEF RecvEnd, TypeOK, Places, Shape
  <2>2. TypeOK'
    BY <1>2, <2>1 DEF RecvEnd, TypeOK
  <2>3. Shape'
    BY <1>2 DEF RecvEnd, TypeOK, Shape, Registering, ChatKinds
  <2>4. Known'
    <3>1. Quiet(s)
      BY <1>2 DEF RecvEnd, TypeOK, Shape, Known, Quiet, ListUse, Registering, ChatKinds
    <3> QED
      BY <3>1, KnownQuiet
  <2>5. Headed'
    BY <1>2 DEF RecvEnd, TypeOK, Shape, Headed, GroupFindsHead, Registering
  <2> QED
    BY <2>2, <2>3, <2>4, <2>5
<1>3. CASE GroupStart(s)
  <2>1. pc' \in [Sessions -> Places]
    BY <1>3 DEF GroupStart, TypeOK, Places, Shape
  <2>2. TypeOK'
    BY <1>3, <2>1 DEF GroupStart, TypeOK
  <2>3. Shape'
    BY <1>3 DEF GroupStart, TypeOK, Shape, Registering, ChatKinds
  <2>4. Known'
    <3>1. Quiet(s)
      BY <1>3 DEF GroupStart, TypeOK, Shape, Known, Quiet, ListUse, Registering, ChatKinds
    <3> QED
      BY <3>1, KnownQuiet
  <2>5. Headed'
    BY <1>3 DEF GroupStart, TypeOK, Shape, Headed, GroupFindsHead, Registering
  <2> QED
    BY <2>2, <2>3, <2>4, <2>5
<1>4. CASE GroupSend(s)
  <2>0. ASSUME NEW fd, Deliver(fd, msg[s]), msg[s] \in Msgs
        PROVE  delivered' \subseteq [msg : Msgs, conn : Sessions]
    <3>1. CASE fd \in Fds /\ file[fd] # Nobody
      <4>1. file[fd] \in Sessions
        BY <3>1 DEF TypeOK
      <4>2. delivered' = delivered \cup {[msg |-> msg[s], conn |-> file[fd]]}
        BY <2>0, <3>1 DEF Deliver
      <4> QED
        BY <2>0, <4>1, <4>2 DEF TypeOK
    <3>2. CASE ~(fd \in Fds /\ file[fd] # Nobody)
      <4>1. delivered' = delivered
        BY <2>0, <3>2 DEF Deliver
      <4> QED
        BY <4>1 DEF TypeOK
    <3> QED
      BY <3>1, <3>2
  <2>1. p' \in [Sessions -> Nodes \cup {Null}] /\ delivered' \subseteq [msg : Msgs, conn : Sessions]
    <3>1. p' \in [Sessions -> Nodes \cup {Null}] /\ msg[s] \in Msgs
      BY <1>4 DEF GroupSend, TypeOK, Shape
    <3>2. delivered' \subseteq [msg : Msgs, conn : Sessions]
      BY <1>4, <2>0, <3>1 DEF GroupSend, TypeOK
    <3> QED
      BY <3>1, <3>2
  <2>2. TypeOK'
    BY <1>4, <2>1 DEF GroupSend, TypeOK
  <2>3. Shape'
    BY <1>4 DEF GroupSend, TypeOK, Shape, Registering, ChatKinds
  <2>4. Known'
    <3>1. Quiet(s)
      BY <1>4 DEF GroupSend, TypeOK, Shape, Known, Quiet, ListUse, Registering, ChatKinds
    <3> QED
      BY <3>1, KnownQuiet
  <2>5. Headed'
    BY <1>4 DEF GroupSend, TypeOK, Shape, Headed, GroupFindsHead, Registering
  <2> QED
    BY <2>2, <2>3, <2>4, <2>5
<1>5. CASE GroupDone(s)
  <2>1. pc' \in [Sessions -> Places]
    BY <1>5 DEF GroupDone, TypeOK, Places, Shape
  <2>2. TypeOK'
    BY <1>5, <2>1 DEF GroupDone, TypeOK
  <2>3. Shape'
    BY <1>5 DEF GroupDone, TypeOK, Shape, Registering, ChatKinds
  <2>4. Known'
    <3>1. Quiet(s)
      BY <1>5 DEF GroupDone, TypeOK, Shape, Known, Quiet, ListUse, Registering, ChatKinds
    <3> QED
      BY <3>1, KnownQuiet
  <2>5. Headed'
    BY <1>5 DEF GroupDone, TypeOK, Shape, Headed, GroupFindsHead, Registering
  <2> QED
    BY <2>2, <2>3, <2>4, <2>5
<1>6. CASE PersonalSend(s)
  <2>0. ASSUME NEW fd, Deliver(fd, msg[s]), msg[s] \in Msgs
        PROVE  delivered' \subseteq [msg : Msgs, conn : Sessions]
    <3>1. CASE fd \in Fds /\ file[fd] # Nobody
      <4>1. file[fd] \in Sessions
        BY <3>1 DEF TypeOK
      <4>2. delivered' = delivered \cup {[msg |-> msg[s], conn |-> file[fd]]}
        BY <2>0, <3>1 DEF Deliver
      <4> QED
        BY <2>0, <4>1, <4>2 DEF TypeOK
    <3>2. CASE ~(fd \in Fds /\ file[fd] # Nobody)
      <4>1. delivered' = delivered
        BY <2>0, <3>2 DEF Deliver
      <4> QED
        BY <4>1 DEF TypeOK
    <3> QED
      BY <3>1, <3>2
  <2>1. pc' \in [Sessions -> Places] /\ delivered' \subseteq [msg : Msgs, conn : Sessions]
    <3>1. pc' \in [Sessions -> Places] /\ msg[s] \in Msgs
      BY <1>6 DEF PersonalSend, TypeOK, Shape, Places
    <3>2. delivered' \subseteq [msg : Msgs, conn : Sessions]
      BY <1>6, <2>0, <3>1 DEF PersonalSend
    <3> QED
      BY <3>1, <3>2
  <2>2. TypeOK'
    BY <1>6, <2>1 DEF PersonalSend, TypeOK
  <2>3. Shape'
    BY <1>6 DEF PersonalSend, TypeOK, Shape, Registering, ChatKinds
  <2>4. Known'
    <3>1. Quiet(s)
      BY <1>6 DEF PersonalSend, TypeOK, Shape, Known, Quiet, ListUse, Registering, ChatKinds
    <3> QED
      BY <3>1, KnownQuiet
  <2>5. Headed'
    BY <1>6 DEF PersonalSend, TypeOK, Shape, Headed, GroupFindsHead, Registering
  <2> QED
    BY <2>2, <2>3, <2>4, <2>5
<1>7. CASE Record(s)
  <2>1. pc' \in [Sessions -> Places] /\ messages' \subseteq Msgs \cup {Forged}
    BY <1>7 DEF Record, TypeOK, Places, Shape
  <2>2. TypeOK'
    BY <1>7, <2>1 DEF Record, TypeOK
  <2>3. Shape'
    BY <1>7 DEF Record, TypeOK, Shape, Registering, ChatKinds
  <2>4. Known'
    <3>1. /\ UNCHANGED <<registered, who, pw, op, msg, name, live, answer>>
          /\ pc[s] = "record" /\ pc'[s] = "chat"
          /\ \A t \in Sessions \ {s} : pc'[t] = pc[t]
      BY <1>7 DEF Record, TypeOK
    <3>2. \A t \in Sessions : (Admitted(t)' <=> Admitted(t)) /\ (Plain(t)' <=> Plain(t))
      BY <3>1 DEF Admitted, Plain
    <3>4. \A t \in Sessions :
            Admitted(t)' /\ Plain(t)' => registered'[who'[t]] = pw'[t]
      BY <3>1, <3>2 DEF Known
    <3>5. \A t \in Sessions : Admitted(t) => Admitted(t)' /\ who'[t] = who[t]
      BY <3>1, <3>2
    <3>6. \A t \in Sessions :
            pc'[t] \in {"send", "record"} /\ msg'[t].kind = "personal" => Backed(msg'[t].to)
      BY <3>1 DEF Known
    <3>7. \A m \in messages' : m \in messages \/ m = msg[s] \/ m = Forged
      BY <1>7 DEF Record
    <3>8. msg[s].kind = "personal" => Backed(msg[s].to)
      BY <3>1 DEF Known
    <3>9. \A m \in messages' : m.kind = "personal" => m \in messages \/ Backed(m.to)
      BY <3>7, <3>8 DEF Forged
    <3>10. \A n \in live' : name'[n] # Junk
      BY <3>1 DEF Known
    <3> QED
      BY <3>1, <3>4, <3>5, <3>6, <3>9, <3>10, KnownStep
  <2>5. Headed'
    BY <1>7 DEF Record, TypeOK, Shape, Headed, GroupFindsHead, Registering
  <2> QED
    BY <2>2, <2>3, <2>4, <2>5
<1>8. CASE Unlink(s)
  <2>1. pc' \in [Sessions -> Places] /\ next' \in [Nodes -> Nodes \cup {Null}] /\ list' \in [Sessions -> Nodes \cup {Null}]
    BY <1>8 DEF Unlink, TypeOK, Places, Shape, Unlinked
  <2>2. TypeOK'
    BY <1>8, <2>1 DEF Unlink, TypeOK
  <2>3. Shape'
    BY <1>8 DEF Unlink, TypeOK, Shape, Registering, ChatKinds
  <2>4. Known'
    <3>1. Quiet(s)
      BY <1>8 DEF Unlink, TypeOK, Shape, Known, Quiet, ListUse, Registering, ChatKinds
    <3> QED
      BY <3>1, KnownQuiet
  <2>5. Headed'
    BY <1>8 DEF Unlink, TypeOK, Shape, Headed, GroupFindsHead, Registering
  <2> QED
    BY <2>2, <2>3, <2>4, <2>5
<1>9. CASE Free(s)
  <2>1. pc' \in [Sessions -> Places] /\ name' \in [Nodes -> Names \cup {Junk}] /\ live' \subseteq Nodes
    BY <1>9 DEF Free, TypeOK, Places, Shape
  <2>2. TypeOK'
    BY <1>9, <2>1 DEF Free, TypeOK
  <2>3. Shape'
    BY <1>9 DEF Free, TypeOK, Shape, Registering, ChatKinds
  <2>4. Known'
    <3>1. Quiet(s)
      BY <1>9 DEF Free, TypeOK, Shape, Known, Quiet, ListUse, Registering, ChatKinds
    <3> QED
      BY <3>1, KnownQuiet
  <2>5. Headed'
    BY <1>9 DEF Free, TypeOK, Shape, Headed, GroupFindsHead, Registering
  <2> QED
    BY <2>2, <2>3, <2>4, <2>5
<1>10. CASE CloseSock(s)
  <2>1. pc' \in [Sessions -> Places] /\ file' \in [Fds -> Sessions \cup {Nobody}]
    BY <1>10 DEF CloseSock, TypeOK, Places, Shape
  <2>2. TypeOK'
    BY <1>10, <2>1 DEF CloseSock, TypeOK
  <2>3. Shape'
    BY <1>10 DEF CloseSock, TypeOK, Shape, Registering, ChatKinds
  <2>4. Known'
    <3>1. Quiet(s)
      BY <1>10 DEF CloseSock, TypeOK, Shape, Known, Quiet, ListUse, Registering, ChatKinds
    <3> QED
      BY <3>1, KnownQuiet
  <2>5. Headed'
    BY <1>10 DEF CloseSock, TypeOK, Shape, Headed, GroupFindsHead, Registering
  <2> QED
    BY <2>2, <2>3, <2>4, <2>5
<1>11. CASE ViewRecords(s)
  <2>1. pc' \in [Sessions -> Places]
    BY <1>11 DEF ViewRecords, TypeOK, Places, Shape
  <2>2. TypeOK'
    BY <1>11, <2>1 DEF ViewRecords, TypeOK
  <2>3. Shape'
    BY <1>11 DEF ViewRecords, TypeOK, Shape, Registering, ChatKinds
  <2>4. Known'
    <3>1. Quiet(s)
      BY <1>11 DEF ViewRecords, TypeOK, Shape, Known, Quiet, ListUse, Registering, ChatKinds
    <3> QED
      BY <3>1, KnownQuiet
  <2>5. Headed'
    BY <1>11 DEF ViewRecords, TypeOK, Shape, Headed, GroupFindsHead, Registering
  <2> QED
    BY <2>2, <2>3, <2>4, <2>5
<1> QED
  BY <1>1, <1>2, <1>3, <1>4, <1>5, <1>6, <1>7, <1>8, <1>9, <1>10, <1>11

\* A new node carries the name that has just been checked.
LEMMA NewNodeKeeps ==
  ASSUME Inv, NEW s \in Sessions, UNCHANGED up, NEW n \in Nodes, NewNode(s, n)
  PROVE  Inv'
<1> USE SessionAssumption DEF Inv, Goto, Answer, connVars, heapVars, idVars, recvVars,
    localVars, dbVars
<1>1. /\ pc' \in [Sessions -> Places] /\ p' \in [Sessions -> Nodes \cup {Null}]
      /\ name' \in [Nodes -> Names \cup {Junk}] /\ nfd' \in [Nodes -> Fds \cup {NoFd}]
      /\ next' \in [Nodes -> Nodes \cup {Null}] /\ live' \subseteq Nodes
      /\ list' \in [Sessions -> Nodes \cup {Null}] /\ node' \in [Sessions -> Nodes \cup {Null}]
  BY DEF NewNode, TypeOK, Places, Shape
<1>2. TypeOK'
  BY <1>1 DEF NewNode, TypeOK
<1>3. Shape'
  BY DEF NewNode, TypeOK, Shape, Registering, ChatKinds
<1>4. Known'
  <2>1. Backed(who[s])
    BY DEF NewNode, Shape, Backed, Admitted, Registering
  <2>2. Quiet(s)
    BY <2>1 DEF NewNode, TypeOK, Shape, Known, Quiet, ListUse, Registering
  <2> QED
    BY <2>2, KnownQuiet
<1>5. Headed'
  BY DEF NewNode, TypeOK, Shape, Headed, GroupFindsHead, Registering
<1> QED
  BY <1>2, <1>3, <1>4, <1>5

\* Handling a message: it needs a sender's login behind it, and then there is a head.
LEMMA DispatchKeeps ==
  ASSUME Inv, NEW s \in Sessions, UNCHANGED up, NEW m \in Msgs \cup {NoMsg},
         pc[s] \in {"chat", "wait"}, Dispatch(s, m), msg' = [msg EXCEPT ![s] = m],
         m.kind = "personal" => m.to \in Names,
         m.kind # "none" => userList # Null,
         peer' \in [Sessions -> {"away", "here", "gone"}],
         sent' \in 0..MaxSends,
         m.kind = "none" => op[s] \notin ChatKinds,
         UNCHANGED <<dbVars, heapVars, file, delivered, idVars, conn, node, answer>>
  PROVE  Inv'
<1> USE SessionAssumption DEF Inv, Goto, Answer, connVars, heapVars, idVars, recvVars,
    localVars, dbVars
<1>1. m.kind # "none" => m \in Msgs /\ m.kind \in ChatKinds
  BY DEF Msgs, NoMsg
<1>2. m.kind = "none" \/ m.kind \in ChatKinds
  BY <1>1
<1>3. /\ pc' \in [Sessions -> Places] /\ op' \in [Sessions -> {"none", "register", "login"} \cup ChatKinds]
      /\ msg' \in [Sessions -> Msgs \cup {NoMsg}]
      /\ p' \in [Sessions -> Nodes \cup {Null}] /\ pre' \in [Sessions -> Nodes \cup {Null}]
      /\ list' \in [Sessions -> Nodes \cup {Null}]
  BY <1>2 DEF Dispatch, CaseOf, TypeOK, Places
<1>4. TypeOK'
  BY <1>3 DEF TypeOK
<1>5. /\ pc'[s] \in {"group", "walk", "records", "chat"} /\ (pc'[s] = "group" => m.kind = "group")
      /\ pc'[s] = "walk" => m.kind \in ChatKinds
  BY <1>2 DEF Dispatch, CaseOf, TypeOK, ChatKinds
<1>6. /\ p'[s] = userList /\ pre'[s] = userList /\ msg'[s] = m
      /\ op'[s] = IF m.kind = "none" THEN op[s] ELSE m.kind
  BY DEF Dispatch, TypeOK
<1>7. \A t \in Sessions \ {s} : /\ pc'[t] = pc[t] /\ op'[t] = op[t] /\ msg'[t] = msg[t]
                               /\ p'[t] = p[t] /\ pre'[t] = pre[t] /\ list'[t] = list[t]
  BY DEF Dispatch, TypeOK
<1>8. op'[s] # "register"
  BY <1>2, <1>6 DEF Shape, Registering, ChatKinds
<1>9. Shape'
  BY <1>1, <1>2, <1>5, <1>6, <1>7, <1>8 DEF Shape, TypeOK, Registering, ChatKinds
<1>10. Known'
  <2>1. op[s] # "register"
    BY DEF Shape, Registering
  <2>2. \A t \in Sessions : (Admitted(t)' <=> Admitted(t)) /\ (Plain(t)' <=> Plain(t))
    BY <1>5, <1>7, <1>8, <2>1 DEF Admitted, Plain
  <2>4. \A t \in Sessions :
          Admitted(t)' /\ Plain(t)' => registered'[who'[t]] = pw'[t]
    BY <2>2 DEF Known
  <2>5. \A t \in Sessions : Admitted(t) => Admitted(t)' /\ who'[t] = who[t]
    BY <2>2
  <2>6. \A t \in Sessions :
          pc'[t] \in {"send", "record"} /\ msg'[t].kind = "personal" => Backed(msg'[t].to)
    BY <1>5, <1>7 DEF Known
  <2>7. \A n \in live' : name'[n] # Junk
    BY DEF Known
  <2> QED
    BY <2>4, <2>5, <2>6, <2>7, KnownStep
<1>11. Headed'
  BY <1>5, <1>6, <1>7, <1>8 DEF Headed, GroupFindsHead, Shape, Registering
<1> QED
  BY <1>4, <1>9, <1>10, <1>11

\* A message that is received, or handled once more after a failing recv.
LEMMA RecvKeeps ==
  ASSUME Inv, NEW s \in Sessions, UNCHANGED up,
         RecvFails(s) \/ \E k \in ChatKinds, u \in Names \cup {Nobody} : RecvMessage(s, k, u)
  PROVE  Inv'
<1> USE SessionAssumption DEF Inv, connVars, recvVars, dbVars, heapVars, idVars
<1>1. CASE RecvFails(s)
  <2>1. msg[s] \in Msgs \cup {NoMsg} /\ msg' = [msg EXCEPT ![s] = msg[s]]
    BY <1>1 DEF RecvFails, TypeOK
  <2>2. msg[s].kind = "personal" => msg[s].to \in Names
    BY DEF Shape
  <2>3. msg[s].kind # "none" => userList # Null
    BY DEF Headed
  <2>4. msg[s].kind = "none" => op[s] \notin ChatKinds
    BY DEF Shape, ChatKinds
  <2>5. /\ peer' \in [Sessions -> {"away", "here", "gone"}]
        /\ sent' \in 0..MaxSends
    BY <1>1 DEF RecvFails, TypeOK
  <2>6. /\ pc[s] \in {"chat", "wait"} /\ Dispatch(s, msg[s])
        /\ UNCHANGED <<dbVars, heapVars, file, delivered, idVars, conn, node, answer>>
    BY <1>1 DEF RecvFails
  <2> QED
    BY <2>1, <2>2, <2>3, <2>4, <2>5, <2>6, DispatchKeeps
<1>2. ASSUME NEW k \in ChatKinds, NEW u \in Names \cup {Nobody}, RecvMessage(s, k, u)
      PROVE  Inv'
  <2> DEFINE c == conn[s]
             m == [kind |-> k, from |-> who[c], to |-> u]
  <2>1. c \in Sessions /\ who[c] \in Names
    BY <1>2 DEF RecvMessage, Shape
  <2>2. m \in Msgs /\ m.kind # "none"
    BY <2>1 DEF Msgs, ChatKinds
  <2>3. m.kind = "personal" => m.to \in Names
    BY <1>2 DEF RecvMessage
  <2>4. userList # Null
    BY <1>2, <2>1 DEF RecvMessage, Headed
  <2>5. peer' \in [Sessions -> {"away", "here", "gone"}]
    BY <1>2, <2>1 DEF RecvMessage, TypeOK
  <2>6. sent' \in 0..MaxSends
    BY <1>2, <2>1 DEF RecvMessage, TypeOK
  <2>7. /\ pc[s] \in {"chat", "wait"} /\ Dispatch(s, m) /\ msg' = [msg EXCEPT ![s] = m]
        /\ UNCHANGED <<dbVars, heapVars, file, delivered, idVars, conn, node, answer>>
    BY <1>2 DEF RecvMessage
  <2> QED
    BY <2>2, <2>3, <2>4, <2>5, <2>6, <2>7, DispatchKeeps
<1> QED
  BY <1>1, <1>2

\* A connection begins, or its client goes away.
LEMMA ClientKeeps ==
  ASSUME Inv, NEW s \in Sessions, UNCHANGED up,
         \/ \E r \in {"register", "login"}, u \in Names, w \in Passwords : Start(s, r, u, w)
         \/ Vanish(s)
  PROVE  Inv'
<1> USE SessionAssumption DEF Inv, Goto, Answer, connVars, heapVars, idVars, recvVars,
    localVars, dbVars
<1>1. ASSUME NEW r \in {"register", "login"}, NEW u \in Names, NEW w \in Passwords,
             Start(s, r, u, w)
      PROVE  Inv'
  <2>1. PICK fd \in Fds : /\ file' = [file EXCEPT ![fd] = s]
                          /\ sock' = [sock EXCEPT ![s] = fd]
    BY <1>1 DEF Start
  <2>2. /\ file' \in [Fds -> Sessions \cup {Nobody}] /\ sock' \in [Sessions -> Fds \cup {NoFd}]
        /\ sock'[s] = fd /\ \A t \in Sessions \ {s} : sock'[t] = sock[t]
    BY <2>1 DEF TypeOK
  <2>3. /\ pc' \in [Sessions -> Places] /\ p' \in [Sessions -> Nodes \cup {Null}]
        /\ op' \in [Sessions -> {"none", "register", "login"} \cup ChatKinds]
        /\ who' \in [Sessions -> Names \cup {Nobody}]
        /\ pw' \in [Sessions -> Passwords \cup {NoPassword}]
    BY <1>1 DEF Start, TypeOK, Places
  <2>8. peer' \in [Sessions -> {"away", "here", "gone"}]
    BY <1>1 DEF Start, TypeOK
  <2>4. TypeOK'
    BY <1>1, <2>2, <2>3, <2>8 DEF Start, TypeOK
  <2>5. Shape'
    BY <1>1, <2>2 DEF Start, TypeOK, Shape, Registering, ChatKinds
  <2>6. Known'
    <3>1. /\ UNCHANGED <<registered, messages, name, live, msg, answer>>
          /\ op[s] = "none" /\ answer[s] = "none" /\ pc[s] = "idle" /\ pc'[s] \in {"rcheck", "walk"}
          /\ \A t \in Sessions \ {s} :
               pc'[t] = pc[t] /\ op'[t] = op[t] /\ who'[t] = who[t] /\ pw'[t] = pw[t]
      BY <1>1 DEF Start, TypeOK, Shape
    <3>2. ~Admitted(s) /\ ~Admitted(s)'
      BY <3>1 DEF Admitted
    <3>3. \A t \in Sessions \ {s} : (Admitted(t)' <=> Admitted(t)) /\ (Plain(t)' <=> Plain(t))
      BY <3>1 DEF Admitted, Plain
    <3>5. \A t \in Sessions :
            Admitted(t)' /\ Plain(t)' => registered'[who'[t]] = pw'[t]
      BY <3>1, <3>2, <3>3 DEF Known
    <3>6. \A t \in Sessions : Admitted(t) => Admitted(t)' /\ who'[t] = who[t]
      BY <3>1, <3>2, <3>3
    <3>7. \A t \in Sessions :
            pc'[t] \in {"send", "record"} /\ msg'[t].kind = "personal" => Backed(msg'[t].to)
      BY <3>1 DEF Known
    <3>8. \A n \in live' : name'[n] # Junk
      BY <3>1 DEF Known
    <3> QED
      BY <3>1, <3>5, <3>6, <3>7, <3>8, KnownStep
  <2>7. Headed'
    BY <1>1 DEF Start, TypeOK, Shape, Headed, GroupFindsHead
  <2> QED
    BY <2>4, <2>5, <2>6, <2>7
<1>2. CASE Vanish(s)
  <2>1. peer' \in [Sessions -> {"away", "here", "gone"}]
    BY <1>2 DEF Vanish, TypeOK
  <2>2. TypeOK'
    BY <1>2, <2>1 DEF Vanish, TypeOK
  <2>3. Shape' /\ Headed'
    BY <1>2 DEF Vanish, Shape, Headed, GroupFindsHead
  <2>4. Known'
    BY <1>2, KnownSame DEF Vanish
  <2> QED
    BY <2>2, <2>3, <2>4
<1> QED
  BY <1>1, <1>2

\* Every step keeps the invariant.
LEMMA StepInv == Inv /\ [Next]_vars => Inv'
<1> SUFFICES ASSUME Inv, [Next]_vars PROVE Inv'
  OBVIOUS
<1>1. ASSUME NEW s \in Sessions, UNCHANGED up, Thread(s) PROVE Inv'
  BY <1>1, RegisterKeeps, WalkKeeps, LoginKeeps, NewNodeKeeps, ChatKeeps, RecvKeeps
     DEF Thread
<1>2. ASSUME NEW s \in Sessions, UNCHANGED up, User(s) PROVE Inv'
  BY <1>2, ClientKeeps, RecvKeeps DEF User
<1>3. CASE Killed
  <2>1. up' \in {"up", "down"}
    BY <1>3 DEF Killed
  <2>2. Known'
    BY <1>3, KnownSame DEF Killed, Inv, heapVars, idVars, recvVars, dbVars
  <2> QED
    BY <1>3, <2>1, <2>2 DEF Killed, Inv, TypeOK, Shape, Headed, GroupFindsHead,
       connVars, heapVars, idVars, recvVars, localVars, dbVars
<1>4. CASE UNCHANGED vars
  <2>1. Known'
    BY <1>4, KnownSame DEF vars, Inv, heapVars, idVars, recvVars, dbVars
  <2> QED
    BY <1>4, <2>1 DEF vars, Inv, TypeOK, Shape, Headed, GroupFindsHead,
       connVars, heapVars, idVars, recvVars, localVars, dbVars
<1> QED
  BY <1>1, <1>2, <1>3, <1>4 DEF Next, Running

\* Every node in use holds the name of a session that has been let in, and who came
\* in without a quote in his text has name and password of a row, under every
\* interleaving of the unlocked list functions and whatever rows others inject.
THEOREM KnownUsersOnly == Spec => []OnlyKnownUsers
<1>1. Inv => OnlyKnownUsers
  BY DEF Inv, OnlyKnownUsers, Known, Backed, TypeOK
<1> QED
  BY <1>1, InitInv, StepInv, PTL DEF Spec

\* A personal message is only ever stored as sent for a receiver who was let in.
THEOREM StoredOnlyForAdmitted == Spec => []StoredForAdmitted
<1>1. Inv => StoredForAdmitted
  BY DEF Inv, Known
<1> QED
  BY <1>1, InitInv, StepInv, PTL DEF Spec

\* groupChat never reads through a NULL head.
THEOREM HeadAlwaysThere == Spec => []GroupFindsHead
<1>1. Inv => GroupFindsHead
  BY DEF Inv, Headed
<1> QED
  BY <1>1, InitInv, StepInv, PTL DEF Spec

\* Types hold in every behaviour.
THEOREM SessionTypes == Spec => []TypeOK
<1>1. Inv => TypeOK
  BY DEF Inv
<1> QED
  BY <1>1, InitInv, StepInv, PTL DEF Spec
-----------------------------------------------------------------------------
(* The list against the logins: ListTracksLogins.                          *)

\* What a place says of the request.
OpInv ==
  \A s \in Sessions :
    /\ pc[s] \in {"check", "insert", "seek", "link", "store"} => op[s] = "login"
    /\ pc[s] \in {"unlink", "free"} => op[s] = "exit"

Members(q) == {q[i] : i \in DOMAIN q}
Once(q) == \A i, j \in DOMAIN q : q[i] = q[j] => i = j

\* c is the list as it is linked, in allocated chunks, and the names in it.
NamesOf(c) == [i \in DOMAIN c |-> name[c[i]]]
IsChain(c) ==
  /\ c \in Seq(Nodes) /\ Once(c) /\ Members(c) \subseteq live
  /\ \A i \in DOMAIN c : next[c[i]] = IF i = Len(c) THEN Null ELSE c[i + 1]
  /\ Once(NamesOf(c))
First(c) == IF c = <<>> THEN Null ELSE c[1]

\* A login walks over names that are not its own, ...
LoginWalk(s, c) ==
  \E k \in 1..(Len(c) + 1) :
    /\ p[s] = IF k = Len(c) + 1 THEN Null ELSE c[k]
    /\ \A i \in DOMAIN c : i < k => name[c[i]] # who[s]
\* ... and has a node that nothing leads to yet; ...
LoginNode(s, c) ==
  /\ c # <<>> /\ p[s] \in Members(c) /\ list[s] = c[1]
  /\ node[s] \in live \ Members(c) /\ next[node[s]] = Null /\ name[node[s]] = who[s]
  /\ pc[s] = "link" => next[p[s]] = Null
\* ... an exit keeps the node before the one it looks at.
ExitWalk(s, c) ==
  /\ list[s] = First(c)
  /\ \E k \in 1..(Len(c) + 1) :
       /\ p[s] = IF k = Len(c) + 1 THEN Null ELSE c[k]
       /\ k > 1 => pre[s] = c[k - 1]

Working(s, c) ==
  /\ pc[s] = "walk" /\ op[s] = "login" => LoginWalk(s, c)
  /\ pc[s] \in {"check", "insert", "seek", "link"} => who[s] \notin Members(NamesOf(c))
  /\ pc[s] \in {"seek", "link"} => LoginNode(s, c)
  /\ pc[s] = "store" => c # <<>> /\ list[s] = c[1]
  /\ pc[s] = "walk" /\ op[s] = "exit" => ExitWalk(s, c)
  /\ pc[s] = "unlink" => ExitWalk(s, c) /\ AtTarget(s)
  /\ pc[s] = "free" => p[s] \notin Members(c)

\* How the names relate to the logins while a session is half done.
Accounted(c) ==
  \/ /\ \A s \in Sessions : pc[s] \notin {"store", "free"}
     /\ NamesOf(c) = online /\ userList = First(c)
  \/ \E s \in Sessions : pc[s] = "store" /\ NamesOf(c) = Append(online, who[s])
  \/ \E s \in Sessions : /\ pc[s] = "free" /\ NamesOf(c) = Without(online, msg[s].from)
                         /\ userList = First(c)

OneUpdating == \A s, u \in Sessions : Updating(s) /\ Updating(u) => s = u
Tracks(c) ==
  IsChain(c) /\ Accounted(c) /\ \A s \in Sessions : Updating(s) => Working(s, c)
TrackInv == raced \/ headGone \/ (OneUpdating /\ \E c \in Seq(Nodes) : Tracks(c))

\* Without takes the entry out and moves the later ones up.
LEMMA WithoutOf ==
  ASSUME NEW S, NEW q \in Seq(S), Once(q), NEW k \in DOMAIN q
  PROVE  /\ Without(q, q[k]) \in Seq(S)
         /\ Len(Without(q, q[k])) = Len(q) - 1
         /\ DOMAIN Without(q, q[k]) = 1..(Len(q) - 1)
         /\ \A i \in 1..(Len(q) - 1) :
              Without(q, q[k])[i] = IF i < k THEN q[i] ELSE q[i + 1]
<1> DEFINE j == CHOOSE i \in DOMAIN q : q[i] = q[k]
           w == [i \in 1..(Len(q) - 1) |-> IF i < k THEN q[i] ELSE q[i + 1]]
<1>1. j = k
  <2>1. j \in DOMAIN q /\ q[j] = q[k]
    OBVIOUS
  <2> QED
    BY <2>1 DEF Once
<1>2. Without(q, q[k]) = [i \in 1..(Len(q) - 1) |-> IF i < j THEN q[i] ELSE q[i + 1]]
  BY DEF Without
<1>3. Without(q, q[k]) = w
  BY <1>1, <1>2
<1>4. Len(q) \in Nat /\ k \in 1..Len(q) /\ Len(q) - 1 \in Nat
  OBVIOUS
<1>5. \A i \in 1..(Len(q) - 1) : w[i] \in S
  BY <1>4
<1>6. w \in Seq(S) /\ Len(w) = Len(q) - 1 /\ DOMAIN w = 1..(Len(q) - 1)
  BY <1>4, <1>5
<1> QED
  BY <1>3, <1>6

\* Nothing else is lost and nothing comes twice.
LEMMA WithoutOnce ==
  ASSUME NEW S, NEW q \in Seq(S), Once(q), NEW k \in DOMAIN q
  PROVE  /\ Once(Without(q, q[k]))
         /\ Members(Without(q, q[k])) \subseteq Members(q) \ {q[k]}
<1> DEFINE w == Without(q, q[k])
<1>1. /\ DOMAIN w = 1..(Len(q) - 1)
      /\ \A i \in 1..(Len(q) - 1) : w[i] = IF i < k THEN q[i] ELSE q[i + 1]
  BY WithoutOf
<1>2. Len(q) \in Nat /\ DOMAIN q = 1..Len(q) /\ k \in 1..Len(q)
  OBVIOUS
<1> HIDE DEF w
<1>3. \A i \in DOMAIN w : \E a \in DOMAIN q : a = (IF i < k THEN i ELSE i + 1) /\ w[i] = q[a] /\ a # k
  BY <1>1, <1>2
<1>4. Once(w)
  BY <1>1, <1>2, <1>3 DEF Once
<1>5. Members(w) \subseteq Members(q) \ {q[k]}
  BY <1>3 DEF Once, Members
<1> QED
  BY <1>4, <1>5 DEF w

\* The names of a list of chunks.
LEMMA NamesAre ==
  ASSUME TypeOK, NEW c \in Seq(Nodes)
  PROVE  /\ NamesOf(c) \in Seq(Names \cup {Junk}) /\ Len(NamesOf(c)) = Len(c)
         /\ DOMAIN NamesOf(c) = DOMAIN c
         /\ \A i \in DOMAIN c : NamesOf(c)[i] = name[c[i]]
<1>1. \A i \in 1..Len(c) : name[c[i]] \in Names \cup {Junk}
  BY DEF TypeOK
<1>2. NamesOf(c) = [i \in 1..Len(c) |-> name[c[i]]] /\ Len(c) \in Nat
  BY DEF NamesOf
<1> QED
  BY <1>1, <1>2

\* Taking a chunk out takes its name out.
LEMMA NamesWithout ==
  ASSUME TypeOK, NEW c \in Seq(Nodes), Once(c), Once(NamesOf(c)), NEW k \in DOMAIN c
  PROVE  NamesOf(Without(c, c[k])) = Without(NamesOf(c), name[c[k]])
<1> DEFINE w == Without(c, c[k])
           m == NamesOf(c)
           v == Without(m, m[k])
<1>1. /\ w \in Seq(Nodes) /\ Len(w) = Len(c) - 1 /\ DOMAIN w = 1..(Len(c) - 1)
      /\ \A i \in 1..(Len(c) - 1) : w[i] = IF i < k THEN c[i] ELSE c[i + 1]
  BY WithoutOf
<1>2. /\ m \in Seq(Names \cup {Junk}) /\ Len(m) = Len(c) /\ DOMAIN m = DOMAIN c
      /\ \A i \in DOMAIN c : m[i] = name[c[i]]
  BY NamesAre
<1>3. /\ v \in Seq(Names \cup {Junk}) /\ Len(v) = Len(c) - 1 /\ DOMAIN v = 1..(Len(c) - 1)
      /\ \A i \in 1..(Len(c) - 1) : v[i] = IF i < k THEN m[i] ELSE m[i + 1]
  <2>1. Once(m) /\ k \in DOMAIN m
    BY <1>2
  <2> HIDE DEF m
  <2>2. /\ Without(m, m[k]) \in Seq(Names \cup {Junk})
        /\ Len(Without(m, m[k])) = Len(m) - 1
        /\ DOMAIN Without(m, m[k]) = 1..(Len(m) - 1)
        /\ \A i \in 1..(Len(m) - 1) : Without(m, m[k])[i] = IF i < k THEN m[i] ELSE m[i + 1]
    BY <1>2, <2>1, WithoutOf, Zenon
  <2> QED
    BY <1>2, <2>2
<1>4. /\ NamesOf(w) \in Seq(Names \cup {Junk})
      /\ Len(NamesOf(w)) = Len(w) /\ DOMAIN NamesOf(w) = DOMAIN w
      /\ \A i \in DOMAIN w : NamesOf(w)[i] = name[w[i]]
  BY <1>1, NamesAre
<1>5. Len(c) \in Nat /\ DOMAIN c = 1..Len(c) /\ k \in 1..Len(c)
  OBVIOUS
<1>6. m[k] = name[c[k]]
  BY <1>2
<1> HIDE DEF w, m, v
<1>7. ASSUME NEW i \in 1..(Len(c) - 1) PROVE NamesOf(w)[i] = v[i]
  <2>1. i \in DOMAIN w /\ i \in DOMAIN c /\ i + 1 \in DOMAIN c
    BY <1>1, <1>5
  <2>2. NamesOf(w)[i] = name[w[i]]
    BY <2>1, <1>4
  <2>3. CASE i < k
    BY <2>1, <2>2, <2>3, <1>1, <1>2, <1>3
  <2>4. CASE ~(i < k)
    BY <2>1, <2>2, <2>4, <1>1, <1>2, <1>3
  <2> QED
    BY <2>3, <2>4
<1>8. Len(NamesOf(w)) = Len(c) - 1
  BY <1>1, <1>4
<1>9. NamesOf(w) = v
  <2> DEFINE n == NamesOf(w)
  <2>1. n \in Seq(Names \cup {Junk}) /\ DOMAIN n = 1..(Len(c) - 1) /\ Len(n) = Len(c) - 1
    BY <1>1, <1>4, <1>8
  <2>2. \A i \in 1..(Len(c) - 1) : n[i] = v[i]
    BY <1>7
  <2> HIDE DEF n
  <2>3. n = v
    BY <2>1, <2>2, <1>3
  <2> QED
    BY <2>3 DEF n
<1> QED
  BY <1>6, <1>9 DEF w, m, v

\* A step of s leaves what the others hold alone.
Others(s) ==
  \A t \in Sessions \ {s} :
    /\ pc'[t] = pc[t] /\ op'[t] = op[t] /\ who'[t] = who[t] /\ msg'[t] = msg[t]
    /\ list'[t] = list[t] /\ p'[t] = p[t] /\ pre'[t] = pre[t] /\ node'[t] = node[t]

\* Every step is a step of one session.
LEMMA OthersStay ==
  ASSUME Inv, NEW s \in Sessions, Thread(s) \/ User(s)
  PROVE  Others(s)
<1> USE SessionAssumption DEF Inv, Goto, Answer, connVars, heapVars, idVars, recvVars,
    localVars, dbVars
<1>1. CASE RegisterCheck(s)
  BY <1>1 DEF RegisterCheck, TypeOK, Others
<1>2. CASE RegisterInsert(s)
  BY <1>2 DEF RegisterInsert, TypeOK, Others
<1>3. CASE Walk(s)
  BY <1>3 DEF Walk, TypeOK, Others
<1>4. CASE Found(s)
  BY <1>4 DEF Found, TypeOK, Others
<1>5. CASE Missed(s)
  BY <1>5 DEF Missed, TypeOK, Others
<1>6. CASE LoginCheck(s)
  BY <1>6 DEF LoginCheck, TypeOK, Others
<1>7. CASE \E n \in Nodes : NewNode(s, n)
  BY <1>7 DEF NewNode, TypeOK, Others
<1>8. CASE Seek(s)
  BY <1>8 DEF Seek, TypeOK, Others
<1>9. CASE Link(s) \/ Store(s)
  BY <1>9 DEF Link, Store, TypeOK, Others
<1>10. CASE Reply(s) \/ RecvCall(s) \/ RecvEnd(s)
  BY <1>10 DEF Reply, RecvCall, RecvEnd, TypeOK, Others
<1>11. CASE RecvFails(s)
  BY <1>11 DEF RecvFails, Dispatch, TypeOK, Others
<1>12. CASE GroupStart(s) \/ GroupSend(s) \/ GroupDone(s)
  BY <1>12 DEF GroupStart, GroupSend, GroupDone, TypeOK, Others
<1>13. CASE PersonalSend(s) \/ Record(s) \/ ViewRecords(s) \/ CloseSock(s)
  BY <1>13 DEF PersonalSend, Record, ViewRecords, CloseSock, TypeOK, Others
<1>14. CASE Unlink(s) \/ Free(s)
  BY <1>14 DEF Unlink, Free, TypeOK, Others
<1>15. CASE Vanish(s)
  BY <1>15 DEF Vanish, TypeOK, Others
<1>16. CASE \E r \in {"register", "login"}, u \in Names, w \in Passwords : Start(s, r, u, w)
  BY <1>16 DEF Start, TypeOK, Others
<1>17. CASE \E k \in ChatKinds, u \in Names \cup {Nobody} : RecvMessage(s, k, u)
  BY <1>17 DEF RecvMessage, Dispatch, TypeOK, Others
<1> QED
  BY <1>1, <1>2, <1>3, <1>4, <1>5, <1>6, <1>7, <1>8, <1>9, <1>10, <1>11, <1>12, <1>13,
     <1>14, <1>15, <1>16, <1>17 DEF Thread, User

\* What the history variables say of a step of s that spoils nothing.
LEMMA HistoryFacts ==
  ASSUME NEW s \in Sessions, Others(s), History, ~raced', ~headGone'
  PROVE  /\ ~raced /\ ~headGone /\ OneUpdating'
         /\ ~(pc[s] = "unlink" /\ pc'[s] = "free" /\ p[s] = list[s])
         /\ pc[s] = "store" /\ pc'[s] = "reply" => online' = Append(online, who[s])
         /\ pc[s] = "free" /\ pc'[s] = "close1" => online' = Without(online, msg[s].from)
         /\ pc[s] \notin {"store", "free"} => online' = online
<1>1. ~raced /\ ~\E t, u \in Sessions : t # u /\ Updating(t)' /\ Updating(u)'
  BY Zenon DEF History
<1>2. OneUpdating'
  BY <1>1, Zenon DEF OneUpdating
<1>3. ~headGone /\ ~\E t \in Sessions : pc[t] = "unlink" /\ pc'[t] = "free" /\ p[t] = list[t]
  BY Zenon DEF History
<1>4. \A t \in Sessions : t # s => pc'[t] = pc[t]
  BY DEF Others
<1>5. \A t \in Sessions : pc[t] = "store" /\ pc'[t] = "reply" => t = s
  BY <1>4
<1>6. \A t \in Sessions : pc[t] = "free" /\ pc'[t] = "close1" => t = s
  BY <1>4
<1>7. pc[s] = "store" /\ pc'[s] = "reply" => online' = Append(online, who[s])
  <2> SUFFICES ASSUME pc[s] = "store" /\ pc'[s] = "reply"
               PROVE  online' = Append(online, who[s])
    OBVIOUS
  <2> DEFINE t == CHOOSE u \in Sessions : pc[u] = "store" /\ pc'[u] = "reply"
  <2>1. t = s
    BY <1>5
  <2>2. online' = Append(online, who[t])
    BY Zenon DEF History
  <2> QED
    BY <2>1, <2>2
<1>8. pc[s] = "free" /\ pc'[s] = "close1" => online' = Without(online, msg[s].from)
  <2> SUFFICES ASSUME pc[s] = "free" /\ pc'[s] = "close1"
               PROVE  online' = Without(online, msg[s].from)
    OBVIOUS
  <2> DEFINE t == CHOOSE u \in Sessions : pc[u] = "free" /\ pc'[u] = "close1"
  <2>1. t = s
    BY <1>6
  <2>2. ~\E u \in Sessions : pc[u] = "store" /\ pc'[u] = "reply"
    BY <1>5
  <2>3. online' = Without(online, msg[t].from)
    BY <2>2, Zenon DEF History
  <2> QED
    BY <2>1, <2>3
<1>9. pc[s] \notin {"store", "free"} => online' = online
  <2> SUFFICES ASSUME pc[s] \notin {"store", "free"} PROVE online' = online
    OBVIOUS
  <2>1. /\ ~\E u \in Sessions : pc[u] = "store" /\ pc'[u] = "reply"
        /\ ~\E u \in Sessions : pc[u] = "free" /\ pc'[u] = "close1"
    BY <1>5, <1>6
  <2> QED
    BY <2>1, Zenon DEF History
<1> QED
  BY <1>1, <1>2, <1>3, <1>7, <1>8, <1>9, Zenon

\* Every step keeps places and requests together.
LEMMA OpStep ==
  ASSUME Inv, OpInv, NEW s \in Sessions, Thread(s) \/ User(s)
  PROVE  OpInv'
<1> USE SessionAssumption DEF Inv, Goto, Answer, connVars, heapVars, idVars, recvVars,
    localVars, dbVars
<1>0. Others(s)
  BY OthersStay
<1> SUFFICES /\ pc'[s] \in {"check", "insert", "seek", "link", "store"} => op'[s] = "login"
             /\ pc'[s] \in {"unlink", "free"} => op'[s] = "exit"
  BY <1>0 DEF OpInv, Others
<1>1. CASE RegisterCheck(s)
  BY <1>1 DEF RegisterCheck, TypeOK, OpInv
<1>2. CASE RegisterInsert(s)
  BY <1>2 DEF RegisterInsert, TypeOK, OpInv
<1>3. CASE Walk(s)
  BY <1>3 DEF Walk, TypeOK, OpInv
<1>4. CASE Found(s)
  <2>1. name[p[s]] # Nobody
    BY <1>4 DEF Found, AtTarget, TypeOK, Junk, Nobody
  <2>2. Target(s) # Nobody
    BY <1>4, <2>1 DEF Found, AtTarget
  <2>3. op[s] \in {"login", "personal", "exit"}
    BY <2>2 DEF Target
  <2> QED
    BY <1>4, <2>3 DEF Found, TypeOK, OpInv
<1>5. CASE Missed(s)
  BY <1>5 DEF Missed, TypeOK, OpInv
<1>6. CASE LoginCheck(s)
  BY <1>6 DEF LoginCheck, TypeOK, OpInv
<1>7. CASE \E n \in Nodes : NewNode(s, n)
  BY <1>7 DEF NewNode, TypeOK, OpInv
<1>8. CASE Seek(s)
  BY <1>8 DEF Seek, TypeOK, OpInv
<1>9. CASE Link(s) \/ Store(s)
  BY <1>9 DEF Link, Store, TypeOK, OpInv
<1>10. CASE Reply(s) \/ RecvCall(s) \/ RecvEnd(s)
  BY <1>10 DEF Reply, RecvCall, RecvEnd, TypeOK, OpInv
<1>11. CASE RecvFails(s)
  BY <1>11 DEF RecvFails, Dispatch, CaseOf, TypeOK, OpInv
<1>12. CASE GroupStart(s) \/ GroupSend(s) \/ GroupDone(s)
  BY <1>12 DEF GroupStart, GroupSend, GroupDone, TypeOK, OpInv
<1>13. CASE PersonalSend(s) \/ Record(s) \/ ViewRecords(s) \/ CloseSock(s)
  BY <1>13 DEF PersonalSend, Record, ViewRecords, CloseSock, TypeOK, OpInv
<1>14. CASE Unlink(s) \/ Free(s)
  BY <1>14 DEF Unlink, Free, TypeOK, OpInv
<1>15. CASE Vanish(s)
  BY <1>15 DEF Vanish, TypeOK, OpInv
<1>16. CASE \E r \in {"register", "login"}, u \in Names, w \in Passwords : Start(s, r, u, w)
  BY <1>16 DEF Start, TypeOK, OpInv
<1>17. ASSUME NEW k \in ChatKinds, NEW u \in Names \cup {Nobody}, RecvMessage(s, k, u)
       PROVE  /\ pc'[s] \in {"check", "insert", "seek", "link", "store"} => op'[s] = "login"
              /\ pc'[s] \in {"unlink", "free"} => op'[s] = "exit"
  <2>1. PICK m : Dispatch(s, m)
    BY <1>17 DEF RecvMessage
  <2> QED
    BY <2>1 DEF Dispatch, CaseOf, TypeOK
<1> QED
  BY <1>1, <1>2, <1>3, <1>4, <1>5, <1>6, <1>7, <1>8, <1>9, <1>10, <1>11, <1>12, <1>13,
     <1>14, <1>15, <1>16, <1>17 DEF Thread, User

\* A session that stores or frees is updating.
LEMMA AtWork ==
  ASSUME OpInv, NEW t \in Sessions,
         pc[t] \in {"check", "insert", "seek", "link", "store", "unlink", "free"}
  PROVE  Updating(t)
BY DEF OpInv, Updating

\* A step that writes neither the heap nor the history keeps the list that is
\* tracked, if it leaves its own session in a place that fits it.
LEMMA Undisturbed ==
  ASSUME NEW c \in Seq(Nodes), Tracks(c), NEW s \in Sessions, Others(s),
         UNCHANGED <<userList, live, name, next>>, online' = online,
         pc[s] \notin {"store", "free"}, pc'[s] \notin {"store", "free"},
         Updating(s)' => Working(s, c)'
  PROVE  Tracks(c)'
<1>1. IsChain(c)'
  BY DEF Tracks, IsChain, NamesOf
<1>2. NamesOf(c)' = NamesOf(c) /\ First(c)' = First(c)
  BY DEF NamesOf, First
<1>3. \A t \in Sessions : pc[t] \in {"store", "free"} \/ pc'[t] \in {"store", "free"}
        => t # s /\ pc'[t] = pc[t] /\ who'[t] = who[t] /\ msg'[t] = msg[t]
  BY DEF Others
<1>4. Accounted(c)'
  <2>1. CASE /\ \A t \in Sessions : pc[t] \notin {"store", "free"}
             /\ NamesOf(c) = online /\ userList = First(c)
    <3>1. \A t \in Sessions : pc'[t] \notin {"store", "free"}
      BY <2>1, <1>3
    <3> QED
      BY <2>1, <3>1, <1>2 DEF Accounted
  <2>2. ASSUME NEW t \in Sessions, pc[t] = "store", NamesOf(c) = Append(online, who[t])
        PROVE  Accounted(c)'
    BY <2>2, <1>2, <1>3 DEF Accounted
  <2>3. ASSUME NEW t \in Sessions, pc[t] = "free", userList = First(c),
               NamesOf(c) = Without(online, msg[t].from)
        PROVE  Accounted(c)'
    <3>1. pc'[t] = "free" /\ msg'[t] = msg[t]
      BY <2>3, <1>3
    <3>2. NamesOf(c)' = Without(online, msg[t].from)' /\ (userList = First(c))'
      BY <2>3, <3>1, <1>2 DEF Without
    <3> QED
      BY <3>1, <3>2 DEF Accounted
  <2> QED
    BY <2>1, <2>2, <2>3 DEF Tracks, Accounted
<1>5. ASSUME NEW t \in Sessions, Updating(t)' PROVE Working(t, c)'
  <2>1. CASE t = s
    BY <2>1, <1>5
  <2>2. CASE t # s
    <3>1. Updating(t) /\ Working(t, c)
      BY <2>2, <1>5 DEF Others, Updating, Tracks
    <3>2. /\ pc'[t] = pc[t] /\ op'[t] = op[t] /\ who'[t] = who[t] /\ msg'[t] = msg[t]
          /\ list'[t] = list[t] /\ p'[t] = p[t] /\ pre'[t] = pre[t] /\ node'[t] = node[t]
      BY <2>2 DEF Others
    <3>3. Target(t)' = Target(t) /\ AtTarget(t)' = AtTarget(t)
      BY <3>2 DEF Target, AtTarget
    <3> QED
      BY <3>1, <3>2, <3>3, <1>2
         DEF Working, LoginWalk, LoginNode, ExitWalk, NamesOf, Members, First
  <2> QED
    BY <2>1, <2>2
<1> QED
  BY <1>1, <1>4, <1>5 DEF Tracks

\* While s is updating alone, nobody else is between its last two steps.
LEMMA HeadIs ==
  ASSUME NEW c \in Seq(Nodes), OpInv, OneUpdating', Accounted(c), NEW s \in Sessions, Others(s),
         Updating(s)', pc[s] \notin {"store", "free"}
  PROVE  /\ \A t \in Sessions : pc[t] \notin {"store", "free"}
         /\ userList = First(c) /\ NamesOf(c) = online
<1>1. ASSUME NEW t \in Sessions, pc[t] \in {"store", "free"} PROVE FALSE
  <2>1. t # s /\ Updating(t)
    BY <1>1, AtWork
  <2>2. Updating(t)'
    BY <2>1 DEF Others, Updating
  <2> QED
    BY <2>1, <2>2 DEF OneUpdating
<1> QED
  BY <1>1 DEF Accounted

\* The loops of isOnLine and deleteNode.
LEMMA WalkTracks ==
  ASSUME Inv, OpInv, NEW c \in Seq(Nodes), Tracks(c), NEW s \in Sessions, Others(s),
         online' = online, Walk(s) \/ Found(s) \/ Missed(s)
  PROVE  Tracks(c)'
<1> USE SessionAssumption DEF Inv, Goto, Answer, heapVars, idVars, recvVars, localVars
<1>0. /\ UNCHANGED <<userList, live, name, next, who, msg, list, op>>
      /\ pc[s] = "walk" /\ pc'[s] \notin {"store", "free"}
  BY DEF Walk, Found, Missed, TypeOK
<1>a. Len(c) \in Nat /\ DOMAIN c = 1..Len(c) /\ \A i \in 1..Len(c) : c[i] \in Nodes /\ c[i] # Null
  BY DEF TypeOK
<1>b. \A i \in 1..Len(c) : next[c[i]] = IF i = Len(c) THEN Null ELSE c[i + 1]
  BY <1>a, Zenon DEF Tracks, IsChain
<1>c. First(c)' = First(c)
  BY DEF First
<1> SUFFICES ASSUME Updating(s)' PROVE Working(s, c)'
  BY <1>0, Undisturbed
<1>d. Updating(s) /\ Working(s, c)
  BY <1>0 DEF Updating, Tracks
<1>1. CASE Walk(s)
  <2>1. /\ pc'[s] = "walk" /\ p'[s] = next[p[s]] /\ pre'[s] = p[s]
        /\ p[s] # Null /\ ~AtTarget(s)
    BY <1>1 DEF Walk, TypeOK
  <2>2. CASE op[s] = "login"
    <3>1. PICK k \in 1..(Len(c) + 1) :
            /\ p[s] = IF k = Len(c) + 1 THEN Null ELSE c[k]
            /\ \A i \in DOMAIN c : i < k => name[c[i]] # who[s]
      BY <1>0, <1>d, <2>2 DEF Working, LoginWalk
    <3>2. k \in 1..Len(c) /\ p[s] = c[k]
      BY <1>a, <2>1, <3>1
    <3>3. name[c[k]] # who[s]
      BY <2>1, <2>2, <3>2 DEF AtTarget, Target
    <3>4. k + 1 \in 1..(Len(c) + 1) /\ p'[s] = IF k + 1 = Len(c) + 1 THEN Null ELSE c[k + 1]
      <4>1. p'[s] = IF k = Len(c) THEN Null ELSE c[k + 1]
        BY <1>b, <2>1, <3>2
      <4>2. k + 1 \in 1..(Len(c) + 1) /\ (k = Len(c) <=> k + 1 = Len(c) + 1)
        <5>1. Len(c) \in Nat /\ k \in Nat /\ 1 <= k /\ k <= Len(c)
          BY <1>a, <3>2
        <5> QED
          BY <5>1
      <4> QED
        BY <4>1, <4>2
    <3>5. \A i \in DOMAIN c : i < k + 1 => name[c[i]] # who[s]
      BY <1>a, <3>1, <3>2, <3>3
    <3>6. LoginWalk(s, c)'
      BY <1>0, <3>4, <3>5 DEF LoginWalk
    <3> QED
      BY <1>0, <2>1, <2>2, <3>6 DEF Working
  <2>3. CASE op[s] = "exit"
    <3>1. PICK k \in 1..(Len(c) + 1) : p[s] = IF k = Len(c) + 1 THEN Null ELSE c[k]
      BY <1>0, <1>d, <2>3 DEF Working, ExitWalk
    <3>2. k \in 1..Len(c) /\ p[s] = c[k]
      BY <1>a, <2>1, <3>1
    <3>3. k + 1 \in 1..(Len(c) + 1) /\ p'[s] = IF k + 1 = Len(c) + 1 THEN Null ELSE c[k + 1]
      <4>1. p'[s] = IF k = Len(c) THEN Null ELSE c[k + 1]
        BY <1>b, <2>1, <3>2
      <4>2. k + 1 \in 1..(Len(c) + 1) /\ (k = Len(c) <=> k + 1 = Len(c) + 1)
        <5>1. Len(c) \in Nat /\ k \in Nat /\ 1 <= k /\ k <= Len(c)
          BY <1>a, <3>2
        <5> QED
          BY <5>1
      <4> QED
        BY <4>1, <4>2
    <3>4. pre'[s] = c[(k + 1) - 1]
      BY <2>1, <3>2
    <3>5. list[s] = First(c)
      BY <1>0, <1>d, <2>3 DEF Working, ExitWalk
    <3>6. ExitWalk(s, c)'
      BY <1>0, <1>c, <3>3, <3>4, <3>5 DEF ExitWalk
    <3> QED
      BY <1>0, <2>1, <2>3, <3>6 DEF Working
  <2> QED
    BY <2>2, <2>3, <1>d DEF Updating
<1>2. CASE Found(s)
  <2>1. op[s] = "exit" /\ pc'[s] = "unlink" /\ AtTarget(s) /\ UNCHANGED <<p, pre>>
    BY <1>2, <1>0 DEF Found, TypeOK, Updating
  <2>2. ExitWalk(s, c)' /\ AtTarget(s)'
    BY <1>0, <1>c, <1>d, <2>1 DEF Working, ExitWalk, AtTarget, Target
  <2> QED
    BY <1>0, <2>1, <2>2 DEF Working
<1>3. CASE Missed(s)
  <2>1. op[s] = "login" /\ pc'[s] = "check" /\ p[s] = Null
    BY <1>3, <1>0 DEF Missed, TypeOK, Updating
  <2>2. PICK k \in 1..(Len(c) + 1) :
          /\ p[s] = IF k = Len(c) + 1 THEN Null ELSE c[k]
          /\ \A i \in DOMAIN c : i < k => name[c[i]] # who[s]
    BY <1>0, <1>d, <2>1 DEF Working, LoginWalk
  <2>3. k = Len(c) + 1
    BY <1>a, <2>1, <2>2
  <2>4. \A i \in DOMAIN c : name[c[i]] # who[s]
    BY <1>a, <2>2, <2>3
  <2>5. (who[s] \notin Members(NamesOf(c)))'
    BY <1>0, <2>4 DEF Members, NamesOf
  <2> QED
    BY <1>0, <2>1, <2>5 DEF Working
<1> QED
  BY <1>1, <1>2, <1>3

\* Where a walk begins: the head of the list.
LEMMA WalkBegins ==
  ASSUME Inv, NEW c \in Seq(Nodes), NEW s \in Sessions, UNCHANGED <<name>>,
         p'[s] = First(c)
  PROVE  /\ LoginWalk(s, c)'
         /\ list'[s] = First(c) => ExitWalk(s, c)'
<1>1. Len(c) \in Nat /\ DOMAIN c = 1..Len(c)
  OBVIOUS
<1>2. 1 \in 1..(Len(c) + 1) /\ p'[s] = IF 1 = Len(c) + 1 THEN Null ELSE c[1]
  BY <1>1 DEF First
<1>3. \A i \in DOMAIN c : ~(i < 1)
  BY <1>1
<1>4. LoginWalk(s, c)'
  BY <1>2, <1>3 DEF LoginWalk
<1>5. First(c)' = First(c)
  BY DEF First
<1>6. list'[s] = First(c) => ExitWalk(s, c)'
  <2>1. ~(1 > 1)
    OBVIOUS
  <2>2. \E k \in 1..(Len(c) + 1) : /\ p'[s] = IF k = Len(c) + 1 THEN Null ELSE c[k]
                                   /\ k > 1 => pre'[s] = c[k - 1]
    BY <1>2, <2>1, Zenon
  <2> QED
    BY <2>2, <1>5 DEF ExitWalk
<1> QED
  BY <1>4, <1>6

\* A login's database check and its search for the end of the list.
LEMMA LoginTracks ==
  ASSUME Inv, OpInv, NEW c \in Seq(Nodes), Tracks(c), NEW s \in Sessions, Others(s),
         online' = online, LoginCheck(s) \/ Seek(s)
  PROVE  Tracks(c)'
<1> USE SessionAssumption DEF Inv, Goto, Answer, heapVars, idVars, recvVars, localVars
<1>0. /\ UNCHANGED <<userList, live, name, next, who, msg, list, node, op>>
      /\ pc[s] \in {"check", "seek"} /\ pc'[s] \notin {"store", "free"}
  BY DEF LoginCheck, Seek, TypeOK
<1>d. Updating(s) /\ Working(s, c)
  BY <1>0, AtWork DEF Tracks
<1>a. Len(c) \in Nat /\ DOMAIN c = 1..Len(c) /\ \A i \in 1..Len(c) : c[i] \in Nodes /\ c[i] # Null
  BY DEF TypeOK
<1>b. \A i \in 1..Len(c) : next[c[i]] = IF i = Len(c) THEN Null ELSE c[i + 1]
  BY <1>a, Zenon DEF Tracks, IsChain
<1>c. Members(NamesOf(c))' = Members(NamesOf(c)) /\ Members(c)' = Members(c)
  BY <1>0 DEF Members, NamesOf
<1> SUFFICES ASSUME Updating(s)' PROVE Working(s, c)'
  BY <1>0, Undisturbed
<1>1. CASE LoginCheck(s)
  <2>1. pc[s] = "check" /\ pc'[s] = "insert"
    BY <1>1 DEF LoginCheck, TypeOK, Updating
  <2> QED
    BY <1>0, <1>c, <1>d, <2>1 DEF Working
<1>2. CASE Seek(s)
  <2>1. /\ pc[s] = "seek" /\ LoginNode(s, c) /\ who[s] \notin Members(NamesOf(c))
        /\ p[s] \in Members(c)
    BY <1>2, <1>d DEF Seek, Working, LoginNode
  <2>2. CASE next[p[s]] = Null
    <3>1. pc'[s] = "link" /\ p' = p
      BY <1>2, <2>2 DEF Seek, TypeOK
    <3>2. LoginNode(s, c)'
      BY <1>0, <1>c, <2>1, <2>2, <3>1 DEF LoginNode
    <3> QED
      BY <1>0, <1>c, <2>1, <3>1, <3>2 DEF Working
  <2>3. CASE next[p[s]] # Null
    <3>1. pc'[s] = "seek" /\ p'[s] = next[p[s]]
      BY <1>2, <2>1, <2>3 DEF Seek, TypeOK
    <3>2. PICK i \in 1..Len(c) : p[s] = c[i]
      BY <1>a, <2>1 DEF Members
    <3>3. i # Len(c) /\ p'[s] = c[i + 1]
      BY <1>b, <2>3, <3>1, <3>2
    <3>4. i + 1 \in 1..Len(c)
      <4>0. Len(c) \in Nat /\ i # Len(c)
        BY <1>a, <3>3, Zenon
      <4>1. i \in Nat /\ 1 <= i /\ i <= Len(c)
        BY <4>0
      <4> QED
        BY <4>0, <4>1
    <3>5. p'[s] \in Members(c)
      BY <1>a, <3>3, <3>4, Zenon DEF Members
    <3>6. LoginNode(s, c)'
      BY <1>0, <1>c, <2>1, <3>1, <3>5 DEF LoginNode
    <3> QED
      BY <1>0, <1>c, <2>1, <3>1, <3>6 DEF Working
  <2> QED
    BY <2>2, <2>3
<1> QED
  BY <1>1, <1>2

\* A login begins, or a message is dispatched.
LEMMA BeginTracks ==
  ASSUME Inv, OpInv, OneUpdating', NEW c \in Seq(Nodes), Tracks(c), NEW s \in Sessions,
         Others(s), online' = online,
         \/ \E r \in {"register", "login"}, u \in Names, w \in Passwords : Start(s, r, u, w)
         \/ RecvFails(s)
         \/ \E k \in ChatKinds, u \in Names \cup {Nobody} : RecvMessage(s, k, u)
  PROVE  Tracks(c)'
<1> USE SessionAssumption DEF Inv, Goto, heapVars
<1>0. /\ UNCHANGED <<userList, live, name, next>>
      /\ pc[s] \in {"idle", "chat", "wait"} /\ pc'[s] \notin {"store", "free"}
  <2>1. CASE \E r \in {"register", "login"}, u \in Names, w \in Passwords : Start(s, r, u, w)
    BY <2>1 DEF Start, TypeOK
  <2>2. CASE RecvFails(s)
    BY <2>2 DEF RecvFails, Dispatch, CaseOf, TypeOK
  <2>3. ASSUME NEW k \in ChatKinds, NEW u \in Names \cup {Nobody}, RecvMessage(s, k, u)
        PROVE  /\ UNCHANGED <<userList, live, name, next>>
               /\ pc[s] \in {"idle", "chat", "wait"} /\ pc'[s] \notin {"store", "free"}
    BY <2>3 DEF RecvMessage, Dispatch, CaseOf, TypeOK
  <2> QED
    BY <2>1, <2>2, <2>3
<1> SUFFICES ASSUME Updating(s)' PROVE Working(s, c)'
  BY <1>0, Undisturbed
<1>1. userList = First(c)
  BY <1>0, HeadIs DEF Tracks
<1>2. ASSUME NEW m, Dispatch(s, m), pc[s] \in {"chat", "wait"} PROVE Working(s, c)'
  <2>1. /\ pc'[s] = CaseOf(m) /\ op'[s] = IF m.kind = "none" THEN op[s] ELSE m.kind
        /\ p'[s] = userList /\ list'[s] = userList
    BY <1>2 DEF Dispatch, TypeOK
  <2>2. pc'[s] = "walk" /\ op'[s] = "exit"
    BY <2>1 DEF CaseOf, Updating
  <2>3. ExitWalk(s, c)'
    BY <1>0, <1>1, <2>1, WalkBegins
  <2> QED
    BY <2>2, <2>3 DEF Working
<1>3. CASE \E r \in {"register", "login"}, u \in Names, w \in Passwords : Start(s, r, u, w)
  <2>1. pc'[s] = "walk" /\ op'[s] = "login" /\ p'[s] = userList
    BY <1>3 DEF Start, TypeOK, Updating
  <2>2. LoginWalk(s, c)'
    BY <1>0, <1>1, <2>1, WalkBegins
  <2> QED
    BY <2>1, <2>2 DEF Working
<1>4. CASE RecvFails(s)
  BY <1>2, <1>4 DEF RecvFails
<1>5. ASSUME NEW k \in ChatKinds, NEW u \in Names \cup {Nobody}, RecvMessage(s, k, u)
      PROVE  Working(s, c)'
  BY <1>2, <1>5 DEF RecvMessage
<1> QED
  BY <1>3, <1>4, <1>5

\* Every other step that leaves the list alone.
LEMMA IdleTracks ==
  ASSUME Inv, OpInv, NEW c \in Seq(Nodes), Tracks(c), NEW s \in Sessions, Others(s),
         online' = online,
         \/ RegisterCheck(s) \/ RegisterInsert(s) \/ Reply(s) \/ RecvCall(s) \/ RecvEnd(s)
         \/ GroupStart(s) \/ GroupSend(s) \/ GroupDone(s) \/ PersonalSend(s) \/ Record(s)
         \/ ViewRecords(s) \/ CloseSock(s)
  PROVE  Tracks(c)'
<1> USE DEF Inv, Goto, Answer, heapVars, localVars, idVars, recvVars
<1>1. /\ UNCHANGED <<userList, live, name, next>>
      /\ pc[s] \notin {"store", "free"}
      /\ pc'[s] \notin {"walk", "check", "insert", "seek", "link", "store", "unlink", "free"}
  <2>1. CASE RegisterCheck(s) \/ RegisterInsert(s)
    BY <2>1 DEF RegisterCheck, RegisterInsert, TypeOK
  <2>2. CASE Reply(s) \/ RecvCall(s) \/ RecvEnd(s)
    BY <2>2 DEF Reply, RecvCall, RecvEnd, TypeOK
  <2>3. CASE GroupStart(s) \/ GroupSend(s) \/ GroupDone(s)
    BY <2>3 DEF GroupStart, GroupSend, GroupDone, TypeOK
  <2>4. CASE PersonalSend(s) \/ Record(s) \/ ViewRecords(s) \/ CloseSock(s)
    BY <2>4 DEF PersonalSend, Record, ViewRecords, CloseSock, TypeOK
  <2> QED
    BY <2>1, <2>2, <2>3, <2>4
<1>2. ~Updating(s)'
  BY <1>1 DEF Updating
<1> QED
  BY <1>1, <1>2, Undisturbed

\* s is the only one at work before and after a step that keeps it at work.
LEMMA Alone ==
  ASSUME OpInv, OneUpdating, NEW s \in Sessions, Others(s), Updating(s)
  PROVE  \A t \in Sessions : t # s =>
           /\ ~Updating(t) /\ ~Updating(t)'
           /\ pc[t] \notin {"store", "free"} /\ pc'[t] \notin {"store", "free"}
<1> SUFFICES ASSUME NEW t \in Sessions, t # s
             PROVE  /\ ~Updating(t) /\ ~Updating(t)'
                    /\ pc[t] \notin {"store", "free"} /\ pc'[t] \notin {"store", "free"}
  OBVIOUS
<1>1. ~Updating(t)
  BY DEF OneUpdating
<1>2. pc[t] \notin {"store", "free"}
  BY <1>1, AtWork
<1>3. ~Updating(t)' /\ pc'[t] = pc[t]
  BY <1>1 DEF Others, Updating
<1> QED
  BY <1>1, <1>2, <1>3

\* insertNode allocates and fills a chunk that the list does not hold.
LEMMA NewNodeTracks ==
  ASSUME Inv, OpInv, OneUpdating, NEW c \in Seq(Nodes), Tracks(c), NEW s \in Sessions,
         Others(s), online' = online, NEW n \in Nodes, NewNode(s, n)
  PROVE  \E d \in Seq(Nodes) : Tracks(d)'
<1> USE SessionAssumption DEF Inv
<1>0. /\ pc[s] = "insert" /\ n \in Nodes \ live /\ live' = live \cup {n}
      /\ name'[n] = who[s] /\ next'[n] = Null
      /\ \A m \in Nodes : m # n => name'[m] = name[m] /\ next'[m] = next[m]
      /\ userList' = userList /\ who' = who /\ op' = op
      /\ node'[s] = n /\ p'[s] = userList
      /\ list'[s] = IF userList = Null THEN n ELSE userList
      /\ pc'[s] = IF userList = Null THEN "store" ELSE "seek"
  BY DEF NewNode, Goto, TypeOK, idVars
<1>1. Updating(s) /\ Working(s, c)
  BY <1>0, AtWork DEF Tracks
<1>2. \A t \in Sessions : t # s =>
           /\ ~Updating(t) /\ ~Updating(t)'
           /\ pc[t] \notin {"store", "free"} /\ pc'[t] \notin {"store", "free"}
  BY <1>1, Alone
<1>3. NamesOf(c) = online /\ userList = First(c)
  BY <1>0, <1>2 DEF Tracks, Accounted
<1>4. who[s] \notin Members(NamesOf(c))
  BY <1>0, <1>1 DEF Working
<1>5. Len(c) \in Nat /\ DOMAIN c = 1..Len(c) /\ \A i \in 1..Len(c) : c[i] \in Nodes /\ c[i] # Null
  BY DEF TypeOK
<1>6. IsChain(c)
  BY DEF Tracks
<1>7. CASE userList = Null
  <2>1. c = <<>>
    BY <1>3, <1>5, <1>7 DEF First
  <2> DEFINE d == <<n>>
  <2>2. d \in Seq(Nodes) /\ Len(d) = 1 /\ DOMAIN d = {1} /\ d[1] = n /\ d # <<>>
    OBVIOUS
  <2>3. NamesOf(d)' = <<who[s]>>
    BY <1>0, <2>2 DEF NamesOf
  <2>4. online = <<>>
    BY <1>3, <2>1 DEF NamesOf
  <2>5. NamesOf(d)' = Append(online, who[s])'
    BY <1>0, <2>3, <2>4
  <2> HIDE DEF d
  <2>6. IsChain(d)'
    <3>1. Once(d)' /\ Once(NamesOf(d))'
      BY <2>2, <2>3 DEF Once
    <3>2. Members(d)' \subseteq live'
      BY <1>0, <2>2 DEF Members
    <3>3. \A i \in DOMAIN d : next'[d[i]] = IF i = Len(d) THEN Null ELSE d[i + 1]
      BY <1>0, <2>2
    <3> QED
      BY <2>2, <3>1, <3>2, <3>3 DEF IsChain
  <2>7. Accounted(d)'
    BY <1>0, <1>7, <2>5 DEF Accounted
  <2>8. Working(s, d)'
    BY <1>0, <1>7, <2>2 DEF Working
  <2>9. Tracks(d)'
    BY <1>2, <2>6, <2>7, <2>8 DEF Tracks
  <2> QED
    BY <2>2, <2>9
<1>8. CASE userList # Null
  <2>1. c # <<>> /\ userList = c[1] /\ Len(c) >= 1 /\ 1 \in 1..Len(c)
    BY <1>3, <1>5, <1>8 DEF First
  <2>2. n \notin Members(c)
    BY <1>0, <1>6 DEF IsChain
  <2>3. \A i \in DOMAIN c : c[i] # n /\ name'[c[i]] = name[c[i]] /\ next'[c[i]] = next[c[i]]
    BY <1>0, <1>5, <2>2 DEF Members
  <2>4. NamesOf(c)' = NamesOf(c)
    BY <2>3 DEF NamesOf
  <2>5. IsChain(c)'
    <3>1. Once(c)' /\ Once(NamesOf(c))'
      BY <1>6, <2>4 DEF IsChain, Once
    <3>2. Members(c)' \subseteq live'
      BY <1>0, <1>6 DEF IsChain, Members
    <3>3. \A i \in DOMAIN c : next'[c[i]] = IF i = Len(c) THEN Null ELSE c[i + 1]
      BY <1>6, <2>3 DEF IsChain
    <3> QED
      BY <3>1, <3>2, <3>3 DEF IsChain
  <2>6. Accounted(c)'
    <3>1. \A t \in Sessions : pc'[t] \notin {"store", "free"}
      BY <1>0, <1>2, <1>8
    <3>2. (NamesOf(c) = online)' /\ (userList = First(c))'
      BY <1>0, <1>3, <2>4 DEF First
    <3> QED
      BY <3>1, <3>2 DEF Accounted
  <2>7. LoginNode(s, c)'
    <3>1. Members(c)' = Members(c) /\ c[1] \in Members(c)
      BY <1>5, <2>1 DEF Members
    <3> QED
      BY <1>0, <1>8, <2>1, <2>2, <3>1 DEF LoginNode
  <2>8. Working(s, c)'
    <3>1. (who[s] \notin Members(NamesOf(c)))'
      BY <1>0, <1>4, <2>4 DEF Members
    <3> QED
      BY <1>0, <1>8, <2>7, <3>1 DEF Working
  <2>9. Tracks(c)'
    BY <1>2, <2>5, <2>6, <2>8 DEF Tracks
  <2> QED
    BY <2>9
<1> QED
  BY <1>7, <1>8

\* insertNode links it behind the last node.
LEMMA LinkTracks ==
  ASSUME Inv, OpInv, OneUpdating, NEW c \in Seq(Nodes), Tracks(c), NEW s \in Sessions,
         Others(s), online' = online, Link(s)
  PROVE  \E d \in Seq(Nodes) : Tracks(d)'
<1> USE SessionAssumption DEF Inv
<1>0. /\ pc[s] = "link" /\ pc'[s] = "store" /\ p[s] \in Nodes
      /\ next' = [next EXCEPT ![p[s]] = node[s]]
      /\ UNCHANGED <<userList, live, name, who, op, list, p, node>>
  BY DEF Link, Linked, Goto, TypeOK, idVars, localVars, Shape
<1>1. Updating(s) /\ Working(s, c)
  BY <1>0, AtWork DEF Tracks
<1>2. \A t \in Sessions : t # s =>
           /\ ~Updating(t) /\ ~Updating(t)'
           /\ pc[t] \notin {"store", "free"} /\ pc'[t] \notin {"store", "free"}
  BY <1>1, Alone
<1>3. NamesOf(c) = online /\ userList = First(c)
  BY <1>0, <1>2 DEF Tracks, Accounted
<1>4. who[s] \notin Members(NamesOf(c)) /\ LoginNode(s, c)
  BY <1>0, <1>1 DEF Working
<1>n. PICK n \in Nodes : n = node[s]
  BY <1>0 DEF Shape
<1> DEFINE d == Append(c, n)
<1>5. /\ Len(c) \in Nat /\ DOMAIN c = 1..Len(c) /\ Len(c) # 0
      /\ \A i \in 1..Len(c) : c[i] \in Nodes /\ c[i] # Null
  BY <1>4 DEF TypeOK, LoginNode
<1>6. IsChain(c)
  BY DEF Tracks
<1>7. /\ p[s] \in Members(c) /\ next[p[s]] = Null /\ list[s] = c[1]
      /\ n \in live \ Members(c) /\ n \in Nodes /\ next[n] = Null /\ name[n] = who[s]
  BY <1>0, <1>4, <1>n DEF LoginNode, TypeOK
<1>8. p[s] = c[Len(c)]
  <2>1. PICK i \in DOMAIN c : p[s] = c[i]
    BY <1>7 DEF Members
  <2>2. next[c[i]] = IF i = Len(c) THEN Null ELSE c[i + 1]
    BY <1>6 DEF IsChain
  <2>3. CASE i # Len(c)
    <3>1. i + 1 \in 1..Len(c)
      <4>1. Len(c) \in Nat /\ i \in Nat /\ 1 <= i /\ i <= Len(c) /\ i # Len(c)
        BY <1>5, <2>1, <2>3
      <4> QED
        BY <4>1
    <3>2. c[i + 1] = Null
      BY <2>1, <2>2, <2>3, <1>7
    <3> QED
      BY <1>5, <3>1, <3>2
  <2> QED
    BY <2>1, <2>3
<1>9. /\ d \in Seq(Nodes) /\ Len(d) = Len(c) + 1 /\ DOMAIN d = 1..(Len(c) + 1)
      /\ d[Len(c) + 1] = n /\ \A i \in 1..Len(c) : d[i] = c[i]
  BY <1>5, <1>7
<1> HIDE DEF d
<1>10. d # <<>> /\ d[1] = c[1]
  BY <1>5, <1>9
<1>11. NamesOf(d)' = Append(online, who[s])'
  <2> DEFINE q == NamesOf(d)
             r == Append(online, who[s])
  <2>1. /\ NamesOf(c) \in Seq(Names \cup {Junk}) /\ Len(NamesOf(c)) = Len(c)
        /\ \A i \in DOMAIN c : NamesOf(c)[i] = name[c[i]]
    BY NamesAre
  <2>2. /\ q \in Seq(Names \cup {Junk}) /\ Len(q) = Len(d)
        /\ \A i \in DOMAIN d : q[i] = name[d[i]]
    BY <1>9, NamesAre
  <2>3. who[s] \in Names \cup {Junk}
    BY <1>0 DEF Shape
  <2>4. /\ r \in Seq(Names \cup {Junk}) /\ Len(r) = Len(c) + 1 /\ r[Len(c) + 1] = who[s]
        /\ \A i \in 1..Len(c) : r[i] = name[c[i]]
    BY <1>3, <1>5, <2>1, <2>3
  <2> HIDE DEF q, r
  <2>5. \A i \in 1..(Len(c) + 1) : q[i] = r[i]
    BY <1>5, <1>7, <1>9, <2>2, <2>4
  <2>6. Len(q) = Len(r)
    BY <1>9, <2>2, <2>4
  <2>7. q = r
    BY <1>5, <2>2, <2>4, <2>5, <2>6
  <2>8. NamesOf(d)' = NamesOf(d)
    BY <1>0 DEF NamesOf
  <2>9. Append(online, who[s])' = Append(online, who[s])
    BY <1>0
  <2> QED
    BY <2>7, <2>8, <2>9 DEF q, r
<1>12. IsChain(d)'
  <2>1. Once(c) /\ Once(NamesOf(c)) /\ Members(c) \subseteq live
    BY <1>6 DEF IsChain
  <2>2. \A i \in 1..Len(c) : c[i] # n
    BY <1>5, <1>7 DEF Members
  <2>3. Once(d)
    BY <1>5, <1>9, <2>1, <2>2 DEF Once
  <2>4. \A i \in 1..Len(c) : name[c[i]] # who[s]
    BY <1>4, <1>5 DEF Members, NamesOf
  <2>5. \A i, j \in 1..Len(c) : name[c[i]] = name[c[j]] => i = j
    BY <1>5, <2>1 DEF Once, NamesOf
  <2>6. \A i, j \in DOMAIN d : name[d[i]] = name[d[j]] => i = j
    BY <1>5, <1>7, <1>9, <2>4, <2>5
  <2>7. Once(NamesOf(d))'
    BY <1>0, <2>6 DEF Once, NamesOf
  <2>8. Members(d) \subseteq live
    BY <1>5, <1>7, <1>9, <2>1 DEF Members
  <2>9. \A i \in 1..Len(c) : next[c[i]] = IF i = Len(c) THEN Null ELSE c[i + 1]
    BY <1>5, <1>6 DEF IsChain
  <2>10. next'[p[s]] = n /\ \A m \in Nodes : m # p[s] => next'[m] = next[m]
    BY <1>0, <1>n DEF TypeOK
  <2>11. ASSUME NEW i \in DOMAIN d PROVE next'[d[i]] = IF i = Len(d) THEN Null ELSE d[i + 1]
    <3>1. CASE i = Len(c) + 1
      <4>1. d[i] = n /\ n # p[s]
        BY <3>1, <1>7, <1>9
      <4> QED
        BY <3>1, <4>1, <1>7, <1>9, <2>10
    <3>2. CASE i = Len(c)
      <4>1. d[i] = p[s] /\ i + 1 = Len(c) + 1 /\ i # Len(d)
        BY <3>2, <1>5, <1>8, <1>9
      <4> QED
        BY <4>1, <1>9, <2>10
    <3>3. CASE i \in 1..Len(c) /\ i # Len(c)
      <4>1. Len(c) \in Nat /\ i \in Nat /\ 1 <= i /\ i < Len(c)
        BY <3>3, <1>5
      <4>2. i \in 1..Len(c) /\ i + 1 \in 1..Len(c) /\ Len(c) \in 1..Len(c) /\ i # Len(c) + 1
        BY <4>1
      <4>3. c[i] # p[s] /\ c[i] \in Nodes
        BY <3>3, <4>2, <1>5, <1>8, <2>1 DEF Once
      <4>4. next'[c[i]] = c[i + 1]
        BY <3>3, <4>2, <4>3, <2>9, <2>10
      <4> QED
        BY <4>2, <4>4, <1>9
    <3> QED
      BY <3>1, <3>2, <3>3, <1>5, <1>9
  <2>12. Members(d)' \subseteq live' /\ Once(d)'
    BY <1>0, <2>3, <2>8 DEF Members, Once
  <2> QED
    BY <1>9, <2>7, <2>11, <2>12 DEF IsChain
<1>13. Accounted(d)'
  BY <1>0, <1>11 DEF Accounted
<1>14. Working(s, d)'
  BY <1>0, <1>7, <1>10 DEF Working
<1>15. Tracks(d)'
  BY <1>2, <1>12, <1>13, <1>14 DEF Tracks
<1> QED
  BY <1>9, <1>15

\* loginUser stores the head insertNode returns.
LEMMA StoreTracks ==
  ASSUME Inv, OpInv, OneUpdating, NEW c \in Seq(Nodes), Tracks(c), NEW s \in Sessions,
         Others(s), online' = Append(online, who[s]), Store(s)
  PROVE  Tracks(c)'
<1> USE SessionAssumption DEF Inv
<1>0. /\ pc[s] = "store" /\ pc'[s] = "reply" /\ userList' = list[s]
      /\ UNCHANGED <<live, name, next>>
  BY DEF Store, Returned, Goto, Answer, TypeOK
<1>1. Updating(s) /\ Working(s, c)
  BY <1>0, AtWork DEF Tracks
<1>2. \A t \in Sessions : t # s =>
           /\ ~Updating(t) /\ ~Updating(t)'
           /\ pc[t] \notin {"store", "free"} /\ pc'[t] \notin {"store", "free"}
  BY <1>1, Alone
<1>3. NamesOf(c) = Append(online, who[s])
  BY <1>0, <1>2 DEF Tracks, Accounted
<1>4. userList' = First(c)'
  BY <1>0, <1>1 DEF Working, First
<1>5. NamesOf(c)' = NamesOf(c)
  BY <1>0 DEF NamesOf
<1>6. IsChain(c)'
  BY <1>0, <1>5 DEF Tracks, IsChain, Members, Once
<1>7. Accounted(c)'
  BY <1>0, <1>2, <1>3, <1>4, <1>5 DEF Accounted
<1>8. ~Updating(s)'
  BY <1>0 DEF Updating
<1> QED
  BY <1>2, <1>6, <1>7, <1>8 DEF Tracks

\* deleteNode takes a node behind the head out of the list.
LEMMA UnlinkTracks ==
  ASSUME Inv, OpInv, OneUpdating, NEW c \in Seq(Nodes), Tracks(c), NEW s \in Sessions,
         Others(s), online' = online, Unlink(s), p[s] # list[s]
  PROVE  \E d \in Seq(Nodes) : Tracks(d)'
<1> USE SessionAssumption DEF Inv
<1>0. /\ pc[s] = "unlink" /\ pc'[s] = "free" /\ p[s] \in Nodes
      /\ next' = [next EXCEPT ![pre[s]] = next[p[s]]]
      /\ UNCHANGED <<userList, live, name, msg, op, p>>
  BY DEF Unlink, Unlinked, Goto, TypeOK, recvVars, Shape
<1>1. Updating(s) /\ Working(s, c)
  BY <1>0, AtWork DEF Tracks
<1>2. \A t \in Sessions : t # s =>
           /\ ~Updating(t) /\ ~Updating(t)'
           /\ pc[t] \notin {"store", "free"} /\ pc'[t] \notin {"store", "free"}
  BY <1>1, Alone
<1>3. NamesOf(c) = online /\ userList = First(c)
  BY <1>0, <1>2 DEF Tracks, Accounted
<1>4. ExitWalk(s, c) /\ AtTarget(s)
  BY <1>0, <1>1 DEF Working
<1>5. /\ Len(c) \in Nat /\ DOMAIN c = 1..Len(c)
      /\ \A i \in 1..Len(c) : c[i] \in Nodes /\ c[i] # Null
  BY DEF TypeOK
<1>6. IsChain(c) /\ Once(c) /\ Once(NamesOf(c)) /\ Members(c) \subseteq live
  BY DEF Tracks, IsChain
<1>7. PICK k \in 1..(Len(c) + 1) :
        /\ p[s] = IF k = Len(c) + 1 THEN Null ELSE c[k]
        /\ k > 1 => pre[s] = c[k - 1]
  BY <1>4 DEF ExitWalk
<1>8. k \in 1..Len(c) /\ p[s] = c[k]
  <2>1. k # Len(c) + 1
    BY <1>0, <1>7
  <2>2. Len(c) \in Nat
    BY <1>5
  <2>3. k \in 1..Len(c)
    BY <2>1, <2>2
  <2> QED
    BY <1>7, <2>1, <2>3
<1>9. c # <<>> /\ list[s] = c[1] /\ k # 1
  BY <1>4, <1>5, <1>8 DEF ExitWalk, First
<1>10. k \in Nat /\ k > 1 /\ k <= Len(c) /\ k - 1 \in 1..Len(c) /\ Len(c) \in 1..Len(c)
  <2>1. Len(c) \in Nat
    BY <1>5
  <2>2. k \in Nat /\ 1 <= k /\ k <= Len(c)
    BY <1>8, <2>1
  <2> QED
    BY <1>9, <2>1, <2>2
<1>11. pre[s] = c[k - 1]
  BY <1>7, <1>10, Zenon
<1> DEFINE d == Without(c, c[k])
<1>12. /\ d \in Seq(Nodes) /\ Len(d) = Len(c) - 1 /\ DOMAIN d = 1..(Len(c) - 1)
       /\ \A i \in 1..(Len(c) - 1) : d[i] = IF i < k THEN c[i] ELSE c[i + 1]
  <2>1. Once(c) /\ k \in DOMAIN c
    BY <1>5, <1>6, <1>8
  <2> QED
    BY <2>1, WithoutOf
<1>13. Once(d) /\ Members(d) \subseteq Members(c) \ {c[k]}
  BY <1>5, <1>6, <1>8, WithoutOnce
<1>14. NamesOf(d) = Without(NamesOf(c), name[c[k]])
  BY <1>5, <1>6, <1>8, NamesWithout
<1>15. op[s] = "exit" /\ name[c[k]] = msg[s].from
  <2>1. op[s] = "exit"
    BY <1>0 DEF OpInv
  <2> QED
    BY <1>4, <1>8, <2>1 DEF AtTarget, Target
<1> HIDE DEF d
<1>16. d # <<>> /\ d[1] = c[1] /\ Len(c) - 1 \in Nat /\ 1 \in 1..(Len(c) - 1)
  <2>2. Len(c) \in Nat /\ Len(c) >= 2
    BY <1>5, <1>10
  <2>3. Len(c) - 1 \in Nat /\ 1 \in 1..(Len(c) - 1)
    BY <2>2
  <2>4. d[1] = c[1]
    BY <1>10, <1>12, <2>3
  <2> QED
    BY <1>12, <2>3, <2>4
<1>17. NamesOf(d)' = NamesOf(d)
  BY <1>0 DEF NamesOf
<1>18. Accounted(d)'
  <2>1. userList' = First(d)'
    BY <1>0, <1>3, <1>9, <1>16 DEF First
  <2>2. NamesOf(d)' = Without(online, msg[s].from)'
    <3>1. Without(online, msg[s].from)' = Without(online, msg[s].from)
      BY <1>0 DEF Without
    <3> QED
      BY <1>3, <1>14, <1>15, <1>17, <3>1
  <2> QED
    BY <1>0, <2>1, <2>2 DEF Accounted
<1>19. IsChain(d)'
  <2>1. Once(NamesOf(d))
    <3>1. /\ NamesOf(c) \in Seq(Names \cup {Junk}) /\ k \in DOMAIN NamesOf(c)
          /\ NamesOf(c)[k] = name[c[k]]
      BY <1>5, <1>8, NamesAre
    <3>2. Once(Without(NamesOf(c), NamesOf(c)[k]))
      BY <1>6, <3>1, WithoutOnce
    <3> QED
      BY <1>14, <3>1, <3>2
  <2>2. Once(NamesOf(d))' /\ Once(d)' /\ Members(d)' \subseteq live'
    <3>1. Once(NamesOf(d))'
      BY <1>17, <2>1 DEF Once
    <3>2. Once(d)' /\ Members(d)' = Members(d)
      BY <1>13 DEF Once, Members
    <3> QED
      BY <1>0, <1>6, <1>13, <3>1, <3>2
  <2>3. next'[c[k - 1]] = next[c[k]] /\ \A m \in Nodes : m # c[k - 1] => next'[m] = next[m]
    BY <1>0, <1>5, <1>8, <1>10, <1>11 DEF TypeOK
  <2>4. \A i \in 1..Len(c) : next[c[i]] = IF i = Len(c) THEN Null ELSE c[i + 1]
    BY <1>5, <1>6, Zenon DEF IsChain
  <2>5. ASSUME NEW i \in DOMAIN d PROVE next'[d[i]] = IF i = Len(d) THEN Null ELSE d[i + 1]
    <3>0. /\ Len(c) \in Nat /\ i \in Nat /\ 1 <= i /\ i <= Len(c) - 1 /\ Len(d) = Len(c) - 1
      BY <1>5, <1>12, <1>16
    <3>1. i \in 1..Len(c) /\ i + 1 \in 1..Len(c) /\ i \in 1..(Len(c) - 1)
      BY <3>0
    <3>2. CASE i = k - 1
      <4>1. d[i] = c[k - 1] /\ k = i + 1
        BY <3>0, <3>1, <3>2, <1>10, <1>12
      <4>2. next'[d[i]] = IF k = Len(c) THEN Null ELSE c[k + 1]
        BY <1>8, <2>3, <2>4, <4>1
      <4>3. CASE k = Len(c)
        BY <3>0, <4>1, <4>2, <4>3
      <4>4. CASE k # Len(c)
        <5>1. i # Len(d) /\ i + 1 \in 1..(Len(c) - 1) /\ ~(i + 1 < k)
          BY <3>0, <4>1, <4>4
        <5>2. d[i + 1] = c[k + 1]
          BY <1>12, <4>1, <5>1
        <5> QED
          BY <4>2, <4>4, <5>1, <5>2
      <4> QED
        BY <4>3, <4>4
    <3>3. CASE i < k - 1
      <4>1. d[i] = c[i] /\ i # k - 1 /\ i # Len(c) /\ i # Len(d) /\ i + 1 < k /\ i + 1 \in 1..(Len(c) - 1)
        BY <3>0, <3>1, <3>3, <1>10, <1>12
      <4>2. c[i] # c[k - 1] /\ c[i] \in Nodes
        BY <3>1, <4>1, <1>5, <1>6, <1>10 DEF Once
      <4>3. next'[d[i]] = c[i + 1]
        BY <3>1, <4>1, <4>2, <2>3, <2>4
      <4>4. d[i + 1] = c[i + 1]
        BY <4>1, <1>12
      <4> QED
        BY <4>1, <4>3, <4>4
    <3>4. CASE i > k - 1
      <4>1. d[i] = c[i + 1] /\ i + 1 # k - 1
        BY <3>0, <3>1, <3>4, <1>10, <1>12
      <4>2. c[i + 1] # c[k - 1] /\ c[i + 1] \in Nodes
        BY <3>1, <4>1, <1>5, <1>6, <1>10 DEF Once
      <4>3. next'[d[i]] = IF i + 1 = Len(c) THEN Null ELSE c[(i + 1) + 1]
        BY <3>1, <4>1, <4>2, <2>3, <2>4
      <4>4. CASE i + 1 = Len(c)
        BY <3>0, <4>3, <4>4
      <4>5. CASE i + 1 # Len(c)
        <5>1. i # Len(d) /\ i + 1 \in 1..(Len(c) - 1) /\ ~(i + 1 < k)
          BY <3>0, <3>4, <4>5, <1>10
        <5>2. d[i + 1] = c[(i + 1) + 1]
          BY <1>12, <5>1
        <5> QED
          BY <4>3, <4>5, <5>1, <5>2
      <4> QED
        BY <4>4, <4>5
    <3> QED
      BY <3>0, <3>2, <3>3, <3>4, <1>10
  <2> QED
    BY <1>12, <2>2, <2>5 DEF IsChain
<1>20. Working(s, d)'
  <2>1. Members(d)' = Members(d) /\ p'[s] \notin Members(d)
    BY <1>0, <1>8, <1>13 DEF Members
  <2> QED
    BY <1>0, <2>1 DEF Working
<1>21. Tracks(d)'
  BY <1>2, <1>18, <1>19, <1>20 DEF Tracks
<1> QED
  BY <1>12, <1>21

\* deleteNode frees the node it has taken out.
LEMMA FreeTracks ==
  ASSUME Inv, OpInv, OneUpdating, NEW c \in Seq(Nodes), Tracks(c), NEW s \in Sessions,
         Others(s), online' = Without(online, msg[s].from), Free(s)
  PROVE  Tracks(c)'
<1> USE SessionAssumption DEF Inv
<1>0. /\ pc[s] = "free" /\ pc'[s] = "close1" /\ p[s] \in Nodes
      /\ live' = live \ {p[s]} /\ \A m \in Nodes : m # p[s] => name'[m] = name[m]
      /\ UNCHANGED <<userList, next>>
  BY DEF Free, Goto, TypeOK, Shape
<1>1. Updating(s) /\ Working(s, c)
  BY <1>0, AtWork DEF Tracks
<1>2. \A t \in Sessions : t # s =>
           /\ ~Updating(t) /\ ~Updating(t)'
           /\ pc[t] \notin {"store", "free"} /\ pc'[t] \notin {"store", "free"}
  BY <1>1, Alone
<1>3. NamesOf(c) = Without(online, msg[s].from) /\ userList = First(c)
  BY <1>0, <1>2 DEF Tracks, Accounted
<1>4. p[s] \notin Members(c)
  BY <1>0, <1>1 DEF Working
<1>5. \A i \in DOMAIN c : c[i] \in Nodes /\ c[i] # p[s] /\ name'[c[i]] = name[c[i]]
  BY <1>0, <1>4 DEF Members
<1>6. NamesOf(c)' = NamesOf(c) /\ First(c)' = First(c)
  BY <1>5 DEF NamesOf, First
<1>7. IsChain(c)'
  <2>1. Members(c)' = Members(c) /\ Members(c) \subseteq live
    BY DEF Members, Tracks, IsChain
  <2>2. Members(c)' \subseteq live'
    BY <1>0, <1>4, <2>1
  <2>3. Once(c)' /\ Once(NamesOf(c))'
    BY <1>6 DEF Once, Tracks, IsChain
  <2>4. \A i \in DOMAIN c : next'[c[i]] = IF i = Len(c) THEN Null ELSE c[i + 1]
    BY <1>0 DEF Tracks, IsChain
  <2> QED
    BY <2>2, <2>3, <2>4 DEF IsChain
<1>8. Accounted(c)'
  <2>1. \A t \in Sessions : pc'[t] \notin {"store", "free"}
    BY <1>0, <1>2
  <2>2. NamesOf(c)' = online' /\ userList' = First(c)'
    BY <1>0, <1>3, <1>6
  <2> QED
    BY <2>1, <2>2 DEF Accounted
<1>9. ~Updating(s)'
  BY <1>0 DEF Updating
<1> QED
  BY <1>2, <1>7, <1>8, <1>9 DEF Tracks

\* Nothing the list's proof looks at has changed.
LEMMA StillTracks ==
  ASSUME OneUpdating, NEW c \in Seq(Nodes), Tracks(c),
         UNCHANGED <<userList, live, name, next, pc, op, who, msg, list, p, pre, node, online>>
  PROVE  OneUpdating' /\ Tracks(c)'
<1>1. \A s \in Sessions : Updating(s)' = Updating(s)
  BY DEF Updating
<1>2. IsChain(c)' /\ NamesOf(c)' = NamesOf(c) /\ First(c)' = First(c)
  BY DEF Tracks, IsChain, NamesOf, First, Once, Members
<1>3. Accounted(c)'
  BY <1>2 DEF Tracks, Accounted, Without
<1>4. ASSUME NEW s \in Sessions, Updating(s)' PROVE Working(s, c)'
  <2>1. Working(s, c)
    BY <1>1, <1>4 DEF Tracks
  <2>2. AtTarget(s)' = AtTarget(s)
    BY DEF Target, AtTarget
  <2> QED
    BY <1>2, <2>1, <2>2 DEF Working, LoginWalk, LoginNode, ExitWalk, NamesOf, Members, First
<1> QED
  BY <1>1, <1>2, <1>3, <1>4 DEF Tracks, OneUpdating

-----------------------------------------------------------------------------
(* Chain, the recursive walk over the list.                                *)

\* A set of natural numbers has a least member.
LEMMA LeastNumber ==
  ASSUME NEW T, T \subseteq Nat, T # {}
  PROVE  \E x \in T : \A y \in T : x <= y
<1>1. PICK x \in T : \A y \in T : ~(<<y, x>> \in OpToRel(<, Nat))
  BY NatLessThanWellFounded, WFMin, Zenon
<1>2. \A y \in T : ~(y < x)
  BY <1>1 DEF OpToRel
<1> QED
  BY <1>2

\* A set that has 0 and with every number the next has all of them.
LEMMA Induction ==
  ASSUME NEW P, 0 \in P, \A k \in Nat : k \in P => k + 1 \in P
  PROVE  Nat \subseteq P
<1> SUFFICES ASSUME Nat \ P # {} PROVE FALSE
  OBVIOUS
<1>1. PICK x \in Nat \ P : \A y \in Nat \ P : x <= y
  <2>1. Nat \ P \subseteq Nat
    OBVIOUS
  <2> QED
    BY <2>1, LeastNumber
<1>2. x \in Nat /\ x # 0
  BY <1>1
<1>3. x - 1 \in Nat /\ x - 1 \notin Nat \ P
  BY <1>1, <1>2
<1>4. x \in P
  <2>1. x - 1 \in P
    BY <1>3
  <2>2. (x - 1) + 1 \in P
    BY <1>3, <2>1
  <2> QED
    BY <1>2, <2>2
<1> QED
  BY <1>1, <1>4

\* g is the walk of Chain over the list: the head, then what the last node leads to.
Leads(g) ==
  g = [k \in 0..Cardinality(Nodes) |->
         CASE k = 0 -> userList
           [] k > 0 /\ g[k - 1] = Null -> Null
           [] OTHER -> next[g[k - 1]]]

\* A list of distinct chunks is no longer than there are chunks.
LEMMA Fits ==
  ASSUME NEW c \in Seq(Nodes), Once(c)
  PROVE  Cardinality(Nodes) \in Nat /\ Len(c) <= Cardinality(Nodes)
<1>1. IsFiniteSet(Nodes)
  BY SessionAssumption
<1>2. Cardinality(Nodes) \in Nat
  BY <1>1, FS_CardinalityType
<1>3. Len(c) \in Nat /\ c \in [1..Len(c) -> Nodes]
  OBVIOUS
<1>4. IsFiniteSet(1..Len(c)) /\ Cardinality(1..Len(c)) = Len(c)
  BY <1>3, FS_Interval
<1>5. \A x, y \in 1..Len(c) : c[x] = c[y] => x = y
  BY <1>3 DEF Once
<1>6. ~(Cardinality(Nodes) < Cardinality(1..Len(c)))
  BY <1>1, <1>3, <1>4, <1>5, FS_PigeonHole
<1> QED
  BY <1>2, <1>3, <1>4, <1>6

\* The walk visits the chunks of c and then stays at the end.
LEMMA LeadsIs ==
  ASSUME TypeOK, NEW c \in Seq(Nodes), IsChain(c), userList = First(c), NEW g, Leads(g)
  PROVE  \A k \in 0..Cardinality(Nodes) : g[k] = IF k < Len(c) THEN c[k + 1] ELSE Null
<1> DEFINE N == Cardinality(Nodes)
           P == {k \in Nat : k <= N => g[k] = IF k < Len(c) THEN c[k + 1] ELSE Null}
<1>1. N \in Nat /\ Len(c) \in Nat /\ DOMAIN c = 1..Len(c)
  BY Fits DEF IsChain
<1>2. \A k \in 0..N : g[k] = CASE k = 0 -> userList
                               [] k > 0 /\ g[k - 1] = Null -> Null
                               [] OTHER -> next[g[k - 1]]
  BY DEF Leads
<1>3. \A i \in 1..Len(c) : /\ c[i] \in Nodes /\ c[i] # Null
                           /\ next[c[i]] = IF i = Len(c) THEN Null ELSE c[i + 1]
  <2>1. \A i \in 1..Len(c) : c[i] \in Nodes
    BY <1>1
  <2>2. \A i \in 1..Len(c) : next[c[i]] = IF i = Len(c) THEN Null ELSE c[i + 1]
    BY <1>1 DEF IsChain
  <2> QED
    BY <2>1, <2>2, SessionAssumption
<1> HIDE DEF N
<1>4. 0 \in P
  <2>1. 0 \in 0..N
    BY <1>1
  <2>2. g[0] = First(c)
    BY <1>2, <2>1
  <2> QED
    BY <1>1, <2>2 DEF First
<1>5. ASSUME NEW k \in Nat, k \in P PROVE k + 1 \in P
  <2> SUFFICES ASSUME k + 1 <= N
               PROVE  g[k + 1] = IF k + 1 < Len(c) THEN c[(k + 1) + 1] ELSE Null
    OBVIOUS
  <2>1. k + 1 \in 0..N /\ k <= N /\ k + 1 # 0 /\ k + 1 > 0 /\ (k + 1) - 1 = k
    BY <1>1
  <2>2. g[k] = IF k < Len(c) THEN c[k + 1] ELSE Null
    BY <1>5, <2>1
  <2>3. g[k + 1] = IF g[k] = Null THEN Null ELSE next[g[k]]
    BY <1>2, <2>1
  <2>4. CASE k < Len(c)
    <3>1. k + 1 \in 1..Len(c) /\ (k + 1 = Len(c) <=> ~(k + 1 < Len(c)))
      <4>1. k \in Nat /\ Len(c) \in Nat /\ k < Len(c)
        BY <1>1, <2>4
      <4> HIDE DEF P
      <4> QED
        BY <4>1
    <3>2. g[k] = c[k + 1] /\ g[k] # Null
      BY <1>3, <2>2, <2>4, <3>1
    <3>3. g[k + 1] = IF k + 1 = Len(c) THEN Null ELSE c[(k + 1) + 1]
      BY <1>3, <2>3, <3>1, <3>2
    <3> QED
      BY <3>1, <3>3
  <2>5. CASE ~(k < Len(c))
    <3>1. ~(k + 1 < Len(c))
      BY <1>1, <2>5
    <3> QED
      BY <2>2, <2>3, <2>5, <3>1
  <2> QED
    BY <2>4, <2>5
<1>6. Nat \subseteq P
  <2> HIDE DEF P
  <2> QED
    BY <1>4, <1>5, Induction
<1>7. ASSUME NEW k \in 0..N PROVE g[k] = IF k < Len(c) THEN c[k + 1] ELSE Null
  <2>1. k \in Nat /\ k <= N
    BY <1>1, <1>7
  <2> QED
    BY <1>6, <2>1
<1> QED
  BY <1>7 DEF N

\* Chain spells the names of the linked chunks.
LEMMA ChainIs ==
  ASSUME TypeOK, NEW c \in Seq(Nodes), IsChain(c), userList = First(c)
  PROVE  Chain = NamesOf(c)
<1> DEFINE N == Cardinality(Nodes)
           g == [k \in 0..N |-> IF k < Len(c) THEN c[k + 1] ELSE Null]
           f == CHOOSE h : Leads(h)
           len == Cardinality({k \in 0..N : f[k] # Null})
<1>1. N \in Nat /\ Len(c) \in Nat /\ DOMAIN c = 1..Len(c) /\ Len(c) <= N
  BY Fits DEF IsChain
<1>2. Chain = [k \in 1..len |-> name[f[k - 1]]]
  BY DEF Chain, Leads
<1>3. Leads(g)
  <2>1. \A i \in 1..Len(c) : /\ c[i] \in Nodes /\ c[i] # Null
                             /\ next[c[i]] = IF i = Len(c) THEN Null ELSE c[i + 1]
    <3>1. \A i \in 1..Len(c) : c[i] \in Nodes
      BY <1>1
    <3>2. \A i \in 1..Len(c) : next[c[i]] = IF i = Len(c) THEN Null ELSE c[i + 1]
      BY <1>1 DEF IsChain
    <3> QED
      BY <3>1, <3>2, SessionAssumption
  <2>2. ASSUME NEW k \in 0..N
        PROVE  g[k] = CASE k = 0 -> userList
                        [] k > 0 /\ g[k - 1] = Null -> Null
                        [] OTHER -> next[g[k - 1]]
    <3>0. k \in Nat /\ k <= N
      BY <1>1
    <3>1. CASE k = 0
      BY <3>1, <1>1 DEF First
    <3>2. CASE k # 0
      <4>1. k > 0 /\ k - 1 \in 0..N /\ (k - 1) + 1 = k
        BY <1>1, <3>0, <3>2
      <4>2. g[k - 1] = IF k - 1 < Len(c) THEN c[k] ELSE Null
        BY <4>1
      <4>3. CASE k - 1 < Len(c)
        <5>1. k \in 1..Len(c) /\ (k = Len(c) <=> ~(k < Len(c)))
          <6>1. k \in Nat /\ Len(c) \in Nat /\ k # 0 /\ k - 1 < Len(c)
            BY <1>1, <3>0, <3>2, <4>3
          <6> HIDE DEF g, f, len
          <6> QED
            BY <6>1
        <5>2. g[k - 1] = c[k] /\ g[k - 1] # Null /\ next[c[k]] = IF k = Len(c) THEN Null ELSE c[k + 1]
          BY <2>1, <4>2, <4>3, <5>1
        <5>3. g[k] = IF k < Len(c) THEN c[k + 1] ELSE Null
          OBVIOUS
        <5> HIDE DEF g
        <5> QED
          BY <3>2, <4>1, <5>1, <5>2, <5>3
      <4>4. CASE ~(k - 1 < Len(c))
        <5>1. ~(k < Len(c))
          BY <1>1, <3>0, <4>4
        <5>2. g[k] = Null /\ g[k - 1] = Null
          BY <4>2, <4>4, <5>1
        <5> HIDE DEF g
        <5> QED
          BY <3>2, <4>1, <5>2
      <4> QED
        BY <4>3, <4>4
    <3> QED
      BY <3>1, <3>2
  <2>3. g = [k \in 0..N |-> g[k]]
    OBVIOUS
  <2> HIDE DEF g
  <2> QED
    BY <2>2, <2>3 DEF Leads
<1>4. Leads(f)
  BY <1>3
<1> HIDE DEF f, g
<1>5. \A k \in 0..N : f[k] = IF k < Len(c) THEN c[k + 1] ELSE Null
  BY <1>4, LeadsIs
<1>6. \A i \in 1..Len(c) : c[i] # Null
  BY <1>1, SessionAssumption
<1>7. {k \in 0..N : f[k] # Null} = 0..(Len(c) - 1)
  <2>1. ASSUME NEW k \in 0..N, f[k] # Null PROVE k \in 0..(Len(c) - 1)
    BY <1>1, <1>5, <2>1
  <2>2. ASSUME NEW k \in 0..(Len(c) - 1) PROVE k \in 0..N /\ f[k] # Null
    <3>1. k \in 0..N /\ k < Len(c) /\ k + 1 \in 1..Len(c)
      BY <1>1, <2>2
    <3> QED
      BY <1>5, <1>6, <3>1
  <2> QED
    BY <2>1, <2>2
<1>8. len = Len(c)
  <2>1. Cardinality(0..(Len(c) - 1)) = IF 0 > Len(c) - 1 THEN 0 ELSE (Len(c) - 1) - 0 + 1
    <3>1. 0 \in Int /\ Len(c) - 1 \in Int
      BY <1>1
    <3> QED
      BY <3>1, FS_Interval
  <2>2. Cardinality(0..(Len(c) - 1)) = Len(c)
    BY <1>1, <2>1
  <2> QED
    BY <1>7, <2>2
<1> HIDE DEF len
<1>9. ASSUME NEW k \in 1..Len(c) PROVE f[k - 1] = c[k]
  <2>1. k - 1 \in 0..N /\ k - 1 < Len(c) /\ (k - 1) + 1 = k
    BY <1>1, <1>9
  <2> QED
    BY <1>5, <2>1
<1>10. Chain = [k \in 1..Len(c) |-> name[c[k]]]
  BY <1>2, <1>8, <1>9
<1> QED
  BY <1>1, <1>10 DEF NamesOf

-----------------------------------------------------------------------------
\* At the start the list and the logins are empty.
LEMMA InitTracks == Init => OpInv /\ TrackInv
<1> SUFFICES ASSUME Init PROVE OpInv /\ TrackInv
  OBVIOUS
<1>1. \A s \in Sessions : pc[s] = "idle" /\ ~Updating(s)
  BY DEF Init, Updating
<1>2. OpInv /\ OneUpdating
  BY <1>1 DEF OpInv, OneUpdating
<1> DEFINE c == <<>>
<1>3. c \in Seq(Nodes) /\ DOMAIN c = {} /\ NamesOf(c) = <<>>
  BY DEF NamesOf
<1>4. IsChain(c)
  BY <1>3 DEF IsChain, Once, Members
<1>5. online = <<>> /\ userList = Null
  BY Zenon DEF Init
<1>6. Accounted(c)
  BY <1>1, <1>3, <1>5 DEF Accounted, First
<1>7. Tracks(c)
  BY <1>1, <1>4, <1>6 DEF Tracks
<1> QED
  BY <1>2, <1>3, <1>7 DEF TrackInv

\* One step of a session, from a list that tracks the logins.
LEMMA SessionTracks ==
  ASSUME Inv, OpInv, OneUpdating, NEW c \in Seq(Nodes), Tracks(c), NEW s \in Sessions,
         Thread(s) \/ User(s), History, ~raced', ~headGone'
  PROVE  OneUpdating' /\ \E d \in Seq(Nodes) : Tracks(d)'
<1>1. Others(s)
  BY OthersStay
<1>2. /\ OneUpdating'
      /\ ~(pc[s] = "unlink" /\ pc'[s] = "free" /\ p[s] = list[s])
      /\ pc[s] = "store" /\ pc'[s] = "reply" => online' = Append(online, who[s])
      /\ pc[s] = "free" /\ pc'[s] = "close1" => online' = Without(online, msg[s].from)
      /\ pc[s] \notin {"store", "free"} => online' = online
  BY <1>1, HistoryFacts
<1> SUFFICES \E d \in Seq(Nodes) : Tracks(d)'
  BY <1>2
<1> USE DEF Inv
<1>3. CASE Walk(s) \/ Found(s) \/ Missed(s)
  <2>1. online' = online
    BY <1>2, <1>3 DEF Walk, Found, Missed
  <2> QED
    BY <1>1, <1>3, <2>1, WalkTracks
<1>4. CASE LoginCheck(s) \/ Seek(s)
  <2>1. online' = online
    BY <1>2, <1>4 DEF LoginCheck, Seek
  <2> QED
    BY <1>1, <1>4, <2>1, LoginTracks
<1>5. CASE \/ \E r \in {"register", "login"}, u \in Names, w \in Passwords : Start(s, r, u, w)
           \/ RecvFails(s)
           \/ \E k \in ChatKinds, u \in Names \cup {Nobody} : RecvMessage(s, k, u)
  <2>1. online' = online
    BY <1>2, <1>5 DEF Start, RecvFails, RecvMessage
  <2> QED
    BY <1>1, <1>2, <1>5, <2>1, BeginTracks
<1>6. CASE \/ RegisterCheck(s) \/ RegisterInsert(s) \/ Reply(s) \/ RecvCall(s) \/ RecvEnd(s)
           \/ GroupStart(s) \/ GroupSend(s) \/ GroupDone(s) \/ PersonalSend(s) \/ Record(s)
           \/ ViewRecords(s) \/ CloseSock(s)
  <2>1. online' = online
    BY <1>2, <1>6 DEF RegisterCheck, RegisterInsert, Reply, RecvCall, RecvEnd, GroupStart,
       GroupSend, GroupDone, PersonalSend, Record, ViewRecords, CloseSock
  <2> QED
    BY <1>1, <1>6, <2>1, IdleTracks
<1>7. ASSUME NEW n \in Nodes, NewNode(s, n) PROVE \E d \in Seq(Nodes) : Tracks(d)'
  <2>1. online' = online
    BY <1>2, <1>7 DEF NewNode
  <2> QED
    BY <1>1, <1>7, <2>1, NewNodeTracks
<1>8. CASE Link(s)
  <2>1. online' = online
    BY <1>2, <1>8 DEF Link
  <2> QED
    BY <1>1, <1>8, <2>1, LinkTracks
<1>9. CASE Store(s)
  <2>1. pc[s] = "store" /\ pc'[s] = "reply"
    BY <1>9 DEF Store, Answer, Goto, TypeOK
  <2> QED
    BY <1>1, <1>2, <1>9, <2>1, StoreTracks
<1>10. CASE Unlink(s)
  <2>1. pc[s] = "unlink" /\ pc'[s] = "free"
    BY <1>10 DEF Unlink, Goto, TypeOK
  <2>2. online' = online /\ p[s] # list[s]
    BY <1>2, <2>1
  <2> QED
    BY <1>1, <1>10, <2>2, UnlinkTracks
<1>11. CASE Free(s)
  <2>1. pc[s] = "free" /\ pc'[s] = "close1"
    BY <1>11 DEF Free, Goto, TypeOK
  <2> QED
    BY <1>1, <1>2, <1>11, <2>1, FreeTracks
<1>12. CASE Vanish(s)
  <2>1. UNCHANGED <<userList, live, name, next, pc, op, who, msg, list, p, pre, node>>
    BY <1>12 DEF Vanish, heapVars, idVars, recvVars, localVars
  <2>3. online' = online
    <3>1. ~\E t \in Sessions : pc[t] = "store" /\ pc'[t] = "reply"
      BY <2>1
    <3>2. ~\E t \in Sessions : pc[t] = "free" /\ pc'[t] = "close1"
      BY <2>1
    <3> QED
      BY <3>1, <3>2, Zenon DEF History
  <2> QED
    BY <2>1, <2>3, StillTracks
<1> QED
  BY <1>3, <1>4, <1>5, <1>6, <1>7, <1>8, <1>9, <1>10, <1>11, <1>12 DEF Thread, User

\* Every step keeps the list in step with the logins, or spoils the condition.
LEMMA StepTracks == Inv /\ OpInv /\ TrackInv /\ [Next]_vars => OpInv' /\ TrackInv'
<1> SUFFICES ASSUME Inv, OpInv, TrackInv, [Next]_vars PROVE OpInv' /\ TrackInv'
  OBVIOUS
<1>1. ASSUME NEW s \in Sessions, Thread(s) \/ User(s), History PROVE OpInv' /\ TrackInv'
  <2>1. OpInv'
    BY <1>1, OpStep
  <2>2. ASSUME ~raced', ~headGone' PROVE TrackInv'
    <3>1. ~raced /\ ~headGone
      BY <1>1, <2>2, OthersStay, HistoryFacts
    <3>2. PICK c \in Seq(Nodes) : OneUpdating /\ Tracks(c)
      BY <3>1, Zenon DEF TrackInv
    <3>3. OneUpdating' /\ \E d \in Seq(Nodes) : Tracks(d)'
      BY <1>1, <2>2, <3>2, SessionTracks
    <3> QED
      BY <3>3, Zenon DEF TrackInv
  <2>3. CASE raced' \/ headGone'
    BY <2>1, <2>3, Zenon DEF TrackInv
  <2> QED
    BY <2>1, <2>2, <2>3
<1>2. ASSUME UNCHANGED <<userList, live, name, next, pc, op, who, msg, list, p, pre, node>>,
             online' = online, raced' = raced, headGone' = headGone
      PROVE  OpInv' /\ TrackInv'
  <2>1. OpInv'
    BY <1>2 DEF OpInv
  <2>2. CASE raced \/ headGone
    BY <1>2, <2>1, <2>2, Zenon DEF TrackInv
  <2>3. CASE ~raced /\ ~headGone
    <3>1. PICK c \in Seq(Nodes) : OneUpdating /\ Tracks(c)
      BY <2>1, <2>3, Zenon DEF TrackInv
    <3>2. OneUpdating' /\ Tracks(c)'
      BY <1>2, <3>1, StillTracks
    <3> QED
      BY <2>1, <3>2, Zenon DEF TrackInv
  <2> QED
    BY <2>1, <2>2, <2>3
<1>3. CASE Killed /\ UNCHANGED histVars
  <2>1. UNCHANGED <<userList, live, name, next, pc, op, who, msg, list, p, pre, node>>
    BY <1>3, Zenon DEF Killed, heapVars, idVars, recvVars, localVars
  <2>2. online' = online /\ raced' = raced /\ headGone' = headGone
    BY <1>3, Zenon DEF histVars
  <2> QED
    BY <1>2, <2>1, <2>2, Zenon
<1>4. CASE UNCHANGED vars
  <2>1. UNCHANGED <<userList, live, name, next, pc, op, who, msg, list, p, pre, node>>
    BY <1>4, Zenon DEF vars, heapVars, idVars, recvVars, localVars
  <2>2. online' = online /\ raced' = raced /\ headGone' = headGone
    BY <1>4, Zenon DEF vars, histVars
  <2> QED
    BY <1>2, <2>1, <2>2, Zenon
<1> QED
  BY <1>1, <1>3, <1>4, Zenon DEF Next

\* Between updates the list that is tracked is the one Chain walks.
LEMMA TracksIsEnough == Inv /\ OpInv /\ TrackInv => ListTracksLogins
<1> SUFFICES ASSUME Inv, OpInv, TrackInv, ~raced, ~headGone,
                    \A s \in Sessions : ~Updating(s)
             PROVE  Chain = online /\ \A i, j \in DOMAIN online : online[i] = online[j] => i = j
  BY Zenon DEF ListTracksLogins
<1>1. PICK c \in Seq(Nodes) : Tracks(c)
  BY Zenon DEF TrackInv
<1>2. \A s \in Sessions : pc[s] \notin {"store", "free"}
  BY AtWork
<1>3. NamesOf(c) = online /\ userList = First(c) /\ IsChain(c)
  BY <1>1, <1>2 DEF Tracks, Accounted
<1>4. Chain = NamesOf(c)
  BY <1>3, ChainIs DEF Inv
<1>5. Once(NamesOf(c))
  BY <1>3 DEF IsChain
<1> QED
  BY <1>3, <1>4, <1>5 DEF Once

\* While logins and exits do not overlap and the oldest user stays, the list that
\* insertNode and deleteNode leave is exactly the users logged in, in order.
THEOREM ListAlwaysTracks == Spec => []ListTracksLogins
<1>1. Init => Inv /\ OpInv /\ TrackInv
  BY InitInv, InitTracks
<1>2. Inv /\ OpInv /\ TrackInv /\ [Next]_vars => (Inv /\ OpInv /\ TrackInv)'
  BY StepInv, StepTracks
<1> QED
  BY <1>1, <1>2, TracksIsEnough, PTL DEF Spec
=============================================================================
