--------------------------- MODULE EchoScanProofs ---------------------------
(***************************************************************************)
(* Proofs about EchoScan, for any clients, lines, buffer and table.        *)
(***************************************************************************)
EXTENDS EchoScan, TLAPS, SequenceTheorems, FiniteSetTheorems

\* Where the pass stands: somebody waits for accept, or the entry is occupied and marked.
PlaceInv ==
  /\ pc = "accept" => backlog # <<>>
  /\ pc \in {"read", "write"} => i \in Due(i, marked, client, maxi)

\* Who is connected, and who waits: without doubles.
RosterInv ==
  /\ \A c \in Clients : cpc[c] = "away" <=> link[c] = "none"
  /\ \A k \in DOMAIN backlog : Live(backlog[k])
  /\ \A k, l \in DOMAIN backlog : backlog[k] = backlog[l] => k = l

\* The entries still to be read in the pass: all but i once i has been read.
Ahead(x) == x > i \/ pc = "read"

\* Every marked entry still ahead was reported, and nready counts them.
AllReported(D) ==
  /\ nready = Cardinality(D)
  /\ \A x \in D : Ahead(x) => Readable(client[x])

\* The last one was not: it is new and its mark is what was in the memory.
LastIsNew(D) ==
  /\ api = "poll" /\ maxi \in D
  /\ nready = Cardinality(D) - 1
  /\ \A x \in D : x # maxi /\ Ahead(x) => Readable(client[x])
  /\ i = maxi => \A e \in Entries : e < maxi => Occupied(e)

PassInv ==
  /\ api = "select" => \A e \in Entries : e > maxi => marked[e] = 0
  /\ pc = "accept" =>
       /\ nready = Cardinality(Due(1, marked, client, maxi)) + 1
       /\ \A e \in Entries : e <= maxi /\ marked[e] = 1 => IsReady(e)
  /\ pc \in {"read", "write"} =>
       \/ AllReported(Due(i, marked, client, maxi))
       \/ LastIsNew(Due(i, marked, client, maxi))

\* What was read and not written back, in order.
Owed(c) == [j \in 1..(taken[c] - Len(back[c])) |-> Piece(c, Len(back[c]) + j)]
Writing(c) == pc = "write" /\ client[i] = c

EchoInv ==
  \A c \in Clients :
    /\ Len(back[c]) <= taken[c] /\ taken[c] <= arrived[c] /\ arrived[c] <= out[c]
    /\ link[c] \notin {"spent", "closed"} =>
         \/ Writing(c) /\ buf = Owed(c) /\ Len(back[c]) < taken[c]
         \/ ~Writing(c) /\ taken[c] = Len(back[c])
Inv == TypeOK /\ PlaceInv /\ RosterInv /\ TableCovers /\ PassInv /\ EchoInv

-----------------------------------------------------------------------------
(* The pass.                                                               *)

\* The pass goes back to waiting or on to the first of the entries due.
LEMMA PassGoes ==
  ASSUME NEW e, NEW m, NEW t, NEW last, PassFrom(e, m, t, last)
  PROVE  \/ pc' = "wait" /\ i' = 0
         \/ /\ pc' = "read" /\ i' \in Entries
            /\ i' \in Due(e, m, t, last)
            /\ \A y \in Due(e, m, t, last) : i' <= y
  BY DEF PassFrom, Due

\* The entries due from the first one on are the entries due.
LEMMA DueFromFirst ==
  ASSUME NEW e \in Int, NEW m, NEW t, NEW last, NEW x \in Due(e, m, t, last),
         \A y \in Due(e, m, t, last) : x <= y
  PROVE  Due(x, m, t, last) = Due(e, m, t, last) /\ x \in Int
<1>1. x \in Int /\ x >= e
  BY ScanAssumption DEF Due, Entries
<1> QED
  BY <1>1, ScanAssumption DEF Due, Entries

\* One entry less after the one the pass is at.
LEMMA DueAfter ==
  ASSUME NEW t, i \in Due(i, marked, client, maxi),
         \A y \in Entries : y # i => t[y] = client[y]
  PROVE  /\ Due(i + 1, marked, t, maxi) = Due(i, marked, client, maxi) \ {i}
         /\ IsFiniteSet(Due(i, marked, client, maxi))
         /\ Cardinality(Due(i, marked, client, maxi)) \in Nat
         /\ Cardinality(Due(i + 1, marked, t, maxi)) = Cardinality(Due(i, marked, client, maxi)) - 1
<1> DEFINE D == Due(i, marked, client, maxi)
<1>1. i \in Int
  BY ScanAssumption DEF Due, Entries
<1>2. Due(i + 1, marked, t, maxi) = D \ {i}
  BY <1>1, ScanAssumption DEF Due, Entries
<1>3. IsFiniteSet(Entries)
  BY FS_Interval, ScanAssumption DEF Entries
<1>4. IsFiniteSet(D)
  BY <1>3, FS_Subset DEF Due
<1>5. Cardinality(D) \in Nat
  BY <1>4, FS_CardinalityType
<1> QED
  BY <1>2, <1>4, <1>5, FS_RemoveElement

\* The end of a turn of the loop: wait, or the next entry due.
LEMMA OnwardsGoes ==
  ASSUME NEW t, i \in Entries, nready \in Int, Onwards(t)
  PROVE  /\ nready' = nready - 1
         /\ \/ pc' = "wait" /\ i' = 0
            \/ /\ pc' = "read" /\ i' \in Entries /\ nready - 1 > 0
               /\ i' \in Due(i + 1, marked, t, maxi)
               /\ \A y \in Due(i + 1, marked, t, maxi) : i' <= y
<1>1. CASE nready - 1 <= 0
  BY <1>1 DEF Onwards
<1>2. CASE ~(nready - 1 <= 0)
  <2>1. PassFrom(i + 1, marked, t, maxi) /\ nready' = nready - 1
    BY <1>2 DEF Onwards
  <2>2. nready - 1 > 0
    BY <1>2
  <2> QED
    BY <2>1, <2>2, PassGoes
<1> QED
  BY <1>1, <1>2
-----------------------------------------------------------------------------
(* Types.                                                                  *)

\* What the pieces read are.
LEMMA PiecesRead ==
  ASSUME TypeOK, NEW c \in Clients, Unread(c) > 0, Len(back[c]) <= taken[c]
  PROVE  /\ ReadLen(c) \in Nat \ {0} /\ ReadLen(c) <= Unread(c)
         /\ ReadPieces(c) \in Seq(Clients \X Nat) /\ Len(ReadPieces(c)) = ReadLen(c)
         /\ \A j \in 1..ReadLen(c) : ReadPieces(c)[j] = Piece(c, taken[c] + j)
<1>1. taken[c] \in Nat /\ arrived[c] \in Nat /\ BufLen \in Nat \ {0}
  BY PeersAssumption DEF TypeOK, PeersTypeOK
<1>2. ReadLen(c) \in Nat \ {0} /\ ReadLen(c) <= Unread(c)
  BY <1>1 DEF ReadLen, Unread
<1>3. \A j \in 1..ReadLen(c) : Piece(c, taken[c] + j) \in Clients \X Nat
  BY <1>1, <1>2 DEF Piece
<1>4. ReadPieces(c) \in [1..ReadLen(c) -> Clients \X Nat]
  BY <1>3 DEF ReadPieces
<1>5. ReadPieces(c) \in Seq(Clients \X Nat) /\ Len(ReadPieces(c)) = ReadLen(c)
  BY <1>2, <1>4
<1> QED
  BY <1>2, <1>5 DEF ReadPieces

\* The step keeps the types of the clients and connections.
LEMMA PeerTypes ==
  ASSUME TypeOK, NEW c \in Clients, Connect(c) \/ SendLine(c) \/ ReadPiece(c) \/ Leave(c) \/ Incoming(c)
  PROVE  PeersTypeOK'
<1>0. out[c] + LineLen[c] \in Nat /\ seen[c] + 1 \in Nat /\ arrived[c] + 1 \in Nat
  <2>1. LineLen[c] \in Nat
    BY PeersAssumption
  <2>2. out[c] \in Nat /\ seen[c] \in Nat /\ arrived[c] \in Nat
    BY DEF TypeOK, PeersTypeOK
  <2> QED
    BY <2>1, <2>2
<1> USE DEF TypeOK, PeersTypeOK
<1>1. CASE Connect(c)
  BY <1>1, AppendProperties DEF Connect
<1>2. CASE SendLine(c)
  <2>1. out' \in [Clients -> Nat]
    BY <1>0, <1>2 DEF SendLine
  <2> QED
    BY <2>1, <1>2 DEF SendLine
<1>3. CASE ReadPiece(c)
  <2>1. seen' \in [Clients -> Nat]
    BY <1>0, <1>3 DEF ReadPiece
  <2>2. cpc' \in [Clients -> {"away", "fgets", "readline", "gone"}]
    BY <1>3 DEF ReadPiece
  <2> QED
    BY <2>1, <2>2, <1>3 DEF ReadPiece
<1>4. CASE Leave(c)
  BY <1>4 DEF Leave
<1>5. CASE Arrive(c)
  <2>1. arrived' \in [Clients -> Nat]
    BY <1>0, <1>5 DEF Arrive
  <2> QED
    BY <2>1, <1>5 DEF Arrive
<1>6. CASE EndArrives(c)
  BY <1>6 DEF EndArrives
<1>7. CASE RstArrives(c)
  BY <1>7 DEF RstArrives
<1> QED
  BY <1>1, <1>2, <1>3, <1>4, <1>5, <1>6, <1>7 DEF Incoming

\* The client at the entry the pass is at.
LEMMA AtEntry ==
  ASSUME TypeOK, PlaceInv, pc \in {"read", "write"}
  PROVE  /\ i \in Entries /\ i \in Int /\ client[i] \in Clients /\ client[i] # Free
         /\ marked[i] = 1 /\ i <= maxi /\ nready \in Int /\ maxi \in Int
<1>1. i \in Entries /\ client[i] # Free /\ marked[i] = 1 /\ i <= maxi
  BY DEF PlaceInv, Due
<1>2. client[i] \in Clients
  BY <1>1 DEF TypeOK
<1>4. nready \in Int /\ maxi \in 0..Slots
  BY DEF TypeOK
<1>5. maxi \in Int
  BY <1>4, ScanAssumption
<1>3. i \in Int
  BY <1>1, ScanAssumption DEF Entries
<1> QED
  BY <1>1, <1>2, <1>3, <1>4, <1>5

\* The end of a turn keeps the types of what it changes.
LEMMA OnwardsTypes ==
  ASSUME TypeOK, PlaceInv, pc \in {"read", "write"}, NEW t, Onwards(t)
  PROVE  pc' \in {"wait", "read"} /\ nready' \in Int /\ i' \in 0..Slots
<1>1. nready \in Int /\ i \in Entries
  BY AtEntry
<1> QED
  BY <1>1, OnwardsGoes, ScanAssumption DEF Entries

\* Types are kept by every step of the server.
LEMMA ServerTypes ==
  ASSUME Inv, Server PROVE TypeOK'
<1> USE DEF Inv
<1>0. TypeOK /\ PlaceInv
  OBVIOUS
<1>1. CASE Wait
  <2>1. marked' \in [Entries -> {0, 1}]
    BY <1>1 DEF Wait, Mark, TypeOK
  <2>2. nready' \in Int
    <3>1. IsFiniteSet(Entries)
      BY FS_Interval, ScanAssumption DEF Entries
    <3>2. IsFiniteSet({e \in Entries : e <= maxi /\ IsReady(e)})
      BY <3>1, FS_Subset
    <3>3. Cardinality({e \in Entries : e <= maxi /\ IsReady(e)}) \in Nat
      BY <3>2, FS_CardinalityType
    <3> QED
      BY <3>3, <1>1 DEF Wait
  <2>3. pc' \in {"accept", "wait", "read"} /\ i' \in 0..Slots
    <3>1. CASE backlog # <<>>
      BY <1>1, <3>1, ScanAssumption DEF Wait
    <3>2. CASE ~(backlog # <<>>)
      BY <1>1, <3>2, PassGoes, ScanAssumption DEF Wait, Entries
    <3> QED
      BY <3>1, <3>2
  <2> QED
    BY <1>1, <2>1, <2>2, <2>3 DEF Wait, TypeOK, PeersTypeOK, peerVars
<1>2. ASSUME NEW e \in Entries, Accept(e) PROVE TypeOK'
  <2>1. backlog # <<>> /\ backlog \in Seq(Clients)
    BY <1>2 DEF Accept, PlaceInv, TypeOK, PeersTypeOK
  <2>2. Head(backlog) \in Clients /\ Tail(backlog) \in Seq(Clients)
    BY <2>1, HeadTailProperties
  <2>3. backlog' \in Seq(Clients) /\ client' \in [Entries -> Clients \cup {Free}]
    BY <2>2, <1>2 DEF Accept, TypeOK
  <2>4. maxi' \in 0..Slots /\ nready' \in Int
    <3>1. nready \in Int /\ maxi \in 0..Slots /\ e \in 1..Slots /\ Slots \in Nat
      BY ScanAssumption DEF TypeOK, Entries
    <3>2. nready' = nready - 1 /\ maxi' = IF e > maxi THEN e ELSE maxi
      BY <1>2 DEF Accept, NewMaxi
    <3> QED
      BY <3>1, <3>2
  <2>5. pc' \in {"wait", "read"} /\ i' \in 0..Slots
    BY <1>2, PassGoes, ScanAssumption DEF Accept, Entries
  <2> QED
    BY <1>2, <2>3, <2>4, <2>5 DEF Accept, TypeOK, PeersTypeOK
<1>3. CASE AcceptFails
  BY <1>3 DEF AcceptFails, TypeOK, PeersTypeOK, peerVars
<1>4. CASE ReadSome
  <2>1. client[i] \in Clients /\ Unread(client[i]) > 0
    BY <1>4, AtEntry DEF ReadSome
  <2>2. /\ ReadPieces(client[i]) \in Seq(Clients \X Nat) /\ ReadLen(client[i]) \in Nat
    BY <2>1, PiecesRead DEF EchoInv
  <2>3. taken[client[i]] + ReadLen(client[i]) \in Nat
    <3>1. taken[client[i]] \in Nat
      BY <2>1 DEF TypeOK, PeersTypeOK
    <3> QED
      BY <3>1, <2>2
  <2>4. taken' \in [Clients -> Nat]
    BY <1>4, <2>1, <2>3 DEF ReadSome, TypeOK, PeersTypeOK
  <2> QED
    BY <1>4, <2>2, <2>4 DEF ReadSome, TypeOK, PeersTypeOK
<1>5. CASE ReadEnds
  <2>1. client[i] \in Clients /\ i \in Entries
    BY <1>5, AtEntry DEF ReadEnds
  <2>2. pc' \in {"wait", "read"} /\ nready' \in Int /\ i' \in 0..Slots
    BY <1>5, OnwardsTypes DEF ReadEnds
  <2>3. link' \in [Clients -> {"none", "open", "fin", "reset", "broken", "spent", "closed"}]
    BY <1>5, <2>1 DEF ReadEnds, Close, TypeOK, PeersTypeOK
  <2>4. client' \in [Entries -> Clients \cup {Free}]
    BY <1>5 DEF ReadEnds, TypeOK
  <2>5. buf' \in Seq(Clients \X Nat)
    BY <1>5, EmptySeq DEF ReadEnds
  <2> QED
    BY <1>5, <2>2, <2>3, <2>4, <2>5 DEF ReadEnds, TypeOK, PeersTypeOK
<1>6. CASE WriteBack
  <2>1. client[i] \in Clients /\ i \in Entries
    BY <1>6, AtEntry DEF WriteBack
  <2>2. pc' \in {"wait", "read"} /\ nready' \in Int /\ i' \in 0..Slots
    BY <1>6, OnwardsTypes DEF WriteBack
  <2>3. back[client[i]] \in Seq(Clients \X Nat) /\ buf \in Seq(Clients \X Nat)
    BY <2>1 DEF TypeOK, PeersTypeOK
  <2>4. back[client[i]] \o buf \in Seq(Clients \X Nat)
    BY <2>3, ConcatProperties
  <2>5. back' \in [Clients -> Seq(Clients \X Nat)]
    BY <1>6, <2>1, <2>4 DEF WriteBack, Written, TypeOK, PeersTypeOK
  <2> QED
    BY <1>6, <2>2, <2>5 DEF WriteBack, TypeOK, PeersTypeOK
<1>7. CASE WriteFails
  <2>1. link' \in [Clients -> {"none", "open", "fin", "reset", "broken", "spent", "closed"}]
    BY <1>7 DEF WriteFails, TypeOK, PeersTypeOK
  <2>2. i' \in 0..Slots /\ pc' = "wait"
    BY <1>7, ScanAssumption DEF WriteFails
  <2> QED
    BY <1>7, <2>1, <2>2 DEF WriteFails, TypeOK, PeersTypeOK
<1>8. CASE WriteKills
  BY <1>8 DEF WriteKills, TypeOK, PeersTypeOK, peerVars
<1> QED
  BY <1>1, <1>2, <1>3, <1>4, <1>5, <1>6, <1>7, <1>8 DEF Server

\* Types are kept.
LEMMA TypeStep == Inv /\ [Next]_vars => TypeOK'
<1> SUFFICES ASSUME Inv, [Next]_vars PROVE TypeOK'
  OBVIOUS
<1>1. CASE Server
  BY <1>1, ServerTypes
<1>2. ASSUME NEW c \in Clients, Peer(c) PROVE TypeOK'
  <2>1. PeersTypeOK'
    BY <1>2, PeerTypes DEF Peer, Inv
  <2> QED
    BY <1>2, <2>1 DEF Peer, Inv, TypeOK, scanVars
<1>3. CASE UNCHANGED vars
  BY <1>3 DEF Inv, TypeOK, PeersTypeOK, vars, peerVars, scanVars
<1> QED
  BY <1>1, <1>2, <1>3 DEF Next

-----------------------------------------------------------------------------
(* The table and the backlog.                                              *)

\* The pass stands at an entry of somebody, and accept has somebody to accept.
LEMMA PlaceStep == Inv /\ [Next]_vars => PlaceInv'
<1> SUFFICES ASSUME Inv, [Next]_vars PROVE PlaceInv'
  OBVIOUS
<1> USE DEF Inv
<1>1. CASE Wait
  <2>1. CASE backlog # <<>>
    BY <1>1, <2>1 DEF Wait, PlaceInv, peerVars
  <2>2. CASE ~(backlog # <<>>)
    <3>1. PassFrom(1, marked', client, maxi)
      BY <1>1, <2>2 DEF Wait
    <3>2. pc' = "read" => i' \in Due(i', marked', client, maxi)
      BY <3>1, PassGoes, DueFromFirst
    <3> QED
      BY <1>1, <3>1, <3>2, PassGoes DEF Wait, PlaceInv
  <2> QED
    BY <2>1, <2>2
<1>2. ASSUME NEW e \in Entries, Accept(e) PROVE PlaceInv'
  <2>1. PassFrom(1, marked, client', maxi') /\ marked' = marked
    BY <1>2 DEF Accept
  <2>2. pc' = "read" => i' \in Due(i', marked, client', maxi')
    BY <2>1, PassGoes, DueFromFirst
  <2> QED
    BY <2>1, <2>2, PassGoes DEF PlaceInv
<1>3. CASE AcceptFails
  BY <1>3 DEF AcceptFails, PlaceInv, peerVars, Due
<1>4. CASE ReadSome
  BY <1>4 DEF ReadSome, PlaceInv, Due
<1>5. ASSUME NEW t, pc \in {"read", "write"}, Onwards(t), client' = t, maxi' = maxi, marked' = marked
      PROVE  PlaceInv'
  <2>1. i \in Entries /\ i \in Int /\ nready \in Int
    BY <1>5, AtEntry
  <2>2. \/ pc' = "wait"
        \/ /\ pc' = "read" /\ i' \in Due(i + 1, marked, t, maxi)
           /\ \A y \in Due(i + 1, marked, t, maxi) : i' <= y
    BY <1>5, <2>1, OnwardsGoes
  <2>3. i + 1 \in Int
    BY <2>1
  <2>4. pc' = "read" => i' \in Due(i', marked, t, maxi)
    BY <2>2, <2>3, DueFromFirst
  <2> QED
    BY <1>5, <2>2, <2>4 DEF PlaceInv
<1>6. CASE ReadEnds
  <2> DEFINE t == [client EXCEPT ![i] = Free]
  <2>1. /\ pc \in {"read", "write"} /\ Onwards(t)
        /\ client' = t /\ maxi' = maxi /\ marked' = marked
    BY <1>6 DEF ReadEnds
  <2> HIDE DEF t
  <2> QED
    BY <2>1, <1>5
<1>7. CASE WriteBack
  BY <1>7, <1>5 DEF WriteBack
<1>8. CASE WriteFails
  BY <1>8 DEF WriteFails, PlaceInv
<1>9. CASE WriteKills
  BY <1>9 DEF WriteKills, PlaceInv, peerVars, Due
<1>10. ASSUME NEW c \in Clients, Peer(c) PROVE PlaceInv'
  <2>1. UNCHANGED <<pc, i, marked, client, maxi>>
    BY <1>10 DEF Peer, scanVars
  <2>2. backlog' = backlog \/ backlog' = Append(backlog, c)
    BY <1>10 DEF Peer, Connect, SendLine, ReadPiece, Leave, Incoming, Arrive, EndArrives, RstArrives
  <2>3. backlog # <<>> => backlog' # <<>>
    <3>1. backlog \in Seq(Clients)
      BY DEF TypeOK, PeersTypeOK
    <3>2. Append(backlog, c) # <<>>
      BY <3>1, AppendProperties
    <3> QED
      BY <2>2, <3>2
  <2> QED
    BY <2>1, <2>3 DEF PlaceInv, Due
<1>11. CASE UNCHANGED vars
  BY <1>11 DEF vars, peerVars, scanVars, PlaceInv, Due
<1> QED
  BY <1>1, <1>2, <1>3, <1>4, <1>6, <1>7, <1>8, <1>9, <1>10, <1>11 DEF Next, Server

\* Who waits for accept, by place in the queue.
LEMMA BacklogFacts ==
  ASSUME TypeOK
  PROVE  DOMAIN backlog = 1..Len(backlog) /\ Len(backlog) \in Nat
         /\ \A k \in DOMAIN backlog : backlog[k] \in Clients
  BY LenProperties, ElementOfSeq DEF TypeOK, PeersTypeOK

\* A connection made: nobody knew it, now it waits at the end of the queue.
LEMMA ConnectKeeps ==
  ASSUME Inv, NEW c \in Clients, Connect(c), UNCHANGED <<client, maxi>>
  PROVE  RosterInv' /\ TableCovers'
<1>0. /\ backlog \in Seq(Clients) /\ Len(backlog) \in Nat /\ DOMAIN backlog = 1..Len(backlog)
      /\ \A k \in DOMAIN backlog : backlog[k] \in Clients
  BY BacklogFacts DEF Inv, TypeOK, PeersTypeOK
<1>1. /\ DOMAIN backlog' = 1..(Len(backlog) + 1)
      /\ \A k \in DOMAIN backlog : backlog'[k] = backlog[k]
      /\ backlog'[Len(backlog) + 1] = c
  BY <1>0, AppendProperties DEF Connect
<1>2. link[c] = "none" /\ link' = [link EXCEPT ![c] = "open"] /\ cpc' = [cpc EXCEPT ![c] = "fgets"]
  BY DEF Connect, Inv, RosterInv
<1>3. /\ \A k \in DOMAIN backlog : backlog[k] # c
      /\ \A e \in Entries : client[e] # c
  BY <1>2, ScanAssumption DEF Inv, RosterInv, TableCovers, Live, Occupied
<1>4. \A k \in DOMAIN backlog' : k \in DOMAIN backlog \/ k = Len(backlog) + 1
  BY <1>0, <1>1
<1>5. \A k \in DOMAIN backlog : k \in DOMAIN backlog'
  BY <1>0, <1>1
<1>6. Len(backlog) + 1 \in DOMAIN backlog'
  BY <1>0, <1>1
<1>7. link'[c] = "open" /\ \A d \in Clients : d # c => link'[d] = link[d]
  BY <1>2 DEF Inv, TypeOK, PeersTypeOK
<1>8. RosterInv'
  <2>1. \A d \in Clients : cpc'[d] = "away" <=> link'[d] = "none"
    BY <1>2, <1>7 DEF Inv, RosterInv, TypeOK, PeersTypeOK
  <2>2. \A k \in DOMAIN backlog' : Live(backlog[k])' 
    BY <1>0, <1>1, <1>3, <1>4, <1>7 DEF Inv, RosterInv, Live
  <2>3. \A k, l \in DOMAIN backlog' : backlog'[k] = backlog'[l] => k = l
    BY <1>1, <1>3, <1>4 DEF Inv, RosterInv
  <2> QED
    BY <2>1, <2>2, <2>3 DEF RosterInv
<1>9. TableCovers'
  <2>1. ASSUME NEW d \in Clients, Live(d)'
        PROVE  (\E e \in Entries : e <= maxi /\ client[e] = d) \/ (\E k \in DOMAIN backlog' : backlog'[k] = d)
    <3>1. CASE d = c
      BY <3>1, <1>1, <1>6
    <3>2. CASE d # c
      <4>1. Live(d)
        BY <2>1, <3>2, <1>7 DEF Live
      <4> QED
        BY <4>1, <1>1, <1>5 DEF Inv, TableCovers
    <3> QED
      BY <3>1, <3>2
  <2>2. ASSUME NEW e \in Entries, Occupied(e)
        PROVE  /\ e <= maxi /\ Live(client[e])'
               /\ \A d \in Entries : client[d] = client[e] => d = e
               /\ \A k \in DOMAIN backlog' : backlog'[k] # client[e]
    <3>1. /\ e <= maxi /\ Live(client[e])
          /\ \A d \in Entries : client[d] = client[e] => d = e
          /\ \A k \in DOMAIN backlog : backlog[k] # client[e]
      BY <2>2 DEF Inv, TableCovers
    <3>2. client[e] # c /\ client[e] \in Clients
      BY <2>2, <1>3 DEF Occupied, Inv, TypeOK
    <3>3. Live(client[e])'
      BY <3>1, <3>2, <1>7 DEF Live
    <3> QED
      BY <3>1, <3>2, <3>3, <1>1, <1>4
  <2> QED
    BY <2>1, <2>2 DEF TableCovers, Occupied
<1> QED
  BY <1>8, <1>9

\* Somebody leaves the queue for the first free entry.
LEMMA AcceptKeeps ==
  ASSUME Inv, NEW e \in Entries, Accept(e)
  PROVE  RosterInv' /\ TableCovers'
<1> DEFINE h == Head(backlog)
<1>0. /\ backlog \in Seq(Clients) /\ Len(backlog) \in Nat /\ DOMAIN backlog = 1..Len(backlog)
      /\ backlog # <<>>
  BY BacklogFacts DEF Inv, TypeOK, PeersTypeOK, PlaceInv, Accept
<1>1. h \in Clients /\ h = backlog[1] /\ Len(backlog) >= 1
  BY <1>0, HeadTailProperties, EmptySeq
<1>2. /\ Len(Tail(backlog)) = Len(backlog) - 1 /\ Tail(backlog) \in Seq(Clients)
      /\ \A k \in 1..Len(Tail(backlog)) : Tail(backlog)[k] = backlog[k + 1]
  BY <1>0, HeadTailProperties
<1>3. DOMAIN Tail(backlog) = 1..(Len(backlog) - 1)
  BY <1>2, LenProperties
<1>4. /\ backlog' = Tail(backlog) /\ UNCHANGED <<cpc, link>>
      /\ client' = [client EXCEPT ![e] = h] /\ maxi' = NewMaxi(e)
  BY DEF Accept
<1>5. \A k \in DOMAIN backlog' : k + 1 \in DOMAIN backlog /\ k + 1 # 1 /\ backlog'[k] = backlog[k + 1]
  BY <1>0, <1>2, <1>3, <1>4
<1>6. 1 \in DOMAIN backlog
  BY <1>0, <1>1
<1>7. \A k \in DOMAIN backlog' : backlog'[k] # h
  BY <1>1, <1>5, <1>6 DEF Inv, RosterInv
<1>8. ~Occupied(e) /\ Live(h) /\ \A d \in Entries : client[d] # h
  <2>1. ~Occupied(e)
    BY DEF Accept, FirstFree
  <2>2. Live(h)
    BY <1>1, <1>6 DEF Inv, RosterInv
  <2>3. \A d \in Entries : client[d] # h
    BY <1>1, <1>6, ScanAssumption DEF Inv, TableCovers, Occupied
  <2> QED
    BY <2>1, <2>2, <2>3
<1>9. maxi' \in Int /\ maxi \in Int /\ e <= maxi' /\ maxi <= maxi' /\ e \in Int
  <2>1. maxi \in 0..Slots /\ e \in 1..Slots /\ Slots \in Nat
    BY ScanAssumption DEF Inv, TypeOK, Entries
  <2>2. maxi' = IF e > maxi THEN e ELSE maxi
    BY <1>4 DEF NewMaxi
  <2> QED
    BY <2>1, <2>2
<1>10. client'[e] = h /\ \A d \in Entries : d # e => client'[d] = client[d]
  BY <1>4 DEF Inv, TypeOK
<1> HIDE DEF h
<1>11. RosterInv'
  <2>1. \A k \in DOMAIN backlog' : Live(backlog'[k])
    BY <1>5 DEF Inv, RosterInv
  <2>2. \A k \in DOMAIN backlog' : Live(backlog[k])'
    BY <2>1, <1>4 DEF Live
  <2>3. \A k, l \in DOMAIN backlog' : backlog'[k] = backlog'[l] => k = l
    <3> SUFFICES ASSUME NEW k \in DOMAIN backlog', NEW l \in DOMAIN backlog', backlog'[k] = backlog'[l]
                 PROVE  k = l
      OBVIOUS
    <3>1. k + 1 = l + 1
      BY <1>5 DEF Inv, RosterInv
    <3>2. k \in Int /\ l \in Int
      BY <1>0, <1>3, <1>4
    <3> QED
      BY <3>1, <3>2
  <2> QED
    BY <2>2, <2>3, <1>4 DEF Inv, RosterInv
<1>12. TableCovers'
  <2>1. ASSUME NEW d \in Clients, Live(d)'
        PROVE  \/ \E x \in Entries : x <= maxi' /\ client'[x] = d
               \/ \E k \in DOMAIN backlog' : backlog'[k] = d
    <3>1. Live(d)
      BY <2>1, <1>4 DEF Live
    <3>2. CASE d = h
      BY <3>2, <1>9, <1>10
    <3>3. ASSUME NEW x \in Entries, x <= maxi, client[x] = d
          PROVE  x <= maxi' /\ client'[x] = d
      <4>1. x # e
        BY <3>3, <1>8, ScanAssumption DEF Occupied
      <4>2. x \in Int
        BY ScanAssumption DEF Entries
      <4> QED
        BY <3>3, <4>1, <4>2, <1>9, <1>10
    <3>4. ASSUME NEW k \in DOMAIN backlog, backlog[k] = d, d # h
          PROVE  k - 1 \in DOMAIN backlog' /\ backlog'[k - 1] = d
      <4>1. k # 1 /\ k \in 1..Len(backlog)
        BY <3>4, <1>0, <1>1
      <4>2. k - 1 \in DOMAIN backlog' /\ (k - 1) + 1 = k
        BY <4>1, <1>0, <1>3, <1>4
      <4> QED
        BY <4>2, <3>4, <1>5
    <3> QED
      BY <3>1, <3>2, <3>3, <3>4 DEF Inv, TableCovers
  <2>2. ASSUME NEW x \in Entries, client'[x] # Free
        PROVE  /\ x <= maxi' /\ Live(client'[x])
               /\ \A d \in Entries : client'[d] = client'[x] => d = x
               /\ \A k \in DOMAIN backlog' : backlog'[k] # client'[x]
    <3>1. CASE x = e
      BY <3>1, <1>7, <1>8, <1>9, <1>10
    <3>2. CASE x # e
      <4>1. client'[x] = client[x] /\ Occupied(x) /\ client[x] # h
        BY <3>2, <2>2, <1>8, <1>10 DEF Occupied
      <4>2. /\ x <= maxi /\ Live(client[x])
            /\ \A d \in Entries : client[d] = client[x] => d = x
            /\ \A k \in DOMAIN backlog : backlog[k] # client[x]
        BY <4>1 DEF Inv, TableCovers
      <4>3. x <= maxi'
        BY <4>2, <1>9, ScanAssumption DEF Entries
      <4>4. \A k \in DOMAIN backlog' : backlog'[k] # client[x]
        BY <4>2, <1>5
      <4> QED
        BY <4>1, <4>2, <4>3, <4>4, <1>10
    <3> QED
      BY <3>1, <3>2
  <2>3. \A x \in Entries : Live(client'[x]) => Live(client[x])'
    BY <1>4 DEF Live
  <2> QED
    BY <2>1, <2>2, <2>3 DEF TableCovers, Occupied
<1> QED
  BY <1>11, <1>12

\* A connection closed: its entry is free and it is not live any more.
LEMMA CloseKeeps ==
  ASSUME Inv, ReadEnds
  PROVE  RosterInv' /\ TableCovers'
<1>1. /\ i \in Entries /\ client[i] \in Clients /\ client[i] # Free
      /\ UNCHANGED <<cpc, backlog, maxi>>
      /\ client' = [client EXCEPT ![i] = Free] /\ link' = [link EXCEPT ![client[i]] = "closed"]
      /\ link[client[i]] \in Ended
  BY AtEntry DEF Inv, ReadEnds, Close
<1>2. /\ client'[i] = Free /\ \A d \in Entries : d # i => client'[d] = client[d]
      /\ link'[client[i]] = "closed" /\ \A c \in Clients : c # client[i] => link'[c] = link[c]
  BY <1>1 DEF Inv, TypeOK, PeersTypeOK
<1>3. \A k \in DOMAIN backlog : backlog[k] # client[i] /\ backlog[k] \in Clients
  BY <1>1, BacklogFacts DEF Inv, TableCovers, Occupied
<1>4. \A d \in Entries : d # i => client[d] # client[i]
  BY <1>1 DEF Inv, TableCovers, Occupied
<1>5. RosterInv'
  <2>1. \A c \in Clients : cpc'[c] = "away" <=> link'[c] = "none"
    BY <1>1, <1>2 DEF Inv, RosterInv, Ended
  <2>2. \A k \in DOMAIN backlog : Live(backlog[k])'
    BY <1>1, <1>2, <1>3 DEF Inv, RosterInv, Live
  <2> QED
    BY <1>1, <2>1, <2>2 DEF Inv, RosterInv
<1>6. TableCovers'
  <2>1. ASSUME NEW d \in Clients, Live(d)'
        PROVE  \/ \E x \in Entries : x <= maxi /\ client'[x] = d
               \/ \E k \in DOMAIN backlog : backlog[k] = d
    <3>1. d # client[i]
      BY <2>1, <1>2 DEF Live
    <3>2. Live(d)
      BY <2>1, <3>1, <1>2 DEF Live
    <3>3. \A x \in Entries : client[x] = d => client'[x] = d
      BY <3>1, <1>2
    <3> QED
      BY <3>2, <3>3 DEF Inv, TableCovers
  <2>2. ASSUME NEW x \in Entries, client'[x] # Free
        PROVE  /\ x <= maxi /\ Live(client[x])'
               /\ \A d \in Entries : client'[d] = client'[x] => d = x
               /\ \A k \in DOMAIN backlog : backlog[k] # client'[x]
    <3>1. x # i /\ client'[x] = client[x] /\ Occupied(x)
      BY <2>2, <1>2 DEF Occupied
    <3>2. /\ x <= maxi /\ Live(client[x])
          /\ \A d \in Entries : client[d] = client[x] => d = x
          /\ \A k \in DOMAIN backlog : backlog[k] # client[x]
      BY <3>1 DEF Inv, TableCovers
    <3>3. client[x] \in Clients /\ client[x] # client[i]
      BY <3>1, <1>4 DEF Inv, TypeOK, Occupied
    <3>4. Live(client[x])'
      BY <3>1, <3>2, <3>3, <1>2 DEF Live
    <3> QED
      BY <2>2, <3>1, <3>2, <3>4, <1>2, <1>1
  <2> QED
    BY <1>1, <2>1, <2>2 DEF TableCovers, Occupied
<1> QED
  BY <1>5, <1>6

\* A step that only moves live connections between states they are live in.
LEMMA LinksMove ==
  ASSUME Inv, UNCHANGED <<client, maxi, backlog>>,
         \A c \in Clients : cpc'[c] = "away" <=> cpc[c] = "away",
         \A c \in Clients : (link'[c] = "none" <=> link[c] = "none")
                            /\ (link'[c] = "closed" <=> link[c] = "closed")
  PROVE  RosterInv' /\ TableCovers'
<1>1. \A c \in Clients : Live(c)' <=> Live(c)
  BY DEF Live
<1>2. \A k \in DOMAIN backlog : backlog[k] \in Clients
  BY BacklogFacts DEF Inv
<1>3. \A e \in Entries : Occupied(e) => client[e] \in Clients
  BY DEF Inv, TypeOK, Occupied
<1>4. \A k \in DOMAIN backlog : Live(backlog[k])'
  BY <1>1, <1>2 DEF Inv, RosterInv, Live
<1>5. RosterInv'
  BY <1>4 DEF Inv, RosterInv
<1>6. \A e \in Entries : Occupied(e) => Live(client[e])'
  BY <1>1, <1>3 DEF Inv, TableCovers, Live
<1>7. TableCovers'
  BY <1>1, <1>6 DEF Inv, TableCovers, Occupied
<1> QED
  BY <1>5, <1>7

\* The table and the backlog cover the live connections after every step.
LEMMA RosterStep == Inv /\ [Next]_vars => RosterInv' /\ TableCovers'
<1> SUFFICES ASSUME Inv, [Next]_vars PROVE RosterInv' /\ TableCovers'
  OBVIOUS
<1>1. ASSUME UNCHANGED <<client, maxi, backlog, cpc, link>> PROVE RosterInv' /\ TableCovers'
  BY <1>1, LinksMove
<1>2. ASSUME NEW e \in Entries, Accept(e) PROVE RosterInv' /\ TableCovers'
  BY <1>2, AcceptKeeps
<1>3. CASE Wait \/ AcceptFails \/ WriteKills
  BY <1>1, <1>3 DEF Wait, AcceptFails, WriteKills, peerVars
<1>4. CASE ReadSome \/ WriteBack
  BY <1>1, <1>4 DEF ReadSome, WriteBack
<1>5. CASE ReadEnds
  BY <1>5, CloseKeeps
<1>6. CASE WriteFails
  <2>1. /\ client[i] \in Clients /\ link[client[i]] = "reset"
        /\ link' = [link EXCEPT ![client[i]] = "spent"] /\ UNCHANGED <<client, maxi, backlog, cpc>>
    BY <1>6, AtEntry DEF WriteFails, Inv
  <2>2. \A c \in Clients : (link'[c] = "none" <=> link[c] = "none")
                            /\ (link'[c] = "closed" <=> link[c] = "closed")
    BY <2>1 DEF Inv, TypeOK, PeersTypeOK
  <2> QED
    BY <2>1, <2>2, LinksMove
<1>7. ASSUME NEW c \in Clients, Peer(c) PROVE RosterInv' /\ TableCovers'
  <2>0. UNCHANGED <<client, maxi>>
    BY <1>7 DEF Peer, scanVars
  <2>1. CASE Connect(c)
    BY <2>0, <2>1, ConnectKeeps
  <2>2. CASE SendLine(c) \/ ReadPiece(c) \/ Leave(c)
    <3>1. UNCHANGED <<link, backlog>>
      BY <2>2 DEF SendLine, ReadPiece, Leave
    <3>2. \A d \in Clients : cpc'[d] = "away" <=> cpc[d] = "away"
      BY <2>2 DEF SendLine, ReadPiece, Leave, Inv, TypeOK, PeersTypeOK
    <3> QED
      BY <2>0, <3>1, <3>2, LinksMove
  <2>3. CASE Incoming(c)
    <3>1. UNCHANGED <<cpc, backlog>>
      BY <2>3 DEF Incoming, Arrive, EndArrives, RstArrives
    <3>2. \A d \in Clients : (link'[d] = "none" <=> link[d] = "none")
                              /\ (link'[d] = "closed" <=> link[d] = "closed")
      BY <2>3 DEF Incoming, Arrive, EndArrives, RstArrives, Inv, TypeOK, PeersTypeOK
    <3> QED
      BY <2>0, <3>1, <3>2, LinksMove
  <2> QED
    BY <1>7, <2>1, <2>2, <2>3 DEF Peer
<1>8. CASE UNCHANGED vars
  BY <1>1, <1>8 DEF vars, peerVars, scanVars
<1> QED
  BY <1>2, <1>3, <1>4, <1>5, <1>6, <1>7, <1>8 DEF Next, Server

-----------------------------------------------------------------------------
(* What the pass finds ready.                                              *)

\* The numbers are numbers.
LEMMA Numbers ==
  ASSUME Inv
  PROVE  maxi \in Int /\ nready \in Int /\ Slots \in Nat /\ \A e \in Entries : e \in Int /\ e >= 1
<1>1. maxi \in 0..Slots /\ nready \in Int /\ Slots \in Nat
  BY ScanAssumption DEF Inv, TypeOK
<1> QED
  BY <1>1 DEF Entries

\* A connection of the table stays readable until it is read or closed.
LEMMA ReadableStays ==
  ASSUME Inv, NEW c \in Clients, Peer(c), NEW d \in Clients, Readable(d), Live(d)
  PROVE  Readable(d)'
<1>0. arrived[d] \in Nat /\ taken[d] \in Nat /\ arrived[d] + 1 \in Nat /\ arrived[d] + 1 > arrived[d]
  <2>1. arrived[d] \in Nat /\ taken[d] \in Nat
    BY DEF Inv, TypeOK, PeersTypeOK
  <2> QED
    BY <2>1
<1>1. taken' = taken
  BY DEF Peer, Connect, SendLine, ReadPiece, Leave, Incoming, Arrive, EndArrives, RstArrives
<1>2. arrived'[d] = arrived[d] \/ arrived'[d] = arrived[d] + 1
  BY DEF Peer, Connect, SendLine, ReadPiece, Leave, Incoming, Arrive, EndArrives, RstArrives,
         Inv, TypeOK, PeersTypeOK
<1>3. link[d] \in Ended => link'[d] \in Ended
  <2>1. CASE Connect(c)
    BY <2>1 DEF Connect, Ended, Inv, RosterInv, TypeOK, PeersTypeOK
  <2>2. CASE Incoming(c)
    BY <2>2 DEF Incoming, Arrive, EndArrives, RstArrives, Ended, Inv, TypeOK, PeersTypeOK
  <2> QED
    BY <2>1, <2>2 DEF Peer, SendLine, ReadPiece, Leave
<1>4. Unread(d) > 0 => arrived'[d] - taken'[d] > 0
  BY <1>0, <1>1, <1>2 DEF Unread
<1> QED
  BY <1>3, <1>4 DEF Readable, Unread

\* The entries due are entries of live connections.
LEMMA DueLive ==
  ASSUME Inv, NEW e, NEW x \in Due(e, marked, client, maxi)
  PROVE  x \in Entries /\ client[x] \in Clients /\ Live(client[x]) /\ Occupied(x)
<1>1. x \in Entries /\ client[x] # Free
  BY DEF Due
<1> QED
  BY <1>1 DEF Inv, TableCovers, Occupied, TypeOK

\* select or poll has reported everything that is marked.
LEMMA WaitReports ==
  ASSUME Inv, Wait
  PROVE  PassInv'
<1> DEFINE R == {e \in Entries : e <= maxi /\ IsReady(e)}
           D == Due(1, marked', client, maxi)
<1>1. /\ UNCHANGED <<peerVars, api, client, maxi>>
      /\ marked' = [e \in Entries |-> IF e <= maxi THEN Mark(e) ELSE marked[e]]
      /\ nready' = Cardinality(R) + (IF backlog # <<>> THEN 1 ELSE 0)
  BY DEF Wait
<1>2. \A e \in Entries : (e <= maxi => (marked'[e] = 1 <=> IsReady(e)))
                         /\ (e > maxi => marked'[e] = marked[e])
  <2>1. maxi \in Int /\ \A e \in Entries : e \in Int
    BY Numbers
  <2> QED
    BY <1>1, <2>1 DEF Mark
<1>3. D = R
  <2>1. \A e \in Entries : e >= 1
    BY ScanAssumption DEF Entries
  <2> QED
    BY <1>2, <2>1 DEF Due, IsReady, Occupied
<1>4. IsFiniteSet(R) /\ Cardinality(R) \in Nat
  <2>1. IsFiniteSet(Entries)
    BY FS_Interval, ScanAssumption DEF Entries
  <2>2. IsFiniteSet(R)
    BY <2>1, FS_Subset
  <2> QED
    BY <2>2, FS_CardinalityType
<1>5. \A x \in D : Readable(client[x])'
  BY <1>1, <1>3 DEF IsReady, Readable, Unread, peerVars
<1>6. \A e \in Entries : IsReady(e)' <=> IsReady(e)
  BY <1>1 DEF IsReady, Occupied, Readable, Unread, peerVars
<1>7. api' = "select" => \A e \in Entries : e > maxi' => marked'[e] = 0
  BY <1>1, <1>2 DEF Inv, PassInv
<1>8. CASE backlog # <<>>
  <2>1. pc' = "accept" /\ nready' = Cardinality(R) + 1
    BY <1>1, <1>8 DEF Wait
  <2>2. Due(1, marked', client', maxi') = R
    BY <1>1, <1>3
  <2> QED
    BY <2>1, <2>2, <1>1, <1>2, <1>6, <1>7 DEF PassInv
<1>9. CASE ~(backlog # <<>>)
  <2>1. PassFrom(1, marked', client, maxi) /\ nready' = Cardinality(D)
    <3>1. nready' = Cardinality(R) + 0
      BY <1>1, <1>9
    <3>2. nready' = Cardinality(R)
      BY <3>1, <1>4
    <3> QED
      BY <3>2, <1>3, <1>9 DEF Wait
  <2>2. CASE pc' = "wait"
    BY <2>2, <1>7 DEF PassInv
  <2>3. CASE pc' = "read"
    <3>1. i' \in D /\ \A y \in D : i' <= y
      BY <2>1, <2>3, PassGoes
    <3>2. Due(i', marked', client', maxi') = D
      BY <3>1, <1>1, DueFromFirst
    <3>3. AllReported(Due(i, marked, client, maxi))'
      BY <3>2, <2>1, <1>5 DEF AllReported
    <3> QED
      BY <2>3, <3>3, <1>7 DEF PassInv
  <2> QED
    BY <2>1, <2>2, <2>3, PassGoes
<1> QED
  BY <1>8, <1>9

\* A new connection in a used entry is not marked; in an unused one, it may be in poll.
LEMMA AcceptReports ==
  ASSUME Inv, NEW e \in Entries, Accept(e)
  PROVE  PassInv'
<1> DEFINE D == Due(1, marked, client, maxi)
           F == Due(1, marked, client', maxi')
<1>0. maxi \in Int /\ nready \in Int /\ \A x \in Entries : x \in Int /\ x >= 1
  BY Numbers
<1>1. /\ pc = "accept" /\ UNCHANGED <<arrived, taken, link, api, marked>>
      /\ ~Occupied(e) /\ \A d \in Entries : d < e => Occupied(d)
      /\ client' = [client EXCEPT ![e] = Head(backlog)]
      /\ maxi' = NewMaxi(e) /\ nready' = nready - 1 /\ PassFrom(1, marked, client', maxi')
  BY DEF Accept, FirstFree
<1>2. nready = Cardinality(D) + 1 /\ \A x \in Entries : x <= maxi /\ marked[x] = 1 => IsReady(x)
  BY <1>1 DEF Inv, PassInv
<1>3. IsFiniteSet(D) /\ Cardinality(D) \in Nat
  <2>1. IsFiniteSet(Entries)
    BY FS_Interval, ScanAssumption DEF Entries
  <2>2. IsFiniteSet(D)
    BY <2>1, FS_Subset DEF Due
  <2> QED
    BY <2>2, FS_CardinalityType
<1>4. nready' = Cardinality(D)
  BY <1>1, <1>2, <1>3
<1>5. Head(backlog) \in Clients /\ Head(backlog) # Free
  <2>1. backlog # <<>> /\ backlog \in Seq(Clients)
    BY <1>1 DEF Inv, PlaceInv, TypeOK, PeersTypeOK
  <2> QED
    BY <2>1, HeadTailProperties, ScanAssumption
<1>6. client'[e] # Free /\ \A x \in Entries : x # e => client'[x] = client[x]
  BY <1>1, <1>5 DEF Inv, TypeOK
<1>7. \A x \in D : x # e /\ Readable(client[x])
  <2>1. \A x \in D : x \in Entries /\ x <= maxi /\ marked[x] = 1 /\ client[x] # Free
    BY DEF Due
  <2> QED
    BY <2>1, <1>1, <1>2 DEF IsReady, Occupied
<1>8. \A x \in D : Readable(client[x])'
  <2>1. \A x \in D : client'[x] = client[x]
    BY <1>6, <1>7 DEF Due
  <2> QED
    BY <2>1, <1>1, <1>7 DEF Readable, Unread
<1>9. e \notin F => F = D
  <2> SUFFICES ASSUME e \notin F PROVE F = D
    OBVIOUS
  <2>1. ASSUME NEW x \in Entries PROVE x \in F <=> x \in D
    <3>1. CASE x = e
      BY <3>1, <1>7
    <3>2. CASE x # e /\ x <= maxi
      BY <3>2, <1>0, <1>1, <1>6 DEF Due, NewMaxi
    <3>3. CASE x # e /\ ~(x <= maxi)
      <4>1. ~Occupied(x)
        BY <3>3 DEF Inv, TableCovers
      <4> QED
        BY <4>1, <3>3, <1>6 DEF Due, Occupied
    <3> QED
      BY <3>1, <3>2, <3>3
  <2> QED
    BY <2>1 DEF Due
<1>10. e \in F => F = D \cup {e}
  <2> SUFFICES ASSUME e \in F PROVE F = D \cup {e}
    OBVIOUS
  <2>1. ASSUME NEW x \in Entries PROVE x \in F <=> x \in D \/ x = e
    <3>1. CASE x = e
      BY <3>1
    <3>2. CASE x # e /\ x <= maxi
      BY <3>2, <1>0, <1>1, <1>6 DEF Due, NewMaxi
    <3>3. CASE x # e /\ ~(x <= maxi)
      <4>1. ~Occupied(x)
        BY <3>3 DEF Inv, TableCovers
      <4> QED
        BY <4>1, <3>3, <1>6 DEF Due, Occupied
    <3> QED
      BY <3>1, <3>2, <3>3
  <2> QED
    BY <2>1 DEF Due
<1>11. e \in F => e > maxi /\ maxi' = e /\ api = "poll"
  <2> SUFFICES ASSUME e \in F PROVE e > maxi /\ maxi' = e /\ api = "poll"
    OBVIOUS
  <2>1. marked[e] = 1
    BY DEF Due
  <2>2. ~(e <= maxi)
    BY <2>1, <1>1, <1>2 DEF IsReady
  <2>3. e > maxi
    BY <2>2, <1>0
  <2>4. api # "select"
    BY <2>1, <2>3 DEF Inv, PassInv
  <2> QED
    BY <2>3, <2>4, <1>1 DEF NewMaxi, Inv, TypeOK
<1>12. api' = "select" => \A x \in Entries : x > maxi' => marked'[x] = 0
  BY <1>0, <1>1 DEF NewMaxi, Inv, PassInv
<1>13. \A x \in Entries : x # e /\ Occupied(x) => Occupied(x)'
  BY <1>6 DEF Occupied
<1>14. CASE pc' = "read"
  <2>1. i' \in F /\ \A y \in F : i' <= y
    BY <1>1, <1>14, PassGoes
  <2>2. Due(i', marked', client', maxi') = F
    <3>1. Due(i', marked, client', maxi') = F
      BY <2>1, DueFromFirst
    <3> QED
      BY <3>1, <1>1
  <2>3. CASE e \notin F
    <3>1. AllReported(Due(i, marked, client, maxi))'
      BY <2>2, <2>3, <1>4, <1>8, <1>9 DEF AllReported
    <3> QED
      BY <3>1, <1>14, <1>12 DEF PassInv
  <2>4. CASE e \in F
    <3>1. Cardinality(F) = Cardinality(D) + 1
      BY <2>4, <1>3, <1>7, <1>10, FS_AddElement
    <3>2. nready' = Cardinality(F) - 1
      BY <3>1, <1>3, <1>4
    <3>3. api' = "poll" /\ maxi' \in F
      BY <2>4, <1>11, <1>1
    <3>4. \A x \in F : x # maxi' => Readable(client[x])'
      BY <2>4, <1>8, <1>10, <1>11
    <3>5. \A x \in Entries : x < maxi' => Occupied(x)'
      BY <2>4, <1>0, <1>1, <1>11, <1>13
    <3>6. LastIsNew(Due(i, marked, client, maxi))'
      BY <2>2, <3>2, <3>3, <3>4, <3>5 DEF LastIsNew
    <3> QED
      BY <3>6, <1>14, <1>12 DEF PassInv
  <2> QED
    BY <2>3, <2>4
<1>15. CASE pc' = "wait"
  BY <1>15, <1>12 DEF PassInv
<1> QED
  BY <1>1, <1>14, <1>15, PassGoes

\* A turn of the loop ends: what is left was reported, and the new entry is not reached.
LEMMA OnwardsReports ==
  ASSUME Inv, pc \in {"read", "write"}, NEW t, Onwards(t), client' = t,
         \A x \in Entries : x # i => t[x] = client[x],
         UNCHANGED <<api, maxi, marked>>,
         \A x \in Due(i, marked, client, maxi) :
            x # i /\ Readable(client[x]) => Readable(client[x])'
  PROVE  PassInv'
<1> DEFINE D == Due(i, marked, client, maxi)
           F == Due(i + 1, marked, t, maxi)
<1>0. /\ maxi \in Int /\ nready \in Int /\ i \in Int /\ i \in Entries /\ i \in D
      /\ \A x \in Entries : x \in Int
  BY Numbers, AtEntry DEF Inv, PlaceInv
<1>1. /\ F = D \ {i} /\ Cardinality(D) \in Nat /\ IsFiniteSet(D)
      /\ Cardinality(F) = Cardinality(D) - 1
  BY <1>0, DueAfter
<1>2. api' = "select" => \A x \in Entries : x > maxi' => marked'[x] = 0
  BY DEF Inv, PassInv
<1>3. CASE pc' = "wait"
  BY <1>3, <1>2 DEF PassInv
<1>4. CASE pc' = "read"
  <2>1. /\ nready' = nready - 1 /\ nready - 1 > 0
        /\ i' \in F /\ \A y \in F : i' <= y
    BY <1>0, <1>4, OnwardsGoes
  <2>2. i + 1 \in Int
    BY <1>0
  <2>3. Due(i', marked', client', maxi') = F
    BY <2>1, <2>2, DueFromFirst
  <2>4. \A x \in F : x \in Entries /\ x > i /\ x \in D /\ x # i /\ x <= maxi /\ x \in Int
    BY <1>0, <1>1 DEF Due
  <2>5. CASE AllReported(D)
    <3>1. nready' = Cardinality(F)
      BY <2>1, <2>5, <1>1 DEF AllReported
    <3>2. \A x \in F : Readable(client[x])'
      BY <2>4, <2>5 DEF AllReported, Ahead
    <3>3. AllReported(Due(i, marked, client, maxi))'
      BY <2>3, <3>1, <3>2 DEF AllReported
    <3> QED
      BY <3>3, <1>2, <1>4 DEF PassInv
  <2>6. CASE LastIsNew(D)
    <3>1. maxi \in F
      <4>1. i' <= maxi /\ i' > i
        BY <2>1, <2>4
      <4>2. maxi # i
        BY <4>1, <2>1, <2>4, <1>0
      <4> QED
        BY <4>2, <2>6, <1>1 DEF LastIsNew
    <3>2. nready' = Cardinality(F) - 1
      BY <2>1, <2>6, <1>1 DEF LastIsNew
    <3>3. \A x \in F : x # maxi => Readable(client[x])'
      BY <2>4, <2>6 DEF LastIsNew, Ahead
    <3>4. i' # maxi
      <4> SUFFICES ASSUME i' = maxi PROVE FALSE
        OBVIOUS
      <4>1. \A x \in F : x = maxi
        BY <2>1, <2>4, <1>0
      <4>2. F = {maxi}
        BY <4>1, <3>1
      <4>3. Cardinality(F) = 1
        BY <4>2, FS_Singleton
      <4> QED
        BY <4>3, <3>2, <2>1
    <3>5. LastIsNew(Due(i, marked, client, maxi))'
      BY <2>3, <2>6, <3>1, <3>2, <3>3, <3>4 DEF LastIsNew
    <3> QED
      BY <3>5, <1>2, <1>4 DEF PassInv
  <2> QED
    BY <2>5, <2>6 DEF Inv, PassInv
<1> QED
  BY <1>0, <1>3, <1>4, OnwardsGoes

\* What the pass still has to read is ready, but for a new entry of poll's.
LEMMA PassStep == Inv /\ [Next]_vars => PassInv'
<1> SUFFICES ASSUME Inv, [Next]_vars PROVE PassInv'
  OBVIOUS
<1>0. PassInv /\ PlaceInv /\ TypeOK
  BY DEF Inv
<1>1. CASE Wait
  BY <1>1, WaitReports
<1>2. ASSUME NEW e \in Entries, Accept(e) PROVE PassInv'
  BY <1>2, AcceptReports
<1>3. CASE AcceptFails \/ WriteKills \/ UNCHANGED vars
  BY <1>0, <1>3 DEF AcceptFails, WriteKills, vars, peerVars, scanVars, PassInv, AllReported,
     LastIsNew, Ahead, IsReady, Occupied, Readable, Unread, Due
<1>4. ASSUME pc \in {"read", "write"},
             \A c \in Clients : c # client[i] => UNCHANGED <<arrived[c], taken[c], link[c]>>,
             \A x \in Entries : x # i => client'[x] = client[x]
      PROVE  \A x \in Due(i, marked, client, maxi) :
               x # i /\ Readable(client[x]) => Readable(client[x])'
  <2> SUFFICES ASSUME NEW x \in Due(i, marked, client, maxi), x # i, Readable(client[x])
               PROVE  Readable(client[x])'
    OBVIOUS
  <2>1. x \in Entries /\ client[x] \in Clients /\ Occupied(x)
    BY DueLive
  <2>2. i \in Entries
    BY <1>0, <1>4, AtEntry
  <2>3. client[x] # client[i]
    BY <2>1, <2>2 DEF Inv, TableCovers
  <2> QED
    BY <1>4, <2>1, <2>3 DEF Readable, Unread
<1>5. CASE ReadSome
  <2>1. /\ pc = "read" /\ pc' = "write" /\ UNCHANGED <<arrived, link, api, client, maxi, marked, nready, i>>
        /\ taken' = [taken EXCEPT ![client[i]] = @ + ReadLen(client[i])]
    BY <1>5 DEF ReadSome
  <2>2. \A c \in Clients : c # client[i] => UNCHANGED <<arrived[c], taken[c], link[c]>>
    BY <2>1, <1>0 DEF TypeOK, PeersTypeOK
  <2>3. \A x \in Due(i, marked, client, maxi) :
               x # i /\ Readable(client[x]) => Readable(client[x])'
    BY <2>1, <2>2, <1>4
  <2>4. \A x \in Due(i, marked, client, maxi) : x > i => x # i
    BY Numbers DEF Due
  <2>5. Due(i, marked, client, maxi)' = Due(i, marked, client, maxi)
    BY <2>1 DEF Due
  <2>6. AllReported(Due(i, marked, client, maxi)) => AllReported(Due(i, marked, client, maxi))'
    BY <2>1, <2>3, <2>4, <2>5 DEF AllReported, Ahead
  <2>7. LastIsNew(Due(i, marked, client, maxi)) => LastIsNew(Due(i, marked, client, maxi))'
    BY <2>1, <2>3, <2>4, <2>5 DEF LastIsNew, Ahead, Occupied
  <2> QED
    BY <1>0, <2>1, <2>6, <2>7 DEF PassInv
<1>6. CASE ReadEnds
  <2> DEFINE t == [client EXCEPT ![i] = Free]
  <2>1. /\ pc \in {"read", "write"} /\ Onwards(t) /\ client' = t
        /\ UNCHANGED <<arrived, taken, api, maxi, marked>>
        /\ link' = [link EXCEPT ![client[i]] = "closed"]
    BY <1>6 DEF ReadEnds, Close
  <2>2. \A x \in Entries : x # i => t[x] = client[x]
    BY <1>0 DEF TypeOK
  <2>3. \A c \in Clients : c # client[i] => UNCHANGED <<arrived[c], taken[c], link[c]>>
    BY <2>1, <1>0 DEF TypeOK, PeersTypeOK
  <2> HIDE DEF t
  <2>4. \A x \in Due(i, marked, client, maxi) :
               x # i /\ Readable(client[x]) => Readable(client[x])'
    BY <2>1, <2>2, <2>3, <1>4
  <2> QED
    BY <2>1, <2>2, <2>4, OnwardsReports
<1>7. CASE WriteBack
  <2>1. /\ pc \in {"read", "write"} /\ Onwards(client) /\ client' = client
        /\ UNCHANGED <<arrived, taken, link, api, maxi, marked>>
    BY <1>7 DEF WriteBack
  <2>2. \A x \in Due(i, marked, client, maxi) :
               x # i /\ Readable(client[x]) => Readable(client[x])'
    BY <2>1, <1>4
  <2> QED
    BY <2>1, <2>2, OnwardsReports
<1>8. CASE WriteFails
  BY <1>0, <1>8 DEF WriteFails, PassInv
<1>9. ASSUME NEW c \in Clients, Peer(c) PROVE PassInv'
  <2>1. UNCHANGED <<api, pc, client, maxi, marked, nready, i>>
    BY <1>9 DEF Peer, scanVars
  <2>2. \A d \in Clients : Readable(d) /\ Live(d) => Readable(d)'
    BY <1>9, ReadableStays
  <2>3. \A x \in Due(i, marked, client, maxi) : Readable(client[x]) => Readable(client[x])'
    BY <2>1, <2>2, DueLive DEF Readable, Unread
  <2>4. \A x \in Entries : IsReady(x) => IsReady(x)'
    <3> SUFFICES ASSUME NEW x \in Entries, IsReady(x) PROVE IsReady(x)'
      OBVIOUS
    <3>1. client[x] \in Clients /\ Live(client[x]) /\ Readable(client[x])
      BY <1>0 DEF Inv, TableCovers, IsReady, Occupied, TypeOK
    <3>2. Readable(client[x])'
      BY <2>1, <2>2, <3>1 DEF Readable, Unread
    <3> QED
      BY <2>1, <3>2 DEF IsReady, Occupied
  <2>5. /\ Due(i, marked, client, maxi)' = Due(i, marked, client, maxi)
        /\ Due(1, marked, client, maxi)' = Due(1, marked, client, maxi)
    BY <2>1 DEF Due
  <2>6. AllReported(Due(i, marked, client, maxi)) => AllReported(Due(i, marked, client, maxi))'
    BY <2>1, <2>3, <2>5 DEF AllReported, Ahead
  <2>7. LastIsNew(Due(i, marked, client, maxi)) => LastIsNew(Due(i, marked, client, maxi))'
    BY <2>1, <2>3, <2>5 DEF LastIsNew, Ahead, Occupied
  <2> QED
    BY <1>0, <2>1, <2>4, <2>5, <2>6, <2>7 DEF PassInv
<1> QED
  BY <1>1, <1>2, <1>3, <1>5, <1>6, <1>7, <1>8, <1>9 DEF Next, Server

-----------------------------------------------------------------------------
(* What is echoed.                                                         *)

\* The numbers of one client.
LEMMA Counts ==
  ASSUME TypeOK, NEW c \in Clients
  PROVE  /\ out[c] \in Nat /\ arrived[c] \in Nat /\ taken[c] \in Nat /\ LineLen[c] \in Nat
         /\ back[c] \in Seq(Clients \X Nat) /\ Len(back[c]) \in Nat
<1>1. /\ out[c] \in Nat /\ arrived[c] \in Nat /\ taken[c] \in Nat
      /\ back[c] \in Seq(Clients \X Nat)
  BY DEF TypeOK, PeersTypeOK
<1>2. LineLen[c] \in Nat
  BY PeersAssumption
<1> QED
  BY <1>1, <1>2, LenProperties

\* What is owed is a sequence of the client's pieces.
LEMMA OwedPieces ==
  ASSUME TypeOK, NEW c \in Clients, Len(back[c]) <= taken[c]
  PROVE  Owed(c) \in Seq(Clients \X Nat) /\ Len(Owed(c)) = taken[c] - Len(back[c])
<1>1. taken[c] \in Nat /\ Len(back[c]) \in Nat
  BY Counts
<1>2. taken[c] - Len(back[c]) \in Nat
  BY <1>1
<1>3. \A j \in 1..(taken[c] - Len(back[c])) : Piece(c, Len(back[c]) + j) \in Clients \X Nat
  BY <1>1, <1>2 DEF Piece
<1>4. Owed(c) \in [1..(taken[c] - Len(back[c])) -> Clients \X Nat]
  BY <1>3 DEF Owed
<1> QED
  BY <1>2, <1>4

\* What EchoInv says of one client.
EchoOf(c) ==
  /\ Len(back[c]) <= taken[c] /\ taken[c] <= arrived[c] /\ arrived[c] <= out[c]
  /\ link[c] \notin {"spent", "closed"} =>
       \/ Writing(c) /\ buf = Owed(c) /\ Len(back[c]) < taken[c]
       \/ ~Writing(c) /\ taken[c] = Len(back[c])

\* Reading makes a client's next pieces the ones owed to it.
LEMMA ReadOwes ==
  ASSUME Inv, ReadSome
  PROVE  EchoInv'
<1>0. client[i] \in Clients /\ pc = "read"
  BY AtEntry DEF Inv, ReadSome
<1>1. PICK c \in Clients : c = client[i] /\ pc = "read"
  BY <1>0
<1>2. /\ UNCHANGED <<out, arrived, back, link, client, i>> /\ pc' = "write"
      /\ buf' = ReadPieces(c) /\ taken' = [taken EXCEPT ![c] = @ + ReadLen(c)] /\ Unread(c) > 0
  BY <1>1 DEF ReadSome
<1>3. ASSUME NEW d \in Clients PROVE EchoOf(d)
  BY DEF Inv, EchoInv, EchoOf
<1>4. ASSUME NEW d \in Clients, d # c PROVE EchoOf(d)'
  <2>1. UNCHANGED <<out[d], arrived[d], taken[d], back[d], link[d]>>
    BY <1>2, <1>4 DEF Inv, TypeOK, PeersTypeOK
  <2>2. ~Writing(d) /\ ~Writing(d)'
    BY <1>1, <1>2, <1>4 DEF Writing
  <2> QED
    BY <1>3, <2>1, <2>2 DEF EchoOf
<1>5. EchoOf(c)'
  <2>1. /\ taken[c] \in Nat /\ arrived[c] \in Nat /\ out[c] \in Nat /\ Len(back[c]) \in Nat
    BY <1>1, Counts DEF Inv
  <2>2. /\ ReadLen(c) \in Nat \ {0} /\ ReadLen(c) <= Unread(c)
    BY <1>1, <1>2, <1>3, PiecesRead DEF Inv, EchoOf
  <2>3. taken'[c] = taken[c] + ReadLen(c)
    BY <1>1, <1>2 DEF Inv, TypeOK, PeersTypeOK
  <2>4. Len(back[c]) <= taken[c] /\ taken[c] <= arrived[c] /\ arrived[c] <= out[c]
    BY <1>1, <1>3 DEF EchoOf
  <2>5. ReadLen(c) <= arrived[c] - taken[c]
    BY <2>2 DEF Unread
  <2>6. Len(back[c]) < taken'[c] /\ Len(back[c]) <= taken'[c] /\ taken'[c] <= arrived[c]
    BY <2>1, <2>2, <2>3, <2>4, <2>5
  <2>7. ASSUME link[c] \notin {"spent", "closed"} PROVE buf' = Owed(c)'
    <3>1. taken[c] = Len(back[c])
      BY <1>1, <1>3, <2>7 DEF EchoOf, Writing
    <3>2. taken'[c] - Len(back[c]) = ReadLen(c)
      BY <2>1, <2>2, <2>3, <3>1
    <3>3. Owed(c)' = [j \in 1..ReadLen(c) |-> Piece(c, taken[c] + j)]
      BY <1>2, <3>1, <3>2 DEF Owed, Piece
    <3> QED
      BY <1>2, <3>3 DEF ReadPieces
  <2>8. Writing(c)'
    BY <1>1, <1>2 DEF Writing
  <2> QED
    BY <1>2, <2>4, <2>6, <2>7, <2>8 DEF EchoOf
<1> QED
  BY <1>1, <1>4, <1>5 DEF EchoInv, EchoOf

\* Writing pays what is owed.
LEMMA WritePays ==
  ASSUME Inv, WriteBack
  PROVE  /\ EchoInv'
         /\ \E c \in Clients :
              /\ taken[c] - Len(back[c]) \in 1..(out[c] - Len(back[c]))
              /\ back' = [back EXCEPT ![c] = @ \o Owed(c)]
              /\ out' = out
<1>0. client[i] \in Clients /\ pc = "write" /\ nready \in Int /\ i \in Entries
  BY AtEntry DEF Inv, WriteBack
<1>1. PICK c \in Clients : c = client[i] /\ pc = "write"
  BY <1>0
<1>2. /\ UNCHANGED <<out, arrived, taken, link, client>>
      /\ back' = [back EXCEPT ![c] = @ \o buf] /\ link[c] \in {"open", "fin"}
  BY <1>1 DEF WriteBack, Written
<1>3. pc' # "write"
  BY <1>0, OnwardsGoes DEF WriteBack
<1>4. ASSUME NEW d \in Clients PROVE EchoOf(d)
  BY DEF Inv, EchoInv, EchoOf
<1>5. buf = Owed(c) /\ Len(back[c]) < taken[c] /\ taken[c] <= arrived[c] /\ arrived[c] <= out[c]
  BY <1>1, <1>2, <1>4 DEF EchoOf, Writing
<1>6. /\ taken[c] \in Nat /\ arrived[c] \in Nat /\ out[c] \in Nat /\ Len(back[c]) \in Nat
      /\ back[c] \in Seq(Clients \X Nat)
  BY Counts DEF Inv
<1>7. Owed(c) \in Seq(Clients \X Nat) /\ Len(Owed(c)) = taken[c] - Len(back[c])
  <2>1. Len(back[c]) <= taken[c]
    BY <1>4 DEF EchoOf
  <2> QED
    BY <2>1, OwedPieces DEF Inv
<1>8. back'[c] = back[c] \o Owed(c)
  BY <1>2, <1>5 DEF Inv, TypeOK, PeersTypeOK
<1>9. Len(back'[c]) = taken[c]
  <2>1. Len(back[c] \o Owed(c)) = Len(back[c]) + Len(Owed(c))
    BY <1>6, <1>7, ConcatProperties
  <2> QED
    BY <2>1, <1>6, <1>7, <1>8
<1>10. EchoOf(c)'
  BY <1>2, <1>3, <1>5, <1>6, <1>9 DEF EchoOf, Writing
<1>11. ASSUME NEW d \in Clients, d # c PROVE EchoOf(d)'
  <2>1. back'[d] = back[d]
    BY <1>2, <1>11 DEF Inv, TypeOK, PeersTypeOK
  <2>2. ~Writing(d) /\ ~Writing(d)'
    BY <1>1, <1>3, <1>11 DEF Writing
  <2> QED
    BY <1>2, <1>4, <2>1, <2>2 DEF EchoOf
<1>12. EchoInv'
  BY <1>10, <1>11 DEF EchoInv, EchoOf
<1>13. taken[c] - Len(back[c]) \in 1..(out[c] - Len(back[c]))
  BY <1>5, <1>6
<1> QED
  BY <1>2, <1>5, <1>12, <1>13

\* Steps that leave the pieces of the clients alone.
LEMMA PiecesStay ==
  ASSUME Inv, UNCHANGED <<taken, back>>,
         \A c \in Clients : Writing(c)' <=> Writing(c),
         \A c \in Clients : Writing(c) => buf' = buf,
         \A c \in Clients : taken[c] <= arrived'[c] /\ arrived'[c] <= out'[c],
         \A c \in Clients : link'[c] \notin {"spent", "closed"} => link[c] \notin {"spent", "closed"}
  PROVE  EchoInv'
<1> SUFFICES ASSUME NEW c \in Clients PROVE EchoOf(c)'
  BY DEF EchoInv, EchoOf
<1>1. EchoOf(c)
  BY DEF Inv, EchoInv, EchoOf
<1>2. Owed(c)' = Owed(c)
  BY DEF Owed, Piece
<1> QED
  BY <1>1, <1>2 DEF EchoOf

\* Every step keeps the account of what was read and written.
LEMMA EchoStep == Inv /\ [Next]_vars => EchoInv'
<1> SUFFICES ASSUME Inv, [Next]_vars PROVE EchoInv'
  OBVIOUS
<1>0. \A c \in Clients : taken[c] <= arrived[c] /\ arrived[c] <= out[c]
  BY DEF Inv, EchoInv
<1>1. CASE ReadSome
  BY <1>1, ReadOwes
<1>2. CASE WriteBack
  BY <1>2, WritePays
<1>3. ASSUME pc # "write", pc' # "write", UNCHANGED <<out, arrived, taken, back, link>>
      PROVE  EchoInv'
  <2>1. \A c \in Clients : ~Writing(c) /\ ~Writing(c)'
    BY <1>3 DEF Writing
  <2> QED
    BY <1>0, <1>3, <2>1, PiecesStay
<1>4. CASE Wait
  <2>1. pc' # "write"
    BY <1>4, PassGoes DEF Wait
  <2> QED
    BY <1>3, <1>4, <2>1 DEF Wait, peerVars
<1>5. ASSUME NEW e \in Entries, Accept(e) PROVE EchoInv'
  <2>1. pc' # "write"
    BY <1>5, PassGoes DEF Accept
  <2> QED
    BY <1>3, <1>5, <2>1 DEF Accept
<1>6. CASE AcceptFails \/ WriteKills \/ UNCHANGED vars
  <2>1. UNCHANGED <<out, arrived, taken, back, link, pc, client, i, buf>>
    BY <1>6 DEF AcceptFails, WriteKills, vars, peerVars, scanVars
  <2>2. \A c \in Clients : Writing(c)' <=> Writing(c)
    BY <2>1 DEF Writing
  <2> QED
    BY <1>0, <2>1, <2>2, PiecesStay
<1>7. CASE ReadEnds
  <2>1. /\ pc = "read" /\ UNCHANGED <<out, arrived, taken, back>> /\ client[i] \in Clients
        /\ link' = [link EXCEPT ![client[i]] = "closed"]
    BY <1>7, AtEntry DEF ReadEnds, Close, Inv
  <2>2. pc' # "write"
    <3> DEFINE t == [client EXCEPT ![i] = Free]
    <3>1. Onwards(t) /\ i \in Entries /\ nready \in Int
      BY <1>7, AtEntry DEF ReadEnds, Inv
    <3> HIDE DEF t
    <3> QED
      BY <3>1, OnwardsGoes
  <2>3. \A c \in Clients : ~Writing(c) /\ ~Writing(c)'
    BY <2>1, <2>2 DEF Writing
  <2>4. \A c \in Clients : link'[c] \notin {"spent", "closed"} => link[c] \notin {"spent", "closed"}
    BY <2>1 DEF Inv, TypeOK, PeersTypeOK
  <2> QED
    BY <1>0, <2>1, <2>3, <2>4, PiecesStay
<1>8. CASE WriteFails
  <2> SUFFICES ASSUME NEW c \in Clients PROVE EchoOf(c)'
    BY DEF EchoInv, EchoOf
  <2>1. EchoOf(c)
    BY DEF Inv, EchoInv, EchoOf
  <2>2. /\ UNCHANGED <<out, arrived, taken, back>> /\ pc' = "wait"
        /\ link' = [link EXCEPT ![client[i]] = "spent"]
    BY <1>8 DEF WriteFails
  <2>3. link'[c] \notin {"spent", "closed"} => link[c] \notin {"spent", "closed"} /\ c # client[i]
    BY <2>2 DEF Inv, TypeOK, PeersTypeOK
  <2> QED
    BY <2>1, <2>2, <2>3 DEF EchoOf, Writing
<1>9. ASSUME NEW c \in Clients, Peer(c) PROVE EchoInv'
  <2>1. UNCHANGED <<pc, client, i, buf, taken, back>>
    BY <1>9 DEF Peer, scanVars, Connect, SendLine, ReadPiece, Leave, Incoming, Arrive, EndArrives, RstArrives
  <2>2. \A d \in Clients : Writing(d)' <=> Writing(d)
    BY <2>1 DEF Writing
  <2>3. \A d \in Clients : link'[d] \notin {"spent", "closed"} => link[d] \notin {"spent", "closed"}
    <3>1. CASE Connect(c)
      BY <3>1 DEF Connect, Inv, RosterInv, TypeOK, PeersTypeOK
    <3>2. CASE ~Connect(c)
      BY <3>2, <1>9 DEF Peer, SendLine, ReadPiece, Leave, Incoming, Arrive, EndArrives, RstArrives,
         Inv, TypeOK, PeersTypeOK
    <3> QED
      BY <3>1, <3>2
  <2>4. ASSUME NEW d \in Clients PROVE taken[d] <= arrived'[d] /\ arrived'[d] <= out'[d]
    <3>0. out[d] \in Nat /\ arrived[d] \in Nat /\ taken[d] \in Nat /\ LineLen[d] \in Nat
      BY Counts DEF Inv
    <3>1. CASE SendLine(c)
      <4>1. arrived'[d] = arrived[d] /\ (out'[d] = out[d] \/ out'[d] = out[d] + LineLen[d])
        BY <3>1 DEF SendLine, Inv, TypeOK, PeersTypeOK
      <4> QED
        BY <4>1, <3>0, <1>0
    <3>2. CASE Arrive(c)
      <4>1. \/ arrived'[d] = arrived[d] /\ out'[d] = out[d]
            \/ arrived'[d] = arrived[d] + 1 /\ out'[d] = out[d] /\ arrived[d] < out[d]
        BY <3>2 DEF Arrive, Inv, TypeOK, PeersTypeOK
      <4> QED
        BY <4>1, <3>0, <1>0
    <3>3. CASE ~SendLine(c) /\ ~Arrive(c)
      BY <3>3, <1>0, <1>9 DEF Peer, Connect, ReadPiece, Leave, Incoming, EndArrives, RstArrives
    <3> QED
      BY <3>1, <3>2, <3>3
  <2> QED
    BY <2>1, <2>2, <2>3, <2>4, PiecesStay
<1> QED
  BY <1>1, <1>2, <1>4, <1>5, <1>6, <1>7, <1>8, <1>9 DEF Next, Server
-----------------------------------------------------------------------------
(* The theorems.                                                           *)

\* Init satisfies the invariant: nobody is connected and nothing is marked in select.
LEMMA InitInv == Init => Inv
<1> SUFFICES ASSUME Init PROVE Inv
  OBVIOUS
<1>0. Slots \in Nat /\ 0 \in 0..Slots
  BY ScanAssumption
<1>1. TypeOK
  BY <1>0, EmptySeq DEF Init, PeersInit, TypeOK, PeersTypeOK
<1>2. PlaceInv
  BY DEF Init, PlaceInv
<1>3. DOMAIN backlog = {}
  BY DEF Init, PeersInit
<1>4. RosterInv
  BY <1>3 DEF Init, PeersInit, RosterInv
<1>5. TableCovers
  BY <1>3 DEF Init, PeersInit, TableCovers, Live, Occupied
<1>6. PassInv
  BY DEF Init, PassInv
<1>7. EchoInv
  BY DEF Init, PeersInit, EchoInv, Writing
<1> QED
  BY <1>1, <1>2, <1>4, <1>5, <1>6, <1>7 DEF Inv

\* The invariant is inductive.
LEMMA StepInv == Inv /\ [Next]_vars => Inv'
  BY TypeStep, PlaceStep, RosterStep, PassStep, EchoStep DEF Inv

\* Types hold for any clients, lines, buffer and table.
THEOREM ScanTypes == Spec => []TypeOK
<1> QED
  BY InitInv, StepInv, PTL DEF Spec, Inv

\* Nobody is forgotten by the pass or in it twice (select server.c:83-102, 110-123).
THEOREM TableAlwaysCovers == Spec => []TableCovers
<1> QED
  BY InitInv, StepInv, PTL DEF Spec, Inv

\* select's read never blocks, and poll's only at a new entry beyond all that were
\* used (select server.c:112-118, poll server.c:119).
THEOREM BlocksOnlyThere == Spec => []BlocksOnlyOnGarbage
<1>1. Inv => BlocksOnlyOnGarbage
  <2> SUFFICES ASSUME Inv, Stuck
               PROVE  api = "poll" /\ i = maxi /\ \A e \in Entries : e < i => Occupied(e)
    BY DEF BlocksOnlyOnGarbage
  <2>1. pc = "read" /\ ~Readable(client[i]) /\ i \in Due(i, marked, client, maxi)
    BY DEF Stuck, Inv, PlaceInv
  <2>2. ~AllReported(Due(i, marked, client, maxi))
    BY <2>1 DEF AllReported, Ahead
  <2>3. LastIsNew(Due(i, marked, client, maxi))
    BY <2>1, <2>2 DEF Inv, PassInv
  <2>4. i = maxi
    BY <2>1, <2>3 DEF LastIsNew, Ahead
  <2> QED
    BY <2>3, <2>4 DEF LastIsNew
<1> QED
  BY <1>1, InitInv, StepInv, PTL DEF Spec

\* Both servers implement the echo service, whatever clients and network do.
THEOREM ScanImplementsEcho == Spec => ImplementsEcho
<1>1. Init => E!Init
  BY DEF Init, PeersInit, E!Init
<1>2. Inv /\ [Next]_vars => [E!Next]_(E!vars)
  <2> SUFFICES ASSUME Inv, [Next]_vars PROVE [E!Next]_(E!vars)
    OBVIOUS
  <2>1. CASE WriteBack
    <3>1. PICK c \in Clients :
            /\ taken[c] - Len(back[c]) \in 1..(out[c] - Len(back[c]))
            /\ back' = [back EXCEPT ![c] = @ \o Owed(c)] /\ out' = out
      BY <2>1, WritePays
    <3>2. back' = [back EXCEPT ![c] = @ \o [j \in 1..(taken[c] - Len(back[c])) |-> <<c, Len(back[c]) + j>>]]
      BY <3>1 DEF Owed, Piece
    <3>3. E!Answer(c)
      BY <3>1, <3>2 DEF E!Answer
    <3> QED
      BY <3>3 DEF E!Next
  <2>2. ASSUME NEW c \in Clients, SendLine(c) PROVE E!Next
    BY <2>2 DEF SendLine, E!Next, E!Say
  <2>3. ASSUME NEW c \in Clients, Peer(c), ~SendLine(c) PROVE UNCHANGED E!vars
    BY <2>3 DEF Peer, Connect, ReadPiece, Leave, Incoming, Arrive, EndArrives, RstArrives, E!vars
  <2>4. CASE Server /\ ~WriteBack
    BY <2>4 DEF Server, Wait, Accept, AcceptFails, ReadSome, ReadEnds, WriteFails, WriteKills,
       peerVars, E!vars
  <2>5. CASE UNCHANGED vars
    BY <2>5 DEF vars, peerVars, E!vars
  <2> QED
    BY <2>1, <2>2, <2>3, <2>4, <2>5 DEF Next, Peer
<1>3. Spec => []Inv
  BY InitInv, StepInv, PTL DEF Spec
<1> QED
  BY <1>1, <1>2, <1>3, PTL DEF Spec, ImplementsEcho, E!Spec
=============================================================================
