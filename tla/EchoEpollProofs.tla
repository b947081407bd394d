--------------------------- MODULE EchoEpollProofs --------------------------
(***************************************************************************)
(* Proofs about EchoEpoll, for any clients, lines and buffer.              *)
(***************************************************************************)
EXTENDS EchoEpoll, TLAPS, SequenceTheorems, FiniteSetTheorems, WellFoundedInduction

\* No entry of a list comes twice.
Once(q) == \A i, j \in DOMAIN q : q[i] = q[j] => i = j

\* What the server has read has arrived, and what has arrived was sent.
CountInv == \A c \in Clients : taken[c] <= arrived[c] /\ arrived[c] <= out[c]

\* An end comes only from a client that has left; what is registered is connected.
LinkInv ==
  \A c \in Clients :
    /\ link[c] \in Ended => cpc[c] = "gone"
    /\ cpc[c] = "away" => interest[c] = "none"
    /\ interest[c] # "none" => link[c] \notin {"none", "closed"}

\* A connection that waits for accept waits once and is not registered yet.
Waiting(c) ==
  cpc[c] # "away" /\ interest[c] = "none" /\ link[c] \notin {"none", "closed"}
BacklogInv == Once(backlog) /\ \A c \in Members(backlog) : Waiting(c)

\* The events in hand: one for a descriptor, for what it is registered for, and
\* still true; what is on the ready list is registered.
EventsOnce ==
  /\ Once(rest)
  /\ \A e, f \in Members(rest) : e.fd = f.fd => e = f
EventInv ==
  /\ EventsOnce
  /\ \A e \in Members(rest) : e.fd # Listen =>
       e.ev = interest[e.fd] /\ (e.ev = "in" => Readable(e.fd))
  /\ \A x \in Members(ready) : x # Listen => interest[x] # "none"

InRest(x) == \E e \in Members(rest) : e.fd = x

\* Every connection that waits has an event of the listening socket.
Tokens ==
  (IF Listen \in Members(ready) THEN 1 ELSE 0) + (IF InRest(Listen) THEN 1 ELSE 0)
ListenInv ==
  /\ InRest(Listen) => backlog # <<>>
  /\ burst \/ Listen \in dropped \/ Len(backlog) <= Tokens

\* Without overlap one client at most is under way, and the buffer holds what
\* was read from the one that is registered for writing.
OneUnderway == \A c, d \in Clients : Underway(c) /\ Underway(d) => c = d
EchoOf(c) ==
  /\ Len(back[c]) + (IF interest[c] = "out" THEN Len(buf) ELSE 0) = taken[c]
  /\ interest[c] = "out" =>
       Len(buf) > 0 /\ \A i \in DOMAIN buf : buf[i] = Piece(c, Len(back[c]) + i)
  /\ \A i \in DOMAIN back[c] : back[c][i] = Piece(c, i)
EchoInv == overlap \/ (OneUnderway /\ \A c \in Clients : EchoOf(c))

Inv ==
  /\ TypeOK /\ CountInv /\ LinkInv /\ BacklogInv
  /\ EventInv /\ ListenInv /\ NoLostEdge /\ EchoInv
-----------------------------------------------------------------------------
(* Induction, for a set of numbers rather than for a predicate.            *)

\* A set of numbers that is not empty has a least one.
LEMMA LeastNumber ==
  ASSUME NEW T, T \subseteq Nat, T # {}
  PROVE  \E x \in T : \A y \in T : x <= y
<1>1. PICK x \in T : \A y \in T : ~(<<y, x>> \in OpToRel(<, Nat))
  BY NatLessThanWellFounded, WFMin, Zenon
<1>2. \A y \in T : ~(y < x)
  BY <1>1 DEF OpToRel
<1> QED
  BY <1>2

\* A set that has 0 and with every number the next has all of them.
LEMMA Induction ==
  ASSUME NEW P, 0 \in P, \A k \in Nat : k \in P => k + 1 \in P
  PROVE  Nat \subseteq P
<1> SUFFICES ASSUME Nat \ P # {} PROVE FALSE
  OBVIOUS
<1>1. PICK x \in Nat \ P : \A y \in Nat \ P : x <= y
  <2>1. Nat \ P \subseteq Nat
    OBVIOUS
  <2> QED
    BY <2>1, LeastNumber
<1>2. x \in Nat /\ x # 0
  BY <1>1
<1>3. x - 1 \in Nat /\ x - 1 \notin Nat \ P
  BY <1>1, <1>2
<1>4. x \in P
  <2>1. x - 1 \in P
    BY <1>3
  <2>2. (x - 1) + 1 \in P
    BY <1>3, <2>1
  <2> QED
    BY <1>2, <2>2
<1> QED
  BY <1>1, <1>4
-----------------------------------------------------------------------------
(* The ready list.                                                         *)

\* g follows the recursion of Filtered up to the entry m.
Follows(g, q, keep, m) ==
  g = [i \in 0..m |-> IF i = 0 THEN <<>>
                      ELSE IF q[i] \in keep THEN Append(g[i - 1], q[i]) ELSE g[i - 1]]

\* The recursion defines a function.
LEMMA FollowsExists ==
  ASSUME NEW q, NEW keep
  PROVE  \A m \in Nat : \E g : Follows(g, q, keep, m)
<1> DEFINE P == {m \in Nat : \E g : Follows(g, q, keep, m)}
<1>1. 0 \in P
  <2> DEFINE g == [i \in 0..0 |-> <<>>]
  <2>1. Follows(g, q, keep, 0)
    BY DEF Follows
  <2> QED
    BY <2>1
<1>2. ASSUME NEW k \in Nat, k \in P PROVE k + 1 \in P
  <2>1. PICK g : Follows(g, q, keep, k)
    BY <1>2
  <2> DEFINE last == IF q[k + 1] \in keep THEN Append(g[k], q[k + 1]) ELSE g[k]
             h == [i \in 0..(k + 1) |-> IF i = k + 1 THEN last ELSE g[i]]
  <2>2. \A i \in 0..k : g[i] = IF i = 0 THEN <<>>
                               ELSE IF q[i] \in keep THEN Append(g[i - 1], q[i]) ELSE g[i - 1]
    BY <2>1 DEF Follows
  <2>3. /\ h[k + 1] = last
        /\ \A i \in 0..k : h[i] = g[i]
    OBVIOUS
  <2>4. h[k + 1] = IF q[k + 1] \in keep THEN Append(h[k], q[k + 1]) ELSE h[k]
    BY <2>3
  <2>5. ASSUME NEW i \in 0..(k + 1)
        PROVE  h[i] = IF i = 0 THEN <<>>
                      ELSE IF q[i] \in keep THEN Append(h[i - 1], q[i]) ELSE h[i - 1]
    <3>1. CASE i = k + 1
      BY <3>1, <2>4
    <3>2. CASE i = 0
      BY <3>2, <2>2, <2>3
    <3>3. CASE i \in 1..k
      <4>1. i - 1 \in 0..k /\ i \in 0..k
        BY <3>3
      <4> HIDE DEF h
      <4> QED
        BY <3>3, <4>1, <2>2, <2>3
    <3> QED
      BY <3>1, <3>2, <3>3
  <2>6. Follows(h, q, keep, k + 1)
    <3>1. h = [i \in 0..(k + 1) |-> h[i]]
      OBVIOUS
    <3> HIDE DEF h
    <3> QED
      BY <2>5, <3>1 DEF Follows
  <2> QED
    BY <2>6
<1>3. Nat \subseteq P
  <2> HIDE DEF P
  <2> QED
    BY <1>1, <1>2, Induction
<1> QED
  BY <1>3

\* Putting something behind a list.
LEMMA AppendMembers ==
  ASSUME NEW S, NEW q \in Seq(S), NEW x \in S
  PROVE  /\ Append(q, x) \in Seq(S)
         /\ Members(Append(q, x)) = Members(q) \cup {x}
         /\ Once(q) /\ x \notin Members(q) => Once(Append(q, x))
<1>1. /\ Append(q, x) \in Seq(S) /\ Len(Append(q, x)) = Len(q) + 1
      /\ \A i \in 1..Len(q) : Append(q, x)[i] = q[i]
      /\ Append(q, x)[Len(q) + 1] = x
  BY AppendProperties
<1>2. /\ DOMAIN Append(q, x) = 1..(Len(q) + 1) /\ DOMAIN q = 1..Len(q) /\ Len(q) \in Nat
  BY <1>1, LenProperties
<1>3. Members(Append(q, x)) = Members(q) \cup {x}
  <2>1. ASSUME NEW y \in Members(Append(q, x)) PROVE y \in Members(q) \cup {x}
    <3>1. PICK i \in 1..(Len(q) + 1) : y = Append(q, x)[i]
      BY <1>2, <2>1 DEF Members
    <3> QED
      BY <3>1, <1>1, <1>2 DEF Members
  <2>2. ASSUME NEW i \in 1..Len(q) PROVE q[i] \in Members(Append(q, x))
    <3>1. i \in 1..(Len(q) + 1) /\ Append(q, x)[i] = q[i]
      BY <1>1, <1>2
    <3> QED
      BY <3>1, <1>2 DEF Members
  <2>3. x \in Members(Append(q, x))
    <3>1. Len(q) + 1 \in 1..(Len(q) + 1)
      BY <1>2
    <3> QED
      BY <3>1, <1>1, <1>2 DEF Members
  <2> QED
    BY <1>2, <2>1, <2>2, <2>3 DEF Members
<1>4. ASSUME Once(q), x \notin Members(q) PROVE Once(Append(q, x))
  <2>1. \A i \in 1..Len(q) : q[i] # x
    BY <1>2, <1>4 DEF Members
  <2> SUFFICES ASSUME NEW i \in 1..(Len(q) + 1), NEW j \in 1..(Len(q) + 1),
                      Append(q, x)[i] = Append(q, x)[j]
               PROVE  i = j
    BY <1>2 DEF Once
  <2>2. CASE i \in 1..Len(q) /\ j \in 1..Len(q)
    BY <2>2, <1>1, <1>2, <1>4 DEF Once
  <2>3. CASE i = Len(q) + 1 \/ j = Len(q) + 1
    BY <2>3, <2>1, <1>1, <1>2
  <2> QED
    BY <2>2, <2>3, <1>2
<1> QED
  BY <1>1, <1>3, <1>4

\* Taking the first of a list away.
LEMMA TailMembers ==
  ASSUME NEW S, NEW q \in Seq(S), q # <<>>, Once(q)
  PROVE  /\ Tail(q) \in Seq(S) /\ Len(Tail(q)) = Len(q) - 1 /\ Len(q) \in Nat \ {0}
         /\ Head(q) \in S /\ Head(q) \in Members(q)
         /\ Members(Tail(q)) = Members(q) \ {Head(q)}
         /\ Once(Tail(q))
<1> DEFINE t == Tail(q)
<1>1. Len(q) \in Nat /\ DOMAIN q = 1..Len(q)
  BY LenProperties
<1>2. Len(q) # 0 /\ Head(q) = q[1]
  BY <1>1
<1>3. /\ t \in Seq(S) /\ Len(t) = Len(q) - 1 /\ Head(q) \in S
      /\ \A i \in 1..Len(t) : t[i] = q[i + 1]
  BY HeadTailProperties
<1> HIDE DEF t
<1>4. DOMAIN t = 1..Len(t)
  BY <1>3, LenProperties
<1>5. 1 \in DOMAIN q /\ Head(q) \in Members(q)
  BY <1>1, <1>2 DEF Members
<1>6. ASSUME NEW i \in DOMAIN t
      PROVE  i \in Int /\ i + 1 \in DOMAIN q /\ t[i] = q[i + 1] /\ i + 1 # 1
  BY <1>1, <1>3, <1>4, <1>6
<1>7. ASSUME NEW k \in DOMAIN q, k # 1 PROVE k - 1 \in DOMAIN t /\ t[k - 1] = q[k]
  <2>1. k - 1 \in 1..Len(t) /\ (k - 1) + 1 = k
    BY <1>1, <1>3, <1>7
  <2> QED
    BY <1>3, <1>4, <2>1
<1>8. Once(t)
  <2> SUFFICES ASSUME NEW i \in DOMAIN t, NEW j \in DOMAIN t, t[i] = t[j] PROVE i = j
    BY DEF Once
  <2>1. i + 1 = j + 1
    BY <1>6 DEF Once
  <2> QED
    BY <1>6, <2>1
<1>9. Members(t) = Members(q) \ {q[1]}
  <2>1. ASSUME NEW i \in DOMAIN t PROVE t[i] \in Members(q) \ {q[1]}
    <3>1. q[i + 1] # q[1]
      BY <1>5, <1>6 DEF Once
    <3> QED
      BY <1>6, <3>1 DEF Members
  <2>2. ASSUME NEW k \in DOMAIN q, q[k] # q[1] PROVE q[k] \in Members(t)
    BY <1>7, <2>2 DEF Members
  <2> QED
    BY <2>1, <2>2 DEF Members
<1> QED
  BY <1>1, <1>2, <1>3, <1>5, <1>8, <1>9 DEF t

\* What Filtered leaves: the members that are kept, none of them twice.
LEMMA FilteredMembers ==
  ASSUME NEW S, NEW q \in Seq(S), NEW keep, Once(q)
  PROVE  /\ Filtered(q, keep) \in Seq(S)
         /\ Members(Filtered(q, keep)) = Members(q) \cap keep
         /\ Once(Filtered(q, keep))
<1>0. Len(q) \in Nat /\ DOMAIN q = 1..Len(q) /\ \A i \in 1..Len(q) : q[i] \in S
  BY LenProperties, ElementOfSeq
<1> DEFINE f == CHOOSE g : Follows(g, q, keep, Len(q))
<1>1. Filtered(q, keep) = f[Len(q)]
  BY DEF Filtered, Follows
<1>2. Follows(f, q, keep, Len(q))
  BY <1>0, FollowsExists
<1> HIDE DEF f
<1>3. \A i \in 0..Len(q) :
        f[i] = IF i = 0 THEN <<>>
               ELSE IF q[i] \in keep THEN Append(f[i - 1], q[i]) ELSE f[i - 1]
  BY <1>2 DEF Follows
<1> DEFINE Upto(i) == {q[j] : j \in 1..i}
           Good(i) == f[i] \in Seq(S) /\ Members(f[i]) = Upto(i) \cap keep /\ Once(f[i])
           P == {i \in Nat : i <= Len(q) => Good(i)}
<1>4. 0 \in P
  <2>1. f[0] = <<>>
    BY <1>0, <1>3
  <2>2. <<>> \in Seq(S) /\ DOMAIN <<>> = {}
    OBVIOUS
  <2>3. Good(0)
    BY <2>1, <2>2 DEF Members, Once
  <2> QED
    BY <2>3
<1>5. ASSUME NEW k \in Nat, k \in P PROVE k + 1 \in P
  <2> SUFFICES ASSUME k + 1 <= Len(q) PROVE Good(k + 1)
    OBVIOUS
  <2>1. Good(k)
    BY <1>0, <1>5
  <2>2. k + 1 \in 1..Len(q) /\ q[k + 1] \in S
    BY <1>0
  <2>3. f[k + 1] = IF q[k + 1] \in keep THEN Append(f[k], q[k + 1]) ELSE f[k]
    BY <1>0, <1>3, <2>2
  <2>4. Upto(k + 1) = Upto(k) \cup {q[k + 1]}
    <3>1. 1..(k + 1) = (1..k) \cup {k + 1}
      OBVIOUS
    <3> QED
      BY <3>1
  <2>5. q[k + 1] \notin Upto(k)
    BY <1>0, <2>2 DEF Once
  <2> HIDE DEF Upto
  <2>6. CASE q[k + 1] \in keep
    <3>1. q[k + 1] \notin Members(f[k])
      BY <2>1, <2>5
    <3>2. /\ Append(f[k], q[k + 1]) \in Seq(S)
          /\ Members(Append(f[k], q[k + 1])) = Members(f[k]) \cup {q[k + 1]}
          /\ Once(Append(f[k], q[k + 1]))
      BY <2>1, <2>2, <3>1, AppendMembers
    <3> QED
      BY <2>1, <2>3, <2>4, <2>6, <3>2
  <2>7. CASE q[k + 1] \notin keep
    BY <2>1, <2>3, <2>4, <2>7
  <2> QED
    BY <2>6, <2>7
<1>6. Nat \subseteq P
  <2> HIDE DEF P
  <2> QED
    BY <1>4, <1>5, Induction
<1>7. Good(Len(q))
  <2> HIDE DEF Good
  <2> QED
    BY <1>0, <1>6
<1>8. Upto(Len(q)) = Members(q)
  BY <1>0 DEF Members
<1> QED
  BY <1>1, <1>7, <1>8
-----------------------------------------------------------------------------
(* What the parts of a step do.                                            *)

Fds == Clients \cup {Listen}
Events == [fd : Fds, ev : {"in", "out"}]

ReadyOK == ready \in Seq(Fds) /\ Once(ready)

LEMMA TypesOfLists ==
  ASSUME TypeOK
  PROVE  /\ ReadyOK /\ rest \in Seq(Events) /\ backlog \in Seq(Clients)
         /\ Len(rest) \in Nat /\ DOMAIN rest = 1..Len(rest)
         /\ \A i \in 1..Len(rest) : rest[i].fd \in Fds /\ rest[i].ev \in {"in", "out"}
         /\ Len(backlog) \in Nat /\ DOMAIN backlog = 1..Len(backlog)
         /\ \A i \in 1..Len(backlog) : backlog[i] \in Clients
<1>1. ReadyOK /\ rest \in Seq(Events) /\ backlog \in Seq(Clients)
  BY DEF TypeOK, PeersTypeOK, ReadyOK, Once, Events, Fds
<1>2. Len(rest) \in Nat /\ DOMAIN rest = 1..Len(rest)
  BY <1>1, LenProperties
<1>3. \A i \in 1..Len(rest) : rest[i] \in Events
  BY <1>1, ElementOfSeq
<1>4. Len(backlog) \in Nat /\ DOMAIN backlog = 1..Len(backlog)
  BY <1>1, LenProperties
<1>5. \A i \in 1..Len(backlog) : backlog[i] \in Clients
  BY <1>1, ElementOfSeq
<1> QED
  BY <1>1, <1>2, <1>3, <1>4, <1>5 DEF Events

\* An edge puts the descriptor on the list, once.
LEMMA EdgeDoes ==
  ASSUME ReadyOK, NEW x \in Fds, Edge(x)
  PROVE  ReadyOK' /\ Members(ready') = Members(ready) \cup {x}
<1>1. CASE x \in Members(ready)
  <2>1. ready' = ready
    BY <1>1 DEF Edge
  <2>2. Members(ready') = Members(ready) \cup {x}
    BY <1>1, <2>1
  <2> QED
    BY <2>1, <2>2 DEF ReadyOK, Once
<1>2. CASE x \notin Members(ready)
  <2>1. ready' = Append(ready, x)
    BY <1>2 DEF Edge
  <2>2. /\ Append(ready, x) \in Seq(Fds)
        /\ Members(Append(ready, x)) = Members(ready) \cup {x}
        /\ Once(Append(ready, x))
    BY <1>2, AppendMembers DEF ReadyOK
  <2> QED
    BY <2>1, <2>2 DEF ReadyOK, Once
<1> QED
  BY <1>1, <1>2

\* So does a registration, if what it asks for is there.
LEMMA RegisterDoes ==
  ASSUME ReadyOK, NEW c \in Clients, NEW ev, Register(c, ev)
  PROVE  /\ ReadyOK' /\ interest' = [interest EXCEPT ![c] = ev]
         /\ \/ ev # "out" /\ ~Readable(c) /\ Members(ready') = Members(ready)
            \/ Members(ready') = Members(ready) \cup {c}
<1>1. interest' = [interest EXCEPT ![c] = ev]
  BY DEF Register
<1>2. CASE ev = "out" \/ Readable(c)
  <2>1. Edge(c) /\ c \in Fds
    BY <1>2 DEF Register, Fds
  <2> QED
    BY <1>1, <2>1, EdgeDoes
<1>3. CASE ~(ev = "out" \/ Readable(c))
  <2>1. ready' = ready
    BY <1>3 DEF Register
  <2>2. Members(ready') = Members(ready)
    BY <2>1
  <2> QED
    BY <1>1, <1>3, <2>1, <2>2 DEF ReadyOK, Once
<1> QED
  BY <1>2, <1>3

\* The descriptor closed leaves the list.
LEMMA NotReadyDoes ==
  ASSUME ReadyOK, NEW x, NotReady(x)
  PROVE  ReadyOK' /\ Members(ready') = Members(ready) \ {x}
<1> DEFINE keep == Members(ready) \ {x}
<1>1. ready' = Filtered(ready, keep)
  BY DEF NotReady
<1> HIDE DEF keep
<1>2. /\ Filtered(ready, keep) \in Seq(Fds) /\ Once(Filtered(ready, keep))
      /\ Members(Filtered(ready, keep)) = Members(ready) \cap keep
  BY FilteredMembers DEF ReadyOK
<1>3. ReadyOK' /\ Members(ready') = Members(ready) \cap keep
  BY <1>1, <1>2 DEF ReadyOK, Once
<1> QED
  BY <1>3 DEF keep

\* The event at hand leaves the events, and the others stay.
LEMMA HandledDoes ==
  ASSUME TypeOK, EventsOnce, NEW x, NEW ev, At(x, ev), rest' = Handled
  PROVE  /\ rest' \in Seq(Events) /\ EventsOnce'
         /\ [fd |-> x, ev |-> ev] \in Members(rest)
         /\ Members(rest') = Members(rest) \ {[fd |-> x, ev |-> ev]}
         /\ \A e \in Members(rest') : e.fd # x
<1> DEFINE h == [fd |-> x, ev |-> ev]
<1>0. rest \in Seq(Events) /\ Once(rest)
  BY TypesOfLists DEF EventsOnce
<1>1. rest # <<>> /\ Head(rest) = h /\ rest' = Tail(rest)
  BY DEF At, Handled
<1>2. /\ rest' \in Seq(Events) /\ Once(rest') /\ h \in Members(rest)
      /\ Members(rest') = Members(rest) \ {h}
  BY <1>0, <1>1, TailMembers
<1>3. h.fd = x
  OBVIOUS
<1> HIDE DEF h
<1>4. \A e \in Members(rest') : e.fd # x
  BY <1>2, <1>3 DEF EventsOnce
<1>5. EventsOnce'
  <2>1. Members(rest)' = Members(rest') /\ Once(rest)'
    BY <1>2 DEF Members, Once
  <2> QED
    BY <1>2, <2>1 DEF EventsOnce
<1> QED
  BY <1>2, <1>4, <1>5 DEF h

\* epoll_wait turns the list into the events whose condition holds.
LEMMA WaitDoes ==
  ASSUME TypeOK, EventInv, Wait
  PROVE  /\ rest' \in Seq(Events) /\ EventsOnce'
         /\ Members(rest') = {Event(x) : x \in {y \in Members(ready) : Holds(y)}}
         /\ \A x \in Members(ready) : Holds(x) => Event(x) \in Members(rest')
<1>0. ReadyOK
  BY TypesOfLists
<1> DEFINE keep == {x \in Members(ready) : Holds(x)}
           some == Filtered(ready, keep)
<1>1. rest' = [i \in DOMAIN some |-> Event(some[i])]
  BY DEF Wait
<1>2. some \in Seq(Fds) /\ Once(some) /\ Members(some) = Members(ready) \cap keep
  <2> HIDE DEF keep
  <2> QED
    BY <1>0, FilteredMembers DEF ReadyOK
<1>3. Members(some) = keep
  BY <1>2
<1> HIDE DEF some, keep
<1>4. Len(some) \in Nat /\ DOMAIN some = 1..Len(some)
  BY <1>2, LenProperties
<1>5. \A i \in DOMAIN some : some[i] \in keep
  BY <1>3 DEF Members
<1>6. ASSUME NEW x \in keep PROVE x \in Members(ready) /\ Holds(x) /\ Event(x) \in Events /\ Event(x).fd = x
  <2>1. x \in Members(ready) /\ Holds(x)
    BY DEF keep
  <2>2. x \in Fds
    <3>1. PICK i \in DOMAIN ready : x = ready[i]
      BY <2>1 DEF Members
    <3>2. DOMAIN ready = 1..Len(ready)
      BY <1>0, LenProperties DEF ReadyOK
    <3> QED
      BY <1>0, <3>1, <3>2, ElementOfSeq DEF ReadyOK
  <2>3. x # Listen => interest[x] \in {"in", "out"}
    <3>1. x # Listen => x \in Clients /\ interest[x] # "none"
      BY <2>1, <2>2 DEF EventInv, Fds
    <3> QED
      BY <3>1 DEF TypeOK
  <2> QED
    BY <2>1, <2>2, <2>3 DEF Event, Events
<1>7. rest' \in Seq(Events)
  <2>1. \A i \in 1..Len(some) : Event(some[i]) \in Events
    BY <1>4, <1>5, <1>6
  <2>2. rest' \in [1..Len(some) -> Events]
    BY <1>1, <1>4, <2>1
  <2> QED
    BY <1>4, <2>2
<1>8. DOMAIN rest' = DOMAIN some /\ \A i \in DOMAIN some : rest'[i] = Event(some[i])
  BY <1>1
<1>9. Members(rest') = {Event(x) : x \in keep}
  <2>1. Members(rest') = {Event(some[i]) : i \in DOMAIN some}
    BY <1>8 DEF Members
  <2>2. \A x \in keep : \E i \in DOMAIN some : x = some[i]
    BY <1>3 DEF Members
  <2> QED
    BY <1>5, <2>1, <2>2
<1>10. Once(rest')
  BY <1>2, <1>5, <1>6, <1>8 DEF Once
<1>11. \A e, f \in Members(rest') : e.fd = f.fd => e = f
  BY <1>6, <1>9
<1>12. EventsOnce'
  <2>1. Members(rest)' = Members(rest') /\ Once(rest)'
    BY <1>10 DEF Members, Once
  <2> QED
    BY <1>11, <2>1 DEF EventsOnce
<1> QED
  BY <1>7, <1>9, <1>12 DEF keep

-----------------------------------------------------------------------------
(* Types.                                                                  *)

\* The history variables.
LEMMA HistoryTypes == Inv /\ [Next]_vars => overlap' \in BOOLEAN /\ burst' \in BOOLEAN
<1> SUFFICES ASSUME Inv, [Next]_vars PROVE overlap' \in BOOLEAN /\ burst' \in BOOLEAN
  OBVIOUS
<1>0. overlap \in BOOLEAN /\ burst \in BOOLEAN
  BY DEF Inv, TypeOK
<1>1. overlap' \in BOOLEAN
  <2>1. CASE History
    BY <2>1, Zenon DEF History
  <2>2. CASE UNCHANGED vars
    BY <1>0, <2>2 DEF vars
  <2> QED
    BY <2>1, <2>2, Zenon DEF Next
<1>2. burst' \in BOOLEAN
  <2>1. ASSUME NEW c \in Clients, ClientConnects(c) PROVE burst' \in BOOLEAN
    BY <2>1, Zenon DEF ClientConnects
  <2>2. CASE burst' = burst
    BY <1>0, <2>2
  <2>3. ASSUME NEW c \in Clients, ClientActs(c) \/ DataComes(c) \/ EndComes(c) PROVE burst' = burst
    BY <2>3, Zenon DEF ClientActs, DataComes, EndComes
  <2>4. ASSUME Server PROVE burst' = burst
    BY <2>4, Zenon DEF Server, Wait, Accept, AcceptFails, ReadSome, ReadEnds, WriteBack, WriteFails,
       WriteKills
  <2>5. ASSUME UNCHANGED vars PROVE burst' = burst
    BY <2>5, Zenon DEF vars
  <2> QED
    BY <2>1, <2>2, <2>3, <2>4, <2>5, Zenon DEF Next, Peer
<1> QED
  BY <1>1, <1>2

\* The numbers of one client.
LEMMA Counts ==
  ASSUME TypeOK, NEW c \in Clients
  PROVE  /\ out[c] \in Nat /\ arrived[c] \in Nat /\ taken[c] \in Nat /\ seen[c] \in Nat
         /\ LineLen[c] \in Nat \ {0} /\ back[c] \in Seq(Clients \X Nat) /\ Len(back[c]) \in Nat
<1>1. /\ out[c] \in Nat /\ arrived[c] \in Nat /\ taken[c] \in Nat /\ seen[c] \in Nat
      /\ back[c] \in Seq(Clients \X Nat)
  BY DEF TypeOK, PeersTypeOK
<1>2. LineLen[c] \in Nat \ {0}
  BY PeersAssumption
<1> QED
  BY <1>1, <1>2, LenProperties

\* Clients and network keep the types of the connections.
LEMMA PeerTypes ==
  ASSUME TypeOK, NEW c \in Clients,
         Connect(c) \/ SendLine(c) \/ ReadPiece(c) \/ Leave(c) \/ Incoming(c)
  PROVE  PeersTypeOK'
<1>0. out[c] + LineLen[c] \in Nat /\ seen[c] + 1 \in Nat /\ arrived[c] + 1 \in Nat
  BY Counts
<1> USE DEF TypeOK, PeersTypeOK
<1>1. CASE Connect(c)
  BY <1>1, AppendProperties DEF Connect
<1>2. CASE SendLine(c)
  <2>1. out' \in [Clients -> Nat]
    BY <1>0, <1>2 DEF SendLine
  <2> QED
    BY <2>1, <1>2 DEF SendLine
<1>3. CASE ReadPiece(c)
  <2>1. seen' \in [Clients -> Nat]
    BY <1>0, <1>3 DEF ReadPiece
  <2>2. cpc' \in [Clients -> {"away", "fgets", "readline", "gone"}]
    BY <1>3 DEF ReadPiece
  <2> QED
    BY <2>1, <2>2, <1>3 DEF ReadPiece
<1>4. CASE Leave(c)
  BY <1>4 DEF Leave
<1>5. CASE Arrive(c)
  <2>1. arrived' \in [Clients -> Nat]
    BY <1>0, <1>5 DEF Arrive
  <2> QED
    BY <2>1, <1>5 DEF Arrive
<1>6. CASE EndArrives(c)
  BY <1>6 DEF EndArrives
<1>7. CASE RstArrives(c)
  BY <1>7 DEF RstArrives
<1> QED
  BY <1>1, <1>2, <1>3, <1>4, <1>5, <1>6, <1>7 DEF Incoming

\* What the pieces read are.
LEMMA PiecesRead ==
  ASSUME TypeOK, NEW c \in Clients, Unread(c) > 0
  PROVE  /\ ReadLen(c) \in Nat \ {0} /\ ReadLen(c) <= Unread(c) /\ ReadLen(c) <= BufLen
         /\ ReadPieces(c) \in Seq(Clients \X Nat) /\ Len(ReadPieces(c)) = ReadLen(c)
         /\ \A j \in 1..ReadLen(c) : ReadPieces(c)[j] = Piece(c, taken[c] + j)
<1>1. taken[c] \in Nat /\ arrived[c] \in Nat /\ BufLen \in Nat \ {0}
  BY Counts, PeersAssumption
<1>2. ReadLen(c) \in Nat \ {0} /\ ReadLen(c) <= Unread(c) /\ ReadLen(c) <= BufLen
  BY <1>1 DEF ReadLen, Unread
<1>3. \A j \in 1..ReadLen(c) : Piece(c, taken[c] + j) \in Clients \X Nat
  BY <1>1, <1>2 DEF Piece
<1>4. ReadPieces(c) \in [1..ReadLen(c) -> Clients \X Nat]
  BY <1>3 DEF ReadPieces
<1>5. ReadPieces(c) \in Seq(Clients \X Nat) /\ Len(ReadPieces(c)) = ReadLen(c)
  BY <1>2, <1>4
<1> QED
  BY <1>2, <1>5 DEF ReadPieces

\* The types of the server's own variables, the histories apart.
ServerTypes ==
  /\ up \in {"up", "accept found nobody", "accept error", "killed"}
  /\ interest \in [Clients -> {"none", "in", "out"}]
  /\ ReadyOK /\ rest \in Seq(Events)
  /\ n \in -1..BufLen /\ buf \in Seq(Clients \X Nat)
  /\ n > 0 => Len(buf) = n
  /\ dropped \subseteq Fds

LEMMA TypesOfServer ==
  ASSUME TypeOK PROVE ServerTypes
  BY DEF TypeOK, ServerTypes, ReadyOK, Once, Events, Fds

\* Steps of the clients and the network.
LEMMA PeerStepTypes ==
  ASSUME Inv, NEW c \in Clients, Peer(c)
  PROVE  PeersTypeOK' /\ ServerTypes'
<1>0. TypeOK /\ ServerTypes /\ c \in Fds /\ Listen \in Fds /\ ReadyOK
  BY TypesOfServer DEF Inv, Fds, ServerTypes
<1>1. CASE ClientConnects(c)
  <2>1. Connect(c) /\ Edge(Listen) /\ UNCHANGED <<up, interest, rest, buf, n, dropped>>
    BY <1>1, Zenon DEF ClientConnects
  <2>2. PeersTypeOK'
    BY <1>0, <2>1, PeerTypes
  <2>3. ReadyOK'
    BY <1>0, <2>1, EdgeDoes
  <2> QED
    BY <1>0, <2>1, <2>2, <2>3 DEF ServerTypes
<1>2. CASE ClientActs(c)
  <2>1. /\ SendLine(c) \/ ReadPiece(c) \/ Leave(c)
        /\ UNCHANGED <<up, interest, ready, rest, buf, n, dropped>>
    BY <1>2, Zenon DEF ClientActs, serverVars
  <2>2. PeersTypeOK'
    BY <1>0, <2>1, PeerTypes
  <2> QED
    BY <1>0, <2>1, <2>2 DEF ServerTypes, ReadyOK, Once
<1>3. CASE DataComes(c) \/ EndComes(c)
  <2>1. /\ Incoming(c) /\ (Edge(c) \/ ready' = ready)
        /\ dropped' = dropped \ {c} \/ dropped' = dropped
        /\ UNCHANGED <<up, interest, rest, buf, n>>
    BY <1>3 DEF DataComes, EndComes, Incoming
  <2>2. PeersTypeOK'
    BY <1>0, <2>1, PeerTypes
  <2>3. ReadyOK'
    <3>1. CASE Edge(c)
      BY <1>0, <3>1, EdgeDoes
    <3>2. CASE ready' = ready
      BY <1>0, <3>2 DEF ReadyOK, Once
    <3> QED
      BY <2>1, <3>1, <3>2
  <2> QED
    BY <1>0, <2>1, <2>2, <2>3 DEF ServerTypes
<1> QED
  BY <1>1, <1>2, <1>3 DEF Peer

\* Steps of the server.
LEMMA ServerStepTypes ==
  ASSUME Inv, Server
  PROVE  PeersTypeOK' /\ ServerTypes'
<1>0. TypeOK /\ EventInv /\ EventsOnce /\ ServerTypes /\ ReadyOK /\ PeersTypeOK /\ BacklogInv
  BY TypesOfServer DEF Inv, EventInv, ServerTypes, TypeOK
<1>1. CASE Wait
  <2>1. ready' = <<>> /\ UNCHANGED <<peerVars, up, interest, buf, n, dropped>>
    BY <1>1, Zenon DEF Wait
  <2>2. rest' \in Seq(Events)
    BY <1>0, <1>1, WaitDoes
  <2>3. ReadyOK'
    BY <2>1 DEF ReadyOK, Once
  <2> QED
    BY <1>0, <2>1, <2>2, <2>3 DEF ServerTypes, PeersTypeOK, peerVars
<1>2. CASE Accept
  <2>1. /\ At(Listen, "in") /\ backlog # <<>> /\ backlog' = Tail(backlog)
        /\ UNCHANGED <<cpc, out, arrived, taken, back, seen, link, up, buf, n, dropped>>
        /\ Register(Head(backlog), "in") /\ rest' = Handled
    BY <1>2, Zenon DEF Accept
  <2>2. backlog' \in Seq(Clients) /\ Head(backlog) \in Clients
    BY <1>0, <2>1, TailMembers, TypesOfLists DEF BacklogInv
  <2>3. ReadyOK' /\ interest' = [interest EXCEPT ![Head(backlog)] = "in"]
    BY <1>0, <2>1, <2>2, RegisterDoes
  <2>4. rest' \in Seq(Events)
    BY <1>0, <2>1, HandledDoes
  <2> QED
    BY <1>0, <2>1, <2>2, <2>3, <2>4 DEF ServerTypes, PeersTypeOK
<1>3. CASE AcceptFails
  BY <1>0, <1>3 DEF AcceptFails, ServerTypes, PeersTypeOK, ReadyOK, Once, peerVars
<1>4. ASSUME NEW c \in Clients, ReadSome(c) PROVE PeersTypeOK' /\ ServerTypes'
  <2>1. /\ At(c, "in") /\ Unread(c) > 0 /\ buf' = ReadPieces(c) /\ n' = Len(buf')
        /\ taken' = [taken EXCEPT ![c] = @ + ReadLen(c)]
        /\ UNCHANGED <<cpc, out, arrived, back, seen, link, backlog, up, dropped>>
        /\ Register(c, "out") /\ rest' = Handled
    BY <1>4, Zenon DEF ReadSome, Filled
  <2>2. ReadyOK' /\ interest' = [interest EXCEPT ![c] = "out"]
    BY <1>0, <2>1, RegisterDoes
  <2>3. rest' \in Seq(Events)
    BY <1>0, <2>1, HandledDoes
  <2>4. /\ ReadLen(c) \in Nat /\ ReadLen(c) <= BufLen /\ taken[c] + ReadLen(c) \in Nat
        /\ buf' \in Seq(Clients \X Nat) /\ Len(buf') = ReadLen(c)
    BY <1>0, <2>1, PiecesRead, Counts
  <2>5. n' \in -1..BufLen
    BY <2>1, <2>4, PeersAssumption
  <2>6. PeersTypeOK'
    BY <1>0, <2>1, <2>4 DEF PeersTypeOK
  <2> QED
    BY <1>0, <2>1, <2>2, <2>3, <2>4, <2>5, <2>6 DEF ServerTypes
<1>5. ASSUME NEW c \in Clients, ReadEnds(c) PROVE PeersTypeOK' /\ ServerTypes'
  <2>1. /\ At(c, "in") /\ Unread(c) = 0 /\ buf' = <<>> /\ n' = ReadResult(c)
        /\ link' = [link EXCEPT ![c] = "closed"]
        /\ interest' = [interest EXCEPT ![c] = "none"] /\ NotReady(c)
        /\ UNCHANGED <<cpc, out, arrived, taken, back, seen, backlog, up, dropped>>
        /\ rest' = Handled
    BY <1>5, Zenon DEF ReadEnds, Close, NewN
  <2>2. ReadyOK'
    BY <1>0, <2>1, NotReadyDoes
  <2>3. rest' \in Seq(Events)
    BY <1>0, <2>1, HandledDoes
  <2>4. n' \in -1..0
    BY <2>1 DEF ReadResult
  <2>5. n' \in -1..BufLen /\ ~(n' > 0)
    BY <2>4, PeersAssumption
  <2>6. PeersTypeOK'
    BY <1>0, <2>1 DEF PeersTypeOK
  <2>7. buf' \in Seq(Clients \X Nat)
    BY <2>1
  <2> QED
    BY <1>0, <2>1, <2>2, <2>3, <2>5, <2>6, <2>7 DEF ServerTypes
<1>6. ASSUME NEW c \in Clients, WriteBack(c) PROVE PeersTypeOK' /\ ServerTypes'
  <2>1. /\ At(c, "out") /\ back' = [back EXCEPT ![c] = @ \o buf]
        /\ UNCHANGED <<cpc, out, arrived, taken, seen, link, backlog, up, buf, n, dropped>>
        /\ Register(c, "in") /\ rest' = Handled
    BY <1>6, Zenon DEF WriteBack
  <2>2. ReadyOK' /\ interest' = [interest EXCEPT ![c] = "in"]
    BY <1>0, <2>1, RegisterDoes
  <2>3. rest' \in Seq(Events)
    BY <1>0, <2>1, HandledDoes
  <2>4. back[c] \o buf \in Seq(Clients \X Nat)
    BY <1>0, Counts, ConcatProperties DEF ServerTypes
  <2>5. PeersTypeOK'
    BY <1>0, <2>1, <2>4 DEF PeersTypeOK
  <2> QED
    BY <1>0, <2>1, <2>2, <2>3, <2>5 DEF ServerTypes
<1>7. ASSUME NEW c \in Clients, WriteFails(c) PROVE PeersTypeOK' /\ ServerTypes'
  <2>1. /\ link' = [link EXCEPT ![c] = "spent"] /\ rest' = <<>>
        /\ dropped' = dropped \cup {rest[i].fd : i \in 2..Len(rest)}
        /\ UNCHANGED <<cpc, out, arrived, taken, back, seen, backlog, up, interest, ready, buf, n>>
    BY <1>7, Zenon DEF WriteFails
  <2>2. dropped' \subseteq Fds
    <3>1. \A i \in 2..Len(rest) : i \in 1..Len(rest)
      BY <1>0, TypesOfLists
    <3>2. \A i \in 1..Len(rest) : rest[i].fd \in Fds
      BY <1>0, TypesOfLists
    <3>3. dropped \subseteq Fds
      BY <1>0 DEF ServerTypes
    <3> QED
      BY <2>1, <3>1, <3>2, <3>3
  <2>3. PeersTypeOK'
    BY <1>0, <2>1 DEF PeersTypeOK
  <2>4. rest' \in Seq(Events)
    BY <2>1
  <2> QED
    BY <1>0, <2>1, <2>2, <2>3, <2>4 DEF ServerTypes, ReadyOK, Once
<1>8. ASSUME NEW c \in Clients, WriteKills(c) PROVE PeersTypeOK' /\ ServerTypes'
  BY <1>0, <1>8 DEF WriteKills, ServerTypes, PeersTypeOK, ReadyOK, Once, peerVars
<1> QED
  BY <1>1, <1>2, <1>3, <1>4, <1>5, <1>6, <1>7, <1>8 DEF Server

\* Every step keeps the types.
LEMMA TypeStep == Inv /\ [Next]_vars => TypeOK'
<1> SUFFICES ASSUME Inv, [Next]_vars PROVE TypeOK'
  OBVIOUS
<1>1. overlap' \in BOOLEAN /\ burst' \in BOOLEAN
  BY HistoryTypes
<1>2. PeersTypeOK' /\ ServerTypes'
  <2>1. CASE UNCHANGED vars
    <3>1. PeersTypeOK /\ ServerTypes
      BY TypesOfServer DEF Inv, TypeOK
    <3>2. UNCHANGED <<peerVars, serverVars, dropped>>
      BY <2>1, Zenon DEF vars
    <3> QED
      BY <3>1, <3>2 DEF peerVars, serverVars, PeersTypeOK, ServerTypes, ReadyOK, Once
  <2>2. CASE Next
    <3>1. Server \/ \E c \in Clients : Peer(c)
      BY <2>2, Zenon DEF Next
    <3> QED
      BY <3>1, ServerStepTypes, PeerStepTypes
  <2> QED
    BY <2>1, <2>2
<1>3. Once(ready') /\ ready' \in Seq(Fds)
  BY <1>2 DEF ServerTypes, ReadyOK, Once
<1> QED
  BY <1>1, <1>2, <1>3, Zenon DEF TypeOK, ServerTypes, Once, Events, Fds
-----------------------------------------------------------------------------
(* What the steps do, in the terms of the invariant.                       *)

\* The events of x leave the events in hand, and no other.
RestLess(x) ==
  /\ EventsOnce'
  /\ Members(rest') \subseteq Members(rest)
  /\ \A e \in Members(rest') : e.fd # x
  /\ \A e \in Members(rest) : e.fd # x => e \in Members(rest')

\* An event handled is one the descriptor asked for.
LEMMA TurnOf ==
  ASSUME Inv, NEW c \in Clients, NEW ev, At(c, ev), rest' = Handled
  PROVE  /\ RestLess(c) /\ ev = interest[c] /\ (ev = "in" => Readable(c))
         /\ c # Listen /\ link[c] \notin {"none", "closed"} /\ cpc[c] # "away"
<1>0. TypeOK /\ EventInv /\ EventsOnce /\ LinkInv
  BY DEF Inv, EventInv
<1>1. /\ EventsOnce' /\ [fd |-> c, ev |-> ev] \in Members(rest)
      /\ Members(rest') = Members(rest) \ {[fd |-> c, ev |-> ev]}
      /\ \A e \in Members(rest') : e.fd # c
  BY <1>0, HandledDoes
<1>2. RestLess(c)
  BY <1>1 DEF RestLess
<1>3. c # Listen
  BY EpollAssumption
<1>4. ev = interest[c] /\ (ev = "in" => Readable(c))
  BY <1>0, <1>1, <1>3 DEF EventInv
<1>5. ev # "none"
  <2>1. PICK i \in DOMAIN rest : rest[i] = [fd |-> c, ev |-> ev]
    BY <1>1 DEF Members
  <2> QED
    BY <1>0, <2>1, TypesOfLists
<1> QED
  BY <1>0, <1>2, <1>3, <1>4, <1>5 DEF LinkInv

LEMMA AcceptDoes ==
  ASSUME Inv, Accept
  PROVE  \E c \in Clients :
         /\ c = Head(backlog) /\ c \in Members(backlog) /\ backlog # <<>> /\ c # Listen
         /\ Once(backlog') /\ Members(backlog') = Members(backlog) \ {c}
         /\ Len(backlog) \in Nat /\ Len(backlog') = Len(backlog) - 1
         /\ Waiting(c) /\ interest' = [interest EXCEPT ![c] = "in"]
         /\ UNCHANGED <<cpc, out, arrived, taken, back, seen, link, up, buf, dropped>>
         /\ \/ ~Readable(c) /\ Members(ready') = Members(ready)
            \/ Members(ready') = Members(ready) \cup {c}
         /\ RestLess(Listen) /\ InRest(Listen)
<1>0. TypeOK /\ EventInv /\ EventsOnce /\ BacklogInv /\ ReadyOK /\ backlog \in Seq(Clients)
  BY TypesOfLists DEF Inv, EventInv
<1>1. /\ At(Listen, "in") /\ backlog # <<>> /\ backlog' = Tail(backlog)
      /\ UNCHANGED <<cpc, out, arrived, taken, back, seen, link, up, buf, dropped>>
      /\ Register(Head(backlog), "in") /\ rest' = Handled
  BY Zenon DEF Accept
<1>2. /\ Head(backlog) \in Clients /\ Head(backlog) \in Members(backlog)
      /\ Once(backlog') /\ Members(backlog') = Members(backlog) \ {Head(backlog)}
      /\ Len(backlog) \in Nat /\ Len(backlog') = Len(backlog) - 1
  BY <1>0, <1>1, TailMembers DEF BacklogInv
<1>3. Waiting(Head(backlog)) /\ Head(backlog) # Listen
  BY <1>0, <1>2, EpollAssumption DEF BacklogInv
<1>4. /\ interest' = [interest EXCEPT ![Head(backlog)] = "in"]
      /\ \/ ~Readable(Head(backlog)) /\ Members(ready') = Members(ready)
         \/ Members(ready') = Members(ready) \cup {Head(backlog)}
  BY <1>0, <1>1, <1>2, RegisterDoes
<1>5. /\ EventsOnce' /\ [fd |-> Listen, ev |-> "in"] \in Members(rest)
      /\ Members(rest') = Members(rest) \ {[fd |-> Listen, ev |-> "in"]}
      /\ \A e \in Members(rest') : e.fd # Listen
  BY <1>0, <1>1, HandledDoes
<1>6. RestLess(Listen) /\ InRest(Listen)
  BY <1>5 DEF RestLess, InRest
<1> QED
  BY <1>1, <1>2, <1>3, <1>4, <1>6

LEMMA ReadSomeDoes ==
  ASSUME Inv, NEW c \in Clients, ReadSome(c)
  PROVE  /\ interest[c] = "in" /\ Unread(c) > 0 /\ Readable(c)
         /\ c # Listen /\ link[c] \notin {"none", "closed"} /\ cpc[c] # "away"
         /\ buf' = ReadPieces(c) /\ taken' = [taken EXCEPT ![c] = @ + ReadLen(c)]
         /\ interest' = [interest EXCEPT ![c] = "out"]
         /\ UNCHANGED <<cpc, out, arrived, back, seen, link, backlog, up, dropped>>
         /\ Members(ready') = Members(ready) \cup {c}
         /\ RestLess(c)
<1>0. ReadyOK
  BY TypesOfLists DEF Inv
<1>1. /\ At(c, "in") /\ Unread(c) > 0 /\ buf' = ReadPieces(c)
      /\ taken' = [taken EXCEPT ![c] = @ + ReadLen(c)]
      /\ UNCHANGED <<cpc, out, arrived, back, seen, link, backlog, up, dropped>>
      /\ Register(c, "out") /\ rest' = Handled
  BY Zenon DEF ReadSome, Filled
<1>2. interest' = [interest EXCEPT ![c] = "out"] /\ Members(ready') = Members(ready) \cup {c}
  BY <1>0, <1>1, RegisterDoes
<1> QED
  BY <1>1, <1>2, TurnOf

LEMMA ReadEndsDoes ==
  ASSUME Inv, NEW c \in Clients, ReadEnds(c)
  PROVE  /\ interest[c] = "in" /\ Unread(c) = 0 /\ Readable(c)
         /\ c # Listen /\ link[c] \notin {"none", "closed"} /\ cpc[c] # "away"
         /\ buf' = <<>> /\ interest' = [interest EXCEPT ![c] = "none"]
         /\ link' = [link EXCEPT ![c] = "closed"]
         /\ UNCHANGED <<cpc, out, arrived, taken, back, seen, backlog, up, dropped>>
         /\ Members(ready') = Members(ready) \ {c}
         /\ RestLess(c)
<1>0. ReadyOK
  BY TypesOfLists DEF Inv
<1>1. /\ At(c, "in") /\ Unread(c) = 0 /\ buf' = <<>>
      /\ interest' = [interest EXCEPT ![c] = "none"] /\ NotReady(c)
      /\ link' = [link EXCEPT ![c] = "closed"]
      /\ UNCHANGED <<cpc, out, arrived, taken, back, seen, backlog, up, dropped>>
      /\ rest' = Handled
  BY Zenon DEF ReadEnds, Close
<1>2. Members(ready') = Members(ready) \ {c}
  BY <1>0, <1>1, NotReadyDoes
<1> QED
  BY <1>1, <1>2, TurnOf

LEMMA WriteBackDoes ==
  ASSUME Inv, NEW c \in Clients, WriteBack(c)
  PROVE  /\ interest[c] = "out"
         /\ c # Listen /\ link[c] \notin {"none", "closed"} /\ cpc[c] # "away"
         /\ back' = [back EXCEPT ![c] = @ \o buf]
         /\ interest' = [interest EXCEPT ![c] = "in"]
         /\ UNCHANGED <<cpc, out, arrived, taken, seen, link, backlog, up, buf, dropped>>
         /\ \/ ~Readable(c) /\ Members(ready') = Members(ready)
            \/ Members(ready') = Members(ready) \cup {c}
         /\ RestLess(c)
<1>0. ReadyOK
  BY TypesOfLists DEF Inv
<1>1. /\ At(c, "out") /\ back' = [back EXCEPT ![c] = @ \o buf]
      /\ UNCHANGED <<cpc, out, arrived, taken, seen, link, backlog, up, buf, dropped>>
      /\ Register(c, "in") /\ rest' = Handled
  BY Zenon DEF WriteBack
<1>2. /\ interest' = [interest EXCEPT ![c] = "in"]
      /\ \/ ~Readable(c) /\ Members(ready') = Members(ready)
         \/ Members(ready') = Members(ready) \cup {c}
  BY <1>0, <1>1, RegisterDoes
<1> QED
  BY <1>1, <1>2, TurnOf

\* The break: every event in hand but the one at hand is dropped.
LEMMA WriteFailsDoes ==
  ASSUME Inv, NEW c \in Clients, WriteFails(c)
  PROVE  /\ interest[c] = "out" /\ c # Listen
         /\ link[c] = "reset" /\ link' = [link EXCEPT ![c] = "spent"]
         /\ UNCHANGED <<cpc, out, arrived, taken, back, seen, backlog, up, interest, ready, buf>>
         /\ rest' = <<>> /\ Members(rest') = {} /\ EventsOnce'
         /\ dropped \subseteq dropped'
         /\ \A e \in Members(rest) : e.fd # c => e.fd \in dropped'
<1>0. TypeOK /\ EventInv /\ rest \in Seq(Events) /\ DOMAIN rest = 1..Len(rest) /\ Len(rest) \in Nat
  BY TypesOfLists DEF Inv
<1>1. /\ At(c, "out") /\ link[c] = "reset" /\ link' = [link EXCEPT ![c] = "spent"]
      /\ rest' = <<>> /\ dropped' = dropped \cup {rest[i].fd : i \in 2..Len(rest)}
      /\ UNCHANGED <<cpc, out, arrived, taken, back, seen, backlog, up, interest, ready, buf>>
  BY Zenon DEF WriteFails
<1>2. c # Listen
  BY EpollAssumption
<1>3. rest # <<>> /\ Head(rest) = [fd |-> c, ev |-> "out"] /\ Head(rest) = rest[1]
  BY <1>0, <1>1 DEF At
<1>4. 1 \in DOMAIN rest
  BY <1>0, <1>3
<1>5. interest[c] = "out"
  BY <1>0, <1>2, <1>3, <1>4 DEF EventInv, Members
<1>6. ASSUME NEW e \in Members(rest), e.fd # c PROVE e.fd \in dropped'
  <2>1. PICK i \in DOMAIN rest : e = rest[i]
    BY DEF Members
  <2>2. i # 1
    BY <1>3, <1>6, <2>1
  <2>3. i \in 2..Len(rest)
    BY <1>0, <2>1, <2>2
  <2> QED
    BY <1>1, <2>1, <2>3
<1>7. Members(rest') = {} /\ EventsOnce'
  BY <1>1 DEF Members, EventsOnce, Once
<1> QED
  BY <1>1, <1>2, <1>5, <1>6, <1>7

\* Steps of the server that leave the connections alone.
LEMMA IdleDoes ==
  ASSUME Inv, Wait \/ AcceptFails \/ (\E c \in Clients : WriteKills(c)) \/ UNCHANGED vars
  PROVE  UNCHANGED <<cpc, out, arrived, taken, back, seen, link, backlog, interest, buf, dropped>>
  BY DEF Wait, AcceptFails, WriteKills, vars, peerVars, serverVars

\* Steps of the clients and the network.
LEMMA PeerDoes ==
  ASSUME Inv, NEW c \in Clients, Peer(c)
  PROVE  /\ Connect(c) \/ SendLine(c) \/ ReadPiece(c) \/ Leave(c) \/ Incoming(c)
         /\ UNCHANGED <<interest, rest, buf, up, taken, back>>
         /\ Connect(c) \/ backlog' = backlog
<1>1. /\ Connect(c) \/ SendLine(c) \/ ReadPiece(c) \/ Leave(c) \/ Incoming(c)
      /\ UNCHANGED <<interest, rest, buf, up>>
  BY DEF Peer, ClientConnects, ClientActs, DataComes, EndComes, serverVars, Incoming
<1> QED
  BY <1>1 DEF Connect, SendLine, ReadPiece, Leave, Incoming, Arrive, EndArrives, RstArrives

\* A step of the clients or the network never adds a descriptor to those whose
\* event was dropped, and takes one off only with an edge.
LEMMA PeerEdges ==
  ASSUME Inv, NEW c \in Clients, Peer(c)
  PROVE  /\ \/ Connect(c) /\ Members(ready') = Members(ready) \cup {Listen} /\ dropped' = dropped
            \/ ~Connect(c) /\ Members(ready') = Members(ready) /\ dropped' = dropped
            \/ /\ ~Connect(c) /\ interest[c] # "none" /\ dropped' = dropped \ {c}
               /\ Members(ready') = Members(ready) \cup {c}
         /\ (interest[c] = "in" /\ Incoming(c)) => c \in Members(ready')
<1>0. ReadyOK /\ c \in Fds /\ Listen \in Fds
  BY TypesOfLists DEF Inv, Fds
<1>1. CASE ClientConnects(c)
  <2>1. Connect(c) /\ Edge(Listen) /\ dropped' = dropped
    BY <1>1, Zenon DEF ClientConnects
  <2>2. Members(ready') = Members(ready) \cup {Listen}
    BY <1>0, <2>1, EdgeDoes
  <2>3. cpc' # cpc /\ (Incoming(c) => cpc' = cpc)
    BY <2>1 DEF Connect, Incoming, Arrive, EndArrives, RstArrives, Inv, TypeOK, PeersTypeOK
  <2> QED
    BY <2>1, <2>2, <2>3
<1>2. CASE ClientActs(c)
  <2>1. (SendLine(c) \/ ReadPiece(c) \/ Leave(c)) /\ ready' = ready /\ dropped' = dropped
    BY <1>2, Zenon DEF ClientActs, serverVars
  <2>2. ~Connect(c) /\ ~Incoming(c)
    <3>0. /\ out \in [Clients -> Nat] /\ seen \in [Clients -> Nat]
          /\ cpc \in [Clients -> {"away", "fgets", "readline", "gone"}]
          /\ arrived \in [Clients -> Nat] /\ LineLen[c] \in Nat \ {0}
          /\ link \in [Clients -> {"none", "open", "fin", "reset", "broken", "spent", "closed"}]
      BY Counts DEF Inv, TypeOK, PeersTypeOK
    <3>1. ~Connect(c)
      BY <2>1 DEF SendLine, ReadPiece, Leave, Connect
    <3>2. arrived' = arrived /\ link' = link
      BY <2>1 DEF SendLine, ReadPiece, Leave
    <3>3. ~Incoming(c)
      BY <3>0, <3>2 DEF Incoming, Arrive, EndArrives, RstArrives
    <3> QED
      BY <3>1, <3>3
  <2>3. Members(ready') = Members(ready)
    BY <2>1
  <2> QED
    BY <2>1, <2>2, <2>3
<1>3. CASE DataComes(c) \/ EndComes(c)
  <2>1. /\ Incoming(c)
        /\ \/ Edge(c) /\ interest[c] # "none" /\ dropped' = dropped \ {c}
           \/ ready' = ready /\ dropped' = dropped /\ (interest[c] = "in" => FALSE)
    BY <1>3 DEF DataComes, EndComes, Incoming
  <2>2. ~Connect(c)
    BY <2>1 DEF Connect, Incoming, Arrive, EndArrives, RstArrives, Inv, TypeOK, PeersTypeOK
  <2>3. CASE Edge(c) /\ interest[c] # "none" /\ dropped' = dropped \ {c}
    BY <1>0, <2>2, <2>3, EdgeDoes
  <2>4. CASE ready' = ready /\ dropped' = dropped /\ (interest[c] = "in" => FALSE)
    <3>1. Members(ready') = Members(ready)
      BY <2>4
    <3> QED
      BY <2>2, <2>4, <3>1
  <2> QED
    BY <2>1, <2>3, <2>4
<1> QED
  BY <1>1, <1>2, <1>3 DEF Peer
-----------------------------------------------------------------------------
(* The connections.                                                        *)

\* A step is one of the server, one of a client or the network, or none.
LEMMA Steps ==
  ASSUME [Next]_vars
  PROVE  \/ Wait \/ AcceptFails \/ (\E c \in Clients : WriteKills(c)) \/ UNCHANGED vars
         \/ Accept
         \/ \E c \in Clients : ReadSome(c) \/ ReadEnds(c) \/ WriteBack(c) \/ WriteFails(c) \/ Peer(c)
<1>1. CASE Next
  <2>1. Server \/ \E c \in Clients : Peer(c)
    BY <1>1, Zenon DEF Next
  <2> QED
    BY <2>1, Zenon DEF Server
<1> QED
  BY <1>1

Idle == Wait \/ AcceptFails \/ (\E c \in Clients : WriteKills(c)) \/ UNCHANGED vars

\* The counts stay in order.
LEMMA CountStep == Inv /\ [Next]_vars => CountInv'
<1> SUFFICES ASSUME Inv, [Next]_vars, NEW d \in Clients
             PROVE  taken'[d] <= arrived'[d] /\ arrived'[d] <= out'[d]
  BY DEF CountInv
<1>0. /\ taken[d] <= arrived[d] /\ arrived[d] <= out[d] /\ LineLen[d] \in Nat
      /\ out[d] \in Nat /\ arrived[d] \in Nat /\ taken[d] \in Nat
  BY Counts DEF Inv, CountInv
<1>1. CASE UNCHANGED <<out, arrived, taken>>
  BY <1>0, <1>1
<1>2. ASSUME NEW c \in Clients, ReadSome(c)
      PROVE  taken'[d] <= arrived'[d] /\ arrived'[d] <= out'[d]
  <2>1. UNCHANGED <<out, arrived>> /\ taken' = [taken EXCEPT ![c] = @ + ReadLen(c)] /\ Unread(c) > 0
    BY <1>2, ReadSomeDoes
  <2>2. ReadLen(c) \in Nat /\ ReadLen(c) <= Unread(c)
    BY <2>1, PiecesRead DEF Inv
  <2>3. taken'[d] = IF d = c THEN taken[d] + ReadLen(c) ELSE taken[d]
    BY <2>1 DEF Inv, TypeOK, PeersTypeOK
  <2>4. CASE d = c
    BY <1>0, <2>1, <2>2, <2>3, <2>4 DEF Unread
  <2> QED
    BY <1>0, <2>1, <2>3, <2>4
<1>3. ASSUME NEW c \in Clients, Peer(c)
      PROVE  taken'[d] <= arrived'[d] /\ arrived'[d] <= out'[d]
  <2>1. /\ Connect(c) \/ SendLine(c) \/ ReadPiece(c) \/ Leave(c) \/ Incoming(c)
        /\ taken' = taken
    BY <1>3, PeerDoes
  <2>2. CASE SendLine(c)
    <3>1. arrived'[d] = arrived[d] /\ (out'[d] = out[d] \/ out'[d] = out[d] + LineLen[d])
      BY <2>2 DEF SendLine, Inv, TypeOK, PeersTypeOK
    <3> QED
      BY <2>1, <3>1, <1>0
  <2>3. CASE Arrive(c)
    <3>1. \/ arrived'[d] = arrived[d] /\ out'[d] = out[d]
          \/ arrived'[d] = arrived[d] + 1 /\ out'[d] = out[d] /\ arrived[d] < out[d]
      BY <2>3 DEF Arrive, Inv, TypeOK, PeersTypeOK
    <3> QED
      BY <2>1, <3>1, <1>0
  <2>4. CASE ~SendLine(c) /\ ~Arrive(c)
    BY <2>1, <2>4, <1>0 DEF Connect, ReadPiece, Leave, Incoming, EndArrives, RstArrives
  <2> QED
    BY <2>2, <2>3, <2>4
<1>4. CASE Accept
  BY <1>1, <1>4, AcceptDoes
<1>5. ASSUME NEW c \in Clients, ReadEnds(c) \/ WriteBack(c) \/ WriteFails(c)
      PROVE  taken'[d] <= arrived'[d] /\ arrived'[d] <= out'[d]
  BY <1>1, <1>5, ReadEndsDoes, WriteBackDoes, WriteFailsDoes
<1>6. CASE Idle
  BY <1>1, <1>6, IdleDoes DEF Idle
<1> QED
  BY <1>2, <1>3, <1>4, <1>5, <1>6, Steps DEF Idle

\* What LinkInv says of one client.
LinkOf(c) ==
  /\ link[c] \in Ended => cpc[c] = "gone"
  /\ cpc[c] = "away" => interest[c] = "none"
  /\ interest[c] # "none" => link[c] \notin {"none", "closed"}

\* The connections stay in order.
LEMMA LinkStep == Inv /\ [Next]_vars => LinkInv'
<1> SUFFICES ASSUME Inv, [Next]_vars, NEW d \in Clients PROVE LinkOf(d)'
  BY DEF LinkInv, LinkOf
<1>0. /\ LinkOf(d) /\ cpc \in [Clients -> {"away", "fgets", "readline", "gone"}]
      /\ interest \in [Clients -> {"none", "in", "out"}]
      /\ link \in [Clients -> {"none", "open", "fin", "reset", "broken", "spent", "closed"}]
  BY DEF Inv, LinkInv, LinkOf, TypeOK, PeersTypeOK
<1>1. CASE Idle
  BY <1>0, <1>1, IdleDoes DEF Idle, LinkOf
<1>2. CASE Accept
  <2>1. PICK c \in Clients :
          Waiting(c) /\ interest' = [interest EXCEPT ![c] = "in"] /\ UNCHANGED <<cpc, link>>
    BY <1>2, AcceptDoes
  <2> QED
    BY <1>0, <2>1 DEF LinkOf, Waiting
<1>3. ASSUME NEW c \in Clients, ReadSome(c) \/ WriteBack(c) PROVE LinkOf(d)'
  <2>1. /\ link[c] \notin {"none", "closed"} /\ cpc[c] # "away" /\ UNCHANGED <<cpc, link>>
        /\ \E ev : interest' = [interest EXCEPT ![c] = ev]
    BY <1>3, ReadSomeDoes, WriteBackDoes
  <2> QED
    BY <1>0, <2>1 DEF LinkOf
<1>4. ASSUME NEW c \in Clients, ReadEnds(c) PROVE LinkOf(d)'
  <2>1. /\ UNCHANGED cpc /\ interest' = [interest EXCEPT ![c] = "none"]
        /\ link' = [link EXCEPT ![c] = "closed"]
    BY <1>4, ReadEndsDoes
  <2> QED
    BY <1>0, <2>1 DEF LinkOf, Ended
<1>5. ASSUME NEW c \in Clients, WriteFails(c) PROVE LinkOf(d)'
  <2>1. link[c] = "reset" /\ UNCHANGED <<cpc, interest>> /\ link' = [link EXCEPT ![c] = "spent"]
    BY <1>5, WriteFailsDoes
  <2> QED
    BY <1>0, <2>1 DEF LinkOf, Ended
<1>6. ASSUME NEW c \in Clients, Peer(c) PROVE LinkOf(d)'
  <2>1. /\ Connect(c) \/ SendLine(c) \/ ReadPiece(c) \/ Leave(c) \/ Incoming(c)
        /\ interest' = interest
    BY <1>6, PeerDoes
  <2>2. CASE Connect(c)
    BY <1>0, <2>1, <2>2 DEF Connect, LinkOf, Ended
  <2>3. CASE SendLine(c) \/ ReadPiece(c) \/ Leave(c)
    BY <1>0, <2>1, <2>3 DEF SendLine, ReadPiece, Leave, LinkOf
  <2>4. CASE Incoming(c)
    BY <1>0, <2>1, <2>4 DEF Incoming, Arrive, EndArrives, RstArrives, LinkOf, Ended
  <2> QED
    BY <2>1, <2>2, <2>3, <2>4
<1> QED
  BY <1>1, <1>2, <1>3, <1>4, <1>5, <1>6, Steps DEF Idle

\* A connection that waits goes on waiting until it is accepted.
LEMMA BacklogStep == Inv /\ [Next]_vars => BacklogInv'
<1> SUFFICES ASSUME Inv, [Next]_vars PROVE BacklogInv'
  OBVIOUS
<1>0. /\ backlog \in Seq(Clients) /\ Once(backlog) /\ \A x \in Members(backlog) : Waiting(x)
      /\ cpc \in [Clients -> {"away", "fgets", "readline", "gone"}]
      /\ interest \in [Clients -> {"none", "in", "out"}]
      /\ link \in [Clients -> {"none", "open", "fin", "reset", "broken", "spent", "closed"}]
  BY DEF Inv, BacklogInv, TypeOK, PeersTypeOK
<1>a. \A x \in Members(backlog) : x \in Clients
  BY TypesOfLists DEF Members, Inv
<1>b. ASSUME Once(backlog'), \A x \in Members(backlog') : Waiting(x)' PROVE BacklogInv'
  <2>1. Members(backlog)' = Members(backlog') /\ Once(backlog)'
    BY <1>b DEF Members, Once
  <2> QED
    BY <1>b, <2>1 DEF BacklogInv
<1>1. CASE Idle
  <2>1. UNCHANGED <<backlog, cpc, interest, link>>
    BY <1>1, IdleDoes DEF Idle
  <2> QED
    BY <1>0, <1>b, <2>1 DEF Waiting
<1>2. CASE Accept
  <2>1. PICK c \in Clients :
          /\ Once(backlog') /\ Members(backlog') = Members(backlog) \ {c}
          /\ interest' = [interest EXCEPT ![c] = "in"] /\ UNCHANGED <<cpc, link>>
    BY <1>2, AcceptDoes
  <2>2. \A x \in Members(backlog') : Waiting(x)'
    BY <1>0, <1>a, <2>1 DEF Waiting
  <2> QED
    BY <1>b, <2>1, <2>2
<1>3. ASSUME NEW c \in Clients, ReadSome(c) \/ WriteBack(c) PROVE BacklogInv'
  <2>1. /\ interest[c] # "none" /\ UNCHANGED <<backlog, cpc, link>>
        /\ \E ev : interest' = [interest EXCEPT ![c] = ev]
    BY <1>3, ReadSomeDoes, WriteBackDoes
  <2>2. \A x \in Members(backlog) : Waiting(x)'
    BY <1>0, <1>a, <2>1 DEF Waiting
  <2> QED
    BY <1>0, <1>b, <2>1, <2>2
<1>4. ASSUME NEW c \in Clients, ReadEnds(c) PROVE BacklogInv'
  <2>1. /\ interest[c] = "in" /\ UNCHANGED <<backlog, cpc>>
        /\ interest' = [interest EXCEPT ![c] = "none"] /\ link' = [link EXCEPT ![c] = "closed"]
    BY <1>4, ReadEndsDoes
  <2>2. \A x \in Members(backlog) : Waiting(x)'
    BY <1>0, <1>a, <2>1 DEF Waiting
  <2> QED
    BY <1>0, <1>b, <2>1, <2>2
<1>5. ASSUME NEW c \in Clients, WriteFails(c) PROVE BacklogInv'
  <2>1. UNCHANGED <<backlog, cpc, interest>> /\ link' = [link EXCEPT ![c] = "spent"]
    BY <1>5, WriteFailsDoes
  <2>2. \A x \in Members(backlog) : Waiting(x)'
    BY <1>0, <1>a, <2>1 DEF Waiting
  <2> QED
    BY <1>0, <1>b, <2>1, <2>2
<1>6. ASSUME NEW c \in Clients, Peer(c) PROVE BacklogInv'
  <2>1. /\ Connect(c) \/ SendLine(c) \/ ReadPiece(c) \/ Leave(c) \/ Incoming(c)
        /\ interest' = interest /\ (Connect(c) \/ backlog' = backlog)
    BY <1>6, PeerDoes
  <2>2. CASE Connect(c)
    <3>1. /\ cpc[c] = "away" /\ backlog' = Append(backlog, c)
          /\ cpc' = [cpc EXCEPT ![c] = "fgets"] /\ link' = [link EXCEPT ![c] = "open"]
      BY <2>2 DEF Connect
    <3>2. c \notin Members(backlog) /\ interest[c] = "none"
      BY <1>0, <3>1 DEF Waiting, Inv, LinkInv
    <3>3. Once(backlog') /\ Members(backlog') = Members(backlog) \cup {c}
      BY <1>0, <3>1, <3>2, AppendMembers
    <3>4. \A x \in Members(backlog') : Waiting(x)'
      BY <1>0, <1>a, <2>1, <3>1, <3>2, <3>3 DEF Waiting
    <3> QED
      BY <1>b, <3>3, <3>4
  <2>3. CASE ~Connect(c)
    <3>1. ASSUME NEW x \in Members(backlog) PROVE Waiting(x)'
      <4>1. x \in Clients /\ Waiting(x)
        BY <1>0, <1>a
      <4>2. CASE SendLine(c) \/ ReadPiece(c) \/ Leave(c)
        BY <1>0, <2>1, <4>1, <4>2 DEF SendLine, ReadPiece, Leave, Waiting
      <4>3. CASE Incoming(c)
        BY <1>0, <2>1, <4>1, <4>3 DEF Incoming, Arrive, EndArrives, RstArrives, Waiting
      <4> QED
        BY <2>1, <2>3, <4>2, <4>3
    <3> QED
      BY <1>0, <1>b, <2>1, <2>3, <3>1
  <2> QED
    BY <2>2, <2>3
<1> QED
  BY <1>1, <1>2, <1>3, <1>4, <1>5, <1>6, Steps DEF Idle
-----------------------------------------------------------------------------
(* The events.                                                             *)

\* What there is to read for a registered client stays until the server reads it.
LEMMA ReadableStays ==
  ASSUME Inv, NEW c \in Clients, Peer(c), NEW d \in Clients, interest[d] # "none", Readable(d)
  PROVE  Readable(d)'
<1>0. /\ arrived[d] \in Nat /\ taken[d] \in Nat /\ arrived \in [Clients -> Nat]
      /\ link \in [Clients -> {"none", "open", "fin", "reset", "broken", "spent", "closed"}]
      /\ cpc[d] # "away"
  BY Counts DEF Inv, LinkInv, TypeOK, PeersTypeOK
<1>1. /\ Connect(c) \/ SendLine(c) \/ ReadPiece(c) \/ Leave(c) \/ Incoming(c)
      /\ taken' = taken
  BY PeerDoes
<1>2. CASE Connect(c)
  <2>1. arrived'[d] = arrived[d] /\ link'[d] = link[d]
    BY <1>0, <1>2 DEF Connect
  <2> QED
    BY <1>1, <2>1 DEF Readable, Unread
<1>3. CASE SendLine(c) \/ ReadPiece(c) \/ Leave(c)
  BY <1>1, <1>3 DEF SendLine, ReadPiece, Leave, Readable, Unread
<1>4. CASE Arrive(c)
  <2>1. link' = link /\ (arrived'[d] = arrived[d] \/ arrived'[d] = arrived[d] + 1)
    BY <1>0, <1>4 DEF Arrive
  <2> QED
    BY <1>0, <1>1, <2>1 DEF Readable, Unread
<1>5. CASE EndArrives(c) \/ RstArrives(c)
  <2>1. arrived' = arrived /\ (link'[d] = link[d] \/ link'[d] \in Ended)
    BY <1>0, <1>5 DEF EndArrives, RstArrives, Ended
  <2> QED
    BY <1>1, <2>1 DEF Readable, Unread
<1> QED
  BY <1>1, <1>2, <1>3, <1>4, <1>5 DEF Incoming

\* What EventInv says, of lists after a step.
LEMMA EventsNext ==
  ASSUME EventsOnce',
         \A e \in Members(rest') : e.fd # Listen =>
           e.ev = interest'[e.fd] /\ (e.ev = "in" => Readable(e.fd)'),
         \A x \in Members(ready') : x # Listen => interest'[x] # "none"
  PROVE  EventInv'
<1>1. Members(rest)' = Members(rest') /\ Members(ready)' = Members(ready')
  BY DEF Members
<1> QED
  BY <1>1 DEF EventInv

\* An event in hand is one of a registered descriptor.
LEMMA EventsRegistered ==
  ASSUME Inv, NEW e \in Members(rest), e.fd # Listen
  PROVE  /\ e.fd \in Clients /\ e.ev = interest[e.fd] /\ interest[e.fd] # "none"
         /\ e.ev = "in" => Readable(e.fd)
<1>1. PICK i \in DOMAIN rest : e = rest[i]
  BY DEF Members
<1>2. e.fd \in Fds /\ e.ev \in {"in", "out"}
  BY <1>1, TypesOfLists DEF Inv
<1>3. e.ev = interest[e.fd] /\ (e.ev = "in" => Readable(e.fd))
  BY DEF Inv, EventInv
<1> QED
  BY <1>2, <1>3 DEF Fds

\* Those on the ready list are descriptors.
LEMMA ReadyFds ==
  ASSUME Inv, NEW x \in Members(ready), x # Listen
  PROVE  x \in Clients /\ interest[x] # "none"
<1>1. ReadyOK
  BY TypesOfLists DEF Inv
<1>2. PICK i \in DOMAIN ready : x = ready[i]
  BY DEF Members
<1>3. DOMAIN ready = 1..Len(ready)
  BY <1>1, LenProperties DEF ReadyOK
<1>4. x \in Fds
  BY <1>1, <1>2, <1>3, ElementOfSeq DEF ReadyOK
<1> QED
  BY <1>4 DEF Fds, Inv, EventInv

\* The events in hand stay true.
LEMMA EventStep == Inv /\ [Next]_vars => EventInv'
<1> SUFFICES ASSUME Inv, [Next]_vars PROVE EventInv'
  OBVIOUS
<1>0. /\ EventsOnce /\ interest \in [Clients -> {"none", "in", "out"}]
      /\ taken \in [Clients -> Nat]
      /\ link \in [Clients -> {"none", "open", "fin", "reset", "broken", "spent", "closed"}]
  BY DEF Inv, EventInv, TypeOK, PeersTypeOK
<1>1. CASE AcceptFails \/ (\E c \in Clients : WriteKills(c)) \/ UNCHANGED vars
  <2>1. UNCHANGED <<rest, ready, interest, arrived, taken, link>>
    BY <1>1 DEF AcceptFails, WriteKills, vars, peerVars, serverVars
  <2>2. EventInv
    BY DEF Inv
  <2> QED
    BY <2>1, <2>2 DEF EventInv, EventsOnce, Members, Once, Readable, Unread
<1>2. CASE Wait
  <2>1. /\ EventsOnce' /\ Members(rest') = {Event(x) : x \in {y \in Members(ready) : Holds(y)}}
    BY <1>2, WaitDoes DEF Inv
  <2>2. UNCHANGED <<arrived, taken, link, interest>> /\ ready' = <<>>
    BY <1>2, Zenon DEF Wait, peerVars
  <2>3. ASSUME NEW e \in Members(rest'), e.fd # Listen
        PROVE  e.ev = interest'[e.fd] /\ (e.ev = "in" => Readable(e.fd)')
    <3>1. PICK x \in Members(ready) : Holds(x) /\ e = Event(x)
      BY <2>1, <2>3
    <3>2. e.fd = x /\ e.ev = interest[x] /\ x # Listen
      BY <2>3, <3>1 DEF Event
    <3>3. e.ev = "in" => Readable(x)
      BY <3>1, <3>2 DEF Holds
    <3> QED
      BY <2>2, <3>2, <3>3 DEF Readable, Unread
  <2>4. Members(ready') = {}
    BY <2>2 DEF Members
  <2> QED
    BY <2>1, <2>3, <2>4, EventsNext
<1>3. CASE Accept
  <2>1. PICK c \in Clients :
          /\ Waiting(c) /\ interest' = [interest EXCEPT ![c] = "in"] /\ RestLess(Listen)
          /\ UNCHANGED <<arrived, taken, link>>
          /\ Members(ready') = Members(ready) \/ Members(ready') = Members(ready) \cup {c}
    BY <1>3, AcceptDoes
  <2>2. interest[c] = "none"
    BY <2>1 DEF Waiting
  <2>3. ASSUME NEW e \in Members(rest'), e.fd # Listen
        PROVE  e.ev = interest'[e.fd] /\ (e.ev = "in" => Readable(e.fd)')
    <3>1. e \in Members(rest)
      BY <2>1, <2>3 DEF RestLess
    <3>2. /\ e.fd \in Clients /\ e.ev = interest[e.fd] /\ interest[e.fd] # "none"
          /\ e.ev = "in" => Readable(e.fd)
      BY <2>3, <3>1, EventsRegistered
    <3> QED
      BY <1>0, <2>1, <2>2, <3>2 DEF Readable, Unread
  <2>4. \A x \in Members(ready') : x # Listen => interest'[x] # "none"
    BY <1>0, <2>1, ReadyFds
  <2> QED
    BY <2>1, <2>3, <2>4, EventsNext DEF RestLess
<1>4. ASSUME NEW c \in Clients, ReadSome(c) \/ WriteBack(c) \/ ReadEnds(c) PROVE EventInv'
  <2>1. /\ RestLess(c) /\ arrived' = arrived /\ \A d \in Clients : d # c =>
             interest'[d] = interest[d] /\ taken'[d] = taken[d] /\ link'[d] = link[d]
        /\ \A x \in Members(ready') : x = c \/ x \in Members(ready)
        /\ c \in Members(ready') => interest'[c] # "none"
    <3>1. CASE ReadSome(c)
      BY <1>0, <3>1, ReadSomeDoes
    <3>2. CASE WriteBack(c)
      BY <1>0, <3>2, WriteBackDoes
    <3>3. CASE ReadEnds(c)
      BY <1>0, <3>3, ReadEndsDoes
    <3> QED
      BY <1>4, <3>1, <3>2, <3>3
  <2>2. ASSUME NEW e \in Members(rest'), e.fd # Listen
        PROVE  e.ev = interest'[e.fd] /\ (e.ev = "in" => Readable(e.fd)')
    <3>1. e \in Members(rest) /\ e.fd # c
      BY <2>1, <2>2 DEF RestLess
    <3>2. e.fd \in Clients /\ e.ev = interest[e.fd] /\ (e.ev = "in" => Readable(e.fd))
      BY <2>2, <3>1, EventsRegistered
    <3> QED
      BY <2>1, <3>1, <3>2 DEF Readable, Unread
  <2>3. \A x \in Members(ready') : x # Listen => interest'[x] # "none"
    BY <2>1, ReadyFds
  <2> QED
    BY <2>1, <2>2, <2>3, EventsNext DEF RestLess
<1>5. ASSUME NEW c \in Clients, WriteFails(c) PROVE EventInv'
  <2>1. Members(rest') = {} /\ EventsOnce' /\ UNCHANGED <<ready, interest>>
    BY <1>5, WriteFailsDoes
  <2>2. Members(ready') = Members(ready)
    BY <2>1
  <2> QED
    BY <2>1, <2>2, ReadyFds, EventsNext
<1>6. ASSUME NEW c \in Clients, Peer(c) PROVE EventInv'
  <2>1. interest' = interest /\ rest' = rest
    BY <1>6, PeerDoes
  <2>2. \A x \in Members(ready') : x # Listen => x \in Members(ready) \/ (x = c /\ interest[c] # "none")
    BY <1>6, PeerEdges
  <2>3. EventsOnce'
    BY <1>0, <2>1 DEF EventsOnce, Members, Once
  <2>4. ASSUME NEW e \in Members(rest'), e.fd # Listen
        PROVE  e.ev = interest'[e.fd] /\ (e.ev = "in" => Readable(e.fd)')
    <3>1. e \in Members(rest)
      BY <2>1, <2>4
    <3>2. /\ e.fd \in Clients /\ e.ev = interest[e.fd] /\ interest[e.fd] # "none"
          /\ e.ev = "in" => Readable(e.fd)
      BY <2>4, <3>1, EventsRegistered
    <3>3. Readable(e.fd) => Readable(e.fd)'
      BY <1>6, <3>2, ReadableStays
    <3> QED
      BY <2>1, <3>2, <3>3
  <2>5. \A x \in Members(ready') : x # Listen => interest'[x] # "none"
    BY <2>1, <2>2, ReadyFds
  <2> QED
    BY <2>3, <2>4, <2>5, EventsNext
<1> QED
  BY <1>1, <1>2, <1>3, <1>4, <1>5, <1>6, Steps
-----------------------------------------------------------------------------
(* The listening socket.                                                   *)

\* A burst is not forgotten.
LEMMA BurstStays == [Next]_vars /\ burst => burst'
<1> SUFFICES ASSUME [Next]_vars, burst PROVE burst'
  OBVIOUS
<1>1. ASSUME NEW c \in Clients, Peer(c) PROVE burst'
  BY <1>1, Zenon DEF Peer, ClientConnects, ClientActs, DataComes, EndComes
<1>2. CASE Server
  BY <1>2, Zenon DEF Server, Wait, Accept, AcceptFails, ReadSome, ReadEnds, WriteBack, WriteFails,
     WriteKills
<1>3. CASE UNCHANGED vars
  BY <1>3, Zenon DEF vars
<1> QED
  BY <1>1, <1>2, <1>3, Zenon DEF Next

\* The events of the listening socket stay where they are.
LEMMA ListenSame ==
  ASSUME Inv, [Next]_vars, backlog' = backlog, dropped \subseteq dropped' \cup Clients,
         Listen \in Members(ready') <=> Listen \in Members(ready),
         InRest(Listen)' <=> InRest(Listen)
  PROVE  ListenInv'
<1>0. ListenInv /\ Listen \notin Clients
  BY EpollAssumption DEF Inv
<1>1. Members(ready)' = Members(ready')
  BY DEF Members
<1>2. Tokens' = Tokens
  BY <1>1 DEF Tokens
<1>3. burst => burst'
  BY BurstStays
<1>4. Listen \in dropped => Listen \in dropped'
  BY <1>0
<1> QED
  BY <1>0, <1>2, <1>3, <1>4, Zenon DEF ListenInv

\* Handling an event of a client leaves the listening socket's alone.
LEMMA RestListen ==
  ASSUME NEW c, c # Listen, RestLess(c)
  PROVE  InRest(Listen)' <=> InRest(Listen)
<1>1. Members(rest)' = Members(rest')
  BY DEF Members
<1> QED
  BY <1>1 DEF RestLess, InRest

\* Every connection that waits keeps its event, but for bursts and breaks.
LEMMA ListenStep == Inv /\ [Next]_vars => ListenInv'
<1> SUFFICES ASSUME Inv, [Next]_vars PROVE ListenInv'
  OBVIOUS
<1>0. /\ ListenInv /\ Len(backlog) \in Nat /\ Listen \notin Clients /\ backlog \in Seq(Clients)
      /\ Members(rest)' = Members(rest') /\ Members(ready)' = Members(ready')
  BY TypesOfLists, EpollAssumption DEF Inv, Members
<1>1. CASE AcceptFails \/ (\E c \in Clients : WriteKills(c)) \/ UNCHANGED vars
  <2>1. UNCHANGED <<rest, ready, backlog, dropped>>
    BY <1>1 DEF AcceptFails, WriteKills, vars, peerVars, serverVars
  <2> QED
    BY <1>0, <2>1, ListenSame DEF InRest
<1>2. CASE Wait
  <2>1. Members(rest') = {Event(x) : x \in {y \in Members(ready) : Holds(y)}}
    BY <1>2, WaitDoes DEF Inv
  <2>2. rest = <<>> /\ ready' = <<>> /\ backlog' = backlog /\ dropped' = dropped
    BY <1>2, Zenon DEF Wait, peerVars
  <2>3. \A x : Event(x).fd = x
    BY DEF Event
  <2>4. ~InRest(Listen)
    BY <2>2 DEF InRest, Members
  <2>5. InRest(Listen)' <=> Listen \in Members(ready) /\ Holds(Listen)
    BY <1>0, <2>1, <2>3 DEF InRest
  <2>6. Holds(Listen) <=> backlog # <<>>
    BY <1>0 DEF Holds
  <2>7. burst => burst'
    BY BurstStays
  <2>8. CASE backlog = <<>>
    <3>1. Len(backlog') = 0
      BY <2>2, <2>8
    <3>2. Tokens' >= 0
      BY DEF Tokens
    <3> QED
      BY <2>2, <2>5, <2>6, <2>8, <3>1, <3>2 DEF ListenInv
  <2>9. CASE backlog # <<>>
    <3>1. Tokens <= Tokens' /\ Tokens \in Nat /\ Tokens' \in Nat
      BY <1>0, <2>4, <2>5, <2>6, <2>9 DEF Tokens
    <3>2. Len(backlog) <= Tokens => Len(backlog') <= Tokens'
      BY <1>0, <2>2, <3>1
    <3> QED
      BY <1>0, <2>2, <2>7, <2>9, <3>2, Zenon DEF ListenInv
  <2> QED
    BY <2>8, <2>9
<1>3. CASE Accept
  <2>1. PICK c \in Clients :
          /\ Len(backlog') = Len(backlog) - 1 /\ dropped' = dropped /\ c # Listen
          /\ Members(ready') = Members(ready) \/ Members(ready') = Members(ready) \cup {c}
          /\ RestLess(Listen) /\ InRest(Listen)
    BY <1>3, AcceptDoes
  <2>2. ~InRest(Listen)'
    BY <1>0, <2>1 DEF RestLess, InRest
  <2>3. Listen \in Members(ready') <=> Listen \in Members(ready)
    BY <2>1
  <2>4. Tokens' = Tokens - 1 /\ Tokens \in Nat
    BY <1>0, <2>1, <2>2, <2>3 DEF Tokens
  <2>5. Len(backlog) <= Tokens => Len(backlog') <= Tokens'
    BY <1>0, <2>1, <2>4
  <2>6. burst => burst'
    BY BurstStays
  <2> QED
    BY <1>0, <2>1, <2>2, <2>5, <2>6, Zenon DEF ListenInv
<1>4. ASSUME NEW c \in Clients, ReadSome(c) \/ WriteBack(c) \/ ReadEnds(c) PROVE ListenInv'
  <2>1. /\ RestLess(c) /\ c # Listen /\ backlog' = backlog /\ dropped' = dropped
        /\ Listen \in Members(ready') <=> Listen \in Members(ready)
    <3>1. CASE ReadSome(c)
      BY <3>1, ReadSomeDoes
    <3>2. CASE WriteBack(c)
      BY <3>2, WriteBackDoes
    <3>3. CASE ReadEnds(c)
      BY <3>3, ReadEndsDoes
    <3> QED
      BY <1>4, <3>1, <3>2, <3>3
  <2>2. InRest(Listen)' <=> InRest(Listen)
    BY <2>1, RestListen
  <2> QED
    BY <2>1, <2>2, ListenSame
<1>5. ASSUME NEW c \in Clients, WriteFails(c) PROVE ListenInv'
  <2>1. /\ c # Listen /\ Members(rest') = {} /\ backlog' = backlog /\ ready' = ready
        /\ dropped \subseteq dropped' /\ \A e \in Members(rest) : e.fd # c => e.fd \in dropped'
    BY <1>5, WriteFailsDoes
  <2>2. ~InRest(Listen)'
    BY <1>0, <2>1 DEF InRest
  <2>3. CASE InRest(Listen)
    <3>1. Listen \in dropped'
      BY <2>1, <2>3 DEF InRest
    <3> QED
      BY <2>2, <3>1 DEF ListenInv
  <2>4. CASE ~InRest(Listen)
    BY <2>1, <2>2, <2>4, ListenSame
  <2> QED
    BY <2>3, <2>4
<1>6. ASSUME NEW c \in Clients, Peer(c), ~ClientConnects(c) PROVE ListenInv'
  <2>1. /\ rest' = rest /\ backlog' = backlog
    BY <1>6 DEF Peer, ClientActs, DataComes, EndComes, serverVars, SendLine, ReadPiece, Leave,
       Arrive, EndArrives, RstArrives
  <2>2. ~Connect(c)
    BY <1>0, <2>1, AppendProperties DEF Connect
  <2>3. dropped \subseteq dropped' \cup Clients /\ (Listen \in Members(ready') <=> Listen \in Members(ready))
    BY <1>0, <1>6, <2>2, PeerEdges
  <2>4. InRest(Listen)' <=> InRest(Listen)
    BY <1>0, <2>1 DEF InRest
  <2> QED
    BY <2>1, <2>3, <2>4, ListenSame
<1>7. ASSUME NEW c \in Clients, ClientConnects(c) PROVE ListenInv'
  <2>1. /\ Connect(c) /\ rest' = rest /\ dropped' = dropped
        /\ Listen \in Members(ready) => burst'
    BY <1>7, Zenon DEF ClientConnects
  <2>2. backlog' = Append(backlog, c)
    BY <2>1 DEF Connect
  <2>3. backlog' # <<>> /\ Len(backlog') = Len(backlog) + 1
    BY <1>0, <2>2, AppendProperties
  <2>4. Members(ready') = Members(ready) \cup {Listen}
    <3>1. Edge(Listen) /\ ReadyOK /\ Listen \in Fds
      BY <1>7, TypesOfLists, Zenon DEF ClientConnects, Fds, Inv
    <3> QED
      BY <3>1, EdgeDoes
  <2>5. InRest(Listen)' <=> InRest(Listen)
    BY <1>0, <2>1 DEF InRest
  <2>6. Listen \notin Members(ready) => Tokens' = Tokens + 1 /\ Tokens \in Nat
    BY <1>0, <2>4, <2>5 DEF Tokens
  <2>7. Listen \notin Members(ready) => (Len(backlog) <= Tokens => Len(backlog') <= Tokens')
    BY <1>0, <2>3, <2>6
  <2>8. burst => burst'
    BY BurstStays
  <2> QED
    BY <1>0, <2>1, <2>3, <2>7, <2>8, Zenon DEF ListenInv
<1> QED
  BY <1>1, <1>2, <1>3, <1>4, <1>5, <1>6, <1>7, Steps
-----------------------------------------------------------------------------
(* No edge is lost.                                                        *)

\* What NoLostEdge says of one client, in terms of members.
EdgeOf(d) ==
  interest[d] = "in" /\ Readable(d) => d \in Members(ready) \/ InRest(d) \/ d \in dropped

LEMMA EdgeForms ==
  NoLostEdge <=>
    /\ \A d \in Clients : EdgeOf(d)
    /\ backlog # <<>> => Listen \in Members(ready) \/ InRest(Listen) \/ burst \/ Listen \in dropped
    /\ up # "accept found nobody"
<1>1. \A x : Pending(x) <=> x \in Members(ready) \/ InRest(x)
  BY DEF Pending, InRest, Members
<1> QED
  BY <1>1, Zenon DEF NoLostEdge, EdgeOf

\* The same after a step.
EdgeNext(d) ==
  interest'[d] = "in" /\ Readable(d)' =>
    d \in Members(ready') \/ (\E e \in Members(rest') : e.fd = d) \/ d \in dropped'

\* A client whose edge matters keeps its place on the list or among the events.
LEMMA EdgeStep == Inv /\ [Next]_vars => \A d \in Clients : EdgeNext(d)
<1> SUFFICES ASSUME Inv, [Next]_vars, NEW d \in Clients PROVE EdgeNext(d)
  OBVIOUS
<1>0. /\ EdgeOf(d) /\ d # Listen /\ interest \in [Clients -> {"none", "in", "out"}]
      /\ taken \in [Clients -> Nat]
      /\ link \in [Clients -> {"none", "open", "fin", "reset", "broken", "spent", "closed"}]
  BY EdgeForms, EpollAssumption DEF Inv, TypeOK, PeersTypeOK
<1>1. CASE AcceptFails \/ (\E c \in Clients : WriteKills(c)) \/ UNCHANGED vars
  <2>1. UNCHANGED <<rest, ready, interest, dropped, arrived, taken, link>>
    BY <1>1 DEF AcceptFails, WriteKills, vars, peerVars, serverVars
  <2> QED
    BY <1>0, <2>1 DEF EdgeOf, EdgeNext, InRest, Readable, Unread
<1>2. CASE Wait
  <2>1. \A x \in Members(ready) : Holds(x) => Event(x) \in Members(rest')
    BY <1>2, WaitDoes DEF Inv
  <2>2. rest = <<>> /\ UNCHANGED <<interest, dropped, arrived, taken, link>>
    BY <1>2, Zenon DEF Wait, peerVars
  <2>3. ~InRest(d)
    BY <2>2 DEF InRest, Members
  <2>4. Readable(d) => Holds(d)
    BY DEF Holds
  <2>5. Event(d).fd = d
    BY DEF Event
  <2>6. Readable(d)' <=> Readable(d)
    BY <2>2 DEF Readable, Unread
  <2> QED
    BY <1>0, <2>1, <2>2, <2>3, <2>4, <2>5, <2>6 DEF EdgeOf, EdgeNext
<1>3. CASE Accept
  <2>1. PICK c \in Clients :
          /\ interest' = [interest EXCEPT ![c] = "in"] /\ RestLess(Listen)
          /\ UNCHANGED <<arrived, taken, link, dropped>>
          /\ \/ ~Readable(c) /\ Members(ready') = Members(ready)
             \/ Members(ready') = Members(ready) \cup {c}
    BY <1>3, AcceptDoes
  <2>2. Readable(d)' <=> Readable(d)
    BY <2>1 DEF Readable, Unread
  <2>3. CASE d = c
    BY <2>1, <2>2, <2>3 DEF EdgeNext
  <2>4. CASE d # c
    <3>1. interest'[d] = interest[d]
      BY <1>0, <2>1, <2>4
    <3> QED
      BY <1>0, <2>1, <2>2, <3>1 DEF EdgeOf, EdgeNext, InRest, RestLess
  <2> QED
    BY <2>3, <2>4
<1>4. ASSUME NEW c \in Clients, ReadSome(c) \/ WriteBack(c) \/ ReadEnds(c) PROVE EdgeNext(d)
  <2>1. /\ RestLess(c) /\ arrived' = arrived /\ dropped' = dropped
        /\ d # c => /\ interest'[d] = interest[d] /\ taken'[d] = taken[d] /\ link'[d] = link[d]
                    /\ d \in Members(ready) => d \in Members(ready')
        /\ interest'[c] = "in" => (Readable(c)' => c \in Members(ready'))
    <3>1. CASE ReadSome(c)
      BY <1>0, <3>1, ReadSomeDoes
    <3>2. CASE WriteBack(c)
      <4>1. UNCHANGED <<arrived, taken, link>>
        BY <3>2, WriteBackDoes
      <4>2. Readable(c)' <=> Readable(c)
        BY <4>1 DEF Readable, Unread
      <4> QED
        BY <1>0, <3>2, <4>2, WriteBackDoes
    <3>3. CASE ReadEnds(c)
      BY <1>0, <3>3, ReadEndsDoes
    <3> QED
      BY <1>4, <3>1, <3>2, <3>3
  <2>2. CASE d = c
    BY <2>1, <2>2 DEF EdgeNext
  <2>3. CASE d # c
    <3>1. Readable(d)' <=> Readable(d)
      BY <2>1, <2>3 DEF Readable, Unread
    <3>2. InRest(d) => \E e \in Members(rest') : e.fd = d
      BY <2>1, <2>3 DEF InRest, RestLess
    <3> QED
      BY <1>0, <2>1, <2>3, <3>1, <3>2 DEF EdgeOf, EdgeNext
  <2> QED
    BY <2>2, <2>3
<1>5. ASSUME NEW c \in Clients, WriteFails(c) PROVE EdgeNext(d)
  <2>1. /\ interest[c] = "out" /\ UNCHANGED <<arrived, taken, interest, ready>>
        /\ link' = [link EXCEPT ![c] = "spent"] /\ dropped \subseteq dropped'
        /\ \A e \in Members(rest) : e.fd # c => e.fd \in dropped'
    BY <1>5, WriteFailsDoes
  <2>2. CASE d = c
    BY <2>1, <2>2 DEF EdgeNext
  <2>3. CASE d # c
    <3>1. Readable(d)' <=> Readable(d)
      BY <1>0, <2>1, <2>3 DEF Readable, Unread
    <3> QED
      BY <1>0, <2>1, <2>3, <3>1 DEF EdgeOf, EdgeNext, InRest
  <2> QED
    BY <2>2, <2>3
<1>6. ASSUME NEW c \in Clients, Peer(c) PROVE EdgeNext(d)
  <2>1. /\ interest' = interest /\ rest' = rest /\ taken' = taken
        /\ Connect(c) \/ SendLine(c) \/ ReadPiece(c) \/ Leave(c) \/ Incoming(c)
    BY <1>6, PeerDoes
  <2>2. Members(ready) \subseteq Members(ready')
    BY <1>6, PeerEdges
  <2>3. d \in dropped => d \in dropped' \/ d \in Members(ready')
    BY <1>6, PeerEdges
  <2>4. CASE d = c /\ Incoming(c)
    BY <1>6, <2>1, <2>4, PeerEdges DEF EdgeNext
  <2>5. CASE ~(d = c /\ Incoming(c)) /\ interest[d] = "in"
    <3>1. cpc[d] # "away"
      BY <2>5 DEF Inv, LinkInv
    <3>2. arrived'[d] = arrived[d] /\ link'[d] = link[d]
      <4>0. arrived \in [Clients -> Nat]
        BY DEF Inv, TypeOK, PeersTypeOK
      <4>1. CASE Connect(c)
        BY <1>0, <3>1, <4>0, <4>1 DEF Connect
      <4>2. CASE SendLine(c) \/ ReadPiece(c) \/ Leave(c)
        BY <4>2 DEF SendLine, ReadPiece, Leave
      <4>3. CASE Incoming(c)
        BY <1>0, <2>5, <4>0, <4>3 DEF Incoming, Arrive, EndArrives, RstArrives
      <4> QED
        BY <2>1, <4>1, <4>2, <4>3
    <3>3. Readable(d)' <=> Readable(d)
      BY <2>1, <3>2 DEF Readable, Unread
    <3> QED
      BY <1>0, <2>1, <2>2, <2>3, <3>3 DEF EdgeOf, EdgeNext, InRest
  <2>6. CASE interest[d] # "in"
    BY <2>1, <2>6 DEF EdgeNext
  <2> QED
    BY <2>4, <2>5, <2>6
<1> QED
  BY <1>1, <1>2, <1>3, <1>4, <1>5, <1>6, Steps

\* accept is never called with nobody waiting.
LEMMA AcceptFindsSomebody ==
  Inv /\ [Next]_vars => up' # "accept found nobody"
<1> SUFFICES ASSUME Inv, [Next]_vars PROVE up' # "accept found nobody"
  OBVIOUS
<1>0. up # "accept found nobody"
  BY DEF Inv, NoLostEdge
<1>1. CASE AcceptFails
  <2>1. rest \in Seq(Events) /\ rest # <<>> /\ Head(rest) = [fd |-> Listen, ev |-> "in"]
    BY <1>1, TypesOfLists DEF AcceptFails, At, Inv
  <2>2. Head(rest) \in Members(rest)
    BY <2>1, TailMembers DEF Inv, EventInv, EventsOnce
  <2>3. InRest(Listen)
    BY <2>1, <2>2 DEF InRest
  <2>4. backlog # <<>>
    BY <2>3 DEF Inv, ListenInv
  <2> QED
    BY <1>1, <2>4 DEF AcceptFails
<1>2. CASE Wait \/ UNCHANGED vars
  BY <1>0, <1>2 DEF Wait, vars, serverVars
<1>3. ASSUME NEW c \in Clients, WriteKills(c) PROVE up' # "accept found nobody"
  BY <1>3 DEF WriteKills
<1>4. CASE Accept
  BY <1>0, <1>4, AcceptDoes
<1>5. ASSUME NEW c \in Clients, ReadSome(c) \/ ReadEnds(c) \/ WriteBack(c) \/ WriteFails(c) \/ Peer(c)
      PROVE  up' # "accept found nobody"
  BY <1>0, <1>5, ReadSomeDoes, ReadEndsDoes, WriteBackDoes, WriteFailsDoes, PeerDoes
<1> QED
  BY <1>1, <1>2, <1>3, <1>4, <1>5, Steps

\* Every step keeps every edge that matters.
LEMMA LostEdgeStep == Inv /\ [Next]_vars => NoLostEdge'
<1> SUFFICES ASSUME Inv, [Next]_vars PROVE NoLostEdge'
  OBVIOUS
<1>1. Members(rest)' = Members(rest') /\ Members(ready)' = Members(ready')
  BY DEF Members
<1>2. \A d \in Clients : EdgeOf(d)'
  <2>1. \A d \in Clients : EdgeNext(d)
    BY EdgeStep
  <2> QED
    BY <1>1, <2>1 DEF EdgeOf, EdgeNext, InRest
<1>3. ListenInv' /\ TypeOK'
  BY ListenStep, TypeStep
<1>4. backlog' # <<>> => Len(backlog') \in Nat \ {0}
  <2>1. backlog' \in Seq(Clients)
    BY <1>3 DEF TypeOK, PeersTypeOK
  <2> QED
    BY <2>1, EmptySeq
<1>5. backlog' # <<>> /\ Len(backlog') <= Tokens' => (Listen \in Members(ready))' \/ InRest(Listen)'
  BY <1>4 DEF Tokens
<1>6. backlog' # <<>> =>
        (Listen \in Members(ready))' \/ InRest(Listen)' \/ burst' \/ Listen \in dropped'
  BY <1>3, <1>5, Zenon DEF ListenInv
<1>7. up' # "accept found nobody"
  BY AcceptFindsSomebody
<1> QED
  <2>1. \A x : Pending(x)' <=> (x \in Members(ready))' \/ InRest(x)'
    BY DEF Pending, InRest, Members
  <2> QED
    BY <1>2, <1>6, <1>7, <2>1, Zenon DEF NoLostEdge, EdgeOf
-----------------------------------------------------------------------------
(* What is echoed.                                                         *)

\* A client that is to be written to, and one that has something to read, are
\* under way.
LEMMA WriterUnderway ==
  ASSUME Inv, NEW c \in Clients, EchoOf(c), interest[c] = "out"
  PROVE  Underway(c)
<1>1. Len(back[c]) + Len(buf) = taken[c] /\ Len(buf) > 0
  BY DEF EchoOf
<1>2. taken[c] <= arrived[c] /\ arrived[c] <= out[c] /\ link[c] # "closed"
  BY DEF Inv, CountInv, LinkInv
<1>3. /\ out[c] \in Nat /\ arrived[c] \in Nat /\ taken[c] \in Nat /\ Len(back[c]) \in Nat
      /\ Len(buf) \in Nat
  BY Counts, LenProperties DEF Inv, TypeOK
<1>4. out[c] > Len(back[c])
  BY <1>1, <1>2, <1>3
<1> QED
  BY <1>2, <1>4 DEF Underway

LEMMA ReaderUnderway ==
  ASSUME Inv, NEW c \in Clients, EchoOf(c), interest[c] = "in", Readable(c)
  PROVE  Underway(c)
<1>1. Len(back[c]) = taken[c]
  <2>1. Len(back[c]) + 0 = taken[c] /\ Len(back[c]) \in Nat
    BY Counts DEF EchoOf, Inv
  <2> QED
    BY <2>1
<1>2. /\ taken[c] <= arrived[c] /\ arrived[c] <= out[c] /\ link[c] # "closed"
      /\ link[c] \in Ended => cpc[c] = "gone"
  BY DEF Inv, CountInv, LinkInv
<1>3. out[c] \in Nat /\ arrived[c] \in Nat /\ taken[c] \in Nat
  BY Counts DEF Inv
<1>4. CASE Unread(c) > 0
  <2>1. out[c] > Len(back[c])
    BY <1>1, <1>2, <1>3, <1>4 DEF Unread
  <2> QED
    BY <1>2, <2>1 DEF Underway
<1>5. CASE link[c] \in Ended
  BY <1>2, <1>5 DEF Underway
<1> QED
  BY <1>4, <1>5 DEF Readable

\* So whoever is read from, nobody else is waiting to be written to.
LEMMA NobodyElse ==
  ASSUME Inv, OneUnderway, \A d \in Clients : EchoOf(d),
         NEW c \in Clients, interest[c] = "in", Readable(c), NEW d \in Clients
  PROVE  interest[d] # "out"
<1> SUFFICES ASSUME interest[d] = "out" PROVE FALSE
  OBVIOUS
<1>1. Underway(c) /\ Underway(d)
  BY ReaderUnderway, WriterUnderway
<1>2. c = d
  BY <1>1 DEF OneUnderway
<1> QED
  BY <1>2

\* Steps that leave what is read and written alone.
LEMMA EchoSame ==
  ASSUME NEW d \in Clients, EchoOf(d), taken'[d] = taken[d], back'[d] = back[d],
         interest[d] = "out" \/ interest'[d] = "out" => interest'[d] = interest[d] /\ buf' = buf
  PROVE  EchoOf(d)'
<1>1. CASE interest[d] = "out"
  <2>1. interest'[d] = "out" /\ buf' = buf
    BY <1>1
  <2> QED
    BY <1>1, <2>1 DEF EchoOf, Piece
<1>2. CASE interest[d] # "out"
  <2>1. interest'[d] # "out"
    BY <1>2
  <2> QED
    BY <1>2, <2>1 DEF EchoOf, Piece
<1> QED
  BY <1>1, <1>2

\* Without overlap a step keeps the account of every client.
LEMMA EchoOfStep ==
  ASSUME Inv, [Next]_vars, OneUnderway, \A d \in Clients : EchoOf(d), NEW d \in Clients
  PROVE  EchoOf(d)'
<1>0. /\ EchoOf(d) /\ interest \in [Clients -> {"none", "in", "out"}]
      /\ taken \in [Clients -> Nat] /\ back \in [Clients -> Seq(Clients \X Nat)]
      /\ buf \in Seq(Clients \X Nat) /\ Len(buf) \in Nat /\ DOMAIN buf = 1..Len(buf)
  BY LenProperties DEF Inv, TypeOK, PeersTypeOK
<1>1. CASE Idle
  <2>1. UNCHANGED <<taken, back, interest, buf>>
    BY <1>1, IdleDoes DEF Idle
  <2> QED
    BY <1>0, <2>1, EchoSame
<1>2. CASE Accept
  <2>1. PICK c \in Clients : /\ Waiting(c) /\ interest' = [interest EXCEPT ![c] = "in"]
                             /\ UNCHANGED <<taken, back, buf>>
    BY <1>2, AcceptDoes
  <2>2. interest'[d] = interest[d] \/ (interest[d] = "none" /\ interest'[d] = "in")
    BY <1>0, <2>1 DEF Waiting
  <2> QED
    BY <1>0, <2>1, <2>2, EchoSame
<1>3. ASSUME NEW c \in Clients, ReadSome(c) PROVE EchoOf(d)'
  <2>1. /\ interest[c] = "in" /\ Unread(c) > 0 /\ Readable(c) /\ buf' = ReadPieces(c)
        /\ taken' = [taken EXCEPT ![c] = @ + ReadLen(c)]
        /\ interest' = [interest EXCEPT ![c] = "out"] /\ back' = back
    BY <1>3, ReadSomeDoes
  <2>2. CASE d # c
    <3>1. interest[d] # "out"
      BY <2>1, NobodyElse
    <3>2. interest'[d] = interest[d] /\ taken'[d] = taken[d]
      BY <1>0, <2>1, <2>2
    <3> QED
      BY <1>0, <2>1, <3>1, <3>2, EchoSame
  <2>3. CASE d = c
    <3>1. /\ ReadLen(c) \in Nat \ {0} /\ buf' \in Seq(Clients \X Nat) /\ Len(buf') = ReadLen(c)
          /\ \A j \in 1..ReadLen(c) : buf'[j] = Piece(c, taken[c] + j)
      BY <2>1, PiecesRead DEF Inv
    <3>2. taken'[d] = taken[d] + ReadLen(c) /\ interest'[d] = "out" /\ taken[d] \in Nat
      BY <1>0, <2>1, <2>3
    <3>3. Len(back[d]) = taken[d]
      <4>1. Len(back[d]) + 0 = taken[d] /\ Len(back[d]) \in Nat
        BY <1>0, <2>1, <2>3, Counts DEF EchoOf, Inv
      <4> QED
        BY <4>1
    <3>4. DOMAIN buf' = 1..ReadLen(c)
      BY <3>1, LenProperties
    <3>5. \A j \in DOMAIN buf' : buf'[j] = <<d, Len(back[d]) + j>>
      BY <2>3, <3>1, <3>3, <3>4 DEF Piece
    <3>6. \A i \in DOMAIN back[d] : back[d][i] = <<d, i>>
      BY <1>0 DEF EchoOf, Piece
    <3>7. Len(back[d]) + Len(buf') = taken'[d] /\ Len(buf') > 0
      BY <3>1, <3>2, <3>3
    <3> QED
      BY <2>1, <3>2, <3>5, <3>6, <3>7 DEF EchoOf, Piece
  <2> QED
    BY <2>2, <2>3
<1>4. ASSUME NEW c \in Clients, ReadEnds(c) PROVE EchoOf(d)'
  <2>1. /\ interest[c] = "in" /\ Readable(c) /\ UNCHANGED <<taken, back>>
        /\ interest' = [interest EXCEPT ![c] = "none"]
    BY <1>4, ReadEndsDoes
  <2>2. interest[d] # "out"
    BY <2>1, NobodyElse
  <2>3. interest'[d] # "out"
    BY <1>0, <2>1, <2>2
  <2> QED
    BY <1>0, <2>1, <2>2, <2>3, EchoSame
<1>5. ASSUME NEW c \in Clients, WriteBack(c) PROVE EchoOf(d)'
  <2>1. /\ interest[c] = "out" /\ UNCHANGED <<taken, buf>>
        /\ back' = [back EXCEPT ![c] = @ \o buf] /\ interest' = [interest EXCEPT ![c] = "in"]
    BY <1>5, WriteBackDoes
  <2>2. CASE d # c
    <3>1. interest'[d] = interest[d] /\ back'[d] = back[d]
      BY <1>0, <2>1, <2>2
    <3> QED
      BY <1>0, <2>1, <3>1, EchoSame
  <2>3. CASE d = c
    <3>1. interest'[d] = "in" /\ back'[d] = back[d] \o buf
      BY <1>0, <2>1, <2>3
    <3>2. /\ back[d] \in Seq(Clients \X Nat) /\ Len(back[d]) \in Nat
          /\ DOMAIN back[d] = 1..Len(back[d])
      BY <1>0, LenProperties
    <3>3. /\ back'[d] \in Seq(Clients \X Nat) /\ Len(back'[d]) = Len(back[d]) + Len(buf)
          /\ \A i \in 1..(Len(back[d]) + Len(buf)) :
               back'[d][i] = IF i <= Len(back[d]) THEN back[d][i] ELSE buf[i - Len(back[d])]
      BY <1>0, <3>1, <3>2, ConcatProperties
    <3>4. DOMAIN back'[d] = 1..(Len(back[d]) + Len(buf))
      BY <3>3, LenProperties
    <3>5. /\ Len(back[d]) + Len(buf) = taken[d]
          /\ \A j \in 1..Len(buf) : buf[j] = <<d, Len(back[d]) + j>>
          /\ \A i \in 1..Len(back[d]) : back[d][i] = <<d, i>>
      BY <1>0, <2>1, <2>3, <3>2 DEF EchoOf, Piece
    <3>6. ASSUME NEW i \in DOMAIN back'[d] PROVE back'[d][i] = <<d, i>>
      <4>1. CASE i <= Len(back[d])
        BY <3>2, <3>3, <3>4, <3>5, <4>1
      <4>2. CASE ~(i <= Len(back[d]))
        <5>1. i - Len(back[d]) \in 1..Len(buf) /\ Len(back[d]) + (i - Len(back[d])) = i
          BY <1>0, <3>2, <3>4, <4>2
        <5>2. back'[d][i] = buf[i - Len(back[d])]
          BY <3>3, <3>4, <4>2
        <5> QED
          BY <3>5, <5>1, <5>2
      <4> QED
        BY <4>1, <4>2
    <3>7. Len(back'[d]) + 0 = taken'[d]
      BY <1>0, <2>1, <3>2, <3>3, <3>5
    <3> QED
      BY <3>1, <3>6, <3>7 DEF EchoOf, Piece
  <2> QED
    BY <2>2, <2>3
<1>6. ASSUME NEW c \in Clients, WriteFails(c) \/ Peer(c) PROVE EchoOf(d)'
  <2>1. UNCHANGED <<taken, back, interest, buf>>
    BY <1>6, WriteFailsDoes, PeerDoes
  <2> QED
    BY <1>0, <2>1, EchoSame
<1> QED
  BY <1>1, <1>2, <1>3, <1>4, <1>5, <1>6, Steps DEF Idle

\* Every step keeps the account, or there is an overlap.
LEMMA EchoStep == Inv /\ [Next]_vars => EchoInv'
<1> SUFFICES ASSUME Inv, [Next]_vars, ~overlap'
             PROVE  OneUnderway' /\ \A d \in Clients : EchoOf(d)'
  BY Zenon DEF EchoInv
<1>1. ~overlap
  BY Zenon DEF Next, History, vars
<1>2. OneUnderway /\ \A d \in Clients : EchoOf(d)
  BY <1>1, Zenon DEF Inv, EchoInv
<1>3. OneUnderway'
  <2>1. CASE History
    BY <2>1, Zenon DEF History, OneUnderway
  <2>2. CASE UNCHANGED vars
    <3>1. UNCHANGED <<out, back, link, cpc>>
      BY <2>2 DEF vars, peerVars
    <3> QED
      BY <1>2, <3>1 DEF OneUnderway, Underway
  <2> QED
    BY <2>1, <2>2, Zenon DEF Next
<1> QED
  BY <1>2, <1>3, EchoOfStep
-----------------------------------------------------------------------------
(* The theorems.                                                           *)

\* Init satisfies the invariant: nobody is connected, and there is no event.
LEMMA InitInv == Init => Inv
<1> SUFFICES ASSUME Init PROVE Inv
  OBVIOUS
<1>0. /\ PeersInit /\ up = "up" /\ interest = [c \in Clients |-> "none"]
      /\ ready = <<>> /\ rest = <<>> /\ buf = <<>> /\ n = 0 /\ dropped = {}
  BY Zenon DEF Init
<1>1. overlap \in BOOLEAN /\ burst \in BOOLEAN
  BY Zenon DEF Init
<1>2. DOMAIN ready = {} /\ DOMAIN rest = {} /\ DOMAIN backlog = {} /\ DOMAIN buf = {}
  BY <1>0 DEF PeersInit
<1>3. PeersTypeOK
  BY <1>0 DEF PeersInit, PeersTypeOK
<1>4. /\ up \in {"up", "accept found nobody", "accept error", "killed"}
      /\ interest \in [Clients -> {"none", "in", "out"}]
      /\ ready \in Seq(Clients \cup {Listen})
      /\ \A i, j \in DOMAIN ready : ready[i] = ready[j] => i = j
      /\ rest \in Seq([fd : Clients \cup {Listen}, ev : {"in", "out"}])
      /\ n \in -1..BufLen /\ buf \in Seq(Clients \X Nat) /\ (n > 0 => Len(buf) = n)
      /\ dropped \subseteq Clients \cup {Listen}
  BY <1>0, <1>2, PeersAssumption
<1>5. TypeOK
  BY <1>1, <1>3, <1>4, Zenon DEF TypeOK
<1>6. Members(ready) = {} /\ Members(rest) = {} /\ Members(backlog) = {}
  BY <1>2 DEF Members
<1>7. CountInv /\ LinkInv /\ BacklogInv
  BY <1>0, <1>2, <1>6 DEF PeersInit, CountInv, LinkInv, BacklogInv, Once, Ended
<1>8. EventInv
  BY <1>2, <1>6 DEF EventInv, EventsOnce, Once
<1>9. backlog = <<>> /\ ~InRest(Listen)
  BY <1>0, <1>6 DEF PeersInit, InRest
<1>10. ListenInv
  BY <1>9 DEF ListenInv, Tokens
<1>11. NoLostEdge
  BY <1>0, <1>9 DEF NoLostEdge
<1>12. OneUnderway
  BY <1>0 DEF PeersInit, OneUnderway, Underway
<1>13. \A c \in Clients : EchoOf(c)
  BY <1>0, <1>2 DEF PeersInit, EchoOf
<1>14. EchoInv
  BY <1>12, <1>13 DEF EchoInv
<1> QED
  BY <1>5, <1>7, <1>8, <1>10, <1>11, <1>14 DEF Inv

\* The invariant is inductive.
LEMMA StepInv == Inv /\ [Next]_vars => Inv'
  BY TypeStep, CountStep, LinkStep, BacklogStep, EventStep, ListenStep, LostEdgeStep, EchoStep
     DEF Inv

\* Types hold for any clients, lines and buffer.
THEOREM EpollTypes == Spec => []TypeOK
<1> QED
  BY InitInv, StepInv, PTL DEF Spec, Inv

\* One read for an edge and one accept for an event are enough, but for a burst and
\* what a break threw away, and accept never finds nobody (server.c:99-120, 142-148).
THEOREM NoEdgeLost == Spec => []NoLostEdge
<1> QED
  BY InitInv, StepInv, PTL DEF Spec, Inv

\* The shared buf and n serve everybody, as long as one client at a time has something
\* under way (server.c:46-48, 118-139).
THEOREM EchoesOnlyOwn == Spec => []EchoesOwn
<1>1. Inv => EchoesOwn
  BY Zenon DEF Inv, EchoInv, EchoOf, EchoesOwn
<1> QED
  BY <1>1, InitInv, StepInv, PTL DEF Spec
=============================================================================
