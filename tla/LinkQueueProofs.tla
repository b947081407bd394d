--------------------------- MODULE LinkQueueProofs ---------------------------
(***************************************************************************)
(* Proofs about LinkQueue, for any heap and any set of element values.     *)
(***************************************************************************)
EXTENDS LinkQueue, TLAPS, SequenceTheorems

\* The invariant that carries the proofs: types, shape and ownership.
HeapInv == TypeOK /\ Linked /\ Owned

LEMMA InitHeap == Init => HeapInv
<1> SUFFICES ASSUME Init PROVE HeapInv
  OBVIOUS
<1>1. TypeOK
  BY LinkQueueAssumption DEF Init, TypeOK
<1>2. Linked
  BY DEF Init, Linked
<1>3. Owned
  BY DEF Init, Owned
<1> QED
  BY <1>1, <1>2, <1>3 DEF HeapInv

\* insert_queue keeps the shape: the fresh node is behind the last one.
LEMMA InsertKeeps ==
  ASSUME HeapInv, NEW d \in Data, insert_queue(d)
  PROVE  HeapInv' /\ Contents' = Append(Contents, d)
<1> USE LinkQueueAssumption DEF HeapInv
<1>1. PICK q \in Nodes \ live :
        /\ live' = live \cup {q}
        /\ data' = [data EXCEPT ![q] = d]
        /\ next' = [[next EXCEPT ![q] = Null] EXCEPT ![rear] = q]
        /\ rear' = q
        /\ order' = Append(order, q)
        /\ front' = front
  BY DEF insert_queue, RearAfterInsert
<1>2. /\ order' \in Seq(Nodes)
      /\ Len(order') = Len(order) + 1
      /\ \A k \in 1..Len(order) : order'[k] = order[k] /\ order[k] \in Nodes
      /\ order'[Len(order) + 1] = q
      /\ order' # <<>>
      /\ Len(order) \in Nat
  BY <1>1 DEF TypeOK
<1>3. q # front /\ q # rear /\ \A k \in 1..Len(order) : order[k] # q
  BY <1>1 DEF TypeOK, Owned, Linked
<1>4. TypeOK'
  BY <1>1, <1>2 DEF TypeOK
<1>5. Linked'
  <2>1. CASE order = <<>>
    <3>1. Len(order) = 0
      BY <2>1
    <3> QED
      BY <1>1, <1>2, <1>3, <2>1, <3>1 DEF TypeOK, Linked
  <2>2. CASE order # <<>>
    <3>1. Len(order) \in 1..Len(order) /\ rear = order[Len(order)]
      BY <2>2 DEF TypeOK, Linked
    <3>2. next'[front'] = order'[1]
      BY <1>1, <1>2, <1>3, <2>2, <3>1 DEF TypeOK, Linked, Owned
    <3>3. ASSUME NEW k \in 1..Len(order')
          PROVE next'[order'[k]] = IF k = Len(order') THEN Null ELSE order'[k + 1]
      <4>1. CASE k = Len(order')
        BY <1>1, <1>2, <1>3, <4>1 DEF TypeOK
      <4>2. CASE k = Len(order)
        BY <1>1, <1>2, <1>3, <3>1, <4>2 DEF TypeOK
      <4>3. CASE k \in 1..(Len(order) - 1)
        <5>1. order[k] # rear
          BY <3>1, <4>3 DEF Owned
        <5>2. next'[order[k]] = next[order[k]]
          BY <1>1, <1>2, <1>3, <5>1, <4>3 DEF TypeOK
        <5>3. next[order[k]] = order[k + 1]
          BY <4>3, <1>2 DEF Linked
        <5> QED
          BY <5>2, <5>3, <4>3, <1>2
      <4> QED
        BY <4>1, <4>2, <4>3, <1>2
    <3> QED
      BY <1>1, <1>2, <3>2, <3>3 DEF Linked
  <2> QED
    BY <2>1, <2>2
<1>6. Owned'
  <2>1. {order'[k] : k \in 1..Len(order')} = {order[k] : k \in 1..Len(order)} \cup {q}
    BY <1>2
  <2>2. live' = {front'} \cup {order'[k] : k \in 1..Len(order')}
    BY <1>1, <2>1 DEF Owned
  <2>3. \A k \in 1..Len(order') : order'[k] # front'
    BY <1>1, <1>2, <1>3 DEF Owned
  <2>4. \A j, k \in 1..Len(order') : order'[j] = order'[k] => j = k
    BY <1>2, <1>3 DEF Owned
  <2> QED
    BY <2>2, <2>3, <2>4 DEF Owned
<1>7. Contents' = Append(Contents, d)
  <2>1. Contents \in Seq(Data) /\ Len(Contents) = Len(order)
    BY <1>2 DEF Contents, TypeOK
  <2>2. Contents' \in Seq(Data) /\ Len(Contents') = Len(order) + 1
    BY <1>2, <1>4 DEF Contents, TypeOK
  <2>3. /\ Append(Contents, d) \in Seq(Data)
        /\ Len(Append(Contents, d)) = Len(order) + 1
        /\ \A k \in 1..Len(order) : Append(Contents, d)[k] = Contents[k]
        /\ Append(Contents, d)[Len(order) + 1] = d
    BY <2>1, <1>2, AppendProperties
  <2>4. \A k \in 1..Len(order) : Contents'[k] = Contents[k]
    BY <1>1, <1>2, <1>3 DEF TypeOK, Contents
  <2>5. Contents'[Len(order) + 1] = d
    BY <1>1, <1>2 DEF TypeOK, Contents
  <2>6. \A k \in 1..Len(Contents') : Contents'[k] = Append(Contents, d)[k]
    BY <1>2, <2>2, <2>3, <2>4, <2>5
  <2> QED
    BY <2>2, <2>3, <2>6, SeqEqual
<1> QED
  BY <1>4, <1>5, <1>6, <1>7

\* delete_queue keeps the shape: the second node becomes the first, and when
\* the last one leaves rear returns to the header.
LEMMA DeleteKeeps ==
  ASSUME HeapInv, delete_queue
  PROVE  HeapInv' /\ Contents # <<>> /\ Contents' = Tail(Contents)
<1> USE LinkQueueAssumption DEF HeapInv
<1>1. order # <<>> /\ Len(order) \in Nat \ {0}
  BY DEF delete_queue, Oldest, is_empty, Linked, TypeOK
<1> DEFINE q == order[1]
<1>2. /\ q \in Nodes /\ next[front] = q
      /\ next' = [next EXCEPT ![front] = next[q]]
      /\ rear' = (IF rear = q THEN front ELSE rear)
      /\ live' = live \ {q}
      /\ order' = Tail(order)
      /\ data' = data /\ front' = front
  BY <1>1 DEF delete_queue, Oldest, TypeOK, Linked, RearAfterDelete, Free
<1>3. /\ order' \in Seq(Nodes)
      /\ Len(order') = Len(order) - 1
      /\ \A k \in 1..Len(order') : order'[k] = order[k + 1]
      /\ \A k \in 1..Len(order) : order[k] \in Nodes
  BY <1>1, <1>2 DEF TypeOK
<1>4. \A k \in 1..Len(order) : order[k] # front /\ (order[k] = q => k = 1)
  BY <1>1 DEF Owned
<1>5. TypeOK'
  BY <1>1, <1>2, <1>3, <1>4 DEF TypeOK
<1>6. Linked'
  <2>1. order' = <<>> <=> Len(order) = 1
    BY <1>1, <1>3, EmptySeq
  <2>2. next'[front'] = IF order' = <<>> THEN Null ELSE order'[1]
    <3>1. 1 \in 1..Len(order)
      BY <1>1
    <3>2. next'[front'] = next[q]
      BY <1>2 DEF TypeOK
    <3>3. next[q] = IF 1 = Len(order) THEN Null ELSE order[1 + 1]
      BY <3>1 DEF Linked
    <3>4. Len(order) # 1 => 1 \in 1..Len(order') /\ order'[1] = order[1 + 1]
      BY <1>1, <1>3
    <3> QED
      BY <2>1, <3>2, <3>3, <3>4
  <2>3. ASSUME NEW k \in 1..Len(order')
        PROVE next'[order'[k]] = IF k = Len(order') THEN Null ELSE order'[k + 1]
    <3>1. k + 1 \in 1..Len(order) /\ order'[k] = order[k + 1]
      BY <1>1, <1>3
    <3>2. next'[order[k + 1]] = next[order[k + 1]]
      BY <1>2, <1>3, <1>4, <3>1 DEF TypeOK
    <3>3. next[order[k + 1]] = IF k + 1 = Len(order) THEN Null ELSE order[k + 2]
      BY <3>1 DEF Linked
    <3> QED
      BY <1>1, <1>3, <3>1, <3>2, <3>3
  <2>4. rear' = IF order' = <<>> THEN front' ELSE order'[Len(order')]
    <3>1. rear = order[Len(order)]
      BY <1>1 DEF Linked
    <3>2. Len(order) \in 1..Len(order)
      BY <1>1
    <3>3. rear = q <=> Len(order) = 1
      BY <3>1, <3>2, <1>4
    <3> QED
      BY <1>1, <1>2, <1>3, <2>1, <3>1, <3>3
  <2> QED
    BY <2>2, <2>3, <2>4 DEF Linked
<1>7. Owned'
  <2>1. {order'[k] : k \in 1..Len(order')} = {order[k] : k \in 1..Len(order)} \ {q}
    <3>1. \A k \in 1..Len(order') : k + 1 \in 1..Len(order) /\ order'[k] = order[k + 1]
      BY <1>1, <1>3
    <3>2. \A k \in 1..Len(order) : k # 1 => k - 1 \in 1..Len(order') /\ order'[k - 1] = order[k]
      BY <1>1, <1>3
    <3> QED
      BY <3>1, <3>2, <1>4, <1>1
  <2>2. live' = {front'} \cup {order'[k] : k \in 1..Len(order')}
    <3>1. front # q
      BY <1>1, <1>4
    <3> QED
      BY <1>2, <2>1, <3>1 DEF Owned
  <2>3. \A k \in 1..Len(order') : order'[k] # front'
    BY <1>1, <1>2, <1>3, <1>4
  <2>4. \A j, k \in 1..Len(order') : order'[j] = order'[k] => j = k
    <3> TAKE j, k \in 1..Len(order')
    <3>1. j + 1 \in 1..Len(order) /\ k + 1 \in 1..Len(order)
      BY <1>1, <1>3
    <3> QED
      BY <1>1, <1>3, <3>1 DEF Owned
  <2> QED
    BY <2>2, <2>3, <2>4 DEF Owned
<1>8. Contents # <<>> /\ Contents' = Tail(Contents)
  <2>1. Contents \in Seq(Data) /\ Len(Contents) = Len(order)
    BY <1>1, <1>3 DEF Contents, TypeOK
  <2>2. Contents # <<>>
    BY <1>1, <2>1, EmptySeq
  <2>3. /\ Tail(Contents) \in Seq(Data)
        /\ Len(Tail(Contents)) = Len(order) - 1
        /\ \A k \in 1..(Len(order) - 1) : Tail(Contents)[k] = Contents[k + 1]
    BY <2>1, <2>2, HeadTailProperties
  <2>4. Contents' \in Seq(Data) /\ Len(Contents') = Len(order) - 1
    BY <1>1, <1>3, <1>5 DEF Contents, TypeOK
  <2>5. \A k \in 1..(Len(order) - 1) : Contents'[k] = Contents[k + 1]
    BY <1>1, <1>2, <1>3 DEF Contents
  <2> QED
    BY <2>2, <2>3, <2>4, <2>5, SeqEqual
<1> QED
  BY <1>5, <1>6, <1>7, <1>8

LEMMA HeapStep == HeapInv /\ [Next]_vars => HeapInv'
<1> SUFFICES ASSUME HeapInv, [Next]_vars PROVE HeapInv'
  OBVIOUS
<1>1. ASSUME NEW d \in Data, insert_queue(d) PROVE HeapInv'
  BY <1>1, InsertKeeps
<1>2. CASE delete_queue
  BY <1>2, DeleteKeeps
<1>3. CASE UNCHANGED vars
  BY <1>3 DEF vars, HeapInv, TypeOK, Linked, Owned
<1> QED
  BY <1>1, <1>2, <1>3 DEF Next, delete_empty

\* In every behaviour of queue.c the pointers are well typed, the links follow
\* the insertion order, rear is the last node, and exactly the queued nodes and
\* the header are allocated: no stale rear, no leak, no use of freed memory.
THEOREM HeapAlwaysSound == Spec => [](TypeOK /\ Linked /\ Owned)
<1> QED
  BY InitHeap, HeapStep, PTL DEF Spec, HeapInv

\* Exactly the header and the queued nodes are allocated (queue.c:40-48, 58-66):
\* what free takes back is linked nowhere, and what is unlinked is freed.
THEOREM QueueOwnsHeap == Spec => []Owned
BY HeapAlwaysSound, PTL

\* Every behaviour of the linked queue is a behaviour of the FIFO queue.
THEOREM QueueImplementsFifo == Spec => ImplementsFifo
<1>1. Init => Queue!Init
  BY DEF Init, Queue!Init, Contents
<1>2. HeapInv /\ [Next]_vars => [Queue!Next]_Contents
  <2> SUFFICES ASSUME HeapInv, [Next]_vars PROVE [Queue!Next]_Contents
    OBVIOUS
  <2>1. ASSUME NEW d \in Data, insert_queue(d) PROVE Queue!Next
    BY <2>1, InsertKeeps DEF Queue!Next, Queue!Insert
  <2>2. CASE delete_queue
    BY <2>2, DeleteKeeps DEF Queue!Next, Queue!Delete
  <2>3. CASE UNCHANGED vars
    BY <2>3 DEF vars, Contents
  <2> QED
    BY <2>1, <2>2, <2>3 DEF Next, delete_empty
<1>3. Spec => []HeapInv
  BY InitHeap, HeapStep, PTL DEF Spec
<1> QED
  BY <1>1, <1>2, <1>3, PTL DEF Spec, ImplementsFifo, Queue!Spec
=============================================================================
