----------------------------- MODULE LinkQueue -----------------------------
(***************************************************************************)
(* queue_test/queue.c: a linked queue with a header node.  The heap is     *)
(* explicit: next and data are the fields of every node ever handed out,   *)
(* live is the set of nodes malloc has given and free has not taken back.  *)
(* malloc may return an address that was freed before, which is what turns *)
(* a stale rear pointer into a corrupted queue.                            *)
(***************************************************************************)
EXTENDS Naturals, Sequences, FiniteSets

CONSTANTS Nodes,  \* the addresses malloc can return; bound: the heap
          Null,   \* the null pointer
          Data    \* the values stored

ASSUME LinkQueueAssumption == Null \notin Nodes /\ 0 \in Data

VARIABLES next,   \* the next field of each node
          data,   \* the data field of each node
          live,   \* allocated nodes
          front, rear,
          order   \* history: the queued nodes, oldest first

vars == <<next, data, live, front, rear, order>>

\* Slips the properties must notice: rear left on the freed node, a node
\* unlinked but never freed, the newest taken first.
KeepRear(q) == rear
ForgetFree(q) == live
TakeNewest == rear

\* is_empty: the empty test used by delete_queue.
is_empty == rear = front

\* q = queue->front->next;
Oldest == next[front]

\* if (queue->rear == q) queue->rear = queue->front;
RearAfterDelete(q) == IF rear = q THEN front ELSE rear

\* queue->rear = q;
RearAfterInsert(q) == q

\* free(q)
Free(q) == live \ {q}
-----------------------------------------------------------------------------
\* init_queue: front and rear point to a fresh header node.
Init ==
  \E h \in Nodes :
    /\ front = h /\ rear = h
    /\ live = {h}
    /\ next = [n \in Nodes |-> Null]
    /\ data = [n \in Nodes |-> 0]
    /\ order = <<>>

\* insert_queue(queue, temp); malloc succeeds.
insert_queue(temp) ==
  \E q \in Nodes \ live :
    /\ live' = live \cup {q}
    /\ data' = [data EXCEPT ![q] = temp]
    /\ next' = [[next EXCEPT ![q] = Null] EXCEPT ![rear] = q]
    /\ rear' = RearAfterInsert(q)
    /\ order' = Append(order, q)
    /\ UNCHANGED front

\* delete_queue(queue) on a queue that is_empty says has elements.
delete_queue ==
  /\ ~is_empty
  /\ LET q == Oldest IN
       /\ next' = [next EXCEPT ![front] = next[q]]
       /\ rear' = RearAfterDelete(q)
       /\ live' = Free(q)
  /\ order' = Tail(order)
  /\ UNCHANGED <<data, front>>

\* delete_queue(queue) on an empty queue: free(NULL).
delete_empty == is_empty /\ UNCHANGED vars

Next == (\E d \in Data : insert_queue(d)) \/ delete_queue \/ delete_empty

Spec == Init /\ [][Next]_vars
-----------------------------------------------------------------------------
\* Types of the pointers and the fields.
TypeOK ==
  /\ next \in [Nodes -> Nodes \cup {Null}]
  /\ data \in [Nodes -> Data]
  /\ live \in SUBSET Nodes
  /\ front \in Nodes /\ rear \in Nodes
  /\ order \in Seq(Nodes)

\* The links follow the order of insertion, end in NULL, and rear points to the
\* last node, or to the header when the queue is empty (queue.c:48 and 62-65).
Linked ==
  /\ next[front] = IF order = <<>> THEN Null ELSE order[1]
  /\ \A k \in 1..Len(order) :
       next[order[k]] = IF k = Len(order) THEN Null ELSE order[k + 1]
  /\ rear = IF order = <<>> THEN front ELSE order[Len(order)]

\* The queued nodes are distinct, and with the header they are exactly the
\* allocated ones: nothing freed is still linked and nothing unlinked leaks.
Owned ==
  /\ live = {front} \cup {order[k] : k \in 1..Len(order)}
  /\ \A k \in 1..Len(order) : order[k] # front
  /\ \A j, k \in 1..Len(order) : order[j] = order[k] => j = k

\* The elements in the queue, oldest first.
Contents == [k \in 1..Len(order) |-> data[order[k]]]

Queue == INSTANCE Fifo WITH q <- Contents

\* The linked queue implements the FIFO queue.
ImplementsFifo == Queue!Spec
=============================================================================
