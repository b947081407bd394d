# linux-learn: verification project

TLA+ models of the concurrent and stateful programs of this repository, the TLC
configurations that check them on small instances, and TLAPS proofs of the
properties that matter most for every value of the constants.

The repository is a collection of programs written while learning Linux system
programming.  Its one larger system is a chat room (`socket_test/ChatRome --
select`): a server with a `select` loop, one thread per request, a linked list of
online users and an SQLite database.  Around it are small programs on threads,
locks, condition variables, semaphores, sockets, pipes, serial ports and
configuration files.  Vendored code (mbed TLS in `aes_test`, SQLite, cJSON, the
kernel's `list.h`), binaries and editor files are left aside.

## 1. Inventory

### The chat room

| part | state | operations | talks to |
|---|---|---|---|
| dispatch, `server/server.c` | `client_sockfd[]`, `allset`, `rset`, `maxfd`, `maxi`, `nready`, the local `sockfd` | `select`, `accept`, scan of the slots, `pthread_create`; `handleRequest` per thread | threads, through the *address* of `sockfd`; the kernel's descriptor table |
| user list, `server/list.c` | `userList` and its heap nodes | `insertNode`, `isOnLine`, `deleteNode` | every handler thread, without a lock |
| registration, `server/register.c` | table `User` | length test, select, insert | SQLite |
| login, `server/login.c` | table `User`, `userList` | `isOnLine`, select, `insertNode` | SQLite, the list |
| chat, `server/chat.c` | table `Message`, `userList` | `groupChat`, `personalChat`, `viewUserList`, `viewRecords`, exit in `enterChat` | SQLite, the list, other clients' descriptors |
| client, `client/*.c` | the connection, the user | connect, register, login, five chat requests, a receiving thread | the server |

What is hard here: `sockfd` is overwritten by `main` before a thread reads it and
set to -1 by threads that end; slots are cleared whether their connection was
readable or not; descriptors are closed twice and numbers are reused; the list is
changed by several threads at once and its nodes are freed under readers; checks
and updates of the database and the list are separate steps; results of SQL
statements are not looked at; the TCP stream has no message boundaries.

What makes it correct: the server keeps accepting clients; every request of a
connected client is answered by a thread of its own; only registered users get
in; the list holds exactly the users online; a private message reaches its
addressee and nobody else; a success that is reported has happened.

### The other programs

| program | state, operations | hard behaviour | correct when |
|---|---|---|---|
| `mutex_test` | a stock of tickets, four windows, one mutex | a second `unlock` by a thread that does not own the mutex | no ticket lost or sold twice; ends sold out |
| `pthread_cond_test` | one buffer, a producer, two consumers, two conditions | broadcast to two, spurious wakeups, more demand than supply | every item once and in order; no lost wakeup |
| `semaphore_test` | one cell, two semaphores | strict alternation | values in order; ends |
| `queue_test` | linked queue with a header node | `rear` on a freed node, address reuse | FIFO; no leak, nothing dangling |
| `socket_test/{epoll,select,poll}_socket` | one thread; a ready list or a table of connections, one buffer for all | edge-triggered events, a shared buffer, reused entries, resets, uninitialised marks | each client gets its own bytes back, each once and in order; nobody waits for ever; the server blocks only where it means to |
| `socket_test/{pthread,tcp,udp}_socket` | a thread or a process per connection, datagrams | "byebye." inside the stream, unreaped children, lost datagrams | each client gets its own bytes back |
| `wt_hlw8032.c` | serial frames, counters, `wait_flag` | signal against main loop, frames in pieces, counter overflow, division | the energy total continues the meter's counter; filters hide single spikes; the loop does not end |
| `ping_test` | table of sent packets, counters, two threads and a signal handler | lost, late and duplicated replies, other processes' packets, time-outs, SIGINT, a second call | success means every packet was answered; it leaves its table only where later calls and the range test take it; it comes back and does not trap |
| `config_item` | an INI file rewritten in place, a list of items | lines of different length | a read returns the last write, other keys untouched |
| `http-client` | response header, file, two threads | short and failed reads | file complete when reported so |
| `pipe_ser_clnt` | two FIFOs with JSON messages | unframed reads, end of file | each command executed once |
| `button_test`, `thread_test`, `data_server_test`, `timer_test`, `loop_run`, `dog.sh` | small state machines and loops | time, unlocked shared variables | see the plan |

`PROJECT.json` lists every component with its status, and under "hazards" the
places where this code is hard to test.

## 2. Modules

| module | what it is |
|---|---|
| `ChatDispatch` | `server.c`: the select loop, the slots, the descriptor table, the threads from `pthread_create` to their last `close` |
| `ChatSession` | `register.c`, `login.c`, `list.c`, `chat.c`: what the threads do to the list and the database, one step per shared access |
| `TicketWindows` | `mutex_test.c` |
| `CondBuffer`, `SemBuffer` | `cond_test.c`, `sem_test.c` |
| `OneSlotChannel` | what a one-place buffer promises; the two programs above implement it |
| `LinkQueue` | `queue.c` over an explicit heap |
| `Fifo` | what a queue promises; `LinkQueue` implements it |
| `MeterReader` | `wt_hlw8032.c`: the serial line, the signal handler, `deal_data` and `DealUartInf` |
| `EchoPeers` | the clients of the echo servers (`client.c`) and their TCP connections; shared by the next two |
| `EchoEpoll` | `epoll_socket/server.c` |
| `EchoScan` | `select_socket/server.c` and `poll_socket/server.c` |
| `Echo` | what an echo server promises; `EchoScan` implements it |
| `Ping` | `ping.c`, called as in `main.c`, once or again |
| `MC<module>` | the instance for TLC; `MC<module>*.cfg` the configurations |
| `<module>Proofs` | theorems and proofs |
| `ThreadProofs` | theorems and proofs about `TicketWindows`, `CondBuffer` and `SemBuffer`, whose definitions carry different names so that one module can hold all three |

Definitions named for a slip ("KeepMaxfd", "LockWithoutWaiting", ...) are wrong
versions of the definition below them.  They take no part in the specifications:
each one put in place of the right definition must make some property fail.

### ChatDispatch

`file` is the kernel's descriptor table: descriptor to connection.  `Accept` takes
the lowest free number and the lowest free slot, `CloseFd` frees a number whatever
it is open on by then, and a `recv` in progress (`tconn`) stays with the connection
it resolved when it started.  `sockfd` is one variable for `main` and all threads.
`main` is one action per access to it: `Scan` stores it, `SkipThread`,
`CreateThread` and `BreakScan` read it for `FD_ISSET`, `Clear` reads it once more for
`FD_CLR`; `Begin` is the thread's read of it and `StoreMinusOne` its `*fd = -1`.
`FD_CLR(-1)` clears bit 63 (`BitOf`), as the macro does on a 64-bit machine; the
constants keep that number away from the listening descriptor.  A `select` on a set
with a closed descriptor fails and leaves `rset` as it was, after which the
code goes on to `accept` (`Select`).  `AcceptFails` is both `exit(1)` branches.
What requests do is left to `ChatSession`; a login matters here because
`enterChat` closes the descriptor before `handleRequest` closes it again.

### ChatSession

A session is a connection with its thread.  Heap chunks are `Nodes`: `free` (action
`Free`) overwrites the name, leaves the rest, and `NewNode` may get any chunk not in
use.  Reading a freed chunk yields what is left there; it may also kill the process
(`Fatal`, `Killed`), as a second `free`, a null head or a write to a closed
connection (nothing handles SIGPIPE) do.  The walks of `isOnLine`, `deleteNode`,
`personalChat` and `viewUserList` share `Walk`, `Found` and `Missed`; `op` says which
one it is.  `userList = insertNode(userList, ...)` is its separate accesses: `NewNode`
(the head is read), `Seek`, `Link`, `Store`.  `deleteNode`'s test for the tail and the
store that follows are one step, `Unlink`; deletion of the head changes only the
local pointer, as in the code.

SQL statements are atomic.  `sqlite3_open` and `sqlite3_prepare` may fail at any time
(the FAILED answers); a step may meet SQLITE_BUSY while another thread is in a
statement (`DbBusy`), which the code does not tell from "no row" or from success.
A `recv` with an error (n < 0) is not tested by `enterChat`, so the last message is
handled again (`RecvFails`).  Nor is the `recv` of the user record tested: `Start` goes on
with any name and password when the client has ended before it.

The statements are put together with `sprintf` and nothing is escaped.  A text without a quote
is the value it was meant to be (`Plain`).  With one in the name or the password a login's select
may find a row or none (`LoginCheck`), and an insert may add any rows (`Inserted`, `Extended`).  It
does not change rows: `sqlite3_prepare` compiles only the first statement of the text, and
two fields of 20 bytes have no room for an ON CONFLICT clause that would update one.  A message may be stored as something
else than was sent (`Forged`), whatever its names, because its content goes into the statement
too.  What the select let in is `Admitted`, and this is what `OnlyKnownUsers` and
`StoredForAdmitted` speak of: that a login is backed by a row can be said only of those who
gave no quote.

The columns of the tables and the text of messages are
left out; a message is its kind, its sender and its receiver.

Two assumptions come from the build.  Messages are received whole: the framing of
the stream is not modelled yet (section 6).  And the oversized copies
(`memcpy(&user, buf, sizeof(buf))`, the INSERT statement in `sql[128]`) stay inside
the frame of the function, which is the layout gcc produces on the documented
platform: the struct lies below the 8192-byte buffer, `sql` beside it.

### MeterReader

A byte is the frame it belongs to and its place in it, so pieces, mixtures and shifts of
frames are visible without the bytes' values.  The meter starts at any place of a frame
(`at`), a byte may read as 0 after a parity error, and SIGIO is pending (`sigio`) until
it is delivered at any later step.  `signal_handler_IO` also ends a `read` that is
waiting, since the handler is installed without SA_RESTART; old bytes stay behind a short
read in `buf`.  `Copy` is the search for 0x5A and the copy to `hlw_buff`, which otherwise
keeps its last frame.  `Reject`, `DealNormal`, `DealUncalibrated` and `DealFault` are the
ways through `DealUartInf`; the three channels share `Filter`.  The energy total keeps the
arithmetic of the code, with the moduli of unsigned int and unsigned long as constants
(the latter is 32 bits wide in the ARM binary of the repository).  A division by zero is
undefined: the process is killed where it traps, as on x86, and goes on where it gives 0,
as in that binary (`AfterDivision`).

The checksum covers bytes 2 to 22 only, so the state byte may be damaged, or be left of another frame:
`States` says what `DealUartInf` may take it for.

Taken for granted: the checksum recognises everything in the bytes it covers that is not of one frame
(a frame of which only zeros are left would pass);
no byte but the second of a frame reads 0x5A (the proofs do not use this); and the counter
does not overflow twice between two frames that are counted, 65536 pulses apart
(`NextCounts`).  Input before the line is asynchronous is dropped by `tcflush` and not
modelled; the second half of `buf` is written and never read.  `last` is a history
variable.  The values printed are not kept, and `runingInf.voltage`, `.electricity` and
`.power` are only ever set to the 0 they start with, although the comments at their
declaration call them the current values.

### EchoPeers, EchoEpoll, EchoScan

A line of client c is `LineLen[c]` pieces, the last of which holds the newline; piece k is
the pair of the client and k, so that pieces that are mixed up, doubled or lost show.  `readline` goes
on until it meets a newline, whoever's it is.  A client may be killed anywhere (`Leave`).
Pieces arrive one at a time, in order, and `read` returns any number of them that have come
and fit.  What the kernel does is external: a client that ends sends FIN, or RST if
it left something unread; data for a client that ended is answered by RST; the first call
after a reset reports it (`reset` to `spent`), except that after a FIN `read` goes on to return 0, a write after that, or on a connection with FIN
and RST (`broken`), raises SIGPIPE, which ends the server (`WriteKills`).  Connections are
named by their clients: a server closes a descriptor only while it handles it, so a number
that is reused never meets an event or a mark of its former owner.

In `EchoEpoll`, `ready` is the kernel's ready list and `rest` what is left of `events[]`.  A
descriptor joins the list at an edge and, if its condition holds, at ADD and MOD
(`Register`); this is why one read per event is enough here, and why it is not for the
listening socket, which is never registered again.  Each handler is one step, since nothing
that comes in between its calls leads elsewhere than if it had come before or after.
`overlap`, `burst` and `dropped` are history variables for the conditions under
which the properties hold: the code really gives overlapping clients each other's lines,
really leaves one of two clients that connect together waiting, and really drops
events on a write error.  `write` with n == -1 fails and passes for a success (`WriteBack`).

In `EchoScan` the two servers share everything but the marks.  select's `rset` is new in each
round; poll's `revents` lie in the table, and those beyond `maxi` are whatever was on the
stack, so `Init` chooses them.  `maxi` counts from 1 in both (0: none).  The test
`--nready < 0` never holds and `Accept` leaves it out.

### Ping

main, the two threads and the handler share unlocked words; `Send` and `Count` are apart
because a reply can come in between.  Replies are the set `wire`: they may stay there for
ever (lost), be taken in any order, or be taken and left (duplicated).  The raw socket also
shows every packet of others: strangers, which `icmp_unpack` refuses (`RecvStranger`), and
namesakes, echo replies for another process whose id agrees with ours in 16 bits, which it
cannot tell from ours (`RecvNamesake`).  One numbered PACKET_SEND_MAX_NUM passes the range test
and is written one past the table; `beyond` records every such index, what lies there is not
modelled.  When the second `pthread_create` fails the sender runs on until `main.c` has ended
the process.  Time is left out: `select` may time out
whenever it waits.  `ping_test` is exported, so `CallAgain` calls it again, with the
counters as they are.  PACKET_SEND_MAX_NUM has the value of `ping.h`.  Line 267 of the source
has a stray backquote in `sizeof`, without which it is read here.  The verdict is an integer
percentage: from 101 packets on, one lost packet is 0 % and passes for success, so
`HonestSuccess` speaks of at most a hundred; `ping.h` sends three a call.

### The smaller modules

`TicketWindows` splits `tickets--` into load and store, and gives the mutex the
behaviour of glibc's default mutex: unlock clears the word whoever calls.
`CondBuffer` keeps the wait sets of the two conditions; a woken thread must win the
mutex again.  `SemBuffer` is one action per statement; the program stores to `buff[1]`
of an array of one element, which is modelled as the word after it, used by nothing
else.  `LinkQueue` keeps `order`, the queued nodes as a history variable, against which
the pointers are compared.

## 3. What the runs check

| run | instance | shows |
|---|---|---|
| `tickets` | 4 windows, 3 tickets | `NoTicketLost`: sold and left always add up, although the second unlock lets two windows into the section; `SaleExclusive`: not while there is a ticket to sell, and no window writes back a stale stock; `EndsSoldOut` under fairness |
| `cond_buffer` | 1 producer, 2 consumers, 5 items, 2 spurious wakeups | items once and in order, no lost wakeup, implements the live `OneSlotChannel`; and `SomeConsumerStranded`: the program cannot end |
| `sem_buffer` | 16 items | one token, the loops end, implements `OneSlotChannel` |
| `link_queue` | 5 addresses, 2 values | shape, ownership, implements `Fifo` |
| `dispatch` | 3 clients, 3 threads, 2 slots, 2 connection descriptors | the listening socket survives every race; `select` and the scan cover what is watched |
| `dispatch_accepts` | 2 clients, 2 threads | under fairness a waiting client is accepted or the server exits |
| `dispatch_served` (violation) | the same | a client that connects and sends its request after a scan is never served |
| `session` | 2 sessions, 5 names (2 registered, 1 with a quote, 1 too long), 2 passwords, any rows an injection may add, 2 chunks, 2 chat requests | `OnlyKnownUsers`: with a quote one gets in without a row, but under no name other than the one given, and who gave none needs the row; `StoredForAdmitted`: messages are stored for nobody else; the list has a head for `groupChat`, and is right while nothing overlaps |
| `meter` | frames of 3 bytes, overflow at 2 pulses, 3 frames, 1 garbled byte | the energy total continues the counter and is exact with the second frame of a turn; single spikes are hidden |
| `epoll` | 2 clients, 2 lines each, one client's in two pieces, a buffer of two | `NoLostEdge`: one read and one accept per edge lose no event but after a write error or a burst of connections, and accept is never called in vain; `EchoesOwn`, `SoleServed`: a client that is alone gets its own lines, and gets them |
| `scan` | 3 clients (a line in two pieces, one in one, none), 2 entries, select or poll, any marks | `TableCovers`, `BlocksOnlyOnGarbage`, `Served`, and both servers implement `Echo` |
| `ping` | 3 packets, 3 calls, 2 strangers, 1 foreign reply with our id numbered 0, 3 or 4, 1 duplicate, 1 instead of 3 tolerated errors | `OverrunBounded`: the packet table is overrun by an entry per earlier call and by the one entry the range test lets a namesake reach, no further; `HonestSuccess`, `TrapsOnlyInterrupted`, `Returns` |

`CHECK_DEADLOCK FALSE` stands where the system may stop: users who send nothing
more, a process that was killed or has exited, a serial port that cannot be opened, and consumers that wait for ever.

**Bounds.** Two sessions are enough for every race on the list and the tables (each
is between two threads) and for deletion at the head and at the end of the list;
deletion in the middle, the same definition (`Unlinked`) as at the end, is not reached by
the run; `ListAlwaysTracks` (section 4) covers it.  Right and wrong passwords are
tried with registered and unknown names and with one that has a quote; a quote in the password
has the same effect as one in the name (`Plain`).
Three clients against two slots and two descriptors make
slots and descriptors run out and numbers be reused; as `main` makes at most one
thread per accepted connection, as many threads as clients suffice.  Five heap
addresses let the queue be empty, full and reuse every address.  Two spurious
wakeups hit both consumers or one twice.  Three tickets for four windows leave one
window without.  Three places are the least a frame of `MeterReader` can have (state,
0x5A, the rest); an overflow at two pulses lets a frame be behind or beyond the last one
after an overflow, six bytes in the queue make the double read, and three frames the
overflow and what settles it.  For the epoll server two clients are what
`overlap` and `burst` need, and the second line of a client is the one an old event or an old
buffer would spoil; with three clients two can wait for accept while a third is served, and
in `scan` the table of two runs full and its entries are reused.  Two pieces against a buffer
of two make lines arrive whole, in parts and together.  For `ping` the number of packets is
the real one; a second call meets the counters of the first, a third those of a call that
went wrong; the errors tolerated are one less than the strangers, two at least.  The numbers a
namesake carries are inside the table, one past it and one the range test refuses.  The bounded constants are named in the modules (`MaxDesc`,
`MaxSends`, `MaxSpurious`, `Nodes`, `Fds`, `MaxFrames`, `MaxNoise`, `MaxLine`, `Lines`,
`MaxCalls`, `MaxStrangers`, `MaxNamesakes`, `ForeignSeqs`, `MaxDups`).

**Symmetry** is used for clients, threads, sessions, addresses and those names that
are treated alike, and only in runs that check no liveness; the refinement of `Fifo`
in `link_queue` is a safety property.

**Fairness** is weak fairness of each thread and of `main`: the scheduler runs what
can run.  Nothing is assumed of clients, nor of which thread a mutex or a signal
favours.  It is enough for `tickets` because windows leave once the stock is gone,
and for `cond_buffer` because spurious wakeups are finitely many.  In the echo modules the
server, the network (TCP delivers) and a client inside `readline` are weakly fair; nothing
makes a user type, connect or leave.  In `Ping` main, the sender and the receiver are
weakly fair, and `Timeout` is strongly fair: `tv` is set once, before the loop, and Linux
leaves the rest of the time in it, so the rounds of `select` share three seconds and the
receiver cannot be kept busy for ever.

**Where the code and its own words differ.**  The run `dispatch_served` is expected to fail
and quotes the line it contradicts; `PROJECT.json` has the details under "findings".  Four
more statements taken from comments are defined beside the properties and are refuted
within seconds when put in place of the properties of the named configuration:

| statement | in place of the properties of | the code |
|---|---|---|
| `ListEnds` (`list.c:44`) | `MCChatSession.cfg` | the oldest user leaves, the next login gets its freed chunk, and the list is a ring in which `isOnLine` walks for ever |
| `PersonalReachesAddressee` (`chat.c:139`) | `MCChatSession.cfg` | a private message reaches the client that got the descriptor of a user who is gone |
| `Endless` (`wt_hlw8032.c:627`) | `MCMeterReader.cfg` | a frame before the first power sample makes `DealUartInf` divide by zero |
| `StrangersDiscarded` (`ping.c:202`) | `MCPing.cfg` | a packet that is not ours is counted as a reply once a few have been refused |

Other such behaviours met while modelling, without a run of their own: two
overlapping logins of one user both succeed and two overlapping logins can lose
one from the list (`ListTracksLogins` therefore asks that nothing overlaps); two
threads can read the same `sockfd`; an insert refused by the primary key is answered
with SUCCESS (`register.c:100`), so two overlapping registrations of one name are both
told they succeeded; a login whose name or password has a quote in it gets in without
a row (`login.c:57`); two windows of `mutex_test` can be between
lock and unlock together once the stock is gone (`StockInv` claims exclusion only
before).

## 4. What is proved

All proofs hold for every value of the constants that satisfies the module's
`ASSUME`, so for any number of threads, clients, users, items and nodes.

- `ThreadProofs`, for the three small programs.
  *Tickets*: `NothingLost`, `SoldOutOnLeaving`, `SoldOneAtATime`.  `NoTicketLost` is not
  inductive, since exclusion really fails in the end.  `StockInv` adds the reason
  why that is harmless: as long as `tickets > 0` no window has its flag set or has
  reached the second unlock, so exclusion holds and a window about to store holds
  the current value; once `tickets = 0` nobody loads or stores.
  *Condition variables*: `BufferAlwaysSound`, `NoWakeupLost`, `SomeoneStranded`,
  `CondImplementsChannel`.  `CountInv` ties the producer's counter to the buffer and to the
  number of items consumed.  `WakeInv` says that the producer sleeps only before a full buffer and
  consumers only before an empty one (whoever changes the buffer wakes both sets), that who
  is done has had MAX rounds, and that two consumers together have printed no more than was consumed; so
  two sleepers on different conditions contradict each other, and two consumers cannot both
  have had every item.  No set of consumers has to be counted.
  *Semaphores*: `TokenAlways`, `SemaphoresImplementChannel`.  `TokenInv` says what the
  place of the one token tells about the counters and the cell.  Initial states map to
  initial states, `ProducerPost` to `Put`, `CustomerPrint` to `Take`, all else to stutters.
- `LinkQueueProofs`: `HeapAlwaysSound`, `QueueOwnsHeap`, `QueueImplementsFifo`.  `Linked` and `Owned`
  together are inductive: a deletion must know that nodes are distinct, and an
  insertion that a new address is not among them.
- `ChatDispatchProofs`: `DispatchTypes`, `ListenerAlwaysSafe`, `WatchAlwaysCovered`.  The
  invariant says that `sockfd`, every slot and every thread's descriptor is -1 or greater
  than the listening one, which is what all the stale closes and FD_CLRs depend on.
- `ChatSessionProofs`: `KnownUsersOnly`, `StoredOnlyForAdmitted`, `HeadAlwaysThere`,
  `SessionTypes`.  The invariant has four parts: types; `Shape`, which locals are set
  where; `Known`, who was let in without a quote is backed by a row, and every name left in a
  chunk, freed or not, and every receiver found there is that of a session let in (`Backed`; sessions
  let in stay so, which is `KnownStep`); `Headed`, once a login has
  succeeded the list has a head, because no step stores NULL into `userList`.
  `ListAlwaysTracks` is `ListTracksLogins`.  Its invariant `TrackInv` speaks between the updates too:
  unless two updates have overlapped or the head was deleted, there is a sequence of distinct
  allocated chunks, linked in its order (`IsChain`), whose names are the logins, give or take the
  one that is about to be stored or freed (`Accounted`), and the one session at work
  stands at a place of it that fits its request (`Working`: a login has passed no name of its own
  and its new node is not in the sequence yet, an exit holds the predecessor of the node
  it looks at).  `NewNode` or `Link` makes the sequence longer by one, `Unlink` takes one out
  wherever it stands, and every other step leaves it.  `ChainIs` shows that the recursive walk `Chain` of the
  property spells the names of that sequence, by induction over the steps of the walk.
- `EchoScanProofs`: `ScanTypes`, `TableAlwaysCovers`, `BlocksOnlyThere`,
  `ScanImplementsEcho`.  `TableCovers` needs `RosterInv`: nobody waits twice, and who waits or
  has an entry is connected.  `BlocksOnlyOnGarbage` needs `PassInv`, which counts: either
  `nready` is the number of marked entries from `i` on and all of them were reported, or
  it is one less, and the last of them is the new one of poll's.  In the second case the pass
  runs out of `nready` before it gets there, unless nothing else was marked; so the blocking
  read only happens when all entries below are occupied and none of them is ready.  For the
  refinement `EchoInv` keeps the account: what a connection's client sent and the server read is written
  back, or is in `buf` in order, or the connection is broken; `WriteBack` is `Answer`,
  `SendLine` is `Say`, all else stutters.
- `EchoEpollProofs`: `EpollTypes`, `NoEdgeLost`, `EchoesOnlyOwn`.  `NoLostEdge` becomes inductive with
  `EventInv` (an event in hand is the only one of its descriptor, is what the descriptor is
  registered for, and is still true), `BacklogInv` and `LinkInv` (who waits for accept waits once and is
  connected) and `ListenInv`: without a burst the connections that wait are no more than the
  events of the listening socket, on the ready list or in `events[]`, so accept finds
  somebody.  `EchoInv` is the account of the one shared buffer: without overlap one client at most
  is under way, and what was read of it and not written back is in `buf`, in order.  `FilteredMembers` says what
  the recursive `Filtered` leaves of the ready list.
- `PingProofs`: `PingTypes`, `OverrunIsBounded`, `TrapNeedsInterrupt`, `SuccessIsHonest`.  `SendInv`
  bounds `send_count` by the number of the call (each call may add one entry too many, the first
  none), so that only a namesake can write past the table in the first, and says that before the first count only SIGINT stops the sender.  `CreditInv` is why
  a success is honest: replies counted, packets waiting for their reply, replies that come too late
  for the table and the refusals not used up by strangers are together no more than the
  packets sent, unless a reply came twice or was a namesake's; so when as many were counted as sent, nothing waits.
- `MeterReaderProofs`: `MeterTypes`, `EnergyAlwaysExact`, `EnergyAlwaysSettles`,
  `SpikesAlwaysHidden`.  `EnergyExact` needs to know that the frame decoded is not older
  than the last one counted and at most one overflow ahead.  `OrderInv` carries this from
  the line through `buf` and `hlw_buff`: the counters of all bytes on the way are in
  order, wherever they have been mixed, left behind or decoded before.  The filter
  theorem rests on `MajorityWins`: two equal entries decide the median.  The moduli enter
  only through `NoWrap` and `WrapLater`, proved from the definition of division.

What a recursive function computes (`Filtered`, `Chain`) is proved by induction over a *set* of
numbers: a set that has 0 and with every number the next is all of Nat (`Induction`, from the
least number outside it), applied to the set of steps at which the claim holds.

Every invariant that a run checks is proved, and so are the refinements of `Fifo`, `Echo` and
`OneSlotChannel`.  Only model-checked are the properties that need fairness, which is outside the
prover: `EndsSoldOut`, `ImplementsLiveChannel` (its safety part is `CondImplementsChannel`),
`AllPrinted`, `EveryoneAccepted`, `SoleServed`, `Served`, `Returns`.  The inductive invariants were
checked with TLC on the instances of the runs before they were proved, and are not repeated
in the runs.

## 5. What is not modelled

- The bytes on the chat room's connections (first in the plan).
- Wording, menus and logs; the contents of messages; dates and addresses in the tables.
- Failure of `malloc`, `calloc` and `pthread_create`, whose results the code does not test.
- Memory beyond an array's end (`content[-1]` in `viewRecords`, `ctime` in a 20-byte
  field): its effect is a matter of the compiled frame.
- Sizes of arrays in the echo servers: epoll's `events[20]` against 256 events asked for, the
  terminator of a full buffer (`epoll_socket/server.c:126`), a descriptor of FD_SETSIZE or more
  in `FD_SET` (`select_socket/server.c:98`); partial writes, for which a client would have to
  leave more unread than the one line it waits for.
- `str_cli2` of the select client, which nothing calls; the printed times and the checksum of `ping.c`.
- The programs listed as planned below.
- Vendored code, which is all but a few thousand of the repository's lines: mbed TLS
  under `aes_test`, the SQLite amalgamation, cJSON.  It is third-party code with one short
  caller each and none of this repository's logic.

## 6. Plan

In this order; each module with its MC module, and with proofs where marked (P).

1. `ChatFraming`: the stream between client and server as pieces, `recv` returning any
   prefix, 8192-byte frames against reads of 8193 and 2148 bytes and of `sizeof(User)`;
   abstract specification: a channel of whole messages, which `ChatSession` assumes.
2. `ConfigFile`: `IniReadValue` and `IniWriteValue` on a file of lines with lengths,
   against a reference map from keys to values.
3. `Talk`: the client and server of `pthread_socket`, whose "byebye." is only
   recognised when it is received alone; the fork and the UDP server.
4. `FifoClient`, `Download`, `Button`, `ThreadStamp`: the remaining state machines.
5. A composition of `ChatDispatch` and `ChatSession`, in which sessions get the
   descriptor `main` really hands over.

To keep the number of runs small, new runs replace the narrower ones above where
they ask the same question on a larger model, and statements the code refutes are kept
as definitions once a run has shown it.
