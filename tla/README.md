# A TLA+ model of xxlib

xxlib is a C++ library of containers and single-threaded network event loops,
and a family of servers built on it. This directory models the part that the
current servers run on: the second epoll event loop (`src/xxlib/xx_epoll2.*`)
with its TCP and KCP connections, the weak references, the timeout wheel and the
queues it is built from, the gateway (`src/xx_gateway2/main.cpp`) that forwards
between game clients and services, and the two classes that use threads, the
thread pool and the logger.

## The system

| Part | State it keeps | Operations | What makes it hard |
|---|---|---|---|
| `ItemPool`, `Ref` (`xx_itempool.h`, `xx_epoll2.hpp:32`) | slots with a version, a free list through the slots | Add, RemoveAt, Clear; take, test and follow a reference | destructors run inside RemoveAt and come back to the pool; slots are reused |
| `ItemTimeout` (`xx_epoll2.hpp:103`, `:1255`; `xx_timeout.h` is the same code) | a ring of intrusive lists and a cursor | SetTimeout, the destructor, one frame of the wheel | handlers change the list that is being walked |
| `Context` (`xx_epoll2.hpp:1157-1540`) | items, fd table, KCP table, wheel | Wait, UpdateKcps, Run, Create..., AddItem, DelFD | several events per call, about items that an earlier one destroyed |
| `TcpPeer`, `TcpListener`, `BufQueue` | receive buffer, send queue, EPOLLOUT flag | OnEpollEvent, Send, Write, Accept | partial writes, a per-frame limit |
| `Dialer`, `TcpConn`, `KcpConn` | attempts in flight, a timeout | Dial, Stop, OnTimeout, OnConnect | several attempts finish together, or with the timeout |
| `KcpListener`, `KcpPeer` | conv table, shake addresses, ikcp state | handshake, Input, Update | loss and reordering, lifetime across tables |
| `Gateway` (`xx_gateway2/main.cpp`) | clients by id, whitelists, dialer and peer by service id, configuration | accept, forward, open, close, kick, ping, dial, reload | late commands, timers, reloads, a callback run by hand |
| `ThreadPool` (`xx_threadpool.h`) | task queue, stop flag, threads | Add, worker loop, destructor | lost wake-ups, shutdown |
| `Logger` (`xx_logger.h`) | two item queues, a writer thread | Write, the writer, shutdown | handshake between two threads, a limit |
| `SimulatePeer` (`xx_lobby/main.cpp`) | serial, callbacks by serial with timeouts | request, response, timeout | an answer that races its timeout, serials that wrap |
| `Dict`, `Queue`, `List` | arrays | add, remove, update | chains and free list in the same arrays |

Everything but ThreadPool and Logger runs on one thread. What interleaves is the
order of events: callbacks call back into the loop, an item may destroy itself or
others from its handler, and answers and commands arrive about things that are
no longer there. The parts meet as follows. `Context::items` is an `ItemPool`
that owns every peer, dialer, timer and listener, and code that outlives a call
holds a `Ref`. `Peer`, `Timer` and `Dialer` are `ItemTimeout`s in the wheel of
their Context. A gateway is a set of callbacks on peers, two timers and a
dictionary of `Ref`s.

Not modelled, with the reason in `PROJECT.json`: vendored code (ikcp,
http_parser, ajson, chipmunk, libuv, libvpx, libyuv, sqlite3, deboost.context),
the earlier generations of the loop (`xx_epoll.h`, `xx_uv*.h`) and of the
gateway, the fish game's logic, the C# generators, bindings and small utilities.

## Modules

| Module | Models |
|---|---|
| `WeakRefs` | what a `Ref` promises: it resolves to its object while that exists and to nothing from the moment its destruction begins |
| `ItemPool` | `ItemPool` and `Ref`, field by field |
| `ItemPoolProofs` | theorems about `ItemPool` |
| `Deadlines` | what `SetTimeout(k)` promises: OnTimeout in the k-th frame from now unless re-armed, cancelled or destroyed |
| `TimeoutWheel` | the ring of lists, the walk of a frame, `Timer::OnTimeout` and `Peer::OnTimeout` |
| `TimeoutWheelProofs` | theorems about `TimeoutWheel` |
| `Gateway` | the gateway's dictionaries, timers and callbacks |
| `GatewayProofs` | theorems about `Gateway` |
| `Dialer` | a dialer, its attempts, `Context::Wait` and the table `fdMappings` |
| `DialerProofs` | theorems about `Dialer` |
| `TaskQueue` | what a pool of threads promises: jobs start in order, once, and are refused only after it was closed |
| `ThreadPool` | `ThreadPool` and `ThreadPoolEx`: workers, Add, the destructor |
| `ThreadPoolProofs` | theorems about `ThreadPool` |
| `RingQueue`, `BufQueue` | `Queue` (`xx_queue.h`), a ring that grows, and `BufQueue` on it, which pops bytes; operators on records, without variables |
| `TcpPeer` | the sending `TcpPeer` with its `BufQueue`, the socket, the receiving `TcpPeer` and the framing of packages |
| `TcpPeerProofs` | theorems about `RingQueue`, `BufQueue` and `TcpPeer` |
| `KcpSession` | the KCP handshake over UDP, `KcpConn`s and their peers in `Context::kcps`, a `KcpListener` with `shakes` and `kcps` |
| `KcpSessionProofs` | theorems about `KcpSession` |
| `Logger` | `Logger`: Write, the writer thread, `SqliteLogWriter` and its table, the destructor, over several runs of the program |
| `LoggerProofs` | theorems about `Logger` |
| `MCItemPool`, `MCTimeoutWheel`, `MCGateway`, `MCDialer`, `MCThreadPool`, `MCTcpPeer`, `MCKcpSession` | small instances for TLC |

**ItemPool.** `ver`, `next`, `len`, `freeHeader`, `freeCount` and `version` are
the fields of the same names; `obj` names the object whose storage a slot is.
`RemoveAt` is two actions, `RemoveBegin` up to the call of the destructor and
`RemoveEnd` after it, with a stack `dying` of the destructors in progress, so
that any sequence of Adds and Removes can happen in between. `Place` is `Add`
after `Alloc`; `AddWithGrow` is the branch that replaces the buffer, after which
the uninitialised versions of the old slots are any number stamped before (an
arbitrary 64-bit value matches a reference only in that case). `Clear` is
`ClearBegin`, `ClearDestroy`, `ClearStep`, `ClearEnd`.

**TimeoutWheel.** `h` holds the heads and every item's index, prev and next; the
helpers take and return such a heap as the code's statements rewrite it. `p` is
the item whose OnTimeout runs and `np` the saved next pointer. While a handler
runs, the program may do anything to any item, within `Careful`.

**Gateway.** A handler is one action. Clients are known by their ids, which the
gateway never reuses. `mode` says which callbacks a client still has: a client
kicked with a delay is "leaving", it keeps its command callback, and its
`onDisconnect` has been replaced by an empty one. `serviceDialerPeers` is split
into its `keys`, the keys with a `dialers` entry, those whose dialer is `busy`
and those with a living peer (`up`), because the code creates entries without
either through `operator[]`. `view` is a history: what the messages of its
present session told a service about a client. `crashed` records an exception
of `Ref::operator->` that nothing catches.

**Dialer.** One dialer on the loop. The code's handlers call one another
(`OnEpollEvent`, `Stop`, `Dispose`, `OnConnect` and whatever the program does in
it), so the state they work on is one record `s`, and each helper takes and
returns such a record, or a set of them where the program or the system
chooses. `batch` holds the events of one `epoll_wait` that are not handled yet:
each names a descriptor, and the handler that runs belongs to whatever item
`fdMappings` gives for it by then. `Handled` is what a handler of the program
may do to the dialer: nothing, Stop, Dial, or destroy it. `Peerless` names the
protocols for which `OnCreatePeer` may fail. `asked` is a history of who waits
for an answer. `fault` records the two outcomes the program does not go on from.
Left out: the repetition of the KCP handshake and UDP errors of a connection that
is made, which are in `KcpSession`, and items that have nothing to do with the dialer, whose handlers
appear only as `Program`.

The gateway sees a dialer as `busy` until it connects or times out, which is
what `BusyExact`, `OneAnswer` and `DialEnds` establish of the dialer.

**ThreadPool.** What the code does under the mutex is one action: the body of
Add, one look of a worker in `cond.wait` (it takes a job, returns, or goes to
sleep), the flag of the destructor. `notify_one` and `notify_all` come after the
unlock, so they are actions of their own, and `owing` names the threads between
the two. A worker may wake for nothing. Add is called by other threads until the
owner destroys the pool, and by jobs at any time; only a job can meet the
refusal of a stopped pool.

**RingQueue, BufQueue, TcpPeer.** A ring is a record with the fields of `Queue`;
a slot without a constructed element holds `Raw`, so `Sound` sees a destructor
that is missing or runs twice. `PopLast` (`xx_queue.h:114`), which destroys the
slot at `tail` instead of the one before it, is called nowhere and left out. A
byte is its position in the stream, a buffer its first position and its length.
`Fill` returns what the code leaves in `vsLen`, `bufLen` and the returned offset,
and the sum `ask` of the lengths it put into the vector, since the first entry
keeps its whole length when the frame ends inside it. `Write(o)` is the set of
the outcomes of one `writev`, which may take any part of what fits. Its vector is
on the stack and not initialised (`xx_epoll2.hpp:279`), and when two buffers or
more fit whole into the frame and the vector, `Fill` tells `writev` of the whole
vector and not of the entries it has set (`xx_buf_queue.h:113`). Then the write may
also be refused (EFAULT or EINVAL, which `Write` returns as -3), or take as many
bytes (`Junk`) after those of the queue as the other entries happen to hold
(`Stray`). `clean` is a history: no write has taken such a byte. `armed` is
EPOLLOUT in the interest set. The reader takes any part of what has arrived;
`OnReceive` is the loop of the gateway's `Peer::OnReceive`, whose callbacks may
dispose of the peer: `Turned` is one turn of that loop, which is repeated until a
turn changes nothing. `ends` is a history: where each package given to Send ends in
the stream. A reader that is not at the start of a package reads a
length that nobody wrote, which is modelled as one that is too long. The two
halves of a peer meet only in `OnEpollEvent`, so one direction is modelled.

**KcpSession.** The network keeps what was sent in a set: a packet may be lost,
come late, or come again. An ip:port is a `port`; a redial may get the port an
earlier socket had. `conn` holds the KcpConns by their serial with the peers they
own; `place` is `indexAtKcps`. The conv, the shakes and the server's peers are
the listener's fields. `detached` is a KcpConn that was answered while
`OnCreatePeer` made no peer, `orphan` a peer whose KcpConn died first of an error
of its socket. A `Tick` is a frame of the listener. A KcpConn is alone in its
dialer here; races between several are `Dialer`'s. Left out: ikcp, the peer's own
receive buffer, data from the listener to the client, and the clock (a `uint32`
of milliseconds, which the source names a known limit).

**Logger.** A run of the program opens the table an earlier one left (`Open`),
and may end at any time (`Crash`, and `CrashInOpen` within the constructor). The
database keeps its journal in memory (`xx_logger.h:63`; `xx_sqlite.h:38` says of
this mode that it may lose data), so what a run leaves half written is not rolled
back by the next, and the file may hold anything. `intact` is a history: no run has
ended where that can be, which is in the constructor's writes, in `Trim`, in
`Insert`, or after a Save that failed, whose transaction may still be open. While
the file is intact a delete or a transaction happened as a whole or not at all;
afterwards `table` stands for nothing. `Write` is two actions, `WriteEnter` up to the
test of `disposing` and `WriteLeave` with the push, with the mutex held between,
because the destructor sets `disposing` without it. `Save` is `Trim`, the deletes,
and `Insert`, one transaction; either may fail. `disposing` is an `int` that two
threads share without synchronisation; it is modelled as the builds treat it, one
whole word in program order, since calls of `sleep_for` and of the mutex stand
between its uses. Rows are numbers in the order of Write.

## Runs

| Run | Asks | Bounds |
|---|---|---|
| `pool` | Do references and the free list survive re-entrant use? | 3 slots, 4 Adds, 2 references: a slot is used again while another destructor runs, and a reference from before and one from after exist together |
| `pool_life` | Does teardown destroy everything and end? | 2 slots of first buffer, 3 in use, 4 Adds: the buffer grows and is used after that |
| `wheel` | Are the lists sound, and does every deadline fire in its frame? | 4 slots, a Timer, a Peer and an item whose handler leaves it as it is; intervals -1, 0, 1, 2, 4 (a full turn) and 5 (too long) |
| `gateway` | Orderly use: no leak, no ghost, no crash, kicks end, services return | 2 clients, 2 services, client timeout 2 frames, kick delays 1 and 3 (shorter and longer than the timeout) |
| `gateway_rude` | Any use: one farewell per session and nothing after it | the same with kicks of no delay, of less than a frame and of a frame; symmetric clients |
| `dialer` | One answer per dial, nothing left over, the table right? | attempts TCP, TCP, KCP; 4 descriptors, so that one is left for the peer of an earlier dial and descriptors are used again at once; 3 dials, a timeout of 2 frames |
| `threads` | Do jobs run in order, once and all, is no wake-up lost, and does the destructor end? | 3 workers, 2 other threads, 3 jobs: two bursts of Adds can meet two sleeping workers while the third runs a job that adds one |
| `tcp` | Does every byte arrive once and in order, is no legal package cut off, does everything sent arrive? | 6 packages of 2, 4 and 5 bytes (4 is longer than the receive buffer, 5 than the limit as well), a socket of 5 bytes, a vector of 3 entries, whose unset entries hold no byte or one, a ring of 4 that grows, a receive buffer of 3: packages are cut everywhere, by the vector, the socket and the reader, and writes of two buffers leave an entry unset |
| `tcp_frame` | (violation) Is the queue exact when a frame ends inside a buffer? | a frame of 5 bytes, packages of 2 and 4 |
| `kcp` | Do sessions stay apart, does none come back, do handshakes end? | 2 dials, the second from the same port as the first or another, 2 packets under way, shakes that live one frame |
| `kcp_swap` | (violation) Is `Context::kcps` exact? | 3 dials from three ports |
| `logger` | Are accepted rows saved and the newest kept, and does the destructor return? | 3 runs of the program, each of which may end anywhere, 6 rows, a limit of 2 rows in the table and of 2 in the queue, which then holds up to 3: batches below, at and above the limit of the table occur |

The configurations `MCItemPoolGrow`, `MCTimeoutWheelCross`, `MCGatewayKick`,
`MCDialerStale`, `MCDialerKcp` and `MCTcpPeerStray` are kept beside the runs: each ends in the
counterexample that the section on divergences describes.

Clients interact only through the services that name them, and services only
through clients that list both, so two of each show every pairwise
interleaving; a slot list of three has a first, a middle and a last item.

**Properties.** `RefSafe`, `RefLive` and `ImplementsWeakRefs`: a reference is
neither a false friend nor a false alarm. `FreeListExact` and `StorageStable`:
no slot is lost, handed out twice, or handed out under a running destructor.
`ClearDestroysAll` and `ClearEnds`: teardown is complete and terminates.
`ListsSound`, `FiresOnlyArmed`, `ImplementsDeadlines`: the wheel's structure, and
its promise frame by frame. `MapExact` and `NoGhostClients`: the dictionaries and
what the services have been told agree with who is connected. `OneFarewell`: the
hand-run `onDisconnect` of a kick is never followed by a second one or by a
package. `NeverCrashes`: no entry without a dialer meets the dial timer.
`KickTakesEffect` and `ServiceComesBack`: kicks end and services return.
`MappingExact`: no descriptor leaks, is closed under its owner, or leads to an
item that is gone. `OneAnswer`, `NothingLeft`, `BusyExact`, `DialEnds`: a dial
ends in exactly one answer and leaves no attempt behind. `NoIdleHands`: while a
worker sleeps, every waiting job has a wake-up on its way. `NothingForgotten`,
`EveryJobRuns`, `DestructorEnds`, `ImplementsTaskQueue`: the pool is a queue, and
closing it loses nothing and waits for nothing that does not come.
`BytesExact`: the byte count and the offset of a send queue agree with its
buffers, and each buffer is released once. `StreamExact`: every byte of the
stream is in exactly one place, in order, and packages are handed over in order,
once. `CutOffOnlyIfTooLong`: no limit meets a package that keeps it, however its
bytes come. `EverythingArrives`: what is left queued never waits for another Send.
These three speak of the stream up to the first byte that nobody queued (`clean`),
since what comes after it is framed wrongly; that there is such a byte is the code's
doing (divergence 8). `OnePortPerConv`: nothing that names a conv, in any table or
in any packet however old, names it for two clients. `NoLateAnswer`: the serial does
what its comment says. `AcceptedOnce`: a session that has ended does not come back
with late data. `HandshakeEnds`: losses are made good by sending again.
`EveryRowSaved`: the destructor's handshake with the writer thread leaves no accepted
row behind.
`NewestKept`: over runs and trims, and over crashes outside a write to the file
(`intact`), the table keeps the rows in order, its newest are the newest that were
saved, not fewer than the limit asks for, and it is within the limit where the code
keeps it. Of a file that a crash has spoiled nothing is said, because the code
keeps nothing that would repair it.
`DestructorReturns`: it waits for nothing that does not come.

**Assumptions of the runs.** `Careful` (wheel): a handler leaves alone the items
of its own slot that have not fired yet, and an armed item is never given a bad
interval. The library itself breaks the first one when a Dialer's timeout falls
into the slot of one of its KcpConns; `MCTimeoutWheelCross` shows what happens without
it. `Orderly` (gateway): a client sends packages only to services that opened to
it and are connected, and keeps the framing; a reload keeps service 0 and every
service that some client lists. Otherwise the gateway disposes of the client
without a farewell (`CutOff`), which leaves its entry in the dictionary and its
ghost at service 0, and a reload that drops a listed service makes the farewell
of its clients leave an entry without a dialer behind, on which the dial timer
throws. These outcomes are reachable in `gateway_rude`, whose properties hold
all the same; that run may stop, because a crash stops the program. A service
that comes back is told nothing of clients already connected; the code promises
nothing there and no property asks it. `tcp`: the program keeps no more than
`sendLenPerFrame` bytes queued, the case in which the pop after a whole frame is
right; `tcp_frame` shows what happens beyond. Unset entries of the vector are part
of the run: writes with them are refused, add nothing, or add a byte. `kcp`: a KcpConn does not fail by itself
once it has its peer (`Failing`), since the peer it leaves stays in
`Context::kcps` for ever.

**Fairness.** `LifeSpec`: a call of Clear and a destructor that has begun run to
their ends, being plain calls. `FairSpec`: `Context::Run` performs a frame and
its timers again and again (weak fairness of `Tick` and `DialTimer`), and a
service that is dialed for ever answers some time (strong fairness of `DialOk`;
attempts may fail any number of times first). `KickTakesEffect` is about clients
that send no commands after the kick, since each one starts the timeout over,
and about delays of at least one frame. For the dialer: the events of a batch are
handled to its end, and frames go on (weak fairness of `Event` and of `Frame`,
written out as `BatchEnds` and `FramesGoOn` because TLC finds the successors of a
handler slow to enumerate for ENABLED).

For the thread pool: threads are scheduled and get the mutex in the end, calls
that have begun go on, and jobs return; waking for nothing is never relied on.

For a TCP connection: the loop handles the events that epoll goes on to report,
which is level-triggered (weak fairness of `Writable`, `Readable`,
`ReadableWhenFull`; for the first two `CanWrite` and `CanRead` spell out the states in
which they change anything, because TLC finds their successors slow to enumerate for
ENABLED); nothing forces a Send or a Flush. For KCP: the timer of a
KcpConn fires every 0.2 seconds (weak fairness of `Resend`), and of packets sent
again and again some arrive (strong fairness of `Greets` and `Answered`). For the
logger: its thread and the destructor are scheduled, and a caller leaves the
mutex.

The thread pool's run may stop, when the pool is gone, the logger's, when it is
closed and its rows and runs are used up, and those of the connections, when the
connection is gone or nobody sends. The dialer's run may stop, since a dialer that
nobody uses does nothing, and a `fault` stops the program. It puts KCP last, where
`KcpConn` keeps itself alive (divergence 7), and `OneAnswer`, `NothingLeft` and
`BusyExact` are not asked after a fault. Only TCP peers may fail there: for KCP the handler returns
with the KcpConn alive and no answer given, and the code promises nothing.

## Where code and comments part

Two runs end in a counterexample, and are listed as findings:

1. `tcp_frame`: when one write takes the whole `sendLenPerFrame` and the frame
   ends inside a buffer, that buffer is popped with what was left in it, and
   `bytes` and `offset` are wrong from then on (`xx_buf_queue.h:67-76` against 7).
   A single buffer longer than the frame, of which exactly `sendLenPerFrame`
   bytes are taken, advances the offset twice (line 70), and what is left of it
   waits for the next Send, since EPOLLOUT is not armed (`xx_epoll2.hpp:304`).
2. `kcp_swap`: `XX_SWAP_REMOVE` (`xx_object.h:106`) gives the new index to the
   peer that goes, not to the one that moves. After the first of two client peers
   has died, the next removals from `Context::kcps` drop the wrong peer, and a
   destroyed one stays for `UpdateKcps`.

These have a configuration beside the runs that shows them:

3. `MCItemPoolGrow`: growing the pool loses the versions of all items, so every
   reference taken before goes blind (`xx_itempool.h:122-136` against 5-6).
4. `MCTimeoutWheelCross`: a handler that cancels the next item of the list being
   walked does not keep it from firing (`xx_epoll2.hpp:1260` against
   `xx_timeout.h:18`).
5. `MCGatewayKick`: a kick without delay is not announced
   (`xx_gateway2/main.cpp:562` against 561).
6. `MCDialerStale`: two connections that complete in one `epoll_wait` meet
   `assert(h)` (`xx_epoll2.hpp:1246`). The same happens to any item that another
   one destroys in the same batch, a client that the gateway kicks while its data
   is there to be read included.
7. `MCDialerKcp`: a KcpConn that is not last in the list is destroyed by the Stop
   in its own handler (`xx_epoll2.hpp:775` against 772).
8. `MCTcpPeerStray`: "each time only bufLen bytes are sent" (`xx_epoll2.hpp:283`),
   but when two buffers or more are sent whole, which is what a queue of several
   packages comes to, `Fill` sets `vsLen` to the capacity of the vector
   (`xx_buf_queue.h:113`) and `writev` gets entries that were never set
   (`xx_epoll2.hpp:279`). If they hold a readable range its bytes go out after the
   packages; if not, the write fails and the peer with it.

These were met in the code while it was modelled; the models have the behaviour
and the properties are stated around it:

9. Logger, the limit of rows (`xx_logger.h:42`): when a table is opened, `numRows`
   is min(id) - max(id) + 1 (line 94; at most 1), so the first Save of a run
   deletes nothing and the limit is exceeded until the second, or for ever by runs
   that save once each. A table of exactly two rows counts as empty, so a first
   batch longer than the limit, of which only the newest are inserted, does not
   clear it, and the rows that are left out make a gap behind the two old ones
   (lines 116-121; a batch can be that long, since the queue holds one row more
   than `queueLimit`, and both limits have the same default). `NewestKept` asks for
   the limit from the second Save on, and for a table without gaps in its newest
   `rowsLimit` rows only.
10. Logger: `query_DeleteAll` gets its statement only if the table existed (line
   85), so in the run that creates it a batch of `rowsLimit` rows after a first
   Save makes Save fail, and the writer stops (`Trim`, with `canDeleteAll`).
11. Logger: if Save fails once the destructor has set its flag, the flag becomes
   -1 and the destructor waits for ever (lines 203, 237). A Write between the
   writer's last line and the return of the destructor is accepted, and lost
   (lines 220, 248). The queue holds `queueLimit + 1` rows (line 248).
12. TCP: `readBufLen` is called an increment (`xx_epoll2.h:190`), but the buffer
   never grows: a package longer than it, up to `maxPackageLength` (256K against
   64K), ends the connection.
13. KCP: a KcpConn whose socket fails leaves its peer in `Context::kcps`; when the
   peer dies, `owner` is gone and it is not removed (`xx_epoll2.hpp:705`). A
   KcpConn sends its serial for as long as it lives, so after each shake that
   expires or is used a new one is made for it. If its first data comes after the
   shake expired, or OnCreatePeer fails at the listener, the client stays joined
   to a session that the listener does not have. A listener that is made again
   counts convs from 1.

## Proofs

`ItemPoolProofs` proves, for a pool of any size that stays within its first
buffer (`MaxLen <= Cap`, the case the code supports), for any number of Adds and
of references: type correctness, `RefSafe`, `RefLive`, `FreeListExact`,
`StorageStable`, and that the pool implements `WeakRefs`. None of these is
inductive by itself. `IInv` adds that a version number is the creation number of
the object it was stamped for, that exactly the living slots carry one
(`SlotInv`), that no slot dies twice at once (`DyingInv`), that a reference
remembers the only slot its target was ever in (`RefInv`), and that the free list
is a chain, without repetition, over the dead slots (`FreeInv`). `PushDying`,
`PopDying`, `PopFree`, `PushFree` and `KeepFree` say what each operation does to
the stack and the chain; `NextInv` has one step per action; `RefMeaning` and
`NextRefines` give the refinement. Two theorems do without `MaxLen <= Cap`:
`PoolUntilGrown` has the whole invariant up to the first growth, so nothing but the
growth breaks the references, and `ClearIsComplete` proves `ClearDestroysAll` for
the whole life of a pool. Its invariant `LifeInv` follows the life: `IInv` while
the program runs, or a pool that has grown; during Clear, `Sweeping`, by which
slots already passed are empty and a slot without a version is empty or in a
destructor, so that Clear may pass it; afterwards, no slots.

`TimeoutWheelProofs` proves, for a wheel of any length and any items, that its
lists are sound (`ListsSound`), that nothing fires that is not armed
(`FiresOnlyArmed`) and that the wheel implements `Deadlines`. "The items on a list"
is the least set that is closed under next (`From`), which says nothing by itself
of the order, so `WheelInv` states the structure by local links: heads and items
point at one another in pairs, but for the first item of the list that is being
walked (`Links`), every armed item is reached from the head of its slot or from
the saved pointer `np` (`Covered`), `np` is armed in the slot of the cursor and the
item `p` that has just fired is not waited for (`Walk`), and an item's slot is its
deadline, seen from the cursor (`Due`). The operators that link
and unlink an item have a lemma each; the refinement maps a frame to a frame of
`Deadlines`. All of it assumes `Careful`, as the run does: without it the walk
itself is wrong (divergence 4).

`DialerProofs` proves, for any addresses, descriptors, timeout and number of
dials: `MappingExact`, without an assumption, so also in a run that ends in a
fault; and, when a KCP connection always gets its peer (`"kcp" \notin Peerless`),
`OneAnswer`, `NothingLeft` and `BusyExact`. Without that assumption they are false
of the code, which leaves the KcpConn behind and gives no answer
(`xx_epoll2.hpp:787`). `Table` says that items and descriptors match one to one, and
its general form `Owned` that some descriptors are open and nobody's, as the one
that a `TcpConn` hands over is while it destroys itself. `Session` says that what
still tries to connect is in the list of a dialer that is busy and asked. Every
operator has a lemma (`DestroyFields`, `StopFields`, `AttemptFields`, ...); the
handlers of the program, which may do anything to the dialer, have `HandledTable`
and `HandledSession`; each event then has one step.

`GatewayProofs` proves, for any clients, services, timeouts and kick delays:
type correctness, which includes that dialers, dials and peers stay within the
configuration; `OneFarewell`, for any use; `NeverCrashes`, for orderly use; and
`MapExact` and `NoGhostClients`, for orderly use without kicks of no delay, the
case that the fifth divergence above leaves. The strengthenings are short. `FarewellInv`: a
client in the dictionary is served or gone, and one whose end was told is
leaving or gone, so a command never finds a client whose end was told.
`KeysInv`: the keys are those of the configuration, which holds service 0 and
every service on a whitelist, so no lookup makes a new one. `GhostInv`: a
service that was told of a client is among those its farewell addresses, which
is what makes `NoGhostClients` inductive. Each has one step per handler. The
assumptions are `GatewayAssumption` and what each theorem states.

`ThreadPoolProofs` proves, for any finite sets of workers and users and any jobs:
type correctness, `NothingForgotten`, `NoIdleHands`, and that the pool implements
`TaskQueue`. `IInv` says that no job is in two places (`Distinct`) and that no
worker returns before the destructor began and the queue ran empty (`PhaseInv`).
`NoIdleHands` is inductive relative to it: it counts the calls of notify_one
still owed and the workers awake against the queue, step by step (`NextIdle`).
`AddToQueue` and `TakeFromQueue` say what Add and a worker do to the queue.

`TcpPeerProofs` proves in three layers, for any sizes of ring, buffers, packages,
vector, socket and receive buffer:

1. A ring of any capacity and position is a FIFO: a new queue is sound and empty,
   `Emplace` appends (also when it grows), `Pop` and `PopMulti` take exactly the
   oldest elements and `Clear` all of them, and each leaves a sound queue, in which
   elements are constructed in the window from head to tail and nowhere else.
   Assumed: `Raw` is not an element.
2. A `BufQueue` holds a stretch of the stream. `Holds(b, a, z)` says that its bytes
   are those from position a up to z: there are marks, one per buffer and one more,
   at which the buffers begin and end, and the offset lies within the first
   (`Marks`). `PushHolds` moves z; `PopBytesHolds` and `PlanHolds` move a, by what
   was popped, or by all that `Fill` planned. `UnsentIsSpan` leads from there to
   `Unsent`, which `BytesExact` and `StreamExact` speak of. The theorem
   `SendQueueExact` is the invariant `\E a : SenderAt(a)`.
3. `SenderAt(a)` says that the queue holds the stream from a to its end, and
   `StreamAt(a, c)` that the kernel holds it from c to a, and the receive buffer from
   the end of the last package handed over to c. `Streaming`, that there are such a
   and c (the second as long as the stream is `clean`), is the inductive invariant. `WriteKeepsStream` moves a, `ReadKeepsStream` c.
   For the latter `OnReceiveTurns` follows the loop of `OnReceive`: at each turn the
   buffer begins where a package begins (`Aligned`), so the length that stands there
   is the one that was sent (`FramedAt`), and the loop ends in front of a package that
   is not there as a whole (`Partly`), or is too long. `NothingShortIsCutOff` follows,
   as a reader that stops in front of a package with a full buffer has one that
   is longer than the buffer.

`NothingWaitsUnseen` is the safety half of `EverythingArrives`: while the connection
lasts, whatever is left in the queue has EPOLLOUT armed (`QueuedIsArmed`), so that the
loop comes back for it. `WriteArms` follows the ways out of `Write`, and
`UnarmedEmpty` says what `Send` relies on when it does not arm: without EPOLLOUT
nothing is queued, and its own write takes everything or arms. A write that is
refused arms nothing; it needs two buffers in the queue, which is then armed already
(`OneIsSet`).

The theorems about the queue and the stream have one hypothesis, as the run has.
`Backlog <= SendLenPerFrame`: more bytes than a frame takes are never queued. Without
that `BytesExact` is false (divergence 1). Nothing is assumed of the entries of the
vector that `Fill` leaves unset (`Stray` is any set of numbers). `SenderAt` holds all
the same, and `StreamAt` while the history is `clean`, from which `CleanWithin` draws
that a write took no more than was queued. `UpTo` and the turns of `OnReceive`
are recursive functions, and their proofs inductions over numbers. The library's
induction theorem takes an operator and cannot be used here, so `Induct` states
induction over a set of numbers and derives it from the finiteness of `0 .. n`.

`KcpSessionProofs` proves, for any number of dials and ports, any network and
any life of a shake: `OnePortPerConv`, `NoLateAnswer` and `AcceptedOnce`. `IInv`
adds that every conv that is named was given out (`Issued`), that a conv whose
shake still lives has not been accepted (`ShakesUnused`), and that no answer to a
serial that is still dialing carries a conv accepted before it began
(`AnswersFresh`), which is why the serial keeps late answers out. `PacketNames`
and `NamesStep` reduce `OnePortPerConv` to the few steps that add a name.

`LoggerProofs` proves, for any limits and numbers of rows and runs, that a
destructor leaves no accepted row behind (`EveryRowSaved`), and `NewestKept`. `IInv`
follows a row from `rows` through `bgRows` to `saved`: `RowsKept` says each accepted
row of the run is in one of them, and `SecondScan` that a scan that finds nothing
while the flag is 2 leaves nothing to come, neither in `rows` nor in a Write under
way. `TableInv`, inductive relative to it, is about the table: saved, taken and
waiting rows follow one another (`InOrder`), and while the file is `intact`
(`Kept`) the table and what was saved agree, seen from their ends, as far as the
limit looks (`EndsAlike`), and what Trim leaves has room for the batch, once `numRows` is the bound it is taken for and not the count
of ids from the opening (`NotTooMany`). The proof does not use that count, which is
wrong.

Model-checked only: liveness (`ClearEnds`, `KickTakesEffect`,
`ServiceComesBack`, `DialEnds`, `EveryJobRuns`, `DestructorEnds`,
`EverythingArrives`, `HandshakeEnds`, `DestructorReturns`), which needs fairness and
ENABLED. Every safety invariant and action property of the runs that pass is stated by
a theorem.

## Not modelled yet

- `SimulatePeer` (`src/xx_lobby/main.cpp:190-230`): requests with serials and
  timeouts over one connection. `Dict` against a function: chains and the free
  list in the same arrays.
- `TcpListener`, which accepts and hands a peer to `AddItem`; UpdateKcps and the
  pacing of `Context::Run`; the restart of a KcpListener.
- Proofs: type correctness of the modules whose runs do not ask for it.
- HTTP, serialisation, the generators, the older loops and servers: see the notes
  in `PROJECT.json`.
