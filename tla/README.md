# Parcel in TLA+

Parcel (`src/src`) copies files and directories from one host to another over
UDT (`src/udt`), a reliable byte stream on top of UDP. One program, the *master*, is
started by the user and starts its peer, the *minion*, over ssh; one of the two
sends, the other receives. This directory holds TLA+ modules of the parts of both
that are hard to test, the TLC instances that check them, and proofs.

## 1. Inventory

```
 sending program                                       receiving program
 sender.cpp ──pipe──> senddata ══UDT══> recvdata ──pipe──> receiver.cpp
     ^                 cipher pool       cipher pool            │
     └──pipe── recvdata <═══════UDT═══════ senddata <──pipe─────┘
                (handshake in both directions before any data)

 UDT at each end
 application: send, recv, close, accept, connect            garbage collector
     │                                                            │
 send buffer, receive buffer, loss lists, socket tables  <────────┘
     │                                    │
 sending worker (CSndUList, CTimer)   receiving worker (CUnitQueue, hash, listener)
     └────────────── one UDP socket ──────┘        = a multiplexer
```

| Component | State | Operations | Correct if |
|---|---|---|---|
| Cipher pool (`crypto.cpp/h`) | per worker: two mutexes `c_lock`, `thread_ready`, arguments `e_args`, stream context `ctx`; `thread_id`, whose turn it is | `pass_to_enc_thread`, `join_all_encryption_threads`, `crypto_update_thread` | buffer and arguments have one user at a time; every context sees its chunks once and in order; the join returns |
| Key handshake (`udpipe_threads.cpp`, flags in `files.cpp`) | `g_signed_auth`, `g_authed_peer`, `READ_IN`; the bytes on their way | `auth_peer`, `sign_auth` and the waits around them | two threads that read one socket never take each other's bytes; nobody opens with a wrong key; nobody waits forever |
| Framing of encrypted blocks (`udpipe_threads.cpp`) | block size, cursors, both pools' turns | crypto loops of `senddata` and `recvdata` | both ends cut a block alike, however it arrives; only whole blocks come out |
| Transfer protocol (`sender.cpp`, `receiver.cpp`, plain loops of `udpipe_threads.cpp`, `pipe_write`, `postmaster.cpp`) | two pipes, thread buffers, the global receive data, the destination files | one message per step of `send_file`; one callback per message type | the stream stays in step; a file that carries its source's time has its content; a run ends |
| File list, destination tree, checkpoint log (`files.cpp`, parts of sender and receiver) | source times, the packed list, destination tree, log | listing, packing, answer, decision to send, trimming, `mkdir_parent`, retried open, `read_checkpoint` | every listed file arrives in its place, nothing else is touched, what is up to date is not sent |
| Thread table (`thread_manager.cpp`, `clean_exit`) | `activeThreads`, `g_thread_count`, exit flag | `create_thread`, `register_thread`, `unregister_thread`, `check_for_exit`, `clean_exit` | whoever is registered is in the table and counted; cleanup comes last and comes |
| Connection threads (`udpipe_client.cpp`, `udpipe_server.cpp`) | sockets, thread handles | `run_client`, `run_server` | join, close and unregister in that order |
| Inactivity monitor (`udpipe_threads.cpp`) | a deadline | `kick_monitor`, `monitor_timeout` | fires only when nothing happens |
| UDT loss lists (`common.h`, `list.cpp`) | a circular array of linked ranges at each end; numbers that wrap | insert, remove, first number | they hold exactly what is lost, each number once |
| UDT buffers (`buffer.cpp`, `window.cpp`) | blocks by number, read positions, messages; the ACK window | add, read, acknowledge; recv, recvmsg, drop | bytes come out as they went in, messages whole and once |
| UDT sending schedule (`CSndUList`, `CSndQueue`, `CTimer`) | a heap of sockets by time; the timer the worker sleeps on | update, remove, pop, sleepto, interrupt | the socket that is due is served |
| UDT unit pool (`CUnitQueue`) | queues of packet units, `m_iCount` | take, keep, free, grow | no unit is used twice; a free one is found |
| UDT data path (`core.cpp`) | sequence numbers, timers, flags of a connection | send, recv, close, packData, processData, processCtrl, checkTimers | a byte stream over a bad network; calls return |
| UDT sockets (`api.cpp`, lists of `queue.cpp`) | socket tables, accept queue, reference counts | listen, newConnection, accept, close, cleanup, garbage collection | nothing dangles, one live socket per peer, everything is freed |
| UDT connection set-up (`core.cpp`, `queue.cpp`) | the state of connect(), cookies | connect, listen, connector expiry | connect() returns success for a connected socket |
| Congestion control, epoll, cache, channel, `udt4_10`; set-up and remote start, timers, debug output, `state.cpp`, scripts | | | not modelled, see section 8 |

Components interact through the two pipes (bytes), the socket (bytes), a
handful of global flags polled by every thread, the table of threads, and the
callbacks that `postmaster.cpp` dispatches by message type; inside UDT through the
buffers and lists of a connection, which its application and two workers share,
and through the tables that the application, a worker and the garbage collector
share. What makes this hard: threads that find each other by polling flags; tables
and counters used outside of their lock; buffers lent from thread to thread; a
stream with no resynchronisation; sleeps in place of acknowledgements; packets
that are lost, repeated and late; runs that are killed and repeated and rely on the
modification times of what an earlier run left.

## 2. Modules

| Module | What it models |
|---|---|
| `CryptoPool` | one Crypto object: the passer (`senddata` or `recvdata`) and its N workers |
| `CipherService` | abstract: a buffer lent chunk by chunk to N ordered streams and returned when all are done. `CryptoPool` implements it |
| `AuthHandshake` | both ends of the handshake over two byte streams |
| `CryptoFraming` | blocks cut by the sender, received in any pieces, passed to two pools of N workers |
| `Transfer` | sending program, `senddata`, connection, `recvdata`, receiving program, files |
| `SyncService` | abstract: what a transfer may do to destination files. `Transfer` implements it |
| `FileList` | operators: the file list packed into one message and back |
| `DestTree` | paths and directories: list, its way there and back, decision, places. Uses `FileList` |
| `ThreadManager` | thread table and exit of one program |
| `SeqNo`, `LossList` | operators: sequence numbers on a circle; both loss lists of `list.cpp` |
| `LossLists` | the two loss lists under the calls a sender and a receiver make |
| `PktBuffer` | operators: `CSndBuffer`, `CRcvBuffer` with messages, `CACKWindow` |
| `PktBuffers` | the buffers under send, recv, recvmsg and acknowledgements |
| `SndQueue` | `CSndUList`, the worker of `CSndQueue`, `CTimer` |
| `UnitQueue` | `CUnitQueue` with the worker and an application |
| `UdtContainers` | `LossLists`, `PktBuffers`, `SndQueue` and `UnitQueue` behind one specification, one at a time |
| `UdtStream` | the data path of a connection, from `LossList` and `PktBuffer` |
| `ByteStream` | abstract: what a connection promises its applications. `UdtStream` implements it |
| `UdtSockets` | the listening end: worker, accept(), close(), cleanup(), garbage collector |
| `UdtConnect` | clients in connect(), composed with `UdtSockets` |
| `MC...` | instances for TLC |
| `..._proofs` | theorems about the module named, see section 6: `CryptoPool`, `AuthHandshake`, `CryptoFraming`, `ThreadManager`, `Transfer`, `UdtSockets`, `UdtContainers` (its pool of units) |
| `ProofLemmas` | facts about finite sets and division that these need |

`Transfer`, `CryptoFraming` and `AuthHandshake` take the connection for a byte
stream that may break: `ByteStream` is that assumption, and `UdtStream` the reason to
make it.

### State and actions against the code

`PROJECT.json` maps each definition to its lines; names are those of the source
where there is one. The points that are not obvious:

* **CryptoPool.** A mutex is a Boolean; `thread_ready` is a mutex that is created
  locked and released by *another* thread, so it is a semaphore, and the model has it
  as "a job is posted". `pass_to_enc_thread` is four actions (`GetThreadId`,
  `LockData`, `FillArgs`, `SetThreadReady`) because workers run between them.
  Chunks are numbers; what a cipher context does to a chunk is abstracted to the
  number of the chunk it expects, and a chunk that meets another number is `spoilt`.
  The passer owns its buffer at `pc = "own"` only.
* **AuthHandshake.** Bytes are tagged with their purpose and the end that made
  the challenge. `recv_full` is a loop of partial reads, one step each. A broken
  connection is silence: whatever a thread waits for does not come.
* **CryptoFraming.** A step passes one chunk to a pool, and its worker runs to completion
  in it: that workers may be treated so is what `CryptoPool` shows. A byte under way
  carries the worker and the position of that worker's stream it was encrypted at.
  `NextChunk` (sender) and `Handed` (receiver) are the two different ways to cut that
  must agree: the receiver hands over a sector only when there is more behind it.
* **Transfer.** A message is a header unit and payload units; bytes are the
  number of the source version they were read from, a modification time is
  the number of a version too. `pipe_write` is `PipeWrite`, which may drop the
  message, and `WriteOn`, the blocking write of the rest. The callbacks are one
  action each; reading a block is one step per read. `ReadHeader` reads a header whole,
  `CutHeader` in part: the callback of the type read last is called, and what is left of the
  header comes later. `harmed` counts what makes the receiver read something else than the
  sender took itself to be sending (`Harm`): a message dropped, a header read in part, an
  edit of the file being sent, an exit flag seen with something unread. When the receiver
  takes a payload for a header, or the reverse, its further behaviour depends on file
  contents, and the model stops it at `"desync"`.
* **DestTree and FileList.** A path is a sequence of names. The list is packed into
  cells, one for a number, one for a name, one for a terminator; the `stat` structure
  has a first cell that is set and a rest that `malloc` left. `SendFilelist`,
  `Filelist` and `FilelistAnswer` are the list on its way there, with the
  receiver's times, and back. The calls of `mkdir_parent` are an explicit stack, one
  system call per step. A file is sent and received in one go, because `Transfer`
  has the stream in between.
* **ThreadManager.** The searches of `register_thread` and `unregister_thread` are
  steps of their own, before the lock, as in the code, and so is the time between
  `pthread_create` and `register_thread`. Threads are described by whom they start, whom
  they join, and how they may end: when told by the flag, of themselves (an error, a lost
  connection, the monitor's timeout), by an early return that leaves the table alone
  (`Vanish`), or never, in a call that looks at no flag (`Block`). `CleanExit` is the main
  thread's last call or that of a signal handler, wherever the main thread is; a signal is
  taken to be delivered to it, and not inside the locked part of `register_thread`.
* **LossList.** A list is the arrays `d1`, `d2` and `nx` with their head, as in the
  code, so that slots, the last insertion point and the joining of ranges are
  there. The loops that walk the links are recursive functions.
* **PktBuffer.** Blocks and positions are those of the code; a byte is the number of
  the packet it belongs to. Each lock-protected call is one step, and so is each
  call on the receive buffer, whose two users touch different fields.
* **SndQueue.** Every call holds the list's lock and is one step. The worker reads the
  time (`GetNextProcTime`) and goes to sleep (`SleepTo`) in two, between which an interrupt
  is lost. The wait for data is under the lock that the signal needs, and looks once more at
  what it waits for (`Waits`).
* **UnitQueue.** `++ m_iCount` and `-- m_iCount` are a read and a write each. The order
  in which units are looked at (`Order`) is that of the loops, which pass over the
  last unit of every queue and those before `m_pAvailUnit`, except the first.
* **UdtStream.** End A sends, B receives; each packet is one unit of data. `packData`
  is two steps (`PopLost`, `PackLost`), because an ACK may move the buffer between them;
  the handling of an ACK is `RcvAck` and `Release`, and a timeout `Expire` and
  `ExpireData`. Time is a tick of the least expiration time: it passes only
  when nothing is under way, except for a bounded number of faults. The two long limits, 180 s
  of lingering in close() and the collector's patience with a broken connection whose reader
  is slow, are not counted: `CloseLate` and `RecvLate` may come at any time. close() returns
  the same whichever way it ends.
* **UdtSockets.** Steps are what one lock covers: `newConnection` is `CreateSocket`,
  `EnterSocket`, `QueueSocket`; accept() and close() let go of their lock in the
  middle. `CreateFails` is the rollback of `newConnection`, whose socket is counted by the
  multiplexer and known to no table. `place` is where a socket is: new, in `m_Sockets`, in
  `m_ClosedSockets`, or deleted. `Pass` is one pass of the collector under `m_ControlLock`.
* **UdtConnect.** What was sent stays in `net`, so it may arrive late, repeatedly or
  never.

## 3. Runs

Passing runs:

| Run | Properties | Shows |
|---|---|---|
| `crypto_pool` | `JoinReturnsBuffer`, `ArgsNotShared`, `StreamInOrder`, `CallsReturn`, `ImplementsService` | hand-off and join with exits and cipher errors at any time |
| `auth_handshake` | `ReadsItsOwn`, `OpenMeansSameKey`, `HandshakeEnds` | same key: both ends open; different keys: neither does and one ends; loss at any step |
| `crypto_framing` | `WholeBlocksOut`, `AllOut` | five blocks around the sector size in every possible cut |
| `transfer` | `InSync`, `AllDelivered`, `TransferEnds` | on a connection that stays up a run delivers everything and ends, unless the stream is harmed: a full pipe has dropped a message, a header was read in part, the file being sent has changed, or the exit flag was seen with something unread |
| `transfer_faults` | `MtimeImpliesContent`, `ImplementsSync` | lost connections, files that change meanwhile, killed and repeated runs: no destination file claims a version it does not hold |
| `thread_manager` | `CountCovers`, `CleanupIsLast`, `ExitCompletes` | exit of the encrypting program, with the monitor, early returns, errors in every thread, calls that do not return and a signal at any time |
| `dest_tree` | `AllArrive`, `FailureJustified`, `UpToDateNotSent`, `KeepsTheRest`, `RunEnds` | a tree sent twice, plainly or with `--full-root`, onto thirteen kinds of destination |
| `udt_containers` | `ListsExact`, `BuffersExact`, `HeapExact`, `NoLostSignal`, `UnitsExact` | loss lists, packet buffers, the sending schedule of up to five sockets and the unit pool under every order of calls |
| `udt_stream` | `RightPacket`, `GapsExact`, `NotCondemned`, `LostNotForgotten`, `ImplementsStream`, `CallsReturn` | a byte stream over a network that loses, repeats, delays and reorders, or goes down, with slow applications; every call returns |
| `udt_sockets` | `NoDangling`, `RefCountExact`, `OneSocketEach`, `AllFreed`, `AcceptReturns` | repeated requests, broken connections, connections given up and shutdown against the garbage collector |

Runs that show the code do other than its documentation says ("findings" in
`PROJECT.json`, with the quotations):

* `dest_tree_checkpoint`: reading a checkpoint log back crashes (`strdup` of a null root).
* `connect_returns`: `connect()` returns success for a socket that is not connected, when a
  data packet overtakes the handshake's response or the connector expires.

### What the passing runs assume

Each assumption is a constant or a clause of the property; without it TLC finds the
property named violated.

| Assumption | In the passing run | Otherwise |
|---|---|---|
| `CryptoPool!CallsReturn` excepts `Deserted` | a worker is gone with its job posted, and the exit flag is up | it fails: a worker obeys the exit flag with a job posted (crypto.cpp:405), and hand-off and join wait for it for ever, although "last block is finished before we exit" (udpipe_threads.cpp:385). This is the only way in which they do not return |
| `InSync`, `AllDelivered`, `TransferEnds` except a harmed stream: a header read in part | `harmed > 0` | all three fail: `read_header` is one `read`, any positive count is dispatched (receiver.cpp:48), and `recvdata` writes to the pipe what has just arrived. The model says nothing of what comes after `"desync"` |
| the same: a message dropped | `harmed > 0` | they fail: `pipe_write` gives up on a pipe that stays full for 100 ms (files.cpp:780), and its callers do not notice |
| the same: an edit of the file being sent | `harmed > 0` | `InSync` fails: a file that changes length after `fsize` shifts the stream, since the receiver ignores `data_len` (receiver.cpp:395) |
| the same: the exit flag overtakes what is queued | `harmed > 0` | `AllDelivered` fails: the wait for the acknowledgement is commented out (sender.cpp:538; "send header & wait for ack", sender.h:55), and only sleeps let the queues drain |
| `Transfer!Faults` in `transfer_faults` | 0 (1 in `transfer`) | 1: `MtimeImpliesContent` fails: a file some message of which was dropped is given its source's time, so the next run skips it |
| `Transfer!Loses` in `transfer` | FALSE (TRUE in `transfer_faults`) | `TransferEnds` fails: the sender's wait for the answer (sender.cpp:508) and `read_data` (receiver.cpp:58) never look at the exit flag |
| `ExitCompletes` excepts a thread that is lost | a counted thread is not found in the table | it fails: `run_client` and `run_server` return early without `unregister_thread`; two threads that search at once take one slot (thread_manager.cpp:74), as senddata and the monitor may in a run with the defaults; a thread leaves before it is entered (thread_manager.cpp:54). `clean_exit` then waits for ever |
| `ExitCompletes` excepts a thread that is stuck | a call that looks at no flag | it fails: `UDT::accept` without a client (udpipe_server.cpp:154), the waits of the handshake (udpipe_threads.cpp:276, 477, and `recv_full`), hand-off and join after a worker has left (crypto.cpp:405, 426, 440) |
| `CleanupIsLast` excepts the threads in `unknown` | outside of the count | it fails for what the main thread was entering when a signal came, and for a table that is full. One of 256 slots (thread_manager.h:23) is not: there are at most 32 workers a pool |
| `DestTree!Trees` for `--full-root` | nothing where trimmed paths lead | `AllArrive` fails: the answer is always about trimmed paths (receiver.cpp:535), so a `--full-root` run after a plain one sends nothing. It also fails if there is no destination directory yet and the file lies beside it (receiver.cpp:520) |
| `DestTree!Times` | no two times whose differences cancel | `AllArrive` fails for <<1, 1>> and <<2, 0>> (files.cpp:1131) |
| `DestTree!Roots` | one path | with two that trim to the same name `AllArrive` fails: one overwrites the other |
| `UdtContainers!DropWraps` | FALSE | `ListsExact` fails: a drop request whose range spans the end of the circle skips `m_iMaxSeqNo` (list.cpp:640) |
| `SndQueue!Socks` in `udt_containers` | five | six: `HeapExact` fails: a socket taken from the middle is replaced by the last one, which `remove_` only sifts down (queue.cpp:410), and may belong further up |
| `NoLostSignal` is about the wait for data only | | that the worker never sleeps past the time of the first socket fails: an interrupt between its reading of the time and its sleep is lost, because `sleepto` overwrites what `interrupt` has set (queue.cpp:531, common.cpp:186), although "an earlier event has been inserted, wake up sending worker" (queue.cpp:386). It then sleeps until the time it has read |
| `ByteStream` promises nothing to a writer or reader that is `"late"` | close() at the end of its linger time; a reader cut off by the collector | `ImplementsStream` fails: close() returns after 180 s with data unacknowledged (core.cpp:924), and the collector closes a broken connection whose reader leaves data unread for a minute, or half of one after an expiry (api.cpp:1197, core.cpp:2219, 2599) |
| `AllFreed` excepts sockets given up | `MaxLeaks` = 1 | it fails: `newConnection` rolls back a socket that the multiplexer has counted, and nothing counts it down (api.cpp:444) |
| `UdtSockets!TightRaces` | FALSE | `NoDangling` fails: the worker uses the listener it read before the lock, or accept() a socket it chose before it let go of one (queue.cpp:1022, api.cpp:716). `AllFreed` fails: the collector joins the worker under the lock the worker waits for (api.cpp:1310) |
| `UdtConnect!Overtaking` | TRUE (the run expects a violation) | with FALSE, and one client, `ReturnMeansConnected` holds |

### Seen in the code, not stated as a property

`recv_full` takes a lost connection for a read of -1 bytes and spins (udpipe_threads.cpp:136).
A file is in the checkpoint log when its last message has been handed to the pipe
(sender.cpp:636). The packed list is copied before its size is checked
(sender.cpp:461), and the receive buffer is a header shorter than a block may be
(receiver.cpp:116). Every file takes two of 200 timers, with a guard that is off by one
(timer.cpp:47). The monitor fires when a slow cipher or pipe, not the peer, holds the stream
up (udpipe_threads.cpp:72). `run_client` frees a handle a detached thread was given
(udpipe_client.cpp:238). In UDT: `CSndUList::insert`, which would grow the heap's array
of 4096, is never called, and `insert_` does not look; `0 == m_iLastEntry` is one event
left, not "the only event has been deleted" (queue.cpp:439); the last unit of a queue is
never handed out (206); "at least 16 expirations and must be greater than 10
seconds" stands over 5 seconds (core.cpp:2589); the rate limit of ACK2 compares cycles with
microseconds (core.cpp:1987); the drop of an expired message is off by one (core.cpp:2292);
the cookie of the previous minute never matches, since the text is appended to itself
(core.cpp:2485); a rejection with 1002 still runs the rest of connect (core.cpp:741); an
expiry clears `m_bConnecting` under a thread still in connect() (queue.cpp:847); memory that
runs out within `newConnection`'s insertions (api.cpp:417, 432) leaves a number in one table
without a socket in the other. `recvdata` that loses its connection in the middle of a block
frees the buffer under its workers (udpipe_threads.cpp:429).

## 4. Bounds

* `crypto_pool`: 3 workers, so that "next", "previous" and "neither" differ, and 5
  chunks, so that the turn wraps around and blocks of 0 to 5 chunks occur in
  every partition. A second wrap shows nothing new, and the proof has no bound.
* `auth_handshake`: keys of 12 bytes read in any pieces. The interleavings of two
  threads per end are complete.
* `crypto_framing`: sectors of 2 bytes, 3 workers, blocks below, at and above one and
  several sectors, received in every possible way.
* `transfer`: 2 files (one of 3 bytes that shrinks to 1, at any time, and an empty one),
  blocks of 2 bytes, so there are full, partial and empty ones; pipes and network of 2 units,
  so that every queue fills and messages are split between reads; one message may be dropped
  or one header be read in part.
* `transfer_faults`: the first of these files and one of 1 byte that stays as it is, pipes
  and network of one unit, two runs, the first killed anywhere or not, an edit at
  any time. Two runs are enough for the hazard, a run that trusts what an earlier
  one left.
* `thread_manager`: main, the connection thread, its two ends, the monitor and one thread for
  the cipher workers, in a table that holds them all. One worker stands for the up to 64 of
  two pools: they are started before the other threads and differ only in number. Every
  thread may fail, the connection thread may return early, both ends may get stuck.
* `dest_tree`: three directories, one empty, two files, every listing order
  `readdir` may give, three times of which two differ in nanoseconds only, two
  runs, destinations with files where directories belong and the reverse,
  directories in which nothing can be created, foreign files, and copies in place.
* `udt_containers`: numbers modulo 16 and a window of 5, so that every list, the
  arrays included, wraps several times; blocks that grow from 2, a receive buffer
  of 5 and four messages of 1 to 3 packets, ordered and not, any of which may be dropped;
  queues of four units, up to four of them in use, and a count
  off by up to two. The pool grows at 5/8 instead of 9/10 because a queue of four has no
  9/10; what matters, that it grows before a queue is full, is `UnitQueueAssumption`.
* `udt_containers`, the schedule: five sockets, a heap of three levels in which a socket may
  have two below it that have one below them, and three times. The sockets are symmetric:
  they are only told apart by their place in the heap.
* `udt_stream`: three packets around the end of the circle, buffers, window and
  ACK window smaller than what is sent, one fault anywhere: a packet lost,
  repeated, overtaken or late, an ACK left out, or the network down for good. A light ACK
  goes out every three packets, so that there is one.
* `udt_sockets`: two clients, two connections, a backlog of one, three requests,
  so that one is repeated or comes from a client whose first connection broke; one
  connection given up. `connect_returns`: the same, with the clients.

## 5. Fairness

Weak fairness for each thread, as the scheduler of the operating system gives it.
`CryptoPool`: each worker, and the passer once it has begun to pass or has a
buffer out, since the callers always join what they pass; `SetThreadExit` and
errors are never forced. `Transfer`: each thread and each main program, none of
edits, losses and reruns. `ThreadManager`: each thread's table operations, and
the end of its loop once it is told to leave or what it joins has ended, for a thread that is
in its loop: one that is in a call which looks at no flag (`Block`) is `"stuck"` and has no
fairness, and the main thread need not come to `clean_exit`.
`AuthHandshake`: each of the two threads of an end. `DestTree`: the two
programs; nobody has to start another run. `UdtStream`: the workers, the timers and a
network that is up as one system, and the two applications, which write all they have,
close and read on; faults are never forced, nor is the end of the linger time or of the
collector's patience. `UdtSockets`: the worker, the collector, and a
call of accept(), close() or cleanup() once it is under way; requests are never
forced, and nobody has to call close(). `UdtContainers` and `UdtConnect` have safety
properties only.

`CHECK_DEADLOCK` is off in every passing run because these systems end: a transfer is
done, a program has exited, a connection is closed, a container's calls are used up.

## 6. Proofs

The theorems hold for every value of the constants that the modules' own assumptions
admit; what is assumed beyond these is in the third column. Every leaf is checked.

| Module | Theorem | Assumes | Proves |
|---|---|---|---|
| `CryptoPool_proofs` | `Inductive`, `TypeCorrect` | | `[]IInv`, `[]TypeOK` |
| | `BufferSafe`, `ArgsSafe`, `StreamsInOrder`, `BlocksDone` | | `[]JoinReturnsBuffer`, `[]ArgsNotShared`, `[]StreamInOrder`, `[]BlockDone` |
| | `Implements` | | `ImplementsService` |
| `AuthHandshake_proofs` | `HandshakeHolds` | | `[]HandshakeInv` |
| | `NobodyReadsAmiss`, `OnlySameKeyOpens` | | `[]ReadsItsOwn`, `[]OpenMeansSameKey` |
| `CryptoFraming_proofs` | `CutAlike`, `BlocksComeOut` | | `[]FramingInv`, `[]WholeBlocksOut` |
| `ThreadManager_proofs` | `TableHolds` | `Forest` | `[]TypeOK` |
| | `CountNeverShort` | `Forest` | `[]CountCovers` |
| | `CleanupComesLast` | `Forest` | `[]CleanupIsLast` |
| `UdtSockets_proofs` | `Inductive`, `ReferencesCounted`, `OneAlive` | | `[]IInv`, `[]RefCountExact`, `[]OneSocketEach` |
| | `NothingDangles` | `~ TightRaces` | `[]NoDangling` |
| `UdtContainers_proofs` | `UnitsStayExact` | | `[]UnitsExact` |
| `Transfer_proofs` | `StreamLeads` | | `[](TransferType /\ ThreadInv /\ StepInv)` |
| | `StaysInSync` | `~ Online` | `[]InSync` |
| | `TimeMeansContent`, `Implements` | `Faults = 0` | `[]MtimeImpliesContent`, `ImplementsSync` |
| | `EverythingArrives` | | `[]AllDelivered` |

No invariant among the properties is inductive as it stands. The arguments are these.

### CryptoPool

That a worker is idle when the join returns depends on who holds which lock, and that a
chunk meets the context it belongs to on how many turns have been taken. `IInv` adds

* `LockInv`: `c_lock[i]` is held exactly while the passer fills in a job of i, a job is
  posted, or it runs, and these exclude each other;
* `PasserInv`: what the passer knows about the locks at each point: the lock it has
  taken, the workers its join has passed, all of them when it owns the buffer;
* `StreamInv`: the context of i lags behind the chunks passed by exactly one
  turn of N while a chunk is owed to it, and by none otherwise. `NextFor(i)` is the
  chunk i will be handed next, a function of `sent` and `thread_id`. Workers that
  reported an error are exempt: they have left, or are about to.

For `Implements` the service gives chunk c to stream c modulo N, and the code takes turns:
`ServiceInv` says that the turn is `sent` modulo N and that a context expects a chunk
of its own remainder. The lemmas on division with remainder in `ProofLemmas` are for
this, since N is not known.

### AuthHandshake

Two threads of an end read one stream, so what one reads depends on where the other one
stopped. `HandshakeInv` numbers the bytes ever sent to an end from 1: `ByteTo(e, i)` is
the i-th one, a challenge, an answer or the first block, and `ReadBy(e)` how many of them
the two threads have taken together. `WireAt` says that what is on its way are the
numbers from `ReadBy(e) + 1` on, up to those sent (fewer if the connection broke), `GotAt`
that each thread holds bytes of its own part, and `OrderAt` ties the flags the threads
poll to where the threads are. No assumption is made: keys have any length, are equal or
not, are read in any pieces, and the connection may break.

### CryptoFraming

A byte comes out right if the receiver's pool is, when it is handed the byte, where the
sender's was. The sender may be any number of blocks ahead, so the two pools cannot be
compared directly. `FramingInv` says that there is a table `F` with an entry for each
chunk of each block, the pool before that chunk, which both ends follow: `TraceInv` that
an entry is the one before it, passed one chunk (`After` and `SizeOf` are how the sender
cuts), `SndInv` and `RcvInv` that each pool is the entry of the chunk its end is at, and
`MetAt` that a byte has the place that the entry of its chunk gives it. The table is
extended by `NextChunk` and otherwise fixed; it is quantified in the invariant because no
variable of the code holds it. `QueueInv` says where in what is on its way each block
starts (`st[b]`, at or before the first item if part of it is in), so that the length a
`RecvSize` takes is that of the current block, and the bytes of a `RecvPiece` continue
it. That the receiver hands over the sender's chunk is then arithmetic (`SizeIs`): a
sector is handed over with at least one byte behind it, so it is not the last, and what
remains of a complete block is at most a sector.

### ThreadManager

The table is searched without its lock, threads run before they are entered, and a signal may
stop the main thread while it enters one. So the table is not what the count counts: a
thread may be in it, be overwritten by another, or be not in it yet. `Counted` is: the threads
that have been started, entered, and not been found by their own `unregister_thread`; those in
`unknown` aside, which found the table full or were being entered by the main thread when the
signal came, with what they start. `CountInv` says that the count is their number, that
the table shows only such threads, each in one slot, and that a thread between search and
lock in `unregister_thread` has the one slot it is in, unless another has taken it by now.

That the clean-up comes last then needs that nobody is left when nobody is `Counted`. A
thread that is alive and not counted is being entered by a thread which is alive, and not
counted either, and so on; `Rank` makes this end, at the main thread, which is out of
`register_thread` when it is at its clean-up. `TodoInv` is for that: what a thread has still to
start has not been started, but for the one it is entering. `Forest` is all that is assumed:
there are finitely many threads, each started at most once, by one that comes before it in
some order. It is a fact about which function starts which (parcel.cpp, crypto.cpp,
udpipe_client.cpp, udpipe_server.cpp, udpipe_threads.cpp), and every instance here meets it.
Any of them may fail, get stuck, return early or register while another does.

### UdtSockets

`IInv` has seven parts: the types; `TableInv`, sockets are made in order and the one
being made is the worker's; `MuxInv`, with `RefCountExact`; `AliveInv`, only the newest
socket of a client is alive, and none while the worker makes another; `EntryInv`, a socket
is at most once among what the worker serves and stays while it is; `HandInv`, a
connection is in one hand at a time, the worker's, the queue's, accept()'s, the
application's or close()'s; `QueueInv`, what removing the listener finds in its queue was
not removed before. The count is compared with the number of sockets in a table, so the
step of the collector, which removes many at once, needs `TakenAway`: a set taken away
reduces the number by its own. The tight races of section 3 do not touch these.
`NoDangling` is what they break; `QuietInv` is what holds without them, that the
queue and accept() hold sockets that can be looked up and that the listener outlives
whoever is in accept() or at a request.

### UdtContainers: the pool of units

`m_iCount` may be anything, and the search leaves out the last unit of every queue and
those before `m_pAvailUnit`: a call that finds nothing says little. But it ends at the
start of a queue, and from there the next call looks at all units but the last of every
queue (`OrderIs`). If these are all taken, then n (QueueSize - 1) of n QueueSize units
are in use (`AllLooked`, by an injection), which is more than Part / Whole of them by the
module's assumption, and the pool has grown when the first call returned, since it grows
by what it counts anew. So the second call finds a unit. The same threshold shows that
the pool is never exhausted in the sense of queue.cpp, and bounds it.

### Transfer

Pipes, buffers and network hold one stream of units, and the receiver is an automaton that
reads it. `Moves(v, p, u, q)` is its step: at place p (what it reads next, the file
open, its time and size, how much of it has come, how much of a block is missing) the unit
u is legal and leads to q. `Leads(v, p, s, q)` is a run of it over the units s.
`StreamInv` says: what has left the sending side leads from where the receiver stands
(`Standing`) to some q, and as long as the sender is connected, what has not yet left it
leads on from there to a place where the sender believes the receiver to be (`SentTo`).
The sender appends, the receiver takes away, everything else moves units along, and a loss
cuts the end off, which `StreamInv` survives because it asks for less then. Since the
receiver's next unit is always legal, it never takes a payload for a header. All this
holds until the stream is harmed, and of a harmed one nothing is said. With files
that change while they are sent (`Online`) the automaton may end in a place `bad`, from
which everything is legal; `Finished` then makes the completion of a file legal only if all
its bytes were read or a later version makes the claim obsolete.

`FilesInv` is about the disk: as long as the sources have not moved on, what has been
written of the open file, and read of the block, are bytes of the version its header
named, in their places (`Written`). At `RcvDataComplete` all of them are there, by
`Finished`, and truncation does the rest. `Implements` follows: a step that changes a
time makes the claim `SyncService` allows.

`Faults = 0` in two theorems because a file may be given the time of its source after a
message of it was dropped, which `MtimeImpliesContent` does not survive (section 3), and
because the proof follows the stream, which ends at the first harm, a header read in part
included. The others take any number of such faults and say what holds until the
first. `StaysInSync` asks that the sources rest while a transfer runs, since an edit
between the reading of a size and of the data shifts the stream. Everything else is free:
number of files, versions, sizes and capacities, losses of the connection, kills and
repeated runs.

`AllDelivered` is about a run as a whole, and the automaton forgets which files it has
seen. `DeliverInv` looks at all that is on its way (`Whole`), as long as nothing was lost
or dropped. `FilesReach`: a file whose times differ and that the sender has come to
(`Due`) is there, open, or its name is still to come, and one whose times agreed was
there. For that to survive the reading of a name, the name has to be announced by a
time no older than the list's (`Announced`), and what is open has to be closed before
the next name and before the end (`Apart`); both are said of every place in the stream,
in `NamesInv`. `PhaseInv` says that the end of the transfer is the last thing sent and is
on its way or read once the sender is past its loop; so if the end has been read,
nothing is on its way and nothing is open. The other way out of the receiver's loop is
the exit flag (receiver.cpp:149), which goes up when the connection is closed.
`ClosingInv` says that a connection closed by the sender leaves nothing unread, or the
stream has been harmed by an exit that did not wait, so the end has been read before.
Sources may change
(`Online`): a file is then there with its listed time or a later one.

### Only model-checked

* Liveness, which the prover cannot treat: `CallsReturn` (both), `HandshakeEnds`, `AllOut`,
  `TransferEnds`, `ExitCompletes`, `RunEnds`, `AllFreed`, `AcceptReturns`.
* The loss lists and buffers of `UdtContainers` (`ListsExact`, `BuffersExact`): what
  their folds and recursive functions compute for every input needs induction over data.
* `DestTree`. `AllArrive` and `UpToDateNotSent` hold for the trees, paths and times of the
  run, not for all (section 3), and depend on the unpacking of the list, which is
  recursive. `FailureJustified` and `KeepsTheRest` do not, and are next in the plan.
* `HeapExact` and `NoLostSignal`: the heap is one for up to five sockets only (section 3).
* `UdtStream`'s invariants and `ImplementsStream`.

## 7. Plan

Written first: the cipher pool, the transfer, the thread table, the handshake, the
framing, the destination tree. Then UDT from below: loss lists and buffers, the
data path built of them, the socket tables, connection set-up, the schedule and
the unit pool; and the packing of the file list. Then the proofs of section 6. Next:

1. Prove: `DestTree`'s `FailureJustified` and `KeepsTheRest`; `UdtStream`'s `RightPacket`
   and `NotCondemned` over abstract lists and buffers.
2. Extend: the monitor's deadline, with a bounded clock; rendezvous connections; data in
   both directions of a connection; files sent with sendfile; `--mmap` in `Transfer`;
   symbolic links in `DestTree`; a `recvdata` that leaves its
   workers a buffer it has freed.

## 8. Not modelled

* Option parsing, ssh start, address resolution, port search, socket options:
  plain I/O without state that lives on.
* OpenSSL set-up, its locking callbacks, key generation: library calls.
* Timers, progress and debug output: measurement and wording.
* `--mmap`, fifos, devices and symbolic links; widths in bytes of the packed list.
* The deadline of the monitor: `ThreadManager` lets it fire at any time instead.
* UDT: congestion control (`ccc.cpp`, floating-point; `UdtStream` lets the sender wait any
  time and keeps the window constant), rendezvous and non-blocking sockets, epoll, the
  cache of first guesses, `CPktTimeWindow`, file variants of send and recv, messages with
  a time to live, option handling, the C interface, MD5, the channel. Parcel uses stream
  sockets in blocking mode and none of the rest.
* `udt4_10`: the previous release of the same library, about a third of the
  implementation lines here. The build uses `src/udt`; a second model would repeat
  the first. Together with headers, the C interface and straight-line I/O this is
  most of what the map does not cover.
* `state.cpp`: not built. The Python scripts: drivers.
* Buffer sizes in bytes (receiver.cpp:116, sender.cpp:461): buffers have no addresses
  here.
