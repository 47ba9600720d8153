# A verification project for CodingSample

The repository holds five independent programs. This directory models the core
of each: the user-level thread library, the Snowcast streaming server with its
control client, the Dropbox cluster with its synchronisation protocol, the S5FS
file system with the system calls above it, and the kd-tree of the ray tracer.
All are model-checked with TLC; the safety of the thread library, of the Snowcast
server and its control client and of both Dropbox protocols is also proved with
TLAPS, and so is that the file system calls keep references and mutexes exact.

Of the repository's lines these modules cover about 7 %. The rest is mostly
given or third-party code (the Weenix kernel, its user programs and libraries,
OpenCL and GLM headers, the CS123 support code), second copies of the same
sources (`S5FS_wrapper/Weenix/kernel/fs`, `GPU_Raytracer-master`), and shading,
drawing and windows. Of the programs' own core logic most is modelled; section 8
says what is not.

Paths are relative to the repository. `uthread*.c` are in
`Uthread_wrapper/uthreads_final/`, `snowcast_*.c` in `Snowcast_wrapper/Snowcast/`,
`*.java` in `Dropbox_wrapper/Dropbox/src/`, `s5fs*.c`, `open.c`, `namev.c` and
`vfs_syscall.c` in `S5FS_wrapper/my_work/`, `vnode.c`, `file.c` and `pframe.c` in
`S5FS_wrapper/Weenix/kernel/`, `kdtree*`, `scene.cpp`, `intersect.cpp` and
`raytraceGPU.cl` in `Raytracing_wrapper/my_work/`.

## 1. Inventory

### Uthread: user-level threads

| part | state | operations |
|---|---|---|
| scheduler (`uthread_sched.c`, `uthread_queue.c`, `uthread_idle.c`) | the thread table, one run queue per priority, the running thread | yield, block, wake, setprio, switch |
| life of threads (`uthread.c`) | exit flag and status, detached flag, the waiter of each thread, the reap queue | create, exit, join, detach, the reaper's loop |
| mutexes (`uthread_mtx.c`) | owner, queue of waiters | lock, trylock, unlock |
| condition variables (`uthread_cond.c`) | queue of waiters | wait, signal, broadcast |
| interposition (`interpose.c`) | none | each system call yields first, but for fork and perror |

Threads are never preempted: a library call runs until it ends or reaches
`uthread_switch`. The parts call one another directly and share the thread table.
What is hard: everything that is read before a `uthread_block` and used after it
(the slot number of a join, the mutex of a lock that is not tested again, the
reaper's queue); slots that are reused; a thread that changes priority in any of
its states; wake-ups that could be lost or could reach the wrong sleeper.
It is correct when the run queues hold exactly the runnable threads, the switch
takes the highest priority, mutexes exclude and are handed over in order, every
sleeper is known to the one that must wake it, a join returns the status of the
thread it was called for, and dead threads are reaped.

### Snowcast: a radio server, its control client and its listener

| part | state | operations |
|---|---|---|
| server, select loop | the table of clients, the linked list of listeners of each station | accept, HELLO, SETSTATION, REQUEST, disconnection |
| server, operator | the list of stations | `a` add, `d` delete, `s` shut all down, `l` list, `q` quit |
| server, one sender thread per station | its place in the song and in the list | read a chunk, lock, send to each listener, unlock; announce the next song |
| control client | the queue of pending commands | `Set`, `Reqall`, `Reqcur`, `Reqast`; matching replies to commands |
| listener | none | copies datagrams to standard output |

The server's threads share the lists under one lock for the list of stations and
one per station, and not all accesses are locked. A station that is removed has
its sender cancelled with `pthread_cancel`. Control client and server talk over
TCP, a line per command, replies matched by their order. What is hard: stations
freed while another thread uses them, cancellation under a lock, lists walked
without their lock, the intrusive `next_client` of a client that moves between
stations, and the byte 10 inside a message: in a number, or as the size of a text.
It is correct when the lists are exactly the clients that set the station, a pass
of the sender serves exactly its listeners, nobody keeps a freed station, nobody
waits for a lock for ever, and the pending-command queue is in step with the
connection.

### Dropbox: master, file servers, clients

| part | state | operations |
|---|---|---|
| master (`master/`) | the client records with their owner, the list of file-server nodes, per node a Request thread (heartbeats) and an Accept thread (commands) | registration (IDF, USR), ADD, RMV, PWD, CLS, removal of dead nodes, the timer's garbage collection |
| file server (`fileserver/`) | the clients in memory, `clients.txt`, the clients' directories, two connections to the master | start, registration with retries, `-a`, `-r`, `-w`, `-q`, `-z`, `-s` |
| synchronisation (`client/`, `utils/`, the syncer of the file server) | on each side the directory and a map of what was seen last; one connection on which the sides take turns | INIT, QUERY, NULL, DATA; scan, write a stream, apply a stream |

A file server has one socket for heartbeats and one for commands; different
threads of the master serve them and each may be the first to see it break. The
master keeps its tables in memory only, the file server keeps `clients.txt`. What
is hard: two threads that destroy one node, lists walked outside of their monitor,
a registration refused half way, crashes between the master's record and the disk,
edits while a stream is written, sent and applied, reconnection with old maps, and
syncers that are cancelled and go on.
It is correct when names are unique, no record outlives its node, a registered
server and the master agree, what the master records is on disk, what a client
takes for synchronised is on the server, and the server's copy never goes back.

### S5FS and the VFS calls

| part | state | operations |
|---|---|---|
| blocks and inodes (`s5fs_subr.c`) | the chained free list, the inode list, direct and indirect blocks | alloc and free of blocks and inodes, seek |
| directories (`s5fs_subr.c`, `s5fs.c`) | entries, link counts, mutexes | lookup, create, mknod, mkdir, rmdir, unlink, write |
| vnodes and files (`vnode.c`, `file.c`, external course code) | reference counts, resident pages | vget, vref, vput, fget, fput, page-out |
| system calls (`open.c`, `namev.c`, `vfs_syscall.c`) | descriptors, working directories | open, write, close, dup, dup2, mknod, mkdir, rmdir, unlink, link, rename, chdir |

The kernel is not preemptive: a process runs until it waits for a mutex or for the
disk, and whatever was looked up before may be stale after. What is hard: error
paths that hold vnodes, descriptors and mutexes, a full disk in the middle of a
call, names that appear or vanish between look-up and use, directories removed
under a process, and the free list at the edge of a node.
It is correct when every block is free or in one inode, link counts equal
entries, references equal holders, nothing leaks, no mutex is left held, and the
assertions hold for calls that do not overlap.

### Ray tracer

Objects are added to a scene, whose extends grow with them; `KdTree::build` divides
the extends, and `intersect` walks the tree along a ray (`intersect.cpp` on the CPU,
`raytraceGPU.cl` on the device). What is hard: boundaries (an eye in a box, on a
split plane or on an edge; objects that reach over several leaves), and the list and
pool of split positions that the recursion shares. It is correct when the walk
finds what a test of all objects finds. Shading, quadrics and windows are numeric
or I/O and are not modelled; the worker threads write disjoint ranges of pixels.

## 2. Modules

| module | models |
|---|---|
| `UthreadQueue` | `uthread_queue.c`, with `list.h` below it: a queue is a sequence of slots |
| `UthreadSched` | scheduler. One library call is one step; `switching` says that `uthread_switch` is pending, and then it is the only step. `ctx[t]` is the saved context: where a thread goes on |
| `UthreadLife` | `uthread.c`. Exit statuses are creation numbers (`born`, a history variable), so that a status tells whose it is |
| `UthreadSync` | mutexes and condition variables; broadcast is the loop it is in the code, a step per turn. `holding` is where the clients are in their critical sections |
| `Uthread` | the composition, its fairness, its properties and the refinement mapping to `FifoLocks` |
| `FifoLocks` | abstract: locks with one owner, FIFO waiters and hand-over, no scheduler |
| `UthreadProof` | the lemmas on queues; the inductive invariants and the theorems |
| `SnowcastLists` | the shared data of the server, with the linked lists pointer by pointer |
| `SnowcastServer` | its threads, locks and cancellation. Code under a lock is one step unless another thread can be in the middle of it |
| `SnowcastServerProof` | lemmas on the linked lists; the inductive invariants and the theorems of the server |
| `SnowcastControl` | the control client, the bytes of its commands, the server's answers and announcements as the lines the client reads, and every branch of its parser |
| `SnowcastControlProof` | its pending commands stay in step with the connection |
| `DropboxMaster` | the master: tables, registering thread, Request and Accept threads, timer. A monitor call is one step; a walk outside of the monitor may throw |
| `DropboxFileServer` | the file servers: start, registration, commands, `clients.txt`, which is emptied in one step and written in the next |
| `DropboxCluster` | their composition with crashes of either side, cut and half connections |
| `DropboxClusterProof`, `DropboxDurableProof` | types, unique names and removers; durability, and the agreement of the master with its servers |
| `DropboxSync` | one account: its terminals, their syncers and the file manager both use. A client writes a stream entry by entry, the length of a file and its content in separate steps with edits between them; both sides apply a stream one path at a time. Syncers are cancelled when the server loses the master, and go on with the message they are at |
| `DropboxReplica` | abstract: each file on the server only moves to later versions |
| `DropboxSyncProof` | the refinement of `DropboxReplica`, and what synchronised clients rely on |
| `LeastNumbers` | the least-number principle the proofs use for induction |
| `S5Blocks` | blocks and inodes, as operators from file system to file system |
| `S5fs` | vnodes, pages and directories, likewise |
| `Vfs` | processes and their calls; an action is what a process does between two points where it may block |
| `VfsProof` | references and mutexes of vnodes are exact |
| `KdTree` | the scene's extends, build and subdivide, and the walk of the device's `intersect`, for cubes in exact arithmetic |
| `MCUthread`, `MCSnowcastServer`, `MCSnowcastControl`, `MCDropbox`, `MCDropboxSync`, `MCVfs`, `MCKdTree` | the instances for TLC |

Clients are nondeterministic. In Uthread the constant `Client` is the set of calls
and of mistakes (relock, second join, bad ids, exit with a mutex, ...) they may
make. In the Snowcast server and the Dropbox cluster `Env` names what connections,
files, processes and races may do, and `Commands` what the operator of Snowcast may
type. A run that leaves a member out does so because the code does not survive it
(section 7 says what happens) or because another run has it.

`status` in Uthread, `fault` in SnowcastServer and `panic` in Vfs record how the
process or the kernel ended: by exit, by a failed assert, by a use of freed memory.
Nothing happens afterwards, and properties stated for `fault = "none"` speak of the
server before that.

Abstractions that deserve a word:

- A `station_t` is handed out by the heap once, so that a use after free is seen as
  such and not masked by reuse.
- A confirmation in `SnowcastControl` carries the station the server recorded, which
  the program does not send; it is there for `ConfirmedAsAsked` and no action reads
  it. Both directions are read by lines: the bytes to the server one by one; of an
  announcement only the length of its text is kept, and where the size byte is a
  newline the text is a line of its own (`Rest`). What a side writes in one `send`
  arrives in one piece.
- In `DropboxMaster` a connection is the field `peer` of the thread that serves it;
  what was sent before a close can still be read. `stolen`, `of`, `torn` (the nodes of
  servers killed between emptying and writing `clients.txt`) and, in `DropboxSync`,
  `local`, `overlap` and `garbled` are history; `split` in `SnowcastControl` is too. Three timing assumptions are stated where they are
  used: `OldLinesRead` (a server that sleeps or restarts before it connects again
  finds its old lines read), `UserRests` (two local steps of the user thread take
  less than that sleep) and the guard of `Connect` in `DropboxSync` (the
  message under way on the old connection is read or lost before the next `connect`).
- `cancelSyncers`, which the loss of the master runs, is `CancelSyncers` of
  `DropboxSync`, where it may happen at any time; `DropboxCluster` has no syncers.
- In `DropboxSync` a path is a file or a directory for ever and two edits never have
  the same modification time. The master's answer is success or failure.
- In `S5fs` directory entries are what the page cache has, `refs` leaves out the
  references of resident pages, and data files have blocks and no bytes. `raced` and
  `stray` are history: what the two races named in section 7 have spoiled.
- In `KdTree` coordinates are integers that every direction divides, and costs are
  compared after multiplication by the surface area: rounding is left out, and so
  is `EPSILON`, which makes up for it.

## 3. Runs

Every cfg is named after its run. A type invariant is a conjunct of one of the
properties of its module (`SafeForAnyClient`, `LockedStationLive`, `QueueInStep`,
`NamesUnique`, `SyncedIsOnServer`, `LocksExact`, `TreeExact`).

| run | instance | checks |
|---|---|---|
| `uthread_rules` | 4 slots, 3 creations, 1 priority, 1 mutex, 1 condition; clients that keep to the rules | `WaitHasWaker`, `NoJoinCycle`, `JoinReturnsItsThread`, `LocksAreFifo` |
| `uthread_any_client` | 3 slots, 2 creations, 2 priorities, 1 mutex, 1 condition; every call and every mistake | `SafeForAnyClient` and its parts `RunQueueExact`, `MutualExclusion`; `HighestPriorityRuns` |
| `uthread_live` | 4 slots, 2 creations, 1 priority, 1 mutex, no conditions | `ReapedEventually`, `TopPriorityRuns`, `JoinReturns`, `LockGranted` |
| `snowcast_listen` | 3 clients, 1 station; join, leave, list; fair | `NoFault`, `ListsExact`, `PassServesListeners`, `HandlersReturn`, `StreamFlows` |
| `snowcast_operate` | 2 clients, 2 stations, one of them at the start; join, leave, add, delete, shut down, songs that end | `ListsExact`, `CurStationLive`, `ListedAreLive` |
| `snowcast_any` | 2 clients, 2 stations; every misbehaviour of clients, files and sockets, delete and quit | `LockedStationLive` |
| `control_queue` | 3 commands, 1 announcement nobody asked for, up to 2 songs in an answer, texts of 9 and 10 bytes, numbers and ports with and without byte 10, one above 16 bits; fair | `QueueInStep`, `ConfirmedAsAsked`, `PendingDrains` |
| `dropbox_cluster` | 2 servers, 2 names, 2 nodes and 2 Accept threads at a time, 2 commands, 3 while there is one server, 1 fault of every kind that no other run has | `NamesUnique`, `DeadRecordsHaveRemover`, `RecordsAgree`, `RecordedIsDurable` |
| `dropbox_live` | 1 server, 1 name, 3 nodes and Accept threads, 2 commands; a crash, `-z` or a cut; fair | `GoneIsForgotten` |
| `dropbox_sync` | a directory with a file and a file beside it, 1 terminal, 3 edits, 2 faults; or 2 terminals, a file, 3 edits and faults together, 1 of them a fault at most; fair | `SyncedIsOnServer`, `ServerMovesOn` (refinement of `DropboxReplica`), `CatchesUp` |
| `s5fs` | 2 processes, 4 calls, 7 blocks, 4 inodes, 3 entries to a block, 3 to a node of the free list, 1 direct block; an empty disk and one with two directories | `BlocksExact`, `LinksExact`, `RefsExact`, `UnusedIsFree`, `LocksExact`, `AssertsHoldAlone` |
| `kdtree` | every scene of up to 6 of 8 boxes that are apart, touch, overlap or nest; 70 rays; depth 2 | `TreeExact`, `TreeAgrees` |

Bounds, and why they are enough:

- `UTH_MAX_UTHREADS`, `MaxCreate`. Slots 0 and 1 are the reaper's and main's. Four
  slots with three creations give two threads besides main at a time and one that
  reuses a slot, which `JoinReturnsItsThread` needs, and two waiters behind the
  owner of a mutex, which the order of `LocksAreFifo` needs. Two priorities tell
  high from low; more only repeat. For the safety of any client the proof removes
  the bounds.
- `Stations`, `MAX_STATION_NUM`, `InitialStations`. Two stations are the least
  between which a client moves, and give removal at the head, at the tail, and of
  the only one. `snowcast_listen` has three clients, so that one is unlinked from
  the middle of a list. `MaxCounter` bounds the joins of a station, since nothing
  takes `counter` down.
- In `control_queue`, `MaxCommands` and `MaxNews` bound the commands and the
  announcements nobody asked for. Three commands and one announcement give every
  order of reply, news and pending command, and the confirmations of `Set` and of the
  requests announce one or two songs besides. A text of 10 bytes has a newline for
  its size, one of 9 has not.
- `Nodes` and `Accepts` are the objects that exist at one time; an object that
  nobody refers to any more is used again. Two servers can compete for one name; a
  restarted server has its old node and its new one; the live run needs a third,
  for a server that comes back while both threads of its node are still cleaning
  up. `MAX_TRY` of 2 (3 in the code) has a first and a last attempt. Two
  commands give an add and a remove or change of the same name; `MaxFaults` of 1 is
  a single failure at any point of all this. A third command is allowed while only one
  server has been used (the action constraint `SecondServerBound`): it removes one of
  two clients, so that a kill between the two steps of writing `clients.txt` loses
  the other.
- In `dropbox_sync` one terminal has three edits and two faults: an edit before,
  between and after the two steps that write a file, a directory made, filled and
  emptied, a syncer that is cancelled and a cut that makes its terminal connect again
  while it goes on. A second terminal is used only while the directory is nowhere, and
  with three edits and faults together, one of them a fault at most (the action
  constraint `SecondTerminalBound`): a file changed by one terminal, by the other, and
  once more in between; a terminal that crashes and one with an older file that takes
  over; two syncers that overlap. The constraints only keep back what users, operators
  and faults do, none of which is fair, and they cut no step a thread must take.
- The small numbers of `s5fs` bring the edges close: a node of the free list is used
  up after two blocks, a file of more than one block needs the indirect block, a
  directory grows with its third entry, the disk and the inodes run out. Four calls
  are make, fill or enter, remove, and one that meets the result; two of them may
  overlap at every point where a process blocks.
- In `kdtree` a scene of six boxes splits up to the depth bound with two nodes on
  the stack of a ray, and boxes remain together where no split pays.

`CHECK_DEADLOCK FALSE` is in every cfg but `kdtree`'s because the systems may stop:
the process exits, asserts fail, clients run out of what their bound lets them do.

Symmetry permutes the entries of the client table and the addresses of stations in
the safety runs of the Snowcast server, names and servers in `dropbox_cluster`, and
processes in `s5fs`. It is sound: the code (or, for the table, the model, which takes
any free entry) treats them alike and no property names one. Runs with liveness
properties have none.

## 4. Fairness

Uthread: weak fairness of the pending `uthread_switch` and of what a woken library
call or the reaper has left to do, since the processor goes on. Strong fairness of
`GiveUp`: a client does not keep the processor for ever, as every interposed system
call yields. Strong fairness of `Unlock`: clients unlock what they lock. Threads
below the highest priority may starve by design, so the liveness properties speak
of the highest. `LockGranted` excuses an owner that sleeps in `uthread_join`, which
may be a join of the very thread that waits.

Snowcast server: strong fairness of each thread's steps, which the operating system
and its mutexes give here because a sender sleeps most of every second without the
lock: whoever waits finds it free again and again. The clients and the operator have
no fairness. Control: weak fairness of both threads and of the server's reading.

Dropbox cluster: weak fairness of every thread of the master and of the registration
of a server that was started. Heartbeats are strongly fair: Request threads meet at
the one monitor of `NetComm` again and again, and the one that had it sleeps
`HEART_BEAT_HZ` before it comes back. Starting servers and typing commands is up to
people. Synchronisation: weak fairness of clients and of syncers,
cancelled ones included (`LateStep`); users edit, start and
stop as they like, and connections break as they like.

## 5. Proofs

TLAPS checks eight modules. A theorem holds for every value of the constants that
its module's assumptions allow; the bounds of section 3 are TLC's.

| module | theorem | says |
|---|---|---|
| `UthreadProof` | `LibrarySafe` | `SafeForAnyClient` is an invariant |
| | `TypeCorrect` | type correctness |
| | `RunnableThreadsQueued` | one thread has the processor; the run queues hold exactly the runnable threads |
| | `MutexesExclude` | mutual exclusion, no waiters on a free mutex, exact wait queues |
| | `DeadThreadsReachReaper` | the reap queue is the dead detached threads, and the reaper is awake while it is not empty |
| | `SwitchPicksHighest` | a switch gives the processor to a highest-priority runnable thread |
| | `MutexesAreFifoLocks` | `Uthread` implements `FifoLocks` |
| | `SleepersAreKnown`, `JoinsNeverCycle`, `JoinsReturnTheirThread` | `WaitHasWaker`, `NoJoinCycle`, `JoinReturnsItsThread`, if `RulesKept` |
| `SnowcastServerProof` | `LocksKeepStations` | `LockedStationLive`, for any client, operator, file and socket |
| | `StationListExact` | `ListedAreLive`, likewise |
| | `ListenersExact`, `StationsOfClientsLive`, `PassesComplete` | `ListsExact`, `CurStationLive`, `PassServesListeners`, if `StationsSetOnce` |
| | `NothingFails` | `NoFault`, if `OrderlyUse` |
| `SnowcastControlProof` | `QueueStaysInStep`, `ConfirmationsAsAsked` | `QueueInStep`, `ConfirmedAsAsked`: until either side writes a newline inside a message, and type correctness always |
| `DropboxClusterProof` | `OneRecordPerName` | `NamesUnique` |
| | `DeadRecordsAreRemoved` | `DeadRecordsHaveRemover` |
| `DropboxDurableProof` | `RecordsAreDurable` | `RecordedIsDurable`, but for the nodes in `torn` |
| | `RecordsStayInAgreement` | `RecordsAgree` |
| `DropboxSyncProof` | `ServerNeverGoesBack` | `DropboxSync` implements `DropboxReplica`, whose files move forward while it is `ordered` |
| | `SyncedFilesAreOnServer` | `SyncedIsOnServer`: while `InOrder` (no stream is out of step, no syncer was accepted beside a cancelled one), and type correctness always |
| `VfsProof` | `ReferencesAreExact` | `RefsExact` |
| | `MutexesAreExact` | `LocksExact`, and with it type correctness |

`LeastNumbers` holds a lemma only: the one fact that stands in for induction (a
property of a number that holds somewhere has a least number where it holds; the
provers cannot instantiate the library's induction theorems, but they refute a least
counterexample).

### Assumptions

- Uthread: the table has at least two slots (`TableAssumption`); `UTH_MAXPRIO` and
  `MaxCreate` are naturals (`PrioAssumption`, `CreateAssumption`). Mutexes,
  conditions and the clients are arbitrary. Three theorems are about clients that keep
  to five rules (`RulesKept`): they do not lock a mutex they own, exit with one, join
  themselves or a thread that has been joined, or detach a thread that is being
  joined. The code refuses none of these (its tests of a waiter read the caller's), and
  section 7 has what happens otherwise. Any other mistake is allowed; the run
  `uthread_rules` satisfies the hypothesis.
- Snowcast: the client table is finite, `NULL` is neither a client nor a station
  (`ListsAssumption`), and no more stations are loaded than `MAX_STATION_NUM`
  (`ServerAssumption`). Two theorems have hypotheses on `Env` and `Commands`:
  `StationsSetOnce` says that no client sets a station twice, and `OrderlyUse` in
  addition that nothing misbehaves and nothing is removed. Both are needed: section
  7 has the behaviours of the code that violate the conclusions otherwise, and the
  runs `snowcast_listen` and `snowcast_operate` satisfy them.
- Snowcast control: the numbers typed are any naturals, and ports and station ids fit
  in 16 bits, ports above zero (`ControlAssumption`). The lengths of texts are any naturals. There
  is no bound on the commands, the announcements, the songs announced together or what
  is under way at a time.
- Dropbox: `None` is different from the other values (`MasterAssumption`,
  `ClusterAssumption`, `PacksAssumption`), a server tries at least once
  (`ServerAssumption`), and the home directory is not one of the paths below it
  (`SyncAssumption`). Servers, names, passwords, threads, terminals, files,
  directories, edits and faults are arbitrary in number.
- S5FS and VFS: a node of the free list has at least two entries, and there are
  inodes, blocks, direct blocks and entries of an indirect block (`S5Assumption`). There are finitely many processes, at least one
  descriptor each, the calls are those with a path, and every disk to start with is
  one that `s5fs_mount` leaves: nobody but the mount uses a vnode, and entries and
  the inode list have inodes of the disk (`VfsAssumption` with `Unused`). What the
  disk holds otherwise, the paths, the number of inodes, blocks and calls and what
  pageoutd does are arbitrary.

### Inductive invariants

None of the properties with content is inductive alone.

**Uthread: `SafeForAnyClient`.** Mutual exclusion needs `WokenOwnsMutex`, since
`uthread_mtx_lock` does not look again after its block, and that needs
`WaitQueuesExact`: only an unlock wakes a waiter of a mutex. The other wake-ups are
kept away by `JoinerAsleep` (an exit wakes a thread asleep in its join, not one
asleep elsewhere) and by `ContextInv` (only the reaper is in the reaper's loop).
`RunQueueExact` needs `OneOnCpu`, so that a thread that yields or is woken is not
queued yet. `ReaperAwake` needs `ReaperFirst` for the time before the reaper's first
block, where a wake-up would be lost. `NextSafe` has one lemma per action;
`StepRefines` shows that each step is one of `FifoLocks` or stutters.

**Uthread: `Ruly`,** for clients that keep to the rules, on top of
`SafeForAnyClient`. `SleepersOK`: a thread sleeps in one of four calls, and on the
queue of what it waits for. `OwnersOK`: the owner of a mutex is in its critical
section or about to return from `uthread_mtx_lock`, and is alive, which is what a
sleeper on the mutex depends on; a thread in `uthread_cond_wait` has given its mutex
up. `JoinsOK`: a joiner is the one waiter of an undetached thread which is still the
thread it was (the slot's `born` number), and it sleeps exactly until that one is
dead. A new join closes no cycle: `uthread_join` refuses a caller that has a waiter,
so nobody's join ends at the caller.

**Snowcast: `Safe`, `Linked`, `Calm`.** `Safe` adds to the two properties it proves
where main and the operator are (`MainOK`, `OpOK`) and that a station nobody
allocated has no sender, no place in the list and no client (`UnusedOK`); with these
the lock of a station is enough to keep it. `Linked` says of each live station that
some sequence without repetition is its list, pointer by pointer (`Chain`), that the
members are its listeners, and that a sender in the middle of a pass, which has the
lock (`PassOK`), has served a prefix of it and points to the next member. The counter
is at least the number of clients tuned to the station (`CountsOK`), a client without
a station has no successor (`LooseOK`), and a handler of main that has looked at a
client and has not got the lock yet still finds what it saw (`HandlerOK`). That the set `Reached` of the model is the set of
members of such a sequence is proved by least
counterexamples. `Calm` adds that nothing is freed and that everyone on a list has
a udp socket.

**Snowcast control: `Typed`, `Sync`.** `InStep` relates the queue of commands, the
numbers typed with them, the messages under way and the bytes under way: the n-th
reply answers the n-th command, the lines are the commands behind those, and each
line has the form and the number of its command. It holds until `split`; an
announcement that is not cut takes no command, so it leaves the replies where they
are. Places and ranks in it are finite
sets of numbers; the lemmas on ranks say what dropping a first place and adding a
last one do to them, and one lemma for each of typing, serving, announcing and
receiving says that `InStep` is kept. `HelloOK` adds that HELLO is the first line and
that the server has shaken hands exactly when it is gone; without it a second answer
to one line (the refusals of SETSTATION and REQUEST before HELLO) would put the
queue out of step. `Ended` says that what is under way ends with a newline, so that
the server always finds a line.

**Cluster: `WellTyped`, `DeadOK`, `Durable`, `Agreed`.** A type invariant is not inductive
before it says what a thread in the middle of a command has read (`AcceptsOK`,
`ListenOK`, `UsersOK`). `DeadOK` adds that the
node which ClusterNet's thread is filling in is alive and nobody else's. `Durable` follows every name from the server
that holds it through the lines that carry it to the record: a line that registers
or adds a name finds it in `clients.txt` (`DurableOK`), a server waits for the answer
to its only line (`QueueOK`, `LinesOK`), so that a name it erases is under way
nowhere (`AcceptedOK`, `UserOK`), and objects keep the server they were made for
(`OriginsOK`). While `clients.txt` is emptied, what counts as on disk is the map that
is about to be written; a kill then puts the server's nodes into `torn`.

`Agreed` rests on all three. Between the moment the master does a command and the
moment the server acts on the answer the two differ by that command, so what is
inductive is not `RecordsAgree` but `AgreeOK`: for a node `n` that serves `s`
(`Serves`), the master has exactly `View(s, c)`, which is the server's map with the
command under way taken into account: not yet done without a confirmation, done with
one. It needs that a
command under way is the one that the user thread waits for, with the arguments in
the map now (`OrdersOK`); that a name list under way is the server's map now
(`EntriesOK`), and that ClusterNet's thread, which adds its entries one at a time,
has added exactly those it is past (`AddingOK`); and that the records of a connected
node are removed by nobody (`PeersOK`, with `DeadOK`'s facts about who removes them).

**Synchronisation: `WellTyped`, `Tracked`, `Moves`, `SyncAll`.** The first two hold
always: `Tracked` says that the file a client is writing is one to add or change,
that there are left syncers only after an `overlap`, and streams that do not fit only
once `garbled`. The other two hold while
`InOrder`, which once lost never comes back. `Moves` says which states a
client and its syncer can be in together (`SessionOK`: one of them holds the turn, or
the connection is an orphan), that there is one syncer (`Alone`), and that nothing
under way from a terminal, nor its home once it is synchronised, is older than the
server's copy (`FlightOK`, `HomeOK`, `DownloadOK`). Every step of a terminal then
moves the server's files forward or leaves them, which is the refinement: `Moves` is
proved per terminal, with one lemma for what the other terminals keep. `SyncAll`
says that an entry which the client's map hides is on the server or in the stream
under way, in which it has the home's version; and, for the deletion of directories,
that a file of a directory being deleted is not in the map any more.

**VFS: `Exact`, `Bounded`.** `RefsExact` and `LocksExact` need each other, and both
need what a call holds at each of its points (`ProcOK`): which of `at`, `tgt` and
`src` are set, that a descriptor is taken exactly by an open, and that the file of an
unfinished open has one descriptor and no vnode yet while every other open file has
one (`FilesOK`): the error path of `do_open` gives the file up without a `vput`, which
is right only because of this. `FsOK` says that a
vnode which is not in use has no reference and no owner, so that the `vget` in
`s5_remove_dirent` does not revive one that a call holds; and that directories name
inodes of the disk. Each operator of `S5Blocks` and `S5fs` is shown to keep all
references and mutexes but one, by one (`Same`, `Got`, `Put`). A call is then
followed by the multiset of references its process has: `Has(p, s, a, b, c, d)` says
that file system `s` has what the others hold and, for `p`, one reference of each of
`a`, `b`, `c` and `d`; every `vput` takes one away, and at the end what is left is
what the process record shows. The last `vput` deletes the vnode with
its mutex; whoever has the mutex has a reference of its own besides (`Covers`), so it
is never the last. Sums over processes change in one place at a step (`OwedChange`). `Bounded` is the rest of the type invariant.

TLC checks each of these invariants on the instances before it is used.

### Left to TLC

- Liveness under fairness: `HandlersReturn`, `StreamFlows`, `PendingDrains`,
  `GoneIsForgotten`, `CatchesUp`, and Uthread's four.
- S5FS: `BlocksExact`, `LinksExact` and `UnusedIsFree` follow the free chain, the
  entries of a directory or the paths from the root, which are recursive over the
  disk, and count over all of it; `AssertsHoldAlone` rests on these.
- The kd-tree: what a recursive construction computes for every scene needs
  induction over its data.

## 6. Hazards

`PROJECT.json` lists them at their lines with the properties that guard them. Those
that the code does not meet are in section 7, with what happens then.

## 7. Disagreements with comments and messages, and what the code does not survive

They were met while modelling. Where the model contains them, runs exclude them by
`Client`, `Env` or `Commands`, or state their properties up to `fault`, `panic` or a
history variable that names exactly what is spoiled.

Uthread:

- `uthread_join` tests its caller's waiter, not the target's (`uthread.c:170`, comment
  at 167). A second joiner displaces the first for ever.
- A thread that joins itself sleeps for ever (160; the comment at 142 promises
  EDEADLK).
- `uthread_detach` of a thread being joined succeeds (218, comment at 215), and of
  one that has exited fails an assert (227 with 397).
- Stacks are not freed (92, comment at 279).
- `uthread_create` with a bad priority ends the process (89; the comment at 62
  promises -1).
- A thread that exits with a mutex leaves it owned by its slot (110).
- A thread that locks a mutex it owns blocks on no queue (`uthread_mtx.c:54`), and
  nobody wakes it.

Snowcast server:

- `append_client_to_station` keeps the `next_client` of the old list
  (`snowcast_server.c:881`); a client that moves twice fails the assert at 809, or two
  stations share listeners.
- A sender cancelled in `sendto` ends with its station's lock (445), and
  `remove_station` waits for that lock while it holds the one of the list. The
  comment at 1685 says care must be taken.
- `counter` is not taken down when a client leaves (790), so removing the station
  later fails the assert at 1702.
- SETSTATION before HELLO is refused and carried out (948); the sender's assert at
  442 then fails. A client that leaves before HELLO fails the assert at 848.
- After a song the list is walked without its lock (423); a client that is closed
  meanwhile fails the assert at 427.
- Setting the current station again takes the client off its list and confirms it
  (868, 987).
- `d` ignores numbers that are not below the number of stations (1611, manual at
  1500), so the last station cannot be deleted once another was.
- Stations are used by main after the unlock (774), and by a sender that is between
  its read and its lock (1687), while `remove_station` frees them; README.docx says
  that mutexes protect them.
- The descriptor of a refused connection stays in the select set and the next
  select ends the server (1109, message at 1117).
- `q` frees everything, does not exit, and locks a destroyed mutex.
- Two stations can get the same id after a deletion (1255).
- A client that sends half a line stops the select loop in `recv` (268).

Snowcast control:

- `Set 10` sends a line whose number contains the newline: station 0 is set, and
  the rest of the line, which is empty, closes the connection
  (`snowcast_control.c:142`, manual at 368).
- `Set 65537` asks for station 1 without a word: the number is cut to 16 bits
  (122). `ConfirmedAsAsked` holds up to that cut.
- A song whose text has 10 bytes is announced with size byte 10
  (`snowcast_server.c:698`), which the client reads as the end of the line. The text is
  then a line of its own, and the branch for other first bytes
  (`snowcast_control.c:476`) takes a command off the queue that nobody has answered:
  the next reply confirms the wrong one. `split` marks this. The branch also takes the
  command without having the lock of the queue, and unlocks it; that race is not
  modelled, since nothing but type correctness is claimed after a split.
- `wait_for_announce` is never set, so a second `Set` is not held back (339, comment
  at 54).

Dropbox cluster:

- A registration that meets a name already taken is refused, and the records it had
  added before stay for ever (`MasterServerClusterNet.java:84`).
- RMV and PWD do not look at the owner, so one server can remove the client of
  another (`MasterServerFileServerAccept.java`, `parse`); `stolen` excepts those names
  from `RecordsAgree`.
- A server that restarts before its old node is gone registers a second node with
  the same id, against `assert node == null` (`MasterServerClusterNet.java:74`), and
  USR attaches its connection to the first one (126).
- Something that connects and closes without a line ends the registering thread and
  its server socket (168), and a list changed during an unguarded walk
  (`MasterServer.java:152`) ends that thread or the timer.
- A server whose second connection fails keeps the first one open; nobody answers
  heartbeats on it, and `NetComm.sendAndRecv` (58), static and synchronized, keeps all
  other heartbeats waiting.
- `-r` of a directory that is not empty, or of another server's client, repeats the
  removal for ever (`DropboxFileServerUserNet.java:353`).
- `changePassword` never writes `clients.txt` (`DropboxFileServer.java:343`), so a
  restarted server has the old password.
- `writeClientsToFile` opens `clients.txt` for overwriting (`DropboxFileServer.java:258`)
  and writes it afterwards (262-271). A kill in between leaves it empty: the restarted
  server knows none of its clients, which the master may still record. `torn` has
  the nodes of such a server, and `RecordedIsDurable` excepts their records.
- A crash between the directory and `clients.txt` leaves a directory for which `-a`
  is refused ever after.
- `removeFileServer` removes the index behind the last element when the id is not
  found (`MasterServer.java:184`; nothing calls it), and
  `MasterServerClientHandler.java:46` asserts on a field before it is set.

Dropbox synchronisation:

- Edits made while not connected, or lost with a connection, are overwritten by the
  server's copy at reconnection, and deletions are undone. Edits made during the
  first download are taken for the server's by the rescan
  (`DropboxFileManager.java:249`) and never uploaded. `local` names those paths and
  `SyncedIsOnServer` and `CatchesUp` except them.
- A file deleted between the scan and the writing of the stream breaks the
  connection (`SyncStreamWriter.java:101`). A client refused with FULL ends.
- The loss of the master cancels the syncers (`DropboxFileServerMasterNet.java:138`).
  `stop` forgets the thread, so the `join` in `cancelSyncer` waits for nobody
  (`ThreadBase.java:87`), the list is cleared (`ClientNode.java:70`), and a second syncer
  is accepted while the first still applies the stream it was reading, although the
  account is to have one. The old stream may then overwrite a newer version on the
  server (`overlap`), and the two may meet a file that the other
  has just deleted or changed (`SyncerMeddled`).
- A file is written as its length (`SyncStreamWriter.java:125`) and then its bytes up to
  the end (178). An edit in between that changes the length puts the stream out of step
  (`garbled`). The reader skips heads it does not know (`DropboxFileServerSyncer.java:84`
  has no else) and both sides wait for ever with the connection open; or it ends with
  an exception that `run` does not catch (147), and its connection stays open and its
  place on the list taken.

S5FS and VFS:

- create, mknod and mkdir assert that the name does not exist, looked up before they
  wait for the directory's mutex: two processes that make one name stop the kernel
  (`s5fs.c:454`). The asserts of mkdir on its first block and on the parent's link
  count fail when another process frees blocks or removes the parent.
  `AssertsHoldAlone` shows that only overlapping calls reach them.
- `do_unlink` tests for a directory before it waits (`vfs_syscall.c:468`): it can
  remove a directory made meanwhile, and the parent keeps a link too many (`raced`).
- rmdir reads the size of the directory without its mutex (`s5fs.c:812`): an entry
  made meanwhile is lost with it, and so is one made in a removed working directory
  (`stray`); the `..` of a removed directory may name a free inode, and vget panics.
- `s5_write_file` ignores that `pframe_dirty` found no block (`s5fs_subr.c:261`) and
  reports success, against "on failure, return -errno"; the page is lost when it is
  evicted. A write up to exactly the largest size fails (235).
- `s5_read_file` returns `len` past the end of file in its branch for several pages;
  `do_read` and `do_write` add a negative result to the position.
- `s5_seek_to_block` makes the indirect block even with `alloc` 0.
- `do_link` and `do_rename` never succeed: they require that the source is a
  directory and compare with `ENOENT` instead of `-ENOENT` (`vfs_syscall.c:518`, 542).
- `vget` clears `VN_BUSY` without waking those that found the vnode busy
  (`vnode.c:194`).
- `s5_inode_blocks` does not count the indirect block, although its comment says so,
  and reads block 0 where there is none.

Ray tracer:

- The cube test of the CPU compares with `>= 0.5 + EPSILON` where the device's has
  `<=`, on five of six faces (`cube_intersect.cpp:65`, 72, 79, 93, 100). It misses
  these faces inside and hits their planes outside of the cube, so that the CPU's
  walk agrees neither with the device nor with its own loop over all objects. The
  walk itself is the same code on both; `KdTree` has the device's cube test.
- `allocateMem` writes one `ObjectNode` past the array (`kdtree.cpp`, the `setNext`
  after the loop), the leaf return of `subdivide` leaks its three arrays, and nothing
  checks `KDTREE_ARRAY_SIZE`.

## 8. Not modelled

- Snowcast: listening sockets and address lookup, the text of replies, the reading
  of song directories, announcements that change no state; the listener.
- Uthread: the system calls behind `interpose.c`, the test programs.
- Dropbox: what a side may build from a stream that is out of step (nothing but type
  correctness is claimed afterwards); names of paths that arrive in pieces, for which
  `SyncStreamParser` does not wait (75, 125); the listener of a file server that is
  restarted before its predecessor, between its look at the list and its addition
  (`DropboxFileServerClientNet.java:153`, 164), has ended; priorities and printing; the
  handler that tells a client the address of
  its file server, which changes nothing; paths that change between file and
  directory, equal modification times, nested directories.
- S5FS: umount, readdir, stat, lseek and positions, the bytes of data files, busy
  vnodes, eviction of a directory page that has no block, paths that are too long.
  The kernel around it (processes, scheduling, memory, devices, ramfs, pipes) is
  given code; of it only `vnode.c`, `file.c` and the eviction of pages are in the
  model, as far as the calls use them.
- Ray tracer: rounding; spheres, cones and cylinders and their boxes; shading and
  textures, the OpenCL host code, OpenGL and Qt. They compute numbers, which TLC
  cannot check, or draw them.

## 9. Plan

1. Proofs: lemmas on `S5Blocks` (allocating and freeing keep the blocks of the chain
   and of the inodes apart), as the first part of `BlocksExact`.
2. Snowcast: several control clients composed with the server's select loop, half
   lines included.
3. S5FS: positions and bytes of data files against an abstract file.
