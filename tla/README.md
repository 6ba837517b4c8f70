# Verification of the operating-systems projects

The repository holds four projects of an operating-systems course and short
reading exercises, in C (and one server in Python).  This directory models the
parts of them that keep state and are hard to test, in TLA+: TLC checks the
models on small instances, TLAPS proves theorems for instances of any size.

    tlc -workers 2 -config pqsh.cfg MCPQSH.tla     # one run, see PROJECT.json
    tlapm RequestQueueProofs.tla                   # the proofs, see section 4

Paths below are relative to `src/`, and inside a section to its project.

## 1. Inventory

### Project 02: message queue (`project02/project02`)

| part | state | operations | interacts with |
|---|---|---|---|
| request queue, `src/queue.c` | `head`, `tail`, `size`, `running`, `next` of each request, a mutex and a condition variable | `queue_create`, `queue_push`, `queue_pop` (with a timeout), `queue_shutdown`, `queue_delete` | threads of the client |
| client, `src/client.c`, `src/request.c` | `running`, two request queues, two threads | `smq_create`, `smq_publish`, `smq_subscribe`, `smq_unsubscribe`, `smq_retrieve`, `smq_running`, `smq_shutdown`, `smq_delete`; the pusher and the puller | the server over HTTP (libcurl with a timeout), the program above it |
| server, `bin/mq_server.py` | topics' subscriptions, a queue per client | PUT topic, PUT and DELETE subscription, GET queue (polls until there is a message) | clients |
| saichat, `src/saichat.c` | message history (`msgCount`, `offset`, a ring of messages, a mutex), window, input line | a main thread (commands, arrow keys) and a background thread (retrieves, adds to the history) | the client's API |
| crypto and `utils/` | none | an easter egg on OpenSSL, offline tools | - |

Hard: four threads per client and a server handle the same messages in any
order; a signal is sent outside the mutex; shutdown wakes nobody; a request
that timed out at the client may still be served.  Correct means: the queue
looks atomic to its callers, nobody sleeps while there is work, requests have
one owner, no message is delivered twice or overtaken, shutdown ends, and
nothing is used after it was freed.

### Project 01: process queue shell (`project01/project01`)

| part | state | operations | interacts with |
|---|---|---|---|
| process queue, `src/queue.c` | `head`, `tail`, `size`, `next` of each process | `queue_push`, `queue_pop`, `queue_remove` | scheduler |
| scheduler, `src/scheduler*.c` | policy, cores, three queues (running, waiting, finished), event bits, turnaround sums | `scheduler_add`, `_wait`, `_next` (FIFO or round robin), the two signal handlers | processes, shell |
| processes, `src/process.c` | pid, times | start (fork and exec), pause (SIGSTOP), resume (SIGCONT) | the kernel |
| shell, `src/pqsh.c` | - | main loop: `fgets`, event checks, commands add, status, quit | the user, SIGALRM of the timer, SIGCHLD |
| options, timestamps, `decrypt.c` | none of their own | flags, clock, easter egg | - |

Hard: signal handlers run between any two steps of the loop and share `event`
with it; a child can end, and be reaped, while its structure is in any queue;
the same process goes through start, pause and resume many times; fork and
kill can fail half-way.  Correct means: queues, structures and the kernel's
processes agree, as many children run as there are cores and no more, processes
start in order and once, every ended child is accounted for, and under round
robin everybody gets a turn.

### Project 03: memory allocator (`project03/project03`)

| part | state | operations | interacts with |
|---|---|---|---|
| blocks, `src/block.c` | headers in the heap, the break | allocate, release, detach, merge, split | `sbrk` |
| free list, `src/freelist.c` | circular doubly-linked list through the headers | search (first, worst, best fit), insert with merging, length | blocks |
| POSIX calls, `src/posix.c` | - | `malloc`, `free`, `calloc`, `realloc` | the caller |
| counters, `src/counters.c` | `Counters[]`, `DumpFD` | fragmentation, dump at exit | free list |

Hard: long sequences of legal calls; address arithmetic at boundaries (split,
merge, end of heap); links that go stale; arithmetic on `size_t` that wraps.
Correct means: the blocks tile the heap, the free list is exactly the free
blocks, sorted and fully merged, and no call touches a block that another
caller holds.

### Project 04: simple file system (`project04/project04`)

| part | state | operations | interacts with |
|---|---|---|---|
| disk, `src/disk.c` | file descriptor, counters | open, close, read, write of a block with bounds checks | file system |
| file system, `src/fs.c` | superblock copy, bitmap of free blocks (in memory); inodes, pointers, data (on disk) | debug, format, mount, unmount, create, remove, stat, read, write | disk, shell |
| shell, `src/sfssh.c` | - | commands; `copyin` and `copyout` move files block by block | file system |

Hard: a crash between two block writes; the bitmap kept in memory only; writes
that fail half-way; offsets that are not block-aligned; a disk with more than
one inode block.  Correct means: no block has two owners, the bitmap agrees with
the inodes, what was written is read back, and remounting loses nothing.

### Exercises (`reading01` ... `reading11`, `exam02`)

| part | state | operations | interacts with |
|---|---|---|---|
| bounded queue, `reading05/queue.c`, `exam02/queue.c` | an array as a ring, `reader`, `writer`, `size`, a mutex, two condition variables | `queue_create`, `queue_push`, `queue_pop`, `queue_delete` | main and the workers of a pool |
| hashers, `reading02` to `reading06`, `reading11`; downloads, `exam02` | counters of failures, semaphores (`reading06`) | main and its children, threads or pool | files, the exit status |
| the rest | none | print answers; translate an address by a fixed table (`reading08`, `reading09`) | - |

Hard: the sentinel that ends the workers is never taken out of the queue, and
each push wakes one thread at most; workers that stop early; a counter shared by
threads; the limit of a semaphore and of an exit status.  Correct means: each
file is hashed once, in order and within the limit where there is one, every
failure is counted, and the program ends.

## 2. Modules

| module | models | composes |
|---|---|---|
| `RequestQueue` | `project02/.../src/queue.c`, every critical section, wait, timeout and signal a step | refines `AtomicQueue` |
| `AtomicQueue` | what `queue.h` promises: one step per call | - |
| `RequestQueueProofs` | theorems about `RequestQueue` and the proof that it implements `AtomicQueue` | extends `RequestQueue` |
| `SMQ` | client, the program above it, server | assumes the queue to be what `AtomicQueue` says |
| `SMQProofs` | theorems about `SMQ` | extends `SMQ` |
| `ProcessQueue` | `project01/.../src/queue.c`, operators on a queue and the `next` pointers | - |
| `PQSH` | main loop, scheduler, processes, children, signals | extends `ProcessQueue` |
| `PQSHProofs` | theorems about `PQSH` and the linked queues of `ProcessQueue` | extends `PQSH` |
| `Malloc` | `project03`: blocks, free list, POSIX calls | - |
| `MallocProofs` | theorems about `Malloc` | extends `Malloc` |
| `SimpleFS` | `project04`: file system over the disk, as the shell calls it | refines `FileStore` |
| `FileStore` | files of words, one step per call | - |
| `SimpleFSProofs` | theorems about `SimpleFS` and the proof that it implements `FileStore` | extends `SimpleFS` |
| `BoundedQueue` | `reading05/queue.c` and `exam02/queue.c` | - |
| `Hashers` | the seven programs `reading02` to `reading06`, `reading11` and `exam02` | extends `BoundedQueue`; refines `HashFiles` |
| `HashFiles` | what these programs do with the files, whatever their means | - |
| `HashersProofs` | theorems about `Hashers` and the proof that it implements `HashFiles` | extends `Hashers` |
| `Chat` | `project02/.../src/saichat.c`: history, offset, window | - |
| `ChatProofs` | theorems about `Chat` | extends `Chat` |
| `Induction` | induction on the natural numbers, remainders and quotients, for the proofs | - |
| `MC...` | values of the constants for TLC | - |

Each module first declares constants, named assumptions and state, then the
operations; properties come last.  Operators marked `Slip` are plausible
mistakes in the code.  Nothing in a specification uses them: put in the place of
the definition they are named after, each makes TLC refute a property, which
shows that the property can tell the difference (`mutants` in `PROJECT.json`).

### RequestQueue, AtomicQueue

State: the fields of `struct Queue`; `next` by address; `live`, the requests
that are allocated; `mutex`; `pc`, `req` and `expired` of each thread.  A call
is split where another thread can see the difference: the call, the lock, the
critical section with its unlock, the signal after the unlock, the wait, the
timeout, the relock.  `expired` stands for the absolute deadline that
`queue_pop` computes once.  POSIX allows spurious wake-ups, hence
`SpuriousWakeup`.  Addresses are reused after `request_delete`, so stale
pointers alias live requests as they do in C.  The closer shuts the queue down,
more than once if it likes, and deletes it when all threads have exited.  The refinement mapping
reads the list from `head` along `next` (`Items`) and maps the program counters
to the state of a call (`CallOf`).

### SMQ

Per client the main thread, the background thread, the pusher and the puller;
the exchanges that the last two have under way; at the server subscriptions,
known queues and messages.  A client that times out leaves a request that the
server may still serve (`orphanPuts`, `orphanGets`), at most `MaxOrphans` of
them.  The server's handlers are atomic because Tornado runs them on one
thread; the polling GET is enabled when it has an answer.  There is one topic.
`published`, `received` and `accepted` are histories for the properties.

### ProcessQueue, PQSH

A queue operation yields a queue and new pointers; the pointers of all
processes are one function because a structure lost from one queue can be linked
into another.  `PQSH` takes one step of the main loop between two points where
a handler may run: one turn of each `while`, one check of `event`.  `os` is the
kernel's view of a child (`none`, `run`, `stop`, `zombie`, `reaped`), `pending`
the signals not yet delivered.  A signal interrupts `fgets` only while it is
blocked.  Stopping and continuing a child raise SIGCHLD too, since the handler
is not installed with `SA_NOCLDSTOP`.  `options` is chosen in `Init`, as the
command line chooses it.  `children` counts the forks of each process, and
`astray` remembers that a process was pushed onto a running queue whose tail had
been removed from it (`TailRemoved`): from there on that queue's size counts a
process that cannot be reached.

### Malloc

`heap` is what lies between the start and the break: the header of each block
under its address, and the two counters that go down as well as up.  `Header`,
`Unit`, `Threshold` and `Wrap` are `sizeof(Block)`, `ALIGNMENT`,
`TRIM_THRESHOLD` and the number of values of a `size_t`.  A call is one step:
there is one thread and no lock.  `block.c` and `freelist.c` are operators
on a heap that `posix.c`'s actions put together.  `sbrk` grows the heap up to
`Limit`, and may refuse to shrink it, which leaves the block to the free list
(`Freed`).  `live` and `asked` are the
callers' side.  `calloc` is `malloc` as far as blocks are concerned; data
bytes are left out.

### SimpleFS, FileStore

`inodes` and `disk` are what the image holds, `mounted` and `free` what the
program keeps in memory (`fs->disk`, `fs->free_blocks`).  A block is a function
from word to number, which is data or a pointer as the reader takes it, like
`union Block`.  A call is computed as a course: the states before each
`disk_read` and `disk_write` (`cuts`) and the one at its end.  The loops of the
code are recursive functions over block, inode or slot numbers (`FormatAfter`,
`MountAfter`, `RemoveAfter`, `WriteAfter`).  The call ends there
(`Completes`), returns early with what it has done so far because an operation
failed (`Fails`), or the program is killed at one of these points and starts
again without a mounted disk (`Killed`).  The superblock is written by no
function of `fs.c` (`fs_format` starts with block 1), so `Init` is an image that
has one, as those in `data/`.  Inode numbers are those of the table:
`load_inode` does not check them, and takes an inode with a larger number out of
a data block.  `fs_write` does not check either that a write ends within the
pointers of an inode and its indirect block (`fs.c:519` indexes past the array
then).  That is undefined behaviour, which the model leaves out: `MaxSize` bounds
where writes end, and `BoundsAssumption` says that callers keep to it.  So it is
no result that sizes stay in reach.  The refinement mapping is what `fs_read` returns for each whole
file (`File`), where a pointer that is 0 leads to block 0, the superblock.
`FileStore` says which files an interrupted call may change, and to what.

### BoundedQueue, Hashers, HashFiles

`queue` has the fields of `struct Queue`, `asleep` the threads in `cond_wait` by
condition variable.  Both functions signal while they hold the mutex, so a
critical section is one step: it either goes to sleep or takes effect and wakes
one sleeper.  Spurious wake-ups are allowed.

`setup`, chosen in `Init`, says which program runs on which command line; `bad`
are the files that cannot be hashed.  main goes through its loops one iteration
at a time (`create`, `push`, `sentinels`, `join`).  A worker is a child process
(`reading03`), a thread per file (`reading04`, `reading06`) or a thread of a pool
(`reading05`, `exam02`).  `sha1sum_file`, or a download, begins and ends in two
steps, since the others run meanwhile.  `Failures++` is a load and a store
between the two semaphore operations.  A `pthread_create` that fails in
`reading06` is tried again and changes nothing; in `reading05` and `exam02`
`PTHREAD_CHECK` ends the program (`ForkFails`), and so does a worker of `exam02`
whose `curl_easy_init` fails (`CurlInitFails`); the other threads end with it
(`Alive`).  `reading04` does not look at the result of `pthread_create`, and joins
what it did not create: that is left out.  `reading11` is a loop over the files that its walk
comes to; a directory that cannot be opened counts like a file that cannot.

`HashFiles` knows only the state of each file and the exit status.  The mapping
(`StateOf`, `Terms`) reads off who is hashing what.  `Terms` records in what the
programs differ: the limit, the order, whether the program may give up because it cannot set
up a worker, and whether its exit status counts the failures.  That of `exam02`
does not, against its README, so `HashFiles` promises no status for it.

### Chat

The chat's mutex is held from the change to the end of the repainting, so a step
is a critical section of the background thread (`Receive`) or of the main thread
(`KeyUp`, `KeyDown`).  A message is its number, an empty message in a slot that
was never written is `NULL`.  `Wrap` is the number of values of a `size_t`:
`msgCount - MAX_MSG_HISTORY` wraps for the first messages.  `scrolled` is a
history of the keys for the property.  The other keys do not touch the chat.

## 3. Runs

| run | bounds | shows |
|---|---|---|
| `rq_safety` | 2 producers, 2 consumers, closer, 3 addresses | `TypeOK`, `MutexOK`, `ListOK`, `OwnershipOK`, `NoLostWakeup`; refinement of `AtomicQueue` |
| `rq_liveness` | 1 producer, 2 consumers, 2 addresses | a pop returns when there are requests, or after shutdown; a push never blocks for good |
| `smq` | 1 client subscribed to its own topic, 2 messages, 2 (un)subscriptions, 1 orphan of each kind | no duplicates, order, only timeouts take messages away, shutdown ends, nothing is used after `smq_delete` |
| `pqsh` | 3 processes; FIFO on 1 core and on 2, round robin on 2 | queues, cores, order, one fork each, pause never fails, cores are filled, everyone gets a turn; under FIFO on 2 cores what is said of queues, order, metrics and filled cores ends with the first push behind a removed tail |
| `malloc` | 5 minimal blocks, sizes 0, 1, 4, 5 and 8, all three fits | tiling, free list, merging, sizes, other callers' blocks |
| `sfs` | 2 inodes, 1 direct pointer, 2 words per block; 3 data blocks with failing `create` and a kill in a mount, create or removal, or 6 with failing `format` and a kill in any call | no block with two uses, bitmap, refinement of `FileStore` |
| `jobs` | 3 to 6 files, pools of 2 and 3, queues of 2 to 4, any subset of the files fails (`reading05`: all workers but one); exit statuses below 3 | indices and sizes of the ring; refinement of `HashFiles` (status of all but `exam02`); every program ends |
| `chat` | history of 5, window of 4 rows, 24 messages | what the window shows, and that it follows the newest message except while `StandsStill` |
| `pqsh_leak` | FIFO on 2 cores, 4 processes | violation: the stale tail of the running queue leaves a core idle |
| `pqsh_lost` | FIFO on 1 core, 2 processes | violation: a SIGCHLD between check and reset is forgotten |
| `sfs_garbage` | 2 inodes, 3 data blocks, one kill in a write | violation: old data is taken for pointers |
| `jobs_stuck` | `reading05` with its own 2 threads and queue of 4, 5 files of which 2 fail | violation: main stays in `queue_push` |

Why the bounds are enough.  In `rq_safety` both roles race with themselves and
with each other, the list reaches three requests (head, middle, tail) and
addresses are reused.  `smq` has enough messages for one to overtake or repeat
the other, and orphans at the same time as later requests.  In `pqsh` round
robin always leaves a third process waiting, and FIFO on two cores loses the third
behind the tail that the second has left, so both sides of `astray` are reached.
In `pqsh_leak` a fourth process is what stays waiting then while a core is idle.  In
`malloc` five blocks make every mixture of held and free neighbours, the sizes
split with and without a rest, and `Threshold` lies between the capacities, so
that the heap both keeps and gives back its last block.  In `sfs` files reach
into the indirect block, and the small disk gets full before each of the three
allocations of a write; the large one has room for two files of the largest size
and is there for the kills, since a kill in a write on a disk that gets full is
where the code fails (`sfs_garbage`).  Failing writes, removals and mounts are
left out of `sfs` for that reason, see the hazards.  In `jobs` the queue gets
full and its indices come round, main and workers sleep at the same time,
`exam02` has as many workers as the queue has cells, which is the most that
works, and with `ExitCodes` at 3 three failures give the status of none.  In `chat` the
history is overwritten nearly five times, while its window has changed its
behaviour for good after the second.  Bounds in the guards:
`Request`, `Process`, `Message` and `Sizes` as given by the constants,
`MaxQueries`, `MaxOrphans`, `Limit`, `MaxSize`, `MaxKills`, `MaxMessages`, and
`Setups` with the numbers of files.  `CHECK_DEADLOCK FALSE` is said where the
program ends: after `queue_delete`, `smq_delete`, `quit` and main's return.
`Malloc`, `SimpleFS` and `Chat` never end and are checked for deadlock.

### Fairness

* `RequestQueue`: a thread inside a call keeps running (weak), a mutex that is
  free again and again is obtained in the end (strong; otherwise no POSIX mutex
  user could be live), deadlines pass.  Nobody has to call anything.
* `SMQ`: the threads of a client keep running; a request is answered or times
  out.  Nothing is assumed of the server or of the network.
* `PQSH`: the loop runs and signals are delivered.  The timer's period is long
  against a pass of the loop, which blocks in `fgets` most of the time; so
  ticks that find it blocked do come, and some of them interrupt it (strong),
  even if the user types often.  Children need not end.
* `Hashers`: main and every worker keep running (weak), and a hash ends.  Weak
  fairness is enough for the semaphores, since every worker posts once; nobody is
  woken but by a signal, since spurious wake-ups are allowed and not assumed.
* `Malloc`, `SimpleFS` and `Chat` have no fairness: no property of theirs is a
  liveness property.

### Disagreements of code and documentation

They are listed under `findings` in `PROJECT.json` with the lines quoted: the
stale tail after `queue_remove` (`project01`), SIGCHLD lost at
`s->event = EVENT_INPUT`, an indirect block that is saved before it was written,
and main of `reading05` blocked when its workers have stopped.  More that were
met on the way have no run of their own:

* under round robin a child that ends just before its pause is reaped while its
  structure waits, and is neither finished nor counted (`scheduler.c:124`);
  `FifoReapedCounted` is what does hold;
* a message that the server pops for a GET that was given up reaches nobody
  (`mq_server.py:72`); `TakenOnlyByTimeouts` says that this is the only way;
* `fs_create` returns the index within a block of inodes, which is another
  file's number from the second block on (`fs.c:266`);
* "Move the chat offset if [...] the offset is tracking the most recent message"
  (`saichat.c:288`): `offset == msgCount` is compared after `msgCount` went up and
  is never true.  The window follows all the same while the difference wraps, for
  999 messages, stands still from the 1000th to the 1998th, and follows again
  since it reads overwritten slots.  `FollowsNewest` claims the following, in both
  places, and nothing of the messages between them (`StandsStill`), where the code
  contradicts the comment; the comment on `saichat.c:188` says itself that the
  history is shown incorrectly once there are more messages than it holds;
* `exam02` always exits with 0 when it gets to its end (its workers return `NULL`,
  `program.c:64`, so `program.c:115` sees no failure), while `exam02/README.md:29`
  asks for a failure if a download fails.  No property claims either: the status of
  `exam02` is left open in `HashFiles`.  With more workers than its queue has cells
  it never ends;
* a removal or a mount that fails half-way leaves a bitmap that marks blocks free
  which files use (`fs.c:310`, `fs.c:162`); no passing run and no theorem lets them
  fail;
* `queue_pop` of `project02` computes its deadline once, so from the second wait
  on it polls without sleeping, and a timeout that is no whole number of seconds
  may give it an invalid `tv_nsec`;
* `ALIGN` wraps to 0 for sizes next to `SIZE_MAX`, so `malloc` fails its own
  assertion;
* `fs_write` copies too much for an offset inside a block (`fs.c:477`), which the
  shell never asks for.

## 4. Proofs

    for m in Induction RequestQueueProofs SMQProofs PQSHProofs MallocProofs SimpleFSProofs ChatProofs HashersProofs
    do tlapm $m.tla; done

A theorem holds for every value of the constants that meets the named
assumptions of the modules: `NULL` is none of the threads, requests, processes,
messages or files; the closer is neither producer nor consumer; threads and
processes are finitely many; a window is no larger than its history; the
number of cores is a natural number.  Each module of proofs has an inductive
invariant, a lemma for each action that it keeps it, and theorems that draw the
properties from it.  TLC checked each inductive invariant on the instances of
the runs before it was proved.

### The request queue

`RequestQueueProofs`: `TypeCorrect`, `MutexCorrect`, `ListCorrect`,
`OwnershipCorrect` and `WakeupCorrect` state all five invariants of the run
`rq_safety`, `QueueImplementsAtomic` its refinement.

None of type, mutex and list is inductive alone: `size' \in Nat` after a pop,
and the type of `head` after following `next`, need the list; the list needs
mutual exclusion and that a request about to be pushed is allocated, not in the
list, owned by one thread and has no successor.  `IInv` is the conjunction of
these.  `ListOK` says that *some* sequence is the list; a push appends to that
sequence and a pop drops its first element, which are the two witnesses the
proofs build.  `OwnershipOK` adds that, while the queue
runs, what is allocated is in the list or in a thread's hands (`Accounted`).
`NoLostWakeup` is a comparison of two counts, and inductive with `TypeOK`: each
step changes the requests and the threads that are awake by one at most, which
is where threads have to be finitely many.

The refinement is proved step by step: `CallOf` of the thread that moves changes
as the abstract call does, `CallOf` of the others stays, and `Items`, the
sequence that is read off from `head` along `next`, is the sequence of `ListOK`.
That takes induction along the list (`Induction`): the recursive function that
walks the list has one value, and the list's sequence is a solution of its
equation.

### Clients and server

`SMQProofs`: `SMQTypeCorrect`, `NothingAfterDelete`, `DeliveredOnce`,
`DeliveredInOrder` state the four invariants of the run `smq`, `NothingElseLoses`
its action property.  The order is that of the messages of one author; what the server
served only after its author had given up on the request may come late, and neither
`AuthorOrder` nor the theorem says anything of it.

`ThreadInv` ties the control locations to exchanges and to the stages of the
shutdown.  For duplicates and order, `HistoryInv` says what became of the
messages.  Three places count: the `Line` of a client (the request being sent,
then the outgoing queue), the requests it has given up (`orphanPuts`), and the
`Trail` of a receiver, from what its program has received back to the server's
queue.  A publication in the line was never served, is not among those given up,
stands in the order of publication, and was published after all of its author's
that were served while the author waited (`LineInv`).  One that was given up is
served once at most (`OrphanInv`), and what is on a trail was served
(`ServedInv`).  With these a message that is served is new on every trail and
comes after what it has to come after; every other step moves the head of one
station to the end of the one before it, or drops it, which leaves a trail
as it was or takes something out of it (`LeftOf`).

### The process queue shell

`PQSHProofs` states all seven invariants and both action properties of the run
`pqsh`: `ShellTypeCorrect`, `QueuesCorrect`, `CoresRespected`, `StoppedOnesWait`,
`PauseNeverFails`, `StartedInOrder`, `ReapedAreCounted`, `OneChildEach`,
`FifoUsesAllCores`.  Both policies may have any number of cores, and nothing is
assumed of them.  Five hold whatever happens: the types, one fork per process, no
more children than cores, stopped children wait, a pause finds a child.  The other
four (`QueuesOK`, `StartOrder`, `FifoReapedCounted`, `FifoFillsCoresAtFirst`) are
claimed while `~astray`, since FIFO on two cores or more breaks them by the first
push behind a removed tail (`pqsh_leak`); `QueuesOK` adds that no such push is made
under round robin or on one core.

The lemmas about linked queues (`PushChain`, `PopChain`, `RemoveChain`) say what
`queue_push`, `queue_pop` and `queue_remove` do to a queue that is a chain of
processes; `ChainMembers` that a walk meets exactly the chain, so that size and
members agree.  `queue_push` needs the tail to be the last of the chain, which
`queue_remove` does not preserve.  Hence the heart of the invariant
(`Queues`): the tails of the waiting and the finished queue are right always,
that of the running queue only while round robin fills the cores, since the
pauses before have emptied it.  FIFO pushes onto whatever it finds, which on one
core is an empty queue; on more, the tail is the last of the chain or outside of the
queue (`LastOK`), and the second case is what `astray` records.  `Children` says what a structure's queue tells about its child,
`OrderInv` that unstarted processes wait in the order in which they were added
and behind no one who was added later.  Together they are `Sound`, which holds until
a push goes astray.  What FIFO keeps even then is `Kept`: the waiting queue is a chain
of processes that were never started (no pointer from elsewhere leads into it), and
the sizes of the other two, whatever became of their links, count no more than the
processes outside of it.

### The allocator

`MallocProofs` states all five invariants and the action property of the run
`malloc`: `TypeCorrect`, `TilingCorrect`, `FreeListCorrect`, `CoalescingCorrect`,
`SizingCorrect`, `CallsAreCareful`, for a heap, headers and an alignment of any
size and each fit.  They assume `Ordinary`: no size asked for is so near the end
of `size_t` that `ALIGN` wraps to 0 or the sum with the header turns negative.
It is needed, see the disagreements above and the hazards; the constants of the
run meet it.

Most of the work is to see what the operators of `block.c` do to a heap one
header at a time (`DetachView`, `MergeView`, `SplitView`, ...).  On top of that
each operator keeps the heap in order (`DetachKeeps`, `MergeKeeps`, ...), which
`HeapOK` says of a heap, the blocks `L` that are held, and the free blocks `P`
that may have a free neighbour:

* `Tiled`: each block ends where a block, or the break, begins, and none reaches
  over the next.  `HeapTiled` says the same of sets; this form is kept from
  block to block, and `GeometryHolds` derives from it that a block has one
  neighbour on each side.
* `Ring`: `next` leads to the least free block that is higher, and `prev` back.
  This needs no walk, so a change of links is a change at two places
  (`RingWith`, `RingWithout`).  `FreeListOK`, which is about the walk, follows:
  the i-th step leads to the block with i blocks up to it (`WalkRank`, by
  induction), hence the walk meets every free block once (`WalkOfRing`).
* `Apart`: no free block ends where another begins, but for those in `P`.
  Between the steps of a call `P` is not empty: a split leaves the block that is
  about to be taken out of the list next to its rest, and linking a block in may
  make two adjacencies, of which each merge removes one.  Two merges are enough
  because a free neighbour is always the next or the previous one in the list
  (`AdjacentIsNext`).

A search returns a block that is large enough, or none is (`SearchFinds`, for the
three fits).  With `Sized` this is the inductive invariant `IInv`, checked by TLC
on the instance of the run.

### The file system

`SimpleFSProofs` states everything that the run `sfs` checks: the three invariants
are `FilesTypeCorrect`, `BlocksApart` and `BitmapCorrect`, and `FilesStored` is the
refinement of `FileStore`, for blocks, tables, disks and files of any size.  They
all assume `Careful`, and say nothing of the disks and calls it excludes: only `format` and `create` return
early, since a mount, removal or write that does leaves a bitmap that does not
agree with the disk (see the hazards); and unless the disk has room for as many
of the largest files as there are inodes (`HasRoom`), no write and no format is
cut off (`LeavesNoData`).  It is needed, since `fs_write` saves the inode after the
data: a write that is killed leaves data in a block that is still free, a later
write on a disk that is just full makes that block an indirect block without
having filled it, and the data is taken for pointers (`sfs_garbage`).  Both
disks of the run `sfs` meet `Careful`, one by each alternative.

The inductive invariant `IInv` is about the disk between two calls (`Sound`), and
says of the bitmap what `BitmapOK` does:

* `Typed` and `InRange`: every pointer, also those behind an indirect block, is 0
  or a block behind the table.
* `EmptyUnlessValid`: an inode that is not valid holds no pointer, so
  `fs_create` may turn one valid by its flag alone, and `fs_mount` may skip it.
* `Apart`: two slots, of one inode or two, hold the same block only if it is 0.
* `CleanOutside`: blocks that no file uses hold zeros.  A new indirect block is
  saved in the inode even if the disk is full before the first pointer is written
  to it; its words are pointers then, and have to be 0.  `NoSharing` is not
  inductive without it.
* `WithinReach`: on a disk with room instead, a file uses only the slots that its
  largest size needs, so there is a free block whenever a write looks for one
  (`NotFull`), and what is behind a new indirect block has been written.

Every state that a call goes through, and not just the last, has to be sound,
because a kill makes any of them the state of the disk.  A step of `fs_remove`
takes a block's words before it sets its bit, so the pointers that an indirect
block holds disappear with it (`Shrinks`); a mount only reads, and its bitmap
loses what it has come to.  For `fs_write` the inode on the disk is that of the
beginning until the end, and the blocks that have been handed out are no file's
yet.  What is kept from block to block (`Progress`) is that the disk would be
sound if the inode were saved now (`WriteSound`); a kill leaves the old inode
with the new blocks (`CutSound`), which share no block either because a new
pointer behind an old indirect block is written before its data.  A step hands
out one block or two (`Gains`), and the slots that get them had 0
(`GainsDirect`, `GainsIndirect`, `GainsBehind`).

`FilesStored` takes the same invariant and that block 0 holds the superblock
(`FileInv`), which is what a lost pointer reads.  Each call maps to the steps of
`FileStore` that bear its name, or to none: `FormatStores`, `MountStores`,
`CreateStores`, `RemoveStores` and `WriteStores`, put together in `NextStores`.  A
file is what is read through the pointers of its inode (`FileOf`), and an inode
whose size stays and whose blocks read the same is the same file (`SameFile`).  So:

* A format or a removal frees blocks.  What is freed is `Blanked`, which changes
  nothing that another inode reads (`BlankedReads`, from `Apart`); an interrupted
  removal leaves, block by block, what was there, zeros, or the superblock behind
  an indirect block that is gone.
* A write carries along what the file is to read once the inode is saved with the
  pointers it has in memory.  `Planned` is that, block by block, as `fs_write`
  computes it; `Reads` says that it is what the disk holds after `m` blocks, with
  every other file as before, and is part of `WriteSound`.  What a kill leaves is
  seen through the old inode instead: each slot it had reads as after some number
  of blocks (`CutReads`, for all the points of the call `WriteCuts`), and those it
  had not lead to the superblock.
* That blocks are words in the order that `FileStore` says is arithmetic:
  a word `w` is number `(w - 1) % Words` of block `(w - 1) \div Words`, and
  belongs to the data, to the zeros behind it in the last block or to the old file
  (`WordWritten`).  With it the planned blocks hold the words of `Written`
  (`PlannedWords`), however far the disk let the write get (`Through`).

### The file hashers

`HashersProofs`: `TypeCorrect` states the invariant of the run `jobs`,
`FilesHashed` its refinement of `HashFiles`, for any set of programs and command
lines (`Setups`), and so for any number of files, workers and cells of the queue.
`FilesHashed` assumes `SomeoneIsLeft`: `reading05` has more workers than there are
files that fail.  It is needed, since a worker of `reading05` returns at its first
failure: with as many failures as workers nobody empties the queue any more, and
main waits for ever (`jobs_stuck`) or, if the rest fits into the queue, exits and
leaves files behind.

The inductive invariant `IInv` relates what main, the workers, the queue and the
counts say of the same files:

* `Located` and `Progress` say which steps the workers of a program can be at, who
  has been created, and that as many have been joined as main has counted;
* `Exclusive`: nobody hashes what somebody else hashes or has hashed;
* `Semaphores`: a semaphore and the workers between its `sem_wait` and its
  `sem_post` make up its first value, so at most one worker is between the load
  and the store of `Failures++`;
* `Counted`: the failed files are as many as the workers that will report one,
  or, in `reading06`, as `Failures` and the workers on their way to increase it;
* `OwnFiles`, `LoopFiles` and `PoolFiles` say which files are done.  With a queue,
  some first `k` files have been taken, the cells from `reader` on hold the next
  ones and then sentinels, and `k` plus the size is what main has pushed
  (`Taken`).  A worker that has returned 0 has seen a sentinel, which comes after
  all files.

The refinement maps the begin of a file to `Start`, its end to `Finish` and main's
return to `Exit`.  `BelowLimit` counts the files under way by the workers at work
on them (the pigeonhole principle), `InOrder` reads the order off the ring, and
`AllHashed` and `AllCounted` derive from the invariant that everything is done and
counted when the last worker has been joined.

### The chat

`ChatProofs`: `ChatTypeCorrect` and `WindowCorrect` state both invariants of the
run `chat`, `WindowShowsHistory` the first half of the second.

`TypeOK` is inductive.  When a message comes in, the slot it gets is that of the
message a whole history older, which is the only one that leaves the range
(`ModBack`).  Every action repaints before it gives the mutex back, so the
window always is the picture of the state (`Painted`); and two numbers less than
a history apart that share a slot are the same (`SameSlot`), so the slot of a
message that is still in range holds that message.  That the window follows the
newest message but for the time while it `StandsStill` follows from where the offset
is as long as no key is pressed (`Unscrolled`, kept by `StepLeftAlone`).
`StandsStill` includes one message more when the window is as large as the history.

### What is only model-checked

* All liveness (`PopReturnsWhenFilled`, `ShutdownEnds`,
  `EveryProcessGetsATurn` and so on): the prover handles neither fairness nor
  `ENABLED`.

What a recursive function computes can be proved here only by way of a set of
numbers, as in `Induction`; the library's own induction theorems take a
predicate, which the provers cannot instantiate.  No module declares a
RECURSIVE operator.

## 5. Plan

In this order; what is done is marked.

1. `RequestQueue` over `AtomicQueue` (done; all its safety proved).
2. `SMQ` over the atomic queues (done for one topic; all its safety proved).
3. `ProcessQueue` and `PQSH` (done; all their safety proved, on any number of cores).
4. `Malloc` (done; all its safety proved, for sizes below the wrap of `ALIGN`).
5. `SimpleFS` over `FileStore` (done; all its safety proved, for disks that meet
   `Careful`; runs where removals and mounts fail are left).
6. `BoundedQueue` and `Hashers` over `HashFiles` (done; all their safety proved, for
   `reading05` with more workers than failing files).
7. `Chat` (done; all its safety proved).

## 6. Not modelled

Crypto, PNG and offline utilities, option parsing, time stamps (but for which
processes are counted), terminal handling, the fragmentation formulas and the
counters that only count, and the exercises that print answers or translate one
address by a fixed table (`reading08`, whose limit is off by one at
`program.c:39`, and `reading09`): they have no
state over which an interleaving or a sequence of calls could go wrong.  The
client's threads are created before the mutex that they lock is initialised
(`client.c:40-42`): POSIX leaves open what that does, and `SMQ` starts behind it.
saichat gives its terminal back before it joins the thread that paints on it
(`saichat.c:446`), and both threads refresh windows without a common lock; what
ncurses makes of that is not modelled.  The
allocator under several threads is not modelled: it has no lock and claims
none.  In `PQSH` the timer is assumed to tick; a period of a second or more is
refused by `setitimer` and the shell goes on without one.
