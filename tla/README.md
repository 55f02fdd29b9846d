# A TLA+ verification of the WillOS kernel

WillOS is a small threading kernel for single-core ARM Cortex-M boards: a
priority list of threads, a scheduler that walks it on every yield (and, if a
timer is attached, on every timer interrupt), and the objects threads share:
mutexes, semaphores, a blocking queue, signal words. This directory holds
TLA+ modules translated from its sources (`src/OS`, `src/DS_HELPER`, and the
motion sensor of `src/HAL`), TLC
configurations that check them on small instances, and TLAPS proofs of the
properties that matter most for every value of the constants.

`PROJECT.json` lists the components, the runs, the theorems, the hazards and,
under `map`, the source lines behind every definition.

## 1. The system

### 1.1 Components

| Component | State | Operations | Correct when |
|---|---|---|---|
| **Thread kernel** `OS/OSThreadKernel.cpp/.h`, context switch in `OS/TeensyThreads-asm.S` | table `system_threads[24]`; list `thread_priorities`; `current_thread`, `current_thread_id`, `current_active_state`, `thread_count`; a stack per slot | `threads_init`, `os_add_thread`, suspend, resume, kill, kill self, return of a thread function, sleep, `_os_yield`, `os_stop`/`os_start`, timer switch | the scheduler always finds a thread and picks the best; no live thread drops out of the list; threads resume on their own stacks; a stopped kernel excludes other threads; ids of threads are accepted |
| **Mutex** `OS/OSMutexKernel.cpp` | state word | `tryLock`, `lock(timeout)`, `lockWaitIndefinite`, `unlock` | one owner; word and owner agree; every path restarts the kernel; waiters get the lock |
| **Semaphore** `OS/OSSemaphoreKernel.cpp` | counter, capacity | `tryEntry`, `entry(timeout)`, `entryWaitIndefinite`, `exit` | bounded entrants; the counter counts them; room wakes waiters |
| **Queue** `OS/OSQueueKernel.cpp` | ring, count, head, tail, two mutexes, `consumer_thread_ptr` | `init`, `push`, `pop`, `popBlocking` | first in first out, bounded, no lost wake-up, no wait while holding `queue_lock` |
| **Signals** `OS/OSSignalKernel.cpp` | word of 32 bits | `signal`, `clear`, `check`, `wait`, `wait_n_clear`, `wait_notimeout` | no signal lost on a waiter, none delivered twice, timed waits return |
| **Thread signals** `OSThreadKernel.cpp:785-915` | 32 bits per slot | set, clear and test, own or by id; wait with and without timeout | one signal has one taker; timed waits return |
| **Priority list** `DS_HELPER/priority_queue.cpp` | linked list; heap in an array | insert, pop, exists, peek, init, deinit | keep what was inserted; pop an element of highest priority |
| **Fast allocator** `DS_HELPER/fast_malloc.cpp`, `OS/OSFastMalloc.h` | list of blocks in a byte array | allocate, free, merge, locked wrappers | the list stays in order; users' memory is disjoint |
| **Containers** `DS_HELPER/queue.cpp`, `circular_buffer.cpp` | linked queue; rings of pointers and of characters | enqueue, dequeue; init, insert, deinit | first in first out; the latest values in order; writes stay inside |
| **Search trees** `DS_HELPER/*tree*` | nodes | insert, search, remove | what was inserted is found |
| **Drivers** `HAL/*` | device registers; the motion sensor's address and ranges | configuration, polling, bus transactions | samples counted once, sums that fit, ranges that agree with the sensor |
| **Error codes, build switches** `OS/error.hpp`, `enabled_modules.h` | none | none | constants |

### 1.2 How they interact

* Every blocking object writes into the caller's `thread_t` what it waits for
  (`flags`, `mutex_semaphore`, `semaphore_max_count`, `signal_bit`,
  `signal_bits_compare`, `previous_millis`, `interval`) and calls
  `_os_yield()`. Nothing but the scheduler wakes it: `os_get_next_thread`
  walks the list from its head, and `check_thread_flags` reads the object's
  word through the recorded pointer. `unlock`, `exit` and `signal` only change
  the word. So a wake-up and the waiter's second attempt are separate in time,
  and a thread that is never reached by the walk is never woken.
* The queue alone wakes a thread directly: `push` sets the flags of
  `*consumer_thread_ptr`.
* `os_stop()`/`os_start()` switch the kernel off and on; with the kernel off a
  yield does nothing. They keep no nesting count.
* The queue uses two mutexes; the allocator's wrappers use one.
* The kernel's list is a `PriorityQueuePointerNaive`, of which it calls insert
  and peek. The other structures of `DS_HELPER` have no caller in the kernel;
  the linked queue can take its nodes from the allocator.
* The motion sensor's driver polls and yields: the one driver during whose
  calls the application's threads switch.

### 1.3 What is hard here

Interleavings at every yield and, with a timer, at every instruction outside
stopped sections; wake-ups that are stale by the time the waiter runs; slots,
stacks and list nodes that are reused at different moments; a timeout racing a
release; waits that hold another lock; counters and indices at their limits;
starvation by the order of the list; long sequences of calls on lists, trees and
blocks; a device that changes between two bus transactions. `PROJECT.json` lists each under `hazards`
at its source line, with the properties about it.

### 1.4 Build configurations

`enabled_modules.h` defines `MUTEX_MODULE` only; semaphores and signals are
compiled in by defining their switches. No committed code attaches the timer
interrupt, so the committed build switches threads at yields only:
`Preemptive = FALSE`. The top-level README.md advertises preemption on the
Teensy 4, and the assembly for it is there: `Preemptive = TRUE`. Runs say which
one they use, and the code is held to each separately.

## 2. Modules

    PriorityList            where the list's insert puts a node
     |- OSThreadKernel      table, list, wake-up tests, switch, time (no Next)
     |   |- OSThreadLifecycle   threads come and go; stacks       -> life_*
     |   '- OSApplication       threads that use shared objects
     |       |- MutexLock       the sections of the mutex's code
     |       |   |- OSMutexKernel      implements AbstractMutex      -> mutex_coop
     |       |   '- OSQueueKernel      implements AbstractQueue      -> queue_*
     |       |- OSSemaphoreKernel      implements AbstractSemaphore  -> sem_*
     |       |- OSSignalKernel                                       -> signal_coop
     |       '- OSThreadSignals     the bits in the thread table     -> thread_signals,
     |                                                                bug_signalled_wait
     '- PriorityQueuePointerNaive  implements AbstractPriorityQueue --,
    PriorityQueuePointerHeap       implements AbstractPriorityQueue   |
    CircularBufferPointer          implements AbstractRecent          |
    PointerQueue, CircularBufferString, RedBlackTree, FastMalloc      |
     '- Containers          these seven, with what they share       <-'
    MPU6050                 the motion sensor and its driver
     '- MCLibrary           Containers and MPU6050 side by side           -> library

`MC<Module>` extends a module and declares the model values its `.cfg` uses;
`MCLibrary` puts the structures of `DS_HELPER` and the motion sensor side by
side, each execution using one of them; `Containers` states what the structures
share, the assumptions on their constants among it.
`<Module>Proofs` holds a module's theorems, `LibraryProofs` those of `Containers`
and `MPU6050`. An operator named `X_Suffix` and marked
*mutant* is a deliberately wrong variant of `X` which the modules never use:
putting it in the place of `X` must break the property it is listed with under
`mutants`, which shows that the property depends on the code it is about.

### 2.1 OSThreadKernel

`system_threads` is the table of slots, restricted to the fields the scheduler
reads. Slot 0 (`Main`) is `setup()`/`loop()`; slot 1 (`Idle`) is the idle thread
that `threads_init` creates; its body, which `src` does not define, is modelled
as one that only yields. `thread_priorities` is the list as a sequence of
`[ptr, priority]`, head first; `InsertNode` is
`PriorityQueuePointerNaive::insert` by `PriorityList`'s `InsertsAfter`, an equal priority being placed in front
when it beats the head and behind its equals otherwise, as the code does.

`CanWake` is `check_thread_flags` **as written**, including the comparison of a
pointer instead of the word it points to for timed mutex waits, `>=` for
semaphores and the logical `&&` for signals. `os_get_next_thread` takes the
first node of the list that is ready; if there is none it leaves the list
(`current_thread = NULL`), as the code follows a null pointer.

Time: `remaining` stands for `previous_millis` and `interval`; `Tick` lets one
millisecond pass. `millis()` wrapping modulo 2^32 is not in this abstraction.

The grain: a step is what no other thread can see half done. Where the kernel
is stopped that is the section from `os_stop()` to `os_start()`; elsewhere it is
a single access to shared state, so that `TimerSwitch` may come between two.
Two places are coarser than preemption: the list insertion (after
`os_add_thread`'s `os_start()`) with its counting, and what queue calls do to
the ring under `queue_lock`.

### 2.2 OSThreadLifecycle

What executes is a *stack*, not a slot: `psp` is the one the processor is on,
`sp[slot]` the one a slot would resume, `stack[slot]` the one it was given. The
assembly saves the stack pointer into the slot the kernel believes is current
and loads the next one's. A slot that was marked ended can get a new stack while
the code on its old one still runs, and keeping the two apart lets the model
show it. `os_add_thread` is two steps, before and after its `os_start()`. The
application may call everything in `Calls`, with the ids it was given and
`os_current_id()`, which is always 0 because nothing assigns
`current_thread_id`. `kill_own` (a thread killing itself by its own id) is a
separate member of `Calls` since it breaks what holds otherwise (section 5).
`critical` is the stack inside a user's `os_stop() .. os_start()`.

### 2.3 OSApplication and the objects

`OSApplication` has the threads that use shared objects. `pc[t]` says where its
code is, `yielding` who has marked itself blocked and is on its way to the
yield. The main thread creates threads and then only sleeps; all calls on the
objects are made by created threads, in any order.

* **MutexLock / OSMutexKernel**: `TakeFree` and `BlockOn` are the two outcomes
  of the first section of `lockWaitIndefinite`, `TakeWoken` is the second,
  which on a locked mutex falls off its end with the kernel stopped and returns
  to a caller that relies on the lock. `lock(timeout)` blocks first even on a
  free mutex. `held[t]` is a history variable: the mutexes t's code relies on
  having locked. Usage is that of the API: a thread unlocks what it holds and
  does not relock it. `Asking` and `Timed` read off the code who waits for which
  mutex, and whether with a timeout: with `held` they are the state of
  `AbstractMutex`, whose threads lock, ask, are granted or refused, and unlock.
  A thread is granted or refused once it looks again, by what is true then;
  only one with a timeout may be refused.
* **OSSemaphoreKernel**: `inside[s]` is the history variable. `over_exit` is
  an exit without an entry. `AbstractSemaphore` is to it what `AbstractMutex` is to
  the mutex, with room in place of freedom.
* **OSQueueKernel**: one action per stretch between accesses that another
  thread may interleave with; the locks are MutexLock's sections. Threads use
  the queue once `init` has returned true. `init` may fail to allocate.
* **OSSignalKernel**: look, block, look again, clear: one action each. `check`
  and `bits_return` only read and have no action.
* **OSThreadSignals**: a wait is a loop of looks and yields in which the thread
  stays RUNNING; `patience` is the local `start` and `timeout_ms`, the time until
  `millis() - start > timeout_ms`, and `millisecond` lets it pass together with
  the kernel's waits. Everything a thread does to "its own" bits is done to slot
  `current_thread_id`. After an answered wait the thread clears the bit, as
  the example in OS/README.MD does. The main thread may call these functions too.

### 2.4 Data structures

Their calls are sequential: an action is a call. `popped` and `written` keep
what the last call returned or wrote.

* **PriorityQueuePointerNaive**, **PriorityQueuePointerHeap**: list and heap,
  each with `Contents`, the bag of what it holds, as its refinement mapping.
  `check_exists` is the action it is in the code: it empties the list, so the
  list implements `AbstractPriorityQueue` with its `Clear`, the heap without.
  `max_heapify` admits the index one past the end, as the code does, and the
  refinement shows that this does no harm. Freshly allocated cells hold
  `GARBAGE`.
* **CircularBufferPointer**: `Window` reads the ring from `current_position` on,
  which is the mapping to `AbstractRecent`. `deinit` keeps the pointer to memory
  it gave back; callers may only `init` after it.
* **CircularBufferString**: of the characters, the offsets they are written at.
* **PointerQueue**: nodes with their `next`, the nodes nothing reaches included.
  An unset `next` is any node's address, NULL or `GARBAGE`, an address that is
  no node's; what is read through an address that is no allocated node's is
  anything too. Freeing such an address is taken to do no harm to the allocator.
* **RedBlackTree**: a node is named by its number. `insertion_helper` returns
  what the code's returns, so the node in between is lost as it is there. The
  calls of a helper by itself are numbered by their depth, which the number of
  nodes bounds.
* **FastMalloc**: `blocks` is the list by address, `held` what users were
  given, whether the list still knows it or not. `corrupted` (a header was
  written outside the array or over somebody's memory) ends an execution.
  `sound` says that no call so far has been one of those known to break the
  allocator (section 5).

### 2.5 MPU6050

The sensor is part of the model: `Sample` may come between any two bus
transactions. A transaction is a step, and may fail without the driver noticing:
a read leaves arbitrary bytes (`*_garbled`), a write is lost. Between two yields
one thread runs (`running`, `stage`), for the driver yields only while it
polls. The six axes are read alike and stand as one. `taken` and `garbled` are
history variables: the numbers of the samples a call has read, and whether a
read failed.

## 3. Runs

The passing runs check for deadlock except `library`, whose structures may
fill up. State counts are distinct states.

| Run | Timer | What it asks | States |
|---|---|---|---|
| `life_coop` | no | types; the scheduler finds a thread; list ordered and complete; own stacks, with slots reused, threads killed and returning | 494 k |
| `life_preempt` | yes | exclusion in stopped sections; highest priority runs; the sleeper at the head runs again (fair) | 54 k |
| `mutex_coop` | no | one owner; word and owner agree; kernel restarted; a woken waiter finds the mutex free; refinement (waits answered truly); the waiter at the head gets it (fair) unless the owner starves | 5.6 k |
| `sem_preempt` | yes | bounded entrants; true counter; refinement (waits answered truly) | 68 k |
| `sem_all` | yes | every operation, over-exits too: room wakes waiters | 162 k |
| `queue_coop` | no | no lost wake-up; no wait holding `queue_lock`; refinement (FIFO, no element from an empty queue) | 788 k |
| `queue_preempt` | yes | two consumers never displace each other, with `pop` and suspensions; two threads rely on one mutex only with the kernel stopped for good | 391 k |
| `signal_coop` | no | a bit set while a thread waits wakes it; one seen set is still set when cleared; timed waits return (fair) | 20 k |
| `thread_signals` | no | a signal has one taker; a timed poll at the head returns (fair) | 18 k |
| `library` | n/a | the heap implements a priority queue, the list one that may be cleared, the pointer ring the window of the latest; string inserts that start inside stay inside; the linked queue is empty at both ends or neither; an insert into the tree is found; the allocator's list is in order and users' memory apart; the sensor's sums and means fit their types, no sample counts three times, and the range kept is the sensor's | 1.3 M |
| `bug_current_ends` | no | *violated*: the thread that kills itself, or returns, ends | |
| `bug_signalled_wait` | no | *violated* (fair): a thread at the head that waits for a bit of its own which is set comes back | |

`SignalWakesWaiter`, `OverlapOnlyWhenStopped` and `BlockedConsumerIsRegistered`
are checked in one run each and proved for both kinds of scheduling and every choice of `Calls`.

### 3.1 Bounds

* `MAX_THREADS` 4 or 5: main, idle and two or three application threads. Two
  suffice for an owner and a waiter, a producer and a consumer; three for two
  consumers and a producer, or more waiters than room.
* `MAX_PRIORITY` 0 or 1: nodes before, behind and equal to others; equal
  priorities already give every order of the list through the order of creation.
* `MAX_INTERVAL` 1: a wait may have expired at once, or lie in the future.
* `MAX_STACKS` 5 with 4 slots: one slot is reused; `MAX_RETURNS` 1.
* `WORD_MOD`, `COUNT_MOD`: small moduli in place of 2^32; larger than every
  legal value, so that a wrap is visible as a wrong value.
* Queue length 2 (1 under the timer): empty, partly full, full, indices that
  wrap. Two data values tell order apart.
* Two bits per signal word: the awaited one and another. One bit per thread in
  `thread_signals`, where bits of different slots are what can be confused.
* `library`, structures: a heap of four nodes has two levels below the root and can be
  full; a list of three has a head, a middle and a tail, with three priorities
  and therefore equal ones; two pointers tell elements of one priority apart. A
  ring of three wraps at another place than its middle. The string buffer's
  position has nowhere to go but up once it has left the buffer: `MAX_POSITION`
  9 is past two whole strings outside. Four numbers are one more than the
  tree ever has reachable. Blocks: headers of 2 bytes and requests of 0, 1, 2,
  4 and 63 in 30 bytes give exact fits, splits, splits by less than a header
  (the size wraps modulo 64), requests nothing satisfies, and remainders that
  leave the array; three users. Two queue nodes: the second already goes behind
  the first; `QUEUE_MOD` 4 lets the count wrap.
* `library`, sensor: `HALF` 2 makes `int16_t` -2 .. 1 and `int32_t` -8 .. 7; the readings
  are the two extremes. Two threads, three samples: enough for one thread to
  read a sample twice and to be a candidate for a third time. Calls of no sample
  and of three.

Three places name what runs leave out on purpose. `life_preempt` has no `kill`
and no `return`: with `kill` `HighestPriorityRuns` fails (section 5). `queue_coop` has no `pop`: with it a consumer may take from an
empty queue (section 5). `thread_signals` has no `suspend`: a suspended thread
does not come back from a wait.

### 3.2 Fairness

Each `Fairness` asks for: time passing, the idle thread yielding, and a running
thread executing the kernel call it is in (weak fairness: nothing else happens
on the processor meanwhile). Of the application it asks what cooperative
scheduling asks: a thread that runs again and again eventually sleeps or yields
outside a stopped section, releases the mutexes it holds, and starts the kernel
it stopped. These are strong fairness conditions because the other threads'
turns disable the actions in between. Nothing is assumed of the scheduler.
Therefore the liveness properties are about the *head* of the list: the walk
starts there each time, and nothing in the code keeps ready threads in front
from starving those behind. The waiter at the head of the list depends on the
mutex's owner, which is behind it: with three threads TLC finds the owner
starved by a thread between them that calls `lock(timeout)` again and again, and
an owner that somebody suspended would do as well. `HeadWaiterAcquires` therefore
assumes `OwnerRuns`, that the scheduler comes to the owner again and again, and
says what is left to the mutex: that no release passes the waiter by for ever,
although `unlock` wakes nobody and its caller may lock again at once.

## 4. Proofs

TLAPS checks, for any number of threads, priorities, mutexes, semaphores,
counter sizes, signal bits, queue and buffer lengths, nodes and integer widths:

| Theorem | Says | Assuming |
|---|---|---|
| `TypeCorrect` | `[]TypeOK` of the life cycle | |
| `SchedulerAlwaysFindsThread` | the walk never leaves the list | |
| `StoppedSectionsExclude` | no other thread runs in a stopped section | |
| `ListAlwaysSorted` | priorities descend along the list | |
| `NoThreadLost` | every live slot is listed or being inserted | cooperative |
| `StacksNeverMixed` | own stacks | no thread kills its own id |
| `HighestPriorityAlwaysRuns` | the processor goes to a thread no ready listed one precedes | no thread is killed from outside |
| `MutexExcludes`, `LockWordIsTrue`, `KernelNeverLeftStopped`, `WakeUpsAreTrue`, `ImplementsAbstractMutex` | the mutex's invariants and refinement | cooperative, nobody resumes suspended threads |
| `SemaphoreAdmits`, `SemaphoreCounts`, `ImplementsAbstractSemaphore` | bound, counter, refinement, under the timer too | no `entryWaitIndefinite`, no over-exit |
| `OverlapsOnlyWhenStopped` | two threads rely on one mutex only with the kernel stopped for good | |
| `QueueLocksOverlapOnlyWhenStopped` | the same of the queue's two locks | |
| `BlockedIsRegistered` | a consumer blocked on the queue is the one the next push wakes, unless the kernel is stopped | |
| `QueueLockNeverAcrossSwitch` | no thread is switched out with `queue_lock` | cooperative |
| `WakeUpsAreNotLost` | no push passes a blocked consumer by | cooperative, nobody resumes suspended threads |
| `ImplementsAbstractQueue` | first in first out, nothing lost, doubled or made up | the same, and `pop` or `popBlocking` but not both |
| `RoomWakesWaiters` | a thread blocked on a semaphore with room may be scheduled | |
| `SignalsWakeWaiters` | a thread blocked for a set bit may be scheduled | |
| `ClearersFindTheirBit` | `wait_n_clear` finds the bit it saw | cooperative |
| `SignalsTypeCorrect` | `[]TypeOK` of the thread signals | |
| `TakersFindTheirBit` | a signal has one taker | cooperative |
| `PollerKeepsProcessor` | a poll without timeout at the head of the list never gives way | |
| `SumsFit`, `RangesAlwaysAgree`, `SamplesCountedAtMostTwice` | the sensor driver's invariants | ranges are within the register's range bits |
| `RingTypeCorrect`, `KeepsTheLatest` | the pointer ring's type; it implements `AbstractRecent` | |
| `StringsStayInside` | an insert of a string is inside the buffer exactly if it starts inside | |
| `BlocksInOrder` | the allocator's list goes up, blocks apart, and ends in a free one | the array holds a header |
| `UsersApart` | until a known flaw is met, users' memory is inside the array and apart | the same |
| `InsertsAreFound` | what is inserted into the search tree is found, and so are the head and what was found on its other side | the numbers are integers, finitely many |
| `QueueEndsTogether` | the linked queue is empty at both ends or at neither, wherever unset pointers lead | |
| `ListIsPriorityQueue`, `HeapIsPriorityQueue`, `QueuesKeepTheirPromise` | the heap implements `AbstractPriorityQueue`, the linked list its form that may be cleared | priorities are integers |

An empty last column means: with and without the timer, and whatever the
application calls. The other assumptions are not conveniences: without each of
them the code breaks the property (section 5), and TLC shows so. For the range
bits, the header's own constants are that assumption. The remaining ones say
that the null pointer is not a thread, a node, a buffer or a heap's memory.

**Life cycle.** `SchedulerFindsThread` is not inductive. `AliveInv` adds why
the idle thread can never be lost: its slot is listed and RUNNING; its stack is
its own and no other slot's; nobody holds its id; and whoever executes on the
idle stack is the idle slot, so no call of the application is made from it.
`ListedInv` adds that only the running stack can have an insertion pending, and
only for a live slot that nobody knows the id of: true of a cooperative kernel.
`StackInv` adds that a slot's stack belongs to no other slot. Order of the list
follows from the lemma `InsertNodeSorted` about the operator alone.

`HighestPriorityRuns` compares the table's priorities, the walk follows the
list's, so `NodesInv` relates the two: every node, listed or still to be inserted,
names a slot in use, not main's, and carries that slot's priority. A slot is
given a new priority only when it is reused, and only a slot that ended is
reused; without `kill` the one that ends is slot 0 (section 5), which has no node.
With the list in order, the first ready node is then one of highest priority.

**Mutex.** `MutexInv` strengthens exclusion by where waiters are:
a thread inside a blocking call has recorded its mutex (`WaitsForMutex`); those
on their way to the yield are blocked (`YieldsBlocked`); and one that has come
back from `lockWaitIndefinite` runs with the mutex free (`ResumesFree`). The last
is the heart: the scheduler wakes a waiter only when it also runs it, and in a
cooperative kernel nobody else runs until the waiter has looked again.

`OverlapsOnlyWhenStopped` needs none of the assumptions, and another invariant
(`OverlapInv`): while the kernel runs, holders are disjoint and a held mutex's word
says locked; only the second look of `lockWaitIndefinite` adds a holder to a
locked mutex, and it leaves the kernel stopped with itself current. From then on
no yield and no interrupt switches.

**Queue.** Three invariants, each for what its theorems assume. `QueueInv`, of
every configuration: which label of the code relies on which lock
(`HeldByLabel`), a waiter has recorded the lock it waits for (`WaitsForItsLock`),
the mutex's `OverlapInv` for both locks (`LocksRespected`), and a thread about to
block, or blocked, is the registered one (`BlocksRegistered`): it registered with
`consumer_lock`, which it keeps until it has been woken.

`CoopInv`, without the timer: only the running thread is in the middle of a
call, but for those at one of the two waiting places (`OneInside`), and so a
thread that was switched out has no `queue_lock`. If nobody resumes a suspended
waiter, one that runs again finds the lock it waited for free
(`WaiterFindsFree`), and a consumer blocks only on an empty ring
(`EmptyWhenBlocking`), so that the first push finds it registered. With
`os_resume_thread` a waiter may find the lock taken, and leaves the kernel
stopped.

`ElementInv` says why no `popBlocking` takes from an empty ring: a consumer that was
woken has an element to take (`LeaverHasElement`), because any other needs the
`consumer_lock` it still has, and from its release of that to its take a
cooperative kernel does not switch (`ElementThere`). `pop` does not need
`consumer_lock`, which is the divergence of section 5 and the reason for the
hypothesis. Head, tail and count then agree (`RingInv`), and the abstract queue is
the ring read from the head on: a push appends to it, a take drops its first.

**Semaphore.** `WaitersOutside` (a thread in a call is not inside) with the
counter being the cardinality of `inside`; cardinalities of changing sets come
from `FiniteSetTheorems`.

`RoomWakesWaiters` follows from what a blocked thread has recorded for the
scheduler (`WakeInv`): its semaphore's word and its capacity, which nothing
but the thread itself changes, so that `>=` is true of any counter with room.

**Signals.** `SignalInv`: what a blocked thread has left for the scheduler, its
word and its bit, is what its call asked for (`BlockedRecorded`), and a thread
whose call is under way has such a bit (`CallRecorded`). The scheduler compares
the word as it is at the switch, so a bit set between look and block counts
like one set later.
`ClearerRuns` says that a thread between look and clear is the current one,
which a timer interrupt would break.

**Motion sensor.** `SumInv` bounds the sum by the number of samples added
(`Summed`): n samples lie in -n*HALF .. n*(HALF-1), and n is at most what a
uint16_t holds, so the sum fits twice the width and the mean the width.
`FreshInv` says why no sample counts three times: one that a call has read
twice is no longer the sensor's latest, or the flag is down and the call is not
about to read; and the flag goes up only with a new number.

**Pointer ring.** An insert is a step of `AbstractRecent`: the window after it
is the old window without its first element and with the new one at the end,
by cases on whether the position wraps (`WindowStep`).

**String ring.** One character is `Put`: from inside the buffer it writes inside
and, wrapping, stays inside; from beyond the end it never comes back. What an
insert of any length does is then an induction over the copy loop (`CopyStays`).
The prover has no induction principle that takes a predicate, but the least
element of a set of numbers (`LeastNumber`, from `NatLessThanWellFounded`)
gives one that takes a set, `EveryStep`, and with it `StepByStep`: a loop of n steps
has a state after each, which is what a recursive function needs to be defined.

**Allocator.** `AllocatorInv`: the list is the unused array's single block, and then
nobody holds memory, or it goes up through memory and ends in a free block
(`GoesUp`). A block behind another in the list is behind all of it (`RisingFar`).
The search stops at a free block (`FittingIsFree`); a split keeps what is in front
of it and puts the remainder behind what it gives away, at least as far as the
size requires, since it counts headers for bytes (`FarEnough`); a merge neither
changes the order nor touches a block that is TAKEN (`MergeStep`, and `MergeLoop`
by induction over the list). Sizes only shrink when they wrap (`Wrapped`), so wrapping
moves no block over another.

`AreasInv` adds, as long as `sound` holds, that what each user has is a TAKEN block of
the list, inside the array and apart from the others'. Only the last block may be
split then, and every TAKEN block lies before it; the remainder's header fits
into the array, and what is given away lies before that. A free marks by
address, and no two users have the same.

**Linked queue.** `EndsTogether` is inductive as it stands; it needs nothing of
what a pointer leads to.

**Priority list.** `ListInv`: the list is in order. What it is mapped to, the bag
of its elements, is a set of cardinalities; `OnePlaceMore` gives a bijection
between the places an element has before and after another is put in
front of some of them, and so what insert and pop do to the bag
(`OneElementMore`).

**Heap.** `HeapInv`: the nodes in use are items, and none precedes its parent.
In `SiftUp` only the node being raised may precede its parent, and its children
do not precede its parent (`UpInv`); in `max_heapify` only the children of the node
being lowered may precede it (`DownInv`). The look one past the end is harmless
because what lies there has the priority of the element being lowered, which it
is a copy of, and so is never chosen. Each turn moves to a parent or a child
(`Family`), so as many turns as there are nodes are enough; both loops are
inductions by `StepByStep`. Every swap keeps the number of places each
element has (`SwapRearranges`), hence the bag (`SameBag`), and in a heap nothing
precedes the root (`RootIsFirst`: of the places that did, the least would have a
parent that does).

**Search tree.** `TreeInv`: the tree is at most a head and a child on each side
of it, for an insertion further down puts the new node in its parent's place
(section 5). A search from the head therefore stands still after two steps
(`WalkEnds`) and finds the head or the child on the number's side (`SearchFinds`).
An insertion calls itself at most once (`HelperCalls`) and has four outcomes
(`HelperResult`); each keeps that shape, has the number on its side and leaves
the other side alone (`Grows`).

**Thread signals.** `PollInv`: the kernel is started, the idle thread is listed
and the main thread is not, and a thread that polls or whose own code runs is
RUNNING unless suspended (`PollersAwake`). Then the head of the list is ready and
`HeadIsChosen` gives every switch to it. `TakerRuns`: a thread that has come back
from its wait and not yet cleared the bit is the running one, so nothing comes
between.

**Refinements.** Each step of `[Next]_vars` is shown to be a step or a stutter of
the abstract specification. For mutex and semaphore, what the rest of the system
does leaves every wait alone (`WaitsUndisturbed` for the mutex, whose waits are
recorded in the thread table), and the word says what the history variable says
(`FreeIsAbstract`, `RoomIsAbstract`), so that each answer is true of the abstract
object. `FreeIsAbstract` needs the word to be binary, a small invariant of its own
(`WordBinary`). The queue, the pointer ring, the priority list and the heap are
mapped as described above.

Only model-checked: every liveness property (`HeadSleeperRuns`,
`HeadWaiterAcquires`, `HeadTimedWaitReturns`, `HeadPollReturns`) and anything about
ENABLED.

## 5. Known divergences

Found while translating; two have runs, the others follow from the lines
quoted, and each explains an assumption above.

* `os_kill_self_thread` and the return of a thread function end slot 0, never
  the running thread: `current_thread_id` is never assigned
  (OSThreadKernel.cpp:741, :557). Run `bug_current_ends`.
* `popBlocking` does not look at `current_elements` after its wait
  (OSQueueKernel.cpp:89): if `pop` came first the count wraps.
  (`AbstractSpec` with `"pop"` in `Calls` is violated.)
* `thread_count` falls with every return though slots are not compacted, so the
  id test at OSThreadKernel.cpp:693 rejects live threads; it does not fall on a
  kill, and it accepts -1, the result of a failed `os_add_thread`. After one
  return the thread with the last id can no longer be suspended, resumed,
  killed or signalled.
* `os_add_thread` inserts a node for a reused slot and leaves the old one: the
  slot is scheduled at the old priority (OSThreadKernel.cpp:649).
  (`HighestPriorityRuns` with `"kill"` in `Calls` is violated.)
* A thread that killed its own id and then adds a thread gets its own slot, and
  the stack it runs on freed (:609-616). (`SpInOwnStack` with `"kill_own"`.)
* The main thread's slot is in no list: after its first sleep it never runs
  again (:347).
* `lockWaitIndefinite` gives up after one more look, returning as if it had the
  lock and with the kernel stopped (OSMutexKernel.cpp:128): when the timer let
  another thread lock in between, or `os_resume_thread` woke it.
  `OverlapOnlyWhenStopped` bounds the damage.
* A timed mutex wait tests the pointer, not the word (OSThreadKernel.cpp:463):
  a release does not end it, only its timeout.
* `entryWaitIndefinite` returns as if entered when its second attempt fails
  (OSSemaphoreKernel.cpp:101), which `>=` at OSThreadKernel.cpp:445, true of a full
  semaphore, makes likely. (`EntrantsBounded` with `"entryWaitIndefinite"`.)
* `exit` on an empty semaphore reports failure and wraps the counter
  (OSSemaphoreKernel.cpp:119). (`CounterIsEntrants` with `"over_exit"`.)
* With the timer, `popBlocking` can miss the push that comes between its test
  and its blocking (OSQueueKernel.cpp:73-77). (`NoLostWakeup` with
  `Preemptive`.)
* Any set bit of a word wakes every waiter on it, and `wait_notimeout` does not
  look again (OSThreadKernel.cpp:469).
* With the timer, two `wait_n_clear` calls can consume one signal
  (OSSignalKernel.cpp:84-91). (`ClearerFindsBit` with `Preemptive`.)
* A thread waits for the bits of slot 0 (OSThreadKernel.cpp:874), so
  `os_signal_thread` with the id of the waiter, as in the example of
  OS/README.MD:83-128, does not end its wait; and `loop()`, which signals there,
  does not run again after its first delay. Run `bug_signalled_wait`.
* `os_thread_waitbits_notimeout` never ends at the head of the list if its bit is
  clear in slot 0, for nobody who could set it runs: theorem
  `PollerKeepsProcessor`.
* `push` makes the registered consumer RUNNING even if it was suspended
  (OSQueueKernel.cpp:38).
* `fast_malloc` hands out a block that fits exactly without marking it taken
  (fast_malloc.cpp:116); places a remainder `sizeof(struct mem_block)` times
  too far behind (:131), where after some allocations it leaves the array;
  wraps the remainder's size when less than a header is left (:133); cuts the
  list off behind a split (:135); and sets the whole array up again if the
  first block's size is 0 (:101). `LiveAreasApart` needs its `sound`.
* `CircularBufferString::insert` does not wrap after the terminating NUL
  (circular_buffer.cpp:79): once that was in the last cell, all insertions
  write outside the buffer. `InsertStaysInside` says it happens in no other way.
* `PointerQueue::enque` links the second and every later node to itself
  (queue.cpp:33) and leaves the first one's `next` unset (:20): of several
  pointers only the first comes out, and the next dequeue follows whatever was
  in memory. `get_size`, "the lenth of the queue" (queue.h:50), counts the nodes
  that nothing reaches too.
* The red-black tree's `insert` stores the pointer in the head, and colours it
  red, unless the new node is the head's child; an insertion further down
  unlinks the node it goes under (red_black_tree.cpp:91, :100). At most three
  nodes are ever reachable. `max` and `min` walk to the NULL at the end and
  return it.
* `PriorityQueuePointerNaive::check_exists` empties the list
  (priority_queue.cpp:100). `PriorityQueuePointerHeap::pop` on an empty heap
  wraps `total_nodes` (:177), and neither `deinit` nor `init_priority_queue`
  resets it.
* `get_mpu6050_gyro_data` reads the accelerometer's registers
  (mpu6050_imu.cpp:296). A sampled call with no samples divides by zero (:272).
  Results of bus writes are ignored, and `init_mpu6050` keeps the ranges
  before it knows whether the sensor is there (:155).
* Buffers and the tree's head are not initialised by any constructor: the
  models' initial states are those of static objects.

## 6. Not modelled

* **Binary search tree, AVL tree.** The first's `insert` assigns to a local
  pointer and links no node, so it never holds one; the second has no insert.
  Nothing can be said of them that is about their code.
* **`deletion_helper`, `check_uncle_red_black`** of the red-black tree: no caller,
  the first without a result.
* **`OSFastMalloc.h`**: compiled when the allocator is switched *off*, and
  `os_fast_malloc` returns nothing. `fast_malloc_split` has no caller.
* **LED strip, voltage reader, serial port**: bus I/O and conversions; they keep
  nothing that another part reads, and the strip's number of pixels is never set.
  The sensor's `translate_*` are floating-point arithmetic.
* **`insert` at the grain of its assignments.** Under the timer two insertions, or
  an insertion and the scheduler's walk, can meet; nothing in the code prevents
  it, and the committed build has no timer.
* **`millis()` at 2^32.** The models keep the time that remains.
* **The timer's set-up**: registers, and no caller.
* **`error.hpp`, `enabled_modules.h`**: constants.
