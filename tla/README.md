# Verification of bc-concurrency

`bc-concurrency` is a C library with four parts that carry logic of their own: a pool of worker threads with a
staging array (`submit`, `submit_batch`, `dispatch_and_wait`, `destroy`), a parallel `for` on top of the pool, a
bounded lock-free queue, and a process-wide signal flag with an interruptible sleep. This directory holds TLA+
modules that model it, the TLC configurations that check them on small instances, and theorems about them that
TLAPS checks for every value of the constants. `PROJECT.json` ties each definition to the lines it models, each
property to the hazards it is aimed at, and each property to a faulty variant of the code that breaks it.

Short names: `bc_concurrency.c` is `src/context/bc_concurrency.c`, `async.c` is
`src/dispatch/bc_concurrency_async.c`, `queue.c` is `src/queue/bc_concurrency_queue.c`, `signal.c` is
`src/signal/bc_concurrency_signal.c`, `platform.c` is
`src/platform/bc_concurrency_platform.c`, `bc_concurrency.h` is `include/public/bc_concurrency.h`.

To repeat the checks: `tlc -config MCWorkerPool.cfg MCWorkerPool` (and so on for each `.cfg`) and
`tlapm WorkerPoolProofs.tla` (and so on for each of the eight modules `...Proofs`).

## 1. Inventory

### Worker pool (`bc_concurrency.c`)

*State.* The context: the staging vector of tasks not yet dispatched, the copy `dispatch_tasks` made of them for a
round and its capacity, one work assignment (a slice of that copy) per thread in `dispatch_work`, `workers_spawned`.
Per background worker: `work`, `ready_flag`, `done_flag`, `should_stop`, a mutex and the condition variables
`ready_cond` and `done_cond`. Per thread: `tls_worker`, the entry of `workers[]` it is.

*Operations.* `submit` and `submit_batch` push onto the staging vector. `dispatch_and_wait` returns at once if
nothing is staged, runs everything itself if there are no threads or only one task, and otherwise creates the threads
on first use (and rolls back if one cannot be created), grows `dispatch_tasks` if needed, cuts the tasks into
slices, hands one to each worker, runs the last slice itself, waits for every worker it handed work to and clears the
staging vector. The worker loop sleeps until `ready_flag` or `should_stop`, takes the work, runs it, sets `done_flag`
and signals. `destroy` stops and joins the threads and frees everything.

*Hard.* Lost and spurious wake-ups; a `done_flag` left from an earlier round; memory of a round freed or rewritten
under a worker that still reads it; thread creation or an allocation that fails half-way; rounds with fewer tasks
than threads; a retry after a failure.

*Correct if* a call that returns true has run each of its items exactly once and one that returns false none of them;
no worker works between calls; workers read only memory that is allocated and not being written; every call returns;
no thread outlives `destroy`.

### Parallel for (`async.c`)

*State.* Per call, one block with a chunk, a task entry and a work assignment per thread. *Operations.*
`bc_concurrency_for`: inline if there are no threads or at most `thread_count` iterations, else chunk 0 for the main
thread and chunk `i + 1` for worker `i`, through the same hand-out and wait as the pool; then the block is freed.
*Hard.* The free while a straggler still reads; two ways to number chunks. *Correct if* the pool is, and the block is
freed only once all workers have answered.

### MPMC queue (`queue.c`)

*State.* `enqueue_position`, `dequeue_position`, `closed` and, per slot, a sequence number and the element.
*Operations.* `push`, `pop`, `close`, `is_closed`, `capacity`, `create`, `destroy`. *Hard.* Every interleaving of the
atomic accesses of several pushes and pops over several laps; stale positions; the copy of an element, which is not
atomic; capacity 1; `close` against pushes under way. *Correct if* copies of one slot never overlap, elements come
out in the order in which they went in, once each, the queue is bounded, it never wedges, and false is returned only
for a cause. All of it must hold with the memory orders the code asks for, which are relaxed on the positions. A
program that closes the queue to end its consumers (`tests/test_bc_concurrency_queue.c:203`) must lose nothing.
`create` rounds the capacity and computes the stride and size of the slots in `size_t`; every slot must be its own.

### Creation of the context and per-worker slots (`bc_concurrency.c`)

*State.* The blocks the context points to; per worker its memory context and its array of slots; `slot_count`,
`slot_capacity`, `slot_configs`. *Operations.* `create` checks the configuration and builds the context, with failure
labels that fall through. `register_slot` extends every worker's array and allocates and initialises one block per
worker. `foreach_slot` visits the blocks, `worker_slot` reads one, `destroy` calls the destroy callbacks and frees.
*Hard.* Any allocation may fail, in particular for one worker after others have succeeded, and the client may go on
afterwards. *Correct if* nothing leaks and nothing is freed twice whatever fails, a registered slot is initialised
on every worker, and no later registration moves it.

### Signal handler and sleep (`signal.c`)

*State.* The pointer to the handler in charge, its flag, its table of saved actions; the kernel's table of actions.
*Operations.* `create`, `install`, `should_stop`, `destroy`, the asynchronous callback, `sleep_milliseconds`.
*Hard.* The callback against `destroy`; two handlers; the order in which saved actions are restored; a signal between
the test of the flag and `nanosleep`; worker threads that have not blocked signals yet. *Correct if* the callback only
touches a live handler, a stop is seen, actions are restored, a sleep that is told to stop does.

### Platform, choice of cores (`platform.c`, `create` and `spawn_workers` in `bc_concurrency.c`)

*State.* None of its own: the topology in sysfs, the affinity of each thread, and of a context `thread_count` and
`core_offset`. *Operations.* Count the physical cores, check the configuration against them, pin the calling thread
to core `core_offset` and worker `i` to core `core_offset + 1 + i`. *Hard.* SMT siblings, core numbers with gaps or
repeated on another socket, CPUs that cannot be seen or are not allowed to the process; `size_t` arithmetic in the
check; pinning that fails unnoticed; a pin that outlives the context. *Correct if* each thread has a core of its own
where the machine has enough, and the context has the threads that were asked for.

### Accessors

`worker_index`, `worker_memory` and `worker_slot` read through `tls_worker`, which the main thread sets for the time
of its own share of a call. *Correct if* a thread that runs a task has the entry that is its own and a thread that
runs none has none.

### How they interact

The client calls the pool from one thread. `for` and `dispatch_and_wait` share the hand-out (`ready_flag`,
`ready_cond`) and the wait (`done_flag`, `done_cond`), so they share a module. Slots are written by tasks on worker
threads and read or extended by the main thread between calls, when workers are quiescent
(`QuiescentBetweenCalls`); this is what lets `ContextLifecycle` be sequential. Worker threads block all signals once
they have started, so the callback runs on the client's threads, except in the window before that. The queue uses
no other part.

## 2. Modules

| module | what it is |
|---|---|
| `Partition` | how a batch is cut into contiguous parts (`dispatch_and_wait` lines 525-534, `for` the same) |
| `WorkerPool` | main thread and worker threads; submit, dispatch, for, spawn and rollback, destroy |
| `BatchExecutor` | what the header promises of the pool, without threads, locks or memory; `WorkerPool` implements it |
| `MpmcQueue` | push, pop and close, every atomic access a step |
| `BoundedFifo` | what the header promises of the queue, without positions or slots; `MpmcQueue` implements it |
| `QueueDrain` | producers, consumers and the thread that closes, around the queue with release and acquire |
| `ContextLifecycle` | the memory of a context and of a queue under failing allocations: create, register_slot, destroy |
| `SignalHandler` | handlers, the callback, delivery of signals, the sleep |
| `SizeT` | `size_t` and its wrap-around, with the width as a parameter |
| `Platform` | counting cores and pinning a thread, on a machine given as a record |
| `CoreAssignment` | `create`'s checks, the workers it leads to and the core each thread ends on |
| `ForRange` | the indices a parallel `for` visits |
| `QueueSizes` | capacity, stride and slot addresses of a queue |
| `SizedCalls` | `CoreAssignment`, `ForRange` and `QueueSizes` composed: the calls whose outcome is a matter of numbers |
| `PartitionProofs` | lemmas on division and counting that the other proofs share, and theorems about `Partition` |
| `WorkerPoolProofs`, `WorkerPoolRunsProofs` | theorems about `WorkerPool`: its handshake; its items and the refinement |
| `MpmcQueueProofs`, `QueueDrainProofs` | theorems about the queue: its slots and the refinement; its memory orders and closing |
| `ContextLifecycleProofs`, `SignalHandlerProofs`, `SizedCallsProofs` | theorems about the module named |
| `MC...` | the modules TLC runs, with symmetry sets where they are used |

An operator named `X_Fault` is `X` with a plausible programming error (a dropped guard, an off-by-one, a missing
signal). No definition uses it. Put in the place of `X` it makes a property fail, which shows that the property
depends on what `X` does; `PROJECT.json` lists one for every property of every passing run.

### WorkerPool

*Atomicity.* Every access to the flags of a worker is made under its `state_mutex`, so a critical section is one
step. `pthread_cond_wait` is a step that goes to sleep (having found the condition false in the same critical
section) and a wake-up, after which the condition is tested again; the wake-up is `SignalReady`/`SignalDone` or, at any
moment, `WorkerSpuriousWakeup`/`WaitSpuriousWakeup`. `pthread_cond_signal` wakes the one thread that may be asleep
and is lost otherwise. Outside the mutexes, a worker's reading of its slice and the main thread's writing of
assignments are separate steps; `NoRewriteUnderReader` and `NoDanglingWork` show that they never meet.

*State.* `mpc`, `call`, `batch`, `idx`, `mnext`, `new_cap`, `threads_started` are the main thread's position and
locals; `wpc`, `wwork`, `wnext` those of a worker; the other variables are the fields named in the module.
`work[w]` names the arena ("dispatch", "for") whose assignment `w` is given instead of pointing to it;
`tasks` and `assignments` are its contents and `live` says whether it is allocated.

*Items.* A submitted task and an iteration of a `for` are both an item, numbered in the order of introduction, and
`runs` counts its executions. What a task does is left out; tasks do not call back into the pool (section 7).

*Failures.* Pushing onto the staging vector, `pthread_attr_*`, `pthread_create` for any thread, growing
`dispatch_tasks` and the allocation of `for` may each fail.

*Client.* Any sequence of calls, with one restriction that is a constant: `RetryAfterFailedSpawn = FALSE` means that
the client makes no further parallel call after one that failed part-way through thread creation. With `TRUE` such a
call never returns (section 4).

### BatchExecutor and the refinement

`BatchExecutor` has four phases of a call: staged, running items one by one in any order, returning true when all
have run, or returning false before any has. The mapping takes `mpc` to the phase, `staging` to `staged`, `batch` to
`current`; threads, slices, flags and memory are hidden. `ImplementsExecutor` is its specification as a property of
`WorkerPool`.

### MpmcQueue

Loads, stores and compare-exchanges of `enqueue_position`, `dequeue_position`, `closed` and the sequence numbers are
steps of their own in one total order; the copy of an element is a state ("write", "read") rather than a step, so
that a data race is a reachable state. A weak compare-exchange may fail although the value is the one expected.
Positions are naturals: 2^64 operations do not happen in a run of the program. `pushed` is a history of the elements
in the order in which their positions were claimed. The release/acquire orders of the code are weaker than a
total order: what they permit beyond it is the subject of `QueueDrain`.

### BoundedFifo and the refinement

`BoundedFifo` is a sequence and, per thread, the call it is in. A push or pop takes effect at one moment between its
call and its return; the mapping puts that moment at the successful compare-exchange. `fifo` is the part of `pushed`
between the two positions; a thread that has claimed and not yet returned is "put" or "taken". The abstract queue
refuses a push only if it is full or some call of pop is still giving back its place, and a pop only if it is empty
or the oldest element is still being put: so `ImplementsFifo` also says that false has no other reason.

### QueueDrain

The program of the test: producers push their quota, trying again on false; consumers pop until a pop fails after
they have seen the queue closed; the main thread joins the producers, then closes. A load may return an old value. A
thread comes to know of what another did only through the acquire of what that one released, or by being joined.
The module gives a thread *less* knowledge than C11 does (a load of a position may return any earlier value at any
time; reading a sequence number does not make others known), so that it has all behaviours of the program and more,
and what is safe in it is safe there. The loads of a call are made in one step with the compare-exchange or the
return they lead to, which loses nothing because they may return old values. `accesses` counts the accesses to the
element of a slot, and `known` how many of them happened before the thread's own: an access with fewer known than
there were is a data race.

What it says about `close`: it is the join of *all* producers before `close` that keeps elements from being missed.
With one of them still pushing, even an element whose push returned true earlier can be missed, behind an earlier
position that is claimed and not yet published (the faulty variant `MayClose_OneJoined`). `bc_concurrency.h` says
nothing of this; a client must know it.

### ContextLifecycle

Blocks are numbers, allocated lowest first, so that a freed block is used again and a stale pointer shows. `heap` is
what is allocated; `bad_free` records a free of something that is not. A *place* is a field or an entry of an array
that holds a pointer to a block (`Places`); `At` is the block a place points to and `Release` frees what a set of
places points to; an array that is replaced, and freed by itself, is looked at in the same way (`Dangling`). The
failure labels are positions in the order in which they fall through (`Undone`, `FailureLabel`). `register_slot` is
one step per worker, each of which may fail at either of its two allocations. If it fails at worker `j`, the blocks of the workers before are freed without a call
of the destroy callback, although the init callback has run on them; the module keeps the blocks and not what a
callback put into them. A queue is two blocks; it is created only while there is no context, a bound: the two share
nothing but the heap. Mutexes and condition variables are left out; `create` leaves those of the worker
it failed at initialised, which on Linux holds no resource.

### SignalHandler

The client is one thread; while a callback runs on it, it is suspended. The callback's load of the global pointer and
its store are two steps. A worker is "open" between its creation and `pthread_sigmask`. Handlers are blocks that are
used again. `told` records that the handler of a sleep was told to stop since the sleep was called. The time that
remains of a sleep is not counted: `nanosleep` may end at any moment, a sleep may be over after an interruption or
be given up because of another error (`SleepGivenUp`), and that an interrupted sleep goes on for the remaining time and
not for the full time again is not checked. Two constants
restrict the client: `InstallTwice = FALSE` (a signal is not installed again before it is restored) and
`StartupWindow = FALSE` (a handler is not destroyed while a worker thread is still open).

### Platform, CoreAssignment, ForRange, QueueSizes, SizedCalls

A machine is a record of what sysfs, `sysconf` and the kernel's cpuset say; `CoreLeaders` are the CPUs at which a
`core_id` is first seen, which is what both loops over the CPUs compute. Nobody reads the package number, so that a
second socket which numbers its cores as the first does is not used: fewer threads than there could be, never two on
a core. `CoreAssignment` numbers threads by the core they ask for, counted from `core_offset`: the main thread is 0,
worker `i` is `i + 1`. A thread inherits the affinity of its creator and then tries to pin itself.

`size_t` has `Width` bits, six in the runs: the edges of six bits are those of 64, and all combinations of small and
nearly largest numbers can be tried. The sizes of the records are constants, and `MaxAllocation` says that a block
of nearly the whole address space cannot be had. That assumption is needed: `core_offset + thread_count` may wrap
around and pass `create`'s check, and only the allocation of an array of that many threads then refuses the
configuration (`ConfigHonoured`). `ForRange` computes indices as the code does, `Wrap` at every operation.

`QueueSizes` and the queue part of `SizedCalls` do what `bc_concurrency_queue_create` does with any two arguments
other than 0, without a precondition. The loop that rounds the capacity is a step per shift (`RoundUp`): for a
capacity above the largest power of two it shifts its one bit out and goes on with 0 for ever. The stride and the
size of the buffer wrap around (`queue.c:79-80` look for no overflow), and it is the wrapped size that the allocator
is asked for and may grant (`QueueCreated`). `Fits` says of such a queue whether each slot lies in the buffer and
none reaches into another, `Representable` that no size has wrapped around; `QueueFitsExactly` says that the one
holds exactly if the other does. It is not a precondition of the model and not tested by the program: that a queue
is sound is left to callers that ask for sensible sizes. What the program does with a queue that does not fit (lines
97-100 write to its slots at once) is undefined and not modelled any further.

Two consequences of the checks that are no disagreement with any text: the default number of workers does not take
`core_offset` into account, so that a configuration with an offset and no explicit number is always refused on a
machine with more than one core; and the main thread stays pinned after a `create` that fails, and after `destroy`.

## 3. What the passing runs check

| run | instance | question |
|---|---|---|
| `pool_rounds` | 3 workers, initial capacity 2, up to 6 items, fair | is the pool safe in every interleaving of rounds, failures and wake-ups, does it implement `BatchExecutor`, and does every call return? |
| `queue_lock_free` | 3 threads, 2 slots, 5 elements, symmetric | is the queue a bounded FIFO without data races, and does it implement `BoundedFifo`? |
| `queue_drain` | 2 producers of 3 elements, 2 consumers, 2 slots, fair | under release and acquire, do accesses race, is an element missed, do all threads end? |
| `context_memory` | 3 workers (2 and main), up to 3 slots, first array of 2, a queue | does memory stay in order whatever allocation fails? |
| `sized_calls` | 6-bit words, 9 machines of up to 4 CPUs, 36 configurations and NULL, 11 sample arguments | do threads get cores of their own, does `for` visit each index once, when do the slots of a queue fit its buffer? |
| `signal_stop` | 2 handlers, 3 signals, table of 2, 1 worker, 2 signals sent, fair | are signals caught, seen and restored? |

*Bounds.* Six items on three workers and the main thread give rounds with fewer items than threads, as many, and more
with a remainder; several rounds follow each other; the initial capacity of 2 makes the dispatch array grow by one
and by several doublings. Two slots and five elements take the queue through two laps with all three threads in the
middle of an operation, which is what a stale position needs. Three slots with a first array of two make the
configurations grow while slots exist. Two handlers and three signals make every order of creation, replacement and
destruction; a table of two is filled. `MaxItems`, `Items`, `MaxSlots`, `MaxSent` bound the behaviours and are named
constants; the guards that use them only stop the client or the outside world. Six elements on two slots take
`QueueDrain` through three laps, so that old values of a sequence number from more than one lap are read. The
machines of `sized_calls` have one CPU per core, siblings next to each other and apart, a repeated `core_id`, a CPU
without a topology file, core numbers out of range, no topology at all, and a cpuset smaller than the machine; the
samples include 0, 1, and numbers within `step` of the largest, where an index computed too far wraps around; as
element sizes and capacities they give queues that fit, queues of which the slot size, the buffer size or both have
wrapped around and which the allocator grants all the same, and capacities above the largest power of two.

*Properties.* Each is stated with its meaning in its module. The ones that say most: `AllOrNothing`, `AtMostOnce` and
`ImplementsExecutor` (what a call's result means for its items, over retries and failures), `QuiescentBetweenCalls`,
`NoDanglingWork` and `NoRewriteUnderReader` (workers and main never touch the same memory at the wrong time),
`NoLostWakeup` and `CallReturns` (the handshake cannot stall), `NoTaskDropped`, `OwnEntry` (whoever runs a task has
its own slots); `NoDataRace`, `FirstInFirstOut`, `UsableWhenQuiet` and `ImplementsFifo` for the queue, `NoRace` and
`NothingMissed` for its memory orders and its closing; `ThreadsOnOwnCores`, `ConfigHonoured`, `EachIndexOnce` and
`QueueFitsExactly` for what is a matter of numbers; `HeapIsReachable` and `SlotsStable` for
the context; `CaughtWhileInstalled`, `NewestListens` and `StopIsSeen` for signals.

*What "false" of the queue means.* A push may return false on a queue that is not full, even empty, while a pop has
claimed the oldest slot and not given it back; a pop may return false although later elements are there while the
push of the oldest is under way. `BoundedFifo` allows these refusals (`PushRefused`, `PopRefused`) and no others.

*Fairness.* `WorkerPool`: weak fairness of the main thread inside a call and of each worker. The scheduler runs
runnable threads, mutexes are released after a few instructions, tasks are assumed to return. There is none on the
client's choice to make a call nor on spurious wake-ups, so progress rests on the signals alone. `SignalHandler`:
weak fairness of the client inside a call (the end of `nanosleep` included: time passes), of callbacks, and of
delivery of a pending signal. Signals sent are bounded by `MaxSent`; in the program an endless stream of signals
cannot keep a sleep from ending either, because `nanosleep` returns the time left and the loop goes on with that.
`QueueDrain`: weak fairness of each thread and of the main thread's `close`, and strong fairness of a consumer's
successful claim and of its seeing the queue closed. The strong part says that a store becomes visible to a thread
that keeps reading: C11 asks for that "in a finite period of time", and without it a consumer could read an old value
for ever. A producer needs no such assumption on `closed`, and its claim is weakly fair with the rest of its step: in
the model, a slot that has been given back stays readable as such.

*Deadlock* is checked in every passing run.

## 4. Disagreements between the code and what the repository says

Each is a run that TLC ends with the counterexample.

- `pool_retry_after_failed_spawn`: after a partial failure of thread creation, `should_stop` stays set
  (`bc_concurrency.c:130`). The next `dispatch_and_wait` creates the threads again, those exit at once, and the wait
  for their answer never ends.
- `queue_capacity_one`: with capacity 1 the number that says "published" (position + 1) is the one that says "free
  for the next position", and a push overwrites an element not yet popped.
- `signal_installed_twice`: the second `install` saves the callback as the previous action, and `destroy` restores
  in the order of installation, so the callback stays.
- `signal_on_starting_worker`: a worker thread that has not yet blocked signals can run the callback while the client
  destroys the handler.
- `cores_in_container`: cores are counted from the machine's sysfs, not from the cpuset of the process; a worker whose
  core is not allowed stays on the core of the main thread, whose affinity it inherited, although allowed cores are
  free.
- `signal_before_nanosleep`: a signal handled after the call of the sleep and before `nanosleep` is entered does not
  interrupt it.

Two remarks without a run of their own. `bc_concurrency.h:100` calls the main thread "worker 0" in a parallel `for`;
in the code it is `workers[thread_count]` there as everywhere else, and `worker_index` says so. And
`bc_concurrency_queue_create` returns true with a queue whose slots leave its buffer when stride times capacity wraps
around to a size that can be allocated (`queue.c:79-80`), and never returns for a capacity above 2^63 (`queue.c:40`);
no text of the repository says anything of either, so that there is nothing to disagree with. Both are behaviours of
`sized_calls`, and `QueueFitsExactly` says when they happen.

## 5. What is proved

Every invariant, every action property and both refinements that the passing runs check are theorems: TLC says that
they hold of the instance of a run, TLAPS that they hold for all values of the constants. Each module of theorems is
named after the module it is about. A theorem of a specification has the form `Spec => []Inv` and rests on an
inductive invariant, here always the theorem `Invariance` (`RunsInvariance` for the items of the pool): the initial
states satisfy it, every step preserves it (one lemma per action, or per conjunct with a step per action), it implies
the property; the last step of a theorem combines the three with `PTL`. Lemmas on arithmetic, sequences and sets
come first in each module, so that the steps need not speak of division or of cardinalities.

### The pool: WorkerPoolProofs, WorkerPoolRunsProofs, PartitionProofs

For every `ThreadCount`, `InitialCapacity` and `MaxItems` (assumption `PoolAssumption`: naturals, the capacity
positive) and with either value of `RetryAfterFailedSpawn`:

| theorem | property |
|---|---|
| `Typing` | `TypeOK` |
| `Invariance` | `IInv`, the inductive invariant of the handshake |
| `WakeupsNotLost` | `NoLostWakeup` |
| `Quiescence` | `QuiescentBetweenCalls` |
| `MemoryAllocated` | `NoDanglingWork` |
| `NoThreadLeft` | `JoinedBeforeFree` |
| `NoRewrite` | `NoRewriteUnderReader` |
| `RunsInvariance` | `RunsInv`, the inductive invariant of the items |
| `AllOrNone`, `NeverTwice` | `AllOrNothing`, `AtMostOnce` |
| `WithinArrays` | `NoOverrun` |
| `NothingDropped` | `NoTaskDropped` |
| `Implementation` | `ImplementsExecutor`, the refinement of `BatchExecutor` |
| `EntryOfOwn` | `OwnEntry` |
| `PartOffsetStep`, `PartOffsetTotal`, `PartOrder`, `PartCover` | the cut of a batch: the closed form obeys the loop's recurrence, ends where the batch ends, and the parts are in order, disjoint, and leave nothing out |

*The handshake.* That a worker is quiet between calls is not inductive: nothing in it says why the main thread may
stop waiting. `IInv` says what each worker owes at every point of a round. A worker is `Owed` an answer from the
moment the hand-out loop has passed it (with a non-empty slice) until the wait loop has. While it owes one,
`Handshake` says that exactly one of three holds: the work is `Pending`, it is `Running`, or it is `Answered`, and
`done_flag` is set only in the last; when it owes none it is `Parked`. So the wait loop, which passes a worker only
if `done_flag` is set, passes it only when it has answered, and `done_flag` cannot be left over because the hand-out
clears it. `CallInProgress` adds that the arena of the call is allocated while workers may read it, and that a
parallel `for` has an item for each thread, so that every chunk it hands out is non-empty (`ForSliceNotEmpty`, from
`PartNotEmpty`); `ThreadsExist` adds which threads exist during creation, rollback and destroy, from which
`JoinedBeforeFree` follows; `NoLostWakeup` is inductive together with these. TLC checks this `IInv` too, in
`pool_rounds`. `Untouched` collects what actions leave alone.

*The items.* `RunsInv` says how often each item has been run at every point of a call. `Share(t)` is the part of the
batch meant for thread `t`, in both ways of numbering the parts, and `SharesDivide` that the shares are disjoint and
cover the batch. `DoneBy(t)` is how much of it `t` has run: nothing before it takes the work, its loop counter while
it runs, all of it afterwards. `BatchRuns` then says that item `k` of the share of `t` has run once if `k <= DoneBy(t)`
and not otherwise (`Ran`). When the wait loop ends, `Handshake` says that everybody has answered, so that each share
is done and the whole batch has run once (`RanEverything`). `Numbered` and `NotYet` keep the items of later calls
apart from those of this one: numbers are given in the order of introduction.

*The refinement.* For each action of `WorkerPool`, either the mapped variables do not change, or the step is one of
`BatchExecutor` (`ExecutorStep` and the lemmas before it). `NothingDropped` comes with the step that clears the
staging array: by `RunsInv` the tasks in it have run.

### The queue: MpmcQueueProofs

For every set of threads, every set of elements and every `Capacity` of at least 2. The hypothesis
`Capacity >= 2` is in the theorems and not in an assumption: `create` accepts 1, and the theorems are then false
(`queue_capacity_one`).

| theorem | property |
|---|---|
| `Invariance`, `Typing` | `IInv`, `TypeOK` |
| `Boundedness` | `Bounded` |
| `RaceFreedom` | `NoDataRace` |
| `Order` | `FirstInFirstOut` |
| `Usability` | `UsableWhenQuiet` |
| `Refinement` | `ImplementsFifo`, the refinement of `BoundedFifo` |

*The argument.* Positions are of two kinds. Those between the two positions are `Held`: the sequence number is
`p + 1` and the element is there, or one thread is writing it. The following ones, up to a lap after
`dequeue_position`, are `Free`: the sequence number is `p`, or one thread is still reading the position a lap before.
`Writer` and `Reader` say what such a thread finds in its slot, `Distinct` that no two have the same position.
`SlotInWindow` and `WindowApart` turn positions into slots: among `Capacity` consecutive positions each slot occurs
once. This is where two threads on the same slot, one a lap ahead, are excluded, and where capacity 1 fails:
there `p + 1` is also the number that makes the next position free. `Loaded` deals with the time between a load and
the compare-exchange: what was loaded may be old, but if the position still is the current one, the sequence number
seen is too. The refinement has its one step at the compare-exchange; `PushRefusal` and `PopRefusal` show that
a call that returns false does so for one of the causes that `BoundedFifo` allows.

### Draining: QueueDrainProofs

For every number of producers and consumers, at least one of each, every `Quota` and every `Capacity` of at least 2.

| theorem | property |
|---|---|
| `Invariance` | `IInv` |
| `RaceFreedom` | `NoRace` |
| `Delivery` | `NothingMissed` |

*The argument.* Loads return old values, so an invariant about the present value of a sequence number does not say
what a thread has seen. But the values that a sequence number takes are known once and for all: `Value(s, k)` is the
`k`-th, odd `k` meaning free, even `k` published, and with it is released the knowledge of the `k - 1` accesses before
(`Stored`). They grow with `k`, so that a compare-exchange can only succeed for a thread which has read the latest
value (`PushClaimsFree`, `PopClaimsPublished`), and whoever has knows of all accesses: no race. `Alone` and `Places`
say that the owner of a slot is alone and at the value that let it in. For `NothingMissed`: of each position claimed,
some producer still owns it or knows that it was published (`PublisherKnows`); the main thread has joined all of them
when it closes, so that whoever sees `closed` knows of all positions (`ClosedTells`, `LastTryTells`); a pop that fails
after that has found all of them taken (`EndedLast`). `Elements` follows each element from its producer to its slot to
its consumer; an odd number of accesses to a slot means that it holds one.

### Numbers: SizedCallsProofs

For every `Width`, every set of machines, configurations and arguments that satisfies the assumptions.

| theorem | property |
|---|---|
| `Invariance`, `Typing` | `CoreInv`, `CoreTypeOK` |
| `Configuration` | `ConfigHonoured` |
| `OwnCores` | `ThreadsOnOwnCores` |
| `IndicesOnce` | `EachIndexOnce` |
| `SlotsApart` | `QueueFitsExactly` |

*Assumptions.* `SizeTAssumption` states that powers of two are positive naturals, that the next one is the double, and
that those below the width are less than `2^Width`; this needs an induction that is out of the prover's reach, and TLC
evaluates it. `QueueSizesAssumption` states that the size of a cache line divides `2^Width`. `CoreAssumption` states that the data of a thread for each CPU and the
largest block that can be had stay together below `SIZE_MAX`, and that the process may run on some CPU.

*The argument.* Cores: core number `n` is the one with `n` leaders below it; `Ranks` says that the elements of a
finite set have the ranks 0 up to its size, each once, so that every core below the count has one CPU
(`OneCpuPerCore`). `SumDoesNotWrap`: if `core_offset + thread_count` wrapped around and passed the check, the array of
the threads could not have been allocated. Hence a settled thread runs on core `core_offset + t` (`OnCores`), and two of them
on different ones. Indices: no sum on the way to an index exceeds `end` (`Iterations`, `RunIndices`), the chunks
divide the numbers of the iterations (`Divided`, from the cut of a batch), and different numbers are different
indices (`OncePerPlace`). Rounding: `RoundingInv` says that what is reached is a power of two below twice the capacity,
or 0 after the largest power of two was too small (`Powers`, `RoundingStep`). Slots, if no size has wrapped around: the
stride is a multiple of the cache line and at least what a slot takes (`StrideFits`); slots that are a stride apart
neither overlap nor leave the buffer (`RepresentableFits`). The converse, `FitsRepresentable`: the buffer, of whatever
wrapped size, ends a cache line before the end of the address space at the latest (`BufferEnds`), and the first slot
is in it, so that the size of a slot has not wrapped around; had the product done so, the first slot that begins
beyond the end of the address space, or the end of the buffer in its place, would come out before the slot before it.

### Signals: SignalHandlerProofs

For every set of handlers, signals and workers, every size of the table and every number of signals sent.

| theorem | property |
|---|---|
| `Invariance`, `Typing` | `IInv`, `TypeOK` |
| `NewestIsHeard` | `NewestListens` |
| `StoresAreSafe` | `StoresIntoLiveHandler`, given `~StartupWindow` |
| `CaughtExactly` | `CaughtWhileInstalled`, given `~InstallTwice` |
| `AllRestored` | `RestoredOnDestroy`, given `~InstallTwice` |

*The argument.* The pointer is NULL or a live handler (`PointerIsLive`), because `destroy` clears it before it frees
(`DestroyInProgress`). A callback that has loaded the pointer stores into what it loaded: on the client's thread it
ends before the client goes on, and on a worker it needs a worker that has not blocked its signals, of which there is
none during a `destroy` outside the startup window (`CallbackRunning`). For the tables (`TablesInv`): a signal is in
one place of one table (`Apart`), its saved action is the application's, and it is caught as long as it is there and
not restored. The runs `signal_on_starting_worker` and `signal_installed_twice` show that neither hypothesis can be
dropped.

### Memory: ContextLifecycleProofs

For every `ThreadCount`, `MaxSlots` and `SlotInitialCapacity` (positive).

| theorem | property |
|---|---|
| `Invariance`, `Typing` | `IInv`, `TypeOK` |
| `FreedOnce` | `NoBadFree` |
| `NoLeak` | `HeapIsReachable` |
| `SlotsOfOwn` | `SlotsComplete` |
| `SlotsStayPut` | `SlotsStable` |

*The argument.* `Ownership`: each allocated block is held by exactly one place in use, and a place in use holds an
allocated block. A place is in use when it holds a pointer and the loop of `destroy` has not yet passed its worker (`Gone`).
Leaks and double frees are then the same question: an action that gives a place a new block, or frees what some
places hold and clears them or leaves them behind, keeps `Owns` (`OwnsMore`, `OwnsRenewed`, `OwnsLess`). The
second half of `Ownership` says the same of the initialised blocks and the places in the slot arrays. `Built` says
which pointers are set in each phase, for `create` rung by rung, so that a failure label frees what was allocated and
no more (`FreedRungs`); `DataThere` says the same of the slots, worker by worker, so that the undoing of a
registration frees the blocks of the workers before the one it failed at (`UndoStep`). A fresh address exists since the
heap is finite (`FreshAddress`). `SlotsStable` is an action property: of the actions, only `RegisterWorker` and the
undoing write a slot's data pointers while there is a context, and only those of the slot being registered.

## 6. What is only model-checked

Liveness: `CallReturns`, `AllEnd`, `StopIsSeen` and `SleepReturns` stay with TLC, since the prover has no support for
fairness. The disagreements of section 4 are counterexamples found by TLC; there is nothing to prove about them. That
the loops over the CPUs find the leaders, which `Platform` takes as a definition, would need an induction over data.

## 7. What is not modelled, and why

- Reading and parsing the files of sysfs, `sysconf` and the system call that pins: a machine record stands for them.
- The conversion of the sleep's duration to seconds and nanoseconds, and the clamp of the threads' stack size: one
  expression each, without state.
- Tasks that call back into the pool. A submit from a task run by the main thread is dropped by the clear that ends
  the dispatch, and a nested dispatch overwrites the flags of busy workers; the header documents submission as an
  operation of the main thread, so that no text says what should happen.
- Two contexts at a time. They share nothing but the affinity of the main thread and `tls_worker`.
- Consume ordering, and behaviours of C11 in which a relaxed load returns a value that is stored later: `QueueDrain`
  has loads return old values only. A sequentially consistent total order of the fences does not arise, the code has
  none.
- The allocator and the typed array (`bc-allocators`, `bc-core`), which are other projects: an allocation is a choice
  between success and failure, the staging array is a sequence.
- Benchmarks, fuzzing harnesses, tests, build files.

## 8. Plan

The model covers the library and the safety properties of the runs are proved. What is left:

1. `BoundedFifo` and `BatchExecutor` have no theorems of their own. That `fifo` never exceeds `Capacity` elements, and
   that an item of `BatchExecutor` is run at most once, would follow from the abstract specifications alone, and would
   then be inherited by whatever implements them.
2. A queue can be created in `ContextLifecycle` only while there is no context. `Ownership` does not depend on this;
   lifting it makes the runs larger and the proofs longer by the cases in which both exist.
3. `QueueDrain` is a model with more behaviours than `MpmcQueue`; that each behaviour of `MpmcQueue` under the program
   of `QueueDrain` is one of its own is argued in section 2 and not proved.
4. Proofs that are longer than their idea: the steps of registration and its undoing (`ContextLifecycleProofs`) and of
   the elements (`QueueDrainProofs`).
