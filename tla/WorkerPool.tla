----------------------------- MODULE WorkerPool ------------------------------
(****************************************************************************)
(* The worker pool of bc-concurrency: src/context/bc_concurrency.c (worker  *)
(* threads, staging, dispatch_and_wait, destroy) and src/dispatch/          *)
(* bc_concurrency_async.c (bc_concurrency_for).                             *)
(*                                                                          *)
(* One main thread makes every API call; ThreadCount background workers     *)
(* are handed work through a mutex, two condition variables and three flags *)
(* per worker.  Every access to those flags is made under the worker's      *)
(* state_mutex, so a critical section is one step; pthread_cond_wait is the *)
(* pair of a step that goes to sleep and the wake-up (a signal or, at any   *)
(* moment, nothing at all) after which the condition is tested again.       *)
(*                                                                          *)
(* An item is one unit of the caller's work: a submitted task or one        *)
(* iteration of a parallel for.  Items are numbered in the order in which   *)
(* the calls that introduce them are made.                                  *)
(*                                                                          *)
(* An operator named X_Fault is X with a plausible programming error.  No   *)
(* definition uses it: put in the place of X, it makes a property fail,     *)
(* which shows that the property depends on X (see "mutants" in             *)
(* PROJECT.json).                                                           *)
(****************************************************************************)
EXTENDS Integers, Sequences, Partition

CONSTANTS
  ThreadCount,           (* context->thread_count                            *)
  InitialCapacity,       (* BC_CONCURRENCY_STAGING_INITIAL_CAPACITY          *)
  MaxItems,              (* bound: items introduced in a behaviour           *)
  RetryAfterFailedSpawn  (* does the caller make another parallel call after *)
                         (* one failed part-way through thread creation?     *)

ASSUME PoolAssumption ==
  /\ ThreadCount \in Nat
  /\ InitialCapacity \in Nat \ {0}
  /\ MaxItems \in Nat
  /\ RetryAfterFailedSpawn \in BOOLEAN

Workers == 0 .. ThreadCount - 1  (* background workers                       *)
Main    == ThreadCount           (* the main thread's entry of workers[]     *)
Threads == 0 .. ThreadCount      (* both: effective_worker_count of them     *)
Items   == 1 .. MaxItems
Arenas  == {"dispatch", "for"}   (* context->dispatch_work, and the block    *)
                                 (* bc_concurrency_for allocates per call    *)
None    == "none"
NoWorker == -1                   (* tls_worker == NULL                       *)

VARIABLES
  (* bc_concurrency_context_t *)
  staging,            (* tasks submitted and not yet dispatched              *)
  dispatch_capacity,  (* entries dispatch_tasks has room for                 *)
  workers_spawned,
  (* work memory: per arena, its array of items, the slice [first, count]    *)
  (* of it each thread is assigned, and whether the block is allocated       *)
  tasks, assignments, live,
  (* bc_concurrency_worker_t, per background worker *)
  work, ready_flag, done_flag, should_stop,
  (* the worker thread: position, its local `work', items of it done *)
  wpc, wwork, wnext,
  (* the main thread: position, the API call in progress, that call's items, *)
  (* loop counter, items of its own share done, and the locals new_cap       *)
  (* (dispatch_and_wait) and threads_started (spawn_workers)                 *)
  mpc, call, batch, idx, mnext, new_cap, threads_started,
  tls_worker,         (* per thread: the workers[] entry it points to        *)
  (* history: items introduced, executions of each, last call's result       *)
  submitted, runs, result

contextVars == <<staging, dispatch_capacity, workers_spawned>>
arenaVars   == <<tasks, assignments, live>>
flagVars    == <<work, ready_flag, done_flag, should_stop>>
threadVars  == <<wpc, wwork, wnext>>
mainVars    == <<mpc, call, batch, idx, mnext, new_cap, threads_started>>
historyVars == <<submitted, runs, result>>
vars == <<contextVars, arenaVars, flagVars, threadVars, mainVars, tls_worker,
          historyVars>>
-----------------------------------------------------------------------------
(* State just after bc_concurrency_create returned true: no thread exists   *)
(* yet, workers[] is zeroed, dispatch_tasks has its initial capacity.       *)
Init ==
  /\ staging = <<>>
  /\ dispatch_capacity = InitialCapacity
  /\ workers_spawned = FALSE
  /\ tasks = [a \in Arenas |-> <<>>]
  /\ assignments =
       [a \in Arenas |-> [t \in Threads |-> [first |-> 0, count |-> 0]]]
  /\ live = [a \in Arenas |-> a = "dispatch"]
  /\ work = [w \in Workers |-> None]
  /\ ready_flag = [w \in Workers |-> FALSE]
  /\ done_flag = [w \in Workers |-> FALSE]
  /\ should_stop = [w \in Workers |-> FALSE]
  /\ wpc = [w \in Workers |-> "absent"]
  /\ wwork = [w \in Workers |-> None]
  /\ wnext = [w \in Workers |-> 0]
  /\ mpc = "idle"
  /\ call = None
  /\ batch = <<>>
  /\ idx = 0
  /\ mnext = 0
  /\ new_cap = 0
  /\ threads_started = 0
  /\ tls_worker = [t \in Threads |-> NoWorker]
  /\ submitted = 0
  /\ runs = [it \in Items |-> 0]
  /\ result = None
-----------------------------------------------------------------------------
(* Signals.  pthread_cond_signal wakes the thread asleep on the condition,  *)
(* if there is one, and is lost otherwise.                                  *)
SignalReady_Lost(w) == wpc' = wpc

SignalReady(w) ==
  wpc' = [wpc EXCEPT ![w] = IF @ = "asleep" THEN "check" ELSE @]

SignalDone_Lost(w) == mpc' = mpc

SignalDone(w) ==
  mpc' = IF mpc = "asleep" /\ idx = w THEN "wait" ELSE mpc

(* One call of a task function, or one iteration. *)
Execute(it) ==
  runs' = [runs EXCEPT ![it] = @ + 1]

(* n items introduced now. *)
NewItems(n) == [k \in 1 .. n |-> submitted + k]

(* The items a thread was assigned, and the k-th of them. *)
Slice(a, t) == assignments[a][t]
ItemOf(a, t, k) == tasks[a][Slice(a, t).first + k]

(* The main thread leaves the API call it is in. *)
ReturnFromCall(outcome) ==
  /\ mpc' = "idle"
  /\ call' = None
  /\ idx' = 0
  /\ mnext' = 0
  /\ new_cap' = 0
  /\ threads_started' = 0
  /\ result' = outcome
  /\ UNCHANGED batch

(* bc_concurrency_staging_clear *)
ClearStaging_Forgotten == staging' = staging

ClearStaging == staging' = <<>>

(* The main thread goes to the next loop of the call. *)
GoTo(label) ==
  /\ mpc' = label
  /\ idx' = 0
  /\ UNCHANGED <<call, batch, mnext, new_cap, threads_started>>

(* The main thread goes to the next iteration of the loop it is in. *)
Continue ==
  /\ idx' = idx + 1
  /\ UNCHANGED <<mpc, call, batch, mnext, new_cap, threads_started>>
-----------------------------------------------------------------------------
(* bc_concurrency_submit and bc_concurrency_submit_batch: count pushes onto *)
(* the staging array, the last of which may fail to grow it; what was       *)
(* pushed before stays staged.                                              *)
Push(pushed) ==
  /\ mpc = "idle"
  /\ submitted + pushed <= MaxItems
  /\ staging' = staging \o NewItems(pushed)
  /\ submitted' = submitted + pushed
  /\ UNCHANGED <<dispatch_capacity, workers_spawned, arenaVars, flagVars,
                 threadVars, mainVars, tls_worker, runs, result>>

Submit == \E pushed \in 0 .. 1 : Push(pushed)

SubmitBatch ==
  \E task_count \in 1 .. MaxItems : \E pushed \in 0 .. task_count : Push(pushed)

(* What the main thread does next when a call finds work for the pool: the  *)
(* threads are created first if they do not exist yet                       *)
(* (bc_concurrency_ensure_workers_spawned).                                 *)
EnterParallel(name, items) ==
  /\ RetryAfterFailedSpawn \/ \A w \in Workers : ~should_stop[w]
  /\ call' = name
  /\ batch' = items
  /\ mpc' = IF workers_spawned THEN "prepare" ELSE "spawn"
  /\ new_cap' = dispatch_capacity
  /\ result' = None
  /\ UNCHANGED <<idx, mnext, threads_started, tls_worker>>

(* The main thread runs the whole batch itself, as workers[thread_count].   *)
EnterInline(name, items) ==
  /\ call' = name
  /\ batch' = items
  /\ mpc' = "inline"
  /\ tls_worker' = [tls_worker EXCEPT ![Main] = Main]
  /\ result' = None
  /\ UNCHANGED <<idx, mnext, new_cap, threads_started>>

DispatchNothing ==
  /\ mpc = "idle"
  /\ staging = <<>>
  /\ batch' = <<>>
  /\ result' = "ok"
  /\ UNCHANGED <<contextVars, arenaVars, flagVars, threadVars, mpc, call, idx,
                 mnext, new_cap, threads_started, tls_worker, submitted, runs>>

DispatchInline ==
  /\ mpc = "idle"
  /\ staging # <<>>
  /\ ThreadCount = 0 \/ Len(staging) = 1
  /\ EnterInline("dispatch", staging)
  /\ UNCHANGED <<contextVars, arenaVars, flagVars, threadVars, submitted, runs>>

DispatchParallel ==
  /\ mpc = "idle"
  /\ ThreadCount > 0 /\ Len(staging) > 1
  /\ EnterParallel("dispatch", staging)
  /\ UNCHANGED <<contextVars, arenaVars, flagVars, threadVars, submitted, runs>>

(* bc_concurrency_for over total_iterations = n > 0 iterations.  (A zero    *)
(* step and an empty range return at once and change nothing.)              *)
ForInline(n) ==
  /\ mpc = "idle"
  /\ ThreadCount = 0 \/ n <= ThreadCount
  /\ EnterInline("for", NewItems(n))
  /\ submitted' = submitted + n
  /\ UNCHANGED <<contextVars, arenaVars, flagVars, threadVars, runs>>

ForParallel(n) ==
  /\ mpc = "idle"
  /\ ThreadCount > 0 /\ n > ThreadCount
  /\ EnterParallel("for", NewItems(n))
  /\ submitted' = submitted + n
  /\ UNCHANGED <<contextVars, arenaVars, flagVars, threadVars, runs>>
-----------------------------------------------------------------------------
(* Inline execution, and the return that ends it.                           *)
InlineStep ==
  /\ mpc = "inline"
  /\ mnext < Len(batch)
  /\ Execute(batch[mnext + 1])
  /\ mnext' = mnext + 1
  /\ UNCHANGED <<contextVars, arenaVars, flagVars, threadVars, mpc, call, batch,
                 idx, new_cap, threads_started, tls_worker, submitted, result>>

InlineDone_KeepsEntry ==
  /\ mpc = "inline"
  /\ mnext = Len(batch)
  /\ IF call = "dispatch" THEN ClearStaging ELSE UNCHANGED staging
  /\ ReturnFromCall("ok")
  /\ UNCHANGED <<dispatch_capacity, workers_spawned, arenaVars, flagVars,
                 threadVars, submitted, runs, tls_worker>>

InlineDone ==
  /\ mpc = "inline"
  /\ mnext = Len(batch)
  /\ IF call = "dispatch" THEN ClearStaging ELSE UNCHANGED staging
  /\ tls_worker' = [tls_worker EXCEPT ![Main] = NoWorker]
  /\ ReturnFromCall("ok")
  /\ UNCHANGED <<dispatch_capacity, workers_spawned, arenaVars, flagVars,
                 threadVars, submitted, runs>>
-----------------------------------------------------------------------------
(* spawn_workers.  pthread_attr_init or pthread_attr_setstacksize fails     *)
(* before any thread exists.                                                *)
SpawnAttrFails ==
  /\ mpc = "spawn" /\ idx = 0
  /\ ReturnFromCall("failed")
  /\ UNCHANGED <<contextVars, arenaVars, flagVars, threadVars, tls_worker,
                 submitted, runs>>

SpawnOne ==
  /\ mpc = "spawn" /\ idx < ThreadCount
  /\ wpc' = [wpc EXCEPT ![idx] = "check"]
  /\ threads_started' = idx + 1
  /\ idx' = idx + 1
  /\ UNCHANGED <<contextVars, arenaVars, flagVars, wwork, wnext, mpc, call, batch,
                 mnext, new_cap, tls_worker, historyVars>>

(* pthread_create fails: stop and join the threads already started.         *)
SpawnOneFails_NoRollback ==
  /\ mpc = "spawn" /\ idx < ThreadCount
  /\ ReturnFromCall("failed")
  /\ UNCHANGED <<contextVars, arenaVars, flagVars, threadVars, tls_worker,
                 submitted, runs>>

SpawnOneFails ==
  /\ mpc = "spawn" /\ idx < ThreadCount
  /\ GoTo("stop")
  /\ UNCHANGED <<contextVars, arenaVars, flagVars, threadVars, tls_worker,
                 historyVars>>

SpawnDone ==
  /\ mpc = "spawn" /\ idx = ThreadCount
  /\ workers_spawned' = TRUE
  /\ GoTo("prepare")
  /\ UNCHANGED <<staging, dispatch_capacity, arenaVars, flagVars, threadVars,
                 tls_worker, historyVars>>

(* The two loops shared by the failure path of spawn_workers and by         *)
(* bc_concurrency_destroy: ask each thread to stop, then join each.         *)
ThreadsLeft_OneTooMany == idx <= threads_started

ThreadsLeft == idx < threads_started

StopOne ==
  /\ mpc = "stop" /\ ThreadsLeft
  /\ should_stop' = [should_stop EXCEPT ![idx] = TRUE]
  /\ SignalReady(idx)
  /\ Continue
  /\ UNCHANGED <<contextVars, arenaVars, work, ready_flag, done_flag, wwork,
                 wnext, tls_worker, historyVars>>

StopDone ==
  /\ mpc = "stop" /\ ~ThreadsLeft
  /\ GoTo("join")
  /\ UNCHANGED <<contextVars, arenaVars, flagVars, threadVars, tls_worker,
                 historyVars>>

(* pthread_join returns once the thread has exited.                         *)
JoinOne ==
  /\ mpc = "join" /\ ThreadsLeft
  /\ wpc[idx] = "exited"
  /\ wpc' = [wpc EXCEPT ![idx] = "absent"]
  /\ Continue
  /\ UNCHANGED <<contextVars, arenaVars, flagVars, wwork, wnext, tls_worker,
                 historyVars>>

SpawnRolledBack ==
  /\ mpc = "join" /\ ~ThreadsLeft
  /\ call # "destroy"
  /\ ReturnFromCall("failed")
  /\ UNCHANGED <<contextVars, arenaVars, flagVars, threadVars, tls_worker,
                 submitted, runs>>
-----------------------------------------------------------------------------
(* dispatch_and_wait: grow dispatch_tasks by doubling, then copy the staged *)
(* tasks and cut them into one slice per thread.                            *)
TooSmall_OffByOne(cap) == cap + 1 < Len(batch)

TooSmall(cap) == cap < Len(batch)

DoubleCapacity ==
  /\ mpc = "prepare" /\ call = "dispatch"
  /\ TooSmall(new_cap)
  /\ new_cap' = new_cap * 2
  /\ UNCHANGED <<contextVars, arenaVars, flagVars, threadVars, mpc, call, batch,
                 idx, mnext, threads_started, tls_worker, historyVars>>

GrowFails_DropsTasks ==
  /\ mpc = "prepare" /\ call = "dispatch"
  /\ TooSmall(dispatch_capacity) /\ ~TooSmall(new_cap)
  /\ ClearStaging
  /\ ReturnFromCall("failed")
  /\ UNCHANGED <<dispatch_capacity, workers_spawned, arenaVars, flagVars,
                 threadVars, tls_worker, submitted, runs>>

GrowFails ==
  /\ mpc = "prepare" /\ call = "dispatch"
  /\ TooSmall(dispatch_capacity) /\ ~TooSmall(new_cap)
  /\ ReturnFromCall("failed")
  /\ UNCHANGED <<contextVars, arenaVars, flagVars, threadVars, tls_worker,
                 submitted, runs>>

DispatchSlice(n, t) ==
  [first |-> PartOffset(n, ThreadCount + 1, t),
   count |-> PartSize(n, ThreadCount + 1, t)]

CopyAndCut ==
  /\ mpc = "prepare" /\ call = "dispatch"
  /\ ~TooSmall(new_cap)
  /\ dispatch_capacity' = new_cap
  /\ tasks' = [tasks EXCEPT !["dispatch"] = batch]
  /\ assignments' = [assignments EXCEPT !["dispatch"] =
                       [t \in Threads |-> DispatchSlice(Len(batch), t)]]
  /\ GoTo("hand_out")
  /\ UNCHANGED <<staging, workers_spawned, live, flagVars, threadVars, tls_worker,
                 historyVars>>

(* bc_concurrency_for: allocate the block of chunks, or fail.  The main     *)
(* thread keeps chunk 0 for itself; worker w gets chunk w + 1.              *)
ForAllocFails ==
  /\ mpc = "prepare" /\ call = "for"
  /\ ReturnFromCall("failed")
  /\ UNCHANGED <<contextVars, arenaVars, flagVars, threadVars, tls_worker,
                 submitted, runs>>

ForSlice_MainChunkTwice(n, t) ==
  LET chunk == IF t = Main THEN 0 ELSE t
  IN  [first |-> PartOffset(n, ThreadCount + 1, chunk),
       count |-> PartSize(n, ThreadCount + 1, chunk)]

ForSlice(n, t) ==
  LET chunk == IF t = Main THEN 0 ELSE t + 1
  IN  [first |-> PartOffset(n, ThreadCount + 1, chunk),
       count |-> PartSize(n, ThreadCount + 1, chunk)]

ForAlloc ==
  /\ mpc = "prepare" /\ call = "for"
  /\ live' = [live EXCEPT !["for"] = TRUE]
  /\ tasks' = [tasks EXCEPT !["for"] = batch]
  /\ assignments' = [assignments EXCEPT !["for"][Main] = ForSlice(Len(batch), Main)]
  /\ GoTo("hand_out")
  /\ UNCHANGED <<contextVars, flagVars, threadVars, tls_worker, historyVars>>
-----------------------------------------------------------------------------
(* bc_concurrency_dispatch_to_worker, under the worker's state_mutex.       *)
DispatchToWorker_StaleDone(w, a) ==
  /\ work' = [work EXCEPT ![w] = a]
  /\ ready_flag' = [ready_flag EXCEPT ![w] = TRUE]
  /\ SignalReady(w)
  /\ UNCHANGED <<done_flag, should_stop>>

DispatchToWorker(w, a) ==
  /\ work' = [work EXCEPT ![w] = a]
  /\ done_flag' = [done_flag EXCEPT ![w] = FALSE]
  /\ ready_flag' = [ready_flag EXCEPT ![w] = TRUE]
  /\ SignalReady(w)
  /\ UNCHANGED should_stop

HandOutDispatch ==
  /\ mpc = "hand_out" /\ call = "dispatch" /\ idx < ThreadCount
  /\ Slice("dispatch", idx).count > 0
  /\ DispatchToWorker(idx, "dispatch")
  /\ Continue
  /\ UNCHANGED <<contextVars, arenaVars, wwork, wnext, tls_worker, historyVars>>

HandOutNothing ==
  /\ mpc = "hand_out" /\ call = "dispatch" /\ idx < ThreadCount
  /\ Slice("dispatch", idx).count = 0
  /\ Continue
  /\ UNCHANGED <<contextVars, arenaVars, flagVars, threadVars, tls_worker,
                 historyVars>>

HandOutChunk ==
  /\ mpc = "hand_out" /\ call = "for" /\ idx < ThreadCount
  /\ assignments' = [assignments EXCEPT !["for"][idx] = ForSlice(Len(batch), idx)]
  /\ DispatchToWorker(idx, "for")
  /\ Continue
  /\ UNCHANGED <<contextVars, tasks, live, wwork, wnext, tls_worker, historyVars>>

(* The main thread's own share. *)
HandOutDone ==
  /\ mpc = "hand_out" /\ idx = ThreadCount
  /\ tls_worker' = [tls_worker EXCEPT
                      ![Main] = IF Slice(call, Main).count > 0 THEN Main ELSE @]
  /\ GoTo("share")
  /\ UNCHANGED <<contextVars, arenaVars, flagVars, threadVars, historyVars>>

ShareStep ==
  /\ mpc = "share"
  /\ mnext < Slice(call, Main).count
  /\ Execute(ItemOf(call, Main, mnext + 1))
  /\ mnext' = mnext + 1
  /\ UNCHANGED <<contextVars, arenaVars, flagVars, threadVars, mpc, call, batch,
                 idx, new_cap, threads_started, tls_worker, submitted, result>>

ShareDone ==
  /\ mpc = "share"
  /\ mnext = Slice(call, Main).count
  /\ tls_worker' = [tls_worker EXCEPT ![Main] = NoWorker]
  /\ GoTo("wait")
  /\ UNCHANGED <<contextVars, arenaVars, flagVars, threadVars, historyVars>>
-----------------------------------------------------------------------------
(* bc_concurrency_wait_for_worker, for each worker that was given work.     *)
WaitDone ==
  /\ mpc = "wait" /\ idx < ThreadCount
  /\ Slice(call, idx).count > 0 => done_flag[idx]
  /\ Continue
  /\ UNCHANGED <<contextVars, arenaVars, flagVars, threadVars, tls_worker,
                 historyVars>>

WaitSleep ==
  /\ mpc = "wait" /\ idx < ThreadCount
  /\ Slice(call, idx).count > 0 /\ ~done_flag[idx]
  /\ mpc' = "asleep"
  /\ UNCHANGED <<contextVars, arenaVars, flagVars, threadVars, call, batch, idx,
                 mnext, new_cap, threads_started, tls_worker, historyVars>>

WaitSpuriousWakeup_NoRecheck ==
  /\ mpc = "asleep"
  /\ mpc' = "wait"
  /\ idx' = idx + 1
  /\ UNCHANGED <<contextVars, arenaVars, flagVars, threadVars, call, batch,
                 mnext, new_cap, threads_started, tls_worker, historyVars>>

WaitSpuriousWakeup ==
  /\ mpc = "asleep"
  /\ mpc' = "wait"
  /\ UNCHANGED <<contextVars, arenaVars, flagVars, threadVars, call, batch, idx,
                 mnext, new_cap, threads_started, tls_worker, historyVars>>

(* All workers have answered: dispatch_and_wait clears the staging array,   *)
(* bc_concurrency_for frees its block.                                      *)
ReturnParallel ==
  /\ mpc = "wait" /\ idx = ThreadCount
  /\ IF call = "dispatch"
     THEN ClearStaging /\ UNCHANGED live
     ELSE live' = [live EXCEPT !["for"] = FALSE] /\ UNCHANGED staging
  /\ ReturnFromCall("ok")
  /\ UNCHANGED <<dispatch_capacity, workers_spawned, tasks, assignments, flagVars,
                 threadVars, tls_worker, submitted, runs>>
-----------------------------------------------------------------------------
(* bc_concurrency_destroy: stop and join the threads if they were spawned,  *)
(* then free everything.                                                    *)
Destroy ==
  /\ mpc = "idle"
  /\ call' = "destroy"
  /\ mpc' = IF workers_spawned THEN "stop" ELSE "join"
  /\ threads_started' = IF workers_spawned THEN ThreadCount ELSE 0
  /\ UNCHANGED <<contextVars, arenaVars, flagVars, threadVars, batch, idx, mnext,
                 new_cap, tls_worker, historyVars>>

DestroyDone ==
  /\ mpc = "join" /\ ~ThreadsLeft
  /\ call = "destroy"
  /\ live' = [a \in Arenas |-> FALSE]
  /\ GoTo("destroyed")
  /\ UNCHANGED <<contextVars, tasks, assignments, flagVars, threadVars, tls_worker,
                 historyVars>>
-----------------------------------------------------------------------------
(* worker_thread_routine.  At "check" the thread holds state_mutex and      *)
(* evaluates the conditions of the loop.                                    *)
WorkerSleep(w) ==
  /\ wpc[w] = "check"
  /\ ~ready_flag[w] /\ ~should_stop[w]
  /\ wpc' = [wpc EXCEPT ![w] = "asleep"]
  /\ UNCHANGED <<contextVars, arenaVars, flagVars, wwork, wnext, mainVars,
                 tls_worker, historyVars>>

WorkerSpuriousWakeup(w) ==
  /\ wpc[w] = "asleep"
  /\ wpc' = [wpc EXCEPT ![w] = "check"]
  /\ UNCHANGED <<contextVars, arenaVars, flagVars, wwork, wnext, mainVars,
                 tls_worker, historyVars>>

WorkerExit(w) ==
  /\ wpc[w] = "check"
  /\ should_stop[w]
  /\ wpc' = [wpc EXCEPT ![w] = "exited"]
  /\ UNCHANGED <<contextVars, arenaVars, flagVars, wwork, wnext, mainVars,
                 tls_worker, historyVars>>

WorkerTake(w) ==
  /\ wpc[w] = "check"
  /\ ready_flag[w] /\ ~should_stop[w]
  /\ ready_flag' = [ready_flag EXCEPT ![w] = FALSE]
  /\ wwork' = [wwork EXCEPT ![w] = work[w]]
  /\ work' = [work EXCEPT ![w] = None]
  /\ wnext' = [wnext EXCEPT ![w] = 0]
  /\ wpc' = [wpc EXCEPT ![w] = "run"]
  /\ tls_worker' = [tls_worker EXCEPT ![w] = w]
  /\ UNCHANGED <<contextVars, arenaVars, done_flag, should_stop, mainVars,
                 historyVars>>

WorkerRun(w) ==
  /\ wpc[w] = "run"
  /\ wnext[w] < Slice(wwork[w], w).count
  /\ Execute(ItemOf(wwork[w], w, wnext[w] + 1))
  /\ wnext' = [wnext EXCEPT ![w] = @ + 1]
  /\ UNCHANGED <<contextVars, arenaVars, flagVars, wpc, wwork, mainVars,
                 tls_worker, submitted, result>>

WorkerFinish(w) ==
  /\ wpc[w] = "run"
  /\ wnext[w] = Slice(wwork[w], w).count
  /\ done_flag' = [done_flag EXCEPT ![w] = TRUE]
  /\ SignalDone(w)
  /\ wpc' = [wpc EXCEPT ![w] = "check"]
  /\ wwork' = [wwork EXCEPT ![w] = None]
  /\ wnext' = [wnext EXCEPT ![w] = 0]
  /\ tls_worker' = [tls_worker EXCEPT ![w] = NoWorker]
  /\ UNCHANGED <<contextVars, arenaVars, work, ready_flag, should_stop, call,
                 batch, idx, mnext, new_cap, threads_started, historyVars>>
-----------------------------------------------------------------------------
(* The client's choice of its next call, made when no call is in progress.  *)
ClientCall ==
  \/ Submit \/ SubmitBatch
  \/ DispatchNothing \/ DispatchInline \/ DispatchParallel
  \/ \E n \in 1 .. MaxItems - submitted : ForInline(n) \/ ForParallel(n)
  \/ Destroy

(* A step of the main thread inside a call. *)
MainStep ==
  \/ InlineStep \/ InlineDone
  \/ SpawnAttrFails \/ SpawnOne \/ SpawnOneFails \/ SpawnDone
  \/ StopOne \/ StopDone \/ JoinOne \/ SpawnRolledBack
  \/ DoubleCapacity \/ GrowFails \/ CopyAndCut \/ ForAllocFails \/ ForAlloc
  \/ HandOutDispatch \/ HandOutNothing \/ HandOutChunk \/ HandOutDone
  \/ ShareStep \/ ShareDone
  \/ WaitDone \/ WaitSleep \/ ReturnParallel
  \/ DestroyDone

WorkerStep(w) ==
  \/ WorkerSleep(w) \/ WorkerExit(w) \/ WorkerTake(w)
  \/ WorkerRun(w) \/ WorkerFinish(w)

SpuriousWakeup ==
  \/ WaitSpuriousWakeup
  \/ \E w \in Workers : WorkerSpuriousWakeup(w)

(* After bc_concurrency_destroy there is nothing left to do. *)
Destroyed == mpc = "destroyed" /\ UNCHANGED vars

Next ==
  \/ ClientCall
  \/ MainStep
  \/ \E w \in Workers : WorkerStep(w)
  \/ SpuriousWakeup
  \/ Destroyed

Spec == Init /\ [][Next]_vars

(* The scheduler runs every runnable thread, tasks return, and a thread     *)
(* inside a call goes on with it.  Nothing obliges the client to make a     *)
(* call, nor a condition variable to wake up on its own.                    *)
Fairness ==
  /\ WF_vars(MainStep)
  /\ \A w \in Workers : WF_vars(WorkerStep(w))

FairSpec == Spec /\ Fairness
-----------------------------------------------------------------------------
ContextType ==
  /\ staging \in Seq(Items)
  /\ dispatch_capacity \in Nat
  /\ workers_spawned \in BOOLEAN

ArenaType ==
  /\ tasks \in [Arenas -> Seq(Items)]
  /\ assignments \in [Arenas -> [Threads -> [first : Nat, count : Nat]]]
  /\ live \in [Arenas -> BOOLEAN]

FlagType ==
  /\ work \in [Workers -> Arenas \cup {None}]
  /\ ready_flag \in [Workers -> BOOLEAN]
  /\ done_flag \in [Workers -> BOOLEAN]
  /\ should_stop \in [Workers -> BOOLEAN]

ThreadType ==
  /\ wpc \in [Workers -> {"absent", "check", "asleep", "run", "exited"}]
  /\ wwork \in [Workers -> Arenas \cup {None}]
  /\ wnext \in [Workers -> Nat]

MainType ==
  /\ mpc \in {"idle", "inline", "spawn", "stop", "join", "prepare", "hand_out",
              "share", "wait", "asleep", "destroyed"}
  /\ call \in Arenas \cup {None, "destroy"}
  /\ batch \in Seq(Items)
  /\ idx \in 0 .. ThreadCount
  /\ threads_started \in 0 .. ThreadCount
  /\ mnext \in Nat /\ new_cap \in Nat

HistoryType ==
  /\ submitted \in 0 .. MaxItems
  /\ runs \in [Items -> Nat]
  /\ result \in {None, "ok", "failed"}

(* Every variable stays within its type: the flags are booleans, slices     *)
(* are pairs of naturals, each program counter is at one of its labels.     *)
TypeOK ==
  /\ ContextType /\ ArenaType /\ FlagType /\ ThreadType /\ MainType /\ HistoryType
  /\ tls_worker \in [Threads -> Threads \cup {NoWorker}]

(* A call that returned true has run each of its items exactly once; a call *)
(* that returned false (a thread or an array could not be created) has run  *)
(* none of them, so that the caller may try again.                          *)
AllOrNothing ==
  mpc = "idle" =>
    \A k \in 1 .. Len(batch) :
      /\ result = "ok" => runs[batch[k]] = 1
      /\ result = "failed" => runs[batch[k]] = 0

(* No item is ever run twice, whatever the interleaving of the workers, the *)
(* rounds they are handed and the calls that failed before.                 *)
AtMostOnce == \A it \in Items : runs[it] <= 1

(* No wake-up is lost: a worker is not asleep on ready_cond while it has    *)
(* been handed work or told to stop, and the main thread is not asleep on   *)
(* the done_cond of a worker that is done.                                  *)
NoLostWakeup ==
  /\ \A w \in Workers :
       wpc[w] = "asleep" => ~ready_flag[w] /\ ~should_stop[w]
  /\ mpc = "asleep" => ~done_flag[idx]

(* When no call is in progress every worker is parked: none runs a task or  *)
(* holds a work pointer, and none has work pending.  Hence per-worker slots *)
(* may be read by the main thread between calls.                            *)
QuiescentBetweenCalls ==
  mpc \in {"idle", "destroyed"} =>
    \A w \in Workers : wpc[w] # "run" /\ ~ready_flag[w] /\ work[w] = None

(* A worker that runs, or is about to take, a work assignment finds its     *)
(* memory allocated: bc_concurrency_for does not free its block, and        *)
(* destroy nothing at all, under a worker.                                  *)
NoDanglingWork ==
  \A w \in Workers :
    /\ wpc[w] = "run" => wwork[w] \in Arenas /\ live[wwork[w]]
    /\ ready_flag[w] => work[w] \in Arenas /\ live[work[w]]

(* The main thread never rewrites the slice or the array of items a worker  *)
(* is reading without the mutex.                                            *)
NoRewriteUnderReader ==
  [][\A w \in Workers :
       wpc[w] = "run" =>
         LET a == wwork[w]
         IN  tasks'[a] = tasks[a] /\ assignments'[a][w] = assignments[a][w]]_vars

(* dispatch_tasks has room for the tasks copied into it, and all slices lie *)
(* within the array they point into.                                        *)
NoOverrun ==
  /\ Len(tasks["dispatch"]) <= dispatch_capacity
  /\ mpc \in {"hand_out", "share", "wait", "asleep"} =>
       \A t \in Threads :
         (call = "dispatch" \/ t < idx \/ mpc # "hand_out") =>
           Slice(call, t).first + Slice(call, t).count <= Len(tasks[call])

(* The staging array only loses tasks that have run.                        *)
NoTaskDropped ==
  [][\A k \in 1 .. Len(staging) :
       \/ runs[staging[k]] = 1
       \/ k <= Len(staging') /\ staging'[k] = staging[k]]_vars

(* bc_concurrency_destroy frees the context only when no thread is left.    *)
JoinedBeforeFree ==
  mpc = "destroyed" => \A w \in Workers : wpc[w] = "absent"

(* A call, once made, returns: the main thread is not left waiting for a    *)
(* worker.                                                                  *)
CallReturns == mpc # "idle" ~> mpc \in {"idle", "destroyed"}

(* Inside a task, and only there, tls_worker is the entry of the thread the *)
(* task runs on: worker_index, worker_memory and worker_slot never give two *)
(* tasks that run at the same time the same entry, and give nothing to code *)
(* of the client outside its tasks, whichever way the last call went.       *)
OwnEntry ==
  \A t \in Threads :
    LET running == \/ t # Main /\ wpc[t] = "run"
                   \/ t = Main /\ mpc = "inline"
                   \/ t = Main /\ mpc = "share" /\ Slice(call, Main).count > 0
    IN  tls_worker[t] = IF running THEN t ELSE NoWorker

(* The pool does what BatchExecutor promises.  Under this mapping the main  *)
(* thread's position becomes the phase of the executor; threads, slices,    *)
(* flags and memory are hidden.                                             *)
Phase ==
  CASE mpc = "idle" -> "idle"
    [] mpc = "destroyed" -> "closed"
    [] OTHER -> "busy"

Executor ==
  INSTANCE BatchExecutor WITH phase <- Phase, staged <- staging, current <- batch

ImplementsExecutor == Executor!Spec
-----------------------------------------------------------------------------
(* The inductive invariant: what a worker and the main thread owe each      *)
(* other at every point of a round.                                         *)

(* The main thread has passed worker w in the hand-out loop of the current  *)
(* call and not yet in the wait loop.                                       *)
Passed(w) ==
  \/ mpc = "hand_out" /\ w < idx
  \/ mpc = "share"
  \/ mpc \in {"wait", "asleep"} /\ idx <= w

Owed(w) == Passed(w) /\ call \in Arenas /\ Slice(call, w).count > 0

(* A worker that owes an answer has the work pending, is running it, or has *)
(* answered.  done_flag says which: it cannot be left over from an earlier  *)
(* round.                                                                   *)
Pending(w) ==
  ready_flag[w] /\ work[w] = call /\ wpc[w] # "run" /\ ~done_flag[w]
Running(w) ==
  ~ready_flag[w] /\ work[w] = None /\ wpc[w] = "run" /\ wwork[w] = call /\ ~done_flag[w]
Answered(w) ==
  ~ready_flag[w] /\ work[w] = None /\ wpc[w] # "run" /\ done_flag[w]

(* A worker that owes nothing is parked. *)
Parked(w) == ~ready_flag[w] /\ work[w] = None /\ wpc[w] # "run"

Handshake ==
  \A w \in Workers :
    /\ Owed(w) => Pending(w) \/ Running(w) \/ Answered(w)
    /\ ~Owed(w) => Parked(w)

(* Once threads are being handed work, the call is a parallel one; a        *)
(* parallel for has an iteration for every thread, and its block allocated. *)
InParallel == mpc \in {"hand_out", "share", "wait", "asleep"}

CallInProgress ==
  /\ InParallel => call \in Arenas /\ live[call]
  /\ mpc \in {"spawn", "prepare"} => call \in Arenas
  /\ (InParallel \/ mpc \in {"spawn", "prepare"}) /\ call = "for"
       => Len(batch) > ThreadCount
  /\ mpc # "destroyed" => live["dispatch"]
  /\ mpc = "asleep" => idx < ThreadCount

(* Which threads may exist. *)
ThreadsExist ==
  /\ mpc \in {"idle", "inline"} => idx = 0 /\ threads_started = 0
  /\ mpc \in {"idle", "inline"} /\ ~workers_spawned
       => \A w \in Workers : wpc[w] = "absent"
  /\ mpc = "spawn" => threads_started = idx
  /\ mpc \in {"spawn", "stop", "join"}
       => \A w \in Workers : w >= threads_started => wpc[w] = "absent"
  /\ mpc = "join" => \A w \in Workers : w < idx => wpc[w] = "absent"
  /\ InParallel \/ mpc = "prepare" => workers_spawned

(* Each worker does its part of a call when the call asks for it and at no  *)
(* other time, nobody sleeps through a wake-up, and no thread is forgotten. *)
IInv ==
  /\ TypeOK
  /\ Handshake
  /\ NoLostWakeup
  /\ CallInProgress
  /\ ThreadsExist
  /\ JoinedBeforeFree
=============================================================================
