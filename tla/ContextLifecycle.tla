-------------------------- MODULE ContextLifecycle ---------------------------
(****************************************************************************)
(* The memory of a context, from bc_concurrency_create through              *)
(* bc_concurrency_register_slot to bc_concurrency_destroy                   *)
(* (src/context/bc_concurrency.c), and of a queue                           *)
(* (src/queue/bc_concurrency_queue.c) that shares the pool of blocks, when  *)
(* any allocation may fail.                                                 *)
(*                                                                          *)
(* All of it runs on the client's thread while no worker works (see         *)
(* WorkerPool, QuiescentBetweenCalls).  The heap is a set of blocks, named  *)
(* by numbers as addresses are; a freed block may be allocated again; 0 is  *)
(* NULL.  A worker's own memory context counts as a block.                  *)
(*                                                                          *)
(* Operators named X_Fault are faulty variants, as in WorkerPool.           *)
(****************************************************************************)
EXTENDS Integers, Sequences, FiniteSets

CONSTANTS
  ThreadCount,          (* context->thread_count                             *)
  SlotInitialCapacity,  (* BC_CONCURRENCY_SLOT_INITIAL_CAPACITY              *)
  MaxSlots              (* bound: slots registered                           *)

ASSUME LifecycleAssumption ==
  /\ ThreadCount \in Nat /\ MaxSlots \in Nat
  /\ SlotInitialCapacity \in Nat \ {0}

Threads == 0 .. ThreadCount
NULL == 0

(* What bc_concurrency_create allocates from the pool, in this order.       *)
Ladder == <<"context", "staging", "dispatch_tasks", "dispatch_work", "threads",
            "workers">>

Rungs == {Ladder[k] : k \in 1 .. Len(Ladder)}

VARIABLES
  heap,           (* blocks allocated                                        *)
  bad_free,       (* history: something was freed that was not allocated     *)
  phase,          (* "none", "creating", "memories", "ready", "registering", *)
                  (* "destroying"                                            *)
  step,           (* the loop counter of the call in progress                *)
  block,          (* per rung of the ladder: the context's pointer to it     *)
  memory,         (* per worker: worker->memory                              *)
  slot_count, slot_capacity, slot_configs,
  slots,          (* per worker: worker->slots, the array, its entries       *)
  initialised,    (* slot data blocks the init callback has run on           *)
  queue           (* a queue, and its slot_buffer                            *)

vars == <<heap, bad_free, phase, step, block, memory, slot_count, slot_capacity,
          slot_configs, slots, initialised, queue>>

contextVars == <<block, memory>>
slotVars    == <<slot_count, slot_capacity, slot_configs, slots, initialised>>

NoSlots == [array |-> NULL, data |-> <<>>]
NoQueue == [header |-> NULL, slot_buffer |-> NULL]

Init ==
  /\ heap = {} /\ bad_free = FALSE
  /\ phase = "none" /\ step = 0
  /\ block = [r \in Rungs |-> NULL]
  /\ memory = [t \in Threads |-> NULL]
  /\ slot_count = 0 /\ slot_capacity = 0 /\ slot_configs = NULL
  /\ slots = [t \in Threads |-> NoSlots]
  /\ initialised = {}
  /\ queue = NoQueue

(* The k-th block allocated next: the lowest free addresses, in order.      *)
Fresh(k) ==
  CHOOSE p \in 1 .. Cardinality(heap) + k :
    p \notin heap /\ Cardinality((1 .. p) \ heap) = k

(* The pointer that a place holds; a place is a field, an entry of an array *)
(* or, <<"data", t, k>>, the k-th slot of worker t.                         *)
At(place) ==
  CASE place[1] = "block"   -> block[place[2]]
    [] place[1] = "memory"  -> memory[place[2]]
    [] place[1] = "configs" -> slot_configs
    [] place[1] = "array"   -> slots[place[2]].array
    [] place[1] = "data"    -> slots[place[2]].data[place[3]]
    [] place[1] = "queue"   -> queue[place[2]]

NonNull(places) == {p \in places : At(p) # NULL}

(* Free what places point to: blocks that are allocated, and no two the     *)
(* same.                                                                    *)
Release(places) ==
  /\ heap' = heap \ {At(p) : p \in places}
  /\ bad_free' = (bad_free \/ \E p \in places :
                     At(p) \notin heap \/ \E q \in places \ {p} : At(q) = At(p))
-----------------------------------------------------------------------------
(* bc_concurrency_create: the ladder.  There is no array of threads when    *)
(* there are none.                                                          *)
CreateBegin ==
  /\ phase = "none"
  /\ phase' = "creating" /\ step' = 1
  /\ UNCHANGED <<heap, bad_free, block, memory, slotVars>>

Skipped(rung) == rung = "threads" /\ ThreadCount = 0

AllocateRung ==
  /\ phase = "creating"
  /\ IF Skipped(Ladder[step])
     THEN UNCHANGED <<heap, block>>
     ELSE /\ heap' = heap \cup {Fresh(1)}
          /\ block' = [block EXCEPT ![Ladder[step]] = Fresh(1)]
  /\ IF step < Len(Ladder)
     THEN step' = step + 1 /\ phase' = phase
     ELSE step' = 0 /\ phase' = "memories"
  /\ UNCHANGED <<bad_free, memory, slotVars>>

(* Where a failure jumps to in the code at the labels, which fall through:  *)
(* fail_workers is 1, fail_threads 2, ..., fail_context 6.                  *)
Undone == <<"workers", "threads", "dispatch_work", "dispatch_tasks", "staging",
            "context">>

FailureLabel_OneTooHigh(rung) ==
  CASE rung = "context" -> 7 [] rung = "staging" -> 6 [] rung = "dispatch_tasks" -> 5
    [] rung = "dispatch_work" -> 2
    [] rung \in {"threads", "workers"} -> 2

FailureLabel(rung) ==
  CASE rung = "context" -> 7 [] rung = "staging" -> 6 [] rung = "dispatch_tasks" -> 5
    [] rung = "dispatch_work" -> 4
    [] rung \in {"threads", "workers"} -> 2

(* What is freed from a label on; threads is tested for NULL.               *)
FreedFrom(label) ==
  {<<"block", Undone[k]>> : k \in {i \in label .. Len(Undone) :
                                     Undone[i] # "threads" \/ block["threads"] # NULL}}

Forget ==
  /\ phase' = "none" /\ step' = 0
  /\ block' = [r \in Rungs |-> NULL]
  /\ memory' = [t \in Threads |-> NULL]

RungFails ==
  /\ phase = "creating" /\ ~Skipped(Ladder[step])
  /\ Release(FreedFrom(FailureLabel(Ladder[step])))
  /\ Forget
  /\ UNCHANGED slotVars

(* The loop over the workers, and after it the main thread's entry.         *)
CreateWorker ==
  /\ phase = "memories"
  /\ memory' = [memory EXCEPT ![step] = Fresh(1)]
  /\ heap' = heap \cup {Fresh(1)}
  /\ IF step < ThreadCount
     THEN step' = step + 1 /\ phase' = phase
     ELSE step' = 0 /\ phase' = "ready"
  /\ UNCHANGED <<bad_free, block, slotVars>>

(* fail_workers tears down the workers completed before this one.           *)
CreateWorkerFails ==
  /\ phase = "memories"
  /\ Release({<<"memory", t>> : t \in 0 .. step - 1} \cup FreedFrom(1))
  /\ Forget
  /\ UNCHANGED slotVars
-----------------------------------------------------------------------------
(* bc_concurrency_register_slot: grow the array of configurations if it is  *)
(* full, then one iteration per worker.                                     *)
ConfigsFull_OffByOne == slot_count > slot_capacity

ConfigsFull == slot_count >= slot_capacity

(* An array that has been replaced is freed, unless there was none.         *)
Dangling(pointer) == pointer # NULL /\ pointer \notin heap

RegisterBegin ==
  /\ phase = "ready" /\ slot_count < MaxSlots
  /\ IF ConfigsFull
     THEN /\ heap' = (heap \cup {Fresh(1)}) \ {slot_configs}
          /\ bad_free' = (bad_free \/ Dangling(slot_configs))
          /\ slot_configs' = Fresh(1)
          /\ slot_capacity' =
               IF slot_capacity = 0 THEN SlotInitialCapacity ELSE slot_capacity * 2
     ELSE UNCHANGED <<heap, bad_free, slot_configs, slot_capacity>>
  /\ phase' = "registering" /\ step' = 0
  /\ UNCHANGED <<contextVars, slot_count, slots, initialised>>

(* The array of configurations cannot be grown: nothing has changed.        *)
RegisterBeginFails == phase = "ready" /\ ConfigsFull /\ UNCHANGED vars

(* The first slot_count entries are copied to the new array.                *)
Copied_AllButLast(data) == [k \in 1 .. slot_count |->
                              IF k < slot_count THEN data[k] ELSE NULL]

Copied(data) == SubSeq(data, 1, slot_count)

(* The worker's slots with its array replaced by one that has room for the  *)
(* new slot; the old array is freed if there was one.                       *)
Extended(array, data) ==
  [slots EXCEPT ![step] =
     [array |-> array, data |-> Append(Copied(@.data), data)]]

OldArray == {slots[step].array}

DanglingArray == Dangling(slots[step].array)

RegisterWorker ==
  /\ phase = "registering" /\ step <= ThreadCount
  /\ heap' = (heap \cup {Fresh(1), Fresh(2)}) \ OldArray
  /\ bad_free' = (bad_free \/ DanglingArray)
  /\ slots' = Extended(Fresh(1), Fresh(2))
  /\ initialised' = initialised \cup {Fresh(2)}
  /\ step' = step + 1
  /\ UNCHANGED <<phase, contextVars, slot_count, slot_capacity, slot_configs>>

RegisterDone ==
  /\ phase = "registering" /\ step > ThreadCount
  /\ slot_count' = slot_count + 1
  /\ phase' = "ready" /\ step' = 0
  /\ UNCHANGED <<heap, bad_free, contextVars, slot_capacity, slot_configs, slots,
                 initialised>>

(* fail_slots: the data blocks of the workers completed are freed, without  *)
(* a call of the destroy callback; the arrays stay as they are.  bad: the   *)
(* array freed just before was not allocated.                               *)
Completed_OneLess == 0 .. step - 2

Completed == 0 .. step - 1

Undo(h, s, bad) ==
  LET freed == {s[t].data[slot_count + 1] : t \in Completed}
  IN  /\ heap' = h \ freed
      /\ bad_free' = (bad_free \/ bad \/ ~(freed \subseteq h))
      /\ initialised' = initialised \ freed
      /\ slots' = [t \in Threads |->
           IF t \in Completed THEN [s[t] EXCEPT !.data[slot_count + 1] = NULL]
           ELSE s[t]]
      /\ phase' = "ready" /\ step' = 0
      /\ UNCHANGED <<contextVars, slot_count, slot_capacity, slot_configs>>

RegisterArrayFails ==
  /\ phase = "registering" /\ step <= ThreadCount
  /\ Undo(heap, slots, FALSE)

RegisterDataFails ==
  /\ phase = "registering" /\ step <= ThreadCount
  /\ Undo((heap \cup {Fresh(1)}) \ OldArray, Extended(Fresh(1), NULL),
          DanglingArray)
-----------------------------------------------------------------------------
(* bc_concurrency_destroy, after the threads are joined: worker by worker   *)
(* its slots from the last to the first, its array, its memory context.     *)
DestroyBegin ==
  /\ phase = "ready"
  /\ phase' = "destroying" /\ step' = 0
  /\ UNCHANGED <<heap, bad_free, contextVars, slotVars>>

SlotData(t) == {<<"data", t, k>> : k \in 1 .. slot_count}

DestroyWorker ==
  /\ phase = "destroying" /\ step <= ThreadCount
  /\ Release(NonNull(SlotData(step) \cup {<<"array", step>>}) \cup {<<"memory", step>>})
  /\ initialised' = initialised \ {slots[step].data[k] : k \in 1 .. slot_count}
  /\ step' = step + 1
  /\ UNCHANGED <<phase, block, memory, slot_count, slot_capacity, slot_configs,
                 slots>>

DestroyContext ==
  /\ phase = "destroying" /\ step > ThreadCount
  /\ Release(NonNull({<<"configs">>}) \cup FreedFrom(1))
  /\ Forget
  /\ slot_count' = 0 /\ slot_capacity' = 0 /\ slot_configs' = NULL
  /\ slots' = [t \in Threads |-> NoSlots]
  /\ UNCHANGED initialised

-----------------------------------------------------------------------------
(* bc_concurrency_queue_create, and bc_concurrency_queue_destroy, between   *)
(* calls on the context.  A bound: a queue is created while there is no     *)
(* context.                                                                 *)
QueueCreate ==
  /\ phase = "none" /\ queue = NoQueue
  /\ heap' = heap \cup {Fresh(1), Fresh(2)}
  /\ queue' = [header |-> Fresh(1), slot_buffer |-> Fresh(2)]
  /\ UNCHANGED <<bad_free, phase, step, contextVars, slotVars>>

QueuePlaces == {<<"queue", "header">>, <<"queue", "slot_buffer">>}

(* The queue is freed again if its slot_buffer cannot be had.               *)
QueueCreateFails ==
  /\ phase = "none" /\ queue = NoQueue
  /\ heap' = (heap \cup {Fresh(1)}) \ {Fresh(1)}
  /\ UNCHANGED <<bad_free, phase, step, contextVars, slotVars, queue>>

QueueDestroy ==
  /\ phase \in {"none", "ready"} /\ queue # NoQueue
  /\ Release(QueuePlaces)
  /\ queue' = NoQueue
  /\ UNCHANGED <<phase, step, contextVars, slotVars>>

Create  == CreateBegin \/ AllocateRung \/ RungFails \/ CreateWorker \/ CreateWorkerFails
Register ==
  \/ RegisterBegin \/ RegisterBeginFails \/ RegisterWorker \/ RegisterDone
  \/ RegisterArrayFails \/ RegisterDataFails
Destroy == DestroyBegin \/ DestroyWorker \/ DestroyContext

Next ==
  \/ (Create \/ Register \/ Destroy) /\ UNCHANGED queue
  \/ QueueCreate \/ QueueCreateFails \/ QueueDestroy

Spec == Init /\ [][Next]_vars
-----------------------------------------------------------------------------
(* Every variable stays within its type. *)
TypeOK ==
  /\ heap \subseteq Nat \ {NULL} /\ bad_free \in BOOLEAN
  /\ phase \in {"none", "creating", "memories", "ready", "registering", "destroying"}
  /\ step \in Nat
  /\ block \in [Rungs -> Nat] /\ memory \in [Threads -> Nat]
  /\ slot_count \in 0 .. MaxSlots /\ slot_configs \in Nat
  /\ slot_capacity \in Nat /\ slot_count <= slot_capacity
  /\ slots \in [Threads -> [array : Nat, data : Seq(Nat)]]
  /\ initialised \subseteq heap
  /\ queue \in [header : Nat, slot_buffer : Nat]

(* Nothing is freed twice, nor before it was allocated, on any of the       *)
(* failure paths.                                                           *)
NoBadFree == ~bad_free

(* The blocks reachable from the context and from the queue.                *)
Places ==
  ({"block"} \X Rungs) \cup ({"memory"} \X Threads) \cup {<<"configs">>}
    \cup ({"array"} \X Threads) \cup QueuePlaces
    \cup UNION {{"data"} \X {t} \X (1 .. Len(slots[t].data)) : t \in Threads}

Reachable   == {At(p) : p \in NonNull(Places)}
QueueBlocks == {At(p) : p \in NonNull(QueuePlaces)}

(* Between calls every block allocated is reachable from the context or the *)
(* queue, and every pointer of theirs points to an allocated block: no leak *)
(* and no dangling pointer after any sequence of failures.  With no context *)
(* left only the queue is allocated.                                        *)
HeapIsReachable ==
  /\ phase = "ready" => heap = Reachable
  /\ phase = "none" => heap = QueueBlocks

(* Each worker has a data block of its own for each registered slot, and    *)
(* its init callback has run: what foreach_slot and worker_slot hand out.   *)
SlotsComplete ==
  phase = "ready" =>
    /\ \A t \in Threads : \A k \in 1 .. slot_count :
         slots[t].data[k] \in initialised
    /\ \A t, u \in Threads : \A k, l \in 1 .. slot_count :
         slots[t].data[k] = slots[u].data[l] => t = u /\ k = l

(* A registered slot stays where it is: registering more, or failing to,    *)
(* moves no worker's data.                                                  *)
SlotsStable ==
  [][phase = "ready" \/ phase = "registering" =>
       \A t \in Threads : \A k \in 1 .. slot_count :
         k <= Len(slots'[t].data) /\ slots'[t].data[k] = slots[t].data[k]]_vars
=============================================================================
