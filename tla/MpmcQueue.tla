------------------------------ MODULE MpmcQueue ------------------------------
(****************************************************************************)
(* The bounded multi-producer multi-consumer queue:                         *)
(* src/queue/bc_concurrency_queue.c.                                        *)
(*                                                                          *)
(* Threads push, pop and close without locks.  Every atomic load, store and *)
(* compare-exchange is a step of its own, in a single total order; the copy *)
(* of an element into or out of its slot is not atomic: a thread is at      *)
(* "write" or "read" while it copies.  Positions are 64-bit counters that   *)
(* start at 0 and only grow, one per completed push or pop: they are        *)
(* unbounded naturals here, and slots are numbered by position modulo the   *)
(* capacity, a power of two.                                                *)
(*                                                                          *)
(* Operators named X_Fault are faulty variants, as in WorkerPool.           *)
(****************************************************************************)
EXTENDS Integers, Sequences, FiniteSets

CONSTANTS
  Threads,      (* threads sharing the queue                                 *)
  Capacity,     (* queue->capacity: the requested capacity rounded up        *)
  Items,        (* elements; none is pushed twice, so that a duplicate or a  *)
                (* loss can be seen.  Their number bounds the pushes.        *)
  NoItem        (* the zeroed contents of a new slot or of an out_item       *)

ASSUME QueueAssumption ==
  /\ Capacity \in Nat \ {0}
  /\ NoItem \notin Items

Slots == 0 .. Capacity - 1

VARIABLES
  enqueue_position, dequeue_position, closed,
  sequence,     (* per slot: its sequence number                             *)
  data,         (* per slot: the element stored there                        *)
  pc,           (* per thread: where it is in push or pop                    *)
  position,     (* per thread: its local `position'                          *)
  item,         (* per thread: *item of its push, or *out_item of its pop    *)
  pushed        (* history: the elements in the order they were accepted     *)

queueVars  == <<enqueue_position, dequeue_position, closed, sequence, data, pushed>>
threadVars == <<pc, position, item>>
vars == <<queueVars, threadVars>>

(* bc_concurrency_queue_slot_sequence, bc_concurrency_queue_slot_data: the  *)
(* slot a position falls on.                                                *)
Slot(p) == p % Capacity

(* bc_concurrency_queue_create *)
Init ==
  /\ enqueue_position = 0 /\ dequeue_position = 0
  /\ closed = FALSE
  /\ sequence = [s \in Slots |-> s]
  /\ data = [s \in Slots |-> NoItem]
  /\ pc = [t \in Threads |-> "idle"]
  /\ position = [t \in Threads |-> 0]
  /\ item = [t \in Threads |-> NoItem]
  /\ pushed = <<>>

GoTo(t, label) == pc' = [pc EXCEPT ![t] = label]

(* A call returns.  What it leaves in its locals is of no account.          *)
Return(t) ==
  /\ GoTo(t, "idle")
  /\ position' = [position EXCEPT ![t] = 0]
  /\ item' = [item EXCEPT ![t] = NoItem]
-----------------------------------------------------------------------------
(* bc_concurrency_queue_push.  It looks at `closed' once, at the start.     *)
Fresh(it) ==
  /\ \A k \in 1 .. Len(pushed) : pushed[k] # it
  /\ \A t \in Threads : item[t] # it

PushBegin(t) ==
  /\ pc[t] = "idle"
  /\ ~closed
  /\ \E it \in Items : Fresh(it) /\ item' = [item EXCEPT ![t] = it]
  /\ GoTo(t, "push_load")
  /\ UNCHANGED <<queueVars, position>>

PushLoad(t) ==
  /\ pc[t] = "push_load"
  /\ position' = [position EXCEPT ![t] = enqueue_position]
  /\ GoTo(t, "push_inspect")
  /\ UNCHANGED <<queueVars, item>>

(* `difference' as push computes it: zero when the slot is free for this    *)
(* position, negative when it still holds an earlier element, positive when *)
(* another thread has taken the position.                                   *)
PushDifference_NeverFull(t) ==
  IF sequence[Slot(position[t])] <= position[t] THEN 0
  ELSE sequence[Slot(position[t])] - position[t]

PushDifference(t) == sequence[Slot(position[t])] - position[t]

PushFree(t) ==
  /\ pc[t] = "push_inspect" /\ PushDifference(t) = 0
  /\ GoTo(t, "push_cas")
  /\ UNCHANGED <<queueVars, position, item>>

PushFull(t) ==
  /\ pc[t] = "push_inspect" /\ PushDifference(t) < 0
  /\ Return(t)
  /\ UNCHANGED queueVars

PushStale(t) ==
  /\ pc[t] = "push_inspect" /\ PushDifference(t) > 0
  /\ GoTo(t, "push_load")
  /\ UNCHANGED <<queueVars, position, item>>

(* atomic_compare_exchange_weak succeeds only if enqueue_position still has *)
(* the value read before; it may fail even then, and then loads the value.  *)
PushClaims_NoCompare(t) == position[t] <= enqueue_position

PushClaims(t) == enqueue_position = position[t]

PushCas(t) ==
  /\ pc[t] = "push_cas" /\ PushClaims(t)
  /\ enqueue_position' = position[t] + 1
  /\ pushed' = Append(pushed, item[t])
  /\ GoTo(t, "write")
  /\ UNCHANGED <<dequeue_position, closed, sequence, data, position, item>>

PushCasFails(t) ==
  /\ pc[t] = "push_cas"
  /\ position' = [position EXCEPT ![t] = enqueue_position]
  /\ GoTo(t, "push_inspect")
  /\ UNCHANGED <<queueVars, item>>

PushWrite(t) ==
  /\ pc[t] = "write"
  /\ data' = [data EXCEPT ![Slot(position[t])] = item[t]]
  /\ GoTo(t, "publish")
  /\ UNCHANGED <<enqueue_position, dequeue_position, closed, sequence, position,
                 item, pushed>>

(* The release store of the sequence number, and return true. *)
Published(p) == p + 1

PushPublish(t) ==
  /\ pc[t] = "publish"
  /\ sequence' = [sequence EXCEPT ![Slot(position[t])] = Published(position[t])]
  /\ Return(t)
  /\ UNCHANGED <<enqueue_position, dequeue_position, closed, data, pushed>>
-----------------------------------------------------------------------------
(* bc_concurrency_queue_pop.  It does not look at `closed'.                 *)
PopBegin(t) ==
  /\ pc[t] = "idle"
  /\ position' = [position EXCEPT ![t] = dequeue_position]
  /\ GoTo(t, "pop_inspect")
  /\ UNCHANGED <<queueVars, item>>

PopDifference_PushRule(t) == sequence[Slot(position[t])] - position[t]

PopDifference(t) == sequence[Slot(position[t])] - (position[t] + 1)

PopReady(t) ==
  /\ pc[t] = "pop_inspect" /\ PopDifference(t) = 0
  /\ GoTo(t, "pop_cas")
  /\ UNCHANGED <<queueVars, position, item>>

PopEmpty(t) ==
  /\ pc[t] = "pop_inspect" /\ PopDifference(t) < 0
  /\ Return(t)
  /\ UNCHANGED queueVars

PopStale(t) ==
  /\ pc[t] = "pop_inspect" /\ PopDifference(t) > 0
  /\ position' = [position EXCEPT ![t] = dequeue_position]
  /\ UNCHANGED <<queueVars, pc, item>>

PopClaims_NoCompare(t) == position[t] <= dequeue_position

PopClaims(t) == dequeue_position = position[t]

PopCas(t) ==
  /\ pc[t] = "pop_cas" /\ PopClaims(t)
  /\ dequeue_position' = position[t] + 1
  /\ GoTo(t, "read")
  /\ UNCHANGED <<enqueue_position, closed, sequence, data, position, item, pushed>>

PopCasFails(t) ==
  /\ pc[t] = "pop_cas"
  /\ position' = [position EXCEPT ![t] = dequeue_position]
  /\ GoTo(t, "pop_inspect")
  /\ UNCHANGED <<queueVars, item>>

PopRead(t) ==
  /\ pc[t] = "read"
  /\ item' = [item EXCEPT ![t] = data[Slot(position[t])]]
  /\ GoTo(t, "release")
  /\ UNCHANGED <<queueVars, position>>

(* The slot is free again for the position one lap later. *)
Released_OneTooFar(p) == p + Capacity + 1
Released_LapBack(p) == p - Capacity

Released(p) == p + Capacity

PopRelease(t) ==
  /\ pc[t] = "release"
  /\ sequence' = [sequence EXCEPT ![Slot(position[t])] = Released(position[t])]
  /\ Return(t)
  /\ UNCHANGED <<enqueue_position, dequeue_position, closed, data, pushed>>
-----------------------------------------------------------------------------
(* bc_concurrency_queue_close, at any time, by any thread. *)
Close ==
  /\ ~closed
  /\ closed' = TRUE
  /\ UNCHANGED <<enqueue_position, dequeue_position, sequence, data, threadVars,
                 pushed>>

Push(t) ==
  \/ PushBegin(t) \/ PushLoad(t) \/ PushFree(t) \/ PushFull(t) \/ PushStale(t)
  \/ PushCas(t) \/ PushCasFails(t) \/ PushWrite(t) \/ PushPublish(t)

Pop(t) ==
  \/ PopBegin(t) \/ PopReady(t) \/ PopEmpty(t) \/ PopStale(t)
  \/ PopCas(t) \/ PopCasFails(t) \/ PopRead(t) \/ PopRelease(t)

Next ==
  \/ \E t \in Threads : Push(t) \/ Pop(t)
  \/ Close

Spec == Init /\ [][Next]_vars
-----------------------------------------------------------------------------
Writing(t) == pc[t] \in {"write", "publish"}
Reading(t) == pc[t] \in {"read", "release"}

(* Every variable stays within its type. *)
TypeOK ==
  /\ enqueue_position \in Nat /\ dequeue_position \in Nat
  /\ closed \in BOOLEAN
  /\ sequence \in [Slots -> Nat]
  /\ data \in [Slots -> Items \cup {NoItem}]
  /\ pc \in [Threads ->
       {"idle", "push_load", "push_inspect", "push_cas", "write", "publish",
        "pop_inspect", "pop_cas", "read", "release"}]
  /\ position \in [Threads -> Nat]
  /\ item \in [Threads -> Items \cup {NoItem}]
  /\ pushed \in Seq(Items)

(* The queue never holds more elements than its capacity, nor fewer than    *)
(* none: "MPMC bounded queue" (bc_concurrency.h:111).                       *)
Bounded == enqueue_position - dequeue_position \in 0 .. Capacity

(* The copy of an element into or out of a slot overlaps no other thread's  *)
(* copy of the same slot: there is no data race on slot_data.               *)
NoDataRace ==
  \A t, u \in Threads :
    /\ t # u
    /\ Writing(t) \/ Reading(t)
    /\ Writing(u) \/ Reading(u)
    => Slot(position[t]) # Slot(position[u])

(* The k-th pop to succeed returns the k-th element accepted by a push:     *)
(* first in first out, nothing lost, nothing returned twice.                *)
FirstInFirstOut ==
  /\ \A t \in Threads :
       pc[t] = "release" => /\ position[t] < Len(pushed)
                            /\ item[t] = pushed[position[t] + 1]
  /\ \A t, u \in Threads :
       t # u /\ Reading(t) /\ Reading(u) => position[t] # position[u]

(* When no call is in progress the queue is in order: each element it holds *)
(* is ready to be popped, each other slot ready to be pushed.  No sequence  *)
(* of calls wedges it.                                                      *)
UsableWhenQuiet ==
  (\A t \in Threads : pc[t] = "idle") =>
    /\ \A p \in dequeue_position .. enqueue_position - 1 :
         sequence[Slot(p)] = p + 1 /\ data[Slot(p)] = pushed[p + 1]
    /\ \A p \in enqueue_position .. dequeue_position + Capacity - 1 :
         sequence[Slot(p)] = p

(* The elements in the queue, and the call a thread is in, as BoundedFifo   *)
(* sees them.                                                               *)
Contents == SubSeq(pushed, dequeue_position + 1, Len(pushed))

CallOf(t) ==
  CASE pc[t] \in {"push_load", "push_inspect", "push_cas"}
                      -> [op |-> "push",  item |-> item[t]]
    [] Writing(t)     -> [op |-> "put",   item |-> item[t]]
    [] pc[t] \in {"pop_inspect", "pop_cas"}
                      -> [op |-> "pop",   item |-> NoItem]
    [] pc[t] = "read" -> [op |-> "taken", item |-> pushed[position[t] + 1]]
    [] pc[t] = "release" -> [op |-> "taken", item |-> item[t]]
    [] OTHER          -> [op |-> "none",  item |-> NoItem]

Calls == [t \in Threads |-> CallOf(t)]

Fifo == INSTANCE BoundedFifo WITH fifo <- Contents, call <- Calls

(* The queue does what BoundedFifo promises.  A push takes effect at its    *)
(* compare-exchange, and so does a pop: what a pop that has copied its      *)
(* element returns is the element that was oldest at that moment.           *)
ImplementsFifo == Fifo!Spec
=============================================================================
