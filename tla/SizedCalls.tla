------------------------------ MODULE SizedCalls ------------------------------
(****************************************************************************)
(* The calls of a program whose outcome is a matter of numbers:             *)
(* bc_concurrency_create and the threads it leads to (CoreAssignment),      *)
(* bc_concurrency_for with the number of threads of that context            *)
(* (ForRange), and bc_concurrency_queue_create (QueueSizes).                *)
(****************************************************************************)
EXTENDS CoreAssignment, ForRange, QueueSizes

CONSTANT Samples        (* arguments: small numbers and some near SIZE_MAX   *)

ASSUME SamplesAssumption == Samples \subseteq Word

VARIABLE call           (* the last step, if it was a call of for or         *)
                        (* queue_create                                      *)

vars == <<coreVars, call>>

NoCall == [op |-> "none"]

Init == CoreInit /\ call = NoCall

(* bc_concurrency_for, seen from its iteration function.  The parallel path *)
(* has the workers spawned first.                                           *)
For(start, end, step) ==
  /\ call = NoCall /\ context.exists /\ step > 0
  /\ Inline(TotalIterations(start, end, step), context.thread_count) \/ Spawned
  /\ call' = [op |-> "for", start |-> start, end |-> end, step |-> step,
              visits |-> Visits(start, end, step, context.thread_count)]
  /\ UNCHANGED coreVars

(* bc_concurrency_queue_create rounds the capacity up,                      *)
Rounding == call.op = "rounding"

QueueCreate(element_size, capacity) ==
  /\ call = NoCall /\ element_size > 0 /\ capacity > 0
  /\ call' = [op |-> "rounding", element_size |-> element_size,
              capacity |-> capacity, power |-> FirstPower(capacity)]
  /\ UNCHANGED coreVars

(* which for a capacity above the largest power of two goes on for ever,    *)
RoundUp ==
  /\ Rounding /\ call.power < call.capacity
  /\ call' = [call EXCEPT !.power = NextPower(@)]
  /\ UNCHANGED coreVars

Rounded == Rounding /\ call.power >= call.capacity

(* and asks for as many bytes as the product of stride and capacity wraps   *)
(* around to.  None is a number of bytes, too; the allocator may grant it.  *)
QueueCreated ==
  /\ Rounded
  /\ LET bytes == SlotBufferBytes(call.element_size, call.power)
     IN  /\ Allocates(bytes)
         /\ call' = [op |-> "queue_create", element_size |-> call.element_size,
                     asked |-> call.capacity, capacity |-> call.power,
                     bytes |-> bytes]
  /\ UNCHANGED coreVars

(* The queue or its buffer cannot be had: nothing is left of the call.      *)
QueueFails == Rounded /\ call' = NoCall /\ UNCHANGED coreVars

Next ==
  \/ ~Rounding /\ CoreNext /\ call' = NoCall
  \/ Rounding /\ WorkerStep /\ UNCHANGED call
  \/ \E start, end, step \in Samples : For(start, end, step)
  \/ \E element_size, capacity \in Samples : QueueCreate(element_size, capacity)
  \/ RoundUp \/ QueueCreated \/ QueueFails

Spec == Init /\ [][Next]_vars
-----------------------------------------------------------------------------
(* A parallel for calls the iteration function with start, start + step,    *)
(* and so on up to but not including end, each once, on whatever processor, *)
(* even next to SIZE_MAX, where an index computed too far would wrap around *)
(* (bc_concurrency_for, parallel_for_chunk_runner).                         *)
EachIndexOnce ==
  call.op = "for" =>
    LET wanted == {i \in call.start .. call.end - 1 : (i - call.start) % call.step = 0}
        places == UNION {{p} \X DOMAIN call.visits[p] : p \in DOMAIN call.visits}
    IN  /\ {call.visits[q[1]][q[2]] : q \in places} = wanted
        /\ Cardinality(places) = Cardinality(wanted)

(* Every slot of a queue lies within the buffer and starts on a cache line  *)
(* of its own, which no other slot, the longest element included, reaches   *)
(* into; a position has the slot of the position a lap before.              *)
Fits(element_size, n, bytes) ==
  LET From(p) == SequenceAt(p, element_size, n)
      To(p)   == DataAt(p, element_size, n) + element_size
  IN  /\ \A p \in 0 .. n - 1 : To(p) <= bytes /\ From(p) % CacheLine = 0
      /\ \A p, q \in 0 .. n - 1 : p < q => To(p) <= From(q)
      /\ \A p \in n .. 2 * n - 1 : From(p) = From(p - n)

(* The size of a slot, before it is aligned down to a cache line, and the   *)
(* size of all slots are numbers of the type size_t.                        *)
Representable(element_size, n) ==
  /\ SizeOfSequence + element_size + CacheLine - 1 \in Word
  /\ Stride(element_size) * n \in Word

(* What bc_concurrency_queue_create does for every capacity and element     *)
(* size, although it looks for overflow nowhere.  The capacity it rounds to *)
(* is a power of two, less than twice what was asked for; it looks for one  *)
(* in vain only if there is none.  The slots of the queue created fit its   *)
(* buffer exactly if no size has wrapped around: there is no queue saved by *)
(* luck, and none spoiled by anything else (slot_sequence, slot_data).      *)
QueueFitsExactly ==
  /\ Rounding /\ call.power = 0 => \A power \in PowersOfTwo : power < call.capacity
  /\ call.op = "queue_create" =>
       /\ call.capacity \in PowersOfTwo
       /\ call.asked <= call.capacity /\ call.capacity < 2 * call.asked
       /\ Fits(call.element_size, call.capacity, call.bytes)
            <=> Representable(call.element_size, call.capacity)
=============================================================================
