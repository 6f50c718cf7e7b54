------------------------------ MODULE QueueSizes ------------------------------
(****************************************************************************)
(* The sizes bc_concurrency_queue_create computes                           *)
(* (src/queue/bc_concurrency_queue.c).                                      *)
(*                                                                          *)
(* Operators named X_Fault are faulty variants, as in WorkerPool.           *)
(****************************************************************************)
EXTENDS SizeT

CONSTANTS
  CacheLine,            (* BC_CONCURRENCY_QUEUE_CACHELINE_BYTES              *)
  SizeOfSequence        (* sizeof(_Atomic uint64_t)                          *)

(* A cache line is a power of two bytes, no more than a size_t counts.      *)
ASSUME QueueSizesAssumption ==
  /\ CacheLine \in Nat \ {0} /\ SizeOfSequence \in Nat
  /\ 2^Width % CacheLine = 0

PowersOfTwo == {2^k : k \in 0 .. Width - 1}

(* bc_concurrency_queue_round_up_power_of_two begins with 1, unless         *)
(* bc_concurrency_queue_is_power_of_two spares the call, and shifts left.   *)
(* The shift of the largest power of two leaves 0.                          *)
FirstPower(capacity) == IF capacity \in PowersOfTwo THEN capacity ELSE 1

NextPower(power) == Wrap(2 * power)

(* (value + alignment - 1) & ~(alignment - 1): a multiple of the alignment, *)
(* itself a power of two.                                                   *)
AlignUp_Down(value, alignment) == value - (value % alignment)

AlignUp(value, alignment) ==
  LET sum == Wrap(value + alignment - 1) IN sum - (sum % alignment)

Stride(element_size) == AlignUp(Wrap(SizeOfSequence + element_size), CacheLine)

SlotBufferBytes(element_size, effective_capacity) ==
  Wrap(Stride(element_size) * effective_capacity)

(* Where bc_concurrency_queue_slot_sequence and ..._slot_data point to, in  *)
(* the buffer of a queue.  The mask is a remainder: the capacity is a power *)
(* of two.                                                                  *)
SequenceAt(position, element_size, effective_capacity) ==
  Wrap((position % effective_capacity) * Stride(element_size))

DataAt(position, element_size, effective_capacity) ==
  SequenceAt(position, element_size, effective_capacity) + SizeOfSequence
=============================================================================
