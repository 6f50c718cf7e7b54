------------------------------ MODULE Partition ------------------------------
(****************************************************************************)
(* How a batch of n items is cut into contiguous parts of almost equal      *)
(* size.  bc_concurrency_dispatch_and_wait and bc_concurrency_for compute   *)
(* the same cut, with one part per background worker and one for the main   *)
(* thread.  Parts are numbered from 0, and so are the items of a batch.     *)
(****************************************************************************)
EXTENDS Integers

(* Operators named X_Fault are faulty variants, as in WorkerPool.           *)

(* count = base + (i < extra ? 1 : 0)                                       *)
PartSize(n, parts, i) ==
  n \div parts + IF i < n % parts THEN 1 ELSE 0

(* The value of the running offset when the loop reaches part i.  The code  *)
(* accumulates it; PartitionProofs shows that this closed form obeys the    *)
(* loop's recurrence (PartOffsetZero, PartOffsetStep).                      *)
PartOffset_NoExtra(n, parts, i) == i * (n \div parts)

PartOffset(n, parts, i) ==
  i * (n \div parts) + IF i < n % parts THEN i ELSE n % parts
=============================================================================
