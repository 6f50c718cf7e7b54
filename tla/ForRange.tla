------------------------------- MODULE ForRange -------------------------------
(****************************************************************************)
(* Which indices bc_concurrency_for calls its iteration function with:      *)
(* the size_t arithmetic of src/dispatch/bc_concurrency_async.c.            *)
(*                                                                          *)
(* Operators named X_Fault are faulty variants, as in WorkerPool.           *)
(****************************************************************************)
EXTENDS SizeT, Partition, Sequences

(* total_iterations, for start < end and step > 0.                          *)
TotalIterations_RoundUp(start, end, step) == Wrap(end - start + step - 1) \div step

TotalIterations(start, end, step) == 1 + (end - start - 1) \div step

Inline(total, threads) == threads = 0 \/ total <= threads

(* parallel_for_chunk_runner, and both loops of the main thread.            *)
Run(start, count, step) == [k \in 1 .. count |-> Wrap(start + (k - 1) * step)]

(* The indices visited by each processor, in order.  The main thread has    *)
(* the first chunk and worker i chunk i + 1; in an inline call the main     *)
(* thread does it all.                                                      *)
Visits(start, end, step, threads) ==
  LET total == TotalIterations(start, end, step)
      parts == threads + 1
  IN  IF start >= end THEN <<>>
      ELSE IF Inline(total, threads) THEN <<Run(start, total, step)>>
      ELSE [p \in 1 .. parts |->
              Run(Wrap(start + PartOffset(total, parts, p - 1) * step),
                  PartSize(total, parts, p - 1), step)]
=============================================================================
