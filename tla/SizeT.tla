-------------------------------- MODULE SizeT ---------------------------------
(****************************************************************************)
(* size_t and its arithmetic, which wraps around.  The width is a           *)
(* parameter: a small one has the same edges as 64 bits.                    *)
(****************************************************************************)
EXTENDS Integers

CONSTANT Width

(* But for the first conjunct these are facts of arithmetic, which no       *)
(* prover supplies.                                                         *)
ASSUME SizeTAssumption ==
  /\ Width \in Nat \ {0}
  /\ \A k \in 0 .. Width : 2^k \in Nat \ {0}
  /\ \A k \in 0 .. Width - 1 : 2^(k + 1) = 2 * 2^k /\ 2^k < 2^Width

Wrap(n) == n % 2^Width

Word == 0 .. 2^Width - 1
=============================================================================
