----------------------------- MODULE MCHashJoin -----------------------------
(***************************************************************************)
(* The fault instance of HashJoin (the passing instances are MCJoins').    *)
(* SLOT is 4 as in hash_table.h.                                           *)
(***************************************************************************)
EXTENDS HashJoin

\* Join keys: 0..3 differ modulo 1, 2 and 4, so rounds 0 to 2 split them.
JoinKeys == 0..3
\* Probe rows may carry any join key.
AnyKey(n) == JoinKeys

\* A build of 11 rows: enough puts for a split to reach the resized tail.
ResizeSizes == {<<11, 11>>}

=============================================================================
