--------------------------- MODULE JoinAlgorithms ---------------------------
(***************************************************************************)
(* nested_loop_join and block_nested_loop_join of src/src/join.c, as pure *)
(* operators.  A side is its value array as a sequence; its position array *)
(* is the identity (row i carries position i-1), so an output record is    *)
(* the pair <<left row, right row>> of C indices, in the order the loops  *)
(* write output_l[k], output_r[k].                                         *)
(***************************************************************************)
EXTENDS Integers, Sequences
LOCAL INSTANCE SequencesExt

\* The inner loops over rows of a (outer) and b (inner): one record
\* <<outer index, inner index>> per equal pair, the rows of a and b being
\* numbered from oa and ob.
LoopPairs(a, b, oa, ob) ==
    FlattenSeq([i \in 1..Len(a) |->
        LET hits == SelectSeq([j \in 1..Len(b) |-> j], LAMBDA j : a[i] = b[j])
        IN  [k \in 1..Len(hits) |-> <<oa + i - 1, ob + hits[k] - 1>>]])

\* The records of a join run with the sides swapped, written back as
\* <<l, r>>.
SwapPairs(s) == [k \in DOMAIN s |-> <<s[k][2], s[k][1]>>]

\* nested_loop_join (15-31): the smaller side is the outer loop; called the
\* other way round, the outputs are swapped so records stay <<l, r>>.
NestedLoopJoin(l, r) ==
    IF Len(l) <= Len(r)
    THEN LoopPairs(l, r, 0, 0)
    ELSE SwapPairs(LoopPairs(r, l, 0, 0))

\* Fault variant of Block: the row loop runs to r <= i + p.
BlockOverlapping(s, k, p) ==
    SubSeq(s, k * p + 1, IF (k + 1) * p + 1 < Len(s) THEN (k + 1) * p + 1 ELSE Len(s))

\* Rows of s in block k of p rows: k*p .. min(k*p+p, Len(s)) - 1.
Block(s, k, p) == SubSeq(s, k * p + 1, IF (k + 1) * p < Len(s) THEN (k + 1) * p ELSE Len(s))

\* Number of blocks of p rows that cover n rows.
Blocks(n, p) == (n + p - 1) \div p

\* The four loops of block_nested_loop_join: blocks of a outer, blocks of b
\* inner, then the rows of the two blocks.
BlockPairs(a, b, p) ==
    LET na == Blocks(Len(a), p)
        nb == Blocks(Len(b), p)
    IN  FlattenSeq([t \in 1..(na * nb) |->
            LET bi == (t - 1) \div nb
                bj == (t - 1) % nb
            IN  LoopPairs(Block(a, bi, p), Block(b, bj, p), bi * p, bj * p)])

\* block_nested_loop_join (33-52), p = PAGE_SIZE / sizeof(int).
BlockNestedLoopJoin(l, r, p) ==
    IF Len(l) <= Len(r)
    THEN BlockPairs(l, r, p)
    ELSE SwapPairs(BlockPairs(r, l, p))

=============================================================================
