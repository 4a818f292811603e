---------------------------- MODULE MCColumnIndex ----------------------------
(* Model-checking instance of ColumnIndex.  Fanout 3 (FANOUT is 408 in     *)
(* btree.h): leaf and internal splits, the INT_MAX separator of a          *)
(* one-leaf build, collapses of empty first children and the root split    *)
(* are all reached within a handful of rows.                               *)
EXTENDS ColumnIndex

\* Keys for a workload with distinct keys: more keys than rows, so that a
\* new key can fall before, between or after the existing ones.
DistinctKeys == 1..6

\* Keys for a workload with repeated keys.
RepeatedKeys == {1, 2}

\* A bound per <<kind, layout>>: b for a B+tree (bc when clustered), s for a
\* sorted index (sc when clustered).
Bounds(bc, b, sc, s) ==
    [c \in {"btree", "sorted"} \X {"clustered", "other_clustered", "unclustered"} |->
        IF c[1] = "btree" THEN IF c[2] = "clustered" THEN bc ELSE b
        ELSE IF c[2] = "clustered" THEN sc ELSE s]

\* The checked workload.  col->data is shifted as the code shifts it, and
\* array_insert's byte count loses rows whenever it inserts two or more
\* rows before the end (array_shift_bytes).  A clustered column takes its
\* insert row from pos_in_sorted over that data, so a clustered B+tree is
\* loaded and selected only (btree_delete is the same for every layout and
\* is checked on the unclustered tree).  An unclustered B+tree only
\* appends, which moves nothing, and deletes, which the tree does by row.  A sorted index, clustered or
\* not, is loaded and selected only: its insert and delete go through the
\* same shifts, and the unclustered one has its own run (index_renumbering).
CheckedInit == Bounds(4, 3, 4, 4)
CheckedMax  == Bounds(4, 5, 4, 4)
CheckedMin  == Bounds(4, 0, 4, 4)

\* Uniform bounds for the runs on one kind and layout.
Rows3 == Bounds(3, 3, 3, 3)
Rows4 == Bounds(4, 4, 4, 4)
Rows5 == Bounds(5, 5, 5, 5)
Rows6 == Bounds(6, 6, 6, 6)
Rows0 == Bounds(0, 0, 0, 0)

\* The renumbering run: a B+tree beside another clustered column grows to
\* five rows, so a mid-row insert reaches a split; an unclustered sorted
\* index to four.
RenumberMax == Bounds(5, 5, 4, 4)

=============================================================================
