-------------------------------- MODULE Table --------------------------------
(***************************************************************************)
(* The table layer's load and insert paths (src/src/insert.c) over a      *)
(* table of unindexed columns, as operators.  A table is a record:         *)
(*   cols      cols[c] for c in 0..col_count-1, a Column [data, size,      *)
(*             clustered] whose data is a C array over the capacity;       *)
(*   size      tbl->size;                                                  *)
(*   capacity  tbl->capacity, doubled by resize_table.                     *)
(* The index calls of column_load / column_insert are ColumnIndex's        *)
(* subject; the shifts are array_insert and array_delete as the code runs  *)
(* them (ArrayInsert, ArrayDelete, with their byte-count memmove).         *)
(***************************************************************************)
EXTENDS SortedIndex, FiniteSets

\* The column indices of a table.
ColIds(tbl) == DOMAIN tbl.cols

\* lookup_primary_column (client_context.c 45-50): the first clustered
\* column, or col_count when there is none.
LookupPrimaryColumn(tbl) ==
    LET cs == {c \in ColIds(tbl) : tbl.cols[c].clustered}
    IN  IF cs = {} THEN Cardinality(ColIds(tbl))
        ELSE CHOOSE c \in cs : \A d \in cs : c <= d

\* resize_table (utils.c 60-70): every column's file is extended to twice
\* the capacity; ftruncate zero-fills the new slots.
ResizeTable(tbl) ==
    LET cap == 2 * tbl.capacity
    IN  [tbl EXCEPT
           !.capacity = cap,
           !.cols = [c \in ColIds(tbl) |->
                       [tbl.cols[c] EXCEPT !.data =
                          [i \in 0..(cap - 1) |->
                             IF i < tbl.capacity THEN tbl.cols[c].data[i] ELSE 0]]]]

\* load_scheduler's loop: resize until capacity > size + n.
RECURSIVE GrowFor(_, _)
GrowFor(tbl, n) == IF tbl.capacity <= tbl.size + n THEN GrowFor(ResizeTable(tbl), n) ELSE tbl

\* Fault variant of ArrayReorder: scatters vals[i] to pos[i] instead of
\* gathering vals[pos[i]].
ArrayReorderScatter(vals, pos, length) ==
    [i \in DOMAIN vals |->
        IF i < length THEN vals[CHOOSE j \in 0..(length - 1) : pos[j] = i] ELSE vals[i]]

\* array_reorder (utils.c 133-138): vals[i] := old vals[pos[i]].
ArrayReorder(vals, pos, length) ==
    [i \in DOMAIN vals |-> IF i < length THEN vals[pos[i]] ELSE vals[i]]

\* cluster_order == NULL.
NoOrder == << >>

\* column_load (insert.c 51-67) of vals[0..n-1]: appended after the
\* column's rows, then a clustered column is merge-sorted carrying
\* cluster_order along, and any other column is reordered by the given
\* cluster_order.  Returns the column and cluster_order as left behind.
ColumnLoad(col, vals, n, order) ==
    LET total == col.size + n
        d     == [i \in DOMAIN col.data |->
                    IF col.size <= i /\ i < total THEN vals[i - col.size] ELSE col.data[i]]
        s     == MergeSort(d, order, total)
    IN  IF col.clustered
        THEN [col |-> [col EXCEPT !.data = s.vals, !.size = total], order |-> s.idxs]
        ELSE IF order # NoOrder
        THEN [col |-> [col EXCEPT !.data = ArrayReorder(d, order, total), !.size = total],
              order |-> order]
        ELSE [col |-> [col EXCEPT !.data = d, !.size = total], order |-> order]

\* clustered_load (69-80): the clustered column first, with cluster_order
\* the identity over the old and new rows; the others reordered by the
\* order its sort left behind.
ClusteredLoad(tbl, c, vals, n) ==
    LET first == ColumnLoad(tbl.cols[c], vals[c], n,
                            [i \in 0..(tbl.size + n - 1) |-> i])
    IN  [d \in ColIds(tbl) |->
            IF d = c THEN first.col
            ELSE ColumnLoad(tbl.cols[d], vals[d], n, first.order).col]

\* unclustered_load (82-85): every column appended, no reordering.
UnclusteredLoad(tbl, vals, n) ==
    [d \in ColIds(tbl) |-> ColumnLoad(tbl.cols[d], vals[d], n, NoOrder).col]

\* load_scheduler (87-99) of n rows, vals[c] the n values of column c.
LoadScheduler(tbl, vals, n) ==
    LET t == GrowFor(tbl, n)
        c == LookupPrimaryColumn(t)
    IN  [t EXCEPT !.cols = IF c < Cardinality(ColIds(t)) THEN ClusteredLoad(t, c, vals, n)
                           ELSE UnclusteredLoad(t, vals, n),
                  !.size = t.size + n]

\* column_insert (18-22) without the index: shift in, size++.
ColumnInsert(col, v, p) ==
    [col EXCEPT !.data = ArrayInsert(col.data, col.size, v, p), !.size = col.size + 1]

\* insert_scheduler (36-47) with clustered_insert (24-29) and
\* unclustered_insert (31-34): one resize if full, every column shifted at
\* the clustered column's sorted slot, or appended to.
InsertScheduler(tbl, row) ==
    LET t == IF tbl.capacity <= tbl.size THEN ResizeTable(tbl) ELSE tbl
        c == LookupPrimaryColumn(t)
        p == IF c < Cardinality(ColIds(t)) THEN PosInSorted(t.cols[c].data, t.size, row[c])
             ELSE t.size
    IN  [t EXCEPT !.cols = [d \in ColIds(t) |-> ColumnInsert(t.cols[d], row[d], p)],
                  !.size = t.size + 1]

\* column_delete (update.c 9-15) without the index: for i = 0..n-1 in turn,
\* array_delete at pos[i] of the column as it is now, then size--.  The
\* positions are not adjusted for the rows already removed.
ColumnDelete(col, pos, n) ==
    LET RECURSIVE Del(_, _)
        Del(c, i) == IF i >= n THEN c
                     ELSE Del([c EXCEPT !.data = ArrayDelete(c.data, c.size, pos[i]),
                                        !.size = c.size - 1], i + 1)
    IN  Del(col, 0)

\* delete_scheduler (17-25): the Result's positions pos[0..n-1] deleted
\* from every column, and n rows off the table.
DeleteScheduler(tbl, pos, n) ==
    [tbl EXCEPT !.cols = [c \in ColIds(tbl) |-> ColumnDelete(tbl.cols[c], pos, n)],
                !.size = tbl.size - n]

\* update_scheduler (27-39): the rows at pos[0..n-1] read with column colIdx
\* replaced by val, then delete_scheduler, then one insert_scheduler per
\* row read, in order.
UpdateScheduler(tbl, colIdx, pos, n, val) ==
    LET vals == [i \in 0..(n - 1) |->
                   [c \in ColIds(tbl) |-> IF c = colIdx THEN val ELSE tbl.cols[c].data[pos[i]]]]
        RECURSIVE Ins(_, _)
        Ins(t, i) == IF i >= n THEN t ELSE Ins(InsertScheduler(t, vals[i]), i + 1)
    IN  Ins(DeleteScheduler(tbl, pos, n), 0)

=============================================================================
