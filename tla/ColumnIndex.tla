----------------------------- MODULE ColumnIndex -----------------------------
(***************************************************************************)
(* One indexed column (src/src/index.c), driven by the table layer: a      *)
(* load fills the column and builds its index (column_load ->              *)
(* rebuild_index), then single-row inserts (column_insert -> insert_index) *)
(* and deletes (column_delete -> delete_index) follow, and range selects   *)
(* (select_from_column) read it.  The index is a B+tree (BTree) or a       *)
(* sorted array (SortedIndex): kind is col->index.type, and every action   *)
(* dispatches on it as the switches of index.c and select.c do.           *)
(*                                                                         *)
(* data is col->data, a C array over the column's capacity, and size is    *)
(* col->size.  It is shifted by array_insert and array_delete as the code  *)
(* runs them (ArrayInsert, ArrayDelete: a byte count given to memmove), so *)
(* a clustered column, and the sorted index that is that column, see the   *)
(* rows the code leaves.                                                   *)
(*                                                                         *)
(* layout is fixed by the table's schema:                                  *)
(*   "clustered"        the column is the table's clustered column, so an   *)
(*                      insert goes to row pos_in_sorted(col, v); a        *)
(*                      B+tree renumbers clustered, a sorted index is the  *)
(*                      column itself;                                     *)
(*   "other_clustered"  another column is clustered, so an unclustered      *)
(*                      index sees inserts at any row;                      *)
(*   "unclustered"      no column is clustered: every insert appends.       *)
(***************************************************************************)
EXTENDS BTree, SortedIndex, FiniteSets
LOCAL INSTANCE SequencesExt

CONSTANTS Values,          \* keys a row may hold
          Kinds,           \* the index types to explore
          Layouts,         \* the schema layouts to explore
          UniqueKeys,      \* the workload keeps the column's keys distinct
          InitRows,        \* per <<kind, layout>>: most rows of the initial load
          MaxRows,         \* per <<kind, layout>>: the column's capacity
          MinRows,         \* per <<kind, layout>>: rows the column keeps at least
          MaxNodes         \* bound on the nodes a B+tree allocates

ASSUME /\ Values \subseteq ByteValues /\ IntMax \notin Values
       /\ Kinds \subseteq {"btree", "sorted"}
       /\ Layouts \subseteq {"clustered", "other_clustered", "unclustered"}
       /\ UniqueKeys \in BOOLEAN
       /\ \A c \in Kinds \X Layouts : InitRows[c] \in 1..MaxRows[c]

VARIABLES kind,     \* col->index.type
          layout,   \* the table's schema, see above
          tree,     \* col->index.payload of a B+tree index
          six,      \* col->index.payload of a sorted index
          data,     \* col->data
          size,     \* col->size
          crashed   \* the server process has died

vars == <<kind, layout, tree, six, data, size, crashed>>

\* col->clustered, and lookup_primary_column finding another column.
Clustered      == layout = "clustered"
OtherClustered == layout = "other_clustered"

\* The bounds of this column's kind and layout.
Bound(f) == f[kind, layout]

\* The column's slots, 0..capacity-1: files that ftruncate zero-fills.
Zeros == [i \in 0..(Bound(MaxRows) - 1) |-> 0]

\* An index of the other kind: no payload.
NoTree  == [nodes |-> << >>, root |-> NULL]
NoIndex == [vals |-> Zeros, pos |-> Zeros]

NaturalOrder(n) == [i \in 0..(n - 1) |-> i]

\* rebuild_btree_index(col, idxs): a clustered column is built as it lies;
\* an unclustered one from a merge-sorted copy whose position array
\* carries the rows.
RebuildBTreeIndex(d, idxs, n) ==
    IF Clustered THEN BuildBTree(d, idxs, n)
    ELSE LET sorted == MergeSort(d, idxs, n)
         IN  BuildBTree(sorted.vals, sorted.idxs, n)

\* rebuild_sorted_index(col, idxs): nothing to do for a clustered column.
RebuildSortedIndex(d, idxs, n) ==
    IF Clustered THEN NoIndex ELSE InitSortedIndex(NoIndex, d, idxs, n)

\* column_load of rows into the empty column: a clustered column is
\* merge-sorted in place, then rebuild_index with natural_order.
LoadColumn(rows) ==
    LET n    == Len(rows)
        raw  == [i \in DOMAIN Zeros |-> IF i < n THEN rows[i + 1] ELSE 0]
        d    == IF Clustered THEN MergeSort(raw, NaturalOrder(n), n).vals ELSE raw
    IN  [data |-> d,
         tree |-> IF kind = "btree" THEN RebuildBTreeIndex(d, NaturalOrder(n), n)
                  ELSE NoTree,
         six  |-> IF kind = "sorted" THEN RebuildSortedIndex(d, NaturalOrder(n), n)
                  ELSE NoIndex]

\* The loads explored: at least one row, and at least the rows deletes keep.
LoadSizes(k, l) == (IF MinRows[k, l] > 1 THEN MinRows[k, l] ELSE 1)..InitRows[k, l]

Init ==
    \E k \in Kinds, l \in Layouts :
    \E n \in LoadSizes(k, l) : \E rows \in [1..n -> Values] :
        /\ kind = k
        /\ layout = l
        /\ UniqueKeys => IsInjective(rows)
        /\ data = LoadColumn(rows).data
        /\ tree = LoadColumn(rows).tree
        /\ six = LoadColumn(rows).six
        /\ size = n
        /\ crashed = FALSE

(* The <<key, row>> entries of the index in index order: the leaf chain,  *)
(* the sorted arrays, or a clustered sorted column's own slots.            *)
IndexEntries ==
    CASE kind = "btree" -> ChainEntries(tree)
      [] Clustered      -> [k \in 1..size |-> <<data[k - 1], k - 1>>]
      [] OTHER          -> [k \in 1..size |-> <<six.vals[k - 1], six.pos[k - 1]>>]

(* The abstract view: the key the index gives each row; Corrupt for a row  *)
(* that the index holds zero or several times.                             *)
Corrupt == -1

IndexedColumn ==
    LET e == IndexEntries
    IN  [r \in 1..Len(e) |->
            LET ks == {k \in DOMAIN e : e[k][2] = r - 1}
            IN  IF Cardinality(ks) = 1 THEN e[CHOOSE k \in ks : TRUE][1] ELSE Corrupt]

\* The row column_insert is given by the table's insert_scheduler.
InsertRows(v) ==
    IF Clustered THEN {PosInSorted(data, size, v)}
    ELSE IF OtherClustered THEN 0..size
    ELSE {size}

\* column_insert: data shifted, then insert_index (insert_btree_index or
\* insert_sorted_index, which leaves a clustered column alone), then size++.
InsertRow(v, p) ==
    /\ ~crashed
    /\ size < Bound(MaxRows)
    /\ UniqueKeys => v \notin Range(IndexedColumn)
    /\ data' = ArrayInsert(data, size, v, p)
    /\ size' = size + 1
    /\ \/ /\ kind = "btree"
          /\ Len(BTreeInsert(tree, v, p, Clustered).nodes) <= MaxNodes
          /\ tree' = BTreeInsert(tree, v, p, Clustered)
          /\ UNCHANGED six
       \/ /\ kind = "sorted"
          /\ six' = IF Clustered THEN six ELSE InsertSortedIndex(six, size, v, p)
          /\ UNCHANGED tree
    /\ UNCHANGED <<kind, layout, crashed>>

\* column_delete of one row: data shifted, then delete_index
\* (delete_btree_index, or delete_sorted_index, which leaves a clustered
\* column alone), then size--.
DeleteRow(p) ==
    /\ ~crashed
    /\ size > Bound(MinRows)
    /\ p \in 0..(size - 1)
    /\ data' = ArrayDelete(data, size, p)
    /\ size' = size - 1
    /\ \/ /\ kind = "btree"
          /\ LET r == BTreeDelete(tree, p)
             IN  /\ tree' = r.tree
                 /\ crashed' = r.crashed
          /\ UNCHANGED six
       \/ /\ kind = "sorted"
          /\ six' = IF Clustered THEN six ELSE DeleteSortedIndex(six, size, p)
          /\ UNCHANGED <<tree, crashed>>
    /\ UNCHANGED <<kind, layout>>

Next ==
    \/ \E v \in Values : \E p \in InsertRows(v) : InsertRow(v, p)
    \/ \E p \in 0..(size - 1) : DeleteRow(p)

Spec == Init /\ [][Next]_vars

(* The state as the code can observe it.  Slots at or past size are only *)
(* read by select_from_sorted on an empty column (input[0]), which the     *)
(* runs that use this view never reach (a sorted column keeps MinRows >= 1 *)
(* rows there), and are otherwise always written before they are read.    *)
(* A B+tree column's data is read only by pos_in_sorted for a clustered    *)
(* insert; the runs that use this view give a clustered B+tree no inserts, *)
(* so there it is left out too.                                            *)
LiveSlots(a) == [i \in 0..(size - 1) |-> a[i]]
LiveView == <<kind, layout, tree, LiveSlots(six.vals), LiveSlots(six.pos),
              IF kind = "btree" THEN << >> ELSE LiveSlots(data), crashed>>

-----------------------------------------------------------------------------
Abs == INSTANCE IndexAbs WITH column <- IndexedColumn

\* select_from_column on an indexed column: select_from_btree or
\* select_from_sorted, whose input is the column itself when clustered.
Select(lo, hi) ==
    IF kind = "btree" THEN [ok |-> TRUE, rows |-> RangeSelect(tree, lo, hi)]
    ELSE SelectFromSorted(IF Clustered THEN data ELSE six.vals, six.pos,
                          size, lo, hi, Clustered)

NodeIds == 1..Len(tree.nodes)

TypeOK ==
    /\ kind \in Kinds /\ layout \in Layouts
    /\ crashed \in BOOLEAN
    /\ size \in 0..Bound(MaxRows)
    /\ data \in [DOMAIN Zeros -> Values \cup {0}]
    /\ kind = "btree" =>
         /\ tree.root \in NodeIds
         /\ \A id \in NodeIds :
              LET n == tree.nodes[id] IN
              /\ n.length \in 0..Fanout
              /\ n.is_leaf \in BOOLEAN
              /\ n.next \in NodeIds \cup {NULL}
              /\ \A i \in KeySlots : n.idxs[i] \in Nat   \* size_t row positions
              /\ \A i \in ChildSlots : n.children[i] \in NodeIds \cup {NULL}

(* Every insert and delete the table layer makes is a step of the abstract *)
(* index: the index holds each row exactly once with the row's key,        *)
(* shifted as column_insert / column_delete shift the rows (spec: index    *)
(* and base data never diverge).  This is what btree_update_val_idx,       *)
(* btree_delete's renumbering and the position updates of                  *)
(* insert_sorted_index / delete_sorted_index must achieve.                 *)
IndexRefinement == Abs!Spec

(* The index is in key order: the B+tree invariant btree_split_child,      *)
(* btree_split_root and btree_append_leaf must keep while inserts descend  *)
(* by separator, and the order pos_in_sorted relies on in the sorted       *)
(* arrays and in a clustered column.                                       *)
IndexInKeyOrder ==
    ~crashed =>
        LET e == IndexEntries
        IN  \A k \in 1..(Len(e) - 1) : e[k][1] <= e[k + 1][1]

(* select(col, lo, hi) on the index returns exactly the rows the index    *)
(* holds with a key in [lo, hi), each once, for every pair of query bounds *)
(* lo <= hi: the searches for lo and for hi (btree_search, binary_search)  *)
(* must land on the leaves or slots that bracket the range, and the scan   *)
(* must cross leaf boundaries.  The rows are those of IndexedColumn, the   *)
(* column the index stands for, which IndexRefinement ties to the          *)
(* abstract column; whether col->data agrees with it is array_insert's     *)
(* and array_delete's question (ArrayShiftsAreInsertAndDelete).            *)
QueryBounds == Values \cup {IntMax}

RangeSelectCorrect ==
    ~crashed =>
        \A lo, hi \in QueryBounds : lo <= hi =>
            LET res == Select(lo, hi)
                col == IndexedColumn
            IN  /\ res.ok
                /\ Range(res.rows) = {r - 1 : r \in {k \in DOMAIN col : lo <= col[k] /\ col[k] < hi}}
                /\ Len(res.rows) = Cardinality(Range(res.rows))

(* btree_delete never takes the server down. *)
NoCrash == ~crashed

=============================================================================
