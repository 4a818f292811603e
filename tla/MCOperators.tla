---------------------------- MODULE MCOperators ----------------------------
(***************************************************************************)
(* Checks the pure operators of ArrayUtils, JoinAlgorithms and Scans       *)
(* against reference definitions over every input of bounded size.  Each   *)
(* initial state is one input, of one of four regimes: an array of         *)
(* capacity MaxLen+1 with a logical length, a value and a position; a pair *)
(* of join inputs of at most MaxLen rows; a column of at most MaxLen rows  *)
(* for the scan operators, whose query bounds the properties range over;   *)
(* or the first load of a two-column table and its clustered column, the   *)
(* later load and insert ranged over by the property.  The inputs a regime *)
(* does not use are fixed.  The properties are evaluated on it.            *)
(***************************************************************************)
EXTENDS ArrayUtils, JoinAlgorithms, Scans, Table, Integers, FiniteSets
LOCAL INSTANCE SequencesExt

CONSTANTS Vals,      \* element values, a subset of ByteValues
          JoinVals,  \* join-key values
          MaxLen,    \* largest logical length, longest join side
          BlockInts  \* rows per block, PAGE_SIZE / sizeof(int) scaled down

ASSUME Vals \subseteq ByteValues /\ MaxLen \in Nat

VARIABLES regime,          \* "array", "join", "scan" or "table"
          arr, len, v, p,  \* an array-operator input; arr[0..len-1] a scanned column
          l, r,            \* a join input
          rows, clus       \* a table's first load, and its clustered column
vars == <<regime, arr, len, v, p, l, r, rows, clus>>

\* The table regime: two columns, keys 0..2, loads of up to 3 rows into a
\* table created with capacity 2 (TABLE_CAPACITY scaled down), so that
\* both load_scheduler's and insert_scheduler's resizes happen.
TableCols == 0..1
TableVals == 0..2
TableCap  == 2
NoClustered == -1
Row == [TableCols -> TableVals]

Slots == 0..MaxLen

ArrayInputs == /\ regime = "array"
               /\ arr \in [Slots -> Vals]
               /\ len \in 0..MaxLen
               /\ v \in Vals
               /\ p \in 0..MaxLen
               /\ l = << >> /\ r = << >>
               /\ rows = << >> /\ clus = NoClustered

JoinInputs == /\ regime = "join"
              /\ l \in UNION {[1..n -> JoinVals] : n \in 0..MaxLen}
              /\ r \in UNION {[1..n -> JoinVals] : n \in 0..MaxLen}
              /\ arr = [i \in Slots |-> 0] /\ len = 0 /\ v = 0 /\ p = 0
              /\ rows = << >> /\ clus = NoClustered

\* A column's slots past its size are not read by a scan: kept at zero.
ScanInputs == /\ regime = "scan"
              /\ len \in 0..MaxLen
              /\ arr \in [Slots -> Vals]
              /\ \A i \in Slots : i >= len => arr[i] = 0
              /\ v = 0 /\ p = 0 /\ l = << >> /\ r = << >>
              /\ rows = << >> /\ clus = NoClustered

TableInputs == /\ regime = "table"
               /\ rows \in UNION {[1..n -> Row] : n \in 1..3}
               /\ clus \in TableCols \cup {NoClustered}
               /\ arr = [i \in Slots |-> 0] /\ len = 0 /\ v = 0 /\ p = 0
               /\ l = << >> /\ r = << >>

Init == ArrayInputs \/ JoinInputs \/ ScanInputs \/ TableInputs

\* The inputs are fixed; a behaviour is one evaluation.
Next == UNCHANGED vars

Spec == Init /\ [][Next]_vars

\* The first n elements of C array a, as a sequence.
Prefix(a, n) == [k \in 1..n |-> a[k - 1]]

Ascending(s) == IsSorted(s, LAMBDA x, y : x <= y)

(***************************************************************************)
(* pos_in_sorted on a sorted array returns a slot in 0..length at which    *)
(* inserting the value keeps the array sorted (clustered_insert and        *)
(* insert_sorted_index rely on it).                                        *)
(***************************************************************************)
PosInSortedKeepsOrder ==
    Ascending(Prefix(arr, len)) =>
        LET q == PosInSorted(arr, len, v)
        IN  /\ q \in 0..len
            /\ Ascending(InsertAt(Prefix(arr, len), q + 1, v))

(***************************************************************************)
(* Reference stable sort: for each value in ascending order, the pairs     *)
(* carrying it in their original order.                                    *)
(***************************************************************************)
StableSortRef(s) ==
    LET keys == SetToSortSeq({s[i][1] : i \in DOMAIN s}, <)
    IN  FlattenSeq([j \in DOMAIN keys |-> SelectSeq(s, LAMBDA e : e[1] = keys[j])])

(***************************************************************************)
(* merge_sort, called with the natural order as the position array (as     *)
(* rebuild_btree_index and init_sorted_index do), produces exactly the     *)
(* stable sort of (value, position) pairs; the design relies on ties       *)
(* keeping their original relative order.                                  *)
(***************************************************************************)
MergeSortIsStableSort ==
    LET m == MergeSort(arr, [i \in Slots |-> i], len)
    IN  [k \in 1..len |-> <<m.vals[k - 1], m.idxs[k - 1]>>]
            = StableSortRef([k \in 1..len |-> <<arr[k - 1], k - 1>>])

(***************************************************************************)
(* array_insert opens a gap at pos by moving the length-pos elements from  *)
(* pos one slot right (what column_insert and insert_sorted_index need),   *)
(* and array_delete closes the gap at pos by moving the elements after pos *)
(* one slot left (what column_delete needs).                               *)
(***************************************************************************)
ArrayShiftsAreInsertAndDelete ==
    /\ p <= len =>
         Prefix(ArrayInsert(arr, len, v, p), len + 1)
             = InsertAt(Prefix(arr, len), p + 1, v)
    /\ p < len =>
         Prefix(ArrayDelete(arr, len, p), len - 1) = RemoveAt(Prefix(arr, len), p + 1)

\* Every left row paired with every right row of equal value.
EquiJoin(a, b) ==
    {<<q[1] - 1, q[2] - 1>> : q \in {q \in (DOMAIN a) \X (DOMAIN b) : a[q[1]] = b[q[2]]}}

\* out holds exactly the equi-join of a and b, each pair once.
IsEquiJoin(out, a, b) ==
    /\ Range(out) = EquiJoin(a, b)
    /\ Len(out) = Cardinality(EquiJoin(a, b))

(***************************************************************************)
(* nested_loop_join and block_nested_loop_join (with a block smaller than  *)
(* the inputs, so partial last blocks and the swap of the larger side both *)
(* occur) each write exactly the pairs of equal values, every pair once    *)
(* (spec: cross product on duplicates, the same set for every join).       *)
(***************************************************************************)
NestedJoinsAreEquiJoin ==
    /\ IsEquiJoin(NestedLoopJoin(l, r), l, r)
    /\ IsEquiJoin(BlockNestedLoopJoin(l, r, BlockInts), l, r)

\* The bounds a select(...) command is given: null or a key.
ScanBounds == {Null} \cup {<<k>> : k \in Vals \ {0}}

\* The predicate select(col, lo, hi) stands for: lo <= x < hi, a null bound
\* left out.
InBounds(lo, hi, x) == (lo = Null \/ lo[1] <= x) /\ (hi = Null \/ x < hi[1])

\* The scanned column arr[0..len-1].
ScanCol == Prefix(arr, len)

(***************************************************************************)
(* A two-predicate query, s1 = select(col, lo1, hi1), f = fetch(col, s1),  *)
(* s2 = select(s1, f, lo2, hi2), answers the conjunction: s2 holds exactly *)
(* the rows satisfying both predicates, ascending and each once, for every *)
(* pair of bounds with at least one non-null bound each (the positions     *)
(* select_from_result writes must be the rows, not the slots of f).        *)
(***************************************************************************)
ScanSelectsAreConjunction ==
    regime = "scan" =>
    \A lo1, hi1, lo2, hi2 \in ScanBounds :
        LET c1 == ParseComparator(lo1, hi1)
            c2 == ParseComparator(lo2, hi2)
            s1 == SingleSelect("column", ScanCol, << >>, c1)
            f  == Fetch(ScanCol, s1.vals)
            s2 == SingleSelect("result", f.vals, s1.vals, c2)
        IN  c1.type # NoComparison /\ c2.type # NoComparison =>
              /\ s1.ok /\ s2.ok
              /\ s2.vals = SetToSortSeq({i \in 0..(len - 1) :
                                           /\ InBounds(lo1, hi1, arr[i])
                                           /\ InBounds(lo2, hi2, arr[i])}, <)

(***************************************************************************)
(* The aggregates over a fetched selection agree with their definitions:   *)
(* max and min are the extremes of the selected values, sum their sum and  *)
(* avg's divisor their count, and all of them return no tuple for an empty *)
(* selection; sub undoes add.                                              *)
(***************************************************************************)
AggregatesMatchReference ==
    regime = "scan" =>
    \A lo, hi \in ScanBounds :
        LET f == Fetch(ScanCol, SelectFromColumn(ScanCol, ParseComparator(lo, hi)).vals).vals
        IN  /\ Len(f) = 0 =>
                 /\ MaxMin(f, "max").num_tuples = 0 /\ MaxMin(f, "min").num_tuples = 0
                 /\ AvgSum(f, "sum").num_tuples = 0 /\ AvgSum(f, "avg").num_tuples = 0
            /\ Len(f) > 0 =>
                 /\ MaxMin(f, "max") = [num_tuples |-> 1, val |-> Max(Range(f))]
                 /\ MaxMin(f, "min") = [num_tuples |-> 1, val |-> Min(Range(f))]
                 /\ AvgSum(f, "sum").sum = SumFunction(f)
                 /\ AvgSum(f, "avg").divisor =
                        Cardinality({i \in 0..(len - 1) : InBounds(lo, hi, arr[i])})
            /\ AddSub(AddSub(f, f, "add").vals, f, "sub").vals = f

\* A table created by create(tbl, ...) and create(col, ...), the column
\* cl declared clustered.
EmptyTable(cl) ==
    [cols     |-> [c \in TableCols |->
                     [data |-> [i \in 0..(TableCap - 1) |-> 0], size |-> 0,
                      clustered |-> c = cl]],
     size     |-> 0,
     capacity |-> TableCap]

\* The rows s of a load file as load_scheduler's vals[c][i].
ColumnsOf(s) == [c \in TableCols |-> [i \in 0..(Len(s) - 1) |-> s[i + 1][c]]]

\* The table's rows, one tuple per row across its columns.
TableRows(t) == [i \in 1..t.size |-> [c \in TableCols |-> t.cols[c].data[i - 1]]]

SameRows(s1, s2) ==
    /\ Len(s1) = Len(s2)
    /\ \A x \in Range(s1) \cup Range(s2) :
         Cardinality({i \in DOMAIN s1 : s1[i] = x}) = Cardinality({i \in DOMAIN s2 : s2[i] = x})

\* Table t holds the rows given: each a whole tuple, every column as long
\* as the table; a clustered table in the clustered column's order, any
\* other in the order given.
HoldsRows(t, given) ==
    /\ \A c \in TableCols : t.cols[c].size = t.size
    /\ IF clus \in TableCols
       THEN /\ SameRows(TableRows(t), given)
            /\ Ascending([i \in 1..t.size |-> t.cols[clus].data[i - 1]])
       ELSE TableRows(t) = given

(***************************************************************************)
(* A load and a second load keep every row whole: clustered_load sorts the *)
(* clustered column and must move every other column's values with it     *)
(* (cluster_order through array_reorder, the clustered column first),     *)
(* across the resizes load_scheduler makes; and an insert into a table    *)
(* with no clustered column, which unclustered_insert appends at tbl->size *)
(* after insert_scheduler's resize, keeps them too.  A clustered insert    *)
(* shifts with array_insert's byte count and loses rows                    *)
(* (ArrayShiftsAreInsertAndDelete), so it is not claimed here.             *)
(***************************************************************************)
TableKeepsRowsWhole ==
    regime = "table" =>
    \A extra \in {<< >>} \cup {<<x>> : x \in Row}, row \in Row :
        LET t1 == LoadScheduler(EmptyTable(clus), ColumnsOf(rows), Len(rows))
            t2 == IF extra = << >> THEN t1 ELSE LoadScheduler(t1, ColumnsOf(extra), 1)
            t3 == InsertScheduler(t2, row)
        IN  /\ HoldsRows(t1, rows)
            /\ HoldsRows(t2, rows \o extra)
            /\ clus \notin TableCols => HoldsRows(t3, rows \o extra \o <<row>>)

=============================================================================
