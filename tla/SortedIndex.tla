----------------------------- MODULE SortedIndex -----------------------------
(***************************************************************************)
(* The sorted-array index of src/src/index.c and its range select          *)
(* (select_from_sorted, src/src/select.c), as operators.                   *)
(*                                                                         *)
(* An index is the SortedIndex struct [vals, pos]: two C arrays over the   *)
(* column's capacity, vals ordered by value and pos[i] the row of vals[i]. *)
(* The arrays are mmap'd files that ftruncate extends with zeros, so       *)
(* slots never written hold 0, and slots past the column's size keep what *)
(* they last held.  pos is size_t: a position decremented below zero      *)
(* wraps, and is kept as a negative number k standing for 2^64 + k.        *)
(*                                                                         *)
(* vals is shifted by array_insert and array_delete as the code runs them: *)
(* ArrayInsert and ArrayDelete, with their byte-count memmove.             *)
(***************************************************************************)
EXTENDS Integers, Sequences, ArrayUtils

\* x >= y for a size_t x that may have wrapped below zero.
SizeGeq(x, y) == x < 0 \/ x >= y

\* init_sorted_index (10-23): copy the column and the given positions into
\* the index arrays, then merge_sort them by value.
InitSortedIndex(ix, data, idxs, n) ==
    IF n = 0 THEN ix
    ELSE LET v == [i \in DOMAIN ix.vals |-> IF i < n THEN data[i] ELSE ix.vals[i]]
             p == [i \in DOMAIN ix.pos |-> IF i < n THEN idxs[i] ELSE ix.pos[i]]
             s == MergeSort(v, p, n)
         IN  [vals |-> s.vals, pos |-> s.idxs]

\* insert_sorted_index (27-40) on an unclustered column of size rows: the
\* value is shifted into its sorted slot q, pos[q] is overwritten with the
\* new row, and every other position at or after the new row moves up.
InsertSortedIndex(ix, size, val, valPos) ==
    LET q == PosInSorted(ix.vals, size, val)
        p == [ix.pos EXCEPT ![q] = valPos]
    IN  [vals |-> ArrayInsert(ix.vals, size, val, q),
         pos  |-> [i \in DOMAIN p |->
                     IF i < size /\ SizeGeq(p[i], valPos) /\ i # q
                     THEN p[i] + 1 ELSE p[i]]]

\* delete_sorted_index (70-79) of row position on an unclustered column of
\* size rows: array_delete at slot `position' of vals, and every position
\* at or after it moves down.
DeleteSortedIndex(ix, size, position) ==
    [vals |-> ArrayDelete(ix.vals, size, position),
     pos  |-> [i \in DOMAIN ix.pos |->
                 IF i < size /\ SizeGeq(ix.pos[i], position)
                 THEN ix.pos[i] - 1 ELSE ix.pos[i]]]

\* Fault variant of SelectFromSorted: pos_low is not stepped past a
\* smaller key.
SelectFromSortedNoLowStep(input, pos, size, lo, hi, clustered) ==
    LET pl == BinarySearch(input, size, lo)
        bh == BinarySearch(input, size, hi)
        ph == IF hi <= input[bh] THEN bh - 1 ELSE bh
        n  == ph - pl + 1
    IN  [ok   |-> n >= 0,
         rows |-> [i \in 1..n |-> IF clustered THEN i - 1 + pl
                                  ELSE pos[i - 1 + pl]]]

(***************************************************************************)
(* select_from_sorted (12-46) over input[0..size-1], with pos the row of   *)
(* each slot (unclustered) or the slot itself the row (clustered).  Both   *)
(* bounds are binary-searched, then stepped past a smaller low and onto a  *)
(* smaller high; res_size = pos_high - pos_low + 1 in size_t.  A negative  *)
(* res_size is a wrapped, huge size: malloc fails and the copy faults,     *)
(* ok is then FALSE.                                                       *)
(***************************************************************************)
SelectFromSorted(input, pos, size, lo, hi, clustered) ==
    LET bl == BinarySearch(input, size, lo)
        bh == BinarySearch(input, size, hi)
        pl == IF lo > input[bl] THEN bl + 1 ELSE bl
        ph == IF hi <= input[bh] THEN bh - 1 ELSE bh
        n  == ph - pl + 1
    IN  [ok   |-> n >= 0,
         rows |-> [i \in 1..n |-> IF clustered THEN i - 1 + pl
                                  ELSE pos[i - 1 + pl]]]

=============================================================================
