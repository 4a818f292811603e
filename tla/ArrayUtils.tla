----------------------------- MODULE ArrayUtils -----------------------------
(***************************************************************************)
(* The array utilities of src/src/utils.c, as pure operators.              *)
(*                                                                         *)
(* A C array is a function from 0..N-1 (its C indices) to its elements;    *)
(* slots at or beyond the logical length keep whatever they held before,   *)
(* because the code never clears them.                                     *)
(*                                                                         *)
(* array_insert and array_delete pass memmove a count of BYTES where a     *)
(* count of ints is meant.  On the little-endian targets the code is built *)
(* for, moving n bytes of an int array whose elements lie in 0..255 (one   *)
(* significant byte each) moves exactly ceil(n/4) whole elements: the      *)
(* last, partly copied element receives the source's only non-zero byte.   *)
(* MovedInts states that; every model that uses these operators ASSUMEs  *)
(* its element values lie in ByteValues.                                  *)
(***************************************************************************)
EXTENDS Integers, Sequences

\* sizeof(int) on the target.
IntBytes == 4

\* Element values for which MovedInts is exact.
ByteValues == 0..255

\* Number of whole ints that memmove(dst, src, nbytes) carries when the
\* elements are in ByteValues: ceil(nbytes / sizeof(int)).
MovedInts(nbytes) == (nbytes + IntBytes - 1) \div IntBytes

(***************************************************************************)
(* binary_search (utils.c 98-115).  The loop returns mid as soon as it    *)
(* meets an equal element, so among equal elements the result is whichever *)
(* one the probe sequence hits first; only when the loop runs out does it  *)
(* rewind over equal predecessors.                                         *)
(***************************************************************************)
RECURSIVE RewindEqual(_, _, _)
RewindEqual(vals, val, low) ==
    IF low > 0 /\ vals[low - 1] = val
    THEN RewindEqual(vals, val, low - 1)
    ELSE low

RECURSIVE BinarySearchLoop(_, _, _, _)
BinarySearchLoop(vals, val, low, high) ==
    LET mid == (low + high) \div 2 IN
    IF low >= high THEN RewindEqual(vals, val, low)
    ELSE IF vals[mid] < val THEN BinarySearchLoop(vals, val, mid + 1, high)
    ELSE IF vals[mid] = val THEN mid
    ELSE BinarySearchLoop(vals, val, low, IF mid > 0 THEN mid - 1 ELSE mid)

BinarySearch(vals, length, val) ==
    IF length = 0 THEN 0 ELSE BinarySearchLoop(vals, val, 0, length - 1)

\* Fault variant of PosInSorted: the step past a smaller element is dropped.
PosInSortedNoStep(vals, length, newVal) ==
    IF length = 0 THEN 0 ELSE BinarySearch(vals, length, newVal)

\* pos_in_sorted (utils.c 117-122): the slot at which new_val is inserted.
PosInSorted(vals, length, newVal) ==
    IF length = 0 THEN 0
    ELSE LET pos == BinarySearch(vals, length, newVal)
         IN  IF newVal > vals[pos] THEN pos + 1 ELSE pos

(***************************************************************************)
(* array_insert (utils.c 124-127): memmove(vals+pos+1, vals+pos,           *)
(* length-pos) -- a byte count -- then vals[pos] = new_val.                *)
(***************************************************************************)
ArrayInsert(vals, length, newVal, pos) ==
    LET moved == IF length > pos THEN MovedInts(length - pos) ELSE 0
    IN  [i \in DOMAIN vals |->
            IF i = pos THEN newVal
            ELSE IF pos < i /\ i <= pos + moved THEN vals[i - 1]
            ELSE vals[i]]

(***************************************************************************)
(* array_delete (utils.c 129-131): memmove(vals+pos, vals+pos+1,           *)
(* length-pos-1), again a byte count.  The caller decrements the length.   *)
(***************************************************************************)
ArrayDelete(vals, length, pos) ==
    LET moved == IF length > pos + 1 THEN MovedInts(length - pos - 1) ELSE 0
    IN  [i \in DOMAIN vals |->
            IF pos <= i /\ i < pos + moved THEN vals[i + 1] ELSE vals[i]]

(***************************************************************************)
(* merge / merge_sort (utils.c 140-182) over vals[0..n-1] with the         *)
(* parallel position array idxs.  The recursion splits at                  *)
(* mid = (low+high)/2 and merge takes from the left run while              *)
(* vals[cur_l] <= vals[cur_r].  Pairs are <<val, idx>>.                    *)
(***************************************************************************)
RECURSIVE Merge(_, _)

\* Fault variant of Merge: takes from the right run on ties (unstable).
MergeRightOnTies(left, right) ==
    IF left = << >> THEN right
    ELSE IF right = << >> THEN left
    ELSE IF Head(left)[1] < Head(right)[1]
         THEN <<Head(left)>> \o Merge(Tail(left), right)
         ELSE <<Head(right)>> \o Merge(left, Tail(right))

Merge(left, right) ==
    IF left = << >> THEN right
    ELSE IF right = << >> THEN left
    ELSE IF Head(left)[1] <= Head(right)[1]
         THEN <<Head(left)>> \o Merge(Tail(left), right)
         ELSE <<Head(right)>> \o Merge(left, Tail(right))

RECURSIVE MergeSortPairs(_)
MergeSortPairs(s) ==
    IF Len(s) <= 1 THEN s
    ELSE LET mid == (Len(s) - 1) \div 2 + 1
         IN  Merge(MergeSortPairs(SubSeq(s, 1, mid)),
                   MergeSortPairs(SubSeq(s, mid + 1, Len(s))))

\* merge_sort(vals, idxs, 0, n-1): both arrays permuted in place; slots at
\* n and beyond are untouched.
MergeSort(vals, idxs, n) ==
    LET sorted == MergeSortPairs([k \in 1..n |-> <<vals[k - 1], idxs[k - 1]>>])
    IN  [vals |-> [i \in DOMAIN vals |-> IF i < n THEN sorted[i + 1][1] ELSE vals[i]],
         idxs |-> [i \in DOMAIN idxs |-> IF i < n THEN sorted[i + 1][2] ELSE idxs[i]]]

=============================================================================
