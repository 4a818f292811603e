-------------------------------- MODULE Scans --------------------------------
(***************************************************************************)
(* The scan operators of a query plan, as operators over sequences: the    *)
(* comparator parse_select builds (src/src/parse.c), the full-scan selects *)
(* on a base column or on an intermediate result (src/src/select.c),       *)
(* fetch, and the aggregates and arithmetic of src/src/execute.c.          *)
(*                                                                         *)
(* A C array of n ints is a sequence of length n; a position is 0-based.   *)
(* A Result is [ok, vals]: ok is FALSE where the code returns NULL.  The   *)
(* output buffer of select_from_column doubles before it is full           *)
(* (resize_array), so its growth never drops a row and is left out.        *)
(***************************************************************************)
EXTENDS Integers, Sequences

\* ComparatorType (cs165_api.h) values the parser produces.
NoComparison       == 0
LessThan           == 1
GreaterThanOrEqual == 6
RangeComparison    == 7

CIntMin == -2147483647 - 1
CIntMax == 2147483647

\* A bound of a select(...) command: <<k>> for a value k, or null.
Null == << >>

\* parse_select's comparator (parse.c 325-342): type1 + type2 is the switch
\* value of the scans; a null bound leaves INT_MIN / INT_MAX behind.
ParseComparator(lo, hi) ==
    [type   |-> (IF lo = Null THEN NoComparison ELSE GreaterThanOrEqual)
                  + (IF hi = Null THEN NoComparison ELSE LessThan),
     p_low  |-> IF lo = Null THEN CIntMin ELSE lo[1],
     p_high |-> IF hi = Null THEN CIntMax ELSE hi[1]]

\* The test of each case of the scans' switch on cmp_type.
Qualifies(cmp, x) ==
    CASE cmp.type = LessThan           -> x < cmp.p_high
      [] cmp.type = GreaterThanOrEqual -> x >= cmp.p_low
      [] cmp.type = RangeComparison    -> x >= cmp.p_low /\ x < cmp.p_high

ScannedTypes == {LessThan, GreaterThanOrEqual, RangeComparison}

NullResult == [ok |-> FALSE, vals |-> << >>]
Result(s)  == [ok |-> TRUE, vals |-> s]

\* The indices k of s, ascending, whose element passes the comparator.
Hits(cmp, s) == SelectSeq([k \in DOMAIN s |-> k], LAMBDA k : Qualifies(cmp, s[k]))

\* select_from_column's scan (select.c 97-139) of an unindexed column:
\* the positions of the qualifying rows in row order; NULL for any other
\* comparator type (the default case).
SelectFromColumn(input, cmp) ==
    IF cmp.type \notin ScannedTypes THEN NullResult
    ELSE LET h == Hits(cmp, input) IN Result([j \in DOMAIN h |-> h[j] - 1])

\* Fault variant of SelectFromResult: the slot index is written instead of
\* input_id[i].
SelectFromResultOutputsIndex(input, inputId, cmp) ==
    IF Len(input) # Len(inputId) \/ cmp.type \notin ScannedTypes THEN NullResult
    ELSE LET h == Hits(cmp, input) IN Result([j \in DOMAIN h |-> h[j] - 1])

\* select_from_result (141-184): the values input[i] are tested and the
\* positions input_id[i] that pass are written, in order; NULL when the
\* two results differ in length or for any other comparator type.
SelectFromResult(input, inputId, cmp) ==
    IF Len(input) # Len(inputId) \/ cmp.type \notin ScannedTypes THEN NullResult
    ELSE LET h == Hits(cmp, input) IN Result([j \in DOMAIN h |-> inputId[h[j]]])

\* fetch (execute.c 35-48): the column's value at each position.
Fetch(col, ids) == Result([i \in DOMAIN ids |-> col[ids[i] + 1]])

\* avg_sum (52-95): no tuple for empty input; otherwise the long sum, and
\* for AVG the double sum / input_size, kept as the fraction [sum, count].
AvgSum(input, op) ==
    IF Len(input) = 0 THEN [num_tuples |-> 0]
    ELSE LET RECURSIVE SumFrom(_)
             SumFrom(i) == IF i > Len(input) THEN 0 ELSE input[i] + SumFrom(i + 1)
         IN  [num_tuples |-> 1,
              sum        |-> SumFrom(1),
              divisor    |-> IF op = "avg" THEN Len(input) ELSE 1]

\* int addition as the build does it: two's complement wrap on 32 bits
\* (signed overflow is undefined in C; gcc's code wraps), computed without
\* forming the unwrapped sum.
AddWrap(a, b) ==
    CASE a > 0 /\ b > CIntMax - a -> (a + CIntMin) + (b + CIntMin)
      [] a < 0 /\ b < CIntMin - a -> (a + CIntMax + 1) + (b + CIntMax + 1)
      [] OTHER                     -> a + b

SubWrap(a, b) ==
    IF b = CIntMin THEN (IF a >= 0 THEN a + CIntMin ELSE a + CIntMax + 1)
    ELSE AddWrap(a, -b)

\* add_sub (97-122): element-wise; NULL when the lengths differ.
AddSub(l, r, op) ==
    IF Len(l) # Len(r) THEN NullResult
    ELSE Result([i \in DOMAIN l |-> IF op = "add" THEN AddWrap(l[i], r[i])
                                    ELSE SubWrap(l[i], r[i])])

\* Fault variant of MaxMin: the running extreme starts at 0, not input[0].
MaxMinFromZero(input, op) ==
    IF Len(input) = 0 THEN [num_tuples |-> 0]
    ELSE LET RECURSIVE Scan(_, _)
             Scan(acc, i) ==
                 IF i > Len(input) THEN acc
                 ELSE Scan(IF op = "max" THEN (IF acc < input[i] THEN input[i] ELSE acc)
                           ELSE (IF acc > input[i] THEN input[i] ELSE acc), i + 1)
         IN  [num_tuples |-> 1, val |-> Scan(0, 1)]

\* max_min (124-151): the running extreme from input[0] over every element.
MaxMin(input, op) ==
    IF Len(input) = 0 THEN [num_tuples |-> 0]
    ELSE LET RECURSIVE Scan(_, _)
             Scan(acc, i) ==
                 IF i > Len(input) THEN acc
                 ELSE Scan(IF op = "max" THEN (IF acc < input[i] THEN input[i] ELSE acc)
                           ELSE (IF acc > input[i] THEN input[i] ELSE acc), i + 1)
         IN  [num_tuples |-> 1, val |-> Scan(input[1], 1)]

\* single_select (186-204): the scan for the kind of the select's input.
SingleSelect(columnType, input, inputId, cmp) ==
    IF columnType = "column" THEN SelectFromColumn(input, cmp)
    ELSE SelectFromResult(input, inputId, cmp)

=============================================================================
