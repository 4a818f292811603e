---------------------------- MODULE MCBatchSelect ----------------------------
(***************************************************************************)
(* A model of BatchSelect for TLC: two of the PROC_NUM workers, two        *)
(* handle names, four Results and batches of up to three selects: enough   *)
(* for both workers to hold an index at once, for a batch with two selects *)
(* under one name, and for a batch after a select was filed.               *)
(***************************************************************************)
EXTENDS BatchSelect

CONSTANTS t1, t2, a, b

Workers == {t1, t2}
Names   == {a, b}

=============================================================================
