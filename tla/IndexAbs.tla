------------------------------- MODULE IndexAbs -------------------------------
(***************************************************************************)
(* What an index on a column promises, whatever its layout: it holds, for  *)
(* every row position, that row's key.  column[r + 1] is the key of row r. *)
(* An insert at row p shifts the rows at and after p up by one; a delete   *)
(* of row p shifts the later rows down (column_insert / column_delete,     *)
(* src/src/insert.c and src/src/update.c, seen from the index).            *)
(***************************************************************************)
EXTENDS Integers, Sequences
LOCAL INSTANCE SequencesExt

CONSTANT Values

VARIABLE column

Init == column \in Seq(Values)

\* A step of the index from column c to column d.
Insert(c, d, v, p) == d = InsertAt(c, p + 1, v)
Delete(c, d, p) == d = RemoveAt(c, p + 1)

Step(c, d) ==
    \/ /\ Len(d) = Len(c) + 1
       /\ \E v \in Values, p \in 0..Len(c) : Insert(c, d, v, p)
    \/ /\ Len(d) = Len(c) - 1
       /\ \E p \in 0..(Len(c) - 1) : Delete(c, d, p)

\* column and column' are bound once, so that a refinement mapping that
\* substitutes an expensive state function for column is evaluated once.
Next == \E c \in {column}, d \in {column'} : Step(c, d)

Spec == Init /\ [][Next]_column

=============================================================================
