------------------------------ MODULE HashJoin ------------------------------
(***************************************************************************)
(* One hash join, as execute.c join() runs it with join_type HASH: the    *)
(* output buffers of join() (execute.c 155-193), then hash_join            *)
(* (join.c 56-99): create_hashtable, one hashtable_put per row of the      *)
(* smaller side, one hashtable_get per row of the larger side with the     *)
(* matches copied to output_l / output_r.                                  *)
(*                                                                         *)
(* The join keys are not fixed in advance: each put and each probe picks   *)
(* its row's key, and build and probe record them, so every pair of       *)
(* inputs of the chosen sizes is a behaviour.  Positions are row indices.  *)
(*                                                                         *)
(* fault records the first undefined behaviour the code reaches; the       *)
(* process is then in no defined state and the behaviour stops:            *)
(*   "bucket_overflow"  a hash-table bucket slot written past its array,   *)
(*   "payload_uaf"      res->payload read after realloc moved the buffer,  *)
(*   "output_overflow"  output_l / output_r written past res_capacity.     *)
(***************************************************************************)
EXTENDS HashTable, JoinAlgorithms, FiniteSets
LOCAL INSTANCE SequencesExt

CONSTANTS Keys,            \* join-key values of both sides
          ProbeKeysOf(_),  \* the values probe rows may take, given the
                           \* number of build rows
          Sizes,           \* the <<size_l, size_r>> pairs to explore
          DefaultCapacity  \* DEFAULT_CAPACITY (cs165_api.h 36)

ASSUME /\ Keys \subseteq Nat /\ Sizes \subseteq Nat \X Nat
       /\ DefaultCapacity \in Nat

VARIABLES sizeL,   \* val_res_l->num_tuples
          sizeR,   \* val_res_r->num_tuples
          ht,      \* the hash table
          build,   \* keys of the build rows put so far
          probe,   \* keys of the probe rows looked up so far
          out,     \* the records written, as <<left row, right row>>
          fault

vars == <<sizeL, sizeR, ht, build, probe, out, fault>>

\* join() (execute.c 170): res_capacity = max(size_l, size_r); hash_join
\* sizes its table with the same value (join.c 64).
ResCapacity == IF sizeL > sizeR THEN sizeL ELSE sizeR

\* hash_join calls itself with the sides swapped when size_l > size_r
\* (join.c 58-60): the table is built over the smaller side.
Swapped   == sizeL > sizeR
BuildRows == IF Swapped THEN sizeR ELSE sizeL
ProbeRows == IF Swapped THEN sizeL ELSE sizeR

\* Fault variant of Record: output_l always gets the build position.
RecordUnswapped(b, p) == <<b, p>>

\* The record written for build row b and probe row p: output_l gets the
\* build position unless the sides were swapped.
Record(b, p) == IF Swapped THEN <<p, b>> ELSE <<b, p>>

\* join() allocates output_l / output_r, then hash_join creates the table.
Init ==
    /\ \E sz \in Sizes : sizeL = sz[1] /\ sizeR = sz[2]
    /\ LET c == CreateHashtable(IF sizeL > sizeR THEN sizeL ELSE sizeR)
       IN  /\ ht = c.ht
           /\ fault = IF c.fault THEN "bucket_overflow" ELSE "none"
    /\ build = << >>
    /\ probe = << >>
    /\ out = << >>

\* One iteration of the build loop (join.c 67): hashtable_put(key, i).
Build ==
    /\ fault = "none"
    /\ Len(build) < BuildRows
    /\ \E k \in Keys :
         LET r == HashtablePut(ht, k, Len(build))
         IN  /\ ht' = r.ht
             /\ fault' = IF r.fault THEN "bucket_overflow" ELSE "none"
             /\ build' = Append(build, k)
    /\ UNCHANGED <<sizeL, sizeR, probe, out>>

\* One iteration of the probe loop (join.c 82-89): hashtable_get into the
\* shared res, then output[res_size + j] for each match.  When the get
\* grew its buffer, realloc may have moved it (the build decides), and
\* res->payload then names freed memory.
Probe ==
    /\ fault = "none"
    /\ Len(build) = BuildRows
    /\ Len(probe) < ProbeRows
    /\ \E k \in ProbeKeysOf(BuildRows), moved \in BOOLEAN :
         LET m == HashtableGet(ht, k)
             p == Len(probe)
         IN  /\ moved => GetMayMovePayload(ht, k, DefaultCapacity)
             /\ probe' = Append(probe, k)
             /\ \/ /\ moved
                   /\ fault' = "payload_uaf"
                   /\ out' = out
                \/ /\ ~moved
                   /\ Len(out) + Len(m) > ResCapacity
                   /\ fault' = "output_overflow"
                   /\ out' = out
                \/ /\ ~moved
                   /\ Len(out) + Len(m) <= ResCapacity
                   /\ out' = out \o [j \in 1..Len(m) |-> Record(m[j], p)]
                   /\ fault' = fault
    /\ UNCHANGED <<sizeL, sizeR, ht, build>>

\* The join has returned its Results.
Done == fault = "none" /\ Len(build) = BuildRows /\ Len(probe) = ProbeRows

Next == Build \/ Probe

Spec == Init /\ [][Next]_vars

-----------------------------------------------------------------------------

\* The key of each left and right row, once every row has been seen.
LeftKeys  == IF Swapped THEN probe ELSE build
RightKeys == IF Swapped THEN build ELSE probe

\* Build rows with key k, in insertion order.
PositionsOf(k) == LET rows == SelectSeq([j \in 1..Len(build) |-> j - 1],
                                        LAMBDA j : build[j + 1] = k)
                  IN  rows

TypeOK ==
    /\ fault \in {"none", "bucket_overflow", "payload_uaf", "output_overflow"}
    /\ build \in Seq(Keys) /\ probe \in Seq(Keys)
    /\ out \in Seq(Nat \X Nat)
    /\ fault = "none" =>
         /\ ht.next_split < Pow2(ht.round)
         /\ \A b \in DOMAIN ht.buckets :
              \A n \in DOMAIN ht.buckets[b] : Len(ht.buckets[b][n]) <= Slot

(***************************************************************************)
(* hashtable_get after any sequence of hashtable_put, splits included,     *)
(* returns every value put under the key, in the order it was put         *)
(* (spec 4.3 and 7: no loss across a split; matches keep build order).     *)
(***************************************************************************)
GetReturnsAllInOrder ==
    fault = "none" => \A k \in Keys : HashtableGet(ht, k) = PositionsOf(k)

(***************************************************************************)
(* A hash join that returns writes the same set of <<left, right>> pairs   *)
(* as nested_loop_join on the same inputs, each pair once (spec 7: "hash   *)
(* join and nested-loop join produce the same set").                       *)
(***************************************************************************)
HashJoinMatchesNestedLoop ==
    Done =>
        LET ref == NestedLoopJoin(LeftKeys, RightKeys)
        IN  /\ Range(out) = Range(ref)
            /\ Len(out) = Len(ref)

(***************************************************************************)
(* A hash join stays inside its allocations: the bucket array that        *)
(* create_hashtable, resize_hashtable and hashtable_split size is never    *)
(* written past its end, and the probe loop neither reads res->payload     *)
(* after hashtable_get moved it nor writes output_l / output_r past the    *)
(* res_capacity join() allocated (spec 4.3: the bucket array grows         *)
(* geometrically; spec 4.4: duplicates yield the cross product, so every   *)
(* match must have a slot).                                                *)
(***************************************************************************)
NoMemoryFault == fault = "none"

=============================================================================
