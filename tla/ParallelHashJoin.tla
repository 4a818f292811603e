-------------------------- MODULE ParallelHashJoin --------------------------
(***************************************************************************)
(* The probe phase of parallel_hash_join (join.c 101-184): PROC_NUM        *)
(* threads run hashjoin_task over one shared, already built hash table.    *)
(*                                                                         *)
(* A thread claims a probe row by decrementing jobs under lock (109-112),  *)
(* looks it up with hashtable_get into a Result of its own (114-118),      *)
(* reserves an output slice by advancing *offset under res_lock            *)
(* (120-123), writes its matches into the slice one record at a time       *)
(* (125-128) and goes back for the lock (130).  Every access to jobs and   *)
(* to *offset is inside its mutex, so each critical section is one step;   *)
(* the hash table is only read after the build, so the lookup is folded    *)
(* into the claim.  The output writes are outside any lock and are         *)
(* separate steps, so they interleave freely.                              *)
(*                                                                         *)
(* parallel_hash_join has no caller in the repository (execute.c join()    *)
(* calls hash_join); the model covers it as the design describes it.      *)
(***************************************************************************)
EXTENDS HashTable, JoinAlgorithms, FiniteSets
LOCAL INSTANCE SequencesExt

CONSTANTS Threads,   \* the PROC_NUM workers
          Keys,      \* join-key values
          MinRows,   \* bounds on the number of rows of each side
          MaxRows

ASSUME Keys \subseteq Nat /\ MinRows \in Nat /\ MaxRows \in Nat

NoRow == -1

VARIABLES valL, valR,   \* the join inputs
          table,        \* arg->ha_tbl, built before the threads start
          jobs,         \* the shared claim counter
          offset,       \* res_size, advanced under res_lock
          pc,           \* per thread: "claim", "reserve", "write", "done"
          row,          \* per thread: the claimed probe row i
          res,          \* per thread: the matches hashtable_get returned
          base,         \* per thread: the reserved offset
          j,            \* per thread: the write loop index
          outputs       \* output slot -> the records written there, in order

vars == <<valL, valR, table, jobs, offset, pc, row, res, base, j, outputs>>

\* parallel_hash_join swaps the sides when size_l > size_r (139-141).
Swapped   == Len(valL) > Len(valR)
BuildKeys == IF Swapped THEN valR ELSE valL
ProbeKeys == IF Swapped THEN valL ELSE valR

\* The table built serially (145-148): one hashtable_put per build row.
Table(build) ==
    LET put(acc, i) == IF acc.fault THEN acc
                       ELSE HashtablePut(acc.ht, build[i], i - 1)
    IN  FoldLeft(put, CreateHashtable(IF Len(valL) > Len(valR)
                                      THEN Len(valL) ELSE Len(valR)),
                 [i \in 1..Len(build) |-> i])

BuiltTable == Table(BuildKeys)

\* A record: output_l / output_r of the same slot, as <<left, right>>.
Record(b, p) == IF Swapped THEN <<p, b>> ELSE <<b, p>>

\* Output slots any join of these inputs can use.
Slots == 0..(MaxRows * MaxRows)

\* Inputs whose build is defined: an empty or overflowing bucket array is
\* the serial join's concern (HashJoin); the threads start after the build.
Init ==
    /\ valL \in UNION {[1..n -> Keys] : n \in MinRows..MaxRows}
    /\ valR \in UNION {[1..n -> Keys] : n \in MinRows..MaxRows}
    /\ ~BuiltTable.fault
    /\ table = BuiltTable.ht
    /\ jobs = Len(ProbeKeys)
    /\ offset = 0
    /\ pc = [t \in Threads |-> "claim"]
    /\ row = [t \in Threads |-> NoRow]
    /\ res = [t \in Threads |-> << >>]
    /\ base = [t \in Threads |-> 0]
    /\ j = [t \in Threads |-> 0]
    /\ outputs = [s \in Slots |-> << >>]

\* Fault variant of Claim: with jobs at 0 the thread keeps the lock loop
\* going instead of returning.
ClaimSpins(t) ==
    /\ pc[t] = "claim"
    /\ IF jobs > 0
       THEN /\ jobs' = jobs - 1
            /\ row' = [row EXCEPT ![t] = jobs - 1]
            /\ res' = [res EXCEPT ![t] =
                         HashtableGet(table, ProbeKeys[jobs])]
            /\ pc' = [pc EXCEPT ![t] = "reserve"]
       ELSE UNCHANGED <<pc, jobs, row, res>>
    /\ UNCHANGED <<valL, valR, table, offset, base, j, outputs>>

\* while (jobs) { i = --jobs; unlock; ... hashtable_get(val_r[i]) }, or,
\* with jobs at 0, unlock and return (110-112, 118, 132).
Claim(t) ==
    /\ pc[t] = "claim"
    /\ IF jobs > 0
       THEN /\ jobs' = jobs - 1
            /\ row' = [row EXCEPT ![t] = jobs - 1]
            /\ res' = [res EXCEPT ![t] =
                         HashtableGet(table, ProbeKeys[jobs])]
            /\ pc' = [pc EXCEPT ![t] = "reserve"]
       ELSE /\ pc' = [pc EXCEPT ![t] = "done"]
            /\ UNCHANGED <<jobs, row, res>>
    /\ UNCHANGED <<valL, valR, table, offset, base, j, outputs>>

\* Fault variant of Reserve: reads the offset without advancing it.
ReserveNoAdvance(t) ==
    /\ pc[t] = "reserve"
    /\ base' = [base EXCEPT ![t] = offset]
    /\ j' = [j EXCEPT ![t] = 0]
    /\ pc' = [pc EXCEPT ![t] = "write"]
    /\ UNCHANGED <<valL, valR, table, jobs, offset, row, res, outputs>>

\* offset = *arg->offset; *arg->offset += res->num_tuples (120-123).
Reserve(t) ==
    /\ pc[t] = "reserve"
    /\ base' = [base EXCEPT ![t] = offset]
    /\ offset' = offset + Len(res[t])
    /\ j' = [j EXCEPT ![t] = 0]
    /\ pc' = [pc EXCEPT ![t] = "write"]
    /\ UNCHANGED <<valL, valR, table, jobs, row, res, outputs>>

\* Fault variant of Write: the loop stops one record short.
WriteSkipLast(t) ==
    /\ pc[t] = "write"
    /\ IF j[t] < Len(res[t]) - 1
       THEN /\ outputs' = [outputs EXCEPT ![base[t] + j[t]] =
                             Append(@, Record(res[t][j[t] + 1], row[t]))]
            /\ j' = [j EXCEPT ![t] = @ + 1]
            /\ UNCHANGED pc
       ELSE /\ pc' = [pc EXCEPT ![t] = "claim"]
            /\ UNCHANGED <<outputs, j>>
    /\ UNCHANGED <<valL, valR, table, jobs, offset, row, res, base>>

\* One iteration of the write loop (125-128), or its exit, which frees the
\* Result and goes back for the lock (129-130).
Write(t) ==
    /\ pc[t] = "write"
    /\ IF j[t] < Len(res[t])
       THEN /\ outputs' = [outputs EXCEPT ![base[t] + j[t]] =
                             Append(@, Record(res[t][j[t] + 1], row[t]))]
            /\ j' = [j EXCEPT ![t] = @ + 1]
            /\ UNCHANGED pc
       ELSE /\ pc' = [pc EXCEPT ![t] = "claim"]
            /\ UNCHANGED <<outputs, j>>
    /\ UNCHANGED <<valL, valR, table, jobs, offset, row, res, base>>

Thread(t) == Claim(t) \/ Reserve(t) \/ Write(t)

\* pthread_join of every thread (173): the join returns.
Finished == \A t \in Threads : pc[t] = "done"

Next == \E t \in Threads : Thread(t)

\* Every thread that can take a step eventually does: threads are never
\* descheduled forever, and each mutex is held for a bounded critical
\* section, so a waiting thread is not blocked forever.
Fairness == \A t \in Threads : WF_vars(Thread(t))

Spec == Init /\ [][Next]_vars /\ Fairness

-----------------------------------------------------------------------------

\* The rows claimed and not yet written back: every probe row at or above
\* jobs has been handed to exactly one thread.
InFlight == {t \in Threads : pc[t] \in {"reserve", "write"}}

(***************************************************************************)
(* Work and output partitioning (spec 4.4, 5): no two threads ever hold   *)
(* the same probe row, and no output slot is written twice, so each        *)
(* thread's slice is its own.                                              *)
(***************************************************************************)
DisjointClaimsAndSlices ==
    /\ \A t, u \in InFlight : t # u => row[t] # row[u]
    /\ \A s \in Slots : Len(outputs[s]) <= 1

(***************************************************************************)
(* When every thread has returned, the slots 0..res_size-1 hold exactly    *)
(* the equi-join of the inputs, each pair once, and nothing lies beyond   *)
(* res_size: the same set nested_loop_join writes.                         *)
(***************************************************************************)
ParallelJoinCorrect ==
    Finished =>
        LET ref  == NestedLoopJoin(valL, valR)
            used == {s \in Slots : outputs[s] # << >>}
        IN  /\ offset = Len(ref)
            /\ used = 0..(offset - 1)
            /\ {outputs[s][1] : s \in used} = Range(ref)

(***************************************************************************)
(* parallel_hash_join returns: every worker eventually leaves              *)
(* hashjoin_task, so the pthread_join loop ends.                           *)
(***************************************************************************)
Termination == <>Finished

=============================================================================
