------------------------------ MODULE MCJoins ------------------------------
(***************************************************************************)
(* The two hash joins of join.c checked in one model: hash_join as         *)
(* execute.c join() runs it (HashJoin) and parallel_hash_join's PROC_NUM   *)
(* probe threads (ParallelHashJoin).  A behaviour runs one of them, chosen *)
(* by join: the other's variables hold a state in which it takes no step.  *)
(***************************************************************************)
EXTENDS Naturals, Sequences

CONSTANTS t1, t2

VARIABLES join,
          sizeL, sizeR, ht, build, probe, out, fault,
          valL, valR, table, jobs, offset, pc, row, res, base, j, outputs

serialVars   == <<sizeL, sizeR, ht, build, probe, out, fault>>
parallelVars == <<valL, valR, table, jobs, offset, pc, row, res, base, j, outputs>>
vars         == <<join, serialVars, parallelVars>>

Workers == {t1, t2}

\* Serial joins of 4 and 5 rows (one split, both sides swapped and not)
\* probed with three keys, and an 8 x 8 join whose build reaches round 2
\* with a split in progress, probed with one key to keep the probe phase
\* small; keys 0..3 differ modulo 1, 2 and 4, so rounds 0 to 2 split them.
\* Parallel joins of 4 x 4 rows over keys {0, 1}: duplicates on both sides.
JoinSizes == {<<4, 4>>, <<4, 5>>, <<5, 4>>, <<5, 5>>, <<8, 8>>}
JoinProbeKeys(n) == IF n <= 5 THEN 0..2 ELSE {0}

S == INSTANCE HashJoin WITH Keys <- 0..3, ProbeKeysOf <- JoinProbeKeys,
                            Sizes <- JoinSizes, DefaultCapacity <- 2, Slot <- 4
P == INSTANCE ParallelHashJoin WITH Threads <- Workers, Keys <- {0, 1},
                                    MinRows <- 4, MaxRows <- 4, Slot <- 4

\* Serial variables of a join that has not started: no rows to build.
SerialIdle ==
    /\ sizeL = 0 /\ sizeR = 0 /\ ht = << >>
    /\ build = << >> /\ probe = << >> /\ out = << >> /\ fault = "none"

\* Parallel variables after every worker has returned.
ParallelIdle ==
    /\ valL = << >> /\ valR = << >> /\ table = << >> /\ jobs = 0 /\ offset = 0
    /\ pc = [t \in Workers |-> "done"] /\ row = [t \in Workers |-> P!NoRow]
    /\ res = [t \in Workers |-> << >>] /\ base = [t \in Workers |-> 0]
    /\ j = [t \in Workers |-> 0] /\ outputs = << >>

Init ==
    \/ join = "serial" /\ S!Init /\ ParallelIdle
    \/ join = "parallel" /\ P!Init /\ SerialIdle

ParallelStep(t) == join = "parallel" /\ P!Thread(t) /\ UNCHANGED <<join, serialVars>>

Next ==
    \/ join = "serial" /\ S!Next /\ UNCHANGED <<join, parallelVars>>
    \/ \E t \in Workers : ParallelStep(t)

\* Each worker thread is scheduled whenever it can step (see
\* ParallelHashJoin's Fairness); the serial join needs no fairness.
Fairness == \A t \in Workers : WF_vars(ParallelStep(t))

Spec == Init /\ [][Next]_vars /\ Fairness

-----------------------------------------------------------------------------

\* hash_join's table and records stay well formed (HashJoin!TypeOK).
TypeOK == join = "serial" => S!TypeOK

\* hashtable_get after hashtable_put and splits returns every value put
\* under a key, in insertion order (HashJoin!GetReturnsAllInOrder).
GetReturnsAllInOrder == join = "serial" => S!GetReturnsAllInOrder

\* hash_join returns the pairs nested_loop_join returns
\* (HashJoin!HashJoinMatchesNestedLoop).
HashJoinMatchesNestedLoop == join = "serial" => S!HashJoinMatchesNestedLoop

\* hashjoin_task's claims of jobs and reservations of *offset never
\* overlap (ParallelHashJoin!DisjointClaimsAndSlices).
DisjointClaimsAndSlices == join = "parallel" => P!DisjointClaimsAndSlices

\* parallel_hash_join's output is the equi-join once every worker is joined
\* (ParallelHashJoin!ParallelJoinCorrect).
ParallelJoinCorrect == join = "parallel" => P!ParallelJoinCorrect

\* Every hashjoin_task returns, so the pthread_join loop of
\* parallel_hash_join ends (ParallelHashJoin!Termination).
Termination == join = "parallel" => P!Termination

=============================================================================
