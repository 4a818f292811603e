----------------------------- MODULE BatchSelect -----------------------------
(***************************************************************************)
(* A client session's named Results and its batched shared-scan select:    *)
(* the handle table of client_context.c, select_scheduler and the result-  *)
(* producing cases of execute_DbOperator (execute.c), parse_batch          *)
(* (parse.c), and the PROC_NUM select_task threads of shared_select        *)
(* (select.c 206-232).                                                      *)
(*                                                                         *)
(* A Result is its address: an id of 1..MaxResults, with NULL the null     *)
(* pointer; live is the set of Results malloc'd and not yet freed.  The    *)
(* values a scan computes are Scans' subject and are left out.  A          *)
(* comparator is what parse_select builds: a scan of a base column         *)
(* (scanned is FALSE for select(col,null,null), whose comparator type no   *)
(* scan handles), or a scan of a result holding the two Result pointers    *)
(* looked up when the command was parsed.  Dereferencing NULL ends the     *)
(* server (crashed).  The growth of the batch and handle arrays            *)
(* (resize_batch_if_full, resize_context_if_full) keeps every entry and is *)
(* left out.                                                               *)
(***************************************************************************)
EXTENDS Naturals, Sequences, FiniteSets
LOCAL INSTANCE SequencesExt

CONSTANTS Threads,     \* the PROC_NUM select_task workers
          Handles,     \* handle names a client uses
          MaxResults,  \* bound on the Results a behaviour allocates
          MaxBatch     \* bound on the selects of one batch

NULL == 0
Ids  == 1..MaxResults

VARIABLES ctx,         \* chandle_table: handle name -> Result pointer
          live,        \* Results allocated and not freed
          nextId,      \* the next address malloc returns
          collecting,  \* batch->is_collecting
          cmps,        \* batch->comparators
          bnames,      \* batch->handles
          results,     \* batch->results
          jobs,        \* select.c's static jobs counter
          wpc,         \* per worker: "idle", "claim", "eval", "done"
          widx,        \* per worker: the index it claimed
          evals,       \* per batch index: single_select calls made on it
          phase,       \* "client", or "shared_select" while parse_batch waits
          crashed

vars == <<ctx, live, nextId, collecting, cmps, bnames, results,
          jobs, wpc, widx, evals, phase, crashed>>

\* The comparators parse_select can build in the current context
\* (parse.c 281-316): the result pointers are looked up now.
ColumnCmps == {[src |-> "column", scanned |-> s] : s \in BOOLEAN}
ResultCmps == {[src |-> "result", ids |-> ctx[hp], vals |-> ctx[hv]] : hp, hv \in Handles}

\* init_batch (client_context.c 8-17): empty and not collecting.
EmptyBatch ==
    /\ collecting' = FALSE
    /\ cmps' = << >> /\ bnames' = << >> /\ results' = << >>

\* lookup_handle_result (64-76): NULL for a name never filed.
LookupHandleResult(h) == ctx[h]

\* free_result (db_manager.c 345-350): NULL is ignored.
FreeResult(l, r) == l \ {r}

\* Fault variant of UpdateContext: the prior Result is not freed.
UpdateContextNoFree(c, h, r) ==
    [ctx  |-> [c.ctx EXCEPT ![h] = r],
     live |-> c.live \cup ({r} \ {NULL})]

\* update_context (78-87) as a function of the table and the live set:
\* the Result filed under h before is freed (free_result of NULL does
\* nothing), the new pointer is stored.
UpdateContext(c, h, r) ==
    [ctx  |-> [c.ctx EXCEPT ![h] = r],
     live |-> FreeResult(c.live, c.ctx[h]) \cup ({r} \ {NULL})]

\* The Results single_select (select.c 186-204) can return for a
\* comparator, at address id: NULL where no scan applies; a scan of a
\* result is NULL also when its two inputs differ in length.
SingleSelectResults(cmp, id) ==
    IF cmp.src = "column" THEN (IF cmp.scanned THEN {id} ELSE {NULL})
    ELSE {id, NULL}

\* single_select dereferences both pointers of a scan of a result.
ReadsNull(cmp) == cmp.src = "result" /\ NULL \in {cmp.ids, cmp.vals}

Client == phase = "client" /\ ~crashed

\* init_context (18-27): no handles, an empty batch, no workers.
Init ==
    /\ ctx = [h \in Handles |-> NULL]
    /\ live = {}
    /\ nextId = 1
    /\ collecting = FALSE /\ cmps = << >> /\ bnames = << >> /\ results = << >>
    /\ jobs = 0
    /\ wpc = [t \in Threads |-> "idle"]
    /\ widx = [t \in Threads |-> 0]
    /\ evals = << >>
    /\ phase = "client"
    /\ crashed = FALSE

\* h = select(...) through select_scheduler (execute.c 18-31): while
\* collecting, the comparator and handle are appended; otherwise
\* single_select runs now and its Result is filed under h.
Select(h) ==
    /\ Client
    /\ \E cmp \in ColumnCmps \cup ResultCmps :
         IF collecting
         THEN /\ Len(cmps) < MaxBatch
              /\ nextId + Len(cmps) <= MaxResults
              /\ cmps' = Append(cmps, cmp)
              /\ bnames' = Append(bnames, h)
              /\ results' = Append(results, NULL)
              /\ UNCHANGED <<ctx, live, nextId, crashed>>
         ELSE /\ nextId <= MaxResults
              /\ IF ReadsNull(cmp)
                 THEN crashed' = TRUE /\ UNCHANGED <<ctx, live, nextId>>
                 ELSE \E r \in SingleSelectResults(cmp, nextId) :
                        LET c == UpdateContext([ctx |-> ctx, live |-> live], h, r)
                        IN  /\ ctx' = c.ctx /\ live' = c.live
                            /\ nextId' = nextId + 1
                            /\ UNCHANGED crashed
              /\ UNCHANGED <<cmps, bnames, results>>
    /\ UNCHANGED <<collecting, jobs, wpc, widx, evals, phase>>

\* h = fetch / avg / sum / add / sub / max / min (...) (execute.c 281-318):
\* the operator reads the Results named in ins, looked up at parse time,
\* and its new Result is filed under h.  add and sub return NULL for
\* inputs of different lengths; the others always return a Result.
Operate(h) ==
    /\ Client
    /\ nextId <= MaxResults
    /\ \E ins \in {s \in SUBSET Handles : Cardinality(s) <= 2} :
         IF \E x \in ins : LookupHandleResult(x) = NULL
         THEN crashed' = TRUE /\ UNCHANGED <<ctx, live, nextId>>
         ELSE \E r \in {nextId} \cup (IF Cardinality(ins) = 2 THEN {NULL} ELSE {}) :
                LET c == UpdateContext([ctx |-> ctx, live |-> live], h, r)
                IN  /\ ctx' = c.ctx /\ live' = c.live
                    /\ nextId' = nextId + 1
                    /\ UNCHANGED crashed
    /\ UNCHANGED <<collecting, cmps, bnames, results, jobs, wpc, widx, evals, phase>>

\* batch_queries() (parse.c 258-267): start collecting.
BatchQueries ==
    /\ Client
    /\ ~collecting
    /\ collecting' = TRUE
    /\ UNCHANGED <<ctx, live, nextId, cmps, bnames, results, jobs, wpc, widx,
                   evals, phase, crashed>>

\* batch_execute() (parse.c 268-270) up to shared_select's pthread_create
\* loop (select.c 224-229): jobs = batch->size and every worker started.
\* The workers' Results get the next Len(cmps) addresses.
BatchExecute ==
    /\ Client
    /\ collecting' = FALSE
    /\ jobs' = Len(cmps)
    /\ wpc' = [t \in Threads |-> "claim"]
    /\ evals' = [i \in DOMAIN cmps |-> 0]
    /\ phase' = "shared_select"
    /\ UNCHANGED <<ctx, live, nextId, cmps, bnames, results, widx, crashed>>

\* The address of the Result computed for batch index i.
SlotId(i) == nextId + i - 1

\* Fault variant of Claim: idx = jobs-- instead of --jobs.
ClaimPostDecrement(t) ==
    /\ phase = "shared_select" /\ ~crashed
    /\ wpc[t] = "claim"
    /\ IF jobs > 0
       THEN /\ jobs' = jobs - 1
            /\ widx' = [widx EXCEPT ![t] = jobs]
            /\ wpc' = [wpc EXCEPT ![t] = "eval"]
       ELSE /\ wpc' = [wpc EXCEPT ![t] = "done"]
            /\ UNCHANGED <<jobs, widx>>
    /\ UNCHANGED <<ctx, live, nextId, collecting, cmps, bnames, results, evals,
                   phase, crashed>>

\* Fault variant of Claim: with jobs at 0 the worker keeps looping.
ClaimSpins(t) ==
    /\ phase = "shared_select" /\ ~crashed
    /\ wpc[t] = "claim"
    /\ jobs > 0
    /\ jobs' = jobs - 1
    /\ widx' = [widx EXCEPT ![t] = jobs - 1]
    /\ wpc' = [wpc EXCEPT ![t] = "eval"]
    /\ UNCHANGED <<ctx, live, nextId, collecting, cmps, bnames, results, evals,
                   phase, crashed>>

\* select_task's lock loop (select.c 211-216, 219-221): under the lock,
\* take idx = --jobs, or return when jobs is 0.
Claim(t) ==
    /\ phase = "shared_select" /\ ~crashed
    /\ wpc[t] = "claim"
    /\ IF jobs > 0
       THEN /\ jobs' = jobs - 1
            /\ widx' = [widx EXCEPT ![t] = jobs - 1]
            /\ wpc' = [wpc EXCEPT ![t] = "eval"]
       ELSE /\ wpc' = [wpc EXCEPT ![t] = "done"]
            /\ UNCHANGED <<jobs, widx>>
    /\ UNCHANGED <<ctx, live, nextId, collecting, cmps, bnames, results, evals,
                   phase, crashed>>

\* results[idx] = single_select(comparators[idx]) outside the lock
\* (select.c 217); idx goes out of scope.
Eval(t) ==
    /\ phase = "shared_select" /\ ~crashed
    /\ wpc[t] = "eval"
    /\ LET i == widx[t] + 1 IN
       /\ evals' = [evals EXCEPT ![i] = @ + 1]
       /\ wpc' = [wpc EXCEPT ![t] = "claim"]
       /\ widx' = [widx EXCEPT ![t] = 0]
       /\ IF ReadsNull(cmps[i])
          THEN crashed' = TRUE /\ UNCHANGED <<results, live>>
          ELSE \E r \in SingleSelectResults(cmps[i], SlotId(i)) :
                 /\ results' = [results EXCEPT ![i] = r]
                 /\ live' = live \cup ({r} \ {NULL})
                 /\ UNCHANGED crashed
    /\ UNCHANGED <<ctx, nextId, collecting, cmps, bnames, jobs, phase>>

\* Fault variant of FileResults: the handles are filed last index first.
FileResultsReversed ==
    /\ phase = "shared_select" /\ ~crashed
    /\ \A t \in Threads : wpc[t] = "done"
    /\ LET file(c, i) == UpdateContext(c, bnames[i], results[i])
           c == FoldLeft(file, [ctx |-> ctx, live |-> live],
                         [k \in 1..Len(bnames) |-> Len(bnames) + 1 - k])
       IN  ctx' = c.ctx /\ live' = c.live
    /\ nextId' = nextId + Len(cmps)
    /\ EmptyBatch
    /\ wpc' = [t \in Threads |-> "idle"]
    /\ evals' = << >>
    /\ phase' = "client"
    /\ UNCHANGED <<jobs, widx, crashed>>

\* The rest of batch_execute once every worker is joined (parse.c
\* 272-276): update_context for i = 0, 1, ... in turn, then free_batch
\* and init_batch.
FileResults ==
    /\ phase = "shared_select" /\ ~crashed
    /\ \A t \in Threads : wpc[t] = "done"
    /\ LET file(c, i) == UpdateContext(c, bnames[i], results[i])
           c == FoldLeft(file, [ctx |-> ctx, live |-> live],
                         [i \in 1..Len(bnames) |-> i])
       IN  ctx' = c.ctx /\ live' = c.live
    /\ nextId' = nextId + Len(cmps)
    /\ EmptyBatch
    /\ wpc' = [t \in Threads |-> "idle"]
    /\ evals' = << >>
    /\ phase' = "client"
    /\ UNCHANGED <<jobs, widx, crashed>>

Worker(t) == Claim(t) \/ Eval(t)

Next ==
    \/ \E h \in Handles : Select(h) \/ Operate(h)
    \/ BatchQueries
    \/ BatchExecute
    \/ \E t \in Threads : Worker(t)
    \/ FileResults

\* Every worker that can step eventually does (threads are not starved;
\* the lock is held for one decrement), and parse_batch resumes once
\* pthread_join has returned for all of them.  The client needs none.
Fairness ==
    /\ \A t \in Threads : WF_vars(Worker(t))
    /\ WF_vars(FileResults)

Spec == Init /\ [][Next]_vars /\ Fairness

-----------------------------------------------------------------------------

\* The workers holding batch index i between claim and store.
Holders(i) == {t \in Threads : wpc[t] = "eval" /\ widx[t] + 1 = i}

(***************************************************************************)
(* shared_select hands out the batch (spec 4.5, claim-a-decreasing-index): *)
(* indices above jobs have been claimed, each by exactly one worker, which *)
(* either still holds it or has stored its Result; no index is evaluated   *)
(* twice (single_select frees its comparator, so a second call would free  *)
(* it again) and none at or below jobs has been touched.                   *)
(***************************************************************************)
ClaimsPartitionBatch ==
    phase = "shared_select" /\ ~crashed =>
        \A i \in DOMAIN cmps :
            IF i <= jobs THEN evals[i] = 0 /\ Holders(i) = {}
            ELSE \/ evals[i] = 1 /\ Holders(i) = {}
                 \/ evals[i] = 0 /\ Cardinality(Holders(i)) = 1

\* Results some owner holds: a handle, or a batch slot not yet filed.
Owned == ({ctx[h] : h \in Handles} \cup {results[i] : i \in DOMAIN results}) \ {NULL}

(***************************************************************************)
(* Every allocated Result has exactly one owner (spec 3: a Result is      *)
(* owned by the handle it is filed under, and re-assigning a handle frees  *)
(* the prior one): the live Results are exactly those held by a handle or  *)
(* an unfiled batch slot, and no two holders share one.  A filing order    *)
(* that skipped a free, or filed a Result twice, leaks it or leaves a      *)
(* handle pointing at freed memory.                                        *)
(***************************************************************************)
ResultsOwnedOnce ==
    /\ live = Owned
    /\ \A h, g \in Handles : h # g /\ ctx[h] # NULL => ctx[h] # ctx[g]
    /\ \A i \in DOMAIN results : results[i] # NULL =>
         /\ results[i] \notin {ctx[h] : h \in Handles}
         /\ \A k \in DOMAIN results : k # i => results[k] # results[i]

\* The last batch index submitted under handle h.
LastIndex(h) == CHOOSE i \in DOMAIN bnames :
                  bnames[i] = h /\ \A k \in DOMAIN bnames : bnames[k] = h => k <= i

(***************************************************************************)
(* When batch_execute returns, each handle named in the batch holds the    *)
(* Result of the last select submitted under it, whatever order the        *)
(* workers finished in (spec 4.5: filed in original submission order), and *)
(* every other handle is untouched.                                        *)
(***************************************************************************)
FiledInSubmissionOrder ==
    [][phase = "shared_select" /\ phase' = "client" =>
         \A h \in Handles :
             ctx'[h] = IF h \in Range(bnames) THEN results[LastIndex(h)] ELSE ctx[h]]_vars

(***************************************************************************)
(* A batched select reads only Results that are still allocated (spec 3:  *)
(* re-assigning a handle frees the prior Result): while shared_select      *)
(* runs, a collected select of a result whose position handle is not NULL *)
(* holds only live Results.  select_from_result reads gen_col_id's Result  *)
(* first (select.c 142) and gen_col's next (143), so a NULL position       *)
(* handle crashes before anything else is read and is not judged here.     *)
(* parse_select copies the pointers when the select is collected, and a    *)
(* command between batch_queries and batch_execute may re-assign either    *)
(* handle, whose update_context frees the Result the comparator holds.     *)
(***************************************************************************)
BatchReadsLiveResults ==
    phase = "shared_select" =>
        \A i \in DOMAIN cmps :
            cmps[i].src = "result" /\ cmps[i].ids # NULL =>
                {cmps[i].ids, cmps[i].vals} \ {NULL} \subseteq live

(***************************************************************************)
(* batch_execute returns: once shared_select starts, every select_task     *)
(* returns and the results are filed, unless a worker crashed the server.  *)
(***************************************************************************)
Termination == phase = "shared_select" ~> (phase = "client" \/ crashed)

=============================================================================
