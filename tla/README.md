# TLA+ models of ColBase

ColBase is a column store written in C (`src/src/`). A server process parses
a query language and runs it against in-memory, mmap-backed columns. Any
column can carry an index: either a sorted copy of the column, or a B+tree
whose leaves hold `<key, row position>` pairs. Inserts, loads, deletes and
updates change the columns and their indexes together. Selects scan a column
or read through its index. Joins run as nested loops or hash joins, and
batched selects run on worker threads.

This directory holds the TLA+ specifications checked with TLC against that
code. `PROJECT.json` lists every component, run, mutant, finding and hazard,
and maps each definition to the source lines it translates.

## Parts of the system and how they interact

A load (`receive_and_load`, then `load_scheduler`) fills a table's columns.
If the table has a clustered column, `clustered_load` merge-sorts that column
first and moves every other column's values along with it (`cluster_order`,
`array_reorder`). Every column's index is then rebuilt.

An insert (`insert_scheduler`) picks one row position for the whole table:
the `pos_in_sorted` slot of the clustered column, or the end of the table.
`column_insert` then shifts each column with `array_insert` and updates its
index:

- a B+tree renumbers the row positions it stores;
- a sorted index shifts its value and position arrays.

A delete (`delete_scheduler`, `column_delete`) removes each selected
position from every column and lowers the stored index positions above it.
An update (`update_scheduler`) reads the selected rows, deletes them and
inserts the updated copies.

A select (`parse_select`, `single_select`) either walks a B+tree's leaf
chain, binary-searches a sorted index, or scans a column or an intermediate
result. Fetch, the aggregates and add/sub work on the Results that earlier
commands filed under client handles. `join()` sizes two output buffers, then
runs `nested_loop_join` or `hash_join`. `hash_join` builds a linear hash
table over the smaller side and probes it with the larger.

Every result-producing command files its Result under a client handle
(`update_context`), which frees the Result filed there before. Between
`batch_queries()` and `batch_execute()`, `select_scheduler` only collects the
selects. `batch_execute()` then runs `shared_select`: PROC_NUM `select_task`
threads claim batch indices from a shared `jobs` counter under a mutex and
evaluate them, and the results are filed in submission order once every
thread is joined.

Every column lives in a memory-mapped file, `col_data`. An unclustered
sorted index has two more files, `sorted_vals` and `sorted_pos`:

- `create_column` and `parse_create_idx` truncate and map them.
- `resize_table` grows them, via `resize_mmap`.
- `shutdown` (`sync_db`, then `free_db`) truncates each file to the rows in
  use and unmaps it. It leaves `current_db` pointing at the freed `Db`.
- The next server's `load_db` maps each file at the length it finds.
  It reads the table's old capacity back from the catalogue.

| Part | Source | Modules | Status |
|---|---|---|---|
| Array utilities | `utils.c` | `ArrayUtils`, `MCOperators` | partly |
| B+tree index | `btree.c`, `index.c`, `select.c` | `BTree`, `ColumnIndex`, `IndexAbs`, `MCColumnIndex` | partly |
| Sorted index | `index.c`, `select.c` | `SortedIndex`, `ColumnIndex`, `IndexAbs`, `MCColumnIndex` | modelled |
| Table load, insert, delete and update schedulers | `insert.c`, `update.c`, `client_context.c` | `Table`, `MCOperators`, `ColumnIndex` | partly |
| Scan selects, fetch, aggregates | `select.c`, `execute.c`, `parse.c` | `Scans`, `MCOperators` | partly |
| Linear hash table | `hash_table.c` | `HashTable`, `HashJoin`, `MCHashJoin`, `MCJoins` | modelled |
| Nested-loop, block and hash joins; `join()` | `join.c`, `execute.c` | `JoinAlgorithms`, `HashJoin`, `MCOperators`, `MCHashJoin`, `MCJoins` | partly |
| Parallel hash join | `join.c` 101-184 | `ParallelHashJoin`, `MCJoins` | modelled |
| Batched shared-scan select, client handles | `select.c` 206-232, `execute.c`, `parse.c`, `client_context.c` | `BatchSelect`, `MCBatchSelect` | modelled |
| Database persistence: mmap files, catalogue | `db_manager.c`, `utils.c` 42-69, `parse.c` 75-124 | `Storage` | partly |
| Server session loop | `server.c` | `Storage` | partly |
| Parser, printing, sockets, client | `parse.c`, `execute.c`, `client.c`, `message.c` | `BatchSelect` and `Storage` for `parse_select`, `parse_batch` and `parse_create_idx` | not modelled otherwise |

## Modules

### Pure operators

- **`ArrayUtils`**: `binary_search`, `pos_in_sorted`, `array_insert`,
  `array_delete`, `merge` and `merge_sort`.
  - A C array is a function from its indices.
  - `array_insert` and `array_delete` pass memmove a byte count.
    `MovedInts` is the number of whole ints such a memmove carries.
- **`JoinAlgorithms`**: `nested_loop_join` and `block_nested_loop_join`.
  - Each returns its output as a sequence of `<<left, right>>` position
    pairs.
  - Both swap the sides when the left one is larger, and swap the pairs
    back (`SwapPairs`).
- **`SortedIndex`**: `init_sorted_index`, `insert_sorted_index`,
  `delete_sorted_index` and `select_from_sorted` over the index's
  `[vals, pos]` arrays.
  - A `size_t` position that wraps below zero is kept as a negative number.
    `SizeGeq` compares such positions as the code does.
  - `vals` is shifted by `ArrayUtils`' `ArrayInsert` and `ArrayDelete`,
    which move what the code's byte-count memmove moves.
- **`Scans`**: the comparator `parse_select` builds, `select_from_column`'s
  scan, `select_from_result`, `single_select`, `fetch`, `avg_sum`,
  `add_sub` and `max_min`.
  - A Result is `[ok, vals]`; `ok` is FALSE where the code returns NULL.
  - `add_sub` wraps on 32 bits (`AddWrap`, `SubWrap`).
  - AVG is kept as the fraction `sum / divisor`.
- **`Table`**: `load_scheduler` with `clustered_load` / `unclustered_load`,
  `insert_scheduler` with `clustered_insert` / `unclustered_insert`,
  `delete_scheduler` with `column_delete`, and `update_scheduler`.
  - Both work over a table record `[cols, size, capacity]` whose columns
    are unindexed.
  - `resize_table` doubles the capacity and zero-fills the new slots.
  - Columns are shifted by `ArrayInsert` and `ArrayDelete`, as the code
    shifts them.
- **`HashTable`**: `create_hashtable`, `hash`, `bucket_put`,
  `hashtable_split`, `hashtable_put` and `hashtable_get`.
  - It also records how many bucket slots are really allocated (`alloc`).
    A write at or past `alloc` is reported as a fault.
- **`MCOperators`**: checks the pure operators against reference
  definitions.
  - Each initial state is one input, of one of four regimes:
    - an array with a length, a value and a position;
    - a pair of join inputs;
    - a column to scan;
    - a table's first load and its clustered column, followed by a second
      load and an insert.
  - `Next` leaves the input unchanged, so each property is evaluated once
    per input.

### State machines

- **`BTree`**: the B+tree as an arena, `[nodes |-> Seq(Node), root |-> id]`,
  with `NULL = 0`.
  - A node keeps the C fields `is_leaf`, `vals`, `idxs`, `length`,
    `children` and `next`.
  - Each C function is one operator. The recursive ones are RECURSIVE
    operators.
  - Nodes are never freed, as in the code.
- **`IndexAbs`**: what a column index promises. The state is the column as
  a sequence of keys. An insert puts a key at any row position, and a
  delete removes any row.
- **`ColumnIndex`**: one indexed column of a table.
  - Variables:
    - `kind` (B+tree or sorted);
    - `layout`: the column is clustered, another column is clustered, or
      no column is;
    - `tree` and `six`: the two index payloads;
    - `data` and `size`: the column;
    - `crashed`.
  - `Init` is a `column_load` followed by `rebuild_index`.
  - `InsertRow(v, p)` is `column_insert`: the data shift (`ArrayInsert`,
    the code's byte-count memmove), then
    `insert_btree_index` or `insert_sorted_index`, then `size++`. The row
    `p` ranges over the rows `insert_scheduler` can pick for the layout.
  - `DeleteRow(p)` is `column_delete` of one row, with `delete_btree_index`
    or `delete_sorted_index`.
  - `IndexedColumn` reads the index back as a column; `Corrupt` marks a row
    held zero or several times. A distinct-key workload (`UniqueKeys`)
    inserts keys that this column does not hold. It reads the index, not
    `col->data`, which a faulty shift may have changed. `Abs` instantiates `IndexAbs` with it, and
    `IndexRefinement` is `Abs!Spec`.
  - `Select` is `select_from_btree` or `select_from_sorted`.
- **`HashJoin`**: one `join()` with `HASH`.
  - `Init` sizes the output buffers and creates the hash table.
  - `Build` is one `hashtable_put` of the smaller side.
  - `Probe` is one `hashtable_get` of the larger side with its copy into
    the output.
  - Each row picks its key, so every input of the given sizes is a
    behaviour.
  - `fault` records the first undefined behaviour reached, after which the
    behaviour stops.
- **`ParallelHashJoin`**: the probe phase of `parallel_hash_join`.
  - Each worker thread:
    - claims a probe row by decrementing `jobs` under `lock`;
    - reserves an output slice under `res_lock`;
    - writes the slice without a lock, one record per step.
  - The build happens before the threads start, so it is folded into
    `Init`.
  - `parallel_hash_join` has no caller in the repository (`join()` calls
    `hash_join`). The model checks it as written.
- **`MCJoins`**: both hash joins in one model. A behaviour runs `HashJoin`
  (`join = "serial"`) or `ParallelHashJoin` (`join = "parallel"`), each
  through an `INSTANCE`. The other's variables sit in a state where it takes
  no step.
- **`BatchSelect`**: a client session.
  - Variables:
    - `ctx`: the handle table, name to Result;
    - `live`: the Results allocated and not freed;
    - `collecting`, `cmps`, `bnames`, `results`: the `BatchSelect` struct;
    - `jobs`, `wpc`, `widx`: `select.c`'s counter and each worker's pc and
      claimed index;
    - `phase`: the client is running commands, or waiting in
      `shared_select`;
    - `evals`: how many times each batch index was evaluated;
    - `crashed`.
  - A Result is its address (`1..MaxResults`, `NULL = 0`). The values a
    scan computes are `Scans`' subject.
  - `Select(h)` is `parse_select` plus `select_scheduler`. A select of a
    result captures the two handles' pointers when it is parsed, as the code
    does.
  - `Operate(h)` stands for fetch, avg, sum, add, sub, max and min. Each
    reads up to two handles and files a new Result.
  - `BatchQueries` and `BatchExecute` are `parse_batch`. `Claim(t)` and
    `Eval(t)` are `select_task`'s locked claim and its unlocked
    `single_select`. `FileResults` is the `update_context` loop with
    `free_batch` and `init_batch`.
  - Reading a NULL Result sets `crashed`, and the behaviour stops.
- **`Storage`**: the mapped files of one column over a server's life.
  - Every column of a table has the table's size and capacity, so one
    column stands for the table. It has an unclustered sorted index or
    no index.
  - The values are left out: only which bytes are touched matters.
  - Variables:
    - `size` and `capacity`;
    - the three file lengths (`dataLen`, `valsLen`, `posLen`);
    - the three mapped lengths (`dataMap`, `valsMap`, `posMap`), or
      `MapFailed` (mmap of length 0), or `Unmapped`;
    - `meta`: the catalogue `sync_db` wrote last;
    - `server`: serving, closed after `shutdown` with the connection
      still open, or down.
  - Page granularity: an access is inside a mapping when it ends at or
    below the mapped length rounded up to `PageSize`.
  - Actions:
    - `CreateIndex` (`parse_create_idx`);
    - `Load` (`load_scheduler` with its resize loop);
    - `Insert` (`insert_scheduler`);
    - `Delete` (`delete_scheduler`);
    - `Shutdown` (`sync_db`, then `free_db`);
    - `CommandAfterShutdown` (`handle_client` reading on);
    - `Disconnect`;
    - `Restart`: the next server's `load_db`, bounded by `MaxRestarts`.

## Runs

| Run | cfg | Expect | What it shows |
|---|---|---|---|
| pure_operators | MCOperators.cfg | pass | `pos_in_sorted` keeps an array sorted. `merge_sort` is a stable sort. Both nested-loop joins give the equi-join. Select → fetch → select-on-result gives the conjunction. The aggregates match their definitions. Two loads, and an append into a table with no clustered column, keep table rows whole. |
| array_shift_bytes | MCArrayShift.cfg | violation | `array_insert` and `array_delete` move length−pos bytes, not ints. |
| column_index | MCColumnIndex.cfg | pass | `col->data` is shifted as the code shifts it. An unclustered B+tree takes loads, appends and deletes at any row. It stays in key order, answers every range select from the rows it holds, and refines `IndexAbs`. A clustered B+tree and both sorted layouts are loaded and selected. |
| btree_duplicate_keys | MCBTreeDuplicates.cfg | violation | Equal keys across a leaf split are missed by a select. |
| btree_root_split | MCBTreeRootSplit.cfg | violation | `btree_split_root` writes the wrong separator, and the leaf chain goes out of order. |
| btree_delete_crash | MCBTreeDeleteCrash.cfg | violation | Deleting the first leaf's rows underflows a node length. |
| index_renumbering | MCIndexRenumbering.cfg | violation | Checks the unclustered layouts of both index kinds against `IndexAbs`. TLC reports the B+tree trace: when another column is clustered, an unclustered B+tree does not renumber earlier leaves. `insert_sorted_index` overwriting a position violates the same property. |
| hash_joins | MCJoins.cfg | pass | A hash join returns the nested-loop join's pairs. `hashtable_get` returns every value put, in order, including mid-split in round 2. Parallel workers never share a probe row or an output slot, the output is the equi-join, and the join terminates. |
| hash_join_overflow | MCHashJoinFaults.cfg | violation | `resize_hashtable` reallocates to the old size, so a split writes past the bucket array. The probe overruns join()'s `max(size_l, size_r)` output buffers with duplicate keys, which violates the same property. |
| batch_select | MCBatchSelect.cfg | pass | Each batched select is evaluated by exactly one worker, and `batch_execute` returns. Every live Result has exactly one owner. A batch files its Results in submission order. |
| batch_stale_result | MCBatchStale.cfg | violation | A collected select of a Result reads it after a later command of the batch re-assigned the handle and freed it. |
| storage_mapping | MCStorage.cfg | violation | `create idx` on an empty column leaves `MAP_FAILED` in the index, and the next load writes through it. |

The properties are:

- **`PosInSortedKeepsOrder`**, **`MergeSortIsStableSort`**,
  **`NestedJoinsAreEquiJoin`**: each checks an algorithm against a
  reference definition.
- **`ScanSelectsAreConjunction`**: `s1 = select(col, lo1, hi1)`, then
  `fetch(col, s1)`, then `select(s1, f, lo2, hi2)`. The result holds
  exactly the rows satisfying both predicates, ascending and each once.
  `select_from_result` must write `input_id[i]` and not the slot.
- **`AggregatesMatchReference`**: for every selection:
  - max, min, sum and the avg divisor equal their definitions;
  - each aggregate returns no tuple when the selection is empty;
  - sub undoes add.
- **`TableKeepsRowsWhole`**: a load and a second load keep each row a
  whole tuple across the columns, through the resizes. A clustered table
  stays ordered by its clustered column; any other keeps load order. An
  insert into a table with no clustered column (an append) keeps them too.
  A clustered insert is not claimed, since `array_insert` loses rows
  there.
- **`ArrayShiftsAreInsertAndDelete`**: `array_insert` and `array_delete`
  are the sequence insert and remove.
- **`IndexInKeyOrder`**: the index's entries (leaf chain, sorted arrays, or
  a clustered column itself) never decrease.
- **`RangeSelectCorrect`**: for every pair of bounds `lo <= hi`, the select
  returns exactly the rows the index holds with a key in `[lo, hi)`, each
  once. The rows are those of `IndexedColumn`, which `IndexRefinement` ties
  to the abstract column. Whether `col->data` agrees with them is
  `ArrayShiftsAreInsertAndDelete`'s question.
- **`IndexRefinement`**: the index, read back as a column, behaves as the
  abstract index. This catches a row position that is stale, lost or
  duplicated.
- **`NoCrash`**: `btree_delete` never underflows a node length.
- **`GetReturnsAllInOrder`**: `hashtable_get` of a key returns every value
  put under it, in put order.
- **`HashJoinMatchesNestedLoop`**: a completed hash join wrote the same
  pairs as the nested-loop join, with the sides the right way round.
- **`NoMemoryFault`**: a hash join stays inside its allocations. It
  writes no bucket slot past the array, reads no moved payload, and
  writes nothing past the output buffers.
- **`DisjointClaimsAndSlices`**: no two workers claim one probe row or
  overlap output slices.
- **`ParallelJoinCorrect`**: once finished, the output is the equi-join.
- **`Termination`**: every worker eventually returns. In `hash_joins` this
  is the parallel join's workers; in `batch_select`, once `shared_select`
  starts, the batch is filed unless the server crashed.
- **`ClaimsPartitionBatch`**: during `shared_select`, every batch index above
  `jobs` was claimed by exactly one worker. That worker still holds it or
  has stored its Result. No index is evaluated twice (`single_select` frees
  its comparator), and none at or below `jobs` has been touched.
- **`ResultsOwnedOnce`**: the live Results are exactly those held by a
  handle or an unfiled batch slot, and no two holders share one. A leak or a
  handle left on freed memory breaks it.
- **`FiledInSubmissionOrder`**: when `batch_execute` returns, each handle
  named in the batch holds the Result of the last select submitted under
  it, whatever order the workers finished in. Other handles are untouched.
- **`BatchReadsLiveResults`**: while `shared_select` runs, a collected
  select of a result whose position handle is not NULL points only at
  allocated Results. `select_from_result` reads the position handle first
  (`select.c` 142), so a NULL there crashes before any other read.
- **`NoInvalidAccess`**: the server never touches a byte outside a
  mapping, and never runs a command against the `Db` that `shutdown`
  freed. It covers three traces:
  - an index created on an empty column (`MAP_FAILED`);
  - an index created at 512·k rows, whose `sorted_pos` ends on a page
    boundary;
  - a restart after a sync that truncated `col_data` to 0 or 1024·k ints.
    `capacity` stays the old value, so no resize remaps the file.

Each property that a passing run checks has a mutant in `PROJECT.json`: a
plausible bug in the mapped code, which TLC finds violating the property.
The violation runs each come with a finding.

## Bounds

- **B+tree:** `Fanout = 3` stands in for the compiled `FANOUT`. Every
  split, shift, collapse and chain walk depends only on `length` compared
  with Fanout. `MaxNodes = 5` keeps the passing run at height 2. The next
  step would be a root split, which is wrong, so it has its own run
  (`MaxNodes = 7`).
- **`column_index` bounds:** per kind and layout (`MCColumnIndex`): loads of
  up to 4 rows, capacity 4 to 6, keys 1..6.
  - `col->data` is shifted as the code shifts it. The first insert two or
    more rows before the end loses a row (`array_shift_bytes`), and every
    later step of a layout that reads the data inherits the loss. So:
    - a clustered B+tree takes its insert row from `pos_in_sorted` over
      the data, and is loaded and selected only. `btree_delete` does not
      depend on the layout and is checked on the unclustered tree;
    - an unclustered B+tree appends, which moves nothing, and deletes by
      row; the tree never reads the data;
    - a sorted index, clustered (the index is the data) or not (`vals` is
      shifted the same way), is loaded with 4 rows and selected only. The
      unclustered one's inserts and deletes are `index_renumbering`'s
      subject.
  - `VIEW LiveView` drops the slots past `size`. They are always written
    before they are read, except by `select_from_sorted` on an empty
    column, which a sorted column with at least one row never is. It also
    drops a B+tree column's data, which only a clustered insert reads, and
    the run has none. Without the view, stale slots and the rows a delete
    leaves in `col->data` multiply the states without changing any
    observable result.
- **Hash join:** `Slot = 4` as in `hash_table.h`. Keys 0..3 differ modulo
  1, 2 and 4, so rounds 0 to 2 split them.
  - Joins of 4 and 5 rows cover one split and both side orders.
  - An 8×8 build reaches round 2 mid-split.
  - `DefaultCapacity = 2` in the passing run lets a get grow its buffer;
    the violation runs use the real 32.
  - The resize bug needs an 11-row build. Its probe side may carry any of
    keys 0..3.
- **Parallel hash join:** 2 of the 16 workers are enough for every pair of
  them to interleave, with 4 rows per side over 2 keys.
- **Batch select:** 2 of the 16 workers, 2 handle names, 4 Results, and
  batches of up to 3 selects. That is enough for:
  - both workers to hold an index at once;
  - a batch with two selects under one name;
  - a batch after earlier Results were filed;
  - every crash path.
- **Storage:** the real constants: `PageSize = 4096`, `sizeof(int) = 4`,
  `sizeof(size_t) = 8`, `TABLE_CAPACITY = 256`.
  - Loads of 1, 255, 256 and 1024 rows, with up to 2048 rows, reach
    these cases:
    - a size of 0;
    - a capacity exactly full;
    - a resize of more than one doubling;
    - `col_data` ending on a page (1024 ints);
    - `sorted_pos` ending on a page (512 `size_t`).
  - Two restarts are enough for a restart from a restart.
- **Pure operators:**
  - arrays of up to 4 elements over 4 values;
  - join inputs of up to 4 rows over 2 keys, with blocks of 3, so partial
    last blocks occur;
  - scanned columns of up to 4 rows, with bounds null or 1..3;
  - tables of two columns over keys 0..2, created with capacity 2 so that
    both schedulers resize.

## Fairness and deadlock

`ParallelHashJoin` and `BatchSelect` have liveness. Each worker thread is
weakly fair (`WF_vars(Thread(t))`, `WF_vars(Worker(t))`): pthreads are never
starved forever, and every mutex is held only for a bounded critical
section. In `BatchSelect`, `FileResults` is also weakly fair: `parse_batch`
continues once `pthread_join` has returned for every worker. The client's
commands have no fairness, since a client may stop at any time. The server handles
one query at a time, so nothing else must happen without a client asking.

`CHECK_DEADLOCK FALSE` is set because every module's behaviours really do
stop:

- a finished join or thread pool;
- a client that stops issuing commands, or reaches the Result bound;
- a fault or crash, after which the process is in no defined state;
- a column at its capacity bound;
- the pure-operator inputs, which never change.

## Not modelled, and why

- **Table deletes and updates:** `Table` models `delete_scheduler` and
  `update_scheduler` as the code runs them. No property checks them, for
  two reasons:
  - `array_delete`'s byte count leaves wrong rows: deleting row 0 of three
    leaves `[r1, r1]`;
  - `column_delete` does not lower the positions after the first.

  Either would fail any property naming the rows left. The first is
  already `array_shift_bytes`' finding, and the second has no violation
  run yet; it is listed as a hazard. The same byte count is why
  `TableKeepsRowsWhole` claims no clustered insert, and `column_index`
  gives a clustered B+tree and a sorted index no inserts or deletes. The
  clustered B+tree's renumbering (`btree.c` 183) is therefore unchecked.
- **NULL Results read by a command:** `BatchSelect` reaches the crash in
  two ways:
  - `select(col, null, null)` files NULL, and a later command reads that
    handle;
  - a batched select reads a handle that an earlier select of the same
    batch assigns.

  `batch_stale_result` checks only the freed Result. A property that also
  forbids the crash would report the shorter NULL trace instead. Both are
  listed as hazards.
- **Sorted-index edges:** `select_from_sorted` on an emptied column and
  with `lo > hi` are not reached. The passing run keeps at least one row
  and bounds `lo <= hi`.
- **Other fault traces:**
  - the stale-payload trace of `hashtable_get` and the output overflow are
    covered by `NoMemoryFault`, but the run reports the bucket overflow
    first;
  - `Storage`'s restart, page-boundary and use-after-shutdown traces are
    covered by `NoInvalidAccess`, but the run reports the empty-column
    index first;
  - `create_hashtable`'s zero capacity for fewer than 4 rows has no run.
- **Empty loads:** `merge_sort` and `build_btree` on zero rows underflow
  `size_t`. The models start from at least one row.
- **Persistence beyond file lengths:**
  - the B+tree file format (`sync_btree_idx`, `load_btree_node`);
  - switching databases (`add_db`, `not_current_db`);
  - a crash without `shutdown`, where nothing is synced;
  - a `load_db` of a database with no catalogue, which reads through a
    NULL `FILE*`.

  `Storage` tracks which bytes are accessed, not what they hold. Bytes
  written past the end of a file inside its last mapped page are also left
  out: whether they reach the file is unspecified.
- **I/O and text:** sockets, message framing (`message.c`, including the
  `sizeof(eof)` marker), the client, query parsing beyond the comparator,
  `create idx` and batches, and `print` are I/O and string handling.
