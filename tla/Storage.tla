------------------------------- MODULE Storage -------------------------------
(***************************************************************************)
(* The memory-mapped files of a column over a server's life: create_column *)
(* maps col_data, parse_create_idx maps an unclustered sorted index's      *)
(* sorted_vals and sorted_pos, resize_table grows them, shutdown (sync_db) *)
(* truncates every file to the rows in use and unmaps it, and the next     *)
(* server's load_db maps each file at the length it finds.                 *)
(*                                                                         *)
(* Lengths are in bytes.  mmap maps whole pages, so an access below the    *)
(* mapped length rounded up to PageSize stays inside the mapping and one   *)
(* above it faults; mmap of length 0 fails and leaves MAP_FAILED in the    *)
(* pointer.  Every column of a table has the table's size and capacity,    *)
(* so one column, with or without an unclustered sorted index, stands for  *)
(* the table.  A clustered or B+tree index maps no file and is left out,   *)
(* and so are the values: only which bytes are touched matters here.      *)
(***************************************************************************)
EXTENDS Integers

CONSTANTS PageSize,       \* PAGE_SIZE (cs165_api.h 29)
          IntSize,        \* sizeof(int)
          SizeTSize,      \* sizeof(size_t)
          TableCapacity,  \* TABLE_CAPACITY (cs165_api.h 37)
          LoadSizes,      \* row counts a load file may hold
          MaxRows,        \* bound on the table's rows
          MaxRestarts     \* bound on server restarts

VARIABLES server,    \* "serving"; "closed" after shutdown, connection open; "down"
          size,      \* tbl->size (= col->size)
          capacity,  \* tbl->capacity
          indexed,   \* the column has an unclustered sorted index
          dataMap,   \* mapped length of col->data
          valsMap,   \* mapped length of the index's vals
          posMap,    \* mapped length of the index's pos
          dataLen,   \* length of col_data on disk
          valsLen,   \* length of sorted_vals on disk
          posLen,    \* length of sorted_pos on disk
          meta,      \* the catalogue sync_db wrote last, or NoMeta
          restarts,
          fault      \* "none", or the undefined access the server made

vars == <<server, size, capacity, indexed, dataMap, valsMap, posMap,
          dataLen, valsLen, posLen, meta, restarts, fault>>

MapFailed == -1
Unmapped  == -2
NoMeta    == [none |-> TRUE]

\* What mmap(0, len, ...) leaves in the pointer.
MMap(len) == IF len = 0 THEN MapFailed ELSE len

\* An access ending at byte hi of a mapping of length m stays in its pages.
Accessible(m, hi) == m > 0 /\ hi <= ((m + PageSize - 1) \div PageSize) * PageSize

\* Elements 0..n-1 of col->data, and of vals and pos if indexed, are
\* inside their mappings.
WritesFit(n) ==
    /\ Accessible(dataMap, n * IntSize)
    /\ indexed => Accessible(valsMap, n * IntSize) /\ Accessible(posMap, n * SizeTSize)

\* create_table (db_manager.c 57-78): no rows, capacity TABLE_CAPACITY.
TableCreated == size = 0 /\ capacity = TableCapacity

\* create_column (34-55): col_data truncated to TABLE_CAPACITY ints and
\* mapped whole; no index.
ColumnCreated ==
    /\ dataLen = TableCapacity * IntSize /\ dataMap = dataLen
    /\ indexed = FALSE
    /\ valsLen = 0 /\ posLen = 0 /\ valsMap = Unmapped /\ posMap = Unmapped

Init ==
    /\ server = "serving"
    /\ TableCreated
    /\ ColumnCreated
    /\ meta = NoMeta
    /\ restarts = 0
    /\ fault = "none"

Serving == server = "serving" /\ fault = "none"

\* create(idx, col, sorted, unclustered) (parse.c 75-124): both files
\* truncated to col->size entries and mapped at that length, then
\* init_sorted_index copies the column's rows 0..size-1 into them.
CreateIndex ==
    /\ Serving
    /\ ~indexed
    /\ indexed' = TRUE
    /\ valsLen' = size * IntSize /\ posLen' = size * SizeTSize
    /\ valsMap' = MMap(size * IntSize) /\ posMap' = MMap(size * SizeTSize)
    /\ UNCHANGED <<server, size, capacity, dataMap, dataLen, meta, restarts, fault>>

\* resize_table with resize_mmap and resize_sorted_index (utils.c 42-69):
\* every file truncated to the new capacity and mapped whole.
ResizedTo(cap) ==
    /\ capacity' = cap
    /\ dataLen' = cap * IntSize /\ dataMap' = dataLen'
    /\ IF indexed
       THEN /\ valsLen' = cap * IntSize /\ valsMap' = valsLen'
            /\ posLen' = cap * SizeTSize /\ posMap' = posLen'
       ELSE UNCHANGED <<valsLen, valsMap, posLen, posMap>>

NotResized == UNCHANGED <<capacity, dataLen, dataMap, valsLen, valsMap, posLen, posMap>>

\* load_scheduler's loop (insert.c 88): double until capacity > need.
RECURSIVE Grown(_, _)
Grown(cap, need) == IF cap <= need THEN Grown(2 * cap, need) ELSE cap

\* The access check after a resize step: rows 0..n-1 written through the
\* mappings as they are after it.
FitsAfter(n) ==
    /\ Accessible(dataMap', n * IntSize)
    /\ indexed => Accessible(valsMap', n * IntSize) /\ Accessible(posMap', n * SizeTSize)

\* load (receive_and_load, insert.c 101-149) of n rows: load_scheduler
\* resizes until capacity > size + n, column_load appends the rows at
\* size..size+n-1 and rebuild_index rewrites vals and pos 0..size+n-1.
Load ==
    /\ Serving
    /\ \E n \in LoadSizes :
         /\ size + n <= MaxRows
         /\ LET cap == Grown(capacity, size + n)
            IN  IF cap = capacity THEN NotResized ELSE ResizedTo(cap)
         /\ size' = size + n
         /\ fault' = IF FitsAfter(size + n) THEN "none" ELSE "mapping"
    /\ UNCHANGED <<server, indexed, meta, restarts>>

\* relational_insert (insert_scheduler, insert.c 36-47): one resize if
\* full, then column_insert writes col->data[size] (array_insert at a
\* position <= size) and insert_sorted_index vals and pos up to [size].
Insert ==
    /\ Serving
    /\ size < MaxRows
    /\ IF capacity <= size THEN ResizedTo(2 * capacity) ELSE NotResized
    /\ size' = size + 1
    /\ fault' = IF FitsAfter(size + 1) THEN "none" ELSE "mapping"
    /\ UNCHANGED <<server, indexed, meta, restarts>>

\* relational_delete of n rows (delete_scheduler, update.c 17-25): the
\* shifts of column_delete and delete_sorted_index stay below size.
Delete ==
    /\ Serving
    /\ \E n \in 1..size :
         /\ size' = size - n
         /\ fault' = IF WritesFit(size) THEN "none" ELSE "mapping"
    /\ UNCHANGED <<server, capacity, indexed, dataMap, valsMap, posMap,
                   dataLen, valsLen, posLen, meta, restarts>>

\* sync_sorted_idx (db_manager.c 98-115): vals and pos truncated to
\* col->size entries, synced and unmapped.
SyncSortedIdx ==
    IF indexed
    THEN valsLen' = size * IntSize /\ posLen' = size * SizeTSize
    ELSE UNCHANGED <<valsLen, posLen>>

\* sync_column, sync_table and sync_db (128-191): the catalogue written
\* with the table's size and capacity, col_data truncated to col->size
\* ints, synced and unmapped, then the index files.
SyncDb ==
    /\ meta' = [size |-> size, capacity |-> capacity, indexed |-> indexed]
    /\ dataLen' = size * IntSize
    /\ SyncSortedIdx
    /\ dataMap' = Unmapped /\ valsMap' = Unmapped /\ posMap' = Unmapped

\* shutdown (execute.c CLOSE, shutdown_database, db_manager.c 396-399):
\* sync_db, then free_db; current_db keeps pointing at the freed Db.
Shutdown ==
    /\ Serving
    /\ SyncDb
    /\ server' = "closed"
    /\ UNCHANGED <<size, capacity, indexed, restarts, fault>>

\* handle_client (server.c 38-101) goes on reading commands until the
\* client disconnects: a command on the table after shutdown finds
\* current_db non-NULL and uses the freed Db and its unmapped columns.
CommandAfterShutdown ==
    /\ server = "closed" /\ fault = "none"
    /\ fault' = "freed_db"
    /\ UNCHANGED <<server, size, capacity, indexed, dataMap, valsMap, posMap,
                   dataLen, valsLen, posLen, meta, restarts>>

\* main (server.c 142-166): the client disconnects, handle_client returns
\* the shutdown flag and the server exits.
Disconnect ==
    /\ server = "closed" /\ fault = "none"
    /\ server' = "down"
    /\ UNCHANGED <<size, capacity, indexed, dataMap, valsMap, posMap,
                   dataLen, valsLen, posLen, meta, restarts, fault>>

\* load_sorted_idx (195-211): vals and pos mapped at their file lengths.
LoadSortedIdx ==
    IF meta.indexed
    THEN valsMap' = MMap(valsLen) /\ posMap' = MMap(posLen)
    ELSE valsMap' = Unmapped /\ posMap' = Unmapped

\* load_column and load_table (232-289): the column and table records
\* read back from the catalogue, col_data mapped at its file length.
LoadTable ==
    /\ size' = meta.size /\ capacity' = meta.capacity /\ indexed' = meta.indexed
    /\ dataMap' = MMap(dataLen)
    /\ LoadSortedIdx

\* A new server's first command on the database calls load_db (291-310).
Restart ==
    /\ server = "down" /\ fault = "none"
    /\ restarts < MaxRestarts
    /\ restarts' = restarts + 1
    /\ server' = "serving"
    /\ LoadTable
    /\ UNCHANGED <<dataLen, valsLen, posLen, meta, fault>>

Next ==
    \/ CreateIndex
    \/ Load
    \/ Insert
    \/ Delete
    \/ Shutdown
    \/ CommandAfterShutdown
    \/ Disconnect
    \/ Restart

Spec == Init /\ [][Next]_vars

-----------------------------------------------------------------------------

(***************************************************************************)
(* The server never reads or writes outside a mapping (spec 1: columns     *)
(* are persisted; spec 7 (b): an out-of-range access is undefined          *)
(* behaviour): every array a load, insert or delete touches is mapped over *)
(* the rows it touches, and no command runs against the Db shutdown freed. *)
(***************************************************************************)
NoInvalidAccess == fault = "none"

=============================================================================
