----------------------------- MODULE HashTable -----------------------------
(***************************************************************************)
(* The linear hash table of src/src/hash_table.c, as pure operators.       *)
(*                                                                         *)
(* A table is a record                                                     *)
(*   [buckets, next_split, round, capacity, alloc]                         *)
(* where buckets is the bucket array as a function from its C indices      *)
(* 0..alloc-1, alloc being the number of slots actually allocated (which   *)
(* the code does not record: capacity is what it believes it has).  A     *)
(* bucket is a chain of HashNodes, a sequence of nodes, each a sequence   *)
(* of at most Slot <<key, val>> entries.  Slots of the array that no       *)
(* create_bucket has written are never read (hash stays below              *)
(* 2^round + next_split) and hold << >>.                                   *)
(*                                                                         *)
(* An operator that writes a bucket slot at or beyond alloc returns        *)
(* fault = TRUE: the write is a heap overflow, after which the process's   *)
(* behaviour is undefined and the models stop.                             *)
(***************************************************************************)
EXTENDS Integers, Sequences
LOCAL INSTANCE SequencesExt

\* SLOT (hash_table.h 6): entries per HashNode.
CONSTANT Slot
ASSUME Slot \in Nat \ {0}

\* create_bucket (40-44): a chain of one empty node.
EmptyBucket == << << >> >>

\* pow_2 (8-12).
Pow2(e) == 2 ^ e

\* Fault variant of Hash: ignores buckets already split in this round.
HashIgnoringSplit(h, key) == key % Pow2(h.round)

\* hash (34-38): key mod 2^round, or mod 2^(round+1) for a bucket already
\* split in this round.
Hash(h, key) ==
    LET b == key % Pow2(h.round)
    IN  IF b < h.next_split THEN key % Pow2(h.round + 1) ELSE b

\* create_hashtable (51-59): capacity (size / SLOT) * 2, an array of that
\* many slots, and buckets[0] = create_bucket(), written even when the
\* array has no slot.
CreateHashtable(size) ==
    LET cap == (size \div Slot) * 2
    IN  [ht    |-> [buckets    |-> [i \in 0..cap - 1 |->
                                      IF i = 0 THEN EmptyBucket ELSE << >>],
                    next_split |-> 0,
                    round      |-> 0,
                    capacity   |-> cap,
                    alloc      |-> cap],
         fault |-> cap = 0]

\* resize_hashtable (61-65): realloc to the OLD capacity, then record the
\* new one.
ResizeHashtable(h, newCapacity) ==
    [h EXCEPT !.alloc = h.capacity, !.capacity = newCapacity]

\* Fault variant of BucketPut: treats a node with SLOT entries as not full.
BucketPutOverfull(chain, key, val) ==
    LET last == chain[Len(chain)]
    IN  IF Len(last) <= Slot
        THEN [chain EXCEPT ![Len(chain)] = Append(last, <<key, val>>)]
        ELSE Append(chain, << <<key, val>> >>)

\* bucket_put (67-78): append to the last node of the chain, or chain a new
\* node holding the entry when that node is full.
BucketPut(chain, key, val) ==
    LET last == chain[Len(chain)]
    IN  IF Len(last) < Slot
        THEN [chain EXCEPT ![Len(chain)] = Append(last, <<key, val>>)]
        ELSE Append(chain, << <<key, val>> >>)

\* The whole chain as one sequence of entries, in node order.
Entries(chain) == FlattenSeq(chain)

\* hashtable_split (80-106).  next_split is advanced before the entries of
\* the split bucket are rehashed, so hash already sends them to the split
\* bucket or to the new tail bucket.
HashtableSplit(h) ==
    LET splitting == h.next_split
        tail      == Pow2(h.round) + splitting
        h1        == [h EXCEPT !.next_split = splitting + 1]
        h2        == IF tail >= h.capacity
                     THEN ResizeHashtable(h1, h.capacity * 2) ELSE h1
        cleared   == [b \in DOMAIN h.buckets |->
                        IF b \in {splitting, tail} THEN EmptyBucket
                        ELSE h.buckets[b]]
        rehash(bk, e) == [bk EXCEPT ![Hash(h2, e[1])] =
                                       BucketPut(@, e[1], e[2])]
        moved     == FoldLeft(rehash, cleared, Entries(h.buckets[splitting]))
        h3        == [h2 EXCEPT !.buckets = moved]
        done      == h3.next_split = Pow2(h3.round)
    IN  IF splitting >= h2.alloc \/ tail >= h2.alloc
        THEN [ht |-> h2, fault |-> TRUE]
        ELSE [ht |-> IF done
                     THEN [h3 EXCEPT !.round = @ + 1, !.next_split = 0]
                     ELSE h3,
              fault |-> FALSE]

\* hashtable_put (108-122): split first when the last node of the target
\* bucket is full, then put into the bucket the key hashes to afterwards.
HashtablePut(h, key, val) ==
    LET putting == Hash(h, key)
        chain   == h.buckets[putting]
    IN  IF Len(chain[Len(chain)]) < Slot
        THEN [ht    |-> [h EXCEPT !.buckets[putting] = BucketPut(@, key, val)],
              fault |-> FALSE]
        ELSE LET s == HashtableSplit(h)
             IN  IF s.fault THEN s
                 ELSE [ht    |-> [s.ht EXCEPT !.buckets[Hash(s.ht, key)] =
                                                  BucketPut(@, key, val)],
                       fault |-> FALSE]

\* Fault variant of HashtableGet: stops after the first node of the chain.
HashtableGetFirstNode(h, key) ==
    LET hits == SelectSeq(h.buckets[Hash(h, key)][1], LAMBDA e : e[1] = key)
    IN  [j \in 1..Len(hits) |-> hits[j][2]]

\* hashtable_get (124-140): the vals of the target bucket's entries whose
\* key matches, in chain order.
HashtableGet(h, key) ==
    LET hits == SelectSeq(Entries(h.buckets[Hash(h, key)]),
                          LAMBDA e : e[1] = key)
    IN  [j \in 1..Len(hits) |-> hits[j][2]]

\* hashtable_get reallocates its output (line 134) once a match finds
\* num_tuples + 1 >= DEFAULT_CAPACITY, to num_tuples + 1 ints.  The buffer
\* really grows, and realloc may move it, only when more than
\* DEFAULT_CAPACITY entries match; the moved pointer is never stored back
\* into res->payload.
GetMayMovePayload(h, key, defaultCapacity) ==
    Len(HashtableGet(h, key)) > defaultCapacity

=============================================================================
