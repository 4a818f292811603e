-------------------------------- MODULE BTree --------------------------------
(***************************************************************************)
(* The B+tree of src/src/btree.c and its range scan (select_from_btree,    *)
(* src/src/select.c), as operators on a tree value.                        *)
(*                                                                         *)
(* A tree is [nodes |-> Seq(Node), root |-> id]: the arena of every node   *)
(* ever allocated (calloc'd nodes are appended, none is freed while the    *)
(* index lives), addressed by position; NULL is 0.  A Node is the C struct *)
(* BTreeNode: vals and idxs are arrays 0..Fanout-1, children 0..Fanout.    *)
(* Slots at or beyond a node's length are kept cleared: with Fanout >= 3   *)
(* no code path reads them before writing them (an internal node never     *)
(* drops below length 1 except on the path that crashes, see DeleteFrom). *)
(***************************************************************************)
EXTENDS Integers, Sequences, ArrayUtils
LOCAL INSTANCE SequencesExt

CONSTANT Fanout       \* FANOUT (btree.h): keys per node

ASSUME Fanout \in Nat /\ Fanout >= 3

NULL == 0
IntMax == 2147483647  \* INT_MAX, the separator build_btree gives a one-leaf root

KeySlots == 0..(Fanout - 1)
ChildSlots == 0..Fanout

\* create_btree_node: a calloc'd node.
NewNode(isLeaf) ==
    [is_leaf  |-> isLeaf,
     vals     |-> [i \in KeySlots |-> 0],
     idxs     |-> [i \in KeySlots |-> 0],
     length   |-> 0,
     children |-> [i \in ChildSlots |-> NULL],
     next     |-> NULL]

\* A node with the slots beyond its length cleared.
Clean(n) ==
    [n EXCEPT !.vals = [i \in KeySlots |-> IF i < n.length THEN @[i] ELSE 0],
              !.idxs = [i \in KeySlots |-> IF i < n.length /\ n.is_leaf THEN @[i] ELSE 0],
              !.children = [i \in ChildSlots |->
                              IF i <= n.length /\ ~n.is_leaf THEN @[i] ELSE NULL]]

NodeFull(n) == n.length >= Fanout
NodeEmpty(n) == n.length <= 0

(***************************************************************************)
(* btree_node_move: copy length keys (and idxs for a leaf, length+1        *)
(* children for an internal node) from src[sPos..] to dst[dPos..], with    *)
(* memmove semantics (the source is read before the destination changes). *)
(* A zero length moves nothing, children included.                        *)
(***************************************************************************)
NodeMove(dst, dPos, src, sPos, len) ==
    LET inKeys(i) == dPos <= i /\ i < dPos + len
        inKids(i) == dPos <= i /\ i <= dPos + len
    IN  IF len = 0 THEN dst
        ELSE [dst EXCEPT
               !.vals = [i \in KeySlots |-> IF inKeys(i) THEN src.vals[sPos + i - dPos] ELSE @[i]],
               !.idxs = IF src.is_leaf
                        THEN [i \in KeySlots |-> IF inKeys(i) THEN src.idxs[sPos + i - dPos] ELSE @[i]]
                        ELSE @,
               !.children = IF src.is_leaf THEN @
                            ELSE [i \in ChildSlots |-> IF inKids(i) THEN src.children[sPos + i - dPos] ELSE @[i]]]

\* btree_node_shift RIGHT / LEFT at slot i.
ShiftRight(n, i) == [NodeMove(n, i + 1, n, i, n.length - i) EXCEPT !.length = @ + 1]
ShiftLeft(n, i) == [NodeMove(n, i - 1, n, i, n.length - i) EXCEPT !.length = @ - 1]

(***************************************************************************)
(* btree_split_child(p, i): the upper half of child i moves to a new       *)
(* sibling linked after it; a leaf copies the sibling's first key up, an   *)
(* internal child gives up its last remaining key as the separator.        *)
(***************************************************************************)
SplitChild(ns, p, i) ==
    LET cid == ns[p].children[i]
        c   == ns[cid]
        sid == Len(ns) + 1
        sl  == c.length \div 2
        cl  == c.length - sl
        sib == [NodeMove([NewNode(c.is_leaf) EXCEPT !.length = sl], 0, c, cl, sl)
                   EXCEPT !.next = c.next]
        par == [ShiftRight(ns[p], i) EXCEPT !.children[i + 1] = sid]
        sep == IF c.is_leaf THEN sib.vals[0] ELSE c.vals[cl - 1]
        c2  == [c EXCEPT !.length = IF c.is_leaf THEN cl ELSE cl - 1, !.next = sid]
    IN  Append([ns EXCEPT ![p] = Clean([par EXCEPT !.vals[i] = sep]), ![cid] = Clean(c2)],
               Clean(sib))

\* btree_split_root: a new root over the old one, split, and then its
\* separator overwritten with the new right child's first key.
SplitRoot(ns, old) ==
    LET rid == Len(ns) + 1
        ns2 == SplitChild(Append(ns, [NewNode(FALSE) EXCEPT !.children[0] = old]), rid, 0)
    IN  [ns2 EXCEPT ![rid].vals[0] = ns2[ns2[rid].children[1]].vals[0]]

\* btree_search: descend to the leaf that would hold val (NULL past a NULL child).
RECURSIVE Search(_, _, _)
Search(ns, id, val) ==
    IF id = NULL \/ ns[id].is_leaf THEN id
    ELSE LET n == ns[id]
             b == BinarySearch(n.vals, n.length, val)
         IN  Search(ns, n.children[IF val >= n.vals[b] THEN b + 1 ELSE b], val)

\* The leaves reached from id along next (fuel bounds a cyclic chain).
RECURSIVE LeafChain(_, _, _)
LeafChain(ns, id, fuel) ==
    IF id = NULL \/ fuel = 0 THEN << >>
    ELSE <<id>> \o LeafChain(ns, ns[id].next, fuel - 1)

\* The <<leaf, slot>> pairs of the live entries along the chain from id.
RECURSIVE ChainSlots(_, _, _)
ChainSlots(ns, id, fuel) ==
    IF id = NULL \/ fuel = 0 THEN << >>
    ELSE [i \in 1..ns[id].length |-> <<id, i - 1>>] \o ChainSlots(ns, ns[id].next, fuel - 1)

\* Fault variant of UpdateValIdx: the clustered bump includes the slot at
\* start, the entry just inserted.
UpdateValIdxFromStart(ns, leaf, val, pos, clustered) ==
    LET slots == ChainSlots(ns, leaf, Len(ns))
        L     == ns[leaf].length
        start == Min({i \in 0..L : i = L \/ ns[leaf].idxs[i] >= pos})
        bumped == {slots[k] : k \in {k \in DOMAIN slots :
                       slots[k][1] # leaf \/ slots[k][2] >= start}}
    IN  [id \in DOMAIN ns |->
            [ns[id] EXCEPT !.idxs = [i \in KeySlots |->
                                IF <<id, i>> \in bumped THEN @[i] + 1 ELSE @[i]]]]

(***************************************************************************)
(* btree_update_val_idx (renumbering after an insert at row pos), run from *)
(* the leaf that received the entry to the end of the chain.               *)
(* clustered: past the first slot of that leaf whose idx >= pos, every     *)
(* entry of the leaf and of every later leaf is incremented.               *)
(* unclustered: every entry with idx >= pos is incremented, except the     *)
(* first one, in chain order, whose key equals val.                        *)
(***************************************************************************)
UpdateValIdx(ns, leaf, val, pos, clustered) ==
    LET slots == ChainSlots(ns, leaf, Len(ns))
        L     == ns[leaf].length
        start == Min({i \in 0..L : i = L \/ ns[leaf].idxs[i] >= pos})
        hits  == {k \in DOMAIN slots : /\ ns[slots[k][1]].idxs[slots[k][2]] >= pos
                                       /\ ns[slots[k][1]].vals[slots[k][2]] = val}
        skip  == IF hits = {} THEN <<NULL, 0>> ELSE slots[Min(hits)]
        Bump(id, i) ==
            IF clustered THEN id # leaf \/ i > start
            ELSE ns[id].idxs[i] >= pos /\ <<id, i>> # skip
        bumped == {slots[k] : k \in {k \in DOMAIN slots : Bump(slots[k][1], slots[k][2])}}
        touched == {b[1] : b \in bumped}
    IN  [id \in DOMAIN ns |->
            IF id \in touched
            THEN [ns[id] EXCEPT !.idxs = [i \in KeySlots |->
                                   IF <<id, i>> \in bumped THEN @[i] + 1 ELSE @[i]]]
            ELSE ns[id]]

\* Fault variant of InsertSlot: no step past an equal or smaller key.
InsertSlotNoStep(n, val) == BinarySearch(n.vals, n.length, val)

\* The slot btree_insert_not_full descends to / inserts at: after equal keys
\* found by binary_search.
InsertSlot(n, val) ==
    LET b == BinarySearch(n.vals, n.length, val)
    IN  IF n.length > 0 /\ val >= n.vals[b] THEN b + 1 ELSE b

\* btree_insert_not_full: split a full child before entering it.
RECURSIVE InsertNotFull(_, _, _, _, _)
InsertNotFull(ns, id, val, valPos, clustered) ==
    LET n   == ns[id]
        pos == InsertSlot(n, val)
    IN  IF n.is_leaf
        THEN UpdateValIdx([ns EXCEPT ![id] = [ShiftRight(n, pos) EXCEPT !.vals[pos] = val,
                                                                  !.idxs[pos] = valPos]],
                          id, val, valPos, clustered)
        ELSE IF NodeFull(ns[n.children[pos]])
        THEN LET ns1 == SplitChild(ns, id, pos)
             IN  InsertNotFull(ns1, ns1[id].children[IF val >= ns1[id].vals[pos] THEN pos + 1 ELSE pos],
                               val, valPos, clustered)
        ELSE InsertNotFull(ns, n.children[pos], val, valPos, clustered)

\* btree_insert: split a full root first, then insert below it.
BTreeInsert(t, val, valPos, clustered) ==
    IF NodeFull(t.nodes[t.root])
    THEN LET ns1 == SplitRoot(t.nodes, t.root)
             r   == Len(t.nodes) + 1
         IN  [nodes |-> InsertNotFull(ns1, ns1[r].children[IF val >= ns1[r].vals[0] THEN 1 ELSE 0],
                                      val, valPos, clustered),
              root  |-> r]
    ELSE [nodes |-> InsertNotFull(t.nodes, t.root, val, valPos, clustered), root |-> t.root]

\* Fault variant of DeleteInChain: only the leaf reached is renumbered.
DeleteInLeafOnly(ns, leaf, pos) ==
    LET kept == SelectSeq([i \in 1..ns[leaf].length |-> <<ns[leaf].vals[i - 1], ns[leaf].idxs[i - 1]>>],
                          LAMBDA e : e[2] # pos)
    IN  [ns EXCEPT ![leaf] = [@ EXCEPT
            !.length = Len(kept),
            !.vals = [i \in KeySlots |-> IF i < Len(kept) THEN kept[i + 1][1] ELSE 0],
            !.idxs = [i \in KeySlots |-> IF i < Len(kept)
                                         THEN IF kept[i + 1][2] > pos THEN kept[i + 1][2] - 1 ELSE kept[i + 1][2]
                                         ELSE 0]]]

\* Fault variant of DeleteInChain: larger positions are decremented before
\* the equality test, so the wrong entry goes and row 0 wraps below zero.
DeleteInChainDecrementFirst(ns, leaf, pos) ==
    LET chain == LeafChain(ns, leaf, Len(ns))
        Dec(e) == <<e[1], IF e[2] >= pos THEN e[2] - 1 ELSE e[2]>>
        Kept(n) == SelectSeq([i \in 1..n.length |-> Dec(<<n.vals[i - 1], n.idxs[i - 1]>>)],
                             LAMBDA e : e[2] # pos)
        Renum(n) == [n EXCEPT !.length = Len(Kept(n)),
                       !.vals = [i \in KeySlots |-> IF i < Len(Kept(n)) THEN Kept(n)[i + 1][1] ELSE 0],
                       !.idxs = [i \in KeySlots |-> IF i < Len(Kept(n)) THEN Kept(n)[i + 1][2] ELSE 0]]
    IN  [id \in DOMAIN ns |-> IF \E k \in DOMAIN chain : chain[k] = id THEN Renum(ns[id]) ELSE ns[id]]

(***************************************************************************)
(* btree_delete, leaf part: along the chain from the leaf, every entry     *)
(* whose idx is pos is removed and every larger idx decremented.           *)
(***************************************************************************)
DeleteInChain(ns, leaf, pos) ==
    LET chain == LeafChain(ns, leaf, Len(ns))
        Kept(n) == SelectSeq([i \in 1..n.length |-> <<n.vals[i - 1], n.idxs[i - 1]>>],
                             LAMBDA e : e[2] # pos)
        Renum(n) == LET kept == Kept(n) IN
            [n EXCEPT !.length = Len(kept),
                      !.vals = [i \in KeySlots |-> IF i < Len(kept) THEN kept[i + 1][1] ELSE 0],
                      !.idxs = [i \in KeySlots |->
                                  IF i < Len(kept)
                                  THEN IF kept[i + 1][2] > pos THEN kept[i + 1][2] - 1 ELSE kept[i + 1][2]
                                  ELSE 0]]
    IN  [id \in DOMAIN ns |-> IF \E k \in DOMAIN chain : chain[k] = id THEN Renum(ns[id]) ELSE ns[id]]

(***************************************************************************)
(* btree_delete, internal part: while the first child is empty, shift it   *)
(* out.  With length 1 the shift moves nothing (btree_node_move of 0) and  *)
(* leaves length 0 with the empty child still first; the next shift       *)
(* computes length 0 - 1 in size_t and memmove faults: the process dies.   *)
(***************************************************************************)
RECURSIVE CollapseEmptyFirst(_, _)
CollapseEmptyFirst(ns, id) ==
    IF ~NodeEmpty(ns[ns[id].children[0]]) THEN [nodes |-> ns, crashed |-> FALSE]
    ELSE IF ns[id].length <= 1 THEN [nodes |-> ns, crashed |-> TRUE]
    ELSE CollapseEmptyFirst([ns EXCEPT ![id] = Clean(ShiftLeft(ns[id], 1))], id)

RECURSIVE DeleteFrom(_, _, _)
DeleteFrom(ns, id, pos) ==
    IF ns[id].is_leaf THEN [nodes |-> DeleteInChain(ns, id, pos), crashed |-> FALSE]
    ELSE LET c == CollapseEmptyFirst(ns, id)
         IN  IF c.crashed THEN c ELSE DeleteFrom(c.nodes, c.nodes[id].children[0], pos)

BTreeDelete(t, pos) ==
    LET r == DeleteFrom(t.nodes, t.root, pos)
    IN  [tree |-> [nodes |-> r.nodes, root |-> t.root], crashed |-> r.crashed]

(***************************************************************************)
(* btree_append_leaf: hang a leaf at the right edge, splitting a full      *)
(* rightmost internal node on the way (and a full root first).             *)
(***************************************************************************)
RECURSIVE AppendLeafAt(_, _, _)
AppendLeafAt(ns, id, leaf) ==
    LET n    == ns[id]
        last == n.children[n.length]
    IN  IF ~ns[last].is_leaf
        THEN IF NodeFull(ns[last])
             THEN LET ns1 == SplitChild(ns, id, n.length)
                  IN  AppendLeafAt(ns1, ns1[id].children[ns1[id].length], leaf)
             ELSE AppendLeafAt(ns, last, leaf)
        ELSE [ns EXCEPT ![id] = [n EXCEPT !.vals[n.length] = ns[leaf].vals[0],
                                          !.children[n.length + 1] = leaf,
                                          !.length = n.length + 1]]

AppendLeaf(t, leaf) ==
    IF NodeFull(t.nodes[t.root])
    THEN [nodes |-> AppendLeafAt(SplitRoot(t.nodes, t.root), Len(t.nodes) + 1, leaf),
          root  |-> Len(t.nodes) + 1]
    ELSE [nodes |-> AppendLeafAt(t.nodes, t.root, leaf), root |-> t.root]

(***************************************************************************)
(* build_btree(vals, idxs, length), length >= 1: the root (node 1), then   *)
(* leaves 2..numLeaf+1 of Fanout entries each (the last one shorter),      *)
(* chained; the root gets the first two leaves (or the first leaf, a NULL  *)
(* child and separator INT_MAX) and the remaining leaves are appended.     *)
(***************************************************************************)
BuildBTree(vals, idxs, length) ==
    LET numLeaf  == (length + Fanout - 1) \div Fanout
        LeafLen(k) == IF k < numLeaf - 1 \/ length % Fanout = 0 THEN Fanout ELSE length % Fanout
        Leaf(k) == [NewNode(TRUE) EXCEPT
                      !.length = LeafLen(k),
                      !.vals = [i \in KeySlots |-> IF i < LeafLen(k) THEN vals[Fanout * k + i] ELSE 0],
                      !.idxs = [i \in KeySlots |-> IF i < LeafLen(k) THEN idxs[Fanout * k + i] ELSE 0],
                      !.next = IF k < numLeaf - 1 THEN k + 3 ELSE NULL]
        root == [NewNode(FALSE) EXCEPT
                   !.length = 1,
                   !.children = [i \in ChildSlots |-> CASE i = 0 -> 2
                                                       [] i = 1 /\ numLeaf > 1 -> 3
                                                       [] OTHER -> NULL],
                   !.vals[0] = IF numLeaf > 1 THEN Leaf(1).vals[0] ELSE IntMax]
        t0 == [nodes |-> <<root>> \o [k \in 1..numLeaf |-> Leaf(k - 1)], root |-> 1]
        appended[k \in 2..numLeaf] ==
            IF k = 2 THEN t0 ELSE AppendLeaf(appended[k - 1], k)
    IN  IF numLeaf <= 2 THEN t0 ELSE appended[numLeaf]

(***************************************************************************)
(* select_from_btree(lo, hi): from the leaf btree_search finds for lo,     *)
(* walk the chain until (and including) the leaf found for hi.  In each    *)
(* leaf, keys below lo are skipped and the first key >= hi ends the leaf.  *)
(***************************************************************************)
\* Fault variant of LeafMatches: a key equal to hi does not end the leaf.
LeafMatchesInclusive(n, lo, hi) ==
    LET stop == Min({i \in 0..n.length : i = n.length \/ (n.vals[i] >= lo /\ n.vals[i] > hi)})
        sel  == SelectSeq([i \in 1..stop |-> <<n.vals[i - 1], n.idxs[i - 1]>>],
                          LAMBDA e : e[1] >= lo)
    IN  [k \in DOMAIN sel |-> sel[k][2]]

LeafMatches(n, lo, hi) ==
    LET stop == Min({i \in 0..n.length : i = n.length \/ (n.vals[i] >= lo /\ n.vals[i] >= hi)})
        sel  == SelectSeq([i \in 1..stop |-> <<n.vals[i - 1], n.idxs[i - 1]>>],
                          LAMBDA e : e[1] >= lo)
    IN  [k \in DOMAIN sel |-> sel[k][2]]

RECURSIVE ScanLeaves(_, _, _, _, _, _)
ScanLeaves(ns, cur, high, lo, hi, fuel) ==
    IF cur = NULL \/ fuel = 0 THEN << >>
    ELSE LeafMatches(ns[cur], lo, hi)
           \o (IF cur = high THEN << >> ELSE ScanLeaves(ns, ns[cur].next, high, lo, hi, fuel - 1))

\* The row positions select_from_btree returns for lo <= val < hi, in order.
RangeSelect(t, lo, hi) ==
    ScanLeaves(t.nodes, Search(t.nodes, t.root, lo), Search(t.nodes, t.root, hi), lo, hi, Len(t.nodes))

\* The leftmost leaf, where btree_delete's descent ends and the chain starts.
RECURSIVE LeftmostLeaf(_, _)
LeftmostLeaf(ns, id) == IF ns[id].is_leaf THEN id ELSE LeftmostLeaf(ns, ns[id].children[0])

\* The <<val, idx>> entries of the leaf chain, in chain order.
ChainEntries(t) ==
    LET slots == ChainSlots(t.nodes, LeftmostLeaf(t.nodes, t.root), Len(t.nodes))
    IN  [k \in DOMAIN slots |->
            <<t.nodes[slots[k][1]].vals[slots[k][2]], t.nodes[slots[k][1]].idxs[slots[k][2]]>>]

=============================================================================
