----------------------------- MODULE LeafRecords -----------------------------
(***************************************************************************)
(* The records of a B-tree file as a function of the volume: the reference *)
(* definition that LeafWalk's loop is checked against, and that the        *)
(* modules about catalog and attribute records start from.                 *)
(***************************************************************************)
EXTENDS BTreeFile, SequencesExt

\* The fLink chain from the first leaf, as far as one likes to follow it: node k of it.
LeafChain(bt) ==
    LET chain[k \in Nat] ==
            IF k = 0 THEN bt.firstLeaf ELSE NodeAt(bt, chain[k - 1]).fLink
    IN chain

\* A walk of the chain is over at node k: it is 0, it does not lie in the buffer, or the
\* cap excludes it.
ChainEnds(v, f, k) ==
    \/ k = MAX_LEAF_NODES
    \/ LeafChain(v.btree[f])[k] = 0
    \/ ~NodeReadable(v.len, LocOf(v, f), LeafChain(v.btree[f])[k])

PathLength(v, f) ==
    CHOOSE k \in 0..MAX_LEAF_NODES :
        ChainEnds(v, f, k) /\ \A j \in 0..(k - 1) : ~ChainEnds(v, f, j)

\* The slots of a node that are looked at: one per record, as far as there is room.
SlotCount(bt, n) ==
    LET count == NodeAt(bt, n).numRecords
        room == bt.nodeSize \div 2
    IN IF count <= room THEN count ELSE room

\* The records behind the first slots of a node: those whose key prefix fits.
SlotRecords(bt, n) ==
    LET rec(i) == [node |-> n, off |-> SlotAt(NodeAt(bt, n), i - 1)]
        records[i \in Nat] ==
            IF i = 0 THEN <<>>
            ELSE IF RecordFits(bt.nodeSize, rec(i).off) THEN Append(records[i - 1], rec(i))
            ELSE records[i - 1]
    IN records

NodeRecords(bt, n) == SlotRecords(bt, n)[SlotCount(bt, n)]

\* The records of the first k nodes of the chain.
FirstRecords(bt, k) ==
    FlattenSeq([i \in 1..k |-> NodeRecords(bt, LeafChain(bt)[i - 1])])

\* There is a tree to read: the volume names one, its nodes hold a descriptor at least, and
\* the fields that say so lie in the buffer.
HasTree(v, f) ==
    /\ v.sig \in {"H+", "HX"} /\ v.blockSize # 0 /\ v.btree[f].totalBlocks # 0
    /\ v.btree[f].nodeSize >= 14
    /\ \A end \in {VOLUME_HEADER_OFFSET + ForkOffset[f] + 20, HeaderEnd(v, f)} : end <= v.len

\* Every record of the tree, in the order of the leaf chain.
RecordsOf(v, f) ==
    IF HasTree(v, f) THEN FirstRecords(v.btree[f], PathLength(v, f)) ELSE <<>>
==============================================================================
