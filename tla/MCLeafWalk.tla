------------------------------ MODULE MCLeafWalk ------------------------------
(***************************************************************************)
(* Instances of LeafWalk for TLC.                                          *)
(***************************************************************************)
EXTENDS LeafStream

------------------------------------------------------------------------------
\* Chains: a located tree of 32-byte nodes 0..3; every way to link nodes 1..3 among
\* themselves, to 0 and to node 4, which lies outside the buffer; three record layouts
\* (records that fit and one that does not; a count larger than the node has slots).
Base == 2048
Layouts == {<<2, <<14, 24>>>>, <<3, <<25, 14, 60>>>>, <<20, <<16>>>>}

LeafNode(link, layout) ==
    [ZeroNode EXCEPT !.fLink = link, !.kind = -1, !.height = 1,
                     !.numRecords = layout[1], !.slots = layout[2]]

ChainTree(total, first, links, layouts) ==
    [startBlock |-> 4, totalBlocks |-> total, firstLeaf |-> first, nodeSize |-> 32,
     nodes |-> [n \in 1..3 |-> LeafNode(links[n], layouts[n])]]

\* The catalog is the tree with chains; the others are absent, or empty.
ChainVolume(len, first, links, layouts) ==
    [len |-> len, sig |-> "H+", blockSize |-> 512,
     btree |-> [catalog    |-> ChainTree(1, first, links, layouts),
                extents    |-> ChainTree(0, first, links, layouts),
                attributes |-> ChainTree(1, 0, links, layouts)]]

ChainVolumes ==
    { ChainVolume(Base + 4 * 32, 1, links, layouts) :
        links \in [1..3 -> 0..4],
        layouts \in {[n \in 1..3 |-> l] : l \in Layouts}
                    \cup {[n \in 1..3 |-> IF n = 2 THEN <<0, <<>>>> ELSE <<1, <<14>>>>]} }
    \cup
    { ChainVolume(len, first, links, [n \in 1..3 |-> <<1, <<14>>>>]) :
        len \in {Base + 4 * 32 - 1, Base + 3 * 32}, first \in {0, 2, 4},
        links \in [1..3 -> {0, 1, 3}] }

\* Geometries: header fields and buffer lengths at and around each guard of locate_btree
\* and of the node arithmetic, on words scaled to u16 = 6 bits and u32 = 12 bits.
EdgeNode == [ZeroNode EXCEPT !.numRecords = 7, !.slots = <<0, 6, 7, 55, 56, 63>>]

EdgeVolumes ==
    { [len |-> len, sig |-> sig, blockSize |-> bs,
       btree |-> [f \in Forks |->
            [startBlock |-> start, totalBlocks |-> total, firstLeaf |-> first,
             nodeSize |-> ns, nodes |-> [n \in {1} |-> EdgeNode]]]] :
        len \in {1235, 1236, 1316, 1395, 1396, 1457, 1458, 1546, 2000},
        sig \in {"HX", "other"}, bs \in {0, 1, 89, 4095}, total \in {0, 1},
        start \in {0, 16, 4070, 4095}, first \in {1, 4095}, ns \in {0, 13, 14, 63} }

AllVolumes == ChainVolumes \cup EdgeVolumes
==============================================================================
