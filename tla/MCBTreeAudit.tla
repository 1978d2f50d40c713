----------------------------- MODULE MCBTreeAudit -----------------------------
(***************************************************************************)
(* Instances of BTreeAudit for TLC: the volumes of MCLeafWalk, and every   *)
(* chain over nodes 1..3 with links to 0 and to node 4, outside the        *)
(* buffer, with one odd descriptor, in each of the three trees;            *)
(* MAX_LEAF_NODES = 3, so that loops of one and two nodes are replayed and *)
(* a loop of three ends just at the cap.                                   *)
(***************************************************************************)
EXTENDS BTreeAudit, MCLeafWalk

Leaf(link) == [ZeroNode EXCEPT !.fLink = link, !.kind = -1, !.height = 1,
                               !.numRecords = 1, !.slots = <<14>>]

HeaderNode == [ZeroNode EXCEPT !.kind = 1]

AuditVolume(len, first, header, nodes) ==
    [len |-> len, sig |-> "H+", blockSize |-> 512,
     btree |-> [f \in Forks |->
        [startBlock |-> 4, totalBlocks |-> 1,
         firstLeaf |-> first, nodeSize |-> 32,
         nodes |-> [n \in 0..3 |-> IF n = 0 THEN header ELSE nodes[n]]]]]

\* What may be odd about node 2 (or node 0).
Oddities(nd) ==
    {nd, [nd EXCEPT !.kind = 5], [nd EXCEPT !.height = 0], [nd EXCEPT !.height = 7],
     [nd EXCEPT !.kind = 1], [nd EXCEPT !.bLink = 2], [nd EXCEPT !.kind = 0]}

AuditVolumes ==
    { AuditVolume(Base + 128, 1, header, [n \in 1..3 |-> IF n = 2 THEN odd ELSE Leaf(links[n])]) :
        header \in {HeaderNode, Leaf(0), [HeaderNode EXCEPT !.kind = 9]},
        links \in [{1, 3} -> 0..4],
        odd \in UNION {Oddities(Leaf(link)) : link \in 0..4} }
    \cup
    { AuditVolume(len, first, HeaderNode, [n \in 1..3 |-> Leaf(links[n])]) :
        len \in {Base + 127, Base + 128, Base + 40}, first \in 0..4,
        links \in [1..3 -> {0, 1, 2, 3}] }

TreeVolumes == AllVolumes \cup AuditVolumes
==============================================================================
