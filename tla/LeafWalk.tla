------------------------------- MODULE LeafWalk -------------------------------
(***************************************************************************)
(* locate_btree followed by for_each_record (core/src/lib.rs): the one     *)
(* loop through which every query of the reader and every pass of the      *)
(* analyzer sees a B-tree.  It follows fLink from the first leaf, reads    *)
(* each node's record-offset table backwards from the node end, and hands  *)
(* the bytes from each record's offset to the node end to a callback.      *)
(*                                                                         *)
(* The volume is chosen once and never changes.  What could make the code  *)
(* panic is kept as history: the slices a step takes and the last sum it   *)
(* forms without checked_add.                                              *)
(***************************************************************************)
EXTENDS BTreeFile

CONSTANT Volumes    \* the volumes a run starts from

ASSUME VolumesAssumption == \A v \in Volumes : IsVolume(v)

VARIABLES
    vol,        \* the buffer
    fork,       \* which B-tree file the caller asked for
    pc,         \* where the call is
    loc,        \* the CatalogLoc, once located
    node,       \* loop variable `node`
    walked,     \* loop variable `walked`
    idx,        \* loop variable `i` over the current node's records
    path,       \* history: the nodes entered, in order
    delivered,  \* history: the records handed to the callback, in order
    slices,     \* history: the slices the last step took
    sum         \* history: the last sum formed without a check

input == <<vol, fork>>
vars == <<vol, fork, pc, loc, node, walked, idx, path, delivered, slices, sum>>

NoLoc == [cat_base |-> 0, node_size |-> 0, first_leaf |-> 0, block_size |-> 0]

Tree == vol.btree[fork]

\* The node the loop stands on, and the position of its next record-offset slot.
Here == NodeAt(Tree, node)
Slot == loc.node_size - 2 * (idx + 1)

Init ==
    /\ vol \in Volumes
    /\ fork \in Forks
    /\ pc = "locate"
    /\ loc = NoLoc
    /\ node = 0 /\ walked = 0 /\ idx = 0
    /\ path = <<>> /\ delivered = <<>>
    /\ slices = {} /\ sum = 0

------------------------------------------------------------------------------
\* locate_btree: None, or the tree's geometry and the first leaf to walk from.  The
\* header's end is summed without a check; firstLeafNode and nodeSize are sliced out of
\* the header record once it is known to lie in the buffer, also when the node size is
\* then refused.
Locate ==
    /\ pc = "locate"
    /\ IF Locatable(vol, fork)
       THEN pc' = "walk" /\ loc' = LocOf(vol, fork) /\ node' = Tree.firstLeaf
       ELSE pc' = "none" /\ UNCHANGED <<loc, node>>
    /\ sum' = IF HeaderReadable(vol, fork) THEN HeaderEnd(vol, fork) ELSE sum
    /\ slices' = FieldSlices(vol, fork) \cup
                 IF HeaderReadable(vol, fork) /\ HeaderFits(vol, fork)
                 THEN {Slice(HeaderEnd(vol, fork) - 10, HeaderEnd(vol, fork) - 6, vol.len),
                       Slice(HeaderEnd(vol, fork) - 2, HeaderEnd(vol, fork), vol.len)}
                 ELSE {}
    /\ UNCHANGED <<input, walked, idx, path, delivered>>

\* A mutant of WalkOn: the cap admits one node more.
WalkOneMore == node # 0 /\ walked <= MAX_LEAF_NODES

\* A mutant of WalkOn: no cap on the walk.
WalkForever == node # 0

\* The loop condition of for_each_record.
WalkOn == node # 0 /\ walked < MAX_LEAF_NODES

\* The loop ends: the last node's fLink was 0, or the cap is reached.
StopWalk ==
    /\ pc = "walk"
    /\ ~WalkOn
    /\ pc' = "done"
    /\ slices' = {}
    /\ UNCHANGED <<input, loc, node, walked, idx, path, delivered, sum>>

\* The node's offset does not fit in usize (a checked computation), or the node does
\* not lie inside the buffer (a test whose own sum is unchecked): break.
LeaveBuffer ==
    /\ pc = "walk" /\ WalkOn
    /\ ~NodeReadable(vol.len, loc, node)
    /\ walked' = walked + 1
    /\ pc' = "done"
    /\ slices' = {}
    /\ sum' = IF NodeOff(loc, node) <= UsizeMax THEN NodeEnd(loc, node) ELSE sum
    /\ UNCHANGED <<input, loc, node, idx, path, delivered>>

\* The node is sliced out of the buffer, its fLink and numRecords out of the node.
EnterNode ==
    /\ pc = "walk" /\ WalkOn
    /\ NodeReadable(vol.len, loc, node)
    /\ walked' = walked + 1
    /\ pc' = "records"
    /\ idx' = 0
    /\ path' = Append(path, node)
    /\ slices' = {Slice(NodeOff(loc, node), NodeEnd(loc, node), vol.len),
                  Slice(0, 12, loc.node_size)}
    /\ sum' = NodeEnd(loc, node)
    /\ UNCHANGED <<input, loc, node, delivered>>

\* A mutant of Record: `i` is advanced only for a record that fits, so the loop stays at others.
RecordStays ==
    /\ pc = "records"
    /\ idx < Here.numRecords /\ Slot >= 0
    /\ LET rec == SlotAt(Here, idx) IN
        /\ RecordFits(loc.node_size, rec)
        /\ delivered' = Append(delivered, [node |-> node, off |-> rec])
        /\ slices' = {Slice(Slot, Slot + 2, loc.node_size),
                      Slice(rec, loc.node_size, loc.node_size)}
    /\ idx' = idx + 1
    /\ UNCHANGED <<input, pc, loc, node, walked, path, sum>>

\* One turn of the inner loop: the slot is read, and the callback gets nd[rec..] when
\* the record's key prefix fits in the node.
Record ==
    /\ pc = "records"
    /\ idx < Here.numRecords /\ Slot >= 0
    /\ LET rec == SlotAt(Here, idx)
           fits == RecordFits(loc.node_size, rec)
       IN /\ delivered' = IF fits
                          THEN Append(delivered, [node |-> node, off |-> rec])
                          ELSE delivered
          /\ slices' = {Slice(Slot, Slot + 2, loc.node_size)}
                       \cup IF fits THEN {Slice(rec, loc.node_size, loc.node_size)}
                                    ELSE {}
    /\ idx' = idx + 1
    /\ UNCHANGED <<input, pc, loc, node, walked, path, sum>>

\* A mutant of NextNode: the record count is taken for the last index.
LeaveBeforeLast ==
    /\ pc = "records"
    /\ idx + 1 >= Here.numRecords \/ Slot < 0
    /\ node' = Here.fLink
    /\ pc' = "walk"
    /\ slices' = {}
    /\ UNCHANGED <<input, loc, walked, idx, path, delivered, sum>>

\* The inner loop ends, all records seen or no room for another slot; follow fLink.
NextNode ==
    /\ pc = "records"
    /\ idx >= Here.numRecords \/ Slot < 0
    /\ node' = Here.fLink
    /\ pc' = "walk"
    /\ slices' = {}
    /\ UNCHANGED <<input, loc, walked, idx, path, delivered, sum>>

WalkStep == StopWalk \/ LeaveBuffer \/ EnterNode \/ Record \/ NextNode

Next == Locate \/ WalkStep

\* The steps alone: the specifications that run the walk (LeafStream's, BTreeAudit's) add
\* the fairness of a thread that goes on.
Spec == Init /\ [][Next]_vars

------------------------------------------------------------------------------
\* Types, and the facts about the position of the loop that the other properties need:
\* the cap holds, one node of the path per counted turn, and while a node's records are
\* read that node is the last of the path and lies in the buffer.
TypeOK ==
    /\ IsVolume(vol) /\ fork \in Forks
    /\ pc \in {"locate", "none", "walk", "records", "done"}
    /\ loc = IF pc \in {"locate", "none"} THEN NoLoc ELSE LocOf(vol, fork)
    /\ pc \notin {"locate", "none"} => Locatable(vol, fork)
    /\ node \in U32
    /\ walked \in 0..MAX_LEAF_NODES
    /\ idx \in 0..U16Max
    /\ path \in Seq(U32 \ {0})
    /\ delivered \in Seq([node : U32 \ {0}, off : U16])
    /\ Len(path) = walked \/ (pc = "done" /\ Len(path) + 1 = walked)
    /\ pc \in {"locate", "none"} => walked = 0 /\ delivered = <<>>
    /\ pc = "records" => /\ path # <<>> /\ node = path[Len(path)]
                         /\ NodeReadable(vol.len, loc, node)

\* No step of locate_btree or for_each_record can panic, on any buffer: each slice lies in
\* the buffer or node it is taken from (so the code's own guards cover every access), and
\* no sum formed without checked_add overflows usize.
NoPanic ==
    /\ \A s \in slices : SliceOK(s)
    /\ sum <= UsizeMax

\* What a callback may rely on: the record it gets starts in a node of the tree that lies
\* in the buffer, and at least its 8-byte key prefix is there to be read.
DeliveredReadable ==
    \A k \in DOMAIN delivered :
        /\ delivered[k].off + 8 <= loc.node_size
        /\ NodeEnd(loc, delivered[k].node) <= vol.len

\* How many steps are left at most: every step makes it smaller, so the walk ends on any
\* volume, whatever its fLinks (looping chains included) and its record counts are.
Measure ==
    CASE pc = "locate"  -> (MAX_LEAF_NODES + 1) * (U16Max + 2) + 2
      [] pc = "walk"    -> (MAX_LEAF_NODES - walked + 1) * (U16Max + 2) + 1
      [] pc = "records" -> (MAX_LEAF_NODES - walked + 1) * (U16Max + 2) + 2 + (U16Max - idx)
      [] OTHER          -> 0

\* No step goes round for nothing: the bound on the remaining steps strictly decreases and
\* never goes below zero (the cap on leaf nodes and the record counter do their job).
AlwaysProgress == [][0 <= Measure' /\ Measure' < Measure]_vars

\* A node read twice means that the fLink chain loops, and then nothing but the cap ends
\* the walk: the caller gets the loop's records over and over, MAX_LEAF_NODES nodes of
\* them.  Conversely the cap never cuts a walk short while another way out was there.
RepeatsRunToTheCap ==
    (pc = "done" /\ \E i, j \in DOMAIN path : i < j /\ path[i] = path[j])
        => Len(path) = MAX_LEAF_NODES
==============================================================================
