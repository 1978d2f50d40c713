---------------------------- MODULE LeafWalk_proofs ----------------------------
(***************************************************************************)
(* Proofs about LeafWalk: for every set of volumes, every cap and every    *)
(* word width that WidthsAssumption admits.                                *)
(***************************************************************************)
EXTENDS LeafStream, RecursiveFunctions

\* Node arithmetic stays in the naturals, and a node's end is past its start.
LEMMA NodeArithmetic ==
    ASSUME NEW n \in Nat, NEW l, l.node_size \in Nat, l.cat_base \in Nat
    PROVE  /\ NodeOff(l, n) \in Nat
           /\ NodeEnd(l, n) \in Nat
           /\ NodeEnd(l, n) = NodeOff(l, n) + l.node_size
<1>1. n * l.node_size \in Nat
  OBVIOUS
<1> QED BY <1>1 DEF NodeOff, NodeEnd

\* What a located tree's geometry is.
LEMMA LocProperties ==
    ASSUME NEW v, NEW f \in Forks, IsVolume(v), Locatable(v, f)
    PROVE  /\ LocOf(v, f).cat_base \in Nat
           /\ LocOf(v, f).node_size \in U16
           /\ LocOf(v, f).node_size >= 14
           /\ LocOf(v, f).first_leaf \in U32
           /\ LocOf(v, f).first_leaf = v.btree[f].firstLeaf
           /\ LocOf(v, f).cat_base = CatBase(v, f)
           /\ LocOf(v, f).cat_base <= v.len
<1>1. /\ v.btree[f].startBlock \in Nat /\ v.blockSize \in Nat
      /\ v.btree[f].nodeSize \in U16 /\ v.btree[f].firstLeaf \in U32
      /\ v.len \in Nat
  BY WidthsAssumption DEF IsVolume, IsBTree, U32, U16
<1>2. CatBase(v, f) \in Nat
  BY <1>1 DEF CatBase
<1>3. v.btree[f].nodeSize >= 14 /\ v.len >= CatBase(v, f) + 14 + 20
  BY DEF Locatable, NodeSizeOK, HeaderFits, HeaderEnd, DescriptorLen
<1> QED BY <1>1, <1>2, <1>3 DEF LocOf

\* Every node reads as one, stored or not.
LEMMA NodeAtType ==
    ASSUME NEW v, NEW f \in Forks, IsVolume(v), NEW n
    PROVE  /\ NodeAt(v.btree[f], n).fLink \in U32
           /\ NodeAt(v.btree[f], n).numRecords \in U16
           /\ NodeAt(v.btree[f], n).height \in 0..255
           /\ \A i \in Nat : SlotAt(NodeAt(v.btree[f], n), i) \in U16
<1>1. 0 \in U16 /\ 0 \in U32
  BY WidthsAssumption DEF U16, U32
<1>2. CASE n \in DOMAIN v.btree[f].nodes
  <2>1. IsNode(v.btree[f].nodes[n]) /\ NodeAt(v.btree[f], n) = v.btree[f].nodes[n]
    BY <1>2 DEF IsVolume, IsBTree, NodeAt
  <2> QED BY <2>1, <1>1 DEF IsNode, SlotAt
<1>3. CASE n \notin DOMAIN v.btree[f].nodes
  <2>1. NodeAt(v.btree[f], n) = ZeroNode
    BY <1>3 DEF NodeAt
  <2>2. /\ ZeroNode.fLink = 0 /\ ZeroNode.numRecords = 0 /\ ZeroNode.height = 0
        /\ DOMAIN ZeroNode.slots = {}
    BY DEF ZeroNode
  <2> QED BY <2>1, <2>2, <1>1 DEF SlotAt
<1> QED BY <1>2, <1>3

------------------------------------------------------------------------------
\* The constants that every step of the proofs below needs.
LEMMA Numbers ==
    /\ U16Max \in Nat /\ U32Max \in Nat /\ UsizeMax \in Nat /\ IsizeMax \in Nat
    /\ 14 <= U16Max /\ MAX_LEAF_NODES \in Nat /\ MAX_LEAF_NODES >= 1
    /\ 0 \in U16 /\ 0 \in U32
BY WidthsAssumption DEF U16, U32

\* locate_btree finds a tree exactly where the reference definition sees one: within a
\* slice's length the sums it checks cannot overflow.
LEMMA LocatableIsTree ==
    ASSUME NEW v, NEW f \in Forks, IsVolume(v)
    PROVE  Locatable(v, f) <=> HasTree(v, f)
<1> USE Numbers
<1>1. /\ v.btree[f].startBlock \in Nat /\ v.blockSize \in Nat
      /\ v.btree[f].nodeSize \in Nat /\ v.len \in Nat /\ v.len <= IsizeMax
      /\ IsizeMax < UsizeMax
  BY WidthsAssumption DEF IsVolume, IsBTree, U32, U16
<1>2. CatBase(v, f) \in Nat
  BY <1>1 DEF CatBase
<1>3. /\ FieldsFit(v, f) <=> VOLUME_HEADER_OFFSET + ForkOffset[f] + 20 <= v.len
      /\ HeaderFits(v, f) <=> HeaderEnd(v, f) <= v.len
      /\ NodeSizeOK(v.btree[f].nodeSize) <=> v.btree[f].nodeSize >= 14
  <2>1. ForkOffset[f] \in Nat
    BY DEF Forks, ForkOffset
  <2> QED BY <1>1, <1>2, <2>1 DEF FieldsFit, ForkData, HeaderFits, HeaderEnd, NodeSizeOK,
                                 DescriptorLen, VOLUME_HEADER_OFFSET
<1>4. HeaderEnd(v, f) <= v.len => CatBase(v, f) + DescriptorLen <= UsizeMax
  BY <1>1, <1>2 DEF HeaderEnd, DescriptorLen
<1> QED BY <1>3, <1>4 DEF Locatable, HeaderReadable, SignatureOK, HasTree

\* Each slice of the volume header is taken behind the test that covers it.
LEMMA FieldSlicesOK ==
    ASSUME NEW v, NEW f \in Forks, v.len \in Nat
    PROVE  \A s \in FieldSlices(v, f) : SliceOK(s)
<1>1. SUFFICES ASSUME FieldsFit(v, f)
               PROVE  \A s \in FieldSlices(v, f) : SliceOK(s)
  BY DEF FieldSlices
<1>2. ForkData(f) \in Nat /\ ForkData(f) >= 1024 + 192 /\ v.len >= ForkData(f) + 20
  BY <1>1 DEF FieldsFit, ForkData, Forks, ForkOffset, VOLUME_HEADER_OFFSET
<1>3. /\ SliceOK(Slice(VOLUME_HEADER_OFFSET, VOLUME_HEADER_OFFSET + 2, v.len))
      /\ SliceOK(Slice(VOLUME_HEADER_OFFSET + 40, VOLUME_HEADER_OFFSET + 44, v.len))
      /\ SliceOK(Slice(ForkData(f) + 12, ForkData(f) + 16, v.len))
      /\ SliceOK(Slice(ForkData(f) + 16, ForkData(f) + 20, v.len))
  BY <1>2 DEF SliceOK, Slice, VOLUME_HEADER_OFFSET
<1> QED BY <1>3 DEF FieldSlices

\* Initial states are well-typed.
LEMMA InitTypeOK == Init => TypeOK
<1> SUFFICES ASSUME Init PROVE TypeOK
  OBVIOUS
<1>1. IsVolume(vol)
  BY VolumesAssumption DEF Init
<1> QED BY <1>1, Numbers DEF Init, TypeOK, U32

\* Every step keeps the types.
LEMMA StepTypeOK == TypeOK /\ [Next]_vars => TypeOK'
<1> SUFFICES ASSUME TypeOK, [Next]_vars PROVE TypeOK'
  OBVIOUS
<1> USE Numbers
<1>1. CASE Locate
  <2>1. /\ vol' = vol /\ fork' = fork /\ walked' = walked /\ idx' = idx
        /\ path' = path /\ delivered' = delivered /\ pc = "locate"
    BY <1>1 DEF Locate, input
  <2>2. CASE Locatable(vol, fork)
    <3>1. pc' = "walk" /\ loc' = LocOf(vol, fork) /\ node' = Tree.firstLeaf
      BY <1>1, <2>2 DEF Locate
    <3>2. node' \in U32
      BY <3>1 DEF TypeOK, IsVolume, IsBTree, Tree
    <3> QED BY <2>1, <2>2, <3>1, <3>2 DEF TypeOK
  <2>3. CASE ~Locatable(vol, fork)
    <3>1. pc' = "none" /\ loc' = loc /\ node' = node
      BY <1>1, <2>3 DEF Locate
    <3> QED BY <2>1, <3>1 DEF TypeOK
  <2> QED BY <2>2, <2>3
<1>2. CASE StopWalk
  BY <1>2 DEF StopWalk, TypeOK, input
<1>3. CASE LeaveBuffer
  <2>1. walked' \in 0..MAX_LEAF_NODES
    BY <1>3 DEF LeaveBuffer, TypeOK, WalkOn
  <2> QED BY <1>3, <2>1 DEF LeaveBuffer, TypeOK, input
<1>4. CASE EnterNode
  <2>1. /\ vol' = vol /\ fork' = fork /\ loc' = loc /\ node' = node
        /\ delivered' = delivered /\ pc = "walk" /\ pc' = "records"
        /\ idx' = 0 /\ walked' = walked + 1 /\ path' = Append(path, node)
        /\ NodeReadable(vol.len, loc, node)
    BY <1>4 DEF EnterNode, input
  <2>2. walked' \in 0..MAX_LEAF_NODES /\ node \in U32 \ {0}
    BY <1>4, <2>1 DEF EnterNode, TypeOK, WalkOn
  <2>3. /\ path' \in Seq(U32 \ {0}) /\ Len(path') = walked'
        /\ path' # <<>> /\ path'[Len(path')] = node
    BY <2>1, <2>2 DEF TypeOK
  <2> QED BY <2>1, <2>2, <2>3 DEF TypeOK
<1>5. CASE Record
  <2>1. /\ vol' = vol /\ fork' = fork /\ loc' = loc /\ node' = node /\ pc' = pc
        /\ walked' = walked /\ path' = path /\ idx' = idx + 1 /\ pc = "records"
        /\ idx < Here.numRecords
        /\ \/ delivered' = delivered
           \/ delivered' = Append(delivered, [node |-> node, off |-> SlotAt(Here, idx)])
    BY <1>5 DEF Record, input
  <2>2. Here.numRecords \in U16 /\ SlotAt(Here, idx) \in U16
    <3>1. IsVolume(vol) /\ fork \in Forks /\ idx \in Nat
      BY DEF TypeOK
    <3> QED BY <3>1, NodeAtType DEF Here, Tree
  <2>3. idx' \in 0..U16Max
    BY <2>1, <2>2 DEF TypeOK, U16
  <2>4. node \in U32 \ {0}
    BY <2>1 DEF TypeOK
  <2>5. delivered' \in Seq([node : U32 \ {0}, off : U16])
    <3> DEFINE R == [node : U32 \ {0}, off : U16]
               r == [node |-> node, off |-> SlotAt(Here, idx)]
    <3>1. r \in R
      BY <2>2, <2>4
    <3>2. delivered \in Seq(R)
      BY DEF TypeOK
    <3>3. delivered' = delivered \/ delivered' = Append(delivered, r)
      BY <2>1
    <3> HIDE DEF R, r
    <3>4. delivered' \in Seq(R)
      BY <3>1, <3>2, <3>3
    <3> QED BY <3>4 DEF R
  <2> QED BY <2>1, <2>3, <2>5 DEF TypeOK
<1>6. CASE NextNode
  <2>1. Here.fLink \in U32
    BY NodeAtType DEF TypeOK, Here, Tree
  <2> QED BY <1>6, <2>1 DEF NextNode, TypeOK, input
<1>7. CASE UNCHANGED vars
  BY <1>7 DEF vars, TypeOK
<1> QED BY <1>1, <1>2, <1>3, <1>4, <1>5, <1>6, <1>7 DEF Next, WalkStep

\* The walk's variables keep their types and the position invariants of TypeOK, on every
\* volume and for every cap.
THEOREM TypeCorrect == Spec => []TypeOK
<1> QED BY InitTypeOK, StepTypeOK, PTL DEF Spec

------------------------------------------------------------------------------
\* The panics that a wide usize excludes.

LEMMA ProductBound ==
    ASSUME NEW a \in Nat, NEW b \in Nat, NEW c \in Nat, NEW d \in Nat, a <= c, b <= d
    PROVE  a * b <= c * d
<1>1. a * b <= a * d
  <2>1. a * (d - b) >= 0 /\ a * (d - b) = a * d - a * b
    OBVIOUS
  <2> QED BY <2>1
<1>2. a * d <= c * d
  <2>1. (c - a) * d >= 0 /\ (c - a) * d = c * d - a * d
    OBVIOUS
  <2> QED BY <2>1
<1>3. a * b \in Int /\ a * d \in Int /\ c * d \in Int
  OBVIOUS
<1> QED BY <1>1, <1>2, <1>3

\* In a wide usize neither of the two unchecked sums overflows.
LEMMA WideSums ==
    ASSUME WideUsize, NEW v, NEW f \in Forks, IsVolume(v)
    PROVE  /\ HeaderEnd(v, f) <= UsizeMax
           /\ Locatable(v, f) =>
                \A n \in U32 : NodeEnd(LocOf(v, f), n) <= UsizeMax
<1> USE Numbers
<1>1. v.btree[f].startBlock \in 0..U32Max /\ v.blockSize \in 0..U32Max /\ v.len \in 0..IsizeMax
  BY DEF IsVolume, IsBTree, U32
<1>2. v.btree[f].startBlock * v.blockSize <= U32Max * U32Max
  BY <1>1, ProductBound
<1>3. U32Max * U32Max \in Nat /\ v.btree[f].startBlock * v.blockSize \in Nat
  BY <1>1
<1>4. HeaderEnd(v, f) <= UsizeMax
  BY <1>2, <1>3 DEF HeaderEnd, CatBase, WideUsize, DescriptorLen
<1>5. ASSUME Locatable(v, f), NEW n \in U32
      PROVE  NodeEnd(LocOf(v, f), n) <= UsizeMax
  <2> DEFINE l == LocOf(v, f)
  <2>1. /\ l.cat_base \in Nat /\ l.node_size \in 0..U16Max /\ l.cat_base <= v.len
        /\ n \in 0..U32Max
    BY <1>5, LocProperties DEF U16, U32
  <2> HIDE DEF l
  <2>2. n * l.node_size <= U32Max * U16Max
    BY <2>1, ProductBound
  <2>3. n * l.node_size \in Nat /\ U32Max * U16Max \in Nat
    BY <2>1
  <2>4. NodeEnd(l, n) <= U32Max * U16Max + IsizeMax + U16Max
    BY <1>1, <2>1, <2>2, <2>3 DEF NodeEnd, NodeOff
  <2>5. NodeEnd(l, n) \in Nat
    BY <2>1, NodeArithmetic
  <2>6. NodeEnd(l, n) <= UsizeMax
    BY <2>3, <2>4, <2>5 DEF WideUsize
  <2> QED BY <2>6 DEF l
<1> QED BY <1>4, <1>5

LEMMA StepNoPanic ==
    ASSUME WideUsize, TypeOK, NoPanic, [Next]_vars
    PROVE  NoPanic'
<1> USE Numbers
<1>0. IsVolume(vol) /\ fork \in Forks /\ node \in U32 /\ idx \in Nat /\ vol.len \in Nat
  BY DEF TypeOK, IsVolume
<1>loc. ASSUME pc \in {"walk", "records"}
        PROVE  /\ loc = LocOf(vol, fork) /\ Locatable(vol, fork)
               /\ loc.node_size \in Nat /\ loc.node_size >= 14 /\ loc.cat_base \in Nat
               /\ node \in Nat
               /\ NodeEnd(loc, node) <= UsizeMax
  <2>1. loc = LocOf(vol, fork) /\ Locatable(vol, fork)
    BY <1>loc DEF TypeOK
  <2> QED BY <1>0, <2>1, LocProperties, WideSums DEF U16, U32
<1>1. CASE Locate
  <2>1. sum' <= UsizeMax
    BY <1>0, <1>1, WideSums DEF Locate, NoPanic
  <2>2. HeaderEnd(vol, fork) \in Nat /\ HeaderEnd(vol, fork) >= 34
    <3>1. vol.btree[fork].startBlock \in Nat /\ vol.blockSize \in Nat
      BY <1>0 DEF IsVolume, IsBTree, U32
    <3>2. vol.btree[fork].startBlock * vol.blockSize \in Nat
      BY <3>1
    <3> QED BY <3>2 DEF HeaderEnd, CatBase, DescriptorLen
  <2>3. \A s \in slices' : SliceOK(s)
    <3>1. \A s \in FieldSlices(vol, fork) : SliceOK(s)
      BY <1>0, FieldSlicesOK
    <3>2. HeaderFits(vol, fork) =>
            /\ SliceOK(Slice(HeaderEnd(vol, fork) - 10, HeaderEnd(vol, fork) - 6, vol.len))
            /\ SliceOK(Slice(HeaderEnd(vol, fork) - 2, HeaderEnd(vol, fork), vol.len))
      BY <1>0, <2>2 DEF Slice, SliceOK, HeaderFits
    <3> QED BY <1>1, <3>1, <3>2 DEF Locate
  <2> QED BY <2>1, <2>3 DEF NoPanic
<1>2. CASE StopWalk
  BY <1>2 DEF StopWalk, NoPanic
<1>3. CASE LeaveBuffer
  BY <1>3, <1>loc DEF LeaveBuffer, NoPanic
<1>4. CASE EnterNode
  <2>1. /\ slices' = {Slice(NodeOff(loc, node), NodeEnd(loc, node), vol.len),
                      Slice(0, 12, loc.node_size)}
        /\ sum' = NodeEnd(loc, node)
        /\ NodeReadable(vol.len, loc, node) /\ pc = "walk"
    BY <1>4 DEF EnterNode
  <2>2. SliceOK(Slice(NodeOff(loc, node), NodeEnd(loc, node), vol.len))
    BY <2>1, <1>0, <1>loc, NodeArithmetic DEF Slice, SliceOK, NodeReadable
  <2>3. SliceOK(Slice(0, 12, loc.node_size))
    BY <2>1, <1>loc DEF Slice, SliceOK
  <2> QED BY <2>1, <2>2, <2>3, <1>loc DEF NoPanic
<1>5. CASE Record
  <2>1. Slot \in Nat /\ Slot + 2 <= loc.node_size /\ sum' = sum /\ pc = "records"
    BY <1>0, <1>5, <1>loc DEF Record, Slot
  <2>2. SliceOK(Slice(Slot, Slot + 2, loc.node_size))
    BY <2>1, <1>loc DEF Slice, SliceOK
  <2> DEFINE rec == SlotAt(Here, idx)
  <2>3. rec \in Nat
    <3>1. rec \in U16
      BY <1>0, NodeAtType DEF Here, Tree
    <3> QED BY <3>1 DEF U16
  <2>4. CASE RecordFits(loc.node_size, rec)
    <3>1. slices' = {Slice(Slot, Slot + 2, loc.node_size)}
                    \cup {Slice(rec, loc.node_size, loc.node_size)}
      BY <1>5, <2>4 DEF Record
    <3>2. SliceOK(Slice(rec, loc.node_size, loc.node_size))
      BY <2>1, <2>3, <2>4, <1>loc DEF Slice, SliceOK, RecordFits
    <3> QED BY <2>1, <2>2, <3>1, <3>2 DEF NoPanic
  <2>5. CASE ~RecordFits(loc.node_size, rec)
    <3>1. slices' = {Slice(Slot, Slot + 2, loc.node_size)}
      BY <1>5, <2>5 DEF Record
    <3> QED BY <2>1, <2>2, <3>1 DEF NoPanic
  <2> QED BY <2>4, <2>5
<1>6. CASE NextNode
  BY <1>6 DEF NextNode, NoPanic
<1>7. CASE UNCHANGED vars
  BY <1>7 DEF vars, NoPanic
<1> QED BY <1>1, <1>2, <1>3, <1>4, <1>5, <1>6, <1>7 DEF Next, WalkStep

\* On a build whose usize holds every product of two u32 (64-bit), neither locate_btree
\* nor for_each_record can panic, whatever bytes the volume holds.
THEOREM WalkCannotPanic == ASSUME WideUsize PROVE Spec => []NoPanic
<1>1. Init => NoPanic
  BY Numbers DEF Init, NoPanic
<1>2. TypeOK /\ NoPanic /\ [Next]_vars => NoPanic'
  BY StepNoPanic
<1> QED BY <1>1, <1>2, TypeCorrect, PTL DEF Spec

------------------------------------------------------------------------------
\* Every record handed to a callback starts in a node of the buffer and has its key prefix.
THEOREM RecordsReadable == Spec => []DeliveredReadable
<1> DEFINE Good(k) == /\ delivered[k].off + 8 <= loc.node_size
                      /\ NodeEnd(loc, delivered[k].node) <= vol.len
<1>1. Init => DeliveredReadable
  BY DEF Init, DeliveredReadable
<1>2. TypeOK /\ DeliveredReadable /\ [Next]_vars => DeliveredReadable'
  <2> SUFFICES ASSUME TypeOK, DeliveredReadable, [Next]_vars
               PROVE  DeliveredReadable'
    OBVIOUS
  <2>1. CASE Record
    <3> DEFINE rec == SlotAt(Here, idx)
               r == [node |-> node, off |-> rec]
    <3>1. /\ vol' = vol /\ loc' = loc /\ pc = "records"
          /\ \/ delivered' = delivered
             \/ RecordFits(loc.node_size, rec) /\ delivered' = Append(delivered, r)
      BY <2>1 DEF Record, input
    <3>2. NodeEnd(loc, node) <= vol.len
      BY <3>1 DEF TypeOK, NodeReadable
    <3>3. CASE delivered' = delivered
      BY <3>1, <3>3 DEF DeliveredReadable
    <3>4. CASE RecordFits(loc.node_size, rec) /\ delivered' = Append(delivered, r)
      <4>1. delivered \in Seq([node : U32 \ {0}, off : U16])
        BY DEF TypeOK
      <4>2. ASSUME NEW k \in DOMAIN delivered'
            PROVE  \/ k \in DOMAIN delivered /\ delivered'[k] = delivered[k]
                   \/ delivered'[k] = r
        BY <3>4, <4>1
      <4>3. r.off + 8 <= loc.node_size /\ r.node = node
        BY <3>4 DEF RecordFits
      <4> QED BY <3>1, <3>2, <4>2, <4>3 DEF DeliveredReadable
    <3> QED BY <3>1, <3>3, <3>4
  <2>2. CASE Locate
    <3>1. delivered = <<>>
      BY <2>2 DEF Locate, TypeOK
    <3> QED BY <2>2, <3>1 DEF Locate, DeliveredReadable
  <2>3. CASE StopWalk \/ LeaveBuffer \/ EnterNode \/ NextNode \/ UNCHANGED vars
    BY <2>3 DEF StopWalk, LeaveBuffer, EnterNode, NextNode, vars, input, DeliveredReadable
  <2> QED BY <2>1, <2>2, <2>3 DEF Next, WalkStep
<1> QED BY <1>1, <1>2, TypeCorrect, PTL DEF Spec

------------------------------------------------------------------------------
\* What one more leaf node costs the bound on the remaining steps.
LEMMA NodeCost ==
    ASSUME NEW w \in 0..MAX_LEAF_NODES
    PROVE  /\ (MAX_LEAF_NODES - w + 1) * (U16Max + 2) \in Nat
           /\ (MAX_LEAF_NODES - w + 1) * (U16Max + 2)
                = (MAX_LEAF_NODES - (w + 1) + 1) * (U16Max + 2) + (U16Max + 2)
<1> USE Numbers
<1> DEFINE n == MAX_LEAF_NODES - w
           c == U16Max + 2
<1>1. n \in Nat /\ c \in Nat /\ MAX_LEAF_NODES - (w + 1) + 1 = n
  OBVIOUS
<1> HIDE DEF n, c
<1>2. (n + 1) * c = n * c + c /\ (n + 1) * c \in Nat
  BY <1>1
<1> QED BY <1>1, <1>2 DEF n, c

\* The walk makes progress at every step, so no chain of fLinks, however corrupt, and no
\* record count keeps it going: it takes at most Measure steps.
THEOREM WalkProgresses == Spec => AlwaysProgress
<1> USE Numbers
<1>1. ASSUME TypeOK, TypeOK', Next
      PROVE  0 <= Measure' /\ Measure' < Measure
  <2> DEFINE M(w) == (MAX_LEAF_NODES - w + 1) * (U16Max + 2)
  <2>0. walked \in 0..MAX_LEAF_NODES /\ idx \in 0..U16Max /\ idx' \in 0..U16Max
    BY <1>1 DEF TypeOK
  <2>1. M(walked) \in Nat /\ M(walked) = M(walked + 1) + (U16Max + 2)
    BY <2>0, NodeCost
  <2>m. /\ pc = "walk" => Measure = M(walked) + 1
        /\ pc = "records" => Measure = M(walked) + 2 + (U16Max - idx)
        /\ pc = "locate" => Measure = (MAX_LEAF_NODES + 1) * (U16Max + 2) + 2
    BY DEF Measure
  <2>n. /\ pc' = "walk" => Measure' = M(walked') + 1
        /\ pc' = "records" => Measure' = M(walked') + 2 + (U16Max - idx')
        /\ pc' \in {"done", "none"} => Measure' = 0
    BY DEF Measure
  <2> HIDE DEF M
  <2>2. CASE Locate
    <3>1. M(walked) = (MAX_LEAF_NODES + 1) * (U16Max + 2) /\ pc = "locate" /\ walked' = walked
      BY <1>1, <2>2 DEF Locate, TypeOK, M
    <3>2. pc' \in {"walk", "none"}
      BY <2>2 DEF Locate
    <3> QED BY <2>1, <2>m, <2>n, <3>1, <3>2
  <2>3. CASE StopWalk \/ LeaveBuffer
    BY <2>1, <2>3, <2>m, <2>n DEF StopWalk, LeaveBuffer
  <2>4. CASE EnterNode
    <3>1. pc = "walk" /\ pc' = "records" /\ walked' = walked + 1 /\ idx' = 0
      BY <2>4 DEF EnterNode
    <3>2. M(walked + 1) \in Nat
      <4>1. walked + 1 \in 0..MAX_LEAF_NODES
        BY <1>1, <3>1 DEF TypeOK
      <4> QED BY <4>1, NodeCost DEF M
    <3> QED BY <2>1, <2>m, <2>n, <3>1, <3>2
  <2>5. CASE Record
    BY <2>0, <2>1, <2>5, <2>m, <2>n DEF Record
  <2>6. CASE NextNode
    BY <2>0, <2>1, <2>6, <2>m, <2>n DEF NextNode
  <2> QED BY <1>1, <2>2, <2>3, <2>4, <2>5, <2>6 DEF Next, WalkStep
<1>2. TypeOK /\ TypeOK' /\ [Next]_vars => [0 <= Measure' /\ Measure' < Measure]_vars
  BY <1>1
<1> QED BY <1>2, TypeCorrect, PTL DEF Spec, AlwaysProgress

------------------------------------------------------------------------------
\* Why a repeated node runs to the cap.  The path follows fLink; once a node repeats, the
\* last node of the path is one met before, so its successor is in the path already, and
\* is therefore neither 0 nor outside the buffer.

FollowsLinks ==
    /\ pc = "walk" =>
         node = IF path = <<>> THEN Tree.firstLeaf ELSE NodeAt(Tree, path[Len(path)]).fLink
    /\ \A i \in 1..Len(path)-1 : path[i + 1] = NodeAt(Tree, path[i]).fLink
    /\ \A i \in 1..Len(path) : NodeReadable(vol.len, loc, path[i])

LastSeenBefore ==
    (\E i, j \in DOMAIN path : i < j /\ path[i] = path[j])
        => \E k \in 1..Len(path)-1 : path[k] = path[Len(path)]

\* At the end: the loop stopped for one of its three reasons.
EndReason ==
    pc = "done" =>
        \/ Len(path) = MAX_LEAF_NODES
        \/ \A i, j \in DOMAIN path : path[i] = path[j] => i = j

PathInv == FollowsLinks /\ LastSeenBefore /\ EndReason

\* While the path repeats, the node to be entered next is in the path already.
LEMMA RepeatedGoesOn ==
    ASSUME TypeOK, FollowsLinks, LastSeenBefore, pc = "walk",
           NEW i \in DOMAIN path, NEW j \in DOMAIN path, i # j, path[i] = path[j]
    PROVE  \E m \in 1..Len(path) : node = path[m]
<1>0. path \in Seq(U32 \ {0}) /\ DOMAIN path = 1..Len(path) /\ Len(path) \in Nat
  BY DEF TypeOK
<1>1. \E a, b \in DOMAIN path : a < b /\ path[a] = path[b]
  BY <1>0
<1>2. PICK k \in 1..Len(path)-1 : path[k] = path[Len(path)]
  BY <1>1 DEF LastSeenBefore
<1>3. node = NodeAt(Tree, path[Len(path)]).fLink
  BY <1>0, <1>2 DEF FollowsLinks
<1>4. path[k + 1] = node /\ k + 1 \in 1..Len(path)
  BY <1>0, <1>2, <1>3 DEF FollowsLinks
<1> QED BY <1>4

LEMMA StepPathInv == TypeOK /\ PathInv /\ [Next]_vars => PathInv'
<1> SUFFICES ASSUME TypeOK, PathInv, [Next]_vars PROVE PathInv'
  OBVIOUS
<1> USE Numbers
<1>0. path \in Seq(U32 \ {0}) /\ DOMAIN path = 1..Len(path) /\ Len(path) \in Nat
  BY DEF TypeOK
<1>1. CASE Locate
  <2>1. path = <<>> /\ path' = path /\ vol' = vol /\ fork' = fork
        /\ pc' \in {"walk", "none"} /\ (pc' = "walk" => node' = Tree.firstLeaf)
    BY <1>1 DEF Locate, TypeOK, input
  <2> QED BY <2>1 DEF PathInv, FollowsLinks, LastSeenBefore, EndReason, Tree
<1>2. CASE StopWalk \/ LeaveBuffer
  <2>1. /\ pc = "walk" /\ pc' = "done" /\ path' = path /\ vol' = vol /\ fork' = fork
        /\ loc' = loc /\ node' = node
        /\ \/ node = 0
           \/ walked = MAX_LEAF_NODES
           \/ ~NodeReadable(vol.len, loc, node)
    BY <1>2 DEF StopWalk, LeaveBuffer, WalkOn, TypeOK, input
  <2>2. FollowsLinks' /\ LastSeenBefore'
    BY <2>1 DEF PathInv, FollowsLinks, LastSeenBefore, Tree
  <2>3. EndReason'
    <3>1. CASE walked = MAX_LEAF_NODES
      <4>1. Len(path) = walked
        BY <2>1 DEF TypeOK
      <4> QED BY <2>1, <3>1, <4>1 DEF EndReason
    <3>2. CASE node = 0 \/ ~NodeReadable(vol.len, loc, node)
      <4>1. ASSUME NEW i \in DOMAIN path, NEW j \in DOMAIN path, path[i] = path[j], i # j
            PROVE  FALSE
        <5>1. PICK m \in 1..Len(path) : node = path[m]
          BY <2>1, <4>1, RepeatedGoesOn DEF PathInv
        <5>2. node # 0 /\ NodeReadable(vol.len, loc, node)
          BY <1>0, <5>1 DEF PathInv, FollowsLinks
        <5> QED BY <3>2, <5>2
      <4> QED BY <2>1, <4>1 DEF EndReason
    <3> QED BY <2>1, <3>1, <3>2
  <2> QED BY <2>2, <2>3 DEF PathInv
<1>3. CASE EnterNode
  <2>1. /\ pc = "walk" /\ pc' = "records" /\ path' = Append(path, node) /\ vol' = vol
        /\ fork' = fork /\ loc' = loc /\ node' = node /\ NodeReadable(vol.len, loc, node)
        /\ node \in U32 \ {0}
    BY <1>3 DEF EnterNode, WalkOn, TypeOK, input
  <2>2. /\ Len(path') = Len(path) + 1 /\ DOMAIN path' = 1..Len(path)+1
        /\ path'[Len(path) + 1] = node
        /\ \A i \in 1..Len(path) : path'[i] = path[i]
    BY <1>0, <2>1
  <2>3. FollowsLinks'
    <3>1. \A i \in 1..Len(path')-1 : path'[i + 1] = NodeAt(Tree, path'[i]).fLink
      <4> TAKE i \in 1..Len(path')-1
      <4>1. CASE i < Len(path)
        BY <1>0, <2>2, <4>1 DEF PathInv, FollowsLinks
      <4>2. CASE i = Len(path)
        <5>1. path # <<>> /\ node = NodeAt(Tree, path[Len(path)]).fLink
          BY <1>0, <2>1, <4>2 DEF PathInv, FollowsLinks
        <5> QED BY <1>0, <2>2, <4>2, <5>1
      <4> QED BY <1>0, <2>2, <4>1, <4>2
    <3>2. \A i \in 1..Len(path') : NodeReadable(vol.len, loc, path'[i])
      BY <1>0, <2>1, <2>2 DEF PathInv, FollowsLinks
    <3> QED BY <2>1, <3>1, <3>2 DEF FollowsLinks, Tree
  <2>4. LastSeenBefore'
    <3> SUFFICES ASSUME NEW i \in DOMAIN path', NEW j \in DOMAIN path',
                        i < j, path'[i] = path'[j]
                 PROVE  \E k \in 1..Len(path')-1 : path'[k] = path'[Len(path')]
      BY DEF LastSeenBefore
    <3>1. CASE j = Len(path) + 1
      BY <1>0, <2>2, <3>1
    <3>2. CASE j \in 1..Len(path)
      <4>1. PICK m \in 1..Len(path) : node = path[m]
        BY <1>0, <2>1, <2>2, <3>2, RepeatedGoesOn DEF PathInv
      <4> QED BY <1>0, <2>2, <4>1
    <3> QED BY <1>0, <2>2, <3>1, <3>2
  <2> QED BY <2>1, <2>3, <2>4 DEF PathInv, EndReason
<1>4. CASE Record
  <2>1. /\ pc' = pc /\ path' = path /\ vol' = vol /\ fork' = fork /\ loc' = loc
        /\ pc = "records"
    BY <1>4 DEF Record, input
  <2> QED BY <2>1 DEF PathInv, FollowsLinks, LastSeenBefore, EndReason, Tree
<1>5. CASE NextNode
  <2>1. /\ pc' = "walk" /\ path' = path /\ vol' = vol /\ fork' = fork /\ loc' = loc
        /\ pc = "records" /\ node' = NodeAt(Tree, node).fLink
        /\ path # <<>> /\ node = path[Len(path)]
    BY <1>5 DEF NextNode, TypeOK, input, Here
  <2> QED BY <2>1 DEF PathInv, FollowsLinks, LastSeenBefore, EndReason, Tree
<1>6. CASE UNCHANGED vars
  BY <1>6 DEF vars, PathInv, FollowsLinks, LastSeenBefore, EndReason, Tree
<1> QED BY <1>1, <1>2, <1>3, <1>4, <1>5, <1>6 DEF Next, WalkStep

\* A walk that meets a node twice is ended by the cap and by nothing else.
THEOREM RepeatsEndAtTheCap == Spec => []RepeatsRunToTheCap
<1>1. Init => PathInv
  BY DEF Init, PathInv, FollowsLinks, LastSeenBefore, EndReason
<1>2. TypeOK /\ PathInv => RepeatsRunToTheCap
  <2> SUFFICES ASSUME TypeOK, PathInv PROVE RepeatsRunToTheCap
    OBVIOUS
  <2>1. DOMAIN path \subseteq Int
    BY DEF TypeOK
  <2> QED BY <2>1 DEF PathInv, EndReason, RepeatsRunToTheCap
<1> QED BY <1>1, <1>2, StepPathInv, TypeCorrect, PTL DEF Spec

------------------------------------------------------------------------------
\* The reference definition of a tree's records, unfolded: what its recursive functions
\* are at each number.

\* The chain of the reference definition starts at the first leaf and follows fLink.
LEMMA ChainLinks ==
    ASSUME NEW v, NEW f \in Forks, IsVolume(v)
    PROVE  /\ LeafChain(v.btree[f]) \in [Nat -> U32]
           /\ LeafChain(v.btree[f])[0] = v.btree[f].firstLeaf
           /\ \A k \in Nat : LeafChain(v.btree[f])[k + 1]
                                = NodeAt(v.btree[f], LeafChain(v.btree[f])[k]).fLink
<1> DEFINE bt == v.btree[f]
           F(g) == [k \in Nat |-> IF k = 0 THEN bt.firstLeaf ELSE NodeAt(bt, g[k - 1]).fLink]
           step == [p \in U32 \X Nat |-> NodeAt(bt, p[1]).fLink]
<1>1. bt.firstLeaf \in U32 /\ \A n : NodeAt(bt, n).fLink \in U32
  BY NodeAtType DEF IsVolume, IsBTree
<1> HIDE DEF bt
<1>2. step \in [U32 \X Nat -> U32]
  BY <1>1
<1>3. PICK g \in [Nat -> U32] : Iterates(g, bt.firstLeaf, step)
  <2> HIDE DEF step
  <2> QED BY <1>1, <1>2, RecursionDefines
<1>4. g = F(g)
  <2>1. ASSUME NEW k \in Nat, k # 0 PROVE g[k] = NodeAt(bt, g[k - 1]).fLink
    <3>1. k - 1 \in Nat /\ (k - 1) + 1 = k
      BY <2>1
    <3>2. g[k] = step[<<g[k - 1], k>>]
      BY <1>3, <3>1 DEF Iterates
    <3> QED BY <3>1, <3>2
  <2> QED BY <1>3, <2>1 DEF Iterates
<1>5. LeafChain(bt) = F(LeafChain(bt))
  BY <1>4 DEF LeafChain
<1>6. LeafChain(bt) \in [Nat -> U32]
  BY <1>1, <1>5
<1>7. ASSUME NEW k \in Nat
      PROVE  LeafChain(bt)[k + 1] = NodeAt(bt, LeafChain(bt)[k]).fLink
  <2>1. k + 1 \in Nat /\ k + 1 # 0 /\ (k + 1) - 1 = k
    OBVIOUS
  <2> QED BY <1>5, <2>1
<1> QED BY <1>5, <1>6, <1>7 DEF bt

LeafRecord == [node : U32, off : U16]

\* The records of a node, slot by slot.
LEMMA SlotsTaken ==
    ASSUME NEW v, NEW f \in Forks, IsVolume(v), NEW n \in U32
    PROVE  LET bt == v.btree[f]
               rec(i) == [node |-> n, off |-> SlotAt(NodeAt(bt, n), i)]
           IN /\ SlotRecords(bt, n) \in [Nat -> Seq(LeafRecord)]
              /\ SlotRecords(bt, n)[0] = <<>>
              /\ \A i \in Nat :
                    SlotRecords(bt, n)[i + 1] =
                        IF RecordFits(bt.nodeSize, rec(i).off)
                        THEN Append(SlotRecords(bt, n)[i], rec(i))
                        ELSE SlotRecords(bt, n)[i]
<1> DEFINE bt == v.btree[f]
           rec(i) == [node |-> n, off |-> SlotAt(NodeAt(bt, n), i)]
           fits(i) == RecordFits(bt.nodeSize, rec(i).off)
           F(g) == [i \in Nat |->
                        IF i = 0 THEN <<>>
                        ELSE IF fits(i - 1) THEN Append(g[i - 1], rec(i - 1))
                        ELSE g[i - 1]]
           step == [p \in Seq(LeafRecord) \X Nat |->
                        IF p[2] # 0 /\ fits(p[2] - 1) THEN Append(p[1], rec(p[2] - 1)) ELSE p[1]]
           records == SlotRecords(bt, n)
<1>1. \A i \in Nat : rec(i) \in LeafRecord
  BY NodeAtType DEF LeafRecord
<1>2. records = CHOOSE g : g = F(g)
  BY DEF SlotRecords
<1> HIDE DEF bt, rec, fits
<1>3. step \in [Seq(LeafRecord) \X Nat -> Seq(LeafRecord)]
  <2> SUFFICES ASSUME NEW s \in Seq(LeafRecord), NEW i \in Nat, i # 0
               PROVE  Append(s, rec(i - 1)) \in Seq(LeafRecord)
    OBVIOUS
  <2>1. rec(i - 1) \in LeafRecord
    BY <1>1
  <2> QED BY <2>1
<1>4. PICK g \in [Nat -> Seq(LeafRecord)] : Iterates(g, <<>>, step)
  <2>1. <<>> \in Seq(LeafRecord)
    OBVIOUS
  <2> HIDE DEF step
  <2> QED BY <1>3, <2>1, RecursionDefines
<1>5. g = F(g)
  <2>1. ASSUME NEW i \in Nat, i # 0
        PROVE  g[i] = IF fits(i - 1) THEN Append(g[i - 1], rec(i - 1)) ELSE g[i - 1]
    <3>1. i - 1 \in Nat /\ (i - 1) + 1 = i /\ g[i - 1] \in Seq(LeafRecord)
      BY <2>1
    <3>2. g[i] = step[<<g[i - 1], i>>]
      BY <1>4, <3>1 DEF Iterates
    <3> QED BY <2>1, <3>1, <3>2
  <2> QED BY <1>4, <2>1 DEF Iterates
<1>6. records = F(records)
  <2> HIDE DEF F, records
  <2> QED BY <1>2, <1>5
<1> HIDE DEF records
<1>7. records[0] = <<>>
  BY <1>6
<1>8. ASSUME NEW i \in Nat
      PROVE  records[i + 1] = IF fits(i) THEN Append(records[i], rec(i)) ELSE records[i]
  <2>1. i + 1 \in Nat /\ i + 1 # 0 /\ (i + 1) - 1 = i
    OBVIOUS
  <2> QED BY <1>6, <2>1
<1>9. records \in [Nat -> Seq(LeafRecord)]
  <2> DEFINE A == {i \in Nat : records[i] \in Seq(LeafRecord)}
  <2>1. 0 \in A
    <3>1. <<>> \in Seq(LeafRecord)
      OBVIOUS
    <3> QED BY <1>7, <3>1
  <2>2. \A i \in Nat : i \in A => i + 1 \in A
    <3> SUFFICES ASSUME NEW i \in Nat, records[i] \in Seq(LeafRecord)
                 PROVE  records[i + 1] \in Seq(LeafRecord)
      OBVIOUS
    <3>1. rec(i) \in LeafRecord
      BY <1>1
    <3>2. Append(records[i], rec(i)) \in Seq(LeafRecord)
      BY <3>1
    <3> QED BY <1>8, <3>2
  <2>3. Nat \subseteq A
    <3> HIDE DEF A
    <3> QED BY <2>1, <2>2, NatSetInduction
  <2> QED BY <1>6, <2>3
<1> QED BY <1>7, <1>8, <1>9 DEF bt, rec, fits, records

\* Pieces laid end to end: each one more continues what the earlier ones make.
LEMMA FlattenedPieces ==
    ASSUME NEW S, NEW piece \in [Nat -> Seq(S)]
    PROVE  LET joined(k) == FlattenSeq([i \in 1..k |-> piece[i]])
           IN /\ joined(0) = <<>>
              /\ \A k \in Nat : /\ joined(k) \in Seq(S)
                               /\ joined(k + 1) = joined(k) \o piece[k + 1]
<1> DEFINE joined(k) == FlattenSeq([i \in 1..k |-> piece[i]])
           step == [p \in Seq(S) \X Nat |-> p[1] \o piece[p[2]]]
<1>1. step \in [Seq(S) \X Nat -> Seq(S)]
  <2> SUFFICES ASSUME NEW s \in Seq(S), NEW k \in Nat PROVE s \o piece[k] \in Seq(S)
    OBVIOUS
  <2>1. piece[k] \in Seq(S)
    OBVIOUS
  <2> QED BY <2>1
<1>2. <<>> \in Seq(S)
  OBVIOUS
<1>3. PICK g \in [Nat -> Seq(S)] : Iterates(g, <<>>, step)
  <2> HIDE DEF step
  <2> QED BY <1>1, <1>2, RecursionDefines
<1>4. g[0] = <<>>
  BY <1>3 DEF Iterates
<1>5. ASSUME NEW k \in Nat PROVE g[k + 1] = g[k] \o piece[k + 1]
  <2>1. g[k] \in Seq(S) /\ k + 1 \in Nat
    OBVIOUS
  <2>2. g[k + 1] = step[<<g[k], k + 1>>]
    BY <1>3 DEF Iterates
  <2> QED BY <2>1, <2>2
<1> HIDE DEF step
<1>6. ASSUME NEW n \in Nat, n # 0 PROVE joined(n) = g[n]
  <2> DEFINE seqs == [i \in 1..n |-> piece[i]]
             F(h) == [i \in 1..Len(seqs) |-> IF i = 1 THEN seqs[i] ELSE h[i - 1] \o seqs[i]]
             flatten == CHOOSE h : h = F(h)
             h0 == [i \in 1..n |-> g[i]]
  <2>1. Len(seqs) = n /\ \A i \in 1..n : seqs[i] = piece[i]
    OBVIOUS
  <2>2. joined(n) = flatten[n]
    BY <1>6, <2>1 DEF FlattenSeq
  <2> HIDE DEF seqs, joined
  <2>3. h0 = F(h0)
    <3>1. ASSUME NEW i \in 1..n
          PROVE  g[i] = IF i = 1 THEN seqs[i] ELSE h0[i - 1] \o seqs[i]
      <4>1. i - 1 \in Nat /\ (i - 1) + 1 = i /\ piece[i] \in Seq(S)
        OBVIOUS
      <4>5. seqs[i] = piece[i]
        BY <2>1
      <4>2. g[i] = g[i - 1] \o piece[i]
        BY <1>5, <4>1
      <4>3. CASE i = 1
        <5>1. g[i - 1] = <<>>
          BY <1>4, <4>3
        <5>2. <<>> \o piece[i] = piece[i]
          BY <4>1
        <5> QED BY <4>1, <4>2, <4>3, <4>5, <5>1, <5>2
      <4>4. CASE i # 1
        <5>1. h0[i - 1] = g[i - 1]
          BY <4>4
        <5> QED BY <4>2, <4>4, <4>5, <5>1
      <4> QED BY <4>3, <4>4
    <3> QED BY <2>1, <3>1
  <2>4. flatten = F(flatten)
    <3> HIDE DEF F, h0
    <3> QED BY <2>3
  <2> HIDE DEF flatten
  <2>5. flatten[1] = piece[1]
    BY <1>6, <2>1, <2>4
  <2>6. ASSUME NEW i \in 1..(n - 1) PROVE flatten[i + 1] = flatten[i] \o piece[i + 1]
    <3>1. i + 1 \in 1..n /\ i + 1 # 1 /\ (i + 1) - 1 = i
      OBVIOUS
    <3> QED BY <2>1, <2>4, <3>1
  <2> DEFINE A == {i \in Nat : i \in 1..n => flatten[i] = g[i]}
  <2>a. 0 \in A
    OBVIOUS
  <2>b. ASSUME NEW i \in Nat, i \in A PROVE i + 1 \in A
    <3> SUFFICES ASSUME i + 1 \in 1..n PROVE flatten[i + 1] = g[i + 1]
      OBVIOUS
    <3>1. g[i + 1] = g[i] \o piece[i + 1]
      BY <1>5
    <3>2. CASE i = 0
      <4>1. g[0] = <<>> /\ i + 1 = 1 /\ piece[1] \in Seq(S)
        BY <1>4, <3>2
      <4>2. <<>> \o piece[1] = piece[1]
        BY <4>1
      <4> QED BY <2>5, <3>1, <3>2, <4>1, <4>2
    <3>3. CASE i # 0
      <4>1. i \in 1..(n - 1) /\ i \in 1..n
        BY <3>3
      <4>2. flatten[i] = g[i]
        BY <2>b, <4>1
      <4> QED BY <2>6, <3>1, <4>1, <4>2
    <3> QED BY <3>2, <3>3
  <2>7. Nat \subseteq A
    <3> HIDE DEF A
    <3> QED BY <2>a, <2>b, NatSetInduction
  <2>8. n \in 1..n
    BY <1>6
  <2> QED BY <2>2, <2>7, <2>8
<1>7. joined(0) = <<>>
  <2>1. [i \in 1..0 |-> piece[i]] = <<>> /\ Len(<<>>) = 0
    OBVIOUS
  <2> QED BY <2>1 DEF FlattenSeq
<1> HIDE DEF joined
<1>8. \A k \in Nat : joined(k) = g[k]
  BY <1>4, <1>6, <1>7
<1>9. \A k \in Nat : joined(k) \in Seq(S) /\ joined(k + 1) = joined(k) \o piece[k + 1]
  <2> TAKE k \in Nat
  <2>1. joined(k) = g[k]
    BY <1>8
  <2>2. k + 1 \in Nat
    OBVIOUS
  <2>3. joined(k + 1) = g[k + 1]
    BY <1>8, <2>2
  <2>4. g[k] \in Seq(S)
    OBVIOUS
  <2> QED BY <1>5, <2>1, <2>3, <2>4
<1> QED BY <1>7, <1>9 DEF joined

\* PathLength is where the chain first ends.
LEMMA PathEnds ==
    ASSUME NEW v, NEW f
    PROVE  /\ PathLength(v, f) \in 0..MAX_LEAF_NODES
           /\ ChainEnds(v, f, PathLength(v, f))
           /\ \A j \in 0..(PathLength(v, f) - 1) : ~ChainEnds(v, f, j)
<1> DEFINE T == {k \in 0..MAX_LEAF_NODES : ChainEnds(v, f, k)}
<1>1. MAX_LEAF_NODES \in Nat
  BY WidthsAssumption
<1>2. T \in SUBSET Nat /\ T # {}
  BY <1>1 DEF ChainEnds
<1>3. PICK k \in T : \A j \in T : k <= j
  <2> HIDE DEF T
  <2> QED BY <1>2, LeastNatural
<1>4. k \in 0..MAX_LEAF_NODES /\ ChainEnds(v, f, k)
  OBVIOUS
<1>5. \A j \in 0..(k - 1) : ~ChainEnds(v, f, j)
  <2> SUFFICES ASSUME NEW j \in 0..(k - 1), ChainEnds(v, f, j) PROVE FALSE
    OBVIOUS
  <2>1. j \in T /\ j < k
    BY <1>1, <1>4
  <2> HIDE DEF T
  <2> QED BY <1>3, <1>4, <2>1
<1> QED BY <1>4, <1>5 DEF PathLength

\* The loop condition over a node's slots counts up to SlotCount.
LEMMA SlotsLeft ==
    ASSUME NEW v, NEW f \in Forks, IsVolume(v), NEW n
    PROVE  LET bt == v.btree[f]
           IN /\ NodeAt(bt, n).numRecords \in Nat /\ bt.nodeSize \in Nat
              /\ SlotCount(bt, n) \in Nat
              /\ \A i \in Nat :
                    (i < NodeAt(bt, n).numRecords /\ bt.nodeSize - 2 * (i + 1) >= 0)
                        <=> i < SlotCount(bt, n)
<1> DEFINE bt == v.btree[f]
<1>1. NodeAt(bt, n).numRecords \in Nat /\ bt.nodeSize \in Nat
  <2>1. NodeAt(bt, n).numRecords \in U16
    BY NodeAtType
  <2>2. bt.nodeSize \in U16
    BY DEF IsVolume, IsBTree
  <2>3. U16 \subseteq Nat
    BY WidthsAssumption DEF U16
  <2> QED BY <2>1, <2>2, <2>3
<1> HIDE DEF bt
<1>2. /\ SlotCount(bt, n) \in Nat
      /\ \A i \in Nat : (i < NodeAt(bt, n).numRecords /\ bt.nodeSize - 2 * (i + 1) >= 0)
                            <=> i < SlotCount(bt, n)
  BY <1>1 DEF SlotCount
<1> QED BY <1>1, <1>2 DEF bt

\* What an append and a concatenation add comes behind.
LEMMA BeginsAppend ==
    ASSUME NEW S, NEW s \in Seq(S), NEW x \in S
    PROVE  Begins(s, Append(s, x)) /\ Begins(s, s)
BY DEF Begins

LEMMA BeginsConcat ==
    ASSUME NEW S, NEW s \in Seq(S), NEW t \in Seq(S), NEW u \in Seq(S)
    PROVE  /\ Begins(s, s \o t)
           /\ Begins(t, u) => Begins(s \o t, s \o u)
BY DEF Begins

\* The records of the first slots are the beginning of the records of more slots.
LEMMA SlotRecordsGrow ==
    ASSUME NEW v, NEW f \in Forks, IsVolume(v), NEW n \in U32,
           NEW i \in Nat, NEW j \in Nat, i <= j
    PROVE  Begins(SlotRecords(v.btree[f], n)[i], SlotRecords(v.btree[f], n)[j])
<1> DEFINE bt == v.btree[f]
           records == SlotRecords(bt, n)
           rec(k) == [node |-> n, off |-> SlotAt(NodeAt(bt, n), k)]
<1>1. records \in [Nat -> Seq(LeafRecord)]
  BY SlotsTaken
<1>2. \A k \in Nat : rec(k) \in LeafRecord
  BY NodeAtType DEF LeafRecord
<1>3. \A k \in Nat : records[k + 1] \in {records[k], Append(records[k], rec(k))}
  BY SlotsTaken
<1> HIDE DEF records, rec
<1>4. ASSUME NEW k \in Nat PROVE Begins(records[k], records[k + 1])
  <2>1. records[k] \in Seq(LeafRecord) /\ rec(k) \in LeafRecord
    BY <1>1, <1>2
  <2> QED BY <1>3, <2>1, BeginsAppend
<1>5. Begins(records[i], records[j])
  BY <1>1, <1>4, GrowingSequence
<1> QED BY <1>5 DEF records

\* The records of the chain's first nodes, node by node.
LEMMA NodesTaken ==
    ASSUME NEW v, NEW f \in Forks, IsVolume(v)
    PROVE  LET bt == v.btree[f]
           IN /\ FirstRecords(bt, 0) = <<>>
              /\ \A k \in Nat :
                    /\ LeafChain(bt)[k] \in U32
                    /\ NodeRecords(bt, LeafChain(bt)[k]) \in Seq(LeafRecord)
                    /\ FirstRecords(bt, k) \in Seq(LeafRecord)
                    /\ FirstRecords(bt, k + 1)
                          = FirstRecords(bt, k) \o NodeRecords(bt, LeafChain(bt)[k])
<1> DEFINE bt == v.btree[f]
           chain == LeafChain(bt)
           piece == [i \in Nat |-> IF i = 0 THEN <<>> ELSE NodeRecords(bt, chain[i - 1])]
           joined(k) == FlattenSeq([i \in 1..k |-> piece[i]])
<1>1. \A k \in Nat : chain[k] \in U32
  BY ChainLinks
<1>2. ASSUME NEW n \in U32 PROVE NodeRecords(bt, n) \in Seq(LeafRecord)
  <2>1. SlotCount(bt, n) \in Nat
    BY SlotsLeft
  <2>2. SlotRecords(bt, n) \in [Nat -> Seq(LeafRecord)]
    BY SlotsTaken
  <2> QED BY <2>1, <2>2 DEF NodeRecords
<1>3. piece \in [Nat -> Seq(LeafRecord)]
  <2>1. <<>> \in Seq(LeafRecord)
    OBVIOUS
  <2>2. ASSUME NEW i \in Nat, i # 0 PROVE NodeRecords(bt, chain[i - 1]) \in Seq(LeafRecord)
    <3>1. i - 1 \in Nat
      BY <2>2
    <3> QED BY <1>1, <1>2, <3>1
  <2> QED BY <2>1, <2>2
<1>4. \A k \in Nat : FirstRecords(bt, k) = joined(k) /\ piece[k + 1] = NodeRecords(bt, chain[k])
  <2> TAKE k \in Nat
  <2>1. ASSUME NEW i \in 1..k PROVE piece[i] = NodeRecords(bt, chain[i - 1])
    OBVIOUS
  <2>2. [i \in 1..k |-> piece[i]] = [i \in 1..k |-> NodeRecords(bt, chain[i - 1])]
    BY <2>1
  <2>3. FirstRecords(bt, k) = joined(k)
    BY <2>2 DEF FirstRecords
  <2>4. k + 1 \in Nat /\ k + 1 # 0 /\ (k + 1) - 1 = k
    OBVIOUS
  <2> QED BY <2>3, <2>4
<1> HIDE DEF piece
<1>5. /\ joined(0) = <<>>
      /\ \A k \in Nat : joined(k) \in Seq(LeafRecord) /\ joined(k + 1) = joined(k) \o piece[k + 1]
  BY <1>3, FlattenedPieces
<1> HIDE DEF joined, chain, bt
<1>6. FirstRecords(bt, 0) = <<>>
  <2>1. 0 \in Nat
    OBVIOUS
  <2> QED BY <1>4, <1>5, <2>1
<1>7. ASSUME NEW k \in Nat
      PROVE  /\ chain[k] \in U32
             /\ NodeRecords(bt, chain[k]) \in Seq(LeafRecord)
             /\ FirstRecords(bt, k) \in Seq(LeafRecord)
             /\ FirstRecords(bt, k + 1) = FirstRecords(bt, k) \o NodeRecords(bt, chain[k])
  <2>1. k + 1 \in Nat
    OBVIOUS
  <2>2. FirstRecords(bt, k + 1) = joined(k + 1)
    BY <1>4, <2>1
  <2>3. /\ FirstRecords(bt, k) = joined(k) /\ piece[k + 1] = NodeRecords(bt, chain[k])
        /\ joined(k) \in Seq(LeafRecord) /\ joined(k + 1) = joined(k) \o piece[k + 1]
    BY <1>4, <1>5
  <2> QED BY <1>1, <1>2, <2>2, <2>3
<1> QED BY <1>6, <1>7 DEF bt, chain

\* More nodes' records continue fewer nodes' records.
LEMMA FirstRecordsGrow ==
    ASSUME NEW v, NEW f \in Forks, IsVolume(v), NEW m \in Nat, NEW n \in Nat, m <= n
    PROVE  Begins(FirstRecords(v.btree[f], m), FirstRecords(v.btree[f], n))
<1> DEFINE bt == v.btree[f]
           first == [k \in Nat |-> FirstRecords(bt, k)]
<1>1. first \in [Nat -> Seq(LeafRecord)]
  BY NodesTaken
<1>2. ASSUME NEW k \in Nat PROVE Begins(first[k], first[k + 1])
  <2> DEFINE t == NodeRecords(bt, LeafChain(bt)[k])
  <2>1. /\ FirstRecords(bt, k) \in Seq(LeafRecord) /\ t \in Seq(LeafRecord)
        /\ FirstRecords(bt, k + 1) = FirstRecords(bt, k) \o t
    BY NodesTaken
  <2>2. Begins(FirstRecords(bt, k), FirstRecords(bt, k + 1))
    <3> HIDE DEF t
    <3> QED BY <2>1, BeginsConcat
  <2>3. k + 1 \in Nat
    OBVIOUS
  <2> QED BY <2>2, <2>3
<1>3. Begins(first[m], first[n])
  <2> HIDE DEF first
  <2> QED BY <1>1, <1>2, GrowingSequence
<1> QED BY <1>3

\* Wherever the walk stands, what it has delivered is the beginning of what there is.
LEMMA RecordsAhead ==
    ASSUME NEW v, NEW f \in Forks, IsVolume(v),
           NEW k \in Nat, k < PathLength(v, f),
           NEW i \in Nat, i <= SlotCount(v.btree[f], LeafChain(v.btree[f])[k])
    PROVE  LET bt == v.btree[f]
               sofar == FirstRecords(bt, k) \o SlotRecords(bt, LeafChain(bt)[k])[i]
           IN sofar \in Seq(LeafRecord) /\ Begins(sofar, FirstRecords(bt, PathLength(v, f)))
<1> DEFINE bt == v.btree[f]
           n == LeafChain(bt)[k]
           len == PathLength(v, f)
           here == SlotRecords(bt, n)
           a == FirstRecords(bt, k)
           b == FirstRecords(bt, k + 1)
           c == FirstRecords(bt, len)
<1>1. len \in Nat /\ k + 1 \in Nat /\ k + 1 <= len
  BY PathEnds, WidthsAssumption
<1>2. /\ n \in U32 /\ a \in Seq(LeafRecord) /\ b = a \o NodeRecords(bt, n)
      /\ b \in Seq(LeafRecord) /\ c \in Seq(LeafRecord)
  BY <1>1, NodesTaken
<1>3. here \in [Nat -> Seq(LeafRecord)]
  BY <1>2, SlotsTaken
<1>4. SlotCount(bt, n) \in Nat
  BY SlotsLeft
<1>5. Begins(here[i], here[SlotCount(bt, n)])
  BY <1>2, <1>4, SlotRecordsGrow
<1>6. Begins(b, c)
  BY <1>1, FirstRecordsGrow
<1> HIDE DEF a, b, c, here, len, n, bt
<1>7. here[i] \in Seq(LeafRecord) /\ here[SlotCount(bt, n)] \in Seq(LeafRecord)
  BY <1>3, <1>4
<1>8. NodeRecords(bt, n) = here[SlotCount(bt, n)]
  BY DEF NodeRecords, here
<1>9. Begins(a \o here[i], b)
  BY <1>2, <1>5, <1>7, <1>8, BeginsConcat
<1>10. a \o here[i] \in Seq(LeafRecord)
  BY <1>2, <1>7
<1>11. Begins(a \o here[i], c)
  <2>1. Len(a \o here[i]) \in Nat /\ Len(b) \in Nat /\ Len(c) \in Nat
    BY <1>2, <1>10
  <2> QED BY <1>6, <1>9, <2>1, BeginsTransitive
<1> QED BY <1>10, <1>11 DEF a, c, here, len, n, bt

------------------------------------------------------------------------------
\* Where the loop stands in the reference definition's chain, node by node and slot by
\* slot, and what it has delivered by then.
StreamPosition ==
    /\ expected = RecordsOf(vol, fork)
    /\ pc = "none" => ~Locatable(vol, fork)
    /\ pc = "walk" =>
        /\ node = LeafChain(Tree)[walked]
        /\ walked <= PathLength(vol, fork)
        /\ delivered = FirstRecords(Tree, walked)
    /\ pc = "records" =>
        /\ walked >= 1 /\ walked <= PathLength(vol, fork)
        /\ node = LeafChain(Tree)[walked - 1]
        /\ idx <= SlotCount(Tree, node)
        /\ delivered = FirstRecords(Tree, walked - 1) \o SlotRecords(Tree, node)[idx]
    /\ pc = "done" => delivered = FirstRecords(Tree, PathLength(vol, fork))

\* The loop leaves the chain where PathLength says it ends, and nowhere else.
LEMMA LoopEnds ==
    ASSUME TypeOK, StreamPosition, pc = "walk"
    PROVE  /\ (~WalkOn \/ ~NodeReadable(vol.len, loc, node)) => walked = PathLength(vol, fork)
           /\ (WalkOn /\ NodeReadable(vol.len, loc, node)) => walked < PathLength(vol, fork)
<1> DEFINE len == PathLength(vol, fork)
<1>1. /\ len \in 0..MAX_LEAF_NODES /\ ChainEnds(vol, fork, len)
      /\ \A j \in 0..(len - 1) : ~ChainEnds(vol, fork, j)
  BY PathEnds
<1>2. walked \in Nat /\ walked <= len /\ walked <= MAX_LEAF_NODES /\ MAX_LEAF_NODES \in Nat
  BY WidthsAssumption DEF TypeOK, StreamPosition
<1>3. loc = LocOf(vol, fork) /\ node = LeafChain(vol.btree[fork])[walked]
  BY DEF TypeOK, StreamPosition, Tree
<1> HIDE DEF len
<1>4. ASSUME ~WalkOn \/ ~NodeReadable(vol.len, loc, node) PROVE walked = len
  <2>1. ChainEnds(vol, fork, walked)
    BY <1>2, <1>3, <1>4 DEF WalkOn, ChainEnds
  <2>2. walked \notin 0..(len - 1)
    BY <1>1, <2>1
  <2> QED BY <1>1, <1>2, <2>2
<1>5. ASSUME WalkOn, NodeReadable(vol.len, loc, node) PROVE walked < len
  <2>1. ~ChainEnds(vol, fork, walked)
    BY <1>2, <1>3, <1>5 DEF WalkOn, ChainEnds
  <2>2. walked # len
    BY <1>1, <2>1
  <2> QED BY <1>1, <1>2, <2>2
<1> QED BY <1>4, <1>5 DEF len

\* Every step of the walk keeps to that place.
LEMMA StepStreamPosition ==
    TypeOK /\ TypeOK' /\ StreamPosition /\ [StreamedNext]_<<vars, expected>> => StreamPosition'
<1> SUFFICES ASSUME TypeOK, TypeOK', StreamPosition, [StreamedNext]_<<vars, expected>>
             PROVE  StreamPosition'
  OBVIOUS
<1> DEFINE len == PathLength(vol, fork)
<1>0. /\ IsVolume(vol) /\ fork \in Forks
      /\ walked \in Nat /\ idx \in Nat /\ len \in Nat
  BY PathEnds, WidthsAssumption DEF TypeOK
<1>1. CASE Locate /\ expected' = expected
  <2>1. /\ vol' = vol /\ fork' = fork /\ walked' = 0 /\ delivered' = <<>>
        /\ IF Locatable(vol, fork) THEN pc' = "walk" /\ node' = Tree.firstLeaf ELSE pc' = "none"
    BY <1>1 DEF Locate, TypeOK, input
  <2>2. FirstRecords(Tree, 0) = <<>> /\ LeafChain(Tree)[0] = Tree.firstLeaf /\ 0 <= len
    BY <1>0, NodesTaken, ChainLinks DEF Tree
  <2> QED BY <1>1, <2>1, <2>2 DEF StreamPosition, Tree
<1>2. CASE (StopWalk \/ LeaveBuffer) /\ expected' = expected
  <2>1. /\ vol' = vol /\ fork' = fork /\ delivered' = delivered /\ pc = "walk" /\ pc' = "done"
        /\ ~WalkOn \/ ~NodeReadable(vol.len, loc, node)
    BY <1>2 DEF StopWalk, LeaveBuffer, input
  <2>2. walked = len
    BY <2>1, LoopEnds
  <2> QED BY <1>2, <2>1, <2>2 DEF StreamPosition, Tree
<1>3. CASE EnterNode /\ expected' = expected
  <2>1. /\ vol' = vol /\ fork' = fork /\ delivered' = delivered /\ node' = node
        /\ pc = "walk" /\ pc' = "records" /\ walked' = walked + 1 /\ idx' = 0
        /\ WalkOn /\ NodeReadable(vol.len, loc, node)
    BY <1>3 DEF EnterNode, input
  <2>2. walked < len
    BY <2>1, LoopEnds
  <2>3. walked' >= 1 /\ walked' <= len /\ walked' - 1 = walked
    BY <1>0, <2>1, <2>2
  <2>4. node = LeafChain(Tree)[walked] /\ delivered = FirstRecords(Tree, walked)
    BY <2>1 DEF StreamPosition
  <2>5. /\ SlotRecords(Tree, node)[0] = <<>>
        /\ SlotCount(Tree, node) \in Nat
        /\ FirstRecords(Tree, walked) \in Seq(LeafRecord)
    <3>1. node \in U32
      BY DEF TypeOK
    <3> QED BY <1>0, <3>1, SlotsTaken, SlotsLeft, NodesTaken DEF Tree
  <2>6. FirstRecords(Tree, walked) \o <<>> = FirstRecords(Tree, walked)
    BY <2>5
  <2> QED BY <1>3, <2>1, <2>3, <2>4, <2>5, <2>6 DEF StreamPosition, Tree
<1>4. CASE Record /\ expected' = expected
  <2> DEFINE rec == [node |-> node, off |-> SlotAt(Here, idx)]
             here == SlotRecords(Tree, node)
             before == FirstRecords(Tree, walked - 1)
  <2>1. /\ vol' = vol /\ fork' = fork /\ node' = node /\ walked' = walked
        /\ pc = "records" /\ pc' = "records" /\ idx' = idx + 1
        /\ idx < Here.numRecords /\ Slot >= 0
        /\ delivered' = IF RecordFits(loc.node_size, rec.off) THEN Append(delivered, rec)
                                                             ELSE delivered
    BY <1>4 DEF Record, input
  <2>2. loc.node_size = Tree.nodeSize
    BY <2>1 DEF TypeOK, LocOf, Tree
  <2>3. /\ walked >= 1 /\ walked <= len
        /\ node = LeafChain(Tree)[walked - 1]
        /\ delivered = before \o here[idx]
    BY <2>1 DEF StreamPosition
  <2>4. idx' <= SlotCount(Tree, node)
    <3>1. idx < SlotCount(Tree, node)
      BY <1>0, <2>1, <2>2, SlotsLeft DEF Slot, Here, Tree
    <3>2. SlotCount(Tree, node) \in Nat
      BY <1>0, SlotsLeft DEF Tree
    <3> QED BY <1>0, <2>1, <3>1, <3>2
  <2>5. /\ here[idx] \in Seq(LeafRecord) /\ before \in Seq(LeafRecord) /\ rec \in LeafRecord
        /\ here[idx + 1] = IF RecordFits(Tree.nodeSize, rec.off) THEN Append(here[idx], rec)
                                                                ELSE here[idx]
    <3>1. node \in U32 /\ walked - 1 \in Nat
      BY <1>0, <2>3 DEF TypeOK
    <3>2. rec \in LeafRecord
      BY <1>0, <3>1, NodeAtType DEF LeafRecord, Here, Tree
    <3>3. before \in Seq(LeafRecord)
      BY <1>0, <3>1, NodesTaken DEF Tree
    <3>4. IsVolume(vol) /\ fork \in Forks /\ idx \in Nat
      BY <1>0
    <3>5. /\ SlotRecords(Tree, node) \in [Nat -> Seq(LeafRecord)]
          /\ SlotRecords(Tree, node)[idx + 1] =
                IF RecordFits(Tree.nodeSize, SlotAt(NodeAt(Tree, node), idx))
                THEN Append(SlotRecords(Tree, node)[idx],
                            [node |-> node, off |-> SlotAt(NodeAt(Tree, node), idx)])
                ELSE SlotRecords(Tree, node)[idx]
      BY <3>1, <3>4, SlotsTaken DEF Tree
    <3>6. here[idx] \in Seq(LeafRecord)
      BY <3>4, <3>5
    <3>7. here[idx + 1] = IF RecordFits(Tree.nodeSize, rec.off) THEN Append(here[idx], rec)
                                                               ELSE here[idx]
      BY <3>5 DEF Here
    <3> QED BY <3>2, <3>3, <3>6, <3>7
  <2> HIDE DEF here, before, rec
  <2>6. before \o Append(here[idx], rec) = Append(before \o here[idx], rec)
    BY <2>5
  <2>7. delivered' = before \o here[idx + 1]
    BY <2>1, <2>2, <2>3, <2>5, <2>6
  <2> QED BY <1>4, <2>1, <2>3, <2>4, <2>7 DEF StreamPosition, Tree, here, before
<1>5. CASE NextNode /\ expected' = expected
  <2>1. /\ vol' = vol /\ fork' = fork /\ delivered' = delivered /\ walked' = walked
        /\ pc = "records" /\ pc' = "walk" /\ node' = Here.fLink
        /\ idx >= Here.numRecords \/ Slot < 0
    BY <1>5 DEF NextNode, input
  <2>2. loc.node_size = Tree.nodeSize
    BY <2>1 DEF TypeOK, LocOf, Tree
  <2>3. /\ walked >= 1 /\ walked <= len
        /\ node = LeafChain(Tree)[walked - 1]
        /\ idx <= SlotCount(Tree, node)
        /\ delivered = FirstRecords(Tree, walked - 1) \o SlotRecords(Tree, node)[idx]
    BY <2>1 DEF StreamPosition
  <2>4. idx = SlotCount(Tree, node)
    <3>1. SlotCount(Tree, node) \in Nat
      BY <1>0, SlotsLeft DEF Tree
    <3>2. ~(idx < Here.numRecords /\ Slot >= 0)
      <4>1. Here.numRecords \in Nat /\ Slot \in Int
        <5>1. Here.numRecords \in Nat /\ Tree.nodeSize \in Nat
          BY <1>0, SlotsLeft DEF Here, Tree
        <5> QED BY <1>0, <2>2, <5>1 DEF Slot
      <4> QED BY <1>0, <2>1, <4>1
    <3>3. ~(idx < SlotCount(Tree, node))
      BY <1>0, <2>2, <3>2, SlotsLeft DEF Slot, Here, Tree
    <3> QED BY <1>0, <2>3, <3>1, <3>3
  <2>5. walked - 1 \in Nat /\ (walked - 1) + 1 = walked
    BY <1>0, <2>3
  <2>6. /\ FirstRecords(Tree, walked) = FirstRecords(Tree, walked - 1) \o NodeRecords(Tree, node)
        /\ LeafChain(Tree)[walked] = NodeAt(Tree, node).fLink
    <3>1. FirstRecords(Tree, (walked - 1) + 1)
            = FirstRecords(Tree, walked - 1) \o NodeRecords(Tree, LeafChain(Tree)[walked - 1])
      BY <1>0, <2>5, NodesTaken DEF Tree
    <3>2. LeafChain(Tree)[(walked - 1) + 1] = NodeAt(Tree, LeafChain(Tree)[walked - 1]).fLink
      BY <1>0, <2>5, ChainLinks DEF Tree
    <3> QED BY <2>3, <2>5, <3>1, <3>2
  <2> QED BY <1>5, <2>1, <2>3, <2>4, <2>6 DEF StreamPosition, Tree, Here, NodeRecords
<1>6. CASE UNCHANGED <<vars, expected>>
  BY <1>6 DEF vars, StreamPosition, Tree
<1> QED BY <1>1, <1>2, <1>3, <1>4, <1>5, <1>6 DEF StreamedNext, Next, WalkStep

\* The walk that the stream is stated of is LeafWalk's, at its place in the chain.
LEMMA StreamOfTheWalk == StreamedSteps => Spec /\ [](TypeOK /\ StreamPosition)
<1>1. StreamedInit => Init
  BY DEF StreamedInit
<1>2. [StreamedNext]_<<vars, expected>> => [Next]_vars
  BY DEF StreamedNext, vars
<1>3. StreamedInit => StreamPosition
  BY DEF StreamedInit, Init, StreamPosition
<1> QED BY <1>1, <1>2, <1>3, InitTypeOK, StepTypeOK, StepStreamPosition, PTL
        DEF Spec, StreamedSteps

\* One step of the loop is one step of the stream, or none of its business.
LEMMA StepOfTheStream ==
    TypeOK /\ TypeOK' /\ StreamPosition /\ StreamPosition' /\ [StreamedNext]_<<vars, expected>>
        => [Stream!Emit \/ Stream!Return]_(Stream!streamVars)
<1> SUFFICES ASSUME TypeOK, TypeOK', StreamPosition, StreamPosition',
                    [StreamedNext]_<<vars, expected>>
             PROVE  [Stream!Emit \/ Stream!Return]_(Stream!streamVars)
  OBVIOUS
<1> USE DEF Stream!streamVars
<1>1. CASE Locate /\ expected' = expected
  <2>1. delivered = <<>> /\ delivered' = delivered /\ pc = "locate"
    BY <1>1 DEF Locate, TypeOK
  <2>2. CASE Locatable(vol, fork)
    <3>1. pc' = "walk"
      BY <1>1, <2>2 DEF Locate
    <3> QED BY <1>1, <2>1, <3>1
  <2>3. CASE ~Locatable(vol, fork)
    <3>1. pc' = "none"
      BY <1>1, <2>3 DEF Locate
    <3>2. expected = <<>>
      BY <2>3, LocatableIsTree DEF TypeOK, StreamPosition, RecordsOf
    <3> QED BY <1>1, <2>1, <3>1, <3>2 DEF Stream!Return
  <2> QED BY <2>2, <2>3
<1>2. CASE (StopWalk \/ LeaveBuffer) /\ expected' = expected
  <2>1. delivered' = delivered /\ pc = "walk" /\ pc' = "done" /\ vol' = vol /\ fork' = fork
    BY <1>2 DEF StopWalk, LeaveBuffer, input
  <2>2. delivered = expected
    <3>1. delivered = FirstRecords(Tree, PathLength(vol, fork))
      BY <2>1 DEF StreamPosition, Tree
    <3>2. Locatable(vol, fork) /\ expected = RecordsOf(vol, fork)
      BY <2>1 DEF TypeOK, StreamPosition
    <3> QED BY <3>1, <3>2, LocatableIsTree DEF TypeOK, RecordsOf, Tree
  <2> QED BY <1>2, <2>1, <2>2 DEF Stream!Return
<1>3. CASE (EnterNode \/ NextNode) /\ expected' = expected
  <2>1. delivered' = delivered /\ pc \in {"walk", "records"} /\ pc' \in {"walk", "records"}
    BY <1>3 DEF EnterNode, NextNode
  <2> QED BY <1>3, <2>1
<1>4. CASE Record /\ expected' = expected
  <2> DEFINE rec == [node |-> node, off |-> SlotAt(Here, idx)]
  <2>1. /\ pc = "records" /\ pc' = "records" /\ vol' = vol /\ fork' = fork
        /\ node' = node /\ walked' = walked
        /\ delivered' = delivered \/ delivered' = Append(delivered, rec)
    BY <1>4 DEF Record, input
  <2>2. CASE delivered' = delivered
    BY <1>4, <2>1, <2>2
  <2>3. CASE delivered' = Append(delivered, rec)
    <3>1. delivered' \in Seq([node : U32 \ {0}, off : U16]) /\ delivered \in Seq([node : U32 \ {0}, off : U16])
      BY DEF TypeOK
    <3>2. Begins(delivered', expected) /\ Len(expected) \in Nat
      <4>1. /\ walked - 1 \in Nat /\ walked - 1 < PathLength(vol, fork) /\ idx' \in Nat
            /\ node = LeafChain(vol.btree[fork])[walked - 1]
            /\ idx' <= SlotCount(vol.btree[fork], LeafChain(vol.btree[fork])[walked - 1])
            /\ delivered' = FirstRecords(vol.btree[fork], walked - 1)
                              \o SlotRecords(vol.btree[fork], node)[idx']
        <5>1. walked \in Nat /\ idx' \in Nat /\ PathLength(vol, fork) \in Nat
          BY PathEnds, WidthsAssumption DEF TypeOK
        <5>2. walked >= 1 /\ walked <= PathLength(vol, fork)
              /\ node = LeafChain(vol.btree[fork])[walked - 1]
          BY <2>1 DEF StreamPosition, Tree
        <5>3. /\ idx' <= SlotCount(vol.btree[fork], node)
              /\ delivered' = FirstRecords(vol.btree[fork], walked - 1)
                               \o SlotRecords(vol.btree[fork], node)[idx']
          BY <2>1 DEF StreamPosition, Tree
        <5> QED BY <5>1, <5>2, <5>3
      <4>2. Begins(delivered', FirstRecords(vol.btree[fork], PathLength(vol, fork)))
        BY <4>1, RecordsAhead DEF TypeOK
      <4>3. expected = FirstRecords(vol.btree[fork], PathLength(vol, fork))
        BY <2>1, LocatableIsTree DEF TypeOK, StreamPosition, RecordsOf
      <4>4. expected \in Seq(LeafRecord)
        BY <4>3, PathEnds, NodesTaken, WidthsAssumption DEF TypeOK
      <4> QED BY <4>2, <4>3, <4>4
    <3>3. /\ Len(delivered') = Len(delivered) + 1
          /\ delivered'[Len(delivered) + 1] = rec
          /\ Len(delivered) \in Nat
      BY <2>3, <3>1
    <3>4. Len(delivered) < Len(expected) /\ expected[Len(delivered) + 1] = rec
      BY <3>2, <3>3 DEF Begins
    <3> QED BY <1>4, <2>1, <2>3, <3>4 DEF Stream!Emit
  <2> QED BY <2>1, <2>2, <2>3
<1>5. CASE UNCHANGED <<vars, expected>>
  BY <1>5 DEF vars
<1> QED BY <1>1, <1>2, <1>3, <1>4, <1>5 DEF StreamedNext, Next, WalkStep

\* for_each_record hands its callback the records of the reference definition, each once,
\* in the order of the chain, and does not return before the last: on every volume, for
\* every cap and word width.
THEOREM WalkIsAStream == StreamedSteps => DeliversTheRecords
<1>1. StreamedInit => Stream!StreamInit
  BY DEF StreamedInit, Init, Stream!StreamInit
<1> QED BY <1>1, StepOfTheStream, StreamOfTheWalk, PTL
        DEF StreamedSteps, DeliversTheRecords, Stream!StreamSpec
==============================================================================
