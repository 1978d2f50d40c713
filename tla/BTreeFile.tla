------------------------------ MODULE BTreeFile ------------------------------
(***************************************************************************)
(* An HFS+ volume as the reader sees it: an immutable byte buffer with a   *)
(* volume header, and in it the three B-tree files whose leaf chains       *)
(* core/src/lib.rs walks (catalog, extents-overflow, attributes).          *)
(*                                                                         *)
(* A B-tree file is abstracted to the fields the code reads: the first     *)
(* extent and totalBlocks of its fork data in the volume header,           *)
(* firstLeafNode and nodeSize of the B-tree header record, and node        *)
(* descriptors with their record-offset tables.  Node contents are stored  *)
(* sparsely: a node that is not in DOMAIN nodes reads as zeros.            *)
(* Arithmetic keeps its width: u16, u32 and usize ranges are parameters,   *)
(* so that a 64-bit and a 32-bit build can both be checked on small words. *)
(***************************************************************************)
EXTENDS Integers, Sequences

CONSTANTS
    U16Max,         \* largest u16 (scaled down in the models)
    U32Max,         \* largest u32
    UsizeMax,       \* largest usize of the build
    IsizeMax,       \* largest slice length: Rust bounds every slice by isize::MAX
    MAX_LEAF_NODES  \* cap on the leaf nodes one walk visits

ASSUME WidthsAssumption ==
    /\ U16Max \in Nat /\ U32Max \in Nat /\ UsizeMax \in Nat /\ IsizeMax \in Nat
    /\ 14 <= U16Max /\ U16Max <= U32Max /\ U32Max <= UsizeMax
    /\ IsizeMax < UsizeMax
    /\ MAX_LEAF_NODES \in 1..U32Max

U16 == 0..U16Max
U32 == 0..U32Max

VOLUME_HEADER_OFFSET == 1024

Forks == {"catalog", "extents", "attributes"}

\* Byte offset of each B-tree file's HFSPlusForkData inside the volume header.
ForkOffset == [extents |-> 192, catalog |-> 272, attributes |-> 352]

DescriptorLen == 14

ZeroNode == [fLink |-> 0, bLink |-> 0, kind |-> 0, height |-> 0,
             numRecords |-> 0, slots |-> <<>>]

IsNode(nd) ==
    /\ nd.fLink \in U32 /\ nd.bLink \in U32
    /\ nd.kind \in -128..127 /\ nd.height \in 0..255
    /\ nd.numRecords \in U16
    /\ Len(nd.slots) \in Nat
    /\ \A i \in DOMAIN nd.slots : nd.slots[i] \in U16

IsBTree(bt) ==
    /\ bt.startBlock \in U32 /\ bt.totalBlocks \in U32
    /\ bt.firstLeaf \in U32 /\ bt.nodeSize \in U16
    /\ DOMAIN bt.nodes \subseteq U32
    /\ \A n \in DOMAIN bt.nodes : IsNode(bt.nodes[n])

\* A volume: its length in bytes, the header fields locate_btree reads, and the
\* three B-tree files.
IsVolume(v) ==
    /\ v.len \in 0..IsizeMax
    /\ v.sig \in {"H+", "HX", "other"}
    /\ v.blockSize \in U32
    /\ \A f \in Forks : IsBTree(v.btree[f])

NodeAt(bt, n) == IF n \in DOMAIN bt.nodes THEN bt.nodes[n] ELSE ZeroNode

\* The i-th record offset (i counts from 0), as be16 reads it from the node end.
SlotAt(nd, i) == IF i + 1 \in DOMAIN nd.slots THEN nd.slots[i + 1] ELSE 0

------------------------------------------------------------------------------
\* What makes a Rust build panic: a slice lo..hi beyond its buffer of length `of`, and a
\* sum formed without checked_add that leaves the word.

Slice(lo, hi, of) == [lo |-> lo, hi |-> hi, of |-> of]

SliceOK(s) == s.lo <= s.hi /\ s.hi <= s.of

\* Every product and sum formed below without a check fits in usize whatever the field
\* values are: true of a 64-bit build, false of a 32-bit one.
WideUsize ==
    /\ U32Max * U32Max + DescriptorLen + 20 <= UsizeMax
    /\ U32Max * U16Max + IsizeMax + U16Max <= UsizeMax

------------------------------------------------------------------------------
\* locate_btree: the guards in the order the function tests them.

CatBase(v, f) == v.btree[f].startBlock * v.blockSize

\* Where the fork data of the B-tree file starts.
ForkData(f) == VOLUME_HEADER_OFFSET + ForkOffset[f]

SignatureOK(v) == v.sig \in {"H+", "HX"}

\* A mutant of FieldsFit: only the volume header's own fields are required to be there.
HeadFits(v, f) == v.len >= VOLUME_HEADER_OFFSET + 44

FieldsFit(v, f) == v.len >= ForkData(f) + 20

HeaderReadable(v, f) ==
    /\ FieldsFit(v, f)
    /\ SignatureOK(v)
    /\ v.blockSize # 0
    /\ v.btree[f].totalBlocks # 0
    /\ CatBase(v, f) + DescriptorLen <= UsizeMax    \* checked_mul, checked_add

\* The slices taken of the volume header: signature, block size, and of the fork data
\* totalBlocks and the first startBlock, each when the tests before it have passed.
FieldSlices(v, f) ==
    LET field(lo, hi) == Slice(lo, hi, v.len)
        when(test, slice) == IF FieldsFit(v, f) /\ test THEN {slice} ELSE {}
        named == SignatureOK(v) /\ v.blockSize # 0
    IN when(TRUE, field(VOLUME_HEADER_OFFSET, VOLUME_HEADER_OFFSET + 2))
       \cup when(SignatureOK(v), field(VOLUME_HEADER_OFFSET + 40, VOLUME_HEADER_OFFSET + 44))
       \cup when(named, field(ForkData(f) + 12, ForkData(f) + 16))
       \cup when(named /\ v.btree[f].totalBlocks # 0,
                 field(ForkData(f) + 16, ForkData(f) + 20))

\* hdr + 20: the end of the part of the B-tree header record that is read.
HeaderEnd(v, f) == CatBase(v, f) + DescriptorLen + 20

HeaderFits(v, f) == v.len >= HeaderEnd(v, f)

\* A mutant of NodeSizeOK: the descriptor-size check dropped.
AnyNodeSize(ns) == TRUE

NodeSizeOK(ns) == ns >= DescriptorLen

Locatable(v, f) ==
    /\ HeaderReadable(v, f)
    /\ HeaderFits(v, f)
    /\ NodeSizeOK(v.btree[f].nodeSize)

\* The CatalogLoc that locate_btree returns.
LocOf(v, f) == [cat_base |-> CatBase(v, f), node_size |-> v.btree[f].nodeSize,
                first_leaf |-> v.btree[f].firstLeaf, block_size |-> v.blockSize]

------------------------------------------------------------------------------
\* Node arithmetic of for_each_record.

NodeOff(loc, n) == n * loc.node_size + loc.cat_base

NodeEnd(loc, n) == NodeOff(loc, n) + loc.node_size

\* A mutant of NodeReadable: only the node's first byte is required to be in bounds.
NodeStartReadable(len, loc, n) == NodeOff(loc, n) <= UsizeMax /\ len >= NodeOff(loc, n)

\* The node lies wholly inside the buffer.
NodeReadable(len, loc, n) == NodeOff(loc, n) <= UsizeMax /\ len >= NodeEnd(loc, n)

\* A mutant of RecordFits: a slot value is taken as it comes.
AnyRecordFits(ns, rec) == TRUE

\* The key length, parent CNID and name length of the record lie inside the node.
RecordFits(ns, rec) == rec + 8 <= ns
==============================================================================
