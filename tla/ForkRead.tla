------------------------------- MODULE ForkRead -------------------------------
(***************************************************************************)
(* One file fork, as the reader materializes it (parse_fork and fork_bytes *)
(* of core/src/lib.rs) and as the analyzer weighs it (fork_inline_blocks,  *)
(* fork_all_slots_used, overflow_blocks, needed_blocks and audit_extents   *)
(* of forensic/src/findings.rs).  Both go through the record's extent      *)
(* slots, so the model passes a slot for both at once; the analyzer alone  *)
(* then asks the extents-overflow tree.                                    *)
(*                                                                         *)
(* The bytes read are kept as pieces: len bytes of the volume from offset  *)
(* from, put at position at of the result.  `ideal` is where the extent's  *)
(* bytes belong in the fork, `whole` tells that none of them is missing.   *)
(***************************************************************************)
EXTENDS Integers, Sequences

CONSTANTS
    U32Max,     \* largest u32
    UsizeMax,   \* largest usize; logical sizes are u64 and may exceed it
    Slots,      \* extent slots of a fork record (8 on disk)
    Volumes,    \* volumes: [len, block_size]
    Forks,      \* forks: [logical, slots]
    CNID,       \* the file's catalog node ID
    Trees       \* what the walk of an extents-overflow tree may deliver

Extent == [start : 0..U32Max, count : 0..U32Max]

\* A record of the overflow tree.  avail: bytes from its offset to the node end; keyLen,
\* forkType, fileID: its key; counts: the block counts of the pairs behind the key.
OverflowRecord == [avail : Nat, keyLen : Nat, forkType : Nat, fileID : Nat,
                   counts : [1..Slots -> 0..U32Max]]

ASSUME ForkAssumption ==
    /\ U32Max \in Nat /\ UsizeMax \in Nat /\ U32Max <= UsizeMax
    /\ Slots \in Nat
    /\ Volumes \subseteq [len : 0..UsizeMax, block_size : 1..U32Max]
    /\ Forks \subseteq [logical : Nat, slots : [1..Slots -> Extent]]
    /\ Trees \subseteq Seq(OverflowRecord)

VARIABLES
    vol, fork,
    k,              \* slots passed
    reading,        \* fork_bytes: "on", "stopped" (break) or "failed" (?)
    pieces, got,    \* fork_bytes' data, and its length
    inline_blocks,  \* fork_inline_blocks' total
    extents_full,   \* fork_all_slots_used so far
    ideal,          \* history: bytes the slots passed describe
    asked,          \* overflow_blocks has been called
    tree,           \* the records its walk delivers
    passed,         \* records passed
    pair,           \* pairs passed of the next one
    overflow,       \* overflow_blocks' total
    result,         \* length of the buffer returned; -1 before, and for None
    mismatch        \* the CatalogExtentsMismatch verdict

overflowVars == <<asked, tree, passed, pair, overflow>>
vars == <<vol, fork, k, reading, pieces, got, inline_blocks, extents_full, ideal,
          overflowVars, result, mismatch>>

\* A mutant of AtMost: nothing is cut off.
NoLimit(n, bound) == n

\* `min`, and the result of a saturating sum.
AtMost(n, bound) == IF n < bound THEN n ELSE bound

Init ==
    /\ vol \in Volumes /\ fork \in Forks
    /\ k = 0
    /\ reading = "on"
    /\ pieces = <<>> /\ got = 0
    /\ inline_blocks = 0 /\ extents_full = TRUE
    /\ ideal = 0
    /\ asked = FALSE /\ tree = <<>> /\ passed = 0 /\ pair = 0 /\ overflow = 0
    /\ result = -1 /\ mismatch = FALSE

\* `fork.logical as usize`
Wanted == fork.logical % (UsizeMax + 1)

\* The slot at hand, and its extent's byte range.
E == fork.slots[k + 1]
Begin == E.start * vol.block_size
Size == E.count * vol.block_size

\* The three checked operations.
RangeFits == Begin <= UsizeMax /\ Size <= UsizeMax /\ Begin + Size <= UsizeMax

End == AtMost(Begin + Size, vol.len)

\* A mutant of Reads: the extents read are not compared with the logical size.
ReadsOn == reading = "on" /\ E.count # 0

\* fork_bytes comes to this slot: parse_fork kept it, and the loop has not ended.
Reads == reading = "on" /\ E.count # 0 /\ got < Wanted

\* What the analyzer does with the slot: saturating_add, and the test for a free slot.
CountSlot ==
    /\ k < Slots
    /\ k' = k + 1
    /\ inline_blocks' = AtMost(inline_blocks + E.count, U32Max)
    /\ extents_full' = (extents_full /\ E.count # 0)
    /\ ideal' = ideal + Size
    /\ UNCHANGED <<vol, fork, overflowVars, result, mismatch>>

\* The slot is free, or the reader's loop is over.
PassSlot ==
    /\ CountSlot
    /\ ~Reads
    /\ UNCHANGED <<reading, pieces, got>>

\* n bytes of the extent, appended to the data.
Piece(n) == [at |-> got, from |-> Begin, len |-> n, ideal |-> ideal, whole |-> n = Size]

\* A mutant of ReadExtent: the bytes go in without the end cut at the volume's.
ReadWhole ==
    /\ CountSlot
    /\ Reads /\ RangeFits /\ Begin < vol.len
    /\ pieces' = Append(pieces, Piece(Size))
    /\ got' = got + Size
    /\ UNCHANGED reading

ReadExtent ==
    /\ CountSlot
    /\ Reads /\ RangeFits /\ Begin < vol.len
    /\ pieces' = Append(pieces, Piece(End - Begin))
    /\ got' = got + (End - Begin)
    /\ UNCHANGED reading

\* A mutant of BeyondVolume: the extent is skipped and the next one read.
SkipExtent ==
    /\ CountSlot
    /\ Reads /\ RangeFits /\ Begin >= vol.len
    /\ UNCHANGED <<reading, pieces, got>>

\* The extent starts behind the volume: break.
BeyondVolume ==
    /\ CountSlot
    /\ Reads /\ RangeFits /\ Begin >= vol.len
    /\ reading' = "stopped"
    /\ UNCHANGED <<pieces, got>>

\* A checked operation overflows: None.
RangeOverflows ==
    /\ CountSlot
    /\ Reads /\ ~RangeFits
    /\ reading' = "failed"
    /\ UNCHANGED <<pieces, got>>

------------------------------------------------------------------------------
\* overflow_blocks.

\* Without a free slot, audit_extents asks the overflow tree.  A tree that cannot be
\* located delivers no record.
AskOverflow ==
    /\ k = Slots /\ reading # "over"
    /\ extents_full /\ ~asked
    /\ asked' = TRUE
    /\ tree' \in Trees
    /\ UNCHANGED <<vol, fork, k, reading, pieces, got, inline_blocks, extents_full, ideal,
                   passed, pair, overflow, result, mismatch>>

\* The record is one of the file's data fork, and reaches to the end of pair p.
Matches(r) == r.avail >= 12 /\ r.forkType = 0 /\ r.fileID = CNID
PairFits(r, p) == 2 + r.keyLen + 8 * p <= r.avail

HasPair(r) == Matches(r) /\ pair < Slots /\ PairFits(r, pair + 1)

CountPair ==
    /\ asked /\ passed < Len(tree) /\ HasPair(tree[passed + 1])
    /\ overflow' = AtMost(overflow + tree[passed + 1].counts[pair + 1], U32Max)
    /\ pair' = pair + 1
    /\ UNCHANGED <<vol, fork, k, reading, pieces, got, inline_blocks, extents_full, ideal,
                   asked, tree, passed, result, mismatch>>

LeaveRecord ==
    /\ asked /\ passed < Len(tree) /\ ~HasPair(tree[passed + 1])
    /\ passed' = passed + 1 /\ pair' = 0
    /\ UNCHANGED <<vol, fork, k, reading, pieces, got, inline_blocks, extents_full, ideal,
                   asked, tree, overflow, result, mismatch>>

------------------------------------------------------------------------------
needed_blocks(logical, bs) == AtMost((logical + bs - 1) \div bs, U32Max)

\* A mutant of Allocated: the sum wraps around.
Wrapped == (inline_blocks + overflow) % (U32Max + 1)

\* allocated: overflow is 0 unless the tree was asked.
Allocated == AtMost(inline_blocks + overflow, U32Max)

\* data.truncate(logical), and audit_extents' verdict.
Finish ==
    /\ k = Slots /\ reading # "over"
    /\ extents_full => asked /\ passed = Len(tree)
    /\ result' = IF reading = "failed" THEN -1 ELSE AtMost(got, Wanted)
    /\ mismatch' = (Allocated < needed_blocks(fork.logical, vol.block_size))
    /\ reading' = "over"
    /\ UNCHANGED <<vol, fork, k, pieces, got, inline_blocks, extents_full, ideal, overflowVars>>

AskTree == AskOverflow \/ CountPair \/ LeaveRecord

Next == PassSlot \/ ReadExtent \/ BeyondVolume \/ RangeOverflows \/ AskTree \/ Finish

Spec == Init /\ [][Next]_vars
------------------------------------------------------------------------------
TypeOK ==
    /\ vol \in Volumes /\ fork \in Forks
    /\ k \in 0..Slots
    /\ reading \in {"on", "stopped", "failed", "over"}
    /\ pieces \in Seq([at : Nat, from : Nat, len : Nat, ideal : Nat, whole : BOOLEAN])
    /\ got \in Nat /\ ideal \in Nat
    /\ inline_blocks \in 0..U32Max /\ extents_full \in BOOLEAN
    /\ asked \in BOOLEAN /\ tree \in Seq(OverflowRecord) /\ (asked \/ tree = <<>>)
    /\ passed \in 0..Len(tree) /\ pair \in 0..Slots
    /\ overflow \in 0..U32Max
    /\ result \in Nat \cup {-1} /\ mismatch \in BOOLEAN

\* No extent, however wild, takes the reader out of the volume: each slice lies in it, and
\* the pieces add up to the data.
SlicesInVolume ==
    /\ \A i \in DOMAIN pieces : pieces[i].from + pieces[i].len <= vol.len
    /\ \A i \in DOMAIN pieces :
            pieces[i].at + pieces[i].len = IF i = Len(pieces) THEN got ELSE pieces[i + 1].at

\* fork_bytes puts the bytes where they belong as long as the extents before were read in
\* full: free slots are passed over without a gap, and it stops, rather than skip, at an
\* extent behind the volume.
BytesInPlace ==
    \A i \in DOMAIN pieces :
        (\A j \in 1..(i - 1) : pieces[j].whole) => pieces[i].at = pieces[i].ideal

\* The buffer exceeds what was asked for by less than one volume, although every slot may
\* name all of it and the logical size may be any u64.
BufferBounded == got = 0 \/ got < Wanted + vol.len

\* The fork is undamaged but perhaps for its sizes: its extents lie in the volume, and
\* neither its logical size nor the blocks that takes exceed their words.
Sane ==
    /\ \A s \in 1..Slots :
            fork.slots[s].count # 0 =>
                (fork.slots[s].start + fork.slots[s].count) * vol.block_size <= vol.len
    /\ fork.logical <= UsizeMax
    /\ fork.logical <= U32Max * vol.block_size

\* The sums f[1] + ... + f[n].
Sums(f) == LET sum[n \in Nat] == IF n = 0 THEN 0 ELSE sum[n - 1] + f[n] IN sum

\* The blocks the overflow tree gives the file: those of every pair that lies whole in a
\* record of its data fork.
PairBlocks(r) ==
    [p \in Nat |-> IF p \in 1..Slots /\ Matches(r) /\ PairFits(r, p) THEN r.counts[p] ELSE 0]

RecordBlocks(r) == Sums(PairBlocks(r))[Slots]

TreeBlocks(t) == [i \in Nat |-> IF i \in 1..Len(t) THEN RecordBlocks(t[i]) ELSE 0]

OverflowBlocks(t) == Sums(TreeBlocks(t))[Len(t)]

\* The analyzer's verdict foretells the reader's result: of a sane fork
\* CatalogExtentsMismatch is reported when, and only when, read_file returns so much less
\* than the logical size that the blocks of the overflow tree cannot make up for it
\* (three saturating sums, loops left at the first pair cut off, the rounding to blocks and
\* the truncation included).
MismatchIffShortRead ==
    (reading = "over" /\ Sane) =>
        (mismatch <=> result + OverflowBlocks(tree) * vol.block_size < fork.logical)

------------------------------------------------------------------------------
\* What docs say of a fork's bytes, and the code does not do.

\* docs/PRD.md counts "Extents-overflow B-tree lookup for fragmented forks" as covered: a
\* sane fork whose blocks are all accounted for is read to its logical size.
FragmentedForksRead ==
    (reading = "over" /\ Sane /\ ~mismatch) => result = fork.logical
==============================================================================
