------------------------------- MODULE Decmpfs -------------------------------
(***************************************************************************)
(* decompress (core/src/decmpfs.rs) on the inputs read_file gives it, and  *)
(* the analyzer's verdict on the same file (audit_decmpfs in               *)
(* forensic/src/findings.rs).                                              *)
(*                                                                         *)
(* Contents are abstracted to lengths.  What a codec makes of some bytes   *)
(* is open: an error, or any number of bytes up to MaxDecoded (up to the   *)
(* limit it is given, for LZVN), and nothing out of nothing.               *)
(***************************************************************************)
EXTENDS Integers, Sequences

CONSTANTS
    CHUNK_SIZE,     \* uncompressed size of a chunk (65536)
    UsizeMax,       \* largest usize; sizes in headers are u64
    MaxDecoded,     \* bound on what one codec call returns
    Files           \* compressed files: groups [xattrs, forks], any of one with any of the other

\* The fork is no longer than its logical size, and without blocks there is nothing to
\* read (ForkRead); the table entries or end-offsets that lie in it are given.
ASSUME DecmpfsAssumption ==
    /\ CHUNK_SIZE \in Nat \ {0} /\ UsizeMax \in Nat /\ MaxDecoded \in Nat
    /\ \A g \in Files : \A x \in g.xattrs : x.len \in Nat /\ x.size \in Nat
    /\ \A g \in Files : \A r \in g.forks :
        /\ {r.logical, r.blocks, r.len, r.header, r.count} \subseteq Nat
        /\ r.entries \in Seq(Nat \X Nat) /\ r.ends \in Seq(Nat)
        /\ \A n \in 1..r.count : r.header + 8 + 8 * n <= r.len => n \in DOMAIN r.entries
        /\ \A n \in 1..((r.header \div 4) - 1) : 4 + 4 * n <= r.len => n \in DOMAIN r.ends
        /\ r.len <= r.logical
        /\ r.blocks = 0 => r.len = 0

VARIABLES
    xattr,      \* [len, magic, type, size, first]: the header, and the payload's first byte
    rsrc,       \* [logical, blocks, len, header, count, entries, ends]
    pc,         \* "header", "inline", "zlib", "chunks", "check", then "ok" or "err"
    i,          \* loop variable
    src,        \* decode_chunked_resource_fork's `src`
    out,        \* length of the output so far
    spans,      \* history: the parts of the fork decoded, <<from, to>>
    faithful    \* history: every codec call has returned a full chunk, or the remainder

vars == <<xattr, rsrc, pc, i, src, out, spans, faithful>>
input == <<xattr, rsrc>>

HEADER_LEN == 16
Inlined == {1, 3, 7, 9, 11, 13}
InFork == {4, 8, 10, 12, 14}

\* forensicnomicon's table of documented types (5 is known and not in it).
Algorithm(type) ==
    CASE type \in {1, 9, 10} -> "Uncompressed"
      [] type \in {3, 4}     -> "Zlib"
      [] type \in {7, 8}     -> "Lzvn"
      [] type \in {11, 12}   -> "Lzfse"
      [] type \in {13, 14}   -> "LzBitmap"
      [] OTHER               -> "unknown"

\* What a codec may return for n bytes: a length, or -1 for an error.
Decoded(n, bound) == {-1, 0} \cup IF n > 0 THEN 1..bound ELSE {}

Least(a, b) == IF a < b THEN a ELSE b

Alg == Algorithm(xattr.type)
Payload == xattr.len - HEADER_LEN
uncompressed_size == xattr.size % (UsizeMax + 1)

\* read_file passes a resource fork only if its logical size is positive.
HasFork == rsrc.logical > 0

\* The four bytes at an offset lie in the fork.
Readable(off) == off + 4 <= rsrc.len

Init ==
    /\ \E g \in Files : xattr \in g.xattrs /\ rsrc \in g.forks
    /\ pc = "header"
    /\ i = 0 /\ src = 0 /\ out = 0
    /\ spans = <<>> /\ faithful = TRUE

Fail == pc' = "err" /\ UNCHANGED <<input, i, src, out, spans, faithful>>

------------------------------------------------------------------------------
\* The header: the errors of decompress, and of the two fork formats' own headers.

HeaderOK ==
    /\ xattr.len >= HEADER_LEN
    /\ xattr.magic
    /\ xattr.type \in Inlined \cup InFork
    /\ Alg # "LzBitmap"

\* decode_zlib_resource_fork: headerSize, and behind the size prefix the block count.
Table == rsrc.header + 4
ZlibHeaderOK == Readable(0) /\ Table <= UsizeMax /\ Readable(Table)

\* decode_chunked_resource_fork: headerSize also says how many slots follow it.
n_slots == (rsrc.header \div 4) - 1
ChunkHeaderOK == Readable(0) /\ n_slots >= 0

IsInline == HeaderOK /\ xattr.type \in Inlined
IsZlibFork == HeaderOK /\ xattr.type = 4 /\ HasFork /\ ZlibHeaderOK
IsChunkedFork == HeaderOK /\ xattr.type \in InFork \ {4} /\ HasFork /\ ChunkHeaderOK

RejectHeader ==
    /\ pc = "header"
    /\ ~IsInline /\ ~IsZlibFork /\ ~IsChunkedFork
    /\ Fail

AcceptHeader ==
    /\ pc = "header"
    /\ \/ IsInline /\ pc' = "inline" /\ UNCHANGED src
       \/ IsZlibFork /\ pc' = "zlib" /\ UNCHANGED src
       \/ IsChunkedFork /\ pc' = "chunks" /\ src' = rsrc.header
    /\ UNCHANGED <<input, i, out, spans, faithful>>

------------------------------------------------------------------------------
\* decode_inline.  A payload stored verbatim loses its marker byte, if it has one.

Verbatim ==
    CASE Alg = "Uncompressed" -> TRUE
      [] Alg = "Zlib"         -> Payload > 0 /\ xattr.first = "FF"
      [] Alg = "Lzvn"         -> Payload > 0 /\ xattr.first = "06"
      [] OTHER                -> FALSE

VerbatimLen ==
    IF xattr.type = 1 THEN Payload
    ELSE IF Payload > 0 THEN Payload - 1 ELSE 0

InlineDecoded ==
    IF Verbatim THEN {VerbatimLen}
    ELSE Decoded(Payload, IF Alg = "Lzvn"
                          THEN Least(Least(uncompressed_size, CHUNK_SIZE), MaxDecoded)
                          ELSE MaxDecoded)

Inline ==
    /\ pc = "inline"
    /\ \E n \in InlineDecoded :
        IF n = -1 THEN Fail
        ELSE /\ out' = n
             /\ pc' = "check"
             /\ UNCHANGED <<input, i, src, spans, faithful>>

------------------------------------------------------------------------------
\* One part of the fork is decoded to n bytes and appended.
Take(from, to, n) ==
    /\ out' = out + n
    /\ spans' = Append(spans, <<from, to>>)
    /\ faithful' = (faithful /\ n = Least(CHUNK_SIZE, uncompressed_size - out))
    /\ i' = i + 1

\* decode_zlib_resource_fork: block i of the table, relative to the table itself.
EntryOffset == Table + 4 + i * 8
BlockFrom == Table + rsrc.entries[i + 1][1]
BlockTo == BlockFrom + rsrc.entries[i + 1][2]

\* A mutant of BlockReadable: a block may end behind the fork.
BlockInUsize ==
    /\ Readable(EntryOffset) /\ Readable(EntryOffset + 4)
    /\ BlockTo <= UsizeMax

BlockReadable ==
    /\ Readable(EntryOffset) /\ Readable(EntryOffset + 4)
    /\ BlockTo <= UsizeMax /\ BlockTo <= rsrc.len

ZlibBlock ==
    /\ pc = "zlib" /\ i < rsrc.count
    /\ IF BlockReadable
       THEN \E n \in Decoded(BlockTo - BlockFrom, MaxDecoded) :
                IF n = -1 THEN Fail
                ELSE Take(BlockFrom, BlockTo, n) /\ UNCHANGED <<input, pc, src>>
       ELSE Fail

ZlibEnd ==
    /\ pc = "zlib" /\ i = rsrc.count
    /\ pc' = "check"
    /\ UNCHANGED <<input, i, src, out, spans, faithful>>

\* A mutant of MoreChunks: every slot is decoded, the zero padding too.
AllSlots == i < n_slots

\* The loop of decode_chunked_resource_fork goes on: a slot is left and bytes are missing.
MoreChunks == i < n_slots /\ out < uncompressed_size

ChunkEnd == rsrc.ends[i + 1]

\* A mutant of ChunkReadable: a chunk may end behind the fork and is cut off there.
ChunkAnywhere == Readable(4 + i * 4) /\ src <= ChunkEnd

\* A mutant of ChunkReadable: a chunk may end before it starts.
ChunkInFork == Readable(4 + i * 4) /\ ChunkEnd <= rsrc.len

ChunkReadable == Readable(4 + i * 4) /\ src <= ChunkEnd /\ ChunkEnd <= rsrc.len

ChunkDecoded ==
    LET missing == uncompressed_size - out
        length == ChunkEnd - src
    IN CASE Alg = "Lzvn"  -> Decoded(length, Least(Least(missing, CHUNK_SIZE), MaxDecoded))
         [] Alg = "Lzfse" -> Decoded(length, MaxDecoded)
         [] OTHER         -> {length}

Chunk ==
    /\ pc = "chunks" /\ MoreChunks
    /\ IF ChunkReadable
       THEN \E n \in ChunkDecoded :
                IF n = -1 THEN Fail
                ELSE Take(src, ChunkEnd, n) /\ src' = ChunkEnd /\ UNCHANGED <<input, pc>>
       ELSE Fail

ChunksEnd ==
    /\ pc = "chunks" /\ ~MoreChunks
    /\ pc' = "check"
    /\ UNCHANGED <<input, i, src, out, spans, faithful>>

LengthOK == out = uncompressed_size

\* The last test of decompress.
Check ==
    /\ pc = "check"
    /\ pc' = IF LengthOK THEN "ok" ELSE "err"
    /\ UNCHANGED <<input, i, src, out, spans, faithful>>

Next ==
    RejectHeader \/ AcceptHeader \/ Inline \/ ZlibBlock \/ ZlibEnd \/ Chunk \/ ChunksEnd \/ Check

Spec == Init /\ [][Next]_vars

------------------------------------------------------------------------------
\* A mutant of Flagged: an attribute that is all header is taken for a payload.
FlaggedForks ==
    \/ xattr.len < HEADER_LEN
    \/ xattr.type \notin Inlined \cup InFork
    \/ xattr.type \in InFork /\ rsrc.logical = 0
    \/ xattr.type \in Inlined /\ xattr.len >= HEADER_LEN

\* audit_decmpfs reports DecmpfsMissingResource (the magic it does not look at).
Flagged ==
    \/ xattr.len < HEADER_LEN
    \/ xattr.type \notin Inlined \cup InFork
    \/ xattr.type \in InFork /\ (rsrc.logical = 0 \/ rsrc.blocks = 0)
    \/ xattr.type \in Inlined /\ xattr.len = HEADER_LEN

TypeOK ==
    /\ \E g \in Files : xattr \in g.xattrs /\ rsrc \in g.forks
    /\ pc \in {"header", "inline", "zlib", "chunks", "check", "ok", "err"}
    /\ i \in Nat /\ src \in Nat /\ out \in Nat
    /\ spans \in Seq((0..rsrc.len) \X (0..rsrc.len)) /\ faithful \in BOOLEAN

\* The chunks of a fork tile it from the end of the header on, with no gap, no overlap and
\* none outside the fork, although every end-offset is taken from the fork itself.
ChunksTileTheFork ==
    (xattr.type \in InFork /\ Alg # "Zlib") =>
        \A s \in DOMAIN spans :
            /\ spans[s][1] = IF s = 1 THEN rsrc.header ELSE spans[s - 1][2]
            /\ spans[s][1] <= spans[s][2] /\ spans[s][2] <= rsrc.len

\* A chunked fork as compressors write it: as many chunks as the size takes, in order and
\* in the fork; the slots behind them hold zeros.
ChunkCount == (uncompressed_size + CHUNK_SIZE - 1) \div CHUNK_SIZE

ChunkInPlace(s) ==
    /\ (IF s = 1 THEN rsrc.header ELSE rsrc.ends[s - 1]) <= rsrc.ends[s]
    /\ rsrc.ends[s] <= rsrc.len

ListWhole == ChunkCount <= n_slots /\ \A s \in 1..ChunkCount : ChunkInPlace(s)

WellFormedChunks == IsChunkedFork /\ rsrc.header <= rsrc.len /\ ListWhole

\* "It never returns a partially-decoded buffer as success": nothing but the length of the
\* output is tested in the end, and still no part of a file can be missing from one that is
\* delivered.  A zlib fork has every block of its table decoded; chunks that decode to what
\* was compressed are all there, as many as the size takes, each in the fork and in order;
\* LZVN, which is told how much may come out, cannot make up for a missing chunk by the
\* others; and stored bytes are those that follow the header, as many as declared.
NothingLeftOut ==
    pc = "ok" =>
        /\ IsZlibFork => Len(spans) = rsrc.count
        /\ IsChunkedFork /\ faithful => ListWhole /\ Len(spans) = ChunkCount
        /\ IsChunkedFork /\ Alg = "Lzvn" => ChunkCount <= Len(spans)
        /\ IsChunkedFork /\ Alg = "Uncompressed" => src = rsrc.header + uncompressed_size

\* The loop "stops once it has produced that many bytes, never reading a zero-padding
\* slot": when each chunk decodes to a full chunk or the remainder, no slot beyond the
\* last chunk is looked at, and the file is never refused for its length or its bounds.
PaddingNeverRead ==
    WellFormedChunks /\ faithful =>
        /\ i <= ChunkCount
        /\ pc = "check" => LengthOK
        /\ pc = "chunks" /\ MoreChunks => ChunkReadable

\* The work a fork can cause is bounded by its own length, not by the counts in it: each
\* block or chunk needs an entry that was read from the fork, and the chunked formats
\* decode at most one chunk past the declared size.
WorkBounded ==
    /\ xattr.type \in InFork => 4 * Len(spans) <= rsrc.len
    /\ (xattr.type \in InFork /\ Alg \in {"Lzvn", "Lzfse"} /\ spans # <<>>)
            => out < uncompressed_size + MaxDecoded

\* A flagged file with content cannot be materialized: whatever audit_decmpfs reports,
\* read_file fails on, if the file is not declared empty.
FlaggedCannotDecode == (pc = "ok" /\ Flagged) => uncompressed_size = 0
==============================================================================
