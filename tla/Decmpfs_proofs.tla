--------------------------- MODULE Decmpfs_proofs ---------------------------
(***************************************************************************)
(* Decmpfs for every chunk size, every file, every table and whatever the  *)
(* codecs return.                                                          *)
(***************************************************************************)
EXTENDS Decmpfs, TLAPS

InputOK == \E g \in Files : xattr \in g.xattrs /\ rsrc \in g.forks

\* What the assumption says of the file that is decoded: its numbers, and its tables.
LEMMA InputNumbers ==
    ASSUME InputOK
    PROVE  /\ xattr.len \in Nat /\ uncompressed_size \in Nat
           /\ rsrc.logical \in Nat /\ rsrc.blocks \in Nat /\ rsrc.len \in Nat
           /\ rsrc.header \in Nat /\ rsrc.count \in Nat
           /\ n_slots \in Int
           /\ rsrc.blocks = 0 => rsrc.len = 0
           /\ MaxDecoded \in Nat /\ CHUNK_SIZE \in Nat \ {0}
<1>1. PICK g \in Files : xattr \in g.xattrs /\ rsrc \in g.forks
  BY DEF InputOK
<1>2. xattr.len \in Nat /\ xattr.size \in Nat
  BY <1>1, DecmpfsAssumption
<1>3. uncompressed_size \in Nat
  BY <1>2, DecmpfsAssumption DEF uncompressed_size
<1>4. {rsrc.logical, rsrc.blocks, rsrc.len, rsrc.header, rsrc.count} \subseteq Nat
  BY <1>1, DecmpfsAssumption
<1>5. n_slots \in Int
  BY <1>4 DEF n_slots
<1>6. rsrc.blocks = 0 => rsrc.len = 0
  BY <1>1, DecmpfsAssumption
<1> QED BY <1>2, <1>3, <1>4, <1>5, <1>6, DecmpfsAssumption

\* The entries a loop reads are numbers where they lie in the fork.
LEMMA InputTables ==
    ASSUME InputOK
    PROVE  /\ \A n \in 1..rsrc.count :
                rsrc.header + 8 + 8 * n <= rsrc.len =>
                    /\ rsrc.entries[n] \in Nat \X Nat
                    /\ rsrc.entries[n][1] \in Nat /\ rsrc.entries[n][2] \in Nat
           /\ \A n \in 1..n_slots : 4 + 4 * n <= rsrc.len => rsrc.ends[n] \in Nat
<1>1. PICK g \in Files : xattr \in g.xattrs /\ rsrc \in g.forks
  BY DEF InputOK
<1>2. /\ rsrc.entries \in Seq(Nat \X Nat) /\ rsrc.ends \in Seq(Nat)
      /\ \A n \in 1..rsrc.count :
            rsrc.header + 8 + 8 * n <= rsrc.len => n \in DOMAIN rsrc.entries
      /\ \A n \in 1..((rsrc.header \div 4) - 1) : 4 + 4 * n <= rsrc.len => n \in DOMAIN rsrc.ends
  BY <1>1, DecmpfsAssumption
<1>3. ASSUME NEW n \in 1..rsrc.count, rsrc.header + 8 + 8 * n <= rsrc.len
      PROVE  /\ rsrc.entries[n] \in Nat \X Nat
             /\ rsrc.entries[n][1] \in Nat /\ rsrc.entries[n][2] \in Nat
  <2>1. rsrc.entries[n] \in Nat \X Nat
    BY <1>2, <1>3
  <2> QED BY <2>1
<1>4. ASSUME NEW n \in 1..n_slots, 4 + 4 * n <= rsrc.len PROVE rsrc.ends[n] \in Nat
  BY <1>2, <1>4 DEF n_slots
<1> QED BY <1>3, <1>4

\* A codec's answer is an error or a length, which no bound it is given exceeds.
LEMMA DecodedLength ==
    ASSUME NEW n \in Int, NEW bound \in Nat, NEW r \in Decoded(n, bound)
    PROVE  r = -1 \/ (r \in 0..bound /\ (n <= 0 => r = 0))
BY DEF Decoded

\* One block of a zlib fork that decodes.
LEMMA BlockTaken ==
    ASSUME InputOK, i \in Nat, i < rsrc.count, BlockReadable,
           NEW n \in Decoded(BlockTo - BlockFrom, MaxDecoded), n # -1
    PROVE  /\ n \in 0..MaxDecoded
           /\ BlockFrom \in 0..rsrc.len /\ BlockTo \in 0..rsrc.len
           /\ 4 * (i + 1) <= rsrc.len
<1>1. i + 1 \in 1..rsrc.count /\ rsrc.header + 8 + 8 * (i + 1) <= rsrc.len
  BY InputNumbers DEF BlockReadable, Readable, EntryOffset, Table
<1> DEFINE entry == rsrc.entries[i + 1]
<1>4. entry[1] \in Nat /\ entry[2] \in Nat
  BY <1>1, InputTables
<1> HIDE DEF entry
<1>5. BlockFrom = rsrc.header + 4 + entry[1] /\ BlockTo = rsrc.header + 4 + entry[1] + entry[2]
  BY DEF BlockFrom, BlockTo, Table, entry
<1>6. BlockTo <= rsrc.len
  BY DEF BlockReadable
<1>7. n \in 0..MaxDecoded
  BY <1>4, <1>5, DecodedLength, DecmpfsAssumption, InputNumbers
<1> QED BY <1>1, <1>4, <1>5, <1>6, <1>7, InputNumbers

\* One chunk that decodes, to at most what its codec may return.
LEMMA ChunkTaken ==
    ASSUME InputOK, i \in Nat, src \in Nat, out \in Nat, MoreChunks, ChunkReadable,
           NEW n \in ChunkDecoded, n # -1
    PROVE  /\ n \in Nat
           /\ Alg \in {"Lzvn", "Lzfse"} => n <= MaxDecoded
           /\ Alg = "Lzvn" => n <= CHUNK_SIZE
           /\ Alg = "Uncompressed" => n = ChunkEnd - src
           /\ src \in 0..rsrc.len /\ ChunkEnd \in 0..rsrc.len /\ src <= ChunkEnd
           /\ 4 * (i + 1) <= rsrc.len
<1>1. i + 1 \in 1..n_slots /\ 4 + 4 * (i + 1) <= rsrc.len
  BY InputNumbers DEF MoreChunks, ChunkReadable, Readable
<1>2. ChunkEnd \in Nat /\ src <= ChunkEnd /\ ChunkEnd <= rsrc.len
  BY <1>1, InputTables DEF ChunkEnd, ChunkReadable
<1> DEFINE length == ChunkEnd - src
           limit == Least(Least(uncompressed_size - out, CHUNK_SIZE), MaxDecoded)
<1>3. length \in Nat /\ MaxDecoded \in Nat /\ limit \in 0..MaxDecoded /\ limit <= CHUNK_SIZE
  <2>1. MaxDecoded \in Nat /\ CHUNK_SIZE \in Nat /\ uncompressed_size - out \in Nat
    BY InputNumbers DEF MoreChunks
  <2>2. limit \in 0..MaxDecoded /\ limit <= CHUNK_SIZE
    BY <2>1 DEF Least
  <2>3. length \in Nat
    BY <1>2
  <2> QED BY <2>1, <2>2, <2>3
<1>4. CASE Alg = "Lzvn"
  <2>1. n \in Decoded(length, limit)
    BY <1>4 DEF ChunkDecoded
  <2> HIDE DEF length, limit
  <2> QED BY <1>1, <1>2, <1>3, <1>4, <2>1, DecodedLength, InputNumbers
<1>5. CASE Alg = "Lzfse"
  <2>1. n \in Decoded(length, MaxDecoded)
    BY <1>5 DEF ChunkDecoded
  <2> HIDE DEF length
  <2> QED BY <1>1, <1>2, <1>3, <1>5, <2>1, DecodedLength, InputNumbers
<1>6. CASE Alg \notin {"Lzvn", "Lzfse"}
  <2>1. n = length
    BY <1>6 DEF ChunkDecoded
  <2> QED BY <1>1, <1>2, <1>3, <1>6, <2>1, InputNumbers
<1> QED BY <1>4, <1>5, <1>6

------------------------------------------------------------------------------
\* What each action does, with the bounds on what it decodes.

\* A turn of decode_zlib_resource_fork's loop.
LEMMA ZlibBlockStep ==
    ASSUME TypeOK, ZlibBlock
    PROVE  /\ pc = "zlib" /\ UNCHANGED <<input, src>>
           /\ \/ pc' = "err" /\ UNCHANGED <<i, out, spans, faithful>>
              \/ /\ pc' = pc /\ i' = i + 1
                 /\ \E n \in 0..MaxDecoded : out' = out + n
                 /\ \E p \in (0..rsrc.len) \X (0..rsrc.len) : spans' = Append(spans, p)
                 /\ faithful' \in BOOLEAN
                 /\ 4 * (i + 1) <= rsrc.len
<1>1. InputOK /\ i \in Nat
  BY DEF TypeOK, InputOK
<1>2. CASE Fail
  BY <1>2 DEF ZlibBlock, Fail, input
<1>3. ASSUME BlockReadable, NEW n \in Decoded(BlockTo - BlockFrom, MaxDecoded), n # -1,
             Take(BlockFrom, BlockTo, n), UNCHANGED <<input, pc, src>>
      PROVE  /\ i' = i + 1 /\ out' = out + n /\ n \in 0..MaxDecoded
             /\ spans' = Append(spans, <<BlockFrom, BlockTo>>)
             /\ <<BlockFrom, BlockTo>> \in (0..rsrc.len) \X (0..rsrc.len)
             /\ faithful' \in BOOLEAN
             /\ 4 * (i + 1) <= rsrc.len
  <2>1. i < rsrc.count
    BY DEF ZlibBlock
  <2>2. /\ n \in 0..MaxDecoded
        /\ BlockFrom \in 0..rsrc.len /\ BlockTo \in 0..rsrc.len
        /\ 4 * (i + 1) <= rsrc.len
    BY <1>1, <1>3, <2>1, BlockTaken
  <2>3. faithful' \in BOOLEAN
    BY <1>3 DEF Take, TypeOK
  <2> QED BY <1>3, <2>2, <2>3 DEF Take
<1> QED BY <1>2, <1>3 DEF ZlibBlock

\* A turn of decode_chunked_resource_fork's loop.
LEMMA ChunkStep ==
    ASSUME TypeOK, Chunk
    PROVE  /\ pc = "chunks" /\ UNCHANGED input
           /\ \/ pc' = "err" /\ UNCHANGED <<i, src, out, spans, faithful>>
              \/ /\ pc' = pc /\ i' = i + 1 /\ src' = ChunkEnd /\ MoreChunks
                 /\ \E n \in Nat :
                    /\ out' = out + n
                    /\ Alg \in {"Lzvn", "Lzfse"} => n <= MaxDecoded
                    /\ Alg = "Lzvn" => n <= CHUNK_SIZE
                    /\ Alg = "Uncompressed" => n = ChunkEnd - src
                    /\ faithful' = (faithful /\ n = Least(CHUNK_SIZE, uncompressed_size - out))
                 /\ spans' = Append(spans, <<src, ChunkEnd>>)
                 /\ src \in 0..rsrc.len /\ ChunkEnd \in 0..rsrc.len /\ src <= ChunkEnd
                 /\ 4 * (i + 1) <= rsrc.len
<1>1. InputOK /\ i \in Nat /\ src \in Nat /\ out \in Nat
  BY DEF TypeOK, InputOK
<1>2. CASE Fail
  BY <1>2 DEF Chunk, Fail, input
<1>3. ASSUME ChunkReadable, NEW n \in ChunkDecoded, n # -1, Take(src, ChunkEnd, n),
             src' = ChunkEnd, UNCHANGED <<input, pc>>
      PROVE  /\ i' = i + 1 /\ out' = out + n /\ n \in Nat
             /\ Alg \in {"Lzvn", "Lzfse"} => n <= MaxDecoded
             /\ Alg = "Lzvn" => n <= CHUNK_SIZE
             /\ Alg = "Uncompressed" => n = ChunkEnd - src
             /\ faithful' = (faithful /\ n = Least(CHUNK_SIZE, uncompressed_size - out))
             /\ spans' = Append(spans, <<src, ChunkEnd>>)
             /\ src \in 0..rsrc.len /\ ChunkEnd \in 0..rsrc.len /\ src <= ChunkEnd
             /\ 4 * (i + 1) <= rsrc.len
  <2>1. MoreChunks
    BY DEF Chunk
  <2> QED BY <1>1, <1>3, <2>1, ChunkTaken DEF Take
<1> QED BY <1>2, <1>3 DEF Chunk

\* decode_inline fails, or decides the output at once.
LEMMA InlineStep ==
    ASSUME TypeOK, Inline
    PROVE  /\ pc = "inline" /\ UNCHANGED <<input, i, src, spans, faithful>>
           /\ \/ pc' = "err" /\ out' = out
              \/ \E n \in InlineDecoded : n # -1 /\ out' = n /\ pc' = "check"
BY DEF Inline, Fail

\* No payload, no content: a codec makes nothing out of nothing.
LEMMA InlineLength ==
    ASSUME InputOK, xattr.len >= HEADER_LEN, NEW n \in InlineDecoded, n # -1
    PROVE  n \in Nat /\ (xattr.len = HEADER_LEN => n = 0)
<1>1. Payload \in Nat /\ (xattr.len = HEADER_LEN <=> Payload = 0)
  BY InputNumbers DEF Payload, HEADER_LEN
<1>2. CASE Verbatim
  BY <1>1, <1>2 DEF InlineDecoded, VerbatimLen
<1>3. CASE ~Verbatim
  <2> DEFINE limit == IF Alg = "Lzvn"
                      THEN Least(Least(uncompressed_size, CHUNK_SIZE), MaxDecoded)
                      ELSE MaxDecoded
  <2>1. limit \in Nat
    BY InputNumbers DEF Least
  <2>2. n \in Decoded(Payload, limit)
    BY <1>3 DEF InlineDecoded
  <2> HIDE DEF limit
  <2>3. n \in 0..limit /\ (Payload <= 0 => n = 0)
    BY <1>1, <1>3, <2>1, <2>2, DecodedLength
  <2> QED BY <1>1, <2>1, <2>3
<1> QED BY <1>2, <1>3

------------------------------------------------------------------------------
\* Which decoder runs, on which storage.
Routed ==
    /\ pc = "header" => i = 0 /\ src = 0 /\ out = 0 /\ spans = <<>> /\ faithful
    /\ pc = "inline" => IsInline /\ spans = <<>> /\ i = 0
    /\ pc = "zlib" => IsZlibFork
    /\ pc = "chunks" => IsChunkedFork
    /\ pc \in {"check", "ok"} => IsInline \/ IsZlibFork \/ IsChunkedFork

\* The input never changes, and neither does what is computed from it alone.
LEMMA InputKept ==
    ASSUME UNCHANGED input
    PROVE  /\ xattr' = xattr /\ rsrc' = rsrc /\ Alg' = Alg
           /\ uncompressed_size' = uncompressed_size
           /\ IsInline' = IsInline /\ IsZlibFork' = IsZlibFork
           /\ IsChunkedFork' = IsChunkedFork
<1>1. xattr' = xattr /\ rsrc' = rsrc
  BY DEF input
<1> QED BY <1>1 DEF Alg, uncompressed_size, IsInline, IsZlibFork, IsChunkedFork, HeaderOK, HasFork,
       ZlibHeaderOK, ChunkHeaderOK, Readable, Table, n_slots

\* Types and routes are inductive together: a decoder's types hold on the forks routed to it.
LEMMA TypesAndRoutes == Spec => [](TypeOK /\ Routed)
<1>1. Init => TypeOK /\ Routed
  BY DEF Init, TypeOK, Routed
<1>2. TypeOK /\ Routed /\ [Next]_vars => (TypeOK /\ Routed)'
  <2> SUFFICES ASSUME TypeOK, Routed, [Next]_vars PROVE (TypeOK /\ Routed)'
    OBVIOUS
  <2>0. InputOK
    BY DEF TypeOK, InputOK
  <2>1. CASE RejectHeader
    <3>1. UNCHANGED <<input, i, src, out, spans, faithful>> /\ pc' = "err"
      BY <2>1 DEF RejectHeader, Fail
    <3> QED BY <3>1 DEF TypeOK, Routed, input
  <2>2. CASE AcceptHeader
    <3>1. UNCHANGED <<input, i, out, spans, faithful>> /\ pc = "header"
      BY <2>2 DEF AcceptHeader
    <3>2. \/ IsInline /\ pc' = "inline" /\ src' = src
          \/ IsZlibFork /\ pc' = "zlib" /\ src' = src
          \/ IsChunkedFork /\ pc' = "chunks" /\ src' = rsrc.header
      BY <2>2 DEF AcceptHeader
    <3>3. src' \in Nat
      BY <2>0, <3>2, InputNumbers DEF TypeOK
    <3>4. TypeOK'
      BY <3>1, <3>2, <3>3, InputKept DEF TypeOK
    <3> QED BY <3>1, <3>2, <3>4, InputKept DEF Routed
  <2>3. CASE Inline
    <3>1. /\ pc = "inline" /\ UNCHANGED <<input, i, src, spans, faithful>>
          /\ \/ pc' = "err" /\ out' = out
             \/ out' \in Nat /\ pc' = "check"
      BY <2>0, <2>3, InlineStep, InlineLength DEF Routed, IsInline, HeaderOK
    <3> QED BY <3>1, InputKept DEF TypeOK, Routed
  <2>4. CASE ZlibBlock
    <3>1. pc = "zlib" /\ UNCHANGED <<input, src>> /\ pc' \in {"zlib", "err"}
      BY <2>4, ZlibBlockStep
    <3>2. CASE pc' = "err" /\ UNCHANGED <<i, out, spans, faithful>>
      BY <3>1, <3>2, InputKept DEF TypeOK, Routed
    <3>3. ASSUME NEW n \in 0..MaxDecoded, NEW p \in (0..rsrc.len) \X (0..rsrc.len),
                 i' = i + 1, out' = out + n, spans' = Append(spans, p), faithful' \in BOOLEAN
          PROVE  (TypeOK /\ Routed)'
      <4>1. i' \in Nat /\ out' \in Nat
        BY <2>0, <3>3, InputNumbers DEF TypeOK
      <4>2. spans' \in Seq((0..rsrc.len) \X (0..rsrc.len))
        BY <3>3 DEF TypeOK
      <4> QED BY <3>1, <3>3, <4>1, <4>2, InputKept DEF TypeOK, Routed
    <3> QED BY <2>4, <3>2, <3>3, ZlibBlockStep
  <2>5. CASE Chunk
    <3>1. pc = "chunks" /\ UNCHANGED input /\ pc' \in {"chunks", "err"}
      BY <2>5, ChunkStep
    <3>2. CASE pc' = "err" /\ UNCHANGED <<i, src, out, spans, faithful>>
      BY <3>1, <3>2, InputKept DEF TypeOK, Routed
    <3>3. ASSUME NEW n \in Nat, i' = i + 1, out' = out + n, src' = ChunkEnd,
                 src \in 0..rsrc.len, ChunkEnd \in 0..rsrc.len,
                 spans' = Append(spans, <<src, ChunkEnd>>), faithful' \in BOOLEAN
          PROVE  (TypeOK /\ Routed)'
      <4>1. i' \in Nat /\ out' \in Nat /\ src' \in Nat
        BY <2>0, <3>3, InputNumbers DEF TypeOK
      <4>2. spans' \in Seq((0..rsrc.len) \X (0..rsrc.len))
        BY <3>3 DEF TypeOK
      <4> QED BY <3>1, <3>3, <4>1, <4>2, InputKept DEF TypeOK, Routed
    <3> QED BY <2>5, <3>2, <3>3, ChunkStep DEF TypeOK
  <2>6. CASE ZlibEnd \/ ChunksEnd \/ Check
    <3>1. /\ UNCHANGED <<input, i, src, out, spans, faithful>>
          /\ \/ pc = "zlib" /\ pc' = "check"
             \/ pc = "chunks" /\ pc' = "check"
             \/ pc = "check" /\ pc' \in {"ok", "err"}
      BY <2>6 DEF ZlibEnd, ChunksEnd, Check
    <3> QED BY <3>1, InputKept DEF TypeOK, Routed
  <2>7. CASE UNCHANGED vars
    <3>1. UNCHANGED <<input, pc, i, src, out, spans, faithful>>
      BY <2>7 DEF vars, input
    <3> QED BY <3>1, InputKept DEF TypeOK, Routed
  <2> QED BY <2>1, <2>2, <2>3, <2>4, <2>5, <2>6, <2>7 DEF Next
<1> QED BY <1>1, <1>2, PTL DEF Spec

\* Types, and every part decoded lies in the fork.
THEOREM TypeCorrect == Spec => []TypeOK
BY TypesAndRoutes, PTL

\* A file is delivered only behind the comparison of lengths.
LengthTested == pc = "ok" => out = uncompressed_size

LEMMA LengthIsTested == Spec => []LengthTested
<1>1. Init => LengthTested
  BY DEF Init, LengthTested
<1>2. LengthTested /\ [Next]_vars => LengthTested'
  <2> SUFFICES ASSUME LengthTested, [Next]_vars, pc' = "ok" PROVE (out = uncompressed_size)'
    BY DEF LengthTested
  <2>1. CASE Check
    BY <2>1 DEF Check, LengthOK, uncompressed_size, input
  <2>2. CASE UNCHANGED vars
    BY <2>2 DEF vars, LengthTested, uncompressed_size
  <2>3. ~(RejectHeader \/ AcceptHeader \/ Inline \/ ZlibBlock \/ ZlibEnd \/ Chunk \/ ChunksEnd)
    BY Zenon DEF RejectHeader, AcceptHeader, Inline, ZlibBlock, ZlibEnd, Chunk, ChunksEnd, Fail, Take
  <2> QED BY <2>1, <2>2, <2>3 DEF Next
<1> QED BY <1>1, <1>2, PTL DEF Spec

------------------------------------------------------------------------------
\* The three storages exclude each other, and so do the two fork formats.
LEMMA Storages ==
    /\ IsInline => xattr.type \notin InFork /\ ~IsZlibFork /\ ~IsChunkedFork
    /\ IsZlibFork => xattr.type = 4 /\ Alg = "Zlib" /\ ~IsChunkedFork
    /\ IsChunkedFork => xattr.type \in InFork
BY DEF IsInline, IsZlibFork, IsChunkedFork, InFork, Inlined, Alg, Algorithm

\* The steps that decode nothing: they leave the output alone, and only ends of loops and
\* the header lead on.
LEMMA OtherSteps ==
    ASSUME TypeOK, Routed,
           RejectHeader \/ AcceptHeader \/ Inline \/ ZlibEnd \/ ChunksEnd \/ Check \/ UNCHANGED vars
    PROVE  /\ UNCHANGED <<input, i, spans, faithful>>
           /\ pc' = "zlib" => pc = "zlib" \/ (pc = "header" /\ IsZlibFork)
           /\ pc' = "chunks" =>
                \/ pc = "chunks" /\ UNCHANGED <<src, out>>
                \/ pc = "header" /\ IsChunkedFork /\ src' = rsrc.header /\ UNCHANGED out
           /\ pc' = "check" =>
                \/ pc = "check" /\ UNCHANGED out
                \/ pc = "inline"
                \/ pc = "zlib" /\ i = rsrc.count /\ UNCHANGED out
                \/ pc = "chunks" /\ ~MoreChunks /\ UNCHANGED out
           /\ pc' \in {"check", "ok"} => UNCHANGED src
           /\ out' # out => pc = "inline"
           /\ pc' \in {"header", "inline"} => pc \in {"header", "inline"} /\ UNCHANGED out
           /\ pc' = "ok" => pc \in {"check", "ok"} /\ UNCHANGED out
<1>1. CASE RejectHeader
  BY <1>1 DEF RejectHeader, Fail
<1>2. CASE AcceptHeader
  BY <1>2 DEF AcceptHeader
<1>3. CASE Inline
  BY <1>3, InlineStep
<1>4. CASE ZlibEnd
  BY <1>4 DEF ZlibEnd
<1>5. CASE ChunksEnd
  BY <1>5 DEF ChunksEnd
<1>6. CASE Check
  BY <1>6 DEF Check
<1>7. CASE UNCHANGED vars
  <2>1. /\ UNCHANGED <<input, i, spans, faithful>>
        /\ pc' = pc /\ src' = src /\ out' = out
    BY <1>7 DEF vars, input
  <2> QED BY <2>1
<1> QED BY <1>1, <1>2, <1>3, <1>4, <1>5, <1>6, <1>7

\* The loop over the slots starts where the last chunk decoded ended.
Tiled ==
    /\ ChunksTileTheFork
    /\ pc = "header" => spans = <<>>
    /\ pc = "chunks" => src = IF spans = <<>> THEN rsrc.header ELSE spans[Len(spans)][2]

\* The chunks decoded tile the fork from the header on, in every state and for every fork.
THEOREM ChunksTile == Spec => []ChunksTileTheFork
<1>1. Init => Tiled
  BY DEF Init, Tiled, ChunksTileTheFork
<1>2. TypeOK /\ Routed /\ Tiled /\ [Next]_vars => Tiled'
  <2> SUFFICES ASSUME TypeOK, Routed, Tiled, [Next]_vars PROVE Tiled'
    OBVIOUS
  <2>1. ASSUME RejectHeader \/ AcceptHeader \/ Inline \/ ZlibEnd \/ ChunksEnd \/ Check
               \/ UNCHANGED vars
        PROVE  Tiled'
    <3>1. UNCHANGED <<input, spans>>
      BY <2>1, OtherSteps
    <3>2. ChunksTileTheFork'
      BY <3>1, InputKept DEF Tiled, ChunksTileTheFork
    <3>3. pc' = "header" => spans' = <<>>
      BY <2>1, <3>1, OtherSteps DEF Tiled, Routed
    <3>4. pc' = "chunks" => src' = IF spans' = <<>> THEN rsrc'.header ELSE spans'[Len(spans')][2]
      BY <2>1, <3>1, InputKept, OtherSteps DEF Tiled
    <3> QED BY <3>2, <3>3, <3>4 DEF Tiled
  <2>2. CASE ZlibBlock
    <3>1. pc = "zlib" /\ pc' \in {"zlib", "err"} /\ UNCHANGED input
      BY <2>2, ZlibBlockStep
    <3>2. Alg = "Zlib"
      BY <3>1, Storages DEF Routed
    <3> QED BY <3>1, <3>2, InputKept DEF Tiled, ChunksTileTheFork
  <2>3. CASE Chunk
    <3>1. pc = "chunks" /\ UNCHANGED input
      BY <2>3, ChunkStep
    <3>2. CASE pc' = "err" /\ UNCHANGED spans
      BY <3>1, <3>2, InputKept DEF Tiled, ChunksTileTheFork
    <3>3. ASSUME pc' = pc, src' = ChunkEnd, spans' = Append(spans, <<src, ChunkEnd>>),
                 src \in 0..rsrc.len, ChunkEnd \in 0..rsrc.len, src <= ChunkEnd
          PROVE  Tiled'
      <4> DEFINE Part == (0..rsrc.len) \X (0..rsrc.len)
                 new == <<src, ChunkEnd>>
      <4>1. spans \in Seq(Part) /\ new \in Part
        BY <3>3 DEF TypeOK
      <4>2. new[1] = src /\ new[2] = ChunkEnd
        OBVIOUS
      <4> HIDE DEF new, Part
      <4>3. /\ Len(spans) \in Nat /\ Len(spans') = Len(spans) + 1
            /\ spans'[Len(spans) + 1] = new
            /\ \A s \in 1..Len(spans) : spans'[s] = spans[s]
            /\ DOMAIN spans = 1..Len(spans) /\ DOMAIN spans' = 1..(Len(spans) + 1)
            /\ spans = <<>> <=> Len(spans) = 0
        BY <3>3, <4>1 DEF new
      <4>4. src = IF Len(spans) = 0 THEN rsrc.header ELSE spans[Len(spans)][2]
        BY <3>1, <4>3 DEF Tiled
      <4>5. ASSUME NEW s \in 1..(Len(spans) + 1), xattr.type \in InFork /\ Alg # "Zlib"
            PROVE  /\ spans'[s][1] = IF s = 1 THEN rsrc.header ELSE spans'[s - 1][2]
                   /\ spans'[s][1] <= spans'[s][2] /\ spans'[s][2] <= rsrc.len
        <5>1. CASE s = Len(spans) + 1
          <6>1. spans'[s][1] = src /\ spans'[s][2] = ChunkEnd
            BY <4>2, <4>3, <5>1
          <6>2. CASE Len(spans) = 0
            BY <3>3, <4>4, <5>1, <6>1, <6>2
          <6>3. CASE Len(spans) # 0
            <7>1. s - 1 = Len(spans) /\ s # 1 /\ spans'[s - 1] = spans[Len(spans)]
              BY <4>3, <5>1, <6>3
            <7> QED BY <3>3, <4>4, <6>1, <6>3, <7>1
          <6> QED BY <6>2, <6>3
        <5>2. CASE s \in 1..Len(spans)
          <6>1. spans'[s] = spans[s] /\ (s # 1 => spans'[s - 1] = spans[s - 1])
            BY <4>3, <5>2
          <6> QED BY <4>3, <4>5, <5>2, <6>1 DEF Tiled, ChunksTileTheFork
        <5> QED BY <4>3, <5>1, <5>2
      <4>6. ChunksTileTheFork'
        BY <3>1, <4>3, <4>5, InputKept DEF ChunksTileTheFork
      <4>7. src' = IF spans' = <<>> THEN rsrc'.header ELSE spans'[Len(spans')][2]
        <5>1. spans'[Len(spans')][2] = ChunkEnd /\ spans' # <<>>
          BY <4>2, <4>3
        <5> QED BY <3>3, <5>1
      <4> QED BY <3>1, <3>3, <4>6, <4>7 DEF Tiled
    <3> QED BY <2>3, <3>2, <3>3, ChunkStep
  <2> QED BY <2>1, <2>2, <2>3 DEF Next
<1>3. Tiled => ChunksTileTheFork
  BY DEF Tiled
<1> QED BY <1>1, <1>2, <1>3, TypesAndRoutes, PTL DEF Spec

------------------------------------------------------------------------------
\* Every turn of a loop has read four bytes of the fork that no other has.
Counted ==
    /\ WorkBounded
    /\ pc \in {"header", "inline"} => spans = <<>>
    /\ pc \in {"header", "inline", "zlib", "chunks"} => Len(spans) = i

\* So it is by induction on the turns of either loop.
LEMMA WorkCounted == Spec => []Counted
<1>1. Init => Counted
  <2> SUFFICES ASSUME Init PROVE Counted
    OBVIOUS
  <2>1. spans = <<>> /\ i = 0 /\ Len(spans) = 0
    BY DEF Init
  <2>2. rsrc.len \in Nat
    BY InputNumbers DEF Init, InputOK
  <2> QED BY <2>1, <2>2 DEF Counted, WorkBounded
<1>2. TypeOK /\ Routed /\ Counted /\ [Next]_vars => Counted'
  <2> SUFFICES ASSUME TypeOK, Routed, Counted, [Next]_vars PROVE Counted'
    OBVIOUS
  <2>0. InputOK /\ spans \in Seq((0..rsrc.len) \X (0..rsrc.len)) /\ i \in Nat
    BY DEF TypeOK, InputOK
  <2>1. ASSUME RejectHeader \/ AcceptHeader \/ Inline \/ ZlibEnd \/ ChunksEnd \/ Check
               \/ UNCHANGED vars
        PROVE  Counted'
    <3>1. UNCHANGED <<input, spans, i>>
      BY <2>1, OtherSteps
    <3>2. /\ pc' \in {"header", "inline"} => pc \in {"header", "inline"}
          /\ pc' \in {"zlib", "chunks"} => pc \in {"header", "zlib", "chunks"}
          /\ out' # out => spans = <<>>
      BY <2>1, OtherSteps DEF Counted
    <3>3. WorkBounded'
      BY <3>1, <3>2, InputKept DEF Counted, WorkBounded
    <3> QED BY <3>1, <3>2, <3>3 DEF Counted
  <2>2. CASE ZlibBlock
    <3>1. pc = "zlib" /\ pc' \in {"zlib", "err"} /\ UNCHANGED input
      BY <2>2, ZlibBlockStep
    <3>2. CASE UNCHANGED <<i, out, spans>>
      BY <3>1, <3>2, InputKept DEF Counted, WorkBounded
    <3>3. ASSUME NEW p \in (0..rsrc.len) \X (0..rsrc.len),
                 i' = i + 1, spans' = Append(spans, p), 4 * (i + 1) <= rsrc.len
          PROVE  Counted'
      <4>1. Len(spans') = Len(spans) + 1 /\ Len(spans) = i
        BY <2>0, <3>1, <3>3 DEF Counted
      <4>2. Alg = "Zlib"
        BY <3>1, Storages DEF Routed
      <4> QED BY <3>1, <3>3, <4>1, <4>2, InputKept DEF Counted, WorkBounded
    <3> QED BY <2>2, <3>2, <3>3, ZlibBlockStep
  <2>3. CASE Chunk
    <3>1. pc = "chunks" /\ pc' \in {"chunks", "err"} /\ UNCHANGED input
      BY <2>3, ChunkStep
    <3>2. CASE UNCHANGED <<i, out, spans>>
      BY <3>1, <3>2, InputKept DEF Counted, WorkBounded
    <3>3. ASSUME NEW n \in Nat, out' = out + n, Alg \in {"Lzvn", "Lzfse"} => n <= MaxDecoded,
                 src \in 0..rsrc.len, ChunkEnd \in 0..rsrc.len, MoreChunks,
                 i' = i + 1, spans' = Append(spans, <<src, ChunkEnd>>), 4 * (i + 1) <= rsrc.len
          PROVE  Counted'
      <4>1. Len(spans') = Len(spans) + 1 /\ Len(spans) = i
        BY <2>0, <3>1, <3>3 DEF Counted
      <4>2. Alg \in {"Lzvn", "Lzfse"} => out' < uncompressed_size + MaxDecoded
        <5>1. out < uncompressed_size /\ out \in Nat
          BY <3>3 DEF MoreChunks, TypeOK
        <5> QED BY <2>0, <3>3, <5>1, InputNumbers
      <4> QED BY <3>1, <3>3, <4>1, <4>2, InputKept DEF Counted, WorkBounded
    <3> QED BY <2>3, <3>2, <3>3, ChunkStep
  <2> QED BY <2>1, <2>2, <2>3 DEF Next
<1> QED BY <1>1, <1>2, TypesAndRoutes, PTL DEF Spec

\* The work is bounded by the fork, whatever counts are in it.
THEOREM WorkIsBounded == Spec => []WorkBounded
<1>1. Counted => WorkBounded
  BY DEF Counted
<1> QED BY <1>1, WorkCounted, PTL

------------------------------------------------------------------------------
\* A flagged file gets past the header only as an inline attribute without a payload, and
\* of that nothing is decoded.
Barren ==
    pc \in {"inline", "zlib", "chunks", "check", "ok"} /\ Flagged =>
        /\ IsInline /\ xattr.len = HEADER_LEN
        /\ pc \in {"check", "ok"} => out = 0

\* Of flagged files the header test lets pass only an inline attribute without a payload.
LEMMA FlaggedRouted ==
    ASSUME InputOK, Flagged, IsInline \/ IsZlibFork \/ IsChunkedFork
    PROVE  IsInline /\ xattr.len = HEADER_LEN
<1>1. HeaderOK
  BY DEF IsInline, IsZlibFork, IsChunkedFork
<1>2. CASE IsInline
  <2>1. xattr.len >= HEADER_LEN /\ xattr.type \in Inlined /\ xattr.type \notin InFork
    BY <1>2, Storages DEF IsInline, HeaderOK
  <2> QED BY <1>2, <2>1, InputNumbers DEF Flagged, HEADER_LEN
<1>3. CASE IsZlibFork \/ IsChunkedFork
  <2>1. xattr.type \in InFork /\ xattr.type \notin Inlined /\ HasFork /\ Readable(0)
    BY <1>3 DEF IsZlibFork, IsChunkedFork, InFork, Inlined, ZlibHeaderOK, ChunkHeaderOK
  <2>2. rsrc.logical # 0 /\ rsrc.blocks # 0
    BY <2>1, InputNumbers DEF HasFork, Readable
  <2> QED BY <1>1, <2>1, <2>2, InputNumbers DEF Flagged, HeaderOK, HEADER_LEN
<1> QED BY <1>2, <1>3

\* What audit_decmpfs flags, decompress fails on, unless the file is declared empty.
THEOREM FlaggedFails == Spec => []FlaggedCannotDecode
<1>1. Init => Barren
  BY DEF Init, Barren
<1>2. TypeOK /\ Routed /\ (TypeOK /\ Routed)' /\ Barren /\ [Next]_vars => Barren'
  <2> SUFFICES ASSUME TypeOK, Routed, (TypeOK /\ Routed)', Barren, [Next]_vars,
                      pc' \in {"inline", "zlib", "chunks", "check", "ok"}, Flagged'
               PROVE  (IsInline /\ xattr.len = HEADER_LEN)'
                      /\ (pc' \in {"check", "ok"} => out' = 0)
    BY DEF Barren
  <2>0. UNCHANGED input
    <3>1. CASE ZlibBlock
      BY <3>1, ZlibBlockStep
    <3>2. CASE Chunk
      BY <3>2, ChunkStep
    <3>3. CASE ~ZlibBlock /\ ~Chunk
      BY <3>3, OtherSteps DEF Next
    <3> QED BY <3>1, <3>2, <3>3
  <2>1. InputOK /\ Flagged
    BY <2>0, InputKept DEF TypeOK, InputOK, Flagged
  <2>2. pc' \in {"inline", "zlib", "chunks", "check"} =>
            IsInline \/ IsZlibFork \/ IsChunkedFork
    BY <2>0, InputKept DEF Routed
  <2>3. pc' = "ok" => IsInline \/ IsZlibFork \/ IsChunkedFork
    BY <2>0, InputKept DEF Routed
  <2>4. IsInline /\ xattr.len = HEADER_LEN
    BY <2>1, <2>2, <2>3, FlaggedRouted
  <2>5. ~IsZlibFork /\ ~IsChunkedFork
    BY <2>4, Storages
  <2>6. ASSUME pc' \in {"check", "ok"} PROVE out' = 0
    <3>1. ~ZlibBlock /\ ~Chunk
      BY <2>5, ZlibBlockStep, ChunkStep DEF Routed
    <3>2. CASE Inline
      BY <2>1, <2>4, <2>6, <3>2, InlineStep, InlineLength DEF IsInline, HeaderOK
    <3>3. CASE ~Inline
      <4>1. RejectHeader \/ AcceptHeader \/ ZlibEnd \/ ChunksEnd \/ Check \/ UNCHANGED vars
        BY <3>1, <3>3 DEF Next
      <4>2. out' = out /\ pc # "inline"
        BY <2>6, <4>1 DEF RejectHeader, AcceptHeader, ZlibEnd, ChunksEnd, Check, Fail, vars
      <4>3. pc \in {"check", "ok"}
        BY <2>5, <2>6, <4>1, <4>2, OtherSteps DEF Routed
      <4> QED BY <2>1, <4>2, <4>3 DEF Barren
    <3> QED BY <3>2, <3>3
  <2> QED BY <2>0, <2>4, <2>6, InputKept
<1>3. Barren /\ LengthTested => FlaggedCannotDecode
  BY DEF Barren, LengthTested, FlaggedCannotDecode
<1> QED BY <1>1, <1>2, <1>3, TypesAndRoutes, LengthIsTested, PTL DEF Spec

------------------------------------------------------------------------------
\* ChunkCount chunks are needed, and no fewer.
LEMMA CountOfChunks ==
    ASSUME NEW k \in Nat \ {0}, NEW u \in Nat, NEW q, q = (u + k - 1) \div k
    PROVE  q \in Nat /\ \A n \in Nat : n * k < u <=> n < q
<1>1. q \in Nat /\ q * k <= u + k - 1 /\ u + k - 1 < q * k + k
  OBVIOUS
<1>2. ASSUME NEW n \in Nat, n * k < u PROVE n < q
  <2>1. CASE n >= q
    <3>1. n * k >= q * k
      BY <1>1, <2>1
    <3> QED BY <1>1, <1>2, <3>1
  <2> QED BY <1>1, <2>1
<1>3. ASSUME NEW n \in Nat, n < q PROVE n * k < u
  <2>1. (n + 1) * k <= q * k
    BY <1>1, <1>3
  <2>2. (n + 1) * k = n * k + k
    OBVIOUS
  <2> QED BY <1>1, <2>1, <2>2
<1> QED BY <1>1, <1>2, <1>3

\* n full chunks, or the whole.
Produced(n) == Least(n * CHUNK_SIZE, uncompressed_size)

\* While every chunk is a full one or the remainder, the loop has as many bytes as chunks
\* and stands where the compressor began the next.
Paced ==
    WellFormedChunks /\ faithful =>
        /\ i <= ChunkCount
        /\ pc = "header" => i = 0 /\ out = 0
        /\ pc = "chunks" => /\ out = Produced(i)
                            /\ src = IF i = 0 THEN rsrc.header ELSE rsrc.ends[i]
        /\ pc = "check" => LengthOK

\* How Produced grows, chunk by chunk, up to the whole at ChunkCount.
LEMMA PacedNumbers ==
    ASSUME InputOK
    PROVE  /\ ChunkCount \in Nat
           /\ \A n \in Nat : /\ Produced(n) < uncompressed_size <=> n < ChunkCount
                             /\ n >= ChunkCount => Produced(n) = uncompressed_size
                             /\ Produced(n) \in Nat
                             /\ n < ChunkCount => Produced(n + 1) =
                                  Produced(n) + Least(CHUNK_SIZE, uncompressed_size - Produced(n))
<1>1. CHUNK_SIZE \in Nat \ {0} /\ uncompressed_size \in Nat
  BY InputNumbers
<1>2. /\ ChunkCount \in Nat
      /\ \A n \in Nat : n * CHUNK_SIZE < uncompressed_size <=> n < ChunkCount
  BY <1>1, CountOfChunks DEF ChunkCount
<1>3. ASSUME NEW n \in Nat
      PROVE  /\ n * CHUNK_SIZE \in Nat
             /\ (n + 1) * CHUNK_SIZE = n * CHUNK_SIZE + CHUNK_SIZE
  BY <1>1
<1>4. ASSUME NEW n \in Nat
      PROVE  /\ Produced(n) < uncompressed_size <=> n < ChunkCount
             /\ n >= ChunkCount => Produced(n) = uncompressed_size
             /\ Produced(n) \in Nat
             /\ n < ChunkCount => Produced(n + 1) =
                  Produced(n) + Least(CHUNK_SIZE, uncompressed_size - Produced(n))
  <2> DEFINE p == n * CHUNK_SIZE
  <2>1. p \in Nat /\ (n + 1) * CHUNK_SIZE = p + CHUNK_SIZE
    BY <1>3
  <2>2. p < uncompressed_size <=> n < ChunkCount
    BY <1>2
  <2>3. /\ Produced(n) = IF p < uncompressed_size THEN p ELSE uncompressed_size
        /\ Produced(n + 1) = IF p + CHUNK_SIZE < uncompressed_size
                             THEN p + CHUNK_SIZE ELSE uncompressed_size
    BY <2>1 DEF Produced, Least
  <2> HIDE DEF p
  <2> QED BY <1>1, <1>2, <2>1, <2>2, <2>3 DEF Least
<1> QED BY <1>2, <1>4

\* What is computed from the input alone stays.
LEMMA WellFormedKept ==
    ASSUME UNCHANGED input
    PROVE  WellFormedChunks' = WellFormedChunks /\ ChunkCount' = ChunkCount
           /\ n_slots' = n_slots
           /\ \A n : Produced(n)' = Produced(n) /\ ChunkInPlace(n)' = ChunkInPlace(n)
<1>1. xattr' = xattr /\ rsrc' = rsrc /\ uncompressed_size' = uncompressed_size
      /\ IsChunkedFork' = IsChunkedFork
  BY InputKept
<1> QED BY <1>1 DEF WellFormedChunks, ListWhole, ChunkInPlace, ChunkCount, Produced, n_slots

\* A chunk that is needed is readable.
LEMMA NextChunkReadable ==
    ASSUME InputOK, WellFormedChunks, i \in Nat, i < ChunkCount,
           src = IF i = 0 THEN rsrc.header ELSE rsrc.ends[i]
    PROVE  ChunkReadable
<1>1. ChunkCount \in Nat /\ ChunkCount <= n_slots /\ rsrc.header <= rsrc.len
  BY PacedNumbers DEF WellFormedChunks, ListWhole
<1>2. 4 * (i + 2) <= rsrc.header
  BY <1>1, InputNumbers DEF n_slots
<1>3. Readable(4 + i * 4)
  BY <1>1, <1>2, InputNumbers DEF Readable
<1>4. i + 1 \in 1..ChunkCount
  BY <1>1
<1>5. src <= rsrc.ends[i + 1] /\ rsrc.ends[i + 1] <= rsrc.len
  <2>1. /\ (IF i + 1 = 1 THEN rsrc.header ELSE rsrc.ends[(i + 1) - 1]) <= rsrc.ends[i + 1]
        /\ rsrc.ends[i + 1] <= rsrc.len
    BY <1>4 DEF WellFormedChunks, ListWhole, ChunkInPlace
  <2>2. (i + 1) - 1 = i /\ (i + 1 = 1 <=> i = 0)
    OBVIOUS
  <2> QED BY <2>1, <2>2
<1> QED BY <1>3, <1>5 DEF ChunkReadable, ChunkEnd

\* On a fork as compressors write it no slot behind the last chunk is read, and the file is
\* not refused, as long as the codecs return what was compressed.
THEOREM PaddingIsLeft == Spec => []PaddingNeverRead
<1>1. Init => Paced
  <2> SUFFICES ASSUME Init PROVE i <= ChunkCount
    BY DEF Init, Paced
  <2>1. InputOK
    BY DEF Init, InputOK
  <2> QED BY <2>1, PacedNumbers DEF Init
<1>2. TypeOK /\ Routed /\ Paced /\ [Next]_vars => Paced'
  <2> SUFFICES ASSUME TypeOK, Routed, Paced, [Next]_vars, WellFormedChunks', faithful'
               PROVE  (/\ i <= ChunkCount
                       /\ pc = "header" => i = 0 /\ out = 0
                       /\ pc = "chunks" => /\ out = Produced(i)
                                           /\ src = IF i = 0 THEN rsrc.header ELSE rsrc.ends[i]
                       /\ pc = "check" => LengthOK)'
    BY DEF Paced
  <2>0. InputOK /\ i \in Nat /\ out \in Nat /\ src \in Nat
    BY DEF TypeOK, InputOK
  <2>1. ASSUME RejectHeader \/ AcceptHeader \/ Inline \/ ZlibEnd \/ ChunksEnd \/ Check
               \/ UNCHANGED vars
        PROVE  (/\ i <= ChunkCount
                /\ pc = "header" => i = 0 /\ out = 0
                /\ pc = "chunks" => /\ out = Produced(i)
                                    /\ src = IF i = 0 THEN rsrc.header ELSE rsrc.ends[i]
                /\ pc = "check" => LengthOK)'
    <3>1. UNCHANGED <<input, i, faithful>> /\ xattr' = xattr /\ rsrc' = rsrc
          /\ uncompressed_size' = uncompressed_size
      BY <2>1, OtherSteps, InputKept
    <3>2. WellFormedChunks /\ faithful /\ ChunkCount' = ChunkCount
          /\ Produced(i)' = Produced(i)
      BY <3>1, WellFormedKept
    <3>3. IsChunkedFork /\ ~IsInline /\ ~IsZlibFork
      BY <3>2, Storages DEF WellFormedChunks
    <3>4. pc # "inline" /\ pc # "zlib"
      BY <3>3 DEF Routed
    <3>5. pc' = "chunks" => /\ out' = Produced(i)
                            /\ src' = IF i = 0 THEN rsrc.header ELSE rsrc.ends[i]
      <4>1. Produced(0) = 0
        BY <2>0, InputNumbers DEF Produced, Least
      <4> QED BY <2>1, <3>2, <4>1, OtherSteps DEF Paced, Routed
    <3>6. pc' = "check" => out' = uncompressed_size
      <4>1. CASE pc = "check"
        BY <2>1, <3>2, <4>1, OtherSteps DEF Paced, LengthOK
      <4>2. CASE pc = "chunks" /\ ~MoreChunks
        <5>1. out = Produced(i) /\ ChunkCount <= n_slots
          BY <3>2, <4>2 DEF Paced, WellFormedChunks, ListWhole
        <5>2. i >= ChunkCount \/ ~(out < uncompressed_size)
          BY <2>0, <4>2, <5>1, PacedNumbers, InputNumbers DEF MoreChunks
        <5>3. i >= ChunkCount
          BY <2>0, <5>1, <5>2, PacedNumbers
        <5>4. out = uncompressed_size
          BY <2>0, <5>1, <5>3, PacedNumbers
        <5> QED BY <2>1, <4>2, <5>4, OtherSteps
      <4> QED BY <2>1, <3>4, <4>1, <4>2, OtherSteps
    <3>7. pc' = "header" => pc = "header" /\ out' = out
      BY <2>1, <3>4, OtherSteps
    <3> QED BY <3>1, <3>2, <3>5, <3>6, <3>7 DEF Paced, LengthOK
  <2>2. CASE ZlibBlock
    <3>1. UNCHANGED input /\ pc = "zlib"
      BY <2>2, ZlibBlockStep
    <3>2. IsChunkedFork
      BY <3>1, WellFormedKept DEF WellFormedChunks
    <3> QED BY <3>1, <3>2, Storages DEF Routed
  <2>3. CASE Chunk
    <3>1. UNCHANGED input /\ pc = "chunks" /\ pc' \in {"chunks", "err"}
      BY <2>3, ChunkStep
    <3>2. /\ WellFormedChunks /\ ChunkCount' = ChunkCount /\ rsrc' = rsrc
          /\ \A n : Produced(n)' = Produced(n)
      BY <3>1, WellFormedKept, InputKept
    <3>3. CASE pc' = "err" /\ UNCHANGED <<i, src, out, spans, faithful>>
      BY <3>1, <3>2, <3>3 DEF Paced
    <3>4. ASSUME pc' = pc, i' = i + 1, src' = ChunkEnd, MoreChunks, NEW n \in Nat,
                 out' = out + n,
                 faithful' = (faithful /\ n = Least(CHUNK_SIZE, uncompressed_size - out))
          PROVE  /\ i' <= ChunkCount'
                 /\ out' = Produced(i + 1)
                 /\ src' = rsrc.ends[i + 1]
      <4>1. faithful /\ n = Least(CHUNK_SIZE, uncompressed_size - out)
        BY <3>4
      <4>2. out = Produced(i)
        BY <3>1, <3>2, <4>1 DEF Paced
      <4>3. i < ChunkCount
        BY <2>0, <3>4, <4>2, PacedNumbers DEF MoreChunks
      <4>4. out' = Produced(i + 1)
        BY <2>0, <3>4, <4>1, <4>2, <4>3, PacedNumbers
      <4>5. i' <= ChunkCount'
        <5>1. i + 1 <= ChunkCount
          <6>1. ChunkCount \in Nat
            BY <2>0, PacedNumbers
          <6> QED BY <2>0, <4>3, <6>1
        <5> QED BY <3>2, <3>4, <5>1
      <4>6. src' = rsrc.ends[i + 1]
        BY <3>4 DEF ChunkEnd
      <4> QED BY <4>4, <4>5, <4>6
    <3>5. ASSUME i' = i + 1, i' <= ChunkCount', out' = Produced(i + 1),
                 src' = rsrc.ends[i + 1]
          PROVE  (/\ i <= ChunkCount
                  /\ pc = "header" => i = 0 /\ out = 0
                  /\ pc = "chunks" => /\ out = Produced(i)
                                      /\ src = IF i = 0 THEN rsrc.header ELSE rsrc.ends[i]
                  /\ pc = "check" => LengthOK)'
      <4>1. Produced(i)' = Produced(i + 1)
        BY <3>2, <3>5, InputKept, <3>1 DEF Produced
      <4> QED BY <2>0, <3>1, <3>2, <3>5, <4>1
    <3> QED BY <2>3, <3>3, <3>4, <3>5, ChunkStep
  <2> QED BY <2>1, <2>2, <2>3 DEF Next
<1>3. TypeOK /\ Paced => PaddingNeverRead
  <2> SUFFICES ASSUME TypeOK, Paced, WellFormedChunks, faithful
               PROVE  /\ i <= ChunkCount
                      /\ pc = "check" => LengthOK
                      /\ pc = "chunks" /\ MoreChunks => ChunkReadable
    BY DEF PaddingNeverRead
  <2>1. InputOK /\ i \in Nat
    BY DEF TypeOK, InputOK
  <2>2. ASSUME pc = "chunks", MoreChunks PROVE ChunkReadable
    <3>1. out = Produced(i) /\ src = IF i = 0 THEN rsrc.header ELSE rsrc.ends[i]
      BY <2>2 DEF Paced
    <3>2. i < ChunkCount
      BY <2>1, <2>2, <3>1, PacedNumbers DEF MoreChunks
    <3> QED BY <2>1, <3>1, <3>2, NextChunkReadable
  <2> QED BY <2>2 DEF Paced
<1> QED BY <1>1, <1>2, <1>3, TypesAndRoutes, PTL DEF Spec

------------------------------------------------------------------------------
\* What the loop over the slots has put together: one chunk per turn, each in its place,
\* and as many bytes as the chunks can have given.
Assembled ==
    /\ Len(spans) = i /\ i <= n_slots
    /\ src = IF i = 0 THEN rsrc.header ELSE rsrc.ends[i]
    /\ \A s \in 1..i : ChunkInPlace(s)
    /\ faithful => out = Produced(i) /\ i <= ChunkCount
    /\ Alg = "Lzvn" => out <= i * CHUNK_SIZE
    /\ Alg = "Uncompressed" => src = rsrc.header + out

AllParts ==
    /\ pc \in {"check", "ok"} /\ IsZlibFork => Len(spans) = rsrc.count
    /\ pc \in {"chunks", "check", "ok"} /\ IsChunkedFork => Assembled

\* The numbers before the first turn.
LEMMA NothingYet ==
    ASSUME InputOK, IsChunkedFork
    PROVE  /\ Produced(0) = 0 /\ ChunkCount \in Nat /\ n_slots \in Int /\ n_slots >= 0
           /\ 0 * CHUNK_SIZE = 0 /\ rsrc.header + 0 = rsrc.header
<1>1. /\ n_slots \in Int /\ n_slots >= 0 /\ rsrc.header \in Nat /\ CHUNK_SIZE \in Nat
      /\ uncompressed_size \in Nat
  BY InputNumbers DEF IsChunkedFork, ChunkHeaderOK
<1>2. Produced(0) = 0 /\ ChunkCount \in Nat
  BY <1>1, PacedNumbers DEF Produced, Least
<1> QED BY <1>1, <1>2

LEMMA OneChunkMore ==
    ASSUME NEW a \in Nat, NEW b \in Nat
    PROVE  (a + 1) * b = a * b + b /\ a * b \in Nat
OBVIOUS

\* Stored bytes are taken over as they are: position and output move on alike.
LEMMA StoredChunk ==
    ASSUME InputOK, out \in Nat, out' \in Nat, src \in Nat, ChunkEnd \in Nat,
           src = rsrc.header + out, out' - out = ChunkEnd - src, src' = ChunkEnd
    PROVE  src' = rsrc.header + out'
<1>1. rsrc.header \in Nat
  BY InputNumbers
<1> QED BY <1>1

\* One turn adds one chunk in its place.
LEMMA ChunkAssembled ==
    ASSUME TypeOK, Assembled, MoreChunks, UNCHANGED input,
           i' = i + 1, src' = ChunkEnd, spans' = Append(spans, <<src, ChunkEnd>>),
           NEW n \in Nat, out' = out + n,
           Alg = "Lzvn" => n <= CHUNK_SIZE,
           Alg = "Uncompressed" => n = ChunkEnd - src,
           faithful' = (faithful /\ n = Least(CHUNK_SIZE, uncompressed_size - out)),
           src \in 0..rsrc.len, ChunkEnd \in 0..rsrc.len, src <= ChunkEnd
    PROVE  Assembled'
<1>0. InputOK /\ i \in Nat /\ out \in Nat /\ n_slots \in Int /\ rsrc.len \in Nat
  BY InputNumbers DEF TypeOK, InputOK
<1>1. Len(spans') = i' /\ i' <= n_slots
  <2>1. spans \in Seq((0..rsrc.len) \X (0..rsrc.len))
    BY DEF TypeOK
  <2>2. Len(spans') = Len(spans) + 1
    BY <2>1
  <2> QED BY <1>0, <2>2 DEF Assembled, MoreChunks
<1>2. src' = IF i' = 0 THEN rsrc.header ELSE rsrc.ends[i']
  BY <1>0 DEF ChunkEnd
<1>3. \A s \in 1..i' : ChunkInPlace(s)
  <2>1. ChunkInPlace(i + 1)
    <3>1. (IF i + 1 = 1 THEN rsrc.header ELSE rsrc.ends[(i + 1) - 1]) = src
      <4>1. (i + 1) - 1 = i /\ (i + 1 = 1 <=> i = 0)
        BY <1>0
      <4> QED BY <4>1 DEF Assembled
    <3>2. src <= rsrc.ends[i + 1] /\ rsrc.ends[i + 1] <= rsrc.len
      BY <1>0 DEF ChunkEnd
    <3> QED BY <3>1, <3>2 DEF ChunkInPlace
  <2>2. \A s \in 1..(i + 1) : s \in 1..i \/ s = i + 1
    BY <1>0
  <2> QED BY <2>1, <2>2 DEF Assembled
<1>4. faithful' => out' = Produced(i') /\ i' <= ChunkCount
  <2> SUFFICES ASSUME faithful, n = Least(CHUNK_SIZE, uncompressed_size - out)
               PROVE  out' = Produced(i + 1) /\ i + 1 <= ChunkCount
    OBVIOUS
  <2>1. out = Produced(i)
    BY DEF Assembled
  <2>2. i < ChunkCount /\ ChunkCount \in Nat
    BY <1>0, <2>1, PacedNumbers DEF MoreChunks
  <2> QED BY <1>0, <2>1, <2>2, PacedNumbers
<1>5. Alg = "Lzvn" => out' <= i' * CHUNK_SIZE
  <2>0. CHUNK_SIZE \in Nat
    BY <1>0, InputNumbers
  <2>1. (i + 1) * CHUNK_SIZE = i * CHUNK_SIZE + CHUNK_SIZE /\ i * CHUNK_SIZE \in Nat
    BY <1>0, <2>0, OneChunkMore
  <2> SUFFICES ASSUME Alg = "Lzvn" PROVE out + n <= (i + 1) * CHUNK_SIZE
    OBVIOUS
  <2>2. out <= i * CHUNK_SIZE /\ n <= CHUNK_SIZE
    BY DEF Assembled
  <2> QED BY <1>0, <2>0, <2>1, <2>2
<1>6. Alg = "Uncompressed" => src' = rsrc.header + out'
  <2> SUFFICES ASSUME Alg = "Uncompressed" PROVE src' = rsrc.header + out'
    OBVIOUS
  <2>1. src = rsrc.header + out
    BY DEF Assembled
  <2>2. out' - out = ChunkEnd - src
    BY <1>0
  <2>3. out' \in Nat /\ src \in Nat
    BY <1>0
  <2> QED BY <1>0, <2>1, <2>2, <2>3, StoredChunk
<1>7. /\ rsrc' = rsrc /\ Alg' = Alg /\ n_slots' = n_slots /\ ChunkCount' = ChunkCount
      /\ \A s : ChunkInPlace(s)' = ChunkInPlace(s)
      /\ Produced(i)' = Produced(i')
  <2>1. Produced(i)' = Produced(i')
    BY InputKept DEF Produced
  <2> QED BY <2>1, InputKept, WellFormedKept
<1> QED BY <1>1, <1>2, <1>3, <1>4, <1>5, <1>6, <1>7 DEF Assembled

\* What is put together stays so while the loop's variables do.
LEMMA AssembledKept ==
    ASSUME Assembled, UNCHANGED <<input, i, src, out, spans, faithful>>
    PROVE  Assembled'
<1>1. /\ rsrc' = rsrc /\ Alg' = Alg /\ n_slots' = n_slots /\ ChunkCount' = ChunkCount
      /\ Produced(i)' = Produced(i)
      /\ \A s : ChunkInPlace(s)' = ChunkInPlace(s)
  <2>1. Produced(i)' = Produced(i)
    BY InputKept DEF Produced
  <2> QED BY <2>1, InputKept, WellFormedKept
<1> QED BY <1>1 DEF Assembled

\* No part of a file that decompress delivers is missing: every block of a zlib fork's
\* table, every chunk of a list whose chunks decode to what was compressed, at least as
\* many LZVN chunks as the size takes, every stored byte.
THEOREM NothingMissing == Spec => []NothingLeftOut
<1>1. Init => AllParts
  BY DEF Init, AllParts
<1>2. TypeOK /\ Routed /\ Counted /\ AllParts /\ [Next]_vars => AllParts'
  <2> SUFFICES ASSUME TypeOK, Routed, Counted, AllParts, [Next]_vars PROVE AllParts'
    OBVIOUS
  <2>0. InputOK
    BY DEF TypeOK, InputOK
  <2>1. ASSUME RejectHeader \/ AcceptHeader \/ Inline \/ ZlibEnd \/ ChunksEnd \/ Check
               \/ UNCHANGED vars
        PROVE  AllParts'
    <3>1. UNCHANGED <<input, i, spans, faithful>>
      BY <2>1, OtherSteps
    <3>2. IsZlibFork' = IsZlibFork /\ IsChunkedFork' = IsChunkedFork /\ rsrc' = rsrc
      BY <3>1, InputKept
    <3>3. ASSUME pc' \in {"check", "ok"}, IsZlibFork PROVE Len(spans') = rsrc.count
      <4>1. pc # "inline" /\ pc # "chunks"
        BY <3>3, Storages DEF Routed
      <4>2. \/ pc \in {"check", "ok"}
            \/ pc = "zlib" /\ i = rsrc.count
        BY <2>1, <3>3, <4>1, OtherSteps
      <4>3. pc = "zlib" => Len(spans) = i
        BY DEF Counted
      <4> QED BY <3>1, <3>3, <4>2, <4>3 DEF AllParts
    <3>4. ASSUME pc' \in {"chunks", "check", "ok"}, IsChunkedFork PROVE Assembled'
      <4>1. pc # "inline" /\ pc # "zlib"
        BY <3>4, Storages DEF Routed
      <4>2. CASE pc = "header"
        <5>1. /\ i' = 0 /\ out' = 0 /\ spans' = <<>> /\ src' = rsrc.header /\ rsrc' = rsrc
              /\ Alg' = Alg /\ n_slots' = n_slots /\ ChunkCount' = ChunkCount
          BY <2>1, <3>1, <3>2, <3>4, <4>2, InputKept, WellFormedKept, OtherSteps DEF Routed
        <5>2. Produced(i)' = Produced(0)
          BY <3>1, <5>1, InputKept DEF Produced
        <5>3. /\ Produced(0) = 0 /\ ChunkCount \in Nat /\ n_slots \in Int /\ n_slots >= 0
              /\ 0 * CHUNK_SIZE = 0 /\ rsrc.header + 0 = rsrc.header
          BY <2>0, <3>4, NothingYet
        <5> QED BY <5>1, <5>2, <5>3 DEF Assembled
      <4>3. CASE pc # "header"
        <5>1. pc \in {"chunks", "check", "ok"} /\ UNCHANGED <<src, out>>
          BY <2>1, <3>4, <4>1, <4>3, OtherSteps
        <5> QED BY <3>1, <3>4, <5>1, AssembledKept DEF AllParts
      <4> QED BY <4>2, <4>3
    <3> QED BY <3>2, <3>3, <3>4 DEF AllParts
  <2>2. CASE ZlibBlock
    <3>1. UNCHANGED input /\ pc = "zlib" /\ pc' \in {"zlib", "err"}
      BY <2>2, ZlibBlockStep
    <3> QED BY <3>1 DEF AllParts
  <2>3. CASE Chunk
    <3>1. UNCHANGED input /\ pc = "chunks" /\ pc' \in {"chunks", "err"} /\ IsChunkedFork
      BY <2>3, ChunkStep DEF Routed
    <3>2. Assembled
      BY <3>1 DEF AllParts
    <3>3. CASE pc' = "err"
      BY <3>3 DEF AllParts
    <3>4. CASE pc' = "chunks"
      <4>1. Assembled'
        BY <2>3, <3>1, <3>2, <3>4, ChunkStep, ChunkAssembled
      <4> QED BY <3>4, <4>1 DEF AllParts
    <3> QED BY <3>1, <3>3, <3>4
  <2> QED BY <2>1, <2>2, <2>3 DEF Next
<1>3. TypeOK /\ AllParts /\ LengthTested => NothingLeftOut
  <2> SUFFICES ASSUME TypeOK, AllParts, LengthTested, pc = "ok"
               PROVE  /\ IsZlibFork => Len(spans) = rsrc.count
                      /\ IsChunkedFork /\ faithful => ListWhole /\ Len(spans) = ChunkCount
                      /\ IsChunkedFork /\ Alg = "Lzvn" => ChunkCount <= Len(spans)
                      /\ IsChunkedFork /\ Alg = "Uncompressed"
                            => src = rsrc.header + uncompressed_size
    BY DEF NothingLeftOut
  <2>1. InputOK /\ out = uncompressed_size /\ i \in Nat /\ ChunkCount \in Nat
    BY PacedNumbers DEF TypeOK, InputOK, LengthTested
  <2>2. IsZlibFork => Len(spans) = rsrc.count
    BY DEF AllParts
  <2>3. IsChunkedFork => Assembled
    BY DEF AllParts
  <2>4. ASSUME Assembled, faithful PROVE ListWhole /\ Len(spans) = ChunkCount
    <3>1. i = ChunkCount
      <4>1. Produced(i) = uncompressed_size /\ i <= ChunkCount
        BY <2>1, <2>4 DEF Assembled
      <4>2. ~(i < ChunkCount)
        BY <2>1, <4>1, PacedNumbers, InputNumbers
      <4> QED BY <2>1, <4>1, <4>2
    <3> QED BY <2>4, <3>1 DEF Assembled, ListWhole
  <2>5. ASSUME Assembled, Alg = "Lzvn" PROVE ChunkCount <= Len(spans)
    <3>1. uncompressed_size <= i * CHUNK_SIZE /\ uncompressed_size \in Nat
          /\ i * CHUNK_SIZE \in Nat
      BY <2>1, <2>5, InputNumbers DEF Assembled
    <3>2. ~(Produced(i) < uncompressed_size)
      BY <3>1 DEF Produced, Least
    <3>3. ~(i < ChunkCount)
      BY <2>1, <3>2, PacedNumbers
    <3> QED BY <2>1, <2>5, <3>3 DEF Assembled
  <2>6. Assembled /\ Alg = "Uncompressed" => src = rsrc.header + uncompressed_size
    BY <2>1 DEF Assembled
  <2> QED BY <2>2, <2>3, <2>4, <2>5, <2>6
<1> QED BY <1>1, <1>2, <1>3, TypesAndRoutes, WorkCounted, LengthIsTested, PTL DEF Spec
==============================================================================
