--------------------------------- MODULE Vfs ---------------------------------
(***************************************************************************)
(* The VFS adapter (core/src/vfs.rs) as a client sees it that opens a      *)
(* node, is shown its streams (data_streams), and reads one of them in     *)
(* pieces (read_at), with read_file of core/src/lib.rs composed of its     *)
(* parts.                                                                  *)
(*                                                                         *)
(* It extends Xattrs: every call walks the attributes tree anew, and what  *)
(* list_xattrs, read_xattr and decmpfs_xattr return is what Xattrs holds   *)
(* at the end of the walk.  What stat and the fork lookup return (Catalog) *)
(* and what fork_bytes makes of a fork (ForkRead) is an input, and so is   *)
(* which attributes decompress decodes (Decmpfs).                          *)
(***************************************************************************)
EXTENDS Xattrs

CONSTANTS
    U16Max,     \* largest u16, the type of an attribute's index
    UsizeMax,   \* largest usize, and
    U64Max,     \* largest u64, the type of an offset
    Nodes,      \* what the catalog tells of a node
    Decodes,    \* <<content, resource>>: the decmpfs attributes that can be decoded
    Declared,   \* the uncompressed size in the header of a decmpfs attribute
    Served,     \* bound: the records of the trees a client is run on
    BufferLens, \* lengths of a client's buffers
    Offsets     \* offsets at which a client starts

\* got: what fork_bytes makes of the fork, -1 for None.
Fork == [logical : Nat, got : Nat \cup {-1}]
Node == [size : SUBSET Nat, forks : SUBSET [data : Fork, resource : Fork]]

Single(S) == \A x, y \in S : x = y

\* No buffer is longer than usize; a client's buffers are not empty.
ASSUME VfsAssumption ==
    /\ U16Max \in Nat /\ UsizeMax \in Nat /\ U64Max \in Nat
    /\ Nodes \subseteq Node
    /\ \A n \in Nodes : Single(n.size) /\ Single(n.forks)
    /\ \A n \in Nodes : \A f \in n.forks : f.data.got <= UsizeMax
    /\ Declared \in [Contents -> 0..UsizeMax]
    /\ \A r \in Records : r.size <= UsizeMax /\ r.got <= UsizeMax
    /\ BufferLens \subseteq Nat \ {0}
    /\ Offsets \subseteq 0..U64Max

VARIABLES
    cnid, node, \* the node opened
    shown,      \* the streams data_streams has shown of it
    stream,     \* the one that is read: a position in shown
    base, got,  \* the offset asked for first, and the bytes received
    status      \* "closed", "shown", "open", then "ended" or "failed"

client == <<cnid, node, shown, stream, base, got, status>>

VfsInit ==
    /\ Init
    /\ cnid \in CNIDs /\ node \in Nodes
    /\ shown = <<>> /\ stream = 0
    /\ base = 0 /\ got = <<>>
    /\ status = "closed"

------------------------------------------------------------------------------
\* read_file.

\* A content: the bytes <<src, 1>> to <<src, len>>.
Content(src, len) == [src |-> src, len |-> len]

\* The resource fork read_file hands to decompress, by its length.
ResourceFork(f) ==
    IF f.resource.logical > 0 /\ f.resource.got # -1 THEN Some(f.resource.got) ELSE None

decompress(x, resource) ==
    IF <<x.content, resource>> \in Decodes
    THEN Some(Content(<<"decoded", x.content>>, Declared[x.content]))
    ELSE None

DataFork(f) == IF f.data.got = -1 THEN None ELSE Some(Content(<<"data fork">>, f.data.got))

\* A mutant of read_file: the data fork is the answer where decoding fails.
OrTheDataFork ==
    UNION { IF \E x \in decmpfs[cnid] : decompress(x, ResourceFork(f)) # None
            THEN UNION {decompress(x, ResourceFork(f)) : x \in decmpfs[cnid]}
            ELSE DataFork(f) : f \in node.forks }

read_file ==
    UNION { IF decmpfs[cnid] # None
            THEN UNION {decompress(x, ResourceFork(f)) : x \in decmpfs[cnid]}
            ELSE DataFork(f) : f \in node.forks }

------------------------------------------------------------------------------
\* The adapter.

Default == -1

AtMost(n, bound) == IF n < bound THEN n ELSE bound

\* A mutant of StreamsShown: the indices count from 1.
StreamsFromOne ==
    <<[id |-> Default, size |-> IF node.size = None THEN 0 ELSE CHOOSE s \in node.size : TRUE]>>
    \o [k \in DOMAIN listed[cnid] |->
            [id |-> AtMost(k, U16Max), size |-> listed[cnid][k].value.size]]

\* data_streams: the data fork's size, and each attribute with an index that saturates.
StreamsShown ==
    <<[id |-> Default, size |-> IF node.size = None THEN 0 ELSE CHOOSE s \in node.size : TRUE]>>
    \o [k \in DOMAIN listed[cnid] |->
            [id |-> AtMost(k - 1, U16Max), size |-> listed[cnid][k].value.size]]

AttributeData(v) == Content(<<"attribute", v.content>>, v.size)

\* What read_at reads from for a stream's id; None is an error.
DataOf(id) ==
    IF id = Default THEN read_file
    ELSE IF id + 1 \in DOMAIN listed[cnid]
         THEN {AttributeData(v) : v \in read_xattr_at(cnid, id + 1)}
         ELSE None

\* `usize::try_from(off).unwrap_or(usize::MAX)`
Start(off) == AtMost(off, UsizeMax)

\* A mutant of Copied: the buffer is filled whatever is left.
Overfull(d, off, len) ==
    IF Start(off) >= d.len THEN <<>>
    ELSE [i \in 1..len |-> <<d.src, Start(off) + i>>]

\* The bytes read_at puts into a buffer.
Copied(d, off, len) ==
    IF Start(off) >= d.len THEN <<>>
    ELSE [i \in 1..AtMost(len, d.len - Start(off)) |-> <<d.src, Start(off) + i>>]

------------------------------------------------------------------------------
\* The client.

\* It opens the node and is shown its streams.
Open ==
    /\ phase = "done" /\ status = "closed"
    /\ \A i \in DOMAIN records : records[i] \in Served
    /\ shown' = StreamsShown
    /\ status' = "shown"
    /\ UNCHANGED <<vars, cnid, node, stream, base, got>>

\* It chooses a stream, and an offset in it or anywhere.
Choose ==
    /\ status = "shown"
    /\ stream' \in DOMAIN shown
    /\ base' \in Offsets
    /\ status' = "open"
    /\ UNCHANGED <<vars, cnid, node, shown, got>>

\* read_at with a buffer, at the position reached.
Read_at(len) ==
    /\ status = "open"
    /\ LET data == DataOf(shown[stream].id) IN
        \/ /\ data = None
           /\ status' = "failed" /\ UNCHANGED got
        \/ \E d \in data : LET piece == Copied(d, base + Len(got), len) IN
            /\ got' = got \o piece
            /\ status' = IF piece = <<>> THEN "ended" ELSE "open"
    /\ UNCHANGED <<vars, cnid, node, shown, stream, base>>

Client == Open \/ Choose \/ \E len \in BufferLens : Read_at(len)

VfsNext == (Next /\ UNCHANGED client) \/ Client

VfsSpec == VfsInit /\ [][VfsNext]_<<vars, client>>

------------------------------------------------------------------------------
Source == {<<"data fork">>} \cup ({"decoded", "attribute"} \X Contents)

VfsTypeOK ==
    /\ cnid \in CNIDs /\ node \in Nodes
    /\ shown \in Seq([id : {Default} \cup 0..U16Max, size : Nat])
    /\ stream \in {0} \cup DOMAIN shown
    /\ base \in 0..U64Max
    /\ got \in Seq(Source \X (1..UsizeMax))
    /\ status \in {"closed", "shown", "open", "ended", "failed"}

\* The attribute shown as stream k + 1 can be told from all others: it is the first of its
\* name, nothing continues it, and its index fits in a u16.
Distinct(k) ==
    /\ FirstOfName(cnid, k) /\ Uncontinued(cnid, listed[cnid][k].name)
    /\ k - 1 <= U16Max

\* What a file's bytes are: decoded, if some record of the attributes tree holds a decmpfs
\* attribute inline, from the first of these; the data fork's only if there is none.
DecmpfsRecords ==
    {i \in DOMAIN records : attr_inline_value(records[i], cnid, DECMPFS_XATTR_NAME) # None}

FileContent ==
    IF DecmpfsRecords = {}
    THEN UNION {DataFork(f) : f \in node.forks}
    ELSE LET i == CHOOSE j \in DecmpfsRecords : \A l \in DecmpfsRecords : j <= l
         IN UNION {decompress(records[i], ResourceFork(f)) : f \in node.forks}

\* What an attribute's bytes are: the value shown, if it is inline and distinct, and else
\* what is found under the name the index stands for.
AttributeContent(k) ==
    IF listed[cnid][k].value.inline /\ Distinct(k)
    THEN Some(AttributeData(listed[cnid][k].value))
    ELSE {AttributeData(v) : v \in read_xattr_at(cnid, AtMost(k - 1, U16Max) + 1)}

StreamContent ==
    IF status \in {"closed", "shown"} THEN None
    ELSE IF stream = 1 THEN FileContent ELSE AttributeContent(stream - 1)

\* Reading in pieces, each call decoding the whole file or searching the whole tree anew,
\* gives the bytes of one content, in order and without a gap, from any u64 offset on;
\* that content is what was shown, and never the data fork of a compressed file.
Stream == INSTANCE ByteStream
    WITH content <- StreamContent,
         status <- IF status = "shown" THEN "closed" ELSE status

PiecesMakeTheContent == Stream!Spec

\* A client that reads a stream from its start to its end receives as many bytes as it was
\* shown, if the stream is the data fork, whole, of a file not compressed, or a distinct
\* attribute that is stored inline: stat and the fork lookup, list and read agree.
SizeShownIsRead ==
    (status = "ended" /\ base = 0 /\
        IF stream = 1
        THEN /\ DecmpfsRecords = {}
             /\ \A f \in node.forks : node.size = Some(f.data.got)
        ELSE listed[cnid][stream - 1].value.inline /\ Distinct(stream - 1))
    => Len(got) = shown[stream].size
==============================================================================
