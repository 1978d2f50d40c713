-------------------------------- MODULE Xattrs --------------------------------
(***************************************************************************)
(* The passes over the attributes B-tree: list_xattrs, read_xattr and      *)
(* decmpfs_xattr (core/src/lib.rs), and read_xattr_at of the VFS adapter   *)
(* (core/src/vfs.rs), which resolves an index into the list to a name and  *)
(* reads that.  Three parsers look at each record, with guards of their    *)
(* own.  As in Catalog, the passes are stepped together over the records   *)
(* in leaf order, for every CNID and name at once.                         *)
(***************************************************************************)
EXTENDS Integers, Sequences

CONSTANTS
    CNIDs,              \* catalog node IDs
    Names,              \* attribute names
    DECMPFS_XATTR_NAME, \* the name of the attribute of compressed files
    Contents,           \* what an attribute's bytes may be
    Records,            \* the records an attributes tree may hold
    MaxRecords          \* bound on the records of one tree

ATTR_INLINE_DATA == 16
ATTR_FORK_DATA == 32

None == {}
Some(x) == {x}

\* avail: bytes from the record's offset to the node end; keyLen, owner (fileID),
\* start_block, nameLen, name: the key; rtype: the body's recordType; size: attrSize, or
\* the logical size of the fork; content: the bytes, inline or in the fork's extents; got:
\* how many of them fork_bytes materializes, -1 for None (ForkRead).
Record == [avail : Nat, keyLen : Nat, owner : CNIDs, start_block : Nat, nameLen : Nat,
           name : Names, rtype : Int, size : Nat, content : Contents, got : Nat \cup {-1}]

ASSUME AttributesAssumption ==
    /\ DECMPFS_XATTR_NAME \in Names
    /\ Records \subseteq Record
    /\ MaxRecords \in Nat

Value == [inline : BOOLEAN, size : Nat, content : Contents]
HfsXattr == [name : Names, value : Value]

VARIABLES
    phase,      \* "walk": records are being delivered; then "done"
    records,    \* history: the records delivered, in leaf order
    listed,     \* list_xattrs' out, for every CNID
    found,      \* read_xattr's found, for every CNID and name
    decmpfs     \* decmpfs_xattr's found, for every CNID

vars == <<phase, records, listed, found, decmpfs>>

Init ==
    /\ phase = "walk"
    /\ records = <<>>
    /\ listed = [c \in CNIDs |-> <<>>]
    /\ found = [c \in CNIDs |-> [n \in Names |-> None]]
    /\ decmpfs = [c \in CNIDs |-> None]

------------------------------------------------------------------------------
\* The parsers.

\* The record reaches n bytes into its body, behind the key.
Body(r, n) == 2 + r.keyLen + n <= r.avail

NameFits(r) == 14 + 2 * r.nameLen <= r.avail

\* attr_key: the record's key belongs to c, and there is a recordType to read.
attr_key(r, c) == NameFits(r) /\ r.owner = c /\ Body(r, 4)

Inline(r) == [inline |-> TRUE, size |-> r.size, content |-> r.content]

\* A mutant of inline_value: the value may end behind the record.
UnboundedValue(r) == IF Body(r, 16) THEN Some(Inline(r)) ELSE None

inline_value(r) == IF Body(r, 16) /\ Body(r, 16 + r.size) THEN Some(Inline(r)) ELSE None

\* parse_fork of the HFSPlusForkData 8 bytes into the body.
ForkParsed(r) == Body(r, 8 + 80)

\* The value list_xattrs gives: of a fork, its length only.
parse_attr_record(r, c) ==
    IF ~attr_key(r, c) \/ r.start_block # 0 THEN None
    ELSE CASE r.rtype = ATTR_INLINE_DATA -> inline_value(r)
           [] r.rtype = ATTR_FORK_DATA /\ ForkParsed(r) ->
                Some([inline |-> FALSE, size |-> r.size, content |-> r.content])
           [] OTHER -> None

\* A mutant of Read: a fork that cannot be read counts as found.
ReadAnyFork(r, c, n) ==
    IF ~attr_key(r, c) \/ r.name # n THEN None
    ELSE CASE r.rtype = ATTR_INLINE_DATA -> inline_value(r)
           [] r.rtype = ATTR_FORK_DATA /\ ForkParsed(r) ->
                Some([inline |-> FALSE, size |-> r.got, content |-> r.content])
           [] OTHER -> None

\* What read_xattr's closure makes of a record.
Read(r, c, n) ==
    IF ~attr_key(r, c) \/ r.name # n THEN None
    ELSE CASE r.rtype = ATTR_INLINE_DATA -> inline_value(r)
           [] r.rtype = ATTR_FORK_DATA /\ ForkParsed(r) /\ r.got # -1 ->
                Some([inline |-> FALSE, size |-> r.got, content |-> r.content])
           [] OTHER -> None

\* A mutant of attr_inline_value: the name is not compared.
ValueOfAnyName(r, c, want_name) ==
    IF /\ NameFits(r) /\ r.owner = c
       /\ Body(r, 16) /\ r.rtype = ATTR_INLINE_DATA /\ Body(r, 16 + r.size)
    THEN Some(Inline(r))
    ELSE None

attr_inline_value(r, c, want_name) ==
    IF /\ NameFits(r) /\ r.owner = c /\ r.name = want_name
       /\ Body(r, 16) /\ r.rtype = ATTR_INLINE_DATA /\ Body(r, 16 + r.size)
    THEN Some(Inline(r))
    ELSE None

------------------------------------------------------------------------------
\* The passes.

\* A mutant of OrElse: a later match replaces the one found.
LastWins(old, new) == IF new # None THEN new ELSE old

\* `found` keeps the first value it is given.
OrElse(old, new) == IF old = None THEN new ELSE old

\* A mutant of Pushed: only inline values are listed.
PushedInline(list, r, c) ==
    IF parse_attr_record(r, c) = None \/ r.rtype # ATTR_INLINE_DATA THEN list
    ELSE Append(list, [name |-> r.name, value |-> Inline(r)])

\* list_xattrs' list with what the record adds to it.
Pushed(list, r, c) ==
    IF parse_attr_record(r, c) = None THEN list
    ELSE Append(list, [name |-> r.name,
                       value |-> CHOOSE v \in parse_attr_record(r, c) : TRUE])

\* One record, handed to every pass's closure.
Deliver(r) ==
    /\ phase = "walk" /\ Len(records) < MaxRecords
    /\ records' = Append(records, r)
    /\ listed' = [c \in CNIDs |-> Pushed(listed[c], r, c)]
    /\ found' = [c \in CNIDs |-> [n \in Names |-> OrElse(found[c][n], Read(r, c, n))]]
    /\ decmpfs' = [c \in CNIDs |->
                    OrElse(decmpfs[c], attr_inline_value(r, c, DECMPFS_XATTR_NAME))]
    /\ UNCHANGED phase

EndOfAttributes ==
    /\ phase = "walk"
    /\ phase' = "done"
    /\ UNCHANGED <<records, listed, found, decmpfs>>

Next == (\E r \in Records : Deliver(r)) \/ EndOfAttributes

Spec == Init /\ [][Next]_vars

\* read_xattr_at: the index is looked up in a list made anew, its name is read.
read_xattr_at(c, idx) == found[c][listed[c][idx].name]
------------------------------------------------------------------------------
TypeOK ==
    /\ phase \in {"walk", "done"}
    /\ records \in Seq(Record)
    /\ listed \in [CNIDs -> Seq(HfsXattr)]
    /\ found \in [CNIDs -> [Names -> SUBSET Value]]
    /\ decmpfs \in [CNIDs -> SUBSET Value]

\* The records that hold the attribute n of c, or continue its fork.
Holders(c, n) == {i \in DOMAIN records : attr_key(records[i], c) /\ records[i].name = n}

\* No record holding n lies beyond start block 0, as those do that continue a fork.
Uncontinued(c, n) == \A i \in Holders(c, n) : records[i].start_block = 0

FirstOfName(c, k) == \A j \in 1..(k - 1) : listed[c][j].name # listed[c][k].name

\* What the list shows can be read through its index: an inline attribute always; and with
\* the very value shown, if it is the first of its name and nothing continues it (the two
\* passes, each with its own matching, settle on the same one of several records).
ListedAreRead ==
    \A c \in CNIDs : \A k \in DOMAIN listed[c] :
        LET x == listed[c][k] IN
        x.value.inline =>
            /\ read_xattr_at(c, k) # None
            /\ FirstOfName(c, k) /\ Uncontinued(c, x.name) => read_xattr_at(c, k) = Some(x.value)

\* What can be read by name is listed, stored as it is listed, so that no attribute
\* readable by name is missing from what an examiner is shown; only a record that
\* continues a fork may be read and not listed.
ReadsAreListed ==
    \A c \in CNIDs, n \in Names : \A v \in found[c][n] :
        Uncontinued(c, n) =>
            \E k \in DOMAIN listed[c] :
                /\ listed[c][k].name = n
                /\ listed[c][k].value.inline = v.inline
                /\ listed[c][k].value.content = v.content

\* read_file's own search for the decmpfs attribute, with a parser of its own, finds what
\* read_xattr finds under that name, unless a record of that name stores its value in a
\* fork: a file is taken for compressed by one function exactly if the attribute can be
\* read by the other.
DecmpfsAgrees ==
    \A c \in CNIDs :
        /\ decmpfs[c] # None => found[c][DECMPFS_XATTR_NAME] # None
        /\ (\A i \in Holders(c, DECMPFS_XATTR_NAME) : records[i].rtype # ATTR_FORK_DATA)
           => decmpfs[c] = found[c][DECMPFS_XATTR_NAME]
==============================================================================
