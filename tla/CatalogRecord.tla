---------------------------- MODULE CatalogRecord ----------------------------
(***************************************************************************)
(* The four readings of a catalog leaf record: record_entry, record_stat   *)
(* and file_forks of core/src/lib.rs, and classify_record of               *)
(* forensic/src/findings.rs.  Each guards its own accesses, and the guards *)
(* differ, so a damaged record can be one thing to one reading and another *)
(* (or nothing) to the next.                                               *)
(*                                                                         *)
(* A record is what for_each_record hands out: `avail` bytes, at least 8,  *)
(* from the record's offset to the node end.  Its body starts behind the   *)
(* key.  Names are left out; a fork is its logical size.  An Option is a   *)
(* set of at most one value.                                               *)
(***************************************************************************)
EXTENDS Integers, Sequences

CONSTANTS
    CNIDs,      \* catalog node IDs
    Sizes       \* logical sizes of forks

ASSUME SizesAssumption == 0 \in Sizes

RECORD_FOLDER == 1
RECORD_FILE == 2
RECORD_FOLDER_THREAD == 3
RECORD_FILE_THREAD == 4

None == {}
Some(x) == {x}

\* keyLen, nameLen: the length fields of the key; parent: the key's CNID (of a thread
\* record, the CNID it stands for); cnid, size, rsize: the body's folderID/fileID and the
\* logical sizes of the two forks; created, modified: the body's createDate and
\* contentModDate, in seconds since 1904; tparent: a thread body's parentID.
Record == [avail : Nat, keyLen : Nat, nameLen : Nat, parent : CNIDs, rtype : Int,
           cnid : CNIDs, size : Sizes, rsize : Sizes, created : Nat, modified : Nat,
           tparent : CNIDs]

Entry == [parent : CNIDs, is_dir : BOOLEAN, cnid : CNIDs]
Stat == [is_dir : BOOLEAN, size : Sizes, created : Nat, modified : Nat]
ForkPair == [data : Sizes, resource : Sizes]
CatalogFile == [cnid : CNIDs, logical : Sizes, resource : Sizes, create : Nat,
                content_mod : Nat]
Thread == [cnid : CNIDs, parent : CNIDs]

\* The record reaches n bytes into its body.
Body(r, n) == 2 + r.keyLen + n <= r.avail

NameFits(r) == 8 + 2 * r.nameLen <= r.avail

IsDirType(r) == r.rtype = RECORD_FOLDER
IsEntryType(r) == r.rtype \in {RECORD_FOLDER, RECORD_FILE}

record_entry(r) ==
    IF NameFits(r) /\ Body(r, 12) /\ IsEntryType(r)
    THEN Some([parent |-> r.parent, is_dir |-> IsDirType(r), cnid |-> r.cnid])
    ELSE None

\* A mutant of record_stat: the sizes of both forks.
StatBothForks(r, c) ==
    IF Body(r, 32) /\ IsEntryType(r) /\ r.cnid = c
    THEN Some([is_dir |-> IsDirType(r), size |-> r.size + r.rsize,
               created |-> r.created, modified |-> r.modified])
    ELSE None

record_stat(r, c) ==
    IF Body(r, 32) /\ IsEntryType(r) /\ r.cnid = c
    THEN Some([is_dir |-> IsDirType(r),
               size |-> IF ~IsDirType(r) /\ Body(r, 96) THEN r.size ELSE 0,
               created |-> r.created, modified |-> r.modified])
    ELSE None

\* A mutant of file_forks: the record type is not tested.
ForksOfAnyRecord(r, c) ==
    IF Body(r, 168) /\ r.cnid = c
    THEN Some([data |-> r.size, resource |-> IF Body(r, 248) THEN r.rsize ELSE 0])
    ELSE None

file_forks(r, c) ==
    IF Body(r, 168) /\ r.rtype = RECORD_FILE /\ r.cnid = c
    THEN Some([data |-> r.size, resource |-> IF Body(r, 248) THEN r.rsize ELSE 0])
    ELSE None

\* classify_record: an Entry with or without a CatalogFile, or a Thread.
IsCatalogEntry(r) == NameFits(r) /\ IsEntryType(r) /\ Body(r, 12)

\* A mutant of FileOf: the forks are read whether the record reaches them or not.
FileOfAnyLength(r) ==
    IF IsCatalogEntry(r) /\ r.rtype = RECORD_FILE
    THEN Some([cnid |-> r.cnid, logical |-> r.size, resource |-> r.rsize,
               create |-> r.created, content_mod |-> r.modified])
    ELSE None

FileOf(r) ==
    IF IsCatalogEntry(r) /\ r.rtype = RECORD_FILE /\ Body(r, 248)
    THEN Some([cnid |-> r.cnid, logical |-> r.size, resource |-> r.rsize,
               create |-> r.created, content_mod |-> r.modified])
    ELSE None

ThreadOf(r) ==
    IF /\ NameFits(r) /\ Body(r, 10)
       /\ r.rtype \in {RECORD_FOLDER_THREAD, RECORD_FILE_THREAD}
    THEN Some([cnid |-> r.parent, parent |-> r.tparent])
    ELSE None
==============================================================================
