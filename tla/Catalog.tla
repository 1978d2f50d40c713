------------------------------- MODULE Catalog -------------------------------
(***************************************************************************)
(* The passes over the catalog's leaf records: list_dir, stat and the      *)
(* fork lookup of read_file (core/src/lib.rs), and the collecting pass of  *)
(* audit with its dangling-thread and timestamp checks                     *)
(* (forensic/src/findings.rs).                                             *)
(*                                                                         *)
(* Each is a walk of its own over the same records in the same order (the  *)
(* volume never changes and LeafWalk delivers RecordStream's list), so the *)
(* model steps them together, for every CNID at once: after k records the  *)
(* state holds what each closure has gathered from the first k.            *)
(***************************************************************************)
EXTENDS CatalogRecord

CONSTANTS
    Records,            \* the records a catalog may hold
    MaxRecords,         \* bound on the records of one catalog
    HFS_EPOCH_TO_UNIX,  \* seconds from 1904 to 1970
    VolumeDates         \* last-written dates of the volume header; 0 is unknown

ASSUME RecordsAssumption ==
    /\ Records \subseteq Record
    /\ MaxRecords \in Nat
    /\ HFS_EPOCH_TO_UNIX \in Nat \ {0}
    /\ VolumeDates \subseteq Nat

VARIABLES
    phase,          \* "walk": records are being delivered; then "threads", "files", "done"
    records,        \* history: the records delivered, in leaf order
    listed,         \* what list_dir has pushed, for every parent
    statOf,         \* stat's `found`, for every CNID
    forksOf,        \* read_file's `forks`, for every CNID
    record_cnids,   \* audit's set of file/folder CNIDs
    files,          \* audit's list of files
    threads,        \* audit's list of threads
    dangling,       \* CNIDs reported DeletedButReferenced
    volume_modify,  \* the volume's last-written date, as audit reads it
    timed           \* the TimeAnomaly findings: files, and why

gathered == <<records, listed, statOf, forksOf, record_cnids, files, threads>>
vars == <<phase, gathered, dangling, volume_modify, timed>>

Init ==
    /\ phase = "walk"
    /\ records = <<>>
    /\ listed = {}
    /\ statOf = [c \in CNIDs |-> None]
    /\ forksOf = [c \in CNIDs |-> None]
    /\ record_cnids = {} /\ files = {} /\ threads = {} /\ dangling = {}
    /\ volume_modify = 0 /\ timed = {}

\* `if found.is_none() { found = new }`
OrElse(found, new) == IF found = None THEN new ELSE found

\* A mutant of Collected: only records with both forks in the slice count as entries.
CollectedFilesOnly(r) == IF FileOf(r) # None THEN {r.cnid} ELSE {}

\* The CNIDs audit's closure inserts for a record.
Collected(r) == IF IsCatalogEntry(r) THEN {r.cnid} ELSE {}

\* A mutant of Deliver: read_file lacks the `is_none` test, and a later match replaces the
\* forks found.
DeliverLastForks(r) ==
    /\ phase = "walk" /\ Len(records) < MaxRecords
    /\ records' = Append(records, r)
    /\ listed' = listed \cup record_entry(r)
    /\ statOf' = [c \in CNIDs |-> OrElse(statOf[c], record_stat(r, c))]
    /\ forksOf' = [c \in CNIDs |-> OrElse(file_forks(r, c), forksOf[c])]
    /\ record_cnids' = record_cnids \cup Collected(r)
    /\ files' = files \cup FileOf(r)
    /\ threads' = threads \cup ThreadOf(r)
    /\ UNCHANGED <<phase, dangling, volume_modify, timed>>

\* One record, handed to every pass's closure.
Deliver(r) ==
    /\ phase = "walk" /\ Len(records) < MaxRecords
    /\ records' = Append(records, r)
    /\ listed' = listed \cup record_entry(r)
    /\ statOf' = [c \in CNIDs |-> OrElse(statOf[c], record_stat(r, c))]
    /\ forksOf' = [c \in CNIDs |-> OrElse(forksOf[c], file_forks(r, c))]
    /\ record_cnids' = record_cnids \cup Collected(r)
    /\ files' = files \cup FileOf(r)
    /\ threads' = threads \cup ThreadOf(r)
    /\ UNCHANGED <<phase, dangling, volume_modify, timed>>

\* for_each_record returns.
EndOfCatalog ==
    /\ phase = "walk"
    /\ phase' = "threads"
    /\ UNCHANGED <<gathered, dangling, volume_modify, timed>>

\* Step 3 of audit: threads whose CNID has no collected record.
ReportDangling ==
    /\ phase = "threads"
    /\ dangling' = {t.cnid : t \in {u \in threads : u.cnid \notin record_cnids}}
    /\ phase' = "files"
    /\ UNCHANGED <<gathered, volume_modify, timed>>

Reasons == {"modified before created", "before 1904", "after the volume"}

\* audit_time: at most one finding for a file, from the first of three tests it fails.
ModifiedFirst(f) == f.create > f.content_mod /\ f.content_mod # 0

BelowEpoch(f) == \E t \in {f.create, f.content_mod} : t # 0 /\ t < HFS_EPOCH_TO_UNIX

\* A mutant of NewerThan: the creation date alone is compared with the volume's.
CreatedAfter(f, date) == date # 0 /\ f.create > date

NewerThan(f, date) == date # 0 /\ \E t \in {f.create, f.content_mod} : t > date

audit_time(f, date) ==
    IF ModifiedFirst(f) THEN Some("modified before created")
    ELSE IF BelowEpoch(f) THEN Some("before 1904")
    ELSE IF NewerThan(f, date) THEN Some("after the volume")
    ELSE None

\* Step 4 of audit, as far as the timestamps go.
AuditTimes ==
    /\ phase = "files"
    /\ volume_modify' \in VolumeDates
    /\ timed' = {a \in files \X Reasons : a[2] \in audit_time(a[1], volume_modify')}
    /\ phase' = "done"
    /\ UNCHANGED <<gathered, dangling>>

Next == (\E r \in Records : Deliver(r)) \/ EndOfCatalog \/ ReportDangling \/ AuditTimes

Spec == Init /\ [][Next]_vars

------------------------------------------------------------------------------
TypeOK ==
    /\ phase \in {"walk", "threads", "files", "done"}
    /\ records \in Seq(Record)
    /\ listed \subseteq Entry
    /\ statOf \in [CNIDs -> SUBSET Stat]
    /\ forksOf \in [CNIDs -> SUBSET ForkPair]
    /\ record_cnids \subseteq CNIDs
    /\ files \subseteq CatalogFile
    /\ threads \subseteq Thread
    /\ dangling \subseteq CNIDs
    /\ volume_modify \in Nat
    /\ timed \subseteq CatalogFile \X Reasons

\* The records that claim to be the file or folder c.
Claims(c) == {i \in DOMAIN records : IsEntryType(records[i]) /\ records[i].cnid = c}

Unique(c) == \A i, j \in Claims(c) : i = j

\* A DeletedButReferenced finding means that no directory listing shows the CNID, and a
\* thread without a listed entry is always reported: record_entry and classify_record,
\* two parsers with guards of their own, agree on what an entry is, and the threads are
\* compared with the CNIDs of the whole catalog wherever in it the threads stand.
DanglingIffUnlisted ==
    phase \in {"files", "done"} =>
        \A t \in threads : t.cnid \in dangling <=> ~\E e \in listed : e.cnid = t.cnid

\* A file record that is there in full, name and both forks.
WholeFile(r) == NameFits(r) /\ r.rtype = RECORD_FILE /\ Body(r, 248)

\* A damaged catalog may hold a CNID several times, in part or in full.  If the first of
\* the records that claim it and reach as far as stat reads is a whole file, then the
\* three lookups settle on that one record, whatever other claims precede or follow it:
\* stat shows its size and times, read_file returns its forks, and audit has looked at
\* both.  (Where a folder, or a file cut off before its data fork, comes first, stat
\* answers from that record and read_file from a later one, or from none.)
DuplicatesSettleAlike ==
    \A c \in CNIDs : \A i \in Claims(c) :
        (WholeFile(records[i]) /\ \A j \in Claims(c) : j < i => ~Body(records[j], 32))
            => \E f \in files :
                /\ f.cnid = c
                /\ statOf[c] = Some([is_dir |-> FALSE, size |-> f.logical,
                                     created |-> f.create, modified |-> f.content_mod])
                /\ forksOf[c] = Some([data |-> f.logical, resource |-> f.resource])

\* What read_file finds, stat finds: a CNID with forks has a stat, and if one record only
\* claims it, that stat is a file's and its size is the length read_file truncates to
\* (no reading past a cut in the record for one function and not for the other).
ForksMatchStat ==
    \A c \in CNIDs : forksOf[c] # None =>
        /\ statOf[c] # None
        /\ Unique(c) => \A s \in statOf[c], f \in forksOf[c] : ~s.is_dir /\ s.size = f.data

\* What the analyzer audits, the reader reads: each file audit collects is one that
\* read_file finds, and if one record only claims its CNID, with the very same forks.
AuditedFilesAreRead ==
    \A f \in files :
        /\ forksOf[f.cnid] # None
        /\ Unique(f.cnid) => forksOf[f.cnid] = Some([data |-> f.logical, resource |-> f.resource])

\* The time the VFS adapter shows for a raw value, in seconds since 1970.
hfs_time(secs) == secs - HFS_EPOCH_TO_UNIX

\* The times stat shows are coherent - in order, none before 1970, none after the volume
\* was last written - exactly for the files no TimeAnomaly names, if one record only claims
\* the CNID: the early returns of audit_time leave no bad pair unreported, an unknown
\* (zero) time excuses only itself, and audit looks at the very times the reader shows.
TimesShownAreAudited ==
    phase = "done" =>
        \A f \in files : Unique(f.cnid) =>
            \A s \in statOf[f.cnid] :
                (\A a \in timed : a[1] # f) <=>
                    /\ s.modified = 0 \/ s.created <= s.modified
                    /\ \A t \in {s.created, s.modified} \ {0} :
                        hfs_time(t) >= 0 /\ (volume_modify = 0 \/ t <= volume_modify)

------------------------------------------------------------------------------
\* What docs say of the findings, and the code does not do.

\* What the doc of DeletedButReferenced says: "no file/folder catalog record with that
\* CNID exists".  stat, which looks for the "file/folder record with cnid", finds none.
DanglingMeansGone == \A c \in dangling : statOf[c] = None

\* "A non-zero HFS+ timestamp below this is impossible (it predates the epoch)": a time
\* reported to be before 1904 is earlier than the raw value 0, which is 1904.
BeforeTheEpoch ==
    \A a \in timed : a[2] = "before 1904" =>
        \E t \in {a[1].create, a[1].content_mod} : hfs_time(t) < hfs_time(0)
==============================================================================
