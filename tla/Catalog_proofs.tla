---------------------------- MODULE Catalog_proofs ----------------------------
(***************************************************************************)
(* Catalog for every set of CNIDs, sizes and records and any number of     *)
(* records: what the passes of reader and analyzer tell of one catalog     *)
(* fits together.                                                          *)
(***************************************************************************)
EXTENDS Catalog, TLAPS

\* The type invariant is inductive as it stands.
THEOREM TypeCorrect == Spec => []TypeOK
<1>1. Init => TypeOK
  BY DEF Init, TypeOK, None
<1>2. TypeOK /\ [Next]_vars => TypeOK'
  <2> SUFFICES ASSUME TypeOK, [Next]_vars PROVE TypeOK'
    OBVIOUS
  <2> USE DEF TypeOK
  <2>1. ASSUME NEW r \in Records, Deliver(r) PROVE TypeOK'
    <3>1. r \in Record
      BY RecordsAssumption
    <3>2. /\ records' \in Seq(Record) /\ phase' \in {"walk", "threads", "files", "done"}
          /\ dangling' \subseteq CNIDs
          /\ volume_modify' \in Nat /\ timed' \subseteq CatalogFile \X Reasons
      BY <2>1, <3>1 DEF Deliver
    <3>3. record_entry(r) \subseteq Entry /\ Collected(r) \subseteq CNIDs
      <4>1. r.parent \in CNIDs /\ r.cnid \in CNIDs
        BY <3>1 DEF Record
      <4>2. IsDirType(r) \in BOOLEAN
        BY DEF IsDirType
      <4>3. [parent |-> r.parent, is_dir |-> IsDirType(r), cnid |-> r.cnid] \in Entry
        BY <4>1, <4>2, Zenon DEF Entry
      <4>4. record_entry(r) \subseteq Entry
        BY <4>3, Zenon DEF record_entry, None, Some
      <4> QED BY <4>1, <4>4 DEF Collected
    <3>4. FileOf(r) \subseteq CatalogFile /\ ThreadOf(r) \subseteq Thread
      BY <3>1 DEF FileOf, ThreadOf, CatalogFile, Thread, Record, None, Some
    <3>5. ASSUME NEW c \in CNIDs
          PROVE record_stat(r, c) \subseteq Stat /\ file_forks(r, c) \subseteq ForkPair
      <4>1. record_stat(r, c) \subseteq Stat
        <5> DEFINE size == IF ~IsDirType(r) /\ Body(r, 96) THEN r.size ELSE 0
        <5>1. size \in Sizes
          BY <3>1, SizesAssumption DEF Record
        <5>2. IsDirType(r) \in BOOLEAN
          BY DEF IsDirType
        <5>3. r.created \in Nat /\ r.modified \in Nat
          BY <3>1 DEF Record
        <5>4. [is_dir |-> IsDirType(r), size |-> size, created |-> r.created,
               modified |-> r.modified] \in Stat
          BY <5>1, <5>2, <5>3, Zenon DEF Stat
        <5> QED BY <5>4, Zenon DEF record_stat, None, Some
      <4>2. file_forks(r, c) \subseteq ForkPair
        BY <3>1, SizesAssumption DEF file_forks, ForkPair, Record, None, Some
      <4> QED BY <4>1, <4>2
    <3>6. statOf' \in [CNIDs -> SUBSET Stat] /\ forksOf' \in [CNIDs -> SUBSET ForkPair]
      BY <2>1, <3>5 DEF Deliver, OrElse
    <3>7. /\ listed' \subseteq Entry /\ record_cnids' \subseteq CNIDs
          /\ files' \subseteq CatalogFile /\ threads' \subseteq Thread
      BY <2>1, <3>3, <3>4 DEF Deliver
    <3> QED BY <3>2, <3>6, <3>7
  <2>2. CASE EndOfCatalog
    BY <2>2 DEF EndOfCatalog, gathered
  <2>3. CASE ReportDangling
    BY <2>3 DEF ReportDangling, gathered, Thread
  <2>4. CASE AuditTimes
    <3>1. volume_modify' \in Nat
      BY <2>4, RecordsAssumption DEF AuditTimes
    <3>2. timed' \subseteq CatalogFile \X Reasons
      BY <2>4 DEF AuditTimes
    <3> QED BY <2>4, <3>1, <3>2 DEF AuditTimes, gathered
  <2>5. CASE UNCHANGED vars
    BY <2>5 DEF vars, gathered
  <2> QED BY <2>1, <2>2, <2>3, <2>4, <2>5 DEF Next
<1> QED BY <1>1, <1>2, PTL DEF Spec

------------------------------------------------------------------------------
\* `found` is the first value of the readings f[1], f[2], ... that is not None.
IsFirst(found, f) ==
    \/ found = None /\ \A i \in DOMAIN f : f[i] = None
    \/ \E i \in DOMAIN f : /\ f[i] # None /\ found = f[i]
                          /\ \A j \in DOMAIN f : j < i => f[j] = None

\* What stat and read_file have found is the first reading in leaf order that succeeds.
FirstsFound ==
    \A c \in CNIDs :
        /\ IsFirst(statOf[c], [i \in DOMAIN records |-> record_stat(records[i], c)])
        /\ IsFirst(forksOf[c], [i \in DOMAIN records |-> file_forks(records[i], c)])

\* The first value of a list of readings stays the first when one is appended.
LEMMA FirstOfAppend ==
    ASSUME NEW f, NEW g, NEW n \in Nat, NEW found, NEW new,
           DOMAIN f = 1..n, DOMAIN g = 1..(n + 1),
           \A i \in 1..n : g[i] = f[i],
           g[n + 1] = new,
           IsFirst(found, f)
    PROVE  IsFirst(OrElse(found, new), g)
<1>1. CASE found # None
  <2>1. PICK i \in 1..n : /\ f[i] # None /\ found = f[i]
                          /\ \A j \in 1..n : j < i => f[j] = None
    BY <1>1 DEF IsFirst
  <2>2. i \in 1..(n + 1) /\ g[i] # None /\ found = g[i]
    BY <2>1
  <2>3. \A j \in 1..(n + 1) : j < i => g[j] = None
    BY <2>1
  <2> QED BY <1>1, <2>2, <2>3 DEF IsFirst, OrElse
<1>2. CASE found = None
  <2>1. \A i \in 1..n : f[i] = None
    BY <1>2 DEF IsFirst
  <2>2. \A j \in 1..(n + 1) : j < n + 1 => g[j] = None
    BY <2>1
  <2>3. CASE new = None
    <3>1. \A j \in 1..(n + 1) : g[j] = None
      BY <2>2, <2>3
    <3> QED BY <1>2, <2>3, <3>1 DEF IsFirst, OrElse
  <2>4. CASE new # None
    BY <1>2, <2>2, <2>4 DEF IsFirst, OrElse
  <2> QED BY <2>3, <2>4
<1> QED BY <1>1, <1>2

\* There is one first reading only.
LEMMA OnlyFirst ==
    ASSUME NEW found, NEW f, NEW n \in Nat, DOMAIN f = 1..n, IsFirst(found, f),
           NEW i \in DOMAIN f, f[i] # None, \A j \in DOMAIN f : j < i => f[j] = None
    PROVE  found = f[i]
<1>1. PICK k \in 1..n : /\ f[k] # None /\ found = f[k]
                        /\ \A j \in 1..n : j < k => f[j] = None
  BY DEF IsFirst
<1>2. i \in 1..n /\ ~(k < i) /\ ~(i < k)
  BY <1>1
<1> QED BY <1>1, <1>2

\* So it is for stat and for read_file, for every CNID, at each record of the walk.
LEMMA FirstMatchWins == Spec => []FirstsFound
<1>1. Init => FirstsFound
  <2> SUFFICES ASSUME Init, NEW c \in CNIDs
               PROVE  /\ IsFirst(statOf[c], [i \in DOMAIN records |-> record_stat(records[i], c)])
                      /\ IsFirst(forksOf[c], [i \in DOMAIN records |-> file_forks(records[i], c)])
    BY DEF FirstsFound
  <2>1. DOMAIN records = {} /\ statOf[c] = None /\ forksOf[c] = None
    BY DEF Init
  <2> QED BY <2>1 DEF IsFirst
<1>2. TypeOK /\ FirstsFound /\ [Next]_vars => FirstsFound'
  <2> SUFFICES ASSUME TypeOK, FirstsFound, [Next]_vars
               PROVE  FirstsFound'
    OBVIOUS
  <2>1. ASSUME NEW r \in Records, Deliver(r) PROVE FirstsFound'
    <3> SUFFICES ASSUME NEW c \in CNIDs
                 PROVE  /\ IsFirst(statOf'[c], [i \in DOMAIN records' |-> record_stat(records'[i], c)])
                        /\ IsFirst(forksOf'[c], [i \in DOMAIN records' |-> file_forks(records'[i], c)])
      BY DEF FirstsFound
    <3> DEFINE n == Len(records)
    <3>1. /\ n \in Nat /\ DOMAIN records = 1..n
          /\ DOMAIN records' = 1..(n + 1)
          /\ \A i \in 1..n : records'[i] = records[i]
          /\ records'[n + 1] = r
      BY <2>1 DEF Deliver, TypeOK
    <3>2. /\ statOf'[c] = OrElse(statOf[c], record_stat(r, c))
          /\ forksOf'[c] = OrElse(forksOf[c], file_forks(r, c))
      BY <2>1 DEF Deliver
    <3>3. IsFirst(statOf'[c], [i \in DOMAIN records' |-> record_stat(records'[i], c)])
      <4> DEFINE f == [i \in DOMAIN records |-> record_stat(records[i], c)]
                 g == [i \in DOMAIN records' |-> record_stat(records'[i], c)]
      <4>1. DOMAIN f = 1..n /\ DOMAIN g = 1..(n + 1) /\ \A i \in 1..n : g[i] = f[i]
        BY <3>1
      <4>2. g[n + 1] = record_stat(r, c)
        BY <3>1
      <4>3. IsFirst(statOf[c], f)
        BY DEF FirstsFound
      <4>4. n \in Nat
        BY <3>1
      <4> HIDE DEF f, g, n
      <4>5. IsFirst(OrElse(statOf[c], record_stat(r, c)), g)
        BY <4>1, <4>2, <4>3, <4>4, FirstOfAppend
      <4> QED BY <3>2, <4>5 DEF g
    <3>4. IsFirst(forksOf'[c], [i \in DOMAIN records' |-> file_forks(records'[i], c)])
      <4> DEFINE f == [i \in DOMAIN records |-> file_forks(records[i], c)]
                 g == [i \in DOMAIN records' |-> file_forks(records'[i], c)]
      <4>1. DOMAIN f = 1..n /\ DOMAIN g = 1..(n + 1) /\ \A i \in 1..n : g[i] = f[i]
        BY <3>1
      <4>2. g[n + 1] = file_forks(r, c)
        BY <3>1
      <4>3. IsFirst(forksOf[c], f)
        BY DEF FirstsFound
      <4>4. n \in Nat
        BY <3>1
      <4> HIDE DEF f, g, n
      <4>5. IsFirst(OrElse(forksOf[c], file_forks(r, c)), g)
        BY <4>1, <4>2, <4>3, <4>4, FirstOfAppend
      <4> QED BY <3>2, <4>5 DEF g
    <3> QED BY <3>3, <3>4
  <2>2. CASE UNCHANGED <<records, statOf, forksOf>>
    BY <2>2 DEF FirstsFound
  <2> QED BY <2>1, <2>2 DEF Next, EndOfCatalog, ReportDangling, AuditTimes, vars, gathered
<1> QED BY <1>1, <1>2, TypeCorrect, PTL DEF Spec

------------------------------------------------------------------------------
\* A record with forks for c has a stat for c, of a file, with the data fork's size.
LEMMA ForksRecordHasStat ==
    ASSUME NEW r \in Record, NEW c \in CNIDs, file_forks(r, c) # None
    PROVE  /\ record_stat(r, c) = Some([is_dir |-> FALSE, size |-> r.size,
                                        created |-> r.created, modified |-> r.modified])
           /\ \A f \in file_forks(r, c) : f.data = r.size
<1>1. Body(r, 168) /\ r.rtype = RECORD_FILE /\ r.cnid = c
  BY DEF file_forks
<1>2. Body(r, 32) /\ Body(r, 96)
  BY <1>1 DEF Body, Record
<1>3. IsEntryType(r) /\ IsDirType(r) = FALSE
  BY <1>1 DEF IsEntryType, IsDirType, RECORD_FILE, RECORD_FOLDER
<1>4. record_stat(r, c) = Some([is_dir |-> FALSE, size |-> r.size,
                                created |-> r.created, modified |-> r.modified])
  BY <1>1, <1>2, <1>3 DEF record_stat
<1>5. \A f \in file_forks(r, c) : f.data = r.size
  BY <1>1 DEF file_forks, Some
<1> QED BY <1>4, <1>5

\* Where a reading other than None comes from.
LEMMA StatSource ==
    ASSUME TypeOK, FirstsFound, NEW c \in CNIDs, statOf[c] # None
    PROVE  \E i \in Claims(c) : statOf[c] = record_stat(records[i], c)
<1> DEFINE f == [i \in DOMAIN records |-> record_stat(records[i], c)]
<1>1. IsFirst(statOf[c], f)
  BY DEF FirstsFound
<1>2. PICK i \in DOMAIN records : f[i] # None /\ statOf[c] = f[i]
  BY <1>1 DEF IsFirst
<1>3. i \in Claims(c)
  BY <1>2 DEF Claims, record_stat
<1> QED BY <1>2, <1>3

LEMMA ForksSource ==
    ASSUME TypeOK, FirstsFound, NEW c \in CNIDs, forksOf[c] # None
    PROVE  \E i \in Claims(c) : forksOf[c] = file_forks(records[i], c)
<1> DEFINE f == [i \in DOMAIN records |-> file_forks(records[i], c)]
<1>1. IsFirst(forksOf[c], f)
  BY DEF FirstsFound
<1>2. PICK i \in DOMAIN records : f[i] # None /\ forksOf[c] = f[i]
  BY <1>1 DEF IsFirst
<1>3. i \in Claims(c)
  BY <1>2 DEF Claims, file_forks, IsEntryType
<1> QED BY <1>2, <1>3

\* A record that answers a lookup answers it for the whole walk.
LEMMA LookupSucceeds ==
    ASSUME TypeOK, FirstsFound, NEW c \in CNIDs, NEW i \in DOMAIN records
    PROVE  /\ record_stat(records[i], c) # None => statOf[c] # None
           /\ file_forks(records[i], c) # None => forksOf[c] # None
<1>1. record_stat(records[i], c) # None => statOf[c] # None
  <2> DEFINE f == [k \in DOMAIN records |-> record_stat(records[k], c)]
  <2>1. IsFirst(statOf[c], f)
    BY DEF FirstsFound
  <2>2. f[i] = record_stat(records[i], c) /\ i \in DOMAIN f
    OBVIOUS
  <2> QED BY <2>1, <2>2 DEF IsFirst
<1>2. file_forks(records[i], c) # None => forksOf[c] # None
  <2> DEFINE f == [k \in DOMAIN records |-> file_forks(records[k], c)]
  <2>1. IsFirst(forksOf[c], f)
    BY DEF FirstsFound
  <2>2. f[i] = file_forks(records[i], c) /\ i \in DOMAIN f
    OBVIOUS
  <2> QED BY <2>1, <2>2 DEF IsFirst
<1> QED BY <1>1, <1>2

\* A CNID that read_file finds has a stat; claimed once, it is a file of that size.
THEOREM ReaderAgrees == Spec => []ForksMatchStat
<1>1. TypeOK /\ FirstsFound => ForksMatchStat
  <2> SUFFICES ASSUME TypeOK, FirstsFound, NEW c \in CNIDs, forksOf[c] # None
               PROVE  /\ statOf[c] # None
                      /\ Unique(c) => \A s \in statOf[c], f \in forksOf[c] :
                                          ~s.is_dir /\ s.size = f.data
    BY DEF ForksMatchStat
  <2>1. PICK i \in Claims(c) : forksOf[c] = file_forks(records[i], c)
    BY ForksSource
  <2>2. i \in DOMAIN records /\ records[i] \in Record
    BY <2>1 DEF Claims, TypeOK
  <2>3. /\ record_stat(records[i], c) =
               Some([is_dir |-> FALSE, size |-> records[i].size,
                     created |-> records[i].created, modified |-> records[i].modified])
        /\ \A f \in file_forks(records[i], c) : f.data = records[i].size
    BY <2>1, <2>2, ForksRecordHasStat
  <2>4. statOf[c] # None
    BY <2>2, <2>3, LookupSucceeds DEF Some, None
  <2>5. ASSUME Unique(c) PROVE statOf[c] = record_stat(records[i], c)
    <3>1. PICK k \in Claims(c) : statOf[c] = record_stat(records[k], c)
      BY <2>4, StatSource
    <3> QED BY <2>1, <2>5, <3>1 DEF Unique
  <2>6. ASSUME Unique(c), NEW s \in statOf[c], NEW f \in forksOf[c]
        PROVE  ~s.is_dir /\ s.size = f.data
    BY <2>1, <2>3, <2>5, <2>6 DEF Some
  <2> QED BY <2>4, <2>6
<1> QED BY <1>1, TypeCorrect, FirstMatchWins, PTL

------------------------------------------------------------------------------
\* The analyzer's list of files is that of the records delivered, no more and no less.
FilesDelivered ==
    /\ \A f \in files : \E i \in DOMAIN records : FileOf(records[i]) = Some(f)
    /\ \A i \in DOMAIN records : FileOf(records[i]) \subseteq files

LEMMA FilesAreDelivered == Spec => []FilesDelivered
<1>1. Init => FilesDelivered
  BY DEF Init, FilesDelivered
<1>2. TypeOK /\ FilesDelivered /\ [Next]_vars => FilesDelivered'
  <2> SUFFICES ASSUME TypeOK, FilesDelivered, [Next]_vars PROVE FilesDelivered'
    OBVIOUS
  <2>1. ASSUME NEW r \in Records, Deliver(r) PROVE FilesDelivered'
    <3>1. /\ DOMAIN records' = 1..(Len(records) + 1) /\ Len(records) \in Nat
          /\ records'[Len(records) + 1] = r
          /\ DOMAIN records = 1..Len(records)
          /\ \A i \in DOMAIN records : records'[i] = records[i]
      BY <2>1 DEF Deliver, TypeOK
    <3>2. files' = files \cup FileOf(r)
      BY <2>1 DEF Deliver
    <3>3. ASSUME NEW f \in files'
          PROVE  \E i \in DOMAIN records' : FileOf(records'[i]) = Some(f)
      <4>1. CASE f \in files
        <5>1. PICK i \in DOMAIN records : FileOf(records[i]) = Some(f)
          BY <4>1 DEF FilesDelivered
        <5>2. i \in DOMAIN records' /\ records'[i] = records[i]
          BY <3>1
        <5> QED BY <5>1, <5>2
      <4>2. CASE f \in FileOf(r)
        <5>1. FileOf(r) = Some(f)
          BY <4>2 DEF FileOf, Some, None
        <5> QED BY <3>1, <5>1
      <4> QED BY <3>2, <3>3, <4>1, <4>2
    <3>4. ASSUME NEW i \in DOMAIN records'
          PROVE  FileOf(records'[i]) \subseteq files'
      <4>1. CASE i \in DOMAIN records
        <5>1. records'[i] = records[i] /\ FileOf(records[i]) \subseteq files
          BY <3>1, <4>1 DEF FilesDelivered
        <5> QED BY <3>2, <5>1
      <4>2. CASE i = Len(records) + 1
        BY <3>1, <3>2, <4>2
      <4> QED BY <3>1, <3>4, <4>1, <4>2
    <3> QED BY <3>3, <3>4 DEF FilesDelivered
  <2>2. CASE UNCHANGED <<files, records>>
    BY <2>2 DEF FilesDelivered
  <2> QED BY <2>1, <2>2 DEF Next, EndOfCatalog, ReportDangling, AuditTimes, vars, gathered
<1> QED BY <1>1, <1>2, TypeCorrect, PTL DEF Spec

\* However often and however cut off a CNID is held: if the first claim that stat can read
\* is a whole file, stat, read_file and audit all speak of that record, in catalogs of any
\* length.
THEOREM DuplicatesSettle == Spec => []DuplicatesSettleAlike
<1>1. TypeOK /\ FirstsFound /\ FilesDelivered => DuplicatesSettleAlike
  <2> SUFFICES ASSUME TypeOK, FirstsFound, FilesDelivered, NEW c \in CNIDs, NEW i \in Claims(c),
                      WholeFile(records[i]),
                      \A j \in Claims(c) : j < i => ~Body(records[j], 32)
               PROVE  \E f \in files :
                        /\ f.cnid = c
                        /\ statOf[c] = Some([is_dir |-> FALSE, size |-> f.logical,
                                             created |-> f.create, modified |-> f.content_mod])
                        /\ forksOf[c] = Some([data |-> f.logical, resource |-> f.resource])
    BY DEF DuplicatesSettleAlike
  <2> DEFINE r == records[i]
             f == [cnid |-> r.cnid, logical |-> r.size, resource |-> r.rsize,
                   create |-> r.created, content_mod |-> r.modified]
  <2>1. /\ i \in DOMAIN records /\ r.cnid = c /\ r \in Record
        /\ NameFits(r) /\ r.rtype = RECORD_FILE /\ Body(r, 248)
        /\ DOMAIN records = 1..Len(records) /\ Len(records) \in Nat
    BY DEF Claims, WholeFile, TypeOK
  <2>2. Body(r, 12) /\ Body(r, 168)
    BY <2>1 DEF Body, Record
  <2>3. /\ IsCatalogEntry(r)
        /\ file_forks(r, c) = Some([data |-> r.size, resource |-> r.rsize])
    BY <2>1, <2>2 DEF IsCatalogEntry, IsEntryType, file_forks
  <2>4. FileOf(r) = Some(f)
    BY <2>1, <2>3 DEF FileOf
  <2>5. f \in files
    BY <2>1, <2>4 DEF FilesDelivered, Some
  <2>6. record_stat(r, c) = Some([is_dir |-> FALSE, size |-> r.size,
                                  created |-> r.created, modified |-> r.modified])
    <3>1. file_forks(r, c) # None
      BY <2>3 DEF Some, None
    <3> HIDE DEF r
    <3> QED BY <2>1, <3>1, ForksRecordHasStat
  <2>7. ASSUME NEW j \in DOMAIN records, j < i
        PROVE  record_stat(records[j], c) = None /\ file_forks(records[j], c) = None
    <3>1. j \in Claims(c) => ~Body(records[j], 32)
      BY <2>7
    <3>2. ~Body(records[j], 32) => ~Body(records[j], 168)
      <4>1. records[j] \in Record
        BY <2>7 DEF TypeOK
      <4>2. records[j].keyLen \in Nat /\ records[j].avail \in Nat
        BY <4>1 DEF Record
      <4> QED BY <4>2 DEF Body
    <3> QED BY <3>1, <3>2 DEF Claims, record_stat, file_forks, IsEntryType
  <2>8. statOf[c] = record_stat(r, c)
    <3> DEFINE g == [k \in DOMAIN records |-> record_stat(records[k], c)]
    <3>1. IsFirst(statOf[c], g)
      BY DEF FirstsFound
    <3>2. /\ DOMAIN g = 1..Len(records) /\ i \in DOMAIN g /\ g[i] = record_stat(r, c)
          /\ \A j \in DOMAIN g : j < i => g[j] = None
      BY <2>1, <2>7
    <3>3. record_stat(r, c) # None
      BY <2>6 DEF Some, None
    <3> HIDE DEF g
    <3> QED BY <2>1, <3>1, <3>2, <3>3, OnlyFirst
  <2>9. forksOf[c] = file_forks(r, c)
    <3> DEFINE g == [k \in DOMAIN records |-> file_forks(records[k], c)]
    <3>1. IsFirst(forksOf[c], g)
      BY DEF FirstsFound
    <3>2. /\ DOMAIN g = 1..Len(records) /\ i \in DOMAIN g /\ g[i] = file_forks(r, c)
          /\ \A j \in DOMAIN g : j < i => g[j] = None
      BY <2>1, <2>7
    <3>3. file_forks(r, c) # None
      BY <2>3 DEF Some, None
    <3> HIDE DEF g
    <3> QED BY <2>1, <3>1, <3>2, <3>3, OnlyFirst
  <2>10. /\ f.cnid = c
         /\ statOf[c] = Some([is_dir |-> FALSE, size |-> f.logical,
                              created |-> f.create, modified |-> f.content_mod])
         /\ forksOf[c] = Some([data |-> f.logical, resource |-> f.resource])
    BY <2>1, <2>3, <2>6, <2>8, <2>9
  <2> HIDE DEF f
  <2> QED BY <2>5, <2>10
<1> QED BY <1>1, TypeCorrect, FirstMatchWins, FilesAreDelivered, PTL

\* The analyzer's files are the reader's: each is found by read_file, and claimed once, it
\* has the forks that were audited.
THEOREM AnalyzerAgrees == Spec => []AuditedFilesAreRead
<1>1. TypeOK /\ FirstsFound /\ FilesDelivered => AuditedFilesAreRead
  <2> SUFFICES ASSUME TypeOK, FirstsFound, FilesDelivered, NEW f \in files
               PROVE  /\ forksOf[f.cnid] # None
                      /\ Unique(f.cnid) =>
                            forksOf[f.cnid] = Some([data |-> f.logical, resource |-> f.resource])
    BY DEF AuditedFilesAreRead
  <2>1. PICK i \in DOMAIN records : FileOf(records[i]) = Some(f)
    BY DEF FilesDelivered
  <2> DEFINE r == records[i]
  <2>2. r \in Record /\ f.cnid \in CNIDs
    BY DEF TypeOK, CatalogFile
  <2>3. /\ IsCatalogEntry(r) /\ r.rtype = RECORD_FILE /\ Body(r, 248)
        /\ f = [cnid |-> r.cnid, logical |-> r.size, resource |-> r.rsize,
                create |-> r.created, content_mod |-> r.modified]
    BY <2>1 DEF FileOf, Some, None
  <2>4. Body(r, 168)
    BY <2>2, <2>3 DEF Body, Record
  <2>5. file_forks(r, f.cnid) = Some([data |-> f.logical, resource |-> f.resource])
    BY <2>3, <2>4 DEF file_forks
  <2>6. forksOf[f.cnid] # None
    BY <2>2, <2>5, LookupSucceeds DEF Some, None
  <2>7. ASSUME Unique(f.cnid) PROVE forksOf[f.cnid] = file_forks(r, f.cnid)
    <3>1. PICK k \in Claims(f.cnid) : forksOf[f.cnid] = file_forks(records[k], f.cnid)
      BY <2>2, <2>6, ForksSource
    <3>2. i \in Claims(f.cnid)
      BY <2>3 DEF Claims, IsEntryType
    <3>3. k = i
      BY <2>7, <3>1, <3>2 DEF Unique
    <3> QED BY <3>1, <3>3
  <2> QED BY <2>5, <2>6, <2>7
<1> QED BY <1>1, TypeCorrect, FirstMatchWins, FilesAreDelivered, PTL

------------------------------------------------------------------------------
\* The two parsers' notion of an entry, carried along the walk.
ListedAreCollected == record_cnids = {e.cnid : e \in listed}

DanglingComputed ==
    phase \in {"files", "done"} => dangling = {t.cnid : t \in {u \in threads : u.cnid \notin record_cnids}}

LEMMA SameEntries == Spec => [](ListedAreCollected /\ DanglingComputed)
<1>1. Init => ListedAreCollected /\ DanglingComputed
  BY DEF Init, ListedAreCollected, DanglingComputed
<1>2. ListedAreCollected /\ DanglingComputed /\ [Next]_vars
        => (ListedAreCollected /\ DanglingComputed)'
  <2> SUFFICES ASSUME ListedAreCollected, DanglingComputed, [Next]_vars
               PROVE  (ListedAreCollected /\ DanglingComputed)'
    OBVIOUS
  <2>1. ASSUME NEW r \in Records, Deliver(r) PROVE (ListedAreCollected /\ DanglingComputed)'
    <3>1. Collected(r) = {e.cnid : e \in record_entry(r)}
      <4> DEFINE entry == [parent |-> r.parent, is_dir |-> IsDirType(r), cnid |-> r.cnid]
      <4>1. CASE IsCatalogEntry(r)
        <5>1. record_entry(r) = {entry} /\ Collected(r) = {r.cnid}
          BY <4>1, Zenon DEF Collected, IsCatalogEntry, record_entry, Some
        <5>2. entry.cnid = r.cnid
          OBVIOUS
        <5> HIDE DEF entry
        <5> QED BY <5>1, <5>2
      <4>2. CASE ~IsCatalogEntry(r)
        <5>1. record_entry(r) = {} /\ Collected(r) = {}
          BY <4>2, Zenon DEF Collected, IsCatalogEntry, record_entry, None
        <5> QED BY <5>1
      <4> QED BY <4>1, <4>2
    <3>2. record_cnids' = record_cnids \cup Collected(r) /\ listed' = listed \cup record_entry(r)
      BY <2>1 DEF Deliver
    <3>3. ListedAreCollected'
      BY <3>1, <3>2 DEF ListedAreCollected
    <3>4. DanglingComputed'
      BY <2>1 DEF Deliver, DanglingComputed
    <3> QED BY <3>3, <3>4
  <2>2. CASE EndOfCatalog
    BY <2>2 DEF EndOfCatalog, gathered, ListedAreCollected, DanglingComputed
  <2>3. CASE ReportDangling
    BY <2>3 DEF ReportDangling, gathered, ListedAreCollected, DanglingComputed
  <2>4. CASE AuditTimes
    BY <2>4 DEF AuditTimes, gathered, ListedAreCollected, DanglingComputed
  <2>5. CASE UNCHANGED vars
    BY <2>5 DEF vars, gathered, ListedAreCollected, DanglingComputed
  <2> QED BY <2>1, <2>2, <2>3, <2>4, <2>5 DEF Next
<1> QED BY <1>1, <1>2, PTL DEF Spec

\* A thread is reported dangling exactly when no listing shows its CNID.
THEOREM DanglingExact == Spec => []DanglingIffUnlisted
<1>1. ListedAreCollected /\ DanglingComputed => DanglingIffUnlisted
  BY DEF ListedAreCollected, DanglingComputed, DanglingIffUnlisted
<1> QED BY <1>1, SameEntries, PTL

------------------------------------------------------------------------------
\* The findings of the timestamp audit are those of audit_time on the files collected.
TimesComputed ==
    phase = "done" => timed = {a \in files \X Reasons : a[2] \in audit_time(a[1], volume_modify)}

LEMMA TimesAreComputed == Spec => []TimesComputed
<1>1. Init => TimesComputed
  BY DEF Init, TimesComputed
<1>2. TimesComputed /\ [Next]_vars => TimesComputed'
  BY DEF TimesComputed, Next, Deliver, EndOfCatalog, ReportDangling, AuditTimes, vars, gathered
<1> QED BY <1>1, <1>2, PTL DEF Spec

\* What it takes for audit_time to have nothing to say, its early returns considered.
LEMMA NothingToSay ==
    ASSUME NEW f \in CatalogFile, NEW date \in Nat
    PROVE  (audit_time(f, date) = None) <=>
              /\ f.content_mod = 0 \/ f.create <= f.content_mod
              /\ \A t \in {f.create, f.content_mod} \ {0} :
                    hfs_time(t) >= 0 /\ (date = 0 \/ t <= date)
<1>1. f.create \in Nat /\ f.content_mod \in Nat /\ HFS_EPOCH_TO_UNIX \in Nat
  BY RecordsAssumption DEF CatalogFile
<1>2. (audit_time(f, date) = None) <=> ~ModifiedFirst(f) /\ ~BelowEpoch(f) /\ ~NewerThan(f, date)
  BY DEF audit_time, Some, None
<1>3. ~ModifiedFirst(f) <=> (f.content_mod = 0 \/ f.create <= f.content_mod)
  BY <1>1 DEF ModifiedFirst
<1>4. ~BelowEpoch(f) <=> \A t \in {f.create, f.content_mod} \ {0} : hfs_time(t) >= 0
  BY <1>1 DEF BelowEpoch, hfs_time
<1>5. ~NewerThan(f, date) <=> \A t \in {f.create, f.content_mod} \ {0} : date = 0 \/ t <= date
  BY <1>1 DEF NewerThan
<1> QED BY <1>2, <1>3, <1>4, <1>5

\* The times the reader shows of a file claimed once are coherent exactly if the audit
\* reports none of them, for any epoch and volume date.
THEOREM TimesAudited == Spec => []TimesShownAreAudited
<1>1. TypeOK /\ FirstsFound /\ FilesDelivered /\ TimesComputed => TimesShownAreAudited
  <2> SUFFICES ASSUME TypeOK, FirstsFound, FilesDelivered, TimesComputed,
                      phase = "done", NEW f \in files, Unique(f.cnid), NEW s \in statOf[f.cnid]
               PROVE  (\A a \in timed : a[1] # f) <=>
                         /\ s.modified = 0 \/ s.created <= s.modified
                         /\ \A t \in {s.created, s.modified} \ {0} :
                               hfs_time(t) >= 0 /\ (volume_modify = 0 \/ t <= volume_modify)
    BY DEF TimesShownAreAudited
  <2>1. PICK i \in DOMAIN records : FileOf(records[i]) = Some(f)
    BY DEF FilesDelivered
  <2> DEFINE r == records[i]
  <2>2. r \in Record /\ f \in CatalogFile /\ f.cnid \in CNIDs /\ volume_modify \in Nat
    BY DEF TypeOK, CatalogFile
  <2>3. /\ IsCatalogEntry(r) /\ r.rtype = RECORD_FILE /\ Body(r, 248)
        /\ f = [cnid |-> r.cnid, logical |-> r.size, resource |-> r.rsize,
                create |-> r.created, content_mod |-> r.modified]
    BY <2>1 DEF FileOf, Some, None
  <2>4. s.created = f.create /\ s.modified = f.content_mod
    <3>1. Body(r, 168)
      BY <2>2, <2>3 DEF Body, Record
    <3>2. file_forks(r, f.cnid) # None
      BY <2>3, <3>1 DEF file_forks, Some, None
    <3>3. record_stat(r, f.cnid) = Some([is_dir |-> FALSE, size |-> r.size,
                                         created |-> r.created, modified |-> r.modified])
      BY <2>2, <3>2, ForksRecordHasStat
    <3>4. PICK k \in Claims(f.cnid) : statOf[f.cnid] = record_stat(records[k], f.cnid)
      BY <2>2, StatSource DEF None
    <3>5. i \in Claims(f.cnid)
      BY <2>3 DEF Claims, IsEntryType
    <3>6. k = i
      BY <3>4, <3>5 DEF Unique
    <3> QED BY <2>3, <3>3, <3>4, <3>6 DEF Some
  <2>5. (\A a \in timed : a[1] # f) <=> audit_time(f, volume_modify) = None
    <3>1. audit_time(f, volume_modify) \subseteq Reasons
      BY DEF audit_time, Reasons, Some, None
    <3>2. timed = {a \in files \X Reasons : a[2] \in audit_time(a[1], volume_modify)}
      BY DEF TimesComputed
    <3>3. ASSUME NEW a \in timed, a[1] = f PROVE audit_time(f, volume_modify) # None
      BY <3>2, <3>3 DEF None
    <3>4. ASSUME audit_time(f, volume_modify) # None PROVE \E a \in timed : a[1] = f
      <4>1. PICK why \in Reasons : why \in audit_time(f, volume_modify)
        BY <3>1, <3>4 DEF None
      <4>2. <<f, why>> \in timed /\ <<f, why>>[1] = f
        BY <3>2, <4>1
      <4> QED BY <4>2
    <3> QED BY <3>3, <3>4
  <2> QED BY <2>2, <2>4, <2>5, NothingToSay
<1> QED BY <1>1, TypeCorrect, FirstMatchWins, FilesAreDelivered, TimesAreComputed, PTL
==============================================================================
