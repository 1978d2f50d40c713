------------------------------ MODULE MCCatalog ------------------------------
(***************************************************************************)
(* Instances of Catalog for TLC: two CNIDs below one parent, and records   *)
(* whose slices end before and at each offset some reading requires.       *)
(***************************************************************************)
EXTENDS Catalog

KeyLen == 6

\* Body lengths one short of and at what thread, entry, stat, fork size, data fork and
\* resource fork need.
Bodies == {9, 10, 11, 12, 31, 32, 95, 96, 167, 168, 247, 248}

\* nameLen: 0 fits in any slice; 500 overruns every one of them.
EntryRecord(body, name, rtype, cnid, size) ==
    [avail |-> 2 + KeyLen + body, keyLen |-> KeyLen, nameLen |-> name, parent |-> 1,
     rtype |-> rtype, cnid |-> cnid, size |-> size, rsize |-> size, created |-> 5,
     modified |-> 5, tparent |-> 1]

ThreadRecord(body, name, rtype, cnid) ==
    [EntryRecord(body, name, rtype, 1, 0) EXCEPT !.parent = cnid]

\* Whole files with times at and around each bound: unknown, before 1970 (5 here) and
\* then, which is also the volume's date where it is known, and after.
TimedRecord(created, modified) ==
    [EntryRecord(248, 0, RECORD_FILE, 2, 9) EXCEPT !.created = created, !.modified = modified]

TimedRecords == { TimedRecord(c, m) : c, m \in {0, 4, 5, 6} }

AllRecords ==
    { EntryRecord(body, 0, rtype, 2, 7) : body \in Bodies, rtype \in {1, 2} }
    \cup { EntryRecord(248, 500, rtype, 2, 7) : rtype \in {1, 2} }
    \cup { EntryRecord(body, 0, rtype, cnid, 9) :
            body \in {12, 168, 248}, rtype \in {1, 2}, cnid \in {1, 2} }
    \cup { ThreadRecord(body, name, rtype, cnid) :
            body \in {9, 10}, name \in {0, 500}, rtype \in {3, 4, 5}, cnid \in {1, 2} }
    \cup TimedRecords
==============================================================================
