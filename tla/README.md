# TLA+ verification of hfsplus-forensic

A reader (`hfsplus-core`, `core/src`) and an analyzer (`hfsplus-forensic`,
`forensic/src`) for Apple HFS+ volumes.  Both work on an immutable byte buffer
that may hold anything: a sound volume, a damaged one, or no volume at all.
There are no threads, no caches and nothing is written.  What is hard in this
code is that every number it follows comes from the buffer.  Chains may loop,
records may be cut off anywhere, sums may leave their word, and two or three
pieces of code with guards of their own read the same bytes and have to come to
the same conclusion.  That is what the modules here are about.

Paths below are relative to the repository.  Words scaled down for TLC are
constants of the modules; the proofs are for every value of them.

## 1. Inventory

| part | state it keeps | operations | talks to | what makes it correct |
|---|---|---|---|---|
| volume header, `parse` (`core/src/lib.rs:66`) | none | copies header fields | everybody's precondition | refuses short buffers and other signatures |
| B-tree geometry, `locate_btree` (`lib.rs:149`) | none; returns `CatalogLoc` | catalog, extents, attributes | all walks | reads nothing outside the buffer, whatever the header says |
| leaf walk, `for_each_record` (`lib.rs:190`) | `node`, `walked`, `i` | one callback per record | called by every query and every audit pass | delivers the chain's records in order, once each; ends on any chain; cannot panic |
| catalog queries `list_dir`, `stat`, fork lookup of `read_file` | the `found` / `entries` of a pass | one walk each | callbacks of the leaf walk | they agree on which record a CNID means |
| recursive listing, `walk` (`lib.rs:747`) | stack, visited set, output | calls `list_dir` per folder | catalog queries | ends on cyclic hierarchies; lists each record below the root once; paths lead to the root |
| fork reading, `parse_fork`, `fork_bytes` (`lib.rs:442`, `460`) | the data so far | one step per extent | `read_file`, `read_xattr` | no slice outside the volume; bytes at their positions; bounded buffer |
| `read_file` (`lib.rs:263`) | none | picks data fork or decmpfs | catalog, attributes, forks, decmpfs | never returns the empty data fork of a compressed file |
| decmpfs, `decompress` (`core/src/decmpfs.rs`) | output, position in the fork | inline, zlib table, chunk list | codecs (crates) | the declared size or an error; bounded work |
| attributes: `list_xattrs`, `read_xattr`, `decmpfs_xattr` | `found` / `out` | one walk each | leaf walk, forks | list and read agree; continuation records are no attributes |
| VFS adapter `HfsFs` (`core/src/vfs.rs`) | the volume | `read_dir`, `lookup`, `meta`, `read_at`, `data_streams` | the reader; external trait `FileSystem` | pieces read make up the file; an attribute index means the attribute it was shown for |
| `audit` (`forensic/src/findings.rs:272`) | findings, CNID set, files, threads | node validation, collecting pass, per-file checks | the reader's walk, `locate_extents`, `decmpfs_xattr` | what it reports is what the reader does; the times it judges are those shown; it validates the nodes of the catalog and the extents tree only |
| reports (`AnomalyKind`, `Anomaly`) | none | severity, code, note | external `forensicnomicon` | constant tables and wording |

Hard behaviours, each a hazard in `PROJECT.json` with the line where it bites:
loops in chains and hierarchies; counts, offsets and links that point anywhere;
unchecked sums; pairs of loops or parsers that must agree (the validation loop and
the reader's walk, `classify_record` and `record_entry`, blocks counted by the analyzer
and bytes read by the reader); partial failure of a codec; the last slot, chunk,
block or node of something.

## 2. Modules

Each module's header names the functions it models; `PROJECT.json` maps every
definition to its lines.

### B-tree files

* `BTreeFile`: a volume as the reader sees it: the fields it reads, with their widths,
  nodes stored sparsely.  The guards and the arithmetic of `locate_btree` and
  `for_each_record` as operators.
* `LeafWalk`: the walk, an action per step of the loop: `Locate`, `EnterNode`, `Record`,
  `NextNode`, and the three ways out (`StopWalk` for the loop condition, `LeaveBuffer`
  for both `break`s).  The slices a step takes and the sum it forms without
  `checked_add` are kept as history, so that "cannot panic" is a state predicate; the
  reads of the volume header (`FieldSlices`) are among them.
* `RecordStream` (abstract): a callback is called once for each record of a fixed list,
  in order, and then the call returns.  `LeafRecords` defines that list for a volume
  from the fLink chain: the nodes of the chain up to the first that is 0, not in the buffer
  or excluded by the cap, and of each the slots whose key prefix fits.
  Whether the tree can be located at all is said there a second time (`HasTree`), from the
  layout of the structures and not from the reader's guards: a guard that is too weak shows
  as a slice out of bounds, one that is too strict as records not delivered.
* `LeafStream` EXTENDS both: the list is fixed when the walk starts (`expected`), and
  `DeliversTheRecords` says that the walk implements `RecordStream` for it, the promise that
  every other module starts from.  `WalkReturns` is the liveness half.
* `BTreeAudit` EXTENDS `LeafStream`: of the catalog and the extents tree (`Audited`)
  `audit_btree_nodes` runs first, then the reader's walk over the same tree, as in `audit`
  (`findings.rs:279-282`).  The attributes tree `audit` reads without validating it
  (`decmpfs_xattr`, `findings.rs:660`): of it the module shows the walk alone, and the
  properties that relate the two loops speak of the validated trees.  `NodeSliced` is `node_slice`'s own computation of
  the bounds, `Inconsistencies` is `check_node`.

### Catalog

* `CatalogRecord`: one record, with the length of its slice, as the four parsers see it
  (`record_entry`, `record_stat`, `file_forks`, `classify_record`).  An `Option` is a set
  of at most one value.
* `Catalog`: the passes.  In the code each query is a walk of its own over the same,
  immutable records; the model steps all of them together, for every CNID, one record
  at a time.  That is sound because no pass sees another's state, and it makes
  statements such as "what `read_file` finds, `stat` finds" ordinary invariants.  The
  later steps of `audit` follow: dangling threads, then `audit_time` for each file
  collected, with the volume's own date, compared with the times `stat` hands to the
  VFS adapter (`hfs_time`).
* `TreeWalk`: `walk`, over any list of entries.  `TreeSearch` (abstract) is a traversal:
  it reaches a folder only through one reached before, and it may stop only when no
  reached folder holds an unreached one.

### File contents

* `ForkRead`: the extent slots of one fork, taken by the reader (`parse_fork`, `fork_bytes`)
  and by the analyzer (`fork_inline_blocks`, `fork_all_slots_used`, `needed_blocks`,
  `audit_extents`) in lockstep.  The bytes are pieces: from where in the volume, how
  many, at which position of the result.  When all slots are used the analyzer goes on
  to the extents-overflow tree: `AskOverflow`, then `overflow_blocks` pair by pair over
  the records its walk delivers (`CountPair`, `LeaveRecord`), records cut off in the key
  or between pairs and records of other forks included.
* `Decmpfs`: `decompress` and `audit_decmpfs` on the same attribute and resource fork.
  Contents are lengths; what a codec makes of some bytes is open (an error or any
  number of bytes up to a bound), so the results hold for any codec.

### Attributes

* `Xattrs`: the attributes tree's records, with the length of their slices, as three
  parsers see them: `parse_attr_record` for the list, the closure of `read_xattr`, and
  `attr_inline_value` for `read_file`'s search for the decmpfs attribute.  The passes are
  stepped together, as in `Catalog`.  `read_xattr_at` is the VFS adapter's reading by index,
  which goes through the list to a name.  A name is what it decodes to; what `fork_bytes`
  gives for a fork is an input, from "nothing" to any number of bytes.

### A file as a client sees it

* `Vfs` EXTENDS `Xattrs`: a client of the VFS adapter opens a node, is shown its streams
  (`data_streams`), chooses one and an offset, and reads on with buffers of any length
  (`read_at`) until it is told the end.  `read_file` is composed here of its parts: the fork
  lookup's result and what `fork_bytes` makes of the two forks are given for a node
  (`Catalog`, `ForkRead`), the decmpfs attribute is the one `Xattrs` has found in the
  records, which attributes decode with which resource fork is a relation (`Decmpfs`).
  Every call walks the trees anew in the code; the volume is immutable, so each call
  sees the end state of `Xattrs`' walk.  Bytes are `<<source, position>>`.
* `ByteStream` (abstract): a stream has one content from opening to end; pieces are its
  bytes from the offset asked for, in order and once each; the end is told when, and only
  when, none is left; reading fails only if there is no content.  `Vfs` implements it:
  the refinement maps the content to the one the documents promise (`StreamContent`),
  stated on the records for the file's own stream and for distinct inline attributes; of
  other attributes nothing is promised but that every call reads the same value.

`MC*` modules define the small inputs.  `*_proofs` modules hold the proofs (those about
`Xattrs` are the first part of `Vfs_proofs`), and `RecursiveFunctions` what they need about
induction and recursion.

## 3. Runs

All programs modelled end, so deadlock is not checked in any run; that they end only
where the code returns is what the measures below, `WalkReturns` and `DeliversTheRecords` say.

| run | instance | what it shows |
|---|---|---|
| `BTreeAudit_volumes` | every chain over nodes 1..3 with links to 0 and out of the buffer, layouts with a slot that does not fit and a count beyond the node; one odd descriptor at node 0 or 2; header fields and buffer lengths at and around each guard; cap 3 (loops of one and two nodes are replayed, a loop of three closes just at the cap); u16 of 6 and u32 of 12 bits, a wide usize | the walk delivers the records of the reference definition and returns, no step can panic, a repeated node means the cap was reached; of the catalog and the extents tree no unchecked node is used and loop findings are exact; the attributes tree is walked as the others, unchecked |
| `Catalog_records` | up to 3 records: each type, cut off one byte before and at each offset that a parser needs, name lengths that overrun, two CNIDs, files with times unknown, before 1970, at and after the volume's date, which may be unknown too | the parsers agree where it matters; of several claims to a CNID all lookups take the first whole file; a file has a time finding exactly if its shown times are incoherent |
| `TreeWalk_graphs` | all catalogs of up to 3 entries over root, two folders and files, empty names, folders in themselves and in the root's place; 1296 graphs of 4 | termination, exactly once, paths, traversal |
| `ForkRead_slots` | 3 slots, extents inside, across, behind the volume's end and beyond usize; logical sizes around each boundary and above usize; 3-bit u32, 5-bit usize; six overflow trees: empty, one and two records, sums that saturate, records cut off, records of others | see `MismatchIffShortRead`, `BytesInPlace` |
| `Decmpfs_streams` | all 15 types, attributes of 15 to 19 bytes; chunked forks with every triple of end-offsets from 6 values, zlib forks with every pair of table entries | a delivered file lacks no part (`NothingLeftOut`); padding slots are never read; work is bounded; what is flagged fails |
| `Vfs_streams` | up to 3 attribute records: inline and fork values cut off one byte before and at each offset that a parser needs, continuation records, forks that cannot be read or only in part, two names with two contents, a second file.  Clients on the trees of whole records (`Served`): six nodes (absent, folder, file read in full, in part, not at all, with and without resource fork), buffers of 1 and 2 bytes, offsets in a content, at its end and beyond usize; indices saturate at 1 | list, read by name, read by index and the decmpfs search agree; pieces make up the content, sizes shown are the sizes read |

Why the bounds are enough: the loops have no state but a position, a counter and the
set of what was seen, so three nodes (folders, slots, chunks) give every way to repeat,
skip or leave; the numeric guards are exercised at both sides of each boundary; and
the proofs cover the rest.  In `Catalog_records` three records are needed for two
claims to a CNID and a thread, in every order; in `Vfs_streams` for two values of a name
and a continuation, and for an index beyond the largest.

Six runs find violations: what a document or a comment says and the code does not do.

| run | claim | what the code does |
|---|---|---|
| `LeafWalk_usize32` | "no panics on malformed input" (`docs/PRD.md:15`) | `hdr + 20` and `node_off + node_size` are not checked; a 32-bit usize overflows |
| `BTreeAudit_HeaderNodeKindChecked` | node 0's "kind must be NODE_HEADER" (`findings.rs:332`) | any documented kind passes |
| `BTreeAudit_OutsideLinkReported` | a link "outside the tree" is `BtreeNodeInvalid` (`findings.rs:59`) | the loop breaks without a finding |
| `Catalog_DanglingMeansGone` | "no file/folder catalog record with that CNID exists" (`findings.rs:92`) | a record whose name length overruns the node counts as none for the audit, while `stat` and `read_file` use it |
| `Catalog_BeforeTheEpoch` | a time below 2082844800 is "before 1904" (`findings.rs:26`, `:604`) | raw times count seconds since 1904 (`vfs.rs:21`), none can be before it; what is flagged is every date from 1904 to 1970 |
| `ForkRead_FragmentedForksRead` | "Extents-overflow B-tree lookup for fragmented forks" (`docs/PRD.md:57`) | the overflow tree is consulted by the audit only; `read_file` returns the inline part |

Seen while modelling and not run: the nodes of the attributes tree are never validated,
although `audit` walks it once for every file, so a loop in it is replayed without a
finding; where a folder claims a CNID before a file does, or a file record cut off before
its forks before a whole one, `stat` answers from the first and `read_file` from the second
(hence the condition of `DuplicatesSettleAlike`); `decompress` tests the length of the
whole output and not of each chunk, so a chunk that decodes short may be made up for by
slots behind the last one, or of LZFSE by a chunk that decodes long, without an error (hence what
`NothingLeftOut` says of each format); `read_file` is said to return "the file's bytes"
(`lib.rs:251`), but behind an extent cut at the volume's end the next one's bytes move up
(`BytesInPlace` says "until an extent is cut"); the VFS adapter is said to return the bytes
of "the attribute the caller was shown" (`vfs.rs:79`), but of two attributes whose names
decode alike both indices read the first (hence `FirstOfName` in `ListedAreRead`); a decmpfs
attribute stored in a fork is read by `read_xattr` and not seen by `read_file` (hence the
exception in `DecmpfsAgrees`); the doc of `DecmpfsMissingResource` says that
`read_file` would fail, but a header-only attribute that declares size 0 is reported and
decodes to the empty file (`FlaggedCannotDecode` says exactly that much); a leaf at a
height above 1 leaves no finding although the doc of `BtreeNodeInvalid` names it;
`node_slice`'s `None` is annotated as unreachable, and is what `LeaveTree` takes.
`data_streams` shows a CNID without a record as a stream of size 0, while
`vfs.rs:9` says that every fallible call is translated to an error; for a compressed file
it shows the data fork's size, 0, and `read_at` delivers the decoded bytes (hence the
first condition of `SizeShownIsRead`); of more than 65536 attributes the last ones share an
index (hence the last condition of `Distinct`).  The doc of `TimeAnomaly` speaks of a
"file/folder timestamp", and folders are never audited.  On a looping extents tree
`overflow_blocks` adds the repeated blocks again.

Every property of a passing run has a mutant in `PROJECT.json`: a definition changed the
way a slip in the code would change it, under which TLC finds the property violated.

## 4. Fairness

The program is sequential: once called, a function runs until it returns.  `StreamedSpec`
and `AuditSpec` state weak fairness of their next-state relation, which is that and nothing
more; it is needed for `WalkReturns`.
Elsewhere termination is stated as an action property: a natural-number measure that
every step lowers (`AlwaysProgress`, `AuditAlwaysProgress`, `WalkEnds`), which needs no
fairness and can be proved.

## 5. Proofs

Every theorem is for all values of the constants, under the named assumptions of the
modules: widths ordered as u16 <= u32 <= usize, the cap within u32, inputs of the right
type, table entries and end-offsets given where they lie in the fork (`DecmpfsAssumption`), no
buffer longer than usize (`VfsAssumption`).  `WalkCannotPanic` also assumes `WideUsize`, the
inequality that makes every unchecked sum fit; it holds of a 64-bit usize, and `LeafWalk_usize32` shows that
without it the theorem is false.

* `LeafWalk_proofs`.  `TypeOK` is inductive: it carries the position of the loop (a node
  whose records are read lies in the buffer, one node of the path per counted turn),
  which `NoPanic` and `DeliveredReadable` need.  `RepeatsRunToTheCap` needs more: that
  the path follows fLinks, so that from a repeated node on it is periodic and never
  meets 0 or a node out of the buffer.
  `WalkIsAStream`, the refinement of `RecordStream`, rests on `StreamPosition`: what has been
  delivered is the records of the nodes left behind (`FirstRecords`) followed by those of the
  slots passed in the node at hand (`SlotRecords`), and that node is the one the chain has
  at this place.  The lemmas before it unfold the reference definition (`ChainLinks`,
  `SlotsTaken`, `NodesTaken`) and show that it only grows along the chain, so that what is
  delivered is at each step a beginning of `expected` (`RecordsAhead`), and all of it at the
  end (`LoopEnds`).
* `BTreeAudit_proofs`.  The strengthening relates the validation's `order` to the reader's
  `path`: both are the fLink chain from the first leaf, the former cut at the first
  repetition.  All of it is of the validated trees; of the attributes tree the invariant is
  that the validation never runs.  While the reader walks, node k of its path is in
  `order`, by following the chain; at the end a repetition exists in `path` iff the validation met one.
  `AuditRunsTheWalk` maps the audit's specification to `LeafWalk`'s and `LeafStream`'s, and
  `AuditedWalk` states under it what is proved of the walk alone.
* `Catalog_proofs`.  The invariant says of each accumulated value which function of the
  records delivered it is (a union of readings, or the first reading that is not `None`);
  the agreement of the parsers is then a lemma about single records.  `DuplicatesSettle`
  adds that a sequence has one first reading only (`OnlyFirst`), that a record too short for
  `stat` gives no forks either, and that a whole file is one that `audit` has collected.
  `TimesAudited` needs
  that each file was delivered by a record, and compares the three tests with the
  condition on the times that record gives `stat`.
* `TreeWalk_proofs`.  `TypeOK` and the path invariant carry the history (which entries of
  the folder at hand have been taken); the visited folders are split into those on the
  stack, the one being listed and those listed.  From that follow `ListedExactlyOnce` (at the
  end the visited folders are closed under the entries, and each was reached from the root
  when it was added, so they are `Reachable`, the least such set),
  the refinement of `TreeSearch` (each step of `walk` reaches a folder, stops, or
  stutters) and, with finite cardinalities, the decreasing measure.
* `ForkRead_proofs`.  The strengthening ties `got` and `ideal` together (equal as long as
  all pieces are whole), the saturated sum to the exact number of blocks, and the state of
  reading to sane forks; `MismatchIffShortRead` is then arithmetic about rounding up,
  saturation and truncation.  For the overflow tree (`OverflowInv`) the saturated total is
  that of the records passed and of the pairs passed in the next one; a pair that does not
  fit is followed by none that does, so leaving the record there loses nothing.
* `Decmpfs_proofs`.  Every step keeps the route (which loop an attribute type leads to), and
  with it the types.  `NothingMissing` carries what has been put together so far (`Assembled`: one
  span per turn, each chunk in place, as many bytes as that many chunks make), which at the
  end, with the length tested, says how many turns there were.  The tiling
  of chunks is inductive with the last span's end in `src`; the bound on the work counts
  the spans by the loop variable, whose table entry was read from the fork.  `PaddingIsLeft` needs
  that on a well-formed list the output is exactly `i` full chunks, or the whole size, which
  is nonlinear arithmetic about rounding up, stated as lemmas.
* `Vfs_proofs`, first part.  Lemmas about one record compare the parsers pairwise; `ReadsAreListed` and
  `DecmpfsAgrees` are then inductive as they stand, over `TypeOK`.  `ListedAreRead` needs
  `ReadsAreListed`: had an earlier record been read under the name of one just listed, it
  would be in the list, and the new one would not be the first of its name.
* `Vfs_proofs`, second part.  `WalksTheAttributes` maps the client's specification to that of `Xattrs`, so
  that every theorem about `Xattrs` holds in it.  Two invariants of the walk are added: no
  value is longer than usize, and `decmpfs` holds the first record that fits.  With them the
  adapter's way to a stream's data (index, list, name, read; or forks, attribute, decoding)
  equals the content as documented (`ReadsItsContent`); each `read_at` is then `Deliver`, `End`
  or `Fail` of `ByteStream`, all other steps are `Open` or stutter, which is
  `PiecesMakeTheStream`.  `SizesShownAreRead` adds to that how many bytes have been received.

* `RecursiveFunctions`.  Reference definitions are recursive functions over the naturals (the
  chain, the records of a node, sums).  TLA+ defines such a function by CHOOSE, so a proof
  must first show that one exists (`RecursionDefines`).  Induction and existence are stated
  with sets and functions in the place of operators, from the library's theorem that the
  naturals are well-founded.

Only model-checked: `WalkReturns`, since liveness under fairness is beyond the prover; that
each step lowers a bound on the steps left (`AlwaysProgress`) is proved.  The violations of
section 3 are TLC's counterexamples.

## 6. Not modelled

* `parse` and the VFS getters copy fields.  Reports are tables and wording.
* The codecs are crates; `Decmpfs` assumes nothing of them but that nothing decompresses
  to nothing or an error, and that LZVN keeps to the limit it is given.
* UTF-16 decoding and names beyond equality; access times, which nothing judges.
* `read_dir`, `lookup` and `meta` of the VFS adapter hand on what `list_dir` and `stat` return
  (`Catalog`) or an error; `extents`, `deleted`, `unallocated` and `read_link` return nothing.
* The analyzer's other callers (`forensic/src/lib.rs`) re-export; fuzz targets and tests call
  the public functions.

## 7. Plan

Done: sections 2 and 5, in the order B-tree walk, node audit, catalog, hierarchy, forks,
decmpfs, attributes, files as a client sees them.  The order followed how much depends
on a part.  What remains worth doing:

1. A tree of nodes under `overflow_blocks`, to bound how often a looping extents tree is
   counted.
2. `Vfs` over the states of `Catalog`, `ForkRead` and `Decmpfs` instead of their results.
