------------------------------- MODULE TreeWalk -------------------------------
(***************************************************************************)
(* walk (core/src/lib.rs): the recursive listing of a volume.  Folders     *)
(* wait on a stack; each is listed by list_dir, a pass over the whole      *)
(* catalog; every entry goes to the output, and a folder entry also to the *)
(* stack unless its CNID has been visited.  On disk nothing keeps a folder *)
(* from standing below two parents, below itself or below no reachable     *)
(* parent, and a name may be empty.                                        *)
(*                                                                         *)
(* The catalog is the list of its entries as record_entry parses them, in  *)
(* leaf order.  A path is the sequence of the names between its slashes;   *)
(* the empty string is the path of one empty name.                         *)
(***************************************************************************)
EXTENDS Integers, Sequences, FiniteSets

CONSTANTS
    CNIDs,              \* catalog node IDs
    Names,              \* names, the empty one among them
    ROOT_FOLDER_CNID,
    Catalogs            \* the catalogs a run starts from

EmptyName == ""

CatalogEntry == [parent : CNIDs, is_dir : BOOLEAN, cnid : CNIDs, name : Names]

ASSUME CatalogsAssumption ==
    /\ ROOT_FOLDER_CNID \in CNIDs
    /\ EmptyName \in Names
    /\ Catalogs \subseteq Seq(CatalogEntry)

VARIABLES
    cat,        \* the catalog's entries
    located,    \* locate_catalog succeeds on the volume
    pc,         \* "start", "walk", then "done" or "none"
    stack,      \* the folders to list, the top last: [cnid, prefix]
    dir,        \* the folder being listed
    todo,       \* positions in cat of its entries not taken yet
    visited,    \* the visited set
    out         \* the entries pushed, with their position in cat as history

vars == <<cat, located, pc, stack, dir, todo, visited, out>>

EmptyPath == <<EmptyName>>

Folder == [cnid : CNIDs, prefix : Seq(Names)]

Init ==
    /\ cat \in Catalogs
    /\ located \in BOOLEAN
    /\ pc = "start"
    /\ stack = <<[cnid |-> ROOT_FOLDER_CNID, prefix |-> EmptyPath]>>
    /\ dir = [cnid |-> ROOT_FOLDER_CNID, prefix |-> EmptyPath]
    /\ todo = {}
    /\ visited = {ROOT_FOLDER_CNID}
    /\ out = <<>>

\* A mutant of Join: every name is joined with a slash.
AlwaysAppend(prefix, name) == Append(prefix, name)

\* The entry's path: an empty prefix contributes no slash.
Join(prefix, name) == IF prefix = EmptyPath THEN <<name>> ELSE Append(prefix, name)

\* A mutant of list_dir: positions count from 0.
ListFromZero(p) == {i - 1 : i \in {j \in DOMAIN cat : cat[j].parent = p}}

\* The positions of list_dir's entries for a folder; they are taken in leaf order.
list_dir(p) == {i \in DOMAIN cat : cat[i].parent = p}

\* `list_dir(volume, ROOT_FOLDER_CNID)?`
Confirm ==
    /\ pc = "start"
    /\ pc' = IF located THEN "walk" ELSE "none"
    /\ UNCHANGED <<cat, located, stack, dir, todo, visited, out>>

\* The top folder is popped and listed.  (list_dir cannot fail here: it did not at the
\* start, and the volume is the same.)
PopFolder ==
    /\ pc = "walk" /\ todo = {} /\ stack # <<>>
    /\ dir' = stack[Len(stack)]
    /\ stack' = SubSeq(stack, 1, Len(stack) - 1)
    /\ todo' = list_dir(dir'.cnid)
    /\ UNCHANGED <<cat, located, pc, visited, out>>

\* A mutant of EntersStack: the visited set is not consulted.
EveryFolder(e) == e.is_dir

\* A mutant of EntersStack: files are not told from folders.
AnyUnvisited(e) == e.cnid \notin visited

\* `e.is_dir && visited.insert(e.cnid)`
EntersStack(e) == e.is_dir /\ e.cnid \notin visited

TakeEntry(i) ==
    /\ pc = "walk"
    /\ i \in todo /\ \A j \in todo : i <= j
    /\ LET e == cat[i]
           path == Join(dir.prefix, e.name)
       IN /\ IF EntersStack(e)
             THEN /\ visited' = visited \cup {e.cnid}
                  /\ stack' = Append(stack, [cnid |-> e.cnid, prefix |-> path])
             ELSE UNCHANGED <<visited, stack>>
          /\ out' = Append(out, [path |-> path, is_dir |-> e.is_dir, cnid |-> e.cnid, at |-> i])
    /\ todo' = todo \ {i}
    /\ UNCHANGED <<cat, located, pc, dir>>

\* The stack is empty: Some(out).
Finish ==
    /\ pc = "walk" /\ todo = {} /\ stack = <<>>
    /\ pc' = "done"
    /\ UNCHANGED <<cat, located, stack, dir, todo, visited, out>>

Next == Confirm \/ PopFolder \/ (\E i \in DOMAIN cat : TakeEntry(i)) \/ Finish

Spec == Init /\ [][Next]_vars

------------------------------------------------------------------------------
TypeOK ==
    /\ cat \in Seq(CatalogEntry)
    /\ located \in BOOLEAN
    /\ pc \in {"start", "walk", "done", "none"}
    /\ stack \in Seq(Folder) /\ dir \in Folder
    /\ todo \subseteq DOMAIN cat
    /\ visited \subseteq CNIDs
    /\ out \in Seq([path : Seq(Names), is_dir : BOOLEAN, cnid : CNIDs, at : Nat])

\* The folders that can be reached from the root, entry by entry: those in every set that
\* holds the root and, with a folder, the folders in it.
Holds(U) == \A i \in DOMAIN cat : cat[i].is_dir /\ cat[i].parent \in U => cat[i].cnid \in U

Reachable == {c \in CNIDs : \A U \in SUBSET CNIDs : ROOT_FOLDER_CNID \in U /\ Holds(U) => c \in U}

\* When walk returns, the output has the records that lie in folders reachable from the
\* root, every one of them, no other, and each exactly once: a folder that a damaged catalog
\* holds below several parents, or below itself, has its contents listed once, although it
\* is itself listed at each place.
ListedExactlyOnce ==
    pc = "done" =>
        /\ \A i \in DOMAIN cat :
                cat[i].parent \in Reachable <=> \E k \in DOMAIN out : out[k].at = i
        /\ \A k, l \in DOMAIN out : out[k].at = out[l].at => k = l

\* Every path leads back to the root: it is the name alone of an entry of the root, or the
\* path of a folder listed before and the name of an entry of that folder (prefixes on the
\* stack stay those of the folder they were pushed for, however long it waits there).
PathsLeadToTheRoot ==
    \A k \in DOMAIN out :
        LET e == cat[out[k].at] IN
        \/ e.parent = ROOT_FOLDER_CNID /\ out[k].path = <<e.name>>
        \/ \E j \in 1..(k - 1) :
                /\ out[j].is_dir /\ out[j].cnid = e.parent
                /\ out[k].path = Join(out[j].path, e.name)

\* An upper bound on the steps left.  A folder taken onto the stack leaves the unvisited
\* ones, so only popping lengthens the list of entries, and that takes a folder away.
FolderCNIDs == {cat[i].cnid : i \in {j \in DOMAIN cat : cat[j].is_dir}}

Measure ==
    CASE pc \in {"start", "walk"} ->
            (Cardinality(FolderCNIDs \ visited) + Len(stack)) * (Len(cat) + 1)
                + Cardinality(todo) + (IF pc = "start" THEN 2 ELSE 1)
      [] OTHER -> 0

\* walk terminates on any catalog, cycles and all: no step leaves as many steps to go as
\* there were before it.
WalkEnds == [][0 <= Measure' /\ Measure' < Measure]_vars

\* walk is a traversal: it reaches all the folders below the root and no other.
Search == INSTANCE TreeSearch
    WITH Root <- ROOT_FOLDER_CNID,
         edges <- {<<cat[i].parent, cat[i].cnid>> : i \in {j \in DOMAIN cat : cat[j].is_dir}},
         reached <- visited,
         finished <- pc = "done"

TraversesTheTree == Search!SearchSpec
==============================================================================
