------------------------------ MODULE MCTreeWalk ------------------------------
(***************************************************************************)
(* Instances of TreeWalk for TLC: every catalog of at most three entries   *)
(* over the root, two folders or files and an empty and a plain name, and  *)
(* some of four entries with a chain, a diamond and a cycle.               *)
(***************************************************************************)
EXTENDS TreeWalk

E(parent, is_dir, cnid, name) ==
    [parent |-> parent, is_dir |-> is_dir, cnid |-> cnid, name |-> name]

\* Parents 2 (the root) to 4; CNIDs likewise, so that folders may contain the root.
SmallEntries ==
    { E(p, TRUE, c, "a") : p, c \in 2..4 }
    \cup { E(p, TRUE, c, "") : p \in {2, 3}, c \in {3, 4} }
    \cup { E(p, FALSE, c, "b") : p \in {2, 3}, c \in {3, 5} }

FolderGraphs ==
    { [i \in 1..4 |-> E(g[i][1], TRUE, g[i][2], "a")] :
        g \in [1..4 -> {<<2, 3>>, <<2, 4>>, <<3, 4>>, <<4, 3>>, <<4, 5>>, <<5, 3>>}] }

SmallCatalogs == (UNION {[1..n -> SmallEntries] : n \in 0..3}) \cup FolderGraphs
==============================================================================
