------------------------------ MODULE TreeSearch ------------------------------
(***************************************************************************)
(* What a traversal of a folder hierarchy promises, whatever order it      *)
(* takes: it only ever reaches a folder through one it has reached before, *)
(* starting from the root, and it does not stop while a folder it has      *)
(* reached holds one it has not.  When it is over it has therefore reached *)
(* exactly the folders that are reachable from the root.                   *)
(***************************************************************************)
CONSTANT Root

VARIABLES
    edges,      \* the hierarchy: pairs <<parent, child>> of folders
    reached,    \* the folders reached so far
    finished    \* the traversal is over

searchVars == <<edges, reached, finished>>

SearchInit == reached = {Root} /\ ~finished

Reach == /\ ~finished
         /\ \E e \in edges : /\ e[1] \in reached /\ e[2] \notin reached
                             /\ reached' = reached \cup {e[2]}
         /\ UNCHANGED <<edges, finished>>

Stop == /\ ~finished
        /\ \A e \in edges : e[1] \in reached => e[2] \in reached
        /\ finished' = TRUE
        /\ UNCHANGED <<edges, reached>>

SearchSpec == SearchInit /\ [][Reach \/ Stop]_searchVars
==============================================================================
