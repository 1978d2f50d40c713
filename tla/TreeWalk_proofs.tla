--------------------------- MODULE TreeWalk_proofs ---------------------------
(***************************************************************************)
(* TreeWalk for every catalog: the traversal is complete, lists each       *)
(* record once, derives every path from the folder above, and ends.        *)
(***************************************************************************)
EXTENDS TreeWalk, FiniteSetTheorems, SequenceTheorems, TLAPS

\* The type invariant is inductive as it stands.
THEOREM TypeCorrect == Spec => []TypeOK
<1>1. Init => TypeOK
  <2> SUFFICES ASSUME Init PROVE TypeOK
    OBVIOUS
  <2>1. [cnid |-> ROOT_FOLDER_CNID, prefix |-> EmptyPath] \in Folder
    BY CatalogsAssumption DEF Folder, EmptyPath
  <2> QED BY <2>1, CatalogsAssumption DEF Init, TypeOK
<1>2. TypeOK /\ [Next]_vars => TypeOK'
  <2> SUFFICES ASSUME TypeOK, [Next]_vars PROVE TypeOK'
    OBVIOUS
  <2>1. CASE Confirm
    BY <2>1 DEF TypeOK, Confirm
  <2>2. CASE PopFolder
    <3>1. stack[Len(stack)] \in Folder /\ SubSeq(stack, 1, Len(stack) - 1) \in Seq(Folder)
      BY <2>2 DEF TypeOK, PopFolder
    <3>2. list_dir(dir'.cnid) \subseteq DOMAIN cat
      BY DEF list_dir
    <3> QED BY <2>2, <3>1, <3>2 DEF TypeOK, PopFolder
  <2>3. ASSUME NEW i \in DOMAIN cat, TakeEntry(i) PROVE TypeOK'
    <3> DEFINE e == cat[i]
               path == Join(dir.prefix, e.name)
    <3>1. e.name \in Names /\ e.cnid \in CNIDs /\ e.is_dir \in BOOLEAN /\ i \in Nat
      <4>1. e \in CatalogEntry
        BY DEF TypeOK
      <4>2. e.name \in Names /\ e.cnid \in CNIDs
        BY <4>1 DEF CatalogEntry
      <4>3. e.is_dir \in BOOLEAN
        BY <4>1, Zenon DEF CatalogEntry
      <4>4. i \in Nat
        BY DEF TypeOK
      <4> QED BY <4>2, <4>3, <4>4
    <3>2. path \in Seq(Names)
      BY <3>1 DEF TypeOK, Folder, Join
    <3>3. stack' \in Seq(Folder) /\ visited' \subseteq CNIDs
      <4>1. [cnid |-> e.cnid, prefix |-> path] \in Folder
        BY <3>1, <3>2 DEF Folder
      <4>2. CASE EntersStack(e)
        <5>1. visited' = visited \cup {e.cnid}
              /\ stack' = Append(stack, [cnid |-> e.cnid, prefix |-> path])
          BY <2>3, <4>2 DEF TakeEntry
        <5> QED BY <3>1, <4>1, <5>1 DEF TypeOK
      <4>3. CASE ~EntersStack(e)
        BY <2>3, <4>3 DEF TypeOK, TakeEntry
      <4> QED BY <4>2, <4>3
    <3>4. out' \in Seq([path : Seq(Names), is_dir : BOOLEAN, cnid : CNIDs, at : Nat])
      <4>1. [path |-> path, is_dir |-> e.is_dir, cnid |-> e.cnid, at |-> i]
                \in [path : Seq(Names), is_dir : BOOLEAN, cnid : CNIDs, at : Nat]
        BY <3>1, <3>2
      <4> QED BY <2>3, <4>1 DEF TypeOK, TakeEntry
    <3> QED BY <2>3, <3>3, <3>4 DEF TypeOK, TakeEntry
  <2>4. CASE Finish
    BY <2>4 DEF TypeOK, Finish
  <2>5. CASE UNCHANGED vars
    BY <2>5 DEF TypeOK, vars
  <2> QED BY <2>1, <2>2, <2>3, <2>4, <2>5 DEF Next
<1> QED BY <1>1, <1>2, PTL DEF Spec

------------------------------------------------------------------------------
\* The inductive invariant.  A visited folder is on the stack, or being listed, or listed;
\* the output holds the records of the listed ones and, of the one being listed, those
\* taken; and a folder in the output has been visited.
OnStack == {stack[k].cnid : k \in DOMAIN stack}

StackOK ==
    /\ OnStack \subseteq visited
    /\ \A k, l \in DOMAIN stack : stack[k].cnid = stack[l].cnid => k = l

DirOK ==
    /\ dir.cnid \in visited
    /\ todo \subseteq list_dir(dir.cnid)
    /\ todo # {} => dir.cnid \notin OnStack
    /\ pc \in {"start", "done"} => todo = {}
    /\ pc = "done" => stack = <<>>
    /\ ROOT_FOLDER_CNID \in visited

OutOK ==
    /\ \A i \in DOMAIN cat :
            (\E k \in DOMAIN out : out[k].at = i)
                <=> (cat[i].parent \in visited /\ cat[i].parent \notin OnStack /\ i \notin todo)
    /\ \A k, l \in DOMAIN out : out[k].at = out[l].at => k = l

FoldersVisited ==
    \A k \in DOMAIN out :
        /\ out[k].at \in DOMAIN cat
        /\ cat[out[k].at].is_dir => cat[out[k].at].cnid \in visited

WalkInv == StackOK /\ DirOK /\ OutOK /\ FoldersVisited

LEMMA InitWalkInv == Init => WalkInv
<1> SUFFICES ASSUME Init PROVE WalkInv
  OBVIOUS
<1> DEFINE root == [cnid |-> ROOT_FOLDER_CNID, prefix |-> EmptyPath]
<1>1. stack = <<root>> /\ dir = root /\ visited = {ROOT_FOLDER_CNID} /\ out = <<>>
      /\ todo = {} /\ pc = "start"
  BY DEF Init
<1>2. DOMAIN stack = {1} /\ stack[1].cnid = ROOT_FOLDER_CNID /\ dir.cnid = ROOT_FOLDER_CNID
  BY <1>1
<1>3. OnStack = {ROOT_FOLDER_CNID}
  BY <1>2 DEF OnStack
<1>4. StackOK /\ DirOK /\ FoldersVisited
  BY <1>1, <1>2, <1>3 DEF StackOK, DirOK, FoldersVisited
<1>5. OutOK
  BY <1>1, <1>3 DEF OutOK
<1> QED BY <1>4, <1>5 DEF WalkInv

\* The top of the stack leaves it, and nothing else does.
LEMMA PopStack ==
    ASSUME TypeOK, StackOK, PopFolder
    PROVE  /\ dir' = stack[Len(stack)]
           /\ dir'.cnid \in OnStack
           /\ OnStack' = OnStack \ {dir'.cnid}
           /\ StackOK'
<1> DEFINE n == Len(stack)
<1>1. /\ n \in Nat \ {0} /\ DOMAIN stack = 1..n
      /\ stack' = SubSeq(stack, 1, n - 1) /\ dir' = stack[n]
  BY DEF TypeOK, PopFolder
<1>2. DOMAIN stack' = 1..(n - 1) /\ \A k \in 1..(n - 1) : stack'[k] = stack[k]
  BY <1>1 DEF TypeOK
<1>3. dir'.cnid \in OnStack
  BY <1>1 DEF OnStack
<1>4. \A k \in 1..(n - 1) : stack[k].cnid # stack[n].cnid
  BY <1>1 DEF StackOK
<1>5. OnStack' = OnStack \ {dir'.cnid}
  <2>1. OnStack' = {stack[k].cnid : k \in 1..(n - 1)}
    BY <1>2 DEF OnStack
  <2>2. \A x \in OnStack : x # dir'.cnid => x \in OnStack'
    <3> SUFFICES ASSUME NEW x \in OnStack, x # dir'.cnid PROVE x \in OnStack'
      OBVIOUS
    <3>1. PICK k \in 1..n : x = stack[k].cnid
      BY <1>1 DEF OnStack
    <3>2. k \in 1..(n - 1)
      BY <1>1, <3>1
    <3> QED BY <2>1, <3>1, <3>2
  <2>3. OnStack' \subseteq OnStack
    BY <1>1, <2>1 DEF OnStack
  <2>4. dir'.cnid \notin OnStack'
    BY <1>1, <1>4, <2>1
  <2> QED BY <2>2, <2>3, <2>4
<1>6. StackOK'
  <2>1. visited' = visited
    BY DEF PopFolder
  <2>2. OnStack' \subseteq visited'
    BY <1>5, <2>1 DEF StackOK
  <2>3. \A k, l \in DOMAIN stack' : stack'[k].cnid = stack'[l].cnid => k = l
    BY <1>1, <1>2 DEF StackOK
  <2> QED BY <2>2, <2>3 DEF StackOK
<1> QED BY <1>1, <1>3, <1>5, <1>6

\* Taking an entry leaves the set of visited folders off the stack as it was.
LEMMA TakeStack ==
    ASSUME TypeOK, StackOK, NEW i \in DOMAIN cat, TakeEntry(i)
    PROVE  /\ StackOK'
           /\ visited' \ OnStack' = visited \ OnStack
           /\ visited \subseteq visited'
           /\ \A x \in OnStack' : x \in OnStack \/ x \notin visited
           /\ cat[i].is_dir => cat[i].cnid \in visited'
<1> DEFINE e == cat[i]
           n == Len(stack)
           top == [cnid |-> e.cnid, prefix |-> Join(dir.prefix, e.name)]
<1>0. n \in Nat /\ DOMAIN stack = 1..n
  BY DEF TypeOK
<1>1. CASE EntersStack(e)
  <2>1. visited' = visited \cup {e.cnid} /\ stack' = Append(stack, top)
    BY <1>1 DEF TakeEntry
  <2>2. /\ DOMAIN stack' = 1..(n + 1) /\ stack'[n + 1] = top
        /\ \A k \in 1..n : stack'[k] = stack[k]
    BY <2>1, <1>0 DEF TypeOK
  <2>3. e.cnid \notin visited /\ e.cnid \notin OnStack
    BY <1>1 DEF EntersStack, StackOK
  <2>4. top.cnid = e.cnid
    OBVIOUS
  <2> HIDE DEF e, n, top
  <2>5. OnStack = {stack[k].cnid : k \in 1..n}
    BY <1>0 DEF OnStack
  <2>6. OnStack' = OnStack \cup {e.cnid}
    <3>1. OnStack' = {stack'[k].cnid : k \in 1..(n + 1)}
      BY <2>2 DEF OnStack
    <3>2. \A k \in 1..(n + 1) : k \in 1..n \/ k = n + 1
      BY <1>0
    <3>3. n + 1 \in 1..(n + 1) /\ \A k \in 1..n : k \in 1..(n + 1)
      BY <1>0
    <3> QED BY <2>2, <2>4, <2>5, <3>1, <3>2, <3>3
  <2>7. \A k, l \in DOMAIN stack' : stack'[k].cnid = stack'[l].cnid => k = l
    <3> SUFFICES ASSUME NEW k \in 1..(n + 1), NEW l \in 1..(n + 1),
                        stack'[k].cnid = stack'[l].cnid
                 PROVE  k = l
      BY <2>2
    <3>1. CASE k \in 1..n /\ l \in 1..n
      BY <1>0, <2>2, <3>1 DEF StackOK
    <3>2. CASE k \in 1..n /\ l = n + 1
      BY <2>2, <2>3, <2>4, <2>5, <3>2
    <3>3. CASE k = n + 1 /\ l \in 1..n
      BY <2>2, <2>3, <2>4, <2>5, <3>3
    <3>4. CASE k = n + 1 /\ l = n + 1
      BY <3>4
    <3> QED BY <1>0, <3>1, <3>2, <3>3, <3>4
  <2>8. StackOK'
    BY <2>1, <2>6, <2>7 DEF StackOK
  <2> QED BY <2>1, <2>3, <2>6, <2>8 DEF e
<1>2. CASE ~EntersStack(e)
  <2>1. visited' = visited /\ stack' = stack
    BY <1>2 DEF TakeEntry
  <2>2. OnStack' = OnStack
    BY <2>1 DEF OnStack
  <2>3. StackOK'
    BY <2>1, <2>2 DEF StackOK
  <2>4. e.is_dir => e.cnid \in visited
    BY <1>2 DEF EntersStack
  <2> QED BY <2>1, <2>2, <2>3, <2>4
<1> QED BY <1>1, <1>2

\* What TakeEntry adds to the output.
LEMMA TakeOut ==
    ASSUME TypeOK, NEW i \in DOMAIN cat, TakeEntry(i)
    PROVE  /\ Len(out) \in Nat /\ DOMAIN out = 1..Len(out)
           /\ DOMAIN out' = 1..(Len(out) + 1)
           /\ \A k \in 1..Len(out) : out'[k] = out[k]
           /\ out'[Len(out) + 1] = [path |-> Join(dir.prefix, cat[i].name),
                                    is_dir |-> cat[i].is_dir, cnid |-> cat[i].cnid, at |-> i]
BY DEF TypeOK, TakeEntry

LEMMA NextWalkInv == TypeOK /\ WalkInv /\ [Next]_vars => WalkInv'
<1> SUFFICES ASSUME TypeOK, WalkInv, [Next]_vars PROVE WalkInv'
  OBVIOUS
<1>0. StackOK /\ DirOK /\ OutOK /\ FoldersVisited
  BY DEF WalkInv
<1>1. CASE Confirm \/ Finish \/ UNCHANGED vars
  <2>1. UNCHANGED <<cat, stack, dir, todo, visited, out>>
    BY <1>1 DEF Confirm, Finish, vars
  <2>2. OnStack' = OnStack
    BY <2>1 DEF OnStack
  <2>3. StackOK' /\ OutOK' /\ FoldersVisited'
    BY <1>0, <2>1, <2>2 DEF StackOK, OutOK, FoldersVisited
  <2>4. list_dir(dir.cnid)' = list_dir(dir.cnid)
    BY <2>1 DEF list_dir
  <2>5. pc' = pc \/ Confirm \/ Finish
    BY <1>1 DEF vars
  <2>6. DirOK'
    BY <1>0, <2>1, <2>2, <2>4, <2>5 DEF DirOK, Confirm, Finish
  <2> QED BY <2>3, <2>6 DEF WalkInv
<1>2. CASE PopFolder
  <2>1. /\ dir'.cnid \in OnStack
        /\ OnStack' = OnStack \ {dir'.cnid}
        /\ StackOK'
    BY <1>0, <1>2, PopStack
  <2>2. /\ pc = "walk" /\ pc' = pc /\ cat' = cat /\ visited' = visited /\ out' = out
        /\ todo = {} /\ todo' = list_dir(dir'.cnid)
    BY <1>2 DEF PopFolder
  <2>3. list_dir(dir.cnid)' = list_dir(dir'.cnid)
    BY <2>2 DEF list_dir
  <2>4. DirOK'
    BY <1>0, <2>1, <2>2, <2>3 DEF DirOK, StackOK
  <2>5. OutOK'
    <3>1. ASSUME NEW i \in DOMAIN cat
          PROVE  (cat[i].parent \in visited' /\ cat[i].parent \notin OnStack' /\ i \notin todo')
                    <=> (cat[i].parent \in visited /\ cat[i].parent \notin OnStack /\ i \notin todo)
      BY <1>0, <2>1, <2>2 DEF list_dir, StackOK
    <3> QED BY <1>0, <2>2, <3>1 DEF OutOK
  <2>6. FoldersVisited'
    BY <1>0, <2>2 DEF FoldersVisited
  <2> QED BY <2>1, <2>4, <2>5, <2>6 DEF WalkInv
<1>3. ASSUME NEW i \in DOMAIN cat, TakeEntry(i) PROVE WalkInv'
  <2>1. /\ StackOK'
        /\ visited' \ OnStack' = visited \ OnStack
        /\ visited \subseteq visited'
        /\ \A x \in OnStack' : x \in OnStack \/ x \notin visited
        /\ cat[i].is_dir => cat[i].cnid \in visited'
    BY <1>0, <1>3, TakeStack
  <2>2. /\ pc = "walk" /\ pc' = pc /\ cat' = cat /\ dir' = dir
        /\ i \in todo /\ todo' = todo \ {i}
    BY <1>3 DEF TakeEntry
  <2>3. list_dir(dir.cnid)' = list_dir(dir.cnid)
    BY <2>2 DEF list_dir
  <2>4. cat[i].parent = dir.cnid /\ dir.cnid \in visited /\ dir.cnid \notin OnStack
    BY <1>0, <2>2 DEF DirOK, list_dir
  <2>5. DirOK'
    BY <1>0, <2>1, <2>2, <2>3, <2>4 DEF DirOK
  <2> DEFINE n == Len(out)
  <2>6. /\ n \in Nat /\ DOMAIN out = 1..n /\ DOMAIN out' = 1..(n + 1)
        /\ \A k \in 1..n : out'[k] = out[k]
    BY <1>3, TakeOut
  <2>6a. out'[n + 1].at = i
    <3>1. out'[n + 1] = [path |-> Join(dir.prefix, cat[i].name),
                         is_dir |-> cat[i].is_dir, cnid |-> cat[i].cnid, at |-> i]
      BY <1>3, TakeOut
    <3> QED BY <3>1
  <2> HIDE DEF n
  <2>7. ~\E k \in DOMAIN out : out[k].at = i
    BY <1>0, <2>2 DEF OutOK
  <2>8. ASSUME NEW j \in DOMAIN cat
        PROVE  (\E k \in DOMAIN out' : out'[k].at = j)
                  <=> (cat[j].parent \in visited' /\ cat[j].parent \notin OnStack' /\ j \notin todo')
    <3>1. (\E k \in DOMAIN out' : out'[k].at = j)
              <=> (j = i \/ \E k \in DOMAIN out : out[k].at = j)
      <4>1. \A k \in 1..(n + 1) : k \in 1..n \/ k = n + 1
        BY <2>6
      <4>2. n + 1 \in 1..(n + 1) /\ \A k \in 1..n : k \in 1..(n + 1)
        BY <2>6
      <4> QED BY <2>6, <2>6a, <4>1, <4>2
    <3>2. (cat[j].parent \in visited' /\ cat[j].parent \notin OnStack')
              <=> (cat[j].parent \in visited /\ cat[j].parent \notin OnStack)
      BY <2>1
    <3>3. CASE j = i
      BY <2>2, <2>4, <3>1, <3>2, <3>3
    <3>4. CASE j # i
      BY <1>0, <2>2, <3>1, <3>2, <3>4 DEF OutOK
    <3> QED BY <3>3, <3>4
  <2>9. \A k, l \in DOMAIN out' : out'[k].at = out'[l].at => k = l
    <3> SUFFICES ASSUME NEW k \in 1..(n + 1), NEW l \in 1..(n + 1), out'[k].at = out'[l].at
                 PROVE  k = l
      BY <2>6
    <3>1. CASE k \in 1..n /\ l \in 1..n
      BY <1>0, <2>6, <3>1 DEF OutOK
    <3>2. CASE k \in 1..n /\ l = n + 1
      BY <2>6, <2>7, <2>6a, <3>2
    <3>3. CASE k = n + 1 /\ l \in 1..n
      BY <2>6, <2>7, <2>6a, <3>3
    <3> QED BY <2>6, <3>1, <3>2, <3>3
  <2>10. OutOK'
    BY <2>2, <2>8, <2>9 DEF OutOK
  <2>11. FoldersVisited'
    <3> SUFFICES ASSUME NEW k \in 1..(n + 1)
                 PROVE  /\ out'[k].at \in DOMAIN cat
                        /\ cat[out'[k].at].is_dir => cat[out'[k].at].cnid \in visited'
      BY <2>2, <2>6 DEF FoldersVisited
    <3>1. CASE k \in 1..n
      BY <1>0, <2>1, <2>6, <3>1 DEF FoldersVisited
    <3>2. CASE k = n + 1
      BY <2>1, <2>6a, <3>2
    <3> QED BY <2>6, <3>1, <3>2
  <2> QED BY <2>1, <2>5, <2>10, <2>11 DEF WalkInv
<1> QED BY <1>1, <1>2, <1>3 DEF Next

LEMMA WalkInvariant == Spec => []WalkInv
BY InitWalkInv, NextWalkInv, TypeCorrect, PTL DEF Spec

\* No folder is visited that the root does not lead to.
LEMMA VisitedReachable == Spec => [](visited \subseteq Reachable)
<1>1. Init => visited \subseteq Reachable
  BY CatalogsAssumption DEF Init, Reachable
<1>2. TypeOK /\ WalkInv /\ visited \subseteq Reachable /\ [Next]_vars => (visited \subseteq Reachable)'
  <2> SUFFICES ASSUME TypeOK, WalkInv, visited \subseteq Reachable, [Next]_vars
               PROVE  (visited \subseteq Reachable)'
    OBVIOUS
  <2>1. cat' = cat
    BY DEF Next, Confirm, PopFolder, TakeEntry, Finish, vars
  <2>2. Reachable' = Reachable
    BY <2>1 DEF Reachable, Holds
  <2>3. CASE visited' = visited
    BY <2>2, <2>3
  <2>4. ASSUME NEW i \in DOMAIN cat, TakeEntry(i), EntersStack(cat[i])
        PROVE  visited' \subseteq Reachable
    <3>1. visited' = visited \cup {cat[i].cnid} /\ i \in todo /\ cat[i].is_dir
      BY <2>4 DEF TakeEntry, EntersStack
    <3>2. cat[i].parent \in Reachable
      BY <3>1 DEF WalkInv, DirOK, list_dir
    <3>3. cat[i].cnid \in CNIDs
      <4>1. cat[i] \in CatalogEntry
        BY DEF TypeOK
      <4> QED BY <4>1 DEF CatalogEntry
    <3>4. cat[i].cnid \in Reachable
      <4> SUFFICES ASSUME NEW U \in SUBSET CNIDs, ROOT_FOLDER_CNID \in U, Holds(U)
                   PROVE  cat[i].cnid \in U
        BY <3>3 DEF Reachable
      <4>1. cat[i].parent \in U
        BY <3>2 DEF Reachable
      <4> QED BY <3>1, <4>1 DEF Holds
    <3> QED BY <3>1, <3>4
  <2>5. \/ visited' = visited
        \/ \E i \in DOMAIN cat : TakeEntry(i) /\ EntersStack(cat[i])
    BY DEF Next, Confirm, PopFolder, TakeEntry, Finish, vars
  <2> QED BY <2>2, <2>3, <2>4, <2>5
<1> QED BY <1>1, <1>2, TypeCorrect, WalkInvariant, PTL DEF Spec

\* The output of walk holds each record of the folders below the root once, and no other.
THEOREM ListsOnce == Spec => []ListedExactlyOnce
<1>1. TypeOK /\ WalkInv /\ visited \subseteq Reachable => ListedExactlyOnce
  <2> SUFFICES ASSUME TypeOK, WalkInv, visited \subseteq Reachable, pc = "done" PROVE
        /\ \A i \in DOMAIN cat :
                cat[i].parent \in Reachable <=> \E k \in DOMAIN out : out[k].at = i
        /\ \A k, l \in DOMAIN out : out[k].at = out[l].at => k = l
    BY DEF ListedExactlyOnce
  <2>1. todo = {} /\ stack = <<>>
    BY DEF WalkInv, DirOK
  <2>2. OnStack = {}
    BY <2>1 DEF OnStack
  <2>3. \A i \in DOMAIN cat : cat[i].parent \in visited <=> \E k \in DOMAIN out : out[k].at = i
    BY <2>1, <2>2 DEF WalkInv, OutOK
  <2>4. Holds(visited)
    <3> SUFFICES ASSUME NEW i \in DOMAIN cat, cat[i].is_dir, cat[i].parent \in visited
                 PROVE  cat[i].cnid \in visited
      BY DEF Holds
    <3>1. PICK k \in DOMAIN out : out[k].at = i
      BY <2>3
    <3> QED BY <3>1 DEF WalkInv, FoldersVisited
  <2>5. Reachable \subseteq visited
    <3>1. ROOT_FOLDER_CNID \in visited /\ visited \in SUBSET CNIDs
      BY DEF TypeOK, WalkInv, DirOK
    <3> QED BY <2>4, <3>1 DEF Reachable
  <2>6. Reachable = visited
    BY <2>5
  <2> QED BY <2>3, <2>6 DEF WalkInv, OutOK
<1> QED BY <1>1, TypeCorrect, VisitedReachable, WalkInvariant, PTL

------------------------------------------------------------------------------
\* Every step of walk is a step of the search or none, and it stops only once the folders
\* reached are closed under containment.
Edges == {<<cat[i].parent, cat[i].cnid>> : i \in {j \in DOMAIN cat : cat[j].is_dir}}

\* walk implements TreeSearch: every step reaches a folder, stops, or is unseen.
THEOREM WalkTraverses == Spec => TraversesTheTree
<1> USE DEF Search!SearchInit, Search!Reach, Search!Stop, Search!searchVars
<1>1. Init => Search!SearchInit
  BY DEF Init
<1>2. TypeOK /\ WalkInv /\ [Next]_vars
        => [Search!Reach \/ Search!Stop]_(Search!searchVars)
  <2> SUFFICES ASSUME TypeOK, WalkInv, [Next]_vars
               PROVE  [Search!Reach \/ Search!Stop]_(Search!searchVars)
    OBVIOUS
  <2>1. CASE Confirm \/ PopFolder \/ UNCHANGED vars
    <3>1. UNCHANGED <<cat, visited>> /\ (pc' = "done") = (pc = "done")
      BY <2>1 DEF Confirm, PopFolder, vars
    <3> QED BY <3>1
  <2>2. ASSUME NEW i \in DOMAIN cat, TakeEntry(i)
        PROVE  [Search!Reach \/ Search!Stop]_(Search!searchVars)
    <3>1. /\ cat' = cat /\ pc = "walk" /\ pc' = pc /\ i \in todo
          /\ IF EntersStack(cat[i]) THEN visited' = visited \cup {cat[i].cnid}
                                    ELSE visited' = visited
      BY <2>2 DEF TakeEntry
    <3>2. CASE ~EntersStack(cat[i])
      BY <3>1, <3>2
    <3>3. CASE EntersStack(cat[i])
      <4>1. cat[i].parent \in visited
        BY <3>1 DEF WalkInv, DirOK, list_dir
      <4>2. cat[i].is_dir /\ cat[i].cnid \notin visited
        BY <3>3 DEF EntersStack
      <4> DEFINE edge == <<cat[i].parent, cat[i].cnid>>
      <4>3. edge \in Edges /\ edge[1] \in visited /\ edge[2] \notin visited
            /\ visited' = visited \cup {edge[2]}
        BY <3>1, <3>3, <4>1, <4>2 DEF Edges
      <4>4. Search!Reach
        BY <3>1, <4>3 DEF Edges
      <4> QED BY <4>4
    <3> QED BY <3>2, <3>3
  <2>3. CASE Finish
    <3>1. /\ pc = "walk" /\ pc' = "done" /\ UNCHANGED <<cat, visited>>
          /\ todo = {} /\ stack = <<>>
      BY <2>3 DEF Finish
    <3>2. OnStack = {}
      BY <3>1 DEF OnStack
    <3>3. ASSUME NEW i \in DOMAIN cat, cat[i].is_dir, cat[i].parent \in visited
          PROVE  cat[i].cnid \in visited
      <4>1. PICK k \in DOMAIN out : out[k].at = i
        BY <3>1, <3>2, <3>3 DEF WalkInv, OutOK
      <4> QED BY <3>3, <4>1 DEF WalkInv, FoldersVisited
    <3>4. \A e \in Edges : e[1] \in visited => e[2] \in visited
      BY <3>3 DEF Edges
    <3>5. Search!Stop
      BY <3>1, <3>4 DEF Edges
    <3> QED BY <3>5
  <2> QED BY <2>1, <2>2, <2>3 DEF Next
<1> QED BY <1>1, <1>2, TypeCorrect, WalkInvariant, PTL DEF Spec, TraversesTheTree, Search!SearchSpec

------------------------------------------------------------------------------
\* A prefix kept for a folder is the path under which that folder was listed.
PrefixOf(c, prefix) ==
    \/ c = ROOT_FOLDER_CNID /\ prefix = EmptyPath
    \/ \E j \in DOMAIN out : out[j].is_dir /\ out[j].cnid = c /\ out[j].path = prefix

PrefixesOK ==
    /\ \A k \in DOMAIN stack : PrefixOf(stack[k].cnid, stack[k].prefix)
    /\ PrefixOf(dir.cnid, dir.prefix)

PathInv == PrefixesOK /\ PathsLeadToTheRoot

\* Paths are derived from the root, folder by folder.
THEOREM PathsFromTheRoot == Spec => []PathsLeadToTheRoot
<1>1. Init => PathInv
  <2> SUFFICES ASSUME Init PROVE PathInv
    OBVIOUS
  <2> DEFINE root == [cnid |-> ROOT_FOLDER_CNID, prefix |-> EmptyPath]
  <2>1. stack = <<root>> /\ dir = root /\ out = <<>>
    BY DEF Init
  <2>2. PrefixOf(root.cnid, root.prefix)
    BY DEF PrefixOf
  <2>3. PrefixesOK
    BY <2>1, <2>2 DEF PrefixesOK
  <2> QED BY <2>1, <2>3 DEF PathInv, PathsLeadToTheRoot
<1>2. TypeOK /\ WalkInv /\ PathInv /\ [Next]_vars => PathInv'
  <2> SUFFICES ASSUME TypeOK, WalkInv, PathInv, [Next]_vars PROVE PathInv'
    OBVIOUS
  <2>1. CASE Confirm \/ Finish \/ UNCHANGED vars
    <3>1. UNCHANGED <<cat, stack, dir, out>>
      BY <2>1 DEF Confirm, Finish, vars
    <3>2. \A c, q : PrefixOf(c, q)' <=> PrefixOf(c, q)
      BY <3>1 DEF PrefixOf
    <3>3. PrefixesOK'
      BY <3>1 DEF PathInv, PrefixesOK, PrefixOf
    <3>4. PathsLeadToTheRoot'
      BY <3>1 DEF PathInv, PathsLeadToTheRoot
    <3> QED BY <3>3, <3>4 DEF PathInv
  <2>2. CASE PopFolder
    <3> DEFINE n == Len(stack)
    <3>1. /\ n \in Nat \ {0} /\ DOMAIN stack = 1..n
          /\ stack' = SubSeq(stack, 1, n - 1) /\ dir' = stack[n]
          /\ cat' = cat /\ out' = out
      BY <2>2 DEF TypeOK, PopFolder
    <3>2. DOMAIN stack' = 1..(n - 1) /\ \A k \in 1..(n - 1) : stack'[k] = stack[k]
      BY <3>1 DEF TypeOK
    <3> HIDE DEF n
    <3>3. PrefixesOK'
      BY <3>1, <3>2 DEF PathInv, PrefixesOK, PrefixOf
    <3>4. PathsLeadToTheRoot'
      BY <3>1 DEF PathInv, PathsLeadToTheRoot
    <3> QED BY <3>3, <3>4 DEF PathInv
  <2>3. ASSUME NEW i \in DOMAIN cat, TakeEntry(i) PROVE PathInv'
    <3> DEFINE n == Len(out)
               e == cat[i]
               path == Join(dir.prefix, e.name)
    <3>1. /\ n \in Nat /\ DOMAIN out = 1..n /\ DOMAIN out' = 1..(n + 1)
          /\ \A k \in 1..n : out'[k] = out[k]
      BY <2>3, TakeOut
    <3>2. out'[n + 1] = [path |-> path, is_dir |-> e.is_dir, cnid |-> e.cnid, at |-> i]
      BY <2>3, TakeOut
    <3>3. /\ out'[n + 1].path = path /\ out'[n + 1].is_dir = e.is_dir
          /\ out'[n + 1].cnid = e.cnid /\ out'[n + 1].at = i
      BY <3>2
    <3>4. cat' = cat /\ dir' = dir /\ i \in todo
      BY <2>3 DEF TakeEntry
    <3>5. e.parent = dir.cnid
      BY <3>4 DEF WalkInv, DirOK, list_dir
    <3>6. stack' = stack \/ (e.is_dir /\ stack' = Append(stack, [cnid |-> e.cnid, prefix |-> path]))
      BY <2>3 DEF TakeEntry, EntersStack
    <3> HIDE DEF n, path
    <3>7. \A c, q : PrefixOf(c, q) => PrefixOf(c, q)'
      <4> SUFFICES ASSUME NEW c, NEW q, PrefixOf(c, q)
                   PROVE  \/ c = ROOT_FOLDER_CNID /\ q = EmptyPath
                          \/ \E j \in DOMAIN out' :
                                out'[j].is_dir /\ out'[j].cnid = c /\ out'[j].path = q
        BY DEF PrefixOf
      <4>1. CASE c = ROOT_FOLDER_CNID /\ q = EmptyPath
        BY <4>1
      <4>2. ASSUME NEW j \in DOMAIN out, out[j].is_dir, out[j].cnid = c, out[j].path = q
            PROVE  \E k \in DOMAIN out' : out'[k].is_dir /\ out'[k].cnid = c /\ out'[k].path = q
        <5>1. j \in DOMAIN out' /\ out'[j] = out[j]
          BY <3>1
        <5> QED BY <4>2, <5>1
      <4> QED BY <4>1, <4>2 DEF PrefixOf
    <3>8. PrefixOf(dir.cnid, dir.prefix)'
      BY <3>4, <3>7 DEF PathInv, PrefixesOK
    <3>10. PrefixesOK'
      <4>1. \A k \in DOMAIN stack' :
                \/ stack'[k].cnid = ROOT_FOLDER_CNID /\ stack'[k].prefix = EmptyPath
                \/ \E j \in DOMAIN out' : /\ out'[j].is_dir /\ out'[j].cnid = stack'[k].cnid
                                         /\ out'[j].path = stack'[k].prefix
        <5> SUFFICES ASSUME NEW k \in DOMAIN stack'
                     PROVE  \/ stack'[k].cnid = ROOT_FOLDER_CNID /\ stack'[k].prefix = EmptyPath
                            \/ \E j \in DOMAIN out' :
                                    /\ out'[j].is_dir /\ out'[j].cnid = stack'[k].cnid
                                    /\ out'[j].path = stack'[k].prefix
          OBVIOUS
        <5>1. CASE k \in DOMAIN stack /\ stack'[k] = stack[k]
          <6>1. PrefixOf(stack[k].cnid, stack[k].prefix)
            BY <5>1 DEF PathInv, PrefixesOK
          <6>2. CASE stack[k].cnid = ROOT_FOLDER_CNID /\ stack[k].prefix = EmptyPath
            BY <5>1, <6>2
          <6>3. ASSUME NEW j \in DOMAIN out, out[j].is_dir, out[j].cnid = stack[k].cnid,
                       out[j].path = stack[k].prefix
                PROVE  \E l \in DOMAIN out' : /\ out'[l].is_dir /\ out'[l].cnid = stack'[k].cnid
                                            /\ out'[l].path = stack'[k].prefix
            <7>1. j \in DOMAIN out' /\ out'[j] = out[j]
              BY <3>1
            <7> QED BY <5>1, <6>3, <7>1
          <6> QED BY <6>1, <6>2, <6>3 DEF PrefixOf
        <5>2. CASE e.is_dir /\ stack'[k] = [cnid |-> e.cnid, prefix |-> path]
          <6>1. n + 1 \in DOMAIN out'
            BY <3>1
          <6>2. stack'[k].cnid = e.cnid /\ stack'[k].prefix = path
            BY <5>2
          <6> QED BY <3>3, <5>2, <6>1, <6>2
        <5>3. (k \in DOMAIN stack /\ stack'[k] = stack[k])
              \/ (e.is_dir /\ stack'[k] = [cnid |-> e.cnid, prefix |-> path])
          BY <3>6 DEF TypeOK
        <5> QED BY <5>1, <5>2, <5>3
      <4> QED BY <3>8, <4>1 DEF PrefixesOK, PrefixOf
    <3>11. PathsLeadToTheRoot'
      <4> SUFFICES ASSUME NEW k \in 1..(n + 1)
                   PROVE  LET d == cat[out'[k].at] IN
                          \/ d.parent = ROOT_FOLDER_CNID /\ out'[k].path = <<d.name>>
                          \/ \E j \in 1..(k - 1) :
                                /\ out'[j].is_dir /\ out'[j].cnid = d.parent
                                /\ out'[k].path = Join(out'[j].path, d.name)
        BY <3>1, <3>4 DEF PathsLeadToTheRoot
      <4>1. CASE k \in 1..n
        <5>1. out'[k] = out[k] /\ \A j \in 1..(k - 1) : out'[j] = out[j]
          BY <3>1, <4>1
        <5> QED BY <3>1, <4>1, <5>1 DEF PathInv, PathsLeadToTheRoot
      <4>2. CASE k = n + 1
        <5>1. CASE dir.cnid = ROOT_FOLDER_CNID /\ dir.prefix = EmptyPath
          <6>1. path = <<e.name>>
            BY <5>1 DEF path, Join
          <6> QED BY <3>3, <3>5, <4>2, <5>1, <6>1
        <5>2. ASSUME NEW j \in DOMAIN out, out[j].is_dir, out[j].cnid = dir.cnid,
                     out[j].path = dir.prefix
              PROVE  \E l \in 1..(k - 1) :
                        /\ out'[l].is_dir /\ out'[l].cnid = e.parent
                        /\ out'[k].path = Join(out'[l].path, e.name)
          <6>1. j \in 1..(k - 1) /\ out'[j] = out[j]
            BY <3>1, <4>2
          <6>2. out'[k].path = Join(out[j].path, e.name)
            BY <3>3, <4>2, <5>2 DEF path
          <6> QED BY <3>5, <5>2, <6>1, <6>2
        <5> QED BY <3>3, <4>2, <5>1, <5>2 DEF PathInv, PrefixesOK, PrefixOf
      <4> QED BY <3>1, <4>1, <4>2
    <3> QED BY <3>10, <3>11 DEF PathInv
  <2> QED BY <2>1, <2>2, <2>3 DEF Next
<1>3. PathInv => PathsLeadToTheRoot
  BY DEF PathInv
<1> QED BY <1>1, <1>2, <1>3, TypeCorrect, WalkInvariant, PTL DEF Spec

------------------------------------------------------------------------------
\* The bound on the steps left exists and is positive while walk runs.
LEMMA FiniteFolders ==
    ASSUME TypeOK
    PROVE  /\ IsFiniteSet(FolderCNIDs \ visited)
           /\ \A p : IsFiniteSet(list_dir(p)) /\ Cardinality(list_dir(p)) <= Len(cat)
<1> DEFINE dirs == {j \in DOMAIN cat : cat[j].is_dir}
<1>1. Len(cat) \in Nat /\ DOMAIN cat = 1..Len(cat)
  BY DEF TypeOK
<1>2. IsFiniteSet(DOMAIN cat) /\ Cardinality(DOMAIN cat) = Len(cat)
  <2>1. Len(cat) \in Int /\ 1 \in Int
    BY <1>1
  <2>2. IsFiniteSet(1..Len(cat))
        /\ Cardinality(1..Len(cat)) = IF 1 > Len(cat) THEN 0 ELSE Len(cat) - 1 + 1
    BY <2>1, FS_Interval
  <2> DEFINE n == Len(cat)
  <2>3. (IF 1 > n THEN 0 ELSE n - 1 + 1) = n
    <3>1. n \in Nat
      BY <1>1
    <3> HIDE DEF n
    <3> QED BY <3>1
  <2> QED BY <1>1, <2>2, <2>3
<1>3. IsFiniteSet(dirs)
  BY <1>2, FS_Subset
<1>4. IsFiniteSet({cat[i].cnid : i \in dirs})
  <2> DEFINE image == {cat[i].cnid : i \in dirs}
             f == [i \in dirs |-> cat[i].cnid]
  <2> HIDE DEF dirs
  <2>1. f \in Surjection(dirs, image)
    BY DEF Surjection
  <2> QED BY <1>3, <2>1, FS_Surjection
<1>5. IsFiniteSet(FolderCNIDs \ visited)
  BY <1>4, FS_Subset DEF FolderCNIDs
<1>6. \A p : IsFiniteSet(list_dir(p)) /\ Cardinality(list_dir(p)) <= Len(cat)
  <2> TAKE p
  <2>1. list_dir(p) \subseteq DOMAIN cat
    BY DEF list_dir
  <2> QED BY <1>2, <2>1, FS_Subset
<1> QED BY <1>5, <1>6

\* walk ends on every catalog: every step makes the bound smaller, and it stays positive.
THEOREM WalkTerminates == Spec => WalkEnds
<1>1. TypeOK /\ TypeOK' /\ WalkInv /\ Next => 0 <= Measure' /\ Measure' < Measure
  <2> SUFFICES ASSUME TypeOK, TypeOK', WalkInv, Next
               PROVE  0 <= Measure' /\ Measure' < Measure
    OBVIOUS
  <2> DEFINE f == Cardinality(FolderCNIDs \ visited)
             s == Len(stack)
             n == Len(cat)
             t == Cardinality(todo)
  <2>1. f \in Nat /\ s \in Nat /\ n \in Nat /\ t \in Nat /\ IsFiniteSet(todo)
    <3>1. f \in Nat
      BY FiniteFolders, FS_CardinalityType
    <3>2. s \in Nat /\ n \in Nat
      BY DEF TypeOK
    <3>3. IsFiniteSet(list_dir(dir.cnid)) /\ todo \subseteq list_dir(dir.cnid)
      BY FiniteFolders DEF WalkInv, DirOK
    <3>4. IsFiniteSet(todo)
      BY <3>3, FS_Subset
    <3> QED BY <3>1, <3>2, <3>4, FS_CardinalityType
  <2>2. pc = "start" => Measure = (f + s) * (n + 1) + t + 2
    BY DEF Measure
  <2>3. pc = "walk" => Measure = (f + s) * (n + 1) + t + 1
    BY DEF Measure
  <2>4. (f + s) * (n + 1) \in Nat
    BY <2>1
  <2>5. CASE Confirm
    <3>1. /\ pc = "start" /\ pc' \in {"walk", "none"}
          /\ UNCHANGED <<cat, stack, todo, visited>>
      BY <2>5 DEF Confirm
    <3>2. FolderCNIDs' = FolderCNIDs
      BY <3>1 DEF FolderCNIDs
    <3>3. Measure' = IF pc' = "walk" THEN (f + s) * (n + 1) + t + 1 ELSE 0
      BY <3>1, <3>2 DEF Measure
    <3> HIDE DEF f, s, n, t
    <3> QED BY <2>1, <2>2, <2>4, <3>1, <3>3
  <2>6. CASE PopFolder
    <3>1. /\ pc = "walk" /\ pc' = "walk" /\ todo = {} /\ stack # <<>>
          /\ stack' = SubSeq(stack, 1, Len(stack) - 1)
          /\ todo' = list_dir(dir'.cnid) /\ cat' = cat /\ visited' = visited
      BY <2>6 DEF PopFolder
    <3>2. FolderCNIDs' = FolderCNIDs
      BY <3>1 DEF FolderCNIDs
    <3>3. s > 0 /\ Len(stack') = s - 1
      <4>1. stack \in Seq(Folder)
        BY DEF TypeOK
      <4>2. Len(stack) > 0 /\ Len(stack) \in Nat
        BY <3>1, <4>1
      <4>3. Len(SubSeq(stack, 1, Len(stack) - 1)) = Len(stack) - 1
        <5>1. 1 \in Int /\ Len(stack) - 1 \in Int
          BY <4>2
        <5>2. \A k \in 1..(Len(stack) - 1) : stack[k] \in Folder
          BY <4>1
        <5>3. Len(SubSeq(stack, 1, Len(stack) - 1))
                = IF 1 <= Len(stack) - 1 THEN Len(stack) - 1 - 1 + 1 ELSE 0
          BY <5>1, <5>2, SubSeqProperties
        <5>4. \A m \in Nat : m > 0 => (IF 1 <= m - 1 THEN m - 1 - 1 + 1 ELSE 0) = m - 1
          OBVIOUS
        <5> QED BY <4>2, <5>3, <5>4, Zenon
      <4> QED BY <3>1, <4>2, <4>3
    <3>4. IsFiniteSet(todo') /\ Cardinality(todo') <= n
      BY <3>1, FiniteFolders
    <3>5. Cardinality(todo') \in Nat
      BY <3>4, FS_CardinalityType
    <3>6. t = 0
      BY <3>1, FS_EmptySet
    <3>7. Measure' = (f + (s - 1)) * (n + 1) + Cardinality(todo') + 1
      BY <3>1, <3>2, <3>3 DEF Measure
    <3> DEFINE u == Cardinality(todo')
    <3>8. u \in Nat /\ u <= n /\ Measure' = (f + (s - 1)) * (n + 1) + u + 1
      BY <3>4, <3>5, <3>7
    <3>9. Measure = (f + s) * (n + 1) + 1
      BY <2>1, <2>3, <3>1, <3>6
    <3> HIDE DEF f, s, n, t, u
    <3>10. f + (s - 1) \in Nat /\ (f + s) * (n + 1) = (f + (s - 1)) * (n + 1) + (n + 1)
      BY <2>1, <3>3
    <3>11. (f + (s - 1)) * (n + 1) \in Nat
      BY <2>1, <3>10
    <3> QED BY <2>1, <3>8, <3>9, <3>10, <3>11
  <2>7. ASSUME NEW i \in DOMAIN cat, TakeEntry(i) PROVE 0 <= Measure' /\ Measure' < Measure
    <3>1. /\ pc = "walk" /\ pc' = "walk" /\ i \in todo /\ todo' = todo \ {i} /\ cat' = cat
      BY <2>7 DEF TakeEntry
    <3>2. Cardinality(todo') = t - 1 /\ Cardinality(todo') \in Nat
      BY <2>1, <3>1, FS_RemoveElement, FS_CardinalityType
    <3>3. FolderCNIDs' = FolderCNIDs
      BY <3>1 DEF FolderCNIDs
    <3>4. Cardinality(FolderCNIDs' \ visited') + Len(stack') = f + s
      <4>1. CASE ~EntersStack(cat[i])
        <5>1. visited' = visited /\ stack' = stack
          BY <2>7, <4>1 DEF TakeEntry
        <5> QED BY <3>3, <5>1
      <4>2. CASE EntersStack(cat[i])
        <5> DEFINE c == cat[i].cnid
                   rest == FolderCNIDs \ visited
        <5>1. /\ visited' = visited \cup {c}
              /\ stack' = Append(stack, [cnid |-> c, prefix |-> Join(dir.prefix, cat[i].name)])
          BY <2>7, <4>2 DEF TakeEntry
        <5>2. Len(stack') = s + 1
          BY <5>1 DEF TypeOK
        <5>3. c \in rest
          BY <4>2 DEF EntersStack, FolderCNIDs
        <5>4. FolderCNIDs' \ visited' = rest \ {c}
          BY <3>3, <5>1
        <5>5. IsFiniteSet(rest)
          BY FiniteFolders
        <5>6. Cardinality(rest \ {c}) = Cardinality(rest) - 1
          BY <5>3, <5>5, FS_RemoveElement
        <5>7. Cardinality(FolderCNIDs' \ visited') = f - 1
          BY <5>4, <5>6
        <5> HIDE DEF f, s
        <5> QED BY <2>1, <5>2, <5>7
      <4> QED BY <4>1, <4>2
    <3>5. Measure' = (Cardinality(FolderCNIDs' \ visited') + Len(stack')) * (Len(cat') + 1)
                        + Cardinality(todo') + 1
      BY <3>1 DEF Measure
    <3>6. Measure' = (f + s) * (n + 1) + (t - 1) + 1 /\ t - 1 \in Nat
      BY <3>1, <3>2, <3>4, <3>5
    <3>7. Measure = (f + s) * (n + 1) + t + 1
      BY <2>3, <3>1
    <3> HIDE DEF f, s, n, t
    <3> QED BY <2>1, <2>4, <3>6, <3>7
  <2>8. CASE Finish
    <3>1. pc = "walk" /\ pc' = "done"
      BY <2>8 DEF Finish
    <3>2. Measure' = 0
      BY <3>1 DEF Measure
    <3> HIDE DEF f, s, n, t
    <3> QED BY <2>1, <2>3, <2>4, <3>1, <3>2
  <2> QED BY <2>5, <2>6, <2>7, <2>8 DEF Next
<1> QED BY <1>1, TypeCorrect, WalkInvariant, PTL DEF Spec, WalkEnds
==============================================================================
