--------------------------- MODULE BTreeAudit_proofs ---------------------------
(***************************************************************************)
(* Proofs about BTreeAudit, for every set of volumes, cap and word width:  *)
(* of the catalog and of the extents tree, which audit() validates, the    *)
(* nodes the reader uses are nodes the analyzer checked, and a loop is     *)
(* reported exactly when the reader replays it.  Of the attributes tree,   *)
(* which it does not validate, only what holds of every walk is proved.    *)
(*                                                                         *)
(* The argument compares two sequences: `order`, the chain nodes that      *)
(* audit_btree_nodes checked, and `path`, the nodes for_each_record        *)
(* entered.  Both follow fLink from the first leaf, so they agree as far   *)
(* as both go; `order` stops at the first node seen before, `path` does    *)
(* not.                                                                    *)
(***************************************************************************)
EXTENDS BTreeAudit, LeafWalk_proofs

\* The analyzer's node bounds are the reader's, although it computes them its own way.
LEMMA SameBounds ==
    ASSUME TypeOK, pc \notin {"locate", "none"}, NEW n \in U32
    PROVE  NodeSliced(n) <=> NodeReadable(vol.len, loc, n)
<1>1. IsVolume(vol) /\ fork \in Forks /\ loc = LocOf(vol, fork) /\ Locatable(vol, fork)
  BY DEF TypeOK
<1>2. /\ loc.node_size \in Nat /\ loc.node_size >= 14 /\ loc.cat_base \in Nat /\ n \in Nat
      /\ vol.len \in Nat /\ vol.len <= UsizeMax
  BY <1>1, LocProperties, WidthsAssumption DEF U16, U32, IsVolume
<1>3. /\ NodeEnd(loc, n) \in Nat /\ NodeOff(loc, n) \in Nat
      /\ NodeEnd(loc, n) = NodeOff(loc, n) + loc.node_size
  BY <1>2, NodeArithmetic
<1> QED BY <1>2, <1>3, Numbers DEF NodeSliced, NodeReadable, DescriptorLen

------------------------------------------------------------------------------
\* What audit_btree_nodes has established so far.

OrderShape ==
    /\ apc = "header" =>
         order = <<>> /\ seen = {} /\ awalked = 0 /\ ~LoopReported
    /\ apc # "header" =>
         anode = IF order = <<>> THEN Tree.firstLeaf
                                 ELSE NodeAt(Tree, order[Len(order)]).fLink
    /\ order # <<>> => order[1] = Tree.firstLeaf
    /\ \A i \in 1..Len(order)-1 : order[i + 1] = NodeAt(Tree, order[i]).fLink

OrderDistinct ==
    /\ \A i, j \in 1..Len(order) : order[i] = order[j] => i = j
    /\ \A i \in 1..Len(order) : order[i] \in seen
    /\ apc = "chain" => /\ \A n \in seen : \E i \in 1..Len(order) : n = order[i]
                        /\ awalked = Len(order)
                        /\ ~LoopReported
    /\ Len(order) <= MAX_LEAF_NODES

OrderChecked ==
    \A i \in 1..Len(order) :
        /\ NodeReadable(vol.len, loc, order[i])
        /\ Findings(order[i]) \subseteq found

\* Why the validation stopped: the chain closes on a checked node, below the cap; or the
\* next node is none, is outside the buffer, or is beyond the cap.
AuditReason ==
    apc = "over" =>
        \/ /\ LoopReported
           /\ Len(order) < MAX_LEAF_NODES
           /\ \E m \in 1..Len(order) : anode = order[m]
        \/ /\ ~LoopReported
           /\ \/ anode = 0
              \/ ~NodeReadable(vol.len, loc, anode)
              \/ Len(order) = MAX_LEAF_NODES

AuditInv == OrderShape /\ OrderDistinct /\ OrderChecked /\ AuditReason

LEMMA InitAuditInv == AuditInit => AuditTypeOK /\ (fork \in Audited => AuditInv)
<1> SUFFICES ASSUME AuditInit PROVE AuditTypeOK /\ (fork \in Audited => AuditInv)
  OBVIOUS
<1>1. TypeOK /\ pc = "locate"
  BY InitTypeOK DEF AuditInit, StreamedInit, Init
<1>2. AuditTypeOK
  BY <1>1, Numbers DEF AuditInit, AuditTypeOK
<1>3. fork \in Audited => AuditInv
  BY Numbers DEF AuditInit, AuditInv, OrderShape, OrderDistinct, OrderChecked,
                 AuditReason, LoopReported
<1> QED BY <1>2, <1>3

\* check_node's findings are none of a loop.
LEMMA FindingsType ==
    ASSUME NEW n \in U32
    PROVE  /\ Findings(n) \subseteq [node : U32, what : Whats]
           /\ \A x \in Findings(n) : x.what # "loop"
<1>1. \A w \in Inconsistencies(n) : w \in Whats /\ w # "loop"
  BY DEF Inconsistencies, Whats
<1>2. ASSUME NEW x \in Findings(n)
      PROVE  x \in [node : U32, what : Whats] /\ x.what # "loop"
  <2>1. PICK w \in Inconsistencies(n) : x = [node |-> n, what |-> w]
    BY DEF Findings
  <2> QED BY <1>1, <2>1
<1> QED BY <1>2

LEMMA StepAuditTypeOK == AuditTypeOK /\ [AuditNext]_allVars => AuditTypeOK'
<1> SUFFICES ASSUME AuditTypeOK, [AuditNext]_allVars PROVE AuditTypeOK'
  OBVIOUS
<1> USE Numbers
<1>1. TypeOK'
  <2>1. [Next]_vars
    BY DEF AuditNext, allVars, Next
  <2> QED BY <2>1, StepTypeOK DEF AuditTypeOK
<1>2. CASE Locate /\ UNCHANGED auditVars
  <2>1. pc = "locate" /\ pc' \in {"walk", "none"} /\ fork' = fork
    BY <1>2 DEF Locate, input
  <2> QED BY <1>1, <1>2, <2>1 DEF auditVars, AuditTypeOK
<1>3. CASE apc = "over" /\ WalkStep /\ UNCHANGED auditVars
  <2>1. pc' \in {"walk", "records", "done"}
    BY <1>3 DEF WalkStep, StopWalk, LeaveBuffer, EnterNode, Record, NextNode
  <2> QED BY <1>1, <1>3, <2>1 DEF auditVars, AuditTypeOK
<1>4. CASE pc = "walk" /\ AuditStep /\ UNCHANGED vars
  <2>0. pc' = pc /\ vol' = vol /\ fork' = fork /\ loc' = loc
    BY <1>4 DEF vars
  <2>1. CASE CheckHeaderNode
    <3>1. anode' \in U32
      <4>1. IsVolume(vol) /\ fork \in Forks /\ Locatable(vol, fork) /\ loc = LocOf(vol, fork)
        BY <1>4 DEF AuditTypeOK, TypeOK
      <4> QED BY <2>1, <4>1, LocProperties DEF CheckHeaderNode
    <3>2. found' \subseteq [node : U32, what : Whats]
      BY <2>1, FindingsType DEF CheckHeaderNode, AuditTypeOK
    <3> QED BY <1>1, <1>4, <2>0, <2>1, <3>1, <3>2 DEF CheckHeaderNode, AuditTypeOK
  <2>2. CASE AuditEnds
    BY <1>1, <1>4, <2>0, <2>2 DEF AuditEnds, AuditTypeOK
  <2>3. CASE ReportLoop
    <3>1. awalked' \in 0..MAX_LEAF_NODES
      BY <2>3 DEF ReportLoop, AuditTypeOK, AuditOn
    <3>2. found' \subseteq [node : U32, what : Whats]
      <4>1. [node |-> anode, what |-> "loop"] \in [node : U32, what : Whats]
        BY DEF AuditTypeOK, Whats
      <4> QED BY <2>3, <4>1 DEF ReportLoop, AuditTypeOK
    <3> QED BY <1>1, <1>4, <2>0, <2>3, <3>1, <3>2 DEF ReportLoop, AuditTypeOK
  <2>4. CASE LeaveTree
    <3>1. awalked' \in 0..MAX_LEAF_NODES /\ seen' \subseteq U32 \ {0}
      BY <2>4 DEF LeaveTree, AuditTypeOK, AuditOn
    <3> QED BY <1>1, <1>4, <2>0, <2>4, <3>1 DEF LeaveTree, AuditTypeOK
  <2>5. CASE CheckNode
    <3>1. awalked' \in 0..MAX_LEAF_NODES /\ seen' \subseteq U32 \ {0} /\ anode \in U32 \ {0}
      BY <2>5 DEF CheckNode, AuditTypeOK, AuditOn
    <3>2. found' \subseteq [node : U32, what : Whats]
      BY <2>5, <3>1, FindingsType DEF CheckNode, AuditTypeOK
    <3>3. anode' \in U32
      <4>1. IsVolume(vol) /\ fork \in Forks
        BY DEF AuditTypeOK, TypeOK
      <4> QED BY <2>5, <4>1, NodeAtType DEF CheckNode, Tree
    <3>4. order' \in Seq(U32 \ {0})
      BY <2>5, <3>1 DEF CheckNode, AuditTypeOK
    <3> QED BY <1>1, <1>4, <2>0, <2>5, <3>1, <3>2, <3>3, <3>4 DEF CheckNode, AuditTypeOK
  <2> QED BY <1>4, <2>1, <2>2, <2>3, <2>4, <2>5 DEF AuditStep
<1>5. CASE UNCHANGED allVars
  BY <1>1, <1>5 DEF allVars, vars, auditVars, AuditTypeOK
<1> QED BY <1>2, <1>3, <1>4, <1>5 DEF AuditNext

\* Types of the analyzer's variables, and the two loops in the order audit() runs them.
THEOREM AuditTypeCorrect == AuditSpec => []AuditTypeOK
<1>1. AuditInit => AuditTypeOK
  BY InitAuditInv
<1> QED BY <1>1, StepAuditTypeOK, PTL DEF AuditSpec

------------------------------------------------------------------------------
\* The invariant is about the volume, the geometry and the analyzer's variables only.
LEMMA AuditInvFrame ==
    ASSUME AuditInv, vol' = vol, fork' = fork, loc' = loc, UNCHANGED auditVars
    PROVE  AuditInv'
<1>1. /\ Tree' = Tree /\ vol' = vol /\ loc' = loc /\ apc' = apc /\ anode' = anode
      /\ awalked' = awalked /\ seen' = seen /\ order' = order /\ found' = found
  BY DEF auditVars, Tree
<1>2. LoopReported' <=> LoopReported
  BY <1>1 DEF LoopReported
<1>3. \A n : Findings(n)' = Findings(n)
  BY <1>1 DEF Findings, Inconsistencies
<1>4. OrderShape'
  BY <1>1, <1>2 DEF AuditInv, OrderShape
<1>5. OrderDistinct'
  BY <1>1, <1>2 DEF AuditInv, OrderDistinct
<1>6. OrderChecked'
  <2> SUFFICES ASSUME NEW i \in 1..Len(order)
               PROVE  /\ NodeReadable(vol.len, loc, order[i])
                      /\ Findings(order[i]) \subseteq found
    BY <1>1, <1>3 DEF OrderChecked
  <2> QED BY DEF AuditInv, OrderChecked
<1>7. AuditReason'
  BY <1>1, <1>2 DEF AuditInv, AuditReason
<1> QED BY <1>4, <1>5, <1>6, <1>7 DEF AuditInv

LEMMA StepAuditInv ==
    ASSUME AuditTypeOK, fork \in Audited, AuditInv, [AuditNext]_allVars
    PROVE  AuditInv'
<1> USE Numbers
<1>0. order \in Seq(U32 \ {0}) /\ Len(order) \in Nat /\ TypeOK
  BY DEF AuditTypeOK
<1>1. CASE Locate /\ UNCHANGED auditVars
  <2>1. apc = "header" /\ apc' = apc /\ order' = order /\ seen' = seen
        /\ awalked' = awalked /\ found' = found
    BY <1>1 DEF Locate, AuditTypeOK, auditVars
  <2>2. order = <<>> /\ Len(order) = 0
    BY <2>1 DEF AuditInv, OrderShape
  <2> QED BY <2>1, <2>2 DEF AuditInv, OrderShape, OrderDistinct, OrderChecked, AuditReason,
                            LoopReported
<1>2. CASE apc = "over" /\ WalkStep /\ UNCHANGED auditVars
  <2>1. vol' = vol /\ fork' = fork /\ loc' = loc
    BY <1>2 DEF WalkStep, StopWalk, LeaveBuffer, EnterNode, Record, NextNode, input
  <2>2. UNCHANGED auditVars
    BY <1>2
  <2> QED BY <2>1, <2>2, AuditInvFrame
<1>3. CASE pc = "walk" /\ AuditStep /\ UNCHANGED vars
  <2>0. /\ pc' = pc /\ vol' = vol /\ fork' = fork /\ loc' = loc /\ Tree' = Tree
        /\ pc \notin {"locate", "none"} /\ loc.first_leaf = Tree.firstLeaf
        /\ \A n : Findings(n)' = Findings(n)
    BY <1>0, <1>3 DEF vars, TypeOK, Tree, LocOf, Findings, Inconsistencies
  <2>1. CASE CheckHeaderNode
    <3>1. /\ apc = "header" /\ apc' = "chain" /\ anode' = Tree.firstLeaf
          /\ order' = <<>> /\ seen' = {} /\ awalked' = 0 /\ Len(order') = 0
      BY <2>0, <2>1 DEF CheckHeaderNode, AuditInv, OrderShape
    <3>2. ~LoopReported'
      <4>1. ~LoopReported
        BY <3>1 DEF AuditInv, OrderShape
      <4>2. found' = found \/ found' = found \cup Findings(0)
        BY <2>1 DEF CheckHeaderNode
      <4>3. \A x \in Findings(0) : x.what # "loop"
        BY FindingsType
      <4> QED BY <4>1, <4>2, <4>3 DEF LoopReported
    <3> QED BY <2>0, <3>1, <3>2 DEF AuditInv, OrderShape, OrderDistinct, OrderChecked, AuditReason
  <2>2. CASE AuditEnds
    <3>1. /\ apc = "chain" /\ apc' = "over" /\ anode' = anode /\ order' = order
          /\ seen' = seen /\ found' = found /\ awalked = Len(order)
          /\ (anode = 0 \/ Len(order) = MAX_LEAF_NODES)
      BY <1>0, <2>2 DEF AuditEnds, AuditOn, AuditInv, OrderDistinct, AuditTypeOK
    <3> QED BY <2>0, <3>1 DEF AuditInv, OrderShape, OrderDistinct, OrderChecked,
                              AuditReason, LoopReported
  <2>3. CASE ReportLoop
    <3>1. /\ apc = "chain" /\ apc' = "over" /\ anode' = anode /\ order' = order
          /\ seen' = seen /\ found' = found \cup {[node |-> anode, what |-> "loop"]}
          /\ awalked = Len(order) /\ Len(order) < MAX_LEAF_NODES /\ anode \in seen
      BY <1>0, <2>3 DEF ReportLoop, AuditOn, AuditInv, OrderDistinct, AuditTypeOK
    <3>2. \E m \in 1..Len(order) : anode = order[m]
      BY <3>1 DEF AuditInv, OrderDistinct
    <3>3. LoopReported'
      <4>1. [node |-> anode, what |-> "loop"] \in found'
        BY <3>1
      <4>2. [node |-> anode, what |-> "loop"].what = "loop"
        OBVIOUS
      <4> QED BY <4>1, <4>2 DEF LoopReported
    <3>4. OrderShape' /\ OrderDistinct'
      BY <2>0, <3>1 DEF AuditInv, OrderShape, OrderDistinct
    <3>5. OrderChecked' /\ AuditReason'
      BY <2>0, <3>1, <3>2, <3>3 DEF AuditInv, OrderChecked, AuditReason
    <3> QED BY <3>4, <3>5 DEF AuditInv
  <2>4. CASE LeaveTree
    <3>1. /\ apc = "chain" /\ apc' = "over" /\ anode' = anode /\ order' = order
          /\ seen' = seen \cup {anode} /\ found' = found /\ ~NodeSliced(anode)
      BY <2>4 DEF LeaveTree
    <3>2. ~NodeReadable(vol.len, loc, anode)
      BY <1>0, <2>0, <3>1, SameBounds DEF AuditTypeOK
    <3>3. ~LoopReported /\ (LoopReported' <=> LoopReported)
      BY <3>1 DEF AuditInv, OrderDistinct, LoopReported
    <3> QED BY <2>0, <3>1, <3>2, <3>3 DEF AuditInv, OrderShape, OrderDistinct, OrderChecked,
                                          AuditReason
  <2>5. CASE CheckNode
    <3>1. /\ apc = "chain" /\ apc' = "chain" /\ order' = Append(order, anode)
          /\ anode' = NodeAt(Tree, anode).fLink /\ seen' = seen \cup {anode}
          /\ found' = found \cup Findings(anode) /\ awalked' = awalked + 1
          /\ anode \notin seen /\ NodeSliced(anode)
          /\ awalked = Len(order) /\ awalked < MAX_LEAF_NODES /\ anode \in U32 \ {0}
      BY <2>5 DEF CheckNode, AuditOn, AuditInv, OrderDistinct, AuditTypeOK
    <3>2. /\ Len(order') = Len(order) + 1 /\ order'[Len(order) + 1] = anode
          /\ \A i \in 1..Len(order) : order'[i] = order[i]
          /\ order' # <<>>
      BY <1>0, <3>1
    <3>3. OrderShape'
      <4>1. order'[1] = Tree.firstLeaf
        <5>1. CASE order = <<>>
          BY <3>1, <3>2, <5>1 DEF AuditInv, OrderShape
        <5>2. CASE order # <<>>
          BY <1>0, <3>2, <5>2 DEF AuditInv, OrderShape
        <5> QED BY <5>1, <5>2
      <4>2. \A i \in 1..Len(order')-1 : order'[i + 1] = NodeAt(Tree, order'[i]).fLink
        <5> TAKE i \in 1..Len(order')-1
        <5>1. CASE i < Len(order)
          BY <1>0, <3>2, <5>1 DEF AuditInv, OrderShape
        <5>2. CASE i = Len(order)
          <6>1. order # <<>> /\ anode = NodeAt(Tree, order[Len(order)]).fLink
            BY <1>0, <3>1, <3>2, <5>2 DEF AuditInv, OrderShape
          <6> QED BY <1>0, <3>2, <5>2, <6>1
        <5> QED BY <1>0, <3>2, <5>1, <5>2
      <4>3. anode' = NodeAt(Tree, order'[Len(order')]).fLink
        BY <3>1, <3>2
      <4> QED BY <2>0, <3>1, <3>2, <4>1, <4>2, <4>3 DEF OrderShape
    <3>4. ~LoopReported'
      <4>1. ~LoopReported /\ \A x \in Findings(anode) : x.what # "loop"
        BY <3>1, FindingsType DEF AuditInv, OrderDistinct
      <4> QED BY <3>1, <4>1 DEF LoopReported
    <3>5. OrderDistinct'
      <4>1. \A i, j \in 1..Len(order') : order'[i] = order'[j] => i = j
        <5>1. \A i \in 1..Len(order) : order'[i] # anode
          BY <3>1, <3>2 DEF AuditInv, OrderDistinct
        <5> QED BY <1>0, <3>2, <5>1 DEF AuditInv, OrderDistinct
      <4>2. \A i \in 1..Len(order') : order'[i] \in seen'
        BY <1>0, <3>1, <3>2 DEF AuditInv, OrderDistinct
      <4>3. \A n \in seen' : \E i \in 1..Len(order') : n = order'[i]
        <5> TAKE n \in seen'
        <5>1. CASE n = anode
          <6>1. Len(order) + 1 \in 1..Len(order')
            BY <1>0, <3>2
          <6> QED BY <3>2, <5>1, <6>1
        <5>2. CASE n \in seen
          <6>1. PICK i \in 1..Len(order) : n = order[i]
            BY <3>1, <5>2 DEF AuditInv, OrderDistinct
          <6>2. i \in 1..Len(order') /\ order'[i] = order[i]
            BY <1>0, <3>2
          <6> QED BY <6>1, <6>2
        <5> QED BY <3>1, <5>1, <5>2
      <4>4. awalked' = Len(order') /\ Len(order') <= MAX_LEAF_NODES
        BY <1>0, <3>1, <3>2
      <4> QED BY <3>4, <4>1, <4>2, <4>3, <4>4 DEF OrderDistinct
    <3>6. OrderChecked'
      <4>1. NodeReadable(vol.len, loc, anode)
        BY <1>0, <2>0, <3>1, SameBounds
      <4> SUFFICES ASSUME NEW i \in 1..Len(order')
                   PROVE  /\ NodeReadable(vol.len, loc, order'[i])
                          /\ Findings(order'[i]) \subseteq found'
        BY <2>0 DEF OrderChecked, Findings, Inconsistencies
      <4>2. CASE i = Len(order) + 1
        BY <3>1, <3>2, <4>1, <4>2
      <4>3. CASE i \in 1..Len(order)
        BY <3>1, <3>2, <4>3 DEF AuditInv, OrderChecked
      <4> QED BY <1>0, <3>2, <4>2, <4>3
    <3>7. AuditReason'
      BY <3>1 DEF AuditReason
    <3> QED BY <3>3, <3>5, <3>6, <3>7 DEF AuditInv
  <2> QED BY <1>3, <2>1, <2>2, <2>3, <2>4, <2>5 DEF AuditStep
<1>4. CASE UNCHANGED allVars
  <2>1. vol' = vol /\ fork' = fork /\ loc' = loc /\ UNCHANGED auditVars
    BY <1>4 DEF allVars, vars
  <2> QED BY <2>1, AuditInvFrame
<1> QED BY <1>1, <1>2, <1>3, <1>4 DEF AuditNext

------------------------------------------------------------------------------
\* The reader follows the nodes the analyzer checked: node for node as far as these go,
\* then into the node where the validation stopped, and only if that closes a loop.
ReaderAlong ==
    /\ apc # "over" => path = <<>> /\ pc # "done"
    /\ \A i \in 1..Len(path) :
          /\ i <= Len(order) => path[i] = order[i]
          /\ i = Len(order) + 1 => path[i] = anode
          /\ \E m \in 1..Len(order) : path[i] = order[m]
    /\ (apc = "over" /\ ~LoopReported) => Len(path) <= Len(order)
    /\ (pc = "done" /\ LoopReported) => Len(path) = MAX_LEAF_NODES

Inv == AuditTypeOK /\ PathInv /\ (fork \in Audited => AuditInv /\ ReaderAlong)

\* The node the reader is about to enter is the one `order` continues with, if `order` is
\* that long, and else the node where the validation stopped, or again a checked one.
LEMMA ReaderNext ==
    ASSUME Inv, fork \in Audited, apc = "over", pc = "walk"
    PROVE  /\ Len(path) < Len(order) => node = order[Len(path) + 1]
           /\ Len(path) = Len(order) => node = anode
           /\ LoopReported => \E m \in 1..Len(order) : node = order[m]
<1>0. /\ order \in Seq(U32 \ {0}) /\ Len(order) \in Nat
      /\ path \in Seq(U32 \ {0}) /\ Len(path) \in Nat
  BY DEF Inv, AuditTypeOK, TypeOK
<1>1. CASE path = <<>>
  <2>1. node = Tree.firstLeaf /\ Len(path) = 0
    BY <1>1 DEF Inv, PathInv, FollowsLinks
  <2>2. CASE order = <<>>
    <3>1. anode = node /\ Len(order) = 0
      BY <2>1, <2>2 DEF Inv, AuditInv, OrderShape
    <3>2. ~LoopReported
      BY <3>1 DEF Inv, AuditInv, AuditReason
    <3> QED BY <2>1, <3>1, <3>2
  <2>3. CASE order # <<>>
    <3>1. node = order[1] /\ Len(order) >= 1
      BY <1>0, <2>1, <2>3 DEF Inv, AuditInv, OrderShape
    <3> QED BY <1>0, <2>1, <3>1
  <2> QED BY <2>2, <2>3
<1>2. CASE path # <<>>
  <2>1. Len(path) >= 1 /\ node = NodeAt(Tree, path[Len(path)]).fLink
    BY <1>0, <1>2 DEF Inv, PathInv, FollowsLinks
  <2>2. PICK m \in 1..Len(order) : path[Len(path)] = order[m]
    BY <1>0, <2>1 DEF Inv, ReaderAlong
  <2>3. ASSUME NEW k \in 1..Len(order), path[Len(path)] = order[k]
        PROVE  node = IF k < Len(order) THEN order[k + 1] ELSE anode
    <3>1. CASE k < Len(order)
      BY <1>0, <2>1, <2>3, <3>1 DEF Inv, AuditInv, OrderShape
    <3>2. CASE k = Len(order)
      BY <1>0, <2>1, <2>3, <3>2 DEF Inv, AuditInv, OrderShape
    <3> QED BY <1>0, <3>1, <3>2
  <2>4. ASSUME Len(path) <= Len(order)
        PROVE  node = IF Len(path) < Len(order) THEN order[Len(path) + 1] ELSE anode
    <3>1. Len(path) \in 1..Len(order) /\ path[Len(path)] = order[Len(path)]
      BY <1>0, <2>1, <2>4 DEF Inv, ReaderAlong
    <3> QED BY <2>3, <3>1
  <2>5. ASSUME LoopReported
        PROVE  \E j \in 1..Len(order) : node = order[j]
    <3>1. \E j \in 1..Len(order) : anode = order[j]
      BY <2>5 DEF Inv, AuditInv, AuditReason
    <3>2. CASE m < Len(order)
      BY <1>0, <2>2, <2>3, <3>2
    <3>3. CASE m = Len(order)
      BY <1>0, <2>2, <2>3, <3>1, <3>3
    <3> QED BY <1>0, <2>2, <3>2, <3>3
  <2> QED BY <1>0, <2>4, <2>5
<1> QED BY <1>1, <1>2

LEMMA StepReaderAlong ==
    ASSUME Inv, fork \in Audited, [AuditNext]_allVars
    PROVE  ReaderAlong'
<1> USE Numbers
<1>0. /\ order \in Seq(U32 \ {0}) /\ Len(order) \in Nat
      /\ path \in Seq(U32 \ {0}) /\ Len(path) \in Nat /\ TypeOK
  BY DEF Inv, AuditTypeOK, TypeOK
<1>1. CASE Locate /\ UNCHANGED auditVars
  <2>1. apc = "header" /\ apc' = apc /\ path' = path /\ order' = order /\ pc' # "done"
    BY <1>1 DEF Locate, Inv, AuditTypeOK, auditVars
  <2>2. path = <<>>
    BY <2>1 DEF Inv, ReaderAlong
  <2> QED BY <2>1, <2>2 DEF ReaderAlong
<1>2. CASE pc = "walk" /\ AuditStep /\ UNCHANGED vars
  <2>1. pc' = "walk" /\ path' = path /\ apc # "over"
    BY <1>2 DEF vars, AuditStep, CheckHeaderNode, AuditEnds, ReportLoop, LeaveTree, CheckNode
  <2>2. path = <<>> /\ Len(path) = 0
    BY <2>1 DEF Inv, ReaderAlong
  <2>3. Len(order') \in Nat
    BY <1>0, <1>2 DEF AuditStep, CheckHeaderNode, AuditEnds, ReportLoop, LeaveTree, CheckNode
  <2> QED BY <2>1, <2>2, <2>3 DEF ReaderAlong
<1>3. CASE apc = "over" /\ WalkStep /\ UNCHANGED auditVars
  <2>0. /\ apc' = "over" /\ order' = order /\ anode' = anode
        /\ (LoopReported' <=> LoopReported)
    BY <1>3 DEF auditVars, LoopReported
  <2>1. CASE StopWalk \/ LeaveBuffer
    <3>1. /\ pc = "walk" /\ pc' = "done" /\ path' = path
          /\ \/ node = 0
             \/ walked = MAX_LEAF_NODES
             \/ ~NodeReadable(vol.len, loc, node)
      BY <1>0, <2>1 DEF StopWalk, LeaveBuffer, WalkOn, TypeOK
    <3>2. ASSUME LoopReported PROVE Len(path) = MAX_LEAF_NODES
      <4>1. PICK m \in 1..Len(order) : node = order[m]
        BY <1>3, <3>1, <3>2, ReaderNext
      <4>2. node # 0 /\ NodeReadable(vol.len, loc, node)
        BY <1>0, <4>1 DEF Inv, AuditInv, OrderChecked
      <4>3. Len(path) = walked
        BY <1>0, <3>1 DEF TypeOK
      <4> QED BY <3>1, <4>2, <4>3
    <3> QED BY <1>3, <2>0, <3>1, <3>2 DEF Inv, ReaderAlong
  <2>2. CASE EnterNode
    <3>1. /\ pc = "walk" /\ pc' = "records" /\ path' = Append(path, node)
          /\ NodeReadable(vol.len, loc, node) /\ node # 0
          /\ walked = Len(path) /\ walked < MAX_LEAF_NODES
      BY <1>0, <2>2 DEF EnterNode, WalkOn, TypeOK
    <3>2. /\ Len(path') = Len(path) + 1 /\ path'[Len(path) + 1] = node
          /\ \A i \in 1..Len(path) : path'[i] = path[i]
      BY <1>0, <3>1
    <3>3. ~LoopReported => Len(path) < Len(order)
      <4> SUFFICES ASSUME ~LoopReported, Len(path) = Len(order) PROVE FALSE
        BY <1>0, <1>3 DEF Inv, ReaderAlong
      <4>1. node = anode
        BY <1>3, <3>1, ReaderNext
      <4> QED BY <1>3, <3>1, <4>1 DEF Inv, AuditInv, AuditReason
    <3>4. \E m \in 1..Len(order) : node = order[m]
      <4>1. CASE LoopReported
        BY <1>3, <3>1, <4>1, ReaderNext
      <4>2. CASE ~LoopReported
        <5>1. node = order[Len(path) + 1] /\ Len(path) + 1 \in 1..Len(order)
          BY <1>0, <1>3, <3>1, <3>3, <4>2, ReaderNext
        <5> QED BY <5>1
      <4> QED BY <4>1, <4>2
    <3>5. \A i \in 1..Len(path') :
             /\ i <= Len(order) => path'[i] = order[i]
             /\ i = Len(order) + 1 => path'[i] = anode
             /\ \E m \in 1..Len(order) : path'[i] = order[m]
      <4> TAKE i \in 1..Len(path')
      <4>1. CASE i \in 1..Len(path)
        BY <1>3, <3>2, <4>1 DEF Inv, ReaderAlong
      <4>2. CASE i = Len(path) + 1
        <5>1. path'[i] = node
          BY <3>2, <4>2
        <5>2. i <= Len(order) => node = order[i]
          BY <1>0, <1>3, <3>1, <4>2, ReaderNext
        <5>3. i = Len(order) + 1 => node = anode
          BY <1>0, <1>3, <3>1, <4>2, ReaderNext
        <5> QED BY <3>4, <5>1, <5>2, <5>3
      <4> QED BY <1>0, <3>2, <4>1, <4>2
    <3> QED BY <1>0, <2>0, <3>1, <3>2, <3>3, <3>5 DEF ReaderAlong
  <2>3. CASE Record \/ NextNode
    <3>1. path' = path /\ pc' # "done"
      BY <2>3 DEF Record, NextNode
    <3> QED BY <1>3, <2>0, <3>1 DEF Inv, ReaderAlong
  <2> QED BY <1>3, <2>1, <2>2, <2>3 DEF WalkStep
<1>4. CASE UNCHANGED allVars
  <2>1. /\ path' = path /\ pc' = pc /\ apc' = apc /\ order' = order /\ anode' = anode
        /\ (LoopReported' <=> LoopReported)
    BY <1>4 DEF allVars, vars, auditVars, LoopReported
  <2> QED BY <2>1 DEF Inv, ReaderAlong
<1> QED BY <1>1, <1>2, <1>3, <1>4 DEF AuditNext

LEMMA Invariance == AuditSpec => []Inv
<1>1. AuditInit => Inv
  <2> SUFFICES ASSUME AuditInit PROVE Inv
    OBVIOUS
  <2>1. PathInv
    BY DEF AuditInit, StreamedInit, Init, PathInv, FollowsLinks, LastSeenBefore, EndReason
  <2>2. fork \in Audited => ReaderAlong
    BY DEF AuditInit, StreamedInit, Init, ReaderAlong
  <2> QED BY <2>1, <2>2, InitAuditInv DEF Inv
<1>2. Inv /\ [AuditNext]_allVars => Inv'
  <2> SUFFICES ASSUME Inv, [AuditNext]_allVars PROVE Inv'
    OBVIOUS
  <2>1. [Next]_vars
    BY DEF AuditNext, allVars, Next
  <2>2. fork' = fork
    BY <2>1 DEF Next, WalkStep, Locate, StopWalk, LeaveBuffer, EnterNode, Record, NextNode,
                vars, input
  <2>3. AuditTypeOK' /\ PathInv'
    BY <2>1, StepAuditTypeOK, StepPathInv DEF Inv, AuditTypeOK
  <2>4. fork' \in Audited => AuditInv' /\ ReaderAlong'
    BY <2>2, StepAuditInv, StepReaderAlong DEF Inv
  <2> QED BY <2>3, <2>4 DEF Inv
<1> QED BY <1>1, <1>2, PTL DEF AuditSpec

------------------------------------------------------------------------------
\* audit() validates the catalog and the extents tree before it reads them: no record of
\* either reaches a callback from a node that audit_btree_nodes has not checked.  Nothing
\* of the kind holds of the attributes tree, whose nodes nobody checks.
THEOREM ReaderUsesCheckedNodes == AuditSpec => []TrustedNodesChecked
<1>1. Inv => TrustedNodesChecked
  <2> SUFFICES ASSUME Inv, fork \in Audited
               PROVE  \A i \in DOMAIN path : \E j \in DOMAIN order : path[i] = order[j]
    BY DEF TrustedNodesChecked
  <2>1. DOMAIN path = 1..Len(path) /\ DOMAIN order = 1..Len(order)
    BY DEF Inv, AuditTypeOK, TypeOK
  <2> QED BY <2>1 DEF Inv, ReaderAlong
<1> QED BY <1>1, Invariance, PTL

\* A loop of a validated tree is reported exactly when the reader hands out the records of
\* some node twice.
THEOREM LoopReportsExact == AuditSpec => []LoopReportedIffReplayed
<1>1. Inv => LoopReportedIffReplayed
  <2> SUFFICES ASSUME Inv, pc = "done", fork \in Audited PROVE LoopReported <=> Repeats
    BY DEF LoopReportedIffReplayed
  <2>0. /\ DOMAIN path = 1..Len(path) /\ Len(path) \in Nat /\ Len(order) \in Nat
        /\ apc = "over"
    BY DEF Inv, AuditTypeOK, TypeOK
  <2>1. ASSUME LoopReported PROVE Repeats
    <3>1. Len(path) = MAX_LEAF_NODES /\ Len(order) < MAX_LEAF_NODES
      BY <2>0, <2>1 DEF Inv, ReaderAlong, AuditInv, AuditReason
    <3>2. PICK m \in 1..Len(order) : anode = order[m]
      BY <2>0, <2>1 DEF Inv, AuditInv, AuditReason
    <3>3. m < Len(order) + 1 /\ m \in DOMAIN path /\ Len(order) + 1 \in DOMAIN path
      BY <2>0, <3>1, <3>2, Numbers
    <3>4. path[m] = order[m] /\ path[Len(order) + 1] = anode
      BY <2>0, <3>2, <3>3 DEF Inv, ReaderAlong
    <3> QED BY <3>2, <3>3, <3>4 DEF Repeats
  <2>2. ASSUME ~LoopReported, Repeats PROVE FALSE
    <3>1. Len(path) <= Len(order)
      BY <2>0, <2>2 DEF Inv, ReaderAlong
    <3>2. PICK i, j \in DOMAIN path : i < j /\ path[i] = path[j]
      BY <2>2 DEF Repeats
    <3>3. order[i] = order[j] /\ i \in 1..Len(order) /\ j \in 1..Len(order)
      BY <2>0, <3>1, <3>2 DEF Inv, ReaderAlong
    <3> QED BY <2>0, <3>2, <3>3 DEF Inv, AuditInv, OrderDistinct
  <2> QED BY <2>1, <2>2
<1> QED BY <1>1, Invariance, PTL

\* A validation that reports nothing on a tree vouches for the chain its records come from.
THEOREM CleanAuditSound == AuditSpec => []CleanAuditMeansSoundChain
<1>1. Inv /\ LoopReportedIffReplayed => CleanAuditMeansSoundChain
  <2> SUFFICES ASSUME Inv, LoopReportedIffReplayed, pc = "done", fork \in Audited, found = {},
                      NEW i \in DOMAIN path, NEW j \in DOMAIN path
               PROVE  /\ path[i] = path[j] => i = j
                      /\ NodeAt(Tree, path[i]).kind \in {NODE_LEAF, NODE_INDEX, NODE_MAP}
                      /\ NodeAt(Tree, path[i]).kind = NODE_LEAF
                            => NodeAt(Tree, path[i]).height > 0
    BY DEF CleanAuditMeansSoundChain
  <2>0. /\ DOMAIN path = 1..Len(path) /\ Len(path) \in Nat /\ IsVolume(vol) /\ fork \in Forks
        /\ path[i] \in U32 \ {0}
    BY DEF Inv, AuditTypeOK, TypeOK
  <2>1. path[i] = path[j] => i = j
    BY <2>0 DEF LoopReportedIffReplayed, LoopReported, Repeats
  <2>2. PICK m \in 1..Len(order) : path[i] = order[m]
    BY <2>0 DEF Inv, ReaderAlong
  <2>3. Findings(path[i]) = {}
    BY <2>2 DEF Inv, AuditInv, OrderChecked
  <2>4. \A w : w \notin Inconsistencies(path[i])
    BY <2>3 DEF Findings
  <2>5. NodeAt(Tree, path[i]).height \in 0..255
    BY <2>0, NodeAtType DEF Tree
  <2>6. NodeAt(Tree, path[i]).kind \in {NODE_LEAF, NODE_INDEX, NODE_MAP}
    BY <2>0, <2>4 DEF Inconsistencies
  <2>7. NodeAt(Tree, path[i]).kind = NODE_LEAF => NodeAt(Tree, path[i]).height > 0
    <3> SUFFICES ASSUME NodeAt(Tree, path[i]).kind = NODE_LEAF
                 PROVE  NodeAt(Tree, path[i]).height > 0
      OBVIOUS
    <3>1. "leaf height" \notin Inconsistencies(path[i])
      BY <2>4
    <3>2. NodeAt(Tree, path[i]).height # 0
      BY <3>1 DEF Inconsistencies
    <3> DEFINE h == NodeAt(Tree, path[i]).height
    <3>3. h \in 0..255 /\ h # 0
      BY <2>5, <3>2
    <3> HIDE DEF h
    <3>4. h > 0
      BY <3>3
    <3> QED BY <3>4 DEF h
  <2> QED BY <2>1, <2>6, <2>7
<1> QED BY <1>1, LoopReportsExact, Invariance, PTL

\* The validation pass uses up its own cap and ends, whatever the chain is.
THEOREM AuditProgresses == AuditSpec => AuditAlwaysProgress
<1>1. ASSUME AuditTypeOK, AuditStep
      PROVE  0 <= AuditMeasure' /\ AuditMeasure' < AuditMeasure
  <2>1. awalked \in 0..MAX_LEAF_NODES /\ MAX_LEAF_NODES \in Nat
    BY <1>1, Numbers DEF AuditTypeOK
  <2>2. CASE CheckHeaderNode
    BY <2>1, <2>2 DEF CheckHeaderNode, AuditMeasure
  <2>3. CASE AuditEnds \/ ReportLoop \/ LeaveTree
    BY <2>1, <2>3 DEF AuditEnds, ReportLoop, LeaveTree, AuditMeasure
  <2>4. CASE CheckNode
    BY <2>1, <2>4 DEF CheckNode, AuditOn, AuditMeasure
  <2> QED BY <1>1, <2>2, <2>3, <2>4 DEF AuditStep
<1>2. AuditTypeOK /\ [AuditNext]_allVars
        => [0 <= AuditMeasure' /\ AuditMeasure' < AuditMeasure]_auditVars
  BY <1>1 DEF AuditNext, allVars
<1> QED BY <1>2, AuditTypeCorrect, PTL DEF AuditSpec, AuditAlwaysProgress

------------------------------------------------------------------------------
\* audit() reads its records by the reader's own walk: what it does to the walk's variables
\* is for_each_record's run, with the validation in between as so many stuttering steps.
THEOREM AuditRunsTheWalk == AuditSpec => Spec /\ StreamedSteps
<1>1. AuditInit => StreamedInit
  BY DEF AuditInit
<1>2. [AuditNext]_allVars => [StreamedNext]_<<vars, expected>>
  BY DEF AuditNext, StreamedNext, Next, allVars
<1>3. AuditSpec => StreamedSteps
  BY <1>1, <1>2, PTL DEF AuditSpec, StreamedSteps
<1> QED BY <1>3, StreamOfTheWalk, PTL

\* So everything proved of the walk holds of the walk inside audit(): no panic on a wide
\* usize, readable records, replayed loops ended by the cap alone, progress at every step,
\* and the records delivered are those of the reference definition, in its order.
THEOREM AuditedWalk ==
    ASSUME WideUsize
    PROVE  AuditSpec => /\ [](NoPanic /\ DeliveredReadable /\ RepeatsRunToTheCap)
                        /\ AlwaysProgress
                        /\ DeliversTheRecords
<1>1. Spec => []NoPanic
  BY WalkCannotPanic
<1> QED BY <1>1, AuditRunsTheWalk, RecordsReadable, RepeatsEndAtTheCap, WalkProgresses,
           WalkIsAStream, PTL
==============================================================================
