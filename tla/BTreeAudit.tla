------------------------------ MODULE BTreeAudit ------------------------------
(***************************************************************************)
(* audit_btree_nodes (forensic/src/findings.rs) and the reader's walk over *)
(* the same tree.  For the catalog and the extents-overflow tree audit()   *)
(* first validates the node descriptors along the leaf chain, with a loop  *)
(* of its own that stops at the first node seen before, and then reads the *)
(* tree's records through for_each_record, which keeps no such set.  The   *)
(* two loops compute node bounds separately: what the analyzer reports is  *)
(* worth something only if they agree.                                     *)
(*                                                                         *)
(* The attributes tree audit() reads without validating it: decmpfs_xattr  *)
(* walks it for every file.  Of it the module shows the walk alone.        *)
(***************************************************************************)
EXTENDS LeafStream

VARIABLES
    apc,        \* where audit_btree_nodes is
    anode,      \* its loop variable `node`
    awalked,    \* its loop variable `walked`
    seen,       \* its set of chain nodes seen
    order,      \* history: the chain nodes check_node inspected, in order
    found       \* the BtreeNodeInvalid findings pushed: [node, what]

auditVars == <<apc, anode, awalked, seen, order, found>>
allVars == <<vars, expected, auditVars>>

NODE_LEAF == -1
NODE_INDEX == 0
NODE_HEADER == 1
NODE_MAP == 2

\* The trees audit() validates before it reads their records.
Audited == {"catalog", "extents"}

AuditInit ==
    /\ StreamedInit
    /\ apc = IF fork \in Audited THEN "header" ELSE "over"
    /\ anode = 0 /\ awalked = 0
    /\ seen = {} /\ order = <<>> /\ found = {}

------------------------------------------------------------------------------
\* node_slice: the analyzer's own bounds computation, checked throughout.
NodeSliced(n) ==
    /\ NodeEnd(loc, n) <= UsizeMax
    /\ NodeEnd(loc, n) <= vol.len
    /\ loc.node_size >= DescriptorLen

\* The inconsistencies check_node looks for in the descriptor of node n.
Inconsistencies(n) ==
    LET nd == NodeAt(Tree, n) IN
    {what \in {"kind", "leaf height", "header kind", "self link"} :
        \/ /\ what = "kind"
           /\ nd.kind \notin {NODE_LEAF, NODE_INDEX, NODE_HEADER, NODE_MAP}
        \/ what = "leaf height" /\ nd.kind = NODE_LEAF /\ nd.height = 0
        \/ what = "header kind" /\ nd.kind = NODE_HEADER /\ n # 0
        \/ what = "self link" /\ n # 0 /\ n \in {nd.fLink, nd.bLink}}

Findings(n) == {[node |-> n, what |-> w] : w \in Inconsistencies(n)}

\* check_node(0), then the loop starts at the first leaf.
CheckHeaderNode ==
    /\ apc = "header"
    /\ found' = IF NodeSliced(0) THEN found \cup Findings(0) ELSE found
    /\ apc' = "chain"
    /\ anode' = loc.first_leaf
    /\ UNCHANGED <<awalked, seen, order>>

\* A mutant of AuditOn: the analyzer's cap is one node short of the reader's.
AuditStopsEarly == anode # 0 /\ awalked + 1 < MAX_LEAF_NODES

\* A mutant of AuditOn: no cap of its own, the seen-set is trusted to end the loop.
AuditUncapped == anode # 0

AuditOn == anode # 0 /\ awalked < MAX_LEAF_NODES

AuditEnds ==
    /\ apc = "chain" /\ ~AuditOn
    /\ apc' = "over"
    /\ UNCHANGED <<anode, awalked, seen, order, found>>

\* The chain comes back to a node already seen: one finding, and the loop ends.
ReportLoop ==
    /\ apc = "chain" /\ AuditOn
    /\ anode \in seen
    /\ awalked' = awalked + 1
    /\ found' = found \cup {[node |-> anode, what |-> "loop"]}
    /\ apc' = "over"
    /\ UNCHANGED <<anode, seen, order>>

\* The link leads outside the buffer: the loop breaks without a finding.
LeaveTree ==
    /\ apc = "chain" /\ AuditOn
    /\ anode \notin seen /\ ~NodeSliced(anode)
    /\ awalked' = awalked + 1
    /\ seen' = seen \cup {anode}
    /\ apc' = "over"
    /\ UNCHANGED <<anode, order, found>>

\* A mutant of CheckNode: a node is not remembered.
CheckNodeForgetful ==
    /\ apc = "chain" /\ AuditOn
    /\ anode \notin seen /\ NodeSliced(anode)
    /\ awalked' = awalked + 1
    /\ order' = Append(order, anode)
    /\ found' = found \cup Findings(anode)
    /\ anode' = NodeAt(Tree, anode).fLink
    /\ UNCHANGED <<apc, seen>>

\* A mutant of CheckNode: `walked += 1` is lost.
CheckNodeUncounted ==
    /\ apc = "chain" /\ AuditOn
    /\ anode \notin seen /\ NodeSliced(anode)
    /\ seen' = seen \cup {anode}
    /\ order' = Append(order, anode)
    /\ found' = found \cup Findings(anode)
    /\ anode' = NodeAt(Tree, anode).fLink
    /\ UNCHANGED <<apc, awalked>>

CheckNode ==
    /\ apc = "chain" /\ AuditOn
    /\ anode \notin seen /\ NodeSliced(anode)
    /\ awalked' = awalked + 1
    /\ seen' = seen \cup {anode}
    /\ order' = Append(order, anode)
    /\ found' = found \cup Findings(anode)
    /\ anode' = NodeAt(Tree, anode).fLink
    /\ UNCHANGED apc

AuditStep == CheckHeaderNode \/ AuditEnds \/ ReportLoop \/ LeaveTree \/ CheckNode

\* audit(): locate the tree, validate its nodes if it is one to be validated, then walk
\* its records.
AuditNext ==
    /\ UNCHANGED expected
    /\ \/ Locate /\ UNCHANGED auditVars
       \/ pc = "walk" /\ AuditStep /\ UNCHANGED vars
       \/ apc = "over" /\ WalkStep /\ UNCHANGED auditVars

AuditSpec == AuditInit /\ [][AuditNext]_allVars /\ WF_allVars(AuditNext)

------------------------------------------------------------------------------
Whats == {"kind", "leaf height", "header kind", "self link", "loop"}

AuditTypeOK ==
    /\ TypeOK
    /\ apc \in {"header", "chain", "over"}
    /\ anode \in U32 /\ awalked \in 0..MAX_LEAF_NODES
    /\ seen \subseteq U32 \ {0} /\ order \in Seq(U32 \ {0})
    /\ found \subseteq [node : U32, what : Whats]
    /\ fork \notin Audited => apc = "over"
    /\ fork \in Audited /\ apc # "header" => pc \notin {"locate", "none"}
    /\ pc \in {"records", "done"} => apc = "over"

Repeats == \E i, j \in DOMAIN path : i < j /\ path[i] = path[j]

LoopReported == \E x \in found : x.what = "loop"

\* The analyzer validates "the same nodes the reader trusts": no record of the catalog or
\* of the extents tree reaches a callback from a node whose descriptor audit_btree_nodes
\* has not checked, although the two loops bound nodes and walks independently and only
\* one of them detects cycles.  (Of the attributes tree no node is ever checked.)
TrustedNodesChecked ==
    fork \in Audited =>
        \A i \in DOMAIN path : \E j \in DOMAIN order : path[i] = order[j]

\* A loop finding on a validated tree says exactly that the reader's walk goes round:
\* reported when, and only when, for_each_record hands out some node's records more than
\* once, also at the very cap, where a loop that needs one more node to close is neither
\* walked nor reported.
LoopReportedIffReplayed ==
    (pc = "done" /\ fork \in Audited) => (LoopReported <=> Repeats)

\* An audit without any finding on a validated tree is a promise about its leaf chain:
\* every node the reader used is a distinct one, none of another kind than those
\* documented, none of them the header's, and no leaf at height 0.
CleanAuditMeansSoundChain ==
    (pc = "done" /\ fork \in Audited /\ found = {}) =>
        \A i, j \in DOMAIN path :
            /\ path[i] = path[j] => i = j
            /\ NodeAt(Tree, path[i]).kind \in {NODE_LEAF, NODE_INDEX, NODE_MAP}
            /\ NodeAt(Tree, path[i]).kind = NODE_LEAF => NodeAt(Tree, path[i]).height > 0

\* The validation pass ends too, with at most one turn of its loop per node of the tree
\* and one more: what is left of its own cap shrinks with every step.
AuditMeasure ==
    CASE apc = "header" -> MAX_LEAF_NODES + 3
      [] apc = "chain"  -> MAX_LEAF_NODES - awalked + 1
      [] OTHER          -> 0

AuditAlwaysProgress ==
    [][0 <= AuditMeasure' /\ AuditMeasure' < AuditMeasure]_auditVars

------------------------------------------------------------------------------
\* What comments in findings.rs say of the validation, and the code does not do.

\* "Node 0 is the header node; its descriptor kind must be NODE_HEADER."
HeaderNodeKindChecked ==
    (apc = "over" /\ fork \in Audited /\ NodeSliced(0) /\ NodeAt(Tree, 0).kind # NODE_HEADER)
        => \E x \in found : x.node = 0

\* BtreeNodeInvalid stands for "a forward/back link pointing at itself or outside the
\* tree": a walk of a validated tree that ends because a link leads outside the buffer
\* left a finding.
OutsideLinkReported ==
    (/\ pc = "done" /\ fork \in Audited /\ path # <<>>
     /\ node # 0 /\ ~NodeReadable(vol.len, loc, node)) => found # {}
==============================================================================
