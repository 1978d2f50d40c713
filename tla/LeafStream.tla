------------------------------ MODULE LeafStream ------------------------------
(***************************************************************************)
(* What LeafWalk's loop promises its callers, stated with the abstract     *)
(* RecordStream and the reference definition of a tree's records.          *)
(***************************************************************************)
EXTENDS LeafWalk, LeafRecords

VARIABLE expected   \* the records of the tree asked for: they depend on the volume only

StreamedInit == Init /\ expected = RecordsOf(vol, fork)
StreamedNext == Next /\ UNCHANGED expected
StreamedSteps == StreamedInit /\ [][StreamedNext]_<<vars, expected>>
StreamedSpec == StreamedSteps /\ WF_vars(StreamedNext)

Stream == INSTANCE RecordStream WITH out <- delivered, returned <- pc \in {"none", "done"}

\* for_each_record keeps RecordStream's promise for the records of LeafRecords: none is
\* left out, none is repeated beyond what the chain repeats, the order is that of the
\* chain, and the call does not return before the last of them.
DeliversTheRecords == Stream!StreamSpec

\* The call returns, whatever chain and counts the tree holds.
WalkReturns == Stream!StreamReturns
==============================================================================
