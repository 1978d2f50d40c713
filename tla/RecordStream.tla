----------------------------- MODULE RecordStream -----------------------------
(***************************************************************************)
(* What a caller of for_each_record is promised, with no B-tree in sight:  *)
(* the callback is called once for each record of a fixed list, in the     *)
(* list's order, and then, not before, the call returns.                   *)
(***************************************************************************)
EXTENDS Naturals, Sequences

VARIABLES
    expected,   \* the records the call is to hand out
    out,        \* the records handed out so far
    returned    \* the call is over

streamVars == <<expected, out, returned>>

StreamInit == out = <<>> /\ ~returned

Emit == /\ ~returned
        /\ Len(out) < Len(expected)
        /\ out' = Append(out, expected[Len(out) + 1])
        /\ UNCHANGED <<expected, returned>>

Return == /\ ~returned
          /\ out = expected
          /\ returned' = TRUE
          /\ UNCHANGED <<expected, out>>

StreamSpec == StreamInit /\ [][Emit \/ Return]_streamVars

StreamReturns == <>returned
==============================================================================
