------------------------------ MODULE MCForkRead ------------------------------
(***************************************************************************)
(* Instances of ForkRead for TLC: words of 3 and 5 bits, three slots,      *)
(* blocks of one and three bytes, volumes that end inside a block, and     *)
(* logical sizes around every boundary, above usize included; the file is  *)
(* CNID 5.                                                                 *)
(***************************************************************************)
EXTENDS ForkRead

SmallVolumes == [len : {6, 13, 20}, block_size : {1, 3}]

\* Free, inside, across the volume's end, behind it, and beyond usize.
SmallExtents ==
    {[start |-> e[1], count |-> e[2]] :
        e \in {<<0, 0>>, <<7, 0>>, <<0, 1>>, <<1, 2>>, <<2, 3>>, <<5, 2>>, <<7, 1>>, <<7, 7>>}}

SmallForks ==
    [logical : {0, 1, 3, 5, 6, 9, 13, 21, 22, 31, 32, 38}, slots : [1..3 -> SmallExtents]]

\* Records of the file's data fork in full, cut off behind the first pair, and in the
\* key, of the resource fork, and of another file.
Overflow(avail, forkType, fileID, counts) ==
    [avail |-> avail, keyLen |-> 10, forkType |-> forkType, fileID |-> fileID, counts |-> counts]

SmallTrees ==
    LET own == Overflow(36, 0, 5, <<1, 0, 1>>)
        big == Overflow(36, 0, 5, <<7, 7, 0>>)
        cut == Overflow(27, 0, 5, <<1, 7, 7>>)
        key == Overflow(11, 0, 5, <<7, 7, 7>>)
        resource == Overflow(36, 255, 5, <<7, 7, 7>>)
        other == Overflow(36, 0, 6, <<7, 7, 7>>)
    IN {<<>>, <<own>>, <<own, own>>, <<big>>, <<key, cut>>, <<resource, other, own>>}
==============================================================================
