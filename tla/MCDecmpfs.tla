------------------------------ MODULE MCDecmpfs ------------------------------
(***************************************************************************)
(* Instances of Decmpfs for TLC: chunks of two bytes, every documented     *)
(* type and two others, forks of both formats with entries and end-offsets *)
(* in, at and behind the fork's end, out of order, or zero.                *)
(***************************************************************************)
EXTENDS Decmpfs

EmptyFork == [logical |-> 0, blocks |-> 0, len |-> 0, header |-> 0, count |-> 0,
              entries |-> <<>>, ends |-> <<>>]

\* Nothing to read; sizes without blocks; blocks behind the volume's end.
BareForks == { EmptyFork, [EmptyFork EXCEPT !.logical = 9],
               [EmptyFork EXCEPT !.logical = 9, !.blocks = 1] }

\* Every header, on inline attributes of no, one and three payload bytes.  64 is one more
\* than the largest usize.
AnyXattrs ==
    [len : {15, 16, 17, 19}, magic : BOOLEAN, type : 1..15,
     size : {0, 1, 2, 3, 64, 67}, first : {"FF", "06", "other"}]

ForkXattrs(types, sizes) ==
    [len : {16}, magic : {TRUE}, type : types, size : sizes, first : {"other"}]

\* A header of 4 + 4n bytes for n slots, up to three, at least two bytes too short or one
\* that leaves no room for the first.
ChunkedForks ==
    { [EmptyFork EXCEPT !.logical = 24, !.blocks = 1, !.len = len, !.header = header,
                        !.ends = ends] :
        len \in {3, 8, 22}, header \in {3, 4, 12, 16},
        ends \in [1..3 -> {0, 12, 18, 20, 22, 23}] }

\* A header of 4 bytes (or one that ends behind usize), the size prefix, and from byte 8
\* on the block table; read as a list of chunks, it would hold zeros.
ZlibForks ==
    { [EmptyFork EXCEPT !.logical = 40, !.blocks = 1, !.len = len, !.header = header,
                        !.count = count, !.entries = entries,
                        !.ends = [n \in 1..9 |-> 0]] :
        len \in {3, 11, 20, 28, 40}, header \in {4, 61}, count \in {0, 1, 2},
        entries \in [1..2 -> {0, 20, 24, 60} \X {0, 4, 12}] }

SmallFiles ==
    { [xattrs |-> AnyXattrs, forks |-> BareForks],
      [xattrs |-> ForkXattrs({8, 10, 12}, {0, 2, 3, 5, 6}), forks |-> ChunkedForks],
      [xattrs |-> ForkXattrs({4}, {0, 2, 3}), forks |-> ZlibForks] }
==============================================================================
