--------------------------- MODULE ForkRead_proofs ---------------------------
(***************************************************************************)
(* ForkRead for every word width, number of slots, volume and fork.        *)
(***************************************************************************)
EXTENDS ForkRead, RecursiveFunctions

PieceSet == [at : Nat, from : Nat, len : Nat, ideal : Nat, whole : BOOLEAN]

\* The quantities of a step, with their types.
LEMMA Quantities ==
    ASSUME TypeOK
    PROVE  /\ vol.len \in Nat /\ vol.len <= UsizeMax
           /\ vol.block_size \in Nat /\ vol.block_size >= 1
           /\ fork.logical \in Nat
           /\ U32Max \in Nat /\ UsizeMax \in Nat
           /\ Wanted \in Nat
           /\ fork.logical <= UsizeMax => Wanted = fork.logical
<1>1. /\ U32Max \in Nat /\ UsizeMax \in Nat
      /\ vol \in [len : 0..UsizeMax, block_size : 1..U32Max]
      /\ fork \in [logical : Nat, slots : [1..Slots -> Extent]]
  BY ForkAssumption DEF TypeOK
<1>2. fork.logical \in Nat /\ UsizeMax + 1 \in Nat /\ UsizeMax + 1 > 0
  BY <1>1
<1>3. \A a, b \in Nat : b > 0 => a % b \in Nat /\ (a < b => a % b = a)
  OBVIOUS
<1>4. Wanted \in Nat /\ (fork.logical <= UsizeMax => Wanted = fork.logical)
  BY <1>1, <1>2, <1>3 DEF Wanted
<1> QED BY <1>1, <1>4

LEMMA SlotQuantities ==
    ASSUME TypeOK, k < Slots
    PROVE  /\ k + 1 \in 1..Slots
           /\ E.start \in Nat /\ E.count \in Nat
           /\ Begin \in Nat /\ Size \in Nat
           /\ Begin < vol.len => End \in Nat /\ Begin <= End /\ End <= vol.len
                                  /\ End - Begin \in Nat /\ End - Begin <= Size
                                  /\ (End - Begin = Size <=> Begin + Size <= vol.len)
<1>1. k + 1 \in 1..Slots
  BY ForkAssumption DEF TypeOK
<1>2. E \in Extent
  BY <1>1, ForkAssumption DEF TypeOK, E
<1>3. E.start \in Nat /\ E.count \in Nat
  BY <1>2, ForkAssumption DEF Extent
<1>4. vol.len \in Nat /\ vol.block_size \in Nat
  BY Quantities
<1>5. \A a, b \in Nat : a * b \in Nat
  OBVIOUS
<1>6. Begin \in Nat /\ Size \in Nat
  BY <1>3, <1>4, <1>5 DEF Begin, Size
<1>7. Begin < vol.len => End \in Nat /\ Begin <= End /\ End <= vol.len
                          /\ End - Begin \in Nat /\ End - Begin <= Size
                          /\ (End - Begin = Size <=> Begin + Size <= vol.len)
  BY <1>4, <1>6 DEF End, AtMost
<1> QED BY <1>1, <1>3, <1>6, <1>7

\* What counting a slot does to the counters.
LEMMA Counted ==
    ASSUME TypeOK, CountSlot
    PROVE  /\ k < Slots /\ k' \in 0..Slots /\ k' = k + 1
           /\ vol' = vol /\ fork' = fork /\ result' = result /\ mismatch' = mismatch
           /\ UNCHANGED overflowVars
           /\ ideal' = ideal + Size /\ ideal' \in Nat
           /\ inline_blocks' \in 0..U32Max /\ extents_full' \in BOOLEAN
<1>1. k < Slots
  BY DEF CountSlot
<1>2. E.count \in Nat /\ Size \in Nat
  BY <1>1, SlotQuantities
<1>3. inline_blocks' \in 0..U32Max
  BY <1>2, ForkAssumption DEF CountSlot, TypeOK, AtMost
<1>4. extents_full' \in BOOLEAN
  BY DEF CountSlot
<1> QED BY <1>1, <1>2, <1>3, <1>4, ForkAssumption DEF CountSlot, TypeOK

\* The pass over the overflow tree leaves everything else alone.
LEMMA TreeSteps ==
    ASSUME TypeOK, AskTree
    PROVE  /\ UNCHANGED <<vol, fork, k, reading, pieces, got, inline_blocks, extents_full, ideal,
                          result, mismatch>>
           /\ asked' \in BOOLEAN /\ tree' \in Seq(OverflowRecord) /\ (asked' \/ tree' = <<>>)
           /\ passed' \in 0..Len(tree') /\ pair' \in 0..Slots
           /\ overflow' \in 0..U32Max
           /\ ~asked \/ (passed < Len(tree) /\ tree' = tree)
<1>0. ASSUME TypeOK PROVE Len(tree) \in Nat /\ passed \in Nat
  BY <1>0 DEF TypeOK
<1>1. CASE AskOverflow
  <2>1. tree' \in Seq(OverflowRecord) /\ passed' = passed /\ ~asked
    BY <1>1, ForkAssumption DEF AskOverflow
  <2>2. passed' \in 0..Len(tree')
    BY <2>1 DEF TypeOK
  <2> QED BY <1>1, <2>1, <2>2, ForkAssumption DEF AskOverflow, TypeOK
<1>2. CASE CountPair
  <2> DEFINE r == tree[passed + 1]
             count == r.counts[pair + 1]
  <2>1. r \in OverflowRecord /\ pair < Slots
    BY <1>0, <1>2 DEF CountPair, HasPair, TypeOK
  <2>2. pair + 1 \in 1..Slots /\ pair + 1 \in 0..Slots
    BY <2>1, ForkAssumption DEF TypeOK
  <2>3. count \in 0..U32Max
    BY <2>1, <2>2 DEF OverflowRecord
  <2>4. overflow' = AtMost(overflow + count, U32Max)
    BY <1>2 DEF CountPair
  <2> HIDE DEF count
  <2>5. overflow' \in 0..U32Max
    BY <2>3, <2>4, ForkAssumption DEF AtMost, TypeOK
  <2> QED BY <1>2, <2>2, <2>5 DEF CountPair, TypeOK
<1>3. CASE LeaveRecord
  BY <1>0, <1>3, ForkAssumption DEF LeaveRecord, TypeOK
<1> QED BY <1>1, <1>2, <1>3 DEF AskTree

LEMMA Appended ==
    ASSUME TypeOK, ReadExtent
    PROVE  /\ Begin < vol.len /\ RangeFits /\ E.count # 0 /\ reading = "on" /\ got < Wanted
           /\ Piece(End - Begin) \in PieceSet
           /\ pieces' \in Seq(PieceSet)
           /\ Len(pieces) \in Nat /\ DOMAIN pieces = 1..Len(pieces)
           /\ Len(pieces') = Len(pieces) + 1 /\ DOMAIN pieces' = 1..(Len(pieces) + 1)
           /\ \A i \in 1..Len(pieces) : pieces'[i] = pieces[i]
           /\ pieces'[Len(pieces) + 1] = Piece(End - Begin)
           /\ got' = got + (End - Begin) /\ got' \in Nat
           /\ reading' = reading
<1>1. k < Slots /\ Begin < vol.len /\ RangeFits /\ E.count # 0 /\ reading = "on" /\ got < Wanted
  BY DEF ReadExtent, CountSlot, Reads
<1>2. End - Begin \in Nat /\ Begin \in Nat /\ Size \in Nat
  BY <1>1, SlotQuantities
<1>3. got \in Nat /\ ideal \in Nat /\ pieces \in Seq(PieceSet)
  BY DEF TypeOK, PieceSet
<1>4. Piece(End - Begin) \in PieceSet
  <2> DEFINE n == End - Begin
             w == n = Size
  <2>1. n \in Nat /\ w \in BOOLEAN
    BY <1>2
  <2>2. Piece(n) = [at |-> got, from |-> Begin, len |-> n, ideal |-> ideal, whole |-> w]
    BY DEF Piece
  <2> HIDE DEF n, w
  <2>3. [at |-> got, from |-> Begin, len |-> n, ideal |-> ideal, whole |-> w] \in PieceSet
    BY <1>2, <1>3, <2>1, Zenon DEF PieceSet
  <2> QED BY <2>2, <2>3 DEF n
<1>5. pieces' = Append(pieces, Piece(End - Begin)) /\ got' = got + (End - Begin) /\ reading' = reading
  BY DEF ReadExtent
<1> QED BY <1>1, <1>2, <1>3, <1>4, <1>5

LEMMA InitTyped ==
    ASSUME Init PROVE TypeOK
<1>1. 0 \in 0..Slots /\ 0 \in 0..U32Max
  BY ForkAssumption
<1>2. pieces \in Seq([at : Nat, from : Nat, len : Nat, ideal : Nat, whole : BOOLEAN])
  BY DEF Init
<1>3. -1 \in Nat \cup {-1} /\ 0 \in Nat
  OBVIOUS
<1>4. extents_full \in BOOLEAN /\ mismatch \in BOOLEAN
  BY DEF Init
<1>5. tree \in Seq(OverflowRecord) /\ tree = <<>> /\ passed \in 0..Len(tree)
  BY DEF Init
<1> QED BY <1>1, <1>2, <1>3, <1>4, <1>5 DEF Init, TypeOK

\* The type invariant is inductive as it stands.
THEOREM TypeCorrect == Spec => []TypeOK
<1>1. Init => TypeOK
  BY InitTyped
<1>2. TypeOK /\ [Next]_vars => TypeOK'
  <2> SUFFICES ASSUME TypeOK, [Next]_vars PROVE TypeOK'
    OBVIOUS
  <2>1. CASE PassSlot \/ BeyondVolume \/ RangeOverflows
    <3>1. CountSlot /\ UNCHANGED <<pieces, got>> /\ reading' \in {reading, "stopped", "failed"}
      BY <2>1 DEF PassSlot, BeyondVolume, RangeOverflows
    <3>2. /\ k' \in 0..Slots
          /\ vol' = vol /\ fork' = fork /\ result' = result /\ mismatch' = mismatch
          /\ UNCHANGED overflowVars
          /\ ideal' \in Nat
          /\ inline_blocks' \in 0..U32Max /\ extents_full' \in BOOLEAN
      BY <3>1, Counted
    <3> QED BY <3>1, <3>2 DEF TypeOK, overflowVars
  <2>2. CASE ReadExtent
    <3>1. CountSlot
      BY <2>2 DEF ReadExtent
    <3>2. /\ k' \in 0..Slots
          /\ vol' = vol /\ fork' = fork /\ result' = result /\ mismatch' = mismatch
          /\ UNCHANGED overflowVars
          /\ ideal' \in Nat
          /\ inline_blocks' \in 0..U32Max /\ extents_full' \in BOOLEAN
      BY <3>1, Counted
    <3>3. pieces' \in Seq(PieceSet) /\ got' \in Nat /\ reading' = reading
      BY <2>2, Appended
    <3> QED BY <3>2, <3>3 DEF TypeOK, PieceSet, overflowVars
  <2>3. CASE Finish
    <3>1. Wanted \in Nat /\ got \in Nat
      BY Quantities DEF TypeOK
    <3>2. result' \in Nat \cup {-1}
      BY <2>3, <3>1 DEF Finish, AtMost
    <3>3. mismatch' \in BOOLEAN
      BY <2>3 DEF Finish
    <3> QED BY <2>3, <3>2, <3>3 DEF Finish, TypeOK, overflowVars
  <2>4. CASE AskTree
    BY <2>4, TreeSteps DEF TypeOK
  <2>5. CASE UNCHANGED vars
    BY <2>5 DEF TypeOK, vars, overflowVars
  <2> QED BY <2>1, <2>2, <2>3, <2>4, <2>5 DEF Next
<1> QED BY <1>1, <1>2, PTL DEF Spec

------------------------------------------------------------------------------
\* The steps that leave the data alone.
LEMMA OtherSteps ==
    ASSUME [Next]_vars
    PROVE  ReadExtent \/ UNCHANGED <<vol, pieces, got>>
BY DEF Next, PassSlot, BeyondVolume, RangeOverflows, Finish, CountSlot, AskTree, AskOverflow,
       CountPair, LeaveRecord, vars

LEMMA InputFixed ==
    ASSUME [Next]_vars
    PROVE  vol' = vol /\ fork' = fork
BY DEF Next, PassSlot, ReadExtent, BeyondVolume, RangeOverflows, Finish, CountSlot, AskTree,
       AskOverflow, CountPair, LeaveRecord, vars

\* Besides SlicesInVolume: without a piece there is no data.
SlicesInv == SlicesInVolume /\ (pieces = <<>> => got = 0)

\* No slice of fork_bytes leaves the volume, and the pieces follow one another.
THEOREM SlicesAreInVolume == Spec => []SlicesInVolume
<1>1. Init => SlicesInv
  BY DEF Init, SlicesInv, SlicesInVolume
<1>2. TypeOK /\ SlicesInv /\ [Next]_vars => SlicesInv'
  <2> SUFFICES ASSUME TypeOK, SlicesInv, [Next]_vars PROVE SlicesInv'
    OBVIOUS
  <2>1. CASE ReadExtent
    <3> DEFINE n == Len(pieces)
               p == Piece(End - Begin)
    <3>1. /\ n \in Nat /\ DOMAIN pieces = 1..n
          /\ Len(pieces') = n + 1 /\ DOMAIN pieces' = 1..(n + 1)
          /\ \A i \in 1..n : pieces'[i] = pieces[i]
          /\ pieces'[n + 1] = p
          /\ got' = got + (End - Begin)
      BY <2>1, Appended
    <3>2. p.at = got /\ p.from = Begin /\ p.len = End - Begin
      BY DEF Piece
    <3>3. vol' = vol /\ End <= vol.len /\ Begin \in Nat /\ End \in Nat /\ vol.len \in Nat
      <4>1. k < Slots /\ Begin < vol.len /\ vol' = vol
        BY <2>1 DEF ReadExtent, CountSlot
      <4> QED BY <4>1, SlotQuantities, Quantities
    <3>4. n = 0 => got = 0
      BY DEF SlicesInv, TypeOK
    <3>5. \A i \in 1..n : pieces[i].at + pieces[i].len = IF i = n THEN got ELSE pieces[i + 1].at
      BY <3>1 DEF SlicesInv, SlicesInVolume
    <3>6. \A i \in 1..n : pieces[i].from + pieces[i].len <= vol.len
      BY <3>1 DEF SlicesInv, SlicesInVolume
    <3> HIDE DEF n, p
    <3>7. ASSUME NEW i \in 1..(n + 1)
          PROVE  /\ pieces'[i].from + pieces'[i].len <= vol'.len
                 /\ pieces'[i].at + pieces'[i].len = IF i = n + 1 THEN got' ELSE pieces'[i + 1].at
      <4>1. CASE i \in 1..n
        <5>1. pieces'[i] = pieces[i] /\ i # n + 1
          BY <3>1, <4>1
        <5>2. pieces'[i + 1].at = IF i = n THEN got ELSE pieces[i + 1].at
          <6>1. CASE i = n
            BY <3>1, <3>2, <6>1
          <6>2. CASE i # n
            <7>1. i + 1 \in 1..n
              BY <3>1, <4>1, <6>2
            <7> QED BY <3>1, <6>2, <7>1
          <6> QED BY <6>1, <6>2
        <5> QED BY <3>3, <3>5, <3>6, <4>1, <5>1, <5>2
      <4>2. CASE i = n + 1
        BY <3>1, <3>2, <3>3, <4>2
      <4> QED BY <3>1, <4>1, <4>2
    <3>8. pieces' # <<>>
      BY <3>1
    <3> QED BY <3>1, <3>7, <3>8 DEF SlicesInv, SlicesInVolume
  <2>2. CASE UNCHANGED <<vol, pieces, got>>
    BY <2>2 DEF SlicesInv, SlicesInVolume
  <2> QED BY <2>1, <2>2, OtherSteps
<1>3. SlicesInv => SlicesInVolume
  BY DEF SlicesInv
<1> QED BY <1>1, <1>2, <1>3, TypeCorrect, PTL DEF Spec

\* The data never grows a volume's length past the logical size.
THEOREM BufferIsBounded == Spec => []BufferBounded
<1>1. Init => BufferBounded
  BY DEF Init, BufferBounded
<1>2. TypeOK /\ BufferBounded /\ [Next]_vars => BufferBounded'
  <2> SUFFICES ASSUME TypeOK, BufferBounded, [Next]_vars PROVE BufferBounded'
    OBVIOUS
  <2>0. Wanted' = Wanted /\ vol' = vol
    BY InputFixed DEF Wanted
  <2>1. CASE ReadExtent
    <3>1. got < Wanted /\ got' = got + (End - Begin) /\ Begin < vol.len /\ k < Slots
      BY <2>1 DEF ReadExtent, Reads, CountSlot
    <3>2. /\ End - Begin \in Nat /\ End \in Nat /\ Begin \in Nat /\ End <= vol.len
      BY <3>1, SlotQuantities
    <3>3. Wanted \in Nat /\ got \in Nat /\ vol.len \in Nat
      BY Quantities DEF TypeOK
    <3> QED BY <2>0, <3>1, <3>2, <3>3 DEF BufferBounded
  <2>2. CASE UNCHANGED <<vol, pieces, got>>
    BY <2>0, <2>2 DEF BufferBounded
  <2> QED BY <2>1, <2>2, OtherSteps
<1> QED BY <1>1, <1>2, TypeCorrect, PTL DEF Spec

------------------------------------------------------------------------------
\* Up to the first extent cut short, the data is as long as the extents passed.
PlaceInv ==
    /\ BytesInPlace
    /\ (/\ reading = "on" /\ got < Wanted
        /\ \A i \in DOMAIN pieces : pieces[i].whole) => got = ideal

\* Bytes are at their own position as long as nothing before them was cut.
THEOREM BytesAreInPlace == Spec => []BytesInPlace
<1>1. Init => PlaceInv
  BY DEF Init, PlaceInv, BytesInPlace
<1>2. TypeOK /\ PlaceInv /\ [Next]_vars => PlaceInv'
  <2> SUFFICES ASSUME TypeOK, PlaceInv, [Next]_vars PROVE PlaceInv'
    OBVIOUS
  <2>0. Wanted' = Wanted
    BY InputFixed DEF Wanted
  <2>1. CASE PassSlot
    <3>1. /\ CountSlot /\ ~Reads /\ UNCHANGED <<reading, pieces, got>>
          /\ k < Slots
      BY <2>1 DEF PassSlot, CountSlot
    <3>2. ideal' = ideal + Size
      BY <3>1, Counted
    <3>3. reading = "on" /\ got < Wanted => E.count = 0
      BY <3>1 DEF Reads
    <3>4. E.count = 0 => Size = 0
      BY Quantities DEF Size
    <3>5. ideal \in Nat
      BY DEF TypeOK
    <3> QED BY <2>0, <3>1, <3>2, <3>3, <3>4, <3>5 DEF PlaceInv, BytesInPlace
  <2>2. CASE ReadExtent
    <3> DEFINE n == Len(pieces)
               p == Piece(End - Begin)
    <3>1. /\ n \in Nat /\ DOMAIN pieces = 1..n /\ DOMAIN pieces' = 1..(n + 1)
          /\ \A i \in 1..n : pieces'[i] = pieces[i]
          /\ pieces'[n + 1] = p
          /\ got' = got + (End - Begin)
          /\ reading = "on" /\ got < Wanted
      BY <2>2, Appended
    <3>2. p.at = got /\ p.ideal = ideal /\ (p.whole <=> End - Begin = Size)
      BY DEF Piece
    <3>3. ideal' = ideal + Size
      BY <2>2, Counted DEF ReadExtent
    <3>4. (\A i \in 1..n : pieces[i].whole) => got = ideal
      BY <3>1 DEF PlaceInv
    <3>5. \A i \in 1..n : (\A j \in 1..(i - 1) : pieces[j].whole) => pieces[i].at = pieces[i].ideal
      BY <3>1 DEF PlaceInv, BytesInPlace
    <3> HIDE DEF n, p
    <3>6. ASSUME NEW i \in 1..(n + 1), \A j \in 1..(i - 1) : pieces'[j].whole
          PROVE  pieces'[i].at = pieces'[i].ideal
      <4>1. \A j \in 1..(i - 1) : j \in 1..n /\ pieces'[j] = pieces[j]
        BY <3>1
      <4>2. CASE i \in 1..n
        BY <3>1, <3>5, <3>6, <4>1, <4>2
      <4>3. CASE i = n + 1
        <5>1. \A j \in 1..n : pieces[j].whole
          BY <3>1, <3>6, <4>1, <4>3
        <5> QED BY <3>1, <3>2, <3>4, <4>3, <5>1
      <4> QED BY <3>1, <4>2, <4>3
    <3>7. (\A i \in 1..(n + 1) : pieces'[i].whole) => got' = ideal'
      <4> SUFFICES ASSUME \A i \in 1..(n + 1) : pieces'[i].whole PROVE got' = ideal'
        OBVIOUS
      <4>1. p.whole /\ \A i \in 1..n : pieces[i].whole
        <5>1. n + 1 \in 1..(n + 1) /\ \A i \in 1..n : i \in 1..(n + 1)
          BY <3>1
        <5> QED BY <3>1, <5>1
      <4>2. got' = got + Size
        BY <3>1, <3>2, <4>1
      <4> QED BY <3>3, <3>4, <4>1, <4>2
    <3> QED BY <3>1, <3>6, <3>7 DEF PlaceInv, BytesInPlace
  <2>3. CASE BeyondVolume \/ RangeOverflows \/ Finish
    <3>1. reading' # "on" /\ pieces' = pieces
      BY <2>3 DEF BeyondVolume, RangeOverflows, Finish
    <3> QED BY <3>1 DEF PlaceInv, BytesInPlace
  <2>4. CASE AskTree
    BY <2>0, <2>4, TreeSteps DEF PlaceInv, BytesInPlace
  <2>5. CASE UNCHANGED vars
    BY <2>0, <2>5 DEF vars, PlaceInv, BytesInPlace
  <2> QED BY <2>1, <2>2, <2>3, <2>4, <2>5 DEF Next
<1>3. PlaceInv => BytesInPlace
  BY DEF PlaceInv
<1> QED BY <1>1, <1>2, <1>3, TypeCorrect, PTL DEF Spec

------------------------------------------------------------------------------
\* Rounding up to blocks.
LEMMA BlocksNeeded ==
    ASSUME NEW a \in Nat, NEW b \in Nat, b >= 1, NEW m \in Nat
    PROVE  (a + b - 1) \div b <= m <=> a <= m * b
<1> DEFINE x == a + b - 1
           q == x \div b
<1>1. x \in Nat
  OBVIOUS
<1>2. q \in Nat /\ b * q <= x /\ x < b * q + b
  <2>1. \A y, z \in Nat : z >= 1 => y \div z \in Nat /\ z * (y \div z) <= y
                                  /\ y < z * (y \div z) + z
    BY Z3
  <2> HIDE DEF x
  <2> QED BY <1>1, <2>1
<1>3. ASSUME q <= m PROVE a <= m * b
  <2>1. \A u, v, w \in Nat : u <= v => w * u <= v * w
    OBVIOUS
  <2>2. b * q <= m * b
    BY <1>2, <1>3, <2>1
  <2>3. b * q \in Nat /\ m * b \in Nat
    BY <1>2
  <2> HIDE DEF q
  <2> QED BY <1>2, <2>2, <2>3
<1>4. ASSUME a <= m * b PROVE q <= m
  <2> SUFFICES ASSUME m + 1 <= q PROVE FALSE
    BY <1>2
  <2>1. \A u, v, w \in Nat : u + 1 <= v => v * w >= u * w + w /\ v * w = w * v
    OBVIOUS
  <2>2. b * q >= m * b + b
    BY <1>2, <2>1
  <2>3. b * q \in Nat /\ m * b \in Nat
    BY <1>2
  <2> HIDE DEF q
  <2> QED BY <1>2, <1>4, <2>2, <2>3
<1> QED BY <1>3, <1>4

\* In a sane fork nothing stops the reader but the logical size, and the blocks counted
\* are, below saturation, those the extents hold.
BlocksInv ==
    /\ inline_blocks * vol.block_size <= ideal
    /\ inline_blocks < U32Max => ideal = inline_blocks * vol.block_size

\* The result is computed when all slots are passed and, without a free one, the tree.
OverLast ==
    /\ reading = "over" => k = Slots /\ (extents_full => asked /\ passed = Len(tree))
    /\ asked => extents_full /\ k = Slots

SaneInv ==
    Sane => /\ reading \notin {"stopped", "failed"}
            /\ reading = "on" => got = ideal \/ (Wanted <= got /\ got <= ideal)

LEMMA BlocksCounted ==
    ASSUME TypeOK, BlocksInv, [Next]_vars PROVE BlocksInv'
<1>1. CASE CountSlot
  <2> DEFINE b == vol.block_size
             c == E.count
             i == inline_blocks
  <2>1. b \in Nat /\ c \in Nat /\ i \in Nat /\ U32Max \in Nat /\ i <= U32Max /\ ideal \in Nat
    BY <1>1, SlotQuantities, Quantities, ForkAssumption DEF TypeOK, CountSlot
  <2>2. ideal' = ideal + c * b /\ vol' = vol
    BY <1>1, Counted DEF Size
  <2>3. inline_blocks' = IF i + c < U32Max THEN i + c ELSE U32Max
    BY <1>1 DEF CountSlot, AtMost
  <2>4. i * b <= ideal /\ (i < U32Max => ideal = i * b)
    BY DEF BlocksInv
  <2> HIDE DEF b, c, i
  <2>5. (i + c) * b = i * b + c * b /\ i * b \in Nat /\ c * b \in Nat
    BY <2>1
  <2>6. CASE i + c < U32Max
    <3>1. inline_blocks' = i + c /\ i < U32Max
      BY <2>1, <2>3, <2>6
    <3>2. inline_blocks' * b = ideal'
      BY <2>1, <2>2, <2>4, <2>5, <3>1
    <3>3. ideal' \in Nat
      BY <2>1, <2>2, <2>5
    <3> QED BY <2>2, <3>2, <3>3 DEF BlocksInv, b
  <2>7. CASE ~(i + c < U32Max)
    <3>1. inline_blocks' = U32Max
      BY <2>3, <2>7
    <3>2. U32Max * b <= (i + c) * b
      <4>1. \A u, v, w \in Nat : u <= v => u * w <= v * w
        OBVIOUS
      <4> QED BY <2>1, <2>7, <4>1
    <3>3. U32Max * b <= ideal'
      <4>1. U32Max * b \in Nat
        BY <2>1
      <4> QED BY <2>1, <2>2, <2>4, <2>5, <3>2, <4>1
    <3>4. ~(inline_blocks' < U32Max)
      BY <2>1, <3>1
    <3> QED BY <2>2, <3>1, <3>3, <3>4 DEF BlocksInv, b
  <2> QED BY <2>6, <2>7
<1>2. CASE Finish \/ AskTree \/ UNCHANGED vars
  <2>1. UNCHANGED <<vol, inline_blocks, ideal>>
    BY <1>2, TreeSteps DEF Finish, vars
  <2> QED BY <2>1 DEF BlocksInv
<1> QED BY <1>1, <1>2 DEF Next, PassSlot, ReadExtent, BeyondVolume, RangeOverflows

\* In a sane fork the extent at hand lies in the volume, if it has blocks.
LEMMA SaneExtent ==
    ASSUME TypeOK, Sane, k < Slots, E.count # 0
    PROVE  Begin + Size <= vol.len /\ RangeFits /\ Begin < vol.len
<1> DEFINE s == E.start
           c == E.count
           b == vol.block_size
<1>1. k + 1 \in 1..Slots /\ s \in Nat /\ c \in Nat
  BY SlotQuantities
<1>2. b \in Nat /\ b >= 1 /\ vol.len \in Nat /\ vol.len <= UsizeMax /\ UsizeMax \in Nat
  BY Quantities
<1>3. (s + c) * b <= vol.len
  BY <1>1 DEF Sane, E
<1>4. Begin = s * b /\ Size = c * b
  BY DEF Begin, Size
<1>5. c # 0
  OBVIOUS
<1> HIDE DEF s, c, b
<1>6. (s + c) * b = s * b + c * b /\ s * b \in Nat /\ c * b \in Nat
  BY <1>1, <1>2
<1>7. c * b >= 1
  <2>1. \A u, v \in Nat : u >= 1 /\ v >= 1 => u * v >= 1
    OBVIOUS
  <2> QED BY <1>1, <1>2, <1>5, <2>1
<1> QED BY <1>1, <1>2, <1>3, <1>4, <1>6, <1>7 DEF RangeFits

LEMMA SaneKept ==
    ASSUME TypeOK, SaneInv, [Next]_vars PROVE SaneInv'
<1>0. Sane' => Sane
  BY InputFixed DEF Sane
<1>1. Wanted' = Wanted
  BY InputFixed DEF Wanted
<1> SUFFICES ASSUME Sane
             PROVE  /\ reading' \notin {"stopped", "failed"}
                    /\ reading' = "on" => got' = ideal' \/ (Wanted <= got' /\ got' <= ideal')
  BY <1>0, <1>1 DEF SaneInv
<1>2. /\ reading \notin {"stopped", "failed"}
      /\ reading = "on" => got = ideal \/ (Wanted <= got /\ got <= ideal)
  BY DEF SaneInv
<1>3. got \in Nat /\ ideal \in Nat /\ Wanted \in Nat
  BY Quantities DEF TypeOK
<1>4. CASE PassSlot
  <2>1. CountSlot /\ ~Reads /\ UNCHANGED <<reading, got>> /\ k < Slots
    BY <1>4 DEF PassSlot, CountSlot
  <2>2. ideal' = ideal + Size /\ Size \in Nat
    BY <2>1, Counted, SlotQuantities
  <2>3. reading = "on" /\ got < Wanted => E.count = 0
    BY <2>1 DEF Reads
  <2>4. E.count = 0 => Size = 0
    BY Quantities DEF Size
  <2> QED BY <1>2, <1>3, <2>1, <2>2, <2>3, <2>4
<1>5. CASE ReadExtent
  <2>1. CountSlot /\ k < Slots /\ E.count # 0 /\ reading = "on" /\ got < Wanted
        /\ got' = got + (End - Begin) /\ reading' = reading
    BY <1>5 DEF ReadExtent, CountSlot, Reads
  <2>2. Begin + Size <= vol.len /\ Begin < vol.len
    BY <2>1, SaneExtent
  <2>3. End - Begin = Size
    BY <2>1, <2>2, SlotQuantities
  <2>4. ideal' = ideal + Size
    BY <2>1, Counted
  <2> QED BY <1>2, <1>3, <2>1, <2>3, <2>4
<1>6. CASE BeyondVolume \/ RangeOverflows
  <2>1. k < Slots /\ E.count # 0 /\ (Begin >= vol.len \/ ~RangeFits)
    BY <1>6 DEF BeyondVolume, RangeOverflows, CountSlot, Reads
  <2>2. Begin < vol.len /\ RangeFits
    BY <2>1, SaneExtent
  <2>3. Begin \in Nat /\ vol.len \in Nat
    BY <2>1, SlotQuantities, Quantities
  <2> QED BY <2>1, <2>2, <2>3
<1>7. CASE Finish
  BY <1>7 DEF Finish
<1>8. CASE AskTree \/ UNCHANGED vars
  BY <1>1, <1>2, <1>8, TreeSteps DEF vars
<1> QED BY <1>4, <1>5, <1>6, <1>7, <1>8 DEF Next

------------------------------------------------------------------------------
\* The reference definition of the overflow tree's blocks, unfolded.
LEMMA SumsUnfold ==
    ASSUME NEW f \in [Nat -> Nat]
    PROVE  /\ Sums(f) \in [Nat -> Nat]
           /\ Sums(f)[0] = 0
           /\ \A n \in Nat : Sums(f)[n + 1] = Sums(f)[n] + f[n + 1]
<1> DEFINE F(g) == [n \in Nat |-> IF n = 0 THEN 0 ELSE g[n - 1] + f[n]]
           step == [p \in Nat \X Nat |-> p[1] + f[p[2]]]
<1>1. step \in [Nat \X Nat -> Nat]
  OBVIOUS
<1>2. 0 \in Nat
  OBVIOUS
<1>3. PICK g \in [Nat -> Nat] : Iterates(g, 0, step)
  <2> HIDE DEF step
  <2> QED BY <1>1, <1>2, RecursionDefines
<1>4. g = F(g)
  <2>1. ASSUME NEW n \in Nat, n # 0 PROVE g[n] = g[n - 1] + f[n]
    <3>1. n - 1 \in Nat /\ (n - 1) + 1 = n
      BY <2>1
    <3>2. g[n] = step[<<g[n - 1], n>>]
      BY <1>3, <3>1 DEF Iterates
    <3> QED BY <3>1, <3>2
  <2> QED BY <1>3, <2>1 DEF Iterates
<1>5. Sums(f) = F(Sums(f))
  BY <1>4 DEF Sums
<1> DEFINE s == Sums(f)
           A == {n \in Nat : s[n] \in Nat}
<1>6. s[0] = 0
  <2> HIDE DEF s
  <2>1. s = F(s)
    BY <1>5 DEF s
  <2> QED BY <2>1
<1>7. \A n \in Nat : s[n + 1] = s[n] + f[n + 1]
  <2> HIDE DEF s
  <2>1. s = F(s)
    BY <1>5 DEF s
  <2> SUFFICES ASSUME NEW n \in Nat PROVE s[n + 1] = s[n] + f[n + 1]
    OBVIOUS
  <2>2. n + 1 \in Nat /\ n + 1 # 0 /\ (n + 1) - 1 = n
    OBVIOUS
  <2>3. s[n + 1] = F(s)[n + 1]
    BY <2>1
  <2> QED BY <2>2, <2>3
<1>8. s \in [Nat -> Nat]
  <2> HIDE DEF s
  <2>1. 0 \in A
    BY <1>6
  <2>2. ASSUME NEW n \in Nat, n \in A PROVE n + 1 \in A
    <3>1. f[n + 1] \in Nat
      OBVIOUS
    <3> QED BY <1>7, <2>2, <3>1
  <2>3. Nat \subseteq A
    <3> HIDE DEF A
    <3> QED BY <2>1, <2>2, NatSetInduction
  <2>4. s = F(s)
    BY <1>5 DEF s
  <2> QED BY <2>3, <2>4
<1> QED BY <1>6, <1>7, <1>8

\* Summing zeros changes nothing.
LEMMA SumsStay ==
    ASSUME NEW f \in [Nat -> Nat], NEW m \in Nat, \A i \in Nat : i > m => f[i] = 0
    PROVE  \A n \in Nat : n >= m => Sums(f)[n] = Sums(f)[m]
<1> DEFINE s == Sums(f)
           A == {n \in Nat : n >= m => s[n] = s[m]}
<1>1. s \in [Nat -> Nat] /\ s[0] = 0 /\ \A n \in Nat : s[n + 1] = s[n] + f[n + 1]
  BY SumsUnfold
<1> HIDE DEF s
<1>2. 0 \in A
  OBVIOUS
<1>3. ASSUME NEW n \in Nat, n \in A PROVE n + 1 \in A
  <2>1. CASE n >= m
    <3>1. f[n + 1] = 0 /\ s[n] = s[m]
      BY <1>3, <2>1
    <3> QED BY <1>1, <3>1
  <2>2. CASE ~(n >= m)
    BY <2>2
  <2> QED BY <2>1, <2>2
<1>4. Nat \subseteq A
  <2> HIDE DEF A
  <2> QED BY <1>2, <1>3, NatSetInduction
<1> QED BY <1>4 DEF s

LEMMA PairBlocksType ==
    ASSUME NEW r \in OverflowRecord
    PROVE  /\ PairBlocks(r) \in [Nat -> Nat]
           /\ Sums(PairBlocks(r)) \in [Nat -> Nat]
           /\ RecordBlocks(r) \in Nat
<1>1. \A p \in 1..Slots : r.counts[p] \in Nat
  BY ForkAssumption DEF OverflowRecord
<1>2. PairBlocks(r) \in [Nat -> Nat]
  BY <1>1 DEF PairBlocks
<1> QED BY <1>2, SumsUnfold, ForkAssumption DEF RecordBlocks

LEMMA TreeBlocksType ==
    ASSUME NEW t \in Seq(OverflowRecord)
    PROVE  /\ TreeBlocks(t) \in [Nat -> Nat]
           /\ Sums(TreeBlocks(t)) \in [Nat -> Nat]
           /\ OverflowBlocks(t) \in Nat
<1>1. ASSUME NEW i \in 1..Len(t) PROVE RecordBlocks(t[i]) \in Nat
  <2>1. t[i] \in OverflowRecord
    OBVIOUS
  <2> QED BY <2>1, PairBlocksType
<1>2. TreeBlocks(t) \in [Nat -> Nat]
  BY <1>1 DEF TreeBlocks
<1>3. Len(t) \in Nat
  OBVIOUS
<1> QED BY <1>2, <1>3, SumsUnfold DEF OverflowBlocks

\* The blocks of the pairs passed.
BlocksPassed ==
    Sums(TreeBlocks(tree))[passed]
        + (IF passed < Len(tree) THEN Sums(PairBlocks(tree[passed + 1]))[pair] ELSE 0)

\* overflow_blocks' total is, up to saturation, that of the pairs passed.
OverflowInv ==
    /\ overflow = AtMost(BlocksPassed, U32Max)
    /\ passed = Len(tree) => pair = 0

LEMMA OverflowCounted ==
    ASSUME TypeOK, OverflowInv, [Next]_vars PROVE OverflowInv'
<1>0. /\ tree \in Seq(OverflowRecord) /\ Len(tree) \in Nat
      /\ passed \in Nat /\ passed <= Len(tree) /\ pair \in Nat /\ pair <= Slots /\ Slots \in Nat
      /\ U32Max \in Nat /\ overflow \in Nat
      /\ Sums(TreeBlocks(tree)) \in [Nat -> Nat]
  <2>1. tree \in Seq(OverflowRecord)
    BY DEF TypeOK
  <2>2. Sums(TreeBlocks(tree)) \in [Nat -> Nat]
    BY <2>1, TreeBlocksType
  <2>3. U32Max \in Nat /\ Slots \in Nat
    BY ForkAssumption
  <2>4. passed \in 0..Len(tree) /\ pair \in 0..Slots /\ overflow \in 0..U32Max /\ Len(tree) \in Nat
    BY <2>1 DEF TypeOK
  <2> QED BY <2>1, <2>2, <2>3, <2>4
<1>1. CASE CountPair
  <2> DEFINE r == tree[passed + 1]
             f == PairBlocks(r)
             b == Sums(TreeBlocks(tree))[passed]
  <2>1. r \in OverflowRecord /\ pair + 1 \in 1..Slots /\ passed < Len(tree)
        /\ Matches(r) /\ PairFits(r, pair + 1)
    <3>1. passed < Len(tree) /\ Matches(r) /\ PairFits(r, pair + 1) /\ pair < Slots
      BY <1>1, Zenon DEF CountPair, HasPair
    <3>2. passed + 1 \in 1..Len(tree)
      BY <1>0, <3>1
    <3>3. r \in OverflowRecord
      BY <1>0, <3>2
    <3>4. pair + 1 \in 1..Slots
      BY <1>0, <3>1
    <3> QED BY <3>1, <3>3, <3>4
  <2>2. /\ overflow' = AtMost(overflow + r.counts[pair + 1], U32Max)
        /\ pair' = pair + 1 /\ passed' = passed /\ tree' = tree
    BY <1>1 DEF CountPair
  <2>3. f \in [Nat -> Nat] /\ Sums(f) \in [Nat -> Nat]
    BY <2>1, PairBlocksType
  <2>4. f[pair + 1] = r.counts[pair + 1]
    BY <1>0, <2>1 DEF PairBlocks
  <2>5. Sums(f)[pair + 1] = Sums(f)[pair] + r.counts[pair + 1]
    <3> HIDE DEF f
    <3>1. Sums(f)[pair + 1] = Sums(f)[pair] + f[pair + 1]
      BY <1>0, <2>3, SumsUnfold
    <3> QED BY <2>4, <3>1
  <2>6. r.counts[pair + 1] \in Nat /\ Sums(f)[pair] \in Nat /\ b \in Nat
    <3>1. r.counts[pair + 1] \in 0..U32Max
      <4>1. r.counts \in [1..Slots -> 0..U32Max]
        <5> HIDE DEF r
        <5> QED BY <2>1 DEF OverflowRecord
      <4> QED BY <2>1, <4>1
    <3>2. Sums(f)[pair] \in Nat /\ b \in Nat
      BY <1>0, <2>3
    <3> DEFINE c == r.counts[pair + 1]
    <3>3. c \in Nat
      <4>1. c \in 0..U32Max
        BY <3>1
      <4> HIDE DEF c
      <4> QED BY <1>0, <4>1
    <3> QED BY <3>2, <3>3
  <2>7. BlocksPassed = b + Sums(f)[pair] /\ BlocksPassed' = b + Sums(f)[pair + 1]
    BY <2>1, <2>2 DEF BlocksPassed
  <2>8. overflow = AtMost(BlocksPassed, U32Max)
    BY DEF OverflowInv
  <2>9. overflow' = AtMost(BlocksPassed', U32Max)
    <3> DEFINE x == Sums(f)[pair]
               y == Sums(f)[pair + 1]
               c == r.counts[pair + 1]
    <3>1. /\ overflow = AtMost(b + x, U32Max) /\ overflow' = AtMost(overflow + c, U32Max)
          /\ y = x + c /\ b \in Nat /\ x \in Nat /\ c \in Nat /\ BlocksPassed' = b + y
      BY <2>2, <2>5, <2>6, <2>7, <2>8
    <3> HIDE DEF b, x, y, c
    <3> QED BY <1>0, <3>1 DEF AtMost
  <2>10. passed' # Len(tree')
    BY <1>0, <2>1, <2>2
  <2> QED BY <2>9, <2>10 DEF OverflowInv
<1>2. CASE LeaveRecord
  <2> DEFINE r == tree[passed + 1]
             f == PairBlocks(r)
             s == Sums(TreeBlocks(tree))
             n == passed + 1
  <2>1. passed < Len(tree) /\ ~HasPair(r) /\ r \in OverflowRecord
        /\ n \in 1..Len(tree) /\ n \in Nat
    <3>1. passed < Len(tree) /\ ~HasPair(r)
      BY <1>2, Zenon DEF LeaveRecord
    <3>2. n \in 1..Len(tree) /\ n \in Nat
      BY <1>0, <3>1
    <3>3. r \in OverflowRecord
      BY <1>0, <3>2
    <3> QED BY <3>1, <3>2, <3>3
  <2>2. overflow' = overflow /\ pair' = 0 /\ passed' = n /\ tree' = tree
    BY <1>2 DEF LeaveRecord
  <2>3. f \in [Nat -> Nat] /\ Sums(f) \in [Nat -> Nat]
    BY <2>1, PairBlocksType
  <2>4. \A p \in Nat : p > pair => f[p] = 0
    <3> SUFFICES ASSUME NEW p \in Nat, p > pair, p \in 1..Slots, Matches(r), PairFits(r, p)
                 PROVE  FALSE
      BY DEF PairBlocks
    <3>1. r.keyLen \in Nat /\ r.avail \in Nat
      BY <2>1 DEF OverflowRecord
    <3>2. pair < Slots /\ pair + 1 <= p
      BY <1>0
    <3>3. PairFits(r, pair + 1)
      <4>1. 2 + r.keyLen + 8 * p <= r.avail
        BY DEF PairFits
      <4>2. \A l, a, q \in Nat : q <= p /\ 2 + l + 8 * p <= a => 2 + l + 8 * q <= a
        OBVIOUS
      <4>3. pair + 1 \in Nat
        BY <1>0
      <4> QED BY <3>1, <3>2, <4>1, <4>2, <4>3 DEF PairFits
    <3> QED BY <2>1, <3>2, <3>3 DEF HasPair
  <2>5. Sums(f)[Slots] = Sums(f)[pair]
    BY <1>0, <2>3, <2>4, SumsStay
  <2>6. TreeBlocks(tree)[n] = Sums(f)[pair]
    BY <2>1, <2>5 DEF TreeBlocks, RecordBlocks
  <2>7. s[n] = s[passed] + TreeBlocks(tree)[n]
    BY <1>0, TreeBlocksType, SumsUnfold
  <2>8. BlocksPassed = s[passed] + Sums(f)[pair]
    BY <2>1 DEF BlocksPassed
  <2>9. BlocksPassed' = s[n]
    <3>1. CASE n < Len(tree)
      <4> DEFINE g == PairBlocks(tree[n + 1])
      <4>1. n + 1 \in 1..Len(tree)
        BY <1>0, <2>1, <3>1
      <4>2. tree[n + 1] \in OverflowRecord
        BY <1>0, <4>1
      <4>3. g \in [Nat -> Nat]
        BY <4>2, PairBlocksType
      <4>4. Sums(g)[0] = 0
        BY <4>3, SumsUnfold
      <4>5. BlocksPassed' = s[n] + Sums(g)[0]
        BY <2>2, <3>1 DEF BlocksPassed
      <4>6. s[n] \in Nat
        BY <1>0, <2>1
      <4> QED BY <4>4, <4>5, <4>6
    <3>2. CASE ~(n < Len(tree))
      <4>1. BlocksPassed' = s[n] + 0 /\ s[n] \in Nat
        BY <1>0, <2>1, <2>2, <3>2 DEF BlocksPassed
      <4> QED BY <4>1
    <3> QED BY <3>1, <3>2
  <2>10. BlocksPassed' = BlocksPassed
    BY <2>6, <2>7, <2>8, <2>9
  <2> QED BY <2>2, <2>10 DEF OverflowInv
<1>3. CASE AskOverflow
  <2>1. tree = <<>> /\ passed = 0 /\ pair = 0
    <3>1. tree = <<>> /\ Len(tree) = 0
      BY <1>3 DEF AskOverflow, TypeOK
    <3>2. passed = 0
      BY <1>0, <3>1
    <3> QED BY <3>1, <3>2 DEF OverflowInv
  <2>2. tree' \in Seq(OverflowRecord) /\ passed' = 0 /\ pair' = 0 /\ overflow' = overflow
    BY <1>3, <2>1, ForkAssumption DEF AskOverflow
  <2>3. Len(tree') \in Nat /\ Len(tree) = 0
    BY <2>1, <2>2
  <2>4. ASSUME NEW t \in Seq(OverflowRecord)
        PROVE  Sums(TreeBlocks(t))[0] + (IF 0 < Len(t) THEN Sums(PairBlocks(t[1]))[0] ELSE 0) = 0
    <3>1. Sums(TreeBlocks(t))[0] = 0
      BY TreeBlocksType, SumsUnfold
    <3>2. ASSUME 0 < Len(t) PROVE Sums(PairBlocks(t[1]))[0] = 0
      <4>1. t[1] \in OverflowRecord
        BY <3>2
      <4>2. PairBlocks(t[1]) \in [Nat -> Nat]
        BY <4>1, PairBlocksType
      <4> QED BY <4>2, SumsUnfold
    <3> QED BY <3>1, <3>2
  <2>5. BlocksPassed = 0
    BY <1>0, <2>1, <2>4 DEF BlocksPassed
  <2>6. BlocksPassed' = 0
    BY <2>2, <2>4 DEF BlocksPassed
  <2> QED BY <2>2, <2>3, <2>5, <2>6 DEF OverflowInv
<1>4. CASE UNCHANGED overflowVars
  BY <1>4 DEF OverflowInv, overflowVars, BlocksPassed
<1> QED BY <1>1, <1>2, <1>3, <1>4 DEF Next, PassSlot, ReadExtent, BeyondVolume, RangeOverflows,
                          CountSlot, AskTree, Finish, vars

\* When the reader's verdict is due, every pair of the tree is counted.
LEMMA AllCounted ==
    ASSUME TypeOK, OverflowInv, extents_full => passed = Len(tree), asked => extents_full
    PROVE  overflow = AtMost(OverflowBlocks(tree), U32Max)
<1>1. Len(tree) \in Nat /\ passed \in 0..Len(tree)
  BY DEF TypeOK
<1>2. passed = Len(tree)
  <2>1. CASE asked
    BY <2>1
  <2>2. CASE ~asked
    <3>1. tree = <<>> /\ Len(tree) = 0
      BY <2>2 DEF TypeOK
    <3> QED BY <1>1, <3>1
  <2> QED BY <2>1, <2>2
<1>3. OverflowBlocks(tree) \in Nat
  BY TreeBlocksType DEF TypeOK
<1>4. BlocksPassed = OverflowBlocks(tree)
  BY <1>1, <1>2, <1>3 DEF BlocksPassed, OverflowBlocks
<1> QED BY <1>4 DEF OverflowInv

\* The analyzer's verdict on a sane fork is what read_file's result says.
THEOREM MismatchMeansShort == Spec => []MismatchIffShortRead
<1>1. Init => BlocksInv /\ SaneInv /\ OverLast /\ OverflowInv /\ MismatchIffShortRead
  <2> SUFFICES ASSUME Init
               PROVE  BlocksInv /\ SaneInv /\ OverLast /\ OverflowInv /\ MismatchIffShortRead
    OBVIOUS
  <2>1. TypeOK
    BY InitTyped
  <2>2. vol.block_size \in Nat
    BY <2>1, Quantities
  <2>3. OverflowInv
    <3>1. tree = <<>> /\ tree \in Seq(OverflowRecord) /\ passed = 0 /\ pair = 0 /\ overflow = 0
          /\ Len(tree) = 0
      BY DEF Init
    <3>2. Sums(TreeBlocks(tree))[0] = 0
      BY <3>1, TreeBlocksType, SumsUnfold
    <3>3. BlocksPassed = 0
      BY <3>1, <3>2 DEF BlocksPassed
    <3> QED BY <3>1, <3>3, ForkAssumption DEF OverflowInv, AtMost
  <2> QED BY <2>2, <2>3 DEF Init, BlocksInv, SaneInv, OverLast, MismatchIffShortRead
<1>2. TypeOK /\ OverLast /\ [Next]_vars => OverLast'
  <2> SUFFICES ASSUME TypeOK, OverLast, [Next]_vars PROVE OverLast'
    OBVIOUS
  <2>1. CASE PassSlot \/ ReadExtent \/ BeyondVolume \/ RangeOverflows
    <3>1. k < Slots /\ reading' \in {reading, "stopped", "failed"} /\ asked' = asked
      BY <2>1 DEF PassSlot, ReadExtent, BeyondVolume, RangeOverflows, CountSlot, overflowVars
    <3>2. k # Slots
      BY <3>1, ForkAssumption DEF TypeOK
    <3> QED BY <3>1, <3>2 DEF OverLast
  <2>2. CASE Finish
    BY <2>2 DEF OverLast, Finish, overflowVars
  <2>3. CASE AskTree
    <3>1. UNCHANGED <<reading, k, extents_full>>
      BY <2>3, TreeSteps
    <3>2. reading # "over" /\ extents_full /\ k = Slots
      BY <2>3 DEF OverLast, AskTree, AskOverflow, CountPair, LeaveRecord
    <3> QED BY <3>1, <3>2 DEF OverLast
  <2>4. CASE UNCHANGED vars
    BY <2>4 DEF OverLast, vars, overflowVars
  <2> QED BY <2>1, <2>2, <2>3, <2>4 DEF Next
<1>3. TypeOK /\ BlocksInv /\ SaneInv /\ OverLast /\ OverflowInv /\ MismatchIffShortRead /\ [Next]_vars
        => (BlocksInv /\ SaneInv /\ OverflowInv /\ MismatchIffShortRead)'
  <2> SUFFICES ASSUME TypeOK, BlocksInv, SaneInv, OverLast, OverflowInv, MismatchIffShortRead,
                      [Next]_vars
               PROVE  MismatchIffShortRead'
    BY BlocksCounted, SaneKept, OverflowCounted
  <2>1. CASE Finish
    <3> SUFFICES ASSUME Sane
                 PROVE  mismatch' <=> result' + OverflowBlocks(tree) * vol.block_size < fork.logical
      BY <2>1 DEF Finish, MismatchIffShortRead, Sane, overflowVars
    <3> DEFINE b == vol.block_size
               i == inline_blocks
               a == fork.logical
               o == OverflowBlocks(tree)
               m == AtMost(i + AtMost(o, U32Max), U32Max)
               needed == (a + b - 1) \div b
    <3>1. /\ b \in Nat /\ b >= 1 /\ i \in Nat /\ i <= U32Max /\ U32Max \in Nat
          /\ a \in Nat /\ got \in Nat /\ ideal \in Nat /\ o \in Nat
          /\ Wanted = a
      BY Quantities, TreeBlocksType, ForkAssumption DEF TypeOK, Sane
    <3>2. reading = "on"
      BY <2>1 DEF SaneInv, Finish, TypeOK
    <3>3. got = ideal \/ (a <= got /\ got <= ideal)
      BY <3>1, <3>2 DEF SaneInv
    <3>4. result' = IF got < a THEN got ELSE a
      BY <2>1, <3>1, <3>2 DEF Finish, AtMost
    <3>5. Allocated = m
      <4>1. overflow = AtMost(o, U32Max)
        BY <2>1, AllCounted DEF Finish, OverLast
      <4> QED BY <4>1 DEF Allocated
    <3>6. mismatch' <=> m < (IF needed < U32Max THEN needed ELSE U32Max)
      BY <2>1, <3>5, Zenon DEF Finish, needed_blocks, AtMost
    <3>7. m = IF i + o < U32Max THEN i + o ELSE U32Max
      BY <3>1 DEF AtMost
    <3>8. m \in Nat
      BY <3>1, <3>7
    <3>9. needed <= m <=> a <= m * b
      BY <3>1, <3>8, BlocksNeeded
    <3>10. needed <= U32Max <=> a <= U32Max * b
      BY <3>1, BlocksNeeded
    <3>11. a <= U32Max * b
      BY DEF Sane
    <3>12. i * b <= ideal /\ (i < U32Max => ideal = i * b)
      BY DEF BlocksInv
    <3>13. needed \in Int
      BY <3>1
    <3> HIDE DEF a, b, i, o, m, needed
    <3>14. /\ i * b \in Nat /\ o * b \in Nat /\ m * b \in Nat /\ U32Max * b \in Nat
           /\ (i + o) * b = i * b + o * b
      BY <3>1, <3>8
    <3>15. mismatch' <=> m * b < a
      BY <3>1, <3>6, <3>8, <3>9, <3>10, <3>11, <3>13, <3>14
    <3>16. CASE i + o < U32Max
      <4>1. m * b = i * b + o * b /\ ideal = i * b
        BY <3>1, <3>7, <3>12, <3>14, <3>16
      <4> QED BY <3>1, <3>3, <3>4, <3>14, <3>15, <4>1 DEF a, b, o
    <3>17. CASE ~(i + o < U32Max)
      <4>1. m = U32Max
        BY <3>7, <3>17
      <4>2. ~mismatch'
        BY <3>1, <3>11, <3>14, <3>15, <4>1
      <4>3. U32Max * b <= (i + o) * b
        <5>1. \A u, v, w \in Nat : u <= v => u * w <= v * w
          OBVIOUS
        <5> QED BY <3>1, <3>17, <5>1
      <4>4. a <= ideal + o * b
        BY <3>1, <3>11, <3>12, <3>14, <4>3
      <4>5. a <= result' + o * b
        BY <3>1, <3>3, <3>4, <3>14, <4>4
      <4>6. result' \in Nat
        BY <3>1, <3>4
      <4> QED BY <3>1, <3>14, <4>2, <4>5, <4>6 DEF a, b, o
    <3> QED BY <3>16, <3>17
  <2>2. CASE PassSlot \/ ReadExtent \/ BeyondVolume \/ RangeOverflows
    <3>1. k < Slots /\ reading' \in {reading, "stopped", "failed"}
      BY <2>2 DEF PassSlot, ReadExtent, BeyondVolume, RangeOverflows, CountSlot
    <3>2. reading # "over"
      BY <3>1, ForkAssumption DEF OverLast, TypeOK
    <3> QED BY <3>1, <3>2 DEF MismatchIffShortRead
  <2>3. CASE AskTree
    <3>1. reading # "over"
      BY <2>3 DEF OverLast, AskTree, AskOverflow, CountPair, LeaveRecord
    <3>2. reading' = reading
      BY <2>3, TreeSteps
    <3> QED BY <3>1, <3>2 DEF MismatchIffShortRead
  <2>4. CASE UNCHANGED vars
    BY <2>4 DEF vars, overflowVars, MismatchIffShortRead, Sane
  <2> QED BY <2>1, <2>2, <2>3, <2>4 DEF Next
<1> QED BY <1>1, <1>2, <1>3, TypeCorrect, PTL DEF Spec
==============================================================================
