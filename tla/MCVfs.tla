-------------------------------- MODULE MCVfs --------------------------------
(***************************************************************************)
(* Instances of Vfs for TLC: attributes trees whose records are cut off    *)
(* wherever a parser cares, and clients on those whose records are whole;  *)
(* buffers of one and two bytes, offsets in a content, at its end, and     *)
(* beyond usize.                                                           *)
(*                                                                         *)
(* The decmpfs attribute "x" decodes by itself, "y" with a resource fork   *)
(* of two bytes.                                                           *)
(***************************************************************************)
EXTENDS Vfs

KeyLen == 12

\* A value of 2 bytes behind a name that fits in any slice that has a body.
AttrRecord(body, owner, start, name, rtype, content, readable) ==
    [avail |-> 2 + KeyLen + body, keyLen |-> KeyLen, owner |-> owner, start_block |-> start,
     nameLen |-> 0, name |-> name, rtype |-> rtype, size |-> 2, content |-> content,
     got |-> readable]

\* Body lengths one short of and at what recordType, the fixed part of an inline value, its
\* bytes and a fork need; 48 is the type of continuation records.
CutOff ==
    { AttrRecord(body, 1, start, "decmpfs", rtype, "x", 2) :
        start \in {0, 8},
        <<body, rtype>> \in ({3, 4, 15, 16, 17, 18} \X {ATTR_INLINE_DATA})
                            \cup ({4, 87, 88} \X {ATTR_FORK_DATA}) \cup {<<88, 48>>} }

\* A name that overruns the slice.
Overrunning == { [AttrRecord(88, 1, 0, "decmpfs", rtype, "x", 2) EXCEPT !.nameLen = 500] :
                    rtype \in {ATTR_INLINE_DATA, ATTR_FORK_DATA} }

Duplicates ==
    { AttrRecord(88, 1, start, name, ATTR_INLINE_DATA, content, 2) :
        start \in {0, 8}, name \in {"decmpfs", "other"}, content \in {"x", "y"} }
    \cup { AttrRecord(88, 1, start, name, ATTR_FORK_DATA, "y", readable) :
            start \in {0, 8}, name \in {"decmpfs", "other"}, readable \in {-1, 1, 2} }

OtherFiles == { AttrRecord(88, 2, 0, "decmpfs", rtype, "x", 2) :
                    rtype \in {ATTR_INLINE_DATA, ATTR_FORK_DATA} }


------------------------------------------------------------------------------
\* Attributes in full, of one name and of two, of lengths that tell them apart, one in a
\* fork that can be read in part only, one that continues a fork.
WholeRecords ==
    { AttrRecord(88, 1, 0, "decmpfs", ATTR_INLINE_DATA, content, 2) : content \in {"x", "y"} }
    \cup { [AttrRecord(88, 1, 0, "other", ATTR_INLINE_DATA, content, 2) EXCEPT
              !.size = IF content = "x" THEN 3 ELSE 1] : content \in {"x", "y"} }
    \cup { AttrRecord(88, 1, start, name, ATTR_FORK_DATA, "y", 1) :
            start \in {0, 8}, name \in {"decmpfs", "other"} }

AllRecords == CutOff \cup Overrunning \cup Duplicates \cup OtherFiles \cup WholeRecords

ForkOf(logical, readable) == [logical |-> logical, got |-> readable]
NodeOf(size, data, resource) ==
    [size |-> Some(size), forks |-> Some([data |-> data, resource |-> resource])]

\* A folder or nothing; a file read in full, in part and not at all, with a resource fork
\* that is empty, whole, and not readable.
MCNodes ==
    { [size |-> None, forks |-> None], [size |-> Some(0), forks |-> None],
      NodeOf(3, ForkOf(3, 3), ForkOf(0, 2)), NodeOf(4, ForkOf(4, 2), ForkOf(2, 2)),
      NodeOf(2, ForkOf(2, -1), ForkOf(2, -1)), NodeOf(0, ForkOf(0, 0), ForkOf(2, 2)) }

MCDecodes == {<<"x", None>>, <<"x", Some(2)>>, <<"y", Some(2)>>}
MCDeclared == [c \in Contents |-> IF c = "x" THEN 3 ELSE 2]
==============================================================================
