----------------------------- MODULE Vfs_proofs -----------------------------
(***************************************************************************)
(* First the attributes alone (Xattrs), for every set of names, contents   *)
(* and records and any number of records: list, read and the search for    *)
(* the decmpfs attribute agree.  Then Vfs, for every attributes tree,      *)
(* node, width, buffer and offset: what a client reads in pieces is the    *)
(* stream ByteStream promises.  The results about the attributes are used  *)
(* as they stand there, since VfsSpec implements Spec.                     *)
(***************************************************************************)
EXTENDS Vfs, TLAPS

\* What each parser can return.
LEMMA ParsersTyped ==
    ASSUME NEW r \in Record, NEW c \in CNIDs, NEW n \in Names
    PROVE  /\ parse_attr_record(r, c) \subseteq Value
           /\ Read(r, c, n) \subseteq Value
           /\ attr_inline_value(r, c, n) \subseteq Value
<1>1. /\ r.size \in Nat /\ r.content \in Contents
      /\ r.got # -1 => r.got \in Nat
  BY DEF Record
<1>2. /\ Inline(r) \in Value
      /\ [inline |-> FALSE, size |-> r.size, content |-> r.content] \in Value
      /\ r.got # -1 => [inline |-> FALSE, size |-> r.got, content |-> r.content] \in Value
  BY <1>1 DEF Value, Inline
<1>3. inline_value(r) \subseteq Value
  BY <1>2, Zenon DEF inline_value, Some, None
<1>4. parse_attr_record(r, c) \subseteq Value
  <2>1. CASE ~attr_key(r, c) \/ r.start_block # 0
    BY <2>1 DEF parse_attr_record, None
  <2>2. CASE attr_key(r, c) /\ r.start_block = 0
    BY <1>2, <1>3, <2>2 DEF parse_attr_record, None, Some, ATTR_INLINE_DATA, ATTR_FORK_DATA
  <2> QED BY <2>1, <2>2
<1>5. Read(r, c, n) \subseteq Value
  <2>1. CASE ~attr_key(r, c) \/ r.name # n
    BY <2>1 DEF Read, None
  <2>2. CASE attr_key(r, c) /\ r.name = n
    BY <1>2, <1>3, <2>2 DEF Read, None, Some, ATTR_INLINE_DATA, ATTR_FORK_DATA
  <2> QED BY <2>1, <2>2
<1>6. attr_inline_value(r, c, n) \subseteq Value
  BY <1>2, Zenon DEF attr_inline_value, Some, None
<1> QED BY <1>4, <1>5, <1>6

\* A record either leaves a list alone or appends its name with the value parsed.
LEMMA PushedAppends ==
    ASSUME NEW r \in Record, NEW c \in CNIDs, NEW list \in Seq(HfsXattr)
    PROVE  /\ parse_attr_record(r, c) = None => Pushed(list, r, c) = list
           /\ parse_attr_record(r, c) # None =>
                \E v \in Value :
                    /\ parse_attr_record(r, c) = Some(v)
                    /\ Pushed(list, r, c) = Append(list, [name |-> r.name, value |-> v])
           /\ Pushed(list, r, c) \in Seq(HfsXattr)
<1>1. r.name \in Names
  BY DEF Record
<1>2. CASE parse_attr_record(r, c) = None
  BY <1>2 DEF Pushed
<1>3. CASE parse_attr_record(r, c) # None
  <2>1. parse_attr_record(r, c) \subseteq Value
    BY <1>1, ParsersTyped
  <2>2. PICK v : parse_attr_record(r, c) = Some(v)
    <3>1. CASE r.rtype = ATTR_INLINE_DATA
      <4>1. parse_attr_record(r, c) = inline_value(r)
        BY <1>3, <3>1 DEF parse_attr_record, ATTR_INLINE_DATA, ATTR_FORK_DATA
      <4> QED BY <1>3, <4>1, Zenon DEF inline_value
    <3>2. CASE r.rtype # ATTR_INLINE_DATA
      BY <1>3, <3>2 DEF parse_attr_record, ATTR_INLINE_DATA, ATTR_FORK_DATA
    <3> QED BY <3>1, <3>2
  <2>3. v \in Value
    BY <2>1, <2>2 DEF Some
  <2>4. (CHOOSE w \in parse_attr_record(r, c) : TRUE) = v
    BY <2>2 DEF Some
  <2>5. Pushed(list, r, c) = Append(list, [name |-> r.name, value |-> v])
    BY <1>3, <2>4 DEF Pushed
  <2>6. [name |-> r.name, value |-> v] \in HfsXattr
    BY <1>1, <2>3 DEF HfsXattr
  <2> QED BY <1>3, <2>2, <2>3, <2>5, <2>6
<1> QED BY <1>2, <1>3

\* The type invariant is inductive as it stands.
THEOREM TypeCorrect == Spec => []TypeOK
<1>1. Init => TypeOK
  BY DEF Init, TypeOK, None
<1>2. TypeOK /\ [Next]_vars => TypeOK'
  <2> SUFFICES ASSUME TypeOK, [Next]_vars PROVE TypeOK'
    OBVIOUS
  <2>1. ASSUME NEW r \in Records, Deliver(r) PROVE TypeOK'
    <3>1. r \in Record
      BY AttributesAssumption
    <3>2. phase' \in {"walk", "done"} /\ records' \in Seq(Record)
      BY <2>1, <3>1 DEF Deliver, TypeOK
    <3>3. listed' \in [CNIDs -> Seq(HfsXattr)]
      <4>1. \A c \in CNIDs : Pushed(listed[c], r, c) \in Seq(HfsXattr)
        BY <3>1, PushedAppends DEF TypeOK
      <4> QED BY <2>1, <4>1 DEF Deliver
    <3>4. found' \in [CNIDs -> [Names -> SUBSET Value]]
      <4>1. \A c \in CNIDs, n \in Names : OrElse(found[c][n], Read(r, c, n)) \in SUBSET Value
        BY <3>1, ParsersTyped DEF TypeOK, OrElse
      <4> QED BY <2>1, <4>1, Zenon DEF Deliver
    <3>5. decmpfs' \in [CNIDs -> SUBSET Value]
      <4>1. \A c \in CNIDs :
              OrElse(decmpfs[c], attr_inline_value(r, c, DECMPFS_XATTR_NAME)) \in SUBSET Value
        BY <3>1, AttributesAssumption, ParsersTyped DEF TypeOK, OrElse
      <4> QED BY <2>1, <4>1 DEF Deliver
    <3> QED BY <3>2, <3>3, <3>4, <3>5 DEF TypeOK
  <2>2. CASE EndOfAttributes
    BY <2>2 DEF EndOfAttributes, TypeOK
  <2>3. CASE UNCHANGED vars
    BY <2>3 DEF vars, TypeOK
  <2> QED BY <2>1, <2>2, <2>3 DEF Next
<1> QED BY <1>1, <1>2, PTL DEF Spec

------------------------------------------------------------------------------
\* What a delivered record changes, for one CNID and one name.
LEMMA Delivered ==
    ASSUME TypeOK, NEW r \in Records, Deliver(r), NEW c \in CNIDs, NEW n \in Names
    PROVE  /\ r \in Record
           /\ found'[c][n] = OrElse(found[c][n], Read(r, c, n))
           /\ decmpfs'[c] = OrElse(decmpfs[c], attr_inline_value(r, c, DECMPFS_XATTR_NAME))
           /\ listed'[c] = Pushed(listed[c], r, c)
           /\ Len(records) + 1 \in DOMAIN records'
           /\ records'[Len(records) + 1] = r
           /\ \A i \in DOMAIN records : i \in DOMAIN records' /\ records'[i] = records[i]
<1>1. r \in Record
  BY AttributesAssumption
<1>2. records \in Seq(Record) /\ records' = Append(records, r)
  BY DEF Deliver, TypeOK
<1>3. /\ Len(records) + 1 \in DOMAIN records'
      /\ records'[Len(records) + 1] = r
      /\ \A i \in DOMAIN records : i \in DOMAIN records' /\ records'[i] = records[i]
  BY <1>1, <1>2
<1>4. /\ decmpfs'[c] = OrElse(decmpfs[c], attr_inline_value(r, c, DECMPFS_XATTR_NAME))
      /\ listed'[c] = Pushed(listed[c], r, c)
  BY DEF Deliver
<1>5. found'[c][n] = OrElse(found[c][n], Read(r, c, n))
  BY Zenon DEF Deliver
<1> QED BY <1>1, <1>3, <1>4, <1>5

\* The holders of a name stay so, and the new record is one if its key says so.
LEMMA HoldersGrow ==
    ASSUME TypeOK, NEW r \in Records, Deliver(r), NEW c \in CNIDs, NEW n \in Names
    PROVE  /\ \A i \in Holders(c, n) : i \in Holders(c, n)' /\ records'[i] = records[i]
           /\ attr_key(r, c) /\ r.name = n =>
                Len(records) + 1 \in Holders(c, n)' /\ records'[Len(records) + 1] = r
<1>1. \A i \in Holders(c, n) : i \in Holders(c, n)' /\ records'[i] = records[i]
  BY Delivered DEF Holders
<1>2. ASSUME attr_key(r, c), r.name = n
      PROVE  Len(records) + 1 \in Holders(c, n)' /\ records'[Len(records) + 1] = r
  BY <1>2, Delivered DEF Holders
<1> QED BY <1>1, <1>2

\* decmpfs_xattr's parser against read_xattr's, on one record: it returns nothing the other
\* would not, and the same on everything but a fork.
LEMMA OneRecordAgrees ==
    ASSUME NEW r \in Record, NEW c \in CNIDs, NEW n \in Names
    PROVE  /\ attr_inline_value(r, c, n) # None => Read(r, c, n) # None
           /\ Read(r, c, n) # None => attr_key(r, c) /\ r.name = n
           /\ r.rtype # ATTR_FORK_DATA => attr_inline_value(r, c, n) = Read(r, c, n)
           /\ ~(attr_key(r, c) /\ r.name = n) => attr_inline_value(r, c, n) = None
<1>1. r.keyLen \in Nat /\ r.avail \in Nat
  BY DEF Record
<1>2. Body(r, 16) => Body(r, 4)
  BY <1>1 DEF Body
<1>3. ATTR_INLINE_DATA # ATTR_FORK_DATA
  BY DEF ATTR_INLINE_DATA, ATTR_FORK_DATA
<1>4. CASE attr_key(r, c) /\ r.name = n
  <2>1. CASE r.rtype = ATTR_INLINE_DATA
    <3>1. Read(r, c, n) = inline_value(r)
      BY <1>3, <1>4, <2>1 DEF Read
    <3>2. attr_inline_value(r, c, n) = inline_value(r)
      BY <1>4, <2>1, Zenon DEF attr_inline_value, inline_value, attr_key
    <3> QED BY <1>3, <1>4, <2>1, <3>1, <3>2
  <2>2. CASE r.rtype = ATTR_FORK_DATA
    <3>1. attr_inline_value(r, c, n) = None
      BY <1>3, <2>2 DEF attr_inline_value
    <3> QED BY <1>4, <2>2, <3>1
  <2>3. CASE r.rtype # ATTR_INLINE_DATA /\ r.rtype # ATTR_FORK_DATA
    <3>1. attr_inline_value(r, c, n) = None
      BY <2>3 DEF attr_inline_value
    <3>2. Read(r, c, n) = None
      BY <1>4, <2>3 DEF Read
    <3> QED BY <1>4, <3>1, <3>2
  <2> QED BY <2>1, <2>2, <2>3
<1>5. CASE ~(attr_key(r, c) /\ r.name = n)
  <2>1. Read(r, c, n) = None
    BY <1>5 DEF Read
  <2>2. attr_inline_value(r, c, n) = None
    BY <1>2, <1>5 DEF attr_inline_value, attr_key
  <2> QED BY <1>5, <2>1, <2>2
<1> QED BY <1>4, <1>5

\* The search read_file makes for the decmpfs attribute and read_xattr never disagree on
\* attributes stored inline: the statement is inductive by itself, record by record.
THEOREM DecmpfsFoundByBoth == Spec => []DecmpfsAgrees
<1>1. Init => DecmpfsAgrees
  BY AttributesAssumption DEF Init, DecmpfsAgrees
<1>2. TypeOK /\ DecmpfsAgrees /\ [Next]_vars => DecmpfsAgrees'
  <2> SUFFICES ASSUME TypeOK, DecmpfsAgrees, [Next]_vars PROVE DecmpfsAgrees'
    OBVIOUS
  <2>1. ASSUME NEW r \in Records, Deliver(r) PROVE DecmpfsAgrees'
    <3> SUFFICES ASSUME NEW c \in CNIDs
                 PROVE  /\ decmpfs'[c] # None => found'[c][DECMPFS_XATTR_NAME] # None
                        /\ (\A i \in Holders(c, DECMPFS_XATTR_NAME)' :
                                records'[i].rtype # ATTR_FORK_DATA)
                           => decmpfs'[c] = found'[c][DECMPFS_XATTR_NAME]
      BY DEF DecmpfsAgrees
    <3> DEFINE n == DECMPFS_XATTR_NAME
               new == attr_inline_value(r, c, n)
               read == Read(r, c, n)
    <3>1. n \in Names
      BY AttributesAssumption
    <3>2. r \in Record /\ decmpfs'[c] = OrElse(decmpfs[c], new) /\ found'[c][n] = OrElse(found[c][n], read)
      BY <2>1, <3>1, Delivered
    <3>3. /\ new # None => read # None
          /\ r.rtype # ATTR_FORK_DATA => new = read
          /\ ~(attr_key(r, c) /\ r.name = n) => new = None /\ read = None
      BY <3>1, <3>2, OneRecordAgrees
    <3>4. decmpfs'[c] # None => found'[c][n] # None
      <4>1. decmpfs[c] # None => found[c][n] # None
        BY DEF DecmpfsAgrees
      <4> QED BY <3>2, <3>3, <4>1 DEF OrElse
    <3>5. ASSUME \A i \in Holders(c, n)' : records'[i].rtype # ATTR_FORK_DATA
          PROVE  decmpfs'[c] = found'[c][n]
      <4>1. \A i \in Holders(c, n) : records[i].rtype # ATTR_FORK_DATA
        BY <2>1, <3>1, <3>5, HoldersGrow
      <4>2. decmpfs[c] = found[c][n]
        BY <4>1 DEF DecmpfsAgrees
      <4>3. new = read
        <5>1. CASE attr_key(r, c) /\ r.name = n
          <6>1. r.rtype # ATTR_FORK_DATA
            BY <2>1, <3>1, <3>5, <5>1, HoldersGrow
          <6> QED BY <3>3, <6>1
        <5>2. CASE ~(attr_key(r, c) /\ r.name = n)
          BY <3>3, <5>2
        <5> QED BY <5>1, <5>2
      <4> QED BY <3>2, <4>2, <4>3
    <3> QED BY <3>4, <3>5
  <2>2. CASE EndOfAttributes
    BY <2>2 DEF EndOfAttributes, DecmpfsAgrees, Holders
  <2>3. CASE UNCHANGED vars
    BY <2>3 DEF vars, DecmpfsAgrees, Holders
  <2> QED BY <2>1, <2>2, <2>3 DEF Next
<1> QED BY <1>1, <1>2, TypeCorrect, PTL DEF Spec

------------------------------------------------------------------------------
\* list_xattrs' parser against read_xattr's, on one record: they differ on records that
\* continue a fork, and on forks that cannot be read.
LEMMA ListAndReadOfOneRecord ==
    ASSUME NEW r \in Record, NEW c \in CNIDs, NEW n \in Names
    PROVE  /\ \A v \in Value : parse_attr_record(r, c) = Some(v) =>
                /\ attr_key(r, c) /\ r.start_block = 0
                /\ v.inline => Read(r, c, r.name) = Some(v)
           /\ \A v \in Read(r, c, n) : r.start_block = 0 =>
                \E x \in Value : /\ parse_attr_record(r, c) = Some(x)
                                 /\ x.inline = v.inline /\ x.content = v.content
<1>1. /\ r.size \in Nat /\ r.content \in Contents /\ r.name \in Names
  BY DEF Record
<1>2. ATTR_INLINE_DATA # ATTR_FORK_DATA
  BY DEF ATTR_INLINE_DATA, ATTR_FORK_DATA
<1> DEFINE fork == [inline |-> FALSE, size |-> r.size, content |-> r.content]
<1>3. /\ Inline(r) \in Value /\ fork \in Value
      /\ Inline(r).inline = TRUE /\ Inline(r).content = r.content
      /\ fork.inline = FALSE /\ fork.content = r.content
  BY <1>1 DEF Value, Inline
<1>4. \A v : v \in inline_value(r) => v = Inline(r) /\ inline_value(r) = Some(Inline(r))
  BY Zenon DEF inline_value, Some, None
<1>5. ASSUME NEW v \in Value, parse_attr_record(r, c) = Some(v)
      PROVE  /\ attr_key(r, c) /\ r.start_block = 0
             /\ v.inline => Read(r, c, r.name) = Some(v)
  <2>1. v \in parse_attr_record(r, c)
    BY <1>5 DEF Some
  <2>2. attr_key(r, c) /\ r.start_block = 0
    BY <2>1 DEF parse_attr_record, None
  <2>3. ASSUME v.inline PROVE Read(r, c, r.name) = Some(v)
    <3>1. CASE r.rtype = ATTR_INLINE_DATA
      <4>1. parse_attr_record(r, c) = inline_value(r)
        BY <1>2, <2>2, <3>1 DEF parse_attr_record
      <4>2. Read(r, c, r.name) = inline_value(r)
        BY <1>2, <2>2, <3>1 DEF Read
      <4> QED BY <1>5, <4>1, <4>2
    <3>2. CASE r.rtype # ATTR_INLINE_DATA
      <4>1. parse_attr_record(r, c) \subseteq Some(fork)
        BY <2>2, <3>2 DEF parse_attr_record, None
      <4>2. v = fork
        BY <2>1, <4>1 DEF Some
      <4> QED BY <1>3, <2>3, <4>2
    <3> QED BY <3>1, <3>2
  <2> QED BY <2>2, <2>3
<1>6. ASSUME NEW v \in Read(r, c, n), r.start_block = 0
      PROVE  \E x \in Value : /\ parse_attr_record(r, c) = Some(x)
                              /\ x.inline = v.inline /\ x.content = v.content
  <2>1. attr_key(r, c) /\ r.name = n
    BY DEF Read, None
  <2>2. CASE r.rtype = ATTR_INLINE_DATA
    <3>1. parse_attr_record(r, c) = inline_value(r)
      BY <1>2, <1>6, <2>1, <2>2 DEF parse_attr_record
    <3>2. v \in inline_value(r)
      BY <1>2, <2>1, <2>2 DEF Read
    <3> QED BY <1>3, <1>4, <3>1, <3>2
  <2>3. CASE r.rtype # ATTR_INLINE_DATA
    <3>1. /\ r.rtype = ATTR_FORK_DATA /\ ForkParsed(r)
          /\ v = [inline |-> FALSE, size |-> r.got, content |-> r.content]
      BY <2>1, <2>3 DEF Read, None, Some
    <3>2. parse_attr_record(r, c) = Some(fork)
      BY <1>2, <1>6, <2>1, <3>1 DEF parse_attr_record
    <3>3. v.inline = FALSE /\ v.content = r.content
      BY <3>1
    <3> QED BY <1>3, <3>2, <3>3
  <2> QED BY <2>2, <2>3
<1> QED BY <1>5, <1>6

\* The list only grows: what it showed it shows at the same index.
LEMMA ListGrows ==
    ASSUME TypeOK, NEW r \in Records, Deliver(r), NEW c \in CNIDs
    PROVE  /\ listed[c] \in Seq(HfsXattr) /\ listed'[c] \in Seq(HfsXattr)
           /\ Len(listed[c]) <= Len(listed'[c])
           /\ \A k \in DOMAIN listed[c] : k \in DOMAIN listed'[c] /\ listed'[c][k] = listed[c][k]
           /\ \A v \in Value : parse_attr_record(r, c) = Some(v) =>
                /\ Len(listed'[c]) = Len(listed[c]) + 1
                /\ listed'[c][Len(listed[c]) + 1] = [name |-> r.name, value |-> v]
           /\ \A k \in DOMAIN listed'[c] : k \notin DOMAIN listed[c] =>
                /\ k = Len(listed[c]) + 1
                /\ \E v \in Value : /\ parse_attr_record(r, c) = Some(v)
                                    /\ listed'[c][k] = [name |-> r.name, value |-> v]
<1> DEFINE old == listed[c]
           new == listed'[c]
<1>1. r \in Record /\ r.name \in Names
  BY AttributesAssumption DEF Record
<1>2. old \in Seq(HfsXattr) /\ new = Pushed(old, r, c)
  BY DEF TypeOK, Deliver
<1>3. CASE parse_attr_record(r, c) = None
  <2>1. new = old
    BY <1>1, <1>2, <1>3, PushedAppends
  <2>2. \A v \in Value : parse_attr_record(r, c) # Some(v)
    BY <1>3 DEF Some, None
  <2> QED BY <1>2, <2>1, <2>2
<1>4. CASE parse_attr_record(r, c) # None
  <2>1. PICK v \in Value : /\ parse_attr_record(r, c) = Some(v)
                           /\ new = Append(old, [name |-> r.name, value |-> v])
    BY <1>1, <1>2, <1>4, PushedAppends
  <2>2. [name |-> r.name, value |-> v] \in HfsXattr
    BY <1>1 DEF HfsXattr
  <2>3. \A w \in Value : parse_attr_record(r, c) = Some(w) => w = v
    BY <2>1 DEF Some
  <2>4. /\ new \in Seq(HfsXattr) /\ Len(new) = Len(old) + 1
        /\ DOMAIN old = 1..Len(old) /\ DOMAIN new = 1..(Len(old) + 1)
        /\ new[Len(old) + 1] = [name |-> r.name, value |-> v]
        /\ \A k \in DOMAIN old : new[k] = old[k]
    BY <1>2, <2>1, <2>2
  <2>5. Len(old) \in Nat
    BY <1>2
  <2> QED BY <1>2, <2>1, <2>3, <2>4, <2>5
<1> QED BY <1>3, <1>4

\* Nothing readable by name is missing from the list.
THEOREM ReadImpliesListed == Spec => []ReadsAreListed
<1>1. Init => ReadsAreListed
  BY DEF Init, ReadsAreListed, None
<1>2. TypeOK /\ ReadsAreListed /\ [Next]_vars => ReadsAreListed'
  <2> SUFFICES ASSUME TypeOK, ReadsAreListed, [Next]_vars PROVE ReadsAreListed'
    OBVIOUS
  <2>1. ASSUME NEW r \in Records, Deliver(r) PROVE ReadsAreListed'
    <3> SUFFICES ASSUME NEW c \in CNIDs, NEW n \in Names, NEW v \in found'[c][n],
                        Uncontinued(c, n)'
                 PROVE  \E k \in DOMAIN listed'[c] :
                            /\ listed'[c][k].name = n
                            /\ listed'[c][k].value.inline = v.inline
                            /\ listed'[c][k].value.content = v.content
      BY DEF ReadsAreListed
    <3>1. r \in Record /\ found'[c][n] = OrElse(found[c][n], Read(r, c, n))
      BY <2>1, Delivered
    <3>2. CASE found[c][n] # None
      <4>1. v \in found[c][n]
        BY <3>1, <3>2 DEF OrElse
      <4>2. Uncontinued(c, n)
        BY <2>1, HoldersGrow DEF Uncontinued
      <4>3. PICK k \in DOMAIN listed[c] : /\ listed[c][k].name = n
                                          /\ listed[c][k].value.inline = v.inline
                                          /\ listed[c][k].value.content = v.content
        BY <4>1, <4>2 DEF ReadsAreListed
      <4> QED BY <2>1, <4>3, ListGrows
    <3>3. CASE found[c][n] = None
      <4>1. v \in Read(r, c, n)
        BY <3>1, <3>3 DEF OrElse
      <4>2. attr_key(r, c) /\ r.name = n
        BY <3>1, <4>1, OneRecordAgrees DEF None
      <4>3. r.start_block = 0
        BY <2>1, <4>2, HoldersGrow DEF Uncontinued
      <4>4. PICK x \in Value : /\ parse_attr_record(r, c) = Some(x)
                               /\ x.inline = v.inline /\ x.content = v.content
        BY <3>1, <4>1, <4>3, ListAndReadOfOneRecord
      <4> DEFINE k == Len(listed[c]) + 1
      <4>5. k \in DOMAIN listed'[c] /\ listed'[c][k] = [name |-> r.name, value |-> x]
        BY <2>1, <4>4, ListGrows
      <4> QED BY <4>2, <4>4, <4>5
    <3> QED BY <3>2, <3>3
  <2>2. CASE EndOfAttributes
    BY <2>2 DEF EndOfAttributes, ReadsAreListed, Uncontinued, Holders
  <2>3. CASE UNCHANGED vars
    BY <2>3 DEF vars, ReadsAreListed, Uncontinued, Holders
  <2> QED BY <2>1, <2>2, <2>3 DEF Next
<1> QED BY <1>1, <1>2, TypeCorrect, PTL DEF Spec

\* What the list shows of an inline attribute is what reading by its index returns.  The
\* step in which a record is listed needs ReadsAreListed: had an earlier record been read
\* under the name, it would stand in the list, and the new one would not be the first.
THEOREM ListImpliesRead == Spec => []ListedAreRead
<1>1. Init => ListedAreRead
  BY DEF Init, ListedAreRead
<1>2. TypeOK /\ ReadsAreListed /\ ListedAreRead /\ [Next]_vars => ListedAreRead'
  <2> SUFFICES ASSUME TypeOK, ReadsAreListed, ListedAreRead, [Next]_vars PROVE ListedAreRead'
    OBVIOUS
  <2>1. ASSUME NEW r \in Records, Deliver(r) PROVE ListedAreRead'
    <3>0. \A c \in CNIDs : \A k \in DOMAIN listed'[c] :
            listed'[c][k].name \in Names
      <4> SUFFICES ASSUME NEW c \in CNIDs, NEW k \in DOMAIN listed'[c]
                   PROVE  listed'[c][k].name \in Names
        OBVIOUS
      <4>1. listed'[c] \in Seq(HfsXattr)
        BY <2>1, ListGrows
      <4>2. listed'[c][k] \in HfsXattr
        BY <4>1
      <4> QED BY <4>2 DEF HfsXattr
    <3> SUFFICES ASSUME NEW c \in CNIDs, NEW k \in DOMAIN listed'[c], NEW n \in Names,
                        n = listed'[c][k].name, listed'[c][k].value.inline
                 PROVE  /\ found'[c][n] # None
                        /\ FirstOfName(c, k)' /\ Uncontinued(c, n)' =>
                             found'[c][n] = Some(listed'[c][k].value)
      BY <3>0 DEF ListedAreRead, read_xattr_at, Uncontinued, Holders
    <3>2. r \in Record /\ found'[c][n] = OrElse(found[c][n], Read(r, c, n))
      BY <2>1, Delivered
    <3>3. Uncontinued(c, n)' => Uncontinued(c, n)
      BY <2>1, HoldersGrow DEF Uncontinued
    <3>4. CASE k \in DOMAIN listed[c]
      <4>1. listed'[c][k] = listed[c][k]
        BY <2>1, <3>4, ListGrows
      <4>2. FirstOfName(c, k)' => FirstOfName(c, k)
        <5>1. \A j \in 1..(k - 1) : listed'[c][j] = listed[c][j]
          BY <2>1, <3>4, ListGrows
        <5> QED BY <4>1, <5>1 DEF FirstOfName
      <4>3. /\ found[c][n] # None
            /\ FirstOfName(c, k) /\ Uncontinued(c, n) => found[c][n] = Some(listed[c][k].value)
        BY <3>4, <4>1 DEF ListedAreRead, read_xattr_at
      <4>4. found'[c][n] = found[c][n]
        BY <3>2, <4>3 DEF OrElse
      <4> QED BY <3>3, <4>1, <4>2, <4>3, <4>4
    <3>5. CASE k \notin DOMAIN listed[c]
      <4>1. /\ k = Len(listed[c]) + 1
            /\ \E v \in Value : /\ parse_attr_record(r, c) = Some(v)
                                /\ listed'[c][k] = [name |-> r.name, value |-> v]
        BY <2>1, <3>5, ListGrows
      <4>2. PICK v \in Value : /\ parse_attr_record(r, c) = Some(v)
                               /\ listed'[c][k] = [name |-> r.name, value |-> v]
        BY <4>1
      <4>3. n = r.name /\ listed'[c][k].value = v
        BY <4>2
      <4>4. Read(r, c, n) = Some(v)
        BY <3>2, <4>2, <4>3, ListAndReadOfOneRecord
      <4>5. found'[c][n] # None
        BY <3>2, <4>4 DEF OrElse, Some, None
      <4>6. ASSUME FirstOfName(c, k)', Uncontinued(c, n)'
            PROVE  found'[c][n] = Some(v)
        <5>1. found[c][n] = None
          <6> SUFFICES ASSUME found[c][n] # None PROVE FALSE
            OBVIOUS
          <6>1. PICK w : w \in found[c][n]
            BY DEF None
          <6>2. PICK j \in DOMAIN listed[c] : listed[c][j].name = n
            BY <3>3, <4>6, <6>1 DEF ReadsAreListed
          <6>3. j \in 1..(k - 1)
            BY <2>1, <4>1, ListGrows
          <6>4. listed'[c][j].name = n
            BY <2>1, <6>2, ListGrows
          <6> QED BY <4>6, <6>3, <6>4 DEF FirstOfName
        <5> QED BY <3>2, <4>4, <5>1 DEF OrElse
      <4> QED BY <4>3, <4>5, <4>6
    <3> QED BY <3>4, <3>5
  <2>2. CASE EndOfAttributes
    BY <2>2 DEF EndOfAttributes, ListedAreRead, read_xattr_at, FirstOfName, Uncontinued, Holders
  <2>3. CASE UNCHANGED vars
    BY <2>3 DEF vars, ListedAreRead, read_xattr_at, FirstOfName, Uncontinued, Holders
  <2> QED BY <2>1, <2>2, <2>3 DEF Next
<1> QED BY <1>1, <1>2, TypeCorrect, ReadImpliesListed, PTL DEF Spec

------------------------------------------------------------------------------
\* What Xattrs promises holds of the walk a client's calls make.
LEMMA WalksTheAttributes == VfsSpec => Spec
<1>1. VfsInit => Init
  BY DEF VfsInit
<1>2. [VfsNext]_<<vars, client>> => [Next]_vars
  BY DEF VfsNext, Client, Open, Choose, Read_at
<1> QED BY <1>1, <1>2, PTL DEF VfsSpec, Spec

------------------------------------------------------------------------------
\* No value is longer than usize, since no record's is, and a read finds one at most.
ValuesBounded ==
    /\ \A c \in CNIDs : \A k \in DOMAIN listed[c] : listed[c][k].value.size <= UsizeMax
    /\ \A c \in CNIDs, n \in Names :
        Single(found[c][n]) /\ \A v \in found[c][n] : v.size <= UsizeMax

\* What a parser returns is no longer than the record says, and a read returns one value.
LEMMA ParsersBounded ==
    ASSUME NEW r \in Records, NEW c \in CNIDs, NEW n \in Names
    PROVE  /\ \A v \in parse_attr_record(r, c) : v.size <= UsizeMax
           /\ \A v \in Read(r, c, n) : v.size <= UsizeMax
           /\ Single(Read(r, c, n))
<1> DEFINE sizes == {r.size, r.got}
<1>1. \A s \in sizes : s <= UsizeMax
  BY VfsAssumption
<1>2. \A v \in inline_value(r) : v.size \in sizes
  BY DEF inline_value, Inline, Some, None
<1>3. \A v \in parse_attr_record(r, c) : v.size \in sizes
  <2>1. CASE ~attr_key(r, c) \/ r.start_block # 0
    BY <2>1 DEF parse_attr_record, None
  <2>2. CASE attr_key(r, c) /\ r.start_block = 0
    BY <1>2, <2>2 DEF parse_attr_record, None, Some, ATTR_INLINE_DATA, ATTR_FORK_DATA
  <2> QED BY <2>1, <2>2
<1>4. \A v \in Read(r, c, n) : v.size \in sizes
  <2>1. CASE ~attr_key(r, c) \/ r.name # n
    BY <2>1 DEF Read, None
  <2>2. CASE attr_key(r, c) /\ r.name = n
    BY <1>2, <2>2 DEF Read, None, Some, ATTR_INLINE_DATA, ATTR_FORK_DATA
  <2> QED BY <2>1, <2>2
<1> HIDE DEF sizes
<1>5. Single(Read(r, c, n))
  <2>1. CASE ~attr_key(r, c) \/ r.name # n
    BY <2>1 DEF Read, None, Single
  <2>2. CASE attr_key(r, c) /\ r.name = n
    <3>1. Single(inline_value(r))
      BY Zenon DEF inline_value, Some, None, Single
    <3>2. CASE r.rtype = ATTR_INLINE_DATA
      <4>1. Read(r, c, n) = inline_value(r)
        BY <2>2, <3>2 DEF Read, ATTR_INLINE_DATA, ATTR_FORK_DATA
      <4> QED BY <3>1, <4>1
    <3>3. CASE r.rtype # ATTR_INLINE_DATA
      <4>1. Read(r, c, n) \subseteq {[inline |-> FALSE, size |-> r.got, content |-> r.content]}
        BY <2>2, <3>3 DEF Read, None, Some
      <4> QED BY <4>1 DEF Single
    <3> QED BY <3>2, <3>3
  <2> QED BY <2>1, <2>2
<1> QED BY <1>1, <1>3, <1>4, <1>5

\* By induction over the records delivered.
LEMMA NoValueTooLong == Spec => []ValuesBounded
<1>1. Init => ValuesBounded
  BY DEF Init, ValuesBounded, None, Single
<1>2. TypeOK /\ ValuesBounded /\ [Next]_vars => ValuesBounded'
  <2> SUFFICES ASSUME TypeOK, ValuesBounded, [Next]_vars PROVE ValuesBounded'
    OBVIOUS
  <2>1. ASSUME NEW r \in Records, Deliver(r) PROVE ValuesBounded'
    <3>1. ASSUME NEW c \in CNIDs, NEW k \in DOMAIN listed'[c]
          PROVE  listed'[c][k].value.size <= UsizeMax
      <4>1. CASE k \in DOMAIN listed[c]
        BY <2>1, <4>1, ListGrows DEF ValuesBounded
      <4>2. CASE k \notin DOMAIN listed[c]
        <5>1. PICK v \in Value : /\ parse_attr_record(r, c) = Some(v)
                                 /\ listed'[c][k] = [name |-> r.name, value |-> v]
          BY <2>1, <4>2, ListGrows
        <5>2. v.size <= UsizeMax
          BY <5>1, ParsersBounded, AttributesAssumption DEF Some
        <5> QED BY <5>1, <5>2
      <4> QED BY <4>1, <4>2
    <3>2. ASSUME NEW c \in CNIDs, NEW n \in Names, NEW v \in found'[c][n]
          PROVE  v.size <= UsizeMax
      <4>1. v \in found[c][n] \/ v \in Read(r, c, n)
        BY <2>1, Delivered DEF OrElse
      <4> QED BY <4>1, ParsersBounded DEF ValuesBounded
    <3>3. ASSUME NEW c \in CNIDs, NEW n \in Names PROVE Single(found'[c][n])
      <4>1. found'[c][n] = found[c][n] \/ found'[c][n] = Read(r, c, n)
        BY <2>1, Delivered DEF OrElse
      <4> QED BY <4>1, ParsersBounded DEF ValuesBounded
    <3> QED BY <3>1, <3>2, <3>3 DEF ValuesBounded, Single
  <2>2. CASE EndOfAttributes
    BY <2>2 DEF EndOfAttributes, ValuesBounded, Single
  <2>3. CASE UNCHANGED vars
    BY <2>3 DEF vars, ValuesBounded, Single
  <2> QED BY <2>1, <2>2, <2>3 DEF Next
<1> QED BY <1>1, <1>2, TypeCorrect, PTL DEF Spec

------------------------------------------------------------------------------
\* The records that hold a decmpfs attribute of c inline, and the attribute read_file goes
\* by: that of the first.
InlineHolders(c) ==
    {i \in DOMAIN records : attr_inline_value(records[i], c, DECMPFS_XATTR_NAME) # None}

FirstDecmpfs ==
    \A c \in CNIDs :
        \/ InlineHolders(c) = {} /\ decmpfs[c] = None
        \/ \E i \in InlineHolders(c) :
            /\ \A l \in InlineHolders(c) : i <= l
            /\ decmpfs[c] = attr_inline_value(records[i], c, DECMPFS_XATTR_NAME)

\* The attribute kept is that of the first record, by induction over the records.
LEMMA DecmpfsIsTheFirst == Spec => []FirstDecmpfs
<1>1. Init => FirstDecmpfs
  <2> SUFFICES ASSUME Init, NEW c \in CNIDs PROVE InlineHolders(c) = {} /\ decmpfs[c] = None
    BY DEF FirstDecmpfs
  <2>1. DOMAIN records = {}
    BY DEF Init
  <2> QED BY <2>1 DEF Init, InlineHolders
<1>2. TypeOK /\ FirstDecmpfs /\ [Next]_vars => FirstDecmpfs'
  <2> SUFFICES ASSUME TypeOK, FirstDecmpfs, [Next]_vars PROVE FirstDecmpfs'
    OBVIOUS
  <2>1. ASSUME NEW r \in Records, Deliver(r) PROVE FirstDecmpfs'
    <3> SUFFICES ASSUME NEW c \in CNIDs
                 PROVE  \/ InlineHolders(c)' = {} /\ decmpfs'[c] = None
                        \/ \E i \in InlineHolders(c)' :
                            /\ \A l \in InlineHolders(c)' : i <= l
                            /\ decmpfs'[c] =
                                attr_inline_value(records'[i], c, DECMPFS_XATTR_NAME)
      BY DEF FirstDecmpfs
    <3> DEFINE last == Len(records) + 1
               new == attr_inline_value(r, c, DECMPFS_XATTR_NAME)
    <3>1. /\ decmpfs'[c] = OrElse(decmpfs[c], new)
          /\ records'[last] = r
          /\ \A i \in DOMAIN records : records'[i] = records[i]
      BY <2>1, Delivered, AttributesAssumption
    <3>2. /\ DOMAIN records = 1..Len(records) /\ DOMAIN records' = 1..last
          /\ Len(records) \in Nat
      BY <2>1, AttributesAssumption DEF Deliver, TypeOK
    <3>3. InlineHolders(c)' = InlineHolders(c) \cup (IF new # None THEN {last} ELSE {})
      BY <3>1, <3>2 DEF InlineHolders
    <3>4. \A i \in InlineHolders(c) : i \in 1..Len(records) /\ records'[i] = records[i]
      BY <3>1, <3>2 DEF InlineHolders
    <3>5. CASE InlineHolders(c) = {}
      <4>1. decmpfs'[c] = new
        BY <3>1, <3>5 DEF FirstDecmpfs, OrElse
      <4> QED BY <3>1, <3>2, <3>3, <3>5, <4>1
    <3>6. CASE InlineHolders(c) # {}
      <4>1. PICK i \in InlineHolders(c) :
              /\ \A l \in InlineHolders(c) : i <= l
              /\ decmpfs[c] = attr_inline_value(records[i], c, DECMPFS_XATTR_NAME)
        BY <3>6 DEF FirstDecmpfs
      <4>2. decmpfs[c] # None
        BY <4>1 DEF InlineHolders
      <4>3. decmpfs'[c] = decmpfs[c]
        BY <3>1, <4>2 DEF OrElse
      <4>4. \A l \in InlineHolders(c)' : i <= l
        BY <3>2, <3>3, <3>4, <4>1
      <4> QED BY <3>3, <3>4, <4>1, <4>3, <4>4
    <3> QED BY <3>5, <3>6
  <2>2. CASE EndOfAttributes
    BY <2>2 DEF EndOfAttributes, FirstDecmpfs, InlineHolders
  <2>3. CASE UNCHANGED vars
    BY <2>3 DEF vars, FirstDecmpfs, InlineHolders
  <2> QED BY <2>1, <2>2, <2>3 DEF Next
<1> QED BY <1>1, <1>2, TypeCorrect, PTL DEF Spec

------------------------------------------------------------------------------
\* What read_at copies at an offset: nothing at the end of the data or behind it, in usize
\* or not, and else a piece of the data from that offset on.
LEMMA CopiedPiece ==
    ASSUME NEW d, d.len \in 0..UsizeMax, NEW off \in Nat, NEW len \in Nat \ {0}
    PROVE  /\ off >= d.len => Copied(d, off, len) = <<>>
           /\ off < d.len =>
                \E n \in 1..(d.len - off) : Copied(d, off, len) = Stream!Bytes(d, off, n)
<1>1. UsizeMax \in Nat
  BY VfsAssumption
<1>2. CASE off >= d.len
  <2>1. Start(off) >= d.len
    BY <1>1, <1>2 DEF Start, AtMost
  <2> QED BY <1>2, <2>1 DEF Copied
<1>3. CASE off < d.len
  <2>1. Start(off) = off
    BY <1>1, <1>3 DEF Start, AtMost
  <2> DEFINE n == AtMost(len, d.len - off)
  <2>2. n \in 1..(d.len - off)
    BY <1>3 DEF AtMost
  <2>3. Copied(d, off, len) = [i \in 1..n |-> <<d.src, off + i>>]
    BY <1>3, <2>1 DEF Copied
  <2>4. Copied(d, off, len) = Stream!Bytes(d, off, n)
    BY <2>3 DEF Stream!Bytes
  <2> QED BY <1>3, <2>2, <2>4
<1> QED BY <1>2, <1>3

\* What the walk has settled when a client opens a node.
Walked == TypeOK /\ ListedAreRead /\ ValuesBounded /\ FirstDecmpfs

\* The content of a file, as read_file computes it, is the one of the first decmpfs record.
LEMMA FileAsDefined ==
    ASSUME Walked, cnid \in CNIDs PROVE read_file = FileContent
<1>1. DecmpfsRecords = InlineHolders(cnid)
  BY DEF DecmpfsRecords, InlineHolders
<1>2. CASE InlineHolders(cnid) = {}
  <2>1. decmpfs[cnid] = None
    BY <1>2 DEF Walked, FirstDecmpfs
  <2> QED BY <1>1, <1>2, <2>1 DEF read_file, FileContent
<1>3. CASE InlineHolders(cnid) # {}
  <2> DEFINE first == CHOOSE j \in DecmpfsRecords : \A l \in DecmpfsRecords : j <= l
  <2>1. PICK i \in InlineHolders(cnid) :
          /\ \A l \in InlineHolders(cnid) : i <= l
          /\ decmpfs[cnid] = attr_inline_value(records[i], cnid, DECMPFS_XATTR_NAME)
    BY <1>3 DEF Walked, FirstDecmpfs
  <2>2. InlineHolders(cnid) \subseteq Nat
    BY DEF InlineHolders, Walked, TypeOK
  <2>3. first \in DecmpfsRecords /\ \A l \in DecmpfsRecords : first <= l
    BY <1>1, <2>1
  <2>4. first = i
    BY <1>1, <2>1, <2>2, <2>3
  <2>5. decmpfs[cnid] = {Inline(records[i])}
    BY <2>1 DEF InlineHolders, attr_inline_value, Some
  <2>6. Inline(records[i]).content = records[i].content
    BY DEF Inline
  <2>7. \A f : UNION {decompress(x, ResourceFork(f)) : x \in decmpfs[cnid]}
               = decompress(records[i], ResourceFork(f))
    <3> SUFFICES ASSUME NEW f
                 PROVE  UNION {decompress(x, ResourceFork(f)) : x \in {Inline(records[i])}}
                        = decompress(records[i], ResourceFork(f))
      BY <2>5
    <3>1. decompress(Inline(records[i]), ResourceFork(f))
          = decompress(records[i], ResourceFork(f))
      BY <2>6 DEF decompress
    <3> QED BY <3>1
  <2>8. read_file = UNION {decompress(records[i], ResourceFork(f)) : f \in node.forks}
    BY <2>5, <2>7 DEF read_file, None
  <2>9. FileContent = UNION {decompress(records[i], ResourceFork(f)) : f \in node.forks}
    BY <1>1, <1>3, <2>4 DEF FileContent
  <2> QED BY <2>8, <2>9
<1> QED BY <1>2, <1>3

\* The content of an attribute, as its index finds it, is the value shown where it can be.
LEMMA AttributeAsDefined ==
    ASSUME Walked, cnid \in CNIDs, NEW k \in DOMAIN listed[cnid]
    PROVE  DataOf(AtMost(k - 1, U16Max)) = AttributeContent(k)
<1> DEFINE id == AtMost(k - 1, U16Max)
<1>1. listed[cnid] \in Seq(HfsXattr) /\ U16Max \in Nat
  BY VfsAssumption DEF Walked, TypeOK
<1>2. k \in 1..Len(listed[cnid]) /\ Len(listed[cnid]) \in Nat
  BY <1>1
<1>3. id \in Nat /\ id + 1 \in 1..k /\ id # Default
  BY <1>1, <1>2 DEF AtMost, Default
<1>4. id + 1 \in DOMAIN listed[cnid]
  BY <1>1, <1>2, <1>3
<1>5. DataOf(id) = {AttributeData(v) : v \in read_xattr_at(cnid, id + 1)}
  BY <1>3, <1>4, Zenon DEF DataOf
<1>6. CASE listed[cnid][k].value.inline /\ Distinct(k)
  <2>1. id + 1 = k
    BY <1>2, <1>6, <1>1 DEF Distinct, AtMost
  <2>2. read_xattr_at(cnid, k) = {listed[cnid][k].value}
    BY <1>6 DEF Walked, ListedAreRead, Distinct, Some
  <2>3. DataOf(id) = {AttributeData(listed[cnid][k].value)}
    BY <1>5, <2>1, <2>2
  <2> QED BY <1>6, <2>3 DEF AttributeContent, Some
<1>7. CASE ~(listed[cnid][k].value.inline /\ Distinct(k))
  BY <1>5, <1>7, Zenon DEF AttributeContent
<1> QED BY <1>6, <1>7

\* A content: its source is known and no length exceeds usize.
ProperContent(d) == d.src \in Source /\ d.len \in 0..UsizeMax

\* A file has one content at most, of a length a usize can hold.
LEMMA FileContentProper ==
    ASSUME Walked, cnid \in CNIDs, node \in Nodes
    PROVE  (\A d \in FileContent : ProperContent(d)) /\ Single(FileContent)
<1>1. \A f \in node.forks : f.data.got # -1 => f.data.got \in 0..UsizeMax
  <2> SUFFICES ASSUME NEW f \in node.forks, f.data.got # -1 PROVE f.data.got \in 0..UsizeMax
    OBVIOUS
  <2>1. f.data.got \in Nat \cup {-1} /\ f.data.got <= UsizeMax
    BY VfsAssumption DEF Node, Fork
  <2> QED BY <2>1, VfsAssumption
<1>2. ASSUME NEW f \in node.forks, NEW d \in DataFork(f) PROVE ProperContent(d)
  <2>1. f.data.got # -1 /\ d = [src |-> <<"data fork">>, len |-> f.data.got]
    BY DEF DataFork, None, Some, Content
  <2>2. d.src = <<"data fork">> /\ d.len \in 0..UsizeMax
    BY <1>1, <2>1
  <2>3. <<"data fork">> \in Source
    BY Zenon DEF Source
  <2> QED BY <2>2, <2>3 DEF ProperContent
<1>3. ASSUME NEW i \in DOMAIN records, NEW resource
      PROVE  \A d \in decompress(records[i], resource) : ProperContent(d)
  <2> DEFINE c == records[i].content
             d == [src |-> <<"decoded", c>>, len |-> Declared[c]]
  <2>1. records[i] \in Record
    BY DEF Walked, TypeOK
  <2>2. c \in Contents
    BY <2>1 DEF Record
  <2>3. Declared[c] \in 0..UsizeMax
    BY <2>2, VfsAssumption
  <2>4. d.src \in Source /\ d.len \in 0..UsizeMax
    BY <2>2, <2>3 DEF Source
  <2>5. decompress(records[i], resource) \subseteq {d}
    BY DEF decompress, None, Some, Content
  <2> QED BY <2>4, <2>5 DEF ProperContent
<1>3a. Single(node.forks)
  BY VfsAssumption
<1>4. CASE DecmpfsRecords = {}
  <2>1. FileContent = UNION {DataFork(f) : f \in node.forks}
    BY <1>4 DEF FileContent
  <2>2. \A f : Single(DataFork(f))
    BY Zenon DEF DataFork, Some, None, Single
  <2> QED BY <1>2, <1>3a, <2>1, <2>2 DEF Single
<1>5. CASE DecmpfsRecords # {}
  <2> DEFINE first == CHOOSE j \in DecmpfsRecords : \A l \in DecmpfsRecords : j <= l
  <2>1. PICK i \in InlineHolders(cnid) : \A l \in InlineHolders(cnid) : i <= l
    BY <1>5 DEF DecmpfsRecords, InlineHolders, Walked, FirstDecmpfs
  <2>2. first \in DecmpfsRecords
    BY <2>1 DEF DecmpfsRecords, InlineHolders
  <2>3. first \in DOMAIN records
    BY <2>2 DEF DecmpfsRecords
  <2>4. FileContent = UNION {decompress(records[first], ResourceFork(f)) : f \in node.forks}
    BY <1>5 DEF FileContent
  <2> HIDE DEF first
  <2>5. \A resource : Single(decompress(records[first], resource))
    BY Zenon DEF decompress, Some, None, Single
  <2> QED BY <1>3, <1>3a, <2>3, <2>4, <2>5 DEF Single
<1> QED BY <1>4, <1>5

\* So has an attribute.
LEMMA AttributeContentProper ==
    ASSUME Walked, cnid \in CNIDs, NEW k \in DOMAIN listed[cnid]
    PROVE  (\A d \in AttributeContent(k) : ProperContent(d)) /\ Single(AttributeContent(k))
<1> DEFINE j == AtMost(k - 1, U16Max) + 1
<1>1. listed[cnid] \in Seq(HfsXattr) /\ U16Max \in Nat
  BY VfsAssumption DEF Walked, TypeOK
<1>2. k \in 1..Len(listed[cnid]) /\ Len(listed[cnid]) \in Nat
  BY <1>1
<1>3. j \in DOMAIN listed[cnid]
  BY <1>1, <1>2 DEF AtMost
<1>4. listed[cnid][j] \in HfsXattr /\ listed[cnid][k] \in HfsXattr
  BY <1>1, <1>3
<1>5. /\ listed[cnid][j].name \in Names
      /\ listed[cnid][k].value \in Value /\ listed[cnid][k].value.size <= UsizeMax
  BY <1>4 DEF HfsXattr, Walked, ValuesBounded
<1> HIDE DEF j
<1>6. /\ \A v \in read_xattr_at(cnid, j) : v \in Value /\ v.size <= UsizeMax
      /\ Single(read_xattr_at(cnid, j))
  BY <1>5 DEF read_xattr_at, Walked, TypeOK, ValuesBounded
<1>7. \A v \in Value : v.size <= UsizeMax => ProperContent(AttributeData(v))
  BY VfsAssumption DEF Value, AttributeData, Content, ProperContent, Source
<1> QED BY <1>5, <1>6, <1>7 DEF AttributeContent, j, Some, Single

------------------------------------------------------------------------------
\* The stream that is read, by its place in what was shown.
StreamOpened ==
    /\ phase = "done"
    /\ shown = StreamsShown
    /\ stream \in DOMAIN shown

\* Every call of read_at reads from the content of the stream that was chosen.
LEMMA ReadsItsContent ==
    ASSUME Walked, cnid \in CNIDs, node \in Nodes, StreamOpened,
           status \notin {"closed", "shown"}
    PROVE  /\ DataOf(shown[stream].id) = StreamContent
           /\ \A d \in StreamContent : ProperContent(d)
           /\ Single(StreamContent)
           /\ IF stream = 1
              THEN shown[1].size = IF node.size = None THEN 0 ELSE CHOOSE s \in node.size : TRUE
              ELSE /\ stream - 1 \in DOMAIN listed[cnid]
                   /\ shown[stream].size = listed[cnid][stream - 1].value.size
<1>1. listed[cnid] \in Seq(HfsXattr) /\ U16Max \in Nat
  BY VfsAssumption DEF Walked, TypeOK
<1> DEFINE rest == [k \in DOMAIN listed[cnid] |->
                       [id |-> AtMost(k - 1, U16Max), size |-> listed[cnid][k].value.size]]
           head == [id |-> Default,
                    size |-> IF node.size = None THEN 0 ELSE CHOOSE s \in node.size : TRUE]
           n == Len(listed[cnid])
<1>2. shown = <<head>> \o rest
  BY DEF StreamOpened, StreamsShown
<1>3. n \in Nat /\ DOMAIN listed[cnid] = 1..n
  BY <1>1
<1>4. \A k \in 1..n : rest[k] = [id |-> AtMost(k - 1, U16Max), size |-> listed[cnid][k].value.size]
  BY <1>3
<1>5. rest \in Seq({rest[k] : k \in 1..n}) /\ Len(rest) = n
  BY <1>3
<1> HIDE DEF head, rest
<1>6. /\ DOMAIN shown = 1..(n + 1)
      /\ shown[1] = head
      /\ \A k \in 2..(n + 1) : shown[k] = rest[k - 1]
  BY <1>2, <1>3, <1>5
<1>7. CASE stream = 1
  <2>1. DataOf(shown[stream].id) = read_file
    BY <1>6, <1>7 DEF DataOf, head
  <2>2. StreamContent = FileContent
    BY <1>7 DEF StreamContent
  <2>3. shown[1].size = IF node.size = None THEN 0 ELSE CHOOSE s \in node.size : TRUE
    BY <1>6 DEF head
  <2> QED BY <1>7, <2>1, <2>2, <2>3, FileAsDefined, FileContentProper
<1>8. CASE stream # 1
  <2> DEFINE k == stream - 1
  <2>1. stream \in 2..(n + 1)
    BY <1>3, <1>6, <1>8 DEF StreamOpened
  <2>2. k \in DOMAIN listed[cnid]
    BY <1>3, <2>1
  <2> HIDE DEF k
  <2>3. /\ shown[stream].id = AtMost(k - 1, U16Max)
        /\ shown[stream].size = listed[cnid][k].value.size
    <3>1. shown[stream] = rest[k] /\ k \in 1..n
      BY <1>3, <1>6, <2>1 DEF k
    <3>2. rest[k] = [id |-> AtMost(k - 1, U16Max), size |-> listed[cnid][k].value.size]
      BY <1>4, <3>1
    <3> QED BY <3>1, <3>2
  <2>4. StreamContent = AttributeContent(k)
    BY <1>8 DEF StreamContent, k
  <2>5. DataOf(shown[stream].id) = AttributeContent(k)
    BY <2>2, <2>3, AttributeAsDefined
  <2> QED BY <1>8, <2>2, <2>3, <2>4, <2>5, AttributeContentProper DEF k
<1> QED BY <1>7, <1>8

------------------------------------------------------------------------------
\* The client's invariant: the tree it reads is the one it was shown the streams of; what
\* it has received ends within the content, and the end was told at the end.
ClientInv ==
    /\ cnid \in CNIDs /\ node \in Nodes
    /\ base \in Nat
    /\ got \in Seq(Source \X (1..UsizeMax))
    /\ status \in {"closed", "shown", "open", "ended", "failed"}
    /\ status \in {"closed", "shown"} => got = <<>>
    /\ status # "closed" => phase = "done" /\ shown = StreamsShown
    /\ status \notin {"closed", "shown"} => stream \in DOMAIN shown
    /\ status = "ended" =>
        StreamContent # {} /\ \A d \in StreamContent : d.len <= base + Len(got)
    /\ status \in {"open", "ended"} /\ got # <<>> =>
        \A d \in StreamContent : base + Len(got) <= d.len

\* No step of a client that has chosen its stream changes the content.
LEMMA ContentKept ==
    ASSUME UNCHANGED <<vars, cnid, node, stream>>,
           status \notin {"closed", "shown"}, status' \notin {"closed", "shown"}
    PROVE  StreamContent' = StreamContent
<1>1. FileContent' = FileContent
  BY DEF vars, FileContent, DecmpfsRecords
<1>2. \A k : AttributeContent(k)' = AttributeContent(k)
  BY DEF vars, AttributeContent, read_xattr_at, Distinct, FirstOfName, Uncontinued, Holders
<1> QED BY <1>1, <1>2 DEF StreamContent

\* What a call of read_at delivers, in terms of the stream's content.
LEMMA ReadDelivers ==
    ASSUME Walked, ClientInv, NEW len \in BufferLens, Read_at(len)
    PROVE  /\ UNCHANGED <<vars, cnid, node, shown, stream, base>>
           /\ StreamContent' = StreamContent
           /\ \/ StreamContent = {} /\ status' = "failed" /\ got' = got
              \/ \E d \in StreamContent :
                  /\ ProperContent(d) /\ StreamContent = {d}
                  /\ \/ /\ base + Len(got) >= d.len
                        /\ status' = "ended" /\ got' = got
                     \/ /\ base + Len(got) < d.len
                        /\ status' = "open"
                        /\ \E n \in 1..(d.len - (base + Len(got))) :
                            got' = got \o Stream!Bytes(d, base + Len(got), n)
<1> DEFINE at == base + Len(got)
<1>1. /\ at \in Nat /\ len \in Nat \ {0}
      /\ got \in Seq(Source \X (1..UsizeMax))
  BY VfsAssumption DEF ClientInv
<1>2. /\ status = "open" /\ StreamOpened
      /\ UNCHANGED <<vars, cnid, node, shown, stream, base>>
  BY DEF Read_at, ClientInv, StreamOpened
<1>3. /\ DataOf(shown[stream].id) = StreamContent
      /\ \A d \in StreamContent : ProperContent(d) /\ StreamContent = {d}
  BY <1>2, ReadsItsContent DEF ClientInv, Single
<1>4. \/ StreamContent = {} /\ status' = "failed" /\ got' = got
      \/ \E d \in StreamContent :
          /\ got' = got \o Copied(d, at, len)
          /\ status' = IF Copied(d, at, len) = <<>> THEN "ended" ELSE "open"
  BY <1>3 DEF Read_at, None
<1>5. status' \in {"open", "ended", "failed"}
  BY <1>4
<1>6. StreamContent' = StreamContent
  BY <1>2, <1>5, ContentKept
<1>7. ASSUME NEW d \in StreamContent,
             got' = got \o Copied(d, at, len),
             status' = IF Copied(d, at, len) = <<>> THEN "ended" ELSE "open"
      PROVE  \/ at >= d.len /\ status' = "ended" /\ got' = got
             \/ /\ at < d.len /\ status' = "open"
                /\ \E n \in 1..(d.len - at) : got' = got \o Stream!Bytes(d, at, n)
  <2>1. d.len \in 0..UsizeMax /\ UsizeMax \in Nat
    BY <1>3, VfsAssumption DEF ProperContent
  <2>2. CASE at >= d.len
    <3>1. Copied(d, at, len) = <<>>
      BY <1>1, <2>1, <2>2, CopiedPiece
    <3>2. got \o <<>> = got
      BY <1>1
    <3> QED BY <1>7, <2>2, <3>1, <3>2
  <2>3. CASE at < d.len
    <3>1. PICK n \in 1..(d.len - at) : Copied(d, at, len) = Stream!Bytes(d, at, n)
      BY <1>1, <2>1, <2>3, CopiedPiece
    <3>2. Stream!Bytes(d, at, n) # <<>>
      <4>1. 1 \in DOMAIN Stream!Bytes(d, at, n)
        BY <1>1, <2>1, <3>1 DEF Stream!Bytes
      <4> QED BY <4>1
    <3>3. Copied(d, at, len) # <<>>
      BY <3>1, <3>2, Zenon
    <3>4. status' = "open"
      BY <1>7, <3>3, Zenon
    <3>5. got' = got \o Stream!Bytes(d, at, n)
      BY <1>7, <3>1, Zenon
    <3> QED BY <2>3, <3>4, <3>5, Zenon
  <2> QED BY <1>1, <2>1, <2>2, <2>3
<1> QED BY <1>2, <1>3, <1>4, <1>6, <1>7

\* Bytes of a proper content are bytes, and extend what was received up to their end.
LEMMA BytesExtend ==
    ASSUME NEW d, ProperContent(d), NEW at \in Nat, NEW n \in 1..(d.len - at),
           got \in Seq(Source \X (1..UsizeMax))
    PROVE  /\ got \o Stream!Bytes(d, at, n) \in Seq(Source \X (1..UsizeMax))
           /\ Len(got \o Stream!Bytes(d, at, n)) = Len(got) + n
<1> DEFINE Byte == Source \X (1..UsizeMax)
           byte(i) == <<d.src, at + i>>
           piece == [i \in 1..n |-> byte(i)]
<1>1. d.src \in Source /\ d.len \in 0..UsizeMax /\ UsizeMax \in Nat /\ n \in Nat
  BY VfsAssumption DEF ProperContent
<1>2. Stream!Bytes(d, at, n) = piece
  BY DEF Stream!Bytes
<1>3. \A i \in 1..n : byte(i) \in Byte
  BY <1>1
<1>4. got \in Seq(Byte)
  OBVIOUS
<1> HIDE DEF Byte, byte
<1>5. piece \in Seq(Byte) /\ Len(piece) = n
  BY <1>1, <1>3
<1> HIDE DEF piece
<1>6. got \o piece \in Seq(Byte) /\ Len(got \o piece) = Len(got) + n
  BY <1>4, <1>5
<1> QED BY <1>2, <1>6 DEF Byte

\* While the walk goes on no client has opened a node, and then the walk is over.
LEMMA WalkedAlways == VfsSpec => []Walked
BY WalksTheAttributes, TypeCorrect, ListImpliesRead, NoValueTooLong, DecmpfsIsTheFirst,
   PTL DEF Walked

\* The client's invariant is inductive, given what the walk has settled.
LEMMA ClientInvariant == VfsSpec => []ClientInv
<1>1. VfsInit => ClientInv
  <2> SUFFICES ASSUME VfsInit PROVE ClientInv
    OBVIOUS
  <2>1. got = <<>> /\ got \in Seq(Source \X (1..UsizeMax))
    BY DEF VfsInit
  <2> QED BY <2>1 DEF VfsInit, ClientInv
<1>2. Walked /\ ClientInv /\ [VfsNext]_<<vars, client>> => ClientInv'
  <2> SUFFICES ASSUME Walked, ClientInv, [VfsNext]_<<vars, client>> PROVE ClientInv'
    OBVIOUS
  <2>1. CASE Next /\ UNCHANGED client
    <3>1. status = "closed" /\ status' = status
      BY <2>1, Zenon DEF Next, Deliver, EndOfAttributes, ClientInv, client
    <3> QED BY <2>1, <3>1 DEF client, ClientInv
  <2>2. CASE Open
    BY <2>2 DEF Open, vars, ClientInv, StreamsShown
  <2>3. CASE Choose
    <3>1. base' \in Nat
      BY <2>3, VfsAssumption DEF Choose
    <3> QED BY <2>3, <3>1 DEF Choose, vars, ClientInv, StreamsShown
  <2>4. ASSUME NEW len \in BufferLens, Read_at(len) PROVE ClientInv'
    <3>1. /\ UNCHANGED <<vars, cnid, node, shown, stream, base>>
          /\ status = "open" /\ StreamContent' = StreamContent
      BY <2>4, ReadDelivers DEF Read_at
    <3>2. shown' = StreamsShown'
      BY <3>1 DEF ClientInv, StreamsShown, vars
    <3>3. CASE status' = "failed" /\ got' = got
      BY <3>1, <3>2, <3>3 DEF ClientInv, vars
    <3>4. ASSUME NEW d \in StreamContent, StreamContent = {d}, base + Len(got) >= d.len,
                 status' = "ended", got' = got
          PROVE  ClientInv'
      <4>1. got # <<>> => base + Len(got) <= d.len
        BY <3>1 DEF ClientInv
      <4> QED BY <3>1, <3>2, <3>4, <4>1 DEF ClientInv, vars
    <3>5. ASSUME NEW d \in StreamContent, ProperContent(d), StreamContent = {d},
                 base + Len(got) < d.len,
                 status' = "open",
                 NEW n \in 1..(d.len - (base + Len(got))),
                 got' = got \o Stream!Bytes(d, base + Len(got), n)
          PROVE  ClientInv'
      <4>1. /\ base \in Nat /\ Len(got) \in Nat
            /\ got \in Seq(Source \X (1..UsizeMax))
        BY DEF ClientInv
      <4>2. got' \in Seq(Source \X (1..UsizeMax)) /\ Len(got') = Len(got) + n
        BY <3>5, <4>1, BytesExtend
      <4>3. base + Len(got') <= d.len
        BY <3>5, <4>1, <4>2, VfsAssumption DEF ProperContent
      <4> QED BY <3>1, <3>2, <3>5, <4>2, <4>3 DEF ClientInv, vars
    <3> QED BY <2>4, <3>3, <3>4, <3>5, ReadDelivers
  <2>5. CASE UNCHANGED <<vars, client>>
    <3>1. shown' = shown /\ StreamsShown' = StreamsShown /\ stream' = stream
      BY <2>5 DEF client, vars, StreamsShown
    <3>2. status' = status /\ got' = got /\ base' = base /\ phase' = phase
          /\ cnid' = cnid /\ node' = node
      BY <2>5 DEF client, vars
    <3>3. CASE status \in {"closed", "shown"}
      BY <3>1, <3>2, <3>3 DEF ClientInv
    <3>4. CASE status \notin {"closed", "shown"}
      <4>1. StreamContent' = StreamContent
        BY <2>5, <3>1, <3>2, <3>4, ContentKept
      <4> QED BY <3>1, <3>2, <4>1 DEF ClientInv
    <3> QED BY <3>3, <3>4
  <2> QED BY <2>1, <2>2, <2>3, <2>4, <2>5 DEF VfsNext, Client
<1> QED BY <1>1, <1>2, WalkedAlways, PTL DEF VfsSpec

\* Types of what a client is shown and given.
THEOREM ClientTypeCorrect == VfsSpec => []VfsTypeOK
<1>1. ASSUME Walked, ClientInv, NEW bound \in Nat, bound = U64Max,
             base \in 0..bound, stream \in {0} \cup DOMAIN shown, status = "closed" => shown = <<>>
      PROVE  VfsTypeOK
  <2> DEFINE Shown == [id : {Default} \cup 0..U16Max, size : Nat]
  <2>1. shown \in Seq(Shown)
    <3>1. CASE status = "closed"
      BY <1>1, <3>1
    <3>2. CASE status # "closed"
      <4> DEFINE n == Len(listed[cnid])
                 entry(k) == [id |-> AtMost(k - 1, U16Max),
                              size |-> listed[cnid][k].value.size]
                 rest == [k \in DOMAIN listed[cnid] |-> entry(k)]
                 size == IF node.size = None THEN 0 ELSE CHOOSE s \in node.size : TRUE
                 head == [id |-> Default, size |-> size]
      <4>1. shown = <<head>> \o rest
        BY <1>1, <3>2 DEF ClientInv, StreamsShown
      <4>2. listed[cnid] \in Seq(HfsXattr) /\ U16Max \in Nat
        BY <1>1, VfsAssumption DEF ClientInv, Walked, TypeOK
      <4>3. n \in Nat /\ DOMAIN listed[cnid] = 1..n
        BY <4>2
      <4>4. size \in Nat
        <5>1. node.size \subseteq Nat
          BY <1>1, VfsAssumption DEF ClientInv, Node
        <5> QED BY <5>1 DEF None
      <4>5. head \in Shown
        BY <4>4
      <4>6. ASSUME NEW k \in 1..n PROVE entry(k) \in Shown
        <5>1. listed[cnid][k] \in HfsXattr
          BY <4>2, <4>3
        <5>2. listed[cnid][k].value.size \in Nat
          BY <5>1 DEF HfsXattr, Value
        <5>3. AtMost(k - 1, U16Max) \in 0..U16Max
          BY <4>2 DEF AtMost
        <5> QED BY <5>2, <5>3
      <4> HIDE DEF Shown, entry, head, size
      <4>7. rest \in Seq(Shown)
        BY <4>3, <4>6
      <4> HIDE DEF rest
      <4> QED BY <4>1, <4>5, <4>7
    <3> QED BY <3>1, <3>2
  <2> QED BY <1>1, <2>1 DEF VfsTypeOK, ClientInv
<1> DEFINE Rest ==
            /\ base \in 0..U64Max /\ stream \in {0} \cup DOMAIN shown
            /\ status = "closed" => shown = <<>> /\ stream = 0
            /\ status = "shown" => stream = 0
<1>2. VfsInit => Rest
  BY VfsAssumption DEF VfsInit
<1>3. Rest /\ [VfsNext]_<<vars, client>> => Rest'
  <2> SUFFICES ASSUME Rest, [VfsNext]_<<vars, client>> PROVE Rest'
    OBVIOUS
  <2>1. CASE UNCHANGED client
    BY <2>1 DEF client
  <2>2. CASE Open
    BY <2>2 DEF Open
  <2>3. CASE Choose
    BY <2>3, VfsAssumption DEF Choose
  <2>4. ASSUME NEW len \in BufferLens, Read_at(len) PROVE Rest'
    <3>1. UNCHANGED <<shown, stream, base>>
          /\ status = "open" /\ status' \in {"open", "ended", "failed"}
      BY <2>4 DEF Read_at
    <3> QED BY <3>1
  <2> QED BY <2>1, <2>2, <2>3, <2>4 DEF VfsNext, Client, client
<1>4. Walked /\ ClientInv /\ Rest => VfsTypeOK
  BY <1>1, VfsAssumption
<1> QED BY <1>2, <1>3, <1>4, WalkedAlways, ClientInvariant, PTL DEF VfsSpec

------------------------------------------------------------------------------
\* The adapter implements ByteStream: choosing a stream opens it, a call of read_at
\* delivers, ends or fails as the content has it, and all else is unseen.
THEOREM PiecesMakeTheStream == VfsSpec => PiecesMakeTheContent
<1> DEFINE told == IF status = "shown" THEN "closed" ELSE status
           seen == <<StreamContent, base, got, told>>
           Step == Stream!Open \/ Stream!Deliver \/ Stream!End \/ Stream!Fail
<1>1. VfsInit => Stream!Init
  BY DEF VfsInit, Stream!Init, StreamContent, None
<1>2. Walked /\ ClientInv /\ [VfsNext]_<<vars, client>> => [Step]_seen
  <2> SUFFICES ASSUME Walked, ClientInv, [VfsNext]_<<vars, client>> PROVE [Step]_seen
    OBVIOUS
  <2>1. CASE Next /\ UNCHANGED client
    <3>1. status = "closed"
      BY <2>1 DEF Next, Deliver, EndOfAttributes, ClientInv
    <3>2. UNCHANGED <<status, base, got>>
      BY <2>1 DEF client
    <3>3. StreamContent' = StreamContent
      BY <3>1, <3>2 DEF StreamContent
    <3> QED BY <3>2, <3>3
  <2>2. CASE Open
    <3>1. status = "closed" /\ status' = "shown" /\ UNCHANGED <<base, got>>
      BY <2>2 DEF Open
    <3>2. StreamContent' = StreamContent
      BY <3>1 DEF StreamContent
    <3> QED BY <3>1, <3>2
  <2>3. CASE Choose
    <3>1. /\ status = "shown" /\ status' = "open" /\ got' = got /\ got = <<>>
          /\ base' \in Nat
      BY <2>3, VfsAssumption DEF Choose, ClientInv
    <3>2. Stream!Open
      BY <3>1 DEF Stream!Open
    <3> QED BY <3>2
  <2>4. ASSUME NEW len \in BufferLens, Read_at(len) PROVE [Step]_seen
    <3>1. /\ status = "open" /\ StreamContent' = StreamContent /\ base' = base
      BY <2>4, ReadDelivers DEF Read_at
    <3>2. CASE StreamContent = {} /\ status' = "failed" /\ got' = got
      <4>1. Stream!Fail
        BY <3>1, <3>2 DEF Stream!Fail
      <4> QED BY <4>1
    <3>3. ASSUME NEW d \in StreamContent, base + Len(got) >= d.len,
                 status' = "ended", got' = got
          PROVE  [Step]_seen
      <4>1. Stream!End
        BY <3>1, <3>3 DEF Stream!End
      <4> QED BY <4>1
    <3>4. ASSUME NEW d \in StreamContent, StreamContent = {d}, status' = "open",
                 NEW n \in 1..(d.len - (base + Len(got))),
                 got' = got \o Stream!Bytes(d, base + Len(got), n)
          PROVE  [Step]_seen
      <4>1. Stream!Deliver
        BY <3>1, <3>4 DEF Stream!Deliver
      <4> QED BY <4>1
    <3> QED BY <2>4, <3>2, <3>3, <3>4, ReadDelivers
  <2>5. CASE UNCHANGED <<vars, client>>
    <3>1. UNCHANGED <<status, base, got>>
      BY <2>5 DEF client
    <3>2. CASE status \in {"closed", "shown"}
      BY <3>1, <3>2 DEF StreamContent
    <3>3. CASE status \notin {"closed", "shown"}
      <4>1. StreamContent' = StreamContent
        BY <2>5, <3>1, <3>3, ContentKept DEF client
      <4> QED BY <3>1, <4>1
    <3> QED BY <3>2, <3>3
  <2> QED BY <2>1, <2>2, <2>3, <2>4, <2>5 DEF VfsNext, Client
<1> QED BY <1>1, <1>2, WalkedAlways, ClientInvariant, PTL
        DEF VfsSpec, PiecesMakeTheContent, Stream!Spec, Stream!Next

\* What was shown of a stream is how much of it there is to read, where the invariants of
\* the walk say that what is read is what was listed.
THEOREM SizesShownAreRead == VfsSpec => []SizeShownIsRead
<1>1. ASSUME Walked, ClientInv, VfsTypeOK, status = "ended", base = 0,
             NEW d, StreamContent = {d}, d.len \in Nat, d.len = shown[stream].size
      PROVE  Len(got) = shown[stream].size
  <2>1. Len(got) \in Nat /\ (got = <<>> => Len(got) = 0)
    BY <1>1 DEF ClientInv
  <2>2. d.len <= Len(got) /\ (got # <<>> => Len(got) <= d.len)
    BY <1>1, <2>1 DEF ClientInv
  <2> QED BY <1>1, <2>1, <2>2
<1>2. Walked /\ ClientInv /\ VfsTypeOK => SizeShownIsRead
  <2> SUFFICES ASSUME Walked, ClientInv, VfsTypeOK, status = "ended", base = 0,
                      IF stream = 1
                      THEN /\ DecmpfsRecords = {}
                           /\ \A f \in node.forks : node.size = Some(f.data.got)
                      ELSE /\ listed[cnid][stream - 1].value.inline
                           /\ Distinct(stream - 1)
               PROVE  Len(got) = shown[stream].size
    BY DEF SizeShownIsRead
  <2>1. /\ cnid \in CNIDs /\ node \in Nodes
        /\ StreamOpened /\ status \notin {"closed", "shown"}
        /\ StreamContent # {}
    BY DEF ClientInv, StreamOpened
  <2>2. PICK d \in StreamContent : TRUE
    BY <2>1
  <2>3. StreamContent = {d} /\ d.len \in Nat
    BY <2>1, ReadsItsContent, VfsAssumption DEF Single, ProperContent
  <2>4. CASE stream = 1
    <3>1. StreamContent = UNION {DataFork(f) : f \in node.forks}
      BY <2>1, <2>4 DEF StreamContent, FileContent
    <3>2. PICK f \in node.forks : d \in DataFork(f)
      BY <2>3, <3>1
    <3>3. d.len = f.data.got
      <4> DEFINE len == f.data.got
                 src == <<"data fork">>
      <4>1. d = [src |-> src, len |-> len]
        BY <3>2, Zenon DEF DataFork, None, Some, Content
      <4> HIDE DEF len, src
      <4>2. d.len = len
        BY <4>1
      <4> QED BY <4>2 DEF len
    <3>4. node.size = {d.len}
      BY <2>4, <3>3 DEF Some
    <3>5. shown[1].size = d.len
      BY <2>1, <2>4, <3>4, ReadsItsContent DEF None
    <3> QED BY <1>1, <2>3, <2>4, <3>5
  <2>5. CASE stream # 1
    <3>1. StreamContent = {AttributeData(listed[cnid][stream - 1].value)}
      BY <2>1, <2>5 DEF StreamContent, AttributeContent, Some
    <3>2. d.len = listed[cnid][stream - 1].value.size
      BY <2>3, <3>1 DEF AttributeData, Content
    <3>3. shown[stream].size = d.len
      BY <2>1, <2>5, <3>2, ReadsItsContent
    <3> QED BY <1>1, <2>3, <3>3
  <2> QED BY <2>4, <2>5
<1> QED BY <1>2, WalkedAlways, ClientInvariant, ClientTypeCorrect, PTL
==============================================================================
