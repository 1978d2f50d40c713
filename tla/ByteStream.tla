------------------------------ MODULE ByteStream ------------------------------
(***************************************************************************)
(* What a client that reads a stream in pieces is promised: the stream has *)
(* one content from opening to end; the pieces are its bytes from the      *)
(* offset asked for on, each once and in order; the end is told when, and  *)
(* only when, none is left; and a stream fails only if it has no content.  *)
(*                                                                         *)
(* A content is [src, len]: bytes <<src, 1>> to <<src, len>>.              *)
(***************************************************************************)
EXTENDS Integers, Sequences

VARIABLES
    content,    \* the stream's content: a set of at most one
    base,       \* offset of the first byte asked for
    got,        \* the bytes delivered
    status      \* "closed", "open", then "ended" or "failed"

Init == content = {} /\ base = 0 /\ got = <<>> /\ status = "closed"

Open ==
    /\ status = "closed" /\ status' = "open"
    /\ base' \in Nat
    /\ got' = <<>>

\* Bytes from + 1 to from + n of a content.
Bytes(d, from, n) == [i \in 1..n |-> <<d.src, from + i>>]

Deliver ==
    /\ status = "open"
    /\ \E d \in content : LET at == base + Len(got) IN
        /\ content = {d}
        /\ \E n \in 1..(d.len - at) : got' = got \o Bytes(d, at, n)
    /\ UNCHANGED <<content, base, status>>

End ==
    /\ status = "open" /\ status' = "ended"
    /\ \E d \in content : base + Len(got) >= d.len
    /\ UNCHANGED <<content, base, got>>

Fail ==
    /\ status = "open" /\ status' = "failed"
    /\ content = {}
    /\ UNCHANGED <<content, base, got>>

Next == Open \/ Deliver \/ End \/ Fail

Spec == Init /\ [][Next]_<<content, base, got, status>>
==============================================================================
