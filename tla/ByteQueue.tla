------------------------------ MODULE ByteQueue ------------------------------
(***************************************************************************)
(* What a pipe promises: a bounded first-in first-out queue of bytes.      *)
(***************************************************************************)
EXTENDS Naturals, Sequences

CONSTANTS Bytes, Capacity

VARIABLES
  content,     \* the bytes written and not yet read
  delivered    \* what the last read returned

vars == <<content, delivered>>

Init == content = <<>> /\ delivered = <<>>

Send ==
  \E n \in 1 .. Capacity : \E s \in [1 .. n -> Bytes] :
    /\ Len(content) + n <= Capacity
    /\ content' = content \o s
    /\ UNCHANGED delivered

\* A read returns a prefix of the content, the whole of it or less.
Receive ==
  \E n \in 0 .. Len(content) :
    /\ delivered' = SubSeq(content, 1, n)
    /\ content' = SubSeq(content, n + 1, Len(content))

Spec == Init /\ [][Send \/ Receive]_vars
=============================================================================
