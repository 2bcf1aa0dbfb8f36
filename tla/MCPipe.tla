------------------------------- MODULE MCPipe -------------------------------
(* Instances of Pipe for TLC. *)
EXTENDS Pipe, TLC

CONSTANTS p1, p2, p3

Forked == Permutations({p2, p3})

\* No step depends on the bytes of buf that were read already, nor on the
\* ghost delivered, which IsQueue compares within a step only.
LiveView ==
  <<Oldest(avail), read_pos, write_pos, avail, ends, rq, wq, op, state, halted>>
=============================================================================
