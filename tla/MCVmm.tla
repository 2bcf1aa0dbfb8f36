------------------------------- MODULE MCVmm --------------------------------
(* Instances of Vmm for TLC. *)
EXTENDS Vmm

CONSTANTS p1, p2

\* Text and data on one page.
OnePage == <<0, 0>>

\* Frames are interchangeable.  While Isolation holds, a state is determined up
\* to a renaming of frames by which places are in use, the VMAs and brk, and
\* the number of free frames; a state in which it fails has a view of its own.
\* The properties read the ghost call after a step only, so it is left out, and
\* nothing happens after a stray call.  Comparing space with itself makes TLC
\* evaluate its functions before the state is stored.
FrameView ==
  IF strayed THEN <<"strayed">>
  ELSE <<[p \in {p \in Procs : Has(p)} |-> <<Mapped(p), HasTables(p), space[p].vmas, space[p].brk>>],
         Cardinality(free),
         IF Isolation /\ space = space THEN <<>> ELSE vars>>
=============================================================================
