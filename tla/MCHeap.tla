------------------------------- MODULE MCHeap -------------------------------
(***************************************************************************)
(* Small instances of Heap.  A page has four units and a header two, so    *)
(* that splits, exact fits and remainders too small to split all happen.   *)
(***************************************************************************)
EXTENDS Heap

\* Classes with two objects and with none to the page.
TwoClasses == <<2, 8>>
=============================================================================
