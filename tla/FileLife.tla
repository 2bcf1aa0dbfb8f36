------------------------------ MODULE FileLife ------------------------------
(***************************************************************************)
(* What the descriptor layer promises of an open file: it stays open while *)
(* some process holds it, through any number of descriptors or a system    *)
(* call in progress, and its close callback runs when the last holder lets *)
(* go and at no other time.                                                *)
(***************************************************************************)
CONSTANTS Procs, Files

VARIABLES
  holds,  \* process -> the files it holds
  open    \* the files whose close callback has not run

Init ==
  /\ holds \in [Procs -> SUBSET Files]
  /\ open = UNION {holds[p] : p \in Procs}

\* Process p gets new files or files that q holds, and lets others go.
Change(p, q) ==
  /\ \A r \in Procs \ {p} : holds'[r] = holds[r]
  /\ (holds'[p] \ holds[p]) \cap open \subseteq holds[q]
  /\ open' = UNION {holds'[r] : r \in Procs}

Next == \E p, q \in Procs : Change(p, q)

Spec == Init /\ [][Next]_<<holds, open>>
=============================================================================
