------------------------------- MODULE MCProc -------------------------------
(* Instances of Proc for TLC. *)
EXTENDS Proc, TLC

CONSTANTS a, b, c

Interchangeable == Permutations({a, b, c})

KillOne == {3}
KillGroups == {-2, 0, 1}
WaitAnyOrOne == {-1, 3}
WaitGroups == {-2, 0}

\* A one-shot handler that blocks other signals while it runs; SIG_IGN.
Handlers ==
  {<<SIGUSR1, [handler |-> "USER", mask |-> {SIGCHLD}, resethand |-> TRUE]>>,
   <<SIGCHLD, [handler |-> "IGN", mask |-> {}, resethand |-> FALSE]>>}
MaskSets == {{SIGUSR1, SIGKILL}}
=============================================================================
