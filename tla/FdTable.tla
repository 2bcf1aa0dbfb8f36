------------------------------ MODULE FdTable -------------------------------
(***************************************************************************)
(* Descriptor tables (process.c) and the reference counts of the open      *)
(* files they share (vfs.c), under the system calls that create, copy and  *)
(* drop descriptors.                                                       *)
(*                                                                         *)
(* A system call is one step unless it sleeps: a read or a write that      *)
(* blocks keeps the reference get_file() took until it resumes.  Calls     *)
(* that take and release that reference without sleeping (lseek, fstat,    *)
(* ioctl, getdents64, F_GETFD, F_GETFL, F_SETFL) leave this state alone.   *)
(***************************************************************************)
EXTENDS Integers, FiniteSets, FiniteSetsExt

CONSTANTS
  Procs,
  init,      \* the process kernel_main_thread starts
  Files,     \* bound on the files open at once
  con,       \* the console, open on descriptors 0, 1 and 2 of init
  FD_MAX,
  NULL

ASSUME FdConstants ==
  /\ IsFiniteSet(Procs) /\ init \in Procs
  /\ IsFiniteSet(Files) /\ con \in Files
  /\ NULL \notin Files
  /\ FD_MAX \in Nat /\ FD_MAX >= 3

VARIABLES
  fdt,    \* process -> fds (descriptor -> file) and the descriptors flagged
          \* FD_FLAG_CLOEXEC
  file,   \* file -> refcount, and whether it exists (its close callback has
          \* not run and it has not been freed)
  busy,   \* process -> the file its sleeping read or write has referenced
  state   \* process -> none, alive or zombie

vars == <<fdt, file, busy, state>>

Fds == 0 .. (FD_MAX - 1)

EmptyTable == [fds |-> [i \in Fds |-> NULL], cloexec |-> {}]

Init ==
  /\ fdt = [p \in Procs |->
              IF p = init THEN [EmptyTable EXCEPT !.fds = [i \in Fds |-> IF i <= 2 THEN con ELSE NULL]]
              ELSE EmptyTable]
  /\ file = [f \in Files |-> IF f = con THEN [refcount |-> 3, exists |-> TRUE]
                             ELSE [refcount |-> 0, exists |-> FALSE]]
  /\ busy = [p \in Procs |-> NULL]
  /\ state = [p \in Procs |-> IF p = init THEN "alive" ELSE "none"]

Calls(p) == state[p] = "alive" /\ busy[p] = NULL

-----------------------------------------------------------------------------
(* Reference counts.  Each operator gives the files after the call, from   *)
(* the files F before it.                                                  *)

file_alloc(F, f) == [F EXCEPT ![f] = [refcount |-> 1, exists |-> TRUE]]

file_get(F, f) == [F EXCEPT ![f].refcount = @ + 1]

\* n calls of file_put; the one that reaches zero closes and frees the file.
Less(r, n) == [refcount |-> r.refcount - n, exists |-> r.exists /\ r.refcount \notin 1 .. n]

\* Wrong variant: the file is closed one reference too early.
file_put_early(F, f) ==
  IF f = NULL THEN F
  ELSE [F EXCEPT ![f] = [refcount |-> @.refcount - 1, exists |-> @.exists /\ @.refcount > 2]]

file_put(F, f) == IF f = NULL THEN F ELSE [F EXCEPT ![f] = Less(@, 1)]

\* The descriptors of table t that refer to f.
Slots(t, f) == {i \in Fds : t.fds[i] = f}

-----------------------------------------------------------------------------
(* Descriptor tables *)

Free(t) == Slots(t, NULL)

\* Wrong variant: the flag of the descriptor's previous file stays.
SetKeepFlag(t, i, f) == [t EXCEPT !.fds[i] = f]

\* fds[i] = f, flags[i] = 0
Set(t, i, f) == [fds |-> [t.fds EXCEPT ![i] = f], cloexec |-> t.cloexec \ {i}]

\* The table and the files after fd_alloc(t, f), and the descriptor or -1.
fd_alloc(t, F, f) ==
  IF Free(t) = {} THEN [t |-> t, F |-> F, fd |-> -1]
  ELSE LET i == Min(Free(t)) IN [t |-> Set(t, i, f), F |-> file_get(F, f), fd |-> i]

fd_close(t, F, i) ==
  IF i \notin Fds \/ t.fds[i] = NULL THEN [t |-> t, F |-> F]
  ELSE [t |-> Set(t, i, NULL), F |-> file_put(F, t.fds[i])]

\* The files after one file_put for every descriptor of S in table t.
PutAll(F, t, S) == [f \in Files |-> Less(F[f], Cardinality(S \cap Slots(t, f)))]

\* The files after one file_get for every descriptor of table t.
GetAll(F, t) == [f \in Files |-> [F[f] EXCEPT !.refcount = @ + Cardinality(Slots(t, f))]]

-----------------------------------------------------------------------------
(* System calls *)

\* sys_open; vfs_open makes the file, or fails and changes nothing.
sys_open(p, f) ==
  /\ Calls(p) /\ ~file[f].exists
  /\ LET a == fd_alloc(fdt[p], file_alloc(file, f), f)
     IN fdt' = [fdt EXCEPT ![p] = a.t] /\ file' = file_put(a.F, f)
  /\ UNCHANGED <<busy, state>>

sys_close(p, i) ==
  /\ Calls(p)
  /\ LET a == fd_close(fdt[p], file, i)
     IN fdt' = [fdt EXCEPT ![p] = a.t] /\ file' = a.F
  /\ UNCHANGED <<busy, state>>

\* sys_pipe with the files r and w that pipe_create returns.  If the second
\* descriptor does not fit, the first is closed again; if copy_to_user fails,
\* both stay.
sys_pipe(p, r, w) ==
  /\ Calls(p) /\ r # w /\ ~file[r].exists /\ ~file[w].exists
  /\ LET a == fd_alloc(fdt[p], file_alloc(file_alloc(file, r), w), r)
         b == fd_alloc(a.t, a.F, w)
         F == file_put(file_put(b.F, r), w)
         c == IF b.fd < 0 THEN fd_close(b.t, F, a.fd) ELSE [t |-> b.t, F |-> F]
     IN fdt' = [fdt EXCEPT ![p] = c.t] /\ file' = c.F
  /\ UNCHANGED <<busy, state>>

\* sys_dup; with cloexec, F_DUPFD_CLOEXEC of sys_fcntl.
sys_dup(p, i, cloexec) ==
  /\ Calls(p) /\ fdt[p].fds[i] # NULL
  /\ LET f == fdt[p].fds[i]
         a == fd_alloc(fdt[p], file_get(file, f), f)
     IN /\ fdt' = [fdt EXCEPT ![p] =
                     IF cloexec /\ a.fd >= 0 THEN [a.t EXCEPT !.cloexec = @ \cup {a.fd}] ELSE a.t]
        /\ file' = file_put(a.F, f)
  /\ UNCHANGED <<busy, state>>

\* Wrong variant: the file the descriptor referred to is not released.
dup2_no_put(p, i, j) ==
  /\ Calls(p) /\ i # j /\ fdt[p].fds[i] # NULL
  /\ j \in Fds
  /\ fdt' = [fdt EXCEPT ![p] = Set(fdt[p], j, fdt[p].fds[i])]
  /\ file' = file_get(file, fdt[p].fds[i])
  /\ UNCHANGED <<busy, state>>

\* sys_dup2 and fd_alloc_at.  With j out of range nothing changes, and the
\* call returns j.
sys_dup2(p, i, j) ==
  /\ Calls(p) /\ i # j /\ fdt[p].fds[i] # NULL
  /\ j \in Fds
  /\ LET f == fdt[p].fds[i]
     IN /\ file' = file_put(file_get(file_put(file_get(file, f), fdt[p].fds[j]), f), f)
        /\ fdt' = [fdt EXCEPT ![p] = Set(fdt[p], j, f)]
  /\ UNCHANGED <<busy, state>>

\* F_SETFD of sys_fcntl.
set_cloexec(p, i, on) ==
  /\ Calls(p) /\ fdt[p].fds[i] # NULL
  /\ fdt' = [fdt EXCEPT ![p].cloexec = IF on THEN @ \cup {i} ELSE @ \ {i}]
  /\ UNCHANGED <<file, busy, state>>

\* sys_read or sys_write going to sleep.
sys_read(p, i) ==
  /\ Calls(p) /\ fdt[p].fds[i] # NULL
  /\ busy' = [busy EXCEPT ![p] = fdt[p].fds[i]]
  /\ file' = file_get(file, fdt[p].fds[i])
  /\ UNCHANGED <<fdt, state>>

\* The sleeping read or write goes on and returns.
Resume(p) ==
  /\ busy[p] # NULL
  /\ file' = file_put(file, busy[p])
  /\ busy' = [busy EXCEPT ![p] = NULL]
  /\ UNCHANGED <<fdt, state>>

\* Wrong variant: the references of the copies are not counted.
fork_no_get(p, c) ==
  /\ Calls(p) /\ state[c] = "none"
  /\ fdt' = [fdt EXCEPT ![c] = fdt[p]]
  /\ state' = [state EXCEPT ![c] = "alive"]
  /\ UNCHANGED <<file, busy>>

\* fd_table_clone in proc_fork.
proc_fork(p, c) ==
  /\ Calls(p) /\ state[c] = "none"
  /\ fdt' = [fdt EXCEPT ![c] = fdt[p]]
  /\ file' = GetAll(file, fdt[p])
  /\ state' = [state EXCEPT ![c] = "alive"]
  /\ UNCHANGED busy

\* fd_close_on_exec in proc_exec.
proc_exec(p) ==
  /\ Calls(p)
  /\ fdt' = [fdt EXCEPT ![p] =
               [fds |-> [i \in Fds |-> IF i \in @.cloexec THEN NULL ELSE @.fds[i]], cloexec |-> {}]]
  /\ file' = PutAll(file, fdt[p], fdt[p].cloexec)
  /\ UNCHANGED <<busy, state>>

\* Wrong variant: the closed descriptors stay in the table.
exit_keeps_table(p) ==
  /\ Calls(p)
  /\ file' = PutAll(file, fdt[p], Fds)
  /\ state' = [state EXCEPT ![p] = "zombie"]
  /\ UNCHANGED <<fdt, busy>>

\* The closing of all descriptors in proc_exit.
proc_exit(p) ==
  /\ Calls(p)
  /\ file' = PutAll(file, fdt[p], Fds)
  /\ fdt' = [fdt EXCEPT ![p] = EmptyTable]
  /\ state' = [state EXCEPT ![p] = "zombie"]
  /\ UNCHANGED busy

\* fd_table_destroy in proc_destroy, when the parent reaps the process; init
\* has none.
fd_table_destroy(p) ==
  /\ state[p] = "zombie" /\ p # init
  /\ file' = PutAll(file, fdt[p], Fds)
  /\ fdt' = [fdt EXCEPT ![p] = EmptyTable]
  /\ state' = [state EXCEPT ![p] = "none"]
  /\ UNCHANGED busy

Next ==
  \E p \in Procs :
    \/ \E f \in Files : sys_open(p, f)
    \/ \E r, w \in Files : sys_pipe(p, r, w)
    \/ \E i \in Fds : sys_close(p, i)
    \/ \E i \in Fds, cloexec \in BOOLEAN : sys_dup(p, i, cloexec)
    \/ \E i, j \in Fds : sys_dup2(p, i, j)
    \/ \E i \in Fds, on \in BOOLEAN : set_cloexec(p, i, on)
    \/ \E i \in Fds : sys_read(p, i)
    \/ Resume(p)
    \/ \E c \in Procs : proc_fork(p, c)
    \/ proc_exec(p)
    \/ proc_exit(p)
    \/ fd_table_destroy(p)

Spec == Init /\ [][Next]_vars

-----------------------------------------------------------------------------
(* Properties *)

Table == [fds : [Fds -> Files \cup {NULL}], cloexec : SUBSET Fds]

\* Every descriptor is empty or refers to a file.  fd_close and proc_exit
\* clear the flag with the descriptor, so only used descriptors carry
\* close-on-exec and none is passed on to a later file.
TypeOK ==
  /\ fdt \in [Procs -> Table]
  /\ \A p \in Procs : fdt[p].cloexec \cap Free(fdt[p]) = {}
  /\ file \in [Files -> [refcount : Nat, exists : BOOLEAN]]
  /\ busy \in [Procs -> Files \cup {NULL}]
  /\ state \in [Procs -> {"none", "alive", "zombie"}]

\* The references to f that exist: descriptors, and system calls in progress.
Descriptors(f) == {d \in Procs \X Fds : fdt[d[1]].fds[d[2]] = f}
InCalls(f) == {p \in Procs : busy[p] = f}

\* The reference count of a file is the number of references to it in all
\* tables and in the calls that sleep, whatever sequence of fork, dup, dup2,
\* exec, exit and failed calls led there: file_get and file_put are paired on
\* every path.
RefsExact ==
  \A f \in Files : file[f].refcount = Cardinality(Descriptors(f)) + Cardinality(InCalls(f))

\* No table and no sleeping call refers to a file that file_put has freed,
\* and a file nobody refers to has been freed: nothing dangles or leaks.
ExistsIffReferenced ==
  \A f \in Files : file[f].exists <=> Descriptors(f) \cup InCalls(f) # {}

\* A process that does not run holds nothing: after proc_exit its descriptors
\* keep no pipe end open, however long it stays a zombie.
OnlyLiveHold ==
  \A p \in Procs : state[p] # "alive" => Free(fdt[p]) = Fds /\ busy[p] = NULL

Life == INSTANCE FileLife WITH
  holds <- [p \in Procs |-> ({fdt[p].fds[i] : i \in Fds} \cup {busy[p]}) \ {NULL}],
  open <- {f \in Files : file[f].exists}

\* The counts implement lifetimes by holders: the close callback of a file
\* runs in the very step in which its last holder lets go, and a process gets
\* a file only by making it or from a process that holds it.
LifeByHolders == Life!Spec
=============================================================================
