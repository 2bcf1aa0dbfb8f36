-------------------------------- MODULE Vmm ---------------------------------
(***************************************************************************)
(* User address spaces (vmm.c): page tables, leaf mappings and VMAs, under *)
(* the system calls that build, copy and tear them down: execve, fork,     *)
(* mmap, munmap, brk and the destruction of a reaped process.              *)
(*                                                                         *)
(* Frames are the pages pmm_alloc hands out; it returns a free frame or    *)
(* fails when there is none (module Pmm).  Addresses are user page         *)
(* numbers.  The page tables between the PML4 and a page form a path of    *)
(* Levels tables, each of which covers Fan tables or pages below it.       *)
(* kmalloc may fail to find room for a VMA.  Protection bits, and mprotect *)
(* with them, which changes nothing else, and n_pages are left out.        *)
(*                                                                         *)
(* No call refuses an address beyond VMM_USER_END.  What such a call makes *)
(* of the tables of the kernel half, which all spaces share, is not        *)
(* modelled: it is recorded in `strayed` and the model goes no further.    *)
(***************************************************************************)
EXTENDS Integers, Sequences, FiniteSets, FiniteSetsExt, Functions

CONSTANTS
  Procs, init,
  NFrames,
  NPages,      \* user pages, VMM_USER_END
  Levels, Fan,
  Segments,    \* the pages of a program's PT_LOAD segments, in order; a page
               \* that two segments share occurs twice
  StackPages,  \* the last StackPages pages are its stack
  MaxLen,      \* bound on the length of an mmap or munmap
  MaxVmas      \* bound on the VMAs of a process

ASSUME VmmConstants ==
  /\ init \in Procs
  /\ NFrames \in Nat \ {0} /\ NPages \in Nat \ {0} /\ Levels \in Nat \ {0} /\ Fan \in Nat \ {0}
  /\ Segments \in Seq(0 .. (NPages - 1)) /\ StackPages \in 0 .. NPages
  /\ MaxLen \in Nat /\ MaxVmas \in Nat

VARIABLES
  free,    \* the free frames
  space,   \* process -> its address space, or NoSpace
  strayed, \* ghost: a call has changed something beyond VMM_USER_END
  call     \* ghost: the call of the last step and its arguments

vars == <<free, space, strayed, call>>

Frames == 1 .. NFrames
Pages == 0 .. (NPages - 1)
NULL == 0
NoSpace == [pml4 |-> NULL]

\* The number, among the tables of level l, of the one on the way to page v.
Index(l, v) == v \div (Fan ^ l)

Fresh(frame) ==
  [pml4 |-> frame, tab |-> [l \in 1 .. Levels |-> [i \in Pages |-> NULL]], pte |-> [v \in Pages |-> NULL],
   vmas |-> <<>>, brk |-> 0]

-----------------------------------------------------------------------------
(* The functions of vmm.c work on m: the free frames, one space, and       *)
(* whether the call in progress has failed.                                *)

Mem(F, s) == [free |-> F, s |-> s, ok |-> TRUE]

\* The table of level l for page v is there, or is allocated.
AddTable(m, l, v) ==
  IF ~m.ok \/ m.s.tab[l][Index(l, v)] # NULL THEN m
  ELSE IF m.free = {} THEN [m EXCEPT !.ok = FALSE]
  ELSE [m EXCEPT !.free = @ \ {Min(@)}, !.s.tab[l][Index(l, v)] = Min(m.free)]

\* The walk to page v from the top, with create.
vmm_get_pte(m, v) ==
  LET walk[l \in 1 .. (Levels + 1)] == IF l > Levels THEN m ELSE AddTable(walk[l + 1], l, v)
  IN walk[1]

vmm_map(m, v, frame) ==
  LET w == vmm_get_pte(m, v) IN IF w.ok THEN [w EXCEPT !.s.pte[v] = frame] ELSE w

\* vmm_virt_to_phys, vmm_unmap and pmm_free of every mapped page of S.
FreePages(m, S) ==
  [m EXCEPT !.free = @ \cup ({m.s.pte[v] : v \in S} \ {NULL}),
            !.s.pte = [v \in Pages |-> IF v \in S THEN NULL ELSE m.s.pte[v]]]

\* Wrong variant: the frame stays in the pool although it is mapped.
MapNewShared(m, v, checked) ==
  IF ~m.ok THEN m
  ELSE IF m.free = {} THEN [m EXCEPT !.ok = FALSE]
  ELSE vmm_map(m, v, Min(m.free))

\* pmm_alloc and vmm_map of page v.  The frame is given back if the map fails
\* and the caller checks; otherwise it is lost.
MapNew(m, v, checked) ==
  IF ~m.ok THEN m
  ELSE IF m.free = {} THEN [m EXCEPT !.ok = FALSE]
  ELSE LET frame == Min(m.free)
           w == vmm_map([m EXCEPT !.free = @ \ {frame}], v, frame)
       IN IF w.ok THEN w
          ELSE IF checked THEN [w EXCEPT !.free = @ \cup {frame}] ELSE [w EXCEPT !.ok = TRUE]

\* MapNew for n pages from v on, up to the first failure.
MapRange(m, v, n, checked) ==
  LET loop[i \in 0 .. n] == IF i = 0 THEN m ELSE MapNew(loop[i - 1], v + i - 1, checked)
  IN loop[n]

VmaPages(s) == UNION {s.vmas[i].start .. (s.vmas[i].end - 1) : i \in DOMAIN s.vmas}

\* Wrong variant: the tables are not freed.
DestroyKeepsTables(F, s) == FreePages(Mem(F, s), VmaPages(s)).free \cup {s.pml4}

\* The free frames after vmm_destroy_space: the mapped pages of the VMAs, the
\* tables and the PML4 are freed.
vmm_destroy_space(F, s) ==
  FreePages(Mem(F, s), VmaPages(s)).free \cup (UNION {Range(s.tab[l]) : l \in 1 .. Levels} \ {NULL})
    \cup {s.pml4}

\* vmm_create_space: the memory with the new space, or no success.
vmm_create_space(F) ==
  IF F = {} THEN [free |-> F, s |-> NoSpace, ok |-> FALSE]
  ELSE Mem(F \ {Min(F)}, Fresh(Min(F)))

\* elf_map_segment for each segment; a page mapped already is used again.
LoadSegments(m) ==
  LET loop[i \in 0 .. Len(Segments)] ==
        IF i = 0 THEN m
        ELSE IF loop[i - 1].s.pte[Segments[i]] # NULL THEN loop[i - 1]
        ELSE MapNew(loop[i - 1], Segments[i], TRUE)
  IN loop[Len(Segments)]

\* The stack of elf_load.
LoadStack(m) == MapRange(m, NPages - StackPages, StackPages, FALSE)

\* What elf_load has built when it fails at a file it does not accept, after
\* the segments or after the stack, or when it is done.
Stops == {"header", "segments", "stack", "done"}
elf_load(new, stop) ==
  CASE stop = "header"   -> new
    [] stop = "segments" -> LoadSegments(new)
    [] stop \in {"stack", "done"} -> LoadStack(LoadSegments(new))

Loaded(m) == [m.s EXCEPT !.brk = Max({0} \cup {v + 1 : v \in Range(Segments)})]

\* init has been started by a successful proc_exec.
Init ==
  LET m == elf_load(vmm_create_space(Frames), "done")
  IN /\ m.ok
     /\ free = m.free /\ space = [p \in Procs |-> IF p = init THEN Loaded(m) ELSE NoSpace]
     /\ strayed = FALSE /\ call = <<"boot">>

-----------------------------------------------------------------------------
(* System calls *)

Has(p) == space[p] # NoSpace

\* Windows of n unmapped pages from hint on, by their first page.
Windows(s, hint, n) ==
  {v \in hint .. (NPages - n) : \A i \in v .. (v + n - 1) : s.pte[i] = NULL}

\* Wrong variant: the pages mapped before the failure stay.
AllocNoRollback(s, v, n) == MapRange(Mem(free, s), v, n, TRUE)

\* vmm_alloc_user at v: all pages, or a rollback of those already mapped.
AllocAt(s, v, n) ==
  LET m == MapRange(Mem(free, s), v, n, TRUE)
  IN IF m.ok THEN m ELSE FreePages(m, v .. (v + n - 1))

\* vmm_create_vma, whose result nobody looks at: found, kzalloc has room for it.
vmm_create_vma(s, v, n, found) ==
  IF found THEN [s EXCEPT !.vmas = Append(@, [start |-> v, end |-> v + n])] ELSE s

\* sys_mmap; a file mapping differs in the contents of the pages only.
sys_mmap(p, hint, n, found) ==
  /\ call' = <<"mmap", p, n>>
  /\ n > 0
  /\ Len(space[p].vmas) < MaxVmas
  /\ Windows(space[p], hint, n) # {}
  /\ LET v == Min(Windows(space[p], hint, n))
         m == AllocAt(space[p], v, n)
     IN /\ free' = m.free
        /\ space' = [space EXCEPT ![p] = IF m.ok THEN vmm_create_vma(m.s, v, n, found) ELSE m.s]
  /\ UNCHANGED strayed

sys_munmap(p, v, n) ==
  /\ call' = <<"munmap", p>>
  /\ LET m == FreePages(Mem(free, space[p]), v .. (v + n - 1))
     IN free' = m.free /\ space' = [space EXCEPT ![p] = m.s]
  /\ UNCHANGED strayed

\* sys_munmap of the page where the kernel maps the whole memory and frame lies:
\* vmm_virt_to_phys finds frame, vmm_unmap leaves a huge page alone, and
\* pmm_free frees frame, or panics if it is free.
munmap_direct_map(p, frame) ==
  /\ call' = <<"stray", p>>
  /\ free' = free \cup {frame}
  /\ strayed' = TRUE
  /\ UNCHANGED space

\* sys_mmap whose range wraps round the end of the address space, or sys_brk
\* beyond VMM_USER_END: a frame is mapped there.
map_beyond_user(p) ==
  /\ call' = <<"stray", p>>
  /\ free # {}
  /\ free' = free \ {Min(free)}
  /\ strayed' = TRUE
  /\ UNCHANGED space

\* sys_brk.  When memory runs out brk stays and the pages mapped so far stay
\* mapped; a page mapped already is replaced.
sys_brk(p, new) ==
  /\ call' = <<"brk", p>>
  /\ new > 0
  /\ LET s == space[p]
         m == IF new > s.brk THEN MapRange(Mem(free, s), s.brk, new - s.brk, FALSE)
              ELSE FreePages(Mem(free, s), new .. (s.brk - 1))
     IN /\ free' = m.free
        /\ space' = [space EXCEPT ![p] = IF m.ok THEN [m.s EXCEPT !.brk = new] ELSE m.s]
  /\ UNCHANGED strayed

\* vmm_clone_space into the new space m.s: for each VMA, the pages that are
\* mapped in src, as far as the frames go, then the VMA, as kmalloc has room for
\* those in found.  A page of two VMAs is copied twice, and the first copy lost.
CloneInto(m, src, found) ==
  LET ClonePage(a, v) ==
        IF src.pte[v] = NULL THEN a ELSE [MapNew(a, v, FALSE) EXCEPT !.ok = TRUE]
      CloneVma(a, vma) ==
        LET page[v \in (vma.start - 1) .. (vma.end - 1)] ==
              IF v < vma.start THEN a ELSE ClonePage(page[v - 1], v)
        IN page[vma.end - 1]
      loop[i \in 0 .. Len(src.vmas)] ==
        IF i = 0 THEN m
        ELSE LET a == CloneVma(loop[i - 1], src.vmas[i])
             IN IF i \in found THEN [a EXCEPT !.s.vmas = Append(@, src.vmas[i])] ELSE a
  IN [loop[Len(src.vmas)] EXCEPT !.s.brk = src.brk]

\* The address space in proc_fork; stackOk: the kernel stack and the
\* descriptor table that are allocated after it were found.
proc_fork(p, c, stackOk, found) ==
  /\ call' = <<"fork", p, c>>
  /\ ~Has(c)
  /\ LET m == vmm_create_space(free)
         d == CloneInto(m, space[p], found)
     IN IF ~m.ok THEN UNCHANGED <<free, space>>
        ELSE IF stackOk THEN free' = d.free /\ space' = [space EXCEPT ![c] = d.s]
        ELSE free' = vmm_destroy_space(d.free, d.s) /\ UNCHANGED space
  /\ UNCHANGED strayed

\* proc_exec.  elf_load fails because the file is missing or no program, the
\* heap has no room for a buffer, or the frames run out.
proc_exec(p, stop) ==
  /\ call' = <<"exec", p>>
  /\ LET new == vmm_create_space(free)
         m == elf_load(new, stop)
     IN IF ~new.ok THEN UNCHANGED <<free, space>>
        ELSE IF ~m.ok \/ stop # "done"
        THEN free' = vmm_destroy_space(m.free, m.s) /\ UNCHANGED space
        ELSE free' = vmm_destroy_space(m.free, space[p]) /\ space' = [space EXCEPT ![p] = Loaded(m)]
  /\ UNCHANGED strayed

\* proc_destroy of a process that has exited.
proc_destroy(p) ==
  /\ call' = <<"destroy", p>>
  /\ p # init
  /\ free' = vmm_destroy_space(free, space[p])
  /\ space' = [space EXCEPT ![p] = NoSpace]
  /\ UNCHANGED strayed

Stop == strayed /\ UNCHANGED vars

Next ==
  \/ /\ ~strayed
     /\ \E p \in {q \in Procs : Has(q)} :
          \/ \E hint \in Pages, n \in 1 .. MaxLen, found \in BOOLEAN : sys_mmap(p, hint, n, found)
          \/ \E v \in Pages, n \in 1 .. MaxLen : v + n <= NPages /\ sys_munmap(p, v, n)
          \/ \E frame \in Frames : munmap_direct_map(p, frame)
          \/ map_beyond_user(p)
          \/ \E new \in 1 .. NPages : sys_brk(p, new)
          \/ \E c \in Procs, stackOk \in BOOLEAN, found \in SUBSET DOMAIN space[p].vmas :
               proc_fork(p, c, stackOk, found)
          \/ \E stop \in Stops : proc_exec(p, stop)
          \/ proc_destroy(p)
  \/ Stop

Spec == Init /\ [][Next]_vars

-----------------------------------------------------------------------------
(* Properties *)

Mapped(p) == {v \in Pages : space[p].pte[v] # NULL}
HasTables(p) == {t \in (1 .. Levels) \X Pages : space[p].tab[t[1]][t[2]] # NULL}

\* The frames a process uses, for its pages, its tables and its PML4.
UsedBy(p) ==
  IF Has(p) THEN {space[p].pte[v] : v \in Mapped(p)} \cup {space[p].tab[t[1]][t[2]] : t \in HasTables(p)}
                 \cup {space[p].pml4}
  ELSE {}

Lost == Frames \ (free \cup UNION {UsedBy(p) : p \in Procs})

\* Address spaces are isolated, as long as no call has named an address beyond
\* VMM_USER_END: a frame is a page or a table of one process at one place, is
\* not free meanwhile, and a mapped page is below tables that exist.  No order of mmap,
\* munmap, brk, fork, exec and destruction, with any of their allocations
\* failing, frees a frame that is mapped or maps a frame twice.
Isolation ==
  ~strayed => \A p \in Procs : Has(p) =>
    /\ Cardinality(UsedBy(p)) = Cardinality(Mapped(p)) + Cardinality(HasTables(p)) + 1
    /\ UsedBy(p) \cap free = {}
    /\ \A v \in Mapped(p), l \in 1 .. Levels : space[p].tab[l][Index(l, v)] # NULL
    /\ \A q \in Procs \ {p} : UsedBy(p) \cap UsedBy(q) = {}

\* mmap maps the whole range or, after its rollback, nothing; it leaves what was
\* mapped alone and loses no frame either way.  Only a range that was mapped
\* gets a VMA; when kzalloc has no room for it, it has none.
MmapAllOrNothing ==
  [][\A p \in Procs, n \in 1 .. MaxLen : call' = <<"mmap", p, n>> =>
       LET old == space[p]
           new == space'[p]
       IN /\ Lost' = Lost
          /\ \A v \in Mapped(p) : new.pte[v] = old.pte[v]
          /\ \/ Mapped(p)' = Mapped(p) /\ new.vmas = old.vmas
             \/ \E v \in Pages :
                  /\ Mapped(p)' \ Mapped(p) = v .. (v + n - 1)
                  /\ new.vmas \in {old.vmas, Append(old.vmas, [start |-> v, end |-> v + n])}
    ]_vars

\* The frames of the pages of p that no VMA covers: those of its program, stack
\* and heap, as elf_load and brk record none, and of VMAs kmalloc had no room for.
Unlisted(p) == {space[p].pte[v] : v \in Mapped(p) \ VmaPages(space[p])}

\* Reaping a process gives back every frame it uses, however its VMAs overlap
\* and whatever munmap and brk took out of them or mapped over them, except the
\* pages without a VMA, which are lost; munmap itself loses nothing.
ReapingGivesBack ==
  [][\A p \in Procs :
       /\ call' = <<"destroy", p>> =>
            free' \ free = UsedBy(p) \ Unlisted(p) /\ Lost' \ Lost = Unlisted(p)
       /\ call' = <<"munmap", p>> => Lost' = Lost
    ]_vars
=============================================================================
