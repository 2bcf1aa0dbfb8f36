-------------------------------- MODULE Heap --------------------------------
(***************************************************************************)
(* The kernel heap (heap.c): slab caches of fixed sizes in front of a      *)
(* best-fit free list.  The kernel is not preempted and no interrupt       *)
(* handler allocates, so each call is one step.                            *)
(*                                                                         *)
(* Addresses and sizes are in units of HEAP_ALIGN, from HEAP_VIRT_BASE on; *)
(* a block header is HDR units long.  A header's magic is the field free,  *)
(* and the free list, linked through the headers, is the sequence of its   *)
(* blocks.  pmm_alloc has `frames` pages left; kernel page tables and the  *)
(* counters other than current_usage are left out.                         *)
(*                                                                         *)
(* Writing a header or a mapping over memory that is in use makes what the *)
(* next calls read unpredictable: the model records it in `damaged` and    *)
(* goes no further.                                                        *)
(***************************************************************************)
EXTENDS Integers, Sequences, FiniteSets, FiniteSetsExt, Functions, TLC

CONSTANTS
  PAGE,         \* PAGE_SIZE
  HDR,          \* HEAP_BLOCK_HDR_SIZE
  MIN_SIZE,     \* HEAP_MIN_SIZE
  INIT_SIZE,    \* HEAP_INIT_SIZE
  GROW_SIZE,    \* HEAP_GROW_SIZE
  SLAB_SIZES,   \* ascending object sizes
  NFrames,      \* pages pmm_alloc can give after heap_init
  Requests      \* bound: the sizes asked for

ASSUME HeapConstants ==
  /\ PAGE \in Nat \ {0} /\ HDR \in Nat \ {0} /\ MIN_SIZE \in Nat \ {0} /\ NFrames \in Nat
  /\ PAGE > HDR /\ INIT_SIZE \in Nat \ {0} /\ INIT_SIZE % PAGE = 0
  /\ GROW_SIZE \in Nat \ {0} /\ GROW_SIZE % PAGE = 0
  /\ SLAB_SIZES \in Seq(Nat \ {0}) /\ Requests \subseteq Nat \ {0}

VARIABLES
  heap,      \* [blk, g_free_list, g_heap_end, slab_virt, caches, current_usage, frames]
  live,      \* ghost: allocated address -> the size asked for
  halted,    \* PANIC was called
  damaged,   \* ghost: memory in use was overwritten
  call       \* ghost: the last call, its argument and its result

vars == <<heap, live, halted, damaged, call>>

NULL == -1
Caches == DOMAIN SLAB_SIZES
AlignUp(n, to) == ((n + to - 1) \div to) * to

\* heap_init, which stops early when the frames run out and makes one block of
\* the pages it got; with no page at all it faults.
Init ==
  /\ \E n \in 1 .. (INIT_SIZE \div PAGE) :
       heap = [blk |-> (0 :> [free |-> TRUE, size |-> n * PAGE - HDR]), g_free_list |-> <<0>>,
               g_heap_end |-> n * PAGE, slab_virt |-> INIT_SIZE,
               caches |-> [i \in Caches |-> [free_list |-> <<>>, total |-> 0, used |-> 0]],
               current_usage |-> 0, frames |-> IF n * PAGE = INIT_SIZE THEN NFrames ELSE 0]
  /\ live = << >> /\ halted = FALSE /\ damaged = FALSE /\ call = <<"heap_init">>

-----------------------------------------------------------------------------
(* Slab caches *)

\* A page that is smaller than an object gives no object.
slab_cache_grow(h, i) ==
  LET size == SLAB_SIZES[i]
      n == PAGE \div size
  IN IF h.frames = 0 THEN h
     ELSE [h EXCEPT !.frames = @ - 1, !.slab_virt = @ + PAGE, !.caches[i].total = @ + n,
                    !.caches[i].free_list = [k \in 1 .. n |-> h.slab_virt + (n - k) * size] \o @]

\* Wrong variant: the object stays on the free list.
SlabAllocKeeps(h, i) ==
  LET g == IF h.caches[i].free_list = <<>> THEN slab_cache_grow(h, i) ELSE h
      objs == g.caches[i].free_list
  IN IF objs = <<>> THEN [h |-> g, ptr |-> NULL]
     ELSE [h |-> [g EXCEPT !.caches[i].used = @ + 1, !.current_usage = @ + SLAB_SIZES[i]], ptr |-> Head(objs)]

slab_alloc(h, i) ==
  LET g == IF h.caches[i].free_list = <<>> THEN slab_cache_grow(h, i) ELSE h
      objs == g.caches[i].free_list
  IN IF objs = <<>> THEN [h |-> g, ptr |-> NULL]
     ELSE [h |-> [g EXCEPT !.caches[i].free_list = Tail(objs), !.caches[i].used = @ + 1,
                           !.current_usage = @ + SLAB_SIZES[i]],
           ptr |-> Head(objs)]

slab_find_cache(size) ==
  LET fit == {i \in Caches : size <= SLAB_SIZES[i]} IN IF fit = {} THEN 0 ELSE Min(fit)

-----------------------------------------------------------------------------
(* The general heap *)

\* When the pages run out those mapped so far stay behind g_heap_end, in no
\* block.
heap_grow(h, need) ==
  LET n == AlignUp(need + HDR, GROW_SIZE) \div PAGE
      start == h.g_heap_end
  IN IF h.frames < n
     THEN [ok |-> FALSE, h |-> [h EXCEPT !.frames = 0, !.g_heap_end = @ + h.frames * PAGE]]
     ELSE [ok |-> TRUE,
           h |-> [h EXCEPT !.frames = @ - n, !.g_heap_end = @ + n * PAGE,
                           !.blk = (start :> [free |-> TRUE, size |-> n * PAGE - HDR]) @@ @,
                           !.g_free_list = <<start>> \o @]]

\* Wrong variant: the first block that fits.
FirstFit(h, size) ==
  LET fit == {k \in DOMAIN h.g_free_list : h.blk[h.g_free_list[k]].size >= size}
  IN IF fit = {} THEN 0 ELSE Min(fit)

\* The place in the free list of the first of the smallest blocks that fit.
BestFit(h, size) ==
  LET Size(k) == h.blk[h.g_free_list[k]].size
      fit == {k \in DOMAIN h.g_free_list : Size(k) >= size}
  IN IF fit = {} THEN 0 ELSE Min({k \in fit : \A j \in fit : Size(k) <= Size(j)})

\* Wrong variant: a remainder too small for a header is split off too.
TakeSplitsAlways(h, k, size) ==
  LET best == h.g_free_list[k]
      split == best + HDR + size
      whole == h.blk[best].size
  IN [ptr |-> best + HDR,
      h |-> [h EXCEPT !.current_usage = @ + whole, !.g_free_list[k] = split,
                      !.blk = (best :> [free |-> FALSE, size |-> whole])
                                @@ (split :> [free |-> TRUE, size |-> whole - size - HDR]) @@ @]]

\* Takes the k-th free block for size units.  The rest becomes a block in its
\* place in the list if it is large enough; the size of the block taken is
\* not changed.
Take(h, k, size) ==
  LET best == h.g_free_list[k]
      split == best + HDR + size
      whole == h.blk[best].size
      used == (best :> [free |-> FALSE, size |-> whole])
      out == [h EXCEPT !.current_usage = @ + whole]
  IN [ptr |-> best + HDR,
      h |-> IF whole >= size + HDR + MIN_SIZE
            THEN [out EXCEPT !.blk = used @@ (split :> [free |-> TRUE, size |-> whole - size - HDR]) @@ @,
                             !.g_free_list[k] = split]
            ELSE [out EXCEPT !.blk = used @@ @,
                             !.g_free_list = SubSeq(@, 1, k - 1) \o SubSeq(@, k + 1, Len(@))]]

\* kmalloc of an aligned size: the heap afterwards and the address or NULL.
\* The block of a successful heap_grow fits, so one retry is enough.
Kmalloc(h, size) ==
  LET i == slab_find_cache(size)
      s == IF i = 0 THEN [h |-> h, ptr |-> NULL] ELSE slab_alloc(h, i)
      g == heap_grow(s.h, size)
  IN IF s.ptr # NULL THEN s
     ELSE IF BestFit(s.h, size) # 0 THEN Take(s.h, BestFit(s.h, size), size)
     ELSE IF g.ok THEN Take(g.h, BestFit(g.h, size), size)
     ELSE [h |-> g.h, ptr |-> NULL]

\* Wrong variant: the block is freed without being put on the free list.
KfreeDrops(h, ptr) ==
  [h EXCEPT !.blk[ptr - HDR].free = TRUE, !.current_usage = @ - h.blk[ptr - HDR].size]

\* kfree of a pointer whose header is a used block.
Kfree(h, ptr) ==
  [h EXCEPT !.blk[ptr - HDR].free = TRUE, !.g_free_list = <<ptr - HDR>> \o @,
            !.current_usage = @ - h.blk[ptr - HDR].size]

IsUsedBlock(h, ptr) == ptr - HDR \in DOMAIN h.blk /\ ~h.blk[ptr - HDR].free

-----------------------------------------------------------------------------
(* The memory a caller may use, with its header, and its overwriting *)

Units(a, n) == a .. (a + n - 1)
InSlab(h, ptr) == ptr >= INIT_SIZE /\ ptr - HDR \notin DOMAIN h.blk
Extent(h, L, ptr) == IF InSlab(h, ptr) THEN Units(ptr, L[ptr]) ELSE Units(ptr - HDR, HDR + L[ptr])

\* Pages of the heap and of the slab caches that have the same addresses.
SharedPages(h) == h.g_heap_end > INIT_SIZE /\ h.slab_virt > INIT_SIZE

\* Of heap g with the allocations L: a header of another block lies in
\* memory in use, memory is in use twice, or two headers overlap.
Damages(g, L) ==
  \/ SharedPages(g)
  \/ \E p, q \in DOMAIN L : p # q /\ Extent(g, L, p) \cap Extent(g, L, q) # {}
  \/ \E p \in DOMAIN L, b \in DOMAIN g.blk :
       b # p - HDR /\ Units(b, HDR) \cap Extent(g, L, p) # {}
  \/ \E p \in DOMAIN L : ~InSlab(g, p) /\ g.blk[p - HDR].free
  \/ ~IsInjective(g.g_free_list)
  \/ \E b, c \in DOMAIN g.blk : b < c /\ c < b + HDR

Running == ~halted /\ ~damaged

Step(g, L) == heap' = g /\ live' = L /\ damaged' = Damages(g, L)

-----------------------------------------------------------------------------
(* Calls *)

kmalloc(size) ==
  /\ Running
  /\ LET r == Kmalloc(heap, size)
     IN /\ Step(r.h, IF r.ptr = NULL THEN live ELSE (r.ptr :> size) @@ live)
        /\ call' = <<"kmalloc", size, r.ptr>>
  /\ UNCHANGED halted

Without(L, ptr) == Restrict(L, DOMAIN L \ {ptr})

\* A slab object has no header: what lies before it is no magic.
kfree(ptr) ==
  /\ Running
  /\ IF IsUsedBlock(heap, ptr)
     THEN Step(Kfree(heap, ptr), Without(live, ptr)) /\ UNCHANGED halted
     ELSE halted' = TRUE /\ UNCHANGED <<heap, live, damaged>>
  /\ call' = <<"kfree", ptr>>

\* krealloc of an allocation to a size that is not 0: the new block, the copy, then kfree of the old.
krealloc(ptr, size) ==
  /\ Running
  /\ LET r == Kmalloc(heap, size)
         L == (r.ptr :> size) @@ live
     IN IF r.ptr = NULL THEN Step(r.h, live) /\ UNCHANGED halted
        ELSE IF IsUsedBlock(r.h, ptr)
        THEN /\ heap' = Kfree(r.h, ptr) /\ live' = Without(L, ptr) /\ damaged' = Damages(r.h, L)
             /\ UNCHANGED halted
        ELSE Step(r.h, L) /\ halted' = TRUE
  /\ call' = <<"krealloc", ptr, size>>

Next ==
  \/ \E size \in Requests : kmalloc(size)
  \/ \E ptr \in DOMAIN live : kfree(ptr) \/ \E size \in Requests : krealloc(ptr, size)

Spec == Init /\ [][Next]_vars

-----------------------------------------------------------------------------
(* Properties *)

Block == [free : BOOLEAN, size : Nat]
Cache == [free_list : Seq(Nat), total : Nat, used : Nat]

\* The variables of heap.c have their types.
TypeOK ==
  /\ DOMAIN heap.blk \subseteq Nat /\ Range(heap.blk) \subseteq Block
  /\ heap.g_free_list \in Seq(Nat) /\ heap.caches \in [Caches -> Cache]
  /\ {heap.g_heap_end, heap.slab_virt, heap.current_usage, heap.frames} \subseteq Nat
  /\ DOMAIN live \subseteq Nat /\ Range(live) \subseteq Requests
  /\ halted \in BOOLEAN /\ damaged \in BOOLEAN

HeapPtrs == {p \in DOMAIN live : ~InSlab(heap, p)}
SlabPtrs == DOMAIN live \ HeapPtrs

\* While the memory is intact, the free list of kmalloc and kfree holds every
\* block that is marked free, the other blocks are those in the hands of
\* callers, and each of them is as large as its caller asked.
FreeListExact ==
  ~damaged =>
    /\ Range(heap.g_free_list) = {b \in DOMAIN heap.blk : heap.blk[b].free}
    /\ {p - HDR : p \in HeapPtrs} = {b \in DOMAIN heap.blk : ~heap.blk[b].free}
    /\ \A p \in HeapPtrs : heap.blk[p - HDR].size >= live[p]

\* Every slab object is on the free list of its cache or in the hands of one
\* caller, the counters total and used say how many, and current_usage is what
\* the objects and blocks of all callers add up to.
UsageExact ==
  ~damaged =>
    /\ \A i \in Caches : LET c == heap.caches[i] IN
         c.total = Len(c.free_list) + c.used /\ Range(c.free_list) \cap SlabPtrs = {}
    /\ Cardinality(SlabPtrs) = SumFunction([i \in Caches |-> heap.caches[i].used])
    /\ heap.current_usage =
         MapThenSumSet(LAMBDA p : heap.blk[p - HDR].size, HeapPtrs)
           + SumFunction([i \in Caches |-> heap.caches[i].used * SLAB_SIZES[i]])

\* kmalloc from the general heap takes a block no larger than any free block
\* that fits, and grows the heap or fails only when none does (an address of the
\* general heap is told from a slab object while they share no pages).
TakesBestFit ==
  [][\A size \in Requests : \A ptr \in {NULL} \cup DOMAIN live' :
       call' = <<"kmalloc", size, ptr>> /\ ~SharedPages(heap')
         /\ (ptr = NULL \/ ~InSlab(heap', ptr)) =>
         \A b \in Range(heap.g_free_list) : heap.blk[b].size >= size =>
           /\ ptr # NULL /\ ptr - HDR \in Range(heap.g_free_list)
           /\ heap.blk[ptr - HDR].size <= heap.blk[b].size]_vars

\* Violated: the memory kmalloc hands out belongs to one caller.
LiveDisjoint ==
  \A p, q \in DOMAIN live : p # q => Extent(heap, live, p) \cap Extent(heap, live, q) = {}
=============================================================================
