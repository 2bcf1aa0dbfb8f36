-------------------------------- MODULE Pmm --------------------------------
(***************************************************************************)
(* The physical page allocator, mm/pmm.c: a bitmap with one bit per page   *)
(* frame (1 = in use), two counters and a search hint.                     *)
(*                                                                         *)
(* The kernel is uniprocessor and reaches these functions with interrupts  *)
(* off or from code no interrupt handler shares, so each call is one step. *)
(* Addresses are in bytes, pages are numbered by pfn, and the bitmap is    *)
(* the set of indexes whose bit is 1.  The bitmap is itself kept in page   *)
(* frames: an allocation zeroes the frame it hands out, and with it every  *)
(* bit stored there (ZeroedBits).                                          *)
(***************************************************************************)
EXTENDS Integers, FiniteSets, Sequences

CONSTANTS
  PAGE_SIZE,        \* bytes in a page frame (4096)
  BITS_PER_BYTE,    \* 8
  BITS_PER_WORD,    \* bits in a bitmap word (64)
  PMM_MAX_REGIONS,  \* entries of the memory map that g_regions can hold
  LOW_MEM,          \* end of the BIOS area reserved at boot (0x100000)
  ZoneLimit,        \* zone id -> end of the zone in bytes
  BootInfos,        \* the boot loader records the kernel may be started with
  MaxRun            \* bound on n in pmm_alloc_n / pmm_free_n

(* A boot loader record: the memory map in order, the kernel image, the    *)
(* record's own range, and the initrd module (a set of at most one range). *)
ASSUME PmmConstants ==
  /\ PAGE_SIZE \in Nat \ {0}
  /\ BITS_PER_BYTE \in Nat \ {0}
  /\ BITS_PER_WORD \in Nat \ {0}
  /\ PMM_MAX_REGIONS \in Nat
  /\ LOW_MEM \in Nat \ {0}
  /\ MaxRun \in Nat
  /\ \A z \in DOMAIN ZoneLimit : ZoneLimit[z] \in Nat
  /\ \A b \in BootInfos :
       /\ Len(b.mmap) \in Nat
       /\ \A i \in 1..Len(b.mmap) :
            /\ b.mmap[i].base \in Nat /\ b.mmap[i].size \in Nat
            /\ b.mmap[i].available \in BOOLEAN
       /\ b.kern_start \in Nat /\ b.kern_end \in Nat
       /\ b.kern_start <= b.kern_end
       /\ \A r \in {b.mbi} \cup b.modules : r.base \in Nat /\ r.size \in Nat

VARIABLES
  g_total_pages, g_bitmap, g_free_pages, g_used_pages, g_alloc_hint,
  bitmap_pfn,  \* first frame of the bitmap
  booted,      \* pmm_init_from_multiboot has run
  panicked,    \* PANIC was called: the machine has halted
  usable,      \* ghost: frames the boot code meant to make available
  holders,     \* ghost: how many callers hold each frame
  last         \* ghost: the last call and what it returned

vars == <<g_total_pages, g_bitmap, g_free_pages, g_used_pages, g_alloc_hint,
          bitmap_pfn, booted, panicked, usable, holders, last>>

-----------------------------------------------------------------------------
(* Pages and bits *)

\* ALIGN_UP(a, PAGE_SIZE) and ALIGN_DOWN(a, PAGE_SIZE), as page numbers.
PageUp(a) == (a + PAGE_SIZE - 1) \div PAGE_SIZE
PageDown(a) == a \div PAGE_SIZE

\* Frames that lie inside a region, and frames a region touches.
Inside(r) == PageUp(r.base) .. (PageDown(r.base + r.size) - 1)
Touched(r) == PageDown(r.base) .. (PageUp(r.base + r.size) - 1)

BITS_PER_PAGE == BITS_PER_BYTE * PAGE_SIZE

\* Wrong variant: a partial last word is not counted.
WholeWordsOf(total) == total \div BITS_PER_WORD

WordsOf(total) == (total + BITS_PER_WORD - 1) \div BITS_PER_WORD

\* The bits of the words that pmm_alloc scans: past the last page they exist
\* but stand for no page.
BitsOf(total) == 0 .. (WordsOf(total) * BITS_PER_WORD - 1)

Pages == 0 .. (g_total_pages - 1)
Bits == BitsOf(g_total_pages)

IsLeast(x, S) == x \in S /\ \A y \in S : x <= y

-----------------------------------------------------------------------------
(* Boot *)

Ends(b) == {0} \cup {b.mmap[i].base + b.mmap[i].size : i \in 1..Len(b.mmap)}

\* The available entries that fit into g_regions.
AvailableRegions(b) ==
  {b.mmap[i] : i \in {j \in 1..Len(b.mmap) : j <= PMM_MAX_REGIONS /\ b.mmap[j].available}}

\* Frames of the bitmap: ALIGN_UP(total / 8, PAGE_SIZE) bytes of it.
BitmapPages(total) == PageUp(total \div BITS_PER_BYTE)

\* Wrong variant: the bitmap's own frames are forgotten.
ReservedWithoutBitmap(b, total) ==
  LET kern_end == PageUp(b.kern_end) * PAGE_SIZE
  IN {[base |-> 0, size |-> LOW_MEM],
      [base |-> b.kern_start, size |-> kern_end - b.kern_start], b.mbi} \cup b.modules

\* The ranges marked in use again after the available memory was freed.
ReservedRegions(b, total) ==
  LET kern_end == PageUp(b.kern_end) * PAGE_SIZE
  IN {[base |-> 0, size |-> PAGE_SIZE],
      [base |-> 0, size |-> LOW_MEM],
      [base |-> b.kern_start, size |-> kern_end - b.kern_start],
      [base |-> kern_end, size |-> BitmapPages(total) * PAGE_SIZE],
      b.mbi} \cup b.modules

Init ==
  /\ g_total_pages = 0 /\ g_bitmap = {} /\ g_free_pages = 0
  /\ g_used_pages = 0 /\ g_alloc_hint = 0 /\ bitmap_pfn = 0
  /\ booted = FALSE /\ panicked = FALSE
  /\ usable = {} /\ holders = [p \in {} |-> 0]
  /\ last = [op |-> "boot", n |-> 0, ret |-> 0]

\* memset(0xFF) covers BitmapPages(total) frames of bits; the bits of the last
\* word that lie beyond hold what the memory held before (junk).
UncoveredBits(total) == {i \in BitsOf(total) : i >= BitmapPages(total) * BITS_PER_PAGE}

pmm_init_from_multiboot(b, max_phys, junk) ==
  LET total == PageDown(max_phys)
      pages == 0 .. (total - 1)
      marked == (BitsOf(total) \ UncoveredBits(total)) \cup junk
      inside == pages \cap UNION {Inside(r) : r \in AvailableRegions(b)}
      freed == inside \cap marked
      touched == pages \cap UNION {Touched(r) : r \in ReservedRegions(b, total)}
      retaken == touched \ (marked \ freed)
  IN /\ ~booted
     /\ max_phys \in Ends(b) /\ \A e \in Ends(b) : e <= max_phys
     /\ booted' = TRUE
     /\ g_total_pages' = total
     /\ bitmap_pfn' = PageUp(b.kern_end)
     /\ g_bitmap' = (marked \ freed) \cup retaken
     /\ g_free_pages' = Cardinality(freed) - Cardinality(retaken)
     /\ g_used_pages' = total - Cardinality(freed) + Cardinality(retaken)
     /\ usable' = inside \ touched
     /\ holders' = [p \in pages |-> 0]
     /\ UNCHANGED <<g_alloc_hint, panicked, last>>

-----------------------------------------------------------------------------
(* Allocation *)

Running == booted /\ ~panicked

\* The bits stored in the frames S, which memset(.., 0, ..) clears.
ZeroedBits(S) == {i \in Bits : bitmap_pfn + i \div BITS_PER_PAGE \in S}

\* Wrong variant: the counters move by one whatever was taken.
TookCountsOne(S) ==
  /\ g_bitmap' = (g_bitmap \cup S) \ ZeroedBits(S)
  /\ g_free_pages' = g_free_pages - 1
  /\ g_used_pages' = g_used_pages + 1
  /\ holders' = [p \in DOMAIN holders |-> holders[p] + (IF p \in S THEN 1 ELSE 0)]
  /\ UNCHANGED <<g_total_pages, bitmap_pfn, booted, panicked, usable>>

\* Every allocator ends here: set the bits, move the counters, zero the frames.
Took(S) ==
  /\ g_bitmap' = (g_bitmap \cup S) \ ZeroedBits(S)
  /\ g_free_pages' = g_free_pages - Cardinality(S)
  /\ g_used_pages' = g_used_pages + Cardinality(S)
  /\ holders' = [p \in DOMAIN holders |-> holders[p] + (IF p \in S THEN 1 ELSE 0)]
  /\ UNCHANGED <<g_total_pages, bitmap_pfn, booted, panicked, usable>>

Failed(op, n) ==
  /\ last' = [op |-> op, n |-> n, ret |-> 0]
  /\ UNCHANGED <<g_total_pages, g_bitmap, g_free_pages, g_used_pages, g_alloc_hint,
                 bitmap_pfn, booted, panicked, usable, holders>>

\* i is the lowest clear bit of word w (__builtin_ctzll of the complement).
LowestClear(w, i) ==
  /\ i \in Bits \ g_bitmap /\ i \div BITS_PER_WORD = w
  /\ \A j \in Bits : j < i /\ j \div BITS_PER_WORD = w => j \in g_bitmap

\* The scan goes past a word that is full or whose lowest clear bit is no page.
PassedOver(w) == \A i \in Bits : LowestClear(w, i) => i >= g_total_pages

\* pfn is what scanning the words from .. to-1 in order yields.
ScanYields(from, to, pfn) ==
  LET w == pfn \div BITS_PER_WORD
  IN /\ from <= w /\ w < to
     /\ LowestClear(w, pfn)
     /\ \A v \in from .. (w - 1) : PassedOver(v)

\* Two passes: from the hint's word to the end, then the words before it.
Found(pfn) ==
  LET words == WordsOf(g_total_pages)
      start == g_alloc_hint \div BITS_PER_WORD
  IN \/ ScanYields(start, words, pfn)
     \/ /\ \A v \in start .. (words - 1) : PassedOver(v)
        /\ ScanYields(0, start, pfn)

\* Wrong variant: the hint runs past the last page.
HintPastEnd(pfn) == pfn + 1

NextHint(pfn) == IF pfn + 1 >= g_total_pages THEN 0 ELSE pfn + 1

pmm_alloc ==
  /\ Running
  /\ \/ /\ g_free_pages = 0 \/ \A pfn \in Pages : ~Found(pfn)
        /\ Failed("pmm_alloc", 1)
     \/ /\ g_free_pages # 0
        /\ \E pfn \in Pages :
             /\ Found(pfn)
             /\ Took({pfn})
             /\ g_alloc_hint' = NextHint(pfn)
             /\ last' = [op |-> "pmm_alloc", n |-> 1, ret |-> pfn]

\* The first clear frame of a zone, frame 0 excepted.
pmm_alloc_zone(zone) ==
  LET clear == {p \in Pages \ {0} : p < PageDown(ZoneLimit[zone]) /\ p \notin g_bitmap}
  IN /\ Running
     /\ \/ clear = {} /\ Failed("pmm_alloc_zone", 1)
        \/ \E pfn \in clear :
             /\ IsLeast(pfn, clear)
             /\ Took({pfn})
             /\ last' = [op |-> "pmm_alloc_zone", n |-> 1, ret |-> pfn]
             /\ UNCHANGED g_alloc_hint

\* Wrong variant: the last page of the run is not looked at.
RunsOffByOne(n) == {s \in Pages \ {0} : /\ s + n - 1 \in Pages
                                       /\ \A p \in s .. (s + n - 2) : p \in Pages \ g_bitmap}

\* The first run of n clear frames, frame 0 excepted.
Runs(n) == {s \in Pages \ {0} : \A p \in s .. (s + n - 1) : p \in Pages \ g_bitmap}

pmm_alloc_n(n) ==
  \/ n = 1 /\ pmm_alloc
  \/ /\ Running
     /\ n # 1
     /\ n = 0 \/ g_free_pages < n \/ Runs(n) = {}
     /\ Failed("pmm_alloc_n", n)
  \/ /\ Running
     /\ n > 1 /\ g_free_pages >= n
     /\ \E s \in Runs(n) :
          /\ IsLeast(s, Runs(n))
          /\ Took(s .. (s + n - 1))
          /\ last' = [op |-> "pmm_alloc_n", n |-> n, ret |-> s]
          /\ UNCHANGED g_alloc_hint

-----------------------------------------------------------------------------
(* Release *)

\* The frames that pmm_free(phys + i * PAGE_SIZE), i < n, does not ignore.
Targets(phys, n) ==
  IF phys % PAGE_SIZE = 0
    THEN {p \in Pages \ {0} : PageDown(phys) <= p /\ p < PageDown(phys) + n}
    ELSE {}

\* What callers may ask for: frames they hold, frames that are already free
\* (which PANICs), and addresses that are ignored.
MayFree(phys, n) ==
  \A p \in Targets(phys, n) : holders[p] > 0 \/ p \notin g_bitmap

\* Wrong variant: the caller's frames leave its books but the bits stay set.
KeepBits(freed) == g_bitmap

ClearBits(freed) == g_bitmap \ freed

\* The frames are released one by one until the first that is free already.
pmm_free_n(phys, n) ==
  LET targets == Targets(phys, n)
      clear == targets \ g_bitmap
      freed == {p \in targets : \A q \in clear : p < q}
  IN /\ Running
     /\ MayFree(phys, n)
     /\ g_bitmap' = ClearBits(freed)
     /\ g_free_pages' = g_free_pages + Cardinality(freed)
     /\ g_used_pages' = g_used_pages - Cardinality(freed)
     /\ \E h \in freed \cup {g_alloc_hint} :
          IsLeast(h, freed \cup {g_alloc_hint}) /\ g_alloc_hint' = h
     /\ holders' = [p \in DOMAIN holders |-> holders[p] - (IF p \in freed THEN 1 ELSE 0)]
     /\ panicked' = (clear # {})
     /\ last' = [op |-> "pmm_free", n |-> n, ret |-> 0]
     /\ UNCHANGED <<g_total_pages, bitmap_pfn, booted, usable>>

pmm_free(phys) == pmm_free_n(phys, 1)

Addresses == 0 .. (g_total_pages * PAGE_SIZE)

Boot ==
  \E b \in BootInfos : \E e \in Ends(b) :
     \E junk \in SUBSET UncoveredBits(PageDown(e)) : pmm_init_from_multiboot(b, e, junk)

Next ==
  \/ Boot
  \/ pmm_alloc
  \/ \E zone \in DOMAIN ZoneLimit : pmm_alloc_zone(zone)
  \/ \E n \in 0..MaxRun : pmm_alloc_n(n)
  \/ \E phys \in Addresses : pmm_free(phys)
  \/ \E phys \in Addresses, n \in 0..MaxRun : pmm_free_n(phys, n)

Spec == Init /\ [][Next]_vars

-----------------------------------------------------------------------------
(* Properties *)

(* Type invariant of the allocator's state: counters are natural numbers    *)
(* (size_t never wraps below zero) and the hint is a page or 0.            *)
TypeOK ==
  /\ g_total_pages \in Nat /\ bitmap_pfn \in Nat
  /\ g_bitmap \subseteq Bits
  /\ g_free_pages \in Nat /\ g_used_pages \in Nat
  /\ g_alloc_hint \in Pages \cup {0}
  /\ booted \in BOOLEAN /\ panicked \in BOOLEAN
  /\ usable \subseteq Pages
  /\ holders \in [Pages -> Nat]
  /\ last \in [op : {"boot", "pmm_alloc", "pmm_alloc_zone", "pmm_alloc_n", "pmm_free"},
               n : Nat, ret : Nat]

(* g_free_pages and g_used_pages always equal the number of clear and set   *)
(* bits of the pages, across boot, every allocator and pmm_free, although  *)
(* each function maintains them by hand.                                   *)
Accounting ==
  /\ g_free_pages = Cardinality(Pages \ g_bitmap)
  /\ g_used_pages = Cardinality(Pages \cap g_bitmap)

(* pmm_alloc, pmm_alloc_zone and pmm_alloc_n never hand out a frame that a  *)
(* caller already holds.                                                   *)
ExclusiveOwnership == \A p \in Pages : holders[p] <= 1

(* No caller is ever given a frame outside available memory or inside a     *)
(* range reserved at boot: the zero page, low memory, the kernel image,    *)
(* the bitmap itself, the multiboot record or the initrd.                  *)
ReservedNeverGiven == \A p \in Pages : holders[p] > 0 => p \in usable

(* No frame is lost: a usable frame is marked in use exactly while somebody *)
(* holds it.                                                               *)
NoFrameLost == \A p \in usable : p \in g_bitmap <=> holders[p] > 0

(* pmm_alloc returns 0 only when no page is free, wherever the hint points: *)
(* the two passes over the words together miss nothing.  pmm_alloc_n(n),   *)
(* n > 1, returns 0 only when there is no run of n free pages.             *)
AllocComplete ==
  last.ret = 0 =>
    /\ last.op = "pmm_alloc" => Pages \subseteq g_bitmap
    /\ last.op = "pmm_alloc_n" /\ last.n > 1 =>
         ~\E s \in Pages : s .. (s + last.n - 1) \subseteq Pages \ g_bitmap

\* The boot records whose bitmap memset reaches every bit that is scanned.
\* (ALIGN_UP(total / 8, PAGE_SIZE) rounds total / 8 down first: it falls
\* short when total % (8 * PAGE_SIZE) is between 1 and 7.)
BitmapCovered ==
  \A b \in BootInfos : \A e \in Ends(b) : UncoveredBits(PageDown(e)) = {}
=============================================================================
