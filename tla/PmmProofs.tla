----------------------------- MODULE PmmProofs -----------------------------
EXTENDS Pmm, FiniteSetTheorems, WellFoundedInduction, TLAPS

(* Division by a positive number, the arithmetic behind ALIGN_UP, ALIGN_DOWN *)
(* and the page / word indexes of the bitmap.                              *)
LEMMA DivBounds ==
  ASSUME NEW a \in Nat, NEW d \in Nat \ {0}
  PROVE  /\ a \div d \in Nat
         /\ d * (a \div d) <= a
         /\ a < d * (a \div d) + d
  OBVIOUS

(* The quotient is the only number with these bounds.                      *)
LEMMA DivUnique ==
  ASSUME NEW a \in Nat, NEW d \in Nat \ {0}, NEW q \in Nat, d * q <= a, a < d * q + d
  PROVE  a \div d = q
<1> DEFINE r == a \div d
<1>1. r \in Nat /\ d * r <= a /\ a < d * r + d
  BY DivBounds
<1> HIDE DEF r
<1>2. ~(r < q)
  <2> SUFFICES ASSUME r < q PROVE FALSE
    OBVIOUS
  <2>1. d * q >= d * (r + 1)
    BY <1>1
  <2> QED BY <1>1, <2>1
<1>3. ~(q < r)
  <2> SUFFICES ASSUME q < r PROVE FALSE
    OBVIOUS
  <2>1. d * r >= d * (q + 1)
    BY <1>1
  <2> QED BY <1>1, <2>1
<1>4. r = q
  BY <1>1, <1>2, <1>3
<1> QED BY <1>4 DEF r

(* ALIGN_UP and ALIGN_DOWN give natural numbers and leave aligned addresses *)
(* where they are.                                                         *)
LEMMA PageFacts ==
  ASSUME NEW a \in Nat
  PROVE  /\ PageUp(a) \in Nat /\ PageDown(a) \in Nat
         /\ PageUp(a * PAGE_SIZE) = a /\ PageDown(a * PAGE_SIZE) = a
<1>1. PAGE_SIZE \in Nat \ {0}
  BY PmmConstants
<1>2. PageDown(a) \in Nat
  BY <1>1, DivBounds DEF PageDown
<1>3. PageUp(a) \in Nat
  <2>1. a + PAGE_SIZE - 1 \in Nat
    BY <1>1
  <2> QED BY <1>1, <2>1, DivBounds DEF PageUp
<1>4. PageDown(a * PAGE_SIZE) = a
  <2>1. a * PAGE_SIZE \in Nat /\ PAGE_SIZE * a = a * PAGE_SIZE
    BY <1>1
  <2> QED BY <1>1, <2>1, DivUnique DEF PageDown
<1>5. PageUp(a * PAGE_SIZE) = a
  <2>1. a * PAGE_SIZE \in Nat /\ PAGE_SIZE * a = a * PAGE_SIZE
    BY <1>1
  <2>2. a * PAGE_SIZE + PAGE_SIZE - 1 \in Nat
    BY <1>1, <2>1
  <2>3. PAGE_SIZE * a <= a * PAGE_SIZE + PAGE_SIZE - 1
        /\ a * PAGE_SIZE + PAGE_SIZE - 1 < PAGE_SIZE * a + PAGE_SIZE
    BY <1>1, <2>1
  <2> QED BY <1>1, <2>2, <2>3, DivUnique DEF PageUp
<1> QED BY <1>2, <1>3, <1>4, <1>5

(* Bit i lies in chunk i div d, below n when i < n * d.                    *)
LEMMA ChunkBelow ==
  ASSUME NEW i \in Nat, NEW d \in Nat \ {0}, NEW n \in Nat, i < n * d
  PROVE  i \div d \in 0 .. (n - 1)
<1> DEFINE r == i \div d
<1>1. r \in Nat /\ d * r <= i
  BY DivBounds
<1> HIDE DEF r
<1>2. ~(n <= r)
  <2> SUFFICES ASSUME n <= r PROVE FALSE
    OBVIOUS
  <2>1. n * d <= d * r
    BY <1>1
  <2> QED BY <1>1, <2>1
<1>3. r \in 0 .. (n - 1)
  BY <1>1, <1>2
<1> QED BY <1>3 DEF r

(* A nonempty set of natural numbers has a least element.                  *)
LEMMA LeastNat ==
  ASSUME NEW S \in SUBSET Nat, S # {}
  PROVE  \E x \in S : \A y \in S : x <= y
<1>1. PICK x \in S : \A y \in S : ~(<<y, x>> \in OpToRel(<, Nat))
  BY NatLessThanWellFounded, WFMin
<1>2. \A y \in S : ~(y < x)
  BY <1>1, Zenon DEF OpToRel
<1> QED BY <1>2

(* The words scanned by pmm_alloc have a bit for every page.               *)
LEMMA PagesAreBits ==
  ASSUME NEW total \in Nat
  PROVE  /\ WordsOf(total) \in Nat
         /\ 0 .. (total - 1) \subseteq BitsOf(total)
<1>1. WordsOf(total) \in Nat /\ total <= WordsOf(total) * BITS_PER_WORD
  <2> DEFINE a == total + BITS_PER_WORD - 1
             q == a \div BITS_PER_WORD
  <2>1. a \in Nat /\ BITS_PER_WORD \in Nat \ {0} BY PmmConstants
  <2>2. q \in Nat /\ a < BITS_PER_WORD * q + BITS_PER_WORD
    <3> HIDE DEF a
    <3> QED BY <2>1, DivBounds
  <2>3. BITS_PER_WORD * q = q * BITS_PER_WORD /\ q * BITS_PER_WORD \in Nat
     BY <2>1, <2>2
  <2>4. total <= q * BITS_PER_WORD
    <3> HIDE DEF q
    <3> QED  BY <2>1, <2>2, <2>3
  <2> QED BY <2>2, <2>4 DEF WordsOf
<1> QED BY <1>1, PmmConstants DEF BitsOf

NumClear(P, B) == Cardinality(P \ B)
NumSet(P, B) == Cardinality(P \cap B)

\* C is the bitmap B after the clear pages S were marked in use.
Marking(P, B, S, C) == IsFiniteSet(P) /\ S \subseteq P \ B /\ C = B \cup S

(* What marking the clear pages S in use does to the numbers of clear and  *)
(* set bits among the pages P.                                             *)
LEMMA CountTake ==
  ASSUME NEW P, NEW B, NEW S, NEW C, Marking(P, B, S, C)
  PROVE  /\ Cardinality(S) \in Nat
         /\ NumClear(P, C) \in Nat /\ NumSet(P, C) \in Nat
         /\ NumClear(P, B) \in Nat /\ NumSet(P, B) \in Nat
         /\ NumClear(P, C) = NumClear(P, B) - Cardinality(S)
         /\ NumSet(P, C) = NumSet(P, B) + Cardinality(S)
<1> USE DEF Marking
<1>1. IsFiniteSet(P \ B) /\ IsFiniteSet(P \cap B) /\ IsFiniteSet(P \ C) /\ IsFiniteSet(P \cap C)
  BY FS_Difference, FS_Intersection
<1>2. IsFiniteSet(S)
  BY <1>1, FS_Subset
<1>3. /\ Cardinality(S) \in Nat
      /\ NumClear(P, C) \in Nat /\ NumSet(P, C) \in Nat
      /\ NumClear(P, B) \in Nat /\ NumSet(P, B) \in Nat
  BY <1>1, <1>2, FS_CardinalityType DEF NumClear, NumSet
<1>4. Cardinality((P \ B) \ S) = Cardinality(P \ B) - Cardinality((P \ B) \cap S)
  BY <1>1, FS_Difference
<1>5. (P \ B) \ S = P \ C /\ (P \ B) \cap S = S
  OBVIOUS
<1>6. NumClear(P, C) = NumClear(P, B) - Cardinality(S)
  BY <1>4, <1>5, Zenon DEF NumClear
<1>7. Cardinality((P \cap B) \cup S)
        = Cardinality(P \cap B) + Cardinality(S) - Cardinality((P \cap B) \cap S)
  BY <1>1, <1>2, FS_Union
<1>8. (P \cap B) \cup S = P \cap C /\ (P \cap B) \cap S = {}
  OBVIOUS
<1>9. NumSet(P, C) = NumSet(P, B) + Cardinality(S) - Cardinality({})
  BY <1>7, <1>8, Zenon DEF NumSet
<1>10. Cardinality({}) = 0
  BY FS_EmptySet
<1> QED BY <1>3, <1>6, <1>9, <1>10
-----------------------------------------------------------------------------
(* The inductive invariant: every page that boot did not make usable keeps  *)
(* its bit, and the frames of the bitmap and frame 0 are not usable.       *)
IInv ==
  /\ TypeOK
  /\ Accounting
  /\ ExclusiveOwnership
  /\ ReservedNeverGiven
  /\ NoFrameLost
  /\ AllocComplete
  /\ Pages \ usable \subseteq g_bitmap
  /\ \A i \in Bits : bitmap_pfn + i \div BITS_PER_PAGE \notin usable
  /\ 0 \notin usable
  /\ ~booted => g_alloc_hint = 0 /\ last.op = "boot"

(* The pages are a finite set of numbers, and each has a bit in the bitmap. *)
LEMMA PagesFinite ==
  ASSUME TypeOK
  PROVE  /\ IsFiniteSet(Pages) /\ Pages \subseteq Nat /\ Pages \subseteq Bits
         /\ Bits \subseteq Nat
<1>1. g_total_pages \in Nat
  BY DEF TypeOK
<1>2. IsFiniteSet(Pages)
  BY <1>1, FS_Interval DEF Pages
<1>3. Pages \subseteq Bits
  BY <1>1, PagesAreBits DEF Pages, Bits
<1>4. Bits \subseteq Nat
  BY <1>1, PagesAreBits, PmmConstants DEF Bits, BitsOf
<1> QED BY <1>2, <1>3, <1>4

(* Init establishes the invariant: there are no pages yet.                 *)
LEMMA InitIInv == Init => IInv
<1> SUFFICES ASSUME Init PROVE IInv
  OBVIOUS
<1> USE DEF Init
<1>1. Pages = {}
  BY DEF Pages
<1>2. TypeOK
  BY <1>1 DEF TypeOK
<1>3. Accounting
  BY <1>1, FS_EmptySet DEF Accounting
<1>4. ExclusiveOwnership /\ ReservedNeverGiven /\ NoFrameLost
  BY <1>1 DEF ExclusiveOwnership, ReservedNeverGiven, NoFrameLost
<1>5. AllocComplete
  BY <1>1 DEF AllocComplete
<1> QED BY <1>1, <1>2, <1>3, <1>4, <1>5 DEF IInv

(* Handing out usable clear frames S keeps everything but what the caller  *)
(* of Took decides: the hint and the recorded result.                      *)
LEMMA TookIInv ==
  ASSUME IInv, booted, NEW S, S \subseteq Pages \ g_bitmap, Took(S),
         g_alloc_hint' \in Pages \cup {0}, AllocComplete',
         last' \in [op : {"boot", "pmm_alloc", "pmm_alloc_zone", "pmm_alloc_n", "pmm_free"},
                    n : Nat, ret : Nat]
  PROVE  IInv'
<1>1. TypeOK /\ IsFiniteSet(Pages) /\ Pages \subseteq Nat /\ Pages \subseteq Bits
  BY PagesFinite DEF IInv
<1>2. Pages' = Pages /\ Bits' = Bits /\ usable' = usable /\ bitmap_pfn' = bitmap_pfn
  BY DEF Took, Pages, Bits
<1>3. S \subseteq usable
  BY DEF IInv
<1>4. ZeroedBits(S) = {}
  BY <1>3 DEF ZeroedBits, IInv
<1>5. g_bitmap' = g_bitmap \cup S
  BY <1>4 DEF Took
<1>6. Accounting' /\ g_free_pages' \in Nat /\ g_used_pages' \in Nat
  <2>1. /\ Cardinality(S) \in Nat
        /\ NumClear(Pages, g_bitmap') \in Nat /\ NumSet(Pages, g_bitmap') \in Nat
        /\ NumClear(Pages, g_bitmap) \in Nat /\ NumSet(Pages, g_bitmap) \in Nat
        /\ NumClear(Pages, g_bitmap') = NumClear(Pages, g_bitmap) - Cardinality(S)
        /\ NumSet(Pages, g_bitmap') = NumSet(Pages, g_bitmap) + Cardinality(S)
    <3>1. Marking(Pages, g_bitmap, S, g_bitmap')
      BY <1>1, <1>5 DEF Marking
    <3> QED BY <3>1, CountTake
  <2>2. g_free_pages = NumClear(Pages, g_bitmap) /\ g_used_pages = NumSet(Pages, g_bitmap)
    BY DEF IInv, Accounting, NumClear, NumSet
  <2>3. /\ g_free_pages' = NumClear(Pages, g_bitmap')
        /\ g_used_pages' = NumSet(Pages, g_bitmap')
    BY <2>1, <2>2 DEF Took
  <2> QED BY <1>2, <2>1, <2>3 DEF Accounting, NumClear, NumSet
<1>7. holders' = [p \in Pages |-> holders[p] + (IF p \in S THEN 1 ELSE 0)]
  BY <1>1 DEF Took, TypeOK
<1>8. \A p \in S : holders[p] = 0
  BY <1>1, <1>3 DEF IInv, NoFrameLost, TypeOK
<1>9. TypeOK'
  <2>1. holders' \in [Pages -> Nat]
    BY <1>1, <1>7 DEF TypeOK
  <2>2. g_bitmap' \subseteq Bits
    BY <1>1, <1>5 DEF TypeOK
  <2>3. UNCHANGED <<g_total_pages, bitmap_pfn, booted, panicked, usable>>
    BY DEF Took
  <2> QED BY <1>1, <1>2, <1>6, <2>1, <2>2, <2>3 DEF TypeOK
<1>10. ExclusiveOwnership' /\ ReservedNeverGiven' /\ NoFrameLost'
  BY <1>1, <1>2, <1>3, <1>5, <1>7, <1>8
     DEF IInv, ExclusiveOwnership, ReservedNeverGiven, NoFrameLost, TypeOK
<1>11. (Pages \ usable \subseteq g_bitmap)'
  BY <1>2, <1>5 DEF IInv
<1>12. (\A i \in Bits : bitmap_pfn + i \div BITS_PER_PAGE \notin usable)' /\ (0 \notin usable)'
  BY <1>2 DEF IInv
<1> QED BY <1>6, <1>9, <1>10, <1>11, <1>12 DEF IInv, Took

(* A step that changes only the recorded result keeps the rest.            *)
LEMMA FailedIInv ==
  ASSUME IInv, booted, NEW op \in {"pmm_alloc", "pmm_alloc_zone", "pmm_alloc_n"},
         NEW n \in Nat, Failed(op, n), AllocComplete'
  PROVE  IInv'
<1>1. UNCHANGED <<g_total_pages, g_bitmap, g_free_pages, g_used_pages, g_alloc_hint,
                  bitmap_pfn, booted, panicked, usable, holders>>
  BY DEF Failed
<1>2. Pages' = Pages /\ Bits' = Bits
  BY <1>1 DEF Pages, Bits
<1>3. TypeOK'
  BY <1>1, <1>2 DEF IInv, TypeOK, Failed
<1> QED BY <1>1, <1>2, <1>3 DEF IInv, Accounting, ExclusiveOwnership, ReservedNeverGiven,
                                NoFrameLost

(* Whenever some page is clear, the two passes of pmm_alloc's scan find a   *)
(* page, wherever the hint is: the lowest clear bit of the first word that *)
(* has a clear page.                                                       *)
LEMMA ScanFinds ==
  ASSUME TypeOK, NEW p \in Pages \ g_bitmap
  PROVE  \E pfn \in Pages : Found(pfn)
<1> DEFINE words == WordsOf(g_total_pages)
           start == g_alloc_hint \div BITS_PER_WORD
           word(i) == i \div BITS_PER_WORD
           Y == {w \in Nat : w < words /\ ~PassedOver(w)}
<1>1. /\ Pages \subseteq Nat /\ Pages \subseteq Bits /\ Bits \subseteq Nat
      /\ g_total_pages \in Nat /\ words \in Nat /\ BITS_PER_WORD \in Nat \ {0}
  BY PagesFinite, PagesAreBits, PmmConstants DEF TypeOK
<1>2. start \in Nat
  BY <1>1, DivBounds DEF TypeOK
<1>3. \A w \in Y : \E i \in Pages : LowestClear(w, i) /\ word(i) = w
  BY <1>1 DEF PassedOver, LowestClear, Pages
<1>4. word(p) \in Y
  <2> DEFINE C == {i \in Bits \ g_bitmap : word(i) = word(p)}
  <2>1. C \in SUBSET Nat /\ p \in C
    BY <1>1
  <2>2. PICK m \in C : \A y \in C : m <= y
    BY <2>1, LeastNat
  <2>3. LowestClear(word(p), m)
    BY <1>1, <2>1, <2>2 DEF LowestClear
  <2>4. m < g_total_pages
    BY <1>1, <2>1, <2>2 DEF Pages
  <2>5. ~PassedOver(word(p))
    BY <1>1, <2>2, <2>3, <2>4 DEF PassedOver
  <2>6. p < words * BITS_PER_WORD
    BY <1>1 DEF Bits, BitsOf
  <2>7. word(p) \in 0 .. (words - 1)
    BY <1>1, <2>6, ChunkBelow
  <2> QED BY <1>1, <2>5, <2>7
<1> HIDE DEF Y, words, start, word
<1>5. Y \subseteq Nat
  BY DEF Y
<1>6. CASE \E w \in Y : start <= w
  <2> DEFINE Z == {w \in Y : start <= w}
  <2>1. Z \in SUBSET Nat /\ Z # {}
    BY <1>5, <1>6
  <2>2. PICK w \in Z : \A y \in Z : w <= y
    BY <2>1, LeastNat
  <2>3. PICK i \in Pages : LowestClear(w, i) /\ word(i) = w
    BY <1>3, <2>2
  <2>4. \A v \in start .. (w - 1) : PassedOver(v)
    BY <1>1, <1>2, <2>1, <2>2 DEF Y
  <2>5. ScanYields(start, words, i)
    BY <1>1, <1>2, <2>2, <2>3, <2>4 DEF ScanYields, Y, word
  <2> QED BY <2>3, <2>5 DEF Found, start, words
<1>7. CASE ~\E w \in Y : start <= w
  <2>1. Y \in SUBSET Nat /\ Y # {}
    BY <1>4, <1>5
  <2>2. PICK w \in Y : \A y \in Y : w <= y
    BY <2>1, LeastNat
  <2>3. PICK i \in Pages : LowestClear(w, i) /\ word(i) = w
    BY <1>3, <2>2
  <2>4. \A v \in 0 .. (w - 1) : PassedOver(v)
    BY <1>1, <2>1, <2>2 DEF Y
  <2>5. \A v \in start .. (words - 1) : PassedOver(v)
    BY <1>1, <1>2, <1>7 DEF Y
  <2>6. w \in Nat /\ w < start
    BY <1>2, <1>5, <1>7, <2>2
  <2>7. ScanYields(0, start, i)
    BY <2>3, <2>4, <2>6 DEF ScanYields, word
  <2> QED BY <2>3, <2>5, <2>7 DEF Found, start, words
<1> QED BY <1>6, <1>7

(* A clear page is usable, so it is not frame 0.                           *)
LEMMA ClearIsUsable ==
  ASSUME IInv, NEW p \in Pages \ g_bitmap
  PROVE  p \in usable /\ p # 0
  BY DEF IInv

(* pmm_alloc keeps the invariant; when it fails no page is clear.          *)
LEMMA AllocIInv ==
  ASSUME IInv, pmm_alloc
  PROVE  IInv'
<1>1. TypeOK /\ Pages \subseteq Nat /\ IsFiniteSet(Pages) /\ booted /\ g_total_pages \in Nat
  BY PagesFinite DEF IInv, pmm_alloc, Running, TypeOK
<1>2. CASE /\ g_free_pages = 0 \/ \A pfn \in Pages : ~Found(pfn)
           /\ Failed("pmm_alloc", 1)
  <2>1. Pages \subseteq g_bitmap
    <3>1. CASE g_free_pages = 0
      <4>1. Cardinality(Pages \ g_bitmap) = 0 /\ IsFiniteSet(Pages \ g_bitmap)
        BY <1>1, <3>1, FS_Difference DEF IInv, Accounting
      <4>2. Pages \ g_bitmap = {}
        BY <4>1, FS_EmptySet
      <4> QED BY <4>2
    <3>2. CASE \A pfn \in Pages : ~Found(pfn)
      BY <1>1, <3>2, ScanFinds
    <3> QED BY <1>2, <3>1, <3>2
  <2>2. Pages' = Pages /\ g_bitmap' = g_bitmap
    BY <1>2 DEF Failed, Pages
  <2>3. AllocComplete'
    BY <1>2, <2>1, <2>2 DEF AllocComplete, Failed
  <2> QED BY <1>1, <1>2, <2>3, FailedIInv
<1>3. CASE \E pfn \in Pages :
             /\ Found(pfn)
             /\ Took({pfn})
             /\ g_alloc_hint' = NextHint(pfn)
             /\ last' = [op |-> "pmm_alloc", n |-> 1, ret |-> pfn]
  <2>1. PICK pfn \in Pages :
             /\ Found(pfn)
             /\ Took({pfn})
             /\ g_alloc_hint' = NextHint(pfn)
             /\ last' = [op |-> "pmm_alloc", n |-> 1, ret |-> pfn]
    BY <1>3
  <2>2. pfn \notin g_bitmap
    BY <2>1 DEF Found, ScanYields, LowestClear
  <2>3. pfn \in Nat /\ pfn # 0
    BY <1>1, <2>2, ClearIsUsable
  <2>4. g_alloc_hint' \in Pages \cup {0}
    BY <1>1, <2>1, <2>3 DEF Pages, NextHint
  <2>5. AllocComplete'
    BY <2>1, <2>3 DEF AllocComplete
  <2>6. last' \in [op : {"boot", "pmm_alloc", "pmm_alloc_zone", "pmm_alloc_n", "pmm_free"},
                   n : Nat, ret : Nat]
    BY <2>1, <2>3
  <2> QED BY <1>1, <2>1, <2>2, <2>4, <2>5, <2>6, TookIInv
<1> QED BY <1>2, <1>3 DEF pmm_alloc

(* pmm_alloc_zone keeps the invariant.                                     *)
LEMMA AllocZoneIInv ==
  ASSUME IInv, NEW zone \in DOMAIN ZoneLimit, pmm_alloc_zone(zone)
  PROVE  IInv'
<1> DEFINE clear == {p \in Pages \ {0} : p < PageDown(ZoneLimit[zone]) /\ p \notin g_bitmap}
<1>1. TypeOK /\ Pages \subseteq Nat /\ booted
  BY PagesFinite DEF IInv, pmm_alloc_zone, Running
<1>2. CASE Failed("pmm_alloc_zone", 1)
  <2>1. AllocComplete'
    BY <1>2 DEF AllocComplete, Failed
  <2> QED BY <1>1, <1>2, <2>1, FailedIInv
<1>3. CASE \E pfn \in clear :
             /\ IsLeast(pfn, clear)
             /\ Took({pfn})
             /\ last' = [op |-> "pmm_alloc_zone", n |-> 1, ret |-> pfn]
             /\ UNCHANGED g_alloc_hint
  <2>1. PICK pfn \in clear :
             /\ Took({pfn})
             /\ last' = [op |-> "pmm_alloc_zone", n |-> 1, ret |-> pfn]
             /\ UNCHANGED g_alloc_hint
    BY <1>3
  <2>2. AllocComplete'
    BY <2>1 DEF AllocComplete
  <2>3. g_alloc_hint' \in Pages \cup {0}
    BY <1>1, <2>1 DEF TypeOK
  <2>4. {pfn} \subseteq Pages \ g_bitmap /\ pfn \in Nat
    BY <1>1
  <2>5. last' \in [op : {"boot", "pmm_alloc", "pmm_alloc_zone", "pmm_alloc_n", "pmm_free"},
                   n : Nat, ret : Nat]
    BY <2>1, <2>4
  <2> QED BY <1>1, <2>1, <2>2, <2>3, <2>4, <2>5, TookIInv
<1> QED BY <1>2, <1>3 DEF pmm_alloc_zone

(* pmm_alloc_n keeps the invariant; when it fails for n > 1 there is no run *)
(* of n clear pages, because a run has as many clear pages as it is long.  *)
LEMMA AllocNIInv ==
  ASSUME IInv, NEW n \in Nat, pmm_alloc_n(n)
  PROVE  IInv'
<1>1. TypeOK /\ Pages \subseteq Nat /\ IsFiniteSet(Pages) /\ booted
  BY PagesFinite DEF IInv, pmm_alloc_n, pmm_alloc, Running
<1>2. CASE pmm_alloc
  BY <1>2, AllocIInv
<1>3. CASE /\ n = 0 \/ g_free_pages < n \/ Runs(n) = {}
           /\ Failed("pmm_alloc_n", n)
  <2>1. ASSUME n > 1, NEW s \in Pages, s .. (s + n - 1) \subseteq Pages \ g_bitmap
        PROVE  FALSE
    <3>1. s \in Nat /\ s + n - 1 \in Nat /\ s \in s .. (s + n - 1)
      BY <1>1, <2>1
    <3>2. s # 0
      BY <2>1, <3>1, ClearIsUsable
    <3>3. s \in Runs(n)
      BY <2>1, <3>2 DEF Runs
    <3>4. IsFiniteSet(Pages \ g_bitmap)
      BY <1>1, FS_Difference
    <3> DEFINE R == s .. (s + n - 1)
    <3>5. Cardinality(R) = n
      <4>1. Cardinality(R) = (s + n - 1) - s + 1
        BY <3>1, <2>1, FS_Interval
      <4> HIDE DEF R
      <4> QED BY <4>1, <3>1
    <3>6. Cardinality(R) <= Cardinality(Pages \ g_bitmap)
      BY <2>1, <3>4, FS_Subset
    <3>7. n <= g_free_pages
      <4> HIDE DEF R
      <4> QED BY <3>5, <3>6 DEF IInv, Accounting
    <3> QED BY <1>1, <1>3, <2>1, <3>3, <3>7 DEF TypeOK
  <2>2. Pages' = Pages /\ g_bitmap' = g_bitmap
    BY <1>3 DEF Failed, Pages
  <2>3. AllocComplete'
    BY <1>3, <2>1, <2>2 DEF AllocComplete, Failed
  <2> QED BY <1>1, <1>3, <2>3, FailedIInv
<1>4. CASE /\ n > 1
           /\ \E s \in Runs(n) :
                /\ IsLeast(s, Runs(n))
                /\ Took(s .. (s + n - 1))
                /\ last' = [op |-> "pmm_alloc_n", n |-> n, ret |-> s]
                /\ UNCHANGED g_alloc_hint
  <2>1. PICK s \in Runs(n) :
                /\ Took(s .. (s + n - 1))
                /\ last' = [op |-> "pmm_alloc_n", n |-> n, ret |-> s]
                /\ UNCHANGED g_alloc_hint
    BY <1>4
  <2>2. s .. (s + n - 1) \subseteq Pages \ g_bitmap /\ s \in Nat /\ s # 0
    BY <1>1 DEF Runs
  <2>3. AllocComplete'
    BY <2>1, <2>2 DEF AllocComplete
  <2>4. g_alloc_hint' \in Pages \cup {0}
    BY <1>1, <2>1 DEF TypeOK
  <2>5. last' \in [op : {"boot", "pmm_alloc", "pmm_alloc_zone", "pmm_alloc_n", "pmm_free"},
                   n : Nat, ret : Nat]
    BY <2>1, <2>2
  <2> QED BY <1>1, <2>1, <2>2, <2>3, <2>4, <2>5, TookIInv
<1> QED BY <1>2, <1>3, <1>4 DEF pmm_alloc_n

(* pmm_free and pmm_free_n keep the invariant: each frame released was set  *)
(* and held by exactly one caller.  The count is CountTake read backwards. *)
LEMMA FreeIInv ==
  ASSUME IInv, NEW phys \in Nat, NEW n \in Nat, pmm_free_n(phys, n)
  PROVE  IInv'
<1> DEFINE targets == Targets(phys, n)
           clear == targets \ g_bitmap
           freed == {p \in targets : \A q \in clear : p < q}
<1>1. TypeOK /\ IsFiniteSet(Pages) /\ Pages \subseteq Nat /\ booted
  BY PagesFinite DEF IInv, pmm_free_n, Running
<1>2. /\ Pages' = Pages /\ Bits' = Bits
      /\ UNCHANGED <<g_total_pages, bitmap_pfn, booted, usable>>
  BY DEF pmm_free_n, Pages, Bits
<1>3. targets \subseteq Pages
  BY DEF Targets
<1>4. freed \subseteq Pages \cap g_bitmap
  <2> SUFFICES ASSUME NEW p \in freed, p \notin g_bitmap PROVE FALSE
    BY <1>3
  <2>1. p \in clear /\ p \in Nat
    BY <1>1, <1>3
  <2>2. p < p
    BY <2>1
  <2> QED BY <2>1, <2>2
<1>5. \A p \in freed : holders[p] = 1 /\ p \in usable
  <2>1. \A p \in freed : holders[p] > 0
    BY <1>4 DEF pmm_free_n, MayFree
  <2>2. \A p \in Pages : holders[p] \in Nat
    BY <1>1 DEF TypeOK
  <2>3. \A p \in freed : p \in Pages
    BY <1>4
  <2>4. \A p \in Pages : holders[p] <= 1 /\ (holders[p] > 0 => p \in usable)
    BY DEF IInv, ExclusiveOwnership, ReservedNeverGiven
  <2> HIDE DEF freed
  <2> QED BY <2>1, <2>2, <2>3, <2>4
<1>6. /\ g_bitmap' = g_bitmap \ freed
      /\ g_free_pages' = g_free_pages + Cardinality(freed)
      /\ g_used_pages' = g_used_pages - Cardinality(freed)
      /\ g_alloc_hint' \in freed \cup {g_alloc_hint}
      /\ holders' = [p \in Pages |-> holders[p] - (IF p \in freed THEN 1 ELSE 0)]
      /\ panicked' \in BOOLEAN
      /\ last' = [op |-> "pmm_free", n |-> n, ret |-> 0]
  BY <1>1 DEF pmm_free_n, ClearBits, IsLeast, TypeOK
<1> HIDE DEF freed
<1>7. Accounting' /\ g_free_pages' \in Nat /\ g_used_pages' \in Nat
  <2>1. freed \subseteq Pages \ g_bitmap' /\ g_bitmap = g_bitmap' \cup freed
    BY <1>4, <1>6
  <2>2. /\ Cardinality(freed) \in Nat
        /\ NumClear(Pages, g_bitmap') \in Nat /\ NumSet(Pages, g_bitmap') \in Nat
        /\ NumClear(Pages, g_bitmap) = NumClear(Pages, g_bitmap') - Cardinality(freed)
        /\ NumSet(Pages, g_bitmap) = NumSet(Pages, g_bitmap') + Cardinality(freed)
    <3>1. Marking(Pages, g_bitmap', freed, g_bitmap)
      BY <1>1, <2>1 DEF Marking
    <3> QED BY <3>1, CountTake
  <2>3. g_free_pages = NumClear(Pages, g_bitmap) /\ g_used_pages = NumSet(Pages, g_bitmap)
    BY DEF IInv, Accounting, NumClear, NumSet
  <2>4. /\ g_free_pages' = NumClear(Pages, g_bitmap')
        /\ g_used_pages' = NumSet(Pages, g_bitmap')
    BY <1>6, <2>2, <2>3
  <2> QED BY <1>2, <2>2, <2>4 DEF Accounting, NumClear, NumSet
<1>8. TypeOK'
  <2>1. holders' \in [Pages -> Nat]
    BY <1>1, <1>5, <1>6 DEF TypeOK
  <2>2. g_bitmap' \subseteq Bits
    BY <1>1, <1>6 DEF TypeOK
  <2>3. g_alloc_hint' \in Pages \cup {0}
    BY <1>1, <1>4, <1>6 DEF TypeOK
  <2>4. last' \in [op : {"boot", "pmm_alloc", "pmm_alloc_zone", "pmm_alloc_n", "pmm_free"},
                   n : Nat, ret : Nat]
    BY <1>6
  <2>5. panicked' \in BOOLEAN
    BY <1>6
  <2> QED BY <1>1, <1>2, <1>7, <2>1, <2>2, <2>3, <2>4, <2>5 DEF TypeOK
<1>9. ExclusiveOwnership' /\ ReservedNeverGiven' /\ NoFrameLost'
  BY <1>1, <1>2, <1>5, <1>6
     DEF IInv, ExclusiveOwnership, ReservedNeverGiven, NoFrameLost, TypeOK
<1>10. AllocComplete'
  BY <1>6 DEF AllocComplete
<1>11. (Pages \ usable \subseteq g_bitmap)'
  BY <1>2, <1>5, <1>6 DEF IInv
<1>12. (\A i \in Bits : bitmap_pfn + i \div BITS_PER_PAGE \notin usable)' /\ (0 \notin usable)'
  BY <1>2 DEF IInv
<1> QED BY <1>1, <1>2, <1>7, <1>8, <1>9, <1>10, <1>11, <1>12 DEF IInv

\* Of the pages P boot frees I, then takes back K = I \cap T: A is what stays
\* clear and U what is in use.
BootSplit(P, I, T, K, A, U) ==
  IsFiniteSet(P) /\ I \subseteq P /\ K = I \cap T /\ A = I \ T /\ U = P \ A

(* The counts boot keeps while it frees pages and takes reserved ones back. *)
LEMMA BootCounts ==
  ASSUME NEW P, NEW I, NEW T, NEW K, NEW A, NEW U, BootSplit(P, I, T, K, A, U)
  PROVE  /\ Cardinality(I) \in Nat /\ Cardinality(K) \in Nat /\ Cardinality(P) \in Nat
         /\ Cardinality(A) \in Nat /\ Cardinality(U) \in Nat
         /\ Cardinality(A) = Cardinality(I) - Cardinality(K)
         /\ Cardinality(U) = Cardinality(P) - Cardinality(A)
<1> USE DEF BootSplit
<1>1. IsFiniteSet(I)
  BY FS_Subset
<1>2. IsFiniteSet(A) /\ IsFiniteSet(K) /\ IsFiniteSet(U)
  BY <1>1, FS_Difference, FS_Intersection
<1>3. Cardinality(I \ T) = Cardinality(I) - Cardinality(I \cap T)
  BY <1>1, FS_Difference
<1>4. Cardinality(A) = Cardinality(I) - Cardinality(K)
  BY <1>3, Zenon
<1>5. Cardinality(P \ A) = Cardinality(P) - Cardinality(P \cap A)
  BY FS_Difference
<1>6. P \cap A = A
  OBVIOUS
<1>7. Cardinality(U) = Cardinality(P) - Cardinality(A)
  BY <1>5, <1>6, Zenon
<1> QED BY <1>1, <1>2, <1>4, <1>7, FS_CardinalityType

(* pmm_init_from_multiboot establishes the invariant when its memset covers *)
(* the bits: what is clear afterwards is what was available and is not     *)
(* reserved, and the bitmap's own frames are reserved.                     *)
LEMMA BootIInv ==
  ASSUME IInv, NEW b \in BootInfos, NEW e \in Ends(b),
         UncoveredBits(PageDown(e)) = {}, pmm_init_from_multiboot(b, e, {})
  PROVE  IInv'
<1> DEFINE total == PageDown(e)
           pages == 0 .. (total - 1)
           inside == pages \cap UNION {Inside(r) : r \in AvailableRegions(b)}
           touched == pages \cap UNION {Touched(r) : r \in ReservedRegions(b, total)}
           kept == inside \cap touched
<1>1. e \in Nat /\ total \in Nat
  <2>1. e \in Nat
    BY PmmConstants DEF Ends
  <2> QED BY <2>1, PageFacts
<1>2. pages \subseteq BitsOf(total) /\ IsFiniteSet(pages) /\ Cardinality(pages) = total
  <2>1. pages \subseteq BitsOf(total)
    BY <1>1, PagesAreBits
  <2>2. IsFiniteSet(pages) /\ Cardinality(pages) = total
    <3> HIDE DEF total
    <3> QED BY <1>1, FS_Interval
  <2> QED BY <2>1, <2>2
<1>3. /\ ~booted /\ booted' = TRUE
      /\ g_total_pages' = total
      /\ bitmap_pfn' = PageUp(b.kern_end)
      /\ usable' = inside \ touched
      /\ holders' = [p \in pages |-> 0]
      /\ UNCHANGED <<g_alloc_hint, panicked, last>>
  BY DEF pmm_init_from_multiboot
<1> DEFINE marked == (BitsOf(total) \ UncoveredBits(total)) \cup {}
           freed == inside \cap marked
           retaken == touched \ (marked \ freed)
<1>4. /\ g_bitmap' = (marked \ freed) \cup retaken
      /\ g_free_pages' = Cardinality(freed) - Cardinality(retaken)
      /\ g_used_pages' = total - Cardinality(freed) + Cardinality(retaken)
  BY DEF pmm_init_from_multiboot
<1>5. freed = inside /\ retaken = kept /\ g_bitmap' = (BitsOf(total) \ inside) \cup kept
  <2>1. marked = BitsOf(total)
    OBVIOUS
  <2> HIDE DEF marked, total
  <2> QED BY <1>2, <1>4, <2>1
<1>6. Pages' = pages /\ Bits' = BitsOf(total)
  BY <1>3 DEF Pages, Bits
<1>7. Accounting' /\ g_free_pages' \in Nat /\ g_used_pages' \in Nat
  <2> DEFINE A == inside \ touched
             U == pages \ A
  <2>1. inside \subseteq pages /\ touched \subseteq pages
    OBVIOUS
  <2> HIDE DEF pages, inside, touched, total
  <2>2. /\ Cardinality(inside) \in Nat /\ Cardinality(kept) \in Nat
        /\ Cardinality(pages) \in Nat
        /\ Cardinality(A) \in Nat /\ Cardinality(U) \in Nat
        /\ Cardinality(A) = Cardinality(inside) - Cardinality(kept)
        /\ Cardinality(U) = Cardinality(pages) - Cardinality(A)
    <3>1. BootSplit(pages, inside, touched, kept, A, U)
      BY <1>2, <2>1 DEF BootSplit
    <3> HIDE DEF kept, A, U
    <3> QED BY <3>1, BootCounts
  <2>3. Pages' \ g_bitmap' = A /\ Pages' \cap g_bitmap' = U
    BY <1>2, <1>5, <1>6, <2>1
  <2> HIDE DEF A, U, kept, freed, retaken
  <2>4. Cardinality(freed) = Cardinality(inside) /\ Cardinality(retaken) = Cardinality(kept)
    BY <1>5, Zenon
  <2>5. g_free_pages' = Cardinality(A) /\ g_used_pages' = Cardinality(U)
    BY <1>1, <1>2, <1>4, <2>2, <2>4
  <2>6. /\ Cardinality(Pages' \ g_bitmap') = Cardinality(A)
        /\ Cardinality(Pages' \cap g_bitmap') = Cardinality(U)
    BY <2>3, Zenon
  <2>7. Accounting'
    BY <2>5, <2>6 DEF Accounting
  <2> QED BY <2>2, <2>5, <2>7
<1>8. TypeOK'
  <2>1. bitmap_pfn' \in Nat
    BY <1>3, PageFacts, PmmConstants
  <2>2. g_alloc_hint' = 0 /\ panicked' \in BOOLEAN /\ last' = last
    BY <1>3 DEF IInv, TypeOK
  <2>3. usable' \subseteq Pages' /\ g_bitmap' \subseteq Bits'
    BY <1>2, <1>3, <1>5, <1>6
  <2>4. holders' \in [Pages' -> Nat]
    BY <1>3, <1>6
  <2>5. g_total_pages' \in Nat /\ booted' \in BOOLEAN
    BY <1>1, <1>3
  <2>6. last' \in [op : {"boot", "pmm_alloc", "pmm_alloc_zone", "pmm_alloc_n", "pmm_free"},
                   n : Nat, ret : Nat]
    BY <2>2 DEF IInv, TypeOK
  <2> QED BY <1>7, <2>1, <2>2, <2>3, <2>4, <2>5, <2>6 DEF TypeOK
<1>9. \A p \in Pages' : p \in usable' <=> p \notin g_bitmap'
  BY <1>2, <1>3, <1>5, <1>6
<1>10. ExclusiveOwnership' /\ ReservedNeverGiven' /\ NoFrameLost'
  <2>1. \A p \in Pages' : holders'[p] = 0
    BY <1>3, <1>6
  <2>2. usable' \subseteq Pages'
    BY <1>8 DEF TypeOK
  <2> QED BY <1>9, <2>1, <2>2 DEF ExclusiveOwnership, ReservedNeverGiven, NoFrameLost
<1>11. AllocComplete'
  BY <1>3 DEF IInv, AllocComplete
<1>12. (\A i \in Bits : bitmap_pfn + i \div BITS_PER_PAGE \notin usable)'
  <2> SUFFICES ASSUME NEW i \in BitsOf(total)
               PROVE  bitmap_pfn' + i \div BITS_PER_PAGE \notin inside \ touched
    BY <1>3, <1>6
  <2> DEFINE first == PageUp(b.kern_end)
             count == BitmapPages(total)
             chunk == i \div BITS_PER_PAGE
             region == [base |-> first * PAGE_SIZE, size |-> count * PAGE_SIZE]
  <2>1. first \in Nat /\ PAGE_SIZE \in Nat \ {0} /\ BITS_PER_BYTE \in Nat \ {0}
    BY PageFacts, PmmConstants
  <2>2. count \in Nat
    <3>1. total \div BITS_PER_BYTE \in Nat
      BY <1>1, <2>1, DivBounds
    <3> QED BY <3>1, PageFacts DEF BitmapPages
  <2>3. BITS_PER_PAGE \in Nat \ {0}
    BY <2>1 DEF BITS_PER_PAGE
  <2>4. i \in Nat
    BY <1>1, PagesAreBits, PmmConstants DEF BitsOf
  <2>5. i < count * BITS_PER_PAGE
    BY <2>2, <2>3, <2>4 DEF UncoveredBits
  <2>6. chunk \in 0 .. (count - 1)
    BY <2>2, <2>3, <2>4, <2>5, ChunkBelow
  <2>7. region \in ReservedRegions(b, total)
    BY DEF ReservedRegions
  <2>8. Touched(region) = first .. (first + count - 1)
    <3> HIDE DEF first, count
    <3>1. first * PAGE_SIZE + count * PAGE_SIZE = (first + count) * PAGE_SIZE
      BY <2>1, <2>2
    <3>2. first + count \in Nat
      BY <2>1, <2>2
    <3>3. PageUp((first + count) * PAGE_SIZE) = first + count
      BY <3>2, PageFacts
    <3>4. PageDown(first * PAGE_SIZE) = first
      BY <2>1, PageFacts
    <3>5. PageUp(first * PAGE_SIZE + count * PAGE_SIZE) = first + count
      BY <3>1, <3>3, Zenon
    <3>6. region.base = first * PAGE_SIZE /\ region.size = count * PAGE_SIZE
      OBVIOUS
    <3> HIDE DEF region
    <3>7. PageDown(region.base) = first
      BY <3>4, <3>6, Zenon
    <3>8. PageUp(region.base + region.size) = first + count
      BY <3>5, <3>6, Zenon
    <3> QED BY <2>1, <2>2, <3>7, <3>8 DEF Touched
  <2> HIDE DEF first, count, chunk, region
  <2>9. first + chunk \in Touched(region)
    BY <2>1, <2>2, <2>6, <2>8
  <2>10. first + chunk \notin inside \ touched
    BY <2>7, <2>9
  <2> QED BY <1>3, <2>10 DEF first, chunk
<1>13. (0 \notin usable)'
  <2> DEFINE region == [base |-> 0, size |-> PAGE_SIZE]
  <2>1. region \in ReservedRegions(b, total)
    BY DEF ReservedRegions
  <2>2. PAGE_SIZE \in Nat \ {0} /\ PageDown(0 * PAGE_SIZE) = 0 /\ PageUp(1 * PAGE_SIZE) = 1
    BY PageFacts, PmmConstants
  <2>3. 0 \in Touched(region)
    <3>1. 0 * PAGE_SIZE = 0 /\ 1 * PAGE_SIZE = PAGE_SIZE /\ 0 + PAGE_SIZE = PAGE_SIZE
      BY <2>2
    <3>2. PageDown(0) = 0 /\ PageUp(0 + PAGE_SIZE) = 1
      BY <2>2, <3>1
    <3> QED BY <3>2 DEF Touched
  <2> HIDE DEF region
  <2> QED BY <1>3, <2>1, <2>3
<1> QED BY <1>3, <1>7, <1>8, <1>9, <1>10, <1>11, <1>12, <1>13 DEF IInv

(* Every step keeps the invariant, if the bitmap's memset covers its bits  *)
(* for every boot record.                                                  *)
LEMMA NextIInv ==
  ASSUME BitmapCovered, IInv, [Next]_vars
  PROVE  IInv'
<1>1. CASE Boot
  <2>a. PICK b \in BootInfos : \E e \in Ends(b) :
          \E junk \in SUBSET UncoveredBits(PageDown(e)) : pmm_init_from_multiboot(b, e, junk)
    BY <1>1 DEF Boot
  <2>b. PICK e \in Ends(b) :
          \E junk \in SUBSET UncoveredBits(PageDown(e)) : pmm_init_from_multiboot(b, e, junk)
    BY <2>a
  <2>1. PICK junk \in SUBSET UncoveredBits(PageDown(e)) : pmm_init_from_multiboot(b, e, junk)
    BY <2>b
  <2>2. UncoveredBits(PageDown(e)) = {} /\ junk = {}
    BY DEF BitmapCovered
  <2> QED BY <2>1, <2>2, BootIInv
<1>2. CASE pmm_alloc
  BY <1>2, AllocIInv
<1>3. ASSUME NEW zone \in DOMAIN ZoneLimit, pmm_alloc_zone(zone) PROVE IInv'
  BY <1>3, AllocZoneIInv
<1>4. ASSUME NEW n \in 0..MaxRun, pmm_alloc_n(n) PROVE IInv'
  BY <1>4, AllocNIInv, PmmConstants
<1>5. ASSUME NEW phys \in Addresses, NEW n \in Nat, pmm_free_n(phys, n) PROVE IInv'
  <2>1. phys \in Nat
    BY PmmConstants DEF Addresses, IInv, TypeOK
  <2> QED BY <1>5, <2>1, FreeIInv
<1>6. CASE UNCHANGED vars
  <2>1. Pages' = Pages /\ Bits' = Bits
    BY <1>6 DEF vars, Pages, Bits
  <2> QED BY <1>6, <2>1 DEF vars, IInv, TypeOK, Accounting, ExclusiveOwnership,
                             ReservedNeverGiven, NoFrameLost, AllocComplete
<1>7. MaxRun \in Nat
  BY PmmConstants
<1> QED BY <1>1, <1>2, <1>3, <1>4, <1>5, <1>6, <1>7 DEF Next, pmm_free

-----------------------------------------------------------------------------
(* The whole inductive invariant holds in every reachable state.           *)
LEMMA AlwaysIInv ==
  ASSUME BitmapCovered
  PROVE  Spec => []IInv
<1>1. Init => IInv
  BY InitIInv
<1>2. IInv /\ [Next]_vars => IInv'
  BY NextIInv
<1> QED BY <1>1, <1>2, PTL DEF Spec

(* The allocator's variables keep their types: in particular the size_t    *)
(* counters g_free_pages and g_used_pages never go below zero and the hint *)
(* never points past the last page.                                        *)
THEOREM TypeSafe ==
  ASSUME BitmapCovered
  PROVE  Spec => []TypeOK
<1>1. IInv => TypeOK
  BY DEF IInv
<1> QED BY <1>1, AlwaysIInv, PTL

(* The two counters agree with the bitmap after any sequence of calls of   *)
(* boot, pmm_alloc, pmm_alloc_zone, pmm_alloc_n, pmm_free and pmm_free_n.  *)
THEOREM AccountingHolds ==
  ASSUME BitmapCovered
  PROVE  Spec => []Accounting
<1>1. IInv => Accounting
  BY DEF IInv
<1> QED BY <1>1, AlwaysIInv, PTL

(* No frame is ever handed out to two callers, and none is handed out that *)
(* boot reserved (kernel image, bitmap, initrd, low memory, frame 0) or    *)
(* that is not available memory.                                           *)
THEOREM OwnershipSafe ==
  ASSUME BitmapCovered
  PROVE  Spec => [](ExclusiveOwnership /\ ReservedNeverGiven)
<1>1. IInv => ExclusiveOwnership /\ ReservedNeverGiven
  BY DEF IInv
<1> QED BY <1>1, AlwaysIInv, PTL

(* A usable frame's bit is set exactly while a caller holds the frame, so   *)
(* no sequence of calls loses memory.                                      *)
THEOREM NothingLost ==
  ASSUME BitmapCovered
  PROVE  Spec => []NoFrameLost
<1>1. IInv => NoFrameLost
  BY DEF IInv
<1> QED BY <1>1, AlwaysIInv, PTL

(* pmm_alloc and pmm_alloc_n report failure only when the memory asked for  *)
(* is not there: the scan from the hint and its second pass miss no page.  *)
THEOREM AllocationComplete ==
  ASSUME BitmapCovered
  PROVE  Spec => []AllocComplete
<1>1. IInv => AllocComplete
  BY DEF IInv
<1> QED BY <1>1, AlwaysIInv, PTL
=============================================================================
