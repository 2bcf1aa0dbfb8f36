------------------------------- MODULE MCPmm -------------------------------
(* Small memories for Pmm: 2-byte pages, 2-bit bytes and 4-bit bitmap words, *)
(* so that the bitmap spans several words and several frames.              *)
EXTENDS Pmm

Region(b, s, a) == [base |-> b, size |-> s, available |-> a]

\* 16 pages: low memory 0-1, kernel 2, bitmap 3-6, multiboot record in 7;
\* page 12 is a hole, and the regions do not start on page boundaries.
BootFull ==
  [mmap |-> <<Region(0, 24, TRUE), Region(24, 1, FALSE), Region(25, 7, TRUE)>>,
   kern_start |-> 4, kern_end |-> 5, mbi |-> [base |-> 14, size |-> 1], modules |-> {}]

\* 14 pages: the last word is only half used; an initrd touches page 13;
\* the last region does not fit into g_regions.
BootPartial ==
  [mmap |-> <<Region(0, 10, TRUE), Region(12, 15, TRUE), Region(16, 12, TRUE),
              Region(0, 28, TRUE)>>,
   kern_start |-> 5, kern_end |-> 6, mbi |-> [base |-> 15, size |-> 2],
   modules |-> {[base |-> 25, size |-> 2]}]

BootInfosCovered == {BootFull, BootPartial}

\* 13 pages: total / 2 = 6 bytes of bitmap, three frames, cover 12 of them.
BootTail ==
  [mmap |-> <<Region(0, 24, TRUE), Region(24, 2, FALSE)>>,
   kern_start |-> 4, kern_end |-> 5, mbi |-> [base |-> 0, size |-> 1], modules |-> {}]

BootInfosTail == {BootTail}

Zones == [ZONE_LOW |-> 18, ZONE_NORMAL |-> 40]
=============================================================================
