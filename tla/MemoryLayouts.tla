--------------------------- MODULE MemoryLayouts ----------------------------
(***************************************************************************)
(* The machine at a scale of about 1 : 40, keeping the order of what boot  *)
(* places where: low memory, the hole, the kernel image inside the frames  *)
(* that the heap receives, frames behind the identity-mapped window.       *)
(*                                                                         *)
(*   frames 0-4 burnt, 5 framebuffer's table, 6-7 heap page and table,     *)
(*   8-9 hole, 10-13 heap (12-13 the kernel image), 14-18 init and stack   *)
(***************************************************************************)
EXTENDS Integers, Sequences

MCAvailable == {<<0, 17>>, <<19, 40>>}
MCKernelImage == {12, 13}
MCKernelEnds == {0, 74}

Seg(page, units) == [vaddr |-> 2 * page, memsz |-> units]

\* The programs of the repository are linked at one address (link.ld).
SamePlace ==
    [init |-> <<Seg(24, 2)>>, shell |-> <<Seg(24, 3)>>, xedit |-> <<Seg(24, 5)>>]

\* With a program of two segments, one of which is linked elsewhere, so that its
\* page table comes late, and one whose segment does not begin on a page: it
\* ends in a page that no round maps.
ElsewhereToo ==
    [init |-> <<Seg(24, 2)>>, shell |-> <<Seg(24, 3)>>, xedit |-> <<Seg(24, 5)>>,
     far |-> <<Seg(25, 2), Seg(50, 1)>>, odd |-> <<[vaddr |-> 53, memsz |-> 2]>>]
=============================================================================
