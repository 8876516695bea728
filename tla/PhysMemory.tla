----------------------------- MODULE PhysMemory -----------------------------
(***************************************************************************)
(* The physical memory manager (pmm.c): a bitmap of frames, filled from    *)
(* the multiboot memory map, and a counter of used frames kept beside it.  *)
(* Frames are numbered, and `frame_bitmap` is the set of those whose bit   *)
(* is 1.  Addresses and lengths are counted in units, PAGE of them to a    *)
(* frame, so that regions which do not start or end on a frame are         *)
(* rounded as the code rounds them.                                        *)
(***************************************************************************)
EXTENDS Integers, FiniteSets

CONSTANTS
    PAGE,          \* units in a frame (0x1000 bytes)
    MemSize,       \* (mem_lower + mem_upper) * 1024, in units
    Available,     \* regions of type MULTIBOOT_MEMORY_AVAILABLE: <<addr, len>>
    KernelStart,   \* the word stored at _start: the kernel's first instruction
    KernelEnds,    \* words the RAM behind the image may hold at __kernel_end
    KernelImage    \* the frames that hold the kernel's code, data and bss

VARIABLES frame_bitmap, used_frames

pmm_vars == <<frame_bitmap, used_frames>>

Ceil(units)  == (units + PAGE - 1) \div PAGE
Floor(units) == units \div PAGE

total_frames == Ceil(MemSize)

Frame == 0..(total_frames - 1)

ASSUME PageAssumption == PAGE \in Nat \ {0} /\ MemSize \in Nat
ASSUME KernelAssumption ==
    /\ KernelImage \subseteq Frame
    /\ KernelStart \in Nat /\ KernelEnds \subseteq Nat

\* The frames a region adds to the pool: those it covers whole.
Covered(region) == (Ceil(region[1])..(Floor(region[1] + region[2]) - 1)) \cap Frame

\* The bits set by the last loop of pmm_init, which takes its bounds from the
\* words stored at the two linker symbols; some may lie behind the bitmap.
ReservedBits(end) == Floor(KernelStart)..(Floor(end) - 1)

pmm_init(end) ==
    /\ frame_bitmap = (Frame \ UNION {Covered(r) : r \in Available})
                        \cup (ReservedBits(end) \cap Frame)
    /\ used_frames = Cardinality(ReservedBits(end))

-----------------------------------------------------------------------------

Exhausted(bitmap) == Frame \subseteq bitmap

\* pmm_alloc_frame's search over a bitmap, and the update of the state by a
\* run of code that allocated the frames of `taken`.
FirstFree(f, bitmap) ==
    /\ f \in Frame \ bitmap
    /\ \A g \in Frame \ bitmap : f <= g

\* Mutants: the counter goes the wrong way; it misses the page table that was
\* allocated together with a page.
pmm_alloc_framesCountsDown(taken) ==
    /\ frame_bitmap' = frame_bitmap \cup taken
    /\ used_frames' = used_frames - Cardinality(taken)

pmm_alloc_framesCountsOnce(taken) ==
    /\ frame_bitmap' = frame_bitmap \cup taken
    /\ used_frames' = IF taken = {} THEN used_frames ELSE used_frames + 1

pmm_alloc_frames(taken) ==
    /\ frame_bitmap' = frame_bitmap \cup taken
    /\ used_frames' = used_frames + Cardinality(taken)

pmm_free_frames(freed) ==
    /\ frame_bitmap' = frame_bitmap \ freed
    /\ used_frames' = used_frames - Cardinality(freed)
=============================================================================
