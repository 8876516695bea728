--------------------------- MODULE MCKernelMemory ---------------------------
(* KernelMemory on the scaled-down machine of MemoryLayouts.               *)
EXTENDS KernelMemory, MemoryLayouts
=============================================================================
