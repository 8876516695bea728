------------------------- MODULE KernelMemoryProofs -------------------------
(***************************************************************************)
(* Theorems about frames and mappings, for any memory map, any programs    *)
(* and any sizes of the tables and of the ranges mapped at boot; and that  *)
(* user mode is entered only with all of them mapped.                      *)
(***************************************************************************)
EXTENDS KernelMemory, FiniteSetTheorems, TLAPS

\* What holds between a page and its table, and before paging is on.
TablesCover ==
    \A p \in Page : page_table[p] # NotPresent => page_directory[Dir(p)] # NotPresent

NothingMappedYet == at.stage = "burn" => \A p \in Page : page_table[p] = NotPresent

\* The inductive invariant.
IInv == TypeOK /\ FramesOwnedOnce /\ TablesCover /\ NothingMappedYet

Hang == {Goto("panic"), Goto("fault"), Goto("clobber")}

\* What a call of vmm_map_page may have done, T being all the frames that it
\* and its caller allocated.
MapResult(va, frame, T, then) ==
    /\ T \subseteq Frame \ frame_bitmap
    /\ IsFiniteSet(T)
    /\ pmm_alloc_frames(T)
    /\ at' \in {then} \cup Hang
    /\ \/ UNCHANGED vmm_vars
       \/ /\ ~ Refused(va, frame)
          /\ HasTable(va)
          /\ SetEntry(va, frame)
          /\ UNCHANGED page_directory
       \/ /\ ~ Refused(va, frame)
          /\ ~ HasTable(va)
          /\ SetEntry(va, frame)
          /\ \E table \in T \ {frame} :
                page_directory' = [page_directory EXCEPT ![Dir(Floor(va))] = table]

\* The page got a frame that was allocated for it, or it is a page of the
\* framebuffer and got its own, or nothing was mapped.
Source(va, frame, T) ==
    \/ frame \in T
    \/ frame \in FramebufferRange /\ Floor(va) = frame
    \/ UNCHANGED vmm_vars

-----------------------------------------------------------------------------
(* Arithmetic                                                              *)

\* Frames and pages are numbers, and directory entries are in range.
LEMMA Numbers ==
    /\ total_frames \in Int
    /\ Frame \subseteq Nat
    /\ FixedPages \subseteq Nat
    /\ NotPresent \notin Frame \cup FixedPages
<1>1. PAGE \in Nat \ {0} /\ MemSize \in Nat
  BY PageAssumption
<1>2. total_frames \in Int
  BY <1>1 DEF total_frames, Ceil
<1> QED
  BY <1>1, <1>2, LayoutAssumption
  DEF Frame, FixedPages, IdentityPages, FramebufferRange, NotPresent

LEMMA DirInRange ==
    ASSUME NEW p \in Page
    PROVE  Dir(p) \in 0..(DIRS - 1)
<1>1. ENTRIES \in Nat \ {0} /\ DIRS \in Nat \ {0}
  BY LayoutAssumption
<1>2. p \in Nat /\ p < ENTRIES * DIRS
  BY <1>1 DEF Page
<1> DEFINE q == p \div ENTRIES
<1>3. q \in Int /\ q >= 0 /\ q * ENTRIES <= p
  BY <1>1, <1>2
<1>4. q * ENTRIES < ENTRIES * DIRS
  BY <1>1, <1>2, <1>3
<1>5. q < DIRS
  BY <1>1, <1>3, <1>4
<1> QED
  BY <1>1, <1>3, <1>5 DEF Dir

\* The first directory entry holds the identity-mapped pages.
LEMMA IdentityDir ==
    ASSUME NEW p \in IdentityPages
    PROVE  Dir(p) = 0
BY LayoutAssumption DEF IdentityPages, Dir

LEMMA PageBack ==
    ASSUME NEW p \in Nat
    PROVE  Floor(p * PAGE) = p
BY PageAssumption DEF Floor

-----------------------------------------------------------------------------
(* Calls of vmm_map_page                                                   *)

LEMMA MapEffect ==
    ASSUME NEW va, NEW frame, NEW taken, NEW then,
           taken \subseteq Frame \ frame_bitmap, IsFiniteSet(taken),
           frame \in taken \/ frame \notin Frame,
           vmm_map_page(va, frame, taken, then)
    PROVE  \E T : /\ MapResult(va, frame, T, then)
                  /\ taken \subseteq T
<1>1. CASE /\ Refused(va, frame)
           /\ UNCHANGED vmm_vars
           /\ pmm_alloc_frames(taken)
           /\ at' = then
  BY <1>1 DEF MapResult
<1>2. CASE /\ ~ Refused(va, frame)
           /\ HasTable(va)
           /\ SetEntry(va, frame)
           /\ UNCHANGED page_directory
           /\ pmm_alloc_frames(taken)
           /\ at' = then
  BY <1>2 DEF MapResult
<1>3. CASE /\ UNCHANGED vmm_vars
           /\ pmm_alloc_frames(taken)
           /\ at' = Goto("panic")
  BY <1>3 DEF MapResult, Hang
<1>4. ASSUME NEW table \in Frame,
             ~ Refused(va, frame),
             ~ HasTable(va),
             FirstFree(table, frame_bitmap \cup taken),
             pmm_alloc_frames(taken \cup {table}),
             NewTable(va, frame, table, then)
      PROVE  MapResult(va, frame, taken \cup {table}, then)
  <2>1. taken \cup {table} \subseteq Frame \ frame_bitmap /\ table # frame
    BY <1>4 DEF FirstFree
  <2>2. IsFiniteSet(taken \cup {table})
    BY FS_AddElement
  <2>3. CASE /\ page_directory' = [page_directory EXCEPT ![Dir(Floor(va))] = table]
             /\ SetEntry(va, frame)
             /\ at' = then
    BY <1>4, <2>1, <2>2, <2>3 DEF MapResult
  <2>4. CASE /\ UNCHANGED vmm_vars
             /\ at' \in {then} \cup Hang
    BY <1>4, <2>1, <2>2, <2>4 DEF MapResult
  <2> QED
    BY <1>4, <2>3, <2>4 DEF NewTable, Hang
<1> QED
  BY <1>1, <1>2, <1>3, <1>4 DEF vmm_map_page

LEMMA MapFreshEffect ==
    ASSUME NEW va, NEW then, used_frames \in Nat, MapFresh(va, then)
    PROVE  \E frame, T : /\ MapResult(va, frame, T, then)
                         /\ Source(va, frame, T)
<1>1. CASE OutOfMemory
  <2>1. pmm_alloc_frames({}) /\ IsFiniteSet({})
    BY <1>1, FS_EmptySet DEF OutOfMemory, pmm_alloc_frames, pmm_vars
  <2> QED
    BY <1>1, <2>1 DEF OutOfMemory, MapResult, Source, Hang
<1>2. ASSUME NEW frame \in Frame,
             FirstFree(frame, frame_bitmap),
             vmm_map_page(va, frame, {frame}, then)
      PROVE  \E T : MapResult(va, frame, T, then) /\ frame \in T
  <2>1. {frame} \subseteq Frame \ frame_bitmap /\ IsFiniteSet({frame})
    BY <1>2, FS_Singleton DEF FirstFree
  <2> QED
    BY <1>2, <2>1, MapEffect
<1> QED
  BY <1>1, <1>2 DEF MapFresh, Source

-----------------------------------------------------------------------------
(* What a call of vmm_map_page preserves                                   *)

\* The entry that was filled, if any: all others are as they were.
LEMMA MapEntries ==
    ASSUME NEW va, NEW frame, NEW T, NEW then, NEW p \in Page,
           TypeOK, MapResult(va, frame, T, then)
    PROVE  \/ page_table'[p] = page_table[p]
           \/ /\ p = Floor(va)
              /\ page_table'[p] = frame
              /\ ~ Refused(va, frame)
              /\ page_directory'[Dir(p)] # NotPresent
              /\ ~ UNCHANGED vmm_vars
<1>1. Dir(p) \in 0..(DIRS - 1)
  BY DirInRange
<1>2. CASE UNCHANGED vmm_vars
  BY <1>2 DEF vmm_vars
<1>3. CASE /\ ~ Refused(va, frame)
           /\ HasTable(va)
           /\ SetEntry(va, frame)
           /\ UNCHANGED page_directory
  BY <1>1, <1>3 DEF SetEntry, HasTable, TypeOK, vmm_vars
<1>4. CASE /\ ~ Refused(va, frame)
           /\ SetEntry(va, frame)
           /\ \E table \in T \ {frame} :
                 page_directory' = [page_directory EXCEPT ![Dir(Floor(va))] = table]
  <2>1. PICK table \in T : page_directory' = [page_directory EXCEPT ![Dir(Floor(va))] = table]
    BY <1>4
  <2>2. table # NotPresent
    BY Numbers DEF MapResult
  <2> QED
    BY <1>1, <1>4, <2>1, <2>2 DEF SetEntry, TypeOK, vmm_vars
<1> QED
  BY <1>2, <1>3, <1>4 DEF MapResult

\* The directory entry that was filled, if any.
LEMMA MapTables ==
    ASSUME NEW va, NEW frame, NEW T, NEW then, NEW d \in 0..(DIRS - 1),
           TypeOK, MapResult(va, frame, T, then)
    PROVE  \/ page_directory'[d] = page_directory[d]
           \/ /\ d = Dir(Floor(va))
              /\ page_directory'[d] \in T \ {frame}
              /\ page_directory[d] = NotPresent
BY DEF MapResult, TypeOK, vmm_vars, HasTable

LEMMA MapType ==
    ASSUME NEW va, NEW frame, NEW T, NEW then,
           TypeOK, MapResult(va, frame, T, then), Source(va, frame, T),
           then \in [stage : Stage, i : Nat],
           UNCHANGED <<job, running, contents>>
    PROVE  TypeOK'
<1>1. frame_bitmap' \subseteq Frame /\ used_frames' \in Nat
  <2>1. Cardinality(T) \in Nat
    BY FS_CardinalityType DEF MapResult
  <2> QED
    BY <2>1 DEF TypeOK, MapResult, pmm_alloc_frames
<1>2. page_directory' \in [0..(DIRS - 1) -> Frame \cup {NotPresent, StaticTable}]
  BY DEF TypeOK, MapResult, vmm_vars
<1>3. page_table' \in [Page -> Frame \cup FixedPages \cup {NotPresent}]
  <2>1. CASE UNCHANGED vmm_vars
    BY <2>1 DEF TypeOK, vmm_vars
  <2>2. CASE SetEntry(va, frame) /\ frame \in Frame \cup FixedPages
    BY <2>2 DEF TypeOK, SetEntry
  <2> QED
    BY <2>1, <2>2 DEF MapResult, Source, FixedPages
<1>4. at' \in [stage : Stage, i : Nat]
  BY DEF MapResult, Hang, Goto, Stage
<1> QED
  BY <1>1, <1>2, <1>3, <1>4 DEF TypeOK

LEMMA MapOwnership ==
    ASSUME NEW va, NEW frame, NEW T, NEW then,
           TypeOK, FramesOwnedOnce,
           MapResult(va, frame, T, then), Source(va, frame, T)
    PROVE  FramesOwnedOnce'
<1>1. frame_bitmap \subseteq frame_bitmap' /\ T \subseteq frame_bitmap'
      /\ T \cap frame_bitmap = {}
  BY DEF MapResult, pmm_alloc_frames
<1>2. \A p \in PoolPages' :
         \/ p \in PoolPages /\ page_table'[p] = page_table[p]
         \/ p = Floor(va) /\ page_table'[p] = frame /\ frame \in T
  <2> SUFFICES ASSUME NEW p \in Page \ FixedPages, page_table'[p] # NotPresent,
                      page_table'[p] # page_table[p]
               PROVE  p = Floor(va) /\ page_table'[p] = frame /\ frame \in T
    BY DEF PoolPages
  <2>1. p = Floor(va) /\ page_table'[p] = frame /\ ~ UNCHANGED vmm_vars
    BY MapEntries
  <2> QED
    BY <2>1 DEF Source, FixedPages
<1>3. \A d \in Tables' :
         \/ d \in Tables /\ page_directory'[d] = page_directory[d]
         \/ d = Dir(Floor(va)) /\ page_directory'[d] \in T \ {frame}
  BY MapTables DEF Tables
<1>4. \A p \in PoolPages : page_table[p] \in frame_bitmap
  BY DEF FramesOwnedOnce
<1>5. \A d \in Tables : page_directory[d] \in frame_bitmap
  BY DEF FramesOwnedOnce
<1>6. \A p, q \in PoolPages' : page_table'[p] = page_table'[q] => p = q
  BY <1>1, <1>2, <1>4 DEF FramesOwnedOnce
<1>7. \A d, e \in Tables' : page_directory'[d] = page_directory'[e] => d = e
  BY <1>1, <1>3, <1>5 DEF FramesOwnedOnce
<1>8. \A p \in PoolPages', d \in Tables' : page_table'[p] # page_directory'[d]
  BY <1>1, <1>2, <1>3, <1>4, <1>5 DEF FramesOwnedOnce
<1>9. /\ \A p \in PoolPages' : page_table'[p] \in frame_bitmap'
      /\ \A d \in Tables' : page_directory'[d] \in frame_bitmap'
  BY <1>1, <1>2, <1>3, <1>4, <1>5
<1> QED
  BY <1>6, <1>7, <1>8, <1>9 DEF FramesOwnedOnce

LEMMA MapCover ==
    ASSUME NEW va, NEW frame, NEW T, NEW then,
           TypeOK, TablesCover, MapResult(va, frame, T, then)
    PROVE  TablesCover'
<1> SUFFICES ASSUME NEW p \in Page, page_table'[p] # NotPresent,
                    page_directory'[Dir(p)] = NotPresent
             PROVE  FALSE
  BY DEF TablesCover
<1>1. page_table'[p] = page_table[p]
  BY MapEntries
<1>2. page_directory[Dir(p)] # NotPresent
  BY <1>1 DEF TablesCover
<1>3. Dir(p) \in 0..(DIRS - 1)
  BY DirInRange
<1>4. page_directory'[Dir(p)] \in T
  BY <1>2, <1>3, MapTables
<1> QED
  BY <1>4, Numbers DEF MapResult

LEMMA MapKeepsMappings ==
    ASSUME NEW va, NEW frame, NEW T, NEW then,
           TypeOK, TablesCover, MapResult(va, frame, T, then)
    PROVE  \A p \in Page : page_table[p] # NotPresent => page_table'[p] = page_table[p]
<1> SUFFICES ASSUME NEW p \in Page, page_table[p] # NotPresent
             PROVE  page_table'[p] = page_table[p]
  OBVIOUS
<1>1. p = Floor(va) => Refused(va, frame)
  BY DEF Refused, HasTable, TablesCover
<1> QED
  BY <1>1, MapEntries

-----------------------------------------------------------------------------
(* The invariant is inductive                                              *)

LEMMA NextRoundType ==
    ASSUME TypeOK
    PROVE  NextRound \in [stage : Stage, i : Nat] /\ NextRound.stage = at.stage
BY DEF TypeOK, NextRound

LEMMA InitialState == Init => IInv
<1> SUFFICES ASSUME Init PROVE IInv
  OBVIOUS
<1>1. frame_bitmap \subseteq Frame /\ used_frames \in Nat
  <2>1. PICK end \in KernelEnds : pmm_init(end)
    BY DEF Init
  <2>2. Floor(KernelStart) \in Int /\ Floor(end) - 1 \in Int
    BY PageAssumption, KernelAssumption DEF Floor
  <2>3. IsFiniteSet(ReservedBits(end))
    BY <2>2, FS_Interval DEF ReservedBits
  <2>4. Cardinality(ReservedBits(end)) \in Nat
    BY <2>3, FS_CardinalityType
  <2> QED
    BY <2>1, <2>4 DEF pmm_init
<1>2. TypeOK
  BY <1>1, ProgramsAssumption DEF Init, TypeOK, Goto, Stage
<1>3. PoolPages = {} /\ Tables = {}
  BY DEF Init, PoolPages, Tables
<1> QED
  BY <1>2, <1>3 DEF Init, IInv, FramesOwnedOnce, TablesCover, NothingMappedYet

\* A round of a mapping loop.
LEMMA MapRound ==
    ASSUME IInv, NEW va, NEW frame, NEW T, MapResult(va, frame, T, NextRound),
           Source(va, frame, T), at.stage # "burn",
           UNCHANGED <<job, running, contents>>
    PROVE  IInv'
<1>1. at'.stage # "burn"
  BY NextRoundType DEF IInv, MapResult, Hang, Goto
<1> QED
  BY <1>1, NextRoundType, MapType, MapOwnership, MapCover
  DEF IInv, NothingMappedYet

LEMMA MapFreshRound ==
    ASSUME IInv, NEW va, MapFresh(va, NextRound), at.stage # "burn",
           UNCHANGED <<job, running, contents>>
    PROVE  IInv'
<1>1. used_frames \in Nat
  BY DEF IInv, TypeOK
<1> QED
  BY <1>1, MapFreshEffect, MapRound

\* The framebuffer's pages are mapped to the frames behind them.
LEMMA FramebufferEffect ==
    ASSUME TypeOK, map_framebuffer_pages, at.i < FramebufferPages
    PROVE  \E va, frame, T : /\ MapResult(va, frame, T, NextRound)
                             /\ Source(va, frame, T)
<1> DEFINE p == FramebufferBase + at.i
<1>1. at.i \in Nat /\ p \in FramebufferRange /\ p \in Nat
  BY LayoutAssumption DEF TypeOK, FramebufferRange
<1>2. p \notin Frame /\ Floor(p * PAGE) = p
  BY <1>1, LayoutAssumption, PageBack
<1>3. vmm_map_page(p * PAGE, p, {}, NextRound)
  BY <1>1, LayoutAssumption DEF map_framebuffer_pages
<1>4. PICK T : MapResult(p * PAGE, p, T, NextRound)
  BY <1>2, <1>3, MapEffect, FS_EmptySet
<1>5. Source(p * PAGE, p, T)
  BY <1>1, <1>2 DEF Source
<1> QED
  BY <1>4, <1>5

\* A step that leaves frames and mappings alone.
LEMMA MemoryUntouched ==
    ASSUME IInv, UNCHANGED <<pmm_vars, vmm_vars>>,
           at' \in [stage : Stage, i : Nat], at'.stage # "burn",
           job' \in [prog : DOMAIN Programs, seg : Nat, caller : {"boot", "exec", "exit"}],
           running' \in DOMAIN Programs \cup {NoProgram},
           contents' \in [Page -> DOMAIN Programs \cup {NoProgram}]
    PROVE  IInv'
<1>1. /\ frame_bitmap' = frame_bitmap /\ used_frames' = used_frames
      /\ page_table' = page_table /\ page_directory' = page_directory
  BY DEF pmm_vars, vmm_vars
<1>2. TypeOK'
  BY <1>1 DEF IInv, TypeOK
<1>3. FramesOwnedOnce'
  BY <1>1 DEF IInv, FramesOwnedOnce, PoolPages, Tables
<1> QED
  BY <1>1, <1>2, <1>3 DEF IInv, TablesCover, NothingMappedYet

LEMMA BurnStep ==
    ASSUME IInv, BurnFrames
    PROVE  IInv'
<1>0. /\ page_table' = page_table /\ page_directory' = page_directory
      /\ job' = job /\ running' = running /\ contents' = contents
  BY DEF BurnFrames, OutOfMemory, vmm_vars
<1>1. /\ frame_bitmap' \subseteq Frame /\ frame_bitmap \subseteq frame_bitmap'
      /\ used_frames' \in Nat
  <2>1. CASE OutOfMemory
    BY <2>1 DEF OutOfMemory, IInv, TypeOK, pmm_vars
  <2>2. ASSUME NEW frame \in Frame, pmm_alloc_frames({frame})
        PROVE  /\ frame_bitmap' \subseteq Frame /\ frame_bitmap \subseteq frame_bitmap'
               /\ used_frames' \in Nat
    <3>1. Cardinality({frame}) = 1
      BY FS_Singleton
    <3> QED
      BY <2>2, <3>1 DEF pmm_alloc_frames, IInv, TypeOK
  <2> QED
    BY <2>1, <2>2 DEF BurnFrames
<1>2. at' \in [stage : Stage, i : Nat]
  <2>1. at' \in {Goto("panic"), NextRound}
    BY DEF BurnFrames, OutOfMemory
  <2>2. Goto("panic") \in [stage : Stage, i : Nat]
    BY DEF Goto, Stage
  <2> QED
    BY <2>1, <2>2, NextRoundType DEF IInv
<1>3. TypeOK'
  BY <1>0, <1>1, <1>2 DEF IInv, TypeOK
<1>4. FramesOwnedOnce'
  BY <1>0, <1>1 DEF IInv, FramesOwnedOnce, PoolPages, Tables
<1>5. \A p \in Page : page_table'[p] = NotPresent
  BY <1>0 DEF IInv, NothingMappedYet, BurnFrames
<1> QED
  BY <1>0, <1>3, <1>4, <1>5 DEF IInv, TablesCover, NothingMappedYet

LEMMA PagingStep ==
    ASSUME IInv, vmm_init
    PROVE  IInv'
<1>1. \A p \in Page : page_table[p] = NotPresent
  BY DEF IInv, NothingMappedYet, vmm_init
<1>2. at' = Goto("framebuffer") /\ at'.stage # "burn"
  BY DEF vmm_init, Goto
<1>3. TypeOK'
  <2>1. /\ frame_bitmap' = frame_bitmap /\ used_frames' = used_frames
        /\ job' = job /\ running' = running /\ contents' = contents
    BY DEF vmm_init, pmm_vars
  <2>2. page_directory' \in [0..(DIRS - 1) -> Frame \cup {NotPresent, StaticTable}]
    BY DEF IInv, TypeOK, vmm_init
  <2>3. page_table' \in [Page -> Frame \cup FixedPages \cup {NotPresent}]
    BY DEF IInv, TypeOK, vmm_init, FixedPages
  <2>4. at' \in [stage : Stage, i : Nat]
    BY <1>2 DEF Goto, Stage
  <2> QED
    BY <2>1, <2>2, <2>3, <2>4 DEF IInv, TypeOK
<1>4. PoolPages' = {}
  BY <1>1 DEF PoolPages, vmm_init, FixedPages
<1>5. \A d \in Tables' : d \in Tables /\ page_directory'[d] = page_directory[d]
  BY DEF Tables, vmm_init, IInv, TypeOK
<1>6. FramesOwnedOnce'
  BY <1>4, <1>5 DEF IInv, FramesOwnedOnce, vmm_init, pmm_vars
<1>7. TablesCover'
  <2> SUFFICES ASSUME NEW p \in Page, page_table'[p] # NotPresent
               PROVE  page_directory'[Dir(p)] # NotPresent
    BY DEF TablesCover
  <2>1. p \in IdentityPages
    BY <1>1 DEF vmm_init
  <2>2. Dir(p) = 0 /\ 0 \in 0..(DIRS - 1)
    BY <2>1, IdentityDir, LayoutAssumption
  <2> QED
    BY <2>2 DEF vmm_init, IInv, TypeOK, StaticTable, NotPresent
<1> QED
  BY <1>2, <1>3, <1>6, <1>7 DEF IInv, NothingMappedYet

LEMMA Inductive == IInv /\ [Next]_vars => IInv'
<1> SUFFICES ASSUME IInv, [Next]_vars
             PROVE  IInv'
  OBVIOUS
<1> USE DEF IInv
<1>1. CASE BurnFrames
  BY <1>1, BurnStep
<1>2. CASE vmm_init
  BY <1>2, PagingStep
<1>3. CASE map_framebuffer_pages
  <2>1. at.stage # "burn" /\ UNCHANGED <<job, running, contents>>
    BY <1>3 DEF map_framebuffer_pages
  <2>2. CASE at.i < FramebufferPages
    BY <1>3, <2>1, <2>2, FramebufferEffect, MapRound
  <2>3. CASE at' = Goto("heap") /\ UNCHANGED <<pmm_vars, vmm_vars>>
    <3>1. at' \in [stage : Stage, i : Nat] /\ at'.stage # "burn"
      BY <2>3 DEF Goto, Stage
    <3> QED
      BY <2>1, <2>3, <3>1, MemoryUntouched DEF TypeOK
  <2> QED
    BY <1>3, <2>2, <2>3 DEF map_framebuffer_pages
<1>4. CASE map_heap_pages
  <2>1. at.stage # "burn" /\ UNCHANGED <<job, running, contents>>
    BY <1>4 DEF map_heap_pages
  <2>2. CASE MapFresh((HeapBase + at.i) * PAGE, NextRound)
    BY <2>1, <2>2, MapFreshRound
  <2>3. CASE /\ at' \in {Goto("fault"), Goto("load")}
             /\ UNCHANGED <<pmm_vars, vmm_vars>>
    <3>1. at' \in [stage : Stage, i : Nat] /\ at'.stage # "burn"
      BY <2>3 DEF Goto, Stage
    <3> QED
      BY <2>1, <2>3, <3>1, MemoryUntouched DEF TypeOK
  <2> QED
    BY <1>4, <2>2, <2>3 DEF map_heap_pages
<1>5. CASE LoadFails
  <2>1. at' \in [stage : Stage, i : Nat] /\ at'.stage # "burn"
    BY <1>5 DEF LoadFails, Return, Goto, Stage, TypeOK
  <2>2. running' \in DOMAIN Programs \cup {NoProgram}
    BY <1>5 DEF LoadFails, Return, TypeOK
  <2> QED
    BY <1>5, <2>1, <2>2, MemoryUntouched DEF LoadFails, TypeOK
<1>6. CASE LoadMapsPage
  BY <1>6, MapFreshRound DEF LoadMapsPage
<1>7. CASE LoadCopies
  <2>1. at' \in [stage : Stage, i : Nat] /\ at'.stage # "burn"
    BY <1>7 DEF LoadCopies, Goto, Stage
  <2>2. job' \in [prog : DOMAIN Programs, seg : Nat, caller : {"boot", "exec", "exit"}]
    BY <1>7 DEF LoadCopies, TypeOK
  <2>3. contents' \in [Page -> DOMAIN Programs \cup {NoProgram}]
    BY <1>7 DEF LoadCopies, TypeOK
  <2> QED
    BY <1>7, <2>1, <2>2, <2>3, MemoryUntouched DEF LoadCopies, TypeOK
<1>8. CASE LoadDone
  <2>1. at' \in [stage : Stage, i : Nat] /\ at'.stage # "burn"
    BY <1>8 DEF LoadDone, Return, Goto, Stage, TypeOK
  <2>2. running' \in DOMAIN Programs \cup {NoProgram}
    BY <1>8 DEF LoadDone, Return, TypeOK
  <2> QED
    BY <1>8, <2>1, <2>2, MemoryUntouched DEF LoadDone, TypeOK
<1>9. CASE map_user_stack
  BY <1>9, MapFreshRound DEF map_user_stack
<1>10. CASE EnterUserMode
  <2>1. at' \in [stage : Stage, i : Nat] /\ at'.stage # "burn"
    BY <1>10 DEF EnterUserMode, Goto, Stage
  <2> QED
    BY <1>10, <2>1, MemoryUntouched DEF EnterUserMode, TypeOK
<1>11. ASSUME NEW prog \in DOMAIN Programs, NEW caller \in {"exec", "exit"},
              Load(prog, caller)
       PROVE  IInv'
  <2>1. at' \in [stage : Stage, i : Nat] /\ at'.stage # "burn"
    BY <1>11 DEF Load, Goto, Stage
  <2> QED
    BY <1>11, <2>1, MemoryUntouched DEF Load, TypeOK
<1>12. CASE Exit
  BY <1>11, <1>12, ProgramsAssumption DEF Exit
<1>13. ASSUME NEW prog \in DOMAIN Programs, Exec(prog)
       PROVE  IInv'
  BY <1>11, <1>13 DEF Exec
<1>14. CASE UNCHANGED vars
  <2>1. /\ UNCHANGED <<pmm_vars, vmm_vars>> /\ at' = at /\ job' = job
        /\ running' = running /\ contents' = contents
    BY <1>14 DEF vars
  <2>2. /\ frame_bitmap' = frame_bitmap /\ used_frames' = used_frames
        /\ page_table' = page_table /\ page_directory' = page_directory
    BY <2>1 DEF pmm_vars, vmm_vars
  <2> QED
    BY <2>1, <2>2 DEF TypeOK, FramesOwnedOnce, PoolPages, Tables, TablesCover,
                      NothingMappedYet
<1> QED
  BY <1>1, <1>2, <1>3, <1>4, <1>5, <1>6, <1>7, <1>8, <1>9, <1>10, <1>12, <1>13, <1>14
  DEF Next

LEMMA Invariant == Spec => []IInv
<1>1. Init => IInv
  BY InitialState
<1>2. IInv /\ [Next]_vars => IInv'
  BY Inductive
<1> QED
  BY <1>1, <1>2, PTL DEF Spec

-----------------------------------------------------------------------------
(* The theorems                                                            *)

\* Types, on every path through boot, the loader and the system calls.
THEOREM TypeCorrect == Spec => []TypeOK
<1>1. IInv => TypeOK
  BY DEF IInv
<1> QED
  BY <1>1, Invariant, PTL

\* Whatever the memory map and the programs, no frame that pmm_alloc_frame
\* handed to a page or to a page table serves a second one.
THEOREM OneOwner == Spec => []FramesOwnedOnce
<1>1. IInv => FramesOwnedOnce
  BY DEF IInv
<1> QED
  BY <1>1, Invariant, PTL

\* One step of the theorem below.
LEMMA StepKeepsMappings ==
    ASSUME IInv, [Next]_vars
    PROVE  \A p \in Page : page_table[p] # NotPresent => page_table'[p] = page_table[p]
<1> DEFINE Kept == \A p \in Page : page_table[p] # NotPresent
                                      => page_table'[p] = page_table[p]
<1>0. TypeOK /\ TablesCover /\ used_frames \in Nat
  BY DEF IInv, TypeOK
<1>1. ASSUME NEW va, NEW then, MapFresh(va, then)
      PROVE  Kept
  BY <1>0, <1>1, MapFreshEffect, MapKeepsMappings
<1>2. ASSUME UNCHANGED vmm_vars
      PROVE  Kept
  BY <1>2 DEF vmm_vars
<1>3. CASE vmm_init
  BY <1>3 DEF IInv, NothingMappedYet, vmm_init
<1>4. CASE map_framebuffer_pages
  <2>1. CASE at.i < FramebufferPages
    BY <1>0, <1>4, <2>1, FramebufferEffect, MapKeepsMappings
  <2> QED
    BY <1>2, <1>4, <2>1 DEF map_framebuffer_pages
<1>5. CASE map_heap_pages
  BY <1>1, <1>2, <1>5 DEF map_heap_pages
<1>6. CASE LoadMapsPage \/ map_user_stack
  BY <1>1, <1>6 DEF LoadMapsPage, map_user_stack
<1>7. CASE \/ BurnFrames \/ LoadFails \/ LoadCopies \/ LoadDone \/ EnterUserMode
           \/ (\E prog \in DOMAIN Programs : Exec(prog)) \/ Exit
  <2>1. UNCHANGED vmm_vars
    BY <1>7 DEF BurnFrames, OutOfMemory, LoadFails, LoadCopies, LoadDone,
                EnterUserMode, Exec, Exit, Load
  <2> QED
    BY <1>2, <2>1
<1>8. CASE UNCHANGED vars
  BY <1>2, <1>8 DEF vars
<1> QED
  BY <1>3, <1>4, <1>5, <1>6, <1>7, <1>8 DEF Next

\* vmm_map_page and vmm_init never move a page that is mapped: a program that
\* is loaded over another one gets the frames of the first.
THEOREM NothingMoves == Spec => MappingsStay
<1>1. IInv /\ [Next]_vars =>
        [\A p \in Page : page_table[p] # NotPresent => page_table'[p] = page_table[p]]_vars
  BY StepKeepsMappings
<1> QED
  BY <1>1, Invariant, PTL DEF Spec, MappingsStay

-----------------------------------------------------------------------------
(* The counter of used frames                                              *)

\* The set that pmm_init leaves marked, given the word at __kernel_end.
Reserved(end) == (Frame \ UNION {Covered(r) : r \in Available})
                    \cup (ReservedBits(end) \cap Frame)

Counted(end) ==
    /\ Reserved(end) \subseteq frame_bitmap
    /\ used_frames - Cardinality(ReservedBits(end))
          = Cardinality(frame_bitmap \ Reserved(end))

\* The bits of pmm_init's last loop can be counted.
LEMMA ReservedCount ==
    ASSUME NEW end \in KernelEnds
    PROVE  Cardinality(ReservedBits(end)) \in Nat
<1>1. Floor(KernelStart) \in Int /\ Floor(end) - 1 \in Int
  BY PageAssumption, KernelAssumption DEF Floor
<1> QED
  BY <1>1, FS_Interval, FS_CardinalityType DEF ReservedBits

\* Frames that were free add their number to the count.
LEMMA AllocCounted ==
    ASSUME NEW end \in KernelEnds, TypeOK, Counted(end), NEW T,
           T \subseteq Frame \ frame_bitmap, pmm_alloc_frames(T)
    PROVE  Counted(end)'
<1> DEFINE old == frame_bitmap \ Reserved(end)
<1>1. IsFiniteSet(Frame)
  BY Numbers, FS_Interval DEF Frame
<1>2. IsFiniteSet(old) /\ IsFiniteSet(T)
  BY <1>1, FS_Subset DEF TypeOK
<1>3. old \cap T = {}
  OBVIOUS
<1>4. Cardinality(old \cup T) = Cardinality(old) + Cardinality(T)
  <2>1. Cardinality(old) \in Nat /\ Cardinality(T) \in Nat
    BY <1>2, FS_CardinalityType
  <2>2. Cardinality(old \cap T) = 0
    BY <1>3, FS_EmptySet
  <2>3. Cardinality(old \cup T)
          = Cardinality(old) + Cardinality(T) - Cardinality(old \cap T)
    BY <1>2, FS_Union
  <2> HIDE DEF old
  <2> QED
    BY <2>1, <2>2, <2>3
<1>5. frame_bitmap' \ Reserved(end) = old \cup T
  BY DEF pmm_alloc_frames, Counted
<1>6. Reserved(end) \subseteq frame_bitmap'
  BY DEF pmm_alloc_frames, Counted
<1>7. /\ Cardinality(ReservedBits(end)) \in Nat
      /\ Cardinality(T) \in Nat /\ Cardinality(old) \in Nat /\ used_frames \in Nat
  BY <1>2, ReservedCount, FS_CardinalityType DEF TypeOK
<1>8. used_frames' = used_frames + Cardinality(T)
  BY DEF pmm_alloc_frames
<1>9. used_frames - Cardinality(ReservedBits(end)) = Cardinality(old)
  BY DEF Counted
<1>10. used_frames' - Cardinality(ReservedBits(end)) = Cardinality(old \cup T)
  BY <1>4, <1>7, <1>8, <1>9
<1> QED
  BY <1>5, <1>6, <1>10 DEF Counted

\* What every step does to the pool: it takes free frames or leaves it alone.
LEMMA StepAllocates ==
    ASSUME IInv, [Next]_vars
    PROVE  \/ UNCHANGED pmm_vars
           \/ \E T : T \subseteq Frame \ frame_bitmap /\ pmm_alloc_frames(T)
<1> DEFINE Takes == \E T : T \subseteq Frame \ frame_bitmap /\ pmm_alloc_frames(T)
<1>0. TypeOK /\ used_frames \in Nat
  BY DEF IInv, TypeOK
<1>1. ASSUME NEW va, NEW then, MapFresh(va, then)
      PROVE  Takes
  BY <1>0, <1>1, MapFreshEffect DEF MapResult
<1>2. CASE BurnFrames
  BY <1>2 DEF BurnFrames, OutOfMemory, FirstFree
<1>3. CASE map_framebuffer_pages
  <2>1. CASE at.i < FramebufferPages
    BY <1>0, <1>3, <2>1, FramebufferEffect DEF MapResult
  <2> QED
    BY <1>3, <2>1 DEF map_framebuffer_pages
<1>4. CASE map_heap_pages \/ LoadMapsPage \/ map_user_stack
  BY <1>1, <1>4 DEF map_heap_pages, LoadMapsPage, map_user_stack
<1>5. CASE \/ vmm_init \/ LoadFails \/ LoadCopies \/ LoadDone \/ EnterUserMode
           \/ (\E prog \in DOMAIN Programs : Exec(prog)) \/ Exit \/ UNCHANGED vars
  BY <1>5 DEF vmm_init, LoadFails, LoadCopies, LoadDone, EnterUserMode, Exec, Exit,
              Load, vars
<1> QED
  BY <1>2, <1>3, <1>4, <1>5 DEF Next

\* used_frames counts exactly the frames marked since pmm_init, page tables
\* included, whatever was refused, leaked or loaded in between.
THEOREM CounterFollowsBitmap == Spec => []Accounting
<1>1. Accounting <=> \E end \in KernelEnds : Counted(end)
  BY DEF Accounting, Counted, Reserved
<1>2. Init => Accounting
  <2> SUFFICES ASSUME Init PROVE Accounting
    OBVIOUS
  <2>1. PICK end \in KernelEnds : pmm_init(end)
    BY DEF Init
  <2>2. frame_bitmap \ Reserved(end) = {} /\ Reserved(end) \subseteq frame_bitmap
    BY <2>1 DEF pmm_init, Reserved
  <2>3. used_frames - Cardinality(ReservedBits(end)) = 0
    BY <2>1, ReservedCount DEF pmm_init
  <2> QED
    BY <1>1, <2>2, <2>3, FS_EmptySet DEF Counted
<1>3. IInv /\ Accounting /\ [Next]_vars => Accounting'
  <2> SUFFICES ASSUME IInv, [Next]_vars, NEW end \in KernelEnds, Counted(end)
               PROVE  Counted(end)'
    BY <1>1 DEF Accounting, Counted, Reserved
  <2>1. CASE UNCHANGED pmm_vars
    BY <2>1 DEF Counted, pmm_vars
  <2>2. ASSUME NEW T, T \subseteq Frame \ frame_bitmap, pmm_alloc_frames(T)
        PROVE  Counted(end)'
    BY <2>2, AllocCounted DEF IInv
  <2> QED
    BY <2>1, <2>2, StepAllocates
<1> QED
  BY <1>2, <1>3, Invariant, PTL DEF Spec

-----------------------------------------------------------------------------
(* User mode is entered ready *)

Mapped(pages) == \A p \in pages : page_table[p] # NotPresent

\* The first `n` pages of each range that boot maps.
FramebufferSoFar(n) == FramebufferBase..(FramebufferBase + n - 1)
HeapSoFar(n)        == HeapBase..(HeapBase + n - 1)
StackSoFar(n)       == (StackTop - n + 1)..StackTop

\* Frame 0 is the first that is burnt, so that no page or table gets it: vmm_map_page
\* would refuse it.
ZeroTaken == (at.stage # "burn" \/ at.i > 0) => 0 \notin Frame \ frame_bitmap

\* A program is in the address space as a whole.
Filled(prog) == \A p \in ProgramPages(prog) : contents[p] = prog

Interrupted == at.stage = "load" /\ job.caller # "boot"

\* What boot has mapped when it comes to a place.
RangesReady ==
    /\ at.stage = "framebuffer" =>
          at.i <= FramebufferPages /\ Mapped(FramebufferSoFar(at.i))
    /\ at.stage \in {"heap", "load", "stack", "user"} => Mapped(FramebufferRange)
    /\ at.stage = "heap" => at.i <= HeapPages /\ Mapped(HeapSoFar(at.i))
    /\ at.stage \in {"load", "stack", "user"} => Mapped(HeapRange)
    /\ at.stage = "stack" => at.i <= StackPages /\ Mapped(StackSoFar(at.i))
    /\ at.stage = "user" \/ Interrupted => Mapped(StackRange)

\* What the loader has filled: the segments behind it, and nothing of the program
\* that called EXEC as long as the new one may still fail to open.
ProgramsReady ==
    /\ at.stage \in {"burn", "framebuffer", "heap"} => job.seg = 1 /\ job.caller = "boot"
    /\ at.stage = "load" =>
          /\ job.seg \in Nat \ {0}
          /\ \A k \in 1..(job.seg - 1) :
                k \in DOMAIN Programs[job.prog] =>
                   \A p \in SegmentPages(Programs[job.prog][k]) : contents[p] = job.prog
    /\ at.stage = "load" /\ job.caller = "exec" /\ job.seg = 1 =>
          running # NoProgram /\ Filled(running)
    /\ at.stage = "stack" /\ running # NoProgram => Filled(running)
    /\ at.stage = "user" => running # NoProgram /\ Filled(running)

Ready == ZeroTaken /\ RangesReady /\ ProgramsReady

-----------------------------------------------------------------------------
(* A call of vmm_map_page for a page of such a range *)

\* Whatever comes of the call: the page is mapped when the loop goes on.
LEMMA MapReady ==
    ASSUME TypeOK, NEW p \in Page, NEW frame \in Nat \ {0}, NEW taken, NEW then,
           0 \notin Frame \ frame_bitmap,
           vmm_map_page(p * PAGE, frame, taken, then)
    PROVE  at' \in Hang \/ (at' = then /\ page_table'[p] # NotPresent)
<1> DEFINE va == p * PAGE
<1>0. p \in Nat BY LayoutAssumption DEF Page
<1>1. Floor(va) = p BY <1>0, PageBack
<1>2. va < PAGE => va = 0
  <2> SUFFICES ASSUME va < PAGE PROVE va = 0 OBVIOUS
  <2>1. CASE p = 0 BY <2>1, PageAssumption
  <2>2. CASE p >= 1
    <3>1. p * PAGE >= PAGE BY <1>0, <2>2, PageAssumption
    <3>2. QED BY <1>0, <3>1, PageAssumption
  <2>3. QED BY <1>0, <2>1, <2>2
<1> HIDE DEF va
<1>3. CASE Refused(va, frame) /\ UNCHANGED vmm_vars /\ at' = then
  <2>1. page_table[p] # NotPresent BY <1>1, <1>2, <1>3 DEF Refused
  <2>2. QED BY <1>3, <2>1 DEF vmm_vars
<1>4. ASSUME SetEntry(va, frame) PROVE page_table'[p] # NotPresent
  <2>1. page_table'[p] = frame BY <1>1, <1>4 DEF SetEntry, TypeOK
  <2>2. QED BY <2>1 DEF NotPresent
<1>5. CASE at' = Goto("panic") BY <1>5 DEF Hang
<1>6. ASSUME NEW table \in Frame, FirstFree(table, frame_bitmap \cup taken),
             NewTable(va, frame, table, then)
      PROVE  at' \in Hang \/ (at' = then /\ page_table'[p] # NotPresent)
  <2>1. table # 0 BY <1>6 DEF FirstFree
  <2>2. \/ SetEntry(va, frame) /\ at' = then
        \/ at' \in {Goto("fault"), Goto("clobber")}
    BY <1>6, <2>1 DEF NewTable
  <2>3. QED BY <1>4, <2>2 DEF Hang
<1>7. vmm_map_page(va, frame, taken, then) BY DEF va
<1>8. QED BY <1>3, <1>4, <1>5, <1>6, <1>7 DEF vmm_map_page

\* The same, with a frame allocated for the page.
LEMMA MapFreshReady ==
    ASSUME TypeOK, NEW p \in Page, NEW then, 0 \notin Frame \ frame_bitmap,
           MapFresh(p * PAGE, then)
    PROVE  at' \in Hang \/ (at' = then /\ page_table'[p] # NotPresent)
<1>1. CASE OutOfMemory BY <1>1 DEF OutOfMemory, Hang
<1>2. ASSUME NEW frame \in Frame, FirstFree(frame, frame_bitmap),
             vmm_map_page(p * PAGE, frame, {frame}, then)
      PROVE  at' \in Hang \/ (at' = then /\ page_table'[p] # NotPresent)
  <2>1. frame \in Nat \ {0} BY <1>2, Numbers DEF FirstFree
  <2>2. QED BY <1>2, <2>1, MapReady
<1>3. QED BY <1>1, <1>2 DEF MapFresh

\* Frames are only ever taken.
LEMMA BitmapGrows == ASSUME IInv, [Next]_vars PROVE frame_bitmap \subseteq frame_bitmap'
<1>1. ASSUME NEW va, NEW then, MapFresh(va, then) PROVE frame_bitmap \subseteq frame_bitmap'
  BY <1>1, MapFreshEffect DEF IInv, TypeOK, MapResult, pmm_alloc_frames
<1>2. ASSUME UNCHANGED pmm_vars PROVE frame_bitmap \subseteq frame_bitmap'
  BY <1>2 DEF pmm_vars
<1>3. CASE BurnFrames
  BY <1>2, <1>3 DEF BurnFrames, OutOfMemory, pmm_alloc_frames
<1>4. CASE map_framebuffer_pages
  <2>1. CASE at.i < FramebufferPages
    BY <1>4, <2>1, FramebufferEffect DEF IInv, MapResult, pmm_alloc_frames
  <2>2. QED BY <1>2, <1>4, <2>1 DEF map_framebuffer_pages
<1>5. CASE map_heap_pages
  BY <1>1, <1>2, <1>5 DEF map_heap_pages
<1>6. CASE LoadMapsPage \/ map_user_stack
  BY <1>1, <1>6 DEF LoadMapsPage, map_user_stack
<1>7. CASE \/ vmm_init \/ LoadFails \/ LoadCopies \/ LoadDone \/ EnterUserMode
           \/ (\E prog \in DOMAIN Programs : Exec(prog)) \/ Exit
  <2>1. UNCHANGED pmm_vars
    BY <1>7 DEF vmm_init, LoadFails, LoadCopies, LoadDone, EnterUserMode, Exec, Exit, Load
  <2>2. QED BY <1>2, <2>1
<1>8. CASE UNCHANGED vars BY <1>2, <1>8 DEF vars
<1>9. QED BY <1>3, <1>4, <1>5, <1>6, <1>7, <1>8 DEF Next

\* Before boot.
LEMMA InitReady == Init => Ready
BY DEF Init, Goto, Ready, ZeroTaken, RangesReady, ProgramsReady, Interrupted

\* The ranges are of pages, and grow by a page with every round.
LEMMA Ranges ==
    /\ FramebufferRange \subseteq Page /\ HeapRange \subseteq Page /\ StackRange \subseteq Page
    /\ FramebufferSoFar(FramebufferPages) = FramebufferRange
    /\ HeapSoFar(HeapPages) = HeapRange /\ StackSoFar(StackPages) = StackRange
    /\ FramebufferSoFar(0) = {} /\ HeapSoFar(0) = {} /\ StackSoFar(0) = {}
    /\ \A n \in Nat :
          /\ FramebufferSoFar(n + 1) = FramebufferSoFar(n) \cup {FramebufferBase + n}
          /\ HeapSoFar(n + 1) = HeapSoFar(n) \cup {HeapBase + n}
          /\ StackSoFar(n + 1) = StackSoFar(n) \cup {StackTop - n}
<1>1. /\ FramebufferBase \in Nat /\ FramebufferPages \in Nat /\ HeapBase \in Nat
      /\ HeapPages \in Nat /\ StackTop \in Nat /\ StackPages \in Nat
  BY LayoutAssumption
<1>2. /\ FramebufferSoFar(FramebufferPages) = FramebufferRange
      /\ HeapSoFar(HeapPages) = HeapRange /\ StackSoFar(StackPages) = StackRange
  BY DEF FramebufferSoFar, HeapSoFar, StackSoFar, FramebufferRange, HeapRange, StackRange
<1>3. FramebufferSoFar(0) = {} /\ HeapSoFar(0) = {} /\ StackSoFar(0) = {}
  BY <1>1 DEF FramebufferSoFar, HeapSoFar, StackSoFar
<1>4. ASSUME NEW n \in Nat
      PROVE  /\ FramebufferSoFar(n + 1) = FramebufferSoFar(n) \cup {FramebufferBase + n}
             /\ HeapSoFar(n + 1) = HeapSoFar(n) \cup {HeapBase + n}
             /\ StackSoFar(n + 1) = StackSoFar(n) \cup {StackTop - n}
  <2>1. FramebufferSoFar(n + 1) = FramebufferSoFar(n) \cup {FramebufferBase + n}
    BY <1>1 DEF FramebufferSoFar
  <2>2. HeapSoFar(n + 1) = HeapSoFar(n) \cup {HeapBase + n} BY <1>1 DEF HeapSoFar
  <2>3. StackSoFar(n + 1) = StackSoFar(n) \cup {StackTop - n} BY <1>1 DEF StackSoFar
  <2>4. QED BY <2>1, <2>2, <2>3
<1>5. QED BY <1>2, <1>3, <1>4, LayoutAssumption

\* What is mapped stays mapped.
LEMMA StayMapped ==
    ASSUME IInv, [Next]_vars, NEW S \in SUBSET Page, Mapped(S)
    PROVE  \A p \in S : page_table'[p] # NotPresent
BY StepKeepsMappings DEF Mapped

\* The first burnt frame is frame 0, if it was free.
LEMMA ZeroStep == ASSUME IInv, ZeroTaken, [Next]_vars PROVE ZeroTaken'
<1>1. frame_bitmap \subseteq frame_bitmap' BY BitmapGrows
<1>2. CASE at.stage # "burn" \/ at.i > 0
  BY <1>1, <1>2 DEF ZeroTaken
<1>3. CASE at.stage = "burn" /\ ~ at.i > 0
  <2>1. CASE UNCHANGED vars BY <1>3, <2>1 DEF vars, ZeroTaken
  <2>2. CASE BurnFrames
    <3>1. CASE OutOfMemory BY <1>1, <3>1 DEF OutOfMemory, Exhausted, ZeroTaken
    <3>2. ASSUME NEW frame \in Frame, FirstFree(frame, frame_bitmap), pmm_alloc_frames({frame})
          PROVE  0 \notin Frame \ frame_bitmap'
      BY <3>2, Numbers DEF FirstFree, pmm_alloc_frames
    <3>3. QED BY <2>2, <3>1, <3>2 DEF BurnFrames, ZeroTaken
  <2>3. ~ vmm_init /\ ~ map_framebuffer_pages /\ ~ map_heap_pages /\ ~ map_user_stack
    BY <1>3 DEF vmm_init, map_framebuffer_pages, map_heap_pages, map_user_stack
  <2>4. ~ LoadFails /\ ~ LoadMapsPage /\ ~ LoadCopies /\ ~ LoadDone
    <3>1. at # Goto("load") BY <1>3 DEF Goto
    <3>2. QED BY <1>3, <3>1 DEF LoadFails, LoadMapsPage, LoadCopies, LoadDone
  <2>5. ~ EnterUserMode /\ ~ Exit /\ \A prog \in DOMAIN Programs : ~ Exec(prog)
    BY <1>3 DEF EnterUserMode, Exit, Exec, Load
  <2>6. QED BY <2>1, <2>2, <2>3, <2>4, <2>5 DEF Next
<1>4. QED BY <1>2, <1>3

\* After a hang nothing is asked.
LEMMA HangReady ==
    ASSUME at' \in Hang, ZeroTaken'
    PROVE  Ready'
BY DEF Hang, Goto, Ready, RangesReady, ProgramsReady, Interrupted

\* A place that is no later than the framebuffer's loop.
LEMMA EarlyReady ==
    ASSUME ZeroTaken', at'.stage = "burn", Ready, at.stage = "burn", UNCHANGED job
    PROVE  Ready'
BY DEF Ready, RangesReady, ProgramsReady, Interrupted

\* The framebuffer's loop.
LEMMA FramebufferReady ==
    ASSUME IInv, Ready, map_framebuffer_pages, ZeroTaken'
    PROVE  Ready'
<1>8. job' = job /\ job.seg = 1 /\ job.caller = "boot"
  BY DEF map_framebuffer_pages, Ready, ProgramsReady
<1>0. [Next]_vars BY DEF Next
<1>1. at.stage = "framebuffer" /\ at.i <= FramebufferPages /\ Mapped(FramebufferSoFar(at.i))
  BY DEF map_framebuffer_pages, Ready, RangesReady
<1>2. at \in [stage : Stage, i : Nat] /\ at.i \in Nat /\ TypeOK BY DEF IInv, TypeOK
<1>3. FramebufferPages \in Nat /\ FramebufferBase \in Nat BY LayoutAssumption
<1> DEFINE p == FramebufferBase + at.i
<1>4. CASE at.i < FramebufferPages
  <2>1. p \in FramebufferRange /\ p \in Page
    BY <1>2, <1>3, <1>4, LayoutAssumption DEF FramebufferRange
  <2>2. p \in Nat \ {0}
    <3>1. 0 \in IdentityPages BY LayoutAssumption DEF IdentityPages
    <3>2. QED BY <1>2, <1>3, <2>1, <3>1, LayoutAssumption
  <2>3. 0 \notin Frame \ frame_bitmap BY <1>1 DEF Ready, ZeroTaken
  <2>4. vmm_map_page(p * PAGE, p, {}, NextRound) BY <1>3, <1>4 DEF map_framebuffer_pages
  <2>5. at' \in Hang \/ (at' = NextRound /\ page_table'[p] # NotPresent)
    BY <1>2, <2>1, <2>2, <2>3, <2>4, MapReady
  <2>6. CASE at' = NextRound /\ page_table'[p] # NotPresent
    <3>1. at'.stage = "framebuffer" /\ at'.i = at.i + 1 BY <1>1, <1>2, <2>6 DEF NextRound
    <3>2. FramebufferSoFar(at.i + 1) = FramebufferSoFar(at.i) \cup {p} BY <1>2, Ranges
    <3>3. FramebufferSoFar(at.i) \subseteq Page
      BY <1>1, <1>2, <1>3, LayoutAssumption DEF FramebufferSoFar, FramebufferRange
    <3>4. \A q \in FramebufferSoFar(at.i) : page_table'[q] # NotPresent BY <1>0, <1>1, <3>3, StayMapped
    <3>5. \A q \in FramebufferSoFar(at'.i) : page_table'[q] # NotPresent BY <2>6, <3>1, <3>2, <3>4
    <3>6. at'.i <= FramebufferPages BY <1>2, <1>3, <1>4, <3>1
    <3>7. QED BY <1>8, <3>1, <3>5, <3>6 DEF Ready, RangesReady, ProgramsReady, Interrupted, Mapped
  <2>7. QED BY <2>5, <2>6, HangReady
<1>5. CASE at.i = FramebufferPages /\ at' = Goto("heap") /\ UNCHANGED <<pmm_vars, vmm_vars>>
  <2>1. Mapped(FramebufferRange)' BY <1>1, <1>5, Ranges DEF Mapped, vmm_vars
  <2>2. at'.stage = "heap" /\ at'.i = 0 BY <1>5 DEF Goto
  <2>3. HeapPages \in Nat /\ \A q \in HeapSoFar(at'.i) : page_table'[q] # NotPresent
    BY <2>2, Ranges, LayoutAssumption
  <2>4. QED
    BY <1>8, <2>1, <2>2, <2>3 DEF Ready, RangesReady, ProgramsReady, Interrupted, Mapped
<1>6. QED BY <1>4, <1>5 DEF map_framebuffer_pages

\* The heap's loop.
LEMMA HeapReady ==
    ASSUME IInv, Ready, map_heap_pages, ZeroTaken'
    PROVE  Ready'
<1>8. job' = job /\ job.seg = 1 /\ job.caller = "boot" BY DEF map_heap_pages, Ready, ProgramsReady
<1>0. [Next]_vars BY DEF Next
<1>1. at.stage = "heap" /\ at.i <= HeapPages /\ Mapped(HeapSoFar(at.i)) /\ Mapped(FramebufferRange)
  BY DEF map_heap_pages, Ready, RangesReady
<1>2. at \in [stage : Stage, i : Nat] /\ at.i \in Nat /\ TypeOK BY DEF IInv, TypeOK
<1>3. HeapPages \in Nat /\ HeapBase \in Nat BY LayoutAssumption
<1>7. Mapped(FramebufferRange)' BY <1>0, <1>1, Ranges, StayMapped DEF Mapped
<1> DEFINE p == HeapBase + at.i
<1>4. CASE at.i < HeapPages /\ MapFresh(p * PAGE, NextRound)
  <2>1. p \in Page BY <1>2, <1>3, <1>4, LayoutAssumption DEF HeapRange
  <2>3. 0 \notin Frame \ frame_bitmap BY <1>1 DEF Ready, ZeroTaken
  <2>5. at' \in Hang \/ (at' = NextRound /\ page_table'[p] # NotPresent)
    BY <1>2, <1>4, <2>1, <2>3, MapFreshReady
  <2>6. CASE at' = NextRound /\ page_table'[p] # NotPresent
    <3>1. at'.stage = "heap" /\ at'.i = at.i + 1 BY <1>1, <1>2, <2>6 DEF NextRound
    <3>2. HeapSoFar(at.i + 1) = HeapSoFar(at.i) \cup {p} BY <1>2, Ranges
    <3>3. HeapSoFar(at.i) \subseteq Page
      BY <1>1, <1>2, <1>3, LayoutAssumption DEF HeapSoFar, HeapRange
    <3>4. \A q \in HeapSoFar(at.i) : page_table'[q] # NotPresent BY <1>0, <1>1, <3>3, StayMapped
    <3>5. \A q \in HeapSoFar(at'.i) : page_table'[q] # NotPresent BY <2>6, <3>1, <3>2, <3>4
    <3>6. at'.i <= HeapPages BY <1>2, <1>3, <1>4, <3>1
    <3>7. QED
      BY <1>7, <1>8, <3>1, <3>5, <3>6 DEF Ready, RangesReady, ProgramsReady, Interrupted, Mapped
  <2>7. QED BY <2>5, <2>6, HangReady
<1>5. CASE /\ at.i = HeapPages /\ UNCHANGED <<pmm_vars, vmm_vars>>
           /\ at' \in {Goto("fault"), Goto("load")}
  <2>1. Mapped(HeapRange)' BY <1>1, <1>5, Ranges DEF Mapped, vmm_vars
  <2>3. CASE at' = Goto("load")
    <3>1. at'.stage = "load" /\ at'.i = 0 BY <2>3 DEF Goto
    <3>2. QED
      BY <1>7, <1>8, <2>1, <3>1 DEF Ready, RangesReady, ProgramsReady, Interrupted, Mapped
  <2>4. QED BY <1>5, <2>3, HangReady DEF Hang
<1>6. QED BY <1>4, <1>5 DEF map_heap_pages

\* The stack's loop.
LEMMA StackReady ==
    ASSUME IInv, Ready, map_user_stack, ZeroTaken'
    PROVE  Ready'
<1>0. [Next]_vars BY DEF Next
<1>1. /\ at.stage = "stack" /\ at.i < StackPages /\ Mapped(StackSoFar(at.i))
      /\ Mapped(FramebufferRange) /\ Mapped(HeapRange)
      /\ MapFresh((StackTop - at.i) * PAGE, NextRound)
      /\ job' = job /\ running' = running /\ contents' = contents
  BY DEF map_user_stack, Ready, RangesReady
<1>2. at \in [stage : Stage, i : Nat] /\ at.i \in Nat /\ TypeOK BY DEF IInv, TypeOK
<1>3. StackPages \in Nat /\ StackTop \in Nat BY LayoutAssumption
<1>7. Mapped(FramebufferRange)' /\ Mapped(HeapRange)'
  BY <1>0, <1>1, Ranges, StayMapped DEF Mapped
<1> DEFINE p == StackTop - at.i
<1>4. p \in Page BY <1>1, <1>2, <1>3, LayoutAssumption DEF StackRange
<1>5. 0 \notin Frame \ frame_bitmap BY <1>1 DEF Ready, ZeroTaken
<1>6. at' \in Hang \/ (at' = NextRound /\ page_table'[p] # NotPresent)
  BY <1>1, <1>2, <1>4, <1>5, MapFreshReady
<1>8. CASE at' = NextRound /\ page_table'[p] # NotPresent
  <3>1. at'.stage = "stack" /\ at'.i = at.i + 1 BY <1>1, <1>2, <1>8 DEF NextRound
  <3>2. StackSoFar(at.i + 1) = StackSoFar(at.i) \cup {p} BY <1>2, Ranges
  <3>3. StackSoFar(at.i) \subseteq Page
    BY <1>1, <1>2, <1>3, LayoutAssumption DEF StackSoFar, StackRange
  <3>4. \A q \in StackSoFar(at.i) : page_table'[q] # NotPresent BY <1>0, <1>1, <3>3, StayMapped
  <3>5. \A q \in StackSoFar(at'.i) : page_table'[q] # NotPresent BY <1>8, <3>1, <3>2, <3>4
  <3>6. at'.i <= StackPages BY <1>1, <1>2, <1>3, <3>1
  <3>7. RangesReady' BY <1>7, <3>1, <3>5, <3>6 DEF RangesReady, Interrupted, Mapped
  <3>8. running # NoProgram => Filled(running) BY <1>1 DEF Ready, ProgramsReady
  <3>9. ProgramsReady' BY <1>1, <3>1, <3>8 DEF ProgramsReady, Filled
  <3>10. QED BY <3>7, <3>9 DEF Ready
<1>9. QED BY <1>6, <1>8, HangReady

\* A step that maps nothing, into a place where what boot maps is there.
LEMMA RangesKept ==
    ASSUME Ready, UNCHANGED vmm_vars,
           at.stage \in {"load", "user"}, at'.stage \in {"load", "user"},
           at.stage = "user" \/ Interrupted
    PROVE  RangesReady'
<1>1. Mapped(FramebufferRange) /\ Mapped(HeapRange) /\ Mapped(StackRange)
  BY DEF Ready, RangesReady
<1>2. page_table' = page_table BY DEF vmm_vars
<1>3. QED BY <1>1, <1>2 DEF RangesReady, Mapped

\* The loader maps a page: contents are not touched.
LEMMA LoadMapsReady ==
    ASSUME IInv, Ready, LoadMapsPage, ZeroTaken'
    PROVE  Ready'
<1>0. [Next]_vars BY DEF Next
<1>1. /\ at.stage = "load" /\ MapFresh(Segment.vaddr + at.i * PAGE, NextRound)
      /\ job' = job /\ running' = running /\ contents' = contents
      /\ Mapped(FramebufferRange) /\ Mapped(HeapRange) /\ (Interrupted => Mapped(StackRange))
  BY DEF LoadMapsPage, Ready, RangesReady
<1>2. at \in [stage : Stage, i : Nat] /\ used_frames \in Nat BY DEF IInv, TypeOK
<1>3. at' \in Hang \/ at' = NextRound BY <1>1, <1>2, MapFreshEffect DEF MapResult
<1>4. CASE at' = NextRound
  <2>1. at'.stage = "load" BY <1>1, <1>2, <1>4 DEF NextRound
  <2>2. Mapped(FramebufferRange)' /\ Mapped(HeapRange)' /\ (Interrupted => Mapped(StackRange)')
    BY <1>0, <1>1, Ranges, StayMapped DEF Mapped
  <2>3. Interrupted' => Interrupted BY <1>1 DEF Interrupted
  <2>4. RangesReady' BY <2>1, <2>2, <2>3 DEF RangesReady, Mapped
  <2>5. ProgramsReady' BY <1>1, <2>1 DEF Ready, ProgramsReady, Filled
  <2>6. QED BY <2>4, <2>5 DEF Ready
<1>5. QED BY <1>3, <1>4, HangReady

\* A segment is read into its pages, or the loader faults.
LEMMA LoadCopiesReady ==
    ASSUME IInv, Ready, LoadCopies, ZeroTaken', DiskErrors \subseteq {"open"}
    PROVE  Ready'
<1>1. /\ at.stage = "load" /\ UNCHANGED <<pmm_vars, vmm_vars, running>>
      /\ job.seg <= Len(Programs[job.prog])
      /\ Mapped(FramebufferRange) /\ Mapped(HeapRange) /\ (Interrupted => Mapped(StackRange))
  BY DEF LoadCopies, Ready, RangesReady
<1>2. job \in [prog : DOMAIN Programs, seg : Nat, caller : {"boot", "exec", "exit"}]
      /\ contents \in [Page -> DOMAIN Programs \cup {NoProgram}]
  BY DEF IInv, TypeOK
<1>3. CASE at' = Goto("fault") BY <1>3, HangReady DEF Hang
<1>4. CASE /\ contents' = [p \in Page |-> IF p \in SegmentPages(Segment)
                                          THEN job.prog ELSE contents[p]]
           /\ job' = [job EXCEPT !.seg = @ + 1] /\ at' = Goto("load")
  <2>1. job'.seg = job.seg + 1 /\ job'.caller = job.caller /\ job'.prog = job.prog
        /\ at'.stage = "load" /\ job.seg \in Nat \ {0}
    BY <1>1, <1>2, <1>4 DEF Goto, Ready, ProgramsReady
  <2>2. RangesReady'
    <3>1. page_table' = page_table /\ (Interrupted' => Interrupted)
      BY <1>1, <2>1 DEF vmm_vars, Interrupted
    <3>2. QED BY <1>1, <2>1, <3>1 DEF RangesReady, Mapped
  <2>3. ASSUME NEW k \in 1..(job'.seg - 1), k \in DOMAIN Programs[job.prog],
               NEW p \in SegmentPages(Programs[job.prog][k])
        PROVE  contents'[p] = job.prog
    <3>1. p \in Page
      <4>1. p \in ProgramPages(job.prog) BY <2>3 DEF ProgramPages
      <4>2. QED BY <1>2, <4>1, ProgramsAssumption
    <3>2. CASE k = job.seg BY <1>4, <3>1, <3>2, <2>3 DEF Segment
    <3>3. CASE k # job.seg
      <4>1. k \in 1..(job.seg - 1) BY <2>1, <3>3
      <4>2. contents[p] = job.prog BY <1>1, <2>3, <4>1 DEF Ready, ProgramsReady
      <4>3. QED BY <1>4, <3>1, <4>2
    <3>4. QED BY <3>2, <3>3
  <2>4. job'.seg # 1 /\ job'.seg \in Nat \ {0} BY <2>1
  <2>5. ProgramsReady' BY <2>1, <2>3, <2>4 DEF ProgramsReady
  <2>6. QED BY <2>2, <2>5 DEF Ready
<1>5. "data" \notin DiskErrors OBVIOUS
<1>6. QED BY <1>3, <1>4, <1>5 DEF LoadCopies

\* When all segments have been read, the program is there as a whole.
LEMMA LoadDoneReady ==
    ASSUME IInv, Ready, LoadDone, ZeroTaken'
    PROVE  Ready'
<1>1. /\ at.stage = "load" /\ UNCHANGED <<pmm_vars, vmm_vars, job, contents>>
      /\ job.seg > Len(Programs[job.prog]) /\ Return(TRUE)
      /\ Mapped(FramebufferRange) /\ Mapped(HeapRange) /\ (Interrupted => Mapped(StackRange))
  BY DEF LoadDone, Ready, RangesReady
<1>2. job \in [prog : DOMAIN Programs, seg : Nat, caller : {"boot", "exec", "exit"}]
  BY DEF IInv, TypeOK
<1>3. running' = job.prog /\ job.prog # NoProgram
  BY <1>1, <1>2, ProgramsAssumption DEF Return
<1>4. Filled(job.prog)
  <2> SUFFICES ASSUME NEW k \in DOMAIN Programs[job.prog],
                      NEW p \in SegmentPages(Programs[job.prog][k])
               PROVE  contents[p] = job.prog
    BY DEF Filled, ProgramPages
  <2>1. Programs[job.prog] \in Seq([vaddr : Nat, memsz : Nat]) BY <1>2, ProgramsAssumption
  <2>2. k \in Nat /\ k >= 1 /\ k <= Len(Programs[job.prog]) /\ Len(Programs[job.prog]) \in Nat
    BY <2>1
  <2>3. k \in 1..(job.seg - 1) BY <1>1, <1>2, <2>2
  <2>4. QED BY <1>1, <2>3 DEF Ready, ProgramsReady
<1>5. Filled(running)' BY <1>1, <1>3, <1>4 DEF Filled
<1>6. page_table' = page_table BY <1>1 DEF vmm_vars
<1>7. CASE job.caller = "boot"
  <2>1. at'.stage = "stack" /\ at'.i = 0 BY <1>1, <1>7 DEF Return, Goto
  <2>2. StackPages \in Nat /\ StackSoFar(0) = {} BY Ranges, LayoutAssumption
  <2>3. RangesReady' BY <1>1, <1>6, <2>1, <2>2 DEF RangesReady, Interrupted, Mapped
  <2>4. ProgramsReady' BY <1>5, <2>1 DEF ProgramsReady
  <2>5. QED BY <2>3, <2>4 DEF Ready
<1>8. CASE job.caller \in {"exec", "exit"}
  <2>1. at'.stage = "user" /\ Interrupted BY <1>1, <1>8 DEF Return, Goto, Interrupted
  <2>2. RangesReady' BY <1>1, <2>1, RangesKept
  <2>3. ProgramsReady' BY <1>3, <1>5, <2>1 DEF ProgramsReady
  <2>4. QED BY <2>2, <2>3 DEF Ready
<1>9. QED BY <1>2, <1>7, <1>8

\* A program that cannot be opened leaves the one that asked for it.
LEMMA LoadFailsReady ==
    ASSUME IInv, Ready, LoadFails, ZeroTaken', DiskErrors \subseteq {"open"}
    PROVE  Ready'
<1>0. job \in [prog : DOMAIN Programs, seg : Nat, caller : {"boot", "exec", "exit"}]
  BY DEF IInv, TypeOK
<1>1. /\ at.stage = "load" /\ UNCHANGED <<pmm_vars, vmm_vars, job, contents>>
      /\ Return(FALSE) /\ job.seg = 1
      /\ Mapped(FramebufferRange) /\ Mapped(HeapRange) /\ (Interrupted => Mapped(StackRange))
  <2>1. at.stage = "load" /\ UNCHANGED <<pmm_vars, vmm_vars, job, contents>> /\ Return(FALSE)
    BY DEF LoadFails, Goto
  <2>2. job.seg = 1 BY DEF LoadFails
  <2>3. QED BY <2>1, <2>2 DEF Ready, RangesReady
<1>2. page_table' = page_table BY <1>1 DEF vmm_vars
<1>3. CASE job.caller = "boot"
  <2>1. at'.stage = "stack" /\ at'.i = 0 /\ running' = NoProgram BY <1>1, <1>3 DEF Return, Goto
  <2>2. StackPages \in Nat /\ StackSoFar(0) = {} BY Ranges, LayoutAssumption
  <2>3. RangesReady' BY <1>1, <1>2, <2>1, <2>2 DEF RangesReady, Interrupted, Mapped
  <2>4. ProgramsReady' BY <2>1 DEF ProgramsReady
  <2>5. QED BY <2>3, <2>4 DEF Ready
<1>4. CASE job.caller = "exec"
  <2>1. at'.stage = "user" /\ Interrupted /\ running' = running
    BY <1>1, <1>4 DEF Return, Goto, Interrupted
  <2>2. RangesReady' BY <1>1, <2>1, RangesKept
  <2>3. running # NoProgram /\ Filled(running) BY <1>1, <1>4 DEF Ready, ProgramsReady
  <2>4. ProgramsReady' BY <1>1, <2>1, <2>3 DEF ProgramsReady, Filled
  <2>5. QED BY <2>2, <2>4 DEF Ready
<1>5. CASE job.caller = "exit"
  <2>1. at' = Goto("fault") BY <1>1, <1>5 DEF Return
  <2>2. QED BY <2>1, HangReady DEF Hang
<1>6. QED BY <1>0, <1>3, <1>4, <1>5

\* Boot ends in user mode only with a program.
LEMMA EnterReady ==
    ASSUME IInv, Ready, EnterUserMode, ZeroTaken'
    PROVE  Ready'
<1>1. /\ at.stage = "stack" /\ UNCHANGED <<pmm_vars, vmm_vars, job, running, contents>>
      /\ Mapped(FramebufferRange) /\ Mapped(HeapRange) /\ Mapped(StackRange)
  BY Ranges DEF EnterUserMode, Ready, RangesReady
<1>2. CASE running = NoProgram
  <2>1. at' \in Hang BY <1>2 DEF EnterUserMode, Hang
  <2>2. QED BY <2>1, HangReady
<1>3. CASE running # NoProgram
  <2>1. at'.stage = "user" BY <1>3 DEF EnterUserMode, Goto
  <2>2. page_table' = page_table /\ running' = running /\ contents' = contents BY <1>1 DEF vmm_vars
  <2>3. RangesReady' BY <1>1, <2>1, <2>2 DEF RangesReady, Mapped
  <2>4. ProgramsReady' BY <1>1, <1>3, <2>1, <2>2 DEF Ready, ProgramsReady, Filled
  <2>5. QED BY <2>3, <2>4 DEF Ready
<1>4. QED BY <1>2, <1>3

\* EXEC and EXIT begin a load.
LEMMA LoadReady ==
    ASSUME IInv, Ready, NEW prog, NEW caller \in {"exec", "exit"}, Load(prog, caller), ZeroTaken'
    PROVE  Ready'
<1>1. /\ at.stage = "user" /\ at'.stage = "load"
      /\ job'.seg = 1 /\ job'.caller # "boot"
      /\ UNCHANGED <<pmm_vars, vmm_vars, running, contents>>
  BY DEF Load, Goto
<1>2. RangesReady' BY <1>1, RangesKept
<1>3. running # NoProgram /\ Filled(running) BY <1>1 DEF Ready, ProgramsReady
<1>4. ProgramsReady' BY <1>1, <1>3 DEF ProgramsReady, Filled
<1>5. QED BY <1>2, <1>4 DEF Ready

\* Every step.
LEMMA ReadyStep ==
    ASSUME DiskErrors \subseteq {"open"}, IInv, Ready, [Next]_vars
    PROVE  Ready'
<1>0. ZeroTaken' BY ZeroStep DEF Ready
<1>1. CASE BurnFrames
  <2>1. at' = Goto("panic") \/ at' = NextRound BY <1>1 DEF BurnFrames, OutOfMemory
  <2>2. CASE at' = NextRound
    <3>1. at.stage = "burn" /\ at'.stage = "burn" /\ UNCHANGED job
      BY <1>1, <2>2, NextRoundType DEF BurnFrames, IInv
    <3>2. QED BY <1>0, <3>1, EarlyReady
  <2>3. QED BY <1>0, <2>1, <2>2, HangReady DEF Hang
<1>2. CASE vmm_init
  <2>1. at'.stage = "framebuffer" /\ at'.i = 0 /\ job' = job /\ at.stage = "burn"
    BY <1>2 DEF vmm_init, Goto
  <2>2. FramebufferPages \in Nat /\ FramebufferSoFar(0) = {} BY Ranges, LayoutAssumption
  <2>3. RangesReady' BY <2>1, <2>2 DEF RangesReady, Interrupted, Mapped
  <2>4. ProgramsReady' BY <2>1 DEF Ready, ProgramsReady
  <2>5. QED BY <1>0, <2>3, <2>4 DEF Ready
<1>3. CASE map_framebuffer_pages BY <1>0, <1>3, FramebufferReady
<1>4. CASE map_heap_pages BY <1>0, <1>4, HeapReady
<1>5. CASE LoadFails BY <1>0, <1>5, LoadFailsReady
<1>6. CASE LoadMapsPage BY <1>0, <1>6, LoadMapsReady
<1>7. CASE LoadCopies BY <1>0, <1>7, LoadCopiesReady
<1>8. CASE LoadDone BY <1>0, <1>8, LoadDoneReady
<1>9. CASE map_user_stack BY <1>0, <1>9, StackReady
<1>10. CASE EnterUserMode BY <1>0, <1>10, EnterReady
<1>11. ASSUME NEW prog \in DOMAIN Programs, Exec(prog) PROVE Ready'
  BY <1>0, <1>11, LoadReady DEF Exec
<1>12. CASE Exit BY <1>0, <1>12, LoadReady DEF Exit
<1>13. CASE UNCHANGED vars
  <2>1. /\ page_table' = page_table /\ at' = at /\ job' = job
        /\ running' = running /\ contents' = contents
    BY <1>13 DEF vars, vmm_vars
  <2>2. RangesReady' BY <2>1 DEF Ready, RangesReady, Mapped, Interrupted
  <2>3. ProgramsReady' BY <2>1 DEF Ready, ProgramsReady, Filled
  <2>4. QED BY <1>0, <2>2, <2>3 DEF Ready
<1>14. QED
  BY <1>1, <1>2, <1>3, <1>4, <1>5, <1>6, <1>7, <1>8, <1>9, <1>10, <1>11, <1>12, <1>13 DEF Next

\* As long as a program that could be opened can be read to its end, every program runs
\* with its heap, stack and framebuffer mapped and with its own image in all of its pages,
\* although no result of vmm_map_page is looked at (kernel_main, load_elf, syscall.c).
THEOREM UserModeIsReady ==
    ASSUME DiskErrors \subseteq {"open"}
    PROVE  Spec => []UserModeReady
<1>1. Ready => UserModeReady
  BY DEF Ready, RangesReady, ProgramsReady, UserModeReady, Mapped, Filled
<1>2. Init => Ready BY InitReady
<1>3. IInv /\ Ready /\ [Next]_vars => Ready' BY ReadyStep
<1>4. QED BY <1>1, <1>2, <1>3, Invariant, PTL DEF Spec
=============================================================================
