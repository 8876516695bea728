---------------------------- MODULE KernelMemory ----------------------------
(***************************************************************************)
(* Who takes frames and where they are mapped: kernel_main's boot sequence *)
(* (kernel.c), the one page directory (vmm.c), and the program loader      *)
(* (elf32.c) that boot, the EXEC and the EXIT system call run again and    *)
(* again in the same address space.  Each action is one iteration of one   *)
(* of the code's loops, or one straight piece of code between them.        *)
(*                                                                         *)
(* A virtual page p has its entry page_table[p] (the frame, or NotPresent) *)
(* in the table page_directory[Dir(p)] (the frame of the table); directory *)
(* 0 is the static first_page_table, which maps the first ENTRIES pages to *)
(* the frames of the same number.  An outcome the kernel does not survive  *)
(* is a stage of its own: "panic" and "fault" hang the machine, and after  *)
(* "clobber" a page table has been written through a foreign mapping.      *)
(***************************************************************************)
EXTENDS PhysMemory, Sequences

CONSTANTS
    ENTRIES,           \* entries of a page table (1024)
    DIRS,              \* entries of the page directory (1024)
    FramebufferBase, FramebufferPages,
    HeapBase, HeapPages,       \* KHEAP_START, KHEAP_INITIAL_SIZE
    StackTop, StackPages,      \* USER_STACK_TOP, USER_STACK_SIZE
    Programs,          \* program -> its PT_LOAD segments <<[vaddr, memsz], ...>>
    Init_elf, Shell_elf,
    DiskErrors         \* where reading a program may fail: "open" (before the
                       \* first segment), "headers" (later ones), "data"

VARIABLES
    page_directory,    \* directory entry -> frame of the table or NotPresent
    page_table,        \* virtual page -> frame or NotPresent
    at,                \* [stage, i]: the code's position; i counts loop rounds
    job,               \* the load in progress: [prog, seg, caller]
    running,           \* the program in the user's address space
    contents           \* virtual page -> the program it was last filled from

vmm_vars == <<page_directory, page_table>>
vars == <<pmm_vars, vmm_vars, at, job, running, contents>>

NotPresent == -1
NoProgram  == "none"
StaticTable == -2      \* first_page_table lies in the kernel's bss

Page == 0..(ENTRIES * DIRS - 1)
Dir(p) == p \div ENTRIES

IdentityPages    == 0..(ENTRIES - 1)
FramebufferRange == FramebufferBase..(FramebufferBase + FramebufferPages - 1)
HeapRange        == HeapBase..(HeapBase + HeapPages - 1)
StackRange       == (StackTop - StackPages + 1)..StackTop
FixedPages       == IdentityPages \cup FramebufferRange

\* Pages of a segment that the copy and the clearing of its tail touch.
SegmentPages(s) ==
    IF s.memsz = 0 THEN {} ELSE Floor(s.vaddr)..Floor(s.vaddr + s.memsz - 1)

ProgramPages(prog) ==
    UNION {SegmentPages(Programs[prog][k]) : k \in DOMAIN Programs[prog]}

Segment == Programs[job.prog][job.seg]

ASSUME LayoutAssumption ==
    /\ ENTRIES \in Nat \ {0} /\ DIRS \in Nat \ {0}
    /\ Frame \subseteq Page
    /\ FramebufferRange \cup HeapRange \cup StackRange \subseteq Page
    /\ FramebufferRange \cap Frame = {}
    /\ FramebufferRange \cap IdentityPages = {}
    /\ \A n \in {FramebufferBase, FramebufferPages, HeapBase, HeapPages,
                  StackTop, StackPages} : n \in Nat
ASSUME ProgramsAssumption ==
    /\ {Init_elf, Shell_elf} \subseteq DOMAIN Programs
    /\ \A prog \in DOMAIN Programs :
          /\ Programs[prog] \in Seq([vaddr : Nat, memsz : Nat])
          /\ ProgramPages(prog) \subseteq Page
    /\ NoProgram \notin DOMAIN Programs
    /\ DiskErrors \subseteq {"open", "headers", "data"}

Stage == {"burn", "framebuffer", "heap", "load", "stack", "user",
          "panic", "fault", "clobber"}

TypeOK ==
    /\ frame_bitmap \subseteq Frame
    /\ used_frames \in Nat
    /\ page_directory \in [0..(DIRS - 1) -> Frame \cup {NotPresent, StaticTable}]
    /\ page_table \in [Page -> Frame \cup FixedPages \cup {NotPresent}]
    /\ at \in [stage : Stage, i : Nat]
    /\ job \in [prog : DOMAIN Programs, seg : Nat, caller : {"boot", "exec", "exit"}]
    /\ running \in DOMAIN Programs \cup {NoProgram}
    /\ contents \in [Page -> DOMAIN Programs \cup {NoProgram}]

Goto(stage) == [stage |-> stage, i |-> 0]
NextRound   == [at EXCEPT !.i = @ + 1]

\* After pmm_init (kernel.c:37); paging is off.
Init ==
    /\ \E end \in KernelEnds : pmm_init(end)
    /\ page_directory = [d \in 0..(DIRS - 1) |-> NotPresent]
    /\ page_table = [p \in Page |-> NotPresent]
    /\ at = Goto("burn")
    /\ job = [prog |-> Init_elf, seg |-> 1, caller |-> "boot"]
    /\ running = NoProgram
    /\ contents = [p \in Page |-> NoProgram]

-----------------------------------------------------------------------------
(* vmm.c                                                                   *)

HasTable(va) == page_directory[Dir(Floor(va))] # NotPresent

\* The checks at the top of vmm_map_page, and VMM_ERR_DOUBLE_MAP.
Refused(va, frame) ==
    \/ va < PAGE /\ va # 0
    \/ frame = 0
    \/ HasTable(va) /\ page_table[Floor(va)] # NotPresent

SetEntry(va, frame) == page_table' = [page_table EXCEPT ![Floor(va)] = frame]

\* A new table is cleared and filled through its physical address, used as a
\* virtual one: right only where that page is mapped to itself.
\* (A table in frame 0 would be VMM_ERR_NO_MEMORY.)
NewTable(va, frame, table, then) ==
    IF table # 0 /\ page_table[table] = table
    THEN /\ page_directory' = [page_directory EXCEPT ![Dir(Floor(va))] = table]
         /\ SetEntry(va, frame)
         /\ at' = then
    ELSE /\ UNCHANGED vmm_vars
         /\ at' = IF table = 0 THEN then
                  ELSE Goto(IF page_table[table] = NotPresent
                            THEN "fault" ELSE "clobber")

\* Mutant: a page that is mapped already gets the new frame.
vmm_map_pageRemaps(va, frame, taken, then) ==
    LET bitmap == frame_bitmap \cup taken
    IN  \/ /\ HasTable(va)
           /\ SetEntry(va, frame)
           /\ UNCHANGED page_directory
           /\ pmm_alloc_frames(taken)
           /\ at' = then
        \/ \E table \in Frame :
              /\ ~ HasTable(va)
              /\ FirstFree(table, bitmap)
              /\ pmm_alloc_frames(taken \cup {table})
              /\ NewTable(va, frame, table, then)

\* Mutant: the new table takes the first free frame without marking it.
vmm_map_pageSharesTable(va, frame, taken, then) ==
    LET bitmap == frame_bitmap \cup taken
    IN  \/ /\ Refused(va, frame)
           /\ UNCHANGED vmm_vars
           /\ pmm_alloc_frames(taken)
           /\ at' = then
        \/ /\ ~ Refused(va, frame)
           /\ HasTable(va)
           /\ SetEntry(va, frame)
           /\ UNCHANGED page_directory
           /\ pmm_alloc_frames(taken)
           /\ at' = then
        \/ \E table \in Frame :
              /\ ~ Refused(va, frame)
              /\ ~ HasTable(va)
              /\ FirstFree(table, bitmap)
              /\ pmm_alloc_frames(taken)
              /\ NewTable(va, frame, table, then)

\* vmm_map_page(va, frame, ...), called after the frames of `taken` were
\* allocated.  No caller looks at the result: on every return the code goes
\* on at `then`.
vmm_map_page(va, frame, taken, then) ==
    LET bitmap == frame_bitmap \cup taken
    IN  \/ /\ Refused(va, frame)
           /\ UNCHANGED vmm_vars
           /\ pmm_alloc_frames(taken)
           /\ at' = then
        \/ /\ ~ Refused(va, frame)
           /\ HasTable(va)
           /\ SetEntry(va, frame)
           /\ UNCHANGED page_directory
           /\ pmm_alloc_frames(taken)
           /\ at' = then
        \/ /\ ~ Refused(va, frame)
           /\ ~ HasTable(va)
           /\ Exhausted(bitmap)
           /\ UNCHANGED vmm_vars
           /\ pmm_alloc_frames(taken)
           /\ at' = Goto("panic")
        \/ \E table \in Frame :
              /\ ~ Refused(va, frame)
              /\ ~ HasTable(va)
              /\ FirstFree(table, bitmap)
              /\ pmm_alloc_frames(taken \cup {table})
              /\ NewTable(va, frame, table, then)

\* pmm_alloc_frame with nothing left.
OutOfMemory ==
    /\ Exhausted(frame_bitmap)
    /\ at' = Goto("panic")
    /\ UNCHANGED <<pmm_vars, vmm_vars>>

\* vmm_map_page(va, pmm_alloc_frame(), ...)
MapFresh(va, then) ==
    \/ OutOfMemory
    \/ \E frame \in Frame :
          FirstFree(frame, frame_bitmap) /\ vmm_map_page(va, frame, {frame}, then)

-----------------------------------------------------------------------------
(* Boot (kernel.c)                                                         *)

\* Five frames are allocated and forgotten (kernel.c:39-41), frame 0 first.
BurnFrames ==
    /\ at.stage = "burn"
    /\ at.i < 5
    /\ \/ OutOfMemory
       \/ \E frame \in Frame :
             /\ FirstFree(frame, frame_bitmap)
             /\ pmm_alloc_frames({frame})
             /\ at' = NextRound
             /\ UNCHANGED vmm_vars
    /\ UNCHANGED <<job, running, contents>>

vmm_init ==
    /\ at.stage = "burn"
    /\ at.i = 5
    /\ page_directory' = [page_directory EXCEPT ![0] = StaticTable]
    /\ page_table' = [p \in Page |-> IF p \in IdentityPages THEN p ELSE page_table[p]]
    /\ at' = Goto("framebuffer")
    /\ UNCHANGED <<pmm_vars, job, running, contents>>

map_framebuffer_pages ==
    /\ at.stage = "framebuffer"
    /\ \/ /\ at.i < FramebufferPages
          /\ vmm_map_page((FramebufferBase + at.i) * PAGE, FramebufferBase + at.i,
                          {}, NextRound)
       \/ /\ at.i = FramebufferPages
          /\ at' = Goto("heap")
          /\ UNCHANGED <<pmm_vars, vmm_vars>>
    /\ UNCHANGED <<job, running, contents>>

\* Ends with heap_init, which writes the first block header at KHEAP_START.
map_heap_pages ==
    /\ at.stage = "heap"
    /\ \/ at.i < HeapPages /\ MapFresh((HeapBase + at.i) * PAGE, NextRound)
       \/ /\ at.i = HeapPages
          /\ at' = Goto(IF page_table[HeapBase] = NotPresent THEN "fault" ELSE "load")
          /\ UNCHANGED <<pmm_vars, vmm_vars>>
    /\ UNCHANGED <<job, running, contents>>

\* From the top page down; then keyboard_init and the jump to user mode.
map_user_stack ==
    /\ at.stage = "stack"
    /\ at.i < StackPages
    /\ MapFresh((StackTop - at.i) * PAGE, NextRound)
    /\ UNCHANGED <<job, running, contents>>

\* switch_to_user_mode_elf(elf_entry): the entry 0 of a program that was not
\* loaded lies in a page that user mode may not execute.
EnterUserMode ==
    /\ at.stage = "stack"
    /\ at.i = StackPages
    /\ at' = Goto(IF running = NoProgram THEN "fault" ELSE "user")
    /\ UNCHANGED <<pmm_vars, vmm_vars, job, running, contents>>

-----------------------------------------------------------------------------
(* load_elf (elf32.c), called with at = "load" and the job set             *)

\* What the caller does with the entry point.  Boot goes on with the stack;
\* EXEC jumps, or returns 0 to the program that called it; EXIT always jumps.
Return(loaded) ==
    /\ running' = IF loaded THEN job.prog
                  ELSE IF job.caller = "exec" THEN running ELSE NoProgram
    /\ at' = Goto(CASE job.caller = "boot" -> "stack"
                    [] job.caller = "exec" -> "user"
                    [] job.caller = "exit" -> IF loaded THEN "user" ELSE "fault")

\* Opening the file or reading a header fails: 0 is returned, whatever segments
\* have been loaded by then.
LoadFails ==
    /\ at = Goto("load")
    /\ (IF job.seg = 1 THEN "open" ELSE "headers") \in DiskErrors
    /\ job.seg <= Len(Programs[job.prog])
    /\ Return(FALSE)
    /\ UNCHANGED <<pmm_vars, vmm_vars, job, contents>>

LoadMapsPage ==
    /\ at.stage = "load"
    /\ job.seg <= Len(Programs[job.prog])
    /\ at.i * PAGE < Segment.memsz
    /\ MapFresh(Segment.vaddr + at.i * PAGE, NextRound)
    /\ UNCHANGED <<job, running, contents>>

\* f_read into the segment's addresses, memset of the rest.  Nobody looks at
\* the result of f_read: a short file leaves what the pages held before.
LoadCopies ==
    /\ at.stage = "load"
    /\ job.seg <= Len(Programs[job.prog])
    /\ at.i * PAGE >= Segment.memsz
    /\ IF \E p \in SegmentPages(Segment) : page_table[p] = NotPresent
       THEN /\ at' = Goto("fault")
            /\ UNCHANGED <<job, contents>>
       ELSE /\ \/ contents' = [p \in Page |-> IF p \in SegmentPages(Segment)
                                              THEN job.prog ELSE contents[p]]
               \/ "data" \in DiskErrors /\ UNCHANGED contents
            /\ job' = [job EXCEPT !.seg = @ + 1]
            /\ at' = Goto("load")
    /\ UNCHANGED <<pmm_vars, vmm_vars, running>>

LoadDone ==
    /\ at.stage = "load"
    /\ job.seg > Len(Programs[job.prog])
    /\ Return(TRUE)
    /\ UNCHANGED <<pmm_vars, vmm_vars, job, contents>>

-----------------------------------------------------------------------------
(* System calls (syscall.c)                                                *)

\* Mutant: the loop over the program headers begins at the second.
LoadSkipsFirst(prog, caller) ==
    /\ at.stage = "user"
    /\ job' = [prog |-> prog, seg |-> 2, caller |-> caller]
    /\ at' = Goto("load")
    /\ UNCHANGED <<pmm_vars, vmm_vars, running, contents>>

Load(prog, caller) ==
    /\ at.stage = "user"
    /\ job' = [prog |-> prog, seg |-> 1, caller |-> caller]
    /\ at' = Goto("load")
    /\ UNCHANGED <<pmm_vars, vmm_vars, running, contents>>

Exec(prog) == Load(prog, "exec")
Exit       == Load(Shell_elf, "exit")

Next ==
    \/ BurnFrames
    \/ vmm_init
    \/ map_framebuffer_pages
    \/ map_heap_pages
    \/ LoadFails
    \/ LoadMapsPage
    \/ LoadCopies
    \/ LoadDone
    \/ map_user_stack
    \/ EnterUserMode
    \/ \E prog \in DOMAIN Programs : Exec(prog)
    \/ Exit

Spec == Init /\ [][Next]_vars

-----------------------------------------------------------------------------
(* Properties                                                              *)

\* Pages that were given a frame of the pool.
PoolPages == {p \in Page \ FixedPages : page_table[p] # NotPresent}

Tables == {d \in 0..(DIRS - 1) : page_directory[d] \notin {NotPresent, StaticTable}}

\* No frame serves two purposes: two pages of heap, stack and programs never
\* share one, no page shares one with a page table, and none of them can be
\* allocated again (pmm_alloc_frame, vmm_map_page and their callers).
FramesOwnedOnce ==
    /\ \A p, q \in PoolPages : page_table[p] = page_table[q] => p = q
    /\ \A d, e \in Tables : page_directory[d] = page_directory[e] => d = e
    /\ \A p \in PoolPages, d \in Tables : page_table[p] # page_directory[d]
    /\ \A p \in PoolPages : page_table[p] \in frame_bitmap
    /\ \A d \in Tables : page_directory[d] \in frame_bitmap

\* The counter follows the bitmap: used_frames grows with every bit that is
\* set after pmm_init, on every path through the loader and the page tables.
Accounting ==
    \E end \in KernelEnds :
        LET reserved == (Frame \ UNION {Covered(r) : r \in Available})
                            \cup (ReservedBits(end) \cap Frame)
        IN  /\ reserved \subseteq frame_bitmap
            /\ used_frames - Cardinality(ReservedBits(end))
                  = Cardinality(frame_bitmap \ reserved)

\* Although no result of vmm_map_page is looked at, a program runs only with
\* its whole heap, stack and framebuffer mapped, and with its own image in
\* every one of its pages.
UserModeReady ==
    at.stage = "user" =>
        /\ \A p \in HeapRange \cup StackRange \cup FramebufferRange :
              page_table[p] # NotPresent
        /\ \A p \in ProgramPages(running) : contents[p] = running

\* A page that is mapped keeps its frame for ever: neither a program loaded
\* over another one nor a new table moves memory that is in use.
MappingsStay ==
    [][\A p \in Page : page_table[p] # NotPresent => page_table'[p] = page_table[p]]_vars

\* "Marks end of kernel" (linker.ld:55): the frames of the kernel between
\* _start and __kernel_end are not given to anybody.
KernelFramesKept == \A p \in PoolPages : page_table[p] \notin KernelImage
=============================================================================
