-------------------------------- MODULE Heap --------------------------------
(***************************************************************************)
(* The kernel heap (heap.c): a first-fit list of blocks, each a header and *)
(* the bytes behind it.  `block` gives the headers on the list by address; *)
(* a header that is merged into the block before it becomes its payload    *)
(* and leaves the domain.  One action is one round of the loop of kmalloc  *)
(* or of kfree, or what comes before or after it.  No pointer arithmetic   *)
(* wraps: sizes are compared with a block's before anything is added.      *)
(***************************************************************************)
EXTENDS Integers

CONSTANTS
    HDR,           \* sizeof(heap_block_t)
    heap_start,    \* KHEAP_START
    HEAP_SIZE,     \* KHEAP_INITIAL_SIZE, in bytes
    Requests       \* the sizes the callers of kmalloc ask for

heap_end == heap_start + HEAP_SIZE
NULL     == 0

ASSUME HeapAssumption ==
    /\ HDR \in Nat \ {0} /\ heap_start \in Nat \ {0}
    /\ HEAP_SIZE \in Nat /\ HEAP_SIZE > HDR
    /\ Requests \subseteq Nat

VARIABLES
    block,     \* header address -> [size, next, free]
    at,        \* "idle", "kmalloc" or "kfree"
    curr,      \* the loop's pointer
    size,      \* kmalloc's argument
    result     \* what kmalloc returned last

vars == <<block, at, curr, size, result>>

free_list == heap_start
End(b)    == b + HDR + block[b].size

Address == heap_start..(heap_end - 1)

TypeOK ==
    /\ DOMAIN block \subseteq Address
    /\ block \in [DOMAIN block -> [size : Nat, next : Address \cup {NULL}, free : BOOLEAN]]
    /\ at \in {"idle", "kmalloc", "kfree"}
    /\ curr \in DOMAIN block \cup {NULL}
    /\ size \in Nat
    /\ result \in Nat

\* heap_init
Init ==
    /\ block = [b \in {heap_start} |->
                    [size |-> HEAP_SIZE - HDR, next |-> NULL, free |-> TRUE]]
    /\ at = "idle" /\ curr = NULL /\ size = 0 /\ result = NULL

-----------------------------------------------------------------------------
(* kmalloc                                                                 *)

Kmalloc(n) ==
    /\ at = "idle"
    /\ at' = "kmalloc" /\ size' = n /\ curr' = free_list
    /\ UNCHANGED <<block, result>>

Fits == block[curr].free /\ block[curr].size >= size

\* Mutant: a block in use is tried for ever.
KmallocNextStopsAtUsed ==
    /\ at = "kmalloc" /\ curr # NULL
    /\ ~ Fits
    /\ curr' = IF block[curr].free THEN block[curr].next ELSE curr
    /\ UNCHANGED <<block, at, size, result>>

KmallocNext ==
    /\ at = "kmalloc" /\ curr # NULL
    /\ ~ Fits
    /\ curr' = block[curr].next
    /\ UNCHANGED <<block, at, size, result>>

\* Mutant: the remainder forgets the header that is written in front of it.
SplitMiscounts ==
    LET new_block == curr + HDR + size
    IN  [b \in DOMAIN block \cup {new_block} |->
            IF b = curr THEN [size |-> size, next |-> new_block, free |-> FALSE]
            ELSE IF b = new_block
                 THEN [size |-> block[curr].size - size,
                       next |-> block[curr].next, free |-> TRUE]
                 ELSE block[b]]

\* The list after curr was split behind its first `size` bytes and taken.
Split ==
    LET new_block == curr + HDR + size
    IN  [b \in DOMAIN block \cup {new_block} |->
            IF b = curr THEN [size |-> size, next |-> new_block, free |-> FALSE]
            ELSE IF b = new_block
                 THEN [size |-> block[curr].size - size - HDR,
                       next |-> block[curr].next, free |-> TRUE]
                 ELSE block[b]]

\* Mutant: a block is split although no header fits behind the request.
KmallocTakesSplitsAll ==
    /\ at = "kmalloc" /\ curr # NULL
    /\ Fits
    /\ block' = IF block[curr].size > size
                THEN Split
                ELSE [block EXCEPT ![curr].free = FALSE]
    /\ result' = curr + HDR
    /\ at' = "idle"
    /\ UNCHANGED <<curr, size>>

KmallocTakes ==
    /\ at = "kmalloc" /\ curr # NULL
    /\ Fits
    /\ block' = IF block[curr].size > size + HDR
                THEN Split
                ELSE [block EXCEPT ![curr].free = FALSE]
    /\ result' = curr + HDR
    /\ at' = "idle"
    /\ UNCHANGED <<curr, size>>

KmallocFails ==
    /\ at = "kmalloc" /\ curr = NULL
    /\ result' = NULL
    /\ at' = "idle"
    /\ UNCHANGED <<block, curr, size>>

-----------------------------------------------------------------------------
(* kfree, of memory that kmalloc returned and that is still in use         *)

Kfree(ptr) ==
    /\ at = "idle"
    /\ block' = [block EXCEPT ![ptr - HDR].free = TRUE]
    /\ at' = "kfree" /\ curr' = free_list
    /\ UNCHANGED <<size, result>>

\* Mutant: a block is merged with what follows it in use.
MergeableUnchecked ==
    block[curr].free /\ block[curr].next # NULL

Mergeable ==
    /\ block[curr].free
    /\ block[curr].next # NULL
    /\ block[block[curr].next].free

\* The list without the block behind curr.
Merged ==
    LET next == block[curr].next
    IN  [b \in DOMAIN block \ {next} |->
            IF b = curr
            THEN [block[curr] EXCEPT !.size = @ + HDR + block[next].size,
                                     !.next = block[next].next]
            ELSE block[b]]

\* Mutant: curr moves on after a merge, past a block that could still grow.
KfreeMergesThenMoves ==
    /\ at = "kfree" /\ curr # NULL
    /\ Mergeable
    /\ block' = Merged
    /\ curr' = block[block[curr].next].next
    /\ UNCHANGED <<at, size, result>>

KfreeMerges ==
    /\ at = "kfree" /\ curr # NULL
    /\ Mergeable
    /\ block' = Merged
    /\ UNCHANGED <<at, curr, size, result>>

KfreeNext ==
    /\ at = "kfree" /\ curr # NULL
    /\ ~ Mergeable
    /\ curr' = block[curr].next
    /\ UNCHANGED <<block, at, size, result>>

KfreeDone ==
    /\ at = "kfree" /\ curr = NULL
    /\ at' = "idle"
    /\ UNCHANGED <<block, curr, size, result>>

InUse == {b \in DOMAIN block : ~ block[b].free}

Next ==
    \/ \E n \in Requests : Kmalloc(n)
    \/ KmallocNext \/ KmallocTakes \/ KmallocFails
    \/ \E b \in InUse : Kfree(b + HDR)
    \/ KfreeMerges \/ KfreeNext \/ KfreeDone

Spec == Init /\ [][Next]_vars

\* The loops are straight-line code in the kernel: they go on until they end.
FairSpec ==
    /\ Spec
    /\ WF_vars(KmallocNext \/ KmallocTakes \/ KmallocFails)
    /\ WF_vars(KfreeMerges \/ KfreeNext \/ KfreeDone)

-----------------------------------------------------------------------------
(* Properties                                                              *)

\* The list tiles the heap: its blocks follow one another without gap or
\* overlap from heap_start to heap_end, through every split and merge.
Tiling ==
    /\ heap_start \in DOMAIN block
    /\ \A b \in DOMAIN block :
          /\ End(b) <= heap_end
          /\ block[b].next = IF End(b) = heap_end THEN NULL ELSE End(b)
          /\ End(b) # heap_end => End(b) \in DOMAIN block
    /\ \A b, c \in DOMAIN block : b < c => End(b) <= c
    /\ \A x \in Address : \E b \in DOMAIN block : b <= x /\ x < End(b)

\* Two free blocks never lie side by side, except where kfree has still to pass.
Coalesced ==
    \A b \in DOMAIN block :
        (block[b].free /\ block[b].next # NULL /\ block[block[b].next].free)
            => at = "kfree" /\ curr # NULL /\ curr <= b

\* heap.c implements Allocator: kmalloc hands out memory that is apart from
\* all other, and returns NULL only when no run of free bytes is long enough.
LiveBlocks == [p \in {b + HDR : b \in InUse} |-> block[p - HDR].size]
Pending ==
    CASE at = "idle" -> -1 [] at = "kmalloc" -> size [] at = "kfree" -> -2

A == INSTANCE Allocator WITH live <- LiveBlocks, pending <- Pending

ImplementsAllocator == A!ASpec

\* Every call returns: neither loop runs in a circle.
CallsReturn == (at # "idle") ~> (at = "idle")
=============================================================================
