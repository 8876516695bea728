----------------------------- MODULE HeapProofs -----------------------------
(***************************************************************************)
(* Theorems about the kernel heap, for a heap, a header and requests of    *)
(* any size.  The lemmas about splitting and merging speak of any list of  *)
(* blocks B, so that they serve the list before and after a step.          *)
(***************************************************************************)
EXTENDS Heap, TLAPS

Block == [size : Nat, next : Address \cup {NULL}, free : BOOLEAN]

BlockList(B) == DOMAIN B \subseteq Address /\ B \in [DOMAIN B -> Block]

EndOf(B, b) == b + HDR + B[b].size

Tiled(B) ==
    /\ heap_start \in DOMAIN B
    /\ \A b \in DOMAIN B :
          /\ EndOf(B, b) <= heap_end
          /\ B[b].next = IF EndOf(B, b) = heap_end THEN NULL ELSE EndOf(B, b)
          /\ EndOf(B, b) # heap_end => EndOf(B, b) \in DOMAIN B
    /\ \A b, c \in DOMAIN B : b < c => EndOf(B, b) <= c
    /\ \A x \in Address : \E b \in DOMAIN B : b <= x /\ x < EndOf(B, b)

\* The blocks kmalloc has passed by do not fit.
Scanned ==
    at = "kmalloc" =>
        \A b \in DOMAIN block :
            (curr = NULL \/ b < curr) => ~ (block[b].free /\ block[b].size >= size)

\* The inductive invariant.
IInv == TypeOK /\ Tiling /\ Coalesced /\ Scanned

-----------------------------------------------------------------------------
(* Facts about a list                                                      *)

LEMMA BlockFacts ==
    ASSUME NEW B, BlockList(B), NEW b \in DOMAIN B
    PROVE  /\ b \in Nat /\ heap_start <= b /\ b < heap_end /\ b # NULL
           /\ B[b].size \in Nat /\ B[b].free \in BOOLEAN
           /\ EndOf(B, b) \in Nat /\ EndOf(B, b) > b
           /\ HDR \in Nat /\ HDR > 0 /\ heap_start \in Nat /\ heap_end \in Nat
BY HeapAssumption DEF BlockList, Block, Address, EndOf, NULL, heap_end

\* A header inside a block is that block's own.
LEMMA NoBlockInside ==
    ASSUME NEW B, BlockList(B), Tiled(B), NEW b \in DOMAIN B, NEW c \in DOMAIN B,
           b <= c, c < EndOf(B, b)
    PROVE  c = b
BY BlockFacts DEF Tiled

\* The successor of a block is a block and begins where it ends.
LEMMA NextFacts ==
    ASSUME NEW B, BlockList(B), Tiled(B), NEW b \in DOMAIN B, B[b].next # NULL
    PROVE  /\ B[b].next \in DOMAIN B
           /\ B[b].next = EndOf(B, b)
           /\ b < B[b].next
BY BlockFacts DEF Tiled

\* A block without a successor is the last one.
LEMMA LastFacts ==
    ASSUME NEW B, BlockList(B), Tiled(B), NEW b \in DOMAIN B, B[b].next = NULL
    PROVE  EndOf(B, b) = heap_end /\ \A c \in DOMAIN B : c <= b
<1>1. EndOf(B, b) = heap_end
  BY BlockFacts DEF Tiled
<1>2. ASSUME NEW c \in DOMAIN B PROVE c <= b
  BY <1>1, BlockFacts DEF Tiled
<1> QED
  BY <1>1, <1>2

-----------------------------------------------------------------------------
(* Splitting                                                               *)

SplitOf(B, c, n) ==
    LET new == c + HDR + n
    IN  [b \in DOMAIN B \cup {new} |->
            IF b = c THEN [size |-> n, next |-> new, free |-> FALSE]
            ELSE IF b = new
                 THEN [size |-> B[c].size - n - HDR, next |-> B[c].next, free |-> TRUE]
                 ELSE B[b]]

\* What splitting the block c of B behind n bytes does.
IsSplit(B, c, n, S, new) ==
    /\ new \notin DOMAIN B /\ new \in Address /\ c < new
    /\ DOMAIN S = DOMAIN B \cup {new}
    /\ S[c] = [size |-> n, next |-> new, free |-> FALSE]
    /\ S[new] = [size |-> B[c].size - n - HDR, next |-> B[c].next, free |-> TRUE]
    /\ \A b \in DOMAIN B : b # c => S[b] = B[b]
    /\ EndOf(S, c) = new
    /\ EndOf(S, new) = EndOf(B, c)
    /\ \A b \in DOMAIN B : b # c => EndOf(S, b) = EndOf(B, b)

LEMMA SplitFacts ==
    ASSUME NEW B, BlockList(B), Tiled(B), NEW c \in DOMAIN B,
           NEW n \in Nat, B[c].size > n + HDR,
           NEW S, S = SplitOf(B, c, n), NEW new, new = c + HDR + n
    PROVE  IsSplit(B, c, n, S, new)
<1>1. /\ B[c].size \in Nat /\ HDR \in Nat /\ HDR > 0
      /\ c \in Nat /\ heap_start <= c
  BY BlockFacts
<1>2. new \in Nat /\ c < new /\ new < EndOf(B, c)
  BY <1>1 DEF EndOf
<1>3. new \notin DOMAIN B
  BY <1>1, <1>2, NoBlockInside
<1>4. new \in Address
  <2>1. EndOf(B, c) <= heap_end
    BY DEF Tiled
  <2> QED
    BY <1>1, <1>2, <2>1, BlockFacts DEF Address
<1>5. DOMAIN S = DOMAIN B \cup {new} /\ new # c
  BY <1>1, <1>2 DEF SplitOf
<1>6. S[c] = [size |-> n, next |-> new, free |-> FALSE]
  BY <1>5 DEF SplitOf
<1>7. S[new] = [size |-> B[c].size - n - HDR, next |-> B[c].next, free |-> TRUE]
  BY <1>5 DEF SplitOf
<1>8. \A b \in DOMAIN B : b # c => S[b] = B[b]
  BY <1>3, <1>5 DEF SplitOf
<1>9. S[new].size = B[c].size - n - HDR /\ S[c].size = n
  BY <1>6, <1>7
<1>10. /\ EndOf(S, c) = new
       /\ EndOf(S, new) = EndOf(B, c)
       /\ \A b \in DOMAIN B : b # c => EndOf(S, b) = EndOf(B, b)
  BY <1>1, <1>2, <1>8, <1>9 DEF EndOf
<1> QED
  BY <1>2, <1>3, <1>4, <1>5, <1>6, <1>7, <1>8, <1>10 DEF IsSplit

LEMMA SplitTiles ==
    ASSUME NEW B, BlockList(B), Tiled(B), NEW c \in DOMAIN B,
           NEW n \in Nat, B[c].size > n + HDR,
           NEW S, S = SplitOf(B, c, n), NEW new, new = c + HDR + n
    PROVE  BlockList(S) /\ Tiled(S)
<1>0. IsSplit(B, c, n, S, new)
  BY SplitFacts
<1>1. /\ new \notin DOMAIN B /\ new \in Address /\ c < new
      /\ DOMAIN S = DOMAIN B \cup {new}
      /\ S[c] = [size |-> n, next |-> new, free |-> FALSE]
      /\ S[new] = [size |-> B[c].size - n - HDR, next |-> B[c].next, free |-> TRUE]
      /\ \A b \in DOMAIN B : b # c => S[b] = B[b]
      /\ EndOf(S, c) = new
      /\ EndOf(S, new) = EndOf(B, c)
      /\ \A b \in DOMAIN B : b # c => EndOf(S, b) = EndOf(B, b)
  BY <1>0 DEF IsSplit
<1>2. BlockList(S)
  <2>1. /\ B[c].size \in Nat /\ HDR \in Nat
    BY BlockFacts
  <2>2. S[c] \in Block
    BY <1>1 DEF Block
  <2>3. S[new] \in Block
    BY <1>1, <2>1 DEF Block, BlockList
  <2>4. \A b \in DOMAIN S : S[b] \in Block
    BY <1>1, <2>2, <2>3 DEF BlockList
  <2>5. S = [b \in DOMAIN S |-> S[b]]
    BY DEF SplitOf
  <2> QED
    BY <1>1, <2>4, <2>5 DEF BlockList
<1>3. new \in Nat /\ c \in Nat /\ new < EndOf(B, c) /\ EndOf(B, c) \in Nat
      /\ EndOf(B, c) <= heap_end /\ heap_end \in Nat
  <2>1. HDR \in Nat /\ c \in Nat /\ EndOf(B, c) \in Nat /\ B[c].size \in Nat /\ heap_end \in Nat
    BY BlockFacts
  <2>2. EndOf(B, c) = c + HDR + B[c].size /\ EndOf(B, c) <= heap_end
    BY DEF EndOf, Tiled
  <2> QED
    BY <2>1, <2>2
<1>4. new # NULL
  BY <1>1, HeapAssumption DEF Address, NULL
<1>5. heap_start \in DOMAIN S
  BY <1>1 DEF Tiled
<1>6. ASSUME NEW b \in DOMAIN S
      PROVE  /\ EndOf(S, b) <= heap_end
             /\ S[b].next = IF EndOf(S, b) = heap_end THEN NULL ELSE EndOf(S, b)
             /\ EndOf(S, b) # heap_end => EndOf(S, b) \in DOMAIN S
  <2>1. CASE b = c
    BY <1>1, <1>3, <2>1
  <2>2. CASE b = new
    BY <1>1, <1>3, <2>2 DEF Tiled
  <2>3. CASE b \in DOMAIN B /\ b # c
    BY <1>1, <2>3 DEF Tiled
  <2> QED
    BY <1>1, <2>1, <2>2, <2>3
<1>7. ASSUME NEW b \in DOMAIN S, NEW d \in DOMAIN S, b < d
      PROVE  EndOf(S, b) <= d
  <2>1. \A e \in DOMAIN B : e \in Nat /\ EndOf(B, e) \in Nat /\ e < EndOf(B, e)
    BY BlockFacts
  <2>2. CASE b = c /\ d = new
    BY <1>1, <1>3, <2>2
  <2>3. CASE b = c /\ d # new
    BY <1>1, <1>3, <1>7, <2>1, <2>3 DEF Tiled
  <2>4. CASE b = new
    <3>1. d \in DOMAIN B /\ c < d
      BY <1>1, <1>3, <1>7, <2>1, <2>4
    <3> QED
      BY <1>1, <2>4, <3>1 DEF Tiled
  <2>5. CASE b \in DOMAIN B /\ b # c /\ d = new
    <3>1. b < c
      BY <1>3, <1>7, <2>1, <2>5 DEF Tiled
    <3> QED
      BY <1>1, <1>3, <2>1, <2>5, <3>1 DEF Tiled
  <2>6. CASE b \in DOMAIN B /\ b # c /\ d # new
    BY <1>1, <1>7, <2>6 DEF Tiled
  <2> QED
    BY <1>1, <2>2, <2>3, <2>4, <2>5, <2>6
<1>8. ASSUME NEW x \in Address
      PROVE  \E b \in DOMAIN S : b <= x /\ x < EndOf(S, b)
  <2>1. PICK b \in DOMAIN B : b <= x /\ x < EndOf(B, b)
    BY DEF Tiled
  <2>2. CASE b # c
    BY <1>1, <2>1, <2>2
  <2>3. CASE b = c /\ x < new
    BY <1>1, <2>1, <2>3
  <2>4. CASE b = c /\ ~ (x < new)
    <3>1. x \in Int
      BY HeapAssumption DEF Address, heap_end
    <3> QED
      BY <1>1, <1>3, <2>1, <2>4, <3>1
  <2> QED
    BY <2>2, <2>3, <2>4
<1> QED
  BY <1>2, <1>5, <1>6, <1>7, <1>8 DEF Tiled

-----------------------------------------------------------------------------
(* Merging, and marking a block                                            *)

MergedOf(B, c) ==
    LET next == B[c].next
    IN  [b \in DOMAIN B \ {next} |->
            IF b = c
            THEN [B[c] EXCEPT !.size = @ + HDR + B[next].size,
                              !.next = B[next].next]
            ELSE B[b]]

\* What merging the block c of B with the one behind it, `next`, does.
IsMerged(B, c, M, next) ==
    /\ next \in DOMAIN B /\ c < next /\ next = EndOf(B, c)
    /\ DOMAIN M = DOMAIN B \ {next}
    /\ M[c] = [size |-> B[c].size + HDR + B[next].size,
               next |-> B[next].next, free |-> B[c].free]
    /\ \A b \in DOMAIN B : b # c /\ b # next => M[b] = B[b]
    /\ EndOf(M, c) = EndOf(B, next)
    /\ \A b \in DOMAIN B : b # c /\ b # next => EndOf(M, b) = EndOf(B, b)

LEMMA MergeFacts ==
    ASSUME NEW B, BlockList(B), Tiled(B), NEW c \in DOMAIN B, B[c].next # NULL,
           NEW M, M = MergedOf(B, c), NEW next, next = B[c].next
    PROVE  IsMerged(B, c, M, next)
<1>1. next \in DOMAIN B /\ next = EndOf(B, c) /\ c < next
  BY NextFacts
<1>2. /\ c \in Nat /\ next \in Nat /\ HDR \in Nat
      /\ B[c].size \in Nat /\ B[next].size \in Nat
  BY <1>1, BlockFacts
<1>3. DOMAIN M = DOMAIN B \ {next} /\ c \in DOMAIN M
  BY <1>1, <1>2 DEF MergedOf
<1>4. M[c] = [B[c] EXCEPT !.size = B[c].size + HDR + B[next].size,
                          !.next = B[next].next]
  BY <1>3 DEF MergedOf
<1>5. B[c] \in Block
  BY DEF BlockList
<1>6. M[c] = [size |-> B[c].size + HDR + B[next].size,
              next |-> B[next].next, free |-> B[c].free]
  BY <1>4, <1>5 DEF Block
<1>7. \A b \in DOMAIN B : b # c /\ b # next => M[b] = B[b]
  BY DEF MergedOf
<1>8. M[c].size = B[c].size + HDR + B[next].size
  BY <1>6
<1>9. EndOf(M, c) = EndOf(B, next)
  BY <1>1, <1>2, <1>8 DEF EndOf
<1> QED
  BY <1>1, <1>3, <1>6, <1>7, <1>9 DEF IsMerged, EndOf

LEMMA MergeTiles ==
    ASSUME NEW B, BlockList(B), Tiled(B), NEW c \in DOMAIN B, B[c].next # NULL,
           NEW M, M = MergedOf(B, c)
    PROVE  BlockList(M) /\ Tiled(M)
<1>0. PICK next : next = B[c].next
  OBVIOUS
<1>1. IsMerged(B, c, M, next)
  BY <1>0, MergeFacts
<1>2. \A b \in DOMAIN B : b \in Nat /\ EndOf(B, b) \in Nat /\ b < EndOf(B, b)
                          /\ B[b].size \in Nat
  BY BlockFacts
<1>3. BlockList(M)
  <2>1. M[c] \in Block
    BY <1>1, <1>2, BlockFacts DEF IsMerged, BlockList, Block
  <2>2. \A b \in DOMAIN M : M[b] \in Block
    BY <1>1, <2>1 DEF IsMerged, BlockList
  <2>3. M = [b \in DOMAIN M |-> M[b]]
    BY DEF MergedOf
  <2> QED
    BY <1>1, <2>2, <2>3 DEF BlockList, IsMerged
<1>4. heap_start \in DOMAIN M
  <2>1. heap_start \in DOMAIN B /\ c >= heap_start /\ heap_start \in Nat
    BY BlockFacts DEF Tiled
  <2> QED
    BY <1>1, <1>2, <2>1 DEF IsMerged
<1>5. ASSUME NEW b \in DOMAIN M
      PROVE  /\ EndOf(M, b) <= heap_end
             /\ M[b].next = IF EndOf(M, b) = heap_end THEN NULL ELSE EndOf(M, b)
             /\ EndOf(M, b) # heap_end => EndOf(M, b) \in DOMAIN M
  <2>1. CASE b = c
    <3>1. EndOf(B, next) # next
      BY <1>1, <1>2 DEF IsMerged
    <3> QED
      BY <1>1, <2>1, <3>1 DEF IsMerged, Tiled
  <2>2. CASE b # c
    <3>1. b \in DOMAIN B /\ b # next
      BY <1>1 DEF IsMerged
    <3>2. b < c \/ c < b
      BY <1>2, <2>2, <3>1
    <3>3. EndOf(B, b) # next
      BY <1>1, <1>2, <3>1, <3>2 DEF IsMerged, Tiled
    <3> QED
      BY <1>1, <2>2, <3>1, <3>3 DEF IsMerged, Tiled
  <2> QED
    BY <2>1, <2>2
<1>6. ASSUME NEW b \in DOMAIN M, NEW d \in DOMAIN M, b < d
      PROVE  EndOf(M, b) <= d
  <2>1. b \in DOMAIN B /\ d \in DOMAIN B /\ b # next /\ d # next
    BY <1>1 DEF IsMerged
  <2>2. CASE b = c
    <3>1. next <= d
      BY <1>1, <1>6, <2>1, <2>2 DEF IsMerged, Tiled
    <3>2. next < d
      BY <1>1, <1>2, <2>1, <3>1 DEF IsMerged
    <3> QED
      BY <1>1, <2>1, <2>2, <3>2 DEF IsMerged, Tiled
  <2>3. CASE b # c
    BY <1>1, <1>6, <2>1, <2>3 DEF IsMerged, Tiled
  <2> QED
    BY <2>2, <2>3
<1>7. ASSUME NEW x \in Address
      PROVE  \E b \in DOMAIN M : b <= x /\ x < EndOf(M, b)
  <2>0. x \in Int
    BY HeapAssumption DEF Address, heap_end
  <2>1. PICK b \in DOMAIN B : b <= x /\ x < EndOf(B, b)
    BY DEF Tiled
  <2>2. CASE b # c /\ b # next
    BY <1>1, <2>1, <2>2 DEF IsMerged
  <2>3. CASE b = next \/ b = c
    <3>1. c <= x
      BY <1>1, <1>2, <2>0, <2>1, <2>3 DEF IsMerged
    <3>2. x < EndOf(M, c) /\ c \in DOMAIN M
      BY <1>1, <1>2, <2>0, <2>1, <2>3 DEF IsMerged
    <3> QED
      BY <3>1, <3>2
  <2> QED
    BY <2>2, <2>3
<1> QED
  BY <1>3, <1>4, <1>5, <1>6, <1>7 DEF Tiled

\* What setting the flag of block c does.
IsMarked(B, c, f, M) ==
    /\ DOMAIN M = DOMAIN B
    /\ \A b \in DOMAIN B : /\ M[b].next = B[b].next
                           /\ M[b].size = B[b].size
                           /\ M[b].free = IF b = c THEN f ELSE B[b].free

LEMMA MarkTiles ==
    ASSUME NEW B, BlockList(B), Tiled(B), NEW c \in DOMAIN B, NEW f \in BOOLEAN,
           NEW M, M = [B EXCEPT ![c].free = f]
    PROVE  IsMarked(B, c, f, M) /\ BlockList(M) /\ Tiled(M)
<1>1. \A b \in DOMAIN B : B[b] \in Block
  BY DEF BlockList
<1>2. DOMAIN M = DOMAIN B
  OBVIOUS
<1>3. \A b \in DOMAIN B : /\ M[b].next = B[b].next
                          /\ M[b].size = B[b].size
                          /\ M[b].free = IF b = c THEN f ELSE B[b].free
                          /\ M[b] \in Block
  BY <1>1 DEF Block
<1>4. \A b \in DOMAIN B : EndOf(M, b) = EndOf(B, b)
  BY <1>3 DEF EndOf
<1>5. BlockList(M)
  BY <1>2, <1>3 DEF BlockList
<1>6. Tiled(M)
  <2>1. heap_start \in DOMAIN M
    BY <1>2 DEF Tiled
  <2>2. ASSUME NEW b \in DOMAIN M
        PROVE  /\ EndOf(M, b) <= heap_end
               /\ M[b].next = IF EndOf(M, b) = heap_end THEN NULL ELSE EndOf(M, b)
               /\ EndOf(M, b) # heap_end => EndOf(M, b) \in DOMAIN M
    <3>1. b \in DOMAIN B /\ EndOf(M, b) = EndOf(B, b) /\ M[b].next = B[b].next
      BY <1>2, <1>3, <1>4
    <3> QED
      BY <1>2, <3>1 DEF Tiled
  <2>3. \A b, d \in DOMAIN M : b < d => EndOf(M, b) <= d
    BY <1>2, <1>4 DEF Tiled
  <2>4. \A x \in Address : \E b \in DOMAIN M : b <= x /\ x < EndOf(M, b)
    BY <1>2, <1>4 DEF Tiled
  <2> QED
    BY <2>1, <2>2, <2>3, <2>4 DEF Tiled
<1> QED
  BY <1>2, <1>3, <1>5, <1>6 DEF IsMarked

-----------------------------------------------------------------------------
(* The invariant is inductive                                              *)

\* The invariant in terms of the lemmas above.
LEMMA ListView ==
    /\ TypeOK <=> /\ BlockList(block)
                  /\ at \in {"idle", "kmalloc", "kfree"}
                  /\ curr \in DOMAIN block \cup {NULL}
                  /\ size \in Nat
                  /\ result \in Nat
    /\ Tiling <=> Tiled(block)
    /\ \A b : End(b) = EndOf(block, b)
BY DEF TypeOK, BlockList, Block, Tiling, Tiled, End, EndOf

LEMMA ListViewPrimed ==
    /\ TypeOK' <=> /\ BlockList(block')
                   /\ at' \in {"idle", "kmalloc", "kfree"}
                   /\ curr' \in DOMAIN block' \cup {NULL}
                   /\ size' \in Nat
                   /\ result' \in Nat
    /\ Tiling' <=> Tiled(block')
BY DEF TypeOK, BlockList, Block, Tiling, Tiled, End, EndOf

LEMMA InitialState == Init => IInv
<1> SUFFICES ASSUME Init PROVE IInv
  OBVIOUS
<1>1. /\ HDR \in Nat /\ HDR > 0 /\ HEAP_SIZE \in Nat /\ HEAP_SIZE > HDR
      /\ heap_start \in Nat /\ heap_start > 0 /\ heap_end = heap_start + HEAP_SIZE
  BY HeapAssumption DEF heap_end
<1>2. /\ DOMAIN block = {heap_start}
      /\ block[heap_start] = [size |-> HEAP_SIZE - HDR, next |-> NULL, free |-> TRUE]
  BY DEF Init
<1>3. EndOf(block, heap_start) = heap_end
  <2>1. block[heap_start].size = HEAP_SIZE - HDR
    BY <1>2
  <2> QED
    BY <1>1, <2>1 DEF EndOf
<1>4. heap_start \in Address
  BY <1>1 DEF Address
<1>5. BlockList(block)
  BY <1>1, <1>2, <1>4 DEF BlockList, Block, Init
<1>6. Tiled(block)
  BY <1>1, <1>2, <1>3 DEF Tiled, Address
<1>7. TypeOK /\ Tiling
  BY <1>5, <1>6, ListView DEF Init, NULL
<1>8. Coalesced /\ Scanned
  BY <1>2 DEF Init, Coalesced, Scanned
<1> QED
  BY <1>7, <1>8 DEF IInv

LEMMA CallStep ==
    ASSUME IInv, NEW n \in Requests, Kmalloc(n)
    PROVE  IInv'
<1>1. TypeOK' /\ Tiling'
  BY ListView, ListViewPrimed, HeapAssumption
  DEF IInv, Kmalloc, Tiled, free_list
<1>2. Coalesced'
  BY DEF IInv, Coalesced, Kmalloc
<1>3. \A b \in DOMAIN block : b >= heap_start /\ b \in Nat /\ heap_start \in Nat
  BY ListView, BlockFacts DEF IInv
<1>4. Scanned'
  BY <1>3, HeapAssumption DEF Scanned, Kmalloc, free_list, NULL
<1> QED
  BY <1>1, <1>2, <1>4 DEF IInv

\* Where the loop's pointer goes from a block.
LEMMA Advance ==
    ASSUME TypeOK, Tiling, curr # NULL
    PROVE  /\ block[curr].next \in DOMAIN block \cup {NULL}
           /\ \A b \in DOMAIN block :
                 (block[curr].next = NULL \/ b < block[curr].next) <=> b <= curr
<1>1. curr \in DOMAIN block /\ BlockList(block) /\ Tiled(block)
  BY ListView
<1>2. \A b \in DOMAIN block : b \in Nat /\ EndOf(block, b) \in Nat
  BY <1>1, BlockFacts
<1>3. CASE block[curr].next = NULL
  BY <1>1, <1>3, LastFacts
<1>4. CASE block[curr].next # NULL
  <2>1. /\ block[curr].next \in DOMAIN block
        /\ block[curr].next = EndOf(block, curr)
        /\ curr < block[curr].next
    BY <1>1, <1>4, NextFacts
  <2>2. \A b \in DOMAIN block : curr < b => block[curr].next <= b
    BY <1>1, <2>1 DEF Tiled
  <2> QED
    BY <1>1, <1>2, <1>4, <2>1, <2>2
<1> QED
  BY <1>3, <1>4

LEMMA ScanStep ==
    ASSUME IInv, KmallocNext
    PROVE  IInv'
<1>1. TypeOK' /\ Tiling'
  BY ListView, ListViewPrimed, Advance DEF IInv, KmallocNext
<1>2. Coalesced'
  BY DEF IInv, Coalesced, KmallocNext
<1>3. \A b \in DOMAIN block : b \in Nat /\ curr \in Nat
  BY ListView, BlockFacts DEF IInv, KmallocNext
<1>4. Scanned'
  BY <1>3, Advance DEF IInv, Scanned, KmallocNext, Fits
<1> QED
  BY <1>1, <1>2, <1>4 DEF IInv

\* The block taken, split or whole.
LEMMA TakeFacts ==
    ASSUME IInv, KmallocTakes
    PROVE  \/ /\ block[curr].size > size + HDR
              /\ IsSplit(block, curr, size, block', curr + HDR + size)
           \/ /\ ~ (block[curr].size > size + HDR)
              /\ block' = [block EXCEPT ![curr].free = FALSE]
<1>1. BlockList(block) /\ Tiled(block) /\ curr \in DOMAIN block /\ size \in Nat
  BY ListView DEF IInv, KmallocTakes
<1>2. CASE block[curr].size > size + HDR
  <2>1. block' = SplitOf(block, curr, size)
    BY <1>2 DEF KmallocTakes, Split, SplitOf
  <2> QED
    BY <1>1, <1>2, <2>1, SplitFacts
<1> QED
  BY <1>2 DEF KmallocTakes

LEMMA TakeStep ==
    ASSUME IInv, KmallocTakes
    PROVE  IInv'
<1>1. BlockList(block) /\ Tiled(block) /\ curr \in DOMAIN block /\ size \in Nat
  BY ListView DEF IInv, KmallocTakes
<1>2. \A b \in DOMAIN block :
         ~ (block[b].free /\ block[b].next # NULL /\ block[block[b].next].free)
  BY DEF IInv, Coalesced, KmallocTakes
<1>3. \A b \in DOMAIN block : block[b].next # NULL => block[b].next \in DOMAIN block
  BY <1>1, NextFacts
<1>4. block[curr].free
  BY DEF KmallocTakes, Fits
<1>5. curr + HDR \in Nat
  BY <1>1, BlockFacts
<1>6. CASE IsSplit(block, curr, size, block', curr + HDR + size)
           /\ block[curr].size > size + HDR
  <2>1. BlockList(block') /\ Tiled(block')
    <3>1. block' = SplitOf(block, curr, size)
      BY <1>6 DEF KmallocTakes, Split, SplitOf
    <3> QED
      BY <1>1, <1>6, <3>1, SplitTiles
  <2>2. TypeOK' /\ Tiling'
    BY <1>1, <1>5, <1>6, <2>1, ListViewPrimed DEF KmallocTakes, IsSplit
  <2>3. PICK new : new = curr + HDR + size
    OBVIOUS
  <2>4. /\ DOMAIN block' = DOMAIN block \cup {new} /\ new \notin DOMAIN block
        /\ block'[curr].free = FALSE
        /\ block'[new].next = block[curr].next
        /\ \A b \in DOMAIN block : b # curr => block'[b] = block[b]
    BY <1>6, <2>3 DEF IsSplit
  <2>5. ASSUME NEW b \in DOMAIN block', block'[b].free, block'[b].next # NULL,
               block'[block'[b].next].free
        PROVE  FALSE
    <3>1. CASE b = new
      <4>1. block[curr].next \in DOMAIN block /\ block[curr].next # NULL
        BY <1>1, <1>3, <2>4, <2>5, <3>1
      <4>2. block[curr].next # curr
        BY <1>1, <4>1, NextFacts, BlockFacts
      <4> QED
        BY <1>1, <1>2, <1>4, <2>4, <2>5, <3>1, <4>1, <4>2
    <3>2. CASE b \in DOMAIN block /\ b # curr
      <4>1. block'[b] = block[b] /\ block[b].next \in DOMAIN block
        BY <1>3, <2>4, <2>5, <3>2
      <4> QED
        BY <1>2, <2>4, <2>5, <3>2, <4>1
    <3> QED
      BY <2>4, <2>5, <3>1, <3>2
  <2>6. Coalesced' /\ Scanned'
    BY <2>5 DEF Coalesced, Scanned, KmallocTakes
  <2> QED
    BY <2>2, <2>6 DEF IInv
<1>7. CASE block' = [block EXCEPT ![curr].free = FALSE]
  <2>1. /\ DOMAIN block' = DOMAIN block
        /\ \A b \in DOMAIN block : /\ block'[b].next = block[b].next
                                   /\ block'[b].free => block[b].free
        /\ BlockList(block') /\ Tiled(block')
    <3>1. IsMarked(block, curr, FALSE, block') /\ BlockList(block') /\ Tiled(block')
      BY <1>1, <1>7, MarkTiles
    <3> QED
      BY <1>4, <3>1 DEF IsMarked
  <2>2. TypeOK' /\ Tiling'
    BY <1>1, <1>5, <2>1, ListViewPrimed DEF KmallocTakes
  <2>3. Coalesced' /\ Scanned'
    BY <1>2, <1>3, <2>1 DEF Coalesced, Scanned, KmallocTakes
  <2> QED
    BY <2>2, <2>3 DEF IInv
<1> QED
  BY <1>6, <1>7, TakeFacts

LEMMA FreeStep ==
    ASSUME IInv, NEW b \in InUse, Kfree(b + HDR)
    PROVE  IInv'
<1>1. BlockList(block) /\ Tiled(block) /\ b \in DOMAIN block
  BY ListView DEF IInv, InUse
<1>2. (b + HDR) - HDR = b
  BY <1>1, BlockFacts
<1>3. block' = [block EXCEPT ![b].free = TRUE]
  <2>1. block' = [block EXCEPT ![(b + HDR) - HDR].free = TRUE]
    BY DEF Kfree
  <2> QED
    BY <1>2, <2>1
<1>4. IsMarked(block, b, TRUE, block') /\ BlockList(block') /\ Tiled(block')
  BY <1>1, <1>3, MarkTiles
<1>5. TypeOK' /\ Tiling'
  BY <1>1, <1>4, ListView, ListViewPrimed DEF IInv, Kfree, IsMarked, Tiled, free_list
<1>6. \A c \in DOMAIN block' : heap_start <= c
  BY <1>4, BlockFacts
<1>7. Coalesced' /\ Scanned'
  BY <1>6, HeapAssumption DEF Coalesced, Scanned, Kfree, free_list, NULL
<1> QED
  BY <1>5, <1>7 DEF IInv

LEMMA MergeStep ==
    ASSUME IInv, KfreeMerges
    PROVE  IInv'
<1>1. BlockList(block) /\ Tiled(block) /\ curr \in DOMAIN block
      /\ block[curr].next # NULL
  BY ListView DEF IInv, KfreeMerges, Mergeable
<1>2. PICK next : next = block[curr].next
  OBVIOUS
<1>3. block' = MergedOf(block, curr)
  BY DEF KfreeMerges, Merged, MergedOf
<1>4. IsMerged(block, curr, block', next)
  BY <1>1, <1>2, <1>3, MergeFacts
<1>5. BlockList(block') /\ Tiled(block')
  BY <1>1, <1>3, MergeTiles
<1>6. curr \in DOMAIN block'
  BY <1>1, <1>4, BlockFacts DEF IsMerged
<1>7. TypeOK' /\ Tiling'
  BY <1>5, <1>6, ListView, ListViewPrimed DEF IInv, KfreeMerges
<1>8. ASSUME NEW b \in DOMAIN block', block'[b].free, block'[b].next # NULL,
             block'[block'[b].next].free
      PROVE  curr <= b
  <2>1. CASE b = curr
    BY <1>1, <2>1, BlockFacts
  <2>2. CASE b # curr
    <3>1. b \in DOMAIN block /\ b # next /\ block'[b] = block[b]
      BY <1>4, <2>2 DEF IsMerged
    <3>2. block[b].next \in DOMAIN block'
      BY <1>5, <1>8, <3>1, NextFacts
    <3>3. block[b].next \in DOMAIN block /\ block[b].next # next
      BY <1>4, <3>2 DEF IsMerged
    <3>4. block'[block[b].next].free = block[block[b].next].free
      BY <1>4, <3>3 DEF IsMerged
    <3> QED
      BY <1>8, <3>1, <3>4 DEF IInv, Coalesced
  <2> QED
    BY <2>1, <2>2
<1>9. Coalesced' /\ Scanned'
  BY <1>8 DEF Coalesced, Scanned, KfreeMerges
<1> QED
  BY <1>7, <1>9 DEF IInv

LEMMA PassStep ==
    ASSUME IInv, KfreeNext
    PROVE  IInv'
<1>1. TypeOK' /\ Tiling'
  BY ListView, ListViewPrimed, Advance DEF IInv, KfreeNext
<1>2. \A b \in DOMAIN block : b \in Nat /\ curr \in Nat
                              /\ (block[curr].next # NULL => block[curr].next \in Nat)
  BY ListView, BlockFacts, NextFacts DEF IInv, KfreeNext
<1>3. ASSUME NEW b \in DOMAIN block, block[b].free, block[b].next # NULL,
             block[block[b].next].free
      PROVE  curr' # NULL /\ curr' <= b
  <2>1. curr <= b /\ b # curr
    BY <1>3 DEF IInv, Coalesced, KfreeNext, Mergeable
  <2>2. ~ (b <= curr)
    BY <1>2, <2>1
  <2>3. block[curr].next # NULL /\ ~ (b < block[curr].next)
    BY <2>2, Advance DEF IInv, KfreeNext
  <2> QED
    BY <1>2, <2>3 DEF KfreeNext
<1>4. Coalesced' /\ Scanned'
  BY <1>3 DEF Coalesced, Scanned, KfreeNext
<1> QED
  BY <1>1, <1>4 DEF IInv

LEMMA Inductive == IInv /\ [Next]_vars => IInv'
<1> SUFFICES ASSUME IInv, [Next]_vars
             PROVE  IInv'
  OBVIOUS
<1>1. CASE \E n \in Requests : Kmalloc(n)
  BY <1>1, CallStep
<1>2. CASE KmallocNext
  BY <1>2, ScanStep
<1>3. CASE KmallocTakes
  BY <1>3, TakeStep
<1>4. CASE KmallocFails
  BY <1>4 DEF IInv, KmallocFails, TypeOK, Tiling, End, Coalesced, Scanned, NULL
<1>5. CASE \E b \in InUse : Kfree(b + HDR)
  BY <1>5, FreeStep
<1>6. CASE KfreeMerges
  BY <1>6, MergeStep
<1>7. CASE KfreeNext
  BY <1>7, PassStep
<1>8. CASE KfreeDone
  BY <1>8 DEF IInv, KfreeDone, TypeOK, Tiling, End, Coalesced, Scanned
<1>9. CASE UNCHANGED vars
  BY <1>9 DEF vars, IInv, TypeOK, Tiling, End, Coalesced, Scanned
<1> QED
  BY <1>1, <1>2, <1>3, <1>4, <1>5, <1>6, <1>7, <1>8, <1>9 DEF Next

LEMMA Invariant == Spec => []IInv
BY InitialState, Inductive, PTL DEF Spec

-----------------------------------------------------------------------------
(* The theorems                                                            *)

\* Types, among them that no remainder of a split has a negative size.
THEOREM TypeCorrect == Spec => []TypeOK
<1>1. IInv => TypeOK
  BY DEF IInv
<1> QED
  BY <1>1, Invariant, PTL

\* The blocks of the list tile the heap after any calls of kmalloc and kfree.
THEOREM ListTilesHeap == Spec => []Tiling
<1>1. IInv => Tiling
  BY DEF IInv
<1> QED
  BY <1>1, Invariant, PTL

\* One pass of kfree's loop is enough: no two free blocks stay side by side.
THEOREM NoFreeNeighbours == Spec => []Coalesced
<1>1. IInv => Coalesced
  BY DEF IInv
<1> QED
  BY <1>1, Invariant, PTL

-----------------------------------------------------------------------------
(* The abstract allocator                                                  *)

UsedIn(B) == {b \in DOMAIN B : ~ B[b].free}

Live(B) == [p \in {b + HDR : b \in UsedIn(B)} |-> B[p - HDR].size]

\* Memory in use is known by the address behind its header.
LEMMA LiveFacts ==
    ASSUME NEW B, BlockList(B)
    PROVE  /\ DOMAIN Live(B) = {b + HDR : b \in UsedIn(B)}
           /\ \A b \in UsedIn(B) : Live(B)[b + HDR] = B[b].size
<1>1. DOMAIN Live(B) = {b + HDR : b \in UsedIn(B)}
  BY DEF Live
<1>2. ASSUME NEW b \in UsedIn(B)
      PROVE  Live(B)[b + HDR] = B[b].size
  <2>1. (b + HDR) - HDR = b
    BY BlockFacts DEF UsedIn
  <2>2. b + HDR \in {c + HDR : c \in UsedIn(B)}
    OBVIOUS
  <2>3. Live(B)[b + HDR] = B[(b + HDR) - HDR].size
    BY <2>2 DEF Live
  <2> QED
    BY <2>1, <2>3
<1> QED
  BY <1>1, <1>2

\* Two blocks have two addresses.
LEMMA Payloads ==
    ASSUME NEW B, BlockList(B), NEW b \in DOMAIN B, NEW c \in DOMAIN B,
           b + HDR = c + HDR
    PROVE  b = c
BY BlockFacts

LEMMA SameLive ==
    ASSUME NEW B, BlockList(B), NEW M, BlockList(M), UsedIn(M) = UsedIn(B),
           \A b \in UsedIn(B) : M[b].size = B[b].size
    PROVE  Live(M) = Live(B)
<1>0. /\ DOMAIN Live(B) = {b + HDR : b \in UsedIn(B)}
      /\ DOMAIN Live(M) = {b + HDR : b \in UsedIn(M)}
  BY LiveFacts
<1>1. ASSUME NEW p \in DOMAIN Live(B)
      PROVE  Live(M)[p] = Live(B)[p]
  <2>1. PICK b \in UsedIn(B) : p = b + HDR
    BY <1>0
  <2> QED
    BY <2>1, LiveFacts
<1>2. DOMAIN Live(M) = DOMAIN Live(B)
  BY <1>0
<1> QED
  BY <1>1, <1>2 DEF Live

\* Memory of s bytes at address a is added to what is in use.
Added(L, M, a, s) == M = [p \in DOMAIN L \cup {a} |-> IF p = a THEN s ELSE L[p]]

LEMMA TakenLive ==
    ASSUME NEW B, BlockList(B), NEW M, BlockList(M), NEW c \in DOMAIN B, B[c].free,
           UsedIn(M) = UsedIn(B) \cup {c},
           \A b \in UsedIn(B) : M[b].size = B[b].size
    PROVE  Added(Live(B), Live(M), c + HDR, M[c].size)
<1>0. /\ DOMAIN Live(B) = {b + HDR : b \in UsedIn(B)}
      /\ DOMAIN Live(M) = {b + HDR : b \in UsedIn(M)}
  BY LiveFacts
<1>1. DOMAIN Live(M) = DOMAIN Live(B) \cup {c + HDR}
  BY <1>0
<1>2. ASSUME NEW p \in DOMAIN Live(M)
      PROVE  Live(M)[p] = IF p = c + HDR THEN M[c].size ELSE Live(B)[p]
  <2>1. PICK b \in UsedIn(M) : p = b + HDR
    BY <1>0
  <2>2. Live(M)[p] = M[b].size
    BY <2>1, LiveFacts
  <2>3. CASE b = c
    BY <2>1, <2>2, <2>3
  <2>4. CASE b # c
    <3>1. b \in UsedIn(B) /\ p # c + HDR
      BY <2>1, <2>4, Payloads DEF UsedIn
    <3>2. Live(B)[p] = B[b].size
      BY <2>1, <3>1, LiveFacts
    <3> QED
      BY <2>2, <3>1, <3>2
  <2> QED
    BY <2>3, <2>4
<1>3. Live(M) = [p \in DOMAIN Live(M) |-> Live(M)[p]]
  BY DEF Live
<1> QED
  BY <1>1, <1>2, <1>3 DEF Added

LEMMA FreedLive ==
    ASSUME NEW B, BlockList(B), NEW M, BlockList(M), NEW c \in UsedIn(B),
           UsedIn(M) = UsedIn(B) \ {c},
           \A b \in UsedIn(B) : M[b].size = B[b].size
    PROVE  Live(M) = [p \in DOMAIN Live(B) \ {c + HDR} |-> Live(B)[p]]
<1>0. /\ DOMAIN Live(B) = {b + HDR : b \in UsedIn(B)}
      /\ DOMAIN Live(M) = {b + HDR : b \in UsedIn(M)}
  BY LiveFacts
<1>1. DOMAIN Live(M) = DOMAIN Live(B) \ {c + HDR}
  BY <1>0, Payloads DEF UsedIn
<1>2. ASSUME NEW p \in DOMAIN Live(M)
      PROVE  Live(M)[p] = Live(B)[p]
  <2>1. PICK b \in UsedIn(M) : p = b + HDR
    BY <1>0
  <2> QED
    BY <2>1, LiveFacts
<1>3. Live(M) = [p \in DOMAIN Live(M) |-> Live(M)[p]]
  BY DEF Live
<1> QED
  BY <1>1, <1>2, <1>3

\* If no free block fits and no two lie side by side, there is no room.
LEMMA NoRoom ==
    ASSUME NEW B, BlockList(B), Tiled(B), NEW n \in Nat,
           \A b \in DOMAIN B : ~ (B[b].free /\ B[b].next # NULL /\ B[B[b].next].free),
           \A b \in DOMAIN B : ~ (B[b].free /\ B[b].size >= n)
    PROVE  ~ A!Room(n, Live(B))
<1> SUFFICES ASSUME NEW a \in Address,
                    A!Extent(a + HDR, n) \subseteq Address,
                    A!Apart(a + HDR, n, Live(B))
             PROVE  FALSE
  BY DEF A!Room, A!Heap, Address
<1>1. /\ HDR \in Nat /\ heap_start \in Nat /\ heap_start > 0 /\ heap_end \in Nat
      /\ a \in Nat
  BY HeapAssumption DEF heap_end, Address
<1>2. \A x \in Nat : a <= x /\ x < a + HDR + n => x \in A!Extent(a + HDR, n)
  BY <1>1 DEF A!Extent
<1>3. ASSUME NEW b \in DOMAIN B, NEW x \in Nat, b <= x, x < EndOf(B, b),
             a <= x, x < a + HDR + n
      PROVE  B[b].free
  <2> SUFFICES ASSUME ~ B[b].free PROVE FALSE
    BY BlockFacts
  <2>1. b \in UsedIn(B) /\ b \in Nat /\ B[b].size \in Nat
    BY BlockFacts DEF UsedIn
  <2>2. b + HDR \in DOMAIN Live(B) /\ Live(B)[b + HDR] = B[b].size
    BY <2>1, LiveFacts
  <2>3. x \in A!Extent(b + HDR, B[b].size)
    BY <1>1, <1>3, <2>1 DEF A!Extent, EndOf
  <2>4. A!Extent(a + HDR, n) \cap A!Extent(b + HDR, B[b].size) = {}
    BY <2>2 DEF A!Apart
  <2> QED
    BY <1>2, <1>3, <2>3, <2>4
<1>4. PICK b \in DOMAIN B : b <= a /\ a < EndOf(B, b)
  BY DEF Tiled
<1>5. b \in Nat /\ B[b].size \in Nat /\ EndOf(B, b) \in Nat /\ EndOf(B, b) = b + HDR + B[b].size
  BY BlockFacts DEF EndOf
<1>6. HDR > 0 /\ a < a + HDR + n
  BY <1>1, HeapAssumption
<1>7. B[b].free
  BY <1>1, <1>3, <1>4, <1>6
<1>8. B[b].size < n
  BY <1>5, <1>7
<1>9. EndOf(B, b) < a + HDR + n /\ a <= EndOf(B, b)
  BY <1>1, <1>4, <1>5, <1>8
<1>10. EndOf(B, b) \in Address
  BY <1>2, <1>5, <1>9
<1>11. EndOf(B, b) # heap_end /\ EndOf(B, b) # NULL
  BY <1>1, <1>10 DEF Address, NULL
<1>12. EndOf(B, b) \in DOMAIN B /\ B[b].next = EndOf(B, b)
  BY <1>11 DEF Tiled
<1>13. ~ B[EndOf(B, b)].free
  BY <1>7, <1>11, <1>12
<1>14. EndOf(B, b) < EndOf(B, EndOf(B, b))
  BY <1>12, BlockFacts
<1> QED
  BY <1>3, <1>5, <1>9, <1>12, <1>13, <1>14

\* The refinement mapping in terms of the lemmas above.
LEMMA LiveView ==
    LiveBlocks = Live(block) /\ LiveBlocks' = Live(block')
BY DEF LiveBlocks, Live, InUse, UsedIn

LEMMA CallRefines ==
    ASSUME IInv, NEW n \in Requests, Kmalloc(n)
    PROVE  A!Request
<1>1. LiveBlocks' = LiveBlocks /\ result' = result
  BY DEF Kmalloc, LiveBlocks, InUse
<1>2. Pending = -1 /\ Pending' = n
  BY DEF Pending, Kmalloc
<1> QED
  BY <1>1, <1>2 DEF A!Request, A!NoRequest

LEMMA GrantRefines ==
    ASSUME IInv, KmallocTakes
    PROVE  A!Grant
<1> DEFINE s == block'[curr].size
<1>1. BlockList(block) /\ Tiled(block) /\ curr \in DOMAIN block /\ size \in Nat
  BY ListView DEF IInv, KmallocTakes
<1>2. BlockList(block') /\ Tiled(block')
  BY TakeStep, ListViewPrimed DEF IInv
<1>3. Pending = size /\ Pending' = -1 /\ size \in Nat /\ result' = curr + HDR
  BY <1>1 DEF Pending, KmallocTakes
<1>4. /\ curr \in Nat /\ HDR \in Nat /\ heap_start \in Nat /\ heap_start <= curr
      /\ heap_end \in Nat /\ block[curr].size \in Nat /\ block[curr].size >= size
      /\ block[curr].free
  BY <1>1, BlockFacts DEF KmallocTakes, Fits
<1>5. /\ curr \in DOMAIN block'
      /\ UsedIn(block') = UsedIn(block) \cup {curr}
      /\ \A b \in UsedIn(block) : block'[b].size = block[b].size
      /\ s \in Nat /\ size <= s /\ s <= size + HDR
  <2>1. CASE IsSplit(block, curr, size, block', curr + HDR + size)
    <3>1. PICK new : new = curr + HDR + size
      OBVIOUS
    <3>2. /\ DOMAIN block' = DOMAIN block \cup {new} /\ new \notin DOMAIN block
          /\ block'[curr].free = FALSE /\ block'[curr].size = size
          /\ block'[new].free = TRUE
          /\ \A b \in DOMAIN block : b # curr => block'[b] = block[b]
      BY <2>1, <3>1 DEF IsSplit
    <3> QED
      BY <1>1, <1>4, <3>2 DEF UsedIn
  <2>2. CASE ~ (block[curr].size > size + HDR)
             /\ block' = [block EXCEPT ![curr].free = FALSE]
    <3>1. IsMarked(block, curr, FALSE, block')
      BY <1>1, <2>2, MarkTiles
    <3>2. block'[curr].size = block[curr].size /\ ~ block'[curr].free
      BY <1>1, <3>1 DEF IsMarked
    <3>3. /\ UsedIn(block') = UsedIn(block) \cup {curr}
          /\ \A b \in UsedIn(block) : block'[b].size = block[b].size
      BY <1>1, <3>1 DEF IsMarked, UsedIn
    <3>4. curr \in DOMAIN block'
      BY <1>1, <3>1 DEF IsMarked
    <3>5. s = block[curr].size
      BY <3>2
    <3>6. size <= block[curr].size /\ block[curr].size <= size + HDR
      BY <1>1, <1>4, <2>2
    <3> QED
      BY <1>4, <3>3, <3>4, <3>5, <3>6
  <2> QED
    BY <2>1, <2>2, TakeFacts
<1>6. LiveBlocks' = [p \in DOMAIN LiveBlocks \cup {curr + HDR} |->
                        IF p = curr + HDR THEN s ELSE LiveBlocks[p]]
  <2>1. Added(Live(block), Live(block'), curr + HDR, block'[curr].size)
    BY <1>1, <1>2, <1>4, <1>5, TakenLive
  <2> QED
    BY <2>1, LiveView DEF Added
<1>7. EndOf(block', curr) = curr + HDR + s /\ EndOf(block', curr) <= heap_end
  BY <1>2, <1>5 DEF Tiled, EndOf
<1> HIDE DEF s
<1>8. A!Extent(curr + HDR, s) \subseteq A!Heap
  BY <1>4, <1>5, <1>7 DEF A!Extent, A!Heap
<1>9. A!Apart(curr + HDR, s, LiveBlocks)
  <2> SUFFICES ASSUME NEW p \in DOMAIN LiveBlocks, NEW x,
                      x \in A!Extent(curr + HDR, s),
                      x \in A!Extent(p, LiveBlocks[p])
               PROVE  FALSE
    BY DEF A!Apart
  <2>0. DOMAIN Live(block) = {b + HDR : b \in UsedIn(block)}
    BY <1>1, LiveFacts
  <2>1. PICK b \in UsedIn(block) : p = b + HDR
    BY <2>0, LiveView
  <2>2. b \in DOMAIN block /\ b # curr /\ b \in DOMAIN block'
    BY <1>4, <1>5, <2>1 DEF UsedIn
  <2>3. LiveBlocks[p] = block'[b].size
    BY <1>1, <1>5, <2>1, LiveFacts, LiveView
  <2>4. b \in Nat /\ block'[b].size \in Nat
    BY <1>2, <2>2, BlockFacts
  <2>5. x \in Int /\ b <= x /\ x < EndOf(block', b)
    BY <1>4, <2>1, <2>3, <2>4 DEF A!Extent, EndOf
  <2>6. curr <= x /\ x < EndOf(block', curr)
    BY <1>4, <1>5, <1>7 DEF A!Extent
  <2>7. EndOf(block', b) \in Nat /\ EndOf(block', curr) \in Nat
    BY <1>2, <1>5, <2>2, BlockFacts
  <2>8. b < curr \/ curr < b
    BY <1>4, <2>2, <2>4
  <2>9. EndOf(block', b) <= curr \/ EndOf(block', curr) <= b
    BY <1>2, <1>5, <2>2, <2>8 DEF Tiled
  <2> QED
    BY <1>4, <2>4, <2>5, <2>6, <2>7, <2>9
<1>10. curr \in A!Heap /\ s \in {size + k : k \in 0..HDR}
  <2>1. curr \in A!Heap
    BY <1>1 DEF BlockList, Address, A!Heap
  <2>2. s - size \in 0..HDR /\ s = size + (s - size)
    BY <1>1, <1>4, <1>5
  <2> QED
    BY <2>1, <2>2
<1> QED
  BY <1>3, <1>6, <1>8, <1>9, <1>10 DEF A!Grant, A!NoRequest

LEMMA RefuseRefines ==
    ASSUME IInv, KmallocFails
    PROVE  A!Refuse
<1>1. BlockList(block) /\ Tiled(block) /\ size \in Nat
  BY ListView DEF IInv
<1>2. ~ A!Room(size, Live(block))
  BY <1>1, NoRoom DEF IInv, KmallocFails, Coalesced, Scanned
<1>3. Pending = size /\ Pending' = -1 /\ size \in Nat /\ result' = 0
  BY <1>1 DEF Pending, KmallocFails, NULL
<1>4. LiveBlocks' = LiveBlocks
  BY DEF KmallocFails, LiveBlocks, InUse
<1> QED
  BY <1>2, <1>3, <1>4, LiveView DEF A!Refuse, A!NoRequest, A!NULL

LEMMA FreeRefines ==
    ASSUME IInv, NEW b \in InUse, Kfree(b + HDR)
    PROVE  A!Free
<1>1. BlockList(block) /\ Tiled(block) /\ b \in UsedIn(block)
  BY ListView DEF IInv, InUse, UsedIn
<1>2. BlockList(block')
  BY FreeStep, ListViewPrimed DEF IInv
<1>3. (b + HDR) - HDR = b
  BY <1>1, BlockFacts DEF UsedIn
<1>4. block' = [block EXCEPT ![b].free = TRUE]
  <2>1. block' = [block EXCEPT ![(b + HDR) - HDR].free = TRUE]
    BY DEF Kfree
  <2> QED
    BY <1>3, <2>1
<1>5. IsMarked(block, b, TRUE, block')
  BY <1>1, <1>4, MarkTiles DEF UsedIn
<1>6. /\ UsedIn(block') = UsedIn(block) \ {b}
      /\ \A c \in UsedIn(block) : block'[c].size = block[c].size
  BY <1>5 DEF IsMarked, UsedIn
<1>7. LiveBlocks' = [p \in DOMAIN LiveBlocks \ {b + HDR} |-> LiveBlocks[p]]
  <2>1. Live(block') = [p \in DOMAIN Live(block) \ {b + HDR} |-> Live(block)[p]]
    BY <1>1, <1>2, <1>6, FreedLive
  <2> QED
    BY <2>1, LiveView
<1>8. b + HDR \in DOMAIN LiveBlocks
  <2>1. DOMAIN Live(block) = {c + HDR : c \in UsedIn(block)}
    BY <1>1, LiveFacts
  <2> QED
    BY <1>1, <2>1, LiveView
<1>9. Pending = -1 /\ Pending' = -2 /\ result' = result
  BY DEF Pending, Kfree
<1> QED
  BY <1>7, <1>8, <1>9 DEF A!Free, A!NoRequest, A!Freeing

LEMMA ReturnRefines ==
    ASSUME KfreeDone
    PROVE  A!Freed
<1>1. LiveBlocks' = LiveBlocks /\ result' = result
  BY DEF KfreeDone, LiveBlocks, InUse
<1>2. Pending = -2 /\ Pending' = -1
  BY DEF Pending, KfreeDone
<1> QED
  BY <1>1, <1>2 DEF A!Freed, A!NoRequest, A!Freeing

\* A step of a loop is none of the allocator.
LEMMA LoopStutters ==
    ASSUME IInv, KmallocNext \/ KfreeMerges \/ KfreeNext \/ UNCHANGED vars
    PROVE  UNCHANGED <<LiveBlocks, Pending, result>>
<1>1. Pending' = Pending /\ result' = result
  BY DEF Pending, KmallocNext, KfreeMerges, KfreeNext, vars
<1>2. CASE KfreeMerges
  <2>1. /\ BlockList(block) /\ Tiled(block) /\ curr \in DOMAIN block
        /\ block[curr].next # NULL /\ block[curr].free
        /\ block[block[curr].next].free
    BY <1>2, ListView DEF IInv, KfreeMerges, Mergeable
  <2>2. PICK next : next = block[curr].next
    OBVIOUS
  <2>3. block' = MergedOf(block, curr)
    BY <1>2 DEF KfreeMerges, Merged, MergedOf
  <2>4. IsMerged(block, curr, block', next)
    BY <2>1, <2>2, <2>3, MergeFacts
  <2>5. BlockList(block')
    BY <2>1, <2>3, MergeTiles
  <2>6. block'[curr].free = block[curr].free
    BY <2>4 DEF IsMerged
  <2>7. /\ UsedIn(block') = UsedIn(block)
        /\ \A b \in UsedIn(block) : block'[b].size = block[b].size
    BY <2>1, <2>2, <2>4, <2>6 DEF IsMerged, UsedIn
  <2>8. Live(block') = Live(block)
    BY <2>1, <2>5, <2>7, SameLive
  <2> QED
    BY <1>1, <2>8, LiveView
<1>3. CASE block' = block
  BY <1>1, <1>3, LiveView
<1> QED
  BY <1>2, <1>3 DEF KmallocNext, KfreeNext, vars

\* heap.c implements the allocator of heap.h: what kmalloc returns is apart
\* from all memory in use until it is freed, and it returns NULL only if no
\* run of unused bytes holds the request and a header.
THEOREM HeapIsAllocator == Spec => ImplementsAllocator
<1>1. Init => A!AInit
  <2> SUFFICES ASSUME Init PROVE A!AInit
    OBVIOUS
  <2>1. InUse = {}
    BY DEF Init, InUse
  <2>2. LiveBlocks = [a \in {} |-> 0]
    BY <2>1 DEF LiveBlocks
  <2>3. Pending = -1 /\ result = 0
    BY DEF Init, Pending, NULL
  <2> QED
    BY <2>2, <2>3 DEF A!AInit, A!NoRequest, A!NULL
<1>2. IInv /\ [Next]_vars => [A!ANext]_(A!avars)
  <2> SUFFICES ASSUME IInv, [Next]_vars
               PROVE  A!ANext \/ UNCHANGED <<LiveBlocks, Pending, result>>
    BY DEF A!avars
  <2>1. CASE \E n \in Requests : Kmalloc(n)
    BY <2>1, CallRefines DEF A!ANext
  <2>2. CASE KmallocTakes
    BY <2>2, GrantRefines DEF A!ANext
  <2>3. CASE KmallocFails
    BY <2>3, RefuseRefines DEF A!ANext
  <2>4. CASE \E b \in InUse : Kfree(b + HDR)
    BY <2>4, FreeRefines DEF A!ANext
  <2>5. CASE KfreeDone
    BY <2>5, ReturnRefines DEF A!ANext
  <2>6. CASE KmallocNext \/ KfreeMerges \/ KfreeNext \/ UNCHANGED vars
    BY <2>6, LoopStutters
  <2> QED
    BY <2>1, <2>2, <2>3, <2>4, <2>5, <2>6 DEF Next
<1> QED
  BY <1>1, <1>2, Invariant, PTL DEF Spec, ImplementsAllocator, A!ASpec
=============================================================================
