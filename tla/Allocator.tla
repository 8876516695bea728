----------------------------- MODULE Allocator ------------------------------
(***************************************************************************)
(* What heap.h promises: memory that is handed out is inside the heap and  *)
(* apart from all other memory in use, headers included, until it is       *)
(* freed, and a request is refused only for want of room.                  *)
(***************************************************************************)
EXTENDS Integers

CONSTANTS HDR, heap_start, heap_end, Requests

NULL      == 0
NoRequest == -1
Freeing   == -2

VARIABLES
    live,      \* payload address -> size, of the memory in use
    pending,   \* the size asked for, NoRequest, or Freeing inside kfree
    result     \* what the last request was answered

avars == <<live, pending, result>>

\* The bytes taken by memory at a payload address: its header and itself.
Extent(a, size) == (a - HDR)..(a + size - 1)
Heap            == heap_start..(heap_end - 1)

Apart(a, size, used) ==
    \A b \in DOMAIN used : Extent(a, size) \cap Extent(b, used[b]) = {}

\* Some run of unused bytes holds a header and n bytes.
Room(n, used) ==
    \E a \in Heap : Extent(a + HDR, n) \subseteq Heap /\ Apart(a + HDR, n, used)

AInit == live = [a \in {} |-> 0] /\ pending = NoRequest /\ result = NULL

Request ==
    /\ pending = NoRequest
    /\ pending' \in Requests
    /\ UNCHANGED <<live, result>>

Grant ==
    /\ pending \in Nat
    /\ \E a \in Heap :
          \E size \in {pending + k : k \in 0..HDR} :
             /\ Extent(a + HDR, size) \subseteq Heap
             /\ Apart(a + HDR, size, live)
             /\ live' = [b \in DOMAIN live \cup {a + HDR} |->
                            IF b = a + HDR THEN size ELSE live[b]]
             /\ result' = a + HDR
    /\ pending' = NoRequest

Refuse ==
    /\ pending \in Nat
    /\ ~ Room(pending, live)
    /\ result' = NULL
    /\ pending' = NoRequest
    /\ UNCHANGED live

Free ==
    /\ pending = NoRequest
    /\ \E a \in DOMAIN live :
          live' = [b \in DOMAIN live \ {a} |-> live[b]]
    /\ pending' = Freeing
    /\ UNCHANGED result

\* kfree returns; nothing else was freed meanwhile.
Freed ==
    /\ pending = Freeing
    /\ pending' = NoRequest
    /\ UNCHANGED <<live, result>>

ANext == Request \/ Grant \/ Refuse \/ Free \/ Freed

ASpec == AInit /\ [][ANext]_avars
=============================================================================
