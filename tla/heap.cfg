SPECIFICATION FairSpec
CONSTANTS
    HDR = 2
    heap_start = 10
    HEAP_SIZE = 14
    Requests <- MCRequests
INVARIANTS
    TypeOK
    Tiling
    Coalesced
PROPERTIES
    ImplementsAllocator
    CallsReturn
