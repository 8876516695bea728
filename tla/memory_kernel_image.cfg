SPECIFICATION Spec
CONSTANTS
    PAGE = 2
    MemSize = 59
    Available <- MCAvailable
    KernelStart = 70
    KernelEnds <- MCKernelEnds
    KernelImage <- MCKernelImage
    ENTRIES = 24
    DIRS = 6
    FramebufferBase = 121
    FramebufferPages = 2
    HeapBase = 97
    HeapPages = 5
    StackTop = 95
    StackPages = 2
    Programs <- SamePlace
    Init_elf = "init"
    Shell_elf = "shell"
    DiskErrors = {}
CHECK_DEADLOCK FALSE
INVARIANT KernelFramesKept
