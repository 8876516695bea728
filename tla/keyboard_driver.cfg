SPECIFICATION FairSpec
CONSTANTS
    KEYBOARD_BUFFER_SIZE = 3
    Strokes <- LetterAndArrow
    DeviceQueue = 2
    TypingDuringBoot = FALSE
INVARIANTS
    TypeOK
    NoLostEdge
    GetcharDelivers
PROPERTIES
    ImplementsQueue
    BlockingRead
