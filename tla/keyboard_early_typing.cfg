SPECIFICATION FairSpec
CONSTANTS
    KEYBOARD_BUFFER_SIZE = 3
    Strokes <- OneLetter
    DeviceQueue = 1
    TypingDuringBoot = TRUE
PROPERTY BlockingRead
