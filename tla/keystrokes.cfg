SPECIFICATION Spec
CONSTANTS
    Keyboards <- MCKeyboards
    MaxWire = 4
    MaxTyped = 2
INVARIANTS
    EmittedIsTyped
    NoStuckModifier
