CONSTANTS
    MaxKey = 4
    Null = 99
SPECIFICATION Spec
INVARIANTS  VectorsWhole MbufsSound
CHECK_DEADLOCK FALSE
