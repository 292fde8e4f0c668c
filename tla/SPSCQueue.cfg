\* A ring of five blocks of two slots, and one block of four; both threads stop
\* in the end.
SPECIFICATION FairSpec
CONSTANTS
    Sizes = {3, 4}
    MAX_BLOCK_SIZE = 2
    MaxItems = 6
INVARIANTS
    SlotsHandedOver
PROPERTIES
    FailsOnlyWhenFull
    ImplementsFIFO
    AllDequeued
CHECK_DEADLOCK FALSE
