\* Three slots, four containers, two possible contents of each: one container
\* more than the slots, so that every insertion pattern meets evictions.
SPECIFICATION CacheSpec
CONSTANTS
    Key = {c1, c2, c3, c4}
    Data = {d1, d2}
    CacheSize = 3
    Unset = Unset
INVARIANT SlotsDisjoint
PROPERTY ImplementsLRU
