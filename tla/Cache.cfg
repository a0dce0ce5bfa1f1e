SPECIFICATION Spec
CONSTANTS
    a1 = a1
    a2 = a2
    a3 = a3
    a4 = a4
    x = x
    y = y
    None = None
    Address = {a1, a2, a3, a4}
    Data = {x, y}
    Sizes = {0, 1, 3}
SYMMETRY Addresses
INVARIANTS
    TypeOK
    LruKnowsTheCache
    OrderIsOrderOfUse
PROPERTIES
    EvictsLeastRecentlyUsed
    HitsAreCurrent
