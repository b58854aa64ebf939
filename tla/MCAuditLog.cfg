\* Every fault and every kind of content.
SPECIFICATION Spec
CONSTANTS
    Procs = {p1, p2}
    Faults = {"shared", "torn", "power", "refused", "damage"}
    Data = {"list", "tuple"}
    Writable = {"list", "tuple"}
    Reload <- TupleToList
    Garbage <- SmallGarbage
    MaxAppends = 3
    Torn = Torn
    Closed = Closed
SYMMETRY Symmetry
INVARIANTS
    LogInv
    ChainIntact
    MemoryIsFile
    DamageLocated
    AckedOnFile
PROPERTIES
    LedgerSpec
