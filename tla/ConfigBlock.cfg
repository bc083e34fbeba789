SPECIFICATION Spec
CONSTANTS
    NumFields = 3
    Values = {z, d, u}
    Zero = z
    Default = d
    LossMax = 3
    Erased = Erased
    Mixed = Mixed
INVARIANTS TypeOK KeyedIsWhole RamIsStored HaltsOnce
CHECK_DEADLOCK FALSE
