SPECIFICATION Spec
CONSTANTS
    x = x
    y = y
    Names = {a, b}
    Bytes = {x, y}
    Values <- MCValues
    OutOfRange <- MCOutOfRange
    Width = 2
    LastSector = 2
    Positions = 2
    STARTDAT = 51
    SectorSize = 4096
    LossMax = 2
    Blank = Blank
    Part = Part
    Erased = Erased
    Mixed = Mixed
    Absent = Absent
    None = None
INVARIANTS TypeOK ErasedBeyond NoMixture OneSectorEach
PROPERTIES ImplementsStore
SYMMETRY Symm
