SPECIFICATION StoreSpec
CONSTANTS
    Id = {a, b, c}
    Plain = {}
    Retention = 2
    MaxFaults = 1
SYMMETRY IdSymmetry
INVARIANT
    AgainIsSafe
