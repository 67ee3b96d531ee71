SPECIFICATION MCSpec
CONSTANTS
    Names = {a, b}
    Fids = {f1, f2}
    Depth = 2
    Objects = {1, 2}
    Chars = {"C-a", "C-b", "c"}
    MaxTyped = 3
    Sectors = 3
    Contents = {0, 1}
    Buttons <- MCButtons
    Buffers = 7
    EXP_SIZE = 5
    MANT_SIZE = 4
    WEXP_SIZE = 6
    WMANT_SIZE = 9
    Operands <- MCOperands
    FmaOperands <- MCFmaOperands
    IntSizes = {4, 12}
    XLEN = 4
    WLEN = 2
    HLEN = 2
    BLEN = 1
    NCpus = 2
    MaxCpus = 3
    Irqs = {1, 2}
SYMMETRY Symmetry
INVARIANTS
    FidsExact
    
    
    LinesExact
    FloatingPointRounds
    
    RequestsExact
PROPERTIES
    DiskExact
    ServedByOne
