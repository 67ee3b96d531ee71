SPECIFICATION MCSpec
CONSTANTS
    Threads = {t1, t2}
    Harts = {h1, h2}
    Ram = {0, 1}
    Dev = {2}
    Val = {0, 1}
    None = None
    Trap = Trap
    ResetAddr = 0
    MaxSeq = 2
    Regs = {0}
    Size = 3
    MaxDumps = 2
    Guests <- MCGuests
    RTC_FREQ_DIV = 4
    Cores = {1, 2}
    GoldAddrs = {0, 1}
    Byte = {0, 1}
    MaxInsts = 4
    PMP_N = 2
    AddrBits = 3
    DutHarts = {1, 2}
    Irqs = {3, 7}
    Program <- MCProgram
    MTVEC = 8
    STVEC = 6
    MaxInsns = 8
SYMMETRY Symmetry
INVARIANTS
    UnitsTyped
    ThreadsKeepFpu
    
    RestartsInvisible
    WarmupReproduces
    CosimAgrees
PROPERTIES
    PmpRangesExact
    LoadsOneMoment
    
    ImplementsReservation
CHECK_DEADLOCK FALSE
