\* arm64: separate register files, one of each; two threads, three addresses.
SPECIFICATION Spec
CONSTANTS
    Address = {a1, a2, a3}
    Thread = {t1, t2}
    ExecSlots = 1
    WatchSlots = 1
    Shared = FALSE
SYMMETRY Symmetry
INVARIANTS
    TrapsAccounted
    SlotsDisjoint
    ThreadsCarryTheTable
    SweepKeepsItsWord
PROPERTY HardwareChangesTogether
