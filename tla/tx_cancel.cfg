\* Two tasks take turns on one handle and may be cancelled in any await.
SPECIFICATION Spec
CONSTANTS
    Tasks = {t1, t2}
    Insts = {i1, i2, i3}
    Writes = {w1}
    None = None
    Serialised = TRUE
    Cancellable = TRUE
    MaxSavepoints = 4
SYMMETRY Symmetry
INVARIANTS
    SavepointsMatchBlocks
    GuardSparesTurnTaking
    FlagNeverStranded
