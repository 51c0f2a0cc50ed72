\* Two tasks use one handle at once: does S10 keep the second out?
SPECIFICATION Spec
CONSTANTS
    Tasks = {t1, t2}
    Insts = {i1, i2}
    Writes = {w1}
    None = None
    Serialised = FALSE
    Cancellable = FALSE
    MaxSavepoints = 3
INVARIANTS
    OneTaskInside
