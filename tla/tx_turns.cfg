\* Two tasks take turns on one handle; no cancellation.
SPECIFICATION FairSpec
CONSTANTS
    Tasks = {t1, t2}
    Insts = {i1, i2, i3}
    Writes = {w1, w2}
    None = None
    Serialised = TRUE
    Cancellable = FALSE
    MaxSavepoints = 3
INVARIANTS
    TypeOK
    FlagTracksServer
PROPERTIES
    ImplementsNestedTx
    OuterExitClearsFlag
