SPECIFICATION Spec
CONSTANTS
    Callers = {c1, c2}
    Adapters = {pg}
    Tables = {accounts}
    None = None
    Introspecting = {pg}
    Cacheable = {pg}
    MaxVersion = 1
    Table = accounts
    DBKeyed = TRUE
    o1 = o1
    o2 = o2
    stamp = stamp
    kind = kind
    Objs = {o1, o2}
    Cols = {stamp}
    Vals = {x}
    Default = dflt
    DefaultsAt <- MCDefaultsAt
    Batches <- MCBatches
    AppKeys = {2}
    MaxKey = 2
    MaxOps = 2
    MaxSets = 1
SYMMETRY Symmetry
INVARIANTS
    TypeOK
PROPERTIES
    
    ExplicitValuesStored
    
    ConflictPreserves
