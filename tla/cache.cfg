\* One ordinary adapter, one that refuses weak references, one that does not
\* introspect; two tasks, two tables, flushes and migrations at any moment.
SPECIFICATION CacheSpec
CONSTANTS
    Callers = {c1, c2}
    Adapters = {pg, noweak, fake}
    Tables = {accounts, logs}
    None = None
    Introspecting = {pg, noweak}
    Cacheable = {pg, fake}
    MaxVersion = 1
SYMMETRY Symmetry
INVARIANTS
    CacheTypeOK
    LiveEntriesFresh
    ServedFresh
    FillsKept
