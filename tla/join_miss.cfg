SPECIFICATION Spec
CONSTANTS
    a = a
    b = b
    c = c
    w = w
    Readers = {t1}
    Tables = {a, b, c}
    Derived = {w}
    Width <- MCWidth
    KeyAt <- MCKeyAt
    Rows <- MCRows
    None = None
    Raises = Raises
    MaxCalls = 3
INVARIANTS
    EveryMissNone
