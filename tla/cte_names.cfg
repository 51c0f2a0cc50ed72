\* What the README says of derived tables over opaque expressions.
SPECIFICATION DerivedSpec
CONSTANTS
    v1 = v1
    v2 = v2
    v3 = v3
    None = None
    Values <- MCValues
    Items <- MCItems
    Selects = {"inner", "outer"}
    Root = "outer"
    Projected <- MCProjected
    Offered <- MCOffered
    Objects <- MCObjects
    Tables <- MCTables
    Fields <- MCFields
    Body <- MCBody
    Recursive = {"recursive"}
    Given <- MCGiven
    Unnamed = "?column?"
    Aliased = {"a"}
    MaxCalls = 3
    MaxList = 2
INVARIANT
    DerivedNamesDenote
CHECK_DEADLOCK FALSE
