\* Four builder calls on a statement and the SELECT it embeds, then the walk.
SPECIFICATION DerivedSpec
CONSTANTS
    v1 = v1
    v2 = v2
    v3 = v3
    None = None
    Values <- MCValues
    Items <- MCItems
    Selects = {"inner", "outer"}
    Root = "outer"
    Projected <- MCProjected
    Offered <- MCOffered
    Objects <- MCObjects
    Tables <- MCTables
    Fields <- MCFields
    Body <- MCBody
    Recursive = {"recursive"}
    Given <- MCGiven
    Unnamed = "?column?"
    Aliased = {"a"}
    MaxCalls = 4
    MaxList = 2
INVARIANTS
    RenderTypeOK
    ClausesAgree
    NumbersName
    EachParameterOnce
    PositionsName
    InferredDenote
PROPERTY
    ActionTerminal
CHECK_DEADLOCK FALSE
