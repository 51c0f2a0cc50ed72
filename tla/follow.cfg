SPECIFICATION FollowingSpec
CONSTANTS
    tree = tree
    left = left
    right = right
    bad = bad
    worse = worse
    keyless = keyless
    leaf = leaf
    Classes = {tree, left, right, bad, worse, keyless, leaf}
    Model <- MCModel
    Holders = {app, t1}
    Tasks = {t1}
    Keys = {k1, k2}
    MaxObjects = 2
    Metas = {m1, m2, m3, m4, m5, m6}
    Proxies = {p1, p2, p3}
    None = None
    MaxCalls = 3
INVARIANTS
    FollowingTypeOK
    ResultsAligned
    TargetAlwaysFound
    EveryCachedInitialised
    OnePerClass
    ValidNeverRefused
    InvalidNeverUsable
    NoRecursion
PROPERTY CallsEnd
CHECK_DEADLOCK FALSE
