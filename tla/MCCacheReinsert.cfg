SPECIFICATION CacheSpec
CONSTANTS
    k1 = k1
    k2 = k2
    k3 = k3
    k4 = k4
    k5 = k5
    v1 = v1
    Vacant = Vacant
    NoValue = NoValue
    Nobody = Nobody
    Keys <- FiveKeys
    Values <- OneValue
    RawHashes <- SomeHashes
    InitCap = 4
    LoadFactor = 90
    MaxCap = 4
    Block = 2
    Reinserts = TRUE
INVARIANTS
    NeverPanics
