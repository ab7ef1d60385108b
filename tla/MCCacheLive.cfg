SPECIFICATION CacheFairSpec
CONSTANTS
    k1 = k1
    k2 = k2
    k3 = k3
    k4 = k4
    k5 = k5
    v1 = v1
    Vacant = Vacant
    NoValue = NoValue
    Nobody = Nobody
    Keys <- ThreeKeys
    Values <- OneValue
    RawHashes <- SomeHashes
    InitCap = 2
    LoadFactor = 90
    MaxCap = 2
    Block = 2
    Reinserts = TRUE
PROPERTIES
    CallsReturn
\* A panic ends the program.
CHECK_DEADLOCK FALSE
