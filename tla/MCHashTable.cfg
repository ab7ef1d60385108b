SPECIFICATION Spec
CONSTANTS
    k1 = k1
    k2 = k2
    k3 = k3
    k4 = k4
    v1 = v1
    v2 = v2
    Vacant = Vacant
    NoValue = NoValue
    Keys <- FourKeys
    Values <- TwoValues
    RawHashes <- SomeHashes
    InitCap = 4
    LoadFactor = 70
    MaxCap = 8
INVARIANTS
    TypeOK
    RobinHood
    StoredIsFound
    LoopsEnd
    SizeCovers
PROPERTIES
    ImplementsDictionary
SYMMETRY Symmetry
