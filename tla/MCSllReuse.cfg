SPECIFICATION AllSpec
CONSTANTS
    n1 = n1
    n2 = n2
    n3 = n3
    n4 = n4
    v1 = v1
    NULL = NULL
    HeadField = HeadField
    End = End
    Junk = Junk
    Vacant = Vacant
    NoValue = NoValue
    Nodes <- SomeNodes
    Elems <- SomeNodes
    InitCaps <- SomeCaps
    Reserves <- SomeReserves
    MaxLen = 5
    Keys <- SomeNodes
    Values <- OneValue
    RawHashes <- SomeHashes
    InitCap = 4
    LoadFactor = 90
    MaxCap = 4
    MaxChanges = 3
SYMMETRY Symmetry
PROPERTIES
    EnqueueAppends
