SPECIFICATION FairSpec
CONSTANTS
    c1 = c1
    c2 = c2
    e1 = e1
    e2 = e2
    NULL = NULL
    Consumers <- TwoConsumers
    Elems <- TwoElems
    Cap = 2
    Tries = 2
    MaxSent = 3
INVARIANTS
    TypeOK
    TicketsHeldOnce
    HolderFindsItsElement
    NoOverwrite
    WaitIsForSomeone
    IInv
PROPERTIES
    ImplementsFifo
    DequeueServed
    EnqueueCompletes
\* The producer stops after MaxSent elements; consumers may then wait for ever.
CHECK_DEADLOCK FALSE
