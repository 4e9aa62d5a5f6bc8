SPECIFICATION FairSpec
CONSTANTS
    frame = frame
    connect = connect
    scan1 = scan1
    scan2 = scan2
    Items <- MCItems
    Priority <- MCPriority
    FailSync = {connect}
    MaxIds = 5
INVARIANTS
    ServiceOrder
    IInv
PROPERTIES
    KeepsRadio
    Drains
    KeepsContract
\* An idle queue is a legal end: nobody has to ask for the radio again.
CHECK_DEADLOCK FALSE
