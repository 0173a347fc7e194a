\* Two Opens contend for a port, with each other and with another process.
SPECIFICATION FairSpec
CONSTANTS
    p1 = p1
    p2 = p2
    o1 = o1
    o2 = o2
    o3 = o3
    None = none
    Zero = zero
    Ports <- TwoPorts
    Opens <- ThreeOpens
    Asked <- Contending
    Others = {x1}
INVARIANTS
    TypeOK
    StoppedOnce
    OpenServes
PROPERTIES
    LeavesNothing
    OpenReturns
\* A run ends when every handle was closed.
CHECK_DEADLOCK FALSE
