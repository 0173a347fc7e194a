\* A container with two random ports and one written "00", opened twice, and one with a
\* HostPort that is no number, beside a process outside the daemon that takes ports too, and a connection.
SPECIFICATION FairSpec
CONSTANTS
    p1 = p1
    p2 = p2
    c1 = c1
    c2 = c2
    o1 = o1
    o2 = o2
    o3 = o3
    None = none
    Any = any
    Zero = zero
    Invalid = invalid
    Ports <- TwoPorts
    Creates <- TwoCreates
    Others = {x1}
    Conns = {k1}
    MaxBroken = 1
    Wanted <- Published
    Opens <- ThreeOpens
    Of <- TwoOfTheFirst
INVARIANTS
    TypeOK
    RandomPortsDiffer
    SamePortsFromPod
    AllOrNothing
    NoFalseAlarm
PROPERTIES
    PortsGivenBack
\* A run ends when every container was served.
CHECK_DEADLOCK FALSE
