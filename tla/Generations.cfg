\* Two /create and two /start of one name, and a /kill: a container is created,
\* started, killed and created again while the first one is still being served.
SPECIFICATION Spec
CONSTANTS
    Web = web
    Alias = Web_
    Port = p8080
    None = none
    Creates = {c1, c2}
    Starts = {s1, s2}
    Stops = {}
    Kills = {k1}
    Rms = {}
    Waits = {}
    AutoRms = {}
    Attaches = {}
    Interactive = {}
    ById = {}
    Tty = {}
    Stale = {}
    Impatient = {}
    Fates = {"running", "ready", "exited"}
    MaxFaults = 0
    MaxRestarts = 0
    Names <- OneName
    DockerName <- Named
    PodName <- ToPodWeb
    HostPort <- OwnPorts
    Ref <- ByPodName
SYMMETRY Interchangeable
INVARIANTS
    TypeOK
    RegisteredOpen
    WatchedForwarder
    NoLeakedHandle
PROPERTIES
    LifeCycle
\* A run ends when every request was served.
CHECK_DEADLOCK FALSE
