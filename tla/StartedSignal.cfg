\* Two /start of one pending container, and a /wait on it.
SPECIFICATION Spec
CONSTANTS
    Web = web
    Alias = Web_
    Port = p8080
    None = none
    Creates = {c1}
    Starts = {s1, s2}
    Stops = {}
    Kills = {}
    Rms = {}
    Waits = {w1}
    AutoRms = {}
    Attaches = {}
    Interactive = {}
    ById = {}
    Tty = {}
    Stale = {}
    Impatient = {}
    Fates = {"running", "ready", "exited"}
    MaxFaults = 0
    MaxRestarts = 0
    Names <- OneName
    DockerName <- Named
    PodName <- ToPodWeb
    HostPort <- Publishing
    Ref <- ByPodName
INVARIANTS
    StartedIsSignalled
\* A run ends when every request was served.
CHECK_DEADLOCK FALSE
