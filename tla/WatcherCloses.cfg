\* A pod that is killed and posted again between a poll of its watcher and the close.
SPECIFICATION Spec
CONSTANTS
    Web = web
    Alias = Web_
    Port = p8080
    None = none
    Creates = {c1}
    Starts = {s1, s2}
    Stops = {}
    Kills = {k1}
    Rms = {}
    Waits = {}
    AutoRms = {}
    Attaches = {}
    Interactive = {}
    ById = {}
    Tty = {}
    Stale = {}
    Impatient = {}
    Fates = {"running", "ready"}
    MaxFaults = 0
    MaxRestarts = 0
    Names <- OneName
    DockerName <- Named
    PodName <- ToPodWeb
    HostPort <- Publishing
    Ref <- ByPodName
PROPERTIES
    WatcherSparesRunning
\* A run ends when every request was served.
CHECK_DEADLOCK FALSE
