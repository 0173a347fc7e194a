\* Two /start of one container, a /kill and a failed apiserver call, under fairness:
\* where the listeners of the host port end up.
SPECIFICATION FairSpec
CONSTANTS
    Web = web
    Alias = Web_
    Port = p8080
    None = none
    Creates = {c1}
    Starts = {s1, s2}
    Stops = {}
    Kills = {k1}
    Rms = {}
    Waits = {}
    AutoRms = {}
    Attaches = {}
    Interactive = {}
    ById = {}
    Tty = {}
    Stale = {}
    Impatient = {}
    Fates = {"running", "ready", "exited"}
    MaxFaults = 1
    MaxRestarts = 0
    Names <- OneName
    DockerName <- Named
    PodName <- ToPodWeb
    HostPort <- Publishing
    Ref <- ByPodName
PROPERTIES
    HostPortReleased
\* A run ends when every request was served.
CHECK_DEADLOCK FALSE
