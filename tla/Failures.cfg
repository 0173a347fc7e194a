\* One container whose --name differs from its pod name and whose hour may pass, two
\* /start and a /stop, with a failed apiserver call, a pod that may not come up, and a
\* daemon restart.
SPECIFICATION Spec
CONSTANTS
    Web = web
    Alias = Web_
    Port = p8080
    None = none
    Creates = {c1}
    Starts = {s1, s2}
    Stops = {p1}
    Kills = {}
    Rms = {}
    Waits = {}
    AutoRms = {}
    Attaches = {}
    Interactive = {}
    ById = {p1}
    Tty = {}
    Stale = {c1}
    Impatient = {}
    Fates = {"running", "ready", "stuck"}
    MaxFaults = 1
    MaxRestarts = 1
    Names <- TwoNames
    DockerName <- Aliased
    PodName <- ToPodWeb
    HostPort <- Publishing
    Ref <- StartByAlias
PROPERTIES
    NeverComesBack
    PendingSpec
    RegistrySpec
\* A run ends when every request was served.
CHECK_DEADLOCK FALSE
