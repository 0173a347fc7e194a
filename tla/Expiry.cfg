\* Two /create whose --names sanitize to one pod name, a /start and a DELETE by the
\* second name, and an observer, while the hour of the first may pass at any point
\* and an apiserver call may fail.
SPECIFICATION ObserversSpec
CONSTANTS
    Web = web
    Alias = Web_
    Port = p8080
    None = none
    Unknown = unknown
    Creates = {c1, c2}
    Starts = {s1}
    Stops = {}
    Kills = {}
    Rms = {m1}
    Waits = {}
    AutoRms = {}
    Attaches = {}
    Interactive = {}
    Observers = {o1}
    ById = {}
    Tty = {}
    Stale = {c1, c2}
    Impatient = {s1}
    Fates = {"running"}
    MaxFaults = 1
    MaxRestarts = 0
    Names <- TwoNames
    DockerName <- NamedOrAliased
    PodName <- ToPodWeb
    HostPort <- NotPublishing
    Ref <- ByAlias
    Sought <- SeekAlias
INVARIANTS
    ObserversTypeOK
    NoShadowedPod
PROPERTIES
    SignalOnce
    NoDisplacement
    NoFalseNotFound
    ListedOnce
\* A run ends when every request was served.
CHECK_DEADLOCK FALSE
