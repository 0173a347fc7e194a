\* An anonymous TTY container with an /attach and an impatient --rm /wait, beside two
\* /start of which one may fail, under fairness.
SPECIFICATION FairSpec
CONSTANTS
    Web = web
    Alias = Web_
    Port = p8080
    None = none
    Creates = {c1}
    Starts = {s1, s2}
    Stops = {}
    Kills = {}
    Rms = {}
    Waits = {}
    AutoRms = {a1}
    Attaches = {t1}
    Interactive = {t1}
    ById = {a1, t1}
    Tty = {c1}
    Stale = {}
    Impatient = {a1}
    Fates = {"running", "ready", "stuck", "exited", "succeeded"}
    MaxFaults = 1
    MaxRestarts = 0
    Names <- OneName
    DockerName <- Nameless
    PodName <- ToPodWeb
    HostPort <- NotPublishing
    Ref <- ByPodName
PROPERTIES
    StartReleasesWaiters
\* A run ends when every request was served.
CHECK_DEADLOCK FALSE
