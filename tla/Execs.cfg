\* Two sessions, each started up to twice, and a restart.
SPECIFICATION Spec
CONSTANTS
    Execs = {e1, e2}
    Tries = {t1, t2}
    Status = 7
    MaxRestarts = 1
INVARIANTS
    TypeOK
    OwnExitCode
    RunningIsRun
\* A run ends when every request was answered.
CHECK_DEADLOCK FALSE
