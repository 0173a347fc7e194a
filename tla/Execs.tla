------------------------------- MODULE Execs -------------------------------
(***************************************************************************)
(* Exec sessions (internal/server/exec.go): /containers/{id}/exec stores   *)
(* one, /exec/{id}/start runs it over a hijacked connection and records    *)
(* how it ended, /exec/{id}/json reads that back.  The docker CLI reads    *)
(* the stream to its end and then inspects, to exit as the command did.    *)
(*                                                                         *)
(* A request <<e, t>> is the t-th /start sent for the session e: nothing   *)
(* in the code keeps a session from being started twice.                   *)
(***************************************************************************)
EXTENDS Naturals

CONSTANTS
    Execs,       \* sessions
    Tries,       \* how often a session may be started
    Status,      \* the exit status of a command that fails by itself
    MaxRestarts  \* bound: restarts of the daemon

ASSUME ExecBounds == Status \in Nat \ {0, 1} /\ MaxRestarts \in Nat

ExecStarts == Execs \X Tries
Endings == {"ok", "exited", "broken"}

VARIABLES
    stored,      \* execStore.m: "new", "stored" or "lost"
    running,     \* execInstance.running
    exitCode,    \* execInstance.exitCode
    pc,          \* where each /start is
    ending,      \* how the command a /start ran ended
    restarts

execVars == <<stored, running, exitCode, pc, ending, restarts>>

TypeOK ==
    /\ stored \in [Execs -> {"new", "stored", "lost"}]
    /\ running \in [Execs -> BOOLEAN]
    /\ exitCode \in [Execs -> {0, 1, Status}]
    /\ pc \in [ExecStarts -> {"idle", "hijack", "mark", "exec", "record", "close", "closed", "refused", "cut"}]
    /\ ending \in [ExecStarts -> Endings \cup {"none"}]
    /\ restarts \in 0 .. MaxRestarts

Init ==
    /\ stored = [e \in Execs |-> "new"]
    /\ running = [e \in Execs |-> FALSE]
    /\ exitCode = [e \in Execs |-> 0]
    /\ pc = [s \in ExecStarts |-> "idle"]
    /\ ending = [s \in ExecStarts |-> "none"]
    /\ restarts = 0

Of(s) == s[1]
Moves(s, from, to) == pc[s] = from /\ pc' = [pc EXCEPT ![s] = to]
Session == UNCHANGED <<running, exitCode>>

-----------------------------------------------------------------------------
ExecCreate(e) ==
    /\ stored[e] = "new"
    /\ stored' = [stored EXCEPT ![e] = "stored"]
    /\ Session /\ UNCHANGED <<pc, ending, restarts>>

\* Only a client that was given the session's ID asks for it; after a restart
\* the ID means nothing.
ExecStart(s) ==
    /\ \/ stored[Of(s)] = "stored" /\ Moves(s, "idle", "hijack")
       \/ stored[Of(s)] = "lost" /\ Moves(s, "idle", "refused")
    /\ Session /\ UNCHANGED <<stored, ending, restarts>>

\* The connection is not hijackable, or its client is gone already.
Hijack(s) ==
    /\ Moves(s, "hijack", "mark") \/ Moves(s, "hijack", "refused")
    /\ Session /\ UNCHANGED <<stored, ending, restarts>>

MarkRunning(s) ==
    /\ Moves(s, "mark", "exec")
    /\ running' = [running EXCEPT ![Of(s)] = TRUE]
    /\ UNCHANGED <<stored, exitCode, ending, restarts>>

\* Pods.Exec returns: the command exited, or the stream broke (the pod is gone,
\* the apiserver failed, a write to the client did).
ExecEnds(s) ==
    /\ Moves(s, "exec", "record")
    /\ \E how \in Endings : ending' = [ending EXCEPT ![s] = how]
    /\ Session /\ UNCHANGED <<stored, restarts>>

\* Mutant: a stream that broke counts as 255, as ssh has it.
ExitCode255(how) == CASE how = "ok" -> 0
                      [] how = "exited" -> Status
                      [] how = "broken" -> 255

ExitCodeFromExecErr(how) == CASE how = "ok" -> 0
                              [] how = "exited" -> Status
                              [] how = "broken" -> 1

\* Mutant: the exit code is recorded only of a command that exited by itself.
RecordExited(s) ==
    /\ Moves(s, "record", "close")
    /\ IF ending[s] = "broken"
         THEN Session
         ELSE /\ running' = [running EXCEPT ![Of(s)] = FALSE]
              /\ exitCode' = [exitCode EXCEPT ![Of(s)] = ExitCodeFromExecErr(ending[s])]
    /\ UNCHANGED <<stored, ending, restarts>>

Record(s) ==
    /\ Moves(s, "record", "close")
    /\ running' = [running EXCEPT ![Of(s)] = FALSE]
    /\ exitCode' = [exitCode EXCEPT ![Of(s)] = ExitCodeFromExecErr(ending[s])]
    /\ UNCHANGED <<stored, ending, restarts>>

\* Mutant: the connection is closed as soon as the command ended.
CloseAtEnd(s) ==
    /\ \/ Moves(s, "record", "closed")
       \/ Moves(s, "close", "closed")
    /\ Session /\ UNCHANGED <<stored, ending, restarts>>

\* The deferred Close runs after the outcome is recorded.
CloseConn(s) ==
    /\ Moves(s, "close", "closed")
    /\ Session /\ UNCHANGED <<stored, ending, restarts>>

\* The daemon ends and comes back: sessions are gone, connections are cut.
Restart ==
    /\ restarts < MaxRestarts
    /\ restarts' = restarts + 1
    /\ stored' = [e \in Execs |-> IF stored[e] = "new" THEN "new" ELSE "lost"]
    /\ running' = [e \in Execs |-> FALSE]
    /\ exitCode' = [e \in Execs |-> 0]
    /\ pc' = [s \in ExecStarts |-> IF pc[s] \in {"idle", "closed", "refused"} THEN pc[s] ELSE "cut"]
    /\ UNCHANGED ending

ExecStep(s) == Hijack(s) \/ MarkRunning(s) \/ Record(s) \/ CloseConn(s)

Next ==
    \/ \E e \in Execs : ExecCreate(e)
    \/ \E s \in ExecStarts : ExecStart(s) \/ ExecStep(s) \/ ExecEnds(s)
    \/ Restart

Spec == Init /\ [][Next]_execVars

\* What /exec/{id}/json says of a session; 404, or <<>>, when it is not in the store.
Inspect(e) == IF stored[e] = "stored" THEN <<running[e], exitCode[e]>> ELSE <<>>

-----------------------------------------------------------------------------
Alone(s) == \A other \in ExecStarts \ {s} : Of(other) = Of(s) => pc[other] = "idle"

\* A client whose stream closed and that inspects then is told that its command
\* ended, and how, at once: an inspect never overtakes the recording (unless
\* the session was started twice, exec.go:131-141).
OwnExitCode == \A s \in ExecStarts :
    pc[s] = "closed" /\ Alone(s) =>
        Inspect(Of(s)) \in {<<FALSE, ExitCodeFromExecErr(ending[s])>>, <<>>}

\* A session that is told to be running is being run by some /start, whatever
\* starts, failures and restarts came before: a client that polls until it is
\* over will see it over (exec.go:131-143).
RunningIsRun == \A e \in Execs :
    running[e] => \E t \in Tries : pc[<<e, t>>] \in {"exec", "record"}
=============================================================================
