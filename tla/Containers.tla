----------------------------- MODULE Containers -----------------------------
(***************************************************************************)
(* The container handlers of internal/server/containers.go: the requests   *)
(* of one run of the API, each served by a goroutine of its own, over the  *)
(* pending store, the forwarder registry and the cluster.  A step is what  *)
(* a goroutine does between two points where another may run: one critical *)
(* section, one apiserver call, or one port operation.                     *)
(*                                                                         *)
(* A /start that opened a forwarder spawns its watcher and replies in one  *)
(* step; from there its place in pc is the watcher's.                      *)
(***************************************************************************)
EXTENDS Naturals, PendingStore, ForwarderRegistry, Cluster

CONSTANTS
    Stops, Kills, Rms,           \* /stop, /kill and DELETE requests
    Waits, AutoRms,              \* /wait requests, and those with condition=removed
    Attaches, Interactive,       \* /attach requests, and those with stdin=1
    Ref,                         \* the {id} of each request but /create
    ById,                        \* requests whose {id} is the container's ID, not its name
    HostPort,                    \* the host port each entry publishes, None if it publishes none
    Tty,                         \* entries whose container is Ready only once attached to
    Impatient,                   \* requests whose deadline or client may run out
    MaxFaults, MaxRestarts       \* bounds: failed apiserver calls, daemon restarts

Removers == Stops \cup Kills \cup Rms
Waiters == Waits \cup AutoRms
Clients == Starts \cup Removers \cup Waiters \cup Attaches
Requests == Creates \cup Clients

ASSUME RequestKinds ==
    /\ Creates \cap Clients = {}
    /\ Starts \cap (Removers \cup Waiters \cup Attaches) = {}
    /\ Removers \cap (Waiters \cup Attaches) = {}
    /\ Waiters \cap Attaches = {}
    /\ Rms \cap (Stops \cup Kills) = {} /\ Stops \cap Kills = {} /\ Waits \cap AutoRms = {}
    /\ None \notin Requests
    /\ Interactive \subseteq Attaches
    /\ Ref \in [Clients -> Names]
    /\ ById \subseteq Clients
    /\ Tty \subseteq Creates
    /\ Impatient \subseteq Requests
    /\ MaxFaults \in Nat /\ MaxRestarts \in Nat

VARIABLES
    pc,       \* where each request's goroutine is
    entry,    \* the pendingContainer a request holds, or the spec of the pod it found
    target,   \* the pod name it works on
    held,     \* the handle it took out of the registry and has to close
    upstream, \* the pod (by UID) whose address a handle's Open resolved
    reply,    \* what the client was told, None until then
    faults, restarts

vars == <<store, signal, expired, registry, handle, pods,
          pc, entry, target, held, upstream, reply, faults, restarts>>
requestVars == <<pc, entry, target, held, upstream, reply>>
bounds == <<faults, restarts>>

Labels == {"idle", "check", "conflict", "find", "scan", "post", "mark", "unstage", "fail", "unstageFailed",
           "poll", "has", "resolve", "listen", "set", "watchHas", "watchGet",
           "markRemoved", "drop", "detach", "close", "delete",
           "await", "exitPoll", "startPoll", "attached", "streaming", "done"}

\* "Unchecked" is 201 after a Get that failed, "NoPod" 204 for a DELETE that
\* found nothing, "PortInUse" 500 from a listen, "Ended" a stream or a wait that
\* closes without an exit code, "Lost" no answer: the daemon ended.
Replies == {"Created", "Unchecked", "Conflict", "NoContent", "NoPod", "NotFound", "Error",
            "PortInUse", "ExitCode", "Gone", "Ended", "Lost"}

ASSUME NoneIsNoAnswer == None \notin Replies

TypeOK ==
    /\ PendingTypeOK
    /\ RegistryTypeOK
    /\ ClusterTypeOK
    /\ pc \in [Requests -> Labels]
    /\ entry \in [Requests -> Creates \cup {None}]
    /\ target \in [Requests -> Names \cup {None}]
    /\ held \in [Requests -> Starts \cup {None}]
    /\ upstream \in [Starts -> Starts \cup {None}]
    /\ reply \in [Requests -> Replies \cup {None}]
    /\ faults \in 0 .. MaxFaults
    /\ restarts \in 0 .. MaxRestarts

Init ==
    /\ PendingInit
    /\ RegistryInit
    /\ ClusterInit
    /\ pc = [r \in Requests |-> "idle"]
    /\ entry = [r \in Requests |-> None]
    /\ target = [r \in Requests |-> None]
    /\ held = [r \in Requests |-> None]
    /\ upstream = [s \in Starts |-> None]
    /\ reply = [r \in Requests |-> None]
    /\ faults = 0
    /\ restarts = 0

-----------------------------------------------------------------------------
\* One step of request r's goroutine, and the answer it may give with it.
At(r, label) == pc[r] = label
Goto(r, label) == pc' = [pc EXCEPT ![r] = label]
Reply(r, code) == reply' = [reply EXCEPT ![r] = code]
Silent == UNCHANGED reply
Finish(r, code) == Goto(r, "done") /\ Reply(r, code)
Resolved(r, c, n) == entry' = [entry EXCEPT ![r] = c] /\ target' = [target EXCEPT ![r] = n]

\* An apiserver call fails, or the client whose context it runs under is gone.
Fault == faults < MaxFaults /\ faults' = faults + 1 /\ UNCHANGED restarts

Here == UNCHANGED <<entry, target, held, upstream>>     \* the request's own data
Store == UNCHANGED pendingVars
Forwards == UNCHANGED registryVars
World == UNCHANGED pods

OpenPorts == {HostPort[entry[s]] : s \in {t \in Starts : handle[t] = "open"}}

-----------------------------------------------------------------------------
(***************************************************************************)
(* /create (163-225): reserve, then look for a live pod of that name.      *)
(* Decoding, Build and the port allocation come before any shared state.   *)
(***************************************************************************)
CreateReserve(c) ==
    /\ At(c, "idle")
    /\ Reserve(c) /\ UNCHANGED expired
    /\ IF DockerName[c] = None THEN Finish(c, "Created") ELSE Goto(c, "check") /\ Silent
    /\ Here /\ Forwards /\ World /\ UNCHANGED bounds

CreateRefused(c) ==
    /\ At(c, "idle")
    /\ Refuse(c) /\ UNCHANGED expired
    /\ Finish(c, "Conflict")
    /\ Here /\ Forwards /\ World /\ UNCHANGED bounds

\* Mutant: a pod that does not run yet is no conflict.
CreateCheckRunning(c) ==
    /\ At(c, "check")
    /\ IF Running(PodName[c]) THEN Goto(c, "conflict") /\ Silent ELSE Finish(c, "Created")
    /\ Here /\ Store /\ Forwards /\ World /\ UNCHANGED bounds

CreateCheck(c) ==
    /\ At(c, "check")
    /\ IF Exists(PodName[c]) THEN Goto(c, "conflict") /\ Silent ELSE Finish(c, "Created")
    /\ Here /\ Store /\ Forwards /\ World /\ UNCHANGED bounds

\* Any error of the Get passes for "no such pod".
CreateCheckFails(c) ==
    /\ At(c, "check")
    /\ Fault
    /\ Finish(c, "Unchecked")
    /\ Here /\ Store /\ Forwards /\ World

CreateConflict(c) ==
    /\ At(c, "conflict")
    /\ Remove(PodName[c]) /\ UNCHANGED <<signal, expired>>
    /\ Finish(c, "Conflict")
    /\ Here /\ Forwards /\ World /\ UNCHANGED bounds

-----------------------------------------------------------------------------
(***************************************************************************)
(* Every other handler resolves {id} first: getByRef on the pending store, *)
(* then FindByID on the cluster, two calls of the apiserver.               *)
(***************************************************************************)
WithEntry(r) == CASE r \in Starts -> "post"
                  [] r \in Removers -> "markRemoved"
                  [] r \in Waiters \cup Attaches -> "await"

WithPod(r) == CASE r \in Starts -> "poll"
                [] r \in Removers -> "detach"
                [] r \in Waiters -> "exitPoll"
                [] r \in Attaches -> "startPoll"

Lookup(r) ==
    /\ At(r, "idle")
    /\ \E c \in Creates \cup {None} :
          /\ GetByRef(Ref[r], c) /\ UNCHANGED expired
          /\ IF c = None
               THEN Goto(r, "find") /\ UNCHANGED <<entry, target>>
               ELSE Goto(r, WithEntry(r)) /\ Resolved(r, c, PodName[c])
    /\ Silent /\ UNCHANGED <<held, upstream>> /\ Forwards /\ World /\ UNCHANGED bounds

\* FindByID's first half, a Get by pod name, settles it unless {id} is an ID.
Find(r) ==
    /\ At(r, "find")
    /\ IF Exists(Ref[r]) /\ r \notin ById
         THEN Goto(r, WithPod(r)) /\ Resolved(r, pods[Ref[r]].spec, Ref[r])
         ELSE Goto(r, "scan") /\ UNCHANGED <<entry, target>>
    /\ Silent /\ UNCHANGED <<held, upstream>> /\ Store /\ Forwards /\ World /\ UNCHANGED bounds

\* Any error of that Get passes for "no pod of that name".
FindFails(r) ==
    /\ At(r, "find")
    /\ Fault
    /\ Goto(r, "scan")
    /\ Silent /\ Here /\ Store /\ Forwards /\ World

\* Its second half: the pods of a List that match, the first of them wins.
Matching(r) == {n \in Names : /\ Exists(n)
                              /\ DockerName[pods[n].spec] = Ref[r] \/ (r \in ById /\ n = Ref[r])}

Scan(r) ==
    /\ At(r, "scan")
    /\ \/ /\ Matching(r) = {}
          /\ Finish(r, IF r \in Rms THEN "NoPod" ELSE "NotFound")
          /\ UNCHANGED <<entry, target>>
       \/ \E n \in Matching(r) :
             Goto(r, WithPod(r)) /\ Resolved(r, pods[n].spec, n) /\ Silent
    /\ UNCHANGED <<held, upstream>> /\ Store /\ Forwards /\ World /\ UNCHANGED bounds

ScanFails(r) ==
    /\ At(r, "scan")
    /\ Fault
    /\ Finish(r, "Error")
    /\ Here /\ Store /\ Forwards /\ World

-----------------------------------------------------------------------------
(***************************************************************************)
(* /start (227-272) of a pending entry: POST the pod, signal the waiters,  *)
(* drop the entry, and only then wait for readiness.                       *)
(***************************************************************************)
StartPost(s) ==
    /\ At(s, "post")
    /\ \/ Post(target[s], s, entry[s]) /\ Goto(s, "mark")
       \/ Exists(target[s]) /\ World /\ Goto(s, "fail")      \* AlreadyExists
    /\ Silent /\ Here /\ Store /\ Forwards /\ UNCHANGED bounds

\* The POST fails, or its answer is lost after it took effect.
StartPostFails(s) ==
    /\ At(s, "post")
    /\ Fault
    /\ World \/ Post(target[s], s, entry[s])
    /\ Goto(s, "fail")
    /\ Silent /\ Here /\ Store /\ Forwards

\* Mutant: the waiters are signalled once the pod is ready.
StartMarkWhenReady(s) ==
    /\ At(s, "mark")
    /\ DoneStarting(target[s]) \/ ~Exists(target[s])
    /\ MarkStarted(entry[s]) /\ UNCHANGED <<store, expired>>
    /\ Goto(s, "unstage")
    /\ Silent /\ Here /\ Forwards /\ World /\ UNCHANGED bounds

\* Mutant: the entry is set started whatever became of it.
StartMarkAnyway(s) ==
    /\ At(s, "mark")
    /\ signal' = [signal EXCEPT ![entry[s]] = "started"]
    /\ Goto(s, "unstage")
    /\ Silent /\ Here /\ UNCHANGED <<store, expired>> /\ Forwards /\ World /\ UNCHANGED bounds

StartMark(s) ==
    /\ At(s, "mark")
    /\ MarkStarted(entry[s]) /\ UNCHANGED <<store, expired>>
    /\ Goto(s, "unstage")
    /\ Silent /\ Here /\ Forwards /\ World /\ UNCHANGED bounds

\* Mutant: a started entry is left for the reaper to take.
StartUnstageLater(s) ==
    /\ At(s, "unstage")
    /\ Goto(s, "poll")
    /\ Silent /\ Here /\ Store /\ Forwards /\ World /\ UNCHANGED bounds

StartUnstage(s) ==
    /\ At(s, "unstage")
    /\ Remove(target[s]) /\ UNCHANGED <<signal, expired>>
    /\ Goto(s, "poll")
    /\ Silent /\ Here /\ Forwards /\ World /\ UNCHANGED bounds

StartMarkFailed(s) ==
    /\ At(s, "fail")
    /\ MarkFailed(entry[s], "error") /\ UNCHANGED <<store, expired>>
    /\ Goto(s, "unstageFailed")
    /\ Silent /\ Here /\ Forwards /\ World /\ UNCHANGED bounds

\* Mutant: after a failed POST the entry is staged again, for another /start.
StartUnstageKeeps(s) ==
    /\ At(s, "unstageFailed")
    /\ store' = [store EXCEPT ![target[s]] = entry[s]] /\ UNCHANGED <<signal, expired>>
    /\ Finish(s, "Error")
    /\ Here /\ Forwards /\ World /\ UNCHANGED bounds

StartUnstageFailed(s) ==
    /\ At(s, "unstageFailed")
    /\ Remove(target[s]) /\ UNCHANGED <<signal, expired>>
    /\ Finish(s, "Error")
    /\ Here /\ Forwards /\ World /\ UNCHANGED bounds

(***************************************************************************)
(* ensureRunning (630-659): WaitForReady, Has, Open, Set, and the watcher. *)
(***************************************************************************)
\* Mutant: a pod that vanished while it was waited for is posted again.
StartPollReposts(s) ==
    /\ At(s, "poll")
    /\ \/ ~Exists(target[s]) /\ Goto(s, "post") /\ Silent
       \/ DoneStarting(target[s]) /\ Goto(s, "has") /\ Silent
       \/ In(target[s], {"stuck", "failed"}) /\ Finish(s, "Error")
    /\ Here /\ Store /\ Forwards /\ World /\ UNCHANGED bounds

StartPoll(s) ==
    /\ At(s, "poll")
    /\ \/ ~Exists(target[s]) /\ Finish(s, "NoContent")
       \/ DoneStarting(target[s]) /\ Goto(s, "has") /\ Silent
       \/ In(target[s], {"stuck", "failed"}) /\ Finish(s, "Error")
    /\ Here /\ Store /\ Forwards /\ World /\ UNCHANGED bounds

StartHas(s) ==
    /\ At(s, "has")
    /\ IF Has(target[s]) \/ HostPort[entry[s]] = None
         THEN Finish(s, "NoContent")
         ELSE Goto(s, "resolve") /\ Silent
    /\ Here /\ Store /\ Forwards /\ World /\ UNCHANGED bounds

\* Open reads the pod again; one that is starting may have no address yet.
StartResolve(s) ==
    /\ At(s, "resolve")
    /\ \/ /\ Exists(target[s])
          /\ upstream' = [upstream EXCEPT ![s] = pods[target[s]].uid]
          /\ Goto(s, "listen") /\ Silent
       \/ /\ ~Exists(target[s]) \/ In(target[s], {"starting"})
          /\ Finish(s, "Error") /\ UNCHANGED upstream
    /\ UNCHANGED <<entry, target, held>> /\ Store /\ Forwards /\ World /\ UNCHANGED bounds

StartListen(s) ==
    /\ At(s, "listen")
    /\ IF HostPort[entry[s]] \in OpenPorts
         THEN Finish(s, "PortInUse") /\ Forwards
         ELSE Listen(s) /\ UNCHANGED registry /\ Goto(s, "set") /\ Silent
    /\ Here /\ Store /\ World /\ UNCHANGED bounds

StartSet(s) ==
    /\ At(s, "set")
    /\ Set(target[s], s)
    /\ Goto(s, "watchHas") /\ Reply(s, "NoContent")
    /\ Here /\ Store /\ World /\ UNCHANGED bounds

\* WaitForReady's Get or Open's fails, or a listener outside the daemon has the port.
StartFails(s) ==
    /\ pc[s] \in {"poll", "resolve", "listen"}
    /\ Fault
    /\ Finish(s, "Error")
    /\ Here /\ Store /\ Forwards /\ World

-----------------------------------------------------------------------------
(***************************************************************************)
(* watchPodForCleanup (661-683): poll until the container is done.         *)
(***************************************************************************)
WatchHas(s) ==
    /\ At(s, "watchHas")
    /\ Goto(s, IF Has(target[s]) THEN "watchGet" ELSE "done")
    /\ Silent /\ Here /\ Store /\ Forwards /\ World /\ UNCHANGED bounds

\* Mutant: the watcher of a pod that is gone has nothing left to close.
WatchGetLeaves(s) ==
    /\ At(s, "watchGet")
    /\ Goto(s, CASE ~Exists(target[s]) -> "done"
                 [] PodTerminated(target[s]) -> "detach"
                 [] OTHER -> "watchHas")
    /\ Silent /\ Here /\ Store /\ Forwards /\ World /\ UNCHANGED bounds

WatchGet(s) ==
    /\ At(s, "watchGet")
    /\ Goto(s, IF ~Exists(target[s]) \/ PodTerminated(target[s]) THEN "detach" ELSE "watchHas")
    /\ Silent /\ Here /\ Store /\ Forwards /\ World /\ UNCHANGED bounds

\* Mutant: a failed Get ends the watcher.
WatchGetFailsOnce(s) ==
    /\ At(s, "watchGet")
    /\ Fault
    /\ Goto(s, "done")
    /\ Silent /\ Here /\ Store /\ Forwards /\ World

\* A failed Get is tolerated: the watcher polls on.
WatchGetFails(s) ==
    /\ At(s, "watchGet")
    /\ Fault
    /\ Goto(s, "watchHas")
    /\ Silent /\ Here /\ Store /\ Forwards /\ World

(***************************************************************************)
(* Registry.Close, from a watcher (the last thing it does) or from a       *)
(* handler that goes on to delete the pod.                                 *)
(***************************************************************************)
AfterClose(r) == IF r \in Starts THEN "done" ELSE "delete"

\* Mutant: Close leaves the entry in the map.
DetachNothing(r) ==
    /\ At(r, "detach")
    /\ held' = [held EXCEPT ![r] = registry[target[r]]]
    /\ Goto(r, IF Has(target[r]) THEN "close" ELSE AfterClose(r))
    /\ Silent /\ UNCHANGED <<entry, target, upstream>> /\ Store /\ Forwards /\ World /\ UNCHANGED bounds

DetachForwarder(r) ==
    /\ At(r, "detach")
    /\ Detach(target[r]) /\ UNCHANGED handle
    /\ held' = [held EXCEPT ![r] = registry[target[r]]]
    /\ Goto(r, IF Has(target[r]) THEN "close" ELSE AfterClose(r))
    /\ Silent /\ UNCHANGED <<entry, target, upstream>> /\ Store /\ World /\ UNCHANGED bounds

CloseForwarder(r) ==
    /\ At(r, "close")
    /\ CloseHandle(held[r]) /\ UNCHANGED registry
    /\ held' = [held EXCEPT ![r] = None]
    /\ Goto(r, AfterClose(r))
    /\ Silent /\ UNCHANGED <<entry, target, upstream>> /\ Store /\ World /\ UNCHANGED bounds

-----------------------------------------------------------------------------
(***************************************************************************)
(* /stop, /kill and DELETE (370-427): drop a pending entry, or close the   *)
(* forwarder and delete the pod.                                           *)
(***************************************************************************)
MarkRemoved(r) ==
    /\ At(r, "markRemoved")
    /\ MarkFailed(entry[r], "removed") /\ UNCHANGED <<store, expired>>
    /\ Goto(r, "drop")
    /\ Silent /\ Here /\ Forwards /\ World /\ UNCHANGED bounds

DropEntry(r) ==
    /\ At(r, "drop")
    /\ Remove(target[r]) /\ UNCHANGED <<signal, expired>>
    /\ Finish(r, "NoContent")
    /\ Here /\ Forwards /\ World /\ UNCHANGED bounds

Deleted(r) == IF r \in AutoRms THEN "ExitCode" ELSE "NoContent"

\* /stop has a grace period unless t=0; the others have none.
DeletePod(r) ==
    /\ At(r, "delete")
    /\ \/ ~Exists(target[r]) /\ World
       \/ Exists(target[r]) /\ Gone(target[r])
       \/ r \in Stops /\ Exists(target[r]) /\ Terminating(target[r])
    /\ Finish(r, Deleted(r))
    /\ Here /\ Store /\ Forwards /\ UNCHANGED bounds

\* The DELETE fails, or its answer is lost; /wait does not look.
DeletePodFails(r) ==
    /\ At(r, "delete")
    /\ Fault
    /\ World \/ (Exists(target[r]) /\ Gone(target[r]))
    /\ Finish(r, IF r \in AutoRms THEN "ExitCode" ELSE "Error")
    /\ Here /\ Store /\ Forwards

-----------------------------------------------------------------------------
(***************************************************************************)
(* /wait (274-350) and /attach (71-161): wait for the signal of a pending  *)
(* entry, then follow the pod of that name.                                *)
(***************************************************************************)
AfterStart(r) == IF r \in Waiters THEN "exitPoll" ELSE "startPoll"

AwaitStart(r) ==
    /\ At(r, "await")
    /\ signal[entry[r]] # "open"
    /\ IF signal[entry[r]] = "started" THEN Goto(r, AfterStart(r)) /\ Silent
                                       ELSE Finish(r, "Ended")
    /\ Here /\ Store /\ Forwards /\ World /\ UNCHANGED bounds

PollExit(r) ==
    /\ At(r, "exitPoll")
    /\ \/ ~Exists(target[r]) /\ Finish(r, "Gone")
       \/ /\ PodTerminated(target[r])
          /\ IF r \in AutoRms THEN Goto(r, "detach") /\ Silent ELSE Finish(r, "ExitCode")
    /\ Here /\ Store /\ Forwards /\ World /\ UNCHANGED bounds

\* waitForContainerStarted; a terminated container is followed by its logs.
PollStarted(r) ==
    /\ At(r, "startPoll")
    /\ \/ (~Exists(target[r]) \/ Fatal(target[r])) /\ Finish(r, "Ended")
       \/ /\ Running(target[r])
          /\ Goto(r, IF r \in Interactive THEN "attached" ELSE "streaming")
          /\ Silent
       \/ PodTerminated(target[r]) /\ Goto(r, "streaming") /\ Silent
    /\ Here /\ Store /\ Forwards /\ World /\ UNCHANGED bounds

StreamEnds(r) ==
    /\ pc[r] \in {"attached", "streaming"}
    /\ ~Running(target[r])
    /\ Finish(r, "Ended")
    /\ Here /\ Store /\ Forwards /\ World /\ UNCHANGED bounds

FollowFails(r) ==
    /\ pc[r] \in {"exitPoll", "startPoll", "attached", "streaming"}
    /\ Fault
    /\ Finish(r, "Ended")
    /\ Here /\ Store /\ Forwards /\ World

\* A deadline passes (the start timeouts of /attach and /wait, WaitForReady's),
\* or the client of a /wait or an /attach leaves.
GiveUp(r) ==
    /\ r \in Impatient
    /\ \/ /\ pc[r] \in {"await", "exitPoll", "startPoll", "attached", "streaming"}
          /\ Finish(r, "Ended")
       \/ pc[r] = "poll" /\ Finish(r, "Error")
    /\ Here /\ Store /\ Forwards /\ World /\ UNCHANGED bounds

-----------------------------------------------------------------------------
(***************************************************************************)
(* The cluster, time, and the end of the process.                          *)
(***************************************************************************)
Undisturbed == UNCHANGED <<pendingVars, registryVars, requestVars, bounds>>

\* The kubelet makes a TTY container Ready only once someone attached to it.
KubeletReady(n) ==
    /\ Exists(n) /\ pods[n].spec \in Tty => \E a \in Attaches : At(a, "attached") /\ target[a] = n
    /\ ContainerReady(n)

Kubelet(n) ==
    /\ \/ ContainerStarts(n)
       \/ ContainerSticks(n)
       \/ KubeletReady(n)
       \/ ContainerExits(n)
       \/ PhaseSettles(n)
       \/ Reclaimed(n)
    /\ Undisturbed

Evict(n) == Evicted(n) /\ Undisturbed

TimePasses(c) ==
    /\ Age(c) /\ UNCHANGED <<store, signal>>
    /\ Forwards /\ World /\ UNCHANGED <<requestVars, bounds>>

\* The daemon crashes or is stopped (cmd/docker-in-kubernetes/main.go, 102-119)
\* and comes back: memory, goroutines and listeners are lost, the pods are not.
Restart ==
    /\ restarts < MaxRestarts
    /\ restarts' = restarts + 1
    /\ Forget /\ UNCHANGED <<signal, expired>>
    /\ Shutdown
    /\ pc' = [r \in Requests |-> IF At(r, "idle") THEN "idle" ELSE "done"]
    /\ reply' = [r \in Requests |-> IF At(r, "idle") \/ reply[r] # None THEN reply[r] ELSE "Lost"]
    /\ held' = [r \in Requests |-> None]
    /\ UNCHANGED <<pods, entry, target, upstream, faults>>

-----------------------------------------------------------------------------
\* A request arrives when its client sends it; all its other steps are the daemon's.
Arrive(r) ==
    \/ r \in Creates /\ (CreateReserve(r) \/ CreateRefused(r))
    \/ r \in Clients /\ Lookup(r)

CreateStep(c) == CreateCheck(c) \/ CreateConflict(c)

StartStep(s) ==
    \/ StartPost(s) \/ StartMark(s) \/ StartUnstage(s)
    \/ StartMarkFailed(s) \/ StartUnstageFailed(s)
    \/ StartPoll(s) \/ StartHas(s) \/ StartResolve(s) \/ StartListen(s) \/ StartSet(s)
    \/ WatchHas(s) \/ WatchGet(s)

RemoveStep(r) == MarkRemoved(r) \/ DropEntry(r)

CloseStep(r) == DetachForwarder(r) \/ CloseForwarder(r)

FollowStep(r) == AwaitStart(r) \/ StreamEnds(r)

Step(r) ==
    \/ r \in Creates /\ CreateStep(r)
    \/ r \in Clients /\ (Find(r) \/ Scan(r))
    \/ r \in Starts /\ StartStep(r)
    \/ r \in Removers /\ RemoveStep(r)
    \/ r \in Starts \cup Removers \cup AutoRms /\ CloseStep(r)
    \/ r \in Removers \cup AutoRms /\ DeletePod(r)
    \/ r \in Waiters \cup Attaches /\ FollowStep(r)
    \/ r \in Waiters /\ PollExit(r)
    \/ r \in Attaches /\ PollStarted(r)

Mishap(r) ==
    \/ r \in Creates /\ CreateCheckFails(r)
    \/ r \in Clients /\ (FindFails(r) \/ ScanFails(r))
    \/ r \in Starts /\ (StartPostFails(r) \/ StartFails(r) \/ WatchGetFails(r))
    \/ r \in Removers \cup AutoRms /\ DeletePodFails(r)
    \/ r \in Waiters \cup Attaches /\ FollowFails(r)
    \/ GiveUp(r)

Next ==
    \/ \E r \in Requests : Arrive(r) \/ Step(r) \/ Mishap(r)
    \/ \E n \in Names : Kubelet(n) \/ Evict(n)
    \/ \E c \in Creates : TimePasses(c)
    \/ Restart

Spec == Init /\ [][Next]_vars

\* Goroutines are scheduled, polls come round and apiserver calls answer: every
\* step the daemon can take it takes.  Nothing is assumed of clients, of the
\* kubelet, of faults or of time.
FairSpec == Spec /\ \A r \in Requests : WF_vars(Step(r))
=============================================================================
