------------------------ MODULE ContainersProperties ------------------------
(***************************************************************************)
(* What the container handlers promise, as properties of module Containers.*)
(***************************************************************************)
EXTENDS Containers

(***************************************************************************)
(* Invariants.                                                             *)
(***************************************************************************)

\* A registered forwarder has its own watcher, still polling: no order of stop,
\* rm, restart of the same name and earlier watchers leaves a forwarder that
\* nobody will close when its container exits (containers.go:655-683).
WatchedForwarder == \A n \in Names :
    Has(n) => /\ target[registry[n]] = n
              /\ pc[registry[n]] \in {"watchHas", "watchGet", "detach"}

\* A handle that holds a host port is registered, or about to be by the /start
\* that opened it, or about to be closed by the one request that detached it
\* (containers.go:651-655, forwarder.go:38-57).
NoLeakedHandle == \A s \in Starts :
    handle[s] = "open" => \/ pc[s] = "set"
                          \/ registry[target[s]] = s
                          \/ \E r \in Requests : pc[r] = "close" /\ held[r] = s

\* Reserving before the live check closes the race of /create with /start: an
\* entry acknowledged with 201 never sits beside a pod of its name, except until
\* a /start in flight on that name has dropped it (containers.go:211-224).
NoShadowedPod == \A c \in Creates :
    /\ DockerName[c] # None
    /\ reply[c] = "Created"
    /\ Staged(c)
    /\ Exists(PodName[c])
    => \E s \in Starts : /\ target[s] = PodName[c]
                         /\ pc[s] \in {"mark", "unstage", "fail", "unstageFailed"}

(***************************************************************************)
(* Liveness, under FairSpec.                                               *)
(***************************************************************************)

PortHeld(n) == \E s \in Starts : target[s] = n /\ handle[s] = "open"

Over(n) == ~Exists(n) \/ PodTerminated(n)

\* Once every container of a name is over for good, no listener of it stays
\* open, whoever was opening, replacing or closing forwarders when the last one
\* went (Design.md:273, containers.go:661-683).
HostPortReleased == \A n \in Names :
    (<>[]Over(n)) => <>[]~PortHeld(n)

\* A waiter that subscribed to a pending entry goes on once a /start of that
\* entry reached the apiserver: the signal does not wait for readiness, which a
\* TTY pod gets only from the attach that waits (containers.go:239-243).
StartReleasesWaiters == \A w \in Waiters \cup Attaches :
    pc[w] = "await" /\ (\E s \in Starts : pc[s] = "post" /\ entry[s] = entry[w])
        ~> pc[w] # "await"

-----------------------------------------------------------------------------
(***************************************************************************)
(* The life of a container: what is in the store, what a /start holds of   *)
(* it, and the pods, as module ContainerLife sees them.                    *)
(***************************************************************************)
StageOf(c) == CASE Staged(c) -> "staged"
                [] ~Staged(c) /\ signal[c] = "unborn" -> "unborn"
                [] ~Staged(c) /\ signal[c] # "unborn" -> "dropped"

ClaimOf(s) == IF At(s, "post") THEN entry[s] ELSE None
AliveAs(n) == IF Exists(n) THEN pods[n].spec ELSE None

Life == INSTANCE ContainerLife WITH
    stage <- [c \in Creates |-> StageOf(c)],
    claim <- [s \in Starts |-> ClaimOf(s)],
    alive <- [n \in Names |-> AliveAs(n)]

\* A dropped container can become a pod only by a /start that read it before the
\* drop: no order of /create, /start, removals, expiries, failures and restarts
\* brings one back otherwise (containers.go:163-272, 370-427).
LifeCycle == Life!LifeSpec

\* And one that is in no /start's hands either is gone for good.
NeverComesBack == Life!StaysEnded

-----------------------------------------------------------------------------
(***************************************************************************)
(* What the repository's texts say and the code does not do: each one is   *)
(* refuted by a run of its own.                                            *)
(***************************************************************************)

\* "/start signals waiters as soon as pods.Create succeeds" (Design.md:294).
StartedIsSignalled == \A s \in Starts :
    pc[s] = "unstage" => signal[entry[s]] = "started"

DialsRunning(n) == Running(n) /\ Has(n) /\ upstream[registry[n]] = pods[n].uid

\* The watcher "closes the forwarder when the container terminates or the pod is
\* gone" (Design.md:273): it does not take the one that dials a running pod.
WatcherSparesRunning == [][\A s \in Starts :
    pc[s] = "detach" /\ pc'[s] = "close" => ~DialsRunning(target[s])]_vars
=============================================================================
