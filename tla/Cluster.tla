------------------------------ MODULE Cluster ------------------------------
(***************************************************************************)
(* The pods of the namespace, as internal/k8s/pods.go reads and writes     *)
(* them: the apiserver and the kubelet are outside the repository.  A pod  *)
(* carries the /start whose POST made it (its UID), the entry whose spec   *)
(* it runs, and the part of its status the daemon looks at:                *)
(*   starting   no container status, or a waiting one that may recover     *)
(*   stuck      a fatal waiting reason (ImagePullBackOff and its like)     *)
(*   running    the container runs, the pod is not Ready                   *)
(*   ready      the container runs and the Ready condition is True         *)
(*   exited     State.Terminated is set, the phase still says Running      *)
(*   succeeded, failed    the final phases                                 *)
(***************************************************************************)
EXTENDS Identities

CONSTANT Fates   \* the phases the kubelet brings pods to: a bound of the model

VARIABLE pods    \* the pod of each name

Phases == {"starting", "stuck", "running", "ready", "exited", "succeeded", "failed"}

ASSUME FatesArePhases == Fates \subseteq Phases
ASSUME NoneIsNoPod ==
    None \notin [uid : Starts, spec : Creates, phase : Phases, deleting : BOOLEAN]

ClusterTypeOK ==
    pods \in [Names -> [uid : Starts, spec : Creates, phase : Phases, deleting : BOOLEAN]
                        \cup {None}]

ClusterInit == pods = [n \in Names |-> None]

Exists(n) == pods[n] # None
In(n, phases) == Exists(n) /\ pods[n].phase \in phases

\* isReady and WaitForReady's other success, a pod that is already done.
DoneStarting(n) == In(n, {"ready", "succeeded"})
Fatal(n) == In(n, {"stuck"})
Running(n) == In(n, {"running", "ready"})
PodTerminated(n) == In(n, {"exited", "succeeded", "failed"})

Post(n, s, c) ==
    /\ ~Exists(n)
    /\ pods' = [pods EXCEPT ![n] = [uid |-> s, spec |-> c, phase |-> "starting", deleting |-> FALSE]]

\* A DELETE by name, with a grace period or without: nothing is said of the UID.
Terminating(n) == pods' = [pods EXCEPT ![n].deleting = TRUE]
Gone(n) == pods' = [pods EXCEPT ![n] = None]

-----------------------------------------------------------------------------
\* What the kubelet and the cluster do to a pod.
Becomes(n, before, after) ==
    /\ In(n, before)
    /\ after \in Fates
    /\ pods' = [pods EXCEPT ![n].phase = after]

ContainerStarts(n) == Becomes(n, {"starting"}, "running")
ContainerSticks(n) == Becomes(n, {"starting"}, "stuck")
ContainerReady(n) == Becomes(n, {"running"}, "ready")
ContainerExits(n) == Becomes(n, {"running", "ready"}, "exited")
PhaseSettles(n) == \E final \in {"succeeded", "failed"} : Becomes(n, {"exited"}, final)

\* The grace period is over.
Reclaimed(n) == Exists(n) /\ pods[n].deleting /\ Gone(n)

\* Eviction, garbage collection, kubectl delete: not of the daemon's doing.
Evicted(n) == Exists(n) /\ Gone(n)
=============================================================================
