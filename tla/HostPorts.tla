----------------------------- MODULE HostPorts -----------------------------
(***************************************************************************)
(* The host ports of a container, from its /create to the mappings a       *)
(* /start opens: Build copies what the user asked for, allocateHostPorts   *)
(* replaces "" and "0" by free ports, writePortsAnnotation records the     *)
(* outcome in the pod (internal/server/containers.go, 189-209, 697-771).   *)
(*                                                                         *)
(* The ports of 127.0.0.1 belong to the kernel; a listener is known by its *)
(* port and whoever bound it.                                              *)
(***************************************************************************)
EXTENDS Naturals, Sequences

CONSTANTS
    Ports,       \* the host ports the kernel has
    Creates,     \* /create requests, and the containers they build
    Opens,       \* calls of the forwarder's Open, and the handles they return
    Others,      \* processes outside the daemon
    Wanted,      \* the HostPort of each of a container's mappings, in order
    Any,         \* "" or "0": any free port
    Zero,        \* another text of the number 0, such as "00"
    Invalid,     \* a HostPort that is no number
    None

HostPortTexts == Ports \cup {Any, Zero, Invalid}

ASSUME PortsAsked ==
    /\ Wanted \in [Creates -> Seq(HostPortTexts)]
    /\ Any \notin Ports /\ Zero \notin Ports \cup {Any} /\ Invalid \notin Ports \cup {Any, Zero}
    /\ Creates \cap (Opens \cup Others) = {} /\ Opens \cap Others = {}
    /\ None \notin Creates \cup Opens \cup Others

VARIABLES
    owner,       \* who listens on each port
    stage,       \* how far each /create is
    hostPort,    \* built.PortMappings, shared with the pending entry
    annotation,  \* the ports annotation of the pod
    lacking      \* whether the kernel refused a /create a port

portVars == <<owner, stage, hostPort, annotation, lacking>>

Free(p) == owner[p] = None
HeldBy(o) == {p \in Ports : owner[p] = o}

HostPortsTypeOK ==
    /\ owner \in [Ports -> Creates \cup Opens \cup Others \cup {None}]
    /\ stage \in [Creates -> {"new", "allocate", "release", "annotate", "created", "refused"}]
    /\ hostPort \in [Creates -> Seq(HostPortTexts)]
    /\ annotation \in [Creates -> Seq(HostPortTexts)]
    /\ lacking \in [Creates -> BOOLEAN]

HostPortsInit ==
    /\ owner = [p \in Ports |-> None]
    /\ stage = [c \in Creates |-> "new"]
    /\ hostPort = Wanted
    /\ annotation = Wanted          \* buildAnnotations wrote it first
    /\ lacking = [c \in Creates |-> FALSE]

Enter(c, s) == stage' = [stage EXCEPT ![c] = s]

-----------------------------------------------------------------------------
Unset(c) == {i \in DOMAIN hostPort[c] : hostPort[c][i] = Any}
IsFirst(c, i) == i \in Unset(c) /\ \A j \in Unset(c) : i <= j

Begin(c) ==
    /\ stage[c] = "new"
    /\ Enter(c, "allocate")
    /\ UNCHANGED <<owner, hostPort, annotation, lacking>>

\* Mutant: the listener is closed as soon as its port is known.
AllocateAndClose(c) ==
    /\ stage[c] = "allocate"
    /\ \E i \in Unset(c), p \in Ports :
          /\ IsFirst(c, i) /\ Free(p)
          /\ hostPort' = [hostPort EXCEPT ![c][i] = p]
    /\ UNCHANGED <<owner, stage, annotation, lacking>>

\* net.Listen on port 0: the kernel picks a free port, held until every mapping has one.
Allocate(c) ==
    /\ stage[c] = "allocate"
    /\ \E i \in Unset(c), p \in Ports :
          /\ IsFirst(c, i) /\ Free(p)
          /\ owner' = [owner EXCEPT ![p] = c]
          /\ hostPort' = [hostPort EXCEPT ![c][i] = p]
    /\ UNCHANGED <<stage, annotation, lacking>>

\* No port is left; the deferred closes run all the same.
AllocateFails(c) ==
    /\ stage[c] = "allocate" /\ Unset(c) # {}
    /\ \A p \in Ports : ~Free(p)
    /\ lacking' = [lacking EXCEPT ![c] = TRUE]
    /\ Enter(c, "release")
    /\ UNCHANGED <<owner, hostPort, annotation>>

Allocated(c) ==
    /\ stage[c] = "allocate" /\ Unset(c) = {}
    /\ Enter(c, "release")
    /\ UNCHANGED <<owner, hostPort, annotation, lacking>>

Release(c) ==
    /\ stage[c] = "release"
    /\ \E p \in HeldBy(c) : owner' = [owner EXCEPT ![p] = None]
    /\ UNCHANGED <<stage, hostPort, annotation, lacking>>

\* Mutant: the ports are left to the annotation Build wrote.
ReleasedForGood(c) ==
    /\ stage[c] = "release" /\ HeldBy(c) = {}
    /\ Enter(c, IF lacking[c] THEN "refused" ELSE "created")
    /\ UNCHANGED <<owner, hostPort, annotation, lacking>>

Released(c) ==
    /\ stage[c] = "release" /\ HeldBy(c) = {}
    /\ Enter(c, IF lacking[c] THEN "refused" ELSE "annotate")
    /\ UNCHANGED <<owner, hostPort, annotation, lacking>>

\* writePortsAnnotation replaces what buildAnnotations wrote; the container is created.
Annotate(c) ==
    /\ stage[c] = "annotate"
    /\ annotation' = [annotation EXCEPT ![c] = hostPort[c]]
    /\ Enter(c, "created")
    /\ UNCHANGED <<owner, hostPort, lacking>>

\* Another process of the machine takes a port, or leaves it.
Taken(x) ==
    /\ HeldBy(x) = {}
    /\ \E p \in Ports : Free(p) /\ owner' = [owner EXCEPT ![p] = x]
    /\ UNCHANGED <<stage, hostPort, annotation, lacking>>

Left(x) ==
    /\ \E p \in HeldBy(x) : owner' = [owner EXCEPT ![p] = None]
    /\ UNCHANGED <<stage, hostPort, annotation, lacking>>

CreateStep(c) == \/ Begin(c) \/ Allocate(c) \/ AllocateFails(c) \/ Allocated(c)
                 \/ Release(c) \/ Released(c) \/ Annotate(c)

-----------------------------------------------------------------------------
\* The random ports of one container are all different (containers.go:701-703).
RandomPortsDiffer == \A c \in Creates : \A i, j \in DOMAIN Wanted[c] :
    /\ i # j /\ Wanted[c][i] = Any /\ Wanted[c][j] = Any
    /\ hostPort[c][i] # Any /\ hostPort[c][j] # Any
    => hostPort[c][i] # hostPort[c][j]

\* What a /start of the pending entry opens and what a /start that finds the
\* pod, after a restart say, opens are the same ports, none of them left to
\* the kernel's choice (containers.go:193-206, 262, 743).
SamePortsFromPod == \A c \in Creates :
    stage[c] = "created" => annotation[c] = hostPort[c] /\ Unset(c) = {}
=============================================================================
