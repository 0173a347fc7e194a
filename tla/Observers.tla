----------------------------- MODULE Observers -----------------------------
(***************************************************************************)
(* The handlers that look and change no container: /containers/json with   *)
(* all=1, inspect, and the ones that go to the cluster alone (logs, exec   *)
(* create).  They run beside the handlers of module Containers, read the   *)
(* pending store and the apiserver at different moments, and reap.         *)
(*                                                                         *)
(* The history variable there remembers, for every request that is still   *)
(* looking, the containers that were there since it arrived: those its     *)
(* answer may not miss.                                                    *)
(***************************************************************************)
EXTENDS ContainersProperties

CONSTANTS
    Observers,  \* the requests that look
    Sought,     \* the {id} of each, a name; a listing has none
    Unknown     \* the answer 404

Rows == [Creates -> 0 .. 2]   \* a listing, how often it shows each container

ASSUME ObserverKinds ==
    /\ Observers \cap Requests = {}
    /\ Sought \in [Observers -> Names]
    /\ Unknown \notin Creates \cup Rows \cup {None}

VARIABLES
    place,   \* the endpoint each observer asks, and where its goroutine is
    told,    \* what it was answered: a listing's rows per container, or a container
    there,   \* for each request still looking, the containers there all the while
    blind    \* the requests whose Get by name failed

observerVars == <<place, told>>
historyVars == <<there, blind>>
allVars == <<vars, observerVars, historyVars>>

Places == {"idle", "listing", "inspecting", "scanning", "following", "followScan", "done"}

ObserversTypeOK ==
    /\ place \in [Observers -> Places]
    /\ told \in [Observers -> Rows \cup Creates \cup {None, Unknown}]
    /\ there \in [Clients \cup Observers -> SUBSET Creates]
    /\ blind \subseteq Clients \cup Observers

-----------------------------------------------------------------------------
\* A container is there while the store's operations or the cluster's would find it.
InStore(c) == Staged(c) /\ c \notin expired
InCluster(c) == \E n \in Names : AliveAs(n) = c

\* A /start took the entry, and is about to post it or to drop it.
Moving(c) == \E s \in Starts :
    /\ entry[s] = c
    /\ pc[s] \in {"post", "mark", "unstage", "fail", "unstageFailed"}

\* What a request's answer should show as long as it holds: of listings, what no
\* /start moves; of logs and exec create, which skip the store, the pods.
Findable(r, c) ==
    IF r \in Clients THEN pc[r] \in {"find", "scan"} /\ (InStore(c) \/ InCluster(c))
    ELSE \/ place[r] = "listing" /\ (InStore(c) \/ InCluster(c)) /\ ~Moving(c)
         \/ place[r] \in {"inspecting", "scanning"} /\ (InStore(c) \/ InCluster(c))
         \/ place[r] \in {"following", "followScan"} /\ InCluster(c)

Arriving(r) == IF r \in Clients THEN At(r, "idle") ELSE place[r] = "idle"

Watch == there' = [r \in Clients \cup Observers |->
    {c \in (IF Arriving(r) THEN Creates ELSE there[r]) : Findable(r, c)'}]

-----------------------------------------------------------------------------
Moves(o, p) == place' = [place EXCEPT ![o] = p] /\ UNCHANGED told
Tell(o, what) == place' = [place EXCEPT ![o] = "done"] /\ told' = [told EXCEPT ![o] = what]

Podded == [c \in Creates |-> IF InCluster(c) THEN 1 ELSE 0]
Pending == [c \in Creates |-> IF Swept[PodName[c]] = c THEN 1 ELSE 0]

\* A listing: the List of the pods, then the pending store, two reads.
ListPods(o) ==
    /\ place[o] = "idle"
    /\ place' = [place EXCEPT ![o] = "listing"]
    /\ told' = [told EXCEPT ![o] = Podded]
    /\ UNCHANGED <<vars, blind>>

ListPending(o) ==
    /\ place[o] = "listing"
    /\ Tell(o, [c \in Creates |-> told[o][c] + Pending[c]])
    /\ Reap /\ UNCHANGED expired
    /\ UNCHANGED <<registryVars, pods, requestVars, bounds, blind>>

InspectPending(o) ==
    /\ place[o] = "idle"
    /\ \E c \in Creates \cup {None} :
          /\ GetByRef(Sought[o], c) /\ UNCHANGED expired
          /\ IF c = None THEN Moves(o, "inspecting") ELSE Tell(o, c)
    /\ UNCHANGED <<registryVars, pods, requestVars, bounds, blind>>

\* logs and exec create do not ask the pending store.
FollowArrives(o) ==
    /\ place[o] = "idle"
    /\ Moves(o, "following")
    /\ UNCHANGED <<vars, blind>>

NextPlace(o) == IF place[o] = "inspecting" THEN "scanning" ELSE "followScan"

SeekName(o) ==
    /\ place[o] \in {"inspecting", "following"}
    /\ IF Exists(Sought[o]) THEN Tell(o, AliveAs(Sought[o])) ELSE Moves(o, NextPlace(o))
    /\ UNCHANGED <<vars, blind>>

SeekNameFails(o) ==
    /\ place[o] \in {"inspecting", "following"}
    /\ Fault
    /\ Moves(o, NextPlace(o)) /\ blind' = blind \cup {o}
    /\ UNCHANGED <<pendingVars, registryVars, pods, requestVars>>

\* The pods of a List whose --name it is.
Called(name) == {c \in Creates : InCluster(c) /\ DockerName[c] = name}

\* Mutant: the answer is the name that was asked for.
SeekScanEcho(o) ==
    /\ place[o] \in {"scanning", "followScan"}
    /\ \/ Called(Sought[o]) = {} /\ Tell(o, Unknown)
       \/ Called(Sought[o]) # {} /\ Tell(o, Sought[o])
    /\ UNCHANGED <<vars, blind>>

SeekScan(o) ==
    /\ place[o] \in {"scanning", "followScan"}
    /\ \/ Called(Sought[o]) = {} /\ Tell(o, Unknown)
       \/ \E c \in Called(Sought[o]) : Tell(o, c)
    /\ UNCHANGED <<vars, blind>>

\* The List of a listing or of a scan fails: 500.
LookFails(o) ==
    /\ place[o] \in {"idle", "scanning", "followScan"}
    /\ Fault
    /\ Moves(o, "done") /\ UNCHANGED blind
    /\ UNCHANGED <<pendingVars, registryVars, pods, requestVars>>

Observe(o) ==
    \/ ListPods(o) \/ ListPending(o)
    \/ InspectPending(o) \/ FollowArrives(o)
    \/ SeekName(o) \/ SeekNameFails(o) \/ SeekScan(o)
    \/ LookFails(o)

Handle ==
    /\ Next
    /\ blind' = blind \cup {r \in Clients : FindFails(r)}
    /\ UNCHANGED observerVars

ObserversInit ==
    /\ Init
    /\ place = [o \in Observers |-> "idle"]
    /\ told = [o \in Observers |-> None]
    /\ there = [r \in Clients \cup Observers |-> {}]
    /\ blind = {}

ObserversNext == (Handle \/ \E o \in Observers : Observe(o)) /\ Watch

ObserversSpec == ObserversInit /\ [][ObserversNext]_allVars

-----------------------------------------------------------------------------
RefOf(r) == IF r \in Clients THEN Ref[r] ELSE Sought[r]
Means(r, c) == RefOf(r) \in {DockerName[c], PodName[c]}

NotFound(r) == IF r \in Clients THEN reply[r] \in {"NotFound", "NoPod"} ELSE told[r] = Unknown

\* "No such container", and the 204 of a DELETE that found nothing, are true: no
\* container that the reference names was there from the lookup in the pending
\* store to the answer, although a /start may move it from the store to the
\* cluster between the two lookups (containers.go:528-539, 580-592).  A Get
\* that failed is the one excuse: then the code answers 404 for a container that
\* is there, which containers.go:401 does not provide for.
NoFalseNotFound == [][\A r \in Clients \cup Observers :
    ~NotFound(r) /\ NotFound(r)' /\ r \notin blind => \A c \in there[r] : ~Means(r, c)]_allVars

\* A listing shows a container once, neither twice nor not at all, unless a
\* /start takes it from the store to the cluster between the two reads
\* (containers.go:429-463).
ListedOnce == [][\A o \in Observers : \A c \in there[o] :
    place[o] = "listing" /\ place'[o] = "done" => told'[o][c] = 1]_allVars
=============================================================================
