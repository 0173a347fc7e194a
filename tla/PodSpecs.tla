------------------------------ MODULE PodSpecs ------------------------------
(***************************************************************************)
(* From the request of a /create to the pod it stages, and to the ports    *)
(* that ps and inspect show of it: Build (internal/podspec/spec.go), the   *)
(* random ports of allocateHostPorts, here in one step (HostPorts has it   *)
(* listen by listen), and the builders of internal/server/summary.go.      *)
(*                                                                         *)
(* Go walks a map in an order of its own and sort.Slice is not stable: a   *)
(* step takes any key that is left, and any order that is sorted.  A       *)
(* client may send its request again, to another daemon or after an rm;    *)
(* the history variable earlier has what came of it the first time.        *)
(***************************************************************************)
EXTENDS PodNames

CONSTANTS
    Texts,      \* what a HostPort may be written as
    Unset,      \* "" and "0": any free port
    Numeric,    \* those that are a port number
    Given,      \* the ports the kernel has free
    Rank,       \* the order of strings
    Requests,   \* the requests to /create
    MaxInt,     \* the largest int64
    None

Protocols == {"tcp", "udp", "sctp"}
MaxPort == 2^16 - 1
NanoPerMilli == 1000000

\* A key of PortBindings or ExposedPorts; proto is None where nothing follows the number.
Keys == [port : Int, proto : Protocols \cup {None, "other"}]
Targets == [port : 1 .. MaxPort, proto : Protocols]
Mappings == [host : Texts, port : 1 .. MaxPort, proto : Protocols]

\* A name <<>> is no --name; a negative uid or gid is also one that is no number.
ASSUME PortTexts ==
    /\ Unset \subseteq Texts /\ Unset # {} /\ Given \subseteq Numeric /\ Numeric \subseteq Texts \ Unset
    /\ Rank \in [Texts -> Nat] /\ \A s, t \in Texts : Rank[s] = Rank[t] => s = t
ASSUME Width == MaxInt \in Nat /\ MaxInt > 2 * NanoPerMilli
ASSUME RequestsAreWhole == \A q \in Requests :
    /\ q.name \in Seq(DOMAIN Lower) /\ q.image \in Seq(DOMAIN Lower)
    /\ DOMAIN q.bindings \subseteq Keys /\ q.exposed \subseteq Keys
    /\ IsFiniteSet(DOMAIN q.bindings) /\ IsFiniteSet(q.exposed)
    /\ \A k \in DOMAIN q.bindings : q.bindings[k] \in Seq(Texts)
    /\ q.nanoCPUs \in -MaxInt - 1 .. MaxInt /\ q.user \in Seq(Int)

\* The component of an image lies between its last "/" and its tag or digest.
ASSUME ImagesAreReferences == \A q \in Requests : q.name = <<>> =>
    \E i \in 0 .. Len(q.image) : \E j \in i .. Len(q.image) :
        /\ q.component = SubSeq(q.image, i + 1, j)
        /\ i = 0 \/ q.image[i] = Slash
        /\ j = Len(q.image) \/ q.image[j + 1] \in Marks
        /\ \A l \in i + 1 .. Len(q.image) : q.image[l] # Slash
        /\ \A l \in i + 1 .. j : q.image[l] \notin Marks

VARIABLES
    request,        \* the request, which no step changes
    stage,          \* how far the /create is
    left,           \* the keys of the map that is walked
    bound,          \* parsePortBindings' bound
    podName,
    ports,          \* BuildResult.PortMappings
    containerPorts, \* those of the pod's container
    cpu,            \* its limit, in thousandths; 0 is none, and Kubernetes takes no negative one
    annotation,     \* the mappings after allocateHostPorts, in the pod and the entry
    earlier

buildVars == <<bound, podName, ports, containerPorts, cpu, annotation>>
specVars == <<request, stage, left, buildVars, earlier>>

TypeOK ==
    /\ request \in Requests
    /\ stage \in {"name", "bind", "expose", "sort", "fit", "built", "created", "refused"}
    /\ left \subseteq DOMAIN request.bindings \cup request.exposed
    /\ bound \subseteq Targets
    /\ ports \in Seq(Mappings) /\ annotation \in Seq(Mappings)
    /\ containerPorts \in Seq(Targets)
    /\ cpu \in Int

-----------------------------------------------------------------------------
\* Mutant: port 0 passes.
ParsesZero(k) == k.proto # "other" /\ k.port \in 0 .. MaxPort

\* parsePortSpec: a protocol it knows and a number of 16 bits that is not 0.
Parses(k) == k.proto # "other" /\ k.port \in 1 .. MaxPort
Target(k) == [port |-> k.port, proto |-> IF k.proto = None THEN "tcp" ELSE k.proto]
TargetOf(m) == [port |-> m.port, proto |-> m.proto]
Mapping(t, host) == [host |-> host, port |-> t.port, proto |-> t.proto]

\* The zero value of PortMapping.HostPort.
Empty == CHOOSE t \in Unset : \A u \in Unset : Rank[t] <= Rank[u]

\* The order of protocols as strings.
ProtoRank == [sctp |-> 0, tcp |-> 1, udp |-> 2]

\* Mutant: the mappings of one container port are left as they come.
LessByPort(m, n) ==
    \/ m.port < n.port
    \/ m.port = n.port /\ ProtoRank[m.proto] < ProtoRank[n.proto]

Less(m, n) ==
    \/ m.port < n.port
    \/ m.port = n.port /\ ProtoRank[m.proto] < ProtoRank[n.proto]
    \/ TargetOf(m) = TargetOf(n) /\ Rank[m.host] < Rank[n.host]

Orders(s) == {[i \in DOMAIN s |-> s[p[i]]] : p \in Bijection(DOMAIN s, DOMAIN s)}
InOrder(s) == \A i, j \in DOMAIN s : i < j => ~Less(s[j], s[i])

\* Mutant: one port of a pod per mapping.
ListContainerPorts(s) == [i \in DOMAIN s |-> TargetOf(s[i])]

DedupContainerPorts(s) ==
    FoldLeft(LAMBDA out, m : IF TargetOf(m) \in ToSet(out) THEN out
                                                          ELSE Append(out, TargetOf(m)),
             <<>>, s)

\* The sum of two int64, which is less than twice MaxInt, and a quotient in Go.
Wrapped(n) == IF n > MaxInt THEN n - MaxInt - MaxInt - 2 ELSE n
Quotient(n, d) == IF n < 0 THEN -((-n) \div d) ELSE n \div d

\* Mutant: thousandths are rounded down.
MilliDown(nano) == IF nano > 0 THEN nano \div NanoPerMilli ELSE 0

Milli(nano) ==
    IF nano > 0 THEN Quotient(Wrapped(nano + NanoPerMilli - 1), NanoPerMilli) ELSE 0

-----------------------------------------------------------------------------
Enter(s, keys) == stage' = s /\ left' = keys

SpecInit ==
    /\ request \in Requests
    /\ stage = "name" /\ left = {} /\ bound = {} /\ podName = <<>>
    /\ ports = <<>> /\ containerPorts = <<>> /\ cpu = 0 /\ annotation = <<>>
    /\ earlier = None

Refuse == Enter("refused", {}) /\ UNCHANGED <<request, buildVars, earlier>>

\* Before anything else (also in the handler, containers.go:172).
ImageRefused ==
    /\ stage = "name" /\ request.image = <<>>
    /\ Refuse

NameGiven ==
    /\ stage = "name" /\ request.image # <<>>
    /\ request.name # <<>> /\ Sanitize(request.name) # <<>>
    /\ podName' = Sanitize(request.name)
    /\ Enter("bind", DOMAIN request.bindings)
    /\ UNCHANGED <<request, bound, ports, containerPorts, cpu, annotation, earlier>>

NameRefused ==
    /\ stage = "name" /\ request.image # <<>>
    /\ request.name # <<>> /\ Sanitize(request.name) = <<>>
    /\ Refuse

NameGenerated ==
    /\ stage = "name" /\ request.image # <<>> /\ request.name = <<>>
    /\ \E suffix \in RandomSuffixes : podName' = GeneratedName(request.image, suffix)
    /\ Enter("bind", DOMAIN request.bindings)
    /\ UNCHANGED <<request, bound, ports, containerPorts, cpu, annotation, earlier>>

KeyRefused ==
    /\ stage \in {"bind", "expose"}
    /\ \E k \in left : ~Parses(k)
    /\ Refuse

\* One key of PortBindings; without a host side it is asked for once, unset.
Bind ==
    /\ stage = "bind"
    /\ \E k \in left :
          LET binds == request.bindings[k]
              hosts == IF binds = <<>> THEN <<Empty>> ELSE binds
          IN  /\ Parses(k)
              /\ bound' = bound \cup {Target(k)}
              /\ ports' = ports \o [i \in DOMAIN hosts |-> Mapping(Target(k), hosts[i])]
              /\ Enter("bind", left \ {k})
    /\ UNCHANGED <<request, podName, containerPorts, cpu, annotation, earlier>>

AllBound ==
    /\ stage = "bind" /\ left = {}
    /\ Enter("expose", request.exposed)
    /\ UNCHANGED <<request, buildVars, earlier>>

\* Mutant: a key is looked for among the bindings as it is written.
ExposeAsWritten ==
    /\ stage = "expose"
    /\ \E k \in left :
          /\ Parses(k)
          /\ ports' = IF k \in DOMAIN request.bindings THEN ports
                      ELSE Append(ports, Mapping(Target(k), Empty))
          /\ Enter("expose", left \ {k})
    /\ UNCHANGED <<request, bound, podName, containerPorts, cpu, annotation, earlier>>

\* One key of ExposedPorts; two that mean one port are two mappings.
Expose ==
    /\ stage = "expose"
    /\ \E k \in left :
          /\ Parses(k)
          /\ ports' = IF Target(k) \in bound THEN ports
                      ELSE Append(ports, Mapping(Target(k), Empty))
          /\ Enter("expose", left \ {k})
    /\ UNCHANGED <<request, bound, podName, containerPorts, cpu, annotation, earlier>>

AllExposed ==
    /\ stage = "expose" /\ left = {}
    /\ Enter("sort", {})
    /\ UNCHANGED <<request, buildVars, earlier>>

Sort ==
    /\ stage = "sort"
    /\ \E s \in Orders(ports) :
          /\ InOrder(s)
          /\ ports' = s /\ containerPorts' = DedupContainerPorts(s)
    /\ Enter("fit", {})
    /\ UNCHANGED <<request, bound, podName, cpu, annotation, earlier>>

\* buildResources, then buildSecurityContext.
Fit ==
    /\ stage = "fit" /\ \A i \in DOMAIN request.user : request.user[i] >= 0
    /\ cpu' = Milli(request.nanoCPUs)
    /\ annotation' = ports
    /\ Enter("built", {})
    /\ UNCHANGED <<request, bound, podName, ports, containerPorts, earlier>>

UserRefused ==
    /\ stage = "fit" /\ \E i \in DOMAIN request.user : request.user[i] < 0
    /\ Refuse

\* allocateHostPorts and writePortsAnnotation: free ports, all of them different.
Create ==
    /\ stage = "built"
    /\ LET unset == {i \in DOMAIN ports : ports[i].host \in Unset}
       IN  \E port \in [unset -> Given] :
              /\ \A i, j \in unset : port[i] = port[j] => i = j
              /\ annotation' = [i \in DOMAIN ports |->
                    IF i \in unset THEN [ports[i] EXCEPT !.host = port[i]] ELSE ports[i]]
    /\ Enter("created", {})
    /\ UNCHANGED <<request, bound, podName, ports, containerPorts, cpu, earlier>>

\* The same request again.
Again ==
    /\ stage \in {"created", "refused"} /\ earlier = None
    /\ earlier' = [stage |-> stage, ports |-> ports, podName |-> podName]
    /\ Enter("name", {})
    /\ bound' = {} /\ podName' = <<>>
    /\ ports' = <<>> /\ containerPorts' = <<>> /\ cpu' = 0 /\ annotation' = <<>>
    /\ UNCHANGED request

SpecNext ==
    \/ ImageRefused \/ NameGiven \/ NameRefused \/ NameGenerated
    \/ Bind \/ AllBound \/ Expose \/ AllExposed \/ KeyRefused
    \/ Sort \/ Fit \/ UserRefused \/ Create \/ Again

Spec == SpecInit /\ [][SpecNext]_specVars

-----------------------------------------------------------------------------
\* ps: a row for each mapping, its host side if that is a number.
SummaryPorts(s) == [i \in DOMAIN s |->
    [target |-> TargetOf(s[i]),
     public |-> IF s[i].host \in Numeric THEN s[i].host ELSE None]]

\* Mutant: the key lacks the protocol.
BindingsByNumber(s) ==
    LET tcp(m) == [port |-> m.port, proto |-> "tcp"]
        last(t) == Max({i \in DOMAIN s : tcp(s[i]) = t})
    IN  [t \in {tcp(s[i]) : i \in DOMAIN s} |-> s[last(t)].host]

\* inspect: a map by container port, where the last mapping of one overwrites the others.
PortsBindings(s) ==
    LET last(t) == Max({i \in DOMAIN s : TargetOf(s[i]) = t})
    IN  [t \in {TargetOf(s[i]) : i \in DOMAIN s} |-> s[last(t)].host]

-----------------------------------------------------------------------------
Finished == stage \in {"created", "refused"}
AskedKeys(t) == {k \in DOMAIN request.bindings : Target(k) = t}
AskedHosts(t) == UNION {ToSet(request.bindings[k]) : k \in AskedKeys(t)}
AskedTargets == {Target(k) : k \in DOMAIN request.bindings \cup request.exposed}

\* What comes of a request does not depend on the order in which Go walks its
\* maps, nor on what its sort makes of equals: the same request is refused
\* again, or gets the same mappings in the same order, the order in which /start
\* binds them and inspect lets one overwrite another (podspec/spec.go:192-225).
SameOutcome ==
    Finished /\ earlier # None =>
        /\ stage = earlier.stage
        /\ stage = "created" => ports = earlier.ports
        /\ stage = "created" /\ request.name # <<>> => podName = earlier.podName

\* A port that is published is mapped as often as its bindings say, however its
\* key is written, and exposing it too maps it no further; the pod's container
\* declares every port once (podspec/spec.go:192-214, 248-267).
PublishedAsBound == stage = "created" =>
    /\ \A t \in bound :
          Cardinality({i \in DOMAIN ports : TargetOf(ports[i]) = t})
            = MapThenSumSet(LAMBDA k : IF request.bindings[k] = <<>> THEN 1
                                       ELSE Len(request.bindings[k]), AskedKeys(t))
    /\ ToSet(containerPorts) = AskedTargets
    /\ Len(containerPorts) = Cardinality(AskedTargets)

\* inspect shows every port asked for, under the host port the client fixed for
\* it or one the kernel gave, and ps has that row too (server/summary.go:192-227).
InspectAgrees == stage = "created" =>
    LET shown == PortsBindings(annotation)
        rows == ToSet(SummaryPorts(annotation))
    IN  /\ DOMAIN shown = AskedTargets
        /\ \A t \in DOMAIN shown :
              /\ shown[t] \in (AskedHosts(t) \ Unset) \cup Given
              /\ [target |-> t,
                  public |-> IF shown[t] \in Numeric THEN shown[t] ELSE None] \in rows

\* The name of a pod is one Kubernetes takes, and giving it back as --name names
\* the same pod: a name cut at 63 characters may end with no dash
\* (podspec/name.go:20-28).  A generated name is cut too, and nothing takes off
\* the dash it then ends with if dink and the image's name are 62 characters
\* long (podspec/name.go:38-41): that one length is excepted.
ValidNames ==
    podName # <<>> /\ ~(request.name = <<>> /\ CutAfterDash(request.image))
    => IsPodName(podName) /\ Sanitize(podName) = podName

\* A generated name is dink, the last component of the image's path without tag
\* or digest, and the suffix, or what fits of that: the registry's port is not
\* the tag, and of a long name it is the suffix that is lost, up to all of it,
\* when every container of the image has one name (podspec/name.go:32-56).
NamedAfterImage ==
    stage = "created" /\ request.name = <<>> =>
    \E suffix \in RandomSuffixes :
        podName = UpTo(Sanitize(Dink \o <<Dash>> \o request.component) \o <<Dash>> \o suffix, MaxLen)

\* A container that asks for some CPU gets that much and less than a thousandth
\* more: never a limit of 0, which would be none (podspec/spec.go:143-147).  In
\* the last thousandth of an int64 the sum overflows, to a negative limit.
CPUAsAsked == stage = "created" =>
    /\ request.nanoCPUs <= 0 => cpu = 0
    /\ request.nanoCPUs \in 1 .. MaxInt - NanoPerMilli + 1 =>
          /\ cpu * NanoPerMilli >= request.nanoCPUs
          /\ cpu * NanoPerMilli - request.nanoCPUs < NanoPerMilli
    /\ request.nanoCPUs > MaxInt - NanoPerMilli + 1 => cpu < 0
=============================================================================
