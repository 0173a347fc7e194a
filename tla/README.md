# TLA+ models of docker-in-kubernetes

`docker-in-kubernetes` is a daemon that answers the Docker Engine API on a UNIX
socket and realizes containers as Kubernetes pods.  This directory holds
TLA+ models of its stateful parts, the TLC runs that check them on small
instances, and TLAPS proofs of the main properties for every instance.  Line
numbers below are those of the sources, relative to `src/`.

## The system

The daemon keeps little state of its own.  Every HTTP request is served by a
goroutine of its own; nothing serializes requests about one container.

| Part | State | Operations | Talks to |
|---|---|---|---|
| pending store, `internal/server/pending.go` | map pod name → staged container; per entry a channel closed once, `startedAt`, `failErr` | `reserve`, `getByRef`, `remove`, `list`, `markStarted`, `markFailed`, the reaper (run by most of them) | the container handlers |
| container handlers, `internal/server/containers.go` | none beyond the request in hand | create, start, wait, attach, logs, stop, kill, delete, list, inspect, resize; the watcher goroutine of each forwarder | pending store, registry, pods client, forwarder |
| exec sessions, `internal/server/exec.go` | map of sessions; `running`, `exitCode` of each | create, start, inspect | pods client |
| forwarder registry, `internal/forwarder/forwarder.go` | map container → open handle | `Set`, `Close`, `Has`, `Shutdown` | container handlers, `main` |
| TCP forwarder, `internal/forwarder/tcp.go` | per handle: listeners, `isClosed`; accept loops; proxied connections | `Open`, `Close` | the kernel's ports, the pod |
| SPDY forwarder, `internal/forwarder/spdy.go` | per handle: `stopCh`, `isClosed`, the goroutine on client-go's `ForwardPorts` with `readyCh` and `errCh` | `Open`, `Close` | apiserver, the kernel's ports |
| pods client, `internal/k8s/pods.go` | none | `Create`, `Delete`, `Get`, `FindByID`, `WaitForReady`, `List`, streams | apiserver |
| pod construction, `internal/podspec` | none | request → pod, names, IDs, port mappings | container handlers |
| image store, `internal/images`, `internal/server/images.go` | map ref → record | pull, list, inspect, delete | – |
| network store, `internal/networks`, `internal/server/networks.go` | map name → record | create, list, inspect, delete | – |
| process, `cmd/docker-in-kubernetes/main.go` | – | set-up, shutdown | all of it |

What is hard here: a container lives in three places one after another (pending
store, cluster, registry) and moves between them while other requests about it
are half way; identity is a *name*, so a pod deleted and posted again is
indistinguishable to anything that polls; a handler reads state, makes an
apiserver call that takes seconds, and acts on what it read; the pending store
expires entries in flight; memory is lost on restart while pods stay; host ports
are given away and taken back by the kernel in between.  `PROJECT.json` lists
these hazards one by one with the line where each bites.

What makes each part correct, in a sentence:

* pending store – an outcome is decided once, and an entry is never displaced;
* registry and watchers – a registered handle is open, an open handle has exactly
  one party that will close it, and the port of a container that is over is freed;
* create/start – an acknowledged entry never coexists with a live pod of its name;
* removals – a container that left the store, is no pod and is in no `/start`'s hands
  never comes back;
* start/attach/wait – waiters are released by the POST, not by readiness;
* lookups – a container that is there all along is not answered 404, and is listed once;
* ports – the TCP `Open` is all or nothing; the entry and the pod agree on the ports;
* SPDY – an `Open` that fails or gives up, and a closed handle, leave no goroutine and
  no port behind, and `stopCh` is closed once at most;
* pod construction – the same request gives the same pod whatever order Go walks its
  maps in, with a name Kubernetes accepts and the ports that were asked for;
* exec – a client that read its stream to the end is told its own exit code;
* images – every spelling of a pulled image finds it, but for the exceptions named
  below, and a removal takes what it shows.

## Modules

| Module | Models |
|---|---|
| `Identities` | the names all container modules share; ID, short ID and pod name are one-to-one, so a container is known by its pod name |
| `PendingStore` | `pending.go`: each operator is one critical section of the store's mutex; `PendingSpec` is the store by itself, whoever calls it |
| `ForwarderRegistry` | `forwarder.go`: `Close` in its two halves (`Detach` under the mutex, `CloseHandle` after it); `RegistrySpec` is the discipline it expects of its callers |
| `Cluster` | the pods as `pods.go` reads and writes them; kubelet, eviction and grace periods are external |
| `Containers` | the handlers of `containers.go` and the watcher, composed over the three modules above |
| `ContainerLife` | the abstract life cycle of a container: staged, claimed by a `/start`, alive, gone; what the handlers implement |
| `ContainersProperties` | what the handlers promise, the refinement mapping to `ContainerLife`, and what texts of the repository promise and the code does not keep |
| `MCContainers` | definitions for the TLC runs on `Containers` |
| `Observers`, `MCObservers` | the handlers that look and change no container (list, inspect, logs, exec create), beside those of `Containers`; the run's definitions |
| `ContainersProofs`, `LifeProofs`, `ObserversProofs` | the theorems about these: store, registry and handlers; entries beside pods and the refinement of `ContainerLife`; what the observers see. Each extends the one before |
| `HostPorts` | random host ports from `/create` to the pod's annotation, beside other processes |
| `TCPForwarder`, `MCTCPForwarder`, `TCPForwarderProofs` | `tcp.go`: `Open`, accept loops, connections, `Close`, over `HostPorts`; the runs' definitions; the theorems about both |
| `SPDYForwarder`, `MCSPDYForwarder`, `SPDYForwarderProofs` | `spdy.go`: `Open` with its goroutine, its channels and its select, `Close`, over an external `ForwardPorts`; the run's definitions; the theorems |
| `PodNames` | `internal/podspec/name.go` as operators on texts: `Sanitize`, `ImageBase`, `GeneratedName` |
| `PodSpecs`, `MCPodSpecs`, `PodSpecsProofs` | `internal/podspec/spec.go` from a request to its pod, and the ports that ps and inspect show (`summary.go`); the run's definitions; the theorems about it and about `PodNames` |
| `Execs`, `ExecsProofs` | `exec.go`, and the theorems about it |
| `Images`, `MCImages`, `ImagesProofs` | `internal/images/store.go` and `internal/server/images.go`; the run's definitions; the theorems |

### How `Containers` corresponds to the code

A request `r` has a program counter `pc[r]`; a label names the *next* thing its
goroutine does.  A step is one critical section, one apiserver call or one port
operation with everything the code does before the next such point.

* `/create`: `CreateReserve`, `CreateRefused`, `CreateCheck`, `CreateCheckFails`,
  `CreateConflict` (lines 163–225).
* Resolution (`resolvePod`, `getByRef`, `FindByID`): `Lookup`, then `Find` (the Get
  by pod name), then `Scan` (the List).  A failed Get falls through to the List, as
  in the code, and the List does not match pod names.  `ById` are requests that
  carry the ID, the others a name.
* `/start`: `StartPost`, `StartMark`, `StartUnstage`, or `StartMarkFailed`,
  `StartUnstageFailed`; then `ensureRunning`: `StartPoll`, `StartHas`,
  `StartResolve`, `StartListen`, `StartSet`.  From there the request's place in
  `pc` is that of the watcher it spawned: `WatchHas`, `WatchGet`, `DetachForwarder`,
  `CloseForwarder`.
* `/stop`, `/kill`, `DELETE`: `MarkRemoved`, `DropEntry` for a pending entry,
  otherwise `DetachForwarder`, `CloseForwarder`, `DeletePod`.
* `/wait`, `/attach`: `AwaitStart`, `PollExit`, `PollStarted`, `StreamEnds`;
  `condition=removed` goes on to the deletion.
* `Fault` bounds failed apiserver calls; a POST or a DELETE may fail after it took
  effect.  `GiveUp` is a deadline or a client that left.  `Restart` is the end of
  the process and its next start.

A pod carries the `/start` that posted it (`uid`) and the entry it runs (`spec`);
both are invisible to the handlers except where the code reads the pod's contents.
A handle is named by the `/start` whose `Open` made it, and `upstream` remembers
the pod whose address it resolved.

Not in it: the handlers that only look, which are in `Observers`, `resize`, which does
nothing, waiting times, request bodies, output streams, anything two IDs could collide on.

### `ContainerLife` and its refinement mapping

`ContainerLife` knows a container's place in the store (`stage`), what each `/start`
read there and is about to post (`claim`), and the container that runs under each pod
name (`alive`).  The mapping, in `ContainersProperties`: `stage` is `StageOf` – whether
the entry is in the map, or was once –, `claim` is `ClaimOf` – the entry of a `/start`
whose next step is `pods.Create` –, `alive` is `AliveAs`, the container whose pod exists.
Everything else the handlers do (signals, forwarders, watchers, waits) is a stutter.
The abstract specification lets anything drop an entry or a pod at any time, but lets
a dropped container become a pod only through a claim taken before: that is the one
way the code has, a removal that overtakes a `/start`, and `LifeCycle` says there is no
other.  `NeverComesBack` is its consequence for a container nobody holds.

### `Observers`

A listing is two reads, `ListPods` (the List) and `ListPending` (the store), in that
order; an inspect is `InspectPending`, then `SeekName` (the Get) and `SeekScan` (the
List) of `FindByID`; logs and exec create skip the store (`FollowArrives`).
`SeekNameFails` is a Get that fails and falls through to the List, `LookFails` a List
that fails.  Reads of the store reap it, which is the only thing an observer changes.  `there` is
a history variable: for each request still looking, the containers that were there at
every moment since it arrived, i.e. those its answer may not miss; `blind` has the requests
whose Get failed, the one excuse for a 404.  Listings are modelled with `all=1` and
without label filters.

### `HostPorts` and `TCPForwarder`

`owner` is the kernel's view of the ports of 127.0.0.1.  `Allocate` listens on port
0 for each unset mapping and holds the listener; `Release` closes them one by one
(the deferred loop); `Annotate` is `writePortsAnnotation`.  `Open` takes either the
mappings of the pending entry or those decoded from the pod, refuses a `HostPort`
that is no number, and binds one listener at a time; `BindFails` closes what it has
bound through the same `Close`; a host port that parses to 0 without being `"0"`, such
as `"00"` (`Zero`), gets no listener (`Pass`).  A process outside the daemon takes and leaves
ports at any time.  `Take` is the critical section of `tcpHandle.Close`.

### `SPDYForwarder`

`Open` starts the goroutine and selects on `readyCh`, `errCh` and the request's
context.  `Dial`, `Listen`, `Listened`, `Stopped`, `LosesConnection`, `Unlisten` and
`Returned` are client-go's `ForwardPorts`, modelled from how `Open` uses it: it warns
of a port that is taken, is ready if any port was bound, looks at `stopCh` only once
it serves, and gives the ports back when it returns.  `SendError` and `CloseErrCh` are
the goroutine's own end.  `Close` may come more than once (registry and Shutdown).

### `PodNames` and `PodSpecs`

A text is a sequence of characters, of which the model keeps one or two of each class
the code tells apart.  `PodSpecs` follows one `/create` through `Build` – the image it must
have (`ImageRefused`), the name, the map of bindings, the map of exposed ports, the sort,
the CPU limit, the user – then through `allocateHostPorts` in one step (`HostPorts` has it listen by listen).  Go walks
a map in an order of its own and `sort.Slice` is not stable: `Bind` and `Expose` take any
key that is left, `Sort` any order that is sorted.  `Again` sends the same request a
second time, and `earlier` remembers what came of the first.  `Milli` adds as int64 does:
`Wrapped` is the overflow, `MaxInt` the largest number, a parameter.  `SummaryPorts` and
`PortsBindings` are what ps and inspect show.

### `Execs`

`<<e, t>>` is the t-th `/exec/{id}/start` of session `e`; the code never refuses a
second one.  How `Pods.Exec` ends is nondeterministic.  The session store is never
pruned, and is empty after a restart.

### `Images`

A reference is its path, by segments, and what follows it: nothing, `:tag`, `@digest`, or
whatever else `buildRef` makes of a name that has one of these already.  An ID is a
sequence of digits, unique per reference (a hash without collisions).  `Create` and
`Delete` are the handlers, `Find` and `Removed` the two lookups the store writes out
separately.  `Sent` are the pulls: `BuildRef` looks for a digest in `fromImage` only, so
a digest sent as `tag` follows a colon, and a tag in `fromImage` is followed by another.
`Marked` is `ContainsAny(name, ":@")`: the colon may be that of a registry's port.
`shelf` is a history variable: what the clients pulled, by pulls that `buildRef` joins as
they were meant (`Proper`), and did not remove, by the
meaning docker's reference grammar gives the names (`Meaning`), independently of the
prefixes `canonicalRef` cuts.  `PathsAreNames` says which paths there are: those that
begin with a registry, and names of the hub, alone or after one prefix of the hub, that
begin neither as a prefix nor as a registry does; after `library` a name is one segment.
It leaves out paths such as `library/library/x`, which a client cannot send
(`store.go:66-68`), and `docker.io/docker.io/x`, `docker.io/ghcr.io/x`,
`docker.io/library/x/y` or an image called `library`, of which `canonicalRef` would cut
more than docker's grammar does and take two images for one.

## Runs

| Run | Instance | Shows |
|---|---|---|
| `Generations` | 2 `/create`, 2 `/start`, 1 `/kill`, one name | two generations of a container under all interleavings: types, `RegisteredOpen`, `WatchedForwarder`, `NoLeakedHandle`, and that the handlers implement `ContainerLife` (`LifeCycle`) |
| `Failures` | 1 `/create`, 2 `/start`, 1 `/stop`, an entry that may expire, a failed call, a stuck pod, a restart | the handlers refine `PendingSpec` and `RegistrySpec`; `NeverComesBack` |
| `Expiry` | 2 `/create` with different `--name`s of one pod name, an impatient `/start`, a `DELETE`, an observer, the reaper of either entry, a failed call | `SignalOnce`, `NoDisplacement`, `NoShadowedPod`, `NoFalseNotFound`, `ListedOnce` |
| `PortRelease` | 1 `/create`, 2 `/start`, 1 `/kill`, a failed call, fair | `HostPortReleased` |
| `Subscribers` | anonymous TTY container, 2 `/start`, `/attach`, an impatient `/wait?condition=removed`, a failed call, a pod that may be stuck, fair | `StartReleasesWaiters` |
| `HostPorts` | 2 containers, 3 `Open`s (two of one container), a mapping that is no number and one that is the number 0, 2 ports, 1 foreign process, 1 connection, fair | `RandomPortsDiffer`, `SamePortsFromPod`, `AllOrNothing`, `NoFalseAlarm`, `PortsGivenBack` |
| `SPDY` | 3 `Open`s (two contend for a port, one has nothing to bind), 2 ports, 1 foreign process, fair | `StoppedOnce`, `OpenServes`, `LeavesNothing`, `OpenReturns` |
| `PodSpecs` | 386 requests, each sent twice: no image, names around the limit, bindings and exposed ports under several spellings, CPU limits around a thousandth and at the end of the integers, users | `SameOutcome`, `PublishedAsBound`, `InspectAgrees`, `ValidNames`, `NamedAfterImage`, `CPUAsAsked` |
| `Execs` | 2 sessions, 2 starts each, 1 restart | `OwnExitCode`, `RunningIsRun` |
| `Images` | 12 spellings of 5 images (one at a registry with a port), 2 tags and a digest, pulls as clients send them, ID prefixes | `FoundAsPulled`, `RemovesWhatItShows` |
| `StartedSignal`, `WatcherCloses` | two `/start` of one container; in the second also a `/kill` | each refutes one sentence of the repository, see *Findings* |

### Bounds, and why they are enough

* Names: one pod name is where all the conflicts are, since nothing in the code
  relates containers of different pod names except the `--name`, for which a second
  name is added (`Alias`, which sanitizes to the same pod name).
* Requests: each property involves two generations of a container, so two `/create`
  or two `/start`; a third of a kind repeats a role that one of them already plays.
  The theorems need no such bound.
* `Stale` (entries that may expire), `MaxFaults`, `MaxRestarts`, `MaxBroken` and
  `Fates` (the phases a pod may reach) bound the environment; each run switches on
  what its question needs.  The passing runs together fire every action.
* Symmetry is used in `Generations` only, over requests of one kind that differ in
  nothing; its one temporal property, `LifeCycle`, is a safety property and treats them
  alike.
* `Expiry` has one observer: it takes each endpoint in turn over the behaviours, and
  observers do not see each other but for the entries they reap.  The two `--name`s share
  a pod name, so that a reference may mean either container.
* `PodSpecs` scales the lengths: names of 8 characters for 63, a suffix of 2 for 6, `d`
  for `dink`, and integers of 31 bits for 64; the requests then have names on both sides of
  every cut, with dashes at it, and CPU limits on both sides of the overflow.
  Ports are spelt `80`, `80/tcp` and `80/udp`, at both ends of their range and beyond.
* `SPDY` has two ports for two contenders and a foreign process, so that an `Open` gets
  all, some or none of its ports.
* `HostPorts` has two ports for three opens and a foreign process, so that every
  listen can fail; `Execs` has two sessions, so that one may disturb the other, and two
  starts each; `Images` spells its images in the ways `hubPrefixes` knows, and has each kind
  of pull at least once.
* Deadlock checking is off where a run ends with every request served, that is
  everywhere but in `Images`.

### Fairness

`FairSpec` of `Containers` is weak fairness of `Step(r)`, every step the daemon can
take for a request: goroutines are scheduled, polls come round, apiserver calls
answer.  Nothing is assumed of clients (`Arrive`), of the kubelet, of failures or of
time: a pod may stay unready for ever.  `FairSpec` of `TCPForwarder` assumes that
`Open` and `Close` go on, that a loop whose `Accept` returned sees it, and that a
dial ends (it has a timeout, `tcp.go:46`); when a `Close` comes, and when the ends
of a connection close it, is left open.  `FairSpec` of `SPDYForwarder` assumes that
the select of an `Open` and its goroutine go on, which includes that a dial ends one
way or the other: the apiserver answers, or the connection breaks.  It assumes nothing
of clients, of the moment of a `Close`, of lost connections or of other processes.

## Findings

Each is a run whose one property quotes a text of the repository.

* `StartedSignal` – two `/start` of one pending entry: the loser's AlreadyExists
  settles it as failed, so waiters get an error although the pod runs
  (`containers.go:234`, against `Design.md:294`).
* `WatcherCloses` – a watcher sees its pod gone after a `/kill`; before it closes, a
  `/start` posts a successor, opens a forwarder to it and registers it; the watcher closes
  that one, by its container ID, and the running container has lost its ports
  (`containers.go:672`, against `Design.md:273`).

Five more places where the code does less than a text says.  No run refutes them: each is
an exception that the property named here makes, and a hazard of `PROJECT.json`.

* A `Get` that fails makes `FindByID` fall through to a List that does not match pod names:
  `DELETE`, `/stop` or `/kill` may answer that there is no such container, where
  `containers.go:401` has "404s only if neither exists".  `NoFalseNotFound` excuses requests
  whose Get failed.
* `tcpHandle.Close` leaves proxied connections running until both their ends close
  (`tcp.go:101`), where `forwarder.go:16` says that a handle stops every goroutine.
  `PortsGivenBack` is about the ports.
* An SPDY forwarder that gets some of its ports serves those (`spdy.go:83`), where
  `Design.md:255-258` opens one for every `-p`.  `OpenServes` asks for one port.
* A generated name over 63 characters loses part of its random suffix or all of it and may
  end in a dash (`name.go:41`), where `Design.md:129` and `219` promise
  `dink-<image-base>-<hex6>`.  `ValidNames` leaves out the names that the cut ends after
  that dash, `NamedAfterImage` takes the cut as it is.
* An image pulled from a registry with a port and asked for without a tag is not found,
  because the port's colon passes for a tag's (`store.go:114`), where `Design.md:139` has a
  `:latest` fallback; a digest that the client sends as `tag` is recorded after a colon
  (`images.go:132`), where the comment above promises the way the docker CLI sends them.
  `FoundAsPulled` leaves both out.

Other behaviours the models reach, on which the texts are silent, or which they acknowledge,
or whose text is one of those above; they too are among the hazards:

* a pod replaced between two polls of its watcher is never seen gone, and `/start` keeps
  a forwarder that dials the old address (`containers.go:641`), the converse of
  `WatcherCloses`;
* a random port that another process takes before `/start` listens fails every `/start`
  (`containers.go:697`), a race that `Design.md:50` knows;
* a removal answers 204 while a `/start` posts the pod (`pending.go:166`): the claim
  of `ContainerLife`;
* of two concurrent `/start` of a running container one fails on the other's listener
  (`containers.go:651`);
* a `--rm` waiter deletes the successor of the pod it waited for (`containers.go:324`);
* an exec session started twice reports the first end while the other command runs
  (`exec.go:131`);
* an SPDY forwarder that loses its connection leaves a dead handle registered
  (`spdy.go:76`);
* inspect shows only the last host port of a container port (`summary.go:223`), and two
  spellings of one exposed port are two mappings (`spec.go:206`);
* a CPU limit within a thousandth of a CPU of the largest int64 becomes a negative one
  (`spec.go:145`).

## Proofs

Every safety property of every passing run is stated by a theorem, for any sets of names
and requests, texts and paths of any length and any bounds, from the assumptions named in
the modules:

* of the containers: `NoneIsNothing`, `NamesAreNames`, `SanitizedNames` (`SanitizeName` is
  a function and fixes its own results, as `PodSpecsProofs` shows of the real one),
  `FatesArePhases`, `NoneIsNoPod`, `RequestKinds` (the kinds of requests are disjoint),
  `NoneIsNoAnswer`, `ObserverKinds`;
* of the forwarders and execs: `PortsAsked`, `OpensOfContainers`, `PortsOfOpens`,
  `ExecBounds`;
* of pods: `Characters` (the classes of characters that `name.go` tells apart, a random
  suffix of a fixed length, `dink` shorter than the limit), `PortTexts` (which texts of a
  host port leave it unset, and that `Rank` orders them), `Width` (of integers),
  `RequestsAreWhole` (a JSON request's maps are finite), `ImagesAreReferences` (where the
  component of an image's path is);
* of images: `IdsAreUnique` (no ID is a prefix of another), `PathsAreNames`,
  `SentAreSpelled`.

A proof module holds the invariant of its component and what it rests on:

* `ContainersProofs`
  * `PendingTypeCorrect`; from it `SettledOnce` and `NobodyDisplaced`.  The type invariant
    of the store carries the index fact that makes `NoDisplacement` true: an entry is only
    ever stored under its own pod name.
  * `RegisteredStaysOpen`, inductive with the registry's types.
  * `TypeCorrect` – inductive once `Bound` is added: a request past its lookup knows
    its entry and its target.  `PendingUse` reduces the store's part to `PendingStore`.
  * `EveryForwarderWatched` and `NoHandleLeaks` from `ForwardInv`: handles are fresh
    until the listen (`Fresh`), open at the Set (`Opening`), registered ones are open
    and watched by their own `/start`, and a detached one is in the hands of exactly
    one closer (`Closing`).  The watcher clause is needed because a `/start`'s place
    turns into its watcher's, and the fresh clause because `Listen` must find the
    handle unused.
  * `ImplementsRegistry` – with `ForwardInv`, each step is a step of `RegistryNext`
    or a stutter; `ImplementsPending` likewise, and so `SettledForEveryHandler`.
* `LifeProofs`
  * `NothingShadowed` – `ShadowInv` adds that a `/create` that has not finished has
    not answered; then only a POST can put a pod beside an entry, and the `/start`
    that does it is in flight until it has dropped the entry.
  * `ImplementsLifeCycle` – each step of the handlers is a step of `LifeNext` under the
    mapping, or a stutter, from `TypeInv` and `ClaimInv`: a `/start` about to post holds
    an entry, and posts under that entry's pod name.  A step that stages nothing is a
    `Drop` of what it unstages (`StagesDropped`), because a staged entry was reserved
    before, which the pending store's types carry; the lookup of a `/start` is a `Claim`, a
    POST a `Realize`, whether it succeeds or not, a DELETE a `Vanish`, a restart
    `LoseMemory`.
  * `GoneForGood` – from it and the abstract specification alone: no step of `LifeNext`
    brings back what ended.
* `ObserversProofs` – an observer's step does nothing to the handlers' state but reap
  (`ObserveLooks`), so everything above holds beside observers: `LookingIsHarmless`,
  `LookingLivesOn`.  The rest is about two lookups, one after the other, while `/start`
  moves a container from the store to the cluster.
  * `RealizeInv` says where a container can be.  A container in both places is in the
    hands of a `/start` that has posted its pod and not dropped its entry (`Realizing`,
    with `FlightNamed`: it drops the entry of that very pod), and what is a pod was staged
    once (`Born`).  By `LifeGoesOn` a container that left the store never returns to it.
  * `LookInv` says what each lookup has excluded.  What was there all the while still is
    (`StillThere`); what the store did not show has left it (`MissedInStore`), so it is a
    pod, and remains one; what the Get did not show bears another name (`MissedByName`),
    so the List shows it: `NotFoundIsTrue`.  What a List of the pods showed has left the
    store, and what it did not show is still no pod (`HalfListed`), so the read of the
    store that follows counts it if the List did not: `ListsEachOnce`, `ObserversTypeCorrect`.
    The order of the reads matters to both: the store first to find, the pods first to list.
* `TCPForwarderProofs` – `TCPTypeCorrect`, `DifferentPorts`, `OnePortList`, `AllPortsOrNone`,
  `OnlyRealAlarms`, from one invariant over both modules: a `/create` still holds what
  it was given while it allocates (`Drawn`), the entry and the annotation agree once
  it is created (`Settled`), a handle holds exactly the ports in its listeners and in
  the hands of its `Close`, those of its first mappings until it is closed
  (`Holding`), and an accept loop whose handle is not closed has its listener
  (`Looping`).  `AllOrNothing` needs `Holding`, because `BindFails` and `Close` give
  the ports back one at a time.
* `SPDYForwarderProofs` – `SPDYTypeCorrect`, `StopsOnce`, `HandlesServe`: an Open that is
  under way and a handle that is not closed have stopped nothing (`StopInv`), and what
  is ready serves until it is stopped or fails, holding a port (`ServeInv`).
* `ExecsProofs` – `ExecTypeCorrect`, `OwnOutcome` and `ReportedRunsAreRun` from
  `ExecInv`: a start that is under way is of a session that was created (`Begun`), and
  what the only start of a session recorded stays (`Recorded`), which holds from the
  recording on, before the connection closes.
* `ImagesProofs` – `ImagesTypeCorrect`, `EverySpellingFinds`, `DeletesWhatItShows`.
  Whichever prefix of the hub a path has, what `canonicalRef` leaves of it has none
  (`CanonicalIsPlain`), names the same image, and is the only such path that does
  (`PlainPathsDiffer`): hence two spellings of one image have one record and two images
  two.  `ImagesInv` keeps that the records are canonical and that the images they mean are
  those on the `shelf`, besides those of pulls that are not `Proper`, which no spelling
  means; no ID being a prefix of another, a prefix removes one record at
  most, the one it finds.
* `PodSpecsProofs`
  * `NamesAreValid` – whatever the text, the fold of `Sanitize` gives one without two
    dashes in a row (`DashedIsClean`), and gives a text back that is so already
    (`DashedOfClean`); trimming, cutting at the limit and trimming again keep that, hence a
    result is a name and is its own result.  A generated name is `dink`, a dash, the
    image's base and the suffix, cut: it ends in a character of the suffix or of the base,
    unless just the dash between them is left, and dashes never meet.
  * `NamesShowTheImage` – the component that `ImageBase` looks for from the end is the only
    part of a reference between its last slash and its tag or digest (`OneComponent`).
  * `PodSpecsTypeCorrect`, `InspectShowsTheBindings`, `PublishedOnce` – from `WalkInv`: the
    mappings made so far are in one-to-one correspondence (`Laid`) with their `Sources`, the
    host sides of the bindings walked and the keys exposed that no binding has.  A step of
    either walk adds its sources (`LaidBind`, `LaidExpose`), a sort keeps the
    correspondence (`LaidInAnyOrder`), so the number of mappings of a port is the sum over
    the keys that spell it (`SumIsCount`).
  * `SameRequestSameMappings` – two sorted sequences with the same elements equally often
    are equal (`SortedOnce`): at the first place where they differ each would have to find,
    further on, room for one more of the smaller elements.  This needs that the code's order
    tells any two mappings apart, which `Rank` gives.
  * `CPURoundsUp` – the division rounds up (`CeilDiv`), and a sum that wraps is negative.

The library states induction for an operator, which the provers cannot instantiate.  Here
`InductionOnNat` shows instead that the set of numbers with a property is all of `Nat`, by
its least missing number (`LeastNumber`, from the well-foundedness of strict inclusion
between finite sets); `FoldExists` uses it to show that a fold of the community modules is
a function that satisfies its own equation, after which folds unfold one step at a time.
The lengths of texts and the cardinalities of sets are then the numbers of ordinary
inductions.

Only model-checked: the five liveness properties, `HostPortReleased`,
`StartReleasesWaiters`, `PortsGivenBack`, `LeavesNothing` and `OpenReturns`, which rest on
fairness and so on ENABLED, out of the prover's reach; and the two refuted claims under
*Findings*, whose counterexamples are TLC's.

## Not modelled

* The network store: a map under a mutex.  Its one hazard, Has and then Record of two
  concurrent creates (`networks.go:38`), ends in two 201 for one network, against which no
  text speaks.
* Client set-up, routing, events, info and version, flags, socket and logger: no state
  after start-up, or answers that depend on none.
* API types, and the fields of summaries and inspections other than the ports: copies of
  annotations, times and wording.
* Label filters of listings, listings without `all=1`, resize, and the contents of every
  stream.

`PROJECT.json` gives the reason for each part.

## Plan

Done, in this order: pending store, registry, cluster, container handlers, their
proofs, host ports and TCP forwarder, exec sessions, images; then the abstract life cycle
and its refinement, with the proof, the observers, pod names and pod construction, the SPDY
forwarder with its proofs; then the proofs of the observers, of images and of pods.

What is left:

1. Safety halves of the liveness properties that can be proved: that a place where a
   request waits has a step that ends the wait, as an invariant beside `HostPortReleased`
   and `StartReleasesWaiters`.
2. `SortedOnce` and the fold lemmas of `PodSpecsProofs` in a form that other folds can cite
   (`DashedSteps` and `DedupSteps` are two instances of one argument).
3. `Networks`, should its handlers come to promise something to concurrent creates.
