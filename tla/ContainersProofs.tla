-------------------------- MODULE ContainersProofs --------------------------
(***************************************************************************)
(* The pending store and the forwarder registry, and the handlers that     *)
(* share them, for any number of names, requests, faults and restarts:     *)
(* their types, where every open forwarder is, and that they use the store *)
(* and the registry as those expect.                                       *)
(***************************************************************************)
EXTENDS ContainersProperties, TLAPS

-----------------------------------------------------------------------------
(***************************************************************************)
(* The pending store by itself, whoever calls it, for every set of names   *)
(* and entries.                                                            *)
(***************************************************************************)
\* The reaper only takes entries away and settles open ones: the store and the
\* signals it leaves have their types.
LEMMA SweptType ==
    ASSUME PendingTypeOK
    PROVE  /\ Swept \in [Names -> Creates \cup {None}]
           /\ SweptSignal \in [Creates -> Signals]
           /\ \A n \in Names : Swept[n] \in {store[n], None}
           /\ \A c \in Creates : signal[c] # "open" => SweptSignal[c] = signal[c]
           /\ \A c \in Creates : signal[c] # "unborn" => SweptSignal[c] # "unborn"
  BY DEF PendingTypeOK, Swept, SweptSignal, Settle, Signals, Settlements

\* Settling an entry leaves the others alone, and a settled one too.
LEMMA SettleType ==
    ASSUME PendingTypeOK, NEW c \in Creates, NEW why \in Settlements
    PROVE  /\ Settle(signal, c, why) \in [Creates -> Signals]
           /\ \A d \in Creates : signal[d] # "open" => Settle(signal, c, why)[d] = signal[d]
           /\ \A d \in Creates : signal[d] # "unborn" => Settle(signal, c, why)[d] # "unborn"
  BY DEF PendingTypeOK, Settle, Signals, Settlements

LEMMA PendingTypeInit == PendingInit => PendingTypeOK
  BY NoneIsNothing DEF PendingInit, PendingTypeOK, Signals

LEMMA PendingTypeStep == PendingTypeOK /\ [PendingNext]_pendingVars => PendingTypeOK'
<1> SUFFICES ASSUME PendingTypeOK, [PendingNext]_pendingVars
             PROVE  PendingTypeOK'
  OBVIOUS
<1> USE NoneIsNothing, NamesAreNames
<1>1. ASSUME NEW c \in Creates, Reserve(c), UNCHANGED expired
      PROVE  PendingTypeOK'
  <2>1. store' \in [Names -> Creates \cup {None}] /\ signal' \in [Creates -> Signals]
    BY <1>1, SweptType DEF Reserve, PendingTypeOK, Signals
  <2>2. \A n \in Names : store'[n] # None => PodName[store'[n]] = n /\ signal'[store'[n]] # "unborn"
    <3> TAKE n \in Names
    <3>1. CASE n = PodName[c]
      BY <3>1, <1>1, SweptType DEF Reserve
    <3>2. CASE n # PodName[c]
      <4>1. store'[n] \in {store[n], None}
        BY <3>2, <1>1, SweptType DEF Reserve
      <4>2. \A d \in Creates : signal[d] # "unborn" => signal'[d] # "unborn"
        BY <1>1, SweptType DEF Reserve, PendingTypeOK
      <4> QED BY <4>1, <4>2 DEF PendingTypeOK
    <3> QED BY <3>1, <3>2
  <2> QED BY <2>1, <2>2, <1>1 DEF PendingTypeOK
<1>2. ASSUME Reap, UNCHANGED expired
      PROVE  PendingTypeOK'
  BY <1>2, SweptType DEF Reap, PendingTypeOK
<1>3. ASSUME NEW c \in Creates, NEW why \in Settlements,
             signal' = Settle(signal, c, why), UNCHANGED <<store, expired>>
      PROVE  PendingTypeOK'
  BY <1>3, SettleType DEF PendingTypeOK
<1>4. ASSUME NEW n \in Names, Remove(n), UNCHANGED <<signal, expired>>
      PROVE  PendingTypeOK'
  BY <1>4 DEF Remove, PendingTypeOK
<1>5. ASSUME NEW c \in Creates, Age(c), UNCHANGED <<store, signal>>
      PROVE  PendingTypeOK'
  BY <1>5 DEF Age, PendingTypeOK
<1>6. ASSUME Forget, UNCHANGED <<signal, expired>>
      PROVE  PendingTypeOK'
  BY <1>6 DEF Forget, PendingTypeOK
<1>7. CASE UNCHANGED pendingVars
  BY <1>7 DEF pendingVars, PendingTypeOK
<1> QED
  BY <1>1, <1>2, <1>3, <1>4, <1>5, <1>6, <1>7
     DEF PendingNext, MarkStarted, MarkFailed, Settlements

\* The type invariant, staged entries under their own pod name included.
THEOREM PendingTypeCorrect == PendingSpec => []PendingTypeOK
  BY PendingTypeInit, PendingTypeStep, PTL DEF PendingSpec

\* startCh is closed at most once, by whichever handler or reaper comes first,
\* and every waiter reads the same outcome: for any number of requests.
THEOREM SettledOnce == PendingSpec => SignalOnce
<1>1. PendingTypeOK /\ [PendingNext]_pendingVars =>
        [\A c \in Creates : signal[c] \in Settlements => signal'[c] = signal[c]]_signal
  <2> SUFFICES ASSUME PendingTypeOK, [PendingNext]_pendingVars,
                      NEW c \in Creates, signal[c] \in Settlements
               PROVE  signal'[c] = signal[c]
    OBVIOUS
  <2>0. signal[c] \notin {"open", "unborn"}
    BY DEF Settlements
  <2>1. ASSUME NEW d \in Creates, Reserve(d)
        PROVE  signal'[c] = signal[c]
    <3>1. c # d
      BY <2>0, <2>1 DEF Reserve
    <3> QED BY <3>1, <2>0, <2>1, SweptType DEF Reserve, PendingTypeOK
  <2>2. CASE Reap
    BY <2>0, <2>2, SweptType DEF Reap
  <2>3. ASSUME NEW d \in Creates, NEW why \in Settlements, signal' = Settle(signal, d, why)
        PROVE  signal'[c] = signal[c]
    BY <2>0, <2>3, SettleType
  <2>4. CASE UNCHANGED signal
    BY <2>4
  <2> QED
    BY <2>1, <2>2, <2>3, <2>4
       DEF PendingNext, MarkStarted, MarkFailed, pendingVars, Settlements
<1> QED BY <1>1, PendingTypeCorrect, PTL DEF PendingSpec, SignalOnce

\* reserve never displaces a staged entry that has not expired, however the two
\* names are spelled.
THEOREM NobodyDisplaced == PendingSpec => NoDisplacement
<1>1. PendingTypeOK /\ [PendingNext]_pendingVars =>
        [\A n \in Names : store[n] # None /\ store[n] \notin expired
                            => store'[n] \in {store[n], None}]_store
  <2> SUFFICES ASSUME PendingTypeOK, [PendingNext]_pendingVars,
                      NEW n \in Names, store[n] # None, store[n] \notin expired
               PROVE  store'[n] \in {store[n], None}
    OBVIOUS
  <2> USE NamesAreNames
  <2>1. ASSUME NEW c \in Creates, Reserve(c)
        PROVE  store'[n] \in {store[n], None}
    <3>1. Swept[n] = store[n]
      BY DEF Swept
    <3>2. n # PodName[c]
      BY <3>1, <2>1 DEF Reserve, Vacant
    <3> QED BY <3>1, <3>2, <2>1, SweptType DEF Reserve
  <2>2. CASE Reap
    BY <2>2, SweptType DEF Reap
  <2>3. ASSUME NEW m \in Names, Remove(m)
        PROVE  store'[n] \in {store[n], None}
    BY <2>3 DEF Remove, PendingTypeOK
  <2>4. CASE Forget
    BY <2>4 DEF Forget
  <2>5. CASE UNCHANGED store
    BY <2>5
  <2> QED
    BY <2>1, <2>2, <2>3, <2>4, <2>5 DEF PendingNext, pendingVars
<1> QED BY <1>1, PendingTypeCorrect, PTL DEF PendingSpec, NoDisplacement

-----------------------------------------------------------------------------
(***************************************************************************)
(* The forwarder registry by itself: its guarantee to callers that keep its*)
(* discipline.                                                             *)
(***************************************************************************)
RegistryInv == RegistryTypeOK /\ RegisteredOpen

LEMMA RegistryInitially == RegistryInit => RegistryInv
  BY NoneIsNothing DEF RegistryInit, RegistryInv, RegistryTypeOK, RegisteredOpen, Has

LEMMA RegistryStep == RegistryInv /\ [RegistryNext]_registryVars => RegistryInv'
<1> SUFFICES ASSUME RegistryInv, [RegistryNext]_registryVars
             PROVE  RegistryInv'
  OBVIOUS
<1> USE NoneIsNothing DEF RegistryInv, RegistryTypeOK, RegisteredOpen, Has
<1>1. ASSUME NEW s \in Starts, Listen(s), UNCHANGED registry
      PROVE  RegistryInv'
  BY <1>1 DEF Listen
<1>2. ASSUME NEW n \in Names, NEW s \in Starts, Unbound(s), Set(n, s)
      PROVE  RegistryInv'
  BY <1>2 DEF Set, Unbound
<1>3. ASSUME NEW n \in Names, Detach(n), UNCHANGED handle
      PROVE  RegistryInv'
  BY <1>3 DEF Detach
<1>4. ASSUME NEW s \in Starts, Unbound(s), CloseHandle(s), UNCHANGED registry
      PROVE  RegistryInv'
  BY <1>4 DEF CloseHandle, Unbound
<1>5. CASE Shutdown
  BY <1>5 DEF Shutdown
<1>6. CASE UNCHANGED registryVars
  BY <1>6 DEF registryVars
<1> QED BY <1>1, <1>2, <1>3, <1>4, <1>5, <1>6 DEF RegistryNext

\* A forwarder that Has reports is open and belongs to that container alone.
THEOREM RegisteredStaysOpen == RegistrySpec => []RegisteredOpen
<1>1. RegistryInv => RegisteredOpen
  BY DEF RegistryInv
<1> QED BY <1>1, RegistryInitially, RegistryStep, PTL DEF RegistrySpec

-----------------------------------------------------------------------------
(***************************************************************************)
(* The handlers: their types first.                                        *)
(***************************************************************************)
\* A request past its lookup knows the container it works on.
Bound == \A r \in Clients :
    pc[r] \notin {"idle", "find", "scan", "done"} => entry[r] \in Creates /\ target[r] \in Names

TypeInv == TypeOK /\ Bound

LEMMA TypeInitially == Init => TypeInv
  BY NoneIsNothing, RequestKinds
     DEF Init, PendingInit, RegistryInit, ClusterInit, TypeInv, TypeOK, Bound, PendingTypeOK,
         RegistryTypeOK, ClusterTypeOK, Signals, Labels, Replies, Requests

-----------------------------------------------------------------------------
(***************************************************************************)
(* Types, one part of the state at a time.                                 *)
(***************************************************************************)

\* What a step may do to the pending store keeps its type: the operators of
\* PendingStore are used as PendingNext allows.
LEMMA PendingUse ==
    ASSUME TypeInv, [Next]_vars
    PROVE  [PendingNext]_pendingVars
<1> USE DEF pendingVars, Store
<1>1. ASSUME NEW c \in Creates, CreateReserve(c) \/ CreateRefused(c)
      PROVE  PendingNext
  BY <1>1 DEF CreateReserve, CreateRefused, Refuse, PendingNext
<1>2. ASSUME NEW r \in Clients, Lookup(r)
      PROVE  PendingNext
  BY <1>2 DEF Lookup, GetByRef, PendingNext
<1>3. ASSUME NEW c \in Creates, CreateStep(c)
      PROVE  [PendingNext]_pendingVars
  BY <1>3, NamesAreNames DEF CreateStep, CreateCheck, CreateConflict, PendingNext
<1>4. ASSUME NEW s \in Starts, StartStep(s)
      PROVE  [PendingNext]_pendingVars
  <2>1. CASE StartMark(s) \/ StartMarkFailed(s) \/ StartUnstage(s) \/ StartUnstageFailed(s)
    <3>1. entry[s] \in Creates /\ target[s] \in Names
      BY <2>1 DEF TypeInv, Bound, Clients, At, StartMark, StartMarkFailed, StartUnstage, StartUnstageFailed
    <3> QED
      BY <2>1, <3>1 DEF StartMark, StartMarkFailed, StartUnstage, StartUnstageFailed, PendingNext
  <2>2. CASE \/ StartPost(s) \/ StartPoll(s) \/ StartHas(s) \/ StartResolve(s)
             \/ StartListen(s) \/ StartSet(s) \/ WatchHas(s) \/ WatchGet(s)
    BY <2>2 DEF StartPost, StartPoll, StartHas, StartResolve, StartListen, StartSet, WatchHas, WatchGet
  <2> QED BY <1>4, <2>1, <2>2 DEF StartStep
<1>5. ASSUME NEW r \in Removers, RemoveStep(r)
      PROVE  PendingNext
  <2>1. entry[r] \in Creates /\ target[r] \in Names
    BY <1>5 DEF TypeInv, Bound, Clients, At, RemoveStep, MarkRemoved, DropEntry
  <2> QED BY <1>5, <2>1 DEF RemoveStep, MarkRemoved, DropEntry, PendingNext
<1>6. ASSUME NEW r \in Requests,
             \/ Find(r) \/ Scan(r) \/ CloseStep(r) \/ DeletePod(r) \/ FollowStep(r) \/ PollExit(r)
             \/ PollStarted(r) \/ Mishap(r)
      PROVE  UNCHANGED pendingVars
  BY <1>6 DEF Find, Scan, CloseStep, DetachForwarder, CloseForwarder, DeletePod, FollowStep, AwaitStart,
              StreamEnds, PollExit, PollStarted, Mishap, CreateCheckFails, FindFails, ScanFails, StartPostFails,
              StartFails, WatchGetFails, DeletePodFails, FollowFails, GiveUp
<1>7. ASSUME NEW r \in Requests, Step(r)
      PROVE  [PendingNext]_pendingVars
  BY <1>3, <1>4, <1>5, <1>6, <1>7 DEF Step
<1>8. ASSUME NEW n \in Names, Kubelet(n) \/ Evict(n)
      PROVE  UNCHANGED pendingVars
  BY <1>8 DEF Kubelet, Evict, Undisturbed
<1>9. ASSUME NEW c \in Creates, TimePasses(c)
      PROVE  PendingNext
  BY <1>9 DEF TimePasses, PendingNext
<1>10. CASE Restart
  BY <1>10 DEF Restart, PendingNext
<1>11. CASE UNCHANGED vars
  BY <1>11 DEF vars
<1> QED BY <1>1, <1>2, <1>6, <1>7, <1>8, <1>9, <1>10, <1>11 DEF Next, Arrive

\* The parts of TypeInv that are not the pending store's.
Typed ==
    /\ RegistryTypeOK
    /\ ClusterTypeOK
    /\ pc \in [Requests -> Labels]
    /\ entry \in [Requests -> Creates \cup {None}]
    /\ target \in [Requests -> Names \cup {None}]
    /\ held \in [Requests -> Starts \cup {None}]
    /\ upstream \in [Starts -> Starts \cup {None}]
    /\ reply \in [Requests -> Replies \cup {None}]
    /\ faults \in 0 .. MaxFaults
    /\ restarts \in 0 .. MaxRestarts
    /\ Bound

\* The names of labels, answers and phases, so that the proofs need not open
\* the sets.
LEMMA Vocabulary ==
    /\ "idle" \in Labels /\ "check" \in Labels /\ "conflict" \in Labels
    /\ "find" \in Labels /\ "scan" \in Labels /\ "post" \in Labels /\ "mark" \in Labels
    /\ "unstage" \in Labels /\ "fail" \in Labels /\ "unstageFailed" \in Labels
    /\ "poll" \in Labels /\ "has" \in Labels /\ "resolve" \in Labels
    /\ "listen" \in Labels /\ "set" \in Labels /\ "watchHas" \in Labels
    /\ "watchGet" \in Labels /\ "markRemoved" \in Labels /\ "drop" \in Labels
    /\ "detach" \in Labels /\ "close" \in Labels /\ "delete" \in Labels
    /\ "await" \in Labels /\ "exitPoll" \in Labels /\ "startPoll" \in Labels
    /\ "attached" \in Labels /\ "streaming" \in Labels /\ "done" \in Labels
    /\ "Created" \in Replies /\ "Unchecked" \in Replies /\ "Conflict" \in Replies
    /\ "NoContent" \in Replies /\ "NoPod" \in Replies /\ "NotFound" \in Replies
    /\ "Error" \in Replies /\ "PortInUse" \in Replies /\ "ExitCode" \in Replies
    /\ "Gone" \in Replies /\ "Ended" \in Replies /\ "Lost" \in Replies
    /\ "starting" \in Phases /\ "stuck" \in Phases /\ "running" \in Phases /\ "ready" \in Phases
    /\ "exited" \in Phases /\ "succeeded" \in Phases /\ "failed" \in Phases
  BY DEF Labels, Replies, Phases

LEMMA Kinds ==
    /\ Creates \subseteq Requests /\ Clients \subseteq Requests
    /\ Starts \subseteq Clients /\ Removers \subseteq Clients /\ Waiters \subseteq Clients
    /\ Attaches \subseteq Clients /\ AutoRms \subseteq Waiters
    /\ Creates \cap Clients = {} /\ None \notin Requests
    /\ Starts \cap (Removers \cup Waiters \cup Attaches) = {}
    /\ MaxFaults \in Nat /\ MaxRestarts \in Nat
  BY RequestKinds DEF Requests, Clients, Removers, Waiters

LEMMA NextLabels ==
    ASSUME NEW r \in Clients
    PROVE  /\ WithEntry(r) \in {"post", "markRemoved", "await"}
           /\ WithPod(r) \in {"poll", "detach", "exitPoll", "startPoll"}
  BY DEF WithEntry, WithPod, Clients

\* What the daemon and the kubelet do to pods keeps them pods.
LEMMA PostType ==
    ASSUME ClusterTypeOK, NEW n \in Names, NEW s \in Starts, NEW c \in Creates,
           Post(n, s, c) \/ UNCHANGED pods
    PROVE  ClusterTypeOK'
<1> DEFINE pod == [uid |-> s, spec |-> c, phase |-> "starting", deleting |-> FALSE]
<1>1. pod \in [uid : Starts, spec : Creates, phase : Phases, deleting : BOOLEAN]
  BY Vocabulary
<1>2. CASE Post(n, s, c)
  <2>1. pods' = [pods EXCEPT ![n] = pod]
    BY <1>2 DEF Post
  <2> HIDE DEF pod
  <2> QED BY <1>1, <2>1 DEF ClusterTypeOK
<1>3. CASE UNCHANGED pods
  BY <1>3 DEF ClusterTypeOK
<1> QED BY <1>2, <1>3

LEMMA PodChangeType ==
    ASSUME ClusterTypeOK, NEW n \in Names, Exists(n),
           \/ Gone(n) \/ Terminating(n)
           \/ \E after \in Phases : pods' = [pods EXCEPT ![n].phase = after]
    PROVE  ClusterTypeOK'
<1> DEFINE Pod == [uid : Starts, spec : Creates, phase : Phases, deleting : BOOLEAN]
<1>1. pods[n] \in Pod
  BY DEF ClusterTypeOK, Exists
<1>2. CASE Gone(n)
  BY <1>2 DEF Gone, ClusterTypeOK
<1>3. CASE Terminating(n)
  <2>1. [pods[n] EXCEPT !.deleting = TRUE] \in Pod
    BY <1>1
  <2>2. pods' = [pods EXCEPT ![n] = [pods[n] EXCEPT !.deleting = TRUE]]
    BY <1>3 DEF Terminating
  <2> QED BY <2>1, <2>2 DEF ClusterTypeOK
<1>4. ASSUME NEW after \in Phases, pods' = [pods EXCEPT ![n].phase = after]
      PROVE  ClusterTypeOK'
  <2>1. [pods[n] EXCEPT !.phase = after] \in Pod
    BY <1>1
  <2>2. pods' = [pods EXCEPT ![n] = [pods[n] EXCEPT !.phase = after]]
    BY <1>4
  <2> QED BY <2>1, <2>2 DEF ClusterTypeOK
<1> QED BY <1>2, <1>3, <1>4

LEMMA TypeStep == TypeInv /\ [Next]_vars => TypeInv'
<1> SUFFICES ASSUME TypeInv, [Next]_vars
             PROVE  TypeInv'
  OBVIOUS
<1>0. PendingTypeOK'
  BY PendingUse, PendingTypeStep DEF TypeInv, TypeOK
<1>T. Typed
  BY DEF TypeInv, TypeOK, Typed
<1> USE <1>T, Vocabulary, Kinds, NoneIsNothing, NamesAreNames
    DEF Typed, RegistryTypeOK, ClusterTypeOK, Bound, At, Goto, Reply, Silent, Finish, Resolved, Fault, Here, Store, Forwards,
        World, bounds, registryVars
<1>1. ASSUME NEW c \in Creates, CreateReserve(c) \/ CreateRefused(c)
      PROVE  Typed'
  BY <1>1 DEF CreateReserve, CreateRefused
<1>2. ASSUME NEW r \in Clients, Lookup(r)
      PROVE  Typed'
  BY <1>2, NextLabels DEF Lookup
<1>3. ASSUME NEW c \in Creates, CreateStep(c) \/ CreateCheckFails(c)
      PROVE  Typed'
  BY <1>3 DEF CreateStep, CreateCheck, CreateConflict, CreateCheckFails
<1>4. ASSUME NEW r \in Clients, Find(r) \/ FindFails(r) \/ Scan(r) \/ ScanFails(r)
      PROVE  Typed'
  <2>1. CASE Find(r)
    <3>1. Ref[r] \in Names /\ (Exists(Ref[r]) => pods[Ref[r]].spec \in Creates)
      BY RequestKinds DEF Exists
    <3> QED BY <2>1, <3>1, NextLabels DEF Find
  <2>2. CASE Scan(r)
    <3>1. \A n \in Matching(r) : n \in Names /\ pods[n].spec \in Creates
      BY DEF Matching, Exists
    <3> QED BY <2>2, <3>1, NextLabels DEF Scan
  <2>3. CASE FindFails(r) \/ ScanFails(r)
    BY <2>3 DEF FindFails, ScanFails
  <2> QED BY <1>4, <2>1, <2>2, <2>3
<1>5. ASSUME NEW s \in Starts, StartStep(s)
      PROVE  Typed'
  <2>1. CASE StartPost(s)
    <3>1. pods' = pods \/ Post(target[s], s, entry[s])
      BY <2>1 DEF StartPost
    <3>2. entry[s] \in Creates
      BY <2>1 DEF StartPost
    <3>3. target[s] \in Names
      BY <2>1 DEF StartPost
    <3>4. ClusterTypeOK'
      BY <3>1, <3>2, <3>3, PostType
    <3> QED BY <2>1, <3>4 DEF StartPost
  <2>2. CASE StartMark(s) \/ StartMarkFailed(s) \/ StartUnstage(s) \/ StartUnstageFailed(s)
    BY <2>2 DEF StartMark, StartMarkFailed, StartUnstage, StartUnstageFailed
  <2>3. CASE StartPoll(s) \/ StartHas(s)
    <3>1. CASE StartPoll(s)
      BY <3>1 DEF StartPoll
    <3>2. CASE StartHas(s)
      BY <3>2 DEF StartHas
    <3> QED BY <2>3, <3>1, <3>2
  <2>4. CASE StartResolve(s)
    <3>1. Exists(target[s]) => pods[target[s]].uid \in Starts
      BY <2>4 DEF StartResolve, Exists
    <3>2. \/ UNCHANGED upstream
          \/ Exists(target[s]) /\ upstream' = [upstream EXCEPT ![s] = pods[target[s]].uid]
      BY <2>4 DEF StartResolve
    <3>3. upstream' \in [Starts -> Starts \cup {None}]
      BY <3>1, <3>2
    <3>4. \E l \in {"listen", "done"} : Goto(s, l)
      BY <2>4 DEF StartResolve
    <3>5. reply' \in [Requests -> Replies \cup {None}]
      BY <2>4 DEF StartResolve
    <3>6. /\ UNCHANGED <<registry, handle, pods, entry, target, held, faults, restarts>>
          /\ entry[s] \in Creates /\ target[s] \in Names
      BY <2>4 DEF StartResolve
    <3>7. RegistryTypeOK' /\ ClusterTypeOK'
      BY <3>6
    <3>8. pc' \in [Requests -> Labels] /\ Bound'
      BY <3>4, <3>6
    <3> QED BY <3>3, <3>5, <3>6, <3>7, <3>8
  <2>5. CASE StartListen(s)
    BY <2>5 DEF StartListen, Listen
  <2>6. CASE StartSet(s)
    BY <2>6 DEF StartSet, Set, Has
  <2>7. CASE WatchHas(s) \/ WatchGet(s)
    BY <2>7 DEF WatchHas, WatchGet
  <2> QED BY <1>5, <2>1, <2>2, <2>3, <2>4, <2>5, <2>6, <2>7 DEF StartStep
<1>6. ASSUME NEW s \in Starts, StartPostFails(s) \/ StartFails(s) \/ WatchGetFails(s)
      PROVE  Typed'
  <2>1. CASE StartPostFails(s)
    <3>1. pods' = pods \/ Post(target[s], s, entry[s])
      BY <2>1 DEF StartPostFails
    <3>2. entry[s] \in Creates
      BY <2>1 DEF StartPostFails
    <3>3. target[s] \in Names
      BY <2>1 DEF StartPostFails
    <3>4. ClusterTypeOK'
      BY <3>1, <3>2, <3>3, PostType
    <3> QED BY <2>1, <3>4 DEF StartPostFails
  <2>2. CASE StartFails(s) \/ WatchGetFails(s)
    BY <2>2 DEF StartFails, WatchGetFails
  <2> QED BY <1>6, <2>1, <2>2
<1>7. ASSUME NEW r \in Removers, RemoveStep(r)
      PROVE  Typed'
  BY <1>7 DEF RemoveStep, MarkRemoved, DropEntry
<1>8. ASSUME NEW r \in Starts \cup Removers \cup AutoRms, CloseStep(r)
      PROVE  Typed'
  <2>1. CASE DetachForwarder(r)
    BY <2>1 DEF DetachForwarder, Detach, AfterClose
  <2>2. CASE CloseForwarder(r)
    BY <2>2 DEF CloseForwarder, CloseHandle, AfterClose
  <2> QED BY <1>8, <2>1, <2>2 DEF CloseStep
<1>9. ASSUME NEW r \in Removers \cup AutoRms, DeletePod(r) \/ DeletePodFails(r)
      PROVE  Typed'
  <2>1. ClusterTypeOK'
    <3>1. target[r] \in Names
      BY <1>9 DEF DeletePod, DeletePodFails
    <3>2. \/ UNCHANGED pods
          \/ Exists(target[r]) /\ (Gone(target[r]) \/ Terminating(target[r]))
      BY <1>9 DEF DeletePod, DeletePodFails
    <3>3. CASE UNCHANGED pods
      BY <3>3
    <3>4. CASE Exists(target[r]) /\ (Gone(target[r]) \/ Terminating(target[r]))
      BY <3>1, <3>4, PodChangeType
    <3> QED BY <3>2, <3>3, <3>4
  <2>2. Deleted(r) \in Replies
    BY DEF Deleted
  <2> QED BY <1>9, <2>1, <2>2 DEF DeletePod, DeletePodFails
<1>10. ASSUME NEW r \in Waiters \cup Attaches,
              FollowStep(r) \/ FollowFails(r) \/ PollExit(r) \/ PollStarted(r)
       PROVE  Typed'
  BY <1>10 DEF FollowStep, AwaitStart, StreamEnds, FollowFails, PollExit, PollStarted, AfterStart
<1>11. ASSUME NEW r \in Requests, GiveUp(r)
       PROVE  Typed'
  BY <1>11 DEF GiveUp
<1>12. ASSUME NEW n \in Names, Kubelet(n) \/ Evict(n)
       PROVE  Typed'
  <2>1. Exists(n) /\ (Gone(n) \/ \E after \in Phases : pods' = [pods EXCEPT ![n].phase = after])
    BY <1>12, FatesArePhases
       DEF Kubelet, KubeletReady, ContainerStarts, ContainerSticks, ContainerReady, ContainerExits,
           PhaseSettles, Reclaimed, Becomes, In, Evict, Evicted
  <2>2. ClusterTypeOK'
    BY <2>1, PodChangeType
  <2> QED BY <1>12, <2>2 DEF Kubelet, Evict, Undisturbed, requestVars
<1>13. ASSUME NEW c \in Creates, TimePasses(c)
       PROVE  Typed'
  BY <1>13 DEF TimePasses, requestVars
<1>14. ASSUME Restart
       PROVE  Typed'
  <2>1. RegistryTypeOK'
    BY <1>14 DEF Restart, Shutdown
  <2>2. pc' \in [Requests -> Labels] /\ \A r \in Requests : pc'[r] \in {"idle", "done"}
    BY <1>14 DEF Restart
  <2>3. reply' \in [Requests -> Replies \cup {None}]
    BY <1>14 DEF Restart
  <2>4. held' \in [Requests -> Starts \cup {None}]
    BY <1>14 DEF Restart
  <2>5. restarts' \in 0 .. MaxRestarts
    BY <1>14 DEF Restart
  <2>6. UNCHANGED <<pods, entry, target, upstream, faults>>
    BY <1>14 DEF Restart
  <2>7. \A r \in Clients : pc'[r] \in {"idle", "find", "scan", "done"}
    BY <2>2
  <2>8. Bound'
    BY <2>7
  <2> QED BY <2>1, <2>2, <2>3, <2>4, <2>5, <2>6, <2>8
<1> HIDE <1>T, Vocabulary, Kinds, NoneIsNothing, NamesAreNames
    DEF Typed, RegistryTypeOK, ClusterTypeOK, Bound, At, Goto, Reply, Silent, Finish, Resolved,
        Fault, Here, Store, Forwards, World, bounds, registryVars
<1>15. ASSUME UNCHANGED vars
       PROVE  Typed'
  <2>1. UNCHANGED <<registry, handle, pods, pc, entry>>
    BY <1>15 DEF vars
  <2>2. UNCHANGED <<target, held, upstream, reply, faults, restarts>>
    BY <1>15 DEF vars
  <2> QED BY <1>T, <2>1, <2>2 DEF Typed, RegistryTypeOK, ClusterTypeOK, Bound
<1>16. ASSUME NEW r \in Requests, Arrive(r)
       PROVE  Typed'
  BY <1>1, <1>2, <1>16 DEF Arrive
<1>17. ASSUME NEW r \in Requests, Step(r)
       PROVE  Typed'
  BY <1>3, <1>4, <1>5, <1>7, <1>8, <1>9, <1>10, <1>17 DEF Step
<1>18. ASSUME NEW r \in Requests, Mishap(r)
       PROVE  Typed'
  BY <1>3, <1>4, <1>6, <1>9, <1>10, <1>11, <1>18 DEF Mishap
<1>19. ASSUME Next
       PROVE  Typed'
  BY <1>12, <1>13, <1>14, <1>16, <1>17, <1>18, <1>19 DEF Next
<1>20. Typed'
  BY <1>15, <1>19
<1> QED BY <1>0, <1>20 DEF TypeInv, TypeOK, Typed

\* Every variable keeps its type, and a request past its lookup its container.
THEOREM TypeCorrect == Spec => []TypeOK
<1>1. TypeInv => TypeOK
  BY DEF TypeInv
<1> QED BY <1>1, TypeInitially, TypeStep, PTL DEF Spec

-----------------------------------------------------------------------------
(***************************************************************************)
(* Where open forwarders are.  WatchedForwarder and NoLeakedHandle are not *)
(* inductive by themselves: that Set never meets a handle another request  *)
(* is closing needs Closing, that a handle is new when it is opened Fresh. *)
(***************************************************************************)
Watching == {"watchHas", "watchGet", "detach"}
Late == Watching \cup {"set", "close", "done"}

Fresh == \A s \in Starts : pc[s] \notin Late => handle[s] = "none"
Opening == \A s \in Starts : pc[s] = "set" => handle[s] = "open"
RegisteredIsOpen == \A n \in Names : Has(n) => handle[registry[n]] = "open"
Closing == \A r \in Requests : pc[r] = "close" =>
    /\ held[r] \in Starts
    /\ handle[held[r]] = "open"
    /\ pc[held[r]] # "set"
    /\ \A n \in Names : registry[n] # held[r]
    /\ \A q \in Requests : pc[q] = "close" /\ held[q] = held[r] => q = r

ForwardInv ==
    /\ Fresh
    /\ Opening
    /\ RegisteredIsOpen
    /\ Closing
    /\ WatchedForwarder
    /\ NoLeakedHandle

LEMMA ForwardInitially == Init => ForwardInv
  BY NoneIsNothing, Kinds
     DEF Init, RegistryInit, ForwardInv, Fresh, Opening, RegisteredIsOpen, Closing,
         WatchedForwarder, NoLeakedHandle, Has, Late, Watching

\* What the typing says of the variables of this argument.
LEMMA ForwardTypes ==
    ASSUME TypeInv
    PROVE  /\ registry \in [Names -> Starts \cup {None}]
           /\ handle \in [Starts -> {"none", "open", "closed"}]
           /\ pc \in [Requests -> Labels]
           /\ target \in [Requests -> Names \cup {None}]
           /\ held \in [Requests -> Starts \cup {None}]
           /\ Starts \subseteq Requests
           /\ None \notin Starts
  BY Kinds, NoneIsNothing DEF TypeInv, TypeOK, RegistryTypeOK

\* Request r takes a step that touches no forwarder.
Apart(r) ==
    /\ UNCHANGED <<registry, handle, held>>
    /\ \A q \in Requests \ {r} : pc'[q] = pc[q] /\ target'[q] = target[q]
    /\ pc[r] # "close" /\ pc'[r] # "close"
    /\ r \in Starts => pc[r] \notin Late /\ pc'[r] \notin Late \ {"done"}

LEMMA ApartKeeps ==
    ASSUME TypeInv, ForwardInv, NEW r \in Requests, Apart(r)
    PROVE  ForwardInv'
<1> USE ForwardTypes DEF Apart
<1>1. \A s \in Starts : handle[s] # "none" => s # r
  BY DEF ForwardInv, Fresh
<1>2. \A s \in Starts : handle[s] # "none" => pc'[s] = pc[s] /\ target'[s] = target[s]
  BY <1>1
<1>3. Fresh' /\ Opening'
  BY DEF ForwardInv, Fresh, Opening, Late
<1>4. RegisteredIsOpen'
  BY DEF ForwardInv, RegisteredIsOpen, Has
<1>5. Closing'
  <2> SUFFICES ASSUME NEW q \in Requests, pc'[q] = "close"
               PROVE  /\ held'[q] \in Starts /\ handle'[held'[q]] = "open" /\ pc'[held'[q]] # "set"
                      /\ \A n \in Names : registry'[n] # held'[q]
                      /\ \A p \in Requests : pc'[p] = "close" /\ held'[p] = held'[q] => p = q
    BY DEF Closing
  <2>1. pc[q] = "close" /\ q # r
    OBVIOUS
  <2>2. /\ held[q] \in Starts /\ handle[held[q]] = "open" /\ pc[held[q]] # "set"
        /\ \A n \in Names : registry[n] # held[q]
        /\ \A p \in Requests : pc[p] = "close" /\ held[p] = held[q] => p = q
    BY <2>1 DEF ForwardInv, Closing
  <2> QED BY <2>1, <2>2, <1>2
<1>6. WatchedForwarder'
  <2> SUFFICES ASSUME NEW n \in Names, registry'[n] # None
               PROVE  target'[registry'[n]] = n /\ pc'[registry'[n]] \in Watching
    BY DEF WatchedForwarder, Has, Watching
  <2>1. registry[n] \in Starts /\ handle[registry[n]] = "open"
    BY DEF ForwardInv, RegisteredIsOpen, Has
  <2>2. target[registry[n]] = n /\ pc[registry[n]] \in Watching
    BY DEF ForwardInv, WatchedForwarder, Has, Watching
  <2> QED BY <2>1, <2>2, <1>2
<1>7. NoLeakedHandle'
  <2> SUFFICES ASSUME NEW s \in Starts, handle'[s] = "open"
               PROVE  \/ pc'[s] = "set" \/ registry'[target'[s]] = s
                      \/ \E q \in Requests : pc'[q] = "close" /\ held'[q] = s
    BY DEF NoLeakedHandle
  <2>1. \/ pc[s] = "set" \/ registry[target[s]] = s
        \/ \E q \in Requests : pc[q] = "close" /\ held[q] = s
    BY DEF ForwardInv, NoLeakedHandle
  <2>2. pc'[s] = pc[s] /\ target'[s] = target[s]
    BY <1>2
  <2> QED BY <2>1, <2>2
<1> QED BY <1>3, <1>4, <1>5, <1>6, <1>7 DEF ForwardInv

\* Open: a new handle, owned by the /start that is about to register it.
LEMMA ListenKeeps ==
    ASSUME TypeInv, ForwardInv, NEW s \in Starts, StartListen(s)
    PROVE  ForwardInv'
<1> USE ForwardTypes, Vocabulary DEF StartListen, At, Goto, Finish, Here
<1>1. ASSUME UNCHANGED registryVars, pc' = [pc EXCEPT ![s] = "done"]
      PROVE  ForwardInv'
  <2>1. UNCHANGED <<registry, handle, held, target>> /\ pc[s] = "listen"
    BY <1>1 DEF registryVars
  <2>2. Apart(s)
    BY <1>1, <2>1 DEF Apart, Late, Watching
  <2> QED BY <2>2, ApartKeeps
<1>2. ASSUME Listen(s), UNCHANGED registry, pc' = [pc EXCEPT ![s] = "set"]
      PROVE  ForwardInv'
  <2> USE <1>2 DEF Listen
  <2>0. handle[s] = "none" /\ UNCHANGED <<target, held>>
    OBVIOUS
  <2>1. \A n \in Names : registry[n] # s
    BY <2>0 DEF ForwardInv, RegisteredIsOpen, Has
  <2>2. \A r \in Requests : pc[r] = "close" => r # s /\ held[r] # s
    BY <2>0 DEF ForwardInv, Closing
  <2>3. Fresh' /\ Opening'
    BY DEF ForwardInv, Fresh, Opening, Late
  <2>4. RegisteredIsOpen'
    BY <2>0, <2>1 DEF ForwardInv, RegisteredIsOpen, Has
  <2>5. Closing'
    BY <2>0, <2>2 DEF ForwardInv, Closing
  <2>6. WatchedForwarder'
    BY <2>0, <2>1 DEF ForwardInv, WatchedForwarder, Has
  <2>7. NoLeakedHandle'
    BY <2>0, <2>2 DEF ForwardInv, NoLeakedHandle
  <2> QED BY <2>3, <2>4, <2>5, <2>6, <2>7 DEF ForwardInv
<1> QED BY <1>1, <1>2 DEF StartListen, Forwards

\* Set: the handle passes from its opener to the registry and its watcher, and
\* the one it replaces is closed.
LEMMA SetKeeps ==
    ASSUME TypeInv, ForwardInv, NEW s \in Starts, StartSet(s)
    PROVE  /\ ForwardInv'
           /\ target[s] \in Names /\ Unbound(s)
<1> USE ForwardTypes DEF StartSet, Set, At, Goto, Here
<1>0. pc[s] = "set" /\ UNCHANGED <<target, held>> /\ pc' = [pc EXCEPT ![s] = "watchHas"]
  OBVIOUS
<1>1. target[s] \in Names
  BY <1>0, Kinds DEF TypeInv, Bound
<1>2. handle[s] = "open" /\ \A n \in Names : registry[n] # s
  BY <1>0 DEF ForwardInv, Opening, WatchedForwarder, Has
<1>3. \A r \in Requests : pc[r] = "close" => held[r] # s /\ r # s
  BY <1>0 DEF ForwardInv, Closing
<1> DEFINE old == registry[target[s]]
<1>4. \A n \in Names : registry[n] = old /\ old # None => n = target[s]
  BY <1>1 DEF ForwardInv, WatchedForwarder, Has
<1>5. handle' = IF old # None THEN [handle EXCEPT ![old] = "closed"] ELSE handle
  BY DEF Has
<1>6. old # None => old \in Starts /\ old # s /\ pc[old] # "set" /\ pc[old] \in Late
  BY <1>0, <1>1, <1>2 DEF ForwardInv, WatchedForwarder, Has, Late, Watching
<1>7. Fresh'
  BY <1>0, <1>5, <1>6 DEF ForwardInv, Fresh, Late, Watching
<1>8. Opening'
  BY <1>0, <1>5, <1>6 DEF ForwardInv, Opening
<1>9. RegisteredIsOpen'
  BY <1>1, <1>2, <1>4, <1>5, <1>6 DEF ForwardInv, RegisteredIsOpen, Has
<1>10. Closing'
  BY <1>0, <1>1, <1>3, <1>5, <1>6 DEF ForwardInv, Closing
<1>11. WatchedForwarder'
  BY <1>0, <1>1, <1>2 DEF ForwardInv, WatchedForwarder, Has
<1>12. NoLeakedHandle'
  BY <1>0, <1>1, <1>3, <1>5, <1>6 DEF ForwardInv, NoLeakedHandle
<1> QED BY <1>1, <1>2, <1>7, <1>8, <1>9, <1>10, <1>11, <1>12 DEF ForwardInv, Unbound

\* The watcher leaves only when its container has no forwarder: not its own, then.
LEMMA WatchKeeps ==
    ASSUME TypeInv, ForwardInv, NEW s \in Starts, WatchHas(s) \/ WatchGet(s) \/ WatchGetFails(s)
    PROVE  ForwardInv'
<1> USE ForwardTypes
<1>0. /\ UNCHANGED <<registry, handle, held, target>>
      /\ pc[s] \in Watching
      /\ \E l \in Watching \cup {"done"} :
            pc' = [pc EXCEPT ![s] = l] /\ (l = "done" => registry[target[s]] = None)
  BY DEF WatchHas, WatchGet, WatchGetFails, At, Goto, Here, Forwards, registryVars, Has, Watching
<1>1. \A n \in Names : registry[n] = s => pc'[s] \in Watching
  BY <1>0, Vocabulary DEF ForwardInv, WatchedForwarder, Has
<1>2. pc'[s] \in Late \ {"set", "close"} /\ \A r \in Requests \ {s} : pc'[r] = pc[r]
  BY <1>0 DEF Late, Watching
<1>3. Fresh' /\ Opening'
  BY <1>0, <1>2 DEF ForwardInv, Fresh, Opening, Watching
<1>4. RegisteredIsOpen'
  BY <1>0 DEF ForwardInv, RegisteredIsOpen, Has
<1>5. Closing'
  BY <1>0, <1>2 DEF ForwardInv, Closing
<1>6. WatchedForwarder'
  BY <1>0, <1>1, <1>2 DEF ForwardInv, WatchedForwarder, Has, Watching
<1>7. NoLeakedHandle'
  BY <1>0, <1>2 DEF ForwardInv, NoLeakedHandle, Watching
<1> QED BY <1>3, <1>4, <1>5, <1>6, <1>7 DEF ForwardInv

\* Registry.Close, first half: the handle passes to the one request that took it.
LEMMA DetachKeeps ==
    ASSUME TypeInv, ForwardInv, NEW r \in Starts \cup Removers \cup AutoRms, DetachForwarder(r)
    PROVE  ForwardInv' /\ target[r] \in Names
<1> USE ForwardTypes, Kinds DEF DetachForwarder, Detach, At, Goto
<1> DEFINE h == registry[target[r]]
<1>0. /\ pc[r] = "detach" /\ UNCHANGED <<handle, target>>
      /\ held' = [held EXCEPT ![r] = h]
      /\ registry' = [registry EXCEPT ![target[r]] = None]
  OBVIOUS
<1>1. r \in Requests /\ r \in Clients /\ target[r] \in Names
  BY <1>0 DEF TypeInv, Bound
<1>2. /\ \A q \in Requests \ {r} : pc'[q] = pc[q]
      /\ h # None => pc'[r] = "close"
      /\ h = None => pc'[r] = AfterClose(r)
  BY <1>1 DEF Has
<1>3. AfterClose(r) \in {"done", "delete"} /\ (r \in Starts => AfterClose(r) = "done")
  BY DEF AfterClose
<1>4. h # None => /\ h \in Starts /\ handle[h] = "open" /\ pc[h] \in Watching
                  /\ \A n \in Names : registry[n] = h => n = target[r]
  BY <1>1 DEF ForwardInv, RegisteredIsOpen, WatchedForwarder, Has, Watching
<1>5. r \in Starts => \A n \in Names : registry[n] = r => n = target[r]
  BY NoneIsNothing DEF ForwardInv, WatchedForwarder, Has
<1>6. \A q \in Requests : pc[q] = "close" => q # r /\ held[q] # h
  BY <1>0, <1>1 DEF ForwardInv, Closing
<1>7. Fresh'
  BY <1>0, <1>2, <1>3 DEF ForwardInv, Fresh, Late, Watching
<1>8. Opening'
  BY <1>0, <1>2, <1>3 DEF ForwardInv, Opening
<1>9. RegisteredIsOpen'
  BY <1>0, <1>1 DEF ForwardInv, RegisteredIsOpen, Has
<1>10. WatchedForwarder'
  BY <1>0, <1>1, <1>2, <1>5 DEF ForwardInv, WatchedForwarder, Has
<1>11. NoLeakedHandle'
  <2> SUFFICES ASSUME NEW s \in Starts, handle'[s] = "open"
               PROVE  \/ pc'[s] = "set" \/ registry'[target'[s]] = s
                      \/ \E q \in Requests : pc'[q] = "close" /\ held'[q] = s
    BY DEF NoLeakedHandle
  <2>1. CASE s = h
    BY <2>1, <1>0, <1>1, <1>2
  <2>2. CASE pc[s] = "set"
    BY <2>2, <1>0, <1>2
  <2>3. CASE registry[target[s]] = s /\ s # h
    BY <2>3, <1>0, <1>1
  <2>4. CASE \E q \in Requests : pc[q] = "close" /\ held[q] = s
    BY <2>4, <1>0, <1>2, <1>6
  <2> QED BY <1>0, <2>1, <2>2, <2>3, <2>4 DEF ForwardInv, NoLeakedHandle
<1>12. Closing'
  <2> SUFFICES ASSUME NEW q \in Requests, pc'[q] = "close"
               PROVE  /\ held'[q] \in Starts /\ handle'[held'[q]] = "open" /\ pc'[held'[q]] # "set"
                      /\ \A n \in Names : registry'[n] # held'[q]
                      /\ \A p \in Requests : pc'[p] = "close" /\ held'[p] = held'[q] => p = q
    BY DEF Closing
  <2>1. \A p \in Requests \ {r} : held'[p] = held[p] /\ (pc'[p] = "close" => held'[p] # h)
    BY <1>0, <1>2, <1>6
  <2>2. CASE q = r
    <3>1. h # None /\ held'[r] = h
      BY <2>2, <1>0, <1>1, <1>2, <1>3
    <3>2. pc'[h] # "set"
      BY <3>1, <1>2, <1>3, <1>4 DEF Watching
    <3> QED BY <2>2, <3>1, <3>2, <1>0, <1>1, <1>4, <2>1
  <2>3. CASE q # r
    <3>1. pc[q] = "close" /\ held'[q] = held[q] /\ held[q] # h
      BY <2>3, <1>2, <2>1
    <3>2. /\ held[q] \in Starts /\ handle[held[q]] = "open" /\ pc[held[q]] # "set"
          /\ \A n \in Names : registry[n] # held[q]
          /\ \A p \in Requests : pc[p] = "close" /\ held[p] = held[q] => p = q
      BY <3>1 DEF ForwardInv, Closing
    <3>3. pc'[held[q]] # "set"
      BY <3>2, <1>2, <1>3
    <3>4. \A n \in Names : registry'[n] # held[q]
      BY <3>2, <1>0
    <3>5. \A p \in Requests : pc'[p] = "close" /\ held'[p] = held[q] => p = q
      BY <3>1, <3>2, <2>1, <1>0, <1>1, <1>2, <1>3
    <3> QED BY <3>1, <3>2, <3>3, <3>4, <3>5, <1>0
  <2> QED BY <2>2, <2>3
<1> QED BY <1>1, <1>7, <1>8, <1>9, <1>10, <1>11, <1>12 DEF ForwardInv

\* Registry.Close, second half: the handle is closed by the one that took it.
LEMMA CloseKeeps ==
    ASSUME TypeInv, ForwardInv, NEW r \in Starts \cup Removers \cup AutoRms, CloseForwarder(r)
    PROVE  ForwardInv' /\ held[r] \in Starts /\ Unbound(held[r])
<1> USE ForwardTypes, Kinds DEF CloseForwarder, CloseHandle, At, Goto
<1> DEFINE h == held[r]
<1>0. /\ pc[r] = "close" /\ r \in Requests /\ UNCHANGED <<registry, target>>
      /\ held' = [held EXCEPT ![r] = None]
      /\ handle' = [handle EXCEPT ![h] = "closed"]
      /\ pc' = [pc EXCEPT ![r] = AfterClose(r)]
  OBVIOUS
<1>1. AfterClose(r) \in {"done", "delete"} /\ (r \in Starts => AfterClose(r) = "done")
  BY DEF AfterClose
<1>2. /\ h \in Starts /\ handle[h] = "open" /\ pc[h] # "set"
      /\ \A n \in Names : registry[n] # h
      /\ \A q \in Requests : pc[q] = "close" /\ held[q] = h => q = r
  BY <1>0 DEF ForwardInv, Closing
<1>3. \A n \in Names : registry[n] # None => registry[n] # r
  BY <1>0 DEF ForwardInv, WatchedForwarder, Has
<1>4. Fresh'
  <2>1. pc[h] \in Late
    BY <1>2 DEF ForwardInv, Fresh
  <2> QED BY <2>1, <1>0, <1>1, <1>2 DEF ForwardInv, Fresh, Late, Watching
<1>5. Opening'
  BY <1>0, <1>1, <1>2 DEF ForwardInv, Opening
<1>6. RegisteredIsOpen'
  BY <1>0, <1>2 DEF ForwardInv, RegisteredIsOpen, Has
<1>7. Closing'
  BY <1>0, <1>1, <1>2 DEF ForwardInv, Closing
<1>8. WatchedForwarder'
  BY <1>0, <1>3 DEF ForwardInv, WatchedForwarder, Has
<1>9. NoLeakedHandle'
  BY <1>0, <1>1, <1>2 DEF ForwardInv, NoLeakedHandle
<1> QED BY <1>2, <1>4, <1>5, <1>6, <1>7, <1>8, <1>9 DEF ForwardInv, Unbound

\* The process ends: no handle stays open.
LEMMA RestartKeeps ==
    ASSUME TypeInv, ForwardInv, Restart
    PROVE  ForwardInv'
<1> USE ForwardTypes
<1>1. /\ \A n \in Names : registry'[n] = None
      /\ \A s \in Starts : handle'[s] # "open" /\ (handle[s] = "none" => handle'[s] = "none")
      /\ \A r \in Requests : pc'[r] \in {"idle", "done"} /\ (pc'[r] = "idle" => pc[r] = "idle")
  BY DEF Restart, Shutdown, At
<1>2. Fresh'
  BY <1>1 DEF ForwardInv, Fresh, Late, Watching
<1> QED
  BY <1>1, <1>2
     DEF ForwardInv, Opening, RegisteredIsOpen, Closing, WatchedForwarder, NoLeakedHandle, Has

\* Every other step of a request touches no forwarder.
LEMMA OtherSteps ==
    ASSUME TypeInv, NEW r \in Requests,
           \/ r \in Creates /\ (CreateReserve(r) \/ CreateRefused(r) \/ CreateStep(r) \/ CreateCheckFails(r))
           \/ r \in Clients /\ (Lookup(r) \/ Find(r) \/ Scan(r) \/ FindFails(r) \/ ScanFails(r))
           \/ r \in Starts /\ \/ StartPost(r) \/ StartMark(r) \/ StartUnstage(r) \/ StartMarkFailed(r)
                              \/ StartUnstageFailed(r) \/ StartPoll(r) \/ StartHas(r) \/ StartResolve(r)
                              \/ StartPostFails(r) \/ StartFails(r)
           \/ r \in Removers /\ RemoveStep(r)
           \/ r \in Removers \cup AutoRms /\ (DeletePod(r) \/ DeletePodFails(r))
           \/ r \in Waiters \cup Attaches /\ \/ FollowStep(r) \/ FollowFails(r)
           \/ r \in Waiters /\ PollExit(r)
           \/ r \in Attaches /\ PollStarted(r)
           \/ GiveUp(r)
    PROVE  Apart(r) /\ UNCHANGED registryVars
<1> USE ForwardTypes, Kinds
    DEF Apart, At, Goto, Finish, Resolved, Here, Forwards, registryVars, Late, Watching
<1>1. CASE r \in Creates /\ (CreateReserve(r) \/ CreateRefused(r) \/ CreateStep(r) \/ CreateCheckFails(r))
  BY <1>1 DEF CreateReserve, CreateRefused, CreateStep, CreateCheck, CreateConflict, CreateCheckFails
<1>2. CASE r \in Clients /\ (Lookup(r) \/ Find(r) \/ Scan(r) \/ FindFails(r) \/ ScanFails(r))
  <2>1. /\ WithEntry(r) # "close" /\ WithPod(r) # "close"
        /\ r \in Starts => WithEntry(r) = "post" /\ WithPod(r) = "poll"
    <3>1. r \in Starts => r \notin Removers \cup Waiters \cup Attaches
      OBVIOUS
    <3> QED BY <1>2, <3>1, NextLabels DEF WithEntry, WithPod
  <2>2. CASE Lookup(r)
    <3>1. UNCHANGED <<registry, handle, held>> /\ pc[r] = "idle"
      BY <2>2 DEF Lookup
    <3>2. \A q \in Requests \ {r} : pc'[q] = pc[q] /\ target'[q] = target[q]
      BY <2>2 DEF Lookup
    <3>3. pc'[r] \in {"find", WithEntry(r)}
      BY <1>2, <2>2 DEF Lookup
    <3> QED BY <1>2, <2>1, <3>1, <3>2, <3>3
  <2>3. CASE Find(r)
    <3>1. UNCHANGED <<registry, handle, held>> /\ pc[r] = "find"
      BY <2>3 DEF Find
    <3>2. \A q \in Requests \ {r} : pc'[q] = pc[q] /\ target'[q] = target[q]
      BY <2>3 DEF Find
    <3>3. pc'[r] \in {"scan", WithPod(r)}
      BY <1>2, <2>3 DEF Find
    <3> QED BY <1>2, <2>1, <3>1, <3>2, <3>3
  <2>4. CASE Scan(r)
    <3>1. UNCHANGED <<registry, handle, held>> /\ pc[r] = "scan"
      BY <2>4 DEF Scan
    <3>2. \A q \in Requests \ {r} : pc'[q] = pc[q] /\ target'[q] = target[q]
      BY <2>4 DEF Scan
    <3>3. pc'[r] \in {"done", WithPod(r)}
      BY <1>2, <2>4 DEF Scan
    <3> QED BY <1>2, <2>1, <3>1, <3>2, <3>3
  <2>5. CASE FindFails(r) \/ ScanFails(r)
    BY <2>5 DEF FindFails, ScanFails
  <2> QED BY <1>2, <2>2, <2>3, <2>4, <2>5
<1>3. CASE r \in Starts /\ \/ StartPost(r) \/ StartMark(r) \/ StartUnstage(r) \/ StartMarkFailed(r)
                           \/ StartUnstageFailed(r) \/ StartPoll(r)
  BY <1>3 DEF StartPost, StartMark, StartUnstage, StartMarkFailed, StartUnstageFailed, StartPoll
<1>4. CASE r \in Starts /\ (StartHas(r) \/ StartResolve(r) \/ StartPostFails(r) \/ StartFails(r))
  BY <1>4 DEF StartHas, StartResolve, StartPostFails, StartFails
<1>5. CASE r \in Removers /\ RemoveStep(r)
  BY <1>5 DEF RemoveStep, MarkRemoved, DropEntry
<1>6. CASE r \in Removers \cup AutoRms /\ (DeletePod(r) \/ DeletePodFails(r))
  BY <1>6 DEF DeletePod, DeletePodFails
<1>7. CASE r \in Waiters \cup Attaches /\ (FollowStep(r) \/ FollowFails(r))
  BY <1>7 DEF FollowStep, AwaitStart, StreamEnds, FollowFails, AfterStart
<1>8. CASE r \in Waiters /\ PollExit(r)
  BY <1>8 DEF PollExit
<1>9. CASE r \in Attaches /\ PollStarted(r)
  BY <1>9 DEF PollStarted
<1>10. CASE GiveUp(r)
  BY <1>10 DEF GiveUp
<1> HIDE DEF Apart, At, Goto, Finish, Resolved, Here, Forwards, registryVars, Late, Watching
<1> QED BY <1>1, <1>2, <1>3, <1>4, <1>5, <1>6, <1>7, <1>8, <1>9, <1>10

LEMMA ForwardStep ==
    ASSUME TypeInv, ForwardInv, [Next]_vars
    PROVE  ForwardInv' /\ [RegistryNext]_registryVars
<1>1. ASSUME NEW r \in Requests, Apart(r), UNCHANGED registryVars
      PROVE  ForwardInv' /\ [RegistryNext]_registryVars
  BY <1>1, ApartKeeps
<1>2. ASSUME NEW s \in Starts, StartListen(s)
      PROVE  ForwardInv' /\ [RegistryNext]_registryVars
  BY <1>2, ListenKeeps DEF StartListen, Forwards, RegistryNext
<1>3. ASSUME NEW s \in Starts, StartSet(s)
      PROVE  ForwardInv' /\ [RegistryNext]_registryVars
  BY <1>3, SetKeeps DEF StartSet, RegistryNext
<1>4. ASSUME NEW s \in Starts, WatchHas(s) \/ WatchGet(s) \/ WatchGetFails(s)
      PROVE  ForwardInv' /\ [RegistryNext]_registryVars
  BY <1>4, WatchKeeps DEF WatchHas, WatchGet, WatchGetFails, Forwards
<1>5. ASSUME NEW r \in Starts \cup Removers \cup AutoRms, CloseStep(r)
      PROVE  ForwardInv' /\ [RegistryNext]_registryVars
  <2>1. CASE DetachForwarder(r)
    BY <2>1, DetachKeeps DEF DetachForwarder, RegistryNext
  <2>2. CASE CloseForwarder(r)
    BY <2>2, CloseKeeps DEF CloseForwarder, RegistryNext
  <2> QED BY <1>5, <2>1, <2>2 DEF CloseStep
<1>6. ASSUME Restart
      PROVE  ForwardInv' /\ [RegistryNext]_registryVars
  BY <1>6, RestartKeeps DEF Restart, RegistryNext
<1>7. ASSUME UNCHANGED <<registry, handle, pc, target, held>>
      PROVE  ForwardInv' /\ [RegistryNext]_registryVars
  BY <1>7 DEF ForwardInv, Fresh, Opening, RegisteredIsOpen, Closing, WatchedForwarder, NoLeakedHandle,
              Has, registryVars
<1>8. ASSUME \/ \E n \in Names : Kubelet(n) \/ Evict(n)
             \/ \E c \in Creates : TimePasses(c)
             \/ UNCHANGED vars
      PROVE  ForwardInv' /\ [RegistryNext]_registryVars
  <2>1. UNCHANGED <<registry, handle, pc, target, held>>
    BY <1>8 DEF Kubelet, Evict, Undisturbed, TimePasses, Forwards, registryVars, requestVars, vars
  <2> QED BY <2>1, <1>7
<1>9. ASSUME NEW r \in Requests, Arrive(r)
      PROVE  ForwardInv' /\ [RegistryNext]_registryVars
  BY <1>1, <1>9, OtherSteps DEF Arrive
<1>10. ASSUME NEW r \in Requests, Step(r)
       PROVE  ForwardInv' /\ [RegistryNext]_registryVars
  <2>1. CASE r \in Starts /\ StartStep(r)
    BY <1>1, <1>2, <1>3, <1>4, <2>1, OtherSteps DEF StartStep
  <2>2. CASE r \in Starts \cup Removers \cup AutoRms /\ CloseStep(r)
    BY <1>5, <2>2
  <2>3. CASE \/ r \in Creates /\ CreateStep(r)
             \/ r \in Clients /\ (Find(r) \/ Scan(r))
             \/ r \in Removers /\ RemoveStep(r)
             \/ r \in Removers \cup AutoRms /\ DeletePod(r)
             \/ r \in Waiters \cup Attaches /\ FollowStep(r)
             \/ r \in Waiters /\ PollExit(r)
             \/ r \in Attaches /\ PollStarted(r)
    <3>1. Apart(r) /\ UNCHANGED registryVars
      BY <2>3, OtherSteps
    <3> QED BY <3>1, <1>1
  <2> QED BY <1>10, <2>1, <2>2, <2>3 DEF Step
<1>11. ASSUME NEW r \in Requests, Mishap(r)
       PROVE  ForwardInv' /\ [RegistryNext]_registryVars
  <2>1. CASE r \in Starts /\ WatchGetFails(r)
    BY <1>4, <2>1
  <2>2. CASE ~(r \in Starts /\ WatchGetFails(r))
    <3>1. Apart(r) /\ UNCHANGED registryVars
      BY <1>11, <2>2, OtherSteps DEF Mishap
    <3> QED BY <3>1, <1>1
  <2> QED BY <2>1, <2>2
<1>12. CASE Next
  BY <1>6, <1>8, <1>9, <1>10, <1>11, <1>12 DEF Next
<1> QED BY <1>8, <1>12

LEMMA ForwardAlways == Spec => [](TypeInv /\ ForwardInv)
<1>1. TypeInv /\ ForwardInv /\ [Next]_vars => TypeInv' /\ ForwardInv'
  BY TypeStep, ForwardStep
<1> QED BY <1>1, TypeInitially, ForwardInitially, PTL DEF Spec

\* Each registered forwarder has its own watcher polling: for any number of
\* requests, none is left for nobody to close.
THEOREM EveryForwarderWatched == Spec => []WatchedForwarder
<1>1. ForwardInv => WatchedForwarder
  BY DEF ForwardInv
<1> QED BY <1>1, ForwardAlways, PTL

\* No listener is lost: an open handle is registered or in one request's hands.
THEOREM NoHandleLeaks == Spec => []NoLeakedHandle
<1>1. ForwardInv => NoLeakedHandle
  BY DEF ForwardInv
<1> QED BY <1>1, ForwardAlways, PTL

\* The handlers use the registry as it expects, bind each handle once, and close
\* only what they took out: every behaviour of theirs is one of RegistrySpec.
THEOREM ImplementsRegistry == Spec => RegistrySpec
<1>1. Init => RegistryInit
  BY DEF Init
<1>2. TypeInv /\ ForwardInv /\ [Next]_vars => [RegistryNext]_registryVars
  BY ForwardStep
<1> QED BY <1>1, <1>2, ForwardAlways, PTL DEF Spec, RegistrySpec

\* They use the pending store by its operations alone.
THEOREM ImplementsPending == Spec => PendingSpec
<1>1. Init => PendingInit
  BY DEF Init
<1>2. TypeInv /\ [Next]_vars => [PendingNext]_pendingVars
  BY PendingUse
<1> QED BY <1>1, <1>2, ForwardAlways, PTL DEF Spec, PendingSpec

\* So what the store promises whoever calls it holds of the daemon: an outcome
\* read by a waiter is final, and no /create displaces another's entry.
THEOREM SettledForEveryHandler == Spec => SignalOnce /\ NoDisplacement
  BY ImplementsPending, SettledOnce, NobodyDisplaced, PTL
=============================================================================
