----------------------------- MODULE LifeProofs -----------------------------
(***************************************************************************)
(* Entries and pods, for any number of requests: no acknowledged entry     *)
(* sits beside a pod of its name, the handlers implement the life cycle of *)
(* module ContainerLife, and a container that ended never comes back.      *)
(***************************************************************************)
EXTENDS ContainersProofs

-----------------------------------------------------------------------------
(***************************************************************************)
(* NoShadowedPod: the live check comes after the reservation, and a /start *)
(* drops what is staged under its name after it posted the pod.            *)
(***************************************************************************)
InFlight == {"mark", "unstage", "fail", "unstageFailed"}

\* A /create answers once, and is done then.
Unanswered == \A c \in Creates : pc[c] # "done" => reply[c] = None

ShadowInv == NoShadowedPod /\ Unanswered

LEMMA ShadowInitially == Init => ShadowInv
  BY NamesAreNames, Kinds
     DEF Init, ClusterInit, ShadowInv, NoShadowedPod, Unanswered, Exists

\* A step that stages nothing, posts no pod, acknowledges no named /create and
\* takes no /start out of flight.
LEMMA ShadowKeeps ==
    ASSUME NoShadowedPod,
           \A c \in Creates : Staged(c)' => Staged(c),
           \A c \in Creates : DockerName[c] # None /\ reply'[c] = "Created" => reply[c] = "Created",
           \A c \in Creates : Exists(PodName[c])' => Exists(PodName[c]),
           \A s \in Starts : pc[s] \in InFlight => pc'[s] \in InFlight /\ target'[s] = target[s]
    PROVE  NoShadowedPod'
  BY DEF NoShadowedPod, InFlight

\* What the store's operations may stage.
LEMMA StagedShrinks ==
    ASSUME TypeInv
    PROVE  /\ Reap => \A c \in Creates : Staged(c)' => Staged(c)
           /\ \A n : Remove(n) => \A c \in Creates : Staged(c)' => Staged(c)
           /\ \A d \in Creates : Reserve(d) => \A c \in Creates \ {d} : Staged(c)' => Staged(c)
           /\ UNCHANGED store => \A c \in Creates : Staged(c)' => Staged(c)
<1> USE NamesAreNames, NoneIsNothing
<1>0. /\ store \in [Names -> Creates \cup {None}]
      /\ \A n \in Names : Swept[n] \in {store[n], None}
      /\ Swept \in [Names -> Creates \cup {None}]
  BY SweptType DEF TypeInv, TypeOK, PendingTypeOK
<1>1. ASSUME Reap, NEW c \in Creates, Staged(c)'
      PROVE  Staged(c)
  BY <1>0, <1>1 DEF Reap, Staged
<1>2. ASSUME NEW n, Remove(n), NEW c \in Creates, Staged(c)'
      PROVE  Staged(c)
  BY <1>0, <1>2 DEF Remove, Staged
<1>3. ASSUME NEW d \in Creates, Reserve(d), NEW c \in Creates \ {d}, Staged(c)'
      PROVE  Staged(c)
  BY <1>0, <1>3 DEF Reserve, Staged
<1> QED BY <1>1, <1>2, <1>3 DEF Staged

\* The shape of a request's step: it moves that request alone, and a request
\* other than a /start is done once it is answered.
LEMMA StepShape ==
    ASSUME TypeInv, NEW r \in Requests, Arrive(r) \/ Step(r) \/ Mishap(r)
    PROVE  /\ \A q \in Requests \ {r} : pc'[q] = pc[q] /\ reply'[q] = reply[q] /\ target'[q] = target[q]
           /\ r \in Creates => pc[r] # "done" /\ (reply'[r] = reply[r] \/ pc'[r] = "done")
<1> USE ForwardTypes, Kinds DEF At, Goto, Reply, Silent, Finish, Resolved, Here
<1>0. reply \in [Requests -> Replies \cup {None}]
  BY DEF TypeInv, TypeOK
<1> DEFINE Shape == /\ \A q \in Requests \ {r} :
                          pc'[q] = pc[q] /\ reply'[q] = reply[q] /\ target'[q] = target[q]
                    /\ r \in Creates => pc[r] # "done" /\ (reply'[r] = reply[r] \/ pc'[r] = "done")
<1>1. CASE Arrive(r)
  BY <1>0, <1>1 DEF Arrive, CreateReserve, CreateRefused, Lookup
<1>2. CASE r \in Creates /\ (CreateStep(r) \/ CreateCheckFails(r))
  BY <1>0, <1>2 DEF CreateStep, CreateCheck, CreateConflict, CreateCheckFails
<1>3. CASE r \in Clients /\ (Find(r) \/ Scan(r) \/ FindFails(r) \/ ScanFails(r))
  BY <1>0, <1>3 DEF Find, Scan, FindFails, ScanFails
<1>4. CASE r \in Starts /\ StartStep(r)
  <2>1. CASE \/ StartPost(r) \/ StartMark(r) \/ StartUnstage(r) \/ StartMarkFailed(r)
             \/ StartUnstageFailed(r)
    BY <1>0, <1>4, <2>1 DEF StartPost, StartMark, StartUnstage, StartMarkFailed, StartUnstageFailed
  <2>2. CASE StartPoll(r) \/ StartHas(r) \/ StartResolve(r)
    BY <1>0, <1>4, <2>2 DEF StartPoll, StartHas, StartResolve
  <2>3. CASE StartListen(r) \/ StartSet(r) \/ WatchHas(r) \/ WatchGet(r)
    BY <1>0, <1>4, <2>3 DEF StartListen, StartSet, WatchHas, WatchGet
  <2> QED BY <1>4, <2>1, <2>2, <2>3 DEF StartStep
<1>5. CASE r \in Starts /\ (StartPostFails(r) \/ StartFails(r) \/ WatchGetFails(r))
  BY <1>0, <1>5 DEF StartPostFails, StartFails, WatchGetFails
<1>6. CASE r \in Removers /\ RemoveStep(r)
  BY <1>0, <1>6 DEF RemoveStep, MarkRemoved, DropEntry
<1>7. CASE r \in Starts \cup Removers \cup AutoRms /\ CloseStep(r)
  BY <1>0, <1>7 DEF CloseStep, DetachForwarder, CloseForwarder
<1>8. CASE r \in Removers \cup AutoRms /\ (DeletePod(r) \/ DeletePodFails(r))
  BY <1>0, <1>8 DEF DeletePod, DeletePodFails
<1>9. CASE \/ r \in Waiters \cup Attaches /\ (FollowStep(r) \/ FollowFails(r))
           \/ r \in Waiters /\ PollExit(r)
           \/ r \in Attaches /\ PollStarted(r)
  BY <1>0, <1>9 DEF FollowStep, AwaitStart, StreamEnds, FollowFails, PollExit, PollStarted
<1>10. CASE GiveUp(r)
  BY <1>0, <1>10 DEF GiveUp
<1> HIDE DEF At, Goto, Reply, Silent, Finish, Resolved, Here
<1> QED
  BY <1>1, <1>2, <1>3, <1>4, <1>5, <1>6, <1>7, <1>8, <1>9, <1>10 DEF Step, Mishap

\* Only the two POST steps make a pod exist.
LEMMA PodsShrink ==
    ASSUME TypeInv, NEW n \in Names,
           \/ UNCHANGED pods
           \/ /\ Exists(n)
              /\ Gone(n) \/ Terminating(n) \/ \E after : pods' = [pods EXCEPT ![n].phase = after]
    PROVE  \A m \in Names : Exists(m)' => Exists(m)
<1>1. pods \in [Names -> [uid : Starts, spec : Creates, phase : Phases, deleting : BOOLEAN] \cup {None}]
  BY DEF TypeInv, TypeOK, ClusterTypeOK
<1>2. CASE UNCHANGED pods
  BY <1>2 DEF Exists
<1>3. CASE Exists(n)
  BY <1>1, <1>3 DEF Gone, Terminating, Exists
<1> QED BY <1>2, <1>3

LEMMA PodTypes ==
    ASSUME TypeInv
    PROVE  pods \in [Names -> [uid : Starts, spec : Creates, phase : Phases, deleting : BOOLEAN]
                              \cup {None}]
  BY DEF TypeInv, TypeOK, ClusterTypeOK

\* What a client's request does to the store: it sweeps it, drops something of
\* it, or leaves it.
LEMMA StagedByClients ==
    ASSUME TypeInv, NEW r \in Clients, Arrive(r) \/ Step(r) \/ Mishap(r)
    PROVE  \A d \in Creates : Staged(d)' => Staged(d)
<1> USE DEF Store, pendingVars
<1>1. CASE r \in Clients /\ Lookup(r)
  BY <1>1, StagedShrinks DEF Lookup, GetByRef
<1>2. CASE StartStep(r)
  <2>1. \/ UNCHANGED store
        \/ Remove(target[r])
    BY <1>2 DEF StartStep, StartPost, StartMark, StartUnstage, StartMarkFailed, StartUnstageFailed,
                StartPoll, StartHas, StartResolve, StartListen, StartSet, WatchHas, WatchGet
  <2> QED BY <2>1, StagedShrinks
<1>3. CASE RemoveStep(r)
  <2>1. UNCHANGED store \/ Remove(target[r])
    BY <1>3 DEF RemoveStep, MarkRemoved, DropEntry
  <2> QED BY <2>1, StagedShrinks
<1>4. CASE \/ Find(r) \/ Scan(r) \/ CloseStep(r) \/ DeletePod(r) \/ FollowStep(r) \/ PollExit(r)
           \/ PollStarted(r) \/ Mishap(r)
  <2>1. UNCHANGED store
    BY <1>4 DEF Find, Scan, CloseStep, DetachForwarder, CloseForwarder, DeletePod, FollowStep, AwaitStart,
                StreamEnds, PollExit, PollStarted, Mishap, CreateCheckFails, FindFails, ScanFails,
                StartPostFails, StartFails, WatchGetFails, DeletePodFails, FollowFails, GiveUp
  <2> QED BY <2>1, StagedShrinks
<1> QED
  BY <1>1, <1>2, <1>3, <1>4, Kinds DEF Arrive, Step, Clients

\* And to the pods, unless it posts one: it deletes one, or leaves them.
LEMMA PodsByClients ==
    ASSUME TypeInv, NEW r \in Clients, Arrive(r) \/ Step(r) \/ Mishap(r),
           ~(r \in Starts /\ (StartPost(r) \/ StartPostFails(r)))
    PROVE  \A m \in Names : Exists(m)' => Exists(m)
<1> USE DEF World
<1>1. CASE r \in Removers \cup AutoRms /\ (DeletePod(r) \/ DeletePodFails(r))
  <2>1. target[r] \in Names
    BY <1>1 DEF TypeInv, Bound, DeletePod, DeletePodFails, At
  <2>2. UNCHANGED pods \/ (Exists(target[r]) /\ (Gone(target[r]) \/ Terminating(target[r])))
    BY <1>1 DEF DeletePod, DeletePodFails
  <2> QED BY <2>1, <2>2, PodsShrink
<1>2. CASE r \in Starts /\ StartStep(r)
  <2>1. UNCHANGED pods
    BY <1>2 DEF StartStep, StartMark, StartUnstage, StartMarkFailed, StartUnstageFailed,
                StartPoll, StartHas, StartResolve, StartListen, StartSet, WatchHas, WatchGet
  <2> QED BY <2>1 DEF Exists
<1>3. CASE \/ Lookup(r) \/ Find(r) \/ Scan(r) \/ RemoveStep(r) \/ CloseStep(r) \/ FollowStep(r)
           \/ PollExit(r) \/ PollStarted(r) \/ FindFails(r) \/ ScanFails(r) \/ StartFails(r)
           \/ WatchGetFails(r) \/ FollowFails(r) \/ GiveUp(r)
  <2>1. UNCHANGED pods
    BY <1>3 DEF Lookup, Find, Scan, RemoveStep, MarkRemoved, DropEntry, CloseStep, DetachForwarder,
                CloseForwarder, FollowStep, AwaitStart, StreamEnds, PollExit, PollStarted,
                FindFails, ScanFails, StartFails, WatchGetFails, FollowFails, GiveUp
  <2> QED BY <2>1 DEF Exists
<1> QED
  BY <1>1, <1>2, <1>3, Kinds DEF Arrive, Step, Mishap, Clients

\* A /start in flight stays so until it drops what is staged under its name.
LEMMA FlightKeeps ==
    ASSUME TypeInv, NEW s \in Starts, Arrive(s) \/ Step(s) \/ Mishap(s), pc[s] \in InFlight,
           ~(StartUnstage(s) \/ StartUnstageFailed(s))
    PROVE  pc'[s] \in InFlight /\ target'[s] = target[s] /\ entry'[s] = entry[s]
<1>1. s \notin Creates \cup Removers \cup Waiters \cup Attaches
  BY Kinds DEF Clients
<1>2. StartMark(s) \/ StartMarkFailed(s)
  <2>1. pc[s] \in {"mark", "unstage", "fail", "unstageFailed"}
    BY DEF InFlight
  <2>2. StartStep(s)
    BY <1>1, <2>1
       DEF Arrive, Step, Mishap, Lookup, Find, Scan, FindFails, ScanFails, StartPostFails, StartFails, WatchGetFails,
           CloseStep, DetachForwarder, CloseForwarder, GiveUp, At, Clients, Waiters, Removers
  <2> QED
    BY <2>1, <2>2 DEF StartStep, StartPost, StartPoll, StartHas, StartResolve, StartListen, StartSet,
                      WatchHas, WatchGet, At
<1> QED
  BY <1>2, ForwardTypes DEF StartMark, StartMarkFailed, Goto, Here, InFlight, Requests, Clients

LEMMA ShadowStep == TypeInv /\ ShadowInv /\ [Next]_vars => ShadowInv'
<1> SUFFICES ASSUME TypeInv, ShadowInv, [Next]_vars
             PROVE  ShadowInv'
  OBVIOUS
<1> USE ForwardTypes, Kinds, NamesAreNames
<1>0. /\ reply \in [Requests -> Replies \cup {None}]
      /\ NoShadowedPod /\ Unanswered
  BY DEF TypeInv, TypeOK, ShadowInv
<1> DEFINE Keeps(c) == DockerName[c] # None /\ reply'[c] = "Created" => reply[c] = "Created"
           Flies(s) == pc[s] \in InFlight => pc'[s] \in InFlight /\ target'[s] = target[s]
<1>1. ASSUME NEW r \in Requests, Arrive(r) \/ Step(r) \/ Mishap(r)
      PROVE  Unanswered'
  BY <1>0, <1>1, StepShape DEF Unanswered
<1>2. ASSUME NEW r \in Requests, Arrive(r) \/ Step(r) \/ Mishap(r)
      PROVE  /\ \A c \in Creates \ {r} : Keeps(c)
             /\ \A s \in Starts \ {r} : Flies(s)
  BY <1>1, <1>2, StepShape
<1>3. ASSUME NEW c \in Creates, Arrive(c) \/ Step(c) \/ Mishap(c)
      PROVE  NoShadowedPod'
  <2>0. c \notin Clients /\ c \in Requests /\ UNCHANGED pods
    BY <1>3 DEF Arrive, Step, Mishap, CreateReserve, CreateRefused, CreateStep, CreateCheck,
                CreateConflict, CreateCheckFails, GiveUp, World, Clients, Removers, Waiters
  <2>1. CASE CreateReserve(c)
    <3>1. \A d \in Creates \ {c} : Staged(d)' => Staged(d)
      BY <2>1, StagedShrinks DEF CreateReserve
    <3>2. DockerName[c] # None => reply'[c] # "Created"
      BY <1>0, <2>1, NoneIsNoAnswer
         DEF CreateReserve, Goto, Silent, At, Unanswered, Finish, Requests, Replies
    <3>3. \A d \in Creates \ {c} : Keeps(d)
      BY <1>2, <1>3, <2>0
    <3>4. \A s \in Starts : Flies(s)
      BY <1>2, <1>3, <2>0
    <3> QED
      BY <1>0, <2>0, <3>1, <3>2, <3>3, <3>4 DEF NoShadowedPod, InFlight, Exists
  <2>2. CASE CreateCheck(c) /\ ~Exists(PodName[c])
    <3>1. \A d \in Creates : Staged(d)' => Staged(d)
      BY <2>2, StagedShrinks DEF CreateCheck, Store, pendingVars
    <3>2. ~Exists(PodName[c])'
      BY <2>0, <2>2 DEF Exists
    <3>3. \A d \in Creates \ {c} : Keeps(d)
      BY <1>2, <1>3, <2>0
    <3>4. \A s \in Starts : Flies(s)
      BY <1>2, <1>3, <2>0
    <3> QED
      BY <1>0, <2>0, <3>1, <3>2, <3>3, <3>4 DEF NoShadowedPod, InFlight, Exists
  <2>3. CASE \/ CreateRefused(c) \/ CreateConflict(c) \/ CreateCheckFails(c) \/ GiveUp(c)
             \/ CreateCheck(c) /\ Exists(PodName[c])
    <3>1. \A d \in Creates : Staged(d)' => Staged(d)
      BY <2>3, StagedShrinks
         DEF CreateRefused, Refuse, CreateConflict, CreateCheckFails, GiveUp, CreateCheck, Store,
             pendingVars
    <3>2. Keeps(c)
      BY <1>0, <2>3
         DEF CreateRefused, CreateConflict, CreateCheckFails, GiveUp, CreateCheck, Finish, Reply,
             Silent
    <3>3. \A d \in Creates : Keeps(d)
      BY <1>2, <1>3, <2>0, <3>2
    <3>4. \A s \in Starts : Flies(s)
      BY <1>2, <1>3, <2>0
    <3>5. \A d \in Creates : Exists(PodName[d])' => Exists(PodName[d])
      BY <2>0 DEF Exists
    <3> HIDE DEF Keeps, Flies
    <3> QED BY <1>0, <3>1, <3>3, <3>4, <3>5, ShadowKeeps DEF Keeps, Flies
  <2> QED
    BY <1>3, <2>0, <2>1, <2>2, <2>3
       DEF Arrive, Step, Mishap, CreateStep, Clients, Removers, Waiters
<1>4. ASSUME NEW s \in Starts, StartPost(s) \/ StartPostFails(s)
      PROVE  NoShadowedPod'
  <2>1. /\ target[s] \in Names /\ UNCHANGED <<store, reply, target>>
        /\ pc'[s] \in {"mark", "fail"}
        /\ \A q \in Starts \ {s} : pc'[q] = pc[q]
    BY <1>4 DEF StartPost, StartPostFails, TypeInv, Bound, At, Goto, Silent, Here, Store,
                pendingVars, Clients
  <2>2. pods' = pods \/ Post(target[s], s, entry[s])
    BY <1>4 DEF StartPost, StartPostFails, World
  <2>3. \A n \in Names : Exists(n)' => Exists(n) \/ n = target[s]
    BY <2>1, <2>2, PodTypes DEF Post, Exists
  <2>4. \A c \in Creates : Staged(c)' => Staged(c)
    BY <2>1 DEF Staged
  <2> QED BY <1>0, <2>1, <2>3, <2>4 DEF NoShadowedPod, InFlight
<1>5. ASSUME NEW s \in Starts, StartUnstage(s) \/ StartUnstageFailed(s)
      PROVE  NoShadowedPod'
  <2>1. /\ target[s] \in Names /\ Remove(target[s]) /\ UNCHANGED <<pods, target>>
        /\ \A q \in Starts \ {s} : pc'[q] = pc[q]
        /\ \A c \in Creates : reply'[c] = reply[c]
    BY <1>0, <1>5 DEF StartUnstage, StartUnstageFailed, TypeInv, Bound, At, Here, World, Goto,
                      Silent, Finish, Reply, Clients
  <2>2. \A c \in Creates : Staged(c)' => Staged(c) /\ PodName[c] # target[s]
    BY <2>1, StagedShrinks, NoneIsNothing DEF Remove, Staged, TypeInv, TypeOK, PendingTypeOK
  <2>3. \A n \in Names : Exists(n)' => Exists(n)
    BY <2>1 DEF Exists
  <2> QED BY <1>0, <2>1, <2>2, <2>3 DEF NoShadowedPod, InFlight
<1>6. ASSUME NEW r \in Clients, Arrive(r) \/ Step(r) \/ Mishap(r),
             ~(r \in Starts /\ (StartPost(r) \/ StartPostFails(r) \/ StartUnstage(r) \/ StartUnstageFailed(r)))
      PROVE  NoShadowedPod'
  <2>1. \A d \in Creates : Staged(d)' => Staged(d)
    BY <1>6, StagedByClients
  <2>2. \A m \in Names : Exists(m)' => Exists(m)
    BY <1>6, PodsByClients
  <2>3. r \in Starts => Flies(r)
    BY <1>6, FlightKeeps
  <2>4. \A d \in Creates : Keeps(d)
    BY <1>2, <1>6
  <2>5. \A s \in Starts : Flies(s)
    BY <1>2, <1>6, <2>3
  <2> QED BY <1>0, <2>1, <2>2, <2>4, <2>5, ShadowKeeps
<1>7. ASSUME NEW n \in Names, Kubelet(n) \/ Evict(n)
      PROVE  ShadowInv'
  <2>1. UNCHANGED <<store, pc, target, reply>>
    BY <1>7 DEF Kubelet, Evict, Undisturbed, pendingVars, requestVars
  <2>2. \A m \in Names : Exists(m)' => Exists(m)
    BY <1>7, PodsShrink
       DEF Kubelet, Evict, ContainerStarts, ContainerSticks, KubeletReady, ContainerReady,
           ContainerExits, PhaseSettles, Becomes, In, Reclaimed, Evicted
  <2> QED BY <1>0, <2>1, <2>2, ShadowKeeps DEF Staged, ShadowInv, Unanswered
<1>8. CASE (\E c \in Creates : TimePasses(c)) \/ UNCHANGED vars
  BY <1>0, <1>8
     DEF TimePasses, World, requestVars, vars, ShadowInv, NoShadowedPod, Unanswered, Staged, Exists
<1>9. CASE Restart
  <2>1. \A c \in Creates : ~Staged(c)'
    BY <1>9, NoneIsNothing DEF Restart, Forget, Staged
  <2>2. Unanswered'
    BY <1>0, <1>9 DEF Restart, Unanswered, At, Requests
  <2> QED BY <2>1, <2>2 DEF ShadowInv, NoShadowedPod
<1> HIDE DEF Keeps, Flies
<1>10. ASSUME NEW r \in Requests, Arrive(r) \/ Step(r) \/ Mishap(r)
       PROVE  ShadowInv'
  BY <1>1, <1>3, <1>4, <1>5, <1>6, <1>10 DEF ShadowInv, Requests
<1> QED BY <1>7, <1>8, <1>9, <1>10 DEF Next

\* No acknowledged entry sits beside a pod of its name, whatever the races of
\* /create, /start and the remove handlers (containers.go:211-224).
THEOREM NothingShadowed == Spec => []NoShadowedPod
<1>1. Init => TypeInv /\ ShadowInv
  BY TypeInitially, ShadowInitially
<1>2. TypeInv /\ ShadowInv /\ [Next]_vars => TypeInv' /\ ShadowInv'
  BY TypeStep, ShadowStep
<1>3. ShadowInv => NoShadowedPod
  BY DEF ShadowInv
<1> QED BY <1>1, <1>2, <1>3, PTL DEF Spec

-----------------------------------------------------------------------------
(***************************************************************************)
(* The life cycle of module ContainerLife.                                 *)
(***************************************************************************)
\* Whether an entry was ever reserved, which only its /create's reserve changes.
Unborn(c) == signal[c] = "unborn"

LEMMA UnbornKept ==
    ASSUME TypeInv
    PROVE  /\ Reap => \A c \in Creates : Unborn(c)' = Unborn(c)
           /\ \A d \in Creates, why \in Settlements :
                 signal' = Settle(signal, d, why) => \A c \in Creates : Unborn(c)' = Unborn(c)
           /\ UNCHANGED signal => \A c \in Creates : Unborn(c)' = Unborn(c)
  BY DEF TypeInv, TypeOK, PendingTypeOK, Unborn, Reap, SweptSignal, Settle, Settlements, Signals

LEMMA StagedIsBorn ==
    ASSUME TypeInv, NEW c \in Creates, Staged(c)
    PROVE  ~Unborn(c)
  BY NamesAreNames, NoneIsNothing DEF TypeInv, TypeOK, PendingTypeOK, Staged, Unborn

\* The mapping, by cases.
LEMMA Stages ==
    ASSUME TypeInv, NEW c \in Creates
    PROVE  /\ Staged(c) => StageOf(c) = "staged"
           /\ Unborn(c) => StageOf(c) = "unborn"
           /\ ~Staged(c) /\ ~Unborn(c) => StageOf(c) = "dropped"
  BY StagedIsBorn DEF StageOf, Unborn

LEMMA StagesAfter ==
    ASSUME TypeInv', NEW c \in Creates
    PROVE  /\ Staged(c)' => StageOf(c)' = "staged"
           /\ Unborn(c)' => StageOf(c)' = "unborn"
           /\ ~Staged(c)' /\ ~Unborn(c)' => StageOf(c)' = "dropped"
<1>1. Staged(c)' => ~Unborn(c)'
  BY NamesAreNames, NoneIsNothing DEF TypeInv, TypeOK, PendingTypeOK, Staged, Unborn
<1> QED BY <1>1 DEF StageOf, Unborn

\* A step that stages nothing new drops what is staged no more.
Dropped == {c \in Creates : Staged(c) /\ ~Staged(c)'}

LEMMA StagesDropped ==
    ASSUME TypeInv, TypeInv', NEW kept \in SUBSET Creates,
           \A c \in kept : (Staged(c)' => Staged(c)) /\ Unborn(c)' = Unborn(c)
    PROVE  /\ \A c \in kept : StageOf(c)' = IF c \in Dropped THEN "dropped" ELSE StageOf(c)
           /\ Dropped \in SUBSET Life!StagedOnes
<1>1. ASSUME NEW c \in kept
      PROVE  StageOf(c)' = IF c \in Dropped THEN "dropped" ELSE StageOf(c)
  <2>1. c \in Creates /\ (Staged(c) => ~Unborn(c))
    BY <1>1, StagedIsBorn
  <2> QED BY <1>1, <2>1, Stages, StagesAfter DEF Dropped
<1>2. \A c \in Dropped : c \in Creates /\ StageOf(c) = "staged"
  BY Stages DEF Dropped
<1> QED BY <1>1, <1>2 DEF Life!StagedOnes

-----------------------------------------------------------------------------
(***************************************************************************)
(* Each kind of step, as ContainerLife sees it.                            *)
(***************************************************************************)
Keeps(c) == (Staged(c)' => Staged(c)) /\ Unborn(c)' = Unborn(c)
SameClaims == \A s \in Starts : ClaimOf(s)' = ClaimOf(s)
SamePods == \A n \in Names : AliveAs(n)' = AliveAs(n)

LEMMA LifeDrop ==
    ASSUME TypeInv, TypeInv', \A c \in Creates : Keeps(c), SameClaims, SamePods
    PROVE  Life!LifeNext
<1>1. /\ \A c \in Creates : StageOf(c)' = IF c \in Dropped THEN "dropped" ELSE StageOf(c)
      /\ Dropped \in SUBSET Life!StagedOnes
  BY StagesDropped DEF Keeps
<1>2. Life!Drop(Dropped)
  BY <1>1 DEF Life!Drop, Life!Dropping, SameClaims, SamePods
<1> QED BY <1>1, <1>2 DEF Life!LifeNext

LEMMA LifeClaim ==
    ASSUME TypeInv, TypeInv', \A c \in Creates : Keeps(c), SamePods,
           NEW s \in Starts, NEW c \in Creates, Staged(c), Staged(c)',
           ClaimOf(s) = None, ClaimOf(s)' = c,
           \A t \in Starts \ {s} : ClaimOf(t)' = ClaimOf(t)
    PROVE  Life!LifeNext
<1>1. /\ \A d \in Creates : StageOf(d)' = IF d \in Dropped THEN "dropped" ELSE StageOf(d)
      /\ Dropped \in SUBSET Life!StagedOnes
  BY StagesDropped DEF Keeps
<1>2. c \in Life!StagedOnes \ Dropped
  BY Stages DEF Life!StagedOnes, Dropped
<1>3. Life!Claim(s, c, Dropped)
  BY <1>1, <1>2 DEF Life!Claim, Life!Dropping, SamePods
<1> QED BY <1>1, <1>3 DEF Life!LifeNext

LEMMA LifeStage ==
    ASSUME TypeInv, TypeInv', SameClaims, SamePods,
           NEW c \in Creates, Unborn(c), Staged(c)',
           \A d \in Creates \ {c} : Keeps(d)
    PROVE  Life!LifeNext
<1>1. /\ \A d \in Creates \ {c} : StageOf(d)' = IF d \in Dropped THEN "dropped" ELSE StageOf(d)
      /\ Dropped \in SUBSET Life!StagedOnes
  BY StagesDropped DEF Keeps
<1>2. StageOf(c) = "unborn" /\ StageOf(c)' = "staged"
  BY Stages, StagesAfter
<1>3. ASSUME NEW d \in Life!StagedOnes \ Dropped
      PROVE  PodName[d] # PodName[c]
  <2>1. d \in Creates /\ StageOf(d) = "staged"
    BY <1>3 DEF Life!StagedOnes
  <2>2. Staged(d) /\ d # c
    BY <1>2, <2>1, Stages
  <2>3. Staged(d)'
    BY <1>3, <2>1, <2>2 DEF Dropped
  <2> QED BY <2>2, <2>3, NamesAreNames DEF Staged
<1>4. Life!Stage(c, Dropped)
  BY <1>1, <1>2, <1>3 DEF Life!Stage, Life!Dropping, SameClaims, SamePods
<1> QED BY <1>1, <1>4 DEF Life!LifeNext

SameStages == \A c \in Creates : StageOf(c)' = StageOf(c)

LEMMA LifeRealize ==
    ASSUME TypeInv, SameStages, NEW s \in Starts, NEW c \in Creates,
           ClaimOf(s) = c, ClaimOf(s)' = None,
           \A t \in Starts \ {s} : ClaimOf(t)' = ClaimOf(t),
           \/ SamePods
           \/ /\ AliveAs(PodName[c]) = None /\ AliveAs(PodName[c])' = c
              /\ \A n \in Names \ {PodName[c]} : AliveAs(n)' = AliveAs(n)
    PROVE  Life!LifeNext
<1>1. Life!Realize(s)
  BY NamesAreNames, NoneIsNothing DEF Life!Realize, SameStages, SamePods
<1> QED BY <1>1 DEF Life!LifeNext

LEMMA LifeVanish ==
    ASSUME SameStages, SameClaims, NEW n \in Names, AliveAs(n)' = None,
           \A m \in Names \ {n} : AliveAs(m)' = AliveAs(m)
    PROVE  Life!LifeNext
<1>1. Life!Vanish(n)
  BY DEF Life!Vanish, SameStages, SameClaims
<1> QED BY <1>1 DEF Life!LifeNext

-----------------------------------------------------------------------------
(***************************************************************************)
(* Who claims, who posts, and what happens to the store and to the pods.   *)
(***************************************************************************)
\* A step of a request moves that request alone; only a lookup leads to a POST,
\* and only the POST leads away from it.
LEMMA ClaimShape ==
    ASSUME TypeInv, NEW r \in Requests, Arrive(r) \/ Step(r) \/ Mishap(r),
           ~(r \in Clients /\ Lookup(r))
    PROVE  /\ \A q \in Requests \ {r} :
                 pc'[q] = pc[q] /\ entry'[q] = entry[q] /\ target'[q] = target[q]
           /\ pc'[r] # "post"
           /\ r \in Starts /\ pc[r] = "post" => StartPost(r) \/ StartPostFails(r)
<1> USE ForwardTypes, Kinds DEF At, Goto, Reply, Silent, Finish, Resolved, Here
<1>0. entry \in [Requests -> Creates \cup {None}]
  BY DEF TypeInv, TypeOK
<1>1. CASE r \in Creates /\ (CreateReserve(r) \/ CreateRefused(r))
  BY <1>0, <1>1 DEF CreateReserve, CreateRefused, Clients
<1>2. CASE r \in Creates /\ (CreateStep(r) \/ CreateCheckFails(r))
  BY <1>0, <1>2 DEF CreateStep, CreateCheck, CreateConflict, CreateCheckFails, Clients
<1>3. CASE r \in Clients /\ (Find(r) \/ Scan(r) \/ FindFails(r) \/ ScanFails(r))
  BY <1>0, <1>3, NextLabels DEF Find, Scan, FindFails, ScanFails
<1>4. CASE r \in Starts /\ StartStep(r)
  <2>1. CASE \/ StartPost(r) \/ StartMark(r) \/ StartUnstage(r) \/ StartMarkFailed(r)
             \/ StartUnstageFailed(r)
    BY <1>0, <1>4, <2>1 DEF StartPost, StartMark, StartUnstage, StartMarkFailed, StartUnstageFailed
  <2>2. CASE StartPoll(r) \/ StartHas(r) \/ StartResolve(r)
    BY <1>0, <1>4, <2>2 DEF StartPoll, StartHas, StartResolve
  <2>3. CASE StartListen(r) \/ StartSet(r) \/ WatchHas(r) \/ WatchGet(r)
    BY <1>0, <1>4, <2>3 DEF StartListen, StartSet, WatchHas, WatchGet
  <2> QED BY <1>4, <2>1, <2>2, <2>3 DEF StartStep
<1>5. CASE r \in Starts /\ (StartPostFails(r) \/ StartFails(r) \/ WatchGetFails(r))
  BY <1>0, <1>5 DEF StartPostFails, StartFails, WatchGetFails
<1>6. CASE r \in Removers /\ RemoveStep(r)
  BY <1>0, <1>6 DEF RemoveStep, MarkRemoved, DropEntry
<1>7. CASE r \in Starts \cup Removers \cup AutoRms /\ CloseStep(r)
  BY <1>0, <1>7 DEF CloseStep, DetachForwarder, CloseForwarder, AfterClose
<1>8. CASE r \in Removers \cup AutoRms /\ (DeletePod(r) \/ DeletePodFails(r))
  BY <1>0, <1>8 DEF DeletePod, DeletePodFails
<1>9. CASE \/ r \in Waiters \cup Attaches /\ (FollowStep(r) \/ FollowFails(r))
           \/ r \in Waiters /\ PollExit(r)
           \/ r \in Attaches /\ PollStarted(r)
  BY <1>0, <1>9 DEF FollowStep, AwaitStart, AfterStart, StreamEnds, FollowFails, PollExit, PollStarted
<1>10. CASE GiveUp(r)
  BY <1>0, <1>10 DEF GiveUp
<1> HIDE DEF At, Goto, Reply, Silent, Finish, Resolved, Here
<1> QED
  BY <1>1, <1>2, <1>3, <1>4, <1>5, <1>6, <1>7, <1>8, <1>9, <1>10 DEF Arrive, Step, Mishap

\* A /start posts under the pod name of the entry it read.
ClaimInv == \A s \in Starts : pc[s] = "post" => target[s] = PodName[entry[s]]

\* A lookup that finds an entry finds a staged one, and leaves it there.
LEMMA LookupFinds ==
    ASSUME TypeInv, NEW r \in Clients, Lookup(r)
    PROVE  /\ \A q \in Requests \ {r} :
                 pc'[q] = pc[q] /\ entry'[q] = entry[q] /\ target'[q] = target[q]
           /\ pc[r] = "idle"
           /\ pc'[r] = "post" => \E c \in Creates :
                 entry'[r] = c /\ target'[r] = PodName[c] /\ Staged(c) /\ Staged(c)'
<1> USE ForwardTypes, Kinds DEF At
<1>0. /\ entry \in [Requests -> Creates \cup {None}]
      /\ store \in [Names -> Creates \cup {None}] /\ Swept \in [Names -> Creates \cup {None}]
      /\ \A n \in Names : Swept[n] \in {store[n], None}
      /\ \A n \in Names : store[n] # None => PodName[store[n]] = n
  BY SweptType DEF TypeInv, TypeOK, PendingTypeOK
<1>1. pc[r] = "idle" /\ r \in Requests
  BY DEF Lookup, Requests
<1>2. PICK c \in Creates \cup {None} :
        /\ GetByRef(Ref[r], c)
        /\ IF c = None THEN Goto(r, "find") /\ UNCHANGED <<entry, target>>
                       ELSE Goto(r, WithEntry(r)) /\ Resolved(r, c, PodName[c])
  BY DEF Lookup
<1>3. CASE c = None
  BY <1>0, <1>1, <1>2, <1>3 DEF Goto
<1>4. CASE c # None
  <2>1. c \in Matches(Swept, Ref[r]) /\ store' = Swept
    BY <1>2, <1>4 DEF GetByRef, Reap
  <2>2. Swept[PodName[c]] = c /\ PodName[c] \in Names
    BY <1>0, <1>4, <2>1, RequestKinds, NamesAreNames, NoneIsNothing DEF Matches
  <2>3. Staged(c) /\ Staged(c)'
    BY <1>0, <1>4, <2>1, <2>2 DEF Staged
  <2> QED BY <1>0, <1>1, <1>2, <1>4, <2>3 DEF Goto, Resolved
<1> QED BY <1>3, <1>4

LEMMA ClaimInitially == Init => ClaimInv
  BY DEF Init, ClaimInv, Requests, Clients

LEMMA ClaimStep == TypeInv /\ ClaimInv /\ [Next]_vars => ClaimInv'
<1> SUFFICES ASSUME TypeInv, ClaimInv, [Next]_vars
             PROVE  ClaimInv'
  OBVIOUS
<1> USE DEF ClaimInv
<1>1. ASSUME NEW r \in Clients, Lookup(r)
      PROVE  ClaimInv'
  BY <1>1, LookupFinds, Kinds DEF Requests, Clients
<1>2. ASSUME NEW r \in Requests, Arrive(r) \/ Step(r) \/ Mishap(r), ~(r \in Clients /\ Lookup(r))
      PROVE  ClaimInv'
  BY <1>2, ClaimShape, Kinds DEF Requests, Clients
<1>3. CASE Restart
  BY <1>3, Kinds DEF Restart, Requests, Clients
<1>4. CASE \/ \E n \in Names : Kubelet(n) \/ Evict(n)
           \/ \E c \in Creates : TimePasses(c)
           \/ UNCHANGED vars
  BY <1>4 DEF Kubelet, Evict, Undisturbed, TimePasses, requestVars, vars
<1> QED BY <1>1, <1>2, <1>3, <1>4 DEF Next

\* Only the reserve of a /create stages anything.
LEMMA StoreKept ==
    ASSUME TypeInv, NEW r \in Requests, Arrive(r) \/ Step(r) \/ Mishap(r),
           ~(r \in Creates /\ CreateReserve(r))
    PROVE  \A c \in Creates : Keeps(c)
<1>1. CASE r \in Clients
  <2>1. \A c \in Creates : Staged(c)' => Staged(c)
    BY <1>1, StagedByClients
  <2>2. \/ Reap \/ UNCHANGED signal
        \/ \E d \in Creates, why \in Settlements : signal' = Settle(signal, d, why)
    <3>1. CASE Lookup(r)
      BY <3>1 DEF Lookup, GetByRef
    <3>2. CASE StartMark(r) \/ StartMarkFailed(r) \/ MarkRemoved(r)
      <4>1. entry[r] \in Creates
        BY <1>1, <3>2 DEF TypeInv, Bound, StartMark, StartMarkFailed, MarkRemoved, At
      <4> QED
        BY <3>2, <4>1
           DEF StartMark, StartMarkFailed, MarkRemoved, MarkStarted, MarkFailed, Settlements
    <3>3. CASE r \in Starts /\ StartStep(r) /\ ~(StartMark(r) \/ StartMarkFailed(r))
      BY <3>3 DEF StartStep, StartPost, StartUnstage, StartUnstageFailed, StartPoll, StartHas,
                  StartResolve, StartListen, StartSet, WatchHas, WatchGet, Store, pendingVars
    <3>4. CASE \/ DropEntry(r) \/ Find(r) \/ Scan(r) \/ CloseStep(r) \/ DeletePod(r)
               \/ FollowStep(r) \/ PollExit(r) \/ PollStarted(r) \/ Mishap(r)
      BY <3>4 DEF DropEntry, Find, Scan, CloseStep, DetachForwarder, CloseForwarder, DeletePod, FollowStep,
                  AwaitStart, StreamEnds, PollExit, PollStarted, Mishap, CreateCheckFails, FindFails, ScanFails,
                  StartPostFails, StartFails, WatchGetFails, DeletePodFails, FollowFails, GiveUp,
                  Store, pendingVars
    <3> QED BY <1>1, <3>1, <3>2, <3>3, <3>4, Kinds DEF Arrive, Step, RemoveStep
  <2> QED BY <2>1, <2>2, UnbornKept DEF Keeps
<1>2. CASE r \in Creates
  <2>1. \/ CreateRefused(r) \/ CreateConflict(r) \/ CreateCheck(r) \/ CreateCheckFails(r)
        \/ GiveUp(r)
    BY <1>2, Kinds DEF Arrive, Step, Mishap, CreateStep, Clients, Removers, Waiters
  <2>2. Reap \/ (Remove(PodName[r]) /\ UNCHANGED signal) \/ UNCHANGED <<store, signal>>
    BY <2>1 DEF CreateRefused, Refuse, CreateConflict, CreateCheck, CreateCheckFails, GiveUp, Store,
                pendingVars
  <2> QED BY <2>2, UnbornKept, StagedShrinks DEF Keeps
<1> QED BY <1>1, <1>2 DEF Requests

\* Only a POST and a DELETE change a pod.
LEMMA PodsKept ==
    ASSUME NEW r \in Requests, Arrive(r) \/ Step(r) \/ Mishap(r),
           ~(r \in Starts /\ (StartPost(r) \/ StartPostFails(r))),
           ~(r \in Removers \cup AutoRms /\ (DeletePod(r) \/ DeletePodFails(r)))
    PROVE  SamePods
<1> USE DEF World
<1>1. CASE r \in Starts /\ StartStep(r)
  <2>1. UNCHANGED pods
    BY <1>1 DEF StartStep, StartMark, StartUnstage, StartMarkFailed, StartUnstageFailed,
                StartPoll, StartHas, StartResolve, StartListen, StartSet, WatchHas, WatchGet
  <2> QED BY <2>1 DEF SamePods, AliveAs, Exists
<1>2. CASE \/ CreateReserve(r) \/ CreateRefused(r) \/ CreateStep(r) \/ CreateCheckFails(r)
           \/ Lookup(r) \/ Find(r) \/ Scan(r) \/ RemoveStep(r) \/ CloseStep(r) \/ FollowStep(r)
           \/ PollExit(r) \/ PollStarted(r) \/ FindFails(r) \/ ScanFails(r) \/ StartFails(r)
           \/ WatchGetFails(r) \/ FollowFails(r) \/ GiveUp(r)
  <2>1. UNCHANGED pods
    BY <1>2 DEF CreateReserve, CreateRefused, CreateStep, CreateCheck, CreateConflict,
                CreateCheckFails, Lookup, Find, Scan, RemoveStep, MarkRemoved, DropEntry, CloseStep,
                DetachForwarder, CloseForwarder, FollowStep, AwaitStart, StreamEnds, PollExit,
                PollStarted, FindFails, ScanFails, StartFails, WatchGetFails, FollowFails, GiveUp
  <2> QED BY <2>1 DEF SamePods, AliveAs, Exists
<1> QED BY <1>1, <1>2 DEF Arrive, Step, Mishap

LEMMA ClaimsKept ==
    ASSUME TypeInv, NEW r \in Requests, Arrive(r) \/ Step(r) \/ Mishap(r),
           ~(r \in Clients /\ Lookup(r)),
           ~(r \in Starts /\ (StartPost(r) \/ StartPostFails(r)))
    PROVE  SameClaims
<1>1. \A s \in Starts \ {r} : pc'[s] = pc[s] /\ entry'[s] = entry[s]
  BY ClaimShape, ForwardTypes
<1>2. r \in Starts => pc[r] # "post" /\ pc'[r] # "post"
  BY ClaimShape
<1> QED BY <1>1, <1>2 DEF SameClaims, ClaimOf, At

-----------------------------------------------------------------------------
LEMMA StagesKept == UNCHANGED <<store, signal>> => SameStages
  BY DEF SameStages, StageOf, Staged

\* A POST realizes the claim of its /start, or gives it up.
LEMMA PostLives ==
    ASSUME TypeInv, ClaimInv, NEW s \in Starts, StartPost(s) \/ StartPostFails(s)
    PROVE  Life!LifeNext
<1> USE Kinds
<1>1. PICK c \in Creates : pc[s] = "post" /\ entry[s] = c /\ target[s] = PodName[c]
  BY DEF TypeInv, Bound, ClaimInv, StartPost, StartPostFails, At, Clients
<1>2. /\ UNCHANGED <<store, signal>>
      /\ pc'[s] \in {"mark", "fail"}
      /\ \A t \in Starts \ {s} : pc'[t] = pc[t] /\ entry'[t] = entry[t]
      /\ UNCHANGED pods \/ Post(PodName[c], s, c)
  BY <1>1, ForwardTypes DEF StartPost, StartPostFails, Goto, Here, Store, World, pendingVars
<1>3. /\ ClaimOf(s) = c /\ ClaimOf(s)' = None
      /\ \A t \in Starts \ {s} : ClaimOf(t)' = ClaimOf(t)
  BY <1>1, <1>2 DEF ClaimOf, At
<1>4. CASE UNCHANGED pods
  <2>1. SamePods
    BY <1>4 DEF SamePods, AliveAs, Exists
  <2> QED BY <1>1, <1>2, <1>3, <2>1, StagesKept, LifeRealize
<1>5. CASE Post(PodName[c], s, c)
  <2> DEFINE n == PodName[c]
             pod == [uid |-> s, spec |-> c, phase |-> "starting", deleting |-> FALSE]
  <2>1. n \in Names /\ AliveAs(n) = None /\ pods' = [pods EXCEPT ![n] = pod]
    BY <1>5, NamesAreNames DEF Post, AliveAs
  <2>2. pod \in [uid : Starts, spec : Creates, phase : Phases, deleting : BOOLEAN]
    BY Vocabulary
  <2>3. pod # None /\ pod.spec = c
    BY <2>2, NoneIsNoPod
  <2> HIDE DEF n, pod
  <2>4. pods'[n] = pod /\ \A m \in Names \ {n} : pods'[m] = pods[m]
    BY <2>1, PodTypes
  <2>5. /\ AliveAs(n)' = c
        /\ \A m \in Names \ {n} : AliveAs(m)' = AliveAs(m)
    BY <2>1, <2>3, <2>4 DEF AliveAs, Exists
  <2> QED BY <1>2, <1>3, <2>1, <2>5, StagesKept, LifeRealize DEF n
<1> QED BY <1>2, <1>4, <1>5

\* A DELETE, an eviction and the end of a grace period make a pod vanish; a grace
\* period and a phase do not.
LEMMA PodLives ==
    ASSUME TypeInv, UNCHANGED <<store, signal>>, SameClaims, NEW n \in Names,
           \/ UNCHANGED pods
           \/ /\ Exists(n)
              /\ Gone(n) \/ Terminating(n) \/ \E after \in Phases : pods' = [pods EXCEPT ![n].phase = after]
    PROVE  Life!LifeNext \/ UNCHANGED Life!lifeVars
<1>1. SameStages
  BY StagesKept
<1>2. CASE UNCHANGED pods
  BY <1>1, <1>2 DEF SameStages, SameClaims, AliveAs, Exists, Life!lifeVars
<1>3. CASE Gone(n)
  <2>1. pods'[n] = None /\ \A m \in Names \ {n} : pods'[m] = pods[m]
    BY <1>3, PodTypes DEF Gone
  <2>2. AliveAs(n)' = None /\ \A m \in Names \ {n} : AliveAs(m)' = AliveAs(m)
    BY <2>1 DEF AliveAs, Exists
  <2> QED BY <1>1, <2>2, LifeVanish
<1>4. CASE /\ Exists(n)
           /\ Terminating(n) \/ \E after \in Phases : pods' = [pods EXCEPT ![n].phase = after]
  <2>1. pods[n] \in [uid : Starts, spec : Creates, phase : Phases, deleting : BOOLEAN]
    BY <1>4, PodTypes DEF Exists
  <2>2. /\ pods'[n] # None /\ pods'[n].spec = pods[n].spec
        /\ \A m \in Names \ {n} : pods'[m] = pods[m]
    <3>1. CASE Terminating(n)
      <4>1. /\ [pods[n] EXCEPT !.deleting = TRUE].spec = pods[n].spec
            /\ [pods[n] EXCEPT !.deleting = TRUE] # None
        BY <2>1, NoneIsNoPod
      <4> QED BY <3>1, <4>1, PodTypes DEF Terminating
    <3>2. ASSUME NEW after \in Phases, pods' = [pods EXCEPT ![n].phase = after]
          PROVE  /\ pods'[n] # None /\ pods'[n].spec = pods[n].spec
                 /\ \A m \in Names \ {n} : pods'[m] = pods[m]
      <4>1. /\ [pods[n] EXCEPT !.phase = after].spec = pods[n].spec
            /\ [pods[n] EXCEPT !.phase = after] # None
        BY <2>1, NoneIsNoPod
      <4> QED BY <3>2, <4>1, PodTypes
    <3> QED BY <1>4, <3>1, <3>2
  <2>3. SamePods
    BY <1>4, <2>2 DEF SamePods, AliveAs, Exists
  <2> QED BY <1>1, <2>3 DEF SameStages, SameClaims, SamePods, Life!lifeVars
<1> QED BY <1>2, <1>3, <1>4

-----------------------------------------------------------------------------
LEMMA RequestLives ==
    ASSUME TypeInv, TypeInv', ClaimInv, NEW r \in Requests, Arrive(r) \/ Step(r) \/ Mishap(r)
    PROVE  Life!LifeNext \/ UNCHANGED Life!lifeVars
<1> USE Kinds
<1>1. CASE r \in Creates /\ CreateReserve(r)
  <2>1. Unborn(r) /\ Staged(r)' /\ (\A d \in Creates \ {r} : Keeps(d))
    <3>1. /\ Unborn(r)
          /\ store' = [Swept EXCEPT ![PodName[r]] = r]
          /\ signal' = [SweptSignal EXCEPT ![r] = "open"]
          /\ Reserve(r)
      BY <1>1 DEF CreateReserve, Reserve, Unborn
    <3>2. Staged(r)' /\ \A d \in Creates \ {r} : Staged(d)' => Staged(d)
      BY <1>1, <3>1, StagedShrinks, SweptType, NamesAreNames DEF Staged, TypeInv, TypeOK
    <3>3. \A d \in Creates \ {r} : Unborn(d)' = Unborn(d)
      BY <3>1, SweptType
         DEF Unborn, SweptSignal, Settle, TypeInv, TypeOK, PendingTypeOK, Settlements, Signals
    <3> QED BY <3>1, <3>2, <3>3 DEF Keeps
  <2>2. UNCHANGED pods
    BY <1>1 DEF CreateReserve, World
  <2>3. SameClaims
    BY <1>1, ClaimsKept DEF Arrive
  <2>4. SamePods
    BY <2>2 DEF SamePods, AliveAs, Exists
  <2> QED BY <1>1, <2>1, <2>3, <2>4, LifeStage
<1>2. CASE r \in Clients /\ Lookup(r)
  <2>1. \A c \in Creates : Keeps(c)
    BY <1>2, StoreKept DEF Arrive
  <2>2. SamePods
    BY <1>2 DEF Lookup, World, SamePods, AliveAs, Exists
  <2>3. \A s \in Starts \ {r} : ClaimOf(s)' = ClaimOf(s)
    BY <1>2, LookupFinds, ForwardTypes DEF ClaimOf, At
  <2>4. CASE r \in Starts /\ pc'[r] = "post"
    <3>1. PICK c \in Creates : entry'[r] = c /\ Staged(c) /\ Staged(c)'
      BY <1>2, <2>4, LookupFinds
    <3>2. ClaimOf(r) = None /\ ClaimOf(r)' = c
      BY <1>2, <2>4, <3>1, LookupFinds DEF ClaimOf, At
    <3> QED BY <2>1, <2>2, <2>3, <2>4, <3>1, <3>2, LifeClaim
  <2>5. CASE ~(r \in Starts /\ pc'[r] = "post")
    <3>1. r \in Starts => ClaimOf(r) = None /\ ClaimOf(r)' = None
      BY <1>2, <2>5, LookupFinds DEF ClaimOf, At
    <3>2. SameClaims
      BY <2>3, <3>1 DEF SameClaims
    <3> QED BY <2>1, <2>2, <3>2, LifeDrop
  <2> QED BY <2>4, <2>5
<1>3. CASE r \in Starts /\ (StartPost(r) \/ StartPostFails(r))
  BY <1>3, PostLives
<1>4. CASE r \in Removers \cup AutoRms /\ (DeletePod(r) \/ DeletePodFails(r))
  <2>1. target[r] \in Names /\ UNCHANGED <<store, signal>>
    BY <1>4 DEF TypeInv, Bound, DeletePod, DeletePodFails, At, Store, pendingVars
  <2>2. \/ UNCHANGED pods
        \/ Exists(target[r]) /\ (Gone(target[r]) \/ Terminating(target[r]))
    BY <1>4 DEF DeletePod, DeletePodFails, World
  <2>3. SameClaims
    <3>1. r \notin Starts /\ r \in Clients /\ r \in Requests
      BY <1>4
    <3>2. pc[r] = "delete"
      BY <1>4 DEF DeletePod, DeletePodFails, At
    <3>3. ~Lookup(r)
      BY <3>2 DEF Lookup, At
    <3> QED BY <3>1, <3>3, ClaimsKept
  <2> QED BY <2>1, <2>2, <2>3, PodLives
<1>5. CASE /\ ~(r \in Creates /\ CreateReserve(r))
           /\ ~(r \in Clients /\ Lookup(r))
           /\ ~(r \in Starts /\ (StartPost(r) \/ StartPostFails(r)))
           /\ ~(r \in Removers \cup AutoRms /\ (DeletePod(r) \/ DeletePodFails(r)))
  BY <1>5, StoreKept, ClaimsKept, PodsKept, LifeDrop
<1> QED BY <1>1, <1>2, <1>3, <1>4, <1>5

\* The daemon ends: what was staged or claimed is dropped, the pods stay.
LEMMA RestartLives ==
    ASSUME TypeInv, TypeInv', Restart
    PROVE  Life!LifeNext
<1>1. \A c \in Creates : ~Staged(c)' /\ Unborn(c)' = Unborn(c)
  BY NoneIsNothing, NamesAreNames DEF Restart, Forget, Staged, Unborn
<1>2. \A c \in Creates : StageOf(c)' = IF c \in Life!StagedOnes THEN "dropped" ELSE StageOf(c)
  <2>1. \A c \in Creates : c \in Life!StagedOnes <=> Staged(c)
    BY Stages DEF Life!StagedOnes
  <2> QED BY <1>1, <2>1, Stages, StagesAfter, StagedIsBorn
<1>3. \A s \in Starts : ClaimOf(s)' = None
  BY ForwardTypes DEF Restart, ClaimOf, At
<1>4. SamePods
  BY DEF Restart, SamePods, AliveAs, Exists
<1>5. Life!LoseMemory
  BY <1>2, <1>3, <1>4 DEF Life!LoseMemory, Life!Dropping, SamePods
<1> QED BY <1>5 DEF Life!LifeNext

LEMMA LifeStep ==
    TypeInv /\ TypeInv' /\ ClaimInv /\ [Next]_vars => [Life!LifeNext]_(Life!lifeVars)
<1> SUFFICES ASSUME TypeInv, TypeInv', ClaimInv, [Next]_vars
             PROVE  Life!LifeNext \/ UNCHANGED Life!lifeVars
  OBVIOUS
<1>1. ASSUME NEW n \in Names, Kubelet(n) \/ Evict(n)
      PROVE  Life!LifeNext \/ UNCHANGED Life!lifeVars
  <2>1. UNCHANGED <<store, signal, pc, entry>>
    BY <1>1 DEF Kubelet, Evict, Undisturbed, pendingVars, requestVars
  <2>2. SameClaims
    BY <2>1 DEF SameClaims, ClaimOf, At
  <2>3. /\ Exists(n)
        /\ Gone(n) \/ \E after \in Phases : pods' = [pods EXCEPT ![n].phase = after]
    BY <1>1, FatesArePhases
       DEF Kubelet, Evict, ContainerStarts, ContainerSticks, KubeletReady, ContainerReady,
           ContainerExits, PhaseSettles, Becomes, In, Reclaimed, Evicted
  <2> QED BY <2>1, <2>2, <2>3, PodLives
<1>2. CASE (\E c \in Creates : TimePasses(c)) \/ UNCHANGED vars
  <2>1. UNCHANGED <<store, signal, pc, entry, pods>>
    BY <1>2 DEF TimePasses, World, requestVars, vars
  <2>2. SameStages /\ SameClaims /\ SamePods
    BY <2>1, StagesKept DEF SameClaims, ClaimOf, At, SamePods, AliveAs, Exists
  <2> QED BY <2>2 DEF SameStages, SameClaims, SamePods, Life!lifeVars
<1> QED BY <1>1, <1>2, RequestLives, RestartLives DEF Next

LEMMA LifeInitially == Init => Life!LifeInit
<1> SUFFICES ASSUME Init PROVE Life!LifeInit
  OBVIOUS
<1>1. \A c \in Creates : StageOf(c) = "unborn"
  BY NamesAreNames, NoneIsNothing DEF Init, PendingInit, StageOf, Staged
<1>2. \A s \in Starts : ClaimOf(s) = None
  BY Kinds DEF Init, ClaimOf, At
<1>3. \A n \in Names : AliveAs(n) = None
  BY DEF Init, ClusterInit, AliveAs, Exists
<1> QED BY <1>1, <1>2, <1>3 DEF Life!LifeInit

\* The handlers of /create, /start and the removals, with the reaper, failed calls
\* and restarts, take a container through the life cycle of ContainerLife and
\* through no other (containers.go:163-272, 370-427).
THEOREM ImplementsLifeCycle == Spec => LifeCycle
<1>1. Init => TypeInv /\ ClaimInv /\ Life!LifeInit
  BY TypeInitially, ClaimInitially, LifeInitially
<1>2. TypeInv /\ ClaimInv /\ [Next]_vars => TypeInv' /\ ClaimInv'
  BY TypeStep, ClaimStep
<1>3. TypeInv /\ TypeInv' /\ ClaimInv /\ [Next]_vars => [Life!LifeNext]_(Life!lifeVars)
  BY LifeStep
<1> QED BY <1>1, <1>2, <1>3, PTL DEF Spec, LifeCycle, Life!LifeSpec

-----------------------------------------------------------------------------
\* No step of the life cycle brings back a container that ended.
LEMMA EndedStays ==
    ASSUME [Life!LifeNext]_(Life!lifeVars), NEW c \in Creates, Life!Ended(c)
    PROVE  Life!Ended(c)'
<1> USE NoneIsNothing DEF Life!Ended, Life!Dropping, Life!StagedOnes
<1>1. ASSUME NEW gone \in SUBSET Life!StagedOnes,
             \/ Life!Drop(gone)
             \/ \E d \in Creates : Life!Stage(d, gone)
             \/ \E s \in Starts, d \in Creates : Life!Claim(s, d, gone)
      PROVE  Life!Ended(c)'
  <2>1. CASE Life!Drop(gone)
    BY <2>1 DEF Life!Drop
  <2>2. ASSUME NEW d \in Creates, Life!Stage(d, gone)
        PROVE  Life!Ended(c)'
    BY <2>2 DEF Life!Stage
  <2>3. ASSUME NEW s \in Starts, NEW d \in Creates, Life!Claim(s, d, gone)
        PROVE  Life!Ended(c)'
    BY <2>3 DEF Life!Claim
  <2> QED BY <1>1, <2>1, <2>2, <2>3
<1>2. ASSUME NEW s \in Starts, Life!Realize(s)
      PROVE  Life!Ended(c)'
  BY <1>2, NamesAreNames DEF Life!Realize
<1>3. ASSUME NEW n \in Names, Life!Vanish(n)
      PROVE  Life!Ended(c)'
  BY <1>3 DEF Life!Vanish
<1>4. CASE Life!LoseMemory
  BY <1>4 DEF Life!LoseMemory
<1>5. CASE UNCHANGED Life!lifeVars
  BY <1>5 DEF Life!lifeVars
<1> QED BY <1>1, <1>2, <1>3, <1>4, <1>5 DEF Life!LifeNext

\* A container that left the store, is no pod and is in no /start's hands is gone
\* for good, whatever requests race about its name (containers.go:227-236, 383-386).
THEOREM GoneForGood == Spec => NeverComesBack
<1>1. [Life!LifeNext]_(Life!lifeVars)
        => [\A c \in Creates : Life!Ended(c) => Life!Ended(c)']_(Life!lifeVars)
  BY EndedStays
<1> QED BY <1>1, ImplementsLifeCycle, PTL DEF NeverComesBack, Life!StaysEnded, LifeCycle, Life!LifeSpec
=============================================================================
