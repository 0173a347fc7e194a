--------------------------- MODULE ObserversProofs ---------------------------
(***************************************************************************)
(* What the handlers that look may say, for any number of containers,      *)
(* requests, observers and failed calls: and that they change nothing.     *)
(***************************************************************************)
EXTENDS Observers, LifeProofs

\* What an observer's step does to the handlers' state is the reaper's doing.
Looks ==
    /\ UNCHANGED <<registryVars, pods, requestVars, expired>>
    /\ Reap \/ UNCHANGED <<store, signal>>
    /\ UNCHANGED bounds \/ Fault

LEMMA ObserveLooks ==
    ASSUME NEW o \in Observers, Observe(o)
    PROVE  Looks
  BY DEF Observe, ListPods, ListPending, InspectPending, FollowArrives, SeekName, SeekNameFails,
         SeekScan, LookFails, Looks, vars, registryVars, requestVars, pendingVars, bounds, GetByRef

HandlerInv == TypeInv /\ ShadowInv /\ ClaimInv

LEMMA LooksKeep ==
    ASSUME HandlerInv, Looks
    PROVE  HandlerInv' /\ [PendingNext]_pendingVars
<1> USE DEF HandlerInv, Looks
<1>1. [PendingNext]_pendingVars
  BY DEF PendingNext, pendingVars
<1>2. TypeInv'
  <2>1. PendingTypeOK'
    BY <1>1, PendingTypeStep DEF TypeInv, TypeOK
  <2>2. faults' \in 0 .. MaxFaults /\ restarts' \in 0 .. MaxRestarts
    BY Kinds DEF TypeInv, TypeOK, Fault, bounds
  <2> QED
    BY <2>1, <2>2 DEF TypeInv, TypeOK, Bound, RegistryTypeOK, ClusterTypeOK, registryVars, requestVars
<1>3. ShadowInv'
  <2>1. \A c \in Creates : Staged(c)' => Staged(c)
    BY StagedShrinks
  <2> QED
    BY <2>1, ShadowKeeps DEF ShadowInv, Unanswered, Exists, requestVars
<1>4. ClaimInv'
  BY DEF ClaimInv, requestVars
<1> QED BY <1>1, <1>2, <1>3, <1>4

LEMMA LooksLife ==
    ASSUME TypeInv, TypeInv', Looks
    PROVE  Life!LifeNext
<1>1. \A c \in Creates : Keeps(c)
  BY StagedShrinks, UnbornKept DEF Keeps, Looks
<1>2. SameClaims /\ SamePods
  BY DEF Looks, requestVars, SameClaims, ClaimOf, At, SamePods, AliveAs, Exists
<1> QED BY <1>1, <1>2, LifeDrop

LEMMA HandlerInitially == ObserversInit => HandlerInv /\ PendingInit /\ Life!LifeInit
  BY TypeInitially, ShadowInitially, ClaimInitially, LifeInitially DEF ObserversInit, HandlerInv, Init

\* A step of the handlers and the observers together.
HandlersMove == [Next]_vars \/ Looks

LEMMA HandlersStep == [ObserversNext]_allVars => HandlersMove
  BY ObserveLooks DEF ObserversNext, Handle, allVars, vars, HandlersMove

LEMMA HandlerStep ==
    HandlerInv /\ HandlersMove
        => HandlerInv' /\ [PendingNext]_pendingVars /\ [Life!LifeNext]_(Life!lifeVars)
<1> SUFFICES ASSUME HandlerInv, HandlersMove
             PROVE  HandlerInv' /\ [PendingNext]_pendingVars /\ [Life!LifeNext]_(Life!lifeVars)
  OBVIOUS
<1>1. CASE [Next]_vars
  BY <1>1, TypeStep, ShadowStep, ClaimStep, PendingUse, LifeStep DEF HandlerInv
<1>2. CASE Looks
  BY <1>2, LooksKeep, LooksLife DEF HandlerInv
<1> QED BY <1>1, <1>2 DEF HandlersMove

-----------------------------------------------------------------------------
(***************************************************************************)
(* Where a container is, from its life cycle alone.                        *)
(***************************************************************************)
\* The containers whose pods exist or are about to were reserved once, and their
\* pods have their names.
Born ==
    /\ \A s \in Starts : ClaimOf(s) # None => StageOf(ClaimOf(s)) # "unborn"
    /\ \A n \in Names : AliveAs(n) # None =>
          PodName[AliveAs(n)] = n /\ StageOf(AliveAs(n)) # "unborn"

\* Between its POST and its drop a /start holds its entry under the pod's name.
FlightNamed == \A s \in Starts : pc[s] \in InFlight => target[s] = PodName[entry[s]]

\* A container is in the store and in the cluster only while a /start in flight
\* has yet to drop it.
Realizing == \A c \in Creates : InCluster(c) /\ Staged(c) =>
    \E s \in Starts : entry[s] = c /\ pc[s] \in InFlight

RealizeInv == Born /\ FlightNamed /\ Realizing

\* A life is a one-way street: what was dropped stays dropped, only a claim
\* makes a pod, and only what is staged is claimed.
LEMMA LifeGoesOn ==
    ASSUME [Life!LifeNext]_(Life!lifeVars)
    PROVE  /\ \A c \in Creates : StageOf(c) = "dropped" => StageOf(c)' = "dropped"
           /\ \A c \in Creates : StageOf(c) # "unborn" => StageOf(c)' # "unborn"
           /\ \A c \in Creates : StageOf(c) = "unborn" => StageOf(c)' = "unborn" \/ SamePods
           /\ \A n \in Names :
                 \/ AliveAs(n)' \in {AliveAs(n), None}
                 \/ \E s \in Starts : /\ ClaimOf(s) = AliveAs(n)' /\ ClaimOf(s)' = None
                                      /\ ClaimOf(s) # None /\ n = PodName[ClaimOf(s)]
           /\ \A s \in Starts, c \in Creates :
                 ClaimOf(s)' = c => ClaimOf(s) = c \/ StageOf(c) = "staged"
<1> DEFINE Goal ==
      /\ \A c \in Creates : StageOf(c) = "dropped" => StageOf(c)' = "dropped"
      /\ \A c \in Creates : StageOf(c) # "unborn" => StageOf(c)' # "unborn"
      /\ \A c \in Creates : StageOf(c) = "unborn" => StageOf(c)' = "unborn" \/ SamePods
      /\ \A n \in Names :
            \/ AliveAs(n)' \in {AliveAs(n), None}
            \/ \E s \in Starts : /\ ClaimOf(s) = AliveAs(n)' /\ ClaimOf(s)' = None
                                 /\ ClaimOf(s) # None /\ n = PodName[ClaimOf(s)]
      /\ \A s \in Starts, c \in Creates :
            ClaimOf(s)' = c => ClaimOf(s) = c \/ StageOf(c) = "staged"
<1> SUFFICES Goal
  OBVIOUS
<1> USE DEF Life!Dropping, Life!StagedOnes, SamePods
<1>1. ASSUME NEW gone \in SUBSET Life!StagedOnes,
             \/ Life!Drop(gone)
             \/ \E d \in Creates : Life!Stage(d, gone)
             \/ \E q \in Starts, d \in Creates : Life!Claim(q, d, gone)
      PROVE  Goal
  <2>1. CASE Life!Drop(gone)
    BY <2>1 DEF Life!Drop
  <2>2. ASSUME NEW d \in Creates, Life!Stage(d, gone)
        PROVE  Goal
    BY <2>2 DEF Life!Stage
  <2>3. ASSUME NEW q \in Starts, NEW d \in Creates, Life!Claim(q, d, gone)
        PROVE  Goal
    BY <2>3 DEF Life!Claim
  <2> HIDE DEF Goal
  <2> QED BY <1>1, <2>1, <2>2, <2>3
<1>4. ASSUME NEW q \in Starts, Life!Realize(q)
      PROVE  Goal
  BY <1>4, NoneIsNothing DEF Life!Realize
<1>5. ASSUME NEW n \in Names, Life!Vanish(n)
      PROVE  Goal
  BY <1>5 DEF Life!Vanish
<1>6. CASE Life!LoseMemory
  BY <1>6, NoneIsNothing DEF Life!LoseMemory
<1>7. CASE UNCHANGED Life!lifeVars
  BY <1>7 DEF Life!lifeVars
<1> HIDE DEF Goal
<1> QED BY <1>1, <1>4, <1>5, <1>6, <1>7 DEF Life!LifeNext

\* The types of the mapped state, before a step and after it.
LEMMA LifeTypes ==
    ASSUME TypeInv
    PROVE  /\ \A s \in Starts : ClaimOf(s) \in Creates \cup {None}
           /\ \A n \in Names : AliveAs(n) \in Creates \cup {None}
           /\ \A n \in Names : Exists(n) <=> AliveAs(n) # None
           /\ \A n \in Names : Exists(n) => pods[n].spec = AliveAs(n)
           /\ \A c \in Creates : StageOf(c) \in {"unborn", "staged", "dropped"}
           /\ \A c \in Creates : StageOf(c) = "staged" <=> Staged(c)
<1>1. \A n \in Names : Exists(n) => pods[n].spec \in Creates
  BY PodTypes DEF Exists
<1>2. \A s \in Starts : ClaimOf(s) \in Creates \cup {None}
  BY Kinds DEF ClaimOf, TypeInv, TypeOK
<1>3. \A c \in Creates : StageOf(c) \in {"unborn", "staged", "dropped"} /\ (StageOf(c) = "staged" <=> Staged(c))
  BY StagedIsBorn, Stages
<1> QED BY <1>1, <1>2, <1>3, NoneIsNothing DEF AliveAs

LEMMA LifeTypesAfter ==
    ASSUME TypeInv'
    PROVE  /\ \A s \in Starts : ClaimOf(s)' \in Creates \cup {None}
           /\ \A n \in Names : AliveAs(n)' \in Creates \cup {None}
           /\ \A c \in Creates : StageOf(c)' \in {"unborn", "staged", "dropped"}
           /\ \A c \in Creates : StageOf(c)' = "staged" <=> Staged(c)'
<1>1. \A n \in Names : pods'[n] # None => pods'[n].spec \in Creates
  BY DEF TypeInv, TypeOK, ClusterTypeOK
<1>2. \A s \in Starts : ClaimOf(s)' \in Creates \cup {None}
  BY Kinds DEF ClaimOf, TypeInv, TypeOK
<1>3. \A c \in Creates : /\ StageOf(c)' \in {"unborn", "staged", "dropped"}
                         /\ StageOf(c)' = "staged" <=> Staged(c)'
  BY StagesAfter DEF Unborn
<1> QED BY <1>1, <1>2, <1>3 DEF AliveAs, Exists

LEMMA BornStep ==
    ASSUME TypeInv, TypeInv', Born, [Life!LifeNext]_(Life!lifeVars)
    PROVE  Born'
<1>1. ASSUME NEW s \in Starts, ClaimOf(s)' # None
      PROVE  StageOf(ClaimOf(s))' # "unborn"
  <2>1. PICK c \in Creates : ClaimOf(s)' = c
    BY <1>1, LifeTypesAfter
  <2>2. StageOf(c) # "unborn"
    BY <2>1, LifeGoesOn, NoneIsNothing DEF Born
  <2>3. StageOf(c)' # "unborn"
    BY <2>2, LifeGoesOn
  <2> QED BY <2>1, <2>3
<1>2. ASSUME NEW n \in Names, AliveAs(n)' # None
      PROVE  PodName[AliveAs(n)'] = n /\ StageOf(AliveAs(n))' # "unborn"
  <2>1. PICK c \in Creates : AliveAs(n)' = c
    BY <1>2, LifeTypesAfter
  <2>2. AliveAs(n) = c \/ \E s \in Starts : ClaimOf(s) = c /\ n = PodName[c]
    BY <1>2, <2>1, LifeGoesOn
  <2>3. PodName[c] = n /\ StageOf(c) # "unborn"
    BY <2>2, NoneIsNothing DEF Born
  <2>4. StageOf(c)' # "unborn"
    BY <2>3, LifeGoesOn
  <2> QED BY <2>1, <2>3, <2>4
<1> QED BY <1>1, <1>2 DEF Born

\* A /start comes into flight by its POST, with the entry it looked up.
LEMMA FlightComes ==
    ASSUME TypeInv, NEW r \in Requests, Arrive(r) \/ Step(r) \/ Mishap(r),
           NEW s \in Starts, pc'[s] \in InFlight
    PROVE  pc[s] \in InFlight \cup {"post"} /\ entry'[s] = entry[s] /\ target'[s] = target[s]
<1> USE Kinds DEF InFlight
<1>1. CASE s # r
  <2>1. CASE r \in Clients /\ Lookup(r)
    BY <1>1, <2>1, LookupFinds
  <2>2. CASE ~(r \in Clients /\ Lookup(r))
    BY <1>1, <2>2, ClaimShape
  <2> QED BY <2>1, <2>2
<1>2. CASE s = r
  <2> USE <1>2, ForwardTypes DEF At, Goto, Finish, Here
  <2>1. s \notin Creates \cup Removers \cup Waiters \cup Attaches /\ s \in Clients
    BY DEF Clients
  <2>2. ~Lookup(s) /\ ~Find(s) /\ ~Scan(s)
    BY <2>1, NextLabels DEF Lookup, Find, Scan, WithEntry
  <2>3. ~FindFails(s) /\ ~ScanFails(s) /\ ~CloseStep(s) /\ ~GiveUp(s)
    BY <2>1 DEF FindFails, ScanFails, CloseStep, DetachForwarder, CloseForwarder, AfterClose, GiveUp
  <2>4. ~StartFails(s) /\ ~WatchGetFails(s) /\ ~WatchGet(s) /\ ~WatchHas(s) /\ ~StartSet(s)
    BY <2>1 DEF StartFails, WatchGetFails, WatchGet, WatchHas, StartSet
  <2>5. ~StartListen(s) /\ ~StartResolve(s) /\ ~StartHas(s) /\ ~StartPoll(s)
    BY <2>1 DEF StartListen, StartResolve, StartHas, StartPoll
  <2>6. ~StartUnstage(s) /\ ~StartUnstageFailed(s)
    BY <2>1 DEF StartUnstage, StartUnstageFailed
  <2>7. StartPost(s) \/ StartPostFails(s) \/ StartMark(s) \/ StartMarkFailed(s)
    BY <2>1, <2>2, <2>3, <2>4, <2>5, <2>6 DEF Arrive, Step, Mishap, StartStep, Waiters, Removers
  <2> QED
    BY <2>7 DEF StartPost, StartPostFails, StartMark, StartMarkFailed
<1> QED BY <1>1, <1>2

\* What is not a request's step leaves the requests alone, or ends them.
LEMMA OtherMoves ==
    ASSUME HandlersMove
    PROVE  \/ \E r \in Requests : Arrive(r) \/ Step(r) \/ Mishap(r)
           \/ UNCHANGED <<pc, entry, target>>
           \/ Restart
  BY DEF HandlersMove, Next, Kubelet, Evict, Undisturbed, TimePasses, Looks, vars, requestVars

LEMMA FlightStep ==
    ASSUME HandlerInv, FlightNamed, HandlersMove
    PROVE  FlightNamed'
<1>1. ASSUME NEW r \in Requests, Arrive(r) \/ Step(r) \/ Mishap(r)
      PROVE  FlightNamed'
  BY <1>1, FlightComes DEF FlightNamed, HandlerInv, ClaimInv
<1>2. CASE UNCHANGED <<pc, entry, target>>
  BY <1>2 DEF FlightNamed
<1>3. CASE Restart
  BY <1>3, Kinds DEF Restart, FlightNamed, InFlight
<1> QED BY <1>1, <1>2, <1>3, OtherMoves

LEMMA RealizingStep ==
    ASSUME HandlerInv, HandlerInv', RealizeInv, HandlersMove, [Life!LifeNext]_(Life!lifeVars)
    PROVE  Realizing'
<1> USE DEF HandlerInv, RealizeInv
<1> SUFFICES ASSUME NEW c \in Creates, InCluster(c)', Staged(c)'
             PROVE  \E s \in Starts : entry'[s] = c /\ pc'[s] \in InFlight
  BY DEF Realizing
<1>1. Staged(c)
  <2>1. StageOf(c)' = "staged"
    BY LifeTypesAfter
  <2>2. StageOf(c) # "unborn"
    <3>1. SUFFICES ASSUME SamePods
                   PROVE  StageOf(c) # "unborn"
      BY <2>1, LifeGoesOn
    <3>2. PICK n \in Names : AliveAs(n) = c
      BY <3>1 DEF InCluster, SamePods
    <3> QED BY <3>2, NoneIsNothing DEF Born
  <2> QED BY <2>1, <2>2, LifeGoesOn, LifeTypes
<1>2. ~Restart
  BY NoneIsNothing, NamesAreNames DEF Restart, Forget, Staged
<1>3. CASE InCluster(c)
  <2>1. PICK s \in Starts : entry[s] = c /\ pc[s] \in InFlight
    BY <1>1, <1>3 DEF Realizing
  <2>2. ASSUME NEW r \in Requests, Arrive(r) \/ Step(r) \/ Mishap(r)
        PROVE  entry'[s] = c /\ pc'[s] \in InFlight
    <3>1. CASE s # r
      <4>1. CASE r \in Clients /\ Lookup(r)
        BY <2>1, <3>1, <4>1, LookupFinds, Kinds
      <4>2. CASE ~(r \in Clients /\ Lookup(r))
        BY <2>1, <2>2, <3>1, <4>2, ClaimShape, Kinds
      <4> QED BY <4>1, <4>2
    <3>2. CASE s = r
      <4>1. ~(StartUnstage(s) \/ StartUnstageFailed(s))
        <5>1. ~Remove(PodName[c])
          BY NoneIsNothing, NamesAreNames DEF Remove, Staged, TypeInv, TypeOK, PendingTypeOK
        <5> QED BY <2>1, <5>1 DEF FlightNamed, StartUnstage, StartUnstageFailed
      <4> QED BY <2>1, <2>2, <3>2, <4>1, FlightKeeps
    <3> QED BY <3>1, <3>2
  <2> QED BY <1>2, <2>1, <2>2, OtherMoves
<1>4. CASE ~InCluster(c)
  <2>1. PICK s \in Starts : ClaimOf(s) = c /\ ClaimOf(s)' = None
    BY <1>4, LifeGoesOn, NoneIsNothing DEF InCluster
  <2>2. pc[s] = "post" /\ entry[s] = c /\ ~(pc'[s] = "post" /\ entry'[s] = c)
    BY <2>1, NoneIsNothing DEF ClaimOf, At
  <2>3. ASSUME NEW r \in Requests, Arrive(r) \/ Step(r) \/ Mishap(r)
        PROVE  StartPost(s) \/ StartPostFails(s)
    <3>1. CASE r \in Clients /\ Lookup(r)
      BY <2>2, <3>1, LookupFinds, Kinds
    <3>2. CASE ~(r \in Clients /\ Lookup(r))
      BY <2>2, <2>3, <3>2, ClaimShape, Kinds
    <3> QED BY <3>1, <3>2
  <2>4. StartPost(s) \/ StartPostFails(s)
    BY <1>2, <2>2, <2>3, OtherMoves
  <2> QED
    BY <2>2, <2>4, ForwardTypes DEF StartPost, StartPostFails, Goto, Here, InFlight
<1> QED BY <1>3, <1>4

LEMMA RealizeInitially == Init => RealizeInv
  BY Kinds, NoneIsNothing
     DEF Init, ClusterInit, RealizeInv, Born, FlightNamed, Realizing, InCluster, AliveAs, ClaimOf,
         Exists, InFlight, At

LEMMA RealizeStep ==
    HandlerInv /\ RealizeInv /\ HandlersMove => RealizeInv'
  BY HandlerStep, BornStep, FlightStep, RealizingStep DEF RealizeInv, HandlerInv

-----------------------------------------------------------------------------
(***************************************************************************)
(* What an observer and a handler that looks for its container have not    *)
(* found so far.                                                           *)
(***************************************************************************)
Lookers == Clients \cup Observers

\* Requests that missed it in the pending store, and those that missed the pod
\* of their name too.
AskedStore(r) == r \in Clients \/ place[r] \in {"inspecting", "scanning"}
AskedName(r) == IF r \in Clients THEN At(r, "scan") ELSE place[r] \in {"scanning", "followScan"}

\* What has been there all the while is there.
StillThere == \A r \in Lookers : \A c \in there[r] : Findable(r, c)

\* What the store did not show has left it for good.
MissedInStore == \A r \in Lookers : \A c \in there[r] :
    Means(r, c) /\ AskedStore(r) => StageOf(c) = "dropped"

\* What the Get by name did not show has another name, or {id} is an ID.
MissedByName == \A r \in Lookers \ blind : \A c \in there[r] :
    Means(r, c) /\ AskedName(r) => PodName[c] # RefOf(r) \/ r \in ById

\* A container that a List of the pods showed has left the store, and one that it
\* did not show is still no pod.
HalfListed == \A o \in Observers : place[o] = "listing" =>
    /\ told[o] \in [Creates -> {0, 1}]
    /\ \A c \in there[o] : IF told[o][c] = 1 THEN StageOf(c) = "dropped" ELSE ~InCluster(c)

LookInv == ObserversTypeOK /\ StillThere /\ MissedInStore /\ MissedByName /\ HalfListed

LEMMA LookInitially == ObserversInit => LookInv
<1> SUFFICES ASSUME ObserversInit
             PROVE  LookInv
  OBVIOUS
<1> USE DEF ObserversInit, LookInv
<1>1. ObserversTypeOK
  BY DEF ObserversTypeOK, Places
<1>2. StillThere /\ MissedInStore /\ MissedByName
  BY DEF StillThere, MissedInStore, MissedByName, Lookers
<1>3. HalfListed
  BY DEF HalfListed
<1> QED BY <1>1, <1>2, <1>3

\* The history variable: only a request that arrives takes new containers up.
LEMMA WatchShape ==
    ASSUME Watch, NEW r \in Lookers
    PROVE  /\ there'[r] \subseteq Creates \cup there[r]
           /\ \A c \in there'[r] : Findable(r, c)'
           /\ ~Arriving(r) => there'[r] \subseteq there[r]
  BY DEF Watch, Lookers

LEMMA ObserverTypes ==
    ASSUME ObserversTypeOK
    PROVE  /\ place \in [Observers -> Places] /\ blind \subseteq Lookers
           /\ told \in [Observers -> Rows \cup Creates \cup {None, Unknown}]
           /\ there \in [Lookers -> SUBSET Creates]
           /\ \A o \in Observers : o \notin Clients /\ o \notin ById /\ o \in Lookers
  BY ObserverKinds, RequestKinds DEF ObserversTypeOK, Lookers, Requests

LEMMA WatchType ==
    ASSUME ObserversTypeOK, Watch
    PROVE  there' \in [Lookers -> SUBSET Creates]
  BY ObserverTypes DEF Watch, Lookers

LEMMA ObserversTypeStep ==
    ASSUME HandlerInv, LookInv, [ObserversNext]_allVars
    PROVE  ObserversTypeOK'
<1> USE ObserverTypes DEF LookInv
<1>1. CASE UNCHANGED allVars
  BY <1>1 DEF allVars, observerVars, historyVars, ObserversTypeOK
<1>2. CASE Handle /\ Watch
  <2>1. there' \in [Lookers -> SUBSET Creates]
    BY <1>2, WatchType
  <2> QED BY <1>2, <2>1 DEF Handle, ObserversTypeOK, observerVars, Lookers
<1>3. ASSUME NEW o \in Observers, Observe(o), Watch
      PROVE  ObserversTypeOK'
  <2>1. there' \in [Lookers -> SUBSET Creates]
    BY <1>3, WatchType
  <2>2. place' \in [Observers -> Places] /\ blind' \subseteq Lookers
    BY <1>3
       DEF Observe, ListPods, ListPending, InspectPending, FollowArrives, SeekName, SeekNameFails,
           SeekScan, LookFails, Moves, Tell, NextPlace, Places
  <2>3. told' \in [Observers -> Rows \cup Creates \cup {None, Unknown}]
    <3>1. CASE ListPods(o)
      <4>1. Podded \in Rows
        BY DEF Podded, Rows
      <4> QED BY <3>1, <4>1 DEF ListPods
    <3>2. CASE ListPending(o)
      <4>1. told[o] \in [Creates -> {0, 1}]
        BY <3>2 DEF ListPending, HalfListed
      <4>2. [c \in Creates |-> told[o][c] + Pending[c]] \in Rows
        BY <4>1 DEF Pending, Rows
      <4> QED BY <3>2, <4>2 DEF ListPending, Tell
    <3>3. CASE InspectPending(o)
      BY <3>3 DEF InspectPending, Moves, Tell
    <3>4. CASE FollowArrives(o) \/ SeekNameFails(o) \/ LookFails(o)
      BY <3>4 DEF FollowArrives, SeekNameFails, LookFails, Moves
    <3>5. CASE SeekName(o)
      <4>1. Sought[o] \in Names
        BY ObserverKinds
      <4>2. AliveAs(Sought[o]) \in Creates \cup {None}
        BY <4>1, LifeTypes DEF HandlerInv
      <4> QED BY <3>5, <4>2 DEF SeekName, Moves, Tell
    <3>6. CASE SeekScan(o)
      BY <3>6 DEF SeekScan, Tell, Called
    <3> QED BY <1>3, <3>1, <3>2, <3>3, <3>4, <3>5, <3>6 DEF Observe
  <2> QED BY <2>1, <2>2, <2>3 DEF ObserversTypeOK, Lookers
<1> QED BY <1>1, <1>2, <1>3 DEF ObserversNext

\* How a client's request comes to look for its container in the cluster.
LEMMA ComesToLook ==
    ASSUME TypeInv, HandlersMove, NEW r \in Clients, pc'[r] \in {"find", "scan"}
    PROVE  \/ pc'[r] = pc[r]
           \/ pc[r] = "idle" /\ pc'[r] = "find" /\ GetByRef(Ref[r], None)
           \/ pc[r] = "find" /\ pc'[r] = "scan" /\ (Find(r) \/ FindFails(r))
<1> USE Kinds, ForwardTypes
<1>1. CASE UNCHANGED pc
  BY <1>1
<1>2. CASE Restart
  BY <1>2 DEF Restart, At
<1>3. ASSUME NEW q \in Requests, Arrive(q) \/ Step(q) \/ Mishap(q), q # r
      PROVE  pc'[r] = pc[r]
  BY <1>3, StepShape
<1>4. ASSUME Arrive(r) \/ Step(r) \/ Mishap(r)
      PROVE  \/ Lookup(r) /\ pc'[r] = "find"
             \/ pc[r] = "find" /\ pc'[r] = "scan" /\ (Find(r) \/ FindFails(r))
  <2> USE DEF At, Goto, Finish
  <2>1. r \notin Creates
    OBVIOUS
  <2>2. CASE Lookup(r)
    <3>1. pc'[r] # "scan"
      BY <2>2, NextLabels DEF Lookup
    <3> QED BY <2>2, <3>1
  <2>3. CASE Find(r)
    BY <2>3, NextLabels DEF Find
  <2>4. CASE FindFails(r)
    BY <2>4 DEF FindFails
  <2>5. ~Scan(r)
    BY NextLabels DEF Scan
  <2>6. ~ScanFails(r)
    BY DEF ScanFails
  <2>7. ~StartStep(r)
    <3>1. ~StartPost(r) /\ ~StartMark(r) /\ ~StartUnstage(r) /\ ~StartMarkFailed(r) /\ ~StartUnstageFailed(r)
      BY DEF StartPost, StartMark, StartUnstage, StartMarkFailed, StartUnstageFailed
    <3>2. ~StartPoll(r) /\ ~StartHas(r) /\ ~StartResolve(r) /\ ~StartListen(r)
      BY DEF StartPoll, StartHas, StartResolve, StartListen
    <3>3. ~StartSet(r) /\ ~WatchHas(r) /\ ~WatchGet(r)
      BY DEF StartSet, WatchHas, WatchGet
    <3> QED BY <3>1, <3>2, <3>3 DEF StartStep
  <2>8. ~RemoveStep(r) /\ ~CloseStep(r) /\ ~DeletePod(r) /\ ~DeletePodFails(r)
    BY DEF RemoveStep, MarkRemoved, DropEntry, CloseStep, DetachForwarder, CloseForwarder, AfterClose,
           DeletePod, DeletePodFails
  <2>9. ~FollowStep(r) /\ ~PollExit(r) /\ ~PollStarted(r) /\ ~FollowFails(r) /\ ~GiveUp(r)
    BY DEF FollowStep, AwaitStart, AfterStart, StreamEnds, PollExit, PollStarted, FollowFails, GiveUp
  <2>10. ~StartPostFails(r) /\ ~StartFails(r) /\ ~WatchGetFails(r)
    BY DEF StartPostFails, StartFails, WatchGetFails
  <2> QED
    BY <1>4, <2>1, <2>2, <2>3, <2>4, <2>5, <2>6, <2>7, <2>8, <2>9, <2>10 DEF Arrive, Step, Mishap
<1>5. ASSUME Lookup(r), pc'[r] = "find"
      PROVE  pc[r] = "idle" /\ GetByRef(Ref[r], None)
  BY <1>5, NextLabels DEF Lookup, At, Goto
<1> QED BY <1>1, <1>2, <1>3, <1>4, <1>5, OtherMoves

\* What a reference that getByRef did not resolve means, is not staged.
LEMMA StoreMisses ==
    ASSUME TypeInv, NEW ref \in Names, GetByRef(ref, None),
           NEW c \in Creates, ref \in {DockerName[c], PodName[c]}
    PROVE  ~Staged(c)'
<1> USE NamesAreNames, NoneIsNothing
<1>1. Swept \in [Names -> Creates \cup {None}]
  BY SweptType DEF TypeInv, TypeOK
<1>2. Matches(Swept, ref) = {} /\ store' = Swept
  BY <1>1 DEF GetByRef, Matches, Reap
<1>3. Swept[ref] = None
  BY <1>2 DEF Matches
<1>4. Swept[PodName[c]] # c
  BY <1>2, <1>3 DEF Matches
<1> QED BY <1>2, <1>4 DEF Staged

\* A container that is there, and not in the store, has left it for good.
LEMMA OnlyInClusterAfter ==
    ASSUME TypeInv', Born', NEW c \in Creates, InCluster(c)', ~Staged(c)'
    PROVE  StageOf(c)' = "dropped"
<1>1. PICK n \in Names : AliveAs(n)' = c
  BY DEF InCluster
<1>2. StageOf(c)' # "unborn"
  BY <1>1, NoneIsNothing DEF Born
<1> QED BY <1>2, LifeTypesAfter

\* The pod of a container that only the cluster has.
LEMMA PodOf ==
    ASSUME Born, NEW c \in Creates, InCluster(c)
    PROVE  PodName[c] \in Names /\ AliveAs(PodName[c]) = c /\ Exists(PodName[c])
<1>1. PICK n \in Names : AliveAs(n) = c
  BY DEF InCluster
<1>2. PodName[c] = n
  BY <1>1, NoneIsNothing DEF Born
<1> QED BY <1>1, <1>2, NoneIsNothing DEF AliveAs

LEMMA MissedInStoreStep ==
    ASSUME HandlerInv, HandlerInv', RealizeInv, RealizeInv', LookInv,
           [ObserversNext]_allVars, [Life!LifeNext]_(Life!lifeVars)
    PROVE  MissedInStore'
<1> USE DEF HandlerInv, RealizeInv, LookInv
<1>1. CASE UNCHANGED allVars
  <2>1. UNCHANGED <<place, there, pc, store, signal>>
    BY <1>1 DEF allVars, vars, observerVars, historyVars
  <2>2. SameStages
    BY <2>1, StagesKept
  <2> QED
    BY <2>1, <2>2, ObserverTypes DEF MissedInStore, AskedStore, Means, RefOf, SameStages
<1>2. CASE ObserversNext
  <2> SUFFICES ASSUME NEW r \in Lookers, NEW c \in there'[r], Means(r, c), AskedStore(r)'
               PROVE  StageOf(c)' = "dropped"
    BY DEF MissedInStore, Means, RefOf
  <2>0. c \in Creates /\ Findable(r, c)'
    BY <1>2, WatchShape, ObserverTypes DEF ObserversNext
  <2>1. CASE ~Arriving(r) /\ AskedStore(r)
    <3>1. c \in there[r]
      BY <1>2, <2>1, WatchShape DEF ObserversNext
    <3>2. StageOf(c) = "dropped"
      BY <2>1, <3>1 DEF MissedInStore
    <3> QED BY <2>0, <3>2, LifeGoesOn
  <2>2. ASSUME NEW ref \in Names, GetByRef(ref, None), ref = RefOf(r)
        PROVE  StageOf(c)' = "dropped"
    <3>1. ~Staged(c)'
      BY <2>0, <2>2, StoreMisses DEF Means
    <3>2. InCluster(c)'
      BY <2>0, <3>1 DEF Findable, InStore
    <3> QED BY <2>0, <3>1, <3>2, OnlyInClusterAfter
  <2>3. CASE r \in Clients
    <3>1. CASE pc[r] = "idle"
      <4>1. pc'[r] \in {"find", "scan"}
        BY <2>0, <2>3 DEF Findable
      <4>2. GetByRef(Ref[r], None)
        BY <2>3, <3>1, <4>1, ComesToLook, HandlersStep
      <4>3. Ref[r] \in Names /\ Ref[r] = RefOf(r)
        BY <2>3, RequestKinds DEF RefOf
      <4> QED BY <2>2, <4>2, <4>3
    <3>2. CASE pc[r] # "idle"
      BY <2>1, <2>3, <3>2 DEF Arriving, At, AskedStore
    <3> QED BY <3>1, <3>2
  <2>4. CASE r \notin Clients
    <3>0. r \in Observers /\ place'[r] \in {"inspecting", "scanning"} /\ place[r] \in Places
      BY <2>4, ObserverTypes DEF Lookers, AskedStore
    <3>1. CASE place[r] = "idle"
      <4>1. InspectPending(r) /\ place'[r] = "inspecting"
        BY <1>2, <3>0, <3>1, ObserverTypes
           DEF ObserversNext, Handle, observerVars, Observe, ListPods, ListPending, InspectPending,
               FollowArrives, SeekName, SeekNameFails, SeekScan, LookFails, Moves, Tell
      <4>2. GetByRef(Sought[r], None)
        BY <3>0, <4>1, ObserverTypes DEF InspectPending, Tell
      <4>3. Sought[r] \in Names /\ Sought[r] = RefOf(r)
        BY <2>4, <3>0, ObserverKinds DEF RefOf
      <4> QED BY <2>2, <4>2, <4>3
    <3>2. CASE place[r] # "idle"
      <4>1. place[r] \in {"inspecting", "scanning"}
        BY <1>2, <3>0, <3>2, ObserverTypes
           DEF ObserversNext, Handle, observerVars, Observe, ListPods, ListPending, InspectPending,
               FollowArrives, SeekName, SeekNameFails, SeekScan, LookFails, Moves, Tell, NextPlace
      <4> QED BY <2>1, <2>4, <3>2, <4>1 DEF Arriving, AskedStore
    <3> QED BY <3>1, <3>2
  <2> QED BY <2>3, <2>4
<1> QED BY <1>1, <1>2

LEMMA MissedByNameStep ==
    ASSUME HandlerInv, RealizeInv, LookInv, [ObserversNext]_allVars
    PROVE  MissedByName'
<1> USE DEF HandlerInv, RealizeInv, LookInv
<1>1. CASE UNCHANGED allVars
  <2>1. UNCHANGED <<place, there, blind, pc>>
    BY <1>1 DEF allVars, vars, observerVars, historyVars
  <2> QED BY <2>1, ObserverTypes DEF MissedByName, AskedName, Means, RefOf, At
<1>2. CASE ObserversNext
  <2> SUFFICES ASSUME NEW r \in Lookers \ blind', NEW c \in there'[r], Means(r, c), AskedName(r)',
                      PodName[c] = RefOf(r), r \notin ById
               PROVE  FALSE
    BY DEF MissedByName, Means, RefOf
  <2>0. /\ Findable(r, c)'
        /\ ~Arriving(r) => c \in there[r] /\ Findable(r, c) /\ c \in Creates
        /\ r \notin blind
    <3>1. blind \subseteq blind'
      BY <1>2 DEF ObserversNext, Handle, Observe, ListPods, ListPending, InspectPending, FollowArrives,
                  SeekName, SeekNameFails, SeekScan, LookFails
    <3> QED BY <1>2, <3>1, WatchShape, ObserverTypes DEF ObserversNext, StillThere
  <2>1. ~(~Arriving(r) /\ AskedName(r))
    BY <2>0 DEF MissedByName
  <2>2. ~(~Arriving(r) /\ AskedStore(r) /\ ~Exists(RefOf(r)))
    <3> SUFFICES ASSUME ~Arriving(r), AskedStore(r), ~Exists(RefOf(r))
                 PROVE  FALSE
      OBVIOUS
    <3>1. StageOf(c) = "dropped"
      BY <2>0 DEF MissedInStore
    <3>2. ~Staged(c)
      BY <2>0, <3>1, LifeTypes
    <3>3. InCluster(c)
      BY <2>0, <3>2 DEF Findable, InStore
    <3> QED BY <2>0, <3>3, PodOf
  <2>3. CASE r \in Clients
    <3>1. pc'[r] = "scan"
      BY <2>3 DEF AskedName, At
    <3>2. pc[r] # "scan"
      BY <2>1, <2>3 DEF Arriving, AskedName, At
    <3>3. pc[r] = "find" /\ (Find(r) \/ FindFails(r))
      BY <2>3, <3>1, <3>2, ComesToLook, HandlersStep
    <3>4. ~FindFails(r)
      <4> SUFFICES ASSUME FindFails(r)
                   PROVE  FALSE
        OBVIOUS
      <4>1. pc'[r] # pc[r]
        BY <3>1, <3>2
      <4>2. Handle
        BY <1>2, <4>1, ObserveLooks DEF ObserversNext, Looks, requestVars
      <4> QED BY <2>3, <4>2 DEF Handle
    <3>5. ~Exists(Ref[r])
      BY <2>3, <3>1, <3>3, <3>4, NextLabels, ForwardTypes, Kinds DEF Find, Goto
    <3> QED BY <2>2, <2>3, <3>3, <3>5 DEF Arriving, At, AskedStore, RefOf
  <2>4. CASE r \notin Clients
    <3>0. r \in Observers /\ place'[r] \in {"scanning", "followScan"} /\ place[r] \in Places
      BY <2>4, ObserverTypes DEF Lookers, AskedName
    <3>1. place[r] \notin {"scanning", "followScan"}
      BY <2>1, <2>4 DEF Arriving, AskedName
    <3>2. SeekName(r) /\ place[r] \in {"inspecting", "following"}
      BY <1>2, <3>0, <3>1, ObserverTypes
         DEF ObserversNext, Handle, observerVars, Observe, ListPods, ListPending, InspectPending,
             FollowArrives, SeekName, SeekNameFails, SeekScan, LookFails, Moves, Tell
    <3>3. ~Exists(Sought[r])
      BY <3>0, <3>2, ObserverTypes DEF SeekName, Tell
    <3>4. ~Arriving(r) /\ ~Exists(RefOf(r))
      BY <2>4, <3>2, <3>3 DEF Arriving, RefOf
    <3>5. CASE place[r] = "inspecting"
      BY <2>2, <3>4, <3>5 DEF AskedStore
    <3>6. CASE place[r] = "following"
      <4>1. InCluster(c)
        BY <2>0, <2>4, <3>4, <3>6 DEF Findable
      <4> QED BY <2>0, <3>4, <4>1, PodOf
    <3> QED BY <3>2, <3>5, <3>6
  <2> QED BY <2>3, <2>4
<1> QED BY <1>1, <1>2

LEMMA HalfListedStep ==
    ASSUME HandlerInv, RealizeInv, LookInv, [ObserversNext]_allVars, [Life!LifeNext]_(Life!lifeVars),
           HandlerInv', RealizeInv'
    PROVE  HalfListed'
<1> USE DEF HandlerInv, RealizeInv, LookInv
<1> SUFFICES ASSUME NEW o \in Observers, place'[o] = "listing"
             PROVE  /\ told'[o] \in [Creates -> {0, 1}]
                    /\ \A c \in there'[o] : IF told'[o][c] = 1 THEN StageOf(c)' = "dropped"
                                                              ELSE ~InCluster(c)'
  BY DEF HalfListed
<1>0. o \notin Clients /\ o \in Lookers
  BY ObserverTypes
<1>1. CASE place[o] = "listing"
  <2>1. told'[o] = told[o] /\ there'[o] \subseteq there[o]
    <3>1. CASE UNCHANGED allVars
      BY <3>1 DEF allVars, observerVars, historyVars
    <3>2. CASE ObserversNext
      <4>1. told'[o] = told[o]
        BY <1>1, <3>2, ObserverTypes
           DEF ObserversNext, Handle, observerVars, Observe, ListPods, ListPending, InspectPending,
               FollowArrives, SeekName, SeekNameFails, SeekScan, LookFails, Moves, Tell
      <4>2. ~Arriving(o)
        BY <1>0, <1>1 DEF Arriving
      <4> QED BY <1>0, <3>2, <4>1, <4>2, WatchShape DEF ObserversNext
    <3> QED BY <3>1, <3>2
  <2>2. ASSUME NEW c \in there'[o]
        PROVE  IF told[o][c] = 1 THEN StageOf(c)' = "dropped" ELSE ~InCluster(c)'
    <3>0. c \in there[o] /\ c \in Creates
      BY <1>0, <2>1, <2>2, ObserverTypes
    <3>1. CASE told[o][c] = 1
      BY <1>1, <3>0, <3>1, LifeGoesOn DEF HalfListed
    <3>2. CASE told[o][c] # 1
      <4>1. ~InCluster(c) /\ ~Moving(c)
        BY <1>0, <1>1, <3>0, <3>2 DEF HalfListed, StillThere, Findable
      <4>2. \A s \in Starts : ClaimOf(s) # c
        BY <3>0, <4>1, NoneIsNothing DEF Moving, ClaimOf, At
      <4>3. ASSUME NEW n \in Names, AliveAs(n)' = c
            PROVE  FALSE
        BY <3>0, <4>1, <4>2, <4>3, LifeGoesOn, NoneIsNothing DEF InCluster
      <4> QED BY <3>2, <4>3 DEF InCluster
    <3> QED BY <3>1, <3>2
  <2> QED BY <1>1, <2>1, <2>2 DEF HalfListed
<1>2. CASE place[o] # "listing"
  <2>1. ListPods(o) /\ Watch
    BY <1>2, ObserverTypes
       DEF ObserversNext, Handle, allVars, observerVars, Observe, ListPods, ListPending, InspectPending,
           FollowArrives, SeekName, SeekNameFails, SeekScan, LookFails, Moves, Tell, NextPlace
  <2>2. told'[o] = Podded
    BY <2>1, ObserverTypes DEF ListPods
  <2>3. Podded \in [Creates -> {0, 1}]
    BY DEF Podded
  <2>4. ASSUME NEW c \in there'[o]
        PROVE  IF Podded[c] = 1 THEN StageOf(c)' = "dropped" ELSE ~InCluster(c)'
    <3>0. c \in Creates /\ Findable(o, c)'
      BY <1>0, <2>1, WatchShape, ObserverTypes
    <3>1. InCluster(c)' <=> InCluster(c)
      BY <2>1 DEF ListPods, vars, InCluster, AliveAs, Exists
    <3>2. CASE Podded[c] # 1
      BY <3>0, <3>1, <3>2 DEF Podded
    <3>3. CASE Podded[c] = 1
      <4>1. InCluster(c)'
        BY <3>0, <3>1, <3>3 DEF Podded
      <4>2. ~Moving(c)'
        BY <1>0, <3>0 DEF Findable
      <4>3. ~Staged(c)'
        BY <3>0, <4>1, <4>2 DEF Realizing, Moving, InFlight
      <4> QED BY <3>0, <3>3, <4>1, <4>3, OnlyInClusterAfter
    <3> QED BY <3>2, <3>3
  <2> QED BY <2>2, <2>3, <2>4
<1> QED BY <1>1, <1>2

LEMMA LookStep ==
    ASSUME HandlerInv, HandlerInv', RealizeInv, RealizeInv', LookInv, [ObserversNext]_allVars,
           [Life!LifeNext]_(Life!lifeVars)
    PROVE  LookInv'
<1>1. StillThere'
  <2>1. CASE UNCHANGED allVars
    BY <2>1 DEF allVars, vars, observerVars, historyVars, LookInv, StillThere, Findable, InStore,
                InCluster, AliveAs, Exists, Staged, Moving
  <2>2. CASE ObserversNext
    BY <2>2, WatchShape DEF ObserversNext, StillThere
  <2> QED BY <2>1, <2>2
<1> QED
  BY <1>1, ObserversTypeStep, MissedInStoreStep, MissedByNameStep, HalfListedStep DEF LookInv

Inv == HandlerInv /\ RealizeInv /\ LookInv

LEMMA InvStep == Inv /\ [ObserversNext]_allVars => Inv'
  BY HandlersStep, HandlerStep, RealizeStep, LookStep DEF Inv

LEMMA InvAlways == ObserversSpec => []Inv
<1>1. ObserversInit => Inv
  BY HandlerInitially, RealizeInitially, LookInitially DEF Inv, ObserversInit
<1> QED BY <1>1, InvStep, PTL DEF ObserversSpec

-----------------------------------------------------------------------------
(***************************************************************************)
(* What the observers and the handlers together guarantee.                 *)
(***************************************************************************)
\* Looking changes nothing that the handlers rely on: with any number of
\* listings, inspects and logs beside them, each reaping at its own moment,
\* an entry's outcome is final, no entry displaces another, and none that was
\* acknowledged sits beside a pod of its name (pending.go:30-107).
THEOREM LookingIsHarmless == ObserversSpec => []NoShadowedPod /\ SignalOnce /\ NoDisplacement
<1>1. HandlerInv => NoShadowedPod
  BY DEF HandlerInv, ShadowInv
<1>2. ObserversSpec => PendingSpec
  <2>1. ObserversInit => PendingInit
    BY HandlerInitially
  <2>2. Inv /\ [ObserversNext]_allVars => [PendingNext]_pendingVars
    BY HandlersStep, HandlerStep DEF Inv
  <2> QED BY <2>1, <2>2, InvAlways, PTL DEF ObserversSpec, PendingSpec
<1>3. Inv => HandlerInv
  BY DEF Inv
<1> QED BY <1>1, <1>2, <1>3, InvAlways, SettledOnce, NobodyDisplaced, PTL

\* And it is no part of a container's life, which is the one of ContainerLife
\* whoever looks meanwhile (containers.go:429-609).
THEOREM LookingLivesOn == ObserversSpec => LifeCycle
<1>1. ObserversInit => Life!LifeInit
  BY HandlerInitially
<1>2. Inv /\ [ObserversNext]_allVars => [Life!LifeNext]_(Life!lifeVars)
  BY HandlersStep, HandlerStep DEF Inv
<1> QED BY <1>1, <1>2, InvAlways, PTL DEF ObserversSpec, LifeCycle, Life!LifeSpec

\* The type invariant of the observers: a listing counts a container 0, 1 or 2
\* times.
THEOREM ObserversTypeCorrect == ObserversSpec => []ObserversTypeOK
<1>1. Inv => ObserversTypeOK
  BY DEF Inv, LookInv
<1> QED BY <1>1, InvAlways, PTL

\* A client is told "not found" by the scan that found nothing, and by no other
\* step.
LEMMA AnswersNotFound ==
    ASSUME TypeInv, HandlersMove, NEW r \in Clients,
           reply[r] \notin {"NotFound", "NoPod"}, reply'[r] \in {"NotFound", "NoPod"}
    PROVE  At(r, "scan") /\ Matching(r) = {}
<1> USE Kinds, ForwardTypes DEF Reply, Silent, Finish
<1>0. reply \in [Requests -> Replies \cup {None}]
  BY DEF TypeInv, TypeOK
<1>1. /\ ~Looks /\ ~UNCHANGED vars
      /\ ~(\E n \in Names : Kubelet(n) \/ Evict(n)) /\ ~(\E c \in Creates : TimePasses(c))
  BY DEF Looks, requestVars, vars, Kubelet, Evict, Undisturbed, TimePasses
<1>2. ~Restart
  BY <1>0 DEF Restart
<1>3. PICK q \in Requests : Arrive(q) \/ Step(q) \/ Mishap(q)
  BY <1>1, <1>2 DEF HandlersMove, Next
<1>4. q = r
  BY <1>3, StepShape
<1>5. r \notin Creates
  OBVIOUS
<1>6. ~Lookup(r) /\ ~Find(r) /\ ~FindFails(r) /\ ~ScanFails(r)
  BY <1>0 DEF Lookup, Find, FindFails, ScanFails
<1>7. ~StartStep(r)
  <2>1. ~StartPost(r) /\ ~StartMark(r) /\ ~StartUnstage(r) /\ ~StartMarkFailed(r) /\ ~StartUnstageFailed(r)
    BY <1>0 DEF StartPost, StartMark, StartUnstage, StartMarkFailed, StartUnstageFailed
  <2>2. ~StartPoll(r) /\ ~StartHas(r) /\ ~StartResolve(r) /\ ~StartListen(r)
    BY <1>0 DEF StartPoll, StartHas, StartResolve, StartListen
  <2>3. ~StartSet(r) /\ ~WatchHas(r) /\ ~WatchGet(r)
    BY <1>0 DEF StartSet, WatchHas, WatchGet
  <2> QED BY <2>1, <2>2, <2>3 DEF StartStep
<1>8. ~RemoveStep(r) /\ ~CloseStep(r) /\ ~DeletePod(r) /\ ~DeletePodFails(r)
  BY <1>0 DEF RemoveStep, MarkRemoved, DropEntry, CloseStep, DetachForwarder, CloseForwarder,
              DeletePod, DeletePodFails, Deleted
<1>9. ~FollowStep(r) /\ ~PollExit(r) /\ ~PollStarted(r) /\ ~FollowFails(r) /\ ~GiveUp(r)
  BY <1>0 DEF FollowStep, AwaitStart, StreamEnds, PollExit, PollStarted, FollowFails, GiveUp
<1>10. ~StartPostFails(r) /\ ~StartFails(r) /\ ~WatchGetFails(r)
  BY <1>0 DEF StartPostFails, StartFails, WatchGetFails
<1>11. Scan(r)
  BY <1>3, <1>4, <1>5, <1>6, <1>7, <1>8, <1>9, <1>10 DEF Arrive, Step, Mishap
<1> QED BY <1>0, <1>11 DEF Scan

\* An observer is told "not found" by its scan alone.
LEMMA ObserverNotFound ==
    ASSUME TypeInv, LookInv, [ObserversNext]_allVars, NEW o \in Observers,
           told[o] # Unknown, told'[o] = Unknown
    PROVE  SeekScan(o) /\ Called(Sought[o]) = {}
<1> USE ObserverTypes, ObserverKinds DEF LookInv
<1>1. Observe(o)
  BY DEF ObserversNext, Handle, allVars, observerVars, Observe, ListPods, ListPending, InspectPending,
         FollowArrives, SeekName, SeekNameFails, SeekScan, LookFails, Moves, Tell
<1>2. ~ListPods(o)
  <2>1. Podded \in Rows
    BY DEF Podded, Rows
  <2> QED BY <2>1 DEF ListPods
<1>3. ~ListPending(o)
  <2> SUFFICES ASSUME ListPending(o)
               PROVE  FALSE
    OBVIOUS
  <2>1. told[o] \in [Creates -> {0, 1}]
    BY DEF ListPending, HalfListed
  <2>2. [c \in Creates |-> told[o][c] + Pending[c]] \in Rows
    BY <2>1 DEF Pending, Rows
  <2> QED BY <2>2 DEF ListPending, Tell
<1>4. ~InspectPending(o)
  BY DEF InspectPending, Moves, Tell
<1>5. ~FollowArrives(o) /\ ~SeekNameFails(o) /\ ~LookFails(o)
  BY DEF FollowArrives, SeekNameFails, LookFails, Moves
<1>6. ~SeekName(o)
  <2>1. Sought[o] \in Names
    OBVIOUS
  <2>2. AliveAs(Sought[o]) # Unknown
    BY <2>1, LifeTypes
  <2> QED BY <2>2 DEF SeekName, Moves, Tell
<1>7. SeekScan(o)
  BY <1>1, <1>2, <1>3, <1>4, <1>5, <1>6 DEF Observe
<1> QED BY <1>7 DEF SeekScan, Tell, Called

\* Whoever is told that there is no such container, or deletes nothing, is told
\* the truth: for any number of /start moving containers from the store to the
\* cluster between the two lookups (containers.go:528-539, 580-592).
THEOREM NotFoundIsTrue == ObserversSpec => NoFalseNotFound
<1>1. ASSUME Inv, [ObserversNext]_allVars, NEW r \in Lookers, ~NotFound(r), NotFound(r)', r \notin blind,
             NEW c \in there[r], Means(r, c)
      PROVE  FALSE
  <2> USE <1>1 DEF Inv, HandlerInv, RealizeInv, LookInv
  <2>0. c \in Creates /\ Findable(r, c) /\ HandlersMove
    BY ObserverTypes, HandlersStep DEF StillThere
  <2>1. ASSUME AskedStore(r)
        PROVE  InCluster(c)
    BY <2>0, <2>1, LifeTypes DEF MissedInStore, Findable, InStore
  <2>2. CASE r \in Clients
    <3>1. At(r, "scan") /\ Matching(r) = {}
      BY <2>0, <2>2, AnswersNotFound DEF NotFound
    <3>2. PodName[c] \in Names /\ AliveAs(PodName[c]) = c /\ Exists(PodName[c])
      BY <2>0, <2>1, <2>2, PodOf DEF AskedStore
    <3>3. DockerName[c] # Ref[r] /\ ~(r \in ById /\ PodName[c] = Ref[r])
      BY <3>1, <3>2 DEF Matching, AliveAs
    <3> QED BY <2>2, <3>1, <3>3 DEF Means, RefOf, MissedByName, AskedName
  <2>3. CASE r \notin Clients
    <3>1. r \in Observers /\ SeekScan(r) /\ Called(Sought[r]) = {}
      BY <2>3, ObserverNotFound DEF Lookers, NotFound
    <3>2. InCluster(c)
      BY <2>0, <2>1, <2>3, <3>1 DEF SeekScan, AskedStore, Findable
    <3>3. DockerName[c] # Sought[r]
      BY <2>0, <3>1, <3>2 DEF Called
    <3>4. PodName[c] # RefOf(r)
      BY <2>3, <3>1, ObserverTypes DEF MissedByName, AskedName, SeekScan
    <3> QED BY <2>3, <3>3, <3>4 DEF Means, RefOf
  <2> QED BY <2>2, <2>3
<1>2. Inv /\ [ObserversNext]_allVars =>
        [\A r \in Clients \cup Observers :
            ~NotFound(r) /\ NotFound(r)' /\ r \notin blind => \A c \in there[r] : ~Means(r, c)]_allVars
  BY <1>1 DEF Lookers
<1> QED BY <1>2, InvAlways, PTL DEF ObserversSpec, NoFalseNotFound

\* A listing shows every container that no /start moves meanwhile exactly once:
\* what its List of the pods showed has left the store, and what it did not show
\* is still staged (containers.go:429-463).
THEOREM ListsEachOnce == ObserversSpec => ListedOnce
<1>1. ASSUME Inv, [ObserversNext]_allVars, NEW o \in Observers, NEW c \in there[o],
             place[o] = "listing", place'[o] = "done"
      PROVE  told'[o][c] = 1
  <2> USE <1>1 DEF Inv, HandlerInv, RealizeInv, LookInv
  <2>0. c \in Creates /\ Findable(o, c) /\ o \notin Clients
    BY ObserverTypes DEF StillThere
  <2>1. ListPending(o)
    BY ObserverTypes
       DEF ObserversNext, Handle, allVars, observerVars, Observe, ListPods, ListPending, InspectPending,
           FollowArrives, SeekName, SeekNameFails, SeekScan, LookFails, Moves, Tell
  <2>2. told'[o][c] = told[o][c] + Pending[c] /\ told[o] \in [Creates -> {0, 1}]
    BY <2>0, <2>1, ObserverTypes DEF ListPending, Tell, HalfListed
  <2>3. CASE told[o][c] = 1
    <3>1. ~Staged(c)
      BY <2>0, <2>3, LifeTypes DEF HalfListed
    <3>2. Pending[c] = 0
      BY <2>0, <3>1, NamesAreNames, NoneIsNothing DEF Pending, Swept, Staged
    <3> QED BY <2>2, <2>3, <3>2
  <2>4. CASE told[o][c] = 0
    <3>1. Staged(c) /\ c \notin expired
      BY <2>0, <2>4 DEF HalfListed, Findable, InStore
    <3>2. Pending[c] = 1
      BY <2>0, <3>1, NamesAreNames DEF Pending, Swept, Staged
    <3> QED BY <2>2, <2>4, <3>2
  <2> QED BY <2>0, <2>2, <2>3, <2>4
<1>2. Inv /\ [ObserversNext]_allVars =>
        [\A o \in Observers : \A c \in there[o] :
            place[o] = "listing" /\ place'[o] = "done" => told'[o][c] = 1]_allVars
  BY <1>1
<1> QED BY <1>2, InvAlways, PTL DEF ObserversSpec, ListedOnce
=============================================================================
