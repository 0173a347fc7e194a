------------------------- MODULE TCPForwarderProofs -------------------------
(***************************************************************************)
(* Host ports and forwarders, for any ports, containers, mappings, opens   *)
(* and foreign processes.                                                  *)
(***************************************************************************)
EXTENDS TCPForwarder, TLAPS

\* A /create that has its ports has them all, and those it was given differ
\* because it holds each until it has the last.
Settled == \A c \in Creates :
    /\ stage[c] = "new" => hostPort[c] = Wanted[c]
    /\ lacking[c] => stage[c] \in {"release", "refused"}
    /\ stage[c] = "release" /\ ~lacking[c] => Unset(c) = {}
    /\ stage[c] \in {"annotate", "created"} => Unset(c) = {}
    /\ stage[c] = "created" => annotation[c] = hostPort[c]

Drawn == \A c \in Creates :
    /\ DOMAIN hostPort[c] = DOMAIN Wanted[c]
    /\ \A i \in DOMAIN Wanted[c] :
          /\ stage[c] = "allocate"
          /\ Wanted[c][i] = Any
          /\ hostPort[c][i] # Any
          => hostPort[c][i] \in HeldBy(c)

PortInv == Settled /\ Drawn /\ RandomPortsDiffer

\* A handle holds exactly the ports in its hands, and those it has bound so far
\* until it is closed.
Holding == \A o \in Opens :
    /\ HeldBy(o) = listeners[o] \cup closing[o]
    /\ isClosed[o] => listeners[o] = {}
    /\ ~isClosed[o] => /\ closing[o] = {}
                       /\ listeners[o] = {mappings[o][i] : i \in 1 .. bound[o]} \ {Zero}

Phased == \A o \in Opens :
    /\ opening[o] = "idle" => bound[o] = 0
    /\ opening[o] \in {"idle", "binding"} => ~isClosed[o]
    /\ opening[o] = "undo" => isClosed[o]
    /\ opening[o] = "failed" => listeners[o] = {} /\ closing[o] = {}
    /\ opening[o] = "open" => bound[o] = Len(mappings[o])

Looping == \A o \in Opens, p \in Ports :
    <<o, p>> \in accepting => isClosed[o] \/ p \in listeners[o]

HandleInv == Holding /\ Phased /\ Looping /\ NoFalseAlarm

Inv == TypeOK /\ PortInv /\ HandleInv

LEMMA Initially == Init => Inv
<1> SUFFICES ASSUME Init PROVE Inv
  OBVIOUS
<1> USE PortsAsked, OpensOfContainers DEF Init, HostPortsInit
<1>1. TypeOK
  BY DEF TypeOK, HostPortsTypeOK, Phases
<1>2. PortInv
  BY DEF PortInv, Settled, Drawn, RandomPortsDiffer
<1>3. HandleInv
  BY DEF HandleInv, Holding, Phased, Looping, NoFalseAlarm, HeldBy
<1> QED BY <1>1, <1>2, <1>3 DEF Inv

-----------------------------------------------------------------------------
(***************************************************************************)
(* The steps of a /create.                                                 *)
(***************************************************************************)
LEMMA UnsetOf ==
    ASSUME TypeOK, NEW c \in Creates
    PROVE  /\ hostPort[c] \in Seq(HostPortTexts)
           /\ \A i \in DOMAIN hostPort[c] : hostPort[c][i] \in HostPortTexts
           /\ Unset(c) \subseteq DOMAIN hostPort[c]
  BY DEF TypeOK, HostPortsTypeOK, Unset

\* The one index a step of Allocate fills in.
LEMMA Filled ==
    ASSUME TypeOK, NEW c \in Creates, NEW i \in Unset(c), NEW p \in Ports,
           hostPort' = [hostPort EXCEPT ![c][i] = p]
    PROVE  /\ hostPort'[c] = [hostPort[c] EXCEPT ![i] = p]
           /\ hostPort'[c] \in Seq(HostPortTexts)
           /\ DOMAIN hostPort'[c] = DOMAIN hostPort[c]
           /\ hostPort'[c][i] = p
           /\ \A j \in DOMAIN hostPort[c] : j # i => hostPort'[c][j] = hostPort[c][j]
           /\ \A d \in Creates : d # c => hostPort'[d] = hostPort[d]
           /\ hostPort' \in [Creates -> Seq(HostPortTexts)]
  BY UnsetOf DEF TypeOK, HostPortsTypeOK, HostPortTexts

LEMMA CreateTypes ==
    ASSUME TypeOK, NEW c \in Creates, CreateStep(c), UNCHANGED <<handleVars, loopVars, connVars>>
    PROVE  TypeOK'
<1> USE DEF TypeOK, HostPortsTypeOK, Enter, handleVars, loopVars, connVars
<1>1. CASE Allocate(c)
  <2>1. PICK i \in Unset(c), p \in Ports : /\ owner' = [owner EXCEPT ![p] = c]
                                           /\ hostPort' = [hostPort EXCEPT ![c][i] = p]
    BY <1>1 DEF Allocate
  <2>2. hostPort' \in [Creates -> Seq(HostPortTexts)]
    BY <2>1, Filled
  <2>3. owner' \in [Ports -> Creates \cup Opens \cup Others \cup {None}]
    BY <2>1
  <2> QED BY <1>1, <2>2, <2>3 DEF Allocate
<1>2. CASE Begin(c) \/ AllocateFails(c) \/ Allocated(c) \/ Released(c) \/ Annotate(c)
  BY <1>2 DEF Begin, AllocateFails, Allocated, Released, Annotate
<1>3. CASE Release(c)
  BY <1>3 DEF Release
<1> QED BY <1>1, <1>2, <1>3 DEF CreateStep

LEMMA CreatePorts ==
    ASSUME TypeOK, PortInv, NEW c \in Creates, CreateStep(c)
    PROVE  PortInv'
<1> USE DEF TypeOK, HostPortsTypeOK, Enter, PortInv
<1>1. CASE Allocate(c)
  <2>1. PICK i \in Unset(c), p \in Ports :
            /\ Free(p)
            /\ owner' = [owner EXCEPT ![p] = c]
            /\ hostPort' = [hostPort EXCEPT ![c][i] = p]
    BY <1>1 DEF Allocate
  <2>2. stage[c] = "allocate" /\ UNCHANGED <<stage, annotation, lacking>>
    BY <1>1 DEF Allocate
  <2>3. Settled'
    BY <2>1, <2>2, Filled DEF Settled, Unset
  <2>4. p \notin HeldBy(c) /\ HeldBy(c)' = HeldBy(c) \cup {p}
    BY <2>1, PortsAsked DEF Free, HeldBy
  <2>5. \A d \in Creates : d # c => HeldBy(d)' = HeldBy(d)
    BY <2>1, PortsAsked DEF Free, HeldBy
  <2>6. Drawn'
    BY <2>1, <2>2, <2>4, <2>5, Filled DEF Drawn
  <2>7. RandomPortsDiffer'
    BY <2>1, <2>2, <2>4, Filled DEF Drawn, RandomPortsDiffer
  <2> QED BY <2>3, <2>6, <2>7
<1>2. CASE Begin(c) \/ AllocateFails(c) \/ Allocated(c) \/ Released(c) \/ Annotate(c)
  <2>1. UNCHANGED <<owner, hostPort>>
    BY <1>2 DEF Begin, AllocateFails, Allocated, Released, Annotate
  <2>2. Settled'
    <3>1. CASE Annotate(c)
      BY <3>1 DEF Settled, Unset, Annotate
    <3>2. CASE Begin(c)
      BY <3>2 DEF Settled, Unset, Begin
    <3>5. CASE AllocateFails(c)
      BY <3>5 DEF Settled, Unset, AllocateFails
    <3>3. CASE Allocated(c)
      BY <3>3 DEF Settled, Unset, Allocated
    <3>4. CASE Released(c)
      BY <3>4 DEF Settled, Unset, Released
    <3> QED BY <1>2, <3>1, <3>2, <3>3, <3>4, <3>5
  <2>3. Drawn'
    BY <1>2, <2>1 DEF Settled, Drawn, HeldBy, Begin, AllocateFails, Allocated, Released, Annotate
  <2> QED BY <2>1, <2>2, <2>3 DEF RandomPortsDiffer
<1>3. CASE Release(c)
  <2>1. Settled' /\ RandomPortsDiffer'
    BY <1>3 DEF Release, Settled, RandomPortsDiffer, Unset
  <2>2. \A d \in Creates : d # c => HeldBy(d) \subseteq HeldBy(d)'
    BY <1>3 DEF Release, HeldBy
  <2>3. Drawn'
    BY <1>3, <2>2 DEF Release, Drawn
  <2> QED BY <2>1, <2>3
<1> QED BY <1>1, <1>2, <1>3 DEF CreateStep

\* A /create takes free ports and leaves those of a handle alone.
LEMMA CreateHandles ==
    ASSUME TypeOK, HandleInv, NEW c \in Creates, CreateStep(c),
           UNCHANGED <<handleVars, loopVars, connVars>>
    PROVE  HandleInv'
<1>1. \A o \in Opens : HeldBy(o)' = HeldBy(o)
  <2>1. CASE Allocate(c)
    BY <2>1, PortsAsked DEF Allocate, HeldBy, Free, TypeOK, HostPortsTypeOK
  <2>2. CASE Release(c)
    BY <2>2, PortsAsked DEF Release, HeldBy, TypeOK, HostPortsTypeOK
  <2>3. CASE Begin(c) \/ AllocateFails(c) \/ Allocated(c) \/ Released(c) \/ Annotate(c)
    BY <2>3 DEF Begin, AllocateFails, Allocated, Released, Annotate, HeldBy
  <2> QED BY <2>1, <2>2, <2>3 DEF CreateStep
<1> QED BY <1>1 DEF HandleInv, Holding, Phased, Looping, NoFalseAlarm, handleVars, loopVars

-----------------------------------------------------------------------------
(***************************************************************************)
(* Foreign processes.                                                      *)
(***************************************************************************)
LEMMA OthersKeep ==
    ASSUME Inv, NEW x \in Others, Taken(x) \/ Left(x), UNCHANGED <<handleVars, loopVars, connVars>>
    PROVE  Inv'
<1> USE DEF Inv, handleVars, loopVars, connVars
<1>1. UNCHANGED <<stage, hostPort, annotation, lacking>>
  BY DEF Taken, Left
<1>2. TypeOK'
  BY <1>1 DEF TypeOK, HostPortsTypeOK, Taken, Left
<1>3. \A y \in Creates \cup Opens : HeldBy(y)' = HeldBy(y)
  BY PortsAsked DEF Taken, Left, HeldBy, Free, TypeOK, HostPortsTypeOK
<1>4. PortInv'
  BY <1>1, <1>3 DEF PortInv, Settled, Drawn, RandomPortsDiffer, Unset
<1>5. HandleInv'
  BY <1>3 DEF HandleInv, Holding, Phased, Looping, NoFalseAlarm
<1> QED BY <1>2, <1>4, <1>5

-----------------------------------------------------------------------------
(***************************************************************************)
(* Open and Close.                                                         *)
(***************************************************************************)

\* The mappings of a created container hold no unset port, and an Open that
\* finds no invalid one among them has ports only.
LEMMA GivenPorts ==
    ASSUME Inv, NEW o \in Opens, stage[Of[o]] = "created",
           NEW given \in {hostPort[Of[o]], annotation[Of[o]]}, Invalid \notin Range(given)
    PROVE  given \in Seq(Ports \cup {Zero})
<1>1. Of[o] \in Creates
  BY OpensOfContainers
<1>2. given = hostPort[Of[o]] /\ Unset(Of[o]) = {}
  BY <1>1 DEF Inv, PortInv, Settled
<1>3. given \in Seq(HostPortTexts)
  BY <1>1, <1>2 DEF Inv, TypeOK, HostPortsTypeOK
<1>4. \A i \in 1 .. Len(given) : given[i] \in Ports \cup {Zero}
  BY <1>2, <1>3 DEF Unset, Range, HostPortTexts
<1> QED BY <1>3, <1>4

\* A step of one handle that leaves ports and loops to the others.
LEMMA OpenKeeps ==
    ASSUME Inv, NEW o \in Opens, Open(o) \/ ResolveFails(o) \/ OpenStep(o) \/ Close(o)
    PROVE  Inv'
<1> USE DEF Inv, portVars, loopVars, connVars
<1>1. CASE Open(o)
  <2>1. PICK given \in {hostPort[Of[o]], annotation[Of[o]]} :
           IF Invalid \in Range(given)
             THEN Become(o, "failed") /\ UNCHANGED mappings
             ELSE Become(o, "binding") /\ mappings' = [mappings EXCEPT ![o] = given]
    BY <1>1 DEF Open
  <2>2. /\ opening[o] = "idle" /\ stage[Of[o]] = "created"
        /\ UNCHANGED <<portVars, bound, listeners, isClosed, closing, loopVars, connVars>>
    BY <1>1 DEF Open
  <2>3. bound[o] = 0 /\ ~isClosed[o] /\ listeners[o] = {} /\ closing[o] = {}
    BY <2>2 DEF HandleInv, Phased, Holding, TypeOK
  <2>4. Invalid \notin Range(given) => given \in Seq(Ports \cup {Zero})
    BY <2>2, GivenPorts
  <2>5. TypeOK'
    <3>1. mappings' \in [Opens -> Seq(Ports \cup {Zero})]
      BY <2>1, <2>4 DEF TypeOK
    <3>2. opening' \in [Opens -> {"idle", "binding", "undo", "failed", "open"}]
      BY <2>1 DEF TypeOK, Become
    <3>3. \A q \in Opens : bound'[q] <= Len(mappings'[q])
      <4> SUFFICES ASSUME NEW q \in Opens PROVE bound[q] <= Len(mappings'[q])
        BY <2>2
      <4>1. CASE q = o
        <5>1. Len(mappings'[o]) \in Nat
          BY <3>1
        <5> QED BY <4>1, <5>1, <2>3
      <4>2. CASE q # o
        BY <4>2, <2>1 DEF TypeOK
      <4> QED BY <4>1, <4>2
    <3> QED BY <2>2, <3>1, <3>2, <3>3 DEF TypeOK, HostPortsTypeOK
  <2>6. PortInv'
    BY <2>2 DEF PortInv, Settled, Drawn, RandomPortsDiffer, Unset, HeldBy
  <2>7. Holding'
    <3>1. \A q \in Opens : q # o => mappings'[q] = mappings[q]
      BY <2>1 DEF TypeOK
    <3>2. {mappings'[o][i] : i \in 1 .. bound[o]} = {}
      BY <2>3
    <3> QED BY <2>2, <2>3, <3>1, <3>2 DEF HandleInv, Holding, HeldBy
  <2>8. Phased' /\ Looping' /\ NoFalseAlarm'
    BY <2>1, <2>2, <2>3 DEF HandleInv, Phased, Looping, NoFalseAlarm, TypeOK, Become
  <2> QED BY <2>5, <2>6, <2>7, <2>8 DEF HandleInv
<1>2. CASE ResolveFails(o) \/ Undone(o) \/ Opened(o)
  <2>1. UNCHANGED <<portVars, mappings, bound, listeners, isClosed, closing, loopVars, connVars>>
    BY <1>2 DEF ResolveFails, Undone, Opened
  <2>2. TypeOK'
    BY <1>2, <2>1 DEF TypeOK, HostPortsTypeOK, ResolveFails, Undone, Opened, Become
  <2>3. PortInv'
    BY <2>1 DEF PortInv, Settled, Drawn, RandomPortsDiffer, Unset, HeldBy
  <2>4. Holding' /\ Looping' /\ NoFalseAlarm'
    BY <2>1 DEF HandleInv, Holding, Looping, NoFalseAlarm, HeldBy
  <2>5. Phased'
    BY <1>2, <2>1 DEF HandleInv, Holding, Phased, TypeOK, ResolveFails, Undone, Opened, Become
  <2> QED BY <2>2, <2>3, <2>4, <2>5 DEF HandleInv
<1>3. CASE BindFails(o) \/ Close(o)
  <2>1. Take(o) /\ UNCHANGED <<portVars, mappings, bound, loopVars, connVars>>
    BY <1>3 DEF BindFails, AtPort, Close
  <2>2. ~isClosed[o] /\ closing[o] = {}
    BY <1>3 DEF BindFails, AtPort, Close, HandleInv, Phased, Holding
  <2>3. opening' \in [Opens -> {"idle", "binding", "undo", "failed", "open"}]
    BY <1>3 DEF BindFails, AtPort, Close, Become, TypeOK
  <2>4. TypeOK'
    BY <2>1, <2>3 DEF TypeOK, HostPortsTypeOK, Take
  <2>5. PortInv'
    BY <2>1 DEF PortInv, Settled, Drawn, RandomPortsDiffer, Unset, HeldBy
  <2>6. Holding' /\ Looping' /\ NoFalseAlarm'
    BY <2>1, <2>2 DEF HandleInv, Holding, Looping, NoFalseAlarm, HeldBy, Take, TypeOK
  <2>7. Phased'
    BY <1>3, <2>1 DEF BindFails, AtPort, Close, Become, HandleInv, Phased, Take, TypeOK
  <2> QED BY <2>4, <2>5, <2>6, <2>7 DEF HandleInv
<1>4. CASE Bind(o)
  <2> DEFINE p == NextPort(o)
  <2>1. /\ opening[o] = "binding" /\ bound[o] < Len(mappings[o]) /\ Free(p)
        /\ owner' = [owner EXCEPT ![p] = o]
        /\ bound' = [bound EXCEPT ![o] = @ + 1]
        /\ listeners' = [listeners EXCEPT ![o] = @ \cup {p}]
        /\ accepting' = accepting \cup {<<o, p>>}
        /\ UNCHANGED <<stage, hostPort, annotation, lacking>>
        /\ UNCHANGED <<opening, mappings, isClosed, closing, warned, broken, connVars>>
    BY <1>4 DEF Bind, AtPort, CreatesAlone
  <2>2. bound[o] + 1 \in 1 .. Len(mappings[o]) /\ p = mappings[o][bound[o] + 1] /\ p \in Ports /\ p # Zero
    BY <1>4, <2>1 DEF TypeOK, NextPort, Bind, AtPort
  <2> HIDE DEF p
  <2>3. TypeOK'
    BY <2>1, <2>2 DEF TypeOK, HostPortsTypeOK
  <2>4. /\ HeldBy(o)' = HeldBy(o) \cup {p}
        /\ \A y \in (Creates \cup Opens) \ {o} : HeldBy(y)' = HeldBy(y)
    BY <2>1, <2>2, PortsAsked DEF HeldBy, Free, TypeOK, HostPortsTypeOK
  <2>5. PortInv'
    BY <2>1, <2>4, PortsAsked DEF PortInv, Settled, Drawn, RandomPortsDiffer, Unset
  <2>6. ~isClosed[o]
    BY <2>1 DEF HandleInv, Phased
  <2>7. {mappings[o][i] : i \in 1 .. bound[o] + 1} \ {Zero}
          = ({mappings[o][i] : i \in 1 .. bound[o]} \ {Zero}) \cup {p}
    BY <2>2 DEF TypeOK
  <2>8. Holding'
    BY <2>1, <2>2, <2>4, <2>6, <2>7 DEF HandleInv, Holding, TypeOK
  <2>9. Phased' /\ Looping' /\ NoFalseAlarm'
    BY <2>1, <2>2, <2>6 DEF HandleInv, Phased, Looping, NoFalseAlarm, TypeOK
  <2> QED BY <2>3, <2>5, <2>8, <2>9 DEF HandleInv
<1>5. CASE CloseListener(o)
  <2>1. PICK p \in closing[o] : /\ closing' = [closing EXCEPT ![o] = @ \ {p}]
                                /\ owner' = [owner EXCEPT ![p] = None]
    BY <1>5 DEF CloseListener
  <2>2. /\ UNCHANGED <<stage, hostPort, annotation, lacking>>
        /\ UNCHANGED <<opening, mappings, bound, listeners, isClosed, loopVars, connVars>>
    BY <1>5 DEF CloseListener, CreatesAlone
  <2>3. p \in HeldBy(o) /\ isClosed[o] /\ listeners[o] = {} /\ p \in Ports
    BY <2>1 DEF HandleInv, Holding, HeldBy, TypeOK
  <2>4. TypeOK'
    BY <2>1, <2>2 DEF TypeOK, HostPortsTypeOK
  <2>5. /\ HeldBy(o)' = HeldBy(o) \ {p}
        /\ \A y \in (Creates \cup Opens) \ {o} : HeldBy(y)' = HeldBy(y)
    BY <2>1, <2>3, PortsAsked DEF HeldBy, TypeOK, HostPortsTypeOK
  <2>6. PortInv'
    BY <2>2, <2>5, PortsAsked DEF PortInv, Settled, Drawn, RandomPortsDiffer, Unset
  <2>7. Holding'
    BY <2>1, <2>2, <2>3, <2>5 DEF HandleInv, Holding, TypeOK
  <2>8. Phased' /\ Looping' /\ NoFalseAlarm'
    BY <2>1, <2>2 DEF HandleInv, Phased, Looping, NoFalseAlarm, TypeOK
  <2> QED BY <2>4, <2>6, <2>7, <2>8 DEF HandleInv
<1>6. CASE Pass(o)
  <2>1. /\ opening[o] = "binding" /\ bound[o] < Len(mappings[o]) /\ mappings[o][bound[o] + 1] = Zero
        /\ bound' = [bound EXCEPT ![o] = @ + 1]
        /\ UNCHANGED <<portVars, opening, mappings, listeners, isClosed, closing, loopVars, connVars>>
    BY <1>6 DEF Pass, NextPort
  <2>2. bound[o] \in Nat /\ bound[o] + 1 <= Len(mappings[o])
    BY <2>1 DEF TypeOK
  <2>3. TypeOK'
    BY <2>1, <2>2 DEF TypeOK, HostPortsTypeOK
  <2>4. PortInv'
    BY <2>1 DEF PortInv, Settled, Drawn, RandomPortsDiffer, Unset, HeldBy
  <2>5. {mappings[o][i] : i \in 1 .. bound[o] + 1} \ {Zero}
          = {mappings[o][i] : i \in 1 .. bound[o]} \ {Zero}
    BY <2>1, <2>2
  <2>6. Holding'
    BY <2>1, <2>5 DEF HandleInv, Holding, HeldBy, TypeOK
  <2>7. Phased' /\ Looping' /\ NoFalseAlarm'
    BY <2>1 DEF HandleInv, Phased, Looping, NoFalseAlarm, TypeOK
  <2> QED BY <2>3, <2>4, <2>6, <2>7 DEF HandleInv
<1> QED BY <1>1, <1>2, <1>3, <1>4, <1>5, <1>6 DEF OpenStep

-----------------------------------------------------------------------------
(***************************************************************************)
(* The accept loops and the connections.                                   *)
(***************************************************************************)
LEMMA LoopKeeps ==
    ASSUME Inv, NEW o \in Opens, NEW p \in Ports, AcceptClosed(o, p) \/ AcceptBreaks(o, p)
    PROVE  Inv'
<1> USE DEF Inv, portVars, handleVars, connVars
<1>1. UNCHANGED <<portVars, handleVars, connVars>> /\ accepting' \subseteq accepting
  BY DEF AcceptClosed, AcceptBreaks
<1>2. TypeOK'
  <2>1. accepting' \subseteq Opens \X Ports /\ warned' \subseteq Opens \X Ports
    BY <1>1 DEF AcceptClosed, AcceptBreaks, TypeOK
  <2>2. broken' \in 0 .. MaxBroken
    BY OpensOfContainers DEF AcceptClosed, AcceptBreaks, TypeOK
  <2> QED BY <1>1, <2>1, <2>2 DEF TypeOK, HostPortsTypeOK
<1>3. PortInv' /\ Holding' /\ Phased' /\ Looping'
  BY <1>1 DEF PortInv, Settled, Drawn, RandomPortsDiffer, Unset, HeldBy,
              HandleInv, Holding, Phased, Looping
<1>4. AcceptClosed(o, p) => isClosed[o]
  BY DEF AcceptClosed, HandleInv, Holding, Looping, HeldBy
<1>5. NoFalseAlarm'
  BY <1>4 DEF AcceptClosed, AcceptBreaks, HandleInv, NoFalseAlarm
<1> QED BY <1>2, <1>3, <1>5 DEF HandleInv

LEMMA ConnKeeps ==
    ASSUME Inv, NEW k \in Conns,
           \/ Dial(k) \/ ClientEnds(k) \/ PodEnds(k)
           \/ \E o \in Opens, p \in Ports : Accept(o, p, k)
    PROVE  Inv'
<1> USE DEF Inv, portVars, handleVars, loopVars
<1>1. UNCHANGED <<portVars, handleVars, loopVars>>
  BY DEF Dial, ClientEnds, PodEnds, Advance, Accept
<1>2. conn' \in [Conns -> Phases] /\ via' \in [Conns -> Opens \cup {None}]
  BY DEF Dial, ClientEnds, PodEnds, Advance, Accept, TypeOK, Phases
<1>3. TypeOK'
  BY <1>1, <1>2 DEF TypeOK, HostPortsTypeOK
<1>4. PortInv' /\ HandleInv'
  BY <1>1 DEF PortInv, Settled, Drawn, RandomPortsDiffer, Unset, HeldBy,
              HandleInv, Holding, Phased, Looping, NoFalseAlarm
<1> QED BY <1>3, <1>4

LEMMA InvStep == Inv /\ [Next]_tcpVars => Inv'
<1> SUFFICES ASSUME Inv, [Next]_tcpVars PROVE Inv'
  OBVIOUS
<1>1. ASSUME NEW c \in Creates, CreateStep(c), UNCHANGED <<handleVars, loopVars, connVars>>
      PROVE  Inv'
  BY <1>1, CreateTypes, CreatePorts, CreateHandles DEF Inv
<1>2. ASSUME NEW x \in Others, Taken(x) \/ Left(x), UNCHANGED <<handleVars, loopVars, connVars>>
      PROVE  Inv'
  BY <1>2, OthersKeep
<1>3. ASSUME NEW o \in Opens, Open(o) \/ ResolveFails(o) \/ OpenStep(o) \/ Close(o)
      PROVE  Inv'
  BY <1>3, OpenKeeps
<1>4. ASSUME NEW o \in Opens, NEW p \in Ports, AcceptClosed(o, p) \/ AcceptBreaks(o, p)
      PROVE  Inv'
  BY <1>4, LoopKeeps
<1>5. ASSUME NEW k \in Conns,
             \/ Dial(k) \/ ClientEnds(k) \/ PodEnds(k)
             \/ \E o \in Opens, p \in Ports : Accept(o, p, k)
      PROVE  Inv'
  BY <1>5, ConnKeeps
<1>6. CASE UNCHANGED tcpVars
  BY <1>6 DEF tcpVars, portVars, handleVars, loopVars, connVars, Inv, TypeOK, HostPortsTypeOK,
              PortInv, Settled, Drawn, RandomPortsDiffer, Unset, HeldBy,
              HandleInv, Holding, Phased, Looping, NoFalseAlarm
<1> QED BY <1>1, <1>2, <1>3, <1>4, <1>5, <1>6 DEF Next

LEMMA Always == Spec => []Inv
<1> QED BY Initially, InvStep, PTL DEF Spec

-----------------------------------------------------------------------------
\* Every reachable state of host ports and forwarders is well typed: a handle has
\* bound no more ports than it was given (tcp.go:52-143).
THEOREM TCPTypeCorrect == Spec => []TypeOK
<1>1. Inv => TypeOK
  BY DEF Inv
<1> QED BY <1>1, Always, PTL

\* The random ports of one container are all different (containers.go:701-703).
THEOREM DifferentPorts == Spec => []RandomPortsDiffer
<1>1. Inv => RandomPortsDiffer
  BY DEF Inv, PortInv
<1> QED BY <1>1, Always, PTL

\* The pending entry and the pod give a /start the same ports, none of them
\* unset (containers.go:193-206, 262).
THEOREM OnePortList == Spec => []SamePortsFromPod
<1>1. Inv => SamePortsFromPod
  BY DEF Inv, PortInv, Settled, SamePortsFromPod
<1> QED BY <1>1, Always, PTL

\* An open handle holds all its ports, a failed Open none (tcp.go:61-75).
THEOREM AllPortsOrNone == Spec => []AllOrNothing
<1>1. Inv => AllOrNothing
  <2> SUFFICES ASSUME Inv, NEW o \in Opens
               PROVE  /\ opening[o] = "open" /\ ~isClosed[o] =>
                             \A i \in DOMAIN mappings[o] :
                                mappings[o][i] = Zero \/ owner[mappings[o][i]] = o
                      /\ opening[o] = "failed" => HeldBy(o) = {}
    BY DEF AllOrNothing
  <2>1. ASSUME opening[o] = "open", ~isClosed[o], NEW i \in DOMAIN mappings[o],
               mappings[o][i] # Zero
        PROVE  owner[mappings[o][i]] = o
    <3>1. i \in 1 .. bound[o]
      BY <2>1 DEF Inv, TypeOK, HandleInv, Phased
    <3>2. mappings[o][i] \in HeldBy(o)
      BY <2>1, <3>1 DEF Inv, HandleInv, Holding
    <3> QED BY <3>2 DEF HeldBy
  <2>2. opening[o] = "failed" => HeldBy(o) = {}
    BY DEF Inv, HandleInv, Holding, Phased
  <2> QED BY <2>1, <2>2
<1> QED BY <1>1, Always, PTL

\* No accept loop reports its own Close as a failure (tcp.go:80-86, 128-143).
THEOREM OnlyRealAlarms == Spec => []NoFalseAlarm
<1>1. Inv => NoFalseAlarm
  BY DEF Inv, HandleInv
<1> QED BY <1>1, Always, PTL
=============================================================================
