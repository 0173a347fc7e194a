------------------------ MODULE SPDYForwarderProofs ------------------------
(***************************************************************************)
(* The SPDY forwarder, for any Opens, ports and other processes: its types,*)
(* that stopCh is closed once at most, and that an open handle serves.     *)
(***************************************************************************)
EXTENDS SPDYForwarder, TLAPS

\* Only the Open that gives up and the Close of its handle stop a forwarder.
StopInv == \A o \in Opens :
    /\ stops[o] <= 1
    /\ opening[o] \in {"idle", "selecting", "empty"} => stops[o] = 0
    /\ opening[o] = "open" /\ ~isClosed[o] => stops[o] = 0

\* A forwarder that serves holds a port; one that is ready serves until it is
\* stopped or fails; nothing is forwarded before Open.
ServeInv == \A o \in Opens :
    /\ opening[o] \in {"idle", "empty"} => forward[o] = "none" /\ o \notin ready
    /\ opening[o] = "open" => o \in ready
    /\ forward[o] \in {"dialing", "listening"} => o \notin ready
    /\ forward[o] = "serving" => HeldBy(o) # {}
    /\ o \in ready /\ stops[o] = 0 /\ o \notin failing => forward[o] = "serving"

Inv == TypeOK /\ StopInv /\ ServeInv

LEMMA Initially == Init => Inv
  BY PortsOfOpens DEF Init, Inv, TypeOK, StopInv, ServeInv, HeldBy

-----------------------------------------------------------------------------
\* The steps of Open and Close leave the ports and the forwarding alone.
LEMMA OpenSteps ==
    ASSUME Inv, NEW o \in Opens,
           OpenNothing(o) \/ SetUpFails(o) \/ Open(o) \/ Select(o) \/ Cancel(o) \/ Close(o)
    PROVE  Inv'
<1> USE DEF Inv, Become, Proceed, Stop, openVars, forwardVars, TypeOK, StopInv, ServeInv, HeldBy
<1>1. CASE OpenNothing(o)
  BY <1>1 DEF OpenNothing
<1>2. CASE SetUpFails(o)
  BY <1>2 DEF SetUpFails
<1>3. CASE Open(o)
  BY <1>3, PortsOfOpens DEF Open
<1>4. CASE SelectReady(o)
  BY <1>4 DEF SelectReady
<1>5. CASE SelectError(o)
  BY <1>5 DEF SelectError
<1>6. CASE SelectDone(o)
  BY <1>6 DEF SelectDone
<1>7. CASE Cancel(o)
  BY <1>7 DEF Cancel
<1>8. CASE Close(o)
  BY <1>8 DEF Close
<1> QED BY <1>1, <1>2, <1>3, <1>4, <1>5, <1>6, <1>7, <1>8 DEF Select

LEMMA GoroutineSteps ==
    ASSUME Inv, NEW o \in Opens, Goroutine(o) \/ LosesConnection(o)
    PROVE  Inv'
<1> USE DEF Inv, Proceed, Fails, openVars, forwardVars, TypeOK, StopInv, ServeInv, HeldBy
<1>1. CASE Dial(o)
  BY <1>1 DEF Dial
<1>2. CASE Listen(o)
  BY <1>2, PortsOfOpens DEF Listen
<1>3. CASE Listened(o)
  BY <1>3 DEF Listened
<1>4. CASE Stopped(o)
  BY <1>4 DEF Stopped
<1>5. CASE LosesConnection(o)
  BY <1>5 DEF LosesConnection
<1>6. CASE Returned(o)
  BY <1>6 DEF Returned
<1>7. CASE SendError(o)
  BY <1>7 DEF SendError
<1>8. CASE CloseErrCh(o)
  BY <1>8 DEF CloseErrCh
<1>9. CASE Unlisten(o)
  <2>1. PICK p \in Ports : owner[p] = o /\ owner' = [owner EXCEPT ![p] = None]
    BY <1>9 DEF Unlisten
  <2>2. forward[o] = "closing" /\ UNCHANGED <<openVars, forwardVars, errCh>>
    BY <1>9 DEF Unlisten
  <2>3. \A q \in Opens \ {o} : HeldBy(q)' = HeldBy(q)
    BY <2>1, <2>2, PortsOfOpens
  <2> QED BY <2>1, <2>2, <2>3
<1> QED BY <1>1, <1>2, <1>3, <1>4, <1>5, <1>6, <1>7, <1>8, <1>9 DEF Goroutine

LEMMA OtherSteps ==
    ASSUME Inv, NEW x \in Others, Taken(x) \/ Left(x)
    PROVE  Inv'
  BY PortsOfOpens
     DEF Inv, TypeOK, StopInv, ServeInv, HeldBy, Taken, Left, openVars, forwardVars

LEMMA Inductive == Inv /\ [Next]_spdyVars => Inv'
<1> SUFFICES ASSUME Inv, [Next]_spdyVars PROVE Inv'
  OBVIOUS
<1>1. CASE UNCHANGED spdyVars
  BY <1>1 DEF spdyVars, openVars, forwardVars, Inv, TypeOK, StopInv, ServeInv, HeldBy
<1> QED BY <1>1, OpenSteps, GoroutineSteps, OtherSteps DEF Next

LEMMA Always == Spec => []Inv
  BY Initially, Inductive, PTL DEF Spec

-----------------------------------------------------------------------------
\* Every reachable state of the forwarder is well typed (spdy.go:28-111).
THEOREM SPDYTypeCorrect == Spec => []TypeOK
<1>1. Inv => TypeOK BY DEF Inv
<1> QED BY <1>1, Always, PTL

\* No order of readiness, errors, departing clients and closers closes stopCh
\* twice (spdy.go:86-88, 101-111).
THEOREM StopsOnce == Spec => []StoppedOnce
<1>1. Inv => StoppedOnce BY DEF Inv, StopInv, StoppedOnce
<1> QED BY <1>1, Always, PTL

\* A handle that Open returned holds a port until it is closed or its connection
\* is lost, whoever else takes ports (spdy.go:82-91).
THEOREM HandlesServe == Spec => []OpenServes
<1>1. Inv => OpenServes BY DEF Inv, ServeInv, OpenServes
<1> QED BY <1>1, Always, PTL
=============================================================================
