----------------------------- MODULE ExecsProofs -----------------------------
(***************************************************************************)
(* Exec sessions, for any number of them, of starts and of restarts.       *)
(***************************************************************************)
EXTENDS Execs, TLAPS

Ended == {"record", "close", "closed"}

\* A /start that is under way is one of a session that was created, and knows
\* how its command ended once it did.
Begun == \A s \in ExecStarts :
    /\ pc[s] # "idle" => stored[Of(s)] # "new"
    /\ pc[s] \in Ended => ending[s] \in Endings

\* Once recorded, the outcome of a session's only /start stays in place.
Recorded == \A s \in ExecStarts :
    /\ pc[s] \in {"close", "closed"}
    /\ Alone(s)
    /\ stored[Of(s)] = "stored"
    => running[Of(s)] = FALSE /\ exitCode[Of(s)] = ExitCodeFromExecErr(ending[s])

ExecInv == TypeOK /\ Begun /\ Recorded /\ RunningIsRun

LEMMA SessionOf == ASSUME NEW s \in ExecStarts
                   PROVE  Of(s) \in Execs /\ s[2] \in Tries /\ s = <<Of(s), s[2]>>
  BY DEF ExecStarts, Of

LEMMA CodeType == ASSUME NEW how \in Endings
                  PROVE  ExitCodeFromExecErr(how) \in {0, 1, Status}
  BY DEF Endings, ExitCodeFromExecErr

LEMMA ExecInitially == Init => ExecInv
  BY ExecBounds, SessionOf DEF Init, ExecInv, TypeOK, Begun, Recorded, RunningIsRun, Ended

\* What one goroutine's step does to the invariant, whatever it changes of its session.
LEMMA ExecStepKeeps ==
    ASSUME ExecInv, NEW s \in ExecStarts, ExecStart(s) \/ ExecStep(s) \/ ExecEnds(s)
    PROVE  ExecInv'
<1> USE SessionOf DEF ExecInv, Moves, Session
<1>1. TypeOK'
  <2>1. CASE Record(s)
    BY <2>1, CodeType DEF Record, TypeOK, Begun, Ended
  <2>2. CASE ExecEnds(s)
    BY <2>2 DEF ExecEnds, TypeOK
  <2>3. CASE ExecStart(s) \/ Hijack(s) \/ MarkRunning(s) \/ CloseConn(s)
    BY <2>3 DEF ExecStart, Hijack, MarkRunning, CloseConn, TypeOK
  <2> QED BY <2>1, <2>2, <2>3 DEF ExecStep
<1>2. Begun'
  BY DEF Begun, TypeOK, Ended, ExecStart, ExecStep, Hijack, MarkRunning, Record, CloseConn, ExecEnds
<1>3. \A t \in ExecStarts : t # s => pc'[t] = pc[t] /\ ending'[t] = ending[t]
  BY DEF TypeOK, ExecStart, ExecStep, Hijack, MarkRunning, Record, CloseConn, ExecEnds
<1>4. stored' = stored /\ pc[s] \notin {"closed"} /\ pc'[s] # "idle"
  BY DEF TypeOK, ExecStart, ExecStep, Hijack, MarkRunning, Record, CloseConn, ExecEnds
<1>5. Recorded'
  <2> SUFFICES ASSUME NEW t \in ExecStarts,
                      pc'[t] \in {"close", "closed"}, Alone(t)', stored'[Of(t)] = "stored"
               PROVE  running'[Of(t)] = FALSE /\ exitCode'[Of(t)] = ExitCodeFromExecErr(ending'[t])
    BY DEF Recorded
  <2>1. CASE t = s
    <3>1. CASE Record(s)
      BY <2>1, <3>1 DEF Record, TypeOK
    <3>2. CASE CloseConn(s)
      <4>1. pc[s] = "close" /\ Alone(s)
        BY <2>1, <3>2, <1>3 DEF CloseConn, Alone
      <4> QED BY <2>1, <3>2, <4>1, <1>4 DEF CloseConn, Recorded
    <3>3. CASE ~Record(s) /\ ~CloseConn(s)
      BY <2>1, <3>3 DEF TypeOK, ExecStart, ExecStep, Hijack, MarkRunning, ExecEnds
    <3> QED BY <3>1, <3>2, <3>3
  <2>2. CASE t # s /\ Of(t) # Of(s)
    <3>1. running'[Of(t)] = running[Of(t)] /\ exitCode'[Of(t)] = exitCode[Of(t)]
      BY <2>2 DEF TypeOK, ExecStart, ExecStep, Hijack, MarkRunning, Record, CloseConn, ExecEnds
    <3>2. Alone(t)
      BY <2>2, <1>3 DEF Alone
    <3> QED BY <2>2, <3>1, <3>2, <1>3, <1>4 DEF Recorded
  <2>3. CASE t # s /\ Of(t) = Of(s)
    BY <2>3, <1>4 DEF Alone
  <2> QED BY <2>1, <2>2, <2>3
<1>6. RunningIsRun'
  <2> SUFFICES ASSUME NEW e \in Execs, running'[e]
               PROVE  \E t \in Tries : pc'[<<e, t>>] \in {"exec", "record"}
    BY DEF RunningIsRun
  <2>1. CASE MarkRunning(s) /\ e = Of(s)
    BY <2>1 DEF MarkRunning, TypeOK
  <2>2. CASE ~(MarkRunning(s) /\ e = Of(s))
    <3>1. running[e] /\ ~(Record(s) /\ e = Of(s))
      BY <2>2 DEF TypeOK, ExecStart, ExecStep, Hijack, MarkRunning, Record, CloseConn, ExecEnds
    <3>2. PICK t \in Tries : pc[<<e, t>>] \in {"exec", "record"}
      BY <3>1 DEF RunningIsRun
    <3>3. <<e, t>> \in ExecStarts
      BY DEF ExecStarts
    <3>4. CASE <<e, t>> # s
      BY <3>2, <3>3, <3>4, <1>3
    <3>5. CASE <<e, t>> = s
      <4>1. e = Of(s)
        BY <3>5 DEF Of
      <4>2. ExecEnds(s)
        BY <3>1, <3>2, <3>5, <4>1 DEF ExecStart, ExecStep, Hijack, MarkRunning, CloseConn
      <4> QED BY <3>5, <4>2 DEF ExecEnds, TypeOK
    <3> QED BY <3>4, <3>5
  <2> QED BY <2>1, <2>2
<1> QED BY <1>1, <1>2, <1>5, <1>6

LEMMA RestartKeeps == ASSUME ExecInv, Restart PROVE ExecInv'
<1> USE ExecBounds, SessionOf DEF ExecInv, Restart
<1>1. TypeOK'
  BY DEF TypeOK
<1>2. Begun' /\ RunningIsRun'
  BY DEF TypeOK, Begun, Ended, RunningIsRun
<1>3. Recorded'
  BY DEF TypeOK, Begun, Recorded
<1> QED BY <1>1, <1>2, <1>3

LEMMA ExecInvStep == ExecInv /\ [Next]_execVars => ExecInv'
<1> SUFFICES ASSUME ExecInv, [Next]_execVars PROVE ExecInv'
  OBVIOUS
<1>1. ASSUME NEW e \in Execs, ExecCreate(e) PROVE ExecInv'
  BY <1>1, SessionOf
     DEF ExecInv, ExecCreate, TypeOK, Begun, Recorded, RunningIsRun, Alone, Session
<1>2. ASSUME NEW s \in ExecStarts, ExecStart(s) \/ ExecStep(s) \/ ExecEnds(s) PROVE ExecInv'
  BY <1>2, ExecStepKeeps
<1>3. CASE Restart
  BY <1>3, RestartKeeps
<1>4. CASE UNCHANGED execVars
  BY <1>4 DEF execVars, ExecInv, TypeOK, Begun, Recorded, RunningIsRun, Alone
<1> QED BY <1>1, <1>2, <1>3, <1>4 DEF Next

LEMMA ExecAlways == Spec => []ExecInv
<1> QED BY ExecInitially, ExecInvStep, PTL DEF Spec

\* Every reachable state of the sessions is well typed (exec.go:20-150).
THEOREM ExecTypeCorrect == Spec => []TypeOK
<1>1. ExecInv => TypeOK
  BY DEF ExecInv
<1> QED BY <1>1, ExecAlways, PTL

\* A client whose stream closed is told the end and the exit code of its own
\* command (exec.go:114, 137-140).
THEOREM OwnOutcome == Spec => []OwnExitCode
<1>1. ExecInv => OwnExitCode
  BY SessionOf DEF ExecInv, Recorded, OwnExitCode, Inspect
<1> QED BY <1>1, ExecAlways, PTL

\* No session is reported to run for ever (exec.go:131-143).
THEOREM ReportedRunsAreRun == Spec => []RunningIsRun
<1>1. ExecInv => RunningIsRun
  BY DEF ExecInv
<1> QED BY <1>1, ExecAlways, PTL
=============================================================================
