------------------------ MODULE SessionManagerProofs ------------------------
(***************************************************************************)
(* Theorems about SessionManager, for every number of sessions,            *)
(* connections and turns.                                                  *)
(***************************************************************************)
EXTENDS SessionManager, TLAPS

-----------------------------------------------------------------------------
(***************************************************************************)
(* Type correctness                                                        *)
(***************************************************************************)

\* The state of an idle connection is a request state.
LEMMA ReadyCallTyped == ReadyCall \in CallType
  <1>1. (CHOOSE s \in Sessions : TRUE) \in Sessions
    BY SessionAssumption
  <1>2. (CHOOSE p \in Providers : TRUE) \in Providers
    BY SessionAssumption
  <1> QED
    BY <1>1, <1>2 DEF ReadyCall, CallType, CallPcs

\* A new runner is a runner.
LEMMA NewRunnerTyped ==
    ASSUME NEW p \in Providers PROVE NewRunner(p) \in RunnerType
  BY DEF NewRunner, RunnerType

\* Changing one field of one record keeps the records of their types.
LEMMA TurnUpdate ==
    ASSUME NEW f \in [Turns -> TurnType], NEW t
    PROVE  /\ \A pc \in TurnPcs : [f EXCEPT ![t].pc = pc] \in [Turns -> TurnType]
           /\ [f EXCEPT ![t].got = TRUE] \in [Turns -> TurnType]
           /\ \A w \in Turns \cup {None} : [f EXCEPT ![t].waits = w] \in [Turns -> TurnType]
  <1>1. ASSUME NEW pc \in TurnPcs PROVE [f EXCEPT ![t].pc = pc] \in [Turns -> TurnType]
    BY DEF TurnType
  <1>2. [f EXCEPT ![t].got = TRUE] \in [Turns -> TurnType]
    BY DEF TurnType
  <1>3. ASSUME NEW w \in Turns \cup {None} PROVE [f EXCEPT ![t].waits = w] \in [Turns -> TurnType]
    BY DEF TurnType
  <1> QED
    BY <1>1, <1>2, <1>3

\* The same for a runner ...
LEMMA RunnerUpdate ==
    ASSUME NEW f \in [Turns -> RunnerType], NEW r
    PROVE  /\ \A b \in BOOLEAN : /\ [f EXCEPT ![r].cancelled = b] \in [Turns -> RunnerType]
                                 /\ [f EXCEPT ![r].paused = b] \in [Turns -> RunnerType]
           /\ \A t \in Turns \cup {None} : /\ [f EXCEPT ![r].child = t] \in [Turns -> RunnerType]
                                           /\ [f EXCEPT ![r].pid = t] \in [Turns -> RunnerType]
  <1>1. ASSUME NEW b \in BOOLEAN PROVE [f EXCEPT ![r].cancelled = b] \in [Turns -> RunnerType]
    BY DEF RunnerType
  <1>2. ASSUME NEW b \in BOOLEAN PROVE [f EXCEPT ![r].paused = b] \in [Turns -> RunnerType]
    BY DEF RunnerType
  <1>3. ASSUME NEW t \in Turns \cup {None} PROVE [f EXCEPT ![r].child = t] \in [Turns -> RunnerType]
    BY DEF RunnerType
  <1>4. ASSUME NEW t \in Turns \cup {None} PROVE [f EXCEPT ![r].pid = t] \in [Turns -> RunnerType]
    BY DEF RunnerType
  <1> QED
    BY <1>1, <1>2, <1>3, <1>4

\* ... and stop() changes nothing of a runner but its flags ...
LEMMA ToldEffect ==
    ASSUME runner \in [Turns -> RunnerType], NEW r
    PROVE  /\ Told(r) \in [Turns -> RunnerType]
           /\ \A q \in Turns : /\ Told(r)[q].child = runner[q].child
                               /\ Told(r)[q].pid = runner[q].pid
                               /\ q = r => Told(r)[q].cancelled /\ Told(r)[q].stopped
                               /\ q # r => Told(r)[q] = runner[q]
  <1>1. Told(r) \in [Turns -> RunnerType]
    BY DEF Told, RunnerType
  <1>2. ASSUME NEW q \in Turns
        PROVE  /\ Told(r)[q].child = runner[q].child
               /\ Told(r)[q].pid = runner[q].pid
               /\ q = r => Told(r)[q].cancelled /\ Told(r)[q].stopped
               /\ q # r => Told(r)[q] = runner[q]
    BY DEF Told, RunnerType
  <1> QED
    BY <1>1, <1>2

\* ... and for a request.
LEMMA CallUpdate ==
    ASSUME NEW f \in [Calls -> CallType], NEW c
    PROVE  /\ \A pc \in CallPcs : [f EXCEPT ![c].pc = pc] \in [Calls -> CallType]
           /\ \A v \in {"idle", "running", "paused", "error"} :
                 [f EXCEPT ![c].next = v] \in [Calls -> CallType]
           /\ \A r \in Turns \cup {None} : [f EXCEPT ![c].r = r] \in [Calls -> CallType]
  <1>1. ASSUME NEW pc \in CallPcs PROVE [f EXCEPT ![c].pc = pc] \in [Calls -> CallType]
    BY DEF CallType
  <1>2. ASSUME NEW v \in {"idle", "running", "paused", "error"}
        PROVE  [f EXCEPT ![c].next = v] \in [Calls -> CallType]
    BY DEF CallType
  <1>3. ASSUME NEW r \in Turns \cup {None} PROVE [f EXCEPT ![c].r = r] \in [Calls -> CallType]
    BY DEF CallType
  <1> QED
    BY <1>1, <1>2, <1>3

\* The initial state is well typed.
LEMMA InitTyped == Init => TypeOK
  <1> SUFFICES ASSUME Init PROVE TypeOK
    OBVIOUS
  <1>1. (CHOOSE s \in Sessions : TRUE) \in Sessions
    BY SessionAssumption
  <1>2. (CHOOSE p \in Providers : TRUE) \in Providers
    BY SessionAssumption
  <1>3. runner \in [Turns -> RunnerType]
    BY <1>2, NewRunnerTyped DEF Init
  <1>4. turn \in [Turns -> TurnType]
    BY <1>1 DEF Init, TurnType, TurnPcs
  <1>5. call \in [Calls -> CallType]
    BY ReadyCallTyped DEF Init
  <1> QED
    BY <1>2, <1>3, <1>4, <1>5 DEF Init, TypeOK, Statuses, NotDraining

\* A request begins with well typed locals.
LEMMA RequestTyped ==
    ASSUME TypeOK, NEW c \in Calls, NEW op, NEW s \in Sessions, NEW locals \in CallType,
           Request(c, op, s, locals)
    PROVE  TypeOK'
  BY DEF Request, TypeOK

\* The locals of a request are typed, and name its step and session.
LEMMA AtTyped ==
    ASSUME NEW s \in Sessions, NEW pc \in CallPcs
    PROVE  /\ At(pc, s) \in CallType
           /\ At(pc, s).pc = pc /\ At(pc, s).s = s
  BY ReadyCallTyped DEF At, CallType

\* A request step preserves the types.
LEMMA NewRequestTyped ==
    ASSUME TypeOK, NEW c \in Calls, NewRequest(c) PROVE TypeOK'
  <1>1. CASE CreateCheck(c)
    <2>1. PICK p \in Providers :
              call' = [call EXCEPT ![c] = [ReadyCall EXCEPT !.pc = "insert", !.prov = p]]
      BY <1>1 DEF CreateCheck
    <2>2. [ReadyCall EXCEPT !.pc = "insert", !.prov = p] \in CallType
      BY ReadyCallTyped DEF CallType, CallPcs
    <2> QED
      BY <1>1, <2>1, <2>2 DEF CreateCheck, TypeOK
  <1>2. ASSUME NEW s \in Sessions, SendRead(c, s) PROVE TypeOK'
    <2>0. At("claim", s) \in CallType
      BY AtTyped DEF CallPcs
    <2>1. [At("claim", s) EXCEPT !.prov = routed[s]] \in CallType
      BY <2>0 DEF TypeOK, CallType
    <2> QED
      BY <1>2, <2>1, RequestTyped DEF SendRead
  <1>3. ASSUME NEW s \in Sessions, ResumeRead(c, s) PROVE TypeOK'
    <2>0. At("resumeCheck", s) \in CallType
      BY AtTyped DEF CallPcs
    <2>1. [At("resumeCheck", s) EXCEPT !.next = status[s]] \in CallType
      BY <1>3, <2>0 DEF TypeOK, CallType, ResumeRead, Request, Exists, Statuses
    <2> QED
      BY <1>3, <2>1, RequestTyped DEF ResumeRead
  <1>4. ASSUME NEW s \in Sessions,
               PauseRead(c, s) \/ CancelRead(c, s) \/ DeleteRead(c, s) \/ SetRead(c, s)
        PROVE  TypeOK'
    BY <1>4, AtTyped, RequestTyped DEF PauseRead, CancelRead, DeleteRead, SetRead, CallPcs
  <1> QED
    BY <1>1, <1>2, <1>3, <1>4 DEF NewRequest

\* What the statements, signals and jumps of the actions leave typed.
LEMMA UpdateStatusTyped ==
    ASSUME TypeOK, NEW s \in Sessions, NEW v \in Statuses, UpdateStatus(s, v)
    PROVE  status' \in [Sessions -> Statuses]
  BY DEF TypeOK, UpdateStatus

\* SIGSTOP and SIGCONT.
LEMMA SignalTyped ==
    ASSUME TypeOK, NEW r, NEW from, NEW to \in {"running", "stopped"}, Signal(r, from, to)
    PROVE  proc' \in [Turns -> {"none", "running", "stopped", "dead"}]
  BY DEF TypeOK, Signal

\* SIGKILL.
LEMMA KillTyped ==
    ASSUME TypeOK, NEW r, Kill(r)
    PROVE  proc' \in [Turns -> {"none", "running", "stopped", "dead"}]
  BY DEF TypeOK, Kill

\* A request goes on.
LEMMA GotoTyped ==
    ASSUME TypeOK, NEW c \in Calls, NEW pc \in CallPcs, Goto(c, pc)
    PROVE  call' \in [Calls -> CallType]
  BY CallUpdate DEF TypeOK, Goto

\* A request returns.
LEMMA ReturnTyped ==
    ASSUME TypeOK, NEW c \in Calls, Return(c)
    PROVE  call' \in [Calls -> CallType]
  BY ReadyCallTyped DEF TypeOK, Return

\* A turn goes on.
LEMMA StepTyped ==
    ASSUME TypeOK, NEW t \in Turns, NEW pc \in TurnPcs, Step(t, pc)
    PROVE  turn' \in [Turns -> TurnType]
  BY TurnUpdate DEF TypeOK, Step

\* stop() preserves the types, whoever calls it.
LEMMA StopTyped ==
    ASSUME TypeOK, NEW c \in Calls, NEW pc, NEW killPc \in CallPcs, NEW donePc \in CallPcs,
           StopFlag(c, pc, killPc, donePc) \/ StopKill(c, pc, donePc)
    PROVE  TypeOK'
  <1> DEFINE s == call[c].s
             r == handles[s]
  <1>1. CASE StopFlag(c, pc, killPc, donePc)
    <2>1. CASE r = None
      BY <1>1, <2>1, GotoTyped DEF StopFlag, TypeOK, CallType
    <2>2. CASE r # None
      <3>1. s \in Sessions /\ r \in Turns
        BY <2>2 DEF TypeOK, CallType
      <3>2. runner' \in [Turns -> RunnerType]
        <4>1. runner' = Told(r)
          BY <1>1, <2>2 DEF StopFlag
        <4> QED
          BY <4>1, ToldEffect DEF TypeOK
      <3>3. call' \in [Calls -> CallType]
        <4>1. call' = [call EXCEPT ![c].pc = killPc, ![c].r = r]
          BY <1>1, <2>2 DEF StopFlag
        <4> QED
          BY <3>1, <4>1, CallUpdate DEF TypeOK
      <3>4. proc' \in [Turns -> {"none", "running", "stopped", "dead"}]
        BY <1>1, <2>2, SignalTyped DEF StopFlag, TypeOK
      <3> QED
        BY <1>1, <2>2, <3>1, <3>2, <3>3, <3>4, SessionAssumption DEF StopFlag, TypeOK
    <2> QED
      BY <2>1, <2>2
  <1>2. CASE StopKill(c, pc, donePc)
    <2>1. runner' \in [Turns -> RunnerType]
      BY <1>2, RunnerUpdate DEF StopKill, TypeOK
    <2>2. call' \in [Calls -> CallType]
      BY <1>2, CallUpdate DEF StopKill, TypeOK
    <2> QED
      BY <1>2, <2>1, <2>2, KillTyped DEF StopKill, TypeOK
  <1> QED
    BY <1>1, <1>2

\* A later step of a request preserves the types.
LEMMA CallStepTyped ==
    ASSUME TypeOK, NEW c \in Calls, CallStep(c) PROVE TypeOK'
  <1>0. call[c].s \in Sessions /\ call[c].prov \in Providers /\ call[c].next \in Statuses
    BY DEF TypeOK, CallType, Statuses
  <1>1. CASE CreateInsert(c)
    BY <1>0, <1>1, ReturnTyped DEF CreateInsert, TypeOK, Statuses
  <1>2. CASE SendClaim(c)
    BY <1>0, <1>2, ReturnTyped, GotoTyped DEF SendClaim, TypeOK, Statuses, CallPcs
  <1>3. CASE SendRecord(c)
    BY <1>0, <1>3, ReturnTyped, GotoTyped DEF SendRecord, TypeOK, CallPcs
  <1>4. CASE SendSpawn(c)
    <2> DEFINE s == call[c].s
               fresh == handles[s] = None
    <2>1. PICK t \in Turns :
            LET r == IF fresh THEN t ELSE handles[s] IN
            /\ handles' = [handles EXCEPT ![s] = r]
            /\ runner' = [runner EXCEPT ![t] = IF fresh THEN NewRunner(call[c].prov) ELSE @]
            /\ turn' = [turn EXCEPT ![t] = [pc |-> "start", s |-> s, r |-> r,
                                             got |-> FALSE, waits |-> None]]
      BY <1>4 DEF SendSpawn
    <2>2. (IF fresh THEN t ELSE handles[s]) \in Turns
      BY <1>0 DEF TypeOK
    <2>3. handles' \in [Sessions -> Turns \cup {None}]
      BY <1>0, <2>1, <2>2 DEF TypeOK
    <2>4. runner' \in [Turns -> RunnerType]
      BY <1>0, <2>1, NewRunnerTyped DEF TypeOK
    <2>5. turn' \in [Turns -> TurnType]
      BY <1>0, <2>1, <2>2 DEF TypeOK, TurnType, TurnPcs
    <2> QED
      BY <1>4, <2>3, <2>4, <2>5, ReturnTyped DEF SendSpawn, TypeOK
  <1>5. CASE PauseWrite(c)
    BY <1>0, <1>5, UpdateStatusTyped, GotoTyped DEF PauseWrite, TypeOK, CallPcs, Statuses
  <1>6. CASE PauseSignal(c)
    <2>1. runner' \in [Turns -> RunnerType]
      <3>1. runner' = runner \/ runner' = [runner EXCEPT ![handles[call[c].s]].paused = TRUE]
        BY <1>6 DEF PauseSignal
      <3>2. [runner EXCEPT ![handles[call[c].s]].paused = TRUE] \in [Turns -> RunnerType]
        BY RunnerUpdate DEF TypeOK
      <3> QED
        BY <3>1, <3>2 DEF TypeOK
    <2>2. proc' \in [Turns -> {"none", "running", "stopped", "dead"}]
      BY <1>6, SignalTyped DEF PauseSignal, TypeOK
    <2> QED
      BY <1>6, <2>1, <2>2, ReturnTyped DEF PauseSignal, TypeOK
  <1>7. CASE ResumeCheck(c)
    BY <1>7, CallUpdate DEF ResumeCheck, TypeOK, CallPcs
  <1>8. CASE ResumeWrite(c)
    BY <1>0, <1>8, UpdateStatusTyped, GotoTyped DEF ResumeWrite, TypeOK, CallPcs
  <1>9. CASE ResumeSignal(c)
    <2>1. runner' \in [Turns -> RunnerType]
      <3>1. runner' = runner \/ runner' = [runner EXCEPT ![handles[call[c].s]].paused = FALSE]
        BY <1>9 DEF ResumeSignal
      <3>2. [runner EXCEPT ![handles[call[c].s]].paused = FALSE] \in [Turns -> RunnerType]
        BY RunnerUpdate DEF TypeOK
      <3> QED
        BY <3>1, <3>2 DEF TypeOK
    <2>2. proc' \in [Turns -> {"none", "running", "stopped", "dead"}]
      BY <1>9, SignalTyped DEF ResumeSignal, TypeOK
    <2> QED
      BY <1>9, <2>1, <2>2, ReturnTyped DEF ResumeSignal, TypeOK
  <1>10. CASE CancelStop(c) \/ CancelKill(c) \/ DeleteStop(c) \/ DeleteKill(c)
    BY <1>10, StopTyped DEF CancelStop, CancelKill, DeleteStop, DeleteKill, CallPcs
  <1>11. CASE CancelWrite(c)
    BY <1>0, <1>11, UpdateStatusTyped, ReturnTyped DEF CancelWrite, TypeOK, Statuses
  <1>12. CASE DeleteRow(c)
    BY <1>0, <1>12, UpdateStatusTyped, ReturnTyped DEF DeleteRow, TypeOK, Statuses
  <1>13. CASE SetDrop(c)
    BY <1>0, <1>13, GotoTyped DEF SetDrop, TypeOK, CallPcs
  <1>14. CASE SetWrite(c)
    BY <1>0, <1>14, ReturnTyped DEF SetWrite, TypeOK
  <1> QED
    BY <1>1, <1>2, <1>3, <1>4, <1>5, <1>6, <1>7, <1>8, <1>9, <1>10, <1>11, <1>12, <1>13,
       <1>14 DEF CallStep

\* A step of a turn preserves the types.
LEMMA TurnStepTyped ==
    ASSUME TypeOK, NEW t \in Turns, TurnStep(t) PROVE TypeOK'
  <1>0. turn[t].s \in Sessions /\ turn[t].r \in Turns
    BY DEF TypeOK, TurnType
  <1>1. CASE TurnStart(t)
    <2>1. runner' \in [Turns -> RunnerType]
      BY <1>1, RunnerUpdate DEF TurnStart, TypeOK
    <2>2. turn' \in [Turns -> TurnType]
      BY <1>1, StepTyped DEF TurnStart, TurnPcs
    <2> QED
      BY <1>1, <2>1, <2>2 DEF TurnStart, TypeOK
  <1>2. CASE TurnSpawn(t)
    <2>1. runner' \in [Turns -> RunnerType]
      <3>1. \/ runner' = runner
            \/ runner' = [runner EXCEPT ![turn[t].r].pid = t]
        BY <1>2 DEF TurnSpawn
      <3>2. runner \in [Turns -> RunnerType]
        BY DEF TypeOK
      <3>3. [runner EXCEPT ![turn[t].r].pid = t] \in [Turns -> RunnerType]
        BY <3>2, RunnerUpdate
      <3> QED
        BY <3>1, <3>2, <3>3
    <2>2. turn' \in [Turns -> TurnType]
      BY <1>2, StepTyped DEF TurnSpawn, TurnPcs
    <2> QED
      BY <1>2, <2>1, <2>2 DEF TurnSpawn, TypeOK
  <1>3. CASE TurnStore(t)
    <2>1. runner' \in [Turns -> RunnerType]
      BY <1>3, RunnerUpdate DEF TurnStore, TypeOK
    <2>2. turn' \in [Turns -> TurnType]
      BY <1>3, StepTyped DEF TurnStore, TurnPcs
    <2> QED
      BY <1>3, <2>1, <2>2 DEF TurnStore, TypeOK
  <1>4. CASE TurnBegin(t)
    BY <1>0, <1>4, StepTyped, UpdateStatusTyped DEF TurnBegin, TypeOK, TurnPcs, Statuses
  <1>5. CASE TurnBreak(t) \/ TurnLineError(t) \/ TurnResult(t) \/ TurnEof(t) \/ TurnFinal(t)
    BY <1>5, StepTyped
    DEF TurnBreak, TurnLineError, TurnResult, TurnEof, TurnFinal, TypeOK, TurnPcs
  <1>6. CASE TurnResultWrite(t)
    <2>1. turn' \in [Turns -> TurnType]
      BY <1>6, TurnUpdate DEF TurnResultWrite, TypeOK, TurnPcs
    <2> QED
      BY <1>0, <1>6, <2>1, UpdateStatusTyped DEF TurnResultWrite, TypeOK, Statuses
  <1>7. CASE TurnReap(t)
    <2>0. runner[turn[t].r].child \in Turns \cup {None}
      BY <1>0 DEF TypeOK, RunnerType
    <2>1. turn' \in [Turns -> TurnType]
      BY <1>0, <1>7, <2>0, TurnUpdate DEF TurnReap, TypeOK, TurnPcs
    <2>2. runner' \in [Turns -> RunnerType]
      BY <1>7, RunnerUpdate DEF TurnReap, TypeOK
    <2> QED
      BY <1>7, <2>1, <2>2 DEF TurnReap, TypeOK
  <1>8. CASE TurnReaped(t)
    <2>1. turn' \in [Turns -> TurnType]
      BY <1>8, TurnUpdate DEF TurnReaped, TypeOK, TurnPcs
    <2>2. runner' \in [Turns -> RunnerType]
      BY <1>8, RunnerUpdate DEF TurnReaped, TypeOK
    <2> QED
      BY <1>8, <2>1, <2>2 DEF TurnReaped, TypeOK
  <1>9. CASE TurnWrite(t)
    BY <1>0, <1>9, StepTyped, UpdateStatusTyped DEF TurnWrite, TypeOK, TurnPcs, Statuses
  <1>10. CASE TurnTimeout(t)
    BY <1>10, TurnUpdate DEF TurnTimeout, TypeOK, TurnPcs
  <1>11. CASE TurnTimeoutKill(t)
    <2>1. runner' \in [Turns -> RunnerType]
      BY <1>11, RunnerUpdate DEF TurnTimeoutKill, TypeOK
    <2>2. turn' \in [Turns -> TurnType]
      BY <1>11, StepTyped DEF TurnTimeoutKill, TurnPcs
    <2> QED
      BY <1>11, <2>1, <2>2, KillTyped DEF TurnTimeoutKill, TypeOK
  <1>12. CASE TurnFail(t)
    BY <1>0, <1>12, StepTyped, UpdateStatusTyped DEF TurnFail, TypeOK, TurnPcs, Statuses
  <1> QED
    BY <1>1, <1>2, <1>3, <1>4, <1>5, <1>6, <1>7, <1>8, <1>9, <1>10, <1>11, <1>12 DEF TurnStep

\* The process ends with empty memory.
LEMMA HaltTyped == ASSUME TypeOK, Halt PROVE TypeOK'
  <1>1. (CHOOSE p \in Providers : TRUE) \in Providers
    BY SessionAssumption
  <1>2. runner' \in [Turns -> RunnerType]
    BY <1>1, NewRunnerTyped DEF Halt
  <1>3. turn' \in [Turns -> TurnType]
    <2> SUFFICES ASSUME NEW t \in Turns
                 PROVE  [turn[t] EXCEPT !.pc = IF @ = "unused" THEN "unused" ELSE "done",
                                        !.waits = None] \in TurnType
      BY DEF Halt
    <2>1. [turn[t] EXCEPT !.pc = IF @ = "unused" THEN "unused" ELSE "done"] \in TurnType
      <3>1. ASSUME NEW u \in TurnType, NEW pc \in TurnPcs PROVE [u EXCEPT !.pc = pc] \in TurnType
        BY <3>1 DEF TurnType
      <3>2. (IF turn[t].pc = "unused" THEN "unused" ELSE "done") \in TurnPcs
        BY DEF TurnPcs
      <3> QED
        BY <3>1, <3>2 DEF TypeOK
    <2>2. ASSUME NEW u \in TurnType PROVE [u EXCEPT !.waits = None] \in TurnType
      BY <2>2 DEF TurnType
    <2> QED
      BY <2>1, <2>2
  <1> QED
    BY <1>2, <1>3, ReadyCallTyped DEF Halt, TypeOK, NotDraining

\* A step of drain preserves the types.
LEMMA DrainTyped == ASSUME TypeOK, DrainStart \/ DrainStep PROVE TypeOK'
  <1>1. CASE DrainStart
    BY <1>1 DEF DrainStart, TypeOK
  <1>2. CASE DrainEnd
    BY <1>2, HaltTyped DEF DrainEnd
  <1>3. ASSUME NEW s \in Sessions, DrainFlag(s) PROVE TypeOK'
    <2>1. runner' \in [Turns -> RunnerType]
      BY <1>3, ToldEffect DEF DrainFlag, TypeOK
    <2>2. proc' \in [Turns -> {"none", "running", "stopped", "dead"}]
      BY <1>3, SignalTyped DEF DrainFlag, TypeOK
    <2> QED
      BY <1>3, <2>1, <2>2 DEF DrainFlag, TypeOK
  <1>4. ASSUME NEW s \in Sessions, DrainKill(s) PROVE TypeOK'
    <2>1. runner' \in [Turns -> RunnerType]
      <3>1. \/ runner' = runner
            \/ runner' = [runner EXCEPT ![drain[s].r].child = None, ![drain[s].r].pid = None]
        BY <1>4 DEF DrainKill
      <3>2. runner \in [Turns -> RunnerType]
        BY DEF TypeOK
      <3>3. [runner EXCEPT ![drain[s].r].child = None, ![drain[s].r].pid = None]
               \in [Turns -> RunnerType]
        BY <3>2, RunnerUpdate
      <3> QED
        BY <3>1, <3>2, <3>3
    <2>2. proc' \in [Turns -> {"none", "running", "stopped", "dead"}]
      BY <1>4, KillTyped DEF DrainKill, TypeOK
    <2> QED
      BY <1>4, <2>1, <2>2 DEF DrainKill, TypeOK
  <1>5. ASSUME NEW s \in Sessions, DrainWrite(s) PROVE TypeOK'
    BY <1>5, UpdateStatusTyped DEF DrainWrite, TypeOK, Statuses, NotDraining
  <1> QED
    BY <1>1, <1>2, <1>3, <1>4, <1>5 DEF DrainStep

\* Every step preserves the types.
LEMMA NextTyped == TypeOK /\ [Next]_vars => TypeOK'
  <1> SUFFICES ASSUME TypeOK, [Next]_vars PROVE TypeOK'
    OBVIOUS
  <1>1. ASSUME NEW t \in Turns, ProcExit(t) PROVE TypeOK'
    BY <1>1 DEF ProcExit, TypeOK
  <1>2. ASSUME NEW s \in Sessions, Prune(s) PROVE TypeOK'
    BY <1>2 DEF Prune, TypeOK, Statuses
  <1>3. CASE Crash
    BY <1>3, HaltTyped DEF Crash
  <1>4. CASE Restart
    BY <1>4 DEF Restart, TypeOK, Statuses
  <1>5. CASE UNCHANGED vars
    BY <1>5 DEF vars, TypeOK
  <1> QED
    BY <1>1, <1>2, <1>3, <1>4, <1>5, NewRequestTyped, CallStepTyped, TurnStepTyped, DrainTyped
    DEF Next

(***************************************************************************)
(* Every reachable state is well typed: a status is one the clients know,  *)
(* and the handles map, the runners and the turns only name runners and    *)
(* children that exist.                                                    *)
(***************************************************************************)
THEOREM TypeCorrect == Spec => []TypeOK
  BY InitTyped, NextTyped, PTL DEF Spec

-----------------------------------------------------------------------------
(***************************************************************************)
(* One turn at a time                                                      *)
(*                                                                         *)
(* The claim excludes a second turn as long as every write of "idle" or    *)
(* "error" is made by the turn that holds the session.  resume, cancel and *)
(* drain write "idle" in the middle of a turn, and a claude turn lives on  *)
(* after it has written its own last status; the run session_late_turn     *)
(* shows what comes of that.  Without them the claim excludes, however the *)
(* requests, turns, crashes and restarts interleave.                       *)
(***************************************************************************)
ClaimDiscipline ==
    /\ Ops \cap {"resume", "cancel", "drain"} = {}
    /\ "claude" \notin Providers

Active(t) == turn[t].pc \notin {"unused", "done"}

\* The statuses from which a session may be claimed, now or once it exists.
Free == {"absent", "idle", "error"}

\* A session is held by one turn or one request at most ...
OneHolder ==
    /\ \A t, u \in Turns : Active(t) /\ Active(u) /\ turn[t].s = turn[u].s => t = u
    /\ \A c, d \in Calls : Claimed(c) /\ Claimed(d) /\ call[c].s = call[d].s => c = d
    /\ \A t \in Turns, c \in Calls : Active(t) /\ Claimed(c) => turn[t].s # call[c].s

\* ... and a free one by none.
FreeUnheld ==
    /\ \A t \in Turns : Active(t) => status[turn[t].s] \notin Free
    /\ \A c \in Calls : Claimed(c) => status[call[c].s] \notin Free

\* What ClaimDiscipline rules out never begins, and a daemon that is down has
\* neither turns nor requests.
Disciplined ==
    /\ daemon # "draining" /\ \A s \in Sessions : drain[s].pc = "none"
    /\ \A t \in Turns : turn[t].pc # "result" /\ ~turn[t].got
    /\ \A c \in Calls : call[c].pc \notin {"resumeCheck", "resumeWrite", "resumeSignal",
                                          "cancelStop", "cancelKill", "cancelWrite"}
    /\ daemon = "down" => /\ \A t \in Turns : ~Active(t)
                          /\ \A c \in Calls : call[c].pc = "ready"

ClaimInv == TypeOK /\ Disciplined /\ OneHolder /\ FreeUnheld

\* A step that gives no session a new holder, and frees a session only when it
\* leaves it without one, preserves the exclusion.
LEMMA NoNewHolder ==
    ASSUME TypeOK', OneHolder, FreeUnheld,
           \A t \in Turns : Active(t)' => Active(t) /\ turn'[t].s = turn[t].s,
           \A c \in Calls : Claimed(c)' => Claimed(c) /\ call'[c].s = call[c].s,
           \A s \in Sessions : status'[s] \in Free =>
               \/ status[s] \in Free
               \/ /\ \A t \in Turns : Active(t)' => turn'[t].s # s
                  /\ \A c \in Calls : Claimed(c)' => call'[c].s # s
    PROVE  OneHolder' /\ FreeUnheld'
  <1>1. OneHolder'
    BY DEF OneHolder
  <1>2. (\A t \in Turns : turn'[t].s \in Sessions) /\ (\A c \in Calls : call'[c].s \in Sessions)
    BY DEF TypeOK, TurnType, CallType
  <1>3. ASSUME NEW t \in Turns, Active(t)' PROVE status'[turn'[t].s] \notin Free
    <2>1. turn'[t].s = turn[t].s /\ status[turn[t].s] \notin Free /\ turn'[t].s \in Sessions
      BY <1>2, <1>3 DEF FreeUnheld
    <2> QED
      BY <1>3, <2>1
  <1>4. ASSUME NEW c \in Calls, Claimed(c)' PROVE status'[call'[c].s] \notin Free
    <2>1. call'[c].s = call[c].s /\ status[call[c].s] \notin Free /\ call'[c].s \in Sessions
      BY <1>2, <1>4 DEF FreeUnheld
    <2> QED
      BY <1>4, <2>1
  <1> QED
    BY <1>1, <1>3, <1>4 DEF FreeUnheld

\* What a request does when it begins: an operation in use goes to its first
\* step, and one that needs the session has seen it exist.
LEMMA NewRequestEffect ==
    ASSUME TypeOK, NEW c \in Calls, NewRequest(c)
    PROVE  /\ UNCHANGED <<daemon, status, handles, runner, turn, drain>>
           /\ daemon # "down"
           /\ \A d \in Calls : d # c => call'[d] = call[d]
           /\ \/ call'[c].pc \in {"insert", "claim", "pauseWrite"}
              \/ "resume" \in Ops /\ call'[c].pc = "resumeCheck"
              \/ "cancel" \in Ops /\ call'[c].pc = "cancelStop"
              \/ "delete" \in Ops /\ call'[c].pc = "deleteStop" /\ Exists(call'[c].s)
              \/ "setProvider" \in Ops /\ call'[c].pc = "setDrop"
           /\ call[c].pc = "ready"
  <1>1. ASSUME NEW op, NEW s, NEW locals, Request(c, op, s, locals)
        PROVE  /\ UNCHANGED <<daemon, status, handles, runner, turn, drain>>
               /\ daemon # "down" /\ op \in Ops /\ Exists(s) /\ call[c].pc = "ready"
               /\ \A d \in Calls : d # c => call'[d] = call[d]
               /\ call'[c] = locals
    BY <1>1 DEF Request, TypeOK, Alive
  <1>2. CASE CreateCheck(c)
    <2>1. PICK p \in Providers :
              call' = [call EXCEPT ![c] = [ReadyCall EXCEPT !.pc = "insert", !.prov = p]]
      BY <1>2 DEF CreateCheck
    <2>2. [ReadyCall EXCEPT !.pc = "insert", !.prov = p].pc = "insert"
      BY DEF ReadyCall
    <2> QED
      BY <1>2, <2>1, <2>2 DEF CreateCheck, TypeOK, Alive
  <1>3. CASE \E s \in Sessions : SendRead(c, s)
    <2>0. PICK s \in Sessions : SendRead(c, s)
      BY <1>3
    <2> DEFINE locals == [At("claim", s) EXCEPT !.prov = routed[s]]
    <2>1. locals.pc = "claim"
      <3>1. At("claim", s) \in CallType /\ At("claim", s).pc = "claim"
        BY AtTyped DEF CallPcs
      <3> QED
        BY <3>1 DEF CallType
    <2>2. Request(c, "send", s, locals)
      BY <2>0 DEF SendRead
    <2> HIDE DEF locals
    <2> QED
      BY <1>1, <2>1, <2>2
  <1>4. CASE \E s \in Sessions : ResumeRead(c, s)
    <2>0. PICK s \in Sessions : ResumeRead(c, s)
      BY <1>4
    <2> DEFINE locals == [At("resumeCheck", s) EXCEPT !.next = status[s]]
    <2>1. locals.pc = "resumeCheck"
      <3>1. At("resumeCheck", s) \in CallType /\ At("resumeCheck", s).pc = "resumeCheck"
        BY AtTyped DEF CallPcs
      <3> QED
        BY <3>1 DEF CallType
    <2>2. Request(c, "resume", s, locals)
      BY <2>0 DEF ResumeRead
    <2> HIDE DEF locals
    <2> QED
      BY <1>1, <2>1, <2>2
  <1>5. CASE \E s \in Sessions : PauseRead(c, s)
    BY <1>1, <1>5, AtTyped DEF PauseRead, CallPcs
  <1>6. CASE \E s \in Sessions : CancelRead(c, s)
    BY <1>1, <1>6, AtTyped DEF CancelRead, CallPcs
  <1>7. CASE \E s \in Sessions : DeleteRead(c, s)
    BY <1>1, <1>7, AtTyped DEF DeleteRead, CallPcs
  <1>8. CASE \E s \in Sessions : SetRead(c, s)
    BY <1>1, <1>8, AtTyped DEF SetRead, CallPcs
  <1> QED
    BY <1>2, <1>3, <1>4, <1>5, <1>6, <1>7, <1>8 DEF NewRequest

\* A new request preserves the invariant.
LEMMA NewRequestClaimInv ==
    ASSUME ClaimDiscipline, ClaimInv, NEW c \in Calls, NewRequest(c) PROVE ClaimInv'
  <1>0. TypeOK /\ TypeOK'
    BY NewRequestTyped DEF ClaimInv
  <1>1. Disciplined'
    BY <1>0, NewRequestEffect DEF ClaimInv, Disciplined, Active, ClaimDiscipline
  <1>2. OneHolder' /\ FreeUnheld'
    BY <1>0, NewRequestEffect, NoNewHolder DEF ClaimInv, Active, Claimed
  <1> QED
    BY <1>0, <1>1, <1>2 DEF ClaimInv

\* A later step of a request that takes no session and frees none.
LEMMA QuietCall ==
    ASSUME ClaimInv, TypeOK', NEW c \in Calls, call[c].pc # "ready",
           UNCHANGED <<daemon, turn, drain>>,
           \A d \in Calls : d # c => call'[d] = call[d],
           \/ call'[c].pc \in {"ready", "pauseSignal", "deleteKill", "deleteRow", "setWrite"}
           \/ Claimed(c) /\ Claimed(c)' /\ call'[c].s = call[c].s,
           \A s \in Sessions : status'[s] \in Free => status[s] \in Free
    PROVE  ClaimInv'
  <1>1. Disciplined'
    BY DEF ClaimInv, Disciplined, Active, Claimed
  <1>2. /\ \A t \in Turns : Active(t)' => Active(t) /\ turn'[t].s = turn[t].s
        /\ \A d \in Calls : Claimed(d)' => Claimed(d) /\ call'[d].s = call[d].s
    BY DEF Active, Claimed
  <1>3. OneHolder' /\ FreeUnheld'
    BY <1>2, NoNewHolder DEF ClaimInv
  <1> QED
    BY <1>1, <1>3 DEF ClaimInv

\* A request that goes on keeps its session ...
LEMMA GotoEffect ==
    ASSUME TypeOK, NEW c \in Calls, NEW pc, Goto(c, pc)
    PROVE  /\ \A d \in Calls : d # c => call'[d] = call[d]
           /\ call'[c].pc = pc /\ call'[c].s = call[c].s
  BY DEF Goto, TypeOK, CallType

\* ... and one that returns is ready for another.
LEMMA ReturnEffect ==
    ASSUME TypeOK, NEW c \in Calls, Return(c)
    PROVE  /\ \A d \in Calls : d # c => call'[d] = call[d]
           /\ call'[c].pc = "ready"
  BY DEF Return, TypeOK, ReadyCall

\* An UPDATE of one session's status touches no other row.
LEMMA UpdateStatusEffect ==
    ASSUME TypeOK, NEW s \in Sessions, NEW v, UpdateStatus(s, v)
    PROVE  /\ \A q \in Sessions : q # s => status'[q] = status[q]
           /\ status'[s] = IF Exists(s) THEN v ELSE status[s]
  BY DEF UpdateStatus, TypeOK

\* send_message's claim takes a session that nobody holds.
LEMMA SendClaimClaimInv ==
    ASSUME ClaimInv, TypeOK', NEW c \in Calls, SendClaim(c) PROVE ClaimInv'
  <1> DEFINE s == call[c].s
  <1>0. TypeOK /\ s \in Sessions /\ call[c].pc = "claim"
    BY DEF ClaimInv, TypeOK, CallType, SendClaim
  <1>1. CASE status[s] \in {"idle", "error"}
    <2>1. /\ \A d \in Calls : d # c => call'[d] = call[d]
          /\ call'[c].pc = "record" /\ call'[c].s = s
          /\ UNCHANGED <<daemon, turn, drain>>
          /\ status'[s] = "running"
          /\ \A q \in Sessions : q # s => status'[q] = status[q]
      BY <1>0, <1>1, GotoEffect DEF SendClaim, TypeOK
    <2>2. Disciplined'
      BY <1>0, <2>1 DEF ClaimInv, Disciplined, Active
    <2>3. /\ \A t \in Turns : Active(t) => turn[t].s # s
          /\ \A d \in Calls : Claimed(d) => call[d].s # s
      BY <1>1 DEF ClaimInv, FreeUnheld, Free
    <2>4. /\ \A t \in Turns : Active(t)' <=> Active(t)
          /\ \A d \in Calls : d # c => (Claimed(d)' <=> Claimed(d))
      BY <2>1 DEF Active, Claimed
    <2>5. OneHolder'
      BY <2>1, <2>3, <2>4 DEF ClaimInv, OneHolder
    <2>6. FreeUnheld'
      <3>1. \A t \in Turns : Active(t)' => status'[turn'[t].s] \notin Free
        BY <1>0, <2>1, <2>3, <2>4 DEF ClaimInv, FreeUnheld, TypeOK, TurnType
      <3>2. \A d \in Calls : Claimed(d)' => status'[call'[d].s] \notin Free
        BY <1>0, <2>1, <2>3, <2>4 DEF ClaimInv, FreeUnheld, TypeOK, CallType, Free
      <3> QED
        BY <3>1, <3>2 DEF FreeUnheld
    <2> QED
      BY <2>2, <2>5, <2>6 DEF ClaimInv
  <1>2. CASE status[s] \notin {"idle", "error"}
    <2>1. Return(c) /\ UNCHANGED <<daemon, turn, drain, status>>
      BY <1>2 DEF SendClaim
    <2> QED
      BY <1>0, <2>1, QuietCall, ReturnEffect
  <1> QED
    BY <1>1, <1>2

\* send_message hands the session it holds to the turn it spawns.
LEMMA SendSpawnClaimInv ==
    ASSUME ClaimInv, TypeOK', NEW c \in Calls, SendSpawn(c) PROVE ClaimInv'
  <1> DEFINE s == call[c].s
  <1>0. TypeOK /\ s \in Sessions /\ Claimed(c)
    BY DEF ClaimInv, TypeOK, CallType, SendSpawn, Claimed
  <1>1. PICK t \in Turns :
          /\ turn[t].pc = "unused"
          /\ turn'[t].pc = "start" /\ turn'[t].s = s /\ turn'[t].got = FALSE
          /\ \A u \in Turns : u # t => turn'[u] = turn[u]
    BY <1>0 DEF SendSpawn, TypeOK
  <1>2. /\ \A d \in Calls : d # c => call'[d] = call[d]
        /\ call'[c].pc = "ready"
        /\ UNCHANGED <<daemon, status, drain>>
    BY <1>0, ReturnEffect DEF SendSpawn
  <1>3. Disciplined'
    BY <1>0, <1>1, <1>2 DEF ClaimInv, Disciplined, Active, Claimed
  <1>4. /\ \A u \in Turns : u # t => (Active(u)' <=> Active(u)) /\ turn'[u].s = turn[u].s
        /\ \A d \in Calls : Claimed(d)' => d # c /\ Claimed(d) /\ call'[d].s = call[d].s
    BY <1>1, <1>2 DEF Active, Claimed
  <1>5. OneHolder'
    BY <1>0, <1>1, <1>4 DEF ClaimInv, OneHolder
  <1>6. FreeUnheld'
    BY <1>0, <1>1, <1>2, <1>4 DEF ClaimInv, FreeUnheld
  <1> QED
    BY <1>3, <1>5, <1>6 DEF ClaimInv

\* A request step claims, hands its session to a turn, or holds what it held.
LEMMA CallStepClaimInv ==
    ASSUME ClaimDiscipline, ClaimInv, NEW c \in Calls, CallStep(c) PROVE ClaimInv'
  <1> DEFINE s == call[c].s
  <1>0. TypeOK /\ TypeOK' /\ Disciplined /\ s \in Sessions
    BY CallStepTyped DEF ClaimInv, TypeOK, CallType
  <1>1. CASE CreateInsert(c)
    <2>1. \A q \in Sessions : status'[q] \in Free => status[q] \in Free
      BY <1>0, <1>1 DEF CreateInsert, Free, TypeOK
    <2> QED
      BY <1>0, <1>1, <2>1, QuietCall, ReturnEffect DEF CreateInsert
  <1>2. CASE SendRecord(c)
    BY <1>0, <1>2, QuietCall, ReturnEffect, GotoEffect DEF SendRecord, Claimed
  <1>3. CASE PauseWrite(c)
    <2>1. \A q \in Sessions : status'[q] \in Free => status[q] \in Free
      BY <1>0, <1>3, UpdateStatusEffect DEF PauseWrite, Free
    <2> QED
      BY <1>0, <1>3, <2>1, QuietCall, GotoEffect DEF PauseWrite
  <1>4. CASE PauseSignal(c)
    BY <1>0, <1>4, QuietCall, ReturnEffect DEF PauseSignal
  <1>5. CASE DeleteStop(c)
    <2>1. /\ \A d \in Calls : d # c => call'[d] = call[d]
          /\ call'[c].pc \in {"deleteKill", "deleteRow"}
      BY <1>0, <1>5, GotoEffect DEF DeleteStop, StopFlag, TypeOK, CallType
    <2> QED
      BY <1>0, <1>5, <2>1, QuietCall DEF DeleteStop, StopFlag
  <1>6. CASE DeleteKill(c)
    <2>1. /\ \A d \in Calls : d # c => call'[d] = call[d]
          /\ call'[c].pc = "deleteRow"
      BY <1>0, <1>6 DEF DeleteKill, StopKill, TypeOK, CallType
    <2> QED
      BY <1>0, <1>6, <2>1, QuietCall DEF DeleteKill, StopKill
  <1>7. CASE DeleteRow(c)
    <2>1. \A q \in Sessions : status'[q] \in Free => status[q] \in Free
      BY <1>0, <1>7, UpdateStatusEffect DEF DeleteRow, Free
    <2> QED
      BY <1>0, <1>7, <2>1, QuietCall, ReturnEffect DEF DeleteRow
  <1>8. CASE SetDrop(c)
    BY <1>0, <1>8, QuietCall, GotoEffect DEF SetDrop
  <1>9. CASE SetWrite(c)
    BY <1>0, <1>9, QuietCall, ReturnEffect DEF SetWrite
  <1>10. ~(ResumeCheck(c) \/ ResumeWrite(c) \/ ResumeSignal(c)
            \/ CancelStop(c) \/ CancelKill(c) \/ CancelWrite(c))
    BY <1>0 DEF Disciplined, ResumeCheck, ResumeWrite, ResumeSignal,
       CancelStop, CancelKill, CancelWrite, StopFlag, StopKill
  <1> QED
    BY <1>0, <1>1, <1>2, <1>3, <1>4, <1>5, <1>6, <1>7, <1>8, <1>9, <1>10,
       SendClaimClaimInv, SendSpawnClaimInv DEF CallStep

\* A turn keeps its session until it is done, and frees it only then.
LEMMA TurnHolds ==
    ASSUME ClaimInv, TypeOK', NEW t \in Turns, Active(t),
           UNCHANGED <<daemon, call, drain>>,
           \A u \in Turns : u # t => turn'[u] = turn[u],
           turn'[t].s = turn[t].s, turn'[t].got = turn[t].got, turn'[t].pc # "result",
           \A q \in Sessions : status'[q] \in Free =>
               status[q] \in Free \/ (q = turn[t].s /\ turn'[t].pc = "done")
    PROVE  ClaimInv'
  <1>1. Disciplined'
    BY DEF ClaimInv, Disciplined, Active
  <1>2. /\ \A u \in Turns : Active(u)' => Active(u) /\ turn'[u].s = turn[u].s
        /\ \A c \in Calls : Claimed(c)' => Claimed(c) /\ call'[c].s = call[c].s
    BY DEF Active, Claimed
  <1>3. ASSUME turn'[t].pc = "done"
        PROVE  /\ \A u \in Turns : Active(u)' => turn'[u].s # turn[t].s
               /\ \A c \in Calls : Claimed(c)' => call'[c].s # turn[t].s
    <2>1. ~Active(t)'
      BY <1>3 DEF Active
    <2> QED
      BY <1>2, <2>1 DEF ClaimInv, OneHolder
  <1>4. \A q \in Sessions : status'[q] \in Free =>
            \/ status[q] \in Free
            \/ /\ \A u \in Turns : Active(u)' => turn'[u].s # q
               /\ \A c \in Calls : Claimed(c)' => call'[c].s # q
    BY <1>3
  <1>5. OneHolder' /\ FreeUnheld'
    BY <1>2, <1>4, NoNewHolder DEF ClaimInv
  <1> QED
    BY <1>1, <1>5 DEF ClaimInv

\* A turn that goes on keeps its session.
LEMMA StepEffect ==
    ASSUME TypeOK, NEW t \in Turns, NEW pc, Step(t, pc)
    PROVE  /\ \A u \in Turns : u # t => turn'[u] = turn[u]
           /\ turn'[t].pc = pc /\ turn'[t].s = turn[t].s /\ turn'[t].got = turn[t].got
  BY DEF Step, TypeOK, TurnType

\* Every step of a turn preserves the invariant.
LEMMA TurnStepClaimInv ==
    ASSUME ClaimDiscipline, ClaimInv, NEW t \in Turns, TurnStep(t) PROVE ClaimInv'
  <1>0. TypeOK /\ TypeOK' /\ Disciplined /\ turn[t].s \in Sessions
    BY TurnStepTyped DEF ClaimInv, TypeOK, TurnType
  <1>1. KindOf(t) # "claude" /\ turn[t].pc # "result"
    BY <1>0 DEF TypeOK, TurnType, RunnerType, KindOf, ClaimDiscipline, Disciplined
  <1>2. CASE TurnStart(t)
    BY <1>0, <1>2, TurnHolds, StepEffect DEF TurnStart, Active
  <1>3. CASE TurnSpawn(t)
    BY <1>0, <1>3, TurnHolds, StepEffect DEF TurnSpawn, Active
  <1>4. CASE TurnStore(t)
    BY <1>0, <1>4, TurnHolds, StepEffect DEF TurnStore, Active
  <1>5. CASE TurnBegin(t)
    <2>1. \A q \in Sessions : status'[q] \in Free => status[q] \in Free
      BY <1>0, <1>5, UpdateStatusEffect DEF TurnBegin, Free
    <2> QED
      BY <1>0, <1>5, <2>1, TurnHolds, StepEffect DEF TurnBegin, Active
  <1>6. CASE TurnBreak(t)
    BY <1>0, <1>6, TurnHolds, StepEffect DEF TurnBreak, Active
  <1>7. CASE TurnLineError(t)
    BY <1>0, <1>7, TurnHolds, StepEffect DEF TurnLineError, Active
  <1>8. ~(TurnResult(t) \/ TurnResultWrite(t))
    BY <1>1 DEF TurnResult, TurnResultWrite
  <1>9. CASE TurnEof(t)
    BY <1>0, <1>9, TurnHolds, StepEffect DEF TurnEof, Active
  <1>10. CASE TurnReap(t)
    <2>1. /\ \A u \in Turns : u # t => turn'[u] = turn[u]
          /\ turn'[t].pc = "reaping" /\ turn'[t].s = turn[t].s /\ turn'[t].got = turn[t].got
      BY <1>0, <1>10 DEF TurnReap, TypeOK, TurnType
    <2> QED
      BY <1>0, <1>10, <2>1, TurnHolds DEF TurnReap, Active
  <1>11. CASE TurnReaped(t)
    <2>1. /\ \A u \in Turns : u # t => turn'[u] = turn[u]
          /\ turn'[t].pc = "final" /\ turn'[t].s = turn[t].s /\ turn'[t].got = turn[t].got
      BY <1>0, <1>11 DEF TurnReaped, TypeOK, TurnType
    <2> QED
      BY <1>0, <1>11, <2>1, TurnHolds DEF TurnReaped, Active
  <1>12. CASE TurnFinal(t)
    BY <1>0, <1>12, TurnHolds, StepEffect DEF TurnFinal, Active
  <1>13. CASE TurnWrite(t)
    <2>1. \A q \in Sessions : q # turn[t].s => status'[q] = status[q]
      BY <1>0, <1>13, UpdateStatusEffect DEF TurnWrite
    <2> QED
      BY <1>0, <1>13, <2>1, TurnHolds, StepEffect DEF TurnWrite, Active
  <1>14. CASE TurnTimeout(t)
    <2>1. /\ \A u \in Turns : u # t => turn'[u] = turn[u]
          /\ turn'[t].pc = "timeout" /\ turn'[t].s = turn[t].s /\ turn'[t].got = turn[t].got
      BY <1>0, <1>14 DEF TurnTimeout, TypeOK, TurnType
    <2> QED
      BY <1>0, <1>14, <2>1, TurnHolds DEF TurnTimeout, Active, TimedPcs
  <1>15. CASE TurnTimeoutKill(t)
    BY <1>0, <1>15, TurnHolds, StepEffect DEF TurnTimeoutKill, Active
  <1>16. CASE TurnFail(t)
    <2>1. \A q \in Sessions : q # turn[t].s => status'[q] = status[q]
      BY <1>0, <1>16, UpdateStatusEffect DEF TurnFail
    <2> QED
      BY <1>0, <1>16, <2>1, TurnHolds, StepEffect DEF TurnFail, Active
  <1> QED
    BY <1>2, <1>3, <1>4, <1>5, <1>6, <1>7, <1>8, <1>9, <1>10, <1>11, <1>12, <1>13, <1>14,
       <1>15, <1>16 DEF TurnStep

\* A crash, or the end of a drain, leaves no turn and no request.
LEMMA HaltEffect ==
    ASSUME TypeOK, Halt
    PROVE  /\ daemon' = "down" /\ UNCHANGED status
           /\ \A t \in Turns : turn'[t].pc \in {"unused", "done"} /\ turn'[t].got = turn[t].got
           /\ \A c \in Calls : call'[c].pc = "ready"
           /\ \A s \in Sessions : drain'[s].pc = "none"
  <1>1. ASSUME NEW t \in Turns
        PROVE  turn'[t].pc \in {"unused", "done"} /\ turn'[t].got = turn[t].got
    <2>1. turn'[t] = [turn[t] EXCEPT !.pc = IF @ = "unused" THEN "unused" ELSE "done",
                                     !.waits = None]
      BY DEF Halt
    <2> QED
      BY <2>1 DEF TypeOK, TurnType
  <1>2. \A c \in Calls : call'[c].pc = "ready"
    BY DEF Halt, ReadyCall
  <1>3. \A s \in Sessions : drain'[s].pc = "none"
    BY DEF Halt, NotDraining
  <1> QED
    BY <1>1, <1>2, <1>3 DEF Halt

\* A crash ends every turn and every request.
LEMMA CrashClaimInv == ASSUME ClaimInv, Crash PROVE ClaimInv'
  <1>0. TypeOK /\ TypeOK' /\ Disciplined
    BY HaltTyped DEF ClaimInv, Crash
  <1>1. /\ \A t \in Turns : turn'[t].pc \in {"unused", "done"} /\ turn'[t].got = turn[t].got
        /\ \A c \in Calls : call'[c].pc = "ready"
        /\ daemon' = "down"
        /\ \A s \in Sessions : drain'[s].pc = "none"
    BY <1>0, HaltEffect DEF Crash
  <1> QED
    BY <1>0, <1>1 DEF ClaimInv, Disciplined, OneHolder, FreeUnheld, Active, Claimed

\* Recovery frees sessions that nobody holds, since the daemon was down.
LEMMA RestartClaimInv == ASSUME ClaimInv, Restart PROVE ClaimInv'
  <1>0. TypeOK /\ TypeOK' /\ Disciplined
    <2>1. [Next]_vars
      BY DEF Next
    <2> QED
      BY <2>1, NextTyped DEF ClaimInv
  <1>1. /\ \A t \in Turns : ~Active(t)'
        /\ \A c \in Calls : call'[c].pc = "ready"
    BY <1>0 DEF Restart, Disciplined, Active
  <1>2. Disciplined'
    BY <1>0, <1>1 DEF Restart, Disciplined, Active
  <1> QED
    BY <1>0, <1>1, <1>2 DEF ClaimInv, OneHolder, FreeUnheld, Claimed

\* Every step preserves the invariant.
LEMMA NextClaimInv == ASSUME ClaimDiscipline PROVE ClaimInv /\ [Next]_vars => ClaimInv'
  <1> SUFFICES ASSUME ClaimInv, [Next]_vars PROVE ClaimInv'
    OBVIOUS
  <1>0. TypeOK /\ TypeOK' /\ Disciplined
    BY NextTyped DEF ClaimInv
  <1>1. ASSUME NEW t \in Turns, ProcExit(t) PROVE ClaimInv'
    BY <1>0, <1>1 DEF ProcExit, ClaimInv, Disciplined, OneHolder, FreeUnheld, Active, Claimed
  <1>2. ASSUME NEW s \in Sessions, Prune(s) PROVE ClaimInv'
    <2>1. /\ UNCHANGED <<daemon, turn, call, drain>>
          /\ \A q \in Sessions : status'[q] \in Free => status[q] \in Free
      BY <1>0, <1>2 DEF Prune, TypeOK, Free
    <2>2. Disciplined'
      BY <1>0, <2>1 DEF Disciplined, Active
    <2>3. OneHolder' /\ FreeUnheld'
      BY <1>0, <2>1, NoNewHolder DEF ClaimInv, Active, Claimed
    <2> QED
      BY <1>0, <2>2, <2>3 DEF ClaimInv
  <1>3. ~(DrainStart \/ DrainStep)
    BY <1>0 DEF DrainStart, DrainStep, DrainEnd, DrainFlag, DrainKill, DrainWrite,
       Disciplined, ClaimDiscipline
  <1>4. CASE UNCHANGED vars
    BY <1>0, <1>4 DEF vars, ClaimInv, Disciplined, OneHolder, FreeUnheld, Active, Claimed
  <1> QED
    BY <1>1, <1>2, <1>3, <1>4, NewRequestClaimInv, CallStepClaimInv, TurnStepClaimInv,
       CrashClaimInv, RestartClaimInv DEF Next

(***************************************************************************)
(* However many connections race, a session claimed with the conditional   *)
(* UPDATE of claim_session_for_run runs one turn at a time, as long as no  *)
(* resume, cancel or drain writes its status and no claude turn outlives   *)
(* its Result.                                                             *)
(***************************************************************************)
THEOREM ClaimExcludes == ASSUME ClaimDiscipline PROVE Spec => []AtMostOneTurn
  <1>1. Init => ClaimInv
    BY InitTyped DEF Init, ClaimInv, Disciplined, OneHolder, FreeUnheld, Active, Claimed,
       ReadyCall, NotDraining
  <1>2. ClaimInv => AtMostOneTurn
    BY DEF ClaimInv, OneHolder, AtMostOneTurn, Unfinished, Active
  <1> QED
    BY <1>1, <1>2, NextClaimInv, PTL DEF Spec

-----------------------------------------------------------------------------
(***************************************************************************)
(* The claim is a lock                                                     *)
(***************************************************************************)

\* Nobody has a session that he did not have before.
NobodyNew ==
    /\ \A t \in Turns : Active(t)' => Active(t) /\ turn'[t].s = turn[t].s
    /\ \A c \in Calls : Claimed(c)' => Claimed(c) /\ call'[c].s = call[c].s

\* The sessions that such a step leaves without anyone are released, and the
\* others stay with the one they had.
LEMMA NobodyNewReleases ==
    ASSUME ClaimInv, Disciplined', NobodyNew
    PROVE  \E S \in SUBSET Sessions :
              /\ Claimers' = [s \in Sessions |-> IF s \in S THEN {} ELSE Claimers[s]]
              /\ Workers' = [s \in Sessions |-> IF s \in S THEN {} ELSE Workers[s]]
  <1>0. /\ \A t \in Turns : Unfinished(t) <=> Active(t)
        /\ \A t \in Turns : Unfinished(t)' <=> Active(t)'
    BY DEF ClaimInv, Disciplined, Unfinished, Active
  <1> DEFINE S == {s \in Sessions : ClaimersOf(s)' = {} /\ WorkersOf(s)' = {}}
  <1>1. ASSUME NEW s \in Sessions, s \notin S
        PROVE  ClaimersOf(s)' = ClaimersOf(s) /\ WorkersOf(s)' = WorkersOf(s)
    <2>1. CASE ClaimersOf(s)' # {}
      <3>1. PICK c \in Calls : Claimed(c)' /\ call'[c].s = s /\ Claimed(c) /\ call[c].s = s
        BY <2>1 DEF ClaimersOf, NobodyNew
      <3>2. ClaimersOf(s) = {c} /\ WorkersOf(s) = {}
        BY <1>0, <3>1 DEF ClaimersOf, WorkersOf, ClaimInv, OneHolder
      <3>3. c \in ClaimersOf(s)' /\ ClaimersOf(s)' \subseteq ClaimersOf(s)
            /\ WorkersOf(s)' \subseteq WorkersOf(s)
        BY <1>0, <3>1 DEF ClaimersOf, WorkersOf, NobodyNew
      <3> QED
        BY <3>2, <3>3
    <2>2. CASE WorkersOf(s)' # {}
      <3>1. PICK t \in Turns : Active(t)' /\ turn'[t].s = s /\ Active(t) /\ turn[t].s = s
        BY <1>0, <2>2 DEF WorkersOf, NobodyNew
      <3>2. ClaimersOf(s) = {} /\ WorkersOf(s) = {t}
        BY <1>0, <3>1 DEF ClaimersOf, WorkersOf, ClaimInv, OneHolder
      <3>3. t \in WorkersOf(s)' /\ ClaimersOf(s)' \subseteq ClaimersOf(s)
            /\ WorkersOf(s)' \subseteq WorkersOf(s)
        BY <1>0, <3>1 DEF ClaimersOf, WorkersOf, NobodyNew
      <3> QED
        BY <3>2, <3>3
    <2> QED
      BY <1>1, <2>1, <2>2
  <1>2. ASSUME NEW s \in Sessions, s \in S
        PROVE  ClaimersOf(s)' = {} /\ WorkersOf(s)' = {}
    BY <1>2
  <1>3. S \in SUBSET Sessions
    OBVIOUS
  <1> HIDE DEF S
  <1>4. /\ Claimers' = [s \in Sessions |-> IF s \in S THEN {} ELSE Claimers[s]]
        /\ Workers' = [s \in Sessions |-> IF s \in S THEN {} ELSE Workers[s]]
    BY <1>1, <1>2 DEF Claimers, Workers
  <1> QED
    BY <1>3, <1>4

\* A request step other than the claim and the spawn.
LEMMA OtherCallStep ==
    ASSUME ClaimInv, NEW c \in Calls, CallStep(c), ~SendSpawn(c),
           ~(SendClaim(c) /\ status[call[c].s] \in {"idle", "error"})
    PROVE  NobodyNew
  <1>0. TypeOK /\ Disciplined
    BY DEF ClaimInv
  <1>1. ASSUME UNCHANGED turn, \A d \in Calls : d # c => call'[d] = call[d],
               call'[c].pc \notin {"record", "spawn"}
               \/ (Claimed(c) /\ call'[c].s = call[c].s)
        PROVE  NobodyNew
    BY <1>1 DEF NobodyNew, Active, Claimed
  <1>2. CASE CreateInsert(c) \/ PauseSignal(c) \/ DeleteRow(c) \/ SetWrite(c)
    BY <1>0, <1>1, <1>2, ReturnEffect DEF CreateInsert, PauseSignal, DeleteRow, SetWrite
  <1>3. CASE PauseWrite(c) \/ SetDrop(c)
    BY <1>0, <1>1, <1>3, GotoEffect DEF PauseWrite, SetDrop
  <1>4. CASE SendRecord(c)
    BY <1>0, <1>1, <1>4, ReturnEffect, GotoEffect DEF SendRecord, Claimed
  <1>5. CASE SendClaim(c)
    BY <1>0, <1>1, <1>5, ReturnEffect DEF SendClaim
  <1>6. CASE DeleteStop(c)
    <2>1. /\ \A d \in Calls : d # c => call'[d] = call[d]
          /\ call'[c].pc \in {"deleteKill", "deleteRow"}
      BY <1>0, <1>6, GotoEffect DEF DeleteStop, StopFlag, TypeOK, CallType
    <2> QED
      BY <1>1, <1>6, <2>1 DEF DeleteStop, StopFlag
  <1>7. CASE DeleteKill(c)
    <2>1. /\ \A d \in Calls : d # c => call'[d] = call[d]
          /\ call'[c].pc = "deleteRow"
      BY <1>0, <1>7 DEF DeleteKill, StopKill, TypeOK, CallType
    <2> QED
      BY <1>1, <1>7, <2>1 DEF DeleteKill, StopKill
  <1>8. ~(ResumeCheck(c) \/ ResumeWrite(c) \/ ResumeSignal(c)
            \/ CancelStop(c) \/ CancelKill(c) \/ CancelWrite(c))
    BY <1>0 DEF Disciplined, ResumeCheck, ResumeWrite, ResumeSignal,
       CancelStop, CancelKill, CancelWrite, StopFlag, StopKill
  <1> QED
    BY <1>2, <1>3, <1>4, <1>5, <1>6, <1>7, <1>8 DEF CallStep

\* A turn's step.
LEMMA TurnStepKeeps ==
    ASSUME ClaimInv, NEW t \in Turns, TurnStep(t)
    PROVE  NobodyNew
  <1>0. TypeOK
    BY DEF ClaimInv
  <1>1. Active(t) /\ UNCHANGED call
    BY DEF TurnStep, TurnStart, TurnSpawn, TurnStore, TurnBegin, TurnBreak, TurnLineError,
       TurnResult, TurnResultWrite, TurnEof, TurnReap, TurnReaped, TurnFinal, TurnWrite,
       TurnTimeout, TurnTimeoutKill, TurnFail, Active, TimedPcs
  <1>2. \A u \in Turns : u # t => turn'[u] = turn[u]
    BY <1>0 DEF TurnStep, TurnStart, TurnSpawn, TurnStore, TurnBegin, TurnBreak, TurnLineError,
       TurnResult, TurnResultWrite, TurnEof, TurnReap, TurnReaped, TurnFinal, TurnWrite,
       TurnTimeout, TurnTimeoutKill, TurnFail, Step, TypeOK
  <1>3. turn'[t].s = turn[t].s
    BY <1>0 DEF TurnStep, TurnStart, TurnSpawn, TurnStore, TurnBegin, TurnBreak, TurnLineError,
       TurnResult, TurnResultWrite, TurnEof, TurnReap, TurnReaped, TurnFinal, TurnWrite,
       TurnTimeout, TurnTimeoutKill, TurnFail, Step, TypeOK, TurnType
  <1> QED
    BY <1>1, <1>2, <1>3 DEF NobodyNew, Active, Claimed

\* The claim takes the lock that nobody has, ...
LEMMA SendClaimTakes ==
    ASSUME ClaimInv, Disciplined', NEW c \in Calls, SendClaim(c),
           status[call[c].s] \in {"idle", "error"}
    PROVE  /\ Claimers[call[c].s] = {} /\ Workers[call[c].s] = {} /\ call[c].s \in Sessions
           /\ Claimers' = [Claimers EXCEPT ![call[c].s] = {c}]
           /\ Workers' = Workers
  <1> DEFINE s == call[c].s
  <1>0. TypeOK /\ s \in Sessions /\ ~Claimed(c)
    BY DEF ClaimInv, TypeOK, CallType, SendClaim, Claimed
  <1>1. /\ \A d \in Calls : d # c => call'[d] = call[d]
        /\ call'[c].pc = "record" /\ call'[c].s = s /\ UNCHANGED turn
    BY <1>0, GotoEffect DEF SendClaim
  <1>2. /\ \A t \in Turns : Active(t) => turn[t].s # s
        /\ \A d \in Calls : Claimed(d) => call[d].s # s
    BY DEF ClaimInv, FreeUnheld, Free
  <1>3. ClaimersOf(s) = {} /\ WorkersOf(s) = {}
    BY <1>2 DEF ClaimersOf, WorkersOf, Unfinished, Active
  <1>4. ASSUME NEW q \in Sessions
        PROVE  /\ ClaimersOf(q)' = IF q = s THEN {c} ELSE ClaimersOf(q)
               /\ WorkersOf(q)' = WorkersOf(q)
    BY <1>0, <1>1, <1>2 DEF ClaimersOf, WorkersOf, Unfinished, Claimed
  <1> QED
    BY <1>0, <1>3, <1>4 DEF Claimers, Workers

\* ... and the spawn hands it to the turn.
LEMMA SendSpawnHandsOver ==
    ASSUME ClaimInv, Disciplined', NEW c \in Calls, SendSpawn(c)
    PROVE  /\ Claimers[call[c].s] = {c} /\ Workers[call[c].s] = {} /\ call[c].s \in Sessions
           /\ Claimers' = [Claimers EXCEPT ![call[c].s] = {}]
           /\ \E t \in Turns : Workers' = [Workers EXCEPT ![call[c].s] = {t}]
  <1> DEFINE s == call[c].s
  <1>0. TypeOK /\ s \in Sessions /\ Claimed(c)
    BY DEF ClaimInv, TypeOK, CallType, SendSpawn, Claimed
  <1>1. PICK t \in Turns :
          /\ turn[t].pc = "unused"
          /\ turn'[t].pc = "start" /\ turn'[t].s = s /\ turn'[t].got = FALSE
          /\ \A u \in Turns : u # t => turn'[u] = turn[u]
    BY <1>0 DEF SendSpawn, TypeOK
  <1>2. /\ \A d \in Calls : d # c => call'[d] = call[d]
        /\ call'[c].pc = "ready"
    BY <1>0, ReturnEffect DEF SendSpawn
  <1>3. ClaimersOf(s) = {c} /\ WorkersOf(s) = {}
    BY <1>0 DEF ClaimersOf, WorkersOf, Unfinished, Active, ClaimInv, OneHolder
  <1>4. ASSUME NEW q \in Sessions
        PROVE  /\ ClaimersOf(q)' = IF q = s THEN {} ELSE ClaimersOf(q)
               /\ WorkersOf(q)' = IF q = s THEN {t} ELSE WorkersOf(q)
    <2>1. ClaimersOf(q)' = ClaimersOf(q) \ {c}
      BY <1>2 DEF ClaimersOf, Claimed
    <2>2. WorkersOf(q)' = IF q = s THEN WorkersOf(q) \cup {t} ELSE WorkersOf(q)
      BY <1>1 DEF WorkersOf, Unfinished
    <2>3. q # s => c \notin ClaimersOf(q)
      BY DEF ClaimersOf
    <2> QED
      BY <1>3, <2>1, <2>2, <2>3
  <1> QED
    BY <1>0, <1>3, <1>4 DEF Claimers, Workers

(***************************************************************************)
(* The session manager implements the lock, for any number of sessions,    *)
(* connections and turns: claim_session_for_run's conditional UPDATE takes *)
(* a session only when no request and no turn has it, and only the turn    *)
(* that send_message spawns has it from then on, through crashes and       *)
(* recover_stale_sessions, as long as no resume, cancel or drain writes    *)
(* the status and no claude turn outlives its Result.                      *)
(***************************************************************************)
THEOREM ClaimImplementsLock == ASSUME ClaimDiscipline PROVE Spec => ClaimIsLock
  <1>1. Init => ClaimInv
    BY InitTyped DEF Init, ClaimInv, Disciplined, OneHolder, FreeUnheld, Active, Claimed,
       ReadyCall, NotDraining
  <1>2. Init => Lock!Init
    BY DEF Init, Lock!Init, Claimers, Workers, ClaimersOf, WorkersOf, Claimed, Unfinished, ReadyCall
  <1>3. ClaimInv /\ ClaimInv' /\ [Next]_vars => [Lock!Next]_<<Claimers, Workers>>
    <2> SUFFICES ASSUME ClaimInv, ClaimInv', [Next]_vars
                 PROVE  Lock!Next \/ UNCHANGED <<Claimers, Workers>>
      OBVIOUS
    <2>0. TypeOK /\ Disciplined /\ Disciplined'
      BY DEF ClaimInv
    <2>1. ASSUME NobodyNew PROVE Lock!Next
      BY <2>0, <2>1, NobodyNewReleases DEF Lock!Next, Lock!Release
    <2>2. CASE UNCHANGED vars
      BY <2>1, <2>2 DEF vars, NobodyNew, Active, Claimed
    <2>3. ASSUME NEW c \in Calls, NewRequest(c) PROVE NobodyNew
      BY <2>0, <2>3, NewRequestEffect DEF NobodyNew, Active, Claimed
    <2>4. ASSUME NEW c \in Calls, SendClaim(c), status[call[c].s] \in {"idle", "error"}
          PROVE  Lock!Next
      BY <2>0, <2>4, SendClaimTakes DEF Lock!Next, Lock!Claim
    <2>5. ASSUME NEW c \in Calls, SendSpawn(c) PROVE Lock!Next
      BY <2>0, <2>5, SendSpawnHandsOver DEF Lock!Next, Lock!HandOver
    <2>6. ASSUME NEW t \in Turns, ProcExit(t) PROVE NobodyNew
      BY <2>6 DEF ProcExit, NobodyNew, Active, Claimed
    <2>7. ASSUME NEW s \in Sessions, Prune(s) PROVE NobodyNew
      BY <2>7 DEF Prune, NobodyNew, Active, Claimed
    <2>8. ~(DrainStart \/ DrainStep)
      BY <2>0 DEF DrainStart, DrainStep, DrainEnd, DrainFlag, DrainKill, DrainWrite,
         Disciplined, ClaimDiscipline
    <2>9. ASSUME Crash PROVE NobodyNew
      BY <2>0, <2>9, HaltEffect DEF Crash, NobodyNew, Active, Claimed
    <2>10. ASSUME Restart PROVE NobodyNew
      BY <2>10 DEF Restart, NobodyNew, Active, Claimed
    <2> QED
      BY <2>1, <2>2, <2>3, <2>4, <2>5, <2>6, <2>7, <2>8, <2>9, <2>10, OtherCallStep,
         TurnStepKeeps DEF Next
  <1> QED
    BY <1>1, <1>2, <1>3, NextClaimInv, PTL DEF Spec, ClaimIsLock, Lock!Spec

-----------------------------------------------------------------------------
(***************************************************************************)
(* Runners keep to their own session                                       *)
(***************************************************************************)

Used(t) == turn[t].pc # "unused"

\* A runner in the map was made for a turn of that session ...
HandlesOwned ==
    \A s \in Sessions : handles[s] # None => Used(handles[s]) /\ turn[handles[s]].s = s

\* ... and runs turns of that session only ...
TurnsOwned ==
    \A t \in Turns : IF Used(t) THEN Used(turn[t].r) /\ turn[turn[t].r].s = turn[t].s
                                ELSE turn[t].r = t

\* ... so a child it holds or signals, or that one of its turns waits for, is
\* the child of a turn it ran.
ChildrenOwned ==
    \A r \in Turns :
        /\ runner[r].child # None => Used(runner[r].child) /\ turn[runner[r].child].r = r
        /\ runner[r].pid # None => Used(runner[r].pid) /\ turn[runner[r].pid].r = r

WaitsOwned ==
    \A t \in Turns : turn[t].waits # None =>
        Used(turn[t].waits) /\ turn[turn[t].waits].r = turn[t].r

OwnInv == TypeOK /\ HandlesOwned /\ TurnsOwned /\ ChildrenOwned /\ WaitsOwned

\* No runner gets a child or a pid it did not have.
NoChildGiven ==
    \A r \in Turns : /\ runner'[r].child \in {None, runner[r].child}
                     /\ runner'[r].pid \in {None, runner[r].pid}

\* A step that starts no turn and puts no runner in the map.
LEMMA TurnsKept ==
    ASSUME OwnInv, TypeOK',
           \A t \in Turns : /\ turn'[t].r = turn[t].r /\ turn'[t].s = turn[t].s
                            /\ turn'[t].pc = "unused" <=> turn[t].pc = "unused",
           \A s \in Sessions : handles'[s] \in {None, handles[s]}
    PROVE  HandlesOwned' /\ TurnsOwned' /\ (NoChildGiven => ChildrenOwned')
  <1> USE DEF OwnInv, TypeOK, TurnType, RunnerType, Used
  <1>1. HandlesOwned'
    BY DEF HandlesOwned
  <1>2. TurnsOwned'
    BY DEF TurnsOwned
  <1>3. NoChildGiven => ChildrenOwned'
    BY DEF ChildrenOwned, NoChildGiven
  <1> QED
    BY <1>1, <1>2, <1>3

\* A step that hands out no child either.
LEMMA OwnFrame ==
    ASSUME OwnInv, TypeOK',
           \A t \in Turns : /\ turn'[t].r = turn[t].r /\ turn'[t].s = turn[t].s
                            /\ turn'[t].pc = "unused" <=> turn[t].pc = "unused"
                            /\ turn'[t].waits \in {None, turn[t].waits},
           \A s \in Sessions : handles'[s] \in {None, handles[s]},
           NoChildGiven
    PROVE  OwnInv'
  <1>1. WaitsOwned'
    BY DEF WaitsOwned, OwnInv, TypeOK, TurnType, Used
  <1> QED
    BY <1>1, TurnsKept DEF OwnInv

\* That is so when a flag changes, or the child, the pid or both are dropped.
LEMMA RunnerEffect ==
    ASSUME TypeOK, NEW r,
           \/ runner' = runner
           \/ runner' = Told(r)
           \/ \E b \in BOOLEAN : runner' = [runner EXCEPT ![r].cancelled = b]
           \/ \E b \in BOOLEAN : runner' = [runner EXCEPT ![r].paused = b]
           \/ runner' = [runner EXCEPT ![r].child = None]
           \/ runner' = [runner EXCEPT ![r].pid = None]
           \/ runner' = [runner EXCEPT ![r].child = None, ![r].pid = None]
    PROVE  NoChildGiven
  <1> SUFFICES ASSUME NEW q \in Turns
               PROVE  /\ runner'[q].child \in {None, runner[q].child}
                      /\ runner'[q].pid \in {None, runner[q].pid}
    BY DEF NoChildGiven
  <1>1. ASSUME NEW b \in BOOLEAN, runner' = [runner EXCEPT ![r].cancelled = b]
        PROVE  runner'[q].child = runner[q].child /\ runner'[q].pid = runner[q].pid
    BY <1>1 DEF TypeOK, RunnerType
  <1>2. ASSUME NEW b \in BOOLEAN, runner' = [runner EXCEPT ![r].paused = b]
        PROVE  runner'[q].child = runner[q].child /\ runner'[q].pid = runner[q].pid
    BY <1>2 DEF TypeOK, RunnerType
  <1>3. CASE runner' = [runner EXCEPT ![r].child = None]
    BY <1>3 DEF TypeOK, RunnerType
  <1>4. CASE runner' = [runner EXCEPT ![r].pid = None]
    BY <1>4 DEF TypeOK, RunnerType
  <1>5. CASE runner' = [runner EXCEPT ![r].child = None, ![r].pid = None]
    BY <1>5 DEF TypeOK, RunnerType
  <1>6. CASE runner' = Told(r)
    BY <1>6, ToldEffect DEF TypeOK
  <1> QED
    BY <1>1, <1>2, <1>3, <1>4, <1>5, <1>6

\* A request's step other than the spawn.
LEMMA CallStepOwn ==
    ASSUME OwnInv, NEW c \in Calls, NewRequest(c) \/ CallStep(c), ~SendSpawn(c) PROVE OwnInv'
  <1>0. TypeOK /\ TypeOK' /\ call[c].s \in Sessions
    BY NewRequestTyped, CallStepTyped DEF OwnInv, TypeOK, CallType
  <1>1. UNCHANGED turn
    BY DEF NewRequest, CallStep, CreateCheck, SendRead, PauseRead, ResumeRead, CancelRead,
       DeleteRead, SetRead, Request, CreateInsert, SendClaim, SendRecord, PauseWrite,
       PauseSignal, ResumeCheck, ResumeWrite, ResumeSignal, CancelStop, CancelKill,
       CancelWrite, DeleteStop, DeleteKill, DeleteRow, SetDrop, SetWrite, StopFlag, StopKill
  <1>2. \A s \in Sessions : handles'[s] \in {None, handles[s]}
    BY <1>0 DEF NewRequest, CallStep, CreateCheck, SendRead, PauseRead, ResumeRead, CancelRead,
       DeleteRead, SetRead, Request, CreateInsert, SendClaim, SendRecord, PauseWrite,
       PauseSignal, ResumeCheck, ResumeWrite, ResumeSignal, CancelStop, CancelKill,
       CancelWrite, DeleteStop, DeleteKill, DeleteRow, SetDrop, SetWrite, StopFlag, StopKill,
       TypeOK
  <1>3. PICK r : \/ runner' = runner
                 \/ \E b \in BOOLEAN : runner' = [runner EXCEPT ![r].paused = b]
                 \/ runner' = Told(r)
                 \/ runner' = [runner EXCEPT ![r].child = None, ![r].pid = None]
    BY DEF NewRequest, CallStep, CreateCheck, SendRead, PauseRead, ResumeRead, CancelRead,
       DeleteRead, SetRead, Request, CreateInsert, SendClaim, SendRecord, PauseWrite,
       PauseSignal, ResumeCheck, ResumeWrite, ResumeSignal, CancelStop, CancelKill,
       CancelWrite, DeleteStop, DeleteKill, DeleteRow, SetDrop, SetWrite, StopFlag, StopKill
  <1>4. NoChildGiven
    BY <1>0, <1>3, RunnerEffect
  <1> QED
    BY <1>0, <1>1, <1>2, <1>4, OwnFrame

\* send_message puts a runner made for this session in the map, or takes the
\* one that is there.
LEMMA SendSpawnOwn ==
    ASSUME OwnInv, NEW c \in Calls, SendSpawn(c) PROVE OwnInv'
  <1> DEFINE s == call[c].s
  <1>0. TypeOK /\ TypeOK' /\ s \in Sessions
    BY CallStepTyped DEF OwnInv, TypeOK, CallType, CallStep
  <1>1. PICK t \in Turns :
          LET r == IF handles[s] = None THEN t ELSE handles[s] IN
          /\ turn[t].pc = "unused"
          /\ handles' = [handles EXCEPT ![s] = r]
          /\ turn' = [turn EXCEPT ![t] = [pc |-> "start", s |-> s, r |-> r,
                                           got |-> FALSE, waits |-> None]]
          /\ \/ runner' = [runner EXCEPT ![t] = NewRunner(call[c].prov)]
             \/ runner' = [runner EXCEPT ![t] = @]
    BY DEF SendSpawn
  <1> DEFINE r == IF handles[s] = None THEN t ELSE handles[s]
  <1>2. /\ turn'[t].pc = "start" /\ turn'[t].s = s /\ turn'[t].r = r /\ turn'[t].waits = None
        /\ \A u \in Turns : u # t => turn'[u] = turn[u]
        /\ handles'[s] = r
        /\ \A q \in Sessions : q # s => handles'[q] = handles[q]
    BY <1>0, <1>1 DEF TypeOK
  <1>3. NoChildGiven
    <2>1. CASE runner' = [runner EXCEPT ![t] = NewRunner(call[c].prov)]
      BY <1>0, <2>1 DEF NoChildGiven, TypeOK, NewRunner
    <2>2. CASE runner' = [runner EXCEPT ![t] = @]
      BY <1>0, <2>2 DEF NoChildGiven, TypeOK
    <2> QED
      BY <1>1, <2>1, <2>2
  <1>4. r \in Turns /\ (r # t => Used(r) /\ turn[r].s = s)
    BY <1>0, <1>1 DEF OwnInv, HandlesOwned, TypeOK
  <1> HIDE DEF r
  <1>5. HandlesOwned'
    <2> SUFFICES ASSUME NEW q \in Sessions, handles'[q] # None
                 PROVE  Used(handles[q])' /\ (turn[handles[q]].s)' = q
      BY DEF HandlesOwned
    <2>1. CASE q = s
      BY <1>2, <1>4, <2>1 DEF Used
    <2>2. CASE q # s
      <3>1. handles'[q] = handles[q] /\ handles[q] \in Turns /\ handles[q] # t
        BY <1>0, <1>1, <1>2, <2>2 DEF OwnInv, HandlesOwned, TypeOK, Used
      <3> QED
        BY <1>2, <3>1 DEF OwnInv, HandlesOwned, Used
    <2> QED
      BY <2>1, <2>2
  <1>6. TurnsOwned'
    <2> SUFFICES ASSUME NEW u \in Turns
                 PROVE  IF Used(u)' THEN Used(turn[u].r)' /\ (turn[turn[u].r].s)' = turn'[u].s
                                    ELSE turn'[u].r = u
      BY DEF TurnsOwned
    <2>1. CASE u = t
      BY <1>0, <1>1, <1>2, <1>4, <2>1 DEF Used
    <2>2. CASE u # t
      <3>1. turn'[u] = turn[u] /\ turn[u].r \in Turns
        BY <1>0, <1>2, <2>2 DEF TypeOK, TurnType
      <3>2. Used(u) => turn[u].r # t
        BY <1>1 DEF OwnInv, TurnsOwned, Used
      <3> QED
        BY <1>2, <3>1, <3>2 DEF OwnInv, TurnsOwned, Used
    <2> QED
      BY <2>1, <2>2
  <1>7. ChildrenOwned'
    BY <1>0, <1>1, <1>2, <1>3 DEF OwnInv, ChildrenOwned, NoChildGiven, Used, TypeOK, RunnerType
  <1>8. WaitsOwned'
    BY <1>0, <1>1, <1>2 DEF OwnInv, WaitsOwned, Used, TypeOK, TurnType
  <1> QED
    BY <1>0, <1>5, <1>6, <1>7, <1>8 DEF OwnInv

\* A turn only moves on, stops waiting, or has its Result.
Moves(t) ==
    \E pc \in TurnPcs \ {"unused"} :
        \/ Step(t, pc)
        \/ turn' = [turn EXCEPT ![t].pc = pc, ![t].waits = None]
        \/ turn' = [turn EXCEPT ![t].pc = pc, ![t].got = TRUE]

\* Then no turn changes hands.
LEMMA MovesEffect ==
    ASSUME TypeOK, NEW t \in Turns, Used(t), Moves(t)
    PROVE  \A u \in Turns : /\ turn'[u].r = turn[u].r /\ turn'[u].s = turn[u].s
                            /\ turn'[u].pc = "unused" <=> turn[u].pc = "unused"
                            /\ turn'[u].waits \in {None, turn[u].waits}
  <1>1. PICK pc \in TurnPcs \ {"unused"} :
            \/ Step(t, pc)
            \/ turn' = [turn EXCEPT ![t].pc = pc, ![t].waits = None]
            \/ turn' = [turn EXCEPT ![t].pc = pc, ![t].got = TRUE]
    BY DEF Moves
  <1>2. CASE Step(t, pc)
    BY <1>2 DEF Step, TypeOK, TurnType, Used
  <1>3. CASE turn' = [turn EXCEPT ![t].pc = pc, ![t].waits = None]
    BY <1>3 DEF TypeOK, TurnType, Used
  <1>4. CASE turn' = [turn EXCEPT ![t].pc = pc, ![t].got = TRUE]
    BY <1>4 DEF TypeOK, TurnType, Used
  <1> QED
    BY <1>1, <1>2, <1>3, <1>4

\* A turn gives its own child to its own runner, and waits for a child of it.
LEMMA TurnStepOwn ==
    ASSUME OwnInv, NEW t \in Turns, TurnStep(t) PROVE OwnInv'
  <1> DEFINE r == turn[t].r
  <1>0. TypeOK /\ TypeOK' /\ r \in Turns
    BY TurnStepTyped DEF OwnInv, TypeOK, TurnType
  <1>1. ASSUME Used(t), Moves(t), UNCHANGED handles, NoChildGiven PROVE OwnInv'
    BY <1>0, <1>1, MovesEffect, OwnFrame
  <1>2. CASE \/ TurnBegin(t) \/ TurnBreak(t) \/ TurnLineError(t) \/ TurnResult(t)
             \/ TurnResultWrite(t) \/ TurnEof(t) \/ TurnFinal(t) \/ TurnWrite(t)
             \/ TurnTimeout(t) \/ TurnFail(t)
    <2>1. Used(t) /\ UNCHANGED <<handles, runner>>
      BY <1>2 DEF TurnBegin, TurnBreak, TurnLineError, TurnResult, TurnResultWrite, TurnEof,
         TurnFinal, TurnWrite, TurnTimeout, TurnFail, Used, TimedPcs
    <2>2. Moves(t)
      BY <1>2 DEF TurnBegin, TurnBreak, TurnLineError, TurnResult, TurnResultWrite, TurnEof,
         TurnFinal, TurnWrite, TurnTimeout, TurnFail, Moves, TurnPcs
    <2> QED
      BY <1>0, <1>1, <2>1, <2>2, RunnerEffect
  <1>3. CASE TurnStart(t) \/ TurnReaped(t) \/ TurnTimeoutKill(t)
    <2>1. Used(t) /\ UNCHANGED handles /\ Moves(t)
      BY <1>3 DEF TurnStart, TurnReaped, TurnTimeoutKill, Used, Moves, TurnPcs
    <2>2. \/ runner' = [runner EXCEPT ![r].cancelled = FALSE]
          \/ runner' = [runner EXCEPT ![r].pid = None]
          \/ runner' = [runner EXCEPT ![r].child = None]
      BY <1>3 DEF TurnStart, TurnReaped, TurnTimeoutKill
    <2> QED
      BY <1>0, <1>1, <2>1, <2>2, RunnerEffect
  <1>4. CASE TurnSpawn(t) \/ TurnStore(t)
    <2>1. Used(t) /\ UNCHANGED handles /\ Moves(t)
      BY <1>4 DEF TurnSpawn, TurnStore, Used, Moves, TurnPcs
    <2>2. \/ runner' = runner
          \/ runner' = [runner EXCEPT ![r].pid = t]
          \/ runner' = [runner EXCEPT ![r].child = t]
      BY <1>4 DEF TurnSpawn, TurnStore
    <2>3. ASSUME NEW q \in Turns
          PROVE  \/ runner'[q].child = runner[q].child /\ runner'[q].pid = runner[q].pid
                 \/ q = r /\ runner'[q].child = runner[q].child /\ runner'[q].pid = t
                 \/ q = r /\ runner'[q].child = t /\ runner'[q].pid = runner[q].pid
      <3> HIDE DEF r
      <3>1. CASE runner' = runner
        BY <3>1
      <3>2. CASE runner' = [runner EXCEPT ![r].pid = t]
        BY <1>0, <3>2 DEF TypeOK, RunnerType
      <3>3. CASE runner' = [runner EXCEPT ![r].child = t]
        BY <1>0, <3>3 DEF TypeOK, RunnerType
      <3> QED
        BY <2>2, <3>1, <3>2, <3>3
    <2>4. HandlesOwned' /\ TurnsOwned'
      BY <1>0, <2>1, MovesEffect, TurnsKept
    <2>5. WaitsOwned'
      BY <1>0, <2>1, MovesEffect DEF OwnInv, WaitsOwned, Used, TypeOK, TurnType
    <2>6. ChildrenOwned'
      <3> SUFFICES ASSUME NEW q \in Turns
                   PROVE  /\ runner'[q].child # None =>
                               Used(runner[q].child)' /\ (turn[runner[q].child].r)' = q
                          /\ runner'[q].pid # None =>
                               Used(runner[q].pid)' /\ (turn[runner[q].pid].r)' = q
        BY DEF ChildrenOwned
      <3>1. \A u \in Turns : turn'[u].r = turn[u].r /\ (Used(u)' <=> Used(u))
        BY <1>0, <2>1, MovesEffect DEF Used
      <3>2. /\ runner[q].child # None => /\ runner[q].child \in Turns /\ Used(runner[q].child)
                                         /\ turn[runner[q].child].r = q
            /\ runner[q].pid # None => /\ runner[q].pid \in Turns /\ Used(runner[q].pid)
                                       /\ turn[runner[q].pid].r = q
        BY <1>0 DEF OwnInv, ChildrenOwned, TypeOK, RunnerType
      <3> QED
        BY <2>1, <2>3, <3>1, <3>2 DEF Used
    <2> QED
      BY <1>0, <2>4, <2>5, <2>6 DEF OwnInv
  <1>5. CASE TurnReap(t)
    <2>1. /\ \A u \in Turns : /\ turn'[u].r = turn[u].r /\ turn'[u].s = turn[u].s
                              /\ turn'[u].pc = "unused" <=> turn[u].pc = "unused"
                              /\ u # t => turn'[u].waits = turn[u].waits
          /\ turn'[t].waits = runner[r].child
          /\ UNCHANGED handles
      BY <1>0, <1>5 DEF TurnReap, TypeOK, TurnType
    <2>2. NoChildGiven
      BY <1>0, <1>5, RunnerEffect DEF TurnReap
    <2>3. HandlesOwned' /\ TurnsOwned' /\ ChildrenOwned'
      BY <1>0, <2>1, <2>2, TurnsKept
    <2>4. WaitsOwned'
      <3> SUFFICES ASSUME NEW u \in Turns, turn'[u].waits # None
                   PROVE  Used(turn[u].waits)' /\ (turn[turn[u].waits].r)' = turn'[u].r
        BY DEF WaitsOwned
      <3>1. /\ turn'[u].waits \in Turns /\ Used(turn'[u].waits)
            /\ turn[turn'[u].waits].r = turn[u].r
        <4>1. CASE u = t
          BY <1>0, <2>1, <4>1 DEF OwnInv, ChildrenOwned, TypeOK, RunnerType
        <4>2. CASE u # t
          BY <1>0, <2>1, <4>2 DEF OwnInv, WaitsOwned, TypeOK, TurnType
        <4> QED
          BY <4>1, <4>2
      <3> QED
        BY <2>1, <3>1 DEF Used
    <2> QED
      BY <1>0, <2>3, <2>4 DEF OwnInv
  <1> QED
    BY <1>2, <1>3, <1>4, <1>5 DEF TurnStep

\* The daemon's own steps hand out nothing.
LEMMA DaemonStepOwn ==
    ASSUME OwnInv, TypeOK',
           \/ DrainStart \/ DrainStep \/ Crash \/ Restart \/ UNCHANGED vars
           \/ (\E t \in Turns : ProcExit(t)) \/ (\E s \in Sessions : Prune(s))
    PROVE  OwnInv'
  <1>0. TypeOK
    BY DEF OwnInv
  <1>1. CASE Halt
    <2>1. \A t \in Turns : /\ turn'[t].r = turn[t].r /\ turn'[t].s = turn[t].s
                           /\ turn'[t].pc = "unused" <=> turn[t].pc = "unused"
                           /\ turn'[t].waits \in {None, turn[t].waits}
      BY <1>0, <1>1 DEF Halt, TypeOK, TurnType
    <2>2. NoChildGiven
      BY <1>1 DEF Halt, NoChildGiven, NewRunner
    <2> QED
      BY <1>1, <2>1, <2>2, OwnFrame DEF Halt
  <1>2. CASE DrainStart
    BY <1>0, <1>2, OwnFrame, RunnerEffect DEF DrainStart
  <1>3. ASSUME NEW s \in Sessions, DrainFlag(s) \/ DrainKill(s) \/ DrainWrite(s) PROVE OwnInv'
    <2>1. UNCHANGED <<turn, handles>>
      BY <1>3 DEF DrainFlag, DrainKill, DrainWrite
    <2>2. \/ runner' = runner
          \/ runner' = Told(drain[s].r)
          \/ runner' = [runner EXCEPT ![drain[s].r].child = None, ![drain[s].r].pid = None]
      BY <1>3 DEF DrainFlag, DrainKill, DrainWrite
    <2>3. NoChildGiven
      BY <1>0, <2>2, RunnerEffect
    <2> QED
      BY <2>1, <2>3, OwnFrame
  <1>4. CASE \/ Restart \/ UNCHANGED vars
             \/ (\E t \in Turns : ProcExit(t)) \/ (\E s \in Sessions : Prune(s))
    <2>1. UNCHANGED <<turn, handles, runner>>
      BY <1>4 DEF Restart, vars, ProcExit, Prune
    <2> QED
      BY <1>0, <2>1, OwnFrame, RunnerEffect
  <1> QED
    BY <1>1, <1>2, <1>3, <1>4 DEF DrainStep, DrainEnd, Crash

\* No runner is in use at first.
LEMMA InitOwn == Init => OwnInv
  BY InitTyped DEF Init, OwnInv, HandlesOwned, TurnsOwned, ChildrenOwned, WaitsOwned, Used,
     NewRunner

(***************************************************************************)
(* Whatever requests, timeouts, crashes and drains interleave, the runner  *)
(* in the map for a session belongs to it, and every child that a runner   *)
(* holds, signals or waits for is one that it spawned: stop() and the turn *)
(* timeout of one session never kill the child of another.                 *)
(***************************************************************************)
THEOREM RunnersKeepToTheirSession == Spec => []ChildOwnership
  <1>2. OwnInv /\ [Next]_vars => OwnInv'
    <2> SUFFICES ASSUME OwnInv, [Next]_vars PROVE OwnInv'
      OBVIOUS
    <2>1. TypeOK'
      BY NextTyped DEF OwnInv
    <2> QED
      BY <2>1, CallStepOwn, SendSpawnOwn, TurnStepOwn, DaemonStepOwn DEF Next
  <1>3. OwnInv => ChildOwnership
    <2> SUFFICES ASSUME OwnInv PROVE ChildOwnership
      OBVIOUS
    <2>1. ASSUME NEW r \in Turns
          PROVE  \A t \in {runner[r].child, runner[r].pid} \ {None} : turn[t].r = r
      BY DEF OwnInv, ChildrenOwned
    <2>2. \A t \in Turns : turn[t].pc = "reaping" /\ turn[t].waits # None =>
              turn[turn[t].waits].r = turn[t].r
      BY DEF OwnInv, WaitsOwned
    <2>3. ASSUME NEW r \in Turns
          PROVE  /\ \A s \in Sessions : handles[s] = r => turn[r].s = s
                 /\ \A t \in Turns : turn[t].r = r => turn[t].s = turn[r].s
      BY SessionAssumption DEF OwnInv, HandlesOwned, TurnsOwned
    <2> QED
      BY <2>1, <2>2, <2>3 DEF ChildOwnership
  <1> QED
    BY <1>2, <1>3, InitOwn, PTL DEF Spec

-----------------------------------------------------------------------------
(***************************************************************************)
(* What a turn's step and the spawn of a turn do                           *)
(***************************************************************************)

\* What a turn does: it goes on alone, and neither its session nor its runner
\* changes.
LEMMA TurnStepEffect ==
    ASSUME TypeOK, NEW t \in Turns, TurnStep(t)
    PROVE  /\ UNCHANGED <<daemon, handles, call, drain>>
           /\ Active(t) /\ turn'[t].pc # "unused"
           /\ turn'[t].s = turn[t].s /\ turn'[t].r = turn[t].r
           /\ \A u \in Turns : u # t => turn'[u] = turn[u]
  <1>1. CASE TurnReap(t)
    BY <1>1 DEF TurnReap, TypeOK, TurnType, Active
  <1>2. CASE ~TurnReap(t)
    <2>1. UNCHANGED <<daemon, handles, call, drain>> /\ Active(t)
      BY <1>2 DEF TurnStep, TurnStart, TurnSpawn, TurnStore, TurnBegin, TurnBreak,
         TurnLineError, TurnResult, TurnResultWrite, TurnEof, TurnReaped, TurnFinal, TurnWrite,
         TurnTimeout, TurnTimeoutKill, TurnFail, Active, TimedPcs
    <2>2. Moves(t)
      BY <1>2 DEF TurnStep, TurnStart, TurnSpawn, TurnStore, TurnBegin, TurnBreak,
         TurnLineError, TurnResult, TurnResultWrite, TurnEof, TurnReaped, TurnFinal, TurnWrite,
         TurnTimeout, TurnTimeoutKill, TurnFail, Moves, TurnPcs
    <2>3. PICK pc \in TurnPcs \ {"unused"} :
              \/ turn' = [turn EXCEPT ![t].pc = pc]
              \/ turn' = [turn EXCEPT ![t].pc = pc, ![t].waits = None]
              \/ turn' = [turn EXCEPT ![t].pc = pc, ![t].got = TRUE]
      BY <2>2 DEF Moves, Step
    <2>4. CASE turn' = [turn EXCEPT ![t].pc = pc]
      BY <2>1, <2>4 DEF TypeOK, TurnType
    <2>5. CASE turn' = [turn EXCEPT ![t].pc = pc, ![t].waits = None]
      BY <2>1, <2>5 DEF TypeOK, TurnType
    <2>6. CASE turn' = [turn EXCEPT ![t].pc = pc, ![t].got = TRUE]
      BY <2>1, <2>6 DEF TypeOK, TurnType
    <2> QED
      BY <2>3, <2>4, <2>5, <2>6
  <1> QED
    BY <1>1, <1>2

\* The spawn of a turn: the session's runner, or a new one, runs it.
LEMMA SendSpawnEffect ==
    ASSUME TypeOK, NEW c \in Calls, SendSpawn(c)
    PROVE  /\ UNCHANGED <<daemon, status, drain>>
           /\ call[c].pc = "spawn" /\ call'[c].pc = "ready"
           /\ \A d \in Calls : d # c => call'[d] = call[d]
           /\ \E t \in Turns :
                 /\ turn[t].pc = "unused"
                 /\ turn'[t].pc = "start" /\ turn'[t].s = call[c].s /\ turn'[t].got = FALSE
                 /\ turn'[t].r = IF handles[call[c].s] = None THEN t ELSE handles[call[c].s]
                 /\ \A u \in Turns : u # t => turn'[u] = turn[u]
                 /\ handles' = [handles EXCEPT ![call[c].s] = turn'[t].r]
                 /\ \A q \in Turns : q # t => runner'[q] = runner[q]
  <1>1. PICK t \in Turns :
          LET r == IF handles[call[c].s] = None THEN t ELSE handles[call[c].s] IN
          /\ turn[t].pc = "unused"
          /\ handles' = [handles EXCEPT ![call[c].s] = r]
          /\ turn' = [turn EXCEPT ![t] = [pc |-> "start", s |-> call[c].s, r |-> r,
                                           got |-> FALSE, waits |-> None]]
          /\ \/ runner' = [runner EXCEPT ![t] = NewRunner(call[c].prov)]
             \/ runner' = [runner EXCEPT ![t] = @]
    BY DEF SendSpawn
  <1>2. \A q \in Turns : q # t => runner'[q] = runner[q]
    BY <1>1 DEF TypeOK
  <1>3. /\ turn'[t].pc = "start" /\ turn'[t].s = call[c].s /\ turn'[t].got = FALSE
        /\ turn'[t].r = IF handles[call[c].s] = None THEN t ELSE handles[call[c].s]
        /\ \A u \in Turns : u # t => turn'[u] = turn[u]
    BY <1>1 DEF TypeOK
  <1>4. handles' = [handles EXCEPT ![call[c].s] = turn'[t].r]
    BY <1>1, <1>3
  <1>5. /\ UNCHANGED <<daemon, status, drain>>
        /\ call[c].pc = "spawn" /\ call'[c].pc = "ready"
        /\ \A d \in Calls : d # c => call'[d] = call[d]
    BY ReturnEffect DEF SendSpawn
  <1>6. turn[t].pc = "unused"
    BY <1>1
  <1> QED
    BY <1>2, <1>3, <1>4, <1>5, <1>6

-----------------------------------------------------------------------------
(***************************************************************************)
(* No turn is lost                                                         *)
(*                                                                         *)
(* send_message looks the runner up, or puts a new one in, before it       *)
(* spawns the turn.  What takes runners out again is cancel and delete,    *)
(* which raise `cancelled` while they still hold the lock on the map,      *)
(* drain, which remembers what it took and stops one after the other, and  *)
(* set_provider, which stops nothing.  Without set_provider a turn's       *)
(* runner is in the map, was stopped, or is about to be, however sends,    *)
(* resumes, cancels, deletes, the drain and late turns overlap.            *)
(***************************************************************************)
DropDiscipline == "setProvider" \notin Ops

Found(t) ==
    \/ handles[turn[t].s] = turn[t].r
    \/ runner[turn[t].r].stopped
    \/ drain[turn[t].s].pc = "stop" /\ drain[turn[t].s].r = turn[t].r

InMap == \A t \in Turns : Active(t) => Found(t)

NothingDropped == \A c \in Calls : call[c].pc \notin {"setDrop", "setWrite"}

\* There is nothing left of a drain, or nothing yet, outside it.
DrainsAlone == daemon # "draining" => \A s \in Sessions : drain[s].pc = "none"

MapInv == OwnInv /\ NothingDropped /\ DrainsAlone /\ InMap

StaysStopped == \A q \in Turns : runner[q].stopped => runner'[q].stopped

\* A runner that was stopped stays so, whichever flag or child changes.
LEMMA StoppedKept ==
    ASSUME TypeOK, NEW r,
           \/ runner' = runner
           \/ \E b \in BOOLEAN : runner' = [runner EXCEPT ![r].cancelled = b]
           \/ \E b \in BOOLEAN : runner' = [runner EXCEPT ![r].paused = b]
           \/ \E t : runner' = [runner EXCEPT ![r].child = t]
           \/ \E t : runner' = [runner EXCEPT ![r].pid = t]
           \/ runner' = [runner EXCEPT ![r].child = None, ![r].pid = None]
           \/ runner' = Told(r)
    PROVE  StaysStopped
  <1> SUFFICES ASSUME NEW q \in Turns, runner[q].stopped PROVE runner'[q].stopped
    BY DEF StaysStopped
  <1>1. ASSUME NEW b, runner' = [runner EXCEPT ![r].cancelled = b] PROVE runner'[q].stopped
    BY <1>1 DEF TypeOK, RunnerType
  <1>2. ASSUME NEW b, runner' = [runner EXCEPT ![r].paused = b] PROVE runner'[q].stopped
    BY <1>2 DEF TypeOK, RunnerType
  <1>3. ASSUME NEW t, runner' = [runner EXCEPT ![r].child = t] PROVE runner'[q].stopped
    BY <1>3 DEF TypeOK, RunnerType
  <1>4. ASSUME NEW t, runner' = [runner EXCEPT ![r].pid = t] PROVE runner'[q].stopped
    BY <1>4 DEF TypeOK, RunnerType
  <1>5. CASE runner' = [runner EXCEPT ![r].child = None, ![r].pid = None]
    BY <1>5 DEF TypeOK, RunnerType
  <1>6. CASE runner' = Told(r)
    BY <1>6, ToldEffect DEF TypeOK
  <1> QED
    BY <1>1, <1>2, <1>3, <1>4, <1>5, <1>6

\* A step that starts no turn and leaves map and drain alone loses none.
LEMMA InMapFrame ==
    ASSUME InMap, StaysStopped, UNCHANGED <<handles, drain>>,
           \A t \in Turns : Active(t)' => /\ Active(t) /\ turn[t].r \in Turns
                                          /\ turn'[t].s = turn[t].s
                                          /\ turn'[t].r = turn[t].r
    PROVE  InMap'
  BY DEF InMap, StaysStopped, Found

\* cancel and delete: who is taken out of the map is told.
LEMMA StopFlagMapped ==
    ASSUME TypeOK, InMap, NEW c \in Calls, NEW pc, NEW killPc, NEW donePc,
           StopFlag(c, pc, killPc, donePc)
    PROVE  InMap'
  <1> DEFINE s == call[c].s
             r == handles[s]
  <1>1. CASE r = None
    <2>1. UNCHANGED <<handles, runner, turn, drain>>
      BY <1>1 DEF StopFlag
    <2> QED
      BY <2>1 DEF InMap, Found, Active
  <1>2. CASE r # None
    <2>1. /\ handles' = [handles EXCEPT ![s] = None] /\ runner' = Told(r)
          /\ UNCHANGED <<turn, drain>>
      BY <1>2 DEF StopFlag
    <2>2. SUFFICES ASSUME NEW t \in Turns, Active(t) PROVE Found(t)'
      BY <2>1 DEF InMap, Active
    <2>3. Found(t) /\ turn[t].s \in Sessions /\ turn[t].r \in Turns /\ s \in Sessions
      BY <2>2 DEF InMap, TypeOK, TurnType, CallType
    <2>4. CASE turn[t].s = s /\ r = turn[t].r
      BY <2>1, <2>3, <2>4, ToldEffect DEF Found, TypeOK
    <2>5. CASE ~(turn[t].s = s /\ r = turn[t].r)
      <3>1. handles[turn[t].s] = turn[t].r => handles'[turn[t].s] = turn[t].r
        BY <2>1, <2>3, <2>5 DEF TypeOK
      <3>2. StaysStopped
        BY <2>1, StoppedKept
      <3> QED
        BY <2>1, <2>3, <3>1, <3>2 DEF Found, StaysStopped
    <2> QED
      BY <2>4, <2>5
  <1> QED
    BY <1>1, <1>2

\* The spawn: the turn's runner goes into the map, if it was not there.
LEMMA SendSpawnMapped ==
    ASSUME OwnInv, InMap, NEW c \in Calls, SendSpawn(c)
    PROVE  InMap'
  <1> DEFINE s == call[c].s
  <1>0. TypeOK /\ s \in Sessions
    BY DEF OwnInv, TypeOK, CallType
  <1>1. PICK t \in Turns :
            /\ turn[t].pc = "unused" /\ turn'[t].s = s
            /\ turn'[t].r = IF handles[s] = None THEN t ELSE handles[s]
            /\ \A u \in Turns : u # t => turn'[u] = turn[u]
            /\ handles' = [handles EXCEPT ![s] = turn'[t].r]
            /\ \A q \in Turns : q # t => runner'[q] = runner[q]
    BY <1>0, SendSpawnEffect
  <1>2. UNCHANGED drain
    BY <1>0, SendSpawnEffect
  <1> SUFFICES ASSUME NEW u \in Turns, Active(u)' PROVE Found(u)'
    BY DEF InMap
  <1>3. CASE u = t
    BY <1>0, <1>1, <1>3 DEF Found, TypeOK
  <1>4. CASE u # t
    <2>1. /\ turn'[u] = turn[u] /\ Active(u) /\ Found(u)
          /\ turn[u].s \in Sessions /\ turn[u].r \in Turns
      BY <1>0, <1>1, <1>4 DEF Active, TypeOK, TurnType, InMap
    <2>2. turn[u].r # t
      BY <1>1, <2>1 DEF OwnInv, TurnsOwned, Used, Active
    <2>3. handles[turn[u].s] = turn[u].r => handles'[turn[u].s] = turn[u].r
      BY <1>0, <1>1, <2>1, SessionAssumption DEF TypeOK
    <2> QED
      BY <1>1, <1>2, <2>1, <2>2, <2>3 DEF Found
  <1> QED
    BY <1>3, <1>4

\* A request never gets to set_provider, and starts or ends no drain.
LEMMA CallStepDropsNot ==
    ASSUME DropDiscipline, MapInv, NEW c \in Calls, NewRequest(c) \/ CallStep(c)
    PROVE  NothingDropped' /\ DrainsAlone'
  <1>0. TypeOK /\ NothingDropped /\ DrainsAlone
    BY DEF MapInv, OwnInv
  <1>1. CASE NewRequest(c)
    BY <1>0, <1>1, NewRequestEffect DEF NothingDropped, DrainsAlone, DropDiscipline
  <1>2. CASE SendSpawn(c)
    <2>1. /\ UNCHANGED <<daemon, drain>> /\ call'[c].pc = "ready"
          /\ \A d \in Calls : d # c => call'[d] = call[d]
      BY <1>0, <1>2, SendSpawnEffect
    <2> QED
      BY <1>0, <2>1 DEF NothingDropped, DrainsAlone
  <1>3. CASE CallStep(c) /\ ~SendSpawn(c)
    <2>1. UNCHANGED <<daemon, drain>>
      BY <1>0, <1>3 DEF CallStep, CreateInsert, SendClaim, SendRecord,
         PauseWrite, PauseSignal, ResumeCheck, ResumeWrite, ResumeSignal, CancelStop,
         CancelKill, CancelWrite, DeleteStop, DeleteKill, DeleteRow, SetDrop, SetWrite,
         StopFlag, StopKill
    <2>2. \/ Return(c)
          \/ \E pc \in CallPcs \ {"setDrop", "setWrite"} :
                \/ Goto(c, pc)
                \/ \E x : call' = [call EXCEPT ![c].pc = pc, ![c].r = x]
                \/ \E x : call' = [call EXCEPT ![c].pc = pc, ![c].next = x]
      <3>1. CASE CancelStop(c) \/ DeleteStop(c) \/ CancelKill(c) \/ DeleteKill(c)
        BY <3>1 DEF CancelStop, DeleteStop, CancelKill, DeleteKill, StopFlag, StopKill, CallPcs
      <3>2. CASE ~(CancelStop(c) \/ DeleteStop(c) \/ CancelKill(c) \/ DeleteKill(c))
        BY <1>0, <1>3, <3>2 DEF NothingDropped, CallStep, CreateInsert, SendClaim, SendRecord,
           PauseWrite, PauseSignal, ResumeCheck, ResumeWrite, ResumeSignal, CancelWrite,
           DeleteRow, SetDrop, SetWrite, CallPcs
      <3> QED
        BY <3>1, <3>2
    <2>3. /\ \A d \in Calls : d # c => call'[d] = call[d]
          /\ call'[c].pc \notin {"setDrop", "setWrite"}
      <3>1. CASE Return(c)
        BY <1>0, <3>1, ReturnEffect
      <3>2. ASSUME NEW pc \in CallPcs \ {"setDrop", "setWrite"},
                   \/ Goto(c, pc)
                   \/ \E x : call' = [call EXCEPT ![c].pc = pc, ![c].r = x]
                   \/ \E x : call' = [call EXCEPT ![c].pc = pc, ![c].next = x]
            PROVE  /\ \A d \in Calls : d # c => call'[d] = call[d]
                   /\ call'[c].pc = pc
        BY <1>0, <3>2 DEF Goto, TypeOK, CallType
      <3> QED
        BY <2>2, <3>1, <3>2
    <2> QED
      BY <1>0, <2>1, <2>3 DEF NothingDropped, DrainsAlone
  <1> QED
    BY <1>1, <1>2, <1>3

\* Steps of requests.
LEMMA CallStepMapped ==
    ASSUME MapInv, NEW c \in Calls, NewRequest(c) \/ CallStep(c)
    PROVE  InMap'
  <1>0. TypeOK /\ OwnInv /\ NothingDropped /\ InMap
    BY DEF MapInv, OwnInv
  <1>1. CASE SendSpawn(c)
    BY <1>0, <1>1, SendSpawnMapped
  <1>2. CASE CancelStop(c) \/ DeleteStop(c)
    BY <1>0, <1>2, StopFlagMapped DEF CancelStop, DeleteStop
  <1>3. CASE NewRequest(c)
    <2>1. UNCHANGED <<handles, runner, turn, drain>>
      BY <1>0, <1>3, NewRequestEffect
    <2> QED
      BY <1>0, <2>1 DEF InMap, Found, Active
  <1>4. CASE CallStep(c) /\ ~(SendSpawn(c) \/ CancelStop(c) \/ DeleteStop(c))
    <2>1. UNCHANGED <<handles, turn, drain>>
      BY <1>0, <1>4 DEF NothingDropped, CallStep, CreateInsert, SendClaim, SendRecord,
         PauseWrite, PauseSignal, ResumeCheck, ResumeWrite, ResumeSignal,
         CancelKill, CancelWrite, DeleteKill, DeleteRow, SetDrop, SetWrite, StopKill
    <2>2. PICK r : \/ runner' = runner
                   \/ \E b \in BOOLEAN : runner' = [runner EXCEPT ![r].paused = b]
                   \/ runner' = [runner EXCEPT ![r].child = None, ![r].pid = None]
      BY <1>0, <1>4 DEF CallStep, CreateInsert, SendClaim, SendRecord,
         PauseWrite, PauseSignal, ResumeCheck, ResumeWrite, ResumeSignal,
         CancelKill, CancelWrite, DeleteKill, DeleteRow, SetDrop, SetWrite, StopKill
    <2>3. StaysStopped
      BY <1>0, <2>2, StoppedKept
    <2> QED
      BY <1>0, <2>1, <2>3, InMapFrame DEF TypeOK, TurnType, Active
  <1> QED
    BY <1>1, <1>2, <1>3, <1>4

\* Steps of turns.
LEMMA TurnStepMapped ==
    ASSUME MapInv, NEW t \in Turns, TurnStep(t)
    PROVE  NothingDropped' /\ DrainsAlone' /\ InMap'
  <1>0. TypeOK /\ NothingDropped /\ DrainsAlone /\ InMap
    BY DEF MapInv, OwnInv
  <1>1. /\ UNCHANGED <<daemon, handles, call, drain>>
        /\ Active(t)
        /\ turn'[t].s = turn[t].s /\ turn'[t].r = turn[t].r
        /\ \A u \in Turns : u # t => turn'[u] = turn[u]
    BY <1>0, TurnStepEffect
  <1>2. PICK r : \/ runner' = runner
                 \/ runner' = [runner EXCEPT ![r].cancelled = FALSE]
                 \/ \E x : runner' = [runner EXCEPT ![r].child = x]
                 \/ \E x : runner' = [runner EXCEPT ![r].pid = x]
    BY DEF TurnStep, TurnStart, TurnSpawn, TurnStore, TurnBegin, TurnBreak,
       TurnLineError, TurnResult, TurnResultWrite, TurnEof, TurnReap, TurnReaped, TurnFinal,
       TurnWrite, TurnTimeout, TurnTimeoutKill, TurnFail
  <1>3. StaysStopped
    BY <1>0, <1>2, StoppedKept
  <1>4. InMap'
    BY <1>0, <1>1, <1>3, InMapFrame DEF TypeOK, TurnType, Active
  <1> QED
    BY <1>0, <1>1, <1>4 DEF NothingDropped, DrainsAlone

\* The drain takes what it remembers, and stops it before it forgets it.
LEMMA DrainMapped ==
    ASSUME MapInv, DrainStart \/ DrainStep
    PROVE  NothingDropped' /\ DrainsAlone' /\ InMap'
  <1>0. TypeOK /\ NothingDropped /\ DrainsAlone /\ InMap
    BY DEF MapInv, OwnInv
  <1>1. CASE DrainStart
    <2>1. /\ daemon = "up" /\ daemon' = "draining" /\ UNCHANGED <<runner, turn, call>>
          /\ \A s \in Sessions : handles[s] # None =>
                 drain'[s].pc = "stop" /\ drain'[s].r = handles[s]
      BY <1>1 DEF DrainStart
    <2>2. SUFFICES ASSUME NEW t \in Turns, Active(t) PROVE Found(t)'
      BY <1>0, <2>1 DEF InMap, Active, NothingDropped, DrainsAlone
    <2>3. Found(t) /\ turn[t].s \in Sessions /\ turn[t].r \in Turns
      BY <1>0, <2>2 DEF InMap, TypeOK, TurnType
    <2> QED
      BY <1>0, <2>1, <2>3, SessionAssumption DEF Found, DrainsAlone
  <1>2. CASE DrainEnd
    BY <1>0, <1>2, HaltEffect DEF DrainEnd, NothingDropped, DrainsAlone, InMap, Active
  <1>3. ASSUME NEW s \in Sessions, DrainFlag(s) \/ DrainKill(s) \/ DrainWrite(s)
        PROVE  NothingDropped' /\ DrainsAlone' /\ InMap'
    <2>1. /\ UNCHANGED <<daemon, turn, handles, call>>
          /\ \A q \in Sessions : q # s => drain'[q] = drain[q]
          /\ drain[s].pc # "none"
      BY <1>0, <1>3 DEF DrainFlag, DrainKill, DrainWrite, TypeOK
    <2>2. \/ runner' = Told(drain[s].r)
          \/ /\ drain[s].pc # "stop"
             /\ \/ runner' = runner
                \/ runner' = [runner EXCEPT ![drain[s].r].child = None, ![drain[s].r].pid = None]
      BY <1>3 DEF DrainFlag, DrainKill, DrainWrite
    <2>3. StaysStopped
      BY <1>0, <2>2, StoppedKept
    <2>4. InMap'
      <3> SUFFICES ASSUME NEW t \in Turns, Active(t) PROVE Found(t)'
        BY <2>1 DEF InMap, Active
      <3>1. Found(t) /\ turn[t].s \in Sessions /\ turn[t].r \in Turns
        BY <1>0 DEF InMap, TypeOK, TurnType
      <3>2. CASE turn[t].s = s /\ drain[s].pc = "stop" /\ drain[s].r = turn[t].r
        <4>1. runner'[turn[t].r].stopped
          BY <1>0, <2>2, <3>1, <3>2, ToldEffect DEF TypeOK
        <4> QED
          BY <2>1, <4>1 DEF Found
      <3>3. CASE ~(turn[t].s = s /\ drain[s].pc = "stop" /\ drain[s].r = turn[t].r)
        BY <2>1, <2>3, <3>1, <3>3 DEF Found, StaysStopped
      <3> QED
        BY <3>2, <3>3
    <2> QED
      BY <1>0, <2>1, <2>4 DEF NothingDropped, DrainsAlone
  <1> QED
    BY <1>1, <1>2, <1>3 DEF DrainStep

(***************************************************************************)
(* Whatever requests, turns, drains, crashes and restarts overlap, the     *)
(* runner of a turn that has not ended is in the handles map, or was       *)
(* stopped, or is one the drain is about to stop: for any number of        *)
(* connections, sessions and turns and any provider, with every operation  *)
(* but set_provider, which drops a runner without stopping it.             *)
(***************************************************************************)
THEOREM TurnsStayReachable == ASSUME DropDiscipline PROVE Spec => []TurnReachable
  <1>1. Init => MapInv
    BY InitOwn DEF Init, MapInv, NothingDropped, DrainsAlone, InMap, Active, ReadyCall,
       NotDraining
  <1>2. MapInv /\ [Next]_vars => MapInv'
    <2> SUFFICES ASSUME MapInv, [Next]_vars PROVE MapInv'
      OBVIOUS
    <2>0. TypeOK /\ TypeOK' /\ NothingDropped /\ DrainsAlone /\ InMap
      BY NextTyped DEF MapInv, OwnInv
    <2>1. OwnInv'
      BY <2>0, CallStepOwn, SendSpawnOwn, TurnStepOwn, DaemonStepOwn DEF Next, MapInv
    <2>2. ASSUME NEW c \in Calls, NewRequest(c) \/ CallStep(c) PROVE MapInv'
      BY <2>1, <2>2, CallStepMapped, CallStepDropsNot DEF MapInv
    <2>3. ASSUME NEW t \in Turns, TurnStep(t) PROVE MapInv'
      BY <2>1, <2>3, TurnStepMapped DEF MapInv
    <2>4. CASE DrainStart \/ DrainStep
      BY <2>1, <2>4, DrainMapped DEF MapInv
    <2>5. CASE \/ Restart \/ UNCHANGED vars
               \/ (\E t \in Turns : ProcExit(t)) \/ (\E s \in Sessions : Prune(s))
      <3>1. UNCHANGED <<turn, handles, runner, call, drain>>
            /\ (daemon' # "draining" => daemon # "draining")
        BY <2>0, <2>5 DEF Restart, vars, ProcExit, Prune
      <3> QED
        BY <2>0, <2>1, <3>1 DEF MapInv, NothingDropped, DrainsAlone, InMap, Active, Found
    <2>6. CASE Crash
      BY <2>0, <2>1, <2>6, HaltEffect DEF Crash, MapInv, NothingDropped, DrainsAlone, InMap,
         Active
    <2> QED
      BY <2>2, <2>3, <2>4, <2>5, <2>6 DEF Next
  <1>3. MapInv => TurnReachable
    BY DEF MapInv, InMap, Found, TurnReachable, Active
  <1> QED
    BY <1>1, <1>2, <1>3, PTL DEF Spec

-----------------------------------------------------------------------------
(***************************************************************************)
(* A running session is looked after                                       *)
(*                                                                         *)
(* A claimed session stays "running" until its turn, or a delete that has  *)
(* stopped the turn, writes the status again.  A turn that finds itself    *)
(* cancelled ends without writing, so the argument needs that whoever      *)
(* raised `cancelled` still has its own write to make, or has made it.     *)
(* With cancel or drain a session can be left "running" with nobody to     *)
(* move it on (their "idle" comes before the "running" of a turn that then *)
(* ends silently), and with resume too (a session paused while it was idle *)
(* becomes "running").                                                     *)
(***************************************************************************)
MoverDiscipline == Ops \cap {"resume", "cancel", "drain"} = {}

\* What MoverDiscipline rules out never begins; a turn starts without a Result;
\* and a session that is being deleted has existed.
Orderly ==
    /\ daemon # "draining" /\ \A s \in Sessions : drain[s].pc = "none"
    /\ \A c \in Calls : call[c].pc \notin {"resumeCheck", "resumeWrite", "resumeSignal",
                                          "cancelStop", "cancelKill", "cancelWrite"}
    /\ \A t \in Turns : turn[t].pc \in {"start", "spawn", "store", "begin"} => ~turn[t].got
    /\ \A c \in Calls : call[c].pc \in {"deleteStop", "deleteKill", "deleteRow"} =>
           status[call[c].s] # "absent"

\* The turn has cleared `cancelled` and is not done.
Underway(t) == turn[t].pc \notin {"unused", "done", "start"}

\* The request that cancelled a turn has the session deleted, or will.
StopsPending ==
    \A t \in Turns : Underway(t) /\ Cancelled(t) =>
        \/ status[turn[t].s] = "deleted"
        \/ \E c \in Calls : Stopping(c) /\ call[c].s = turn[t].s

\* Somebody is going to write the session's status: a turn that has not
\* reported, a send_message that holds the claim, or a delete.
HasMover(s) ==
    \/ \E t \in Turns : Unfinished(t) /\ turn[t].s = s
    \/ \E c \in Calls : (Claimed(c) \/ Stopping(c)) /\ call[c].s = s

RunningMoves == \A s \in Sessions : daemon # "down" /\ status[s] = "running" => HasMover(s)

MoverInv == OwnInv /\ Orderly /\ StopsPending /\ RunningMoves

\* A row once inserted is never absent again, and a deleted one stays deleted.
StatusGrows ==
    \A s \in Sessions : /\ status[s] # "absent" => status'[s] # "absent"
                        /\ status[s] = "deleted" => status'[s] = "deleted"

\* An UPDATE does not bring a row back.
LEMMA UpdateStatusGrows ==
    ASSUME TypeOK, NEW s \in Sessions, NEW v, v # "absent", UpdateStatus(s, v)
    PROVE  StatusGrows
  <1>1. status[s] = "deleted" => ~Exists(s)
    BY DEF Exists
  <1> QED
    BY <1>1, UpdateStatusEffect DEF StatusGrows

\* No step does.
LEMMA NextStatusGrows == TypeOK /\ [Next]_vars => StatusGrows
  <1> SUFFICES ASSUME TypeOK, [Next]_vars PROVE StatusGrows
    OBVIOUS
  <1>1. CASE UNCHANGED status
    BY <1>1 DEF StatusGrows
  <1>2. ASSUME NEW c \in Calls, CallStep(c), status' # status PROVE StatusGrows
    <2>0. call[c].s \in Sessions /\ call[c].next # "absent"
      BY DEF TypeOK, CallType
    <2>1. CASE CreateInsert(c)
      BY <2>1 DEF CreateInsert, StatusGrows, TypeOK
    <2>2. CASE SendClaim(c)
      BY <2>0, <2>2 DEF SendClaim, StatusGrows, TypeOK
    <2>3. CASE PauseWrite(c) \/ ResumeWrite(c) \/ CancelWrite(c) \/ DeleteRow(c)
      BY <2>0, <2>3, UpdateStatusGrows DEF PauseWrite, ResumeWrite, CancelWrite, DeleteRow
    <2>4. \/ CreateInsert(c) \/ SendClaim(c) \/ PauseWrite(c) \/ ResumeWrite(c)
          \/ CancelWrite(c) \/ DeleteRow(c)
      BY <1>2 DEF CallStep, SendRecord, SendSpawn, PauseSignal, ResumeCheck, ResumeSignal,
         CancelStop, CancelKill, DeleteStop, DeleteKill, SetDrop, SetWrite, StopFlag, StopKill
    <2> QED
      BY <2>1, <2>2, <2>3, <2>4
  <1>3. ASSUME NEW t \in Turns, TurnStep(t), status' # status PROVE StatusGrows
    <2>0. turn[t].s \in Sessions
      BY DEF TypeOK, TurnType
    <2>1. \E v \in {"running", "idle", "error"} : UpdateStatus(turn[t].s, v)
      BY <1>3 DEF TurnStep, TurnStart, TurnSpawn, TurnStore, TurnBegin, TurnBreak,
         TurnLineError, TurnResult, TurnResultWrite, TurnEof, TurnReap, TurnReaped, TurnFinal,
         TurnWrite, TurnTimeout, TurnTimeoutKill, TurnFail
    <2> QED
      BY <2>0, <2>1, UpdateStatusGrows
  <1>4. ASSUME NEW s \in Sessions, Prune(s) \/ DrainWrite(s) PROVE StatusGrows
    <2>1. CASE Prune(s)
      BY <2>1 DEF Prune, StatusGrows, TypeOK
    <2>2. CASE DrainWrite(s)
      BY <2>2, UpdateStatusGrows DEF DrainWrite
    <2> QED
      BY <1>4, <2>1, <2>2
  <1>5. CASE Restart
    BY <1>5 DEF Restart, StatusGrows
  <1>6. ASSUME NEW c \in Calls, NewRequest(c) PROVE UNCHANGED status
    BY <1>6, NewRequestEffect
  <1>7. DrainStart \/ DrainEnd \/ Crash \/ UNCHANGED vars => UNCHANGED status
    BY DEF DrainStart, DrainEnd, Crash, Halt, vars
  <1>8. \A s \in Sessions : DrainFlag(s) \/ DrainKill(s) => UNCHANGED status
    BY DEF DrainFlag, DrainKill
  <1>9. \A t \in Turns : ProcExit(t) => UNCHANGED status
    BY DEF ProcExit
  <1> QED
    BY <1>1, <1>2, <1>3, <1>4, <1>5, <1>6, <1>7, <1>8, <1>9 DEF Next, DrainStep

\* StopsPending survives a step that cancels no turn and ends no stop short of
\* the deletion.
LEMMA StopsPendingKept ==
    ASSUME TypeOK, StopsPending, StatusGrows,
           \A t \in Turns : (Underway(t) /\ Cancelled(t))' =>
               Underway(t) /\ Cancelled(t) /\ turn'[t].s = turn[t].s,
           \A c \in Calls : Stopping(c) => \/ Stopping(c)' /\ call'[c].s = call[c].s
                                           \/ status'[call[c].s] = "deleted"
    PROVE  StopsPending'
  <1> SUFFICES ASSUME NEW t \in Turns, (Underway(t) /\ Cancelled(t))'
               PROVE  \/ status'[turn'[t].s] = "deleted"
                      \/ \E c \in Calls : Stopping(c)' /\ call'[c].s = turn'[t].s
    BY DEF StopsPending
  <1>1. Underway(t) /\ Cancelled(t) /\ turn'[t].s = turn[t].s /\ turn[t].s \in Sessions
    BY DEF TypeOK, TurnType
  <1>2. CASE status[turn[t].s] = "deleted"
    BY <1>1, <1>2 DEF StatusGrows
  <1>3. CASE \E c \in Calls : Stopping(c) /\ call[c].s = turn[t].s
    BY <1>1, <1>3
  <1> QED
    BY <1>1, <1>2, <1>3 DEF StopsPending

\* RunningMoves survives a step that marks no session running and that no turn
\* or request leaves without a write.
LEMMA RunningMovesKept ==
    ASSUME RunningMoves,
           daemon' # "down" => daemon # "down",
           \A s \in Sessions : daemon' # "down" /\ status'[s] = "running" =>
               /\ status[s] = "running" \/ HasMover(s)'
               /\ \A t \in Turns : Unfinished(t) /\ turn[t].s = s =>
                      (Unfinished(t)' /\ turn'[t].s = s) \/ HasMover(s)'
               /\ \A c \in Calls : (Claimed(c) \/ Stopping(c)) /\ call[c].s = s =>
                      ((Claimed(c) \/ Stopping(c))' /\ call'[c].s = s) \/ HasMover(s)'
    PROVE  RunningMoves'
  <1> SUFFICES ASSUME NEW s \in Sessions, daemon' # "down", status'[s] = "running"
               PROVE  HasMover(s)'
    BY DEF RunningMoves
  <1>1. CASE HasMover(s)
    BY <1>1 DEF HasMover
  <1> QED
    BY <1>1 DEF RunningMoves

\* A session is running in a step's result only if it was before, unless the
\* step claims it or writes "running".
StaysRunning == \A s \in Sessions : status'[s] = "running" => status[s] = "running"

\* A step of a request that moves only that request, cancels nothing, marks no
\* session running and leaves no session it was to move.
LEMMA QuietMover ==
    ASSUME MoverInv, OwnInv', StatusGrows, StaysRunning, NEW c \in Calls,
           UNCHANGED <<daemon, turn, drain>>,
           \A t \in Turns : runner'[t].cancelled => runner[t].cancelled,
           \A d \in Calls : d # c => call'[d] = call[d],
           call'[c].pc \notin {"resumeCheck", "resumeWrite", "resumeSignal",
                               "cancelStop", "cancelKill", "cancelWrite"},
           call'[c].pc \in {"deleteStop", "deleteKill", "deleteRow"} =>
               status'[call'[c].s] # "absent",
           Claimed(c) =>
               \/ Claimed(c)' /\ call'[c].s = call[c].s
               \/ status'[call[c].s] # "running",
           Stopping(c) =>
               \/ Stopping(c)' /\ call'[c].s = call[c].s
               \/ status'[call[c].s] = "deleted"
    PROVE  MoverInv'
  <1>0. /\ TypeOK /\ TypeOK' /\ Orderly /\ StopsPending /\ RunningMoves
        /\ \A d \in Calls : call[d].s \in Sessions
    BY DEF MoverInv, OwnInv, TypeOK, CallType
  <1>1. Orderly'
    <2>1. \A d \in Calls : call'[d].pc \in {"deleteStop", "deleteKill", "deleteRow"} =>
              status'[call'[d].s] # "absent"
      BY <1>0 DEF Orderly, StatusGrows
    <2> QED
      BY <1>0, <2>1 DEF Orderly
  <1>2. StopsPending'
    <2>1. \A t \in Turns : (Underway(t) /\ Cancelled(t))' =>
              Underway(t) /\ Cancelled(t) /\ turn'[t].s = turn[t].s
      BY <1>0 DEF Underway, Cancelled, TypeOK, TurnType
    <2>2. \A d \in Calls : Stopping(d) => \/ Stopping(d)' /\ call'[d].s = call[d].s
                                          \/ status'[call[d].s] = "deleted"
      BY DEF Stopping
    <2> QED
      BY <1>0, <2>1, <2>2, StopsPendingKept
  <1>3. RunningMoves'
    <2>1. \A d \in Calls : Claimed(d) \/ Stopping(d) =>
              \/ (Claimed(d) \/ Stopping(d))' /\ call'[d].s = call[d].s
              \/ status'[call[d].s] # "running"
      BY DEF Claimed, Stopping
    <2>2. \A t \in Turns : Unfinished(t) => Unfinished(t)' /\ turn'[t].s = turn[t].s
      BY DEF Unfinished
    <2> QED
      BY <1>0, <2>1, <2>2, RunningMovesKept DEF StaysRunning
  <1> QED
    BY <1>1, <1>2, <1>3 DEF MoverInv

\* A request begins.
LEMMA NewRequestMoverInv ==
    ASSUME MoverDiscipline, MoverInv, NEW c \in Calls, NewRequest(c) PROVE MoverInv'
  <1>0. TypeOK /\ OwnInv /\ Orderly
    BY DEF MoverInv, OwnInv
  <1>1. OwnInv'
    <2>1. ~SendSpawn(c)
      BY <1>0, NewRequestEffect DEF SendSpawn
    <2> QED
      BY <1>0, <2>1, CallStepOwn
  <1>2. StatusGrows /\ StaysRunning
    BY <1>0, NewRequestEffect DEF StatusGrows, StaysRunning
  <1>3. ~Claimed(c) /\ ~Stopping(c)
    BY <1>0, NewRequestEffect DEF Claimed, Stopping
  <1>4. /\ UNCHANGED <<daemon, turn, drain, runner, status>>
        /\ \A d \in Calls : d # c => call'[d] = call[d]
        /\ call'[c].pc \in {"insert", "claim", "pauseWrite", "deleteStop", "setDrop"}
        /\ call'[c].pc = "deleteStop" => Exists(call'[c].s)
    BY <1>0, NewRequestEffect DEF MoverDiscipline
  <1> QED
    BY <1>1, <1>2, <1>3, <1>4, QuietMover DEF Exists

\* send_message's claim: the session has a mover from now on.
LEMMA SendClaimMoverInv ==
    ASSUME MoverInv, OwnInv', StatusGrows, NEW c \in Calls, SendClaim(c) PROVE MoverInv'
  <1> DEFINE s == call[c].s
  <1>0. /\ TypeOK /\ TypeOK' /\ Orderly /\ StopsPending /\ RunningMoves /\ s \in Sessions
        /\ call[c].pc = "claim" /\ \A d \in Calls : call[d].s \in Sessions
    BY DEF MoverInv, OwnInv, TypeOK, CallType, SendClaim
  <1>1. CASE status[s] \notin {"idle", "error"}
    <2>1. UNCHANGED <<daemon, turn, drain, runner, status>> /\ Return(c)
      BY <1>1 DEF SendClaim
    <2> QED
      BY <1>0, <2>1, QuietMover, ReturnEffect DEF StaysRunning, Claimed, Stopping
  <1>2. CASE status[s] \in {"idle", "error"}
    <2>1. /\ UNCHANGED <<daemon, turn, drain, runner>>
          /\ \A d \in Calls : d # c => call'[d] = call[d]
          /\ call'[c].pc = "record" /\ call'[c].s = s
          /\ \A q \in Sessions : q # s => status'[q] = status[q]
      BY <1>0, <1>2, GotoEffect DEF SendClaim, TypeOK
    <2>2. \A q \in Sessions : q = s => HasMover(q)'
      <3>1. Claimed(c)'
        BY <2>1 DEF Claimed
      <3> QED
        BY <2>1, <3>1 DEF HasMover
    <2>3. Orderly'
      <3>1. \A d \in Calls : call'[d].pc \in {"deleteStop", "deleteKill", "deleteRow"} =>
                status'[call'[d].s] # "absent"
        BY <1>0, <2>1 DEF Orderly, StatusGrows
      <3> QED
        BY <1>0, <2>1, <3>1 DEF Orderly
    <2>4. \A d \in Calls : /\ Claimed(d) => Claimed(d)' /\ call'[d].s = call[d].s
                           /\ Stopping(d) => Stopping(d)' /\ call'[d].s = call[d].s
      BY <1>0, <2>1 DEF Claimed, Stopping
    <2>5. StopsPending'
      <3>1. \A t \in Turns : (Underway(t) /\ Cancelled(t))' =>
                Underway(t) /\ Cancelled(t) /\ turn'[t].s = turn[t].s
        BY <2>1 DEF Underway, Cancelled
      <3> QED
        BY <1>0, <2>4, <3>1, StopsPendingKept
    <2>6. RunningMoves'
      <3>1. \A t \in Turns : Unfinished(t) => Unfinished(t)' /\ turn'[t].s = turn[t].s
        BY <2>1 DEF Unfinished
      <3>2. \A q \in Sessions : status'[q] = "running" => status[q] = "running" \/ q = s
        BY <2>1
      <3>3. \A q \in Sessions : status'[q] = "running" => status[q] = "running" \/ HasMover(q)'
        BY <2>2, <3>2
      <3> QED
        BY <1>0, <2>1, <2>4, <3>1, <3>3, RunningMovesKept
    <2> QED
      BY <2>3, <2>5, <2>6 DEF MoverInv
  <1> QED
    BY <1>1, <1>2

\* send_message hands the session to the turn it spawns.
LEMMA SendSpawnMoverInv ==
    ASSUME MoverInv, OwnInv', StatusGrows, NEW c \in Calls, SendSpawn(c) PROVE MoverInv'
  <1> DEFINE s == call[c].s
  <1>0. /\ TypeOK /\ TypeOK' /\ Orderly /\ StopsPending /\ RunningMoves /\ s \in Sessions
        /\ OwnInv
    BY DEF MoverInv, OwnInv, TypeOK, CallType
  <1>1. /\ UNCHANGED <<daemon, status, drain>>
        /\ call[c].pc = "spawn" /\ call'[c].pc = "ready"
        /\ \A d \in Calls : d # c => call'[d] = call[d]
    BY <1>0, SendSpawnEffect
  <1>2. PICK t \in Turns :
            /\ turn[t].pc = "unused"
            /\ turn'[t].pc = "start" /\ turn'[t].s = s /\ turn'[t].got = FALSE
            /\ \A u \in Turns : u # t => turn'[u] = turn[u]
            /\ \A q \in Turns : q # t => runner'[q] = runner[q]
    BY <1>0, SendSpawnEffect, ZenonT(60)
  <1>3. Orderly'
    BY <1>0, <1>1, <1>2 DEF Orderly
  <1>4. StopsPending'
    <2>1. ASSUME NEW u \in Turns, (Underway(u) /\ Cancelled(u))'
          PROVE  Underway(u) /\ Cancelled(u) /\ turn'[u].s = turn[u].s
      <3>1. u # t /\ turn'[u] = turn[u] /\ Underway(u)
        BY <1>2, <2>1 DEF Underway
      <3>2. turn[u].r \in Turns /\ turn[u].r # t
        BY <1>0, <1>2, <3>1 DEF Underway, OwnInv, TurnsOwned, Used, TypeOK, TurnType
      <3> QED
        BY <1>2, <2>1, <3>1, <3>2 DEF Cancelled
    <2>2. \A d \in Calls : Stopping(d) => Stopping(d)' /\ call'[d].s = call[d].s
      BY <1>1 DEF Stopping
    <2> QED
      BY <1>0, <2>1, <2>2, StopsPendingKept
  <1>5. RunningMoves'
    <2>1. \A q \in Sessions : q = s => HasMover(q)'
      <3>1. Unfinished(t)'
        BY <1>2 DEF Unfinished
      <3> QED
        BY <1>2, <3>1 DEF HasMover
    <2>2. \A u \in Turns : Unfinished(u) => Unfinished(u)' /\ turn'[u].s = turn[u].s
      BY <1>2 DEF Unfinished
    <2>3. \A d \in Calls : (Claimed(d) \/ Stopping(d)) =>
              d = c \/ ((Claimed(d) \/ Stopping(d))' /\ call'[d].s = call[d].s)
      BY <1>1 DEF Claimed, Stopping
    <2>4. ASSUME NEW q \in Sessions, status'[q] = "running"
          PROVE  /\ status[q] = "running" \/ HasMover(q)'
                 /\ \A u \in Turns : Unfinished(u) /\ turn[u].s = q =>
                        (Unfinished(u)' /\ turn'[u].s = q) \/ HasMover(q)'
                 /\ \A d \in Calls : (Claimed(d) \/ Stopping(d)) /\ call[d].s = q =>
                        ((Claimed(d) \/ Stopping(d))' /\ call'[d].s = q) \/ HasMover(q)'
      BY <1>1, <2>1, <2>2, <2>3, <2>4
    <2> QED
      BY <1>0, <1>1, <2>4, RunningMovesKept
  <1> QED
    BY <1>3, <1>4, <1>5 DEF MoverInv

\* delete cancels the runner of its own session, and from then on is stopping it.
LEMMA DeleteStopMoverInv ==
    ASSUME MoverInv, OwnInv', StatusGrows, NEW c \in Calls, DeleteStop(c) PROVE MoverInv'
  <1> DEFINE s == call[c].s
  <1>0. /\ TypeOK /\ TypeOK' /\ Orderly /\ StopsPending /\ RunningMoves /\ s \in Sessions
        /\ OwnInv /\ call[c].pc = "deleteStop"
    BY DEF MoverInv, OwnInv, TypeOK, CallType, DeleteStop, StopFlag
  <1>1. /\ UNCHANGED <<daemon, status, turn, drain>>
        /\ \A d \in Calls : d # c => call'[d] = call[d]
        /\ call'[c].pc \in {"deleteKill", "deleteRow"} /\ call'[c].s = s
    BY <1>0, GotoEffect DEF DeleteStop, StopFlag, TypeOK, CallType
  <1>2. \A q \in Turns : runner'[q].cancelled => runner[q].cancelled \/ handles[s] = q
    BY <1>0, ToldEffect DEF DeleteStop, StopFlag, TypeOK
  <1>3. Orderly'
    BY <1>0, <1>1 DEF Orderly
  <1>4. Stopping(c)'
    BY <1>1 DEF Stopping
  <1>5. \A d \in Calls : /\ Claimed(d) => Claimed(d)' /\ call'[d].s = call[d].s
                         /\ Stopping(d) => Stopping(d)' /\ call'[d].s = call[d].s
    BY <1>0, <1>1 DEF Claimed, Stopping
  <1>6. StopsPending'
    <2> SUFFICES ASSUME NEW t \in Turns, (Underway(t) /\ Cancelled(t))'
                 PROVE  \/ status'[turn'[t].s] = "deleted"
                        \/ \E d \in Calls : Stopping(d)' /\ call'[d].s = turn'[t].s
      BY DEF StopsPending
    <2>1. Underway(t) /\ turn'[t] = turn[t] /\ turn[t].r \in Turns
      BY <1>0, <1>1 DEF Underway, TypeOK, TurnType
    <2>2. runner'[turn[t].r].cancelled
      BY <2>1 DEF Cancelled
    <2>3. CASE Cancelled(t)
      BY <1>0, <1>1, <1>5, <2>1, <2>3 DEF StopsPending
    <2>4. CASE ~Cancelled(t)
      <3>1. handles[s] = turn[t].r
        BY <1>2, <2>1, <2>2, <2>4 DEF Cancelled
      <3>2. handles[s] # None
        BY <2>1, <3>1, SessionAssumption
      <3>3. turn[handles[s]].s = s
        BY <1>0, <3>2 DEF OwnInv, HandlesOwned
      <3>4. turn[turn[t].r].s = turn[t].s
        BY <1>0, <2>1 DEF OwnInv, TurnsOwned, Used, Underway
      <3> QED
        BY <1>1, <1>4, <2>1, <3>1, <3>3, <3>4
    <2> QED
      BY <2>3, <2>4
  <1>7. RunningMoves'
    <2>1. \A t \in Turns : Unfinished(t) => Unfinished(t)' /\ turn'[t].s = turn[t].s
      BY <1>1 DEF Unfinished
    <2> QED
      BY <1>0, <1>1, <1>5, <2>1, RunningMovesKept
  <1> QED
    BY <1>3, <1>6, <1>7 DEF MoverInv

\* A step of a request keeps every running session looked after.
LEMMA CallStepMoverInv ==
    ASSUME MoverInv, NEW c \in Calls, CallStep(c) PROVE MoverInv'
  <1>0. /\ TypeOK /\ Orderly /\ OwnInv /\ call[c].s \in Sessions
        /\ \A d \in Calls : call[d].s \in Sessions
    BY DEF MoverInv, OwnInv, TypeOK, CallType
  <1>1. OwnInv'
    BY <1>0, CallStepOwn, SendSpawnOwn
  <1>2. StatusGrows
    <2>1. [Next]_vars
      BY DEF Next
    <2> QED
      BY <1>0, <2>1, NextStatusGrows
  <1>3. CASE CreateInsert(c)
    <2>1. StaysRunning
      BY <1>0, <1>3 DEF CreateInsert, StaysRunning, TypeOK
    <2> QED
      BY <1>0, <1>1, <1>2, <1>3, <2>1, QuietMover, ReturnEffect
      DEF CreateInsert, Claimed, Stopping
  <1>4. CASE SendRecord(c)
    <2>1. /\ UNCHANGED <<daemon, status, turn, drain, runner>> /\ Claimed(c) /\ ~Stopping(c)
          /\ \A d \in Calls : d # c => call'[d] = call[d]
          /\ call'[c].pc \in {"ready", "spawn"}
          /\ \/ Claimed(c)' /\ call'[c].s = call[c].s
             \/ ~Exists(call[c].s)
      BY <1>0, <1>4, ReturnEffect, GotoEffect DEF SendRecord, Claimed, Stopping
    <2>2. StaysRunning
      BY <2>1 DEF StaysRunning
    <2>3. ~Exists(call[c].s) => status[call[c].s] # "running"
      BY DEF Exists
    <2> QED
      BY <1>0, <1>1, <1>2, <2>1, <2>2, <2>3, QuietMover
  <1>5. CASE PauseWrite(c)
    <2>1. StaysRunning
      BY <1>0, <1>5, UpdateStatusEffect DEF PauseWrite, StaysRunning
    <2> QED
      BY <1>0, <1>1, <1>2, <1>5, <2>1, QuietMover, GotoEffect
      DEF PauseWrite, Claimed, Stopping
  <1>6. CASE PauseSignal(c)
    <2>1. \A q \in Turns : runner'[q].cancelled => runner[q].cancelled
      BY <1>0, <1>6 DEF PauseSignal, TypeOK, RunnerType
    <2>2. StaysRunning
      BY <1>6 DEF StaysRunning, PauseSignal
    <2> QED
      BY <1>0, <1>1, <1>2, <1>6, <2>1, <2>2, QuietMover, ReturnEffect
      DEF PauseSignal, Claimed, Stopping
  <1>7. CASE DeleteKill(c)
    <2>1. \A q \in Turns : runner'[q].cancelled => runner[q].cancelled
      BY <1>0, <1>7 DEF DeleteKill, StopKill, TypeOK, RunnerType
    <2>2. /\ UNCHANGED <<daemon, status, turn, drain>>
          /\ \A d \in Calls : d # c => call'[d] = call[d]
          /\ call[c].pc = "deleteKill"
          /\ call'[c].pc = "deleteRow" /\ call'[c].s = call[c].s
      BY <1>0, <1>7 DEF DeleteKill, StopKill, TypeOK, CallType
    <2>3. StaysRunning
      BY <2>2 DEF StaysRunning
    <2>4. status'[call'[c].s] # "absent"
      BY <1>0, <2>2 DEF Orderly
    <2> QED
      BY <1>1, <1>2, <2>1, <2>2, <2>3, <2>4, QuietMover DEF Claimed, Stopping
  <1>8. CASE DeleteRow(c)
    <2>1. StaysRunning
      BY <1>0, <1>8, UpdateStatusEffect DEF DeleteRow, StaysRunning
    <2>2. status'[call[c].s] = "deleted"
      <3>1. status[call[c].s] # "absent"
        BY <1>0, <1>8 DEF Orderly, DeleteRow
      <3> QED
        BY <1>0, <1>8, <3>1, UpdateStatusEffect DEF DeleteRow, Exists
    <2> QED
      BY <1>0, <1>1, <1>2, <1>8, <2>1, <2>2, QuietMover, ReturnEffect
      DEF DeleteRow, Claimed
  <1>9. CASE SetDrop(c) \/ SetWrite(c)
    <2>1. StaysRunning
      BY <1>9 DEF StaysRunning, SetDrop, SetWrite
    <2> QED
      BY <1>0, <1>1, <1>2, <1>9, <2>1, QuietMover, ReturnEffect, GotoEffect
      DEF SetDrop, SetWrite, Claimed, Stopping
  <1>10. ~(ResumeCheck(c) \/ ResumeWrite(c) \/ ResumeSignal(c)
            \/ CancelStop(c) \/ CancelKill(c) \/ CancelWrite(c))
    BY <1>0 DEF Orderly, ResumeCheck, ResumeWrite, ResumeSignal,
       CancelStop, CancelKill, CancelWrite, StopFlag, StopKill
  <1> QED
    BY <1>1, <1>2, <1>3, <1>4, <1>5, <1>6, <1>7, <1>8, <1>9, <1>10,
       SendClaimMoverInv, SendSpawnMoverInv, DeleteStopMoverInv DEF CallStep

\* A turn that cancels nothing, marks only its own session running, and stops
\* being its mover only when the session is not running or a delete is at it.
LEMMA TurnMover ==
    ASSUME MoverInv, NEW t \in Turns, TurnStep(t),
           \A q \in Turns : runner'[q].cancelled => runner[q].cancelled,
           turn[t].pc = "start" => ~runner'[turn[t].r].cancelled,
           turn'[t].pc # "start",
           turn'[t].pc \in {"spawn", "store", "begin"} => ~turn'[t].got,
           \A s \in Sessions : status'[s] = "running" =>
               status[s] = "running" \/ (s = turn[t].s /\ Unfinished(t)'),
           Unfinished(t) => \/ Unfinished(t)'
                            \/ status'[turn[t].s] # "running"
                            \/ \E c \in Calls : Stopping(c) /\ call[c].s = turn[t].s
    PROVE  MoverInv'
  <1>0. /\ TypeOK /\ TypeOK' /\ Orderly /\ StopsPending /\ RunningMoves /\ OwnInv /\ OwnInv'
        /\ \A c \in Calls : call[c].s \in Sessions
    BY TurnStepOwn DEF MoverInv, OwnInv, TypeOK, CallType
  <1>1. /\ UNCHANGED <<daemon, call, drain>>
        /\ Active(t) /\ turn'[t].s = turn[t].s /\ turn'[t].r = turn[t].r
        /\ \A u \in Turns : u # t => turn'[u] = turn[u]
    BY <1>0, TurnStepEffect
  <1>2. StatusGrows
    <2>1. [Next]_vars
      BY DEF Next
    <2> QED
      BY <1>0, <2>1, NextStatusGrows
  <1>3. Orderly'
    <2>1. \A c \in Calls : call'[c].pc \in {"deleteStop", "deleteKill", "deleteRow"} =>
              status'[call'[c].s] # "absent"
      BY <1>0, <1>1, <1>2 DEF Orderly, StatusGrows
    <2>2. \A u \in Turns :
              turn'[u].pc \in {"start", "spawn", "store", "begin"} => ~turn'[u].got
      BY <1>0, <1>1 DEF Orderly
    <2> QED
      BY <1>0, <1>1, <2>1, <2>2 DEF Orderly
  <1>4. StopsPending'
    <2>1. ASSUME NEW u \in Turns, (Underway(u) /\ Cancelled(u))'
          PROVE  Underway(u) /\ Cancelled(u) /\ turn'[u].s = turn[u].s
      <3>1. turn'[u].s = turn[u].s /\ turn'[u].r = turn[u].r /\ turn[u].r \in Turns
        BY <1>0, <1>1 DEF TypeOK, TurnType
      <3>2. runner'[turn[u].r].cancelled
        BY <2>1, <3>1 DEF Cancelled
      <3>3. Cancelled(u)
        BY <3>1, <3>2 DEF Cancelled
      <3>4. Underway(u)
        BY <1>1, <2>1, <3>2 DEF Underway, Active
      <3> QED
        BY <3>1, <3>3, <3>4
    <2>2. \A c \in Calls : Stopping(c) => Stopping(c)' /\ call'[c].s = call[c].s
      BY <1>1 DEF Stopping
    <2> QED
      BY <1>0, <1>2, <2>1, <2>2, StopsPendingKept
  <1>5. RunningMoves'
    <2>1. \A c \in Calls : Claimed(c) \/ Stopping(c) =>
              (Claimed(c) \/ Stopping(c))' /\ call'[c].s = call[c].s
      BY <1>1 DEF Claimed, Stopping
    <2>2. \A u \in Turns : u # t /\ Unfinished(u) => Unfinished(u)' /\ turn'[u].s = turn[u].s
      BY <1>1 DEF Unfinished
    <2>3. \A s \in Sessions : s = turn[t].s /\ Unfinished(t)' => HasMover(s)'
      BY <1>1 DEF HasMover
    <2>4. \A s \in Sessions : (\E c \in Calls : Stopping(c) /\ call[c].s = s) => HasMover(s)'
      BY <2>1 DEF HasMover
    <2>5. ASSUME NEW s \in Sessions, status'[s] = "running"
          PROVE  /\ status[s] = "running" \/ HasMover(s)'
                 /\ \A u \in Turns : Unfinished(u) /\ turn[u].s = s =>
                        (Unfinished(u)' /\ turn'[u].s = s) \/ HasMover(s)'
                 /\ \A c \in Calls : (Claimed(c) \/ Stopping(c)) /\ call[c].s = s =>
                        ((Claimed(c) \/ Stopping(c))' /\ call'[c].s = s) \/ HasMover(s)'
      <3>1. status[s] = "running" \/ HasMover(s)'
        BY <2>3, <2>5
      <3>2. ASSUME NEW u \in Turns, Unfinished(u), turn[u].s = s
            PROVE  (Unfinished(u)' /\ turn'[u].s = s) \/ HasMover(s)'
        BY <1>1, <2>2, <2>4, <2>5, <3>2
      <3>3. ASSUME NEW c \in Calls, Claimed(c) \/ Stopping(c), call[c].s = s
            PROVE  (Claimed(c) \/ Stopping(c))' /\ call'[c].s = s
        BY <2>1, <3>3
      <3> QED
        BY <3>1, <3>2, <3>3
    <2> QED
      BY <1>0, <1>1, <2>5, RunningMovesKept
  <1> QED
    BY <1>0, <1>3, <1>4, <1>5 DEF MoverInv

\* A step of a turn keeps every running session looked after: it goes on, or
\* writes the status, or it was cancelled.
LEMMA TurnStepMoverInv ==
    ASSUME MoverInv, NEW t \in Turns, TurnStep(t) PROVE MoverInv'
  <1>0. /\ TypeOK /\ Orderly /\ StopsPending /\ turn[t].s \in Sessions /\ turn[t].r \in Turns
    BY DEF MoverInv, OwnInv, TypeOK, TurnType
  <1>1. /\ turn[t].pc \in {"start", "spawn", "store", "begin"} => ~turn[t].got
        /\ Active(t)
    BY <1>0, TurnStepEffect DEF Orderly
  <1>2. CASE TurnStart(t)
    <2>1. /\ \A q \in Turns : runner'[q].cancelled => runner[q].cancelled
          /\ ~runner'[turn[t].r].cancelled
      BY <1>0, <1>2 DEF TurnStart, TypeOK, RunnerType
    <2>2. /\ turn'[t].pc = "spawn" /\ turn'[t].got = turn[t].got /\ UNCHANGED status
          /\ turn[t].pc = "start"
      BY <1>0, <1>2, StepEffect DEF TurnStart
    <2>3. Unfinished(t)'
      BY <1>1, <2>2 DEF Unfinished
    <2> QED
      BY <1>1, <2>1, <2>2, <2>3, TurnMover
  <1>3. ASSUME \A q \in Turns : runner'[q].cancelled => runner[q].cancelled,
               UNCHANGED status, turn[t].pc # "start",
               turn'[t].pc \notin {"unused", "done", "start"}, turn'[t].got = turn[t].got,
               turn'[t].pc \in {"store", "begin"} => ~turn[t].got,
               turn'[t].pc # "spawn"
        PROVE  MoverInv'
    BY <1>3, TurnMover DEF Unfinished
  <1>4. CASE TurnSpawn(t)
    <2>1. \A q \in Turns : runner'[q].cancelled => runner[q].cancelled
      BY <1>0, <1>4, SMTT(60) DEF TurnSpawn, TypeOK, RunnerType
    <2> QED
      BY <1>0, <1>1, <1>3, <1>4, <2>1, StepEffect DEF TurnSpawn
  <1>5. CASE TurnStore(t)
    <2>1. \A q \in Turns : runner'[q].cancelled => runner[q].cancelled
      BY <1>0, <1>5 DEF TurnStore, TypeOK, RunnerType
    <2> QED
      BY <1>0, <1>1, <1>3, <1>5, <2>1, StepEffect DEF TurnStore
  <1>6. CASE TurnBegin(t)
    <2>1. /\ turn'[t].pc = "loop" /\ turn'[t].got = turn[t].got /\ UNCHANGED runner
          /\ turn[t].pc = "begin"
          /\ \A s \in Sessions : s # turn[t].s => status'[s] = status[s]
      BY <1>0, <1>6, StepEffect, UpdateStatusEffect DEF TurnBegin
    <2>2. Unfinished(t)'
      BY <1>1, <2>1 DEF Unfinished
    <2> QED
      BY <2>1, <2>2, TurnMover
  <1>7. CASE TurnBreak(t) \/ TurnLineError(t) \/ TurnResult(t) \/ TurnEof(t)
    <2>1. /\ UNCHANGED <<status, runner>> /\ turn[t].pc = "loop"
          /\ turn'[t].pc \in {"reap", "fail", "result"} /\ turn'[t].got = turn[t].got
      BY <1>0, <1>7, StepEffect DEF TurnBreak, TurnLineError, TurnResult, TurnEof
    <2> QED
      BY <1>3, <2>1
  <1>8. CASE TurnReap(t)
    <2>1. \A q \in Turns : runner'[q].cancelled => runner[q].cancelled
      BY <1>0, <1>8 DEF TurnReap, TypeOK, RunnerType
    <2>2. turn'[t].pc = "reaping" /\ turn'[t].got = turn[t].got
      BY <1>0, <1>8 DEF TurnReap, TypeOK, TurnType
    <2> QED
      BY <1>3, <1>8, <2>1, <2>2 DEF TurnReap
  <1>9. CASE TurnReaped(t)
    <2>1. \A q \in Turns : runner'[q].cancelled => runner[q].cancelled
      BY <1>0, <1>9 DEF TurnReaped, TypeOK, RunnerType
    <2>2. turn'[t].pc = "final" /\ turn'[t].got = turn[t].got
      BY <1>0, <1>9 DEF TurnReaped, TypeOK, TurnType
    <2> QED
      BY <1>3, <1>9, <2>1, <2>2 DEF TurnReaped
  <1>10. CASE TurnTimeout(t)
    <2>1. turn'[t].pc = "timeout" /\ turn'[t].got = turn[t].got /\ UNCHANGED <<status, runner>>
      BY <1>0, <1>10 DEF TurnTimeout, TypeOK, TurnType
    <2>2. turn[t].pc # "start"
      BY <1>10 DEF TurnTimeout, TimedPcs
    <2> QED
      BY <1>3, <2>1, <2>2
  <1>11. CASE TurnTimeoutKill(t)
    <2>1. \A q \in Turns : runner'[q].cancelled => runner[q].cancelled
      BY <1>0, <1>11 DEF TurnTimeoutKill, TypeOK, RunnerType
    <2>2. /\ turn'[t].pc = "fail" /\ turn'[t].got = turn[t].got /\ UNCHANGED status
          /\ turn[t].pc = "timeout"
      BY <1>0, <1>11, StepEffect DEF TurnTimeoutKill
    <2> QED
      BY <1>3, <2>1, <2>2
  <1>12. CASE TurnFinal(t)
    <2>1. /\ turn[t].pc = "final" /\ turn'[t].got = turn[t].got /\ UNCHANGED <<status, runner>>
          /\ \/ turn'[t].pc = "write"
             \/ turn'[t].pc = "done" /\ (turn[t].got \/ Cancelled(t))
      BY <1>0, <1>12, StepEffect DEF TurnFinal
    <2>2. CASE turn'[t].pc = "write"
      BY <1>3, <2>1, <2>2
    <2>3. CASE turn'[t].pc = "done"
      <3>1. Unfinished(t) => Underway(t) /\ Cancelled(t)
        BY <2>1, <2>3 DEF Unfinished, Underway
      <3>2. Unfinished(t) => \/ status'[turn[t].s] # "running"
                             \/ \E c \in Calls : Stopping(c) /\ call[c].s = turn[t].s
        BY <1>0, <2>1, <3>1 DEF StopsPending
      <3> QED
        BY <2>1, <2>3, <3>2, TurnMover
    <2> QED
      BY <2>1, <2>2, <2>3
  <1>13. CASE TurnResultWrite(t) \/ TurnWrite(t) \/ TurnFail(t)
    <2>1. PICK v \in {"idle", "error"} : UpdateStatus(turn[t].s, v)
      BY <1>13 DEF TurnResultWrite, TurnWrite, TurnFail
    <2>2. turn[t].pc \in {"result", "write", "fail"} /\ UNCHANGED runner
      BY <1>13 DEF TurnResultWrite, TurnWrite, TurnFail
    <2>3. turn'[t].pc \in {"loop", "done"}
      <3>1. CASE TurnResultWrite(t)
        BY <1>0, <3>1 DEF TurnResultWrite, TypeOK, TurnType
      <3> QED
        BY <1>0, <1>13, <3>1, StepEffect DEF TurnWrite, TurnFail
    <2>4. status'[turn[t].s] # "running"
      BY <1>0, <2>1, UpdateStatusEffect DEF Exists
    <2>5. \A s \in Sessions : status'[s] = "running" => status[s] = "running"
      BY <1>0, <2>1, <2>4, UpdateStatusEffect
    <2> QED
      BY <2>2, <2>3, <2>4, <2>5, TurnMover
  <1> QED
    BY <1>2, <1>4, <1>5, <1>6, <1>7, <1>8, <1>9, <1>10, <1>11, <1>12, <1>13 DEF TurnStep

\* The other steps move no turn and no request, or end them all.
LEMMA DaemonStepMoverInv ==
    ASSUME MoverDiscipline, MoverInv,
           \/ DrainStart \/ DrainStep \/ Crash \/ Restart \/ UNCHANGED vars
           \/ (\E t \in Turns : ProcExit(t)) \/ (\E s \in Sessions : Prune(s))
    PROVE  MoverInv'
  <1>0. /\ TypeOK /\ TypeOK' /\ Orderly /\ StopsPending /\ RunningMoves /\ OwnInv /\ OwnInv'
        /\ \A c \in Calls : call[c].s \in Sessions
    <2>1. [Next]_vars
      BY DEF Next
    <2> QED
      BY <2>1, NextTyped, DaemonStepOwn DEF MoverInv, OwnInv, TypeOK, CallType
  <1>1. StatusGrows
    <2>1. [Next]_vars
      BY DEF Next
    <2> QED
      BY <1>0, <2>1, NextStatusGrows
  <1>2. ~(DrainStart \/ DrainStep)
    BY <1>0 DEF DrainStart, DrainStep, DrainEnd, DrainFlag, DrainKill, DrainWrite,
       Orderly, MoverDiscipline
  <1>3. CASE Crash
    <2>1. Orderly' /\ StopsPending'
      BY <1>0, <1>3, HaltEffect DEF Crash, Orderly, StopsPending, Underway
    <2>2. RunningMoves'
      BY <1>0, <1>3, HaltEffect DEF Crash, RunningMoves
    <2> QED
      BY <1>0, <2>1, <2>2 DEF MoverInv
  <1>4. ASSUME UNCHANGED <<turn, runner, call, drain>>, daemon' # "draining",
               daemon' # "down" =>
                  \A s \in Sessions : status'[s] = "running" =>
                      daemon # "down" /\ status[s] = "running"
        PROVE  MoverInv'
    <2>1. Orderly'
      BY <1>0, <1>1, <1>4 DEF Orderly, StatusGrows
    <2>2. StopsPending'
      <3>1. \A t \in Turns : /\ Underway(t)' <=> Underway(t)
                             /\ Cancelled(t)' <=> Cancelled(t)
        BY <1>4 DEF Underway, Cancelled
      <3>2. \A c \in Calls : Stopping(c)' <=> Stopping(c)
        BY <1>4 DEF Stopping
      <3> QED
        BY <1>0, <1>1, <1>4, <3>1, <3>2, StopsPendingKept
    <2>3. RunningMoves'
      <3>1. ASSUME NEW s \in Sessions PROVE HasMover(s)' <=> HasMover(s)
        BY <1>4 DEF HasMover, Unfinished, Claimed, Stopping
      <3> QED
        BY <1>0, <1>4, <3>1 DEF RunningMoves
    <2> QED
      BY <1>0, <2>1, <2>2, <2>3 DEF MoverInv
  <1>5. CASE Restart
    BY <1>4, <1>5 DEF Restart
  <1>6. CASE UNCHANGED vars \/ (\E t \in Turns : ProcExit(t)) \/ (\E s \in Sessions : Prune(s))
    <2>1. UNCHANGED <<turn, runner, call, drain, daemon>>
      BY <1>6 DEF vars, ProcExit, Prune
    <2>2. \A s \in Sessions : status'[s] = "running" => status[s] = "running"
      BY <1>0, <1>6 DEF vars, ProcExit, Prune, TypeOK
    <2> QED
      BY <1>0, <1>4, <2>1, <2>2 DEF Orderly, RunningMoves
  <1> QED
    BY <1>2, <1>3, <1>5, <1>6

(***************************************************************************)
(* Without resume, cancel and drain, a session that says "running" in a    *)
(* running daemon has a turn, a send_message or a delete that is going to  *)
(* move it on, for any provider and any number of connections and turns:   *)
(* no timeout, failed spawn, deletion, crash or restart leaves it answering*)
(* SESSION_BUSY for ever.                                                  *)
(***************************************************************************)
THEOREM RunningIsLookedAfter == ASSUME MoverDiscipline PROVE Spec => []RunningHasTurn
  <1>1. Init => MoverInv
    BY InitOwn DEF Init, MoverInv, Orderly, StopsPending, RunningMoves, Underway, ReadyCall,
       NotDraining
  <1>2. MoverInv /\ [Next]_vars => MoverInv'
    BY NewRequestMoverInv, CallStepMoverInv, TurnStepMoverInv, DaemonStepMoverInv DEF Next
  <1>3. MoverInv => RunningHasTurn
    BY DEF MoverInv, RunningMoves, HasMover, RunningHasTurn, Unfinished
  <1> QED
    BY <1>1, <1>2, <1>3, PTL DEF Spec

=============================================================================
