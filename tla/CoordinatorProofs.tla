------------------------- MODULE CoordinatorProofs --------------------------
(***************************************************************************)
(* Proofs about Coordinator for every schedule, every number of satellites *)
(* and tasks, and with or without a timeout.                               *)
(***************************************************************************)
EXTENDS CoordinatorInv, TLAPS

\* Every entry of satellite_ids is a satellite with a number of tasks.
LEMMA OrderType ==
  /\ Len(Order) \in Nat
  /\ \A b \in Batches : Order[b] \in Sats /\ NumTasks[Order[b]] \in Nat
BY ScheduleAssumption DEF Batches

\* Updating a Boolean function keeps it one.
LEMMA ExceptBoolean ==
  ASSUME NEW S, NEW f \in [S -> BOOLEAN], NEW x \in S, NEW v \in BOOLEAN
  PROVE  [f EXCEPT ![x] = v] \in [S -> BOOLEAN]
OBVIOUS

\* Counting up one entry keeps a tally in the naturals.
LEMMA ExceptCount ==
  ASSUME NEW S, NEW f \in [S -> Nat], NEW x \in S
  PROVE  [f EXCEPT ![x] = @ + 1] \in [S -> Nat]
OBVIOUS

\* The satellites that have a simulator are satellites.
LEMMA SimulatorsType == Simulators \subseteq Sats /\ WithTasks \subseteq Sats
BY OrderType DEF Simulators, WithTasks

-----------------------------------------------------------------------------

\* The initial state is well typed.
LEMMA InitType == Init => TypeOK
<1> SUFFICES ASSUME Init PROVE TypeOK
  OBVIOUS
<1>1. handlers \subseteq Sats \union {CoordId}
  BY SimulatorsType DEF Init, SatInit
<1>2. SatTypeOK
  BY <1>1 DEF Init, SatInit, SatTypeOK, BatchStates, SimStates, AckStages,
              Faults
<1> QED BY <1>2 DEF Init, TypeOK, MainStates

\* A step of a batch thread keeps the types.
LEMMA BatchStepType ==
  ASSUME TypeOK, NEW b \in Batches, RunBatch(b)
  PROVE  TypeOK'
<1> USE OrderType DEF TypeOK, SatTypeOK, BatchStates, SimStates, AckStages,
    Faults, MainStates, RunBatch, coordVars, batchVars, commVars, Goto, Crash,
    PostNote, AfterTask
<1>1. CASE ParseBatch(b)      BY <1>1 DEF ParseBatch
<1>2. CASE SendProgress(b)
  <2>1. notes' \in Nat BY <1>2 DEF SendProgress
  <2>2. bpc' \in [Batches -> BatchStates] BY <1>2 DEF SendProgress
  <2> QED BY <1>2, <2>1, <2>2 DEF SendProgress
<1>3. CASE LookUpBehavior(b)  BY <1>3 DEF LookUpBehavior
<1>4. CASE EnterExecutor(b)   BY <1>4 DEF EnterExecutor
<1>5. CASE LockRuntime(b)     BY <1>5 DEF LockRuntime
<1>6. CASE FinishExecution(b)
  <2>1. taskOk' \in [Batches -> BOOLEAN]
    <3>1. \/ UNCHANGED taskOk
          \/ \E ok \in BOOLEAN : taskOk' = [taskOk EXCEPT ![b] = ok]
      BY <1>6 DEF FinishExecution
    <3> QED BY <3>1, ExceptBoolean, Zenon
  <2>2. ranOk' \in [Batches -> Nat]
    <3>1. UNCHANGED ranOk \/ ranOk' = [ranOk EXCEPT ![b] = @ + 1]
      BY <1>6 DEF FinishExecution
    <3> QED BY <3>1, ExceptCount
  <2>3. bpc' \in [Batches -> BatchStates] BY <1>6 DEF FinishExecution
  <2> QED BY <1>6, <2>1, <2>2, <2>3 DEF FinishExecution
<1>7. CASE SendComplete(b)
  <2>1. success' \in [Batches -> BOOLEAN]
    <3>1. \/ UNCHANGED success
          \/ success' = [success EXCEPT ![b] = success[b] /\ taskOk[b]]
      BY <1>7 DEF SendComplete
    <3>2. (success[b] /\ taskOk[b]) \in BOOLEAN
      OBVIOUS
    <3> QED BY <3>1, <3>2, ExceptBoolean, Zenon
  <2>2. accepted' \in [Batches -> Nat]
    <3>1. UNCHANGED accepted \/ accepted' = [accepted EXCEPT ![b] = @ + 1]
      BY <1>7 DEF SendComplete
    <3> QED BY <3>1, ExceptCount
  <2>5. rejected' \in [Batches -> Nat]
    <3>1. UNCHANGED rejected \/ rejected' = [rejected EXCEPT ![b] = @ + 1]
      BY <1>7 DEF SendComplete
    <3> QED BY <3>1, ExceptCount
  <2>3. bpc' \in [Batches -> BatchStates] BY <1>7 DEF SendComplete
  <2>4. notes' \in Nat BY <1>7 DEF SendComplete
  <2> QED BY <1>7, <2>1, <2>2, <2>3, <2>4, <2>5 DEF SendComplete
<1>8. CASE SendAck(b)         BY <1>8 DEF SendAck
<1> QED BY <1>1, <1>2, <1>3, <1>4, <1>5, <1>6, <1>7, <1>8 DEF BatchStep

\* A step of the main thread, a timeout or a spurious wakeup keeps the types.
LEMMA MainStepType ==
  ASSUME TypeOK, MainStep \/ TimeOut \/ SpuriousWakeup
  PROVE  TypeOK'
<1> USE OrderType, SimulatorsType DEF TypeOK, SatTypeOK, BatchStates,
    SimStates, AckStages, Faults, MainStates, satVars, coordVars, trackVars,
    batchVars, commVars
<1>1. CASE StartRun          BY <1>1 DEF StartRun
<1>2. CASE Dispatch          BY <1>2 DEF Dispatch, SpawnBatch, Batches
<1>3. CASE EndDispatch       BY <1>3 DEF EndDispatch
<1>4. CASE WaitFinished      BY <1>4 DEF WaitFinished, MakeReport
<1>5. CASE FallAsleep        BY <1>5 DEF FallAsleep
<1>6. CASE UnregisterHandler BY <1>6 DEF UnregisterHandler
<1>7. CASE StopComm          BY <1>7 DEF StopComm
<1>8. CASE ShutdownSimulator
  BY <1>8 DEF ShutdownSimulator, SimShutdownStep, SimGoto, CancelTasks,
              ResetExecutor, ResetComm
<1>9. CASE MainReturns       BY <1>9 DEF MainReturns
<1>10. CASE DestroyCoordinator BY <1>10 DEF DestroyCoordinator
<1>11. CASE ExitProcess      BY <1>11 DEF ExitProcess
<1>12. CASE TimeOut          BY <1>12 DEF TimeOut, MakeReport
<1>13. CASE SpuriousWakeup   BY <1>13 DEF SpuriousWakeup
<1> QED BY <1>1, <1>2, <1>3, <1>4, <1>5, <1>6, <1>7, <1>8, <1>9, <1>10,
           <1>11, <1>12, <1>13 DEF MainStep

\* A step of the coordinator's handler threads keeps the types.
LEMMA HandlerStepType ==
  ASSUME TypeOK,
         HandleNote \/ \E b \in Batches : RecordAck(b) \/ NotifyMain(b)
  PROVE  TypeOK'
<1> USE OrderType DEF TypeOK, SatTypeOK, BatchStates, SimStates, AckStages,
    Faults, MainStates, coordVars, trackVars, mainVars, batchVars, commVars,
    Crash
<1>1. CASE HandleNote BY <1>1 DEF HandleNote
<1>2. ASSUME NEW b \in Batches, RecordAck(b) PROVE TypeOK'
  <2>1. CASE CoordinatorGone BY <1>2, <2>1 DEF RecordAck
  <2>2. CASE ~CoordinatorGone
    <3>1. SatTypeOK' BY <1>2, <2>2 DEF RecordAck
    <3>2. /\ tracked' \subseteq Sats
          /\ finished' \subseteq tracked'
          /\ succeeded' \subseteq tracked'
      BY <1>2, <2>2 DEF RecordAck
    <3> QED BY <1>2, <3>1, <3>2 DEF RecordAck
  <2> QED BY <2>1, <2>2
<1>3. ASSUME NEW b \in Batches, NotifyMain(b) PROVE TypeOK'
  <2>1. ackStage' \in [Batches -> AckStages] BY <1>3 DEF NotifyMain
  <2>2. asleep' \in BOOLEAN BY <1>3 DEF NotifyMain
  <2>3. SatTypeOK' BY <1>3, <2>1 DEF NotifyMain
  <2> QED BY <1>3, <2>2, <2>3 DEF NotifyMain
<1> QED BY <1>1, <1>2, <1>3

\* Stuttering keeps the types.
LEMMA StutterType == TypeOK /\ UNCHANGED vars => TypeOK'
BY DEF TypeOK, SatTypeOK, vars, satVars, coordVars, Batches

\* Every step keeps the types.
LEMMA NextType == TypeOK /\ [Next]_vars => TypeOK'
BY BatchStepType, MainStepType, HandlerStepType, StutterType DEF Next, Live

\* Type correctness: in particular the keys of the three result maps stay the
\* tracked satellites, and no tally leaves the naturals.
THEOREM TypeCorrect == Spec => []TypeOK
BY InitType, NextType, PTL DEF Spec

-----------------------------------------------------------------------------
(* The tallies of the batches.                                             *)

\* A step of one batch leaves every other batch alone.
LEMMA OtherBatches ==
  ASSUME TypeOK, NEW b \in Batches, BatchStep(b), NEW c \in Batches, c # b
  PROVE  /\ bpc'[c] = bpc[c] /\ taskOk'[c] = taskOk[c]
         /\ accepted'[c] = accepted[c] /\ rejected'[c] = rejected[c]
         /\ success'[c] = success[c] /\ ranOk'[c] = ranOk[c]
         /\ ackStage'[c] = ackStage[c]
<1> USE DEF TypeOK, SatTypeOK, batchVars, commVars, Goto, Crash
<1>1. CASE ParseBatch(b)      BY <1>1 DEF ParseBatch
<1>2. CASE SendProgress(b)    BY <1>2 DEF SendProgress
<1>3. CASE LookUpBehavior(b)  BY <1>3 DEF LookUpBehavior
<1>4. CASE EnterExecutor(b)   BY <1>4 DEF EnterExecutor
<1>5. CASE LockRuntime(b)     BY <1>5 DEF LockRuntime
<1>6. CASE FinishExecution(b) BY <1>6 DEF FinishExecution
<1>7. CASE SendComplete(b)    BY <1>7 DEF SendComplete
<1>8. CASE SendAck(b)         BY <1>8 DEF SendAck
<1> QED BY <1>1, <1>2, <1>3, <1>4, <1>5, <1>6, <1>7, <1>8 DEF BatchStep

\* A thread keeps the tallies of its own batch consistent.
LEMMA BatchStepOwnInv ==
  ASSUME TypeOK, TypeOK', NEW b \in Batches, BatchStep(b),
         BatchInv(b), AckInv(b)
  PROVE  BatchInv(b)' /\ AckInv(b)'
<1> USE OrderType DEF TypeOK, SatTypeOK, BatchInv, AckInv, InTask, batchVars,
    commVars, Goto, Crash, AfterTask
<1>1. CASE ParseBatch(b)      BY <1>1 DEF ParseBatch
<1>2. CASE SendProgress(b)    BY <1>2 DEF SendProgress
<1>3. CASE LookUpBehavior(b)  BY <1>3 DEF LookUpBehavior
<1>4. CASE EnterExecutor(b)   BY <1>4 DEF EnterExecutor
<1>5. CASE LockRuntime(b)     BY <1>5 DEF LockRuntime
<1>6. CASE FinishExecution(b) BY <1>6 DEF FinishExecution
<1>7. CASE SendComplete(b)
  <2>1. CASE CommGone(b) BY <1>7, <2>1 DEF SendComplete
  <2>2. CASE ~CommGone(b) /\ taskOk[b] BY <1>7, <2>2 DEF SendComplete
  <2>3. CASE ~CommGone(b) /\ ~taskOk[b] BY <1>7, <2>3 DEF SendComplete
  <2> QED BY <2>1, <2>2, <2>3
<1>8. CASE SendAck(b)         BY <1>8 DEF SendAck
<1> QED BY <1>1, <1>2, <1>3, <1>4, <1>5, <1>6, <1>7, <1>8 DEF BatchStep

\* The main thread touches the batches only when it dispatches one.
LEMMA MainFrame ==
  ASSUME MainStep \/ TimeOut \/ SpuriousWakeup
  PROVE  /\ UNCHANGED <<taskOk, accepted, rejected, success, ranOk, ackStage>>
         /\ UNCHANGED fault
         /\ UNCHANGED bpc \/ Dispatch
BY DEF MainStep, StartRun, Dispatch, EndDispatch, WaitFinished, FallAsleep,
       UnregisterHandler, StopComm, ShutdownSimulator, MainReturns,
       DestroyCoordinator, ExitProcess, TimeOut, SpuriousWakeup, MakeReport,
       SimShutdownStep, CancelTasks, ResetExecutor, ResetComm, SimGoto,
       satVars, batchVars, commVars

\* Dispatching turns one untouched batch into a spawned one.
LEMMA DispatchEffect ==
  ASSUME TypeOK, DispatchInv, Dispatch
  PROVE  \/ UNCHANGED bpc
         \/ /\ next \in Batches
            /\ bpc[next] = "unsent" /\ bpc' = [bpc EXCEPT ![next] = "spawned"]
            /\ NumTasks[Order[next]] # 0
BY OrderType DEF TypeOK, DispatchInv, Dispatch, SpawnBatch, Batches

\* A handler thread moves an existing ACK along, and leaves the batches alone.
LEMMA HandlerFrame ==
  ASSUME TypeOK,
         HandleNote \/ \E b \in Batches : RecordAck(b) \/ NotifyMain(b)
  PROVE  /\ UNCHANGED batchVars
         /\ \A b \in Batches : ackStage'[b] = "unsent" <=> ackStage[b] = "unsent"
<1> USE DEF TypeOK, SatTypeOK, coordVars, commVars, batchVars, Crash
<1>1. CASE HandleNote BY <1>1 DEF HandleNote
<1>2. ASSUME NEW b \in Batches, RecordAck(b)
      PROVE  /\ UNCHANGED batchVars
             /\ \A c \in Batches : ackStage'[c] = "unsent" <=> ackStage[c] = "unsent"
  BY <1>2 DEF RecordAck
<1>3. ASSUME NEW b \in Batches, NotifyMain(b)
      PROVE  /\ UNCHANGED batchVars
             /\ \A c \in Batches : ackStage'[c] = "unsent" <=> ackStage[c] = "unsent"
  BY <1>3 DEF NotifyMain
<1> QED BY <1>1, <1>2, <1>3

\* The four kinds of step of Next.
LEMMA NextCases ==
  ASSUME [Next]_vars
  PROVE  \/ MainStep \/ TimeOut \/ SpuriousWakeup
         \/ HandleNote \/ \E b \in Batches : RecordAck(b) \/ NotifyMain(b)
         \/ \E b \in Batches : RunBatch(b)
         \/ UNCHANGED vars
BY DEF Next, Live

\* Every step keeps the tallies and the ACKs consistent.
LEMMA TallyStep ==
  ASSUME TypeOK, TypeOK', DispatchInv, [Next]_vars,
         \A b \in Batches : BatchInv(b) /\ AckInv(b)
  PROVE  \A b \in Batches : (BatchInv(b) /\ AckInv(b))'
<1> TAKE c \in Batches
<1>0. BatchInv(c) /\ AckInv(c) OBVIOUS
<1>1. CASE MainStep \/ TimeOut \/ SpuriousWakeup
  <2>1. \/ bpc'[c] = bpc[c]
        \/ bpc[c] = "unsent" /\ bpc'[c] = "spawned"
    BY <1>1, MainFrame, DispatchEffect DEF TypeOK, SatTypeOK
  <2> QED BY <1>0, <1>1, <2>1, MainFrame DEF BatchInv, AckInv, InTask
<1>2. CASE HandleNote \/ \E b \in Batches : RecordAck(b) \/ NotifyMain(b)
  BY <1>0, <1>2, HandlerFrame DEF BatchInv, AckInv, InTask, batchVars
<1>3. ASSUME NEW b \in Batches, RunBatch(b)
      PROVE  (BatchInv(c) /\ AckInv(c))'
  <2>1. CASE c = b BY <1>0, <1>3, <2>1, BatchStepOwnInv DEF RunBatch
  <2>2. CASE c # b
    BY <1>0, <1>3, <2>2, OtherBatches DEF RunBatch, BatchInv, AckInv, InTask
  <2> QED BY <2>1, <2>2
<1>4. CASE UNCHANGED vars
  BY <1>0, <1>4 DEF BatchInv, AckInv, InTask, vars, satVars
<1> QED BY <1>1, <1>2, <1>3, <1>4, NextCases

\* A thread that is done stays done, and its tallies stand.
LEMMA DoneStands ==
  ASSUME TypeOK, DispatchInv, [Next]_vars, NEW c \in Batches, bpc[c] = "done"
  PROVE  bpc'[c] = "done" /\ ranOk'[c] = ranOk[c]
<1>1. CASE MainStep \/ TimeOut \/ SpuriousWakeup
  BY <1>1, MainFrame, DispatchEffect DEF TypeOK, SatTypeOK
<1>2. CASE HandleNote \/ \E b \in Batches : RecordAck(b) \/ NotifyMain(b)
  BY <1>2, HandlerFrame DEF batchVars
<1>3. ASSUME NEW b \in Batches, RunBatch(b)
      PROVE  bpc'[c] = "done" /\ ranOk'[c] = ranOk[c]
  <2>1. c # b
    BY <1>3 DEF RunBatch, BatchStep, ParseBatch, SendProgress, LookUpBehavior,
         EnterExecutor, LockRuntime, FinishExecution, SendComplete, SendAck
  <2> QED BY <1>3, <2>1, OtherBatches DEF RunBatch
<1>4. CASE UNCHANGED vars BY <1>4 DEF vars, satVars
<1> QED BY <1>1, <1>2, <1>3, <1>4, NextCases

\* What a satellite has earned it keeps.
LEMMA EarnedStands ==
  ASSUME TypeOK, DispatchInv, [Next]_vars, NEW s, EarnedAndDone(s)
  PROVE  EarnedAndDone(s)'
BY DoneStands DEF EarnedAndDone, Batches

-----------------------------------------------------------------------------
(* The main thread's progress.                                             *)

\* A batch step and a handler step leave the main thread's variables alone,
\* except that a handler may wake it up.
LEMMA ThreadFrame ==
  ASSUME \/ \E b \in Batches : RunBatch(b)
         \/ HandleNote
         \/ \E b \in Batches : RecordAck(b) \/ NotifyMain(b)
         \/ UNCHANGED vars
  PROVE  UNCHANGED <<pc, next, tracked, gaveUp, report, sim>>
BY DEF RunBatch, coordVars, HandleNote, RecordAck, NotifyMain, mainVars,
       trackVars, vars, satVars, Crash, BatchStep, ParseBatch, SendProgress,
       LookUpBehavior, EnterExecutor, LockRuntime, FinishExecution,
       SendComplete, SendAck

\* Only the main thread and RecordAck write the verdicts.
LEMMA VerdictFrame ==
  ASSUME \/ \E b \in Batches : RunBatch(b)
         \/ HandleNote
         \/ \E b \in Batches : NotifyMain(b)
         \/ UNCHANGED vars
  PROVE  UNCHANGED <<finished, succeeded>>
BY DEF RunBatch, coordVars, HandleNote, NotifyMain, trackVars, vars

\* A thread that has started is never again unsent.
LEMMA StartedStays ==
  ASSUME TypeOK, NEW b \in Batches, RunBatch(b), NEW c \in Batches
  PROVE  bpc[c] = "unsent" <=> bpc'[c] = "unsent"
<1>1. CASE c # b BY <1>1, OtherBatches DEF RunBatch
<1>2. CASE c = b
  BY <1>2 DEF RunBatch, TypeOK, SatTypeOK, Goto, Crash, AfterTask, batchVars,
       BatchStep, ParseBatch, SendProgress, LookUpBehavior, EnterExecutor,
       LockRuntime, FinishExecution, SendComplete, SendAck
<1> QED BY <1>1, <1>2

\* Every step keeps the batches ahead of the loop untouched.
LEMMA DispatchInvStep ==
  ASSUME TypeOK, DispatchInv, [Next]_vars
  PROVE  DispatchInv'
<1> USE DEF DispatchInv
<1>1. CASE MainStep \/ TimeOut \/ SpuriousWakeup
  <2>1. CASE Dispatch
    BY <2>1, DispatchEffect DEF Dispatch, TypeOK, SatTypeOK, Batches
  <2>2. CASE ~Dispatch
    <3>1. UNCHANGED bpc BY <1>1, <2>2, MainFrame
    <3>2. pc' \in {"start", "dispatch"} => pc = "start" \/ UNCHANGED <<pc, next>>
      BY <1>1, <2>2
      DEF MainStep, StartRun, EndDispatch, WaitFinished, FallAsleep,
          UnregisterHandler, StopComm, ShutdownSimulator, MainReturns,
          DestroyCoordinator, ExitProcess, TimeOut, SpuriousWakeup,
          MakeReport, coordVars
    <3>3. pc = "start" => UNCHANGED next
      BY <1>1, <2>2
      DEF MainStep, StartRun, EndDispatch, WaitFinished, FallAsleep,
          UnregisterHandler, StopComm, ShutdownSimulator, MainReturns,
          DestroyCoordinator, ExitProcess, TimeOut, SpuriousWakeup,
          MakeReport, coordVars
    <3> QED BY <3>1, <3>2, <3>3 DEF Batches
  <2> QED BY <2>1, <2>2
<1>2. CASE HandleNote \/ \E b \in Batches : RecordAck(b) \/ NotifyMain(b)
  BY <1>2, ThreadFrame, HandlerFrame DEF batchVars, Batches
<1>3. ASSUME NEW b \in Batches, RunBatch(b) PROVE DispatchInv'
  BY <1>3, ThreadFrame, StartedStays DEF Batches
<1>4. CASE UNCHANGED vars BY <1>4 DEF vars, satVars, coordVars, Batches
<1> QED BY <1>1, <1>2, <1>3, <1>4, NextCases

\* Every step keeps the tracked satellites those that have tasks.
LEMMA TrackInvStep ==
  ASSUME TypeOK, DispatchInv, TrackInv, [Next]_vars
  PROVE  TrackInv'
<1> USE DEF TrackInv
<1>1. CASE MainStep \/ TimeOut \/ SpuriousWakeup
  <2>1. tracked' = IF pc' = "start" THEN {} ELSE WithTasks
    BY <1>1
    DEF MainStep, StartRun, Dispatch, EndDispatch, WaitFinished, FallAsleep,
        UnregisterHandler, StopComm, ShutdownSimulator, MainReturns,
        DestroyCoordinator, ExitProcess, TimeOut, SpuriousWakeup, MakeReport,
        coordVars, trackVars
  <2>2. CASE Dispatch
    <3>1. tracked = WithTasks /\ tracked' = WithTasks
      BY <2>2 DEF Dispatch, trackVars
    <3>2. CASE UNCHANGED bpc BY <2>1, <3>1, <3>2 DEF Batches
    <3>3. CASE /\ next \in Batches
               /\ bpc' = [bpc EXCEPT ![next] = "spawned"]
               /\ NumTasks[Order[next]] # 0
      <4>1. Order[next] \in WithTasks
        BY <3>3, OrderType DEF WithTasks, Simulators
      <4> QED BY <2>1, <3>1, <3>3, <4>1 DEF Batches, TypeOK, SatTypeOK
    <3> QED BY <2>2, <3>2, <3>3, DispatchEffect
  <2>3. CASE ~Dispatch
    <3>1. UNCHANGED bpc BY <1>1, <2>3, MainFrame
    <3>2. CASE pc # "start"
      <4>1. pc' # "start"
        BY <1>1, <2>3, <3>2
        DEF MainStep, StartRun, EndDispatch, WaitFinished, FallAsleep,
            UnregisterHandler, StopComm, ShutdownSimulator, MainReturns,
            DestroyCoordinator, ExitProcess, TimeOut, SpuriousWakeup,
            MakeReport, coordVars
      <4> QED BY <2>1, <3>1, <3>2, <4>1 DEF Batches
    <3>3. CASE pc = "start"
      <4>1. \A b \in Batches : bpc[b] = "unsent"
        BY <3>3, OrderType DEF DispatchInv, Batches
      <4> QED BY <2>1, <3>1, <4>1 DEF Batches
    <3> QED BY <3>2, <3>3
  <2> QED BY <2>2, <2>3
<1>2. CASE HandleNote \/ \E b \in Batches : RecordAck(b) \/ NotifyMain(b)
  BY <1>2, ThreadFrame, HandlerFrame DEF batchVars, Batches, WithTasks,
     Simulators
<1>3. ASSUME NEW b \in Batches, RunBatch(b) PROVE TrackInv'
  BY <1>3, ThreadFrame, StartedStays DEF Batches, WithTasks, Simulators
<1>4. CASE UNCHANGED vars
  BY <1>4 DEF vars, satVars, coordVars, Batches, WithTasks, Simulators
<1> QED BY <1>1, <1>2, <1>3, <1>4, NextCases

-----------------------------------------------------------------------------
(* Successes are earned.                                                   *)

\* An ACK that reports success comes from a batch that ran to the end.
LEMMA AckIsEarned ==
  ASSUME TypeOK, NEW b \in Batches, BatchInv(b), AckInv(b),
         ackStage[b] # "unsent", success[b]
  PROVE  EarnedAndDone(Order[b])
<1>1. bpc[b] = "done" BY DEF AckInv
<1>2. accepted[b] = NumTasks[Order[b]] /\ ranOk[b] = accepted[b]
  BY <1>1, OrderType DEF BatchInv, TypeOK, SatTypeOK
<1> QED BY <1>1, <1>2 DEF EarnedAndDone

\* Every step keeps each success resting on a finished batch.
LEMMA SuccessInvStep ==
  ASSUME TypeOK, DispatchInv, SuccessInv, [Next]_vars,
         \A b \in Batches : BatchInv(b) /\ AckInv(b)
  PROVE  SuccessInv'
<1> SUFFICES ASSUME NEW s \in (succeeded \union report)'
             PROVE  EarnedAndDone(s)'
  BY DEF SuccessInv
<1>1. CASE MainStep \/ TimeOut \/ SpuriousWakeup
  <2>1. s \in succeeded \union report
    BY <1>1
    DEF MainStep, StartRun, Dispatch, EndDispatch, WaitFinished, FallAsleep,
        UnregisterHandler, StopComm, ShutdownSimulator, MainReturns,
        DestroyCoordinator, ExitProcess, TimeOut, SpuriousWakeup, MakeReport,
        coordVars, trackVars
  <2> QED BY <2>1, EarnedStands DEF SuccessInv
<1>2. ASSUME NEW b \in Batches, RecordAck(b) PROVE EarnedAndDone(s)'
  <2>1. CASE s \in succeeded \union report
    BY <2>1, EarnedStands DEF SuccessInv
  <2>2. CASE s \notin succeeded \union report
    <3>1. s = Order[b] /\ success[b] /\ ackStage[b] # "unsent"
      BY <1>2, <2>2 DEF RecordAck, AckSucceeds, trackVars, mainVars
    <3> QED BY <3>1, AckIsEarned, EarnedStands
  <2> QED BY <2>1, <2>2
<1>3. CASE \/ \E b \in Batches : RunBatch(b)
           \/ HandleNote
           \/ \E b \in Batches : NotifyMain(b)
           \/ UNCHANGED vars
  BY <1>3, ThreadFrame, VerdictFrame, EarnedStands DEF SuccessInv
<1> QED BY <1>1, <1>2, <1>3, NextCases

-----------------------------------------------------------------------------
(* Teardown and the verdicts of distinct satellites.                       *)

\* Every step keeps the teardown behind the report.
LEMMA PhaseInvStep ==
  ASSUME TypeOK, PhaseInv, AnswerInv, TrackInv, [Next]_vars,
         \A b \in Batches : BatchInv(b) /\ AckInv(b)
  PROVE  PhaseInv'
<1> USE DEF PhaseInv, Reported, TimedOut
<1>1. CASE MainStep \/ TimeOut \/ SpuriousWakeup
  <2>1. CASE StartRun    BY <2>1 DEF StartRun, satVars
  <2>2. CASE Dispatch    BY <2>2 DEF Dispatch, trackVars
  <2>3. CASE EndDispatch BY <2>3 DEF EndDispatch, satVars, trackVars
  <2>4. CASE WaitFinished
    BY <2>4 DEF WaitFinished, MakeReport, AllFinished, satVars
  <2>5. CASE FallAsleep  BY <2>5 DEF FallAsleep, satVars, trackVars
  <2>6. CASE UnregisterHandler
    BY <2>6 DEF UnregisterHandler, trackVars
  <2>7. CASE StopComm    BY <2>7 DEF StopComm, trackVars
  <2>8. CASE ShutdownSimulator
    BY <2>8 DEF ShutdownSimulator, coordVars
  <2>9. CASE MainReturns BY <2>9 DEF MainReturns, satVars, trackVars
  <2>10. CASE DestroyCoordinator
    BY <2>10 DEF DestroyCoordinator, satVars, trackVars
  <2>11. CASE ExitProcess BY <2>11 DEF ExitProcess, satVars, trackVars
  <2>12. CASE TimeOut
    BY <2>12 DEF TimeOut, MakeReport, satVars, TypeOK
  <2>13. CASE SpuriousWakeup
    BY <2>13 DEF SpuriousWakeup, satVars, trackVars
  <2> QED BY <1>1, <2>1, <2>2, <2>3, <2>4, <2>5, <2>6, <2>7, <2>8, <2>9,
             <2>10, <2>11, <2>12, <2>13 DEF MainStep
<1>2. ASSUME NEW b \in Batches, RecordAck(b) PROVE PhaseInv'
  <2>1. UNCHANGED <<pc, gaveUp, report, tracked, sim>> BY <1>2, ThreadFrame
  <2>2. ackStage[b] = "inflight" BY <1>2 DEF RecordAck
  <2>3. bpc[b] = "done" BY <2>2 DEF AckInv
  <2>4. finished' = finished \/ finished' = finished \union {Order[b]}
    BY <1>2 DEF RecordAck, trackVars
  <2>5. Order[b] \in tracked BY <2>3 DEF TrackInv
  <2>6. ~(Reported /\ ~TimedOut /\ UniqueIds)
    <3> SUFFICES ASSUME Reported, ~TimedOut, UniqueIds PROVE FALSE
      OBVIOUS
    <3>1. Order[b] \in finished \ gaveUp BY <2>5
    <3> QED BY <2>2, <3>1 DEF AnswerInv
  <2>7. UniqueIds' <=> UniqueIds BY DEF UniqueIds, Batches
  <2> QED BY <2>1, <2>4, <2>5, <2>6, <2>7
<1>3. CASE \/ \E b \in Batches : RunBatch(b)
           \/ HandleNote
           \/ \E b \in Batches : NotifyMain(b)
           \/ UNCHANGED vars
  BY <1>3, ThreadFrame, VerdictFrame DEF UniqueIds, Batches
<1> QED BY <1>1, <1>2, <1>3, NextCases

\* What an ACK means depends only on its batch.
LEMMA AckMeaning ==
  ASSUME NEW b \in Batches, accepted'[b] = accepted[b],
         rejected'[b] = rejected[b], success'[b] = success[b]
  PROVE  AckSucceeds(b)' <=> AckSucceeds(b)
BY DEF AckSucceeds

\* The thread of an ACK is done, so no batch step changes the ACK.
LEMMA AnsweredStands ==
  ASSUME TypeOK, NEW b \in Batches, RunBatch(b),
         NEW c \in Batches, bpc[c] = "done"
  PROVE  /\ bpc'[c] = "done" /\ ackStage'[c] = ackStage[c]
         /\ AckSucceeds(c)' <=> AckSucceeds(c)
<1>1. c # b
  BY DEF RunBatch, BatchStep, ParseBatch, SendProgress, LookUpBehavior,
         EnterExecutor, LockRuntime, FinishExecution, SendComplete, SendAck
<1> QED BY <1>1, OtherBatches, AckMeaning DEF RunBatch

\* Every step keeps the verdicts equal to what the ACKs said.
LEMMA AnswerInvStep ==
  ASSUME TypeOK, PhaseInv, AnswerInv, TrackInv, DispatchInv, [Next]_vars,
         \A b \in Batches : BatchInv(b) /\ AckInv(b)
  PROVE  AnswerInv'
<1> SUFFICES ASSUME UniqueIds, NEW c \in Batches,
                    Order[c] \in finished' \ gaveUp'
             PROVE  /\ bpc'[c] = "done"
                    /\ ackStage'[c] \in {"recorded", "handled"}
                    /\ Order[c] \in succeeded' <=> AckSucceeds(c)'
  BY DEF AnswerInv, UniqueIds, Batches, AckSucceeds
<1> DEFINE Answered == /\ bpc[c] = "done"
                       /\ ackStage[c] \in {"recorded", "handled"}
                       /\ Order[c] \in succeeded <=> AckSucceeds(c)
<1>0. Order[c] \in finished \ gaveUp => Answered BY DEF AnswerInv
<1>1. CASE MainStep \/ TimeOut \/ SpuriousWakeup
  <2>1. /\ Order[c] \in finished \ gaveUp
        /\ Order[c] \in succeeded' <=> Order[c] \in succeeded
    <3>1. CASE TimeOut
      BY <3>1 DEF TimeOut, MakeReport, PhaseInv, Reported
    <3>2. CASE StartRun BY <3>2 DEF StartRun
    <3>3. CASE ~TimeOut /\ ~StartRun
      BY <1>1, <3>3
      DEF MainStep, Dispatch, EndDispatch, WaitFinished, FallAsleep,
          UnregisterHandler, StopComm, ShutdownSimulator, MainReturns,
          DestroyCoordinator, ExitProcess, SpuriousWakeup, MakeReport,
          coordVars, trackVars
    <3> QED BY <3>1, <3>2, <3>3
  <2>2. Answered BY <1>0, <2>1
  <2>3. bpc'[c] = "done" BY <2>2, DoneStands
  <2>4. ackStage'[c] = ackStage[c] /\ (AckSucceeds(c)' <=> AckSucceeds(c))
    BY <1>1, MainFrame, AckMeaning
  <2> QED BY <2>1, <2>2, <2>3, <2>4
<1>2. ASSUME NEW b \in Batches, RunBatch(b)
      PROVE  /\ bpc'[c] = "done"
             /\ ackStage'[c] \in {"recorded", "handled"}
             /\ Order[c] \in succeeded' <=> AckSucceeds(c)'
  <2>1. UNCHANGED <<finished, succeeded, gaveUp>>
    BY <1>2, VerdictFrame, ThreadFrame
  <2>2. Answered BY <1>0, <2>1
  <2> QED BY <1>2, <2>1, <2>2, AnsweredStands
<1>3. ASSUME NEW b \in Batches, RecordAck(b)
      PROVE  /\ bpc'[c] = "done"
             /\ ackStage'[c] \in {"recorded", "handled"}
             /\ Order[c] \in succeeded' <=> AckSucceeds(c)'
  <2>1. /\ UNCHANGED gaveUp /\ UNCHANGED batchVars
        /\ AckSucceeds(c)' <=> AckSucceeds(c)
    BY <1>3, ThreadFrame, HandlerFrame, AckMeaning DEF batchVars
  <2>2. bpc[b] = "done" BY <1>3 DEF RecordAck, AckInv
  <2>3. CASE c = b
    <3>1. Order[b] \in tracked BY <2>2 DEF TrackInv
    <3>2. Order[b] \notin finished \ gaveUp
      BY <1>3 DEF RecordAck, AnswerInv
    <3>3. ~CoordinatorGone
      BY <1>3, <2>1, <2>3, <3>2 DEF RecordAck, trackVars
    <3>4. /\ ackStage'[b] = "recorded"
          /\ Order[b] \in succeeded' <=> AckSucceeds(b)
      BY <1>3, <3>1, <3>3 DEF RecordAck, TypeOK, SatTypeOK
    <3> QED BY <2>1, <2>2, <2>3, <3>4 DEF batchVars
  <2>4. CASE c # b
    <3>1. Order[c] # Order[b] BY <2>4 DEF UniqueIds
    <3>2. /\ Order[c] \in finished' <=> Order[c] \in finished
          /\ Order[c] \in succeeded' <=> Order[c] \in succeeded
          /\ ackStage'[c] = ackStage[c]
      BY <1>3, <2>4, <3>1
      DEF RecordAck, trackVars, Crash, commVars, TypeOK, SatTypeOK
    <3>3. Answered BY <1>0, <2>1, <3>2
    <3> QED BY <2>1, <3>2, <3>3 DEF batchVars
  <2> QED BY <2>3, <2>4
<1>4. CASE HandleNote \/ \E b \in Batches : NotifyMain(b)
  <2>1. UNCHANGED <<finished, succeeded, gaveUp>>
    BY <1>4, VerdictFrame, ThreadFrame
  <2>2. Answered BY <1>0, <2>1
  <2>3. UNCHANGED batchVars /\ (AckSucceeds(c)' <=> AckSucceeds(c))
    BY <1>4, HandlerFrame, AckMeaning DEF batchVars
  <2>4. ackStage'[c] = ackStage[c] \/ ackStage'[c] = "handled"
    BY <1>4 DEF HandleNote, NotifyMain, Crash, commVars, TypeOK, SatTypeOK
  <2> QED BY <2>1, <2>2, <2>3, <2>4 DEF batchVars
<1>5. CASE UNCHANGED vars
  BY <1>0, <1>5, AckMeaning DEF vars, satVars, coordVars
<1> QED BY <1>1, <1>2, <1>3, <1>4, <1>5, NextCases

\* A thread that still runs when its simulator is being shut down belongs to
\* a satellite that did not answer in time.
LEMMA LateThreadMeansTimeout ==
  ASSUME TypeOK, PhaseInv, AnswerInv, TrackInv, UniqueIds,
         NEW b \in Batches, bpc[b] \notin {"unsent", "done"},
         sim[Order[b]] # "live"
  PROVE  TimedOut
<1> SUFFICES ASSUME ~TimedOut PROVE FALSE
  OBVIOUS
<1>1. Reported BY OrderType DEF PhaseInv
<1>2. Order[b] \in finished \ gaveUp
  BY <1>1 DEF PhaseInv, TrackInv, TimedOut
<1> QED BY <1>2 DEF AnswerInv

\* No step of a satellite faults without a timeout before it.
LEMMA FaultInvStep ==
  ASSUME TypeOK, PhaseInv, AnswerInv, TrackInv, FaultInv, [Next]_vars
  PROVE  FaultInv'
<1> SUFFICES ASSUME fault' \in {"null_comm", "freed_executor"}, UniqueIds
             PROVE  TimedOut'
  BY DEF FaultInv, UniqueIds, Batches
<1>1. CASE MainStep \/ TimeOut \/ SpuriousWakeup
  <2>1. TimedOut BY <1>1, MainFrame DEF FaultInv
  <2>2. Reported \/ UNCHANGED gaveUp BY <2>1 DEF PhaseInv, TimedOut
  <2> QED BY <1>1, <2>1, <2>2
      DEF PhaseInv, TimedOut, Reported, MainStep, StartRun, Dispatch,
          EndDispatch, WaitFinished, FallAsleep, UnregisterHandler, StopComm,
          ShutdownSimulator, MainReturns, DestroyCoordinator, ExitProcess,
          TimeOut, SpuriousWakeup, coordVars
<1>2. ASSUME NEW b \in Batches, RunBatch(b) PROVE TimedOut'
  <2>1. UNCHANGED gaveUp BY <1>2, ThreadFrame
  <2>2. CASE fault' = fault BY <2>1, <2>2 DEF FaultInv, TimedOut
  <2>3. CASE fault' # fault
    <3>1. bpc[b] \notin {"unsent", "done"} /\ sim[Order[b]] # "live"
      BY <1>2, <2>3
      DEF RunBatch, BatchStep, ParseBatch, SendProgress, LookUpBehavior,
          EnterExecutor, LockRuntime, FinishExecution, SendComplete, SendAck,
          CommGone, ExecutorGone
    <3> QED BY <2>1, <3>1, LateThreadMeansTimeout DEF TimedOut
  <2> QED BY <2>2, <2>3
<1>3. CASE HandleNote \/ \E b \in Batches : RecordAck(b) \/ NotifyMain(b)
  <2>1. UNCHANGED gaveUp BY <1>3, ThreadFrame
  <2>2. fault' = fault
    BY <1>3 DEF HandleNote, RecordAck, NotifyMain, Crash
  <2> QED BY <2>1, <2>2 DEF FaultInv, TimedOut
<1>4. CASE UNCHANGED vars
  BY <1>4 DEF FaultInv, TimedOut, vars, satVars, coordVars
<1> QED BY <1>1, <1>2, <1>3, <1>4, NextCases

-----------------------------------------------------------------------------

\* The invariant holds initially.
LEMMA InitInv == Init => IInv
<1> SUFFICES ASSUME Init PROVE IInv
  OBVIOUS
<1>1. TypeOK BY InitType
<1>2. ASSUME NEW b \in Batches PROVE BatchInv(b) /\ AckInv(b)
  BY <1>2 DEF Init, SatInit, BatchInv, AckInv, InTask
<1>3. DispatchInv BY OrderType DEF Init, SatInit, DispatchInv, Batches
<1>4. SuccessInv /\ TrackInv BY DEF Init, SatInit, SuccessInv, TrackInv
<1>5. PhaseInv /\ AnswerInv /\ FaultInv
  BY DEF Init, SatInit, PhaseInv, AnswerInv, FaultInv, Reported
<1> QED BY <1>1, <1>2, <1>3, <1>4, <1>5 DEF IInv

\* The invariant is inductive.
LEMMA NextInv == IInv /\ [Next]_vars => IInv'
<1> SUFFICES ASSUME IInv, [Next]_vars PROVE IInv'
  OBVIOUS
<1> USE DEF IInv
<1>1. TypeOK' BY NextType
<1>2. \A b \in Batches : (BatchInv(b) /\ AckInv(b))' BY <1>1, TallyStep
<1>3. DispatchInv' BY DispatchInvStep
<1>4. SuccessInv' BY SuccessInvStep
<1>5. TrackInv' BY TrackInvStep
<1>6. PhaseInv' BY PhaseInvStep
<1>7. AnswerInv' BY AnswerInvStep
<1>8. FaultInv' BY FaultInvStep
<1> QED BY <1>1, <1>2, <1>3, <1>4, <1>5, <1>6, <1>7, <1>8 DEF Batches

\* The invariant holds in every reachable state.
THEOREM Invariance == Spec => []IInv
BY InitInv, NextInv, PTL DEF Spec

\* Every success in the result maps or in the report is backed by a batch
\* whose tasks the executor all ran to success.
THEOREM SuccessEarned == Spec => []SuccessIsEarned
<1>1. IInv => SuccessIsEarned
  BY DEF IInv, SuccessInv, EarnedAndDone, SuccessIsEarned, Earned
<1> QED BY <1>1, Invariance, PTL

\* With distinct ids and no timeout, shutdown() meets no live batch thread:
\* comm_ and executor_ are not missed.
THEOREM FaultNeedsTimeout == Spec => []SatelliteFaultNeedsTimeout
<1>1. IInv => SatelliteFaultNeedsTimeout
  BY DEF IInv, FaultInv, SatelliteFaultNeedsTimeout
<1> QED BY <1>1, Invariance, PTL

\* With distinct ids and no timeout, every ACK is in the maps when run()
\* returns.
THEOREM AcksPrecede == Spec => []AcksPrecedeTeardown
<1>1. IInv => AcksPrecedeTeardown
  BY DEF IInv, PhaseInv, AnswerInv, TimedOut, AcksPrecedeTeardown
<1> QED BY <1>1, Invariance, PTL

\* With distinct ids and no timeout the report is exact.
THEOREM ReportExact == Spec => []ReportIsExact
<1>1. IInv => ReportIsExact
  <2> SUFFICES ASSUME IInv, Reported, UniqueIds, ~TimedOut
               PROVE  report = {s \in tracked : Earned(s)}
    BY DEF ReportIsExact
  <2>1. report = succeeded /\ finished = tracked /\ succeeded \subseteq tracked
    BY DEF IInv, PhaseInv, TypeOK
  <2>2. \A s \in succeeded : Earned(s)
    BY DEF IInv, SuccessInv, EarnedAndDone, Earned
  <2>3. ASSUME NEW s \in tracked, Earned(s) PROVE s \in succeeded
    <3>1. PICK b \in Batches : Order[b] = s /\ ranOk[b] = NumTasks[s]
      BY <2>3 DEF Earned
    <3>2. bpc[b] = "done" /\ (s \in succeeded <=> AckSucceeds(b))
      BY <2>1, <3>1 DEF IInv, AnswerInv, TimedOut
    <3>3. BatchInv(b) /\ SatTypeOK BY DEF IInv, TypeOK
    <3>4. accepted[b] = NumTasks[Order[b]] BY <3>1, <3>2, <3>3 DEF BatchInv, SatTypeOK
    <3>5. NumTasks[Order[b]] > 0
      BY <3>1, OrderType DEF IInv, TrackInv, Reported, WithTasks
    <3>6. rejected[b] = 0
      BY <3>2, <3>3, <3>4, OrderType DEF BatchInv, SatTypeOK
    <3>7. success[b]
      BY <3>2, <3>3, <3>4, <3>5, <3>6, OrderType DEF BatchInv, SatTypeOK
    <3>8. AckSucceeds(b)
      BY <3>4, <3>6, <3>7, OrderType DEF AckSucceeds
    <3> QED BY <3>2, <3>8
  <2> QED BY <2>1, <2>2, <2>3
<1> QED BY <1>1, Invariance, PTL

\* With distinct ids the verdict on a satellite that answered in time is never
\* rewritten: there is no second ACK, and shutdown() writes no verdict.
THEOREM VerdictFinal == Spec => VerdictIsFinal
<1>1. IInv /\ [Next]_vars =>
        [UniqueIds => \A s \in finished \ gaveUp :
           s \in finished' /\ (s \in succeeded' <=> s \in succeeded)]_vars
  <2> SUFFICES ASSUME IInv, [Next]_vars, UniqueIds, NEW s \in finished \ gaveUp
               PROVE  s \in finished' /\ (s \in succeeded' <=> s \in succeeded)
    OBVIOUS
  <2>1. CASE MainStep \/ TimeOut \/ SpuriousWakeup
    <3>1. ~StartRun BY DEF StartRun, IInv, TypeOK, PhaseInv, TrackInv
    <3> QED BY <2>1, <3>1
        DEF MainStep, Dispatch, EndDispatch, WaitFinished, FallAsleep,
            UnregisterHandler, StopComm, ShutdownSimulator, MainReturns,
            DestroyCoordinator, ExitProcess, TimeOut, SpuriousWakeup,
            MakeReport, coordVars, trackVars, IInv, TypeOK
  <2>2. ASSUME NEW b \in Batches, RecordAck(b)
        PROVE  s \in finished' /\ (s \in succeeded' <=> s \in succeeded)
    <3>1. CASE s = Order[b]
      BY <2>2, <3>1 DEF RecordAck, IInv, AnswerInv
    <3>2. CASE s # Order[b]
      BY <2>2, <3>2 DEF RecordAck, trackVars
    <3> QED BY <3>1, <3>2
  <2>3. CASE \/ \E b \in Batches : RunBatch(b)
             \/ HandleNote
             \/ \E b \in Batches : NotifyMain(b)
             \/ UNCHANGED vars
    BY <2>3, VerdictFrame
  <2> QED BY <2>1, <2>2, <2>3, NextCases
<1> QED BY <1>1, Invariance, PTL DEF Spec, VerdictIsFinal

-----------------------------------------------------------------------------
(* The run implements DispatchOutcome, step by step.                       *)

\* Steps that change neither verdicts, report nor phase are stutters.
LEMMA PromiseStutters ==
  ASSUME UNCHANGED <<finished, succeeded, report>>, Reported' <=> Reported
  PROVE  UNCHANGED Promise!vars
<1>1. \A s : OutcomeOf(s)' = OutcomeOf(s) BY DEF OutcomeOf
<1>2. [s \in WithTasks |-> OutcomeOf(s)]' = [s \in WithTasks |-> OutcomeOf(s)]
  BY <1>1
<1> QED BY <1>2 DEF Promise!vars, Reported

\* run() summing up is Close: unanswered satellites fail.
LEMMA PromiseCloses ==
  ASSUME IInv, WaitFinished \/ TimeOut
  PROVE  Promise!Close
<1>1. ~Reported /\ Reported'
  BY DEF WaitFinished, TimeOut, MakeReport, Reported
<1>2. tracked = WithTasks /\ finished \subseteq tracked /\ succeeded \subseteq tracked
  BY <1>1 DEF IInv, TypeOK, TrackInv, WaitFinished, TimeOut
<1>3. ASSUME NEW s \in WithTasks
      PROVE  OutcomeOf(s)' =
               IF OutcomeOf(s) = "pending" THEN "failed" ELSE OutcomeOf(s)
  BY <1>1, <1>2, <1>3
  DEF OutcomeOf, WaitFinished, TimeOut, MakeReport, AllFinished
<1>4. [s \in WithTasks |-> OutcomeOf(s)]' =
        [s \in WithTasks |->
           IF [t \in WithTasks |-> OutcomeOf(t)][s] = "pending" THEN "failed"
           ELSE [t \in WithTasks |-> OutcomeOf(t)][s]]
  BY <1>3
<1> QED BY <1>1, <1>4 DEF Promise!Close

\* An ACK recorded before the report settles its satellite, once.
LEMMA PromiseSettles ==
  ASSUME IInv, UniqueIds, NEW b \in Batches, RecordAck(b), ~Reported
  PROVE  Promise!Settle(Order[b])
<1> DEFINE s == Order[b]
           o == IF AckSucceeds(b) THEN "success" ELSE "failed"
<1>1. bpc[b] = "done" BY DEF RecordAck, IInv, AckInv
<1>2. s \in tracked /\ s \in WithTasks
  BY <1>1 DEF IInv, TrackInv
<1>3. s \notin finished
  BY DEF RecordAck, IInv, AnswerInv, PhaseInv
<1>4. /\ finished' = finished \union {s}
      /\ succeeded' = IF AckSucceeds(b) THEN succeeded \union {s}
                                        ELSE succeeded \ {s}
      /\ UNCHANGED <<report, pc>>
  BY <1>2 DEF RecordAck, CoordinatorGone, Reported, mainVars
<1>5. ~Reported' BY <1>4 DEF Reported
<1>6. ASSUME NEW t \in WithTasks
      PROVE  OutcomeOf(t)' = IF t = s THEN o ELSE OutcomeOf(t)
  BY <1>3, <1>4, <1>5 DEF OutcomeOf
<1>7. [t \in WithTasks |-> OutcomeOf(t)]' =
        [[t \in WithTasks |-> OutcomeOf(t)] EXCEPT ![s] = o]
  BY <1>2, <1>6
<1>8. [t \in WithTasks |-> OutcomeOf(t)][s] = "pending"
  BY <1>2, <1>3 DEF OutcomeOf
<1>9. Reported' = Reported BY <1>5 DEF Reported
<1>10. o \in {"success", "failed"} OBVIOUS
<1> HIDE DEF o, s
<1> QED BY <1>5, <1>7, <1>8, <1>9, <1>10 DEF Promise!Settle, s

\* Every step of the run is a step of DispatchOutcome or a stutter.
LEMMA PromiseStep ==
  ASSUME IInv, UniqueIds, [Next]_vars
  PROVE  [Promise!Next]_(Promise!vars)
<1>1. CASE WaitFinished \/ TimeOut BY <1>1, PromiseCloses DEF Promise!Next
<1>2. CASE (MainStep /\ ~WaitFinished) \/ SpuriousWakeup
  <2>1. UNCHANGED <<finished, succeeded, report>>
    <3>1. CASE StartRun BY <3>1 DEF StartRun, IInv, TypeOK, TrackInv
    <3>2. CASE ~StartRun
      BY <1>2, <3>2
      DEF MainStep, Dispatch, EndDispatch, FallAsleep, UnregisterHandler,
          StopComm, ShutdownSimulator, MainReturns, DestroyCoordinator,
          ExitProcess, SpuriousWakeup, coordVars, trackVars
    <3> QED BY <3>1, <3>2
  <2>2. Reported' <=> Reported
    BY <1>2
    DEF Reported, MainStep, StartRun, Dispatch, EndDispatch, FallAsleep,
        UnregisterHandler, StopComm, ShutdownSimulator, MainReturns,
        DestroyCoordinator, ExitProcess, SpuriousWakeup, coordVars
  <2> QED BY <2>1, <2>2, PromiseStutters
<1>3. ASSUME NEW b \in Batches, RecordAck(b)
      PROVE  [Promise!Next]_(Promise!vars)
  <2>1. CASE ~Reported
    <3>1. Order[b] \in WithTasks
      BY <1>3 DEF RecordAck, IInv, AckInv, TrackInv
    <3> QED BY <1>3, <2>1, <3>1, PromiseSettles DEF Promise!Next
  <2>2. CASE Reported
    <3>1. Reported' /\ UNCHANGED report
      BY <1>3, <2>2, ThreadFrame DEF Reported
    <3>2. \A s : OutcomeOf(s)' = OutcomeOf(s)
      BY <2>2, <3>1 DEF OutcomeOf
    <3>3. [s \in WithTasks |-> OutcomeOf(s)]' = [s \in WithTasks |-> OutcomeOf(s)]
      BY <3>2
    <3> QED BY <2>2, <3>1, <3>3 DEF Promise!vars
  <2> QED BY <2>1, <2>2
<1>4. CASE \/ \E b \in Batches : RunBatch(b)
           \/ HandleNote
           \/ \E b \in Batches : NotifyMain(b)
           \/ UNCHANGED vars
  BY <1>4, ThreadFrame, VerdictFrame, PromiseStutters DEF Reported
<1> QED BY <1>1, <1>2, <1>3, <1>4, NextCases

\* With distinct ids every run is a run of DispatchOutcome: one verdict per
\* satellite, missing answers count as failed, the report stands.
THEOREM PromiseKept ==
  ASSUME UniqueIds
  PROVE  Spec => Promise!SafeSpec
<1>1. Init => Promise!Init
  BY DEF Init, Promise!Init, OutcomeOf, Reported
<1>2. IInv /\ [Next]_vars => [Promise!Next]_(Promise!vars)
  BY PromiseStep
<1> QED BY <1>1, <1>2, Invariance, PTL DEF Spec, Promise!SafeSpec
=============================================================================
