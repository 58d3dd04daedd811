---------------------------- MODULE Coordinator -----------------------------
(***************************************************************************)
(* One run of the program after Coordinator::initialize(): the main thread *)
(* executes run(), then shutdown(), then returns from main(), while the    *)
(* batch threads of SatelliteSimulator and the detached handler threads of *)
(* the coordinator interleave with it.                                     *)
(*                                                                         *)
(* satellite_task_results_, _finished_ and _expected_counts_ have the same *)
(* keys, tracked; finished and succeeded are the keys that the first two   *)
(* map to true, and the third maps s to NumTasks[s].  Every block that     *)
(* holds task_status_mutex_ is one step.                                   *)
(***************************************************************************)
EXTENDS SatelliteSimulator

CONSTANT MayTimeOut   \* whether the 60 s of wait_for may run out

ASSUME TimeoutAssumption == MayTimeOut \in BOOLEAN

VARIABLES
  pc,           \* where the main thread is
  next,         \* the loop index of distributeAllTasks and of unregistering
  asleep,       \* the main thread blocks in task_status_cv_.wait_for
  tracked, finished, succeeded,
  gaveUp,       \* history: satellites marked failed because time ran out
  report        \* history: satellites counted as successful by run()

trackVars == <<tracked, finished, succeeded>>
mainVars  == <<pc, next, asleep, gaveUp, report>>
coordVars == <<pc, next, asleep, tracked, finished, succeeded, gaveUp, report>>
vars      == <<satVars, coordVars>>

MainStates == {"start", "dispatch", "waiting", "unregister", "stop_comm",
               "simulators", "returned", "destroyed", "gone"}

TypeOK ==
  /\ SatTypeOK
  /\ pc \in MainStates
  /\ next \in Nat
  /\ asleep \in BOOLEAN
  /\ tracked \subseteq Sats
  /\ finished \subseteq tracked
  /\ succeeded \subseteq tracked
  /\ gaveUp \subseteq Sats
  /\ report \subseteq Sats

Init ==
  /\ SatInit
  /\ pc = "start"
  /\ next = 1
  /\ asleep = FALSE
  /\ tracked = {} /\ finished = {} /\ succeeded = {}
  /\ gaveUp = {}
  /\ report = {}

\* Fault variant: a satellite without tasks is waited for as well.
AllSatellites == Simulators

\* The satellites run() waits for.
WithTasks == {s \in Simulators : NumTasks[s] > 0}

Reported == pc \notin {"start", "dispatch", "waiting"}
TimedOut == gaveUp # {}

-----------------------------------------------------------------------------
(* run()                                                                   *)

StartRun ==
  /\ pc = "start"
  /\ tracked' = WithTasks
  /\ finished' = {}
  /\ succeeded' = {}
  /\ pc' = "dispatch"
  /\ UNCHANGED <<satVars, next, asleep, gaveUp, report>>

\* One round of the loop of distributeAllTasks.
Dispatch ==
  /\ pc = "dispatch"
  /\ next <= Len(Order)
  /\ IF NumTasks[Order[next]] = 0 THEN UNCHANGED bpc ELSE SpawnBatch(next)
  /\ next' = next + 1
  /\ UNCHANGED <<taskOk, accepted, rejected, success, ranOk, sim, commVars,
                 fault, pc, asleep, trackVars, gaveUp, report>>

EndDispatch ==
  /\ pc = "dispatch"
  /\ next > Len(Order)
  /\ pc' = "waiting"
  /\ UNCHANGED <<satVars, next, asleep, trackVars, gaveUp, report>>

\* Fault variant: the first answer ends the wait.
AnyFinished == tracked # {} => finished # {}

AllFinished == finished = tracked

\* Fault variant: run() clears its expectations but not the results.
MakeReportUntracking(successes) ==
  /\ report' = successes
  /\ pc' = "unregister"
  /\ next' = 0
  /\ asleep' = FALSE
  /\ tracked' = {}
  /\ UNCHANGED satVars

\* The count of successes and everything to the end of run().
MakeReport(successes) ==
  /\ report' = successes
  /\ pc' = "unregister"
  /\ next' = 0
  /\ asleep' = FALSE
  /\ UNCHANGED <<satVars, tracked>>

\* Fault variant: answers are counted instead of successes.
WaitFinishedCountingAnswers ==
  /\ pc = "waiting" /\ ~asleep
  /\ AllFinished
  /\ MakeReport(finished)
  /\ UNCHANGED <<finished, succeeded, gaveUp>>

\* wait_for returns true: its predicate holds.
WaitFinished ==
  /\ pc = "waiting" /\ ~asleep
  /\ AllFinished
  /\ MakeReport(succeeded)
  /\ UNCHANGED <<finished, succeeded, gaveUp>>

FallAsleep ==
  /\ pc = "waiting" /\ ~asleep
  /\ ~AllFinished
  /\ asleep' = TRUE
  /\ UNCHANGED <<satVars, pc, next, trackVars, gaveUp, report>>

SpuriousWakeup ==
  /\ asleep
  /\ asleep' = FALSE
  /\ UNCHANGED <<satVars, pc, next, trackVars, gaveUp, report>>

\* Fault variant: the timeout fails every satellite, answered or not.
TimeOutFailingAll ==
  /\ MayTimeOut
  /\ pc = "waiting" /\ asleep
  /\ gaveUp' = tracked \ finished
  /\ finished' = tracked
  /\ succeeded' = {}
  /\ MakeReport(succeeded')

\* wait_for runs out of time and evaluates its predicate once more.
TimeOut ==
  /\ MayTimeOut
  /\ pc = "waiting" /\ asleep
  /\ gaveUp' = tracked \ finished
  /\ finished' = tracked
  /\ succeeded' = succeeded \ gaveUp'
  /\ MakeReport(succeeded')

-----------------------------------------------------------------------------
(* The coordinator's message handlers, each in a detached thread that      *)
(* holds a bare this pointer.                                              *)

CoordinatorGone == pc = "destroyed"

\* onCoordinatorTaskProgress and onCoordinatorTaskComplete.
HandleNote ==
  /\ notes > 0
  /\ IF CoordinatorGone
       THEN Crash("freed_coordinator")
       ELSE /\ notes' = notes - 1
            /\ UNCHANGED <<batchVars, sim, handlers, ackStage, fault>>
  /\ UNCHANGED coordVars

\* Fault variant: an ACK succeeds by the number of its tasks alone.
AckSucceedsByCount(b) == accepted[b] + rejected[b] = NumTasks[Order[b]]

\* What onCoordinatorBatchAck believes about the ACK of b.
AckSucceeds(b) ==
  LET processed == accepted[b] + rejected[b]
      expected  == NumTasks[Order[b]]
  IN  success[b] /\ ~(expected > 0 /\ processed > 0 /\ processed # expected)

\* onCoordinatorBatchAck up to the end of the locked block.
RecordAck(b) ==
  /\ ackStage[b] = "inflight"
  /\ IF CoordinatorGone
       THEN Crash("freed_coordinator") /\ UNCHANGED trackVars
       ELSE /\ IF Order[b] \in tracked
                 THEN /\ finished' = finished \union {Order[b]}
                      /\ succeeded' = IF AckSucceeds(b)
                                        THEN succeeded \union {Order[b]}
                                        ELSE succeeded \ {Order[b]}
                      /\ ackStage' = [ackStage EXCEPT ![b] = "recorded"]
                 ELSE /\ ackStage' = [ackStage EXCEPT ![b] = "handled"]
                      /\ UNCHANGED <<finished, succeeded>>
            /\ UNCHANGED <<batchVars, sim, handlers, notes, fault, tracked>>
  /\ UNCHANGED mainVars

\* Fault variant: nobody is notified.
NotifyNobody(b) ==
  /\ ackStage[b] = "recorded"
  /\ ackStage' = [ackStage EXCEPT ![b] = "handled"]
  /\ UNCHANGED <<batchVars, sim, handlers, notes, fault, coordVars>>

\* notify_all, after the lock is released.
NotifyMain(b) ==
  /\ ackStage[b] = "recorded"
  /\ IF CoordinatorGone
       THEN Crash("freed_coordinator") /\ UNCHANGED asleep
       ELSE /\ ackStage' = [ackStage EXCEPT ![b] = "handled"]
            /\ asleep' = FALSE
            /\ UNCHANGED <<batchVars, sim, handlers, notes, fault>>
  /\ UNCHANGED <<pc, next, trackVars, gaveUp, report>>

-----------------------------------------------------------------------------
(* shutdown(), the return from main() and the end of the process.          *)

\* Fault variant: the loop over satellite_ids does not advance.
UnregisterForEver ==
  /\ pc = "unregister"
  /\ handlers' = handlers \ {IF next = 0 THEN CoordId ELSE Order[next]}
  /\ IF next = Len(Order) THEN pc' = "stop_comm" ELSE UNCHANGED pc
  /\ UNCHANGED <<batchVars, sim, ackStage, notes, fault, next, asleep,
                 trackVars, gaveUp, report>>

\* One call of unregisterLocalHandler: the coordinator's, then each entry of
\* satellite_ids.
UnregisterHandler ==
  /\ pc = "unregister"
  /\ handlers' = handlers \ {IF next = 0 THEN CoordId ELSE Order[next]}
  /\ IF next = Len(Order)
       THEN pc' = "stop_comm" /\ UNCHANGED next
       ELSE next' = next + 1 /\ UNCHANGED pc
  /\ UNCHANGED <<batchVars, sim, ackStage, notes, fault, asleep, trackVars,
                 gaveUp, report>>

\* InterSatComm::stop(), and the registry's shutdown (module NodeRegistry).
StopComm ==
  /\ pc = "stop_comm"
  /\ handlers' = {}
  /\ pc' = "simulators"
  /\ UNCHANGED <<batchVars, sim, ackStage, notes, fault, next, asleep,
                 trackVars, gaveUp, report>>

\* The loop over simulators_ finishes one simulator before the next.
ShutdownSimulator ==
  /\ pc = "simulators"
  /\ \E s \in Simulators :
       /\ \A t \in Simulators \ {s} : sim[t] \in {"live", "down"}
       /\ SimShutdownStep(s)
  /\ UNCHANGED coordVars

MainReturns ==
  /\ pc = "simulators"
  /\ \A s \in Simulators : sim[s] = "down"
  /\ pc' = "returned"
  /\ UNCHANGED <<satVars, next, asleep, trackVars, gaveUp, report>>

\* Static destruction of g_coordinator; the other threads still run.
DestroyCoordinator ==
  /\ pc = "returned"
  /\ pc' = "destroyed"
  /\ UNCHANGED <<satVars, next, asleep, trackVars, gaveUp, report>>

ExitProcess ==
  /\ pc = "destroyed"
  /\ pc' = "gone"
  /\ UNCHANGED <<satVars, next, asleep, trackVars, gaveUp, report>>

-----------------------------------------------------------------------------

Ended == pc = "gone" \/ fault # "none"

MainStep ==
  \/ StartRun \/ Dispatch \/ EndDispatch
  \/ WaitFinished \/ FallAsleep
  \/ UnregisterHandler \/ StopComm \/ ShutdownSimulator
  \/ MainReturns \/ DestroyCoordinator \/ ExitProcess

RunBatch(b) == BatchStep(b) /\ UNCHANGED coordVars

Live(A) == ~Ended /\ A

Next ==
  \/ Live(MainStep)
  \/ Live(TimeOut)
  \/ Live(SpuriousWakeup)
  \/ Live(HandleNote)
  \/ \E b \in Batches : Live(RunBatch(b)) \/ Live(RecordAck(b)) \/ Live(NotifyMain(b))
  \/ Ended /\ UNCHANGED vars

Spec == Init /\ [][Next]_vars

\* The scheduler runs every runnable thread, the clock reaches 60 s, and no
\* behaviour command blocks for ever.  Spurious wakeups are owed to nobody.
Fairness ==
  /\ WF_vars(Live(MainStep))
  /\ WF_vars(Live(TimeOut))
  /\ WF_vars(Live(HandleNote))
  /\ \A b \in Batches : /\ WF_vars(Live(RunBatch(b)))
                        /\ WF_vars(Live(RecordAck(b)))
                        /\ WF_vars(Live(NotifyMain(b)))

FairSpec == Spec /\ Fairness

-----------------------------------------------------------------------------
(* Properties.                                                             *)

UniqueIds == \A b, c \in Batches : Order[b] = Order[c] => b = c

Earned(s) == \E b \in Batches : Order[b] = s /\ ranOk[b] = NumTasks[s]

\* A satellite stands as successful, or is counted so, only if the executor
\* really ran every task of one of its batches to success: no lost task, no
\* missing executor, no reordered or partial ACK can fake it
\* (onCoordinatorBatchAck, handleBatchTaskAssign).
SuccessIsEarned ==
  \A s \in succeeded \union report : Earned(s)

\* With distinct ids and no timeout the count is exact: run() sums up only
\* when each satellite has answered, and no success gets lost on the way.
ReportIsExact ==
  Reported /\ UniqueIds /\ ~TimedOut =>
    report = {s \in tracked : Earned(s)}

\* A batch thread finds its comm_ or executor_ gone only after run() has
\* given up on some satellite: with distinct ids, the ACKs run() waits for
\* mean that no batch thread is left for shutdown() to race with.
SatelliteFaultNeedsTimeout ==
  fault \in {"null_comm", "freed_executor"} /\ UniqueIds => TimedOut

\* Without a timeout, by the time run() returns each ACK that was sent has
\* entered the result maps: no ACK meets unregistered handlers or a
\* destroyed map.
AcksPrecedeTeardown ==
  Reported /\ UniqueIds /\ ~TimedOut =>
    \A b \in Batches : Order[b] \in tracked =>
      bpc[b] = "done" /\ ackStage[b] \in {"recorded", "handled"}

\* The verdict on a satellite that answered in time is never rewritten.
VerdictIsFinal ==
  [][UniqueIds => \A s \in finished \ gaveUp :
       s \in finished' /\ (s \in succeeded' <=> s \in succeeded)]_vars

\* A satellite that run() marked failed because its time was up stays failed
\* (the documentation: unfinished satellites are judged failed on timeout).
TimedOutStaysFailed == gaveUp \cap succeeded = {}

\* run() always returns, with the timeout or, when it never strikes, by the
\* ACKs and their notify_all alone: no wakeup is lost.
RunReturns == <>Reported

\* main() returns and the process ends, unless an access faulted before.
ProcessEnds == <>Ended

\* The run implements DispatchOutcome for the satellites that have tasks.
OutcomeOf(s) ==
  IF Reported THEN IF s \in report THEN "success" ELSE "failed"
  ELSE IF s \notin finished THEN "pending"
  ELSE IF s \in succeeded THEN "success" ELSE "failed"

Promise == INSTANCE DispatchOutcome WITH
  Satellites <- WithTasks,
  outcome    <- [s \in WithTasks |-> OutcomeOf(s)],
  closed     <- Reported

ImplementsPromise == Promise!Spec
=============================================================================
