------------------------- MODULE SatelliteSimulator -------------------------
(***************************************************************************)
(* The satellite side of a run: the detached threads in which a            *)
(* SatelliteSimulator works through a batch of tasks, the simulator's two  *)
(* shared pointers (comm_ and executor_) that its shutdown() drops, and    *)
(* the part of InterSatComm the threads use, the local delivery of         *)
(* sendMessage().                                                          *)
(*                                                                         *)
(* A batch is one BATCH_TASK_ASSIGN message: batch b is the b-th entry of  *)
(* the schedule's satellite_ids, so the same satellite owns two batches    *)
(* when its id is listed twice.  Messages to the coordinator are handled   *)
(* by one detached thread each.  TASK_PROGRESS and TASK_COMPLETE change    *)
(* nothing in the coordinator and only matter while their thread is alive: *)
(* notes counts them.  The ACK of batch b is ackStage[b]; its contents are *)
(* the locals of b, which its thread no longer changes once the ACK is     *)
(* sent.                                                                   *)
(***************************************************************************)
EXTENDS Naturals, Sequences

CONSTANTS
  Sats,           \* the satellite ids
  CoordId,        \* config_.coordinator_id
  Order,          \* schedule_.satellite_ids, duplicates included
  NumTasks,       \* satellite_tasks[s].size()
  Garbled         \* batches whose payload parseBatchTaskAssignPayload rejects

ASSUME ScheduleAssumption ==
  /\ Order \in Seq(Sats)
  /\ NumTasks \in [Sats -> Nat]
  /\ Garbled \subseteq 1..Len(Order)

ASSUME CoordinatorIdAssumption == CoordId \notin Sats

Batches == 1..Len(Order)

Simulators == {Order[b] : b \in Batches}

VARIABLES
  bpc,            \* where the thread of each batch is
  taskOk,         \* task_ok of the task in hand
  accepted,       \* ack.accepted_task_ids.size()
  rejected,       \* ack.rejected_task_ids.size()
  success,        \* all_success, then ack.accepted
  ranOk,          \* history: tasks the executor itself ran to success
  sim,            \* how far each simulator's shutdown() has come
  handlers,       \* the keys of local_handlers_
  ackStage,       \* the ACK of each batch
  notes,          \* live handler threads of TASK_PROGRESS / TASK_COMPLETE
  fault           \* the first access to an object that is gone

batchVars == <<bpc, taskOk, accepted, rejected, success, ranOk>>
commVars  == <<handlers, ackStage, notes>>
satVars   == <<bpc, taskOk, accepted, rejected, success, ranOk,
               sim, handlers, ackStage, notes, fault>>

BatchStates == {"unsent", "spawned", "progress", "check", "execute",
                "queued", "running", "complete", "ack", "done"}
SimStates   == {"live", "cancelled", "executor_reset", "down"}
AckStages   == {"unsent", "inflight", "recorded", "handled", "dropped"}
Faults      == {"none", "null_comm", "freed_executor", "freed_coordinator"}

SatTypeOK ==
  /\ bpc \in [Batches -> BatchStates]
  /\ taskOk \in [Batches -> BOOLEAN]
  /\ accepted \in [Batches -> Nat]
  /\ rejected \in [Batches -> Nat]
  /\ success \in [Batches -> BOOLEAN]
  /\ ranOk \in [Batches -> Nat]
  /\ sim \in [Sats -> SimStates]
  /\ handlers \subseteq Sats \union {CoordId}
  /\ ackStage \in [Batches -> AckStages]
  /\ notes \in Nat
  /\ fault \in Faults

\* Coordinator::initialize() has succeeded: every simulator has its executor
\* and comm_, and every handler is registered.
SatInit ==
  /\ bpc = [b \in Batches |-> "unsent"]
  /\ taskOk = [b \in Batches |-> FALSE]
  /\ accepted = [b \in Batches |-> 0]
  /\ rejected = [b \in Batches |-> 0]
  /\ success = [b \in Batches |-> TRUE]
  /\ ranOk = [b \in Batches |-> 0]
  /\ sim = [s \in Sats |-> "live"]
  /\ handlers = {CoordId} \union Simulators
  /\ ackStage = [b \in Batches |-> "unsent"]
  /\ notes = 0
  /\ fault = "none"

-----------------------------------------------------------------------------

CommGone(b)     == sim[Order[b]] = "down"
ExecutorGone(b) == sim[Order[b]] \in {"executor_reset", "down"}

\* Fault variant: the task loop runs once too often.
AfterTaskOneMore(b, processed) ==
  IF processed <= NumTasks[Order[b]] THEN "progress" ELSE "ack"

AfterTask(b, processed) ==
  IF processed < NumTasks[Order[b]] THEN "progress" ELSE "ack"

Goto(b, label) == bpc' = [bpc EXCEPT ![b] = label]

\* An access through a pointer that was reset, or to an object already
\* destroyed: undefined behaviour, after which nothing more is modelled.
Crash(kind) ==
  /\ fault' = kind
  /\ UNCHANGED <<batchVars, sim, commVars>>

\* sendMessage to the coordinator of a message it only parses: a detached
\* thread if the handler is registered, else the send queue, where the
\* message finds no connected node.
PostNote == notes' = IF CoordId \in handlers THEN notes + 1 ELSE notes

\* sendMessage of BATCH_TASK_ASSIGN to satellite Order[b].
SpawnBatch(b) ==
  bpc' = IF Order[b] \in handlers THEN [bpc EXCEPT ![b] = "spawned"] ELSE bpc

-----------------------------------------------------------------------------
(* handleBatchTaskAssign, one action per access to shared state.           *)

ParseBatch(b) ==
  /\ bpc[b] = "spawned"
  /\ IF b \in Garbled
       THEN Goto(b, "ack") /\ success' = [success EXCEPT ![b] = FALSE]
       ELSE Goto(b, AfterTask(b, 0)) /\ UNCHANGED success
  /\ UNCHANGED <<taskOk, accepted, rejected, ranOk, sim, commVars, fault>>

SendProgress(b) ==
  /\ bpc[b] = "progress"
  /\ IF CommGone(b)
       THEN Crash("null_comm")
       ELSE /\ PostNote
            /\ Goto(b, "check")
            /\ UNCHANGED <<taskOk, accepted, rejected, success, ranOk, sim,
                           handlers, ackStage, fault>>

\* executeSingleTask up to the behaviour lookup: the task fails without an
\* executor and when its behaviour cannot be loaded.
LookUpBehavior(b) ==
  /\ bpc[b] = "check"
  /\ \/ Goto(b, "complete") /\ taskOk' = [taskOk EXCEPT ![b] = FALSE]
     \/ ~ExecutorGone(b) /\ Goto(b, "execute") /\ UNCHANGED taskOk
  /\ UNCHANGED <<accepted, rejected, success, ranOk, sim, commVars, fault>>

\* executeTask: register the context, ...
EnterExecutor(b) ==
  /\ bpc[b] = "execute"
  /\ IF ExecutorGone(b)
       THEN Crash("freed_executor")
       ELSE /\ Goto(b, "queued")
            /\ UNCHANGED <<taskOk, accepted, rejected, success, ranOk, sim,
                           commVars, fault>>

\* ... take runtime_mutex_, ...
LockRuntime(b) ==
  /\ bpc[b] = "queued"
  /\ \A c \in Batches : Order[c] = Order[b] => bpc[c] # "running"
  /\ IF ExecutorGone(b)
       THEN Crash("freed_executor")
       ELSE /\ Goto(b, "running")
            /\ UNCHANGED <<taskOk, accepted, rejected, success, ranOk, sim,
                           commVars, fault>>

\* ... and run the behaviour, which succeeds or fails.
FinishExecution(b) ==
  /\ bpc[b] = "running"
  /\ IF ExecutorGone(b)
       THEN Crash("freed_executor")
       ELSE /\ \E ok \in BOOLEAN :
                 /\ taskOk' = [taskOk EXCEPT ![b] = ok]
                 /\ ranOk' = IF ok THEN [ranOk EXCEPT ![b] = @ + 1] ELSE ranOk
            /\ Goto(b, "complete")
            /\ UNCHANGED <<accepted, rejected, success, sim, commVars, fault>>

SendComplete(b) ==
  /\ bpc[b] = "complete"
  /\ IF CommGone(b)
       THEN Crash("null_comm")
       ELSE /\ PostNote
            /\ success' = [success EXCEPT ![b] = @ /\ taskOk[b]]
            /\ IF taskOk[b]
                 THEN /\ accepted' = [accepted EXCEPT ![b] = @ + 1]
                      /\ UNCHANGED rejected
                 ELSE /\ rejected' = [rejected EXCEPT ![b] = @ + 1]
                      /\ UNCHANGED accepted
            /\ Goto(b, AfterTask(b, accepted[b] + rejected[b] + 1))
            /\ UNCHANGED <<taskOk, ranOk, sim, handlers, ackStage, fault>>

SendAck(b) ==
  /\ bpc[b] = "ack"
  /\ IF CommGone(b)
       THEN Crash("null_comm")
       ELSE /\ ackStage' = [ackStage EXCEPT
                 ![b] = IF CoordId \in handlers THEN "inflight" ELSE "dropped"]
            /\ Goto(b, "done")
            /\ UNCHANGED <<taskOk, accepted, rejected, success, ranOk, sim,
                           handlers, notes, fault>>

BatchStep(b) ==
  \/ ParseBatch(b)
  \/ SendProgress(b)
  \/ LookUpBehavior(b)
  \/ EnterExecutor(b)
  \/ LockRuntime(b)
  \/ FinishExecution(b)
  \/ SendComplete(b)
  \/ SendAck(b)

-----------------------------------------------------------------------------
(* SatelliteSimulator::shutdown(), called by the main thread.              *)

SimGoto(s, from, to) ==
  /\ sim[s] = from
  /\ sim' = [sim EXCEPT ![s] = to]
  /\ UNCHANGED <<batchVars, commVars, fault>>

\* executor_->shutdown() flags the contexts cancelled and waits for no task.
CancelTasks(s)   == SimGoto(s, "live", "cancelled")
ResetExecutor(s) == SimGoto(s, "cancelled", "executor_reset")
ResetComm(s)     == SimGoto(s, "executor_reset", "down")

SimShutdownStep(s) == CancelTasks(s) \/ ResetExecutor(s) \/ ResetComm(s)
=============================================================================
