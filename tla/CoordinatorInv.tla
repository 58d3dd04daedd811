--------------------------- MODULE CoordinatorInv ---------------------------
(***************************************************************************)
(* The inductive invariant behind the safety properties of Coordinator, in *)
(* named parts.                                                            *)
(***************************************************************************)
EXTENDS Coordinator

InTask == {"progress", "check", "execute", "queued", "running", "complete"}

\* The tallies of a batch agree with what its thread has done so far.
BatchInv(b) ==
  /\ bpc[b] \in {"unsent", "spawned"} =>
       accepted[b] = 0 /\ rejected[b] = 0 /\ success[b]
  /\ bpc[b] \in InTask => accepted[b] + rejected[b] < NumTasks[Order[b]]
  /\ bpc[b] \in {"ack", "done"} =>
       /\ success[b] => accepted[b] + rejected[b] = NumTasks[Order[b]]
       /\ accepted[b] + rejected[b] <= NumTasks[Order[b]]
  /\ success[b] => rejected[b] = 0
  /\ ~success[b] => rejected[b] > 0 \/ (b \in Garbled /\ bpc[b] \in {"ack", "done"})
  /\ b \in Garbled /\ bpc[b] \notin {"unsent", "spawned"} =>
       bpc[b] \in {"ack", "done"} /\ ~success[b] /\ accepted[b] = 0
  /\ ranOk[b] =
       accepted[b] + (IF bpc[b] = "complete" /\ taskOk[b] THEN 1 ELSE 0)

\* An ACK exists exactly when its thread is done.
AckInv(b) == ackStage[b] = "unsent" <=> bpc[b] # "done"

\* Successes in the maps and in the report rest on a finished batch.
EarnedAndDone(s) ==
  \E b \in Batches : Order[b] = s /\ bpc[b] = "done" /\ ranOk[b] = NumTasks[s]

SuccessInv == \A s \in succeeded \union report : EarnedAndDone(s)

\* The batches not yet reached by the dispatch loop are untouched.
DispatchInv ==
  /\ pc = "start" => next = 1
  /\ pc \in {"start", "dispatch"} =>
       next >= 1 /\ \A b \in Batches : b >= next => bpc[b] = "unsent"

\* Only satellites with tasks are tracked, and only theirs are dispatched.
TrackInv ==
  /\ tracked = IF pc = "start" THEN {} ELSE WithTasks
  /\ \A b \in Batches : bpc[b] # "unsent" => Order[b] \in tracked

\* Where the main thread is tells what it has torn down.
PhaseInv ==
  /\ ~Reported => gaveUp = {}
  /\ \A s \in Sats : sim[s] # "live" => Reported
  /\ Reported /\ ~TimedOut => finished = tracked
  /\ ~Reported => report = {}
  /\ Reported /\ ~TimedOut /\ UniqueIds => report = succeeded

\* With distinct ids a verdict that did not come from the timeout came from
\* the one ACK of the satellite, whose thread is done.
AnswerInv ==
  UniqueIds =>
    \A b \in Batches : Order[b] \in finished \ gaveUp =>
      /\ bpc[b] = "done"
      /\ ackStage[b] \in {"recorded", "handled"}
      /\ Order[b] \in succeeded <=> AckSucceeds(b)

FaultInv ==
  fault \in {"null_comm", "freed_executor"} /\ UniqueIds => TimedOut

IInv ==
  /\ TypeOK
  /\ \A b \in Batches : BatchInv(b) /\ AckInv(b)
  /\ DispatchInv
  /\ SuccessInv
  /\ TrackInv
  /\ PhaseInv
  /\ AnswerInv
  /\ FaultInv
=============================================================================
