--------------------------- MODULE DispatchOutcome --------------------------
(***************************************************************************)
(* What a run promises about its satellites, without threads or messages:  *)
(* each satellite settles once, on its own; closing the run settles the    *)
(* others as failed; and what the closed run says never changes.           *)
(***************************************************************************)
CONSTANT Satellites

VARIABLES
  outcome,   \* what is known of each satellite
  closed     \* the run has been summed up

vars == <<outcome, closed>>

Init ==
  /\ outcome = [s \in Satellites |-> "pending"]
  /\ closed = FALSE

Settle(s) ==
  /\ ~closed
  /\ outcome[s] = "pending"
  /\ \E o \in {"success", "failed"} : outcome' = [outcome EXCEPT ![s] = o]
  /\ UNCHANGED closed

Close ==
  /\ ~closed
  /\ closed' = TRUE
  /\ outcome' = [s \in Satellites |->
                   IF outcome[s] = "pending" THEN "failed" ELSE outcome[s]]

Next == Close \/ \E s \in Satellites : Settle(s)

SafeSpec == Init /\ [][Next]_vars

Spec == SafeSpec /\ WF_vars(Close)
=============================================================================
