-------------------------- MODULE TaskTransactions --------------------------
(***************************************************************************)
(* What executing a task promises about the variables that outlive tasks:  *)
(* an executor has one task at a time; a task that fails leaves nothing    *)
(* behind but its identification; one that succeeds changes the store of   *)
(* its own executor only.                                                  *)
(***************************************************************************)
CONSTANTS
  Executors, Callers,
  ExecutorOf,   \* the executor whose tasks a caller executes
  Ids,          \* the names that identify the running task
  Nobody

VARIABLES
  store,        \* the global variables of each executor, as tasks left them
  busy,         \* the caller whose task an executor has
  verdict       \* what a caller was last told

vars == <<store, busy, verdict>>

Init ==
  /\ store = [e \in Executors |-> store[e]]   \* whatever was loaded
  /\ busy = [e \in Executors |-> Nobody]
  /\ verdict = [c \in Callers |-> FALSE]

\* f and g agree on all names but those in ns.
AgreeBut(ns, f, g) ==
  \A n \in (DOMAIN f \union DOMAIN g) \ ns :
    n \in DOMAIN f /\ n \in DOMAIN g /\ f[n] = g[n]

OthersKept(e) == \A d \in Executors \ {e} : store'[d] = store[d]

Begin(c) ==
  LET e == ExecutorOf[c] IN
  /\ busy[e] = Nobody
  /\ busy' = [busy EXCEPT ![e] = c]
  /\ OthersKept(e) /\ AgreeBut(Ids, store[e], store'[e])
  /\ UNCHANGED verdict

End(c, success) ==
  /\ busy[ExecutorOf[c]] = c
  /\ busy' = [busy EXCEPT ![ExecutorOf[c]] = Nobody]
  /\ verdict' = [verdict EXCEPT ![c] = success]

Commit(c) == End(c, TRUE) /\ OthersKept(ExecutorOf[c])

Abort(c) == End(c, FALSE) /\ UNCHANGED store

Next == \E c \in Callers : Begin(c) \/ Commit(c) \/ Abort(c)

Spec == Init /\ [][Next]_vars
=============================================================================
