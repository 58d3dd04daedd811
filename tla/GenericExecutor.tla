-------------------------- MODULE GenericExecutor --------------------------
(***************************************************************************)
(* GenericExecutor: threads call executeTask on the executor of their      *)
(* satellite, which runs the behaviour tree of the task under its          *)
(* runtime_mutex_; shutdown() cancels what is registered.  Executors share *)
(* one process-wide mailbox.  The tree is walked by recursive calls in the *)
(* code, here by a stack: one step enters a node, one runs its command,    *)
(* one hands a result to the parent.  Executors run in the mode the        *)
(* simulators use, without worker threads (async_mode = false).            *)
(***************************************************************************)
EXTENDS BehaviorTreeParser

CONSTANTS
  Executors,      \* the satellites, each with an executor
  Schedule,       \* the entries of the schedule file
  Callers,        \* the threads that execute tasks
  ExecutorOf,     \* the executor of each caller
  Work,           \* the tasks each caller executes, one after the other
  EnableRollback, \* config_.enable_rollback
  TextSensors,    \* the sensor keys with "REC" or "TYPE" in them
  FlagSensors,    \* other keys with "IS_", "FLAG" or "LIGHT" in them
  ValueOf(_, _),  \* evaluateValueExpression: text and visible variables
  IsTrue(_, _),   \* ConstraintEvaluator::evaluate
  Nobody

ASSUME ExecutorAssumption ==
  /\ ExecutorOf \in [Callers -> Executors]
  /\ Nobody \notin Callers
  /\ EnableRollback \in BOOLEAN

ASSUME WorkAssumption ==
  \A c \in Callers :
    /\ Len(Work[c]) \in Nat
    /\ \A i \in 1..Len(Work[c]) : Work[c][i].behavior \in Nodes

ASSUME TreeAssumption ==
  /\ Nodes # {}
  /\ \A n \in Nodes :
       /\ Def[n].children \in Seq(Nodes)
       /\ {"params", "command", "expression"} \subseteq DOMAIN Def[n]
       /\ 1 \in DOMAIN Def[n].command

VARIABLES
  running,    \* running_ of each executor
  contexts,   \* active_contexts_: segment ids to the callers whose context it is
  cancelled,  \* the flag in the context of each caller
  vm,         \* the scopes of var_mgr_ of each executor
  snapshots,  \* its snapshots
  mailbox,    \* g_shared_mailbox
  thread,     \* place and locals of each caller
  late,       \* history: commands a task ran after it was cancelled
  swept       \* history: callers in executeTask when shutdown() cancelled

vars == <<running, contexts, cancelled, vm, snapshots, mailbox, thread, late, swept>>

\* A composite node that is waiting for its child, and whether one has failed.
Frame == [node : Nodes, child : Nat, failed : BOOLEAN]

Threads ==
  [pc : {"idle", "registered", "enter", "command", "return", "unregister",
         "done"},
   next : Nat, at : Nodes, stack : Seq(Frame), snapshot : Nat,
   outcome : {"ok", "fail", "throw"}, success : BOOLEAN]

TypeOK ==
  /\ running \in [Executors -> BOOLEAN]
  /\ contexts = [e \in Executors |-> contexts[e]]
  /\ \A e \in Executors : contexts[e] \in [DOMAIN contexts[e] -> Callers]
  /\ cancelled \in [Callers -> BOOLEAN]
  /\ vm = [e \in Executors |-> vm[e]]
  /\ snapshots = [e \in Executors |-> snapshots[e]]
  /\ \A e \in Executors : snapshots[e] \in Seq(Range(snapshots[e]))
  /\ thread \in [Callers -> Threads]
  /\ late \in [Callers -> Nat]
  /\ swept \subseteq Callers

\* Where a caller goes after i tasks.
Ready(c, i) == IF i < Len(Work[c]) THEN "idle" ELSE "done"

\* SatelliteSimulator::initialize has returned.  A caller's node and outcome
\* are set before they are used.
Init ==
  /\ running = [e \in Executors |-> TRUE]
  /\ contexts = [e \in Executors |-> NoVars]
  /\ cancelled = [c \in Callers |-> FALSE]
  /\ vm = [e \in Executors |-> LoadFromScheduleConfig(NewManager, Schedule, e)]
  /\ snapshots = [e \in Executors |-> <<>>]
  /\ mailbox = NoVars
  /\ thread = [c \in Callers |->
       [pc |-> Ready(c, 0), next |-> 1, at |-> CHOOSE n \in Nodes : TRUE,
        stack |-> <<>>, snapshot |-> 0, outcome |-> "ok", success |-> FALSE]]
  /\ late = [c \in Callers |-> 0]
  /\ swept = {}

Task(c) == Work[c][thread[c].next]

Vm(c) == vm[ExecutorOf[c]]

\* c has the runtime_mutex_ of its executor.
Locked(c) == thread[c].pc \in {"enter", "command", "return"}

LockFree(e) == \A c \in Callers : ExecutorOf[c] = e => ~Locked(c)

Inside(c) == thread[c].pc \notin {"idle", "done"}

SetVm(c, v) == vm' = [vm EXCEPT ![ExecutorOf[c]] = v]

\* c hands result to the parent of the node it is at.
Give(c, result) ==
  thread' = [thread EXCEPT ![c].pc = "return", ![c].outcome = result]

-----------------------------------------------------------------------------
(* executeTask: registering the context, and what precedes the tree.       *)

Register(c) ==
  /\ thread[c].pc = "idle"
  /\ contexts' = [contexts EXCEPT ![ExecutorOf[c]] = Put(@, Task(c).segment_id, c)]
  /\ cancelled' = [cancelled EXCEPT ![c] = FALSE]
  /\ thread' = [thread EXCEPT ![c].pc = "registered"]
  /\ late' = [late EXCEPT ![c] = 0]
  /\ UNCHANGED <<running, vm, snapshots, mailbox, swept>>

IdNames == {"satellite_id", "task_id", "segment_id"}

\* initializeTaskContext.
TaskContext(v, task) ==
  LET cleared == ClearScope(ClearScope(v, "local"), "inter")
      named == [cleared EXCEPT !.global =
                  Over([n \in IdNames |-> Text(<<Word(task[n])>>)], @)]
  IN  SetFromParams(named, "local", task.params)

\* initializeBehaviorDefaults: the values are stored as they were written.
BehaviorDefaults(v, root) ==
  FoldLeft(LAMBDA w, n :
      SetFromParams(SetFromParams(w, "local", Def[n].variable_inits),
                    "local", Def[n].constants),
    v, Preorder[root])

Begin(c) ==
  LET e == ExecutorOf[c]
      fresh == TaskContext(vm[e], Task(c))
  IN
  /\ thread[c].pc = "registered"
  /\ LockFree(e)
  /\ snapshots' = [snapshots EXCEPT ![e] = CreateSnapshot(@, fresh)]
  /\ SetVm(c, SetFromParams(BehaviorDefaults(fresh, Task(c).behavior),
                            "local", Task(c).params))
  /\ thread' = [thread EXCEPT ![c].pc = "enter", ![c].at = Task(c).behavior,
                              ![c].stack = <<>>,
                              ![c].snapshot = Len(snapshots[e]) + 1]
  /\ UNCHANGED <<running, contexts, cancelled, mailbox, late, swept>>

-----------------------------------------------------------------------------
(* executeNode                                                             *)

\* The node c is at, as instantiate() has expanded it.
Node(c) ==
  Expand(thread[c].at, TemplateParams(Task(c).behavior, Task(c).params))

Alias ==
  [POS_X |-> "x", POS_Y |-> "y", POS_Z |-> "z",
   TARGET_X |-> "tx", TARGET_Y |-> "ty", TARGET_Z |-> "tz",
   REC |-> "rec_type", REC_TRUE |-> "rec_type_true"]

DefaultObservation(sensor) ==
  IF sensor \in TextSensors THEN Text(<<>>)
  ELSE IF sensor \in FlagSensors THEN Flag(FALSE)
  ELSE Double(<<0, 1>>)

\* What is observed as name: the sensor, its alias, the last value of name.
Observed(view, name, sensor) ==
  IF sensor \in DOMAIN view THEN view[sensor]
  ELSE IF sensor \in DOMAIN Alias /\ Alias[sensor] \in DOMAIN view
    THEN view[Alias[sensor]]
  ELSE IF name \in DOMAIN view THEN view[name]
  ELSE DefaultObservation(sensor)

\* applyObservationValues.
Observe(v, observation) ==
  FoldLeft(LAMBDA w, o :
      SetVar(w, "local", o[1], Observed(View(w), o[1], o[2])), v, observation)

\* The node's own condition, and for a CONDITION that it has one.
Blocked(node, view) ==
  IF node.expression = <<>> THEN node.type = "CONDITION"
  ELSE ~IsTrue(node.expression, view)

Composite(node) == node.type \in {"SEQUENCE", "SELECTOR", "PARALLEL"}

\* After its condition a node is done, runs its command, or enters a child.
Proceed(c, node) ==
  IF node.type = "CONDITION" THEN Give(c, "ok")
  ELSE IF ~Composite(node) THEN thread' = [thread EXCEPT ![c].pc = "command"]
  ELSE IF node.children = <<>>
    THEN Give(c, IF node.type = "SELECTOR" THEN "fail" ELSE "ok")
  ELSE thread' = [thread EXCEPT
         ![c].at = node.children[1],
         ![c].stack =
            <<[node |-> thread[c].at, child |-> 1, failed |-> FALSE]>> \o @]

\* Fault variant: a cancelled task goes on.
EnterUnchecked(c) ==
  LET node == Node(c)
      v == Observe(Vm(c), node.observation)
  IN
  /\ thread[c].pc = "enter"
  /\ SetVm(c, v)
  /\ IF Blocked(node, View(v)) THEN Give(c, "fail") ELSE Proceed(c, node)
  /\ UNCHANGED <<running, contexts, cancelled, snapshots, mailbox, late, swept>>

Enter(c) ==
  LET node == Node(c)
      v == Observe(Vm(c), node.observation)
  IN
  /\ thread[c].pc = "enter"
  /\ \/ cancelled[c] /\ Give(c, "fail") /\ UNCHANGED vm
     \/ /\ ~cancelled[c]
        /\ SetVm(c, v)
        /\ IF Blocked(node, View(v)) THEN Give(c, "fail") ELSE Proceed(c, node)
  /\ UNCHANGED <<running, contexts, cancelled, snapshots, mailbox, late, swept>>

-----------------------------------------------------------------------------
(* Commands.  They do not look at the cancelled flag.                      *)

RunsCommand(c, commands) ==
  /\ thread[c].pc = "command"
  /\ Node(c).command[1] \in commands
  /\ late' = [late EXCEPT ![c] = IF cancelled[c] THEN @ + 1 ELSE @]
  /\ UNCHANGED <<running, contexts, cancelled, snapshots, swept>>

PositionKey == [x |-> "POS_X", y |-> "POS_Y", z |-> "POS_Z"]

\* The variables after a command has stored v as name.
Store(w, command, name, v) ==
  CASE command = "EMIT_COMMAND"  -> SetVar(w, "inter", name, v)
    [] command = "REPORT_TARGET" -> SetVar(w, "global", "reported_" \o name, v)
    [] command = "MOVE_TO" ->
         SetVar(SetVar(w, "local", name, v), "global", PositionKey[name], v)
    [] OTHER -> SetVar(w, "local", name, v)

\* Takes the params in the order of their keys, and stores the value of each
\* before the next is evaluated.  Names in given have values already.
\* An exception ends it.
StoreAll(v, command, params, given) ==
  FoldLeft(LAMBDA r, p :
      LET x == IF p[1] \in DOMAIN given THEN given[p[1]]
               ELSE ValueOf(p[2], View(r.vm))
      IN  IF r.threw \/ x = Throws THEN [r EXCEPT !.threw = TRUE]
          ELSE [r EXCEPT !.vm = Store(@, command, p[1], x)],
    [vm |-> v, threw |-> FALSE], params)

\* The command leaves r.vm behind and succeeds, unless it threw.
Stored_(c, r) == SetVm(c, r.vm) /\ Give(c, IF r.threw THEN "throw" ELSE "ok")

RunAssign(c) ==
  /\ RunsCommand(c, {"ASSIGN", "EMIT_COMMAND"})
  /\ Stored_(c, StoreAll(Vm(c), Node(c).command[1], Node(c).params, NoVars))
  /\ UNCHANGED mailbox

RunMoveTo(c) ==
  LET IsAxis(p) == p[1] \in DOMAIN PositionKey IN
  /\ RunsCommand(c, {"MOVE_TO"})
  /\ Stored_(c, StoreAll(Vm(c), "MOVE_TO", SelectSeq(Node(c).params, IsAxis), NoVars))
  /\ UNCHANGED mailbox

RunReport(c) ==
  /\ RunsCommand(c, {"REPORT_TARGET"})
  /\ Stored_(c, StoreAll(SetVar(Vm(c), "global", "target_reported", Flag(TRUE)),
                         "REPORT_TARGET", Node(c).params, NoVars))
  /\ UNCHANGED mailbox

Keys(params) == {params[i][1] : i \in DOMAIN params}

\* The packet of a SEND: all its texts are evaluated alike, none is stored.
Packet(params, view) ==
  [k \in Keys(params) |->
     LET i == CHOOSE i \in DOMAIN params : params[i][1] = k
     IN  ValueOf(params[i][2], view)]

\* Fault variant: the packet is added to what is in the mailbox.
RunSendMerges(c) ==
  LET packet == Packet(Node(c).params, View(Vm(c))) IN
  /\ RunsCommand(c, {"SEND"})
  /\ UNCHANGED vm
  /\ \/ /\ \E k \in DOMAIN packet : packet[k] = Throws
        /\ Give(c, "throw") /\ UNCHANGED mailbox
     \/ /\ \A k \in DOMAIN packet : packet[k] # Throws
        /\ Give(c, "ok") /\ mailbox' = Over(packet, mailbox)

RunSend(c) ==
  LET packet == Packet(Node(c).params, View(Vm(c))) IN
  /\ RunsCommand(c, {"SEND"})
  /\ UNCHANGED vm
  /\ \/ /\ \E k \in DOMAIN packet : packet[k] = Throws
        /\ Give(c, "throw") /\ UNCHANGED mailbox
     \/ /\ \A k \in DOMAIN packet : packet[k] # Throws
        /\ Give(c, "ok") /\ mailbox' = packet

\* What the mailbox says goes before the text of the parameter.  The
\* parameter result_to names the variable that tells whether there was mail.
RunReceive(c) ==
  LET params == Node(c).params
      IsPlain(p) == p[1] # "result_to"
      r == StoreAll(Vm(c), "RECEIVE", SelectSeq(params, IsPlain), mailbox)
      tells == {params[i][2][1][2] : i \in
                 {j \in DOMAIN params : ~IsPlain(params[j]) /\ params[j][2] # <<>>}}
      told == [n \in tells |-> Flag(mailbox # NoVars)]
  IN
  /\ RunsCommand(c, {"RECEIVE"})
  /\ Stored_(c, [r EXCEPT !.vm.local = Over(told, @)])
  /\ UNCHANGED mailbox

\* SETVAR name=text.
RunSetvar(c) ==
  LET command == Node(c).command
      v == ValueOf(command[3], View(Vm(c)))
  IN
  /\ RunsCommand(c, {"SETVAR"})
  /\ UNCHANGED mailbox
  /\ \/ Len(command) < 3 /\ Give(c, "fail") /\ UNCHANGED vm
     \/ Len(command) = 3 /\ v = Throws /\ Give(c, "throw") /\ UNCHANGED vm
     \/ /\ Len(command) = 3 /\ v # Throws
        /\ Give(c, "ok") /\ SetVm(c, SetVar(Vm(c), "global", command[2], v))

\* The commands that set a flag, and those that do nothing.
RunFlag(c) ==
  LET command == Node(c).command[1] IN
  /\ RunsCommand(c, {"NO_OP", "", "NEXT_TASK", "EXIT"})
  /\ Give(c, "ok")
  /\ SetVm(c, CASE command = "NEXT_TASK" ->
                     SetVar(Vm(c), "local", "next_task", Flag(TRUE))
                [] command = "EXIT" ->
                     SetVar(Vm(c), "global", "mission_exit", Flag(TRUE))
                [] OTHER -> Vm(c))
  /\ UNCHANGED mailbox

\* Any other command fails.
RunUnsupported(c) ==
  /\ RunsCommand(c, {Node(c).command[1]} \
       {"ASSIGN", "EMIT_COMMAND", "MOVE_TO", "REPORT_TARGET", "SEND", "RECEIVE",
        "SETVAR", "NO_OP", "", "NEXT_TASK", "EXIT"})
  /\ Give(c, "fail")
  /\ UNCHANGED <<vm, mailbox>>

Command(c) ==
  \/ RunAssign(c) \/ RunMoveTo(c) \/ RunReport(c) \/ RunSend(c) \/ RunReceive(c)
  \/ RunSetvar(c) \/ RunFlag(c) \/ RunUnsupported(c)

-----------------------------------------------------------------------------
(* executeSequence, executeSelector, executeParallel: a result comes back. *)

\* The result ends a composite of this type.
Ends(type, result) ==
  \/ (type = "SEQUENCE" /\ result = "fail")
  \/ (type = "SELECTOR" /\ result = "ok")

Merged(f, result) == f.failed \/ result = "fail"

\* Fault variant: the place among the children is not advanced.
NextChildRepeats(c) ==
  LET f == Head(thread[c].stack)
      children == Def[f.node].children
      result == thread[c].outcome
  IN
  /\ thread[c].pc = "return" /\ result # "throw" /\ thread[c].stack # <<>>
  /\ ~Ends(Def[f.node].type, result) /\ f.child < Len(children)
  /\ thread' = [thread EXCEPT ![c].pc = "enter", ![c].at = children[f.child + 1]]
  /\ UNCHANGED <<running, contexts, cancelled, vm, snapshots, mailbox, late, swept>>

NextChild(c) ==
  LET f == Head(thread[c].stack)
      children == Def[f.node].children
      result == thread[c].outcome
  IN
  /\ thread[c].pc = "return" /\ result # "throw" /\ thread[c].stack # <<>>
  /\ ~Ends(Def[f.node].type, result) /\ f.child < Len(children)
  /\ thread' = [thread EXCEPT
       ![c].pc = "enter", ![c].at = children[f.child + 1],
       ![c].stack = <<[f EXCEPT !.child = @ + 1, !.failed = Merged(f, result)]>>
                      \o Tail(@)]
  /\ UNCHANGED <<running, contexts, cancelled, vm, snapshots, mailbox, late, swept>>

CompositeDone(c) ==
  LET f == Head(thread[c].stack)
      type == Def[f.node].type
      result == thread[c].outcome
  IN
  /\ thread[c].pc = "return" /\ result # "throw" /\ thread[c].stack # <<>>
  /\ Ends(type, result) \/ f.child >= Len(Def[f.node].children)
  /\ thread' = [thread EXCEPT
       ![c].stack = Tail(@),
       ![c].outcome = IF type = "PARALLEL"
                        THEN IF Merged(f, result) THEN "fail" ELSE "ok"
                        ELSE result]
  /\ UNCHANGED <<running, contexts, cancelled, vm, snapshots, mailbox, late, swept>>

-----------------------------------------------------------------------------
(* executeTask: after the tree.                                            *)

\* Fault variant: a task that ends with an exception is not rolled back.
RollsBackFailures(result) == result = "fail" /\ EnableRollback

RollsBack(result) == result = "throw" \/ (result = "fail" /\ EnableRollback)

\* The root has a result, or an exception leaves all of the tree at once.  The
\* runtime_mutex_ is released at the end of this step.
Finish(c) ==
  LET e == ExecutorOf[c]
      result == thread[c].outcome
      left == IF RollsBack(result)
                THEN RestoreSnapshot(vm[e], snapshots[e], thread[c].snapshot)
                ELSE vm[e]
  IN
  /\ thread[c].pc = "return"
  /\ result = "throw" \/ thread[c].stack = <<>>
  /\ SetVm(c, ClearScope(ClearScope(left, "local"), "inter"))
  /\ thread' = [thread EXCEPT ![c].pc = "unregister", ![c].success = (result = "ok")]
  /\ UNCHANGED <<running, contexts, cancelled, snapshots, mailbox, late, swept>>

\* Whatever context stands under the segment id goes.
Unregister(c) ==
  LET e == ExecutorOf[c]
      id == Task(c).segment_id
  IN
  /\ thread[c].pc = "unregister"
  /\ contexts' = [contexts EXCEPT ![e] = [s \in DOMAIN @ \ {id} |-> @[s]]]
  /\ thread' = [thread EXCEPT ![c].pc = Ready(c, thread[c].next), ![c].next = @ + 1]
  /\ swept' = swept \ {c}
  /\ UNCHANGED <<running, cancelled, vm, snapshots, mailbox, late>>

-----------------------------------------------------------------------------
(* shutdown() of an executor.  executeTask never reads running_.           *)

\* Fault variant: only the task that has the lock is found.
RegisteredRunning(e) ==
  {c \in {contexts[e][s] : s \in DOMAIN contexts[e]} : Locked(c)}

Registered(e) == {contexts[e][s] : s \in DOMAIN contexts[e]}

\* Fault variant: the flags of all others are lost.
ShutdownForgets(e) ==
  /\ running[e]
  /\ running' = [running EXCEPT ![e] = FALSE]
  /\ cancelled' = [c \in Registered(e) |-> TRUE]
  /\ swept' = swept \union {c \in Callers : ExecutorOf[c] = e /\ Inside(c)}
  /\ UNCHANGED <<contexts, vm, snapshots, mailbox, thread, late>>

Shutdown(e) ==
  /\ running[e]
  /\ running' = [running EXCEPT ![e] = FALSE]
  /\ cancelled' = [c \in Callers |-> cancelled[c] \/ c \in Registered(e)]
  /\ swept' = swept \union {c \in Callers : ExecutorOf[c] = e /\ Inside(c)}
  /\ UNCHANGED <<contexts, vm, snapshots, mailbox, thread, late>>

CallerStep(c) ==
  \/ Register(c) \/ Begin(c) \/ Enter(c) \/ Command(c)
  \/ NextChild(c) \/ CompositeDone(c) \/ Finish(c) \/ Unregister(c)

\* All callers have had their tasks executed.
Terminated == (\A c \in Callers : thread[c].pc = "done") /\ UNCHANGED vars

Next ==
  \/ \E c \in Callers : CallerStep(c)
  \/ \E e \in Executors : Shutdown(e)
  \/ Terminated

Spec == Init /\ [][Next]_vars

\* Only a caller that waits for the lock, or is done, has no step to take.
CanStep(c) ==
  /\ thread[c].pc # "done"
  /\ thread[c].pc = "registered" => LockFree(ExecutorOf[c])

\* Threads are scheduled: weak fairness of CallerStep(c), with the condition
\* under which it is enabled written out.  Nobody has to call shutdown().
FairSpec ==
  /\ Spec
  /\ \A c \in Callers : []<>~CanStep(c) \/ []<><<CallerStep(c)>>_vars

-----------------------------------------------------------------------------
(* Properties                                                              *)

\* Nothing a task stored in its LOCAL or INTERMEDIATE variables is there when
\* the next one takes the executor's runtime_mutex_.
ScopesAreClean ==
  \A e \in Executors : LockFree(e) =>
    vm[e].local = NoVars /\ vm[e].inter = NoVars

\* Who has the runtime_mutex_ of an executor, and the global variables as they
\* were left by the tasks before.
Runs(c, e) == ExecutorOf[c] = e /\ Locked(c)

Runner(e) == IF LockFree(e) THEN Nobody ELSE CHOOSE c \in Callers : Runs(c, e)

LastStore(e) ==
  IF LockFree(e) THEN vm[e].global
  ELSE snapshots[e][thread[Runner(e)].snapshot].global

\* executeTask implements transactions on the global variables: they take
\* effect when the lock is released, and not at all if the task has failed.
Transactions == INSTANCE TaskTransactions WITH
  store <- [e \in Executors |-> LastStore(e)],
  busy <- [e \in Executors |-> Runner(e)],
  verdict <- [c \in Callers |-> thread[c].success],
  Ids <- IdNames

ImplementsTransactions == Transactions!Spec

\* Another caller of c's executor has a task of the same segment id.
HasTwin(c) ==
  \E d \in Callers \ {c} : ExecutorOf[d] = ExecutorOf[c] /\
    \E i \in 1..Len(Work[d]) : Work[d][i].segment_id = Task(c).segment_id

\* shutdown() cancels every task that is in executeTask, waiting for the lock
\* or running, except where one segment id has been given to two callers: the
\* map of contexts has room for one of them.
ShutdownReaches == \A c \in swept : cancelled[c] \/ HasTwin(c)

\* A cancelled task ends before the next node: at most the command it was
\* about to run is still run.
CancelledTasksStop == \A c \in Callers : late[c] <= 1

\* The mailbox holds what one SEND put together, not pieces of several.
MailboxIsOnePacket ==
  \/ mailbox = NoVars
  \/ \E n \in Nodes : Def[n].command[1] = "SEND" /\ DOMAIN mailbox = Keys(Def[n].params)

\* Every call of executeTask returns.
EveryTaskReturns == \A c \in Callers : <>[](thread[c].pc = "done")

-----------------------------------------------------------------------------
(* The inductive invariant behind the safety properties.                   *)

\* A caller that is not done has a task to work on.
Places == \A c \in Callers :
  thread[c].pc # "done" => thread[c].next \in 1..Len(Work[c])

\* runtime_mutex_ excludes, and who has it has taken a snapshot.
OneRuns == \A c, d \in Callers :
  Locked(c) /\ Locked(d) /\ ExecutorOf[c] = ExecutorOf[d] => c = d

SnapshotsExist == \A c \in Callers :
  Locked(c) => thread[c].snapshot \in DOMAIN snapshots[ExecutorOf[c]]

\* active_contexts_ knows every call but those whose segment id is not theirs
\* alone.
ContextsFound == \A c \in Callers :
  Inside(c) /\ ~HasTwin(c) =>
    \E s \in DOMAIN contexts[ExecutorOf[c]] :
      s = Task(c).segment_id /\ contexts[ExecutorOf[c]][s] = c

SweptInside == \A c \in swept : Inside(c)

\* After its last command a cancelled task comes to no other.
LateStops == \A c \in Callers :
  late[c] > 0 => cancelled[c] /\ thread[c].pc # "command"

IInv ==
  /\ TypeOK /\ Places /\ OneRuns /\ SnapshotsExist /\ ScopesAreClean
  /\ ContextsFound /\ SweptInside /\ ShutdownReaches
  /\ CancelledTasksStop /\ LateStops
=============================================================================
