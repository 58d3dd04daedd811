----------------------- MODULE GenericExecutorProofs -----------------------
(***************************************************************************)
(* Proofs about GenericExecutor for any trees, tasks and evaluators.       *)
(***************************************************************************)
EXTENDS GenericExecutor, SequenceTheorems, TLAPS

\* clearScope empties two scopes and leaves the third alone.
LEMMA ClearedScope ==
  ASSUME NEW v
  PROVE  /\ ClearScope(ClearScope(v, "local"), "inter").local = NoVars
         /\ ClearScope(ClearScope(v, "local"), "inter").inter = NoVars
         /\ ClearScope(ClearScope(v, "local"), "inter").global = v.global
BY DEF ClearScope, Scopes

\* The node a caller runs can be told from its stack.
LEMMA FrameOfStack ==
  ASSUME TypeOK, NEW c \in Callers, thread[c].stack # <<>>
  PROVE  /\ Head(thread[c].stack) \in Frame
         /\ Tail(thread[c].stack) \in Seq(Frame)
         /\ Head(thread[c].stack).child \in Nat
         /\ Def[Head(thread[c].stack).node].children \in Seq(Nodes)
<1>1. thread[c].stack \in Seq(Frame) BY DEF TypeOK, Threads
<1>2. /\ Head(thread[c].stack) \in Frame /\ Tail(thread[c].stack) \in Seq(Frame)
  BY <1>1
<1> QED BY <1>2, TreeAssumption DEF Frame

\* What no step of a running task changes, but its first and its last.
Working(c) ==
  /\ Locked(c)
  /\ thread' \in [Callers -> Threads]
  /\ \A d \in Callers \ {c} : thread'[d] = thread[d]
  /\ thread'[c].pc \in {"enter", "command", "return"}
  /\ thread'[c].next = thread[c].next
  /\ thread'[c].snapshot = thread[c].snapshot
  /\ thread'[c].success = thread[c].success
  /\ vm' = [vm EXCEPT ![ExecutorOf[c]] = vm'[ExecutorOf[c]]]
  /\ UNCHANGED <<running, contexts, cancelled, snapshots, swept>>
  /\ thread'[c].pc = "command" => ~cancelled[c]
  /\ \/ UNCHANGED late
     \/ /\ thread[c].pc = "command" /\ thread'[c].pc = "return"
        /\ late' = [late EXCEPT ![c] = IF cancelled[c] THEN @ + 1 ELSE @]

\* A result is handed to the parent.
LEMMA GiveWorks ==
  ASSUME TypeOK, NEW c \in Callers, NEW result \in {"ok", "fail", "throw"},
         Give(c, result)
  PROVE  /\ thread' \in [Callers -> Threads]
         /\ \A d \in Callers \ {c} : thread'[d] = thread[d]
         /\ thread'[c].pc = "return"
         /\ thread'[c].next = thread[c].next
         /\ thread'[c].snapshot = thread[c].snapshot
         /\ thread'[c].success = thread[c].success
<1>1. /\ thread \in [Callers -> Threads] /\ thread[c] \in Threads BY DEF TypeOK
<1>2. thread' = [thread EXCEPT ![c] =
                   [[thread[c] EXCEPT !.pc = "return"] EXCEPT !.outcome = result]]
  BY <1>1 DEF Give
<1>3. [[thread[c] EXCEPT !.pc = "return"] EXCEPT !.outcome = result] \in Threads
  BY <1>1 DEF Threads
<1> QED BY <1>1, <1>2, <1>3 DEF Threads

\* Storing changes the variables of one executor.
LEMMA SetVmWorks ==
  ASSUME TypeOK, NEW c \in Callers, NEW v, SetVm(c, v)
  PROVE  /\ vm'[ExecutorOf[c]] = v
         /\ vm' = [vm EXCEPT ![ExecutorOf[c]] = vm'[ExecutorOf[c]]]
BY ExecutorAssumption DEF SetVm, TypeOK

LEMMA KeptVm ==
  ASSUME TypeOK, NEW c \in Callers, UNCHANGED vm
  PROVE  vm' = [vm EXCEPT ![ExecutorOf[c]] = vm'[ExecutorOf[c]]]
BY ExecutorAssumption DEF TypeOK

\* Commands are steps of a running task.
LEMMA CommandWorks ==
  ASSUME TypeOK, NEW c \in Callers, Command(c)
  PROVE  Working(c)
<1>1. ASSUME NEW commands, RunsCommand(c, commands),
             NEW result \in {"ok", "fail", "throw"}, Give(c, result),
             vm' = [vm EXCEPT ![ExecutorOf[c]] = vm'[ExecutorOf[c]]]
      PROVE  Working(c)
  BY <1>1, GiveWorks DEF Working, RunsCommand, Locked
<1>2. ASSUME NEW commands, RunsCommand(c, commands), NEW r, Stored_(c, r)
      PROVE  Working(c)
  <2>1. SetVm(c, r.vm) /\ (Give(c, "throw") \/ Give(c, "ok"))
    BY <1>2 DEF Stored_
  <2> QED BY <2>1, <1>1, <1>2, SetVmWorks
<1>3. CASE RunAssign(c) BY <1>3, <1>2 DEF RunAssign
<1>4. CASE RunMoveTo(c) BY <1>4, <1>2 DEF RunMoveTo
<1>5. CASE RunReport(c) BY <1>5, <1>2 DEF RunReport
<1>6. CASE RunSend(c) BY <1>6, <1>1, KeptVm DEF RunSend
<1>7. CASE RunReceive(c) BY <1>7, <1>2 DEF RunReceive
<1>8. CASE RunSetvar(c) BY <1>8, <1>1, KeptVm, SetVmWorks DEF RunSetvar
<1>9. CASE RunFlag(c) BY <1>9, <1>1, SetVmWorks DEF RunFlag
<1>10. CASE RunUnsupported(c) BY <1>10, <1>1, KeptVm DEF RunUnsupported
<1> QED BY <1>3, <1>4, <1>5, <1>6, <1>7, <1>8, <1>9, <1>10 DEF Command

LEMMA GrownFrame ==
  ASSUME NEW f \in Frame, NEW failed \in BOOLEAN
  PROVE  [f EXCEPT !.child = @ + 1, !.failed = failed] \in Frame
<1>1. [f EXCEPT !.child = @ + 1, !.failed = failed]
        = [[f EXCEPT !.child = @ + 1] EXCEPT !.failed = failed]
  OBVIOUS
<1>2. [f EXCEPT !.child = @ + 1] \in Frame BY DEF Frame
<1> QED BY <1>1, <1>2 DEF Frame

LEMMA NextChildWorks ==
  ASSUME TypeOK, NEW c \in Callers, NextChild(c)
  PROVE  Working(c)
<1> DEFINE f == Head(thread[c].stack)
           children == Def[f.node].children
           g == [f EXCEPT !.child = @ + 1, !.failed = Merged(f, thread[c].outcome)]
           t == [thread[c] EXCEPT !.pc = "enter", !.at = children[f.child + 1],
                                  !.stack = <<g>> \o Tail(@)]
<1>1. /\ thread \in [Callers -> Threads] /\ thread[c] \in Threads BY DEF TypeOK
<1>2. /\ thread[c].pc = "return" /\ f.child < Len(children)
      /\ thread' = [thread EXCEPT ![c] = t]
  BY <1>1 DEF NextChild
<1>3. /\ f \in Frame /\ Tail(thread[c].stack) \in Seq(Frame)
      /\ f.child \in Nat /\ children \in Seq(Nodes)
  BY FrameOfStack DEF NextChild
<1>4. children[f.child + 1] \in Nodes
  <2> HIDE DEF f, children
  <2> QED BY <1>2, <1>3
<1>5. g \in Frame
  <2>1. Merged(f, thread[c].outcome) \in BOOLEAN
    BY DEF Merged
  <2> HIDE DEF f, children
  <2> QED BY <1>3, <2>1, GrownFrame
<1>6. <<g>> \o Tail(thread[c].stack) \in Seq(Frame)
  <2> HIDE DEF g
  <2> QED BY <1>3, <1>5
<1>7. /\ t \in Threads /\ t.pc = "enter" /\ t.next = thread[c].next
      /\ t.snapshot = thread[c].snapshot /\ t.success = thread[c].success
  <2> HIDE DEF f, children, g
  <2> QED BY <1>1, <1>4, <1>6 DEF Threads
<1>8. /\ thread' \in [Callers -> Threads]
      /\ \A d \in Callers \ {c} : thread'[d] = thread[d]
      /\ thread'[c] = t
  <2> HIDE DEF t
  <2> QED BY <1>1, <1>2, <1>7
<1>9. UNCHANGED <<running, contexts, cancelled, vm, snapshots, late, swept>>
  BY DEF NextChild
<1> HIDE DEF t
<1> QED BY <1>2, <1>7, <1>8, <1>9, KeptVm DEF Working, Locked

LEMMA CompositeDoneWorks ==
  ASSUME TypeOK, NEW c \in Callers, CompositeDone(c)
  PROVE  Working(c)
<1> DEFINE f == Head(thread[c].stack)
           result == IF Def[f.node].type = "PARALLEL"
                       THEN IF Merged(f, thread[c].outcome) THEN "fail" ELSE "ok"
                       ELSE thread[c].outcome
           t == [thread[c] EXCEPT !.stack = Tail(@), !.outcome = result]
<1>1. /\ thread \in [Callers -> Threads] /\ thread[c] \in Threads BY DEF TypeOK
<1>2. /\ thread[c].pc = "return" /\ thread' = [thread EXCEPT ![c] = t]
  BY <1>1 DEF CompositeDone
<1>3. Tail(thread[c].stack) \in Seq(Frame)
  BY FrameOfStack DEF CompositeDone
<1>4. result \in {"ok", "fail", "throw"}
  BY <1>1 DEF Threads
<1>5. /\ t \in Threads /\ t.pc = "return" /\ t.next = thread[c].next
      /\ t.snapshot = thread[c].snapshot /\ t.success = thread[c].success
  <2> HIDE DEF result
  <2> QED BY <1>1, <1>2, <1>3, <1>4 DEF Threads
<1>6. /\ thread' \in [Callers -> Threads]
      /\ \A d \in Callers \ {c} : thread'[d] = thread[d]
      /\ thread'[c] = t
  <2> HIDE DEF t
  <2> QED BY <1>1, <1>2, <1>5
<1>7. UNCHANGED <<running, contexts, cancelled, vm, snapshots, late, swept>>
  BY DEF CompositeDone
<1> HIDE DEF t
<1> QED BY <1>2, <1>5, <1>6, <1>7, KeptVm DEF Working, Locked

\* What a node does after its condition.
LEMMA ProceedWorks ==
  ASSUME TypeOK, NEW c \in Callers, NEW node, Proceed(c, node),
         node.children \in Seq(Nodes)
  PROVE  /\ thread' \in [Callers -> Threads]
         /\ \A d \in Callers \ {c} : thread'[d] = thread[d]
         /\ thread'[c].pc \in {"enter", "command", "return"} \union {thread[c].pc}
         /\ thread'[c].next = thread[c].next
         /\ thread'[c].snapshot = thread[c].snapshot
         /\ thread'[c].success = thread[c].success
<1>1. /\ thread \in [Callers -> Threads] /\ thread[c] \in Threads BY DEF TypeOK
<1>2. CASE Give(c, "ok") \/ Give(c, "fail") BY <1>2, GiveWorks
<1>3. CASE thread' = [thread EXCEPT ![c].pc = "command"]
  BY <1>1, <1>3 DEF Threads
<1>4. CASE /\ node.children # <<>>
           /\ thread' = [thread EXCEPT
                ![c].at = node.children[1],
                ![c].stack =
                   <<[node |-> thread[c].at, child |-> 1, failed |-> FALSE]>> \o @]
  <2> DEFINE g == [node |-> thread[c].at, child |-> 1, failed |-> FALSE]
             t == [thread[c] EXCEPT !.at = node.children[1], !.stack = <<g>> \o @]
  <2>1. g \in Frame /\ node.children[1] \in Nodes
    BY <1>1, <1>4 DEF Threads, Frame
  <2>2. <<g>> \o thread[c].stack \in Seq(Frame)
    <3> HIDE DEF g
    <3> QED BY <1>1, <2>1 DEF Threads
  <2>3. thread' = [thread EXCEPT ![c] = t] BY <1>1, <1>4
  <2>4. /\ t \in Threads /\ t.pc = thread[c].pc /\ t.next = thread[c].next
        /\ t.snapshot = thread[c].snapshot /\ t.success = thread[c].success
    <3> HIDE DEF g
    <3> QED BY <1>1, <2>1, <2>2 DEF Threads
  <2> HIDE DEF t
  <2> QED BY <1>1, <2>3, <2>4
<1> QED BY <1>2, <1>3, <1>4 DEF Proceed

LEMMA EnterWorks ==
  ASSUME TypeOK, NEW c \in Callers, Enter(c)
  PROVE  Working(c)
<1>1. /\ thread \in [Callers -> Threads] /\ thread[c] \in Threads BY DEF TypeOK
<1>2. thread[c].pc = "enter" /\ UNCHANGED <<running, contexts, cancelled, snapshots, late, swept>>
  BY DEF Enter
<1>3. CASE cancelled[c] /\ Give(c, "fail") /\ UNCHANGED vm
  BY <1>2, <1>3, GiveWorks, KeptVm DEF Working, Locked
<1>4. ASSUME NEW v, ~cancelled[c], SetVm(c, v),
             Give(c, "fail") \/ Proceed(c, Node(c))
      PROVE  Working(c)
  <2>1. Node(c).children = Def[thread[c].at].children
    BY DEF Node, Expand
  <2>2. Node(c).children \in Seq(Nodes)
    BY <1>1, <2>1, TreeAssumption DEF Threads
  <2> QED BY <1>2, <1>4, <2>2, GiveWorks, ProceedWorks, SetVmWorks
          DEF Working, Locked
<1> QED BY <1>3, <1>4 DEF Enter

-----------------------------------------------------------------------------
(* The inductive invariant, action by action.                              *)

\* Storing one name in a map.
LEMMA PutEffect ==
  ASSUME NEW f, NEW n, NEW v
  PROVE  /\ DOMAIN Put(f, n, v) = DOMAIN f \union {n}
         /\ Put(f, n, v)[n] = v
         /\ \A m \in DOMAIN f \ {n} : Put(f, n, v)[m] = f[m]
BY DEF Put, Over

\* Who has a twin keeps it as long as it stays with its task.
LEMMA TwinKept ==
  ASSUME NEW c \in Callers, thread'[c].next = thread[c].next
  PROVE  /\ HasTwin(c)' <=> HasTwin(c)
         /\ Task(c)' = Task(c)
BY DEF HasTwin, Task

LEMMA InitIInv == ASSUME Init PROVE IInv
<1>1. \A c \in Callers : /\ thread[c].pc \in {"idle", "done"}
                         /\ thread[c].pc = "idle" => thread[c].next \in 1..Len(Work[c])
  BY WorkAssumption DEF Init, Ready
<1>2. thread \in [Callers -> Threads]
  <2>1. (CHOOSE n \in Nodes : TRUE) \in Nodes BY TreeAssumption
  <2>2. \A c \in Callers : Ready(c, 0) \in {"idle", "done"} BY DEF Ready
  <2>3. <<>> \in Seq(Frame) OBVIOUS
  <2> QED BY <2>1, <2>2, <2>3 DEF Init, Threads
<1>3. \A e \in Executors : contexts[e] \in [DOMAIN contexts[e] -> Callers]
  BY DEF Init, NoVars
<1>4. \A e \in Executors : vm[e].local = NoVars /\ vm[e].inter = NoVars
  <2>1. NewManager.local = NoVars /\ NewManager.inter = NoVars BY DEF NewManager
  <2>2. ASSUME NEW g PROVE /\ [NewManager EXCEPT !.global = g].local = NoVars
                           /\ [NewManager EXCEPT !.global = g].inter = NoVars
    BY DEF NewManager
  <2>3. ASSUME NEW e
        PROVE  /\ LoadFromScheduleConfig(NewManager, Schedule, e).local = NoVars
               /\ LoadFromScheduleConfig(NewManager, Schedule, e).inter = NoVars
    BY <2>1, <2>2, Zenon DEF LoadFromScheduleConfig
  <2> QED BY <2>1, <2>2, <2>3 DEF Init
<1>5. TypeOK BY <1>2, <1>3 DEF Init, TypeOK
<1>6. Places /\ OneRuns /\ SnapshotsExist BY <1>1 DEF Places, OneRuns, SnapshotsExist, Locked
<1>7. ScopesAreClean BY <1>4 DEF ScopesAreClean
<1>8. ContextsFound BY <1>1 DEF ContextsFound, Inside
<1>9. SweptInside /\ ShutdownReaches BY DEF Init, SweptInside, ShutdownReaches
<1>10. CancelledTasksStop /\ LateStops BY DEF Init, CancelledTasksStop, LateStops
<1> QED BY <1>5, <1>6, <1>7, <1>8, <1>9, <1>10 DEF IInv

LEMMA WorkingIInv ==
  ASSUME IInv, NEW c \in Callers, Working(c)
  PROVE  IInv'
<1>1. /\ Locked(c) /\ Locked(c)' /\ Inside(c)
      /\ \A d \in Callers : /\ thread'[d].next = thread[d].next
                            /\ thread'[d].snapshot = thread[d].snapshot
                            /\ Locked(d)' <=> Locked(d)
                            /\ Inside(d)' <=> Inside(d)
                            /\ HasTwin(d)' <=> HasTwin(d)
                            /\ Task(d)' = Task(d)
                            /\ thread'[d].pc # "done" => thread[d].pc # "done"
  BY TwinKept DEF Working, Locked, Inside
<1>2. /\ late' \in [Callers -> Nat] /\ cancelled' = cancelled
      /\ \A d \in Callers : late'[d] # late[d] =>
           d = c /\ thread[c].pc = "command" /\ late'[c] = late[c] + 1 /\ cancelled[c]
  <2>1. late \in [Callers -> Nat] BY DEF IInv, TypeOK
  <2> QED BY <2>1 DEF Working
<1>3. TypeOK' BY <1>2 DEF Working, IInv, TypeOK
<1>4. Places' BY <1>1 DEF IInv, Places
<1>5. OneRuns' BY <1>1 DEF IInv, OneRuns
<1>6. SnapshotsExist' BY <1>1 DEF IInv, SnapshotsExist, Working
<1>7. ScopesAreClean'
  <2>1. SUFFICES ASSUME NEW e \in Executors, LockFree(e)'
                 PROVE  vm'[e].local = NoVars /\ vm'[e].inter = NoVars
    BY DEF ScopesAreClean
  <2>2. LockFree(e) /\ e # ExecutorOf[c] BY <1>1, <2>1 DEF LockFree
  <2>3. vm'[e] = vm[e] BY <2>1, <2>2 DEF Working, IInv, TypeOK
  <2> QED BY <2>1, <2>2, <2>3 DEF IInv, ScopesAreClean
<1>8. ContextsFound' BY <1>1 DEF IInv, ContextsFound, Working
<1>9. SweptInside' /\ ShutdownReaches'
  BY <1>1, <1>2 DEF IInv, SweptInside, ShutdownReaches, Working, TypeOK
<1>10. CancelledTasksStop'
  <2>1. SUFFICES ASSUME NEW d \in Callers PROVE late'[d] <= 1
    BY DEF CancelledTasksStop
  <2>2. CASE late'[d] = late[d] BY <2>2 DEF IInv, CancelledTasksStop
  <2>3. CASE late'[d] # late[d]
    <3>1. d = c /\ thread[d].pc = "command" /\ late'[d] = late[d] + 1
      BY <1>2, <2>3
    <3>2. late[d] \in Nat /\ ~(late[d] > 0) BY <3>1 DEF IInv, LateStops, TypeOK
    <3> QED BY <3>1, <3>2
  <2> QED BY <2>2, <2>3
<1>11. LateStops'
  <2>1. SUFFICES ASSUME NEW d \in Callers, late'[d] > 0
                 PROVE  cancelled'[d] /\ thread'[d].pc # "command"
    BY DEF LateStops
  <2>2. CASE late'[d] # late[d] BY <1>2, <2>2 DEF Working
  <2>3. CASE late'[d] = late[d]
    <3>1. cancelled[d] /\ thread[d].pc # "command" BY <2>1, <2>3 DEF IInv, LateStops
    <3> QED BY <1>2, <2>1, <3>1 DEF Working
  <2> QED BY <2>2, <2>3
<1> QED BY <1>3, <1>4, <1>5, <1>6, <1>7, <1>8, <1>9, <1>10, <1>11 DEF IInv

\* Taking a snapshot keeps those taken before.
LEMMA SnapshotTaken ==
  ASSUME NEW s, s \in Seq(Range(s)), NEW w
  PROVE  /\ Append(s, w) \in Seq(Range(Append(s, w)))
         /\ DOMAIN s = 1..Len(s) /\ Len(s) \in Nat
         /\ DOMAIN Append(s, w) = 1..(Len(s) + 1)
         /\ Append(s, w)[Len(s) + 1] = w
         /\ \A i \in 1..Len(s) : Append(s, w)[i] = s[i]
<1> DEFINE S == Range(s) \union {w}
           t == Append(s, w)
<1>1. s \in Seq(S) /\ w \in S
  <2>1. Range(s) \subseteq S OBVIOUS
  <2> QED BY <2>1, SeqMonotonic
<1>2. /\ t \in Seq(S) /\ DOMAIN s = 1..Len(s) /\ Len(s) \in Nat
      /\ Len(t) = Len(s) + 1 /\ DOMAIN t = 1..(Len(s) + 1) /\ t[Len(s) + 1] = w
      /\ \A i \in 1..Len(s) : t[i] = s[i]
  <2> HIDE DEF S
  <2> QED BY <1>1, AppendProperties
<1>3. t \in Seq(Range(t))
  <2>1. \A i \in 1..Len(t) : t[i] \in Range(t) BY <1>2 DEF Range
  <2>2. t \in [1..Len(t) -> S] /\ Len(t) \in Nat BY <1>2, LenProperties
  <2>3. t \in [1..Len(t) -> Range(t)]
    <3> HIDE DEF S, t
    <3> QED BY <2>1, <2>2
  <2> HIDE DEF S, t
  <2> QED BY <2>2, <2>3, SeqDef
<1> QED BY <1>2, <1>3

LEMMA RegisterIInv ==
  ASSUME IInv, NEW c \in Callers, Register(c)
  PROVE  IInv'
<1> DEFINE e0 == ExecutorOf[c]
           id == Task(c).segment_id
<1>1. /\ thread \in [Callers -> Threads] /\ thread[c] \in Threads
      /\ e0 \in Executors /\ thread[c].pc = "idle"
  BY ExecutorAssumption DEF IInv, TypeOK, Register
<1>2. /\ thread' \in [Callers -> Threads]
      /\ thread'[c].pc = "registered"
      /\ thread'[c].next = thread[c].next
      /\ \A d \in Callers \ {c} : thread'[d] = thread[d]
  BY <1>1 DEF Register, Threads
<1>3. /\ \A d \in Callers : /\ thread'[d].next = thread[d].next
                            /\ Locked(d)' <=> Locked(d)
                            /\ HasTwin(d)' <=> HasTwin(d)
                            /\ Task(d)' = Task(d)
                            /\ Locked(d) => thread'[d] = thread[d]
                            /\ d # c => (Inside(d)' <=> Inside(d))
      /\ ~Locked(c) /\ ~Inside(c) /\ Inside(c)'
  BY <1>1, <1>2, TwinKept DEF Locked, Inside
<1>4. /\ contexts' = [contexts EXCEPT ![e0] = Put(contexts[e0], id, c)]
      /\ cancelled' = [cancelled EXCEPT ![c] = FALSE]
      /\ late' = [late EXCEPT ![c] = 0]
      /\ UNCHANGED <<running, vm, snapshots, swept>>
  BY DEF Register
<1>5. /\ DOMAIN contexts'[e0] = DOMAIN contexts[e0] \union {id}
      /\ contexts'[e0][id] = c
      /\ \A s \in DOMAIN contexts[e0] \ {id} : contexts'[e0][s] = contexts[e0][s]
      /\ contexts'[e0] = [s \in DOMAIN contexts[e0] \union {id} |-> contexts'[e0][s]]
      /\ \A e \in Executors \ {e0} : contexts'[e] = contexts[e]
  <2>1. contexts = [e \in Executors |-> contexts[e]] BY DEF IInv, TypeOK
  <2>2. /\ contexts'[e0] = Put(contexts[e0], id, c)
        /\ \A e \in Executors \ {e0} : contexts'[e] = contexts[e]
    <3> HIDE DEF e0, id
    <3> QED BY <1>1, <1>4, <2>1
  <2> DEFINE old == contexts[e0]
             new == contexts'[e0]
  <2>3. new = Put(old, id, c) BY <2>2
  <2>4. /\ DOMAIN new = DOMAIN old \union {id} /\ new[id] = c
        /\ \A s \in DOMAIN old \ {id} : new[s] = old[s]
        /\ new = [s \in DOMAIN old \union {id} |-> new[s]]
    <3> HIDE DEF e0, id, old, new
    <3>1. new = [s \in DOMAIN old \union {id} |-> new[s]]
      BY <2>3 DEF Put, Over
    <3>2. /\ DOMAIN Put(old, id, c) = DOMAIN old \union {id}
          /\ Put(old, id, c)[id] = c
          /\ \A s \in DOMAIN old \ {id} : Put(old, id, c)[s] = old[s]
      BY DEF Put, Over
    <3>3. /\ DOMAIN new = DOMAIN old \union {id} /\ new[id] = c
          /\ \A s \in DOMAIN old \ {id} : new[s] = old[s]
      BY <2>3, <3>2, Zenon
    <3> QED BY <3>1, <3>3
  <2> QED BY <2>2, <2>4
<1>6. TypeOK'
  <2>1. \A e \in Executors : contexts'[e] \in [DOMAIN contexts'[e] -> Callers]
    <3>1. contexts[e0] \in [DOMAIN contexts[e0] -> Callers] BY <1>1 DEF IInv, TypeOK
    <3>2. contexts'[e0] \in [DOMAIN contexts'[e0] -> Callers]
      <4> HIDE DEF e0, id
      <4> QED BY <1>5, <3>1
    <3> QED BY <1>1, <1>5, <3>2 DEF IInv, TypeOK
  <2>2. contexts' = [e \in Executors |-> contexts'[e]]
    BY <1>4 DEF IInv, TypeOK
  <2> QED BY <1>2, <1>4, <2>1, <2>2 DEF IInv, TypeOK
<1>7. Places' BY <1>1, <1>2 DEF IInv, Places
<1>8. OneRuns' BY <1>3 DEF IInv, OneRuns
<1>9. SnapshotsExist' BY <1>3, <1>4 DEF IInv, SnapshotsExist
<1>10. ScopesAreClean'
  BY <1>3, <1>4 DEF IInv, ScopesAreClean, LockFree
<1>11. ContextsFound'
  <2>1. SUFFICES ASSUME NEW d \in Callers, Inside(d)', ~HasTwin(d)'
                 PROVE  \E s \in DOMAIN contexts'[ExecutorOf[d]] :
                          s = Task(d)'.segment_id /\ contexts'[ExecutorOf[d]][s] = d
    BY DEF ContextsFound
  <2>2. CASE d = c BY <1>3, <1>5, <2>2
  <2>3. CASE d # c
    <3>1. PICK s \in DOMAIN contexts[ExecutorOf[d]] :
            s = Task(d).segment_id /\ contexts[ExecutorOf[d]][s] = d
      BY <1>3, <2>1, <2>3 DEF IInv, ContextsFound
    <3>2. ExecutorOf[d] \in Executors BY ExecutorAssumption
    <3>3. ExecutorOf[d] = e0 => s # id
      <4>1. thread[c].next \in 1..Len(Work[c])
        BY <1>1 DEF IInv, Places
      <4>2. Work[c][thread[c].next].segment_id = id BY DEF Task
      <4> QED BY <1>3, <2>1, <2>3, <3>1, <4>1, <4>2 DEF HasTwin
    <3> HIDE DEF e0, id
    <3> QED BY <1>3, <1>5, <3>1, <3>2, <3>3
  <2> QED BY <2>2, <2>3
<1>12. SweptInside' BY <1>3, <1>4 DEF IInv, SweptInside, TypeOK
<1>13. ShutdownReaches'
  BY <1>3, <1>4 DEF IInv, ShutdownReaches, SweptInside, TypeOK
<1>14. CancelledTasksStop' BY <1>4 DEF IInv, CancelledTasksStop, TypeOK
<1>15. LateStops'
  BY <1>2, <1>4 DEF IInv, LateStops, TypeOK
<1> QED BY <1>6, <1>7, <1>8, <1>9, <1>10, <1>11, <1>12, <1>13, <1>14, <1>15
        DEF IInv

LEMMA BeginIInv ==
  ASSUME IInv, NEW c \in Callers, Begin(c)
  PROVE  IInv'
<1> DEFINE e0 == ExecutorOf[c]
<1>1. /\ thread \in [Callers -> Threads] /\ thread[c] \in Threads
      /\ e0 \in Executors /\ thread[c].pc = "registered" /\ LockFree(e0)
      /\ Task(c).behavior \in Nodes
      /\ snapshots[e0] \in Seq(Range(snapshots[e0])) /\ Len(snapshots[e0]) \in Nat
  <2>1. /\ thread \in [Callers -> Threads] /\ thread[c] \in Threads
        /\ e0 \in Executors /\ snapshots[e0] \in Seq(Range(snapshots[e0]))
    BY ExecutorAssumption DEF IInv, TypeOK
  <2>2. thread[c].pc = "registered" /\ LockFree(e0) BY DEF Begin
  <2>3. Len(snapshots[e0]) \in Nat BY <2>1, LenProperties
  <2>4. Task(c).behavior \in Nodes BY <2>2, WorkAssumption DEF IInv, Places, Task
  <2> QED BY <2>1, <2>2, <2>3, <2>4
<1>2. PICK w, v : /\ snapshots' = [snapshots EXCEPT ![e0] = Append(snapshots[e0], w)]
                  /\ SetVm(c, v)
  BY DEF Begin, CreateSnapshot
<1>3. /\ thread' \in [Callers -> Threads]
      /\ thread'[c].pc = "enter" /\ thread'[c].next = thread[c].next
      /\ thread'[c].snapshot = Len(snapshots[e0]) + 1
      /\ thread'[c].success = thread[c].success
      /\ \A d \in Callers \ {c} : thread'[d] = thread[d]
  <2> DEFINE t == [thread[c] EXCEPT !.pc = "enter", !.at = Task(c).behavior,
                     !.stack = <<>>, !.snapshot = Len(snapshots[e0]) + 1]
  <2>1. thread' = [thread EXCEPT ![c] = t] BY <1>1 DEF Begin
  <2>2. /\ t \in Threads /\ t.pc = "enter" /\ t.next = thread[c].next
        /\ t.snapshot = Len(snapshots[e0]) + 1 /\ t.success = thread[c].success
    <3>1. <<>> \in Seq(Frame) OBVIOUS
    <3>2. Len(snapshots[e0]) + 1 \in Nat BY <1>1
    <3> DEFINE n == Len(snapshots[e0]) + 1
               b == Task(c).behavior
    <3>3. b \in Nodes BY <1>1
    <3> HIDE DEF n, b
    <3> QED BY <1>1, <3>1, <3>2, <3>3 DEF Threads, n
  <2> HIDE DEF t
  <2> QED BY <1>1, <2>1, <2>2
<1>4. UNCHANGED <<running, contexts, cancelled, late, swept>> BY DEF Begin
<1>5. /\ snapshots' = [e \in Executors |-> snapshots'[e]]
      /\ vm' = [e \in Executors |-> vm'[e]]
      /\ snapshots'[e0] = Append(snapshots[e0], w)
      /\ \A e \in Executors \ {e0} : snapshots'[e] = snapshots[e] /\ vm'[e] = vm[e]
  BY <1>1, <1>2 DEF SetVm, IInv, TypeOK
<1>6. /\ Locked(c)' /\ Inside(c)
      /\ \A d \in Callers : /\ thread'[d].next = thread[d].next
                            /\ d # c => (Locked(d)' <=> Locked(d))
                            /\ d # c => thread'[d].snapshot = thread[d].snapshot
                            /\ Inside(d)' <=> Inside(d)
                            /\ HasTwin(d)' <=> HasTwin(d)
                            /\ Task(d)' = Task(d)
  BY <1>1, <1>3, TwinKept DEF Locked, Inside
<1>7. /\ \A d \in Callers : ExecutorOf[d] = e0 => ~Locked(d) BY <1>1 DEF LockFree
<1>8. TypeOK'
  <2>1. snapshots'[e0] \in Seq(Range(snapshots'[e0]))
    BY <1>1, <1>5, SnapshotTaken
  <2>2. \A e \in Executors : snapshots'[e] \in Seq(Range(snapshots'[e]))
    BY <1>5, <2>1 DEF IInv, TypeOK
  <2> QED BY <1>1, <1>3, <1>4, <1>5, <2>2 DEF IInv, TypeOK
<1>9. Places' BY <1>3, <1>6 DEF IInv, Places, Inside
<1>10. OneRuns' BY <1>6, <1>7 DEF IInv, OneRuns
<1>11. SnapshotsExist'
  <2>1. Len(snapshots[e0]) + 1 \in DOMAIN snapshots'[e0]
    BY <1>1, <1>5, SnapshotTaken
  <2> HIDE DEF e0
  <2> QED BY <1>3, <1>5, <1>6, <1>7, <2>1, ExecutorAssumption DEF IInv, SnapshotsExist, e0
<1>12. ScopesAreClean'
  BY <1>5, <1>6 DEF IInv, ScopesAreClean, LockFree
<1>13. ContextsFound' BY <1>4, <1>6 DEF IInv, ContextsFound
<1>14. SweptInside' /\ ShutdownReaches'
  BY <1>4, <1>6 DEF IInv, SweptInside, ShutdownReaches, TypeOK
<1>15. CancelledTasksStop' /\ LateStops'
  BY <1>3, <1>4 DEF IInv, CancelledTasksStop, LateStops
<1> QED BY <1>8, <1>9, <1>10, <1>11, <1>12, <1>13, <1>14, <1>15 DEF IInv

LEMMA FinishIInv ==
  ASSUME IInv, NEW c \in Callers, Finish(c)
  PROVE  IInv'
<1> DEFINE e0 == ExecutorOf[c]
<1>1. /\ thread \in [Callers -> Threads] /\ thread[c] \in Threads
      /\ e0 \in Executors /\ thread[c].pc = "return"
  BY ExecutorAssumption DEF IInv, TypeOK, Finish
<1>2. PICK v : SetVm(c, v) /\ v.local = NoVars /\ v.inter = NoVars
  BY ClearedScope DEF Finish
<1>3. /\ thread' \in [Callers -> Threads]
      /\ thread'[c].pc = "unregister" /\ thread'[c].next = thread[c].next
      /\ \A d \in Callers \ {c} : thread'[d] = thread[d]
  <2> DEFINE b == (thread[c].outcome = "ok")
             t == [[thread[c] EXCEPT !.pc = "unregister"] EXCEPT !.success = b]
  <2>1. b \in BOOLEAN OBVIOUS
  <2>2. thread' = [thread EXCEPT ![c] = t] BY <1>1 DEF Finish
  <2>3. t \in Threads /\ t.pc = "unregister" /\ t.next = thread[c].next
    <3> HIDE DEF b
    <3> QED BY <1>1, <2>1 DEF Threads
  <2> HIDE DEF t
  <2> QED BY <1>1, <2>2, <2>3
<1>4. UNCHANGED <<running, contexts, cancelled, snapshots, late, swept>>
  BY DEF Finish
<1>5. /\ vm' = [e \in Executors |-> vm'[e]]
      /\ vm'[e0].local = NoVars /\ vm'[e0].inter = NoVars
      /\ \A e \in Executors \ {e0} : vm'[e] = vm[e]
  BY <1>1, <1>2 DEF SetVm, IInv, TypeOK
<1>6. /\ Locked(c) /\ ~Locked(c)' /\ Inside(c)
      /\ \A d \in Callers : /\ thread'[d].next = thread[d].next
                            /\ d # c => (Locked(d)' <=> Locked(d))
                            /\ d # c => thread'[d] = thread[d]
                            /\ Inside(d)' <=> Inside(d)
                            /\ HasTwin(d)' <=> HasTwin(d)
                            /\ Task(d)' = Task(d)
  BY <1>1, <1>3, TwinKept DEF Locked, Inside
<1>7. TypeOK' BY <1>3, <1>4, <1>5 DEF IInv, TypeOK
<1>8. Places' BY <1>3, <1>6 DEF IInv, Places, Inside
<1>9. OneRuns' BY <1>6 DEF IInv, OneRuns
<1>10. SnapshotsExist' BY <1>4, <1>6 DEF IInv, SnapshotsExist
<1>11. ScopesAreClean' BY <1>5, <1>6 DEF IInv, ScopesAreClean, LockFree
<1>12. ContextsFound' BY <1>4, <1>6 DEF IInv, ContextsFound
<1>13. SweptInside' /\ ShutdownReaches'
  BY <1>4, <1>6 DEF IInv, SweptInside, ShutdownReaches, TypeOK
<1>14. CancelledTasksStop' /\ LateStops'
  BY <1>3, <1>4 DEF IInv, CancelledTasksStop, LateStops
<1> QED BY <1>7, <1>8, <1>9, <1>10, <1>11, <1>12, <1>13, <1>14 DEF IInv

\* The context that goes is the caller's own, or that of its twin.
LEMMA UnregisterIInv ==
  ASSUME IInv, NEW c \in Callers, Unregister(c)
  PROVE  IInv'
<1> DEFINE e0 == ExecutorOf[c]
           id == Task(c).segment_id
           kept == [s \in DOMAIN contexts[e0] \ {id} |-> contexts[e0][s]]
<1>1. /\ thread \in [Callers -> Threads] /\ thread[c] \in Threads
      /\ e0 \in Executors /\ thread[c].pc = "unregister"
      /\ thread[c].next \in 1..Len(Work[c]) /\ Len(Work[c]) \in Nat
  BY ExecutorAssumption, WorkAssumption DEF IInv, TypeOK, Places, Unregister
<1>2. /\ thread' \in [Callers -> Threads]
      /\ thread'[c].pc \in {"idle", "done"}
      /\ thread'[c].pc = "idle" => thread'[c].next \in 1..Len(Work[c])
      /\ \A d \in Callers \ {c} : thread'[d] = thread[d]
  <2> DEFINE n == thread[c].next
             b == Ready(c, n)
             t == [thread[c] EXCEPT !.pc = b, !.next = n + 1]
  <2>1. b \in {"idle", "done"} /\ (b = "idle" => n + 1 \in 1..Len(Work[c]))
    BY <1>1 DEF Ready
  <2>2. thread' = [thread EXCEPT ![c] = t] BY <1>1 DEF Unregister
  <2>3. n + 1 \in Nat BY <1>1 DEF Threads
  <2>4. t \in Threads /\ t.pc = b /\ t.next = n + 1
    <3> HIDE DEF b
    <3> QED BY <1>1, <2>1, <2>3 DEF Threads
  <2> HIDE DEF t, b
  <2> QED BY <1>1, <2>1, <2>2, <2>4
<1>3. /\ contexts' = [contexts EXCEPT ![e0] = kept]
      /\ swept' = swept \ {c}
      /\ UNCHANGED <<running, cancelled, vm, snapshots, late>>
  BY DEF Unregister
<1>4. /\ contexts' = [e \in Executors |-> contexts'[e]]
      /\ contexts'[e0] = kept
      /\ \A e \in Executors \ {e0} : contexts'[e] = contexts[e]
  <2>1. contexts = [e \in Executors |-> contexts[e]] BY DEF IInv, TypeOK
  <2> HIDE DEF kept, e0
  <2> QED BY <1>1, <1>3, <2>1
<1>5. /\ ~Locked(c) /\ ~Locked(c)' /\ ~Inside(c)'
      /\ \A d \in Callers \ {c} :
           /\ thread'[d] = thread[d]
           /\ Locked(d)' <=> Locked(d)
           /\ Inside(d)' <=> Inside(d)
           /\ HasTwin(d)' <=> HasTwin(d)
           /\ Task(d)' = Task(d)
  BY <1>1, <1>2, TwinKept DEF Locked, Inside
<1>6. TypeOK'
  <2>1. kept \in [DOMAIN kept -> Callers]
    BY <1>1 DEF IInv, TypeOK
  <2>2. \A e \in Executors : contexts'[e] \in [DOMAIN contexts'[e] -> Callers]
    <3> HIDE DEF kept, e0
    <3> QED BY <1>4, <2>1 DEF IInv, TypeOK
  <2> HIDE DEF kept, e0
  <2> QED BY <1>2, <1>3, <1>4, <2>2 DEF IInv, TypeOK
<1>7. Places' BY <1>2, <1>5 DEF IInv, Places
<1>8. OneRuns' BY <1>5 DEF IInv, OneRuns
<1>9. SnapshotsExist' BY <1>3, <1>5 DEF IInv, SnapshotsExist
<1>10. ScopesAreClean' BY <1>3, <1>5 DEF IInv, ScopesAreClean, LockFree
<1>11. ContextsFound'
  <2>1. SUFFICES ASSUME NEW d \in Callers, Inside(d)', ~HasTwin(d)'
                 PROVE  \E s \in DOMAIN contexts'[ExecutorOf[d]] :
                          s = Task(d)'.segment_id /\ contexts'[ExecutorOf[d]][s] = d
    BY DEF ContextsFound
  <2>2. d # c BY <1>5, <2>1
  <2>3. PICK s \in DOMAIN contexts[ExecutorOf[d]] :
          s = Task(d).segment_id /\ contexts[ExecutorOf[d]][s] = d
    BY <1>5, <2>1, <2>2 DEF IInv, ContextsFound
  <2>4. ExecutorOf[d] \in Executors BY ExecutorAssumption
  <2>5. ExecutorOf[d] = e0 => s # id
    <3>1. Work[c][thread[c].next].segment_id = id BY DEF Task
    <3> QED BY <1>1, <1>5, <2>1, <2>2, <2>3, <3>1 DEF HasTwin
  <2>6. CASE ExecutorOf[d] = e0
    <3>1. s \in DOMAIN kept /\ kept[s] = contexts[e0][s] BY <2>3, <2>5, <2>6
    <3> HIDE DEF kept, e0, id
    <3> QED BY <1>4, <1>5, <2>2, <2>3, <2>6, <3>1
  <2>7. CASE ExecutorOf[d] # e0
    <3> HIDE DEF kept, e0, id
    <3> QED BY <1>4, <1>5, <2>2, <2>3, <2>4, <2>7
  <2> QED BY <2>6, <2>7
<1>12. SweptInside' BY <1>3, <1>5 DEF IInv, SweptInside, TypeOK
<1>13. ShutdownReaches'
  BY <1>3, <1>5 DEF IInv, ShutdownReaches, TypeOK
<1>14. CancelledTasksStop' /\ LateStops'
  BY <1>2, <1>3 DEF IInv, CancelledTasksStop, LateStops
<1> QED BY <1>6, <1>7, <1>8, <1>9, <1>10, <1>11, <1>12, <1>13, <1>14 DEF IInv

\* Whose segment id is theirs alone is among the contexts shutdown() cancels.
LEMMA ShutdownIInv ==
  ASSUME IInv, NEW e0 \in Executors, Shutdown(e0)
  PROVE  IInv'
<1>1. /\ cancelled' = [c \in Callers |-> cancelled[c] \/ c \in Registered(e0)]
      /\ running' = [running EXCEPT ![e0] = FALSE]
      /\ swept' = swept \union {c \in Callers : ExecutorOf[c] = e0 /\ Inside(c)}
      /\ UNCHANGED <<contexts, vm, snapshots, thread, late>>
  BY DEF Shutdown
<1>2. \A c \in Callers : /\ Locked(c)' <=> Locked(c)
                         /\ Inside(c)' <=> Inside(c)
                         /\ HasTwin(c)' <=> HasTwin(c)
                         /\ Task(c)' = Task(c)
  BY <1>1, TwinKept DEF Locked, Inside
<1>3. \A c \in Callers : cancelled[c] => cancelled'[c] BY <1>1
<1>4. TypeOK'
  <2>1. cancelled' \in [Callers -> BOOLEAN]
    <3>1. \A c \in Callers : (cancelled[c] \/ c \in Registered(e0)) \in BOOLEAN
      BY Zenon DEF IInv, TypeOK
    <3> QED BY <1>1, <3>1, Zenon
  <2> QED BY <1>1, <2>1 DEF IInv, TypeOK
<1>5. Places' /\ OneRuns' /\ SnapshotsExist'
  BY <1>1, <1>2 DEF IInv, Places, OneRuns, SnapshotsExist
<1>6. ScopesAreClean' BY <1>1, <1>2 DEF IInv, ScopesAreClean, LockFree
<1>7. ContextsFound' BY <1>1, <1>2 DEF IInv, ContextsFound
<1>8. SweptInside' BY <1>1, <1>2 DEF IInv, SweptInside, TypeOK
<1>9. ShutdownReaches'
  <2>1. SUFFICES ASSUME NEW c \in swept', ~HasTwin(c)'
                 PROVE  cancelled'[c]
    BY DEF ShutdownReaches
  <2>2. c \in Callers BY <1>1, <2>1 DEF IInv, TypeOK
  <2>3. CASE c \in swept
    BY <1>2, <1>3, <2>1, <2>2, <2>3 DEF IInv, ShutdownReaches
  <2>4. CASE ExecutorOf[c] = e0 /\ Inside(c)
    <3>1. PICK s \in DOMAIN contexts[e0] : contexts[e0][s] = c
      BY <1>2, <2>1, <2>2, <2>4 DEF IInv, ContextsFound
    <3>2. c \in Registered(e0) BY <3>1 DEF Registered
    <3> QED BY <1>1, <2>2, <3>2
  <2> QED BY <1>1, <2>1, <2>3, <2>4
<1>10. CancelledTasksStop' /\ LateStops'
  BY <1>1, <1>3 DEF IInv, CancelledTasksStop, LateStops
<1> QED BY <1>4, <1>5, <1>6, <1>7, <1>8, <1>9, <1>10 DEF IInv

LEMMA StutterIInv == ASSUME IInv, UNCHANGED vars PROVE IInv'
<1>1. \A c \in Callers : /\ Locked(c)' <=> Locked(c)
                         /\ Inside(c)' <=> Inside(c)
                         /\ HasTwin(c)' <=> HasTwin(c)
                         /\ Task(c)' = Task(c)
  BY TwinKept DEF Locked, Inside, vars
<1>2. TypeOK' BY DEF IInv, TypeOK, vars
<1>3. Places' /\ OneRuns' /\ SnapshotsExist'
  BY <1>1 DEF IInv, Places, OneRuns, SnapshotsExist, vars
<1>4. ScopesAreClean' BY <1>1 DEF IInv, ScopesAreClean, LockFree, vars
<1>5. ContextsFound' BY <1>1 DEF IInv, ContextsFound, vars
<1>6. SweptInside' /\ ShutdownReaches'
  BY <1>1 DEF IInv, SweptInside, ShutdownReaches, vars, TypeOK
<1>7. CancelledTasksStop' /\ LateStops'
  BY <1>1 DEF IInv, CancelledTasksStop, LateStops, vars
<1> QED BY <1>2, <1>3, <1>4, <1>5, <1>6, <1>7 DEF IInv

LEMMA StepIInv == ASSUME IInv, [Next]_vars PROVE IInv'
<1>1. ASSUME NEW c \in Callers, CallerStep(c) PROVE IInv'
  <2>1. CASE Enter(c) \/ Command(c) \/ NextChild(c) \/ CompositeDone(c)
    <3>1. TypeOK BY DEF IInv
    <3>2. Working(c)
      BY <2>1, <3>1, EnterWorks, CommandWorks, NextChildWorks, CompositeDoneWorks
    <3> QED BY <3>2, WorkingIInv
  <2> QED BY <1>1, <2>1, RegisterIInv, BeginIInv, FinishIInv, UnregisterIInv
          DEF CallerStep
<1>2. ASSUME NEW e \in Executors, Shutdown(e) PROVE IInv'
  BY <1>2, ShutdownIInv
<1>3. CASE UNCHANGED vars BY <1>3, StutterIInv
<1> QED BY <1>1, <1>2, <1>3 DEF Next, Terminated

\* The invariant that the safety properties need together: who has the lock,
\* which contexts are registered, and what a cancelled task has still done.
THEOREM Invariance == Spec => []IInv
<1>1. Init => IInv BY InitIInv
<1>2. IInv /\ [Next]_vars => IInv' BY StepIInv
<1> QED BY <1>1, <1>2, PTL DEF Spec

\* Each caller is at a place of its task, and every map has the right keys.
THEOREM TypeCorrect == Spec => []TypeOK
<1>1. IInv => TypeOK BY DEF IInv
<1> QED BY <1>1, Invariance, PTL

\* clearScope runs on every way out of a task, exceptions included.
THEOREM CleanScopes == Spec => []ScopesAreClean
<1>1. IInv => ScopesAreClean BY DEF IInv
<1> QED BY <1>1, Invariance, PTL

\* shutdown() finds every call of executeTask whose segment id is its own.
THEOREM ShutdownFinds == Spec => []ShutdownReaches
<1>1. IInv => ShutdownReaches BY DEF IInv
<1> QED BY <1>1, Invariance, PTL

\* The flag is read at every node, so it stops a task before the next one.
THEOREM CancellationStops == Spec => []CancelledTasksStop
<1>1. IInv => CancelledTasksStop BY DEF IInv
<1> QED BY <1>1, Invariance, PTL

-----------------------------------------------------------------------------
(* The mailbox.                                                            *)

\* What instantiate() puts in for the holes changes no key of a node's params
\* and no command's name.
LEMMA ExpandKeeps ==
  ASSUME NEW n \in Nodes, NEW params
  PROVE  /\ Expand(n, params).command[1] = Def[n].command[1]
         /\ Keys(Expand(n, params).params) = Keys(Def[n].params)
<1>1. {"params", "command", "expression"} \subseteq DOMAIN Def[n]
  BY TreeAssumption
<1>2. Expand(n, params).params =
        [i \in DOMAIN Def[n].params |->
           <<Def[n].params[i][1], ReplaceVariables(Def[n].params[i][2], params)>>]
  BY <1>1 DEF Expand
<1>3. Expand(n, params).command = ExpandedCommand(Def[n].command, params)
  BY <1>1 DEF Expand
<1>4. ExpandedCommand(Def[n].command, params)[1] = Def[n].command[1]
  BY TreeAssumption DEF ExpandedCommand
<1>5. Keys(Expand(n, params).params) = Keys(Def[n].params)
  <2>1. DOMAIN Expand(n, params).params = DOMAIN Def[n].params BY <1>2
  <2>2. \A i \in DOMAIN Def[n].params :
          Expand(n, params).params[i][1] = Def[n].params[i][1]
    BY <1>2
  <2> QED BY <2>1, <2>2 DEF Keys
<1> QED BY <1>3, <1>4, <1>5

\* Only SEND changes the mailbox.
LEMMA StepMailbox ==
  ASSUME TypeOK, MailboxIsOnePacket, [Next]_vars PROVE MailboxIsOnePacket'
<1>1. ASSUME NEW c \in Callers, RunSend(c), mailbox' # mailbox
      PROVE  MailboxIsOnePacket'
  <2>1. thread[c].at \in Nodes BY DEF TypeOK, Threads
  <2>2. PICK n \in Nodes : n = thread[c].at BY <2>1
  <2>3. /\ mailbox' = Packet(Node(c).params, View(Vm(c)))
        /\ Node(c).command[1] = "SEND"
    BY <1>1 DEF RunSend, RunsCommand
  <2>4. DOMAIN mailbox' = Keys(Node(c).params) BY <2>3 DEF Packet
  <2>5. Def[n].command[1] = "SEND" /\ Keys(Node(c).params) = Keys(Def[n].params)
    BY <2>2, <2>3, ExpandKeeps DEF Node
  <2> QED BY <2>4, <2>5 DEF MailboxIsOnePacket
<1>2. ASSUME UNCHANGED mailbox PROVE MailboxIsOnePacket'
  BY <1>2 DEF MailboxIsOnePacket
<1>3. ASSUME NEW c \in Callers, CallerStep(c), ~RunSend(c) PROVE UNCHANGED mailbox
  BY <1>3 DEF CallerStep, Register, Begin, Enter, Command, RunAssign, RunMoveTo,
              RunReport, RunReceive, RunSetvar, RunFlag, RunUnsupported,
              NextChild, CompositeDone, Finish, Unregister
<1>4. ASSUME NEW e \in Executors, Shutdown(e) PROVE UNCHANGED mailbox
  BY <1>4 DEF Shutdown
<1>5. ASSUME Terminated \/ UNCHANGED vars PROVE UNCHANGED mailbox
  BY <1>5 DEF Terminated, vars
<1> QED BY <1>1, <1>2, <1>3, <1>4, <1>5 DEF Next

\* Whatever the satellites' trees send into the one mailbox of the process,
\* and in whatever order: what a RECEIVE finds is all of one SEND.
THEOREM OnePacket == Spec => []MailboxIsOnePacket
<1>1. Init => MailboxIsOnePacket BY DEF Init, MailboxIsOnePacket
<1> QED BY <1>1, StepMailbox, TypeCorrect, PTL DEF Spec

-----------------------------------------------------------------------------
(* executeTask implements TaskTransactions.                                *)

\* The caller that has the lock is the one the mapping names.
LEMMA RunnerFound ==
  ASSUME OneRuns, NEW c \in Callers, Locked(c)
  PROVE  /\ ~LockFree(ExecutorOf[c])
         /\ Runner(ExecutorOf[c]) = c
         /\ LastStore(ExecutorOf[c]) = snapshots[ExecutorOf[c]][thread[c].snapshot].global
<1> DEFINE d == CHOOSE d \in Callers : Runs(d, ExecutorOf[c])
<1>1. ~LockFree(ExecutorOf[c]) BY DEF LockFree
<1>2. d \in Callers /\ Runs(d, ExecutorOf[c])
  <2>1. Runs(c, ExecutorOf[c]) BY DEF Runs
  <2> QED BY <2>1
<1>3. d = c
  <2> HIDE DEF d
  <2> QED BY <1>2 DEF Runs, OneRuns
<1>4. Runner(ExecutorOf[c]) = c BY <1>1, <1>3 DEF Runner
<1> QED BY <1>1, <1>4 DEF LastStore

LEMMA RunnerFoundNext ==
  ASSUME OneRuns', NEW c \in Callers, Locked(c)'
  PROVE  /\ ~LockFree(ExecutorOf[c])'
         /\ Runner(ExecutorOf[c])' = c
         /\ LastStore(ExecutorOf[c])'
              = snapshots'[ExecutorOf[c]][thread'[c].snapshot].global
<1> DEFINE Has(d) == /\ ExecutorOf[d] = ExecutorOf[c]
                     /\ thread'[d].pc \in {"enter", "command", "return"}
           d == CHOOSE d \in Callers : Has(d)
<1>1. ~LockFree(ExecutorOf[c])' BY DEF LockFree
<1>2. d \in Callers /\ Has(d)
  <2>1. Has(c) BY DEF Locked
  <2> QED BY <2>1
<1>3. d = c
  <2> HIDE DEF d
  <2> QED BY <1>2 DEF Locked, OneRuns
<1>4. Runner(ExecutorOf[c])' = d BY <1>1 DEF Runner, Runs, Locked
<1>5. Runner(ExecutorOf[c])' = c BY <1>3, <1>4
<1> HIDE DEF d
<1> QED BY <1>1, <1>5 DEF LastStore

\* Where the lock and what it protects stay as they are, so does the mapping.
LEMMA ExecutorKept ==
  ASSUME OneRuns, OneRuns', NEW e \in Executors,
         \A d \in Callers : ExecutorOf[d] = e =>
           /\ Locked(d)' <=> Locked(d)
           /\ Locked(d) => /\ thread'[d].snapshot = thread[d].snapshot
                           /\ snapshots'[e][thread[d].snapshot]
                                = snapshots[e][thread[d].snapshot],
         LockFree(e) => vm'[e] = vm[e]
  PROVE  Runner(e)' = Runner(e) /\ LastStore(e)' = LastStore(e)
<1>1. CASE LockFree(e)
  <2>1. LockFree(e)' BY <1>1 DEF LockFree
  <2> QED BY <1>1, <2>1 DEF Runner, LastStore
<1>2. CASE ~LockFree(e)
  <2>1. PICK d \in Callers : ExecutorOf[d] = e /\ Locked(d) BY <1>2 DEF LockFree
  <2> QED BY <2>1, RunnerFound, RunnerFoundNext
<1> QED BY <1>1, <1>2

\* The steps that leave the mapping alone.
Quiet ==
  /\ \A d \in Callers :
       /\ Locked(d)' <=> Locked(d)
       /\ Locked(d) => thread'[d].snapshot = thread[d].snapshot
       /\ thread'[d].success = thread[d].success
  /\ \A e \in Executors : LockFree(e) => vm'[e] = vm[e]
  /\ UNCHANGED snapshots

LEMMA QuietStutters ==
  ASSUME IInv, IInv', Quiet
  PROVE  UNCHANGED Transactions!vars
<1>1. \A e \in Executors : Runner(e)' = Runner(e) /\ LastStore(e)' = LastStore(e)
  BY ExecutorKept DEF Quiet, IInv
<1>2. \A c \in Callers : thread'[c].success = thread[c].success BY DEF Quiet
<1> QED BY <1>1, <1>2 DEF Transactions!vars

LEMMA BeginRefines ==
  ASSUME IInv, IInv', NEW c \in Callers, Begin(c)
  PROVE  Transactions!Begin(c)
<1> DEFINE e0 == ExecutorOf[c]
           fresh == TaskContext(vm[e0], Task(c))
<1>1. /\ thread \in [Callers -> Threads] /\ thread[c] \in Threads
      /\ e0 \in Executors /\ LockFree(e0)
      /\ snapshots[e0] \in Seq(Range(snapshots[e0])) /\ Len(snapshots[e0]) \in Nat
  <2>1. /\ thread \in [Callers -> Threads] /\ thread[c] \in Threads
        /\ e0 \in Executors /\ snapshots[e0] \in Seq(Range(snapshots[e0]))
    BY ExecutorAssumption DEF IInv, TypeOK
  <2> QED BY <2>1, LenProperties DEF Begin
<1>2. /\ thread'[c].pc = "enter" /\ thread'[c].snapshot = Len(snapshots[e0]) + 1
      /\ thread'[c].success = thread[c].success
      /\ \A d \in Callers \ {c} : thread'[d] = thread[d]
  BY <1>1 DEF Begin, Threads
<1>3. /\ snapshots'[e0] = Append(snapshots[e0], fresh)
      /\ \A e \in Executors \ {e0} : snapshots'[e] = snapshots[e] /\ vm'[e] = vm[e]
  BY <1>1 DEF Begin, CreateSnapshot, SetVm, IInv, TypeOK
<1>4. \A e \in Executors \ {e0} : Runner(e)' = Runner(e) /\ LastStore(e)' = LastStore(e)
  <2>1. \A d \in Callers : ExecutorOf[d] # e0 => thread'[d] = thread[d] BY <1>2
  <2>2. \A d \in Callers : ExecutorOf[d] # e0 => (Locked(d)' <=> Locked(d))
    BY <2>1 DEF Locked
  <2> HIDE DEF e0, fresh
  <2> QED BY <1>3, <2>1, <2>2, ExecutorKept DEF IInv
<1>5. Runner(e0) = Nobody /\ LastStore(e0) = vm[e0].global
  BY <1>1 DEF Runner, LastStore
<1>6. Runner(e0)' = c /\ LastStore(e0)' = fresh.global
  <2>1. Locked(c)' BY <1>2 DEF Locked
  <2>2. snapshots'[e0][thread'[c].snapshot] = fresh
    BY <1>1, <1>2, <1>3, SnapshotTaken
  <2> HIDE DEF fresh
  <2> QED BY <2>1, <2>2, RunnerFoundNext DEF IInv
<1>7. fresh.global = Over([n \in IdNames |-> Text(<<Word(Task(c)[n])>>)], vm[e0].global)
  <2> DEFINE cleared == ClearScope(ClearScope(vm[e0], "local"), "inter")
             g == Over([n \in IdNames |-> Text(<<Word(Task(c)[n])>>)], cleared.global)
             named == [cleared EXCEPT !.global = g]
  <2>1. cleared.global = vm[e0].global BY ClearedScope
  <2>2. DOMAIN cleared = Scopes BY DEF ClearScope
  <2>3. named.global = g /\ DOMAIN named = Scopes
    <3> HIDE DEF g, cleared
    <3> QED BY <2>2 DEF Scopes
  <2>4. fresh = SetFromParams(named, "local", Task(c).params) BY DEF TaskContext
  <2>5. fresh.global = named.global
    <3> HIDE DEF named, fresh
    <3> QED BY <2>3, <2>4 DEF SetFromParams, Scopes
  <2> QED BY <2>1, <2>3, <2>5
<1>8. Transactions!AgreeBut(IdNames, vm[e0].global, fresh.global)
  <2> DEFINE ids == [n \in IdNames |-> Text(<<Word(Task(c)[n])>>)]
             old == vm[e0].global
             new == fresh.global
  <2>1. new = [n \in DOMAIN ids \union DOMAIN old |->
                 IF n \in DOMAIN ids THEN ids[n] ELSE old[n]]
    BY <1>7 DEF Over
  <2>2. DOMAIN ids = IdNames OBVIOUS
  <2>3. ASSUME NEW n \in (DOMAIN old \union DOMAIN new) \ IdNames
        PROVE  n \in DOMAIN old /\ n \in DOMAIN new /\ old[n] = new[n]
    <3> HIDE DEF ids, old, new
    <3> QED BY <2>1, <2>2, <2>3
  <2> QED BY <2>3 DEF Transactions!AgreeBut
<1>9. c # Nobody BY ExecutorAssumption
<1>10. [e \in Executors |-> Runner(e)]' = [[e \in Executors |-> Runner(e)] EXCEPT ![e0] = c]
  <2> HIDE DEF e0, fresh
  <2> QED BY <1>1, <1>4, <1>6
<1>11. Transactions!OthersKept(e0)
  <2> HIDE DEF e0, fresh
  <2> QED BY <1>4 DEF Transactions!OthersKept
<1>12. [d \in Callers |-> thread[d].success]' = [d \in Callers |-> thread[d].success]
  BY <1>2
<1>13. [e \in Executors |-> LastStore(e)]'[e0] = fresh.global
  <2> HIDE DEF fresh
  <2> QED BY <1>1, <1>6
<1> HIDE DEF fresh
<1> QED BY <1>1, <1>5, <1>8, <1>10, <1>11, <1>12, <1>13 DEF Transactions!Begin

LEMMA FinishRefines ==
  ASSUME IInv, IInv', EnableRollback, NEW c \in Callers, Finish(c)
  PROVE  Transactions!Commit(c) \/ Transactions!Abort(c)
<1> DEFINE e0 == ExecutorOf[c]
           result == thread[c].outcome
           taken == snapshots[e0][thread[c].snapshot]
           left == IF RollsBack(result)
                     THEN RestoreSnapshot(vm[e0], snapshots[e0], thread[c].snapshot)
                     ELSE vm[e0]
<1>1. /\ thread \in [Callers -> Threads] /\ thread[c] \in Threads
      /\ e0 \in Executors /\ thread[c].pc = "return" /\ Locked(c)
      /\ result \in {"ok", "fail", "throw"}
  BY ExecutorAssumption DEF IInv, TypeOK, Finish, Locked, Threads
<1>2. /\ thread'[c].pc = "unregister" /\ thread'[c].success = (result = "ok")
      /\ \A d \in Callers \ {c} : thread'[d] = thread[d]
  <2> DEFINE b == (thread[c].outcome = "ok")
             t == [[thread[c] EXCEPT !.pc = "unregister"] EXCEPT !.success = b]
  <2>1. thread' = [thread EXCEPT ![c] = t] BY <1>1 DEF Finish
  <2>2. t.pc = "unregister" /\ t.success = b
    <3> HIDE DEF b
    <3> QED BY <1>1 DEF Threads
  <2> HIDE DEF t
  <2> QED BY <1>1, <2>1, <2>2
<1>3. /\ vm'[e0].global = left.global
      /\ \A e \in Executors \ {e0} : vm'[e] = vm[e]
      /\ UNCHANGED snapshots
  <2>1. vm'[e0] = ClearScope(ClearScope(left, "local"), "inter")
    BY <1>1 DEF Finish, SetVm, IInv, TypeOK
  <2>2. UNCHANGED snapshots /\ \A e \in Executors \ {e0} : vm'[e] = vm[e]
    BY <1>1 DEF Finish, SetVm, IInv, TypeOK
  <2> HIDE DEF left
  <2> QED BY <2>1, <2>2, ClearedScope
<1>4. \A e \in Executors \ {e0} : Runner(e)' = Runner(e) /\ LastStore(e)' = LastStore(e)
  <2>1. \A d \in Callers : ExecutorOf[d] # e0 => thread'[d] = thread[d] BY <1>2
  <2>2. \A d \in Callers : ExecutorOf[d] # e0 => (Locked(d)' <=> Locked(d))
    BY <2>1 DEF Locked
  <2> HIDE DEF e0, left, taken
  <2> QED BY <1>3, <2>1, <2>2, ExecutorKept DEF IInv
<1>5. Runner(e0) = c /\ LastStore(e0) = taken.global
  BY <1>1, RunnerFound DEF IInv
<1>6. LockFree(e0)'
  <2>1. \A d \in Callers : d # c /\ ExecutorOf[d] = e0 => ~Locked(d)
    BY <1>1 DEF IInv, OneRuns
  <2> QED BY <1>2, <2>1 DEF LockFree, Locked
<1>7. Runner(e0)' = Nobody /\ LastStore(e0)' = left.global
  <2> HIDE DEF left
  <2> QED BY <1>3, <1>6 DEF Runner, LastStore
<1>8. result # "ok" => left.global = taken.global
  <2>1. thread[c].snapshot \in DOMAIN snapshots[e0]
    BY <1>1 DEF IInv, SnapshotsExist
  <2> QED BY <1>1, <2>1 DEF RollsBack, RestoreSnapshot
<1>9. /\ [e \in Executors |-> Runner(e)][e0] = c
      /\ [e \in Executors |-> Runner(e)]' = [[e \in Executors |-> Runner(e)] EXCEPT ![e0] = Nobody]
      /\ Transactions!OthersKept(e0)
  <2> HIDE DEF e0, left, taken
  <2> QED BY <1>1, <1>4, <1>5, <1>7 DEF Transactions!OthersKept
<1>10. [d \in Callers |-> thread[d].success]'
         = [[d \in Callers |-> thread[d].success] EXCEPT ![c] = (result = "ok")]
  <2> HIDE DEF result
  <2> QED BY <1>2
<1>11. result # "ok" => [e \in Executors |-> LastStore(e)]' = [e \in Executors |-> LastStore(e)]
  <2> HIDE DEF e0, left, taken
  <2> QED BY <1>4, <1>5, <1>7, <1>8
<1>12. CASE result = "ok"
  <2>1. (result = "ok") = TRUE BY <1>12
  <2> HIDE DEF result, left, taken
  <2> QED BY <1>9, <1>10, <2>1, Zenon DEF Transactions!Commit, Transactions!End
<1>13. CASE result # "ok"
  <2>1. (result = "ok") = FALSE BY <1>13
  <2> HIDE DEF result, left, taken
  <2> QED BY <1>9, <1>10, <1>11, <1>13, <2>1, Zenon
          DEF Transactions!Abort, Transactions!End
<1> QED BY <1>12, <1>13

LEMMA StepRefines ==
  ASSUME IInv, IInv', EnableRollback, [Next]_vars
  PROVE  [Transactions!Next]_(Transactions!vars)
<1>1. ASSUME NEW c \in Callers, Working(c) PROVE Quiet
  <2>1. \A e \in Executors : LockFree(e) => vm'[e] = vm[e]
    <3>1. SUFFICES ASSUME NEW e \in Executors, LockFree(e) PROVE vm'[e] = vm[e]
      OBVIOUS
    <3>2. e # ExecutorOf[c] BY <1>1, <3>1 DEF Working, LockFree
    <3> QED BY <1>1, <3>2 DEF Working, IInv, TypeOK
  <2> QED BY <1>1, <2>1 DEF Quiet, Working, Locked
<1>2. ASSUME NEW c \in Callers, Register(c) PROVE Quiet
  <2>1. thread \in [Callers -> Threads] /\ thread[c].pc = "idle"
    BY <1>2 DEF IInv, TypeOK, Register
  <2>2. thread' = [thread EXCEPT ![c].pc = "registered"] BY <1>2 DEF Register
  <2>3. UNCHANGED <<vm, snapshots>> BY <1>2 DEF Register
  <2>4. /\ thread'[c].pc = "registered" /\ thread'[c].success = thread[c].success
        /\ \A d \in Callers \ {c} : thread'[d] = thread[d]
    BY <2>1, <2>2 DEF Threads
  <2> QED BY <2>1, <2>3, <2>4 DEF Quiet, Locked
<1>3. ASSUME NEW c \in Callers, Unregister(c) PROVE Quiet
  <2>1. thread \in [Callers -> Threads] /\ thread[c].pc = "unregister"
    BY <1>3 DEF IInv, TypeOK, Unregister
  <2>2. UNCHANGED <<vm, snapshots>> BY <1>3 DEF Unregister
  <2> DEFINE b == Ready(c, thread[c].next)
  <2>3. /\ thread'[c].pc = b /\ thread'[c].success = thread[c].success
        /\ \A d \in Callers \ {c} : thread'[d] = thread[d]
    <3>1. thread' = [thread EXCEPT ![c].pc = b, ![c].next = @ + 1]
      BY <1>3 DEF Unregister
    <3> HIDE DEF b
    <3> QED BY <2>1, <3>1 DEF Threads
  <2>4. b \in {"idle", "done"} BY DEF Ready
  <2> HIDE DEF b
  <2> QED BY <2>1, <2>2, <2>3, <2>4 DEF Quiet, Locked
<1>4. ASSUME NEW e \in Executors, Shutdown(e) PROVE Quiet
  BY <1>4 DEF Shutdown, Quiet, Locked
<1>5. ASSUME UNCHANGED vars PROVE Quiet BY <1>5 DEF vars, Quiet, Locked
<1>6. ASSUME NEW c \in Callers, Enter(c) \/ Command(c) \/ NextChild(c) \/ CompositeDone(c)
      PROVE  Quiet
  <2>1. TypeOK BY DEF IInv
  <2>2. Working(c)
    BY <1>6, <2>1, EnterWorks, CommandWorks, NextChildWorks, CompositeDoneWorks
  <2> QED BY <2>2, <1>1
<1>7. ASSUME NEW c \in Callers, Begin(c) \/ Finish(c) PROVE Transactions!Next
  BY <1>7, BeginRefines, FinishRefines DEF Transactions!Next
<1> QED BY <1>2, <1>3, <1>4, <1>5, <1>6, <1>7, QuietStutters
        DEF Next, CallerStep, Terminated

\* executeTask implements transactions where rolling back is enabled, as the
\* simulators enable it.
THEOREM TasksAreTransactions ==
  ASSUME EnableRollback
  PROVE  Spec => ImplementsTransactions
<1>1. Init => Transactions!Init
  <2>1. SUFFICES ASSUME Init PROVE Transactions!Init OBVIOUS
  <2>2. \A c \in Callers : ~Locked(c) /\ thread[c].success = FALSE
    <3>1. \A c \in Callers : thread[c].pc \in {"idle", "done"}
      BY <2>1 DEF Init, Ready
    <3> QED BY <2>1, <3>1 DEF Init, Locked
  <2>3. \A e \in Executors : Runner(e) = Nobody BY <2>2 DEF Runner, LockFree
  <2> QED BY <2>2, <2>3 DEF Transactions!Init
<1>2. IInv /\ IInv' /\ [Next]_vars
        => [Transactions!Next]_(Transactions!vars)
  BY StepRefines
<1> QED BY <1>1, <1>2, Invariance, PTL DEF Spec, ImplementsTransactions, Transactions!Spec
=============================================================================
