-------------------------- MODULE VariableManager --------------------------
(***************************************************************************)
(* The variables of one executor: a record vm of the three scopes, each a  *)
(* function from names to values, and the sequence of the snapshots taken  *)
(* so far, of which none is ever discarded; a snapshot's id is its place.  *)
(* The class locks each operation; its only user holds a lock around them  *)
(* all.                                                                    *)
(***************************************************************************)
EXTENDS Values

NoVars == [n \in {} |-> n]

\* f, and g where f says nothing.
Over(f, g) ==
  [n \in DOMAIN f \union DOMAIN g |-> IF n \in DOMAIN f THEN f[n] ELSE g[n]]

Put(f, n, v) == Over([m \in {n} |-> v], f)

NewManager == [global |-> NoVars, local |-> NoVars, inter |-> NoVars]

\* What get() finds: LOCAL hides INTERMEDIATE hides GLOBAL.
View(vm) == Over(vm.local, Over(vm.inter, vm.global))

SetVar(vm, scope, n, v) == [vm EXCEPT ![scope] = Put(@, n, v)]

Scopes == {"global", "local", "inter"}

\* Fault variant: whatever the scope, it is LOCAL that is cleared.
ClearScopeLocal(vm, scope) == [s \in Scopes |-> IF s = "local" THEN NoVars ELSE vm[s]]

ClearScope(vm, scope) == [s \in Scopes |-> IF s = scope THEN NoVars ELSE vm[s]]

SetFromParams(vm, scope, params) ==
  [vm EXCEPT ![scope] = Over([n \in DOMAIN params |-> Literal(params[n])], @)]

\* The entry of a satellite in the schedule, the first if there are several.
\* An entry is a record of its satellite_id and node_id and, if it has tasks,
\* their number.
LoadFromScheduleConfig(vm, schedule, satellite) ==
  LET mine == {i \in DOMAIN schedule : schedule[i].satellite_id = satellite}
      s == schedule[Min(mine)]
      known == [satellite_id |-> Text(<<Word(satellite)>>),
                node_id |-> Text(<<Word(s.node_id)>>)]
      count == IF "tasks" \in DOMAIN s
                 THEN [my_scheduled_task_count |-> Whole(s.tasks)] ELSE NoVars
  IN  IF mine = {} THEN vm ELSE [vm EXCEPT !.global = Over(Over(known, count), @)]

CreateSnapshot(taken, vm) == Append(taken, vm)

RestoreSnapshot(vm, taken, id) == IF id \in DOMAIN taken THEN taken[id] ELSE vm
=============================================================================
