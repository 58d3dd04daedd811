----------------------------- MODULE InputFiles ------------------------------
(***************************************************************************)
(* What the input files say, and what becomes of it: parseAllSatellites    *)
(* reads the schedule entry by entry and keeps what it has when an         *)
(* exception stops it; distributeAllTasks sends each satellite its tasks   *)
(* in JSON, which the satellite's simulator parses and hands to the        *)
(* executor; parseNodeFromJson reads a behaviour.                          *)
(* A JSON value is a pair of its type and its contents: "string" a text,   *)
(* "int" a number, "float" a fraction, "bool" a boolean, "object" a        *)
(* function, "array" a sequence, "null" nothing.  JSON numbers are         *)
(* fractions of few digits: six are all that is printed of a float.        *)
(***************************************************************************)
EXTENDS Values, Functions

CONSTANTS
  Json,       \* JSON values, with all that is in them
  Depth(_),   \* how deep a value is
  MaxDepth,   \* bound on it
  Schedules,  \* the contents of "satellites" that are tried
  Behaviors,  \* the behaviours that are tried
  BehaviorName  \* the name that a behaviour stands under in the library

\* What is in an object.
Documents == {v[2] : v \in {w \in Json : w[1] = "object"}}

InLowestTerms(r) ==
  /\ r = <<r[1], r[2]>> /\ r[1] \in Int /\ r[2] \in Nat \ {0}
  /\ LET size == IF r[1] < 0 THEN -r[1] ELSE r[1] IN
     \A k \in 2..r[2] : ~(size % k = 0 /\ r[2] % k = 0)

ASSUME FilesAssumption ==
  /\ \A v \in Json :
       /\ v = <<v[1], v[2]>>
       /\ v[1] = "int" => v[2] \in Int
       /\ v[1] = "float" => InLowestTerms(v[2])
       /\ v[1] = "bool" => v[2] \in BOOLEAN
       /\ v[1] = "array" => v[2] \in Seq(Json)
       /\ v[1] = "object" => \A key \in DOMAIN v[2] :
                               v[2][key] \in Json /\ Depth(v[2][key]) < Depth(v)
       /\ v[1] = "array" => \A i \in DOMAIN v[2] : Depth(v[2][i]) < Depth(v)
       /\ Depth(v) \in 0..MaxDepth
  /\ MaxDepth \in Nat
  /\ Schedules \subseteq Json /\ Behaviors \subseteq Documents

VARIABLES
  document,   \* a behaviour in the library
  nodes,      \* the BehaviorNode read from it, or none yet
  satellites, \* the array, or whatever else is in its place
  pos,        \* the next entry
  schedule,   \* result, of type MultiSatSchedule
  threw       \* an exception has stopped the loop

filesVars == <<document, nodes, satellites, pos, schedule, threw>>

-----------------------------------------------------------------------------
(* Fields                                                                  *)

\* value(key, default) of nlohmann::json, which throws at a value of another
\* type than the default's.
StringOr(o, key, default) == IF key \in DOMAIN o THEN o[key][2] ELSE default

IsString(o, key) == key \in DOMAIN o => o[key][1] = "string"

\* Numbers as texts.  A float without a fraction loses its decimal point.
Signed(n) == IF n < 0 THEN <<Sym("-"), Whole(-n)>> ELSE <<Whole(n)>>

FloatText(r) ==
  IF r[2] = 1 THEN Signed(r[1])
  ELSE IF r[1] < 0 THEN <<Sym("-"), <<"dec", <<-r[1], r[2]>>>>>> ELSE <<<<"dec", r>>>>

Scalars == {"string", "int", "float", "bool"}

\* jsonScalarToString.
ScalarText(v) ==
  CASE v[1] = "string" -> v[2]
    [] v[1] = "int"    -> Signed(v[2])
    [] v[1] = "float"  -> FloatText(v[2])
    [] v[1] = "bool"   -> <<Word(IF v[2] THEN "true" ELSE "false")>>

\* parseScalarObjectToMap: what is not a scalar is left out.
ScalarMap(o, key) ==
  IF key \in DOMAIN o /\ o[key][1] = "object"
    THEN [k \in {n \in DOMAIN o[key][2] : o[key][2][n][1] \in Scalars} |->
            ScalarText(o[key][2][k])]
    ELSE [k \in {} |-> k]

\* The items of an array that are objects, in order.
ObjectsIn(items) ==
  LET upTo[n \in 0..Len(items)] ==
        IF n = 0 THEN <<>>
        ELSE IF items[n][1] = "object" THEN Append(upTo[n - 1], items[n])
        ELSE upTo[n - 1]
  IN  upTo[Len(items)]

Objects(o, key) ==
  IF key \in DOMAIN o /\ o[key][1] = "array" THEN ObjectsIn(o[key][2]) ELSE <<>>

-----------------------------------------------------------------------------
(* parseAllSatellites                                                      *)

Empty == [ids |-> <<>>, infos |-> <<>>, tasks |-> [s \in {} |-> s]]

FilesInit ==
  /\ document \in Behaviors
  /\ nodes = <<>>
  /\ satellites \in Schedules
  /\ pos = 1
  /\ schedule = Empty
  /\ threw = FALSE

\* parseTaskSegment, which throws unless TaskParses.
TaskParses(o) == \A key \in {"segment_id", "task_id", "behavior_ref"} : IsString(o, key)

TaskOf(o, id) ==
  [satellite_id |-> id, segment_id |-> StringOr(o, "segment_id", <<>>),
   task_id |-> StringOr(o, "task_id", <<>>),
   behavior_ref |-> StringOr(o, "behavior_ref", <<>>),
   behavior_params |-> ScalarMap(o, "behavior_params")]

InfoOf(o, id) ==
  [satellite_id |-> id, node_id |-> StringOr(o, "node_id", id),
   name |-> StringOr(o, "name", id)]

\* Where an entry with an id throws: before its info is listed, before its
\* tasks are, or nowhere.
InfoParses(o) == IsString(o, "node_id") /\ IsString(o, "name")

TasksParse(o) ==
  \A i \in DOMAIN Objects(o, "scheduled_tasks") :
    TaskParses(Objects(o, "scheduled_tasks")[i][2])

TasksOf(o, id) ==
  [i \in DOMAIN Objects(o, "scheduled_tasks") |->
     TaskOf(Objects(o, "scheduled_tasks")[i][2], id)]

\* Fault variant: the tasks of a satellite's entries are put together.
ParseEntryAppends(o, id) ==
  /\ schedule' =
       [ids |-> Append(schedule.ids, id),
        infos |-> IF InfoParses(o) THEN Append(schedule.infos, InfoOf(o, id))
                  ELSE schedule.infos,
        tasks |-> IF InfoParses(o) /\ TasksParse(o)
                    THEN [s \in DOMAIN schedule.tasks \union {id} |->
                            IF s # id THEN schedule.tasks[s]
                            ELSE (IF s \in DOMAIN schedule.tasks THEN schedule.tasks[s] ELSE <<>>)
                                 \o TasksOf(o, id)]
                    ELSE schedule.tasks]
  /\ threw' = ~(InfoParses(o) /\ TasksParse(o))

\* Fault variant: tasks are listed before the satellite's info is read.
ParseEntryTasksFirst(o, id) ==
  /\ schedule' =
       [ids |-> Append(schedule.ids, id),
        infos |-> IF InfoParses(o) /\ TasksParse(o)
                    THEN Append(schedule.infos, InfoOf(o, id)) ELSE schedule.infos,
        tasks |-> IF TasksParse(o)
                    THEN [s \in DOMAIN schedule.tasks \union {id} |->
                            IF s = id THEN TasksOf(o, id) ELSE schedule.tasks[s]]
                    ELSE schedule.tasks]
  /\ threw' = ~(InfoParses(o) /\ TasksParse(o))

\* The rest of the loop, for an entry with an id.  A later entry of a
\* satellite replaces the tasks of the earlier one.
ParseEntry(o, id) ==
  /\ schedule' =
       [ids |-> Append(schedule.ids, id),
        infos |-> IF InfoParses(o) THEN Append(schedule.infos, InfoOf(o, id))
                  ELSE schedule.infos,
        tasks |-> IF InfoParses(o) /\ TasksParse(o)
                    THEN [s \in DOMAIN schedule.tasks \union {id} |->
                            IF s = id THEN TasksOf(o, id) ELSE schedule.tasks[s]]
                    ELSE schedule.tasks]
  /\ threw' = ~(InfoParses(o) /\ TasksParse(o))

\* Entries that are no objects, have no id or an empty one are passed over.
Skipped(entry) ==
  entry[1] = "object" =>
    IsString(entry[2], "satellite_id") /\ StringOr(entry[2], "satellite_id", <<>>) = <<>>

\* One turn of the loop.
ReadEntry ==
  /\ satellites[1] = "array" /\ ~threw
  /\ pos <= Len(satellites[2])
  /\ LET entry == satellites[2][pos] IN
     \/ Skipped(entry) /\ UNCHANGED <<schedule, threw>>
     \/ /\ ~Skipped(entry) /\ ~IsString(entry[2], "satellite_id")
        /\ threw' = TRUE /\ UNCHANGED schedule
     \/ /\ ~Skipped(entry) /\ IsString(entry[2], "satellite_id")
        /\ ParseEntry(entry[2], entry[2].satellite_id[2])
  /\ pos' = pos + 1
  /\ UNCHANGED <<satellites, document, nodes>>

-----------------------------------------------------------------------------
(* Coordinator::run and distributeAllTasks, SatelliteSimulator.            *)

\* The satellites run() waits for, one ACK from each.
Expected ==
  {s \in Range(schedule.ids) : s \in DOMAIN schedule.tasks /\ schedule.tasks[s] # <<>>}

\* Those that are sent a batch: their info has to be found, too.
SentTo ==
  {s \in Expected : \E i \in DOMAIN schedule.infos : schedule.infos[i].satellite_id = s}

String(text) == <<"string", text>>

\* serializeBatchTaskAssign, of what distributeAllTasks fills in: every
\* parameter is a string by now.
BatchJson(s) ==
  [satellite_id |-> String(s),
   scheduled_tasks |-> <<"array", [i \in DOMAIN schedule.tasks[s] |->
     LET t == schedule.tasks[s][i] IN
     <<"object",
       [segment_id |-> String(t.segment_id), task_id |-> String(t.task_id),
        behavior_ref |-> String(t.behavior_ref),
        behavior_params |-> <<"object", [k \in DOMAIN t.behavior_params |->
                                           String(t.behavior_params[k])]>>]>>]>>]

\* parseBatchTaskAssignPayload and taskAssignToSegment, at the simulator of s.
ReceivedTasks(s) == TasksOf(BatchJson(s), s)

-----------------------------------------------------------------------------
(* parseNodeFromJson                                                       *)

TypeNames == {"Sequence", "Selector", "Parallel", "Action", "Condition", "SubTree"}

\* stringToNodeType: what is unknown is an action.
TypeOf(text) ==
  IF \E n \in TypeNames : text = <<Word(n)>> THEN text[1][2] ELSE "Action"

\* The values of an object's entries, which stand under field in an object of
\* their own or, unless they must, alone.
Under(o, key, field, must) ==
  LET entries == IF key \in DOMAIN o /\ o[key][1] = "object" THEN o[key][2]
                 ELSE [k \in {} |-> k]
      Wrapped(v) == v[1] = "object" /\ field \in DOMAIN v[2]
      Inner(v) == IF Wrapped(v) THEN v[2][field] ELSE v
      Found(v) == (must => Wrapped(v)) /\ Inner(v)[1] \in Scalars
  IN  [k \in {n \in DOMAIN entries : Found(entries[n])} |-> ScalarText(Inner(entries[k]))]

\* Fault variant: constants must be wrapped, as initial values are.
ConstantsWrapped(o) == Under(o, "constants", "value", TRUE)

Constants(o) == Under(o, "constants", "value", FALSE)

VariableInits(o) == Under(o, "variables", "init", TRUE)

Observation(o) ==
  IF "observation" \in DOMAIN o /\ o.observation[1] = "object"
    THEN [k \in {n \in DOMAIN o.observation[2] : IsString(o.observation[2], n)} |->
            o.observation[2][k][2]]
    ELSE [k \in {} |-> k]

NodeOf[o \in Documents] ==
  [name |-> StringOr(o, "name", <<>>),
   type |-> TypeOf(StringOr(o, "type", <<Word("Action")>>)),
   command |-> StringOr(o, "command", <<>>),
   expression |-> StringOr(o, "expression", <<>>),
   params |-> ScalarMap(o, "params"),
   variable_inits |-> VariableInits(o),
   constants |-> Constants(o),
   observation |-> Observation(o),
   children |-> [i \in DOMAIN Objects(o, "children") |->
                   NodeOf[Objects(o, "children")[i][2]]]]

NodeParses[o \in Documents] ==
  /\ \A key \in {"name", "type", "description", "command", "expression"} : IsString(o, key)
  /\ \A i \in DOMAIN Objects(o, "children") : NodeParses[Objects(o, "children")[i][2]]

\* What parseNodeFromJson can return.
BehaviorNodes == {NodeOf[o] : o \in {d \in Documents : NodeParses[d]}}

\* A behaviour without a name gets that of the library.
Named(node) == IF node.name = <<>> THEN [node EXCEPT !.name = BehaviorName] ELSE node

\* parseBehaviorDefinition, once the behaviour is found; executeSingleTask
\* catches what it throws.
ReadBehavior ==
  /\ nodes = <<>>
  /\ NodeParses[document]
  /\ nodes' = <<Named(NodeOf[document])>>
  /\ UNCHANGED <<document, satellites, pos, schedule, threw>>

FilesNext == ReadEntry \/ ReadBehavior

FilesSpec == FilesInit /\ [][FilesNext]_filesVars

-----------------------------------------------------------------------------
(* Properties                                                              *)

\* Every satellite whose ACK run() waits for is sent a batch, wherever an
\* exception has stopped the parser: else run() waits for its timeout.
ExpectedAreSent == SentTo = Expected

\* The last of the entries read that names s and is complete.
EntryOf(s) ==
  LET Complete(o) == InfoParses(o) /\ TasksParse(o)
      mine == {i \in 1..(pos - 1) :
                 /\ ~Skipped(satellites[2][i])
                 /\ satellites[2][i][2].satellite_id = String(s)
                 /\ Complete(satellites[2][i][2])}
  IN  satellites[2][Max(mine)][2]

\* What value x means if the JSON scalar v was written for it.  Texts that
\* read as numbers or truth values become such.
Means(v, x) ==
  CASE v[1] = "int"   -> x = Whole(v[2])
    [] v[1] = "float" -> AsDouble(x) = v[2]
    [] v[1] = "bool"  -> x = Flag(v[2])
    [] OTHER          -> x[1] = "text" => x[2] = v[2]

\* The scalars of o's object of values are all kept in read, as texts that
\* become variables of the values written, wherever their forms let them stand:
\* alone, in an object under "value", or in one under "init".
AreKept(o, key, forms, read) ==
  key \in DOMAIN o /\ o[key][1] = "object" =>
    \A k \in DOMAIN o[key][2] : \A form \in forms :
      LET v == o[key][2][k]
          Kept(w) == w[1] \in Scalars =>
                       k \in DOMAIN read /\ Means(w, Literal(read[k]))
      IN  /\ form = "alone" => Kept(v)
          /\ form # "alone" /\ v[1] = "object" /\ form \in DOMAIN v[2] => Kept(v[2][form])

\* A satellite's tasks arrive there as its last complete entry lists them, in
\* order, and their parameters as variables of the values written there.
TasksArrive ==
  \A s \in SentTo :
    LET listed == Objects(EntryOf(s), "scheduled_tasks")
        tasks == ReceivedTasks(s)
    IN  /\ Len(tasks) = Len(listed)
        /\ \A i \in DOMAIN tasks :
             LET o == listed[i][2] IN
             /\ tasks[i].segment_id = StringOr(o, "segment_id", <<>>)
             /\ tasks[i].behavior_ref = StringOr(o, "behavior_ref", <<>>)
             /\ AreKept(o, "behavior_params", {"alone"}, tasks[i].behavior_params)

\* The nodes that keep what the document o says: every initial value, constant
\* and parameter, in whichever of its forms, and so do the children.
NodesThatKeep[o \in Documents] ==
  {n \in BehaviorNodes :
     /\ AreKept(o, "params", {"alone"}, n.params)
     /\ AreKept(o, "constants", {"alone", "value"}, n.constants)
     /\ AreKept(o, "variables", {"init"}, n.variable_inits)
     /\ DOMAIN n.children = DOMAIN Objects(o, "children")
     /\ \A i \in DOMAIN Objects(o, "children") :
          n.children[i] \in NodesThatKeep[Objects(o, "children")[i][2]]}

\* Every initial value, constant and parameter in a behaviour, however deep
\* and in whichever of its forms, becomes a variable of the value written.
BehaviorKeepsValues == \A i \in DOMAIN nodes :
  \E node \in NodesThatKeep[document] : nodes[i] = Named(node)
=============================================================================
