------------------------- MODULE MCGenericExecutor --------------------------
(* Instances of GenericExecutor for TLC: behaviours with every kind of node *)
(* and command, and the shipped behaviour Search as far as its ASSIGN.     *)
EXTENDS GenericExecutor

E == INSTANCE Expressions

MCValue(text, env) == E!Value(text, env)
MCHolds(text, env) == E!Holds(text, env)

\* No two texts are ordered here, only compared for equality.
NoOrder(s, t) == FALSE

W(n) == <<Word(n)>>
Hole(n) == <<<<"hole", n>>>>
Num(n) == <<Whole(n)>>
Bin(a, o, b) == a \o <<Sym(o)>> \o b

Leaf == [type |-> "ACTION", params |-> <<>>, children |-> <<>>,
         expression |-> <<>>, command |-> <<"">>, constants |-> NoVars,
         variable_inits |-> NoVars, observation |-> <<>>]

Act(command, params) == [Leaf EXCEPT !.command = <<command>>, !.params = params]
Setvar(n, text) == [Leaf EXCEPT !.command = <<"SETVAR", n, text>>]
If(text) == [Leaf EXCEPT !.type = "CONDITION", !.expression = text]
Tree(type, children) == [Leaf EXCEPT !.type = type, !.children = children]

\* Go moves, takes the first branch of a selector if it has arrived, reports
\* and counts, which throws as long as no task has started the count.
GoDef ==
  [Go |-> [Tree("SEQUENCE", <<"Move", "Arrived", "Report", "Count", "Exit">>)
             EXCEPT !.variable_inits = [sx |-> Num(0), tx |-> Num(9)],
                    !.constants = [tx |-> Num(1)]],
   Move |-> [Act("MOVE_TO", <<<<"speed", Num(1)>>, <<"x", Hole("tx")>>>>) EXCEPT
               !.observation = <<<<"lit", "IS_LIT">>, <<"rec", "REC">>,
                                 <<"sx", "POS_X">>, <<"y", "POS_Y">>>>],
   Arrived |-> Tree("SELECTOR", <<"There", "NotThere">>),
   There |-> [Act("NEXT_TASK", <<>>) EXCEPT !.expression = Bin(W("sx"), "==", W("tx"))],
   NotThere |-> Act("EMIT_COMMAND", <<<<"CMD_X", Hole("tx")>>>>),
   Report |-> Act("REPORT_TARGET", <<<<"id", W("alpha")>>, <<"x", W("x")>>>>),
   Count |-> Setvar("count", Bin(W("count"), "+", Num(1))),
   Exit |-> Act("EXIT", <<>>)]

\* Share starts the count, sends a packet and receives what is there then.
ShareDef ==
  [Share |-> Tree("SEQUENCE", <<"Start", "Mail", "Take", "Seen">>),
   Start |-> Setvar("count", Hole("from")),
   Mail |-> Act("SEND", <<<<"min", Num(3)>>, <<"tx", W("node_id")>>>>),
   Take |-> Act("RECEIVE", <<<<"result_to", W("got")>>, <<"tx", Num(0)>>,
                             <<"ty", Bin(W("min"), "-", Num(1))>>>>),
   Seen |-> [If(<<>>) EXCEPT !.observation = <<<<"got", "GOT">>>>]]

\* Bad changes a global variable, and then fails in every branch of a selector
\* or, if Go has counted before, throws.
BadDef ==
  [Bad |-> Tree("PARALLEL", <<"Dirty", "Never", "Nothing">>),
   Dirty |-> Setvar("dirty", Num(7)),
   Never |-> Tree("SELECTOR", <<"Fly", "Pair", "None", "Wrong">>),
   Fly |-> Act("FLY", <<>>),
   Pair |-> Tree("SEQUENCE", <<"Broken", "Nothing">>),
   Broken |-> Act("SETVAR", <<>>),
   None |-> Tree("SELECTOR", <<>>),
   Wrong |-> [Act("SEND", <<<<"tx", Bin(W("nowhere"), "+", Num(1))>>>>)
               EXCEPT !.expression = Bin(W("count"), "==", Num(6))],
   Nothing |-> Tree("SEQUENCE", <<>>)]

\* Post sends a packet of its own.
PostDef == [Post |-> Act("SEND", <<<<"ty", Num(4)>>>>)]

MCDef == GoDef @@ ShareDef @@ BadDef @@ PostDef
MCNodes == DOMAIN MCDef

Seg(satellite, segment, behavior, params) ==
  [satellite_id |-> satellite, task_id |-> "T", segment_id |-> segment,
   behavior |-> behavior, params |-> params]

\* c1 and c2 work for S1 and both have a segment A; c3 works for S2.
MCExecutorOf == [c1 |-> "S1", c2 |-> "S1", c3 |-> "S2"]
MCWork ==
  [c1 |-> <<Seg("S1", "A", "Go", [tx |-> Num(2)])>>,
   c2 |-> <<Seg("S1", "A", "Share", [from |-> Num(5)]), Seg("S1", "B", "Bad", NoVars)>>,
   c3 |-> <<Seg("S2", "A", "Post", NoVars)>>]
MCSchedule ==
  <<[satellite_id |-> "S1", node_id |-> "node_s1", tasks |-> 3],
    [satellite_id |-> "S1", node_id |-> "node_s9"]>>

-----------------------------------------------------------------------------
(* The shipped behaviour Search, from its observations to the first ASSIGN, *)
(* on a task whose target is 3 and 4 away from the satellite.              *)

SearchDef ==
  [Search |-> [Tree("SEQUENCE", <<"Observe", "ComputeDetectedTargetDistance">>)
                 EXCEPT !.variable_inits =
                   [n \in {"x", "y", "z", "tx", "ty", "tz", "dist", "dx", "dy", "dz"}
                      |-> Num(0)]],
   Observe |-> [Act("NO_OP", <<>>) EXCEPT !.observation =
     <<<<"tx", "TARGET_X">>, <<"ty", "TARGET_Y">>, <<"tz", "TARGET_Z">>,
       <<"x", "POS_X">>, <<"y", "POS_Y">>, <<"z", "POS_Z">>>>],
   ComputeDetectedTargetDistance |->
     LET square(n) == Bin(W(n), "*", W(n)) IN
     Act("ASSIGN",
       <<<<"dist", <<Word("sqrt"), Sym("(")>>
                     \o Bin(Bin(square("dx"), "+", square("dy")), "+", square("dz"))
                     \o <<Sym(")")>>>>,
         <<"dx", Bin(W("x"), "-", W("tx"))>>,
         <<"dy", Bin(W("y"), "-", W("ty"))>>,
         <<"dz", Bin(W("z"), "-", W("tz"))>>>>)]
SearchNodes == DOMAIN SearchDef

SearchExecutorOf == [c1 |-> "S1"]
SearchWork == [c1 |-> <<Seg("S1", "A", "Search", [tx |-> Num(3), ty |-> Num(4)])>>]

\* What the statements of one ASSIGN compute fits together: they are run in the
\* order in which the behaviour lists them, dx, dy and dz before dist.
AssignFollowsTheList ==
  \A e \in Executors : "dist" \in DOMAIN vm[e].local =>
    LET square(n) == Times(AsDouble(vm[e].local[n]), AsDouble(vm[e].local[n]))
    IN  square("dist") = Plus(square("dx"), Plus(square("dy"), square("dz")))
=============================================================================
