------------------------------ MODULE MCInputs ------------------------------
(***************************************************************************)
(* Instances for TLC of what turns input into data: texts of expressions,  *)
(* schedule and behaviour files, and messages on their way to another      *)
(* process.  They share nothing: a behaviour has steps of one of them.     *)
(***************************************************************************)
EXTENDS ExpressionGrammar, InputFiles, MessagePath

VARIABLE which

W(n) == <<Word(n)>>
Num(n) == <<Whole(n)>>
Rel(a, o, b) == a \o <<Sym(o)>> \o b
NoOrder(s, t) == FALSE

-----------------------------------------------------------------------------
(* Expressions                                                             *)

NumLeaf(text, val) == [kind |-> "num", text |-> text, val |-> val]
CondLeaf(text, val) == [kind |-> "cond", text |-> text, val |-> val]

MCEnv == [n |-> Whole(3), h |-> Double(<<1, 2>>), flag |-> Flag(TRUE),
          four |-> Text(Num(4)), word |-> Text(W("alpha"))]

NumLeaves ==
  {NumLeaf(Num(2), Double(<<2, 1>>)), NumLeaf(<<<<"dec", <<1, 2>>>>>>, Double(<<1, 2>>)),
   NumLeaf(<<<<"dec", <<2, 1>>>>>>, Double(<<2, 1>>)), NumLeaf(W("n"), Double(<<3, 1>>)),
   NumLeaf(W("four"), Double(<<4, 1>>)), NumLeaf(W("u"), Throws)}

CondLeaves ==
  {CondLeaf(W("flag"), Flag(TRUE)), CondLeaf(W("h"), Throws),
   CondLeaf(Rel(W("u"), "==", Num(1)), Throws),
   CondLeaf(Num(0), Flag(FALSE)),
   CondLeaf(Rel(W("n"), ">", <<Sym("-"), Whole(3)>>), Flag(TRUE)),
   CondLeaf(Rel(W("word"), "!=", <<<<"quoted", W("alpha")>>>>), Flag(FALSE)),
   CondLeaf(Rel(W("flag"), "=", W("False")), Flag(FALSE))}

MCLeaves == NumLeaves \union CondLeaves

MCSymbols ==
  UNION {Range(l.text) : l \in MCLeaves} 
    \union Range(MCEnv.four[2]) \union Range(MCEnv.word[2])
    \union {Sym(o) : o \in {"(", ")", "+", "-", "*", "/", "!", "&&", "||",
                            "==", "!=", "<=", ">=", "<", ">", "="}} \union Keywords

-----------------------------------------------------------------------------
(* Files                                                                   *)

Obj(f) == <<"object", f>>
Arr(s) == <<"array", s>>
Str(n) == <<"string", W(n)>>
Null == <<"null", 0>>

Scalar == [i |-> <<"int", -2>>, f |-> <<"float", <<1, 2>>>>, g |-> <<"float", <<-3, 1>>>>,
           h |-> <<"float", <<-1, 2>>>>, b |-> <<"bool", FALSE>>, t |-> Str("alpha"),
           u |-> <<"string", Num(7)>>, e |-> <<"string", <<>>>>, z |-> Null,
           l |-> Arr(<<>>)]

Task1 == Obj([segment_id |-> Str("g1"), task_id |-> Str("k1"), behavior_ref |-> Str("search"),
              behavior_params |-> Obj(Scalar)])
Task2 == Obj([segment_id |-> Str("g2"), behavior_params |-> Null])
BadTask == Obj([segment_id |-> <<"int", 3>>])

Sat(id, tasks) == Obj([satellite_id |-> id, scheduled_tasks |-> tasks])

Entries ==
  {Sat(Str("s1"), Arr(<<Task1, Null, Task2>>)), Sat(Str("s1"), Arr(<<Task2>>)),
   Sat(Str("s2"), Arr(<<Task2, Task1>>)), Sat(Str("s2"), Arr(<<>>)),
   Sat(Str("s2"), Null), Sat(Str("s2"), Arr(<<Task1, BadTask>>)),
   Sat(<<"string", <<>>>>, Arr(<<Task1>>)), Sat(<<"int", 1>>, Arr(<<Task1>>)),
   Obj([scheduled_tasks |-> Arr(<<Task1>>)]), Null,
   Obj([satellite_id |-> Str("s1"), node_id |-> <<"int", 5>>,
        scheduled_tasks |-> Arr(<<Task1>>)])}

MCSchedules ==
  {Null} \union {Arr(s) : s \in UNION {[1..n -> Entries] : n \in 0..3}}

\* One of the values alone, and all of them in every form.
In(field) == [k \in DOMAIN Scalar |-> Obj([m \in {field} |-> Scalar[k]])]

Leaf(type) ==
  [name |-> Str("leaf"), type |-> Str(type), command |-> Str("EXIT"),
   params |-> Obj(Scalar), constants |-> Obj(Scalar),
   variables |-> Obj(In("init")), observation |-> Obj(Scalar)]

NoDocument == [x \in {} |-> x]

MCBehaviors ==
  {NoDocument, Leaf("Sequence"), Leaf("unknown"), [Leaf("Action") EXCEPT !.name = Null],
   [Leaf("Condition") EXCEPT !.constants = Obj(In("value")), !.variables = Arr(<<Str("i")>>)],
   [name |-> Str("root"), variables |-> Obj(In("start")),
    children |-> Arr(<<Obj(Leaf("Action")), Null,
                       Obj([children |-> Arr(<<Obj(Leaf("Selector"))>>)])>>)],
   [children |-> Arr(<<Obj([expression |-> <<"int", 1>>])>>)],
   [children |-> Obj(Scalar), params |-> Null]}

MCName == <<Word("Search")>>

\* A value with all that is in it, and how deep it is.
RECURSIVE Within(_), MCDepth(_)
Inside(v) == IF v[1] \in {"object", "array"} THEN {v[2][k] : k \in DOMAIN v[2]} ELSE {}
Within(v) == {v} \union UNION {Within(w) : w \in Inside(v)}
MCDepth(v) == Max({0} \union {MCDepth(w) + 1 : w \in Inside(v)})

MCJson ==
  MCSchedules \union UNION {Within(v) : v \in Entries \union {Obj(b) : b \in MCBehaviors}}

-----------------------------------------------------------------------------
(* Messages                                                                *)

MCSelf == <<3>>
MCPeer == <<1, 2>>
\* None, half or all of it.
MCArrives(k, n) == k \in {0, n \div 2, n}

LongId == <<1, 1, 2, 1, 3>>    \* too long for a byte below 4

Call(to, dest, source, priority, payload) ==
  [to |-> to,
   msg |-> [type |-> 264, sequence |-> 0, time |-> 0, source |-> source, dest |-> dest,
            priority |-> priority, payload |-> payload]]

Calls ==
  <<Call(MCPeer, <<>>, <<>>, 3, <<1, 0>>), Call(<<>>, MCPeer, LongId, 1, <<>>),
    Call(MCPeer, <<1>>, <<2>>, 7, <<2>>), Call(<<>>, <<>>, <<>>, 3, <<>>),
    Call(<<2>>, <<>>, <<>>, 4, <<>>), Call(MCPeer, <<>>, <<>>, 2, [i \in 1..9 |-> 0])>>

\* Among each three: one too large to send, one without a destination, one to
\* another node, or only such as arrive.
MCOutgoing == {{}} \union {{Calls[i] : i \in s} : s \in {{1, 2, 3}, {1, 3, 4}, {1, 3, 5}, {2, 3, 6}}}

-----------------------------------------------------------------------------

\* The parts that a behaviour leaves alone.
IdleFiles == FilesInit /\ satellites = Null /\ document = NoDocument

IdlePath == PathInit /\ todo = {}

MCInit ==
  /\ GrammarInit
  /\ \/ which = "expressions" /\ IdleFiles /\ IdlePath
     \/ which = "schedules" /\ FilesInit /\ document = NoDocument /\ IdlePath
     \/ which = "behaviors" /\ FilesInit /\ satellites = Null /\ IdlePath
     \/ which = "messages" /\ IdleFiles /\ PathInit

MCNext ==
  /\ UNCHANGED which
  /\ \/ which = "expressions" /\ GrammarNext /\ UNCHANGED <<filesVars, pathVars>>
     \/ which \in {"schedules", "behaviors"} /\ FilesNext /\ UNCHANGED <<stack, pathVars>>
     \/ which = "messages" /\ PathNext /\ UNCHANGED <<stack, filesVars>>

Spec == MCInit /\ [][MCNext]_<<which, stack, filesVars, pathVars>>
=============================================================================
