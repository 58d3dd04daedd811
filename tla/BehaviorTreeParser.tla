------------------------- MODULE BehaviorTreeParser -------------------------
(***************************************************************************)
(* Behaviour trees and their instantiation for a task.  A node is a record *)
(* of the fields of BehaviorNode; maps whose order matters (params,        *)
(* observation) are sequences of pairs in the order of their keys.  Texts  *)
(* are sequences of symbols, <<"hole", x>> stands for ${x}; a text that is *)
(* not a behaviour's (a parameter's value) may have holes too.             *)
(***************************************************************************)
EXTENDS SequencesExt, VariableManager

CONSTANTS
  Nodes,      \* nodes of the behaviour library
  Def         \* the definition of each

\* One pass from left to right: what is put in is not looked at again, and a
\* hole of an unknown name stays.
ReplaceVariables(text, params) ==
  FlattenSeq([i \in DOMAIN text |->
    IF text[i][1] = "hole" /\ text[i][2] \in DOMAIN params
      THEN params[text[i][2]] ELSE <<text[i]>>])

\* Fault variant: initial values hide the task's parameters.
TemplateParamsReversed(root, runtime) ==
  Over(Over(Def[root].variable_inits, Def[root].constants), runtime)

\* The task's parameters hide constants, which hide initial values.
TemplateParams(root, runtime) ==
  Over(runtime, Over(Def[root].constants, Def[root].variable_inits))

ExpandedExpression(node, params) ==
  LET e == ReplaceVariables(node.expression, params)
  IN  IF node.type = "CONDITION" /\ e = <<>> /\ node.observation # <<>>
        THEN <<Word("true")>> ELSE e

\* A command is a sequence too: its name, and for SETVAR the variable and the
\* text after the "=", if it has them.
ExpandedCommand(command, params) ==
  IF Len(command) = 3
    THEN [command EXCEPT ![3] = ReplaceVariables(@, params)] ELSE command

\* expandNode, without the children, which are expanded one by one.
Expand(n, params) ==
  [Def[n] EXCEPT
     !.params = [i \in DOMAIN @ |-> <<@[i][1], ReplaceVariables(@[i][2], params)>>],
     !.command = ExpandedCommand(@, params),
     !.expression = ExpandedExpression(Def[n], params)]

\* The nodes of a tree, each before its children.
Preorder[n \in Nodes] ==
  <<n>> \o FlattenSeq([i \in DOMAIN Def[n].children |-> Preorder[Def[n].children[i]]])
=============================================================================
