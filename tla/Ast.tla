---------------------------------- MODULE Ast ----------------------------------
(***************************************************************************)
(* The syntax tree (libast) as the analyses see it: a node is a record of  *)
(* its type, the name or the operator it carries, its text, its number and *)
(* its children.  A text is a sequence of atoms, each of them a piece of a *)
(* string no analysis looks into.  Locations are left out: a statement is  *)
(* named by where it stands.                                               *)
(***************************************************************************)
EXTENDS Integers, Sequences, SequencesExt, FiniteSetsExt, TLC

Node(type, name, kids) ==
  [type |-> type, name |-> name, text |-> <<>>, num |-> 0, kids |-> kids]

StringLiteral(text) == [Node("StringLiteral", "", <<>>) EXCEPT !.text = text]
FormatString(text) == [Node("StringLiteral", "f", <<>>) EXCEPT !.text = text]
IntegerLiteral(n) == [Node("IntegerLiteral", "", <<>>) EXCEPT !.num = n]
BooleanLiteral(b) == Node("BooleanLiteral", IF b THEN "true" ELSE "false", <<>>)
IdExpression(name) == Node("IdExpression", name, <<>>)
ArrayLiteral(items) == Node("ArrayLiteral", "", items)
KeyValueItem(key, value) == Node("KeyValueItem", "", <<key, value>>)
DictionaryLiteral(items) == Node("DictionaryLiteral", "", items)
KeywordItem(name, value) == Node("KeywordItem", name, <<value>>)
BinaryExpression(op, lhs, rhs) == Node("BinaryExpression", op, <<lhs, rhs>>)
UnaryExpression(op, operand) == Node("UnaryExpression", op, <<operand>>)
ConditionalExpression(condition, ifTrue, ifFalse) ==
  Node("ConditionalExpression", "", <<condition, ifTrue, ifFalse>>)
SubscriptExpression(outer, inner) == Node("SubscriptExpression", "", <<outer, inner>>)

\* The arguments of a call are a sequence; it is empty where args is null.
FunctionExpression(name, args) == Node("FunctionExpression", name, args)
MethodExpression(obj, name, args) == Node("MethodExpression", name, <<obj>> \o args)

AssignmentStatement(lhs, op, rhs) ==
  Node("AssignmentStatement", op, <<IdExpression(lhs), rhs>>)
BreakNode == Node("BreakNode", "", <<>>)
ContinueNode == Node("ContinueNode", "", <<>>)

\* Lists of statements, of conditions and of blocks.
ListOf(nodes) == Node("List", "", nodes)
SelectionStatement(conditions, blocks) ==
  Node("SelectionStatement", "", <<ListOf(conditions),
                                   ListOf([i \in DOMAIN blocks |-> ListOf(blocks[i])])>>)
IterationStatement(ids, expression, stmts) ==
  Node("IterationStatement", "",
       <<ListOf([i \in DOMAIN ids |-> IdExpression(ids[i])]), expression, ListOf(stmts)>>)
BuildDefinition(stmts) == Node("BuildDefinition", "", <<ListOf(stmts)>>)

Is(node, type) == node.type = type

Obj(method) == method.kids[1]
Args(call) == IF Is(call, "MethodExpression") THEN Tail(call.kids) ELSE call.kids
Conditions(selection) == selection.kids[1].kids
Ids(iteration) == [i \in DOMAIN iteration.kids[1].kids |-> iteration.kids[1].kids[i].name]
Items(iteration) == iteration.kids[2]

\* The blocks of statements of a node.
Blocks(node) ==
  CASE Is(node, "BuildDefinition") -> <<node.kids[1].kids>>
    [] Is(node, "IterationStatement") -> <<node.kids[3].kids>>
    [] Is(node, "SelectionStatement") ->
         [i \in DOMAIN node.kids[2].kids |-> node.kids[2].kids[i].kids]
    [] OTHER -> <<>>

\* A node and all below it.
RECURSIVE Nodes(_)
Nodes(node) == {node} \cup UNION {Nodes(kid) : kid \in ToSet(node.kids)}

Assigns(stmt, name) == Is(stmt, "AssignmentStatement") /\ stmt.kids[1].name = name

(***************************************************************************)
(* Where a statement stands: a sequence of frames, outermost first, each a *)
(* node with blocks, one of its blocks and an index in it.  The frame with *)
(* the index 0 stands for what a node evaluates before any of its blocks.  *)
(***************************************************************************)
Frame(node, block, at) == [node |-> node, block |-> block, at |-> at]
Parent(place) == Last(place).node
Statement(place) == LET f == Last(place) IN Blocks(f.node)[f.block][f.at]

\* The places in the blocks of a node, in the order of the text.
PlacesIn(place, node) ==
  FlattenSeq([b \in DOMAIN Blocks(node) |->
    [i \in DOMAIN Blocks(node)[b] |-> Append(place, Frame(node, b, i))]])

\* The places before this one in the blocks of its parent, nearest first.
Before(place) ==
  LET f == Last(place)
      Earlier(p) == \/ Last(p).block < f.block
                    \/ Last(p).block = f.block /\ Last(p).at < f.at
  IN  Reverse(SelectSeq(PlacesIn(Front(place), f.node), Earlier))

(***************************************************************************)
(* What a text can be turned into.                                         *)
(***************************************************************************)
\* The atoms that are digits.
Digits == [d \in {"0", "1", "2", "3", "4", "5", "6", "7", "8", "9"} |->
             CHOOSE n \in 0 .. 9 : ToString(n) = d]

Replaced(text, from, to) ==
  FlattenSeq([i \in DOMAIN text |-> IF text[i] = from THEN to ELSE <<text[i]>>])

\* The parts between the separators; the code drops the last one when empty.
Split(text, separator) ==
  LET cuts == {i \in DOMAIN text : text[i] = separator}
      Start(i) == IF \E c \in cuts : c < i THEN Max({c \in cuts : c < i}) + 1 ELSE 1
      ends == SetToSortSeq(cuts \cup (IF Len(text) + 1 = Start(Len(text) + 1)
                                       THEN {} ELSE {Len(text) + 1}), <)
  IN  [k \in DOMAIN ends |-> SubSeq(text, Start(ends[k]), ends[k] - 1)]
================================================================================
