-------------------------------- MODULE Parser --------------------------------
(***************************************************************************)
(* The recursive descent parser (libparsing/parser.cpp), a pure function   *)
(* from a sequence of token types to the statements of a build file and    *)
(* the number of errors.  Each operator is the member function of its      *)
(* name: it takes the tokens and the state p of the parser, and returns    *)
(* the state with its result in p.node or, for a list, in p.list.          *)
(*                                                                         *)
(* A node is a record of its type, its operator and its children.          *)
(* Locations, the values of literals and the statistics are left out.      *)
(***************************************************************************)
EXTENDS Naturals, Sequences, FiniteSetsExt

Node(type, op, kids) == [type |-> type, op |-> op, kids |-> kids]
Leaf(type) == Node(type, "", <<>>)
ListOf(nodes) == Node("List", "", nodes)

NoNode == Leaf("nullopt")
NullArgs == Leaf("nullptr")
ErrorNode == Leaf("ErrorNode")

(***************************************************************************)
(* The position, the errors and the results of a parser.                   *)
(***************************************************************************)
NewParser == [at |-> 1, errors |-> 0, node |-> NoNode, list |-> <<>>]

AtEnd(t, p) == p.at > Len(t)
Sees(t, p, type) == ~AtEnd(t, p) /\ t[p.at] = type

Advance(p) == [p EXCEPT !.at = @ + 1]
Return(p, node) == [p EXCEPT !.node = node]
ReturnList(p, nodes) == [p EXCEPT !.list = nodes]
Error(p) == [p EXCEPT !.errors = @ + 1]

HasValue(p) == p.node # NoNode
Value(p) == IF HasValue(p) THEN p.node ELSE ErrorNode

Expect(t, p, type) == IF Sees(t, p, type) THEN Advance(p) ELSE Error(p)
AcceptIf(t, p, type) == IF Sees(t, p, type) THEN Advance(p) ELSE p

\* What a seek skips becomes one ErrorNode; nothing skipped is no node.
SkipTo(t, p, stops) ==
  LET next == IF stops = {} THEN Len(t) + 1 ELSE Min(stops)
  IN  [p EXCEPT !.at = next, !.node = IF next = p.at THEN NoNode ELSE ErrorNode]
SeekTo(t, p, type) == SkipTo(t, p, {i \in p.at .. Len(t) : t[i] = type})
SeekToOverInvalidTokens(t, p) == SkipTo(t, p, {i \in p.at .. Len(t) : t[i] # "INVALID"})

Maybe(p) == IF HasValue(p) THEN <<p.node>> ELSE <<>>
WithNode(nodes, p) == ReturnList(p, nodes \o Maybe(p))

\* Seeded fault: what was skipped leaves no trace.
SeekInSilence(t, p, type, nodes) == ReturnList(SeekTo(t, p, type), nodes)

SeekAndReturn(t, p, type, nodes) == WithNode(nodes, SeekTo(t, p, type))

RECURSIVE Statement(_, _), E3(_, _), CodeBlock(_, _), Lines(_, _, _),
          OrTail(_, _), AddSubTail(_, _), MulDivTail(_, _), Postfix(_, _),
          MethodCall(_, _), ArgsFrom(_, _, _), ArrayFrom(_, _, _),
          KeyValuesFrom(_, _, _), ElifBlocks(_, _)

Literals == {"IDENTIFIER", "STRING", "NUMBER", "TRUE", "FALSE"}

E9(t, p) ==
  CASE AtEnd(t, p) -> Return(p, ErrorNode)
    [] \E type \in Literals : Sees(t, p, type) -> Return(Advance(p), Leaf(t[p.at]))
    [] Sees(t, p, "DOUBLE_QUOTED") -> Return(Error(Advance(p)), Leaf("STRING"))
    [] Sees(t, p, "INVALID") -> Return(Advance(p), ErrorNode)
    [] OTHER -> Return(p, NoNode)

(***************************************************************************)
(* Lists: the arguments of a call, of an array and of a dictionary.  In    *)
(* ...From, p.node is the statement read last and nodes those before it.   *)
(***************************************************************************)
Keyword(t, nodes, key, value) ==
  LET items == Append(nodes, Node("KeywordItem", "", <<key, Value(value)>>))
  IN  IF Sees(t, value, "COMMA")
      THEN ArgsFrom(t, Statement(t, Advance(value)), items)
      ELSE SeekAndReturn(t, value, "RPAREN", items)

ArgsFrom(t, p, nodes) ==
  CASE ~HasValue(p) -> SeekAndReturn(t, p, "RPAREN", nodes)
    [] HasValue(p) /\ Sees(t, p, "COMMA") ->
         ArgsFrom(t, Statement(t, Advance(p)), Append(nodes, p.node))
    [] HasValue(p) /\ Sees(t, p, "COLON") ->
         Keyword(t, nodes, p.node, Statement(t, Advance(p)))
    [] OTHER -> ReturnList(p, Append(nodes, p.node))

ArgumentList(p) == Return(p, ListOf(p.list))
ArgsAfter(t, first) ==
  IF HasValue(first) THEN ArgumentList(ArgsFrom(t, first, <<>>)) ELSE Return(first, NullArgs)
Args(t, p) == ArgsAfter(t, Statement(t, p))

ArrayFrom(t, p, nodes) ==
  CASE ~HasValue(p) -> SeekAndReturn(t, AcceptIf(t, p, "COMMA"), "RBRACK", nodes)
    [] HasValue(p) /\ Sees(t, p, "COMMA") ->
         ArrayFrom(t, Statement(t, Advance(p)), Append(nodes, p.node))
    [] OTHER -> SeekAndReturn(t, p, "RBRACK", Append(nodes, p.node))

KeyValue(t, nodes, key, value) ==
  LET items == Append(nodes, Node("KeyValueItem", "", <<key, Value(value)>>))
  IN  IF Sees(t, value, "COMMA")
      THEN KeyValuesFrom(t, Statement(t, Advance(value)), items)
      ELSE ReturnList(value, items)

KeyValuesFrom(t, p, nodes) ==
  CASE ~HasValue(p) -> SeekAndReturn(t, AcceptIf(t, p, "COMMA"), "RCURL", nodes)
    [] HasValue(p) /\ Sees(t, p, "COLON") ->
         KeyValue(t, nodes, p.node, Statement(t, Advance(p)))
    [] OTHER -> SeekAndReturn(t, Error(p), "RCURL", nodes)

(***************************************************************************)
(* Expressions, from the tightest to the loosest.                          *)
(***************************************************************************)
Parenthesized(t, inner) == Return(Expect(t, inner, "RPAREN"), inner.node)
ArrayLiteral(t, args) ==
  Return(Expect(t, args, "RBRACK"), Node("ArrayLiteral", "", args.list))
DictionaryLiteral(t, args) ==
  Return(Expect(t, args, "RCURL"), Node("DictionaryLiteral", "", args.list))

E8(t, p) ==
  CASE Sees(t, p, "LPAREN") -> Parenthesized(t, Statement(t, Advance(p)))
    [] Sees(t, p, "LBRACK") ->
         ArrayLiteral(t, ArrayFrom(t, Statement(t, Advance(p)), <<>>))
    [] Sees(t, p, "LCURL") ->
         DictionaryLiteral(t, KeyValuesFrom(t, Statement(t, Advance(p)), <<>>))
    [] OTHER -> E9(t, p)

\* A call of p.node with the arguments args.
FunctionCall(t, p, args) ==
  Return(Expect(t, args, "RPAREN"),
         Node("FunctionExpression", "", <<p.node, args.node>>))

NamedCall(t, p, name, args) ==
  Return(Expect(t, args, "RPAREN"),
         Node("MethodExpression", "", <<p.node, Value(name), args.node>>))
CallAfterName(t, p, name) ==
  NamedCall(t, p, name, Args(t, Expect(t, name, "LPAREN")))
MoreCalls(t, call) ==
  IF Sees(t, call, "DOT") THEN MethodCall(t, Advance(call)) ELSE call

\* After the "." of a call of a method of p.node.
MethodCall(t, p) == MoreCalls(t, CallAfterName(t, p, E9(t, p)))

IndexCall(t, p, index) ==
  Return(Expect(t, index, "RBRACK"),
         Node("SubscriptExpression", "", <<p.node, Value(index)>>))

Postfix(t, p) ==
  CASE Sees(t, p, "DOT") -> Postfix(t, MethodCall(t, Advance(p)))
    [] Sees(t, p, "LBRACK") -> Postfix(t, IndexCall(t, p, Statement(t, Advance(p))))
    [] OTHER -> p

AfterOperand(t, left) ==
  CASE ~HasValue(left) -> left
    [] HasValue(left) /\ Sees(t, left, "LPAREN") ->
         Postfix(t, FunctionCall(t, left, Args(t, Advance(left))))
    [] OTHER -> Postfix(t, left)

E7(t, p) == AfterOperand(t, E8(t, p))

Unary(op, operand) == Return(operand, Node("UnaryExpression", op, <<Value(operand)>>))

E6(t, p) ==
  IF Sees(t, p, "NOT") \/ Sees(t, p, "MINUS")
  THEN Unary(t[p.at], E7(t, Advance(p)))
  ELSE E7(t, p)

Binary(left, op, right) ==
  Return(right, Node("BinaryExpression", op, <<Value(left), Value(right)>>))

\* At the end of the tokens an operator is taken to be missing.
EndsInOperator(left) ==
  Return(left, Node("BinaryExpression", "BIN_OP_OTHER", <<Value(left), ErrorNode>>))

\* In ...Tail, left is what was read so far.
MulDivTail(t, left) ==
  CASE ~HasValue(left) -> left
    [] HasValue(left) /\ AtEnd(t, left) -> EndsInOperator(left)
    [] HasValue(left) /\ \E op \in {"MODULO", "STAR", "SLASH"} : Sees(t, left, op) ->
         MulDivTail(t, Binary(left, t[left.at], E6(t, Advance(left))))
    [] OTHER -> left

E5MulDiv(t, p) == MulDivTail(t, E6(t, p))

AddSubTail(t, left) ==
  CASE ~HasValue(left) -> left
    [] HasValue(left) /\ AtEnd(t, left) -> EndsInOperator(left)
    [] HasValue(left) /\ \E op \in {"PLUS", "MINUS"} : Sees(t, left, op) ->
         AddSubTail(t, Binary(left, t[left.at], E5MulDiv(t, Advance(left))))
    [] OTHER -> left

E5(t, p) == AddSubTail(t, E5MulDiv(t, p))

Comparisons == {"EQ", "NEQ", "IN", "LT", "LEQ", "GT", "GEQ"}

\* A "not" that no "in" follows is consumed, and nothing becomes of it.
Comparison(t, left) ==
  CASE \E op \in Comparisons : Sees(t, left, op) ->
         Binary(left, t[left.at], E5(t, Advance(left)))
    [] Sees(t, left, "NOT") /\ Sees(t, Advance(left), "IN") ->
         Binary(left, "NOT_IN", E5(t, Advance(Advance(left))))
    [] Sees(t, left, "NOT") /\ ~Sees(t, Advance(left), "IN") -> Advance(left)
    [] OTHER -> left

E4(t, p) == Comparison(t, E5(t, p))

\* Seeded fault: what follows "and" is no conjunction itself.
ConjunctionOnce(t, left) ==
  IF Sees(t, left, "AND") THEN Binary(left, "AND", E4(t, Advance(left))) ELSE left

\* The loop of e3: its recursive call leaves no "and" for a second round.
Conjunction(t, left) ==
  IF Sees(t, left, "AND") THEN Binary(left, "AND", E3(t, Advance(left))) ELSE left

E3(t, p) == Conjunction(t, E4(t, p))

OrTail(t, left) ==
  IF HasValue(left) /\ Sees(t, left, "OR")
  THEN OrTail(t, Binary(left, "OR", E3(t, Advance(left))))
  ELSE left

E2(t, p) == OrTail(t, E3(t, p))

Assignment(left, op, value) ==
  Return(value, Node("AssignmentStatement", op, <<left.node, Value(value)>>))

Conditional(left, ifTrue, ifFalse) ==
  Return(ifFalse, Node("ConditionalExpression", "",
                       <<left.node, Value(ifTrue), Value(ifFalse)>>))
Alternative(t, left, ifTrue) ==
  Conditional(left, ifTrue, Statement(t, Expect(t, ifTrue, "COLON")))

E1(t, left) ==
  CASE ~HasValue(left) -> left
    [] HasValue(left) /\ (Sees(t, left, "PLUS_ASSIGN") \/ Sees(t, left, "ASSIGN")) ->
         Assignment(left, t[left.at], Statement(t, Advance(left)))
    [] HasValue(left) /\ Sees(t, left, "QUESTION_MARK") ->
         Alternative(t, left, Statement(t, Advance(left)))
    [] OTHER -> left

Statement(t, p) == E1(t, E2(t, p))

(***************************************************************************)
(* Blocks and lines.                                                       *)
(***************************************************************************)
\* A block of an if: the tokens the lexer rejected before its first line
\* become an error at its end.
BranchAfter(t, junk, block) == ReturnList(block, block.list \o Maybe(junk))
BranchFrom(t, junk) == BranchAfter(t, junk, CodeBlock(t, Expect(t, junk, "EOL")))
Branch(t, p) == BranchFrom(t, SeekToOverInvalidTokens(t, p))

\* An if that is being read: the parser, the conditions and the blocks so far.
AddCondition(if, p) ==
  [if EXCEPT !.parser = p, !.conditions = Append(@, Value(p))]
AddBlock(if, p) == [if EXCEPT !.parser = p, !.blocks = Append(@, p.list)]
ReadBlock(t, if) == AddBlock(if, Branch(t, if.parser))

ElifBlocks(t, if) ==
  CASE Sees(t, if.parser, "ELIF") ->
         ElifBlocks(t, ReadBlock(t, AddCondition(if, Statement(t, Advance(if.parser)))))
    [] Sees(t, if.parser, "ELSE") ->
         ReadBlock(t, [if EXCEPT !.parser = Advance(@)])
    [] OTHER -> if

\* What is skipped before the "endif" is an error at the end of the last block.
Endif(t, if, endif) ==
  LET blocks == [if.blocks EXCEPT ![Len(if.blocks)] = @ \o Maybe(endif)]
  IN  Return(Expect(t, endif, "ENDIF"),
             Node("SelectionStatement", "",
                  <<ListOf(if.conditions),
                    ListOf([i \in DOMAIN blocks |-> ListOf(blocks[i])])>>))
SeekEndif(t, if) == Endif(t, if, SeekTo(t, if.parser, "ENDIF"))

IfBlock(t, p) ==
  SeekEndif(t, ElifBlocks(t, ReadBlock(t,
    AddCondition([parser |-> p, conditions |-> <<>>, blocks |-> <<>>], Statement(t, p)))))

\* One loop variable: an identifier, or an error and no variable.
LoopVariable(t, p, ids) ==
  ReturnList(Expect(t, p, "IDENTIFIER"),
             IF Sees(t, p, "IDENTIFIER") THEN Append(ids, Leaf("IDENTIFIER")) ELSE ids)

\* What is skipped before ":", the end of the line and "endforeach" are errors
\* at the end of the block.
Iteration(t, ids, colon, items, eol, block, endforeach) ==
  Return(Expect(t, endforeach, "ENDFOREACH"),
         Node("IterationStatement", "",
              <<ListOf(ids), Value(items),
                ListOf(block.list \o Maybe(colon) \o Maybe(eol) \o Maybe(endforeach))>>))
Body(t, ids, colon, items, eol, block) ==
  Iteration(t, ids, colon, items, eol, block, SeekTo(t, block, "ENDFOREACH"))
Items(t, ids, colon, items, eol) ==
  Body(t, ids, colon, items, eol, CodeBlock(t, Expect(t, eol, "EOL")))
Colon(t, ids, colon, items) == Items(t, ids, colon, items, SeekTo(t, items, "EOL"))
IterationFrom(t, ids, colon) ==
  Colon(t, ids, colon, Statement(t, Expect(t, colon, "COLON")))

Foreach(t, variables) ==
  IterationFrom(t, variables.list, SeekTo(t, variables, "COLON"))

AfterVariable(t, first) ==
  CASE Sees(t, first, "COMMA") /\ AtEnd(t, Advance(first)) ->
         Return(Advance(first), ErrorNode)
    [] Sees(t, first, "COMMA") /\ ~AtEnd(t, Advance(first)) ->
         Foreach(t, LoopVariable(t, Advance(first), first.list))
    [] OTHER -> Foreach(t, first)

ForeachBlock(t, p) ==
  IF AtEnd(t, p) THEN Return(p, ErrorNode) ELSE AfterVariable(t, LoopVariable(t, p, <<>>))

Line(t, p) ==
  CASE AtEnd(t, p) -> Return(p, ErrorNode)
    [] Sees(t, p, "EOL") -> Return(p, NoNode)
    [] Sees(t, p, "IF") -> IfBlock(t, Advance(p))
    [] Sees(t, p, "FOREACH") -> ForeachBlock(t, Advance(p))
    [] Sees(t, p, "CONTINUE") \/ Sees(t, p, "BREAK") -> Return(Advance(p), Leaf(t[p.at]))
    [] OTHER -> Statement(t, p)

NextLine(t, p) == IF Sees(t, p, "EOL") THEN Lines(t, Advance(p), p.list) ELSE p
LineEnd(t, p, nodes) == WithNode(nodes \o Maybe(p), SeekToOverInvalidTokens(t, p))
Lines(t, p, nodes) == NextLine(t, LineEnd(t, Line(t, p), nodes))

CodeBlock(t, p) == Lines(t, p, <<>>)

\* Seeded fault: a file that cannot be read to its end has no tree.
AllOrNothing(t, block) ==
  [stmts |-> IF Sees(t, block, "TOKEOF") THEN block.list ELSE <<>>,
   errors |-> Expect(t, block, "TOKEOF").errors]

Result(t, block) == [stmts |-> block.list, errors |-> Expect(t, block, "TOKEOF").errors]

Parse(t) == Result(t, CodeBlock(t, NewParser))
===============================================================================
