------------------------------ MODULE MCBuildFile ------------------------------
(***************************************************************************)
(* Programs for BuildFile: every expression of two levels, and blocks.     *)
(***************************************************************************)
EXTENDS BuildFile

Id == Leaf("IDENTIFIER")
Atoms == {Id}

Bin(op, l, r) == Node("BinaryExpression", op, <<l, r>>)
Call(f, args) == Node("FunctionExpression", "", <<f, args>>)
Method(o, args) == Node("MethodExpression", "", <<o, Id, args>>)
If(conditions, blocks) ==
  Node("SelectionStatement", "", <<ListOf(conditions), ListOf(blocks)>>)
For(ids, items, block) ==
  Node("IterationStatement", "", <<ListOf(ids), items, ListOf(block)>>)

Pairs(S) == (S \X Atoms) \cup (Atoms \X S)

\* The nodes one level above those of S, one operator of each precedence.
Above(S) ==
  {Bin(op, x[1], x[2]) :
     op \in {"OR", "AND", "EQ", "NOT_IN", "MINUS", "STAR"}, x \in Pairs(S)}
  \cup {Node("UnaryExpression", op, <<x>>) : op \in {"NOT", "MINUS"}, x \in S}
  \cup {Node("AssignmentStatement", "PLUS_ASSIGN", x) : x \in Pairs(S)}
  \cup {Node("ConditionalExpression", "", x) :
          x \in (S \X Atoms \X Atoms) \cup (Atoms \X S \X Atoms) \cup (Atoms \X Atoms \X S)}
  \cup {Call(x, NullArgs) : x \in S}
  \cup {Call(Id, ListOf(x)) : x \in Pairs(S) \cup {<<y>> : y \in S}}
  \cup {Call(Id, ListOf(<<Id, Node("KeywordItem", "", x)>>)) : x \in Pairs(S)}
  \cup {Method(x, NullArgs) : x \in S} \cup {Method(Id, ListOf(<<x>>)) : x \in S}
  \cup {Node("SubscriptExpression", "", x) : x \in Pairs(S)}
  \cup {Node("ArrayLiteral", "", x) : x \in Pairs(S) \cup {<<>>}}
  \cup {Node("DictionaryLiteral", "", <<Node("KeyValueItem", "", x)>>) : x \in Pairs(S)}

Leaves == {Leaf(type) : type \in {"STRING", "NUMBER", "TRUE", "FALSE"}}

Operators ==
  {Bin(op, Id, Id) : op \in {"NEQ", "IN", "LT", "LEQ", "GT", "GEQ", "PLUS", "SLASH", "MODULO"}}
  \cup {Node("AssignmentStatement", "ASSIGN", <<Id, Id>>)}

Blocks == {<<>>, <<Id>>, <<Leaf("BREAK")>>,
           <<Id, If(<<Id>>, <<ListOf(<<Leaf("CONTINUE")>>)>>)>>}

Ifs(B) ==
  {If(<<Id>>, <<ListOf(b)>>) : b \in B}
  \cup {If(c, <<ListOf(b), ListOf(d)>>) : c \in {<<Id>>, <<Id, Id>>}, b, d \in B}
  \cup {If(<<Id, Id>>, <<ListOf(b), ListOf(<<>>), ListOf(d)>>) : b, d \in B}

Fors(B) == {For(ids, Id, b) : ids \in {<<Id>>, <<Id, Id>>}, b \in B}

One == Above(Atoms)
Two == Above(One)

EditedPrograms ==
  { <<Call(Id, ListOf(<<Id, Node("KeywordItem", "", <<Id, Id>>)>>))>>,
    <<Node("AssignmentStatement", "ASSIGN", <<Id, Leaf("STRING")>>), Id>>,
    <<Node("ArrayLiteral", "", <<Id, Id>>)>>,
    <<Node("DictionaryLiteral", "", <<Node("KeyValueItem", "", <<Id, Id>>)>>)>>,
    <<Bin("NOT_IN", Id, Id)>>,
    <<Method(Id, NullArgs)>>,
    <<Id, Node("ConditionalExpression", "", <<Id, Id, Id>>)>>,
    <<If(<<Id, Id>>, <<ListOf(<<Id>>), ListOf(<<Id>>), ListOf(<<>>)>>), Id>>,
    <<For(<<Id, Id>>, Id, <<Leaf("BREAK")>>), Id>> }

AllPrograms ==
  {<<x>> : x \in One \cup Two \cup Leaves \cup Operators \cup Ifs(Blocks) \cup Fors(Blocks)}
  \cup EditedPrograms

AllCharacters ==
  Words \cup Digits \cup Quotes \cup DOMAIN Punctuation \cup DOMAIN BeforeEquals
  \cup DOMAIN Opening \cup DOMAIN Closing \cup {"SP", "\n", "#", "\\", "$", "NUL"}
===============================================================================
