------------------------------- MODULE BuildFile -------------------------------
(***************************************************************************)
(* A build file in the editor: a LexedBuffer that starts as the text of a  *)
(* well-formed program, and the trees that the parser makes of the tokens  *)
(* (MesonTree::parseFile).                                                 *)
(*                                                                         *)
(* Written gives the text of a program from the precedences of the         *)
(* language, independently of the parser.                                  *)
(***************************************************************************)
EXTENDS LexedBuffer, Parser, SequencesExt, TLC

CONSTANTS
  Programs,     \* the programs a buffer starts with, sequences of nodes
  Edited,       \* those of them that are edited
  Layouts       \* "plain", "broken": one line per statement, or as many as legal

VARIABLES
  program,   \* what was written at first
  trees      \* the tree of the text, and of each of its parts up to a newline

vars == <<bufferVars, program, trees>>

-----------------------------------------------------------------------------
(***************************************************************************)
(* The text of a program.  A lexeme is a sequence of characters.           *)
(***************************************************************************)
Precedence(node) ==
  CASE node.type \in {"AssignmentStatement", "ConditionalExpression"} -> 1
    [] node.op = "OR" -> 2
    [] node.op = "AND" -> 3
    [] node.op \in Comparisons \cup {"NOT_IN"} -> 4
    [] node.type = "BinaryExpression" /\ node.op \in {"PLUS", "MINUS"} -> 5
    [] node.type = "BinaryExpression" /\ node.op \in {"STAR", "SLASH", "MODULO"} -> 6
    [] node.type = "UnaryExpression" -> 7
    [] node.type \in {"FunctionExpression", "MethodExpression", "SubscriptExpression"} -> 8
    [] OTHER -> 9

Symbol ==
  "ASSIGN" :> <<<<"=">>>> @@ "PLUS_ASSIGN" :> <<<<"+", "=">>>> @@
  "OR" :> <<<<"or">>>> @@ "AND" :> <<<<"and">>>> @@ "NOT" :> <<<<"not">>>> @@
  "IN" :> <<<<"in">>>> @@ "NOT_IN" :> <<<<"not">>, <<"in">>>> @@
  "EQ" :> <<<<"=", "=">>>> @@ "NEQ" :> <<<<"!", "=">>>> @@
  "LT" :> <<<<"<">>>> @@ "LEQ" :> <<<<"<", "=">>>> @@
  "GT" :> <<<<">">>>> @@ "GEQ" :> <<<<">", "=">>>> @@
  "PLUS" :> <<<<"+">>>> @@ "MINUS" :> <<<<"-">>>> @@ "STAR" :> <<<<"*">>>> @@
  "SLASH" :> <<<<"/">>>> @@ "MODULO" :> <<<<"%">>>> @@
  "IDENTIFIER" :> <<<<"id">>>> @@ "NUMBER" :> <<<<"1", "0">>>> @@
  "STRING" :> <<<<"'", "#", "(", "'">>>> @@
  "TRUE" :> <<<<"true">>>> @@ "FALSE" :> <<<<"false">>>> @@
  "BREAK" :> <<<<"break">>>> @@ "CONTINUE" :> <<<<"continue">>>>

RECURSIVE Lexemes(_, _), Separated(_, _)

\* Parentheses where the context binds tighter than the node.
In(context, node) ==
  IF Precedence(node) < context
  THEN <<<<"(">>>> \o Lexemes(node, 1) \o <<<<")">>>>
  ELSE Lexemes(node, context)

Separated(nodes, i) ==
  IF i > Len(nodes) THEN <<>>
  ELSE (IF i = 1 THEN <<>> ELSE <<<<",">>>>) \o In(1, nodes[i]) \o Separated(nodes, i + 1)

Block(nodes) ==
  FlattenSeq([i \in DOMAIN nodes |-> In(1, nodes[i]) \o <<<<"\n">>>>])

BinaryLexemes(node, left, right) ==
  In(left, node.kids[1]) \o Symbol[node.op] \o In(right, node.kids[2])

IfLexemes(conditions, blocks) ==
  FlattenSeq([i \in DOMAIN blocks |->
    (CASE i = 1 -> <<<<"if">>>>
       [] i > 1 /\ i <= Len(conditions) -> <<<<"elif">>>>
       [] OTHER -> <<<<"else">>>>)
    \o (IF i <= Len(conditions) THEN In(1, conditions[i]) ELSE <<>>)
    \o <<<<"\n">>>> \o Block(blocks[i].kids)]) \o <<<<"endif">>>>

Lexemes(node, context) ==
  LET kids == node.kids
      prec == Precedence(node)
  IN  CASE node.type = "AssignmentStatement" -> BinaryLexemes(node, 2, 1)
        [] node.type = "ConditionalExpression" ->
             In(2, kids[1]) \o <<<<"?">>>> \o In(1, kids[2]) \o <<<<":">>>> \o In(1, kids[3])
        [] node.type = "BinaryExpression" ->
             \* "and" groups to the right, comparisons do not chain
             CASE prec = 3 -> BinaryLexemes(node, 4, 3)
               [] prec = 4 -> BinaryLexemes(node, 5, 5)
               [] OTHER -> BinaryLexemes(node, prec, prec + 1)
        [] node.type = "UnaryExpression" -> Symbol[node.op] \o In(8, kids[1])
        [] node.type = "FunctionExpression" ->
             In(9, kids[1]) \o <<<<"(">>>> \o Separated(kids[2].kids, 1) \o <<<<")">>>>
        [] node.type = "MethodExpression" ->
             In(8, kids[1]) \o <<<<".">>>> \o Lexemes(kids[2], 9)
               \o <<<<"(">>>> \o Separated(kids[3].kids, 1) \o <<<<")">>>>
        [] node.type = "SubscriptExpression" ->
             In(8, kids[1]) \o <<<<"[">>>> \o In(1, kids[2]) \o <<<<"]">>>>
        [] node.type = "ArrayLiteral" -> <<<<"[">>>> \o Separated(kids, 1) \o <<<<"]">>>>
        [] node.type = "DictionaryLiteral" -> <<<<"{">>>> \o Separated(kids, 1) \o <<<<"}">>>>
        [] node.type \in {"KeywordItem", "KeyValueItem"} ->
             In(1, kids[1]) \o <<<<":">>>> \o In(1, kids[2])
        [] node.type = "SelectionStatement" -> IfLexemes(kids[1].kids, kids[2].kids)
        [] node.type = "IterationStatement" ->
             <<<<"foreach">>>> \o Separated(kids[1].kids, 1) \o <<<<":">>>> \o In(1, kids[2])
               \o <<<<"\n">>>> \o Block(kids[3].kids) \o <<<<"endforeach">>>>
        [] OTHER -> Symbol[node.type]

\* What separates a lexeme from the one before it.
Gap(layout, depth) ==
  CASE layout = "plain" -> <<"SP">>
    [] layout = "broken" /\ depth > 0 -> <<"#", "id", "'", "\n">>
    [] OTHER -> <<"\\", "\n">>

Written(nodes, layout) ==
  LET Add(so_far, lexeme) ==
        [text |-> so_far.text \o Gap(layout, so_far.depth) \o lexeme,
         depth |-> CASE lexeme[1] \in DOMAIN Opening -> so_far.depth + 1
                     [] lexeme[1] \in DOMAIN Closing -> so_far.depth - 1
                     [] OTHER -> so_far.depth]
  IN  FoldLeft(Add, [text |-> <<>>, depth |-> 0], Block(nodes)).text
-----------------------------------------------------------------------------
Unparsed == <<>>

Init ==
  /\ program \in Programs
  /\ \E layout \in Layouts : buffer = Written(program, layout)
  /\ edits = 0
  /\ lexed = Unlexed
  /\ trees = Unparsed

EditFile ==
  /\ program \in Edited
  /\ Edit
  /\ trees' = Unparsed
  /\ UNCHANGED program

\* What was lexed is parsed, with the parts that end with a newline.
ParseFile ==
  /\ LexFile
  /\ trees' = [i \in DOMAIN lexed' |-> Parse(lexed'[i].tokens)]
  /\ UNCHANGED program

Next == ParseFile \/ EditFile

Spec == Init /\ [][Next]_vars
-----------------------------------------------------------------------------
RECURSIVE HasErrorNode(_)
HasErrorNode(node) ==
  node = ErrorNode \/ \E i \in DOMAIN node.kids : HasErrorNode(node.kids[i])

\* Is nothing reported of the text up to i?
Clean(i) ==
  lexed[i].errors = 0 /\ trees[i].errors = 0 /\ ~HasErrorNode(ListOf(trees[i].stmts))

(***************************************************************************)
(* The tokens a tree stands for, but for parentheses, commas and ends of   *)
(* lines.                                                                  *)
(***************************************************************************)
RECURSIVE Spell(_)
SpellAll(nodes) == FlattenSeq([i \in DOMAIN nodes |-> Spell(nodes[i])])

Spell(node) ==
  LET kids == node.kids
      op == IF node.op = "NOT_IN" THEN <<"NOT", "IN">> ELSE <<node.op>>
  IN  CASE node.type \in {"AssignmentStatement", "BinaryExpression"} ->
             Spell(kids[1]) \o op \o Spell(kids[2])
        [] node.type = "UnaryExpression" -> op \o Spell(kids[1])
        [] node.type = "ConditionalExpression" ->
             Spell(kids[1]) \o <<"QUESTION_MARK">> \o Spell(kids[2])
               \o <<"COLON">> \o Spell(kids[3])
        [] node.type \in {"List", "FunctionExpression"} -> SpellAll(kids)
        [] node.type = "MethodExpression" ->
             Spell(kids[1]) \o <<"DOT">> \o Spell(kids[2]) \o Spell(kids[3])
        [] node.type = "SubscriptExpression" ->
             Spell(kids[1]) \o <<"LBRACK">> \o Spell(kids[2]) \o <<"RBRACK">>
        [] node.type = "ArrayLiteral" -> <<"LBRACK">> \o SpellAll(kids) \o <<"RBRACK">>
        [] node.type = "DictionaryLiteral" -> <<"LCURL">> \o SpellAll(kids) \o <<"RCURL">>
        [] node.type \in {"KeywordItem", "KeyValueItem"} ->
             Spell(kids[1]) \o <<"COLON">> \o Spell(kids[2])
        [] node.type = "SelectionStatement" ->
             LET conditions == kids[1].kids
             IN  FlattenSeq([i \in DOMAIN kids[2].kids |->
                   (CASE i = 1 -> <<"IF">> \o Spell(conditions[i])
                      [] i > 1 /\ i <= Len(conditions) -> <<"ELIF">> \o Spell(conditions[i])
                      [] OTHER -> <<"ELSE">>) \o Spell(kids[2].kids[i])]) \o <<"ENDIF">>
        [] node.type = "IterationStatement" ->
             <<"FOREACH">> \o Spell(kids[1]) \o <<"COLON">> \o Spell(kids[2])
               \o Spell(kids[3]) \o <<"ENDFOREACH">>
        [] node = NullArgs -> <<>>
        [] OTHER -> <<node.type>>

\* The "not" after an operand that no "in" follows: e4 drops it (parser.cpp:137).
StrayNot(t, i) ==
  /\ i > 1 /\ t[i] = "NOT" /\ t[i + 1] # "IN"
  /\ t[i - 1] \in Literals \cup {"RPAREN", "RBRACK", "RCURL"}

Significant(t) ==
  LET Token(i) == IF t[i] \in {"LPAREN", "RPAREN", "COMMA", "EOL", "TOKEOF"} \/ StrayNot(t, i)
                  THEN <<>> ELSE <<t[i]>>
  IN  FlattenSeq([i \in DOMAIN t |-> Token(i)])
-----------------------------------------------------------------------------
File == trees[Len(buffer)]

\* The text of a program is parsed to that program without an error: the
\* functions e1 to e9 have the precedences and the grouping of the language,
\* and neither comments, continued lines nor newlines in brackets matter.
RoundTrip ==
  trees # Unparsed /\ edits = 0 => Clean(Len(buffer)) /\ File.stmts = program

\* Nothing is lost in silence: when neither lexer nor parser reports an error
\* and the tree has no ErrorNode, it stands for every token of the text.
CleanTreeSpellsText ==
  \A i \in DOMAIN trees :
    Clean(i) => SpellAll(trees[i].stmts) = Significant(lexed[i].tokens)

\* What is typed below a complete part of a file does not change its tree: if
\* the text up to an end of line is parsed without an error, its statements
\* are the first of the whole file's, whatever follows.
EarlierStatementsSurvive ==
  \A i \in DOMAIN trees :
    Clean(i) /\ IsSuffix(<<"EOL", "TOKEOF">>, lexed[i].tokens)
      => IsPrefix(trees[i].stmts, File.stmts)
===============================================================================
