------------------------------- MODULE MCGuesses -------------------------------
(***************************************************************************)
(* Build files for Guesses: a text, a list or a dictionary is given to x,  *)
(* changed, also in branches and loops, and used in a call of subdir.      *)
(***************************************************************************)
EXTENDS Guesses

S(t) == StringLiteral(<<t>>)
N(n) == IntegerLiteral(n)
X == IdExpression("x")
I == IdExpression("i")
J == IdExpression("j")
Pairs(k, v) == DictionaryLiteral(<<KeyValueItem(S(k), S("a")), KeyValueItem(S("l"), S(v))>>)
\* What the user chooses.
Flag == FunctionExpression("get_option", <<S("flag")>>)
Some(a, b) == ConditionalExpression(Flag, a, b)
Plus(a, b) == BinaryExpression("+", a, b)

Let(x, e) == AssignmentStatement(x, "=", e)
More(x, e) == AssignmentStatement(x, "+=", e)
If(block) == SelectionStatement(<<Flag>>, <<block>>)
IfElse(block, other) == SelectionStatement(<<Flag>>, <<block, other>>)
For(ids, e, stmts) == IterationStatement(ids, e, stmts)
SubdirOf(e) == FunctionExpression("subdir", <<e>>)

Texts == {S("a"), StringLiteral(<<"a", " ", "b">>), FunctionExpression("get_option", <<S("o")>>)}

\* What is made of a text.
TextOf(x) ==
  {x, Plus(x, S("b")), BinaryExpression("/", S("b"), x), Some(x, S("b")),
   SubscriptExpression(MethodExpression(x, "split", <<S(" ")>>), N(0)),
   SubscriptExpression(MethodExpression(x, "split", <<>>), N(0)),
   MethodExpression(x, "to_upper", <<>>), MethodExpression(x, "replace", <<S("a"), S("c")>>),
   MethodExpression(StringLiteral(<<"c", "@0@">>), "format", <<x>>),
   FormatString(<<"c", IF x = X THEN "@x@" ELSE "@i@">>),
   FunctionExpression("join_paths", <<x, S("b")>>)}

Lists == {ArrayLiteral(<<S("a"), S("b")>>), ArrayLiteral(<<>>)}
ListOfList(x) == {x, Plus(x, ArrayLiteral(<<S("c")>>)), Plus(x, x), Some(x, ArrayLiteral(<<S("c")>>))}
TextOfList(x) == {SubscriptExpression(x, N(0)), MethodExpression(x, "get", <<N(1)>>)}

Dicts == {Pairs("k", "b")}
DictOfDict(x) == {x, Plus(x, Pairs("c", "c")), Some(x, Pairs("c", "c"))}
TextOfDict(x) == {SubscriptExpression(x, S("l")), MethodExpression(x, "get", <<S("l")>>)}

\* A change of x to e in the places a statement may stand.
Changes(e) ==
  LET s == Let("x", e)
  IN  {<<s>>, <<If(<<s>>)>>, <<IfElse(<<Let("y", X)>>, <<s>>)>>, <<IfElse(<<s>>, <<Let("x", S("b"))>>)>>,
       <<For(<<"i">>, ArrayLiteral(<<S("c"), S("d")>>), <<s>>)>>, <<More("x", e)>>,
       <<For(<<"i">>, ArrayLiteral(<<S("c"), S("d")>>), <<Let("x", I), If(<<s>>)>>)>>, <<If(<<If(<<s>>), Let("y", e)>>)>>}

Uses(e) ==
  {<<SubdirOf(e)>>, <<If(<<SubdirOf(e)>>)>>, <<IfElse(<<Let("x", S("c"))>>, <<SubdirOf(e)>>)>>}

All(f(_), S0) == UNION {f(e) : e \in S0}
Once(e) == {<<SubdirOf(e)>>}
Start(e) == {<<Let("x", e)>>}
Or(changes) == {<<>>} \cup changes
Looped(e) == {<<For(<<"i">>, e, u)>> : u \in All(Once, TextOf(I))}

KeysAndValues(e) ==
  {<<For(<<"i", "j">>, e, u)>> : u \in All(Once, {I, BinaryExpression("/", J, I)}) \cup Uses(J)}

AllPrograms ==
  { <<All(Start, Texts), Or(All(Changes, TextOf(X))),
      All(Once, TextOf(X)) \cup All(Uses, {X, BinaryExpression("/", S("b"), X)})>>,
    <<All(Start, Lists), Or(All(Changes, ListOfList(X))), All(Uses, TextOfList(X))>>,
    <<All(Start, Dicts), Or(All(Changes, DictOfDict(X))), All(Uses, TextOfDict(X))>>,
    <<All(Start, Lists), Or(All(Changes, ListOfList(X))), Looped(X) \cup {<<For(<<"i">>, Some(X, Plus(X, X)), u)>> : u \in Uses(I)}>>,
    <<All(Start, Dicts), Or(All(Changes, DictOfDict(X))),
      All(KeysAndValues, {X, Some(X, Pairs("c", "c"))})
      \cup {<<For(<<"i">>, MethodExpression(X, "keys", <<>>), u)>> : u \in Uses(I)}>> }

Capitals == "a" :> "A" @@ "b" :> "B"
AllOptions ==
  <<"o">> :> [type |-> "combo", values |-> {<<"a">>, <<"b">>}]
  @@ <<"flag">> :> [type |-> "boolean", values |-> {}]
NoPaths == [path \in {} |-> "dir"]
================================================================================
