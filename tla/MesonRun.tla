-------------------------------- MODULE MesonRun --------------------------------
(***************************************************************************)
(* Runs of a build file: what Meson does with it.  mesonlsp does not run   *)
(* build files, it predicts what a run may do, so this is what its         *)
(* analyses are compared with.  Conditions and the values of options are   *)
(* chosen freely.                                                          *)
(***************************************************************************)
EXTENDS Ast

CONSTANTS
  Options,      \* the options of the project: [name -> [type, values, deprecated]]
  UpperCase,    \* [atom -> its capital]
  Paths         \* [text of a path -> "dir", "file" or "symlink"]

VARIABLES
  place,     \* where the next statement stands; empty at the end of the run
  env,       \* the variables that have a value
  pending,   \* for every loop the run is in, the bindings still to come
  version    \* the version of Meson, a sequence of numbers

-----------------------------------------------------------------------------
(***************************************************************************)
(* Values.                                                                 *)
(***************************************************************************)
Value(kind) == [kind |-> kind, text |-> <<>>, num |-> 0, items |-> <<>>]
Text(t) == [Value("str") EXCEPT !.text = t]
Number(n) == [Value("int") EXCEPT !.num = n]
Truth(b) == [Value("bool") EXCEPT !.num = IF b THEN 1 ELSE 0]
List(items) == [Value("list") EXCEPT !.items = items]
\* The items of a dictionary are pairs of a text and a value.
Dict(items) == [Value("dict") EXCEPT !.items = items]
Holds(v) == v.kind = "bool" /\ v.num = 1

KeysOf(dict) == {dict.items[i][1] : i \in DOMAIN dict.items}
Lookup(dict, key) == {p[2] : p \in {q \in ToSet(dict.items) : q[1] = key}}

Element(list, n) == IF n.num < Len(list.items) THEN {list.items[n.num + 1]} ELSE {}

\* What the operators make of two values; the empty set is a failure.
Plus(x, y) ==
  CASE x.kind = "list" /\ y.kind = "list" -> {List(x.items \o y.items)}
    [] x.kind = "list" /\ y.kind # "list" -> {List(Append(x.items, y))}
    [] x.kind = "dict" /\ y.kind = "dict" ->
         {Dict(SelectSeq(x.items, LAMBDA p : p[1] \notin KeysOf(y)) \o y.items)}
    [] x.kind = "str" /\ y.kind = "str" -> {Text(x.text \o y.text)}
    [] x.kind = "int" /\ y.kind = "int" -> {Number(x.num + y.num)}
    [] OTHER -> {}

Operate(op, x, y) ==
  CASE op = "+" -> Plus(x, y)
    [] op = "/" -> IF x.kind = "str" /\ y.kind = "str"
                   THEN {Text(x.text \o <<"/">> \o y.text)} ELSE {}
    [] op \in {"-", "*", "%"} -> IF x.kind = "int" /\ y.kind = "int" THEN {Number(x.num)} ELSE {}
    [] op \in {"==", "!="} -> IF x.kind = y.kind THEN {Truth((x = y) = (op = "=="))} ELSE {}
    [] op \in {"<", ">", "<=", ">="} ->
         IF x.kind = y.kind /\ x.kind \in {"int", "str"} THEN {Truth(TRUE), Truth(FALSE)} ELSE {}
    [] op \in {"in", "not in"} ->
         IF y.kind = "list" THEN {Truth((x \in ToSet(y.items)) = (op = "in"))} ELSE {}

Index(x, i) ==
  CASE x.kind = "list" /\ i.kind = "int" -> Element(x, i)
    [] x.kind = "dict" /\ i.kind = "str" -> Lookup(x, i.text)
    [] OTHER -> {}

Words(text) ==
  LET marks == {i \in DOMAIN text : text[i] = " "} \cup {0, Len(text) + 1}
      gaps == {<<i, j>> \in marks \X marks : i + 1 < j /\ \A k \in marks : k <= i \/ k >= j}
      parts == SetToSortSeq(gaps, LAMBDA g, h : g[1] < h[1])
  IN  [n \in DOMAIN parts |-> Text(SubSeq(text, parts[n][1] + 1, parts[n][2] - 1))]

\* The parts between the separators, the empty ones too.
Parts(text, separator) ==
  LET marks == {i \in DOMAIN text : text[i] = separator} \cup {0, Len(text) + 1}
      gaps == {<<i, j>> \in marks \X marks : i < j /\ \A k \in marks : k <= i \/ k >= j}
      parts == SetToSortSeq(gaps, LAMBDA g, h : g[1] < h[1])
  IN  [n \in DOMAIN parts |-> Text(SubSeq(text, parts[n][1] + 1, parts[n][2] - 1))]

\* A version is a sequence of numbers; a requirement has an operator in front.
NumberOf(digits) == FoldLeft(LAMBDA n, d : 10 * n + Digits[d], 0, digits)
Numbers(text) ==
  LET parts == Parts(SelectSeq(text, LAMBDA t : t \in DOMAIN Digits \cup {"."}), ".")
  IN  [i \in DOMAIN parts |-> NumberOf(parts[i].text)]

Newer(v, w) ==
  LET different == {i \in DOMAIN v \cap DOMAIN w : v[i] # w[i]}
  IN  IF different # {} THEN v[Min(different)] > w[Min(different)] ELSE Len(v) > Len(w)

Satisfies(v, requirement) ==
  LET w == Numbers(requirement)
  IN  CASE requirement[1] = ">=" -> ~Newer(w, v)
        [] requirement[1] = "<" -> Newer(w, v)
        [] requirement[1] = ">" -> Newer(v, w)
        [] requirement[1] = "<=" -> ~Newer(v, w)

\* Methods of strings, with the values of their arguments.
StringMethod(name, x, args) ==
  CASE name = "format" ->
         IF args # <<>> /\ args[1].kind = "str" THEN {Text(Replaced(x.text, "@0@", args[1].text))}
         ELSE {}
    [] name = "split" ->
         {List(IF args = <<>> THEN Words(x.text) ELSE Parts(x.text, args[1].text[1]))}
    [] name = "to_upper" ->
         {Text([i \in DOMAIN x.text |->
            IF x.text[i] \in DOMAIN UpperCase THEN UpperCase[x.text[i]] ELSE x.text[i]])}
    [] name = "underscorify" -> {Text(Replaced(Replaced(x.text, "/", <<"_">>), " ", <<"_">>))}
    [] name = "replace" ->
         IF Len(args) = 2 THEN {Text(Replaced(x.text, args[1].text[1], args[2].text))} ELSE {}
    [] name = "strip" -> {x}
    [] name = "splitlines" -> {List(<<x>>)}
    [] name = "version_compare" -> {Truth(Satisfies(Numbers(x.text), args[1].text))}
    [] OTHER -> {}

Get(x, args) == IF Index(x, args[1]) = {} /\ Len(args) = 2 THEN {args[2]} ELSE Index(x, args[1])

\* Whether a path exists, and what it is.
Fact ==
  [exists |-> {"dir", "file", "symlink"}, is_dir |-> {"dir"}, is_file |-> {"file", "symlink"}]
\* A path is one in the directory of the file that runs.
Here(text) ==
  LET dir == place[Max({i \in DOMAIN place : Is(place[i].node, "BuildDefinition")})].node.text
  IN  IF dir = <<>> THEN text ELSE dir \o <<"/">> \o text
IsFact(name, text) == Here(text) \in DOMAIN Paths /\ Paths[Here(text)] \in Fact[name]

Either == {Truth(TRUE), Truth(FALSE)}

Method(name, x, args) ==
  CASE x.kind = "str" -> StringMethod(name, x, args)
    [] x.kind = "dict" /\ name = "keys" -> {List([i \in DOMAIN x.items |-> Text(x.items[i][1])])}
    [] x.kind = "dict" /\ name = "has_key" /\ args # <<>> -> {Truth(args[1].text \in KeysOf(x))}
    [] x.kind = "list" /\ name = "length" -> {Number(Len(x.items))}
    [] x.kind \in {"dict", "list"} /\ name = "get" /\ args # <<>> -> Get(x, args)
    [] x.kind = "int" /\ name = "to_string" -> {Text(<<"1">>)}
    [] x.kind = "int" /\ name = "is_even" -> Either
    [] x.kind = "dep" /\ name = "found" -> Either
    [] x.kind = "dep" /\ name = "version" -> {Text(<<"1">>)}
    [] x.kind = "feature" /\ name \in {"enabled", "allowed"} -> Either
    [] x.kind = "feature" /\ name = "disable_if" /\ args # <<>> -> {x}
    [] x.kind = "exe" /\ name = "full_path" -> {Text(<<"a">>)}
    [] x.kind = "meson" /\ name = "version" ->
         {Text(FlattenSeq([i \in DOMAIN version |->
                 (IF i = 1 THEN <<>> ELSE <<".">>) \o <<ToString(version[i])>>]))}
    [] x.kind = "fs_module" /\ name \in DOMAIN Fact /\ args # <<>> ->
         {Truth(IsFact(name, args[1].text))}
    [] OTHER -> {}

AllTexts(args) == \A i \in DOMAIN args : args[i].kind = "str"

JoinedPath(args) ==
  Text(FlattenSeq([i \in DOMAIN args |-> (IF i = 1 THEN <<>> ELSE <<"/">>) \o args[i].text]))

NameIn(text) == FoldLeft(LAMBDA x, y : x \o y, "", text)

\* The first argument names a variable; the second is used when it has no value.
GetVariable(args) ==
  CASE NameIn(args[1].text) \in DOMAIN env -> {env[NameIn(args[1].text)]}
    [] NameIn(args[1].text) \notin DOMAIN env /\ Len(args) = 2 -> {args[2]}
    [] OTHER -> {}

\* Sources of a target are texts and files, and lists of them.
IsSource(v) ==
  \/ v.kind \in {"str", "file"}
  \/ v.kind = "list" /\ \A i \in DOMAIN v.items : v.items[i].kind \in {"str", "file"}

OptionValues(option) ==
  CASE option.type \in {"combo", "string"} -> {Text(t) : t \in option.values}
    [] option.type = "boolean" -> Either
    [] option.type = "feature" -> {Value("feature")}
    [] option.type = "array" -> {List(<<Text(t)>>) : t \in option.values}
    [] option.type = "integer" -> {Number(1)}

Function(name, args) ==
  CASE name = "join_paths" -> IF AllTexts(args) THEN {JoinedPath(args)} ELSE {}
    [] name = "get_option" /\ args # <<>> /\ AllTexts(args) ->
           IF args[1].text \in DOMAIN Options THEN OptionValues(Options[args[1].text]) ELSE {}
    [] name = "get_variable" /\ args # <<>> /\ AllTexts(<<args[1]>>) -> GetVariable(args)
    [] name = "is_variable" /\ args # <<>> /\ AllTexts(args) -> {Truth(NameIn(args[1].text) \in DOMAIN env)}
    [] name = "dependency" /\ args # <<>> /\ AllTexts(args) -> {Value("dep")}
    [] name = "executable" /\ Len(args) > 0 /\ args[1].kind = "str" ->
         IF \A i \in DOMAIN args : IsSource(args[i]) THEN {Value("exe")} ELSE {}
    [] name = "files" /\ AllTexts(args) -> {List([i \in DOMAIN args |-> Value("file")])}
    [] name = "range" /\ Len(args) = 1 /\ args[1].kind = "int" ->
         {[Value("range") EXCEPT !.items = [i \in 1 .. args[1].num |-> Number(i - 1)]]}
    [] name = "import" /\ args # <<>> /\ args[1].text = <<"fs">> -> {Value("fs_module")}
    [] name \in {"message", "install_symlink"} /\ AllTexts(args) -> {Value("void")}
    [] OTHER -> {}

\* The variable an atom of a format string stands for.
Placeholder == "@x@" :> "x" @@ "@i@" :> "i"

Formatted(text) ==
  LET names == {Placeholder[a] : a \in ToSet(text) \cap DOMAIN Placeholder}
      Piece(a) == IF a \in DOMAIN Placeholder THEN env[Placeholder[a]].text ELSE <<a>>
  IN  IF \A n \in names : n \in DOMAIN env /\ env[n].kind = "str"
      THEN {Text(FlattenSeq([i \in DOMAIN text |-> Piece(text[i])]))}
      ELSE {}

\* One element of each of some sets, in order.
RECURSIVE OneOfEach(_)
OneOfEach(sets) ==
  IF sets = <<>> THEN {<<>>}
  ELSE {<<first>> \o rest : first \in Head(sets), rest \in OneOfEach(Tail(sets))}

(***************************************************************************)
(* The values an expression may have now; none when it fails.              *)
(***************************************************************************)
RECURSIVE Evaluate(_)
Positional(call) == SelectSeq(Args(call), LAMBDA a : ~Is(a, "KeywordItem"))
\* The values of the keyword arguments.
Values(call) ==
  LET keywords == SelectSeq(Args(call), LAMBDA a : Is(a, "KeywordItem"))
  IN  [i \in DOMAIN keywords |-> keywords[i].kids[1]]

EvaluateAll(nodes) == OneOfEach([i \in DOMAIN nodes |-> Evaluate(nodes[i])])

\* The right side is evaluated when the left one does not decide.
Lazily(e) ==
  LET left == {v \in Evaluate(e.kids[1]) : v.kind = "bool"}
      decided == {v \in left : Holds(v) = (e.name = "or")}
  IN  decided \cup (IF left = decided THEN {} ELSE {v \in Evaluate(e.kids[2]) : v.kind = "bool"})

Negated(e) ==
  IF e.name = "-" THEN {Number(0 - v.num) : v \in {w \in Evaluate(e.kids[1]) : w.kind = "int"}}
  ELSE {Truth(~Holds(v)) : v \in {w \in Evaluate(e.kids[1]) : w.kind = "bool"}}

Evaluate(e) ==
  CASE Is(e, "StringLiteral") -> IF e.name = "f" THEN Formatted(e.text) ELSE {Text(e.text)}
    [] Is(e, "IntegerLiteral") -> {Number(e.num)}
    [] Is(e, "BooleanLiteral") -> {Truth(e.name = "true")}
    [] Is(e, "IdExpression") -> IF e.name \in DOMAIN env THEN {env[e.name]} ELSE {}
    [] Is(e, "ArrayLiteral") -> {List(v) : v \in EvaluateAll(e.kids)}
    [] Is(e, "DictionaryLiteral") ->
         {Dict([i \in DOMAIN v |-> <<v[i].items[1].text, v[i].items[2]>>]) : v \in EvaluateAll(e.kids)}
    [] Is(e, "KeyValueItem") -> {List(v) : v \in {w \in EvaluateAll(e.kids) : w[1].kind = "str"}}
    [] Is(e, "BinaryExpression") /\ e.name \in {"and", "or"} -> Lazily(e)
    [] Is(e, "BinaryExpression") /\ e.name \notin {"and", "or"} ->
         UNION {Operate(e.name, v[1], v[2]) : v \in EvaluateAll(e.kids)}
    [] Is(e, "UnaryExpression") -> Negated(e)
    [] Is(e, "ConditionalExpression") ->
         UNION {Evaluate(e.kids[IF Holds(v) THEN 2 ELSE 3]) :
                  v \in {c \in Evaluate(e.kids[1]) : c.kind = "bool"}}
    [] Is(e, "SubscriptExpression") -> UNION {Index(v[1], v[2]) : v \in EvaluateAll(e.kids)}
    [] Is(e, "MethodExpression") ->
         UNION {Method(e.name, v[1], Tail(v)) : v \in EvaluateAll(e.kids)}
    [] Is(e, "FunctionExpression") ->
         UNION {Function(e.name, SubSeq(v, 1, Len(Positional(e)))) :
                  v \in EvaluateAll(Positional(e) \o Values(e))}
    [] OTHER -> {}
-----------------------------------------------------------------------------
(***************************************************************************)
(* Statements.  A run that fails has no next step.                         *)
(***************************************************************************)
Block == Blocks(Parent(place))[Last(place).block]
InBlock == place # <<>> /\ Last(place).at <= Len(Block)
Current == Statement(place)

Advanced(p) == [p EXCEPT ![Len(p)].at = @ + 1]
Inside(block) == Append(place, Frame(Current, block, 1))

Put(name, v) == [n \in DOMAIN env \cup {name} |-> IF n = name THEN v ELSE env[n]]

Assign ==
  /\ InBlock /\ Is(Current, "AssignmentStatement")
  /\ LET name == Current.kids[1].name
     IN  \E v \in Evaluate(Current.kids[2]) :
           \/ Current.name = "=" /\ v.kind # "void" /\ env' = Put(name, v)
           \/ /\ Current.name = "+=" /\ name \in DOMAIN env
              /\ \E sum \in Plus(env[name], v) : env' = Put(name, sum)
  /\ place' = Advanced(place)
  /\ UNCHANGED <<pending, version>>

IsCall(name) == InBlock /\ Is(Current, "FunctionExpression") /\ Current.name = name

SetVariable ==
  /\ IsCall("set_variable") /\ Len(Args(Current)) = 2
  /\ \E v \in EvaluateAll(Args(Current)) :
       v[1].kind = "str" /\ v[2].kind # "void" /\ env' = Put(NameIn(v[1].text), v[2])
  /\ place' = Advanced(place)
  /\ UNCHANGED <<pending, version>>

\* project(...) fails when it asks for another version.
Project ==
  /\ IsCall("project")
  /\ \A k \in ToSet(Args(Current)) :
       Is(k, "KeywordItem") /\ k.name = "meson_version" => Satisfies(version, k.kids[1].text)
  /\ place' = Advanced(place)
  /\ UNCHANGED <<env, pending, version>>

\* An expression that is a statement; these calls have an action of their own.
Perform ==
  /\ InBlock
  /\ ~(Is(Current, "FunctionExpression") /\ Current.name \in {"subdir", "set_variable", "project"})
  /\ Evaluate(Current) # {}
  /\ place' = Advanced(place)
  /\ UNCHANGED <<env, pending, version>>

\* The end of the file.
SubdirDone ==
  /\ IsCall("subdir_done")
  /\ LET file == Max({i \in DOMAIN place : Is(place[i].node, "BuildDefinition")})
     IN  /\ pending' = SubSeq(pending, 1, Cardinality({i \in 1 .. file : Is(place[i].node, "IterationStatement")}))
         /\ place' = IF file = 1 THEN <<>> ELSE Advanced(SubSeq(place, 1, file - 1))
  /\ UNCHANGED <<env, version>>

\* subdir(e), which runs a file: the one of the directory of that name.
Enter(dir, file) ==
  /\ IsCall("subdir")
  /\ \E v \in Evaluate(Args(Current)[1]) : v.kind = "str" /\ Here(v.text) = dir
  /\ place' = Append(place, Frame(file, 1, 1))
  /\ UNCHANGED <<env, pending, version>>

Can(condition, truth) == \E v \in Evaluate(condition) : v.kind = "bool" /\ Holds(v) = truth

\* Take the first branch of an if whose condition holds, or none.
Select ==
  /\ InBlock /\ Is(Current, "SelectionStatement")
  /\ LET conditions == Conditions(Current)
         Reaches(b) == \A c \in 1 .. (b - 1) : Can(conditions[c], FALSE)
     IN  \/ \E b \in DOMAIN Blocks(Current) :
              /\ Reaches(b) /\ (b \in DOMAIN conditions => Can(conditions[b], TRUE))
              /\ place' = Inside(b)
         \/ /\ Len(Blocks(Current)) = Len(conditions) /\ Reaches(Len(conditions) + 1)
            /\ place' = Advanced(place)
  /\ UNCHANGED <<env, pending, version>>

\* What each round of a loop over a value gives to its variables.
Bindings(v, ids) ==
  CASE v.kind \in {"list", "range"} /\ Len(ids) = 1 ->
         {[i \in DOMAIN v.items |-> ids[1] :> v.items[i]]}
    [] v.kind = "dict" /\ Len(ids) = 2 ->
         {[i \in DOMAIN v.items |-> ids[1] :> Text(v.items[i][1]) @@ ids[2] :> v.items[i][2]]}
    [] OTHER -> {}

Round(rounds) ==
  /\ env' = Head(rounds) @@ env
  /\ pending' = Append(IF Is(Parent(place), "IterationStatement") /\ ~InBlock THEN Front(pending) ELSE pending,
                       Tail(rounds))

Iterate ==
  /\ InBlock /\ Is(Current, "IterationStatement")
  /\ \E v \in Evaluate(Items(Current)) : \E rounds \in Bindings(v, Ids(Current)) :
       IF rounds = <<>>
       THEN place' = Advanced(place) /\ UNCHANGED <<env, pending>>
       ELSE place' = Inside(1) /\ Round(rounds)
  /\ UNCHANGED version

\* break and continue, out of the blocks they are in.
Jump ==
  /\ InBlock /\ Current.type \in {"BreakNode", "ContinueNode"}
  /\ \E i \in DOMAIN place :
       /\ Is(place[i].node, "IterationStatement")
       /\ \A j \in (i + 1) .. Len(place) : Is(place[j].node, "SelectionStatement")
       /\ LET body == Blocks(place[i].node)[1]
          IN  place' = Append(SubSeq(place, 1, i - 1), Frame(place[i].node, 1, Len(body) + 1))
  /\ pending' = IF Is(Current, "BreakNode") THEN Append(Front(pending), <<>>) ELSE pending
  /\ UNCHANGED <<env, version>>

\* The end of a block: the next round of its loop, or what follows.
EndBlock ==
  /\ place # <<>> /\ ~InBlock
  /\ IF Is(Parent(place), "IterationStatement") /\ Last(pending) # <<>>
     THEN place' = Front(place) \o <<Frame(Parent(place), 1, 1)>> /\ Round(Last(pending))
     ELSE /\ place' = IF Len(place) = 1 THEN <<>> ELSE Advanced(Front(place))
          /\ pending' = IF Is(Parent(place), "IterationStatement") THEN Front(pending) ELSE pending
          /\ UNCHANGED env
  /\ UNCHANGED version

\* The end of a file that ran in a subdir call goes on after the call.
Advance ==
  \/ Assign \/ SetVariable \/ Project \/ Perform \/ SubdirDone \/ Select \/ Iterate \/ Jump \/ EndBlock

Begin(file) ==
  /\ place = <<Frame(file, 1, 1)>>
  /\ env = "meson" :> Value("meson")
  /\ pending = <<>>
=============================================================================
