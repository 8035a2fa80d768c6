------------------------------ MODULE TypeAnalyzer ------------------------------
(***************************************************************************)
(* The type analyzer (typeanalyzer/typeanalyzer.cpp).  It visits the       *)
(* statements of a file in the order of the text, the branches of an if    *)
(* one after the other, and the file of a directory at its subdir call.    *)
(* It keeps the types every variable may have, and what it should report.  *)
(*                                                                         *)
(* A step visits a statement, or leaves a block.  The types of a node are  *)
(* a set; lints that look at the spelling of names and of certain texts    *)
(* are left out, as are the calls that need another project's tree.        *)
(***************************************************************************)
EXTENDS Ast, Types

CONSTANTS
  Options,      \* the options of the project: [name -> [type, values, deprecated]]
  UpperCase,    \* [atom -> its capital]
  Modules,      \* [text -> the tag of the module of that name]
  Paths         \* [text of a path -> "dir", "file" or "symlink"]

VARIABLES
  files,        \* [text of a directory -> the statements of its build file]
  analyzer,     \* the state of the visitor
  found,        \* what was reported, each with the statement it is about
  sights        \* the types of all nodes, as they were when they were visited

P == INSTANCE PartialInterpreter

Root == <<>>

\* Nothing was visited; scope is the one of the tree, version its version.
Fresh(scope, version) ==
  [ at |-> <<>>,             \* where the next statement stands
    scope |-> scope,         \* scope.variables: [name -> types]
    stack |-> <<>>,          \* for every open if what was assigned in it,
    overridden |-> <<>>,     \*   what it had before (overriddenVariables)
    selections |-> <<>>,     \*   and what it may have after (selectionStatementStack)
    open |-> <<>>,           \*   and how far it is
    needUse |-> <<>>,        \* variablesNeedingUse, for every file and branch
    ignored |-> <<>>,        \* ignoreUnknownIdentifier
    versions |-> <<>>,       \* versionStack
    versionVars |-> {},      \* mesonVersionVars
    version |-> version,     \* the version of the tree
    dirs |-> <<>> ]          \* the directories the open subdir calls still enter

Key(place) == [i \in DOMAIN place |-> <<place[i].node.text, place[i].block, place[i].at>>]
Note(kind, node) == [kind |-> kind, node |-> node]
When(condition, notes) == IF condition THEN notes ELSE {}

Stmt(a) == Statement(a.at)
Block(a) == Blocks(Parent(a.at))[Last(a.at).block]
InBlock(a) == a.at # <<>> /\ Last(a.at).at <= Len(Block(a))
Advanced(a) == [a EXCEPT !.at[Len(a.at)].at = @ + 1]
Down(a, block, at) == [a EXCEPT !.at = Append(@, Frame(Stmt(a), block, at))]
Up(a) == [a EXCEPT !.at = Front(@)]
\* The directory of the file a statement is in.
Directory(place) ==
  place[Max({i \in DOMAIN place : Is(place[i].node, "BuildDefinition")})].node.text
-----------------------------------------------------------------------------
(***************************************************************************)
(* Variables.                                                              *)
(***************************************************************************)
Get(f, name) == IF name \in DOMAIN f THEN f[name] ELSE {}
Add(f, name, types) == name :> (Get(f, name) \cup types) @@ f
NameOf(text) == FoldLeft(LAMBDA x, y : x \o y, "", text)

\* Seeded fault: a branch forgets what the variables had before the if.
ForgetsOverridden(a, name) == {}

EvalStack(a, name) == UNION {Get(a.overridden[i], name) : i \in DOMAIN a.overridden}
Known(a, name) == Dedup(EvalStack(a, name) \cup Get(a.scope, name))

ModifiedVariableType(a, name, types) ==
  IF a.selections = <<>> THEN a
  ELSE [a EXCEPT !.selections[Len(a.selections)] = Add(@, name, Get(a.scope, name) \cup types)]

ApplyToStack(a, name, types) ==
  IF a.stack = <<>> THEN a
  ELSE [a EXCEPT
         !.overridden[Len(a.overridden)] =
            IF name \in DOMAIN a.scope THEN Add(@, name, a.scope[name]) ELSE @,
         !.stack[Len(a.stack)] = Add(@, name, types)]

Declare(a, name, types) == [a EXCEPT !.scope = name :> types @@ @]

Assign(a, name, types) ==
  Declare(ApplyToStack(ModifiedVariableType(a, name, types), name, types), name, types)

\* set_variable: the scope is changed before the stack.
SetVariable(a, name, types) ==
  ApplyToStack(Declare(ModifiedVariableType(a, name, types), name, types), name, types)

\* Seeded fault: a use counts only for the assignments of the same branch or file.
UsedInnermost(a, names) ==
  [a EXCEPT !.needUse[Len(a.needUse)] = SelectSeq(@, LAMBDA need : need.name \notin names)]

RegisterUsed(a, names) ==
  [a EXCEPT !.needUse =
     [i \in DOMAIN @ |-> SelectSeq(@[i], LAMBDA need : need.name \notin names)]]

RegisterNeedForUse(a, name) ==
  [a EXCEPT !.needUse[Len(a.needUse)] = Append(@, [name |-> name, at |-> Key(a.at), node |-> Stmt(a)])]

MatchingVersion(a) == IF a.versions = <<>> THEN a.version ELSE Last(a.versions)

\* The text of a version without the operator in front of it.
VersionOf(text) ==
  LET parts == {i \in DOMAIN text : text[i] \notin {">=", ">", "<=", "<", "=", "==", " "}}
      plain == IF parts = {} THEN <<>> ELSE SubSeq(text, Min(parts), Len(text))
  IN  [i \in DOMAIN Split(plain, ".") |->
         [j \in DOMAIN Split(plain, ".")[i] |-> Digits[Split(plain, ".")[i][j]]]]
-----------------------------------------------------------------------------
(***************************************************************************)
(* The types of expressions.                                               *)
(***************************************************************************)
\* What an operator makes of two types; the empty set is an error.
EvalBinaryExpression(op, left, right) ==
  LET Same(tags) == \E tag \in tags : SameType(left, right, tag)
  IN  CASE left.tag = "any" /\ right.tag = "any" -> {}
        [] OTHER ->
           CASE op = "+" ->
                  IF Same({"str", "int"}) THEN {T(left.tag)}
                  ELSE IF left.tag = "list"
                  THEN {List(left.of \cup (IF right.tag = "list" THEN right.of ELSE {right}))}
                  ELSE When(left.tag = "dict" /\ right.tag = "dict", {Dict(left.of \cup right.of)})
             [] op \in {"==", "!="} ->
                  When(\/ Same({"str", "int", "bool", "dict", "list"})
                       \/ left.tag \notin Basic /\ left.tag = right.tag, {T("bool")})
             [] op \in {"and", "or"} -> When(Same({"bool"}), {T("bool")})
             [] op = "/" -> When(Same({"int", "str"}), {left})
             [] op \in {">=", ">", "<=", "<"} -> When(Same({"int", "str"}), {T("bool")})
             [] op \in {"in", "not in"} -> {T("bool")}
             [] op \in {"-", "%", "*"} -> When(Same({"int"}), {T("int")})

Pairs(op, left, right) ==
  {EvalBinaryExpression(op, p[1], p[2]) : p \in left \X right}
AllErrors(op, left, right) == \A types \in Pairs(op, left, right) : types = {}

BinaryTypes(op, left, right) ==
  IF AllErrors(op, left, right) THEN Dedup(left) ELSE Dedup(UNION Pairs(op, left, right))

\* What "+=" and the like make of two types.
EvalPlusEquals(left, right) ==
  CASE left.tag \in {"list", "dict"} ->
         {Type(left.tag, Dedup(left.of \cup (IF right.tag = left.tag THEN right.of ELSE {right})))}
    [] left.tag \in {"str", "int"} /\ left.tag = right.tag -> {left}
    [] OTHER -> {}

EvalAssignmentTypes(op, left, right) ==
  CASE op = "+=" -> EvalPlusEquals(left, right)
    [] op = "/=" -> {T(tag) : tag \in {t \in {"int", "str"} : SameType(left, right, t)}}
    [] OTHER -> When(SameType(left, right, "int"), {T("int")})

EvalAssignment(op, left, right) ==
  Dedup(UNION {EvalAssignmentTypes(op, p[1], p[2]) : p \in left \X right})

SubscriptTypes(outer) ==
  Dedup(Inner(outer, "dict") \cup Inner(outer, "list") \cup Tagged(outer, "str")
        \cup When(Tagged(outer, "custom_tgt") # {}, {T("custom_idx")}))

OptionType(option) ==
  CASE option.type \in {"string", "combo"} -> T("str")
    [] option.type = "boolean" -> T("bool")
    [] option.type = "feature" -> T("feature")
    [] option.type = "array" -> List({T("str")})
    [] option.type = "integer" -> T("int")

TargetTag ==
  <<"executable">> :> "exe" @@ <<"shared_module">> :> "build_tgt" @@ <<"jar">> :> "jar"
  @@ <<"both_libraries">> :> "both_libs" @@ <<"library">> :> "lib"
  @@ <<"shared_library">> :> "lib" @@ <<"static_library">> :> "lib"
TargetTypes(texts) == {T(TargetTag[t]) : t \in texts \cap DOMAIN TargetTag}

\* The calls whose first argument, or target_type, is guessed.
Guessing == {"get_option", "import", "subproject", "build_target", "get_variable", "set_variable", "subdir"}
GuessesFor(place, call) ==
  P!Guess(place, IF call.name = "build_target" THEN P!KeywordArgument(call, "target_type")
                 ELSE P!FirstArgument(call))

Guesses(v, call) == Get(v.guesses, call)

SetFunctionCallTypesGetOption(func, guessed) ==
  LET types == {OptionType(Options[o]) : o \in guessed \cap DOMAIN Options}
  IN  IF types = {} THEN func.returns ELSE Dedup(types)

SetFunctionCallTypesImport(guessed) ==
  {T(IF m \in DOMAIN Modules THEN Modules[m] ELSE "module") : m \in guessed}

SetFunctionCallTypesSubproject(func, guessed) ==
  IF guessed = {} THEN func.returns ELSE {Subproject(guessed)}

SetFunctionCallTypesBuildTarget(guessed) ==
  LET types == TargetTypes(guessed)
  IN  IF types # {} THEN types ELSE {T(tag) : tag \in {"exe", "lib", "build_tgt", "both_libs", "jar"}}

\* The guessed names are looked up in the scope only.
SetFunctionCallTypesGetVariable(a, func, guessed, default) ==
  LET names == {NameOf(t) : t \in guessed}
  IN  Dedup(default \cup UNION {Get(a.scope, n) : n \in names} \cup When(names = {}, func.returns))

\* guessed is what the first argument may be, or the target_type of a target.
SetFunctionCallTypes(a, call, func, guessed, default) ==
  CASE call.name = "get_option" -> SetFunctionCallTypesGetOption(func, guessed)
    [] call.name = "import" -> SetFunctionCallTypesImport(guessed)
    [] call.name = "subproject" -> SetFunctionCallTypesSubproject(func, guessed)
    [] call.name = "build_target" -> SetFunctionCallTypesBuildTarget(guessed)
    [] call.name = "get_variable" /\ Args(call) # <<>> ->
         SetFunctionCallTypesGetVariable(a, func, guessed, default)
    [] OTHER -> func.returns
-----------------------------------------------------------------------------
(***************************************************************************)
(* Methods.  A call is what method it is and what types it has.            *)
(***************************************************************************)
NoCall == [method |-> {}, types |-> {}]
CallOf(methods, default) ==
  [method |-> methods, types |-> default \cup UNION {m.returns : m \in methods}]

\* x.get(key) is a method of a list or of a dictionary, as the key is.
Suits(type, keys) ==
  \E k \in keys : \/ k.tag = "int" /\ type.tag = "list"
                  \/ k.tag = "str" /\ type.tag \in {"dict", "cfg_data"}

\* The container a key is for, whatever the object is.
ContainerOf(keys) ==
  LET tag == IF keys = {} THEN "" ELSE First(keys).tag
  IN  When(tag = "int", {"list"}) \cup When(tag = "str", {"dict"})

\* A list or a dictionary as the default value of get stands for those in the object.
NestedDefault(types, default) ==
  IF Cardinality(default) = 1 /\ TagsOf(default) \subseteq {"list", "dict"}
  THEN Tagged(Inner(types, "list") \cup Inner(types, "dict"), (CHOOSE d \in default : TRUE).tag)
  ELSE {}

\* The types of the object that have the method.
Having(name, types, keys) ==
  {h \in {[type |-> t, method |-> LookupMethod(name, t.tag)] :
             t \in {u \in types : u.tag # "any" /\ (name = "get" => Suits(u, keys))}} :
     h.method # {}}

\* The method of the last type, and what that of any of them returns.
CallAny(having, default) ==
  LET last == CHOOSE h \in having : \A g \in having : Rank(g.type) <= Rank(h.type)
  IN  [CallOf(last.method, default) EXCEPT !.types = @ \cup UNION {CallOf(h.method, {}).types : h \in having}]

\* get(key) when no type of the object has it: by the key, or by the object.
FallbackGet(types, keys, default) ==
  LET containers == {t \in types : t.tag \in {"dict", "list", "cfg_data"}}
      tags == IF ContainerOf(keys) # {} THEN ContainerOf(keys) ELSE When(containers # {}, {First(containers).tag})
  IN  IF tags = {} THEN NoCall ELSE CallOf(UNION {LookupMethod("get", tag) : tag \in tags}, default)

FindMethod(name, types, keys, default, having) ==
  CASE having # {} -> CallAny(having, When(name = "get", default \cup NestedDefault(types, default)))
    [] having = {} /\ name = "get" /\ ~(Anything \subseteq types) -> FallbackGet(types, keys, default)
    [] OTHER -> NoCall

\* Nothing is known about the object: any method of that name will do.
GuessMethod(name, keys) ==
  LET containers == When(name = "get", ContainerOf(keys))
  IN  CallOf(IF containers = {} THEN AnyMethod(name)
             ELSE UNION {LookupMethod("get", tag) : tag \in containers}, {})

FoundOrGuessed(call, name, types, keys) ==
  IF call.method = {} /\ types \subseteq Anything THEN GuessMethod(name, keys) ELSE call

VisitMethod(name, types, keys, default) ==
  [FoundOrGuessed(FindMethod(name, types, keys, default, Having(name, types, keys)), name, types, keys)
     EXCEPT !.types = Dedup(@)]
-----------------------------------------------------------------------------
\* The types of an expression whose parts have these types.
TypesOfAll(types, nodes) == UNION {types[n] : n \in ToSet(nodes)}

\* The types of the second of two positional arguments.
DefaultTypes(types, args) ==
  IF Len(args) = 2 /\ \A i \in 1 .. 2 : ~Is(args[i], "KeywordItem") THEN types[args[2]] ELSE {}

MethodCall(types, e) ==
  VisitMethod(e.name, types[Obj(e)], IF Args(e) = <<>> THEN {} ELSE types[Args(e)[1]],
              DefaultTypes(types, Args(e)))

FunctionTypes(v, types, e) ==
  UNION {SetFunctionCallTypes(v, e, func, Guesses(v, e), DefaultTypes(types, Args(e))) :
           func \in LookupFunction(e.name)}

ExpressionTypes(v, types, e) ==
  CASE Is(e, "StringLiteral") -> {T("str")}
    [] Is(e, "IntegerLiteral") -> {T("int")}
    [] Is(e, "BooleanLiteral") -> {T("bool")}
    [] Is(e, "ArrayLiteral") -> {List(Dedup(TypesOfAll(types, e.kids)))}
    [] Is(e, "DictionaryLiteral") -> {Dict(Dedup(TypesOfAll(types, e.kids)))}
    [] Is(e, "KeyValueItem") -> types[e.kids[2]]
    [] Is(e, "IdExpression") -> Known(v, e.name)
    [] Is(e, "BinaryExpression") -> BinaryTypes(e.name, types[e.kids[1]], types[e.kids[2]])
    [] Is(e, "UnaryExpression") -> {T(IF e.name = "-" THEN "int" ELSE "bool")}
    [] Is(e, "ConditionalExpression") -> Dedup(types[e.kids[2]] \cup types[e.kids[3]])
    [] Is(e, "SubscriptExpression") -> SubscriptTypes(types[e.kids[1]])
    [] Is(e, "MethodExpression") -> MethodCall(types, e).types
    [] Is(e, "FunctionExpression") -> FunctionTypes(v, types, e)
    [] OTHER -> {}

RECURSIVE TypesOf(_, _)
TypesOf(v, e) == ExpressionTypes(v, [k \in ToSet(e.kids) |-> TypesOf(v, k)], e)

(***************************************************************************)
(* A view is the state in which expressions are visited, with the guesses  *)
(* for the calls in them and the types of all their nodes.                 *)
(***************************************************************************)
Guessed(a, nodes) ==
  LET calls == {n \in nodes : Is(n, "FunctionExpression") /\ n.name \in Guessing}
  IN  [guesses |-> [c \in calls |-> GuessesFor(a.at, c)]] @@ a
TypedNodes(v, nodes) == [types |-> [n \in nodes |-> TypesOf(v, n)]] @@ v
View(a, expressions) ==
  LET nodes == UNION {Nodes(e) : e \in expressions} IN TypedNodes(Guessed(a, nodes), nodes)
-----------------------------------------------------------------------------
(***************************************************************************)
(* What is reported about an expression.                                   *)
(***************************************************************************)
\* An object that has the name of the method called on it is not looked for.
RECURSIVE UnknownIds(_, _)
UnknownIds(known, e) ==
  IF Is(e, "IdExpression") THEN {e.name} \ known
  ELSE UNION {UnknownIds(known \cup When(Is(e, "MethodExpression") /\ e.kids[i] = IdExpression(e.name), {e.name}),
                         e.kids[i]) : i \in DOMAIN e.kids}

KnownIds(v) == DOMAIN v.scope \cup ToSet(v.ignored)

\* A key of a dictionary is not a use.
RECURSIVE UsedNames(_)
UsedNames(e) ==
  CASE Is(e, "IdExpression") -> {e.name}
    [] Is(e, "StringLiteral") ->
         When(e.name = "f", {P!Interpolated[t] : t \in ToSet(e.text) \cap DOMAIN P!Interpolated})
    [] Is(e, "KeyValueItem") /\ Is(e.kids[1], "IdExpression") -> UsedNames(e.kids[2])
    [] OTHER -> UNION {UsedNames(k) : k \in ToSet(e.kids)}

CheckSince(v, func, e) == When(After(func.since, MatchingVersion(v)), {Note("since", e)})

CreateDeprecationWarning(v, what, e) ==
  When(\E d \in what.deprecated : ~After(d, MatchingVersion(v)), {Note("deprecated", e)})

Keywords(args) == {k \in ToSet(args) : Is(k, "KeywordItem")}
Positional(args) == SelectSeq(args, LAMBDA k : ~Is(k, "KeywordItem"))

CheckKwargsAfterPositionalArguments(args) ==
  {Note("positional", args[i]) : i \in {j \in DOMAIN args :
     ~Is(args[j], "KeywordItem") /\ \E k \in 1 .. (j - 1) : Is(args[k], "KeywordItem")}}

CheckKwargs(v, func, args, e) ==
  LET named == {k.name : k \in Keywords(args)}
      expected == {k.name : k \in Kwargs(func)}
  IN  UNION {CreateDeprecationWarning(v, k, e) : k \in {l \in Kwargs(func) : l.name \in named}}
      \cup {Note("keyword", k) : k \in {l \in Keywords(args) : l.name \notin expected \cup {"kwargs"}}}
      \cup When(/\ "kwargs" \notin named \/ "kwargs" \in expected
                /\ ~(RequiredKwargs(func) \subseteq named), {Note("missing", e)})

CheckTypes(v, expected, value, arg) ==
  When(~AtleastPartiallyCompatible(expected, v.types[value]), {Note("type", arg)})

CheckArgTypes(v, func, args) ==
  LET given == Positional(args)
  IN  UNION {UNION {CheckTypes(v, p.types, given[i], given[i]) : p \in PosArg(func, i)} : i \in DOMAIN given}
      \cup UNION {CheckTypes(v, k[1].types, k[2].kids[1], k[2]) :
               k \in {l \in Kwargs(func) \X Keywords(args) : l[1].name = l[2].name}}

ValidatePositionalArgumentCount(count, func, e) ==
  When(count < MinPosArgs(func) \/ TooMany(func, count), {Note("count", e)})

CheckCall(v, func, e) ==
  LET args == Args(e)
  IN  When(args # <<>>, CheckKwargsAfterPositionalArguments(args) \cup CheckKwargs(v, func, args, e)
                        \cup CheckArgTypes(v, func, args))
      \cup ValidatePositionalArgumentCount(Len(Positional(args)), func, e)

OptionNotes(guessed, e) ==
  When(Cardinality(guessed) = 1 /\ ~(guessed \subseteq DOMAIN Options), {Note("option", e)})
  \cup When(Cardinality(guessed) = 1 /\ \E o \in guessed \cap DOMAIN Options : Options[o].deprecated,
            {Note("deprecated", e)})

FunctionNotes(v, e, functions, guessed) ==
  IF functions = {} THEN {Note("function", e)}
  ELSE LET func == CHOOSE f \in functions : TRUE
       IN  When(e.name = "get_option", OptionNotes(guessed, e))
           \cup When(e.name = "import" /\ ~(guessed \subseteq DOMAIN Modules), {Note("module", e)})
           \cup CreateDeprecationWarning(v, func, e) \cup CheckSince(v, func, e) \cup CheckCall(v, func, e)

\* The arguments a format string asks for.
FormatNumber == "@0@" :> 0 @@ "@1@" :> 1

CheckFormat(e) ==
  LET wanted == {FormatNumber[t] : t \in ToSet(Obj(e).text) \cap DOMAIN FormatNumber}
  IN  {Note("parameter", Args(e)[i]) : i \in {j \in DOMAIN Args(e) : (j - 1) \notin wanted}}
      \cup When(wanted = {}, {Note("pointless", e)})
      \cup When(\E n \in wanted : n >= Len(Args(e)), {Note("format", e)})

MethodNotes(v, e, methods, types) ==
  IF methods = {} THEN When(types # {T("disabler")}, {Note("method", e)})
  ELSE UNION {CreateDeprecationWarning(v, m, e) \cup CheckSince(v, m, e) \cup CheckCall(v, m, e)
              \cup When(/\ Is(Obj(e), "StringLiteral") /\ Args(e) # <<>>
                        /\ Id(m) = <<"str", "format">>, CheckFormat(e)) : m \in methods}

BinaryNotes(e, left, right) ==
  When(/\ left # {} /\ right # {} /\ AllErrors(e.name, left, right)
       /\ ~IsSpecial(left) /\ ~IsSpecial(right), {Note("operator", e)})

Bools == {"any", "bool", "disabler"}

ConditionalNotes(v, e) ==
  When(TagsOf(v.types[e.kids[1]]) \cap Bools = {}, {Note("condition", e)})
  \cup {Note("ternary", n) : n \in {m \in UNION {Nodes(k) : k \in ToSet(e.kids)} :
                                      Is(m, "ConditionalExpression")}}

CheckDuplicateNodeKeys(e) ==
  {Note("duplicate", e.kids[i].kids[1]) : i \in {j \in DOMAIN e.kids :
     /\ Is(e.kids[j].kids[1], "StringLiteral")
     /\ \E k \in 1 .. (j - 1) : e.kids[k].kids[1] = e.kids[j].kids[1]}}

NotesAt(v, e) ==
  CASE Is(e, "BinaryExpression") -> BinaryNotes(e, v.types[e.kids[1]], v.types[e.kids[2]])
    [] Is(e, "ConditionalExpression") -> ConditionalNotes(v, e)
    [] Is(e, "DictionaryLiteral") -> CheckDuplicateNodeKeys(e)
    [] Is(e, "FunctionExpression") -> FunctionNotes(v, e, LookupFunction(e.name), Guesses(v, e))
    [] Is(e, "MethodExpression") -> MethodNotes(v, e, MethodCall(v.types, e).method, v.types[Obj(e)])
    [] Is(e, "ErrorNode") -> {Note("syntax", e)}
    [] OTHER -> {}

\* What is reported about an expression in which some more names are known.
Notes(v, e, excused) ==
  UNION {NotesAt(v, n) : n \in Nodes(e)}
  \cup {Note("identifier", IdExpression(n)) : n \in UnknownIds(KnownIds(v) \cup excused, e)}
-----------------------------------------------------------------------------
(***************************************************************************)
(* Conditions.                                                             *)
(***************************************************************************)
MethodIds(v, e) ==
  IF Is(e, "MethodExpression") THEN {Id(m) : m \in MethodCall(v.types, e).method} ELSE {}

IsVersion(v, e) == <<"meson", "version">> \in MethodIds(v, e)
IsMesonVersion(v, e) == (Is(e, "IdExpression") /\ e.name \in v.versionVars) \/ IsVersion(v, e)

\* The version the run has when the condition holds; operator and "not" are not
\* looked at, and one side of a binary expression is enough.
RECURSIVE CheckConditionForVersionComparison(_, _)
CheckConditionForVersionComparison(v, e) ==
  CASE Is(e, "MethodExpression") ->
         When(/\ <<"str", "version_compare">> \in MethodIds(v, e)
              /\ Args(e) # <<>> /\ Is(Args(e)[1], "StringLiteral")
              /\ IsMesonVersion(v, Obj(e)), {VersionOf(Args(e)[1].text)})
    [] Is(e, "BinaryExpression") ->
         LET left == CheckConditionForVersionComparison(v, e.kids[1])
         IN  IF left # {} THEN left ELSE CheckConditionForVersionComparison(v, e.kids[2])
    [] OTHER -> {}

PathOf(dir, text) ==
  CASE dir = Root -> text [] dir # Root /\ text = <<>> -> dir [] OTHER -> dir \o <<"/">> \o text

\* A symlink is one to a file.
FsFact ==
  [is_dir |-> {"dir"}, exists |-> {"dir", "file", "symlink"}, is_file |-> {"file", "symlink"},
   is_symlink |-> {"symlink"}]

HoldsOfPath(v, e) ==
  LET path == PathOf(Directory(v.at), Positional(Args(e))[1].text)
  IN  path \in DOMAIN Paths /\ Paths[path] \in FsFact[e.name]

\* "true", "false" or "unknown".
RECURSIVE TryEvaluateStaticBoolCondition(_, _)
TryEvaluateStaticBoolCondition(v, e) ==
  LET Operand(i) == TryEvaluateStaticBoolCondition(v, e.kids[i])
      Either(truth) == Operand(1) = truth \/ Operand(2) = truth
      Both(truth) == Operand(1) = truth /\ Operand(2) = truth
      Opposite == [true |-> "false", false |-> "true", unknown |-> "unknown"]
  IN  CASE Is(e, "UnaryExpression") /\ e.name \in {"not", "!"} -> Opposite[Operand(1)]
        [] Is(e, "BinaryExpression") /\ e.name = "and" ->
             IF Either("false") THEN "false" ELSE IF Both("true") THEN "true" ELSE "unknown"
        [] Is(e, "BinaryExpression") /\ e.name = "or" ->
             IF Either("true") THEN "true" ELSE IF Both("false") THEN "false" ELSE "unknown"
        [] /\ Is(e, "MethodExpression") /\ e.name \in DOMAIN FsFact
           /\ <<"fs_module", e.name>> \in MethodIds(v, e)
           /\ Positional(Args(e)) # <<>> /\ Is(Positional(Args(e))[1], "StringLiteral") ->
             IF HoldsOfPath(v, e) THEN "true" ELSE "false"
        [] OTHER -> "unknown"

\* The identifier tested by is_variable('x').
Tested(e) ==
  When(/\ Is(e, "FunctionExpression") /\ e.name = "is_variable"
       /\ Args(e) # <<>> /\ Is(Args(e)[1], "StringLiteral"), {NameOf(Args(e)[1].text)})

CheckCondition(v, e) ==
  When(v.types[e] # {} /\ TagsOf(v.types[e]) \cap Bools = {}, {Note("condition", e)})
-----------------------------------------------------------------------------
(***************************************************************************)
(* Reports.                                                                *)
(***************************************************************************)
Report(place, notes) == {[at |-> Key(place), kind |-> n.kind, node |-> n.node] : n \in notes}
Sight(v, place) == [at |-> Key(place), types |-> v.types]

IsDead(stmt) == Is(stmt, "FunctionExpression") /\ stmt.name \in {"error", "subdir_done"}

\* Of a block that is left: the first statement that no run reaches.
CheckDeadNodes(place) ==
  LET f == Last(place)
      stmts == Blocks(f.node)[f.block]
      dead == {i \in DOMAIN stmts : \E j \in 1 .. (i - 1) : IsDead(stmts[j])}
  IN  When(dead # {}, Report(Append(Front(place), Frame(f.node, f.block, Min(dead))),
                             {Note("dead", stmts[Min(dead)])}))

CheckUnusedVariables(needs) ==
  {[at |-> n.at, kind |-> "unused", node |-> n.node] : n \in {m \in ToSet(needs) :
     Is(m.node.kids[2], "FunctionExpression") /\ m.node.kids[2].name # "declare_dependency"}}

InLoop(place) ==
  \E i \in DOMAIN place : /\ Is(place[i].node, "IterationStatement")
                          /\ \A j \in i .. Len(place) : ~Is(place[j].node, "BuildDefinition")
CheckIfInLoop(place, stmt) ==
  When(stmt.type \in {"BreakNode", "ContinueNode"} /\ ~InLoop(place), {Note("loop", stmt)})

\* The first statement of the root file is project(...).
CheckProjectCall(stmts) ==
  When(stmts = <<>> \/ ~Is(stmts[1], "FunctionExpression") \/ stmts[1].name # "project",
       {Note("project", BuildDefinition(stmts))})

ProjectVersion(stmts, version) ==
  LET wanted == {k.kids[1] : k \in {l \in Keywords(Args(stmts[1])) : l.name = "meson_version"}}
  IN  IF CheckProjectCall(stmts) # {} \/ \A k \in wanted : ~Is(k, "StringLiteral") THEN version
      ELSE VersionOf((CHOOSE k \in wanted : TRUE).text)
-----------------------------------------------------------------------------
(***************************************************************************)
(* Statements.                                                             *)
(***************************************************************************)
ReadOnly == {"meson", "build_machine", "host_machine", "target_machine"}
Installs == {"install_data", "install_headers", "install_man", "install_subdir", "install_symlink",
             "install_emptydir"}

\* The right side is a call that returns nothing.
IsVoid(rhs, types) == rhs.type \in {"FunctionExpression", "MethodExpression"} /\ types = {}

EvaluatePureAssignment(a, name, types, isVersion) ==
  [RegisterNeedForUse(Assign(a, name, types), name) EXCEPT !.versionVars = @ \cup When(isVersion, {name})]

EvaluateFullAssignment(a, stmt, types, isVersion) ==
  LET name == stmt.kids[1].name
  IN  CASE IsVoid(stmt.kids[2], types) -> a
        [] stmt.name = "=" /\ name \in ReadOnly -> a
        [] stmt.name = "=" /\ name \notin ReadOnly -> EvaluatePureAssignment(a, name, types, isVersion)
        [] OTHER -> Assign(a, name, EvalAssignment(stmt.name, Known(a, name), types))

AssignmentNotes(v, stmt, types) ==
  LET lhs == stmt.kids[1]
      rhs == stmt.kids[2]
  IN  Notes(v, rhs, When(stmt.name = "=" /\ Is(rhs, "IdExpression"), {lhs.name}))
      \cup When(IsVoid(rhs, types) /\ ~(Is(rhs, "FunctionExpression") /\ rhs.name \in Installs),
                {Note("void", lhs)})
      \cup When(~IsVoid(rhs, types) /\ stmt.name = "=" /\ lhs.name \in ReadOnly, {Note("readonly", lhs)})

VisitAssignmentStatement ==
  LET a == analyzer
      stmt == Stmt(a)
      rhs == stmt.kids[2]
      used == UsedNames(rhs) \cup When(stmt.name # "=", {stmt.kids[1].name})
  IN  /\ InBlock(a) /\ Is(stmt, "AssignmentStatement")
      /\ \E v \in {View(a, {rhs})} : \E types \in {v.types[rhs]} :
           /\ analyzer' = Advanced(EvaluateFullAssignment(RegisterUsed(a, used), stmt, types, IsVersion(v, rhs)))
           /\ found' = found \cup Report(a.at, AssignmentNotes(v, stmt, types))
           /\ sights' = sights \cup {Sight(v, a.at)}
      /\ UNCHANGED files

\* The names a call of set_variable may give a value to.
NamesSet(e, guessed) ==
  CASE e.name # "set_variable" \/ Args(e) = <<>> -> {}
    [] e.name = "set_variable" /\ Args(e) # <<>> /\ Is(Args(e)[1], "StringLiteral") ->
         When(Len(Args(e)) > 1, {NameOf(Args(e)[1].text)})
    [] OTHER -> {NameOf(t) : t \in guessed}

CheckSetVariable(a, names, types) == FoldSet(LAMBDA name, b : SetVariable(b, name, types), a, names)

IsSubdir(stmt) == Is(stmt, "FunctionExpression") /\ stmt.name = "subdir" /\ Args(stmt) # <<>>

\* An identifier that is a statement of its own is a use in a branch only; in
\* the body of a loop it is not looked up.
Bare(stmt) == Is(stmt, "IdExpression")
Counted(a, e) == When(Bare(e) => Is(Parent(a.at), "SelectionStatement"), UsedNames(e))
NotLookedUp(a, e) == When(Bare(e) /\ Is(Parent(a.at), "IterationStatement"), {e.name})

VisitExpressionStatement ==
  LET a == analyzer
      e == Stmt(a)
      visited == RegisterUsed(a, Counted(a, e))
  IN  /\ InBlock(a) /\ ~IsSubdir(e)
      /\ e.type \notin {"AssignmentStatement", "SelectionStatement", "IterationStatement"}
      /\ \E v \in {View(a, {e})} :
           /\ analyzer' = Advanced(IF Is(e, "FunctionExpression") /\ Len(Args(e)) > 1
                                   THEN CheckSetVariable(visited, NamesSet(e, Guesses(v, e)), v.types[Args(e)[2]])
                                   ELSE visited)
           /\ found' = found \cup Report(a.at, Notes(v, e, NotLookedUp(a, e)) \cup CheckIfInLoop(a.at, e))
           /\ sights' = sights \cup {Sight(v, a.at)}
      /\ UNCHANGED files

File(dir) == [BuildDefinition(files[dir]) EXCEPT !.text = dir]

\* Go into one of the directories of the subdir call at a.at, or past the call.
EnterOne(a, dir) ==
  [a EXCEPT !.at = Append(@, Frame(File(dir), 1, 1)), !.needUse = Append(@, <<>>),
            !.dirs[Len(a.dirs)] = @ \ {dir}]

EnterNext(a) ==
  IF Last(a.dirs) = {} THEN analyzer' = Advanced([a EXCEPT !.dirs = Front(@)])
  ELSE \E dir \in Last(a.dirs) : analyzer' = EnterOne(a, dir)

Missing(dirs) == {d \in dirs : ~(d \in DOMAIN Paths \cup {Root} /\ d \in DOMAIN files)}

VisitSubdir ==
  LET a == analyzer
      e == Stmt(a)
      own == Directory(a.at)
      used == RegisterUsed(a, UsedNames(e))
  IN  /\ InBlock(a) /\ IsSubdir(e)
      /\ \E v \in {View(a, {e})} : \E dirs \in {{PathOf(own, t) : t \in Guesses(v, e)}} :
           /\ EnterNext([used EXCEPT !.dirs = Append(@, dirs \ (Missing(dirs) \cup {own}))])
           /\ found' = found \cup Report(a.at, Notes(v, e, {})
                         \cup When(Cardinality(dirs) = 1 /\ Missing(dirs) # {}, {Note("directory", e)}))
           /\ sights' = sights \cup {Sight(v, a.at)}
      /\ UNCHANGED files

\* The end of the file of a directory; what needs a use there needs one outside.
LeaveFile ==
  LET a == analyzer
      outer == Front(a.needUse)
      left == Up([a EXCEPT !.needUse = [outer EXCEPT ![Len(outer)] = @ \o Last(a.needUse)]])
  IN  /\ a.at # <<>> /\ ~InBlock(a) /\ Is(Parent(a.at), "BuildDefinition") /\ Len(a.at) > 1
      /\ EnterNext(left)
      /\ found' = found \cup CheckDeadNodes(a.at)
      /\ UNCHANGED <<files, sights>>

\* The end of the root file is the end of the analysis.
LeaveRoot ==
  LET a == analyzer
  IN  /\ Len(a.at) = 1 /\ ~InBlock(a)
      /\ analyzer' = [Up(a) EXCEPT !.needUse = <<>>]
      /\ found' = found \cup CheckDeadNodes(a.at) \cup CheckUnusedVariables(a.needUse[1])
      /\ UNCHANGED <<files, sights>>
-----------------------------------------------------------------------------
(***************************************************************************)
(* Loops: the body is visited once.                                        *)
(***************************************************************************)
AnalyseIterationStatementSingleIdentifier(types) ==
  CASE TagsOf(types) \cap {"list", "range"} # {} ->
         Dedup(Inner(types, "list") \cup When(Tagged(types, "range") # {}, {T("int")}))
    [] TagsOf(types) \cap {"list", "range", "any"} = {} -> {T("any")}
    [] OTHER -> {}

\* The types of the second identifier; before are those its name has already.
AnalyseIterationStatementTwoIdentifiers(types, before) ==
  LET dicts == Tagged(types, "dict")
  IN  CASE dicts = {} -> before
        [] dicts # {} /\ First(dicts).of = {} -> {T("any")}
        [] OTHER -> First(dicts).of

LoopNotes(types, count, e) ==
  When(\/ count = 1 /\ "any" \in TagsOf(types) /\ TagsOf(types) \cap {"list", "range"} = {}
       \/ count = 2 /\ TagsOf(types) \cap {"dict", "any"} = {}
       \/ count > 2, {Note("ids", e)})

DeclareIds(a, ids, types) ==
  CASE Len(ids) = 1 -> Assign(a, ids[1], AnalyseIterationStatementSingleIdentifier(types))
    [] Len(ids) = 2 ->
         Assign(Assign(a, ids[1], {T("str")}), ids[2],
                AnalyseIterationStatementTwoIdentifiers(types, Known(a, ids[2])))
    [] OTHER -> a

\* Whether is_variable was asked is not considered for the expression of a loop.
ExpressionNotes(v, e) ==
  Notes(IF Is(e, "IdExpression") THEN [v EXCEPT !.ignored = <<>>] ELSE v, e, {})

VisitIterationStatement ==
  LET a == analyzer
      loop == Stmt(a)
      e == Items(loop)
  IN  /\ InBlock(a) /\ Is(loop, "IterationStatement")
      /\ \E v \in {View(a, {e})} : \E types \in {v.types[e]} :
           /\ analyzer' = Down(DeclareIds(RegisterUsed(a, UsedNames(e)), Ids(loop), types), 1, 1)
           /\ found' = found \cup Report(a.at, ExpressionNotes(v, e) \cup LoopNotes(types, Len(Ids(loop)), e))
           /\ sights' = sights \cup {Sight(v, a.at)}
      /\ UNCHANGED files

LeaveLoop ==
  /\ analyzer.at # <<>> /\ ~InBlock(analyzer) /\ Is(Parent(analyzer.at), "IterationStatement")
  /\ analyzer' = Advanced(Up(analyzer))
  /\ found' = found \cup CheckDeadNodes(analyzer.at)
  /\ UNCHANGED <<files, sights>>
-----------------------------------------------------------------------------
(***************************************************************************)
(* Branches.  a.at is the place of the if in these operators.              *)
(***************************************************************************)
BeginSelection(a) ==
  [a EXCEPT !.stack = Append(@, <<>>), !.overridden = Append(@, <<>>), !.selections = Append(@, <<>>),
            !.open = Append(@, [left |-> <<>>, ignoring |-> FALSE, versioned |-> FALSE, truth |-> "unknown"])]

\* The condition of a branch, if it has one.
ConditionOf(a, b) == {Conditions(Stmt(a))[c] : c \in {b} \cap DOMAIN Conditions(Stmt(a))}

\* Whether a branch is known to be taken, or not to be.
Truth(v, b) ==
  IF b \in DOMAIN Conditions(Stmt(v)) THEN TryEvaluateStaticBoolCondition(v, Conditions(Stmt(v))[b])
  ELSE "unknown"

BeginBlock(a, b, versions, truth) ==
  LET tested == UNION {Tested(c) : c \in ConditionOf(a, b)}
      used == UNION {UsedNames(c) : c \in ConditionOf(a, b)}
      first == IF truth = "false" THEN Len(Blocks(Stmt(a))[b]) + 1 ELSE 1
  IN  [Down(RegisterUsed(a, used), b, first) EXCEPT
         !.needUse = Append(@, <<>>),
         !.ignored = @ \o SetToSeq(tested),
         !.versions = @ \o SetToSeq(versions),
         !.open[Len(a.open)] = [@ EXCEPT !.ignoring = tested # {}, !.versioned = versions # {},
                                         !.truth = truth]]

\* Seeded fault: the version of a branch is kept after it.
KeepsVersions(a) ==
  LET open == Last(a.open)
  IN  [Up(a) EXCEPT
         !.ignored = IF open.ignoring THEN Front(@) ELSE @,
         !.open[Len(a.open)].left = @ \o Last(a.needUse),
         !.needUse = Front(@)]

EndBlock(a) ==
  LET open == Last(a.open)
  IN  [Up(a) EXCEPT
         !.ignored = IF open.ignoring THEN Front(@) ELSE @,
         !.versions = IF open.versioned THEN Front(@) ELSE @,
         !.open[Len(a.open)].left = @ \o Last(a.needUse),
         !.needUse = Front(@)]

\* Seeded fault: after the if a variable has what a branch assigned to it.
AssignedOnly(a, name, assigned, changed) ==
  Declare(ModifiedVariableType(a, name, assigned[name]), name, assigned[name])

\* All that a variable may have after the if: what is in the scope, what was
\* assigned in a branch, and what it had before.
Merge(a, name, assigned, changed) ==
  LET types == Dedup(Get(a.scope, name) \cup assigned[name] \cup Get(changed, name))
  IN  Declare(ModifiedVariableType(a, name, types), name, types)

FirstOfEach(needs) ==
  FoldLeft(LAMBDA kept, n : IF \E i \in DOMAIN kept : kept[i].name = n.name THEN kept ELSE Append(kept, n),
           <<>>, needs)

FinishSelection(a) ==
  LET assigned == Last(a.stack)
      changed == Last(a.selections)
      closed == [a EXCEPT !.selections = Front(@), !.open = Front(@),
                          !.needUse[Len(a.needUse)] = @ \o FirstOfEach(Last(a.open).left)]
      merged == FoldSet(LAMBDA name, b : Merge(b, name, assigned, changed), closed, DOMAIN assigned)
  IN  Advanced([merged EXCEPT !.stack = Front(@), !.overridden = Front(@)])

\* Begin with a branch, after what was reported about the one before.
Branch(a, b, reported) ==
  LET conditions == ConditionOf(a, b)
      place == Append(a.at, Frame(Stmt(a), b, 0))
  IN  /\ \E v \in {View(a, conditions)} :
           /\ analyzer' = BeginBlock(a, b, UNION {CheckConditionForVersionComparison(v, c) : c \in conditions},
                                     Truth(v, b))
           /\ found' = found \cup reported
                \cup UNION {Report(place, Notes(v, c, {}) \cup CheckCondition(v, c)) : c \in conditions}
           /\ sights' = sights \cup {Sight(v, place) : c \in conditions}
      /\ UNCHANGED files

VisitSelectionStatement ==
  /\ InBlock(analyzer) /\ Is(Stmt(analyzer), "SelectionStatement")
  /\ Branch(BeginSelection(analyzer), 1, {})

\* What is dead in a branch that is visited.
DeadInBranch(a) == When(Last(a.open).truth # "false", CheckDeadNodes(a.at))

\* The end of a branch: the next one, unless this one is always taken.
LastBranch(a) == Last(a.at).block = Len(Blocks(Parent(a.at))) \/ Last(a.open).truth = "true"
EndOfBranch(a) == a.at # <<>> /\ ~InBlock(a) /\ Is(Parent(a.at), "SelectionStatement")

NextBranch ==
  /\ EndOfBranch(analyzer) /\ ~LastBranch(analyzer)
  /\ Branch(EndBlock(analyzer), Last(analyzer.at).block + 1, DeadInBranch(analyzer))

LeaveSelection ==
  /\ EndOfBranch(analyzer) /\ LastBranch(analyzer)
  /\ analyzer' = FinishSelection(EndBlock(analyzer))
  /\ found' = found \cup DeadInBranch(analyzer)
  /\ UNCHANGED <<files, sights>>

Visit ==
  \/ VisitAssignmentStatement
  \/ VisitExpressionStatement
  \/ VisitSubdir
  \/ VisitIterationStatement
  \/ VisitSelectionStatement
  \/ NextBranch
  \/ LeaveSelection
  \/ LeaveLoop
  \/ LeaveFile
  \/ LeaveRoot

\* Begin with the root file.
BeginRoot(scope, version) ==
  LET version0 == ProjectVersion(files[Root], version)
  IN  /\ analyzer' = [Fresh(scope, version0) EXCEPT
                        !.at = <<Frame(File(Root), 1, 1)>>, !.needUse = <<<<>>>>]
      /\ found' = {[at |-> <<>>, kind |-> n.kind, node |-> n.node] : n \in CheckProjectCall(files[Root])}
================================================================================
