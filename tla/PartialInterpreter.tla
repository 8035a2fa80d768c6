--------------------------- MODULE PartialInterpreter ---------------------------
(***************************************************************************)
(* The partial interpreter (typeanalyzer/partialinterpreter.cpp): which    *)
(* strings may the argument of set_variable, get_variable or subdir be?    *)
(* It looks for the assignments of a variable backwards from the place of  *)
(* the call, through the blocks around it, and evaluates what it finds     *)
(* without running the program.                                            *)
(*                                                                         *)
(* Each operator is the member function of its name.  What an expression   *)
(* may be is a set of nodes (AbstractEval) or of texts (Calculate); their  *)
(* order and their multiplicity in the vectors of the code are left out.   *)
(***************************************************************************)
EXTENDS Ast

CONSTANTS
  Options,      \* the options of the project: [name -> [type, values]]
  UpperCase     \* [atom -> its capital]

\* The variable an atom of a format string stands for.
Interpolated == "@x@" :> "x" @@ "@i@" :> "i"

Punctuation == {"/", " ", ",", "."}

\* What was found out about an expression: a literal, and how it came about.
Found(class, node) == [class |-> class, node |-> node]
Artificial(text) == Found("ArtificialStringNode", StringLiteral(text))
AsString(node) == Found("StringNode", node)

TextsOf(nodes) == {n.text : n \in {m \in nodes : Is(m, "StringLiteral")}}
ItemTexts(list) == TextsOf(ToSet(list.kids))
ItemSet(list) == ToSet(list.kids)

\* The values a dictionary has for a key, and all it has.
KeyNamed(item, key) ==
  Is(item, "KeyValueItem") /\ Is(item.kids[1], "StringLiteral") /\ item.kids[1].text = key
StringValues(items) ==
  {v \in {item.kids[2] : item \in {i \in items : Is(i, "KeyValueItem")}} : Is(v, "StringLiteral")}
ValuesOf(dict) == StringValues(ItemSet(dict))
ValuesFor(dict, key) == StringValues({item \in ItemSet(dict) : KeyNamed(item, key)})

\* The values for a key of a dictionary, or of the dictionaries in an array.
Keyed(node, key) ==
  CASE Is(node, "DictionaryLiteral") -> ValuesFor(node, key)
    [] Is(node, "ArrayLiteral") ->
         UNION {ValuesFor(d, key) : d \in {i \in ItemSet(node) : Is(i, "DictionaryLiteral")}}
    [] OTHER -> {}

InBounds(list, n) == Is(list, "ArrayLiteral") /\ Is(n, "IntegerLiteral") /\ n.num < Len(list.kids)
ItemAt(list, n) == list.kids[n.num + 1]

ValidMethods == {"underscorify", "to_lower", "to_upper", "strip", "keys", "replace"}
IsValidMethod(me) == me.name \in ValidMethods
IsValidFunction(fe) == fe.name \in {"join_paths", "get_option"}

Mapped(text, f) == [i \in DOMAIN text |-> IF text[i] \in DOMAIN f THEN f[text[i]] ELSE text[i]]
LowerCase == [u \in Range(UpperCase) |-> CHOOSE l \in DOMAIN UpperCase : UpperCase[l] = u]
Stripped(text) ==
  LET solid == {i \in DOMAIN text : text[i] # " "}
  IN  IF solid = {} THEN <<>> ELSE SubSeq(text, Min(solid), Max(solid))

\* The other method, keys, is unreachable there.
ApplyMethod(text, me) ==
  CASE me.name = "underscorify" -> Mapped(text, [p \in Punctuation |-> "_"])
    [] me.name = "to_lower" -> Mapped(text, LowerCase)
    [] me.name = "to_upper" -> Mapped(text, UpperCase)
    [] me.name = "strip" -> Stripped(text)
    [] me.name = "replace" ->
         IF Len(Args(me)) = 2 /\ \A i \in 1 .. 2 : Is(Args(me)[i], "StringLiteral")
         THEN Replaced(text, Args(me)[1].text[1], Args(me)[2].text)
         ELSE text
    [] OTHER -> Assert(FALSE, "unreachable")

SplitString(text) == SelectSeq(Split(text, " "), LAMBDA part : part # <<>>)

Separator(be) == IF be.name = "/" THEN <<"/">> ELSE <<>>

RECURSIVE AllAbstractStringCombinations(_)
AllAbstractStringCombinations(arrays) ==
  CASE arrays = <<>> -> {}
    [] Len(arrays) = 1 -> arrays[1]
    [] OTHER ->
         LET rest == {f.node : f \in AllAbstractStringCombinations(Tail(arrays))}
         IN  {Artificial(first \o <<"/">> \o second) :
                first \in TextsOf({f.node : f \in arrays[1]}), second \in TextsOf(rest)}

\* The values of a combo option, the choices of an array option.
OptionValues(name) ==
  IF name \in DOMAIN Options /\ Options[name].type \in {"combo", "array"}
  THEN Options[name].values ELSE {}

GetOption(args) ==
  IF args # <<>> /\ Is(args[1], "StringLiteral") THEN OptionValues(args[1].text) ELSE {}
-----------------------------------------------------------------------------
(***************************************************************************)
(* What two known operands make.                                           *)
(***************************************************************************)
\* The strings in an array and in the arrays in it.
FlatTexts(array) ==
  ItemTexts(array)
  \cup UNION {ItemTexts(a) : a \in {i \in ItemSet(array) : Is(i, "ArrayLiteral")}}

AbstractEvalComputeBinaryExpr(left, right, sep) ==
  CASE Is(left, "StringLiteral") /\ Is(right, "StringLiteral") ->
         {Artificial(left.text \o sep \o right.text)}
    [] Is(left, "StringLiteral") /\ Is(right, "ArrayLiteral") ->
         {Artificial(left.text \o sep \o t) : t \in FlatTexts(right)}
    [] Is(left, "ArrayLiteral") /\ Is(right, "StringLiteral") ->
         {Artificial(t \o sep \o right.text) : t \in FlatTexts(left)}
    [] Is(left, "ArrayLiteral") /\ Is(right, "ArrayLiteral") ->
         {Found("ArrayNode", left), Found("ArrayNode", right)}
    [] Is(left, "DictionaryLiteral") /\ Is(right, "DictionaryLiteral") ->
         {Found("DictNode", left), Found("DictNode", right)}
    [] OTHER -> {}

\* What a key finds it keeps only when it equals the key.
AbstractEvalComputeSubscript(inner, outer) ==
  CASE InBounds(outer, inner) ->
         IF Is(ItemAt(outer, inner), "StringLiteral") THEN {AsString(ItemAt(outer, inner))} ELSE {}
    [] ~InBounds(outer, inner) /\ Is(inner, "StringLiteral") ->
         IF Assert(outer.type \in {"DictionaryLiteral", "ArrayLiteral"}, "assert(arr)")
         THEN {AsString(v) : v \in {w \in Keyed(outer, inner.text) : w.text = inner.text}}
         ELSE {}
    [] OTHER -> {}

\* The same in Calculate..., where a key finds its values.
CalculateEvalSubscriptExpression(inner, outer) ==
  CASE Is(inner, "IntegerLiteral") ->
         IF InBounds(outer, inner) THEN TextsOf({ItemAt(outer, inner)}) ELSE {}
    [] Is(inner, "StringLiteral") -> {v.text : v \in Keyed(outer, inner.text)}
    [] OTHER -> {}

\* A variable that may be object, subscripted with a literal.
AbstractEvalSimpleSubscript(inner, object) ==
  LET node == object.node
  IN  CASE InBounds(node, inner) ->
             LET item == ItemAt(node, inner)
             IN  CASE Is(item, "StringLiteral") -> {AsString(item)}
                   [] Is(item, "ArrayLiteral") ->
                        {AsString(i) : i \in {j \in ItemSet(item) : Is(j, "StringLiteral")}}
                   [] OTHER -> {}
        [] object.class \in {"StringNode", "ArtificialStringNode"} -> {object}
        [] Is(inner, "StringLiteral") /\ Is(node, "DictionaryLiteral") ->
             {AsString(v) : v \in Keyed(node, inner.text)}
        [] Is(inner, "StringLiteral") /\ Is(node, "ArrayLiteral") ->
             AbstractEvalComputeSubscript(inner, node)
        [] OTHER -> {}

AbstractEvalGet(key, object) ==
  LET node == object.node
  IN  CASE InBounds(node, key) ->
             IF Is(ItemAt(node, key), "StringLiteral") THEN {AsString(ItemAt(node, key))} ELSE {}
        [] object.class = "StringNode" -> {object}
        [] Is(key, "StringLiteral") /\ Is(node, "DictionaryLiteral") ->
             {AsString(v) : v \in Keyed(node, key.text)}
        [] OTHER -> {}

\* An item that is not a string is dereferenced all the same.
CalculateGet(key, node) ==
  CASE InBounds(node, key) ->
         IF Assert(Is(ItemAt(node, key), "StringLiteral"), "slAtIdx") THEN {ItemAt(node, key).text}
         ELSE {}
    [] Is(key, "StringLiteral") -> {v.text : v \in Keyed(node, key.text)}
    [] OTHER -> {}

\* The texts a method other than keys is applied to.
Receivers(node) ==
  IF Is(node, "ArrayLiteral") THEN ItemTexts(node) ELSE TextsOf({node})

Keys(node) ==
  IF Is(node, "DictionaryLiteral")
  THEN {k \in {i.kids[1] : i \in {j \in ItemSet(node) : Is(j, "KeyValueItem")}} :
          Is(k, "StringLiteral")}
  ELSE {}

AbstractEvalMethod(me, node) ==
  IF me.name = "keys" THEN {AsString(k) : k \in Keys(node)}
  ELSE {Artificial(ApplyMethod(t, me)) : t \in Receivers(node)}

\* x.split(sep)[idx]
AbstractEvalSplitWithSubscript(idx, sep, node) ==
  LET parts == {Split(t, sep) : t \in Receivers(node)}
  IN  {Artificial(p[idx.num + 1]) : p \in {q \in parts : idx.num < Len(q)}}

\* x.split(): one array of the words of all that x may be.
Words(nodes) ==
  LET words == FoldSet(LAMBDA text, found : SplitString(text) \o found, <<>>, TextsOf(nodes))
  IN  Found("ArtificialArrayNode",
            ArrayLiteral([i \in DOMAIN words |-> StringLiteral(words[i])]))
-----------------------------------------------------------------------------
RECURSIVE AbstractEval(_, _), ResolveArrayOrDict(_, _), FullEval(_, _),
          CalculateExpression(_, _)

EvalAll(place, nodes) == UNION {AbstractEval(place, n) : n \in nodes}

(***************************************************************************)
(* Looking for a variable.                                                 *)
(***************************************************************************)
EvalStatement(place, name) ==
  IF Assigns(Statement(place), name)
  THEN AbstractEval(place, Statement(place).kids[2])
  ELSE FullEval(place, name)

\* All that is assigned anywhere in the blocks of a statement.
FullEval(place, name) ==
  LET inside == ToSet(PlacesIn(place, Statement(place)))
  IN  UNION {EvalStatement(p, name) : p \in inside}

\* Seeded fault: "+=" ends the search, "=" does not.
NeverEnds(place, name) ==
  Assigns(Statement(place), name) /\ Statement(place).name = "+="

Definition(place, name) ==
  Assigns(Statement(place), name) /\ Statement(place).name = "="

\* Going back from a place in the blocks of its parent, up to an assignment
\* with "=".  The blocks of an if are one after the other.
Reaching(place, name) ==
  LET before == Before(place)
      last == {i \in DOMAIN before : Definition(before[i], name)}
      seen == IF last = {} THEN DOMAIN before ELSE 1 .. Min(last)
  IN  [complete |-> last # {}, nodes |-> UNION {EvalStatement(before[i], name) : i \in seen}]

\* The file that has the subdir call is not looked into.
AnalyseBuildDefinition(here) == here.nodes

\* Seeded fault: what is before the if is forgotten.
StaysInBranch(place, name, here) == here.nodes

AnalyseSelectionStatement(place, name, here) ==
  here.nodes \cup (IF here.complete THEN {} ELSE ResolveArrayOrDict(Front(place), name))

\* What a loop takes from an array, or as its identifier idx from a dictionary.
LoopItems(count, idx, values) ==
  IF count = 1
  THEN UNION {ItemSet(v.node) : v \in {w \in values : Is(w.node, "ArrayLiteral")}}
  ELSE {i.kids[idx] : i \in UNION {ItemSet(v.node) : v \in {w \in values : Is(w.node, "DictionaryLiteral")}}}

\* What a loop over some values gives its variables.
LoopValues(place, count, idx, values) ==
  {v \in values : count = 1 /\ ~Is(v.node, "ArrayLiteral")}
  \cup EvalAll(IF count = 1 THEN place ELSE <<>>, LoopItems(count, idx, values))

AnalyseIterationStatement(place, name, here) ==
  LET ids == Ids(Parent(place))
      idx == {i \in DOMAIN ids : ids[i] = name}
  IN  CASE here.complete -> here.nodes
        [] ~here.complete /\ idx # {} ->
             LoopValues(Front(place), Len(ids), Min(idx),
                        AbstractEval(Front(place), Items(Parent(place))) \cup here.nodes)
        [] OTHER -> ResolveArrayOrDict(Front(place), name) \cup here.nodes

Analyse(place, name, here) ==
  CASE Is(Parent(place), "BuildDefinition") -> AnalyseBuildDefinition(here)
    [] Is(Parent(place), "IterationStatement") -> AnalyseIterationStatement(place, name, here)
    [] OTHER -> AnalyseSelectionStatement(place, name, here)

\* The empty place is that of a node that is in no block.
ResolveArrayOrDict(place, name) ==
  IF place = <<>> THEN {} ELSE Analyse(place, name, Reaching(place, name))
-----------------------------------------------------------------------------
(***************************************************************************)
(* Calculate: the texts of an expression.                                  *)
(***************************************************************************)
TextsFound(found) ==
  TextsOf({f.node : f \in found})
  \cup UNION {ItemTexts(f.node) : f \in {g \in found : g.class = "ArrayNode" /\ Is(g.node, "ArrayLiteral")}}

CalculateIdExpression(place, name) == TextsFound(ResolveArrayOrDict(place, name))

\* A format string is filled in when it names one variable.
EvalFormatString(place, text) ==
  LET names == {i \in DOMAIN text : text[i] \in DOMAIN Interpolated}
  IN  IF Cardinality(names) # 1 THEN {text}
      ELSE LET at == text[CHOOSE i \in names : TRUE]
           IN  {Replaced(text, at, t) : t \in CalculateIdExpression(place, Interpolated[at])}

CalculateBinaryExpression(place, be) ==
  {left \o Separator(be) \o right :
     left \in CalculateExpression(place, be.kids[1]), right \in CalculateExpression(place, be.kids[2])}

\* Only the first argument of format is filled in.
CalculateStringFormatMethodCall(place, me) ==
  {Replaced(text, "@0@", arg) :
     text \in CalculateExpression(place, Obj(me)), arg \in CalculateExpression(place, Args(me)[1])}

CalculateGetMethodCall(place, me) ==
  UNION {CalculateGet(Args(me)[1], f.node) : f \in ResolveArrayOrDict(place, Obj(me).name)}

CalculateMethodExpression(place, me) ==
  CASE IsValidMethod(me) -> {ApplyMethod(t, me) : t \in CalculateExpression(place, Obj(me))}
    [] me.name = "format" /\ Args(me) # <<>> -> CalculateStringFormatMethodCall(place, me)
    [] me.name = "get" /\ Args(me) # <<>> /\ Is(Obj(me), "IdExpression") ->
         CalculateGetMethodCall(place, me)
    [] OTHER -> {}

\* Without a known key all values of the dictionaries.
CalculateSubscript(outer, inner) ==
  UNION {CalculateEvalSubscriptExpression(i.node, o.node) : i \in inner, o \in outer}
  \cup (IF inner # {} THEN {}
        ELSE UNION {TextsOf(ValuesOf(o.node)) : o \in {d \in outer : Is(d.node, "DictionaryLiteral")}})

CalculateSubscriptExpression(place, sse) ==
  CalculateSubscript(AbstractEval(place, sse.kids[1]), AbstractEval(place, sse.kids[2]))

Positional(fe) == SelectSeq(Args(fe), LAMBDA a : ~Is(a, "KeywordItem"))

JoinPaths(place, fe) ==
  AllAbstractStringCombinations([i \in DOMAIN Positional(fe) |-> AbstractEval(place, Positional(fe)[i])])

CalculateFunctionExpression(place, fe) ==
  CASE fe.name = "get_option" -> GetOption(Args(fe))
    [] fe.name = "join_paths" -> TextsOf({f.node : f \in JoinPaths(place, fe)})
    [] OTHER -> {}

CalculateExpression(place, e) ==
  CASE Is(e, "StringLiteral") ->
         IF e.name = "f" THEN EvalFormatString(place, e.text) ELSE {e.text}
    [] Is(e, "BinaryExpression") -> CalculateBinaryExpression(place, e)
    [] Is(e, "MethodExpression") -> CalculateMethodExpression(place, e)
    [] Is(e, "IdExpression") -> CalculateIdExpression(place, e.name)
    [] Is(e, "SubscriptExpression") -> CalculateSubscriptExpression(place, e)
    [] Is(e, "FunctionExpression") -> CalculateFunctionExpression(place, e)
    [] Is(e, "ConditionalExpression") ->
         CalculateExpression(place, e.kids[2]) \cup CalculateExpression(place, e.kids[3])
    [] OTHER -> {}
-----------------------------------------------------------------------------
(***************************************************************************)
(* AbstractEval: the nodes of an expression.                               *)
(***************************************************************************)
AbstractEvalBinaryExpression(place, be) ==
  UNION {AbstractEvalComputeBinaryExpr(l.node, r.node, Separator(be)) :
           l \in AbstractEval(place, be.kids[1]), r \in AbstractEval(place, be.kids[2])}

AbstractEvalSubscript(outer, inner) ==
  UNION {AbstractEvalComputeSubscript(i.node, o.node) : i \in inner, o \in outer}
  \cup (IF inner # {} THEN {}
        ELSE {AsString(v) : v \in UNION {ValuesOf(o.node) : o \in {d \in outer : Is(d.node, "DictionaryLiteral")}}})

AbstractEvalSubscriptExpression(place, sse) ==
  AbstractEvalSubscript(AbstractEval(place, sse.kids[1]), AbstractEval(place, sse.kids[2]))

SplitsText(me) ==
  me.name = "split" /\ Args(me) # <<>> /\ Is(Args(me)[1], "StringLiteral")

AbstractEvalGenericSubscriptExpression(place, sse) ==
  LET outer == sse.kids[1]
      inner == sse.kids[2]
  IN  CASE inner.type \in {"StringLiteral", "IntegerLiteral"} /\ Is(outer, "IdExpression") ->
             UNION {AbstractEvalSimpleSubscript(inner, f) : f \in ResolveArrayOrDict(place, outer.name)}
        [] Is(inner, "IntegerLiteral") /\ Is(outer, "MethodExpression") /\ SplitsText(outer) ->
             UNION {AbstractEvalSplitWithSubscript(inner, Args(outer)[1].text[1], f.node) :
                      f \in AbstractEval(place, Obj(outer))}
        [] OTHER -> AbstractEvalSubscriptExpression(place, sse)

AbstractEvalFunction(place, fe) ==
  CASE fe.name = "join_paths" -> JoinPaths(place, fe)
    [] fe.name = "get_option" -> {Artificial(t) : t \in GetOption(Args(fe))}
    [] OTHER -> {}

AbstractEvalMethodExpression(place, me) ==
  CASE me.name = "format" /\ Args(me) # <<>> ->
         {Artificial(t) : t \in CalculateExpression(place, me)}
    [] me.name = "get" /\ Args(me) # <<>> /\ Is(Obj(me), "IdExpression") ->
         UNION {AbstractEvalGet(Args(me)[1], f) : f \in ResolveArrayOrDict(place, Obj(me).name)}
    [] me.name = "split" /\ Args(me) = <<>> ->
         {Words({f.node : f \in AbstractEval(place, Obj(me))})}
    [] IsValidMethod(me) ->
         UNION {AbstractEvalMethod(me, f.node) : f \in AbstractEval(place, Obj(me))}
    [] OTHER -> {}

AbstractEval(place, e) ==
  CASE Is(e, "DictionaryLiteral") -> {Found("DictNode", e)}
    [] Is(e, "ArrayLiteral") -> {Found("ArrayNode", e)}
    [] Is(e, "StringLiteral") -> {AsString(e)}
    [] Is(e, "IntegerLiteral") -> {Found("IntNode", e)}
    [] Is(e, "BinaryExpression") -> AbstractEvalBinaryExpression(place, e)
    [] Is(e, "IdExpression") -> ResolveArrayOrDict(place, e.name)
    [] Is(e, "MethodExpression") -> AbstractEvalMethodExpression(place, e)
    [] Is(e, "ConditionalExpression") -> EvalAll(place, {e.kids[2], e.kids[3]})
    [] Is(e, "SubscriptExpression") -> AbstractEvalGenericSubscriptExpression(place, e)
    [] Is(e, "FunctionExpression") -> AbstractEvalFunction(place, e)
    [] OTHER -> {}

\* The texts of nodes of a call; its place is that of the statement it is in.
Guess(place, nodes) == UNION {CalculateExpression(place, n) : n \in nodes}

\* The node that names what a call is about: an argument, or a keyword argument.
FirstArgument(call) == {Args(call)[i] : i \in {1} \cap DOMAIN Args(call)}
KeywordArgument(call, name) ==
  {a.kids[1] : a \in {b \in ToSet(Args(call)) : Is(b, "KeywordItem") /\ b.name = name}}

GuessSetVariable(place, call) == Guess(place, FirstArgument(call))
================================================================================
