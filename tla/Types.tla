--------------------------------- MODULE Types ---------------------------------
(***************************************************************************)
(* The types of Meson (libobjects) and the tables of its functions and     *)
(* methods (libtypenamespace).  The vectors of types in the code are sets  *)
(* here: their order matters where First is used, their multiplicity       *)
(* nowhere.                                                                *)
(***************************************************************************)
EXTENDS Integers, Sequences, SequencesExt, FiniteSetsExt

CONSTANTS
  ParentOf,     \* [tag of an object type -> tag of the type it extends]
  Tags,         \* the tags in the order dedup lists them
  Functions,    \* the functions
  Methods       \* the methods, as a sequence ordered by their types

Type(tag, of) == [tag |-> tag, of |-> of]
T(tag) == Type(tag, {})
List(types) == Type("list", types)
Dict(types) == Type("dict", types)
\* The names a subproject may have are kept as types.
Subproject(names) == Type("subproject", {T(name) : name \in names})

\* The others are objects.
Basic == {"any", "bool", "int", "str", "void", "list", "dict"}
Compound == {"list", "dict", "subproject"}
TagsOf(types) == {t.tag : t \in types}
Tagged(types, tag) == {t \in types : t.tag = tag}
Inner(types, tag) == UNION {t.of : t \in Tagged(types, tag)}

\* One type for each tag.
RECURSIVE Dedup(_)
Dedup(types) ==
  IF Cardinality(types) <= 1 THEN types
  ELSE {t \in types : t.tag \notin Compound}
       \cup {Type(tag, Dedup(Inner(types, tag))) : tag \in Compound \cap TagsOf(types)}

Rank(type) == CHOOSE i \in DOMAIN Tags : Tags[i] = type.tag
First(types) == CHOOSE t \in types : \A u \in types : Rank(t) <= Rank(u)

IsType(type, tag) == type.tag \in {tag, "any"}
SameType(first, second, tag) == IsType(first, tag) /\ IsType(second, tag)

\* What get_variable and the like return when nothing is known.
Anything == {T("any"), List({T("any")}), Dict({T("any")})}
IsSpecial(types) == types = Anything
-----------------------------------------------------------------------------
(***************************************************************************)
(* May an argument of a type be given where another one is expected?       *)
(***************************************************************************)
RECURSIVE Compatible(_, _)

Fits(given, expected) ==
  expected.tag \in {"any", "disabler"} \/ given.tag = "any" \/ Compatible(given, expected)

AtleastPartiallyCompatible(expected, given) ==
  \/ given = {}
  \/ \E g \in given : g.tag \in {"any", "disabler"} \/ \E e \in expected : Fits(g, e)

Compatible(given, expected) ==
  \/ given = expected
  \/ given.tag \in DOMAIN ParentOf /\ Compatible(T(ParentOf[given.tag]), expected)
  \/ /\ given.tag = expected.tag /\ given.tag \in {"list", "dict"}
     /\ AtleastPartiallyCompatible(expected.of, given.of)
  \/ /\ given.tag = "list" /\ expected.tag # "list"
     /\ given.of = {} \/ \E g \in given.of : Fits(g, expected)
  \/ /\ given.tag # "list" /\ expected.tag = "list"
     /\ \E e \in expected.of : Fits(given, e)
-----------------------------------------------------------------------------
(***************************************************************************)
(* Functions and methods.  owner is the tag of the type of a method and    *)
(* empty for a function.                                                   *)
(***************************************************************************)
PosArgs(func) == SelectSeq(func.args, LAMBDA a : ~a.keyword)
Kwargs(func) == {a \in ToSet(func.args) : a.keyword}
RequiredKwargs(func) == {a.name : a \in {k \in Kwargs(func) : ~k.optional}}

MinPosArgs(func) ==
  LET optional == {i \in DOMAIN PosArgs(func) : PosArgs(func)[i].optional}
  IN  IF optional = {} THEN Len(PosArgs(func)) ELSE Min(optional) - 1

TooMany(func, count) ==
  count > Len(PosArgs(func)) /\ \A i \in DOMAIN PosArgs(func) : ~PosArgs(func)[i].varargs

\* The argument at a position, or the last one.
PosArg(func, i) ==
  IF PosArgs(func) = <<>> THEN {} ELSE {PosArgs(func)[Min({i, Len(PosArgs(func))})]}

Id(func) == <<func.owner, func.name>>

LookupFunction(name) == {f \in Functions : f.name = name}

RECURSIVE LookupMethod(_, _)
LookupMethod(name, tag) ==
  LET own == {m \in ToSet(Methods) : m.owner = tag /\ m.name = name}
  IN  IF own = {} /\ tag \in DOMAIN ParentOf THEN LookupMethod(name, ParentOf[tag]) ELSE own

\* The first method of that name, whatever its type.
AnyMethod(name) ==
  LET named == {i \in DOMAIN Methods : Methods[i].name = name}
  IN  IF named = {} THEN {} ELSE {Methods[Min(named)]}
-----------------------------------------------------------------------------
(***************************************************************************)
(* Versions: their parts are compared as strings, digit by digit.          *)
(***************************************************************************)
StringAfter(s, t) ==
  \/ \E i \in DOMAIN s \cap DOMAIN t : s[i] > t[i] /\ SubSeq(s, 1, i - 1) = SubSeq(t, 1, i - 1)
  \/ Len(s) > Len(t) /\ SubSeq(s, 1, Len(t)) = t

After(version, other) ==
  LET different == {i \in DOMAIN version \cap DOMAIN other : version[i] # other[i]}
  IN  IF different # {} THEN StringAfter(version[Min(different)], other[Min(different)])
      ELSE Len(version) > Len(other) /\ Last(version) # <<0>>
================================================================================
